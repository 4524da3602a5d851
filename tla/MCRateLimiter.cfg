SPECIFICATION Spec
CONSTANTS
  alice = alice
  bob = bob
  Scope = {alice, bob}
  Second = 1
  Cost = 3
  IdleEvict = 4
  MaxNow = 10
INVARIANTS TypeOK WithinRate PatienceIsEnough
SYMMETRY Symmetry
