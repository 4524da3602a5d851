------------------------------ MODULE MCLicences ------------------------------
EXTENDS Licences, TLC

CONSTANTS q1, q2, o1, o2, u1, u2
==============================================================================
