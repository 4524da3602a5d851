------------------------------- MODULE FireTimes -------------------------------
(***************************************************************************)
(* When a housing reminder fires: relay/internal/scheduling/firetimes.go.  *)
(* Instants are hours since an epoch that starts a UTC day; a zone is its  *)
(* offset from UTC in hours (daylight saving is left out: an offset holds  *)
(* for the whole of a reminder's life).                                    *)
(***************************************************************************)
EXTENDS Integers

Day == 24
localFireHour == 14

\* How many days before the due date J reminders fire; 0 is J itself.
BeforeDateDayOffsets(recurrencePeriodDays) ==
  IF recurrencePeriodDays < 20 THEN {2, 0}
  ELSE IF recurrencePeriodDays <= 40 THEN {4, 2, 0}
  ELSE {6, 2, 0}

\* The calendar date of an instant in a zone, counted in days.
DueCalendarDate(dueAt, zone) == (dueAt + zone) \div Day

\* 14:00 on a calendar date of a zone, as an instant.
LocalFireAt(date, zone) == Day * date + localFireHour - zone

HousingBeforeDateFires(dueAt, days, zone, after) ==
  {at \in {LocalFireAt(DueCalendarDate(dueAt, zone) - k, zone) :
             k \in BeforeDateDayOffsets(days)} : at > after}

HousingOverdueFires(dueAt, zone, after) ==
  {at \in {LocalFireAt(DueCalendarDate(dueAt, zone) + 1, zone)} : at > after}
================================================================================
