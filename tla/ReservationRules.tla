-------------------------- MODULE ReservationRules --------------------------
(***************************************************************************)
(* The rules the server applies to one reservation request, as operators   *)
(* of their arguments: the Korean calendar day and minute of an instant,   *)
(* the advance-reservation policy, the state of a period's booking window  *)
(* and the booking restriction of a student.                               *)
(*                                                                         *)
(* An instant is a record [day, minute].  Korea has no daylight saving, so *)
(* the minutes of a day are always 0 .. LastMinute and adding a number of  *)
(* days leaves the minute alone.  A date is the number of its day.         *)
(***************************************************************************)
EXTENDS Integers

CONSTANTS LastMinute,    \* the last minute of a day (1439; a model uses few)
          FirstWeekday   \* the day of the week of day 0; Sunday is 0

ASSUME ClockAssumption == LastMinute \in Nat /\ FirstWeekday \in 0 .. 6

Minutes == 0 .. LastMinute
Instants == [day : Nat, minute : Minutes]
NoInstant == [day |-> -1, minute |-> 0]   \* a null timestamp

Later(a, b) == a.day > b.day \/ (a.day = b.day /\ a.minute > b.minute)

(* A timestamp that has come, if it is set at all. *)
RanOut(end, t) == end # NoInstant /\ ~Later(end, t)

PlusDays(t, days) == [day |-> t.day + days, minute |-> t.minute]

KstDayOfWeek(day) == (FirstWeekday + day) % 7

Bug_AdvanceDatesSaturday(today) ==
    IF KstDayOfWeek(today) \in 1 .. 5
    THEN (today + 1) .. (today + 6 - KstDayOfWeek(today))
    ELSE {}

(* From Monday to Thursday the rest of the school week can be booked ahead. *)
AdvanceDates(today) ==
    IF KstDayOfWeek(today) \in 1 .. 4
    THEN (today + 1) .. (today + 5 - KstDayOfWeek(today))
    ELSE {}

IsReservableDate(date, t) == date = t.day \/ date \in AdvanceDates(t.day)

(* The window compares the time of day only: on a date still ahead it opens *)
(* and closes every day at the same hours.                                  *)
PeriodWindowState(setting, date, t) ==
    CASE t.day > date                                           -> "closed"
      [] t.day <= date /\ t.minute < setting.openTime           -> "not_open_yet"
      [] t.day <= date /\ t.minute >= setting.openTime
                       /\ t.minute > setting.closeTime          -> "closed"
      [] t.day <= date /\ t.minute >= setting.openTime
                       /\ t.minute <= setting.closeTime         -> "open"

(* The effective setting of a period: the row of the date, else the global  *)
(* row, else the built-in default.                                          *)
Resolve(dateRow, globalRow, noRow, default) ==
    IF dateRow # noRow THEN dateRow
    ELSE IF globalRow # noRow THEN globalRow
    ELSE default

BookingStatuses == {"ACTIVE", "RESTRICTED", "BANNED", "SHADOW_BANNED"}
ReservationStatuses == {"CONFIRMED", "CANCELLED", "NO_SHOW"}

IsRestricted(account, t) ==
    \/ account.bookingStatus = "BANNED"
    \/ /\ account.bookingStatus = "RESTRICTED"
       /\ \/ account.restrictedUntil = NoInstant
          \/ Later(account.restrictedUntil, t)

CancellationRestrictionDays == 3

StudentCancellationRestriction(t) ==
    [bookingStatus   |-> "RESTRICTED",
     restrictedUntil |-> PlusDays(t, CancellationRestrictionDays)]

Unrestricted == [bookingStatus |-> "ACTIVE", restrictedUntil |-> NoInstant]
=============================================================================
