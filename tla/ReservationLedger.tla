-------------------------- MODULE ReservationLedger --------------------------
(***************************************************************************)
(* The reservation tables and every operation that changes them, each one  *)
(* a transaction that runs alone.  ReservationTransactions models how      *)
(* those transactions interleave.                                          *)
(*                                                                         *)
(* A reservation is identified by its slot, the student, date and period   *)
(* of the unique index; a slot without a row is "NONE".                    *)
(*                                                                         *)
(* A definition Bug_... is the one after it with a plausible mistake: no   *)
(* specification uses it, the mutants of PROJECT.json put it in its place. *)
(***************************************************************************)
EXTENDS ReservationRules, FiniteSets

CONSTANTS Students,       \* accounts of role STUDENT
          Periods,        \* the study periods (EIGHTH and FIRST)
          LastDay,        \* bound: the last day of the model
          Capacities,     \* capacities an administrator may set
          Windows,        \* pairs <<openTime, closeTime>> they may set
          SanctionDays,   \* lengths of a restriction they may set, in days
          SettingTargets, \* bound: the rows a Discord command may edit
          DefaultSetting, \* the setting of a period no row describes
          NoRow,          \* stands for a settings row that does not exist
          RowSecurity     \* TRUE when the connection is subject to the row
                          \* policies (the deployed runtime role)

Dates == 0 .. LastDay
Global == -1   \* the date of the row that holds for all dates

Settings == [capacity : Nat \ {0}, openTime : Minutes, closeTime : Minutes,
             enabled : BOOLEAN]

ASSUME LedgerAssumption ==
    /\ IsFiniteSet(Students)
    /\ LastDay \in Nat
    /\ Capacities \subseteq Nat \ {0}
    /\ Windows \subseteq Minutes \X Minutes
    /\ SanctionDays \subseteq Nat \ {0}
    /\ SettingTargets \subseteq Dates \cup {Global}
    /\ DefaultSetting \in Settings
    /\ NoRow \notin Settings
    /\ RowSecurity \in BOOLEAN

VARIABLES now,          \* the clock: a day and a minute of it
          reservation,  \* slot -> status of its row, or "NONE"
          account,      \* student -> booking status and its end
          sanctions,    \* student -> the ACTIVE UserSanction rows
          setting       \* (date or Global, period) -> PeriodSetting row

vars == <<now, reservation, account, sanctions, setting>>

Slots == Students \X Dates \X Periods
SanctionTypes == {"CANCELLATION_RESTRICTION", "NO_SHOW_BAN",
                  "ADMIN_RESTRICTION", "ADMIN_BAN"}
Sanctions == [type : SanctionTypes, endsAt : Instants \cup {NoInstant}]

AccountRecords == [bookingStatus : BookingStatuses,
                   restrictedUntil : Instants \cup {NoInstant}]

TypeOK ==
    /\ now \in [day : Dates, minute : Minutes]
    /\ reservation \in [Slots -> ReservationStatuses \cup {"NONE"}]
    /\ account \in [Students -> AccountRecords]
    /\ sanctions \in [Students -> SUBSET Sanctions]
    /\ setting \in [(Dates \cup {Global}) \X Periods -> Settings \cup {NoRow}]

Init ==
    /\ now = [day |-> 0, minute |-> 0]
    /\ reservation = [s \in Slots |-> "NONE"]
    /\ account = [u \in Students |-> [bookingStatus   |-> "ACTIVE",
                                      restrictedUntil |-> NoInstant]]
    /\ sanctions = [u \in Students |-> {}]
    /\ setting = [k \in (Dates \cup {Global}) \X Periods |-> NoRow]

-----------------------------------------------------------------------------
EffectiveSetting(d, p) ==
    Resolve(setting[<<d, p>>], setting[<<Global, p>>], NoRow, DefaultSetting)

ConfirmedFor(d, p) == {u \in Students : reservation[<<u, d, p>>] = "CONFIRMED"}

(* The policy reservation_select_owner_admin_system shows a student only   *)
(* the rows of that student.                                               *)
VisibleToStudent(u) == IF RowSecurity THEN {u} ELSE Students

(* No row holds the identity yet, whatever its status, and a seat is left. *)
Bug_SlotIsUnconfirmed(s) == reservation[s] # "CONFIRMED"
SlotIsNew(s) == reservation[s] = "NONE"

Bug_SeatLeftLate(counted, effective) == Cardinality(counted) <= effective.capacity
SeatLeft(counted, effective) == Cardinality(counted) < effective.capacity

(* The checks a new reservation passes, in the code's order; counted is    *)
(* the set of confirmed rows the transaction counts.                       *)
MayReserve(u, d, p, counted) ==
    LET effective == EffectiveSetting(d, p)
    IN  /\ account[u].bookingStatus # "SHADOW_BANNED"
        /\ ~IsRestricted(account[u], now)
        /\ IsReservableDate(d, now)
        /\ effective.enabled
        /\ PeriodWindowState(effective, d, now) = "open"
        /\ SlotIsNew(<<u, d, p>>)
        /\ SeatLeft(counted, effective)

(* A student reserves: reserveStudyPeriod under the student's own actor.   *)
ReserveStudyPeriod(u, d, p) ==
    /\ MayReserve(u, d, p, ConfirmedFor(d, p) \cap VisibleToStudent(u))
    /\ reservation' = [reservation EXCEPT ![<<u, d, p>>] = "CONFIRMED"]
    /\ UNCHANGED <<now, account, sanctions, setting>>

(* An administrator reserves for a student.                                *)
CreateAdministratorReservation(u, d, p) ==
    /\ MayReserve(u, d, p, ConfirmedFor(d, p))
    /\ reservation' = [reservation EXCEPT ![<<u, d, p>>] = "CONFIRMED"]
    /\ UNCHANGED <<now, account, sanctions, setting>>

(* A student cancels one of their reservations, whatever its date.  Unless *)
(* shadow banned, the student is restricted for three days.                *)
CancelOwnedReservation(s) ==
    LET u == s[1]
        restricted == StudentCancellationRestriction(now)
        others == {row \in sanctions[u] : row.type # "CANCELLATION_RESTRICTION"}
    IN  /\ reservation[s] = "CONFIRMED"
        /\ reservation' = [reservation EXCEPT ![s] = "CANCELLED"]
        /\ IF account[u].bookingStatus = "SHADOW_BANNED"
           THEN UNCHANGED <<account, sanctions>>
           ELSE /\ account' = [account EXCEPT ![u] = restricted]
                /\ sanctions' = [sanctions EXCEPT ![u] =
                      others \cup {[type   |-> "CANCELLATION_RESTRICTION",
                                    endsAt |-> restricted.restrictedUntil]}]
        /\ UNCHANGED <<now, setting>>

CancelAdministratorReservation(s) ==
    /\ reservation[s] = "CONFIRMED"
    /\ reservation' = [reservation EXCEPT ![s] = "CANCELLED"]
    /\ UNCHANGED <<now, account, sanctions, setting>>

Bug_CancellableToday(u) ==
    {s \in Slots : s[1] = u /\ reservation[s] = "CONFIRMED" /\ s[2] = now.day}

(* The reservations a ban takes away: those ahead, and those of today      *)
(* whose window is not closed.                                             *)
CancellableSlots(u) ==
    {s \in Slots :
        /\ s[1] = u
        /\ reservation[s] = "CONFIRMED"
        /\ \/ s[2] > now.day
           \/ /\ s[2] = now.day
              /\ PeriodWindowState(EffectiveSetting(s[2], s[3]), s[2], now) # "closed"}

(* Every ACTIVE sanction of the student is revoked and one of the given     *)
(* type takes their place, with the status it stands for.                  *)
Sanction(u, type, status, end) ==
    /\ account' = [account EXCEPT ![u] = [bookingStatus |-> status, restrictedUntil |-> end]]
    /\ sanctions' = [sanctions EXCEPT ![u] = {[type |-> type, endsAt |-> end]}]

(* A no-show: allowed once the window of a stored setting has closed; bans *)
(* the student and cancels what the student still has ahead.               *)
MarkNoShow(s) ==
    LET u == s[1]
        stored == Resolve(setting[<<s[2], s[3]>>], setting[<<Global, s[3]>>], NoRow, NoRow)
    IN  /\ reservation[s] = "CONFIRMED"
        /\ stored # NoRow
        /\ s[2] <= now.day
        /\ PeriodWindowState(stored, s[2], now) = "closed"
        /\ reservation' = [r \in Slots |->
              IF r = s THEN "NO_SHOW"
              ELSE IF r \in CancellableSlots(u) THEN "CANCELLED" ELSE reservation[r]]
        /\ Sanction(u, "NO_SHOW_BAN", "BANNED", NoInstant)
        /\ UNCHANGED <<now, setting>>

(* An administrator restricts, bans or shadow bans a student.  A banned    *)
(* student can only be banned again.  A ban cancels what lies ahead.       *)
ApplySanction(u, status) ==
    /\ account[u].bookingStatus = "BANNED" => status = "BANNED"
    /\ IF status = "RESTRICTED"
       THEN \E days \in SanctionDays :
               Sanction(u, "ADMIN_RESTRICTION", status, PlusDays(now, days))
       ELSE Sanction(u, "ADMIN_BAN", status, NoInstant)
    /\ reservation' = [r \in Slots |->
          IF status = "BANNED" /\ r \in CancellableSlots(u) THEN "CANCELLED"
          ELSE reservation[r]]
    /\ UNCHANGED <<now, setting>>

RemoveSanction(u) ==
    /\ account' = [account EXCEPT ![u] = Unrestricted]
    /\ sanctions' = [sanctions EXCEPT ![u] = {}]
    /\ UNCHANGED <<now, reservation, setting>>

(* The daily maintenance, in two transactions of their own for each batch: *)
(* restrictions that have run out are lifted, then sanctions revoked.      *)
ReleasableStudents ==
    {u \in Students : /\ account[u].bookingStatus = "RESTRICTED"
                      /\ RanOut(account[u].restrictedUntil, now)}

ReleaseExpiredRestrictions(batch) ==
    /\ account' = [u \in Students |-> IF u \in batch THEN Unrestricted ELSE account[u]]
    /\ UNCHANGED <<now, reservation, sanctions, setting>>

Bug_ExpiredSanctions == UNION {{u} \X sanctions[u] : u \in Students}
ExpiredSanctions == UNION {{u} \X {row \in sanctions[u] : RanOut(row.endsAt, now)} : u \in Students}

RevokeExpiredSanctions(batch) ==
    /\ sanctions' = [u \in Students |-> {row \in sanctions[u] : <<u, row>> \notin batch}]
    /\ UNCHANGED <<now, reservation, account, setting>>

(* The settings page of the console overwrites the rows of all dates.      *)
PatchPeriodSettings(p, row) ==
    /\ setting' = [k \in DOMAIN setting |->
          IF k[2] = p /\ (setting[k] # NoRow \/ k[1] = Global) THEN row ELSE setting[k]]
    /\ UNCHANGED <<now, reservation, account, sanctions>>

(* The three changes a Discord settings command can make to a row.         *)
SettingIntents ==
    [capacity : Capacities] \cup [enabled : BOOLEAN]
        \cup {[openTime |-> w[1], closeTime |-> w[2]] : w \in Windows}

ApplySettingIntent(row, intent) ==
    [f \in DOMAIN row |-> IF f \in DOMAIN intent THEN intent[f] ELSE row[f]]

(* The Discord settings command: one date, or with target Global all dates *)
(* after today (the changed field only) and the global row.                *)
UpdateDiscordPeriodSetting(target, p, intent) ==
    LET before == Resolve(setting[<<target, p>>], setting[<<Global, p>>],
                          NoRow, DefaultSetting)
        Upcoming(k) == target = Global /\ k[2] = p /\ k[1] > now.day
    IN  /\ setting' = [k \in DOMAIN setting |->
              IF k = <<target, p>> THEN ApplySettingIntent(before, intent)
              ELSE IF Upcoming(k) /\ setting[k] # NoRow
                   THEN ApplySettingIntent(setting[k], intent)
              ELSE setting[k]]
        /\ UNCHANGED <<now, reservation, account, sanctions>>

AdvanceClock ==
    /\ \/ now.minute < LastMinute /\ now' = [day |-> now.day, minute |-> now.minute + 1]
       \/ /\ now.minute = LastMinute /\ now.day < LastDay
          /\ now' = [day |-> now.day + 1, minute |-> 0]
    /\ UNCHANGED <<reservation, account, sanctions, setting>>

Reserving == \E u \in Students, d \in Dates, p \in Periods :
    ReserveStudyPeriod(u, d, p) \/ CreateAdministratorReservation(u, d, p)

Ending == \E s \in Slots :
    CancelOwnedReservation(s) \/ CancelAdministratorReservation(s) \/ MarkNoShow(s)

Sanctioning == \E u \in Students :
    \/ \E status \in {"RESTRICTED", "BANNED", "SHADOW_BANNED"} : ApplySanction(u, status)
    \/ RemoveSanction(u)

Maintaining ==
    \/ \E batch \in (SUBSET ReleasableStudents) \ {{}} : ReleaseExpiredRestrictions(batch)
    \/ \E batch \in (SUBSET ExpiredSanctions) \ {{}} : RevokeExpiredSanctions(batch)

PatchedRows ==
    {[capacity |-> c, openTime |-> w[1], closeTime |-> w[2], enabled |-> e] :
        c \in Capacities, w \in Windows, e \in BOOLEAN}

Configuring == \E p \in Periods :
    \/ \E row \in PatchedRows : PatchPeriodSettings(p, row)
    \/ \E target \in SettingTargets, intent \in SettingIntents :
          UpdateDiscordPeriodSetting(target, p, intent)

Next == Reserving \/ Ending \/ Sanctioning \/ Maintaining \/ Configuring \/ AdvanceClock

Spec == Init /\ [][Next]_vars

-----------------------------------------------------------------------------
(* The status of a student is the one the ACTIVE sanction rows explain: a  *)
(* ban or shadow ban has exactly the one permanent row of its kind, a      *)
(* restriction still in force a row with the same end, and no student has  *)
(* two rows of one type.  Every operation that changes one table must      *)
(* change the other to match, the daily maintenance included.              *)
PermanentRow(type) == [type |-> type, endsAt |-> NoInstant]

SanctionsExplain(rows, acc, t) ==
    /\ \A row1, row2 \in rows : row1.type = row2.type => row1 = row2
    /\ acc.bookingStatus = "BANNED" =>
          rows = {PermanentRow("ADMIN_BAN")} \/ rows = {PermanentRow("NO_SHOW_BAN")}
    /\ acc.bookingStatus = "SHADOW_BANNED" => rows = {PermanentRow("ADMIN_BAN")}
    /\ acc.bookingStatus = "RESTRICTED" /\ ~RanOut(acc.restrictedUntil, t)
          => \E row \in rows : row.endsAt = acc.restrictedUntil

SanctionsMatchStatus ==
    \A u \in Students : SanctionsExplain(sanctions[u], account[u], now)

(* A banned student holds no reservation on a later day: a ban, or a       *)
(* no-show, takes away all of them and no other operation gives one back.  *)
BannedHoldNothingAhead ==
    \A s \in Slots :
        account[s[1]].bookingStatus = "BANNED" /\ s[2] > now.day
            => reservation[s] # "CONFIRMED"

(* Nobody holds a slot beyond the Friday of the current school week, on    *)
(* whatever day it was reserved and however the clock moved since.         *)
NothingBeyondFriday ==
    \A s \in Slots :
        reservation[s] # "NONE" /\ s[2] > now.day
            => /\ KstDayOfWeek(now.day) \in 1 .. 4
               /\ s[2] <= now.day + 5 - KstDayOfWeek(now.day)

(* A slot that was cancelled or ended in a no-show keeps that row for      *)
(* ever: it is never confirmed again and the two endings never replace     *)
(* each other.                                                             *)
IdentityNeverReused ==
    [][\A s \in Slots : reservation[s] \in {"CANCELLED", "NO_SHOW"}
                          => reservation'[s] = reservation[s]]_vars

(* The seats of a period are limited by its effective capacity: whenever a *)
(* step confirms a reservation, the confirmed rows fit the capacity in     *)
(* force, even when an administrator lowered it below what was taken.      *)
NewSeatsFit ==
    \A d \in Dates, p \in Periods :
        ConfirmedFor(d, p)' \subseteq ConfirmedFor(d, p)
          \/ Cardinality(ConfirmedFor(d, p)') <= EffectiveSetting(d, p)'.capacity

SeatsWithinCapacity == [][NewSeatsFit]_vars

(* The count of a student's booking is of the rows the student may see     *)
(* (prisma-reservation-store.ts, countConfirmedReservations, and the row   *)
(* policies), so the seats of others that are hidden are the only way past *)
(* the capacity: nothing that an administrator books, no maintenance and   *)
(* no change of settings, in whatever order, leads there.                  *)
UnseenSeats(u, d, p) == ConfirmedFor(d, p) \ VisibleToStudent(u)

PastHiddenSeats ==
    \E u \in Students, d \in Dates, p \in Periods :
        ReserveStudyPeriod(u, d, p) /\ UnseenSeats(u, d, p) # {}
ByAdministrator ==
    \E u \in Students, d \in Dates, p \in Periods :
        CreateAdministratorReservation(u, d, p)

OnlyUnseenSeatsOverbook ==
    [][NewSeatsFit \/ (PastHiddenSeats /\ ~ByAdministrator)]_vars
=============================================================================
