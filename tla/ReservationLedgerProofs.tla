----------------------- MODULE ReservationLedgerProofs -----------------------
(***************************************************************************)
(* Proofs about ReservationLedger, for any number of students, periods and *)
(* days and any settings an administrator may choose.                      *)
(***************************************************************************)
EXTENDS ReservationLedger, FiniteSetTheorems, TLAPS

(* Changing one field group of a well-formed settings row leaves it well   *)
(* formed, so the Discord command cannot corrupt a row.                    *)
LEMMA SettingIntentType ==
    ASSUME NEW row \in Settings, NEW intent \in SettingIntents
    PROVE  ApplySettingIntent(row, intent) \in Settings
<1> USE LedgerAssumption
<1>1. DOMAIN row = {"capacity", "openTime", "closeTime", "enabled"}
  BY DEF Settings
<1>2. /\ row.capacity \in Nat \ {0} /\ row.openTime \in Minutes
      /\ row.closeTime \in Minutes /\ row.enabled \in BOOLEAN
  BY DEF Settings
<1>3. CASE intent \in [capacity : Capacities]
  <2>1. DOMAIN intent = {"capacity"} /\ intent.capacity \in Nat \ {0}
    BY <1>3
  <2>2. ApplySettingIntent(row, intent)
          = [capacity |-> intent.capacity, openTime |-> row.openTime,
             closeTime |-> row.closeTime, enabled |-> row.enabled]
    BY <1>1, <2>1 DEF ApplySettingIntent
  <2> QED BY <1>2, <2>1, <2>2 DEF Settings
<1>4. CASE intent \in [enabled : BOOLEAN]
  <2>1. DOMAIN intent = {"enabled"} /\ intent.enabled \in BOOLEAN
    BY <1>4
  <2>2. ApplySettingIntent(row, intent)
          = [capacity |-> row.capacity, openTime |-> row.openTime,
             closeTime |-> row.closeTime, enabled |-> intent.enabled]
    BY <1>1, <2>1 DEF ApplySettingIntent
  <2> QED BY <1>2, <2>1, <2>2 DEF Settings
<1>5. CASE intent \in {[openTime |-> w[1], closeTime |-> w[2]] : w \in Windows}
  <2>1. PICK w \in Windows : intent = [openTime |-> w[1], closeTime |-> w[2]]
    BY <1>5
  <2>2. w[1] \in Minutes /\ w[2] \in Minutes
    OBVIOUS
  <2>3. /\ DOMAIN intent = {"openTime", "closeTime"}
        /\ intent.openTime \in Minutes /\ intent.closeTime \in Minutes
    BY <2>1, <2>2
  <2>4. ApplySettingIntent(row, intent)
          = [capacity |-> row.capacity, openTime |-> intent.openTime,
             closeTime |-> intent.closeTime, enabled |-> row.enabled]
    BY <1>1, <2>3 DEF ApplySettingIntent
  <2> QED BY <1>2, <2>3, <2>4 DEF Settings
<1> QED BY <1>3, <1>4, <1>5 DEF SettingIntents

(* Whatever rows exist, the effective setting of a period is well formed.  *)
LEMMA ResolveType ==
    ASSUME NEW a \in Settings \cup {NoRow}, NEW b \in Settings \cup {NoRow}
    PROVE  Resolve(a, b, NoRow, DefaultSetting) \in Settings
BY LedgerAssumption DEF Resolve

LEMMA PatchedRowType == PatchedRows \subseteq Settings
<1> SUFFICES ASSUME NEW c \in Capacities, NEW w \in Windows, NEW e \in BOOLEAN
             PROVE  [capacity |-> c, openTime |-> w[1], closeTime |-> w[2],
                     enabled |-> e] \in Settings
  BY DEF PatchedRows
<1>1. c \in Nat \ {0} /\ w[1] \in Minutes /\ w[2] \in Minutes
  BY LedgerAssumption
<1> QED BY <1>1 DEF Settings

-----------------------------------------------------------------------------
(* Every value the operations store has its declared type.                 *)
LEMMA TypeStep == TypeOK /\ [Next]_vars => TypeOK'
<1> SUFFICES ASSUME TypeOK, [Next]_vars PROVE TypeOK'
  OBVIOUS
<1> USE LedgerAssumption, ClockAssumption DEF TypeOK
<1>1. ASSUME NEW u \in Students, NEW d \in Dates, NEW p \in Periods,
             ReserveStudyPeriod(u, d, p) \/ CreateAdministratorReservation(u, d, p)
      PROVE  TypeOK'
  <2>1. <<u, d, p>> \in Slots
    BY DEF Slots
  <2> QED BY <1>1, <2>1 DEF ReserveStudyPeriod, CreateAdministratorReservation,
                            ReservationStatuses
<1>2. ASSUME NEW s \in Slots, CancelOwnedReservation(s)
      PROVE  TypeOK'
  <2>1. s[1] \in Students
    BY DEF Slots
  <2>2. StudentCancellationRestriction(now) \in AccountRecords
    BY DEF StudentCancellationRestriction, PlusDays, CancellationRestrictionDays,
           AccountRecords, BookingStatuses, Instants, Dates
  <2>3. reservation' \in [Slots -> ReservationStatuses \cup {"NONE"}]
    BY <1>2 DEF CancelOwnedReservation, ReservationStatuses
  <2>4. account' \in [Students -> AccountRecords]
    BY <1>2, <2>1, <2>2 DEF CancelOwnedReservation
  <2>5. sanctions' \in [Students -> SUBSET Sanctions]
    <3> DEFINE row == [type   |-> "CANCELLATION_RESTRICTION",
                       endsAt |-> StudentCancellationRestriction(now).restrictedUntil]
               others == {r \in sanctions[s[1]] : r.type # "CANCELLATION_RESTRICTION"}
    <3>1. row \in Sanctions
      BY <2>2 DEF Sanctions, SanctionTypes, AccountRecords
    <3>2. others \subseteq Sanctions
      BY <2>1
    <3>3. \/ sanctions' = sanctions
          \/ sanctions' = [sanctions EXCEPT ![s[1]] = others \cup {row}]
      BY <1>2 DEF CancelOwnedReservation
    <3> HIDE DEF row, others
    <3> QED BY <2>1, <3>1, <3>2, <3>3
  <2> QED BY <1>2, <2>3, <2>4, <2>5 DEF CancelOwnedReservation
<1>3. ASSUME NEW s \in Slots, CancelAdministratorReservation(s)
      PROVE  TypeOK'
  BY <1>3 DEF CancelAdministratorReservation, ReservationStatuses
<1>4. ASSUME NEW u \in Students, NEW t \in SanctionTypes, NEW status \in BookingStatuses,
             NEW end \in Instants \cup {NoInstant}, Sanction(u, t, status, end)
      PROVE  account' \in [Students -> AccountRecords] /\ sanctions' \in [Students -> SUBSET Sanctions]
  <2> DEFINE acc == [bookingStatus |-> status, restrictedUntil |-> end]
             row == [type |-> t, endsAt |-> end]
  <2>1. acc \in AccountRecords /\ row \in Sanctions
    BY DEF AccountRecords, Sanctions
  <2>2. account' = [account EXCEPT ![u] = acc] /\ sanctions' = [sanctions EXCEPT ![u] = {row}]
    BY <1>4 DEF Sanction
  <2> HIDE DEF acc, row
  <2> QED BY <2>1, <2>2
<1>5. Unrestricted \in AccountRecords
  BY DEF Unrestricted, AccountRecords, BookingStatuses
<1>6. ASSUME NEW s \in Slots, MarkNoShow(s)
      PROVE  TypeOK'
  <2>1. s[1] \in Students
    BY DEF Slots
  <2>2. reservation' \in [Slots -> ReservationStatuses \cup {"NONE"}]
    BY <1>6 DEF MarkNoShow, ReservationStatuses
  <2>3. /\ account' \in [Students -> AccountRecords]
        /\ sanctions' \in [Students -> SUBSET Sanctions]
    BY <1>4, <1>6, <2>1 DEF MarkNoShow, BookingStatuses, SanctionTypes
  <2> QED BY <1>6, <2>2, <2>3 DEF MarkNoShow
<1>7. ASSUME NEW u \in Students, NEW status \in {"RESTRICTED", "BANNED", "SHADOW_BANNED"},
             ApplySanction(u, status)
      PROVE  TypeOK'
  <2>1. reservation' \in [Slots -> ReservationStatuses \cup {"NONE"}]
    BY <1>7 DEF ApplySanction, ReservationStatuses
  <2>2. \A days \in SanctionDays : PlusDays(now, days) \in Instants
    BY DEF PlusDays, Instants, Dates
  <2>3. /\ account' \in [Students -> AccountRecords]
        /\ sanctions' \in [Students -> SUBSET Sanctions]
    BY <1>4, <1>7, <2>2 DEF ApplySanction, BookingStatuses, SanctionTypes
  <2> QED BY <1>7, <2>1, <2>3 DEF ApplySanction
<1>8. ASSUME NEW u \in Students, RemoveSanction(u)
      PROVE  TypeOK'
  BY <1>5, <1>8 DEF RemoveSanction
<1>9. ASSUME NEW p \in Periods, NEW row \in PatchedRows, PatchPeriodSettings(p, row)
      PROVE  TypeOK'
  BY <1>9, PatchedRowType DEF PatchPeriodSettings
<1>10. ASSUME NEW p \in Periods, NEW target \in SettingTargets,
              NEW intent \in SettingIntents,
              UpdateDiscordPeriodSetting(target, p, intent)
       PROVE  TypeOK'
  <2>1. <<target, p>> \in DOMAIN setting /\ <<Global, p>> \in DOMAIN setting
    OBVIOUS
  <2>2. setting[<<target, p>>] \in Settings \cup {NoRow}
        /\ setting[<<Global, p>>] \in Settings \cup {NoRow}
    BY <2>1
  <2> DEFINE before == Resolve(setting[<<target, p>>], setting[<<Global, p>>],
                               NoRow, DefaultSetting)
             upcoming(k) == target = Global /\ k[2] = p /\ k[1] > now.day
  <2>3. before \in Settings
    BY <2>2, ResolveType
  <2>4. ApplySettingIntent(before, intent) \in Settings
    BY <2>3, SettingIntentType
  <2>5. \A k \in DOMAIN setting : setting[k] # NoRow =>
           ApplySettingIntent(setting[k], intent) \in Settings
    BY SettingIntentType
  <2>6. setting' = [k \in DOMAIN setting |->
              IF k = <<target, p>> THEN ApplySettingIntent(before, intent)
              ELSE IF upcoming(k) /\ setting[k] # NoRow
                   THEN ApplySettingIntent(setting[k], intent)
              ELSE setting[k]]
    BY <1>10 DEF UpdateDiscordPeriodSetting
  <2> HIDE DEF before, upcoming
  <2>7. setting' \in [(Dates \cup {Global}) \X Periods -> Settings \cup {NoRow}]
    BY <2>4, <2>5, <2>6
  <2> QED BY <1>10, <2>7 DEF UpdateDiscordPeriodSetting
<1>11. CASE AdvanceClock
  BY <1>11 DEF AdvanceClock, Dates, Minutes
<1>12. CASE UNCHANGED vars
  BY <1>12 DEF vars
<1>13. CASE Maintaining
  <2>1. ASSUME NEW batch, ReleaseExpiredRestrictions(batch)
        PROVE  TypeOK'
    BY <1>5, <2>1 DEF ReleaseExpiredRestrictions
  <2>2. ASSUME NEW batch, RevokeExpiredSanctions(batch)
        PROVE  TypeOK'
    <3>1. sanctions' \in [Students -> SUBSET Sanctions]
      BY <2>2 DEF RevokeExpiredSanctions
    <3> QED BY <2>2, <3>1 DEF RevokeExpiredSanctions
  <2> QED BY <1>13, <2>1, <2>2 DEF Maintaining
<1> QED BY <1>1, <1>2, <1>3, <1>6, <1>7, <1>8, <1>9, <1>10, <1>11, <1>12, <1>13
        DEF Next, Reserving, Ending, Sanctioning, Configuring

(* The tables always hold well-formed values.                              *)
THEOREM TypeCorrect == Spec => []TypeOK
<1>1. Init => TypeOK
  BY LedgerAssumption, ClockAssumption
  DEF Init, TypeOK, Dates, Minutes, AccountRecords, BookingStatuses
<1>2. QED BY <1>1, TypeStep, PTL DEF Spec

-----------------------------------------------------------------------------
(* What has run out stays so as the clock moves.                           *)
LEMMA RanOutStays ==
    ASSUME TypeOK, [Next]_vars, NEW end \in Instants \cup {NoInstant}, RanOut(end, now)
    PROVE  RanOut(end, now')
<1> USE LedgerAssumption, ClockAssumption
<1>1. now \in [day : Dates, minute : Minutes]
  BY DEF TypeOK
<1>2. CASE now' = now
  BY <1>2
<1>3. CASE AdvanceClock
  BY <1>1, <1>3 DEF AdvanceClock, RanOut, Later, Dates, Minutes, Instants
<1>4. CASE Reserving
  BY <1>2, <1>4 DEF Reserving, ReserveStudyPeriod, CreateAdministratorReservation
<1>5. CASE Ending
  BY <1>2, <1>5 DEF Ending, CancelOwnedReservation, CancelAdministratorReservation,
     MarkNoShow
<1>6. CASE Sanctioning
  BY <1>2, <1>6 DEF Sanctioning, ApplySanction, RemoveSanction
<1>7. CASE Maintaining \/ Configuring \/ UNCHANGED vars
  BY <1>2, <1>7 DEF Maintaining, ReleaseExpiredRestrictions, RevokeExpiredSanctions,
     Configuring, PatchPeriodSettings, UpdateDiscordPeriodSetting, vars
<1> QED BY <1>3, <1>4, <1>5, <1>6, <1>7 DEF Next

(* Waiting, alone, never makes the rows contradict the status.             *)
LEMMA ExplainedLater ==
    ASSUME TypeOK, [Next]_vars, NEW rows, NEW acc \in AccountRecords, SanctionsExplain(rows, acc, now)
    PROVE  SanctionsExplain(rows, acc, now')
BY RanOutStays DEF SanctionsExplain, AccountRecords

(* The rows of a student keep explaining the status of the student.        *)
LEMMA SanctionStep ==
    TypeOK /\ SanctionsMatchStatus /\ [Next]_vars => SanctionsMatchStatus'
<1> SUFFICES ASSUME TypeOK, SanctionsMatchStatus, [Next]_vars, NEW u \in Students
             PROVE  SanctionsExplain(sanctions'[u], account'[u], now')
  BY DEF SanctionsMatchStatus
<1>1. SanctionsExplain(sanctions[u], account[u], now)
  BY DEF SanctionsMatchStatus
<1>2. /\ account \in [Students -> AccountRecords]
      /\ sanctions \in [Students -> SUBSET Sanctions]
  BY DEF TypeOK
<1>3. ASSUME account'[u] = account[u], sanctions'[u] = sanctions[u]
      PROVE  SanctionsExplain(sanctions'[u], account'[u], now')
  BY <1>1, <1>2, <1>3, ExplainedLater
<1>4. ASSUME NEW v \in Students, NEW t, NEW status, NEW end, Sanction(v, t, status, end),
             \/ status = "RESTRICTED"
             \/ status = "BANNED" /\ t \in {"ADMIN_BAN", "NO_SHOW_BAN"} /\ end = NoInstant
             \/ status = "SHADOW_BANNED" /\ t = "ADMIN_BAN" /\ end = NoInstant
      PROVE  SanctionsExplain(sanctions'[u], account'[u], now')
  <2>1. CASE u # v
    BY <1>2, <1>3, <1>4, <2>1 DEF Sanction
  <2>2. CASE u = v
    <3>1. /\ account'[u] = [bookingStatus |-> status, restrictedUntil |-> end]
          /\ sanctions'[u] = {[type |-> t, endsAt |-> end]}
      BY <1>2, <1>4, <2>2 DEF Sanction
    <3> QED BY <1>4, <3>1 DEF SanctionsExplain, PermanentRow
  <2> QED BY <2>1, <2>2
<1>5. ASSUME NEW s \in Slots, CancelOwnedReservation(s)
      PROVE  SanctionsExplain(sanctions'[u], account'[u], now')
  <2>1. s[1] \in Students
    BY DEF Slots
  <2>2. CASE u # s[1] \/ account[s[1]].bookingStatus = "SHADOW_BANNED"
    BY <1>2, <1>3, <1>5, <2>1, <2>2 DEF CancelOwnedReservation
  <2>3. CASE u = s[1] /\ account[s[1]].bookingStatus # "SHADOW_BANNED"
    <3> DEFINE restricted == StudentCancellationRestriction(now)
               row == [type |-> "CANCELLATION_RESTRICTION",
                       endsAt |-> restricted.restrictedUntil]
               others == {r \in sanctions[u] : r.type # "CANCELLATION_RESTRICTION"}
    <3>1. account'[u] = restricted /\ sanctions'[u] = others \cup {row}
      BY <1>2, <1>5, <2>1, <2>3 DEF CancelOwnedReservation
    <3>2. restricted.bookingStatus = "RESTRICTED"
      BY DEF StudentCancellationRestriction
    <3>3. \A row1, row2 \in others \cup {row} : row1.type = row2.type => row1 = row2
      <4>1. \A row1, row2 \in sanctions[u] : row1.type = row2.type => row1 = row2
        BY <1>1 DEF SanctionsExplain
      <4>2. row.type = "CANCELLATION_RESTRICTION"
        OBVIOUS
      <4> HIDE DEF row
      <4> QED BY <4>1, <4>2
    <3>4. row.endsAt = restricted.restrictedUntil
      OBVIOUS
    <3> HIDE DEF row, others, restricted
    <3> QED BY <3>1, <3>2, <3>3, <3>4 DEF SanctionsExplain
  <2> QED BY <2>2, <2>3
<1>6. CASE Ending
  <2>1. ASSUME NEW s \in Slots, MarkNoShow(s)
        PROVE  SanctionsExplain(sanctions'[u], account'[u], now')
    <3>1. s[1] \in Students
      BY DEF Slots
    <3> QED BY <1>4, <2>1, <3>1 DEF MarkNoShow
  <2> QED BY <1>3, <1>5, <1>6, <2>1 DEF Ending, CancelAdministratorReservation
<1>7. CASE Sanctioning
  <2>1. ASSUME NEW v \in Students, NEW status \in {"RESTRICTED", "BANNED", "SHADOW_BANNED"},
               ApplySanction(v, status)
        PROVE  SanctionsExplain(sanctions'[u], account'[u], now')
    BY <1>4, <2>1 DEF ApplySanction
  <2>2. ASSUME NEW v \in Students, RemoveSanction(v)
        PROVE  SanctionsExplain(sanctions'[u], account'[u], now')
    <3>1. CASE u # v
      BY <1>2, <1>3, <2>2, <3>1 DEF RemoveSanction
    <3>2. CASE u = v
      BY <1>2, <2>2, <3>2 DEF RemoveSanction, Unrestricted, SanctionsExplain
    <3> QED BY <3>1, <3>2
  <2> QED BY <1>7, <2>1, <2>2 DEF Sanctioning
<1>8. ASSUME NEW batch, ReleaseExpiredRestrictions(batch)
      PROVE  SanctionsExplain(sanctions'[u], account'[u], now')
  <2>1. CASE u \in batch
    <3>1. account'[u] = Unrestricted /\ sanctions'[u] = sanctions[u]
      BY <1>8, <2>1 DEF ReleaseExpiredRestrictions
    <3> QED BY <1>1, <3>1 DEF Unrestricted, SanctionsExplain
  <2>2. CASE u \notin batch
    BY <1>3, <1>8, <2>2 DEF ReleaseExpiredRestrictions
  <2> QED BY <2>1, <2>2
<1>9. ASSUME NEW batch \in SUBSET ExpiredSanctions, RevokeExpiredSanctions(batch)
      PROVE  SanctionsExplain(sanctions'[u], account'[u], now')
  <2>1. /\ sanctions'[u] = {row \in sanctions[u] : <<u, row>> \notin batch}
        /\ account'[u] = account[u] /\ now' = now
    BY <1>9 DEF RevokeExpiredSanctions
  <2>2. \A row \in sanctions[u] : ~RanOut(row.endsAt, now) => row \in sanctions'[u]
    BY <1>9, <2>1 DEF ExpiredSanctions
  <2>3. \A type : PermanentRow(type).endsAt = NoInstant
    BY DEF PermanentRow
  <2>4. ~RanOut(NoInstant, now)
    BY DEF RanOut
  <2> QED BY <1>1, <2>1, <2>2, <2>3, <2>4 DEF SanctionsExplain
<1>10. CASE Maintaining
  BY <1>8, <1>9, <1>10 DEF Maintaining
<1>11. CASE Reserving
  BY <1>3, <1>11 DEF Reserving, ReserveStudyPeriod, CreateAdministratorReservation
<1>12. CASE Configuring \/ AdvanceClock \/ UNCHANGED vars
  BY <1>3, <1>12 DEF Configuring, PatchPeriodSettings, UpdateDiscordPeriodSetting,
     AdvanceClock, vars
<1> QED BY <1>6, <1>7, <1>10, <1>11, <1>12 DEF Next

(* A student's status and ACTIVE sanction rows never disagree.             *)
THEOREM SanctionsAgree == Spec => []SanctionsMatchStatus
<1>1. Init => SanctionsMatchStatus
  BY DEF Init, SanctionsMatchStatus, SanctionsExplain
<1>2. QED BY <1>1, SanctionStep, TypeCorrect, PTL DEF Spec

-----------------------------------------------------------------------------
(* Only a reserving step gives a slot a row, only for a date the policy    *)
(* allows and only to a student who is not restricted.                     *)
LEMMA RowsAppear ==
    ASSUME TypeOK, [Next]_vars, NEW s \in Slots
    PROVE  \/ reservation'[s] = reservation[s]
           \/ reservation[s] = "CONFIRMED" /\ reservation'[s] \in {"CANCELLED", "NO_SHOW"}
           \/ /\ reservation[s] = "NONE" /\ reservation'[s] = "CONFIRMED"
              /\ UNCHANGED <<now, account>>
              /\ IsReservableDate(s[2], now)
              /\ ~IsRestricted(account[s[1]], now)
<1>1. reservation \in [Slots -> ReservationStatuses \cup {"NONE"}]
  BY DEF TypeOK
<1>2. ASSUME NEW u \in Students, NEW d \in Dates, NEW p \in Periods,
             ReserveStudyPeriod(u, d, p) \/ CreateAdministratorReservation(u, d, p),
             reservation'[s] # reservation[s]
      PROVE  /\ reservation[s] = "NONE" /\ reservation'[s] = "CONFIRMED"
             /\ UNCHANGED <<now, account>>
             /\ IsReservableDate(s[2], now)
             /\ ~IsRestricted(account[s[1]], now)
  <2>1. reservation' = [reservation EXCEPT ![<<u, d, p>>] = "CONFIRMED"]
        /\ UNCHANGED <<now, account>>
    BY <1>2 DEF ReserveStudyPeriod, CreateAdministratorReservation
  <2>2. s = <<u, d, p>> /\ reservation'[s] = "CONFIRMED"
    BY <1>1, <1>2, <2>1
  <2>3. /\ reservation[<<u, d, p>>] = "NONE" /\ IsReservableDate(d, now)
        /\ ~IsRestricted(account[u], now)
    BY <1>2 DEF ReserveStudyPeriod, CreateAdministratorReservation, MayReserve,
              SlotIsNew
  <2>4. s[1] = u /\ s[2] = d
    BY <2>2
  <2> QED BY <2>1, <2>2, <2>3, <2>4
<1>3. ASSUME NEW r \in Slots, CancelOwnedReservation(r) \/ CancelAdministratorReservation(r)
      PROVE  \/ reservation'[s] = reservation[s]
             \/ reservation[s] = "CONFIRMED" /\ reservation'[s] = "CANCELLED"
  BY <1>1, <1>3 DEF CancelOwnedReservation, CancelAdministratorReservation
<1>4. ASSUME NEW r \in Slots, MarkNoShow(r)
      PROVE  \/ reservation'[s] = reservation[s]
             \/ reservation[s] = "CONFIRMED" /\ reservation'[s] \in {"CANCELLED", "NO_SHOW"}
  BY <1>1, <1>4 DEF MarkNoShow, CancellableSlots
<1>5. ASSUME NEW u \in Students, NEW status \in {"RESTRICTED", "BANNED", "SHADOW_BANNED"},
             ApplySanction(u, status)
      PROVE  \/ reservation'[s] = reservation[s]
             \/ reservation[s] = "CONFIRMED" /\ reservation'[s] = "CANCELLED"
  BY <1>1, <1>5 DEF ApplySanction, CancellableSlots
<1>6. ASSUME UNCHANGED reservation
      PROVE  reservation'[s] = reservation[s]
  BY <1>6
<1>7. CASE Reserving
  BY <1>2, <1>7 DEF Reserving
<1>8. CASE Ending
  BY <1>3, <1>4, <1>8 DEF Ending
<1>9. CASE Sanctioning
  BY <1>5, <1>6, <1>9 DEF Sanctioning, RemoveSanction
<1>10. CASE Maintaining \/ Configuring \/ AdvanceClock \/ UNCHANGED vars
  BY <1>6, <1>10 DEF Maintaining, ReleaseExpiredRestrictions, RevokeExpiredSanctions,
     Configuring, PatchPeriodSettings, UpdateDiscordPeriodSetting, AdvanceClock, vars
<1> QED BY <1>7, <1>8, <1>9, <1>10 DEF Next

(* A cancelled or no-show slot is never confirmed again.                   *)
THEOREM IdentityStays == Spec => IdentityNeverReused
<1>1. ASSUME TypeOK, [Next]_vars
      PROVE  \A s \in Slots : reservation[s] \in {"CANCELLED", "NO_SHOW"}
                                => reservation'[s] = reservation[s]
  BY <1>1, RowsAppear
<1>2. QED BY <1>1, TypeCorrect, PTL DEF Spec, IdentityNeverReused

-----------------------------------------------------------------------------
(* How the clock moves: never back, and at most one day at a time.         *)
LEMMA ClockStep ==
    ASSUME TypeOK, [Next]_vars
    PROVE  /\ now.day \in Nat /\ now'.day \in Nat
           /\ now'.day = now.day \/ now'.day = now.day + 1
<1> USE LedgerAssumption, ClockAssumption
<1>1. now.day \in Nat
  BY DEF TypeOK, Dates
<1>2. CASE AdvanceClock
  BY <1>1, <1>2 DEF AdvanceClock
<1>3. ASSUME UNCHANGED now
      PROVE  now'.day \in Nat /\ now'.day = now.day
  BY <1>1, <1>3
<1>4. CASE Reserving
  BY <1>1, <1>3, <1>4 DEF Reserving, ReserveStudyPeriod, CreateAdministratorReservation
<1>5. CASE Ending
  BY <1>1, <1>3, <1>5 DEF Ending, CancelOwnedReservation, CancelAdministratorReservation,
     MarkNoShow
<1>6. CASE Sanctioning
  BY <1>1, <1>3, <1>6 DEF Sanctioning, ApplySanction, RemoveSanction
<1>7. CASE Maintaining \/ Configuring \/ UNCHANGED vars
  BY <1>1, <1>3, <1>7 DEF Maintaining, ReleaseExpiredRestrictions, RevokeExpiredSanctions,
     Configuring, PatchPeriodSettings, UpdateDiscordPeriodSetting, vars
<1> QED BY <1>1, <1>2, <1>4, <1>5, <1>6, <1>7 DEF Next

(* A step that bans a student cancels everything the student has ahead.    *)
LEMMA BanStep ==
    ASSUME TypeOK, [Next]_vars, NEW s \in Slots,
           account[s[1]].bookingStatus # "BANNED",
           account'[s[1]].bookingStatus = "BANNED",
           s[2] > now.day
    PROVE  reservation'[s] # "CONFIRMED"
<1>1. /\ s[1] \in Students /\ s[2] \in Nat /\ now.day \in Nat
      /\ account \in [Students -> AccountRecords]
      /\ reservation \in [Slots -> ReservationStatuses \cup {"NONE"}]
  BY LedgerAssumption DEF Slots, TypeOK, Dates
<1>2. reservation[s] = "CONFIRMED" => s \in CancellableSlots(s[1])
  BY <1>1 DEF CancellableSlots
<1>3. ASSUME NEW r \in Slots, MarkNoShow(r)
      PROVE  reservation'[s] # "CONFIRMED"
  <2>1. r[1] \in Students
    BY DEF Slots
  <2>2. s[1] = r[1]
    BY <1>1, <1>3, <2>1 DEF MarkNoShow, Sanction
  <2> QED BY <1>2, <1>3, <2>2 DEF MarkNoShow
<1>4. ASSUME NEW u \in Students, NEW status \in {"RESTRICTED", "BANNED", "SHADOW_BANNED"},
             ApplySanction(u, status)
      PROVE  reservation'[s] # "CONFIRMED"
  <2>1. PICK type, end : Sanction(u, type, status, end)
    BY <1>4 DEF ApplySanction
  <2>2. s[1] = u /\ status = "BANNED"
    BY <1>1, <2>1 DEF Sanction
  <2> QED BY <1>2, <1>4, <2>2 DEF ApplySanction
<1>5. ASSUME NEW r \in Slots, CancelOwnedReservation(r)
      PROVE  FALSE
  <2>1. r[1] \in Students
    BY DEF Slots
  <2> QED BY <1>1, <1>5, <2>1 DEF CancelOwnedReservation, StudentCancellationRestriction
<1>6. ASSUME NEW u \in Students, RemoveSanction(u)
      PROVE  FALSE
  BY <1>1, <1>6 DEF RemoveSanction, Unrestricted
<1>7. ASSUME UNCHANGED account
      PROVE  FALSE
  BY <1>7
<1>8. CASE Ending
  BY <1>3, <1>5, <1>7, <1>8 DEF Ending, CancelAdministratorReservation
<1>9. CASE Sanctioning
  BY <1>4, <1>6, <1>9 DEF Sanctioning
<1>11. CASE Maintaining
  BY <1>1, <1>7, <1>11 DEF Maintaining, ReleaseExpiredRestrictions, RevokeExpiredSanctions,
     Unrestricted
<1>10. CASE Reserving \/ Configuring \/ AdvanceClock \/ UNCHANGED vars
  BY <1>7, <1>10 DEF Reserving, ReserveStudyPeriod, CreateAdministratorReservation,
     Configuring, PatchPeriodSettings, UpdateDiscordPeriodSetting, AdvanceClock, vars
<1> QED BY <1>8, <1>9, <1>10, <1>11 DEF Next

(* A banned student holds no reservation on a later day.                   *)
THEOREM BannedHoldNothing == Spec => []BannedHoldNothingAhead
<1>1. Init => BannedHoldNothingAhead
  BY DEF Init, BannedHoldNothingAhead
<1>2. TypeOK /\ BannedHoldNothingAhead /\ [Next]_vars => BannedHoldNothingAhead'
  <2> SUFFICES ASSUME TypeOK, BannedHoldNothingAhead, [Next]_vars, NEW s \in Slots,
                      account'[s[1]].bookingStatus = "BANNED", s[2] > now'.day
               PROVE  reservation'[s] # "CONFIRMED"
    BY DEF BannedHoldNothingAhead
  <2>1. s[2] \in Nat
    BY LedgerAssumption DEF Slots, Dates
  <2>2. s[2] > now.day
    BY <2>1, ClockStep
  <2>3. CASE account[s[1]].bookingStatus = "BANNED"
    <3>1. reservation[s] # "CONFIRMED"
      BY <2>2, <2>3 DEF BannedHoldNothingAhead
    <3>2. IsRestricted(account[s[1]], now)
      BY <2>3 DEF IsRestricted
    <3> QED BY <3>1, <3>2, RowsAppear
  <2>4. CASE account[s[1]].bookingStatus # "BANNED"
    BY <2>2, <2>4, BanStep
  <2> QED BY <2>3, <2>4
<1>3. QED BY <1>1, <1>2, TypeCorrect, PTL DEF Spec

-----------------------------------------------------------------------------
(* No reservation lies beyond the Friday of the current week.              *)
THEOREM FridayHorizon == Spec => []NothingBeyondFriday
<1>1. Init => NothingBeyondFriday
  BY DEF Init, NothingBeyondFriday
<1>2. TypeOK /\ NothingBeyondFriday /\ [Next]_vars => NothingBeyondFriday'
  <2> SUFFICES ASSUME TypeOK, NothingBeyondFriday, [Next]_vars, NEW s \in Slots,
                      reservation'[s] # "NONE", s[2] > now'.day
               PROVE  /\ KstDayOfWeek(now'.day) \in 1 .. 4
                      /\ s[2] <= now'.day + 5 - KstDayOfWeek(now'.day)
    BY DEF NothingBeyondFriday
  <2>1. /\ s[2] \in Nat /\ FirstWeekday \in Nat
        /\ now.day \in Nat /\ now'.day \in Nat
        /\ now'.day = now.day \/ now'.day = now.day + 1
    BY LedgerAssumption, ClockAssumption, ClockStep DEF Slots, Dates
  <2>2. CASE reservation[s] # "NONE"
    <3>1. /\ KstDayOfWeek(now.day) \in 1 .. 4
          /\ s[2] <= now.day + 5 - KstDayOfWeek(now.day)
      BY <2>1, <2>2 DEF NothingBeyondFriday
    <3> QED BY <2>1, <3>1 DEF KstDayOfWeek
  <2>3. CASE reservation[s] = "NONE"
    <3>1. now' = now /\ IsReservableDate(s[2], now)
      BY <2>3, RowsAppear
    <3> QED BY <2>1, <3>1 DEF IsReservableDate, AdvanceDates, KstDayOfWeek
  <2> QED BY <2>2, <2>3
<1>3. QED BY <1>1, <1>2, TypeCorrect, PTL DEF Spec

-----------------------------------------------------------------------------
(* A booking that counts every confirmed row of its period leaves no       *)
(* period beyond its capacity that was not there before.                   *)
LEMMA FullCountFits ==
    ASSUME TypeOK, NEW e \in Dates, NEW q \in Periods,
           NEW u \in Students, NEW d \in Dates, NEW p \in Periods,
           reservation' = [reservation EXCEPT ![<<u, d, p>>] = "CONFIRMED"],
           setting' = setting, MayReserve(u, d, p, ConfirmedFor(d, p))
    PROVE  \/ ConfirmedFor(e, q)' \subseteq ConfirmedFor(e, q)
           \/ Cardinality(ConfirmedFor(e, q)') <= EffectiveSetting(e, q)'.capacity
<1> DEFINE Fits ==
      \/ ConfirmedFor(e, q)' \subseteq ConfirmedFor(e, q)
      \/ Cardinality(ConfirmedFor(e, q)') <= EffectiveSetting(e, q)'.capacity
<1>1. CASE e = d /\ q = p
  <2>1. ConfirmedFor(d, p)' = ConfirmedFor(d, p) \cup {u}
    BY DEF ConfirmedFor, TypeOK, Slots
  <2>2. IsFiniteSet(ConfirmedFor(d, p))
    BY LedgerAssumption, FS_Subset DEF ConfirmedFor
  <2>3. u \notin ConfirmedFor(d, p)
    BY DEF MayReserve, SlotIsNew, ConfirmedFor
  <2>4. /\ Cardinality(ConfirmedFor(d, p)) \in Nat
        /\ Cardinality(ConfirmedFor(d, p)') = Cardinality(ConfirmedFor(d, p)) + 1
    BY <2>1, <2>2, <2>3, FS_AddElement, FS_CardinalityType
  <2>5. EffectiveSetting(d, p)' = EffectiveSetting(d, p)
    BY DEF EffectiveSetting
  <2>6. EffectiveSetting(d, p).capacity \in Nat
    <3>1. <<d, p>> \in (Dates \cup {Global}) \X Periods
          /\ <<Global, p>> \in (Dates \cup {Global}) \X Periods
      OBVIOUS
    <3>2. EffectiveSetting(d, p) \in Settings
      BY <3>1, ResolveType DEF TypeOK, EffectiveSetting
    <3> QED BY <3>2 DEF Settings
  <2>7. Cardinality(ConfirmedFor(d, p)) < EffectiveSetting(d, p).capacity
    BY DEF MayReserve, SeatLeft
  <2> HIDE DEF Fits
  <2>8. Cardinality(ConfirmedFor(e, q)') <= EffectiveSetting(e, q)'.capacity
    BY <1>1, <2>4, <2>5, <2>6, <2>7
  <2> QED BY <2>8 DEF Fits
<1>2. CASE ~(e = d /\ q = p)
  <2>1. ASSUME NEW v \in Students
        PROVE  reservation'[<<v, e, q>>] = reservation[<<v, e, q>>]
    BY <1>2 DEF TypeOK, Slots
  <2>2. ConfirmedFor(e, q)' \subseteq ConfirmedFor(e, q)
    BY <2>1 DEF ConfirmedFor
  <2> QED BY <2>2
<1> QED BY <1>1, <1>2

(* An administrator's booking counts every row; a student's counts those   *)
(* the student may see; nothing else confirms a reservation.               *)
LEMMA SeatsStep ==
    ASSUME TypeOK, [Next]_vars,
           \/ \E u \in Students, d \in Dates, p \in Periods :
                 CreateAdministratorReservation(u, d, p)
           \/ \A u \in Students, d \in Dates, p \in Periods :
                 ReserveStudyPeriod(u, d, p) => UnseenSeats(u, d, p) = {}
    PROVE  NewSeatsFit
<1> SUFFICES ASSUME NEW e \in Dates, NEW q \in Periods
             PROVE  \/ ConfirmedFor(e, q)' \subseteq ConfirmedFor(e, q)
                    \/ Cardinality(ConfirmedFor(e, q)') <= EffectiveSetting(e, q)'.capacity
  BY DEF NewSeatsFit
<1> DEFINE Fits ==
      \/ ConfirmedFor(e, q)' \subseteq ConfirmedFor(e, q)
      \/ Cardinality(ConfirmedFor(e, q)') <= EffectiveSetting(e, q)'.capacity
<1>1. ASSUME NEW u \in Students, NEW d \in Dates, NEW p \in Periods,
             CreateAdministratorReservation(u, d, p)
      PROVE  Fits
  <2>1. /\ reservation' = [reservation EXCEPT ![<<u, d, p>>] = "CONFIRMED"]
        /\ setting' = setting /\ MayReserve(u, d, p, ConfirmedFor(d, p))
    BY <1>1 DEF CreateAdministratorReservation
  <2> QED BY <2>1, FullCountFits
<1>2. ASSUME NEW u \in Students, NEW d \in Dates, NEW p \in Periods,
             ReserveStudyPeriod(u, d, p), UnseenSeats(u, d, p) = {}
      PROVE  Fits
  <2>1. ConfirmedFor(d, p) \cap VisibleToStudent(u) = ConfirmedFor(d, p)
    BY <1>2 DEF UnseenSeats
  <2>2. /\ reservation' = [reservation EXCEPT ![<<u, d, p>>] = "CONFIRMED"]
        /\ setting' = setting /\ MayReserve(u, d, p, ConfirmedFor(d, p))
    BY <1>2, <2>1 DEF ReserveStudyPeriod
  <2> QED BY <2>2, FullCountFits
<1>3. ASSUME \A s \in Slots : reservation'[s] = "CONFIRMED" => reservation[s] = "CONFIRMED"
      PROVE  Fits
  <2>1. \A v \in Students : <<v, e, q>> \in Slots
    BY DEF Slots
  <2>2. ConfirmedFor(e, q)' \subseteq ConfirmedFor(e, q)
    BY <1>3, <2>1 DEF ConfirmedFor
  <2> QED BY <2>2
<1>4. CASE ~Reserving
  <2>1. ASSUME NEW s \in Slots, reservation'[s] = "CONFIRMED"
        PROVE  reservation[s] = "CONFIRMED"
    BY <1>4, <2>1 DEF Next, Ending, Sanctioning, Maintaining, Configuring, TypeOK,
       ReleaseExpiredRestrictions, RevokeExpiredSanctions,
       CancelOwnedReservation, CancelAdministratorReservation, MarkNoShow,
       ApplySanction, RemoveSanction, PatchPeriodSettings,
       UpdateDiscordPeriodSetting, AdvanceClock, vars
  <2> QED BY <1>3, <2>1
<1> QED BY <1>1, <1>4, <1>2 DEF Reserving

(* Hidden seats are the only way past the capacity in force, whatever the  *)
(* row policies show: for the deployed role they hide the seats of others, *)
(* for a role that sees every row there are none.                          *)
THEOREM SeatsOverbookedUnseen == Spec => OnlyUnseenSeatsOverbook
<1> DEFINE Unseen == PastHiddenSeats /\ ~ByAdministrator
<1>1. TypeOK /\ [Next]_vars => [NewSeatsFit \/ Unseen]_vars
  BY SeatsStep DEF PastHiddenSeats, ByAdministrator
<1>2. QED BY <1>1, TypeCorrect, PTL DEF Spec, OnlyUnseenSeatsOverbook
=============================================================================
