-------------------------- MODULE MCReservationLedger --------------------------
(* Small instances of ReservationLedger.  Day 0 is the weekday FirstWeekday *)
(* of the configuration; a day has three minutes, before, in and after the  *)
(* booking window.                                                          *)
EXTENDS ReservationLedger, TLC

MCWindows == {<<1, 1>>}
MCMorning == {<<0, 0>>}
MCDefaultSetting == [capacity |-> 1, openTime |-> 1, closeTime |-> 1, enabled |-> TRUE]
MCMorningSetting == [capacity |-> 1, openTime |-> 0, closeTime |-> 0, enabled |-> TRUE]
MCGlobalTarget == {Global}
MCTargets == {Global, 1}
MCTodayTargets == {Global, 0}
MCStudentSymmetry == Permutations(Students)

-----------------------------------------------------------------------------
(* Either one student books, cancels and is sanctioned on all days, or three *)
(* compete for today's seats under settings that change, one of them with    *)
(* sanctions.                                                                *)
CONSTANTS u1, u2, u3
MCOthers == Permutations(Students \ {u1})

MCUntouched(u) ==
    /\ sanctions[u] = {} /\ account[u] = Unrestricted
    /\ \A s \in Slots : s[1] = u => reservation[s] = "NONE"
MCAlone ==
    /\ \A u \in Students \ {u1} : MCUntouched(u)
    /\ \A k \in DOMAIN setting : setting[k] # NoRow => k[1] = Global /\ setting[k].capacity = 1
MCToday ==
    /\ now.day = 0 /\ \A s \in Slots : s[2] > 0 => reservation[s] = "NONE"
    /\ Cardinality({u \in Students : sanctions[u] # {}}) <= 1
MCBound == MCAlone \/ MCToday
=============================================================================
