---------------------------- MODULE SeatRegister ----------------------------
(***************************************************************************)
(* What the reservation tables promise to whoever looks at them, whatever  *)
(* requests are in flight: for each student one reservation of today and   *)
(* one of tomorrow, tomorrow's period having a limited number of seats.    *)
(***************************************************************************)
EXTENDS Naturals, FiniteSets

CONSTANTS Students, InitialCapacity,
          Capacities,     \* capacities an administrator may set
          HeldToday,      \* students who start with today's reservation
          LapsedStudents  \* students whose restriction has run out

Days == {"today", "tomorrow"}
Slots == Students \X Days

ASSUME RegisterAssumption ==
    /\ IsFiniteSet(Students)
    /\ InitialCapacity \in Nat /\ Capacities \subseteq Nat
    /\ HeldToday \subseteq Students /\ LapsedStudents \subseteq Students

VARIABLES reservation, account, highest
vars == <<reservation, account, highest>>

Seated == {u \in Students : reservation[<<u, "tomorrow">>] = "CONFIRMED"}

Init ==
    /\ reservation = [s \in Slots |-> IF s[2] = "today" /\ s[1] \in HeldToday
                                      THEN "CONFIRMED" ELSE "NONE"]
    /\ account = [u \in Students |-> IF u \in LapsedStudents THEN "LAPSED" ELSE "ACTIVE"]
    /\ highest = InitialCapacity

SeatLeft == Cardinality(Seated) < highest

(* A seat is given only if one is free under some capacity there has been, *)
(* only to a student who never had it and who is not banned.               *)
Confirm(u) ==
    /\ account[u] # "BANNED"
    /\ reservation[<<u, "tomorrow">>] = "NONE"
    /\ SeatLeft
    /\ reservation' = [reservation EXCEPT ![<<u, "tomorrow">>] = "CONFIRMED"]
    /\ UNCHANGED <<account, highest>>

(* A reservation is cancelled, by an administrator or by the student, who  *)
(* is then restricted.                                                     *)
Cancel(s) ==
    /\ reservation[s] = "CONFIRMED"
    /\ reservation' = [reservation EXCEPT ![s] = "CANCELLED"]
    /\ account' \in {account, [account EXCEPT ![s[1]] = "RESTRICTED"]}
    /\ UNCHANGED highest

WithoutSeat(u) ==
    [reservation EXCEPT ![<<u, "tomorrow">>] = IF @ = "CONFIRMED" THEN "CANCELLED" ELSE @]

(* A ban takes tomorrow's seat away in the same step, and may end today's  *)
(* reservation as a no-show.                                               *)
Ban(u) ==
    LET today == <<u, "today">>
        left == WithoutSeat(u)
    IN  /\ account' = [account EXCEPT ![u] = "BANNED"]
        /\ \/ reservation' = left
           \/ reservation[today] = "CONFIRMED" /\ reservation' = [left EXCEPT ![today] = "NO_SHOW"]
        /\ UNCHANGED highest

ApplyRestriction(u) ==
    /\ account[u] # "BANNED"
    /\ account' = [account EXCEPT ![u] = "RESTRICTED"]
    /\ UNCHANGED <<reservation, highest>>

(* Restrictions that have run out, and no others, are lifted.              *)
Release(some) ==
    /\ \A u \in some : account[u] = "LAPSED"
    /\ account' = [u \in Students |-> IF u \in some THEN "ACTIVE" ELSE account[u]]
    /\ UNCHANGED <<reservation, highest>>

RaiseCapacity ==
    /\ highest' \in {k \in Capacities : k > highest}
    /\ UNCHANGED <<reservation, account>>

Next ==
    \/ \E u \in Students : Confirm(u) \/ Ban(u) \/ ApplyRestriction(u)
    \/ \E s \in Slots : Cancel(s)
    \/ \E some \in SUBSET Students : Release(some)
    \/ RaiseCapacity

Spec == Init /\ [][Next]_vars

-----------------------------------------------------------------------------
TypeOK ==
    /\ reservation \in [Slots -> {"NONE", "CONFIRMED", "CANCELLED", "NO_SHOW"}]
    /\ account \in [Students -> {"ACTIVE", "LAPSED", "RESTRICTED", "BANNED"}]
    /\ highest \in Nat

(* There are never more seats taken than the highest capacity there was.   *)
NeverOverbooked == Cardinality(Seated) <= highest

(* A banned student has no seat.                                           *)
BannedHaveNoSeat == \A u \in Students : account[u] = "BANNED" => u \notin Seated
=============================================================================
