------------------------- MODULE SeatRegisterProofs -------------------------
(***************************************************************************)
(* What follows from the promises of SeatRegister, for any number of       *)
(* students and any capacities.                                            *)
(***************************************************************************)
EXTENDS SeatRegister, FiniteSetTheorems, TLAPS

(* Every step keeps the statuses among those the tables can hold.          *)
LEMMA TypeStep == TypeOK /\ [Next]_vars => TypeOK'
<1> SUFFICES ASSUME TypeOK, [Next]_vars PROVE TypeOK'
  OBVIOUS
<1> USE RegisterAssumption DEF TypeOK
<1>1. ASSUME NEW u \in Students, Confirm(u) PROVE TypeOK'
  <2>1. <<u, "tomorrow">> \in Slots
    BY DEF Slots, Days
  <2> QED BY <1>1, <2>1 DEF Confirm
<1>2. ASSUME NEW u \in Students, Ban(u) PROVE TypeOK'
  <2>1. WithoutSeat(u) \in [Slots -> {"NONE", "CONFIRMED", "CANCELLED", "NO_SHOW"}]
    BY DEF WithoutSeat
  <2> QED BY <1>2, <2>1 DEF Ban
<1>3. ASSUME NEW u \in Students, ApplyRestriction(u) PROVE TypeOK'
  BY <1>3 DEF ApplyRestriction
<1>4. ASSUME NEW s \in Slots, Cancel(s) PROVE TypeOK'
  BY <1>4 DEF Cancel
<1>5. ASSUME NEW some \in SUBSET Students, Release(some) PROVE TypeOK'
  BY <1>5 DEF Release
<1>6. ASSUME RaiseCapacity PROVE TypeOK'
  BY <1>6 DEF RaiseCapacity
<1>7. CASE UNCHANGED vars
  BY <1>7 DEF vars
<1> QED BY <1>1, <1>2, <1>3, <1>4, <1>5, <1>6, <1>7 DEF Next

(* Statuses and capacities have their declared types in every state.       *)
THEOREM TypeCorrect == Spec => []TypeOK
<1>1. Init => TypeOK
  BY RegisterAssumption DEF Init, TypeOK
<1>2. TypeOK /\ [Next]_vars => TypeOK'
  BY TypeStep
<1> QED BY <1>1, <1>2, PTL DEF Spec

-----------------------------------------------------------------------------
(* The only step that seats a student is Confirm, and it seats that one.   *)
LEMMA SeatedStep ==
    ASSUME TypeOK, [Next]_vars
    PROVE  \/ Seated' \subseteq Seated
           \/ \E u \in Students : Confirm(u) /\ Seated' = Seated \cup {u}
<1> USE DEF TypeOK
<1>1. ASSUME NEW u \in Students, Confirm(u)
      PROVE  Confirm(u) /\ Seated' = Seated \cup {u}
  <2>1. <<u, "tomorrow">> \in Slots
    BY DEF Slots, Days
  <2>2. \A v \in Students :
           reservation'[<<v, "tomorrow">>]
             = IF v = u THEN "CONFIRMED" ELSE reservation[<<v, "tomorrow">>]
    <3> TAKE v \in Students
    <3>1. <<v, "tomorrow">> \in Slots
      BY DEF Slots, Days
    <3> QED BY <1>1, <2>1, <3>1 DEF Confirm
  <2> QED BY <1>1, <2>2 DEF Seated
<1>2. ASSUME NEW u \in Students, Ban(u)
      PROVE  Seated' \subseteq Seated \ {u}
  <2>1. \A v \in Students : <<v, "tomorrow">> \in Slots /\ <<v, "tomorrow">> # <<u, "today">>
    BY DEF Slots, Days
  <2>2. \A v \in Students :
           reservation'[<<v, "tomorrow">>] = WithoutSeat(u)[<<v, "tomorrow">>]
    <3>1. WithoutSeat(u) \in [Slots -> {"NONE", "CONFIRMED", "CANCELLED", "NO_SHOW"}]
      BY DEF WithoutSeat
    <3> QED BY <1>2, <2>1, <3>1 DEF Ban
  <2>3. \A v \in Students :
           /\ v = u => WithoutSeat(u)[<<v, "tomorrow">>] # "CONFIRMED"
           /\ v # u => WithoutSeat(u)[<<v, "tomorrow">>] = reservation[<<v, "tomorrow">>]
    BY <2>1 DEF WithoutSeat
  <2> QED BY <2>2, <2>3 DEF Seated
<1>3. ASSUME NEW s \in Slots, Cancel(s)
      PROVE  Seated' \subseteq Seated
  <2>1. \A v \in Students : <<v, "tomorrow">> \in Slots
    BY DEF Slots, Days
  <2> QED BY <1>3, <2>1 DEF Cancel, Seated
<1>4. ASSUME UNCHANGED reservation PROVE Seated' \subseteq Seated
  BY <1>4 DEF Seated
<1> QED BY <1>1, <1>2, <1>3, <1>4 DEF Next, vars, ApplyRestriction, Release, RaiseCapacity

(* Seats never exceed the highest capacity there was.                      *)
THEOREM NoOverbooking == Spec => []NeverOverbooked
<1>1. Init => NeverOverbooked
  <2> SUFFICES ASSUME Init PROVE NeverOverbooked
    OBVIOUS
  <2>1. Seated = {}
    <3> SUFFICES ASSUME NEW u \in Students
                 PROVE  reservation[<<u, "tomorrow">>] # "CONFIRMED"
      BY DEF Seated
    <3>1. <<u, "tomorrow">> \in Slots
      BY DEF Slots, Days
    <3> QED BY <3>1 DEF Init
  <2> QED BY <2>1, FS_EmptySet, RegisterAssumption DEF Init, NeverOverbooked
<1>2. TypeOK /\ NeverOverbooked /\ [Next]_vars => NeverOverbooked'
  <2> SUFFICES ASSUME TypeOK, NeverOverbooked, [Next]_vars PROVE NeverOverbooked'
    OBVIOUS
  <2>1. IsFiniteSet(Seated) /\ Cardinality(Seated) \in Nat
    BY FS_Subset, FS_CardinalityType, RegisterAssumption DEF Seated
  <2>2. highest \in Nat /\ highest' \in Nat /\ highest' >= highest
    <3>1. highest \in Nat
      BY DEF TypeOK
    <3>2. highest' = highest \/ RaiseCapacity
      BY DEF Next, vars, Confirm, Ban, ApplyRestriction, Cancel, Release
    <3>3. RaiseCapacity => highest' \in Nat /\ highest' > highest
      BY RegisterAssumption DEF RaiseCapacity
    <3> QED BY <3>1, <3>2, <3>3
  <2>3. CASE Seated' \subseteq Seated
    <3>1. Cardinality(Seated') <= Cardinality(Seated) /\ Cardinality(Seated') \in Nat
      BY <2>1, <2>3, FS_Subset, FS_CardinalityType
    <3> QED BY <2>1, <2>2, <3>1 DEF NeverOverbooked
  <2>4. CASE \E u \in Students : Confirm(u) /\ Seated' = Seated \cup {u}
    <3>1. PICK u \in Students : Confirm(u) /\ Seated' = Seated \cup {u}
      BY <2>4
    <3>2. Cardinality(Seated') \in Nat /\ Cardinality(Seated') <= Cardinality(Seated) + 1
      BY <2>1, <3>1, FS_AddElement
    <3>3. Cardinality(Seated) < highest /\ highest' = highest
      BY <3>1 DEF Confirm, SeatLeft
    <3> QED BY <2>1, <2>2, <3>2, <3>3 DEF NeverOverbooked
  <2> QED BY <2>3, <2>4, SeatedStep
<1> QED BY <1>1, <1>2, TypeCorrect, PTL DEF Spec

(* A banned student holds no seat, in every state.                         *)
THEOREM BannedUnseated == Spec => []BannedHaveNoSeat
<1>1. Init => BannedHaveNoSeat
  BY DEF Init, BannedHaveNoSeat
<1>2. TypeOK /\ BannedHaveNoSeat /\ [Next]_vars => BannedHaveNoSeat'
  <2> SUFFICES ASSUME TypeOK, BannedHaveNoSeat, [Next]_vars,
                      NEW u \in Students, account'[u] = "BANNED"
               PROVE  u \notin Seated'
    BY DEF BannedHaveNoSeat
  <2>1. CASE account[u] = "BANNED"
    <3>1. u \notin Seated
      BY <2>1 DEF BannedHaveNoSeat
    <3>2. CASE Seated' \subseteq Seated
      BY <3>1, <3>2
    <3>3. CASE \E v \in Students : Confirm(v) /\ Seated' = Seated \cup {v}
      BY <2>1, <3>1, <3>3 DEF Confirm
    <3> QED BY <3>2, <3>3, SeatedStep
  <2>2. CASE account[u] # "BANNED"
    <3>1. Ban(u)
      BY <2>2 DEF TypeOK, Next, vars, Confirm, Ban, ApplyRestriction, Cancel, Release, RaiseCapacity
    <3>2. <<u, "tomorrow">> \in Slots /\ <<u, "tomorrow">> # <<u, "today">>
      BY DEF Slots, Days
    <3>3. WithoutSeat(u)[<<u, "tomorrow">>] # "CONFIRMED"
      BY <3>2 DEF WithoutSeat, TypeOK
    <3>4. reservation'[<<u, "tomorrow">>] = WithoutSeat(u)[<<u, "tomorrow">>]
      <4>1. WithoutSeat(u) \in [Slots -> {"NONE", "CONFIRMED", "CANCELLED", "NO_SHOW"}]
        BY DEF WithoutSeat, TypeOK
      <4> QED BY <3>1, <3>2, <4>1 DEF Ban
    <3> QED BY <3>3, <3>4 DEF Seated
  <2> QED BY <2>1, <2>2
<1> QED BY <1>1, <1>2, TypeCorrect, PTL DEF Spec
=============================================================================
