------------------------- MODULE ContractActivation -------------------------
(***************************************************************************)
(* The switch of the database to the application contract discord-ops-v2.   *)
(*                                                                         *)
(* Runs of the minute cron and administrators ask for it at the same time.  *)
(* Each looks at the marker, commits a readiness receipt in one             *)
(* transaction, and consumes it in a second one that sets the marker and    *)
(* turns the Discord workers on; whoever fails looks at the marker again.   *)
(* Transactions of applications of either contract write all the while, at  *)
(* the isolation level of their own, and an operator turns the workers off  *)
(* and on with a new epoch.                                                 *)
(***************************************************************************)
EXTENDS Naturals

CONSTANTS Activators,           \* calls of the activation service
          Writers,              \* transactions that write to a guarded table
          MaxSwitches,          \* bound: the operator's changes of the control
          MaxActivationFaults   \* bound: failed, unanswered or stopped calls

ASSUME ActivationAssumption ==
    /\ MaxSwitches \in Nat /\ MaxActivationFaults \in Nat

VARIABLES marker,       \* SchemaCompatibility: activatedAt is set
          workers,      \* DiscordOperationsControl: enabled and epoch
          unreconciled, \* rows that a v1 application left SENDING, SYNCING or unclassified
          receipts,     \* activator -> its latest receipt
          consumed,     \* receipts that were consumed, in all
          activator,    \* activator -> where its call is, or what it answered
          writer,       \* writer -> its transaction
          activationFaults

activationVars == <<marker, workers, unreconciled, receipts, consumed, activator, writer, activationFaults>>

CallAnswersOf == {"activated", "already_active", "error"}
NoWrite == [phase |-> "idle", contract |-> "v1", serializable |-> FALSE, saw |-> FALSE]

ActivationTypeOK ==
    /\ marker \in BOOLEAN /\ unreconciled \in BOOLEAN
    /\ workers \in [enabled : BOOLEAN, epoch : 0 .. MaxSwitches]
    /\ receipts \in [Activators -> {"none", "fresh", "expired", "consumed"}]
    /\ consumed \in Nat
    /\ activator \in [Activators -> {"idle", "reading", "recording", "activating", "rereading"} \cup CallAnswersOf]
    /\ writer \in [Writers -> [phase : {"idle", "begun", "written"}, contract : {"v1", "v2"},
                               serializable : BOOLEAN, saw : BOOLEAN]]
    /\ activationFaults \in 0 .. MaxActivationFaults

ActivationInit ==   \* the schema is expanded, the workers are disabled
    /\ marker = FALSE /\ workers = [enabled |-> FALSE, epoch |-> 0]
    /\ unreconciled = TRUE
    /\ receipts = [a \in Activators |-> "none"] /\ consumed = 0
    /\ activator = [a \in Activators |-> "idle"]
    /\ writer = [w \in Writers |-> NoWrite]
    /\ activationFaults = 0

ActivationFault ==
    /\ activationFaults < MaxActivationFaults
    /\ activationFaults' = activationFaults + 1

CallIs(a, state) == activator[a] = state
CallTurns(a, state) == activator' = [activator EXCEPT ![a] = state]

-----------------------------------------------------------------------------
(* A call is made by cron, when none of its four jobs failed, or by an      *)
(* administrator.                                                           *)
AskForActivation(a) ==
    /\ CallIs(a, "idle")
    /\ CallTurns(a, "reading")
    /\ UNCHANGED <<marker, workers, unreconciled, receipts, consumed, writer, activationFaults>>

ReadMarker(a) ==
    /\ CallIs(a, "reading")
    /\ CallTurns(a, IF marker THEN "already_active" ELSE "recording")
    /\ UNCHANGED <<marker, workers, unreconciled, receipts, consumed, writer, activationFaults>>

MayRecord == ~marker /\ ~workers.enabled

RecordReadiness(a) ==
    /\ CallIs(a, "recording")
    /\ \/ /\ MayRecord
          /\ receipts' = [receipts EXCEPT ![a] = "fresh"]
          /\ CallTurns(a, "activating") /\ UNCHANGED activationFaults
       \/ /\ ~MayRecord
          /\ CallTurns(a, "rereading") /\ UNCHANGED <<receipts, activationFaults>>
       \/ /\ ActivationFault
          /\ CallTurns(a, "rereading") /\ UNCHANGED receipts
    /\ UNCHANGED <<marker, workers, unreconciled, consumed, writer>>

ReceiptExpires(a) ==
    /\ receipts[a] = "fresh"
    /\ receipts' = [receipts EXCEPT ![a] = "expired"]
    /\ UNCHANGED <<marker, workers, unreconciled, consumed, activator, writer, activationFaults>>

Bug_MayActivate(a) == receipts[a] = "fresh" /\ ~workers.enabled /\ ~unreconciled   \* not looked at the marker
MayActivate(a) == receipts[a] = "fresh" /\ ~workers.enabled /\ ~unreconciled /\ ~marker

\* It waits for every transaction that has written to a guarded table.
ExclusiveLock == \A w \in Writers : writer[w].phase # "written"

Activate(a) ==
    /\ CallIs(a, "activating") /\ ExclusiveLock
    /\ \/ /\ MayActivate(a)
          /\ marker' = TRUE /\ workers' = [workers EXCEPT !.enabled = TRUE]
          /\ receipts' = [receipts EXCEPT ![a] = "consumed"] /\ consumed' = consumed + 1
          /\ \/ CallTurns(a, "activated") /\ UNCHANGED activationFaults
             \/ CallTurns(a, "rereading") /\ ActivationFault   \* the answer is lost
       \/ /\ ~MayActivate(a)
          /\ CallTurns(a, "rereading")
          /\ UNCHANGED <<marker, workers, receipts, consumed, activationFaults>>
       \/ /\ ActivationFault
          /\ CallTurns(a, "rereading")
          /\ UNCHANGED <<marker, workers, receipts, consumed>>
    /\ UNCHANGED <<unreconciled, writer>>

Reread == IF marker THEN "already_active" ELSE "error"

RereadMarker(a) ==
    /\ CallIs(a, "rereading")
    /\ CallTurns(a, Reread)
    /\ UNCHANGED <<marker, workers, unreconciled, receipts, consumed, writer, activationFaults>>

CallEnds(a) ==   \* its caller may ask again
    /\ activator[a] \in CallAnswersOf
    /\ CallTurns(a, "idle")
    /\ UNCHANGED <<marker, workers, unreconciled, receipts, consumed, writer, activationFaults>>

CallIsStopped(a) ==
    /\ activator[a] \notin CallAnswersOf \cup {"idle"}
    /\ ActivationFault
    /\ CallTurns(a, "idle")
    /\ UNCHANGED <<marker, workers, unreconciled, receipts, consumed, writer>>

-----------------------------------------------------------------------------
(* A transaction that writes to guarded tables.  A mutation is serializable *)
(* and has its snapshot from its first statement; others look afresh with   *)
(* every statement.                                                         *)
BeginWrite(w, contract, serializable) ==
    /\ writer[w].phase = "idle"
    /\ writer' = [writer EXCEPT ![w] = [phase |-> "begun", contract |-> contract,
                                       serializable |-> serializable, saw |-> marker]]
    /\ UNCHANGED <<marker, workers, unreconciled, receipts, consumed, activator, activationFaults>>

MarkerSeen(w) == IF writer[w].serializable THEN writer[w].saw ELSE marker

MayWrite(w) == MarkerSeen(w) => writer[w].contract = "v2"

(* The trigger of every guarded table: it takes the lock that activation    *)
(* takes exclusively, shared and until the end of the transaction, and then *)
(* looks at the marker.  What it refuses is rolled back.                    *)
Write(w) ==
    /\ writer[w].phase = "begun"
    /\ writer' = [writer EXCEPT ![w] = IF MayWrite(w) THEN [@ EXCEPT !.phase = "written"] ELSE NoWrite]
    /\ UNCHANGED <<marker, workers, unreconciled, receipts, consumed, activator, activationFaults>>

WriteEnds(w) ==   \* a v1 application may leave a claim behind
    /\ writer[w].phase = "written"
    /\ writer' = [writer EXCEPT ![w] = NoWrite]
    /\ unreconciled' \in {unreconciled, writer[w].contract = "v1" \/ unreconciled}
    /\ UNCHANGED <<marker, workers, receipts, consumed, activator, activationFaults>>

Reconcile ==   \* legacy claims settle, legacy controls are classified
    /\ unreconciled' = FALSE
    /\ UNCHANGED <<marker, workers, receipts, consumed, activator, writer, activationFaults>>

BeginDisableWorkers ==
    /\ workers.epoch < MaxSwitches
    /\ workers' = [enabled |-> FALSE, epoch |-> workers.epoch + 1]
    /\ UNCHANGED <<marker, unreconciled, receipts, consumed, activator, writer, activationFaults>>

ReenableWorkers ==
    /\ workers.epoch < MaxSwitches
    /\ workers' = [enabled |-> TRUE, epoch |-> workers.epoch + 1]
    /\ UNCHANGED <<marker, unreconciled, receipts, consumed, activator, writer, activationFaults>>

ActivatorStep(a) == ReadMarker(a) \/ RecordReadiness(a) \/ Activate(a) \/ RereadMarker(a) \/ CallEnds(a)

ActivationNext ==
    \/ Reconcile \/ BeginDisableWorkers \/ ReenableWorkers
    \/ \E a \in Activators :
          AskForActivation(a) \/ ActivatorStep(a) \/ ReceiptExpires(a) \/ CallIsStopped(a)
    \/ \E w \in Writers :
          \/ \E contract \in {"v1", "v2"}, serializable \in BOOLEAN : BeginWrite(w, contract, serializable)
          \/ Write(w) \/ WriteEnds(w)

ActivationSpec == ActivationInit /\ [][ActivationNext]_activationVars

-----------------------------------------------------------------------------
(* The database is activated once, by one receipt, whoever else holds a     *)
(* fresh one.                                                               *)
OneReceiptActivates == consumed = (IF marker THEN 1 ELSE 0)

(* A call that answers "activated" or "already_active" tells the truth, and *)
(* so does every later moment: also when its own transaction failed.        *)
AnswersAreTrue ==
    \A a \in Activators : activator[a] \in {"activated", "already_active"} => marker

(* Once the database is activated no transaction of an application of the   *)
(* old contract writes (migration.sql:247 "active schema requires           *)
(* application contract discord-ops-v2").                                   *)
OldWritersAreOut ==
    marker => \A w \in Writers : writer[w].phase = "written" => writer[w].contract = "v2"

(* The old contract writes after the activation only in a serializable      *)
(* transaction that began before it, however the two overlapped: who looks  *)
(* at the marker under the lock, or begins later, is refused.               *)
OnlyOlderSnapshotsWrite ==
    marker => \A w \in Writers :
        writer[w].phase = "written" /\ writer[w].contract = "v1" => writer[w].serializable /\ ~writer[w].saw

(* After activation only the operator's re-enable, with its new epoch,      *)
(* turns workers on that were turned off: not the late call of somebody     *)
(* who recorded a receipt before.                                           *)
DisableStands ==
    [][marker /\ ~workers.enabled /\ workers'.enabled => workers'.epoch # workers.epoch]_activationVars

(* Activation happens once, is told truly, shuts out the old writers that   *)
(* look at it or begin after it, and does not overrule the operator.        *)
ActivationIsOrderly ==
    [](ActivationTypeOK /\ OneReceiptActivates /\ AnswersAreTrue /\ OnlyOlderSnapshotsWrite) /\ DisableStands
=============================================================================
