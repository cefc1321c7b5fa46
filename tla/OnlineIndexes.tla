---------------------------- MODULE OnlineIndexes ----------------------------
(***************************************************************************)
(* scripts/apply-online-admin-search-indexes.ts: the owner-only runner     *)
(* that builds the administrator search indexes with CREATE INDEX          *)
(* CONCURRENTLY, one statement at a time and outside any transaction, and  *)
(* marks its ledger row APPLIED when the catalogue agrees.  Runners of     *)
(* several deployments may start at once, and any of them may fail or be   *)
(* killed and leave an index behind that PostgreSQL does not use.          *)
(***************************************************************************)
EXTENDS Integers, FiniteSets

CONSTANTS Runners,          \* processes that run the script
          IndexCount,       \* entries of ONLINE_INDEX_MANIFEST
          Checksum,         \* runner -> checksum of its manifest
          MaxIndexFaults    \* kills, failed statements, operators' statements

ASSUME IndexAssumption ==
    /\ IndexCount \in Nat \ {0} /\ MaxIndexFaults \in Nat
    /\ \A r \in Runners : Checksum[r] \in Nat \ {0}

Indexes == 1 .. IndexCount

VARIABLES indexState,    \* "absent", "valid", "invalid" or "foreign": valid,
                         \* but not what the manifest says
          indexLedger,   \* the row of app_private.online_schema_migrations
          advisoryLock,  \* {} or the runner whose session holds it
          runner,        \* runner -> where it is
          indexFaults,
          operatorActed  \* an operator has changed an index by hand

indexVars == <<indexState, indexLedger, advisoryLock, runner, indexFaults, operatorActed>>

NoLedgerRow == [checksum |-> 0, state |-> "NONE"]

IndexInit ==
    /\ indexState \in [Indexes -> {"absent", "invalid", "foreign"}]
    /\ Cardinality({i \in Indexes : indexState[i] # "absent"}) <= 1
    /\ indexLedger = NoLedgerRow
    /\ advisoryLock = {}
    /\ runner = [r \in Runners |-> [pc |-> "ready", at |-> 0]]
    /\ indexFaults = 0
    /\ operatorActed = FALSE

RunnerAt(r, pc) == runner[r].pc = pc
Moved(r, pc, at) == runner' = [runner EXCEPT ![r] = [pc |-> pc, at |-> at]]

\* The finally block: the lock is given back however the run ended.
Released(r) == advisoryLock \ {r}

Ends(r, pc) == Moved(r, pc, 0) /\ advisoryLock' = Released(r)

\* The script is started, and waits for the lock without a time limit.
StartRunner(r) ==
    /\ RunnerAt(r, "ready")
    /\ Moved(r, "waiting", 0)
    /\ UNCHANGED <<indexState, indexLedger, advisoryLock, indexFaults, operatorActed>>

TakeAdvisoryLock(r) ==
    /\ RunnerAt(r, "waiting") /\ advisoryLock = {}
    /\ advisoryLock' = {r}
    /\ Moved(r, "ledger", 0)
    /\ UNCHANGED <<indexState, indexLedger, indexFaults, operatorActed>>

\* The ledger row goes back to APPLYING, unless it is of another manifest.
OpenLedger(r) ==
    /\ RunnerAt(r, "ledger")
    /\ IF indexLedger.state # "NONE" /\ indexLedger.checksum # Checksum[r]
       THEN Ends(r, "failed") /\ UNCHANGED indexLedger
       ELSE /\ indexLedger' = [checksum |-> Checksum[r], state |-> "APPLYING"]
            /\ Moved(r, "building", 1) /\ UNCHANGED advisoryLock
    /\ UNCHANGED <<indexState, indexFaults, operatorActed>>

\* Existence is enough.
Bug_Usable(state) == state # "absent"

\* valid, ready, and what the manifest says (matchesManifest).
Usable(state) == state = "valid"

\* An index PostgreSQL has given up on is dropped; one that is valid is the
\* business of whoever built it.
InTheWay(state) == state = "invalid"

\* The first inspection: a valid index that does not match ends the run.
RefuseForeign(r) ==
    /\ RunnerAt(r, "building") /\ runner[r].at \in Indexes
    /\ indexState[runner[r].at] = "foreign" /\ ~InTheWay("foreign")
    /\ Ends(r, "failed")
    /\ UNCHANGED <<indexState, indexLedger, indexFaults, operatorActed>>

DropInvalid(r) ==
    /\ RunnerAt(r, "building") /\ runner[r].at \in Indexes
    /\ InTheWay(indexState[runner[r].at])
    /\ indexState' = [indexState EXCEPT ![runner[r].at] = "absent"]
    /\ Moved(r, "creating", runner[r].at)
    /\ UNCHANGED <<indexLedger, advisoryLock, indexFaults, operatorActed>>

NothingToBuild(r) ==
    /\ RunnerAt(r, "building") /\ runner[r].at \in Indexes
    /\ Usable(indexState[runner[r].at])
    /\ Moved(r, "building", runner[r].at + 1)
    /\ UNCHANGED <<indexState, indexLedger, advisoryLock, indexFaults, operatorActed>>

ToCreate(r) ==
    /\ RunnerAt(r, "building") /\ runner[r].at \in Indexes
    /\ indexState[runner[r].at] \in {"absent", "invalid"}
    /\ ~InTheWay(indexState[runner[r].at])
    /\ Moved(r, "creating", runner[r].at)
    /\ UNCHANGED <<indexState, indexLedger, advisoryLock, indexFaults, operatorActed>>

\* CREATE INDEX CONCURRENTLY IF NOT EXISTS: the row is in the catalogue,
\* not valid, for as long as the build lasts; a name that is taken is left.
BeginCreate(r) ==
    /\ RunnerAt(r, "creating")
    /\ indexState' = [indexState EXCEPT ![runner[r].at] =
                          IF @ = "absent" THEN "invalid" ELSE @]
    /\ Moved(r, IF indexState[runner[r].at] = "absent" THEN "created" ELSE "inspecting",
             runner[r].at)
    /\ UNCHANGED <<indexLedger, advisoryLock, indexFaults, operatorActed>>

EndCreate(r) ==
    /\ RunnerAt(r, "created")
    /\ indexState' = [indexState EXCEPT ![runner[r].at] =
                          IF @ = "invalid" THEN "valid" ELSE @]
    /\ Moved(r, "inspecting", runner[r].at)
    /\ UNCHANGED <<indexLedger, advisoryLock, indexFaults, operatorActed>>

\* The second inspection.
Inspect(r) ==
    /\ RunnerAt(r, "inspecting")
    /\ IF Usable(indexState[runner[r].at])
       THEN Moved(r, "building", runner[r].at + 1) /\ UNCHANGED advisoryLock
       ELSE Ends(r, "failed")
    /\ UNCHANGED <<indexState, indexLedger, indexFaults, operatorActed>>

\* The loop over all indexes that follows, one inspection at a time.
VerifyAgain(r) ==
    /\ \/ RunnerAt(r, "building") /\ runner[r].at > IndexCount /\ Moved(r, "verifying", 1)
          /\ UNCHANGED advisoryLock
       \/ /\ RunnerAt(r, "verifying") /\ runner[r].at \in Indexes
          /\ IF Usable(indexState[runner[r].at])
             THEN Moved(r, "verifying", runner[r].at + 1) /\ UNCHANGED advisoryLock
             ELSE Ends(r, "failed")
       \/ RunnerAt(r, "verifying") /\ runner[r].at > IndexCount /\ Moved(r, "marking", 0)
          /\ UNCHANGED advisoryLock
    /\ UNCHANGED <<indexState, indexLedger, indexFaults, operatorActed>>

\* The transaction that ends the run.
MarkApplied(r) ==
    /\ RunnerAt(r, "marking")
    /\ IF indexLedger = [checksum |-> Checksum[r], state |-> "APPLYING"]
       THEN indexLedger' = [indexLedger EXCEPT !.state = "APPLIED"] /\ Ends(r, "applied")
       ELSE Ends(r, "failed") /\ UNCHANGED indexLedger
    /\ UNCHANGED <<indexState, indexFaults, operatorActed>>

-----------------------------------------------------------------------------
(* Faults, and the next deployment.                                        *)

IndexFault == indexFaults < MaxIndexFaults /\ indexFaults' = indexFaults + 1

\* A statement fails: a lock or statement timeout, or the deadlock of a
\* concurrent build with a session that waits for the advisory lock.
\* A process that is killed ends the same way, once its session ends.
StatementFails(r) ==
    /\ IndexFault
    /\ ~RunnerAt(r, "ready") /\ ~RunnerAt(r, "applied") /\ ~RunnerAt(r, "failed")
    /\ Ends(r, "failed")
    /\ UNCHANGED <<indexState, indexLedger, operatorActed>>

\* An operator drops an index or builds another one under its name.
OperatorChanges(i, state) ==
    /\ IndexFault
    /\ state \in {"absent", "foreign"} /\ indexState[i] # state
    /\ indexState' = [indexState EXCEPT ![i] = state]
    /\ operatorActed' = TRUE
    /\ UNCHANGED <<indexLedger, advisoryLock, runner>>

\* The script is run again.
RunAgain(r) ==
    /\ RunnerAt(r, "applied") \/ RunnerAt(r, "failed")
    /\ Moved(r, "ready", 0)
    /\ UNCHANGED <<indexState, indexLedger, advisoryLock, indexFaults, operatorActed>>

RunnerStep(r) ==
    \/ TakeAdvisoryLock(r) \/ OpenLedger(r)
    \/ RefuseForeign(r) \/ DropInvalid(r) \/ NothingToBuild(r) \/ ToCreate(r)
    \/ BeginCreate(r) \/ EndCreate(r) \/ Inspect(r)
    \/ VerifyAgain(r) \/ MarkApplied(r)

IndexNext ==
    \/ \E r \in Runners : StartRunner(r) \/ RunnerStep(r) \/ StatementFails(r) \/ RunAgain(r)
    \/ \E i \in Indexes, state \in {"absent", "foreign"} : OperatorChanges(i, state)

IndexSpec == IndexInit /\ [][IndexNext]_indexVars

-----------------------------------------------------------------------------
(* Properties.                                                             *)

\* The runner's rows and the lock agree (apply-online-admin-search-indexes.ts):
\* whoever is past the lock holds it, alone, so that no two runners build,
\* drop or mark at the same time.
RunnersTypeOK ==
    /\ Cardinality(advisoryLock) <= 1
    /\ \A r \in Runners :
          (r \in advisoryLock) = (runner[r].pc \notin {"ready", "waiting", "applied", "failed"})

\* A ledger that says APPLIED has every index, valid and as the manifest
\* says, unless an operator changed one by hand: whatever failures and
\* reruns there were, predeploy-check may rely on it.
AppliedIsBuilt ==
    indexLedger.state = "APPLIED" /\ ~operatorActed =>
       \A i \in Indexes : indexState[i] = "valid"

\* A run without any fault ends as failed only for a reason an operator must
\* look at: an index somebody else built, or the ledger of another manifest.
\* What an earlier run left half built is never one.
FailuresHaveACause ==
    \A r \in Runners :
       RunnerAt(r, "failed") /\ indexFaults = 0 =>
          \/ \E i \in Indexes : indexState[i] = "foreign"
          \/ indexLedger.checksum # Checksum[r]

\* An index that is valid is never dropped or replaced by a runner, not even
\* when it is not the one the manifest describes.
ValidIndexesStay ==
    [][\A i \in Indexes :
          indexState[i] \in {"valid", "foreign"} /\ operatorActed' = operatorActed
          /\ indexFaults' = indexFaults => indexState'[i] = indexState[i]]_indexVars

\* The indexes are as the ledger says, and the runners do no harm.
IndexesAreSafe == [](RunnersTypeOK /\ AppliedIsBuilt /\ FailuresHaveACause) /\ ValidIndexesStay
=============================================================================
