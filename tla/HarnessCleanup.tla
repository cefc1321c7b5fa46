--------------------------- MODULE HarnessCleanup ---------------------------
(***************************************************************************)
(* The throw-away PostgreSQL of the operational checks                     *)
(* (src/scripts/operational-fomo-harness.mjs): its stages, each under a    *)
(* timeout that does not stop the work it gave up on, and the cleanup that *)
(* must leave no process, directory or port behind and writes what it did  *)
(* into a receipt that is created once.                                    *)
(*                                                                         *)
(* Two processes are spawned, by the stages of their names.  The work of a *)
(* stage is a promise of its own: a stage that timed out aborts it, waits  *)
(* for a second and goes on to the cleanup whether the work ended or not.  *)
(***************************************************************************)
EXTENDS Naturals, FiniteSets

CONSTANTS
    OldReceipts,         \* may the attempt directory hold a receipt already?
    MaxHarnessFaults     \* bound: timeouts, failures and kills that do not work

ASSUME HarnessAssumption == OldReceipts \subseteq BOOLEAN /\ MaxHarnessFaults \in Nat

Processes == {"initdb", "postgres"}

VARIABLES
    stage,      \* the stage of withOperationalPostgres
    work,       \* the promise behind initialise and start
    process,    \* the operating system's processes
    active,     \* activeProcesses: the processes stop() ends
    known,      \* processHistory
    aborted,    \* the stages whose signal is aborted
    stopping,   \* the records stop() copied and did not end yet
    rootThere,  \* is the temporary directory there?
    listed,     \* receipt.processes, by whether they were found dead
    failed,     \* is there a cleanupError?
    immortal,   \* history: the processes that outlived both signals
    late,       \* history: the processes spawned after the harness had looked
    receipt,    \* operational-postgres-cleanup.json
    faults

harnessVars == <<stage, work, process, active, known, aborted, stopping, rootThere,
                 listed, failed, immortal, late, receipt, faults>>
ghosts == <<immortal, late>>

HarnessInit ==
    /\ stage = "initdb"
    /\ work = [p \in Processes |-> "idle"]
    /\ process = [p \in Processes |-> "none"]
    /\ active = {} /\ known = {} /\ aborted = {} /\ stopping = {}
    /\ rootThere = TRUE
    /\ listed = [p \in {} |-> TRUE]
    /\ failed = FALSE /\ immortal = {} /\ late = {}
    /\ receipt \in {IF old THEN "older" ELSE "none" : old \in OldReceipts}
    /\ faults = 0

Fault == faults < MaxHarnessFaults /\ faults' = faults + 1
AfterStage == [initdb |-> "postgres", postgres |-> "operation"]
Alive(p) == process[p] = "alive"

-----------------------------------------------------------------------------
(* The stages and their work.                                              *)

\* initialise writes the password file before it spawns; start spawns at once.
BeginWork(p) ==
    /\ stage = p /\ work[p] = "idle"
    /\ work' = [work EXCEPT ![p] = IF p = "initdb" THEN "writing" ELSE "spawning"]
    /\ UNCHANGED <<stage, process, active, known, aborted, stopping, ghosts,
                   rootThere,
                   listed, failed, receipt, faults>>

\* The process is spawned and tracked; nothing looks at the signal before.
\* Without the directory the password file cannot be written.
Spawn(p) ==
    /\ work[p] \in {"writing", "spawning"}
    /\ IF rootThere
       THEN /\ process' = [process EXCEPT ![p] = "alive"]
            /\ active' = active \cup {p}
            /\ known' = known \cup {p}
            /\ work' = [work EXCEPT ![p] = "running"]
            /\ late' = IF stage \in {"removing", "checking", "writing", "threw", "returned"}
                       THEN late \cup {p} ELSE late
       ELSE /\ work' = [work EXCEPT ![p] = "failed"]
            /\ UNCHANGED <<process, active, known, late>>
    /\ UNCHANGED <<stage, aborted, stopping, immortal, rootThere, listed,
                   failed, receipt, faults>>

\* initdb ends well and is untracked; postgres says that it is ready.
WorkSucceeds(p) ==
    /\ work[p] = "running" /\ Alive(p) /\ p \notin aborted
    /\ work' = [work EXCEPT ![p] = "done"]
    /\ IF p = "initdb"
       THEN /\ process' = [process EXCEPT ![p] = "dead"]
            /\ active' = active \ {p}
       ELSE UNCHANGED <<process, active>>
    /\ UNCHANGED <<stage, known, aborted, stopping, ghosts, rootThere, listed,
                   failed, receipt, faults>>

\* A process ends by itself; work that waits for it fails.
ProcessEnds(p) ==
    /\ Alive(p) /\ Fault
    /\ process' = [process EXCEPT ![p] = "dead"]
    /\ active' = active \ {p}
    /\ work' = [work EXCEPT ![p] = IF @ = "running" THEN "failed" ELSE @]
    /\ UNCHANGED <<stage, known, aborted, stopping, ghosts, rootThere, listed,
                   failed, receipt>>

\* terminateOwnedProcessTree for an aborted signal.
WorkIsKilled(p) ==
    /\ work[p] = "running" /\ p \in aborted
    /\ work' = [work EXCEPT ![p] = "failed"]
    /\ process' = [process EXCEPT ![p] = "dead"]
    /\ active' = active \ {p}
    /\ UNCHANGED <<stage, known, aborted, stopping, ghosts, rootThere, listed,
                   failed, receipt, faults>>

\* The process outlives both signals: initdb is untracked all the same.
KillFails(p) ==
    /\ work[p] = "running" /\ p \in aborted /\ Fault
    /\ work' = [work EXCEPT ![p] = "failed"]
    /\ active' = IF p = "initdb" THEN active \ {p} ELSE active
    /\ immortal' = immortal \cup {p} /\ UNCHANGED late
    /\ UNCHANGED <<stage, process, known, aborted, stopping, rootThere, listed,
                   failed, receipt>>

\* stage: the value, the error, or the end of the time.
StageEnds ==
    /\ stage \in Processes /\ work[stage] \in {"done", "failed"}
    /\ stage' = IF work[stage] = "done" /\ stage \notin aborted
                THEN AfterStage[stage] ELSE "cleanup"
    /\ UNCHANGED <<work, process, active, known, aborted, stopping, ghosts, rootThere,
                   listed, failed, receipt, faults>>

StageTimesOut ==
    /\ stage \in Processes /\ stage \notin aborted
    /\ work[stage] \in {"writing", "running"}
    /\ Fault
    /\ aborted' = aborted \cup {stage}
    /\ UNCHANGED <<stage, work, process, active, known, stopping, ghosts, rootThere,
                   listed, failed, receipt>>

\* boundedResult: the second is over and the work is still pending.
GiveUpWaiting ==
    /\ stage \in aborted
    /\ work[stage] \in {"writing", "running"}
    /\ stage' = "cleanup"
    /\ UNCHANGED <<work, process, active, known, aborted, stopping, ghosts, rootThere,
                   listed, failed, receipt, faults>>

\* createDatabase and the operation: they return or throw.
OperationEnds ==
    /\ stage = "operation"
    /\ stage' = "cleanup"
    /\ UNCHANGED <<work, process, active, known, aborted, stopping, ghosts, rootThere,
                   listed, failed, receipt, faults>>

-----------------------------------------------------------------------------
(* The finally block.                                                      *)

\* The records stop() copies.
ToStop == active

BeginStop ==
    /\ stage = "cleanup"
    /\ stage' = "stopping"
    /\ stopping' = ToStop
    /\ UNCHANGED <<work, process, active, known, aborted, ghosts, rootThere,
                   listed, failed,
                   receipt, faults>>

StopOne(p) ==
    /\ stage = "stopping" /\ p \in stopping
    /\ stopping' = stopping \ {p}
    /\ process' = [process EXCEPT ![p] = "dead"]
    /\ active' = active \ {p}
    /\ work' = [work EXCEPT ![p] = IF @ = "running" THEN "failed" ELSE @]
    /\ UNCHANGED <<stage, known, aborted, ghosts, rootThere, listed, failed,
                   receipt, faults>>

\* A process that does not end: stop() throws and leaves the others.
StopFails(p) ==
    /\ stage = "stopping" /\ p \in stopping /\ Fault
    /\ stopping' = {}
    /\ immortal' = immortal \cup {p} /\ UNCHANGED late
    /\ failed' = TRUE
    /\ stage' = "looking"
    /\ UNCHANGED <<work, process, active, known, aborted, rootThere, listed, receipt>>

StopEnds ==
    /\ stage = "stopping" /\ stopping = {}
    /\ stage' = "looking"
    /\ UNCHANGED <<work, process, active, known, aborted, stopping, ghosts,
                   rootThere, listed,
                   failed, receipt, faults>>

Bug_Looked == [p \in active |-> ~Alive(p)]
\* isProcessAlive for every process that was ever spawned.
Looked == [p \in known |-> ~Alive(p)]

LookForProcesses ==
    /\ stage = "looking"
    /\ listed' = Looked
    /\ failed' = (failed \/ \E p \in DOMAIN Looked : ~Looked[p])
    /\ stage' = "removing"
    /\ UNCHANGED <<work, process, active, known, aborted, stopping, ghosts,
                   rootThere, receipt, faults>>

RemoveRoot ==
    /\ stage = "removing"
    /\ \/ rootThere' = FALSE /\ UNCHANGED <<failed, faults>>
       \/ UNCHANGED rootThere /\ failed' = TRUE /\ Fault
    /\ stage' = "checking"
    /\ UNCHANGED <<work, process, active, known, aborted, stopping, ghosts,
                   listed, receipt>>

\* access and isLoopbackPortFree.
CheckPort ==
    /\ stage = "checking"
    /\ failed' = (failed \/ rootThere \/ Alive("postgres"))
    /\ stage' = "writing"
    /\ UNCHANGED <<work, process, active, known, aborted, stopping, ghosts,
                   rootThere, listed,
                   receipt, faults>>

\* writeFile with flag "wx": an older receipt is never replaced.
ReceiptWritten(old) ==
    IF old # "none" THEN old ELSE IF failed THEN "failed" ELSE "cleaned"

WriteReceipt ==
    /\ stage = "writing"
    /\ receipt' = ReceiptWritten(receipt)
    /\ failed' = (failed \/ receipt # "none")
    /\ stage' = IF failed' THEN "threw" ELSE "returned"
    /\ UNCHANGED <<work, process, active, known, aborted, stopping, ghosts,
                   rootThere, listed, faults>>

HarnessOver ==
    /\ stage \in {"threw", "returned"}
    /\ \A p \in Processes : work[p] \notin {"writing", "spawning", "running"}
    /\ UNCHANGED harnessVars

HarnessNext ==
    \/ \E p \in Processes :
         \/ BeginWork(p) \/ Spawn(p) \/ WorkSucceeds(p) \/ ProcessEnds(p)
         \/ WorkIsKilled(p) \/ KillFails(p) \/ StopOne(p) \/ StopFails(p)
    \/ StageEnds \/ StageTimesOut \/ GiveUpWaiting \/ OperationEnds
    \/ BeginStop \/ StopEnds \/ LookForProcesses \/ RemoveRoot
    \/ CheckPort \/ WriteReceipt \/ HarnessOver

\* Work that is under way and the steps of the harness go on by themselves.
HarnessFairness ==
    /\ \A p \in Processes :
         /\ WF_harnessVars(BeginWork(p)) /\ WF_harnessVars(Spawn(p))
         /\ WF_harnessVars(WorkSucceeds(p)) /\ WF_harnessVars(WorkIsKilled(p))
         /\ WF_harnessVars(StopOne(p))
    /\ WF_harnessVars(StageEnds) /\ WF_harnessVars(GiveUpWaiting)
    /\ WF_harnessVars(OperationEnds) /\ WF_harnessVars(BeginStop)
    /\ WF_harnessVars(StopEnds) /\ WF_harnessVars(LookForProcesses)
    /\ WF_harnessVars(RemoveRoot) /\ WF_harnessVars(CheckPort)
    /\ WF_harnessVars(WriteReceipt)

HarnessSpec == HarnessInit /\ [][HarnessNext]_harnessVars
HarnessFairSpec == HarnessSpec /\ HarnessFairness

-----------------------------------------------------------------------------
(* What the harness promises.                                              *)

Stages == Processes \cup {"operation", "cleanup", "stopping", "looking", "removing", "checking", "writing",
                         "threw", "returned"}

\* Every variable has its type, and stop() copies what was tracked.
HarnessTypeOK ==
    /\ stage \in Stages
    /\ work \in [Processes -> {"idle", "writing", "spawning", "running", "done", "failed"}]
    /\ process \in [Processes -> {"none", "alive", "dead"}]
    /\ active \cup aborted \cup stopping \cup immortal \cup late \subseteq Processes
    /\ stopping \cup active \subseteq known /\ known \subseteq Processes
    /\ listed \in UNION {[P -> BOOLEAN] : P \in SUBSET Processes}
    /\ rootThere \in BOOLEAN /\ failed \in BOOLEAN
    /\ receipt \in {"none", "older", "cleaned", "failed"}
    /\ faults \in 0 .. MaxHarnessFaults

\* A receipt that says "cleaned" is true: what was spawned when the harness
\* looked is dead, the port is free, and the directory is gone; what it says
\* of a process stays true.
CleanedIsClean ==
    /\ \A p \in DOMAIN listed : listed[p] => ~Alive(p)
    /\ receipt = "cleaned" =>
         ~rootThere /\ \A p \in Processes : Alive(p) => p \in late

\* The receipt of an earlier attempt is never replaced.
ReceiptIsKept == [][receipt # "none" => receipt' = receipt]_harnessVars

\* Every process that can be killed ends, also the one that was spawned after
\* its stage was given up.
NothingIsLeftRunning ==
    \A p \in Processes : Alive(p) ~> ~Alive(p) \/ p \in immortal

\* What a receipt says is so, and no receipt is replaced.
ReceiptsAreTrue == [](HarnessTypeOK /\ CleanedIsClean) /\ ReceiptIsKept
=============================================================================
