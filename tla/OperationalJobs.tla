--------------------------- MODULE OperationalJobs ---------------------------
(***************************************************************************)
(* The jobs of the two cron routes and the row that each keeps.             *)
(*                                                                         *)
(* A call of a route runs its jobs in parallel.  Each run claims the row of *)
(* its job (RUNNING with its startedAt), works, and finishes the row it     *)
(* claimed; a row whose run has been going for longer than the timeout is   *)
(* taken over.  A run is known by its startedAt, here by the call it is     *)
(* part of.  The state of a row's age is 0, 1, or 2: past the timeout.      *)
(* Counts saturate at Many: what is decided from them is decided at two.    *)
(***************************************************************************)
EXTENDS Naturals

CONSTANTS Calls,          \* calls of the cron routes that overlap
          Jobs,           \* OPERATIONAL_JOB_NAMES
          Routes,         \* the jobs of each route
          MaxJobFaults    \* bound: stopped calls and lost answers of the database

ASSUME JobsAssumption ==
    /\ 0 \notin Calls /\ Routes \subseteq SUBSET Jobs /\ MaxJobFaults \in Nat

VARIABLES jobRow,     \* job -> its row
          jobRun,     \* call, job -> how far the run is
          unsettled,  \* job -> runs begun since the last that was recorded as a success
          jobFaults

jobVars == <<jobRow, jobRun, unsettled, jobFaults>>

Many == 3
OneMore(n) == IF n < Many THEN n + 1 ELSE n

RunStates == {"none", "starting", "working", "ok", "bad", "threw",
              "succeeded", "failed", "already_running", "rejected"}
Ended == {"none", "succeeded", "failed", "already_running", "rejected"}

NoJobRow == [status |-> "NONE", run |-> 0, age |-> 0, failures |-> 0, everGood |-> FALSE, silent |-> FALSE]

JobsTypeOK ==
    /\ jobRow \in [Jobs -> [status : {"NONE", "RUNNING", "SUCCEEDED", "FAILED"}, run : Calls \cup {0},
                            age : 0 .. 2, failures : 0 .. Many, everGood : BOOLEAN, silent : BOOLEAN]]
    /\ jobRun \in [Calls -> [Jobs -> RunStates]]
    /\ unsettled \in [Jobs -> 0 .. Many] /\ jobFaults \in 0 .. MaxJobFaults
    /\ \A j \in Jobs : jobRow[j].status \notin {"NONE", "RUNNING"} => jobRow[j].age = 0

JobsInit ==
    /\ jobRow = [j \in Jobs |-> NoJobRow]
    /\ jobRun = [c \in Calls |-> [j \in Jobs |-> "none"]]
    /\ unsettled = [j \in Jobs |-> 0] /\ jobFaults = 0

JobFault == jobFaults < MaxJobFaults /\ jobFaults' = jobFaults + 1
RunIs(c, j, state) == jobRun[c][j] = state
RunTurns(c, j, state) == jobRun' = [jobRun EXCEPT ![c][j] = state]

-----------------------------------------------------------------------------
CallIdle(c) == \A j \in Jobs : RunIs(c, j, "none")

CallRoute(c, route) ==
    /\ CallIdle(c)
    /\ jobRun' = [jobRun EXCEPT ![c] = [j \in Jobs |-> IF j \in route THEN "starting" ELSE "none"]]
    /\ UNCHANGED <<jobRow, unsettled, jobFaults>>

Bug_StillRunning(row) == row.status = "RUNNING"   \* however long
StillRunning(row) == row.status = "RUNNING" /\ row.age < 2

StartedRow(row, c) ==
    [row EXCEPT !.status = "RUNNING", !.run = c, !.age = 0,
                !.failures = IF row.status = "RUNNING" THEN OneMore(@) ELSE @]

TryStart(c, j) ==
    /\ RunIs(c, j, "starting")
    /\ IF StillRunning(jobRow[j])
       THEN RunTurns(c, j, "already_running") /\ UNCHANGED <<jobRow, unsettled>>
       ELSE /\ jobRow' = [jobRow EXCEPT ![j] = StartedRow(@, c)]
            /\ unsettled' = [unsettled EXCEPT ![j] = OneMore(@)]
            /\ RunTurns(c, j, "working")
    /\ UNCHANGED jobFaults

Work(c, j) ==
    /\ RunIs(c, j, "working")
    /\ \E outcome \in {"ok", "bad", "threw"} : RunTurns(c, j, outcome)
    /\ UNCHANGED <<jobRow, unsettled, jobFaults>>

Bug_IsItsRow(c, j) == jobRow[j].status = "RUNNING"   \* whoever started it
IsItsRow(c, j) == jobRow[j].status = "RUNNING" /\ jobRow[j].run = c

Succeeds(c, j) == RunIs(c, j, "ok")
FinishedRow(row, good) ==
    [row EXCEPT !.status = IF good THEN "SUCCEEDED" ELSE "FAILED", !.age = 0,
                !.failures = IF good THEN 0 ELSE OneMore(@),
                !.everGood = @ \/ good, !.silent = @ /\ ~good]

Finishes(c, j) ==
    /\ jobRow' = [jobRow EXCEPT ![j] = FinishedRow(@, Succeeds(c, j))]
    /\ unsettled' = [unsettled EXCEPT ![j] = IF Succeeds(c, j) THEN 0 ELSE @]

(* Whatever is thrown after the claim ends in a second finish: also when    *)
(* the first found that its row had been taken over, or did its work and    *)
(* the answer was lost.                                                     *)
FinishRun(c, j) ==
    /\ RunIs(c, j, "ok") \/ RunIs(c, j, "bad")
    /\ IF IsItsRow(c, j)
       THEN Finishes(c, j) /\ RunTurns(c, j, IF Succeeds(c, j) THEN "succeeded" ELSE "failed")
       ELSE RunTurns(c, j, "threw") /\ UNCHANGED <<jobRow, unsettled>>
    /\ UNCHANGED jobFaults

FinishAfterError(c, j) ==
    /\ RunIs(c, j, "threw")
    /\ IF IsItsRow(c, j)
       THEN Finishes(c, j) /\ RunTurns(c, j, "failed")
       ELSE RunTurns(c, j, "rejected") /\ UNCHANGED <<jobRow, unsettled>>
    /\ UNCHANGED jobFaults

FinishThrows(c, j) ==
    /\ \E state \in {"ok", "bad", "threw"} : RunIs(c, j, state)
    /\ JobFault
    /\ \/ IsItsRow(c, j) /\ Finishes(c, j)
       \/ UNCHANGED <<jobRow, unsettled>>
    /\ RunTurns(c, j, IF RunIs(c, j, "threw") THEN "rejected" ELSE "threw")

CallAnswers(c) ==
    /\ ~CallIdle(c) /\ \A j \in Jobs : jobRun[c][j] \in Ended
    /\ jobRun' = [jobRun EXCEPT ![c] = [j \in Jobs |-> "none"]]
    /\ UNCHANGED <<jobRow, unsettled, jobFaults>>

CallStops(c) ==
    /\ ~CallIdle(c)
    /\ JobFault
    /\ jobRun' = [jobRun EXCEPT ![c] = [j \in Jobs |-> "none"]]
    /\ UNCHANGED <<jobRow, unsettled>>

TimePasses(j) ==   \* on the scale of the job's timeout and of its interval
    /\ jobRow' = [jobRow EXCEPT ![j].age = IF jobRow[j].status = "RUNNING" /\ @ < 2 THEN @ + 1 ELSE @]
    /\ UNCHANGED <<jobRun, unsettled, jobFaults>>

ThreeIntervalsPass(j) ==   \* since the last success
    /\ jobRow' = [jobRow EXCEPT ![j].silent = jobRow[j].everGood]
    /\ UNCHANGED <<jobRun, unsettled, jobFaults>>

RunStep(c, j) == TryStart(c, j) \/ Work(c, j) \/ FinishRun(c, j) \/ FinishAfterError(c, j)

JobsNext ==
    \/ \E c \in Calls, route \in Routes : CallRoute(c, route)
    \/ \E c \in Calls : CallAnswers(c) \/ CallStops(c)
    \/ \E c \in Calls, j \in Jobs : RunStep(c, j) \/ FinishThrows(c, j)
    \/ \E j \in Jobs : TimePasses(j) \/ ThreeIntervalsPass(j)

JobsSpec == JobsInit /\ [][JobsNext]_jobVars

JobsFairness ==   \* calls keep coming to every route, runs go on, time passes
    /\ \A route \in Routes : SF_jobVars(\E c \in Calls : CallRoute(c, route))
    /\ \A c \in Calls : WF_jobVars(CallAnswers(c))
    /\ \A c \in Calls, j \in Jobs : WF_jobVars(RunStep(c, j))
    /\ \A j \in Jobs : WF_jobVars(TimePasses(j))

JobsFairSpec == JobsSpec /\ JobsFairness

-----------------------------------------------------------------------------
(* What readiness says of a row.                                            *)
Readiness(row) ==
    IF row.status = "NONE" THEN "unready"
    ELSE IF row.status = "RUNNING" THEN IF row.age = 2 THEN "unready" ELSE "degraded"
    ELSE IF row.failures >= 2 \/ ~row.everGood \/ row.silent THEN "unready"
    ELSE IF row.status = "FAILED" THEN "degraded" ELSE "ok"

(* A job that went wrong twice in a row - its runs failed, hung, stopped,   *)
(* or were overtaken in any order and then finished late - is reported as   *)
(* unready, unless a run of it is under way; and one that went wrong once   *)
(* is not reported as ok.                                                   *)
TroubleShows ==
    \A j \in Jobs : jobRow[j].status # "RUNNING" =>
        /\ unsettled[j] >= 2 => Readiness(jobRow[j]) = "unready"
        /\ unsettled[j] >= 1 => Readiness(jobRow[j]) # "ok"

(* Only a run that did its work, and that the row still names, is recorded  *)
(* as a success: not one that was overtaken and comes back.                 *)
SuccessIsTheRuns ==
    [][\A j \in Jobs : jobRow'[j].status = "SUCCEEDED" /\ jobRow[j].status # "SUCCEEDED" =>
          jobRow[j].run \in Calls /\ RunIs(jobRow[j].run, j, "ok")]_jobVars

(* A job whose run never ended is started again, and is not left RUNNING    *)
(* past its timeout for ever.                                               *)
JobsComeBack ==
    \A j \in Jobs : (jobRow[j].status = "RUNNING" /\ jobRow[j].age = 2)
                        ~> (jobRow[j].status # "RUNNING" \/ jobRow[j].age = 0)

(* The row of a job speaks for its runs, and only the named run for itself. *)
RowsSpeakForTheirRuns == [](JobsTypeOK /\ TroubleShows) /\ SuccessIsTheRuns
=============================================================================
