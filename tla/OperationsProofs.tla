-------------------------- MODULE OperationsProofs --------------------------
(***************************************************************************)
(* Proofs about what runs beside the reservations: the jobs of the cron     *)
(* routes, the notice of a closed period, the harness that tests the        *)
(* operations, the board of the operations channel, the recorder of         *)
(* evidence, the activation of the application's contract, the sweep of a   *)
(* disabled channel, the index builds of the deployment, and the accounts   *)
(* with their sessions.  Each section gives an inductive invariant of its   *)
(* component and the safety that follows.                                   *)
(***************************************************************************)
EXTENDS OperationalJobs, ClosedListNotices, HarnessCleanup, OperationsBoard, EvidenceRecorder,
        AccountSessions, ContractActivation, DisableSweep, OnlineIndexes, FiniteSetTheorems,
        FunctionTheorems, SequenceTheorems, WellFoundedInduction, TLAPS

-----------------------------------------------------------------------------
(* The jobs of the cron routes.                                             *)

(* The rows of the jobs.                                                    *)
JobRowType == [status : {"NONE", "RUNNING", "SUCCEEDED", "FAILED"}, run : Calls \cup {0},
               age : 0 .. 2, failures : 0 .. Many, everGood : BOOLEAN, silent : BOOLEAN]

(* The failures that a row counts are never fewer than the runs begun since *)
(* the last recorded success, the one under way set aside.                  *)
CountsInv ==
    \A j \in Jobs :
        /\ jobRow[j].status = "RUNNING" => unsettled[j] <= jobRow[j].failures + 1
        /\ jobRow[j].status = "FAILED" => unsettled[j] <= jobRow[j].failures
        /\ jobRow[j].status \in {"NONE", "SUCCEEDED"} => unsettled[j] = 0

(* The inductive invariant of the jobs.                                     *)
JobsInv == JobsTypeOK /\ CountsInv

(* The invariant holds in the initial states.                               *)
LEMMA JobsStart == JobsInit => JobsInv
<1> SUFFICES ASSUME JobsInit PROVE JobsInv
  OBVIOUS
<1>1. NoJobRow \in JobRowType /\ NoJobRow.status = "NONE"
  BY DEF NoJobRow, JobRowType, Many
<1>2. /\ jobRow = [j \in Jobs |-> NoJobRow] /\ unsettled = [j \in Jobs |-> 0] /\ jobFaults = 0
      /\ jobRun = [c \in Calls |-> [j \in Jobs |-> "none"]]
  BY DEF JobsInit
<1>3. MaxJobFaults \in Nat
  BY JobsAssumption DEF JobsAssumption
<1>4. JobsTypeOK
  <2>1. jobRow \in [Jobs -> JobRowType] /\ \A j \in Jobs : jobRow[j].status = "NONE"
    BY <1>1, <1>2
  <2>2. jobRun \in [Calls -> [Jobs -> RunStates]]
    BY <1>2 DEF RunStates
  <2>3. unsettled \in [Jobs -> 0 .. Many] /\ jobFaults \in 0 .. MaxJobFaults
    BY <1>2, <1>3 DEF Many
  <2> QED BY <2>1, <2>2, <2>3 DEF JobsTypeOK, JobRowType
<1>5. CountsInv
  BY <1>1, <1>2 DEF CountsInv
<1> QED BY <1>4, <1>5 DEF JobsInv

(* What one more is, for counts that saturate.                              *)
LEMMA OneMoreIs == ASSUME NEW n \in 0 .. Many
                   PROVE  OneMore(n) \in 0 .. Many /\ OneMore(n) <= n + 1 /\ (n < Many => OneMore(n) = n + 1)
                          /\ (n = Many => OneMore(n) = Many)
BY DEF OneMore, Many

(* A start takes the row over, and counts the run that it overtakes as a    *)
(* failure.                                                                 *)
LEMMA StartedRowIs ==
    ASSUME NEW row \in JobRowType, NEW c \in Calls
    PROVE  LET new == StartedRow(row, c) IN
           /\ new \in JobRowType /\ new.status = "RUNNING"
           /\ row.status = "RUNNING" => new.failures = OneMore(row.failures)
           /\ row.status # "RUNNING" => new.failures = row.failures
<1>1. OneMore(row.failures) \in 0 .. Many
  BY OneMoreIs DEF JobRowType
<1> DEFINE f == IF row.status = "RUNNING" THEN OneMore(row.failures) ELSE row.failures
           young == 0
           new == [row EXCEPT !.status = "RUNNING", !.run = c, !.age = young, !.failures = f]
<1>2. StartedRow(row, c) = new
  BY DEF StartedRow
<1>3. f \in 0 .. Many /\ young \in 0 .. 2
  BY <1>1 DEF JobRowType
<1> HIDE DEF f, young
<1>4. new \in JobRowType
  BY <1>3 DEF JobRowType
<1>5. new.status = "RUNNING" /\ new.failures = f
  BY DEF JobRowType
<1> QED BY <1>2, <1>4, <1>5 DEF f

(* A finish says how the run ended.                                         *)
LEMMA FinishedRowIs ==
    ASSUME NEW row \in JobRowType, NEW good \in BOOLEAN
    PROVE  LET new == FinishedRow(row, good) IN
           /\ new \in JobRowType /\ new.age = 0
           /\ new.status = IF good THEN "SUCCEEDED" ELSE "FAILED"
           /\ ~good => new.failures = OneMore(row.failures)
<1>1. OneMore(row.failures) \in 0 .. Many
  BY OneMoreIs DEF JobRowType
<1> DEFINE f == IF good THEN 0 ELSE OneMore(row.failures)
           status == IF good THEN "SUCCEEDED" ELSE "FAILED"
           ever == row.everGood \/ good
           quiet == row.silent /\ ~good
           young == 0
           new == [row EXCEPT !.status = status, !.age = young, !.failures = f, !.everGood = ever, !.silent = quiet]
<1>2. FinishedRow(row, good) = new
  BY DEF FinishedRow
<1>3. f \in 0 .. Many /\ young \in 0 .. 2 /\ status \in {"SUCCEEDED", "FAILED"}
  BY <1>1 DEF Many
<1>4. ever \in BOOLEAN /\ quiet \in BOOLEAN
  OBVIOUS
<1> HIDE DEF f, young, status, ever, quiet
<1>5. new \in JobRowType
  BY <1>3, <1>4 DEF JobRowType
<1>6. new.age = young /\ new.status = status /\ new.failures = f
  BY DEF JobRowType
<1> QED BY <1>2, <1>5, <1>6 DEF f, young, status

(* What a step may do to a row, and to the count of its runs.               *)
RowMoves(j) ==
    \/ jobRow'[j] = jobRow[j] /\ unsettled'[j] = unsettled[j]
    \/ /\ jobRow'[j].status = jobRow[j].status /\ jobRow'[j].failures = jobRow[j].failures
       /\ unsettled'[j] = unsettled[j]
    \/ \E c \in Calls : jobRow'[j] = StartedRow(jobRow[j], c) /\ unsettled'[j] = OneMore(unsettled[j])
    \/ \E c \in Calls :
         /\ IsItsRow(c, j)
         /\ jobRow'[j] = FinishedRow(jobRow[j], Succeeds(c, j))
         /\ unsettled'[j] = IF Succeeds(c, j) THEN 0 ELSE unsettled[j]

(* Whatever a step does to a row, the count is kept.                        *)
LEMMA RowMovesKeepCounts ==
    ASSUME JobsInv, \A j \in Jobs : RowMoves(j)
    PROVE  CountsInv'
<1> SUFFICES ASSUME NEW j \in Jobs
             PROVE  /\ jobRow'[j].status = "RUNNING" => unsettled'[j] <= jobRow'[j].failures + 1
                    /\ jobRow'[j].status = "FAILED" => unsettled'[j] <= jobRow'[j].failures
                    /\ jobRow'[j].status \in {"NONE", "SUCCEEDED"} => unsettled'[j] = 0
  BY DEF CountsInv
<1>1. /\ jobRow[j] \in JobRowType /\ unsettled[j] \in 0 .. Many
  BY DEF JobsInv, JobsTypeOK, JobRowType
<1>2. /\ jobRow[j].status = "RUNNING" => unsettled[j] <= jobRow[j].failures + 1
      /\ jobRow[j].status = "FAILED" => unsettled[j] <= jobRow[j].failures
      /\ jobRow[j].status \in {"NONE", "SUCCEEDED"} => unsettled[j] = 0
  BY DEF JobsInv, CountsInv
<1>3. /\ jobRow[j].status \in {"NONE", "RUNNING", "SUCCEEDED", "FAILED"}
      /\ jobRow[j].failures \in 0 .. Many
  BY <1>1 DEF JobRowType
<1>4. CASE \E c \in Calls : jobRow'[j] = StartedRow(jobRow[j], c) /\ unsettled'[j] = OneMore(unsettled[j])
  <2>1. PICK c \in Calls : jobRow'[j] = StartedRow(jobRow[j], c)
    BY <1>4
  <2>2. /\ jobRow'[j].status = "RUNNING"
        /\ jobRow[j].status = "RUNNING" => jobRow'[j].failures = OneMore(jobRow[j].failures)
        /\ jobRow[j].status # "RUNNING" => jobRow'[j].failures = jobRow[j].failures
    BY <1>1, <2>1, StartedRowIs
  <2>3. unsettled'[j] <= unsettled[j] + 1 /\ unsettled'[j] \in 0 .. Many
    BY <1>1, <1>4, OneMoreIs
  <2>4. CASE jobRow[j].status = "RUNNING"
    <3>1. \/ jobRow'[j].failures = jobRow[j].failures + 1
          \/ jobRow'[j].failures = Many
      BY <1>3, <2>2, <2>4, OneMoreIs DEF Many
    <3> QED BY <1>1, <1>2, <1>3, <2>2, <2>3, <2>4, <3>1 DEF Many
  <2>5. CASE jobRow[j].status # "RUNNING"
    BY <1>1, <1>2, <1>3, <2>2, <2>3, <2>5 DEF Many
  <2> QED BY <2>4, <2>5
<1>5. ASSUME NEW c \in Calls, IsItsRow(c, j),
             jobRow'[j] = FinishedRow(jobRow[j], Succeeds(c, j)),
             unsettled'[j] = IF Succeeds(c, j) THEN 0 ELSE unsettled[j]
      PROVE  /\ jobRow'[j].status = "RUNNING" => unsettled'[j] <= jobRow'[j].failures + 1
             /\ jobRow'[j].status = "FAILED" => unsettled'[j] <= jobRow'[j].failures
             /\ jobRow'[j].status \in {"NONE", "SUCCEEDED"} => unsettled'[j] = 0
  <2>1. Succeeds(c, j) \in BOOLEAN
    BY DEF Succeeds, RunIs
  <2>2. /\ jobRow'[j].status = IF Succeeds(c, j) THEN "SUCCEEDED" ELSE "FAILED"
        /\ ~Succeeds(c, j) => jobRow'[j].failures = OneMore(jobRow[j].failures)
    BY <1>1, <1>5, <2>1, FinishedRowIs
  <2>3. jobRow[j].status = "RUNNING"
    BY <1>5 DEF IsItsRow
  <2>4. CASE Succeeds(c, j)
    BY <1>5, <2>2, <2>4
  <2>5. CASE ~Succeeds(c, j)
    <3>1. \/ jobRow'[j].failures = jobRow[j].failures + 1
          \/ jobRow'[j].failures = Many
      BY <1>3, <2>2, <2>5, OneMoreIs DEF Many
    <3> QED BY <1>1, <1>2, <1>3, <1>5, <2>2, <2>3, <2>5, <3>1 DEF Many
  <2> QED BY <2>4, <2>5
<1>6. CASE jobRow'[j] = jobRow[j] /\ unsettled'[j] = unsettled[j]
  BY <1>2, <1>6
<1>7. CASE /\ jobRow'[j].status = jobRow[j].status /\ jobRow'[j].failures = jobRow[j].failures
           /\ unsettled'[j] = unsettled[j]
  BY <1>2, <1>7
<1> QED BY <1>4, <1>5, <1>6, <1>7 DEF RowMoves

(* Every step keeps the types, and does one of these to each row.           *)
LEMMA JobsMove ==
    ASSUME JobsInv, JobsNext
    PROVE  /\ \A j \in Jobs : RowMoves(j)
           /\ jobRow' \in [Jobs -> JobRowType] /\ unsettled' \in [Jobs -> 0 .. Many]
           /\ jobRun' \in [Calls -> [Jobs -> RunStates]]
           /\ jobFaults' \in 0 .. MaxJobFaults
           /\ \A j \in Jobs : jobRow'[j].status \notin {"NONE", "RUNNING"} => jobRow'[j].age = 0
<1>1. /\ jobRow \in [Jobs -> JobRowType] /\ unsettled \in [Jobs -> 0 .. Many]
      /\ jobRun \in [Calls -> [Jobs -> RunStates]] /\ jobFaults \in 0 .. MaxJobFaults
      /\ \A j \in Jobs : jobRow[j].status \notin {"NONE", "RUNNING"} => jobRow[j].age = 0
  BY DEF JobsInv, JobsTypeOK, JobRowType
<1>2. MaxJobFaults \in Nat
  BY JobsAssumption DEF JobsAssumption
<1>3. JobFault => jobFaults' \in 0 .. MaxJobFaults
  BY <1>1, <1>2 DEF JobFault
<1>4. \A c \in Calls, j \in Jobs, state \in RunStates :
        RunTurns(c, j, state) => jobRun' \in [Calls -> [Jobs -> RunStates]]
  BY <1>1 DEF RunTurns
<1>5. \A c \in Calls, f \in [Jobs -> RunStates] :
        jobRun' = [jobRun EXCEPT ![c] = f] => jobRun' \in [Calls -> [Jobs -> RunStates]]
  BY <1>1
<1>6. UNCHANGED <<jobRow, unsettled>> =>
        /\ \A j \in Jobs : RowMoves(j)
        /\ jobRow' \in [Jobs -> JobRowType] /\ unsettled' \in [Jobs -> 0 .. Many]
        /\ \A j \in Jobs : jobRow'[j].status \notin {"NONE", "RUNNING"} => jobRow'[j].age = 0
  BY <1>1 DEF RowMoves
<1>7. ASSUME NEW c \in Calls, NEW route \in Routes, CallRoute(c, route)
      PROVE  UNCHANGED <<jobRow, unsettled, jobFaults>> /\ jobRun' \in [Calls -> [Jobs -> RunStates]]
  BY <1>5, <1>7 DEF CallRoute, RunStates
<1>8. ASSUME NEW c \in Calls, CallAnswers(c) \/ CallStops(c)
      PROVE  /\ UNCHANGED <<jobRow, unsettled>> /\ jobRun' \in [Calls -> [Jobs -> RunStates]]
             /\ jobFaults' \in 0 .. MaxJobFaults
  <2>1. jobRun' = [jobRun EXCEPT ![c] = [j \in Jobs |-> "none"]]
    BY <1>8 DEF CallAnswers, CallStops
  <2>2. jobRun' \in [Calls -> [Jobs -> RunStates]]
    BY <1>5, <2>1 DEF RunStates
  <2>3. jobFaults' \in 0 .. MaxJobFaults
    BY <1>1, <1>3, <1>8 DEF CallAnswers, CallStops
  <2> QED BY <1>8, <2>2, <2>3 DEF CallAnswers, CallStops
<1>9. ASSUME NEW c \in Calls, NEW j \in Jobs, IsItsRow(c, j), Finishes(c, j)
      PROVE  /\ \A k \in Jobs : RowMoves(k)
             /\ jobRow' \in [Jobs -> JobRowType] /\ unsettled' \in [Jobs -> 0 .. Many]
             /\ \A k \in Jobs : jobRow'[k].status \notin {"NONE", "RUNNING"} => jobRow'[k].age = 0
  <2>1. Succeeds(c, j) \in BOOLEAN
    BY DEF Succeeds, RunIs
  <2>2. /\ jobRow' = [jobRow EXCEPT ![j] = FinishedRow(jobRow[j], Succeeds(c, j))]
        /\ unsettled' = [unsettled EXCEPT ![j] = IF Succeeds(c, j) THEN 0 ELSE unsettled[j]]
    BY <1>9 DEF Finishes
  <2>3. FinishedRow(jobRow[j], Succeeds(c, j)) \in JobRowType /\ FinishedRow(jobRow[j], Succeeds(c, j)).age = 0
    BY <1>1, <2>1, FinishedRowIs
  <2>4. jobRow' \in [Jobs -> JobRowType]
    BY <1>1, <2>2, <2>3
  <2>5. unsettled' \in [Jobs -> 0 .. Many]
    BY <1>1, <2>2 DEF Many
  <2>6. \A k \in Jobs : jobRow'[k].status \notin {"NONE", "RUNNING"} => jobRow'[k].age = 0
    BY <1>1, <2>2, <2>3
  <2>7. \A k \in Jobs : RowMoves(k)
    BY <1>1, <1>9, <2>2 DEF RowMoves
  <2> QED BY <2>4, <2>5, <2>6, <2>7
<1>10. ASSUME NEW c \in Calls, NEW j \in Jobs, TryStart(c, j)
       PROVE  /\ \A k \in Jobs : RowMoves(k)
              /\ jobRow' \in [Jobs -> JobRowType] /\ unsettled' \in [Jobs -> 0 .. Many]
              /\ \A k \in Jobs : jobRow'[k].status \notin {"NONE", "RUNNING"} => jobRow'[k].age = 0
              /\ jobRun' \in [Calls -> [Jobs -> RunStates]] /\ jobFaults' = jobFaults
  <2>1. jobRun' \in [Calls -> [Jobs -> RunStates]]
    BY <1>4, <1>10 DEF TryStart, RunStates
  <2>2. CASE StillRunning(jobRow[j])
    BY <1>6, <1>10, <2>1, <2>2 DEF TryStart
  <2>3. CASE ~StillRunning(jobRow[j])
    <3>1. /\ jobRow' = [jobRow EXCEPT ![j] = StartedRow(jobRow[j], c)]
          /\ unsettled' = [unsettled EXCEPT ![j] = OneMore(unsettled[j])]
      BY <1>10, <2>3 DEF TryStart
    <3>2. StartedRow(jobRow[j], c) \in JobRowType /\ StartedRow(jobRow[j], c).status = "RUNNING"
      BY <1>1, StartedRowIs
    <3>3. OneMore(unsettled[j]) \in 0 .. Many
      BY <1>1, OneMoreIs
    <3>4. \A k \in Jobs : RowMoves(k)
      BY <1>1, <3>1 DEF RowMoves
    <3>5. \A k \in Jobs : jobRow'[k].status \notin {"NONE", "RUNNING"} => jobRow'[k].age = 0
      BY <1>1, <3>1, <3>2
    <3> QED BY <1>1, <1>10, <2>1, <3>1, <3>2, <3>3, <3>4, <3>5 DEF TryStart
  <2> QED BY <2>2, <2>3
<1>11. ASSUME NEW c \in Calls, NEW j \in Jobs, Work(c, j)
       PROVE  UNCHANGED <<jobRow, unsettled, jobFaults>> /\ jobRun' \in [Calls -> [Jobs -> RunStates]]
  BY <1>4, <1>11 DEF Work, RunStates
<1>12. ASSUME NEW c \in Calls, NEW j \in Jobs, FinishRun(c, j) \/ FinishAfterError(c, j) \/ FinishThrows(c, j)
       PROVE  /\ UNCHANGED <<jobRow, unsettled>> \/ (IsItsRow(c, j) /\ Finishes(c, j))
              /\ jobRun' \in [Calls -> [Jobs -> RunStates]]
              /\ jobFaults' \in 0 .. MaxJobFaults
  <2>1. CASE FinishRun(c, j)
    <3>1. jobRun' \in [Calls -> [Jobs -> RunStates]]
      BY <1>4, <2>1 DEF FinishRun, RunStates
    <3> QED BY <1>1, <2>1, <3>1 DEF FinishRun
  <2>2. CASE FinishAfterError(c, j)
    <3>1. jobRun' \in [Calls -> [Jobs -> RunStates]]
      BY <1>4, <2>2 DEF FinishAfterError, RunStates
    <3> QED BY <1>1, <2>2, <3>1 DEF FinishAfterError
  <2>3. CASE FinishThrows(c, j)
    <3>1. jobRun' \in [Calls -> [Jobs -> RunStates]]
      BY <1>4, <2>3 DEF FinishThrows, RunStates
    <3> QED BY <1>3, <2>3, <3>1 DEF FinishThrows
  <2> QED BY <1>12, <2>1, <2>2, <2>3
<1>13. ASSUME NEW j \in Jobs, TimePasses(j) \/ ThreeIntervalsPass(j)
       PROVE  /\ \A k \in Jobs : RowMoves(k)
              /\ jobRow' \in [Jobs -> JobRowType] /\ UNCHANGED <<jobRun, unsettled, jobFaults>>
              /\ \A k \in Jobs : jobRow'[k].status \notin {"NONE", "RUNNING"} => jobRow'[k].age = 0
  <2>1. UNCHANGED <<jobRun, unsettled, jobFaults>>
    BY <1>13 DEF TimePasses, ThreeIntervalsPass
  <2>2. /\ \A k \in Jobs \ {j} : jobRow'[k] = jobRow[k]
        /\ jobRow'[j] \in JobRowType /\ jobRow'[j].status = jobRow[j].status
        /\ jobRow'[j].failures = jobRow[j].failures
        /\ jobRow[j].status # "RUNNING" => jobRow'[j].age = jobRow[j].age
        /\ jobRow' \in [Jobs -> JobRowType]
    <3>1. CASE TimePasses(j)
      <4> DEFINE age == IF jobRow[j].status = "RUNNING" /\ jobRow[j].age < 2 THEN jobRow[j].age + 1 ELSE jobRow[j].age
      <4>1. jobRow[j] \in JobRowType /\ age \in 0 .. 2
        BY <1>1 DEF JobRowType
      <4>2. jobRow' = [jobRow EXCEPT ![j] = [jobRow[j] EXCEPT !.age = age]]
        BY <1>1, <3>1 DEF TimePasses
      <4>3. jobRow[j].status # "RUNNING" => age = jobRow[j].age
        OBVIOUS
      <4> HIDE DEF age
      <4> QED BY <1>1, <4>1, <4>2, <4>3 DEF JobRowType
    <3>2. CASE ThreeIntervalsPass(j)
      <4>1. jobRow[j] \in JobRowType /\ jobRow[j].everGood \in BOOLEAN
        BY <1>1 DEF JobRowType
      <4>2. jobRow' = [jobRow EXCEPT ![j] = [jobRow[j] EXCEPT !.silent = jobRow[j].everGood]]
        BY <1>1, <3>2 DEF ThreeIntervalsPass
      <4> QED BY <1>1, <4>1, <4>2 DEF JobRowType
    <3> QED BY <1>13, <3>1, <3>2
  <2>3. \A k \in Jobs : RowMoves(k)
    BY <2>1, <2>2 DEF RowMoves
  <2>4. \A k \in Jobs : jobRow'[k].status \notin {"NONE", "RUNNING"} => jobRow'[k].age = 0
    BY <1>1, <2>2
  <2> QED BY <2>1, <2>2, <2>3, <2>4
<1> QED BY <1>1, <1>6, <1>7, <1>8, <1>9, <1>10, <1>11, <1>12, <1>13 DEF JobsNext, RunStep

(* Every step keeps the invariant.                                          *)
LEMMA JobsStep == JobsInv /\ [JobsNext]_jobVars => JobsInv'
<1>1. ASSUME JobsInv, JobsNext PROVE JobsInv'
  <2>1. CountsInv'
    BY <1>1, JobsMove, RowMovesKeepCounts
  <2>2. JobsTypeOK'
    BY <1>1, JobsMove DEF JobsTypeOK, JobRowType
  <2> QED BY <2>1, <2>2 DEF JobsInv
<1>2. ASSUME JobsInv, UNCHANGED jobVars PROVE JobsInv'
  BY <1>2 DEF jobVars, JobsInv, JobsTypeOK, CountsInv
<1> QED BY <1>1, <1>2

(* The invariant holds in every state, whatever the calls, the jobs, the    *)
(* routes and the faults.                                                   *)
THEOREM JobsAreSound == JobsSpec => []JobsInv
<1> QED BY JobsStart, JobsStep, PTL DEF JobsSpec

(* The invariant gives what readiness says of a job that went wrong.        *)
LEMMA TroubleIsCounted == JobsInv => TroubleShows
<1> SUFFICES ASSUME JobsInv, NEW j \in Jobs, jobRow[j].status # "RUNNING"
             PROVE  /\ unsettled[j] >= 2 => Readiness(jobRow[j]) = "unready"
                    /\ unsettled[j] >= 1 => Readiness(jobRow[j]) # "ok"
  BY DEF TroubleShows
<1>1. /\ jobRow[j].status \in {"NONE", "RUNNING", "SUCCEEDED", "FAILED"}
      /\ jobRow[j].failures \in 0 .. Many /\ unsettled[j] \in 0 .. Many
  BY DEF JobsInv, JobsTypeOK
<1>2. /\ jobRow[j].status = "FAILED" => unsettled[j] <= jobRow[j].failures
      /\ jobRow[j].status \in {"NONE", "SUCCEEDED"} => unsettled[j] = 0
  BY DEF JobsInv, CountsInv
<1>3. CASE jobRow[j].status = "FAILED"
  <2>1. unsettled[j] >= 2 => jobRow[j].failures >= 2
    BY <1>1, <1>2, <1>3 DEF Many
  <2> QED BY <1>3, <2>1 DEF Readiness
<1>4. CASE jobRow[j].status \in {"NONE", "SUCCEEDED"}
  BY <1>2, <1>4
<1> QED BY <1>1, <1>3, <1>4

(* A success is recorded by the run that the row names, and that did its    *)
(* work.                                                                    *)
LEMMA SuccessOfARun ==
    ASSUME JobsInv, JobsNext, NEW j \in Jobs,
           jobRow'[j].status = "SUCCEEDED", jobRow[j].status # "SUCCEEDED"
    PROVE  jobRow[j].run \in Calls /\ RunIs(jobRow[j].run, j, "ok")
<1>1. RowMoves(j) /\ jobRow[j] \in JobRowType
  BY JobsMove DEF JobsInv, JobsTypeOK, JobRowType
<1>2. ~\E c \in Calls : jobRow'[j] = StartedRow(jobRow[j], c)
  BY <1>1, StartedRowIs
<1>3. PICK c \in Calls : IsItsRow(c, j) /\ jobRow'[j] = FinishedRow(jobRow[j], Succeeds(c, j))
  BY <1>1, <1>2 DEF RowMoves
<1>4. Succeeds(c, j) \in BOOLEAN
  BY DEF Succeeds, RunIs
<1>5. Succeeds(c, j)
  BY <1>1, <1>3, <1>4, FinishedRowIs
<1> QED BY <1>3, <1>5 DEF IsItsRow, Succeeds

(* A job that went wrong is not reported as ok, twice in a row as           *)
(* unready, and only the run that the row names records a success           *)
(* (operational-jobs.ts with the readiness of the jobs).                    *)
THEOREM JobRowsSpeak == JobsSpec => RowsSpeakForTheirRuns
<1>1. JobsInv => JobsTypeOK /\ TroubleShows
  BY TroubleIsCounted DEF JobsInv
<1>2. JobsInv /\ [JobsNext]_jobVars =>
        [\A j \in Jobs : jobRow'[j].status = "SUCCEEDED" /\ jobRow[j].status # "SUCCEEDED" =>
          jobRow[j].run \in Calls /\ RunIs(jobRow[j].run, j, "ok")]_jobVars
  BY SuccessOfARun
<1>3. JobsSpec => SuccessIsTheRuns
  BY JobsAreSound, <1>2, PTL DEF JobsSpec, SuccessIsTheRuns
<1> QED BY <1>1, <1>3, JobsAreSound, PTL DEF RowsSpeakForTheirRuns

-----------------------------------------------------------------------------
(* The list of a closed period.                                             *)

(* The row of the notice.                                                   *)
NoticeRows == [status : NoticeStatus, claim : Senders \cup {0}, old : BOOLEAN, due : BOOLEAN]
(* Where a sender is.                                                       *)
SenderStates == [phase : {"idle", "looked", "checking", "claiming", "posting", "saving"},
                 kind : {"cron", "manual", "retry"},
                 saw : {"NONE", "open", "closed", "over", "past", "missing", "missed"},
                 outcome : FinalStatus]

(* Who is about to post the list.                                           *)
SendersPosting == {s \in Senders : Doing(s, "posting")}

(* Lists in the channel, and those that may still come.                     *)
Lists == posted + Cardinality(SendersPosting)

(* What a list is owed to: the first one to the period, each further one to
   an administrator's retry or to a post that was recorded as failed.       *)
ListsAreAccounted ==
    /\ IsFiniteSet(SendersPosting) /\ doubts \in Nat
    /\ Lists <= 1 + retried + doubts
    /\ notice.status \in {"NONE", "PENDING", "FAILED"} => Lists <= retried + doubts
    /\ \A s \in Senders : Doing(s, "saving") /\ sender[s].outcome = "FAILED" /\ MaySaveDelivery(s) =>
          Lists <= retried + doubts

(* A sender that saw a row still has one.                                   *)
RowsWereSeen == \A s \in Senders : sender[s].saw \in {"closed", "over"} => notice.status # "NONE"

(* The inductive invariant of the notice.                                   *)
NoticeInv == NoticeTypeOK /\ ListsAreAccounted /\ RowsWereSeen

(* The invariant holds in the initial states.                               *)
LEMMA NoticeStarts == NoticeInit => NoticeInv
<1> SUFFICES ASSUME NoticeInit PROVE NoticeInv
  OBVIOUS
<1>1. \A s \in Senders : sender[s].phase = "idle"
  BY DEF NoticeInit, NotSending
<1>2. SendersPosting = {}
  BY <1>1 DEF SendersPosting, Doing
<1>3. IsFiniteSet(SendersPosting) /\ Cardinality(SendersPosting) = 0
  BY <1>2, FS_EmptySet
<1>4. NoticeTypeOK
  <2>1. 0 \in 0 .. MaxRetries /\ 0 \in 0 .. MaxNoticeFaults
    BY NoticeAssumption
  <2> QED BY <2>1 DEF NoticeTypeOK, NoticeInit, NoNotice, NotSending, NoticeStatus, FinalStatus
<1>5. RowsWereSeen
  BY DEF RowsWereSeen, NoticeInit, NotSending
<1> QED BY <1>1, <1>3, <1>4, <1>5 DEF NoticeInv, ListsAreAccounted, Lists, Doing, NoticeInit

(* A row with a new status, claim or due time is a row.                     *)
LEMMA RowsWritten ==
    ASSUME NEW status \in NoticeStatus, NEW s \in Senders \cup {0}, NEW due \in BOOLEAN
    PROVE  /\ Written(status, s, due) \in NoticeRows
           /\ Written(status, s, due).status = status /\ Written(status, s, due).claim = s
BY DEF Written, NoticeRows

(* The row when a claim is decided, materialised or reviewed.               *)
LEMMA CronRowIs ==
    ASSUME NEW row \in NoticeRows, NEW saw, row = Reviewed(Materialized(saw)), notice \in NoticeRows,
           saw \in {"missing", "missed"} => notice.status = "NONE",
           notice.status = "SENDING" => notice.claim # 0
    PROVE  /\ row.status \in {notice.status, "UNKNOWN"} \/ (notice.status = "NONE" /\ row.status \in {"PENDING", "PENDING_REVIEW"})
           /\ row.status = "SENDING" => row = notice
           /\ notice.status \in {"SENT", "ABANDONED"} => row.status = notice.status
BY DEF Reviewed, Materialized, StaleSending, Written, NoticeRows

(* Every step keeps the types of the row;                                   *)
LEMMA NoticeRowSteps ==
    ASSUME NoticeTypeOK, NoticeNext
    PROVE  notice' \in NoticeRows /\ (notice'.status = "SENDING" => notice'.claim # 0)
<1>1. notice \in NoticeRows /\ (notice.status = "SENDING" => notice.claim # 0) /\ 0 \notin Senders
  BY NoticeAssumption DEF NoticeTypeOK, NoticeRows
<1>2. ASSUME NEW s \in Senders, CronWrites(s)
      PROVE  notice' \in NoticeRows /\ (notice'.status = "SENDING" => notice'.claim # 0)
  <2>1. Materialized(sender[s].saw) \in NoticeRows
    BY <1>1 DEF Materialized, Written, NoticeRows, NoticeStatus
  <2>2. Reviewed(Materialized(sender[s].saw)) \in NoticeRows
    BY <2>1 DEF Reviewed, Written, NoticeRows, NoticeStatus, FinalStatus
  <2> QED BY <1>1, <1>2, <2>2 DEF CronWrites, Reviewed, Materialized, Written
<1>3. ASSUME NEW s \in Senders, ClaimDelivery(s)
      PROVE  notice' \in NoticeRows /\ (notice'.status = "SENDING" => notice'.claim # 0)
  <2>1. notice' = notice \/ notice' = Written("SENDING", s, TRUE)
    BY <1>3 DEF ClaimDelivery
  <2>2. "SENDING" \in NoticeStatus /\ s # 0
    BY <1>1 DEF NoticeStatus
  <2>3. LET row == Written("SENDING", s, TRUE) IN row \in NoticeRows /\ row.claim # 0
    BY <2>2 DEF Written, NoticeRows
  <2> QED BY <1>1, <2>1, <2>3
<1>4. ASSUME NEW s \in Senders, notice' \in {notice, Saved(s)}
      PROVE  notice' \in NoticeRows /\ (notice'.status = "SENDING" => notice'.claim # 0)
  <2>1. notice' = notice \/ \E status \in FinalStatus, due \in BOOLEAN : notice' = Written(status, 0, due)
    <3>1. sender[s].outcome \in FinalStatus
      BY DEF NoticeTypeOK
    <3> QED BY <1>4, <3>1 DEF Saved
  <2>2. FinalStatus \subseteq NoticeStatus \ {"SENDING"}
    BY DEF FinalStatus, NoticeStatus
  <2> QED BY <1>1, <2>1, <2>2, RowsWritten
<1>5. CASE ResolveDelivery
  <2>1. \E status \in {"SENT", "ABANDONED"} : notice' = Written(status, 0, TRUE)
    BY <1>5 DEF ResolveDelivery
  <2>2. {"SENT", "ABANDONED"} \subseteq NoticeStatus \ {"SENDING"}
    BY DEF FinalStatus, NoticeStatus
  <2>3. PICK status \in {"SENT", "ABANDONED"} : notice' = Written(status, 0, TRUE)
    BY <2>1
  <2> QED BY <2>2, <2>3 DEF Written, NoticeRows
<1>6. CASE RetryComesDue \/ TenMinutesPass
  BY <1>1, <1>6 DEF RetryComesDue, TenMinutesPass, NoticeRows
<1> QED BY <1>1, <1>2, <1>3, <1>4, <1>5, <1>6
     DEF NoticeNext, SenderStep, WindowMoves, SwitchNotices, CronLooks, ManualSend, RetryDelivery, SendChecks,
         PostList, SaveDelivery, SaveThrows, SenderStops

(* of the senders;                                                          *)
LEMMA SenderSteps ==
    ASSUME NoticeTypeOK, NoticeNext
    PROVE  sender' \in [Senders -> SenderStates]
<1>1. sender \in [Senders -> SenderStates] /\ NotSending \in SenderStates
  BY DEF NoticeTypeOK, SenderStates, NotSending, FinalStatus
<1>2. ASSUME NEW s \in Senders, NEW t \in SenderStates, sender' = [sender EXCEPT ![s] = t]
      PROVE  sender' \in [Senders -> SenderStates]
  BY <1>1, <1>2
<1>3. ASSUME NEW s \in Senders, SendEnds(s)
      PROVE  sender' \in [Senders -> SenderStates]
  BY <1>1, <1>3 DEF SendEnds
<1>4. ASSUME NEW s \in Senders, NEW phase \in {"idle", "looked", "checking", "claiming", "posting", "saving"}, Sends(s, phase)
      PROVE  sender' \in [Senders -> SenderStates]
  BY <1>1, <1>4 DEF Sends, SenderStates
<1>5. ASSUME NEW s \in Senders, NEW outcome \in FinalStatus, PostEnds(s, outcome)
      PROVE  sender' \in [Senders -> SenderStates]
  <2>1. sender[s] \in SenderStates
    BY <1>1
  <2>2. [sender[s] EXCEPT !.phase = "saving", !.outcome = outcome] \in SenderStates
    BY <2>1 DEF SenderStates
  <2>3. sender' = [sender EXCEPT ![s] = [sender[s] EXCEPT !.phase = "saving", !.outcome = outcome]]
    BY <1>1, <1>5 DEF PostEnds
  <2> QED BY <1>2, <2>2, <2>3
<1>6. ASSUME NEW s \in Senders, CronLooks(s) \/ ManualSend(s) \/ RetryDelivery(s)
      PROVE  sender' \in [Senders -> SenderStates]
  <2>1. LookedFor \in {"NONE", "open", "closed", "over", "past", "missing", "missed"}
    BY DEF LookedFor, NoticeTypeOK
  <2>2. [NotSending EXCEPT !.phase = "looked", !.saw = LookedFor] \in SenderStates
    BY <2>1 DEF NotSending, SenderStates, FinalStatus
  <2>3. [NotSending EXCEPT !.phase = "checking", !.kind = "manual"] \in SenderStates
    BY DEF NotSending, SenderStates, FinalStatus
  <2>4. [NotSending EXCEPT !.phase = "claiming", !.kind = "retry"] \in SenderStates
    BY DEF NotSending, SenderStates, FinalStatus
  <2> QED BY <1>6, <1>2, <2>2, <2>3, <2>4 DEF CronLooks, ManualSend, RetryDelivery
<1>7. ASSUME NEW s \in Senders, SenderStep(s) \/ SaveThrows(s) \/ SenderStops(s)
      PROVE  sender' \in [Senders -> SenderStates]
  <2>1. CASE \E outcome \in FinalStatus : PostEnds(s, outcome)
    BY <1>5, <2>1
  <2>2. CASE SendEnds(s) \/ \E phase \in {"checking", "claiming", "posting"} : Sends(s, phase)
    BY <1>3, <1>4, <2>2
  <2> QED BY <1>7, <2>1, <2>2 DEF SenderStep, CronWrites, SendChecks, ClaimDelivery, PostList, SaveDelivery,
             SaveThrows, SenderStops, FinalStatus
<1>8. CASE UNCHANGED sender
  BY <1>1, <1>8
<1> QED BY <1>6, <1>7, <1>8 DEF NoticeNext, WindowMoves, SwitchNotices, ResolveDelivery, RetryComesDue, TenMinutesPass

(* and of all variables.                                                    *)
LEMMA NoticeTypeSteps == NoticeTypeOK /\ doubts \in Nat /\ NoticeNext => NoticeTypeOK' /\ doubts' \in Nat
<1> SUFFICES ASSUME NoticeTypeOK, doubts \in Nat, NoticeNext PROVE NoticeTypeOK' /\ doubts' \in Nat
  OBVIOUS
<1>1. retried \in Nat /\ noticeFaults \in Nat /\ doubts <= noticeFaults /\ posted \in Nat
      /\ MaxRetries \in Nat /\ MaxNoticeFaults \in Nat /\ retried <= MaxRetries /\ noticeFaults <= MaxNoticeFaults
  BY NoticeAssumption DEF NoticeTypeOK
<1>2. /\ retried' \in {retried} \/ (retried < MaxRetries /\ retried' = retried + 1)
      /\ \/ noticeFaults' = noticeFaults /\ doubts' = doubts
         \/ noticeFaults < MaxNoticeFaults /\ noticeFaults' = noticeFaults + 1 /\ doubts' \in {doubts, doubts + 1}
      /\ posted' \in {posted, posted + 1}
      /\ window' \in {"open", "closed", "over", "past"} /\ noticesOn' \in BOOLEAN
  <2>1. ASSUME NEW s \in Senders, ClaimDelivery(s)
        PROVE  retried' \in {retried} \/ (retried < MaxRetries /\ retried' = retried + 1)
    BY <2>1 DEF ClaimDelivery
  <2>2. ASSUME NEW s \in Senders, PostList(s)
        PROVE  /\ \/ noticeFaults' = noticeFaults /\ doubts' = doubts
                  \/ noticeFaults < MaxNoticeFaults /\ noticeFaults' = noticeFaults + 1 /\ doubts' \in {doubts, doubts + 1}
               /\ posted' \in {posted, posted + 1}
    BY <2>2 DEF PostList, NoticeFault
  <2>3. ASSUME NEW s \in Senders, SaveThrows(s)
        PROVE  noticeFaults < MaxNoticeFaults /\ noticeFaults' = noticeFaults + 1 /\ doubts' \in {doubts, doubts + 1}
    BY <2>3 DEF SaveThrows, NoticeFault
  <2>4. window \in {"open", "closed", "over", "past"} /\ noticesOn \in BOOLEAN
    BY DEF NoticeTypeOK
  <2> QED BY <2>1, <2>2, <2>3, <2>4
       DEF NoticeNext, SenderStep, WindowMoves, SwitchNotices, CronLooks, ManualSend, RetryDelivery, SendChecks,
         SaveDelivery, SenderStops, ResolveDelivery, RetryComesDue, TenMinutesPass, CronWrites, ClaimDelivery,
         PostList, SaveThrows, NoticeFault
<1>3. /\ retried' \in 0 .. MaxRetries /\ noticeFaults' \in 0 .. MaxNoticeFaults /\ doubts' <= noticeFaults'
      /\ posted' \in Nat /\ doubts' \in Nat
  BY <1>1, <1>2
<1>4. notice' \in NoticeRows /\ (notice'.status = "SENDING" => notice'.claim # 0)
  BY NoticeRowSteps
<1>5. sender' \in [Senders -> SenderStates]
  BY SenderSteps
<1> QED BY <1>2, <1>3, <1>4, <1>5 DEF NoticeTypeOK, NoticeRows, SenderStates

(* A step of a sender leaves the others where they are.                     *)
LEMMA PostingMoves ==
    ASSUME NoticeTypeOK, IsFiniteSet(SendersPosting), NEW s \in Senders,
           \A t \in Senders \ {s} : sender'[t] = sender[t]
    PROVE  /\ IsFiniteSet(SendersPosting') /\ Cardinality(SendersPosting) \in Nat /\ Cardinality(SendersPosting') \in Nat
           /\ ~Doing(s, "posting") /\ ~Doing(s, "posting")' => Cardinality(SendersPosting') = Cardinality(SendersPosting)
           /\ Doing(s, "posting") /\ ~Doing(s, "posting")' => Cardinality(SendersPosting') = Cardinality(SendersPosting) - 1
           /\ ~Doing(s, "posting") /\ Doing(s, "posting")' => Cardinality(SendersPosting') = Cardinality(SendersPosting) + 1
<1>1. ~Doing(s, "posting") /\ ~Doing(s, "posting")' => SendersPosting' = SendersPosting
  BY DEF SendersPosting, Doing
<1>2. Doing(s, "posting") /\ ~Doing(s, "posting")' => SendersPosting' = SendersPosting \ {s} /\ s \in SendersPosting
  BY DEF SendersPosting, Doing
<1>3. ~Doing(s, "posting") /\ Doing(s, "posting")' => SendersPosting' = SendersPosting \cup {s} /\ s \notin SendersPosting
  BY DEF SendersPosting, Doing
<1>5. Cardinality(SendersPosting) \in Nat
  BY FS_CardinalityType
<1>6. CASE Doing(s, "posting")
  <2>1. IsFiniteSet(SendersPosting \ {s}) /\ (s \in SendersPosting => Cardinality(SendersPosting \ {s}) = Cardinality(SendersPosting) - 1)
    BY FS_RemoveElement
  <2>2. SendersPosting' = SendersPosting \/ (SendersPosting' = SendersPosting \ {s} /\ s \in SendersPosting /\ ~Doing(s, "posting")')
    BY <1>2, <1>6 DEF SendersPosting, Doing
  <2>3. Cardinality(SendersPosting \ {s}) \in Nat
    BY <2>1, FS_CardinalityType
  <2> QED BY <1>2, <1>5, <1>6, <2>1, <2>2, <2>3
<1>7. CASE ~Doing(s, "posting")
  <2>1. /\ IsFiniteSet(SendersPosting \cup {s})
        /\ s \notin SendersPosting => Cardinality(SendersPosting \cup {s}) = Cardinality(SendersPosting) + 1
    BY FS_AddElement
  <2>2. Cardinality(SendersPosting \cup {s}) \in Nat
    BY <2>1, FS_CardinalityType
  <2> QED BY <1>1, <1>3, <1>5, <1>7, <2>1, <2>2
<1> QED BY <1>6, <1>7


(* The counts are numbers.                                                  *)
LEMMA ListCounts ==
    ASSUME NoticeInv
    PROVE  /\ IsFiniteSet(SendersPosting) /\ Cardinality(SendersPosting) \in Nat
           /\ posted \in Nat /\ retried \in Nat /\ doubts \in Nat /\ Lists \in Nat
BY FS_CardinalityType DEF NoticeInv, NoticeTypeOK, ListsAreAccounted, Lists

(* A claim keeps the account of the lists;                                  *)
LEMMA ClaimsAreAccounted == ASSUME NoticeInv, NEW s \in Senders, ClaimDelivery(s) PROVE ListsAreAccounted'
<1>1. NoticeTypeOK /\ ListsAreAccounted
  BY DEF NoticeInv
<1>2. /\ Doing(s, "claiming") /\ UNCHANGED <<posted, doubts>>
      /\ \A t \in Senders \ {s} : sender'[t] = sender[t]
  BY <1>1 DEF ClaimDelivery, Sends, SendEnds, NoticeTypeOK
<1>3. CASE notice.status \in ClaimableStatuses(sender[s].kind)
  <2>1. /\ Doing(s, "posting")' /\ ~Doing(s, "posting") /\ ~Doing(s, "saving")'
        /\ notice'.status = "SENDING" /\ notice'.claim = s
        /\ \/ retried' = retried /\ notice.status \in {"NONE", "PENDING", "FAILED"}
           \/ retried' = retried + 1
    BY <1>1, <1>2, <1>3 DEF ClaimDelivery, Sends, NoticeTypeOK, Doing, Written, ClaimableStatuses
  <2>2. IsFiniteSet(SendersPosting') /\ Lists' = Lists + 1
    BY <1>1, <1>2, <2>1, PostingMoves, ListCounts DEF Lists, ListsAreAccounted
  <2>3. \A t \in Senders : ~(Doing(t, "saving")' /\ notice'.claim = t)
    BY <2>1
  <2> QED BY <1>1, <1>2, <2>1, <2>2, <2>3, ListCounts DEF ListsAreAccounted, MaySaveDelivery
<1>4. CASE notice.status \notin ClaimableStatuses(sender[s].kind)
  <2>1. ~Doing(s, "posting") /\ ~Doing(s, "posting")' /\ ~Doing(s, "saving")' /\ UNCHANGED <<notice, retried>>
    BY <1>1, <1>2, <1>4 DEF ClaimDelivery, SendEnds, NoticeTypeOK, Doing, NotSending
  <2>2. IsFiniteSet(SendersPosting') /\ Lists' = Lists
    BY <1>1, <1>2, <2>1, PostingMoves DEF Lists, ListsAreAccounted
  <2> QED BY <1>1, <1>2, <2>1, <2>2 DEF ListsAreAccounted, MaySaveDelivery, Doing
<1> QED BY <1>3, <1>4

(* so does a post;                                                          *)
LEMMA PostsAreAccounted == ASSUME NoticeInv, NEW s \in Senders, PostList(s) PROVE ListsAreAccounted'
<1>1. NoticeTypeOK /\ ListsAreAccounted
  BY DEF NoticeInv
<1>2. /\ Doing(s, "posting") /\ ~Doing(s, "posting")' /\ UNCHANGED <<notice, retried>>
      /\ \A t \in Senders \ {s} : sender'[t] = sender[t]
      /\ \/ sender'[s].outcome # "FAILED" /\ posted' \in {posted, posted + 1} /\ doubts' = doubts
         \/ posted' = posted /\ doubts' = doubts
         \/ posted' = posted + 1 /\ doubts' = doubts + 1
  BY <1>1 DEF PostList, PostEnds, NoticeTypeOK, Doing
<1>3. IsFiniteSet(SendersPosting') /\ Cardinality(SendersPosting') = Cardinality(SendersPosting) - 1 /\ Cardinality(SendersPosting) \in Nat
  BY <1>1, <1>2, PostingMoves DEF ListsAreAccounted
<1>4. /\ Lists' \in {Lists - 1, Lists}
      /\ doubts' \in {doubts, doubts + 1}
      /\ sender'[s].outcome = "FAILED" => Lists' = Lists - 1 \/ (Lists' = Lists /\ doubts' = doubts + 1)
  BY <1>2, <1>3, ListCounts DEF Lists
<1>5. Lists' <= Lists /\ doubts' >= doubts /\ doubts' \in Nat
  BY <1>4, ListCounts
<1>6. Lists' <= 1 + retried' + doubts'
  BY <1>1, <1>2, <1>4, ListCounts DEF ListsAreAccounted
<1>7. notice'.status \in {"NONE", "PENDING", "FAILED"} => Lists' <= retried' + doubts'
  BY <1>1, <1>2, <1>4, ListCounts DEF ListsAreAccounted
<1>8. sender'[s].outcome = "FAILED" => Lists' <= retried' + doubts'
  BY <1>1, <1>2, <1>4, ListCounts DEF ListsAreAccounted
<1>9. ASSUME NEW t \in Senders \ {s}, Doing(t, "saving"), sender[t].outcome = "FAILED", MaySaveDelivery(t)
      PROVE  Lists' <= retried' + doubts'
  BY <1>1, <1>2, <1>4, <1>9, ListCounts DEF ListsAreAccounted
<1> QED BY <1>2, <1>3, <1>5, <1>6, <1>7, <1>8, <1>9 DEF ListsAreAccounted, Doing, MaySaveDelivery

(* and the record of a post, or its failure.                                *)
LEMMA SavesAreAccounted ==
    ASSUME NoticeInv, NEW s \in Senders, SaveDelivery(s) \/ SaveThrows(s)
    PROVE  ListsAreAccounted'
<1>1. NoticeTypeOK /\ ListsAreAccounted
  BY DEF NoticeInv
<1>2. /\ Doing(s, "saving") /\ ~Doing(s, "posting")' /\ ~Doing(s, "posting") /\ UNCHANGED <<posted, retried>>
      /\ \A t \in Senders \ {s} : sender'[t] = sender[t]
      /\ notice' \in {notice, Saved(s)}
      /\ \/ doubts' = doubts /\ ~Doing(s, "saving")'
         \/ doubts' = doubts + 1
  BY <1>1 DEF SaveDelivery, SaveThrows, SendEnds, PostEnds, NoticeTypeOK, Doing, NotSending
<1>3. IsFiniteSet(SendersPosting') /\ Lists' = Lists /\ doubts' \in Nat
  BY <1>1, <1>2, PostingMoves, ListCounts DEF Lists, ListsAreAccounted
<1>4. notice'.status = "FAILED" =>
         notice.status = "FAILED" \/ (MaySaveDelivery(s) /\ sender[s].outcome = "FAILED")
  BY <1>2 DEF Saved, Written
<1>5. /\ notice'.status \in {"NONE", "PENDING"} => notice' = notice
      /\ notice'.status = "SENDING" => notice' = notice
  BY <1>1, <1>2 DEF Saved, Written, NoticeTypeOK, FinalStatus
<1>6. Lists' <= 1 + retried' + doubts'
  BY <1>1, <1>2, <1>3, ListCounts DEF ListsAreAccounted
<1>7. notice'.status \in {"NONE", "PENDING", "FAILED"} => Lists' <= retried' + doubts'
  <2>1. notice'.status \in {"NONE", "PENDING", "FAILED"} => Lists <= retried + doubts
    BY <1>1, <1>2, <1>4, <1>5 DEF ListsAreAccounted
  <2> QED BY <1>2, <1>3, <2>1, ListCounts
<1>8. ASSUME NEW t \in Senders, Doing(t, "saving")', sender'[t].outcome = "FAILED", MaySaveDelivery(t)'
      PROVE  Lists' <= retried' + doubts'
  <2>1. CASE t = s
    <3>1. doubts' = doubts + 1
      BY <1>2, <1>8, <2>1
    <3> QED BY <1>1, <1>2, <1>3, <3>1, ListCounts DEF ListsAreAccounted
  <2>2. CASE t # s
    <3>1. Doing(t, "saving") /\ sender[t].outcome = "FAILED" /\ MaySaveDelivery(t)
      BY <1>2, <1>5, <1>8, <2>2 DEF Doing, MaySaveDelivery
    <3>2. Lists <= retried + doubts
      BY <1>1, <3>1 DEF ListsAreAccounted
    <3> QED BY <1>2, <1>3, <3>2, ListCounts
  <2> QED BY <2>1, <2>2
<1> QED BY <1>3, <1>6, <1>7, <1>8 DEF ListsAreAccounted

(* Everything else posts nothing and opens no way to another list.          *)
LEMMA OthersAreAccounted ==
    ASSUME NoticeInv, UNCHANGED <<posted, retried, doubts>>,
           \A t \in Senders : sender'[t] = sender[t] \/ sender'[t].phase \notin {"posting", "saving"},
           notice'.status \in {"NONE", "PENDING", "FAILED"} => notice.status \in {"NONE", "PENDING", "FAILED"},
           notice'.status = "SENDING" => notice.status = "SENDING" /\ notice'.claim = notice.claim
    PROVE  ListsAreAccounted'
<1>1. NoticeTypeOK /\ ListsAreAccounted
  BY DEF NoticeInv
<1>2. SendersPosting' \subseteq SendersPosting
  BY DEF SendersPosting, Doing
<1>3. IsFiniteSet(SendersPosting') /\ Cardinality(SendersPosting') <= Cardinality(SendersPosting) /\ Cardinality(SendersPosting') \in Nat
  BY <1>2, ListCounts, FS_Subset, FS_CardinalityType
<1>4. Lists' <= Lists /\ Lists' \in Nat
  BY <1>3, ListCounts DEF Lists
<1>5. Lists' <= 1 + retried' + doubts' /\ doubts' \in Nat
  BY <1>1, <1>4, ListCounts DEF ListsAreAccounted
<1>6. notice'.status \in {"NONE", "PENDING", "FAILED"} => Lists' <= retried' + doubts'
  BY <1>1, <1>4, ListCounts DEF ListsAreAccounted
<1>7. ASSUME NEW t \in Senders, Doing(t, "saving")', sender'[t].outcome = "FAILED", MaySaveDelivery(t)'
      PROVE  Lists' <= retried' + doubts'
  <2>1. Doing(t, "saving") /\ sender[t].outcome = "FAILED" /\ MaySaveDelivery(t)
    BY <1>7 DEF Doing, MaySaveDelivery
  <2> QED BY <1>1, <1>4, <2>1, ListCounts DEF ListsAreAccounted
<1> QED BY <1>3, <1>5, <1>6, <1>7 DEF ListsAreAccounted

(* A row stays, and who looks at one finds it later.                        *)
LEMMA RowsStay ==
    ASSUME NoticeInv, NoticeNext
    PROVE  RowsWereSeen' /\ (notice.status # "NONE" => notice'.status # "NONE")
<1>1. sender \in [Senders -> SenderStates] /\ notice \in NoticeRows /\ RowsWereSeen
  BY DEF NoticeInv, NoticeTypeOK, SenderStates, NoticeRows
<1>2. ASSUME NEW s \in Senders, SenderStep(s) \/ SaveThrows(s)
      PROVE  notice' = notice \/ notice'.status # "NONE"
  <2>1. sender[s].outcome # "NONE"
    BY <1>1 DEF SenderStates, FinalStatus
  <2>2. CASE CronWrites(s)
    <3>1. \A row : Reviewed(row) = row \/ Reviewed(row).status = "UNKNOWN"
      BY DEF Reviewed, Written
    <3>2. \A saw : Materialized(saw) = notice \/ Materialized(saw).status \in {"PENDING", "PENDING_REVIEW"}
      BY DEF Materialized, Written
    <3> QED BY <2>2, <3>1, <3>2 DEF CronWrites
  <2>3. CASE SaveDelivery(s) \/ SaveThrows(s)
    <3>1. Saved(s) = notice \/ Saved(s).status = sender[s].outcome
      BY DEF Saved, Written
    <3>2. notice' = notice \/ notice' = Saved(s)
      BY <2>3 DEF SaveDelivery, SaveThrows
    <3> QED BY <2>1, <3>1, <3>2
  <2>4. CASE ClaimDelivery(s)
    BY <2>4 DEF ClaimDelivery, Written
  <2>5. CASE SendChecks(s) \/ PostList(s)
    BY <2>5 DEF SendChecks, PostList
  <2> QED BY <1>2, <2>2, <2>3, <2>4, <2>5 DEF SenderStep
<1>3. ASSUME ResolveDelivery PROVE notice'.status # "NONE"
  BY <1>3 DEF ResolveDelivery, Written
<1>4. ASSUME RetryComesDue \/ TenMinutesPass PROVE notice'.status = notice.status
  BY <1>1, <1>4 DEF RetryComesDue, TenMinutesPass, NoticeRows
<1>5. notice.status # "NONE" => notice'.status # "NONE"
  BY <1>2, <1>3, <1>4
  DEF NoticeNext, WindowMoves, SwitchNotices, CronLooks, ManualSend, RetryDelivery, SenderStops
<1>6. ASSUME NEW s \in Senders, sender'[s].saw \in {"closed", "over"}
      PROVE  notice'.status # "NONE"
  <2>1. CASE sender'[s].saw = sender[s].saw
    BY <1>1, <1>5, <1>6, <2>1 DEF RowsWereSeen
  <2>2. ASSUME NEW t \in Senders, CronLooks(t), s = t PROVE notice'.status # "NONE"
    <3>1. sender'[s].saw = LookedFor /\ notice' = notice
      BY <1>1, <2>2 DEF CronLooks, NotSending
    <3> QED BY <1>6, <3>1 DEF LookedFor
  <2>3. ASSUME NEW t \in Senders, CronLooks(t), s # t PROVE sender'[s] = sender[s]
    BY <1>1, <2>3 DEF CronLooks
  <2>4. ASSUME NEW t \in Senders, SendEnds(t) PROVE sender'[s].saw \in {sender[s].saw, "NONE"}
    BY <1>1, <2>4 DEF SendEnds, NotSending
  <2>5. ASSUME NEW t \in Senders, NEW phase, Sends(t, phase) PROVE sender'[s].saw = sender[s].saw
    BY <1>1, <2>5 DEF Sends, SenderStates
  <2>6. ASSUME NEW t \in Senders, NEW outcome, PostEnds(t, outcome) PROVE sender'[s].saw = sender[s].saw
    BY <1>1, <2>6 DEF PostEnds, SenderStates
  <2>7. ASSUME NEW t \in Senders, ManualSend(t) \/ RetryDelivery(t)
        PROVE  sender'[s].saw \in {sender[s].saw, "NONE"}
    BY <1>1, <2>7 DEF ManualSend, RetryDelivery, NotSending
  <2>8. ASSUME NEW t \in Senders, SenderStep(t) \/ SaveThrows(t) \/ SenderStops(t)
        PROVE  sender'[s].saw \in {sender[s].saw, "NONE"}
    BY <2>4, <2>5, <2>6, <2>8
    DEF SenderStep, CronWrites, SendChecks, ClaimDelivery, PostList, SaveDelivery, SaveThrows, SenderStops
  <2>9. CASE sender' = sender
    BY <2>1, <2>9
  <2> QED BY <1>6, <2>1, <2>2, <2>3, <2>7, <2>8, <2>9
       DEF NoticeNext, WindowMoves, SwitchNotices, ResolveDelivery, RetryComesDue, TenMinutesPass
<1> QED BY <1>5, <1>6 DEF RowsWereSeen

(* Every step keeps the invariant.                                          *)
LEMMA NoticeSteps == NoticeInv /\ [NoticeNext]_noticeVars => NoticeInv'
<1> SUFFICES ASSUME NoticeInv, [NoticeNext]_noticeVars PROVE NoticeInv'
  OBVIOUS
<1>1. NoticeTypeOK /\ ListsAreAccounted /\ doubts \in Nat
  BY DEF NoticeInv, ListsAreAccounted
<1>2. CASE UNCHANGED noticeVars
  BY <1>2 DEF noticeVars, NoticeInv, NoticeTypeOK, ListsAreAccounted, Lists, SendersPosting, Doing, MaySaveDelivery,
       RowsWereSeen
<1>3. CASE NoticeNext
  <2>1. NoticeTypeOK'
    BY <1>1, <1>3, NoticeTypeSteps
  <2>2. ASSUME NEW s \in Senders, CronWrites(s) PROVE ListsAreAccounted'
    <3>1. notice \in NoticeRows /\ (notice.status = "SENDING" => notice.claim # 0)
      BY <1>1 DEF NoticeTypeOK, NoticeRows
    <3>2. /\ UNCHANGED <<posted, retried, doubts>>
          /\ \A t \in Senders : sender'[t] = sender[t] \/ sender'[t].phase \notin {"posting", "saving"}
      BY <1>1, <2>2 DEF CronWrites, Sends, SendEnds, NotSending, NoticeTypeOK
    <3>3. /\ notice'.status \in {"NONE", "PENDING", "FAILED"} => notice.status \in {"NONE", "PENDING", "FAILED"}
          /\ notice'.status = "SENDING" => notice.status = "SENDING" /\ notice'.claim = notice.claim
      BY <2>2, <3>1 DEF CronWrites, Reviewed, Materialized, StaleSending, Written
    <3> QED BY <3>2, <3>3, OthersAreAccounted
  <2>3. ASSUME NEW s \in Senders, CronLooks(s) \/ ManualSend(s) \/ RetryDelivery(s) \/ SendChecks(s) \/ SenderStops(s)
        PROVE  ListsAreAccounted'
    <3>1. /\ UNCHANGED <<notice, posted, retried, doubts>>
          /\ \A t \in Senders : sender'[t] = sender[t] \/ sender'[t].phase \notin {"posting", "saving"}
      <4>1. sender \in [Senders -> SenderStates] /\ NotSending.phase = "idle"
        BY <1>1 DEF NoticeTypeOK, SenderStates, NotSending
      <4>2. CASE CronLooks(s) \/ ManualSend(s) \/ RetryDelivery(s)
        BY <4>1, <4>2 DEF CronLooks, ManualSend, RetryDelivery, NotSending
      <4>3. CASE SendChecks(s)
        BY <4>1, <4>3 DEF SendChecks, SendEnds, Sends, SenderStates
      <4>4. CASE SenderStops(s)
        BY <4>1, <4>4 DEF SenderStops, SendEnds
      <4> QED BY <2>3, <4>2, <4>3, <4>4
    <3> QED BY <3>1, OthersAreAccounted
  <2>4. ASSUME WindowMoves \/ SwitchNotices \/ ResolveDelivery \/ RetryComesDue \/ TenMinutesPass
        PROVE  ListsAreAccounted'
    <3>1. UNCHANGED <<sender, posted, retried, doubts>>
      BY <2>4 DEF WindowMoves, SwitchNotices, ResolveDelivery, RetryComesDue, TenMinutesPass
    <3>2. /\ notice'.status \in {"NONE", "PENDING", "FAILED"} => notice.status \in {"NONE", "PENDING", "FAILED"}
          /\ notice'.status = "SENDING" => notice.status = "SENDING" /\ notice'.claim = notice.claim
      <4>1. CASE notice' = notice
        BY <4>1
      <4>2. CASE ResolveDelivery
        BY <4>2 DEF ResolveDelivery, Written
      <4>3. CASE RetryComesDue \/ TenMinutesPass
        BY <1>1, <4>3 DEF RetryComesDue, TenMinutesPass, NoticeTypeOK
      <4> QED BY <2>4, <4>1, <4>2, <4>3 DEF WindowMoves, SwitchNotices
    <3>3. UNCHANGED <<posted, retried, doubts>> /\ \A t \in Senders : sender'[t] = sender[t]
      BY <3>1
    <3> QED BY <3>2, <3>3, OthersAreAccounted
  <2>5. ASSUME NEW s \in Senders,
               CronLooks(s) \/ ManualSend(s) \/ RetryDelivery(s) \/ SenderStep(s) \/ SaveThrows(s) \/ SenderStops(s)
        PROVE  ListsAreAccounted'
    BY <2>2, <2>3, <2>5, ClaimsAreAccounted, PostsAreAccounted, SavesAreAccounted DEF SenderStep
  <2>6. ListsAreAccounted'
    BY <1>3, <2>4, <2>5 DEF NoticeNext
  <2> QED BY <1>3, <2>1, <2>6, RowsStay DEF NoticeInv
<1> QED BY <1>2, <1>3

(* The invariant holds in every state, however many the senders and the     *)
(* faults.                                                                  *)
THEOREM NoticesAreSound == NoticeSpec => []NoticeInv
<1> QED BY NoticeStarts, NoticeSteps, PTL DEF NoticeSpec

(* A notice that is sent or abandoned is not taken up again unless an       *)
(* administrator asks.                                                      *)
LEMMA DecidedStays ==
    ASSUME NoticeInv, NoticeNext, notice.status \in {"SENT", "ABANDONED"}
    PROVE  notice'.status = notice.status
<1>1. ASSUME NEW s \in Senders, SenderStep(s) PROVE notice'.status = notice.status
  BY <1>1 DEF NoticeInv, NoticeTypeOK, SenderStep, CronWrites, SendChecks, ClaimDelivery, PostList, SaveDelivery, Reviewed,
     Materialized, StaleSending, ClaimableStatuses, Unresolved, Saved, MaySaveDelivery
<1>2. ASSUME NEW s \in Senders, SaveThrows(s) PROVE notice'.status = notice.status
  BY <1>2 DEF SaveThrows, Saved, MaySaveDelivery
<1>3. CASE ResolveDelivery \/ RetryComesDue \/ TenMinutesPass
  BY <1>3 DEF ResolveDelivery, RetryComesDue, TenMinutesPass, Unresolved, NoticeInv, NoticeTypeOK
<1> QED BY <1>1, <1>2, <1>3 DEF NoticeNext, WindowMoves, SwitchNotices, CronLooks, ManualSend, RetryDelivery, SenderStops

(* The list of a period is sent once, unless an administrator asks again    *)
(* or a sender cannot know what became of its post, a run of cron that looks *)
(* within the week leaves it on record, and what is decided                 *)
(* stays decided (the notification jobs and their repository).              *)
THEOREM ListsAreSentOnce == NoticeSpec => ListIsSentOnce
<1>1. NoticeInv => NoticeTypeOK /\ OneListUnlessAsked
  <2> SUFFICES ASSUME NoticeInv PROVE OneListUnlessAsked
    BY DEF NoticeInv
  <2> QED BY ListCounts DEF NoticeInv, ListsAreAccounted, Lists, OneListUnlessAsked
<1>2. NoticeInv /\ [NoticeNext]_noticeVars =>
        [notice.status \in {"SENT", "ABANDONED"} => notice'.status = notice.status]_noticeVars
  BY DecidedStays
<1>3. NoticeInv /\ [NoticeNext]_noticeVars =>
        [\A s \in Senders :
            CronWrites(s) /\ sender[s].saw \in {"closed", "over", "missing", "missed"}
                => notice'.status # "NONE"]_noticeVars
  <2> SUFFICES ASSUME NoticeInv, NoticeNext, NEW s \in Senders, CronWrites(s),
                      sender[s].saw \in {"closed", "over", "missing", "missed"}
               PROVE  notice'.status # "NONE"
    OBVIOUS
  <2>1. CASE notice.status # "NONE"
    BY <2>1, RowsStay
  <2>2. CASE notice.status = "NONE"
    <3>1. sender[s].saw \in {"missing", "missed"}
      BY <2>2 DEF NoticeInv, RowsWereSeen
    <3> QED BY <2>2, <3>1 DEF CronWrites, Reviewed, Materialized, StaleSending, Written
  <2> QED BY <2>1, <2>2
<1> QED BY <1>1, <1>2, <1>3, NoticesAreSound, PTL DEF NoticeSpec, ListIsSentOnce, DecisionsStand, LooksLeaveARow

-----------------------------------------------------------------------------
(* The harness of the tests on PostgreSQL.                                  *)

(* After the harness has looked, and up to its receipt.                     *)
Settled == {"removing", "checking", "writing", "returned"}

(* A process is spawned once, and known from then on.                       *)
SpawnedOnce ==
    \A p \in Processes :
       /\ p \in known <=> process[p] # "none"
       /\ p \in known => work[p] \in {"running", "done", "failed"}
       /\ work[p] = "running" => p \in known

(* What the receipt will say is true already.                               *)
FindingsHold ==
    /\ \A p \in DOMAIN listed : p \in known /\ (listed[p] => ~Alive(p))
    /\ stage \in Settled /\ ~failed => \A p \in Processes : Alive(p) => p \in late
    /\ stage \in Settled \ {"removing"} /\ ~failed => ~rootThere
    /\ receipt = "cleaned" => stage = "returned" /\ ~failed

(* The inductive invariant of the harness.                                  *)
HarnessInv == HarnessTypeOK /\ SpawnedOnce /\ FindingsHold

(* The invariant holds in the initial states.                               *)
LEMMA HarnessStarts == HarnessInit => HarnessInv
<1> SUFFICES ASSUME HarnessInit PROVE HarnessInv
  OBVIOUS
<1>1. HarnessTypeOK
  <2>1. 0 \in 0 .. MaxHarnessFaults
    BY HarnessAssumption
  <2>2. listed \in UNION {[P -> BOOLEAN] : P \in SUBSET Processes}
    <3>1. {} \in SUBSET Processes /\ listed \in [{} -> BOOLEAN]
      BY DEF HarnessInit
    <3> QED BY <3>1
  <2>3. receipt \in {"none", "older", "cleaned", "failed"}
    BY DEF HarnessInit
  <2> QED BY <2>1, <2>2, <2>3 DEF HarnessInit, HarnessTypeOK, Stages, Processes
<1>2. SpawnedOnce /\ FindingsHold
  BY DEF HarnessInit, SpawnedOnce, FindingsHold, Settled, Alive, Processes
<1> QED BY <1>1, <1>2 DEF HarnessInv

(* The steps of a stage's work.                                             *)
Works(p) ==
    \/ BeginWork(p) \/ Spawn(p) \/ WorkSucceeds(p) \/ ProcessEnds(p) \/ WorkIsKilled(p) \/ KillFails(p)
    \/ StopOne(p) \/ StopFails(p)

(* The work of the processes keeps the types;                               *)
LEMMA WorkTypes == ASSUME HarnessTypeOK, NEW p \in Processes, Works(p) PROVE HarnessTypeOK'
<1>1. work' \in [Processes -> {"idle", "writing", "spawning", "running", "done", "failed"}]
  BY DEF HarnessTypeOK, Works, BeginWork, Spawn, WorkSucceeds, ProcessEnds, WorkIsKilled, KillFails, StopOne, StopFails
<1>2. process' \in [Processes -> {"none", "alive", "dead"}]
  BY DEF HarnessTypeOK, Works, BeginWork, Spawn, WorkSucceeds, ProcessEnds, WorkIsKilled, KillFails, StopOne, StopFails
<1>3. /\ active' \cup aborted' \cup stopping' \cup immortal' \cup late' \subseteq Processes
      /\ stopping' \cup active' \subseteq known' /\ known' \subseteq Processes
  BY DEF HarnessTypeOK, Works, BeginWork, Spawn, WorkSucceeds, ProcessEnds, WorkIsKilled, KillFails, StopOne, StopFails, ghosts
<1>4. faults' \in 0 .. MaxHarnessFaults
  BY HarnessAssumption DEF HarnessTypeOK, Works, BeginWork, Spawn, WorkSucceeds, ProcessEnds, WorkIsKilled, KillFails, StopOne, StopFails, Fault
<1>5. stage' \in Stages /\ listed' = listed /\ rootThere' = rootThere /\ failed' \in BOOLEAN /\ receipt' = receipt
  BY DEF HarnessTypeOK, Stages, Works, BeginWork, Spawn, WorkSucceeds, ProcessEnds, WorkIsKilled, KillFails, StopOne, StopFails
<1> QED BY <1>1, <1>2, <1>3, <1>4, <1>5 DEF HarnessTypeOK

(* spawns each process once;                                                *)
LEMMA WorkIsSpawnedOnce == ASSUME HarnessInv, NEW p \in Processes, Works(p) PROVE SpawnedOnce'
<1>1. HarnessTypeOK /\ SpawnedOnce
  BY DEF HarnessInv
<1>2. \A q \in Processes \ {p} : work'[q] = work[q] /\ process'[q] = process[q] /\ (q \in known' <=> q \in known)
  BY <1>1 DEF HarnessTypeOK, Works, BeginWork, Spawn, WorkSucceeds, ProcessEnds, WorkIsKilled, KillFails, StopOne, StopFails
<1>3. /\ p \in known' <=> process'[p] # "none"
      /\ p \in known' => work'[p] \in {"running", "done", "failed"}
      /\ work'[p] = "running" => p \in known'
  <2>1. CASE BeginWork(p)
    BY <1>1, <2>1 DEF HarnessTypeOK, SpawnedOnce, Alive, BeginWork
  <2>2. CASE Spawn(p)
    <3>1. p \notin known /\ work[p] \in {"writing", "spawning"}
      BY <1>1, <2>2 DEF SpawnedOnce, Spawn
    <3>2. CASE rootThere
      BY <1>1, <2>2, <3>2 DEF HarnessTypeOK, Spawn
    <3>3. CASE ~rootThere
      BY <1>1, <2>2, <3>1, <3>3 DEF HarnessTypeOK, SpawnedOnce, Alive, Spawn
    <3> QED BY <3>2, <3>3
  <2>3. CASE WorkSucceeds(p) \/ WorkIsKilled(p)
    BY <1>1, <2>3 DEF HarnessTypeOK, SpawnedOnce, Alive, WorkSucceeds, WorkIsKilled
  <2>4. CASE ProcessEnds(p)
    BY <1>1, <2>4 DEF HarnessTypeOK, SpawnedOnce, Alive, ProcessEnds
  <2>5. CASE KillFails(p) \/ StopFails(p)
    BY <1>1, <2>5 DEF HarnessTypeOK, SpawnedOnce, Alive, KillFails, StopFails
  <2>6. CASE StopOne(p)
    BY <1>1, <2>6 DEF HarnessTypeOK, SpawnedOnce, Alive, StopOne
  <2> QED BY <2>1, <2>2, <2>3, <2>4, <2>5, <2>6 DEF Works
<1> QED BY <1>1, <1>2, <1>3 DEF SpawnedOnce, Alive

(* and leaves true what the harness has found.                              *)
LEMMA WorkKeepsFindings == ASSUME HarnessInv, NEW p \in Processes, Works(p) PROVE FindingsHold'
<1>1. HarnessTypeOK /\ SpawnedOnce /\ FindingsHold
  BY DEF HarnessInv
<1>2. /\ UNCHANGED <<listed, rootThere, receipt>>
      /\ (stage' = stage /\ failed' = failed) \/ stage' = "looking"
      /\ known \subseteq known' /\ late \subseteq late'
  BY DEF Works, BeginWork, Spawn, WorkSucceeds, ProcessEnds, WorkIsKilled, KillFails, StopOne, StopFails, ghosts
<1>3. \A q \in Processes : process'[q] = "alive" =>
         process[q] = "alive" \/ (q \notin known /\ (stage \in Settled => q \in late'))
  BY <1>1 DEF HarnessTypeOK, SpawnedOnce, Settled, Works, BeginWork, Spawn, WorkSucceeds, ProcessEnds, WorkIsKilled, KillFails,
     StopOne, StopFails
<1>4. stage' = "looking" => receipt # "cleaned"
  BY <1>1 DEF FindingsHold, Works, BeginWork, Spawn, WorkSucceeds, ProcessEnds, WorkIsKilled, KillFails,
     StopOne, StopFails
<1>5. \A q \in DOMAIN listed' : q \in known' /\ (listed'[q] => process'[q] # "alive")
  <2>1. DOMAIN listed \subseteq Processes
    BY <1>1 DEF HarnessTypeOK
  <2> QED BY <1>1, <1>2, <1>3, <2>1 DEF FindingsHold, Alive
<1>6. stage' \in Settled => stage' = stage /\ failed' = failed
  BY <1>2 DEF Settled
<1> QED BY <1>1, <1>2, <1>3, <1>4, <1>5, <1>6 DEF FindingsHold, Alive, Settled

(* The steps of the harness itself.                                         *)
Manages ==
    \/ StageEnds \/ StageTimesOut \/ GiveUpWaiting \/ OperationEnds
    \/ BeginStop \/ StopEnds \/ LookForProcesses \/ RemoveRoot \/ CheckPort \/ WriteReceipt

(* The harness itself keeps the types;                                      *)
LEMMA ManagementTypes == ASSUME HarnessTypeOK, Manages PROVE HarnessTypeOK'
<1>1. stage' \in Stages
  BY DEF HarnessTypeOK, Stages, Processes, AfterStage, Manages, StageEnds, StageTimesOut, GiveUpWaiting, OperationEnds,
     BeginStop, StopEnds, LookForProcesses, RemoveRoot, CheckPort, WriteReceipt
<1>2. /\ active' \cup aborted' \cup stopping' \cup immortal' \cup late' \subseteq Processes
      /\ stopping' \cup active' \subseteq known' /\ known' \subseteq Processes
      /\ UNCHANGED <<work, process>>
  BY DEF HarnessTypeOK, Manages, StageEnds, StageTimesOut, GiveUpWaiting, OperationEnds, ghosts, ToStop,
     BeginStop, StopEnds, LookForProcesses, RemoveRoot, CheckPort, WriteReceipt
<1>3. listed' \in UNION {[P -> BOOLEAN] : P \in SUBSET Processes}
  <2>1. Looked \in UNION {[P -> BOOLEAN] : P \in SUBSET Processes}
    <3>1. Looked \in [known -> BOOLEAN] /\ known \in SUBSET Processes
      BY DEF HarnessTypeOK, Looked, Alive
    <3> QED BY <3>1
  <2> QED BY <2>1 DEF HarnessTypeOK, Manages, StageEnds, StageTimesOut, GiveUpWaiting, OperationEnds,
     BeginStop, StopEnds, LookForProcesses, RemoveRoot, CheckPort, WriteReceipt
<1>4. rootThere' \in BOOLEAN /\ failed' \in BOOLEAN /\ receipt' \in {"none", "older", "cleaned", "failed"}
  BY DEF HarnessTypeOK, ReceiptWritten, Manages, StageEnds, StageTimesOut, GiveUpWaiting, OperationEnds,
     BeginStop, StopEnds, LookForProcesses, RemoveRoot, CheckPort, WriteReceipt
<1>5. faults' \in 0 .. MaxHarnessFaults
  BY HarnessAssumption DEF HarnessTypeOK, Fault, Manages, StageEnds, StageTimesOut, GiveUpWaiting, OperationEnds,
     BeginStop, StopEnds, LookForProcesses, RemoveRoot, CheckPort, WriteReceipt
<1> QED BY <1>1, <1>2, <1>3, <1>4, <1>5 DEF HarnessTypeOK

(* and what it has found remains true.                                      *)
LEMMA ManagementKeepsFindings == ASSUME HarnessInv, Manages PROVE SpawnedOnce' /\ FindingsHold'
<1>1. HarnessTypeOK /\ SpawnedOnce /\ FindingsHold
  BY DEF HarnessInv
<1>2. UNCHANGED <<work, process, known, late>>
  BY DEF Manages, StageEnds, StageTimesOut, GiveUpWaiting, OperationEnds, ghosts,
     BeginStop, StopEnds, LookForProcesses, RemoveRoot, CheckPort, WriteReceipt
<1>3. SpawnedOnce'
  BY <1>1, <1>2 DEF SpawnedOnce, Alive
<1>4. CASE StageEnds \/ StageTimesOut \/ GiveUpWaiting \/ OperationEnds \/ BeginStop \/ StopEnds
  <2>1. stage \notin Settled /\ stage' \notin Settled
    BY <1>1, <1>4 DEF HarnessTypeOK, AfterStage, Settled, Processes, StageEnds, StageTimesOut, GiveUpWaiting,
       OperationEnds, BeginStop, StopEnds
  <2>2. UNCHANGED <<listed, receipt>>
    BY <1>4 DEF StageEnds, StageTimesOut, GiveUpWaiting, OperationEnds, BeginStop, StopEnds
  <2>3. receipt # "cleaned"
    BY <1>1, <2>1 DEF FindingsHold, Settled
  <2> QED BY <1>1, <1>2, <1>3, <2>1, <2>2, <2>3 DEF FindingsHold, Alive
<1>5. CASE LookForProcesses
  <2>1. DOMAIN listed' = known /\ \A p \in known : listed'[p] = ~Alive(p)
    BY <1>5 DEF LookForProcesses, Looked
  <2>2. ~failed' => \A p \in known : ~Alive(p)
    BY <1>5 DEF LookForProcesses, Looked
  <2>3. stage' = "removing" /\ stage = "looking" /\ receipt' = receipt
    BY <1>5 DEF LookForProcesses
  <2> QED BY <1>1, <1>2, <2>1, <2>2, <2>3 DEF SpawnedOnce, FindingsHold, Settled, Alive
<1>6. CASE RemoveRoot \/ CheckPort
  <2>1. /\ stage \in {"removing", "checking"} /\ stage' \in {"checking", "writing"} /\ UNCHANGED <<listed, receipt>>
        /\ ~failed' => ~failed /\ ~rootThere'
    BY <1>1, <1>6 DEF FindingsHold, Settled, RemoveRoot, CheckPort, HarnessTypeOK
  <2>2. receipt # "cleaned"
    BY <1>1, <2>1 DEF FindingsHold
  <2> QED BY <1>1, <1>2, <1>3, <2>1, <2>2 DEF FindingsHold, Settled, Alive
<1>7. CASE WriteReceipt
  <2>1. /\ stage = "writing" /\ UNCHANGED <<listed, rootThere>>
        /\ failed' = (failed \/ receipt # "none") /\ stage' = IF failed' THEN "threw" ELSE "returned"
        /\ receipt' = "cleaned" => receipt = "cleaned" \/ (receipt = "none" /\ ~failed)
    BY <1>7 DEF WriteReceipt, ReceiptWritten
  <2>2. receipt # "cleaned"
    BY <1>1, <2>1 DEF FindingsHold
  <2>3. ~failed' => ~failed /\ stage' = "returned"
    BY <1>1, <2>1 DEF HarnessTypeOK
  <2> QED BY <1>1, <1>2, <1>3, <2>1, <2>2, <2>3 DEF FindingsHold, Settled, Alive
<1> QED BY <1>3, <1>4, <1>5, <1>6, <1>7 DEF Manages

(* Every step keeps the invariant.                                          *)
LEMMA HarnessSteps == HarnessInv /\ [HarnessNext]_harnessVars => HarnessInv'
<1> SUFFICES ASSUME HarnessInv, [HarnessNext]_harnessVars PROVE HarnessInv'
  OBVIOUS
<1>1. ASSUME NEW p \in Processes, Works(p) PROVE HarnessInv'
  BY <1>1, WorkTypes, WorkIsSpawnedOnce, WorkKeepsFindings DEF HarnessInv
<1>2. CASE Manages
  BY <1>2, ManagementTypes, ManagementKeepsFindings DEF HarnessInv
<1>3. CASE UNCHANGED harnessVars
  BY <1>3 DEF harnessVars, HarnessInv, HarnessTypeOK, SpawnedOnce, FindingsHold, Alive
<1> QED BY <1>1, <1>2, <1>3 DEF HarnessNext, Works, Manages, HarnessOver

(* The invariant holds in every state, whatever the processes and the       *)
(* faults.                                                                  *)
THEOREM HarnessIsSound == HarnessSpec => []HarnessInv
<1> QED BY HarnessStarts, HarnessSteps, PTL DEF HarnessSpec

(* A receipt says that everything was cleaned up only when nothing is       *)
(* left but what was spawned too late to be seen, and no receipt is         *)
(* replaced (the harness of the operational tests on PostgreSQL).           *)
THEOREM ReceiptsTellTheTruth == HarnessSpec => ReceiptsAreTrue
<1>1. HarnessInv => HarnessTypeOK /\ CleanedIsClean
  BY DEF HarnessInv, FindingsHold, CleanedIsClean, Settled
<1>2. HarnessInv /\ [HarnessNext]_harnessVars => [receipt # "none" => receipt' = receipt]_harnessVars
  BY DEF HarnessNext, BeginWork, Spawn, WorkSucceeds, ProcessEnds, WorkIsKilled, KillFails, StopOne, StopFails,
     StageEnds, StageTimesOut, GiveUpWaiting, OperationEnds, BeginStop, StopEnds, LookForProcesses, RemoveRoot, CheckPort,
     WriteReceipt, HarnessOver, ReceiptWritten
<1> QED BY <1>1, <1>2, HarnessIsSound, PTL DEF HarnessSpec, ReceiptsAreTrue, ReceiptIsKept

-----------------------------------------------------------------------------
(* The board of the operations channel.                                     *)

(* The states of the row, of a message and of a sync.                       *)
BoardRows == [status : {"NONE", "PENDING", "RETRY", "SYNCING", "SYNCED"}, due : BOOLEAN,
              claim : BoardWorkers \cup {0}, leased : Ages, message : BoardIds \cup {0}, digest : Digests]
PostStates == [alive : BOOLEAN, pinned : BOOLEAN, shows : Versions, lead : 0 .. 2]
SyncStates == [phase : SyncPhases, force : BOOLEAN, age : Ages, message : BoardIds \cup {0}, digest : Digests,
               lead : 0 .. 2, version : Versions]

(* An interval that starts at one has as many members as its last.         *)
LEMMA IntervalSize ==
    ASSUME NEW k \in Nat
    PROVE  IsFiniteSet(1 .. k) /\ Cardinality(1 .. k) = k
<1>1. /\ IsFiniteSet(1 .. k)
      /\ Cardinality(1 .. k) = IF 1 > k THEN 0 ELSE k - 1 + 1
  BY FS_Interval
<1> QED BY <1>1

(* What the bounds of the model are.                                        *)
LEMMA BoardBounds ==
    /\ MaxVersion \in Nat /\ MaxBoards \in Nat /\ MaxBoardFaults \in Nat /\ 0 \notin BoardWorkers
    /\ 0 \in Versions /\ 0 \in Ages /\ NoDigest \in Digests
    /\ \A n \in Ages : Older(n) \in Ages /\ n <= Older(n) /\ (n < 2 => Older(n) = n + 1)
    /\ \A n \in 0 .. 2 : Behind(n) \in 0 .. 2
BY BoardAssumption DEF BoardAssumption, Versions, Ages, NoDigest, Digests, Older, Behind

(* Every step keeps the type of the row;                                    *)
LEMMA BoardRowTypes ==
    ASSUME BoardTypeOK, BoardNext
    PROVE  boardRow' \in BoardRows /\ (boardRow'.status = "SYNCING" => boardRow'.claim # 0)
<1>1. boardRow \in BoardRows /\ (boardRow.status = "SYNCING" => boardRow.claim # 0)
  BY DEF BoardTypeOK, BoardRows
<1>2. Refreshed(boardRow) \in BoardRows /\ (Refreshed(boardRow).status = "SYNCING" => Refreshed(boardRow) = boardRow)
  BY <1>1 DEF Refreshed, BoardRows
<1>3. ASSUME NEW w \in BoardWorkers, RequestSync(w)
      PROVE  boardRow' \in BoardRows /\ (boardRow'.status = "SYNCING" => boardRow'.claim # 0)
  BY <1>1, <1>2, <1>3 DEF RequestSync
<1>4. ASSUME NEW w \in BoardWorkers, ClaimSync(w)
      PROVE  boardRow' \in BoardRows /\ (boardRow'.status = "SYNCING" => boardRow'.claim # 0)
  <2> DEFINE row == IF boardSync[w].force THEN Refreshed(boardRow) ELSE boardRow
  <2>1. row \in BoardRows /\ (row.status = "SYNCING" => row.claim # 0)
    BY <1>1, <1>2
  <2>2. boardRow' = row \/ boardRow' = [row EXCEPT !.status = "SYNCING", !.claim = w, !.leased = 0]
    BY <1>4 DEF ClaimSync
  <2> HIDE DEF row
  <2> QED BY <2>1, <2>2, BoardBounds DEF BoardRows
<1>5. ASSUME NEW w \in BoardWorkers, CompleteSync(w)
      PROVE  boardRow' \in BoardRows /\ (boardRow'.status = "SYNCING" => boardRow'.claim # 0)
  <2> DEFINE digest == [of |-> boardSync[w].version, age |-> boardSync[w].age]
  <2>1. digest \in Digests /\ boardSync[w].message \in BoardIds \cup {0}
    BY DEF BoardTypeOK, Digests
  <2>2. boardRow' = boardRow \/
        boardRow' = [boardRow EXCEPT !.status = "SYNCED", !.due = TRUE, !.claim = 0, !.leased = 0,
                                     !.message = boardSync[w].message, !.digest = digest]
    BY <1>5 DEF CompleteSync, Recorded
  <2> HIDE DEF digest
  <2> QED BY <1>1, <2>1, <2>2, BoardBounds DEF BoardRows
<1>6. ASSUME NEW w \in BoardWorkers, CompleteUnchanged(w) \/ FailSync(w)
      PROVE  boardRow' \in BoardRows /\ (boardRow'.status = "SYNCING" => boardRow'.claim # 0)
  <2>1. \/ boardRow' = boardRow
        \/ boardRow' = [boardRow EXCEPT !.status = "SYNCED", !.due = TRUE, !.claim = 0, !.leased = 0]
        \/ boardRow' = [boardRow EXCEPT !.status = "RETRY", !.due = FALSE, !.claim = 0, !.leased = 0]
    BY <1>6 DEF CompleteUnchanged, FailSync, Failed
  <2> QED BY <1>1, <2>1, BoardBounds DEF BoardRows
<1>7. CASE MinutePasses
  <2> DEFINE leased == IF boardRow.status = "SYNCING" THEN Older(boardRow.leased) ELSE boardRow.leased
             digest == [boardRow.digest EXCEPT !.age = Older(@)]
  <2>1. leased \in Ages /\ digest \in Digests
    BY <1>1, BoardBounds DEF BoardRows, Digests
  <2>2. boardRow' = [boardRow EXCEPT !.digest = digest, !.due = TRUE, !.leased = leased]
    BY <1>7 DEF MinutePasses
  <2> HIDE DEF leased, digest
  <2> QED BY <1>1, <2>1, <2>2 DEF BoardRows
<1>8. ASSUME NEW w \in BoardWorkers, SyncStep(w)
      PROVE  boardRow' \in BoardRows /\ (boardRow'.status = "SYNCING" => boardRow'.claim # 0)
  BY <1>1, <1>3, <1>4, <1>5, <1>6, <1>8 DEF SyncStep, LoadBoard, EditBoard, PostBoard, PinBoard, RemoveBoard
<1> QED BY <1>1, <1>7, <1>8 DEF BoardNext, SiteChanges, SyncAfterMutation, PressRefresh, CronSync, WorkerStops,
           SomebodyDeletes

(* of the syncs;                                                            *)
LEMMA SyncTypes ==
    ASSUME BoardTypeOK, BoardNext
    PROVE  boardSync' \in [BoardWorkers -> SyncStates]
<1>1. boardSync \in [BoardWorkers -> SyncStates] /\ NoSync \in SyncStates /\ boardRow \in BoardRows
      /\ siteVersion \in Versions
  BY BoardBounds DEF BoardTypeOK, SyncStates, NoSync, SyncPhases, BoardRows
<1>2. ASSUME NEW w \in BoardWorkers, NEW s \in SyncStates, GoesWith(w, s)
      PROVE  boardSync' \in [BoardWorkers -> SyncStates]
  BY <1>1, <1>2 DEF GoesWith
<1>3. ASSUME NEW w \in BoardWorkers, SyncEnds(w)
      PROVE  boardSync' \in [BoardWorkers -> SyncStates]
  BY <1>1, <1>2, <1>3 DEF SyncEnds
<1>4. ASSUME NEW w \in BoardWorkers, NEW phase \in SyncPhases, Goes(w, phase)
      PROVE  boardSync' \in [BoardWorkers -> SyncStates]
  BY <1>1, <1>4 DEF Goes, SyncStates
<1>5. ASSUME NEW w \in BoardWorkers, NEW force \in BOOLEAN, Starts(w, force)
      PROVE  boardSync' \in [BoardWorkers -> SyncStates]
  <2>1. [NoSync EXCEPT !.phase = "asking", !.force = force] \in SyncStates
    BY <1>1 DEF SyncStates, SyncPhases
  <2> QED BY <1>2, <1>5, <2>1 DEF Starts
<1>6. ASSUME NEW w \in BoardWorkers, ClaimSync(w)
      PROVE  boardSync' \in [BoardWorkers -> SyncStates]
  <2> DEFINE row == IF boardSync[w].force THEN Refreshed(boardRow) ELSE boardRow
  <2>1. row \in BoardRows
    BY <1>1 DEF Refreshed, BoardRows
  <2> DEFINE m == row.message
             d == row.digest
  <2>2. SyncEnds(w) \/ GoesWith(w, [boardSync[w] EXCEPT !.phase = "loading", !.message = m, !.digest = d, !.lead = 2])
    BY <1>6 DEF ClaimSync
  <2>4. m \in BoardIds \cup {0} /\ d \in Digests
    BY <2>1 DEF BoardRows
  <2> HIDE DEF row, m, d
  <2>5. 2 \in 0 .. 2 /\ "loading" \in SyncPhases
    BY DEF SyncPhases
  <2>3. [boardSync[w] EXCEPT !.phase = "loading", !.message = m, !.digest = d, !.lead = 2] \in SyncStates
    BY <1>1, <2>4, <2>5 DEF SyncStates
  <2> QED BY <1>2, <1>3, <2>2, <2>3
<1>7. ASSUME NEW w \in BoardWorkers, LoadBoard(w)
      PROVE  boardSync' \in [BoardWorkers -> SyncStates]
  <2> DEFINE phase == IF boardSync[w].message = 0 THEN "posting" ELSE "delivering"
  <2>1. phase \in SyncPhases
    BY DEF SyncPhases
  <2>2. \/ Goes(w, "confirming") \/ Goes(w, "failing")
        \/ GoesWith(w, [boardSync[w] EXCEPT !.phase = phase, !.version = siteVersion])
    BY <1>7 DEF LoadBoard
  <2> HIDE DEF phase
  <2>3. [boardSync[w] EXCEPT !.phase = phase, !.version = siteVersion] \in SyncStates
    BY <1>1, <2>1 DEF SyncStates
  <2> QED BY <1>2, <1>4, <2>2, <2>3 DEF SyncPhases
<1>8. ASSUME NEW w \in BoardWorkers, PostBoard(w)
      PROVE  boardSync' \in [BoardWorkers -> SyncStates]
  <2>1. Goes(w, "failing") \/ \E m \in BoardIds : GoesWith(w, [boardSync[w] EXCEPT !.phase = "pinning", !.message = m])
    BY <1>8 DEF PostBoard
  <2>2. \A m \in BoardIds : [boardSync[w] EXCEPT !.phase = "pinning", !.message = m] \in SyncStates
    BY <1>1 DEF SyncStates, SyncPhases
  <2> QED BY <1>2, <1>4, <2>1, <2>2 DEF SyncPhases
<1>9. ASSUME NEW w \in BoardWorkers, CompleteSync(w)
      PROVE  boardSync' \in [BoardWorkers -> SyncStates]
  <2>1. \A u \in BoardWorkers : [boardSync[u] EXCEPT !.lead = Behind(@)] \in SyncStates
    BY <1>1, BoardBounds DEF SyncStates
  <2> QED BY <1>1, <1>3, <1>9, <2>1 DEF CompleteSync
<1>10. CASE MinutePasses
  <2>1. \A u \in BoardWorkers : [boardSync[u] EXCEPT !.age = Older(@), !.digest.age = Older(@)] \in SyncStates
    BY <1>1, BoardBounds DEF SyncStates, Digests
  <2> QED BY <1>1, <1>10, <2>1 DEF MinutePasses
<1>11. ASSUME NEW w \in BoardWorkers, SyncStep(w)
      PROVE  boardSync' \in [BoardWorkers -> SyncStates]
  <2>1. CASE RequestSync(w) \/ EditBoard(w) \/ PinBoard(w) \/ RemoveBoard(w)
    <3>1. \E phase \in {"claiming", "recording", "posting", "failing", "removing"} : Goes(w, phase)
      BY <2>1 DEF RequestSync, EditBoard, PinBoard, RemoveBoard
    <3> QED BY <1>4, <3>1 DEF SyncPhases
  <2>2. CASE CompleteUnchanged(w) \/ FailSync(w)
    BY <1>3, <2>2 DEF CompleteUnchanged, FailSync
  <2> QED BY <1>6, <1>7, <1>8, <1>9, <1>11, <2>1, <2>2 DEF SyncStep
<1>12. ASSUME NEW w \in BoardWorkers, SyncAfterMutation(w) \/ PressRefresh(w) \/ CronSync(w) \/ WorkerStops(w)
      PROVE  boardSync' \in [BoardWorkers -> SyncStates]
  BY <1>3, <1>5, <1>12 DEF SyncAfterMutation, PressRefresh, CronSync, WorkerStops
<1>13. CASE UNCHANGED boardSync
  BY <1>1, <1>13
<1> QED BY <1>10, <1>11, <1>12, <1>13 DEF BoardNext, SiteChanges, SomebodyDeletes

(* of the messages;                                                         *)
LEMMA PostTypes ==
    ASSUME BoardTypeOK, BoardNext
    PROVE  boardPosts' \in [BoardIds -> PostStates]
<1>1. boardPosts \in [BoardIds -> PostStates] /\ boardSync \in [BoardWorkers -> SyncStates]
  BY DEF BoardTypeOK, PostStates, SyncStates
<1>2. ASSUME NEW w \in BoardWorkers, NEW m, boardPosts' = Showing(m, w)
      PROVE  boardPosts' \in [BoardIds -> PostStates]
  BY <1>1, <1>2 DEF Showing, PostStates, SyncStates
<1>3. ASSUME NEW w \in BoardWorkers, boardPosts' = Posting(w)
      PROVE  boardPosts' \in [BoardIds -> PostStates]
  BY <1>1, <1>3 DEF Posting, PostStates, SyncStates
<1>4. ASSUME NEW m, boardPosts' = Removed(m) \/ boardPosts' = [boardPosts EXCEPT ![m].pinned = TRUE]
      PROVE  boardPosts' \in [BoardIds -> PostStates]
  BY <1>1, <1>4 DEF Removed, PostStates
<1>5. ASSUME boardPosts' = [m \in BoardIds |-> [boardPosts[m] EXCEPT !.lead = Behind(@)]]
      PROVE  boardPosts' \in [BoardIds -> PostStates]
  BY <1>1, <1>5, BoardBounds DEF PostStates
<1>6. ASSUME NEW w \in BoardWorkers, SyncStep(w)
      PROVE  boardPosts' \in [BoardIds -> PostStates]
  <2>1. CASE EditBoard(w) \/ PostBoard(w)
    BY <1>1, <1>2, <1>3, <2>1 DEF EditBoard, PostBoard
  <2>2. CASE PinBoard(w) \/ RemoveBoard(w)
    BY <1>1, <1>4, <2>2 DEF PinBoard, RemoveBoard
  <2>3. CASE CompleteSync(w)
    BY <1>1, <1>5, <2>3 DEF CompleteSync
  <2> QED BY <1>1, <1>6, <2>1, <2>2, <2>3 DEF SyncStep, RequestSync, ClaimSync, LoadBoard, CompleteUnchanged, FailSync
<1>7. ASSUME NEW m \in BoardIds, SomebodyDeletes(m)
      PROVE  boardPosts' \in [BoardIds -> PostStates]
  BY <1>4, <1>7 DEF SomebodyDeletes
<1> QED BY <1>1, <1>6, <1>7 DEF BoardNext, SiteChanges, MinutePasses, SyncAfterMutation, PressRefresh, CronSync, WorkerStops

(* of the counts, which only grow;                                          *)
LEMMA BoardCounts ==
    ASSUME BoardTypeOK, BoardNext
    PROVE  /\ boardFaults' \in 0 .. MaxBoardFaults /\ boardFaults' \in {boardFaults, boardFaults + 1}
           /\ siteVersion' \in Versions /\ siteVersion' >= siteVersion
           /\ boardHooks <= siteVersion => boardHooks' <= siteVersion' /\ boardHooks' \in Nat
<1>1. siteVersion \in Versions /\ boardHooks \in Versions /\ boardFaults \in 0 .. MaxBoardFaults
  BY DEF BoardTypeOK
<1>2. boardFaults' = boardFaults \/ (boardFaults < MaxBoardFaults /\ boardFaults' = boardFaults + 1)
  BY DEF BoardFault, BoardNext, SyncStep, SiteChanges, MinutePasses, SyncAfterMutation, PressRefresh, CronSync, WorkerStops,
     RequestSync, ClaimSync, LoadBoard, EditBoard, PostBoard, PinBoard, RemoveBoard, CompleteSync, CompleteUnchanged,
     FailSync, SomebodyDeletes
<1>3. \/ siteVersion < MaxVersion /\ siteVersion' = siteVersion + 1 /\ boardHooks' = boardHooks + 1
      \/ siteVersion' = siteVersion /\ boardHooks' = boardHooks
      \/ siteVersion' = siteVersion /\ boardHooks > 0 /\ boardHooks' = boardHooks - 1
  BY DEF BoardNext, SyncStep, SiteChanges, MinutePasses, SyncAfterMutation, PressRefresh, CronSync, WorkerStops,
     RequestSync, ClaimSync, LoadBoard, EditBoard, PostBoard, PinBoard, RemoveBoard, CompleteSync, CompleteUnchanged,
     FailSync, SomebodyDeletes
<1> QED BY <1>1, <1>2, <1>3, BoardBounds DEF Versions

(* and of all variables.                                                    *)
LEMMA BoardTypes ==
    ASSUME BoardTypeOK, boardHooks <= siteVersion, BoardNext
    PROVE  BoardTypeOK' /\ boardHooks' <= siteVersion'
<1>1. siteVersion' \in Versions /\ boardHooks' \in Versions /\ boardFaults' \in 0 .. MaxBoardFaults
  BY BoardCounts, BoardBounds DEF Versions
<1> QED BY <1>1, BoardCounts, BoardRowTypes, PostTypes, SyncTypes DEF BoardTypeOK, BoardRows, PostStates, SyncStates

(* Where a sync has the claim, may yet post a board, and has its            *)
(* message.                                                                 *)
Working == {"loading", "delivering", "posting", "pinning", "removing", "recording", "confirming", "failing"}
SyncWorks(w) == boardSync[w].phase \in Working
Bringing == {"loading", "delivering", "posting"}     \* may yet post a board
Having == {"pinning", "removing", "recording"}       \* has its message
(* A message that is in the channel, and one that ever was.                 *)
IsAlive(m) == m # 0 /\ boardPosts[m].alive
IsPosted(m) == m # 0 /\ boardPosts[m].shows > 0

(* Only messages that were posted are named, and they are posted in         *)
(* turn.                                                                    *)
PostsInv ==
    /\ boardHooks <= siteVersion
    /\ siteVersion = 0 => boardRow.status = "NONE" /\ \A w \in BoardWorkers : At(w, "idle")
    /\ \A m \in BoardIds : boardPosts[m].shows = 0 => boardPosts[m] = NotPosted
    /\ \A m \in BoardIds : \A k \in 1 .. m : IsPosted(m) => IsPosted(k)
    /\ boardRow.message # 0 => IsPosted(boardRow.message)
    /\ \A w \in BoardWorkers :
         /\ boardSync[w].message # 0 => IsPosted(boardSync[w].message)
         /\ boardSync[w].phase \in {"delivering"} \cup Having => boardSync[w].message # 0
         /\ boardSync[w].phase \in {"delivering", "posting", "pinning", "recording"} => boardSync[w].version > 0

(* The sync whose claim stands has read the row as it is: it posts only     *)
(* where the row's message is gone.                                         *)
HoldsRightly(w) ==
    /\ boardSync[w].lead = 2 /\ boardRow.leased <= boardSync[w].age
    /\ boardSync[w].phase \in {"loading", "delivering"} => boardSync[w].message = boardRow.message
    /\ boardSync[w].phase = "posting" => ~IsAlive(boardRow.message)
    /\ boardSync[w].phase \in Having => boardSync[w].message = boardRow.message \/ ~IsAlive(boardRow.message)
LeaseInv == \A w \in BoardWorkers : SyncWorks(w) /\ StillHeld(w) => HoldsRightly(w)

(* What is owed to a fault: a message that neither the row nor the sync     *)
(* with the claim has, a sync that goes on without the claim, and a         *)
(* lease that is over while its sync may still post.                        *)
HasIt(w, m) == StillHeld(w) /\ boardSync[w].phase \in Having /\ boardSync[w].message = m
LooseBoards == {m \in BoardIds : IsAlive(m) /\ boardRow.message # m /\ \A w \in BoardWorkers : ~HasIt(w, m)}
LooseSyncs == {w \in BoardWorkers : boardSync[w].phase \in Bringing /\ ~StillHeld(w)}
Overdue == /\ boardRow.status = "SYNCING" /\ Lapsed(boardRow)
           /\ boardSync[boardRow.claim].phase \in Bringing \cup Having
DebtInv == Cardinality(LooseBoards) + Cardinality(LooseSyncs) + (IF Overdue THEN 1 ELSE 0) <= boardFaults

(* While nothing has gone wrong: syncs are prompt, those that work hold     *)
(* the claim, the row remembers, and the message shows what the row         *)
(* says.                                                                    *)
OnTime == \A w \in BoardWorkers : boardSync[w].age <= 1
AllHold == \A w \in BoardWorkers : SyncWorks(w) => StillHeld(w) /\ boardSync[w].phase \notin {"removing", "failing"}
Recalls ==
    /\ boardRow.status = "SYNCING" => SyncWorks(boardRow.claim)
    /\ boardRow.status = "SYNCED" => boardRow.message # 0
Truthful == boardPosts[boardRow.message].shows = boardRow.digest.of /\ boardPosts[boardRow.message].lead = 1
Tells ==
    boardRow.message # 0 =>
        /\ boardPosts[boardRow.message].alive /\ boardPosts[boardRow.message].pinned
        /\ Truthful \/ \E w \in BoardWorkers : At(w, "recording")
Underway(w) ==
    LET s == boardSync[w]
        post == boardPosts[s.message]
    IN /\ s.phase \in {"pinning", "recording"} => post.alive /\ post.shows = s.version /\ post.lead = 2
       /\ s.phase = "recording" => post.pinned
       /\ s.phase \in {"posting", "pinning"} => boardRow.message = 0
       /\ s.phase = "confirming" => boardRow.message # 0
FaultlessInv ==
    boardFaults = 0 => OnTime /\ AllHold /\ Recalls /\ Tells /\ \A w \in BoardWorkers : Underway(w)

(* The next message was never posted, the ones before it were.              *)
LEMMA NextBoardIsFresh ==
    ASSUME BoardTypeOK, PostsInv
    PROVE  /\ NextBoard \in Nat \ {0}
           /\ \A m \in BoardIds : boardPosts[m].shows > 0 <=> m < NextBoard
           /\ NextBoard \in BoardIds => boardPosts[NextBoard] = NotPosted /\ boardPosts[NextBoard].shows = 0
<1> DEFINE S == {m \in BoardIds : boardPosts[m] # NotPosted}
           n == Cardinality(S)
<1>1. \A m \in BoardIds : boardPosts[m].shows \in Nat
  BY BoardBounds DEF BoardTypeOK, Versions
<1>2. S = {m \in BoardIds : boardPosts[m].shows > 0}
  BY <1>1 DEF PostsInv, NotPosted
<1>3. \A m \in S : 1 .. m \subseteq S
  BY <1>2, BoardBounds DEF PostsInv, IsPosted, BoardIds
<1>4. IsFiniteSet(BoardIds) /\ S \subseteq BoardIds
  BY FS_Interval, BoardBounds DEF BoardIds
<1>5. IsFiniteSet(S) /\ n \in Nat
  BY <1>4, FS_Subset, FS_CardinalityType
<1>6. \A m \in BoardIds : m \in S => m <= n
  <2> SUFFICES ASSUME NEW m \in BoardIds, m \in S PROVE m <= n
    OBVIOUS
  <2>1. Cardinality(1 .. m) = m
    BY IntervalSize, BoardBounds DEF BoardIds
  <2> HIDE DEF S
  <2> QED BY <1>3, <1>5, <2>1, FS_Subset
<1>7. \A m \in BoardIds : m <= n => m \in S
  <2> SUFFICES ASSUME NEW m \in BoardIds, m \notin S PROVE n < m
    BY <1>5, BoardBounds DEF BoardIds
  <2> HIDE DEF S
  <2>0. m - 1 \in Nat
    BY BoardBounds DEF BoardIds
  <2>1. m - 1 \in Nat /\ IsFiniteSet(1 .. (m - 1)) /\ Cardinality(1 .. (m - 1)) = m - 1
    BY <2>0, IntervalSize
  <2>2. S \subseteq 1 .. (m - 1)
    <3> SUFFICES ASSUME NEW k \in S PROVE k \in 1 .. (m - 1)
      OBVIOUS
    <3>1. m \notin 1 .. k /\ k \in BoardIds
      BY <1>3, <1>4
    <3> QED BY <3>1, BoardBounds DEF BoardIds
  <2>3. n <= m - 1
    BY <1>5, <2>1, <2>2, FS_Subset
  <2> QED BY <1>5, <2>1, <2>3, BoardBounds DEF BoardIds
<1>8. NextBoard = 1 + n
  BY DEF NextBoard
<1> HIDE DEF n, S
<1>9. \A m \in BoardIds : boardPosts[m].shows > 0 <=> m < NextBoard
  BY <1>2, <1>5, <1>6, <1>7, <1>8, BoardBounds DEF BoardIds
<1>10. NextBoard \in BoardIds => boardPosts[NextBoard] = NotPosted /\ boardPosts[NextBoard].shows = 0
  <2> SUFFICES ASSUME NextBoard \in BoardIds PROVE boardPosts[NextBoard] = NotPosted /\ boardPosts[NextBoard].shows = 0
    OBVIOUS
  <2>1. ~(boardPosts[NextBoard].shows > 0)
    BY <1>5, <1>8, <1>9
  <2>2. boardPosts[NextBoard].shows = 0
    BY <1>1, <2>1
  <2> QED BY <2>2 DEF PostsInv
<1> QED BY <1>5, <1>8, <1>9, <1>10

(* What a step may do to the messages of the channel.                       *)
LEMMA PostsMove ==
    ASSUME BoardTypeOK, PostsInv, BoardNext, NEW m \in BoardIds
    PROVE  /\ boardPosts[m].shows > 0 => boardPosts'[m].shows > 0
           /\ boardPosts'[m].shows = 0 => boardPosts'[m] = NotPosted
           /\ boardPosts[m].shows = 0 /\ boardPosts'[m].shows > 0 => m = NextBoard
<1>1. /\ boardPosts \in [BoardIds -> PostStates] /\ boardSync \in [BoardWorkers -> SyncStates]
      /\ boardPosts[m].shows \in Nat /\ (boardPosts[m].shows = 0 => boardPosts[m] = NotPosted)
      /\ \A w \in BoardWorkers : boardSync[w].version \in Nat
  BY BoardBounds DEF BoardTypeOK, PostStates, SyncStates, Versions, PostsInv
<1>2. CASE UNCHANGED boardPosts
  BY <1>1, <1>2
<1>3. ASSUME NEW w \in BoardWorkers, boardSync[w].version > 0, boardPosts' = Showing(boardSync[w].message, w),
             IsPosted(boardSync[w].message)
      PROVE  /\ boardPosts[m].shows > 0 => boardPosts'[m].shows > 0
             /\ boardPosts'[m].shows = 0 => boardPosts'[m] = NotPosted
             /\ boardPosts[m].shows = 0 /\ boardPosts'[m].shows > 0 => m = NextBoard
  <2>1. CASE m = boardSync[w].message
    <3>1. boardPosts'[m].shows = boardSync[w].version
      BY <1>1, <1>3, <2>1 DEF Showing, PostStates
    <3> QED BY <1>1, <1>3, <2>1, <3>1 DEF IsPosted
  <2>2. CASE m # boardSync[w].message
    BY <1>1, <1>3, <2>2 DEF Showing
  <2> QED BY <2>1, <2>2
<1>4. ASSUME NEW w \in BoardWorkers, boardSync[w].version > 0, boardPosts' = Posting(w)
      PROVE  /\ boardPosts[m].shows > 0 => boardPosts'[m].shows > 0
             /\ boardPosts'[m].shows = 0 => boardPosts'[m] = NotPosted
             /\ boardPosts[m].shows = 0 /\ boardPosts'[m].shows > 0 => m = NextBoard
  <2>1. m = NextBoard => boardPosts'[m].shows = boardSync[w].version
    BY <1>1, <1>4 DEF Posting
  <2>2. m # NextBoard => boardPosts'[m] = boardPosts[m]
    BY <1>1, <1>4 DEF Posting
  <2> QED BY <1>1, <1>4, <2>1, <2>2
<1>5. ASSUME NEW k \in BoardIds, IsPosted(k),
             boardPosts' = Removed(k) \/ boardPosts' = [boardPosts EXCEPT ![k].pinned = TRUE]
      PROVE  /\ boardPosts[m].shows > 0 => boardPosts'[m].shows > 0
             /\ boardPosts'[m].shows = 0 => boardPosts'[m] = NotPosted
             /\ boardPosts[m].shows = 0 /\ boardPosts'[m].shows > 0 => m = NextBoard
  <2>1. boardPosts'[m].shows = boardPosts[m].shows /\ (m # k => boardPosts'[m] = boardPosts[m])
    BY <1>1, <1>5 DEF Removed, PostStates
  <2> QED BY <1>1, <1>5, <2>1 DEF IsPosted
<1>6. ASSUME boardPosts' = [k \in BoardIds |-> [boardPosts[k] EXCEPT !.lead = Behind(@)]]
      PROVE  /\ boardPosts[m].shows > 0 => boardPosts'[m].shows > 0
             /\ boardPosts'[m].shows = 0 => boardPosts'[m] = NotPosted
             /\ boardPosts[m].shows = 0 /\ boardPosts'[m].shows > 0 => m = NextBoard
  <2>1. boardPosts'[m].shows = boardPosts[m].shows /\ boardPosts'[m] = [boardPosts[m] EXCEPT !.lead = Behind(@)]
    BY <1>1, <1>6 DEF PostStates
  <2>2. [NotPosted EXCEPT !.lead = Behind(@)] = NotPosted
    BY DEF NotPosted, Behind
  <2> QED BY <1>1, <2>1, <2>2
<1>7. ASSUME NEW w \in BoardWorkers, SyncStep(w)
      PROVE  /\ boardPosts[m].shows > 0 => boardPosts'[m].shows > 0
             /\ boardPosts'[m].shows = 0 => boardPosts'[m] = NotPosted
             /\ boardPosts[m].shows = 0 /\ boardPosts'[m].shows > 0 => m = NextBoard
  <2>0. /\ boardSync[w].phase \in {"delivering"} \cup Having => IsPosted(boardSync[w].message) /\ boardSync[w].message \in BoardIds
        /\ boardSync[w].phase \in {"delivering", "posting", "pinning", "recording"} => boardSync[w].version > 0
    BY <1>1 DEF PostsInv, SyncStates
  <2>1. CASE EditBoard(w)
    BY <1>2, <1>3, <2>0, <2>1 DEF EditBoard, At
  <2>2. CASE PostBoard(w)
    BY <1>2, <1>4, <2>0, <2>2 DEF PostBoard, At
  <2>3. CASE PinBoard(w) \/ RemoveBoard(w)
    BY <1>2, <1>5, <2>0, <2>3 DEF PinBoard, RemoveBoard, At, Having
  <2>4. CASE CompleteSync(w)
    BY <1>2, <1>6, <2>4 DEF CompleteSync
  <2> QED BY <1>2, <1>7, <2>1, <2>2, <2>3, <2>4 DEF SyncStep, RequestSync, ClaimSync, LoadBoard, CompleteUnchanged, FailSync
<1>8. ASSUME NEW k \in BoardIds, SomebodyDeletes(k)
      PROVE  /\ boardPosts[m].shows > 0 => boardPosts'[m].shows > 0
             /\ boardPosts'[m].shows = 0 => boardPosts'[m] = NotPosted
             /\ boardPosts[m].shows = 0 /\ boardPosts'[m].shows > 0 => m = NextBoard
  <2>1. IsPosted(k)
    BY <1>8, BoardBounds DEF SomebodyDeletes, PostsInv, NotPosted, BoardTypeOK, IsPosted, BoardIds, Versions
  <2> QED BY <1>5, <1>8, <2>1 DEF SomebodyDeletes
<1> QED BY <1>2, <1>7, <1>8 DEF BoardNext, SiteChanges, MinutePasses, SyncAfterMutation, PressRefresh, CronSync, WorkerStops

(* Before the first change of the site nothing is looked at.                *)
LEMMA QuietAtFirst ==
    ASSUME BoardTypeOK, PostsInv, BoardNext, siteVersion' = 0
    PROVE  boardRow'.status = "NONE" /\ \A w \in BoardWorkers : boardSync'[w].phase = "idle"
<1>1. siteVersion = 0 /\ boardHooks = 0
  BY BoardCounts, BoardBounds DEF BoardTypeOK, Versions, PostsInv
<1>2. boardRow.status = "NONE" /\ \A w \in BoardWorkers : boardSync[w].phase = "idle"
  BY <1>1 DEF PostsInv, At
<1>3. boardRow \in BoardRows
  BY DEF BoardTypeOK, BoardRows
<1>4. CASE MinutePasses
  <2>1. boardRow'.status = boardRow.status
    BY <1>3, <1>4 DEF MinutePasses, BoardRows
  <2>2. \A w \in BoardWorkers : boardSync'[w] = NoSync
    BY <1>2, <1>4 DEF MinutePasses, At
  <2> QED BY <1>2, <2>1, <2>2 DEF NoSync
<1>5. CASE \E m \in BoardIds : SomebodyDeletes(m)
  BY <1>2, <1>5 DEF SomebodyDeletes
<1>6. ASSUME NEW w \in BoardWorkers PROVE ~SyncStep(w)
  BY <1>2 DEF SyncStep, RequestSync, ClaimSync, LoadBoard, EditBoard, PostBoard, PinBoard, RemoveBoard, CompleteSync,
     CompleteUnchanged, FailSync, At
<1>7. ASSUME NEW w \in BoardWorkers PROVE ~SyncAfterMutation(w) /\ ~PressRefresh(w) /\ ~CronSync(w) /\ ~WorkerStops(w)
  BY <1>1, <1>2 DEF SyncAfterMutation, PressRefresh, IsCurrentControl, CronSync, WorkerStops, At
<1>8. ~SiteChanges
  BY <1>1 DEF SiteChanges
<1> QED BY <1>4, <1>5, <1>6, <1>7, <1>8 DEF BoardNext

(* The row gets another message only from the sync that records it.         *)
LEMMA RowMessageMoves ==
    ASSUME BoardTypeOK, BoardNext
    PROVE  \/ boardRow'.message = boardRow.message
           \/ \E w \in BoardWorkers : CompleteSync(w) /\ StillHeld(w) /\ boardRow'.message = boardSync[w].message
<1>1. boardRow \in BoardRows /\ Refreshed(boardRow).message = boardRow.message /\ Refreshed(boardRow) \in BoardRows
  BY DEF BoardTypeOK, BoardRows, Refreshed
<1>2. ASSUME NEW w \in BoardWorkers, ClaimSync(w) PROVE boardRow'.message = boardRow.message
  <2> DEFINE row == IF boardSync[w].force THEN Refreshed(boardRow) ELSE boardRow
  <2>1. row.message = boardRow.message /\ row \in BoardRows
    BY <1>1
  <2>2. boardRow' = row \/ boardRow' = [row EXCEPT !.status = "SYNCING", !.claim = w, !.leased = 0]
    BY <1>2 DEF ClaimSync
  <2> HIDE DEF row
  <2> QED BY <2>1, <2>2 DEF BoardRows
<1>3. ASSUME NEW w \in BoardWorkers, CompleteSync(w), StillHeld(w) PROVE boardRow'.message = boardSync[w].message
  <2> DEFINE digest == [of |-> boardSync[w].version, age |-> boardSync[w].age]
  <2>1. boardRow' = [boardRow EXCEPT !.status = "SYNCED", !.due = TRUE, !.claim = 0, !.leased = 0,
                                     !.message = boardSync[w].message, !.digest = digest]
    BY <1>3 DEF CompleteSync, Recorded
  <2> HIDE DEF digest
  <2> QED BY <1>1, <2>1 DEF BoardRows
<1>4. ASSUME NEW w \in BoardWorkers, CompleteUnchanged(w) \/ FailSync(w) PROVE boardRow'.message = boardRow.message
  <2>1. \/ boardRow' = boardRow
        \/ boardRow' = [boardRow EXCEPT !.status = "SYNCED", !.due = TRUE, !.claim = 0, !.leased = 0]
        \/ boardRow' = [boardRow EXCEPT !.status = "RETRY", !.due = FALSE, !.claim = 0, !.leased = 0]
    BY <1>4 DEF CompleteUnchanged, FailSync, Failed
  <2> QED BY <1>1, <2>1 DEF BoardRows
<1>5. CASE MinutePasses
  <2> DEFINE leased == IF boardRow.status = "SYNCING" THEN Older(boardRow.leased) ELSE boardRow.leased
             digest == [boardRow.digest EXCEPT !.age = Older(@)]
  <2>2. boardRow' = [boardRow EXCEPT !.digest = digest, !.due = TRUE, !.leased = leased]
    BY <1>5 DEF MinutePasses
  <2> HIDE DEF leased, digest
  <2> QED BY <1>1, <2>2 DEF BoardRows
<1>6. ASSUME NEW w \in BoardWorkers, SyncStep(w)
      PROVE  boardRow'.message = boardRow.message \/ (CompleteSync(w) /\ StillHeld(w) /\ boardRow'.message = boardSync[w].message)
  <2>1. CASE CompleteSync(w)
    BY <1>3, <2>1 DEF CompleteSync
  <2> QED BY <1>1, <1>2, <1>4, <1>6, <2>1 DEF SyncStep, RequestSync, LoadBoard, EditBoard, PostBoard, PinBoard, RemoveBoard
<1> QED BY <1>5, <1>6 DEF BoardNext, SiteChanges, SyncAfterMutation, PressRefresh, CronSync, WorkerStops, SomebodyDeletes

(* What a sync keeps or becomes.                                            *)
Carries(s) ==
    /\ s.phase \in {"delivering"} \cup Having => s.message # 0
    /\ s.phase \in {"delivering", "posting", "pinning", "recording"} => s.version > 0

(* A sync names a message that it had, that the row has, or that was        *)
(* posted.                                                                  *)
LEMMA SyncsCarry ==
    ASSUME BoardTypeOK, PostsInv, BoardNext, NEW u \in BoardWorkers
    PROVE  /\ Carries(boardSync'[u])
           /\ \/ boardSync'[u].message \in {0, boardSync[u].message, boardRow.message}
              \/ boardPosts[boardSync'[u].message].shows > 0
              \/ boardPosts'[boardSync'[u].message].shows > 0
<1> DEFINE Goal == /\ Carries(boardSync'[u])
                   /\ \/ boardSync'[u].message \in {0, boardSync[u].message, boardRow.message}
                      \/ boardPosts[boardSync'[u].message].shows > 0
                      \/ boardPosts'[boardSync'[u].message].shows > 0
<1>1. boardSync \in [BoardWorkers -> SyncStates] /\ Carries(boardSync[u]) /\ boardRow \in BoardRows
  BY DEF BoardTypeOK, SyncStates, PostsInv, Carries, BoardRows
<1>2. CASE boardSync'[u] = boardSync[u]
  BY <1>1, <1>2
<1>3. CASE boardSync'[u] = NoSync
  BY <1>3 DEF NoSync, Carries, Having
<1>4. ASSUME NEW w \in BoardWorkers, SyncEnds(w) PROVE Goal
  BY <1>1, <1>2, <1>3, <1>4 DEF SyncEnds, GoesWith
<1>5. ASSUME NEW w \in BoardWorkers, NEW force \in BOOLEAN, Starts(w, force) PROVE Goal
  <2>1. u # w => boardSync'[u] = boardSync[u]
    BY <1>1, <1>5 DEF Starts, GoesWith
  <2>2. CASE u = w
    <3>1. boardSync'[u].phase = "asking" /\ boardSync'[u].message = 0
      BY <1>1, <1>5, <2>2 DEF Starts, GoesWith, NoSync
    <3> QED BY <3>1 DEF Carries, Having
  <2> QED BY <1>2, <2>1, <2>2
<1>6. ASSUME NEW w \in BoardWorkers, NEW phase, Goes(w, phase),
             phase \in {"delivering"} \cup Having => boardSync[w].message # 0,
             phase \in {"delivering", "posting", "pinning", "recording"} => boardSync[w].version > 0
      PROVE  Goal
  <2>1. u # w => boardSync'[u] = boardSync[u]
    BY <1>1, <1>6 DEF Goes
  <2>2. u = w => boardSync'[u].phase = phase /\ boardSync'[u].message = boardSync[u].message
                 /\ boardSync'[u].version = boardSync[u].version
    BY <1>1, <1>6 DEF Goes, SyncStates
  <2> QED BY <1>2, <1>6, <2>1, <2>2 DEF Carries
<1>7. ASSUME NEW w \in BoardWorkers, ClaimSync(w) PROVE Goal
  <2> DEFINE row == IF boardSync[w].force THEN Refreshed(boardRow) ELSE boardRow
             m == row.message
             d == row.digest
  <2>1. m = boardRow.message
    BY <1>1 DEF Refreshed, BoardRows
  <2>2. SyncEnds(w) \/ GoesWith(w, [boardSync[w] EXCEPT !.phase = "loading", !.message = m, !.digest = d, !.lead = 2])
    BY <1>7 DEF ClaimSync
  <2> HIDE DEF row, m, d
  <2>3. ASSUME u = w, GoesWith(w, [boardSync[w] EXCEPT !.phase = "loading", !.message = m, !.digest = d, !.lead = 2])
        PROVE Goal
    <3>1. boardSync'[u].phase = "loading" /\ boardSync'[u].message = m
      BY <1>1, <2>3 DEF GoesWith, SyncStates
    <3> QED BY <2>1, <3>1 DEF Carries, Having
  <2>4. ASSUME u # w, GoesWith(w, [boardSync[w] EXCEPT !.phase = "loading", !.message = m, !.digest = d, !.lead = 2])
        PROVE Goal
    BY <1>1, <1>2, <2>4 DEF GoesWith
  <2> QED BY <1>4, <2>2, <2>3, <2>4
<1>8. ASSUME NEW w \in BoardWorkers, LoadBoard(w) PROVE Goal
  <2> DEFINE phase == IF boardSync[w].message = 0 THEN "posting" ELSE "delivering"
             new == [boardSync[w] EXCEPT !.phase = phase, !.version = siteVersion]
  <2>1. siteVersion > 0
    BY <1>8, BoardBounds DEF LoadBoard, PostsInv, At, BoardTypeOK, Versions
  <2>2. Goes(w, "confirming") \/ Goes(w, "failing") \/ GoesWith(w, new)
    BY <1>8 DEF LoadBoard
  <2>3. new.phase = phase /\ new.version = siteVersion /\ new.message = boardSync[w].message
    BY <1>1 DEF SyncStates
  <2>4. phase \notin Having /\ (phase = "delivering" => boardSync[w].message # 0)
    BY DEF Having
  <2> HIDE DEF phase, new
  <2>5. CASE GoesWith(w, new)
    <3>1. u = w => boardSync'[u] = new
      BY <1>1, <2>5 DEF GoesWith
    <3>2. u # w => boardSync'[u] = boardSync[u]
      BY <1>1, <2>5 DEF GoesWith
    <3> QED BY <1>2, <2>1, <2>3, <2>4, <3>1, <3>2 DEF Carries
  <2> QED BY <1>6, <2>2, <2>5 DEF Having
<1>9. ASSUME NEW w \in BoardWorkers, PostBoard(w) PROVE Goal
  <2>1. boardSync[w].version > 0
    BY <1>9 DEF PostBoard, At, PostsInv
  <2>2. \/ Goes(w, "failing")
        \/ \E m \in BoardIds : /\ GoesWith(w, [boardSync[w] EXCEPT !.phase = "pinning", !.message = m])
                               /\ boardPosts[m].shows > 0 \/ boardPosts'[m].shows > 0
    <3>1. ASSUME NextBoard \in BoardIds, boardPosts' = Posting(w) PROVE boardPosts'[NextBoard].shows > 0
      BY <2>1, <3>1 DEF Posting, BoardTypeOK
    <3>2. ASSUME NEW m \in BoardIds, boardPosts[m].alive PROVE boardPosts[m].shows > 0
      BY <3>2, BoardBounds DEF PostsInv, NotPosted, BoardTypeOK, Versions
    <3> QED BY <1>9, <3>1, <3>2 DEF PostBoard
  <2>3. ASSUME NEW m \in BoardIds, GoesWith(w, [boardSync[w] EXCEPT !.phase = "pinning", !.message = m]),
               boardPosts[m].shows > 0 \/ boardPosts'[m].shows > 0
        PROVE Goal
    <3>1. u # w => boardSync'[u] = boardSync[u]
      BY <1>1, <2>3 DEF GoesWith
    <3>2. u = w => boardSync'[u].phase = "pinning" /\ boardSync'[u].message = m /\ boardSync'[u].version = boardSync[u].version
      BY <1>1, <2>3 DEF GoesWith, SyncStates
    <3>3. m # 0
      BY BoardBounds DEF BoardIds
    <3> QED BY <1>2, <2>1, <2>3, <3>1, <3>2, <3>3 DEF Carries, Having
  <2> QED BY <1>6, <2>2, <2>3 DEF Having
<1>10. ASSUME NEW w \in BoardWorkers, CompleteSync(w) PROVE Goal
  <2>1. SyncEnds(w) \/ boardSync'[u] = NoSync \/ boardSync'[u] = [boardSync[u] EXCEPT !.lead = Behind(@)]
    BY <1>10 DEF CompleteSync
  <2>2. ASSUME boardSync'[u] = [boardSync[u] EXCEPT !.lead = Behind(@)] PROVE Goal
    <3>1. boardSync'[u].phase = boardSync[u].phase /\ boardSync'[u].message = boardSync[u].message
          /\ boardSync'[u].version = boardSync[u].version
      BY <1>1, <2>2 DEF SyncStates
    <3> QED BY <1>1, <3>1 DEF Carries
  <2> QED BY <1>3, <1>4, <2>1, <2>2
<1>11. ASSUME MinutePasses PROVE Goal
  <2>1. boardSync'[u] = NoSync \/ boardSync'[u] = [boardSync[u] EXCEPT !.age = Older(@), !.digest.age = Older(@)]
    BY <1>11 DEF MinutePasses
  <2>2. ASSUME boardSync'[u] = [boardSync[u] EXCEPT !.age = Older(@), !.digest.age = Older(@)] PROVE Goal
    <3>1. boardSync'[u].phase = boardSync[u].phase /\ boardSync'[u].message = boardSync[u].message
          /\ boardSync'[u].version = boardSync[u].version
      BY <1>1, <2>2 DEF SyncStates
    <3> QED BY <1>1, <3>1 DEF Carries
  <2> QED BY <1>3, <2>1, <2>2
<1>12. ASSUME NEW w \in BoardWorkers, SyncStep(w) PROVE Goal
  <2>1. CASE RequestSync(w)
    BY <1>6, <2>1 DEF RequestSync, Having
  <2>2. CASE EditBoard(w)
    <3>1. boardSync[w].message # 0 /\ boardSync[w].version > 0
      BY <2>2 DEF EditBoard, At, PostsInv
    <3> QED BY <1>6, <2>2, <3>1 DEF EditBoard, Having
  <2>3. CASE PinBoard(w)
    <3>1. boardSync[w].message # 0 /\ boardSync[w].version > 0
      BY <2>3 DEF PinBoard, At, PostsInv, Having
    <3> QED BY <1>6, <2>3, <3>1 DEF PinBoard, Having
  <2>4. CASE RemoveBoard(w)
    BY <1>6, <2>4 DEF RemoveBoard, Having
  <2>5. CASE CompleteUnchanged(w) \/ FailSync(w)
    BY <1>4, <2>5 DEF CompleteUnchanged, FailSync
  <2> HIDE DEF Goal
  <2> QED BY <1>7, <1>8, <1>9, <1>10, <1>12, <2>1, <2>2, <2>3, <2>4, <2>5 DEF SyncStep
<1>13. ASSUME NEW w \in BoardWorkers, SyncAfterMutation(w) \/ PressRefresh(w) \/ CronSync(w) \/ WorkerStops(w) PROVE Goal
  BY <1>4, <1>5, <1>13 DEF SyncAfterMutation, PressRefresh, CronSync, WorkerStops
<1> HIDE DEF Goal
<1>14. ASSUME UNCHANGED boardSync PROVE Goal
  BY <1>2, <1>14 DEF Goal
<1>15. \/ MinutePasses \/ UNCHANGED boardSync
       \/ \E w \in BoardWorkers : SyncStep(w)
       \/ \E w \in BoardWorkers : SyncAfterMutation(w) \/ PressRefresh(w) \/ CronSync(w) \/ WorkerStops(w)
  BY DEF BoardNext, SiteChanges, SomebodyDeletes
<1>16. Goal
  BY <1>11, <1>12, <1>13, <1>14, <1>15
<1> QED BY <1>16 DEF Goal

(* Every step keeps the names of the messages.                              *)
LEMMA PostsKept ==
    ASSUME BoardTypeOK, PostsInv, BoardNext
    PROVE  PostsInv'
<1>1. boardRow' \in BoardRows /\ boardSync' \in [BoardWorkers -> SyncStates] /\ boardRow \in BoardRows
      /\ boardSync \in [BoardWorkers -> SyncStates]
  BY BoardRowTypes, SyncTypes DEF BoardTypeOK, BoardRows, SyncStates
<1>2. \A m \in BoardIds : boardPosts[m].shows > 0 => boardPosts'[m].shows > 0
  BY PostsMove
<1>3. \A m \in BoardIds : boardPosts'[m].shows = 0 => boardPosts'[m] = NotPosted
  BY PostsMove
<1>4. \A m \in BoardIds : \A k \in 1 .. m : boardPosts'[m].shows > 0 => boardPosts'[k].shows > 0
  <2> SUFFICES ASSUME NEW m \in BoardIds, NEW k \in 1 .. m, boardPosts'[m].shows > 0 PROVE boardPosts'[k].shows > 0
    OBVIOUS
  <2>1. k \in BoardIds /\ m # 0
    BY BoardBounds DEF BoardIds
  <2>2. CASE boardPosts[m].shows > 0
    BY <1>2, <2>1, <2>2 DEF PostsInv, IsPosted
  <2>3. CASE ~(boardPosts[m].shows > 0)
    <3>1. boardPosts[m].shows = 0
      BY <2>3, BoardBounds DEF BoardTypeOK, Versions
    <3>2. m = NextBoard
      BY <3>1, PostsMove
    <3>3. k < m \/ k = m
      BY BoardBounds DEF BoardIds
    <3>4. k < m => boardPosts[k].shows > 0
      BY <2>1, <3>2, NextBoardIsFresh
    <3> QED BY <1>2, <2>1, <3>3, <3>4
  <2> QED BY <2>2, <2>3
<1>5. boardRow'.message # 0 => boardPosts'[boardRow'.message].shows > 0
  <2>1. boardRow'.message = boardRow.message \/ \E w \in BoardWorkers : boardRow'.message = boardSync[w].message
    BY RowMessageMoves
  <2>2. boardRow'.message # 0 => boardPosts[boardRow'.message].shows > 0 /\ boardRow'.message \in BoardIds
    BY <1>1, <2>1 DEF PostsInv, IsPosted, BoardRows
  <2> QED BY <1>2, <2>2
<1>6. ASSUME NEW w \in BoardWorkers, boardSync'[w].message # 0 PROVE boardPosts'[boardSync'[w].message].shows > 0
  <2>1. boardSync'[w].message \in BoardIds
    BY <1>1, <1>6 DEF SyncStates
  <2>2. \/ boardSync'[w].message \in {boardSync[w].message, boardRow.message}
        \/ boardPosts[boardSync'[w].message].shows > 0
        \/ boardPosts'[boardSync'[w].message].shows > 0
    BY <1>6, SyncsCarry
  <2> QED BY <1>2, <1>6, <2>1, <2>2 DEF PostsInv, IsPosted
<1>7. \A w \in BoardWorkers : Carries(boardSync'[w])
  BY SyncsCarry
<1>8. boardHooks' <= siteVersion'
  BY BoardTypes DEF PostsInv
<1>9. \A m \in BoardIds : m # 0
  BY BoardBounds DEF BoardIds
<1> QED BY <1>3, <1>4, <1>5, <1>6, <1>7, <1>8, QuietAtFirst DEF PostsInv, IsPosted, Carries, At

(* A message that was deleted stays so.                                     *)
LEMMA DeadStaysDead ==
    ASSUME BoardTypeOK, PostsInv, BoardNext, NEW m \in BoardIds, boardPosts[m].shows > 0, ~boardPosts[m].alive
    PROVE  ~boardPosts'[m].alive
<1>1. /\ boardPosts \in [BoardIds -> PostStates] /\ boardSync \in [BoardWorkers -> SyncStates]
  BY DEF BoardTypeOK, PostStates, SyncStates
<1>2. CASE UNCHANGED boardPosts
  BY <1>2
<1>3. ASSUME NEW w \in BoardWorkers, NEW k, boardPosts' = Showing(k, w)
      PROVE  ~boardPosts'[m].alive
  BY <1>1, <1>3 DEF Showing, PostStates
<1>4. ASSUME NEW w \in BoardWorkers, NextBoard \in BoardIds, boardPosts' = Posting(w)
      PROVE  ~boardPosts'[m].alive
  <2>1. m # NextBoard
    BY <1>4, NextBoardIsFresh
  <2> QED BY <1>1, <1>4, <2>1 DEF Posting
<1>5. ASSUME NEW k, boardPosts' = Removed(k) \/ boardPosts' = [boardPosts EXCEPT ![k].pinned = TRUE]
      PROVE  ~boardPosts'[m].alive
  BY <1>1, <1>5 DEF Removed, PostStates
<1>6. ASSUME boardPosts' = [k \in BoardIds |-> [boardPosts[k] EXCEPT !.lead = Behind(@)]]
      PROVE  ~boardPosts'[m].alive
  BY <1>1, <1>6 DEF PostStates
<1>7. ASSUME NEW w \in BoardWorkers, SyncStep(w)
      PROVE  ~boardPosts'[m].alive
  BY <1>2, <1>3, <1>4, <1>5, <1>6, <1>7 DEF SyncStep, RequestSync, ClaimSync, LoadBoard, EditBoard, PostBoard, PinBoard,
     RemoveBoard, CompleteSync, CompleteUnchanged, FailSync
<1>8. ASSUME NEW k \in BoardIds, SomebodyDeletes(k)
      PROVE  ~boardPosts'[m].alive
  BY <1>5, <1>8 DEF SomebodyDeletes
<1> QED BY <1>2, <1>7, <1>8 DEF BoardNext, SiteChanges, MinutePasses, SyncAfterMutation, PressRefresh, CronSync, WorkerStops

(* What the steps of a sync do to it.                                       *)
Same(w) == /\ boardSync'[w].message = boardSync[w].message /\ boardSync'[w].version = boardSync[w].version
           /\ boardSync'[w].lead = boardSync[w].lead /\ boardSync'[w].age = boardSync[w].age
Alone(w) == \A u \in BoardWorkers : u # w => boardSync'[u] = boardSync[u]

(* A phase of one sync changes,                                             *)
LEMMA GoesIs ==
    ASSUME BoardTypeOK, NEW w \in BoardWorkers, NEW phase, Goes(w, phase)
    PROVE  boardSync'[w].phase = phase /\ Same(w) /\ Alone(w)
<1>1. boardSync \in [BoardWorkers -> SyncStates]
  BY DEF BoardTypeOK, SyncStates
<1> QED BY <1>1 DEF Goes, SyncStates, Same, Alone

(* or all of it.                                                            *)
LEMMA GoesWithIs ==
    ASSUME BoardTypeOK, NEW w \in BoardWorkers, NEW s, GoesWith(w, s)
    PROVE  boardSync'[w] = s /\ Alone(w)
BY DEF BoardTypeOK, GoesWith, Alone

(* What a load,                                                             *)
LEMMA LoadIs ==
    ASSUME BoardTypeOK, NEW w \in BoardWorkers, LoadBoard(w)
    PROVE  /\ Alone(w) /\ boardSync'[w].message = boardSync[w].message /\ boardSync'[w].lead = boardSync[w].lead
           /\ boardSync'[w].age = boardSync[w].age
           /\ \/ boardSync'[w].phase = "posting" /\ boardSync[w].message = 0 /\ UNCHANGED boardFaults
              \/ boardSync'[w].phase = "delivering" /\ UNCHANGED boardFaults
              \/ boardSync'[w].phase = "confirming" /\ boardSync[w].message # 0 /\ UNCHANGED boardFaults
              \/ boardSync'[w].phase = "failing" /\ BoardFault
<1>1. boardSync[w] \in SyncStates
  BY DEF BoardTypeOK, SyncStates
<1> DEFINE phase == IF boardSync[w].message = 0 THEN "posting" ELSE "delivering"
           new == [boardSync[w] EXCEPT !.phase = phase, !.version = siteVersion]
<1>2. \/ GoesWith(w, new) /\ UNCHANGED boardFaults
      \/ Goes(w, "confirming") /\ boardSync[w].message # 0 /\ UNCHANGED boardFaults
      \/ Goes(w, "failing") /\ BoardFault
  BY DEF LoadBoard, MaySkip
<1>3. new.phase = phase /\ new.message = boardSync[w].message /\ new.lead = boardSync[w].lead /\ new.age = boardSync[w].age
  BY <1>1 DEF SyncStates
<1>4. (phase = "posting" /\ boardSync[w].message = 0) \/ phase = "delivering"
  OBVIOUS
<1> HIDE DEF phase, new
<1>5. CASE GoesWith(w, new) /\ UNCHANGED boardFaults
  BY <1>3, <1>4, <1>5, GoesWithIs
<1>6. CASE Goes(w, "confirming") /\ boardSync[w].message # 0 /\ UNCHANGED boardFaults
  BY <1>6, GoesIs DEF Same
<1>7. CASE Goes(w, "failing") /\ BoardFault
  BY <1>7, GoesIs DEF Same
<1> QED BY <1>2, <1>5, <1>6, <1>7

(* and a post may lead to.                                                  *)
LEMMA PostIs ==
    ASSUME BoardTypeOK, NEW w \in BoardWorkers, PostBoard(w)
    PROVE  /\ Alone(w) /\ boardSync'[w].version = boardSync[w].version /\ boardSync'[w].lead = boardSync[w].lead
           /\ boardSync'[w].age = boardSync[w].age
           /\ \/ /\ NextBoard \in BoardIds /\ boardPosts' = Posting(w)
                 /\ boardSync'[w].phase = "pinning" /\ boardSync'[w].message = NextBoard /\ UNCHANGED boardFaults
              \/ /\ NextBoard \in BoardIds /\ boardPosts' = Posting(w) /\ boardSync'[w].phase = "failing" /\ BoardFault
              \/ /\ \E m \in BoardIds : /\ boardPosts[m].alive /\ boardSync'[w].phase = "pinning"
                                         /\ boardSync'[w].message = m
                 /\ UNCHANGED <<boardPosts, boardFaults>>
              \/ boardSync'[w].phase = "failing" /\ BoardFault /\ UNCHANGED boardPosts
<1>1. boardSync[w] \in SyncStates
  BY DEF BoardTypeOK, SyncStates
<1> DEFINE new(m) == [boardSync[w] EXCEPT !.phase = "pinning", !.message = m]
<1>2. \A m : /\ new(m).phase = "pinning" /\ new(m).message = m /\ new(m).version = boardSync[w].version
             /\ new(m).lead = boardSync[w].lead /\ new(m).age = boardSync[w].age
  BY <1>1 DEF SyncStates
<1>3. \/ NextBoard \in BoardIds /\ boardPosts' = Posting(w) /\ GoesWith(w, new(NextBoard)) /\ UNCHANGED boardFaults
      \/ NextBoard \in BoardIds /\ boardPosts' = Posting(w) /\ Goes(w, "failing") /\ BoardFault
      \/ \E m \in BoardIds : boardPosts[m].alive /\ GoesWith(w, new(m)) /\ UNCHANGED <<boardPosts, boardFaults>>
      \/ Goes(w, "failing") /\ BoardFault /\ UNCHANGED boardPosts
  BY DEF PostBoard
<1> HIDE DEF new
<1>4. ASSUME NEW m, GoesWith(w, new(m)) PROVE boardSync'[w] = new(m) /\ Alone(w)
  BY <1>4, GoesWithIs
<1>5. ASSUME Goes(w, "failing") PROVE boardSync'[w].phase = "failing" /\ Same(w) /\ Alone(w)
  BY <1>5, GoesIs
<1>6. CASE NextBoard \in BoardIds /\ boardPosts' = Posting(w) /\ GoesWith(w, new(NextBoard)) /\ UNCHANGED boardFaults
  BY <1>2, <1>4, <1>6
<1>7. CASE NextBoard \in BoardIds /\ boardPosts' = Posting(w) /\ Goes(w, "failing") /\ BoardFault
  BY <1>5, <1>7 DEF Same
<1>8. ASSUME NEW m \in BoardIds, boardPosts[m].alive, GoesWith(w, new(m)), UNCHANGED <<boardPosts, boardFaults>>
      PROVE  /\ Alone(w) /\ boardSync'[w].version = boardSync[w].version /\ boardSync'[w].lead = boardSync[w].lead
             /\ boardSync'[w].age = boardSync[w].age /\ boardSync'[w].phase = "pinning" /\ boardSync'[w].message = m
  BY <1>2, <1>4, <1>8
<1>9. CASE Goes(w, "failing") /\ BoardFault /\ UNCHANGED boardPosts
  BY <1>5, <1>9 DEF Same
<1> QED BY <1>3, <1>6, <1>7, <1>8, <1>9

(* A sync with the claim that does not move goes on holding it rightly.     *)
LEMMA HolderGoesOn ==
    ASSUME BoardTypeOK, PostsInv, LeaseInv, BoardNext, NEW w \in BoardWorkers,
           boardRow' = boardRow, boardSync'[w] = boardSync[w], SyncWorks(w)', StillHeld(w)'
    PROVE  HoldsRightly(w)'
<1>1. SyncWorks(w) /\ StillHeld(w) /\ HoldsRightly(w)
  BY DEF SyncWorks, StillHeld, LeaseInv
<1>2. ~IsAlive(boardRow.message) => ~IsAlive(boardRow.message)'
  BY DeadStaysDead DEF IsAlive, PostsInv, IsPosted, BoardTypeOK
<1> QED BY <1>1, <1>2 DEF HoldsRightly

(* Every step keeps the claim right.                                        *)
LEMMA LeaseKept ==
    ASSUME BoardTypeOK, PostsInv, LeaseInv, BoardNext
    PROVE  LeaseInv'
<1> SUFFICES ASSUME NEW w \in BoardWorkers, SyncWorks(w)', StillHeld(w)' PROVE HoldsRightly(w)'
  BY DEF LeaseInv
<1>1. boardRow \in BoardRows /\ boardSync \in [BoardWorkers -> SyncStates] /\ boardRow' \in BoardRows
      /\ boardSync' \in [BoardWorkers -> SyncStates]
  BY BoardRowTypes, SyncTypes DEF BoardTypeOK, BoardRows, SyncStates
<1>2. boardSync'[w] # NoSync /\ boardSync'[w].phase \in Working /\ boardRow'.status = "SYNCING" /\ boardRow'.claim = w
  BY DEF SyncWorks, StillHeld, NoSync, Working
<1>3. CASE MinutePasses
  <2> DEFINE leased == IF boardRow.status = "SYNCING" THEN Older(boardRow.leased) ELSE boardRow.leased
             digest == [boardRow.digest EXCEPT !.age = Older(@)]
             now == [boardSync[w].digest EXCEPT !.age = Older(@)]
             age == Older(boardSync[w].age)
  <2>2. boardRow' = [boardRow EXCEPT !.digest = digest, !.due = TRUE, !.leased = leased]
    BY <1>3 DEF MinutePasses
  <2>1. boardSync'[w] = IF At(w, "idle") THEN NoSync
                        ELSE [boardSync[w] EXCEPT !.age = Older(@), !.digest.age = Older(@)]
    BY <1>3 DEF MinutePasses
  <2>3. boardSync'[w] = [boardSync[w] EXCEPT !.age = age, !.digest = now]
    BY <1>2, <2>1
  <2> HIDE DEF leased, digest, now, age
  <2>4. boardRow'.status = boardRow.status /\ boardRow'.claim = boardRow.claim /\ boardRow'.message = boardRow.message
        /\ boardRow'.leased = leased
    BY <1>1, <2>2 DEF BoardRows
  <2>5. boardSync'[w].phase = boardSync[w].phase /\ boardSync'[w].message = boardSync[w].message
        /\ boardSync'[w].lead = boardSync[w].lead /\ boardSync'[w].age = age
    BY <1>1, <2>3 DEF SyncStates
  <2>6. HoldsRightly(w) /\ boardRow.status = "SYNCING"
    BY <1>2, <2>4, <2>5 DEF SyncWorks, StillHeld, LeaseInv
  <2>7. leased <= age
    <3>1. boardRow.leased \in Ages /\ boardSync[w].age \in Ages /\ boardRow.leased <= boardSync[w].age
      BY <1>1, <2>6 DEF HoldsRightly, BoardRows, SyncStates
    <3> QED BY <2>6, <3>1 DEF leased, age, Older, Ages
  <2>8. boardPosts' = boardPosts
    BY <1>3 DEF MinutePasses
  <2> QED BY <2>4, <2>5, <2>6, <2>7, <2>8 DEF HoldsRightly, IsAlive
<1>4. ASSUME NEW u \in BoardWorkers, SyncEnds(u) PROVE u # w /\ boardSync'[w] = boardSync[w]
  BY <1>1, <1>2, <1>4 DEF SyncEnds, GoesWith
<1>5. ASSUME NEW u \in BoardWorkers, ClaimSync(u) PROVE HoldsRightly(w)'
  <2> DEFINE row == IF boardSync[u].force THEN Refreshed(boardRow) ELSE boardRow
             m == row.message
             d == row.digest
  <2>1. row \in BoardRows /\ m = boardRow.message /\ (row.status = "SYNCING" => row = boardRow)
    BY <1>1 DEF Refreshed, BoardRows
  <2>2. \/ /\ boardRow' = [row EXCEPT !.status = "SYNCING", !.claim = u, !.leased = 0]
           /\ GoesWith(u, [boardSync[u] EXCEPT !.phase = "loading", !.message = m, !.digest = d, !.lead = 2])
        \/ boardRow' = row /\ SyncEnds(u)
    BY <1>5 DEF ClaimSync
  <2> HIDE DEF row, m, d
  <2>3. CASE boardRow' = row /\ SyncEnds(u)
    <3>1. boardRow' = boardRow /\ boardSync'[w] = boardSync[w]
      BY <1>2, <1>4, <2>1, <2>3
    <3> QED BY <3>1, HolderGoesOn
  <2>4. CASE /\ boardRow' = [row EXCEPT !.status = "SYNCING", !.claim = u, !.leased = 0]
             /\ GoesWith(u, [boardSync[u] EXCEPT !.phase = "loading", !.message = m, !.digest = d, !.lead = 2])
    <3>1. u = w /\ boardRow'.leased = 0 /\ boardRow'.message = row.message
      BY <1>2, <2>1, <2>4 DEF BoardRows
    <3>2. boardSync'[w].phase = "loading" /\ boardSync'[w].message = m /\ boardSync'[w].lead = 2
      BY <1>1, <2>4, <3>1 DEF GoesWith, SyncStates
    <3>3. boardSync'[w].age \in Ages /\ m = row.message
      BY <1>1 DEF SyncStates, m
    <3> QED BY <3>1, <3>2, <3>3 DEF HoldsRightly, Having, Ages
  <2> QED BY <2>2, <2>3, <2>4
<1>6. ASSUME NEW u \in BoardWorkers, RequestSync(u) PROVE HoldsRightly(w)'
  <2>1. boardRow' = boardRow
    BY <1>1, <1>2, <1>6 DEF RequestSync, Refreshed, BoardRows
  <2>2. u # w /\ boardSync'[w] = boardSync[w]
    BY <1>1, <1>2, <1>6 DEF RequestSync, Goes, SyncStates, Working
  <2> QED BY <2>1, <2>2, HolderGoesOn
<1>7. ASSUME NEW u \in BoardWorkers, CompleteSync(u) \/ CompleteUnchanged(u) \/ FailSync(u) PROVE HoldsRightly(w)'
  <2>1. ~StillHeld(u)
    <3>1. \A m, d : [boardRow EXCEPT !.status = "SYNCED", !.due = TRUE, !.claim = 0, !.leased = 0,
                                     !.message = m, !.digest = d].status = "SYNCED"
      BY <1>1 DEF BoardRows
    <3>2. [boardRow EXCEPT !.status = "SYNCED", !.due = TRUE, !.claim = 0, !.leased = 0].status = "SYNCED"
      BY <1>1 DEF BoardRows
    <3>3. [boardRow EXCEPT !.status = "RETRY", !.due = FALSE, !.claim = 0, !.leased = 0].status = "RETRY"
      BY <1>1 DEF BoardRows
    <3>4. CASE CompleteSync(u)
      BY <1>2, <3>1, <3>4 DEF CompleteSync, Recorded
    <3>5. CASE CompleteUnchanged(u)
      BY <1>2, <3>2, <3>5 DEF CompleteUnchanged
    <3>6. CASE FailSync(u)
      BY <1>2, <3>3, <3>6 DEF FailSync, Failed
    <3> QED BY <1>7, <3>4, <3>5, <3>6
  <2>2. boardRow' = boardRow /\ SyncEnds(u)
    BY <1>7, <2>1 DEF CompleteSync, CompleteUnchanged, FailSync
  <2> QED BY <1>4, <2>2, HolderGoesOn
<1>8. ASSUME NEW u \in BoardWorkers, LoadBoard(u) \/ EditBoard(u) \/ PostBoard(u) \/ PinBoard(u) \/ RemoveBoard(u)
      PROVE HoldsRightly(w)'
  <2>1. boardRow' = boardRow
    BY <1>8 DEF LoadBoard, EditBoard, PostBoard, PinBoard, RemoveBoard
  <2>2. u # w => boardSync'[w] = boardSync[w]
    BY <1>1, <1>8 DEF LoadBoard, EditBoard, PostBoard, PinBoard, RemoveBoard, Goes, GoesWith
  <2>3. CASE u = w
    <3>1. SyncWorks(w) /\ StillHeld(w)
      BY <1>2, <1>8, <2>1, <2>3 DEF LoadBoard, EditBoard, PostBoard, PinBoard, RemoveBoard, At, SyncWorks, Working, StillHeld
    <3>2. HoldsRightly(w)
      BY <3>1 DEF LeaseInv
    <3>3. ~IsAlive(boardRow.message) => ~IsAlive(boardRow.message)'
      BY <2>1, DeadStaysDead DEF IsAlive, PostsInv, IsPosted, BoardTypeOK
    <3>4. boardSync'[w].lead = boardSync[w].lead /\ boardSync'[w].age = boardSync[w].age
      <4>1. CASE LoadBoard(u)
        BY <2>3, <4>1, LoadIs
      <4>2. CASE PostBoard(u)
        BY <2>3, <4>2, PostIs
      <4>3. CASE EditBoard(u) \/ PinBoard(u) \/ RemoveBoard(u)
        BY <1>1, <2>3, <4>3 DEF EditBoard, PinBoard, RemoveBoard, Goes, SyncStates
      <4> QED BY <1>8, <4>1, <4>2, <4>3
    <3>5. CASE LoadBoard(u)
      <4>1. boardSync'[w].message = boardSync[w].message /\ boardPosts' = boardPosts
        BY <2>3, <3>5, LoadIs DEF LoadBoard
      <4>2. \/ boardSync'[w].phase \in {"confirming", "failing", "delivering"}
            \/ boardSync'[w].phase = "posting" /\ boardSync[w].message = 0
        BY <2>3, <3>5, LoadIs
      <4>3. boardSync[w].message = boardRow.message
        BY <2>3, <3>2, <3>5 DEF LoadBoard, At, HoldsRightly
      <4> QED BY <2>1, <3>2, <3>4, <4>1, <4>2, <4>3 DEF HoldsRightly, Having, IsAlive
    <3>6. CASE EditBoard(u)
      <4>1. boardSync'[w].message = boardSync[w].message
        BY <1>1, <2>3, <3>6 DEF EditBoard, Goes, SyncStates
      <4>2. boardSync[w].message = boardRow.message /\ boardSync[w].message # 0
        BY <2>3, <3>2, <3>6 DEF EditBoard, At, HoldsRightly, PostsInv
      <4>3. \/ boardSync'[w].phase \in {"recording", "failing"}
            \/ boardSync'[w].phase = "posting" /\ ~boardPosts[boardSync[w].message].alive
        BY <1>1, <2>3, <3>6 DEF EditBoard, Goes, SyncStates
      <4>4. boardSync'[w].phase = "posting" => ~IsAlive(boardRow.message)'
        BY <3>3, <4>2, <4>3 DEF IsAlive
      <4> QED BY <2>1, <3>2, <3>4, <4>1, <4>2, <4>3, <4>4 DEF HoldsRightly
    <3>7. CASE PostBoard(u)
      <4>1. ~IsAlive(boardRow.message)'
        BY <2>3, <3>2, <3>3, <3>7 DEF PostBoard, At, HoldsRightly
      <4>2. boardSync'[w].phase \in {"pinning", "failing"}
        BY <2>3, <3>7, PostIs
      <4> QED BY <2>1, <3>2, <3>4, <4>1, <4>2 DEF HoldsRightly, Having
    <3>8. CASE PinBoard(u) \/ RemoveBoard(u)
      <4>1. boardSync'[w].message = boardSync[w].message /\ boardSync'[w].phase \in {"recording", "removing", "failing"}
        BY <1>1, <2>3, <3>8 DEF PinBoard, RemoveBoard, Goes, SyncStates
      <4>2. boardSync[w].message = boardRow.message \/ ~IsAlive(boardRow.message)
        BY <2>3, <3>2, <3>8 DEF PinBoard, RemoveBoard, At, HoldsRightly, Having
      <4> QED BY <2>1, <3>2, <3>3, <3>4, <4>1, <4>2 DEF HoldsRightly, Having
    <3> QED BY <1>8, <3>5, <3>6, <3>7, <3>8
  <2> QED BY <2>1, <2>2, <2>3, HolderGoesOn
<1>9. ASSUME NEW u \in BoardWorkers, SyncAfterMutation(u) \/ PressRefresh(u) \/ CronSync(u) \/ WorkerStops(u)
      PROVE HoldsRightly(w)'
  <2>1. boardRow' = boardRow
    BY <1>9 DEF SyncAfterMutation, PressRefresh, CronSync, WorkerStops
  <2>2. u # w /\ boardSync'[w] = boardSync[w]
    <3>1. CASE WorkerStops(u)
      BY <1>4, <3>1 DEF WorkerStops
    <3>2. ASSUME NEW force \in BOOLEAN, Starts(u, force) PROVE u # w /\ boardSync'[w] = boardSync[w]
      <4>1. [NoSync EXCEPT !.phase = "asking", !.force = force].phase = "asking"
        BY DEF NoSync
      <4> QED BY <1>1, <1>2, <3>2, <4>1 DEF Starts, GoesWith, Working
    <3> QED BY <1>9, <3>1, <3>2 DEF SyncAfterMutation, PressRefresh, CronSync
  <2> QED BY <2>1, <2>2, HolderGoesOn
<1>10. CASE SiteChanges \/ \E m \in BoardIds : SomebodyDeletes(m)
  BY <1>10, HolderGoesOn DEF SiteChanges, SomebodyDeletes
<1> QED BY <1>3, <1>5, <1>6, <1>7, <1>8, <1>9, <1>10 DEF BoardNext, SyncStep

(* What a step may do to what is owed: nothing new; one thing more, for a   *)
(* fault; one thing instead of an overdue lease, or of a stray sync.        *)
NothingNew == LooseBoards' \subseteq LooseBoards /\ LooseSyncs' \subseteq LooseSyncs /\ (Overdue' => Overdue)
AFault == /\ boardFaults' = boardFaults + 1 /\ LooseSyncs' \subseteq LooseSyncs
          /\ \/ LooseBoards' \subseteq LooseBoards
             \/ (Overdue' => Overdue) /\ \E m \in BoardIds : LooseBoards' \subseteq LooseBoards \cup {m}
LeaseLost == /\ Overdue /\ ~Overdue'
             /\ \/ /\ LooseSyncs' \subseteq LooseSyncs
                   /\ \E m \in BoardIds : LooseBoards' \subseteq LooseBoards \cup {m}
                \/ /\ LooseBoards' \subseteq LooseBoards
                   /\ \E w \in BoardWorkers : LooseSyncs' \subseteq LooseSyncs \cup {w}
StrayPost == /\ Overdue' => Overdue
             /\ \E w \in LooseSyncs : LooseSyncs' \subseteq LooseSyncs \ {w}
             /\ \E m \in BoardIds : LooseBoards' \subseteq LooseBoards \cup {m}
Owed == NothingNew \/ AFault \/ LeaseLost \/ StrayPost

(* Counting: a set with at most one more member,                            *)
LEMMA OneMoreMember ==
    ASSUME NEW S, NEW T, NEW x, IsFiniteSet(S), T \subseteq S \cup {x}
    PROVE  IsFiniteSet(T) /\ Cardinality(T) <= Cardinality(S) + 1
<1> DEFINE n == Cardinality(S)
           k == Cardinality(S \cup {x})
<1>2. IsFiniteSet(S \cup {x}) /\ k = IF x \in S THEN n ELSE n + 1
  BY FS_AddElement
<1>3. n \in Nat
  BY FS_CardinalityType
<1> HIDE DEF n, k
<1>4. k \in Nat /\ k <= n + 1
  BY <1>2, <1>3
<1>1. IsFiniteSet(S \cup {x}) /\ Cardinality(S \cup {x}) \in Nat /\ Cardinality(S \cup {x}) <= Cardinality(S) + 1
  BY <1>2, <1>4 DEF n, k
<1> QED BY <1>1, <1>3, FS_Subset, FS_CardinalityType DEF n

(* a part of a set,                                                         *)
LEMMA FewerMembers ==
    ASSUME NEW S, NEW T, IsFiniteSet(S), T \subseteq S
    PROVE  IsFiniteSet(T) /\ Cardinality(T) \in Nat /\ Cardinality(S) \in Nat /\ Cardinality(T) <= Cardinality(S)
BY FS_Subset, FS_CardinalityType

(* and one without a member.                                                *)
LEMMA OneMemberLess ==
    ASSUME NEW S, NEW T, NEW x \in S, IsFiniteSet(S), T \subseteq S \ {x}
    PROVE  Cardinality(T) <= Cardinality(S) - 1
<1>1. IsFiniteSet(S \ {x}) /\ Cardinality(S \ {x}) = Cardinality(S) - 1
  BY FS_RemoveElement
<1> QED BY <1>1, FS_Subset, FS_CardinalityType

(* Such a step keeps the debts within the faults.                           *)
LEMMA DebtsAreKept ==
    ASSUME DebtInv, Owed, boardFaults \in Nat, boardFaults' \in {boardFaults, boardFaults + 1}
    PROVE  DebtInv'
<1>1. IsFiniteSet(BoardIds) /\ IsFiniteSet(BoardWorkers)
  BY FS_Interval, BoardBounds, BoardAssumption DEF BoardIds, BoardAssumption
<1>2. IsFiniteSet(LooseBoards) /\ IsFiniteSet(LooseSyncs) /\ IsFiniteSet(LooseBoards') /\ IsFiniteSet(LooseSyncs')
  BY <1>1, FS_Subset DEF LooseBoards, LooseSyncs
<1> DEFINE b == Cardinality(LooseBoards)
           s == Cardinality(LooseSyncs)
           o == IF Overdue THEN 1 ELSE 0
           nb == Cardinality(LooseBoards')
           ns == Cardinality(LooseSyncs')
           no == IF Overdue' THEN 1 ELSE 0
<1>3. b \in Nat /\ s \in Nat /\ nb \in Nat /\ ns \in Nat
  BY <1>2, FS_CardinalityType
<1>4. b + s + o <= boardFaults
  BY DEF DebtInv
<1>5. (LooseBoards' \subseteq LooseBoards => nb <= b) /\ (LooseSyncs' \subseteq LooseSyncs => ns <= s)
  BY <1>2, FewerMembers
<1>6. \A m : LooseBoards' \subseteq LooseBoards \cup {m} => nb <= b + 1
  BY <1>2, OneMoreMember
<1>7. \A w : LooseSyncs' \subseteq LooseSyncs \cup {w} => ns <= s + 1
  BY <1>2, OneMoreMember
<1>8. \A w \in LooseSyncs : LooseSyncs' \subseteq LooseSyncs \ {w} => ns <= s - 1
  BY <1>2, OneMemberLess
<1>9. (Overdue => o = 1) /\ (~Overdue => o = 0) /\ (Overdue' => no = 1) /\ (~Overdue' => no = 0)
  OBVIOUS
<1> HIDE DEF b, s, o, nb, ns, no
<1>10. nb + ns + no <= boardFaults'
  <2>1. CASE NothingNew
    BY <1>3, <1>4, <1>5, <1>9, <2>1 DEF NothingNew
  <2>2. CASE AFault
    BY <1>3, <1>4, <1>5, <1>6, <1>9, <2>2 DEF AFault
  <2>3. CASE LeaseLost
    <3>1. o = 1 /\ no = 0
      BY <1>9, <2>3 DEF LeaseLost
    <3>2. (ns <= s /\ nb <= b + 1) \/ (nb <= b /\ ns <= s + 1)
      BY <1>5, <1>6, <1>7, <2>3 DEF LeaseLost
    <3>3. boardFaults' \in Nat /\ boardFaults <= boardFaults'
      OBVIOUS
    <3> QED BY <1>3, <1>4, <3>1, <3>2, <3>3
  <2>4. CASE StrayPost
    BY <1>3, <1>4, <1>6, <1>8, <1>9, <2>4 DEF StrayPost
  <2> QED BY <2>1, <2>2, <2>3, <2>4 DEF Owed
<1> QED BY <1>10 DEF DebtInv, nb, ns, no

(* Where only one sync moves, and none of its own debts arises.             *)
LEMMA NothingNewIs ==
    ASSUME \A m \in BoardIds : IsAlive(m)' => IsAlive(m),
           boardRow'.message = boardRow.message,
           \A u \in BoardWorkers, m \in BoardIds : HasIt(u, m) /\ IsAlive(m)' => HasIt(u, m)',
           \A u \in BoardWorkers : boardSync'[u].phase \in Bringing /\ ~StillHeld(u)' =>
                                       boardSync[u].phase \in Bringing /\ ~StillHeld(u),
           Overdue' => Overdue
    PROVE  NothingNew
<1>1. LooseBoards' \subseteq LooseBoards
  BY DEF LooseBoards
<1>2. LooseSyncs' \subseteq LooseSyncs
  BY DEF LooseSyncs
<1> QED BY <1>1, <1>2 DEF NothingNew

(* A lease that is over passes to nobody or to another sync.                *)
LEMMA LeasePasses ==
    ASSUME BoardTypeOK, NEW w \in BoardWorkers, Alone(w), UNCHANGED boardPosts,
           boardRow'.message = boardRow.message,
           boardSync[w].phase \notin Bringing \cup Having,
           boardSync'[w].phase \notin Having, boardSync'[w].phase \in Bringing => StillHeld(w)',
           \A u \in BoardWorkers : u # w => ~StillHeld(u)',
           ~Overdue', boardRow.status = "SYNCING" => Lapsed(boardRow)
    PROVE  Owed
<1>1. \A u \in BoardWorkers, m \in BoardIds : ~HasIt(u, m)'
  BY DEF HasIt
<1>2. \A u \in BoardWorkers : StillHeld(u) => u = boardRow.claim /\ boardRow.status = "SYNCING"
  BY DEF StillHeld
<1>3. \A u \in BoardWorkers : boardSync'[u].phase \in Bringing /\ ~StillHeld(u)' => boardSync[u].phase \in Bringing
  BY DEF Alone
<1>4. \A m : IsAlive(m)' = IsAlive(m)
  BY DEF IsAlive
<1>5. CASE Overdue
  <2> DEFINE c == boardRow.claim
  <2>1. c \in BoardWorkers /\ boardSync[c].phase \in Bringing \cup Having
    BY <1>5 DEF BoardTypeOK, Overdue
  <2>2. CASE boardSync[c].phase \in Bringing
    <3>1. \A u \in BoardWorkers, m \in BoardIds : ~HasIt(u, m)
      BY <1>2, <2>2 DEF HasIt, Bringing, Having
    <3>2. LooseBoards' \subseteq LooseBoards
      BY <1>4, <3>1 DEF LooseBoards
    <3>3. LooseSyncs' \subseteq LooseSyncs \cup {c}
      BY <1>2, <1>3 DEF LooseSyncs
    <3> QED BY <1>5, <2>1, <3>2, <3>3 DEF Owed, LeaseLost
  <2>3. CASE boardSync[c].phase \in Having
    <3>1. LooseSyncs' \subseteq LooseSyncs
      BY <1>2, <1>3, <2>3 DEF LooseSyncs, Bringing, Having
    <3>2. \A u \in BoardWorkers, m \in BoardIds : HasIt(u, m) => m = boardSync[c].message
      BY <1>2 DEF HasIt
    <3>3. LooseBoards' \subseteq LooseBoards \cup {boardSync[c].message}
      BY <1>4, <3>2 DEF LooseBoards
    <3>4. CASE boardSync[c].message \in BoardIds
      BY <1>5, <3>1, <3>3, <3>4 DEF Owed, LeaseLost
    <3>5. CASE boardSync[c].message \notin BoardIds
      <4>1. LooseBoards' \subseteq LooseBoards
        BY <3>3, <3>5 DEF LooseBoards
      <4> QED BY <3>1, <4>1, <1>5 DEF Owed, NothingNew
    <3> QED BY <3>4, <3>5
  <2> QED BY <2>1, <2>2, <2>3
<1>6. CASE ~Overdue
  <2>1. \A u \in BoardWorkers : StillHeld(u) => boardSync[u].phase \notin Bringing \cup Having
    BY <1>2, <1>6 DEF Overdue
  <2>2. LooseBoards' \subseteq LooseBoards
    BY <1>4, <2>1 DEF LooseBoards, HasIt
  <2>3. LooseSyncs' \subseteq LooseSyncs
    BY <1>3, <2>1 DEF LooseSyncs
  <2> QED BY <2>2, <2>3 DEF Owed, NothingNew
<1> QED BY <1>5, <1>6

(* The row stays as it is, a sync that owed nothing goes on owing nothing. *)
LEMMA NothingOwed ==
    ASSUME BoardTypeOK, NEW w \in BoardWorkers, Alone(w), UNCHANGED <<boardPosts, boardRow>>,
           boardSync[w].phase \notin Bringing \cup Having,
           boardSync'[w].phase \notin Bringing \cup Having
    PROVE  Owed
<1>1. \A m : IsAlive(m)' = IsAlive(m)
  BY DEF IsAlive
<1>2. \A u \in BoardWorkers, m \in BoardIds : HasIt(u, m) => HasIt(u, m)'
  BY DEF HasIt, StillHeld, Alone
<1>3. \A u \in BoardWorkers : boardSync'[u].phase \in Bringing /\ ~StillHeld(u)' =>
                                       boardSync[u].phase \in Bringing /\ ~StillHeld(u)
  BY DEF StillHeld, Alone
<1>4. Overdue' => Overdue
  BY DEF Overdue, Alone, BoardTypeOK
<1> QED BY <1>1, <1>2, <1>3, <1>4, NothingNewIs DEF Owed

(* Every step is such a step.                                               *)
LEMMA WhatIsOwed ==
    ASSUME BoardTypeOK, PostsInv, LeaseInv, BoardNext
    PROVE  Owed
<1>1. boardRow \in BoardRows /\ boardSync \in [BoardWorkers -> SyncStates] /\ boardPosts \in [BoardIds -> PostStates]
      /\ (boardRow.status = "SYNCING" => boardRow.claim \in BoardWorkers)
  BY DEF BoardTypeOK, BoardRows, SyncStates, PostStates
<1>2. ASSUME NEW w \in BoardWorkers, SyncEnds(w) PROVE boardSync'[w].phase = "idle" /\ Alone(w)
  BY <1>2, GoesWithIs DEF SyncEnds, NoSync
<1>3. CASE SiteChanges
  <2>1. UNCHANGED <<boardRow, boardPosts, boardSync>>
    BY <1>3 DEF SiteChanges
  <2> QED BY <2>1 DEF Owed, NothingNew, LooseBoards, LooseSyncs, Overdue, IsAlive, HasIt, StillHeld, Lapsed
<1>4. CASE MinutePasses
  <2> DEFINE leased == IF boardRow.status = "SYNCING" THEN Older(boardRow.leased) ELSE boardRow.leased
             digest == [boardRow.digest EXCEPT !.age = Older(@)]
  <2>1. boardRow' = [boardRow EXCEPT !.digest = digest, !.due = TRUE, !.leased = leased] /\ boardPosts' = boardPosts
    BY <1>4 DEF MinutePasses
  <2>2. boardRow.status = "SYNCING" => leased = Older(boardRow.leased)
    OBVIOUS
  <2> HIDE DEF leased, digest
  <2>3. boardRow'.status = boardRow.status /\ boardRow'.claim = boardRow.claim /\ boardRow'.message = boardRow.message
        /\ boardRow'.leased = leased
    BY <1>1, <2>1 DEF BoardRows
  <2>4. ASSUME NEW u \in BoardWorkers
        PROVE  /\ boardSync'[u].phase = boardSync[u].phase
               /\ boardSync[u].phase # "idle" => boardSync'[u].message = boardSync[u].message
    <3> DEFINE now == [boardSync[u].digest EXCEPT !.age = Older(@)]
               age == Older(boardSync[u].age)
    <3>1. boardSync'[u] = IF At(u, "idle") THEN NoSync
                          ELSE [boardSync[u] EXCEPT !.age = Older(@), !.digest.age = Older(@)]
      BY <1>4 DEF MinutePasses
    <3>2. boardSync'[u] = IF At(u, "idle") THEN NoSync ELSE [boardSync[u] EXCEPT !.age = age, !.digest = now]
      BY <3>1
    <3> HIDE DEF now, age
    <3> QED BY <1>1, <3>2 DEF At, NoSync, SyncStates
  <2>5. \A u \in BoardWorkers, m \in BoardIds : HasIt(u, m) => HasIt(u, m)'
    BY <2>3, <2>4 DEF HasIt, StillHeld, Having
  <2>6. \A u \in BoardWorkers : boardSync'[u].phase \in Bringing /\ ~StillHeld(u)' =>
                                    boardSync[u].phase \in Bringing /\ ~StillHeld(u)
    BY <2>3, <2>4 DEF StillHeld
  <2>7. LooseBoards' \subseteq LooseBoards /\ LooseSyncs' \subseteq LooseSyncs
    BY <2>1, <2>3, <2>5, <2>6 DEF LooseBoards, LooseSyncs, IsAlive
  <2>8. CASE Overdue' /\ ~Overdue
    <3> DEFINE c == boardRow.claim
    <3>1. /\ boardRow.status = "SYNCING" /\ c \in BoardWorkers /\ leased = 2 /\ boardRow.leased # 2
          /\ boardSync[c].phase \in Bringing \cup Having
      BY <1>1, <2>3, <2>4, <2>8 DEF Overdue, Lapsed
    <3>2. boardRow.leased \in Ages /\ boardRow.leased = 1
      BY <1>1, <2>2, <3>1 DEF BoardRows, Older, Ages
    <3>3. HoldsRightly(c)
      BY <3>1 DEF LeaseInv, SyncWorks, Working, StillHeld, Bringing, Having
    <3>4. boardSync[c].age > 0
      BY <1>1, <3>1, <3>2, <3>3 DEF HoldsRightly, SyncStates, Ages
    <3>5. BoardFault
      BY <1>4, <3>1, <3>4 DEF MinutePasses
    <3> QED BY <2>7, <3>5 DEF BoardFault, Owed, AFault
  <2>9. CASE ~(Overdue' /\ ~Overdue)
    BY <2>7, <2>9 DEF Owed, NothingNew
  <2> QED BY <2>8, <2>9
<1>5. ASSUME NEW w \in BoardWorkers, SyncAfterMutation(w) \/ PressRefresh(w) \/ CronSync(w) PROVE Owed
  <2>1. UNCHANGED <<boardPosts, boardRow>> /\ (Starts(w, TRUE) \/ Starts(w, FALSE))
    BY <1>5 DEF SyncAfterMutation, PressRefresh, CronSync
  <2>2. \A force : [NoSync EXCEPT !.phase = "asking", !.force = force].phase = "asking"
    BY DEF NoSync
  <2>3. boardSync[w].phase = "idle" /\ boardSync'[w].phase = "asking" /\ Alone(w)
    BY <2>1, <2>2, GoesWithIs DEF Starts, At
  <2> QED BY <2>1, <2>3, NothingOwed DEF Bringing, Having
<1>6. ASSUME NEW w \in BoardWorkers, WorkerStops(w) PROVE Owed
  <2>1. boardFaults' = boardFaults + 1 /\ UNCHANGED <<boardRow, boardPosts>> /\ boardSync'[w].phase = "idle" /\ Alone(w)
    BY <1>2, <1>6 DEF WorkerStops, BoardFault
  <2>2. LooseSyncs' \subseteq LooseSyncs
    BY <2>1 DEF LooseSyncs, Alone, StillHeld, Bringing
  <2>3. Overdue' => Overdue
    BY <1>1, <2>1 DEF Overdue, Alone, Bringing, Having
  <2>4. \A u \in BoardWorkers, m \in BoardIds : HasIt(u, m) /\ ~HasIt(u, m)' => m = boardSync[w].message
    BY <2>1 DEF HasIt, Alone, StillHeld
  <2>5. LooseBoards' \subseteq LooseBoards \cup {boardSync[w].message}
    BY <2>1, <2>4 DEF LooseBoards, IsAlive
  <2>6. CASE boardSync[w].message \in BoardIds
    BY <2>1, <2>2, <2>3, <2>5, <2>6 DEF Owed, AFault
  <2>7. CASE boardSync[w].message \notin BoardIds
    <3>1. LooseBoards' \subseteq LooseBoards
      BY <2>5, <2>7 DEF LooseBoards
    <3> QED BY <2>1, <2>2, <3>1 DEF Owed, AFault
  <2> QED BY <2>6, <2>7
<1>7. ASSUME NEW k \in BoardIds, SomebodyDeletes(k) PROVE Owed
  <2>1. UNCHANGED <<boardRow, boardSync>> /\ boardPosts' = Removed(k)
    BY <1>7 DEF SomebodyDeletes
  <2>2. \A m \in BoardIds : IsAlive(m)' => IsAlive(m)
    BY <1>1, <2>1 DEF IsAlive, Removed, PostStates
  <2> QED BY <2>1, <2>2, NothingNewIs DEF Owed, HasIt, StillHeld, Overdue, Lapsed
<1>8. ASSUME NEW w \in BoardWorkers, RequestSync(w) PROVE Owed
  <2>1. /\ boardPosts' = boardPosts /\ boardRow' = Refreshed(boardRow) /\ boardSync[w].phase = "asking"
        /\ boardSync'[w].phase = "claiming" /\ Alone(w)
    BY <1>8, GoesIs DEF RequestSync, At
  <2>2. CASE boardRow' = boardRow
    BY <2>1, <2>2, NothingOwed DEF Bringing, Having
  <2>3. CASE boardRow' # boardRow
    <3>1. boardRow'.status = "PENDING" /\ boardRow'.message = boardRow.message
          /\ (boardRow.status = "SYNCING" => Lapsed(boardRow))
      BY <1>1, <2>1, <2>3 DEF Refreshed, Refreshable, BoardRows
    <3> QED BY <2>1, <3>1, LeasePasses DEF Bringing, Having, StillHeld, Overdue
  <2> QED BY <2>2, <2>3
<1>9. ASSUME NEW w \in BoardWorkers, ClaimSync(w) PROVE Owed
  <2> DEFINE row == IF boardSync[w].force THEN Refreshed(boardRow) ELSE boardRow
             m == row.message
             d == row.digest
  <2>1. /\ row \in BoardRows /\ m = boardRow.message
        /\ row = boardRow \/ (row.status = "PENDING" /\ (boardRow.status = "SYNCING" => Lapsed(boardRow)))
    BY <1>1 DEF Refreshed, Refreshable, BoardRows
  <2>2. \/ /\ Claimable(row) /\ boardRow' = [row EXCEPT !.status = "SYNCING", !.claim = w, !.leased = 0]
           /\ GoesWith(w, [boardSync[w] EXCEPT !.phase = "loading", !.message = m, !.digest = d, !.lead = 2])
        \/ boardRow' = row /\ SyncEnds(w)
    BY <1>9 DEF ClaimSync
  <2>3. boardPosts' = boardPosts /\ boardSync[w].phase = "claiming"
    BY <1>9 DEF ClaimSync, At
  <2>8. m = row.message
    OBVIOUS
  <2> HIDE DEF row, m, d
  <2>4. CASE boardRow' = row /\ SyncEnds(w)
    <3>1. boardSync'[w].phase = "idle" /\ Alone(w)
      BY <1>2, <2>4
    <3>2. CASE row = boardRow
      BY <2>3, <2>4, <3>1, <3>2, NothingOwed DEF Bringing, Having
    <3>3. CASE row.status = "PENDING" /\ (boardRow.status = "SYNCING" => Lapsed(boardRow))
      BY <2>1, <2>3, <2>4, <2>8, <3>1, <3>3, LeasePasses DEF Bringing, Having, StillHeld, Overdue
    <3> QED BY <2>1, <3>2, <3>3
  <2>5. CASE /\ Claimable(row) /\ boardRow' = [row EXCEPT !.status = "SYNCING", !.claim = w, !.leased = 0]
             /\ GoesWith(w, [boardSync[w] EXCEPT !.phase = "loading", !.message = m, !.digest = d, !.lead = 2])
    <3>1. boardSync'[w].phase = "loading" /\ Alone(w)
      <4> DEFINE new == [boardSync[w] EXCEPT !.phase = "loading", !.message = m, !.digest = d, !.lead = 2]
      <4>1. new.phase = "loading"
        BY <1>1 DEF SyncStates
      <4>2. GoesWith(w, new)
        BY <2>5
      <4> HIDE DEF new
      <4> QED BY <4>1, <4>2, GoesWithIs
    <3>2. boardRow'.status = "SYNCING" /\ boardRow'.claim = w /\ boardRow'.leased = 0 /\ boardRow'.message = row.message
      BY <2>1, <2>5 DEF BoardRows
    <3>3. boardRow.status = "SYNCING" => Lapsed(boardRow)
      BY <2>1, <2>5 DEF Claimable
    <3>4. ~Overdue' /\ StillHeld(w)' /\ \A u \in BoardWorkers : u # w => ~StillHeld(u)'
      BY <3>2 DEF Overdue, Lapsed, StillHeld
    <3> QED BY <2>1, <2>3, <2>8, <3>1, <3>2, <3>3, <3>4, LeasePasses DEF Bringing, Having
  <2> QED BY <2>2, <2>4, <2>5
<1>10. ASSUME NEW w \in BoardWorkers, LoadBoard(w) PROVE Owed
  <2>1. /\ UNCHANGED <<boardRow, boardPosts>> /\ boardSync[w].phase = "loading" /\ Alone(w)
        /\ boardSync'[w].phase \in {"posting", "delivering", "confirming", "failing"}
    BY <1>10, LoadIs DEF LoadBoard, At
  <2>2. \A u \in BoardWorkers, m \in BoardIds : HasIt(u, m) => HasIt(u, m)'
    BY <2>1 DEF HasIt, StillHeld, Alone, Having
  <2>3. \A u \in BoardWorkers : boardSync'[u].phase \in Bringing /\ ~StillHeld(u)' =>
                                    boardSync[u].phase \in Bringing /\ ~StillHeld(u)
    BY <2>1 DEF StillHeld, Alone, Bringing
  <2>4. Overdue' => Overdue
    BY <1>1, <2>1 DEF Overdue, Alone, Bringing
  <2>5. \A m : IsAlive(m)' => IsAlive(m)
    BY <2>1 DEF IsAlive
  <2> QED BY <2>1, <2>2, <2>3, <2>4, <2>5, NothingNewIs DEF Owed
<1>11. ASSUME NEW w \in BoardWorkers, EditBoard(w) PROVE Owed
  <2>1. /\ boardRow' = boardRow /\ boardSync[w].phase = "delivering"
        /\ boardPosts' = boardPosts \/ boardPosts' = Showing(boardSync[w].message, w)
        /\ Goes(w, "recording") \/ Goes(w, "posting") \/ Goes(w, "failing")
    BY <1>11 DEF EditBoard, At
  <2>2. boardSync'[w].phase \in {"recording", "posting", "failing"} /\ Alone(w)
    BY <2>1, GoesIs
  <2>3. \A u \in BoardWorkers, m \in BoardIds : HasIt(u, m) => HasIt(u, m)'
    BY <2>1, <2>2 DEF HasIt, StillHeld, Alone, Having
  <2>4. \A u \in BoardWorkers : boardSync'[u].phase \in Bringing /\ ~StillHeld(u)' =>
                                    boardSync[u].phase \in Bringing /\ ~StillHeld(u)
    BY <2>1, <2>2 DEF StillHeld, Alone, Bringing
  <2>5. Overdue' => Overdue
    BY <1>1, <2>1, <2>2 DEF Overdue, Alone, Bringing, Having
  <2>6. \A m \in BoardIds : IsAlive(m)' => IsAlive(m)
    BY <1>1, <2>1 DEF IsAlive, Showing, PostStates
  <2> QED BY <2>1, <2>3, <2>4, <2>5, <2>6, NothingNewIs DEF Owed
<1>12. ASSUME NEW w \in BoardWorkers, PostBoard(w) PROVE Owed
  <2>1. boardRow' = boardRow /\ boardSync[w].phase = "posting" /\ Alone(w) /\ boardSync'[w].phase \in {"pinning", "failing"}
    BY <1>12, PostIs DEF PostBoard, At
  <2>2. \A u \in BoardWorkers, m \in BoardIds : HasIt(u, m) => HasIt(u, m)'
    BY <2>1 DEF HasIt, StillHeld, Alone, Having
  <2>3. \A u \in BoardWorkers : boardSync'[u].phase \in Bringing /\ ~StillHeld(u)' =>
                                    u # w /\ boardSync[u].phase \in Bringing /\ ~StillHeld(u)
    BY <2>1 DEF StillHeld, Alone, Bringing
  <2>4. Overdue' => Overdue
    BY <1>1, <2>1 DEF Overdue, Alone, Bringing, Having
  <2>5. LooseSyncs' \subseteq LooseSyncs \ {w}
    BY <2>3 DEF LooseSyncs
  <2>6. ASSUME boardPosts' = boardPosts PROVE Owed
    <3>1. LooseBoards' \subseteq LooseBoards
      BY <2>1, <2>2, <2>6 DEF LooseBoards, IsAlive
    <3> QED BY <2>4, <2>5, <3>1 DEF Owed, NothingNew
  <2>7. ASSUME NextBoard \in BoardIds, boardPosts' = Posting(w)
        PROVE  LooseBoards' \subseteq LooseBoards \cup {NextBoard}
    <3>1. \A m \in BoardIds : m # NextBoard => (IsAlive(m)' => IsAlive(m))
      BY <1>1, <2>7 DEF IsAlive, Posting
    <3> QED BY <2>1, <2>2, <3>1 DEF LooseBoards
  <2>8. CASE /\ NextBoard \in BoardIds /\ boardPosts' = Posting(w)
             /\ boardSync'[w].phase = "pinning" /\ boardSync'[w].message = NextBoard
    <3>1. CASE StillHeld(w)
      <4>1. PICK k \in BoardIds : k = NextBoard
        BY <2>8
      <4>2. HasIt(w, k)'
        BY <2>1, <2>8, <3>1, <4>1 DEF HasIt, StillHeld, Having
      <4>3. k \notin LooseBoards'
        BY <4>2 DEF LooseBoards
      <4>4. LooseBoards' \subseteq LooseBoards
        BY <2>7, <2>8, <4>1, <4>3
      <4> QED BY <2>4, <2>5, <4>4 DEF Owed, NothingNew
    <3>2. CASE ~StillHeld(w)
      <4>1. w \in LooseSyncs
        BY <2>1, <3>2 DEF LooseSyncs, Bringing
      <4> QED BY <2>4, <2>5, <2>7, <2>8, <4>1 DEF Owed, StrayPost
    <3> QED BY <3>1, <3>2
  <2>9. CASE NextBoard \in BoardIds /\ boardPosts' = Posting(w) /\ BoardFault
    BY <2>4, <2>5, <2>7, <2>9 DEF Owed, AFault, BoardFault
  <2> QED BY <1>12, <2>6, <2>8, <2>9, PostIs
<1>13. ASSUME NEW w \in BoardWorkers, PinBoard(w) PROVE Owed
  <2>1. /\ boardRow' = boardRow /\ boardSync[w].phase = "pinning"
        /\ boardPosts' = boardPosts \/ boardPosts' = [boardPosts EXCEPT ![boardSync[w].message].pinned = TRUE]
        /\ Goes(w, "recording") \/ Goes(w, "removing")
    BY <1>13 DEF PinBoard, At
  <2>2. boardSync'[w].phase \in {"recording", "removing"} /\ Alone(w) /\ boardSync'[w].message = boardSync[w].message
    BY <2>1, GoesIs DEF Same
  <2>3. \A u \in BoardWorkers, m \in BoardIds : HasIt(u, m) => HasIt(u, m)'
    BY <2>1, <2>2 DEF HasIt, StillHeld, Alone, Having
  <2>4. \A u \in BoardWorkers : boardSync'[u].phase \in Bringing /\ ~StillHeld(u)' =>
                                    boardSync[u].phase \in Bringing /\ ~StillHeld(u)
    BY <2>1, <2>2 DEF StillHeld, Alone, Bringing
  <2>5. Overdue' => Overdue
    BY <1>1, <2>1, <2>2 DEF Overdue, Alone, Bringing, Having
  <2>6. \A m \in BoardIds : IsAlive(m)' => IsAlive(m)
    BY <1>1, <2>1 DEF IsAlive, PostStates
  <2> QED BY <2>1, <2>3, <2>4, <2>5, <2>6, NothingNewIs DEF Owed
<1>14. ASSUME NEW w \in BoardWorkers, RemoveBoard(w) PROVE Owed
  <2> DEFINE k == boardSync[w].message
  <2>1. /\ boardRow' = boardRow /\ boardSync[w].phase = "removing" /\ boardSync'[w].phase = "failing" /\ Alone(w)
        /\ boardPosts' = Removed(k) \/ (BoardFault /\ boardPosts' = boardPosts)
    BY <1>14, GoesIs DEF RemoveBoard, At
  <2>0. k \in BoardIds
    BY <1>1, <2>1 DEF PostsInv, SyncStates, Having
  <2> HIDE DEF k
  <2>2. \A u \in BoardWorkers, m \in BoardIds : HasIt(u, m) /\ m # k => HasIt(u, m)'
    BY <2>1 DEF HasIt, StillHeld, Alone, Having, k
  <2>3. LooseSyncs' \subseteq LooseSyncs
    BY <2>1 DEF LooseSyncs, StillHeld, Alone, Bringing
  <2>4. Overdue' => Overdue
    BY <1>1, <2>1 DEF Overdue, Alone, Bringing, Having
  <2>5. \A m \in BoardIds : IsAlive(m)' => IsAlive(m)
    BY <1>1, <2>1 DEF IsAlive, Removed, PostStates
  <2>6. LooseBoards' \subseteq LooseBoards \cup {k}
    BY <2>1, <2>2, <2>5 DEF LooseBoards
  <2>7. CASE boardPosts' = Removed(k)
    <3>1. \A m \in BoardIds : m = k => ~IsAlive(m)'
      BY <1>1, <2>0, <2>7 DEF IsAlive, Removed, PostStates
    <3>2. LooseBoards' \subseteq LooseBoards
      BY <2>6, <3>1 DEF LooseBoards
    <3> QED BY <2>3, <2>4, <3>2 DEF Owed, NothingNew
  <2>8. CASE BoardFault
    BY <2>0, <2>3, <2>4, <2>6, <2>8 DEF Owed, AFault, BoardFault
  <2> QED BY <2>1, <2>7, <2>8
<1>15. ASSUME NEW w \in BoardWorkers, CompleteSync(w), StillHeld(w) PROVE Owed
  <2> DEFINE digest == [of |-> boardSync[w].version, age |-> boardSync[w].age]
  <2>1. /\ boardRow' = [boardRow EXCEPT !.status = "SYNCED", !.due = TRUE, !.claim = 0, !.leased = 0,
                                        !.message = boardSync[w].message, !.digest = digest]
        /\ boardSync[w].phase = "recording"
        /\ boardPosts' = [m \in BoardIds |-> [boardPosts[m] EXCEPT !.lead = Behind(@)]]
        /\ boardSync' = [u \in BoardWorkers |->
               IF u = w THEN NoSync ELSE [boardSync[u] EXCEPT !.lead = Behind(@)]]
    BY <1>15 DEF CompleteSync, Recorded, At
  <2> HIDE DEF digest
  <2>2. boardRow'.status = "SYNCED" /\ boardRow'.message = boardSync[w].message
    BY <1>1, <2>1 DEF BoardRows
  <2>3. HoldsRightly(w)
    BY <1>15, <2>1 DEF LeaseInv, SyncWorks, Working
  <2>4. \A m \in BoardIds : IsAlive(m)' => IsAlive(m)
    BY <1>1, <2>1 DEF IsAlive, PostStates
  <2>5. \A u \in BoardWorkers : StillHeld(u) => u = w
    BY <1>15 DEF StillHeld
  <2>6. \A u \in BoardWorkers, m \in BoardIds : HasIt(u, m) => m = boardRow'.message
    BY <2>2, <2>5 DEF HasIt
  <2>7. boardRow'.message = boardRow.message \/ ~IsAlive(boardRow.message)
    BY <2>1, <2>2, <2>3 DEF HoldsRightly, Having
  <2>8. LooseBoards' \subseteq LooseBoards
    BY <2>4, <2>6, <2>7 DEF LooseBoards
  <2>9. \A u \in BoardWorkers : boardSync'[u].phase = IF u = w THEN "idle" ELSE boardSync[u].phase
    BY <1>1, <2>1 DEF NoSync, SyncStates
  <2>10. LooseSyncs' \subseteq LooseSyncs
    BY <2>5, <2>9 DEF LooseSyncs, Bringing
  <2> QED BY <2>2, <2>8, <2>10 DEF Owed, NothingNew, Overdue
<1>16. ASSUME NEW w \in BoardWorkers, CompleteUnchanged(w) \/ FailSync(w), StillHeld(w) PROVE Owed
  <2>1. /\ \/ boardRow' = [boardRow EXCEPT !.status = "SYNCED", !.due = TRUE, !.claim = 0, !.leased = 0]
           \/ boardRow' = [boardRow EXCEPT !.status = "RETRY", !.due = FALSE, !.claim = 0, !.leased = 0]
        /\ boardPosts' = boardPosts /\ boardSync[w].phase \in {"confirming", "failing"}
        /\ boardSync'[w].phase = "idle" /\ Alone(w)
    BY <1>2, <1>16 DEF CompleteUnchanged, FailSync, Failed, At
  <2>2. boardRow'.status # "SYNCING" /\ boardRow'.message = boardRow.message
    BY <1>1, <2>1 DEF BoardRows
  <2>3. \A u \in BoardWorkers : StillHeld(u) => u = w
    BY <1>16 DEF StillHeld
  <2>4. \A u \in BoardWorkers, m \in BoardIds : ~HasIt(u, m)
    BY <2>1, <2>3 DEF HasIt, Having
  <2>5. LooseBoards' \subseteq LooseBoards
    BY <2>1, <2>2, <2>4 DEF LooseBoards, IsAlive
  <2>6. LooseSyncs' \subseteq LooseSyncs
    BY <2>1, <2>3 DEF LooseSyncs, Bringing, Alone
  <2> QED BY <2>2, <2>5, <2>6 DEF Owed, NothingNew, Overdue
<1>17. ASSUME NEW w \in BoardWorkers, CompleteSync(w) \/ CompleteUnchanged(w) \/ FailSync(w), ~StillHeld(w) PROVE Owed
  <2>1. /\ UNCHANGED <<boardRow, boardPosts>> /\ boardSync[w].phase \in {"recording", "confirming", "failing"}
        /\ boardSync'[w].phase = "idle" /\ Alone(w)
    BY <1>2, <1>17 DEF CompleteSync, CompleteUnchanged, FailSync, At
  <2>2. \A u \in BoardWorkers, m \in BoardIds : HasIt(u, m) => HasIt(u, m)'
    BY <1>17, <2>1 DEF HasIt, StillHeld, Alone
  <2>3. \A u \in BoardWorkers : boardSync'[u].phase \in Bringing /\ ~StillHeld(u)' =>
                                    boardSync[u].phase \in Bringing /\ ~StillHeld(u)
    BY <2>1 DEF StillHeld, Alone, Bringing
  <2>4. Overdue' => Overdue
    BY <1>1, <2>1 DEF Overdue, Alone, Bringing, Having
  <2>5. \A m : IsAlive(m)' => IsAlive(m)
    BY <2>1 DEF IsAlive
  <2> QED BY <2>1, <2>2, <2>3, <2>4, <2>5, NothingNewIs DEF Owed
<1>18. ASSUME NEW w \in BoardWorkers, SyncStep(w) PROVE Owed
  BY <1>8, <1>9, <1>10, <1>11, <1>12, <1>13, <1>14, <1>15, <1>16, <1>17, <1>18 DEF SyncStep
<1> QED BY <1>3, <1>4, <1>5, <1>6, <1>7, <1>18 DEF BoardNext

(* Only one sync works, so none but it can change what holds.               *)
LEMMA OnlyOneMoves ==
    ASSUME NEW w \in BoardWorkers, Alone(w), OnTime, boardSync'[w].age <= 1,
           \A u \in BoardWorkers : u # w => ~SyncWorks(u),
           SyncWorks(w)' => StillHeld(w)' /\ boardSync'[w].phase \notin {"removing", "failing"},
           Recalls', Tells', Underway(w)'
    PROVE  FaultlessInv'
<1>1. \A u \in BoardWorkers : u # w => boardSync'[u].phase \notin Working /\ ~SyncWorks(u)'
  BY DEF Alone, SyncWorks
<1>2. OnTime'
  BY DEF OnTime, Alone
<1>3. AllHold'
  BY <1>1 DEF AllHold
<1>4. \A u \in BoardWorkers : Underway(u)'
  BY <1>1 DEF Underway, Working
<1> QED BY <1>2, <1>3, <1>4 DEF FaultlessInv

(* A sync that does not work yet leaves everything as it is.                *)
LEMMA RestingMoves ==
    ASSUME BoardTypeOK, FaultlessInv, boardFaults = 0,
           NEW w \in BoardWorkers, Alone(w), boardPosts' = boardPosts, boardSync'[w].age <= 1,
           ~SyncWorks(w), boardSync'[w].phase \notin Working,
           boardRow'.message = boardRow.message, boardRow'.digest = boardRow.digest,
           \/ boardRow'.status = boardRow.status /\ boardRow'.claim = boardRow.claim
           \/ boardRow.status # "SYNCING" /\ boardRow'.status = "PENDING"
    PROVE  FaultlessInv'
<1>1. OnTime /\ AllHold /\ Recalls /\ Tells /\ \A u \in BoardWorkers : Underway(u)
  BY DEF FaultlessInv
<1>2. \A u \in BoardWorkers : u # w => boardSync'[u] = boardSync[u] /\ (SyncWorks(u)' <=> SyncWorks(u))
  BY DEF Alone, SyncWorks
<1>3. OnTime'
  BY <1>1 DEF OnTime, Alone
<1>4. \A u \in BoardWorkers : SyncWorks(u) => StillHeld(u)'
  BY <1>1 DEF AllHold, StillHeld
<1>5. AllHold'
  BY <1>1, <1>2, <1>4 DEF AllHold, SyncWorks
<1>6. Recalls'
  BY <1>1, <1>2 DEF Recalls, SyncWorks, BoardTypeOK
<1>7. \A u \in BoardWorkers : At(u, "recording") => At(u, "recording")'
  BY <1>2 DEF At, SyncWorks, Working
<1>8. Tells'
  BY <1>1, <1>7 DEF Tells, Truthful
<1>9. \A u \in BoardWorkers : Underway(u)'
  BY <1>1, <1>2 DEF Underway, Working
<1> QED BY <1>3, <1>5, <1>6, <1>8, <1>9 DEF FaultlessInv

(* A minute that finds nobody slow.                                         *)
LEMMA MinutesArePrompt ==
    ASSUME BoardTypeOK, FaultlessInv, boardFaults = 0, boardFaults' = 0, MinutePasses
    PROVE  FaultlessInv'
<1>1. boardRow \in BoardRows /\ boardSync \in [BoardWorkers -> SyncStates]
      /\ (boardRow.status = "SYNCING" => boardRow.claim \in BoardWorkers)
  BY DEF BoardTypeOK, BoardRows, SyncStates
<1>2. OnTime /\ AllHold /\ Recalls /\ Tells /\ \A u \in BoardWorkers : Underway(u)
  BY DEF FaultlessInv
<1> DEFINE leased == IF boardRow.status = "SYNCING" THEN Older(boardRow.leased) ELSE boardRow.leased
           digest == [boardRow.digest EXCEPT !.age = Older(@)]
<1>3. boardRow' = [boardRow EXCEPT !.digest = digest, !.due = TRUE, !.leased = leased] /\ boardPosts' = boardPosts
  BY DEF MinutePasses
<1>4. digest.of = boardRow.digest.of
  BY <1>1 DEF BoardRows, Digests
<1> HIDE DEF leased, digest
<1>5. boardRow'.status = boardRow.status /\ boardRow'.claim = boardRow.claim /\ boardRow'.message = boardRow.message
      /\ boardRow'.digest.of = boardRow.digest.of
  BY <1>1, <1>3, <1>4 DEF BoardRows
<1>6. \A u \in BoardWorkers : boardSync[u].age = 0
  <2>1. ~BoardFault
    BY DEF BoardFault
  <2>2. \A u \in BoardWorkers : ~(boardSync[u].age > 0)
    BY <2>1 DEF MinutePasses
  <2> QED BY <1>1, <2>2 DEF SyncStates, Ages
<1>7. ASSUME NEW u \in BoardWorkers
      PROVE  /\ boardSync'[u].phase = boardSync[u].phase /\ boardSync'[u].age <= 1
             /\ boardSync[u].phase # "idle" =>
                  boardSync'[u].message = boardSync[u].message /\ boardSync'[u].version = boardSync[u].version
  <2> DEFINE now == [boardSync[u].digest EXCEPT !.age = Older(@)]
             age == Older(boardSync[u].age)
  <2>1. boardSync'[u] = IF At(u, "idle") THEN NoSync ELSE [boardSync[u] EXCEPT !.age = age, !.digest = now]
    <3>1. boardSync'[u] = IF At(u, "idle") THEN NoSync
                          ELSE [boardSync[u] EXCEPT !.age = Older(@), !.digest.age = Older(@)]
      BY DEF MinutePasses
    <3> QED BY <3>1
  <2>2. age = 1
    BY <1>6 DEF Older
  <2> HIDE DEF now, age
  <2> QED BY <1>1, <2>1, <2>2 DEF At, NoSync, SyncStates
<1>8. OnTime'
  BY <1>7 DEF OnTime
<1>9. AllHold'
  BY <1>2, <1>5, <1>7 DEF AllHold, SyncWorks, StillHeld
<1>10. Recalls'
  BY <1>1, <1>2, <1>5, <1>7 DEF Recalls, SyncWorks
<1>11. \A u \in BoardWorkers : At(u, "recording") => At(u, "recording")'
  BY <1>7 DEF At
<1>12. Tells'
  BY <1>2, <1>3, <1>5, <1>11 DEF Tells, Truthful
<1>13. \A u \in BoardWorkers : Underway(u)'
  BY <1>2, <1>3, <1>5, <1>7 DEF Underway
<1> QED BY <1>8, <1>9, <1>10, <1>12, <1>13 DEF FaultlessInv

(* Without a fault nothing is owed.                                         *)
LEMMA NothingIsOwed ==
    ASSUME DebtInv, boardFaults = 0
    PROVE  \A m \in BoardIds : m \notin LooseBoards
<1>1. IsFiniteSet(BoardIds) /\ IsFiniteSet(BoardWorkers)
  BY FS_Interval, BoardBounds, BoardAssumption DEF BoardIds, BoardAssumption
<1>2. IsFiniteSet(LooseBoards) /\ IsFiniteSet(LooseSyncs)
  BY <1>1, FS_Subset DEF LooseBoards, LooseSyncs
<1> DEFINE b == Cardinality(LooseBoards)
           s == Cardinality(LooseSyncs)
           o == IF Overdue THEN 1 ELSE 0
<1>3. b \in Nat /\ s \in Nat /\ o \in Nat
  BY <1>2, FS_CardinalityType
<1>4. b + s + o <= 0
  BY DEF DebtInv
<1> HIDE DEF b, s, o
<1>5. b = 0
  BY <1>3, <1>4
<1>6. LooseBoards = {}
  BY <1>2, <1>5, FS_EmptySet DEF b
<1> QED BY <1>6

(* The steps of the one sync that works, while nothing goes wrong.          *)
LEMMA WorkIsFaultless ==
    ASSUME BoardTypeOK, PostsInv, LeaseInv, DebtInv, FaultlessInv, boardFaults = 0, boardFaults' = 0,
           NEW w \in BoardWorkers, SyncWorks(w), SyncStep(w)
    PROVE  FaultlessInv'
<1>1. /\ boardRow \in BoardRows /\ boardSync \in [BoardWorkers -> SyncStates] /\ boardPosts \in [BoardIds -> PostStates]
      /\ ~BoardFault
  BY DEF BoardTypeOK, BoardRows, SyncStates, PostStates, BoardFault
<1>2. OnTime /\ AllHold /\ Recalls /\ Tells /\ \A u \in BoardWorkers : Underway(u)
  BY DEF FaultlessInv
<1>3. StillHeld(w) /\ boardSync[w].phase \notin {"removing", "failing"} /\ boardSync[w].age <= 1
  BY <1>2 DEF AllHold, OnTime
<1>4. \A u \in BoardWorkers : u # w => ~SyncWorks(u)
  BY <1>2, <1>3 DEF AllHold, StillHeld
<1>5. HoldsRightly(w)
  BY <1>3 DEF LeaseInv
<1>6. boardSync[w].phase # "recording" /\ boardRow.message # 0 => Truthful
  BY <1>2, <1>4 DEF Tells, SyncWorks, Working, At
<1>7. CASE LoadBoard(w)
  <2>1. /\ Alone(w) /\ boardSync'[w].message = boardSync[w].message /\ boardSync'[w].age <= 1
        /\ \/ boardSync'[w].phase = "posting" /\ boardSync[w].message = 0
           \/ boardSync'[w].phase = "delivering"
           \/ boardSync'[w].phase = "confirming" /\ boardSync[w].message # 0
    BY <1>1, <1>3, <1>7, LoadIs
  <2>2. UNCHANGED <<boardRow, boardPosts>> /\ boardSync[w].phase = "loading"
    BY <1>7 DEF LoadBoard, At
  <2>3. boardSync[w].message = boardRow.message
    BY <1>5, <2>2 DEF HoldsRightly
  <2>4. SyncWorks(w)' => StillHeld(w)' /\ boardSync'[w].phase \notin {"removing", "failing"}
    BY <1>3, <2>1, <2>2 DEF StillHeld
  <2>5. Recalls'
    BY <1>2, <1>3, <2>1, <2>2 DEF Recalls, StillHeld, SyncWorks, Working
  <2>6. Tells'
    BY <1>2, <1>6, <2>2 DEF Tells, Truthful
  <2>7. Underway(w)'
    BY <2>1, <2>2, <2>3 DEF Underway
  <2> QED BY <1>2, <1>4, <2>1, <2>4, <2>5, <2>6, <2>7, OnlyOneMoves
<1>8. CASE EditBoard(w)
  <2> DEFINE m == boardSync[w].message
  <2>1. boardRow' = boardRow /\ boardSync[w].phase = "delivering" /\ m = boardRow.message
    BY <1>5, <1>8 DEF EditBoard, At, HoldsRightly
  <2>2. m \in BoardIds /\ m # 0
    BY <1>1, <2>1 DEF PostsInv, SyncStates
  <2>3. boardPosts[m].alive /\ boardPosts[m].pinned
    BY <1>2, <2>1, <2>2 DEF Tells
  <2>4. boardPosts' = Showing(m, w) /\ Goes(w, "recording")
    BY <1>1, <1>8, <2>3 DEF EditBoard
  <2>5. boardSync'[w].phase = "recording" /\ Alone(w) /\ boardSync'[w].message = m
        /\ boardSync'[w].version = boardSync[w].version /\ boardSync'[w].age <= 1 /\ boardSync[w].lead = 2
    BY <1>3, <1>5, <2>4, GoesIs DEF Same, HoldsRightly
  <2>6. \A k \in BoardIds : k = m =>
            /\ boardPosts'[k].alive /\ boardPosts'[k].pinned
            /\ boardPosts'[k].shows = boardSync[w].version /\ boardPosts'[k].lead = boardSync[w].lead
    BY <1>1, <2>3, <2>4 DEF Showing, PostStates
  <2> HIDE DEF m
  <2>7. SyncWorks(w)' => StillHeld(w)' /\ boardSync'[w].phase \notin {"removing", "failing"}
    BY <1>3, <2>1, <2>5 DEF StillHeld
  <2>8. Recalls'
    BY <1>2, <1>3, <2>1, <2>5 DEF Recalls, StillHeld, SyncWorks, Working
  <2>9. Tells'
    BY <2>1, <2>2, <2>5, <2>6 DEF Tells, At
  <2>10. Underway(w)'
    BY <2>2, <2>5, <2>6 DEF Underway
  <2> QED BY <1>2, <1>4, <2>5, <2>7, <2>8, <2>9, <2>10, OnlyOneMoves
<1>9. CASE PostBoard(w)
  <2>1. boardRow' = boardRow /\ boardSync[w].phase = "posting" /\ boardRow.message = 0
    BY <1>2, <1>9 DEF PostBoard, At, Underway
  <2>2. \A m \in BoardIds : ~boardPosts[m].alive
    <3> SUFFICES ASSUME NEW m \in BoardIds, boardPosts[m].alive PROVE FALSE
      OBVIOUS
    <3>1. m # 0
      BY BoardBounds DEF BoardIds
    <3>2. \A u \in BoardWorkers : ~HasIt(u, m)
      BY <1>4, <2>1 DEF HasIt, Having, SyncWorks, Working
    <3> QED BY <2>1, <3>1, <3>2, NothingIsOwed DEF LooseBoards, IsAlive
  <2>3. /\ NextBoard \in BoardIds /\ boardPosts' = Posting(w) /\ Alone(w)
        /\ boardSync'[w].phase = "pinning" /\ boardSync'[w].message = NextBoard
        /\ boardSync'[w].version = boardSync[w].version /\ boardSync'[w].age <= 1
    BY <1>1, <1>3, <1>9, <2>2, PostIs
  <2>4. PICK k \in BoardIds : k = NextBoard
    BY <2>3
  <2>5. boardPosts'[k].alive /\ boardPosts'[k].shows = boardSync[w].version /\ boardPosts'[k].lead = 2
    BY <1>1, <1>5, <2>3, <2>4 DEF Posting, HoldsRightly
  <2>6. boardSync'[w].message = k
    BY <2>3, <2>4
  <2>7. SyncWorks(w)' => StillHeld(w)' /\ boardSync'[w].phase \notin {"removing", "failing"}
    BY <1>3, <2>1, <2>3 DEF StillHeld
  <2>8. Recalls'
    BY <1>2, <1>3, <2>1, <2>3 DEF Recalls, StillHeld, SyncWorks, Working
  <2>9. Tells'
    BY <2>1 DEF Tells
  <2>10. Underway(w)'
    BY <2>1, <2>3, <2>5, <2>6 DEF Underway
  <2> QED BY <1>2, <1>4, <2>3, <2>7, <2>8, <2>9, <2>10, OnlyOneMoves
<1>10. CASE PinBoard(w)
  <2> DEFINE m == boardSync[w].message
  <2>1. boardRow' = boardRow /\ boardSync[w].phase = "pinning" /\ boardRow.message = 0
    BY <1>2, <1>10 DEF PinBoard, At, Underway
  <2>2. m \in BoardIds /\ m # 0
    BY <1>1, <2>1 DEF PostsInv, SyncStates, Having
  <2>3. boardPosts[m].alive /\ boardPosts[m].shows = boardSync[w].version /\ boardPosts[m].lead = 2
    BY <1>2, <2>1 DEF Underway
  <2>4. boardPosts' = [boardPosts EXCEPT ![m].pinned = TRUE] /\ Goes(w, "recording")
    BY <1>1, <1>10, <2>3 DEF PinBoard
  <2>5. boardSync'[w].phase = "recording" /\ Alone(w) /\ boardSync'[w].message = m
        /\ boardSync'[w].version = boardSync[w].version /\ boardSync'[w].age <= 1
    BY <1>3, <2>4, GoesIs DEF Same
  <2>6. \A k \in BoardIds : k = m =>
            /\ boardPosts'[k].alive /\ boardPosts'[k].pinned
            /\ boardPosts'[k].shows = boardSync[w].version /\ boardPosts'[k].lead = 2
    BY <1>1, <2>3, <2>4 DEF PostStates
  <2> HIDE DEF m
  <2>7. SyncWorks(w)' => StillHeld(w)' /\ boardSync'[w].phase \notin {"removing", "failing"}
    BY <1>3, <2>1, <2>5 DEF StillHeld
  <2>8. Recalls'
    BY <1>2, <1>3, <2>1, <2>5 DEF Recalls, StillHeld, SyncWorks, Working
  <2>9. Tells'
    BY <2>1 DEF Tells
  <2>10. Underway(w)'
    BY <2>2, <2>5, <2>6 DEF Underway
  <2> QED BY <1>2, <1>4, <2>5, <2>7, <2>8, <2>9, <2>10, OnlyOneMoves
<1>11. CASE CompleteSync(w)
  <2> DEFINE m == boardSync[w].message
             digest == [of |-> boardSync[w].version, age |-> boardSync[w].age]
  <2>1. /\ boardRow' = [boardRow EXCEPT !.status = "SYNCED", !.due = TRUE, !.claim = 0, !.leased = 0,
                                        !.message = m, !.digest = digest]
        /\ boardSync[w].phase = "recording"
        /\ boardPosts' = [k \in BoardIds |-> [boardPosts[k] EXCEPT !.lead = Behind(@)]]
        /\ boardSync' = [u \in BoardWorkers |->
               IF u = w THEN NoSync ELSE [boardSync[u] EXCEPT !.lead = Behind(@)]]
    BY <1>3, <1>11 DEF CompleteSync, Recorded, At
  <2>2. m \in BoardIds /\ m # 0
    BY <1>1, <2>1 DEF PostsInv, SyncStates, Having
  <2>3. boardPosts[m].alive /\ boardPosts[m].pinned /\ boardPosts[m].shows = boardSync[w].version /\ boardPosts[m].lead = 2
    BY <1>2, <2>1 DEF Underway
  <2>4. digest.of = boardSync[w].version
    OBVIOUS
  <2> HIDE DEF m, digest
  <2>5. boardRow'.status = "SYNCED" /\ boardRow'.message = m /\ boardRow'.digest = digest
    BY <1>1, <2>1 DEF BoardRows
  <2>6. \A k \in BoardIds : k = m =>
            /\ boardPosts'[k].alive /\ boardPosts'[k].pinned
            /\ boardPosts'[k].shows = boardSync[w].version /\ boardPosts'[k].lead = 1
    BY <1>1, <2>1, <2>3 DEF PostStates, Behind
  <2>7. \A u \in BoardWorkers : /\ boardSync'[u].phase = IF u = w THEN "idle" ELSE boardSync[u].phase
                                /\ boardSync'[u].age <= 1
    <3>1. \A u \in BoardWorkers : boardSync[u].age <= 1
      BY <1>2 DEF OnTime
    <3> QED BY <1>1, <2>1, <3>1 DEF NoSync, SyncStates
  <2>8. \A u \in BoardWorkers : boardSync'[u].phase \notin Working
    BY <1>4, <2>7 DEF SyncWorks, Working
  <2>9. OnTime' /\ AllHold' /\ Recalls'
    BY <2>2, <2>5, <2>7, <2>8 DEF OnTime, AllHold, Recalls, SyncWorks
  <2>10. Tells'
    BY <2>2, <2>4, <2>5, <2>6 DEF Tells, Truthful
  <2>11. \A u \in BoardWorkers : Underway(u)'
    BY <2>8 DEF Underway, Working
  <2> QED BY <2>9, <2>10, <2>11 DEF FaultlessInv
<1>12. CASE CompleteUnchanged(w)
  <2>1. /\ boardRow' = [boardRow EXCEPT !.status = "SYNCED", !.due = TRUE, !.claim = 0, !.leased = 0]
        /\ boardPosts' = boardPosts /\ boardSync[w].phase = "confirming"
        /\ boardSync'[w].phase = "idle" /\ boardSync'[w].age = 0 /\ Alone(w)
    <3>1. boardRow' = [boardRow EXCEPT !.status = "SYNCED", !.due = TRUE, !.claim = 0, !.leased = 0]
      BY <1>3, <1>12 DEF CompleteUnchanged
    <3>2. boardSync'[w] = NoSync /\ Alone(w)
      BY <1>12, GoesWithIs DEF CompleteUnchanged, SyncEnds
    <3> QED BY <1>12, <3>1, <3>2 DEF CompleteUnchanged, At, NoSync
  <2>2. boardRow'.status = "SYNCED" /\ boardRow'.message = boardRow.message /\ boardRow'.digest = boardRow.digest
    BY <1>1, <2>1 DEF BoardRows
  <2>3. boardRow.message # 0
    BY <1>2, <2>1 DEF Underway
  <2>4. Recalls' /\ ~SyncWorks(w)' /\ Underway(w)'
    BY <2>1, <2>2, <2>3 DEF Recalls, SyncWorks, Working, Underway
  <2>5. Tells'
    BY <1>2, <1>6, <2>1, <2>2 DEF Tells, Truthful
  <2> QED BY <1>2, <1>4, <2>1, <2>4, <2>5, OnlyOneMoves
<1>13. ~RequestSync(w) /\ ~ClaimSync(w) /\ ~RemoveBoard(w) /\ ~FailSync(w)
  BY <1>3 DEF RequestSync, ClaimSync, RemoveBoard, FailSync, At, SyncWorks, Working
<1> QED BY <1>7, <1>8, <1>9, <1>10, <1>11, <1>12, <1>13 DEF SyncStep

(* Every step keeps what holds while nothing has gone wrong.                *)
LEMMA FaultlessKept ==
    ASSUME BoardTypeOK, PostsInv, LeaseInv, DebtInv, FaultlessInv, BoardNext
    PROVE  FaultlessInv'
<1> SUFFICES ASSUME boardFaults' = 0 PROVE FaultlessInv'
  BY DEF FaultlessInv
<1>1. boardFaults = 0 /\ ~BoardFault
  BY BoardCounts DEF BoardTypeOK, BoardFault
<1>2. /\ boardRow \in BoardRows /\ boardSync \in [BoardWorkers -> SyncStates]
      /\ (boardRow.status = "SYNCING" => boardRow.claim \in BoardWorkers)
  BY DEF BoardTypeOK, BoardRows, SyncStates
<1>3. OnTime /\ AllHold /\ Recalls /\ Tells /\ \A u \in BoardWorkers : Underway(u)
  BY <1>1 DEF FaultlessInv
<1>4. boardRow.status = "SYNCING" => ~Lapsed(boardRow)
  <2> SUFFICES ASSUME boardRow.status = "SYNCING" PROVE boardRow.leased # 2
    BY DEF Lapsed
  <2> DEFINE c == boardRow.claim
  <2>1. c \in BoardWorkers /\ SyncWorks(c) /\ StillHeld(c)
    BY <1>2, <1>3 DEF Recalls, StillHeld
  <2>2. boardRow.leased <= boardSync[c].age /\ boardSync[c].age <= 1
    BY <1>3, <2>1 DEF LeaseInv, HoldsRightly, OnTime
  <2> QED BY <1>2, <2>1, <2>2 DEF BoardRows, SyncStates, Ages
<1>5. /\ Refreshed(boardRow) \in BoardRows
      /\ Refreshed(boardRow).message = boardRow.message /\ Refreshed(boardRow).digest = boardRow.digest
      /\ \/ Refreshed(boardRow) = boardRow
         \/ boardRow.status # "SYNCING" /\ Refreshed(boardRow).status = "PENDING"
  BY <1>2, <1>4 DEF Refreshed, Refreshable, BoardRows
<1>6. ASSUME NEW w \in BoardWorkers, NEW force, Starts(w, force), UNCHANGED <<boardRow, boardPosts>> PROVE FaultlessInv'
  <2> DEFINE new == [NoSync EXCEPT !.phase = "asking", !.force = force]
  <2>1. new.phase = "asking" /\ new.age = 0
    BY DEF NoSync
  <2>2. GoesWith(w, new) /\ ~SyncWorks(w)
    BY <1>6 DEF Starts, At, SyncWorks, Working
  <2> HIDE DEF new
  <2>3. boardSync'[w].phase \notin Working /\ boardSync'[w].age <= 1 /\ Alone(w)
    BY <2>1, <2>2, GoesWithIs DEF Working
  <2> QED BY <1>1, <1>6, <2>2, <2>3, RestingMoves
<1>7. ASSUME NEW w \in BoardWorkers, RequestSync(w) PROVE FaultlessInv'
  <2>1. boardSync'[w].phase \notin Working /\ boardSync'[w].age <= 1 /\ Alone(w) /\ ~SyncWorks(w)
    BY <1>3, <1>7, GoesIs DEF RequestSync, At, SyncWorks, Working, OnTime, Same
  <2> QED BY <1>1, <1>5, <1>7, <2>1, RestingMoves DEF RequestSync
<1>8. ASSUME NEW w \in BoardWorkers, ClaimSync(w) PROVE FaultlessInv'
  <2> DEFINE row == IF boardSync[w].force THEN Refreshed(boardRow) ELSE boardRow
             m == row.message
             d == row.digest
             new == [boardSync[w] EXCEPT !.phase = "loading", !.message = m, !.digest = d, !.lead = 2]
  <2>1. /\ row \in BoardRows /\ m = boardRow.message /\ d = boardRow.digest
        /\ row = boardRow \/ (boardRow.status # "SYNCING" /\ row.status = "PENDING")
    BY <1>2, <1>5
  <2>2. ~SyncWorks(w) /\ boardPosts' = boardPosts
    BY <1>8 DEF ClaimSync, At, SyncWorks, Working
  <2>3. \/ Claimable(row) /\ boardRow' = [row EXCEPT !.status = "SYNCING", !.claim = w, !.leased = 0] /\ GoesWith(w, new)
        \/ boardRow' = row /\ SyncEnds(w)
    BY <1>8 DEF ClaimSync
  <2>4. new.phase = "loading" /\ new.age = boardSync[w].age
    BY <1>2 DEF SyncStates
  <2>5. m = row.message /\ d = row.digest
    OBVIOUS
  <2> HIDE DEF row, m, d, new
  <2>6. CASE boardRow' = row /\ SyncEnds(w)
    <3>1. boardSync'[w].phase \notin Working /\ boardSync'[w].age <= 1 /\ Alone(w)
      BY <2>6, GoesWithIs DEF SyncEnds, NoSync, Working
    <3> QED BY <1>1, <2>1, <2>2, <2>5, <2>6, <3>1, RestingMoves
  <2>7. CASE Claimable(row) /\ boardRow' = [row EXCEPT !.status = "SYNCING", !.claim = w, !.leased = 0] /\ GoesWith(w, new)
    <3>1. boardSync'[w].phase = "loading" /\ boardSync'[w].age <= 1 /\ Alone(w)
      BY <1>3, <2>4, <2>7, GoesWithIs DEF OnTime
    <3>2. boardRow'.status = "SYNCING" /\ boardRow'.claim = w /\ boardRow'.message = boardRow.message
          /\ boardRow'.digest = boardRow.digest
      BY <2>1, <2>5, <2>7 DEF BoardRows
    <3>3. boardRow.status # "SYNCING"
      BY <1>4, <2>1, <2>7 DEF Claimable
    <3>4. \A u \in BoardWorkers : ~SyncWorks(u)
      BY <1>3, <3>3 DEF AllHold, StillHeld
    <3>5. SyncWorks(w)' => StillHeld(w)' /\ boardSync'[w].phase \notin {"removing", "failing"}
      BY <3>1, <3>2 DEF StillHeld
    <3>6. Recalls' /\ Underway(w)'
      BY <3>1, <3>2 DEF Recalls, SyncWorks, Working, Underway
    <3>7. Tells'
      BY <1>3, <2>2, <3>2, <3>4 DEF Tells, Truthful, At, SyncWorks, Working
    <3> QED BY <1>3, <3>1, <3>4, <3>5, <3>6, <3>7, OnlyOneMoves
  <2> QED BY <2>3, <2>6, <2>7
<1>9. ASSUME NEW w \in BoardWorkers, SyncStep(w) PROVE FaultlessInv'
  <2>1. CASE SyncWorks(w)
    BY <1>1, <1>9, <2>1, WorkIsFaultless
  <2>2. CASE ~SyncWorks(w)
    <3>1. RequestSync(w) \/ ClaimSync(w)
      BY <1>9, <2>2 DEF SyncStep, LoadBoard, EditBoard, PostBoard, PinBoard, RemoveBoard, CompleteSync,
         CompleteUnchanged, FailSync, At, SyncWorks, Working
    <3> QED BY <1>7, <1>8, <3>1
  <2> QED BY <2>1, <2>2
<1>10. CASE SiteChanges
  <2>1. UNCHANGED <<boardRow, boardPosts, boardSync>>
    BY <1>10 DEF SiteChanges
  <2> QED BY <1>3, <2>1 DEF FaultlessInv, OnTime, AllHold, Recalls, Tells, Truthful, Underway, SyncWorks, StillHeld, At
<1>11. CASE MinutePasses
  BY <1>1, <1>11, MinutesArePrompt
<1>12. ASSUME NEW w \in BoardWorkers, SyncAfterMutation(w) \/ PressRefresh(w) \/ CronSync(w) PROVE FaultlessInv'
  BY <1>6, <1>12 DEF SyncAfterMutation, PressRefresh, CronSync
<1>13. \A w \in BoardWorkers : ~WorkerStops(w)
  BY <1>1 DEF WorkerStops
<1>14. \A m \in BoardIds : ~SomebodyDeletes(m)
  BY <1>1 DEF SomebodyDeletes
<1> QED BY <1>9, <1>10, <1>11, <1>12, <1>13, <1>14 DEF BoardNext

(* Everything that the row, the channel and the syncs keep of one another.  *)
BoardInv == BoardTypeOK /\ PostsInv /\ LeaseInv /\ DebtInv /\ FaultlessInv

(* The invariant holds in every state, whatever the syncs, the messages     *)
(* and the faults.                                                          *)
LEMMA BoardInvHolds == BoardSpec => []BoardInv
<1>1. BoardInit => BoardInv
  <2> SUFFICES ASSUME BoardInit PROVE BoardInv
    OBVIOUS
  <2>1. BoardTypeOK
    BY BoardBounds DEF BoardInit, BoardTypeOK, NoBoard, NotPosted, NoSync, SyncPhases, Versions
  <2>2. \A w \in BoardWorkers : boardSync[w] = NoSync
    BY DEF BoardInit
  <2>3. \A m \in BoardIds : boardPosts[m] = NotPosted /\ m # 0
    BY BoardBounds DEF BoardInit, BoardIds
  <2>4. PostsInv
    BY <2>2, <2>3 DEF BoardInit, PostsInv, NoBoard, NoSync, NotPosted, IsPosted, At, Having, BoardIds
  <2>5. LeaseInv
    BY <2>2 DEF LeaseInv, SyncWorks, Working, NoSync
  <2>6. DebtInv
    <3>1. LooseBoards = {}
      BY <2>3 DEF LooseBoards, IsAlive, NotPosted
    <3>2. LooseSyncs = {}
      BY <2>2 DEF LooseSyncs, NoSync, Bringing
    <3>3. ~Overdue
      BY DEF BoardInit, NoBoard, Overdue
    <3> QED BY <3>1, <3>2, <3>3, FS_EmptySet DEF DebtInv, BoardInit
  <2>7. OnTime /\ AllHold /\ Recalls /\ Tells
    BY <2>2 DEF BoardInit, OnTime, AllHold, Recalls, Tells, NoSync, NoBoard, SyncWorks, Working
  <2>8. \A w \in BoardWorkers : Underway(w)
    BY <2>2 DEF Underway, NoSync
  <2> QED BY <2>1, <2>4, <2>5, <2>6, <2>7, <2>8 DEF BoardInv, FaultlessInv
<1>2. BoardInv /\ [BoardNext]_boardVars => BoardInv'
  <2> SUFFICES ASSUME BoardInv, [BoardNext]_boardVars PROVE BoardInv'
    OBVIOUS
  <2>1. CASE BoardNext
    <3>1. BoardTypeOK'
      BY <2>1, BoardTypes DEF BoardInv, PostsInv
    <3>2. DebtInv'
      <4>1. boardFaults \in Nat /\ boardFaults' \in {boardFaults, boardFaults + 1}
        BY <2>1, BoardBounds, BoardCounts DEF BoardInv, BoardTypeOK
      <4> QED BY <2>1, <4>1, WhatIsOwed, DebtsAreKept DEF BoardInv
    <3>3. PostsInv' /\ LeaseInv' /\ FaultlessInv'
      BY <2>1, PostsKept, LeaseKept, FaultlessKept DEF BoardInv
    <3> QED BY <3>1, <3>2, <3>3 DEF BoardInv
  <2>2. CASE UNCHANGED boardVars
    BY <2>2 DEF boardVars, BoardInv, BoardTypeOK, PostsInv, LeaseInv, HoldsRightly, DebtInv, LooseBoards, LooseSyncs,
       Overdue, Lapsed, HasIt, IsAlive, IsPosted, FaultlessInv, OnTime, AllHold, Recalls, Tells, Truthful, Underway,
       SyncWorks, StillHeld, At
  <2> QED BY <2>1, <2>2
<1> QED BY <1>1, <1>2, PTL DEF BoardSpec

(* From it: every message beyond the first is owed to a fault;              *)
LEMMA SurplusIsOwed ==
    ASSUME BoardInv
    PROVE  SurplusBoardsAreFaults
<1> DEFINE S == {m \in BoardIds : boardPosts[m].alive}
<1>1. \A m \in BoardIds : m # 0
  BY BoardBounds DEF BoardIds
<1>2. PICK x : S \subseteq LooseBoards \cup {x}
  <2>1. CASE \E w \in BoardWorkers : StillHeld(w) /\ boardSync[w].phase \in Having
    <3>1. PICK w \in BoardWorkers : StillHeld(w) /\ boardSync[w].phase \in Having
      BY <2>1
    <3>2. boardSync[w].message = boardRow.message \/ ~IsAlive(boardRow.message)
      BY <3>1 DEF BoardInv, LeaseInv, HoldsRightly, SyncWorks, Working, Having
    <3>3. \A u \in BoardWorkers : StillHeld(u) => u = w
      BY <3>1 DEF StillHeld
    <3>4. S \subseteq LooseBoards \cup {boardSync[w].message}
      BY <1>1, <3>2, <3>3 DEF LooseBoards, IsAlive, HasIt
    <3> QED BY <3>4
  <2>2. CASE ~\E w \in BoardWorkers : StillHeld(w) /\ boardSync[w].phase \in Having
    <3>1. S \subseteq LooseBoards \cup {boardRow.message}
      BY <1>1, <2>2 DEF LooseBoards, IsAlive, HasIt
    <3> QED BY <3>1
  <2> QED BY <2>1, <2>2
<1>3. IsFiniteSet(BoardIds) /\ IsFiniteSet(BoardWorkers)
  BY FS_Interval, BoardBounds, BoardAssumption DEF BoardIds, BoardAssumption
<1>4. IsFiniteSet(LooseBoards) /\ IsFiniteSet(LooseSyncs)
  BY <1>3, FS_Subset DEF LooseBoards, LooseSyncs
<1> DEFINE b == Cardinality(LooseBoards)
           s == Cardinality(LooseSyncs)
           o == IF Overdue THEN 1 ELSE 0
           a == Cardinality(S)
<1>5. b + s + o <= boardFaults
  BY DEF BoardInv, DebtInv
<1>6. a <= b + 1 /\ IsFiniteSet(S)
  BY <1>2, <1>4, OneMoreMember
<1>7. a \in Nat /\ b \in Nat /\ s \in Nat /\ o \in Nat /\ boardFaults \in Nat
  BY <1>4, <1>6, FS_CardinalityType, BoardBounds DEF BoardInv, BoardTypeOK
<1>8. a <= 1 + boardFaults
  <2> HIDE DEF a, b, s, o
  <2> QED BY <1>5, <1>6, <1>7
<1> QED BY <1>8 DEF SurplusBoardsAreFaults

(* a synced board is there while nothing has gone wrong;                    *)
LEMMA SyncedIsThere ==
    ASSUME BoardInv
    PROVE  SyncedBoardIsThere
<1> SUFFICES ASSUME boardFaults = 0, boardRow.status = "SYNCED"
             PROVE  /\ boardRow.message # 0 /\ Truthful
                    /\ boardPosts[boardRow.message].alive /\ boardPosts[boardRow.message].pinned
  BY DEF SyncedBoardIsThere, Truthful
<1>1. AllHold /\ Recalls /\ Tells
  BY DEF BoardInv, FaultlessInv
<1>2. \A w \in BoardWorkers : ~At(w, "recording")
  BY <1>1 DEF AllHold, StillHeld, At, SyncWorks, Working
<1> QED BY <1>1, <1>2 DEF Recalls, Tells

(* and a sync records only over the revision that it has read.              *)
LEMMA RecordsLead ==
    ASSUME BoardInv, BoardNext, NEW w \in BoardWorkers, At(w, "recording"), boardRow' # boardRow,
           boardRow'.status = "SYNCED", boardSync'[w].phase = "idle"
    PROVE  boardSync[w].lead = 2
<1>1. /\ boardSync \in [BoardWorkers -> SyncStates] /\ BoardTypeOK /\ boardSync[w].phase = "recording"
      /\ boardSync'[w].phase # boardSync[w].phase
  BY DEF BoardInv, BoardTypeOK, SyncStates, At
<1>2. ASSUME NEW u \in BoardWorkers, Alone(u) PROVE u = w
  BY <1>1, <1>2 DEF Alone
<1>3. ASSUME NEW u \in BoardWorkers, NEW phase, Goes(u, phase) PROVE u = w
  BY <1>1, <1>2, <1>3, GoesIs
<1>4. ASSUME NEW u \in BoardWorkers, NEW s, GoesWith(u, s) PROVE u = w
  BY <1>1, <1>2, <1>4, GoesWithIs
<1>5. ASSUME NEW u \in BoardWorkers, SyncEnds(u) PROVE u = w
  BY <1>4, <1>5 DEF SyncEnds
<1>6. ~MinutePasses
  <2> SUFFICES ASSUME MinutePasses PROVE FALSE
    OBVIOUS
  <2> DEFINE now == [boardSync[w].digest EXCEPT !.age = Older(@)]
             age == Older(boardSync[w].age)
  <2>1. boardSync'[w] = [boardSync[w] EXCEPT !.age = age, !.digest = now]
    <3>1. boardSync'[w] = IF At(w, "idle") THEN NoSync
                          ELSE [boardSync[w] EXCEPT !.age = Older(@), !.digest.age = Older(@)]
      BY DEF MinutePasses
    <3> QED BY <1>1, <3>1 DEF At
  <2> HIDE DEF now, age
  <2> QED BY <1>1, <2>1 DEF SyncStates
<1>7. ASSUME NEW u \in BoardWorkers, SyncStep(u) PROVE CompleteSync(w) /\ StillHeld(w)
  <2>1. CASE CompleteSync(u) /\ StillHeld(u)
    <3>1. boardSync' = [v \in BoardWorkers |-> IF v = u THEN NoSync ELSE [boardSync[v] EXCEPT !.lead = Behind(@)]]
      BY <2>1 DEF CompleteSync
    <3>2. u # w => boardSync'[w].phase = boardSync[w].phase
      BY <1>1, <3>1 DEF SyncStates
    <3> QED BY <1>1, <2>1, <3>2
  <2>2. CASE CompleteSync(u) /\ ~StillHeld(u)
    BY <2>2 DEF CompleteSync
  <2>3. CASE ClaimSync(u)
    <3>1. u = w
      BY <1>4, <1>5, <2>3 DEF ClaimSync
    <3> QED BY <1>1, <2>3, <3>1 DEF ClaimSync, At
  <2>4. CASE RequestSync(u)
    BY <1>1, <1>3, <2>4 DEF RequestSync, At
  <2>5. CASE CompleteUnchanged(u) \/ FailSync(u)
    BY <1>1, <1>5, <2>5 DEF CompleteUnchanged, FailSync, At
  <2>6. CASE LoadBoard(u) \/ EditBoard(u) \/ PostBoard(u) \/ PinBoard(u) \/ RemoveBoard(u)
    BY <2>6 DEF LoadBoard, EditBoard, PostBoard, PinBoard, RemoveBoard
  <2> QED BY <1>7, <2>1, <2>2, <2>3, <2>4, <2>5, <2>6 DEF SyncStep
<1>8. CompleteSync(w) /\ StillHeld(w)
  BY <1>6, <1>7 DEF BoardNext, SiteChanges, SyncAfterMutation, PressRefresh, CronSync, WorkerStops, SomebodyDeletes
<1> QED BY <1>1, <1>8 DEF BoardInv, LeaseInv, HoldsRightly, SyncWorks, Working

(* There is one board but for what went wrong, the row tells the truth      *)
(* of it, and no record is lost (discord-operations-board*.ts and its       *)
(* repository).                                                             *)
THEOREM BoardIsOne == BoardSpec => BoardIsKept
<1>1. BoardSpec => []BoardInv
  BY BoardInvHolds
<1>2. BoardInv => BoardTypeOK /\ SurplusBoardsAreFaults /\ SyncedBoardIsThere
  BY SurplusIsOwed, SyncedIsThere DEF BoardInv
<1> DEFINE Records == \A w \in BoardWorkers :
                          At(w, "recording") /\ boardRow' # boardRow /\ boardRow'.status = "SYNCED"
                              /\ boardSync'[w].phase = "idle"
                          => boardSync[w].lead = 2
<1>3. BoardInv /\ [BoardNext]_boardVars => [Records]_boardVars
  BY RecordsLead
<1>4. NoLostBoard <=> [][Records]_boardVars
  BY DEF NoLostBoard
<1> HIDE DEF Records
<1> QED BY <1>1, <1>2, <1>3, <1>4, PTL DEF BoardSpec, BoardIsKept

-----------------------------------------------------------------------------
(* The recorder of evidence.                                                *)

(* What the history, the records and the recorders may hold.                *)
Paths == {"declared", "stray", "empty"}
HistoryEntries == [ancestors : SUBSET CommitIds, parents : Seq(CommitIds), paths : Paths]
WorkTrees == [head : CommitIds, clean : BOOLEAN]
Baselines == SUBSET [todo : Todos, commit : CommitIds]
StartRecords == [sha : CommitIds, baseline : Baselines]
CommandResults == [log : Nat, version : Nat, passed : BOOLEAN, at : CommitIds, cleanAfter : BOOLEAN]
Manifests == [commit : CommitIds, sha : CommitIds, baseline : Baselines, commands : Seq(CommandResults),
              evidence : Nat, paths : Paths]
Receipts == [commit : CommitIds, at : CommitIds, manifest : Manifests]
StartWork == [command : {"start"}, todo : Todos, file : StartRecords]
RunWork == [command : {"run"}, todo : Todos, existing : Seq(CommandResults), log : Nat, at : CommitIds]
FinalizeWork == [command : {"finalize"}, todo : Todos, file : Manifests]
IntegrateWork == [command : {"integrate"}, todo : Todos, file : Receipts]
RecorderWork == {Free} \cup StartWork \cup RunWork \cup FinalizeWork \cup IntegrateWork

LogsAreShaped(l) ==
    /\ l \in [Todos -> UNION {[1 .. MaxRuns[t] -> Nat] : t \in Todos}]
    /\ \A t \in Todos : l[t] \in [1 .. MaxRuns[t] -> Nat]

EvidenceShape ==
    /\ identity \in {"NONE", "APPROVED", "DRIFTED"}
    /\ history \in [CommitIds -> {NoFile} \cup HistoryEntries]
    /\ mainHead \in CommitIds
    /\ worktree \in [Todos -> {NoFile} \cup WorkTrees]
    /\ startRecord \in [Todos -> {NoFile} \cup StartRecords]
    /\ commandRecords \in [Todos -> Seq(CommandResults)]
    /\ manifest \in [Todos -> {NoFile} \cup Manifests]
    /\ integration \in [Todos -> {NoFile} \cup Receipts]
    /\ LogsAreShaped(logs)
    /\ narrative \in [Todos -> Nat]
    /\ recorder \in [Recorders -> RecorderWork]
    /\ reported \in [Todos -> SUBSET Nat]
    /\ overlapped \subseteq Todos
    /\ evidenceFaults \in Nat

(* Nothing is recorded before the attempt is approved, and the approval is  *)
(* lost to a fault only.                                                    *)
IdentityHolds ==
    /\ identity = "NONE" =>
         /\ \A r \in Recorders : recorder[r].command = "none"
         /\ \A t \in Todos : integration[t] = NoFile
    /\ identity = "DRIFTED" => evidenceFaults # 0

(* The history is closed, and every merge in it is in the branch.           *)
HistoryHolds ==
    /\ MadeCommit(Base) /\ MadeCommit(Bootstrap) /\ MadeCommit(mainHead)
    /\ \A t \in Todos : worktree[t] # NoFile => MadeCommit(worktree[t].head)
    /\ \A c \in CommitIds : MadeCommit(c) =>
         /\ c \in history[c].ancestors
         /\ \A a \in history[c].ancestors : MadeCommit(a) /\ history[a].ancestors \subseteq history[c].ancestors
         /\ Len(history[c].parents) = 2 => c \in history[mainHead].ancestors

(* What a start record names as its baseline has a receipt that says so.     *)
StartFits(f) ==
    /\ MadeCommit(f.sha)
    /\ \A e \in f.baseline : integration[e.todo] # NoFile /\ integration[e.todo].commit = e.commit

StartsHold ==
    /\ \A t \in Todos : startRecord[t] # NoFile => StartFits(startRecord[t])
    /\ \A r \in Recorders : recorder[r].command = "start" => StartFits(recorder[r].file)

(* The records of the commands of a todo are of logs that were written.     *)
RecordsLogged(t, records) ==
    \A i \in DOMAIN records :
       /\ records[i].log \in 1 .. MaxRuns[t] /\ records[i].version # 0
       /\ evidenceFaults = 0 => logs[t][records[i].log] = records[i].version

(* A manifest is of the start of its todo and of commands that passed; and, *)
(* unless somebody rewrites, of a commit on that start, of commands that    *)
(* ran on it, and of files that still are what they were.                   *)
ManifestFits(t, f) ==
    /\ startRecord[t] # NoFile /\ f.sha = startRecord[t].sha /\ f.baseline = startRecord[t].baseline
    /\ f.commands # <<>>
    /\ \A i \in DOMAIN f.commands : f.commands[i].passed /\ f.commands[i].cleanAfter
    /\ RecordsLogged(t, f.commands)
    /\ evidenceFaults = 0 =>
         /\ MadeCommit(f.commit) /\ history[f.commit].parents = <<f.sha>> /\ history[f.commit].paths = f.paths
         /\ \A i \in DOMAIN f.commands : f.commands[i].at = f.commit
         /\ f.evidence # 0 /\ narrative[t] = f.evidence

ManifestsHold ==
    /\ \A t \in Todos : manifest[t] # NoFile => ManifestFits(t, manifest[t])
    /\ \A r \in Recorders : recorder[r].command = "finalize" => ManifestFits(recorder[r].todo, recorder[r].file)

(* A receipt is of the manifest, and of a merge of its commit.              *)
ReceiptFits(t, f) ==
    /\ manifest[t] # NoFile
    /\ evidenceFaults = 0 =>
         f.manifest = manifest[t] /\ f.commit = manifest[t].commit /\ IntegratesTask(t, f.commit, f.at)

ReceiptsHold ==
    /\ \A t \in Todos : integration[t] # NoFile => ReceiptFits(t, integration[t])
    /\ \A r \in Recorders : recorder[r].command = "integrate" => ReceiptFits(recorder[r].todo, recorder[r].file)

(* The only run of a todo has read the records there are.                   *)
RunFits(r) ==
    LET job == recorder[r] IN
    /\ job.log \in 1 .. MaxRuns[job.todo] /\ logs[job.todo][job.log] # 0 /\ worktree[job.todo] # NoFile
    /\ RecordsLogged(job.todo, job.existing)
    /\ job.todo \notin overlapped =>
         /\ job.existing = commandRecords[job.todo]
         /\ \A q \in Recorders : recorder[q].command = "run" /\ recorder[q].todo = job.todo => q = r

LogsOf(records) == {records[i].log : i \in DOMAIN records}

RunsHold ==
    /\ \A r \in Recorders : recorder[r].command = "run" => RunFits(r)
    /\ \A t \in Todos : RecordsLogged(t, commandRecords[t])
    /\ \A t \in Todos \ overlapped : reported[t] = LogsOf(commandRecords[t])

(* What the evidence rests on.                                              *)
EvidenceInv ==
    EvidenceShape /\ IdentityHolds /\ HistoryHolds /\ StartsHold /\ ManifestsHold /\ ReceiptsHold /\ RunsHold

(* The absence of a file is none of the files.                              *)
LEMMA NoFileIsNone ==
    NoFile \notin HistoryEntries /\ NoFile \notin WorkTrees /\ NoFile \notin StartRecords
    /\ NoFile \notin Manifests /\ NoFile \notin Receipts
<1>1. DOMAIN NoFile = {"none"}
  BY DEF NoFile
<1>2. \A f \in HistoryEntries : "paths" \in DOMAIN f
  BY DEF HistoryEntries
<1>3. \A f \in WorkTrees : "clean" \in DOMAIN f
  BY DEF WorkTrees
<1>4. \A f \in StartRecords : "sha" \in DOMAIN f
  BY DEF StartRecords
<1>5. \A f \in Manifests : "paths" \in DOMAIN f
  BY DEF Manifests
<1>6. \A f \in Receipts : "at" \in DOMAIN f
  BY DEF Receipts
<1> QED BY <1>1, <1>2, <1>3, <1>4, <1>5, <1>6

(* The commits there may be.                                                *)
LEMMA CommitFacts ==
    /\ Base \in CommitIds /\ Bootstrap \in CommitIds /\ Base # Bootstrap
    /\ WorkCommits \subseteq CommitIds
    /\ \A c \in WorkCommits : MergeOf(c) \in CommitIds /\ c[1] \in Todos
<1>1. 1 \in Todos /\ MaxCommits[1] \in Nat \ {0}
  BY EvidenceAssumption DEF EvidenceAssumption
<1>2. Bootstrap \in {1} \X (1 .. MaxCommits[1])
  BY <1>1 DEF Bootstrap
<1>3. Bootstrap \in WorkCommits
  BY <1>1, <1>2 DEF WorkCommits
<1>4. \A c \in WorkCommits : c[1] \in Todos
  BY DEF WorkCommits
<1> QED BY <1>3, <1>4 DEF CommitIds, Base, Bootstrap

(* A command that a recorder is in the middle of is of one kind.            *)
LEMMA WorkOfRecorders ==
    /\ Free \in RecorderWork /\ Free.command = "none"
    /\ \A w \in RecorderWork :
         /\ w.command = "start" => w \in StartWork
         /\ w.command = "run" => w \in RunWork
         /\ w.command = "finalize" => w \in FinalizeWork
         /\ w.command = "integrate" => w \in IntegrateWork
BY DEF RecorderWork, Free, StartWork, RunWork, FinalizeWork, IntegrateWork

(* At first there is the bootstrap commit and no evidence.                  *)
LEMMA EvidenceStarts == EvidenceInit => EvidenceInv
<1> SUFFICES ASSUME EvidenceInit PROVE EvidenceInv
  OBVIOUS
<1> USE CommitFacts, NoFileIsNone
<1> DEFINE first == [ancestors |-> {Base}, parents |-> <<>>, paths |-> "empty"]
<1> DEFINE second == [ancestors |-> {Base, Bootstrap}, parents |-> <<Base>>, paths |-> "declared"]
<1>1. /\ first \in HistoryEntries /\ first.ancestors = {Base} /\ Len(first.parents) = 0
      /\ second \in HistoryEntries /\ second.ancestors = {Base, Bootstrap} /\ Len(second.parents) = 1
  BY DEF HistoryEntries, Paths
<1>2. history = [c \in CommitIds |-> IF c = Base THEN first ELSE IF c = Bootstrap THEN second ELSE NoFile]
  <2>1. history = [c \in CommitIds |-> CASE c = Base -> first [] c = Bootstrap -> second [] OTHER -> NoFile]
    BY DEF EvidenceInit
  <2> HIDE DEF first, second
  <2> QED BY <2>1
<1> HIDE DEF first, second
<1>3. /\ history[Base] = first /\ history[Bootstrap] = second
      /\ \A c \in CommitIds : history[c] # NoFile => c \in {Base, Bootstrap}
  BY <1>2
<1>4. worktree \in [Todos -> {NoFile} \cup WorkTrees] /\ \A t \in Todos : worktree[t] # NoFile => worktree[t].head = Bootstrap
  <2> DEFINE tree == [head |-> Bootstrap, clean |-> TRUE]
  <2>1. tree \in WorkTrees /\ tree.head = Bootstrap
    BY DEF WorkTrees
  <2>2. worktree = [t \in Todos |-> IF t = 1 THEN tree ELSE NoFile]
    BY DEF EvidenceInit
  <2> HIDE DEF tree
  <2> QED BY <2>1, <2>2
<1>5. LogsAreShaped(logs)
  <2>1. \A t \in Todos : [i \in 1 .. MaxRuns[t] |-> 0] \in [1 .. MaxRuns[t] -> Nat]
    OBVIOUS
  <2>2. logs = [t \in Todos |-> [i \in 1 .. MaxRuns[t] |-> 0]]
    BY DEF EvidenceInit
  <2> QED BY <2>1, <2>2 DEF LogsAreShaped
<1>6. EvidenceShape
  <2>1. history \in [CommitIds -> {NoFile} \cup HistoryEntries]
    BY <1>1, <1>2
  <2>2. /\ startRecord \in [Todos -> {NoFile} \cup StartRecords] /\ manifest \in [Todos -> {NoFile} \cup Manifests]
        /\ integration \in [Todos -> {NoFile} \cup Receipts] /\ commandRecords \in [Todos -> Seq(CommandResults)]
    BY DEF EvidenceInit
  <2>3. /\ narrative \in [Todos -> Nat] /\ reported \in [Todos -> SUBSET Nat] /\ overlapped \subseteq Todos
        /\ evidenceFaults \in Nat /\ identity \in {"NONE", "APPROVED", "DRIFTED"} /\ mainHead \in CommitIds
    BY DEF EvidenceInit
  <2>4. recorder \in [Recorders -> RecorderWork]
    BY WorkOfRecorders DEF EvidenceInit
  <2> QED BY <1>4, <1>5, <2>1, <2>2, <2>3, <2>4 DEF EvidenceShape
<1>7. HistoryHolds
  <2>1. MadeCommit(Base) /\ MadeCommit(Bootstrap) /\ mainHead = Bootstrap
    BY <1>1, <1>3 DEF EvidenceInit, MadeCommit
  <2>2. \A t \in Todos : worktree[t] # NoFile => MadeCommit(worktree[t].head)
    BY <1>4, <2>1
  <2>3. ASSUME NEW c \in CommitIds, MadeCommit(c)
        PROVE  /\ c \in history[c].ancestors
               /\ \A a \in history[c].ancestors : MadeCommit(a) /\ history[a].ancestors \subseteq history[c].ancestors
               /\ Len(history[c].parents) # 2
    <3>1. c = Base \/ c = Bootstrap
      BY <1>3, <2>3 DEF MadeCommit
    <3>2. CASE c = Base
      BY <1>1, <1>3, <2>1, <3>2
    <3>3. CASE c = Bootstrap
      BY <1>1, <1>3, <2>1, <3>3
    <3> QED BY <3>1, <3>2, <3>3
  <2> QED BY <2>1, <2>2, <2>3 DEF HistoryHolds
<1>8. IdentityHolds /\ StartsHold /\ ManifestsHold /\ ReceiptsHold
  BY WorkOfRecorders DEF EvidenceInit, IdentityHolds, StartsHold, ManifestsHold, ReceiptsHold
<1>9. RunsHold
  BY WorkOfRecorders DEF EvidenceInit, RunsHold, RecordsLogged, LogsOf
<1> QED BY <1>6, <1>7, <1>8, <1>9 DEF EvidenceInv

(* No step unmakes a commit or replaces a record; and unless somebody       *)
(* rewrites, what was written stays as it was.                              *)
EvidenceGrows ==
    /\ \A c \in CommitIds : MadeCommit(c) => history'[c] = history[c]
    /\ \A t \in Todos :
         /\ startRecord[t] # NoFile => startRecord'[t] = startRecord[t]
         /\ integration[t] # NoFile => integration'[t] = integration[t]
         /\ manifest[t] # NoFile => manifest'[t] # NoFile
         /\ worktree[t] # NoFile => worktree'[t] # NoFile
         /\ \A i \in 1 .. MaxRuns[t] : logs[t][i] # 0 => logs'[t][i] # 0
    /\ evidenceFaults' = 0 =>
         /\ evidenceFaults = 0
         /\ \A t \in Todos :
              /\ manifest[t] # NoFile => manifest'[t] = manifest[t]
              /\ narrative[t] # 0 => narrative'[t] = narrative[t]
              /\ \A i \in 1 .. MaxRuns[t] : logs[t][i] # 0 => logs'[t][i] = logs[t][i]

(* What a commit descends from is not changed.                              *)
LEMMA DescentStays ==
    ASSUME HistoryHolds, EvidenceGrows, NEW a \in CommitIds, NEW c \in CommitIds, IsAncestor(a, c)
    PROVE  IsAncestor(a, c)' /\ MadeCommit(c)' /\ history'[c] = history[c]
BY DEF EvidenceGrows, IsAncestor, MadeCommit

(* A start that fits stays so.                                              *)
LEMMA StartFitsStays ==
    ASSUME EvidenceShape, HistoryHolds, EvidenceGrows, NEW f \in StartRecords, StartFits(f)
    PROVE  StartFits(f)'
<1>1. f.sha \in CommitIds /\ \A e \in f.baseline : e.todo \in Todos
  BY DEF StartRecords, Baselines
<1>2. \A e \in f.baseline : integration'[e.todo] # NoFile /\ integration'[e.todo].commit = e.commit
  BY <1>1 DEF EvidenceGrows, StartFits
<1>3. history'[f.sha] # NoFile
  BY <1>1 DEF EvidenceGrows, StartFits, MadeCommit
<1> QED BY <1>2, <1>3 DEF StartFits, MadeCommit

(* Records of logs that were written stay so.                               *)
LEMMA RecordsLoggedStay ==
    ASSUME EvidenceGrows, NEW t \in Todos, NEW rs, RecordsLogged(t, rs)
    PROVE  RecordsLogged(t, rs)'
BY DEF EvidenceGrows, RecordsLogged

(* A manifest that fits stays so.                                           *)
LEMMA ManifestFitsStays ==
    ASSUME EvidenceGrows, NEW t \in Todos, NEW f \in Manifests, ManifestFits(t, f)
    PROVE  ManifestFits(t, f)'
<1>1. f.commit \in CommitIds
  BY DEF Manifests
<1>2. RecordsLogged(t, f.commands)'
  <2>1. PICK rs : rs = f.commands
    OBVIOUS
  <2>2. RecordsLogged(t, rs)
    BY <2>1 DEF ManifestFits
  <2>3. RecordsLogged(t, rs)'
    BY <2>2, RecordsLoggedStay
  <2> QED BY <2>1, <2>3
<1>3. startRecord[t] # NoFile /\ startRecord'[t] = startRecord[t]
  BY DEF ManifestFits, EvidenceGrows
<1>4. ASSUME evidenceFaults' = 0
      PROVE  /\ evidenceFaults = 0 /\ history[f.commit] # NoFile /\ history'[f.commit] = history[f.commit]
             /\ f.evidence # 0 /\ narrative'[t] = narrative[t]
  BY <1>1, <1>4 DEF ManifestFits, EvidenceGrows, MadeCommit
<1> QED BY <1>2, <1>3, <1>4 DEF ManifestFits, MadeCommit

(* A receipt that fits stays so.                                            *)
LEMMA ReceiptFitsStays ==
    ASSUME EvidenceShape, HistoryHolds, EvidenceGrows, NEW t \in Todos, NEW f \in Receipts, ReceiptFits(t, f)
    PROVE  ReceiptFits(t, f)'
<1>1. f.commit \in CommitIds /\ f.at \in CommitIds
  BY DEF Receipts
<1>2. manifest'[t] # NoFile
  BY DEF ReceiptFits, EvidenceGrows
<1>3. ASSUME evidenceFaults' = 0
      PROVE  f.manifest = manifest'[t] /\ f.commit = manifest'[t].commit
  BY <1>3 DEF ReceiptFits, EvidenceGrows
<1>4. ASSUME evidenceFaults' = 0
      PROVE  IntegratesTask(t, f.commit, f.at)'
  <2>1. IsAncestor(f.commit, f.at) /\ (t # 1 => Len(history[f.at].parents) = 2 /\ IsAncestor(f.commit, history[f.at].parents[2]))
        /\ (t = 1 => f.at = f.commit)
    BY <1>4 DEF ReceiptFits, EvidenceGrows, IntegratesTask
  <2>2. history[f.at] # NoFile /\ history'[f.at] = history[f.at] /\ IsAncestor(f.commit, f.at)'
    BY <1>1, <2>1 DEF EvidenceGrows, IsAncestor, MadeCommit
  <2>3. ASSUME t # 1 PROVE IsAncestor(f.commit, history[f.at].parents[2])'
    <3>1. history[f.at] \in HistoryEntries
      BY <1>1, <2>2 DEF EvidenceShape
    <3>2. PICK p : p = history[f.at].parents[2]
      OBVIOUS
    <3>3. p \in CommitIds
      BY <2>1, <2>3, <3>1, <3>2 DEF HistoryEntries
    <3>4. IsAncestor(f.commit, p)
      BY <2>1, <2>3, <3>2
    <3>5. IsAncestor(f.commit, p)'
      BY <1>1, <3>3, <3>4 DEF EvidenceGrows, IsAncestor, MadeCommit
    <3> QED BY <2>2, <3>2, <3>5 DEF IsAncestor, MadeCommit
  <2> QED BY <2>1, <2>2, <2>3 DEF IntegratesTask
<1> QED BY <1>2, <1>3, <1>4 DEF ReceiptFits

(* A record comes from the recorder that made it ready, and a recorder goes *)
(* on with what it was at, ends it, or begins what fits.                    *)
RecordsFollow ==
    /\ \A t \in Todos :
         /\ \/ startRecord'[t] = startRecord[t]
            \/ \E r \in Recorders : /\ recorder[r].command = "start" /\ recorder[r].todo = t
                                    /\ startRecord'[t] = recorder[r].file
         /\ \/ manifest'[t] = manifest[t]
            \/ \E r \in Recorders : /\ recorder[r].command = "finalize" /\ recorder[r].todo = t
                                    /\ manifest'[t] = recorder[r].file
            \/ /\ evidenceFaults' # 0 /\ manifest[t] # NoFile
               /\ \E c \in CommitIds : manifest'[t] = [manifest[t] EXCEPT !.commit = c]
         /\ \/ integration'[t] = integration[t]
            \/ \E r \in Recorders : /\ recorder[r].command = "integrate" /\ recorder[r].todo = t
                                    /\ integration'[t] = recorder[r].file
    /\ \A r \in Recorders :
         \/ recorder'[r] = recorder[r]
         \/ recorder'[r].command \in {"none", "run"}
         \/ recorder'[r].command = "start" /\ StartFits(recorder[r].file)'
         \/ recorder'[r].command = "finalize" /\ ManifestFits(recorder[r].todo, recorder[r].file)'
         \/ recorder'[r].command = "integrate" /\ ReceiptFits(recorder[r].todo, recorder[r].file)'

(* What a recorder is about to write is of its todo.                        *)
LEMMA FilesOfRecorders ==
    ASSUME EvidenceShape, NEW r \in Recorders
    PROVE  /\ recorder[r].command = "start" => recorder[r].todo \in Todos /\ recorder[r].file \in StartRecords
           /\ recorder[r].command = "finalize" => recorder[r].todo \in Todos /\ recorder[r].file \in Manifests
           /\ recorder[r].command = "integrate" => recorder[r].todo \in Todos /\ recorder[r].file \in Receipts
           /\ recorder[r].command = "run" =>
                /\ recorder[r].todo \in Todos /\ recorder[r].log \in Nat /\ recorder[r].at \in CommitIds
                /\ recorder[r].existing \in Seq(CommandResults)
<1>1. recorder[r] \in RecorderWork
  BY DEF EvidenceShape
<1> QED BY <1>1, WorkOfRecorders DEF StartWork, RunWork, FinalizeWork, IntegrateWork

(* What is on record, and what is about to be, keeps fitting.               *)
LEMMA RecordsKeepFitting ==
    ASSUME EvidenceShape, HistoryHolds, StartsHold, ManifestsHold, ReceiptsHold, EvidenceGrows, RecordsFollow
    PROVE  StartsHold' /\ ManifestsHold' /\ ReceiptsHold'
<1> USE NoFileIsNone
<1>1. ASSUME NEW t \in Todos, startRecord'[t] # NoFile PROVE StartFits(startRecord[t])'
  <2>1. PICK f : f = startRecord'[t]
    OBVIOUS
  <2>2. f \in StartRecords /\ StartFits(f)
    <3>1. CASE startRecord'[t] = startRecord[t]
      BY <1>1, <2>1, <3>1 DEF StartsHold, EvidenceShape
    <3>2. CASE \E r \in Recorders : recorder[r].command = "start" /\ recorder[r].todo = t /\ startRecord'[t] = recorder[r].file
      BY <2>1, <3>2, FilesOfRecorders DEF StartsHold
    <3> QED BY <3>1, <3>2 DEF RecordsFollow
  <2>3. StartFits(f)'
    BY <2>2, StartFitsStays
  <2> QED BY <2>1, <2>3 DEF StartFits, IsAncestor, MadeCommit
<1>2. ASSUME NEW r \in Recorders, recorder'[r].command = "start" PROVE StartFits(recorder[r].file)'
  <2>1. CASE recorder'[r] = recorder[r]
    <3>1. recorder[r].command = "start"
      BY <1>2, <2>1
    <3>2. PICK t \in Todos, f \in StartRecords : t = recorder[r].todo /\ f = recorder[r].file
      BY <3>1, FilesOfRecorders
    <3>3. StartFits(f)
      BY <3>1, <3>2 DEF StartsHold
    <3>4. StartFits(f)'
      BY <3>3, StartFitsStays
    <3>5. recorder'[r].todo = t /\ recorder'[r].file = f
      BY <2>1, <3>2
    <3> QED BY <3>4, <3>5 DEF StartFits, IsAncestor, MadeCommit
  <2>2. CASE recorder'[r] # recorder[r]
    BY <1>2, <2>2 DEF RecordsFollow
  <2> QED BY <2>1, <2>2
<1>3. ASSUME NEW t \in Todos, manifest'[t] # NoFile PROVE ManifestFits(t, manifest[t])'
  <2>1. PICK f : f = manifest'[t]
    OBVIOUS
  <2>2. CASE \/ manifest'[t] = manifest[t]
             \/ \E r \in Recorders : recorder[r].command = "finalize" /\ recorder[r].todo = t /\ manifest'[t] = recorder[r].file
    <3>1. f \in Manifests /\ ManifestFits(t, f)
      <4>1. CASE manifest'[t] = manifest[t]
        BY <1>3, <2>1, <4>1 DEF ManifestsHold, EvidenceShape
      <4>2. CASE \E r \in Recorders : recorder[r].command = "finalize" /\ recorder[r].todo = t /\ manifest'[t] = recorder[r].file
        BY <2>1, <4>2, FilesOfRecorders DEF ManifestsHold
      <4> QED BY <2>2, <4>1, <4>2
    <3>2. ManifestFits(t, f)'
      BY <3>1, ManifestFitsStays
    <3> QED BY <2>1, <3>2 DEF ManifestFits, RecordsLogged, MadeCommit
  <2>3. CASE /\ evidenceFaults' # 0 /\ manifest[t] # NoFile
             /\ \E c \in CommitIds : manifest'[t] = [manifest[t] EXCEPT !.commit = c]
    <3>1. PICK g \in Manifests : g = manifest[t]
      BY <2>3 DEF EvidenceShape
    <3>2. ManifestFits(t, g)
      BY <2>3, <3>1 DEF ManifestsHold
    <3>3. ManifestFits(t, g)'
      BY <3>2, ManifestFitsStays
    <3>4. f.sha = g.sha /\ f.baseline = g.baseline /\ f.commands = g.commands
      BY <2>1, <2>3, <3>1 DEF Manifests
    <3>5. ManifestFits(t, f)'
      BY <2>3, <3>3, <3>4 DEF ManifestFits
    <3> QED BY <2>1, <3>5 DEF ManifestFits, RecordsLogged, MadeCommit
  <2> QED BY <2>2, <2>3 DEF RecordsFollow
<1>4. ASSUME NEW r \in Recorders, recorder'[r].command = "finalize" PROVE ManifestFits(recorder[r].todo, recorder[r].file)'
  <2>1. CASE recorder'[r] = recorder[r]
    <3>1. recorder[r].command = "finalize"
      BY <1>4, <2>1
    <3>2. PICK t \in Todos, f \in Manifests : t = recorder[r].todo /\ f = recorder[r].file
      BY <3>1, FilesOfRecorders
    <3>3. ManifestFits(t, f)
      BY <3>1, <3>2 DEF ManifestsHold
    <3>4. ManifestFits(t, f)'
      BY <3>3, ManifestFitsStays
    <3>5. recorder'[r].todo = t /\ recorder'[r].file = f
      BY <2>1, <3>2
    <3> QED BY <3>4, <3>5 DEF ManifestFits, RecordsLogged, MadeCommit
  <2>2. CASE recorder'[r] # recorder[r]
    BY <1>4, <2>2 DEF RecordsFollow
  <2> QED BY <2>1, <2>2
<1>5. ASSUME NEW t \in Todos, integration'[t] # NoFile PROVE ReceiptFits(t, integration[t])'
  <2>1. PICK f : f = integration'[t]
    OBVIOUS
  <2>2. f \in Receipts /\ ReceiptFits(t, f)
    <3>1. CASE integration'[t] = integration[t]
      BY <1>5, <2>1, <3>1 DEF ReceiptsHold, EvidenceShape
    <3>2. CASE \E r \in Recorders : recorder[r].command = "integrate" /\ recorder[r].todo = t /\ integration'[t] = recorder[r].file
      BY <2>1, <3>2, FilesOfRecorders DEF ReceiptsHold
    <3> QED BY <3>1, <3>2 DEF RecordsFollow
  <2>3. ReceiptFits(t, f)'
    BY <2>2, ReceiptFitsStays
  <2> QED BY <2>1, <2>3 DEF ReceiptFits, IntegratesTask, IsAncestor, MadeCommit
<1>6. ASSUME NEW r \in Recorders, recorder'[r].command = "integrate" PROVE ReceiptFits(recorder[r].todo, recorder[r].file)'
  <2>1. CASE recorder'[r] = recorder[r]
    <3>1. recorder[r].command = "integrate"
      BY <1>6, <2>1
    <3>2. PICK t \in Todos, f \in Receipts : t = recorder[r].todo /\ f = recorder[r].file
      BY <3>1, FilesOfRecorders
    <3>3. ReceiptFits(t, f)
      BY <3>1, <3>2 DEF ReceiptsHold
    <3>4. ReceiptFits(t, f)'
      BY <3>3, ReceiptFitsStays
    <3>5. recorder'[r].todo = t /\ recorder'[r].file = f
      BY <2>1, <3>2
    <3> QED BY <3>4, <3>5 DEF ReceiptFits, IntegratesTask, IsAncestor, MadeCommit
  <2>2. CASE recorder'[r] # recorder[r]
    BY <1>6, <2>2 DEF RecordsFollow
  <2> QED BY <2>1, <2>2
<1>7. StartsHold'
  BY <1>1, <1>2 DEF StartsHold
<1>8. ManifestsHold'
  BY <1>3, <1>4 DEF ManifestsHold
<1>9. ReceiptsHold'
  BY <1>5, <1>6 DEF ReceiptsHold
<1> QED BY <1>7, <1>8, <1>9

(* The runs under way and the records of the ended keep fitting when none   *)
(* begins or ends.                                                          *)
LEMMA RunsStay ==
    ASSUME EvidenceShape, EvidenceGrows, RunsHold, UNCHANGED <<commandRecords, reported, overlapped>>,
           \A r \in Recorders : recorder'[r] = recorder[r] \/ recorder'[r].command # "run"
    PROVE  RunsHold'
<1>1. ASSUME NEW t \in Todos PROVE RecordsLogged(t, commandRecords[t])'
  <2>1. PICK rs : rs = commandRecords[t]
    OBVIOUS
  <2>2. RecordsLogged(t, rs)'
    BY <2>1, RecordsLoggedStay DEF RunsHold
  <2> QED BY <2>1, <2>2 DEF RecordsLogged
<1>2. \A t \in Todos \ overlapped' : reported'[t] = LogsOf(commandRecords'[t])
  BY DEF RunsHold
<1>3. ASSUME NEW r \in Recorders, recorder'[r].command = "run" PROVE RunFits(r)'
  <2>1. recorder'[r] = recorder[r] /\ recorder[r].command = "run" /\ RunFits(r)
    BY <1>3 DEF RunsHold
  <2>2. PICK t \in Todos, rs \in Seq(CommandResults) : t = recorder[r].todo /\ rs = recorder[r].existing
    BY <2>1, FilesOfRecorders
  <2>3. RecordsLogged(t, rs)'
    BY <2>1, <2>2, RecordsLoggedStay DEF RunFits
  <2>4. recorder[r].log \in 1 .. MaxRuns[t] /\ logs'[t][recorder[r].log] # 0 /\ worktree'[t] # NoFile
    BY <2>1, <2>2 DEF RunFits, EvidenceGrows
  <2>5. ASSUME t \notin overlapped, NEW q \in Recorders, recorder'[q].command = "run", recorder'[q].todo = t PROVE q = r
    BY <2>1, <2>2, <2>5 DEF RunFits
  <2>6. t \notin overlapped => rs = commandRecords[t]
    BY <2>1, <2>2 DEF RunFits
  <2> QED BY <2>1, <2>2, <2>3, <2>4, <2>5, <2>6 DEF RunFits, RecordsLogged
<1> QED BY <1>1, <1>2, <1>3 DEF RunsHold, LogsOf

(* What the people's steps, which touch no record, must keep.               *)
LEMMA PeopleKeep ==
    ASSUME EvidenceInv, PersonOnly, HistoryHolds',
           history' \in [CommitIds -> {NoFile} \cup HistoryEntries], mainHead' \in CommitIds,
           worktree' \in [Todos -> {NoFile} \cup WorkTrees], narrative' \in [Todos -> Nat],
           \A c \in CommitIds : MadeCommit(c) => history'[c] = history[c],
           \A t \in Todos : /\ narrative[t] # 0 => narrative'[t] = narrative[t]
                            /\ worktree[t] # NoFile => worktree'[t] # NoFile
    PROVE  EvidenceInv'
<1>1. /\ EvidenceShape /\ IdentityHolds /\ HistoryHolds /\ StartsHold /\ ManifestsHold /\ ReceiptsHold /\ RunsHold
  BY DEF EvidenceInv
<1>2. UNCHANGED <<identity, startRecord, commandRecords, manifest, integration, logs, recorder, reported, overlapped,
                  evidenceFaults>>
  BY DEF PersonOnly, files
<1>3. EvidenceGrows
  BY <1>2 DEF EvidenceGrows
<1>4. RecordsFollow
  BY <1>2 DEF RecordsFollow
<1>5. StartsHold' /\ ManifestsHold' /\ ReceiptsHold'
  BY <1>1, <1>3, <1>4, RecordsKeepFitting
<1>6. RunsHold'
  BY <1>1, <1>2, <1>3, RunsStay
<1>7. EvidenceShape'
  BY <1>1, <1>2 DEF EvidenceShape, LogsAreShaped
<1>8. IdentityHolds'
  BY <1>1, <1>2 DEF IdentityHolds
<1> QED BY <1>5, <1>6, <1>7, <1>8 DEF EvidenceInv

(* A new commit on commits there are keeps the history closed.              *)
LEMMA HistoryGrows ==
    ASSUME EvidenceShape, HistoryHolds, NEW c \in CommitIds, ~MadeCommit(c), NEW e \in HistoryEntries,
           history' = [history EXCEPT ![c] = e],
           c \in e.ancestors, \A a \in e.ancestors \ {c} : MadeCommit(a) /\ history[a].ancestors \subseteq e.ancestors,
           mainHead' = mainHead \/ mainHead' = c, mainHead' = c => history[mainHead].ancestors \subseteq e.ancestors,
           Len(e.parents) = 2 => mainHead' = c,
           \A t \in Todos : worktree'[t] # NoFile => history'[worktree'[t].head] # NoFile
    PROVE  /\ HistoryHolds'
           /\ history' \in [CommitIds -> {NoFile} \cup HistoryEntries]
           /\ \A d \in CommitIds : MadeCommit(d) => history'[d] = history[d]
<1> USE NoFileIsNone
<1>1. /\ history \in [CommitIds -> {NoFile} \cup HistoryEntries] /\ history[c] = NoFile /\ mainHead \in CommitIds
  BY DEF EvidenceShape, MadeCommit
<1>2. /\ history' \in [CommitIds -> {NoFile} \cup HistoryEntries]
      /\ history'[c] = e /\ \A d \in CommitIds \ {c} : history'[d] = history[d]
  BY <1>1
<1>3. \A d \in CommitIds : history[d] # NoFile => d # c /\ history'[d] = history[d]
  BY <1>1, <1>2
<1>4. history'[Base] # NoFile /\ history'[Bootstrap] # NoFile /\ history'[mainHead'] # NoFile
  BY <1>1, <1>2, <1>3, CommitFacts DEF HistoryHolds, MadeCommit
<1>5. history[mainHead].ancestors \subseteq history'[mainHead'].ancestors
  <2>1. history[mainHead] # NoFile
    BY DEF HistoryHolds, MadeCommit
  <2>2. CASE mainHead' = c
    BY <1>2, <2>2
  <2>3. CASE mainHead' = mainHead
    BY <1>1, <1>3, <2>1, <2>3
  <2> QED BY <2>2, <2>3
<1>6. ASSUME NEW d \in CommitIds, history'[d] # NoFile
      PROVE  /\ d \in history'[d].ancestors
             /\ \A a \in history'[d].ancestors : history'[a] # NoFile /\ history'[a].ancestors \subseteq history'[d].ancestors
             /\ Len(history'[d].parents) = 2 => d \in history'[mainHead'].ancestors
  <2>1. CASE d = c
    <3>1. history'[d] = e /\ c \in e.ancestors /\ (Len(e.parents) = 2 => mainHead' = d)
      BY <1>2, <2>1
    <3>2. ASSUME NEW a \in e.ancestors PROVE history'[a] # NoFile /\ history'[a].ancestors \subseteq e.ancestors
      <4>1. a \in CommitIds
        BY DEF HistoryEntries
      <4>2. CASE a = c
        BY <1>2, <4>2
      <4>3. CASE a # c
        BY <1>2, <4>1, <4>3 DEF MadeCommit
      <4> QED BY <4>2, <4>3
    <3> QED BY <2>1, <3>1, <3>2
  <2>2. CASE d # c
    <3>1. history'[d] = history[d] /\ history[d] # NoFile /\ history[d] \in HistoryEntries
      BY <1>1, <1>2, <1>6, <2>2
    <3>2. /\ d \in history[d].ancestors
          /\ \A a \in history[d].ancestors : history[a] # NoFile /\ history[a].ancestors \subseteq history[d].ancestors
          /\ Len(history[d].parents) = 2 => d \in history[mainHead].ancestors
      BY <3>1 DEF HistoryHolds, MadeCommit
    <3>3. history[d].ancestors \subseteq CommitIds
      BY <3>1 DEF HistoryEntries
    <3>4. \A a \in history[d].ancestors : history'[a] = history[a]
      BY <1>3, <3>2, <3>3
    <3> QED BY <1>5, <3>1, <3>2, <3>4
  <2> QED BY <2>1, <2>2
<1>7. HistoryHolds'
  BY <1>4, <1>6 DEF HistoryHolds, MadeCommit
<1> QED BY <1>2, <1>3, <1>7 DEF MadeCommit

(* The people's steps that make no commit.                                  *)
LEMMA TreesOfPeople ==
    ASSUME EvidenceInv, NEW t \in Todos, Checkout(t) \/ Edit(t) \/ WriteNarrative(t)
    PROVE  EvidenceInv'
<1> USE NoFileIsNone
<1>1. EvidenceShape /\ HistoryHolds
  BY DEF EvidenceInv
<1>2. /\ worktree \in [Todos -> {NoFile} \cup WorkTrees] /\ narrative \in [Todos -> Nat]
      /\ history \in [CommitIds -> {NoFile} \cup HistoryEntries] /\ mainHead \in CommitIds
  BY <1>1 DEF EvidenceShape
<1>3. PersonOnly /\ history' = history /\ mainHead' = mainHead
  BY DEF Checkout, Edit, WriteNarrative
<1>4. /\ worktree' \in [Todos -> {NoFile} \cup WorkTrees]
      /\ \A x \in Todos : /\ worktree'[x] # NoFile => history[worktree'[x].head] # NoFile
                          /\ worktree[x] # NoFile => worktree'[x] # NoFile
  <2>1. CASE Checkout(t)
    <3> DEFINE tree == [head |-> mainHead, clean |-> TRUE]
    <3>1. tree \in WorkTrees /\ tree.head = mainHead
      BY <1>2 DEF WorkTrees
    <3>2. worktree' = [worktree EXCEPT ![t] = tree]
      BY <2>1 DEF Checkout
    <3> HIDE DEF tree
    <3> QED BY <1>1, <1>2, <3>1, <3>2 DEF HistoryHolds, MadeCommit
  <2>2. CASE Edit(t)
    <3> DEFINE tree == [worktree[t] EXCEPT !.clean = ~worktree[t].clean]
    <3>1. worktree[t] # NoFile /\ worktree[t] \in WorkTrees
      BY <1>2, <2>2 DEF Edit
    <3>2. tree \in WorkTrees /\ tree.head = worktree[t].head
      BY <3>1 DEF WorkTrees
    <3>3. worktree' = [worktree EXCEPT ![t] = tree]
      BY <2>2 DEF Edit
    <3> HIDE DEF tree
    <3> QED BY <1>1, <1>2, <3>1, <3>2, <3>3 DEF HistoryHolds, MadeCommit
  <2>3. CASE WriteNarrative(t)
    BY <1>1, <1>2, <2>3 DEF WriteNarrative, HistoryHolds, MadeCommit
  <2> QED BY <2>1, <2>2, <2>3
<1>5. /\ narrative' \in [Todos -> Nat]
      /\ \A x \in Todos : narrative[x] # 0 => narrative'[x] = narrative[x]
  <2>1. CASE WriteNarrative(t)
    BY <1>2, <2>1 DEF WriteNarrative
  <2>2. CASE Checkout(t) \/ Edit(t)
    BY <1>2, <2>2 DEF Checkout, Edit
  <2> QED BY <2>1, <2>2
<1>6. HistoryHolds'
  BY <1>1, <1>3, <1>4 DEF HistoryHolds, MadeCommit
<1> QED BY <1>2, <1>3, <1>4, <1>5, <1>6, PeopleKeep

(* A commit of the work.                                                    *)
LEMMA CommitsOfPeople ==
    ASSUME EvidenceInv, NEW c \in WorkCommits, NEW paths \in Paths, CommitWork(c[1], c, paths)
    PROVE  EvidenceInv'
<1> USE NoFileIsNone
<1>1. EvidenceShape /\ HistoryHolds
  BY DEF EvidenceInv
<1>2. /\ worktree \in [Todos -> {NoFile} \cup WorkTrees] /\ narrative \in [Todos -> Nat]
      /\ history \in [CommitIds -> {NoFile} \cup HistoryEntries] /\ mainHead \in CommitIds
  BY <1>1 DEF EvidenceShape
<1>3. c \in CommitIds /\ c[1] \in Todos
  BY CommitFacts
<1>4. PICK t \in Todos : t = c[1]
  BY <1>3
<1>5. /\ worktree[t] # NoFile /\ ~MadeCommit(c) /\ PersonOnly /\ mainHead' = mainHead /\ narrative' = narrative
  BY <1>4 DEF CommitWork
<1>6. PICK h \in CommitIds : h = worktree[t].head
  BY <1>2, <1>5 DEF WorkTrees
<1>7. history[h] # NoFile /\ history[h] \in HistoryEntries
  BY <1>1, <1>2, <1>5, <1>6 DEF HistoryHolds, MadeCommit
<1> DEFINE e == [ancestors |-> history[h].ancestors \cup {c}, parents |-> <<h>>, paths |-> paths]
<1>8. e \in HistoryEntries /\ e.ancestors = history[h].ancestors \cup {c} /\ Len(e.parents) = 1
  BY <1>3, <1>7 DEF HistoryEntries
<1>9. history' = [history EXCEPT ![c] = e]
  BY <1>4, <1>6 DEF CommitWork
<1> HIDE DEF e
<1>10. \A a \in e.ancestors \ {c} : MadeCommit(a) /\ history[a].ancestors \subseteq e.ancestors
  BY <1>1, <1>7, <1>8 DEF HistoryHolds, MadeCommit
<1> DEFINE tree == [head |-> c, clean |-> TRUE]
<1>11. tree \in WorkTrees /\ tree.head = c
  BY <1>3 DEF WorkTrees
<1>12. worktree' = [worktree EXCEPT ![t] = tree]
  BY <1>4 DEF CommitWork
<1> HIDE DEF tree
<1>13. worktree' \in [Todos -> {NoFile} \cup WorkTrees] /\ \A x \in Todos : worktree[x] # NoFile => worktree'[x] # NoFile
  BY <1>2, <1>11, <1>12
<1>14. ASSUME NEW x \in Todos, worktree'[x] # NoFile PROVE history'[worktree'[x].head] # NoFile
  <2>1. CASE x = t
    BY <1>2, <1>3, <1>8, <1>9, <1>11, <1>12, <2>1
  <2>2. CASE x # t
    <3>1. worktree'[x] = worktree[x] /\ worktree[x] \in WorkTrees
      BY <1>2, <1>12, <1>14, <2>2
    <3>2. worktree[x].head \in CommitIds /\ history[worktree[x].head] # NoFile
      BY <1>1, <1>14, <3>1 DEF HistoryHolds, MadeCommit, WorkTrees
    <3> QED BY <1>2, <1>5, <1>9, <3>1, <3>2 DEF MadeCommit
  <2> QED BY <2>1, <2>2
<1>15. /\ HistoryHolds' /\ history' \in [CommitIds -> {NoFile} \cup HistoryEntries]
       /\ \A d \in CommitIds : MadeCommit(d) => history'[d] = history[d]
  <2>1. mainHead' # c
    BY <1>1, <1>5 DEF HistoryHolds
  <2>2. c \in e.ancestors /\ Len(e.parents) # 2
    BY <1>8
  <2> QED BY <1>1, <1>3, <1>5, <1>8, <1>9, <1>10, <1>14, <2>1, <2>2, HistoryGrows
<1> QED BY <1>2, <1>5, <1>13, <1>15, PeopleKeep

(* The merge of the work of a todo into the branch.                         *)
LEMMA MergesOfPeople ==
    ASSUME EvidenceInv, NEW t \in Todos, MergeWork(t)
    PROVE  EvidenceInv'
<1> USE NoFileIsNone
<1>1. EvidenceShape /\ HistoryHolds
  BY DEF EvidenceInv
<1>2. /\ worktree \in [Todos -> {NoFile} \cup WorkTrees] /\ narrative \in [Todos -> Nat]
      /\ history \in [CommitIds -> {NoFile} \cup HistoryEntries] /\ mainHead \in CommitIds
  BY <1>1 DEF EvidenceShape
<1>3. PICK c \in WorkCommits : /\ c = worktree[t].head /\ worktree[t] # NoFile /\ ~MadeCommit(MergeOf(c))
                               /\ history' = [history EXCEPT ![MergeOf(c)] =
                                     [ancestors |-> history[mainHead].ancestors \cup history[c].ancestors \cup {MergeOf(c)},
                                      parents |-> <<mainHead, c>>, paths |-> "empty"]]
                               /\ mainHead' = MergeOf(c)
  BY DEF MergeWork
<1>4. PICK m \in CommitIds : m = MergeOf(c)
  BY CommitFacts
<1>5. c \in CommitIds
  BY CommitFacts
<1>6. PersonOnly /\ worktree' = worktree /\ narrative' = narrative
  BY DEF MergeWork
<1>7. /\ history[c] # NoFile /\ history[c] \in HistoryEntries
      /\ history[mainHead] # NoFile /\ history[mainHead] \in HistoryEntries
  BY <1>1, <1>2, <1>3, <1>5 DEF HistoryHolds, MadeCommit
<1> DEFINE e == [ancestors |-> history[mainHead].ancestors \cup history[c].ancestors \cup {m},
                 parents |-> <<mainHead, c>>, paths |-> "empty"]
<1>8. e \in HistoryEntries /\ e.ancestors = history[mainHead].ancestors \cup history[c].ancestors \cup {m}
  BY <1>2, <1>5, <1>7 DEF HistoryEntries, Paths
<1>9. history' = [history EXCEPT ![m] = e] /\ ~MadeCommit(m) /\ mainHead' = m
  BY <1>3, <1>4
<1> HIDE DEF e
<1>10. \A a \in e.ancestors \ {m} : MadeCommit(a) /\ history[a].ancestors \subseteq e.ancestors
  BY <1>1, <1>2, <1>5, <1>7, <1>8 DEF HistoryHolds, MadeCommit
<1>11. ASSUME NEW x \in Todos, worktree'[x] # NoFile PROVE history'[worktree'[x].head] # NoFile
  <2>1. worktree[x] \in WorkTrees /\ worktree[x].head \in CommitIds
    BY <1>2, <1>6, <1>11 DEF WorkTrees
  <2>2. history[worktree[x].head] # NoFile
    BY <1>1, <1>6, <1>11 DEF HistoryHolds, MadeCommit
  <2> QED BY <1>2, <1>6, <1>9, <2>1, <2>2 DEF MadeCommit
<1>12. /\ HistoryHolds' /\ history' \in [CommitIds -> {NoFile} \cup HistoryEntries]
       /\ \A d \in CommitIds : MadeCommit(d) => history'[d] = history[d]
  <2>1. m \in e.ancestors /\ history[mainHead].ancestors \subseteq e.ancestors
    BY <1>8
  <2> QED BY <1>1, <1>8, <1>9, <1>10, <1>11, <2>1, HistoryGrows
<1> QED BY <1>2, <1>6, <1>9, <1>12, PeopleKeep

(* What the recorders' steps, which leave the repository alone, must keep.  *)
LEMMA RecordersKeep ==
    ASSUME EvidenceInv, UNCHANGED <<history, mainHead, worktree>>, EvidenceShape', EvidenceGrows, RecordsFollow,
           IdentityHolds', RunsHold'
    PROVE  EvidenceInv'
<1>1. /\ EvidenceShape /\ HistoryHolds /\ StartsHold /\ ManifestsHold /\ ReceiptsHold
  BY DEF EvidenceInv
<1>2. StartsHold' /\ ManifestsHold' /\ ReceiptsHold'
  BY <1>1, RecordsKeepFitting
<1>3. HistoryHolds'
  BY <1>1 DEF HistoryHolds, MadeCommit
<1> QED BY <1>2, <1>3 DEF EvidenceInv

(* The approval of the attempt.                                             *)
LEMMA Initializing ==
    ASSUME EvidenceInv, NEW ok \in BOOLEAN, NEW same \in BOOLEAN, NEW base \in {Base, Bootstrap},
           Initialize(ok, same, base)
    PROVE  EvidenceInv'
<1>1. /\ EvidenceShape /\ RunsHold /\ identity' = "APPROVED"
      /\ UNCHANGED <<history, mainHead, worktree, narrative, startRecord, commandRecords, manifest, integration, logs,
                     recorder, reported, overlapped, evidenceFaults>>
  BY DEF EvidenceInv, Initialize, people, files
<1>2. EvidenceGrows
  BY <1>1 DEF EvidenceGrows
<1>3. RecordsFollow
  BY <1>1 DEF RecordsFollow
<1>4. EvidenceShape'
  BY <1>1 DEF EvidenceShape, LogsAreShaped
<1>5. IdentityHolds'
  BY <1>1 DEF IdentityHolds
<1>6. RunsHold'
  BY <1>1, <1>2, RunsStay
<1> QED BY <1>1, <1>2, <1>3, <1>4, <1>5, <1>6, RecordersKeep

(* A recorder that takes up the writing of a record that fits.              *)
LEMMA RecordsTakenUp ==
    ASSUME EvidenceInv, NEW r \in Recorders, NEW job \in StartWork \cup FinalizeWork \cup IntegrateWork,
           recorder' = [recorder EXCEPT ![r] = job], identity = "APPROVED",
           UNCHANGED <<identity, people, files, logs, reported, overlapped, evidenceFaults>>,
           \/ job.command = "start" /\ StartFits(job.file)
           \/ job.command = "finalize" /\ ManifestFits(job.todo, job.file)
           \/ job.command = "integrate" /\ ReceiptFits(job.todo, job.file)
    PROVE  EvidenceInv'
<1>1. /\ EvidenceShape /\ RunsHold
      /\ UNCHANGED <<identity, history, mainHead, worktree, narrative, startRecord, commandRecords, manifest, integration,
                     logs, reported, overlapped, evidenceFaults>>
  BY DEF EvidenceInv, people, files
<1>2. recorder \in [Recorders -> RecorderWork] /\ job \in RecorderWork
  BY <1>1 DEF EvidenceShape, RecorderWork
<1>3. /\ recorder' \in [Recorders -> RecorderWork] /\ recorder'[r] = job
      /\ \A q \in Recorders \ {r} : recorder'[q] = recorder[q]
  BY <1>2
<1>4. EvidenceGrows
  BY <1>1 DEF EvidenceGrows
<1>5. RecordsFollow
  <2>1. \/ recorder'[r].command = "start" /\ StartFits(recorder[r].file)'
        \/ recorder'[r].command = "finalize" /\ ManifestFits(recorder[r].todo, recorder[r].file)'
        \/ recorder'[r].command = "integrate" /\ ReceiptFits(recorder[r].todo, recorder[r].file)'
    <3>1. CASE job.command = "start" /\ StartFits(job.file)
      BY <1>1, <1>3, <3>1 DEF StartFits, IsAncestor, MadeCommit
    <3>2. CASE job.command = "finalize" /\ ManifestFits(job.todo, job.file)
      BY <1>1, <1>3, <3>2 DEF ManifestFits, RecordsLogged, MadeCommit
    <3>3. CASE job.command = "integrate" /\ ReceiptFits(job.todo, job.file)
      BY <1>1, <1>3, <3>3 DEF ReceiptFits, IntegratesTask, IsAncestor, MadeCommit
    <3> QED BY <3>1, <3>2, <3>3
  <2> QED BY <1>1, <1>3, <2>1 DEF RecordsFollow
<1>6. EvidenceShape'
  BY <1>1, <1>3 DEF EvidenceShape, LogsAreShaped
<1>7. IdentityHolds'
  BY <1>1 DEF IdentityHolds, EvidenceInv
<1>8. RunsHold'
  <2>1. job.command # "run"
    OBVIOUS
  <2> QED BY <1>1, <1>3, <1>4, <2>1, RunsStay
<1> QED BY <1>1, <1>4, <1>5, <1>6, <1>7, <1>8, RecordersKeep

(* The baseline holds what the receipts say.                                *)
LEMMA BaselineIsShaped == EvidenceShape => Baseline \in Baselines
<1> SUFFICES ASSUME EvidenceShape, NEW d \in Todos, integration[d] # NoFile PROVE integration[d].commit \in CommitIds
  BY DEF Baseline, Baselines
<1> QED BY DEF EvidenceShape, Receipts

(* The start of the work on a todo.                                         *)
LEMMA StartsFit ==
    ASSUME EvidenceInv, NEW r \in Recorders, NEW t \in Todos, NEW retrospective \in BOOLEAN,
           BeginStart(r, t, retrospective)
    PROVE  EvidenceInv'
<1> USE NoFileIsNone
<1>1. EvidenceShape /\ HistoryHolds
  BY DEF EvidenceInv
<1>2. PICK h \in CommitIds : h = worktree[t].head
  BY <1>1 DEF BeginStart, EvidenceShape, WorkTrees
<1>3. MadeCommit(h)
  BY <1>1, <1>2 DEF BeginStart, HistoryHolds
<1>4. PICK sha \in {Base, h} : sha = IF retrospective THEN Base ELSE h
  OBVIOUS
<1>5. PICK bl \in Baselines : bl = Baseline
  BY <1>1, BaselineIsShaped
<1> DEFINE start == [sha |-> sha, baseline |-> bl]
<1>6. start \in StartRecords /\ start.sha = sha /\ start.baseline = bl
  BY CommitFacts DEF StartRecords
<1>7. StartRecord(t, retrospective) = start
  BY <1>2, <1>4, <1>5 DEF StartRecord
<1> HIDE DEF start
<1>8. StartFits(start)
  <2>1. MadeCommit(sha)
    BY <1>1, <1>3, <1>4 DEF HistoryHolds
  <2>2. \A e \in bl : integration[e.todo] # NoFile /\ integration[e.todo].commit = e.commit
    BY <1>5 DEF Baseline
  <2> QED BY <1>6, <2>1, <2>2 DEF StartFits
<1> DEFINE job == [command |-> "start", todo |-> t, file |-> start]
<1>9. job \in StartWork /\ job.command = "start" /\ job.todo = t /\ job.file = start
  BY <1>6 DEF StartWork
<1>10. recorder' = [recorder EXCEPT ![r] = job]
  BY <1>7 DEF BeginStart, Take
<1>11. identity = "APPROVED" /\ UNCHANGED <<identity, people, files, logs, reported, overlapped, evidenceFaults>>
  BY DEF BeginStart, ValidateAttempt
<1> HIDE DEF job
<1>12. StartFits(job.file)
  BY <1>8, <1>9
<1> QED BY <1>9, <1>10, <1>11, <1>12, RecordsTakenUp

(* The freezing of the work on a todo.                                      *)
LEMMA FreezesFit ==
    ASSUME EvidenceInv, NEW r \in Recorders, NEW t \in Todos, BeginFinalize(r, t)
    PROVE  EvidenceInv'
<1> USE NoFileIsNone
<1>1. EvidenceShape /\ HistoryHolds /\ RunsHold
  BY DEF EvidenceInv
<1>2. PICK c \in CommitIds : c = worktree[t].head
  BY <1>1 DEF BeginFinalize, EvidenceShape, WorkTrees
<1>3. /\ OneCommitOn(startRecord[t].sha, c) /\ AllPassed(commandRecords[t], c) /\ narrative[t] # 0
      /\ recorder' = [recorder EXCEPT ![r] = [command |-> "finalize", todo |-> t, file |-> Manifest(t, c)]]
  BY <1>2 DEF BeginFinalize, Take
<1>4. startRecord[t] # NoFile /\ startRecord[t] \in StartRecords
  BY <1>1 DEF BeginFinalize, EvidenceShape
<1>5. PICK sha \in CommitIds, bl \in Baselines : sha = startRecord[t].sha /\ bl = startRecord[t].baseline
  BY <1>4 DEF StartRecords
<1>6. history[c] # NoFile /\ history[c] \in HistoryEntries
  BY <1>1, <1>3 DEF OneCommitOn, MadeCommit, EvidenceShape
<1>7. PICK rs \in Seq(CommandResults), n \in Nat, ps \in Paths : rs = commandRecords[t] /\ n = narrative[t] /\ ps = history[c].paths
  BY <1>1, <1>6 DEF EvidenceShape, HistoryEntries
<1> DEFINE frozen == [commit |-> c, sha |-> sha, baseline |-> bl, commands |-> rs, evidence |-> n, paths |-> ps]
<1>8. /\ frozen \in Manifests /\ frozen.commit = c /\ frozen.sha = sha /\ frozen.baseline = bl
      /\ frozen.commands = rs /\ frozen.evidence = n /\ frozen.paths = ps
  BY DEF Manifests
<1>9. Manifest(t, c) = frozen
  BY <1>5, <1>7 DEF Manifest
<1> HIDE DEF frozen
<1>10. ManifestFits(t, frozen)
  <2>1. RecordsLogged(t, frozen.commands)
    BY <1>1, <1>7, <1>8 DEF RunsHold
  <2>2. /\ frozen.commands # <<>>
        /\ \A i \in DOMAIN frozen.commands : /\ frozen.commands[i].passed /\ frozen.commands[i].cleanAfter
                                             /\ frozen.commands[i].at = frozen.commit
    BY <1>3, <1>7, <1>8 DEF AllPassed
  <2>3. /\ MadeCommit(frozen.commit) /\ history[frozen.commit].parents = <<frozen.sha>>
        /\ history[frozen.commit].paths = frozen.paths
    BY <1>3, <1>5, <1>7, <1>8 DEF OneCommitOn
  <2>4. /\ frozen.sha = startRecord[t].sha /\ frozen.baseline = startRecord[t].baseline
        /\ frozen.evidence # 0 /\ narrative[t] = frozen.evidence
    BY <1>3, <1>5, <1>7, <1>8
  <2> QED BY <1>4, <2>1, <2>2, <2>3, <2>4 DEF ManifestFits
<1> DEFINE job == [command |-> "finalize", todo |-> t, file |-> frozen]
<1>11. job \in FinalizeWork /\ job.command = "finalize" /\ job.todo = t /\ job.file = frozen
  BY <1>8 DEF FinalizeWork
<1>12. recorder' = [recorder EXCEPT ![r] = job]
  BY <1>3, <1>9
<1>13. identity = "APPROVED" /\ UNCHANGED <<identity, people, files, logs, reported, overlapped, evidenceFaults>>
  BY DEF BeginFinalize, ValidateAttempt
<1> HIDE DEF job
<1>14. ManifestFits(job.todo, job.file)
  BY <1>10, <1>11
<1> QED BY <1>11, <1>12, <1>13, <1>14, RecordsTakenUp

(* The integration of a todo.                                               *)
LEMMA IntegrationsFit ==
    ASSUME EvidenceInv, NEW r \in Recorders, NEW t \in Todos, NEW m \in CommitIds, BeginIntegrate(r, t, m)
    PROVE  EvidenceInv'
<1> USE NoFileIsNone
<1>1. EvidenceShape
  BY DEF EvidenceInv
<1>2. PICK f \in Manifests : f = manifest[t]
  BY <1>1 DEF BeginIntegrate, EvidenceShape
<1>3. f.commit \in CommitIds
  BY DEF Manifests
<1> DEFINE proof == [commit |-> f.commit, at |-> m, manifest |-> f]
<1>4. proof \in Receipts /\ proof.commit = f.commit /\ proof.at = m /\ proof.manifest = f
  BY <1>3 DEF Receipts
<1>5. IntegratesTask(t, f.commit, m) /\ manifest[t] # NoFile
  BY <1>2 DEF BeginIntegrate
<1> HIDE DEF proof
<1>6. ReceiptFits(t, proof)
  BY <1>2, <1>4, <1>5 DEF ReceiptFits
<1> DEFINE job == [command |-> "integrate", todo |-> t, file |-> proof]
<1>7. job \in IntegrateWork /\ job.command = "integrate" /\ job.todo = t /\ job.file = proof
  BY <1>4 DEF IntegrateWork
<1>8. recorder' = [recorder EXCEPT ![r] = job]
  BY <1>2 DEF BeginIntegrate, Take, proof
<1>9. identity = "APPROVED" /\ UNCHANGED <<identity, people, files, logs, reported, overlapped, evidenceFaults>>
  BY DEF BeginIntegrate, ValidateAttempt
<1> HIDE DEF job
<1>10. ReceiptFits(job.todo, job.file)
  BY <1>6, <1>7
<1> QED BY <1>7, <1>8, <1>9, <1>10, RecordsTakenUp

(* One more log, or one log rewritten.                                      *)
LogWith(l, t, i, v) == [l EXCEPT ![t][i] = v]

LEMMA LogWritten ==
    ASSUME NEW old, NEW new, LogsAreShaped(old), NEW t \in Todos, NEW i \in 1 .. MaxRuns[t], NEW v \in Nat,
           new = LogWith(old, t, i, v)
    PROVE  /\ LogsAreShaped(new)
           /\ new[t][i] = v
           /\ \A x \in Todos, k \in Nat : x # t \/ k # i => new[x][k] = old[x][k]
<1>1. old[t] \in [1 .. MaxRuns[t] -> Nat] /\ \A x \in Todos : old[x] \in [1 .. MaxRuns[x] -> Nat]
  BY DEF LogsAreShaped
<1> DEFINE kept == [old[t] EXCEPT ![i] = v]
<1>2. kept \in [1 .. MaxRuns[t] -> Nat] /\ kept[i] = v /\ \A k \in (1 .. MaxRuns[t]) \ {i} : kept[k] = old[t][k]
  BY <1>1
<1>3. \A k \in Nat : k # i => kept[k] = old[t][k]
  BY <1>1
<1>4. new = [old EXCEPT ![t] = kept]
  BY DEF LogWith
<1> HIDE DEF kept
<1>5. old \in [Todos -> UNION {[1 .. MaxRuns[x] -> Nat] : x \in Todos}]
  BY DEF LogsAreShaped
<1>6. kept \in UNION {[1 .. MaxRuns[x] -> Nat] : x \in Todos}
  BY <1>2
<1>7. new[t] = kept /\ \A x \in Todos \ {t} : new[x] = old[x]
  BY <1>4, <1>5
<1>8. LogsAreShaped(new)
  <2>1. new \in [Todos -> UNION {[1 .. MaxRuns[x] -> Nat] : x \in Todos}]
    <3> DEFINE range == UNION {[1 .. MaxRuns[x] -> Nat] : x \in Todos}
    <3>1. old \in [Todos -> range] /\ kept \in range
      BY <1>5, <1>6
    <3> HIDE DEF range
    <3>2. new \in [Todos -> range]
      BY <1>4, <3>1
    <3> QED BY <3>2 DEF range
  <2>2. \A x \in Todos : new[x] \in [1 .. MaxRuns[x] -> Nat]
    BY <1>1, <1>2, <1>7
  <2> QED BY <2>1, <2>2 DEF LogsAreShaped
<1> QED BY <1>2, <1>3, <1>7, <1>8

(* A log that is begun.                                                     *)
LEMMA LogBegun ==
    ASSUME LogsAreShaped(logs), NEW t \in Todos, NEW i \in 1 .. MaxRuns[t], logs' = [logs EXCEPT ![t][i] = 1]
    PROVE  /\ LogsAreShaped(logs') /\ logs'[t][i] = 1
           /\ \A x \in Todos, k \in Nat : x # t \/ k # i => logs'[x][k] = logs[x][k]
<1>1. PICK v \in Nat : v = 1
  OBVIOUS
<1>2. PICK old, new : old = logs /\ new = logs'
  OBVIOUS
<1>3. LogsAreShaped(old) /\ new = LogWith(old, t, i, v)
  BY <1>1, <1>2 DEF LogWith
<1>4. /\ LogsAreShaped(new) /\ new[t][i] = v
      /\ \A x \in Todos, k \in Nat : x # t \/ k # i => new[x][k] = old[x][k]
  BY <1>3, LogWritten
<1> QED BY <1>1, <1>2, <1>4

(* A log that is rewritten after the fact.                                  *)
LEMMA LogRewritten ==
    ASSUME LogsAreShaped(logs), NEW t \in Todos, NEW i \in 1 .. MaxRuns[t], RewriteLog(t, i)
    PROVE  /\ LogsAreShaped(logs')
           /\ \A x \in Todos : \A k \in 1 .. MaxRuns[x] : logs[x][k] # 0 => logs'[x][k] # 0
<1>1. PICK v \in Nat : v = 2
  OBVIOUS
<1>2. PICK old, new : old = logs /\ new = logs'
  OBVIOUS
<1>3. LogsAreShaped(old) /\ new = LogWith(old, t, i, v)
  BY <1>1, <1>2 DEF RewriteLog, LogWith
<1>4. /\ LogsAreShaped(new) /\ new[t][i] = v
      /\ \A x \in Todos, k \in Nat : x # t \/ k # i => new[x][k] = old[x][k]
  BY <1>3, LogWritten
<1>5. \A x \in Todos : \A k \in 1 .. MaxRuns[x] : k \in Nat
  BY EvidenceAssumption DEF EvidenceAssumption
<1> QED BY <1>1, <1>2, <1>4, <1>5

(* The start of a command.                                                  *)
LEMMA CommandsBegin ==
    ASSUME EvidenceInv, NEW r \in Recorders, NEW t \in Todos, NEW i \in 1 .. MaxRuns[t], BeginRun(r, t, i)
    PROVE  EvidenceInv'
<1> USE NoFileIsNone
<1>1. EvidenceShape /\ RunsHold /\ IdentityHolds
  BY DEF EvidenceInv
<1>2. /\ UNCHANGED <<identity, history, mainHead, worktree, narrative, startRecord, commandRecords, manifest, integration,
                     reported, evidenceFaults>>
      /\ identity = "APPROVED" /\ worktree[t] # NoFile /\ recorder[r] = Free
  BY DEF BeginRun, people, files, ValidateAttempt, Take
<1>3. PICK h \in CommitIds : h = worktree[t].head
  BY <1>1, <1>2 DEF EvidenceShape, WorkTrees
<1>4. PICK rs \in Seq(CommandResults) : rs = commandRecords[t]
  BY <1>1 DEF EvidenceShape
<1>5. i \in Nat /\ MaxRuns[t] \in Nat
  BY EvidenceAssumption DEF EvidenceAssumption
<1> DEFINE job == [command |-> "run", todo |-> t, existing |-> rs, log |-> i, at |-> h]
<1>6. job \in RunWork /\ job.command = "run" /\ job.todo = t /\ job.existing = rs /\ job.log = i
  BY <1>5 DEF RunWork
<1>7. recorder' = [recorder EXCEPT ![r] = job]
  BY <1>3, <1>4 DEF BeginRun, Take
<1> HIDE DEF job
<1>8. job \in RecorderWork /\ recorder \in [Recorders -> RecorderWork]
  BY <1>1, <1>6 DEF EvidenceShape, RecorderWork
<1>9. /\ recorder' \in [Recorders -> RecorderWork] /\ recorder'[r] = job
      /\ \A q \in Recorders \ {r} : recorder'[q] = recorder[q]
  BY <1>7, <1>8
<1>10. /\ LogsAreShaped(logs') /\ logs'[t][i] = 1 /\ logs[t][i] = 0
       /\ \A x \in Todos, k \in Nat : x # t \/ k # i => logs'[x][k] = logs[x][k]
  <2>1. LogsAreShaped(logs) /\ logs[t][i] = 0 /\ logs' = [logs EXCEPT ![t][i] = 1]
    BY <1>1 DEF EvidenceShape, BeginRun
  <2> QED BY <2>1, LogBegun
<1>11. /\ overlapped' \subseteq Todos /\ overlapped \subseteq overlapped'
       /\ \A q \in Recorders : recorder[q].command = "run" /\ recorder[q].todo = t => t \in overlapped'
  BY <1>1 DEF BeginRun, EvidenceShape
<1>12. EvidenceGrows
  <2>1. \A x \in Todos : \A k \in 1 .. MaxRuns[x] : logs[x][k] # 0 => logs'[x][k] = logs[x][k]
    <3> SUFFICES ASSUME NEW x \in Todos, NEW k \in 1 .. MaxRuns[x], logs[x][k] # 0 PROVE logs'[x][k] = logs[x][k]
      OBVIOUS
    <3>1. k \in Nat
      BY EvidenceAssumption DEF EvidenceAssumption
    <3> QED BY <1>10, <3>1
  <2> QED BY <1>2, <2>1 DEF EvidenceGrows
<1>13. RecordsFollow
  BY <1>2, <1>6, <1>9 DEF RecordsFollow
<1>14. EvidenceShape'
  BY <1>1, <1>2, <1>9, <1>10, <1>11 DEF EvidenceShape
<1>15. IdentityHolds'
  BY <1>1, <1>2 DEF IdentityHolds
<1>16. RunsHold'
  <2>1. ASSUME NEW x \in Todos PROVE RecordsLogged(x, commandRecords[x])'
    <3>1. PICK ms : ms = commandRecords[x]
      OBVIOUS
    <3>2. RecordsLogged(x, ms)'
      BY <1>1, <1>12, <3>1, RecordsLoggedStay DEF RunsHold
    <3> QED BY <1>2, <3>1, <3>2 DEF RecordsLogged
  <2>2. \A x \in Todos \ overlapped' : reported'[x] = LogsOf(commandRecords'[x])
    BY <1>1, <1>2, <1>11 DEF RunsHold
  <2>3. RunFits(r)'
    <3>1. recorder'[r] = job /\ job.log \in 1 .. MaxRuns[t] /\ logs'[t][i] # 0 /\ worktree'[t] # NoFile
      BY <1>2, <1>6, <1>9, <1>10
    <3>2. RecordsLogged(t, rs)'
      BY <1>1, <1>4, <1>12, RecordsLoggedStay DEF RunsHold
    <3>3. rs = commandRecords'[t]
      BY <1>2, <1>4
    <3>4. ASSUME t \notin overlapped', NEW q \in Recorders, recorder'[q].command = "run", recorder'[q].todo = t PROVE q = r
      BY <1>9, <1>11, <3>4
    <3> QED BY <1>6, <3>1, <3>2, <3>3, <3>4 DEF RunFits, RecordsLogged
  <2>4. ASSUME NEW q \in Recorders, q # r, recorder'[q].command = "run" PROVE RunFits(q)'
    <3>1. recorder'[q] = recorder[q] /\ recorder[q].command = "run" /\ RunFits(q)
      BY <1>1, <1>9, <2>4 DEF RunsHold
    <3>2. PICK x \in Todos, ms \in Seq(CommandResults) : x = recorder[q].todo /\ ms = recorder[q].existing
      BY <1>1, <3>1, FilesOfRecorders
    <3>3. RecordsLogged(x, ms)'
      BY <1>12, <3>1, <3>2, RecordsLoggedStay DEF RunFits
    <3>4. recorder[q].log \in 1 .. MaxRuns[x] /\ logs'[x][recorder[q].log] # 0 /\ worktree'[x] # NoFile
      BY <1>2, <1>12, <3>1, <3>2 DEF RunFits, EvidenceGrows
    <3>5. ASSUME x \notin overlapped'
          PROVE  /\ ms = commandRecords'[x]
                 /\ \A p \in Recorders : recorder'[p].command = "run" /\ recorder'[p].todo = x => p = q
      <4>1. x # t /\ x \notin overlapped
        BY <1>11, <3>1, <3>2, <3>5
      <4> QED BY <1>2, <1>6, <1>9, <3>1, <3>2, <4>1 DEF RunFits
    <3> QED BY <3>1, <3>2, <3>3, <3>4, <3>5 DEF RunFits, RecordsLogged
  <2> QED BY <2>1, <2>2, <2>3, <2>4 DEF RunsHold
<1> QED BY <1>2, <1>12, <1>13, <1>14, <1>15, <1>16, RecordersKeep

(* The end of a command, however it ended.                                  *)
LEMMA CommandsEnd ==
    ASSUME EvidenceInv, NEW r \in Recorders, NEW passed \in BOOLEAN, EndRun(r, passed)
    PROVE  EvidenceInv'
<1> USE NoFileIsNone
<1>1. EvidenceShape /\ RunsHold /\ IdentityHolds
  BY DEF EvidenceInv
<1>2. /\ UNCHANGED <<identity, history, mainHead, worktree, narrative, startRecord, manifest, integration, logs,
                     overlapped, evidenceFaults>>
      /\ recorder[r].command = "run" /\ recorder' = [recorder EXCEPT ![r] = Free]
  BY DEF EndRun, people, Drop
<1>3. RunFits(r)
  BY <1>1, <1>2 DEF RunsHold
<1>4. PICK t \in Todos, rs \in Seq(CommandResults), i \in Nat, h \in CommitIds :
         t = recorder[r].todo /\ rs = recorder[r].existing /\ i = recorder[r].log /\ h = recorder[r].at
  BY <1>1, <1>2, FilesOfRecorders
<1>5. i \in 1 .. MaxRuns[t] /\ logs[t][i] # 0 /\ worktree[t] # NoFile /\ RecordsLogged(t, rs)
  BY <1>3, <1>4 DEF RunFits
<1>6. PICK n \in Nat, sound \in BOOLEAN : n = logs[t][i] /\ sound = worktree[t].clean
  <2>1. logs[t][i] \in Nat
    BY <1>1, <1>5 DEF EvidenceShape, LogsAreShaped
  <2>2. worktree[t].clean \in BOOLEAN
    BY <1>1, <1>5 DEF EvidenceShape, WorkTrees
  <2> QED BY <2>1, <2>2
<1> DEFINE rec == [log |-> i, version |-> n, passed |-> passed, at |-> h, cleanAfter |-> sound]
<1>7. rec \in CommandResults /\ rec.log = i /\ rec.version = n
  BY DEF CommandResults
<1>8. /\ commandRecords' = [commandRecords EXCEPT ![t] = Append(rs, rec)]
      /\ reported' = [reported EXCEPT ![t] = reported[t] \cup {i}]
  BY <1>4, <1>6 DEF EndRun, Replaced, CommandRecord
<1> HIDE DEF rec
<1>9. PICK ns \in Seq(CommandResults) : ns = Append(rs, rec)
  <2>1. Append(rs, rec) \in Seq(CommandResults)
    BY <1>7, AppendProperties
  <2> QED BY <2>1
<1>10. /\ DOMAIN ns = DOMAIN rs \cup {Len(rs) + 1} /\ ns[Len(rs) + 1] = rec
       /\ \A k \in DOMAIN rs : ns[k] = rs[k]
  BY <1>7, <1>9, AppendProperties
<1>11. /\ commandRecords' \in [Todos -> Seq(CommandResults)] /\ commandRecords'[t] = ns
       /\ \A x \in Todos \ {t} : commandRecords'[x] = commandRecords[x]
       /\ reported' \in [Todos -> SUBSET Nat] /\ reported'[t] = reported[t] \cup {i}
       /\ \A x \in Todos \ {t} : reported'[x] = reported[x]
  BY <1>1, <1>8, <1>9 DEF EvidenceShape
<1>12. /\ recorder' \in [Recorders -> RecorderWork] /\ recorder'[r] = Free
       /\ \A q \in Recorders \ {r} : recorder'[q] = recorder[q]
  BY <1>1, <1>2, WorkOfRecorders DEF EvidenceShape
<1>13. EvidenceGrows
  BY <1>2 DEF EvidenceGrows
<1>14. RecordsFollow
  BY <1>2, <1>12, WorkOfRecorders DEF RecordsFollow
<1>15. EvidenceShape'
  BY <1>1, <1>2, <1>11, <1>12 DEF EvidenceShape, LogsAreShaped
<1>16. IdentityHolds'
  BY <1>1, <1>2, <1>12, WorkOfRecorders DEF IdentityHolds
<1>17. RunsHold'
  <2>1. ASSUME NEW x \in Todos PROVE RecordsLogged(x, commandRecords[x])'
    <3>1. CASE x = t
      <4>1. \A k \in DOMAIN rs : /\ rs[k].log \in 1 .. MaxRuns[t] /\ rs[k].version # 0
                                 /\ evidenceFaults = 0 => logs[t][rs[k].log] = rs[k].version
        BY <1>5 DEF RecordsLogged
      <4>2. \A k \in DOMAIN ns : /\ ns[k].log \in 1 .. MaxRuns[t] /\ ns[k].version # 0
                                 /\ evidenceFaults = 0 => logs[t][ns[k].log] = ns[k].version
        BY <1>5, <1>6, <1>7, <1>10, <4>1
      <4> QED BY <1>2, <1>11, <3>1, <4>2 DEF RecordsLogged
    <3>2. CASE x # t
      <4>1. RecordsLogged(x, commandRecords[x])
        BY <1>1 DEF RunsHold
      <4> QED BY <1>2, <1>11, <3>2, <4>1 DEF RecordsLogged
    <3> QED BY <3>1, <3>2
  <2>2. ASSUME NEW x \in Todos \ overlapped PROVE reported'[x] = LogsOf(commandRecords'[x])
    <3>1. CASE x = t
      <4>1. rs = commandRecords[t] /\ reported[t] = LogsOf(rs)
        BY <1>1, <1>3, <1>4, <3>1 DEF RunFits, RunsHold
      <4>2. LogsOf(ns) = LogsOf(rs) \cup {i}
        BY <1>7, <1>10 DEF LogsOf
      <4> QED BY <1>11, <3>1, <4>1, <4>2
    <3>2. CASE x # t
      BY <1>1, <1>11, <3>2 DEF RunsHold
    <3> QED BY <3>1, <3>2
  <2>3. ASSUME NEW q \in Recorders, recorder'[q].command = "run" PROVE RunFits(q)'
    <3>1. q # r /\ recorder'[q] = recorder[q] /\ recorder[q].command = "run" /\ RunFits(q)
      BY <1>1, <1>12, <2>3, WorkOfRecorders DEF RunsHold
    <3>2. PICK x \in Todos : x = recorder[q].todo
      BY <1>1, <3>1, FilesOfRecorders
    <3>3. ASSUME x \notin overlapped
          PROVE  /\ recorder[q].existing = commandRecords'[x]
                 /\ \A p \in Recorders : recorder'[p].command = "run" /\ recorder'[p].todo = x => p = q
      <4>1. /\ recorder[q].existing = commandRecords[x]
            /\ \A p \in Recorders : recorder[p].command = "run" /\ recorder[p].todo = x => p = q
        BY <3>1, <3>2, <3>3 DEF RunFits
      <4>2. x # t
        BY <1>2, <1>4, <3>1, <4>1
      <4> QED BY <1>11, <1>12, <4>1, <4>2, WorkOfRecorders
    <3> QED BY <1>2, <3>1, <3>2, <3>3 DEF RunFits, RecordsLogged
  <2> QED BY <1>2, <2>1, <2>2, <2>3 DEF RunsHold
<1> QED BY <1>2, <1>13, <1>14, <1>15, <1>16, <1>17, RecordersKeep

(* A command that is lost leaves its log, and no record.                    *)
LEMMA CommandsAreLost ==
    ASSUME EvidenceInv, NEW r \in Recorders, RunIsLost(r)
    PROVE  EvidenceInv'
<1>1. EvidenceShape /\ RunsHold /\ IdentityHolds
  BY DEF EvidenceInv
<1>2. /\ UNCHANGED <<identity, history, mainHead, worktree, narrative, startRecord, commandRecords, manifest, integration,
                     logs, reported, overlapped, evidenceFaults>>
      /\ recorder' = [recorder EXCEPT ![r] = Free]
  BY DEF RunIsLost, people, files, Drop
<1>3. /\ recorder' \in [Recorders -> RecorderWork] /\ recorder'[r] = Free
      /\ \A q \in Recorders \ {r} : recorder'[q] = recorder[q]
  BY <1>1, <1>2, WorkOfRecorders DEF EvidenceShape
<1>4. EvidenceGrows /\ RecordsFollow
  BY <1>2, <1>3, WorkOfRecorders DEF EvidenceGrows, RecordsFollow
<1>5. EvidenceShape'
  BY <1>1, <1>2, <1>3 DEF EvidenceShape, LogsAreShaped
<1>6. IdentityHolds'
  BY <1>1, <1>2, <1>3, WorkOfRecorders DEF IdentityHolds
<1>7. RunsHold'
  <2>1. \A q \in Recorders : recorder'[q] = recorder[q] \/ recorder'[q].command # "run"
    BY <1>3, WorkOfRecorders
  <2> QED BY <1>1, <1>2, <1>4, <2>1, RunsStay
<1> QED BY <1>2, <1>4, <1>5, <1>6, <1>7, RecordersKeep

(* The write of a record.                                                   *)
LEMMA RecordsWritten ==
    ASSUME EvidenceInv, NEW r \in Recorders, WriteRecord(r)
    PROVE  EvidenceInv'
<1> USE NoFileIsNone
<1>1. EvidenceShape /\ RunsHold /\ IdentityHolds
  BY DEF EvidenceInv
<1>2. /\ UNCHANGED <<identity, history, mainHead, worktree, narrative, commandRecords, logs, reported,
                     overlapped, evidenceFaults>>
      /\ recorder' = [recorder EXCEPT ![r] = Free]
  BY DEF WriteRecord, people, Drop
<1>3. PICK t, f : t = recorder[r].todo /\ f = recorder[r].file
  OBVIOUS
<1>4. \/ /\ recorder[r].command = "start" /\ startRecord' = [startRecord EXCEPT ![t] = Linked(startRecord[t], f)]
         /\ UNCHANGED <<manifest, integration>>
      \/ /\ recorder[r].command = "finalize" /\ manifest' = [manifest EXCEPT ![t] = Linked(manifest[t], f)]
         /\ UNCHANGED <<startRecord, integration>>
      \/ /\ recorder[r].command = "integrate" /\ integration' = [integration EXCEPT ![t] = Linked(integration[t], f)]
         /\ UNCHANGED <<startRecord, manifest>>
  BY <1>3 DEF WriteRecord
<1>5. /\ recorder' \in [Recorders -> RecorderWork] /\ recorder'[r] = Free
      /\ \A q \in Recorders \ {r} : recorder'[q] = recorder[q]
  BY <1>1, <1>2, WorkOfRecorders DEF EvidenceShape
<1>6. /\ startRecord \in [Todos -> {NoFile} \cup StartRecords] /\ manifest \in [Todos -> {NoFile} \cup Manifests]
      /\ integration \in [Todos -> {NoFile} \cup Receipts]
  BY <1>1 DEF EvidenceShape
<1>7. /\ startRecord' \in [Todos -> {NoFile} \cup StartRecords] /\ manifest' \in [Todos -> {NoFile} \cup Manifests]
      /\ integration' \in [Todos -> {NoFile} \cup Receipts]
      /\ \A x \in Todos :
           /\ startRecord[x] # NoFile => startRecord'[x] = startRecord[x]
           /\ manifest[x] # NoFile => manifest'[x] = manifest[x]
           /\ integration[x] # NoFile => integration'[x] = integration[x]
           /\ startRecord'[x] = startRecord[x] \/ (recorder[r].command = "start" /\ t = x /\ startRecord'[x] = f)
           /\ manifest'[x] = manifest[x] \/ (recorder[r].command = "finalize" /\ t = x /\ manifest'[x] = f)
           /\ integration'[x] = integration[x] \/ (recorder[r].command = "integrate" /\ t = x /\ integration'[x] = f)
  <2>1. CASE /\ recorder[r].command = "start" /\ startRecord' = [startRecord EXCEPT ![t] = Linked(startRecord[t], f)]
             /\ UNCHANGED <<manifest, integration>>
    <3>1. t \in Todos /\ f \in StartRecords
      BY <1>1, <1>3, <2>1, FilesOfRecorders
    <3> QED BY <1>6, <2>1, <3>1 DEF Linked
  <2>2. CASE /\ recorder[r].command = "finalize" /\ manifest' = [manifest EXCEPT ![t] = Linked(manifest[t], f)]
             /\ UNCHANGED <<startRecord, integration>>
    <3>1. t \in Todos /\ f \in Manifests
      BY <1>1, <1>3, <2>2, FilesOfRecorders
    <3> QED BY <1>6, <2>2, <3>1 DEF Linked
  <2>3. CASE /\ recorder[r].command = "integrate" /\ integration' = [integration EXCEPT ![t] = Linked(integration[t], f)]
             /\ UNCHANGED <<startRecord, manifest>>
    <3>1. t \in Todos /\ f \in Receipts
      BY <1>1, <1>3, <2>3, FilesOfRecorders
    <3> QED BY <1>6, <2>3, <3>1 DEF Linked
  <2> QED BY <1>4, <2>1, <2>2, <2>3
<1>8. EvidenceGrows
  BY <1>2, <1>7 DEF EvidenceGrows
<1>9. RecordsFollow
  BY <1>3, <1>5, <1>7, WorkOfRecorders DEF RecordsFollow
<1>10. EvidenceShape'
  BY <1>1, <1>2, <1>5, <1>7 DEF EvidenceShape, LogsAreShaped
<1>11. IdentityHolds'
  <2>1. recorder[r].command # "none"
    BY <1>4
  <2> QED BY <1>1, <1>2, <2>1 DEF IdentityHolds
<1>12. RunsHold'
  <2>1. \A q \in Recorders : recorder'[q] = recorder[q] \/ recorder'[q].command # "run"
    BY <1>5, WorkOfRecorders
  <2> QED BY <1>1, <1>2, <1>8, <2>1, RunsStay
<1> QED BY <1>2, <1>8, <1>9, <1>10, <1>11, <1>12, RecordersKeep

(* A recorder that is killed.                                               *)
LEMMA RecordersKilled ==
    ASSUME EvidenceInv, NEW r \in Recorders, Killed(r)
    PROVE  EvidenceInv'
<1>1. EvidenceShape /\ RunsHold /\ IdentityHolds
  BY DEF EvidenceInv
<1>2. /\ UNCHANGED <<identity, history, mainHead, worktree, narrative, startRecord, commandRecords, manifest, integration,
                     logs, reported, overlapped>>
      /\ recorder' = [recorder EXCEPT ![r] = Free] /\ recorder[r] # Free
      /\ evidenceFaults' \in Nat /\ evidenceFaults' # 0
  BY <1>1 DEF Killed, people, files, Drop, EvidenceFault, EvidenceShape
<1>3. /\ recorder' \in [Recorders -> RecorderWork] /\ recorder'[r] = Free
      /\ \A q \in Recorders \ {r} : recorder'[q] = recorder[q]
  BY <1>1, <1>2, WorkOfRecorders DEF EvidenceShape
<1>4. EvidenceGrows
  BY <1>2 DEF EvidenceGrows
<1>5. RecordsFollow
  BY <1>2, <1>3, WorkOfRecorders DEF RecordsFollow
<1>6. EvidenceShape'
  BY <1>1, <1>2, <1>3 DEF EvidenceShape, LogsAreShaped
<1>7. IdentityHolds'
  BY <1>1, <1>2, <1>3, WorkOfRecorders DEF IdentityHolds
<1>8. RunsHold'
  <2>1. \A q \in Recorders : recorder'[q] = recorder[q] \/ recorder'[q].command # "run"
    BY <1>3, WorkOfRecorders
  <2> QED BY <1>1, <1>2, <1>4, <2>1, RunsStay
<1> QED BY <1>2, <1>4, <1>5, <1>6, <1>7, <1>8, RecordersKeep

(* An identity that drifts, and files that are rewritten.                   *)
LEMMA FilesRewritten ==
    ASSUME EvidenceInv,
           \/ Drift
           \/ \E t \in Todos : \/ RewriteNarrative(t)
                               \/ \E i \in 1 .. MaxRuns[t] : RewriteLog(t, i)
                               \/ \E c \in WorkCommits : RewriteManifest(t, c)
    PROVE  EvidenceInv'
<1> USE NoFileIsNone
<1>1. EvidenceShape /\ RunsHold /\ IdentityHolds
  BY DEF EvidenceInv
<1>2. /\ UNCHANGED <<history, mainHead, worktree, startRecord, commandRecords, integration, recorder, reported, overlapped>>
      /\ evidenceFaults' \in Nat /\ evidenceFaults' # 0
  BY <1>1 DEF Drift, RewriteNarrative, RewriteLog, RewriteManifest, people, files, EvidenceFault, EvidenceShape
<1>3. identity' = identity \/ (identity = "APPROVED" /\ identity' = "DRIFTED")
  BY DEF Drift, RewriteNarrative, RewriteLog, RewriteManifest
<1>4. narrative' \in [Todos -> Nat]
  <2>1. narrative \in [Todos -> Nat]
    BY <1>1 DEF EvidenceShape
  <2>2. ASSUME NEW t \in Todos, RewriteNarrative(t) PROVE narrative' \in [Todos -> Nat]
    BY <2>1, <2>2 DEF RewriteNarrative
  <2>3. (\E t \in Todos : RewriteNarrative(t)) \/ narrative' = narrative
    BY DEF Drift, RewriteLog, RewriteManifest, people
  <2> QED BY <2>1, <2>2, <2>3
<1>5. /\ LogsAreShaped(logs')
      /\ \A x \in Todos : \A k \in 1 .. MaxRuns[x] : logs[x][k] # 0 => logs'[x][k] # 0
  <2>1. LogsAreShaped(logs)
    BY <1>1 DEF EvidenceShape
  <2>2. ASSUME NEW t \in Todos, NEW i \in 1 .. MaxRuns[t], RewriteLog(t, i)
        PROVE  /\ LogsAreShaped(logs')
               /\ \A x \in Todos : \A k \in 1 .. MaxRuns[x] : logs[x][k] # 0 => logs'[x][k] # 0
    BY <2>1, <2>2, LogRewritten
  <2>3. (\E t \in Todos : \E i \in 1 .. MaxRuns[t] : RewriteLog(t, i)) \/ logs' = logs
    BY DEF Drift, RewriteNarrative, RewriteManifest
  <2> QED BY <2>1, <2>2, <2>3
<1>6. /\ manifest' \in [Todos -> {NoFile} \cup Manifests]
      /\ \A x \in Todos : /\ manifest[x] # NoFile => manifest'[x] # NoFile
                          /\ \/ manifest'[x] = manifest[x]
                             \/ /\ manifest[x] # NoFile
                                /\ \E c \in CommitIds : manifest'[x] = [manifest[x] EXCEPT !.commit = c]
  <2>1. manifest \in [Todos -> {NoFile} \cup Manifests]
    BY <1>1 DEF EvidenceShape
  <2>2. ASSUME NEW t \in Todos, NEW c \in WorkCommits, RewriteManifest(t, c)
        PROVE  /\ manifest' \in [Todos -> {NoFile} \cup Manifests]
               /\ manifest[t] # NoFile /\ manifest'[t] # NoFile /\ manifest'[t] = [manifest[t] EXCEPT !.commit = c]
               /\ \A x \in Todos \ {t} : manifest'[x] = manifest[x]
    <3> DEFINE forged == [manifest[t] EXCEPT !.commit = c]
    <3>1. manifest[t] # NoFile /\ manifest[t] \in Manifests /\ c \in CommitIds
      BY <2>1, <2>2, CommitFacts DEF RewriteManifest
    <3>2. forged \in Manifests
      BY <3>1 DEF Manifests
    <3>3. manifest' = [manifest EXCEPT ![t] = forged]
      BY <2>2 DEF RewriteManifest
    <3> HIDE DEF forged
    <3>4. manifest' \in [Todos -> {NoFile} \cup Manifests] /\ manifest'[t] = forged /\ \A x \in Todos \ {t} : manifest'[x] = manifest[x]
      BY <2>1, <3>2, <3>3
    <3>5. manifest'[t] # NoFile
      BY <3>2, <3>4
    <3> QED BY <3>1, <3>4, <3>5 DEF forged
  <2>3. (\E t \in Todos : \E c \in WorkCommits : RewriteManifest(t, c)) \/ manifest' = manifest
    BY DEF Drift, RewriteNarrative, RewriteLog, files
  <2>4. CASE manifest' = manifest
    BY <2>1, <2>4
  <2>5. ASSUME NEW t \in Todos, NEW c \in WorkCommits, RewriteManifest(t, c), NEW x \in Todos
        PROVE  /\ manifest[x] # NoFile => manifest'[x] # NoFile
               /\ \/ manifest'[x] = manifest[x]
                  \/ /\ manifest[x] # NoFile
                     /\ \E d \in CommitIds : manifest'[x] = [manifest[x] EXCEPT !.commit = d]
    <3>1. CASE x = t
      BY <2>2, <2>5, <3>1, CommitFacts
    <3>2. CASE x # t
      BY <2>2, <2>5, <3>2
    <3> QED BY <3>1, <3>2
  <2> QED BY <2>2, <2>3, <2>4, <2>5
<1>7. EvidenceGrows
  BY <1>2, <1>5, <1>6 DEF EvidenceGrows
<1>8. RecordsFollow
  BY <1>2, <1>6 DEF RecordsFollow
<1>9. EvidenceShape'
  BY <1>1, <1>2, <1>3, <1>4, <1>5, <1>6 DEF EvidenceShape
<1>10. IdentityHolds'
  BY <1>1, <1>2, <1>3 DEF IdentityHolds
<1>11. RunsHold'
  BY <1>1, <1>2, <1>7, RunsStay
<1> QED BY <1>2, <1>7, <1>8, <1>9, <1>10, <1>11, RecordersKeep

(* Every step keeps the evidence's invariant.                               *)
LEMMA EvidenceKeeps == EvidenceInv /\ [EvidenceNext]_evidenceVars => EvidenceInv'
<1> SUFFICES ASSUME EvidenceInv, [EvidenceNext]_evidenceVars PROVE EvidenceInv'
  OBVIOUS
<1>1. ASSUME NEW t \in Todos, Checkout(t) \/ Edit(t) \/ MergeWork(t) \/ WriteNarrative(t) PROVE EvidenceInv'
  BY <1>1, TreesOfPeople, MergesOfPeople
<1>2. ASSUME NEW c \in WorkCommits, NEW paths \in {"declared", "stray", "empty"}, CommitWork(c[1], c, paths)
      PROVE  EvidenceInv'
  BY <1>2, CommitsOfPeople DEF Paths
<1>3. ASSUME NEW ok \in BOOLEAN, NEW same \in BOOLEAN, NEW base \in {Base, Bootstrap}, Initialize(ok, same, base)
      PROVE  EvidenceInv'
  BY <1>3, Initializing
<1>4. ASSUME NEW r \in Recorders, NEW t \in Todos,
             \/ \E retrospective \in BOOLEAN : BeginStart(r, t, retrospective)
             \/ \E i \in 1 .. MaxRuns[t] : BeginRun(r, t, i)
             \/ BeginFinalize(r, t)
             \/ \E m \in CommitIds : BeginIntegrate(r, t, m)
      PROVE  EvidenceInv'
  BY <1>4, StartsFit, CommandsBegin, FreezesFit, IntegrationsFit
<1>5. ASSUME NEW r \in Recorders,
             (\E passed \in BOOLEAN : EndRun(r, passed)) \/ RunIsLost(r) \/ WriteRecord(r) \/ Killed(r)
      PROVE  EvidenceInv'
  BY <1>5, CommandsEnd, CommandsAreLost, RecordsWritten, RecordersKilled
<1>6. ASSUME \/ Drift
             \/ \E t \in Todos : \/ RewriteNarrative(t)
                                 \/ \E i \in 1 .. MaxRuns[t] : RewriteLog(t, i)
                                 \/ \E c \in WorkCommits : RewriteManifest(t, c)
      PROVE  EvidenceInv'
  BY <1>6, FilesRewritten
<1>7. ASSUME UNCHANGED evidenceVars PROVE EvidenceInv'
  <2>1. UNCHANGED <<identity, history, mainHead, worktree, startRecord, commandRecords, manifest, integration, logs,
                    narrative, recorder, reported, overlapped, evidenceFaults>>
    BY <1>7 DEF evidenceVars
  <2>2. EvidenceGrows /\ RecordsFollow
    BY <2>1 DEF EvidenceGrows, RecordsFollow
  <2>3. EvidenceShape' /\ IdentityHolds'
    BY <2>1 DEF EvidenceShape, IdentityHolds, LogsAreShaped, EvidenceInv
  <2>4. RunsHold'
    BY <2>1, <2>2, RunsStay DEF EvidenceInv
  <2> QED BY <2>1, <2>2, <2>3, <2>4, RecordersKeep
<1> QED BY <1>1, <1>2, <1>3, <1>4, <1>5, <1>6, <1>7 DEF EvidenceNext

(* Failures are kept.                                                       *)
LEMMA FailuresStay == EvidenceInv => FailuresAreKept
BY DEF EvidenceInv, RunsHold, FailuresAreKept, LogsOf

(* What was recorded and merged complies.                                   *)
LEMMA RecordedComplies == EvidenceInv => RecordedWorkComplies
<1> USE NoFileIsNone
<1> SUFFICES ASSUME EvidenceInv, \A t \in Todos : integration[t] # NoFile,
                    \A t \in Todos : manifest[t].paths # "empty" /\ \A d \in Deps[t] : d < t,
                    IsAncestor(manifest[1].commit, mainHead), evidenceFaults = 0,
                    \A t \in Todos : \A d \in Deps[t] : \E e \in startRecord[t].baseline :
                       e.todo = d /\ IsAncestor(e.commit, startRecord[t].sha)
             PROVE  Compliance(mainHead)
  BY DEF RecordedWorkComplies
<1>1. /\ EvidenceShape /\ IdentityHolds /\ HistoryHolds /\ StartsHold /\ ManifestsHold /\ ReceiptsHold /\ RunsHold
  BY DEF EvidenceInv
<1>2. ValidateAttempt
  <2>1. 1 \in Todos
    BY EvidenceAssumption DEF EvidenceAssumption
  <2>2. identity # "NONE" /\ identity # "DRIFTED"
    BY <1>1, <2>1 DEF IdentityHolds
  <2> QED BY <1>1, <2>2 DEF EvidenceShape, ValidateAttempt
<1>3. ASSUME NEW t \in Todos
      PROVE  /\ manifest[t] # NoFile /\ manifest[t] \in Manifests /\ ManifestFits(t, manifest[t])
             /\ integration[t].manifest = manifest[t] /\ integration[t].commit = manifest[t].commit
             /\ integration[t].at \in CommitIds /\ IntegratesTask(t, manifest[t].commit, integration[t].at)
             /\ StartFits(startRecord[t]) /\ manifest[t].sha = startRecord[t].sha
             /\ manifest[t].baseline = startRecord[t].baseline
  <2>1. integration[t] # NoFile /\ integration[t] \in Receipts
    BY <1>1 DEF EvidenceShape
  <2>2. ReceiptFits(t, integration[t])
    BY <1>1, <2>1 DEF ReceiptsHold
  <2>3. /\ manifest[t] # NoFile /\ integration[t].manifest = manifest[t] /\ integration[t].commit = manifest[t].commit
        /\ IntegratesTask(t, manifest[t].commit, integration[t].at)
    BY <2>2 DEF ReceiptFits
  <2>4. manifest[t] \in Manifests /\ ManifestFits(t, manifest[t])
    BY <1>1, <2>3 DEF EvidenceShape, ManifestsHold
  <2>5. /\ startRecord[t] # NoFile /\ manifest[t].sha = startRecord[t].sha
        /\ manifest[t].baseline = startRecord[t].baseline
    BY <2>4 DEF ManifestFits
  <2>6. StartFits(startRecord[t])
    BY <1>1, <2>5 DEF StartsHold
  <2>7. integration[t].at \in CommitIds
    BY <2>1 DEF Receipts
  <2> QED BY <2>3, <2>4, <2>5, <2>6, <2>7
<1>4. ASSUME NEW t \in Todos PROVE IsAncestor(manifest[t].commit, mainHead) /\ IsAncestor(integration[t].at, mainHead)
  <2>1. PICK m \in CommitIds, c \in CommitIds : m = integration[t].at /\ c = manifest[t].commit
    <3>1. manifest[t].commit \in CommitIds
      BY <1>3 DEF Manifests
    <3> QED BY <1>3, <3>1
  <2>2. IsAncestor(c, m)
    BY <1>3, <2>1 DEF IntegratesTask
  <2>3. mainHead \in CommitIds /\ MadeCommit(mainHead)
    BY <1>1 DEF EvidenceShape, HistoryHolds
  <2>4. CASE t = 1
    <3>1. m = c
      BY <1>3, <2>1, <2>4 DEF IntegratesTask
    <3> QED BY <2>1, <2>4, <3>1
  <2>5. CASE t # 1
    <3>1. Len(history[m].parents) = 2
      BY <1>3, <2>1, <2>5 DEF IntegratesTask
    <3>2. m \in history[mainHead].ancestors
      BY <1>1, <2>2, <3>1 DEF HistoryHolds, IsAncestor
    <3>3. history[m].ancestors \subseteq history[mainHead].ancestors
      BY <1>1, <2>3, <3>2 DEF HistoryHolds
    <3> QED BY <2>1, <2>2, <2>3, <3>2, <3>3 DEF IsAncestor
  <2> QED BY <2>4, <2>5
<1>5. ASSUME NEW t \in Todos PROVE BaselineHolds(t)
  <2>1. ASSUME NEW d \in Deps[t]
        PROVE  /\ d < t /\ [todo |-> d, commit |-> manifest[d].commit] \in manifest[t].baseline
               /\ IsAncestor(manifest[d].commit, manifest[t].sha)
    <3>1. d \in Todos
      BY EvidenceAssumption DEF EvidenceAssumption
    <3>2. integration[d].commit = manifest[d].commit
      BY <1>3, <3>1
    <3>3. PICK e \in startRecord[t].baseline : e.todo = d /\ IsAncestor(e.commit, startRecord[t].sha)
      OBVIOUS
    <3>4. startRecord[t].baseline \in Baselines
      BY <1>3 DEF Manifests
    <3>5. e = [todo |-> d, commit |-> e.commit]
      BY <3>3, <3>4 DEF Baselines
    <3>6. integration[d].commit = e.commit
      BY <1>3, <3>3 DEF StartFits
    <3> QED BY <1>3, <3>2, <3>3, <3>5, <3>6
  <2> QED BY <2>1 DEF BaselineHolds
<1>6. ASSUME NEW t \in Todos
      PROVE  /\ ArtifactsHold(t)
             /\ AllPassed(manifest[t].commands, manifest[t].commands[1].at)
             /\ history[manifest[t].commit].parents = <<manifest[t].sha>>
             /\ history[manifest[t].commit].paths = manifest[t].paths
  <2>1. ManifestFits(t, manifest[t])
    BY <1>3
  <2>2. ArtifactsHold(t)
    BY <2>1 DEF ManifestFits, RecordsLogged, ArtifactsHold, EvidenceStands
  <2>3. PICK rs \in Seq(CommandResults) : rs = manifest[t].commands
    BY <1>3 DEF Manifests
  <2>4. rs # <<>> /\ \A i \in DOMAIN rs : rs[i].passed /\ rs[i].cleanAfter /\ rs[i].at = manifest[t].commit
    BY <2>1, <2>3 DEF ManifestFits
  <2>5. 1 \in DOMAIN rs
    BY <2>4
  <2>6. AllPassed(rs, rs[1].at)
    BY <2>4, <2>5 DEF AllPassed
  <2> QED BY <2>1, <2>2, <2>3, <2>6 DEF ManifestFits
<1>7. ASSUME NEW t \in Todos PROVE TaskComplies(t, mainHead)
  BY <1>3, <1>4, <1>5, <1>6, <1>7 DEF TaskComplies
<1> QED BY <1>2, <1>3, <1>7 DEF Compliance

(* Compliance is a proof: of one commit on the start of the todo, as long   *)
(* as the manifest is of the start, and of commands that passed on it.      *)
LEMMA CompliesAsProof == EvidenceInv => ComplianceIsProof
<1> SUFFICES ASSUME EvidenceInv, Compliance(mainHead), NEW t \in Todos
             PROVE  /\ OneCommitOn(startRecord[t].sha, manifest[t].commit)
                    /\ IsAncestor(manifest[t].commit, mainHead)
                    /\ manifest[t].commands # <<>>
                    /\ \A i \in DOMAIN manifest[t].commands :
                          manifest[t].commands[i].passed /\ manifest[t].commands[i].at = manifest[t].commit
  BY DEF ComplianceIsProof
<1>1. TaskComplies(t, mainHead) /\ manifest[t] # NoFile
  BY DEF Compliance
<1>2. manifest[t].sha = startRecord[t].sha /\ manifest[t] \in Manifests
  BY <1>1 DEF EvidenceInv, ManifestsHold, ManifestFits, EvidenceShape
<1>3. IsAncestor(manifest[t].commit, mainHead) /\ history[manifest[t].commit].parents = <<manifest[t].sha>>
  BY <1>1 DEF TaskComplies
<1>4. MadeCommit(manifest[t].commit)
  <2>1. mainHead \in CommitIds /\ HistoryHolds
    BY DEF EvidenceInv, EvidenceShape
  <2> QED BY <1>3, <2>1 DEF IsAncestor, HistoryHolds
<1>5. OneCommitOn(startRecord[t].sha, manifest[t].commit)
  BY <1>2, <1>3, <1>4 DEF OneCommitOn
<1>6. /\ manifest[t].commands # <<>>
      /\ \A i \in DOMAIN manifest[t].commands :
            manifest[t].commands[i].passed /\ manifest[t].commands[i].at = manifest[t].commit
  BY <1>1 DEF TaskComplies, AllPassed, ArtifactsHold
<1> QED BY <1>3, <1>5, <1>6

(* No step replaces a record.                                               *)
LEMMA RecordsAreFast ==
    ASSUME EvidenceInv, [EvidenceNext]_evidenceVars, NEW t \in Todos
    PROVE  /\ startRecord[t] # NoFile => startRecord'[t] = startRecord[t]
           /\ integration[t] # NoFile => integration'[t] = integration[t]
           /\ manifest[t] # NoFile /\ evidenceFaults' = evidenceFaults => manifest'[t] = manifest[t]
<1>1. EvidenceShape
  BY DEF EvidenceInv
<1>2. CASE UNCHANGED files
  BY <1>2 DEF files
<1>3. CASE \E r \in Recorders, passed \in BOOLEAN : EndRun(r, passed)
  BY <1>3 DEF EndRun
<1>4. CASE \E x \in Todos, c \in WorkCommits : RewriteManifest(x, c)
  <2>1. startRecord' = startRecord /\ integration' = integration /\ evidenceFaults' = evidenceFaults + 1
    BY <1>4 DEF RewriteManifest, EvidenceFault
  <2> QED BY <1>1, <2>1 DEF EvidenceShape
<1>5. CASE \E r \in Recorders : WriteRecord(r)
  <2>1. PICK r \in Recorders : WriteRecord(r)
    BY <1>5
  <2>2. PICK x, f : x = recorder[r].todo /\ f = recorder[r].file
    OBVIOUS
  <2>3. \/ /\ startRecord' = [startRecord EXCEPT ![x] = Linked(startRecord[x], f)]
           /\ UNCHANGED <<manifest, integration>>
        \/ /\ manifest' = [manifest EXCEPT ![x] = Linked(manifest[x], f)]
           /\ UNCHANGED <<startRecord, integration>>
        \/ /\ integration' = [integration EXCEPT ![x] = Linked(integration[x], f)]
           /\ UNCHANGED <<startRecord, manifest>>
    BY <2>1, <2>2 DEF WriteRecord
  <2> QED BY <1>1, <2>3 DEF EvidenceShape, Linked
<1>6. \/ UNCHANGED files
      \/ \E r \in Recorders, passed \in BOOLEAN : EndRun(r, passed)
      \/ \E x \in Todos, c \in WorkCommits : RewriteManifest(x, c)
      \/ \E r \in Recorders : WriteRecord(r)
  <2>1. \A x \in Todos : Checkout(x) \/ Edit(x) \/ MergeWork(x) \/ WriteNarrative(x) => UNCHANGED files
    BY DEF Checkout, Edit, MergeWork, WriteNarrative, PersonOnly
  <2>2. \A c \in WorkCommits, paths \in {"declared", "stray", "empty"} : CommitWork(c[1], c, paths) => UNCHANGED files
    BY DEF CommitWork, PersonOnly
  <2>3. \A ok, same \in BOOLEAN, base \in {Base, Bootstrap} : Initialize(ok, same, base) => UNCHANGED files
    BY DEF Initialize
  <2>4. ASSUME NEW r \in Recorders, NEW x \in Todos
        PROVE  /\ \A retrospective \in BOOLEAN : BeginStart(r, x, retrospective) => UNCHANGED files
               /\ \A i \in 1 .. MaxRuns[x] : BeginRun(r, x, i) => UNCHANGED files
               /\ BeginFinalize(r, x) => UNCHANGED files
               /\ \A m \in CommitIds : BeginIntegrate(r, x, m) => UNCHANGED files
    BY DEF BeginStart, BeginRun, BeginFinalize, BeginIntegrate
  <2>5. /\ \A r \in Recorders : Killed(r) \/ RunIsLost(r) => UNCHANGED files
        /\ Drift => UNCHANGED files
        /\ \A x \in Todos : /\ RewriteNarrative(x) => UNCHANGED files
                            /\ \A i \in 1 .. MaxRuns[x] : RewriteLog(x, i) => UNCHANGED files
    BY DEF Killed, RunIsLost, Drift, RewriteNarrative, RewriteLog
  <2>6. UNCHANGED evidenceVars => UNCHANGED files
    BY DEF evidenceVars, files
  <2> QED BY <2>1, <2>2, <2>3, <2>4, <2>5, <2>6 DEF EvidenceNext
<1> QED BY <1>2, <1>3, <1>4, <1>5, <1>6

(* What was recorded stands, and is what compliance proves, for any plan,   *)
(* any number of recorders and of people's commits, and however many of     *)
(* them are killed or rewrite files.                                        *)
THEOREM EvidenceSoundness == EvidenceSpec => EvidenceIsKept
<1>1. EvidenceInv => FailuresAreKept /\ RecordedWorkComplies /\ ComplianceIsProof
  BY FailuresStay, RecordedComplies, CompliesAsProof
<1>2. EvidenceInv /\ [EvidenceNext]_evidenceVars
      => [\A t \in Todos :
             /\ startRecord[t] # NoFile => startRecord'[t] = startRecord[t]
             /\ integration[t] # NoFile => integration'[t] = integration[t]
             /\ manifest[t] # NoFile /\ evidenceFaults' = evidenceFaults
                   => manifest'[t] = manifest[t]]_evidenceVars
  BY RecordsAreFast
<1> QED BY <1>1, <1>2, EvidenceStarts, EvidenceKeeps, PTL DEF EvidenceSpec, EvidenceIsKept, RecordsStand

-----------------------------------------------------------------------------
(* The activation of the application's contract.                            *)

(* What the activation of the contract rests on: who has been told that it  *)
(* is active was told the truth, and a write of the old contract has looked *)
(* at a snapshot from before the activation.                                *)
ActivationInv ==
    /\ ActivationTypeOK
    /\ OneReceiptActivates
    /\ AnswersAreTrue
    /\ OnlyOlderSnapshotsWrite

(* The activation's invariant holds in the initial states.               *)
LEMMA ActivationStarts == ActivationInit => ActivationInv
<1> SUFFICES ASSUME ActivationInit PROVE ActivationInv
  OBVIOUS
<1>1. ~marker
  BY DEF ActivationInit
<1>2. ActivationTypeOK
  <2>1. workers \in [enabled : BOOLEAN, epoch : 0 .. MaxSwitches] /\ activationFaults \in 0 .. MaxActivationFaults
    BY ActivationAssumption DEF ActivationAssumption, ActivationInit
  <2>2. writer \in [Writers -> [phase : {"idle", "begun", "written"}, contract : {"v1", "v2"},
                                serializable : BOOLEAN, saw : BOOLEAN]]
    BY DEF ActivationInit, NoWrite
  <2>3. receipts \in [Activators -> {"none", "fresh", "expired", "consumed"}]
    BY DEF ActivationInit
  <2>4. activator \in [Activators -> {"idle", "reading", "recording", "activating", "rereading"} \cup CallAnswersOf]
    BY DEF ActivationInit
  <2> QED BY <2>1, <2>2, <2>3, <2>4 DEF ActivationInit, ActivationTypeOK
<1>3. OneReceiptActivates
  BY <1>1 DEF ActivationInit, OneReceiptActivates
<1>4. AnswersAreTrue
  BY DEF ActivationInit, AnswersAreTrue
<1>5. OnlyOlderSnapshotsWrite
  BY <1>1 DEF OnlyOlderSnapshotsWrite
<1> QED BY <1>2, <1>3, <1>4, <1>5 DEF ActivationInv

(* Nothing else than an activation moves the marker or the receipts that    *)
(* were consumed, and an activation does once.                              *)
LEMMA MarkerMoves ==
    ASSUME ActivationTypeOK, OneReceiptActivates, ActivationNext,
           marker' # marker \/ consumed' # consumed
    PROVE  /\ ~marker /\ marker' /\ consumed' = consumed + 1
           /\ \E a \in Activators : Activate(a) /\ MayActivate(a)
           /\ \A w \in Writers : writer[w].phase # "written" /\ writer'[w] = writer[w]
<1>1. ASSUME NEW a \in Activators, Activate(a), MayActivate(a), marker' = TRUE, consumed' = consumed + 1
      PROVE  \A w \in Writers : writer[w].phase # "written" /\ writer'[w] = writer[w]
  BY <1>1 DEF Activate, ExclusiveLock, ActivationTypeOK
<1>2. ASSUME NEW a \in Activators, Activate(a)
      PROVE  MayActivate(a) /\ ~marker /\ marker' = TRUE /\ consumed' = consumed + 1
  BY <1>2 DEF Activate, MayActivate
<1> QED
  BY <1>1, <1>2
  DEF ActivationNext, ActivatorStep, Reconcile, BeginDisableWorkers, ReenableWorkers, AskForActivation,
      ReadMarker, RecordReadiness, RereadMarker, CallEnds, ReceiptExpires, CallIsStopped, WriteEnds, Write,
      BeginWrite

(* Every step keeps the types.                                           *)
LEMMA ActivationTypeStep ==
    ASSUME ActivationTypeOK, [ActivationNext]_activationVars PROVE ActivationTypeOK'
<1> USE ActivationAssumption
    DEF ActivationAssumption, ActivationTypeOK, CallAnswersOf, CallIs, CallTurns
<1>1. CASE Reconcile
  BY <1>1 DEF Reconcile
<1>2. CASE BeginDisableWorkers
  <2>1. workers' \in [enabled : BOOLEAN, epoch : 0 .. MaxSwitches]
    BY <1>2 DEF BeginDisableWorkers
  <2> QED BY <1>2, <2>1 DEF BeginDisableWorkers
<1>11. CASE ReenableWorkers
  <2>1. workers' \in [enabled : BOOLEAN, epoch : 0 .. MaxSwitches]
    BY <1>11 DEF ReenableWorkers
  <2> QED BY <1>11, <2>1 DEF ReenableWorkers
<1>3. ASSUME NEW a \in Activators, AskForActivation(a) \/ ReadMarker(a) \/ RereadMarker(a) \/ CallEnds(a)
      PROVE  ActivationTypeOK'
  BY <1>3 DEF AskForActivation, ReadMarker, RereadMarker, Reread, CallEnds
<1>4. ASSUME NEW a \in Activators, RecordReadiness(a) PROVE ActivationTypeOK'
  BY <1>4 DEF RecordReadiness, ActivationFault
<1>5. ASSUME NEW a \in Activators, Activate(a) PROVE ActivationTypeOK'
  <2>1. workers' \in [enabled : BOOLEAN, epoch : 0 .. MaxSwitches]
    BY <1>5 DEF Activate
  <2>2. receipts' \in [Activators -> {"none", "fresh", "expired", "consumed"}]
    BY <1>5 DEF Activate
  <2>3. consumed' \in Nat
    BY <1>5 DEF Activate
  <2>4. marker' \in BOOLEAN
    BY <1>5 DEF Activate
  <2>5. activator' \in [Activators -> {"idle", "reading", "recording", "activating", "rereading"}
                                         \cup CallAnswersOf]
    BY <1>5 DEF Activate
  <2>6. activationFaults' \in 0 .. MaxActivationFaults
    BY <1>5 DEF Activate, ActivationFault
  <2>7. unreconciled' \in BOOLEAN /\ writer' = writer
    BY <1>5 DEF Activate
  <2> QED BY <2>1, <2>2, <2>3, <2>4, <2>5, <2>6, <2>7
<1>6. ASSUME NEW a \in Activators, ReceiptExpires(a) PROVE ActivationTypeOK'
  BY <1>6 DEF ReceiptExpires
<1>7. ASSUME NEW a \in Activators, CallIsStopped(a) PROVE ActivationTypeOK'
  BY <1>7 DEF CallIsStopped, ActivationFault
<1>8. ASSUME NEW w \in Writers, WriteEnds(w) PROVE ActivationTypeOK'
  BY <1>8 DEF WriteEnds, NoWrite
<1>9. ASSUME NEW w \in Writers, Write(w) PROVE ActivationTypeOK'
  <2>1. writer'[w] \in [phase : {"idle", "begun", "written"}, contract : {"v1", "v2"},
                        serializable : BOOLEAN, saw : BOOLEAN]
    BY <1>9 DEF Write, NoWrite
  <2> QED BY <1>9, <2>1 DEF Write
<1>12. ASSUME NEW w \in Writers, NEW contract \in {"v1", "v2"}, NEW serializable \in BOOLEAN,
              BeginWrite(w, contract, serializable)
       PROVE  ActivationTypeOK'
  BY <1>12 DEF BeginWrite
<1>10. CASE UNCHANGED activationVars
  BY <1>10 DEF activationVars
<1> QED
  BY <1>1, <1>2, <1>11, <1>3, <1>4, <1>5, <1>6, <1>7, <1>8, <1>9, <1>10, <1>12
  DEF ActivationNext, ActivatorStep

(* Every step keeps the invariant.                                       *)
LEMMA ActivationSteps == ActivationInv /\ [ActivationNext]_activationVars => ActivationInv'
<1> SUFFICES ASSUME ActivationInv, [ActivationNext]_activationVars PROVE ActivationInv'
  OBVIOUS
<1>0. ActivationTypeOK /\ OneReceiptActivates /\ AnswersAreTrue /\ OnlyOlderSnapshotsWrite
  BY DEF ActivationInv
<1>1. ActivationTypeOK'
  BY <1>0, ActivationTypeStep
<1>2. CASE UNCHANGED activationVars
  BY <1>0, <1>1, <1>2
  DEF activationVars, ActivationInv, OneReceiptActivates, AnswersAreTrue, OnlyOlderSnapshotsWrite
<1>3. CASE ActivationNext
  <2>1. OneReceiptActivates'
    <3>1. CASE marker' = marker /\ consumed' = consumed
      BY <1>0, <3>1 DEF OneReceiptActivates
    <3>2. CASE ~(marker' = marker /\ consumed' = consumed)
      <4>1. ~marker /\ marker' /\ consumed' = consumed + 1
        BY <1>0, <1>3, <3>2, MarkerMoves
      <4>2. consumed = 0
        BY <1>0, <4>1 DEF OneReceiptActivates
      <4> QED BY <4>1, <4>2 DEF OneReceiptActivates
    <3> QED BY <3>1, <3>2
  <2>2. marker => marker'
    BY <1>0, <1>3, MarkerMoves
  <2>3. AnswersAreTrue'
    <3> SUFFICES ASSUME NEW b \in Activators, activator'[b] \in {"activated", "already_active"}
                 PROVE  marker'
      BY DEF AnswersAreTrue
    <3>1. CASE activator'[b] = activator[b]
      BY <1>0, <2>2, <3>1 DEF AnswersAreTrue
    <3>2. ASSUME NEW a \in Activators, ActivatorStep(a), activator'[b] # activator[b] PROVE marker'
      <4>1. b = a
        BY <1>0, <3>2 DEF ActivatorStep, ReadMarker, RecordReadiness, Activate, RereadMarker, CallEnds,
                          CallTurns, ActivationTypeOK
      <4>2. CASE ReadMarker(a)
        BY <1>0, <4>1, <4>2 DEF ReadMarker, CallTurns, ActivationTypeOK
      <4>3. CASE RecordReadiness(a)
        BY <1>0, <4>1, <4>3 DEF RecordReadiness, CallTurns, ActivationTypeOK
      <4>4. CASE Activate(a)
        BY <1>0, <4>1, <4>4 DEF Activate, CallTurns, ActivationTypeOK
      <4>5. CASE RereadMarker(a)
        BY <1>0, <4>1, <4>5 DEF RereadMarker, Reread, CallTurns, ActivationTypeOK
      <4>6. CASE CallEnds(a)
        BY <1>0, <4>1, <4>6 DEF CallEnds, CallTurns, ActivationTypeOK
      <4> QED BY <3>2, <4>2, <4>3, <4>4, <4>5, <4>6 DEF ActivatorStep
    <3>3. ASSUME NEW a \in Activators, AskForActivation(a) \/ CallIsStopped(a) PROVE activator'[b] \in {activator[b], "reading", "idle"}
      BY <1>0, <3>3 DEF AskForActivation, CallIsStopped, CallTurns, ActivationTypeOK
    <3> QED
      BY <1>3, <3>1, <3>2, <3>3
      DEF ActivationNext, Reconcile, BeginDisableWorkers, ReenableWorkers, ReceiptExpires, WriteEnds, Write,
          BeginWrite
  <2>4. OnlyOlderSnapshotsWrite'
    <3> SUFFICES ASSUME marker', NEW v \in Writers, writer'[v].phase = "written", writer'[v].contract = "v1"
                 PROVE  writer'[v].serializable /\ ~writer'[v].saw
      BY DEF OnlyOlderSnapshotsWrite
    <3>1. CASE marker
      <4>1. ASSUME NEW w \in Writers, WriteEnds(w) PROVE writer'[v] = writer[v]
        BY <1>0, <4>1 DEF WriteEnds, NoWrite, ActivationTypeOK
      <4>2. ASSUME NEW w \in Writers, Write(w), v = w
            PROVE  writer'[v].serializable /\ ~writer'[v].saw
        <5>1. MayWrite(w) /\ writer'[v] = [writer[v] EXCEPT !.phase = "written"]
          BY <1>0, <4>2 DEF Write, NoWrite, ActivationTypeOK
        <5>2. writer[v].contract = "v1"
          BY <1>0, <5>1 DEF ActivationTypeOK
        <5>3. writer[v].serializable /\ ~writer[v].saw
          BY <1>0, <3>1, <4>2, <5>1, <5>2 DEF MayWrite, MarkerSeen, ActivationTypeOK
        <5> QED BY <1>0, <5>1, <5>3 DEF ActivationTypeOK
      <4>4. ASSUME NEW w \in Writers, Write(w), v # w PROVE writer'[v] = writer[v]
        BY <1>0, <4>4 DEF Write, ActivationTypeOK
      <4>5. ASSUME NEW w \in Writers, NEW contract \in {"v1", "v2"}, NEW serializable \in BOOLEAN,
                   BeginWrite(w, contract, serializable)
            PROVE  writer'[v] = writer[v]
        BY <1>0, <4>5 DEF BeginWrite, ActivationTypeOK
      <4>3. CASE writer'[v] = writer[v]
        BY <1>0, <3>1, <4>3 DEF OnlyOlderSnapshotsWrite
      <4> QED
        BY <1>3, <4>1, <4>2, <4>3, <4>4, <4>5
        DEF ActivationNext, ActivatorStep, Reconcile, BeginDisableWorkers, ReenableWorkers, AskForActivation,
            ReadMarker, RecordReadiness, Activate, RereadMarker, CallEnds, ReceiptExpires, CallIsStopped
    <3>2. CASE ~marker
      BY <1>0, <1>3, <3>2, MarkerMoves
    <3> QED BY <3>1, <3>2
  <2> QED BY <1>1, <2>1, <2>3, <2>4 DEF ActivationInv
<1> QED BY <1>2, <1>3

(* Activation is well typed, happens by one receipt, is answered truly, and *)
(* the old contract writes after it from an older snapshot only.            *)
THEOREM ActivationIsSound == ActivationSpec => []ActivationInv
<1> QED BY ActivationStarts, ActivationSteps, PTL DEF ActivationSpec

(* The types hold in every state.                                          *)
COROLLARY ActivationTypeCorrect == ActivationSpec => []ActivationTypeOK
<1>1. ActivationInv => ActivationTypeOK
  BY DEF ActivationInv
<1> QED BY <1>1, ActivationIsSound, PTL

(* A late activator never undoes the operator's disable.                    *)
LEMMA OperatorPrevails == ActivationSpec => DisableStands
<1>1. ActivationTypeOK /\ [ActivationNext]_activationVars
        => [marker /\ ~workers.enabled /\ workers'.enabled
              => workers'.epoch # workers.epoch]_activationVars
  <2> SUFFICES ASSUME ActivationTypeOK, ActivationNext, marker, workers' # workers
               PROVE  workers'.enabled => workers'.epoch # workers.epoch
    BY DEF activationVars
  <2> USE DEF ActivationTypeOK
  <2>0. workers.epoch \in Nat
    BY ActivationAssumption DEF ActivationAssumption
  <2>1. CASE BeginDisableWorkers
    BY <2>1 DEF BeginDisableWorkers
  <2>3. CASE ReenableWorkers
    BY <2>0, <2>3 DEF ReenableWorkers
  <2>2. ASSUME NEW a \in Activators, Activate(a) PROVE FALSE
    BY <2>2 DEF Activate, MayActivate
  <2> QED BY <2>1, <2>2, <2>3 DEF ActivationNext, ActivatorStep, Reconcile, AskForActivation, ReadMarker,
             RecordReadiness, RereadMarker, CallEnds, ReceiptExpires, CallIsStopped, WriteEnds, Write,
             BeginWrite
<1> QED BY <1>1, ActivationTypeCorrect, PTL DEF ActivationSpec, DisableStands

(* The activation is orderly: one receipt activates, whoever is told so is  *)
(* told the truth, the old contract writes from a snapshot older than the   *)
(* activation only, and a late activator does not overrule the operator.    *)
THEOREM ActivationOrder == ActivationSpec => ActivationIsOrderly
<1>1. ActivationInv => ActivationTypeOK /\ OneReceiptActivates /\ AnswersAreTrue /\ OnlyOlderSnapshotsWrite
  BY DEF ActivationInv
<1> QED BY <1>1, ActivationIsSound, OperatorPrevails, PTL DEF ActivationIsOrderly

-----------------------------------------------------------------------------
(* The sweep of the command that disables the Discord controls.             *)
(* The ranges of the sweep's variables.                                  *)
Controls == [enabled : BOOLEAN, epoch : 0 .. MaxSweepEpoch, pending : BOOLEAN]
Messages == [sync : Syncs, due : BOOLEAN, claim : Holders, decided : BOOLEAN, revision : 0 .. MaxRevision]
Patchers == [phase : {"idle", "claimed", "read", "patching", "saved", "failed", "unknown", "shut", "rejected"},
             epoch : 0 .. MaxSweepEpoch, shows : Faces, revision : 0 .. MaxRevision]
SweepCommands == [phase : {"idle", "killed", "draining", "claiming", "loading", "editing", "completing", "releasing",
                           "closing", "failing"},
                  leased : BOOLEAN, batch : 0 .. MaxBatches, failed : BOOLEAN, more : BOOLEAN,
                  revision : 0 .. MaxRevision]

(* Zero is within every bound.                                           *)
LEMMA SweepBounds ==
    /\ {MaxBatches, MaxSweepEpoch, MaxRevision, MaxSweepFaults} \subseteq Nat
    /\ 0 \in 0 .. MaxSweepEpoch /\ 0 \in 0 .. MaxRevision /\ 0 \in 0 .. MaxSweepFaults /\ 0 \in 0 .. MaxBatches
BY SweepAssumption

(* The command holds a claim.                                            *)
AtWork == {"loading", "editing", "completing", "releasing"}

(* What the tracking of leases rests on. *)
LeasesInv ==
    /\ ~Unattended => ~control.enabled
    /\ message.sync = "SYNCING" => ~message.decided
    /\ ~Unattended /\ message.sync = "PATCHING" => command.leased
    /\ CommandAt("closing") /\ message.sync \in {"PATCHING", "SYNCING"} =>
         command.leased \/ command.failed \/ command.more
    /\ LeasesAreTracked

(* A worker's claim is its own as long as the revision is. *)
ClaimsInv ==
    /\ patcher.revision <= message.revision
    /\ patcher.phase \in {"claimed", "read", "shut", "rejected"} /\ patcher.revision = message.revision =>
         message.sync = "CLAIMED"
    /\ patcher.phase \in {"patching", "saved", "failed", "unknown"} /\ patcher.revision = message.revision =>
         message.sync = "PATCHING"
    /\ command.phase \in AtWork /\ ~over => message.sync = "SYNCING"

(* What the channel shows. *)
FaceInv ==
    /\ patcher.shows = "disabled" => message.decided
    /\ patcher.shows = "ended" => over
    /\ patcher.phase \in {"read", "patching"} /\ patcher.shows = "controls" /\ patcher.revision = message.revision =>
         face = "controls" /\ ~over /\ ~message.decided
    /\ face # "controls" /\ ~over /\ ~message.decided =>
         message.sync = "SYNCING" \/ (message.sync = "PENDING" /\ ~message.due)

(* The inductive invariant of the sweep.                                 *)
SweepInv == SweepTypeOK /\ LeasesInv /\ ClaimsInv /\ FaceInv

(* The sweep's invariant holds in the initial states.                    *)
LEMMA SweepStarts == SweepInit => SweepInv
<1> SUFFICES ASSUME SweepInit PROVE SweepInv
  OBVIOUS
<1>1. /\ control = [enabled |-> TRUE, epoch |-> 0, pending |-> FALSE]
      /\ message \in [sync : {"SYNCED", "ABANDONED"}, due : {FALSE}, claim : {"nobody"}, decided : {FALSE},
                      revision : {0}]
      /\ face = "controls" /\ over = FALSE /\ sweepFaults = 0
      /\ patcher = [phase |-> "idle", epoch |-> 0, shows |-> "controls", revision |-> 0]
      /\ command = [phase |-> "idle", leased |-> FALSE, batch |-> 0, failed |-> FALSE, more |-> FALSE, revision |-> 0]
  BY DEF SweepInit, NoPatcher, NoCommand
<1>2. 0 \in 0 .. MaxSweepEpoch /\ 0 \in 0 .. MaxRevision /\ 0 \in 0 .. MaxSweepFaults /\ 0 \in 0 .. MaxBatches
  BY SweepAssumption
<1>3. SweepTypeOK
  BY <1>1, <1>2 DEF SweepTypeOK, Syncs, Holders, Faces
<1>4. LeasesInv
  BY <1>1 DEF LeasesInv, LeasesAreTracked, Unattended, CommandAt
<1>5. ClaimsInv /\ FaceInv
  BY <1>1 DEF ClaimsInv, FaceInv, AtWork
<1> QED BY <1>3, <1>4, <1>5 DEF SweepInv

(* The invariant is kept by the fence;                                   *)
LEMMA BeginDisableStep == ASSUME SweepInv, BeginDisable PROVE SweepInv'
<1>1. SweepTypeOK /\ LeasesInv /\ ClaimsInv /\ FaceInv
  BY DEF SweepInv
<1>2. SweepTypeOK'
  <2>1. control' \in Controls
    <3>1. control' = [control EXCEPT !.enabled = FALSE, !.epoch = control.epoch + 1] /\ control.epoch < MaxSweepEpoch
      BY DEF BeginDisable
    <3>2. control.epoch + 1 \in 0 .. MaxSweepEpoch
      BY <1>1, <3>1, SweepBounds DEF SweepTypeOK
    <3> QED BY <1>1, <3>1, <3>2 DEF SweepTypeOK, Controls
  <2>2. message' \in Messages
    BY <1>1 DEF Messages, SweepTypeOK, BeginDisable
  <2>3. patcher' \in Patchers
    BY <1>1 DEF Patchers, SweepTypeOK, BeginDisable
  <2>4. command' \in SweepCommands
    BY SweepBounds DEF SweepCommands, BeginDisable, NoCommand
  <2>5. face' \in Faces /\ over' \in BOOLEAN /\ sweepFaults' \in 0 .. MaxSweepFaults
    BY <1>1 DEF SweepTypeOK, BeginDisable
  <2>6. (message'.claim = "nobody") = (message'.sync \notin {"CLAIMED", "PATCHING", "SYNCING", "PENDING_REVIEW"})
    BY <1>1 DEF SweepTypeOK, BeginDisable
  <2> QED BY <2>1, <2>2, <2>3, <2>4, <2>5, <2>6 DEF SweepTypeOK, Controls, Messages, Patchers,
             SweepCommands
<1>3. LeasesInv'
  BY <1>1 DEF SweepTypeOK, LeasesInv, LeasesAreTracked, BeginDisable, Transports, NoCommand,
     CommandAt
<1>4. ClaimsInv'
  BY <1>1 DEF ClaimsInv, AtWork, BeginDisable
<1>5. FaceInv'
  BY <1>1 DEF FaceInv, BeginDisable
<1> QED BY <1>2, <1>3, <1>4, <1>5 DEF SweepInv

(* by the wait for old mutations;                                        *)
LEMMA DrainOldMutationsStep == ASSUME SweepInv, DrainOldMutations PROVE SweepInv'
<1>1. SweepTypeOK /\ LeasesInv /\ ClaimsInv /\ FaceInv
  BY DEF SweepInv
<1>2. SweepTypeOK'
  BY <1>1 DEF SweepTypeOK, DrainOldMutations, Commands
<1>3. LeasesInv'
  BY <1>1 DEF SweepTypeOK, LeasesInv, LeasesAreTracked, Unattended, DrainOldMutations, Commands,
     CommandAt
<1>4. ClaimsInv'
  BY <1>1 DEF SweepTypeOK, ClaimsInv, AtWork, DrainOldMutations, Commands
<1>5. FaceInv'
  BY <1>1 DEF FaceInv, DrainOldMutations
<1> QED BY <1>2, <1>3, <1>4, <1>5 DEF SweepInv

(* by a claim of the command, which closes with more to do if a lease is *)
(* left;                                                                 *)
LEMMA ClaimActiveStep == ASSUME SweepInv, ClaimActive PROVE SweepInv'
<1>1. SweepTypeOK /\ LeasesInv /\ ClaimsInv /\ FaceInv
  BY DEF SweepInv
<1>2. SweepTypeOK'
  <2>1. control' \in Controls
    BY <1>1 DEF Controls, SweepTypeOK, ClaimActive
  <2>2. message' \in Messages
    BY <1>1, SweepBounds DEF Messages, SweepTypeOK, Syncs, Holders, Faces, ClaimActive,
       ActiveDisableWhere, CommandAt
  <2>3. patcher' \in Patchers
    BY <1>1 DEF Patchers, SweepTypeOK, ClaimActive
  <2>4. command' \in SweepCommands
    <3>1. command \in SweepCommands /\ message.revision \in 0 .. MaxRevision
      BY <1>1 DEF SweepTypeOK, SweepCommands
    <3>2. CASE command.batch < MaxBatches /\ \E lapsed \in BOOLEAN : ActiveDisableWhere(lapsed)
      <4>1. command' = [command EXCEPT !.phase = "loading", !.batch = command.batch + 1, !.revision = message.revision]
        BY <3>2 DEF ClaimActive
      <4>2. command.batch + 1 \in 0 .. MaxBatches
        BY <3>1, <3>2, SweepBounds DEF SweepCommands
      <4> QED BY <3>1, <4>1, <4>2 DEF SweepCommands
    <3>3. CASE ~(command.batch < MaxBatches /\ \E lapsed \in BOOLEAN : ActiveDisableWhere(lapsed))
      <4> DEFINE more == command.batch = MaxBatches
      <4>1. command' = [command EXCEPT !.phase = "closing", !.more = more]
        BY <3>3 DEF ClaimActive
      <4>2. more \in BOOLEAN
        OBVIOUS
      <4> QED BY <3>1, <4>1 DEF SweepCommands
    <3> QED BY <3>2, <3>3
  <2>5. face' \in Faces /\ over' \in BOOLEAN /\ sweepFaults' \in 0 .. MaxSweepFaults
    BY <1>1 DEF SweepTypeOK, ClaimActive
  <2>6. (message'.claim = "nobody") = (message'.sync \notin {"CLAIMED", "PATCHING", "SYNCING", "PENDING_REVIEW"})
    BY <1>1 DEF SweepTypeOK, ClaimActive
  <2> QED BY <2>1, <2>2, <2>3, <2>4, <2>5, <2>6 DEF SweepTypeOK, Controls, Messages, Patchers,
             SweepCommands
<1>3. LeasesInv'
  <2>1. CASE command.batch < MaxBatches /\ \E lapsed \in BOOLEAN : ActiveDisableWhere(lapsed)
    <3>1. message' = [message EXCEPT !.sync = "SYNCING", !.claim = "command"] /\ ~message.decided
          /\ command'.phase = "loading" /\ command'.leased = command.leased
          /\ UNCHANGED control /\ command.phase = "claiming"
      BY <1>1, <2>1 DEF ClaimActive, ActiveDisableWhere, CommandAt, SweepTypeOK
    <3>2. message'.sync = "SYNCING" /\ ~message'.decided
      BY <3>1
    <3> QED BY <1>1, <3>1 DEF LeasesInv, LeasesAreTracked, Unattended, CommandAt
  <2>2. CASE ~(command.batch < MaxBatches /\ \E lapsed \in BOOLEAN : ActiveDisableWhere(lapsed))
    <3>1. /\ command.phase = "claiming" /\ command'.phase = "closing" /\ command'.leased = command.leased
          /\ command'.failed = command.failed /\ command'.more = (command.batch = MaxBatches)
          /\ UNCHANGED <<message, control>>
      BY <1>1, <2>2 DEF ClaimActive, CommandAt, SweepTypeOK
    <3>2. message.sync = "SYNCING" => ActiveDisableWhere(TRUE)
      BY <1>1 DEF LeasesInv, ActiveDisableWhere
    <3>3. message.sync = "SYNCING" => ~(command.batch < MaxBatches)
      BY <2>2, <3>2
    <3>4. message.sync = "SYNCING" => command.batch = MaxBatches
      BY <1>1, <3>3, SweepBounds DEF SweepTypeOK
    <3>5. message.sync = "PATCHING" => command.leased
      BY <1>1, <3>1 DEF LeasesInv, Unattended, CommandAt
    <3> QED BY <1>1, <3>1, <3>4 DEF LeasesInv, LeasesAreTracked, Unattended, CommandAt
  <2> QED BY <2>1, <2>2
<1>4. ClaimsInv'
  BY <1>1 DEF SweepTypeOK, Syncs, Holders, Faces, LeasesInv, ClaimsInv, AtWork, Unattended,
     ClaimActive, ActiveDisableWhere, CommandAt
<1>5. FaceInv'
  BY <1>1 DEF SweepTypeOK, Syncs, Holders, Faces, LeasesInv, ClaimsInv, FaceInv, AtWork,
     ClaimActive, ActiveDisableWhere, CommandAt
<1> QED BY <1>2, <1>3, <1>4, <1>5 DEF SweepInv

(* by the read of what the message shows;                                *)
LEMMA LoadSnapshotStep == ASSUME SweepInv, LoadSnapshot PROVE SweepInv'
<1>1. SweepTypeOK /\ LeasesInv /\ ClaimsInv /\ FaceInv
  BY DEF SweepInv
<1>2. SweepTypeOK'
  BY <1>1, SweepAssumption DEF SweepTypeOK, LoadSnapshot, Commands, SweepFault
<1>3. LeasesInv'
  BY <1>1 DEF SweepTypeOK, LeasesInv, LeasesAreTracked, Unattended, LoadSnapshot, Commands,
     CommandAt
<1>4. ClaimsInv'
  BY <1>1 DEF ClaimsInv, AtWork, LoadSnapshot, CommandAt
<1>5. FaceInv'
  BY <1>1 DEF FaceInv, LoadSnapshot
<1> QED BY <1>2, <1>3, <1>4, <1>5 DEF SweepInv

(* by the edit, made only while the command holds the message or the     *)
(* site has ended the reservation;                                       *)
LEMMA EditControlsAwayStep == ASSUME SweepInv, EditControlsAway PROVE SweepInv'
<1>1. SweepTypeOK /\ LeasesInv /\ ClaimsInv /\ FaceInv
  BY DEF SweepInv
<1>2. SweepTypeOK'
  BY <1>1, SweepAssumption DEF SweepTypeOK, Faces, EditControlsAway, Commands, SweepFault
<1>3. LeasesInv'
  BY <1>1 DEF SweepTypeOK, LeasesInv, LeasesAreTracked, Unattended, EditControlsAway, Commands,
     CommandAt
<1>4. ClaimsInv'
  BY <1>1 DEF ClaimsInv, AtWork, EditControlsAway, CommandAt
<1>5. FaceInv'
  BY <1>1 DEF ClaimsInv, FaceInv, AtWork, EditControlsAway, CommandAt
<1> QED BY <1>2, <1>3, <1>4, <1>5 DEF SweepInv

(* by the record of the edit, which decides the message;                 *)
LEMMA CompleteDisableClaimStep == ASSUME SweepInv, CompleteDisableClaim PROVE SweepInv'
<1>1. SweepTypeOK /\ LeasesInv /\ ClaimsInv /\ FaceInv
  BY DEF SweepInv
<1>2. SweepTypeOK'
  <2>1. control' \in Controls
    BY <1>1 DEF Controls, SweepTypeOK, CompleteDisableClaim
  <2>2. message' \in Messages
    BY <1>1, SweepBounds DEF Messages, SweepTypeOK, Syncs, Holders, Faces, CompleteDisableClaim,
       StillMine, Unclaimed, Commands, CommandAt
  <2>3. patcher' \in Patchers
    BY <1>1 DEF Patchers, SweepTypeOK, CompleteDisableClaim
  <2>4. command' \in SweepCommands
    BY <1>1 DEF SweepCommands, SweepTypeOK, CompleteDisableClaim, Unclaimed, Commands
  <2>5. face' \in Faces /\ over' \in BOOLEAN /\ sweepFaults' \in 0 .. MaxSweepFaults
    BY <1>1 DEF SweepTypeOK, CompleteDisableClaim
  <2>6. (message'.claim = "nobody") = (message'.sync \notin {"CLAIMED", "PATCHING", "SYNCING", "PENDING_REVIEW"})
    BY <1>1 DEF SweepTypeOK, CompleteDisableClaim, Unclaimed
  <2> QED BY <2>1, <2>2, <2>3, <2>4, <2>5, <2>6 DEF SweepTypeOK, Controls, Messages, Patchers,
             SweepCommands
<1>3. LeasesInv'
  BY <1>1 DEF SweepTypeOK, LeasesInv, LeasesAreTracked, Unattended, CompleteDisableClaim, Unclaimed,
     Commands, CommandAt
<1>4. ClaimsInv'
  BY <1>1 DEF SweepTypeOK, ClaimsInv, AtWork, CompleteDisableClaim, StillMine, Unclaimed, Commands,
     CommandAt
<1>5. FaceInv'
  BY <1>1 DEF SweepTypeOK, Syncs, Holders, ClaimsInv, FaceInv, CompleteDisableClaim, StillMine,
     Unclaimed
<1> QED BY <1>2, <1>3, <1>4, <1>5 DEF SweepInv

(* by the release of the claim, after which the message is due to        *)
(* nobody;                                                               *)
LEMMA ReleaseDisableClaimStep == ASSUME SweepInv, ReleaseDisableClaim PROVE SweepInv'
<1>1. SweepTypeOK /\ LeasesInv /\ ClaimsInv /\ FaceInv
  BY DEF SweepInv
<1>2. SweepTypeOK'
  <2>1. control' \in Controls
    BY <1>1 DEF Controls, SweepTypeOK, ReleaseDisableClaim
  <2>2. message' \in Messages
    BY <1>1 DEF Messages, SweepTypeOK, Syncs, Holders, ReleaseDisableClaim, ReleasedClaim, Unclaimed
  <2>3. patcher' \in Patchers
    BY <1>1 DEF Patchers, SweepTypeOK, ReleaseDisableClaim
  <2>4. command' \in SweepCommands
    BY <1>1 DEF SweepCommands, SweepTypeOK, ReleaseDisableClaim
  <2>5. face' \in Faces /\ over' \in BOOLEAN /\ sweepFaults' \in 0 .. MaxSweepFaults
    BY <1>1 DEF SweepTypeOK, ReleaseDisableClaim
  <2>6. (message'.claim = "nobody") = (message'.sync \notin {"CLAIMED", "PATCHING", "SYNCING", "PENDING_REVIEW"})
    BY <1>1 DEF SweepTypeOK, ReleaseDisableClaim, ReleasedClaim, Unclaimed
  <2> QED BY <2>1, <2>2, <2>3, <2>4, <2>5, <2>6 DEF SweepTypeOK, Controls, Messages, Patchers,
             SweepCommands
<1>3. LeasesInv'
  BY <1>1 DEF LeasesInv, LeasesAreTracked, Unattended, ReleaseDisableClaim, ReleasedClaim,
     Unclaimed, CommandAt
<1>4. ClaimsInv'
  BY <1>1 DEF ClaimsInv, AtWork, ReleaseDisableClaim, ReleasedClaim, StillMine, Unclaimed
<1>5. FaceInv'
  BY <1>1 DEF FaceInv, ReleaseDisableClaim, ReleasedClaim, Unclaimed
<1> QED BY <1>2, <1>3, <1>4, <1>5 DEF SweepInv

(* by the command's last write, which tells what it leaves open;         *)
LEMMA SetPendingRemoteCleanupStep == ASSUME SweepInv, SetPendingRemoteCleanup PROVE SweepInv'
<1>1. SweepTypeOK /\ LeasesInv /\ ClaimsInv /\ FaceInv
  BY DEF SweepInv
<1>2. SweepTypeOK'
  <2>1. control' \in Controls
    BY <1>1 DEF Controls, SweepTypeOK, SetPendingRemoteCleanup, CleanupPending
  <2>2. message' \in Messages
    BY <1>1 DEF Messages, SweepTypeOK, SetPendingRemoteCleanup
  <2>3. patcher' \in Patchers
    BY <1>1 DEF Patchers, SweepTypeOK, SetPendingRemoteCleanup
  <2>4. command' \in SweepCommands
    BY SweepBounds DEF SweepCommands, SetPendingRemoteCleanup, NoCommand
  <2>5. face' \in Faces /\ over' \in BOOLEAN /\ sweepFaults' \in 0 .. MaxSweepFaults
    BY <1>1 DEF SweepTypeOK, SetPendingRemoteCleanup
  <2>6. (message'.claim = "nobody") = (message'.sync \notin {"CLAIMED", "PATCHING", "SYNCING", "PENDING_REVIEW"})
    BY <1>1 DEF SweepTypeOK, SetPendingRemoteCleanup
  <2> QED BY <2>1, <2>2, <2>3, <2>4, <2>5, <2>6 DEF SweepTypeOK, Controls, Messages, Patchers,
             SweepCommands
<1>3. LeasesInv'
  BY <1>1 DEF SweepTypeOK, LeasesInv, LeasesAreTracked, Unattended, SetPendingRemoteCleanup,
     CleanupPending, NoCommand, CommandAt
<1>4. ClaimsInv'
  BY <1>1 DEF ClaimsInv, AtWork, SetPendingRemoteCleanup, NoCommand
<1>5. FaceInv'
  BY <1>1 DEF FaceInv, SetPendingRemoteCleanup
<1> QED BY <1>2, <1>3, <1>4, <1>5 DEF SweepInv

(* by the end of the command's process;                                  *)
LEMMA CommandIsKilledStep == ASSUME SweepInv, CommandIsKilled PROVE SweepInv'
<1>1. SweepTypeOK /\ LeasesInv /\ ClaimsInv /\ FaceInv
  BY DEF SweepInv
<1>2. SweepTypeOK'
  <2>1. control' \in Controls
    BY <1>1 DEF Controls, SweepTypeOK, CommandIsKilled
  <2>2. message' \in Messages
    BY <1>1 DEF Messages, SweepTypeOK, CommandIsKilled
  <2>3. patcher' \in Patchers
    BY <1>1 DEF Patchers, SweepTypeOK, CommandIsKilled
  <2>4. command' \in SweepCommands
    BY SweepBounds DEF SweepCommands, CommandIsKilled, NoCommand
  <2>5. face' \in Faces /\ over' \in BOOLEAN /\ sweepFaults' \in 0 .. MaxSweepFaults
    BY <1>1, SweepBounds DEF SweepTypeOK, CommandIsKilled, SweepFault
  <2>6. (message'.claim = "nobody") = (message'.sync \notin {"CLAIMED", "PATCHING", "SYNCING", "PENDING_REVIEW"})
    BY <1>1 DEF SweepTypeOK, CommandIsKilled
  <2> QED BY <2>1, <2>2, <2>3, <2>4, <2>5, <2>6 DEF SweepTypeOK, Controls, Messages, Patchers,
             SweepCommands
<1>3. LeasesInv'
  BY <1>1 DEF LeasesInv, LeasesAreTracked, Unattended, CommandIsKilled, CommandAt
<1>4. ClaimsInv'
  BY <1>1 DEF ClaimsInv, AtWork, CommandIsKilled
<1>5. FaceInv'
  BY <1>1 DEF FaceInv, CommandIsKilled
<1> QED BY <1>2, <1>3, <1>4, <1>5 DEF SweepInv

(* by the operator's return to service;                                  *)
LEMMA ReenableStep == ASSUME SweepInv, Reenable PROVE SweepInv'
<1>1. SweepTypeOK /\ LeasesInv /\ ClaimsInv /\ FaceInv
  BY DEF SweepInv
<1>2. SweepTypeOK'
  BY <1>1, SweepAssumption DEF SweepTypeOK, Reenable
<1>3. LeasesInv'
  BY <1>1 DEF LeasesInv, LeasesAreTracked, Unattended, Reenable, CommandAt
<1>4. ClaimsInv'
  BY <1>1 DEF ClaimsInv, Reenable
<1>5. FaceInv'
  BY <1>1 DEF FaceInv, Reenable
<1> QED BY <1>2, <1>3, <1>4, <1>5 DEF SweepInv

(* by a claim of the outbox's worker;                                    *)
LEMMA ClaimSyncsStep == ASSUME SweepInv, ClaimSyncs PROVE SweepInv'
<1>1. SweepTypeOK /\ LeasesInv /\ ClaimsInv /\ FaceInv
  BY DEF SweepInv
<1>2. SweepTypeOK'
  <2>1. control' \in Controls
    BY <1>1 DEF Controls, SweepTypeOK, ClaimSyncs
  <2>2. message' \in Messages
    BY <1>1 DEF Messages, SweepTypeOK, Syncs, Holders, ClaimSyncs
  <2>3. patcher' \in Patchers
    BY <1>1, SweepBounds DEF Patchers, SweepTypeOK, Faces, ClaimSyncs, NoPatcher
  <2>4. command' \in SweepCommands
    BY <1>1 DEF SweepCommands, SweepTypeOK, ClaimSyncs
  <2>5. face' \in Faces /\ over' \in BOOLEAN /\ sweepFaults' \in 0 .. MaxSweepFaults
    BY <1>1 DEF SweepTypeOK, ClaimSyncs
  <2>6. (message'.claim = "nobody") = (message'.sync \notin {"CLAIMED", "PATCHING", "SYNCING", "PENDING_REVIEW"})
    BY DEF ClaimSyncs
  <2> QED BY <2>1, <2>2, <2>3, <2>4, <2>5, <2>6 DEF SweepTypeOK, Controls, Messages, Patchers,
             SweepCommands
<1>3. LeasesInv'
  BY <1>1 DEF LeasesInv, LeasesAreTracked, Unattended, ClaimSyncs, CommandAt
<1>4. ClaimsInv'
  BY <1>1 DEF SweepTypeOK, ClaimsInv, ClaimSyncs
<1>5. FaceInv'
  BY <1>1 DEF FaceInv, ClaimSyncs, NoPatcher
<1> QED BY <1>2, <1>3, <1>4, <1>5 DEF SweepInv

(* by its read of the reservation and the control;                       *)
LEMMA ReadSourceStep == ASSUME SweepInv, ReadSource PROVE SweepInv'
<1>1. SweepTypeOK /\ LeasesInv /\ ClaimsInv /\ FaceInv
  BY DEF SweepInv
<1>2. SweepTypeOK'
  <2>1. control' \in Controls
    BY <1>1 DEF Controls, SweepTypeOK, ReadSource
  <2>2. message' \in Messages
    BY <1>1 DEF Messages, SweepTypeOK, ReadSource
  <2>3. patcher' \in Patchers
    BY <1>1 DEF Patchers, SweepTypeOK, Faces, ReadSource, Shown
  <2>4. command' \in SweepCommands
    BY <1>1 DEF SweepCommands, SweepTypeOK, ReadSource
  <2>5. face' \in Faces /\ over' \in BOOLEAN /\ sweepFaults' \in 0 .. MaxSweepFaults
    BY <1>1 DEF SweepTypeOK, ReadSource
  <2>6. (message'.claim = "nobody") = (message'.sync \notin {"CLAIMED", "PATCHING", "SYNCING", "PENDING_REVIEW"})
    BY <1>1 DEF SweepTypeOK, ReadSource
  <2> QED BY <2>1, <2>2, <2>3, <2>4, <2>5, <2>6 DEF SweepTypeOK, Controls, Messages, Patchers,
             SweepCommands
<1>3. LeasesInv'
  BY <1>1 DEF LeasesInv, LeasesAreTracked, Unattended, ReadSource, CommandAt
<1>4. ClaimsInv'
  BY <1>1 DEF ClaimsInv, ReadSource, PatcherAt
<1>5. FaceInv'
  BY <1>1 DEF ClaimsInv, FaceInv, ReadSource, PatcherAt, Shown
<1> QED BY <1>2, <1>3, <1>4, <1>5 DEF SweepInv

(* by its lease, which the fence refuses;                                *)
LEMMA BeginSyncPatchStep == ASSUME SweepInv, BeginSyncPatch PROVE SweepInv'
<1>1. SweepTypeOK /\ LeasesInv /\ ClaimsInv /\ FaceInv
  BY DEF SweepInv
<1>2. SweepTypeOK'
  BY <1>1 DEF SweepTypeOK, Syncs, BeginSyncPatch, Patches, LeaseAllowed, Mine
<1>3. LeasesInv'
  BY <1>1 DEF SweepTypeOK, LeasesInv, LeasesAreTracked, Unattended, BeginSyncPatch, LeaseAllowed,
     CommandAt
<1>4. ClaimsInv'
  BY <1>1 DEF SweepTypeOK, ClaimsInv, BeginSyncPatch, PatcherAt, Patches, LeaseAllowed, Mine
<1>5. FaceInv'
  BY <1>1 DEF SweepTypeOK, FaceInv, BeginSyncPatch, PatcherAt, Patches, LeaseAllowed, Mine
<1> QED BY <1>2, <1>3, <1>4, <1>5 DEF SweepInv

(* by its PATCH, which may not be the newest;                            *)
LEMMA CallPatchStep == ASSUME SweepInv, CallPatch PROVE SweepInv'
<1>1. SweepTypeOK /\ LeasesInv /\ ClaimsInv /\ FaceInv
  BY DEF SweepInv
<1>2. SweepTypeOK'
  BY <1>1, SweepAssumption DEF SweepTypeOK, CallPatch, Patches, SweepFault
<1>3. LeasesInv'
  BY <1>1 DEF LeasesInv, LeasesAreTracked, Unattended, CallPatch, CommandAt
<1>4. ClaimsInv'
  BY <1>1 DEF SweepTypeOK, ClaimsInv, CallPatch, PatcherAt, Patches
<1>5. FaceInv'
  BY <1>1 DEF SweepTypeOK, Faces, FaceInv, CallPatch, Patches
<1> QED BY <1>2, <1>3, <1>4, <1>5 DEF SweepInv

(* by the record of its result;                                          *)
LEMMA RecordSyncStep == ASSUME SweepInv, RecordSync PROVE SweepInv'
<1>1. SweepTypeOK /\ LeasesInv /\ ClaimsInv /\ FaceInv
  BY DEF SweepInv
<1>2. UNCHANGED <<control, face, over, command, sweepFaults>> /\ patcher' = NoPatcher
  BY DEF RecordSync
<1>3. message \in Messages
  BY <1>1 DEF SweepTypeOK, Messages
<1>4. \/ message' = message
      \/ /\ message.sync \in {"CLAIMED", "PATCHING"} /\ message.claim = "patcher"
         /\ \/ message' = Unclaimed("SYNCED", FALSE) \/ message' = Unclaimed("RETRY", TRUE)
            \/ message' = Unclaimed("ABANDONED", FALSE)
            \/ message' = [message EXCEPT !.sync = "PENDING_REVIEW", !.due = FALSE]
  BY DEF RecordSync, Retried, Mine
<1>5. \/ message' = message
      \/ /\ message.sync \in {"CLAIMED", "PATCHING"}
         /\ message' \in Messages
         /\ message'.sync \in {"SYNCED", "RETRY", "ABANDONED", "PENDING_REVIEW"}
         /\ (message'.claim = "nobody") = (message'.sync \notin {"CLAIMED", "PATCHING", "SYNCING", "PENDING_REVIEW"})
         /\ message'.decided = message.decided /\ message'.revision = message.revision
  <2>1. ASSUME NEW sync \in {"SYNCED", "RETRY", "ABANDONED"}, NEW due \in BOOLEAN, message' = Unclaimed(sync, due)
        PROVE  /\ message' \in Messages /\ message'.sync = sync /\ message'.claim = "nobody"
               /\ message'.decided = message.decided /\ message'.revision = message.revision
    BY <1>3, <2>1 DEF Unclaimed, Messages, Syncs, Holders
  <2>2. ASSUME message' = [message EXCEPT !.sync = "PENDING_REVIEW", !.due = FALSE]
        PROVE  /\ message' \in Messages /\ message'.sync = "PENDING_REVIEW" /\ message'.claim = message.claim
               /\ message'.decided = message.decided /\ message'.revision = message.revision
    BY <1>3, <2>2 DEF Messages, Syncs
  <2> QED BY <1>4, <2>1, <2>2
<1>6. SweepTypeOK'
  <2>1. NoPatcher \in Patchers
    BY SweepBounds DEF NoPatcher, Patchers, Faces
  <2>2. message' \in Messages
    BY <1>3, <1>5
  <2>3. (message'.claim = "nobody") = (message'.sync \notin {"CLAIMED", "PATCHING", "SYNCING", "PENDING_REVIEW"})
    BY <1>1, <1>5 DEF SweepTypeOK
  <2> QED BY <1>1, <1>2, <2>1, <2>2, <2>3 DEF SweepTypeOK, Patchers, Messages
<1>7. LeasesInv'
  BY <1>1, <1>2, <1>5 DEF LeasesInv, LeasesAreTracked, Unattended, CommandAt
<1>8. patcher'.phase = "idle" /\ patcher'.revision = 0 /\ patcher'.shows = "controls"
  BY <1>2 DEF NoPatcher
<1>9. ClaimsInv'
  <2>1. message'.revision \in Nat
    BY <1>3, <1>5 DEF Messages
  <2>2. message.sync = "SYNCING" => message' = message
    BY <1>5
  <2> QED BY <1>1, <1>2, <1>8, <2>1, <2>2 DEF ClaimsInv
<1>10. FaceInv'
  <2>1. message.sync \notin {"CLAIMED", "PATCHING"} => message' = message
    BY <1>5
  <2>2. message'.decided = message.decided
    BY <1>5
  <2> QED BY <1>1, <1>2, <1>8, <2>1, <2>2 DEF FaceInv
<1> QED BY <1>6, <1>7, <1>9, <1>10 DEF SweepInv

(* by the end of its process;                                            *)
LEMMA PatcherStopsStep == ASSUME SweepInv, PatcherStops PROVE SweepInv'
<1>1. SweepTypeOK /\ LeasesInv /\ ClaimsInv /\ FaceInv
  BY DEF SweepInv
<1>2. SweepTypeOK'
  BY <1>1, SweepAssumption DEF SweepTypeOK, Faces, PatcherStops, NoPatcher, SweepFault
<1>3. LeasesInv'
  BY <1>1 DEF LeasesInv, LeasesAreTracked, Unattended, PatcherStops, CommandAt
<1>4. ClaimsInv'
  BY <1>1 DEF SweepTypeOK, ClaimsInv, PatcherStops, NoPatcher
<1>5. FaceInv'
  BY <1>1 DEF FaceInv, PatcherStops, NoPatcher
<1> QED BY <1>2, <1>3, <1>4, <1>5 DEF SweepInv

(* by the site's next revision of the message;                           *)
LEMMA SiteRevisesStep == ASSUME SweepInv, SiteRevises PROVE SweepInv'
<1>1. SweepTypeOK /\ LeasesInv /\ ClaimsInv /\ FaceInv
  BY DEF SweepInv
<1>2. SweepTypeOK'
  <2>1. control' \in Controls
    BY <1>1 DEF Controls, SweepTypeOK, SiteRevises
  <2>2. message' \in Messages
    <3>1. message \in Messages
      BY <1>1 DEF SweepTypeOK, Messages
    <3>2. message' = [[message EXCEPT !.sync = "PENDING", !.due = TRUE, !.claim = "nobody"]
                       EXCEPT !.revision = message.revision + 1]
      BY DEF SiteRevises, Revised, Unclaimed
    <3>3. message.revision + 1 \in 0 .. MaxRevision
      BY <3>1, SweepBounds DEF SiteRevises, Messages
    <3> QED BY <3>1, <3>2, <3>3 DEF Messages, Syncs, Holders
  <2>3. patcher' \in Patchers
    BY <1>1 DEF Patchers, SweepTypeOK, SiteRevises
  <2>4. command' \in SweepCommands
    BY <1>1 DEF SweepCommands, SweepTypeOK, SiteRevises
  <2>5. face' \in Faces /\ over' \in BOOLEAN /\ sweepFaults' \in 0 .. MaxSweepFaults
    BY <1>1 DEF SweepTypeOK, SiteRevises
  <2>6. (message'.claim = "nobody") = (message'.sync \notin {"CLAIMED", "PATCHING", "SYNCING", "PENDING_REVIEW"})
    BY DEF SiteRevises, Revised, Unclaimed
  <2> QED BY <2>1, <2>2, <2>3, <2>4, <2>5, <2>6 DEF SweepTypeOK, Controls, Messages, Patchers,
             SweepCommands
<1>3. LeasesInv'
  BY <1>1 DEF LeasesInv, LeasesAreTracked, Unattended, SiteRevises, Revised, Unclaimed, CommandAt
<1>4. ClaimsInv'
  BY <1>1 DEF SweepTypeOK, ClaimsInv, SiteRevises, Revised, Unclaimed
<1>5. FaceInv'
  BY <1>1 DEF SweepTypeOK, ClaimsInv, FaceInv, SiteRevises, Revised, Unclaimed
<1> QED BY <1>2, <1>3, <1>4, <1>5 DEF SweepInv

(* and by the operator's repair.                                         *)
LEMMA OperatorRepairsStep == ASSUME SweepInv, OperatorRepairs PROVE SweepInv'
<1>1. SweepTypeOK /\ LeasesInv /\ ClaimsInv /\ FaceInv
  BY DEF SweepInv
<1>2. SweepTypeOK'
  <2>1. control' \in Controls
    BY <1>1 DEF Controls, SweepTypeOK, OperatorRepairs
  <2>2. message' \in Messages
    <3>1. message \in Messages
      BY <1>1 DEF SweepTypeOK, Messages
    <3>2. message' = [[message EXCEPT !.sync = "PENDING", !.due = TRUE, !.claim = "nobody"]
                       EXCEPT !.revision = message.revision + 1]
      BY DEF OperatorRepairs, Revised, Unclaimed
    <3>3. message.revision + 1 \in 0 .. MaxRevision
      BY <3>1, SweepBounds DEF OperatorRepairs, Messages
    <3> QED BY <3>1, <3>2, <3>3 DEF Messages, Syncs, Holders
  <2>3. patcher' \in Patchers
    BY <1>1 DEF Patchers, SweepTypeOK, OperatorRepairs
  <2>4. command' \in SweepCommands
    BY <1>1 DEF SweepCommands, SweepTypeOK, OperatorRepairs
  <2>5. face' \in Faces /\ over' \in BOOLEAN /\ sweepFaults' \in 0 .. MaxSweepFaults
    BY <1>1 DEF SweepTypeOK, OperatorRepairs
  <2>6. (message'.claim = "nobody") = (message'.sync \notin {"CLAIMED", "PATCHING", "SYNCING", "PENDING_REVIEW"})
    BY DEF OperatorRepairs, Revised, Unclaimed
  <2> QED BY <2>1, <2>2, <2>3, <2>4, <2>5, <2>6 DEF SweepTypeOK, Controls, Messages, Patchers,
             SweepCommands
<1>3. LeasesInv'
  BY <1>1 DEF LeasesInv, LeasesAreTracked, Unattended, OperatorRepairs, Revised, Unclaimed,
     CommandAt
<1>4. ClaimsInv'
  BY <1>1 DEF SweepTypeOK, ClaimsInv, OperatorRepairs, Revised, Unclaimed
<1>5. FaceInv'
  BY <1>1 DEF SweepTypeOK, ClaimsInv, FaceInv, OperatorRepairs, Revised, Unclaimed
<1> QED BY <1>2, <1>3, <1>4, <1>5 DEF SweepInv

(* Every step keeps the sweep's invariant.                               *)
LEMMA SweepSteps == SweepInv /\ [SweepNext]_sweepVars => SweepInv'
<1>1. ASSUME SweepInv, SweepNext PROVE SweepInv'
  BY <1>1, BeginDisableStep, DrainOldMutationsStep, ClaimActiveStep, LoadSnapshotStep,
     EditControlsAwayStep, CompleteDisableClaimStep, ReleaseDisableClaimStep,
     SetPendingRemoteCleanupStep, CommandIsKilledStep, ReenableStep, ClaimSyncsStep, ReadSourceStep,
     BeginSyncPatchStep, CallPatchStep, RecordSyncStep, PatcherStopsStep, SiteRevisesStep,
     OperatorRepairsStep DEF SweepNext
<1>2. ASSUME SweepInv, UNCHANGED sweepVars PROVE SweepInv'
  BY <1>2 DEF sweepVars, SweepInv, SweepTypeOK, LeasesInv, LeasesAreTracked, Unattended, CommandAt,
     ClaimsInv, FaceInv
<1> QED BY <1>1, <1>2

(* The sweep's invariant holds in every state.                           *)
THEOREM SweepIsSound == SweepSpec => []SweepInv
<1> QED BY SweepStarts, SweepSteps, PTL DEF SweepSpec

(* Only a PATCH under way brings controls back, and only one of a        *)
(* revision that is no longer the message's.                             *)
LEMMA ControlsReturnLate ==
    ASSUME SweepInv, SweepNext, face # "controls", face' = "controls"
    PROVE  patcher.revision < message.revision
<1>1. CallPatch
  BY DEF SweepNext, BeginDisable, DrainOldMutations, ClaimActive, LoadSnapshot, EditControlsAway,
     CompleteDisableClaim, ReleaseDisableClaim, SetPendingRemoteCleanup, CommandIsKilled, Reenable,
     ClaimSyncs, ReadSource, BeginSyncPatch, RecordSync, PatcherStops, SiteRevises, OperatorRepairs
<1>2. patcher.phase = "patching" /\ patcher.shows = "controls"
  BY <1>1 DEF CallPatch, PatcherAt
<1>3. patcher.revision # message.revision
  BY <1>2 DEF SweepInv, FaceInv
<1>4. patcher.revision \in Nat /\ message.revision \in Nat /\ patcher.revision <= message.revision
  BY DEF SweepInv, SweepTypeOK, ClaimsInv
<1> QED BY <1>3, <1>4

(* The command that disables the controls loses no lease that was there  *)
(* before its fence, unless it reports it, and what it edited away comes *)
(* back only by a PATCH of an older revision (disable-discord-pending.ts *)
(* with the worker of the outbox).                                       *)
THEOREM SweepSafety == SweepSpec => SweepIsSafe
<1>1. SweepInv => SweepTypeOK /\ LeasesAreTracked
  BY DEF SweepInv, LeasesInv
<1>2. SweepInv /\ [SweepNext]_sweepVars =>
        [face # "controls" /\ face' = "controls" => patcher.revision < message.revision]_sweepVars
  BY ControlsReturnLate
<1>3. SweepSpec => ControlsDoNotComeBack
  BY SweepIsSound, <1>2, PTL DEF SweepSpec, ControlsDoNotComeBack
<1> QED BY <1>1, <1>3, SweepIsSound, PTL DEF SweepIsSafe

-----------------------------------------------------------------------------
(* The runs that build indexes while the site is up.                       *)
(* Where a runner does not hold the advisory lock.                       *)
Outside == {"ready", "waiting", "applied", "failed"}
(* The loop over the indexes.                                            *)
Building == {"building", "creating", "created", "inspecting"}
(* The ranges of the variables.                                          *)
RunnerStates == [pc : Outside \cup Building \cup {"ledger", "verifying", "marking"}, at : Nat]
LedgerRows == [checksum : Nat, state : {"NONE", "APPLYING", "APPLIED"}]
IndexStates == {"absent", "valid", "invalid", "foreign"}

(* The types, for any number of faults.                                  *)
IndexTypeOK ==
    /\ indexState \in [Indexes -> IndexStates]
    /\ indexLedger \in LedgerRows
    /\ runner \in [Runners -> RunnerStates]
    /\ indexFaults \in Nat /\ operatorActed \in BOOLEAN
    /\ \A r \in Runners : runner[r].pc \in {"creating", "created", "inspecting"} => runner[r].at \in Indexes

(* Whoever is past the lock holds it, and is alone. *)
LockInv ==
    /\ \A r \in Runners : r \in advisoryLock <=> runner[r].pc \notin Outside
    /\ \A q, r \in advisoryLock : q = r
    /\ advisoryLock \subseteq Runners

(* The lock's holder opened the ledger, for its own manifest. *)
OpenedInv ==
    \A r \in Runners : runner[r].pc \in Building \cup {"verifying", "marking"} =>
        indexLedger.checksum = Checksum[r] /\ indexLedger.state = "APPLYING"

(* What the runner has passed is valid, as long as no operator interferes. *)
FoundInv ==
    ~operatorActed =>
       /\ \A r \in Runners, i \in Indexes : runner[r].pc \in Building /\ i < runner[r].at => indexState[i] = "valid"
       /\ \A r \in Runners, i \in Indexes : runner[r].pc \in {"verifying", "marking"} => indexState[i] = "valid"

(* The index under construction, and why a run has failed, without faults. *)
UndisturbedInv ==
    indexFaults = 0 =>
       /\ ~operatorActed
       /\ \A r \in Runners : /\ runner[r].pc = "creating" => indexState[runner[r].at] = "absent"
                             /\ runner[r].pc = "created" => indexState[runner[r].at] = "invalid"
                             /\ runner[r].pc = "inspecting" => indexState[runner[r].at] = "valid"
       /\ \A r \in Runners : runner[r].pc = "failed" =>
             \/ \E i \in Indexes : indexState[i] = "foreign"
             \/ indexLedger.state # "NONE" /\ indexLedger.checksum # Checksum[r]

(* The inductive invariant of the index runs.                            *)
IndexInv == IndexTypeOK /\ LockInv /\ OpenedInv /\ FoundInv /\ UndisturbedInv /\ AppliedIsBuilt

(* There is an index to build, and a manifest has a checksum.            *)
LEMMA IndexBounds == IndexCount \in Nat \ {0} /\ \A r \in Runners : Checksum[r] \in Nat \ {0}
BY IndexAssumption DEF IndexAssumption

(* The invariant holds in the initial states.                            *)
LEMMA IndexStarts == IndexInit => IndexInv
<1> SUFFICES ASSUME IndexInit PROVE IndexInv
  OBVIOUS
<1>1. /\ indexState \in [Indexes -> IndexStates] /\ advisoryLock = {} /\ indexFaults = 0 /\ operatorActed = FALSE
      /\ indexLedger = [checksum |-> 0, state |-> "NONE"]
      /\ runner = [r \in Runners |-> [pc |-> "ready", at |-> 0]]
  BY DEF IndexInit, IndexStates, NoLedgerRow
<1>2. \A r \in Runners : runner[r].pc = "ready"
  BY <1>1
<1>3. IndexTypeOK
  BY <1>1 DEF IndexTypeOK, RunnerStates, LedgerRows, Outside
<1>4. LockInv
  BY <1>1, <1>2 DEF LockInv, Outside
<1>5. OpenedInv /\ FoundInv /\ UndisturbedInv /\ AppliedIsBuilt
  BY <1>1, <1>2 DEF OpenedInv, FoundInv, UndisturbedInv, AppliedIsBuilt, Building
<1> QED BY <1>3, <1>4, <1>5 DEF IndexInv

(* The runner ends as failed: nothing of its own is left behind, and there *)
(* is a cause when there was no fault.                                     *)
LEMMA RunFails ==
    ASSUME IndexInv, NEW r \in Runners, Ends(r, "failed"),
           UNCHANGED <<indexState, indexLedger, operatorActed>>,
           indexFaults' = indexFaults \/ indexFaults' = indexFaults + 1,
           indexFaults' = 0 => \/ \E i \in Indexes : indexState[i] = "foreign"
                               \/ indexLedger.state # "NONE" /\ indexLedger.checksum # Checksum[r]
    PROVE  IndexInv'
<1>1. IndexTypeOK /\ LockInv /\ OpenedInv /\ FoundInv /\ UndisturbedInv /\ AppliedIsBuilt
  BY DEF IndexInv
<1>2. /\ runner' = [runner EXCEPT ![r] = [pc |-> "failed", at |-> 0]]
      /\ advisoryLock' = advisoryLock \ {r}
  BY DEF Ends, Moved, Released
<1>3. /\ runner'[r].pc = "failed"
      /\ \A q \in Runners \ {r} : runner'[q] = runner[q]
  BY <1>1, <1>2 DEF IndexTypeOK
<1>4. runner' \in [Runners -> RunnerStates]
  BY <1>1, <1>2 DEF IndexTypeOK, RunnerStates, Outside
<1>5. IndexTypeOK'
  BY <1>1, <1>3, <1>4 DEF IndexTypeOK
<1>6. LockInv'
  BY <1>1, <1>2, <1>3 DEF LockInv, Outside
<1>7. OpenedInv'
  BY <1>1, <1>3 DEF OpenedInv, Building
<1>8. FoundInv'
  BY <1>1, <1>3 DEF FoundInv, Building
<1>9. UndisturbedInv'
  <2> SUFFICES ASSUME indexFaults' = 0 PROVE UndisturbedInv'
    BY DEF UndisturbedInv
  <2>1. indexFaults = 0
    BY <1>1 DEF IndexTypeOK
  <2> QED BY <1>1, <1>3, <2>1 DEF UndisturbedInv
<1>10. AppliedIsBuilt'
  BY <1>1 DEF AppliedIsBuilt
<1> QED BY <1>5, <1>6, <1>7, <1>8, <1>9, <1>10 DEF IndexInv

(* The runner goes on, with nothing but its own place changed. *)
LEMMA RunGoesOn ==
    ASSUME IndexInv, NEW r \in Runners, NEW pc, NEW at \in Nat, Moved(r, pc, at),
           pc \in (Outside \ {"failed"}) \cup Building \cup {"verifying", "marking"},
           pc \in Outside <=> runner[r].pc \in Outside,
           pc \in {"creating", "created", "inspecting"} => at \in Indexes,
           pc \in Building \cup {"verifying", "marking"} =>
               runner[r].pc \in Building \cup {"verifying", "marking"},
           ~operatorActed /\ pc \in Building => \A i \in Indexes : i < at => indexState[i] = "valid",
           ~operatorActed /\ pc \in {"verifying", "marking"} => \A i \in Indexes : indexState[i] = "valid",
           indexFaults = 0 /\ pc = "creating" => indexState[at] = "absent",
           pc \notin {"created", "inspecting"},
           UNCHANGED <<indexState, indexLedger, advisoryLock, indexFaults, operatorActed>>
    PROVE  IndexInv'
<1>1. IndexTypeOK /\ LockInv /\ OpenedInv /\ FoundInv /\ UndisturbedInv /\ AppliedIsBuilt
  BY DEF IndexInv
<1>2. runner' = [runner EXCEPT ![r] = [pc |-> pc, at |-> at]]
  BY DEF Moved
<1>3. /\ runner'[r].pc = pc /\ runner'[r].at = at
      /\ \A q \in Runners \ {r} : runner'[q] = runner[q]
  BY <1>1, <1>2 DEF IndexTypeOK
<1>4. runner' \in [Runners -> RunnerStates]
  <2>1. [pc |-> pc, at |-> at] \in RunnerStates
    BY DEF RunnerStates
  <2> QED BY <1>1, <1>2, <2>1 DEF IndexTypeOK
<1>5. IndexTypeOK'
  BY <1>1, <1>3, <1>4 DEF IndexTypeOK
<1>6. LockInv'
  BY <1>1, <1>3 DEF LockInv
<1>7. OpenedInv'
  BY <1>1, <1>3 DEF OpenedInv
<1>8. FoundInv'
  BY <1>1, <1>3 DEF FoundInv
<1>9. UndisturbedInv'
  <2>1. pc # "failed"
    BY DEF Building
  <2> QED BY <1>1, <1>3, <2>1 DEF UndisturbedInv
<1>10. AppliedIsBuilt'
  BY <1>1 DEF AppliedIsBuilt
<1> QED BY <1>5, <1>6, <1>7, <1>8, <1>9, <1>10 DEF IndexInv

(* The holder of the lock is alone past it. *)
LEMMA AloneInside ==
    ASSUME IndexInv, NEW r \in Runners, runner[r].pc \notin Outside
    PROVE  \A q \in Runners \ {r} : runner[q].pc \in Outside
BY DEF IndexInv, LockInv

(* The index the runner is at changes, under the lock; what is foreign stays
   so.                                                                         *)
LEMMA RunBuilds ==
    ASSUME IndexInv, NEW r \in Runners, NEW pc \in {"creating", "created", "inspecting"},
           NEW state \in IndexStates,
           runner[r].pc \in Building, runner[r].at \in Indexes,
           Moved(r, pc, runner[r].at),
           indexState' = [indexState EXCEPT ![runner[r].at] = state],
           indexState[runner[r].at] = "foreign" => state = "foreign",
           indexFaults = 0 => /\ pc = "creating" => state = "absent"
                              /\ pc = "created" => state = "invalid"
                              /\ pc = "inspecting" => state = "valid",
           UNCHANGED <<indexLedger, advisoryLock, indexFaults, operatorActed>>
    PROVE  IndexInv'
<1> DEFINE at == runner[r].at
<1>1. IndexTypeOK /\ LockInv /\ OpenedInv /\ FoundInv /\ UndisturbedInv /\ AppliedIsBuilt
  BY DEF IndexInv
<1>2. runner' = [runner EXCEPT ![r] = [pc |-> pc, at |-> at]]
  BY DEF Moved
<1>3. /\ runner'[r].pc = pc /\ runner'[r].at = at /\ at \in Indexes /\ at \in Nat
      /\ \A q \in Runners \ {r} : runner'[q] = runner[q] /\ runner[q].pc \in Outside
  <2>1. runner[r].pc \notin Outside
    BY DEF Building, Outside
  <2> QED BY <1>1, <1>2, <2>1, AloneInside, IndexBounds DEF IndexTypeOK, Indexes
<1>a. /\ indexState'[at] = state
      /\ \A i \in Indexes \ {at} : indexState'[i] = indexState[i]
  BY <1>1, <1>3 DEF IndexTypeOK
<1> HIDE DEF at
<1>4. runner' \in [Runners -> RunnerStates]
  <2>1. [pc |-> pc, at |-> at] \in RunnerStates
    BY <1>3 DEF RunnerStates, Building
  <2> QED BY <1>1, <1>2, <2>1 DEF IndexTypeOK
<1>5. IndexTypeOK'
  <2>1. indexState' \in [Indexes -> IndexStates]
    BY <1>1 DEF IndexTypeOK
  <2> QED BY <1>1, <1>3, <1>4, <2>1 DEF IndexTypeOK, Outside
<1>6. LockInv'
  BY <1>1, <1>3 DEF LockInv, Outside, Building
<1>7. OpenedInv'
  BY <1>1, <1>3 DEF OpenedInv, Building
<1>8. FoundInv'
  <2>1. \A q \in Runners \ {r} : runner'[q].pc \notin Building \cup {"verifying", "marking"}
    BY <1>3 DEF Outside, Building
  <2>2. \A i \in Indexes : i < at => i # at
    BY <1>3 DEF Indexes
  <2>3. at = runner[r].at
    BY DEF at
  <2> QED BY <1>1, <1>3, <1>a, <2>1, <2>2, <2>3, IndexBounds DEF FoundInv, Indexes, Building
<1>9. UndisturbedInv'
  <2>1. \A q \in Runners \ {r} : runner'[q].pc \notin {"creating", "created", "inspecting"}
    BY <1>3 DEF Outside
  <2>2. \A i \in Indexes : indexState[i] = "foreign" => indexState'[i] = "foreign"
    BY <1>a DEF at
  <2>3. ASSUME indexFaults = 0 PROVE ~operatorActed
    BY <1>1, <2>3 DEF UndisturbedInv
  <2>4. ASSUME indexFaults = 0, NEW q \in Runners
        PROVE  /\ runner'[q].pc = "creating" => indexState'[runner'[q].at] = "absent"
               /\ runner'[q].pc = "created" => indexState'[runner'[q].at] = "invalid"
               /\ runner'[q].pc = "inspecting" => indexState'[runner'[q].at] = "valid"
    BY <1>3, <1>a, <2>1, <2>4
  <2>5. ASSUME indexFaults = 0, NEW q \in Runners, runner'[q].pc = "failed"
        PROVE  \/ \E i \in Indexes : indexState'[i] = "foreign"
               \/ indexLedger'.state # "NONE" /\ indexLedger'.checksum # Checksum[q]
    BY <1>1, <1>3, <2>2, <2>5 DEF UndisturbedInv
  <2> QED BY <2>3, <2>4, <2>5 DEF UndisturbedInv
<1>10. AppliedIsBuilt'
  BY <1>1 DEF AppliedIsBuilt, OpenedInv
<1> QED BY <1>5, <1>6, <1>7, <1>8, <1>9, <1>10 DEF IndexInv

(* A runner that takes the lock is alone.                                *)
LEMMA LockIsTaken == ASSUME IndexInv, NEW r \in Runners, TakeAdvisoryLock(r) PROVE IndexInv'
<1>1. IndexTypeOK /\ LockInv /\ OpenedInv /\ FoundInv /\ UndisturbedInv /\ AppliedIsBuilt
  BY DEF IndexInv
<1>2. /\ runner' = [runner EXCEPT ![r] = [pc |-> "ledger", at |-> 0]]
      /\ advisoryLock = {} /\ advisoryLock' = {r}
      /\ UNCHANGED <<indexState, indexLedger, indexFaults, operatorActed>>
  BY DEF TakeAdvisoryLock, Moved
<1>3. /\ runner'[r].pc = "ledger"
      /\ \A q \in Runners \ {r} : runner'[q] = runner[q]
  BY <1>1, <1>2 DEF IndexTypeOK
<1>4. runner' \in [Runners -> RunnerStates]
  BY <1>1, <1>2 DEF IndexTypeOK, RunnerStates
<1>5. IndexTypeOK'
  BY <1>1, <1>2, <1>3, <1>4 DEF IndexTypeOK
<1>6. LockInv'
  BY <1>1, <1>2, <1>3 DEF LockInv, Outside
<1>7. OpenedInv' /\ FoundInv' /\ UndisturbedInv' /\ AppliedIsBuilt'
  BY <1>1, <1>2, <1>3 DEF OpenedInv, FoundInv, UndisturbedInv, AppliedIsBuilt, Building
<1> QED BY <1>5, <1>6, <1>7 DEF IndexInv

(* The ledger opens for the runner's own manifest, or the run fails      *)
(* because of another's.                                                 *)
LEMMA LedgerIsOpened == ASSUME IndexInv, NEW r \in Runners, OpenLedger(r) PROVE IndexInv'
<1>1. IndexTypeOK /\ LockInv /\ OpenedInv /\ FoundInv /\ UndisturbedInv /\ AppliedIsBuilt
  BY DEF IndexInv
<1>2. runner[r].pc = "ledger" /\ runner[r].pc \notin Outside
  BY DEF OpenLedger, RunnerAt, Outside
<1>3. CASE indexLedger.state # "NONE" /\ indexLedger.checksum # Checksum[r]
  <2>1. Ends(r, "failed") /\ UNCHANGED <<indexState, indexLedger, indexFaults, operatorActed>>
    BY <1>3 DEF OpenLedger
  <2> QED BY <1>2, <1>3, <2>1, RunFails
<1>4. CASE ~(indexLedger.state # "NONE" /\ indexLedger.checksum # Checksum[r])
  <2>1. /\ indexLedger' = [checksum |-> Checksum[r], state |-> "APPLYING"]
        /\ runner' = [runner EXCEPT ![r] = [pc |-> "building", at |-> 1]]
        /\ UNCHANGED <<indexState, advisoryLock, indexFaults, operatorActed>>
    BY <1>4 DEF OpenLedger, Moved
  <2>2. /\ runner'[r].pc = "building" /\ runner'[r].at = 1
        /\ \A q \in Runners \ {r} : runner'[q] = runner[q] /\ runner[q].pc \in Outside
    BY <1>1, <1>2, <2>1, AloneInside DEF IndexTypeOK
  <2>3. runner' \in [Runners -> RunnerStates]
    <3>1. [pc |-> "building", at |-> 1] \in RunnerStates
      BY DEF RunnerStates, Building
    <3> QED BY <1>1, <2>1, <3>1 DEF IndexTypeOK
  <2>4. indexLedger' \in LedgerRows /\ indexLedger'.checksum = Checksum[r] /\ indexLedger'.state = "APPLYING"
    BY <2>1, IndexBounds DEF LedgerRows
  <2>5. IndexTypeOK'
    BY <1>1, <2>1, <2>2, <2>3, <2>4 DEF IndexTypeOK
  <2>6. LockInv'
    BY <1>1, <1>2, <2>1, <2>2 DEF LockInv, Outside
  <2>7. OpenedInv'
    BY <2>2, <2>4 DEF OpenedInv, Outside, Building
  <2>8. FoundInv'
    <3>1. \A i \in Indexes : ~(i < 1)
      BY IndexBounds DEF Indexes
    <3> QED BY <2>2, <3>1 DEF FoundInv, Outside, Building
  <2>9. UndisturbedInv'
    BY <1>1, <1>4, <2>1, <2>2, <2>4 DEF UndisturbedInv, Outside
  <2>10. AppliedIsBuilt'
    BY <2>4 DEF AppliedIsBuilt
  <2> QED BY <2>5, <2>6, <2>7, <2>8, <2>9, <2>10 DEF IndexInv
<1> QED BY <1>3, <1>4

(* The ledger is marked as applied by the runner that opened it, with    *)
(* every index valid.                                                    *)
LEMMA LedgerIsMarked == ASSUME IndexInv, NEW r \in Runners, MarkApplied(r) PROVE IndexInv'
<1>1. IndexTypeOK /\ LockInv /\ OpenedInv /\ FoundInv /\ UndisturbedInv /\ AppliedIsBuilt
  BY DEF IndexInv
<1>2. runner[r].pc = "marking" /\ runner[r].pc \notin Outside
  BY DEF MarkApplied, RunnerAt, Outside
<1>3. indexLedger.checksum = Checksum[r] /\ indexLedger.state = "APPLYING"
  BY <1>1, <1>2 DEF OpenedInv
<1>4. indexLedger = [checksum |-> Checksum[r], state |-> "APPLYING"]
  BY <1>1, <1>3 DEF IndexTypeOK, LedgerRows
<1>5. /\ indexLedger' = [indexLedger EXCEPT !.state = "APPLIED"]
      /\ runner' = [runner EXCEPT ![r] = [pc |-> "applied", at |-> 0]]
      /\ advisoryLock' = advisoryLock \ {r}
      /\ UNCHANGED <<indexState, indexFaults, operatorActed>>
  BY <1>4 DEF MarkApplied, Ends, Moved, Released
<1>6. /\ runner'[r].pc = "applied"
      /\ \A q \in Runners \ {r} : runner'[q] = runner[q] /\ runner[q].pc \in Outside
  BY <1>1, <1>2, <1>5, AloneInside DEF IndexTypeOK
<1>7. runner' \in [Runners -> RunnerStates]
  BY <1>1, <1>5 DEF IndexTypeOK, RunnerStates, Outside
<1>8. /\ indexLedger' \in LedgerRows
      /\ indexLedger'.checksum = indexLedger.checksum /\ indexLedger'.state = "APPLIED"
  BY <1>1, <1>5 DEF IndexTypeOK, LedgerRows
<1>9. IndexTypeOK'
  BY <1>1, <1>5, <1>6, <1>7, <1>8 DEF IndexTypeOK
<1>10. LockInv'
  BY <1>1, <1>5, <1>6 DEF LockInv, Outside
<1>11. OpenedInv' /\ FoundInv'
  BY <1>6 DEF OpenedInv, FoundInv, Outside, Building
<1>12. UndisturbedInv'
  BY <1>1, <1>3, <1>5, <1>6, <1>8 DEF UndisturbedInv, Outside
<1>13. AppliedIsBuilt'
  BY <1>1, <1>2, <1>5 DEF FoundInv, AppliedIsBuilt
<1> QED BY <1>9, <1>10, <1>11, <1>12, <1>13 DEF IndexInv

(* The steps of a run that change only where it is.                      *)
LEMMA LoopsGoOn ==
    ASSUME IndexInv, NEW r \in Runners,
           \/ StartRunner(r) \/ RunAgain(r) \/ NothingToBuild(r) \/ ToCreate(r)
           \/ Inspect(r) \/ VerifyAgain(r) \/ RefuseForeign(r)
    PROVE  IndexInv'
<1>1. IndexTypeOK /\ LockInv /\ OpenedInv /\ FoundInv /\ UndisturbedInv
  BY DEF IndexInv
<1>2. runner[r].at \in Nat /\ runner[r].at + 1 \in Nat /\ IndexCount \in Nat
  BY <1>1, IndexBounds DEF IndexTypeOK, RunnerStates
<1>3. ASSUME runner[r].at \in Indexes, indexState[runner[r].at] = "valid", runner[r].pc \in Building, ~operatorActed
      PROVE  \A i \in Indexes : i < runner[r].at + 1 => indexState[i] = "valid"
  <2>1. \A i \in Indexes : i < runner[r].at + 1 => i < runner[r].at \/ i = runner[r].at
    BY <1>2 DEF Indexes
  <2> QED BY <1>1, <1>3, <2>1 DEF FoundInv
<1>4. CASE StartRunner(r)
  BY <1>4, RunGoesOn DEF StartRunner, RunnerAt, Outside, Building
<1>5. CASE RunAgain(r)
  BY <1>5, RunGoesOn DEF RunAgain, RunnerAt, Outside, Building
<1>6. CASE NothingToBuild(r)
  <2>1. runner[r].pc \in Building /\ runner[r].pc = "building"
    BY <1>6 DEF NothingToBuild, RunnerAt, Building
  <2> QED BY <1>2, <1>3, <1>6, <2>1, RunGoesOn DEF NothingToBuild, Usable, Outside, Building
<1>7. CASE ToCreate(r)
  <2>1. runner[r].pc = "building" /\ indexState[runner[r].at] = "absent" /\ runner[r].at \in Indexes
    BY <1>7 DEF ToCreate, RunnerAt, InTheWay
  <2>2. ~operatorActed => \A i \in Indexes : i < runner[r].at => indexState[i] = "valid"
    BY <1>1, <2>1 DEF FoundInv, Building
  <2> QED BY <1>2, <1>7, <2>1, <2>2, RunGoesOn DEF ToCreate, Outside, Building
<1>8. CASE Inspect(r)
  <2>1. runner[r].pc = "inspecting" /\ runner[r].at \in Indexes /\ runner[r].pc \notin Outside
    BY <1>1, <1>8 DEF Inspect, RunnerAt, IndexTypeOK, Outside
  <2>2. CASE indexState[runner[r].at] = "valid"
    <3>1. Moved(r, "building", runner[r].at + 1) /\ UNCHANGED advisoryLock
      BY <1>8, <2>2 DEF Inspect, Usable
    <3> QED BY <1>2, <1>3, <1>8, <2>1, <2>2, <3>1, RunGoesOn DEF Inspect, Outside, Building
  <2>3. CASE indexState[runner[r].at] # "valid"
    <3>1. Ends(r, "failed") /\ UNCHANGED <<indexState, indexLedger, indexFaults, operatorActed>>
      BY <1>8, <2>3 DEF Inspect, Usable
    <3>2. indexFaults # 0
      BY <1>1, <2>1, <2>3 DEF UndisturbedInv
    <3> QED BY <2>1, <3>1, <3>2, RunFails
  <2> QED BY <2>2, <2>3
<1>9. CASE VerifyAgain(r)
  <2>1. UNCHANGED <<indexState, indexLedger, indexFaults, operatorActed>>
    BY <1>9 DEF VerifyAgain
  <2>2. CASE RunnerAt(r, "building") /\ runner[r].at > IndexCount /\ Moved(r, "verifying", 1) /\ UNCHANGED advisoryLock
    <3>1. \A i \in Indexes : i < runner[r].at
      BY <1>2, <2>2 DEF Indexes
    <3>2. ~operatorActed => \A i \in Indexes : indexState[i] = "valid"
      BY <1>1, <2>2, <3>1 DEF FoundInv, RunnerAt, Building
    <3> QED BY <2>1, <2>2, <3>2, RunGoesOn DEF RunnerAt, Outside, Building
  <2>3. CASE RunnerAt(r, "verifying") /\ Usable(indexState[runner[r].at])
             /\ Moved(r, "verifying", runner[r].at + 1) /\ UNCHANGED advisoryLock
    <3>1. ~operatorActed => \A i \in Indexes : indexState[i] = "valid"
      BY <1>1, <2>3 DEF FoundInv, RunnerAt
    <3> QED BY <1>2, <2>1, <2>3, <3>1, RunGoesOn DEF RunnerAt, Outside, Building
  <2>4. CASE RunnerAt(r, "verifying") /\ runner[r].at \in Indexes /\ ~Usable(indexState[runner[r].at]) /\ Ends(r, "failed")
    <3>1. operatorActed
      BY <1>1, <2>4 DEF FoundInv, RunnerAt, Usable
    <3>2. indexFaults # 0
      BY <1>1, <3>1 DEF UndisturbedInv
    <3> QED BY <2>1, <2>4, <3>2, RunFails DEF RunnerAt, Outside
  <2>5. CASE RunnerAt(r, "verifying") /\ runner[r].at > IndexCount /\ Moved(r, "marking", 0) /\ UNCHANGED advisoryLock
    <3>1. ~operatorActed => \A i \in Indexes : indexState[i] = "valid"
      BY <1>1, <2>5 DEF FoundInv, RunnerAt
    <3> QED BY <2>1, <2>5, <3>1, RunGoesOn DEF RunnerAt, Outside, Building
  <2> QED BY <1>9, <2>2, <2>3, <2>4, <2>5 DEF VerifyAgain
<1>10. CASE RefuseForeign(r)
  BY <1>10, RunFails DEF RefuseForeign, RunnerAt, Outside
<1> QED BY <1>4, <1>5, <1>6, <1>7, <1>8, <1>9, <1>10

(* The steps that drop and create the index at hand.                     *)
LEMMA IndexesAreBuilt ==
    ASSUME IndexInv, NEW r \in Runners, DropInvalid(r) \/ BeginCreate(r) \/ EndCreate(r)
    PROVE  IndexInv'
<1>1. IndexTypeOK /\ UndisturbedInv
  BY DEF IndexInv
<1>2. CASE DropInvalid(r)
  BY <1>2, RunBuilds DEF DropInvalid, RunnerAt, InTheWay, Building, IndexStates
<1>3. CASE BeginCreate(r)
  <2>1. runner[r].pc = "creating" /\ runner[r].at \in Indexes
    BY <1>1, <1>3 DEF BeginCreate, RunnerAt, IndexTypeOK
  <2>2. indexState[runner[r].at] \in IndexStates
    BY <1>1, <2>1 DEF IndexTypeOK
  <2>3. indexFaults = 0 => indexState[runner[r].at] = "absent"
    BY <1>1, <2>1 DEF UndisturbedInv
  <2>4. CASE indexState[runner[r].at] = "absent"
    <3>1. /\ Moved(r, "created", runner[r].at)
          /\ indexState' = [indexState EXCEPT ![runner[r].at] = "invalid"]
          /\ UNCHANGED <<indexLedger, advisoryLock, indexFaults, operatorActed>>
      BY <1>1, <1>3, <2>1, <2>4 DEF BeginCreate, IndexTypeOK
    <3> QED BY <2>1, <2>4, <3>1, RunBuilds DEF Building, IndexStates
  <2>5. CASE indexState[runner[r].at] # "absent"
    <3>1. /\ Moved(r, "inspecting", runner[r].at)
          /\ indexState' = [indexState EXCEPT ![runner[r].at] = indexState[runner[r].at]]
          /\ UNCHANGED <<indexLedger, advisoryLock, indexFaults, operatorActed>>
      BY <1>1, <1>3, <2>1, <2>5 DEF BeginCreate, IndexTypeOK
    <3> QED BY <2>1, <2>2, <2>3, <2>5, <3>1, RunBuilds DEF Building
  <2> QED BY <2>4, <2>5
<1>4. CASE EndCreate(r)
  <2>1. runner[r].pc = "created" /\ runner[r].at \in Indexes
    BY <1>1, <1>4 DEF EndCreate, RunnerAt, IndexTypeOK
  <2>2. indexState[runner[r].at] \in IndexStates
    BY <1>1, <2>1 DEF IndexTypeOK
  <2>3. indexFaults = 0 => indexState[runner[r].at] = "invalid"
    BY <1>1, <2>1 DEF UndisturbedInv
  <2> DEFINE state == IF indexState[runner[r].at] = "invalid" THEN "valid" ELSE indexState[runner[r].at]
  <2>4. /\ Moved(r, "inspecting", runner[r].at)
        /\ indexState' = [indexState EXCEPT ![runner[r].at] = state]
        /\ UNCHANGED <<indexLedger, advisoryLock, indexFaults, operatorActed>>
    BY <1>1, <1>4, <2>1 DEF EndCreate, IndexTypeOK
  <2>5. /\ state \in IndexStates /\ (indexFaults = 0 => state = "valid")
        /\ indexState[runner[r].at] = "foreign" => state = "foreign"
    BY <2>2, <2>3 DEF IndexStates
  <2> HIDE DEF state
  <2> QED BY <2>1, <2>4, <2>5, RunBuilds DEF Building
<1> QED BY <1>2, <1>3, <1>4

(* A statement that fails is a fault, and ends the run.                  *)
LEMMA StatementIsLost == ASSUME IndexInv, NEW r \in Runners, StatementFails(r) PROVE IndexInv'
<1>1. indexFaults \in Nat
  BY DEF IndexInv, IndexTypeOK
<1>2. indexFaults' = indexFaults + 1 /\ indexFaults' # 0
  BY <1>1 DEF StatementFails, IndexFault
<1> QED BY <1>2, RunFails DEF StatementFails

(* Once an operator interferes nothing is promised of the indexes.       *)
LEMMA OperatorIsHeeded ==
    ASSUME IndexInv, NEW i \in Indexes, NEW state \in {"absent", "foreign"}, OperatorChanges(i, state)
    PROVE  IndexInv'
<1>1. IndexTypeOK /\ LockInv /\ OpenedInv
  BY DEF IndexInv
<1>2. /\ indexFaults' \in Nat /\ indexFaults' # 0
      /\ indexState' \in [Indexes -> IndexStates] /\ operatorActed' = TRUE
      /\ UNCHANGED <<indexLedger, advisoryLock, runner>>
  BY <1>1 DEF OperatorChanges, IndexFault, IndexTypeOK, IndexStates
<1> QED BY <1>1, <1>2 DEF IndexInv, IndexTypeOK, LockInv, OpenedInv, FoundInv, UndisturbedInv, AppliedIsBuilt

(* Every step keeps the invariant.                                       *)
LEMMA IndexSteps == IndexInv /\ [IndexNext]_indexVars => IndexInv'
<1> SUFFICES ASSUME IndexInv, [IndexNext]_indexVars PROVE IndexInv'
  OBVIOUS
<1>1. ASSUME NEW r \in Runners, StartRunner(r) \/ RunnerStep(r) \/ StatementFails(r) \/ RunAgain(r)
      PROVE  IndexInv'
  BY <1>1, LockIsTaken, LedgerIsOpened, IndexesAreBuilt, LoopsGoOn, LedgerIsMarked, StatementIsLost
  DEF RunnerStep
<1>2. ASSUME NEW i \in Indexes, NEW state \in {"absent", "foreign"}, OperatorChanges(i, state)
      PROVE  IndexInv'
  BY <1>2, OperatorIsHeeded
<1>3. CASE UNCHANGED indexVars
  BY <1>3 DEF indexVars, IndexInv, IndexTypeOK, LockInv, OpenedInv, FoundInv, UndisturbedInv, AppliedIsBuilt
<1> QED BY <1>1, <1>2, <1>3 DEF IndexNext

(* The invariant holds in every state, whatever the runners, their       *)
(* manifests and the faults.                                             *)
THEOREM IndexesAreSound == IndexSpec => []IndexInv
<1> QED BY IndexStarts, IndexSteps, PTL DEF IndexSpec

(* One runner at a time is past the lock.                                *)
LEMMA LockIsOfOne == IndexInv => RunnersTypeOK
<1> SUFFICES ASSUME IndexInv PROVE RunnersTypeOK
  OBVIOUS
<1>1. LockInv
  BY DEF IndexInv
<1>2. Cardinality(advisoryLock) <= 1
  <2>1. CASE advisoryLock = {}
    BY <2>1, FS_EmptySet
  <2>2. CASE advisoryLock # {}
    <3>1. PICK r : r \in advisoryLock
      BY <2>2
    <3>2. advisoryLock = {r}
      BY <1>1, <3>1 DEF LockInv
    <3> QED BY <3>2, FS_Singleton
  <2> QED BY <2>1, <2>2
<1> QED BY <1>1, <1>2 DEF RunnersTypeOK, LockInv, Outside

(* Runners leave valid indexes, and those that others defined, as they   *)
(* are.                                                                  *)
LEMMA RunnersSpareTheValid ==
    IndexInv /\ [IndexNext]_indexVars =>
       [\A i \in Indexes :
          indexState[i] \in {"valid", "foreign"} /\ operatorActed' = operatorActed
          /\ indexFaults' = indexFaults => indexState'[i] = indexState[i]]_indexVars
<1> SUFFICES ASSUME IndexInv, IndexNext, NEW i \in Indexes,
                    indexState[i] \in {"valid", "foreign"}, indexFaults' = indexFaults
             PROVE  indexState'[i] = indexState[i]
  OBVIOUS
<1>1. indexState \in [Indexes -> IndexStates] /\ indexFaults \in Nat
  BY DEF IndexInv, IndexTypeOK
<1>2. ASSUME NEW r \in Runners, StartRunner(r) \/ RunnerStep(r) \/ StatementFails(r) \/ RunAgain(r)
      PROVE  indexState'[i] = indexState[i]
  BY <1>1, <1>2 DEF StartRunner, RunnerStep, StatementFails, RunAgain, TakeAdvisoryLock, OpenLedger,
     RefuseForeign, DropInvalid, NothingToBuild, ToCreate, BeginCreate, EndCreate, Inspect, VerifyAgain,
     MarkApplied, InTheWay
<1>3. ~\E j \in Indexes, state \in {"absent", "foreign"} : OperatorChanges(j, state)
  BY <1>1 DEF OperatorChanges, IndexFault
<1> QED BY <1>2, <1>3 DEF IndexNext

(* One run at a time builds the indexes, a manifest is marked as applied *)
(* only with every index valid, a run fails only for a cause, and valid  *)
(* indexes are never dropped (scripts/apply-online-admin-search-         *)
(* indexes.ts).                                                          *)
THEOREM IndexesSafety == IndexSpec => IndexesAreSafe
<1>1. IndexInv => RunnersTypeOK /\ AppliedIsBuilt /\ FailuresHaveACause
  BY LockIsOfOne DEF IndexInv, UndisturbedInv, FailuresHaveACause, RunnerAt
<1> QED BY <1>1, IndexesAreSound, RunnersSpareTheValid, PTL DEF IndexesAreSafe, IndexSpec, ValidIndexesStay

-----------------------------------------------------------------------------
(* Accounts and their sessions.                                            *)
(*                                                                         *)
(* The inductive invariant AccountsInv adds to the checked properties what *)
(* they rest on between two transactions: a login that has its account but *)
(* not its session yet is of today and holds an account that stands        *)
(* (LoginsInv); a session was opened before its account's departure, if it *)
(* has one (HeldInv); a departure under way has a row to mark              *)
(* (DeparturesInv); no number belongs to two people (NumbersInv); an       *)
(* enabled policy was applied from its own preview (PolicyInv).            *)

AccountRowsInv ==
    /\ \A a \in Accounts : ~user[a].row => user[a] = NoAccountRow
    /\ \A a \in Accounts : user[a].departed <= today
    /\ \A a \in Accounts : user[a].anonymized =>
         user[a].row /\ user[a].riro = Nobody /\ user[a].number = Anon /\ user[a].departed # Never

LoginsInv ==
    /\ login \in [Requests -> [pc : {"idle", "persisted"}, person : People \cup {Nobody},
                               account : Accounts \cup {NoAccount}]]
    /\ \A r \in Requests : login[r].pc = "persisted" =>
         /\ login[r].person \in People /\ login[r].account \in Accounts
         /\ \A s \in session : s.request # r
         /\ user[login[r].account].row
         /\ ~user[login[r].account].anonymized
         /\ user[login[r].account].departed \in {Never, today}
         /\ ~ReusesNumbers => user[login[r].account].riro = login[r].person

HeldInv ==
    \A s \in session :
        /\ user[s.owner].row /\ ~user[s.owner].anonymized
        /\ s.opened <= today
        /\ user[s.owner].departed # Never => s.opened <= user[s.owner].departed
        /\ ~ReusesNumbers => user[s.owner].riro = s.person

Departures == [kind : {"none", "mark", "clear"}, target : Accounts \cup {NoAccount},
               read : Row, sessions : SUBSET Session]

DeparturesInv ==
    /\ departure \in [Desks -> Departures]
    /\ \A d \in Desks : departure[d].kind # "none" =>
         departure[d].target \in Accounts /\ user[departure[d].target].row

NumbersInv ==
    /\ \A p, q \in People : p # q => numberOf[p] # numberOf[q]
    /\ ~ReusesNumbers =>
         \A a \in Rows, p \in People : user[a].number = numberOf[p] => user[a].riro \in {p, Nobody}

PolicyInv == policy.enabled => policy.version > 0 /\ preview.version = policy.version

AccountsInv ==
    /\ AccountsTypeOK /\ OneAccountEach
    /\ AccountRowsInv /\ LoginsInv /\ HeldInv /\ DeparturesInv /\ NumbersInv /\ PolicyInv

(* The facts about constants and rows that the leaves cite. *)
LEMMA Bounds == MaxPolicies \in Nat /\ LastAccountDay \in Nat
BY SessionsAssumption DEF SessionsAssumption

(* The row that is none. *)
LEMMA NoRow == /\ NoAccountRow.row = FALSE /\ NoAccountRow.departed = Never /\ NoAccountRow.anonymized = FALSE
               /\ NoAccountRow.riro = Nobody
BY DEF NoAccountRow

(* It holds with the one account that may be there at the start. *)
LEMMA AccountsStart == AccountsInit => AccountsInv
<1> SUFFICES ASSUME AccountsInit PROVE AccountsInv
  OBVIOUS
<1>1. numberOf \in [People -> Numbers] /\ (\A p, q \in People : p # q => numberOf[p] # numberOf[q])
  BY DEF AccountsInit
<1>2. PICK a0 \in Accounts, n0 \in Numbers, p0 \in People \cup {Nobody} :
         /\ p0 # Nobody => numberOf[p0] = n0
         /\ user = [b \in Accounts |->
              IF b = a0 THEN [NoAccountRow EXCEPT !.row = TRUE, !.riro = p0, !.number = n0] ELSE NoAccountRow]
  BY DEF AccountsInit
<1>3. session = {} /\ today = 0 /\ policy = [version |-> 0, enabled |-> FALSE]
  BY DEF AccountsInit
<1>4. user[a0] = [row |-> TRUE, riro |-> p0, number |-> n0, departed |-> Never, anonymized |-> FALSE]
  BY <1>2 DEF NoAccountRow
<1>5. \A b \in Accounts \ {a0} : user[b] = NoAccountRow
  BY <1>2
<1>6. NoAccountRow \in Row /\ user \in [Accounts -> Row]
  <2>1. NoAccountRow \in Row
    BY DEF NoAccountRow, Row
  <2>2. user[a0] \in Row
    BY <1>4 DEF Row
  <2> QED BY <1>2, <1>5, <2>1, <2>2
<1>7. AccountsTypeOK
  <2>1. \A d \in Desks : departure[d].sessions = {}
    BY DEF AccountsInit, NoDeparture
  <2>2. 0 \in 0 .. MaxPolicies /\ 0 \in 0 .. LastAccountDay
    BY Bounds
  <2>3. policy \in [version : 0..MaxPolicies, enabled : BOOLEAN]
    BY <1>3, <2>2
  <2>4. preview \in [version : 0..MaxPolicies, candidates : SUBSET Accounts]
    <3>1. preview = [version |-> 0, candidates |-> {}]
      BY DEF AccountsInit, NoPreview
    <3> QED BY <2>2, <3>1
  <2>5. DOMAIN login = Requests
    BY DEF AccountsInit
  <2> QED BY <1>1, <1>3, <1>6, <2>1, <2>2, <2>3, <2>4, <2>5 DEF AccountsTypeOK
<1>8. OneAccountEach
  <2>1. \A a \in Rows : a = a0
    BY <1>5 DEF Rows, NoAccountRow
  <2> QED BY <2>1 DEF OneAccountEach
<1>9. AccountRowsInv
  <2> SUFFICES ASSUME NEW a \in Accounts
               PROVE  /\ ~user[a].row => user[a] = NoAccountRow
                      /\ user[a].departed <= today
                      /\ ~user[a].anonymized
    BY DEF AccountRowsInv
  <2>1. CASE a = a0
    BY <1>3, <1>4, <2>1 DEF Never
  <2>2. CASE a # a0
    BY <1>3, <1>5, <2>2, NoRow DEF Never
  <2> QED BY <2>1, <2>2
<1>10. LoginsInv
  BY DEF LoginsInv, AccountsInit
<1>11. HeldInv
  BY <1>3 DEF HeldInv
<1>12. DeparturesInv
  <2>1. NoDeparture \in Departures /\ NoDeparture.kind = "none"
    BY <1>6 DEF NoDeparture, Departures
  <2> QED BY <2>1 DEF DeparturesInv, AccountsInit
<1>13. NumbersInv
  <2>1. \A a \in Rows : a = a0
    BY <1>5 DEF Rows, NoAccountRow
  <2>2. \A p \in People : user[a0].number = numberOf[p] => user[a0].riro \in {p, Nobody}
    BY <1>1, <1>2, <1>4
  <2> QED BY <1>1, <2>1, <2>2 DEF NumbersInv
<1>14. PolicyInv
  BY <1>3 DEF PolicyInv
<1> QED BY <1>7, <1>8, <1>9, <1>10, <1>11, <1>12, <1>13, <1>14 DEF AccountsInv

(* What a login does to the rows: the account it continues is linked to the *)
(* person, and a row that has the number without a person is moved aside.   *)
LEMMA PersistedRows ==
    ASSUME AccountsInv, NEW p \in People, NEW a \in AccountFor(p), MayPersist(p),
           user' = [b \in Accounts |-> PersistedRow(p, a, b)]
    PROVE  /\ a \in Accounts /\ ~user[a].anonymized /\ user[a].departed = Never
           /\ ~ReusesNumbers => user[a].riro \in {p, Nobody}
           /\ user'[a] = [user[a] EXCEPT !.row = TRUE, !.riro = p, !.number = numberOf[p]]
           /\ \A b \in Accounts \ {a} :
                \/ /\ user'[b] = user[b]
                   /\ user[b].row => user[b].riro # p /\ user[b].number # numberOf[p]
                \/ /\ user'[b] = [user[b] EXCEPT !.riro = Nobody, !.number = Relinked]
                   /\ user[b].row /\ user[b].number = numberOf[p] /\ user[b].riro = Nobody
<1> DEFINE n == numberOf[p]
<1> USE SessionsAssumption DEF SessionsAssumption, Nobody, Anon, Relinked, NoAccount
<1>1. /\ user \in [Accounts -> Row] /\ OneAccountEach /\ AccountRowsInv /\ NumbersInv
      /\ n \in Numbers
  BY DEF AccountsInv, AccountsTypeOK
<1>2. a \in Accounts
  BY DEF AccountFor, WithRiro, WithNumber, Rows
<1>3. user'[a] = [user[a] EXCEPT !.row = TRUE, !.riro = p, !.number = n]
  BY <1>2 DEF PersistedRow
<1>4. ASSUME NEW b \in Accounts \ {a}
      PROVE  user'[b] = IF user[b].row /\ user[b].number = n
                        THEN [user[b] EXCEPT !.riro = Nobody, !.number = Relinked] ELSE user[b]
  BY <1>4 DEF PersistedRow
<1>5. CASE WithRiro(p) # {}
  <2>1. a \in Rows /\ user[a].riro = p
    BY <1>5 DEF AccountFor, WithRiro
  <2>2. ~user[a].anonymized
    BY <1>1, <1>2, <2>1 DEF AccountRowsInv
  <2>3. user[a].departed = Never
    BY <1>5, <2>1 DEF MayPersist, Departed, WithRiro
  <2>4. ASSUME NEW b \in Rows \ {a} PROVE user[b].riro # p
    BY <1>1, <2>1, <2>4 DEF OneAccountEach
  <2>5. ASSUME NEW b \in Rows \ {a}, user[b].number = n PROVE user[b].riro = Nobody
    BY <1>5, <2>4, <2>5 DEF MayPersist, WithNumber, WithRiro
  <2> QED BY <1>2, <1>3, <1>4, <2>1, <2>2, <2>3, <2>4, <2>5 DEF Rows
<1>6. CASE WithRiro(p) = {} /\ WithNumber(n) # {}
  <2>1. a \in Rows /\ user[a].number = n
    BY <1>6 DEF AccountFor, WithNumber
  <2>2. ~user[a].anonymized
    BY <1>1, <1>2, <2>1 DEF AccountRowsInv
  <2>3. user[a].departed = Never
    BY <1>6, <2>1 DEF MayPersist, Departed, WithNumber
  <2>4. ASSUME NEW b \in Rows \ {a} PROVE user[b].number # n
    BY <1>1, <2>1, <2>4 DEF OneAccountEach
  <2>5. \A b \in Rows : user[b].riro # p
    BY <1>6 DEF WithRiro
  <2>6. ~ReusesNumbers => user[a].riro \in {p, Nobody}
    BY <1>1, <2>1 DEF NumbersInv
  <2> QED BY <1>2, <1>3, <1>4, <2>1, <2>2, <2>3, <2>4, <2>5, <2>6 DEF Rows
<1>7. CASE WithRiro(p) = {} /\ WithNumber(n) = {}
  <2>1. a \in Accounts \ Rows
    BY <1>7 DEF AccountFor
  <2>2. user[a] = NoAccountRow
    BY <1>1, <2>1 DEF AccountRowsInv, Rows
  <2>3. \A b \in Rows : user[b].riro # p /\ user[b].number # n
    BY <1>7 DEF WithRiro, WithNumber
  <2>4. /\ ~user[a].anonymized /\ user[a].departed = Never
        /\ user[a].riro = Nobody
    BY <2>2, NoRow
  <2>5. ASSUME NEW b \in Accounts \ {a}
        PROVE  user'[b] = user[b] /\ (user[b].row => user[b].riro # p /\ user[b].number # n)
    BY <1>4, <2>3 DEF Rows
  <2> QED BY <1>2, <1>3, <2>4, <2>5
<1> QED BY <1>5, <1>6, <1>7



(* What every step keeps of the rows: an account once erased stays as it is, *)
(* and is erased only under the version of the last preview.                 *)
ErasureStep ==
    /\ \A a \in Accounts : user[a].anonymized => user'[a] = user[a]
    /\ \A a \in Accounts : ~user[a].anonymized /\ user'[a].anonymized
         => preview.version > 0 /\ policy.version = preview.version

(* The login's account transaction. *)
LEMMA PersistKeeps ==
    ASSUME AccountsInv, NEW r \in Requests, NEW p \in People, Persist(r, p)
    PROVE  AccountsInv' /\ ErasureStep
<1>1. PICK a \in AccountFor(p) :
        /\ user' = [b \in Accounts |-> PersistedRow(p, a, b)]
        /\ login' = [login EXCEPT ![r] = [pc |-> "persisted", person |-> p, account |-> a]]
  BY DEF Persist
<1>2. /\ MayPersist(p)
      /\ \A s \in session : s.request # r
      /\ UNCHANGED <<session, departure, policy, preview, numberOf, today>>
  BY DEF Persist
<1>3. /\ a \in Accounts /\ ~user[a].anonymized /\ user[a].departed = Never
      /\ ~ReusesNumbers => user[a].riro \in {p, Nobody}
      /\ user'[a] = [user[a] EXCEPT !.row = TRUE, !.riro = p, !.number = numberOf[p]]
      /\ \A b \in Accounts \ {a} :
           \/ /\ user'[b] = user[b]
              /\ user[b].row => user[b].riro # p /\ user[b].number # numberOf[p]
           \/ /\ user'[b] = [user[b] EXCEPT !.riro = Nobody, !.number = Relinked]
              /\ user[b].row /\ user[b].number = numberOf[p] /\ user[b].riro = Nobody
  BY <1>1, <1>2, PersistedRows
<1>4. /\ user \in [Accounts -> Row] /\ numberOf \in [People -> Numbers] /\ session \subseteq Session
      /\ today \in 0..LastAccountDay /\ numberOf[p] \in Numbers
  BY DEF AccountsInv, AccountsTypeOK
<1>5. Nobody \notin People /\ NoAccount \notin Accounts /\ {Relinked, Anon} \cap Numbers = {}
  BY SessionsAssumption DEF SessionsAssumption, Nobody, NoAccount, Relinked, Anon
<1>6. user[a] \in Row /\ DOMAIN user' = Accounts
  BY <1>1, <1>3, <1>4
<1>7. /\ user'[a].row /\ user'[a].riro = p /\ user'[a].number = numberOf[p]
      /\ user'[a].departed = Never /\ ~user'[a].anonymized /\ user'[a] \in Row
  BY <1>3, <1>4, <1>6 DEF Row
<1>8. ASSUME NEW b \in Accounts \ {a}
      PROVE  \/ /\ user'[b] = user[b]
                /\ user[b].row => user[b].riro # p /\ user[b].number # numberOf[p]
             \/ /\ user'[b].row /\ user'[b].riro = Nobody /\ user'[b].number = Relinked
                /\ user'[b].departed = user[b].departed /\ ~user'[b].anonymized
                /\ user[b].row /\ user[b].number = numberOf[p] /\ user[b].riro = Nobody
                /\ ~user[b].anonymized
                /\ user'[b] \in Row
  <2>1. user[b] \in Row
    BY <1>4
  <2>2. user[b].anonymized => user[b].number = Anon
    BY DEF AccountsInv, AccountRowsInv
  <2>3. user[b].number = numberOf[p] => ~user[b].anonymized
    BY <1>4, <1>5, <2>2
  <2>4. CASE user'[b] = user[b] /\ (user[b].row => user[b].riro # p /\ user[b].number # numberOf[p])
    BY <2>4
  <2>5. CASE /\ user'[b] = [user[b] EXCEPT !.riro = Nobody, !.number = Relinked]
             /\ user[b].row /\ user[b].number = numberOf[p] /\ user[b].riro = Nobody
    <3>1. /\ user'[b].row = user[b].row /\ user'[b].riro = Nobody /\ user'[b].number = Relinked
          /\ user'[b].departed = user[b].departed /\ user'[b].anonymized = user[b].anonymized
          /\ user'[b] \in Row
      BY <2>1, <2>5 DEF Row
    <3> QED BY <2>3, <2>5, <3>1
  <2> QED BY <1>3, <2>4, <2>5
<1>9. user' \in [Accounts -> Row]
  <2>1. user'[a] \in Row
    BY <1>7
  <2>2. ASSUME NEW b \in Accounts \ {a} PROVE user'[b] \in Row
    <3>1. user[b] \in Row
      BY <1>4
    <3> QED BY <1>8, <3>1
  <2> QED BY <1>1, <2>1, <2>2
<1>10. login' \in [Requests -> [pc : {"idle", "persisted"}, person : People \cup {Nobody},
                                account : Accounts \cup {NoAccount}]]
  BY <1>1, <1>3 DEF AccountsInv, LoginsInv
<1>11. AccountsTypeOK'
  BY <1>2, <1>9, <1>10 DEF AccountsInv, AccountsTypeOK
<1>12. OneAccountEach'
  <2> SUFFICES ASSUME NEW b \in Accounts, NEW c \in Accounts, b # c,
                      user'[b].row, user'[c].row
               PROVE  /\ user'[b].riro = user'[c].riro => user'[b].riro = Nobody
                      /\ user'[b].number = user'[c].number => user'[b].number \in {Relinked, Anon}
    BY DEF OneAccountEach, Rows
  <2>1. user[b].row /\ user[c].row =>
          /\ user[b].riro = user[c].riro => user[b].riro = Nobody
          /\ user[b].number = user[c].number => user[b].number \in {Relinked, Anon}
    BY DEF AccountsInv, OneAccountEach, Rows
  <2>2. CASE b = a
    BY <1>4, <1>5, <1>7, <1>8, <2>2
  <2>3. CASE c = a
    BY <1>4, <1>5, <1>7, <1>8, <2>3
  <2>4. CASE b # a /\ c # a
    BY <1>8, <2>1, <2>4
  <2> QED BY <2>2, <2>3, <2>4
<1>13. AccountRowsInv'
  <2> SUFFICES ASSUME NEW b \in Accounts
               PROVE  /\ ~user'[b].row => user'[b] = NoAccountRow
                      /\ user'[b].departed <= today
                      /\ user'[b].anonymized =>
                           user'[b].row /\ user'[b].riro = Nobody /\ user'[b].number = Anon /\ user'[b].departed # Never
    BY <1>2 DEF AccountRowsInv
  <2>1. /\ ~user[b].row => user[b] = NoAccountRow
        /\ user[b].departed <= today
        /\ user[b].anonymized =>
             user[b].row /\ user[b].riro = Nobody /\ user[b].number = Anon /\ user[b].departed # Never
    BY DEF AccountsInv, AccountRowsInv
  <2>2. CASE b = a
    BY <1>4, <1>7, <2>2 DEF Never
  <2>3. CASE b # a
    BY <1>8, <2>1, <2>3
  <2> QED BY <2>2, <2>3
<1>14. ASSUME NEW b \in Accounts, user[b].row, ~user[b].anonymized
       PROVE  /\ user'[b].row /\ ~user'[b].anonymized /\ user'[b].departed = user[b].departed
              /\ ~ReusesNumbers /\ user[b].riro \in People => user'[b].riro = user[b].riro
  <2>1. CASE b = a
    BY <1>3, <1>5, <1>7, <2>1
  <2>2. CASE b # a
    BY <1>5, <1>8, <1>14, <2>2
  <2> QED BY <2>1, <2>2
<1>15. LoginsInv'
  <2>1. ASSUME NEW q \in Requests, login'[q].pc = "persisted"
        PROVE  /\ login'[q].person \in People /\ login'[q].account \in Accounts
               /\ \A s \in session : s.request # q
               /\ user'[login'[q].account].row
               /\ ~user'[login'[q].account].anonymized
               /\ user'[login'[q].account].departed \in {Never, today}
               /\ ~ReusesNumbers => user'[login'[q].account].riro = login'[q].person
    <3>1. CASE q = r
      <4>1. login'[q].pc = "persisted" /\ login'[q].person = p /\ login'[q].account = a
        BY <1>1, <3>1 DEF AccountsInv, LoginsInv
      <4> QED BY <1>2, <1>3, <1>7, <3>1, <4>1
    <3>2. CASE q # r
      <4>1. login'[q] = login[q]
        BY <1>1, <3>2
      <4>2. /\ login[q].person \in People /\ login[q].account \in Accounts
            /\ \A s \in session : s.request # q
            /\ user[login[q].account].row
            /\ ~user[login[q].account].anonymized
            /\ user[login[q].account].departed \in {Never, today}
            /\ ~ReusesNumbers => user[login[q].account].riro = login[q].person
        BY <2>1, <4>1 DEF AccountsInv, LoginsInv
      <4> QED BY <1>14, <4>1, <4>2
    <3> QED BY <3>1, <3>2
  <2> QED BY <1>2, <1>10, <2>1 DEF LoginsInv
<1>16. HeldInv'
  <2> SUFFICES ASSUME NEW s \in session
               PROVE  /\ user'[s.owner].row /\ ~user'[s.owner].anonymized
                      /\ s.opened <= today
                      /\ user'[s.owner].departed # Never => s.opened <= user'[s.owner].departed
                      /\ ~ReusesNumbers => user'[s.owner].riro = s.person
    BY <1>2 DEF HeldInv
  <2>1. s.owner \in Accounts /\ s.person \in People
    BY <1>4 DEF Session
  <2>2. /\ user[s.owner].row /\ ~user[s.owner].anonymized
        /\ s.opened <= today
        /\ user[s.owner].departed # Never => s.opened <= user[s.owner].departed
        /\ ~ReusesNumbers => user[s.owner].riro = s.person
    BY DEF AccountsInv, HeldInv
  <2> QED BY <1>14, <2>1, <2>2
<1>17. DeparturesInv'
  <2>1. ASSUME NEW d \in Desks, departure[d].kind # "none"
        PROVE  departure[d].target \in Accounts /\ user'[departure[d].target].row
    <3>1. departure[d].target \in Accounts /\ user[departure[d].target].row
      BY <2>1 DEF AccountsInv, DeparturesInv
    <3> QED BY <1>7, <1>8, <3>1
  <2> QED BY <1>2, <2>1 DEF AccountsInv, DeparturesInv
<1>18. NumbersInv'
  <2>1. ASSUME ~ReusesNumbers, NEW b \in Accounts, user'[b].row, NEW q \in People, user'[b].number = numberOf[q]
        PROVE  user'[b].riro \in {q, Nobody}
    <3>1. CASE b = a
      BY <1>7, <2>1, <3>1 DEF AccountsInv, NumbersInv
    <3>2. CASE b # a
      BY <1>8, <2>1, <3>2 DEF AccountsInv, NumbersInv, Rows
    <3> QED BY <3>1, <3>2
  <2> QED BY <1>2, <2>1 DEF AccountsInv, NumbersInv, Rows
<1>19. PolicyInv'
  BY <1>2 DEF AccountsInv, PolicyInv
<1>20. ErasureStep
  <2>1. ASSUME NEW b \in Accounts, user[b].anonymized PROVE user'[b] = user[b]
    BY <1>3, <1>8, <2>1
  <2>2. ASSUME NEW b \in Accounts, ~user[b].anonymized PROVE ~user'[b].anonymized
    BY <1>7, <1>8, <2>2
  <2> QED BY <2>1, <2>2 DEF ErasureStep
<1> QED BY <1>11, <1>12, <1>13, <1>15, <1>16, <1>17, <1>18, <1>19, <1>20 DEF AccountsInv

(* The session of a login, stored after its account. *)
LEMMA CreateSessionKeeps ==
    ASSUME AccountsInv, NEW r \in Requests, CreateSession(r)
    PROVE  AccountsInv' /\ ErasureStep
<1> DEFINE s0 == [request |-> r, person |-> login[r].person, owner |-> login[r].account, opened |-> today]
<1>1. /\ login[r].pc = "persisted"
      /\ session' = session \cup {s0}
      /\ login' = [login EXCEPT ![r] = [pc |-> "idle", person |-> Nobody, account |-> NoAccount]]
      /\ UNCHANGED <<user, departure, policy, preview, numberOf, today>>
  BY DEF CreateSession
<1>2. /\ login[r].person \in People /\ login[r].account \in Accounts
      /\ \A s \in session : s.request # r
      /\ user[login[r].account].row
      /\ ~user[login[r].account].anonymized
      /\ user[login[r].account].departed \in {Never, today}
      /\ ~ReusesNumbers => user[login[r].account].riro = login[r].person
  BY <1>1 DEF AccountsInv, LoginsInv
<1>3. today \in 0..LastAccountDay /\ LastAccountDay \in Nat
  BY SessionsAssumption DEF SessionsAssumption, AccountsInv, AccountsTypeOK
<1>4. s0 \in Session
  BY <1>2, <1>3 DEF Session
<1>5. login' \in [Requests -> [pc : {"idle", "persisted"}, person : People \cup {Nobody},
                               account : Accounts \cup {NoAccount}]]
  BY <1>1 DEF AccountsInv, LoginsInv
<1>6. AccountsTypeOK'
  <2>1. session' \subseteq Session /\ \A s, t \in session' : s.request = t.request => s = t
    BY <1>1, <1>2, <1>4 DEF AccountsInv, AccountsTypeOK
  <2> QED BY <1>1, <1>5, <2>1 DEF AccountsInv, AccountsTypeOK
<1>7. LoginsInv'
  <2>1. login'[r].pc = "idle" /\ \A q \in Requests \ {r} : login'[q] = login[q]
    BY <1>1 DEF AccountsInv, LoginsInv
  <2>2. \A q \in Requests \ {r} : s0.request # q
    OBVIOUS
  <2> QED BY <1>1, <1>5, <2>1, <2>2 DEF AccountsInv, LoginsInv
<1>8. HeldInv'
  <2>1. /\ user[s0.owner].row /\ ~user[s0.owner].anonymized /\ s0.opened <= today
        /\ user[s0.owner].departed # Never => s0.opened <= user[s0.owner].departed
        /\ ~ReusesNumbers => user[s0.owner].riro = s0.person
    BY <1>2, <1>3
  <2> QED BY <1>1, <2>1 DEF AccountsInv, HeldInv
<1>9. /\ OneAccountEach' /\ AccountRowsInv' /\ DeparturesInv' /\ NumbersInv' /\ PolicyInv'
  BY <1>1 DEF AccountsInv, OneAccountEach, Rows, AccountRowsInv, DeparturesInv, NumbersInv, PolicyInv
<1>10. ErasureStep
  BY <1>1 DEF ErasureStep
<1> QED BY <1>6, <1>7, <1>8, <1>9, <1>10 DEF AccountsInv

(* A request that dies, and everything that only deletes sessions. *)
LEMMA FewerSessionsKeep ==
    ASSUME AccountsInv, session' \subseteq session,
           \/ login' = login
           \/ \E r \in Requests :
                login' = [login EXCEPT ![r] = [pc |-> "idle", person |-> Nobody, account |-> NoAccount]],
           UNCHANGED <<user, departure, policy, preview, numberOf, today>>
    PROVE  AccountsInv' /\ ErasureStep
<1>1. login' \in [Requests -> [pc : {"idle", "persisted"}, person : People \cup {Nobody},
                               account : Accounts \cup {NoAccount}]]
  BY DEF AccountsInv, LoginsInv
<1>2. \A q \in Requests : login'[q].pc = "persisted" => login'[q] = login[q]
  BY DEF AccountsInv, LoginsInv
<1>3. AccountsTypeOK'
  BY <1>1 DEF AccountsInv, AccountsTypeOK
<1>4. LoginsInv'
  BY <1>1, <1>2 DEF AccountsInv, LoginsInv
<1>5. HeldInv'
  BY DEF AccountsInv, HeldInv
<1>6. /\ OneAccountEach' /\ AccountRowsInv' /\ DeparturesInv' /\ NumbersInv' /\ PolicyInv'
  BY DEF AccountsInv, OneAccountEach, Rows, AccountRowsInv, DeparturesInv, NumbersInv, PolicyInv
<1>7. ErasureStep
  BY DEF ErasureStep
<1> QED BY <1>3, <1>4, <1>5, <1>6, <1>7 DEF AccountsInv

(* A desk without a departure. *)
LEMMA NoDepartureIsNone ==
    NoDeparture \in Departures /\ NoDeparture.kind = "none" /\ NoDeparture.sessions = {}
<1>1. NoAccountRow \in Row
  BY DEF NoAccountRow, Row
<1> QED BY <1>1 DEF NoDeparture, Departures

(* The snapshot of a departure, taken, taken again or given up. *)
LEMMA SnapshotsKeep ==
    ASSUME AccountsInv, NEW d \in Desks, NEW taken \in Departures,
           taken.kind # "none" => taken.target \in Rows,
           departure' = [departure EXCEPT ![d] = taken],
           UNCHANGED <<user, session, login, policy, preview, numberOf, today>>
    PROVE  AccountsInv' /\ ErasureStep
<1>1. departure \in [Desks -> Departures]
  BY DEF AccountsInv, DeparturesInv
<1>2. departure' \in [Desks -> Departures]
  BY <1>1
<1>3. \A e \in Desks : departure'[e] = departure[e] \/ departure'[e] = taken
  BY <1>1
<1>4. AccountsTypeOK'
  BY <1>2 DEF AccountsInv, AccountsTypeOK, Departures
<1>5. DeparturesInv'
  <2>1. ASSUME NEW e \in Desks, departure'[e].kind # "none"
        PROVE  departure'[e].target \in Accounts /\ user[departure'[e].target].row
    BY <1>3, <2>1 DEF AccountsInv, DeparturesInv, Rows
  <2> QED BY <1>2, <2>1 DEF DeparturesInv
<1>6. /\ OneAccountEach' /\ AccountRowsInv' /\ LoginsInv' /\ HeldInv' /\ NumbersInv' /\ PolicyInv'
  BY DEF AccountsInv, OneAccountEach, Rows, AccountRowsInv, LoginsInv, HeldInv, NumbersInv, PolicyInv
<1>7. ErasureStep
  BY DEF ErasureStep
<1> QED BY <1>4, <1>5, <1>6, <1>7 DEF AccountsInv

(* The commit of a departure. *)
LEMMA DepartureKeeps ==
    ASSUME AccountsInv, NEW d \in Desks, CommitDeparture(d)
    PROVE  AccountsInv' /\ ErasureStep
<1> DEFINE a == departure[d].target
           marks == departure[d].kind = "mark"
<1>1. /\ departure[d].kind # "none"
      /\ departure' = [departure EXCEPT ![d] = NoDeparture]
      /\ UNCHANGED <<login, policy, preview, numberOf, today>>
  BY DEF CommitDeparture
<1>2. a \in Accounts /\ user[a].row /\ user[a] \in Row
  BY <1>1 DEF AccountsInv, AccountsTypeOK, DeparturesInv
<1>3. CASE ~DepartureChanges(d) /\ UNCHANGED <<user, session>>
  BY <1>1, <1>3, SnapshotsKeep, NoDepartureIsNone
<1>4. CASE /\ DepartureChanges(d) /\ NoConflict(d)
           /\ user' = [user EXCEPT ![a].departed = IF marks THEN today ELSE Never]
           /\ session' = IF marks THEN session \ departure[d].sessions ELSE session
  <2>1. /\ user \in [Accounts -> Row] /\ session \subseteq Session /\ today \in 0..LastAccountDay
    BY DEF AccountsInv, AccountsTypeOK
  <2>2. ~user[a].anonymized
    BY <1>4 DEF DepartureChanges, NoConflict
  <2>3. /\ user'[a] = [user[a] EXCEPT !.departed = IF marks THEN today ELSE Never]
        /\ \A b \in Accounts \ {a} : user'[b] = user[b]
    BY <1>2, <1>4, <2>1
  <2>4. \E n \in {today, Never} : user'[a] = [user[a] EXCEPT !.departed = n]
    BY <2>3
  <2>5. PICK n \in {today, Never} :
          /\ user'[a].departed = n
          /\ user'[a].row = user[a].row /\ user'[a].riro = user[a].riro
          /\ user'[a].number = user[a].number /\ user'[a].anonymized = user[a].anonymized
          /\ user'[a] \in Row
    <3>1. PICK n \in {today, Never} : user'[a] = [user[a] EXCEPT !.departed = n]
      BY <2>4
    <3>2. n \in {Never} \cup 0..LastAccountDay
      BY <2>1
    <3>3. /\ user'[a].departed = n
          /\ user'[a].row = user[a].row /\ user'[a].riro = user[a].riro
          /\ user'[a].number = user[a].number /\ user'[a].anonymized = user[a].anonymized
      BY <1>2, <3>1 DEF Row
    <3>4. user'[a] \in Row
      BY <1>2, <3>1, <3>2 DEF Row
    <3> QED BY <3>3, <3>4
  <2>6. \A b \in Accounts : /\ user'[b].row = user[b].row /\ user'[b].riro = user[b].riro
                             /\ user'[b].number = user[b].number
                             /\ user'[b].anonymized = user[b].anonymized
    BY <2>3, <2>5
  <2>7. user' \in [Accounts -> Row]
    BY <1>4, <2>1, <2>3, <2>5
  <2>8. session' \subseteq session
    BY <1>4
  <2>9. AccountsTypeOK'
    <3>1. \A e \in Desks : departure'[e].sessions \subseteq Session
      BY <1>1, NoDepartureIsNone DEF AccountsInv, AccountsTypeOK, DeparturesInv
    <3> QED BY <1>1, <2>7, <2>8, <3>1 DEF AccountsInv, AccountsTypeOK
  <2>10. OneAccountEach'
    BY <2>6 DEF AccountsInv, OneAccountEach, Rows
  <2>11. AccountRowsInv'
    <3> SUFFICES ASSUME NEW b \in Accounts
                 PROVE  /\ ~user'[b].row => user'[b] = NoAccountRow
                        /\ user'[b].departed <= today
                        /\ user'[b].anonymized =>
                             user'[b].row /\ user'[b].riro = Nobody /\ user'[b].number = Anon /\ user'[b].departed # Never
      BY <1>1 DEF AccountRowsInv
    <3>1. CASE b = a
      <4>1. user'[a].departed <= today
        BY <2>1, <2>5 DEF Never
      <4> QED BY <1>2, <2>2, <2>5, <3>1, <4>1
    <3>2. CASE b # a
      BY <2>3, <3>2 DEF AccountsInv, AccountRowsInv
    <3> QED BY <3>1, <3>2
  <2>12. LoginsInv'
    <3>1. \A b \in Accounts : user[b].departed \in {Never, today} => user'[b].departed \in {Never, today}
      BY <2>3, <2>5
    <3> QED BY <1>1, <2>6, <2>8, <3>1 DEF AccountsInv, LoginsInv
  <2>13. HeldInv'
    <3> SUFFICES ASSUME NEW s \in session
                 PROVE  /\ user'[s.owner].row /\ ~user'[s.owner].anonymized
                        /\ s.opened <= today
                        /\ user'[s.owner].departed # Never => s.opened <= user'[s.owner].departed
                        /\ ~ReusesNumbers => user'[s.owner].riro = s.person
      BY <1>1, <2>8 DEF HeldInv
    <3>1. s.owner \in Accounts
      BY <2>1 DEF Session
    <3>2. /\ user[s.owner].row /\ ~user[s.owner].anonymized
          /\ s.opened <= today
          /\ user[s.owner].departed # Never => s.opened <= user[s.owner].departed
          /\ ~ReusesNumbers => user[s.owner].riro = s.person
      BY DEF AccountsInv, HeldInv
    <3>3. user'[s.owner].departed # Never => s.opened <= user'[s.owner].departed
      BY <2>3, <2>5, <3>1, <3>2
    <3> QED BY <2>6, <3>1, <3>2, <3>3
  <2>14. DeparturesInv'
    <3>1. NoDeparture \in Departures /\ NoDeparture.kind = "none"
      BY NoDepartureIsNone
    <3>2. departure \in [Desks -> Departures]
      BY DEF AccountsInv, DeparturesInv
    <3>3. departure' \in [Desks -> Departures]
      BY <1>1, <3>1, <3>2
    <3>4. \A e \in Desks : departure'[e] = departure[e] \/ departure'[e] = NoDeparture
      BY <1>1, <3>2
    <3>5. \A e \in Desks : departure'[e].kind # "none" =>
            departure'[e].target \in Accounts /\ user'[departure'[e].target].row
      BY <2>6, <3>1, <3>4 DEF AccountsInv, DeparturesInv
    <3> QED BY <3>3, <3>5 DEF DeparturesInv
  <2>15. NumbersInv' /\ PolicyInv'
    BY <1>1, <2>6 DEF AccountsInv, NumbersInv, PolicyInv, Rows
  <2>16. ErasureStep
    BY <2>2, <2>3, <2>6 DEF ErasureStep
  <2> QED BY <2>9, <2>10, <2>11, <2>12, <2>13, <2>14, <2>15, <2>16 DEF AccountsInv
<1> QED BY <1>3, <1>4 DEF CommitDeparture

(* The retention policy and its preview. *)
LEMMA PolicyKeeps ==
    ASSUME AccountsInv, SavePolicy \/ DisablePolicy \/ ReadPreview
    PROVE  AccountsInv' /\ ErasureStep
<1>1. UNCHANGED <<user, session, login, departure, numberOf, today>>
  BY DEF SavePolicy, DisablePolicy, ReadPreview
<1>2. /\ policy \in [version : 0..MaxPolicies, enabled : BOOLEAN]
      /\ preview \in [version : 0..MaxPolicies, candidates : SUBSET Accounts]
  BY DEF AccountsInv, AccountsTypeOK
<1>3. /\ policy' \in [version : 0..MaxPolicies, enabled : BOOLEAN]
      /\ preview' \in [version : 0..MaxPolicies, candidates : SUBSET Accounts]
      /\ PolicyInv'
  <2>1. CASE SavePolicy
    <3>1. policy' = [version |-> policy.version + 1, enabled |-> FALSE] /\ preview' = preview
          /\ policy.version < MaxPolicies
      BY <2>1 DEF SavePolicy
    <3>2. policy.version + 1 \in 0..MaxPolicies
      BY <1>2, <3>1, Bounds
    <3> QED BY <1>2, <3>1, <3>2 DEF PolicyInv
  <2>2. CASE DisablePolicy
    <3>1. policy' = [policy EXCEPT !.enabled = FALSE] /\ preview' = preview
      BY <2>2 DEF DisablePolicy
    <3> QED BY <1>2, <3>1 DEF PolicyInv
  <2>3. CASE ReadPreview
    <3>1. policy' = policy /\ preview' = [version |-> policy.version, candidates |-> Candidates]
      BY <2>3 DEF ReadPreview
    <3>2. Candidates \subseteq Accounts
      BY DEF Candidates, Rows
    <3> QED BY <1>2, <3>1, <3>2 DEF PolicyInv, AccountsInv
  <2> QED BY <2>1, <2>2, <2>3
<1>4. AccountsTypeOK'
  BY <1>1, <1>3 DEF AccountsInv, AccountsTypeOK
<1>5. /\ OneAccountEach' /\ AccountRowsInv' /\ LoginsInv' /\ HeldInv' /\ DeparturesInv' /\ NumbersInv'
  BY <1>1 DEF AccountsInv, OneAccountEach, Rows, AccountRowsInv, LoginsInv, HeldInv, DeparturesInv, NumbersInv
<1>6. ErasureStep
  BY <1>1 DEF ErasureStep
<1> QED BY <1>3, <1>4, <1>5, <1>6 DEF AccountsInv

(* The erasure of every candidate, approved or scheduled: none of them is the *)
(* account of a login under way, for they left before today.                  *)
LEMMA ErasureKeeps ==
    ASSUME AccountsInv, Anonymize(Candidates), policy.version > 0,
           preview.version = policy.version,
           \/ policy' = policy
           \/ policy' = [policy EXCEPT !.enabled = TRUE],
           UNCHANGED <<login, departure, preview, numberOf, today>>
    PROVE  AccountsInv' /\ ErasureStep
<1>1. /\ user' = [a \in Accounts |->
            IF a \in Candidates THEN [user[a] EXCEPT !.anonymized = TRUE, !.riro = Nobody, !.number = Anon]
            ELSE user[a]]
      /\ session' = {s \in session : s.owner \notin Candidates}
  BY DEF Anonymize
<1>2. /\ user \in [Accounts -> Row] /\ session \subseteq Session /\ today \in 0..LastAccountDay
      /\ policy \in [version : 0..MaxPolicies, enabled : BOOLEAN]
      /\ numberOf \in [People -> Numbers]
  BY DEF AccountsInv, AccountsTypeOK
<1>3. IdentityDays \in Nat \ {0} /\ LastAccountDay \in Nat /\ {Relinked, Anon} \cap Numbers = {}
  BY SessionsAssumption DEF SessionsAssumption, Relinked, Anon
<1>4. \A a \in Candidates :
        /\ a \in Accounts /\ user[a].row /\ ~user[a].anonymized /\ user[a].departed # Never
        /\ user[a].departed + IdentityDays <= today
  BY DEF Candidates, Rows
<1>5. \A a \in Candidates : user[a].departed \in Int /\ user[a].departed # today
  <2> SUFFICES ASSUME NEW a \in Candidates PROVE user[a].departed \in Int /\ user[a].departed # today
    OBVIOUS
  <2>1. user[a] \in Row
    BY <1>2, <1>4
  <2>2. user[a].departed \in Int
    BY <1>3, <2>1 DEF Row, Never
  <2> QED BY <1>2, <1>3, <1>4, <2>2
<1>6. \A a \in Candidates :
        /\ user'[a].row /\ user'[a].riro = Nobody /\ user'[a].number = Anon
        /\ user'[a].departed = user[a].departed /\ user'[a].anonymized
        /\ user'[a] \in Row
  <2> SUFFICES ASSUME NEW a \in Candidates
               PROVE /\ user'[a].row /\ user'[a].riro = Nobody /\ user'[a].number = Anon
                     /\ user'[a].departed = user[a].departed /\ user'[a].anonymized
                     /\ user'[a] \in Row
    OBVIOUS
  <2>1. user[a] \in Row /\ user[a].row
    BY <1>2, <1>4
  <2>2. user'[a] = [user[a] EXCEPT !.anonymized = TRUE, !.riro = Nobody, !.number = Anon]
    BY <1>1, <1>4
  <2>3. /\ user'[a].row = user[a].row /\ user'[a].riro = Nobody /\ user'[a].number = Anon
        /\ user'[a].departed = user[a].departed /\ user'[a].anonymized = TRUE
    BY <2>1, <2>2 DEF Row
  <2>4. user'[a] \in Row
    BY <2>1, <2>2 DEF Row
  <2> QED BY <2>1, <2>3, <2>4
<1>7. \A a \in Accounts \ Candidates : user'[a] = user[a]
  BY <1>1
<1> HIDE DEF Candidates
<1>8. user' \in [Accounts -> Row]
  <2>1. ASSUME NEW a \in Accounts PROVE user'[a] \in Row
    <3>1. user[a] \in Row
      BY <1>2
    <3>2. CASE a \in Candidates
      BY <1>6, <3>2
    <3> QED BY <1>7, <3>1, <3>2
  <2> QED BY <1>1, <2>1
<1>9. policy' \in [version : 0..MaxPolicies, enabled : BOOLEAN] /\ policy'.version = policy.version
  BY <1>2
<1>10. AccountsTypeOK'
  BY <1>1, <1>8, <1>9 DEF AccountsInv, AccountsTypeOK
<1>11. OneAccountEach'
  <2> SUFFICES ASSUME NEW b \in Accounts, NEW c \in Accounts, b # c,
                      user'[b].row, user'[c].row
               PROVE  /\ user'[b].riro = user'[c].riro => user'[b].riro = Nobody
                      /\ user'[b].number = user'[c].number => user'[b].number \in {Relinked, Anon}
    BY DEF OneAccountEach, Rows
  <2>1. user[b].row /\ user[c].row =>
          /\ user[b].riro = user[c].riro => user[b].riro = Nobody
          /\ user[b].number = user[c].number => user[b].number \in {Relinked, Anon}
    BY DEF AccountsInv, OneAccountEach, Rows
  <2>2. CASE b \in Candidates
    BY <1>6, <2>2
  <2>3. CASE c \in Candidates
    BY <1>6, <2>3
  <2>4. CASE b \notin Candidates /\ c \notin Candidates
    BY <1>7, <2>1, <2>4
  <2> QED BY <2>2, <2>3, <2>4
<1>12. AccountRowsInv'
  <2> SUFFICES ASSUME NEW b \in Accounts
               PROVE  /\ ~user'[b].row => user'[b] = NoAccountRow
                      /\ user'[b].departed <= today
                      /\ user'[b].anonymized =>
                           user'[b].row /\ user'[b].riro = Nobody /\ user'[b].number = Anon /\ user'[b].departed # Never
    BY DEF AccountRowsInv
  <2>1. user[b].departed <= today
    BY DEF AccountsInv, AccountRowsInv
  <2>2. CASE b \in Candidates
    BY <1>4, <1>6, <2>1, <2>2
  <2>3. CASE b \notin Candidates
    BY <1>7, <2>3 DEF AccountsInv, AccountRowsInv
  <2> QED BY <2>2, <2>3
<1>13. LoginsInv'
  <2>1. \A r \in Requests : login[r].pc = "persisted" => login[r].account \in Accounts \ Candidates
    BY <1>4, <1>5 DEF AccountsInv, LoginsInv
  <2>2. \A r \in Requests : login[r].pc = "persisted" => user'[login[r].account] = user[login[r].account]
    BY <1>7, <2>1
  <2> QED BY <1>1, <2>2 DEF AccountsInv, LoginsInv
<1>14. HeldInv'
  <2>1. \A s \in session' : s \in session /\ s.owner \in Accounts \ Candidates
    BY <1>1, <1>2 DEF Session
  <2>2. \A s \in session' : user'[s.owner] = user[s.owner]
    BY <1>7, <2>1
  <2> QED BY <2>1, <2>2 DEF AccountsInv, HeldInv
<1>15. DeparturesInv'
  <2>1. \A a \in Accounts : user[a].row => user'[a].row
    BY <1>6, <1>7
  <2> QED BY <2>1 DEF AccountsInv, DeparturesInv
<1>16. NumbersInv'
  <2>1. ASSUME ~ReusesNumbers, NEW b \in Accounts, user'[b].row, NEW q \in People, user'[b].number = numberOf[q]
        PROVE  user'[b].riro \in {q, Nobody}
    <3>1. CASE b \in Candidates
      BY <1>6, <3>1
    <3>2. CASE b \notin Candidates
      BY <1>7, <2>1, <3>2 DEF AccountsInv, NumbersInv, Rows
    <3> QED BY <3>1, <3>2
  <2> QED BY <2>1 DEF AccountsInv, NumbersInv, Rows
<1>17. PolicyInv'
  BY <1>9 DEF PolicyInv
<1>18. ErasureStep
  BY <1>4, <1>7 DEF ErasureStep
<1> QED BY <1>10, <1>11, <1>12, <1>13, <1>14, <1>15, <1>16, <1>17, <1>18 DEF AccountsInv

(* A new day, a new number. *)
LEMMA CalendarKeeps ==
    ASSUME AccountsInv, Midnight \/ \E p \in People : Renumber(p)
    PROVE  AccountsInv' /\ ErasureStep
<1>1. CASE Midnight
  <2>1. /\ today' = today + 1 /\ today < LastAccountDay
        /\ \A r \in Requests : login[r].pc = "idle"
        /\ UNCHANGED <<user, session, login, departure, policy, preview, numberOf>>
    BY <1>1 DEF Midnight
  <2>2. today \in 0..LastAccountDay /\ LastAccountDay \in Nat /\ user \in [Accounts -> Row] /\ session \subseteq Session
    BY SessionsAssumption DEF SessionsAssumption, AccountsInv, AccountsTypeOK
  <2>3. today' \in 0..LastAccountDay
    BY <2>1, <2>2
  <2>4. AccountsTypeOK'
    BY <2>1, <2>3 DEF AccountsInv, AccountsTypeOK
  <2>5. AccountRowsInv'
    <3>1. \A a \in Accounts : user[a].departed \in Int
      BY <2>2 DEF Row, Never
    <3>2. \A a \in Accounts : user[a].departed <= today'
      BY <2>1, <2>2, <3>1 DEF AccountsInv, AccountRowsInv
    <3> QED BY <2>1, <3>2 DEF AccountsInv, AccountRowsInv
  <2>6. LoginsInv'
    BY <2>1 DEF AccountsInv, LoginsInv
  <2>7. HeldInv'
    <3>1. \A s \in session : s.opened \in Int
      BY <2>2 DEF Session
    <3>2. \A s \in session : s.opened <= today'
      BY <2>1, <2>2, <3>1 DEF AccountsInv, HeldInv
    <3> QED BY <2>1, <3>2 DEF AccountsInv, HeldInv
  <2>8. OneAccountEach' /\ DeparturesInv' /\ NumbersInv' /\ PolicyInv'
    BY <2>1 DEF AccountsInv, OneAccountEach, Rows, DeparturesInv, NumbersInv, PolicyInv
  <2>9. ErasureStep
    BY <2>1 DEF ErasureStep
  <2> QED BY <2>4, <2>5, <2>6, <2>7, <2>8, <2>9 DEF AccountsInv
<1>2. ASSUME NEW p \in People, Renumber(p) PROVE AccountsInv' /\ ErasureStep
  <2>1. PICK n \in Numbers :
          /\ \A q \in People : numberOf[q] # n
          /\ ReusesNumbers \/ \A a \in WithNumber(n) : user[a].riro \in {p, Nobody}
          /\ numberOf' = [numberOf EXCEPT ![p] = n]
    BY <1>2 DEF Renumber
  <2>2. UNCHANGED <<user, session, login, departure, policy, preview, today>>
    BY <1>2 DEF Renumber
  <2>3. numberOf \in [People -> Numbers]
    BY DEF AccountsInv, AccountsTypeOK
  <2>4. numberOf'[p] = n /\ \A q \in People \ {p} : numberOf'[q] = numberOf[q]
    BY <2>1, <2>3
  <2>5. numberOf' \in [People -> Numbers]
    BY <2>1, <2>3
  <2>6. AccountsTypeOK'
    BY <2>2, <2>5 DEF AccountsInv, AccountsTypeOK
  <2>7. NumbersInv'
    <3>1. \A q, u \in People : q # u => numberOf'[q] # numberOf'[u]
      BY <2>1, <2>4 DEF AccountsInv, NumbersInv
    <3>2. ASSUME ~ReusesNumbers, NEW a \in Rows, NEW q \in People, user[a].number = numberOf'[q]
          PROVE  user[a].riro \in {q, Nobody}
      <4>1. CASE q = p
        BY <2>1, <2>4, <3>2, <4>1 DEF WithNumber
      <4>2. CASE q # p
        BY <2>4, <3>2, <4>2 DEF AccountsInv, NumbersInv
      <4> QED BY <4>1, <4>2
    <3> QED BY <2>2, <3>1, <3>2 DEF NumbersInv, Rows
  <2>8. /\ OneAccountEach' /\ AccountRowsInv' /\ LoginsInv' /\ HeldInv' /\ DeparturesInv' /\ PolicyInv'
    BY <2>2 DEF AccountsInv, OneAccountEach, Rows, AccountRowsInv, LoginsInv, HeldInv, DeparturesInv, PolicyInv
  <2>9. ErasureStep
    BY <2>2 DEF ErasureStep
  <2> QED BY <2>6, <2>7, <2>8, <2>9 DEF AccountsInv
<1> QED BY <1>1, <1>2

(* Every step. *)
LEMMA AccountsStep ==
    ASSUME AccountsInv, AccountsNext
    PROVE  AccountsInv' /\ ErasureStep
<1>1. ASSUME NEW r \in Requests, NEW p \in People, Persist(r, p) PROVE AccountsInv' /\ ErasureStep
  BY <1>1, PersistKeeps
<1>2. ASSUME NEW r \in Requests, CreateSession(r) PROVE AccountsInv' /\ ErasureStep
  BY <1>2, CreateSessionKeeps
<1>3. ASSUME NEW r \in Requests, LoginDies(r) PROVE AccountsInv' /\ ErasureStep
  BY <1>3, FewerSessionsKeep DEF LoginDies
<1>4. ASSUME NEW s \in session, Logout(s) PROVE AccountsInv' /\ ErasureStep
  BY <1>4, FewerSessionsKeep DEF Logout
<1>5. CASE DeleteExpiredSessions
  BY <1>5, FewerSessionsKeep DEF DeleteExpiredSessions
<1>6. CASE Administration
  <2>1. ASSUME NEW a \in Accounts, RevokeSessions(a) PROVE AccountsInv' /\ ErasureStep
    BY <2>1, FewerSessionsKeep DEF RevokeSessions
  <2>2. ASSUME NEW d \in Desks, NEW kind \in {"mark", "clear"}, NEW a \in Accounts, BeginDeparture(d, kind, a)
        PROVE  AccountsInv' /\ ErasureStep
    <3> DEFINE taken == [kind |-> kind, target |-> a, read |-> user[a], sessions |-> SessionsOf(a)]
    <3>1. /\ departure' = [departure EXCEPT ![d] = taken] /\ a \in Rows
          /\ UNCHANGED <<user, session, login, policy, preview, numberOf, today>>
      BY <2>2 DEF BeginDeparture
    <3>2. user[a] \in Row /\ SessionsOf(a) \in SUBSET Session
      BY DEF AccountsInv, AccountsTypeOK, SessionsOf
    <3>3. taken \in Departures /\ taken.target = a
      BY <3>2 DEF Departures
    <3> QED BY <3>1, <3>3, SnapshotsKeep
  <2>3. ASSUME NEW d \in Desks, CommitDeparture(d) PROVE AccountsInv' /\ ErasureStep
    BY <2>3, DepartureKeeps
  <2>4. ASSUME NEW d \in Desks, RetryDeparture(d) PROVE AccountsInv' /\ ErasureStep
    <3> DEFINE a == departure[d].target
               again == [departure[d] EXCEPT !.read = user[a], !.sessions = SessionsOf(a)]
    <3>1. /\ departure[d].kind # "none"
          /\ UNCHANGED <<user, session, login, policy, preview, numberOf, today>>
          /\ \E next \in {NoDeparture, again} : departure' = [departure EXCEPT ![d] = next]
      BY <2>4 DEF RetryDeparture
    <3>2. departure[d] \in Departures /\ a \in Rows
      BY <3>1 DEF AccountsInv, DeparturesInv, Rows
    <3>3. user[a] \in Row /\ SessionsOf(a) \in SUBSET Session
      BY <3>2 DEF AccountsInv, AccountsTypeOK, SessionsOf, Rows
    <3>4. again \in Departures
      BY <3>2, <3>3 DEF Departures
    <3>5. again.target = a
      BY <3>2 DEF Departures
    <3> HIDE DEF again
    <3>6. PICK next \in {NoDeparture, again} : departure' = [departure EXCEPT ![d] = next]
      BY <3>1
    <3>7. next \in Departures /\ (next.kind # "none" => next.target \in Rows)
      BY <3>2, <3>4, <3>5, NoDepartureIsNone
    <3> QED BY <3>1, <3>6, <3>7, SnapshotsKeep
  <2>5. CASE SavePolicy \/ DisablePolicy \/ ReadPreview
    BY <2>5, PolicyKeeps
  <2>6. CASE ApplyApproved
    <3>1. /\ Anonymize(Candidates) /\ policy.version > 0 /\ preview.version = policy.version
          /\ policy' = [policy EXCEPT !.enabled = TRUE]
          /\ UNCHANGED <<login, departure, preview, numberOf, today>>
      BY <2>6 DEF ApplyApproved
    <3> QED BY <3>1, ErasureKeeps
  <2>7. CASE ApplyScheduled
    <3>1. /\ Anonymize(Candidates) /\ policy.version > 0 /\ policy.enabled
          /\ UNCHANGED <<login, departure, policy, preview, numberOf, today>>
      BY <2>7 DEF ApplyScheduled
    <3>2. preview.version = policy.version
      BY <3>1 DEF AccountsInv, PolicyInv
    <3> QED BY <3>1, <3>2, ErasureKeeps
  <2> QED BY <1>6, <2>1, <2>2, <2>3, <2>4, <2>5, <2>6, <2>7 DEF Administration
<1>7. CASE Midnight \/ \E p \in People : Renumber(p)
  BY <1>7, CalendarKeeps
<1> QED BY <1>1, <1>2, <1>3, <1>4, <1>5, <1>6, <1>7 DEF AccountsNext

(* The invariant of accounts, logins and sessions: one account for a portal *)
(* id and for a number, sessions of accounts that stand.                    *)
THEOREM AccountsAreSound == AccountsSpec => []AccountsInv
<1>1. AccountsInv /\ [AccountsNext]_accountVars => AccountsInv'
  <2> SUFFICES ASSUME AccountsInv, UNCHANGED accountVars PROVE AccountsInv'
    BY AccountsStep
  <2> QED
    BY DEF accountVars, AccountsInv, AccountsTypeOK, OneAccountEach, AccountRowsInv, LoginsInv,
           HeldInv, DeparturesInv, NumbersInv, PolicyInv, Rows
<1> QED BY AccountsStart, <1>1, PTL DEF AccountsSpec

(* What the invariant and the steps say of the checked properties. *)
LEMMA AccountsInvImplies ==
    ASSUME AccountsInv
    PROVE  AccountsTypeOK /\ OneAccountEach /\ DepartedStayOut /\ (~ReusesNumbers => SessionsAreTheirPersons)
BY DEF AccountsInv, HeldInv, DepartedStayOut, SessionsAreTheirPersons

(* An account once erased stays erased, without a session. *)
LEMMA ErasedStays ==
    ASSUME AccountsInv', ErasureStep
    PROVE  \A a \in Accounts : user[a].anonymized => user'[a] = user[a] /\ \A s \in session' : s.owner # a
BY DEF AccountsInv, HeldInv, ErasureStep

(* An erasure happens under the version last shown. *)
LEMMA ErasedAsShown ==
    ASSUME ErasureStep
    PROVE  (\E a \in Accounts : ~user[a].anonymized /\ user'[a].anonymized)
             => preview.version > 0 /\ policy.version = preview.version
BY DEF ErasureStep

(* Accounts and sessions are kept: the logins, departures, retention runs   *)
(* and revocations of any number of people, in any order.                   *)
THEOREM AccountsKept == AccountsSpec => AccountsAreKept
<1>1. AccountsSpec => [](AccountsTypeOK /\ OneAccountEach /\ DepartedStayOut
                         /\ (~ReusesNumbers => SessionsAreTheirPersons))
  BY AccountsAreSound, AccountsInvImplies, PTL
<1>2. AccountsInv /\ AccountsInv' /\ [AccountsNext]_accountVars =>
        [\A a \in Accounts : user[a].anonymized =>
           /\ user'[a] = user[a]
           /\ \A s \in session' : s.owner # a]_accountVars
  BY AccountsStep, ErasedStays
<1>3. AccountsInv /\ [AccountsNext]_accountVars =>
        [(\E a \in Accounts : ~user[a].anonymized /\ user'[a].anonymized)
           => preview.version > 0 /\ policy.version = preview.version]_accountVars
  BY AccountsStep, ErasedAsShown
<1>4. AccountsSpec => ErasureIsFinal
  BY AccountsAreSound, <1>2, PTL DEF AccountsSpec, ErasureIsFinal
<1>5. AccountsSpec => ErasureWasShown
  BY AccountsAreSound, <1>3, PTL DEF AccountsSpec, ErasureWasShown
<1> QED BY <1>1, <1>4, <1>5 DEF AccountsAreKept
=============================================================================
