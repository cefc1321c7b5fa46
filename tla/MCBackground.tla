---------------------------- MODULE MCBackground ----------------------------
(* Work that schedules, leases and timers drive, in one run.  A behaviour is  *)
(* one of one part, its focus; the others stay as they began, so that the     *)
(* states add up and do not multiply.  The properties are those of the parts' *)
(* own modules, and the fairness is theirs too, each for the part in focus.   *)
EXTENDS OperationsBoard, DiscordMessageReview, OperationalJobs, ClosedListNotices,
        HarnessCleanup

VARIABLE focus
parts == {"board", "harness", "jobs", "notices", "review"}

MCRoutes == {Jobs}

MCInit ==
    /\ focus \in parts
    /\ BoardInit /\ JobsInit /\ NoticeInit
    /\ HarnessInit /\ (focus # "harness" => receipt = "none")
    /\ ReviewInit /\ (focus # "review" => channel = <<>> /\ ~flying /\ letter = NoLetter)

-----------------------------------------------------------------------------
Still(part, theirs) == focus # part => UNCHANGED theirs

Others ==
    /\ UNCHANGED focus
    /\ Still("board", boardVars) /\ Still("harness", harnessVars) /\ Still("jobs", jobVars)
    /\ Still("notices", noticeVars) /\ Still("review", reviewVars)

MCNext ==
    \/ focus = "board" /\ BoardNext /\ Others
    \/ focus = "harness" /\ HarnessNext /\ Others
    \/ focus = "jobs" /\ JobsNext /\ Others
    \/ focus = "notices" /\ NoticeNext /\ Others
    \/ focus = "review" /\ ReviewNext /\ Others

-----------------------------------------------------------------------------
(* BoardFairness, JobsFairness, ... under the focus. *)

MCFairness ==
    /\ \A w \in BoardWorkers : WF_boardVars(focus = "board" /\ SyncStep(w))
    /\ WF_boardVars(focus = "board" /\ MinutePasses)
    /\ SF_boardVars(focus = "board" /\ \E w \in BoardWorkers : CronSync(w))
    /\ \A c \in Cleaners : WF_reviewVars(focus = "review" /\ Cleans(c))
    /\ WF_reviewVars(focus = "review" /\ OutboxSettles)
    /\ \A route \in Routes : SF_jobVars(focus = "jobs" /\ \E c \in Calls : CallRoute(c, route))
    /\ \A c \in Calls : WF_jobVars(focus = "jobs" /\ CallAnswers(c))
    /\ \A c \in Calls, j \in Jobs : WF_jobVars(focus = "jobs" /\ RunStep(c, j))
    /\ \A j \in Jobs : WF_jobVars(focus = "jobs" /\ TimePasses(j))
    /\ \A s \in Senders : WF_noticeVars(focus = "notices" /\ SenderStep(s))
    /\ WF_noticeVars(focus = "notices" /\ TenMinutesPass)
    /\ SF_noticeVars(focus = "notices" /\ \E s \in Senders : CronLooks(s))
    /\ \A p \in Processes :
         /\ WF_harnessVars(focus = "harness" /\ BeginWork(p))
         /\ WF_harnessVars(focus = "harness" /\ Spawn(p))
         /\ WF_harnessVars(focus = "harness" /\ WorkSucceeds(p))
         /\ WF_harnessVars(focus = "harness" /\ WorkIsKilled(p))
         /\ WF_harnessVars(focus = "harness" /\ StopOne(p))
    /\ WF_harnessVars(focus = "harness" /\ StageEnds)
    /\ WF_harnessVars(focus = "harness" /\ GiveUpWaiting)
    /\ WF_harnessVars(focus = "harness" /\ OperationEnds)
    /\ WF_harnessVars(focus = "harness" /\ BeginStop)
    /\ WF_harnessVars(focus = "harness" /\ StopEnds)
    /\ WF_harnessVars(focus = "harness" /\ LookForProcesses)
    /\ WF_harnessVars(focus = "harness" /\ RemoveRoot)
    /\ WF_harnessVars(focus = "harness" /\ CheckPort)
    /\ WF_harnessVars(focus = "harness" /\ WriteReceipt)

MCSpec ==
    /\ MCInit
    /\ [][MCNext]_<<focus, boardVars, harnessVars, jobVars, noticeVars, reviewVars>>
    /\ MCFairness

-----------------------------------------------------------------------------
(* Little at a time: a site that changed twice has a board without faults or *)
(* the other way round; a message lags, a call of its review fails or the     *)
(* fence moves.                                                               *)
MCBound ==
    /\ siteVersion + boardFaults <= 2
    /\ letter.lag + reviewFaults + gate.epoch <= 1

-----------------------------------------------------------------------------
(* What timers start ends: a job that hung is started again, and a process   *)
(* that the harness gave up dies.                                            *)
WorkEnds == JobsComeBack /\ NothingIsLeftRunning
=============================================================================
