------------------------ MODULE DiscordAdminCommands ------------------------
(***************************************************************************)
(* Commands that administrators type in the operations channel.             *)
(*                                                                         *)
(* A command that needs no reason is staged as a job and activated by the   *)
(* request that carries it.  One that needs a reason leaves a draft and is  *)
(* answered with a form; the form that is submitted attaches the reason to  *)
(* the draft and activates it.  The request has a second and a half for its *)
(* answer; what it prepares after that goes on all the same.  A run (the    *)
(* one after the answer, or cron) claims jobs, executes them, records their *)
(* results and then delivers the recorded results to the channel.  No       *)
(* receipt is kept: a job that is claimed again is executed again.          *)
(*                                                                         *)
(* Every step is one transaction or one HTTP call.  Time is reduced to what *)
(* is compared with it, as in DiscordInteractionJobs; a claim is named by   *)
(* the attempt it started.  Commands that only read, texts and audit rows   *)
(* are left out.                                                            *)
(***************************************************************************)
EXTENDS Naturals, FiniteSets

CONSTANTS Sources,      \* interactions that carry a command
          AdminRequests,
          Scripts,      \* what the requests may carry: functions to CarriedInteractions
          LeftToCron,   \* jobs activated before, whose own runs met a closed fence
          Cron,         \* cron runs
          Seats,        \* reservations of the period, numbered in the order of their users
          MaxAttempts,  \* of a job, and of the delivery of its result (8 in the code)
          MaxFaults     \* bound: stopped runs, lost or failed calls and lapsed claims in all

None == "none"
Reasons == {"first", "second"}
Intents == {"create", "cancel", "bulk_cancel", "restrict"}
CarriedInteractions ==
    [kind   : {"command", "reason_submit"},
     source : Sources,                \* of the command, or of the draft the form is for
     id     : AdminRequests,          \* the interaction itself; repeated when delivered again
     intent : Intents,
     reason : Reasons \cup {None}]

ASSUME AdminCommandAssumption ==
    /\ Scripts \subseteq [AdminRequests -> CarriedInteractions]
    /\ \A s \in Scripts : \A q, r \in AdminRequests :
          /\ s[q].id = s[r].id => s[q] = s[r]   \* what is delivered again is the same
          /\ s[q].kind = "command" /\ s[r].kind = "command" /\ s[q].source = s[r].source => s[q] = s[r]
          /\ IF s[r].kind = "command" THEN s[r].reason = None ELSE s[r].intent # "create"
    /\ LeftToCron \subseteq Sources
    /\ AdminRequests \cap Cron = {}
    /\ Seats \subseteq Nat /\ IsFiniteSet(Seats) /\ 1 \in Seats
    /\ MaxAttempts \in Nat \ {0} /\ MaxFaults \in Nat

VARIABLES script,   \* request -> the interaction it carries
          asked,    \* request -> where its route handler is
          command,  \* source -> its DiscordAdminCommandJob
          run,      \* run -> where it is
          seat,     \* reservation -> Reservation.status
          effects,  \* history: source -> how many changes its executions made
          shown,    \* history: source -> the results that appeared in Discord, counted
          enabled,  \* DiscordOperationsControl.enabled
          faults

adminVars == <<script, asked, command, run, seat, effects, shown, enabled, faults>>

Runs == AdminRequests \cup Cron
Tries == 0 .. MaxAttempts + MaxFaults
Ended == {"SUCCEEDED", "STALE", "ABANDONED"}

AdminResults == [outcome : {"success", "stale", "failure"}, changes : 0 .. Cardinality(Seats)]
Result(outcome, changes) == [outcome |-> outcome, changes |-> changes]
Only(outcome) == Result(outcome, 0)
NoResult == Only(None)

NoCommand == [status |-> None, handshake |-> None, execution |-> None, staged |-> None,
              reason |-> None, intent |-> None, attempts |-> 0, result |-> NoResult,
              delivery |-> None, deliveries |-> 0]
CommandRows == [status : {"DRAFT", "PENDING", "RETRY", "PROCESSING"} \cup Ended,
                handshake : {"AWAITING_REASON", "STAGED", "ACKNOWLEDGED"},
                execution : AdminRequests \cup {None}, staged : AdminRequests \cup {None},
                reason : Reasons \cup {None}, intent : Intents, attempts : Tries,
                result : AdminResults \cup {NoResult},
                delivery : {None, "PENDING", "RETRY", "SENDING", "SENT", "FAILED"},
                deliveries : Tries]

NoRun == [phase |-> "resting", claims |-> [j \in {} |-> 0], current |-> None,
          todo |-> {}, done |-> 0, outcome |-> NoResult]
RunStates == [phase : {"resting", "picking", "executing", "finishing", "delivering", "sending",
                       "noting", "over"},
              claims : UNION {[S -> Tries] : S \in SUBSET Sources},
              current : Sources \cup {None},
              todo : SUBSET Seats, done : 0 .. Cardinality(Seats),
              outcome : AdminResults \cup {NoResult, Only("retry"), Only("sent"), Only("failed")}]

AdminTypeOK ==
    /\ script \in Scripts
    /\ asked \in [AdminRequests -> [step   : {"preparing", "activating", "job", "over"},
                                    timer  : BOOLEAN,
                                    answer : {None, "modal", "deferred", "error"}]]
    /\ command \in [Sources -> CommandRows \cup {NoCommand}]
    /\ run \in [Runs -> RunStates]
    /\ seat \in [Seats -> {"NONE", "CONFIRMED", "CANCELLED"}]
    /\ effects \in [Sources -> Nat]
    /\ shown \in [Sources -> [AdminResults -> Nat]]
    /\ enabled \in BOOLEAN
    /\ faults \in 0 .. MaxFaults

EarlyRequest(r) == script[r].source \in LeftToCron /\ script[r].intent = "create"
EarlyRow(r) == [NoCommand EXCEPT !.status = "PENDING", !.handshake = "ACKNOWLEDGED",
                                 !.execution = script[r].id, !.intent = script[r].intent]

AdminInit ==
    /\ script \in Scripts
    /\ asked = [r \in AdminRequests |->
           IF EarlyRequest(r) THEN [step |-> "job", timer |-> FALSE, answer |-> "deferred"]
           ELSE [step |-> "preparing", timer |-> FALSE, answer |-> None]]
    /\ command = [j \in Sources |->
           IF \E r \in AdminRequests : EarlyRequest(r) /\ script[r].source = j
           THEN EarlyRow(CHOOSE r \in AdminRequests : EarlyRequest(r) /\ script[r].source = j)
           ELSE NoCommand]
    /\ run = [w \in Runs |-> IF w \in AdminRequests /\ EarlyRequest(w)
                             THEN [NoRun EXCEPT !.phase = "over"] ELSE NoRun]
    /\ seat = [s \in Seats |->   \* only what the script is about
           IF \E r \in AdminRequests : script[r].intent = "bulk_cancel" THEN "CONFIRMED" ELSE "NONE"]
    /\ effects = [j \in Sources |-> 0]
    /\ shown = [j \in Sources |-> [x \in AdminResults |-> 0]]
    /\ enabled = TRUE /\ faults = 0

Faulty == faults < MaxFaults /\ faults' = faults + 1

-----------------------------------------------------------------------------
(* The request: prepareDiscordAdminInteraction and the timer beside it.     *)
NeedsReason(intent) == intent \in {"cancel", "bulk_cancel", "restrict"}

Handles(r, step) == asked[r].step = step
Ends(r, step, answer) ==   \* an answer that the timer has given already stays
    asked' = [asked EXCEPT ![r].step = step, ![r].answer = IF @ = None THEN answer ELSE @]
WriteCommand(j, row) == command' = [command EXCEPT ![j] = row]

StageReasonDraft(r) ==
    LET j == script[r].source
    IN \/ /\ command[j] = NoCommand
          /\ WriteCommand(j, [NoCommand EXCEPT !.status = "DRAFT", !.handshake = "AWAITING_REASON",
                                               !.intent = script[r].intent])
          /\ Ends(r, "over", "modal")
       \/ /\ command[j] # NoCommand   \* delivered again
          /\ Ends(r, "over", IF command[j].status = "DRAFT" THEN "modal" ELSE "error")
          /\ UNCHANGED command

StagedBy(r, row) ==
    [row EXCEPT !.status = "PENDING", !.handshake = "STAGED", !.intent = script[r].intent,
                !.execution = script[r].id, !.staged = r, !.reason = script[r].reason]

StageCommand(r) ==
    LET j == script[r].source
    IN /\ asked' = [asked EXCEPT ![r].step = "activating"]
       /\ IF command[j] = NoCommand
          THEN WriteCommand(j, StagedBy(r, NoCommand))
          ELSE UNCHANGED command   \* delivered again

Attachable(j) == command[j].status = "DRAFT" /\ command[j].execution = None

AttachReason(r) ==
    LET j == script[r].source
    IN IF command[j] # NoCommand /\ Attachable(j)
       THEN /\ WriteCommand(j, StagedBy(r, command[j]))
            /\ asked' = [asked EXCEPT ![r].step = "activating"]
       ELSE /\ UNCHANGED command
            /\ IF command[j] # NoCommand /\ command[j].execution = script[r].id
               THEN asked' = [asked EXCEPT ![r].step = "activating"]   \* delivered again
               ELSE Ends(r, "over", "error")

Arrives(r) ==   \* a form is there to be submitted once a draft was answered with it
    script[r].kind = "reason_submit" =>
        \E q \in AdminRequests : asked[q].answer = "modal" /\ script[q].source = script[r].source

Prepare(r) ==
    /\ Handles(r, "preparing") /\ Arrives(r)
    /\ \/ Ends(r, "over", "error") /\ UNCHANGED command   \* not authorized, or expired
       \/ /\ script[r].kind = "command"
          /\ IF NeedsReason(script[r].intent) THEN StageReasonDraft(r) ELSE StageCommand(r)
       \/ script[r].kind = "reason_submit" /\ AttachReason(r)
    /\ UNCHANGED <<script, run, seat, effects, shown, enabled, faults>>

(* The job's activation deadline is never later than the timer of the       *)
(* request that staged it.                                                  *)
Activate(r) ==
    /\ Handles(r, "activating")
    /\ LET j == script[r].source
           mine == command[j].execution = script[r].id
       IN \/ /\ mine /\ command[j].handshake = "STAGED" /\ ~asked[command[j].staged].timer
             /\ WriteCommand(j, [command[j] EXCEPT !.handshake = "ACKNOWLEDGED", !.staged = None])
             /\ Ends(r, "job", "deferred")
          \/ /\ UNCHANGED command   \* too late, or activated before
             /\ IF mine /\ command[j].handshake = "ACKNOWLEDGED" /\ command[j].status = "PENDING"
                THEN Ends(r, "job", "deferred") ELSE Ends(r, "over", "error")
    /\ UNCHANGED <<script, run, seat, effects, shown, enabled, faults>>

PreparationFails(r) ==   \* the database does not answer; an activation may have been made
    /\ asked[r].step \in {"preparing", "activating"} /\ Arrives(r) /\ Faulty
    /\ \/ UNCHANGED command
       \/ /\ Handles(r, "activating")
          /\ LET j == script[r].source
             IN /\ command[j].execution = script[r].id /\ command[j].handshake = "STAGED"
                /\ ~asked[command[j].staged].timer
                /\ WriteCommand(j, [command[j] EXCEPT !.handshake = "ACKNOWLEDGED", !.staged = None])
    /\ Ends(r, "over", "error")
    /\ UNCHANGED <<script, run, seat, effects, shown, enabled>>

TimesOut(r) ==
    /\ asked[r].step \in {"preparing", "activating"} /\ ~asked[r].timer /\ Arrives(r)
    /\ asked' = [asked EXCEPT ![r].timer = TRUE, ![r].answer = "error"]
    /\ UNCHANGED <<script, command, run, seat, effects, shown, enabled, faults>>

-----------------------------------------------------------------------------
(* The runner of jobs.                                                      *)
Becomes(w, state) == run' = [run EXCEPT ![w] = state]
At(w, phase) == run[w].phase = phase
HoldsJob(w, j) == j \in DOMAIN run[w].claims /\ run[w].claims[j] = command[j].attempts
                  /\ run[w].phase \in {"picking", "executing", "finishing"}
HoldsDelivery(w, j) == j \in DOMAIN run[w].claims /\ run[w].claims[j] = command[j].deliveries
                       /\ run[w].phase \in {"sending", "noting"}

Bug_NotReclaimed(j) ==   \* a run that stopped keeps its claim
    command[j].handshake = "ACKNOWLEDGED" /\ command[j].status \in {"PENDING", "RETRY"}
Bug_ClaimedAgain(j) == command[j].handshake = "ACKNOWLEDGED"   \* also when it has ended
ClaimableCommand(j) ==
    /\ command[j].handshake = "ACKNOWLEDGED"
    /\ command[j].status \in {"PENDING", "RETRY", "PROCESSING"}

Lapses(claimed, Holds(_, _)) ==   \* of a claim whose holder still works
    IF \E j \in claimed, w \in Runs : Holds(w, j)
    THEN Faulty ELSE UNCHANGED faults

ClaimCommands(w, claimed) ==
    /\ At(w, "resting") /\ claimed # {}
    /\ enabled
    /\ \A j \in claimed : ClaimableCommand(j)
    /\ Lapses(claimed, LAMBDA v, j : command[j].status = "PROCESSING" /\ HoldsJob(v, j))
    /\ command' = [j \in Sources |->
           IF j \in claimed THEN [command[j] EXCEPT !.status = "PROCESSING", !.attempts = @ + 1]
           ELSE command[j]]
    /\ Becomes(w, [NoRun EXCEPT !.phase = "picking",
                              !.claims = [j \in claimed |-> command[j].attempts + 1]])
    /\ UNCHANGED <<script, asked, seat, effects, shown, enabled>>

(* Dispatch: the claim is checked, its actor loaded, its targets are read.  *)
Targets(intent) == IF intent = "bulk_cancel" THEN {s \in Seats : seat[s] = "CONFIRMED"} ELSE {1}
Concludes(w, outcome) ==
    [run[w] EXCEPT !.phase = "finishing", !.outcome = outcome, !.todo = {}, !.done = 0]

Dispatch(w) ==
    /\ At(w, "picking")
    /\ \E j \in DOMAIN run[w].claims :
          LET picked == [run[w] EXCEPT !.current = j]
              targets == Targets(command[j].intent)
          IN Becomes(w, IF targets = {}
                      THEN [Concludes(w, Only("success")) EXCEPT !.current = j]
                      ELSE [picked EXCEPT !.phase = "executing", !.todo = targets])
    /\ UNCHANGED <<script, asked, command, seat, effects, shown, enabled, faults>>

DispatchRefused(w) ==   \* the configuration or the actor's role has changed since
    /\ At(w, "picking")
    /\ \E j \in DOMAIN run[w].claims, refused \in {"failure", "stale"} :
          Becomes(w, [Concludes(w, Only(refused)) EXCEPT !.current = j])
    /\ UNCHANGED <<script, asked, command, seat, effects, shown, enabled, faults>>

(* One transaction for each target, in the order of the users' ids.         *)
Changes(intent, s) ==
    CASE intent = "create"   -> seat[s] = "NONE"
      [] intent = "restrict" -> TRUE
      [] OTHER               -> seat[s] = "CONFIRMED"

Perform(j, s) ==
    LET intent == command[j].intent
    IN IF Changes(intent, s)
       THEN /\ effects' = [effects EXCEPT ![j] = @ + 1]
            /\ seat' = [seat EXCEPT ![s] = CASE intent = "create"   -> "CONFIRMED"
                                             [] intent = "restrict" -> @
                                             [] OTHER               -> "CANCELLED"]
       ELSE UNCHANGED <<effects, seat>>

Counts(intent, s) == Changes(intent, s)

Outcome(intent, done) ==
    IF done > 0 \/ intent = "bulk_cancel" THEN Result("success", done) ELSE Only("stale")

After(w, s, done) ==
    LET rest == run[w].todo \ {s}
    IN IF rest = {} THEN Concludes(w, Outcome(command[run[w].current].intent, done))
       ELSE [run[w] EXCEPT !.todo = rest, !.done = done]

Execute(w) ==
    /\ At(w, "executing")
    /\ LET j == run[w].current
           s == CHOOSE s \in run[w].todo : \A t \in run[w].todo : s <= t
           done == run[w].done + (IF Counts(command[j].intent, s) THEN 1 ELSE 0)
       IN \/ Perform(j, s) /\ Becomes(w, After(w, s, done)) /\ UNCHANGED faults
          \/ /\ command[j].intent = "bulk_cancel" /\ Faulty   \* conflicts to the last retry
             /\ Becomes(w, After(w, s, run[w].done))
             /\ UNCHANGED <<effects, seat>>
          \/ /\ Faulty   \* rolled back, or its answer was lost
             /\ Perform(j, s) \/ UNCHANGED <<effects, seat>>
             /\ Becomes(w, Concludes(w, Only("retry")))
    /\ UNCHANGED <<script, asked, command, shown, enabled>>

(* The record of the outcome, conditional on the claim.                     *)
Finished(j, status, result) ==
    [command[j] EXCEPT !.status = status, !.result = result,
                       !.delivery = IF result = NoResult THEN @ ELSE "PENDING"]

Recorded(j, outcome) ==
    IF outcome = Only("retry")
    THEN IF command[j].attempts < MaxAttempts THEN Finished(j, "RETRY", NoResult)
         ELSE Finished(j, "ABANDONED", Only("failure"))
    ELSE Finished(j, IF outcome.outcome = "success" THEN "SUCCEEDED"
                     ELSE IF outcome.outcome = "stale" THEN "STALE" ELSE "ABANDONED",
                  outcome)

StillClaimed(w, j) == command[j].status = "PROCESSING" /\ HoldsJob(w, j)

NextClaim(w) ==
    LET rest == [j \in DOMAIN run[w].claims \ {run[w].current} |-> run[w].claims[j]]
    IN [NoRun EXCEPT !.phase = IF DOMAIN rest = {} THEN "delivering" ELSE "picking",
                     !.claims = rest]

Stopped(w) == [NoRun EXCEPT !.phase = IF w \in AdminRequests THEN "over" ELSE "resting"]

Finish(w) ==
    /\ At(w, "finishing")
    /\ LET j == run[w].current
       IN \/ /\ IF StillClaimed(w, j) THEN WriteCommand(j, Recorded(j, run[w].outcome))
                ELSE UNCHANGED command
             /\ Becomes(w, NextClaim(w)) /\ UNCHANGED faults
          \/ /\ Faulty   \* the record fails, and the run with it
             /\ Becomes(w, Stopped(w)) /\ UNCHANGED command
    /\ UNCHANGED <<script, asked, seat, effects, shown, enabled>>

-----------------------------------------------------------------------------
(* The delivery of results: cron's takes all that are due, also those that  *)
(* lapsed; the run after an answer takes its own.                           *)
Deliverable(j) == command[j].result # NoResult
                  /\ command[j].delivery \in {"PENDING", "RETRY", "SENDING"}
DeliverableNow(j) == command[j].result # NoResult /\ command[j].delivery \in {"PENDING", "RETRY"}

ClaimDeliveries(w, claimed) ==
    /\ Lapses(claimed, LAMBDA v, j : command[j].delivery = "SENDING" /\ HoldsDelivery(v, j))
    /\ command' = [j \in Sources |->
           IF j \in claimed THEN [command[j] EXCEPT !.delivery = "SENDING", !.deliveries = @ + 1]
           ELSE command[j]]
    /\ Becomes(w, IF claimed = {} THEN Stopped(w)
                ELSE [NoRun EXCEPT !.phase = "sending",
                                   !.claims = [j \in claimed |-> command[j].deliveries + 1]])
    /\ UNCHANGED <<script, asked, seat, effects, shown, enabled>>

CronDelivers(w) ==
    /\ w \in Cron /\ run[w].phase \in {"delivering", "resting"}
    /\ \E claimed \in SUBSET {j \in Sources : Deliverable(j)} :
          (At(w, "resting") => claimed # {}) /\ ClaimDeliveries(w, claimed)

DeliverExact(w) ==
    /\ w \in AdminRequests /\ At(w, "delivering")
    /\ LET j == script[w].source
       IN \/ DeliverableNow(j) /\ ClaimDeliveries(w, {j})
          \/ (~DeliverableNow(j) \/ command[j].delivery = "RETRY") /\ ClaimDeliveries(w, {})

Send(w) ==
    /\ At(w, "sending")
    /\ \E j \in DOMAIN run[w].claims :
          \/ /\ shown' = [shown EXCEPT ![j][command[j].result] = @ + 1]
             /\ \/ Becomes(w, [run[w] EXCEPT !.phase = "noting", !.current = j, !.outcome = Only("sent")])
                   /\ UNCHANGED faults
                \/ Becomes(w, [run[w] EXCEPT !.phase = "noting", !.current = j, !.outcome = Only("failed")])
                   /\ Faulty
          \/ /\ Becomes(w, [run[w] EXCEPT !.phase = "noting", !.current = j, !.outcome = Only("failed")])
             /\ Faulty /\ UNCHANGED shown
    /\ UNCHANGED <<script, asked, command, seat, effects, enabled>>

DeliveryStatus(j, outcome) ==
    IF outcome = Only("sent") THEN "SENT"
    ELSE IF command[j].deliveries >= MaxAttempts THEN "FAILED" ELSE "RETRY"

DeliveryClaimed(w, j) == command[j].delivery = "SENDING" /\ HoldsDelivery(w, j)

Note(w) ==
    /\ At(w, "noting")
    /\ LET j == run[w].current
           rest == [i \in DOMAIN run[w].claims \ {j} |-> run[w].claims[i]]
       IN \/ /\ IF DeliveryClaimed(w, j)
                THEN command' = [command EXCEPT ![j].delivery = DeliveryStatus(j, run[w].outcome)]
                ELSE UNCHANGED command
             /\ Becomes(w, IF DOMAIN rest = {} THEN Stopped(w)
                         ELSE [NoRun EXCEPT !.phase = "sending", !.claims = rest])
             /\ UNCHANGED faults
          \/ Faulty /\ Becomes(w, Stopped(w)) /\ UNCHANGED command
    /\ UNCHANGED <<script, asked, seat, effects, shown, enabled>>

AfterAnswer(w) ==   \* nothing was claimed: another run has the job
    /\ w \in AdminRequests /\ Handles(w, "job") /\ At(w, "resting")
    /\ \/ ClaimCommands(w, {script[w].source})
       \/ /\ Becomes(w, [NoRun EXCEPT !.phase = "delivering"])
          /\ ~(enabled /\ command[script[w].source].status = "PENDING")
          /\ UNCHANGED <<script, asked, command, seat, effects, shown, enabled, faults>>

CronClaims(w) == w \in Cron /\ \E claimed \in SUBSET Sources : ClaimCommands(w, claimed)

RunCrashes(w) ==
    /\ run[w].phase \notin {"resting", "over"} /\ Faulty
    /\ Becomes(w, Stopped(w))
    /\ UNCHANGED <<script, asked, command, seat, effects, shown, enabled>>

-----------------------------------------------------------------------------
(* Around it: the site, the operator's fence, the removal of old rows.      *)
SiteCancels ==
    /\ \E s \in Seats : seat[s] = "CONFIRMED" /\ seat' = [seat EXCEPT ![s] = "CANCELLED"]
    /\ UNCHANGED <<script, asked, command, run, effects, shown, enabled, faults>>

MoveFence ==
    /\ enabled' = ~enabled
    /\ UNCHANGED <<script, asked, command, run, seat, effects, shown, faults>>

Outdated(j) ==   \* expired: a draft after a quarter of an hour, other rows after thirty days
    \/ command[j].status = "DRAFT"
    \/ /\ command[j].handshake = "STAGED" \/ command[j].delivery \in {"SENT", "FAILED"}
       /\ \A r \in AdminRequests : script[r].source = j => asked[r].step \in {"job", "over"}
       /\ \A w \in Runs : run[w].phase \in {"resting", "over"}

DeleteExpiredCommand ==
    /\ \E j \in Sources :
          /\ command[j] # NoCommand /\ Outdated(j)
          /\ command' = [command EXCEPT ![j] = NoCommand]
    /\ UNCHANGED <<script, asked, run, seat, effects, shown, enabled, faults>>

-----------------------------------------------------------------------------
RunsOn(w) ==
    \/ Dispatch(w) \/ DispatchRefused(w) \/ Execute(w) \/ Finish(w)
    \/ CronDelivers(w) \/ DeliverExact(w) \/ Send(w) \/ Note(w)

AdminNext ==
    \/ \E r \in AdminRequests : Prepare(r) \/ Activate(r) \/ PreparationFails(r) \/ TimesOut(r)
    \/ \E w \in Runs : AfterAnswer(w) \/ CronClaims(w) \/ RunsOn(w) \/ RunCrashes(w)
    \/ SiteCancels \/ MoveFence \/ DeleteExpiredCommand

AdminSpec == AdminInit /\ [][AdminNext]_adminVars

(* Some run that is under way goes on, and cron, which comes every minute,  *)
(* takes something that is due again and again.  Nothing is assumed of      *)
(* requests, of the operator or of the removal of old rows.                 *)
CronTakes == \E w \in Cron : (CronClaims(w) \/ CronDelivers(w)) /\ command' # command
AdminFairSpec ==
    /\ AdminSpec
    /\ WF_adminVars(\E w \in Runs : RunsOn(w))
    /\ SF_adminVars(CronTakes)

-----------------------------------------------------------------------------
(* A deferred answer was given for a job with the reason of that request,   *)
(* whichever of several forms for the draft came first and however often    *)
(* each was delivered.                                                      *)
DeferredIsMine ==
    \A r \in AdminRequests : asked[r].answer = "deferred" =>
        LET row == command[script[r].source]
        IN \/ row = NoCommand
           \/ /\ row.handshake = "ACKNOWLEDGED"
              /\ row.execution = script[r].id /\ row.reason = script[r].reason

(* A command that no request activated in time is never executed.           *)
UnacknowledgedNeverRuns ==
    \A j \in Sources : command[j].handshake \in {"AWAITING_REASON", "STAGED"} =>
        effects[j] = 0 /\ command[j].attempts = 0

(* Without a fault a command changes what its result says it changed: a     *)
(* second run neither repeats it nor reports another outcome.               *)
ToldIsDone ==
    \A j \in Sources : command[j].result # NoResult /\ faults = 0 =>
        effects[j] = command[j].result.changes

(* Whatever fails, a result never claims more changes than were made.       *)
NeverOverclaims ==
    \A j \in Sources : command[j].result # NoResult => command[j].result.changes <= effects[j]

(* The outcome that was recorded first stays, and only it is shown.         *)
ResultIsFinal ==
    [][\A j \in Sources : command[j].result # NoResult =>
          \/ command'[j] = NoCommand
          \/ command'[j].result = command[j].result /\ command'[j].status = command[j].status]_adminVars

(* A result that counts as sent is in the channel, once unless a call       *)
(* failed, a run stopped or a lease lapsed.                                 *)
Times(j) == shown[j][command[j].result]
SentIsShown ==
    \A j \in Sources : command[j].result # NoResult =>
        /\ command[j].delivery = "SENT" => Times(j) > 0
        /\ Times(j) > 1 => faults > 0

(* If the fence is opened again and again, an activated command comes to an *)
(* end and its result is delivered or given up.                             *)
CommandsEnd ==
    ([]<>enabled) => \A j \in Sources :
        command[j].handshake = "ACKNOWLEDGED" ~>
            command[j] = NoCommand \/ command[j].delivery \in {"SENT", "FAILED"}

(* A command runs when it was asked for and acknowledged, and its result    *)
(* says what it did, and is shown.                                          *)
CommandsAreHonest ==
    /\ [](AdminTypeOK /\ DeferredIsMine /\ UnacknowledgedNeverRuns /\ ToldIsDone /\ NeverOverclaims /\ SentIsShown)
    /\ ResultIsFinal
=============================================================================
