----------------------- MODULE DiscordInteractionJobs -----------------------
(***************************************************************************)
(* Buttons under the message of one reservation.                            *)
(*                                                                         *)
(* Discord delivers an interaction to the route, which must answer within a *)
(* second and a half: it stages a job, activates it and acknowledges, while *)
(* a timer may settle the handshake first.  A run (the one the route starts *)
(* after an acknowledgement, or cron) claims jobs and takes them through    *)
(* authorization, the transaction that decides the reservation, and the     *)
(* record of the outcome.  The operator's command closes the fence, waits   *)
(* until no old job is in process, and opens the fence again.               *)
(*                                                                         *)
(* Every step is one transaction or one HTTP call.  Time is reduced to what *)
(* is compared with it: a request knows whether its own deadline passed,    *)
(* and the activation deadline it gave its job is never later; a retry is   *)
(* due, and a claim lapses, at any moment the code allows.  A claim is      *)
(* named by the attempt it started: every claim counts one up.              *)
(* All buttons were rendered at epoch 0.  Left out: texts, audit rows, and  *)
(* jobs older than the column for the application.                          *)
(***************************************************************************)
EXTENDS Naturals, FiniteSets

CONSTANTS Interactions, Requests,
          Deliveries,   \* what the requests may carry: functions to Commands
          Acknowledged, \* interactions that have been acknowledged before
          Runners,      \* cron runs
          MaxAttempts,  \* of a failing job (8 in the code)
          MaxEpoch,     \* bound: how often the fence moves
          MaxFaults     \* bound: runs that stop, transactions that fail or whose answer is
                        \* lost, and claims that lapse under a working holder, in all

Intents == {"accept", "reject", "admin_cancel", "no_show"}
Commands == [interaction : Interactions, intent : Intents]
None == "none"

ASSUME InteractionAssumption ==
    /\ IsFiniteSet(Interactions)
    /\ Deliveries \subseteq [Requests -> Commands]
    /\ Acknowledged \subseteq Interactions
    /\ \A d \in Deliveries, i \in Acknowledged : \A r, q \in Requests :
          d[r].interaction = i /\ d[q].interaction = i => r = q
    /\ Requests \cap Runners = {}
    /\ MaxAttempts \in Nat \ {0}
    /\ {MaxEpoch, MaxFaults} \subseteq Nat

VARIABLES delivery,    \* request -> the command it carries
          request,     \* request -> where its route handler is
          job,         \* interaction -> its DiscordInteractionJob
          worker,      \* run -> where it is
          reservation, decision, \* Reservation.status, DiscordReservationMessage.decision
          closed,      \* is the reservation's period over?
          receipt,     \* interaction -> its DiscordInteractionReceipt
          performed,   \* history: interaction -> how often it took effect
          control, operator,
          crashes, failures, lapses

jobs == <<delivery, job>>
booking == <<reservation, decision, closed, receipt, performed>>
fence == <<control, operator>>
bounds == <<crashes, failures, lapses>>
vars == <<delivery, request, job, worker, booking, fence, bounds>>

Workers == Requests \cup Runners   \* the run after a request, and cron's
Attempts == 0 .. MaxAttempts + MaxFaults
Results == {"accepted", "cancelled", "no_show", "stale"}
Terminal == {"SUCCEEDED", "STALE", "ABANDONED"}

NoJob == [status |-> None, handshake |-> None, intent |-> None, staged |-> None, attempts |-> 0]
JobRows == [status    : {"PENDING", "RETRY", "PROCESSING"} \cup Terminal,
            handshake : {"STAGED", "ACKNOWLEDGED", "ABANDONED_UNACKED"},
            intent    : Intents,    \* what the digest is of
            staged    : Requests \cup {None},   \* whose activation deadline it has
            attempts  : Attempts]

NewRequest == [pipeline |-> "resolving", timer |-> FALSE, settlement |-> None, answer |-> None]
RequestStates == [pipeline   : {"resolving", "staging", "activating", "settling", "over"},
                  timer      : BOOLEAN,   \* did its deadline pass?
                  settlement : {None, "running", "over"},
                  answer     : {None, "acknowledged", "rejected"}]

NoClaims == [i \in {} |-> 0]
Resting == [phase |-> "resting", claims |-> NoClaims, current |-> None, open |-> FALSE, outcome |-> None]
Phases == {"resting", "picking", "dispatching", "committing", "finishing", "over"}
ClaimSets == UNION {[S -> Attempts] : S \in SUBSET Interactions}
WorkerStates == [phase   : Phases,
                 claims  : ClaimSets,                \* claimed and not yet finished
                 current : Interactions \cup {None},
                 open    : BOOLEAN,                  \* did its snapshot see the fence open?
                 outcome : {None, "SUCCEEDED", "STALE", "RETRY", "ABANDONED"}]

TypeOK ==
    /\ delivery \in Deliveries
    /\ request \in [Requests -> RequestStates]
    /\ job \in [Interactions -> JobRows \cup {NoJob}]
    /\ worker \in [Workers -> WorkerStates]
    /\ reservation \in {"CONFIRMED", "CANCELLED", "NO_SHOW"}
    /\ decision \in {None, "ACCEPTED", "CANCELLED", "NO_SHOW"}
    /\ closed \in BOOLEAN
    /\ receipt \in [Interactions -> Results \cup {None}]
    /\ performed \in [Interactions -> Nat]
    /\ control \in [enabled : BOOLEAN, epoch : 0 .. MaxEpoch]
    /\ operator \in {"idle", "draining", "drained"}
    /\ {crashes, failures, lapses} \subseteq 0 .. MaxFaults

(* The message stands in the channel, and administrators press its buttons. *)
Init ==
    /\ delivery \in Deliveries
    /\ request = [r \in Requests |->
           IF delivery[r].interaction \in Acknowledged
           THEN [NewRequest EXCEPT !.pipeline = "over", !.answer = "acknowledged"] ELSE NewRequest]
    /\ job = [i \in Interactions |->
           IF i \in Acknowledged /\ \E r \in Requests : delivery[r].interaction = i
           THEN LET r == CHOOSE r \in Requests : delivery[r].interaction = i
                IN [status |-> "PENDING", handshake |-> "ACKNOWLEDGED",
                    intent |-> delivery[r].intent, staged |-> None, attempts |-> 0]
           ELSE NoJob]
    /\ worker = [w \in Workers |-> Resting]
    /\ reservation = "CONFIRMED" /\ decision = None /\ closed = FALSE
    /\ receipt = [i \in Interactions |-> None]
    /\ performed = [i \in Interactions |-> 0]
    /\ control = [enabled |-> TRUE, epoch |-> 0]
    /\ operator = "idle"
    /\ crashes = 0 /\ failures = 0 /\ lapses = 0

Faults == crashes + failures + lapses
Fails == Faults < MaxFaults /\ failures' = failures + 1

-----------------------------------------------------------------------------
(* The handshake: each of these is a transaction on the job's row.         *)
InteractionOf(r) == delivery[r].interaction
JobOf(r) == job[InteractionOf(r)]
SameDigest(r) == JobOf(r).intent = delivery[r].intent
WriteJob(i, row) == job' = [job EXCEPT ![i] = row]

(* A job's activation deadline is at the latest the route's own.           *)
Inserts(r, inTime) ==
    WriteJob(InteractionOf(r),
        [status    |-> IF inTime THEN "PENDING" ELSE "ABANDONED",
         handshake |-> IF inTime THEN "STAGED" ELSE "ABANDONED_UNACKED",
         intent    |-> delivery[r].intent,
         staged    |-> IF inTime THEN r ELSE None, attempts |-> 0])

Stage(r) ==
    \/ /\ JobOf(r) = NoJob
       /\ \E inTime \in BOOLEAN : (inTime => ~request[r].timer) /\ Inserts(r, inTime)
    \/ JobOf(r) # NoJob /\ UNCHANGED job

Bug_Activates(r) ==   \* what the settling left is not looked at
    SameDigest(r) /\ JobOf(r).handshake # "ACKNOWLEDGED"
Activates(r) ==
    /\ SameDigest(r)
    /\ JobOf(r).handshake = "STAGED" /\ JobOf(r).status = "PENDING"
    /\ ~request[JobOf(r).staged].timer

Activated(r) ==
    job' = [job EXCEPT ![InteractionOf(r)] =
        [@ EXCEPT !.handshake = "ACKNOWLEDGED", !.status = "PENDING", !.staged = None]]

IsPending(r) == SameDigest(r) /\ JobOf(r).handshake = "ACKNOWLEDGED" /\ JobOf(r).status = "PENDING"

Settles(r) == SameDigest(r) /\ JobOf(r).handshake = "STAGED" /\ JobOf(r).status = "PENDING"

SettleHandshake(r) ==
    IF Settles(r)
    THEN job' = [job EXCEPT ![InteractionOf(r)] =
             [@ EXCEPT !.handshake = "ABANDONED_UNACKED", !.status = "ABANDONED", !.staged = None]]
    ELSE UNCHANGED job

(* The route's handler, two strands of it: the pipeline and the timer.     *)
Quiet(req) == req.pipeline = "over" /\ req.settlement # "running" /\ req.answer # None
Continues(r, changed) ==   \* of a handler that has ended only the answer is kept
    request' = [request EXCEPT ![r] =
        IF Quiet(changed) THEN [changed EXCEPT !.settlement = None] ELSE changed]
Answered(req, answer) == IF req.answer = None THEN [req EXCEPT !.answer = answer] ELSE req
At(r, step) == request[r].pipeline = step
Over(r) == [request[r] EXCEPT !.pipeline = "over"]

(* settle() runs once; a strand that asks again shares its result.         *)
Settling(req) ==
    IF req.settlement = "over" THEN [req EXCEPT !.pipeline = "over"]
    ELSE [req EXCEPT !.pipeline = "settling", !.settlement = "running"]

ResolveCommand(r) ==
    /\ At(r, "resolving")
    /\ \/ /\ ~request[r].timer
          /\ Continues(r, [request[r] EXCEPT !.pipeline = "staging"])
       \/ Continues(r, Answered(Over(r), "rejected"))   \* not authorized, or too late
    /\ UNCHANGED <<jobs, worker, booking, fence, bounds>>

StageStep(r) ==
    /\ At(r, "staging")
    /\ \/ /\ Stage(r)
          /\ Continues(r, IF JobOf(r) # NoJob /\ ~SameDigest(r) THEN Answered(Over(r), "rejected")
                          ELSE IF request[r].timer THEN Settling(request[r])
                          ELSE [request[r] EXCEPT !.pipeline = "activating"])
          /\ UNCHANGED failures
       \/ /\ Stage(r) \/ UNCHANGED job   \* no answer from the database
          /\ Fails
          /\ Continues(r, Settling(request[r]))
    /\ UNCHANGED <<delivery, worker, booking, fence, crashes, lapses>>

ActivateStep(r) ==
    /\ At(r, "activating")
    /\ \/ /\ Activates(r) /\ Activated(r)
          /\ \/ Continues(r, Answered(Over(r), "acknowledged")) /\ UNCHANGED failures
             \/ Fails /\ Continues(r, Settling(request[r]))
       \/ /\ UNCHANGED job   \* already activated, too late, settled, or not answered
          /\ \/ /\ Continues(r, IF IsPending(r) THEN Answered(Over(r), "acknowledged")
                                ELSE Settling(request[r]))
                /\ UNCHANGED failures
             \/ Fails /\ Continues(r, Settling(request[r]))
    /\ UNCHANGED <<delivery, worker, booking, fence, crashes, lapses>>

Settled(r, answer) ==
    Continues(r, Answered([request[r] EXCEPT !.settlement = "over",
        !.pipeline = IF @ = "settling" THEN "over" ELSE @], answer))

SettleStep(r) ==
    /\ request[r].settlement = "running"
    /\ \/ /\ SettleHandshake(r)
          /\ Settled(r, IF IsPending(r) THEN "acknowledged" ELSE "rejected")
          /\ UNCHANGED failures
       \/ /\ SettleHandshake(r) \/ UNCHANGED job
          /\ Fails
          /\ Settled(r, "rejected")
    /\ UNCHANGED <<delivery, worker, booking, fence, crashes, lapses>>

Deadline(r) ==
    /\ request[r].answer = None /\ ~request[r].timer
    /\ LET noticed == [request[r] EXCEPT !.timer = TRUE]
       IN Continues(r, IF At(r, "resolving") THEN Answered(noticed, "rejected")
                       ELSE IF noticed.settlement = None THEN [noticed EXCEPT !.settlement = "running"]
                       ELSE noticed)
    /\ UNCHANGED <<jobs, worker, booking, fence, bounds>>

-----------------------------------------------------------------------------
(* The runner.                                                             *)
Goes(w, changed) == worker' = [worker EXCEPT ![w] = changed]
In(w, phase) == worker[w].phase = phase
Stops(w) == [Resting EXCEPT !.phase = IF w \in Requests THEN "over" ELSE "resting"]

FenceOpen == control.enabled /\ control.epoch = 0
Claims(w, i) == i \in DOMAIN worker[w].claims /\ worker[w].claims[i] = job[i].attempts
Held(i) == \E w \in Workers : Claims(w, i)

ClaimableWhere(i) ==
    /\ job[i].handshake = "ACKNOWLEDGED"
    /\ job[i].status \in {"PENDING", "RETRY", "PROCESSING"}

(* What is due: a retry some time later, a claim in process when it lapses. *)
Lapsing(claimed) == {i \in claimed : job[i].status = "PROCESSING" /\ Held(i)}

ClaimJobs(w, claimed) ==
    /\ FenceOpen
    /\ claimed # {} /\ \A i \in claimed : ClaimableWhere(i)
    /\ Faults + Cardinality(Lapsing(claimed)) <= MaxFaults
    /\ lapses' = lapses + Cardinality(Lapsing(claimed))
    /\ job' = [i \in Interactions |->
           IF i \in claimed THEN [job[i] EXCEPT !.status = "PROCESSING", !.attempts = @ + 1]
           ELSE job[i]]
    /\ Goes(w, [Resting EXCEPT !.phase = "picking",
                               !.claims = [i \in claimed |-> job[i].attempts + 1]])
    /\ UNCHANGED <<delivery, request, booking, fence, crashes, failures>>

ClaimExact(w) ==   \* after the answer
    /\ w \in Requests /\ In(w, "resting") /\ request[w].answer = "acknowledged"
    /\ ClaimJobs(w, {InteractionOf(w)})

CronClaims(w) ==
    /\ w \in Runners /\ In(w, "resting")
    /\ \E claimed \in SUBSET Interactions : ClaimJobs(w, claimed)

Finishing(w, outcome) ==
    [worker[w] EXCEPT !.phase = "finishing", !.outcome = outcome, !.open = FALSE]

IsDispatchAllowed(w, i) == FenceOpen /\ job[i].status = "PROCESSING" /\ Claims(w, i)

(* One claim after the other.                                              *)
CheckDispatch(w) ==
    /\ In(w, "picking")
    /\ \E i \in DOMAIN worker[w].claims :
          Goes(w, IF IsDispatchAllowed(w, i)
                  THEN [worker[w] EXCEPT !.phase = "dispatching", !.current = i]
                  ELSE [Finishing(w, "STALE") EXCEPT !.current = i])
    /\ UNCHANGED <<jobs, request, booking, fence, bounds>>

(* The member's role is asked of Discord, the actor of the database.       *)
AuthorizationFails(w) ==
    /\ In(w, "dispatching")
    /\ \E outcome \in {"STALE", "RETRY", "ABANDONED"} : Goes(w, Finishing(w, outcome))
    /\ UNCHANGED <<jobs, request, booking, fence, bounds>>

(* Else the user's lock is taken and the snapshot, the fence in it.        *)
BeginOperation(w) ==
    /\ In(w, "dispatching")
    /\ ~ \E v \in Workers : In(v, "committing")
    /\ Goes(w, [worker[w] EXCEPT !.phase = "committing", !.open = FenceOpen])
    /\ UNCHANGED <<jobs, request, booking, fence, bounds>>

(* What the transaction decides: a result, and what it writes.             *)
SettledInitialDecision ==
    IF reservation = "CANCELLED" \/ decision = "CANCELLED" THEN "cancelled"
    ELSE IF reservation = "CONFIRMED" /\ decision = "ACCEPTED" THEN "accepted" ELSE "stale"

Unchanged == UNCHANGED booking
Answers(i, result) == receipt' = [receipt EXCEPT ![i] = result]

Takes(i, result, status, decided) ==
    /\ reservation' = status /\ decision' = decided
    /\ Answers(i, result)
    /\ performed' = [performed EXCEPT ![i] = @ + 1]
    /\ UNCHANGED closed

AcceptReservation(i) == Takes(i, "accepted", reservation, "ACCEPTED")
CancelReservation(i) == Takes(i, "cancelled", "CANCELLED", "CANCELLED")
MarkNoShow(i) == Takes(i, "no_show", "NO_SHOW", "NO_SHOW")
WriteStaleReceipt(i) == Answers(i, "stale") /\ UNCHANGED <<reservation, decision, closed, performed>>

Performs(i, intent) ==   \* the result when it takes effect, else None
    IF reservation # "CONFIRMED" THEN None
    ELSE CASE intent = "accept" /\ decision = None                  -> "accepted"
           [] intent = "reject" /\ decision = None                  -> "cancelled"
           [] intent = "admin_cancel" /\ decision = "ACCEPTED"      -> "cancelled"
           [] intent = "no_show" /\ decision = "ACCEPTED" /\ closed -> "no_show"
           [] OTHER                                                 -> None

ResultOf(w, i) ==
    IF receipt[i] # None THEN receipt[i]
    ELSE IF ~worker[w].open THEN "noop"
    ELSE IF Performs(i, job[i].intent) # None THEN Performs(i, job[i].intent)
    ELSE CASE job[i].intent \in {"accept", "reject"} -> SettledInitialDecision
           [] job[i].intent = "no_show" /\ reservation = "CONFIRMED" /\ decision = "ACCEPTED" -> "noop"
           [] OTHER                                  -> "stale"

Writes(i, performs) ==
    CASE performs = "accepted"  -> AcceptReservation(i)
      [] performs = "cancelled" -> CancelReservation(i)
      [] performs = "no_show"   -> MarkNoShow(i)
      [] OTHER -> IF job[i].intent \in {"accept", "reject"} THEN Unchanged ELSE WriteStaleReceipt(i)

Bug_Operate(w, i) ==   \* the receipt is not looked for
    IF ~worker[w].open \/ ResultOf(w, i) = "noop" THEN Unchanged
    ELSE Writes(i, Performs(i, job[i].intent))

Operate(w, i) ==
    IF receipt[i] # None \/ ~worker[w].open \/ ResultOf(w, i) = "noop" THEN Unchanged
    ELSE Writes(i, Performs(i, job[i].intent))

DispatchOutcome(result) ==
    IF result \in {"accepted", "cancelled", "no_show"} THEN "SUCCEEDED" ELSE "STALE"

CommitOperation(w) ==
    /\ In(w, "committing")
    /\ LET i == worker[w].current
       IN \/ /\ Operate(w, i)
             /\ Goes(w, Finishing(w, DispatchOutcome(ResultOf(w, i))))
             /\ UNCHANGED failures
          \/ /\ Operate(w, i) \/ Unchanged   \* rolled back, or its answer was lost
             /\ Fails
             /\ Goes(w, Finishing(w, "RETRY"))
    /\ UNCHANGED <<jobs, request, fence, crashes, lapses>>

StatusAfter(i, outcome) ==
    IF outcome = "RETRY" /\ job[i].attempts >= MaxAttempts THEN "ABANDONED" ELSE outcome

FinishClaim(w) ==
    /\ In(w, "finishing")
    /\ LET i == worker[w].current
           rest == [j \in DOMAIN worker[w].claims \ {i} |-> worker[w].claims[j]]
       IN \/ /\ job[i].status = "PROCESSING" /\ Claims(w, i)
             /\ job' = [job EXCEPT ![i].status = StatusAfter(i, worker[w].outcome)]
             /\ Goes(w, IF DOMAIN rest = {} THEN Stops(w)
                           ELSE [Resting EXCEPT !.phase = "picking", !.claims = rest])
             /\ UNCHANGED failures
          \/ /\ ~(job[i].status = "PROCESSING" /\ Claims(w, i))   \* claim lost: the run fails
             /\ Goes(w, Stops(w))
             /\ UNCHANGED <<job, failures>>
          \/ Fails /\ Goes(w, Stops(w)) /\ UNCHANGED job
    /\ UNCHANGED <<delivery, request, booking, fence, crashes, lapses>>

Crash(w) ==
    /\ worker[w].phase \notin {"resting", "over"} /\ Faults < MaxFaults
    /\ crashes' = crashes + 1
    /\ Goes(w, Stops(w))
    /\ UNCHANGED <<jobs, request, booking, fence, failures, lapses>>

-----------------------------------------------------------------------------
(* Around it: the site ends the reservation, its period closes.            *)
EndElsewhere ==
    /\ reservation = "CONFIRMED"
    /\ ~ \E w \in Workers : In(w, "committing")
    /\ \/ reservation' = "CANCELLED"
       \/ closed /\ reservation' = "NO_SHOW"
    /\ UNCHANGED <<jobs, request, worker, decision, closed, receipt, performed, fence, bounds>>

PeriodCloses ==   \* nothing but a no-show looks at it
    /\ ~closed /\ closed' = TRUE
    /\ \E r \in Requests : delivery[r].intent = "no_show"
    /\ UNCHANGED <<jobs, request, worker, reservation, decision, receipt, performed, fence, bounds>>

(* The operator's command: close, wait for what is in process, reopen.     *)
Bug_OldMutations == {i \in Interactions : job[i].status = "PROCESSING" /\ control.epoch > 1}
OldMutations == {i \in Interactions : job[i].status = "PROCESSING" /\ control.epoch > 0}

BeginDisable ==
    /\ operator = "idle" /\ control.enabled /\ control.epoch < MaxEpoch
    /\ control' = [enabled |-> FALSE, epoch |-> control.epoch + 1]
    /\ operator' = "draining"
    /\ UNCHANGED <<jobs, request, worker, booking, bounds>>

DrainCheck ==
    /\ operator = "draining"
    /\ \/ OldMutations = {} /\ operator' = "drained"
       \/ OldMutations # {} /\ operator' = "idle"   \* after the last check: a timeout
    /\ UNCHANGED <<jobs, request, worker, booking, control, bounds>>

Reenable ==
    /\ operator \in {"drained", "idle"} /\ ~control.enabled /\ control.epoch < MaxEpoch
    /\ control' = [enabled |-> TRUE, epoch |-> control.epoch + 1]
    /\ operator' = "idle"
    /\ UNCHANGED <<jobs, request, worker, booking, bounds>>

-----------------------------------------------------------------------------
Route(r) ==
    \/ ResolveCommand(r) \/ StageStep(r) \/ ActivateStep(r) \/ SettleStep(r)
    \/ Deadline(r)

Working(w) ==
    \/ CheckDispatch(w) \/ AuthorizationFails(w)
    \/ BeginOperation(w) \/ CommitOperation(w) \/ FinishClaim(w)

Next ==
    \/ \E r \in Requests : Route(r)
    \/ \E w \in Workers : ClaimExact(w) \/ CronClaims(w) \/ Working(w) \/ Crash(w)
    \/ EndElsewhere \/ PeriodCloses
    \/ BeginDisable \/ DrainCheck \/ Reenable

Spec == Init /\ [][Next]_vars

-----------------------------------------------------------------------------
(* A job that was abandoned unacknowledged is never claimed and leaves no   *)
(* receipt, whoever activates, settles or claims it at the same time.       *)
AbandonedNeverRuns ==
    \A i \in Interactions : job[i].handshake = "ABANDONED_UNACKED" =>
        job[i].status = "ABANDONED" /\ job[i].attempts = 0 /\ receipt[i] = None

(* A deferred answer was given for a job that is acknowledged for good.     *)
AcknowledgedIsQueued ==
    \A r \in Requests : request[r].answer = "acknowledged" =>
        SameDigest(r) /\ JobOf(r).handshake = "ACKNOWLEDGED"

(* When every request for an interaction got the error answer, its job does *)
(* not wait to be run: either it never will be, or cron had it before the   *)
(* handshake was settled, or the database did not answer.                   *)
RejectedIsNotQueued ==
    \A i \in Interactions :
        /\ job[i].handshake = "ACKNOWLEDGED" /\ failures = 0
        /\ \A r \in Requests : InteractionOf(r) = i => request[r].answer = "rejected"
        => job[i].attempts > 0

(* An interaction takes effect at most once, and then its receipt says so,  *)
(* however often its job is claimed.                                        *)
OnceAndOnRecord ==
    \A i \in Interactions :
        performed[i] = IF receipt[i] \in {"accepted", "cancelled", "no_show"} THEN 1 ELSE 0

(* A job that succeeded found its question decided: a cancellation or a     *)
(* no-show by itself, the first decision by itself or by another.           *)
SucceededIsTrue ==
    \A i \in Interactions : job[i].status = "SUCCEEDED" =>
        IF job[i].intent \in {"admin_cancel", "no_show"} THEN performed[i] = 1
        ELSE decision # None \/ reservation # "CONFIRMED"

(* The outcome of a job stays, although a run whose claim lapsed may still  *)
(* come back with another one.                                              *)
OutcomeIsFinal ==
    [][\A i \in Interactions : job[i].status \in Terminal => job'[i] = job[i]]_vars

(* Once the disable command has found no old job in process, no button of   *)
(* before takes effect, unless a claim lapsed under a run that went on.     *)
DrainedIsQuiet ==
    [][performed' # performed => operator # "drained" \/ lapses > 0]_vars

(* What a request was answered is what becomes of its job.                  *)
HandshakeIsKept == AbandonedNeverRuns /\ AcknowledgedIsQueued /\ RejectedIsNotQueued

(* What a job does it does once, and its record says so for good.           *)
EffectsStand == [](TypeOK /\ OnceAndOnRecord /\ SucceededIsTrue) /\ OutcomeIsFinal
=============================================================================
