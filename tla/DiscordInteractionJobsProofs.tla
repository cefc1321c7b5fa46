------------------- MODULE DiscordInteractionJobsProofs -------------------
(***************************************************************************)
(* Proofs about the buttons under the message of a reservation.            *)
(*                                                                         *)
(* The inductive invariant ButtonsInv adds to the checked properties what  *)
(* they rest on: what a job may look like (RowsInv), that a claim is of an *)
(* acknowledged job and names one holder only (ClaimsInv), how many claims *)
(* the faults so far account for (AttemptsInv), that a closed fence keeps  *)
(* new claims out (FenceInv), what a receipt and an outcome are evidence   *)
(* of (RecordsInv), and when a request may still activate its job          *)
(* (AnswersInv).                                                           *)
(***************************************************************************)
EXTENDS DiscordInteractionJobs, FiniteSetTheorems, TLAPS

(* What a row of the job table and the record of a run may hold.           *)
Rows == [status    : {"PENDING", "RETRY", "PROCESSING"} \cup Terminal,
         handshake : {"STAGED", "ACKNOWLEDGED", "ABANDONED_UNACKED"},
         intent    : Intents,
         staged    : Requests \cup {None},
         attempts  : Nat]

WorkerRows == [phase   : Phases,
               claims  : UNION {[S -> Nat] : S \in SUBSET Interactions},
               current : Interactions \cup {None},
               open    : BOOLEAN,
               outcome : {None, "SUCCEEDED", "STALE", "RETRY", "ABANDONED"}]

(* The types, without the bound of the attempts.                           *)
ShapeInv ==
    /\ delivery \in Deliveries
    /\ request \in [Requests -> RequestStates]
    /\ job \in [Interactions -> Rows \cup {NoJob}]
    /\ worker \in [Workers -> WorkerRows]
    /\ reservation \in {"CONFIRMED", "CANCELLED", "NO_SHOW"}
    /\ decision \in {None, "ACCEPTED", "CANCELLED", "NO_SHOW"}
    /\ closed \in BOOLEAN
    /\ receipt \in [Interactions -> Results \cup {None}]
    /\ performed \in [Interactions -> Nat]
    /\ control \in [enabled : BOOLEAN, epoch : 0 .. MaxEpoch]
    /\ operator \in {"idle", "draining", "drained"}
    /\ crashes \in Nat /\ failures \in Nat /\ lapses \in Nat

(* What a job looks like before it is acknowledged, and before its first   *)
(* claim; one that waits for a retry has attempts left.                    *)
RowsInv ==
    \A i \in Interactions :
        /\ job[i].handshake = "STAGED" => job[i].status = "PENDING"
        /\ job[i].handshake = "ABANDONED_UNACKED" => job[i].status = "ABANDONED"
        /\ job[i].handshake # "ACKNOWLEDGED" => job[i].attempts = 0 /\ receipt[i] = None
        /\ job[i].status = "PENDING" => job[i].attempts = 0
        /\ job[i].status = "RETRY" => job[i].attempts < MaxAttempts

(* The jobs that a run has claimed and not yet let go of.                  *)
Holds(w) == DOMAIN worker[w].claims

(* A claim is of an acknowledged job; while it is the last one, the job is *)
(* in process and nobody else holds it.  Without a lapse none is lost.     *)
ClaimsInv ==
    /\ \A w \in Workers : \A i \in Holds(w) :
         /\ job[i].handshake = "ACKNOWLEDGED"
         /\ worker[w].claims[i] <= job[i].attempts
         /\ Claims(w, i) => job[i].status = "PROCESSING"
         /\ lapses = 0 => Claims(w, i)
    /\ \A v, w \in Workers, i \in Interactions : Claims(v, i) /\ Claims(w, i) => v = w
    /\ \A w \in Workers :
         /\ worker[w].phase \in {"resting", "over"} => Holds(w) = {}
         /\ worker[w].phase \in {"dispatching", "committing", "finishing"} => worker[w].current \in Holds(w)
         /\ worker[w].phase = "finishing" => worker[w].outcome # None

(* A run that lost no claim yet.                                           *)
Intact(w) == \A i \in Holds(w) : Claims(w, i)

(* Every claim beyond the last retry was paid for by a fault, and a job in *)
(* process that no intact run holds has one fault more than its claims.    *)
AttemptsInv ==
    /\ Faults <= MaxFaults
    /\ \A i \in Interactions :
         /\ job[i].attempts <= MaxAttempts + Faults
         /\ job[i].status = "PROCESSING" /\ (\A w \in Workers : Claims(w, i) => ~Intact(w))
              => job[i].attempts < MaxAttempts + Faults

(* Once a disable has begun nobody claims, and after the drain the claims  *)
(* that count are gone.                                                    *)
FenceInv ==
    /\ operator \in {"draining", "drained"} => ~control.enabled /\ control.epoch > 0
    /\ operator = "drained" => OldMutations = {}

(* The question of a job is decided.                                       *)
QuestionSettled == decision # None \/ reservation # "CONFIRMED"
(* What a run may record as done: an administrator's action took effect;   *)
(* an acceptance or a rejection finds its question settled, by itself or   *)
(* by another.                                                             *)
Decided(i) == IF job[i].intent \in {"admin_cancel", "no_show"} THEN performed[i] = 1 ELSE QuestionSettled

(* Receipts and effects agree, and an outcome is evidence of what it says. *)
RecordsInv ==
    /\ OnceAndOnRecord /\ SucceededIsTrue
    /\ \A i \in Interactions : receipt[i] \in {"accepted", "cancelled", "no_show"} => decision # None
    /\ \A w \in Workers :
         worker[w].phase = "finishing" /\ worker[w].outcome = "SUCCEEDED" => Decided(worker[w].current)

(* A request that was told no and still activates finds its job settled,   *)
(* and an acknowledged job that was not claimed yet has a request that was *)
(* told yes, unless the database failed to answer.                         *)
AnswersInv ==
    /\ AcknowledgedIsQueued
    /\ \A r \in Requests :
         /\ request[r].pipeline = "activating" => JobOf(r) # NoJob
         /\ /\ request[r].pipeline \in {"resolving", "staging", "activating"}
            /\ request[r].answer # None \/ request[r].settlement # None
            => request[r].timer
         /\ request[r].pipeline = "activating" /\ request[r].answer # None /\ failures = 0
            => ~(SameDigest(r) /\ JobOf(r).handshake = "STAGED")
    /\ failures = 0 => \A i \in Interactions :
         job[i].handshake = "ACKNOWLEDGED" /\ job[i].attempts = 0 =>
            \E r \in Requests : InteractionOf(r) = i /\ request[r].answer = "acknowledged"

(* The inductive invariant.                                                *)
ButtonsInv ==
    ShapeInv /\ RowsInv /\ ClaimsInv /\ AttemptsInv /\ FenceInv /\ RecordsInv /\ AnswersInv

-----------------------------------------------------------------------------
(* What the constants give.                                                *)
LEMMA ButtonBounds ==
    /\ IsFiniteSet(Interactions) /\ Deliveries \subseteq [Requests -> Commands]
    /\ MaxAttempts \in Nat \ {0} /\ MaxEpoch \in Nat /\ MaxFaults \in Nat
BY InteractionAssumption DEF InteractionAssumption

(* What the types say of one request, of one job and of one run.           *)
LEMMA CommandIs ==
    ASSUME ShapeInv, NEW r \in Requests
    PROVE  InteractionOf(r) \in Interactions /\ delivery[r].intent \in Intents
           /\ JobOf(r) \in Rows \cup {NoJob} /\ request[r] \in RequestStates
<1>1. delivery \in [Requests -> Commands]
  BY ButtonBounds DEF ShapeInv
<1>2. delivery[r] \in Commands
  BY <1>1
<1> QED BY <1>2 DEF ShapeInv, Commands, InteractionOf, JobOf

(* The value that stands for no row is none of the rows.                   *)
LEMMA NoJobIs ==
    /\ NoJob \notin Rows /\ NoJob.status = None /\ NoJob.handshake = None /\ NoJob.intent = None
    /\ NoJob.attempts = 0
BY DEF NoJob, Rows, None

(* The claims of a run are a function on the jobs it holds.                *)
LEMMA RunIs ==
    ASSUME ShapeInv, NEW w \in Workers
    PROVE  /\ worker[w] \in WorkerRows
           /\ worker[w].claims \in [Holds(w) -> Nat] /\ Holds(w) \subseteq Interactions
<1>1. worker[w] \in WorkerRows
  BY DEF ShapeInv
<1>2. PICK S \in SUBSET Interactions : worker[w].claims \in [S -> Nat]
  BY <1>1 DEF WorkerRows
<1> QED BY <1>1, <1>2 DEF Holds

(* A row in the table.                                                     *)
LEMMA RowIs ==
    ASSUME ShapeInv, NEW i \in Interactions,
           job[i].handshake # None \/ job[i].status # None \/ job[i].intent # None
    PROVE  job[i] \in Rows
BY NoJobIs DEF ShapeInv

-----------------------------------------------------------------------------
(* The handshake.                                                          *)

(* What a step of it may do to a row.                                      *)
HandshakeMove(i) ==
    \/ job'[i] = job[i]
    \/ /\ job[i] = NoJob /\ job'[i] \in Rows /\ job'[i].attempts = 0
       /\ \/ job'[i].handshake = "STAGED" /\ job'[i].status = "PENDING"
          \/ job'[i].handshake = "ABANDONED_UNACKED" /\ job'[i].status = "ABANDONED"
    \/ /\ job[i].handshake = "STAGED" /\ job[i].status = "PENDING" /\ job'[i] \in Rows
       /\ job'[i].attempts = job[i].attempts /\ job'[i].intent = job[i].intent
       /\ \/ job'[i].handshake = "ACKNOWLEDGED" /\ job'[i].status = "PENDING"
          \/ job'[i].handshake = "ABANDONED_UNACKED" /\ job'[i].status = "ABANDONED"

(* Every row does so, and the table keeps its type.                        *)
HandshakeMoves == job' \in [Interactions -> Rows \cup {NoJob}] /\ \A i \in Interactions : HandshakeMove(i)

(* What no step of anyone takes back from a row.                           *)
RowStands(i) ==
    /\ job[i] # NoJob => job'[i] # NoJob /\ job'[i].intent = job[i].intent
    /\ job[i] # NoJob /\ job[i].handshake # "STAGED" => job'[i].handshake = job[i].handshake

(* A step that leaves the table alone is such a step.                      *)
LEMMA UnchangedMoves ==
    ASSUME ShapeInv, UNCHANGED job
    PROVE  HandshakeMoves
BY DEF ShapeInv, HandshakeMoves, HandshakeMove

(* One row is written.                                                     *)
LEMMA WriteMoves ==
    ASSUME ShapeInv, NEW i \in Interactions, NEW row \in Rows, job' = [job EXCEPT ![i] = row], HandshakeMove(i)
    PROVE  HandshakeMoves /\ job'[i] = row /\ \A j \in Interactions : j # i => job'[j] = job[j]
BY DEF ShapeInv, HandshakeMoves, HandshakeMove

(* Staging inserts a row where there was none and touches no other.        *)
LEMMA StageMoves ==
    ASSUME ShapeInv, NEW r \in Requests, Stage(r)
    PROVE  /\ HandshakeMoves
           /\ job'[InteractionOf(r)] # NoJob
           /\ \A i \in Interactions : job[i] # NoJob => job'[i] = job[i]
           /\ \A i \in Interactions : job'[i].handshake = "ACKNOWLEDGED" => job'[i] = job[i]
           /\ JobOf(r) = NoJob => job'[InteractionOf(r)].intent = delivery[r].intent
<1>0. InteractionOf(r) \in Interactions /\ delivery[r].intent \in Intents
  BY CommandIs
<1>1. CASE JobOf(r) # NoJob
  <2>1. UNCHANGED job
    BY <1>1 DEF Stage
  <2> QED BY <1>1, <2>1, UnchangedMoves DEF JobOf
<1>2. CASE JobOf(r) = NoJob
  <2>1. PICK inTime \in BOOLEAN : Inserts(r, inTime)
    BY <1>2 DEF Stage
  <2> DEFINE row == [status    |-> IF inTime THEN "PENDING" ELSE "ABANDONED",
                     handshake |-> IF inTime THEN "STAGED" ELSE "ABANDONED_UNACKED",
                     intent    |-> delivery[r].intent,
                     staged    |-> IF inTime THEN r ELSE None, attempts |-> 0]
  <2>2. row \in Rows
    BY <1>0 DEF Rows, Terminal
  <2>3. job' = [job EXCEPT ![InteractionOf(r)] = row]
    BY <2>1 DEF Inserts, WriteJob
  <2>4. /\ row.attempts = 0 /\ row.intent = delivery[r].intent
        /\ \/ row.handshake = "STAGED" /\ row.status = "PENDING"
           \/ row.handshake = "ABANDONED_UNACKED" /\ row.status = "ABANDONED"
    OBVIOUS
  <2> HIDE DEF row
  <2>5. job'[InteractionOf(r)] = row
    BY <1>0, <2>3 DEF ShapeInv
  <2>6. HandshakeMove(InteractionOf(r))
    BY <1>2, <2>2, <2>4, <2>5 DEF HandshakeMove, JobOf
  <2>7. HandshakeMoves /\ \A j \in Interactions : j # InteractionOf(r) => job'[j] = job[j]
    BY <1>0, <2>2, <2>3, <2>6, WriteMoves
  <2>8. \A i \in Interactions : job[i] # NoJob => i # InteractionOf(r)
    BY <1>2 DEF JobOf
  <2> QED BY <1>0, <2>2, <2>4, <2>5, <2>7, <2>8, NoJobIs
<1> QED BY <1>1, <1>2

(* Activation acknowledges the row of its own command and touches no       *)
(* other.                                                                  *)
LEMMA ActivatedMoves ==
    ASSUME ShapeInv, NEW r \in Requests, Activates(r), Activated(r)
    PROVE  /\ HandshakeMoves
           /\ job'[InteractionOf(r)].handshake = "ACKNOWLEDGED"
           /\ job'[InteractionOf(r)].intent = delivery[r].intent
           /\ \A i \in Interactions : i # InteractionOf(r) => job'[i] = job[i]
<1> DEFINE i == InteractionOf(r)
           row == [job[i] EXCEPT !.handshake = "ACKNOWLEDGED", !.status = "PENDING", !.staged = None]
<1>1. i \in Interactions /\ job[i].handshake = "STAGED" /\ job[i].status = "PENDING"
      /\ job[i].intent = delivery[r].intent
  BY CommandIs DEF Activates, JobOf, SameDigest
<1>2. job[i] \in Rows
  BY <1>1, RowIs DEF None
<1>3. /\ row \in Rows /\ row.attempts = job[i].attempts /\ row.intent = job[i].intent
      /\ row.handshake = "ACKNOWLEDGED" /\ row.status = "PENDING"
  BY <1>2 DEF Rows
<1>4. job' = [job EXCEPT ![i] = row]
  BY <1>1 DEF Activated, ShapeInv
<1> HIDE DEF row, i
<1>5. job'[i] = row
  BY <1>1, <1>4 DEF ShapeInv
<1>6. HandshakeMove(i)
  BY <1>1, <1>3, <1>5 DEF HandshakeMove
<1>7. HandshakeMoves /\ \A j \in Interactions : j # i => job'[j] = job[j]
  BY <1>1, <1>3, <1>4, <1>6, WriteMoves
<1> QED BY <1>1, <1>3, <1>5, <1>7 DEF i

(* After the settling the job of the command is not staged any more, and   *)
(* nobody's job is acknowledged by it.                                     *)
LEMMA SettleMoves ==
    ASSUME ShapeInv, RowsInv, NEW r \in Requests, SettleHandshake(r)
    PROVE  /\ HandshakeMoves
           /\ ~(job'[InteractionOf(r)].intent = delivery[r].intent /\ job'[InteractionOf(r)].handshake = "STAGED")
           /\ \A i \in Interactions : job'[i].handshake = "ACKNOWLEDGED" => job'[i] = job[i]
           /\ IsPending(r) => job' = job
<1> DEFINE i == InteractionOf(r)
           row == [job[i] EXCEPT !.handshake = "ABANDONED_UNACKED", !.status = "ABANDONED", !.staged = None]
<1>1. i \in Interactions /\ JobOf(r) = job[i]
  BY CommandIs DEF JobOf
<1>2. CASE Settles(r)
  <2>1. job[i].handshake = "STAGED" /\ job[i].status = "PENDING"
    BY <1>2 DEF Settles, JobOf
  <2>2. job[i] \in Rows
    BY <1>1, <2>1, RowIs DEF None
  <2>3. /\ row \in Rows /\ row.attempts = job[i].attempts /\ row.intent = job[i].intent
        /\ row.handshake = "ABANDONED_UNACKED" /\ row.status = "ABANDONED"
    BY <2>2 DEF Rows, Terminal
  <2>4. job' = [job EXCEPT ![i] = row]
    BY <1>1, <1>2 DEF SettleHandshake, ShapeInv
  <2>5. ~IsPending(r)
    BY <2>1 DEF IsPending, JobOf
  <2> HIDE DEF row, i
  <2>6. job'[i] = row
    BY <1>1, <2>4 DEF ShapeInv
  <2>7. HandshakeMove(i)
    BY <2>1, <2>3, <2>6 DEF HandshakeMove
  <2>8. HandshakeMoves /\ \A j \in Interactions : j # i => job'[j] = job[j]
    BY <1>1, <2>3, <2>4, <2>7, WriteMoves
  <2> QED BY <1>1, <2>3, <2>5, <2>6, <2>8 DEF i
<1>3. CASE ~Settles(r)
  <2>1. job' = job
    BY <1>3 DEF SettleHandshake
  <2>2. ~(job[i].intent = delivery[r].intent /\ job[i].handshake = "STAGED")
    BY <1>1, <1>3 DEF Settles, SameDigest, RowsInv
  <2> QED BY <2>1, <2>2, UnchangedMoves
<1> QED BY <1>2, <1>3

(* The handler of a request goes on: of what changed only a settlement is  *)
(* forgotten, and the other requests are not concerned.                    *)
LEMMA ContinuesIs ==
    ASSUME ShapeInv, NEW r \in Requests, NEW c \in RequestStates, Continues(r, c)
    PROVE  /\ request' \in [Requests -> RequestStates]
           /\ request'[r].pipeline = c.pipeline /\ request'[r].timer = c.timer /\ request'[r].answer = c.answer
           /\ request'[r].settlement \in {c.settlement, None}
           /\ \A q \in Requests : q # r => request'[q] = request[q]
<1> DEFINE d == IF Quiet(c) THEN [c EXCEPT !.settlement = None] ELSE c
<1>1. d \in RequestStates /\ d.pipeline = c.pipeline /\ d.timer = c.timer /\ d.answer = c.answer
      /\ d.settlement \in {c.settlement, None}
  BY DEF RequestStates
<1>2. request' = [request EXCEPT ![r] = d]
  BY DEF Continues
<1> HIDE DEF d
<1> QED BY <1>1, <1>2 DEF ShapeInv

(* The values a handler goes on with.                                      *)
LEMMA ChangesAre ==
    ASSUME NEW c \in RequestStates, NEW answer \in {"acknowledged", "rejected"}
    PROVE  /\ Settling(c) \in RequestStates /\ Settling(c).pipeline \in {"settling", "over"}
           /\ Settling(c).timer = c.timer /\ Settling(c).answer = c.answer
           /\ Answered(c, answer) \in RequestStates /\ Answered(c, answer).pipeline = c.pipeline
           /\ Answered(c, answer).timer = c.timer /\ Answered(c, answer).settlement = c.settlement
           /\ Answered(c, answer).answer = IF c.answer = None THEN answer ELSE c.answer
           /\ [c EXCEPT !.pipeline = "over"] \in RequestStates
           /\ [c EXCEPT !.pipeline = "over"].pipeline = "over"
           /\ [c EXCEPT !.pipeline = "over"].answer = c.answer
           /\ [c EXCEPT !.pipeline = "over"].timer = c.timer
<1>1. Settling(c) \in RequestStates /\ Settling(c).pipeline \in {"settling", "over"}
      /\ Settling(c).timer = c.timer /\ Settling(c).answer = c.answer
  BY DEF Settling, RequestStates
<1>2. Answered(c, answer) \in RequestStates /\ Answered(c, answer).pipeline = c.pipeline
      /\ Answered(c, answer).timer = c.timer /\ Answered(c, answer).settlement = c.settlement
      /\ Answered(c, answer).answer = IF c.answer = None THEN answer ELSE c.answer
  BY DEF Answered, RequestStates
<1>3. [c EXCEPT !.pipeline = "over"] \in RequestStates
      /\ [c EXCEPT !.pipeline = "over"].pipeline = "over"
      /\ [c EXCEPT !.pipeline = "over"].answer = c.answer
      /\ [c EXCEPT !.pipeline = "over"].timer = c.timer
  BY DEF RequestStates
<1> QED BY <1>1, <1>2, <1>3

(* What a step of a handler does, to its request and to the jobs.          *)
RouteFrame ==
    /\ UNCHANGED <<delivery, worker, booking, fence, crashes, lapses>>
    /\ UNCHANGED failures \/ Fails

(* What a step of the route does to its request and to the table: an       *)
(* answer stands, a yes is given with the job acknowledged, and who goes   *)
(* on to activate after the answer finds the job staged no more.           *)
RouteFacts(r) ==
    /\ HandshakeMoves
    /\ request' \in [Requests -> RequestStates]
    /\ \A q \in Requests : q # r => request'[q] = request[q]
    /\ request[r].answer # None => request'[r].answer = request[r].answer
    /\ request'[r].answer = "acknowledged" /\ request[r].answer = None =>
         /\ job'[InteractionOf(r)].intent = delivery[r].intent
         /\ job'[InteractionOf(r)].handshake = "ACKNOWLEDGED"
    /\ request'[r].pipeline = "activating" => job'[InteractionOf(r)] # NoJob
    /\ /\ request'[r].pipeline \in {"resolving", "staging", "activating"}
       /\ request'[r].answer # None \/ request'[r].settlement # None
       => request'[r].timer
    /\ request'[r].pipeline = "activating" /\ request'[r].answer # None /\ failures' = 0
       => ~(/\ job'[InteractionOf(r)].intent = delivery[r].intent
            /\ job'[InteractionOf(r)].handshake = "STAGED")
    /\ failures' = 0 => \A i \in Interactions :
         job'[i].handshake = "ACKNOWLEDGED" /\ job'[i].attempts = 0 =>
            \/ job[i].handshake = "ACKNOWLEDGED" /\ job[i].attempts = 0
            \/ i = InteractionOf(r) /\ request'[r].answer = "acknowledged"

(* Each of the five steps of the route does that, and so does their        *)
(* disjunction.                                                            *)
LEMMA ResolveFacts ==
    ASSUME ButtonsInv, NEW r \in Requests, ResolveCommand(r)
    PROVE  RouteFrame /\ RouteFacts(r)
<1>0. ShapeInv /\ AnswersInv /\ request[r] \in RequestStates /\ InteractionOf(r) \in Interactions
  BY CommandIs DEF ButtonsInv
<1>1. HandshakeMoves /\ job' = job
  BY <1>0, UnchangedMoves DEF ResolveCommand, jobs
<1>2. RouteFrame
  BY DEF ResolveCommand, RouteFrame, jobs, bounds
<1>3. request[r].pipeline = "resolving"
  BY DEF ResolveCommand, At
<1>4. CASE ~request[r].timer /\ Continues(r, [request[r] EXCEPT !.pipeline = "staging"])
  <2> DEFINE c == [request[r] EXCEPT !.pipeline = "staging"]
  <2>1. c \in RequestStates /\ c.pipeline = "staging" /\ c.answer = request[r].answer
        /\ c.settlement = request[r].settlement /\ c.timer = request[r].timer
    BY <1>0 DEF RequestStates
  <2>2. c.answer = None /\ c.settlement = None
    BY <1>0, <1>3, <1>4, <2>1 DEF AnswersInv
  <2>3. Continues(r, c)
    BY <1>4
  <2> HIDE DEF c
  <2>4. request'[r].pipeline = "staging" /\ request'[r].answer = None /\ request'[r].settlement = None
    BY <1>0, <2>1, <2>2, <2>3, ContinuesIs
  <2> QED BY <1>0, <1>1, <1>2, <2>1, <2>2, <2>3, <2>4, ContinuesIs DEF RouteFacts, None
<1>5. CASE Continues(r, Answered(Over(r), "rejected"))
  <2>1. Over(r) \in RequestStates /\ Over(r).pipeline = "over" /\ Over(r).answer = request[r].answer
    BY <1>0 DEF RequestStates, Over
  <2>2. Answered(Over(r), "rejected") \in RequestStates /\ Answered(Over(r), "rejected").pipeline = "over"
        /\ Answered(Over(r), "rejected").answer = IF request[r].answer = None THEN "rejected" ELSE request[r].answer
    BY <2>1, ChangesAre
  <2> QED BY <1>0, <1>1, <1>2, <1>5, <2>2, ContinuesIs DEF RouteFacts
<1> QED BY <1>4, <1>5 DEF ResolveCommand

LEMMA StageFacts ==
    ASSUME ButtonsInv, NEW r \in Requests, StageStep(r)
    PROVE  RouteFrame /\ RouteFacts(r)
<1>0. ShapeInv /\ AnswersInv /\ request[r] \in RequestStates /\ InteractionOf(r) \in Interactions
      /\ failures \in Nat
  BY CommandIs DEF ButtonsInv, ShapeInv
<1>1. RouteFrame
  BY DEF StageStep, RouteFrame
<1>2. request[r].pipeline = "staging"
  BY DEF StageStep, At
<1>3. HandshakeMoves /\ \A i \in Interactions : job'[i].handshake = "ACKNOWLEDGED" => job'[i] = job[i]
  <2>1. Stage(r) \/ UNCHANGED job
    BY DEF StageStep
  <2> QED BY <1>0, <2>1, StageMoves, UnchangedMoves
<1>4. ASSUME NEW c \in RequestStates, Continues(r, c), c.pipeline # "activating", c.timer = request[r].timer,
             c.answer = request[r].answer \/ (request[r].answer = None /\ c.answer = "rejected"),
             c.pipeline \in {"settling", "over"}
      PROVE  RouteFacts(r)
  BY <1>0, <1>3, <1>4, ContinuesIs DEF RouteFacts, None
<1>5. CASE Continues(r, Settling(request[r]))
  <2> DEFINE c == Settling(request[r])
  <2>1. c \in RequestStates /\ c.pipeline \in {"settling", "over"} /\ c.timer = request[r].timer
        /\ c.answer = request[r].answer
    BY <1>0, ChangesAre
  <2>2. Continues(r, c)
    BY <1>5
  <2> HIDE DEF c
  <2> QED BY <1>1, <1>4, <2>1, <2>2
<1>6. CASE Continues(r, Answered(Over(r), "rejected"))
  <2>1. Over(r) \in RequestStates /\ Over(r).pipeline = "over" /\ Over(r).answer = request[r].answer
        /\ Over(r).timer = request[r].timer
    BY <1>0 DEF RequestStates, Over
  <2> DEFINE c == Answered(Over(r), "rejected")
  <2>2. c \in RequestStates /\ c.pipeline = "over" /\ c.timer = request[r].timer
        /\ c.answer = IF request[r].answer = None THEN "rejected" ELSE request[r].answer
    BY <2>1, ChangesAre
  <2>3. Continues(r, c)
    BY <1>6
  <2> HIDE DEF c
  <2> QED BY <1>1, <1>4, <2>2, <2>3
<1>7. CASE Stage(r) /\ ~request[r].timer /\ Continues(r, [request[r] EXCEPT !.pipeline = "activating"])
  <2> DEFINE c == [request[r] EXCEPT !.pipeline = "activating"]
  <2>1. c \in RequestStates /\ c.pipeline = "activating" /\ c.answer = request[r].answer
        /\ c.settlement = request[r].settlement /\ c.timer = request[r].timer
    BY <1>0 DEF RequestStates
  <2>2. c.answer = None /\ c.settlement = None
    BY <1>0, <1>2, <1>7, <2>1 DEF AnswersInv
  <2>3. Continues(r, c)
    BY <1>7
  <2>4. job'[InteractionOf(r)] # NoJob
    BY <1>0, <1>7, StageMoves
  <2> HIDE DEF c
  <2>5. request'[r].pipeline = "activating" /\ request'[r].answer = None /\ request'[r].settlement = None
    BY <1>0, <2>1, <2>2, <2>3, ContinuesIs
  <2> QED BY <1>0, <1>1, <1>3, <2>1, <2>2, <2>3, <2>4, <2>5, ContinuesIs DEF RouteFacts, None
<1> QED BY <1>5, <1>6, <1>7 DEF StageStep

LEMMA ActivateFacts ==
    ASSUME ButtonsInv, NEW r \in Requests, ActivateStep(r)
    PROVE  RouteFrame /\ RouteFacts(r)
<1>0. ShapeInv /\ AnswersInv /\ request[r] \in RequestStates /\ InteractionOf(r) \in Interactions
      /\ failures \in Nat
  BY CommandIs DEF ButtonsInv, ShapeInv
<1>1. RouteFrame
  BY DEF ActivateStep, RouteFrame
<1>2. request[r].pipeline = "activating"
  BY DEF ActivateStep, At
<1>3. Over(r) \in RequestStates /\ Over(r).pipeline = "over" /\ Over(r).answer = request[r].answer
  BY <1>0 DEF RequestStates, Over
<1> DEFINE c == Answered(Over(r), "acknowledged")
<1>4. c \in RequestStates /\ c.pipeline = "over"
      /\ c.answer = IF request[r].answer = None THEN "acknowledged" ELSE request[r].answer
  BY <1>3, ChangesAre
<1> DEFINE s == Settling(request[r])
<1>5. s \in RequestStates /\ s.pipeline \in {"settling", "over"} /\ s.answer = request[r].answer
  BY <1>0, ChangesAre
<1>6. CASE Activates(r) /\ Activated(r)
  <2>1. HandshakeMoves /\ job'[InteractionOf(r)].handshake = "ACKNOWLEDGED"
        /\ job'[InteractionOf(r)].intent = delivery[r].intent
        /\ \A i \in Interactions : i # InteractionOf(r) => job'[i] = job[i]
    BY <1>0, <1>6, ActivatedMoves
  <2>2. CASE Continues(r, c) /\ UNCHANGED failures
    <3>1. failures = 0 => request[r].answer = None
      BY <1>0, <1>2, <1>6 DEF AnswersInv, Activates
    <3> HIDE DEF c
    <3> QED BY <1>0, <1>1, <1>4, <2>1, <2>2, <3>1, ContinuesIs DEF RouteFacts
  <2>3. CASE Fails /\ Continues(r, s)
    <3>1. failures' # 0
      BY <1>0, <2>3 DEF Fails
    <3> HIDE DEF s
    <3> QED BY <1>0, <1>1, <1>5, <2>1, <2>3, <3>1, ContinuesIs DEF RouteFacts
  <2>4. (Continues(r, c) /\ UNCHANGED failures) \/ (Fails /\ Continues(r, s)) \/ (UNCHANGED job)
    BY DEF ActivateStep
  <2>5. ~UNCHANGED job
    BY <2>1, <1>6 DEF Activates, JobOf
  <2> QED BY <2>2, <2>3, <2>4, <2>5
<1>7. CASE UNCHANGED job
  <2>1. HandshakeMoves
    BY <1>0, <1>7, UnchangedMoves
  <2>2. job[InteractionOf(r)] # NoJob
    BY <1>0, <1>2 DEF AnswersInv, JobOf
  <2>3. CASE Continues(r, c) /\ IsPending(r)
    <3>1. job[InteractionOf(r)].handshake = "ACKNOWLEDGED" /\ job[InteractionOf(r)].intent = delivery[r].intent
      BY <2>3 DEF IsPending, SameDigest, JobOf
    <3> HIDE DEF c
    <3> QED BY <1>0, <1>1, <1>4, <1>7, <2>1, <2>3, <3>1, ContinuesIs DEF RouteFacts
  <2>4. CASE Continues(r, s)
    <3> HIDE DEF s
    <3> QED BY <1>0, <1>1, <1>5, <1>7, <2>1, <2>2, <2>4, ContinuesIs DEF RouteFacts, None
  <2>5. (Continues(r, c) /\ IsPending(r)) \/ Continues(r, s) \/ (Activates(r) /\ Activated(r))
    BY DEF ActivateStep
  <2> QED BY <1>6, <2>3, <2>4, <2>5
<1> QED BY <1>6, <1>7 DEF ActivateStep

LEMMA SettleFacts ==
    ASSUME ButtonsInv, NEW r \in Requests, SettleStep(r)
    PROVE  RouteFrame /\ RouteFacts(r)
<1>0. ShapeInv /\ AnswersInv /\ RowsInv /\ request[r] \in RequestStates /\ InteractionOf(r) \in Interactions
      /\ failures \in Nat
  BY CommandIs DEF ButtonsInv, ShapeInv
<1>1. RouteFrame
  BY DEF SettleStep, RouteFrame
<1>2. request[r].settlement = "running"
  BY DEF SettleStep
<1> DEFINE b == [request[r] EXCEPT !.settlement = "over",
                     !.pipeline = IF @ = "settling" THEN "over" ELSE @]
<1>3. /\ b \in RequestStates /\ b.timer = request[r].timer /\ b.answer = request[r].answer
      /\ b.pipeline \in {request[r].pipeline, "over"}
  BY <1>0 DEF RequestStates
<1> DEFINE a == IF IsPending(r) THEN "acknowledged" ELSE "rejected"
<1>4. PICK answer \in {"acknowledged", "rejected"} :
        /\ Continues(r, Answered(b, answer))
        /\ \/ SettleHandshake(r) /\ UNCHANGED failures /\ answer = a
           \/ (SettleHandshake(r) \/ UNCHANGED job) /\ Fails /\ answer = "rejected"
  <2>1. \A answer : Settled(r, answer) <=> Continues(r, Answered(b, answer))
    BY DEF Settled
  <2> HIDE DEF b
  <2> QED BY <2>1 DEF SettleStep
<1> DEFINE c == Answered(b, answer)
<1> HIDE DEF b
<1>5. /\ c \in RequestStates /\ c.timer = request[r].timer /\ c.pipeline \in {request[r].pipeline, "over"}
      /\ c.answer = IF request[r].answer = None THEN answer ELSE request[r].answer
  BY <1>3, ChangesAre
<1>6. HandshakeMoves /\ \A i \in Interactions : job'[i].handshake = "ACKNOWLEDGED" => job'[i] = job[i]
  <2>1. SettleHandshake(r) \/ UNCHANGED job
    BY <1>4
  <2> QED BY <1>0, <2>1, SettleMoves, UnchangedMoves
<1>7. answer = "acknowledged" => /\ job'[InteractionOf(r)].intent = delivery[r].intent
                                 /\ job'[InteractionOf(r)].handshake = "ACKNOWLEDGED"
  <2> SUFFICES ASSUME answer = "acknowledged"
      PROVE  /\ job'[InteractionOf(r)].intent = delivery[r].intent
             /\ job'[InteractionOf(r)].handshake = "ACKNOWLEDGED"
    OBVIOUS
  <2>1. SettleHandshake(r) /\ IsPending(r)
    BY <1>4
  <2> QED BY <1>0, <2>1, SettleMoves DEF IsPending, SameDigest, JobOf
<1>8. failures' = 0 => ~(/\ job'[InteractionOf(r)].intent = delivery[r].intent
                         /\ job'[InteractionOf(r)].handshake = "STAGED")
  <2>1. ~(failures' = 0 /\ Fails)
    BY <1>0 DEF Fails
  <2> QED BY <1>0, <1>4, <2>1, SettleMoves
<1>9. Continues(r, c)
  BY <1>4
<1>10. request[r].pipeline \in {"resolving", "staging", "activating"} => request[r].timer
  BY <1>0, <1>2 DEF AnswersInv, None
<1>11. request[r].pipeline = "activating" => job'[InteractionOf(r)] # NoJob
  BY <1>0, <1>6, NoJobIs DEF AnswersInv, JobOf, HandshakeMoves, HandshakeMove
<1> HIDE DEF c
<1> QED BY <1>0, <1>1, <1>5, <1>6, <1>7, <1>8, <1>9, <1>10, <1>11, ContinuesIs DEF RouteFacts

LEMMA DeadlineFacts ==
    ASSUME ButtonsInv, NEW r \in Requests, Deadline(r)
    PROVE  RouteFrame /\ RouteFacts(r)
<1>0. ShapeInv /\ AnswersInv /\ request[r] \in RequestStates /\ InteractionOf(r) \in Interactions
  BY CommandIs DEF ButtonsInv
<1>1. HandshakeMoves /\ job' = job
  BY <1>0, UnchangedMoves DEF Deadline, jobs
<1>2. RouteFrame
  BY DEF Deadline, RouteFrame, jobs, bounds
<1> DEFINE n == [request[r] EXCEPT !.timer = TRUE]
<1>3. n \in RequestStates /\ n.timer = TRUE /\ n.answer = None /\ n.pipeline = request[r].pipeline
  BY <1>0 DEF RequestStates, Deadline
<1>4. PICK c \in RequestStates : /\ Continues(r, c) /\ c.timer = TRUE /\ c.pipeline = request[r].pipeline
                                 /\ c.answer = None \/ (c.answer = "rejected" /\ At(r, "resolving"))
  <2> DEFINE c == IF At(r, "resolving") THEN Answered(n, "rejected")
                  ELSE IF n.settlement = None THEN [n EXCEPT !.settlement = "running"] ELSE n
  <2>1. Continues(r, c)
    BY DEF Deadline
  <2>2. [n EXCEPT !.settlement = "running"] \in RequestStates
        /\ [n EXCEPT !.settlement = "running"].timer = TRUE
        /\ [n EXCEPT !.settlement = "running"].answer = None
        /\ [n EXCEPT !.settlement = "running"].pipeline = request[r].pipeline
    BY <1>3 DEF RequestStates
  <2> HIDE DEF n
  <2>3. Answered(n, "rejected") \in RequestStates /\ Answered(n, "rejected").timer = TRUE
        /\ Answered(n, "rejected").answer = "rejected"
        /\ Answered(n, "rejected").pipeline = request[r].pipeline
    BY <1>3, ChangesAre
  <2>4. /\ c \in RequestStates /\ c.timer = TRUE /\ c.pipeline = request[r].pipeline
        /\ c.answer = None \/ (c.answer = "rejected" /\ At(r, "resolving"))
    <3>1. CASE At(r, "resolving")
      <4>1. c = Answered(n, "rejected")
        BY <3>1
      <4> HIDE DEF c
      <4> QED BY <2>3, <3>1, <4>1
    <3>2. CASE ~At(r, "resolving") /\ n.settlement = None
      <4>1. c = [n EXCEPT !.settlement = "running"]
        BY <3>2
      <4> HIDE DEF c
      <4> QED BY <2>2, <4>1
    <3>3. CASE ~At(r, "resolving") /\ n.settlement # None
      <4>1. c = n
        BY <3>3
      <4> HIDE DEF c
      <4> QED BY <1>3, <4>1
    <3> QED BY <3>1, <3>2, <3>3
  <2> HIDE DEF c
  <2> QED BY <2>1, <2>4
<1>5. request[r].answer = None
  BY DEF Deadline
<1>6. c.pipeline = "activating" => c.answer = None /\ job[InteractionOf(r)] # NoJob
  BY <1>0, <1>4 DEF At, AnswersInv, JobOf
<1>7. c.answer # "acknowledged"
  BY <1>4 DEF None
<1> QED BY <1>0, <1>1, <1>2, <1>4, <1>5, <1>6, <1>7, ContinuesIs DEF RouteFacts

LEMMA RouteSteps ==
    ASSUME ButtonsInv, NEW r \in Requests, Route(r)
    PROVE  RouteFrame /\ RouteFacts(r)
BY ResolveFacts, StageFacts, ActivateFacts, SettleFacts, DeadlineFacts DEF Route

(* The handshake leaves the rows of acknowledged jobs alone.               *)
LEMMA MovesStand ==
    ASSUME HandshakeMoves, NEW i \in Interactions
    PROVE  /\ RowStands(i)
           /\ job[i].handshake = "ACKNOWLEDGED" => job'[i] = job[i]
           /\ job'[i].handshake = "ACKNOWLEDGED" /\ job[i].handshake # "ACKNOWLEDGED" => job'[i].attempts = job[i].attempts
           /\ job'[i].status \in {job[i].status, "PENDING", "ABANDONED"}
           /\ job[i].status \in Terminal => job'[i] = job[i]
<1>1. HandshakeMove(i)
  BY DEF HandshakeMoves
<1> QED BY <1>1, NoJobIs DEF HandshakeMove, RowStands, None, Terminal

(* The answers, when a handler takes a step;                               *)
LEMMA AnswersOfRoute ==
    ASSUME ButtonsInv, NEW r \in Requests, RouteFrame, RouteFacts(r)
    PROVE  AnswersInv'
<1>0. ShapeInv /\ AnswersInv /\ failures \in Nat /\ (failures' = 0 => failures = 0) /\ delivery' = delivery
  BY DEF ButtonsInv, ShapeInv, RouteFrame, Fails
<1>1. \A q \in Requests : InteractionOf(q) \in Interactions /\ RowStands(InteractionOf(q))
  BY <1>0, CommandIs, MovesStand DEF RouteFacts
<1>2. \A q \in Requests : request[q] \in RequestStates /\ request'[q] \in RequestStates
  BY <1>0 DEF ShapeInv, RouteFacts
<1>3. ASSUME NEW q \in Requests, request'[q].answer = "acknowledged"
      PROVE  job'[InteractionOf(q)].intent = delivery[q].intent
             /\ job'[InteractionOf(q)].handshake = "ACKNOWLEDGED"
  <2>1. CASE request[q].answer = "acknowledged"
    <3>1. job[InteractionOf(q)].intent = delivery[q].intent
          /\ job[InteractionOf(q)].handshake = "ACKNOWLEDGED"
      BY <1>0, <2>1 DEF AnswersInv, AcknowledgedIsQueued, SameDigest, JobOf
    <3> QED BY <1>1, <3>1, NoJobIs DEF RowStands, None
  <2>2. CASE request[q].answer # "acknowledged"
    <3>1. q = r /\ request[q].answer = None
      BY <1>2, <1>3, <2>2 DEF RouteFacts
    <3> QED BY <1>3, <3>1 DEF RouteFacts
  <2> QED BY <2>1, <2>2
<1>4. AcknowledgedIsQueued'
  BY <1>0, <1>3 DEF AcknowledgedIsQueued, SameDigest, JobOf, InteractionOf
<1>5. ASSUME NEW q \in Requests, request'[q].pipeline = "activating"
      PROVE  job'[InteractionOf(q)] # NoJob
  <2>1. CASE q = r
    BY <1>5, <2>1 DEF RouteFacts
  <2>2. CASE q # r
    BY <1>0, <1>1, <1>5, <2>2 DEF RouteFacts, AnswersInv, JobOf, RowStands
  <2> QED BY <2>1, <2>2
<1>6. ASSUME NEW q \in Requests, request'[q].pipeline \in {"resolving", "staging", "activating"},
             request'[q].answer # None \/ request'[q].settlement # None
      PROVE  request'[q].timer
  BY <1>0, <1>6 DEF RouteFacts, AnswersInv
<1>7. ASSUME NEW q \in Requests, request'[q].pipeline = "activating", request'[q].answer # None, failures' = 0
      PROVE  ~(/\ job'[InteractionOf(q)].intent = delivery[q].intent
               /\ job'[InteractionOf(q)].handshake = "STAGED")
  <2>1. CASE q = r
    BY <1>7, <2>1 DEF RouteFacts
  <2>2. CASE q # r
    <3>1. /\ request[q].pipeline = "activating" /\ request[q].answer # None /\ failures = 0
      BY <1>0, <1>7, <2>2 DEF RouteFacts
    <3>2. /\ job[InteractionOf(q)] # NoJob
          /\ ~(job[InteractionOf(q)].intent = delivery[q].intent /\ job[InteractionOf(q)].handshake = "STAGED")
      BY <1>0, <3>1 DEF AnswersInv, SameDigest, JobOf
    <3> QED BY <1>1, <3>2 DEF RowStands
  <2> QED BY <2>1, <2>2
<1>8. ASSUME failures' = 0, NEW i \in Interactions, job'[i].handshake = "ACKNOWLEDGED", job'[i].attempts = 0
      PROVE  \E q \in Requests : InteractionOf(q) = i /\ request'[q].answer = "acknowledged"
  <2>1. CASE job[i].handshake = "ACKNOWLEDGED" /\ job[i].attempts = 0
    <3>1. PICK q \in Requests : InteractionOf(q) = i /\ request[q].answer = "acknowledged"
      BY <1>0, <1>8, <2>1 DEF AnswersInv
    <3>2. request'[q].answer = "acknowledged"
      BY <3>1 DEF RouteFacts, None
    <3> QED BY <3>1, <3>2
  <2>2. CASE i = InteractionOf(r) /\ request'[r].answer = "acknowledged"
    BY <2>2
  <2> QED BY <1>8, <2>1, <2>2 DEF RouteFacts
<1>9. \A q \in Requests : InteractionOf(q)' = InteractionOf(q)
  BY <1>0 DEF InteractionOf
<1> QED BY <1>0, <1>4, <1>5, <1>6, <1>7, <1>8, <1>9 DEF AnswersInv, SameDigest, JobOf

(* and when somebody else does.                                            *)
LEMMA AnswersOfOthers ==
    ASSUME ButtonsInv, UNCHANGED <<delivery, request>>, failures' \in {failures, failures + 1},
           \A i \in Interactions : RowStands(i),
           \A i \in Interactions : job'[i].handshake = "ACKNOWLEDGED" /\ job'[i].attempts = 0
               => job[i].handshake = "ACKNOWLEDGED" /\ job[i].attempts = 0
    PROVE  AnswersInv'
<1>0. ShapeInv /\ AnswersInv /\ failures \in Nat /\ (failures' = 0 => failures = 0)
  BY DEF ButtonsInv, ShapeInv
<1>1. \A q \in Requests : InteractionOf(q) \in Interactions /\ InteractionOf(q)' = InteractionOf(q)
  BY <1>0, CommandIs DEF InteractionOf
<1>2. ASSUME NEW q \in Requests, request[q].answer = "acknowledged"
      PROVE  job'[InteractionOf(q)].intent = delivery[q].intent
             /\ job'[InteractionOf(q)].handshake = "ACKNOWLEDGED"
  <2>1. job[InteractionOf(q)].intent = delivery[q].intent /\ job[InteractionOf(q)].handshake = "ACKNOWLEDGED"
    BY <1>0, <1>2 DEF AnswersInv, AcknowledgedIsQueued, SameDigest, JobOf
  <2> QED BY <1>1, <2>1, NoJobIs DEF RowStands, None
<1>3. AcknowledgedIsQueued'
  BY <1>1, <1>2 DEF AcknowledgedIsQueued, SameDigest, JobOf
<1>4. ASSUME NEW q \in Requests, request[q].pipeline = "activating"
      PROVE  /\ job'[InteractionOf(q)] # NoJob
             /\ request[q].answer # None /\ failures' = 0
                => ~(/\ job'[InteractionOf(q)].intent = delivery[q].intent
                     /\ job'[InteractionOf(q)].handshake = "STAGED")
  <2>1. /\ job[InteractionOf(q)] # NoJob
        /\ request[q].answer # None /\ failures' = 0
           => ~(job[InteractionOf(q)].intent = delivery[q].intent /\ job[InteractionOf(q)].handshake = "STAGED")
    BY <1>0, <1>4 DEF AnswersInv, SameDigest, JobOf
  <2> QED BY <1>1, <2>1 DEF RowStands
<1>5. failures' = 0 => \A i \in Interactions :
         job'[i].handshake = "ACKNOWLEDGED" /\ job'[i].attempts = 0 =>
            \E q \in Requests : InteractionOf(q) = i /\ request[q].answer = "acknowledged"
  BY <1>0 DEF AnswersInv
<1>6. \A q \in Requests :
        /\ request[q].pipeline \in {"resolving", "staging", "activating"}
        /\ request[q].answer # None \/ request[q].settlement # None
        => request[q].timer
  BY <1>0 DEF AnswersInv
<1> QED BY <1>1, <1>3, <1>4, <1>5, <1>6 DEF AnswersInv, SameDigest, JobOf

(* The runs and what they wrote are not concerned by the handshake.        *)
LEMMA HandshakeKeeps ==
    ASSUME ButtonsInv, NEW r \in Requests, RouteFrame, RouteFacts(r)
    PROVE  ShapeInv' /\ RowsInv' /\ ClaimsInv' /\ AttemptsInv' /\ FenceInv' /\ RecordsInv'
<1>0. /\ ShapeInv /\ RowsInv /\ ClaimsInv /\ AttemptsInv /\ FenceInv /\ RecordsInv
      /\ HandshakeMoves /\ job' \in [Interactions -> Rows \cup {NoJob}]
      /\ failures' \in Nat
      /\ UNCHANGED <<delivery, worker, reservation, decision, closed, receipt, performed, control, operator,
                     crashes, lapses>>
  BY DEF ButtonsInv, ShapeInv, RouteFrame, RouteFacts, Fails, HandshakeMoves, booking, fence
<1>1. \A i \in Interactions :
        /\ RowStands(i) /\ (job[i].handshake = "ACKNOWLEDGED" => job'[i] = job[i])
        /\ job'[i].status \in {job[i].status, "PENDING", "ABANDONED"}
  BY <1>0, MovesStand
<1>2. ShapeInv'
  BY <1>0 DEF ShapeInv, RouteFacts
<1>3. RowsInv'
  <2> SUFFICES ASSUME NEW i \in Interactions
               PROVE  /\ job'[i].handshake = "STAGED" => job'[i].status = "PENDING"
                      /\ job'[i].handshake = "ABANDONED_UNACKED" => job'[i].status = "ABANDONED"
                      /\ job'[i].handshake # "ACKNOWLEDGED" => job'[i].attempts = 0 /\ receipt[i] = None
                      /\ job'[i].status = "PENDING" => job'[i].attempts = 0
                      /\ job'[i].status = "RETRY" => job'[i].attempts < MaxAttempts
    BY <1>0 DEF RowsInv
  <2>1. HandshakeMove(i)
    BY <1>0 DEF HandshakeMoves
  <2> QED BY <1>0, <2>1, NoJobIs DEF RowsInv, HandshakeMove, None
<1>4. \A w \in Workers, i \in Interactions : Claims(w, i) => job[i].handshake = "ACKNOWLEDGED"
  BY <1>0 DEF ClaimsInv, Claims, Holds
<1>5. \A w \in Workers : Holds(w)' = Holds(w) /\ Holds(w) \subseteq Interactions
  BY <1>0, RunIs DEF Holds
<1>6. \A w \in Workers, i \in Interactions : Claims(w, i)' <=> Claims(w, i)
  <2> SUFFICES ASSUME NEW w \in Workers, NEW i \in Interactions PROVE Claims(w, i)' <=> Claims(w, i)
    OBVIOUS
  <2>1. i \in Holds(w) => job'[i] = job[i]
    BY <1>0, <1>1 DEF ClaimsInv
  <2> QED BY <1>0, <2>1 DEF Claims, Holds
<1>7. ClaimsInv'
  <2>1. \A w \in Workers : \A i \in Holds(w) :
         /\ job'[i].handshake = "ACKNOWLEDGED"
         /\ worker[w].claims[i] <= job'[i].attempts
         /\ Claims(w, i) => job'[i].status = "PROCESSING"
         /\ lapses = 0 => Claims(w, i)
    <3> SUFFICES ASSUME NEW w \in Workers, NEW i \in Holds(w)
                 PROVE  /\ job'[i].handshake = "ACKNOWLEDGED"
                        /\ worker[w].claims[i] <= job'[i].attempts
                        /\ Claims(w, i) => job'[i].status = "PROCESSING"
                        /\ lapses = 0 => Claims(w, i)
      OBVIOUS
    <3>1. /\ job[i].handshake = "ACKNOWLEDGED"
          /\ worker[w].claims[i] <= job[i].attempts
          /\ Claims(w, i) => job[i].status = "PROCESSING"
          /\ lapses = 0 => Claims(w, i)
      BY <1>0 DEF ClaimsInv
    <3>2. job'[i] = job[i]
      BY <1>1, <1>5, <3>1
    <3> QED BY <3>1, <3>2
  <2>2. \A w \in Workers : \A i \in Holds(w) : Claims(w, i)' <=> Claims(w, i)
    BY <1>5, <1>6
  <2> QED BY <1>0, <1>5, <1>6, <2>1, <2>2 DEF ClaimsInv
<1>8. AttemptsInv'
  <2>1. crashes \in Nat /\ failures \in Nat /\ lapses \in Nat /\ failures' \in Nat
    BY <1>0 DEF ShapeInv
  <2>2. Faults \in Nat /\ Faults' \in Nat /\ Faults <= Faults' /\ Faults' <= MaxFaults
    <3>1. failures' = failures \/ (failures' = failures + 1 /\ Faults < MaxFaults)
      BY DEF RouteFrame, Fails
    <3>2. Faults = crashes + failures + lapses /\ Faults' = crashes + failures' + lapses /\ Faults <= MaxFaults
      BY <1>0 DEF Faults, AttemptsInv
    <3>3. MaxFaults \in Nat
      BY ButtonBounds
    <3>4. Faults \in Nat /\ Faults <= MaxFaults
      BY <2>1, <3>2
    <3>5. Faults' = Faults \/ (Faults' = Faults + 1 /\ Faults < MaxFaults)
      <4>1. crashes' = crashes /\ lapses' = lapses
        BY <1>0
      <4>2. CASE failures' = failures
        BY <4>1, <4>2 DEF Faults
      <4>3. CASE failures' = failures + 1 /\ Faults < MaxFaults
        <5>1. crashes + (failures + 1) + lapses = crashes + failures + lapses + 1
          BY <2>1
        <5> QED BY <4>1, <4>3, <5>1 DEF Faults
      <4> QED BY <3>1, <4>2, <4>3
    <3> QED BY <3>3, <3>4, <3>5
  <2>3. \A w \in Workers : Intact(w)' <=> Intact(w)
    BY <1>5, <1>6 DEF Intact
  <2>4. ASSUME NEW i \in Interactions
        PROVE  /\ job'[i].attempts \in Nat /\ job[i].attempts \in Nat
               /\ job'[i].attempts <= job[i].attempts
               /\ job'[i].status = "PROCESSING" => job[i].status = "PROCESSING"
    <3>1. HandshakeMove(i) /\ job'[i] \in Rows \cup {NoJob} /\ job[i] \in Rows \cup {NoJob}
      BY <1>0 DEF HandshakeMoves, ShapeInv
    <3>2. job'[i].attempts \in Nat /\ job[i].attempts \in Nat
      BY <3>1, NoJobIs DEF Rows
    <3> QED BY <1>1, <3>1, <3>2, NoJobIs DEF HandshakeMove
  <2>5. ASSUME NEW i \in Interactions
        PROVE  /\ job'[i].attempts <= MaxAttempts + Faults'
               /\ job'[i].status = "PROCESSING" /\ (\A w \in Workers : Claims(w, i) => ~Intact(w))
                    => job'[i].attempts < MaxAttempts + Faults'
    <3>1. /\ job[i].attempts <= MaxAttempts + Faults
          /\ job[i].status = "PROCESSING" /\ (\A w \in Workers : Claims(w, i) => ~Intact(w))
                    => job[i].attempts < MaxAttempts + Faults
      BY <1>0 DEF AttemptsInv
    <3> HIDE DEF Faults
    <3> QED BY <2>2, <2>4, <3>1, ButtonBounds
  <2> QED BY <1>6, <2>2, <2>3, <2>5 DEF AttemptsInv
<1>9. FenceInv'
  <2>1. \A i \in Interactions : job'[i].status = "PROCESSING" => job[i].status = "PROCESSING"
    BY <1>1
  <2> QED BY <1>0, <2>1 DEF FenceInv, OldMutations
<1>10. RecordsInv'
  <2>1. OnceAndOnRecord'
    BY <1>0 DEF RecordsInv, OnceAndOnRecord
  <2>2. ASSUME NEW i \in Interactions, job'[i].status = "SUCCEEDED"
        PROVE  IF job'[i].intent \in {"admin_cancel", "no_show"} THEN performed[i] = 1
               ELSE decision # None \/ reservation # "CONFIRMED"
    <3>1. job[i].status = "SUCCEEDED" /\ job'[i].intent = job[i].intent
      BY <1>1, <2>2, NoJobIs DEF RowStands, None
    <3> QED BY <1>0, <3>1 DEF RecordsInv, SucceededIsTrue
  <2>3. SucceededIsTrue'
    BY <1>0, <2>2 DEF SucceededIsTrue
  <2>4. ASSUME NEW w \in Workers, worker[w].phase = "finishing", worker[w].outcome = "SUCCEEDED"
        PROVE  Decided(worker[w].current)'
    <3>1. worker[w].current \in Holds(w) /\ Decided(worker[w].current)
      BY <1>0, <2>4 DEF ClaimsInv, RecordsInv
    <3>2. worker[w].current \in Interactions /\ job'[worker[w].current] = job[worker[w].current]
      BY <1>0, <1>1, <1>5, <3>1 DEF ClaimsInv
    <3> QED BY <1>0, <3>1, <3>2 DEF Decided, QuestionSettled
  <2> QED BY <1>0, <2>1, <2>3, <2>4 DEF RecordsInv
<1> QED BY <1>2, <1>3, <1>7, <1>8, <1>9, <1>10

-----------------------------------------------------------------------------
(* The runs.                                                               *)

(* The faults are a number that the bound covers.                          *)
LEMMA FaultsAre ==
    ASSUME ButtonsInv
    PROVE  Faults \in Nat /\ Faults <= MaxFaults /\ crashes \in Nat /\ failures \in Nat /\ lapses \in Nat
BY DEF ButtonsInv, ShapeInv, AttemptsInv, Faults

(* The attempts of a job are a number.                                     *)
LEMMA AttemptsAre ==
    ASSUME ShapeInv, NEW i \in Interactions
    PROVE  job[i].attempts \in Nat /\ job[i] \in Rows \cup {NoJob}
<1>1. job[i] \in Rows \cup {NoJob}
  BY DEF ShapeInv
<1> QED BY <1>1, NoJobIs DEF Rows

(* A row that is claimed.                                                  *)
LEMMA RowsClaimed ==
    ASSUME NEW row \in Rows
    PROVE  LET next == [row EXCEPT !.status = "PROCESSING", !.attempts = @ + 1]
           IN /\ next \in Rows /\ next.status = "PROCESSING" /\ next.attempts = row.attempts + 1
              /\ next.handshake = row.handshake /\ next.intent = row.intent
<1> DEFINE n == row.attempts + 1
<1>1. n \in Nat
  BY DEF Rows
<1> HIDE DEF n
<1>2. LET next == [row EXCEPT !.status = "PROCESSING", !.attempts = n]
      IN /\ next \in Rows /\ next.status = "PROCESSING" /\ next.attempts = n
         /\ next.handshake = row.handshake /\ next.intent = row.intent
  BY <1>1 DEF Rows
<1> QED BY <1>2 DEF n

(* What a claim does to the rows,                                          *)
LEMMA ClaimedRows ==
    ASSUME ButtonsInv, NEW w \in Workers, NEW claimed \in SUBSET Interactions, ClaimJobs(w, claimed)
    PROVE  /\ job' \in [Interactions -> Rows \cup {NoJob}]
           /\ \A i \in Interactions \ claimed : job'[i] = job[i]
           /\ \A i \in claimed :
                /\ job[i].handshake = "ACKNOWLEDGED" /\ job[i].status \in {"PENDING", "RETRY", "PROCESSING"}
                /\ job'[i].handshake = "ACKNOWLEDGED" /\ job'[i].status = "PROCESSING"
                /\ job'[i].attempts = job[i].attempts + 1 /\ job'[i].intent = job[i].intent
                /\ job[i] # NoJob /\ job'[i] # NoJob
<1>1. ShapeInv
  BY DEF ButtonsInv
<1>2. \A i \in claimed : job[i].handshake = "ACKNOWLEDGED" /\ job[i].status \in {"PENDING", "RETRY", "PROCESSING"}
  BY DEF ClaimJobs, ClaimableWhere
<1>3. job' = [i \in Interactions |->
           IF i \in claimed THEN [job[i] EXCEPT !.status = "PROCESSING", !.attempts = @ + 1] ELSE job[i]]
  BY DEF ClaimJobs
<1>4. \A i \in Interactions \ claimed : job'[i] = job[i] /\ job[i] \in Rows \cup {NoJob}
  BY <1>1, <1>3 DEF ShapeInv
<1>5. ASSUME NEW i \in claimed
      PROVE  /\ job'[i] \in Rows /\ job[i] \in Rows
             /\ job'[i].handshake = "ACKNOWLEDGED" /\ job'[i].status = "PROCESSING"
             /\ job'[i].attempts = job[i].attempts + 1 /\ job'[i].intent = job[i].intent
  <2>1. job[i] \in Rows
    BY <1>1, <1>2, RowIs DEF None
  <2>2. job'[i] = [job[i] EXCEPT !.status = "PROCESSING", !.attempts = @ + 1]
    BY <1>3
  <2>3. job[i].handshake = "ACKNOWLEDGED"
    BY <1>2
  <2> QED BY <2>1, <2>2, <2>3, RowsClaimed
<1>6. job' \in [Interactions -> Rows \cup {NoJob}]
  BY <1>3, <1>4, <1>5
<1> QED BY <1>2, <1>4, <1>5, <1>6, NoJobIs

(* A run that has claims to check.                                         *)
LEMMA PickingRows ==
    ASSUME NEW f \in UNION {[S -> Nat] : S \in SUBSET Interactions}
    PROVE  /\ [Resting EXCEPT !.phase = "picking", !.claims = f] \in WorkerRows
           /\ [Resting EXCEPT !.phase = "picking", !.claims = f].phase = "picking"
           /\ [Resting EXCEPT !.phase = "picking", !.claims = f].claims = f
           /\ [Resting EXCEPT !.phase = "picking", !.claims = f].outcome = None
BY DEF Resting, WorkerRows, Phases

(* to the holders: the run holds what it claimed, and the others have lost *)
(* just that,                                                              *)
LEMMA ClaimedHolds ==
    ASSUME ButtonsInv, NEW w \in Workers, NEW claimed \in SUBSET Interactions, In(w, "resting"),
           ClaimJobs(w, claimed)
    PROVE  /\ worker' \in [Workers -> WorkerRows] /\ worker'[w].phase = "picking"
           /\ \A v \in Workers : v # w => worker'[v] = worker[v]
           /\ Holds(w)' = claimed /\ Holds(w) = {}
           /\ \A i \in claimed : worker'[w].claims[i] = job[i].attempts + 1
           /\ \A i \in Interactions : Claims(w, i)' <=> i \in claimed
           /\ \A v \in Workers : v # w => Holds(v)' = Holds(v)
           /\ \A v \in Workers, i \in Interactions : v # w => (Claims(v, i)' <=> Claims(v, i) /\ i \notin claimed)
<1>0. ShapeInv /\ ClaimsInv
  BY DEF ButtonsInv
<1> DEFINE t == [Resting EXCEPT !.phase = "picking", !.claims = [i \in claimed |-> job[i].attempts + 1]]
<1>1. \A i \in claimed : job[i].attempts + 1 \in Nat
  BY <1>0, AttemptsAre
<1>2. /\ t \in WorkerRows /\ t.phase = "picking" /\ t.claims = [i \in claimed |-> job[i].attempts + 1]
  <2>1. [i \in claimed |-> job[i].attempts + 1] \in [claimed -> Nat]
    BY <1>1
  <2>2. [i \in claimed |-> job[i].attempts + 1] \in UNION {[S -> Nat] : S \in SUBSET Interactions}
    BY <2>1
  <2> QED BY <2>2, PickingRows
<1>3. worker' = [worker EXCEPT ![w] = t]
  BY DEF ClaimJobs, Goes
<1> HIDE DEF t
<1>4. worker' \in [Workers -> WorkerRows] /\ worker'[w] = t /\ \A v \in Workers : v # w => worker'[v] = worker[v]
  BY <1>0, <1>2, <1>3 DEF ShapeInv
<1>5. Holds(w)' = claimed /\ \A i \in claimed : worker'[w].claims[i] = job[i].attempts + 1
  BY <1>2, <1>4 DEF Holds
<1>6. Holds(w) = {}
  BY <1>0 DEF ClaimsInv, In
<1>7. \A i \in Interactions : Claims(w, i)' <=> i \in claimed
  BY <1>5, ClaimedRows DEF Claims, Holds
<1>8. \A v \in Workers : v # w => Holds(v)' = Holds(v)
  BY <1>4 DEF Holds
<1>9. ASSUME NEW v \in Workers, NEW i \in Interactions, v # w
      PROVE  Claims(v, i)' <=> Claims(v, i) /\ i \notin claimed
  <2>1. Claims(v, i) <=> i \in Holds(v) /\ worker[v].claims[i] = job[i].attempts
    BY DEF Claims, Holds
  <2>2. Claims(v, i)' <=> i \in Holds(v) /\ worker[v].claims[i] = job'[i].attempts
    BY <1>4, <1>9 DEF Claims, Holds
  <2>3. CASE i \notin claimed
    BY <2>1, <2>2, <2>3, ClaimedRows
  <2>4. CASE i \in claimed /\ i \in Holds(v)
    <3>1. worker[v].claims[i] <= job[i].attempts /\ job'[i].attempts = job[i].attempts + 1
      BY <1>0, <2>4, ClaimedRows DEF ClaimsInv
    <3>2. job[i].attempts \in Nat /\ worker[v].claims[i] \in Nat
      BY <1>0, <2>4, AttemptsAre, RunIs
    <3> QED BY <2>2, <2>4, <3>1, <3>2
  <2> QED BY <2>1, <2>2, <2>3, <2>4
<1> QED BY <1>2, <1>4, <1>5, <1>6, <1>7, <1>8, <1>9

(* and to the faults: every claim taken from a holder is one.              *)
LEMMA ClaimedFaults ==
    ASSUME ButtonsInv, NEW w \in Workers, NEW claimed \in SUBSET Interactions, ClaimJobs(w, claimed)
    PROVE  /\ Faults' \in Nat /\ Faults <= Faults' /\ Faults' <= MaxFaults /\ lapses' \in Nat
           /\ lapses' = 0 => lapses = 0 /\ Lapsing(claimed) = {}
           /\ Lapsing(claimed) # {} => Faults < Faults'
<1> DEFINE n == Cardinality(Lapsing(claimed))
<1>1. IsFiniteSet(Lapsing(claimed))
  BY ButtonBounds, FS_Subset DEF Lapsing
<1>2. n \in Nat /\ (n = 0 <=> Lapsing(claimed) = {})
  BY <1>1, FS_CardinalityType, FS_EmptySet
<1>3. Faults + n <= MaxFaults /\ lapses' = lapses + n /\ crashes' = crashes /\ failures' = failures
  BY DEF ClaimJobs
<1>4. Faults = crashes + failures + lapses /\ Faults' = crashes' + failures' + lapses'
  BY DEF Faults
<1> HIDE DEF n
<1> QED BY <1>2, <1>3, <1>4, FaultsAre

(* Records of what took effect, when nothing takes effect: only a decided  *)
(* question becomes a success.                                             *)
LEMMA RecordsStay ==
    ASSUME ButtonsInv, UNCHANGED <<reservation, decision, receipt, performed>>,
           \A i \in Interactions : RowStands(i),
           \A i \in Interactions : job'[i].status = "SUCCEEDED" => job[i].status = "SUCCEEDED" \/ Decided(i),
           \A i \in Interactions : job'[i].status = "SUCCEEDED" => job[i] # NoJob,
           \A w \in Workers : worker'[w].phase = "finishing" /\ worker'[w].outcome = "SUCCEEDED" =>
               /\ worker[w].phase = "finishing" /\ worker[w].outcome = "SUCCEEDED"
               /\ worker'[w].current = worker[w].current
    PROVE  RecordsInv'
<1>0. ShapeInv /\ ClaimsInv /\ RecordsInv
  BY DEF ButtonsInv
<1>1. OnceAndOnRecord'
  BY <1>0 DEF RecordsInv, OnceAndOnRecord
<1>2. ASSUME NEW i \in Interactions, job'[i].status = "SUCCEEDED"
      PROVE  IF job'[i].intent \in {"admin_cancel", "no_show"} THEN performed[i] = 1
             ELSE decision # None \/ reservation # "CONFIRMED"
  <2>1. job'[i].intent = job[i].intent
    BY <1>2 DEF RowStands
  <2>2. Decided(i)
    BY <1>0, <1>2 DEF RecordsInv, SucceededIsTrue, Decided, QuestionSettled
  <2> QED BY <2>1, <2>2 DEF Decided, QuestionSettled
<1>3. SucceededIsTrue'
  BY <1>2 DEF SucceededIsTrue
<1>4. ASSUME NEW w \in Workers, worker'[w].phase = "finishing", worker'[w].outcome = "SUCCEEDED"
      PROVE  Decided(worker[w].current)'
  <2>1. /\ worker[w].phase = "finishing" /\ worker[w].outcome = "SUCCEEDED"
        /\ worker'[w].current = worker[w].current
    BY <1>4
  <2>2. PICK i \in Interactions : i = worker[w].current /\ job[i].handshake = "ACKNOWLEDGED" /\ Decided(i)
    BY <1>0, <2>1, RunIs DEF ClaimsInv, RecordsInv
  <2>3. job'[i].intent = job[i].intent
    BY <2>2, NoJobIs DEF RowStands, None
  <2>4. Decided(i)'
    BY <2>2, <2>3 DEF Decided, QuestionSettled
  <2>5. worker'[w].current = i
    BY <2>1, <2>2
  <2> QED BY <2>4, <2>5 DEF Decided, QuestionSettled
<1> QED BY <1>0, <1>1, <1>3, <1>4 DEF RecordsInv

(* A claim keeps everything.                                               *)
LEMMA ClaimKeeps ==
    ASSUME ButtonsInv, NEW w \in Workers, NEW claimed \in SUBSET Interactions, In(w, "resting"),
           ClaimJobs(w, claimed)
    PROVE  ButtonsInv'
<1>0. ShapeInv /\ RowsInv /\ ClaimsInv /\ AttemptsInv /\ FenceInv /\ RecordsInv
      /\ UNCHANGED <<delivery, request, reservation, decision, closed, receipt, performed, control, operator,
                     crashes, failures>>
  BY DEF ButtonsInv, ClaimJobs, booking, fence
<1>1. \A i \in Interactions : i \notin claimed => job'[i] = job[i]
  BY ClaimedRows
<1>2. \A i \in Interactions : RowStands(i)
  <2> SUFFICES ASSUME NEW i \in Interactions PROVE RowStands(i)
    OBVIOUS
  <2>1. CASE i \in claimed
    BY <2>1, ClaimedRows DEF RowStands
  <2>2. CASE i \notin claimed
    BY <1>1, <2>2 DEF RowStands
  <2> QED BY <2>1, <2>2
<1>3. \A i \in Interactions : job[i].attempts \in Nat /\ job'[i].attempts \in Nat
  BY <1>0, <1>1, AttemptsAre, ClaimedRows
<1>4. ShapeInv'
  BY <1>0, ClaimedRows, ClaimedHolds, ClaimedFaults DEF ShapeInv
<1>5. RowsInv'
  <2> SUFFICES ASSUME NEW i \in Interactions
               PROVE  /\ job'[i].handshake = "STAGED" => job'[i].status = "PENDING"
                      /\ job'[i].handshake = "ABANDONED_UNACKED" => job'[i].status = "ABANDONED"
                      /\ job'[i].handshake # "ACKNOWLEDGED" => job'[i].attempts = 0 /\ receipt[i] = None
                      /\ job'[i].status = "PENDING" => job'[i].attempts = 0
                      /\ job'[i].status = "RETRY" => job'[i].attempts < MaxAttempts
    BY <1>0 DEF RowsInv
  <2>1. CASE i \in claimed
    BY <2>1, ClaimedRows
  <2>2. CASE i \notin claimed
    BY <1>0, <1>1, <2>2 DEF RowsInv
  <2> QED BY <2>1, <2>2
<1>6. ASSUME NEW v \in Workers, NEW i \in Interactions, i \in Holds(v)'
      PROVE  /\ job'[i].handshake = "ACKNOWLEDGED" /\ worker'[v].claims[i] <= job'[i].attempts
             /\ Claims(v, i)' => job'[i].status = "PROCESSING"
             /\ lapses' = 0 => Claims(v, i)'
  <2>1. CASE v = w
    <3>1. i \in claimed
      BY <1>6, <2>1, ClaimedHolds
    <3>2. worker'[w].claims[i] = job[i].attempts + 1 /\ Claims(w, i)'
      BY <3>1, ClaimedHolds
    <3>3. /\ job'[i].handshake = "ACKNOWLEDGED" /\ job'[i].attempts = job[i].attempts + 1
          /\ job'[i].status = "PROCESSING"
      BY <3>1, ClaimedRows
    <3> QED BY <1>3, <2>1, <3>2, <3>3
  <2>2. CASE v # w
    <3>1. i \in Holds(v) /\ worker'[v] = worker[v]
      BY <1>6, <2>2, ClaimedHolds
    <3>2. /\ job[i].handshake = "ACKNOWLEDGED" /\ worker[v].claims[i] <= job[i].attempts
          /\ Claims(v, i) => job[i].status = "PROCESSING"
          /\ lapses = 0 => Claims(v, i)
      BY <1>0, <3>1 DEF ClaimsInv
    <3>3. worker[v].claims[i] \in Nat
      BY <1>0, <3>1, RunIs
    <3>4. Claims(v, i)' <=> Claims(v, i) /\ i \notin claimed
      BY <2>2, ClaimedHolds
    <3>5. CASE i \notin claimed
      <4>1. lapses' = 0 => lapses = 0
        BY ClaimedFaults
      <4> QED BY <1>1, <3>1, <3>2, <3>4, <3>5, <4>1
    <3>6. CASE i \in claimed
      <4>1. lapses' # 0
        <5> SUFFICES ASSUME lapses' = 0 PROVE FALSE
          OBVIOUS
        <5>1. lapses = 0 /\ Lapsing(claimed) = {}
          BY ClaimedFaults
        <5> QED BY <3>2, <3>6, <5>1 DEF Lapsing, Held
      <4>2. job'[i].handshake = "ACKNOWLEDGED" /\ job'[i].attempts = job[i].attempts + 1
        BY <3>6, ClaimedRows
      <4>3. worker'[v].claims[i] <= job'[i].attempts
        BY <1>3, <3>1, <3>2, <3>3, <4>2
      <4> QED BY <3>4, <3>6, <4>1, <4>2, <4>3
    <3> QED BY <3>5, <3>6
  <2> QED BY <2>1, <2>2
<1>7. \A v \in Workers : Holds(v)' \subseteq Interactions
  BY <1>4, RunIs, ClaimedHolds, <1>0
<1>8. ClaimsInv'
  <2>1. \A u, v \in Workers, i \in Interactions : Claims(u, i)' /\ Claims(v, i)' => u = v
    BY <1>0, ClaimedHolds DEF ClaimsInv
  <2>2. ASSUME NEW v \in Workers
        PROVE  /\ worker'[v].phase \in {"resting", "over"} => Holds(v)' = {}
               /\ worker'[v].phase \in {"dispatching", "committing", "finishing"} => worker'[v].current \in Holds(v)'
               /\ worker'[v].phase = "finishing" => worker'[v].outcome # None
    <3>1. CASE v = w
      BY <3>1, ClaimedHolds
    <3>2. CASE v # w
      BY <1>0, <3>2, ClaimedHolds DEF ClaimsInv
    <3> QED BY <3>1, <3>2
  <2>3. \A v \in Workers : \A i \in Holds(v)' :
             /\ job'[i].handshake = "ACKNOWLEDGED" /\ worker'[v].claims[i] <= job'[i].attempts
             /\ Claims(v, i)' => job'[i].status = "PROCESSING"
             /\ lapses' = 0 => Claims(v, i)'
    BY <1>6, <1>7
  <2> QED BY <2>1, <2>2, <2>3 DEF ClaimsInv
<1>9. AttemptsInv'
  <2>1. Faults \in Nat /\ Faults' \in Nat /\ Faults <= Faults' /\ Faults' <= MaxFaults /\ MaxAttempts \in Nat
        /\ (Lapsing(claimed) # {} => Faults < Faults')
    BY ClaimedFaults, FaultsAre, ButtonBounds
  <2>2. \A i \in Interactions :
          /\ job[i].attempts <= MaxAttempts + Faults
          /\ job[i].status = "PROCESSING" /\ (\A v \in Workers : Claims(v, i) => ~Intact(v))
               => job[i].attempts < MaxAttempts + Faults
    BY <1>0 DEF AttemptsInv
  <2>3. ASSUME NEW i \in claimed
        PROVE  job'[i].attempts <= MaxAttempts + Faults' /\ Claims(w, i)' /\ Intact(w)'
    <3>1. Claims(w, i)' /\ Intact(w)'
      BY ClaimedHolds DEF Intact
    <3>2. job[i].attempts \in Nat /\ job'[i].attempts = job[i].attempts + 1
      BY <1>3, ClaimedRows
    <3>3. CASE job[i].status \in {"PENDING", "RETRY"}
      <4>1. job[i].attempts + 1 <= MaxAttempts
        BY <1>0, <3>2, <3>3, ButtonBounds DEF RowsInv
      <4> QED BY <2>1, <3>1, <3>2, <4>1
    <3>4. CASE job[i].status = "PROCESSING" /\ Held(i)
      <4>1. i \in Lapsing(claimed)
        BY <3>4 DEF Lapsing
      <4>2. Faults < Faults' /\ job[i].attempts <= MaxAttempts + Faults
        BY <2>1, <2>2, <4>1
      <4> QED BY <2>1, <3>1, <3>2, <4>2
    <3>5. CASE job[i].status = "PROCESSING" /\ ~Held(i)
      <4>1. job[i].attempts < MaxAttempts + Faults
        BY <2>2, <3>5 DEF Held
      <4> QED BY <2>1, <3>1, <3>2, <4>1
    <3> QED BY <3>3, <3>4, <3>5, ClaimedRows
  <2>4. ASSUME NEW i \in Interactions, i \notin claimed
        PROVE  /\ job'[i].attempts <= MaxAttempts + Faults'
               /\ job'[i].status = "PROCESSING" /\ (\A v \in Workers : Claims(v, i)' => ~Intact(v)')
                    => job'[i].attempts < MaxAttempts + Faults'
    <3>1. job'[i] = job[i] /\ job[i].attempts \in Nat
      BY <1>1, <1>3, <2>4
    <3>2. CASE \A v \in Workers : Claims(v, i) => ~Intact(v)
      <4>1. job[i].status = "PROCESSING" => job[i].attempts < MaxAttempts + Faults
        BY <2>2, <3>2
      <4> QED BY <2>1, <2>2, <3>1, <4>1
    <3>3. ASSUME NEW v \in Workers, Claims(v, i), Intact(v), ~Intact(v)'
          PROVE  Faults < Faults'
      <4>1. v # w
        BY <3>3, ClaimedHolds DEF Claims, Holds
      <4>2. PICK j \in Holds(v) : ~Claims(v, j)'
        BY <3>3, <4>1, ClaimedHolds DEF Intact
      <4>3. j \in Interactions /\ Claims(v, j)
        BY <1>0, <3>3, <4>2, RunIs DEF Intact
      <4>4. j \in claimed
        BY <4>1, <4>2, <4>3, ClaimedHolds
      <4>5. j \in Lapsing(claimed)
        BY <1>0, <4>2, <4>3, <4>4 DEF Lapsing, Held, ClaimsInv
      <4> QED BY <2>1, <4>5
    <3>4. ASSUME NEW v \in Workers, Claims(v, i), Intact(v)
          PROVE  Claims(v, i)'
      BY <2>4, <3>4, ClaimedHolds DEF Claims, Holds
    <3>5. CASE ~ \A v \in Workers : Claims(v, i) => ~Intact(v)
      <4>1. (\A v \in Workers : Claims(v, i)' => ~Intact(v)') => Faults < Faults'
        BY <3>3, <3>4, <3>5
      <4>2. job[i].attempts <= MaxAttempts + Faults
        BY <2>2
      <4>3. job'[i].attempts <= MaxAttempts + Faults'
            /\ (Faults < Faults' => job'[i].attempts < MaxAttempts + Faults')
        BY <2>1, <3>1, <4>2
      <4> QED BY <4>1, <4>3
    <3> QED BY <3>2, <3>5
  <2>5. \A i \in Interactions :
          /\ job'[i].attempts <= MaxAttempts + Faults'
          /\ job'[i].status = "PROCESSING" /\ (\A v \in Workers : Claims(v, i)' => ~Intact(v)')
               => job'[i].attempts < MaxAttempts + Faults'
    BY <2>3, <2>4
  <2> QED BY <2>1, <2>5 DEF AttemptsInv
<1>10. FenceInv'
  BY <1>0 DEF FenceInv, FenceOpen, ClaimJobs
<1>11. RecordsInv'
  <2>1. ASSUME NEW i \in Interactions, job'[i].status = "SUCCEEDED"
        PROVE  job[i].status = "SUCCEEDED" /\ job[i] # NoJob
    BY <1>1, <2>1, ClaimedRows, NoJobIs DEF None
  <2>2. ASSUME NEW v \in Workers, worker'[v].phase = "finishing"
        PROVE  worker'[v] = worker[v]
    BY <2>2, ClaimedHolds
  <2> QED BY <1>0, <1>2, <2>1, <2>2, RecordsStay
<1>12. AnswersInv'
  <2>1. \A i \in Interactions : job'[i].handshake = "ACKNOWLEDGED" /\ job'[i].attempts = 0
               => job[i].handshake = "ACKNOWLEDGED" /\ job[i].attempts = 0
    BY <1>1, <1>3, ClaimedRows
  <2> QED BY <1>0, <1>2, <2>1, AnswersOfOthers
<1> QED BY <1>4, <1>5, <1>8, <1>9, <1>10, <1>11, <1>12 DEF ButtonsInv

(* A step of a run that leaves the jobs alone: it keeps its claims,        *)
LEMMA RunKeeps ==
    ASSUME ButtonsInv, NEW w \in Workers, NEW t \in WorkerRows, worker' = [worker EXCEPT ![w] = t],
           UNCHANGED <<job, lapses, crashes>>, UNCHANGED failures \/ Fails,
           t.claims = worker[w].claims, t.phase \in {"picking", "dispatching", "committing", "finishing"},
           t.phase # "picking" => t.current \in Holds(w), t.phase = "finishing" => t.outcome # None
    PROVE  ClaimsInv' /\ AttemptsInv' /\ failures' \in {failures, failures + 1} /\ failures' \in Nat
           /\ worker' \in [Workers -> WorkerRows]
<1>0. ShapeInv /\ ClaimsInv /\ AttemptsInv /\ failures \in Nat /\ crashes \in Nat /\ lapses \in Nat
  BY DEF ButtonsInv, ShapeInv
<1>1. worker' \in [Workers -> WorkerRows] /\ worker'[w] = t /\ \A v \in Workers : v # w => worker'[v] = worker[v]
  BY <1>0 DEF ShapeInv
<1>2. \A v \in Workers : Holds(v)' = Holds(v) /\ worker'[v].claims = worker[v].claims
  BY <1>1 DEF Holds
<1>3. \A v \in Workers, i \in Interactions : Claims(v, i)' <=> Claims(v, i)
  BY <1>2 DEF Claims
<1>4. \A v \in Workers : Holds(v) \subseteq Interactions
  BY <1>0, RunIs
<1>5. ClaimsInv'
  <2>1. ASSUME NEW v \in Workers
        PROVE  /\ worker'[v].phase \in {"resting", "over"} => Holds(v) = {}
               /\ worker'[v].phase \in {"dispatching", "committing", "finishing"} => worker'[v].current \in Holds(v)
               /\ worker'[v].phase = "finishing" => worker'[v].outcome # None
    <3>1. CASE v = w
      BY <1>1, <3>1
    <3>2. CASE v # w
      BY <1>0, <1>1, <3>2 DEF ClaimsInv
    <3> QED BY <3>1, <3>2
  <2>2. ASSUME NEW v \in Workers, NEW i \in Holds(v)
        PROVE  /\ job[i].handshake = "ACKNOWLEDGED" /\ worker'[v].claims[i] <= job[i].attempts
               /\ Claims(v, i)' => job[i].status = "PROCESSING"
               /\ lapses = 0 => Claims(v, i)'
    <3>1. /\ job[i].handshake = "ACKNOWLEDGED" /\ worker[v].claims[i] <= job[i].attempts
          /\ Claims(v, i) => job[i].status = "PROCESSING"
          /\ lapses = 0 => Claims(v, i)
      BY <1>0 DEF ClaimsInv
    <3>2. (Claims(v, i)' <=> Claims(v, i)) /\ worker'[v].claims = worker[v].claims
      BY <1>2, <1>3, <1>4
    <3> QED BY <3>1, <3>2
  <2>3. \A u, v \in Workers, i \in Interactions : Claims(u, i)' /\ Claims(v, i)' => u = v
    BY <1>0, <1>3 DEF ClaimsInv
  <2> QED BY <1>2, <2>1, <2>2, <2>3 DEF ClaimsInv
<1>6. failures' \in Nat /\ failures' \in {failures, failures + 1}
  BY <1>0 DEF Fails
<1>7. AttemptsInv'
  <2>1. Faults' = Faults \/ (Faults' = Faults + 1 /\ Faults < MaxFaults)
    <3>1. CASE UNCHANGED failures
      BY <3>1 DEF Faults
    <3>2. CASE Fails
      <4>1. crashes + (failures + 1) + lapses = crashes + failures + lapses + 1
        BY <1>0
      <4> QED BY <3>2, <4>1 DEF Faults, Fails
    <3> QED BY <3>1, <3>2
  <2>2. \A v \in Workers : Intact(v)' <=> Intact(v)
    BY <1>2, <1>3, <1>4 DEF Intact
  <2>3. Faults \in Nat /\ Faults' \in Nat /\ Faults <= Faults' /\ Faults' <= MaxFaults /\ MaxAttempts \in Nat
    BY <2>1, FaultsAre, ButtonBounds
  <2>4. ASSUME NEW i \in Interactions
        PROVE  /\ job[i].attempts <= MaxAttempts + Faults'
               /\ job[i].status = "PROCESSING" /\ (\A v \in Workers : Claims(v, i) => ~Intact(v))
                    => job[i].attempts < MaxAttempts + Faults'
    <3>1. /\ job[i].attempts <= MaxAttempts + Faults
          /\ job[i].status = "PROCESSING" /\ (\A v \in Workers : Claims(v, i) => ~Intact(v))
               => job[i].attempts < MaxAttempts + Faults
      BY <1>0 DEF AttemptsInv
    <3>2. job[i].attempts \in Nat
      BY <1>0, AttemptsAre
    <3> QED BY <2>3, <3>1, <3>2
  <2> QED BY <1>3, <2>2, <2>3, <2>4 DEF AttemptsInv
<1> QED BY <1>1, <1>5, <1>6, <1>7

(* or it stops, by a fault or because it lost a claim.                     *)
LEMMA RunStops ==
    ASSUME ButtonsInv, NEW w \in Workers, worker' = [worker EXCEPT ![w] = Stops(w)],
           UNCHANGED <<job, lapses>>, crashes' \in Nat, failures' \in Nat,
           \/ Faults' = Faults + 1 /\ Faults < MaxFaults
           \/ Faults' = Faults /\ ~Intact(w)
    PROVE  ClaimsInv' /\ AttemptsInv' /\ worker' \in [Workers -> WorkerRows]
           /\ worker'[w].phase \in {"resting", "over"}
<1>0. ShapeInv /\ ClaimsInv /\ AttemptsInv
  BY DEF ButtonsInv
<1>1. Stops(w) \in WorkerRows /\ Stops(w).phase \in {"resting", "over"} /\ DOMAIN Stops(w).claims = {}
  <2>1. NoClaims \in [{} -> Nat] /\ DOMAIN NoClaims = {}
    BY DEF NoClaims
  <2>2. NoClaims \in UNION {[S -> Nat] : S \in SUBSET Interactions}
    BY <2>1
  <2> QED BY <2>1, <2>2 DEF Stops, Resting, WorkerRows, Phases
<1>2. worker' \in [Workers -> WorkerRows] /\ worker'[w] = Stops(w)
      /\ \A v \in Workers : v # w => worker'[v] = worker[v]
  BY <1>0, <1>1 DEF ShapeInv
<1>3. Holds(w)' = {} /\ \A v \in Workers : v # w => Holds(v)' = Holds(v)
  BY <1>1, <1>2 DEF Holds
<1>4. \A v \in Workers, i \in Interactions : Claims(v, i)' <=> Claims(v, i) /\ v # w
  BY <1>2, <1>3 DEF Claims, Holds
<1>5. \A v \in Workers : Holds(v) \subseteq Interactions
  BY <1>0, RunIs
<1>6. ClaimsInv'
  <2>1. ASSUME NEW v \in Workers
        PROVE  /\ worker'[v].phase \in {"resting", "over"} => Holds(v)' = {}
               /\ worker'[v].phase \in {"dispatching", "committing", "finishing"} => worker'[v].current \in Holds(v)'
               /\ worker'[v].phase = "finishing" => worker'[v].outcome # None
    <3>1. CASE v = w
      BY <1>1, <1>2, <1>3, <3>1
    <3>2. CASE v # w
      BY <1>0, <1>2, <1>3, <3>2 DEF ClaimsInv
    <3> QED BY <3>1, <3>2
  <2>2. ASSUME NEW v \in Workers, NEW i \in Holds(v)'
        PROVE  /\ job[i].handshake = "ACKNOWLEDGED" /\ worker'[v].claims[i] <= job[i].attempts
               /\ Claims(v, i)' => job[i].status = "PROCESSING"
               /\ lapses = 0 => Claims(v, i)'
    <3>0. v # w /\ i \in Holds(v) /\ i \in Interactions
      BY <1>3, <1>5
    <3>1. /\ job[i].handshake = "ACKNOWLEDGED" /\ worker[v].claims[i] <= job[i].attempts
          /\ Claims(v, i) => job[i].status = "PROCESSING"
          /\ lapses = 0 => Claims(v, i)
      BY <1>0, <3>0 DEF ClaimsInv
    <3>2. (Claims(v, i)' <=> Claims(v, i)) /\ worker'[v].claims = worker[v].claims
      BY <1>2, <1>4, <3>0
    <3> QED BY <3>1, <3>2
  <2>3. \A u, v \in Workers, i \in Interactions : Claims(u, i)' /\ Claims(v, i)' => u = v
    BY <1>0, <1>4 DEF ClaimsInv
  <2> QED BY <2>1, <2>2, <2>3 DEF ClaimsInv
<1>7. AttemptsInv'
  <2>1. \A v \in Workers : v # w => (Intact(v)' <=> Intact(v))
    BY <1>3, <1>4, <1>5 DEF Intact
  <2>2. Faults \in Nat /\ Faults' \in Nat /\ Faults <= Faults' /\ Faults' <= MaxFaults /\ MaxAttempts \in Nat
    BY FaultsAre, ButtonBounds
  <2>3. ASSUME NEW i \in Interactions
        PROVE  /\ job[i].attempts <= MaxAttempts + Faults'
               /\ job[i].status = "PROCESSING" /\ (\A v \in Workers : Claims(v, i)' => ~Intact(v)')
                    => job[i].attempts < MaxAttempts + Faults'
    <3>1. /\ job[i].attempts <= MaxAttempts + Faults
          /\ job[i].status = "PROCESSING" /\ (\A v \in Workers : Claims(v, i) => ~Intact(v))
               => job[i].attempts < MaxAttempts + Faults
      BY <1>0 DEF AttemptsInv
    <3>2. job[i].attempts \in Nat
      BY <1>0, AttemptsAre
    <3>3. CASE Faults' = Faults + 1
      BY <2>2, <3>1, <3>2, <3>3
    <3>4. CASE Faults' = Faults /\ ~Intact(w)
      <4>1. (\A v \in Workers : Claims(v, i)' => ~Intact(v)') => \A v \in Workers : Claims(v, i) => ~Intact(v)
        BY <1>4, <2>1, <3>4
      <4> QED BY <3>1, <3>4, <4>1
    <3> QED BY <3>3, <3>4
  <2> QED BY <2>2, <2>3 DEF AttemptsInv
<1> QED BY <1>1, <1>2, <1>6, <1>7

(* The values a run goes on with.                                          *)
LEMMA FinishingIs ==
    ASSUME ShapeInv, NEW w \in Workers, NEW outcome \in {"SUCCEEDED", "STALE", "RETRY", "ABANDONED"}
    PROVE  /\ Finishing(w, outcome) \in WorkerRows /\ Finishing(w, outcome).claims = worker[w].claims
           /\ Finishing(w, outcome).phase = "finishing" /\ Finishing(w, outcome).outcome = outcome
           /\ Finishing(w, outcome).current = worker[w].current
<1>1. worker[w] \in WorkerRows
  BY DEF ShapeInv
<1> QED BY <1>1 DEF Finishing, WorkerRows, Phases

(* Nothing but a run moves.                                                *)
LEMMA OnlyRuns ==
    ASSUME ButtonsInv, NEW w \in Workers, NEW t \in WorkerRows, worker' = [worker EXCEPT ![w] = t],
           UNCHANGED <<delivery, request, job, booking, fence>>,
           crashes' \in Nat, failures' \in {failures, failures + 1}, lapses' \in Nat,
           t.phase = "finishing" => t.outcome # "SUCCEEDED"
    PROVE  ShapeInv' /\ RowsInv' /\ FenceInv' /\ RecordsInv' /\ AnswersInv'
<1>0. ShapeInv /\ RowsInv /\ FenceInv
      /\ UNCHANGED <<delivery, request, job, reservation, decision, closed, receipt, performed, control, operator>>
      /\ failures' \in Nat
  BY DEF ButtonsInv, ShapeInv, booking, fence
<1>1. worker' \in [Workers -> WorkerRows] /\ worker'[w] = t /\ \A v \in Workers : v # w => worker'[v] = worker[v]
  BY <1>0 DEF ShapeInv
<1>2. ShapeInv'
  BY <1>0, <1>1 DEF ShapeInv
<1>3. RowsInv' /\ FenceInv'
  BY <1>0 DEF RowsInv, FenceInv, OldMutations
<1>4. \A i \in Interactions : RowStands(i)
  BY <1>0 DEF RowStands
<1>5. \A i \in Interactions : job[i].status = "SUCCEEDED" => job[i] # NoJob
  BY NoJobIs DEF None
<1>6. RecordsInv'
  <2>1. \A v \in Workers : worker'[v].phase = "finishing" /\ worker'[v].outcome = "SUCCEEDED" => worker'[v] = worker[v]
    BY <1>1
  <2> QED BY <1>0, <1>4, <1>5, <2>1, RecordsStay
<1>7. AnswersInv'
  BY <1>0, <1>4, AnswersOfOthers
<1> QED BY <1>2, <1>3, <1>6, <1>7

(* The checks before the transaction.                                      *)
LEMMA CheckKeeps ==
    ASSUME ButtonsInv, NEW w \in Workers, CheckDispatch(w) \/ AuthorizationFails(w) \/ BeginOperation(w)
    PROVE  ButtonsInv'
<1>0. ShapeInv /\ ClaimsInv /\ worker[w] \in WorkerRows /\ Holds(w) \subseteq Interactions
      /\ crashes \in Nat /\ failures \in Nat /\ lapses \in Nat
  BY RunIs DEF ButtonsInv, ShapeInv
<1>1. UNCHANGED <<delivery, request, job, booking, fence, crashes, failures, lapses>>
  BY DEF CheckDispatch, AuthorizationFails, BeginOperation, jobs, bounds
<1>2. PICK t \in WorkerRows :
        /\ worker' = [worker EXCEPT ![w] = t] /\ t.claims = worker[w].claims
        /\ t.phase \in {"dispatching", "committing", "finishing"} /\ t.current \in Holds(w)
        /\ t.phase = "finishing" => t.outcome \notin {None, "SUCCEEDED"}
  <2>1. CASE CheckDispatch(w)
    <3>1. PICK i \in Holds(w) : Goes(w, IF IsDispatchAllowed(w, i)
                  THEN [worker[w] EXCEPT !.phase = "dispatching", !.current = i]
                  ELSE [Finishing(w, "STALE") EXCEPT !.current = i])
      BY <2>1 DEF CheckDispatch, Holds
    <3>2. /\ [worker[w] EXCEPT !.phase = "dispatching", !.current = i] \in WorkerRows
          /\ [worker[w] EXCEPT !.phase = "dispatching", !.current = i].claims = worker[w].claims
          /\ [worker[w] EXCEPT !.phase = "dispatching", !.current = i].phase = "dispatching"
          /\ [worker[w] EXCEPT !.phase = "dispatching", !.current = i].current = i
      BY <1>0 DEF WorkerRows, Phases
    <3>3. PICK f \in WorkerRows : /\ f = Finishing(w, "STALE") /\ f.claims = worker[w].claims
                                  /\ f.phase = "finishing" /\ f.outcome = "STALE"
      BY <1>0, FinishingIs
    <3>4. /\ [f EXCEPT !.current = i] \in WorkerRows /\ [f EXCEPT !.current = i].claims = worker[w].claims
          /\ [f EXCEPT !.current = i].phase = "finishing" /\ [f EXCEPT !.current = i].current = i
          /\ [f EXCEPT !.current = i].outcome = "STALE"
      BY <1>0, <3>3 DEF WorkerRows
    <3>5. CASE Goes(w, [worker[w] EXCEPT !.phase = "dispatching", !.current = i])
      BY <3>2, <3>5 DEF Goes
    <3>6. CASE Goes(w, [f EXCEPT !.current = i])
      BY <3>4, <3>6 DEF Goes, None
    <3>7. Goes(w, [worker[w] EXCEPT !.phase = "dispatching", !.current = i]) \/ Goes(w, [f EXCEPT !.current = i])
      BY <3>1, <3>3
    <3> QED BY <3>5, <3>6, <3>7
  <2>2. CASE AuthorizationFails(w)
    <3>1. PICK outcome \in {"STALE", "RETRY", "ABANDONED"} : Goes(w, Finishing(w, outcome))
      BY <2>2 DEF AuthorizationFails
    <3>2. worker[w].current \in Holds(w)
      BY <1>0, <2>2 DEF AuthorizationFails, In, ClaimsInv
    <3> QED BY <1>0, <3>1, <3>2, FinishingIs DEF Goes, None
  <2>3. CASE BeginOperation(w)
    <3> DEFINE t == [worker[w] EXCEPT !.phase = "committing", !.open = FenceOpen]
    <3>1. FenceOpen \in BOOLEAN
      BY DEF FenceOpen
    <3>2. t \in WorkerRows /\ t.claims = worker[w].claims /\ t.phase = "committing" /\ t.current = worker[w].current
      BY <1>0, <3>1 DEF WorkerRows, Phases
    <3>3. worker[w].current \in Holds(w)
      BY <1>0, <2>3 DEF BeginOperation, In, ClaimsInv
    <3>4. worker' = [worker EXCEPT ![w] = t]
      BY <2>3 DEF BeginOperation, Goes
    <3> HIDE DEF t
    <3> QED BY <3>2, <3>3, <3>4
  <2> QED BY <2>1, <2>2, <2>3
<1>3. ClaimsInv' /\ AttemptsInv'
  BY <1>1, <1>2, RunKeeps
<1>4. ShapeInv' /\ RowsInv' /\ FenceInv' /\ RecordsInv' /\ AnswersInv'
  BY <1>0, <1>1, <1>2, OnlyRuns
<1> QED BY <1>3, <1>4 DEF ButtonsInv

(* A run that stops while nothing is written.                              *)
LEMMA CrashKeeps ==
    ASSUME ButtonsInv, NEW w \in Workers, Crash(w)
    PROVE  ButtonsInv'
<1>0. ShapeInv /\ crashes \in Nat /\ failures \in Nat /\ lapses \in Nat
  BY DEF ButtonsInv, ShapeInv
<1>1. /\ UNCHANGED <<delivery, request, job, booking, fence, failures, lapses>>
      /\ crashes' = crashes + 1 /\ Faults < MaxFaults /\ worker' = [worker EXCEPT ![w] = Stops(w)]
  BY DEF Crash, jobs, Goes
<1>2. crashes' \in Nat /\ failures' \in Nat /\ lapses' \in Nat /\ failures' \in {failures, failures + 1}
  BY <1>0, <1>1
<1>3. Faults' = Faults + 1
  <2>1. (crashes + 1) + failures + lapses = crashes + failures + lapses + 1
    BY <1>0
  <2> QED BY <1>1, <2>1 DEF Faults
<1>4. ClaimsInv' /\ AttemptsInv' /\ worker' \in [Workers -> WorkerRows] /\ worker'[w].phase \in {"resting", "over"}
  BY <1>1, <1>2, <1>3, RunStops
<1>5. worker'[w] = Stops(w)
  BY <1>0, <1>1 DEF ShapeInv
<1>6. Stops(w) \in WorkerRows /\ Stops(w).phase # "finishing"
  BY <1>4, <1>5
<1>7. ShapeInv' /\ RowsInv' /\ FenceInv' /\ RecordsInv' /\ AnswersInv'
  BY <1>1, <1>2, <1>6, OnlyRuns
<1> QED BY <1>4, <1>7 DEF ButtonsInv

-----------------------------------------------------------------------------
(* The end of a claim.                                                     *)

(* The outcome is recorded, and the run goes on with the claims it has     *)
(* left.                                                                   *)
LEMMA RecordKeeps ==
    ASSUME ButtonsInv, NEW w \in Workers, In(w, "finishing"),
           NEW i, i = worker[w].current, job[i].status = "PROCESSING", Claims(w, i),
           NEW rest, rest = [j \in Holds(w) \ {i} |-> worker[w].claims[j]],
           job' = [job EXCEPT ![i].status = StatusAfter(i, worker[w].outcome)],
           Goes(w, IF DOMAIN rest = {} THEN Stops(w)
                   ELSE [Resting EXCEPT !.phase = "picking", !.claims = rest]),
           UNCHANGED <<delivery, request, booking, fence, crashes, failures, lapses>>
    PROVE  ButtonsInv'
<1>0. /\ ShapeInv /\ RowsInv /\ ClaimsInv /\ AttemptsInv /\ FenceInv /\ RecordsInv
      /\ crashes \in Nat /\ failures \in Nat /\ lapses \in Nat /\ Holds(w) \subseteq Interactions
      /\ i \in Holds(w) /\ i \in Interactions
      /\ UNCHANGED <<reservation, decision, closed, receipt, performed, control, operator>>
  BY RunIs DEF ButtonsInv, ShapeInv, ClaimsInv, Claims, Holds, booking, fence
<1> DEFINE after == StatusAfter(i, worker[w].outcome)
<1>1. /\ after \in {"SUCCEEDED", "STALE", "RETRY", "ABANDONED"}
      /\ after = "RETRY" => job[i].attempts < MaxAttempts
      /\ after = "SUCCEEDED" => worker[w].outcome = "SUCCEEDED"
  <2>1. worker[w].outcome \in {"SUCCEEDED", "STALE", "RETRY", "ABANDONED"}
    BY <1>0, RunIs DEF In, ClaimsInv, WorkerRows
  <2>2. job[i].attempts \in Nat /\ MaxAttempts \in Nat
    BY <1>0, AttemptsAre, ButtonBounds
  <2> QED BY <2>1, <2>2 DEF StatusAfter
<1> HIDE DEF after
<1>2. job[i] \in Rows /\ job[i].handshake = "ACKNOWLEDGED" /\ job[i].attempts \in Nat
  <2>1. job[i].handshake = "ACKNOWLEDGED"
    BY <1>0 DEF ClaimsInv
  <2> QED BY <1>0, <2>1, RowIs, AttemptsAre DEF None
<1>3. PICK row \in Rows : /\ row = [job[i] EXCEPT !.status = after] /\ row.status = after
                          /\ row.handshake = "ACKNOWLEDGED" /\ row.attempts = job[i].attempts
                          /\ row.intent = job[i].intent
  <2>1. PICK old \in Rows : old = job[i]
    BY <1>2
  <2>2. [old EXCEPT !.status = after] \in Rows
    BY <1>1 DEF Rows, Terminal
  <2>3. /\ [old EXCEPT !.status = after].status = after
        /\ [old EXCEPT !.status = after].handshake = old.handshake
        /\ [old EXCEPT !.status = after].attempts = old.attempts
        /\ [old EXCEPT !.status = after].intent = old.intent
    BY DEF Rows
  <2> QED BY <1>2, <2>1, <2>2, <2>3
<1>4. /\ job' \in [Interactions -> Rows \cup {NoJob}] /\ job'[i] = row
      /\ \A j \in Interactions : j # i => job'[j] = job[j]
  <2>1. job' = [job EXCEPT ![i] = row]
    BY <1>3 DEF after
  <2> QED BY <1>0, <2>1 DEF ShapeInv
<1>5. PICK t \in WorkerRows :
        /\ worker' = [worker EXCEPT ![w] = t] /\ t.phase \in {"picking", "resting", "over"}
        /\ DOMAIN t.claims = Holds(w) \ {i} /\ (t.phase # "picking" => Holds(w) \ {i} = {})
        /\ \A j \in Holds(w) \ {i} : t.claims[j] = worker[w].claims[j]
  <2>1. DOMAIN rest = Holds(w) \ {i} /\ \A j \in Holds(w) \ {i} : rest[j] = worker[w].claims[j]
    OBVIOUS
  <2>2. rest \in UNION {[S -> Nat] : S \in SUBSET Interactions}
    <3>1. \A j \in Holds(w) \ {i} : worker[w].claims[j] \in Nat
      BY <1>0, RunIs
    <3>2. rest \in [Holds(w) \ {i} -> Nat]
      BY <3>1
    <3> QED BY <1>0, <3>2
  <2>3. CASE DOMAIN rest = {}
    <3>1. Stops(w) \in WorkerRows /\ Stops(w).phase \in {"resting", "over"} /\ DOMAIN Stops(w).claims = {}
      <4>1. NoClaims \in [{} -> Nat] /\ DOMAIN NoClaims = {}
        BY DEF NoClaims
      <4>2. NoClaims \in UNION {[S -> Nat] : S \in SUBSET Interactions}
        BY <4>1
      <4> QED BY <4>1, <4>2 DEF Stops, Resting, WorkerRows, Phases
    <3>2. worker' = [worker EXCEPT ![w] = Stops(w)]
      BY <2>3 DEF Goes
    <3>3. Holds(w) \ {i} = {}
      BY <2>1, <2>3
    <3> QED BY <3>1, <3>2, <3>3
  <2>4. CASE DOMAIN rest # {}
    <3>1. worker' = [worker EXCEPT ![w] = [Resting EXCEPT !.phase = "picking", !.claims = rest]]
      BY <2>4 DEF Goes
    <3> DEFINE t == [Resting EXCEPT !.phase = "picking", !.claims = rest]
    <3>2. t \in WorkerRows /\ t.phase = "picking" /\ t.claims = rest
      BY <2>2, PickingRows
    <3>3. worker' = [worker EXCEPT ![w] = t]
      BY <3>1
    <3>4. Holds(w) \ {i} # {} /\ DOMAIN t.claims = Holds(w) \ {i}
          /\ \A j \in Holds(w) \ {i} : t.claims[j] = worker[w].claims[j]
      BY <2>1, <2>4, <3>2
    <3> HIDE DEF t
    <3> QED BY <3>2, <3>3, <3>4
  <2> QED BY <2>3, <2>4
<1>6. worker' \in [Workers -> WorkerRows] /\ worker'[w] = t /\ \A v \in Workers : v # w => worker'[v] = worker[v]
  BY <1>0, <1>5 DEF ShapeInv
<1>7. Holds(w)' = Holds(w) \ {i} /\ \A v \in Workers : v # w => Holds(v)' = Holds(v)
  BY <1>5, <1>6 DEF Holds
<1>8. \A v \in Workers : Holds(v) \subseteq Interactions
  BY <1>0, RunIs
<1>9. \A j \in Interactions : job'[j].attempts = job[j].attempts /\ job'[j].handshake = job[j].handshake
      /\ job'[j].intent = job[j].intent
  BY <1>2, <1>3, <1>4
<1>10. \A v \in Workers, j \in Interactions : Claims(v, j)' <=> Claims(v, j) /\ j # i
  <2> SUFFICES ASSUME NEW v \in Workers, NEW j \in Interactions PROVE Claims(v, j)' <=> Claims(v, j) /\ j # i
    OBVIOUS
  <2>1. job'[j].attempts = job[j].attempts
    BY <1>9
  <2>2. CASE v = w
    BY <1>5, <1>6, <1>7, <2>1, <2>2 DEF Claims, Holds
  <2>3. CASE v # w
    <3>1. Claims(v, j)' <=> Claims(v, j)
      BY <1>6, <2>1, <2>3 DEF Claims
    <3>2. ~Claims(v, i)
      BY <1>0, <2>3 DEF ClaimsInv
    <3> QED BY <3>1, <3>2
  <2> QED BY <2>2, <2>3
<1>11. ShapeInv'
  BY <1>0, <1>4, <1>6 DEF ShapeInv
<1>12. RowsInv'
  <2>1. ASSUME NEW j \in Interactions
        PROVE  /\ job'[j].handshake = "STAGED" => job'[j].status = "PENDING"
               /\ job'[j].handshake = "ABANDONED_UNACKED" => job'[j].status = "ABANDONED"
               /\ job'[j].handshake # "ACKNOWLEDGED" => job'[j].attempts = 0 /\ receipt[j] = None
               /\ job'[j].status = "PENDING" => job'[j].attempts = 0
               /\ job'[j].status = "RETRY" => job'[j].attempts < MaxAttempts
    <3>1. CASE j = i
      BY <1>1, <1>3, <1>4, <3>1
    <3>2. CASE j # i
      BY <1>0, <1>4, <3>2 DEF RowsInv
    <3> QED BY <3>1, <3>2
  <2> QED BY <1>0, <2>1 DEF RowsInv
<1>13. ClaimsInv'
  <2>1. ASSUME NEW v \in Workers, NEW j \in Holds(v)'
        PROVE  /\ job'[j].handshake = "ACKNOWLEDGED" /\ worker'[v].claims[j] <= job'[j].attempts
               /\ Claims(v, j)' => job'[j].status = "PROCESSING"
               /\ lapses = 0 => Claims(v, j)'
    <3>1. j \in Holds(v) /\ j \in Interactions /\ (v = w => j # i)
      BY <1>7, <1>8
    <3>2. /\ job[j].handshake = "ACKNOWLEDGED" /\ worker[v].claims[j] <= job[j].attempts
          /\ Claims(v, j) => job[j].status = "PROCESSING"
          /\ lapses = 0 => Claims(v, j)
      BY <1>0, <3>1 DEF ClaimsInv
    <3>3. worker'[v].claims[j] = worker[v].claims[j]
      BY <1>5, <1>6, <3>1
    <3>4. Claims(v, j)' <=> Claims(v, j) /\ j # i
      BY <1>10, <3>1
    <3>5. v # w => ~Claims(v, i)
      BY <1>0 DEF ClaimsInv
    <3>6. job'[j].handshake = "ACKNOWLEDGED" /\ worker'[v].claims[j] <= job'[j].attempts
      BY <1>9, <3>1, <3>2, <3>3
    <3>7. Claims(v, j)' => job'[j].status = "PROCESSING"
      BY <1>4, <3>1, <3>2, <3>4
    <3>8. lapses = 0 => Claims(v, j)'
      BY <3>1, <3>2, <3>4, <3>5
    <3> QED BY <3>6, <3>7, <3>8
  <2>2. ASSUME NEW v \in Workers
        PROVE  /\ worker'[v].phase \in {"resting", "over"} => Holds(v)' = {}
               /\ worker'[v].phase \in {"dispatching", "committing", "finishing"} => worker'[v].current \in Holds(v)'
               /\ worker'[v].phase = "finishing" => worker'[v].outcome # None
    <3>1. CASE v = w
      BY <1>5, <1>6, <1>7, <3>1
    <3>2. CASE v # w
      BY <1>0, <1>6, <1>7, <3>2 DEF ClaimsInv
    <3> QED BY <3>1, <3>2
  <2>3. \A u, v \in Workers, j \in Interactions : Claims(u, j)' /\ Claims(v, j)' => u = v
    BY <1>0, <1>10 DEF ClaimsInv
  <2> QED BY <1>0, <2>1, <2>2, <2>3 DEF ClaimsInv
<1>14. AttemptsInv'
  <2>1. Faults' = Faults
    BY DEF Faults
  <2>2. \A v \in Workers : Intact(v) => Intact(v)'
    <3> SUFFICES ASSUME NEW v \in Workers, Intact(v), NEW j \in Holds(v)' PROVE Claims(v, j)'
      BY DEF Intact
    <3>1. j \in Holds(v) /\ j \in Interactions /\ (v = w => j # i)
      BY <1>7, <1>8
    <3>2. Claims(v, j)
      BY <3>1 DEF Intact
    <3>3. j # i
      BY <1>0, <3>1, <3>2 DEF ClaimsInv
    <3> QED BY <1>10, <3>1, <3>2, <3>3
  <2>3. ASSUME NEW j \in Interactions
        PROVE  /\ job'[j].attempts <= MaxAttempts + Faults
               /\ job'[j].status = "PROCESSING" /\ (\A v \in Workers : Claims(v, j)' => ~Intact(v)')
                    => job'[j].attempts < MaxAttempts + Faults
    <3>1. /\ job[j].attempts <= MaxAttempts + Faults
          /\ job[j].status = "PROCESSING" /\ (\A v \in Workers : Claims(v, j) => ~Intact(v))
               => job[j].attempts < MaxAttempts + Faults
      BY <1>0 DEF AttemptsInv
    <3>2. CASE j = i
      BY <1>1, <1>3, <1>4, <3>1, <3>2
    <3>3. CASE j # i
      <4>1. \A v \in Workers : Claims(v, j)' <=> Claims(v, j)
        BY <1>10, <3>3
      <4>2. (\A v \in Workers : Claims(v, j)' => ~Intact(v)') => \A v \in Workers : Claims(v, j) => ~Intact(v)
        BY <2>2, <4>1
      <4> QED BY <1>4, <3>1, <3>3, <4>2
    <3> QED BY <3>2, <3>3
  <2>4. Faults <= MaxFaults
    BY <1>0 DEF AttemptsInv
  <2> QED BY <2>1, <2>3, <2>4 DEF AttemptsInv
<1>15. FenceInv'
  <2>1. \A j \in Interactions : job'[j].status = "PROCESSING" => job[j].status = "PROCESSING"
    BY <1>1, <1>3, <1>4
  <2> QED BY <1>0, <2>1 DEF FenceInv, OldMutations
<1>16. \A j \in Interactions : RowStands(j)
  BY <1>2, <1>3, <1>4, NoJobIs DEF RowStands
<1>17. RecordsInv'
  <2>1. worker[w].outcome = "SUCCEEDED" => Decided(i)
    BY <1>0 DEF RecordsInv, In
  <2>2. ASSUME NEW j \in Interactions, job'[j].status = "SUCCEEDED"
        PROVE  (job[j].status = "SUCCEEDED" \/ Decided(j)) /\ job[j] # NoJob
    <3>1. CASE j = i
      BY <1>1, <1>2, <1>3, <1>4, <2>1, <2>2, <3>1, NoJobIs
    <3>2. CASE j # i
      BY <1>4, <2>2, <3>2, NoJobIs DEF None
    <3> QED BY <3>1, <3>2
  <2>3. \A v \in Workers : worker'[v].phase = "finishing" => worker'[v] = worker[v]
    BY <1>5, <1>6
  <2> QED BY <1>0, <1>16, <2>2, <2>3, RecordsStay
<1>18. AnswersInv'
  <2>1. \A j \in Interactions : job'[j].handshake = "ACKNOWLEDGED" /\ job'[j].attempts = 0
               => job[j].handshake = "ACKNOWLEDGED" /\ job[j].attempts = 0
    BY <1>9
  <2> QED BY <1>0, <1>16, <2>1, AnswersOfOthers
<1> QED BY <1>11, <1>12, <1>13, <1>14, <1>15, <1>17, <1>18 DEF ButtonsInv

(* Recording the outcome of a claim: the claim is given up, and a retry is *)
(* left only while attempts are.                                           *)
LEMMA FinishKeeps ==
    ASSUME ButtonsInv, NEW w \in Workers, FinishClaim(w)
    PROVE  ButtonsInv'
<1>0. /\ ShapeInv /\ ClaimsInv /\ In(w, "finishing") /\ worker[w].current \in Holds(w)
      /\ crashes \in Nat /\ failures \in Nat /\ lapses \in Nat /\ Holds(w) \subseteq Interactions
      /\ UNCHANGED <<delivery, request, booking, fence, crashes, lapses>>
  BY RunIs DEF ButtonsInv, ShapeInv, ClaimsInv, FinishClaim, In
<1> DEFINE i == worker[w].current
           rest == [j \in Holds(w) \ {i} |-> worker[w].claims[j]]
<1>1. CASE /\ job[i].status = "PROCESSING" /\ Claims(w, i)
           /\ job' = [job EXCEPT ![i].status = StatusAfter(i, worker[w].outcome)]
           /\ Goes(w, IF DOMAIN rest = {} THEN Stops(w)
                         ELSE [Resting EXCEPT !.phase = "picking", !.claims = rest])
           /\ UNCHANGED failures
  BY <1>0, <1>1, RecordKeeps
<1>2. CASE /\ Goes(w, Stops(w)) /\ UNCHANGED job
           /\ \/ ~(job[i].status = "PROCESSING" /\ Claims(w, i)) /\ UNCHANGED failures
              \/ Fails
  <2>1. failures' \in Nat /\ crashes' \in Nat /\ lapses' \in Nat /\ failures' \in {failures, failures + 1}
    BY <1>0, <1>2 DEF Fails
  <2>2. \/ Faults' = Faults + 1 /\ Faults < MaxFaults
        \/ Faults' = Faults /\ ~Intact(w)
    <3>1. CASE Fails
      <4>1. crashes + (failures + 1) + lapses = crashes + failures + lapses + 1
        BY <1>0
      <4> QED BY <1>0, <3>1, <4>1 DEF Faults, Fails
    <3>2. CASE ~(job[i].status = "PROCESSING" /\ Claims(w, i)) /\ UNCHANGED failures
      <4>1. ~Claims(w, i)
        BY <1>0, <3>2 DEF ClaimsInv
      <4>2. ~Intact(w)
        BY <1>0, <4>1 DEF Intact
      <4>3. Faults' = Faults
        BY <1>0, <3>2 DEF Faults
      <4> QED BY <4>2, <4>3
    <3> QED BY <1>2, <3>1, <3>2
  <2>3. worker' = [worker EXCEPT ![w] = Stops(w)] /\ job' = job
    BY <1>2 DEF Goes
  <2>4. ClaimsInv' /\ AttemptsInv' /\ worker' \in [Workers -> WorkerRows] /\ worker'[w].phase \in {"resting", "over"}
    BY <1>0, <2>1, <2>2, <2>3, RunStops
  <2>5. Stops(w) \in WorkerRows /\ Stops(w).phase # "finishing"
    <3>1. worker'[w] = Stops(w)
      BY <1>0, <2>3 DEF ShapeInv
    <3> QED BY <2>4, <3>1
  <2>6. ShapeInv' /\ RowsInv' /\ FenceInv' /\ RecordsInv' /\ AnswersInv'
    BY <1>0, <2>1, <2>3, <2>5, OnlyRuns
  <2> QED BY <2>4, <2>6 DEF ButtonsInv
<1> HIDE DEF i, rest
<1>3. \/ /\ job[i].status = "PROCESSING" /\ Claims(w, i)
         /\ job' = [job EXCEPT ![i].status = StatusAfter(i, worker[w].outcome)]
         /\ Goes(w, IF DOMAIN rest = {} THEN Stops(w)
                       ELSE [Resting EXCEPT !.phase = "picking", !.claims = rest])
         /\ UNCHANGED failures
      \/ /\ ~(job[i].status = "PROCESSING" /\ Claims(w, i))
         /\ Goes(w, Stops(w)) /\ UNCHANGED <<job, failures>>
      \/ Fails /\ Goes(w, Stops(w)) /\ UNCHANGED job
  BY DEF FinishClaim, Holds, i, rest
<1> QED BY <1>1, <1>2, <1>3

-----------------------------------------------------------------------------
(* The transaction.                                                        *)

(* When it takes effect, the reservation stands.                           *)
LEMMA PerformsIs ==
    ASSUME NEW i, NEW intent
    PROVE  /\ Performs(i, intent) \in {None, "accepted", "cancelled", "no_show"}
           /\ Performs(i, intent) # None => reservation = "CONFIRMED"
<1>1. CASE reservation # "CONFIRMED"
  BY <1>1 DEF Performs
<1>2. CASE reservation = "CONFIRMED"
  BY <1>2 DEF Performs
<1> QED BY <1>1, <1>2

(* The two ways in which an operation may write that takes no effect.      *)
LEMMA WritesNothing ==
    ASSUME NEW i, Writes(i, None)
    PROVE  IF job[i].intent \in {"accept", "reject"} THEN Unchanged ELSE WriteStaleReceipt(i)
BY DEF Writes, None

(* The results that say that something took effect.                        *)
Effective == {"accepted", "cancelled", "no_show"}

(* What the transaction leaves behind, whichever way it went: its own      *)
(* receipt at most, an effect only with one, and no decision taken back.   *)
Operated(i) ==
    /\ reservation' \in {"CONFIRMED", "CANCELLED", "NO_SHOW"}
    /\ decision' \in {None, "ACCEPTED", "CANCELLED", "NO_SHOW"} /\ closed' = closed
    /\ receipt' \in [Interactions -> Results \cup {None}] /\ performed' \in [Interactions -> Nat]
    /\ \A j \in Interactions : j # i => receipt'[j] = receipt[j] /\ performed'[j] = performed[j]
    /\ performed'[i] = (IF receipt'[i] \in Effective THEN 1 ELSE 0)
    /\ receipt'[i] \in Effective => decision' # None
    /\ receipt[i] \in Effective => receipt'[i] = receipt[i]
    /\ decision # None => decision' # None
    /\ reservation # "CONFIRMED" => reservation' # "CONFIRMED"

(* A transaction that writes nothing, and one that takes effect, leave     *)
(* that behind.                                                            *)
LEMMA UnchangedOperated ==
    ASSUME ButtonsInv, NEW i \in Interactions, Unchanged
    PROVE  Operated(i)
<1>1. ShapeInv /\ RecordsInv /\ UNCHANGED <<reservation, decision, closed, receipt, performed>>
  BY DEF ButtonsInv, Unchanged, booking
<1> QED BY <1>1 DEF Operated, ShapeInv, RecordsInv, OnceAndOnRecord, Effective

LEMMA TakesOperated ==
    ASSUME ButtonsInv, NEW i \in Interactions, receipt[i] = None, reservation = "CONFIRMED",
           NEW result \in Effective, NEW status \in {"CONFIRMED", "CANCELLED", "NO_SHOW"},
           NEW decided \in {"ACCEPTED", "CANCELLED", "NO_SHOW"}, Takes(i, result, status, decided)
    PROVE  Operated(i) /\ performed'[i] = 1 /\ decision' # None
<1>1. ShapeInv /\ RecordsInv
  BY DEF ButtonsInv
<1>2. performed[i] = 0
  BY <1>1 DEF RecordsInv, OnceAndOnRecord, None
<1>3. /\ receipt' \in [Interactions -> Results \cup {None}] /\ receipt'[i] = result
      /\ \A j \in Interactions : j # i => receipt'[j] = receipt[j]
  BY <1>1 DEF Takes, Answers, ShapeInv, Effective, Results
<1>4. /\ performed' \in [Interactions -> Nat] /\ performed'[i] = 1
      /\ \A j \in Interactions : j # i => performed'[j] = performed[j]
  BY <1>1, <1>2 DEF Takes, ShapeInv
<1>5. reservation' = status /\ decision' = decided /\ closed' = closed
  BY DEF Takes
<1> QED BY <1>3, <1>4, <1>5 DEF Operated, Effective, None

(* So does every operation, and what it reports as succeeded is decided.   *)
LEMMA OperateIs ==
    ASSUME ButtonsInv, NEW w \in Workers, NEW i \in Interactions, job[i] # NoJob, Operate(w, i)
    PROVE  /\ Operated(i)
           /\ DispatchOutcome(ResultOf(w, i)) = "SUCCEEDED" =>
                IF job[i].intent \in {"admin_cancel", "no_show"} THEN performed'[i] = 1
                ELSE decision' # None \/ reservation' # "CONFIRMED"
<1>0. /\ ShapeInv /\ RecordsInv /\ receipt[i] \in Results \cup {None}
      /\ decision \in {None, "ACCEPTED", "CANCELLED", "NO_SHOW"}
  BY DEF ButtonsInv, ShapeInv
<1> DEFINE p == Performs(i, job[i].intent)
           result == ResultOf(w, i)
<1>1. p \in {None, "accepted", "cancelled", "no_show"} /\ (p # None => reservation = "CONFIRMED")
  BY PerformsIs
<1>2. DispatchOutcome(result) = "SUCCEEDED" <=> result \in Effective
  BY DEF DispatchOutcome, Effective
<1>3. job[i].intent \in Intents
  BY <1>0 DEF ShapeInv, Rows
<1>4. CASE receipt[i] # None
  <2>1. Unchanged /\ result = receipt[i]
    BY <1>4 DEF Operate, ResultOf
  <2>2. Operated(i)
    BY <2>1, UnchangedOperated
  <2>3. receipt[i] \in Effective => decision # None /\ performed[i] = 1
    BY <1>0 DEF RecordsInv, OnceAndOnRecord, Effective
  <2> QED BY <1>2, <2>1, <2>2, <2>3 DEF Unchanged, booking
<1>5. CASE receipt[i] = None /\ ~worker[w].open
  <2>1. Unchanged /\ result = "noop"
    BY <1>5 DEF Operate, ResultOf
  <2> QED BY <1>2, <2>1, UnchangedOperated DEF Effective
<1>6. CASE receipt[i] = None /\ worker[w].open /\ p # None
  <2>1. result = p
    BY <1>6 DEF ResultOf
  <2>2. \/ p = "accepted" /\ AcceptReservation(i)
        \/ p = "cancelled" /\ CancelReservation(i)
        \/ p = "no_show" /\ MarkNoShow(i)
    <3>1. p # "noop"
      BY <1>1 DEF None
    <3>2. Writes(i, p)
      BY <1>6, <2>1, <3>1 DEF Operate
    <3> HIDE DEF p
    <3>3. CASE p = "accepted"
      BY <3>2, <3>3 DEF Writes
    <3>4. CASE p = "cancelled"
      BY <3>2, <3>4 DEF Writes
    <3>5. CASE p = "no_show"
      BY <3>2, <3>5 DEF Writes
    <3> QED BY <1>1, <1>6, <3>3, <3>4, <3>5
  <2>3. Operated(i) /\ performed'[i] = 1 /\ decision' # None
    BY <1>1, <1>6, <2>2, TakesOperated DEF AcceptReservation, CancelReservation, MarkNoShow, Effective
  <2> QED BY <2>3
<1>7. CASE receipt[i] = None /\ worker[w].open /\ p = None /\ job[i].intent \in {"accept", "reject"}
  <2>1. result = SettledInitialDecision
    BY <1>7 DEF ResultOf
  <2>2. Unchanged
    BY <1>7, WritesNothing DEF Operate
  <2>3. result \in Effective => decision # None \/ reservation # "CONFIRMED"
    BY <2>1 DEF SettledInitialDecision, Effective, None
  <2>4. Operated(i)
    BY <2>2, UnchangedOperated
  <2> QED BY <1>2, <1>7, <2>2, <2>3, <2>4 DEF Unchanged, booking
<1>8. CASE receipt[i] = None /\ worker[w].open /\ p = None /\ job[i].intent \notin {"accept", "reject"}
  <2>1. result \in {"noop", "stale"}
    BY <1>8 DEF ResultOf
  <2>2. Unchanged \/ WriteStaleReceipt(i)
    BY <1>8, WritesNothing DEF Operate
  <2>3. ASSUME WriteStaleReceipt(i) PROVE Operated(i)
    <3>1. performed[i] = 0
      BY <1>0, <1>8 DEF RecordsInv, OnceAndOnRecord, None
    <3>2. /\ receipt' \in [Interactions -> Results \cup {None}] /\ receipt'[i] = "stale"
          /\ \A j \in Interactions : j # i => receipt'[j] = receipt[j]
      BY <1>0, <2>3 DEF WriteStaleReceipt, Answers, ShapeInv, Results
    <3>3. UNCHANGED <<reservation, decision, closed, performed>>
      BY <2>3 DEF WriteStaleReceipt
    <3> QED BY <1>0, <1>8, <3>1, <3>2, <3>3 DEF Operated, Effective, None, ShapeInv
  <2>4. Operated(i)
    BY <2>2, <2>3, UnchangedOperated
  <2> QED BY <1>2, <2>1, <2>4 DEF Effective
<1> QED BY <1>4, <1>5, <1>6, <1>7, <1>8

(* The transaction of a run commits.                                       *)
LEMMA CommitKeeps ==
    ASSUME ButtonsInv, NEW w \in Workers, CommitOperation(w)
    PROVE  ButtonsInv'
<1>0. /\ ShapeInv /\ RowsInv /\ ClaimsInv /\ FenceInv /\ RecordsInv /\ worker[w].phase = "committing"
      /\ UNCHANGED <<delivery, request, job, control, operator, crashes, lapses>>
      /\ worker[w].current \in Holds(w) /\ Holds(w) \subseteq Interactions
  BY RunIs DEF ButtonsInv, ClaimsInv, CommitOperation, In, jobs, fence
<1>1. PICK i \in Interactions : i = worker[w].current /\ job[i].handshake = "ACKNOWLEDGED" /\ job[i] # NoJob
  BY <1>0, NoJobIs DEF ClaimsInv, None
<1>2. PICK outcome \in {"SUCCEEDED", "STALE", "RETRY"} :
        /\ Goes(w, Finishing(w, outcome)) /\ (UNCHANGED failures \/ Fails)
        /\ \/ Operate(w, i) /\ outcome = DispatchOutcome(ResultOf(w, i))
           \/ (Operate(w, i) \/ Unchanged) /\ outcome = "RETRY"
  <2>1. DispatchOutcome(ResultOf(w, i)) \in {"SUCCEEDED", "STALE"}
    BY DEF DispatchOutcome
  <2> QED BY <1>1, <2>1 DEF CommitOperation
<1>3. /\ Operated(i)
      /\ outcome = "SUCCEEDED" => IF job[i].intent \in {"admin_cancel", "no_show"} THEN performed'[i] = 1
                                  ELSE decision' # None \/ reservation' # "CONFIRMED"
  BY <1>1, <1>2, OperateIs, UnchangedOperated
<1> DEFINE t == Finishing(w, outcome)
<1>4. /\ t \in WorkerRows /\ t.claims = worker[w].claims /\ t.phase = "finishing" /\ t.outcome = outcome
      /\ t.current = i /\ worker' = [worker EXCEPT ![w] = t]
  BY <1>0, <1>1, <1>2, FinishingIs DEF Goes
<1> HIDE DEF t
<1>5. ClaimsInv' /\ AttemptsInv' /\ failures' \in {failures, failures + 1} /\ failures' \in Nat
      /\ worker' \in [Workers -> WorkerRows]
  BY <1>0, <1>1, <1>2, <1>4, RunKeeps DEF None
<1>6. worker'[w] = t /\ \A v \in Workers : v # w => worker'[v] = worker[v]
  BY <1>0, <1>4 DEF ShapeInv
<1>7. ShapeInv'
  BY <1>0, <1>3, <1>5 DEF ShapeInv, Operated
<1>8. RowsInv'
  <2>1. ASSUME NEW j \in Interactions, job[j].handshake # "ACKNOWLEDGED" PROVE receipt'[j] = None
    BY <1>0, <1>1, <1>3, <2>1 DEF RowsInv, Operated
  <2> QED BY <1>0, <2>1 DEF RowsInv
<1>9. FenceInv'
  BY <1>0 DEF FenceInv, OldMutations
<1>10. OnceAndOnRecord'
  <2>1. ASSUME NEW j \in Interactions
        PROVE  performed'[j] = IF receipt'[j] \in {"accepted", "cancelled", "no_show"} THEN 1 ELSE 0
    <3>1. CASE j = i
      BY <1>3, <3>1 DEF Operated, Effective
    <3>2. CASE j # i
      <4>1. performed'[j] = performed[j] /\ receipt'[j] = receipt[j]
        BY <1>3, <3>2 DEF Operated
      <4>2. performed[j] = IF receipt[j] \in {"accepted", "cancelled", "no_show"} THEN 1 ELSE 0
        BY <1>0 DEF RecordsInv, OnceAndOnRecord
      <4> QED BY <4>1, <4>2
    <3> QED BY <3>1, <3>2
  <2> QED BY <2>1 DEF OnceAndOnRecord
<1>11. ASSUME NEW j \in Interactions, receipt'[j] \in {"accepted", "cancelled", "no_show"}
       PROVE  decision' # None
  <2>1. CASE j = i
    BY <1>3, <1>11, <2>1 DEF Operated, Effective
  <2>2. CASE j # i
    BY <1>0, <1>3, <1>11, <2>2 DEF Operated, RecordsInv
  <2> QED BY <2>1, <2>2
<1>12. ASSUME NEW j \in Interactions, Decided(j)
       PROVE  IF job[j].intent \in {"admin_cancel", "no_show"} THEN performed'[j] = 1
              ELSE decision' # None \/ reservation' # "CONFIRMED"
  <2>1. performed[j] = 1 => performed'[j] = 1
    <3>1. CASE j = i
      <4>1. performed[i] = 1 => receipt[i] \in Effective
        BY <1>0 DEF RecordsInv, OnceAndOnRecord, Effective
      <4> QED BY <1>3, <3>1, <4>1 DEF Operated
    <3>2. CASE j # i
      BY <1>3, <3>2 DEF Operated
    <3> QED BY <3>1, <3>2
  <2>2. QuestionSettled => decision' # None \/ reservation' # "CONFIRMED"
    BY <1>3 DEF QuestionSettled, Operated
  <2> QED BY <1>12, <2>1, <2>2 DEF Decided
<1>13. RecordsInv'
  <2>1. ASSUME NEW j \in Interactions, job[j].status = "SUCCEEDED"
        PROVE  IF job[j].intent \in {"admin_cancel", "no_show"} THEN performed'[j] = 1
               ELSE decision' # None \/ reservation' # "CONFIRMED"
    <3>1. Decided(j)
      BY <1>0, <2>1 DEF RecordsInv, SucceededIsTrue, Decided, QuestionSettled
    <3> QED BY <1>12, <3>1
  <2>2. SucceededIsTrue'
    BY <1>0, <2>1 DEF SucceededIsTrue
  <2>3. ASSUME NEW v \in Workers, worker'[v].phase = "finishing", worker'[v].outcome = "SUCCEEDED"
        PROVE  Decided(worker[v].current)'
    <3>1. CASE v = w
      <4>1. worker'[v].current = i /\ outcome = "SUCCEEDED"
        BY <1>4, <1>6, <2>3, <3>1
      <4> QED BY <1>0, <1>3, <4>1 DEF Decided, QuestionSettled
    <3>2. CASE v # w
      <4>1. worker'[v] = worker[v]
        BY <1>6, <3>2
      <4>2. PICK j \in Interactions : j = worker[v].current /\ Decided(j)
        BY <1>0, <2>3, <4>1, RunIs DEF ClaimsInv, RecordsInv
      <4> QED BY <1>0, <1>12, <4>1, <4>2 DEF Decided, QuestionSettled
    <3> QED BY <3>1, <3>2
  <2> QED BY <1>10, <1>11, <2>2, <2>3 DEF RecordsInv
<1>14. AnswersInv'
  <2>1. \A j \in Interactions : RowStands(j)
    BY <1>0 DEF RowStands
  <2> QED BY <1>0, <1>5, <2>1, AnswersOfOthers
<1> QED BY <1>5, <1>7, <1>8, <1>9, <1>13, <1>14 DEF ButtonsInv

-----------------------------------------------------------------------------
(* The steps of the others, and the theorems.                              *)

(* What happens outside the runs and the routes leaves their part alone.   *)
LEMMA OutsideKeeps ==
    ASSUME ButtonsInv, UNCHANGED <<jobs, request, worker, bounds, receipt, performed, decision>>
    PROVE  ClaimsInv' /\ AttemptsInv' /\ RowsInv' /\ AnswersInv' /\ \A i \in Interactions : RowStands(i)
<1>1. ClaimsInv /\ AttemptsInv /\ RowsInv /\ AnswersInv
      /\ UNCHANGED <<delivery, job, request, worker, crashes, failures, lapses, receipt, performed, decision>>
  BY DEF ButtonsInv, jobs, bounds
<1>2. ClaimsInv'
  BY <1>1 DEF ClaimsInv, Claims, Holds
<1>3. AttemptsInv'
  BY <1>1 DEF AttemptsInv, Faults, Claims, Holds, Intact
<1>4. RowsInv'
  BY <1>1 DEF RowsInv
<1>5. AnswersInv'
  BY <1>1 DEF AnswersInv, AcknowledgedIsQueued, SameDigest, JobOf, InteractionOf
<1>6. \A i \in Interactions : RowStands(i)
  BY <1>1 DEF RowStands
<1> QED BY <1>2, <1>3, <1>4, <1>5, <1>6

(* The reservation ends elsewhere, or its period does.                     *)
LEMMA SiteKeeps ==
    ASSUME ButtonsInv, EndElsewhere \/ PeriodCloses
    PROVE  ButtonsInv'
<1>0. ShapeInv /\ FenceInv /\ RecordsInv
  BY DEF ButtonsInv
<1>1. /\ UNCHANGED <<jobs, request, worker, bounds, receipt, performed, decision, fence>>
      /\ reservation' \in {"CONFIRMED", "CANCELLED", "NO_SHOW"} /\ closed' \in BOOLEAN
      /\ reservation # "CONFIRMED" => reservation' # "CONFIRMED"
  BY <1>0 DEF EndElsewhere, PeriodCloses, ShapeInv
<1>2. UNCHANGED <<delivery, job, request, worker, crashes, failures, lapses, receipt, performed, decision,
                  control, operator>>
  BY <1>1 DEF jobs, bounds, fence
<1>3. ClaimsInv' /\ AttemptsInv' /\ RowsInv' /\ AnswersInv'
  BY <1>1, OutsideKeeps
<1>4. ShapeInv'
  BY <1>0, <1>1, <1>2 DEF ShapeInv
<1>5. FenceInv'
  BY <1>0, <1>2 DEF FenceInv, OldMutations
<1>6. RecordsInv'
  <2>1. OnceAndOnRecord'
    BY <1>0, <1>2 DEF RecordsInv, OnceAndOnRecord
  <2>2. SucceededIsTrue'
    BY <1>0, <1>1, <1>2 DEF RecordsInv, SucceededIsTrue
  <2>3. \A w \in Workers : worker[w].phase = "finishing" /\ worker[w].outcome = "SUCCEEDED"
            => Decided(worker[w].current)'
    BY <1>0, <1>1, <1>2 DEF RecordsInv, Decided, QuestionSettled
  <2> QED BY <1>0, <1>2, <2>1, <2>2, <2>3 DEF RecordsInv
<1> QED BY <1>3, <1>4, <1>5, <1>6 DEF ButtonsInv

(* The operator disables, looks whether the jobs have drained, and enables *)
(* again.                                                                  *)
LEMMA OperatorKeeps ==
    ASSUME ButtonsInv, BeginDisable \/ DrainCheck \/ Reenable
    PROVE  ButtonsInv'
<1>0. ShapeInv /\ FenceInv /\ RecordsInv /\ control \in [enabled : BOOLEAN, epoch : 0 .. MaxEpoch] /\ MaxEpoch \in Nat
  BY ButtonBounds DEF ButtonsInv, ShapeInv
<1>1. UNCHANGED <<jobs, request, worker, bounds, booking>>
  BY DEF BeginDisable, DrainCheck, Reenable
<1>2. UNCHANGED <<delivery, job, request, worker, crashes, failures, lapses, reservation, decision, closed,
                  receipt, performed>>
  BY <1>1 DEF jobs, bounds, booking
<1>3. ClaimsInv' /\ AttemptsInv' /\ RowsInv' /\ AnswersInv' /\ \A i \in Interactions : RowStands(i)
  BY <1>1, <1>2, OutsideKeeps
<1>4. control' \in [enabled : BOOLEAN, epoch : 0 .. MaxEpoch] /\ operator' \in {"idle", "draining", "drained"}
      /\ FenceInv'
  <2>1. CASE BeginDisable
    BY <1>0, <2>1 DEF BeginDisable, FenceInv
  <2>2. CASE DrainCheck
    BY <1>0, <1>2, <2>2 DEF DrainCheck, FenceInv, OldMutations
  <2>3. CASE Reenable
    BY <1>0, <2>3 DEF Reenable, FenceInv
  <2> QED BY <2>1, <2>2, <2>3
<1>5. ShapeInv'
  BY <1>0, <1>2, <1>4 DEF ShapeInv
<1>6. RecordsInv'
  BY <1>0, <1>2 DEF RecordsInv, OnceAndOnRecord, SucceededIsTrue, Decided, QuestionSettled
<1> QED BY <1>3, <1>4, <1>5, <1>6 DEF ButtonsInv

(* A step of the route preserves each part of the invariant.               *)
LEMMA RouteKeeps ==
    ASSUME ButtonsInv, NEW r \in Requests, Route(r)
    PROVE  ButtonsInv'
BY RouteSteps, AnswersOfRoute, HandshakeKeeps DEF ButtonsInv

(* The first state has it.                                                 *)
LEMMA ButtonsInit == Init => ButtonsInv
<1> SUFFICES ASSUME Init PROVE ButtonsInv
  OBVIOUS
<1>0. delivery \in Deliveries /\ delivery \in [Requests -> Commands]
  BY ButtonBounds DEF Init
<1>1. \A r \in Requests : InteractionOf(r) \in Interactions /\ delivery[r].intent \in Intents
  BY <1>0 DEF Commands, InteractionOf
<1>2. /\ worker = [w \in Workers |-> Resting] /\ reservation = "CONFIRMED" /\ decision = None /\ closed = FALSE
      /\ receipt = [i \in Interactions |-> None] /\ performed = [i \in Interactions |-> 0]
      /\ control = [enabled |-> TRUE, epoch |-> 0] /\ operator = "idle"
      /\ crashes = 0 /\ failures = 0 /\ lapses = 0
  BY DEF Init
<1>3. \A r \in Requests : request[r] = IF InteractionOf(r) \in Acknowledged
           THEN [NewRequest EXCEPT !.pipeline = "over", !.answer = "acknowledged"] ELSE NewRequest
  BY DEF Init, InteractionOf
<1>4. request \in [Requests -> RequestStates]
  <2>1. /\ NewRequest \in RequestStates
        /\ [NewRequest EXCEPT !.pipeline = "over", !.answer = "acknowledged"] \in RequestStates
    BY DEF NewRequest, RequestStates
  <2> QED BY <2>1 DEF Init
<1>5. ASSUME NEW i \in Interactions
      PROVE  \/ job[i] = NoJob /\ (i \in Acknowledged => \A r \in Requests : InteractionOf(r) # i)
             \/ /\ i \in Acknowledged /\ job[i] \in Rows /\ job[i].status = "PENDING" /\ job[i].attempts = 0
                /\ job[i].handshake = "ACKNOWLEDGED"
                /\ \E r \in Requests : InteractionOf(r) = i
                /\ \A r \in Requests : InteractionOf(r) = i => job[i].intent = delivery[r].intent
  <2>1. CASE i \in Acknowledged /\ \E r \in Requests : delivery[r].interaction = i
    <3> DEFINE q == CHOOSE r \in Requests : delivery[r].interaction = i
    <3>1. q \in Requests /\ InteractionOf(q) = i
      BY <2>1 DEF InteractionOf
    <3>2. job[i] = [status |-> "PENDING", handshake |-> "ACKNOWLEDGED",
                    intent |-> delivery[q].intent, staged |-> None, attempts |-> 0]
      BY <2>1 DEF Init
    <3>3. \A r \in Requests : InteractionOf(r) = i => r = q
      BY <1>0, <2>1, <3>1, InteractionAssumption DEF InteractionAssumption, InteractionOf
    <3> HIDE DEF q
    <3>4. delivery[q].intent \in Intents
      BY <1>1, <3>1
    <3>5. job[i] \in Rows
      BY <3>2, <3>4 DEF Rows
    <3> QED BY <2>1, <3>1, <3>2, <3>3, <3>5
  <2>2. CASE ~(i \in Acknowledged /\ \E r \in Requests : delivery[r].interaction = i)
    <3>1. job[i] = NoJob
      BY <2>2 DEF Init
    <3> QED BY <2>2, <3>1 DEF InteractionOf
  <2> QED BY <2>1, <2>2
<1>6. Resting \in WorkerRows /\ Resting.phase = "resting" /\ DOMAIN Resting.claims = {}
  <2>1. NoClaims \in [{} -> Nat] /\ DOMAIN NoClaims = {}
    BY DEF NoClaims
  <2>2. NoClaims \in UNION {[S -> Nat] : S \in SUBSET Interactions}
    BY <2>1
  <2> QED BY <2>1, <2>2 DEF Resting, WorkerRows, Phases
<1>7. \A w \in Workers : worker[w].phase = "resting" /\ Holds(w) = {}
  BY <1>2, <1>6 DEF Holds
<1>8. ShapeInv
  <2>1. job \in [Interactions -> Rows \cup {NoJob}]
    <3>1. \A i \in Interactions : job[i] \in Rows \cup {NoJob}
      BY <1>5
    <3>2. job = [i \in Interactions |-> job[i]]
      BY DEF Init
    <3> QED BY <3>1, <3>2
  <2>2. worker \in [Workers -> WorkerRows]
    BY <1>2, <1>6
  <2>3. 0 \in 0 .. MaxEpoch
    BY ButtonBounds
  <2> QED BY <1>0, <1>2, <1>4, <2>1, <2>2, <2>3 DEF ShapeInv
<1>9. RowsInv
  BY <1>2, <1>5, NoJobIs DEF RowsInv, None
<1>10. ClaimsInv
  BY <1>7 DEF ClaimsInv, Claims, Holds
<1>11. AttemptsInv
  <2>1. Faults = 0 /\ MaxFaults \in Nat /\ MaxAttempts \in Nat
    BY <1>2, ButtonBounds DEF Faults
  <2>2. \A i \in Interactions : job[i].attempts = 0 /\ job[i].status # "PROCESSING"
    BY <1>5, NoJobIs DEF None
  <2> QED BY <2>1, <2>2 DEF AttemptsInv
<1>12. FenceInv
  BY <1>2 DEF FenceInv
<1>13. RecordsInv
  <2>1. \A i \in Interactions : job[i].status # "SUCCEEDED"
    BY <1>5, NoJobIs DEF None
  <2> QED BY <1>2, <1>7, <2>1 DEF RecordsInv, OnceAndOnRecord, SucceededIsTrue, None
<1>14. AnswersInv
  <2>1. ASSUME NEW r \in Requests
        PROVE  \/ /\ InteractionOf(r) \in Acknowledged
                   /\ request[r].pipeline = "over" /\ request[r].answer = "acknowledged"
               \/ /\ request[r].pipeline = "resolving" /\ request[r].answer = None /\ request[r].settlement = None
                  /\ InteractionOf(r) \notin Acknowledged
    <3>1. CASE InteractionOf(r) \in Acknowledged
      <4>1. request[r] = [NewRequest EXCEPT !.pipeline = "over", !.answer = "acknowledged"]
        BY <1>3, <3>1
      <4>2. request[r].pipeline = "over" /\ request[r].answer = "acknowledged"
        BY <4>1 DEF NewRequest
      <4> QED BY <3>1, <4>2
    <3>2. CASE InteractionOf(r) \notin Acknowledged
      <4>1. request[r] = NewRequest
        BY <1>3, <3>2
      <4> QED BY <3>2, <4>1 DEF NewRequest
    <3> QED BY <3>1, <3>2
  <2>2. AcknowledgedIsQueued
    <3> SUFFICES ASSUME NEW r \in Requests, request[r].answer = "acknowledged"
                 PROVE  SameDigest(r) /\ JobOf(r).handshake = "ACKNOWLEDGED"
      BY DEF AcknowledgedIsQueued
    <3>1. InteractionOf(r) \in Acknowledged
      BY <2>1 DEF None
    <3> QED BY <1>1, <1>5, <3>1 DEF SameDigest, JobOf
  <2>3. \A r \in Requests :
         /\ request[r].pipeline # "activating"
         /\ request[r].pipeline \in {"resolving", "staging", "activating"} =>
              request[r].answer = None /\ request[r].settlement = None
    BY <2>1
  <2>4. \A i \in Interactions : job[i].handshake = "ACKNOWLEDGED" =>
            \E r \in Requests : InteractionOf(r) = i /\ request[r].answer = "acknowledged"
    BY <1>5, <2>1, NoJobIs DEF None
  <2> QED BY <2>2, <2>3, <2>4 DEF AnswersInv
<1> QED BY <1>8, <1>9, <1>10, <1>11, <1>12, <1>13, <1>14 DEF ButtonsInv

(* and every step keeps it.                                                *)
LEMMA ButtonsNext == ButtonsInv /\ [Next]_vars => ButtonsInv'
<1> SUFFICES ASSUME ButtonsInv, [Next]_vars PROVE ButtonsInv'
  OBVIOUS
<1>1. ASSUME NEW r \in Requests, Route(r) PROVE ButtonsInv'
  BY <1>1, RouteKeeps
<1>2. ASSUME NEW w \in Workers, ClaimExact(w) PROVE ButtonsInv'
  <2>1. InteractionOf(w) \in Interactions
    BY <1>2, CommandIs DEF ClaimExact, ButtonsInv
  <2>2. {InteractionOf(w)} \in SUBSET Interactions /\ In(w, "resting") /\ ClaimJobs(w, {InteractionOf(w)})
    BY <1>2, <2>1 DEF ClaimExact
  <2> QED BY <2>2, ClaimKeeps
<1>3. ASSUME NEW w \in Workers, CronClaims(w) PROVE ButtonsInv'
  BY <1>3, ClaimKeeps DEF CronClaims
<1>4. ASSUME NEW w \in Workers, Working(w) PROVE ButtonsInv'
  BY <1>4, CheckKeeps, CommitKeeps, FinishKeeps DEF Working
<1>5. ASSUME NEW w \in Workers, Crash(w) PROVE ButtonsInv'
  BY <1>5, CrashKeeps
<1>6. CASE EndElsewhere \/ PeriodCloses \/ BeginDisable \/ DrainCheck \/ Reenable
  BY <1>6, SiteKeeps, OperatorKeeps
<1>7. CASE UNCHANGED vars
  <2>1. UNCHANGED <<jobs, request, worker, bounds, receipt, performed, decision>>
        /\ UNCHANGED <<delivery, job, reservation, closed, control, operator, crashes, failures, lapses>>
    BY <1>7 DEF vars, jobs, bounds, booking, fence
  <2>2. ClaimsInv' /\ AttemptsInv' /\ RowsInv' /\ AnswersInv'
    BY <2>1, OutsideKeeps
  <2>3. ShapeInv' /\ FenceInv' /\ RecordsInv'
    BY <2>1 DEF ButtonsInv, ShapeInv, FenceInv, OldMutations, RecordsInv, OnceAndOnRecord, SucceededIsTrue,
                Decided, QuestionSettled
  <2> QED BY <2>2, <2>3 DEF ButtonsInv
<1> QED BY <1>1, <1>2, <1>3, <1>4, <1>5, <1>6, <1>7 DEF Next

(* The invariant holds from the initial states on.                         *)
LEMMA ButtonsAlways == Spec => []ButtonsInv
<1>1. Init => ButtonsInv
  BY ButtonsInit
<1>2. ButtonsInv /\ [Next]_vars => ButtonsInv'
  BY ButtonsNext
<1> QED BY <1>1, <1>2, PTL DEF Spec

(* The attempts have the bound that the faults give them.                  *)
LEMMA ButtonsTyped == ButtonsInv => TypeOK
<1> SUFFICES ASSUME ButtonsInv PROVE TypeOK
  OBVIOUS
<1>0. ShapeInv /\ ClaimsInv /\ AttemptsInv /\ MaxFaults \in Nat /\ MaxAttempts \in Nat
      /\ Faults \in Nat /\ Faults <= MaxFaults
  BY ButtonBounds, FaultsAre DEF ButtonsInv
<1>1. ASSUME NEW i \in Interactions
      PROVE  job[i].attempts \in Attempts
  <2>1. job[i].attempts \in Nat /\ job[i].attempts <= MaxAttempts + Faults
    BY <1>0, AttemptsAre DEF AttemptsInv
  <2> QED BY <1>0, <2>1 DEF Attempts
<1>2. job \in [Interactions -> JobRows \cup {NoJob}]
  <2>1. ASSUME NEW i \in Interactions PROVE job[i] \in JobRows \cup {NoJob}
    <3>1. job[i] \in Rows \cup {NoJob}
      BY <1>0, AttemptsAre
    <3> QED BY <1>1, <3>1 DEF Rows, JobRows
  <2> QED BY <1>0, <2>1 DEF ShapeInv
<1>3. worker \in [Workers -> WorkerStates]
  <2>1. ASSUME NEW w \in Workers PROVE worker[w] \in WorkerStates
    <3>1. worker[w] \in WorkerRows /\ worker[w].claims \in [Holds(w) -> Nat] /\ Holds(w) \subseteq Interactions
      BY <1>0, RunIs
    <3>2. ASSUME NEW i \in Holds(w) PROVE worker[w].claims[i] \in Attempts
      <4>1. worker[w].claims[i] <= job[i].attempts /\ worker[w].claims[i] \in Nat
        BY <1>0, <3>1 DEF ClaimsInv
      <4>2. job[i].attempts \in Attempts
        BY <1>1, <3>1
      <4> QED BY <1>0, <4>1, <4>2 DEF Attempts
    <3>3. worker[w].claims \in [Holds(w) -> Attempts]
      BY <3>1, <3>2
    <3>4. worker[w].claims \in ClaimSets
      BY <3>1, <3>3 DEF ClaimSets
    <3> QED BY <3>1, <3>4 DEF WorkerRows, WorkerStates
  <2> QED BY <1>0, <2>1 DEF ShapeInv
<1>4. {crashes, failures, lapses} \subseteq 0 .. MaxFaults
  <2>1. crashes \in Nat /\ failures \in Nat /\ lapses \in Nat /\ Faults = crashes + failures + lapses
    BY <1>0 DEF ShapeInv, Faults
  <2> QED BY <1>0, <2>1
<1> QED BY <1>0, <1>2, <1>3, <1>4 DEF TypeOK, ShapeInv

(* What a request was answered is what becomes of its job: one that was    *)
(* abandoned unacknowledged never runs (settleUnacknowledgedHandshake),    *)
(* one that was acknowledged stays queued (activate), and one that was     *)
(* rejected by everybody waits for nobody.                                 *)
THEOREM HandshakeHolds == Spec => []HandshakeIsKept
<1>1. ButtonsInv => HandshakeIsKept
  <2> SUFFICES ASSUME ButtonsInv PROVE HandshakeIsKept
    OBVIOUS
  <2>1. ShapeInv /\ RowsInv /\ AnswersInv
    BY DEF ButtonsInv
  <2>2. AbandonedNeverRuns
    BY <2>1 DEF RowsInv, AbandonedNeverRuns
  <2>3. AcknowledgedIsQueued
    BY <2>1 DEF AnswersInv
  <2>4. RejectedIsNotQueued
    <3> SUFFICES ASSUME NEW i \in Interactions, job[i].handshake = "ACKNOWLEDGED", failures = 0,
                        \A r \in Requests : InteractionOf(r) = i => request[r].answer = "rejected",
                        ~(job[i].attempts > 0)
                 PROVE  FALSE
      BY DEF RejectedIsNotQueued
    <3>1. job[i].attempts = 0
      BY <2>1, AttemptsAre
    <3>2. \E r \in Requests : InteractionOf(r) = i /\ request[r].answer = "acknowledged"
      BY <2>1, <3>1 DEF AnswersInv
    <3> QED BY <3>2
  <2> QED BY <2>2, <2>3, <2>4 DEF HandshakeIsKept
<1> QED BY <1>1, ButtonsAlways, PTL

(* A job whose outcome is on record is not written again.                  *)
LEMMA OutcomeSteps ==
    ASSUME ButtonsInv, [Next]_vars, NEW i \in Interactions, job[i].status \in Terminal
    PROVE  job'[i] = job[i]
<1>0. ShapeInv
  BY DEF ButtonsInv
<1>1. ASSUME NEW r \in Requests, Route(r) PROVE job'[i] = job[i]
  BY <1>1, RouteSteps, MovesStand DEF RouteFacts
<1>2. ASSUME NEW w \in Workers, NEW claimed \in SUBSET Interactions, ClaimJobs(w, claimed) PROVE job'[i] = job[i]
  <2>1. i \notin claimed
    BY <1>2 DEF ClaimJobs, ClaimableWhere, Terminal
  <2> QED BY <1>2, <2>1, ClaimedRows
<1>3. ASSUME NEW w \in Workers, ClaimExact(w) \/ CronClaims(w) PROVE job'[i] = job[i]
  <2>1. CASE ClaimExact(w)
    <3>1. {InteractionOf(w)} \in SUBSET Interactions
      BY <1>0, <2>1, CommandIs DEF ClaimExact
    <3> QED BY <1>2, <2>1, <3>1 DEF ClaimExact
  <2>2. CASE CronClaims(w)
    BY <1>2, <2>2 DEF CronClaims
  <2> QED BY <1>3, <2>1, <2>2
<1>4. ASSUME NEW w \in Workers, FinishClaim(w) PROVE job'[i] = job[i]
  <2>1. UNCHANGED job \/ \E j \in {worker[w].current}, status \in {StatusAfter(worker[w].current, worker[w].outcome)} :
            job[j].status = "PROCESSING" /\ job' = [job EXCEPT ![j].status = status]
    BY <1>4 DEF FinishClaim
  <2> QED BY <1>0, <2>1 DEF ShapeInv, Terminal
<1>5. ASSUME NEW w \in Workers, CheckDispatch(w) \/ AuthorizationFails(w) \/ BeginOperation(w) \/ CommitOperation(w)
                                \/ Crash(w)
      PROVE  job'[i] = job[i]
  BY <1>5 DEF CheckDispatch, AuthorizationFails, BeginOperation, CommitOperation, Crash, jobs
<1>6. CASE EndElsewhere \/ PeriodCloses \/ BeginDisable \/ DrainCheck \/ Reenable \/ UNCHANGED vars
  BY <1>6 DEF EndElsewhere, PeriodCloses, BeginDisable, DrainCheck, Reenable, vars, jobs
<1> QED BY <1>1, <1>3, <1>4, <1>5, <1>6 DEF Next, Working

(* A job takes effect at most once however often it is claimed, its        *)
(* success is the decision of its question, and its outcome stays          *)
(* (processDiscordReservationOperationInTransaction, finishClaim).         *)
THEOREM EffectsHold == Spec => EffectsStand
<1>1. ButtonsInv => TypeOK /\ OnceAndOnRecord /\ SucceededIsTrue
  BY ButtonsTyped DEF ButtonsInv, RecordsInv
<1>2. Spec => [](TypeOK /\ OnceAndOnRecord /\ SucceededIsTrue)
  BY <1>1, ButtonsAlways, PTL
<1>3. ButtonsInv /\ [Next]_vars => [\A i \in Interactions : job[i].status \in Terminal => job'[i] = job[i]]_vars
  BY OutcomeSteps
<1>4. Spec => OutcomeIsFinal
  BY <1>3, ButtonsAlways, PTL DEF Spec, OutcomeIsFinal
<1> QED BY <1>2, <1>4 DEF EffectsStand

(* After a drained disable no button of before takes effect, unless a      *)
(* claim lapsed under a run that went on (discord-operations-cli).         *)
THEOREM DrainedHolds == Spec => DrainedIsQuiet
<1>1. ASSUME ButtonsInv, [Next]_vars, performed' # performed PROVE operator # "drained" \/ lapses > 0
  <2>0. ShapeInv /\ ClaimsInv /\ FenceInv /\ lapses \in Nat
    BY <1>1 DEF ButtonsInv, ShapeInv
  <2>1. PICK w \in Workers : CommitOperation(w)
    <3>1. \A r \in Requests : Route(r) => UNCHANGED performed
      BY <1>1, RouteSteps DEF RouteFrame, booking
    <3>2. \A w \in Workers : ClaimExact(w) \/ CronClaims(w) \/ CheckDispatch(w) \/ AuthorizationFails(w)
             \/ BeginOperation(w) \/ FinishClaim(w) \/ Crash(w) => UNCHANGED performed
      BY DEF ClaimExact, CronClaims, ClaimJobs, CheckDispatch, AuthorizationFails, BeginOperation, FinishClaim,
             Crash, booking
    <3>3. EndElsewhere \/ PeriodCloses \/ BeginDisable \/ DrainCheck \/ Reenable \/ UNCHANGED vars
             => UNCHANGED performed
      BY DEF EndElsewhere, PeriodCloses, BeginDisable, DrainCheck, Reenable, vars, booking
    <3> QED BY <1>1, <3>1, <3>2, <3>3 DEF Next, Working
  <2>2. worker[w].phase = "committing"
    BY <2>1 DEF CommitOperation, In
  <2>3. PICK i \in Interactions : i \in Holds(w)
    BY <2>0, <2>2, RunIs DEF ClaimsInv
  <2>4. lapses = 0 => job[i].status = "PROCESSING"
    BY <2>0, <2>3 DEF ClaimsInv
  <2>5. operator = "drained" => job[i].status # "PROCESSING"
    BY <2>0 DEF FenceInv, OldMutations
  <2> QED BY <2>0, <2>4, <2>5
<1>2. ButtonsInv /\ [Next]_vars => [performed' # performed => operator # "drained" \/ lapses > 0]_vars
  BY <1>1
<1> QED BY <1>2, ButtonsAlways, PTL DEF Spec, DrainedIsQuiet
=============================================================================
