--------------------- MODULE DiscordAdminCommandsProofs ---------------------
(***************************************************************************)
(* What holds of the administrators' commands, for any number of commands, *)
(* requests, runs, seats, retries and faults.                              *)
(***************************************************************************)
EXTENDS DiscordAdminCommands, FiniteSetTheorems, WellFoundedInduction, TLAPS

(* The phases of a run that works on claimed jobs, and on claimed results.  *)
JobPhases == {"picking", "executing", "finishing"}
ResultPhases == {"sending", "noting"}

(* A run's state fits its phase.                                            *)
RunFits(w) ==
    /\ run[w].phase \in {"resting", "delivering", "over"} => DOMAIN run[w].claims = {}
    /\ run[w].phase \in {"executing", "finishing", "noting"} => run[w].current \in DOMAIN run[w].claims
    /\ run[w].phase = "picking" => run[w].done = 0
    /\ run[w].phase = "executing" => run[w].todo # {} /\ run[w].done + Cardinality(run[w].todo) <= Cardinality(Seats)
    /\ run[w].phase = "finishing" => run[w].outcome \in AdminResults \cup {Only("retry")}
    /\ run[w].phase = "noting" => run[w].outcome \in {Only("sent"), Only("failed")}

(* A row's columns fit each other.                                          *)
RowFits(row) ==
    /\ row.handshake = "AWAITING_REASON" <=> row.status = "DRAFT"
    /\ row.handshake = "STAGED" => row.status = "PENDING"
    /\ row.status \in {"DRAFT", "PENDING"} => row.attempts = 0
    /\ row.handshake = "AWAITING_REASON" => row.execution = None
    /\ row.result # NoResult <=> row.status \in Ended
    /\ row.delivery = None <=> row.result = NoResult
    /\ row.status = "RETRY" => row.attempts < MaxAttempts
    /\ row.delivery \in {None, "PENDING"} => row.deliveries = 0
    /\ row.delivery = "RETRY" => row.deliveries < MaxAttempts

(* Whoever staged a row asked for what it says.                             *)
RowIsAskedFor(j) ==
    command[j] # NoCommand /\ command[j].handshake # "AWAITING_REASON" =>
        \E q \in AdminRequests : /\ script[q].source = j /\ command[j].execution = script[q].id
                                 /\ command[j].reason = script[q].reason

(* Every request for a command has been answered or is with its run; a run  *)
(* has a claim on it; something of it has been done, shown or promised.     *)
Settled(j) == \A r \in AdminRequests : script[r].source = j => asked[r].step \in {"job", "over"}
Claimed(j) == \E w \in Runs : j \in DOMAIN run[w].claims
Touched(j) ==
    \/ effects[j] > 0 \/ \E x \in AdminResults : shown[j][x] > 0
    \/ \E r \in AdminRequests : script[r].source = j /\ asked[r].answer = "deferred"

(* Only an acknowledged job is run, and a job that was is never staged      *)
(* again.                                                                   *)
RunIsAcknowledged(j) ==
    /\ Claimed(j) => command[j].handshake = "ACKNOWLEDGED"
    /\ Touched(j) => command[j].handshake = "ACKNOWLEDGED" \/ (command[j] = NoCommand /\ Settled(j))
    /\ \A w \in Runs : run[w].phase \in ResultPhases /\ j \in DOMAIN run[w].claims => command[j].result # NoResult

(* Claims carry the number of the attempt they are.                         *)
ClaimsFit(j) ==
    /\ \A w \in Runs : j \in DOMAIN run[w].claims =>
          /\ run[w].phase \in JobPhases => run[w].claims[j] <= command[j].attempts
          /\ run[w].phase \in ResultPhases => run[w].claims[j] <= command[j].deliveries
    /\ \A v, w \in Runs : v # w /\ j \in DOMAIN run[v].claims /\ j \in DOMAIN run[w].claims =>
          /\ run[v].phase \in JobPhases /\ run[w].phase \in JobPhases => run[v].claims[j] # run[w].claims[j]
          /\ run[v].phase \in ResultPhases /\ run[w].phase \in ResultPhases => run[v].claims[j] # run[w].claims[j]

(* Some run still has the claim that the row counts.                        *)
JobHeld(j) == \E w \in Runs : HoldsJob(w, j)
ResultHeld(j) == \E w \in Runs : HoldsDelivery(w, j)

(* Every claim beyond the last retry is paid for by a fault.                *)
Paid(j) ==
    /\ command[j].attempts <= MaxAttempts + faults
    /\ command[j].status = "PROCESSING" /\ ~JobHeld(j) => command[j].attempts + 1 <= MaxAttempts + faults
    /\ command[j].deliveries <= MaxAttempts + faults
    /\ command[j].delivery = "SENDING" /\ ~ResultHeld(j) => command[j].deliveries + 1 <= MaxAttempts + faults

(* What a run is about to record has been done.                             *)
DoneSoFar(w) ==
    /\ run[w].phase = "executing" => run[w].done <= effects[run[w].current]
    /\ run[w].phase = "finishing" => run[w].outcome.changes <= effects[run[w].current]
    /\ run[w].phase = "noting" /\ run[w].outcome = Only("sent") =>
          shown[run[w].current][command[run[w].current].result] > 0

(* Without a fault every claim is the last of its job, and effects and      *)
(* messages are exactly those that the row and its holder account for.      *)
FaultlessRun(w) ==
    \A j \in DOMAIN run[w].claims :
        /\ run[w].phase \in JobPhases => HoldsJob(w, j) /\ command[j].status = "PROCESSING"
        /\ run[w].phase \in JobPhases /\ (run[w].phase = "picking" \/ run[w].current # j) => effects[j] = 0
        /\ run[w].phase = "executing" /\ run[w].current = j => effects[j] = run[w].done
        /\ run[w].phase = "finishing" /\ run[w].current = j =>
              effects[j] = run[w].outcome.changes /\ run[w].outcome # Only("retry")
        /\ run[w].phase \in ResultPhases => HoldsDelivery(w, j) /\ command[j].delivery = "SENDING"
        /\ run[w].phase \in ResultPhases /\ (run[w].phase = "sending" \/ run[w].current # j) => Times(j) = 0
        /\ run[w].phase = "noting" /\ run[w].current = j => Times(j) = 1 /\ run[w].outcome = Only("sent")

(* What a row says while nothing has failed.                                *)
FaultlessRow(j) ==
    /\ command[j].result = NoResult /\ command[j] # NoCommand => \A x \in AdminResults : shown[j][x] = 0
    /\ command[j] # NoCommand /\ command[j].status \notin {"PROCESSING"} \cup Ended => effects[j] = 0
    /\ command[j].status = "PROCESSING" => JobHeld(j)
    /\ command[j].status # "RETRY"
    /\ command[j].result # NoResult => effects[j] = command[j].result.changes
    /\ command[j].delivery = "PENDING" => Times(j) = 0
    /\ command[j].delivery = "SENDING" => ResultHeld(j)
    /\ command[j].delivery = "SENT" => Times(j) = 1
    /\ command[j].delivery \notin {"RETRY", "FAILED"}

(* All that holds while nothing has failed.                                 *)
FaultlessInv == faults = 0 => (\A w \in Runs : FaultlessRun(w)) /\ (\A j \in Sources : FaultlessRow(j))

(* The inductive invariant of the administrators' commands.                 *)
CommandsInv ==
    /\ AdminTypeOK
    /\ \A w \in Runs : RunFits(w) /\ DoneSoFar(w)
    /\ \A j \in Sources : /\ command[j] # NoCommand => RowFits(command[j])
                          /\ RowIsAskedFor(j) /\ RunIsAcknowledged(j) /\ ClaimsFit(j) /\ Paid(j)
    /\ FaultlessInv
    /\ DeferredIsMine /\ NeverOverclaims
    /\ \A j \in Sources : command[j].delivery = "SENT" => Times(j) > 0

(* What the constants are.                                                  *)
LEMMA CommandConstants ==
    /\ MaxAttempts \in Nat \ {0} /\ MaxFaults \in Nat /\ 1 \in Seats /\ IsFiniteSet(Seats) /\ Seats \subseteq Nat
    /\ Cardinality(Seats) \in Nat
    /\ NoResult \notin AdminResults /\ Only("success") \in AdminResults /\ Only("stale") \in AdminResults
    /\ Only("failure") \in AdminResults
    /\ \A x \in AdminResults : x.changes \in Nat
    /\ \A n \in 0 .. Cardinality(Seats) : Result("success", n) \in AdminResults /\ Result("success", n).changes = n
<1>1. /\ MaxAttempts \in Nat \ {0} /\ MaxFaults \in Nat /\ 1 \in Seats /\ IsFiniteSet(Seats) /\ Seats \subseteq Nat
      /\ Cardinality(Seats) \in Nat
  BY AdminCommandAssumption, FS_CardinalityType DEF AdminCommandAssumption
<1> QED BY <1>1 DEF AdminResults, Only, Result, NoResult, None

(* What the columns of a row are.                                           *)
LEMMA RowTypes ==
    ASSUME AdminTypeOK, NEW j \in Sources
    PROVE  /\ command[j] \in CommandRows \cup {NoCommand}
           /\ command[j] # NoCommand => command[j] \in CommandRows
           /\ command[j].attempts \in Nat /\ command[j].deliveries \in Nat
           /\ command[j].result \in AdminResults \cup {NoResult}
           /\ command[j].result.changes \in Nat
           /\ command[j].handshake # None => command[j] # NoCommand
           /\ command[j].result # NoResult => command[j] # NoCommand /\ command[j].result \in AdminResults
           /\ command[j].status # None => command[j] # NoCommand
           /\ command[j].delivery # None => command[j] # NoCommand
<1>1. command[j] \in CommandRows \cup {NoCommand}
  BY DEF AdminTypeOK
<1>2. CASE command[j] = NoCommand
  BY <1>1, <1>2 DEF NoCommand, NoResult, Only, Result
<1>3. CASE command[j] \in CommandRows
  <2>1. /\ command[j].attempts \in Nat /\ command[j].deliveries \in Nat
        /\ command[j].result \in AdminResults \cup {NoResult}
    BY <1>3, CommandConstants DEF CommandRows, Tries
  <2>2. command[j].result.changes \in Nat
    BY <2>1, CommandConstants DEF NoResult, Only, Result
  <2>3. command[j] # NoCommand
    BY <1>3 DEF CommandRows, NoCommand, None
  <2> QED BY <1>1, <1>3, <2>1, <2>2, <2>3
<1> QED BY <1>1, <1>2, <1>3

(* What the fields of a run are.                                            *)
LEMMA RunTypes ==
    ASSUME AdminTypeOK, NEW w \in Runs
    PROVE  /\ DOMAIN run[w].claims \subseteq Sources
           /\ \A j \in DOMAIN run[w].claims : run[w].claims[j] \in Nat /\ run[w].claims[j] \in Tries
           /\ run[w].done \in Nat /\ run[w].todo \subseteq Seats
           /\ run[w].phase \in {"resting", "picking", "executing", "finishing", "delivering", "sending",
                                "noting", "over"}
<1>1. run[w] \in RunStates
  BY DEF AdminTypeOK
<1>2. PICK S \in SUBSET Sources : run[w].claims \in [S -> Tries]
  BY <1>1 DEF RunStates
<1> QED BY <1>1, <1>2, CommandConstants DEF RunStates, Tries

(* A run's state with the claims that it keeps or makes.                    *)
LEMMA RunStateTypes ==
    ASSUME NEW S \in SUBSET Sources, NEW f \in [S -> Tries]
    PROVE  f \in UNION {[U -> Tries] : U \in SUBSET Sources}
OBVIOUS

(* A run at rest.                                                           *)
LEMMA RestTypes ==
    /\ NoRun \in RunStates /\ DOMAIN NoRun.claims = {} /\ NoRun.done = 0 /\ NoRun.phase = "resting"
    /\ \A phase \in {"delivering", "resting", "over"} : [NoRun EXCEPT !.phase = phase] \in RunStates
<1>1. [j \in {} |-> 0] \in [{} -> Tries]
  OBVIOUS
<1>2. [j \in {} |-> 0] \in UNION {[U -> Tries] : U \in SUBSET Sources}
  BY <1>1, RunStateTypes
<1>3. 0 \in 0 .. Cardinality(Seats)
  BY CommandConstants
<1>4. NoRun \in RunStates /\ DOMAIN NoRun.claims = {} /\ NoRun.done = 0 /\ NoRun.phase = "resting"
  BY <1>2, <1>3 DEF NoRun, RunStates
<1>5. \A phase \in {"delivering", "resting", "over"} : [NoRun EXCEPT !.phase = phase] \in RunStates
  <2> HIDE DEF NoRun
  <2> QED BY <1>4 DEF RunStates
<1> QED BY <1>4, <1>5

(* The rows that stand at the start.                                        *)
LEMMA CommandsStart == AdminInit => CommandsInv
<1> SUFFICES ASSUME AdminInit PROVE CommandsInv
  OBVIOUS
<1> DEFINE Early(j) == \E r \in AdminRequests : EarlyRequest(r) /\ script[r].source = j
<1>1. \A j \in Sources : \/ ~Early(j) /\ command[j] = NoCommand
                         \/ \E q \in AdminRequests : /\ EarlyRequest(q) /\ script[q].source = j
                                                     /\ command[j] = EarlyRow(q)
  BY DEF AdminInit
<1>2. \A q \in AdminRequests : EarlyRequest(q) =>
         /\ script[q].kind = "command" /\ script[q].reason = None /\ script[q].id \in AdminRequests
         /\ script[q].source \in Sources /\ script[q].intent \in Intents
  BY AdminCommandAssumption DEF AdminInit, EarlyRequest, AdminCommandAssumption, CarriedInteractions
<1>3. \A q \in AdminRequests : EarlyRequest(q) =>
         /\ EarlyRow(q) \in CommandRows /\ RowFits(EarlyRow(q)) /\ EarlyRow(q) # NoCommand
         /\ EarlyRow(q).handshake = "ACKNOWLEDGED" /\ EarlyRow(q).status = "PENDING"
         /\ EarlyRow(q).execution = script[q].id /\ EarlyRow(q).reason = None /\ EarlyRow(q).result = NoResult
         /\ EarlyRow(q).attempts = 0 /\ EarlyRow(q).deliveries = 0 /\ EarlyRow(q).delivery = None
  <2> TAKE q \in AdminRequests
  <2> HAVE EarlyRequest(q)
  <2>1. 0 \in Tries
    BY CommandConstants DEF Tries
  <2>2. /\ EarlyRow(q).handshake = "ACKNOWLEDGED" /\ EarlyRow(q).status = "PENDING"
        /\ EarlyRow(q).execution = script[q].id /\ EarlyRow(q).reason = None /\ EarlyRow(q).result = NoResult
        /\ EarlyRow(q).attempts = 0 /\ EarlyRow(q).deliveries = 0 /\ EarlyRow(q).delivery = None
    BY DEF EarlyRow, NoCommand
  <2>3. RowFits(EarlyRow(q)) /\ EarlyRow(q) # NoCommand
    <3>1. NoCommand.status = None
      BY DEF NoCommand
    <3> QED BY <2>2, <3>1 DEF RowFits, Ended, None
  <2>4. EarlyRow(q) \in CommandRows
    BY <1>2, <2>1 DEF EarlyRow, NoCommand, CommandRows
  <2> QED BY <2>2, <2>3, <2>4
<1>4. \A w \in Runs : /\ run[w] \in RunStates /\ DOMAIN run[w].claims = {}
                      /\ run[w].phase \in {"resting", "over"}
  BY RestTypes DEF AdminInit
<1>5. AdminTypeOK
  <2>1. command \in [Sources -> CommandRows \cup {NoCommand}]
    BY <1>1, <1>3 DEF AdminInit
  <2>2. run \in [Runs -> RunStates]
    BY <1>4 DEF AdminInit
  <2>3. asked \in [AdminRequests -> [step   : {"preparing", "activating", "job", "over"},
                                    timer  : BOOLEAN,
                                    answer : {None, "modal", "deferred", "error"}]]
    BY DEF AdminInit
  <2> QED BY <2>1, <2>2, <2>3, CommandConstants DEF AdminInit, AdminTypeOK
<1>6. \A w \in Runs : RunFits(w) /\ DoneSoFar(w)
  BY <1>4 DEF RunFits, DoneSoFar
<1>7. \A r \in AdminRequests : asked[r].answer = "deferred" <=> EarlyRequest(r)
  BY DEF AdminInit, None
<1>8. \A q, r \in AdminRequests : EarlyRequest(q) /\ EarlyRequest(r) /\ script[q].source = script[r].source =>
         script[q] = script[r]
  BY <1>2, AdminCommandAssumption DEF AdminInit, AdminCommandAssumption
<1>9. DeferredIsMine
  BY <1>1, <1>2, <1>3, <1>7, <1>8, AdminCommandAssumption
  DEF AdminInit, DeferredIsMine, AdminCommandAssumption, CarriedInteractions
<1>10. ASSUME NEW j \in Sources
       PROVE  /\ command[j] # NoCommand => RowFits(command[j])
              /\ RowIsAskedFor(j) /\ command[j].result = NoResult /\ command[j].delivery = None
              /\ command[j].attempts = 0 /\ command[j].deliveries = 0
              /\ command[j].status \in {None, "PENDING"} /\ ~Claimed(j)
  BY <1>1, <1>2, <1>3, <1>4 DEF RowIsAskedFor, NoCommand, Claimed
<1>11. \A j \in Sources : effects[j] = 0 /\ \A x \in AdminResults : shown[j][x] = 0
  BY DEF AdminInit
<1>12. ASSUME NEW j \in Sources PROVE RunIsAcknowledged(j)
  <2>1. ASSUME NEW r \in AdminRequests, script[r].source = j, asked[r].answer = "deferred"
        PROVE  command[j].handshake = "ACKNOWLEDGED"
    BY <1>1, <1>3, <1>7, <2>1
  <2> QED BY <1>4, <1>10, <1>11, <2>1 DEF RunIsAcknowledged, Touched, ResultPhases
<1>13. \A j \in Sources : ClaimsFit(j) /\ Paid(j)
  <2>1. faults = 0
    BY DEF AdminInit
  <2> QED BY <1>4, <1>10, <2>1, CommandConstants DEF ClaimsFit, Paid, None
<1>14. FaultlessInv
  <2>1. \A w \in Runs : FaultlessRun(w)
    BY <1>4 DEF FaultlessRun
  <2>2. \A j \in Sources : FaultlessRow(j)
    BY <1>10, <1>11 DEF FaultlessRow, None
  <2> QED BY <2>1, <2>2 DEF FaultlessInv
<1> QED
  BY <1>5, <1>6, <1>9, <1>10, <1>12, <1>13, <1>14 DEF CommandsInv, NeverOverclaims, None

(* A row that a request writes: staged or activated, and never run so far.  *)
Written(j) ==
    /\ command[j].handshake # "ACKNOWLEDGED" /\ ~Settled(j)
    /\ RowFits(command'[j]) /\ command'[j] # NoCommand
    /\ command'[j].status \in {"DRAFT", "PENDING"} /\ command'[j].result = NoResult

(* The row is activated for the interaction that the request carries.       *)
IsMine(r) ==
    /\ command[script[r].source].handshake = "ACKNOWLEDGED"
    /\ command[script[r].source].execution = script[r].id
    /\ command[script[r].source].reason = script[r].reason

(* What the requests and the surroundings do leaves the runs alone.         *)
LEMMA RequestFrame ==
    ASSUME CommandsInv, AdminTypeOK', UNCHANGED <<script, run, effects, shown>>, faults' \in {faults, faults + 1},
           \A j \in Sources : command'[j] = command[j] \/ (Written(j) /\ RowIsAskedFor(j)'),
           \A r \in AdminRequests : asked[r].step \in {"job", "over"} => asked'[r].step \in {"job", "over"},
           \A r \in AdminRequests : asked'[r].answer = "deferred" =>
               asked[r].answer = "deferred" \/ IsMine(r)'
    PROVE  CommandsInv'
<1>0. faults \in Nat /\ (faults' = 0 => faults = 0) /\ faults <= faults'
  BY CommandConstants DEF CommandsInv, AdminTypeOK
<1>1. ASSUME NEW j \in Sources, Claimed(j) \/ Touched(j) PROVE command'[j] = command[j]
  BY <1>1 DEF CommandsInv, RunIsAcknowledged, Written
<1>2. ASSUME NEW j \in Sources, command'[j] # command[j]
      PROVE  /\ ~Claimed(j) /\ ~Touched(j) /\ RowFits(command'[j]) /\ command'[j] # NoCommand
             /\ command'[j].status \in {"DRAFT", "PENDING"} /\ command'[j].result = NoResult
             /\ command'[j].attempts = 0 /\ command'[j].deliveries = 0 /\ command'[j].delivery = None
             /\ effects[j] = 0 /\ \A x \in AdminResults : shown[j][x] = 0
  <2>1. /\ RowFits(command'[j]) /\ command'[j] # NoCommand
        /\ command'[j].status \in {"DRAFT", "PENDING"} /\ command'[j].result = NoResult
    BY <1>2 DEF Written
  <2>2. command'[j].attempts = 0 /\ command'[j].delivery = None /\ command'[j].deliveries = 0
    BY <2>1 DEF RowFits
  <2>3. effects[j] \in Nat /\ \A x \in AdminResults : shown[j][x] \in Nat
    BY DEF CommandsInv, AdminTypeOK
  <2>4. ~Claimed(j) /\ ~Touched(j)
    BY <1>1, <1>2
  <2> QED BY <2>1, <2>2, <2>3, <2>4 DEF Touched
<1>3. \A w \in Runs : \A j \in DOMAIN run[w].claims : j \in Sources /\ Claimed(j) /\ command'[j] = command[j]
  BY <1>1, RunTypes DEF CommandsInv, Claimed
<1>4. \A w \in Runs : RunFits(w)'
  BY DEF CommandsInv, RunFits
<1>5. \A w \in Runs : DoneSoFar(w)'
  BY <1>3 DEF CommandsInv, DoneSoFar, RunFits
<1>6. \A j \in Sources : command'[j] # NoCommand => RowFits(command'[j])
  BY <1>2 DEF CommandsInv
<1>7. \A j \in Sources : RowIsAskedFor(j)'
  BY <1>2 DEF CommandsInv, RowIsAskedFor
<1>8. ASSUME NEW j \in Sources PROVE RunIsAcknowledged(j)'
  <2>1. Claimed(j)' => command'[j].handshake = "ACKNOWLEDGED"
    BY <1>1 DEF Claimed, CommandsInv, RunIsAcknowledged
  <2>2. ASSUME Touched(j)
        PROVE  command'[j].handshake = "ACKNOWLEDGED" \/ (command'[j] = NoCommand /\ Settled(j)')
    BY <1>1, <2>2 DEF CommandsInv, RunIsAcknowledged, Settled
  <2>3. ASSUME Touched(j)', ~Touched(j) PROVE command'[j].handshake = "ACKNOWLEDGED"
    BY <2>3 DEF Touched, IsMine
  <2>4. \A w \in Runs : run'[w].phase \in ResultPhases /\ j \in DOMAIN run'[w].claims => command'[j].result # NoResult
    BY <1>3 DEF CommandsInv, RunIsAcknowledged
  <2> QED BY <2>1, <2>2, <2>3, <2>4 DEF RunIsAcknowledged
<1>9. \A j \in Sources : ClaimsFit(j)'
  BY <1>3 DEF CommandsInv, ClaimsFit
<1>10. ASSUME NEW j \in Sources PROVE Paid(j)'
  <2>1. CASE command'[j] = command[j]
    <3>1. command[j].attempts \in Nat /\ command[j].deliveries \in Nat
      BY RowTypes DEF CommandsInv
    <3>2. JobHeld(j)' <=> JobHeld(j)
      BY <2>1 DEF JobHeld, HoldsJob
    <3>3. ResultHeld(j)' <=> ResultHeld(j)
      BY <2>1 DEF ResultHeld, HoldsDelivery
    <3> QED BY <1>0, <2>1, <3>1, <3>2, <3>3, CommandConstants DEF CommandsInv, Paid
  <2>2. CASE command'[j] # command[j]
    <3>1. faults' \in Nat
      BY <1>0
    <3> QED BY <1>2, <2>2, <3>1, CommandConstants DEF Paid, None
  <2> QED BY <2>1, <2>2
<1>11. ASSUME faults' = 0, NEW w \in Runs PROVE FaultlessRun(w)'
  <2>1. FaultlessRun(w)
    BY <1>0, <1>11 DEF CommandsInv, FaultlessInv
  <2> QED BY <1>3, <2>1 DEF FaultlessRun, HoldsJob, HoldsDelivery, Times
<1>12. ASSUME faults' = 0, NEW j \in Sources PROVE FaultlessRow(j)'
  <2>1. FaultlessRow(j)
    BY <1>0, <1>12 DEF CommandsInv, FaultlessInv
  <2>2. CASE command'[j] = command[j]
    <3>2. JobHeld(j)' <=> JobHeld(j)
      BY <2>2 DEF JobHeld, HoldsJob
    <3>3. ResultHeld(j)' <=> ResultHeld(j)
      BY <2>2 DEF ResultHeld, HoldsDelivery
    <3> QED BY <2>1, <2>2, <3>2, <3>3 DEF FaultlessRow, Times
  <2>3. CASE command'[j] # command[j]
    BY <1>2, <2>3 DEF FaultlessRow, None, Ended
  <2> QED BY <2>2, <2>3
<1>13. FaultlessInv'
  BY <1>11, <1>12 DEF FaultlessInv
<1>14. NeverOverclaims'
  BY <1>2 DEF CommandsInv, NeverOverclaims
<1>15. \A j \in Sources : command'[j].delivery = "SENT" => Times(j)' > 0
  BY <1>2 DEF CommandsInv, Times, None
<1>16. DeferredIsMine'
  <2> SUFFICES ASSUME NEW r \in AdminRequests, asked'[r].answer = "deferred"
               PROVE  command'[script[r].source] = NoCommand \/ IsMine(r)'
    BY DEF DeferredIsMine, IsMine
  <2>1. CASE asked[r].answer = "deferred"
    <3>1. script[r].source \in Sources
      BY AdminCommandAssumption DEF CommandsInv, AdminTypeOK, AdminCommandAssumption, CarriedInteractions
    <3>2. Touched(script[r].source)
      BY <2>1 DEF Touched
    <3>3. command'[script[r].source] = command[script[r].source]
      BY <1>1, <3>1, <3>2
    <3>4. command[script[r].source] = NoCommand \/ IsMine(r)
      BY <2>1 DEF CommandsInv, DeferredIsMine, IsMine
    <3> QED BY <3>3, <3>4 DEF IsMine
  <2> QED BY <2>1
<1> QED
  BY <1>4, <1>5, <1>6, <1>7, <1>8, <1>9, <1>10, <1>13, <1>14, <1>15, <1>16 DEF CommandsInv

(* What is kept of a request.                                               *)
Askings == [step : {"preparing", "activating", "job", "over"}, timer : BOOLEAN,
            answer : {None, "modal", "deferred", "error"}]

(* What the requests carry.                                                 *)
LEMMA ScriptFacts ==
    ASSUME AdminTypeOK, NEW r \in AdminRequests
    PROVE  /\ script[r].source \in Sources /\ script[r].id \in AdminRequests
           /\ script[r].intent \in Intents /\ script[r].reason \in Reasons \cup {None}
           /\ \A q \in AdminRequests : script[q].id = script[r].id => script[q] = script[r]
BY AdminCommandAssumption DEF AdminTypeOK, AdminCommandAssumption, CarriedInteractions

(* A row that a request stages fits.                                        *)
LEMMA StagedRowFits ==
    ASSUME AdminTypeOK, NEW r \in AdminRequests, NEW row \in CommandRows \cup {NoCommand},
           row = NoCommand \/ (row.status = "DRAFT" /\ RowFits(row))
    PROVE  /\ StagedBy(r, row) \in CommandRows /\ RowFits(StagedBy(r, row)) /\ StagedBy(r, row) # NoCommand
           /\ StagedBy(r, row).status = "PENDING" /\ StagedBy(r, row).result = NoResult
           /\ StagedBy(r, row).execution = script[r].id /\ StagedBy(r, row).reason = script[r].reason
<1> DEFINE new == StagedBy(r, row)
<1>0. 0 \in Tries
  BY CommandConstants DEF Tries
<1>1. /\ NoCommand.attempts = 0 /\ NoCommand.deliveries = 0 /\ NoCommand.result = NoResult
      /\ NoCommand.delivery = None /\ NoCommand.status = None
      /\ NoCommand = [status |-> None, handshake |-> None, execution |-> None, staged |-> None,
                      reason |-> None, intent |-> None, attempts |-> 0, result |-> NoResult,
                      delivery |-> None, deliveries |-> 0]
  BY DEF NoCommand
<1>2. row.attempts = 0 /\ row.deliveries = 0 /\ row.result = NoResult /\ row.delivery = None
  BY <1>1 DEF RowFits, Ended
<1>3. new \in CommandRows
  <2>1. CASE row = NoCommand
    BY <1>0, <1>1, <2>1, ScriptFacts DEF StagedBy, CommandRows
  <2>2. CASE row \in CommandRows
    BY <2>2, ScriptFacts DEF StagedBy, CommandRows
  <2> QED BY <2>1, <2>2
<1>4. /\ new.status = "PENDING" /\ new.handshake = "STAGED" /\ new.execution = script[r].id
      /\ new.reason = script[r].reason
      /\ new.attempts = row.attempts /\ new.deliveries = row.deliveries /\ new.result = row.result
      /\ new.delivery = row.delivery
  <2>1. CASE row = NoCommand
    BY <1>1, <2>1 DEF StagedBy
  <2>2. CASE row \in CommandRows
    BY <2>2 DEF StagedBy, CommandRows
  <2> QED BY <2>1, <2>2
<1>5. RowFits(new)
  BY <1>2, <1>4 DEF RowFits, Ended, None
<1> QED BY <1>1, <1>2, <1>3, <1>4, <1>5 DEF None

(* A draft fits.                                                            *)
LEMMA DraftFits ==
    ASSUME NEW intent \in Intents
    PROVE  LET row == [NoCommand EXCEPT !.status = "DRAFT", !.handshake = "AWAITING_REASON", !.intent = intent]
           IN  row \in CommandRows /\ RowFits(row) /\ row # NoCommand /\ row.status = "DRAFT" /\ row.result = NoResult
               /\ row.handshake = "AWAITING_REASON"
<1> DEFINE row == [NoCommand EXCEPT !.status = "DRAFT", !.handshake = "AWAITING_REASON", !.intent = intent]
<1>0. 0 \in Tries
  BY CommandConstants DEF Tries
<1>1. row \in CommandRows
  BY <1>0 DEF NoCommand, CommandRows
<1>2. /\ row.status = "DRAFT" /\ row.handshake = "AWAITING_REASON" /\ row.result = NoResult /\ row.delivery = None
      /\ row.attempts = 0 /\ row.deliveries = 0 /\ row.execution = None
  BY DEF NoCommand
<1>3. row # NoCommand
  <2>1. NoCommand.status = None
    BY DEF NoCommand
  <2> QED BY <1>2, <2>1 DEF None
<1> HIDE DEF row
<1>4. RowFits(row)
  BY <1>2 DEF RowFits, Ended, None
<1> QED BY <1>1, <1>2, <1>3, <1>4 DEF row

(* An activated row fits.                                                   *)
LEMMA ActivatedRowFits ==
    ASSUME NEW row \in CommandRows, RowFits(row), row.handshake = "STAGED"
    PROVE  LET new == [row EXCEPT !.handshake = "ACKNOWLEDGED", !.staged = None]
           IN  new \in CommandRows /\ RowFits(new) /\ new # NoCommand /\ new.status = "PENDING" /\ new.result = NoResult
               /\ new.handshake = "ACKNOWLEDGED" /\ new.execution = row.execution /\ new.reason = row.reason
<1> DEFINE new == [row EXCEPT !.handshake = "ACKNOWLEDGED", !.staged = None]
<1>1. new \in CommandRows
  BY DEF CommandRows
<1>2. /\ new.handshake = "ACKNOWLEDGED" /\ new.execution = row.execution /\ new.reason = row.reason
      /\ new.status = row.status /\ new.attempts = row.attempts /\ new.result = row.result
      /\ new.delivery = row.delivery /\ new.deliveries = row.deliveries
  BY DEF CommandRows
<1> HIDE DEF new
<1>3. row.status = "PENDING" /\ row.result = NoResult
  BY DEF RowFits, Ended
<1>4. RowFits(new)
  BY <1>2, <1>3 DEF RowFits
<1>5. new # NoCommand
  <2>1. NoCommand.status = None
    BY DEF NoCommand
  <2> QED BY <1>2, <1>3, <2>1 DEF None
<1> QED BY <1>1, <1>2, <1>3, <1>4, <1>5 DEF new

(* What a request does to its row, and how it goes on, keeps the invariant. *)
LEMMA RequestWrites ==
    ASSUME CommandsInv, NEW r \in AdminRequests, asked[r].step \in {"preparing", "activating"},
           UNCHANGED <<script, run, seat, effects, shown, enabled>>, faults' \in {faults, faults + 1}, faults' <= MaxFaults,
           NEW next \in Askings, asked' = [asked EXCEPT ![r] = next],
           \/ command' = command
           \/ \E row \in CommandRows :
                 /\ command' = [command EXCEPT ![script[r].source] = row] /\ RowFits(row) /\ row # NoCommand
                 /\ row.status \in {"DRAFT", "PENDING"} /\ row.result = NoResult
                 /\ command[script[r].source].handshake # "ACKNOWLEDGED"
                 /\ row.handshake # "AWAITING_REASON" =>
                       \E q \in AdminRequests : /\ script[q].source = script[r].source
                                                /\ row.execution = script[q].id /\ row.reason = script[q].reason,
           next.answer = "deferred" => asked[r].answer = "deferred" \/ IsMine(r)'
    PROVE  CommandsInv'
<1> PICK j \in Sources : j = script[r].source
  BY ScriptFacts DEF CommandsInv
<1>1. AdminTypeOK'
  <2>1. command' \in [Sources -> CommandRows \cup {NoCommand}]
    BY DEF CommandsInv, AdminTypeOK
  <2>2. asked' \in [AdminRequests -> Askings]
    BY DEF CommandsInv, AdminTypeOK, Askings
  <2>3. faults' \in 0 .. MaxFaults
    BY CommandConstants DEF CommandsInv, AdminTypeOK
  <2> QED BY <2>1, <2>2, <2>3 DEF CommandsInv, AdminTypeOK, Askings
<1>2. ~Settled(j)
  BY DEF Settled
<1>3. ASSUME NEW i \in Sources PROVE command'[i] = command[i] \/ (Written(i) /\ RowIsAskedFor(i)')
  <2> SUFFICES ASSUME command'[i] # command[i] PROVE Written(i) /\ RowIsAskedFor(i)'
    OBVIOUS
  <2>1. PICK row \in CommandRows :
           /\ command' = [command EXCEPT ![j] = row] /\ RowFits(row) /\ row # NoCommand
           /\ row.status \in {"DRAFT", "PENDING"} /\ row.result = NoResult
           /\ command[j].handshake # "ACKNOWLEDGED"
           /\ row.handshake # "AWAITING_REASON" =>
                 \E q \in AdminRequests : /\ script[q].source = j
                                          /\ row.execution = script[q].id /\ row.reason = script[q].reason
    OBVIOUS
  <2>2. i = j /\ command'[j] = row
    BY <2>1 DEF CommandsInv, AdminTypeOK
  <2>3. Written(i)
    BY <1>2, <2>1, <2>2 DEF Written
  <2>4. RowIsAskedFor(i)'
    BY <2>1, <2>2 DEF RowIsAskedFor
  <2> QED BY <2>3, <2>4
<1>4. \A q \in AdminRequests : /\ asked[q].step \in {"job", "over"} => asked'[q].step \in {"job", "over"}
                               /\ asked'[q].answer = "deferred" => asked[q].answer = "deferred" \/ IsMine(q)'
  BY DEF CommandsInv, AdminTypeOK
<1> QED BY <1>1, <1>3, <1>4, RequestFrame

(* How a request ends with an answer, or goes on without one.               *)
LEMMA EndsAre ==
    ASSUME AdminTypeOK, NEW r \in AdminRequests, NEW step \in {"over", "job"},
           NEW answer \in {"modal", "deferred", "error"}, Ends(r, step, answer)
    PROVE  \E next \in Askings :
              /\ asked' = [asked EXCEPT ![r] = next]
              /\ next.answer \in {answer, asked[r].answer}
<1> DEFINE next == [asked[r] EXCEPT !.step = step, !.answer = IF asked[r].answer = None THEN answer ELSE asked[r].answer]
<1>1. next \in Askings /\ next.answer \in {answer, asked[r].answer}
  BY DEF AdminTypeOK, Askings
<1>2. asked' = [asked EXCEPT ![r] = next]
  BY DEF Ends, AdminTypeOK
<1> QED BY <1>1, <1>2

(* A request that prepares its command.                                     *)
LEMMA PrepareKeeps ==
    ASSUME CommandsInv, NEW r \in AdminRequests, Prepare(r) PROVE CommandsInv'
<1> DEFINE j == script[r].source
<1>0. /\ AdminTypeOK /\ asked[r].step = "preparing" /\ UNCHANGED <<script, run, seat, effects, shown, enabled>>
      /\ faults' \in {faults, faults + 1} /\ faults' <= MaxFaults /\ j \in Sources
      /\ command[j] \in CommandRows \cup {NoCommand}
  BY ScriptFacts, CommandConstants DEF CommandsInv, AdminTypeOK, Prepare, Handles
<1>1. ASSUME NEW answer \in {"modal", "error"}, Ends(r, "over", answer), command' = command PROVE CommandsInv'
  BY <1>0, <1>1, EndsAre, RequestWrites
<1>2. ASSUME asked' = [asked EXCEPT ![r].step = "activating"], command' = command PROVE CommandsInv'
  <2> DEFINE next == [asked[r] EXCEPT !.step = "activating"]
  <2>1. next \in Askings /\ next.answer = asked[r].answer /\ asked' = [asked EXCEPT ![r] = next]
    BY <1>0, <1>2 DEF AdminTypeOK, Askings
  <2> QED BY <1>0, <1>2, <2>1, RequestWrites
<1>3. ASSUME asked' = [asked EXCEPT ![r].step = "activating"], NEW row, row = command[j],
             row = NoCommand \/ row.status = "DRAFT", WriteCommand(j, StagedBy(r, row))
      PROVE  CommandsInv'
  <2> DEFINE next == [asked[r] EXCEPT !.step = "activating"]
  <2>1. next \in Askings /\ next.answer = asked[r].answer /\ asked' = [asked EXCEPT ![r] = next]
    BY <1>0, <1>3 DEF AdminTypeOK, Askings
  <2>2. row = NoCommand \/ RowFits(row)
    BY <1>0, <1>3 DEF CommandsInv
  <2>3. /\ StagedBy(r, row) \in CommandRows /\ RowFits(StagedBy(r, row)) /\ StagedBy(r, row) # NoCommand
        /\ StagedBy(r, row).status = "PENDING" /\ StagedBy(r, row).result = NoResult
        /\ StagedBy(r, row).execution = script[r].id /\ StagedBy(r, row).reason = script[r].reason
    BY <1>0, <1>3, <2>2, StagedRowFits
  <2>4. row.handshake # "ACKNOWLEDGED"
    BY <1>3, <2>2 DEF RowFits, NoCommand, None
  <2>5. /\ command' = [command EXCEPT ![script[r].source] = StagedBy(r, row)]
        /\ command[script[r].source].handshake # "ACKNOWLEDGED"
    BY <1>3, <2>4 DEF WriteCommand
  <2> HIDE DEF next
  <2>6. next.answer = "deferred" => asked[r].answer = "deferred" \/ IsMine(r)'
    BY <2>1
  <2> HIDE DEF j
  <2> QED BY <1>0, <2>1, <2>3, <2>5, <2>6, RequestWrites
<1>4. ASSUME command[j] = NoCommand, Ends(r, "over", "modal"),
             WriteCommand(j, [NoCommand EXCEPT !.status = "DRAFT", !.handshake = "AWAITING_REASON",
                                               !.intent = script[r].intent])
      PROVE  CommandsInv'
  <2> DEFINE row == [NoCommand EXCEPT !.status = "DRAFT", !.handshake = "AWAITING_REASON", !.intent = script[r].intent]
  <2>1. row \in CommandRows /\ RowFits(row) /\ row # NoCommand /\ row.status = "DRAFT" /\ row.result = NoResult
        /\ row.handshake = "AWAITING_REASON"
    BY <1>0, ScriptFacts, DraftFits
  <2>2. command' = [command EXCEPT ![j] = row]
    BY <1>4 DEF WriteCommand
  <2>3. command[j].handshake # "ACKNOWLEDGED"
    BY <1>4 DEF NoCommand, None
  <2> HIDE DEF row
  <2>4. PICK next \in Askings : asked' = [asked EXCEPT ![r] = next] /\ next.answer \in {"modal", asked[r].answer}
    BY <1>0, <1>4, EndsAre
  <2> QED BY <1>0, <2>1, <2>2, <2>3, <2>4, RequestWrites
<1>5. CASE Ends(r, "over", "error") /\ UNCHANGED command
  BY <1>1, <1>5
<1>6. CASE StageReasonDraft(r)
  <2>1. CASE command[j] = NoCommand
    BY <1>4, <1>6, <2>1 DEF StageReasonDraft
  <2>2. CASE command[j] # NoCommand
    BY <1>1, <1>6, <2>2 DEF StageReasonDraft
  <2> QED BY <2>1, <2>2
<1>7. CASE StageCommand(r)
  BY <1>2, <1>3, <1>7 DEF StageCommand
<1>8. CASE AttachReason(r)
  <2>1. CASE command[j] # NoCommand /\ Attachable(j)
    BY <1>3, <1>8, <2>1 DEF AttachReason, Attachable
  <2>2. CASE ~(command[j] # NoCommand /\ Attachable(j))
    BY <1>1, <1>2, <1>8, <2>2 DEF AttachReason
  <2> QED BY <2>1, <2>2
<1> QED BY <1>5, <1>6, <1>7, <1>8 DEF Prepare

(* A request that activates its command.                                    *)
LEMMA ActivationKeeps ==
    ASSUME CommandsInv, NEW r \in AdminRequests, asked[r].step = "activating",
           UNCHANGED <<script, run, seat, effects, shown, enabled>>, faults' \in {faults, faults + 1}, faults' <= MaxFaults,
           NEW answer \in {"deferred", "error"}, NEW step \in {"over", "job"}, Ends(r, step, answer),
           LET j == script[r].source
           IN /\ command[j].execution = script[r].id /\ command[j].handshake = "STAGED"
              /\ WriteCommand(j, [command[j] EXCEPT !.handshake = "ACKNOWLEDGED", !.staged = None])
    PROVE  CommandsInv'
<1> PICK j \in Sources : j = script[r].source
  BY ScriptFacts DEF CommandsInv
<1> DEFINE row == [command[j] EXCEPT !.handshake = "ACKNOWLEDGED", !.staged = None]
<1>1. command[j] \in CommandRows /\ RowFits(command[j]) /\ command[j].handshake = "STAGED"
  <2>1. command[j].handshake = "STAGED"
    OBVIOUS
  <2> QED BY <2>1, RowTypes DEF CommandsInv, None
<1>2. row \in CommandRows /\ RowFits(row) /\ row # NoCommand /\ row.status = "PENDING" /\ row.result = NoResult
      /\ row.handshake = "ACKNOWLEDGED" /\ row.execution = command[j].execution /\ row.reason = command[j].reason
  BY <1>1, ActivatedRowFits
<1>3. command' = [command EXCEPT ![j] = row]
  BY DEF WriteCommand
<1> HIDE DEF row
<1>4. PICK q \in AdminRequests : /\ script[q].source = j /\ command[j].execution = script[q].id
                                 /\ command[j].reason = script[q].reason
  BY <1>1, RowTypes DEF CommandsInv, RowIsAskedFor, None
<1>5. script[q] = script[r]
  <2>1. script[q].id = script[r].id
    BY <1>4
  <2> QED BY <2>1, ScriptFacts DEF CommandsInv
<1>6. PICK next \in Askings : asked' = [asked EXCEPT ![r] = next] /\ next.answer \in {answer, asked[r].answer}
  BY EndsAre DEF CommandsInv
<1>7. IsMine(r)'
  <2>1. command'[j] = row
    BY <1>3 DEF CommandsInv, AdminTypeOK
  <2> QED BY <1>2, <1>4, <1>5, <2>1 DEF IsMine
<1>8. \E p \in AdminRequests : /\ script[p].source = script[r].source
                               /\ row.execution = script[p].id /\ row.reason = script[p].reason
  BY <1>2, <1>4
<1> QED BY <1>1, <1>2, <1>3, <1>6, <1>7, <1>8, RequestWrites

(* The steps of the requests, and of the site and the operator.             *)
LEMMA RequestsKeep ==
    ASSUME CommandsInv,
           \/ \E r \in AdminRequests : Prepare(r) \/ Activate(r) \/ PreparationFails(r) \/ TimesOut(r)
           \/ SiteCancels \/ MoveFence
    PROVE  CommandsInv'
<1>0. AdminTypeOK /\ faults \in Nat /\ faults <= MaxFaults
  BY CommandConstants DEF CommandsInv, AdminTypeOK
<1>1. ASSUME NEW r \in AdminRequests, Activate(r) PROVE CommandsInv'
  <2>1. /\ asked[r].step = "activating" /\ UNCHANGED <<script, run, seat, effects, shown, enabled>>
        /\ faults' \in {faults, faults + 1} /\ faults' <= MaxFaults
    BY <1>0, <1>1 DEF Activate, Handles
  <2>2. CASE /\ command[script[r].source].execution = script[r].id /\ command[script[r].source].handshake = "STAGED"
             /\ WriteCommand(script[r].source, [command[script[r].source] EXCEPT !.handshake = "ACKNOWLEDGED",
                                                                                 !.staged = None])
             /\ Ends(r, "job", "deferred")
    BY <2>1, <2>2, ActivationKeeps
  <2>3. CASE UNCHANGED command /\ Ends(r, "over", "error")
    <3>1. PICK next \in Askings : asked' = [asked EXCEPT ![r] = next] /\ next.answer \in {"error", asked[r].answer}
      BY <1>0, <2>3, EndsAre
    <3> QED BY <2>1, <2>3, <3>1, RequestWrites
  <2>4. CASE /\ UNCHANGED command /\ command[script[r].source].execution = script[r].id
             /\ command[script[r].source].handshake = "ACKNOWLEDGED" /\ Ends(r, "job", "deferred")
    <3>1. PICK next \in Askings : asked' = [asked EXCEPT ![r] = next] /\ next.answer \in {"deferred", asked[r].answer}
      BY <1>0, <2>4, EndsAre
    <3> PICK j \in Sources : j = script[r].source
      BY <1>0, ScriptFacts
    <3>2. PICK q \in AdminRequests : /\ script[q].source = j /\ command[j].execution = script[q].id
                                     /\ command[j].reason = script[q].reason
      BY <1>0, <2>4, RowTypes DEF CommandsInv, RowIsAskedFor, None
    <3>3. script[q] = script[r]
      BY <1>0, <2>4, <3>2, ScriptFacts
    <3>4. IsMine(r)'
      BY <2>1, <2>4, <3>2, <3>3 DEF IsMine
    <3> QED BY <2>1, <2>4, <3>1, <3>4, RequestWrites
  <2> QED BY <1>1, <2>2, <2>3, <2>4 DEF Activate
<1>2. ASSUME NEW r \in AdminRequests, PreparationFails(r) PROVE CommandsInv'
  <2>1. /\ asked[r].step \in {"preparing", "activating"} /\ UNCHANGED <<script, run, seat, effects, shown, enabled>>
        /\ faults' \in {faults, faults + 1} /\ faults' <= MaxFaults /\ Ends(r, "over", "error")
    <3>1. Faulty /\ UNCHANGED <<script, run, seat, effects, shown, enabled>> /\ Ends(r, "over", "error")
      BY <1>2 DEF PreparationFails
    <3>2. faults' = faults + 1 /\ faults' <= MaxFaults
      BY <1>0, <3>1, CommandConstants DEF Faulty
    <3> QED BY <1>2, <3>1, <3>2 DEF PreparationFails
  <2>2. CASE UNCHANGED command
    <3>1. PICK next \in Askings : asked' = [asked EXCEPT ![r] = next] /\ next.answer \in {"error", asked[r].answer}
      BY <1>0, <2>1, EndsAre
    <3> QED BY <2>1, <2>2, <3>1, RequestWrites
  <2>3. CASE command' # command
    BY <1>2, <2>1, <2>3, ActivationKeeps DEF PreparationFails, Handles
  <2> QED BY <2>2, <2>3
<1>3. ASSUME NEW r \in AdminRequests, TimesOut(r) PROVE CommandsInv'
  <2> DEFINE next == [asked[r] EXCEPT !.timer = TRUE, !.answer = "error"]
  <2>1. next \in Askings /\ next.answer = "error" /\ asked' = [asked EXCEPT ![r] = next]
    BY <1>0, <1>3 DEF TimesOut, AdminTypeOK, Askings
  <2>2. /\ asked[r].step \in {"preparing", "activating"} /\ UNCHANGED <<script, run, seat, effects, shown, enabled>>
        /\ faults' \in {faults, faults + 1} /\ faults' <= MaxFaults /\ command' = command
    BY <1>0, <1>3 DEF TimesOut
  <2> HIDE DEF next
  <2> QED BY <2>1, <2>2, RequestWrites
<1>4. ASSUME SiteCancels \/ MoveFence PROVE CommandsInv'
  <2>1. UNCHANGED <<script, asked, command, run, effects, shown, faults>>
    BY <1>4 DEF SiteCancels, MoveFence
  <2>2. AdminTypeOK'
    <3>1. seat' \in [Seats -> {"NONE", "CONFIRMED", "CANCELLED"}] /\ enabled' \in BOOLEAN
      BY <1>0, <1>4 DEF SiteCancels, MoveFence, AdminTypeOK
    <3> QED BY <1>0, <2>1, <3>1 DEF AdminTypeOK
  <2> QED BY <1>0, <2>1, <2>2, RequestFrame
<1> QED BY <1>1, <1>2, <1>3, <1>4, PrepareKeeps

(* A row that is deleted was never run, or no run has a claim on it and no  *)
(* request will stage it again.                                             *)
LEMMA DeletionKeeps == ASSUME CommandsInv, DeleteExpiredCommand PROVE CommandsInv'
<1> PICK j \in Sources : command[j] # NoCommand /\ Outdated(j) /\ command' = [command EXCEPT ![j] = NoCommand]
  BY DEF DeleteExpiredCommand
<1>0. UNCHANGED <<script, asked, run, seat, effects, shown, enabled, faults>> /\ AdminTypeOK
  BY DEF DeleteExpiredCommand, CommandsInv
<1>1. /\ command'[j] = NoCommand /\ \A i \in Sources : i # j => command'[i] = command[i]
      /\ NoCommand.attempts = 0 /\ NoCommand.deliveries = 0 /\ NoCommand.result = NoResult
      /\ NoCommand.delivery = None /\ NoCommand.status = None /\ NoCommand.handshake = None
  BY <1>0 DEF AdminTypeOK, NoCommand
<1>2. ~Claimed(j) /\ (Touched(j) => Settled(j))
  <2>1. CASE command[j].status = "DRAFT"
    <3>1. command[j].handshake = "AWAITING_REASON"
      BY <2>1 DEF CommandsInv, RowFits
    <3> QED BY <3>1 DEF CommandsInv, RunIsAcknowledged
  <2>2. CASE command[j].status # "DRAFT"
    BY <2>2 DEF Outdated, Settled, Claimed, CommandsInv, RunFits
  <2> QED BY <2>1, <2>2
<1>3. \A w \in Runs : \A i \in DOMAIN run[w].claims : i \in Sources /\ i # j /\ command'[i] = command[i]
  BY <1>0, <1>1, <1>2, RunTypes DEF Claimed
<1>4. AdminTypeOK'
  BY <1>0 DEF AdminTypeOK
<1>5. \A w \in Runs : RunFits(w)' /\ DoneSoFar(w)'
  BY <1>0, <1>3 DEF CommandsInv, RunFits, DoneSoFar
<1>6. \A i \in Sources : (command'[i] # NoCommand => RowFits(command'[i])) /\ RowIsAskedFor(i)'
  BY <1>0, <1>1 DEF CommandsInv, RowIsAskedFor
<1>7. \A i \in Sources : RunIsAcknowledged(i)'
  <2>1. ASSUME NEW i \in Sources, i # j PROVE RunIsAcknowledged(i)'
    BY <1>0, <1>1, <2>1 DEF CommandsInv, RunIsAcknowledged, Claimed, Touched, Settled
  <2>2. RunIsAcknowledged(j)'
    BY <1>0, <1>1, <1>2, <1>3 DEF RunIsAcknowledged, Claimed, Touched, Settled
  <2> QED BY <2>1, <2>2
<1>8. \A i \in Sources : ClaimsFit(i)'
  BY <1>0, <1>3 DEF CommandsInv, ClaimsFit
<1>9. \A i \in Sources : Paid(i)'
  <2>1. ASSUME NEW i \in Sources, i # j PROVE Paid(i)'
    BY <1>0, <1>1, <2>1 DEF CommandsInv, Paid, JobHeld, ResultHeld, HoldsJob, HoldsDelivery
  <2>2. faults \in Nat
    BY <1>0, CommandConstants DEF AdminTypeOK
  <2>3. Paid(j)'
    BY <1>0, <1>1, <2>2, CommandConstants DEF Paid, None
  <2> QED BY <2>1, <2>3
<1>10. ASSUME faults' = 0, NEW w \in Runs PROVE FaultlessRun(w)'
  <2>1. FaultlessRun(w)
    BY <1>0, <1>10 DEF CommandsInv, FaultlessInv
  <2> QED BY <1>0, <1>3, <2>1 DEF FaultlessRun, HoldsJob, HoldsDelivery, Times
<1>11. ASSUME faults' = 0, NEW i \in Sources PROVE FaultlessRow(i)'
  <2>1. FaultlessRow(i)
    BY <1>0, <1>11 DEF CommandsInv, FaultlessInv
  <2>2. CASE i # j
    BY <1>0, <1>1, <2>1, <2>2 DEF FaultlessRow, Times, JobHeld, ResultHeld, HoldsJob, HoldsDelivery
  <2>3. CASE i = j
    BY <1>1, <2>3 DEF FaultlessRow, None, Ended
  <2> QED BY <2>2, <2>3
<1>12. DeferredIsMine'
  BY <1>0, <1>1, ScriptFacts DEF CommandsInv, DeferredIsMine
<1>13. NeverOverclaims' /\ \A i \in Sources : command'[i].delivery = "SENT" => Times(i)' > 0
  BY <1>0, <1>1 DEF CommandsInv, NeverOverclaims, Times, None
<1> QED
  BY <1>4, <1>5, <1>6, <1>7, <1>8, <1>9, <1>10, <1>11, <1>12, <1>13 DEF CommandsInv, FaultlessInv

(* What a run does keeps the rows those of their requests.                  *)
LEMMA RunFrame ==
    ASSUME CommandsInv, UNCHANGED <<script, asked>>,
           \A j \in Sources : /\ command'[j].handshake = command[j].handshake
                              /\ command'[j].execution = command[j].execution
                              /\ command'[j].reason = command[j].reason
                              /\ command'[j] = NoCommand <=> command[j] = NoCommand,
           \A j \in Sources : Claimed(j)' \/ effects'[j] # effects[j] \/ shown'[j] # shown[j] =>
               command[j].handshake = "ACKNOWLEDGED",
           \A w \in Runs : run'[w].phase \in ResultPhases =>
               \A j \in DOMAIN run'[w].claims : j \in Sources => command'[j].result # NoResult
    PROVE  /\ \A j \in Sources : RowIsAskedFor(j)' /\ RunIsAcknowledged(j)'
           /\ DeferredIsMine'
<1>1. \A j \in Sources : RowIsAskedFor(j)'
  BY DEF CommandsInv, RowIsAskedFor
<1>2. DeferredIsMine'
  BY ScriptFacts DEF CommandsInv, DeferredIsMine
<1>3. ASSUME NEW j \in Sources PROVE RunIsAcknowledged(j)'
  <2>1. Claimed(j)' => command'[j].handshake = "ACKNOWLEDGED"
    OBVIOUS
  <2>2. CASE effects'[j] = effects[j] /\ shown'[j] = shown[j]
    <3>1. Touched(j)' <=> Touched(j)
      BY <2>2 DEF Touched
    <3> QED BY <2>1, <3>1 DEF CommandsInv, RunIsAcknowledged, Settled
  <2>3. CASE ~(effects'[j] = effects[j] /\ shown'[j] = shown[j])
    BY <2>1, <2>3 DEF RunIsAcknowledged
  <2> QED BY <2>2, <2>3
<1> QED BY <1>1, <1>2, <1>3

(* A run that stops: its claims lapse, and a fault has paid for them.       *)
LEMMA StopKeeps ==
    ASSUME CommandsInv, NEW w \in Runs, Becomes(w, Stopped(w)), Faulty,
           UNCHANGED <<script, asked, command, seat, effects, shown, enabled>>
    PROVE  CommandsInv'
<1>0. AdminTypeOK /\ faults \in Nat /\ faults' = faults + 1 /\ faults' \in 0 .. MaxFaults /\ faults' # 0
  BY CommandConstants DEF CommandsInv, AdminTypeOK, Faulty
<1>1. /\ run'[w].phase \in {"resting", "over"} /\ run'[w] \in RunStates /\ DOMAIN run'[w].claims = {}
      /\ \A v \in Runs : v # w => run'[v] = run[v]
  <2>1. run'[w] = Stopped(w) /\ \A v \in Runs : v # w => run'[v] = run[v]
    BY <1>0 DEF Becomes, AdminTypeOK
  <2>2. Stopped(w) \in RunStates /\ Stopped(w).phase \in {"resting", "over"} /\ DOMAIN Stopped(w).claims = {}
    BY RestTypes DEF Stopped, RunStates
  <2> QED BY <2>1, <2>2
<1>2. AdminTypeOK'
  <2>1. run' \in [Runs -> RunStates]
    BY <1>0, <1>1 DEF Becomes, AdminTypeOK
  <2> QED BY <1>0, <2>1 DEF AdminTypeOK
<1>3. \A v \in Runs : RunFits(v)' /\ DoneSoFar(v)'
  BY <1>1 DEF CommandsInv, RunFits, DoneSoFar
<1>4. \A j \in Sources : (Claimed(j)' => Claimed(j)) /\ ClaimsFit(j)'
  BY <1>1 DEF CommandsInv, Claimed, ClaimsFit
<1>5. \A j \in Sources : RowIsAskedFor(j)' /\ RunIsAcknowledged(j)' /\ DeferredIsMine'
  <2>1. \A j \in Sources : Claimed(j)' => command[j].handshake = "ACKNOWLEDGED"
    BY <1>4 DEF CommandsInv, RunIsAcknowledged
  <2>2. ASSUME NEW v \in Runs, run'[v].phase \in ResultPhases
        PROVE  \A j \in DOMAIN run'[v].claims : j \in Sources => command'[j].result # NoResult
    BY <1>1, <2>2 DEF CommandsInv, RunIsAcknowledged
  <2> QED BY <2>1, <2>2, RunFrame
<1>6. ASSUME NEW j \in Sources PROVE Paid(j)'
  <2>1. command[j].attempts \in Nat /\ command[j].deliveries \in Nat
    BY <1>0, RowTypes
  <2>2. Paid(j)
    BY DEF CommandsInv
  <2> QED BY <1>0, <2>1, <2>2, CommandConstants DEF Paid
<1> QED
  BY <1>0, <1>2, <1>3, <1>4, <1>5, <1>6 DEF CommandsInv, FaultlessInv, NeverOverclaims, Times, DeferredIsMine
(* Without a fault no two runs have a claim on one command.                 *)
LEMMA FaultlessAlone ==
    ASSUME CommandsInv, faults = 0, NEW v \in Runs, NEW w \in Runs, v # w,
           NEW j \in Sources, j \in DOMAIN run[v].claims, j \in DOMAIN run[w].claims
    PROVE  FALSE
<1>1. FaultlessRun(v) /\ FaultlessRun(w) /\ ClaimsFit(j) /\ RunIsAcknowledged(j) /\ AdminTypeOK
  BY DEF CommandsInv, FaultlessInv
<1>2. \A u \in {v, w} : run[u].phase \in JobPhases \cup ResultPhases
  BY <1>1, RunTypes DEF CommandsInv, RunFits, JobPhases, ResultPhases
<1>3. \A u \in {v, w} : run[u].phase \in JobPhases =>
         command[j].status = "PROCESSING" /\ run[u].claims[j] = command[j].attempts
  BY <1>1 DEF FaultlessRun, HoldsJob
<1>4. \A u \in {v, w} : run[u].phase \in ResultPhases =>
         command[j].result # NoResult /\ run[u].claims[j] = command[j].deliveries
  BY <1>1 DEF FaultlessRun, HoldsDelivery, RunIsAcknowledged
<1>5. command[j].status = "PROCESSING" => command[j].result = NoResult
  BY <1>1, RowTypes DEF CommandsInv, RowFits, Ended, None
<1> QED BY <1>1, <1>2, <1>3, <1>4, <1>5 DEF ClaimsFit

(* A run without claims moves on.                                           *)
LEMMA IdleMoves ==
    ASSUME CommandsInv, NEW w \in Runs, run[w].phase \in {"resting", "delivering", "over"},
           NEW phase \in {"resting", "delivering", "over"}, Becomes(w, [NoRun EXCEPT !.phase = phase]),
           UNCHANGED <<script, asked, command, seat, effects, shown, enabled, faults>>
    PROVE  CommandsInv'
<1>0. AdminTypeOK /\ RunFits(w)
  BY DEF CommandsInv
<1>1. /\ run'[w].phase = phase /\ run'[w] \in RunStates /\ DOMAIN run'[w].claims = {}
      /\ DOMAIN run[w].claims = {}
      /\ \A v \in Runs : v # w => run'[v] = run[v]
  <2> DEFINE next == [NoRun EXCEPT !.phase = phase]
  <2>1. next.phase = phase /\ next \in RunStates /\ next.claims = NoRun.claims
    BY RestTypes DEF NoRun
  <2>2. run'[w] = next /\ \A v \in Runs : v # w => run'[v] = run[v]
    BY <1>0 DEF Becomes, AdminTypeOK
  <2> HIDE DEF next
  <2> QED BY <1>0, <2>1, <2>2, RestTypes DEF RunFits
<1>2. AdminTypeOK'
  <2>1. run' \in [Runs -> RunStates]
    BY <1>0, <1>1 DEF Becomes, AdminTypeOK
  <2> QED BY <1>0, <2>1 DEF AdminTypeOK
<1>3. \A v \in Runs : RunFits(v)' /\ DoneSoFar(v)'
  BY <1>1 DEF CommandsInv, RunFits, DoneSoFar
<1>4. \A j \in Sources : (Claimed(j)' => Claimed(j)) /\ ClaimsFit(j)'
  BY <1>1 DEF CommandsInv, Claimed, ClaimsFit
<1>5. \A j \in Sources : RowIsAskedFor(j)' /\ RunIsAcknowledged(j)' /\ DeferredIsMine'
  <2>1. \A j \in Sources : Claimed(j)' => command[j].handshake = "ACKNOWLEDGED"
    BY <1>4 DEF CommandsInv, RunIsAcknowledged
  <2>2. ASSUME NEW v \in Runs, run'[v].phase \in ResultPhases
        PROVE  \A j \in DOMAIN run'[v].claims : j \in Sources => command'[j].result # NoResult
    BY <1>1, <2>2 DEF CommandsInv, RunIsAcknowledged
  <2> QED BY <2>1, <2>2, RunFrame
<1>6. \A v \in Runs, j \in Sources : /\ HoldsJob(v, j)' <=> HoldsJob(v, j)
                                     /\ HoldsDelivery(v, j)' <=> HoldsDelivery(v, j)
  BY <1>1 DEF HoldsJob, HoldsDelivery
<1>7. \A j \in Sources : (JobHeld(j)' <=> JobHeld(j)) /\ (ResultHeld(j)' <=> ResultHeld(j))
  BY <1>6 DEF JobHeld, ResultHeld
<1>8. \A j \in Sources : Paid(j)'
  BY <1>7 DEF CommandsInv, Paid
<1>9. FaultlessInv'
  <2>1. ASSUME faults' = 0, NEW v \in Runs PROVE FaultlessRun(v)'
    <3>1. FaultlessRun(v)
      BY <2>1 DEF CommandsInv, FaultlessInv
    <3> QED BY <1>1, <3>1, <1>6, <1>0, RunTypes DEF FaultlessRun, Times
  <2>2. ASSUME faults' = 0, NEW j \in Sources PROVE FaultlessRow(j)'
    <3>1. FaultlessRow(j)
      BY <2>2 DEF CommandsInv, FaultlessInv
    <3> QED BY <3>1, <1>7 DEF FaultlessRow, Times
  <2> QED BY <2>1, <2>2 DEF FaultlessInv
<1> QED
  BY <1>2, <1>3, <1>4, <1>5, <1>8, <1>9 DEF CommandsInv, NeverOverclaims, Times, DeferredIsMine

(* A run that keeps its claims and works on one of them.                    *)
LEMMA RunMoves ==
    ASSUME CommandsInv, NEW w \in Runs, NEW state \in RunStates, Becomes(w, state),
           state.claims = run[w].claims,
           \/ run[w].phase \in JobPhases /\ state.phase \in JobPhases
           \/ run[w].phase \in ResultPhases /\ state.phase \in ResultPhases,
           UNCHANGED <<script, asked, command, enabled>>,
           seat' \in [Seats -> {"NONE", "CONFIRMED", "CANCELLED"}],
           effects' \in [Sources -> Nat], shown' \in [Sources -> [AdminResults -> Nat]],
           faults' \in {faults, faults + 1}, faults' <= MaxFaults,
           \A j \in Sources : /\ effects'[j] >= effects[j] /\ \A x \in AdminResults : shown'[j][x] >= shown[j][x]
                              /\ effects'[j] # effects[j] \/ shown'[j] # shown[j] => j \in DOMAIN run[w].claims,
           RunFits(w)', DoneSoFar(w)',
           faults' = 0 => FaultlessRun(w)' /\ \A j \in DOMAIN run[w].claims : FaultlessRow(j)'
    PROVE  CommandsInv'
<1>0. AdminTypeOK /\ faults \in Nat /\ faults' \in Nat /\ faults' >= faults
  BY CommandConstants DEF CommandsInv, AdminTypeOK
<1>1. run'[w] = state /\ \A v \in Runs : v # w => run'[v] = run[v]
  BY <1>0 DEF Becomes, AdminTypeOK
<1>2. AdminTypeOK'
  <2>1. run' \in [Runs -> RunStates]
    BY <1>0 DEF Becomes, AdminTypeOK
  <2>2. faults' \in 0 .. MaxFaults
    BY <1>0, CommandConstants
  <2> QED BY <1>0, <2>1, <2>2 DEF AdminTypeOK
<1>3. \A v \in Runs : RunFits(v)'
  BY <1>1 DEF CommandsInv, RunFits
<1>4. ASSUME NEW v \in Runs, v # w PROVE DoneSoFar(v)'
  <2>1. DoneSoFar(v) /\ RunFits(v)
    BY DEF CommandsInv
  <2>2. run[v].phase \in {"executing", "finishing", "noting"} => run[v].current \in Sources
    BY <1>0, <2>1, RunTypes DEF RunFits
  <2>3. run[v].phase = "noting" => command[run[v].current].result \in AdminResults
    BY <1>0, <2>1, <2>2, RowTypes DEF RunFits, CommandsInv, RunIsAcknowledged, ResultPhases
  <2>4. run[v].phase = "executing" => DoneSoFar(v)'
    BY <1>0, <1>1, <1>4, <2>1, <2>2, RunTypes DEF DoneSoFar, AdminTypeOK
  <2>5. run[v].phase = "finishing" => DoneSoFar(v)'
    <3>1. run[v].phase = "finishing" => run[v].outcome.changes \in Nat
      BY <2>1, CommandConstants DEF RunFits, Only, Result
    <3> QED BY <1>0, <1>1, <1>4, <2>1, <2>2, <3>1 DEF DoneSoFar, AdminTypeOK
  <2>6. run[v].phase = "noting" => DoneSoFar(v)'
    BY <1>0, <1>1, <1>4, <2>1, <2>2, <2>3 DEF DoneSoFar, AdminTypeOK
  <2> QED BY <1>1, <1>4, <2>4, <2>5, <2>6 DEF DoneSoFar
<1>5. \A j \in Sources : (Claimed(j)' <=> Claimed(j)) /\ ClaimsFit(j)'
  <2>1. \A j \in Sources : Claimed(j)' <=> Claimed(j)
    BY <1>1 DEF Claimed
  <2>2. JobPhases \cap ResultPhases = {}
    BY DEF JobPhases, ResultPhases
  <2>3. \A v \in Runs : /\ run'[v].claims = run[v].claims
                        /\ run'[v].phase \in JobPhases <=> run[v].phase \in JobPhases
                        /\ run'[v].phase \in ResultPhases <=> run[v].phase \in ResultPhases
    BY <1>1, <2>2
  <2>4. ASSUME NEW j \in Sources PROVE ClaimsFit(j)'
    <3>1. ClaimsFit(j)
      BY DEF CommandsInv
    <3>2. ASSUME NEW v \in Runs, j \in DOMAIN run'[v].claims
          PROVE  /\ run'[v].phase \in JobPhases => run'[v].claims[j] <= command'[j].attempts
                 /\ run'[v].phase \in ResultPhases => run'[v].claims[j] <= command'[j].deliveries
      BY <2>3, <3>1, <3>2 DEF ClaimsFit
    <3>3. ASSUME NEW v \in Runs, NEW u \in Runs, v # u, j \in DOMAIN run'[v].claims, j \in DOMAIN run'[u].claims
          PROVE  /\ run'[v].phase \in JobPhases /\ run'[u].phase \in JobPhases => run'[v].claims[j] # run'[u].claims[j]
                 /\ run'[v].phase \in ResultPhases /\ run'[u].phase \in ResultPhases => run'[v].claims[j] # run'[u].claims[j]
      BY <2>3, <3>1, <3>3 DEF ClaimsFit
    <3> QED BY <3>2, <3>3 DEF ClaimsFit
  <2> QED BY <2>1, <2>4
<1>6. \A j \in Sources : RowIsAskedFor(j)' /\ RunIsAcknowledged(j)' /\ DeferredIsMine'
  <2>1. \A j \in Sources : Claimed(j)' \/ effects'[j] # effects[j] \/ shown'[j] # shown[j] =>
           command[j].handshake = "ACKNOWLEDGED"
    BY <1>5 DEF CommandsInv, RunIsAcknowledged, Claimed
  <2>2. ASSUME NEW v \in Runs, run'[v].phase \in ResultPhases
        PROVE  \A j \in DOMAIN run'[v].claims : j \in Sources => command'[j].result # NoResult
    BY <1>1, <2>2 DEF CommandsInv, RunIsAcknowledged, JobPhases, ResultPhases
  <2> QED BY <2>1, <2>2, RunFrame
<1>7. \A v \in Runs, j \in Sources : /\ HoldsJob(v, j)' <=> HoldsJob(v, j)
                                     /\ HoldsDelivery(v, j)' <=> HoldsDelivery(v, j)
  BY <1>1 DEF HoldsJob, HoldsDelivery, JobPhases, ResultPhases
<1>8. \A j \in Sources : (JobHeld(j)' <=> JobHeld(j)) /\ (ResultHeld(j)' <=> ResultHeld(j))
  BY <1>7 DEF JobHeld, ResultHeld
<1>9. \A j \in Sources : Paid(j)'
  <2> TAKE j \in Sources
  <2>1. command[j].attempts \in Nat /\ command[j].deliveries \in Nat /\ Paid(j)
    BY <1>0, RowTypes DEF CommandsInv
  <2> QED BY <1>0, <1>8, <2>1, CommandConstants DEF Paid
<1>10. FaultlessInv'
  <2> SUFFICES ASSUME faults' = 0 PROVE (\A v \in Runs : FaultlessRun(v)') /\ (\A j \in Sources : FaultlessRow(j)')
    BY DEF FaultlessInv
  <2>0. faults = 0
    BY <1>0
  <2>1. ASSUME NEW v \in Runs, v # w PROVE FaultlessRun(v)'
    <3>1. FaultlessRun(v)
      BY <2>0 DEF CommandsInv, FaultlessInv
    <3>2. \A j \in DOMAIN run[v].claims : j \in Sources /\ j \notin DOMAIN run[w].claims
      BY <1>0, <2>0, <2>1, FaultlessAlone, RunTypes
    <3>3. \A j \in DOMAIN run[v].claims : effects'[j] = effects[j] /\ shown'[j] = shown[j]
      BY <3>2
    <3> QED BY <1>1, <1>7, <2>1, <3>1, <3>2, <3>3 DEF FaultlessRun, Times
  <2>2. ASSUME NEW j \in Sources, j \notin DOMAIN run[w].claims PROVE FaultlessRow(j)'
    <3>1. FaultlessRow(j)
      BY <2>0 DEF CommandsInv, FaultlessInv
    <3>2. effects'[j] = effects[j] /\ shown'[j] = shown[j]
      BY <2>2
    <3> QED BY <3>1, <3>2, <1>8 DEF FaultlessRow, Times
  <2> QED BY <2>1, <2>2
<1>11. NeverOverclaims'
  <2>1. \A j \in Sources : command[j].result.changes \in Nat
    BY <1>0, RowTypes
  <2> QED BY <1>0, <2>1 DEF CommandsInv, NeverOverclaims, AdminTypeOK
<1>12. \A j \in Sources : command'[j].delivery = "SENT" => Times(j)' > 0
  <2>1. \A j \in Sources : command[j].delivery = "SENT" => command[j].result \in AdminResults
    BY <1>0, RowTypes DEF CommandsInv, RowFits, None
  <2> QED BY <1>0, <2>1 DEF CommandsInv, Times, AdminTypeOK
<1> QED
  BY <1>2, <1>3, <1>4, <1>5, <1>6, <1>9, <1>10, <1>11, <1>12 DEF CommandsInv, DeferredIsMine
(* The outcome of a command that has come to its end.                       *)
LEMMA ConcludesIs ==
    ASSUME AdminTypeOK, NEW w \in Runs, NEW outcome \in AdminResults \cup {Only("retry")}
    PROVE  /\ Concludes(w, outcome) \in RunStates /\ Concludes(w, outcome).phase = "finishing"
           /\ Concludes(w, outcome).outcome = outcome /\ Concludes(w, outcome).claims = run[w].claims
           /\ Concludes(w, outcome).current = run[w].current
<1>1. run[w] \in RunStates
  BY DEF AdminTypeOK
<1>2. 0 \in 0 .. Cardinality(Seats) /\ {} \in SUBSET Seats
  BY CommandConstants
<1>3. outcome \in AdminResults \cup {NoResult, Only("retry"), Only("sent"), Only("failed")}
  OBVIOUS
<1> HIDE DEF AdminResults
<1> QED BY <1>1, <1>2, <1>3 DEF Concludes, RunStates

(* The same for a command that its run takes up only now.                   *)
LEMMA ConcludesNow ==
    ASSUME AdminTypeOK, NEW w \in Runs, NEW outcome \in AdminResults \cup {Only("retry")}, NEW j \in Sources
    PROVE  LET state == [Concludes(w, outcome) EXCEPT !.current = j]
           IN /\ state \in RunStates /\ state.phase = "finishing" /\ state.outcome = outcome
              /\ state.claims = run[w].claims /\ state.current = j
<1>1. /\ Concludes(w, outcome) \in RunStates /\ Concludes(w, outcome).phase = "finishing"
      /\ Concludes(w, outcome).outcome = outcome /\ Concludes(w, outcome).claims = run[w].claims
  BY ConcludesIs
<1>2. [Concludes(w, outcome) EXCEPT !.current = j] \in RunStates
  BY <1>1 DEF RunStates
<1>3. LET state == [Concludes(w, outcome) EXCEPT !.current = j]
      IN /\ state.phase = "finishing" /\ state.outcome = outcome
         /\ state.claims = run[w].claims /\ state.current = j
  BY <1>1 DEF RunStates
<1> QED BY <1>2, <1>3

(* A run without faults before it works on a command, and what it leaves.   *)
LEMMA DispatchKeeps ==
    ASSUME CommandsInv, NEW w \in Runs, Dispatch(w) \/ DispatchRefused(w)
    PROVE  CommandsInv'
<1>0. AdminTypeOK /\ RunFits(w) /\ run[w].phase = "picking" /\ run[w].done = 0 /\ faults \in Nat /\ faults <= MaxFaults
      /\ UNCHANGED <<script, asked, command, seat, effects, shown, enabled, faults>>
  <2>1. AdminTypeOK /\ RunFits(w) /\ faults \in Nat /\ faults <= MaxFaults
    BY CommandConstants DEF CommandsInv, AdminTypeOK
  <2>2. run[w].phase = "picking" /\ UNCHANGED <<script, asked, command, seat, effects, shown, enabled, faults>>
    BY DEF Dispatch, DispatchRefused, At
  <2> QED BY <2>1, <2>2 DEF RunFits
<1>1. PICK j \in DOMAIN run[w].claims, outcome \in {Only("success"), Only("failure"), Only("stale")} :
         \/ Becomes(w, [Concludes(w, outcome) EXCEPT !.current = j])
         \/ /\ Targets(command[j].intent) # {}
            /\ Becomes(w, [run[w] EXCEPT !.current = j, !.phase = "executing", !.todo = Targets(command[j].intent)])
  <2>1. ASSUME Dispatch(w), NEW j \in DOMAIN run[w].claims,
               LET picked == [run[w] EXCEPT !.current = j]
                   targets == Targets(command[j].intent)
               IN Becomes(w, IF targets = {}
                             THEN [Concludes(w, Only("success")) EXCEPT !.current = j]
                             ELSE [picked EXCEPT !.phase = "executing", !.todo = targets])
        PROVE  \/ Becomes(w, [Concludes(w, Only("success")) EXCEPT !.current = j])
               \/ /\ Targets(command[j].intent) # {}
                  /\ Becomes(w, [run[w] EXCEPT !.current = j, !.phase = "executing", !.todo = Targets(command[j].intent)])
    BY <2>1
  <2>2. CASE Dispatch(w)
    BY <2>1, <2>2 DEF Dispatch
  <2>3. CASE DispatchRefused(w)
    BY <2>3 DEF DispatchRefused
  <2> QED BY <2>2, <2>3
<1>2. j \in Sources /\ outcome \in AdminResults /\ outcome.changes = 0 /\ outcome # Only("retry")
  BY <1>0, RunTypes, CommandConstants DEF Only, Result
<1>3. effects[j] \in Nat
  BY <1>0, <1>2 DEF AdminTypeOK
<1>4. \A i \in DOMAIN run[w].claims : i \in Sources /\ effects[i] \in Nat
  BY <1>0, RunTypes DEF AdminTypeOK
<1>5. faults = 0 => /\ FaultlessRun(w) /\ \A i \in Sources : FaultlessRow(i)
                    /\ \A i \in DOMAIN run[w].claims : effects[i] = 0
  BY <1>0 DEF CommandsInv, FaultlessInv, FaultlessRun, JobPhases
<1>6. faults = 0 => \A i \in DOMAIN run[w].claims : FaultlessRow(i)'
  <2> SUFFICES ASSUME faults = 0, NEW i \in DOMAIN run[w].claims PROVE FaultlessRow(i)'
    OBVIOUS
  <2>1. FaultlessRow(i) /\ command[i].status = "PROCESSING" /\ HoldsJob(w, i) /\ command[i].result = NoResult
        /\ command[i].delivery = None
    <3>1. FaultlessRow(i) /\ command[i].status = "PROCESSING" /\ HoldsJob(w, i)
      BY <1>0, <1>4, <1>5 DEF FaultlessRun, JobPhases
    <3> QED BY <1>0, <1>4, <3>1, RowTypes DEF CommandsInv, RowFits, Ended, None
  <2>2. JobHeld(i)'
    <3>1. run'[w].claims = run[w].claims /\ run'[w].phase \in JobPhases
      <4>1. CASE Becomes(w, [Concludes(w, outcome) EXCEPT !.current = j])
        BY <1>0, <1>2, <4>1, ConcludesNow DEF Becomes, AdminTypeOK, JobPhases
      <4>2. CASE Becomes(w, [run[w] EXCEPT !.current = j, !.phase = "executing", !.todo = Targets(command[j].intent)])
        BY <1>0, <4>2 DEF Becomes, AdminTypeOK, JobPhases, RunStates
      <4> QED BY <1>1, <4>1, <4>2
    <3> QED BY <1>0, <2>1, <3>1 DEF JobHeld, HoldsJob, JobPhases
  <2> QED BY <1>0, <2>1, <2>2 DEF FaultlessRow, Times, None
<1>7. CASE Becomes(w, [Concludes(w, outcome) EXCEPT !.current = j])
  <2> DEFINE state == [Concludes(w, outcome) EXCEPT !.current = j]
  <2>1. state \in RunStates /\ state.phase = "finishing" /\ state.outcome = outcome
        /\ state.claims = run[w].claims /\ state.current = j
    BY <1>0, <1>2, ConcludesNow
  <2>2. run'[w] = state
    BY <1>0, <1>7 DEF Becomes, AdminTypeOK
  <2> HIDE DEF state
  <2>3. RunFits(w)' /\ DoneSoFar(w)'
    BY <1>0, <1>2, <1>3, <2>1, <2>2 DEF RunFits, DoneSoFar
  <2>4. faults = 0 => FaultlessRun(w)'
    BY <1>0, <1>2, <1>5, <2>1, <2>2 DEF FaultlessRun, HoldsJob, JobPhases, ResultPhases
  <2>5. Becomes(w, state)
    BY <1>7 DEF state
  <2> QED BY <1>0, <1>4, <1>6, <2>1, <2>3, <2>4, <2>5, RunMoves DEF JobPhases, AdminTypeOK
<1>8. CASE /\ Targets(command[j].intent) # {}
           /\ Becomes(w, [run[w] EXCEPT !.current = j, !.phase = "executing", !.todo = Targets(command[j].intent)])
  <2>6. Targets(command[j].intent) \subseteq Seats
    BY CommandConstants DEF Targets
  <2> PICK targets \in SUBSET Seats : targets = Targets(command[j].intent) /\ targets # {}
    BY <1>8, <2>6
  <2>0. Cardinality(targets) <= Cardinality(Seats) /\ Cardinality(targets) \in Nat
    BY CommandConstants, FS_Subset, FS_CardinalityType
  <2> DEFINE state == [run[w] EXCEPT !.current = j, !.phase = "executing", !.todo = targets]
  <2>1. state \in RunStates /\ state.phase = "executing" /\ state.todo = targets /\ state.done = 0
        /\ state.claims = run[w].claims /\ state.current = j
    BY <1>0, <1>2 DEF AdminTypeOK, RunStates
  <2>2. run'[w] = state
    BY <1>0, <1>8 DEF Becomes, AdminTypeOK
  <2>5. Becomes(w, state)
    BY <1>8
  <2> HIDE DEF state
  <2>3. RunFits(w)' /\ DoneSoFar(w)'
    BY <1>0, <1>2, <1>3, <2>0, <2>1, <2>2 DEF RunFits, DoneSoFar
  <2>4. faults = 0 => FaultlessRun(w)'
    BY <1>0, <1>2, <1>5, <2>1, <2>2 DEF FaultlessRun, HoldsJob, JobPhases, ResultPhases
  <2> QED BY <1>0, <1>4, <1>6, <2>1, <2>3, <2>4, <2>5, RunMoves DEF JobPhases, AdminTypeOK
<1> QED BY <1>1, <1>7, <1>8

(* A result that is sent.                                                   *)
LEMMA SendKeeps == ASSUME CommandsInv, NEW w \in Runs, Send(w) PROVE CommandsInv'
<1>0. AdminTypeOK /\ RunFits(w) /\ run[w].phase = "sending" /\ faults \in Nat /\ faults <= MaxFaults /\ MaxFaults \in Nat
      /\ UNCHANGED <<script, asked, command, seat, effects, enabled>>
  BY CommandConstants DEF CommandsInv, Send, At, AdminTypeOK
<1>1. PICK j \in DOMAIN run[w].claims, outcome \in {"sent", "failed"} :
         /\ Becomes(w, [run[w] EXCEPT !.phase = "noting", !.current = j, !.outcome = Only(outcome)])
         /\ \/ shown' = [shown EXCEPT ![j][command[j].result] = @ + 1]
            \/ shown' = shown /\ outcome = "failed"
         /\ \/ faults' = faults /\ outcome = "sent"
            \/ Faulty
  BY DEF Send
<1>2. j \in Sources /\ command[j].result \in AdminResults /\ shown[j] \in [AdminResults -> Nat]
  <2>1. j \in Sources
    BY <1>0, RunTypes
  <2>2. command[j].result # NoResult
    BY <1>0, <2>1 DEF CommandsInv, RunIsAcknowledged, ResultPhases
  <2> QED BY <1>0, <2>1, <2>2, RowTypes DEF AdminTypeOK
<1> DEFINE x == command[j].result
<1>3. /\ shown' \in [Sources -> [AdminResults -> Nat]]
      /\ \A i \in Sources : i # j => shown'[i] = shown[i]
      /\ \A i \in Sources, y \in AdminResults : shown'[i][y] >= shown[i][y]
      /\ outcome = "sent" => shown'[j][x] = shown[j][x] + 1
  <2>1. CASE shown' = [shown EXCEPT ![j][x] = @ + 1]
    <3>1. \A i \in Sources : shown[i] \in [AdminResults -> Nat]
      BY <1>0 DEF AdminTypeOK
    <3>2. \A i \in Sources : shown'[i] = IF i = j THEN [shown[j] EXCEPT ![x] = shown[j][x] + 1] ELSE shown[i]
      BY <1>0, <2>1 DEF AdminTypeOK
    <3>3. shown' \in [Sources -> [AdminResults -> Nat]]
      BY <1>0, <1>2, <2>1, <3>1 DEF AdminTypeOK
    <3> QED BY <1>2, <3>1, <3>2, <3>3
  <2>2. CASE shown' = shown /\ outcome = "failed"
    BY <1>0, <2>2 DEF AdminTypeOK
  <2> QED BY <1>1, <2>1, <2>2
<1>4. faults' \in {faults, faults + 1} /\ faults' <= MaxFaults /\ (faults' = 0 => faults = 0 /\ outcome = "sent")
  BY <1>0, <1>1 DEF Faulty
<1> DEFINE state == [run[w] EXCEPT !.phase = "noting", !.current = j, !.outcome = Only(outcome)]
<1>5. state \in RunStates /\ state.phase = "noting" /\ state.outcome = Only(outcome)
      /\ state.claims = run[w].claims /\ state.current = j
  BY <1>0, <1>2 DEF AdminTypeOK, RunStates
<1>6. run'[w] = state /\ Becomes(w, state)
  BY <1>0, <1>1 DEF Becomes, AdminTypeOK
<1> HIDE DEF state
<1>7. RunFits(w)'
  BY <1>5, <1>6 DEF RunFits
<1>8. DoneSoFar(w)'
  <2>1. Only("sent") # Only("failed")
    BY DEF Only, Result
  <2>2. outcome = "sent" => shown'[j][x] > 0
    BY <1>2, <1>3
  <2> QED BY <1>0, <1>5, <1>6, <2>1, <2>2 DEF DoneSoFar
<1>9. faults' = 0 => FaultlessRun(w)' /\ \A i \in DOMAIN run[w].claims : FaultlessRow(i)'
  <2> SUFFICES ASSUME faults' = 0, NEW i \in DOMAIN run[w].claims
               PROVE  FaultlessRun(w)' /\ FaultlessRow(i)'
    <3>1. CASE DOMAIN run[w].claims = {}
      BY <1>1, <3>1
    <3> QED BY <3>1
  <2>1. faults = 0 /\ outcome = "sent" /\ FaultlessRun(w) /\ i \in Sources
    BY <1>0, <1>4, RunTypes DEF CommandsInv, FaultlessInv
  <2>2. FaultlessRow(i) /\ HoldsDelivery(w, i) /\ command[i].delivery = "SENDING"
    BY <1>0, <2>1 DEF CommandsInv, FaultlessInv, FaultlessRun, ResultPhases
  <2>3. \A k \in DOMAIN run[w].claims : HoldsDelivery(w, k) /\ command[k].delivery = "SENDING" /\ Times(k) = 0 /\ k \in Sources
    BY <1>0, <2>1, RunTypes DEF FaultlessRun, ResultPhases
  <2>4. FaultlessRun(w)'
    <3>1. \A k \in DOMAIN run[w].claims : k # j => Times(k)' = 0
      BY <1>0, <1>3, <2>3 DEF Times
    <3>2. Times(j)' = 1
      BY <1>0, <1>3, <2>1, <2>3 DEF Times
    <3> QED BY <1>0, <1>5, <1>6, <2>1, <2>3, <3>1, <3>2 DEF FaultlessRun, HoldsDelivery, JobPhases, ResultPhases
  <2>5. FaultlessRow(i)'
    <3>1. ResultHeld(i)'
      BY <1>0, <1>5, <1>6, <2>2 DEF ResultHeld, HoldsDelivery
    <3>2. command[i].result # NoResult
      BY <1>0, <2>1 DEF CommandsInv, RunIsAcknowledged, ResultPhases
    <3>3. command[i] # NoCommand /\ command[i].status \in Ended
      BY <1>0, <2>1, <3>2, RowTypes DEF CommandsInv, RowFits
    <3> QED BY <1>0, <2>2, <3>1, <3>2, <3>3 DEF FaultlessRow, Ended
  <2> QED BY <2>4, <2>5
<1>10. \A i \in Sources : shown'[i] # shown[i] => i \in DOMAIN run[w].claims
  BY <1>1, <1>3
<1>11. effects' \in [Sources -> Nat] /\ seat' \in [Seats -> {"NONE", "CONFIRMED", "CANCELLED"}]
       /\ \A i \in Sources : effects'[i] >= effects[i]
  BY <1>0 DEF AdminTypeOK
<1>12. run[w].phase \in ResultPhases /\ state.phase \in ResultPhases
  BY <1>0, <1>5 DEF ResultPhases
<1> QED BY <1>0, <1>3, <1>4, <1>5, <1>6, <1>7, <1>8, <1>9, <1>10, <1>11, <1>12, RunMoves
(* What one transaction does to the seats and the effects of its command.   *)
LEMMA PerformIs ==
    ASSUME AdminTypeOK, NEW j \in Sources, NEW s \in Seats, Perform(j, s) \/ UNCHANGED <<effects, seat>>
    PROVE  /\ seat' \in [Seats -> {"NONE", "CONFIRMED", "CANCELLED"}] /\ effects' \in [Sources -> Nat]
           /\ \A i \in Sources : i # j => effects'[i] = effects[i]
           /\ \/ effects'[j] = effects[j] /\ UNCHANGED <<effects, seat>>
              \/ effects'[j] = effects[j] + 1
           /\ Perform(j, s) => effects'[j] = effects[j] + (IF Counts(command[j].intent, s) THEN 1 ELSE 0)
<1>1. effects \in [Sources -> Nat] /\ seat \in [Seats -> {"NONE", "CONFIRMED", "CANCELLED"}]
  BY DEF AdminTypeOK
<1> PICK intent : intent = command[j].intent
  OBVIOUS
<1>2. CASE UNCHANGED <<effects, seat>>
  <2>1. Perform(j, s) => ~Counts(intent, s)
    <3>1. ASSUME Perform(j, s), Counts(intent, s) PROVE FALSE
      <4>1. effects' = [effects EXCEPT ![j] = effects[j] + 1]
        BY <3>1 DEF Perform, Counts
      <4>2. effects'[j] = effects[j] + 1 /\ effects[j] \in Nat
        BY <1>1, <4>1
      <4> QED BY <1>2, <4>2
    <3> QED BY <3>1
  <2> QED BY <1>1, <1>2, <2>1
<1>3. CASE Perform(j, s) /\ Changes(intent, s)
  <2>1. /\ effects' = [effects EXCEPT ![j] = effects[j] + 1]
        /\ \E next \in {"NONE", "CONFIRMED", "CANCELLED"} : seat' = [seat EXCEPT ![s] = next]
    BY <1>1, <1>3 DEF Perform
  <2> QED BY <1>1, <1>3, <2>1 DEF Counts
<1>4. CASE Perform(j, s) /\ ~Changes(intent, s)
  BY <1>1, <1>2, <1>4 DEF Perform
<1> QED BY <1>2, <1>3, <1>4

(* What is left of the targets once the first of them is done.              *)
LEMMA FirstTarget ==
    ASSUME NEW todo \in SUBSET Seats, todo # {}
    PROVE  LET s == CHOOSE s \in todo : \A t \in todo : s <= t
           IN /\ s \in todo /\ Cardinality(todo \ {s}) + 1 = Cardinality(todo)
              /\ Cardinality(todo) \in Nat /\ Cardinality(todo \ {s}) \in Nat
<1>1. todo \subseteq Nat /\ IsFiniteSet(todo)
  BY CommandConstants, FS_Subset
<1>2. PICK low \in todo : \A t \in todo : ~(<<t, low>> \in OpToRel(<, Nat))
  BY <1>1, NatLessThanWellFounded, WFMin
<1>3. \A t \in todo : low <= t
  <2> TAKE t \in todo
  <2>1. t \in Nat /\ low \in Nat
    BY <1>1
  <2>2. ~(t < low)
    BY <1>2, <2>1 DEF OpToRel
  <2> QED BY <2>1, <2>2
<1>4. (CHOOSE s \in todo : \A t \in todo : s <= t) \in todo
  BY <1>3
<1> DEFINE s == CHOOSE s \in todo : \A t \in todo : s <= t
<1>5. s \in todo
  BY <1>4
<1> HIDE DEF s
<1>6. /\ Cardinality(todo \ {s}) = Cardinality(todo) - 1 /\ Cardinality(todo) \in Nat
      /\ Cardinality(todo \ {s}) \in Nat
  BY <1>1, <1>5, FS_RemoveElement, FS_CardinalityType
<1>7. Cardinality(todo \ {s}) + 1 = Cardinality(todo)
  BY <1>6
<1> QED BY <1>5, <1>6, <1>7 DEF s

(* A transaction of a command, and what its run makes of it.                *)
LEMMA ExecuteKeeps == ASSUME CommandsInv, NEW w \in Runs, Execute(w) PROVE CommandsInv'
<1>0. /\ AdminTypeOK /\ RunFits(w) /\ DoneSoFar(w) /\ run[w].phase = "executing"
      /\ faults \in Nat /\ faults <= MaxFaults /\ MaxFaults \in Nat
      /\ UNCHANGED <<script, asked, command, shown, enabled>>
  BY CommandConstants DEF CommandsInv, Execute, At, AdminTypeOK
<1> PICK j \in DOMAIN run[w].claims : j = run[w].current
  BY <1>0 DEF RunFits
<1> PICK todo \in SUBSET Seats : todo = run[w].todo
  BY <1>0, RunTypes
<1> PICK intent : intent = command[j].intent
  OBVIOUS
<1>1. j \in Sources /\ todo # {} /\ run[w].done \in Nat /\ run[w].done + Cardinality(todo) <= Cardinality(Seats)
      /\ run[w].done <= effects[j] /\ effects[j] \in Nat /\ run[w] \in RunStates
  BY <1>0, RunTypes DEF RunFits, DoneSoFar, AdminTypeOK
<1> PICK s \in todo : /\ s = (CHOOSE low \in todo : \A t \in todo : low <= t)
                      /\ Cardinality(todo \ {s}) + 1 = Cardinality(todo)
                      /\ Cardinality(todo) \in Nat /\ Cardinality(todo \ {s}) \in Nat
  BY <1>1, FirstTarget
<1> DEFINE counts == IF Counts(intent, s) THEN 1 ELSE 0
<1>2. \/ Perform(j, s) /\ Becomes(w, After(w, s, run[w].done + counts)) /\ faults' = faults
      \/ Faulty /\ Becomes(w, After(w, s, run[w].done)) /\ UNCHANGED <<effects, seat>>
      \/ /\ Faulty /\ (Perform(j, s) \/ UNCHANGED <<effects, seat>>)
         /\ Becomes(w, Concludes(w, Only("retry")))
  BY DEF Execute
<1>3. /\ seat' \in [Seats -> {"NONE", "CONFIRMED", "CANCELLED"}] /\ effects' \in [Sources -> Nat]
      /\ \A i \in Sources : i # j => effects'[i] = effects[i]
      /\ effects'[j] \in {effects[j], effects[j] + 1}
      /\ Perform(j, s) => effects'[j] = effects[j] + counts
  BY <1>0, <1>1, <1>2, PerformIs
<1>4. counts \in {0, 1}
  OBVIOUS
<1> HIDE DEF counts
<1>5. faults' \in {faults, faults + 1} /\ faults' <= MaxFaults /\ (faults' = 0 => faults = 0)
  BY <1>0, <1>2 DEF Faulty
<1>6. shown' \in [Sources -> [AdminResults -> Nat]] /\ \A i \in Sources, x \in AdminResults : shown'[i][x] >= shown[i][x]
  BY <1>0 DEF AdminTypeOK
<1>7. \A i \in Sources : effects'[i] >= effects[i] /\ (effects'[i] # effects[i] => i \in DOMAIN run[w].claims)
  BY <1>0, <1>1, <1>3 DEF AdminTypeOK
<1>8. faults = 0 => /\ FaultlessRun(w)
                    /\ \A i \in DOMAIN run[w].claims :
                          /\ i \in Sources /\ HoldsJob(w, i) /\ command[i].status = "PROCESSING" /\ FaultlessRow(i)
                          /\ command[i].result = NoResult /\ command[i].delivery = None
                          /\ i # j => effects[i] = 0
                    /\ effects[j] = run[w].done
  <2>1. ASSUME faults = 0, NEW i \in DOMAIN run[w].claims
        PROVE  /\ i \in Sources /\ HoldsJob(w, i) /\ command[i].status = "PROCESSING" /\ FaultlessRow(i)
               /\ command[i].result = NoResult /\ command[i].delivery = None
               /\ i # j => effects[i] = 0
    <3>1. i \in Sources /\ HoldsJob(w, i) /\ command[i].status = "PROCESSING" /\ FaultlessRow(i) /\ (i # j => effects[i] = 0)
      BY <1>0, <2>1, RunTypes DEF CommandsInv, FaultlessInv, FaultlessRun, JobPhases
    <3> QED BY <1>0, <3>1, RowTypes DEF CommandsInv, RowFits, Ended, None
  <2> QED BY <1>0, <2>1 DEF CommandsInv, FaultlessInv, FaultlessRun
<1>9. ASSUME NEW state \in RunStates, Becomes(w, state), state.claims = run[w].claims, state.phase \in JobPhases,
             state.current = j, RunFits(w)', DoneSoFar(w)',
             faults' = 0 => /\ state.phase = "executing" => effects'[j] = state.done
                            /\ state.phase = "finishing" => effects'[j] = state.outcome.changes /\ state.outcome # Only("retry"),
             state.phase # "picking"
      PROVE  CommandsInv'
  <2>1. run'[w] = state
    BY <1>0, <1>9 DEF Becomes, AdminTypeOK
  <2>2. ASSUME faults' = 0 PROVE FaultlessRun(w)'
    BY <1>0, <1>3, <1>5, <1>8, <1>9, <2>1, <2>2 DEF FaultlessRun, HoldsJob, JobPhases, ResultPhases
  <2>3. ASSUME faults' = 0, NEW i \in DOMAIN run[w].claims PROVE FaultlessRow(i)'
    <3>1. HoldsJob(w, i)'
      BY <1>0, <1>5, <1>8, <1>9, <2>1, <2>3 DEF HoldsJob, JobPhases
    <3>2. JobHeld(i)'
      BY <3>1 DEF JobHeld
    <3> QED BY <1>0, <1>5, <1>8, <2>3, <3>2 DEF FaultlessRow, Times, None
  <2> QED BY <1>0, <1>3, <1>5, <1>6, <1>7, <1>9, <2>2, <2>3, RunMoves DEF JobPhases
<1>10. ASSUME NEW done \in Nat, Becomes(w, After(w, s, done)), done \in {run[w].done, run[w].done + 1},
              done <= effects'[j], faults' = 0 => effects'[j] = done
       PROVE  CommandsInv'
  <2>1. run'[w] = After(w, s, done)
    BY <1>0, <1>10 DEF Becomes, AdminTypeOK
  <2>2. CASE todo \ {s} = {}
    <3> DEFINE outcome == Outcome(intent, done)
    <3>1. outcome \in AdminResults /\ outcome.changes = done /\ outcome # Only("retry")
      <4>1. done \in 0 .. Cardinality(Seats)
        BY <1>1, <1>10, CommandConstants
      <4>2. Result("success", done) \in AdminResults /\ Result("success", done).changes = done
        BY <4>1, CommandConstants
      <4>3. Only("stale") \in AdminResults /\ Only("stale").changes = 0
        BY CommandConstants DEF Only, Result
      <4>4. outcome = Result("success", done) \/ (outcome = Only("stale") /\ done = 0)
        BY <1>10 DEF Outcome
      <4>5. Only("retry") \notin AdminResults
        BY DEF Only, Result, AdminResults
      <4> QED BY <4>2, <4>3, <4>4, <4>5
    <3>2. After(w, s, done) = Concludes(w, outcome)
      BY <2>2 DEF After
    <3> HIDE DEF outcome
    <3> DEFINE state == Concludes(w, outcome)
    <3>3. state \in RunStates /\ state.phase = "finishing" /\ state.outcome = outcome
          /\ state.claims = run[w].claims /\ state.current = j
      <4>1. outcome \in AdminResults \cup {Only("retry")}
        BY <3>1
      <4> QED BY <1>0, <1>1, <4>1, ConcludesIs
    <3>4. run'[w] = state /\ Becomes(w, state)
      BY <1>10, <2>1, <3>2
    <3> HIDE DEF state
    <3>5. RunFits(w)' /\ DoneSoFar(w)'
      BY <1>10, <3>1, <3>3, <3>4 DEF RunFits, DoneSoFar
    <3> QED BY <1>9, <1>10, <3>1, <3>3, <3>4, <3>5 DEF JobPhases
  <2>3. CASE todo \ {s} # {}
    <3> DEFINE state == [run[w] EXCEPT !.todo = todo \ {s}, !.done = done]
    <3>1. After(w, s, done) = state
      BY <2>3 DEF After
    <3>2. done \in 0 .. Cardinality(Seats) /\ done + Cardinality(todo \ {s}) <= Cardinality(Seats)
      BY <1>1, <1>10, CommandConstants
    <3>3. state \in RunStates /\ state.phase = "executing" /\ state.todo = todo \ {s} /\ state.done = done
          /\ state.claims = run[w].claims /\ state.current = j
      BY <1>0, <1>1, <3>2 DEF RunStates
    <3>4. run'[w] = state /\ Becomes(w, state)
      BY <1>10, <2>1, <3>1
    <3> HIDE DEF state
    <3>5. RunFits(w)' /\ DoneSoFar(w)'
      BY <1>10, <2>3, <3>2, <3>3, <3>4 DEF RunFits, DoneSoFar
    <3> QED BY <1>9, <1>10, <3>3, <3>4, <3>5 DEF JobPhases
  <2> QED BY <2>2, <2>3
<1>11. CASE Perform(j, s) /\ Becomes(w, After(w, s, run[w].done + counts)) /\ faults' = faults
  <2> PICK done \in Nat : done = run[w].done + counts
    BY <1>1, <1>4
  <2>1. done \in {run[w].done, run[w].done + 1} /\ done <= effects'[j] /\ (faults' = 0 => effects'[j] = done)
    BY <1>1, <1>3, <1>4, <1>8, <1>11
  <2> QED BY <1>10, <1>11, <2>1
<1>12. CASE Faulty /\ Becomes(w, After(w, s, run[w].done)) /\ UNCHANGED <<effects, seat>>
  <2> PICK done \in Nat : done = run[w].done
    BY <1>1
  <2>1. faults' # 0
    BY <1>0, <1>12 DEF Faulty
  <2> QED BY <1>1, <1>10, <1>12, <2>1
<1>13. CASE Faulty /\ Becomes(w, Concludes(w, Only("retry")))
  <2> DEFINE outcome == Only("retry")
             state == Concludes(w, outcome)
  <2>1. state \in RunStates /\ state.phase = "finishing" /\ state.outcome = outcome
        /\ state.claims = run[w].claims /\ state.current = j
    <3>1. outcome \in AdminResults \cup {Only("retry")}
      OBVIOUS
    <3> HIDE DEF outcome
    <3> QED BY <1>0, <1>1, <3>1, ConcludesIs
  <2>2. faults' # 0
    BY <1>0, <1>13 DEF Faulty
  <2>3. run'[w] = state
    BY <1>0, <1>13 DEF Becomes, AdminTypeOK
  <2>4. outcome.changes = 0 /\ outcome = Only("retry")
    BY DEF Only, Result
  <2>5. Becomes(w, state)
    BY <1>13
  <2> HIDE DEF outcome, state
  <2>6. effects'[j] \in Nat
    BY <1>1, <1>3
  <2>7. RunFits(w)' /\ DoneSoFar(w)'
    BY <2>1, <2>3, <2>4, <2>6 DEF RunFits, DoneSoFar
  <2> QED BY <1>9, <2>1, <2>2, <2>5, <2>7 DEF JobPhases
<1> QED BY <1>2, <1>11, <1>12, <1>13
(* A job that has ended keeps its claim numbers, and its result waits.      *)
LEMMA RecordedFits ==
    ASSUME AdminTypeOK, NEW w \in Runs, NEW j \in Sources, RunFits(w), run[w].phase = "finishing",
           RowFits(command[j]), command[j].status = "PROCESSING",
           NEW outcome \in AdminResults \cup {Only("retry")}
    PROVE  /\ Recorded(j, outcome) \in CommandRows /\ RowFits(Recorded(j, outcome))
           /\ Recorded(j, outcome).handshake = command[j].handshake
           /\ Recorded(j, outcome).execution = command[j].execution
           /\ Recorded(j, outcome).reason = command[j].reason
           /\ Recorded(j, outcome).attempts = command[j].attempts
           /\ Recorded(j, outcome).deliveries = command[j].deliveries
           /\ Recorded(j, outcome).status \in {"RETRY"} \cup Ended
           /\ Recorded(j, outcome).delivery \in {None, "PENDING"}
           /\ Recorded(j, outcome).result # NoResult =>
                 Recorded(j, outcome).result.changes = outcome.changes \/ Recorded(j, outcome).result.changes = 0
           /\ outcome # Only("retry") =>
                 Recorded(j, outcome).result = outcome /\ Recorded(j, outcome).delivery = "PENDING"
                 /\ Recorded(j, outcome).status \in Ended
<1> DEFINE result == IF outcome = Only("retry")
                     THEN IF command[j].attempts < MaxAttempts THEN NoResult ELSE Only("failure")
                     ELSE outcome
           status == IF outcome = Only("retry")
                     THEN IF command[j].attempts < MaxAttempts THEN "RETRY" ELSE "ABANDONED"
                     ELSE IF outcome.outcome = "success" THEN "SUCCEEDED"
                          ELSE IF outcome.outcome = "stale" THEN "STALE" ELSE "ABANDONED"
           delivery == IF result = NoResult THEN command[j].delivery ELSE "PENDING"
<1>1. command[j] \in CommandRows /\ command[j].result = NoResult /\ command[j].delivery = None
      /\ command[j].deliveries = 0 /\ command[j].attempts \in Nat
  <2>1. command[j] \in CommandRows /\ command[j].attempts \in Nat
    BY RowTypes DEF None
  <2>2. command[j].result = NoResult
    BY <2>1 DEF RowFits, Ended
  <2>3. command[j].delivery = None /\ command[j].deliveries = 0
    BY <2>2 DEF RowFits
  <2> QED BY <2>1, <2>2, <2>3 DEF RowFits
<1>2. /\ result \in AdminResults \cup {NoResult} /\ status \in {"RETRY"} \cup Ended
      /\ result # NoResult <=> status \in Ended
      /\ result # NoResult => result.changes = outcome.changes \/ result.changes = 0
      /\ outcome # Only("retry") => result = outcome /\ status \in Ended /\ result # NoResult
      /\ status = "RETRY" => command[j].attempts < MaxAttempts
  <2>1. Only("failure") \in AdminResults /\ NoResult \notin AdminResults /\ Only("failure").changes = 0
    BY CommandConstants DEF Only, Result
  <2> HIDE DEF AdminResults, NoResult
  <2> QED BY <2>1 DEF Ended
<1>3. Recorded(j, outcome) = [command[j] EXCEPT !.status = status, !.result = result, !.delivery = delivery]
  BY DEF Recorded, Finished
<1>4. delivery \in {None, "PENDING"} /\ (delivery = None <=> result = NoResult)
  <2>1. command[j].delivery = None /\ "PENDING" # None
    BY <1>1 DEF None
  <2>2. delivery = IF result = NoResult THEN command[j].delivery ELSE "PENDING"
    OBVIOUS
  <2> HIDE DEF result, delivery, NoResult
  <2> QED BY <2>1, <2>2
<1> HIDE DEF result, status, delivery
<1> DEFINE row == Recorded(j, outcome)
<1>5. /\ row.status = status /\ row.result = result /\ row.delivery = delivery
      /\ row.handshake = command[j].handshake /\ row.execution = command[j].execution
      /\ row.reason = command[j].reason /\ row.attempts = command[j].attempts
      /\ row.deliveries = command[j].deliveries
  BY <1>1, <1>3 DEF CommandRows
<1>6. row \in CommandRows
  <2>1. /\ status \in {"DRAFT", "PENDING", "RETRY", "PROCESSING"} \cup Ended
        /\ delivery \in {None, "PENDING", "RETRY", "SENDING", "SENT", "FAILED"}
        /\ result \in AdminResults \cup {NoResult} /\ command[j] \in CommandRows
    <3>1. status \in {"DRAFT", "PENDING", "RETRY", "PROCESSING"} \cup Ended
      BY <1>2
    <3>2. delivery \in {None, "PENDING", "RETRY", "SENDING", "SENT", "FAILED"}
      BY <1>4
    <3>3. result \in AdminResults \cup {NoResult}
      BY <1>2
    <3> QED BY <1>1, <3>1, <3>2, <3>3
  <2>2. row = [command[j] EXCEPT !.status = status, !.result = result, !.delivery = delivery]
    BY <1>3
  <2> HIDE DEF AdminResults, NoResult, row, Ended
  <2> QED BY <2>1, <2>2 DEF CommandRows
<1> HIDE DEF row
<1>7. RowFits(row)
  <2>1. command[j].handshake \notin {"AWAITING_REASON", "STAGED"}
    BY DEF RowFits
  <2> QED BY <1>1, <1>2, <1>4, <1>5, <2>1 DEF RowFits, Ended, None
<1> QED BY <1>2, <1>4, <1>5, <1>6, <1>7 DEF row

(* A run records what became of a command.                                  *)
LEMMA FinishKeeps == ASSUME CommandsInv, NEW w \in Runs, Finish(w) PROVE CommandsInv'
<1>0. /\ AdminTypeOK /\ RunFits(w) /\ DoneSoFar(w) /\ run[w].phase = "finishing"
      /\ faults \in Nat /\ UNCHANGED <<script, asked, seat, effects, shown, enabled>>
  BY CommandConstants DEF CommandsInv, Finish, At, AdminTypeOK
<1> PICK j \in DOMAIN run[w].claims : j = run[w].current
  BY <1>0 DEF RunFits
<1> PICK outcome \in AdminResults \cup {Only("retry")} : outcome = run[w].outcome
  BY <1>0 DEF RunFits
<1>1. j \in Sources /\ effects[j] \in Nat /\ outcome.changes <= effects[j] /\ command[j] \in CommandRows \cup {NoCommand}
      /\ command[j].attempts \in Nat /\ command[j].deliveries \in Nat
  BY <1>0, RunTypes, RowTypes DEF DoneSoFar, AdminTypeOK
<1>2. CASE Faulty /\ Becomes(w, Stopped(w)) /\ UNCHANGED command
  BY <1>0, <1>2, StopKeeps
<1>3. CASE /\ IF StillClaimed(w, j) THEN WriteCommand(j, Recorded(j, outcome)) ELSE UNCHANGED command
           /\ Becomes(w, NextClaim(w)) /\ UNCHANGED faults
  <2> DEFINE rest == [i \in DOMAIN run[w].claims \ {j} |-> run[w].claims[i]]
             next == NextClaim(w)
  <2>1. /\ run'[w] = next /\ \A v \in Runs : v # w => run'[v] = run[v]
        /\ next.claims = rest /\ next \in RunStates /\ DOMAIN rest = DOMAIN run[w].claims \ {j}
        /\ next.phase = (IF DOMAIN rest = {} THEN "delivering" ELSE "picking")
        /\ next.done = 0
    <3>1. run'[w] = next /\ \A v \in Runs : v # w => run'[v] = run[v]
      BY <1>0, <1>3 DEF Becomes, AdminTypeOK
    <3>2. DOMAIN rest \subseteq Sources /\ rest \in [DOMAIN rest -> Tries] /\ DOMAIN rest = DOMAIN run[w].claims \ {j}
      BY <1>0, RunTypes
    <3>3. rest \in UNION {[S -> Tries] : S \in SUBSET Sources}
      BY <3>2, RunStateTypes
    <3> DEFINE phase == IF DOMAIN rest = {} THEN "delivering" ELSE "picking"
    <3>4. next = [NoRun EXCEPT !.phase = phase, !.claims = rest]
      BY DEF NextClaim
    <3>5. phase \in {"delivering", "picking"}
      OBVIOUS
    <3> HIDE DEF rest, phase, NoRun
    <3>6. next.claims = rest /\ next.phase = phase /\ next \in RunStates /\ next.done = 0
      BY <3>3, <3>4, <3>5, RestTypes DEF RunStates
    <3> QED BY <3>1, <3>2, <3>6 DEF phase
  <2> HIDE DEF next
  <2>2. \A i \in DOMAIN rest : rest[i] = run[w].claims[i] /\ i # j /\ i \in DOMAIN run[w].claims /\ i \in Sources
    BY <1>0, RunTypes
  <2>3. run'[w].phase \in {"delivering", "picking"} /\ DOMAIN run'[w].claims = DOMAIN run[w].claims \ {j}
        /\ (run'[w].phase = "delivering" => DOMAIN run'[w].claims = {})
        /\ \A i \in DOMAIN run'[w].claims : run'[w].claims[i] = run[w].claims[i] /\ i # j /\ i \in Sources
    BY <2>1, <2>2
  <2> HIDE DEF rest
  <2>4. /\ \A i \in Sources : i # j => command'[i] = command[i]
        /\ ~StillClaimed(w, j) => command'[j] = command[j]
        /\ StillClaimed(w, j) => command'[j] = Recorded(j, outcome)
    BY <1>0, <1>1, <1>3 DEF WriteCommand, AdminTypeOK
  <2>5. StillClaimed(w, j) =>
           /\ command[j].status = "PROCESSING" /\ command[j] # NoCommand /\ command[j].result = NoResult
           /\ RowFits(command[j]) /\ RowFits(command'[j]) /\ command'[j] \in CommandRows /\ command'[j] # NoCommand
           /\ command'[j].handshake = command[j].handshake /\ command'[j].execution = command[j].execution
           /\ command'[j].reason = command[j].reason /\ command'[j].attempts = command[j].attempts
           /\ command'[j].deliveries = command[j].deliveries
           /\ command'[j].status \in {"RETRY"} \cup Ended /\ command'[j].delivery \in {None, "PENDING"}
           /\ command'[j].result # NoResult =>
                 command'[j].result.changes = outcome.changes \/ command'[j].result.changes = 0
           /\ outcome # Only("retry") =>
                 command'[j].result = outcome /\ command'[j].delivery = "PENDING" /\ command'[j].status \in Ended
    <3> SUFFICES ASSUME StillClaimed(w, j)
                 PROVE  /\ command[j].status = "PROCESSING" /\ command[j] # NoCommand /\ command[j].result = NoResult
                        /\ RowFits(command[j]) /\ RowFits(command'[j]) /\ command'[j] \in CommandRows /\ command'[j] # NoCommand
                        /\ command'[j].handshake = command[j].handshake /\ command'[j].execution = command[j].execution
                        /\ command'[j].reason = command[j].reason /\ command'[j].attempts = command[j].attempts
                        /\ command'[j].deliveries = command[j].deliveries
                        /\ command'[j].status \in {"RETRY"} \cup Ended /\ command'[j].delivery \in {None, "PENDING"}
                        /\ command'[j].result # NoResult =>
                              command'[j].result.changes = outcome.changes \/ command'[j].result.changes = 0
                        /\ outcome # Only("retry") =>
                              command'[j].result = outcome /\ command'[j].delivery = "PENDING" /\ command'[j].status \in Ended
      OBVIOUS
    <3>1. command[j].status = "PROCESSING" /\ command[j] # NoCommand
      BY <1>0, <1>1, RowTypes DEF StillClaimed, None
    <3>2. RowFits(command[j]) /\ command[j].result = NoResult
      BY <1>1, <3>1 DEF CommandsInv, RowFits, Ended
    <3>3. command'[j] \in CommandRows => command'[j] # NoCommand
      BY DEF CommandRows, NoCommand, None
    <3>4. command'[j] = Recorded(j, outcome)
      BY <2>4
    <3>5. command[j].status = "PROCESSING"
      BY <3>1
    <3> HIDE DEF AdminResults, NoResult, CommandRows, Ended
    <3>6. /\ Recorded(j, outcome) \in CommandRows /\ RowFits(Recorded(j, outcome))
          /\ Recorded(j, outcome).handshake = command[j].handshake
          /\ Recorded(j, outcome).execution = command[j].execution
          /\ Recorded(j, outcome).reason = command[j].reason
          /\ Recorded(j, outcome).attempts = command[j].attempts
          /\ Recorded(j, outcome).deliveries = command[j].deliveries
          /\ Recorded(j, outcome).status \in {"RETRY"} \cup Ended
          /\ Recorded(j, outcome).delivery \in {None, "PENDING"}
          /\ Recorded(j, outcome).result # NoResult =>
                Recorded(j, outcome).result.changes = outcome.changes \/ Recorded(j, outcome).result.changes = 0
          /\ outcome # Only("retry") =>
                Recorded(j, outcome).result = outcome /\ Recorded(j, outcome).delivery = "PENDING"
                /\ Recorded(j, outcome).status \in Ended
      BY <1>0, <1>1, <3>2, <3>5, RecordedFits
    <3> QED BY <3>1, <3>2, <3>3, <3>4, <3>6
  <2>6. AdminTypeOK'
    <3>1. run' \in [Runs -> RunStates]
      BY <1>0, <1>3, <2>1 DEF Becomes, AdminTypeOK
    <3>2. command' \in [Sources -> CommandRows \cup {NoCommand}]
      <4>1. \A i \in Sources : command'[i] \in CommandRows \cup {NoCommand}
        BY <1>0, <2>4, <2>5 DEF AdminTypeOK
      <4> QED BY <1>0, <1>3, <4>1 DEF AdminTypeOK, WriteCommand
    <3> QED BY <1>0, <1>3, <3>1, <3>2 DEF AdminTypeOK
  <2>7. \A i \in Sources : command'[i] # NoCommand => RowFits(command'[i])
    BY <2>4, <2>5 DEF CommandsInv
  <2>8. \A i \in Sources : /\ command'[i].handshake = command[i].handshake /\ command'[i].execution = command[i].execution
                           /\ command'[i].reason = command[i].reason /\ command'[i].attempts = command[i].attempts
                           /\ command'[i].deliveries = command[i].deliveries
                           /\ command'[i] = NoCommand <=> command[i] = NoCommand
                           /\ command[i].result # NoResult => command'[i].result = command[i].result
    BY <2>4, <2>5
  <2>9. \A v \in Runs : RunFits(v)'
    BY <2>1, <2>3 DEF CommandsInv, RunFits
  <2>10. \A v \in Runs : DoneSoFar(v)'
    <3>1. \A v \in Runs : run[v].phase = "noting" =>
             run[v].current \in Sources /\ command'[run[v].current].result = command[run[v].current].result
      BY <1>0, <2>8, RunTypes DEF CommandsInv, RunFits, RunIsAcknowledged, ResultPhases
    <3> QED BY <1>0, <2>1, <2>3, <3>1 DEF CommandsInv, DoneSoFar
  <2>11. \A i \in Sources : (Claimed(i)' => Claimed(i)) /\ ClaimsFit(i)'
    <3>1. \A v \in Runs : /\ DOMAIN run'[v].claims \subseteq DOMAIN run[v].claims
                          /\ \A i \in DOMAIN run'[v].claims :
                                /\ run'[v].claims[i] = run[v].claims[i]
                                /\ run'[v].phase \in JobPhases => run[v].phase \in JobPhases
                                /\ run'[v].phase \in ResultPhases => run[v].phase \in ResultPhases
      BY <1>0, <2>1, <2>3 DEF JobPhases, ResultPhases
    <3>2. \A i \in Sources : Claimed(i)' => Claimed(i)
      BY <3>1 DEF Claimed
    <3> QED BY <2>8, <3>1, <3>2 DEF CommandsInv, ClaimsFit
  <2>12. \A i \in Sources : RowIsAskedFor(i)' /\ RunIsAcknowledged(i)' /\ DeferredIsMine'
    <3>1. \A i \in Sources : Claimed(i)' => command[i].handshake = "ACKNOWLEDGED"
      BY <2>11 DEF CommandsInv, RunIsAcknowledged
    <3>2. ASSUME NEW v \in Runs, run'[v].phase \in ResultPhases
          PROVE  \A i \in DOMAIN run'[v].claims : i \in Sources => command'[i].result # NoResult
      BY <2>1, <2>3, <2>8, <3>2 DEF CommandsInv, RunIsAcknowledged, ResultPhases
    <3> QED BY <1>0, <2>8, <3>1, <3>2, RunFrame
  <2>13. \A i \in Sources, v \in Runs : (v # w \/ i # j) => (HoldsJob(v, i)' <=> HoldsJob(v, i))
    BY <1>0, <2>1, <2>3, <2>8 DEF HoldsJob
  <2>14. \A i \in Sources, v \in Runs : HoldsDelivery(v, i)' <=> HoldsDelivery(v, i)
    BY <1>0, <2>1, <2>3, <2>8 DEF HoldsDelivery
  <2>15. \A i \in Sources : (i # j => (JobHeld(i)' <=> JobHeld(i))) /\ (ResultHeld(i)' <=> ResultHeld(i))
    BY <2>13, <2>14 DEF JobHeld, ResultHeld
  <2>16. ASSUME NEW i \in Sources, i # j PROVE Paid(i)'
    BY <1>3, <2>4, <2>15, <2>16 DEF CommandsInv, Paid
  <2>17. Paid(j)'
    <3>1. CASE StillClaimed(w, j)
      BY <1>1, <1>3, <2>5, <2>8, <3>1 DEF CommandsInv, Paid, Ended, None
    <3>2. CASE ~StillClaimed(w, j)
      <4>1. ASSUME command[j].status = "PROCESSING", JobHeld(j) PROVE JobHeld(j)'
        <5>1. ~HoldsJob(w, j)
          BY <3>2, <4>1 DEF StillClaimed
        <5>2. PICK v \in Runs : HoldsJob(v, j)
          BY <4>1 DEF JobHeld
        <5>3. HoldsJob(v, j)'
          BY <1>1, <2>13, <5>1, <5>2
        <5> QED BY <5>3 DEF JobHeld
      <4> QED BY <1>1, <1>3, <2>4, <2>15, <3>2, <4>1 DEF CommandsInv, Paid
    <3> QED BY <3>1, <3>2
  <2>18. NeverOverclaims'
    <3>1. ASSUME NEW i \in Sources, i # j, command'[i].result # NoResult PROVE command'[i].result.changes <= effects'[i]
      BY <1>0, <2>4, <3>1 DEF CommandsInv, NeverOverclaims
    <3>2. command'[j].result # NoResult => command'[j].result.changes <= effects'[j]
      <4>1. CASE StillClaimed(w, j)
        BY <1>0, <1>1, <2>5, <4>1
      <4>2. CASE ~StillClaimed(w, j)
        BY <1>0, <1>1, <2>4, <4>2 DEF CommandsInv, NeverOverclaims
      <4> QED BY <4>1, <4>2
    <3> QED BY <3>1, <3>2 DEF NeverOverclaims
  <2>19. \A i \in Sources : command'[i].delivery = "SENT" => Times(i)' > 0
    BY <1>0, <2>4, <2>5 DEF CommandsInv, Times, None
  <2>20. FaultlessInv'
    <3> SUFFICES ASSUME faults' = 0 PROVE (\A v \in Runs : FaultlessRun(v)') /\ (\A i \in Sources : FaultlessRow(i)')
      BY DEF FaultlessInv
    <3>0. faults = 0 /\ FaultlessRun(w)
      BY <1>3 DEF CommandsInv, FaultlessInv
    <3>1. HoldsJob(w, j) /\ StillClaimed(w, j) /\ effects[j] = outcome.changes /\ outcome # Only("retry")
      BY <1>0, <3>0 DEF FaultlessRun, StillClaimed, JobPhases
    <3>2. \A i \in DOMAIN run'[w].claims : effects[i] = 0 /\ HoldsJob(w, i) /\ command[i].status = "PROCESSING"
      BY <1>0, <2>3, <3>0 DEF FaultlessRun, JobPhases
    <3>3. FaultlessRun(w)'
      BY <1>0, <2>3, <2>4, <2>13, <3>2 DEF FaultlessRun, JobPhases, ResultPhases
    <3>4. ASSUME NEW v \in Runs, v # w PROVE FaultlessRun(v)'
      <4>1. FaultlessRun(v)
        BY <3>0 DEF CommandsInv, FaultlessInv
      <4>2. \A i \in DOMAIN run[v].claims : i \in Sources /\ i # j
        BY <1>0, <3>0, <3>4, FaultlessAlone, RunTypes
      <4> QED BY <1>0, <2>1, <2>4, <2>13, <2>14, <3>4, <4>1, <4>2 DEF FaultlessRun, Times
    <3>5. ASSUME NEW i \in Sources, i # j PROVE FaultlessRow(i)'
      <4>1. FaultlessRow(i)
        BY <3>0 DEF CommandsInv, FaultlessInv
      <4> QED BY <1>0, <2>4, <2>15, <3>5, <4>1 DEF FaultlessRow, Times
    <3>6. FaultlessRow(j)'
      <4>1. FaultlessRow(j)
        BY <1>1, <3>0 DEF CommandsInv, FaultlessInv
      <4>2. \A x \in AdminResults : shown[j][x] = 0
        BY <2>5, <3>1, <4>1 DEF FaultlessRow
      <4>3. outcome \in AdminResults /\ outcome # NoResult
        BY <3>1, CommandConstants
      <4> QED BY <1>0, <2>5, <3>1, <4>2, <4>3 DEF FaultlessRow, Times, Ended, None
    <3> QED BY <3>3, <3>4, <3>5, <3>6
  <2>21. \A i \in Sources : Paid(i)'
    BY <2>16, <2>17
  <2>22. DeferredIsMine'
    BY <1>1, <2>12
  <2> QED
    BY <2>6, <2>7, <2>9, <2>10, <2>11, <2>12, <2>18, <2>19, <2>20, <2>21, <2>22 DEF CommandsInv
<1> QED BY <1>2, <1>3 DEF Finish

(* A claim counts an attempt, and lapses whoever held the job.              *)
LEMMA ClaimKeeps ==
    ASSUME CommandsInv, NEW w \in Runs, NEW claimed \in SUBSET Sources, ClaimCommands(w, claimed)
    PROVE  CommandsInv'
<1> DEFINE held == \E j \in claimed, v \in Runs : command[j].status = "PROCESSING" /\ HoldsJob(v, j)
<1>0. /\ AdminTypeOK /\ RunFits(w) /\ run[w].phase = "resting" /\ DOMAIN run[w].claims = {}
      /\ faults \in Nat /\ faults <= MaxFaults /\ MaxFaults \in Nat /\ MaxAttempts \in Nat /\ MaxAttempts >= 1
      /\ UNCHANGED <<script, asked, seat, effects, shown, enabled>>
      /\ IF held THEN Faulty ELSE UNCHANGED faults
      /\ \A j \in claimed : ClaimableCommand(j)
  <2>1. AdminTypeOK /\ RunFits(w) /\ run[w].phase = "resting"
    BY DEF CommandsInv, ClaimCommands, At
  <2>2. IF held THEN Faulty ELSE UNCHANGED faults
    BY DEF ClaimCommands, Lapses
  <2>3. DOMAIN run[w].claims = {}
    BY <2>1 DEF RunFits
  <2>4. /\ UNCHANGED <<script, asked, seat, effects, shown, enabled>>
        /\ \A j \in claimed : ClaimableCommand(j)
    BY DEF ClaimCommands
  <2>5. faults \in Nat /\ faults <= MaxFaults /\ MaxFaults \in Nat /\ MaxAttempts \in Nat /\ MaxAttempts >= 1
    BY <2>1, CommandConstants DEF AdminTypeOK
  <2> QED BY <2>1, <2>2, <2>3, <2>4, <2>5
<1>1. /\ faults' \in {faults, faults + 1} /\ faults' \in 0 .. MaxFaults /\ (held => faults' = faults + 1)
      /\ (faults' = 0 => faults = 0 /\ ~held)
  BY <1>0 DEF Faulty
<1>2. ASSUME NEW j \in claimed
      PROVE  /\ j \in Sources /\ command[j] \in CommandRows /\ RowFits(command[j]) /\ command[j] # NoCommand
             /\ command[j].handshake = "ACKNOWLEDGED" /\ command[j].status \in {"PENDING", "RETRY", "PROCESSING"}
             /\ command[j].result = NoResult /\ command[j].delivery = None /\ command[j].deliveries = 0
             /\ command[j].attempts \in Nat /\ command[j].attempts + 1 <= MaxAttempts + faults'
             /\ command[j].attempts + 1 \in Tries
  <2>1. /\ command[j].handshake = "ACKNOWLEDGED" /\ command[j].status \in {"PENDING", "RETRY", "PROCESSING"}
        /\ command[j] \in CommandRows /\ command[j] # NoCommand
        /\ command[j].attempts \in Nat
    BY <1>0, <1>2, RowTypes DEF ClaimableCommand, None
  <2>2. RowFits(command[j]) /\ Paid(j)
    BY <1>2, <2>1 DEF CommandsInv
  <2>3. command[j].result = NoResult /\ command[j].delivery = None
    BY <2>1, <2>2 DEF RowFits, Ended
  <2>4. command[j].deliveries = 0
    BY <2>2, <2>3 DEF RowFits
  <2>5. command[j].attempts + 1 <= MaxAttempts + faults'
    <3>1. CASE command[j].status = "PENDING"
      BY <1>0, <1>1, <2>2, <3>1 DEF RowFits
    <3>2. CASE command[j].status = "RETRY"
      BY <1>0, <1>1, <2>1, <2>2, <3>2 DEF RowFits
    <3>3. CASE command[j].status = "PROCESSING" /\ JobHeld(j)
      <4>1. held
        BY <1>2, <3>3 DEF JobHeld
      <4> QED BY <1>0, <1>1, <2>1, <2>2, <4>1 DEF Paid
    <3>4. CASE command[j].status = "PROCESSING" /\ ~JobHeld(j)
      BY <1>0, <1>1, <2>1, <2>2, <3>4 DEF Paid
    <3> QED BY <2>1, <3>1, <3>2, <3>3, <3>4
  <2>6. command[j].attempts + 1 \in Tries
    BY <1>0, <1>1, <2>1, <2>5 DEF Tries
  <2> QED BY <1>2, <2>1, <2>2, <2>3, <2>4, <2>5, <2>6
<1> HIDE DEF held
<1>3. /\ \A j \in Sources : j \notin claimed => command'[j] = command[j]
      /\ \A j \in claimed : command'[j] = [command[j] EXCEPT !.status = "PROCESSING",
                                                              !.attempts = command[j].attempts + 1]
      /\ command' = [j \in Sources |-> command'[j]]
  BY DEF ClaimCommands
<1>4. ASSUME NEW j \in claimed
      PROVE  /\ command'[j] \in CommandRows /\ command'[j] # NoCommand /\ RowFits(command'[j])
             /\ command'[j].status = "PROCESSING" /\ command'[j].attempts = command[j].attempts + 1
             /\ command'[j].handshake = command[j].handshake /\ command'[j].execution = command[j].execution
             /\ command'[j].reason = command[j].reason /\ command'[j].deliveries = command[j].deliveries
             /\ command'[j].result = command[j].result /\ command'[j].delivery = command[j].delivery
  <2> DEFINE tries == command[j].attempts + 1
  <2>0. /\ command[j] \in CommandRows /\ tries \in Tries
        /\ command'[j] = [command[j] EXCEPT !.status = "PROCESSING", !.attempts = tries]
    BY <1>2, <1>3
  <2> HIDE DEF tries
  <2>1. /\ command'[j].status = "PROCESSING" /\ command'[j].attempts = command[j].attempts + 1
        /\ command'[j].handshake = command[j].handshake /\ command'[j].execution = command[j].execution
        /\ command'[j].reason = command[j].reason /\ command'[j].deliveries = command[j].deliveries
        /\ command'[j].result = command[j].result /\ command'[j].delivery = command[j].delivery
    <3>1. command'[j].attempts = tries /\ command'[j].status = "PROCESSING"
      BY <2>0 DEF CommandRows
    <3>2. /\ command'[j].handshake = command[j].handshake /\ command'[j].execution = command[j].execution
          /\ command'[j].reason = command[j].reason /\ command'[j].deliveries = command[j].deliveries
          /\ command'[j].result = command[j].result /\ command'[j].delivery = command[j].delivery
      BY <2>0 DEF CommandRows
    <3> QED BY <3>1, <3>2 DEF tries
  <2>2. command'[j] \in CommandRows
    BY <2>0 DEF CommandRows
  <2>3. command'[j] # NoCommand
    BY <2>2 DEF CommandRows, NoCommand, None
  <2>4. RowFits(command'[j])
    BY <1>2, <2>1 DEF RowFits, Ended, None
  <2> QED BY <2>1, <2>2, <2>3, <2>4
<1> DEFINE claims == [j \in claimed |-> command[j].attempts + 1]
           state == [NoRun EXCEPT !.phase = "picking", !.claims = claims]
<1>5. state \in RunStates /\ state.phase = "picking" /\ state.claims = claims /\ state.done = 0
  <2>1. claims \in [claimed -> Tries]
    BY <1>2
  <2>2. claims \in UNION {[S -> Tries] : S \in SUBSET Sources}
    BY <2>1, RunStateTypes
  <2> HIDE DEF claims, NoRun
  <2> QED BY <2>2, RestTypes DEF RunStates
<1>6. run'[w] = state /\ \A v \in Runs : v # w => run'[v] = run[v]
  BY <1>0 DEF ClaimCommands, Becomes, AdminTypeOK
<1>7. run' = [run EXCEPT ![w] = state]
  BY DEF ClaimCommands, Becomes
<1> HIDE DEF state
<1>8. DOMAIN run'[w].claims = claimed /\ \A j \in claimed : run'[w].claims[j] = command'[j].attempts
  BY <1>4, <1>5, <1>6
<1> HIDE DEF claims
<1>9. AdminTypeOK'
  <2>1. run' \in [Runs -> RunStates]
    BY <1>0, <1>5, <1>7 DEF AdminTypeOK
  <2>2. \A j \in Sources : command'[j] \in CommandRows \cup {NoCommand}
    BY <1>0, <1>3, <1>4 DEF AdminTypeOK
  <2>3. command' \in [Sources -> CommandRows \cup {NoCommand}]
    BY <1>3, <2>2
  <2> QED BY <1>0, <1>1, <2>1, <2>3 DEF AdminTypeOK
<1>10. \A j \in Sources : /\ command'[j].handshake = command[j].handshake /\ command'[j].execution = command[j].execution
                          /\ command'[j].reason = command[j].reason /\ command'[j].deliveries = command[j].deliveries
                          /\ command'[j].result = command[j].result /\ command'[j].delivery = command[j].delivery
                          /\ command'[j] = NoCommand <=> command[j] = NoCommand
                          /\ command'[j].attempts >= command[j].attempts
                          /\ (command'[j] # NoCommand => RowFits(command'[j]))
  <2>1. ASSUME NEW j \in Sources, j \notin claimed
        PROVE  command'[j] = command[j] /\ command[j].attempts \in Nat /\ (command[j] # NoCommand => RowFits(command[j]))
    BY <1>0, <1>3, <2>1, RowTypes DEF CommandsInv
  <2> QED BY <1>2, <1>4, <2>1
<1>11. \A v \in Runs : RunFits(v)' /\ DoneSoFar(v)'
  <2>1. RunFits(w)' /\ DoneSoFar(w)'
    BY <1>5, <1>6 DEF RunFits, DoneSoFar
  <2>2. ASSUME NEW v \in Runs, v # w PROVE RunFits(v)' /\ DoneSoFar(v)'
    <3>1. RunFits(v) /\ DoneSoFar(v)
      BY DEF CommandsInv
    <3>2. run[v].phase = "noting" => run[v].current \in Sources
      BY <1>0, <3>1, RunTypes DEF RunFits
    <3> QED BY <1>0, <1>6, <1>10, <2>2, <3>1, <3>2 DEF RunFits, DoneSoFar
  <2> QED BY <2>1, <2>2
<1>12. \A j \in Sources : RowIsAskedFor(j)' /\ RunIsAcknowledged(j)'
  <2>1. \A j \in Sources : Claimed(j)' => command[j].handshake = "ACKNOWLEDGED"
    BY <1>2, <1>6, <1>8 DEF CommandsInv, RunIsAcknowledged, Claimed
  <2>2. ASSUME NEW v \in Runs, run'[v].phase \in ResultPhases
        PROVE  \A j \in DOMAIN run'[v].claims : j \in Sources => command'[j].result # NoResult
    BY <1>5, <1>6, <1>10, <2>2 DEF CommandsInv, RunIsAcknowledged, ResultPhases
  <2> QED BY <1>0, <1>10, <2>1, <2>2, RunFrame
<1>13. DeferredIsMine'
  BY <1>0, <1>10, ScriptFacts DEF CommandsInv, DeferredIsMine
<1>14. ASSUME NEW j \in Sources PROVE ClaimsFit(j)'
  <2>0. ClaimsFit(j) /\ command[j].attempts \in Nat
    BY <1>0, RowTypes DEF CommandsInv
  <2>1. ASSUME NEW v \in Runs, v # w, j \in DOMAIN run'[v].claims
        PROVE  /\ run'[v] = run[v] /\ run[v].claims[j] \in Nat
               /\ run[v].phase \in JobPhases => run[v].claims[j] <= command[j].attempts
               /\ run[v].phase \in ResultPhases => run[v].claims[j] <= command[j].deliveries
    BY <1>0, <1>6, <2>0, <2>1, RunTypes DEF ClaimsFit
  <2>2. CASE j \in claimed
    <3>1. run'[w].claims[j] = command[j].attempts + 1 /\ command'[j].attempts = command[j].attempts + 1
          /\ run'[w].phase = "picking" /\ j \in DOMAIN run'[w].claims
      BY <1>4, <1>5, <1>6, <1>8, <2>2
    <3>2. ASSUME NEW v \in Runs, v # w, j \in DOMAIN run'[v].claims, run'[v].phase \in JobPhases
          PROVE  run'[v].claims[j] <= command[j].attempts /\ run'[v].claims[j] # run'[w].claims[j]
      BY <2>0, <2>1, <3>1, <3>2
    <3> QED BY <1>10, <2>0, <2>1, <3>1, <3>2 DEF ClaimsFit, JobPhases, ResultPhases
  <2>3. CASE j \notin claimed
    <3>1. j \notin DOMAIN run'[w].claims /\ command'[j] = command[j]
      BY <1>3, <1>8, <2>3
    <3>2. \A v \in Runs : j \in DOMAIN run'[v].claims => run'[v] = run[v]
      BY <1>6, <3>1
    <3> QED BY <2>0, <3>1, <3>2 DEF ClaimsFit
  <2> QED BY <2>2, <2>3
<1>15. \A j \in Sources, v \in Runs : j \notin claimed => (HoldsJob(v, j)' <=> HoldsJob(v, j))
  BY <1>0, <1>3, <1>6, <1>8 DEF HoldsJob
<1>16. \A j \in Sources, v \in Runs : HoldsDelivery(v, j)' <=> HoldsDelivery(v, j)
  BY <1>0, <1>5, <1>6, <1>10 DEF HoldsDelivery
<1>17. \A j \in Sources : (j \notin claimed => (JobHeld(j)' <=> JobHeld(j))) /\ (ResultHeld(j)' <=> ResultHeld(j))
  BY <1>15, <1>16 DEF JobHeld, ResultHeld
<1>18. \A j \in claimed : HoldsJob(w, j)' /\ JobHeld(j)'
  BY <1>5, <1>6, <1>8 DEF HoldsJob, JobHeld
<1>19. ASSUME NEW j \in Sources PROVE Paid(j)'
  <2>1. Paid(j) /\ command[j].attempts \in Nat /\ command[j].deliveries \in Nat
    BY <1>0, RowTypes DEF CommandsInv
  <2>2. CASE j \in claimed
    BY <1>2, <1>4, <1>18, <2>2, <1>0, <1>1 DEF Paid, None
  <2>3. CASE j \notin claimed
    <3>1. command'[j] = command[j] /\ (JobHeld(j)' <=> JobHeld(j)) /\ (ResultHeld(j)' <=> ResultHeld(j))
      BY <1>3, <1>17, <2>3
    <3>2. faults \in Nat /\ faults' \in Nat /\ faults <= faults' /\ MaxAttempts \in Nat
      BY <1>0, <1>1
    <3> QED BY <2>1, <3>1, <3>2 DEF Paid
  <2> QED BY <2>2, <2>3
<1>20. FaultlessInv'
  <2> SUFFICES ASSUME faults' = 0
               PROVE  (\A v \in Runs : FaultlessRun(v)') /\ \A j \in Sources : FaultlessRow(j)'
    BY DEF FaultlessInv
  <2>1. /\ faults = 0 /\ ~held /\ (\A v \in Runs : FaultlessRun(v))
        /\ \A j \in Sources : FaultlessRow(j)
    BY <1>1 DEF CommandsInv, FaultlessInv
  <2>2. ASSUME NEW j \in claimed PROVE command[j].status = "PENDING" /\ effects[j] = 0
    <3>1. ~(command[j].status = "PROCESSING" /\ JobHeld(j))
      BY <2>1 DEF held, JobHeld
    <3> QED BY <1>2, <2>1, <3>1 DEF FaultlessRow, Ended
  <2>3. FaultlessRun(w)'
    BY <1>0, <1>4, <1>5, <1>6, <1>8, <1>18, <2>2 DEF FaultlessRun, JobPhases, ResultPhases
  <2>4. ASSUME NEW v \in Runs, v # w PROVE FaultlessRun(v)'
    <3>1. FaultlessRun(v) /\ RunFits(v)
      BY <2>1 DEF CommandsInv
    <3>2. \A j \in DOMAIN run[v].claims : j \in Sources /\ j \notin claimed
      <4> TAKE j \in DOMAIN run[v].claims
      <4>1. j \in Sources /\ run[v].phase \in JobPhases \cup ResultPhases
        BY <1>0, <3>1, RunTypes DEF RunFits, JobPhases, ResultPhases
      <4>2. run[v].phase \in JobPhases => command[j].status = "PROCESSING"
        BY <3>1 DEF FaultlessRun
      <4>3. run[v].phase \in ResultPhases => command[j].result # NoResult
        BY <4>1 DEF CommandsInv, RunIsAcknowledged
      <4> QED BY <1>2, <2>2, <4>1, <4>2, <4>3
    <3>3. \A j \in DOMAIN run[v].claims :
             /\ command'[j] = command[j] /\ effects'[j] = effects[j] /\ Times(j)' = Times(j)
             /\ HoldsJob(v, j)' <=> HoldsJob(v, j)
             /\ HoldsDelivery(v, j)' <=> HoldsDelivery(v, j)
      BY <1>0, <1>3, <1>15, <1>16, <3>2 DEF Times
    <3>4. run'[v] = run[v]
      BY <1>6, <2>4
    <3> QED BY <3>1, <3>3, <3>4 DEF FaultlessRun
  <2>5. ASSUME NEW j \in Sources PROVE FaultlessRow(j)'
    <3>1. FaultlessRow(j)
      BY <2>1
    <3>2. CASE j \in claimed
      BY <1>0, <1>2, <1>4, <1>18, <2>2, <3>1, <3>2 DEF FaultlessRow, Ended, None
    <3>3. CASE j \notin claimed
      BY <1>0, <1>3, <1>17, <3>1, <3>3 DEF FaultlessRow, Times
    <3> QED BY <3>2, <3>3
  <2> QED BY <2>3, <2>4, <2>5
<1>21. NeverOverclaims' /\ \A j \in Sources : command'[j].delivery = "SENT" => Times(j)' > 0
  BY <1>0, <1>10 DEF CommandsInv, NeverOverclaims, Times
<1> QED
  BY <1>9, <1>10, <1>11, <1>12, <1>13, <1>14, <1>19, <1>20, <1>21 DEF CommandsInv

(* A claim of results counts a delivery, and lapses whoever held them.      *)
LEMMA ClaimOfResultsKeeps ==
    ASSUME CommandsInv, NEW w \in Runs, NEW claimed \in SUBSET Sources, claimed # {},
           run[w].phase \in {"resting", "delivering"}, \A j \in claimed : Deliverable(j),
           ClaimDeliveries(w, claimed)
    PROVE  CommandsInv'
<1> DEFINE held == \E j \in claimed, v \in Runs : command[j].delivery = "SENDING" /\ HoldsDelivery(v, j)
<1>0. /\ AdminTypeOK /\ RunFits(w) /\ run[w].phase \in {"resting", "delivering"} /\ DOMAIN run[w].claims = {}
      /\ faults \in Nat /\ faults <= MaxFaults /\ MaxFaults \in Nat /\ MaxAttempts \in Nat /\ MaxAttempts >= 1
      /\ UNCHANGED <<script, asked, seat, effects, shown, enabled>>
      /\ IF held THEN Faulty ELSE UNCHANGED faults
  <2>1. AdminTypeOK /\ RunFits(w)
    BY DEF CommandsInv
  <2>2. IF held THEN Faulty ELSE UNCHANGED faults
    BY DEF ClaimDeliveries, Lapses
  <2>3. DOMAIN run[w].claims = {}
    BY <2>1 DEF RunFits
  <2>4. UNCHANGED <<script, asked, seat, effects, shown, enabled>>
    BY DEF ClaimDeliveries
  <2>5. faults \in Nat /\ faults <= MaxFaults /\ MaxFaults \in Nat /\ MaxAttempts \in Nat /\ MaxAttempts >= 1
    BY <2>1, CommandConstants DEF AdminTypeOK
  <2> QED BY <2>1, <2>2, <2>3, <2>4, <2>5
<1>1. /\ faults' \in {faults, faults + 1} /\ faults' \in 0 .. MaxFaults /\ (held => faults' = faults + 1)
      /\ (faults' = 0 => faults = 0 /\ ~held)
  BY <1>0 DEF Faulty
<1>2. ASSUME NEW j \in claimed
      PROVE  /\ j \in Sources /\ command[j] \in CommandRows /\ RowFits(command[j]) /\ command[j] # NoCommand
             /\ command[j].handshake = "ACKNOWLEDGED" /\ command[j].delivery \in {"PENDING", "RETRY", "SENDING"}
             /\ command[j].result # NoResult /\ command[j].status \in Ended
             /\ command[j].deliveries \in Nat /\ command[j].deliveries + 1 <= MaxAttempts + faults'
             /\ command[j].deliveries + 1 \in Tries
  <2>1. /\ command[j].delivery \in {"PENDING", "RETRY", "SENDING"} /\ command[j].result # NoResult
        /\ command[j] \in CommandRows /\ command[j] # NoCommand
        /\ command[j].deliveries \in Nat
    BY <1>0, <1>2, RowTypes DEF Deliverable, None
  <2>2. RowFits(command[j]) /\ Paid(j)
    BY <1>2, <2>1 DEF CommandsInv
  <2>3. command[j].status \in Ended
    BY <2>1, <2>2 DEF RowFits
  <2>4. command[j].handshake = "ACKNOWLEDGED"
    <3>1. command[j].handshake \in {"AWAITING_REASON", "STAGED", "ACKNOWLEDGED"}
      BY <2>1 DEF CommandRows
    <3> QED BY <2>2, <2>3, <3>1 DEF RowFits, Ended
  <2>5. command[j].deliveries + 1 <= MaxAttempts + faults'
    <3>1. CASE command[j].delivery = "PENDING"
      BY <1>0, <1>1, <2>2, <3>1 DEF RowFits
    <3>2. CASE command[j].delivery = "RETRY"
      BY <1>0, <1>1, <2>1, <2>2, <3>2 DEF RowFits
    <3>3. CASE command[j].delivery = "SENDING" /\ ResultHeld(j)
      <4>1. held
        BY <1>2, <3>3 DEF ResultHeld
      <4> QED BY <1>0, <1>1, <2>1, <2>2, <4>1 DEF Paid
    <3>4. CASE command[j].delivery = "SENDING" /\ ~ResultHeld(j)
      BY <1>0, <1>1, <2>1, <2>2, <3>4 DEF Paid
    <3> QED BY <2>1, <3>1, <3>2, <3>3, <3>4
  <2>6. command[j].deliveries + 1 \in Tries
    BY <1>0, <1>1, <2>1, <2>5 DEF Tries
  <2> QED BY <1>2, <2>1, <2>2, <2>3, <2>4, <2>5, <2>6
<1> HIDE DEF held
<1>3. /\ \A j \in Sources : j \notin claimed => command'[j] = command[j]
      /\ \A j \in claimed : command'[j] = [command[j] EXCEPT !.delivery = "SENDING",
                                                              !.deliveries = command[j].deliveries + 1]
      /\ command' = [j \in Sources |-> command'[j]]
  BY DEF ClaimDeliveries
<1>4. ASSUME NEW j \in claimed
      PROVE  /\ command'[j] \in CommandRows /\ command'[j] # NoCommand /\ RowFits(command'[j])
             /\ command'[j].delivery = "SENDING" /\ command'[j].deliveries = command[j].deliveries + 1
             /\ command'[j].handshake = command[j].handshake /\ command'[j].execution = command[j].execution
             /\ command'[j].reason = command[j].reason /\ command'[j].attempts = command[j].attempts
             /\ command'[j].result = command[j].result /\ command'[j].status = command[j].status
  <2> DEFINE tries == command[j].deliveries + 1
  <2>0. /\ command[j] \in CommandRows /\ tries \in Tries
        /\ command'[j] = [command[j] EXCEPT !.delivery = "SENDING", !.deliveries = tries]
    BY <1>2, <1>3
  <2> HIDE DEF tries
  <2>1. /\ command'[j].delivery = "SENDING" /\ command'[j].deliveries = command[j].deliveries + 1
        /\ command'[j].handshake = command[j].handshake /\ command'[j].execution = command[j].execution
        /\ command'[j].reason = command[j].reason /\ command'[j].attempts = command[j].attempts
        /\ command'[j].result = command[j].result /\ command'[j].status = command[j].status
    <3>1. command'[j].deliveries = tries /\ command'[j].delivery = "SENDING"
      BY <2>0 DEF CommandRows
    <3>2. /\ command'[j].handshake = command[j].handshake /\ command'[j].execution = command[j].execution
          /\ command'[j].reason = command[j].reason /\ command'[j].attempts = command[j].attempts
          /\ command'[j].result = command[j].result /\ command'[j].status = command[j].status
      BY <2>0 DEF CommandRows
    <3> QED BY <3>1, <3>2 DEF tries
  <2>2. command'[j] \in CommandRows
    BY <2>0 DEF CommandRows
  <2>3. command'[j] # NoCommand
    BY <2>2 DEF CommandRows, NoCommand, None
  <2>4. RowFits(command'[j])
    BY <1>2, <2>1 DEF RowFits, Ended, None
  <2> QED BY <2>1, <2>2, <2>3, <2>4
<1> DEFINE claims == [j \in claimed |-> command[j].deliveries + 1]
           state == [NoRun EXCEPT !.phase = "sending", !.claims = claims]
<1>5. state \in RunStates /\ state.phase = "sending" /\ state.claims = claims /\ state.done = 0
  <2>1. claims \in [claimed -> Tries]
    BY <1>2
  <2>2. claims \in UNION {[S -> Tries] : S \in SUBSET Sources}
    BY <2>1, RunStateTypes
  <2> HIDE DEF claims, NoRun
  <2> QED BY <2>2, RestTypes DEF RunStates
<1>6. run'[w] = state /\ \A v \in Runs : v # w => run'[v] = run[v]
  BY <1>0 DEF ClaimDeliveries, Becomes, AdminTypeOK
<1>7. run' = [run EXCEPT ![w] = state]
  BY DEF ClaimDeliveries, Becomes
<1> HIDE DEF state
<1>8. DOMAIN run'[w].claims = claimed /\ \A j \in claimed : run'[w].claims[j] = command'[j].deliveries
  BY <1>4, <1>5, <1>6
<1> HIDE DEF claims
<1>9. AdminTypeOK'
  <2>1. run' \in [Runs -> RunStates]
    BY <1>0, <1>5, <1>7 DEF AdminTypeOK
  <2>2. \A j \in Sources : command'[j] \in CommandRows \cup {NoCommand}
    BY <1>0, <1>3, <1>4 DEF AdminTypeOK
  <2>3. command' \in [Sources -> CommandRows \cup {NoCommand}]
    BY <1>3, <2>2
  <2> QED BY <1>0, <1>1, <2>1, <2>3 DEF AdminTypeOK
<1>10. \A j \in Sources : /\ command'[j].handshake = command[j].handshake /\ command'[j].execution = command[j].execution
                          /\ command'[j].reason = command[j].reason /\ command'[j].attempts = command[j].attempts
                          /\ command'[j].result = command[j].result /\ command'[j].status = command[j].status
                          /\ command'[j] = NoCommand <=> command[j] = NoCommand
                          /\ command'[j].deliveries >= command[j].deliveries
                          /\ (command'[j] # NoCommand => RowFits(command'[j]))
  <2>1. ASSUME NEW j \in Sources, j \notin claimed
        PROVE  command'[j] = command[j] /\ command[j].deliveries \in Nat /\ (command[j] # NoCommand => RowFits(command[j]))
    BY <1>0, <1>3, <2>1, RowTypes DEF CommandsInv
  <2> QED BY <1>2, <1>4, <2>1
<1>11. \A v \in Runs : RunFits(v)' /\ DoneSoFar(v)'
  <2>1. RunFits(w)' /\ DoneSoFar(w)'
    BY <1>5, <1>6 DEF RunFits, DoneSoFar
  <2>2. ASSUME NEW v \in Runs, v # w PROVE RunFits(v)' /\ DoneSoFar(v)'
    <3>1. RunFits(v) /\ DoneSoFar(v)
      BY DEF CommandsInv
    <3>2. run[v].phase = "noting" => run[v].current \in Sources
      BY <1>0, <3>1, RunTypes DEF RunFits
    <3> QED BY <1>0, <1>6, <1>10, <2>2, <3>1, <3>2 DEF RunFits, DoneSoFar
  <2> QED BY <2>1, <2>2
<1>12. \A j \in Sources : RowIsAskedFor(j)' /\ RunIsAcknowledged(j)'
  <2>1. \A j \in Sources : Claimed(j)' => command[j].handshake = "ACKNOWLEDGED"
    BY <1>2, <1>6, <1>8 DEF CommandsInv, RunIsAcknowledged, Claimed
  <2>2. ASSUME NEW v \in Runs, run'[v].phase \in ResultPhases
        PROVE  \A j \in DOMAIN run'[v].claims : j \in Sources => command'[j].result # NoResult
    <3>1. CASE v = w
      BY <1>2, <1>6, <1>8, <1>10, <3>1
    <3>2. CASE v # w
      BY <1>6, <1>10, <2>2, <3>2 DEF CommandsInv, RunIsAcknowledged
    <3> QED BY <3>1, <3>2
  <2> QED BY <1>0, <1>10, <2>1, <2>2, RunFrame
<1>13. DeferredIsMine'
  BY <1>0, <1>10, ScriptFacts DEF CommandsInv, DeferredIsMine
<1>14. ASSUME NEW j \in Sources PROVE ClaimsFit(j)'
  <2>0. ClaimsFit(j) /\ command[j].deliveries \in Nat
    BY <1>0, RowTypes DEF CommandsInv
  <2>1. ASSUME NEW v \in Runs, v # w, j \in DOMAIN run'[v].claims
        PROVE  /\ run'[v] = run[v] /\ run[v].claims[j] \in Nat
               /\ run[v].phase \in JobPhases => run[v].claims[j] <= command[j].attempts
               /\ run[v].phase \in ResultPhases => run[v].claims[j] <= command[j].deliveries
    BY <1>0, <1>6, <2>0, <2>1, RunTypes DEF ClaimsFit
  <2>2. CASE j \in claimed
    <3>1. run'[w].claims[j] = command[j].deliveries + 1 /\ command'[j].deliveries = command[j].deliveries + 1
          /\ run'[w].phase = "sending" /\ j \in DOMAIN run'[w].claims
      BY <1>4, <1>5, <1>6, <1>8, <2>2
    <3>2. ASSUME NEW v \in Runs, v # w, j \in DOMAIN run'[v].claims, run'[v].phase \in ResultPhases
          PROVE  run'[v].claims[j] <= command[j].deliveries /\ run'[v].claims[j] # run'[w].claims[j]
      BY <2>0, <2>1, <3>1, <3>2
    <3> QED BY <1>10, <2>0, <2>1, <3>1, <3>2 DEF ClaimsFit, JobPhases, ResultPhases
  <2>3. CASE j \notin claimed
    <3>1. j \notin DOMAIN run'[w].claims /\ command'[j] = command[j]
      BY <1>3, <1>8, <2>3
    <3>2. \A v \in Runs : j \in DOMAIN run'[v].claims => run'[v] = run[v]
      BY <1>6, <3>1
    <3> QED BY <2>0, <3>1, <3>2 DEF ClaimsFit
  <2> QED BY <2>2, <2>3
<1>15. \A j \in Sources, v \in Runs : j \notin claimed => (HoldsDelivery(v, j)' <=> HoldsDelivery(v, j))
  BY <1>0, <1>3, <1>6, <1>8 DEF HoldsDelivery
<1>16. \A j \in Sources, v \in Runs : HoldsJob(v, j)' <=> HoldsJob(v, j)
  BY <1>0, <1>5, <1>6, <1>10 DEF HoldsJob
<1>17. \A j \in Sources : (j \notin claimed => (ResultHeld(j)' <=> ResultHeld(j))) /\ (JobHeld(j)' <=> JobHeld(j))
  BY <1>15, <1>16 DEF JobHeld, ResultHeld
<1>18. \A j \in claimed : HoldsDelivery(w, j)' /\ ResultHeld(j)'
  BY <1>5, <1>6, <1>8 DEF HoldsDelivery, ResultHeld
<1>19. ASSUME NEW j \in Sources PROVE Paid(j)'
  <2>1. Paid(j) /\ command[j].attempts \in Nat /\ command[j].deliveries \in Nat
    BY <1>0, RowTypes DEF CommandsInv
  <2>2. CASE j \in claimed
    <3>1. faults \in Nat /\ faults' \in Nat /\ faults <= faults' /\ MaxAttempts \in Nat
      BY <1>0, <1>1
    <3>2. command'[j].status \in Ended /\ command'[j].deliveries <= MaxAttempts + faults'
      BY <1>2, <1>4, <2>2
    <3>3. command'[j].attempts <= MaxAttempts + faults'
      BY <1>4, <2>1, <2>2, <3>1 DEF Paid
    <3> QED BY <1>18, <2>2, <3>2, <3>3 DEF Paid, Ended
  <2>3. CASE j \notin claimed
    <3>1. command'[j] = command[j] /\ (JobHeld(j)' <=> JobHeld(j)) /\ (ResultHeld(j)' <=> ResultHeld(j))
      BY <1>3, <1>17, <2>3
    <3>2. faults \in Nat /\ faults' \in Nat /\ faults <= faults' /\ MaxAttempts \in Nat
      BY <1>0, <1>1
    <3> QED BY <2>1, <3>1, <3>2 DEF Paid
  <2> QED BY <2>2, <2>3
<1>20. FaultlessInv'
  <2> SUFFICES ASSUME faults' = 0
               PROVE  (\A v \in Runs : FaultlessRun(v)') /\ \A j \in Sources : FaultlessRow(j)'
    BY DEF FaultlessInv
  <2>1. /\ faults = 0 /\ ~held /\ (\A v \in Runs : FaultlessRun(v))
        /\ \A j \in Sources : FaultlessRow(j)
    BY <1>1 DEF CommandsInv, FaultlessInv
  <2>2. ASSUME NEW j \in claimed PROVE command[j].delivery = "PENDING" /\ Times(j) = 0
    <3>1. ~(command[j].delivery = "SENDING" /\ ResultHeld(j))
      BY <2>1 DEF held, ResultHeld
    <3> QED BY <1>2, <2>1, <3>1 DEF FaultlessRow
  <2>3. FaultlessRun(w)'
    <3>1. \A j \in claimed : Times(j)' = 0
      BY <1>0, <1>4, <2>2 DEF Times
    <3> QED BY <1>4, <1>5, <1>6, <1>8, <1>18, <3>1 DEF FaultlessRun, JobPhases, ResultPhases
  <2>4. ASSUME NEW v \in Runs, v # w PROVE FaultlessRun(v)'
    <3>1. FaultlessRun(v) /\ RunFits(v)
      BY <2>1 DEF CommandsInv
    <3>2. \A j \in DOMAIN run[v].claims : j \in Sources /\ j \notin claimed
      <4> TAKE j \in DOMAIN run[v].claims
      <4>1. j \in Sources /\ run[v].phase \in JobPhases \cup ResultPhases
        BY <1>0, <3>1, RunTypes DEF RunFits, JobPhases, ResultPhases
      <4>2. run[v].phase \in JobPhases => command[j].status = "PROCESSING"
        BY <3>1 DEF FaultlessRun
      <4>3. run[v].phase \in ResultPhases => command[j].delivery = "SENDING"
        BY <3>1 DEF FaultlessRun
      <4> QED BY <1>2, <2>2, <4>1, <4>2, <4>3 DEF Ended
    <3>3. \A j \in DOMAIN run[v].claims :
             /\ command'[j] = command[j] /\ effects'[j] = effects[j] /\ Times(j)' = Times(j)
             /\ HoldsJob(v, j)' <=> HoldsJob(v, j)
             /\ HoldsDelivery(v, j)' <=> HoldsDelivery(v, j)
      BY <1>0, <1>3, <1>15, <1>16, <3>2 DEF Times
    <3>4. run'[v] = run[v]
      BY <1>6, <2>4
    <3> QED BY <3>1, <3>3, <3>4 DEF FaultlessRun
  <2>5. ASSUME NEW j \in Sources PROVE FaultlessRow(j)'
    <3>1. FaultlessRow(j)
      BY <2>1
    <3>2. CASE j \in claimed
      BY <1>0, <1>2, <1>4, <1>18, <3>1, <3>2 DEF FaultlessRow, Ended
    <3>3. CASE j \notin claimed
      BY <1>0, <1>3, <1>17, <3>1, <3>3 DEF FaultlessRow, Times
    <3> QED BY <3>2, <3>3
  <2> QED BY <2>3, <2>4, <2>5
<1>21. NeverOverclaims' /\ \A j \in Sources : command'[j].delivery = "SENT" => Times(j)' > 0
  <2>1. NeverOverclaims'
    BY <1>0, <1>10 DEF CommandsInv, NeverOverclaims
  <2>2. ASSUME NEW j \in Sources, command'[j].delivery = "SENT" PROVE Times(j)' > 0
    <3>1. j \notin claimed
      BY <1>4, <2>2
    <3> QED BY <1>0, <1>3, <2>2, <3>1 DEF CommandsInv, Times
  <2> QED BY <2>1, <2>2
<1> QED
  BY <1>9, <1>10, <1>11, <1>12, <1>13, <1>14, <1>19, <1>20, <1>21 DEF CommandsInv

(* A run without work stops.                                                *)
LEMMA NothingToDeliver ==
    ASSUME CommandsInv, NEW w \in Runs, run[w].phase \in {"resting", "delivering"}, ClaimDeliveries(w, {})
    PROVE  CommandsInv'
<1>1. command' = command
  BY DEF ClaimDeliveries, CommandsInv, AdminTypeOK
<1>2. UNCHANGED faults
  BY DEF ClaimDeliveries, Lapses
<1>3. UNCHANGED <<script, asked, seat, effects, shown, enabled>>
  BY DEF ClaimDeliveries
<1>4. \E phase \in {"resting", "over"} : Becomes(w, [NoRun EXCEPT !.phase = phase])
  BY DEF ClaimDeliveries, Stopped
<1> PICK phase \in {"resting", "over"} : Becomes(w, [NoRun EXCEPT !.phase = phase])
  BY <1>4
<1> QED BY <1>1, <1>2, <1>3, IdleMoves

(* A run notes how a delivery went.                                         *)
LEMMA NoteKeeps == ASSUME CommandsInv, NEW w \in Runs, Note(w) PROVE CommandsInv'
<1>0. /\ AdminTypeOK /\ RunFits(w) /\ DoneSoFar(w) /\ run[w].phase = "noting"
      /\ faults \in Nat /\ MaxAttempts \in Nat /\ UNCHANGED <<script, asked, seat, effects, shown, enabled>>
  BY CommandConstants DEF CommandsInv, Note, At, AdminTypeOK
<1> PICK j \in DOMAIN run[w].claims : j = run[w].current
  BY <1>0 DEF RunFits
<1> PICK outcome \in {Only("sent"), Only("failed")} : outcome = run[w].outcome
  BY <1>0 DEF RunFits
<1>1. /\ j \in Sources /\ command[j].result # NoResult /\ command[j] # NoCommand /\ command[j] \in CommandRows
      /\ command[j].deliveries \in Nat /\ command[j].attempts \in Nat /\ RowFits(command[j])
      /\ command[j].status \in Ended
  <2>1. j \in Sources
    BY <1>0, RunTypes
  <2>2. command[j].result # NoResult
    BY <1>0, <2>1 DEF CommandsInv, RunIsAcknowledged, ResultPhases
  <2> QED BY <1>0, <2>1, <2>2, RowTypes DEF CommandsInv, RowFits
<1>2. CASE Faulty /\ Becomes(w, Stopped(w)) /\ UNCHANGED command
  BY <1>0, <1>2, StopKeeps
<1> DEFINE rest == [i \in DOMAIN run[w].claims \ {j} |-> run[w].claims[i]]
           next == IF DOMAIN rest = {} THEN Stopped(w) ELSE [NoRun EXCEPT !.phase = "sending", !.claims = rest]
           status == DeliveryStatus(j, outcome)
<1>3. CASE /\ IF DeliveryClaimed(w, j) THEN command' = [command EXCEPT ![j].delivery = status] ELSE UNCHANGED command
           /\ Becomes(w, next) /\ UNCHANGED faults
  <2>1. /\ run'[w] = next /\ \A v \in Runs : v # w => run'[v] = run[v]
        /\ DOMAIN next.claims = DOMAIN run[w].claims \ {j} /\ next \in RunStates
        /\ \A i \in DOMAIN next.claims : next.claims[i] = run[w].claims[i]
        /\ next.phase \in {"resting", "over", "sending"}
        /\ (next.phase \in {"resting", "over"} => DOMAIN next.claims = {})
    <3>1. run'[w] = next /\ \A v \in Runs : v # w => run'[v] = run[v]
      BY <1>0, <1>3 DEF Becomes, AdminTypeOK
    <3>2. DOMAIN rest \subseteq Sources /\ rest \in [DOMAIN rest -> Tries] /\ DOMAIN rest = DOMAIN run[w].claims \ {j}
      BY <1>0, RunTypes
    <3>3. rest \in UNION {[S -> Tries] : S \in SUBSET Sources}
      BY <3>2, RunStateTypes
    <3>4. CASE DOMAIN rest = {}
      <4>1. next = Stopped(w)
        BY <3>4
      <4>2. Stopped(w) \in RunStates /\ Stopped(w).phase \in {"resting", "over"} /\ DOMAIN Stopped(w).claims = {}
        BY RestTypes DEF Stopped, RunStates
      <4> HIDE DEF next, rest
      <4> QED BY <3>1, <3>2, <3>4, <4>1, <4>2
    <3>5. CASE DOMAIN rest # {}
      <4>1. next = [NoRun EXCEPT !.phase = "sending", !.claims = rest]
        BY <3>5
      <4>2. \A i \in DOMAIN rest : rest[i] = run[w].claims[i]
        OBVIOUS
      <4> HIDE DEF next, rest, NoRun
      <4>3. next.claims = rest /\ next.phase = "sending" /\ next \in RunStates
        BY <3>3, <4>1, RestTypes DEF RunStates
      <4> QED BY <3>1, <3>2, <4>2, <4>3
    <3> QED BY <3>4, <3>5
  <2>2. run' = [run EXCEPT ![w] = next]
    BY <1>3 DEF Becomes
  <2>3. /\ status \in {"SENT", "FAILED", "RETRY"}
        /\ (status = "SENT" <=> outcome = Only("sent"))
        /\ (status = "RETRY" => command[j].deliveries < MaxAttempts)
    BY <1>0, <1>1 DEF DeliveryStatus
  <2> HIDE DEF next, status, rest
  <2>4. DOMAIN run'[w].claims = DOMAIN run[w].claims \ {j} /\ run'[w].phase \in {"resting", "over", "sending"}
        /\ \A i \in DOMAIN run'[w].claims : run'[w].claims[i] = run[w].claims[i] /\ i # j /\ i \in Sources
        /\ (run'[w].phase \in {"resting", "over"} => DOMAIN run'[w].claims = {})
    BY <1>0, <2>1, RunTypes
  <2>5. /\ \A i \in Sources : i # j => command'[i] = command[i]
        /\ ~DeliveryClaimed(w, j) => command' = command
        /\ DeliveryClaimed(w, j) => command'[j] = [command[j] EXCEPT !.delivery = status]
        /\ DeliveryClaimed(w, j) => command' = [command EXCEPT ![j] = command'[j]]
    BY <1>0, <1>1, <1>3 DEF AdminTypeOK
  <2>6. DeliveryClaimed(w, j) =>
           /\ command'[j] \in CommandRows /\ command'[j] # NoCommand /\ RowFits(command'[j])
           /\ command'[j].delivery = status /\ command[j].delivery = "SENDING"
           /\ command'[j].handshake = command[j].handshake /\ command'[j].execution = command[j].execution
           /\ command'[j].reason = command[j].reason /\ command'[j].attempts = command[j].attempts
           /\ command'[j].deliveries = command[j].deliveries
           /\ command'[j].result = command[j].result /\ command'[j].status = command[j].status
    <3> SUFFICES ASSUME DeliveryClaimed(w, j)
                 PROVE  /\ command'[j] \in CommandRows /\ command'[j] # NoCommand /\ RowFits(command'[j])
                        /\ command'[j].delivery = status /\ command[j].delivery = "SENDING"
                        /\ command'[j].handshake = command[j].handshake /\ command'[j].execution = command[j].execution
                        /\ command'[j].reason = command[j].reason /\ command'[j].attempts = command[j].attempts
                        /\ command'[j].deliveries = command[j].deliveries
                        /\ command'[j].result = command[j].result /\ command'[j].status = command[j].status
      OBVIOUS
    <3>1. command'[j] = [command[j] EXCEPT !.delivery = status] /\ command[j] \in CommandRows
          /\ status \in {None, "PENDING", "RETRY", "SENDING", "SENT", "FAILED"}
      BY <1>1, <2>3, <2>5
    <3>2. /\ command'[j].handshake = command[j].handshake /\ command'[j].execution = command[j].execution
          /\ command'[j].reason = command[j].reason /\ command'[j].attempts = command[j].attempts
          /\ command'[j].deliveries = command[j].deliveries /\ command'[j].delivery = status
          /\ command'[j].result = command[j].result /\ command'[j].status = command[j].status
      BY <3>1 DEF CommandRows
    <3>3. command'[j] \in CommandRows
      BY <3>1 DEF CommandRows
    <3>4. command'[j] # NoCommand
      BY <3>3 DEF CommandRows, NoCommand, None
    <3>5. RowFits(command'[j])
      BY <1>1, <2>3, <3>2 DEF RowFits, None
    <3> QED BY <3>2, <3>3, <3>4, <3>5 DEF DeliveryClaimed
  <2>7. \A i \in Sources : /\ command'[i].handshake = command[i].handshake /\ command'[i].execution = command[i].execution
                           /\ command'[i].reason = command[i].reason /\ command'[i].attempts = command[i].attempts
                           /\ command'[i].deliveries = command[i].deliveries
                           /\ command'[i].result = command[i].result /\ command'[i].status = command[i].status
                           /\ command'[i] = NoCommand <=> command[i] = NoCommand
                           /\ (command'[i] # NoCommand => RowFits(command'[i]))
    BY <1>1, <2>5, <2>6 DEF CommandsInv
  <2>8. AdminTypeOK'
    <3>1. run' \in [Runs -> RunStates]
      BY <1>0, <2>1, <2>2 DEF AdminTypeOK
    <3>2. command' \in [Sources -> CommandRows \cup {NoCommand}]
      BY <1>0, <2>5, <2>6 DEF AdminTypeOK
    <3> QED BY <1>0, <1>3, <3>1, <3>2 DEF AdminTypeOK
  <2>9. \A v \in Runs : RunFits(v)' /\ DoneSoFar(v)'
    <3>1. RunFits(w)' /\ DoneSoFar(w)'
      BY <2>4 DEF RunFits, DoneSoFar
    <3>2. ASSUME NEW v \in Runs, v # w PROVE RunFits(v)' /\ DoneSoFar(v)'
      <4>1. RunFits(v) /\ DoneSoFar(v)
        BY DEF CommandsInv
      <4>2. run[v].phase = "noting" => run[v].current \in Sources
        BY <1>0, <4>1, RunTypes DEF RunFits
      <4> QED BY <1>0, <2>1, <2>7, <3>2, <4>1, <4>2 DEF RunFits, DoneSoFar
    <3> QED BY <3>1, <3>2
  <2>10. \A i \in Sources : (Claimed(i)' => Claimed(i)) /\ ClaimsFit(i)'
    <3>1. \A v \in Runs : /\ DOMAIN run'[v].claims \subseteq DOMAIN run[v].claims
                          /\ \A i \in DOMAIN run'[v].claims :
                                /\ run'[v].claims[i] = run[v].claims[i]
                                /\ run'[v].phase \in JobPhases => run[v].phase \in JobPhases
                                /\ run'[v].phase \in ResultPhases => run[v].phase \in ResultPhases
      BY <1>0, <2>1, <2>4 DEF JobPhases, ResultPhases
    <3>2. \A i \in Sources : Claimed(i)' => Claimed(i)
      BY <3>1 DEF Claimed
    <3> QED BY <2>7, <3>1, <3>2 DEF CommandsInv, ClaimsFit
  <2>11. (\A i \in Sources : RowIsAskedFor(i)' /\ RunIsAcknowledged(i)') /\ DeferredIsMine'
    <3>1. \A i \in Sources : Claimed(i)' => command[i].handshake = "ACKNOWLEDGED"
      BY <2>10 DEF CommandsInv, RunIsAcknowledged
    <3>2. ASSUME NEW v \in Runs, run'[v].phase \in ResultPhases
          PROVE  \A i \in DOMAIN run'[v].claims : i \in Sources => command'[i].result # NoResult
      BY <1>0, <2>1, <2>4, <2>7, <3>2 DEF CommandsInv, RunIsAcknowledged, ResultPhases
    <3>3. DeferredIsMine'
      BY <1>0, <2>7, ScriptFacts DEF CommandsInv, DeferredIsMine
    <3> QED BY <1>0, <2>7, <3>1, <3>2, <3>3, RunFrame
  <2>12. \A i \in Sources, v \in Runs : HoldsJob(v, i)' <=> HoldsJob(v, i)
    BY <1>0, <2>1, <2>4, <2>7 DEF HoldsJob
  <2>13. \A i \in Sources, v \in Runs : (v # w \/ i # j) => (HoldsDelivery(v, i)' <=> HoldsDelivery(v, i))
    BY <1>0, <2>1, <2>4, <2>7 DEF HoldsDelivery
  <2>14. \A i \in Sources : (i # j => (ResultHeld(i)' <=> ResultHeld(i))) /\ (JobHeld(i)' <=> JobHeld(i))
    BY <2>12, <2>13 DEF JobHeld, ResultHeld
  <2>15. ASSUME NEW i \in Sources PROVE Paid(i)'
    <3>0. Paid(i)
      BY DEF CommandsInv
    <3>1. CASE i # j
      BY <1>3, <2>5, <2>14, <3>0, <3>1 DEF Paid
    <3>2. CASE i = j /\ DeliveryClaimed(w, j)
      BY <1>1, <1>3, <2>3, <2>6, <2>14, <3>0, <3>2 DEF Paid
    <3>3. CASE i = j /\ ~DeliveryClaimed(w, j)
      <4>1. ASSUME command[j].delivery = "SENDING", ResultHeld(j) PROVE ResultHeld(j)'
        <5>1. ~HoldsDelivery(w, j)
          BY <3>3, <4>1 DEF DeliveryClaimed
        <5>2. PICK v \in Runs : HoldsDelivery(v, j)
          BY <4>1 DEF ResultHeld
        <5>3. HoldsDelivery(v, j)'
          BY <1>1, <2>13, <5>1, <5>2
        <5> QED BY <5>3 DEF ResultHeld
      <4> QED BY <1>1, <1>3, <2>5, <2>14, <3>0, <3>3, <4>1 DEF Paid
    <3> QED BY <3>1, <3>2, <3>3
  <2>16. NeverOverclaims'
    BY <1>0, <2>7 DEF CommandsInv, NeverOverclaims
  <2>17. ASSUME NEW i \in Sources, command'[i].delivery = "SENT" PROVE Times(i)' > 0
    <3>1. CASE command[i].delivery = "SENT"
      BY <1>0, <2>7, <3>1 DEF CommandsInv, Times
    <3>2. CASE command[i].delivery # "SENT"
      <4>1. i = j /\ outcome = Only("sent")
        BY <2>3, <2>5, <2>6, <2>17, <3>2
      <4> QED BY <1>0, <2>7, <4>1 DEF DoneSoFar, Times
    <3> QED BY <3>1, <3>2
  <2>18. FaultlessInv'
    <3> SUFFICES ASSUME faults' = 0 PROVE (\A v \in Runs : FaultlessRun(v)') /\ (\A i \in Sources : FaultlessRow(i)')
      BY DEF FaultlessInv
    <3>0. faults = 0 /\ FaultlessRun(w)
      BY <1>3 DEF CommandsInv, FaultlessInv
    <3>1. DeliveryClaimed(w, j) /\ Times(j) = 1 /\ outcome = Only("sent")
      BY <1>0, <3>0 DEF FaultlessRun, DeliveryClaimed, ResultPhases
    <3>2. \A i \in DOMAIN run'[w].claims : Times(i) = 0 /\ HoldsDelivery(w, i) /\ command[i].delivery = "SENDING"
      BY <1>0, <2>4, <3>0 DEF FaultlessRun, ResultPhases
    <3>3. FaultlessRun(w)'
      <4>1. \A i \in DOMAIN run'[w].claims : Times(i)' = 0 /\ HoldsDelivery(w, i)' /\ command'[i].delivery = "SENDING"
        BY <1>0, <2>4, <2>5, <2>13, <3>2 DEF Times
      <4> QED BY <2>4, <4>1 DEF FaultlessRun, JobPhases
    <3>4. ASSUME NEW v \in Runs, v # w PROVE FaultlessRun(v)'
      <4>1. FaultlessRun(v)
        BY <3>0 DEF CommandsInv, FaultlessInv
      <4>2. \A i \in DOMAIN run[v].claims : i \in Sources /\ i # j
        BY <1>0, <3>0, <3>4, FaultlessAlone, RunTypes
      <4>3. \A i \in DOMAIN run[v].claims :
               /\ command'[i] = command[i] /\ effects'[i] = effects[i] /\ Times(i)' = Times(i)
               /\ HoldsJob(v, i)' <=> HoldsJob(v, i)
               /\ HoldsDelivery(v, i)' <=> HoldsDelivery(v, i)
        BY <1>0, <2>5, <2>12, <2>13, <4>2 DEF Times
      <4>4. run'[v] = run[v]
        BY <2>1, <3>4
      <4> QED BY <4>1, <4>3, <4>4 DEF FaultlessRun
    <3>5. ASSUME NEW i \in Sources, i # j PROVE FaultlessRow(i)'
      <4>1. FaultlessRow(i)
        BY <3>0 DEF CommandsInv, FaultlessInv
      <4> QED BY <1>0, <2>5, <2>14, <3>5, <4>1 DEF FaultlessRow, Times
    <3>6. FaultlessRow(j)'
      <4>1. FaultlessRow(j)
        BY <1>1, <3>0 DEF CommandsInv, FaultlessInv
      <4>2. Times(j)' = 1 /\ command'[j].delivery = "SENT"
        BY <1>0, <1>1, <2>3, <2>6, <3>1 DEF Times
      <4> QED BY <1>0, <1>1, <2>6, <3>1, <4>1, <4>2 DEF FaultlessRow, Ended
    <3> QED BY <3>3, <3>4, <3>5, <3>6
  <2> QED
    BY <2>7, <2>8, <2>9, <2>10, <2>11, <2>15, <2>16, <2>17, <2>18 DEF CommandsInv
<1>4. \/ /\ IF DeliveryClaimed(w, j) THEN command' = [command EXCEPT ![j].delivery = status] ELSE UNCHANGED command
         /\ Becomes(w, next) /\ UNCHANGED faults
      \/ Faulty /\ Becomes(w, Stopped(w)) /\ UNCHANGED command
  BY DEF Note
<1> QED BY <1>2, <1>3, <1>4

(* No step leaves the states of the invariant.                              *)
LEMMA CommandsKeep == CommandsInv /\ [AdminNext]_adminVars => CommandsInv'
<1> SUFFICES ASSUME CommandsInv, [AdminNext]_adminVars PROVE CommandsInv'
  OBVIOUS
<1>1. CASE UNCHANGED adminVars
  BY <1>1 DEF adminVars, CommandsInv, AdminTypeOK, RunFits, DoneSoFar, RowIsAskedFor, RunIsAcknowledged, Claimed, Touched,
              Settled, ClaimsFit, Paid, JobHeld, ResultHeld, HoldsJob, HoldsDelivery, FaultlessInv, FaultlessRun, FaultlessRow,
              Times, DeferredIsMine, NeverOverclaims
<1>2. CASE \/ \E r \in AdminRequests : Prepare(r) \/ Activate(r) \/ PreparationFails(r) \/ TimesOut(r)
           \/ SiteCancels \/ MoveFence
  BY <1>2, RequestsKeep
<1>3. CASE DeleteExpiredCommand
  BY <1>3, DeletionKeeps
<1>4. ASSUME NEW w \in Runs, RunsOn(w) PROVE CommandsInv'
  <2>1. CASE Dispatch(w) \/ DispatchRefused(w)
    BY <2>1, DispatchKeeps
  <2>2. CASE Execute(w)
    BY <2>2, ExecuteKeeps
  <2>3. CASE Finish(w)
    BY <2>3, FinishKeeps
  <2>4. CASE CronDelivers(w)
    <3>1. PICK claimed \in SUBSET {j \in Sources : Deliverable(j)} : ClaimDeliveries(w, claimed)
      BY <2>4 DEF CronDelivers
    <3>2. run[w].phase \in {"resting", "delivering"}
      BY <2>4 DEF CronDelivers
    <3>3. claimed \in SUBSET Sources /\ \A j \in claimed : Deliverable(j)
      OBVIOUS
    <3> QED BY <3>1, <3>2, <3>3, NothingToDeliver, ClaimOfResultsKeeps
  <2>5. CASE DeliverExact(w)
    <3>1. run[w].phase \in {"resting", "delivering"} /\ script[w].source \in Sources
      BY <2>5, ScriptFacts DEF DeliverExact, At, CommandsInv
    <3>2. CASE ClaimDeliveries(w, {})
      BY <3>1, <3>2, NothingToDeliver
    <3>3. CASE DeliverableNow(script[w].source) /\ ClaimDeliveries(w, {script[w].source})
      <4>1. Deliverable(script[w].source)
        BY <3>3 DEF DeliverableNow, Deliverable
      <4> DEFINE claimed == {script[w].source}
      <4>2. claimed \in SUBSET Sources /\ claimed # {} /\ \A j \in claimed : Deliverable(j)
        BY <3>1, <4>1
      <4>3. ClaimDeliveries(w, claimed)
        BY <3>3
      <4> HIDE DEF claimed
      <4> QED BY <3>1, <4>2, <4>3, ClaimOfResultsKeeps
    <3> QED BY <2>5, <3>2, <3>3 DEF DeliverExact
  <2>6. CASE Send(w)
    BY <2>6, SendKeeps
  <2>7. CASE Note(w)
    BY <2>7, NoteKeeps
  <2> QED BY <1>4, <2>1, <2>2, <2>3, <2>4, <2>5, <2>6, <2>7 DEF RunsOn
<1>5. ASSUME NEW w \in Runs, AfterAnswer(w) PROVE CommandsInv'
  <2>1. w \in AdminRequests /\ run[w].phase = "resting" /\ script[w].source \in Sources
    BY <1>5, ScriptFacts DEF AfterAnswer, At, CommandsInv
  <2>2. CASE ClaimCommands(w, {script[w].source})
    <3>1. {script[w].source} \in SUBSET Sources
      BY <2>1
    <3> QED BY <2>2, <3>1, ClaimKeeps
  <2>3. CASE /\ Becomes(w, [NoRun EXCEPT !.phase = "delivering"])
             /\ UNCHANGED <<script, asked, command, seat, effects, shown, enabled, faults>>
    BY <2>1, <2>3, IdleMoves
  <2> QED BY <1>5, <2>2, <2>3 DEF AfterAnswer
<1>6. ASSUME NEW w \in Runs, CronClaims(w) PROVE CommandsInv'
  BY <1>6, ClaimKeeps DEF CronClaims
<1>7. ASSUME NEW w \in Runs, RunCrashes(w) PROVE CommandsInv'
  BY <1>7, StopKeeps DEF RunCrashes
<1> QED BY <1>1, <1>2, <1>3, <1>4, <1>5, <1>6, <1>7 DEF AdminNext

(* A result that is recorded stays as it is until its row is removed.       *)
ResultStays ==
    \A j \in Sources : command[j].result # NoResult =>
       \/ command'[j] = NoCommand
       \/ command'[j].result = command[j].result /\ command'[j].status = command[j].status

(* A row that is written while it has no result, and none else.             *)
LEMMA WrittenRow ==
    ASSUME AdminTypeOK, NEW j \in Sources, NEW row, command' = [command EXCEPT ![j] = row],
           command[j].result = NoResult \/ (row.result = command[j].result /\ row.status = command[j].status)
    PROVE  ResultStays
BY DEF ResultStays, AdminTypeOK

(* What a request writes has no result yet.                                 *)
LEMMA RequestsLeaveResults ==
    ASSUME CommandsInv, NEW r \in AdminRequests,
           Prepare(r) \/ Activate(r) \/ PreparationFails(r) \/ TimesOut(r)
    PROVE  ResultStays
<1> PICK j \in Sources : j = script[r].source
  BY ScriptFacts DEF CommandsInv
<1>0. AdminTypeOK /\ command[j] \in CommandRows \cup {NoCommand}
  BY DEF CommandsInv, AdminTypeOK
<1>1. CASE UNCHANGED command
  BY <1>1 DEF ResultStays
<1>2. NoCommand.result = NoResult
  BY DEF NoCommand
<1>3. ASSUME NEW row, WriteCommand(j, row), command[j] = NoCommand \/ command[j].status = "DRAFT"
      PROVE  ResultStays
  <2>1. command[j].result = NoResult
    BY <1>0, <1>2, <1>3, RowTypes DEF CommandsInv, RowFits, Ended, None
  <2> QED BY <1>0, <1>3, <2>1, WrittenRow DEF WriteCommand
<1>4. ASSUME command[j].handshake = "STAGED",
             WriteCommand(j, [command[j] EXCEPT !.handshake = "ACKNOWLEDGED", !.staged = None])
      PROVE  ResultStays
  <2> DEFINE row == [command[j] EXCEPT !.handshake = "ACKNOWLEDGED", !.staged = None]
  <2>1. row.result = command[j].result /\ row.status = command[j].status
    BY <1>0, <1>4, RowTypes DEF CommandRows, None
  <2> HIDE DEF row
  <2>2. command' = [command EXCEPT ![j] = row]
    BY <1>4 DEF WriteCommand, row
  <2> QED BY <1>0, <2>1, <2>2, WrittenRow
<1>5. CASE Prepare(r)
  <2>1. CASE StageReasonDraft(r)
    BY <1>1, <1>3, <2>1 DEF StageReasonDraft
  <2>2. CASE StageCommand(r)
    BY <1>1, <1>3, <2>2 DEF StageCommand
  <2>3. CASE AttachReason(r)
    BY <1>1, <1>3, <2>3 DEF AttachReason, Attachable
  <2> QED BY <1>1, <1>5, <2>1, <2>2, <2>3 DEF Prepare
<1>6. CASE Activate(r)
  BY <1>1, <1>4, <1>6 DEF Activate
<1>7. CASE PreparationFails(r)
  BY <1>1, <1>4, <1>7 DEF PreparationFails
<1>8. CASE TimesOut(r)
  BY <1>1, <1>8 DEF TimesOut
<1> QED BY <1>5, <1>6, <1>7, <1>8

(* What a run writes leaves the results that are there.                     *)
LEMMA RunsLeaveResults ==
    ASSUME CommandsInv, NEW w \in Runs, AfterAnswer(w) \/ CronClaims(w) \/ RunsOn(w) \/ RunCrashes(w)
    PROVE  ResultStays
<1>0. AdminTypeOK
  BY DEF CommandsInv
<1>1. CASE UNCHANGED command
  BY <1>1 DEF ResultStays
<1>2. ASSUME NEW claimed \in SUBSET Sources, ClaimCommands(w, claimed) PROVE ResultStays
  <2> SUFFICES ASSUME NEW j \in Sources, command[j].result # NoResult
               PROVE  command'[j].result = command[j].result /\ command'[j].status = command[j].status
    BY DEF ResultStays
  <2>1. command[j].status \in Ended
    BY <1>0, RowTypes DEF CommandsInv, RowFits
  <2>2. j \notin claimed
    BY <1>2, <2>1 DEF ClaimCommands, ClaimableCommand, Ended
  <2> QED BY <1>2, <2>2 DEF ClaimCommands
<1>3. ASSUME NEW claimed \in SUBSET Sources, ClaimDeliveries(w, claimed) PROVE ResultStays
  <2> SUFFICES ASSUME NEW j \in Sources, command[j].result # NoResult
               PROVE  command'[j].result = command[j].result /\ command'[j].status = command[j].status
    BY DEF ResultStays
  <2>1. command[j] \in CommandRows
    BY <1>0, RowTypes
  <2> DEFINE tries == command[j].deliveries + 1
  <2>2. command'[j] \in {command[j], [command[j] EXCEPT !.delivery = "SENDING", !.deliveries = tries]}
    BY <1>3 DEF ClaimDeliveries
  <2> HIDE DEF tries
  <2> QED BY <2>1, <2>2 DEF CommandRows
<1>4. CASE Finish(w)
  <2>1. CASE command' # command
    <3>1. PICK j \in Sources : StillClaimed(w, j) /\ WriteCommand(j, Recorded(j, run[w].outcome))
      <4>1. run[w].current \in Sources
        BY <1>0, <1>4, RunTypes DEF Finish, At, CommandsInv, RunFits
      <4> QED BY <1>4, <2>1, <4>1 DEF Finish
    <3>2. command[j].status = "PROCESSING"
      BY <3>1 DEF StillClaimed
    <3>3. command[j].result = NoResult
      BY <1>0, <3>2, RowTypes DEF CommandsInv, RowFits, Ended, None
    <3> QED BY <1>0, <3>1, <3>3, WrittenRow DEF WriteCommand
  <2> QED BY <1>1, <2>1
<1>5. CASE Note(w)
  <2>1. CASE command' # command
    <3>1. PICK j \in Sources, status \in {"SENT", "FAILED", "RETRY"} :
             DeliveryClaimed(w, j) /\ command' = [command EXCEPT ![j].delivery = status]
      <4>1. run[w].current \in Sources
        BY <1>0, <1>5, RunTypes DEF Note, At, CommandsInv, RunFits
      <4>2. DeliveryStatus(run[w].current, run[w].outcome) \in {"SENT", "FAILED", "RETRY"}
        BY DEF DeliveryStatus
      <4> QED BY <1>5, <2>1, <4>1, <4>2 DEF Note
    <3> DEFINE row == [command[j] EXCEPT !.delivery = status]
    <3>2. command[j] \in CommandRows
      BY <1>0, <3>1, RowTypes DEF DeliveryClaimed, None
    <3>3. row.result = command[j].result /\ row.status = command[j].status
      BY <3>2 DEF CommandRows
    <3>4. command' = [command EXCEPT ![j] = row]
      BY <1>0, <3>1 DEF AdminTypeOK
    <3> HIDE DEF row
    <3> QED BY <1>0, <3>3, <3>4, WrittenRow
  <2> QED BY <1>1, <2>1
<1>6. CASE AfterAnswer(w)
  <2>1. CASE ClaimCommands(w, {script[w].source})
    <3>1. {script[w].source} \in SUBSET Sources
      BY <1>6, ScriptFacts DEF AfterAnswer, CommandsInv
    <3> QED BY <1>2, <2>1, <3>1
  <2> QED BY <1>1, <1>6, <2>1 DEF AfterAnswer
<1>7. CASE CronClaims(w)
  BY <1>2, <1>7 DEF CronClaims
<1>8. CASE CronDelivers(w)
  <2>1. PICK claimed \in SUBSET {j \in Sources : Deliverable(j)} : ClaimDeliveries(w, claimed)
    BY <1>8 DEF CronDelivers
  <2>2. claimed \in SUBSET Sources
    OBVIOUS
  <2> QED BY <1>3, <2>1, <2>2
<1>9. CASE DeliverExact(w)
  <2>1. {script[w].source} \in SUBSET Sources /\ {} \in SUBSET Sources
    BY <1>9, ScriptFacts DEF DeliverExact, CommandsInv
  <2> QED BY <1>3, <1>9, <2>1 DEF DeliverExact
<1>10. CASE Dispatch(w) \/ DispatchRefused(w) \/ Execute(w) \/ Send(w) \/ RunCrashes(w)
  BY <1>1, <1>10 DEF Dispatch, DispatchRefused, Execute, Send, RunCrashes
<1> QED BY <1>4, <1>5, <1>6, <1>7, <1>8, <1>9, <1>10 DEF RunsOn

(* The outcome that was recorded first stays.                               *)
LEMMA ResultsAreFinal == CommandsInv /\ [AdminNext]_adminVars => [ResultStays]_adminVars
<1> SUFFICES ASSUME CommandsInv, AdminNext PROVE ResultStays
  OBVIOUS
<1>1. CASE SiteCancels \/ MoveFence
  BY <1>1 DEF SiteCancels, MoveFence, ResultStays
<1>2. CASE DeleteExpiredCommand
  BY <1>2 DEF DeleteExpiredCommand, ResultStays, CommandsInv, AdminTypeOK
<1> QED BY <1>1, <1>2, RequestsLeaveResults, RunsLeaveResults DEF AdminNext

(* What the invariant says of the commands that are told of.                *)
LEMMA CommandsTellTheTruth ==
    CommandsInv => /\ AdminTypeOK /\ DeferredIsMine /\ UnacknowledgedNeverRuns
                   /\ ToldIsDone /\ NeverOverclaims /\ SentIsShown
<1> SUFFICES ASSUME CommandsInv PROVE UnacknowledgedNeverRuns /\ ToldIsDone /\ SentIsShown
  BY DEF CommandsInv
<1>0. AdminTypeOK
  BY DEF CommandsInv
<1>1. ASSUME NEW j \in Sources, command[j].handshake \in {"AWAITING_REASON", "STAGED"}
      PROVE  effects[j] = 0 /\ command[j].attempts = 0
  <2>1. command[j] # NoCommand /\ RowFits(command[j])
    BY <1>0, <1>1, RowTypes DEF CommandsInv, None
  <2>2. ~Touched(j) /\ effects[j] \in Nat
    BY <1>0, <1>1, <2>1 DEF CommandsInv, RunIsAcknowledged, AdminTypeOK
  <2> QED BY <1>1, <2>1, <2>2 DEF Touched, RowFits
<1>2. ToldIsDone
  BY DEF CommandsInv, FaultlessInv, FaultlessRow, ToldIsDone
<1>3. ASSUME NEW j \in Sources, command[j].result # NoResult, Times(j) > 1 PROVE faults > 0
  <2>1. command[j].delivery \in {"PENDING", "RETRY", "SENDING", "SENT", "FAILED"} /\ faults \in Nat
        /\ RowFits(command[j])
    BY <1>0, <1>3, RowTypes, CommandConstants DEF CommandsInv, RowFits, CommandRows, AdminTypeOK
  <2>2. SUFFICES ASSUME faults = 0 PROVE FALSE
    BY <2>1
  <2>3. FaultlessRow(j)
    BY <2>2 DEF CommandsInv, FaultlessInv
  <2>4. command[j].delivery = "SENDING"
    BY <1>3, <2>1, <2>3 DEF FaultlessRow
  <2>5. PICK w \in Runs : HoldsDelivery(w, j)
    BY <2>3, <2>4 DEF FaultlessRow, ResultHeld
  <2>6. FaultlessRun(w)
    BY <2>2 DEF CommandsInv, FaultlessInv
  <2> QED BY <1>3, <2>5, <2>6 DEF HoldsDelivery, FaultlessRun, ResultPhases
<1> QED BY <1>1, <1>2, <1>3 DEF UnacknowledgedNeverRuns, SentIsShown, CommandsInv

(* A command runs when it was asked for and acknowledged, its result says   *)
(* what it did, stays as it was first recorded, and is shown.               *)
THEOREM CommandsHonesty == AdminSpec => CommandsAreHonest
<1>1. AdminSpec => []CommandsInv
  BY CommandsStart, CommandsKeep, PTL DEF AdminSpec
<1>2. [][AdminNext]_adminVars /\ []CommandsInv => ResultIsFinal
  BY ResultsAreFinal, PTL DEF ResultIsFinal, ResultStays
<1> QED BY <1>1, <1>2, CommandsTellTheTruth, PTL DEF AdminSpec, CommandsAreHonest
=============================================================================
