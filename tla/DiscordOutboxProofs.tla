------------------------- MODULE DiscordOutboxProofs -------------------------
(***************************************************************************)
(* Proofs about DiscordOutbox, for any number of workers, crashes, failed  *)
(* calls and early lapses; and about DiscordMessageReview, the review of a *)
(* message whose fate is unknown, for any number of requests and searches. *)
(***************************************************************************)
EXTENDS DiscordOutbox, DiscordMessageReview, FiniteSetTheorems, TLAPS

(* The revision counts the changes there have been.                        *)
RevisionCounts ==
    /\ row.revision = (IF reservation = "CONFIRMED" THEN 0 ELSE 1)
                        + (IF row.decision = None THEN 0 ELSE 1)
    /\ row.synced <= row.revision

(* What a worker has read, and which outcome it can be about to save.      *)
InOrder(s) ==
    /\ s.phase = "idle" => s.status = Unread /\ s.decision = Unread
    /\ s.phase \in {"leasing", "patching"} => s.status # Unread /\ s.decision # Unread
    /\ s.phase = "saving" => s.outcome \in {"RETRY", "ABANDONED"}
    /\ s.phase = "recording" => s.outcome \in {"SENT", "RETRY", "UNKNOWN"}
    /\ s.phase = "closing" => s.outcome = "ABANDONED"

WorkersOK == worker \in [Workers -> WorkerStates] /\ \A w \in Workers : InOrder(worker[w])

WellFormed == TypeOK /\ RevisionCounts /\ WorkersOK

(* A worker that is about to call Discord holds the row, and no message    *)
(* was created so far; one that is not has no lease.                       *)
PostLease(w) ==
    /\ worker[w].phase \in {"loading", "control", "fencing", "taking", "webhook", "saving"}
         => row.initialClaim # w \/ row.initial # "POSTING"
    /\ worker[w].phase \in {"posting", "calling"}
         => row.initialClaim = w /\ row.initial \in {"POSTING", "PENDING_REVIEW"} /\ posted = 0
    /\ worker[w].phase = "recording" /\ worker[w].outcome = "RETRY"
         => row.initialClaim # w \/ row.initial \notin {"CLAIMED", "POSTING"} \/ posted = 0

PostLeases ==
    /\ row.initial \in {"PENDING", "RETRY", "CLAIMED"} => posted = 0
    /\ \A w \in Workers : PostLease(w)
    /\ posted <= 1

OneMessage == WellFormed /\ PostLeases

(* While its claim and its revision stand, what a worker has read is so,   *)
(* and what it is about to record as shown was acknowledged.               *)
Current(w) ==
    /\ worker[w].phase \in {"reading", "leasing", "patching"}
         /\ SyncClaimIs(w, {"CLAIMED", "PATCHING"})
         => /\ worker[w].status \in {Unread, reservation}
            /\ worker[w].decision \in {Unread, row.decision}
    /\ worker[w].phase = "patchSaving" /\ worker[w].outcome = "SENT" /\ SyncClaimIs(w, {"PATCHING"})
         => Content(reservation, row.decision) \in delivered
    /\ worker[w].phase = "recording" /\ worker[w].outcome = "SENT" => "INITIAL" \in delivered

Delivered == WellFormed /\ (\A w \in Workers : Current(w)) /\ SyncedWasDelivered

-----------------------------------------------------------------------------
LEMMA InitWellFormed == Init => WellFormed
BY OutboxAssumption
   DEF Init, WellFormed, TypeOK, RevisionCounts, WorkersOK, WorkerStates, InOrder, Rows, Idle,
       Statuses, InitialStatuses, SyncStatuses, Revisions, Unread, PostPhases, SyncPhases,
       Contents, None

(* One worker changes, to a state that is in order.                        *)
LEMMA OneWorker ==
    ASSUME WorkersOK, NEW w \in Workers, NEW s \in WorkerStates, InOrder(s),
           worker' = [worker EXCEPT ![w] = s]
    PROVE  WorkersOK' /\ worker'[w] = s /\ \A v \in Workers \ {w} : worker'[v] = worker[v]
<1>1. worker' \in [Workers -> WorkerStates]
  BY DEF WorkersOK
<1>2. worker'[w] = s /\ \A v \in Workers \ {w} : worker'[v] = worker[v]
  BY DEF WorkersOK
<1> QED
  BY <1>1, <1>2 DEF WorkersOK

LEMMA WorkerLeaves ==
    ASSUME WorkersOK, NEW w \in Workers, Leaves(w)
    PROVE  WorkersOK' /\ worker'[w] = Idle /\ \A v \in Workers \ {w} : worker'[v] = worker[v]
<1>1. Idle \in WorkerStates /\ InOrder(Idle)
  BY OutboxAssumption DEF Idle, WorkerStates, InOrder, Revisions, Unread, None
<1> QED
  BY <1>1, OneWorker DEF Leaves

LEMMA WorkerGoes ==
    ASSUME WorkersOK, NEW w \in Workers, NEW phase \in PostPhases \cup SyncPhases, Goes(w, phase),
           phase \in {"leasing", "patching"} => At(w, "leasing"),
           phase \notin {"saving", "recording", "closing"}
    PROVE  WorkersOK' /\ worker'[w] = [worker[w] EXCEPT !.phase = phase]
                      /\ \A v \in Workers \ {w} : worker'[v] = worker[v]
<1> DEFINE s == [worker[w] EXCEPT !.phase = phase]
<1>1. s \in WorkerStates
  BY DEF WorkersOK, WorkerStates
<1>2. InOrder(s)
  BY DEF WorkersOK, WorkerStates, InOrder, At, PostPhases, SyncPhases
<1>3. worker' = [worker EXCEPT ![w] = s]
  BY DEF Goes
<1> HIDE DEF s
<1>4. WorkersOK' /\ worker'[w] = s /\ \A v \in Workers \ {w} : worker'[v] = worker[v]
  BY <1>1, <1>2, <1>3, OneWorker
<1> QED
  BY <1>4 DEF s

Saved(w, phase, outcome) ==
    [Idle EXCEPT !.phase = phase, !.outcome = outcome, !.epoch = worker[w].epoch,
                 !.revision = worker[w].revision, !.attempts = worker[w].attempts]

LEMMA WorkerSaves ==
    ASSUME WorkersOK, NEW w \in Workers,
           NEW phase, NEW outcome, Saves(w, phase, outcome),
           \/ phase = "saving" /\ outcome \in {"RETRY", "ABANDONED"}
           \/ phase = "recording" /\ outcome \in {"SENT", "RETRY", "UNKNOWN"}
           \/ phase = "closing" /\ outcome = "ABANDONED"
           \/ phase = "syncSaving" /\ outcome = "RETRY"
           \/ phase = "patchSaving" /\ outcome \in {"SENT", "RETRY", "UNKNOWN"}
    PROVE  WorkersOK' /\ worker'[w] = Saved(w, phase, outcome)
                      /\ \A v \in Workers \ {w} : worker'[v] = worker[v]
<1> DEFINE s == Saved(w, phase, outcome)
<1>1. s \in WorkerStates
  BY DEF WorkersOK, WorkerStates, Saved, Idle, PostPhases, SyncPhases, Unread
<1>2. InOrder(s)
  BY DEF InOrder, Saved, Idle, Unread
<1>3. worker' = [worker EXCEPT ![w] = s]
  BY DEF Saves, Saved
<1> HIDE DEF s
<1>4. WorkersOK' /\ worker'[w] = s /\ \A v \in Workers \ {w} : worker'[v] = worker[v]
  BY <1>1, <1>2, <1>3, OneWorker
<1> QED
  BY <1>4 DEF s

(* A worker reads the control and goes on.                                 *)
LEMMA WorkerReadsControl ==
    ASSUME WorkersOK, NEW w \in Workers, NEW phase, NEW epoch,
           worker' = [worker EXCEPT ![w].phase = phase, ![w].epoch = epoch]
    PROVE  /\ worker' = [worker EXCEPT ![w] = [worker[w] EXCEPT !.phase = phase, !.epoch = epoch]]
           /\ worker'[w] = [worker[w] EXCEPT !.phase = phase, !.epoch = epoch]
           /\ worker'[w].phase = phase
BY DEF WorkersOK, WorkerStates

(* Where a worker is after a step.                                         *)
LEMMA WorkerMoved ==
    ASSUME WorkersOK, NEW w \in Workers
    PROVE  /\ Leaves(w) => worker'[w].phase = "idle"
           /\ \A phase : Goes(w, phase) => worker'[w].phase = phase
           /\ \A phase, outcome : Saves(w, phase, outcome)
                => worker'[w].phase = phase /\ worker'[w].outcome = outcome
<1>1. Leaves(w) => worker'[w].phase = "idle"
  BY DEF WorkersOK, Leaves, Idle
<1>2. ASSUME NEW phase, Goes(w, phase) PROVE worker'[w].phase = phase
  BY <1>2 DEF WorkersOK, WorkerStates, Goes
<1>3. ASSUME NEW phase, NEW outcome, Saves(w, phase, outcome)
      PROVE  worker'[w].phase = phase /\ worker'[w].outcome = outcome
  BY <1>3 DEF WorkersOK, Saves, Idle
<1> QED
  BY <1>1, <1>2, <1>3

(* No step breaks the order of the workers.                                *)
LEMMA StepWorkers == WellFormed /\ [Next]_vars => WorkersOK'
<1> SUFFICES ASSUME WellFormed, [Next]_vars PROVE WorkersOK'
    OBVIOUS
<1>0. WorkersOK /\ control.epoch \in 0 .. MaxEpoch /\ row \in Rows /\ reservation \in Statuses
  BY DEF WellFormed, TypeOK
<1>1. ASSUME NEW w \in Workers,
             \/ ClaimInitialSend(w) \/ LoadSnapshot(w) \/ CheckFence(w) \/ TakePostLease(w)
             \/ Post(w) \/ BeginWebhook(w) \/ CallWebhook(w) \/ SaveInitialSend(w)
      PROVE  WorkersOK'
  <2>1. \/ Leaves(w)
        \/ \E phase \in PostPhases \ {"saving", "recording", "closing"} : Goes(w, phase)
        \/ \E outcome \in {"RETRY", "ABANDONED"} : Saves(w, "saving", outcome)
        \/ \E outcome \in {"SENT", "RETRY", "UNKNOWN"} : Saves(w, "recording", outcome)
        \/ Saves(w, "closing", "ABANDONED")
    BY <1>1 DEF ClaimInitialSend, LoadSnapshot, CheckFence, TakePostLease, Post, BeginWebhook,
                CallWebhook, SaveInitialSend, PostPhases
  <2> QED
    BY <1>0, <2>1, WorkerLeaves, WorkerGoes, WorkerSaves DEF PostPhases
<1>2. ASSUME NEW w \in Workers, ReadControl(w) PROVE WorkersOK'
  <2>1. CASE control.enabled
    <3> DEFINE s == [worker[w] EXCEPT !.phase = "fencing", !.epoch = control.epoch]
    <3>1. s \in WorkerStates /\ InOrder(s)
      BY <1>0 DEF WorkersOK, WorkerStates, InOrder, PostPhases
    <3>2. worker' = [worker EXCEPT ![w] = s]
      BY <1>0, <1>2, <2>1 DEF ReadControl, WorkersOK, WorkerStates
    <3> QED
      BY <1>0, <3>1, <3>2, OneWorker
  <2>2. CASE ~control.enabled
    BY <1>0, <1>2, <2>2, WorkerSaves DEF ReadControl
  <2> QED
    BY <2>1, <2>2
<1>3. ASSUME NEW w \in Workers, SaveInitialSendThrows(w) PROVE WorkersOK'
  BY <1>0, <1>3, WorkerSaves, WorkerLeaves DEF SaveInitialSendThrows, WorkersOK
<1>4. ASSUME NEW w \in Workers, ClaimMessageSync(w) PROVE WorkersOK'
  <2> DEFINE s == [worker[w] EXCEPT !.phase = "reading", !.revision = row.revision,
                                    !.attempts = OneMoreAttempt]
  <2>1. OneMoreAttempt \in 0 .. MaxSyncAttempts
    BY <1>0, OutboxAssumption DEF OneMoreAttempt, Rows
  <2>2. s \in WorkerStates /\ InOrder(s)
    <3>1. worker[w] \in WorkerStates /\ row.revision \in Revisions
      BY <1>0 DEF WorkersOK, Rows
    <3>2. s \in WorkerStates /\ s.phase = "reading"
      BY <2>1, <3>1 DEF WorkerStates, SyncPhases
    <3> HIDE DEF s
    <3> QED
      BY <3>2 DEF InOrder
  <2>3. worker' = [worker EXCEPT ![w] = s]
    BY <1>0, <1>4 DEF ClaimMessageSync, WorkersOK, WorkerStates
  <2> QED
    BY <1>0, <2>2, <2>3, OneWorker
<1>5. ASSUME NEW w \in Workers, ReadStatus(w) \/ ReadDecision(w) PROVE WorkersOK'
  <2>1. At(w, "reading") /\ worker[w] \in WorkerStates
    BY <1>0, <1>5 DEF ReadStatus, ReadDecision, WorkersOK
  <2>2. \A status \in Statuses : /\ [worker[w] EXCEPT !.status = status] \in WorkerStates
                                 /\ InOrder([worker[w] EXCEPT !.status = status])
    BY <2>1 DEF WorkerStates, InOrder, At
  <2>3. \A decision \in {None, "ACCEPTED"} :
            /\ [worker[w] EXCEPT !.decision = decision] \in WorkerStates
            /\ InOrder([worker[w] EXCEPT !.decision = decision])
    BY <2>1 DEF WorkerStates, InOrder, At
  <2>4. CASE ReadStatus(w)
    BY <1>0, <2>2, <2>4, OneWorker DEF ReadStatus
  <2>5. CASE ReadDecision(w)
    BY <1>0, <2>3, <2>5, OneWorker DEF ReadDecision, Rows
  <2> QED
    BY <1>5, <2>4, <2>5
<1>6. ASSUME NEW w \in Workers, ReadSyncControl(w) PROVE WorkersOK'
  <2> DEFINE s == [worker[w] EXCEPT !.phase = "leasing", !.epoch = control.epoch]
  <2>1. CASE worker' = [worker EXCEPT ![w].phase = "leasing", ![w].epoch = control.epoch]
    <3>1. s \in WorkerStates /\ InOrder(s)
      BY <1>0, <1>6 DEF ReadSyncControl, WorkersOK, WorkerStates, InOrder, SyncPhases
    <3>2. worker' = [worker EXCEPT ![w] = s]
      BY <1>0, <2>1 DEF WorkersOK, WorkerStates
    <3> QED
      BY <1>0, <3>1, <3>2, OneWorker
  <2>2. CASE Saves(w, "syncSaving", "RETRY")
    BY <1>0, <2>2, WorkerSaves
  <2> QED
    BY <1>6, <2>1, <2>2 DEF ReadSyncControl
<1>7. ASSUME NEW w \in Workers,
             \/ ReadFails(w) \/ BeginSyncPatch(w) \/ MarkRejected(w) \/ Patch(w)
             \/ SaveSync(w) \/ SaveSyncThrows(w) \/ Crash(w)
      PROVE  WorkersOK'
  <2>1. \/ Leaves(w)
        \/ At(w, "leasing") /\ \E phase \in {"patching", "rejected"} : Goes(w, phase)
        \/ Saves(w, "syncSaving", "RETRY")
        \/ \E outcome \in {"SENT", "RETRY", "UNKNOWN"} : Saves(w, "patchSaving", outcome)
    BY <1>7 DEF ReadFails, BeginSyncPatch, MarkRejected, Patch, SaveSync, SaveSyncThrows, Crash
  <2> QED
    BY <1>0, <2>1, WorkerLeaves, WorkerGoes, WorkerSaves DEF SyncPhases
<1>8. ASSUME UNCHANGED worker PROVE WorkersOK'
  BY <1>0, <1>8 DEF WorkersOK
<1> QED
  BY <1>1, <1>2, <1>3, <1>4, <1>5, <1>6, <1>7, <1>8
     DEF Next, PostStep, SyncStep, ReconcileExpiredPosts, EndReservation, Accept, Disable,
         Reenable, vars

(* A row that keeps to its types, with a revision that counts.             *)
RowOK(r, status) ==
    /\ r \in Rows
    /\ r.revision = (IF status = "CONFIRMED" THEN 0 ELSE 1) + (IF r.decision = None THEN 0 ELSE 1)
    /\ r.synced <= r.revision

LEMMA RowClaims ==
    ASSUME RowOK(row, reservation), NEW w \in Workers
    PROVE  /\ RowOK([row EXCEPT !.initial = "CLAIMED", !.initialClaim = w], reservation)
           /\ RowOK([row EXCEPT !.initial = "POSTING", !.deadline = TRUE], reservation)
           /\ RowOK([row EXCEPT !.initial = "POSTING"], reservation)
BY DEF RowOK, Rows, InitialStatuses

LEMMA RowSends ==
    ASSUME RowOK(row, reservation), NEW w \in Workers, worker[w].epoch \in 0 .. MaxEpoch,
           NEW outcome \in {"RETRY", "ABANDONED"}
    PROVE  /\ RowOK(InitialSendSucceeds(w), reservation)
           /\ RowOK(InitialSendFails(outcome), reservation)
<1>1. InitialSendSucceeds(w) \in Rows
  BY DEF InitialSendSucceeds, RowOK, Rows, InitialStatuses, SyncStatuses
<1>2. InitialSendFails(outcome) \in Rows
  BY DEF InitialSendFails, RowOK, Rows, InitialStatuses, SyncStatuses
<1> QED
  BY <1>1, <1>2 DEF InitialSendSucceeds, InitialSendFails, RowOK, Rows

LEMMA RowSyncs ==
    ASSUME RowOK(row, reservation), NEW w \in Workers, worker[w].epoch \in 0 .. MaxEpoch
    PROVE  /\ RowOK(SyncFails(w), reservation)
           /\ Leased(w) => RowOK([row EXCEPT !.sync = "SYNCED", !.synced = worker[w].revision,
                                             !.rendered = worker[w].epoch,
                                             !.syncClaim = None, !.claimed = 0], reservation)
<1>1. 0 \in Revisions
  BY DEF Revisions
<1>2. SyncFails(w) \in Rows
  BY <1>1 DEF SyncFails, RowOK, Rows, SyncStatuses
<1>3. RowOK(SyncFails(w), reservation)
  BY <1>2 DEF SyncFails, RowOK, Rows
<1>4. ASSUME Leased(w)
      PROVE  RowOK([row EXCEPT !.sync = "SYNCED", !.synced = worker[w].revision,
                               !.rendered = worker[w].epoch, !.syncClaim = None, !.claimed = 0],
                   reservation)
  <2> DEFINE shown == [row EXCEPT !.sync = "SYNCED", !.synced = worker[w].revision,
                                  !.rendered = worker[w].epoch, !.syncClaim = None, !.claimed = 0]
  <2>1. worker[w].revision = row.revision /\ row.revision \in Revisions
    BY <1>4 DEF Leased, SyncClaimIs, RowOK, Rows
  <2>2. shown \in Rows
    BY <1>1, <2>1 DEF RowOK, Rows, SyncStatuses
  <2>3. shown.revision = row.revision /\ shown.synced = row.revision
        /\ shown.decision = row.decision
    BY <2>1 DEF RowOK, Rows
  <2> HIDE DEF shown
  <2>4. RowOK(shown, reservation)
    BY <2>1, <2>2, <2>3 DEF RowOK, Revisions
  <2> QED
    BY <2>4 DEF shown
<1> QED
  BY <1>3, <1>4

LEMMA RowChanges ==
    ASSUME RowOK(row, reservation), row.revision < 2
    PROVE  /\ NewRevision \in Rows /\ [NewRevision EXCEPT !.decision = "ACCEPTED"] \in Rows
           /\ NewRevision.revision = row.revision + 1
           /\ NewRevision.decision = row.decision
           /\ NewRevision.synced = row.synced
<1>1. 0 \in Revisions /\ row.revision + 1 \in Revisions
  BY DEF RowOK, Rows, Revisions
<1>2. 0 \in 0 .. MaxSyncAttempts
  BY OutboxAssumption
<1>3. NewRevision \in Rows
  BY <1>1, <1>2 DEF NewRevision, RowOK, Rows, SyncStatuses
<1> QED
  BY <1>3 DEF NewRevision, RowOK, Rows

LEMMA StepRow == WellFormed /\ [Next]_vars => RowOK(row, reservation)' /\ reservation' \in Statuses
<1> SUFFICES ASSUME WellFormed, [Next]_vars
             PROVE  RowOK(row, reservation)' /\ reservation' \in Statuses
    OBVIOUS
<1>0. /\ RowOK(row, reservation) /\ reservation \in Statuses
      /\ WorkersOK /\ control.epoch \in 0 .. MaxEpoch
  BY DEF WellFormed, TypeOK, RowOK, RevisionCounts
<1>1. ASSUME NEW w \in Workers, ClaimInitialSend(w) \/ TakePostLease(w) \/ BeginWebhook(w)
      PROVE  RowOK(row, reservation)' /\ reservation' \in Statuses
  BY <1>0, <1>1, RowClaims DEF ClaimInitialSend, TakePostLease, BeginWebhook
<1>2. ASSUME NEW w \in Workers, SaveInitialSend(w)
      PROVE  RowOK(row, reservation)' /\ reservation' \in Statuses
  <2>1. worker[w].epoch \in 0 .. MaxEpoch
        /\ worker[w].outcome \in {"SENT", "UNKNOWN", "RETRY", "ABANDONED"}
    BY <1>0, <1>2 DEF SaveInitialSend, WorkersOK, WorkerStates, InOrder
  <2>2. RowOK([row EXCEPT !.initial = "PENDING_REVIEW"], reservation)
    BY <1>0 DEF RowOK, Rows, InitialStatuses
  <2>3. row' \in {row, InitialSendSucceeds(w), InitialSendFails("RETRY"),
                  InitialSendFails("ABANDONED"), [row EXCEPT !.initial = "PENDING_REVIEW"]}
        /\ reservation' = reservation
    BY <1>2, <2>1 DEF SaveInitialSend, Update
  <2> QED
    BY <1>0, <2>1, <2>2, <2>3, RowSends
<1>3. ASSUME NEW w \in Workers, ClaimMessageSync(w)
      PROVE  RowOK(row, reservation)' /\ reservation' \in Statuses
  <2>1. OneMoreAttempt \in 0 .. MaxSyncAttempts
    BY <1>0, OutboxAssumption DEF OneMoreAttempt, RowOK, Rows
  <2> QED
    BY <1>0, <1>3, <2>1 DEF ClaimMessageSync, RowOK, Rows, SyncStatuses
<1>4. ASSUME NEW w \in Workers, BeginSyncPatch(w) \/ MarkRejected(w)
      PROVE  RowOK(row, reservation)' /\ reservation' \in Statuses
  <2>1. \A status \in {"PATCHING", "PENDING_REVIEW"} :
            RowOK([row EXCEPT !.sync = status], reservation)
    BY <1>0 DEF RowOK, Rows, SyncStatuses
  <2>2. row' \in {row, [row EXCEPT !.sync = "PATCHING"], [row EXCEPT !.sync = "PENDING_REVIEW"]}
        /\ reservation' = reservation
    BY <1>4 DEF BeginSyncPatch, MarkRejected, Update
  <2> QED
    BY <1>0, <2>1, <2>2
<1>5. ASSUME NEW w \in Workers, SaveSync(w)
      PROVE  RowOK(row, reservation)' /\ reservation' \in Statuses
  <2> DEFINE shown == [row EXCEPT !.sync = "SYNCED", !.synced = worker[w].revision,
                                  !.rendered = worker[w].epoch, !.syncClaim = None, !.claimed = 0]
  <2>1. worker[w].epoch \in 0 .. MaxEpoch
    BY <1>0 DEF WorkersOK, WorkerStates
  <2>2. RowOK([row EXCEPT !.sync = "PENDING_REVIEW"], reservation)
    BY <1>0 DEF RowOK, Rows, SyncStatuses
  <2>3. \/ row' = row
        \/ Leased(w) /\ row' = shown
        \/ row' = SyncFails(w)
        \/ row' = [row EXCEPT !.sync = "PENDING_REVIEW"]
    BY <1>5 DEF SaveSync, Update
  <2>4. RowOK(SyncFails(w), reservation) /\ (Leased(w) => RowOK(shown, reservation))
    BY <1>0, <2>1, RowSyncs
  <2>5. reservation' = reservation
    BY <1>5 DEF SaveSync
  <2> HIDE DEF shown
  <2> QED
    BY <1>0, <2>2, <2>3, <2>4, <2>5
<1>6. ASSUME ReconcileExpiredPosts
      PROVE  RowOK(row, reservation)' /\ reservation' \in Statuses
  BY <1>0, <1>6 DEF ReconcileExpiredPosts, RowOK, Rows, InitialStatuses
<1>7. ASSUME EndReservation \/ Accept
      PROVE  RowOK(row, reservation)' /\ reservation' \in Statuses
  <2>1. /\ row.revision < 2 /\ reservation = "CONFIRMED"
        /\ NewRevision \in Rows /\ [NewRevision EXCEPT !.decision = "ACCEPTED"] \in Rows
        /\ NewRevision.revision = row.revision + 1
        /\ NewRevision.decision = row.decision /\ NewRevision.synced = row.synced
    <3>1. row.revision < 2 /\ reservation = "CONFIRMED"
      BY <1>0, <1>7 DEF EndReservation, Accept, RowOK
    <3> QED
      BY <1>0, <3>1, RowChanges
  <2>2. CASE EndReservation
    <3>1. row' = NewRevision /\ reservation' \in {"CANCELLED", "NO_SHOW"}
      BY <2>2 DEF EndReservation
    <3> QED
      BY <1>0, <2>1, <3>1 DEF RowOK, Rows, Revisions, Statuses
  <2>3. CASE Accept
    <3> DEFINE accepted == [NewRevision EXCEPT !.decision = "ACCEPTED"]
    <3>1. row' = accepted /\ reservation' = reservation /\ row.decision = None
      BY <2>3 DEF Accept
    <3>2. accepted.revision = row.revision + 1 /\ accepted.decision # None
          /\ accepted.synced = row.synced
      BY <2>1 DEF Rows, None
    <3>3. accepted \in Rows
      BY <2>1
    <3> HIDE DEF accepted
    <3> QED
      BY <1>0, <2>1, <3>1, <3>2, <3>3 DEF RowOK, Rows, Revisions
  <2> QED
    BY <1>7, <2>2, <2>3
<1>8. ASSUME UNCHANGED <<row, reservation>>
      PROVE  RowOK(row, reservation)' /\ reservation' \in Statuses
  BY <1>0, <1>8
<1> QED
  BY <1>1, <1>2, <1>3, <1>4, <1>5, <1>6, <1>7, <1>8
     DEF Next, PostStep, SyncStep, LoadSnapshot, ReadControl, CheckFence, Post, CallWebhook,
         SaveInitialSendThrows, ReadStatus, ReadDecision, ReadFails, ReadSyncControl, Patch,
         SaveSyncThrows, Crash, Disable, Reenable, vars
(* What a step does to the control, to the channel and to the bounds.      *)
Little ==
    /\ control' = control \/ Disable \/ Reenable
    /\ posted' \in {posted, posted + 1}
    /\ delivered' \subseteq delivered \cup Contents
    /\ crashes' \in 0 .. MaxCrashes /\ failures' \in 0 .. MaxFailures /\ lapses' \in 0 .. MaxLapses

LEMMA StepLittle == WellFormed /\ [Next]_vars => Little
<1> SUFFICES ASSUME WellFormed, [Next]_vars PROVE Little
    OBVIOUS
<1>0. /\ crashes \in 0 .. MaxCrashes /\ failures \in 0 .. MaxFailures /\ lapses \in 0 .. MaxLapses
      /\ {MaxCrashes, MaxFailures, MaxLapses} \subseteq Nat /\ posted \in Nat
  BY OutboxAssumption DEF WellFormed, TypeOK
<1> USE <1>0 DEF Little, bounds
<1>1. ASSUME NEW w \in Workers, ClaimInitialSend(w) \/ ClaimMessageSync(w) \/ Crash(w)
      PROVE  Little
  BY <1>1 DEF ClaimInitialSend, InitialSendClaimableWhere, ClaimMessageSync, SyncClaimableWhere,
              Lapses, Crash
<1>2. ASSUME NEW w \in Workers, LoadSnapshot(w) \/ ReadControl(w) \/ CheckFence(w) \/ TakePostLease(w)
      PROVE  Little
  <2>1. CASE LoadSnapshot(w)
    <3>1. UNCHANGED <<control, posted, delivered, crashes, lapses>> /\ (UNCHANGED failures \/ Fails)
      BY <2>1 DEF LoadSnapshot
    <3> QED
      BY <3>1 DEF Fails
  <2> QED
    BY <1>2, <2>1 DEF ReadControl, CheckFence, TakePostLease
<1>3. ASSUME NEW w \in Workers, Post(w) \/ BeginWebhook(w) \/ CallWebhook(w)
      PROVE  Little
  BY <1>3 DEF Post, BeginWebhook, CallWebhook, Fails, Contents
<1>4. ASSUME NEW w \in Workers, SaveInitialSend(w) \/ SaveInitialSendThrows(w)
      PROVE  Little
  BY <1>4 DEF SaveInitialSend, SaveInitialSendThrows, Fails
<1>5. ASSUME NEW w \in Workers, ReadStatus(w) \/ ReadDecision(w) \/ ReadFails(w) \/ ReadSyncControl(w)
      PROVE  Little
  BY <1>5 DEF ReadStatus, ReadDecision, ReadFails, ReadSyncControl, Fails
<1>6. ASSUME NEW w \in Workers, BeginSyncPatch(w) \/ MarkRejected(w) \/ SaveSync(w) \/ SaveSyncThrows(w)
      PROVE  Little
  BY <1>6 DEF BeginSyncPatch, MarkRejected, SaveSync, SaveSyncThrows, Fails
<1>7. ASSUME NEW w \in Workers, Patch(w) PROVE Little
  <2>1. Content(worker[w].status, worker[w].decision) \in Contents
    BY <1>7 DEF WellFormed, WorkersOK, WorkerStates, InOrder, Patch, At, Content, Contents, Statuses
  <2> QED
    BY <1>7, <2>1 DEF Patch
<1>8. CASE ReconcileExpiredPosts \/ EndReservation \/ Accept \/ Disable \/ Reenable
  BY <1>8 DEF ReconcileExpiredPosts, EndReservation, Accept, Disable, Reenable
<1>9. CASE UNCHANGED vars
  BY <1>9 DEF vars
<1> HIDE DEF Little
<1> QED
  BY <1>1, <1>2, <1>3, <1>4, <1>5, <1>6, <1>7, <1>8, <1>9 DEF Next, PostStep, SyncStep

LEMMA StepWellFormed == WellFormed /\ [Next]_vars => WellFormed'
<1> SUFFICES ASSUME WellFormed, [Next]_vars PROVE WellFormed'
    OBVIOUS
<1>1. RowOK(row, reservation)' /\ reservation' \in Statuses /\ WorkersOK' /\ Little
  BY StepRow, StepWorkers, StepLittle
<1>2. control' \in [enabled : BOOLEAN, epoch : 0 .. MaxEpoch]
  <2>1. control \in [enabled : BOOLEAN, epoch : 0 .. MaxEpoch] /\ MaxEpoch \in Nat
    BY OutboxAssumption DEF WellFormed, TypeOK
  <2>2. control.epoch < MaxEpoch => control.epoch + 1 \in 0 .. MaxEpoch
    BY <2>1
  <2>3. ASSUME Disable \/ Reenable PROVE control' \in [enabled : BOOLEAN, epoch : 0 .. MaxEpoch]
    <3>1. control.epoch < MaxEpoch
      BY <2>3 DEF Disable, Reenable
    <3>2. \E enabled \in BOOLEAN : control' = [enabled |-> enabled, epoch |-> control.epoch + 1]
      BY <2>3 DEF Disable, Reenable
    <3> QED
      BY <2>2, <3>1, <3>2
  <2> QED
    BY <1>1, <2>1, <2>3 DEF Little
<1>3. posted' \in Nat /\ delivered' \subseteq Contents
  BY <1>1 DEF Little, WellFormed, TypeOK
<1> QED
  BY <1>1, <1>2, <1>3 DEF Little, WellFormed, TypeOK, RevisionCounts, RowOK, WorkersOK

(* Every reachable state of the outbox is well typed.                      *)
THEOREM TypeCorrect == Spec => []TypeOK
<1>1. Spec => []WellFormed
  BY InitWellFormed, StepWellFormed, PTL DEF Spec
<1>2. WellFormed => TypeOK
  BY DEF WellFormed
<1> QED
  BY <1>1, <1>2, PTL

-----------------------------------------------------------------------------
LEMMA InitPostLeases == Init => PostLeases
BY DEF Init, Idle, PostLeases, PostLease

LEMMA StepPostLeases == OneMessage /\ [Next]_vars => PostLeases'
<1> SUFFICES ASSUME WellFormed, PostLeases, [Next]_vars PROVE PostLeases'
    BY DEF OneMessage
<1>0. /\ row \in Rows /\ worker \in [Workers -> WorkerStates] /\ posted \in Nat
      /\ \A w \in Workers : worker[w] \in WorkerStates /\ InOrder(worker[w])
  BY DEF WellFormed, TypeOK, WorkersOK
<1> USE <1>0 DEF PostLeases, PostLease, At, Goes, Saves, Leaves, Idle
<1>1. ASSUME NEW w \in Workers, ClaimInitialSend(w) PROVE PostLeases'
  <2>1. /\ row.initial \in {"PENDING", "RETRY", "CLAIMED"}
        /\ row'.initial = "CLAIMED" /\ row'.initialClaim = w
        /\ posted' = posted
    BY <1>1 DEF ClaimInitialSend, InitialSendClaimableWhere, Rows
  <2>2. worker'[w].phase = "loading" /\ \A v \in Workers \ {w} : worker'[v] = worker[v]
    BY <1>1 DEF ClaimInitialSend, WorkerStates
  <2> QED
    BY <2>1, <2>2
<1>2. ASSUME NEW w \in Workers, LoadSnapshot(w) PROVE PostLeases'
  <2>1. /\ worker[w].phase = "loading" /\ UNCHANGED <<row, posted>>
        /\ worker'[w].phase \in {"saving", "control", "webhook"}
        /\ \A v \in Workers \ {w} : worker'[v] = worker[v]
    <3>1. CASE \E outcome \in {"ABANDONED", "RETRY"} : Saves(w, "saving", outcome)
      BY <1>2, <3>1 DEF LoadSnapshot, WorkerStates
    <3>2. CASE \E phase \in {"control", "webhook"} : Goes(w, phase)
      BY <1>2, <3>2 DEF LoadSnapshot, WorkerStates
    <3> QED
      BY <1>2, <3>1, <3>2 DEF LoadSnapshot
  <2> QED
    BY <2>1
<1>3. ASSUME NEW w \in Workers, ReadControl(w) PROVE PostLeases'
  <2>1. /\ worker[w].phase = "control" /\ UNCHANGED <<row, posted>>
        /\ \A v \in Workers \ {w} : worker'[v] = worker[v]
    BY <1>3 DEF ReadControl
  <2>2. worker'[w].phase \in {"fencing", "saving"}
    <3>1. CASE control.enabled
      <4>1. worker' = [worker EXCEPT ![w].phase = "fencing", ![w].epoch = control.epoch]
        BY <1>3, <3>1 DEF ReadControl
      <4> QED
        BY <4>1, WorkerReadsControl DEF WellFormed
    <3>2. CASE ~control.enabled
      <4>1. Saves(w, "saving", "RETRY")
        BY <1>3, <3>2 DEF ReadControl
      <4> HIDE DEF Saves
      <4> QED
        BY <4>1, WorkerMoved DEF WellFormed
    <3> QED
      BY <3>1, <3>2
  <2> QED
    BY <2>1, <2>2
<1>4. ASSUME NEW w \in Workers, CheckFence(w) PROVE PostLeases'
  <2>1. /\ worker[w].phase = "fencing" /\ UNCHANGED <<row, posted>>
        /\ worker'[w].phase \in {"taking", "idle"}
        /\ \A v \in Workers \ {w} : worker'[v] = worker[v]
    BY <1>4 DEF CheckFence, WorkerStates
  <2> QED
    BY <2>1
<1>5. ASSUME NEW w \in Workers, TakePostLease(w) \/ BeginWebhook(w) PROVE PostLeases'
  <2>1. CASE InitialClaimIs(w, {"CLAIMED"})
    <3>1. /\ row.initial = "CLAIMED" /\ row.initialClaim = w /\ posted' = posted
          /\ row'.initial = "POSTING" /\ row'.initialClaim = w
      BY <1>5, <2>1 DEF TakePostLease, BeginWebhook, InitialClaimIs, Rows
    <3>2. /\ worker'[w].phase \in {"posting", "calling"}
          /\ \A v \in Workers \ {w} : worker'[v] = worker[v]
      BY <1>5, <2>1 DEF TakePostLease, BeginWebhook, WorkerStates
    <3> QED
      BY <3>1, <3>2
  <2>2. CASE ~InitialClaimIs(w, {"CLAIMED"})
    BY <1>5, <2>2 DEF TakePostLease, BeginWebhook, WorkerStates
  <2> QED
    BY <2>1, <2>2
<1>6. ASSUME NEW w \in Workers, Post(w) PROVE PostLeases'
  <2>1. /\ worker[w].phase = "posting" /\ UNCHANGED row
        /\ \A v \in Workers \ {w} : worker'[v] = worker[v]
    BY <1>6 DEF Post
  <2>2. /\ worker'[w].phase = "recording"
        /\ posted' \in {posted, posted + 1}
        /\ worker'[w].outcome = "RETRY" => posted' = posted
    <3> HIDE DEF Saves
    <3>1. \/ Saves(w, "recording", "SENT") /\ posted' = posted + 1
          \/ Saves(w, "recording", "UNKNOWN") /\ posted' \in {posted, posted + 1}
          \/ Saves(w, "recording", "RETRY") /\ posted' = posted
      BY <1>6 DEF Post
    <3> QED
      BY <3>1, WorkerMoved DEF WellFormed
  <2> QED
    BY <2>1, <2>2
<1>7. ASSUME NEW w \in Workers, CallWebhook(w) PROVE PostLeases'
  <2>1. /\ worker[w].phase = "calling" /\ UNCHANGED row /\ posted' \in {posted, posted + 1}
        /\ worker'[w].phase = "closing"
        /\ \A v \in Workers \ {w} : worker'[v] = worker[v]
    BY <1>7 DEF CallWebhook, WorkerStates
  <2> QED
    BY <2>1
<1>8. ASSUME NEW w \in Workers, SaveInitialSend(w) PROVE PostLeases'
  <2>1. /\ worker[w].phase \in {"saving", "recording", "closing"} /\ posted' = posted
        /\ worker'[w].phase = "idle"
        /\ \A v \in Workers \ {w} : worker'[v] = worker[v]
    BY <1>8 DEF SaveInitialSend, WorkerStates
  <2>2. \/ row' = row
        \/ /\ InitialClaimIs(w, {"CLAIMED", "POSTING"})
           /\ \/ row'.initial \in {"SENT", "PENDING_REVIEW", "ABANDONED"}
              \/ row'.initial = "RETRY" /\ worker[w].outcome = "RETRY"
    BY <1>8 DEF SaveInitialSend, Update, MayFail, InitialClaimIs, InitialSendSucceeds,
                InitialSendFails, InOrder, Rows
  <2>3. ASSUME InitialClaimIs(w, {"CLAIMED", "POSTING"}), worker[w].outcome = "RETRY"
        PROVE  posted = 0
    BY <2>1, <2>3 DEF InitialClaimIs, InOrder
  <2> QED
    BY <2>1, <2>2, <2>3 DEF InitialClaimIs
<1>9. ASSUME NEW w \in Workers, SaveInitialSendThrows(w) PROVE PostLeases'
  <2>1. UNCHANGED <<row, posted>> /\ \A v \in Workers \ {w} : worker'[v] = worker[v]
    BY <1>9 DEF SaveInitialSendThrows
  <2>2. \/ worker'[w].phase \in {"idle", "closing"}
        \/ worker'[w].phase = "recording" /\ worker'[w].outcome = "UNKNOWN"
        \/ worker'[w].phase = "saving" /\ worker[w].phase = "saving"
    <3> HIDE DEF Saves, Leaves
    <3>1. \/ Saves(w, "recording", "UNKNOWN") \/ Leaves(w)
          \/ worker[w].phase = "saving" /\ Saves(w, "saving", "RETRY")
          \/ worker[w].phase = "closing" /\ UNCHANGED worker
      BY <1>9 DEF SaveInitialSendThrows
    <3> QED
      BY <3>1, WorkerMoved DEF WellFormed
  <2> QED
    BY <2>1, <2>2
<1>10. ASSUME NEW w \in Workers, UNCHANGED posted,
              row' = row \/ (row'.initial = row.initial /\ row'.initialClaim = row.initialClaim),
              \A v \in Workers \ {w} : worker'[v] = worker[v],
              worker'[w].phase \in SyncPhases \cup {"idle"}
       PROVE  PostLeases'
  BY <1>10 DEF SyncPhases
<1>11. ASSUME NEW w \in Workers, ClaimMessageSync(w) \/ SyncStep(w) \/ Crash(w) PROVE PostLeases'
  <2>1. UNCHANGED posted
    BY <1>11 DEF ClaimMessageSync, SyncStep, ReadStatus, ReadDecision, ReadFails, ReadSyncControl,
                 BeginSyncPatch, MarkRejected, Patch, SaveSync, SaveSyncThrows, Crash
  <2>2. row'.initial = row.initial /\ row'.initialClaim = row.initialClaim
    BY <1>11 DEF ClaimMessageSync, SyncStep, ReadStatus, ReadDecision, ReadFails, ReadSyncControl,
                 BeginSyncPatch, MarkRejected, Patch, SaveSync, SaveSyncThrows, Crash, Update,
                 SyncFails, Rows
  <2>3. \A v \in Workers \ {w} : worker'[v] = worker[v]
    BY <1>11 DEF ClaimMessageSync, SyncStep, ReadStatus, ReadDecision, ReadFails, ReadSyncControl,
                 BeginSyncPatch, MarkRejected, Patch, SaveSync, SaveSyncThrows, Crash
  <2>4. worker'[w].phase \in SyncPhases \cup {"idle"}
    <3>1. CASE Leaves(w) \/ \E phase \in SyncPhases : Goes(w, phase)
      BY <3>1 DEF WorkerStates
    <3>2. CASE \E phase \in SyncPhases, outcome \in {"SENT", "RETRY", "UNKNOWN"} :
                   Saves(w, phase, outcome)
      BY <3>2 DEF WorkerStates
    <3>3. CASE ClaimMessageSync(w) \/ ReadStatus(w) \/ ReadDecision(w)
      BY <3>3 DEF ClaimMessageSync, ReadStatus, ReadDecision, WorkerStates, SyncPhases
    <3>4. CASE ReadSyncControl(w)
      <4>1. \/ worker' = [worker EXCEPT ![w].phase = "leasing", ![w].epoch = control.epoch]
            \/ Saves(w, "syncSaving", "RETRY")
        BY <3>4 DEF ReadSyncControl
      <4>2. CASE worker' = [worker EXCEPT ![w].phase = "leasing", ![w].epoch = control.epoch]
        BY <4>2, WorkerReadsControl DEF WellFormed, SyncPhases
      <4>3. CASE Saves(w, "syncSaving", "RETRY")
        BY <4>3 DEF WorkerStates, SyncPhases
      <4> QED
        BY <4>1, <4>2, <4>3
    <3> QED
      BY <1>11, <3>1, <3>3, <3>4, <3>2
         DEF SyncStep, ReadFails, BeginSyncPatch, MarkRejected, Patch, SaveSync, SaveSyncThrows,
             Crash, SyncPhases
  <2> QED
    BY <1>10, <2>1, <2>2, <2>3, <2>4
<1>12. CASE ReconcileExpiredPosts
  BY <1>12 DEF ReconcileExpiredPosts, Rows
<1>13. CASE EndReservation \/ Accept
  <2>1. row'.initial = row.initial /\ row'.initialClaim = row.initialClaim
    BY <1>13 DEF EndReservation, Accept, NewRevision, Rows
  <2> QED
    BY <1>13, <2>1 DEF EndReservation, Accept
<1>14. CASE Disable \/ Reenable \/ UNCHANGED vars
  BY <1>14 DEF Disable, Reenable, vars
<1> QED
  BY <1>1, <1>2, <1>3, <1>4, <1>5, <1>6, <1>7, <1>8, <1>9, <1>11, <1>12, <1>13, <1>14
     DEF Next, PostStep

(* The channel never gets a second message about the reservation.          *)
THEOREM NeverPostedTwice == Spec => []AtMostOneMessage
<1>1. Init => OneMessage
  BY InitWellFormed, InitPostLeases DEF OneMessage
<1>2. OneMessage /\ [Next]_vars => OneMessage'
  BY StepWellFormed, StepPostLeases DEF OneMessage
<1>3. OneMessage => AtMostOneMessage
  BY DEF OneMessage, PostLeases, AtMostOneMessage
<1> QED
  BY <1>1, <1>2, <1>3, PTL DEF Spec

-----------------------------------------------------------------------------
LEMMA InitDelivered == Init => (\A w \in Workers : Current(w)) /\ SyncedWasDelivered
BY DEF Init, Idle, Current, SyncedWasDelivered

(* A worker that does not move has no claim that it did not have before.   *)
Stands(w) ==
    /\ worker'[w] = worker[w]
    /\ SyncClaimIs(w, {"CLAIMED", "PATCHING"})'
         => SyncClaimIs(w, {"CLAIMED", "PATCHING"}) /\ reservation' = reservation
                                                    /\ row'.decision = row.decision
    /\ SyncClaimIs(w, {"PATCHING"})' => SyncClaimIs(w, {"PATCHING"})

LEMMA StandsStaysCurrent ==
    ASSUME NEW w \in Workers, Current(w), Stands(w), delivered \subseteq delivered'
    PROVE  Current(w)'
BY DEF Current, Stands, SyncClaimIs

(* A step that neither changes the row nor the reservation.                *)
LEMMA RowStays ==
    ASSUME Delivered, UNCHANGED <<row, reservation>>, delivered \subseteq delivered'
    PROVE  /\ SyncedWasDelivered'
           /\ \A v \in Workers : worker'[v] = worker[v] => Current(v)'
<1>1. \A v \in Workers : worker'[v] = worker[v] => Stands(v)
  BY DEF Stands, SyncClaimIs
<1>2. SyncedWasDelivered'
  BY DEF Delivered, SyncedWasDelivered
<1> QED
  BY <1>1, <1>2, StandsStaysCurrent DEF Delivered

(* A step that changes only the initial send of the row.                   *)
LEMMA SyncStays ==
    ASSUME Delivered, UNCHANGED <<reservation, delivered>>,
           row'.sync = row.sync, row'.syncClaim = row.syncClaim, row'.revision = row.revision,
           row'.claimed = row.claimed, row'.decision = row.decision, row'.synced = row.synced
    PROVE  /\ SyncedWasDelivered'
           /\ \A v \in Workers : worker'[v] = worker[v] => Current(v)'
<1>1. \A v \in Workers : worker'[v] = worker[v] => Stands(v)
  BY DEF Stands, SyncClaimIs
<1>2. SyncedWasDelivered'
  BY DEF Delivered, SyncedWasDelivered
<1> QED
  BY <1>1, <1>2, StandsStaysCurrent DEF Delivered

(* A step that takes the claim from whoever has it.                        *)
LEMMA ClaimIsVoid ==
    ASSUME Delivered, UNCHANGED delivered, row'.sync \notin {"CLAIMED", "PATCHING"}
    PROVE  \A v \in Workers : worker'[v] = worker[v] => Current(v)'
<1>1. \A v \in Workers : worker'[v] = worker[v] => Stands(v)
  BY DEF Stands, SyncClaimIs
<1> QED
  BY <1>1, StandsStaysCurrent DEF Delivered

(* ... or that leaves it with w, or gives it to w.                         *)
LEMMA ClaimIsMine ==
    ASSUME Delivered, UNCHANGED delivered, NEW w \in Workers, row'.syncClaim = w
    PROVE  \A v \in Workers \ {w} : worker'[v] = worker[v] => Current(v)'
<1>1. \A v \in Workers \ {w} : worker'[v] = worker[v] => Stands(v)
  BY DEF Stands, SyncClaimIs
<1> QED
  BY <1>1, StandsStaysCurrent DEF Delivered

LEMMA StepDelivered ==
    Delivered /\ [Next]_vars => (\A w \in Workers : Current(w)') /\ SyncedWasDelivered'
<1> DEFINE Goal == (\A w \in Workers : Current(w)') /\ SyncedWasDelivered'
<1> SUFFICES ASSUME Delivered, [Next]_vars PROVE Goal
    OBVIOUS
<1>0. /\ WellFormed /\ WorkersOK /\ row \in Rows /\ worker \in [Workers -> WorkerStates]
      /\ \A w \in Workers : worker[w] \in WorkerStates /\ InOrder(worker[w]) /\ Current(w)
  BY DEF Delivered, WellFormed, TypeOK, WorkersOK
<1>1. ASSUME NEW w \in Workers, UNCHANGED <<row, reservation, delivered>>,
             \A v \in Workers \ {w} : worker'[v] = worker[v],
             worker'[w].phase = "recording" => worker'[w].outcome # "SENT",
             worker'[w].phase = "patchSaving" => worker'[w].outcome # "SENT",
             worker'[w].phase \notin {"reading", "leasing", "patching"}
      PROVE  Goal
  <2>1. Current(w)'
    BY <1>1 DEF Current
  <2> QED
    BY <1>1, <2>1, RowStays
<1>2. ASSUME NEW w \in Workers,
             \/ LoadSnapshot(w) \/ ReadControl(w) \/ CheckFence(w) \/ CallWebhook(w)
             \/ SaveInitialSendThrows(w) \/ ReadFails(w) \/ SaveSyncThrows(w) \/ Crash(w)
      PROVE  Goal
  <2>1. UNCHANGED <<row, reservation, delivered>>
    BY <1>2 DEF LoadSnapshot, ReadControl, CheckFence, CallWebhook, SaveInitialSendThrows,
                ReadFails, SaveSyncThrows, Crash
  <2>2. CASE LoadSnapshot(w) \/ ReadControl(w) \/ CheckFence(w)
    <3>1. \/ Leaves(w) \/ Goes(w, "control") \/ Goes(w, "webhook") \/ Goes(w, "taking")
          \/ worker' = [worker EXCEPT ![w].phase = "fencing", ![w].epoch = control.epoch]
          \/ Saves(w, "saving", "RETRY") \/ Saves(w, "saving", "ABANDONED")
      BY <2>2 DEF LoadSnapshot, ReadControl, CheckFence
    <3>2. worker'[w].phase \in {"idle", "control", "webhook", "taking", "fencing", "saving"}
      BY <1>0, <3>1, WorkerMoved, WorkerReadsControl
    <3>3. \A v \in Workers \ {w} : worker'[v] = worker[v]
      BY <1>0, <3>1 DEF Leaves, Goes, Saves
    <3> QED
      BY <1>1, <2>1, <3>2, <3>3
  <2>3. CASE \/ CallWebhook(w) \/ SaveInitialSendThrows(w) \/ ReadFails(w) \/ SaveSyncThrows(w)
             \/ Crash(w)
    <3>1. \/ Leaves(w)
          \/ UNCHANGED worker /\ worker[w].phase = "closing"
          \/ Saves(w, "closing", "ABANDONED") \/ Saves(w, "recording", "UNKNOWN")
          \/ Saves(w, "saving", "RETRY") \/ Saves(w, "syncSaving", "RETRY")
          \/ Saves(w, "patchSaving", "UNKNOWN")
      <4>1. CASE SaveInitialSendThrows(w)
        BY <4>1 DEF SaveInitialSendThrows, At
      <4> QED
        BY <2>3, <4>1 DEF CallWebhook, ReadFails, SaveSyncThrows, Crash
    <3>2. \/ worker'[w].phase \in {"idle", "closing", "saving", "syncSaving"}
          \/ worker'[w].phase \in {"recording", "patchSaving"} /\ worker'[w].outcome = "UNKNOWN"
      BY <1>0, <3>1, WorkerMoved
    <3>3. \A v \in Workers \ {w} : worker'[v] = worker[v]
      BY <1>0, <3>1 DEF Leaves, Saves
    <3> QED
      BY <1>1, <2>1, <3>2, <3>3
  <2> QED
    BY <1>2, <2>2, <2>3
<1>3. ASSUME NEW w \in Workers, ClaimInitialSend(w) \/ TakePostLease(w) \/ BeginWebhook(w)
      PROVE  Goal
  <2>1. /\ UNCHANGED <<reservation, delivered>>
        /\ row'.sync = row.sync /\ row'.syncClaim = row.syncClaim
        /\ row'.revision = row.revision /\ row'.claimed = row.claimed
        /\ row'.decision = row.decision /\ row'.synced = row.synced
    BY <1>0, <1>3 DEF ClaimInitialSend, TakePostLease, BeginWebhook, Rows
  <2>2. \A v \in Workers \ {w} : worker'[v] = worker[v]
    BY <1>0, <1>3 DEF ClaimInitialSend, TakePostLease, BeginWebhook, Goes, Leaves
  <2>3. worker'[w].phase \in {"loading", "posting", "calling", "idle"}
    BY <1>0, <1>3, WorkerMoved DEF ClaimInitialSend, TakePostLease, BeginWebhook
  <2>4. Current(w)'
    BY <2>3 DEF Current
  <2> QED
    BY <2>1, <2>2, <2>4, SyncStays
<1>4. ASSUME NEW w \in Workers, Post(w) PROVE Goal
  <2>1. /\ UNCHANGED <<row, reservation>> /\ delivered \subseteq delivered'
        /\ \A v \in Workers \ {w} : worker'[v] = worker[v]
    BY <1>0, <1>4 DEF Post, Saves
  <2>2. \/ Saves(w, "recording", "SENT") /\ "INITIAL" \in delivered'
        \/ \E outcome \in {"RETRY", "UNKNOWN"} : Saves(w, "recording", outcome)
    BY <1>4 DEF Post
  <2>3. /\ worker'[w].phase = "recording"
        /\ worker'[w].outcome = "SENT" => "INITIAL" \in delivered'
    BY <1>0, <2>2, WorkerMoved
  <2>4. Current(w)'
    BY <2>3 DEF Current
  <2> QED
    BY <2>1, <2>4, RowStays
<1>5. ASSUME NEW w \in Workers, SaveInitialSend(w) PROVE Goal
  <2>1. /\ UNCHANGED <<reservation, delivered>> /\ Leaves(w)
        /\ \A v \in Workers \ {w} : worker'[v] = worker[v]
    BY <1>0, <1>5 DEF SaveInitialSend, Leaves
  <2>2. Current(w)'
    BY <1>0, <2>1, WorkerMoved DEF Current
  <2>3. \/ row' = row \/ row' = [row EXCEPT !.initial = "PENDING_REVIEW"]
        \/ row' = InitialSendFails("RETRY") \/ row' = InitialSendFails("ABANDONED")
        \/ row' = InitialSendSucceeds(w) /\ worker[w].outcome = "SENT"
    BY <1>0, <1>5 DEF SaveInitialSend, Update, InOrder
  <2>4. CASE \/ row' = row \/ row' = [row EXCEPT !.initial = "PENDING_REVIEW"]
             \/ row' = InitialSendFails("RETRY")
    <3>1. /\ row'.sync = row.sync /\ row'.syncClaim = row.syncClaim
          /\ row'.revision = row.revision /\ row'.claimed = row.claimed
          /\ row'.decision = row.decision /\ row'.synced = row.synced
      BY <1>0, <2>4 DEF InitialSendFails, Rows
    <3> QED
      BY <2>1, <2>2, <3>1, SyncStays
  <2>5. CASE row' = InitialSendFails("ABANDONED")
    <3>1. row'.sync = "ABANDONED"
      BY <1>0, <2>5 DEF InitialSendFails, Rows
    <3> QED
      BY <2>1, <2>2, <3>1, ClaimIsVoid DEF SyncedWasDelivered
  <2>6. CASE row' = InitialSendSucceeds(w) /\ worker[w].outcome = "SENT"
    <3>1. /\ row'.sync = IF row.revision = 0 THEN "SYNCED" ELSE "PENDING"
          /\ row'.revision = row.revision /\ row'.synced = row.synced
          /\ row'.decision = row.decision
      BY <1>0, <2>6 DEF InitialSendSucceeds, Rows
    <3>2. "INITIAL" \in delivered
      BY <1>0, <1>5, <2>6 DEF SaveInitialSend, At, InOrder, Current
    <3>3. row.revision = 0 => /\ reservation = "CONFIRMED" /\ row.decision = None
                              /\ row.synced = row.revision
      BY <1>0 DEF WellFormed, RevisionCounts, Rows, Revisions
    <3>4. SyncedWasDelivered'
      BY <2>1, <3>1, <3>2, <3>3 DEF SyncedWasDelivered, Content, None
    <3> QED
      BY <2>1, <2>2, <3>1, <3>4, ClaimIsVoid
  <2> QED
    BY <2>3, <2>4, <2>5, <2>6
<1>6. ASSUME NEW w \in Workers, ClaimMessageSync(w) PROVE Goal
  <2>1. /\ row'.syncClaim = w /\ row'.sync = "CLAIMED" /\ UNCHANGED delivered
        /\ \A v \in Workers \ {w} : worker'[v] = worker[v]
    <3>1. row'.syncClaim = w /\ row'.sync = "CLAIMED" /\ UNCHANGED delivered
      BY <1>0, <1>6 DEF ClaimMessageSync, Rows
    <3>2. \A v \in Workers \ {w} : worker'[v] = worker[v]
      BY <1>0, <1>6 DEF ClaimMessageSync
    <3> QED
      BY <3>1, <3>2
  <2>2. worker'[w].status = Unread /\ worker'[w].decision = Unread /\ worker'[w].phase = "reading"
    BY <1>0, <1>6 DEF ClaimMessageSync, At, InOrder, WorkersOK, WorkerStates
  <2>3. Current(w)'
    BY <2>2 DEF Current
  <2> QED
    BY <2>1, <2>3, ClaimIsMine DEF SyncedWasDelivered
<1>7. ASSUME NEW w \in Workers, ReadStatus(w) PROVE Goal
  <2>1. /\ UNCHANGED <<row, reservation, delivered>>
        /\ \A v \in Workers \ {w} : worker'[v] = worker[v]
        /\ worker'[w] = [worker[w] EXCEPT !.status = reservation]
    BY <1>0, <1>7 DEF ReadStatus, WorkersOK
  <2>2. /\ worker'[w].status = reservation /\ worker'[w].decision = worker[w].decision
        /\ worker'[w].phase = worker[w].phase /\ worker'[w].revision = worker[w].revision
        /\ worker[w].phase = "reading"
    BY <1>0, <1>7, <2>1 DEF ReadStatus, At, WorkerStates
  <2>3. Current(w)'
    BY <1>0, <2>1, <2>2 DEF Current, SyncClaimIs
  <2> QED
    BY <2>1, <2>3, RowStays
<1>8. ASSUME NEW w \in Workers, ReadDecision(w) PROVE Goal
  <2>1. /\ UNCHANGED <<row, reservation, delivered>>
        /\ \A v \in Workers \ {w} : worker'[v] = worker[v]
        /\ worker'[w] = [worker[w] EXCEPT !.decision = row.decision]
    BY <1>0, <1>8 DEF ReadDecision, WorkersOK
  <2>2. /\ worker'[w].decision = row.decision /\ worker'[w].status = worker[w].status
        /\ worker'[w].phase = worker[w].phase /\ worker'[w].revision = worker[w].revision
        /\ worker[w].phase = "reading"
    BY <1>0, <1>8, <2>1 DEF ReadDecision, At, WorkerStates
  <2>3. Current(w)'
    BY <1>0, <2>1, <2>2 DEF Current, SyncClaimIs
  <2> QED
    BY <2>1, <2>3, RowStays
<1>9. ASSUME NEW w \in Workers, ReadSyncControl(w) PROVE Goal
  <2>1. /\ UNCHANGED <<row, reservation, delivered>> /\ worker[w].phase = "reading"
        /\ \A v \in Workers \ {w} : worker'[v] = worker[v]
    BY <1>0, <1>9 DEF ReadSyncControl, At, Saves
  <2>2. CASE worker' = [worker EXCEPT ![w].phase = "leasing", ![w].epoch = control.epoch]
    <3>1. worker'[w] = [worker[w] EXCEPT !.phase = "leasing", !.epoch = control.epoch]
      BY <1>0, <2>2, WorkerReadsControl
    <3>2. /\ worker'[w].phase = "leasing" /\ worker'[w].revision = worker[w].revision
          /\ worker'[w].status = worker[w].status /\ worker'[w].decision = worker[w].decision
      BY <1>0, <3>1 DEF WorkerStates
    <3>3. Current(w)'
      BY <1>0, <2>1, <3>2 DEF Current, SyncClaimIs
    <3> QED
      BY <2>1, <3>3, RowStays
  <2>3. CASE Saves(w, "syncSaving", "RETRY")
    BY <1>0, <1>1, <2>1, <2>3, WorkerMoved
  <2> QED
    BY <1>9, <2>2, <2>3 DEF ReadSyncControl
<1>10. ASSUME NEW w \in Workers, BeginSyncPatch(w) PROVE Goal
  <2>1. /\ UNCHANGED <<reservation, delivered>> /\ worker[w].phase = "leasing"
        /\ \A v \in Workers \ {w} : worker'[v] = worker[v]
    BY <1>0, <1>10 DEF BeginSyncPatch, At, Goes
  <2>2. CASE MayPatch(w)
    <3>1. /\ row' = [row EXCEPT !.sync = "PATCHING"]
          /\ worker' = [worker EXCEPT ![w].phase = "patching"]
      BY <1>10, <2>2 DEF BeginSyncPatch, Update, Goes
    <3>2. /\ row'.sync = "PATCHING" /\ row'.syncClaim = w /\ row'.decision = row.decision
          /\ SyncClaimIs(w, {"CLAIMED", "PATCHING"})
      BY <1>0, <2>2, <3>1 DEF MayPatch, SyncClaimIs, Rows
    <3>3. /\ worker'[w].phase = "patching"
          /\ worker'[w].status = worker[w].status /\ worker'[w].decision = worker[w].decision
      BY <1>0, <3>1 DEF WorkersOK, WorkerStates
    <3>4. Current(w)'
      BY <1>0, <2>1, <3>2, <3>3 DEF Current
    <3> QED
      BY <2>1, <3>2, <3>4, ClaimIsMine DEF SyncedWasDelivered
  <2>3. CASE ~MayPatch(w)
    <3>1. UNCHANGED row /\ Goes(w, "rejected")
      BY <1>10, <2>3 DEF BeginSyncPatch, Update
    <3>2. worker'[w].phase = "rejected"
      BY <1>0, <3>1, WorkerMoved
    <3> QED
      BY <1>1, <2>1, <3>1, <3>2
  <2> QED
    BY <2>2, <2>3
<1>11. ASSUME NEW w \in Workers, MarkRejected(w) PROVE Goal
  <2>1. /\ UNCHANGED <<reservation, delivered>> /\ Leaves(w)
        /\ row' = row \/ row' = [row EXCEPT !.sync = "PENDING_REVIEW"]
        /\ \A v \in Workers \ {w} : worker'[v] = worker[v]
    BY <1>0, <1>11 DEF MarkRejected, Update, Leaves
  <2>2. Current(w)'
    BY <1>0, <2>1, WorkerMoved DEF Current
  <2>3. CASE row' = row
    BY <2>1, <2>2, <2>3, RowStays
  <2>4. CASE row' = [row EXCEPT !.sync = "PENDING_REVIEW"]
    <3>1. row'.sync = "PENDING_REVIEW"
      BY <1>0, <2>4 DEF Rows
    <3> QED
      BY <2>1, <2>2, <3>1, ClaimIsVoid DEF SyncedWasDelivered
  <2> QED
    BY <2>1, <2>3, <2>4
<1>12. ASSUME NEW w \in Workers, Patch(w) PROVE Goal
  <2>1. /\ UNCHANGED <<row, reservation>> /\ delivered \subseteq delivered'
        /\ worker[w].phase = "patching"
        /\ \A v \in Workers \ {w} : worker'[v] = worker[v]
    BY <1>0, <1>12 DEF Patch, At, Saves
  <2>2. CASE /\ Saves(w, "patchSaving", "SENT")
             /\ delivered' = delivered \cup {Content(worker[w].status, worker[w].decision)}
    <3>1. /\ worker'[w].phase = "patchSaving" /\ worker'[w].revision = worker[w].revision
      <4>1. worker'[w] = Saved(w, "patchSaving", "SENT")
        BY <1>0, <2>2, WorkerSaves
      <4> QED
        BY <4>1 DEF Saved, Idle
    <3>2. worker[w].status # Unread /\ worker[w].decision # Unread
      BY <1>0, <2>1 DEF InOrder
    <3>3. SyncClaimIs(w, {"PATCHING"})' => SyncClaimIs(w, {"CLAIMED", "PATCHING"})
      BY <2>1, <3>1 DEF SyncClaimIs
    <3>4. SyncClaimIs(w, {"PATCHING"})' => Content(reservation, row.decision) \in delivered'
      BY <1>0, <2>1, <2>2, <3>2, <3>3 DEF Current
    <3>5. Current(w)'
      BY <2>1, <3>1, <3>4 DEF Current
    <3> QED
      BY <2>1, <3>5, RowStays
  <2>3. CASE \E outcome \in {"RETRY", "UNKNOWN"} :
                 Saves(w, "patchSaving", outcome) /\ UNCHANGED delivered
    <3>1. worker'[w].phase = "patchSaving" /\ worker'[w].outcome # "SENT"
      BY <1>0, <2>3, WorkerMoved
    <3> QED
      BY <1>1, <2>1, <2>3, <3>1
  <2> QED
    BY <1>12, <2>2, <2>3 DEF Patch
<1>13. ASSUME NEW w \in Workers, SaveSync(w) PROVE Goal
  <2> DEFINE shown == [row EXCEPT !.sync = "SYNCED", !.synced = worker[w].revision,
                                  !.rendered = worker[w].epoch, !.syncClaim = None, !.claimed = 0]
  <2>1. /\ UNCHANGED <<reservation, delivered>> /\ Leaves(w)
        /\ \A v \in Workers \ {w} : worker'[v] = worker[v]
    BY <1>0, <1>13 DEF SaveSync, Leaves
  <2>2. Current(w)'
    BY <1>0, <2>1, WorkerMoved DEF Current
  <2>3. \/ row' = row \/ row' = [row EXCEPT !.sync = "PENDING_REVIEW"] \/ row' = SyncFails(w)
        \/ /\ row' = shown /\ Leased(w)
           /\ worker[w].phase = "patchSaving" /\ worker[w].outcome = "SENT"
    BY <1>13 DEF SaveSync, Update, At
  <2>4. CASE row' = row
    BY <2>1, <2>2, <2>4, RowStays
  <2>5. CASE row' = [row EXCEPT !.sync = "PENDING_REVIEW"] \/ row' = SyncFails(w)
    <3>1. row'.sync \in {"PENDING_REVIEW", "RETRY", "ABANDONED"}
      BY <1>0, <2>5 DEF SyncFails, Rows
    <3> QED
      BY <2>1, <2>2, <3>1, ClaimIsVoid DEF SyncedWasDelivered
  <2>6. CASE /\ row' = shown /\ Leased(w)
             /\ worker[w].phase = "patchSaving" /\ worker[w].outcome = "SENT"
    <3>1. /\ row'.sync = "SYNCED" /\ row'.synced = row.revision
          /\ row'.revision = row.revision /\ row'.decision = row.decision
      BY <1>0, <2>6 DEF Leased, SyncClaimIs, Rows
    <3>2. Content(reservation, row.decision) \in delivered
      BY <1>0, <2>6 DEF Leased, Current
    <3> QED
      BY <2>1, <2>2, <3>1, <3>2, ClaimIsVoid DEF SyncedWasDelivered
  <2> HIDE DEF shown
  <2> QED
    BY <2>3, <2>4, <2>5, <2>6
<1>14. CASE EndReservation \/ Accept
  <2>1. row'.sync = "PENDING" /\ UNCHANGED <<worker, delivered>>
    BY <1>0, <1>14 DEF EndReservation, Accept, NewRevision, Rows
  <2> QED
    BY <2>1, ClaimIsVoid DEF SyncedWasDelivered
<1>15. CASE ReconcileExpiredPosts
  <2>1. /\ UNCHANGED <<reservation, delivered, worker>>
        /\ row'.sync = row.sync /\ row'.syncClaim = row.syncClaim
        /\ row'.revision = row.revision /\ row'.claimed = row.claimed
        /\ row'.decision = row.decision /\ row'.synced = row.synced
    BY <1>0, <1>15 DEF ReconcileExpiredPosts, Rows
  <2> QED
    BY <2>1, SyncStays
<1>16. CASE Disable \/ Reenable \/ UNCHANGED vars
  <2>1. UNCHANGED <<row, reservation, delivered, worker>>
    BY <1>16 DEF Disable, Reenable, vars
  <2> QED
    BY <2>1, RowStays
<1> HIDE DEF Goal
<1> QED
  BY <1>2, <1>3, <1>4, <1>5, <1>6, <1>7, <1>8, <1>9, <1>10, <1>11, <1>12, <1>13, <1>14, <1>15, <1>16
     DEF Next, PostStep, SyncStep

(* What is recorded as shown was acknowledged by Discord as what the       *)
(* reservation and the decision are now.                                   *)
THEOREM ShownIsTrue == Spec => []SyncedWasDelivered
<1>1. Init => Delivered
  BY InitWellFormed, InitDelivered DEF Delivered
<1>2. Delivered /\ [Next]_vars => Delivered'
  BY StepWellFormed, StepDelivered DEF Delivered
<1>3. Delivered => SyncedWasDelivered
  BY DEF Delivered
<1> QED
  BY <1>1, <1>2, <1>3, PTL DEF Spec

-----------------------------------------------------------------------------
(* An initial POST that was left to review stays so.                       *)
THEOREM ReviewedStays == Spec => ReviewedPostIsFinal
<1>1. ASSUME WellFormed, [Next]_vars, row.initial = "PENDING_REVIEW"
      PROVE  row'.initial = "PENDING_REVIEW"
  <2>0. row \in Rows /\ \A w \in Workers : InOrder(worker[w])
    BY <1>1 DEF WellFormed, TypeOK, WorkersOK
  <2>1. ASSUME NEW w \in Workers, PostStep(w) \/ ClaimInitialSend(w)
        PROVE  UNCHANGED row
    <3>1. CASE SaveInitialSend(w)
      BY <1>1, <2>0, <3>1 DEF SaveInitialSend, Update, MayFail, InitialClaimIs, InOrder
    <3> QED
      BY <1>1, <2>1, <3>1
         DEF PostStep, ClaimInitialSend, InitialSendClaimableWhere, LoadSnapshot, ReadControl,
             CheckFence, TakePostLease, Post, BeginWebhook, CallWebhook, SaveInitialSendThrows,
             InitialClaimIs
  <2>2. ASSUME NEW w \in Workers, ClaimMessageSync(w) \/ SyncStep(w) \/ Crash(w)
        PROVE  row'.initial = row.initial
    BY <2>0, <2>2 DEF ClaimMessageSync, SyncStep, ReadStatus, ReadDecision, ReadFails,
        ReadSyncControl, BeginSyncPatch, MarkRejected, Patch, SaveSync, SaveSyncThrows, Crash,
        Update, SyncFails, Rows
  <2>3. CASE ReconcileExpiredPosts \/ EndReservation \/ Accept
    BY <1>1, <2>0, <2>3 DEF ReconcileExpiredPosts, EndReservation, Accept, NewRevision, Rows
  <2>4. CASE Disable \/ Reenable \/ UNCHANGED vars
    BY <1>1, <2>4 DEF Disable, Reenable, vars
  <2> QED
    BY <1>1, <2>1, <2>2, <2>3, <2>4 DEF Next
<1>2. Spec => []WellFormed
  BY InitWellFormed, StepWellFormed, PTL DEF Spec
<1>3. WellFormed /\ [Next]_vars
        => [row.initial = "PENDING_REVIEW" => row'.initial = "PENDING_REVIEW"]_vars
  BY <1>1
<1> QED
  BY <1>2, <1>3, PTL DEF Spec, ReviewedPostIsFinal

(* Behind the fence no PATCH lease is taken.                               *)
THEOREM NoPatchBehindTheFence == Spec => PatchLeasesAreFenced
<1>1. ASSUME WellFormed, [Next]_vars, ~control.enabled, row'.sync = "PATCHING"
      PROVE  row.sync = "PATCHING"
  <2>0. row \in Rows
    BY <1>1 DEF WellFormed, TypeOK
  <2>1. ASSUME NEW w \in Workers, PostStep(w)
        PROVE  row'.sync \in {row.sync, "ABANDONED", "SYNCED", "PENDING"}
    BY <2>0, <2>1 DEF PostStep, LoadSnapshot, ReadControl, CheckFence, TakePostLease, Post,
        BeginWebhook, CallWebhook, SaveInitialSend, SaveInitialSendThrows, Update,
        InitialSendSucceeds, InitialSendFails, Rows
  <2>2. ASSUME NEW w \in Workers, ClaimInitialSend(w) \/ ClaimMessageSync(w) \/ Crash(w)
        PROVE  row'.sync \in {row.sync, "CLAIMED"}
    BY <2>0, <2>2 DEF ClaimInitialSend, ClaimMessageSync, Crash, Rows
  <2>3. ASSUME NEW w \in Workers, SyncStep(w)
        PROVE  row'.sync \in {row.sync, "PENDING_REVIEW", "RETRY", "ABANDONED", "SYNCED"}
    BY <1>1, <2>0, <2>3 DEF SyncStep, ReadStatus, ReadDecision, ReadFails, ReadSyncControl,
        BeginSyncPatch, MayPatch, MarkRejected, Patch, SaveSync, SaveSyncThrows, Update,
        SyncFails, Rows
  <2>4. CASE ReconcileExpiredPosts \/ EndReservation \/ Accept
    BY <2>0, <2>4, <1>1 DEF ReconcileExpiredPosts, EndReservation, Accept, NewRevision, Rows
  <2>5. CASE Disable \/ Reenable \/ UNCHANGED vars
    BY <1>1, <2>5 DEF Disable, Reenable, vars
  <2> QED
    BY <1>1, <2>1, <2>2, <2>3, <2>4, <2>5 DEF Next
<1>2. Spec => []WellFormed
  BY InitWellFormed, StepWellFormed, PTL DEF Spec
<1>3. WellFormed /\ [Next]_vars
        => [~control.enabled /\ row'.sync = "PATCHING" => row.sync = "PATCHING"]_vars
  BY <1>1
<1> QED
  BY <1>2, <1>3, PTL DEF Spec, PatchLeasesAreFenced

(* The whole of what posting promises: one message at the most, and a post   *)
(* whose result nobody knows stays with the operator                        *)
(* (src/lib/discord-reservation-outbox-initial.ts).                         *)
COROLLARY PostsAreSingle == Spec => PostedOnce
<1> QED BY TypeCorrect, NeverPostedTwice, ReviewedStays, PTL DEF PostedOnce

-----------------------------------------------------------------------------
(* The review of a message, and its retention.                              *)

(* The messages of ours that a search has to find.                          *)
Sought == IF strayed THEN {} ELSE Standing

(* A cursor knows every message of ours above the place that its search has *)
(* reached, and only those.                                                 *)
TrueCursor(cursor, own, sought) ==
    /\ cursor.found \subseteq own
    /\ cursor.status \notin {"NONE", "PENDING", "RETENTION_DELETED"}
    /\ cursor.status = "ZERO_COMPLETE" => cursor.complete /\ cursor.found = {}
    /\ cursor.status = "UNIQUE" => cursor.complete /\ \E m \in Ids : cursor.found = {m}
    /\ \A m \in sought : cursor.complete \/ m >= cursor.before => m \in cursor.found

(* What a row says of the channel, or need not say, is so.                  *)
TrueLetter(entry, own, sought) ==
    /\ TrueCursor(entry.cursor, own, sought)
    /\ entry.message # 0 => entry.message \in own /\ sought \subseteq {entry.message}
    /\ entry.verdict = "ZERO_COMPLETE" => sought = {}
    /\ entry.message = 0 /\ entry.verdict = "NONE" => sought = {}
    /\ entry.verdict = "RETENTION_DELETED" =>
          entry.message = 0 /\ entry.status \in {"ABANDONED", "NONE"} /\ sought = {}

(* What a request has read and is about to write.                           *)
TrueDesk(request, own, sought) ==
    /\ TrueCursor(request.cursor, own, sought) /\ TrueCursor(request.next, own, sought)
    /\ request.phase = "listing" => request.cursor.pages < MaxScans
    /\ request.phase = "saving" => request.cursor.found \subseteq request.next.found
    /\ request.phase = "writing" => request.action # "none"
    /\ request.action = "remove_controls" => request.lag < MaxReviewLag

(* A run of maintenance whose row is unchanged has the matches of its       *)
(* cursor; what it has yet to delete is all of ours that stands.            *)
TrueRun(state, entry, own, sought) ==
    /\ TrueCursor(state.cursor, own, sought)
    /\ state.left \subseteq own
    /\ state.phase = "deleting" => sought \subseteq state.left
    /\ state.phase # "idle" /\ state.fresh =>
          /\ entry.verdict # "RETENTION_DELETED"
          /\ entry.cursor.found \subseteq state.cursor.found
          /\ state.phase = "local" => entry.message = 0 /\ entry.verdict = "NONE"

(* The inductive invariant of the review.                                   *)
ReviewInv ==
    /\ ReviewTypeOK
    /\ TrueLetter(letter, OwnIds, Sought)
    /\ \A a \in Verifiers : TrueDesk(desk[a], OwnIds, Sought)
    /\ \A c \in Cleaners : TrueRun(cleaner[c], letter, OwnIds, Sought)

(* A write keeps the matches of the row's cursor, and a tombstone.          *)
GoodWrite(entry, next) ==
    /\ next.verdict # "RETENTION_DELETED" => entry.cursor.found \subseteq next.cursor.found
    /\ entry.verdict = "RETENTION_DELETED" =>
          next.verdict = "RETENTION_DELETED" /\ next.message = 0 /\ next.status = entry.status

(* What the requests and the runs keep.                                     *)
Desks == [phase : {"idle", "listing", "saving", "writing"}, action : {"none", "sync", "remove_controls", "abandon"},
          cursor : Cursors, next : Cursors,
          sync : {"PENDING", "SYNCED", "ABANDONED", "PENDING_REVIEW"}, lag : 0 .. MaxReviewLag]
RunRecords == [phase : RunPhases, fresh : BOOLEAN, unknown : BOOLEAN, cursor : Cursors, left : SUBSET Ids]

(* What the constants are.                                                  *)
LEMMA ReviewConstants ==
    /\ PageSize \in Nat /\ PageSize >= 1 /\ PageCap \in Nat /\ PageCap <= MaxScans
    /\ MaxHistory \in Nat /\ MaxScans \in Nat /\ MaxReviewEpoch \in Nat /\ MaxReviewLag \in Nat
    /\ MaxReviewFaults \in Nat
    /\ 0 \in 0 .. MaxScans /\ 0 \in 0 .. MaxHistory /\ 0 \in 0 .. MaxReviewLag /\ 0 \in 0 .. MaxReviewEpoch
    /\ FromNewest \in 1 .. FromNewest /\ Ids \subseteq 0 .. MaxHistory /\ Ids \subseteq 1 .. FromNewest
<1>1. /\ PageSize \in Nat /\ PageSize >= 1 /\ PageCap \in Nat /\ PageCap <= MaxScans
      /\ MaxHistory \in Nat /\ MaxScans \in Nat /\ MaxReviewEpoch \in Nat /\ MaxReviewLag \in Nat
      /\ MaxReviewFaults \in Nat
  BY ReviewAssumption DEF ReviewAssumption
<1> QED BY <1>1 DEF FromNewest, Ids

(* A search that has not begun, and what is kept of nobody.                 *)
LEMMA NothingRead ==
    /\ initialContinuation \in Cursors /\ NoDesk \in Desks /\ NoRun \in RunRecords
    /\ initialContinuation.found = {} /\ ~initialContinuation.complete
    /\ initialContinuation.before = FromNewest /\ initialContinuation.status = "ZERO_PARTIAL"
    /\ NoDesk.phase = "idle" /\ NoDesk.action = "none" /\ NoDesk.cursor = initialContinuation
    /\ NoDesk.next = initialContinuation
    /\ NoRun.phase = "idle" /\ NoRun.cursor = initialContinuation /\ NoRun.left = {}
<1>1. initialContinuation \in Cursors
  BY ReviewConstants DEF initialContinuation, Cursors, Verdicts
<1>2. NoDesk \in Desks
  <2> HIDE DEF initialContinuation
  <2> QED BY <1>1, ReviewConstants DEF NoDesk, Desks
<1>3. NoRun \in RunRecords
  BY <1>1 DEF NoRun, RunRecords, RunPhases
<1>4. /\ NoDesk.phase = "idle" /\ NoDesk.action = "none" /\ NoDesk.cursor = initialContinuation
      /\ NoDesk.next = initialContinuation
      /\ NoRun.phase = "idle" /\ NoRun.cursor = initialContinuation /\ NoRun.left = {}
  BY DEF NoDesk, NoRun
<1> QED BY <1>1, <1>2, <1>3, <1>4 DEF initialContinuation

(* The messages of the channel are named by their places in it.             *)
LEMMA Places ==
    ASSUME ReviewTypeOK
    PROVE  /\ channel \in Seq({"own", "other"}) /\ DOMAIN channel = 1 .. Len(channel)
           /\ Len(channel) \in Nat /\ Len(channel) <= MaxHistory
           /\ DOMAIN channel \subseteq Ids /\ OwnIds \subseteq Ids /\ Sought \subseteq OwnIds
<1>1. PICK n \in 0 .. MaxHistory : channel \in [1 .. n -> {"own", "other"}]
  BY DEF ReviewTypeOK
<1>2. n \in Nat /\ n <= MaxHistory
  BY ReviewConstants
<1>3. channel \in Seq({"own", "other"}) /\ Len(channel) = n
  BY <1>1, <1>2
<1>4. DOMAIN channel = 1 .. Len(channel) /\ Len(channel) \in Nat /\ Len(channel) <= MaxHistory
  BY <1>1, <1>2, <1>3
<1>5. DOMAIN channel \subseteq Ids
  BY <1>4, ReviewConstants DEF Ids
<1>6. OwnIds \subseteq DOMAIN channel /\ Sought \subseteq OwnIds
  BY DEF OwnIds, Sought, Standing
<1> QED BY <1>3, <1>4, <1>5, <1>6

(* With fewer messages of ours to find a cursor is as true as it was.       *)
LEMMA CursorsStay ==
    ASSUME NEW cursor, NEW own, NEW sought, NEW own2, NEW sought2,
           TrueCursor(cursor, own, sought), own \subseteq own2, sought2 \subseteq sought
    PROVE  TrueCursor(cursor, own2, sought2)
BY DEF TrueCursor

(* Likewise what a row, a request and a run say.                            *)
LEMMA RecordsStay ==
    ASSUME NEW own, NEW sought, NEW own2, NEW sought2, own \subseteq own2, sought2 \subseteq sought
    PROVE  /\ \A entry : TrueLetter(entry, own, sought) => TrueLetter(entry, own2, sought2)
           /\ \A request : TrueDesk(request, own, sought) => TrueDesk(request, own2, sought2)
           /\ \A state, entry : TrueRun(state, entry, own, sought) => TrueRun(state, entry, own2, sought2)
<1>1. ASSUME NEW entry, TrueLetter(entry, own, sought) PROVE TrueLetter(entry, own2, sought2)
  <2>1. TrueCursor(entry.cursor, own2, sought2)
    BY <1>1, CursorsStay DEF TrueLetter
  <2> QED BY <1>1, <2>1 DEF TrueLetter
<1>2. ASSUME NEW request, TrueDesk(request, own, sought) PROVE TrueDesk(request, own2, sought2)
  <2>1. TrueCursor(request.cursor, own2, sought2) /\ TrueCursor(request.next, own2, sought2)
    BY <1>2, CursorsStay DEF TrueDesk
  <2> QED BY <1>2, <2>1 DEF TrueDesk
<1>3. ASSUME NEW state, NEW entry, TrueRun(state, entry, own, sought) PROVE TrueRun(state, entry, own2, sought2)
  <2>1. TrueCursor(state.cursor, own2, sought2)
    BY <1>3, CursorsStay DEF TrueRun
  <2> QED BY <1>3, <2>1 DEF TrueRun
<1> QED BY <1>1, <1>2, <1>3

(* A search that has not begun knows of nothing, and nothing is read.       *)
LEMMA NothingIsTrue ==
    ASSUME NEW own, NEW sought \in SUBSET Ids
    PROVE  /\ TrueCursor(initialContinuation, own, sought)
           /\ TrueDesk(NoDesk, own, sought) /\ \A entry : TrueRun(NoRun, entry, own, sought)
<1>1. TrueCursor(initialContinuation, own, sought)
  <2>1. \A m \in sought : ~(m >= FromNewest)
    BY ReviewConstants DEF Ids, FromNewest
  <2> QED BY <2>1, NothingRead DEF TrueCursor
<1> QED BY <1>1, NothingRead DEF TrueDesk, TrueRun

(* The least and the greatest of some places.                               *)
LEMMA FirstAndLast ==
    ASSUME NEW S \in SUBSET Ids, S # {}
    PROVE  /\ Min(S) \in S /\ \A m \in S : Min(S) <= m
           /\ \E high \in S : \A m \in S : m <= high
<1>1. S \subseteq Nat /\ MaxHistory \in Nat /\ \A m \in S : m <= MaxHistory
  BY ReviewConstants DEF Ids
<1>2. ASSUME NEW T \in SUBSET Nat, T # {} PROVE \E low \in T : \A m \in T : low <= m
  <2>1. PICK low \in T : \A m \in T : ~(<<m, low>> \in OpToRel(<, Nat))
    BY <1>2, NatLessThanWellFounded, WFMin
  <2>2. ASSUME NEW m \in T PROVE low <= m
    <3>1. m \in Nat /\ low \in Nat
      OBVIOUS
    <3>2. ~(m < low)
      BY <2>1, <3>1 DEF OpToRel
    <3> QED BY <3>1, <3>2
  <2> QED BY <2>2
<1>3. \E low \in S : \A m \in S : low <= m
  BY <1>1, <1>2
<1>4. \E high \in S : \A m \in S : m <= high
  <2> DEFINE T == {n \in Nat : MaxHistory - n \in S}
  <2>1. PICK m \in S : TRUE
    OBVIOUS
  <2>2. MaxHistory - m \in T
    BY <1>1
  <2>3. PICK low \in T : \A n \in T : low <= n
    BY <1>2, <2>2
  <2>4. ASSUME NEW n \in S PROVE n <= MaxHistory - low
    <3>1. MaxHistory - n \in T /\ n \in Nat
      BY <1>1
    <3>2. low <= MaxHistory - n /\ low \in Nat
      BY <2>3, <3>1
    <3> QED BY <1>1, <3>1, <3>2
  <2> QED BY <2>3, <2>4
<1> QED BY <1>3, <1>4 DEF Min

(* A page holds every message that stands above one of its own, and is      *)
(* short only when nothing is left below it.                                *)
LEMMA PagesReach ==
    ASSUME ReviewTypeOK, NEW before \in 1 .. FromNewest
    PROVE  /\ Page(before) \subseteq Below(before) /\ Below(before) \subseteq Ids
           /\ \A m \in Below(before) : (\E low \in Page(before) : low <= m) => m \in Page(before)
           /\ Cardinality(Page(before)) < PageSize => Page(before) = Below(before)
<1> DEFINE B == Below(before)
           P == Page(before)
           Above(m) == {n \in B : n >= m}
<1>1. B \subseteq Ids /\ IsFiniteSet(B) /\ B \subseteq Nat
  <2>1. B \subseteq Ids
    BY Places DEF Below
  <2>2. IsFiniteSet(Ids)
    BY ReviewConstants, FS_Interval DEF Ids
  <2>3. IsFiniteSet(B)
    BY <2>1, <2>2, FS_Subset
  <2>4. Ids \subseteq Nat
    BY DEF Ids
  <2> QED BY <2>1, <2>3, <2>4
<1>2. P = {m \in B : Cardinality(Above(m)) <= PageSize} /\ P \subseteq B
  BY DEF Page
<1> HIDE DEF B, P
<1>3. \A m \in B : IsFiniteSet(Above(m)) /\ Cardinality(Above(m)) \in Nat
  <2> TAKE m \in B
  <2>1. Above(m) \in SUBSET B
    OBVIOUS
  <2> QED BY <1>1, <2>1, FS_Subset, FS_CardinalityType
<1>4. ASSUME NEW m \in B, NEW low \in P, low <= m PROVE m \in P
  <2>1. Above(m) \subseteq Above(low)
    <3> SUFFICES ASSUME NEW n \in B, n >= m PROVE n >= low
      OBVIOUS
    <3>1. n \in Nat /\ m \in Nat /\ low \in Nat /\ low <= m
      BY <1>1, <1>2, <1>4
    <3> QED BY <3>1
  <2>2. Cardinality(Above(m)) <= Cardinality(Above(low))
    BY <1>2, <1>3, <2>1, FS_Subset
  <2> HIDE DEF Above
  <2>3. Cardinality(Above(low)) <= PageSize /\ Cardinality(Above(low)) \in Nat /\ Cardinality(Above(m)) \in Nat
    BY <1>2, <1>3
  <2> QED BY <1>2, <2>2, <2>3, ReviewConstants
<1>5. ASSUME Cardinality(P) < PageSize, P # B PROVE FALSE
  <2>1. B \ P # {} /\ B \ P \subseteq Ids
    BY <1>1, <1>2, <1>5
  <2>2. PICK high \in B \ P : \A m \in B \ P : m <= high
    BY <2>1, FirstAndLast
  <2>3. Above(high) \subseteq P \cup {high}
    <3> SUFFICES ASSUME NEW n \in B, n >= high, n \notin P PROVE n = high
      OBVIOUS
    <3>1. n <= high /\ n \in Nat /\ high \in Nat
      BY <1>1, <2>2
    <3> QED BY <3>1
  <2>4. IsFiniteSet(P) /\ Cardinality(P) \in Nat
    BY <1>1, <1>2, FS_Subset, FS_CardinalityType
  <2>5. Cardinality(P \cup {high}) = Cardinality(P) + 1 /\ IsFiniteSet(P \cup {high})
    BY <2>2, <2>4, FS_AddElement
  <2>6. Cardinality(Above(high)) <= Cardinality(P) + 1
    BY <2>3, <2>5, FS_Subset
  <2>7. ~(Cardinality(Above(high)) <= PageSize) /\ Cardinality(Above(high)) \in Nat
    BY <1>2, <1>3, <2>2
  <2> HIDE DEF Above
  <2> QED BY <1>5, <2>4, <2>6, <2>7, ReviewConstants
<1> QED BY <1>1, <1>2, <1>4, <1>5 DEF B, P

(* A page makes a cursor that knows more, and a call that failed one that   *)
(* knows as much.                                                           *)
LEMMA ScansAreTrue ==
    ASSUME ReviewTypeOK, NEW cursor \in Cursors, TrueCursor(cursor, OwnIds, Sought), cursor.pages < MaxScans
    PROVE  /\ Scanned(cursor) \in Cursors /\ TrueCursor(Scanned(cursor), OwnIds, Sought)
           /\ cursor.found \subseteq Scanned(cursor).found
           /\ Scanned(cursor).complete => Sought \subseteq Scanned(cursor).found
<1> DEFINE page == Page(cursor.before)
           found == cursor.found \cup (page \cap OwnIds)
           complete == Cardinality(page) < PageSize
           reached == IF page = {} THEN cursor.before ELSE Min(page)
           status == verificationStatus(complete, found)
           next == Scanned(cursor)
<1>1. /\ cursor.before \in 1 .. FromNewest /\ cursor.found \subseteq Ids /\ cursor.pages + 1 \in 0 .. MaxScans
      /\ cursor.found \subseteq OwnIds
  BY ReviewConstants DEF Cursors, TrueCursor
<1>2. /\ page \subseteq Below(cursor.before) /\ Below(cursor.before) \subseteq Ids
      /\ \A m \in Below(cursor.before) : (\E low \in page : low <= m) => m \in page
      /\ (complete => page = Below(cursor.before))
  BY <1>1, PagesReach
<1>3. reached \in 1 .. FromNewest
  <2>1. CASE page = {}
    BY <1>1, <2>1
  <2>2. CASE page # {}
    <3>1. Min(page) \in page
      BY <1>2, <2>2, FirstAndLast
    <3>2. Min(page) \in 1 .. FromNewest
      BY <1>2, <3>1, ReviewConstants
    <3> HIDE DEF page
    <3> QED BY <2>2, <3>2
  <2> QED BY <2>1, <2>2
<1>4. /\ next.before = reached /\ next.complete = complete /\ next.found = found /\ next.status = status
      /\ next = [before |-> reached, complete |-> complete, found |-> found, pages |-> cursor.pages + 1,
                 trouble |-> FALSE, status |-> status]
  BY DEF Scanned
<1>5. found \subseteq OwnIds /\ found \subseteq Ids /\ cursor.found \subseteq found
  BY <1>1, Places
<1>6. ASSUME NEW m \in Sought, complete \/ m >= reached PROVE m \in found
  <2>1. m \in OwnIds /\ m \in Standing /\ m \in Ids /\ m \in DOMAIN channel \ deleted
    BY <1>6, Places DEF Sought, Standing, OwnIds
  <2>2. CASE m >= cursor.before
    BY <1>6, <2>2 DEF TrueCursor
  <2>3. CASE ~(m >= cursor.before)
    <3>1. m \in Below(cursor.before)
      BY <1>1, <2>1, <2>3 DEF Below, Ids
    <3>2. m \in page
      <4>1. CASE complete
        BY <1>2, <3>1, <4>1
      <4>2. CASE ~complete
        <5>1. m >= reached
          BY <1>6, <4>2
        <5>2. page # {} /\ reached = Min(page)
          BY <2>3, <5>1
        <5>3. Min(page) \in page
          BY <1>2, <5>2, FirstAndLast
        <5>4. Min(page) <= m
          BY <5>1, <5>2
        <5> QED BY <1>2, <3>1, <5>3, <5>4
      <4> QED BY <4>1, <4>2
    <3> QED BY <2>1, <3>2
  <2> QED BY <2>2, <2>3
<1>7. complete \in BOOLEAN /\ IsFiniteSet(found) /\ Cardinality({}) = 0 /\ Cardinality(found) \in Nat
  <2>1. IsFiniteSet(Ids)
    BY ReviewConstants, FS_Interval DEF Ids
  <2>2. IsFiniteSet(found)
    BY <1>5, <2>1, FS_Subset
  <2> HIDE DEF found
  <2> QED BY <2>2, FS_EmptySet, FS_CardinalityType
<1> HIDE DEF found, complete, reached, next
<1>8. /\ status \in {"ZERO_PARTIAL", "PARTIAL", "ZERO_COMPLETE", "UNIQUE", "MULTIPLE"}
      /\ (status = "ZERO_COMPLETE" => complete /\ found = {})
      /\ (status = "UNIQUE" => complete /\ Cardinality(found) = 1)
  BY <1>7 DEF verificationStatus
<1>9. Cardinality(found) = 1 => \E m \in Ids : found = {m}
  <2> HAVE Cardinality(found) = 1
  <2>1. PICK m : found = {m}
    BY <1>7, FS_Singleton
  <2> QED BY <1>5, <2>1
<1> HIDE DEF status
<1>10. next \in Cursors
  BY <1>1, <1>3, <1>4, <1>5, <1>7, <1>8 DEF Cursors, Verdicts
<1>11. TrueCursor(next, OwnIds, Sought)
  BY <1>4, <1>5, <1>6, <1>8, <1>9 DEF TrueCursor
<1>12. next.complete => Sought \subseteq next.found
  BY <1>4, <1>6
<1> QED BY <1>4, <1>5, <1>10, <1>11, <1>12 DEF next

(* A search that failed, or whose deletions did.                            *)
LEMMA FailuresAreTrue ==
    ASSUME ReviewTypeOK, NEW cursor \in Cursors, TrueCursor(cursor, OwnIds, Sought)
    PROVE  /\ Failing(cursor) \in Cursors /\ TrueCursor(Failing(cursor), OwnIds, Sought)
           /\ Failing(cursor).found = cursor.found
           /\ [cursor EXCEPT !.trouble = TRUE] \in Cursors
           /\ TrueCursor([cursor EXCEPT !.trouble = TRUE], OwnIds, Sought)
           /\ [cursor EXCEPT !.trouble = TRUE].found = cursor.found
<1>1. /\ Failing(cursor) \in Cursors /\ Failing(cursor).found = cursor.found /\ ~Failing(cursor).complete
      /\ Failing(cursor).before = cursor.before /\ Failing(cursor).status = "ERROR"
  BY DEF Failing, Cursors, Verdicts
<1> DEFINE troubled == [cursor EXCEPT !.trouble = TRUE]
<1>2. /\ troubled \in Cursors /\ troubled.found = cursor.found /\ troubled.complete = cursor.complete
      /\ troubled.before = cursor.before /\ troubled.status = cursor.status
  BY DEF Cursors
<1> HIDE DEF troubled
<1>3. TrueCursor(Failing(cursor), OwnIds, Sought)
  BY <1>1 DEF TrueCursor
<1>4. TrueCursor(troubled, OwnIds, Sought)
  BY <1>2 DEF TrueCursor
<1> QED BY <1>1, <1>2, <1>3, <1>4 DEF troubled

(* What is typed, part by part.                                             *)
LEMMA ReviewTypes ==
    ReviewTypeOK <=>
        /\ channel \in UNION {[1 .. n -> {"own", "other"}] : n \in 0 .. MaxHistory}
        /\ deleted \subseteq OwnIds
        /\ flying \in BOOLEAN /\ strayed \in BOOLEAN /\ ended \in BOOLEAN /\ expired \in BOOLEAN
        /\ letter \in Letters
        /\ gate \in [enabled : BOOLEAN, epoch : 0 .. MaxReviewEpoch]
        /\ desk \in [Verifiers -> Desks] /\ cleaner \in [Cleaners -> RunRecords]
        /\ reviewFaults \in 0 .. MaxReviewFaults
        /\ letter.message # 0 => letter.message \in OwnIds
BY DEF ReviewTypeOK, Desks, RunRecords

(* The channel, the row and those at work on it, after a step.              *)
LEMMA ReviewFrame ==
    ASSUME ReviewInv, ReviewTypeOK', OwnIds \subseteq OwnIds', Sought' \subseteq Sought,
           TrueLetter(letter', OwnIds, Sought),
           \A a \in Verifiers : desk'[a] = desk[a] \/ TrueDesk(desk'[a], OwnIds, Sought),
           \A c \in Cleaners : TrueRun(cleaner'[c], letter', OwnIds', Sought')
    PROVE  ReviewInv'
<1>1. TrueLetter(letter', OwnIds', Sought')
  BY RecordsStay
<1>2. ASSUME NEW a \in Verifiers PROVE TrueDesk(desk'[a], OwnIds', Sought')
  <2>1. TrueDesk(desk'[a], OwnIds, Sought)
    BY DEF ReviewInv
  <2> QED BY <2>1, RecordsStay
<1> QED BY <1>1, <1>2 DEF ReviewInv

(* A run that learns that the row has changed.                              *)
LEMMA StaleRuns ==
    ASSUME NEW state \in RunRecords, NEW entry, NEW own, NEW sought, TrueRun(state, entry, own, sought)
    PROVE  /\ [state EXCEPT !.fresh = FALSE] \in RunRecords
           /\ \A other : TrueRun([state EXCEPT !.fresh = FALSE], other, own, sought)
<1> DEFINE stale == [state EXCEPT !.fresh = FALSE]
<1>1. stale \in RunRecords /\ ~stale.fresh /\ stale.cursor = state.cursor /\ stale.left = state.left
      /\ stale.phase = state.phase
  BY DEF RunRecords
<1> HIDE DEF stale
<1>2. \A other : TrueRun(stale, other, own, sought)
  BY <1>1 DEF TrueRun
<1> QED BY <1>1, <1>2 DEF stale

(* The channel as it was.                                                   *)
ChannelStays == UNCHANGED <<channel, deleted, flying, strayed, gate, expired>>

(* Nothing is to be found but what was before.                              *)
LEMMA StillSought == ChannelStays => OwnIds' = OwnIds /\ Sought' = Sought
BY DEF ChannelStays, OwnIds, Sought, Standing

(* A request or the site writes the row.                                    *)
LEMMA WriteKeeps ==
    ASSUME ReviewInv, NEW data \in Letters, TrueLetter(data, OwnIds, Sought), Writes(data),
           ChannelStays, ended' \in BOOLEAN, UNCHANGED reviewFaults,
           desk' \in [Verifiers -> Desks], \A a \in Verifiers : desk'[a] \in {desk[a], NoDesk}
    PROVE  ReviewInv'
<1>0. ReviewTypeOK /\ OwnIds' = OwnIds /\ Sought' = Sought /\ cleaner \in [Cleaners -> RunRecords]
      /\ Sought \subseteq Ids /\ letter' = data
  BY StillSought, Places, ReviewTypes DEF ReviewInv, Writes
<1>1. ASSUME NEW c \in Cleaners
      PROVE  cleaner'[c] \in RunRecords /\ TrueRun(cleaner'[c], letter', OwnIds', Sought')
  <2>1. cleaner[c] \in RunRecords /\ TrueRun(cleaner[c], letter, OwnIds, Sought)
    BY <1>0 DEF ReviewInv
  <2>2. cleaner'[c] = [cleaner[c] EXCEPT !.fresh = FALSE]
    BY DEF Writes
  <2> QED BY <1>0, <2>1, <2>2, StaleRuns
<1>2. cleaner' \in [Cleaners -> RunRecords]
  <2>1. cleaner' = [c \in Cleaners |-> cleaner'[c]]
    BY DEF Writes
  <2> QED BY <1>1, <2>1
<1>3. ReviewTypeOK'
  <2>1. data.message # 0 => data.message \in OwnIds
    BY DEF TrueLetter
  <2>2. deleted' \subseteq OwnIds' /\ letter' \in Letters /\ (letter'.message # 0 => letter'.message \in OwnIds')
    BY <1>0, <2>1, ReviewTypes DEF ChannelStays
  <2> QED BY <1>0, <1>2, <2>2, ReviewTypes DEF ChannelStays, ReviewTypeOK, Desks, RunRecords
<1>4. \A a \in Verifiers : desk'[a] = desk[a] \/ TrueDesk(desk'[a], OwnIds, Sought)
  BY <1>0, NothingIsTrue
<1> QED BY <1>0, <1>1, <1>3, <1>4, ReviewFrame

(* A run of maintenance writes the row, and is over with it.                *)
LEMMA RunWriteKeeps ==
    ASSUME ReviewInv, NEW c \in Cleaners, NEW data \in Letters, TrueLetter(data, OwnIds, Sought),
           WritesAndEnds(c, data), UNCHANGED <<around, desk, reviewFaults>>
    PROVE  ReviewInv'
<1>0. ReviewTypeOK /\ OwnIds' = OwnIds /\ Sought' = Sought /\ cleaner \in [Cleaners -> RunRecords]
      /\ Sought \subseteq Ids /\ letter' = data /\ ChannelStays
  BY StillSought, Places, ReviewTypes DEF ReviewInv, WritesAndEnds, around, ChannelStays
<1>1. ASSUME NEW d \in Cleaners
      PROVE  cleaner'[d] \in RunRecords /\ TrueRun(cleaner'[d], letter', OwnIds', Sought')
  <2>1. cleaner[d] \in RunRecords /\ TrueRun(cleaner[d], letter, OwnIds, Sought)
    BY <1>0 DEF ReviewInv
  <2>2. cleaner'[d] \in {NoRun, [cleaner[d] EXCEPT !.fresh = FALSE]}
    BY DEF WritesAndEnds
  <2>3. CASE cleaner'[d] = NoRun
    BY <1>0, <2>3, NothingRead, NothingIsTrue
  <2>4. CASE cleaner'[d] = [cleaner[d] EXCEPT !.fresh = FALSE]
    BY <1>0, <2>1, <2>4, StaleRuns
  <2> QED BY <2>2, <2>3, <2>4
<1>2. cleaner' \in [Cleaners -> RunRecords]
  <2>1. cleaner' = [d \in Cleaners |-> cleaner'[d]]
    BY DEF WritesAndEnds
  <2> QED BY <1>1, <2>1
<1>3. ReviewTypeOK'
  <2>1. data.message # 0 => data.message \in OwnIds
    BY DEF TrueLetter
  <2>2. deleted' \subseteq OwnIds' /\ letter' \in Letters /\ (letter'.message # 0 => letter'.message \in OwnIds')
    BY <1>0, <2>1, ReviewTypes DEF ChannelStays
  <2> QED BY <1>0, <1>2, <2>2, ReviewTypes DEF around, ReviewTypeOK, Desks, RunRecords
<1> QED BY <1>0, <1>1, <1>3, ReviewFrame

(* A run of maintenance goes on without the row.                            *)
LEMMA RunKeeps ==
    ASSUME ReviewInv, NEW c \in Cleaners, NEW state \in RunRecords, TrueRun(state, letter, OwnIds, Sought),
           Run(c, state), UNCHANGED <<around, letter, desk>>, reviewFaults' \in 0 .. MaxReviewFaults
    PROVE  ReviewInv'
<1>0. ReviewTypeOK /\ OwnIds' = OwnIds /\ Sought' = Sought /\ cleaner \in [Cleaners -> RunRecords]
  BY StillSought, ReviewTypes DEF ReviewInv, around, ChannelStays
<1>1. cleaner' \in [Cleaners -> RunRecords] /\ \A d \in Cleaners : cleaner'[d] \in {cleaner[d], state}
      /\ \A e \in Cleaners : e = c \/ cleaner'[e] = cleaner[e]
  BY <1>0 DEF Run
<1>2. \A d \in Cleaners : TrueRun(cleaner'[d], letter', OwnIds', Sought')
  BY <1>0, <1>1 DEF ReviewInv
<1>3. ReviewTypeOK'
  BY <1>0, <1>1, ReviewTypes DEF around, ReviewTypeOK, Desks, RunRecords
<1> QED BY <1>0, <1>2, <1>3, ReviewFrame DEF ReviewInv

(* A request goes on without the row.                                       *)
LEMMA DeskKeeps ==
    ASSUME ReviewInv, NEW a \in Verifiers, NEW request \in Desks, TrueDesk(request, OwnIds, Sought),
           Desk(a, request), UNCHANGED <<around, letter, cleaner>>, reviewFaults' \in 0 .. MaxReviewFaults
    PROVE  ReviewInv'
<1>0. ReviewTypeOK /\ OwnIds' = OwnIds /\ Sought' = Sought /\ desk \in [Verifiers -> Desks]
  BY StillSought, ReviewTypes DEF ReviewInv, around, ChannelStays
<1>1. desk' \in [Verifiers -> Desks] /\ \A b \in Verifiers : desk'[b] \in {desk[b], request}
  BY <1>0 DEF Desk
<1>2. \A b \in Verifiers : desk'[b] = desk[b] \/ TrueDesk(desk'[b], OwnIds, Sought)
  BY <1>1
<1>3. ReviewTypeOK'
  BY <1>0, <1>1, ReviewTypes DEF around, ReviewTypeOK, Desks, RunRecords
<1>4. \A c \in Cleaners : TrueRun(cleaner'[c], letter', OwnIds', Sought')
  BY <1>0 DEF ReviewInv
<1> QED BY <1>0, <1>2, <1>3, <1>4, ReviewFrame DEF ReviewInv

(* The faults that are counted.                                             *)
LEMMA ReviewFaultsCount ==
    ReviewTypeOK /\ (ReviewFault \/ UNCHANGED reviewFaults) => reviewFaults' \in 0 .. MaxReviewFaults
BY ReviewConstants DEF ReviewTypeOK, ReviewFault

(* The search has begun, and the row stands for what is there.              *)
LEMMA ReviewStarts == ReviewInit => ReviewInv
<1> SUFFICES ASSUME ReviewInit PROVE ReviewInv
  OBVIOUS
<1>0. ~strayed /\ deleted = {} /\ Sought = OwnIds
  BY DEF ReviewInit, Sought, Standing
<1>1. /\ OwnIds \subseteq Ids
      /\ channel \in UNION {[1 .. n -> {"own", "other"}] : n \in 0 .. MaxHistory}
  <2>1. PICK n \in 0 .. MaxHistory : channel \in [1 .. n -> {"own", "other"}]
    BY DEF ReviewInit
  <2>2. DOMAIN channel \subseteq Ids
    BY <2>1, ReviewConstants DEF Ids
  <2> QED BY <2>2 DEF OwnIds, ReviewInit
<1>2. IsFiniteSet(OwnIds)
  <2>1. IsFiniteSet(Ids)
    BY ReviewConstants, FS_Interval DEF Ids
  <2> QED BY <1>1, <2>1, FS_Subset
<1>3. /\ letter \in Letters /\ letter.cursor = initialContinuation /\ (letter.message # 0 => OwnIds = {letter.message})
      /\ letter.verdict \in {"NONE", "PENDING"}
      /\ (letter.message = 0 /\ letter.verdict = "NONE" => OwnIds = {})
  <2>1. NoLetter \in Letters /\ NoLetter.cursor = initialContinuation /\ NoLetter.message = 0
        /\ NoLetter.verdict = "NONE" /\ NoLetter.status = "ABANDONED"
    <3> HIDE DEF initialContinuation
    <3> QED BY NothingRead, ReviewConstants DEF NoLetter, Letters, Verdicts
  <2>2. CASE letter = NoLetter
    <3>1. OwnIds = {}
      BY <2>1, <2>2 DEF ReviewInit
    <3> QED BY <2>1, <2>2, <3>1
  <2>3. CASE letter \in ReviewRows
    <3>1. PICK p \in Channels : letter = [NoLetter EXCEPT !.status = "PENDING_REVIEW", !.placed = p,
                                                          !.verdict = "PENDING", !.sync = "PENDING"]
      BY <2>3 DEF ReviewRows
    <3>2. p \in BOOLEAN
      BY ReviewAssumption DEF ReviewAssumption
    <3> HIDE DEF NoLetter
    <3> QED BY <2>1, <3>1, <3>2 DEF Letters, Verdicts
  <2>4. CASE Cardinality(OwnIds) = 1 /\ letter \in SentRows
    <3>1. PICK m \in OwnIds : letter = [NoLetter EXCEPT !.status = "SENT", !.placed = TRUE, !.message = m, !.sync = "SYNCED"]
      BY <2>4 DEF SentRows
    <3>2. OwnIds = {m}
      BY <1>2, <2>4, <3>1, FS_Singleton
    <3>3. m \in 0 .. MaxHistory /\ m # 0
      BY <1>1, ReviewConstants DEF Ids
    <3> HIDE DEF NoLetter
    <3> QED BY <2>1, <3>1, <3>2, <3>3 DEF Letters, Verdicts
  <2> QED BY <2>2, <2>3, <2>4 DEF ReviewInit
<1>4. TrueCursor(initialContinuation, OwnIds, Sought)
  BY <1>0, <1>1, NothingIsTrue
<1>5. TrueLetter(letter, OwnIds, Sought)
  BY <1>0, <1>3, <1>4 DEF TrueLetter
<1>6. /\ \A a \in Verifiers : desk[a] = NoDesk
      /\ \A c \in Cleaners : cleaner[c] = NoRun
      /\ desk \in [Verifiers -> Desks] /\ cleaner \in [Cleaners -> RunRecords]
  BY NothingRead DEF ReviewInit
<1>7. ReviewTypeOK
  <2>1. reviewFaults \in 0 .. MaxReviewFaults /\ gate \in [enabled : BOOLEAN, epoch : 0 .. MaxReviewEpoch]
    BY ReviewConstants DEF ReviewInit
  <2> QED BY <1>0, <1>1, <1>3, <1>6, <2>1, ReviewTypes DEF ReviewInit
<1> QED BY <1>0, <1>1, <1>5, <1>6, <1>7, NothingIsTrue DEF ReviewInv

(* The steps of a verification.                                             *)
LEMMA VerificationKeeps ==
    ASSUME ReviewInv, NEW a \in Verifiers, Verifies(a)
    PROVE  ReviewInv' /\ GoodWrite(letter, letter')
<1>0. ReviewTypeOK /\ letter \in Letters /\ letter.cursor \in Cursors /\ TrueLetter(letter, OwnIds, Sought)
      /\ desk[a] \in Desks /\ TrueDesk(desk[a], OwnIds, Sought) /\ desk \in [Verifiers -> Desks]
  BY ReviewTypes DEF ReviewInv, Letters
<1>1. letter' = letter => GoodWrite(letter, letter')
  BY <1>0 DEF GoodWrite, TrueLetter
<1>2. CASE LoadTarget(a)
  <2> DEFINE request == [NoDesk EXCEPT !.phase = "listing", !.cursor = letter.cursor]
  <2>1. /\ request \in Desks /\ request.phase = "listing" /\ request.cursor = letter.cursor
        /\ request.next = initialContinuation /\ request.action = "none"
    <3> HIDE DEF NoDesk
    <3> QED BY <1>0, NothingRead DEF Desks
  <2>2. Desk(a, request) /\ UNCHANGED <<around, letter, cleaner, reviewFaults>> /\ letter.cursor.pages < MaxScans
    BY <1>2 DEF LoadTarget
  <2> HIDE DEF request
  <2>3. TrueDesk(request, OwnIds, Sought)
    <3>1. TrueCursor(letter.cursor, OwnIds, Sought) /\ Sought \subseteq Ids
      BY <1>0, Places DEF TrueLetter
    <3> QED BY <2>1, <2>2, <3>1, NothingIsTrue DEF TrueDesk
  <2>4. reviewFaults' \in 0 .. MaxReviewFaults
    BY <1>0, <2>2, ReviewFaultsCount
  <2> QED BY <1>1, <2>1, <2>2, <2>3, <2>4, DeskKeeps
<1>3. CASE ListPage(a)
  <2>0. /\ desk[a].cursor \in Cursors /\ TrueCursor(desk[a].cursor, OwnIds, Sought)
        /\ desk[a].cursor.pages < MaxScans /\ UNCHANGED <<around, letter, cleaner>>
        /\ reviewFaults' \in 0 .. MaxReviewFaults /\ desk[a].phase = "listing"
    BY <1>0, <1>3, ReviewFaultsCount DEF ListPage, TrueDesk, Desks
  <2>1. PICK next \in {Scanned(desk[a].cursor), Failing(desk[a].cursor)} :
           Desk(a, [desk[a] EXCEPT !.phase = "saving", !.next = next])
    BY <1>3 DEF ListPage
  <2>2. next \in Cursors /\ TrueCursor(next, OwnIds, Sought) /\ desk[a].cursor.found \subseteq next.found
    BY <1>0, <2>0, ScansAreTrue, FailuresAreTrue
  <2> DEFINE request == [desk[a] EXCEPT !.phase = "saving", !.next = next]
  <2>3. /\ request \in Desks /\ request.phase = "saving" /\ request.cursor = desk[a].cursor
        /\ request.next = next /\ request.action = desk[a].action /\ request.lag = desk[a].lag
    BY <1>0, <2>2 DEF Desks
  <2> HIDE DEF request
  <2>4. TrueDesk(request, OwnIds, Sought)
    BY <1>0, <2>0, <2>2, <2>3 DEF TrueDesk
  <2>5. Desk(a, request)
    BY <2>1 DEF request
  <2> QED BY <1>1, <2>0, <2>3, <2>4, <2>5, DeskKeeps
<1>4. CASE SaveProgress(a)
  <2>0. /\ Desk(a, NoDesk) /\ UNCHANGED <<around, reviewFaults>> /\ desk[a].phase = "saving"
        /\ NoDesk \in Desks /\ TrueDesk(NoDesk, OwnIds, Sought)
        /\ desk' \in [Verifiers -> Desks] /\ \A b \in Verifiers : desk'[b] \in {desk[b], NoDesk}
    <3>1. Desk(a, NoDesk) /\ UNCHANGED <<around, reviewFaults>> /\ desk[a].phase = "saving"
      BY <1>4 DEF SaveProgress
    <3>2. NoDesk \in Desks /\ TrueDesk(NoDesk, OwnIds, Sought)
      BY <1>0, NothingRead, NothingIsTrue, Places
    <3> HIDE DEF NoDesk
    <3> QED BY <1>0, <3>1, <3>2 DEF Desk
  <2>1. CASE ~MaySave(a)
    <3>1. UNCHANGED <<letter, cleaner>>
      BY <1>4, <2>1 DEF SaveProgress
    <3>2. reviewFaults' \in 0 .. MaxReviewFaults
      BY <1>0, <2>0, ReviewFaultsCount
    <3> QED BY <1>1, <2>0, <3>1, <3>2, DeskKeeps
  <2>2. CASE MaySave(a)
    <3> PICK next \in Cursors : next = desk[a].next
      BY <1>0 DEF Desks
    <3>1. /\ letter.status = "PENDING_REVIEW" /\ letter.cursor = desk[a].cursor
          /\ TrueCursor(next, OwnIds, Sought) /\ letter.cursor.found \subseteq next.found
          /\ letter.verdict # "RETENTION_DELETED"
      BY <1>0, <2>0, <2>2 DEF MaySave, TrueDesk, TrueLetter
    <3> DEFINE data == Progressed(next)
               bound == CHOOSE m \in next.found : TRUE
    <3>2. Writes(data)
      BY <1>4, <2>2 DEF SaveProgress
    <3>3. CASE next.status = "UNIQUE"
      <4>1. PICK m \in Ids : next.found = {m}
        BY <3>1, <3>3 DEF TrueCursor
      <4>2. bound = m /\ m \in OwnIds /\ next.complete
        BY <3>1, <3>3, <4>1 DEF TrueCursor
      <4>3. m \in 0 .. MaxHistory /\ m # 0
        BY ReviewConstants DEF Ids
      <4>4. data = [[letter EXCEPT !.cursor = next, !.verdict = next.status]
                       EXCEPT !.status = "SENT", !.unknown = FALSE, !.sync = "PENDING", !.message = bound]
        BY <3>3 DEF Progressed
      <4> HIDE DEF bound
      <4>5. /\ data \in Letters /\ data.cursor = next /\ data.verdict = "UNIQUE" /\ data.message = m /\ data.status = "SENT"
        <5> HIDE DEF data
        <5> QED BY <1>0, <3>3, <4>2, <4>3, <4>4 DEF Letters, Verdicts, Cursors
      <4> HIDE DEF data
      <4>6. Sought \subseteq {m}
        BY <3>1, <4>1, <4>2 DEF TrueCursor
      <4>7. TrueLetter(data, OwnIds, Sought) /\ GoodWrite(letter, data)
        BY <3>1, <4>2, <4>3, <4>5, <4>6 DEF TrueLetter, GoodWrite
      <4>8. ChannelStays /\ ended' \in BOOLEAN /\ letter' = data
        BY <1>0, <2>0, <3>2 DEF around, ChannelStays, Writes, ReviewTypeOK
      <4> QED BY <2>0, <3>2, <4>5, <4>7, <4>8, WriteKeeps
    <3>4. CASE next.status # "UNIQUE"
      <4>1. data = [letter EXCEPT !.cursor = next, !.verdict = next.status]
        BY <3>4 DEF Progressed
      <4>2. /\ data \in Letters /\ data.cursor = next /\ data.verdict = next.status /\ data.message = letter.message
            /\ data.status = letter.status
        <5> HIDE DEF data
        <5> QED BY <1>0, <4>1 DEF Letters, Cursors
      <4> HIDE DEF data
      <4>3. TrueLetter(data, OwnIds, Sought) /\ GoodWrite(letter, data)
        BY <1>0, <3>1, <4>2 DEF TrueLetter, GoodWrite, TrueCursor
      <4>4. ChannelStays /\ ended' \in BOOLEAN /\ letter' = data
        BY <1>0, <2>0, <3>2 DEF around, ChannelStays, Writes, ReviewTypeOK
      <4> QED BY <2>0, <3>2, <4>2, <4>3, <4>4, WriteKeeps
    <3> QED BY <3>3, <3>4
  <2> QED BY <2>1, <2>2
<1> QED BY <1>2, <1>3, <1>4 DEF Verifies

(* A row whose revisions and their delivery alone have changed.             *)
LEMMA SyncsAreTrue ==
    ASSUME ReviewTypeOK, TrueLetter(letter, OwnIds, Sought),
           NEW sync \in {"PENDING", "SYNCED", "ABANDONED", "PENDING_REVIEW"}, NEW lag \in 0 .. MaxReviewLag,
           NEW data, data = [letter EXCEPT !.sync = sync, !.lag = lag]
    PROVE  data \in Letters /\ TrueLetter(data, OwnIds, Sought) /\ GoodWrite(letter, data)
<1>1. letter \in Letters
  BY DEF ReviewTypeOK
<1>2. /\ data \in Letters /\ data.cursor = letter.cursor /\ data.verdict = letter.verdict
      /\ data.message = letter.message /\ data.status = letter.status
  BY <1>1 DEF Letters
<1> QED BY <1>2 DEF TrueLetter, GoodWrite

(* The steps of a repair.                                                   *)
LEMMA RepairKeeps ==
    ASSUME ReviewInv, NEW a \in Verifiers, Repairs(a)
    PROVE  ReviewInv' /\ GoodWrite(letter, letter')
<1>0. ReviewTypeOK /\ letter \in Letters /\ TrueLetter(letter, OwnIds, Sought)
      /\ desk[a] \in Desks /\ TrueDesk(desk[a], OwnIds, Sought) /\ desk \in [Verifiers -> Desks]
      /\ letter.sync \in {"PENDING", "SYNCED", "ABANDONED", "PENDING_REVIEW"} /\ letter.lag \in 0 .. MaxReviewLag
  BY ReviewTypes DEF ReviewInv, Letters
<1>1. letter' = letter => GoodWrite(letter, letter')
  BY <1>0 DEF GoodWrite, TrueLetter
<1>2. CASE BeginRepair(a)
  <2>1. PICK action \in {"sync", "remove_controls", "abandon"} :
           /\ (action = "remove_controls" => letter.lag < MaxReviewLag)
           /\ Desk(a, [NoDesk EXCEPT !.phase = "writing", !.action = action,
                                     !.sync = letter.sync, !.lag = letter.lag])
    BY <1>2 DEF BeginRepair
  <2> DEFINE request == [NoDesk EXCEPT !.phase = "writing", !.action = action,
                                       !.sync = letter.sync, !.lag = letter.lag]
  <2>2. /\ request \in Desks /\ request.phase = "writing" /\ request.cursor = initialContinuation
        /\ request.next = initialContinuation /\ request.action = action /\ request.lag = letter.lag
    <3> HIDE DEF NoDesk
    <3> QED BY <1>0, NothingRead DEF Desks
  <2>3. Desk(a, request) /\ UNCHANGED <<around, letter, cleaner, reviewFaults>>
    BY <1>2, <2>1 DEF BeginRepair
  <2> HIDE DEF request
  <2>4. TrueDesk(request, OwnIds, Sought)
    <3>1. Sought \subseteq Ids
      BY <1>0, Places
    <3> QED BY <2>1, <2>2, <3>1, NothingIsTrue DEF TrueDesk
  <2>5. reviewFaults' \in 0 .. MaxReviewFaults
    BY <1>0, <2>3, ReviewFaultsCount
  <2> QED BY <1>1, <2>2, <2>3, <2>4, <2>5, DeskKeeps
<1>3. CASE WriteRepair(a)
  <2>0. /\ Desk(a, NoDesk) /\ UNCHANGED <<around, reviewFaults>> /\ desk[a].phase = "writing"
        /\ NoDesk \in Desks /\ TrueDesk(NoDesk, OwnIds, Sought)
        /\ desk' \in [Verifiers -> Desks] /\ \A b \in Verifiers : desk'[b] \in {desk[b], NoDesk}
    <3>1. Desk(a, NoDesk) /\ UNCHANGED <<around, reviewFaults>> /\ desk[a].phase = "writing"
      BY <1>3 DEF WriteRepair
    <3>2. NoDesk \in Desks /\ TrueDesk(NoDesk, OwnIds, Sought)
      BY <1>0, NothingRead, NothingIsTrue, Places
    <3> HIDE DEF NoDesk
    <3> QED BY <1>0, <3>1, <3>2 DEF Desk
  <2>1. CASE ~RepairWhere(a)
    <3>1. UNCHANGED <<letter, cleaner>>
      BY <1>3, <2>1 DEF WriteRepair
    <3>2. reviewFaults' \in 0 .. MaxReviewFaults
      BY <1>0, <2>0, ReviewFaultsCount
    <3> QED BY <1>1, <2>0, <3>1, <3>2, DeskKeeps
  <2>2. CASE RepairWhere(a)
    <3> PICK action \in {"sync", "remove_controls", "abandon"} : action = desk[a].action
      BY <1>0, <2>0 DEF TrueDesk, Desks
    <3> DEFINE data == RepairData(action)
    <3>1. Writes(data)
      BY <1>3, <2>2 DEF WriteRepair
    <3>2. ChannelStays /\ ended' \in BOOLEAN /\ letter' = data
      BY <1>0, <2>0, <3>1 DEF around, ChannelStays, Writes, ReviewTypeOK
    <3>3. data \in Letters /\ TrueLetter(data, OwnIds, Sought) /\ GoodWrite(letter, data)
      <4>1. CASE action = "sync"
        <5>1. data = [letter EXCEPT !.sync = "PENDING", !.lag = letter.lag]
          BY <1>0, <4>1 DEF RepairData, Letters
        <5> HIDE DEF data
        <5> QED BY <1>0, <5>1, SyncsAreTrue
      <4>2. CASE action = "remove_controls"
        <5>1. data = [letter EXCEPT !.sync = "PENDING", !.lag = letter.lag + 1]
          BY <1>0, <4>2 DEF RepairData, Letters
        <5>2. letter.lag + 1 \in 0 .. MaxReviewLag
          BY <1>0, <2>2, <4>2, ReviewConstants DEF RepairWhere, TrueDesk
        <5> HIDE DEF data
        <5> QED BY <1>0, <5>1, <5>2, SyncsAreTrue
      <4>3. CASE action = "abandon"
        <5>1. data = [letter EXCEPT !.status = "ABANDONED", !.sync = "ABANDONED"]
              /\ letter.status = "PENDING_REVIEW"
          BY <2>2, <4>3 DEF RepairData, RepairWhere
        <5> HIDE DEF data
        <5>2. /\ data \in Letters /\ data.cursor = letter.cursor /\ data.verdict = letter.verdict
              /\ data.message = letter.message /\ data.status = "ABANDONED"
          BY <1>0, <5>1 DEF Letters
        <5> QED BY <1>0, <5>1, <5>2 DEF TrueLetter, GoodWrite
      <4> QED BY <4>1, <4>2, <4>3
    <3> HIDE DEF data
    <3> QED BY <2>0, <3>1, <3>2, <3>3, WriteKeeps
  <2> QED BY <2>1, <2>2
<1> QED BY <1>2, <1>3 DEF Repairs

(* A run that goes on with another cursor, to save it or to delete.         *)
LEMMA RunsGoOn ==
    ASSUME ReviewInv, NEW c \in Cleaners, cleaner[c].phase \in {"scanning", "deleting"}, NEW cursor \in Cursors,
           TrueCursor(cursor, OwnIds, Sought), cleaner[c].cursor.found \subseteq cursor.found,
           \/ Saving(c, cursor)
           \/ Deleting(c, cursor) /\ Sought \subseteq cursor.found,
           UNCHANGED <<around, letter, desk>>, reviewFaults' \in 0 .. MaxReviewFaults
    PROVE  ReviewInv'
<1>0. cleaner[c] \in RunRecords /\ TrueRun(cleaner[c], letter, OwnIds, Sought)
  BY ReviewTypes DEF ReviewInv
<1>1. cursor.found \in SUBSET Ids /\ cursor.found \subseteq OwnIds
  BY DEF Cursors, TrueCursor
<1>2. CASE Saving(c, cursor)
  <2> DEFINE state == [cleaner[c] EXCEPT !.phase = "saving", !.cursor = cursor]
  <2>1. Run(c, state)
    BY <1>2 DEF Saving
  <2>2. state \in RunRecords /\ state.phase = "saving" /\ state.cursor = cursor /\ state.left = cleaner[c].left
        /\ state.fresh = cleaner[c].fresh
    BY <1>0 DEF RunRecords, RunPhases
  <2> HIDE DEF state
  <2>3. TrueRun(state, letter, OwnIds, Sought)
    BY <1>0, <2>2 DEF TrueRun
  <2> QED BY <2>1, <2>2, <2>3, RunKeeps
<1>3. CASE Deleting(c, cursor) /\ Sought \subseteq cursor.found
  <2> DEFINE state == [cleaner[c] EXCEPT !.phase = "deleting", !.cursor = cursor, !.left = cursor.found]
  <2>1. Run(c, state)
    BY <1>3 DEF Deleting
  <2>2. state \in RunRecords /\ state.phase = "deleting" /\ state.cursor = cursor /\ state.left = cursor.found
        /\ state.fresh = cleaner[c].fresh
    BY <1>0, <1>1 DEF RunRecords, RunPhases
  <2> HIDE DEF state
  <2>3. TrueRun(state, letter, OwnIds, Sought)
    BY <1>0, <1>1, <1>3, <2>2 DEF TrueRun
  <2> QED BY <2>1, <2>2, <2>3, RunKeeps
<1> QED BY <1>2, <1>3

(* A run that ends without a write.                                         *)
LEMMA RunsEnd ==
    ASSUME ReviewInv, NEW c \in Cleaners, Run(c, NoRun),
           UNCHANGED <<around, letter, desk>>, reviewFaults' \in 0 .. MaxReviewFaults
    PROVE  ReviewInv'
<1>1. Sought \subseteq Ids
  BY Places DEF ReviewInv
<1>2. NoRun \in RunRecords /\ TrueRun(NoRun, letter, OwnIds, Sought)
  BY <1>1, NothingRead, NothingIsTrue
<1> QED BY <1>2, RunKeeps

(* A run begins with an expired row.                                        *)
LEMMA FindExpiredKeeps ==
    ASSUME ReviewInv, NEW c \in Cleaners, FindExpired(c)
    PROVE  ReviewInv'
<1> DEFINE phase == IF IsUnknown THEN "scanning" ELSE IF letter.message = 0 THEN "local" ELSE "deleting"
           left == IF letter.message = 0 THEN {} ELSE {letter.message}
           state == [phase |-> phase, fresh |-> TRUE, unknown |-> IsUnknown, cursor |-> letter.cursor, left |-> left]
<1>0. /\ ReviewTypeOK /\ letter \in Letters /\ letter.cursor \in Cursors /\ TrueLetter(letter, OwnIds, Sought)
      /\ OwnIds \subseteq Ids /\ (letter.message # 0 => letter.message \in OwnIds)
      /\ letter.unknown \in BOOLEAN
  BY Places, ReviewTypes DEF ReviewInv, Letters
<1>1. Run(c, state) /\ UNCHANGED <<around, letter, desk, reviewFaults>> /\ letter.verdict # "RETENTION_DELETED"
  BY DEF FindExpired, ExpiredRetentionWhere
<1>2. phase \in RunPhases /\ left \in SUBSET Ids /\ left \subseteq OwnIds /\ IsUnknown \in BOOLEAN
  BY <1>0 DEF RunPhases, IsUnknown
<1>3. /\ (phase = "local" => letter.message = 0 /\ letter.verdict = "NONE")
      /\ (phase = "deleting" => Sought \subseteq left)
  BY <1>0 DEF IsUnknown, TrueLetter
<1> HIDE DEF phase, left
<1>4. state \in RunRecords
  BY <1>0, <1>2 DEF RunRecords
<1>5. TrueRun(state, letter, OwnIds, Sought)
  BY <1>0, <1>1, <1>2, <1>3 DEF TrueRun, TrueLetter
<1>6. reviewFaults' \in 0 .. MaxReviewFaults
  BY <1>0, <1>1, ReviewFaultsCount
<1> QED BY <1>1, <1>4, <1>5, <1>6, RunKeeps

(* A run searches one more page, or has searched enough.                    *)
LEMMA ScanKeeps ==
    ASSUME ReviewInv, NEW c \in Cleaners, ScanUnknownCandidate(c)
    PROVE  ReviewInv'
<1> DEFINE previous == cleaner[c].cursor
           next == Scanned(previous)
<1>0. /\ ReviewTypeOK /\ previous \in Cursors /\ TrueCursor(previous, OwnIds, Sought)
      /\ cleaner[c].phase \in {"scanning", "deleting"}
  BY ReviewTypes DEF ReviewInv, TrueRun, RunRecords, ScanUnknownCandidate
<1>1. UNCHANGED <<around, letter, desk>> /\ reviewFaults' \in 0 .. MaxReviewFaults
  BY <1>0, ReviewFaultsCount DEF ScanUnknownCandidate
<1>2. \/ Saving(c, Failing(previous))
      \/ previous.complete /\ Deleting(c, previous)
      \/ Run(c, NoRun)
      \/ previous.pages < PageCap /\ next.complete /\ Deleting(c, next)
      \/ previous.pages < PageCap /\ Saving(c, next)
  BY DEF ScanUnknownCandidate
<1> HIDE DEF previous, next
<1>3. CASE Saving(c, Failing(previous))
  BY <1>0, <1>1, <1>3, FailuresAreTrue, RunsGoOn DEF previous
<1>4. CASE previous.complete /\ Deleting(c, previous)
  <2>1. Sought \subseteq previous.found
    BY <1>0, <1>4 DEF TrueCursor
  <2> QED BY <1>0, <1>1, <1>4, <2>1, RunsGoOn DEF previous
<1>5. CASE Run(c, NoRun)
  BY <1>1, <1>5, RunsEnd
<1>6. CASE previous.pages < PageCap /\ ((next.complete /\ Deleting(c, next)) \/ Saving(c, next))
  <2>1. previous.pages < MaxScans
    <3>1. previous.pages \in Nat
      BY <1>0 DEF Cursors
    <3> QED BY <1>6, <3>1, ReviewConstants
  <2>2. /\ next \in Cursors /\ TrueCursor(next, OwnIds, Sought) /\ previous.found \subseteq next.found
        /\ (next.complete => Sought \subseteq next.found)
    BY <1>0, <2>1, ScansAreTrue DEF next
  <2> QED BY <1>0, <1>1, <1>6, <2>2, RunsGoOn DEF previous
<1> QED BY <1>2, <1>3, <1>4, <1>5, <1>6

(* A run deletes one of its matches from the channel, or fails to.          *)
LEMMA DeleteMatchKeeps ==
    ASSUME ReviewInv, NEW c \in Cleaners, DeleteMatch(c)
    PROVE  ReviewInv'
<1>0. /\ ReviewTypeOK /\ cleaner[c] \in RunRecords /\ TrueRun(cleaner[c], letter, OwnIds, Sought)
      /\ cleaner \in [Cleaners -> RunRecords] /\ cleaner[c].phase = "deleting"
      /\ UNCHANGED <<channel, flying, strayed, gate, ended, expired, letter, desk>>
      /\ cleaner[c].left \subseteq OwnIds
  BY ReviewTypes DEF ReviewInv, TrueRun, DeleteMatch
<1>1. reviewFaults' \in 0 .. MaxReviewFaults
  BY <1>0, ReviewFaultsCount DEF DeleteMatch
<1>2. PICK m \in cleaner[c].left :
         \/ /\ deleted' = deleted \cup {m}
            /\ Run(c, [cleaner[c] EXCEPT !.left = @ \ {m}])
         \/ /\ UNCHANGED deleted
            /\ \/ Saving(c, [cleaner[c].cursor EXCEPT !.trouble = TRUE])
               \/ Run(c, NoRun)
  BY DEF DeleteMatch
<1>3. CASE deleted' = deleted \cup {m} /\ Run(c, [cleaner[c] EXCEPT !.left = @ \ {m}])
  <2> DEFINE state == [cleaner[c] EXCEPT !.left = cleaner[c].left \ {m}]
  <2>1. /\ state \in RunRecords /\ state.phase = "deleting" /\ state.left = cleaner[c].left \ {m}
        /\ state.cursor = cleaner[c].cursor /\ state.fresh = cleaner[c].fresh
    BY <1>0 DEF RunRecords
  <2>2. Run(c, state)
    BY <1>3
  <2> HIDE DEF state
  <2>3. OwnIds' = OwnIds /\ Sought' = Sought \ {m}
    BY <1>0, <1>3 DEF OwnIds, Sought, Standing
  <2>4. TrueRun(state, letter, OwnIds, Sought \ {m})
    <3>1. TrueRun(cleaner[c], letter, OwnIds, Sought \ {m})
      BY <1>0, RecordsStay
    <3> QED BY <1>0, <2>1, <3>1 DEF TrueRun
  <2>5. cleaner' \in [Cleaners -> RunRecords] /\ \A d \in Cleaners : cleaner'[d] = IF d = c THEN state ELSE cleaner[d]
    BY <1>0, <2>1, <2>2 DEF Run
  <2>6. \A d \in Cleaners : TrueRun(cleaner'[d], letter', OwnIds', Sought')
    <3> TAKE d \in Cleaners
    <3>1. TrueRun(cleaner[d], letter, OwnIds, Sought \ {m})
      <4>1. TrueRun(cleaner[d], letter, OwnIds, Sought)
        BY DEF ReviewInv
      <4> QED BY <4>1, RecordsStay
    <3> QED BY <1>0, <2>3, <2>4, <2>5, <3>1
  <2>7. ReviewTypeOK'
    <3>1. deleted' \subseteq OwnIds'
      BY <1>0, <1>3, <2>3, ReviewTypes
    <3>2. letter'.message # 0 => letter'.message \in OwnIds'
      BY <1>0, <2>3, ReviewTypes
    <3> QED BY <1>0, <1>1, <2>5, <3>1, <3>2, ReviewTypes DEF ReviewTypeOK, Desks, RunRecords
  <2>8. OwnIds \subseteq OwnIds' /\ Sought' \subseteq Sought /\ TrueLetter(letter', OwnIds, Sought)
        /\ \A a \in Verifiers : desk'[a] = desk[a]
    BY <1>0, <2>3 DEF ReviewInv
  <2> QED BY <2>6, <2>7, <2>8, ReviewFrame
<1>4. CASE UNCHANGED deleted /\ Saving(c, [cleaner[c].cursor EXCEPT !.trouble = TRUE])
  <2> DEFINE cursor == [cleaner[c].cursor EXCEPT !.trouble = TRUE]
  <2>1. cleaner[c].cursor \in Cursors /\ TrueCursor(cleaner[c].cursor, OwnIds, Sought)
    BY <1>0 DEF RunRecords, TrueRun
  <2>2. cursor \in Cursors /\ TrueCursor(cursor, OwnIds, Sought) /\ cleaner[c].cursor.found \subseteq cursor.found
    BY <1>0, <2>1, FailuresAreTrue
  <2>3. Saving(c, cursor)
    BY <1>4
  <2> HIDE DEF cursor
  <2>4. UNCHANGED <<around, letter, desk>>
    BY <1>0, <1>4 DEF around
  <2> QED BY <1>0, <1>1, <2>2, <2>3, <2>4, RunsGoOn
<1>5. CASE UNCHANGED deleted /\ Run(c, NoRun)
  <2>1. UNCHANGED <<around, letter, desk>>
    BY <1>0, <1>5 DEF around
  <2> QED BY <1>1, <1>5, <2>1, RunsEnd
<1> QED BY <1>2, <1>3, <1>4, <1>5

(* The steps of a run of maintenance.                                       *)
LEMMA CleaningKeeps ==
    ASSUME ReviewInv, NEW c \in Cleaners, Cleans(c) \/ CleanerStops(c)
    PROVE  ReviewInv' /\ GoodWrite(letter, letter')
<1>0. /\ ReviewTypeOK /\ letter \in Letters /\ TrueLetter(letter, OwnIds, Sought)
      /\ cleaner[c] \in RunRecords /\ TrueRun(cleaner[c], letter, OwnIds, Sought)
      /\ cleaner[c].cursor \in Cursors /\ Sought \subseteq Ids
  BY Places, ReviewTypes DEF ReviewInv, RunRecords
<1>1. letter' = letter => GoodWrite(letter, letter')
  BY <1>0 DEF GoodWrite, TrueLetter
<1>2. ASSUME Run(c, NoRun) /\ UNCHANGED letter, UNCHANGED <<around, desk, reviewFaults>>
      PROVE  ReviewInv' /\ GoodWrite(letter, letter')
  <2>1. reviewFaults' \in 0 .. MaxReviewFaults
    BY <1>0, <1>2, ReviewFaultsCount
  <2> QED BY <1>1, <1>2, <2>1, RunsEnd
<1>3. CASE FindExpired(c)
  BY <1>1, <1>3, FindExpiredKeeps DEF FindExpired
<1>4. CASE DeleteLocalCandidate(c)
  <2>1. UNCHANGED <<around, desk, reviewFaults>> /\ cleaner[c].phase = "local"
    BY <1>4 DEF DeleteLocalCandidate
  <2>2. CASE cleaner[c].fresh
    <3> DEFINE data == [letter EXCEPT !.status = "NONE", !.verdict = "RETENTION_DELETED"]
    <3>1. WritesAndEnds(c, data)
      BY <1>4, <2>2 DEF DeleteLocalCandidate
    <3>2. /\ data \in Letters /\ data.status = "NONE" /\ data.verdict = "RETENTION_DELETED"
          /\ data.message = letter.message /\ data.cursor = letter.cursor
      BY <1>0 DEF Letters, Verdicts
    <3>3. letter.message = 0 /\ letter.verdict = "NONE" /\ Sought = {}
      BY <1>0, <2>1, <2>2 DEF TrueRun, TrueLetter
    <3> HIDE DEF data
    <3>4. TrueLetter(data, OwnIds, Sought) /\ GoodWrite(letter, data)
      BY <1>0, <3>2, <3>3 DEF TrueLetter, GoodWrite
    <3>5. letter' = data
      BY <3>1 DEF WritesAndEnds
    <3> QED BY <2>1, <3>1, <3>2, <3>4, <3>5, RunWriteKeeps
  <2>3. CASE ~cleaner[c].fresh
    BY <1>2, <1>4, <2>1, <2>3 DEF DeleteLocalCandidate
  <2> QED BY <2>2, <2>3
<1>5. CASE ScanUnknownCandidate(c)
  BY <1>1, <1>5, ScanKeeps DEF ScanUnknownCandidate
<1>6. CASE SaveScanProgress(c)
  <2>1. UNCHANGED <<around, desk, reviewFaults>> /\ cleaner[c].phase = "saving"
    BY <1>6 DEF SaveScanProgress
  <2>2. CASE cleaner[c].fresh /\ letter.message = 0
    <3> PICK cursor \in Cursors : cursor = cleaner[c].cursor
      BY <1>0
    <3> DEFINE data == [letter EXCEPT !.status = "PENDING_REVIEW", !.unknown = TRUE, !.sync = "ABANDONED",
                                      !.cursor = cursor, !.verdict = cursor.status]
    <3>1. WritesAndEnds(c, data)
      BY <1>6, <2>2 DEF SaveScanProgress
    <3>2. /\ data \in Letters /\ data.status = "PENDING_REVIEW" /\ data.verdict = cursor.status
          /\ data.message = 0 /\ data.cursor = cursor
      BY <1>0, <2>2 DEF Letters, Cursors
    <3>3. letter.verdict # "RETENTION_DELETED" /\ letter.cursor.found \subseteq cursor.found
          /\ TrueCursor(cursor, OwnIds, Sought)
      BY <1>0, <2>1, <2>2 DEF TrueRun
    <3> HIDE DEF data
    <3>4. TrueLetter(data, OwnIds, Sought) /\ GoodWrite(letter, data)
      BY <3>2, <3>3 DEF TrueLetter, GoodWrite, TrueCursor
    <3>5. letter' = data
      BY <3>1 DEF WritesAndEnds
    <3> QED BY <2>1, <3>1, <3>2, <3>4, <3>5, RunWriteKeeps
  <2>3. CASE ~(cleaner[c].fresh /\ letter.message = 0)
    BY <1>2, <1>6, <2>1, <2>3 DEF SaveScanProgress
  <2> QED BY <2>2, <2>3
<1>7. CASE DeleteMatch(c)
  BY <1>1, <1>7, DeleteMatchKeeps DEF DeleteMatch
<1>8. CASE ReduceToTombstone(c)
  <2>1. UNCHANGED <<around, desk, reviewFaults>> /\ cleaner[c].phase = "deleting" /\ cleaner[c].left = {}
    BY <1>8 DEF ReduceToTombstone
  <2>2. CASE cleaner[c].fresh
    <3> DEFINE data == Tombstone
    <3>1. WritesAndEnds(c, data)
      BY <1>8, <2>2 DEF ReduceToTombstone
    <3>2. /\ data \in Letters /\ data.status = "ABANDONED" /\ data.verdict = "RETENTION_DELETED"
          /\ data.message = 0 /\ data.cursor = initialContinuation
      <4> HIDE DEF initialContinuation
      <4> QED BY <1>0, NothingRead, ReviewConstants DEF Tombstone, Letters, Verdicts
    <3>3. letter.verdict # "RETENTION_DELETED" /\ Sought = {}
      BY <1>0, <2>1, <2>2 DEF TrueRun
    <3> HIDE DEF data
    <3>4. TrueCursor(initialContinuation, OwnIds, Sought)
      BY <1>0, NothingIsTrue
    <3>5. TrueLetter(data, OwnIds, Sought) /\ GoodWrite(letter, data)
      BY <3>2, <3>3, <3>4 DEF TrueLetter, GoodWrite
    <3>6. letter' = data
      BY <3>1 DEF WritesAndEnds
    <3> QED BY <2>1, <3>1, <3>2, <3>5, <3>6, RunWriteKeeps
  <2>3. CASE ~cleaner[c].fresh
    BY <1>2, <1>8, <2>1, <2>3 DEF ReduceToTombstone
  <2> QED BY <2>2, <2>3
<1>9. CASE CleanerStops(c)
  <2>1. Run(c, NoRun) /\ UNCHANGED <<around, letter, desk>> /\ reviewFaults' \in 0 .. MaxReviewFaults
    BY <1>0, <1>9, ReviewFaultsCount DEF CleanerStops
  <2> QED BY <1>1, <2>1, RunsEnd
<1> QED BY <1>3, <1>4, <1>5, <1>6, <1>7, <1>8, <1>9 DEF Cleans

(* Somebody writes in the channel: another, or our POST arrives late.       *)
LEMMA PostsKeep ==
    ASSUME ReviewInv, OtherPosts \/ PostArrives
    PROVE  ReviewInv'
<1> PICK poster \in {"own", "other"} :
       channel' = Append(channel, poster) /\ (poster = "own" => strayed') /\ (poster = "other" => UNCHANGED strayed)
  BY DEF OtherPosts, PostArrives
<1>0. /\ ReviewTypeOK /\ UNCHANGED <<deleted, gate, ended, expired, letter, desk, cleaner, reviewFaults>>
      /\ flying' \in BOOLEAN /\ strayed' \in BOOLEAN /\ Len(channel) < MaxHistory
  BY ReviewTypes DEF ReviewInv, OtherPosts, PostArrives
<1>1. /\ channel \in Seq({"own", "other"}) /\ DOMAIN channel = 1 .. Len(channel)
      /\ Len(channel) \in Nat /\ Sought \subseteq OwnIds /\ MaxHistory \in Nat
  BY <1>0, Places, ReviewConstants
<1>2. /\ channel' \in Seq({"own", "other"}) /\ Len(channel') = Len(channel) + 1
      /\ \A m \in 1 .. Len(channel) : channel'[m] = channel[m]
      /\ channel'[Len(channel) + 1] = poster
  BY <1>1
<1>3. channel' \in [1 .. Len(channel) + 1 -> {"own", "other"}] /\ Len(channel) + 1 \in 0 .. MaxHistory
      /\ DOMAIN channel' = 1 .. Len(channel) + 1
  <2>1. ASSUME NEW said \in Seq({"own", "other"})
        PROVE  said \in [1 .. Len(said) -> {"own", "other"}] /\ DOMAIN said = 1 .. Len(said)
    OBVIOUS
  <2>2. channel' \in [1 .. Len(channel) + 1 -> {"own", "other"}] /\ DOMAIN channel' = 1 .. Len(channel) + 1
    BY <1>2, <2>1
  <2> QED BY <1>0, <1>1, <2>2
<1>4. OwnIds' = OwnIds \cup (IF poster = "own" THEN {Len(channel) + 1} ELSE {})
  <2>1. 1 .. Len(channel) + 1 = (1 .. Len(channel)) \cup {Len(channel) + 1} /\ Len(channel) + 1 \notin 1 .. Len(channel)
    BY <1>1
  <2>2. OwnIds = {m \in 1 .. Len(channel) : channel[m] = "own"}
    BY <1>1 DEF OwnIds
  <2>3. OwnIds' = {m \in 1 .. Len(channel) + 1 : channel'[m] = "own"}
    BY <1>3 DEF OwnIds
  <2>4. ASSUME NEW m PROVE m \in OwnIds' <=> m \in OwnIds \/ (poster = "own" /\ m = Len(channel) + 1)
    BY <1>2, <2>1, <2>2, <2>3
  <2> QED BY <2>4
<1>5. OwnIds \subseteq OwnIds' /\ Sought' \subseteq Sought
  <2>1. poster = "other" => Sought' = Sought
    BY <1>0, <1>4 DEF Sought, Standing
  <2>2. poster = "own" => Sought' = {}
    BY DEF Sought
  <2> QED BY <1>4, <2>1, <2>2
<1>6. ReviewTypeOK'
  <2>1. channel' \in UNION {[1 .. n -> {"own", "other"}] : n \in 0 .. MaxHistory}
    BY <1>3
  <2>2. deleted' \subseteq OwnIds' /\ (letter'.message # 0 => letter'.message \in OwnIds')
    BY <1>0, <1>5, ReviewTypes
  <2> QED BY <1>0, <2>1, <2>2, ReviewTypes DEF ReviewTypeOK, Desks, RunRecords
<1>7. \A c \in Cleaners : TrueRun(cleaner'[c], letter', OwnIds', Sought')
  BY <1>0, <1>5, RecordsStay DEF ReviewInv
<1> QED BY <1>0, <1>5, <1>6, <1>7, ReviewFrame DEF ReviewInv

(* Every step keeps the invariant, and the row's matches and tombstone.     *)
LEMMA ReviewKeeps ==
    ASSUME ReviewInv, [ReviewNext]_reviewVars
    PROVE  ReviewInv' /\ GoodWrite(letter, letter')
<1>0. /\ ReviewTypeOK /\ letter \in Letters /\ TrueLetter(letter, OwnIds, Sought)
      /\ desk \in [Verifiers -> Desks] /\ ended \in BOOLEAN
      /\ letter.sync \in {"PENDING", "SYNCED", "ABANDONED", "PENDING_REVIEW"} /\ letter.lag \in 0 .. MaxReviewLag
  BY ReviewTypes DEF ReviewInv, Letters
<1>1. letter' = letter => GoodWrite(letter, letter')
  BY <1>0 DEF GoodWrite, TrueLetter
<1>2. CASE UNCHANGED reviewVars
  <2>1. OwnIds' = OwnIds /\ Sought' = Sought /\ UNCHANGED <<letter, desk, cleaner>>
    BY <1>2 DEF reviewVars, around, OwnIds, Sought, Standing
  <2>2. ReviewTypeOK'
    BY <1>0, <1>2, <2>1 DEF reviewVars, around, ReviewTypeOK
  <2> QED BY <1>1, <2>1, <2>2 DEF ReviewInv
<1>3. ASSUME NEW a \in Verifiers, Verifies(a) PROVE ReviewInv' /\ GoodWrite(letter, letter')
  BY <1>3, VerificationKeeps
<1>4. ASSUME NEW a \in Verifiers, Repairs(a) PROVE ReviewInv' /\ GoodWrite(letter, letter')
  BY <1>4, RepairKeeps
<1>5. ASSUME NEW c \in Cleaners, Cleans(c) \/ CleanerStops(c) PROVE ReviewInv' /\ GoodWrite(letter, letter')
  BY <1>5, CleaningKeeps
<1>6. CASE OtherPosts \/ PostArrives
  BY <1>1, <1>6, PostsKeep DEF OtherPosts, PostArrives
<1>7. ASSUME UNCHANGED <<channel, deleted, flying, strayed, letter, desk, cleaner, reviewFaults>>,
             expired' \in BOOLEAN, ended' \in BOOLEAN, gate' \in [enabled : BOOLEAN, epoch : 0 .. MaxReviewEpoch]
      PROVE  ReviewInv' /\ GoodWrite(letter, letter')
  <2>1. OwnIds' = OwnIds /\ Sought' = Sought
    BY <1>7 DEF OwnIds, Sought, Standing
  <2>2. ReviewTypeOK'
    BY <1>0, <1>7, <2>1, ReviewTypes DEF ReviewTypeOK
  <2> QED BY <1>1, <1>7, <2>1, <2>2 DEF ReviewInv
<1>8. CASE ThirtyDaysPass
  BY <1>0, <1>7, <1>8, ReviewTypes DEF ThirtyDaysPass
<1>9. ASSUME NEW sync \in {"PENDING", "SYNCED", "ABANDONED", "PENDING_REVIEW"}, NEW lag \in 0 .. MaxReviewLag,
             Writes([letter EXCEPT !.sync = sync, !.lag = lag]), ChannelStays, ended' \in BOOLEAN,
             UNCHANGED <<desk, reviewFaults>>
      PROVE  ReviewInv' /\ GoodWrite(letter, letter')
  <2> DEFINE data == [letter EXCEPT !.sync = sync, !.lag = lag]
  <2>1. Writes(data)
    BY <1>9
  <2>2. data \in Letters /\ TrueLetter(data, OwnIds, Sought) /\ GoodWrite(letter, data)
    BY <1>0, SyncsAreTrue
  <2> HIDE DEF data
  <2>3. letter' = data
    BY <2>1 DEF Writes
  <2>4. desk' \in [Verifiers -> Desks] /\ \A a \in Verifiers : desk'[a] \in {desk[a], NoDesk}
    BY <1>0, <1>9
  <2> QED BY <1>9, <2>1, <2>2, <2>3, <2>4, WriteKeeps
<1>10. CASE SiteEnds
  <2>1. CASE letter.status = "NONE"
    BY <1>0, <1>7, <1>10, <2>1, ReviewTypes DEF SiteEnds
  <2>2. CASE letter.status # "NONE"
    <3>1. Writes([letter EXCEPT !.sync = "PENDING", !.lag = letter.lag + 1])
      BY <1>10, <2>2 DEF SiteEnds
    <3>2. letter.lag + 1 \in 0 .. MaxReviewLag
      BY <1>0, <1>10, ReviewConstants DEF SiteEnds
    <3>3. ChannelStays /\ ended' \in BOOLEAN /\ UNCHANGED <<desk, reviewFaults>>
      BY <1>10 DEF SiteEnds, ChannelStays
    <3> QED BY <1>9, <3>1, <3>2, <3>3
  <2> QED BY <2>1, <2>2
<1>11. CASE OutboxSettles
  <2>1. ChannelStays /\ ended' \in BOOLEAN /\ UNCHANGED <<desk, reviewFaults>>
    BY <1>0, <1>11 DEF OutboxSettles, ChannelStays, around
  <2>2. CASE Writes([letter EXCEPT !.sync = "SYNCED", !.lag = 0])
    BY <1>9, <2>1, <2>2, ReviewConstants
  <2>3. CASE \E s \in {"ABANDONED", "PENDING_REVIEW"} : Writes([letter EXCEPT !.sync = s])
    <3>1. PICK s \in {"ABANDONED", "PENDING_REVIEW"} : Writes([letter EXCEPT !.sync = s])
      BY <2>3
    <3>2. [letter EXCEPT !.sync = s] = [letter EXCEPT !.sync = s, !.lag = letter.lag]
      BY <1>0 DEF Letters
    <3>3. Writes([letter EXCEPT !.sync = s, !.lag = letter.lag])
      BY <3>1, <3>2
    <3> QED BY <1>0, <1>9, <2>1, <3>3
  <2> QED BY <1>11, <2>2, <2>3 DEF OutboxSettles
<1>12. CASE MoveGate
  <2>1. gate' \in [enabled : BOOLEAN, epoch : 0 .. MaxReviewEpoch]
    BY <1>0, <1>12, ReviewConstants, ReviewTypes DEF MoveGate
  <2> QED BY <1>0, <1>7, <1>12, <2>1, ReviewTypes DEF MoveGate
<1> QED BY <1>2, <1>3, <1>4, <1>5, <1>6, <1>8, <1>10, <1>11, <1>12 DEF ReviewNext

(* What the invariant says of verdicts and of tombstones.                   *)
LEMMA ReviewIsTrue == ReviewInv => VerdictsAreTrue /\ TombstonesAreClean
BY DEF ReviewInv, TrueLetter, Sought, VerdictsAreTrue, TombstonesAreClean

(* However many requests of administrators and runs of maintenance search   *)
(* the channel over each other, page by page, with failures, stops and      *)
(* repairs between: what a search concludes is so, unless our POST arrived  *)
(* behind its back, no match is lost before the row is reduced, and a       *)
(* tombstone stands for a channel without our message and stays one.        *)
THEOREM ReviewSoundness == ReviewSpec => ReviewIsSound
<1>1. ReviewInv /\ [ReviewNext]_reviewVars => ReviewInv'
  BY ReviewKeeps
<1>2. ReviewInv => ReviewTypeOK /\ VerdictsAreTrue /\ TombstonesAreClean
  BY ReviewIsTrue DEF ReviewInv
<1>3. ReviewInv /\ [ReviewNext]_reviewVars
        => [letter'.verdict # "RETENTION_DELETED" => letter.cursor.found \subseteq letter'.cursor.found]_reviewVars
  BY ReviewKeeps DEF GoodWrite
<1>4. ReviewInv /\ [ReviewNext]_reviewVars
        => [letter.verdict = "RETENTION_DELETED"
              => letter'.verdict = "RETENTION_DELETED" /\ letter'.message = 0 /\ letter'.status = letter.status]_reviewVars
  BY ReviewKeeps DEF GoodWrite
<1> QED BY ReviewStarts, <1>1, <1>2, <1>3, <1>4, PTL DEF ReviewSpec, ReviewIsSound, NoMatchIsForgotten, TombstoneIsFinal
=============================================================================
