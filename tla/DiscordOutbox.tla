---------------------------- MODULE DiscordOutbox ----------------------------
(***************************************************************************)
(* The outbox of one reservation: its DiscordReservationMessage row, the    *)
(* workers that deliver it, the fence, and the message in the channel.      *)
(*                                                                         *)
(* A worker (a cron run, or the run a request starts after its answer)     *)
(* claims the row for the initial POST or for a PATCH, reads what it needs, *)
(* takes a lease, calls Discord and records the outcome.  Every step is a   *)
(* transaction or an HTTP call of its own; workers interleave, and stop.    *)
(* Claim ids are workers: a worker has one claim at a time, and nobody acts *)
(* on the claims it has done with.  A PATCH shows a content; the rest of    *)
(* what is rendered is left out.  An HTTP error answer means that Discord   *)
(* did nothing; a call without an answer may have done it or not.           *)
(*                                                                         *)
(* A definition Bug_... is the one after it with a plausible mistake: no   *)
(* specification uses it, the mutants of PROJECT.json put it in its place. *)
(***************************************************************************)
EXTENDS Naturals

CONSTANTS Workers,
          Bots,                  \* may the Discord application be configured, or not?
          NotificationSettings,  \* values of reservationCreatedNotificationsEnabled
          MaxSyncAttempts,       \* attempts of one PATCH (5 in the code)
          MaxEpoch,              \* bound: how often the fence moves
          MaxCrashes,            \* bound: workers that stop
          MaxFailures,           \* bound: failed reads, saves and POSTs
          MaxLapses              \* bound: claims that lapse under a working holder

ASSUME OutboxAssumption ==
    /\ Bots \subseteq BOOLEAN
    /\ NotificationSettings \subseteq BOOLEAN
    /\ MaxSyncAttempts \in Nat \ {0}
    /\ {MaxEpoch, MaxCrashes, MaxFailures, MaxLapses} \subseteq Nat

None == "none"
ASSUME NoneAssumption == None \notin Workers

VARIABLES reservation, \* its status
          row,         \* the DiscordReservationMessage
          control,     \* the DiscordOperationsControl
          worker,      \* worker -> where it is and what it has read
          posted,      \* the messages in the channel that are about it
          delivered,   \* history: contents that Discord acknowledged
          crashes, failures, lapses

vars == <<reservation, row, control, worker, posted, delivered, crashes, failures, lapses>>
bounds == <<crashes, failures, lapses>>

Statuses == {"CONFIRMED", "CANCELLED", "NO_SHOW"}
Contents == {"INITIAL", "ACCEPTED", "CANCELLED", "NO_SHOW"}
InitialStatuses == {"PENDING", "RETRY", "CLAIMED", "POSTING", "SENT", "ABANDONED", "PENDING_REVIEW"}
SyncStatuses == {"PENDING", "RETRY", "CLAIMED", "PATCHING", "SYNCED", "ABANDONED", "PENDING_REVIEW"}

Revisions == 0 .. 2   \* a reservation is accepted and ends once at most
Rows == [initial      : InitialStatuses,
         initialClaim : Workers \cup {None},
         deadline     : BOOLEAN,             \* postDeadlineAt # NULL
         known        : BOOLEAN,             \* messageId # NULL
         rendered     : 0 .. MaxEpoch,       \* renderedSourceEpoch
         revision     : Revisions,
         synced       : Revisions,
         sync         : SyncStatuses,
         syncClaim    : Workers \cup {None},
         claimed      : Revisions,           \* syncClaimRevision
         attempts     : 0 .. MaxSyncAttempts,
         decision     : {None, "ACCEPTED"}]

PostPhases == {"loading", "control", "fencing", "taking", "posting", "webhook", "calling",
               "saving", "recording", "closing"}
SyncPhases == {"reading", "leasing", "rejected", "patching", "syncSaving", "patchSaving"}
Unread == "unread"
Idle == [phase |-> "idle", epoch |-> 0, status |-> Unread, decision |-> Unread,
         revision |-> 0, attempts |-> 0, outcome |-> None]

WorkerStates == [phase    : PostPhases \cup SyncPhases \cup {"idle"},
                 epoch    : 0 .. MaxEpoch,   \* of the control it read
                 status   : Statuses \cup {Unread},
                 decision : {Unread, None, "ACCEPTED"},
                 revision : Revisions,       \* it claimed
                 attempts : 0 .. MaxSyncAttempts,
                 outcome  : {None, "SENT", "RETRY", "ABANDONED", "UNKNOWN"}]

(* What syncPayload renders.                                               *)
Content(status, decision) ==
    IF status # "CONFIRMED" THEN status
    ELSE IF decision = "ACCEPTED" THEN "ACCEPTED" ELSE "INITIAL"

TypeOK ==
    /\ reservation \in Statuses
    /\ row \in Rows
    /\ control \in [enabled : BOOLEAN, epoch : 0 .. MaxEpoch]
    /\ worker \in [Workers -> WorkerStates]
    /\ posted \in Nat
    /\ delivered \subseteq Contents
    /\ crashes \in 0 .. MaxCrashes /\ failures \in 0 .. MaxFailures /\ lapses \in 0 .. MaxLapses

(* The reservation has just been created, and the row with it.             *)
Init ==
    /\ reservation = "CONFIRMED"
    /\ row = [initial |-> "PENDING", initialClaim |-> None, deadline |-> FALSE, known |-> FALSE,
              rendered |-> 0, revision |-> 0, synced |-> 0, sync |-> "PENDING",
              syncClaim |-> None, claimed |-> 0, attempts |-> 0, decision |-> None]
    /\ control = [enabled |-> TRUE, epoch |-> 0]
    /\ worker = [w \in Workers |-> Idle]
    /\ posted = 0
    /\ delivered = {}
    /\ crashes = 0 /\ failures = 0 /\ lapses = 0

-----------------------------------------------------------------------------
(* How a worker moves on.                                                  *)
At(w, phase) == worker[w].phase = phase
Goes(w, phase) == worker' = [worker EXCEPT ![w].phase = phase]
Saves(w, phase, outcome) == worker' = [worker EXCEPT ![w] = [Idle EXCEPT
    !.phase = phase, !.outcome = outcome, !.epoch = worker[w].epoch,
    !.revision = worker[w].revision, !.attempts = worker[w].attempts]]
Leaves(w) == worker' = [worker EXCEPT ![w] = Idle]

(* The where clause decides: the row is written when it holds.             *)
Update(where, data) == row' = IF where THEN data ELSE row

Fails == failures < MaxFailures /\ failures' = failures + 1

-----------------------------------------------------------------------------
(* The initial send.                                                       *)

(* A claim lapses some time after it was taken: at any time when its holder *)
(* has gone, and early, MaxLapses times, while it is still at work.        *)
Lapses(holder, phases) ==
    IF holder \in Workers /\ worker[holder].phase \in phases
    THEN lapses < MaxLapses /\ lapses' = lapses + 1
    ELSE UNCHANGED lapses

Bug_PostsClaimableWhere ==   \* a POSTING lease lapses like a claim
    \/ row.initial \in {"PENDING", "RETRY"} /\ UNCHANGED lapses
    \/ row.initial \in {"CLAIMED", "POSTING"} /\ Lapses(row.initialClaim, PostPhases)

InitialSendClaimableWhere ==
    \/ row.initial \in {"PENDING", "RETRY"} /\ UNCHANGED lapses
    \/ row.initial = "CLAIMED" /\ Lapses(row.initialClaim, PostPhases)

ClaimInitialSend(w) ==
    /\ At(w, "idle")
    /\ InitialSendClaimableWhere
    /\ row' = [row EXCEPT !.initial = "CLAIMED", !.initialClaim = w]
    /\ Goes(w, "loading")
    /\ UNCHANGED <<reservation, control, posted, delivered, crashes, failures>>

(* It loads the reservation and the notification settings; without an      *)
(* application it goes on with the webhook.                                *)
LoadSnapshot(w) ==
    /\ At(w, "loading")
    /\ \/ /\ reservation # "CONFIRMED" \/ FALSE \in NotificationSettings
          /\ Saves(w, "saving", "ABANDONED")
          /\ UNCHANGED failures
       \/ /\ reservation = "CONFIRMED" /\ TRUE \in NotificationSettings
          /\ \E bot \in Bots : Goes(w, IF bot THEN "control" ELSE "webhook")
          /\ UNCHANGED failures
       \/ Saves(w, "saving", "RETRY") /\ Fails
    /\ UNCHANGED <<reservation, row, control, posted, delivered, crashes, lapses>>

(* It reads the control for the epoch to render.                           *)
ReadControl(w) ==
    /\ At(w, "control")
    /\ IF control.enabled
       THEN worker' = [worker EXCEPT ![w].phase = "fencing", ![w].epoch = control.epoch]
       ELSE Saves(w, "saving", "RETRY")
    /\ UNCHANGED <<reservation, row, control, posted, delivered, bounds>>

(* beginInitialSendPost reads the control once more, without locking it ... *)
CheckFence(w) ==
    /\ At(w, "fencing")
    /\ IF control.enabled /\ control.epoch = worker[w].epoch THEN Goes(w, "taking") ELSE Leaves(w)
    /\ UNCHANGED <<reservation, row, control, posted, delivered, bounds>>

InitialClaimIs(w, statuses) == row.initialClaim = w /\ row.initial \in statuses

(* ... and takes the lease.  A worker refused here asks for a review of a   *)
(* POSTING row that is not its own: that writes nothing.                   *)
TakePostLease(w) ==
    /\ At(w, "taking")
    /\ IF InitialClaimIs(w, {"CLAIMED"})
       THEN /\ row' = [row EXCEPT !.initial = "POSTING", !.deadline = TRUE]
            /\ Goes(w, "posting")
       ELSE Leaves(w) /\ UNCHANGED row
    /\ UNCHANGED <<reservation, control, posted, delivered, bounds>>

(* createChannelMessage: sent, unknown (with or without effect), or failed. *)
Post(w) ==
    /\ At(w, "posting")
    /\ \/ /\ Saves(w, "recording", "SENT")
          /\ posted' = posted + 1
          /\ delivered' = delivered \cup {"INITIAL"}
          /\ UNCHANGED failures
       \/ /\ Saves(w, "recording", "UNKNOWN")
          /\ posted' \in {posted, posted + 1}
          /\ UNCHANGED <<delivered, failures>>
       \/ /\ Saves(w, "recording", "RETRY")
          /\ Fails
          /\ UNCHANGED <<posted, delivered>>
    /\ UNCHANGED <<reservation, row, control, crashes, lapses>>

(* beginInitialSendTerminalDelivery: a lease without a deadline.           *)
BeginWebhook(w) ==
    /\ At(w, "webhook")
    /\ IF InitialClaimIs(w, {"CLAIMED"})
       THEN /\ row' = [row EXCEPT !.initial = "POSTING"]
            /\ Goes(w, "calling")
       ELSE Leaves(w) /\ UNCHANGED row
    /\ UNCHANGED <<reservation, control, posted, delivered, bounds>>

(* Whatever the webhook answers, the send is over.                         *)
CallWebhook(w) ==
    /\ At(w, "calling")
    /\ posted' \in {posted, posted + 1}
    /\ Saves(w, "closing", "ABANDONED")
    /\ UNCHANGED <<reservation, row, control, delivered, bounds>>

(* saveInitialSendSuccess: a message that changed meanwhile is not synced. *)
Bug_InitialSendSucceeds(w) ==
    [row EXCEPT !.initial = "SENT", !.initialClaim = None, !.known = TRUE,
                !.rendered = worker[w].epoch, !.sync = "SYNCED"]
InitialSendSucceeds(w) ==
    [row EXCEPT !.initial = "SENT", !.initialClaim = None, !.known = TRUE,
                !.rendered = worker[w].epoch,
                !.sync = IF row.revision = 0 THEN "SYNCED" ELSE "PENDING"]

(* saveInitialSendFailure                                                  *)
InitialSendFails(status) ==
    [row EXCEPT !.initial = status, !.initialClaim = None,
                !.sync = IF status = "ABANDONED" THEN "ABANDONED" ELSE @]

MayFail(w) == InitialClaimIs(w, {"CLAIMED", "POSTING"})

SaveInitialSend(w) ==
    /\ worker[w].phase \in {"saving", "recording", "closing"}
    /\ LET outcome == worker[w].outcome
       IN  CASE outcome = "SENT" ->
                    Update(InitialClaimIs(w, {"POSTING"}), InitialSendSucceeds(w))
             [] outcome = "UNKNOWN" ->
                    Update(InitialClaimIs(w, {"POSTING"}), [row EXCEPT !.initial = "PENDING_REVIEW"])
             [] OTHER -> Update(MayFail(w), InitialSendFails(outcome))
    /\ Leaves(w)
    /\ UNCHANGED <<reservation, control, posted, delivered, bounds>>

(* The save throws.  After a POST the row is to be reviewed; before one the *)
(* send is to be tried again; after the webhook the save is repeated.      *)
SaveInitialSendThrows(w) ==
    /\ Fails
    /\ \/ At(w, "recording") /\ worker[w].outcome # "UNKNOWN" /\ Saves(w, "recording", "UNKNOWN")
       \/ At(w, "recording") /\ worker[w].outcome = "UNKNOWN" /\ Leaves(w)
       \/ At(w, "saving") /\ Saves(w, "saving", "RETRY")
       \/ At(w, "closing") /\ UNCHANGED worker
    /\ UNCHANGED <<reservation, row, control, posted, delivered, crashes, lapses>>

(* A cron run finds a POST past its deadline, whose worker may still wait. *)
ReconcileExpiredPosts ==
    /\ row.initial = "POSTING" /\ row.deadline
    /\ row' = [row EXCEPT !.initial = "PENDING_REVIEW"]
    /\ UNCHANGED <<reservation, control, worker, posted, delivered, bounds>>

-----------------------------------------------------------------------------
(* Synchronising the message.                                              *)

OneMoreAttempt == IF row.attempts < MaxSyncAttempts THEN row.attempts + 1 ELSE MaxSyncAttempts

SyncClaimableWhere ==
    \/ row.sync \in {"PENDING", "RETRY"} /\ UNCHANGED lapses
    \/ row.sync = "CLAIMED" /\ Lapses(row.syncClaim, SyncPhases)

ClaimMessageSync(w) ==
    /\ At(w, "idle")
    /\ row.known /\ row.revision > row.synced
    /\ SyncClaimableWhere
    /\ row' = [row EXCEPT !.sync = "CLAIMED", !.syncClaim = w, !.claimed = row.revision,
                          !.attempts = OneMoreAttempt]
    /\ worker' = [worker EXCEPT ![w].phase = "reading", ![w].revision = row.revision,
                                ![w].attempts = OneMoreAttempt]
    /\ UNCHANGED <<reservation, control, posted, delivered, crashes, failures>>

(* It reads the reservation and the decision in two transactions at once.  *)
ReadStatus(w) ==
    /\ At(w, "reading") /\ worker[w].status = Unread
    /\ worker' = [worker EXCEPT ![w].status = reservation]
    /\ UNCHANGED <<reservation, row, control, posted, delivered, bounds>>

ReadDecision(w) ==
    /\ At(w, "reading") /\ worker[w].decision = Unread
    /\ worker' = [worker EXCEPT ![w].decision = row.decision]
    /\ UNCHANGED <<reservation, row, control, posted, delivered, bounds>>

ReadFails(w) ==
    /\ At(w, "reading")
    /\ Fails
    /\ Saves(w, "syncSaving", "RETRY")
    /\ UNCHANGED <<reservation, row, control, posted, delivered, crashes, lapses>>

ReadSyncControl(w) ==
    /\ At(w, "reading") /\ Unread \notin {worker[w].status, worker[w].decision}
    /\ \E bot \in Bots :
           IF bot /\ control.enabled
           THEN worker' = [worker EXCEPT ![w].phase = "leasing", ![w].epoch = control.epoch]
           ELSE Saves(w, "syncSaving", "RETRY")
    /\ UNCHANGED <<reservation, row, control, posted, delivered, bounds>>

SyncClaimIs(w, statuses) ==
    /\ row.syncClaim = w /\ row.sync \in statuses
    /\ row.revision = worker[w].revision /\ row.claimed = worker[w].revision

(* beginSyncPatch: here the control is locked while the lease is taken.    *)
Bug_MayPatch(w) == SyncClaimIs(w, {"CLAIMED"})
MayPatch(w) ==
    /\ control.enabled /\ control.epoch = worker[w].epoch
    /\ SyncClaimIs(w, {"CLAIMED"})

BeginSyncPatch(w) ==
    /\ At(w, "leasing")
    /\ Update(MayPatch(w), [row EXCEPT !.sync = "PATCHING"])
    /\ Goes(w, IF MayPatch(w) THEN "patching" ELSE "rejected")
    /\ UNCHANGED <<reservation, control, posted, delivered, bounds>>

(* Without the lease the claim is left to review, if it is still its own.  *)
MarkRejected(w) ==
    /\ At(w, "rejected")
    /\ Update(SyncClaimIs(w, {"CLAIMED"}), [row EXCEPT !.sync = "PENDING_REVIEW"])
    /\ Leaves(w)
    /\ UNCHANGED <<reservation, control, posted, delivered, bounds>>

(* editChannelMessage                                                      *)
Patch(w) ==
    /\ At(w, "patching")
    /\ \/ /\ Saves(w, "patchSaving", "SENT")
          /\ delivered' = delivered \cup {Content(worker[w].status, worker[w].decision)}
       \/ \E outcome \in {"RETRY", "UNKNOWN"} :
              Saves(w, "patchSaving", outcome) /\ UNCHANGED delivered
    /\ UNCHANGED <<reservation, row, control, posted, bounds>>

(* saveSyncFailure                                                         *)
SyncFails(w) ==
    [row EXCEPT !.sync = IF worker[w].attempts < MaxSyncAttempts THEN "RETRY" ELSE "ABANDONED",
                !.syncClaim = None, !.claimed = 0]

Bug_Leased(w) == SyncClaimIs(w, {"CLAIMED"})
Leased(w) == SyncClaimIs(w, {"PATCHING"})

SaveSync(w) ==
    /\ \/ At(w, "syncSaving") /\ Update(SyncClaimIs(w, {"CLAIMED", "PATCHING"}), SyncFails(w))
       \/ /\ At(w, "patchSaving") /\ worker[w].outcome = "SENT"
          /\ Update(Leased(w), [row EXCEPT !.sync = "SYNCED", !.synced = worker[w].revision,
                                           !.rendered = worker[w].epoch,
                                           !.syncClaim = None, !.claimed = 0])
       \/ At(w, "patchSaving") /\ worker[w].outcome = "RETRY" /\ Update(Leased(w), SyncFails(w))
       \/ /\ At(w, "patchSaving") /\ worker[w].outcome = "UNKNOWN"
          /\ Update(Leased(w), [row EXCEPT !.sync = "PENDING_REVIEW"])
    /\ Leaves(w)
    /\ UNCHANGED <<reservation, control, posted, delivered, bounds>>

(* The save of a success throws: the message is to be reviewed.            *)
SaveSyncThrows(w) ==
    /\ At(w, "patchSaving") /\ worker[w].outcome = "SENT"
    /\ Fails
    /\ Saves(w, "patchSaving", "UNKNOWN")
    /\ UNCHANGED <<reservation, row, control, posted, delivered, crashes, lapses>>

-----------------------------------------------------------------------------
(* What happens to the row from elsewhere.                                 *)

NewRevision ==
    [row EXCEPT !.revision = @ + 1, !.sync = "PENDING", !.attempts = 0,
                !.syncClaim = None, !.claimed = 0]

(* The reservation is cancelled or a no-show; a trigger asks for a PATCH.  *)
EndReservation ==
    /\ reservation = "CONFIRMED"
    /\ reservation' \in {"CANCELLED", "NO_SHOW"}
    /\ row' = NewRevision
    /\ UNCHANGED <<control, worker, posted, delivered, bounds>>

(* An administrator accepts it, by a button of the message.                *)
Accept ==
    /\ reservation = "CONFIRMED"
    /\ row.known /\ row.decision = None
    /\ control.enabled /\ row.rendered = control.epoch
    /\ row' = [NewRevision EXCEPT !.decision = "ACCEPTED"]
    /\ UNCHANGED <<reservation, control, worker, posted, delivered, bounds>>

(* The fence: an operator disables Discord, and enables it again.          *)
Disable ==
    /\ control.enabled /\ control.epoch < MaxEpoch
    /\ control' = [enabled |-> FALSE, epoch |-> control.epoch + 1]
    /\ UNCHANGED <<reservation, row, worker, posted, delivered, bounds>>

Reenable ==
    /\ ~control.enabled /\ control.epoch < MaxEpoch
    /\ control' = [enabled |-> TRUE, epoch |-> control.epoch + 1]
    /\ UNCHANGED <<reservation, row, worker, posted, delivered, bounds>>

(* A worker stops: the platform ends it, or an error that nothing catches. *)
Crash(w) ==
    /\ ~At(w, "idle")
    /\ crashes < MaxCrashes
    /\ crashes' = crashes + 1
    /\ Leaves(w)
    /\ UNCHANGED <<reservation, row, control, posted, delivered, failures, lapses>>

-----------------------------------------------------------------------------
PostStep(w) ==
    \/ LoadSnapshot(w) \/ ReadControl(w) \/ CheckFence(w) \/ TakePostLease(w) \/ Post(w)
    \/ BeginWebhook(w) \/ CallWebhook(w) \/ SaveInitialSend(w) \/ SaveInitialSendThrows(w)

SyncStep(w) ==
    \/ ReadStatus(w) \/ ReadDecision(w) \/ ReadFails(w) \/ ReadSyncControl(w)
    \/ BeginSyncPatch(w) \/ MarkRejected(w) \/ Patch(w) \/ SaveSync(w) \/ SaveSyncThrows(w)

Next ==
    \/ \E w \in Workers : \/ ClaimInitialSend(w) \/ PostStep(w)
                          \/ ClaimMessageSync(w) \/ SyncStep(w)
                          \/ Crash(w)
    \/ ReconcileExpiredPosts \/ EndReservation \/ Accept \/ Disable \/ Reenable

Spec == Init /\ [][Next]_vars

(* Workers that run go on, and cron keeps starting runs, which reconcile,   *)
(* claim initial sends and claim syncs.                                    *)
FairSpec ==
    /\ Spec
    /\ \A w \in Workers : WF_vars(PostStep(w) \/ SyncStep(w))
    /\ WF_vars(\E w \in Workers : ClaimInitialSend(w))
    /\ WF_vars(\E w \in Workers : ClaimMessageSync(w))
    /\ WF_vars(ReconcileExpiredPosts)

-----------------------------------------------------------------------------
(* The channel never gets a second message about the reservation, whatever *)
(* lapses, stops or stays unanswered.                                      *)
AtMostOneMessage == posted <= 1

(* A row is SYNCED only when Discord acknowledged what the reservation and *)
(* the decision are now, not what they were when the worker read them.     *)
SyncedWasDelivered ==
    row.sync = "SYNCED" => /\ row.synced = row.revision
                           /\ Content(reservation, row.decision) \in delivered

(* An initial POST that was left to review is never sent again, nor given  *)
(* up, by a worker that comes back late.                                   *)
ReviewedPostIsFinal ==
    [][row.initial = "PENDING_REVIEW" => row'.initial = "PENDING_REVIEW"]_vars

(* Behind the fence no PATCH lease is taken.                               *)
PatchLeasesAreFenced ==
    [][~control.enabled /\ row'.sync = "PATCHING" => row.sync = "PATCHING"]_vars

(* Behind the fence no POST lease is taken.                                *)
PostLeasesAreFenced ==
    [][~control.enabled /\ row'.initial = "POSTING" => row.initial = "POSTING"]_vars

(* Once the fence is open for good every initial send is settled: sent,    *)
(* given up, or left to review; or a worker stopped while it called the     *)
(* webhook, whose claim has no deadline (claimNextInitialSend).             *)
WebhookStranded == crashes > 0 /\ row.initial = "POSTING" /\ ~row.deadline
InitialSendSettles ==
    <>[]control.enabled
        => <>(row.initial \in {"SENT", "ABANDONED", "PENDING_REVIEW"} \/ WebhookStranded)

(* Once the fence is open for good the last state of the message is        *)
(* settled: shown, given up after all attempts, or left to review; or a     *)
(* worker stopped during a PATCH, which nothing takes over.                 *)
PatchStranded == crashes > 0 /\ row.sync = "PATCHING"
MessageSettles ==
    <>[]control.enabled
        => <>[](row.known => row.sync \in {"SYNCED", "ABANDONED", "PENDING_REVIEW"} \/ PatchStranded)

(* A POST is never repeated: neither the channel nor the row gets another.  *)
PostedOnce == [](TypeOK /\ AtMostOneMessage) /\ ReviewedPostIsFinal

(* Whatever was begun for a message ends.                                   *)
MessagesSettle == InitialSendSettles /\ MessageSettles
=============================================================================
