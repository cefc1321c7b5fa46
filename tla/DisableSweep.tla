---------------------------- MODULE DisableSweep ----------------------------
(***************************************************************************)
(* The command that disables the Discord controls, while the outbox and the *)
(* site go on with one message that nobody has decided.                     *)
(*                                                                         *)
(* The command closes the fence and counts the transports under way, waits  *)
(* until no old mutation is in process, then claims what it may, batch by   *)
(* batch, edits the controls away, and records that; what it leaves open it *)
(* keeps in pendingRemoteCleanup, which stops the outbox too.  An operator  *)
(* runs one command at a time, and may kill it.  The outbox's worker is that*)
(* of DiscordOutbox, of which the steps that meet the command are kept.     *)
(***************************************************************************)
EXTENDS Naturals

CONSTANTS MaxBatches,     \* DISCORD_DISABLE_MAX_BATCHES
          MaxSweepEpoch,  \* bound: how often the fence moves
          MaxRevision,    \* bound: revisions of the message
          MaxSweepFaults  \* bound: failed reads and calls, processes that stop, leases that lapse

ASSUME SweepAssumption == MaxBatches \in Nat \ {0} /\ {MaxSweepEpoch, MaxRevision, MaxSweepFaults} \subseteq Nat

VARIABLES control,  \* the DiscordOperationsControl
          message,  \* the DiscordReservationMessage
          face,     \* what the message in the channel shows
          over,     \* is the reservation cancelled or missed?
          patcher,  \* the outbox's worker
          command,  \* the operator's process
          sweepFaults

sweepVars == <<control, message, face, over, patcher, command, sweepFaults>>

Syncs == {"PENDING", "RETRY", "CLAIMED", "PATCHING", "SYNCED", "ABANDONED", "PENDING_REVIEW", "SYNCING"}
Holders == {"nobody", "patcher", "command"}
Faces == {"controls", "ended", "disabled"}
NoPatcher == [phase |-> "idle", epoch |-> 0, shows |-> "controls", revision |-> 0]
NoCommand == [phase |-> "idle", leased |-> FALSE, batch |-> 0, failed |-> FALSE, more |-> FALSE, revision |-> 0]

SweepTypeOK ==
    /\ control \in [enabled : BOOLEAN, epoch : 0 .. MaxSweepEpoch, pending : BOOLEAN]
    /\ message \in [sync : Syncs, due : BOOLEAN, claim : Holders, decided : BOOLEAN,
                   revision : 0 .. MaxRevision]
    /\ face \in Faces /\ over \in BOOLEAN
    /\ patcher \in [phase : {"idle", "claimed", "read", "patching", "saved", "failed", "unknown", "shut", "rejected"},
                    epoch : 0 .. MaxSweepEpoch, shows : Faces, revision : 0 .. MaxRevision]
    /\ command \in [phase : {"idle", "killed", "draining", "claiming", "loading", "editing", "completing", "releasing",
                             "closing", "failing"},
                    leased : BOOLEAN, batch : 0 .. MaxBatches, failed : BOOLEAN, more : BOOLEAN,
                   revision : 0 .. MaxRevision]
    /\ sweepFaults \in 0 .. MaxSweepFaults
    /\ (message.claim = "nobody") = (message.sync \notin {"CLAIMED", "PATCHING", "SYNCING", "PENDING_REVIEW"})

SweepInit ==
    /\ control = [enabled |-> TRUE, epoch |-> 0, pending |-> FALSE]
    /\ message \in [sync : {"SYNCED", "ABANDONED"}, due : {FALSE}, claim : {"nobody"}, decided : {FALSE},
                   revision : {0}]
    /\ face = "controls" /\ over = FALSE
    /\ patcher = NoPatcher /\ command = NoCommand
    /\ sweepFaults = 0

SweepFault == sweepFaults < MaxSweepFaults /\ sweepFaults' = sweepFaults + 1
CommandAt(phase) == command.phase = phase
Unattended == CommandAt("idle") \/ CommandAt("killed")
Commands(phase) == command' = [command EXCEPT !.phase = phase]
Unclaimed(sync, due) == [message EXCEPT !.sync = sync, !.due = due, !.claim = "nobody"]

-----------------------------------------------------------------------------
(* The command.                                                            *)
Transports == {"PATCHING", "SYNCING"} \cap {message.sync}

BeginDisable ==
    /\ Unattended /\ control.epoch < MaxSweepEpoch
    /\ control' = [control EXCEPT !.enabled = FALSE, !.epoch = @ + 1]
    /\ command' = [NoCommand EXCEPT !.phase = "draining", !.leased = Transports # {}]
    /\ UNCHANGED <<message, face, over, patcher, sweepFaults>>

DrainOldMutations ==   \* see DiscordInteractionJobs
    /\ CommandAt("draining")
    /\ Commands("claiming") \/ Commands("failing")
    /\ UNCHANGED <<control, message, face, over, patcher, sweepFaults>>

Bug_ActiveDisableWhere(lapsed) == ~message.decided   \* whoever has claimed it
ActiveDisableWhere(lapsed) ==
    /\ ~message.decided
    /\ message.sync \in {"PENDING", "RETRY", "SYNCED", "ABANDONED"} \/ (message.sync = "SYNCING" /\ lapsed)

ClaimActive ==
    /\ CommandAt("claiming")
    /\ IF command.batch < MaxBatches /\ \E lapsed \in BOOLEAN : ActiveDisableWhere(lapsed)
       THEN /\ message' = [message EXCEPT !.sync = "SYNCING", !.claim = "command"]
            /\ command' = [command EXCEPT !.phase = "loading", !.batch = @ + 1,
                                      !.revision = message.revision]
       ELSE /\ command' = [command EXCEPT !.phase = "closing", !.more = command.batch = MaxBatches]
            /\ UNCHANGED message
    /\ UNCHANGED <<control, face, over, patcher, sweepFaults>>

LoadSnapshot ==
    /\ CommandAt("loading")
    /\ \/ Commands("editing") /\ UNCHANGED sweepFaults
       \/ (Commands("releasing") \/ Commands("failing")) /\ SweepFault
    /\ UNCHANGED <<control, message, face, over, patcher>>

EditControlsAway ==
    /\ CommandAt("editing")
    /\ \/ face' = "disabled" /\ Commands("completing") /\ UNCHANGED sweepFaults
       \/ Commands("releasing") /\ SweepFault /\ (face' = "disabled" \/ UNCHANGED face)
    /\ UNCHANGED <<control, message, over, patcher>>

StillMine == message.sync = "SYNCING" /\ message.claim = "command" /\ ~message.decided
             /\ command.revision = message.revision

ReleasedClaim == Unclaimed("PENDING", FALSE)   \* its next attempt is NULL: no run of the outbox takes it

CompleteDisableClaim ==
    /\ CommandAt("completing")
    /\ IF StillMine
       THEN message' = [Unclaimed("SYNCED", FALSE) EXCEPT !.decided = TRUE] /\ Commands("claiming")
       ELSE UNCHANGED message /\ Commands("releasing")
    /\ UNCHANGED <<control, face, over, patcher, sweepFaults>>

ReleaseDisableClaim ==
    /\ CommandAt("releasing")
    /\ message' = IF StillMine THEN ReleasedClaim ELSE message
    /\ command' = [command EXCEPT !.phase = "closing", !.failed = TRUE, !.more = TRUE]
    /\ UNCHANGED <<control, face, over, patcher, sweepFaults>>

CleanupPending == CommandAt("failing") \/ command.leased \/ command.failed \/ command.more

SetPendingRemoteCleanup ==
    /\ CommandAt("closing") \/ CommandAt("failing")
    /\ control' = [control EXCEPT !.pending = CleanupPending]
    /\ command' = NoCommand
    /\ UNCHANGED <<message, face, over, patcher, sweepFaults>>

CommandIsKilled ==
    /\ ~Unattended /\ SweepFault
    /\ command' = [NoCommand EXCEPT !.phase = "killed"]
    /\ UNCHANGED <<control, message, face, over, patcher>>

Reenable ==   \* the command's line acknowledges what is left
    /\ Unattended /\ ~control.enabled /\ control.epoch < MaxSweepEpoch
    /\ control' = [enabled |-> TRUE, epoch |-> control.epoch + 1, pending |-> FALSE]
    /\ UNCHANGED <<message, face, over, patcher, command, sweepFaults>>

-----------------------------------------------------------------------------
(* The outbox, which sees the control in the transaction of its lease.      *)
PatcherAt(phase) == patcher.phase = phase
Patches(phase) == patcher' = [patcher EXCEPT !.phase = phase]

ClaimSyncs ==
    /\ PatcherAt("idle")
    /\ \/ message.sync \in {"PENDING", "RETRY"} /\ message.due /\ UNCHANGED sweepFaults
       \/ message.sync = "CLAIMED" /\ UNCHANGED sweepFaults   \* of a worker that has stopped
    /\ message' = [message EXCEPT !.sync = "CLAIMED", !.claim = "patcher"]
    /\ patcher' = [NoPatcher EXCEPT !.phase = "claimed", !.revision = message.revision]
    /\ UNCHANGED <<control, face, over, command>>

Shown == IF over THEN "ended" ELSE IF message.decided THEN "disabled" ELSE "controls"

ReadSource ==   \* and then the control, before the lease
    /\ PatcherAt("claimed")
    /\ patcher' = [patcher EXCEPT !.phase = IF control.enabled /\ ~control.pending THEN "read" ELSE "shut",
                                  !.epoch = control.epoch, !.shows = Shown]
    /\ UNCHANGED <<control, message, face, over, command, sweepFaults>>

Mine(sync) == message.sync = sync /\ message.claim = "patcher" /\ patcher.revision = message.revision

LeaseAllowed == control.enabled /\ ~control.pending /\ control.epoch = patcher.epoch /\ Mine("CLAIMED")

BeginSyncPatch ==
    /\ PatcherAt("read")
    /\ IF LeaseAllowed THEN message' = [message EXCEPT !.sync = "PATCHING"] /\ Patches("patching")
       ELSE UNCHANGED message /\ Patches("rejected")
    /\ UNCHANGED <<control, face, over, command, sweepFaults>>

CallPatch ==
    /\ PatcherAt("patching")
    /\ \/ face' = patcher.shows /\ Patches("saved") /\ UNCHANGED sweepFaults
       \/ Patches("failed") /\ SweepFault /\ UNCHANGED face
       \/ Patches("unknown") /\ SweepFault /\ face' \in {face, patcher.shows}
    /\ UNCHANGED <<control, message, over, command>>

Retried == {Unclaimed("RETRY", TRUE), Unclaimed("ABANDONED", FALSE)}   \* given up at the fifth attempt

RecordSync ==
    /\ \/ PatcherAt("saved") /\ message' = IF Mine("PATCHING") THEN Unclaimed("SYNCED", FALSE) ELSE message
       \/ PatcherAt("failed") /\ \E row \in Retried : message' = IF Mine("PATCHING") THEN row ELSE message
       \/ /\ PatcherAt("unknown")
          /\ message' = IF Mine("PATCHING") THEN [message EXCEPT !.sync = "PENDING_REVIEW", !.due = FALSE] ELSE message
       \/ PatcherAt("shut") /\ \E row \in Retried : message' = IF Mine("CLAIMED") THEN row ELSE message
       \/ /\ PatcherAt("rejected")
          /\ message' = IF Mine("CLAIMED") THEN [message EXCEPT !.sync = "PENDING_REVIEW", !.due = FALSE] ELSE message
    /\ patcher' = NoPatcher
    /\ UNCHANGED <<control, face, over, command, sweepFaults>>

PatcherStops ==
    /\ ~PatcherAt("idle") /\ SweepFault
    /\ patcher' = NoPatcher
    /\ UNCHANGED <<control, message, face, over, command>>

(* The site cancels or misses the reservation; an operator asks for the    *)
(* message again.  Each is the next revision, whoever is at work on it.     *)
Revised == [Unclaimed("PENDING", TRUE) EXCEPT !.revision = @ + 1]

SiteRevises ==
    /\ ~over /\ message.revision < MaxRevision
    /\ over' = TRUE /\ message' = Revised
    /\ UNCHANGED <<control, face, patcher, command, sweepFaults>>

OperatorRepairs ==
    /\ control.enabled /\ ~control.pending /\ message.revision < MaxRevision
    /\ message.sync \in {"ABANDONED", "PENDING_REVIEW"}
    /\ message' = Revised
    /\ UNCHANGED <<control, face, over, patcher, command, sweepFaults>>

SweepNext ==
    \/ BeginDisable \/ DrainOldMutations \/ ClaimActive \/ LoadSnapshot \/ EditControlsAway
    \/ CompleteDisableClaim \/ ReleaseDisableClaim \/ SetPendingRemoteCleanup \/ CommandIsKilled \/ Reenable
    \/ ClaimSyncs \/ ReadSource \/ BeginSyncPatch \/ CallPatch \/ RecordSync \/ PatcherStops
    \/ SiteRevises \/ OperatorRepairs

SweepSpec == SweepInit /\ [][SweepNext]_sweepVars

-----------------------------------------------------------------------------
(* After the command has reported that nothing is pending, no PATCH and no  *)
(* sweep that was leased before the fence still holds the message           *)
(* (DEPLOYMENT.md:320-322); of a command that was killed nothing is known.  *)
LeasesAreTracked ==
    ~control.enabled /\ CommandAt("idle") /\ message.sync \in {"PATCHING", "SYNCING"} => control.pending

(* Controls that were edited away come back only by the PATCH of an older   *)
(* revision, whose lease the site's change took away while it was under way.*)
ControlsDoNotComeBack ==
    [][face # "controls" /\ face' = "controls" => patcher.revision < message.revision]_sweepVars

(* The safety of the sweep: it loses no lease, and what it took off is off. *)
SweepIsSafe == [](SweepTypeOK /\ LeasesAreTracked) /\ ControlsDoNotComeBack
=============================================================================
