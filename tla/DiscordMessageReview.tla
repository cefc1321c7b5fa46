------------------------ MODULE DiscordMessageReview ------------------------
(***************************************************************************)
(* What becomes of the row of a reservation's message when nobody knows     *)
(* whether its POST arrived, and of every such row after thirty days.       *)
(*                                                                         *)
(* An administrator verifies: page by page, newest first, the history of    *)
(* the channel is searched for messages with the row's nonce, and a single  *)
(* one is bound to the row.  Or repairs: abandons, or has the message       *)
(* synchronised again.  The retention stage of maintenance deletes expired  *)
(* messages from the channel and leaves a tombstone; of rows without a      *)
(* message it searches the channel first.  They share the row and its       *)
(* cursor, and overlap.                                                     *)
(*                                                                         *)
(* The channel is a sequence of messages, the oldest first, of which some   *)
(* are ours; a message is named by its place.  A cursor is compared by its  *)
(* text, hence by its value.  The boundary of a search is the word that the *)
(* outbox wrote, never a message: no page contains it.  Left out: audit     *)
(* rows, retry times, and pendingRemoteCleanup (see DisableSweep).          *)
(***************************************************************************)
EXTENDS Naturals, Sequences, FiniteSets, FiniteSetsExt

CONSTANTS Verifiers, Cleaners,
          Channels,       \* may a row without a message know its channel? (see ReviewRows)
          PageSize, PageCap,
          MaxHistory,     \* bound: messages in the channel
          MaxScans,       \* bound: pages that one cursor counts
          MaxReviewEpoch, \* bound: how often the fence moves
          MaxReviewLag,         \* bound: revisions that a message lags behind
          MaxReviewFaults \* bound: failed calls and runs that stop

ASSUME ReviewAssumption ==
    /\ Channels \subseteq BOOLEAN
    /\ {PageSize, PageCap} \subseteq Nat \ {0} /\ PageCap <= MaxScans
    /\ {MaxHistory, MaxScans, MaxReviewEpoch, MaxReviewLag, MaxReviewFaults} \subseteq Nat

VARIABLES channel,   \* "own" or "other" for every message ever posted
          deleted,   \* those that are gone
          flying,    \* may our POST still arrive?
          strayed,   \* history: did it arrive after the review had begun?
          letter,    \* the DiscordReservationMessage
          gate,      \* the DiscordOperationsControl
          ended,     \* is the reservation cancelled or missed?
          expired,   \* are the thirty days over?
          desk,      \* verifier -> where its request is
          cleaner,   \* run of maintenance -> where it is
          reviewFaults

around == <<channel, deleted, flying, strayed, gate, ended, expired>>
reviewVars == <<around, letter, desk, cleaner, reviewFaults>>

Ids == 1 .. MaxHistory
FromNewest == MaxHistory + 1   \* before = null
OwnIds == {m \in DOMAIN channel : channel[m] = "own"}
Standing == OwnIds \ deleted

Verdicts == {"NONE", "PENDING", "ERROR", "PARTIAL", "ZERO_PARTIAL", "ZERO_COMPLETE", "UNIQUE", "MULTIPLE",
             "RETENTION_DELETED"}
Cursors == [before : 1 .. FromNewest, complete : BOOLEAN, found : SUBSET Ids, pages : 0 .. MaxScans,
            trouble : BOOLEAN, status : Verdicts]
initialContinuation == [before |-> FromNewest, complete |-> FALSE, found |-> {}, pages |-> 0,
                        trouble |-> FALSE, status |-> "ZERO_PARTIAL"]

Letters == [status  : {"SENT", "ABANDONED", "PENDING_REVIEW", "NONE"},   \* initialSendStatus; NONE: no row
            unknown : BOOLEAN,             \* initialSendOutcome = UNKNOWN
            placed  : BOOLEAN,             \* channelId # NULL
            message : 0 .. MaxHistory,
            verdict : Verdicts,            \* remoteVerificationStatus
            cursor  : Cursors,
            sync    : {"PENDING", "SYNCED", "ABANDONED", "PENDING_REVIEW"},
            lag     : 0 .. MaxReviewLag]         \* messageRevision - syncedRevision

NoDesk == [phase |-> "idle", action |-> "none", cursor |-> initialContinuation,
           next |-> initialContinuation, sync |-> "PENDING", lag |-> 0]
NoRun == [phase |-> "idle", fresh |-> FALSE, unknown |-> FALSE, cursor |-> initialContinuation, left |-> {}]
RunPhases == {"idle", "local", "scanning", "saving", "deleting"}

ReviewTypeOK ==
    /\ channel \in UNION {[1 .. n -> {"own", "other"}] : n \in 0 .. MaxHistory}
    /\ deleted \subseteq OwnIds
    /\ {flying, strayed, ended, expired} \subseteq BOOLEAN
    /\ letter \in Letters
    /\ gate \in [enabled : BOOLEAN, epoch : 0 .. MaxReviewEpoch]
    /\ desk \in [Verifiers -> [phase : {"idle", "listing", "saving", "writing"},
                               action : {"none", "sync", "remove_controls", "abandon"},
                               cursor : Cursors, next : Cursors,
                               sync : {"PENDING", "SYNCED", "ABANDONED", "PENDING_REVIEW"}, lag : 0 .. MaxReviewLag]]
    /\ cleaner \in [Cleaners -> [phase : RunPhases, fresh : BOOLEAN, unknown : BOOLEAN,
                                 cursor : Cursors, left : SUBSET Ids]]
    /\ reviewFaults \in 0 .. MaxReviewFaults
    /\ letter.message # 0 => letter.message \in OwnIds

(* A POST without an answer, one that was answered, and one that failed for *)
(* good.  The outbox writes channelId together with messageId: a row under  *)
(* review has none.  The tests of verification begin with rows that have.   *)
NoLetter == [status |-> "ABANDONED", unknown |-> FALSE, placed |-> FALSE, message |-> 0,
             verdict |-> "NONE", cursor |-> initialContinuation, sync |-> "ABANDONED", lag |-> 0]
ReviewRows ==
    {[NoLetter EXCEPT !.status = "PENDING_REVIEW", !.placed = p, !.verdict = "PENDING",
                      !.sync = "PENDING"] : p \in Channels}
SentRows == {[NoLetter EXCEPT !.status = "SENT", !.placed = TRUE, !.message = m, !.sync = "SYNCED"] : m \in OwnIds}

ReviewInit ==
    /\ channel \in UNION {[1 .. n -> {"own", "other"}] : n \in 0 .. MaxHistory}
    /\ deleted = {}
    /\ flying \in BOOLEAN /\ (flying => OwnIds = {})
    /\ strayed = FALSE
    /\ letter \in ReviewRows \cup {NoLetter} \cup (IF Cardinality(OwnIds) = 1 THEN SentRows ELSE {})
    /\ (letter.status = "ABANDONED" => OwnIds = {}) /\ (letter.status # "PENDING_REVIEW" => ~flying)
    /\ gate = [enabled |-> TRUE, epoch |-> 0]
    /\ ended = FALSE /\ expired = FALSE
    /\ desk = [a \in Verifiers |-> NoDesk]
    /\ cleaner = [c \in Cleaners |-> NoRun]
    /\ reviewFaults = 0

ReviewFault == reviewFaults < MaxReviewFaults /\ reviewFaults' = reviewFaults + 1

(* Every write sets updatedAt, by which the other runs notice it.           *)
Writes(data) ==
    /\ letter' = data
    /\ cleaner' = [c \in Cleaners |-> [cleaner[c] EXCEPT !.fresh = FALSE]]
WritesAndEnds(c, data) ==
    /\ letter' = data
    /\ cleaner' = [d \in Cleaners |-> IF d = c THEN NoRun ELSE [cleaner[d] EXCEPT !.fresh = FALSE]]
Run(c, changed) == cleaner' = [cleaner EXCEPT ![c] = changed]
Desk(a, changed) == desk' = [desk EXCEPT ![a] = changed]

-----------------------------------------------------------------------------
(* One page of history, and what it adds to a cursor.                       *)
Below(before) == {m \in DOMAIN channel \ deleted : m < before}
Page(before) == {m \in Below(before) : Cardinality({n \in Below(before) : n >= m}) <= PageSize}

Bug_verificationStatus(complete, found) ==   \* one match is enough
    IF found # {} THEN IF Cardinality(found) = 1 THEN "UNIQUE" ELSE "MULTIPLE"
    ELSE IF complete THEN "ZERO_COMPLETE" ELSE "ZERO_PARTIAL"
verificationStatus(complete, found) ==
    IF ~complete THEN IF found = {} THEN "ZERO_PARTIAL" ELSE "PARTIAL"
    ELSE IF found = {} THEN "ZERO_COMPLETE" ELSE IF Cardinality(found) = 1 THEN "UNIQUE" ELSE "MULTIPLE"

Scanned(previous) ==
    LET page == Page(previous.before)
        found == previous.found \cup (page \cap OwnIds)
        complete == Cardinality(page) < PageSize
    IN [before |-> IF page = {} THEN previous.before ELSE Min(page),
        complete |-> complete, found |-> found, pages |-> previous.pages + 1,
        trouble |-> FALSE, status |-> verificationStatus(complete, found)]
Failing(previous) == [previous EXCEPT !.complete = FALSE, !.trouble = TRUE, !.status = "ERROR"]

-----------------------------------------------------------------------------
(* Verification: the row is read, a page is fetched, the row is written.    *)
SinceRendered == gate.enabled /\ gate.epoch = 0   \* the row's epochs are 0

LoadTarget(a) ==
    /\ desk[a].phase = "idle"
    /\ SinceRendered /\ letter.status = "PENDING_REVIEW" /\ letter.placed
    /\ letter.cursor.pages < MaxScans
    /\ Desk(a, [NoDesk EXCEPT !.phase = "listing", !.cursor = letter.cursor])
    /\ UNCHANGED <<around, letter, cleaner, reviewFaults>>

ListPage(a) ==
    /\ desk[a].phase = "listing"
    /\ \/ Desk(a, [desk[a] EXCEPT !.phase = "saving", !.next = Scanned(desk[a].cursor)]) /\ UNCHANGED reviewFaults
       \/ Desk(a, [desk[a] EXCEPT !.phase = "saving", !.next = Failing(desk[a].cursor)]) /\ ReviewFault
    /\ UNCHANGED <<around, letter, cleaner>>

MaySave(a) ==
    SinceRendered /\ letter.status = "PENDING_REVIEW" /\ letter.cursor = desk[a].cursor

Progressed(next) ==
    LET noted == [letter EXCEPT !.cursor = next, !.verdict = next.status]
    IN IF next.status = "UNIQUE"
       THEN [noted EXCEPT !.status = "SENT", !.unknown = FALSE, !.sync = "PENDING",
                          !.message = CHOOSE m \in next.found : TRUE]
       ELSE noted

SaveProgress(a) ==
    /\ desk[a].phase = "saving"
    /\ IF MaySave(a) THEN Writes(Progressed(desk[a].next)) ELSE UNCHANGED <<letter, cleaner>>
    /\ Desk(a, NoDesk)
    /\ UNCHANGED <<around, reviewFaults>>

-----------------------------------------------------------------------------
(* Repair: the row is read and found eligible, then written where it is as  *)
(* it was in what the action compares.                                      *)
IsEligible(action) ==
    \/ action = "sync" /\ letter.message # 0 /\ letter.lag > 0
    \/ action = "remove_controls" /\ letter.message # 0 /\ ended
    \/ /\ action = "abandon" /\ letter.status = "PENDING_REVIEW"
       /\ letter.verdict \in {"ERROR", "MULTIPLE", "ZERO_COMPLETE"}

RepairData(action) ==
    CASE action = "sync"            -> [letter EXCEPT !.sync = "PENDING"]
      [] action = "remove_controls" -> [letter EXCEPT !.sync = "PENDING", !.lag = @ + 1]
      [] action = "abandon"         -> [letter EXCEPT !.status = "ABANDONED", !.sync = "ABANDONED"]

RepairWhere(a) ==
    IF desk[a].action = "abandon" THEN letter.status = "PENDING_REVIEW"
    ELSE letter.sync = desk[a].sync /\ letter.lag = desk[a].lag

BeginRepair(a) ==
    /\ desk[a].phase = "idle" /\ gate.enabled
    /\ \E action \in {"sync", "remove_controls", "abandon"} :
          /\ IsEligible(action) /\ (action = "abandon" \/ SinceRendered)
          /\ (action = "remove_controls" => letter.lag < MaxReviewLag)
          /\ Desk(a, [NoDesk EXCEPT !.phase = "writing", !.action = action,
                                    !.sync = letter.sync, !.lag = letter.lag])
    /\ UNCHANGED <<around, letter, cleaner, reviewFaults>>

WriteRepair(a) ==
    /\ desk[a].phase = "writing"
    /\ IF RepairWhere(a) THEN Writes(RepairData(desk[a].action)) ELSE UNCHANGED <<letter, cleaner>>
    /\ Desk(a, NoDesk)
    /\ UNCHANGED <<around, reviewFaults>>

-----------------------------------------------------------------------------
(* Retention.                                                               *)
Bug_SyncSettled == letter.sync = "SYNCED"   \* not what was given up
SyncSettled == letter.sync \in {"SYNCED", "ABANDONED"}
IsUnknown ==
    /\ letter.message = 0
    /\ letter.status = "PENDING_REVIEW" \/ letter.unknown \/ letter.verdict # "NONE"

ExpiredRetentionWhere ==
    /\ expired /\ letter.verdict # "RETENTION_DELETED"
    /\ \/ letter.status \in {"SENT", "ABANDONED"} /\ letter.message # 0 /\ SyncSettled
       \/ letter.status = "PENDING_REVIEW" /\ letter.message = 0
       \/ letter.status = "ABANDONED" /\ letter.message = 0 /\ (letter.unknown \/ letter.verdict # "NONE")
       \/ letter.status \in {"SENT", "ABANDONED"} /\ letter.message = 0 /\ letter.verdict = "NONE" /\ SyncSettled

FindExpired(c) ==
    /\ cleaner[c].phase = "idle" /\ ExpiredRetentionWhere
    /\ Run(c, [phase |-> IF IsUnknown THEN "scanning" ELSE IF letter.message = 0 THEN "local" ELSE "deleting",
               fresh |-> TRUE, unknown |-> IsUnknown, cursor |-> letter.cursor,
               left |-> IF letter.message = 0 THEN {} ELSE {letter.message}])
    /\ UNCHANGED <<around, letter, desk, reviewFaults>>

DeleteLocalCandidate(c) ==
    /\ cleaner[c].phase = "local"
    /\ IF cleaner[c].fresh THEN WritesAndEnds(c, [letter EXCEPT !.status = "NONE", !.verdict = "RETENTION_DELETED"])
       ELSE Run(c, NoRun) /\ UNCHANGED letter
    /\ UNCHANGED <<around, desk, reviewFaults>>

Saving(c, cursor) == Run(c, [cleaner[c] EXCEPT !.phase = "saving", !.cursor = cursor])
Deleting(c, cursor) == Run(c, [cleaner[c] EXCEPT !.phase = "deleting", !.cursor = cursor, !.left = cursor.found])

ScanUnknownCandidate(c) ==
    LET previous == cleaner[c].cursor
    IN /\ cleaner[c].phase = "scanning"
       /\ \/ ~letter.placed /\ Saving(c, Failing(previous)) /\ UNCHANGED reviewFaults
          \/ /\ letter.placed /\ previous.complete
             /\ IF previous.found = {} THEN Run(c, NoRun) ELSE Deleting(c, previous)
             /\ UNCHANGED reviewFaults
          \/ letter.placed /\ ~previous.complete /\ previous.pages >= PageCap /\ Run(c, NoRun) /\ UNCHANGED reviewFaults
          \/ /\ letter.placed /\ ~previous.complete /\ previous.pages < PageCap
             /\ LET next == Scanned(previous)
                IN \/ /\ IF next.complete /\ next.found # {} THEN Deleting(c, next) ELSE Saving(c, next)
                      /\ UNCHANGED reviewFaults
                   \/ Saving(c, Failing(previous)) /\ ReviewFault
       /\ UNCHANGED <<around, letter, desk>>

SaveScanProgress(c) ==
    /\ cleaner[c].phase = "saving"
    /\ IF cleaner[c].fresh /\ letter.message = 0
       THEN WritesAndEnds(c, [letter EXCEPT !.status = "PENDING_REVIEW", !.unknown = TRUE, !.sync = "ABANDONED",
                                            !.cursor = cleaner[c].cursor, !.verdict = cleaner[c].cursor.status])
       ELSE Run(c, NoRun) /\ UNCHANGED letter
    /\ UNCHANGED <<around, desk, reviewFaults>>

DeleteMatch(c) ==
    /\ cleaner[c].phase = "deleting" /\ cleaner[c].left # {}
    /\ \E m \in cleaner[c].left :
          \/ /\ deleted' = deleted \cup {m}
             /\ Run(c, [cleaner[c] EXCEPT !.left = @ \ {m}])
             /\ UNCHANGED reviewFaults
          \/ /\ ReviewFault /\ UNCHANGED deleted
             /\ IF cleaner[c].unknown THEN Saving(c, [cleaner[c].cursor EXCEPT !.trouble = TRUE])
                ELSE Run(c, NoRun)
    /\ UNCHANGED <<channel, flying, strayed, gate, ended, expired, letter, desk>>

Tombstone == [letter EXCEPT !.status = "ABANDONED", !.message = 0, !.cursor = initialContinuation,
                            !.verdict = "RETENTION_DELETED", !.sync = "ABANDONED"]

ReduceToTombstone(c) ==
    /\ cleaner[c].phase = "deleting" /\ cleaner[c].left = {}
    /\ IF cleaner[c].fresh THEN WritesAndEnds(c, Tombstone) ELSE Run(c, NoRun) /\ UNCHANGED letter
    /\ UNCHANGED <<around, desk, reviewFaults>>

CleanerStops(c) ==
    /\ cleaner[c].phase # "idle" /\ ReviewFault
    /\ Run(c, NoRun)
    /\ UNCHANGED <<around, letter, desk>>

-----------------------------------------------------------------------------
(* Around it.                                                               *)
OtherPosts ==
    /\ Len(channel) < MaxHistory
    /\ channel' = Append(channel, "other")
    /\ UNCHANGED <<deleted, flying, strayed, gate, ended, expired, letter, desk, cleaner, reviewFaults>>

PostArrives ==   \* later than the timeout of its call, never as late as the expiry
    /\ flying /\ ~expired /\ Len(channel) < MaxHistory
    /\ channel' = Append(channel, "own") /\ flying' = FALSE /\ strayed' = TRUE
    /\ UNCHANGED <<deleted, gate, ended, expired, letter, desk, cleaner, reviewFaults>>

ThirtyDaysPass ==
    /\ ~expired /\ expired' = TRUE
    /\ UNCHANGED <<channel, deleted, flying, strayed, gate, ended, letter, desk, cleaner, reviewFaults>>

SiteEnds ==   \* the trigger on the reservation's status
    /\ ~ended /\ ended' = TRUE
    /\ letter.lag < MaxReviewLag
    /\ IF letter.status # "NONE" THEN Writes([letter EXCEPT !.sync = "PENDING", !.lag = @ + 1])
       ELSE UNCHANGED <<letter, cleaner>>
    /\ UNCHANGED <<channel, deleted, flying, strayed, gate, expired, desk, reviewFaults>>

OutboxSettles ==   \* what DiscordOutbox does in many steps
    /\ letter.message # 0 /\ letter.sync = "PENDING" /\ letter.lag > 0
    /\ \/ Writes([letter EXCEPT !.sync = "SYNCED", !.lag = 0])
       \/ \E s \in {"ABANDONED", "PENDING_REVIEW"} : Writes([letter EXCEPT !.sync = s])
    /\ UNCHANGED <<around, desk, reviewFaults>>

MoveGate ==   \* waits for repairs, which hold the control FOR SHARE
    /\ gate.epoch < MaxReviewEpoch
    /\ \A a \in Verifiers : desk[a].phase # "writing"
    /\ gate' = [enabled |-> ~gate.enabled, epoch |-> gate.epoch + 1]
    /\ UNCHANGED <<channel, deleted, flying, strayed, ended, expired, letter, desk, cleaner, reviewFaults>>

Verifies(a) == LoadTarget(a) \/ ListPage(a) \/ SaveProgress(a)
Repairs(a) == BeginRepair(a) \/ WriteRepair(a)
Cleans(c) ==
    \/ FindExpired(c) \/ DeleteLocalCandidate(c) \/ ScanUnknownCandidate(c) \/ SaveScanProgress(c)
    \/ DeleteMatch(c) \/ ReduceToTombstone(c)

ReviewNext ==
    \/ \E a \in Verifiers : Verifies(a) \/ Repairs(a)
    \/ \E c \in Cleaners : Cleans(c) \/ CleanerStops(c)
    \/ OtherPosts \/ PostArrives \/ ThirtyDaysPass \/ SiteEnds \/ OutboxSettles \/ MoveGate

ReviewSpec == ReviewInit /\ [][ReviewNext]_reviewVars

(* Maintenance runs every day, and the outbox works on.                     *)
ReviewFairness ==
    /\ \A c \in Cleaners : WF_reviewVars(Cleans(c))
    /\ WF_reviewVars(OutboxSettles)
ReviewFairSpec == ReviewSpec /\ ReviewFairness

-----------------------------------------------------------------------------
(* What a search concludes is true, however many requests and runs took     *)
(* part in it, unless our POST arrived behind its back: a message is bound  *)
(* only when no other of ours stands, and there is none when none was found.*)
VerdictsAreTrue ==
    ~strayed =>
        /\ letter.message # 0 => Standing \subseteq {letter.message}
        /\ letter.verdict = "ZERO_COMPLETE" => Standing = {}

(* A tombstone stands for a channel without our message.                    *)
TombstonesAreClean ==
    letter.verdict = "RETENTION_DELETED" /\ ~strayed => Standing = {}

(* A match that was found stays on the cursor until the row is reduced,     *)
(* whichever requests and runs write the cursor at the same time.           *)
NoMatchIsForgotten ==
    [][letter'.verdict # "RETENTION_DELETED" => letter.cursor.found \subseteq letter'.cursor.found]_reviewVars

(* Neither a request nor a run that read the row before brings it back.     *)
TombstoneIsFinal ==
    [][letter.verdict = "RETENTION_DELETED"
         => letter'.verdict = "RETENTION_DELETED" /\ letter'.message = 0 /\ letter'.status = letter.status]_reviewVars

(* Once the administrators leave it alone, an expired message that the row  *)
(* knows is deleted, unless its last PATCH is under review, or it was bound *)
(* with nothing to show that is newer: then nothing ever settles it.        *)
NothingToSync == letter.sync = "PENDING_REVIEW" \/ (letter.sync = "PENDING" /\ letter.lag = 0)
KnownMessagesGo ==
    <>[](\A a \in Verifiers : desk[a] = NoDesk)
        => ((expired /\ letter.message # 0) ~> (letter.message = 0 \/ NothingToSync))

(* DEPLOYMENT.md: messages and their rows expire after thirty days, also    *)
(* where the answer of the POST was lost.                                   *)
UnknownPostsGo ==
    (expired /\ letter.status = "PENDING_REVIEW") ~> (letter.verdict = "RETENTION_DELETED")

(* The safety of the review: what it found, concluded and erased stands.    *)
ReviewIsSound ==
    [](ReviewTypeOK /\ VerdictsAreTrue /\ TombstonesAreClean) /\ NoMatchIsForgotten /\ TombstoneIsFinal
=============================================================================
