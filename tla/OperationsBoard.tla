--------------------------- MODULE OperationsBoard ---------------------------
(***************************************************************************)
(* The pinned message of the operations channel that shows the day.         *)
(*                                                                         *)
(* One row remembers the message, the revision its buttons carry and a      *)
(* digest of what it was given to show.  A sync is requested, claimed under *)
(* a lease of two minutes, loads the state of the site, edits the message   *)
(* (or posts and pins a new one) and records what it showed, as long as its *)
(* claim stands.  Syncs run after every mutation of the site, after a press *)
(* of the refresh button, and in every run of cron.                         *)
(*                                                                         *)
(* The state of the site is a version.  The digest covers the minute of the *)
(* sync too; of a minute is kept how long ago it was, up to two (Ages).      *)
(* Revisions grow for ever and are compared only with the row's, so each is *)
(* kept by how far it leads: 2 is the one after the row's, 1 the row's,     *)
(* 0 an earlier one.                                                        *)
(***************************************************************************)
EXTENDS Naturals, FiniteSets

CONSTANTS BoardWorkers,
          MaxVersion,      \* bound: changes of the site
          MaxBoards,       \* bound: messages that are posted
          MaxBoardFaults   \* bound: failures, stopped or slow workers and deletions in all

ASSUME BoardAssumption ==
    /\ IsFiniteSet(BoardWorkers) /\ {0} \cap BoardWorkers = {}
    /\ MaxVersion \in Nat /\ MaxBoards \in Nat \ {0} /\ MaxBoardFaults \in Nat

VARIABLES siteVersion,  \* what the snapshot of the site would be
          boardHooks,   \* mutations whose sync has yet to start
          boardRow,     \* the row of DiscordOperationsBoard
          boardPosts,   \* message -> what is in the channel
          boardSync,    \* worker -> where its sync is
          boardFaults

boardVars == <<siteVersion, boardHooks, boardRow, boardPosts, boardSync, boardFaults>>

Versions == 0 .. MaxVersion
BoardIds == 1 .. MaxBoards
Ages == 0 .. 2   \* minutes; 2 stands for two or more
Digests == [of : Versions, age : Ages]
NoDigest == [of |-> 0, age |-> 2]

NoBoard == [status |-> "NONE", due |-> FALSE, claim |-> 0, leased |-> 0, message |-> 0, digest |-> NoDigest]
NotPosted == [alive |-> FALSE, pinned |-> FALSE, shows |-> 0, lead |-> 0]
NoSync == [phase |-> "idle", force |-> FALSE, age |-> 0, message |-> 0, digest |-> NoDigest,
           lead |-> 0, version |-> 0]

SyncPhases == {"idle", "asking", "claiming", "loading", "delivering", "posting", "pinning", "removing",
               "recording", "confirming", "failing"}

BoardTypeOK ==
    /\ siteVersion \in Versions /\ boardHooks \in Versions
    /\ boardRow \in [status : {"NONE", "PENDING", "RETRY", "SYNCING", "SYNCED"}, due : BOOLEAN,
                     claim : BoardWorkers \cup {0}, leased : Ages,
                     message : BoardIds \cup {0}, digest : Digests]
    /\ boardPosts \in [BoardIds -> [alive : BOOLEAN, pinned : BOOLEAN, shows : Versions, lead : 0 .. 2]]
    /\ boardSync \in [BoardWorkers -> [phase : SyncPhases, force : BOOLEAN, age : Ages,
                                       message : BoardIds \cup {0}, digest : Digests,
                                       lead : 0 .. 2, version : Versions]]
    /\ boardFaults \in 0 .. MaxBoardFaults
    /\ (boardRow.status = "SYNCING") => (boardRow.claim # 0)

BoardInit ==
    /\ siteVersion = 0 /\ boardHooks = 0 /\ boardFaults = 0
    /\ boardRow = NoBoard
    /\ boardPosts = [m \in BoardIds |-> NotPosted]
    /\ boardSync = [w \in BoardWorkers |-> NoSync]

BoardFault == boardFaults < MaxBoardFaults /\ boardFaults' = boardFaults + 1

At(w, phase) == boardSync[w].phase = phase
Goes(w, phase) == boardSync' = [boardSync EXCEPT ![w].phase = phase]
GoesWith(w, sync) == boardSync' = [boardSync EXCEPT ![w] = sync]
SyncEnds(w) == GoesWith(w, NoSync)

-----------------------------------------------------------------------------
(* What starts a sync.                                                      *)
SiteChanges ==
    /\ siteVersion < MaxVersion
    /\ siteVersion' = siteVersion + 1 /\ boardHooks' = boardHooks + 1
    /\ UNCHANGED <<boardRow, boardPosts, boardSync, boardFaults>>

Starts(w, force) ==
    /\ At(w, "idle")
    /\ GoesWith(w, [NoSync EXCEPT !.phase = "asking", !.force = force])

SyncAfterMutation(w) ==
    /\ boardHooks > 0 /\ boardHooks' = boardHooks - 1
    /\ Starts(w, TRUE)
    /\ UNCHANGED <<siteVersion, boardRow, boardPosts, boardFaults>>

IsCurrentControl(m) ==   \* of the buttons under a message
    boardRow.status = "SYNCED" /\ boardRow.message = m /\ boardPosts[m].lead = 1

PressRefresh(w) ==
    /\ \E m \in BoardIds : boardPosts[m].alive /\ IsCurrentControl(m)
    /\ Starts(w, TRUE)
    /\ UNCHANGED <<siteVersion, boardHooks, boardRow, boardPosts, boardFaults>>

CronSync(w) ==
    /\ siteVersion > 0   \* before the first change nothing is looked at
    /\ Starts(w, FALSE)
    /\ UNCHANGED <<siteVersion, boardHooks, boardRow, boardPosts, boardFaults>>

-----------------------------------------------------------------------------
(* The row.                                                                 *)
Lapsed(row) == row.leased = 2
Refreshable(row) == row.status # "SYNCING" \/ Lapsed(row)
Refreshed(row) == IF Refreshable(row) THEN [row EXCEPT !.status = "PENDING", !.due = TRUE] ELSE row

RequestSync(w) ==
    /\ At(w, "asking")
    /\ boardRow' = Refreshed(boardRow)
    /\ Goes(w, "claiming")
    /\ UNCHANGED <<siteVersion, boardHooks, boardPosts, boardFaults>>

Claimable(row) ==
    \/ row.status \in {"PENDING", "RETRY"} /\ row.due
    \/ row.status = "SYNCING" /\ Lapsed(row)

ClaimSync(w) ==
    LET row == IF boardSync[w].force THEN Refreshed(boardRow) ELSE boardRow
    IN /\ At(w, "claiming")
       /\ \/ /\ Claimable(row)
             /\ boardRow' = [row EXCEPT !.status = "SYNCING", !.claim = w, !.leased = 0]
             /\ GoesWith(w, [boardSync[w] EXCEPT !.phase = "loading", !.message = row.message,
                                                 !.digest = row.digest, !.lead = 2])
          \/ /\ ~Claimable(row)
             /\ boardRow' = row
             /\ SyncEnds(w)
       /\ UNCHANGED <<siteVersion, boardHooks, boardPosts, boardFaults>>

Bug_StillHeld(w) == boardRow.status = "SYNCING"   \* whoever claimed it
StillHeld(w) == boardRow.claim = w /\ boardRow.status = "SYNCING"

(* Every revision is one step further behind once a new one is recorded.    *)
Behind(lead) == IF lead = 0 THEN 0 ELSE lead - 1

Recorded(w) == [boardRow EXCEPT !.status = "SYNCED", !.due = TRUE, !.claim = 0, !.leased = 0,
                                !.message = boardSync[w].message,
                                !.digest = [of |-> boardSync[w].version,
                                            age |-> boardSync[w].age]]
CompleteSync(w) ==
    /\ At(w, "recording")
    /\ IF StillHeld(w)
       THEN /\ boardRow' = Recorded(w)
            /\ boardPosts' = [m \in BoardIds |-> [boardPosts[m] EXCEPT !.lead = Behind(@)]]
            /\ boardSync' = [u \in BoardWorkers |->
                   IF u = w THEN NoSync ELSE [boardSync[u] EXCEPT !.lead = Behind(@)]]
       ELSE SyncEnds(w) /\ UNCHANGED <<boardRow, boardPosts>>
    /\ UNCHANGED <<siteVersion, boardHooks, boardFaults>>

CompleteUnchanged(w) ==
    /\ At(w, "confirming")
    /\ boardRow' = IF StillHeld(w)
                   THEN [boardRow EXCEPT !.status = "SYNCED", !.due = TRUE, !.claim = 0, !.leased = 0]
                   ELSE boardRow
    /\ SyncEnds(w)
    /\ UNCHANGED <<siteVersion, boardHooks, boardPosts, boardFaults>>

Failed(row) == [row EXCEPT !.status = "RETRY", !.due = FALSE, !.claim = 0, !.leased = 0]

FailSync(w) ==
    /\ At(w, "failing")
    /\ boardRow' = IF StillHeld(w) THEN Failed(boardRow) ELSE boardRow
    /\ SyncEnds(w)
    /\ UNCHANGED <<siteVersion, boardHooks, boardPosts, boardFaults>>

-----------------------------------------------------------------------------
(* A sync between its claim and its record.                                 *)
Bug_MaySkip(w) ==   \* a digest without the minute
    LET s == boardSync[w]
    IN ~s.force /\ s.message # 0 /\ s.digest.of = siteVersion
MaySkip(w) ==   \* the digests are equal, or both so old that they may be
    LET s == boardSync[w]
    IN ~s.force /\ s.message # 0 /\ s.digest.of = siteVersion /\ s.digest.age = s.age
MustSkip(w) == MaySkip(w) /\ boardSync[w].age < 2

LoadBoard(w) ==
    /\ At(w, "loading")
    /\ \/ /\ ~MustSkip(w)
          /\ GoesWith(w, [boardSync[w] EXCEPT
                 !.phase = IF boardSync[w].message = 0 THEN "posting" ELSE "delivering",
                 !.version = siteVersion])
          /\ UNCHANGED boardFaults
       \/ MaySkip(w) /\ Goes(w, "confirming") /\ UNCHANGED boardFaults
       \/ BoardFault /\ Goes(w, "failing")
    /\ UNCHANGED <<siteVersion, boardHooks, boardRow, boardPosts>>

Showing(m, w) == [boardPosts EXCEPT ![m] = [@ EXCEPT !.shows = boardSync[w].version,
                                                     !.lead = boardSync[w].lead]]

EditBoard(w) ==
    LET m == boardSync[w].message
    IN /\ At(w, "delivering")
       /\ \/ boardPosts[m].alive /\ boardPosts' = Showing(m, w) /\ Goes(w, "recording") /\ UNCHANGED boardFaults
          \/ ~boardPosts[m].alive /\ Goes(w, "posting") /\ UNCHANGED <<boardPosts, boardFaults>>   \* 404
          \/ BoardFault /\ Goes(w, "failing") /\ UNCHANGED boardPosts
          \/ boardPosts[m].alive /\ BoardFault /\ boardPosts' = Showing(m, w) /\ Goes(w, "failing")
       /\ UNCHANGED <<siteVersion, boardHooks, boardRow>>

(* Discord returns a message of the last minutes that has the same nonce    *)
(* instead of posting another; every board has the same.                    *)
NextBoard == 1 + Cardinality({m \in BoardIds : boardPosts[m] # NotPosted})
Posting(w) ==
    [boardPosts EXCEPT ![NextBoard] = [alive |-> TRUE, pinned |-> FALSE, shows |-> boardSync[w].version,
                                       lead |-> boardSync[w].lead]]

PostBoard(w) ==
    /\ At(w, "posting")
    /\ \/ /\ NextBoard \in BoardIds /\ boardPosts' = Posting(w)
          /\ \/ /\ GoesWith(w, [boardSync[w] EXCEPT !.phase = "pinning", !.message = NextBoard])
                /\ UNCHANGED boardFaults
             \/ BoardFault /\ Goes(w, "failing")
       \/ /\ \E m \in BoardIds :
                /\ boardPosts[m].alive /\ m = NextBoard - 1
                /\ GoesWith(w, [boardSync[w] EXCEPT !.phase = "pinning", !.message = m])
          /\ UNCHANGED <<boardPosts, boardFaults>>
       \/ BoardFault /\ Goes(w, "failing") /\ UNCHANGED boardPosts
    /\ UNCHANGED <<siteVersion, boardHooks, boardRow>>

PinBoard(w) ==
    LET m == boardSync[w].message
    IN /\ At(w, "pinning")
       /\ \/ /\ boardPosts[m].alive
             /\ boardPosts' = [boardPosts EXCEPT ![m].pinned = TRUE]
             /\ Goes(w, "recording") /\ UNCHANGED boardFaults
          \/ ~boardPosts[m].alive /\ Goes(w, "removing") /\ UNCHANGED <<boardPosts, boardFaults>>
          \/ BoardFault /\ Goes(w, "removing") /\ UNCHANGED boardPosts
       /\ UNCHANGED <<siteVersion, boardHooks, boardRow>>

Removed(m) == [boardPosts EXCEPT ![m].alive = FALSE]

RemoveBoard(w) ==   \* its outcome is not looked at
    /\ At(w, "removing")
    /\ \/ boardPosts' = Removed(boardSync[w].message) /\ UNCHANGED boardFaults
       \/ BoardFault /\ UNCHANGED boardPosts
    /\ Goes(w, "failing")
    /\ UNCHANGED <<siteVersion, boardHooks, boardRow>>

-----------------------------------------------------------------------------
(* Time, and what else may happen.                                          *)
Older(age) == IF age < 2 THEN age + 1 ELSE age

MinutePasses ==   \* a sync that takes more than a minute is a slow one
    /\ boardRow' = [boardRow EXCEPT !.digest.age = Older(@), !.due = TRUE,
                       !.leased = IF boardRow.status = "SYNCING" THEN Older(@) ELSE @]
    /\ boardSync' = [w \in BoardWorkers |->
           IF At(w, "idle") THEN NoSync
           ELSE [boardSync[w] EXCEPT !.age = Older(@), !.digest.age = Older(@)]]
    /\ IF \E w \in BoardWorkers : boardSync[w].age > 0 THEN BoardFault ELSE UNCHANGED boardFaults
    /\ UNCHANGED <<siteVersion, boardHooks, boardPosts>>

WorkerStops(w) ==
    /\ ~At(w, "idle")
    /\ BoardFault
    /\ SyncEnds(w)
    /\ UNCHANGED <<siteVersion, boardHooks, boardRow, boardPosts>>

SomebodyDeletes(m) ==
    /\ boardPosts[m].alive
    /\ BoardFault
    /\ boardPosts' = Removed(m)
    /\ UNCHANGED <<siteVersion, boardHooks, boardRow, boardSync>>

SyncStep(w) ==
    \/ RequestSync(w) \/ ClaimSync(w) \/ LoadBoard(w) \/ EditBoard(w) \/ PostBoard(w) \/ PinBoard(w)
    \/ RemoveBoard(w) \/ CompleteSync(w) \/ CompleteUnchanged(w) \/ FailSync(w)

BoardNext ==
    \/ SiteChanges \/ MinutePasses
    \/ \E w \in BoardWorkers :
          SyncAfterMutation(w) \/ PressRefresh(w) \/ CronSync(w) \/ SyncStep(w) \/ WorkerStops(w)
    \/ \E m \in BoardIds : SomebodyDeletes(m)

BoardSpec == BoardInit /\ [][BoardNext]_boardVars

(* Workers go on, minutes pass, and cron keeps coming.                      *)
BoardFairness ==
    /\ \A w \in BoardWorkers : WF_boardVars(SyncStep(w))
    /\ WF_boardVars(MinutePasses)
    /\ SF_boardVars(\E w \in BoardWorkers : CronSync(w))

BoardFairSpec == BoardSpec /\ BoardFairness

-----------------------------------------------------------------------------
(* Every message beyond the first is owed to something that went wrong: the *)
(* lease and the recorded message keep two syncs from posting one each.     *)
SurplusBoardsAreFaults ==
    Cardinality({m \in BoardIds : boardPosts[m].alive}) <= 1 + boardFaults

(* While nothing has gone wrong, a board that counts as synced is in the    *)
(* channel, pinned, shows what the row's digest says, and its buttons are   *)
(* accepted.                                                                *)
SyncedBoardIsThere ==
    boardFaults = 0 /\ boardRow.status = "SYNCED" =>
        LET post == boardPosts[boardRow.message]
        IN boardRow.message # 0 /\ post.alive /\ post.pinned /\ post.shows = boardRow.digest.of /\ post.lead = 1

(* A sync records only over the revision that it has read, however slow it  *)
(* is: a worker whose lease has lapsed never overwrites a later record.     *)
NoLostBoard ==
    [][\A w \in BoardWorkers :
          At(w, "recording") /\ boardRow' # boardRow /\ boardRow'.status = "SYNCED"
              /\ boardSync'[w].phase = "idle"
          => boardSync[w].lead = 2]_boardVars

(* In the end the recorded message is in the channel and shows the site as  *)
(* it is, whatever failed: also when the edit of a slow sync arrives after  *)
(* that of a later one, because the digest of a minute ago is never taken   *)
(* for the present one.                                                     *)
BoardIsCurrent ==
    /\ boardRow.message # 0
    /\ boardPosts[boardRow.message].alive
    /\ boardPosts[boardRow.message].shows = siteVersion
BoardCatchesUp == (siteVersion > 0) ~> []BoardIsCurrent

(* The safety of the board: one message, and the row tells the truth of it. *)
BoardIsKept == [](BoardTypeOK /\ SurplusBoardsAreFaults /\ SyncedBoardIsThere) /\ NoLostBoard
=============================================================================
