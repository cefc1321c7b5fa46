-------------------------- MODULE ClosedListNotices --------------------------
(***************************************************************************)
(* The list of students that is posted once when a study period closes.     *)
(*                                                                         *)
(* One period of one day and its NotificationDelivery row.  Runs of cron,   *)
(* sends by an administrator and an administrator's reconciliation work on  *)
(* the row at the same time, each through a claim (SENDING) that its save   *)
(* must still find.  The claim is known by the row's updatedAt; here it is  *)
(* the sender that wrote the row last, 0 for anybody else.                  *)
(***************************************************************************)
EXTENDS Naturals

CONSTANTS Senders,          \* runs and requests that may send at a time
          MaxRetries,       \* bound: retries by an administrator
          MaxNoticeFaults   \* bound: failures and stopped or slow senders in all

ASSUME NoticeAssumption ==
    /\ 0 \notin Senders
    /\ MaxRetries \in Nat /\ MaxNoticeFaults \in Nat

VARIABLES window,        \* the period's: open, closed, its day is over, or past looking back for
          noticesOn,     \* closedPeriodNotificationsEnabled
          notice,        \* the row
          sender,        \* sender -> what it is doing
          posted,        \* lists in the channel
          retried,       \* claims for an administrator's retry
          doubts,        \* posts that went through and were recorded as failed
          noticeFaults

noticeVars == <<window, noticesOn, notice, sender, posted, retried, doubts, noticeFaults>>

FinalStatus == {"SENT", "FAILED", "UNKNOWN"}
Unresolved == {"FAILED", "PENDING_REVIEW", "UNKNOWN"}
NoticeStatus == FinalStatus \cup {"NONE", "PENDING", "PENDING_REVIEW", "SENDING", "ABANDONED"}

NoNotice == [status |-> "NONE", claim |-> 0, old |-> FALSE, due |-> TRUE]
NotSending == [phase |-> "idle", kind |-> "cron", saw |-> "NONE", outcome |-> "SENT"]

NoticeTypeOK ==
    /\ window \in {"open", "closed", "over", "past"} /\ noticesOn \in BOOLEAN
    /\ notice \in [status : NoticeStatus, claim : Senders \cup {0}, old : BOOLEAN, due : BOOLEAN]
    /\ sender \in [Senders -> [phase : {"idle", "looked", "checking", "claiming", "posting", "saving"},
                               kind : {"cron", "manual", "retry"},
                               saw : {"NONE", "open", "closed", "over", "past", "missing", "missed"},
                               outcome : FinalStatus]]
    /\ retried \in 0 .. MaxRetries /\ noticeFaults \in 0 .. MaxNoticeFaults
    /\ doubts <= noticeFaults /\ posted \in Nat
    /\ (notice.status = "SENDING") => (notice.claim # 0)

NoticeInit ==
    /\ window = "open" /\ noticesOn = TRUE
    /\ notice = NoNotice /\ sender = [s \in Senders |-> NotSending]
    /\ posted = 0 /\ retried = 0 /\ doubts = 0 /\ noticeFaults = 0

NoticeFault == noticeFaults < MaxNoticeFaults /\ noticeFaults' = noticeFaults + 1

Sends(s, phase) == sender' = [sender EXCEPT ![s].phase = phase]
SendEnds(s) == sender' = [sender EXCEPT ![s] = NotSending]
Doing(s, phase) == sender[s].phase = phase

Written(status, s, due) == [status |-> status, claim |-> s, old |-> FALSE, due |-> due]

-----------------------------------------------------------------------------
(* A run of cron: what is closed and missing, then the rows, in one         *)
(* transaction.  A row that appeared in between makes the insert fail, and  *)
(* with it every later statement of the transaction.                        *)
LookedFor ==   \* an enabled period of the last seven days that is closed and has no row
    IF notice.status # "NONE" \/ window \in {"open", "past"} THEN window
    ELSE IF window = "closed" THEN "missing" ELSE "missed"

CronLooks(s) ==
    /\ Doing(s, "idle") /\ noticesOn
    /\ sender' = [sender EXCEPT ![s] = [NotSending EXCEPT !.phase = "looked", !.saw = LookedFor]]
    /\ UNCHANGED <<window, noticesOn, notice, posted, retried, doubts, noticeFaults>>

Bug_Materialized(saw) == IF saw = "missing" THEN Written("PENDING", 0, TRUE) ELSE notice   \* today's only
Materialized(saw) ==
    IF saw = "missing" THEN Written("PENDING", 0, TRUE)
    ELSE IF saw = "missed" THEN Written("PENDING_REVIEW", 0, TRUE)
    ELSE notice

StaleSending(row) == row.status = "SENDING" /\ row.old
Reviewed(row) == IF StaleSending(row) THEN Written("UNKNOWN", 0, row.due) ELSE row

BlocksAutomaticSend(row) ==
    /\ row.status # "PENDING"
    /\ row.status = "FAILED" => ~row.due

Selected(saw, row) == saw \in {"missing", "closed"} /\ ~BlocksAutomaticSend(row)

CronWrites(s) ==
    LET saw == sender[s].saw
        row == IF saw = "past" THEN notice ELSE Reviewed(Materialized(saw))
        aborted == saw \in {"missing", "missed"} /\ notice.status # "NONE"
    IN /\ Doing(s, "looked")
       /\ notice' = IF aborted THEN notice ELSE row
       /\ IF ~aborted /\ Selected(saw, row)
          THEN Sends(s, "checking")
          ELSE SendEnds(s)
       /\ UNCHANGED <<window, noticesOn, posted, retried, doubts, noticeFaults>>

-----------------------------------------------------------------------------
(* Sending.                                                                 *)
ManualSend(s) ==
    /\ Doing(s, "idle")
    /\ sender' = [sender EXCEPT ![s] = [NotSending EXCEPT !.phase = "checking", !.kind = "manual"]]
    /\ UNCHANGED <<window, noticesOn, notice, posted, retried, doubts, noticeFaults>>

PeriodIsClosed == window # "open"

NeedsReconciliation(s) ==
    \/ notice.status \in {"UNKNOWN", "PENDING_REVIEW"}
    \/ sender[s].kind = "manual" /\ notice.status = "FAILED"

SendChecks(s) ==
    /\ Doing(s, "checking")
    /\ IF ~PeriodIsClosed \/ NeedsReconciliation(s) \/ notice.status \in {"SENDING", "SENT", "ABANDONED"}
       THEN SendEnds(s)
       ELSE Sends(s, "claiming")
    /\ UNCHANGED <<window, noticesOn, notice, posted, retried, doubts, noticeFaults>>

ClaimableStatuses(kind) == IF kind = "retry" THEN Unresolved ELSE {"NONE", "FAILED", "PENDING"}

ClaimDelivery(s) ==
    LET kind == sender[s].kind
    IN /\ Doing(s, "claiming")
       /\ IF notice.status \in ClaimableStatuses(kind)
          THEN /\ kind = "retry" => retried < MaxRetries
               /\ notice' = Written("SENDING", s, TRUE)
               /\ retried' = IF kind = "retry" THEN retried + 1 ELSE retried
               /\ Sends(s, "posting")
          ELSE SendEnds(s) /\ UNCHANGED <<notice, retried>>
       /\ UNCHANGED <<window, noticesOn, posted, doubts, noticeFaults>>

PostEnds(s, outcome) == sender' = [sender EXCEPT ![s].phase = "saving", ![s].outcome = outcome]

(* No answer is UNKNOWN, any answer but success is FAILED: also a 5xx of a  *)
(* post that went through.                                                  *)
PostList(s) ==
    /\ Doing(s, "posting")
    /\ \/ PostEnds(s, "SENT") /\ posted' = posted + 1 /\ UNCHANGED <<doubts, noticeFaults>>
       \/ PostEnds(s, "UNKNOWN") /\ NoticeFault /\ posted' \in {posted, posted + 1} /\ UNCHANGED doubts
       \/ PostEnds(s, "FAILED") /\ NoticeFault /\ UNCHANGED <<posted, doubts>>
       \/ PostEnds(s, "FAILED") /\ NoticeFault /\ posted' = posted + 1 /\ doubts' = doubts + 1
    /\ UNCHANGED <<window, noticesOn, notice, retried>>

Bug_MaySaveDelivery(s) == notice.claim = s \/ notice.status # "SENDING"   \* looks at the claim of a claimed row only
MaySaveDelivery(s) == notice.status = "SENDING" /\ notice.claim = s

Saved(s) ==
    IF MaySaveDelivery(s) THEN Written(sender[s].outcome, 0, sender[s].outcome # "FAILED") ELSE notice

SaveDelivery(s) ==
    /\ Doing(s, "saving")
    /\ notice' = Saved(s)
    /\ SendEnds(s)
    /\ UNCHANGED <<window, noticesOn, posted, retried, doubts, noticeFaults>>

(* The save of a success is inside the try of the post: when it throws, the *)
(* post counts as failed and is due again in a minute.                      *)
SaveThrows(s) ==
    /\ Doing(s, "saving")
    /\ NoticeFault
    /\ notice' \in {notice, Saved(s)}
    /\ IF sender[s].outcome = "SENT"
       THEN PostEnds(s, "FAILED") /\ doubts' = doubts + 1
       ELSE SendEnds(s) /\ UNCHANGED doubts
    /\ UNCHANGED <<window, noticesOn, posted, retried>>

-----------------------------------------------------------------------------
(* What an administrator decides about a delivery in doubt.                 *)
RetryDelivery(s) ==
    /\ Doing(s, "idle") /\ PeriodIsClosed /\ retried < MaxRetries
    /\ sender' = [sender EXCEPT ![s] = [NotSending EXCEPT !.phase = "claiming", !.kind = "retry"]]
    /\ UNCHANGED <<window, noticesOn, notice, posted, retried, doubts, noticeFaults>>

ResolveDelivery ==
    /\ \/ notice.status = "UNKNOWN" /\ notice' = Written("SENT", 0, TRUE)
       \/ notice.status \in Unresolved /\ notice' = Written("ABANDONED", 0, TRUE)
    /\ UNCHANGED <<window, noticesOn, sender, posted, retried, doubts, noticeFaults>>

SwitchNotices ==
    /\ noticesOn' = ~noticesOn
    /\ UNCHANGED <<window, notice, sender, posted, retried, doubts, noticeFaults>>

-----------------------------------------------------------------------------
(* Time, settings and stopped senders.                                      *)
WindowMoves ==   \* it closes, an administrator opens it again, midnight, a week
    /\ \/ window \in {"open", "closed"} /\ window' \in {"open", "closed", "over"} \ {window}
       \/ window = "over" /\ window' = "past"
    /\ UNCHANGED <<noticesOn, notice, sender, posted, retried, doubts, noticeFaults>>

RetryComesDue ==
    /\ notice' = [notice EXCEPT !.due = TRUE]
    /\ UNCHANGED <<window, noticesOn, sender, posted, retried, doubts, noticeFaults>>

TenMinutesPass ==   \* a sender that takes as long is a slow one
    /\ notice.status = "SENDING"
    /\ notice' = [notice EXCEPT !.old = TRUE, !.due = TRUE]
    /\ IF sender[notice.claim].phase \in {"posting", "saving"} THEN NoticeFault ELSE UNCHANGED noticeFaults
    /\ UNCHANGED <<window, noticesOn, sender, posted, retried, doubts>>

SenderStops(s) ==
    /\ ~Doing(s, "idle")
    /\ NoticeFault
    /\ SendEnds(s)
    /\ UNCHANGED <<window, noticesOn, notice, posted, retried, doubts>>

SenderStep(s) ==
    CronWrites(s) \/ SendChecks(s) \/ ClaimDelivery(s) \/ PostList(s) \/ SaveDelivery(s)

NoticeNext ==
    \/ WindowMoves \/ SwitchNotices \/ ResolveDelivery \/ RetryComesDue \/ TenMinutesPass
    \/ \E s \in Senders :
          CronLooks(s) \/ ManualSend(s) \/ RetryDelivery(s) \/ SenderStep(s) \/ SaveThrows(s) \/ SenderStops(s)

NoticeSpec == NoticeInit /\ [][NoticeNext]_noticeVars

(* Senders go on, a claim grows old, and cron comes every minute with the   *)
(* webhook set.  Nothing is said of how long the week lasts.                *)
NoticeFairness ==
    /\ \A s \in Senders : WF_noticeVars(SenderStep(s))
    /\ WF_noticeVars(TenMinutesPass)
    /\ SF_noticeVars(\E s \in Senders : CronLooks(s))

NoticeFairSpec == NoticeSpec /\ NoticeFairness

-----------------------------------------------------------------------------
(* The list is in the channel once, however runs, requests and decisions    *)
(* interleave, unless an administrator asked for it again or a post that    *)
(* went through was recorded as failed (doubts).                            *)
OneListUnlessAsked == posted <= 1 + retried + doubts

(* What was recorded as sent, or decided by an administrator, stands: also  *)
(* against a sender that was given up and answers later.                    *)
DecisionsStand ==
    [][notice.status \in {"SENT", "ABANDONED"} => notice'.status = notice.status]_noticeVars

(* A run of cron that looked for the list within its week leaves it on      *)
(* record when it has written, whatever came in between.                    *)
LooksLeaveARow ==
    [][\A s \in Senders :
          CronWrites(s) /\ sender[s].saw \in {"closed", "over", "missing", "missed"}
              => notice'.status # "NONE"]_noticeVars

(* While lists are posted at all, the list of a day that is over comes on   *)
(* record, neither missing nor left in the middle of a send, as long as     *)
(* the seven days last that cron looks back.  After them nobody looks: what *)
(* was off or broken for the whole week is lost.                            *)
NoListSlipsAway ==
    <>[]noticesOn =>
        (window = "over" ~> notice.status \notin {"NONE", "SENDING"} \/ window = "past")

(* The safety of the notices: the list is sent once, a look records it, and *)
(* decisions stand.                                                         *)
ListIsSentOnce == [](NoticeTypeOK /\ OneListUnlessAsked) /\ LooksLeaveARow /\ DecisionsStand
=============================================================================
