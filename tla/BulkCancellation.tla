-------------------------- MODULE BulkCancellation --------------------------
(***************************************************************************)
(* Cancelling many reservations at once: the selection and the dialog of   *)
(* the administrator's panel (src/src/app/admin/admin-reservations-panel   *)
(* .tsx, admin-confirmation-dialog.tsx), POST /api/admin/reservations/     *)
(* bulk-cancel and src/src/lib/admin-bulk-cancellation.ts.                 *)
(*                                                                         *)
(* The server is asked twice, for a preview and for the execution, and     *)
(* cancels one reservation after the other, each in a transaction of its   *)
(* own, while other administrators and students go on.                     *)
(***************************************************************************)
EXTENDS Integers, FiniteSets, Sequences

CONSTANTS
    Bookings,       \* reservations: numbers, in the order of student and id
    MaxBulkAsks,    \* bound: requests of the dialog
    MaxBulkFaults,  \* bound: lost answers, failed reads, unexpected errors
    MaxOthers       \* bound: reservations ended or removed by others

ASSUME BulkAssumption ==
    /\ Bookings \subseteq Nat
    /\ {MaxBulkAsks, MaxBulkFaults, MaxOthers} \subseteq Nat

VARIABLES
    books,      \* the reservations, and the request that cancelled each
    panel,      \* the rows of the last read, the selection, bulkDialogOpen
    box,        \* the dialog: what it was opened for and what it shows
    asked,      \* the requests: what was asked, and how far the server is
    troubles    \* history: faults and changes by others so far

bulkVars == <<books, panel, box, asked, troubles>>

Fates == {"CONFIRMED", "CANCELLED", "NO_SHOW", "GONE"}

\* No dialog; "reason", "confirm" and "result" are its three faces.
NoBox == [face |-> "none", for |-> {}, preview |-> 0, pending |-> 0]

BulkInit ==
    /\ books = [b \in Bookings |-> [fate |-> "CONFIRMED", by |-> 0]]
    /\ panel = [rows |-> Bookings, selected |-> {}, open |-> FALSE]
    /\ box = NoBox
    /\ asked = <<>>
    /\ troubles = [faults |-> 0, others |-> 0]

BulkFault ==
    /\ troubles.faults < MaxBulkFaults
    /\ troubles' = [troubles EXCEPT !.faults = @ + 1]

\* The dialog is on the screen while it is open and something is selected;
\* a new one keeps the selection it was opened with (initialReservationsRef).
Screen(p) ==
    IF ~p.open \/ p.selected = {} THEN NoBox
    ELSE IF box.face = "none" THEN [NoBox EXCEPT !.face = "reason", !.for = p.selected]
    ELSE box

ShowsPanel(p) ==
    /\ panel' = p
    /\ box' = Screen(p)

----------------------------------------------------------------------------
(* The selection. *)

\* The list is read again: what is not CONFIRMED in it leaves the selection.
Pruned(p, rows) == [p EXCEPT !.rows = rows, !.selected = @ \cap rows]

ListIsRead ==
    /\ ShowsPanel(Pruned(panel, {b \in Bookings : books[b].fate = "CONFIRMED"}))
    /\ UNCHANGED <<books, asked, troubles>>

Tick(b) ==
    /\ box.face = "none"
    /\ b \in panel.rows
    /\ ShowsPanel([panel EXCEPT !.selected =
                       IF b \in @ THEN @ \ {b} ELSE @ \cup {b}])
    /\ UNCHANGED <<books, asked, troubles>>

OpenBox ==
    /\ box.face = "none" /\ panel.selected # {}
    /\ ShowsPanel([panel EXCEPT !.open = TRUE])
    /\ UNCHANGED <<books, asked, troubles>>

\* The date or a filter of the list moved, which a late link can do under
\* an open dialog: the selection is dropped.
FilterMoves ==
    /\ ShowsPanel([panel EXCEPT !.open = FALSE, !.selected = {}])
    /\ UNCHANGED <<books, asked, troubles>>

----------------------------------------------------------------------------
(* The dialog. *)

\* reservationIds: those the dialog was opened for.
Requested == box.for

Post(mode) ==
    /\ box.pending = 0
    /\ box.face = IF mode = "preview" THEN "reason" ELSE "confirm"
    /\ Len(asked) < MaxBulkAsks
    /\ asked' = Append(asked, [mode |-> mode, ids |-> Requested, stage |-> "sent",
                               todo |-> {}, verdict |-> [b \in {} |-> "not_found"],
                               previewed |-> box.preview])
    /\ box' = [box EXCEPT !.pending = Len(asked) + 1]
    /\ UNCHANGED <<books, panel, troubles>>

DismissBox ==
    /\ box.face # "none" /\ box.pending = 0
    /\ ShowsPanel([panel EXCEPT !.open = FALSE])
    /\ UNCHANGED <<books, asked, troubles>>

----------------------------------------------------------------------------
(* The server. *)

Moves(n, r) == asked' = [asked EXCEPT ![n] = r]

\* previewStatus.
PreviewOf(b) ==
    CASE books[b].fate = "GONE" -> "not_found"
      [] books[b].fate = "CONFIRMED" -> "cancelled"
      [] OTHER -> "invalid_status"

\* The reservations are read once, before the first is cancelled; those
\* that are not there are "not_found".
Resolve(n) ==
    LET r == asked[n]
        here == {b \in r.ids : books[b].fate # "GONE"} IN
    /\ r.stage = "sent"
    /\ Moves(n, IF r.mode = "preview"
                THEN [r EXCEPT !.stage = "ready",
                               !.verdict = [b \in r.ids |-> PreviewOf(b)]]
                ELSE [r EXCEPT !.stage = IF here = {} THEN "ready" ELSE "working",
                               !.todo = here,
                               !.verdict = [b \in r.ids \ here |-> "not_found"]])
    /\ UNCHANGED <<books, panel, box, troubles>>

Bug_OutcomeOf(b) == "cancelled"

\* cancelAdministratorReservation of the next one: what was read of it
\* before does not count.
OutcomeOf(b) == PreviewOf(b)

NextOf(r) == CHOOSE b \in r.todo : \A c \in r.todo : b <= c

Records(n, b, v) ==
    Moves(n, [asked[n] EXCEPT !.todo = @ \ {b},
                !.stage = IF asked[n].todo = {b} THEN "ready" ELSE @,
                !.verdict = [c \in DOMAIN @ \cup {b} |-> IF c = b THEN v ELSE @[c]]])

CancelOne(n) ==
    LET b == NextOf(asked[n]) IN
    /\ asked[n].stage = "working"
    /\ Records(n, b, OutcomeOf(b))
    /\ books' = IF books[b].fate = "CONFIRMED"
                THEN [books EXCEPT ![b] = [fate |-> "CANCELLED", by |-> n]]
                ELSE books
    /\ UNCHANGED <<panel, box, troubles>>

\* The retries of the transaction are spent on conflicts.
ConflictOne(n) ==
    /\ asked[n].stage = "working"
    /\ BulkFault
    /\ Records(n, NextOf(asked[n]), "conflict")
    /\ UNCHANGED <<books, panel, box>>

\* Any other error ends the request: what was cancelled stays cancelled.
BreaksOff(n) ==
    /\ asked[n].stage \in {"sent", "working"}
    /\ BulkFault
    /\ Moves(n, [asked[n] EXCEPT !.stage = "broken"])
    /\ UNCHANGED <<books, panel, box>>

----------------------------------------------------------------------------
(* The answer. *)

\* bulkCancellationRetryableReservationIds.
Retryable(r) == {b \in r.ids : r.verdict[b] = "conflict"}

\* A preview is shown for confirmation.  An execution leaves selected what
\* can be tried again: without any, the dialog is gone with its result.
AnswerArrives(n) ==
    LET r == asked[n]
        mine == box.pending = n IN
    /\ r.stage = "ready"
    /\ Moves(n, [r EXCEPT !.stage = "told"])
    /\ IF r.mode = "preview"
       THEN /\ box' = IF mine THEN [box EXCEPT !.face = "confirm", !.preview = n,
                                               !.pending = 0] ELSE box
            /\ panel' = panel
       ELSE /\ panel' = [panel EXCEPT !.selected = @ \cap Retryable(r)]
            /\ box' = IF mine /\ Screen(panel') # NoBox
                      THEN [box EXCEPT !.face = "result", !.pending = 0]
                      ELSE Screen(panel')
    /\ UNCHANGED <<books, troubles>>

\* The answer is an error, or is lost: the dialog stays as it was.
AnswerFails(n) ==
    /\ \/ asked[n].stage = "broken" /\ UNCHANGED troubles
       \/ asked[n].stage = "ready" /\ BulkFault
    /\ Moves(n, [asked[n] EXCEPT !.stage = "failed"])
    /\ box' = IF box.pending = n THEN [box EXCEPT !.pending = 0] ELSE box
    /\ UNCHANGED <<books, panel>>

\* Somebody else ends a reservation, or its account is removed.
OthersEnd(b) ==
    /\ books[b].fate # "GONE"
    /\ troubles.others < MaxOthers
    /\ troubles' = [troubles EXCEPT !.others = @ + 1]
    /\ \E f \in Fates \ {"CONFIRMED", books[b].fate} :
         /\ f = "GONE" \/ books[b].fate = "CONFIRMED"
         /\ books' = [books EXCEPT ![b].fate = f]
    /\ UNCHANGED <<panel, box, asked>>

BulkNext ==
    \/ ListIsRead \/ OpenBox \/ FilterMoves \/ DismissBox
    \/ \E b \in Bookings : Tick(b) \/ OthersEnd(b)
    \/ \E mode \in {"preview", "execute"} : Post(mode)
    \/ \E n \in DOMAIN asked :
         Resolve(n) \/ CancelOne(n) \/ ConflictOne(n) \/ BreaksOff(n)
           \/ AnswerArrives(n) \/ AnswerFails(n)

BulkSpec == BulkInit /\ [][BulkNext]_bulkVars

----------------------------------------------------------------------------
(* A dialog is open for something, and is never open without a selection.  *)
BulkTypeOK ==
    /\ books \in [Bookings -> [fate : Fates, by : 0..MaxBulkAsks]]
    /\ panel.selected \subseteq Bookings
    /\ box.face # "none" => panel.open /\ panel.selected # {} /\ box.for # {}
    /\ box.pending \in 0..Len(asked)
    /\ \A n \in DOMAIN asked :
         asked[n].stage \in {"ready", "told"} => DOMAIN asked[n].verdict = asked[n].ids

(* What is executed is what the administrator was shown in the preview:    *)
(* the same reservations, whatever the list has become in between          *)
(* (admin-confirmation-dialog.tsx 145-169).                                *)
ExecutesThePreview ==
    \A n \in DOMAIN asked :
      asked[n].mode = "execute" =>
        /\ asked[n].previewed \in 1..(n - 1)
        /\ asked[asked[n].previewed].mode = "preview"
        /\ asked[asked[n].previewed].stage = "told"
        /\ asked[asked[n].previewed].ids = asked[n].ids

(* The numbers of an execution are true: it says "cancelled" of exactly    *)
(* the reservations it cancelled itself, also when others ended some of    *)
(* them after the preview and while it was working.                        *)
ReportIsTrue ==
    \A n \in DOMAIN asked :
      asked[n].mode = "execute" /\ asked[n].stage \in {"ready", "told"} =>
        \A b \in asked[n].ids : asked[n].verdict[b] = "cancelled" <=> books[b].by = n

(* What stays selected after an execution is what may be tried again       *)
(* (tests/admin-bulk-cancellation.spec.ts:7 "retains only retryable        *)
(* partial failures").                                                     *)
OnlyRetryableStays ==
    [][\A n \in DOMAIN asked :
         asked[n].stage = "ready" /\ asked'[n].stage = "told" /\ asked[n].mode = "execute"
           => \A b \in panel'.selected : books[b].by # n /\ asked[n].verdict[b] = "conflict"]_bulkVars

(* What was previewed is executed, reported and, where refused, kept.      *)
BulkIsTrue == [](BulkTypeOK /\ ExecutesThePreview /\ ReportIsTrue) /\ OnlyRetryableStays
=============================================================================
