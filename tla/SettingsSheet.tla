--------------------------- MODULE SettingsSheet ----------------------------
(***************************************************************************)
(* The sheet of settings of the administrators' console: use-admin-console *)
(* .ts (saveSettings, updatePeriod), use-admin-console-reads.ts (the two   *)
(* reads) and the routes api/admin/period-settings and                     *)
(* api/admin/notification-settings.                                        *)
(*                                                                         *)
(* The sheet has two parts, the periods and the notices.  Each is read and *)
(* stored by a request of its own, but there is one button: a save sends   *)
(* both whole parts as they are on the screen, waits for both answers, and *)
(* then reads again the parts that were stored.  Nothing locks the sheet   *)
(* meanwhile, and other administrators have sheets of their own.           *)
(***************************************************************************)
EXTENDS Integers, FiniteSets

CONSTANTS
    Officers,           \* administrators, each with one sheet
    MaxSheetEdits,      \* bound: edits of all sheets
    MaxSheetSaves,      \* bound: saves of all sheets
    MaxSheetReads,      \* bound: changes of the date
    MaxSheetFaults      \* bound: failed reads, refused saves, lost answers

ASSUME SheetAssumption ==
    {MaxSheetEdits, MaxSheetSaves, MaxSheetReads, MaxSheetFaults} \subseteq Nat

VARIABLES
    stored,     \* of each part: the value in the database
    sheets,     \* of each administrator: the parts as shown, and their reads
    saves,      \* the saves under way
    sheetCount  \* history: edits, saves, changes of the date, faults

sheetVars == <<stored, sheets, saves, sheetCount>>

Parts == {"periods", "notices"}

\* A value is the number of the edit it came from; "at" counts the values
\* that were stored before it.
Value(id, at) == [id |-> id, at |-> at]

\* What a sheet shows before its first read: no periods, default notices.
Unread == Value(-1, 0)

\* A part on a sheet: what it shows, whether the administrator edited it
\* since it was read, whether nothing was under way when that edit was made,
\* the read that was not aborted, whether the last one failed, and the newest
\* value the administrator was told to have stored.
FreshPart == [shown |-> Unread, edited |-> FALSE, quiet |-> FALSE,
              reading |-> "asked", read |-> Unread, failed |-> FALSE,
              told |-> Unread]

SheetInit ==
    /\ stored = [p \in Parts |-> Value(0, 1)]
    /\ sheets = [o \in Officers |-> [p \in Parts |-> FreshPart]]
    /\ saves = {}
    /\ sheetCount = [edits |-> 0, saves |-> 0, dates |-> 0, faults |-> 0]

----------------------------------------------------------------------------
(* The reads: an effect of its own for each part. *)

\* The effect runs anew: the read before it is aborted, the error cleared.
ReadAnew(part) == [part EXCEPT !.reading = "asked", !.failed = FALSE]

\* getPeriodSummaries, normalizeNotificationSettings.
ServePart(o, p) ==
    /\ sheets[o][p].reading = "asked"
    /\ sheets' = [sheets EXCEPT ![o][p].reading = "served", ![o][p].read = stored[p]]
    /\ UNCHANGED <<stored, saves, sheetCount>>

\* loadPeriods, loadNotificationSettings: the part is replaced.
PartArrives(o, p) ==
    /\ sheets[o][p].reading = "served"
    /\ sheets' = [sheets EXCEPT ![o][p] =
                    [FreshPart EXCEPT !.shown = sheets[o][p].read, !.reading = "none",
                                      !.told = sheets[o][p].told]]
    /\ UNCHANGED <<stored, saves, sheetCount>>

SheetFault ==
    /\ sheetCount.faults < MaxSheetFaults
    /\ sheetCount' = [sheetCount EXCEPT !.faults = @ + 1]

PartFails(o, p) ==
    /\ sheets[o][p].reading # "none"
    /\ SheetFault
    /\ sheets' = [sheets EXCEPT ![o][p] =
                    [@ EXCEPT !.reading = "none", !.read = Unread, !.failed = TRUE]]
    /\ UNCHANGED <<stored, saves>>

\* Another date: the periods are read for it, edited or not.
ChangeSheetDate(o) ==
    /\ sheetCount.dates < MaxSheetReads
    /\ sheetCount' = [sheetCount EXCEPT !.dates = @ + 1]
    /\ sheets' = [sheets EXCEPT ![o]["periods"] = [ReadAnew(@) EXCEPT !.quiet = FALSE]]
    /\ UNCHANGED <<stored, saves>>

----------------------------------------------------------------------------
(* The sheet. *)

\* Is a read or a save of this part under way?
Underway(o, p) == sheets[o][p].reading # "none" \/ \E s \in saves : s.of = o

\* updatePeriod, updateNotificationSettings.  Before the first read there is
\* no card of a period to edit.
EditPart(o, p) ==
    /\ p = "periods" => sheets[o][p].shown # Unread
    /\ sheetCount.edits < MaxSheetEdits
    /\ sheetCount' = [sheetCount EXCEPT !.edits = @ + 1]
    /\ sheets' = [sheets EXCEPT ![o][p] =
                    [@ EXCEPT !.shown = Value(sheetCount.edits + 1, 0), !.edited = TRUE,
                              !.quiet = ~Underway(o, p)]]
    /\ UNCHANGED <<stored, saves>>

\* saveSettings: both parts leave as they are shown.
SaveSheet(o) ==
    /\ sheetCount.saves < MaxSheetSaves
    /\ sheetCount' = [sheetCount EXCEPT !.saves = @ + 1]
    /\ saves' = saves \cup
         {[of |-> o, number |-> sheetCount.saves,
           parts |-> [p \in Parts |-> [id |-> sheets[o][p].shown.id, at |-> 0,
                                       outcome |-> "sent"]]]}
    /\ UNCHANGED <<stored, sheets>>

\* The PATCH of one part: the rows are written whatever they held; a sheet
\* without periods writes none.
StoredAs(p, id) ==
    IF p = "periods" /\ id = Unread.id THEN stored
    ELSE [stored EXCEPT ![p] = Value(id, @.at + 1)]

\* It is stored, and the answer may be lost; or it is refused: the session,
\* the rate limit, a capacity below 1.
PatchPart(s, p) ==
    LET goes(outcome, at) ==
          saves' = (saves \ {s}) \cup
                   {[s EXCEPT !.parts[p].outcome = outcome, !.parts[p].at = at]} IN
    /\ s.parts[p].outcome = "sent"
    /\ \/ /\ stored' = StoredAs(p, s.parts[p].id)
          /\ \/ goes("ok", stored'[p].at) /\ UNCHANGED sheetCount
             \/ goes("lost", 0) /\ SheetFault
       \/ stored' = stored /\ goes("refused", 0) /\ SheetFault
    /\ UNCHANGED sheets

Bug_ReadAgain(s, p) == \E q \in Parts : s.parts[q].outcome = "ok"

\* adminSettingsMutationFeedback: only what was stored is read again.
ReadAgain(s, p) == s.parts[p].outcome = "ok"

\* Promise.all: both answers are in.
SaveAnswered(s) ==
    /\ \A p \in Parts : s.parts[p].outcome # "sent"
    /\ saves' = saves \ {s}
    /\ sheets' = [sheets EXCEPT ![s.of] =
         [p \in Parts |->
            LET news == Value(s.parts[p].id, s.parts[p].at)
                part == [sheets[s.of][p] EXCEPT
                           !.told = IF s.parts[p].outcome = "ok" /\ news.at > @.at
                                    THEN news ELSE @] IN
            IF ReadAgain(s, p) THEN ReadAnew(part) ELSE part]]
    /\ UNCHANGED <<stored, sheetCount>>

SheetNext ==
    \/ \E o \in Officers, p \in Parts :
         ServePart(o, p) \/ PartArrives(o, p) \/ PartFails(o, p) \/ EditPart(o, p)
    \/ \E o \in Officers : ChangeSheetDate(o) \/ SaveSheet(o)
    \/ \E s \in saves : SaveAnswered(s) \/ \E p \in Parts : PatchPart(s, p)

SheetSpec == SheetInit /\ [][SheetNext]_sheetVars

----------------------------------------------------------------------------
(* Properties. *)

\* The variables keep their shape, and what a period holds was once typed or
\* read: the empty list of an unread sheet is never stored (it may be of the
\* notices, whose defaults are sent before the first read).
SheetTypeOK ==
    /\ stored["periods"].id >= 0
    /\ \A p \in Parts : stored[p].id \in -1..sheetCount.edits /\ stored[p].at \in 1..(1 + MaxSheetSaves)
    /\ \A o \in Officers, p \in Parts :
         /\ sheets[o][p].shown.id \in -1..sheetCount.edits
         /\ sheets[o][p].edited => sheets[o][p].shown.at = 0
         /\ sheets[o][p].quiet => sheets[o][p].edited
         /\ sheets[o][p].reading \in {"none", "asked", "served"}
         /\ sheets[o][p].told.at <= stored[p].at
    /\ Cardinality(saves) <= sheetCount.saves

\* One part may be stored and the other not (admin-settings-save-result.ts
\* says so of each): the part that was not stored keeps what was typed.  An
\* edit made while nothing was under way leaves the sheet only after that
\* very value was stored, unless the date was changed meanwhile.
QuietEditsSurvive ==
    [][\A o \in Officers, p \in Parts :
         LET old == sheets[o][p]  new == sheets'[o][p] IN
         old.quiet /\ ~new.edited => old.told.id = old.shown.id]_sheetVars

\* A part that was not edited, and of which no read is under way or known to
\* have failed, is at least as new as the newest value the administrator
\* was told to have stored, whichever answers and reads overtook another.
OwnSavesAreShown ==
    \A o \in Officers, p \in Parts :
      LET part == sheets[o][p] IN
      part.edited \/ part.reading # "none" \/ part.failed \/ part.shown.at >= part.told.at

\* The sheet shows what was saved and keeps what is being typed.
SheetIsTrue == [](SheetTypeOK /\ OwnSavesAreShown) /\ QuietEditsSurvive
=============================================================================
