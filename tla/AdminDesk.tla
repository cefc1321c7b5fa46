----------------------------- MODULE AdminDesk ------------------------------
(***************************************************************************)
(* The desk of one student in the administrator's console:                 *)
(* use-admin-console.ts, use-admin-console-reads.ts (the read of the       *)
(* details), admin-student-detail.tsx and admin-student-restriction-form   *)
(* .tsx under src/src/app/admin.                                           *)
(*                                                                         *)
(* Two notions of "the student" live side by side: the one selected in the *)
(* list, and the one whose details have arrived.  Until a read lands the   *)
(* details of the one before stay on the screen with every button live.    *)
(* The form shows the draft of the selected student, its buttons and its   *)
(* fields act on the student of the details.                               *)
(***************************************************************************)
EXTENDS Integers, FiniteSets

CONSTANTS
    Learners,       \* the students
    NoOne,          \* no student
    MaxVersion,     \* bound: changes of one student's restriction
    MaxOrders       \* bound: requests sent from the desk

ASSUME DeskAssumption ==
    /\ NoOne \notin Learners
    /\ MaxVersion \in Nat /\ MaxOrders \in Nat

VARIABLES
    restricted, \* the server: is the student's bookingStatus other than ACTIVE
    version,    \* the server: how often it was changed
    desk,       \* section, selected student, details, and whether their read failed
    fetching,   \* the read of the details that was not aborted
    drafts,     \* restrictionDrafts
    prompt,     \* the confirmation of a permanent ban
    orders,     \* the requests sent, in any order of arrival
    sentOrders, \* how many were sent
    answered    \* history: the newest version an answer reported to the desk

deskVars == <<restricted, version, desk, fetching, drafts, prompt, orders,
              sentOrders, answered>>

\* A reason stands for the student it was written about.
Draft == [reason : Learners \cup {NoOne}, status : {"RESTRICTED", "BANNED"}]
DefaultDraft == [reason |-> NoOne, status |-> "RESTRICTED"]

NoDetail == [of |-> NoOne, version |-> 0, restricted |-> FALSE]
NoFetch  == [of |-> NoOne, read |-> FALSE, version |-> 0, restricted |-> FALSE]

\* The effect that reads the details runs anew: the read before is aborted.
Fetch(d) ==
    IF d.section = "students" /\ d.selected # NoOne
    THEN [NoFetch EXCEPT !.of = d.selected] ELSE NoFetch

DeskInit ==
    /\ restricted \in [Learners -> BOOLEAN]
    /\ version = [s \in Learners |-> 0]
    /\ desk = [section |-> "students", selected |-> NoOne, detail |-> NoDetail,
               failed |-> FALSE]
    /\ fetching = NoFetch
    /\ drafts = [s \in Learners |-> DefaultDraft]
    /\ prompt = "none"
    /\ orders = {}
    /\ sentOrders = 0
    /\ answered = [s \in Learners |-> 0]

----------------------------------------------------------------------------
(* The screen. *)

\* A prompt is modal: nothing behind it can be used.
AtHand == prompt = "none"
ShowsDetails == desk.section = "students" /\ desk.detail.of # NoOne

\* admin-console.tsx hands the form the draft of the selected student ...
ShownDraft == IF desk.selected = NoOne THEN DefaultDraft ELSE drafts[desk.selected]
\* ... and the details hand it the student its buttons and fields act on.
Bug_ActsOn == desk.selected
ActsOn == desk.detail.of

Goes(d) ==
    /\ desk' = [d EXCEPT !.failed = FALSE]
    /\ fetching' = Fetch(d)
    /\ UNCHANGED <<restricted, version, drafts, orders, sentOrders, answered>>

\* viewUser.  Selecting the selected one again changes nothing.
SelectStudent(s) ==
    /\ AtHand /\ desk.section = "students" /\ desk.selected # s
    /\ Goes([desk EXCEPT !.selected = s])
    /\ UNCHANGED prompt

\* clearSelectedUser forgets the selection and the details at once.
CloseDetails ==
    /\ AtHand /\ ShowsDetails
    /\ Goes([desk EXCEPT !.selected = NoOne, !.detail = NoDetail])
    /\ UNCHANGED prompt

\* Leaving the section aborts the read and keeps selection and details.
OpenSection(x) ==
    /\ AtHand /\ desk.section # x
    /\ Goes([desk EXCEPT !.section = x])
    /\ UNCHANGED prompt

\* The server answers the read with the student as it is now.
ServeDetails ==
    /\ fetching.of # NoOne /\ ~fetching.read
    /\ fetching' = [fetching EXCEPT !.read = TRUE, !.version = version[fetching.of],
                                    !.restricted = restricted[fetching.of]]
    /\ UNCHANGED <<restricted, version, desk, drafts, prompt, orders, sentOrders, answered>>

\* loadSelectedUser: an aborted read (fetching of NoOne) is dropped.
DetailsArrive ==
    /\ fetching.read
    /\ desk' = [desk EXCEPT !.detail = [of |-> fetching.of, version |-> fetching.version,
                                        restricted |-> fetching.restricted]]
    /\ fetching' = NoFetch
    /\ UNCHANGED <<restricted, version, drafts, prompt, orders, sentOrders, answered>>

DetailsFail ==
    /\ fetching.of # NoOne
    /\ desk' = [desk EXCEPT !.failed = TRUE]
    /\ fetching' = NoFetch
    /\ UNCHANGED <<restricted, version, drafts, prompt, orders, sentOrders, answered>>

----------------------------------------------------------------------------
(* The form. *)

\* patchRestrictionDrafts for the student the fields act on.
EditDraft ==
    /\ AtHand /\ ShowsDetails
    /\ \E patch \in {[drafts[ActsOn] EXCEPT !.reason = desk.detail.of]}
             \cup {[drafts[ActsOn] EXCEPT !.status = st] : st \in {"RESTRICTED", "BANNED"}} :
         drafts' = [drafts EXCEPT ![ActsOn] = patch]
    /\ UNCHANGED <<restricted, version, desk, fetching, prompt, orders, sentOrders, answered>>

\* A request leaves with the closure of the render it was made in: it will
\* refresh the details if a student was selected then.
Order(kind, s) ==
    [of |-> s, kind |-> kind, reason |-> drafts[s].reason, status |-> drafts[s].status,
     refreshes |-> desk.selected # NoOne, prompted |-> prompt = "open",
     number |-> sentOrders, outcome |-> "sent", version |-> 0]

Dispatched(o) ==
    /\ sentOrders < MaxOrders
    /\ orders' = orders \cup {o}
    /\ sentOrders' = sentOrders + 1

\* applyRestriction sends the draft of the student it is called for, and
\* nothing when that draft has no reason.
Apply(s) ==
    IF drafts[s].reason = NoOne
    THEN UNCHANGED <<orders, sentOrders>>
    ELSE Dispatched(Order("restrict", s))

\* submit looks at the draft shown: without a reason its button is disabled,
\* and a permanent ban asks first.
Asks(draft) == draft.status = "BANNED"
Submit ==
    /\ AtHand /\ ShowsDetails /\ ShownDraft.reason # NoOne
    /\ IF Asks(ShownDraft)
       THEN prompt' = "open" /\ UNCHANGED <<orders, sentOrders>>
       ELSE Apply(ActsOn) /\ UNCHANGED prompt
    /\ UNCHANGED <<restricted, version, desk, fetching, drafts, answered>>

\* The dialog calls onApply too: for the student of the details as they are
\* by now.  Without a reason the answer is an error and the dialog stays.
ConfirmBan ==
    /\ prompt = "open"
    /\ Apply(ActsOn)
    /\ prompt' = IF drafts[ActsOn].reason = NoOne THEN "open" ELSE "busy"
    /\ UNCHANGED <<restricted, version, desk, fetching, drafts, answered>>

DismissBan ==
    /\ prompt = "open"
    /\ prompt' = "none"
    /\ UNCHANGED <<restricted, version, desk, fetching, drafts, orders, sentOrders, answered>>

\* onRelease, of the details and of a row of the blacklist.
ReleaseStudent(s) ==
    /\ AtHand /\ desk.section = "students"
    /\ \/ ShowsDetails /\ s = ActsOn /\ desk.detail.restricted
       \/ restricted[s]
    /\ Dispatched([Order("release", s) EXCEPT !.reason = NoOne, !.status = "RESTRICTED"])
    /\ UNCHANGED <<restricted, version, desk, fetching, drafts, prompt, answered>>

----------------------------------------------------------------------------
(* The requests. *)

\* The route accepts the request or refuses it; an accepted one may lose its
\* answer.  What it accepts is the matter of ReservationLedger; a ban that was
\* there already counts as accepted too.
Carried(o) ==
    /\ o.outcome = "sent"
    /\ \/ /\ version[o.of] < MaxVersion
          /\ version' = [version EXCEPT ![o.of] = @ + 1]
          /\ restricted' = [restricted EXCEPT ![o.of] = o.kind = "restrict"]
          /\ \E outcome \in {"ok", "lost"} :
               orders' = (orders \ {o}) \cup
                         {[o EXCEPT !.outcome = outcome, !.version = version[o.of] + 1]}
       \/ /\ orders' = (orders \ {o}) \cup {[o EXCEPT !.outcome = "refused"]}
          /\ UNCHANGED <<restricted, version>>
    /\ UNCHANGED <<desk, fetching, drafts, prompt, sentOrders, answered>>

\* refreshActive, from the render the request was made in, makes the effect
\* run again if that render had a student selected.
Refreshed(o) == o.outcome = "ok" /\ o.refreshes

\* applyRestriction empties the draft when the restriction was applied.
Emptied(o) == o.outcome = "ok" /\ o.kind = "restrict"

\* applyFeedback, and the end of the dialog's own request.
Answer(o) ==
    /\ o.outcome # "sent"
    /\ orders' = orders \ {o}
    /\ IF Refreshed(o)
       THEN desk' = [desk EXCEPT !.failed = FALSE] /\ fetching' = Fetch(desk)
       ELSE UNCHANGED <<desk, fetching>>
    /\ drafts' = IF Emptied(o) THEN [drafts EXCEPT ![o.of] = DefaultDraft] ELSE drafts
    /\ prompt' = IF ~o.prompted THEN prompt
                 ELSE IF o.outcome = "ok" THEN "none" ELSE "open"
    /\ answered' = IF o.outcome = "ok" /\ o.refreshes /\ o.version > answered[o.of]
                   THEN [answered EXCEPT ![o.of] = o.version] ELSE answered
    /\ UNCHANGED <<restricted, version, sentOrders>>

DeskNext ==
    \/ \E s \in Learners : SelectStudent(s) \/ ReleaseStudent(s)
    \/ CloseDetails
    \/ \E x \in {"students", "settings"} : OpenSection(x)
    \/ ServeDetails
    \/ DetailsArrive
    \/ DetailsFail
    \/ EditDraft
    \/ Submit
    \/ ConfirmBan
    \/ DismissBan
    \/ \E o \in orders : Carried(o) \/ Answer(o)

DeskSpec == DeskInit /\ [][DeskNext]_deskVars

----------------------------------------------------------------------------
(* Properties. *)

DeskTypeOK ==
    /\ restricted \in [Learners -> BOOLEAN]
    /\ version \in [Learners -> 0..MaxVersion]
    /\ desk.section \in {"students", "settings"}
    /\ desk.selected \in Learners \cup {NoOne}
    /\ desk.detail.of \in Learners \cup {NoOne}
    /\ desk.failed \in BOOLEAN
    /\ fetching.of \in {NoOne, desk.selected}
    /\ fetching.read => fetching.of # NoOne
    /\ drafts \in [Learners -> Draft]
    /\ prompt \in {"none", "open", "busy"}
    /\ prompt = "busy" <=> \E o \in orders : o.prompted
    /\ Cardinality(orders) <= sentOrders /\ sentOrders <= MaxOrders

\* Every restriction sent carries a reason that was written while its own
\* student's details were on the screen, however selections, late reads and
\* answers were interleaved: drafts are kept by student
\* (admin-restriction-drafts.ts), and the student they are kept for and the
\* one they are sent for is that of the details.
ReasonsStayWithTheirStudent ==
    \A o \in orders : o.kind = "restrict" => o.reason = o.of

\* The details on the screen are older than an answer the desk has had only
\* while they are being read again or that read is known to have failed.  It
\* is about requests made while a student was selected: the answer of one
\* made from the blacklist with none selected refreshes no details.
OwnDeedsAreShown ==
    \/ ~ShowsDetails \/ fetching.of # NoOne \/ desk.failed
    \/ /\ desk.detail.of = desk.selected
       /\ desk.detail.version >= answered[desk.detail.of]

\* A written reason is emptied only when a restriction of that student was
\* applied and answered: a refusal or a lost answer keeps it
\* (admin-destructive-confirmations.spec.ts:136).
ReasonsOutliveFailures ==
    [][\A s \in Learners :
         drafts[s].reason # NoOne /\ drafts'[s].reason = NoOne =>
            \E o \in orders \ orders' :
                o.of = s /\ o.kind = "restrict" /\ o.version > 0 /\ o.outcome = "ok"]_deskVars

\* The desk keeps reasons and details with their student.
DeskIsTrue == [](DeskTypeOK /\ ReasonsStayWithTheirStudent /\ OwnDeedsAreShown) /\ ReasonsOutliveFailures
=============================================================================
