----------------------------- MODULE AdminLinks -----------------------------
(***************************************************************************)
(* The links into the administrator's console and the cancellation they    *)
(* prompt: src/src/app/admin/admin-console-url.ts (the two codecs),        *)
(* use-admin-console.ts (the effects and navigateToOperationTarget) and    *)
(* admin-reservations-panel.tsx (the dialog of one cancellation).          *)
(*                                                                         *)
(* A link of Discord names a date, the status CONFIRMED and a reservation: *)
(* it opens the dialog that cancels that reservation.  A link of the panel *)
(* of operations names a section and one record: it moves the console      *)
(* there.  Both live in the same address bar, both are taken out of it     *)
(* when they are settled, and a reload starts from what was left in it.    *)
(***************************************************************************)
EXTENDS Integers, FiniteSets

CONSTANTS
    Slips,          \* reservations
    Pupils,         \* students
    LinkDates,          \* the dates of the reservations
    Nowhere,        \* an absent key of the address bar, or no record
    MaxDeeds        \* bound: links opened or followed, reloads, statuses
                    \* chosen, dialogs opened and confirmed, together

ASSUME LinksAssumption ==
    /\ Nowhere \notin Slips \cup Pupils \cup LinkDates
    /\ MaxDeeds \in Nat

VARIABLES
    slips,      \* the reservations: date and whether it is CONFIRMED
    bar,        \* the controlled keys of the address bar
    console,    \* section, date and status filter, and the focused record
    wanted,     \* deepLinkTarget and its read, deepLinkCancellation
    lookups,    \* the exact reads of operation links under way
    dialog,     \* cancelDraft, cancelReason, and the request of the dialog
    posts,      \* history: the cancellations sent
    count       \* history: what was done; since a link was last followed from
                \* outside, what was opened, and allowed to be opened

linkVars == <<slips, bar, console, wanted, lookups, dialog, posts, count>>

Targets == [kind : {"reservation"}, id : Slips] \cup [kind : {"user"}, id : Pupils]

\* An address bar with none of the controlled keys.
Bare == [section |-> "none", date |-> Nowhere, status |-> "none",
         reservation |-> Nowhere, user |-> Nowhere]

NotWanted == [slip |-> Nowhere, date |-> Nowhere, opens |-> Nowhere]
NoDialog  == [slip |-> Nowhere, typedFor |-> Nowhere, pending |-> 0]

----------------------------------------------------------------------------
(* The two codecs. *)

HasExactKeys(b) == b.section # "none" \/ b.reservation # Nowhere \/ b.user # Nowhere

\* parseReservationDeepLink of a bar that has a date or a status.
ReservationLinkOf(b) ==
    IF b.section = "reservations" /\ b.date # Nowhere /\ b.status = "CONFIRMED"
          /\ b.reservation # Nowhere
    THEN {[slip |-> b.reservation, date |-> b.date]} ELSE {}

\* parseAdminConsoleDeepLink.
ExactLinkOf(b) ==
    CASE b.section = "reservations" /\ b.reservation # Nowhere /\ b.user = Nowhere ->
            {[kind |-> "reservation", id |-> b.reservation]}
      [] b.section = "students" /\ b.user # Nowhere /\ b.reservation = Nowhere ->
            {[kind |-> "user", id |-> b.user]}
      [] OTHER -> {}

\* The controlled keys of each codec removed.
WithoutReservationLink(b) == [Bare EXCEPT !.user = b.user]
WithoutExactLink(b) ==
    [b EXCEPT !.section = "none", !.reservation = Nowhere, !.user = Nowhere]

\* writeAdminConsoleDeepLink: the date and the status of the bar stay.
WithExactLink(b, t) ==
    IF t.kind = "reservation"
    THEN [WithoutExactLink(b) EXCEPT !.section = "reservations", !.reservation = t.id]
    ELSE [WithoutExactLink(b) EXCEPT !.section = "students", !.user = t.id]

\* writeReservationDeepLink, as the messages of Discord carry it.
DiscordLink(s, d) ==
    [section |-> "reservations", date |-> d, status |-> "CONFIRMED",
     reservation |-> s, user |-> Nowhere]

----------------------------------------------------------------------------
LinksInit ==
    /\ slips \in [Slips -> [date : LinkDates, confirmed : {TRUE}]]
    /\ bar = Bare
    /\ console = [section |-> "dashboard", date |-> Nowhere, status |-> "CONFIRMED",
                  focus |-> Nowhere, request |-> 0, landed |-> 0]
    /\ wanted = NotWanted
    /\ lookups = {}
    /\ dialog = NoDialog
    /\ posts = {}
    /\ count = [deeds |-> 0, opened |-> 0,
                offered |-> 0, failed |-> FALSE, chosen |-> FALSE]

Bug_Opened(d, s) == [d EXCEPT !.slip = s]

\* openCancelDialog: an open dialog is taken over by another reservation.
Opened(d, s) == [d EXCEPT !.slip = s, !.typedFor = Nowhere]

\* The panel is on the screen: it takes over deepLinkCancellation, and
\* when it leaves the screen its dialog is gone.
Shows(section, asked, d) ==
    IF section # "reservations"
    THEN /\ dialog' = NoDialog
         /\ wanted' = asked
    ELSE IF asked.opens # Nowhere
    THEN /\ dialog' = Opened(d, asked.opens)
         /\ wanted' = [asked EXCEPT !.opens = Nowhere]
    ELSE /\ dialog' = d
         /\ wanted' = asked

\* The console mounts over the address bar b: the first effect.
Mounts(b) ==
    LET fresh == [section |-> "dashboard", date |-> Nowhere, status |-> "CONFIRMED",
                  focus |-> Nowhere, request |-> 0, landed |-> 0]
    IN
    /\ dialog' = NoDialog
    /\ \/ /\ b.date # Nowhere \/ b.status # "none"
          /\ ReservationLinkOf(b) = {}
          /\ bar' = WithoutReservationLink(b)
          /\ console' = fresh
          /\ wanted' = NotWanted
          /\ lookups' = {}
       \/ \E l \in ReservationLinkOf(b) :
            /\ bar' = b
            /\ console' = [fresh EXCEPT !.section = "reservations", !.date = l.date]
            /\ wanted' = [NotWanted EXCEPT !.slip = l.slip, !.date = l.date]
            /\ lookups' = {}
       \/ /\ b.date = Nowhere /\ b.status = "none"
          /\ ExactLinkOf(b) = {}
          /\ bar' = IF HasExactKeys(b) THEN WithoutExactLink(b) ELSE b
          /\ console' = fresh
          /\ wanted' = NotWanted
          /\ lookups' = {}
       \/ /\ b.date = Nowhere /\ b.status = "none"
          /\ \E t \in ExactLinkOf(b) :
               lookups' = {[request |-> 1, target |-> t]}
          /\ bar' = b
          /\ console' = [fresh EXCEPT !.request = 1]
          /\ wanted' = NotWanted

\* A link is followed from outside, or one of them is cut short by hand.
Visit(b) ==
    /\ count.deeds < MaxDeeds
    /\ count' = [deeds |-> count.deeds + 1, opened |-> 0,
                 offered |-> Cardinality(ReservationLinkOf(b)), failed |-> FALSE, chosen |-> FALSE]
    /\ Mounts(b)
    /\ UNCHANGED <<slips, posts>>

\* deepLinkRequest.current === request.

IsLatest(l) == l.request = console.request

\* A link of the bar whose record is being read, or could not be read.
Unsettled ==
    wanted.slip # Nowhere \/ count.failed \/ \E l \in lookups : IsLatest(l)

\* The page is loaded again.  An unsettled link is followed once more.
Reload ==
    /\ count.deeds < MaxDeeds
    /\ count' = [count EXCEPT !.deeds = @ + 1,
                              !.offered = IF Unsettled
                                          THEN @ + Cardinality(ReservationLinkOf(bar))
                                          ELSE @,
                              !.failed = FALSE]
    /\ Mounts(bar)
    /\ UNCHANGED <<slips, posts>>

----------------------------------------------------------------------------
(* The link of Discord: loadDeepLinkReservation and what follows from it. *)

\* cleanResolvedDeepLink: only the reservation is taken out.
Cleaned(b) ==
    IF ReservationLinkOf(b) # {} THEN [b EXCEPT !.reservation = Nowhere] ELSE b

LinkIsFound ==
    /\ wanted.slip # Nowhere
    /\ slips[wanted.slip] = [date |-> wanted.date, confirmed |-> TRUE]
    /\ bar' = Cleaned(bar)
    /\ Shows(console.section, [NotWanted EXCEPT !.opens = wanted.slip], dialog)
    /\ count' = [count EXCEPT !.opened = @ + 1]
    /\ UNCHANGED <<slips, console, lookups, posts>>

LinkIsMissing ==
    /\ wanted.slip # Nowhere
    /\ slips[wanted.slip] # [date |-> wanted.date, confirmed |-> TRUE]
    /\ bar' = Cleaned(bar)
    /\ wanted' = [wanted EXCEPT !.slip = Nowhere, !.date = Nowhere]
    /\ UNCHANGED <<slips, console, lookups, dialog, posts, count>>

\* The read failed: the message is shown and the bar keeps the link.
LinkReadFails ==
    /\ wanted.slip # Nowhere
    /\ wanted' = [wanted EXCEPT !.slip = Nowhere, !.date = Nowhere]
    /\ count' = [count EXCEPT !.failed = TRUE]
    /\ UNCHANGED <<slips, bar, console, lookups, dialog, posts>>

----------------------------------------------------------------------------
(* The links of the operations panel: openOperationTarget. *)

Navigate(t) ==
    /\ console.section = "dashboard"
    /\ count.deeds < MaxDeeds
    /\ bar' = WithExactLink(bar, t)
    /\ console' = [console EXCEPT !.request = @ + 1]
    /\ lookups' = lookups \cup {[request |-> console.request + 1, target |-> t]}
    /\ count' = [count EXCEPT !.deeds = @ + 1, !.failed = FALSE]
    /\ UNCHANGED <<slips, wanted, dialog, posts>>

\* finishOperationDeepLink.
Finished(b) == IF ExactLinkOf(b) # {} THEN WithoutExactLink(b) ELSE b

\* The record was read, or the server answered that there is none or that
\* it will not say.
LookupEnds(l, found) ==
    /\ l \in lookups
    /\ lookups' = lookups \ {l}
    /\ IF ~IsLatest(l)
       THEN UNCHANGED <<bar, console, wanted, dialog>>
       ELSE /\ bar' = Finished(bar)
            /\ IF ~found
               THEN UNCHANGED <<console, wanted, dialog>>
               ELSE LET s == IF l.target.kind = "user" THEN "students" ELSE "reservations"
                    IN /\ console' = [console EXCEPT
                              !.section = s, !.focus = l.target.id, !.landed = l.request,
                              !.date = IF s = "students" THEN @ ELSE slips[l.target.id].date,
                              !.status = IF s = "students" THEN @
                                         ELSE IF slips[l.target.id].confirmed
                                              THEN "CONFIRMED" ELSE "ALL"]
                       /\ Shows(s, wanted, dialog)
    /\ UNCHANGED <<slips, posts, count>>

\* No answer came: nobody catches it, nothing is said and the bar keeps the link.
LookupFails(l) ==
    /\ l \in lookups
    /\ lookups' = lookups \ {l}
    /\ count' = [count EXCEPT !.failed = @ \/ IsLatest(l)]
    /\ UNCHANGED <<slips, bar, console, wanted, dialog, posts>>

----------------------------------------------------------------------------
(* The administrator, and the others. *)

ChooseSection(s) ==
    /\ dialog.slip = Nowhere
    /\ console.section # s
    /\ console' = [console EXCEPT !.section = s]
    /\ Shows(s, wanted, dialog)
    /\ UNCHANGED <<slips, bar, lookups, posts, count>>

\* selectStatus: the choice is written into the address bar.
ChooseStatus(s) ==
    /\ console.section = "reservations" /\ dialog.slip = Nowhere
    /\ console.status # s /\ count.deeds < MaxDeeds
    /\ console' = [console EXCEPT !.status = s]
    /\ bar' = [bar EXCEPT !.status = s]
    /\ count' = [count EXCEPT !.deeds = @ + 1, !.chosen = @ \/ ReservationLinkOf(bar) # {}]
    /\ UNCHANGED <<slips, wanted, lookups, dialog, posts>>

OpenDialog(s) ==
    /\ console.section = "reservations" /\ dialog.slip = Nowhere
    /\ count.deeds < MaxDeeds
    /\ dialog' = Opened(dialog, s)
    /\ count' = [count EXCEPT !.deeds = @ + 1]
    /\ UNCHANGED <<slips, bar, console, wanted, lookups, posts>>

TypeReason ==
    /\ dialog.slip # Nowhere
    /\ dialog.typedFor = Nowhere
    /\ dialog' = [dialog EXCEPT !.typedFor = dialog.slip]
    /\ UNCHANGED <<slips, bar, console, wanted, lookups, posts, count>>

\* confirmDisabled: nothing is sent without a reason.
MayConfirm == dialog.typedFor # Nowhere /\ dialog.pending = 0

ConfirmCancel ==
    /\ dialog.slip # Nowhere /\ MayConfirm
    /\ count.deeds < MaxDeeds
    /\ count' = [count EXCEPT !.deeds = @ + 1]
    /\ dialog' = [dialog EXCEPT !.pending = Cardinality(posts) + 1]
    /\ posts' = posts \cup {[slip |-> dialog.slip, typedFor |-> dialog.typedFor,
                             nth |-> Cardinality(posts) + 1, state |-> "sent"]}
    /\ UNCHANGED <<slips, bar, console, wanted, lookups>>

\* The server cancels what is CONFIRMED and refuses the rest.  Success closes
\* the dialog it was sent from, whatever that shows by then; any other
\* answer leaves it, and a lost one does not say what was done.
CancelAnswered(p, told) ==
    /\ p \in posts /\ p.state = "sent"
    /\ told => slips[p.slip].confirmed
    /\ \/ slips' = [slips EXCEPT ![p.slip].confirmed = FALSE]
       \/ ~told /\ slips' = slips
    /\ posts' = (posts \ {p}) \cup {[p EXCEPT !.state = IF told THEN "done" ELSE "failed"]}
    /\ dialog' = IF dialog.pending # p.nth THEN dialog
                 ELSE IF told THEN NoDialog ELSE [dialog EXCEPT !.pending = 0]
    /\ UNCHANGED <<bar, console, wanted, lookups, count>>

DismissDialog ==
    /\ dialog.slip # Nowhere /\ dialog.pending = 0
    /\ dialog' = NoDialog
    /\ UNCHANGED <<slips, bar, console, wanted, lookups, posts, count>>

\* Somebody else ends the reservation.
Elsewhere(s) ==
    /\ slips[s].confirmed
    /\ slips' = [slips EXCEPT ![s].confirmed = FALSE]
    /\ UNCHANGED <<bar, console, wanted, lookups, dialog, posts, count>>

LinkAnswer == LinkIsFound \/ LinkIsMissing \/ LinkReadFails
LookupAnswer == \E l \in lookups : LookupFails(l) \/ \E found \in BOOLEAN : LookupEnds(l, found)

LinksNext ==
    \/ \E s \in Slips, d \in LinkDates : Visit(DiscordLink(s, d))
    \/ \E t \in Targets : Visit(WithExactLink(Bare, t))
    \/ \E s \in Slips, d \in LinkDates : Visit([DiscordLink(s, d) EXCEPT !.reservation = Nowhere])
    \/ Reload
    \/ LinkAnswer
    \/ \E t \in Targets : Navigate(t)
    \/ LookupAnswer
    \/ \E s \in {"dashboard", "reservations", "students"} : ChooseSection(s)
    \/ \E s \in {"CONFIRMED", "ALL"} : ChooseStatus(s)
    \/ \E s \in Slips : OpenDialog(s) \/ Elsewhere(s)
    \/ TypeReason \/ ConfirmCancel \/ DismissDialog
    \/ \E p \in posts, told \in BOOLEAN : CancelAnswered(p, told)

LinksSpec == LinksInit /\ [][LinksNext]_linkVars

----------------------------------------------------------------------------
(* The cancellations under way, and the dialogs, are of reservations; the  *)
(* bar holds well-formed keys; a dialog stands in the section of           *)
(* reservations only.                                                      *)
LinksTypeOK ==
    /\ slips \in [Slips -> [date : LinkDates, confirmed : BOOLEAN]]
    /\ bar \in [section : {"none", "reservations", "students"},
                date : LinkDates \cup {Nowhere}, status : {"none", "CONFIRMED", "ALL"},
                reservation : Slips \cup {Nowhere}, user : Pupils \cup {Nowhere}]
    /\ \A l \in lookups : l.target \in Targets /\ l.request \in 1..console.request
    /\ dialog.slip \in Slips \cup {Nowhere}
    /\ dialog.slip # Nowhere => console.section = "reservations"
    /\ wanted.opens # Nowhere => console.section # "reservations"

(* A dialog may be taken over, while its reason is being typed, by the     *)
(* reservation of a link that arrives late: a cancellation is still sent   *)
(* for the reservation the dialog shows, with a reason typed for it        *)
(* (admin-reservations-panel.tsx 95-145).                                  *)
CancelsWhatIsShown ==
    [][\A p \in posts' \ posts :
         p.state = "sent" => p.slip = dialog.slip /\ p.typedFor = dialog.slip]_linkVars

(* A link opens its dialog once: after it was opened or found missing, a   *)
(* reload does not open it again                                           *)
(* (admin-console-url.test.ts:137 "so refresh cannot reopen it").          *)
RefreshCannotReopen == count.opened <= count.offered

(* The same, as long as no other status was chosen while the link was      *)
(* being read.                                                             *)
PromptsWereLinked == count.chosen \/ RefreshCannotReopen

(* What the bar still names is being looked up, or could not be read since  *)
(* a link was last followed: no settled link stays behind to be followed    *)
(* again by a reload, whatever links were followed on top of each other.    *)
NamedTargetsAreSought ==
    \/ ReservationLinkOf(bar) = {}
         /\ (bar.date = Nowhere /\ bar.status = "none" => ExactLinkOf(bar) = {})
    \/ Unsettled
    \/ count.chosen

(* An answer that was overtaken by that of a later link does not take the  *)
(* console back to the record of the earlier one.                          *)
NoWayBack ==
    [][console'.landed < console.landed => console'.landed = 0]_linkVars

(* A link is followed once, to where it leads, and harms no other dialog.  *)
LinksAreFollowed ==
    [](LinksTypeOK /\ PromptsWereLinked /\ NamedTargetsAreSought) /\ CancelsWhatIsShown /\ NoWayBack
=============================================================================
