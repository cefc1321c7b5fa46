---------------------------- MODULE StudentPanels ---------------------------
(***************************************************************************)
(* What a student is told about the account: the profile dialog            *)
(* (use-student-profile-resource.ts, api/me/profile) and the bell with the *)
(* notices of cancelled reservations (student-notification-panel.tsx,      *)
(* api/me/notifications), while administrators sanction the student, lift  *)
(* sanctions and cancel reservations, and the browser changes hands.       *)
(*                                                                         *)
(* The profile is read by several queries of one transaction, which is not *)
(* a snapshot: the account first, the sanctions later.  A request of the   *)
(* profile aborts the one before it; a request of the bell only overtakes  *)
(* it.  One page is modelled, whose user follows the session (StudentPage  *)
(* has the requests that make it so); what other pages of the same browser *)
(* do, and the pruning of old rows, is left out.                           *)
(***************************************************************************)
EXTENDS Integers, FiniteSets

CONSTANTS
    Learned,            \* the students
    MaxPanelEvents      \* bound: what people, the timer and the network do

ASSUME PanelsAssumption == MaxPanelEvents \in Nat

VARIABLES
    accounts,   \* the server: of each student, the status and what is on record
    visitor,    \* the session of the browser
    owner,      \* the page: its user and the generation of the authentication
    profile,    \* the profile dialog
    profileCall,\* the request of the profile that was not aborted
    bell,       \* the notices
    bellCalls,  \* their requests under way
    moment      \* history: the events so far

panelVars == <<accounts, visitor, owner, profile, profileCall, bell, bellCalls, moment>>

NoStudent == "no student"
Statuses == {"ACTIVE", "RESTRICTED", "SHADOW_BANNED"}
Sanctions == Statuses \ {"ACTIVE"}

\* What an answer of each panel holds: whose it is, and the data with the
\* moment at which the account was read.
NoView == [who |-> NoStudent, facing |-> "ACTIVE", rows |-> {}, read |-> 0]
NoNotices == [who |-> NoStudent, count |-> 0]

EmptyProfile == [open |-> FALSE, loading |-> FALSE, error |-> FALSE, shown |-> NoView]
EmptyBell == [loading |-> FALSE, error |-> FALSE, shown |-> NoNotices]
NoProfileCall == [phase |-> "none", owner |-> [user |-> NoStudent, generation |-> 0],
                  status |-> "ACTIVE", view |-> NoView]

PanelsInit ==
    /\ accounts = [s \in Learned |-> [status |-> "ACTIVE", since |-> 0, ended |-> {}, notices |-> 0]]
    /\ visitor = NoStudent
    /\ owner = [user |-> NoStudent, generation |-> 0]
    /\ profile = EmptyProfile
    /\ profileCall = NoProfileCall
    /\ bell = [latest |-> 0, state |-> EmptyBell]
    /\ bellCalls = {}
    /\ moment = 0

PanelEvent == moment < MaxPanelEvents /\ moment' = moment + 1

serverSide == <<accounts, visitor>>
profileSide == <<profile, profileCall>>
bellSide == <<bell, bellCalls>>

----------------------------------------------------------------------------
(* The administrators. *)

\* What the rows of the student are sanctions of; those in force and those
\* that were revoked.
OnRecord(s) == accounts[s].ended \cup ({accounts[s].status} \ {"ACTIVE"})

\* applyAdministratorUserSanction, removeAdministratorUserSanction: the
\* active sanction is revoked, and a new one may take its place.
SanctionChanges(s, status) ==
    /\ accounts[s].status # status
    /\ PanelEvent
    /\ accounts' = [accounts EXCEPT ![s] =
          [@ EXCEPT !.status = status, !.since = moment', !.ended = OnRecord(s)]]
    /\ UNCHANGED <<visitor, owner, profileSide, bellSide>>

\* ADMIN_RESERVATION_CANCEL is recorded for the student.
ReservationCancelled(s) ==
    /\ PanelEvent
    /\ accounts' = [accounts EXCEPT ![s].notices = @ + 1]
    /\ UNCHANGED <<visitor, owner, profileSide, bellSide>>

----------------------------------------------------------------------------
(* The session, and the page that follows it. *)

SessionStarts(s) ==
    /\ visitor = NoStudent /\ owner.user = NoStudent
    /\ PanelEvent
    /\ visitor' = s
    /\ UNCHANGED <<accounts, owner, profileSide, bellSide>>

SessionStops ==
    /\ visitor # NoStudent
    /\ PanelEvent
    /\ visitor' = NoStudent
    /\ UNCHANGED <<accounts, owner, profileSide, bellSide>>

BellCall(number, of) ==
    [number |-> number, owner |-> of, phase |-> "sent", shown |-> NoNotices]

\* refreshNotifications: the notices stay on the screen meanwhile when they
\* are those of the same student.
AsksBell(of) ==
    /\ bell' = [latest |-> bell.latest + 1,
                state |-> [loading |-> TRUE, error |-> FALSE,
                           shown |-> IF owner.user = of.user THEN bell.state.shown ELSE NoNotices]]
    /\ bellCalls' = bellCalls \cup {BellCall(bell.latest + 1, of)}

\* commitAuthenticationTransition: the profile is cleared and its request
\* aborted; the effect of the bell starts anew.
OwnerCommitted ==
    LET next == [user |-> visitor, generation |-> owner.generation + 1] IN
    /\ owner.user # visitor
    /\ owner' = next
    /\ profile' = EmptyProfile /\ profileCall' = NoProfileCall
    /\ IF visitor = NoStudent
       THEN /\ bell' = [latest |-> bell.latest + 1, state |-> EmptyBell]
            /\ UNCHANGED bellCalls
       ELSE AsksBell(next)
    /\ UNCHANGED <<accounts, visitor, moment>>

----------------------------------------------------------------------------
(* The profile. *)

\* openProfile, and refreshProfile while it is open: after a retry, a
\* reservation or a cancellation.
AskProfile ==
    /\ owner.user # NoStudent
    /\ PanelEvent
    /\ profile' = [open |-> TRUE, loading |-> TRUE, error |-> FALSE, shown |-> NoView]
    /\ profileCall' = [NoProfileCall EXCEPT !.phase = "sent", !.owner = owner]
    /\ UNCHANGED <<serverSide, owner, bellSide>>

\* The dialog cannot be dismissed while it loads.
CloseProfile ==
    /\ profile.open /\ ~profile.loading
    /\ profile' = [profile EXCEPT !.open = FALSE]
    /\ UNCHANGED <<serverSide, owner, profileCall, bellSide, moment>>

\* requireUser and the first query of the transaction.
ServeAccount ==
    /\ profileCall.phase = "sent"
    /\ profileCall' =
         IF visitor = NoStudent THEN [profileCall EXCEPT !.phase = "answered"]
         ELSE [profileCall EXCEPT !.phase = "halfway", !.status = accounts[visitor].status,
                                  !.view.who = visitor, !.view.read = moment]
    /\ UNCHANGED <<serverSide, owner, profile, bellSide, moment>>

\* toStudentFacingProfileUser, getEffectiveBookingStatus.
Facing(status) == IF status = "SHADOW_BANNED" THEN "ACTIVE" ELSE status

\* shouldExposeStudentProfileSanctions.
Exposed(status, s) == IF status = "SHADOW_BANNED" THEN {} ELSE OnRecord(s)

\* The later queries: the sanctions as they are by now.
ServeSanctions ==
    /\ profileCall.phase = "halfway"
    /\ profileCall' =
         [profileCall EXCEPT !.phase = "answered",
                             !.view.facing = Facing(profileCall.status),
                             !.view.rows = Exposed(profileCall.status, profileCall.view.who)]
    /\ UNCHANGED <<serverSide, owner, profile, bellSide, moment>>

\* The dialog after the answer; a refused request says why.
ProfileAfter(view) ==
    [profile EXCEPT !.loading = FALSE, !.error = view = NoView, !.shown = view]

\* isLatestOwnedResourceRequest; older requests were aborted.
ProfileArrives ==
    /\ profileCall.phase = "answered"
    /\ profileCall' = NoProfileCall
    /\ profile' = IF profileCall.owner = owner THEN ProfileAfter(profileCall.view) ELSE profile
    /\ UNCHANGED <<serverSide, owner, bellSide, moment>>

ProfileFails ==
    /\ profileCall.phase # "none"
    /\ PanelEvent
    /\ profileCall' = NoProfileCall
    /\ profile' = IF profileCall.owner = owner THEN ProfileAfter(NoView) ELSE profile
    /\ UNCHANGED <<serverSide, owner, bellSide>>

----------------------------------------------------------------------------
(* The bell. *)

\* The timer of a minute, or the page becoming visible.
AskBell ==
    /\ owner.user # NoStudent
    /\ PanelEvent
    /\ AsksBell(owner)
    /\ UNCHANGED <<serverSide, owner, profileSide>>

ServeBell(c) ==
    /\ c.phase = "sent"
    /\ bellCalls' = (bellCalls \ {c}) \cup
         {[c EXCEPT !.phase = "answered",
                    !.shown = IF visitor = NoStudent THEN NoNotices
                              ELSE [who |-> visitor, count |-> accounts[visitor].notices]]}
    /\ UNCHANGED <<serverSide, owner, profileSide, bell, moment>>

Bug_Commits(c) == TRUE

\* The latest request, of the student and the login that are still there.
Commits(c) == c.number = bell.latest /\ c.owner = owner

\* An error leaves the notices as they are.
BellAfter(c, ok) ==
    /\ bellCalls' = bellCalls \ {c}
    /\ bell' = IF ~Commits(c) THEN bell
               ELSE [bell EXCEPT !.state.loading = FALSE, !.state.error = ~ok,
                                 !.state.shown = IF ok THEN c.shown ELSE @]
    /\ UNCHANGED <<serverSide, owner, profileSide>>

BellArrives(c) ==
    c.phase = "answered" /\ BellAfter(c, c.shown # NoNotices) /\ UNCHANGED moment

BellFails(c) == PanelEvent /\ BellAfter(c, FALSE)

----------------------------------------------------------------------------

PanelsNext ==
    \/ \E s \in Learned :
         \/ \E status \in Statuses : SanctionChanges(s, status)
         \/ ReservationCancelled(s) \/ SessionStarts(s)
    \/ SessionStops \/ OwnerCommitted
    \/ AskProfile \/ CloseProfile \/ ServeAccount \/ ServeSanctions
    \/ ProfileArrives \/ ProfileFails
    \/ AskBell \/ \E c \in bellCalls : ServeBell(c) \/ BellArrives(c) \/ BellFails(c)

PanelsSpec == PanelsInit /\ [][PanelsNext]_panelVars

----------------------------------------------------------------------------
(* Properties. *)

\* The variables keep their shape; only the request the dialog waits for is
\* under way, and it is the dialog of its owner.
PanelsTypeOK ==
    /\ \A s \in Learned : accounts[s].status \in Statuses /\ accounts[s].ended \subseteq Sanctions
    /\ visitor \in Learned \cup {NoStudent} /\ owner.user \in Learned \cup {NoStudent}
    /\ profile.shown.rows \subseteq Sanctions /\ profile.shown.facing \in Statuses
    /\ profile.loading <=> profileCall.phase # "none"
    /\ profile.loading => profile.open /\ profile.shown = NoView
    /\ profileCall.phase # "none" => profileCall.owner = owner
    /\ \A c \in bellCalls : c.number \in 1..bell.latest

\* Whichever answers come late and whoever logs in next, what the panels show
\* is the data of the student who is logged in.
PanelsBelongToSession ==
    /\ profile.shown.who \in {owner.user, NoStudent}
    /\ bell.state.shown.who \in {owner.user, NoStudent}

\* student-profile-shadow-ban.test.ts: a shadow ban is hidden.  A profile that
\* was read since the ban began shows an unrestricted student without any
\* sanction for as long as the ban lasts.
HiddenOnceBanned ==
    LET view == profile.shown IN
    view.who # NoStudent =>
      LET account == accounts[view.who] IN
      account.status = "SHADOW_BANNED" /\ view.read >= account.since =>
        view.facing = "ACTIVE" /\ view.rows = {}

\* A notice that was shown stays: no later answer, and no failure, shows fewer
\* to the same student during the same login.
NoticesStay ==
    [][owner' = owner => bell'.state.shown.count >= bell.state.shown.count]_panelVars

\* The panels show what is the student's own, hide a ban and lose no notice.
PanelsAreTheStudents == [](PanelsTypeOK /\ PanelsBelongToSession /\ HiddenOnceBanned) /\ NoticesStay
=============================================================================
