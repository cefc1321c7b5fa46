---------------------------- MODULE StudentPage ----------------------------
(***************************************************************************)
(* The student's page in the browser: who is logged in, the periods that   *)
(* are shown and whether they are fresh, and the dialog through which the  *)
(* student reserves or cancels.  Every answer comes late: the page keeps   *)
(* generations of requests and of owners so that only the latest answer    *)
(* for the student who is logged in is committed.                          *)
(*                                                                         *)
(* A generation is kept as what it decides: only the latest request of     *)
(* each kind is a variable, and an operation knows whether the page has    *)
(* changed owners (owned) or has been cleared (latest) since it began.     *)
(* One browser page is modelled, and a student who performs one operation  *)
(* at a time; what other pages of the same browser do is left out.         *)
(***************************************************************************)
EXTENDS Integers, FiniteSets

CONSTANTS Users,
          Dates,      \* the dates that can be looked at
          Week,       \* those of the active school week
          MaxEvents   \* bound on what the student, the timers and others do

NoUser == "nobody"

ASSUME PageAssumption == Week \subseteq Dates /\ NoUser \notin Users /\ MaxEvents \in Nat

VARIABLES mine,     \* the server: the dates on which each student has a reservation
          free,     \* the server: the dates with a free seat
          live,     \* the students whose session is alive
          cookie,   \* the session of the browser
          page,     \* the committed state of the page
          me,       \* the latest request for /api/me
          period,   \* the latest request for periods
          act,      \* the operation of the student
          events

pageVars == <<mine, free, live, cookie, page, me, period, act, events>>
serverVars == <<mine, free, live>>

NoDate == "no date"
Nothing == [who |-> NoUser, mine |-> FALSE, free |-> FALSE]  \* a date that is not cached
NoTag == [d \in Week |-> Nothing]
NoCall == [kind |-> "none", date |-> NoDate, cookie |-> NoUser, tag |-> NoTag, status |-> "none",
           body |-> [d \in Dates |-> Nothing], settles |-> FALSE]
NoMe == [status |-> "none", cookie |-> NoUser, user |-> NoUser]
Idle == [pc |-> "idle", kind |-> "none", date |-> NoDate, post |-> NoDate, who |-> NoUser,
         session |-> NoUser, owned |-> FALSE, latest |-> FALSE, per |-> "done", me |-> "done", ok |-> FALSE]

PageInit ==
  /\ mine = [u \in Users |-> {}] /\ free = Dates /\ live = {}
  /\ cookie = NoUser
  /\ \E d \in Week :
       page = [user |-> NoUser, sessionFresh |-> FALSE, fresh |-> FALSE, error |-> FALSE,
               cache |-> [e \in Dates |-> Nothing], tag |-> NoTag, target |-> d]
  /\ me = NoMe /\ period = NoCall /\ act = Idle
  /\ events = 0

Event == events < MaxEvents /\ events' = events + 1

-----------------------------------------------------------------------------
(* Requests *)

\* The student's view of a date; its body and the student make the ETag.
Content(u, d) == [who |-> u, mine |-> d \in mine[u], free |-> d \in free]

\* A request for the week of the date, or for the date when it is not a school
\* week date; it replaces the one before.
PeriodCall(d, session, tag, settles) ==
  [NoCall EXCEPT !.kind = IF d \in Week THEN "week" ELSE "date", !.date = d, !.cookie = session,
                 !.tag = tag, !.status = "sent", !.settles = settles]

MeCall(session) == [status |-> "sent", cookie |-> session, user |-> NoUser]

\* What a replaced request means for the operation that waits for it.
PeriodReplaced(a) == IF a.per = "wait" THEN [a EXCEPT !.per = "error"] ELSE a
MeReplaced(a, tracked) ==
  IF a.me = "wait" THEN [a EXCEPT !.me = IF tracked THEN "rejected" ELSE "accepted"] ELSE a

\* The page has a new owner: the dialog closes, and no generation matches any more.
Disowned(a) == IF a.pc = "dialog" THEN Idle ELSE [a EXCEPT !.owned = FALSE, !.latest = FALSE]

\* What clearPeriods leaves for the new user.
Cleared(u) == [page EXCEPT !.user = u, !.sessionFresh = TRUE, !.fresh = FALSE, !.error = FALSE,
                           !.cache = [d \in Dates |-> Nothing], !.tag = NoTag]

\* The effect of a new user asks for the week.
FirstRequest(u, session) ==
  IF u = NoUser THEN NoCall ELSE PeriodCall(page.target, session, NoTag, TRUE)

\* commitAuthenticationTransition, and the effects that a new user triggers.
Transition(u, session, a) ==
  /\ page' = Cleared(u)
  /\ period' = FirstRequest(u, session)
  /\ act' = Disowned(PeriodReplaced(a))

ServeMe ==
  /\ me.status = "sent"
  /\ me' = [me EXCEPT !.status = "answered",
                      !.user = IF me.cookie \in live THEN me.cookie ELSE NoUser]
  /\ UNCHANGED <<serverVars, cookie, page, period, act, events>>

MeArrives ==
  LET a == IF act.me = "wait" THEN [act EXCEPT !.me = "accepted"] ELSE act IN
  /\ me.status = "answered"
  /\ me' = NoMe
  /\ IF me.user = NoUser \/ me.user # page.user
     THEN Transition(me.user, cookie, a)
     ELSE /\ page' = [page EXCEPT !.sessionFresh = TRUE]
          /\ act' = a /\ UNCHANGED period
  /\ UNCHANGED <<serverVars, cookie, events>>

MeFails ==
  /\ me # NoMe /\ Event
  /\ me' = NoMe
  /\ page' = [page EXCEPT !.sessionFresh = FALSE]
  /\ act' = IF act.me = "wait" THEN [act EXCEPT !.me = "accepted"] ELSE act
  /\ UNCHANGED <<serverVars, cookie, period>>

WeekOf(u) == [d \in Week |-> Content(u, d)]

ServePeriod ==
  LET u == period.cookie IN
  /\ period.status = "sent"
  /\ period' = [period EXCEPT
       !.status = IF u \notin live THEN "error"
                  ELSE IF period.kind = "week" /\ period.tag = WeekOf(u) THEN "not_modified"
                  ELSE "ok",
       !.body = IF u \in live THEN [d \in Dates |-> Content(u, d)] ELSE @]
  /\ UNCHANGED <<serverVars, cookie, page, me, act, events>>

Answers == {"ok", "not_modified", "error"}
Answered == [act EXCEPT !.per = IF @ = "wait" THEN period.status ELSE @]

\* The cache after an answer.
Fetched(d) ==
  IF period.status = "ok" /\ d \in (IF period.kind = "week" THEN Week ELSE {period.date})
  THEN period.body[d] ELSE page.cache[d]

PeriodArrives ==
  /\ period.status \in Answers
  /\ page' = [page EXCEPT
       !.cache = [d \in Dates |-> Fetched(d)],
       !.tag = IF period.status = "ok" /\ period.kind = "week"
               THEN [d \in Week |-> period.body[d]] ELSE @,
       !.fresh = IF period.settles THEN period.status # "error" ELSE @,
       !.error = IF period.settles THEN period.status = "error" ELSE @]
  /\ act' = Answered
  /\ period' = NoCall
  /\ UNCHANGED <<serverVars, cookie, me, events>>

PeriodFails ==
  /\ period.status = "sent" /\ Event
  /\ period' = [period EXCEPT !.status = "error"]
  /\ UNCHANGED <<serverVars, cookie, page, me, act>>

-----------------------------------------------------------------------------
(* Logging in and out, timers, and the choice of a date *)

Modal == {"dialog", "token", "sent", "answered", "after"}

\* Mounting the page asks who is logged in.
Mount ==
  /\ events = 0 /\ Event
  /\ me' = MeCall(cookie)
  /\ UNCHANGED <<serverVars, cookie, page, period, act>>

\* The login is answered: the browser has the cookie, the page its user.
Login(u) ==
  /\ page.user = NoUser /\ Event
  /\ live' = live \cup {u} /\ cookie' = u
  /\ Transition(u, u, act)
  /\ UNCHANGED <<mine, free, me>>

LogOut ==
  /\ page.user # NoUser /\ act.pc \notin Modal /\ Event
  /\ live' = live \ {cookie} /\ cookie' = NoUser
  /\ Transition(NoUser, NoUser, act)
  /\ UNCHANGED <<mine, free, me>>

\* The session is revoked or expires.
SessionEnds ==
  /\ cookie \in live /\ Event
  /\ live' = live \ {cookie}
  /\ UNCHANGED <<mine, free, cookie, page, me, period, act>>

\* The timer, or the page becoming visible, which also asks for the session.
Poll(visible) ==
  /\ page.user # NoUser /\ Event
  /\ period' = PeriodCall(page.target, cookie, page.tag, TRUE)
  /\ IF visible THEN me' = MeCall(cookie) /\ act' = MeReplaced(PeriodReplaced(act), TRUE)
     ELSE UNCHANGED me /\ act' = PeriodReplaced(act)
  /\ UNCHANGED <<serverVars, cookie, page>>

\* The button "load again", which is shown while an error is.
Retry ==
  /\ page.user # NoUser /\ (page.error \/ ~page.sessionFresh) /\ period = NoCall /\ Event
  /\ \E d \in Week : period' = [PeriodCall(d, cookie, page.tag, TRUE) EXCEPT !.kind = "week"]
  /\ me' = MeCall(cookie)
  /\ act' = MeReplaced(act, FALSE)
  /\ UNCHANGED <<serverVars, cookie, page>>

SelectDate(d) ==
  /\ d # page.target /\ act.pc \notin Modal /\ Event
  /\ page' = [page EXCEPT !.target = d]
  /\ IF page.user # NoUser /\ d \notin Week /\ page.cache[d] = Nothing
     THEN period' = PeriodCall(d, cookie, NoTag, TRUE) /\ act' = PeriodReplaced(act)
     ELSE UNCHANGED <<period, act>>
  /\ UNCHANGED <<serverVars, cookie, me>>

\* Others take or leave the last seat.
OthersMove(d) ==
  /\ Event
  /\ free' = IF d \in free THEN free \ {d} ELSE free \cup {d}
  /\ UNCHANGED <<mine, live, cookie, page, me, period, act>>

-----------------------------------------------------------------------------
(* The student's operations *)

Authorized == act.owned /\ page.user # NoUser /\ page.sessionFresh /\ page.fresh

\* refreshReservationState: freshness is unknown until both answers are there.
Coordinate(a) ==
  /\ page' = [page EXCEPT !.fresh = FALSE, !.error = FALSE]
  /\ period' = PeriodCall(a.post, cookie, page.tag, FALSE)
  /\ me' = MeCall(cookie)
  /\ act' = [a EXCEPT !.latest = TRUE, !.per = "wait", !.me = "wait"]

Settled == act.me = "accepted" /\ act.latest /\ page.sessionFresh /\ act.per # "error"

\* After both answers the refresh settles freshness, unless it is not the latest.
Settling ==
  page' = IF act.latest
          THEN [page EXCEPT !.fresh = act.per # "error", !.error = act.per = "error"] ELSE page

Both == act.per # "wait" /\ act.me # "wait"
ShownDate == page.cache[page.target]

RequestReserve ==
  /\ act.pc = "idle" /\ page.user # NoUser /\ page.sessionFresh /\ page.fresh
  /\ ShownDate.free /\ ~ShownDate.mine /\ ShownDate # Nothing
  /\ Coordinate([Idle EXCEPT !.pc = "checking", !.kind = "reserve", !.date = page.target,
                             !.post = page.target, !.who = cookie, !.owned = TRUE])
  /\ UNCHANGED <<serverVars, cookie, events>>

\* The dialog opens when the fresh seats still allow it; it does not know the
\* date: what it confirms is for the date that is then selected.
Checked ==
  /\ act.pc = "checking" /\ Both
  /\ Settling
  /\ act' = IF Settled /\ act.owned /\ page.cache[act.date].free /\ ~page.cache[act.date].mine
            THEN [act EXCEPT !.pc = "dialog", !.post = page.target] ELSE Idle
  /\ UNCHANGED <<serverVars, cookie, me, period, events>>

RequestCancel ==
  /\ act.pc = "idle" /\ page.user # NoUser /\ page.sessionFresh /\ page.fresh
  /\ ShownDate.mine
  /\ act' = [Idle EXCEPT !.pc = "dialog", !.kind = "cancel", !.date = page.target,
                         !.post = page.target, !.who = cookie, !.owned = TRUE]
  /\ UNCHANGED <<serverVars, cookie, page, me, period, events>>

CloseDialog ==
  /\ act.pc = "dialog"
  /\ act' = Idle
  /\ UNCHANGED <<serverVars, cookie, page, me, period, events>>

\* Authorisation is asked for before the CSRF token is awaited.
ConfirmPendingAction ==
  /\ act.pc = "dialog" /\ Authorized
  /\ act' = [act EXCEPT !.pc = "token"]
  /\ UNCHANGED <<serverVars, cookie, page, me, period, events>>

\* It is not asked for again afterwards.
Bug_MaySend == act.pc = "token"

MaySend == Authorized

\* ... and again when the token is there.
Send ==
  /\ act.pc = "token"
  /\ act' = [act EXCEPT !.pc = IF MaySend THEN "sent" ELSE "answered", !.ok = FALSE,
                         !.session = cookie]
  /\ UNCHANGED <<serverVars, cookie, page, me, period, events>>

\* The server reserves or cancels for the session that sent the request, or
\* refuses; an answer may be lost, and the dialog stays.
ServeAct ==
  LET u == act.session
      possible == /\ u \in live
                  /\ IF act.kind = "reserve" THEN act.post \in free /\ act.post \notin mine[u]
                     ELSE act.date \in mine[u] IN
  /\ act.pc = "sent"
  /\ IF possible
     THEN mine' = [mine EXCEPT ![u] =
                     IF act.kind = "reserve" THEN @ \cup {act.post} ELSE @ \ {act.date}]
     ELSE UNCHANGED mine
  /\ \/ act' = [act EXCEPT !.pc = "answered", !.ok = possible] /\ UNCHANGED events
     \/ act' = (IF act.owned THEN [act EXCEPT !.pc = "dialog"] ELSE Idle) /\ Event
  /\ UNCHANGED <<free, live, cookie, page, me, period>>

RefreshAfter ==
  /\ act.pc = "answered"
  /\ Coordinate([act EXCEPT !.pc = "after"])
  /\ UNCHANGED <<serverVars, cookie, events>>

\* The page was refreshed after the operation, for the same student.
Tells == act.ok /\ Settled /\ act.owned /\ page.user # NoUser

Finish ==
  /\ act.pc = "after" /\ Both
  /\ Settling
  /\ act' = IF Tells THEN [Idle EXCEPT !.pc = "told", !.kind = act.kind, !.post = act.post,
                                       !.date = act.date, !.who = act.who]
            ELSE IF act.owned THEN [act EXCEPT !.pc = "dialog"] ELSE Idle
  /\ UNCHANGED <<serverVars, cookie, me, period, events>>

Read ==
  /\ act.pc = "told"
  /\ act' = Idle
  /\ UNCHANGED <<serverVars, cookie, page, me, period, events>>

Answering == ServeMe \/ MeArrives \/ ServePeriod \/ PeriodArrives
Working == Checked \/ Send \/ ServeAct \/ RefreshAfter \/ Finish \/ Read

PageNext ==
  \/ Answering \/ Working
  \/ MeFails \/ PeriodFails
  \/ Mount \/ (\E u \in Users : Login(u)) \/ LogOut \/ SessionEnds
  \/ (\E visible \in BOOLEAN : Poll(visible)) \/ Retry
  \/ (\E d \in Dates : SelectDate(d) \/ OthersMove(d))
  \/ RequestReserve \/ RequestCancel \/ CloseDialog \/ ConfirmPendingAction

PageSpec == PageInit /\ [][PageNext]_pageVars

-----------------------------------------------------------------------------
(* Properties *)

View == [who : Users \cup {NoUser}, mine : BOOLEAN, free : BOOLEAN]

\* Every variable has its type, and what is fresh is not an error.
PageTypeOK ==
  /\ mine \in [Users -> SUBSET Dates] /\ free \subseteq Dates /\ live \subseteq Users
  /\ cookie \in Users \cup {NoUser}
  /\ page.user \in Users \cup {NoUser} /\ page.target \in Dates
  /\ ~(page.fresh /\ page.error)
  /\ page.cache \in [Dates -> View] /\ page.tag \in [Week -> View]
  /\ me.status \in {"none", "sent", "answered"}
  /\ period.status \in {"none", "sent"} \cup Answers
  /\ act.pc \in {"idle", "checking", "token", "told"} \cup Modal
  /\ act.per \in {"done", "wait"} \cup Answers
  /\ act.me \in {"done", "wait", "accepted", "rejected"}

\* The periods that are shown are those of the session the browser holds: no
\* answer fetched for one student is shown after another one has logged in
\* (isLatestOwnedResourceRequest, clearPeriods).
ShownBelongsToSession ==
  \A d \in Dates : page.cache[d] # Nothing => page.cache[d].who = cookie

\* While nothing is on its way the ETag that is kept describes what is shown of
\* the week, so that "not modified" is an answer about what is shown.
TagDescribesShown ==
  \A d \in Week : page.tag[d] = page.cache[d]

\* A reservation changes at the server only by an operation that was confirmed
\* in the session that performs it, although the CSRF token is awaited between
\* the confirmation and the request.
ActsAsConfirmed ==
  [][\A u \in Users : mine'[u] # mine[u] => act.who = u]_pageVars

\* "Reserved" or "cancelled" is told only when the page already shows it: the
\* periods shown were fetched for the student after the server had done it.
ToldWasShown ==
  [][act'.pc = "told" /\ act.pc # "told" =>
       LET d == IF act'.kind = "reserve" THEN act'.post ELSE act'.date IN
       /\ page'.cache[d].who = act'.who
       /\ page'.cache[d].mine <=> act'.kind = "reserve"]_pageVars

\* The page shows, does and tells what is of the student who is logged in.
PageIsTrue ==
  [](PageTypeOK /\ ShownBelongsToSession /\ TagDescribesShown) /\ ActsAsConfirmed /\ ToldWasShown
=============================================================================
