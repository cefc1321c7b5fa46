-------------------------- MODULE AccountSessions --------------------------
(***************************************************************************)
(* Accounts, logins and sessions: a student logs in through the school's   *)
(* portal, is matched to an account by portal id or by student number, and *)
(* receives a session in a later transaction of its own; administrators    *)
(* mark and clear departures and revoke sessions; the retention policy     *)
(* anonymises the accounts of those who left long ago.                     *)
(*                                                                         *)
(* The login's account transaction and every retention transaction are     *)
(* Serializable, so each is one step.  The departure transaction is too,   *)
(* but the insertion of a session is not: the departure therefore takes    *)
(* its snapshot in one step and commits in another, and deletes only the   *)
(* sessions of its snapshot.                                               *)
(***************************************************************************)
EXTENDS Integers, FiniteSets

CONSTANTS Accounts,      \* identifiers of account rows
          People,        \* those who log in; each has one portal id of its own
          Numbers,       \* student numbers
          Requests,      \* login requests, each with the browser that sent it
          Desks,         \* administrators at work on a departure
          LastAccountDay, \* the last day looked at
          SessionDays,   \* SESSION_TTL_DAYS
          IdentityDays,  \* departedUserIdentityDays of the approved policy
          MaxPolicies,   \* bound on saved policies
          ReusesNumbers  \* whether the school gives out numbers still on linked accounts

ASSUME SessionsAssumption ==
  /\ LastAccountDay \in Nat /\ MaxPolicies \in Nat
  /\ SessionDays \in Nat \ {0} /\ IdentityDays \in Nat \ {0}
  /\ "nobody" \notin People /\ "no account" \notin Accounts   \* NULL is nobody's
  /\ {"relinked", "ANON"} \cap Numbers = {}                    \* no number has these forms
  /\ ReusesNumbers \in BOOLEAN

VARIABLES user,       \* account rows
          session,    \* session rows
          login,      \* login requests under way
          departure,  \* departure transactions under way
          policy,     \* the retention policy row
          preview,    \* the checksum the administrator was last shown
          numberOf,   \* the number the portal reports for each person
          today

accountVars == <<user, session, login, departure, policy, preview, numberOf, today>>

Nobody == "nobody"     \* riroId is null
Relinked == "relinked" \* a number of the form relinked:<number>:<id>
Anon == "ANON"         \* a number of the form ANON-<uuid>
Never == -1            \* departedAt is null

NoAccount == "no account"
NoAccountRow == [row |-> FALSE, riro |-> Nobody, number |-> Anon, departed |-> Never,
          anonymized |-> FALSE]
NoDeparture == [kind |-> "none", target |-> NoAccount, read |-> NoAccountRow, sessions |-> {}]
NoPreview == [version |-> 0, candidates |-> {}]

Rows == {a \in Accounts : user[a].row}
WithRiro(p) == {a \in Rows : user[a].riro = p}
WithNumber(n) == {a \in Rows : user[a].number = n}

AccountsInit ==
  /\ numberOf \in {f \in [People -> Numbers] : \A p, q \in People : p # q => f[p] # f[q]}
  /\ \E a \in Accounts, n \in Numbers, p \in People \cup {Nobody} :
       /\ p # Nobody => numberOf[p] = n
       /\ user = [b \in Accounts |->
                    IF b = a THEN [NoAccountRow EXCEPT !.row = TRUE, !.riro = p, !.number = n] ELSE NoAccountRow]
  /\ session = {}
  /\ login = [r \in Requests |-> [pc |-> "idle", person |-> Nobody, account |-> NoAccount]]
  /\ departure = [d \in Desks |-> NoDeparture]
  /\ policy = [version |-> 0, enabled |-> FALSE]
  /\ preview = NoPreview
  /\ today = 0

-----------------------------------------------------------------------------
(* Logging in *)

Departed(A) == \E a \in A : user[a].departed # Never

\* The account found by its number is not asked whether it has departed.
Bug_MayPersist(p) ==
  WithRiro(p) # {} =>
    /\ ~Departed(WithRiro(p))
    /\ \A b \in WithNumber(numberOf[p]) \ WithRiro(p) :
         user[b].departed = Never /\ user[b].riro = Nobody

\* Who answers the login with the rows as they are: the account, or why not.
MayPersist(p) ==
  LET n == numberOf[p] IN
  IF WithRiro(p) # {}
  THEN /\ ~Departed(WithRiro(p))
       /\ \A b \in WithNumber(n) \ WithRiro(p) :
            user[b].departed = Never /\ user[b].riro = Nobody
  ELSE ~Departed(WithNumber(n))

\* The account that the login continues, or a fresh one.
AccountFor(p) ==
  IF WithRiro(p) # {} THEN WithRiro(p)
  ELSE IF WithNumber(numberOf[p]) # {} THEN WithNumber(numberOf[p])
  ELSE Accounts \ Rows

\* The row that carries the number without a portal id is moved aside.
PersistedRow(p, a, b) ==
  CASE b = a -> [user[b] EXCEPT !.row = TRUE, !.riro = p, !.number = numberOf[p]]
    [] b # a /\ user[b].row /\ user[b].number = numberOf[p] ->
         [user[b] EXCEPT !.riro = Nobody, !.number = Relinked]
    [] OTHER -> user[b]

Persist(r, p) ==
  /\ login[r].pc = "idle" /\ \A s \in session : s.request # r
  /\ MayPersist(p)
  /\ \E a \in AccountFor(p) :
       /\ user' = [b \in Accounts |-> PersistedRow(p, a, b)]
       /\ login' = [login EXCEPT ![r] = [pc |-> "persisted", person |-> p, account |-> a]]
  /\ UNCHANGED <<session, departure, policy, preview, numberOf, today>>

CreateSession(r) ==
  /\ login[r].pc = "persisted"
  /\ session' = session \cup
       {[request |-> r, person |-> login[r].person, owner |-> login[r].account, opened |-> today]}
  /\ login' = [login EXCEPT ![r] = [pc |-> "idle", person |-> Nobody, account |-> NoAccount]]
  /\ UNCHANGED <<user, departure, policy, preview, numberOf, today>>

\* The request ends before its session is stored.
LoginDies(r) ==
  /\ login[r].pc = "persisted"
  /\ login' = [login EXCEPT ![r] = [pc |-> "idle", person |-> Nobody, account |-> NoAccount]]
  /\ UNCHANGED <<user, session, departure, policy, preview, numberOf, today>>

Expired(s) == s.opened + SessionDays <= today

Logout(s) ==
  /\ ~Expired(s)
  /\ session' = session \ {s}
  /\ UNCHANGED <<user, login, departure, policy, preview, numberOf, today>>

DeleteExpiredSessions ==
  /\ session' = {s \in session : ~Expired(s)}
  /\ session' # session
  /\ UNCHANGED <<user, login, departure, policy, preview, numberOf, today>>

-----------------------------------------------------------------------------
(* The administrators *)

SessionsOf(a) == {s \in session : s.owner = a}

RevokeSessions(a) ==
  /\ a \in Rows /\ SessionsOf(a) # {}
  /\ session' = session \ SessionsOf(a)
  /\ UNCHANGED <<user, login, departure, policy, preview, numberOf, today>>

BeginDeparture(d, kind, a) ==
  /\ departure[d].kind = "none" /\ a \in Rows
  /\ departure' = [departure EXCEPT ![d] =
       [kind |-> kind, target |-> a, read |-> user[a], sessions |-> SessionsOf(a)]]
  /\ UNCHANGED <<user, session, login, policy, preview, numberOf, today>>

\* The row, and the sessions it deletes, are still those of the snapshot.
NoConflict(d) ==
  /\ user[departure[d].target] = departure[d].read
  /\ departure[d].kind = "mark" => departure[d].sessions \subseteq session

\* The commit; a request that asks for what is already so changes nothing.
DepartureChanges(d) ==
  /\ ~departure[d].read.anonymized
  /\ departure[d].kind = "mark" <=> departure[d].read.departed = Never

CommitDeparture(d) ==
  LET a == departure[d].target
      marks == departure[d].kind = "mark" IN
  /\ departure[d].kind # "none"
  /\ \/ /\ DepartureChanges(d) /\ NoConflict(d)
        /\ user' = [user EXCEPT ![a].departed = IF marks THEN today ELSE Never]
        /\ session' = IF marks THEN session \ departure[d].sessions ELSE session
     \/ ~DepartureChanges(d) /\ UNCHANGED <<user, session>>
  /\ departure' = [departure EXCEPT ![d] = NoDeparture]
  /\ UNCHANGED <<login, policy, preview, numberOf, today>>

\* 40001: the transaction is tried again from a new snapshot, or given up.
RetryDeparture(d) ==
  /\ departure[d].kind # "none" /\ DepartureChanges(d) /\ ~NoConflict(d)
  /\ \E next \in {NoDeparture,
                  [departure[d] EXCEPT !.read = user[departure[d].target],
                                       !.sessions = SessionsOf(departure[d].target)]} :
       departure' = [departure EXCEPT ![d] = next]
  /\ UNCHANGED <<user, session, login, policy, preview, numberOf, today>>

-----------------------------------------------------------------------------
(* Retention; version 0 is the policy that nobody has approved *)

Candidates == {a \in Rows : ~user[a].anonymized /\ user[a].departed # Never
                            /\ user[a].departed + IdentityDays <= today}

SavePolicy ==
  /\ policy.version < MaxPolicies
  /\ policy' = [version |-> policy.version + 1, enabled |-> FALSE]
  /\ UNCHANGED <<user, session, login, departure, preview, numberOf, today>>

DisablePolicy ==
  /\ policy.enabled
  /\ policy' = [policy EXCEPT !.enabled = FALSE]
  /\ UNCHANGED <<user, session, login, departure, preview, numberOf, today>>

ReadPreview ==
  /\ preview' = [version |-> policy.version, candidates |-> Candidates]
  /\ preview' # preview
  /\ UNCHANGED <<user, session, login, departure, policy, numberOf, today>>

Anonymize(A) ==
  /\ user' = [a \in Accounts |->
       IF a \in A THEN [user[a] EXCEPT !.anonymized = TRUE, !.riro = Nobody, !.number = Anon]
       ELSE user[a]]
  /\ session' = {s \in session : s.owner \notin A}

ApplyApproved ==
  /\ policy.version > 0
  /\ preview = [version |-> policy.version, candidates |-> Candidates]
  /\ Anonymize(Candidates)
  /\ policy' = [policy EXCEPT !.enabled = TRUE]
  /\ UNCHANGED <<login, departure, preview, numberOf, today>>

ApplyScheduled ==
  /\ policy.enabled /\ policy.version > 0
  /\ Candidates # {}
  /\ Anonymize(Candidates)
  /\ UNCHANGED <<login, departure, policy, preview, numberOf, today>>

-----------------------------------------------------------------------------
(* The school and the calendar *)

\* A person has a new number from now on.
Renumber(p) ==
  /\ \E n \in Numbers :
       /\ \A q \in People : numberOf[q] # n
       /\ ReusesNumbers \/ \A a \in WithNumber(n) : user[a].riro \in {p, Nobody}
       /\ numberOf' = [numberOf EXCEPT ![p] = n]
  /\ UNCHANGED <<user, session, login, departure, policy, preview, today>>

\* No request is left open for a night.
Midnight ==
  /\ today < LastAccountDay
  /\ \A r \in Requests : login[r].pc = "idle"
  /\ \A d \in Desks : departure[d].kind = "none"
  /\ today' = today + 1
  /\ UNCHANGED <<user, session, login, departure, policy, preview, numberOf>>

Administration ==
  \/ \E a \in Accounts : RevokeSessions(a)
  \/ \E d \in Desks, kind \in {"mark", "clear"}, a \in Accounts : BeginDeparture(d, kind, a)
  \/ \E d \in Desks : CommitDeparture(d) \/ RetryDeparture(d)
  \/ SavePolicy \/ DisablePolicy \/ ReadPreview \/ ApplyApproved \/ ApplyScheduled

AccountsNext ==
  \/ \E r \in Requests, p \in People : Persist(r, p)
  \/ \E r \in Requests : CreateSession(r) \/ LoginDies(r)
  \/ \E s \in session : Logout(s)
  \/ DeleteExpiredSessions
  \/ Administration
  \/ \E p \in People : Renumber(p)
  \/ Midnight

AccountsSpec == AccountsInit /\ [][AccountsNext]_accountVars

-----------------------------------------------------------------------------
(* Properties *)

Row == [row : BOOLEAN, riro : People \cup {Nobody}, number : Numbers \cup {Relinked, Anon},
        departed : {Never} \cup 0..LastAccountDay, anonymized : BOOLEAN]
Session == [request : Requests, person : People, owner : Accounts, opened : 0..LastAccountDay]

\* Every variable has its type, and a browser holds one session at a time.
AccountsTypeOK ==
  /\ user \in [Accounts -> Row]
  /\ session \subseteq Session
  /\ \A s, t \in session : s.request = t.request => s = t
  /\ DOMAIN login = Requests
  /\ \A d \in Desks : departure[d].sessions \subseteq Session
  /\ policy \in [version : 0..MaxPolicies, enabled : BOOLEAN]
  /\ preview \in [version : 0..MaxPolicies, candidates : SUBSET Accounts]
  /\ numberOf \in [People -> Numbers] /\ today \in 0..LastAccountDay

\* The two lookups of a login never find two accounts for one portal id or one
\* student number: the unique constraints of the schema are never what decides
\* (persistAuthenticatedUser).
OneAccountEach ==
  \A a, b \in Rows : a # b =>
    /\ user[a].riro = user[b].riro => user[a].riro = Nobody
    /\ user[a].number = user[b].number => user[a].number \in {Relinked, Anon}

\* Nobody logs in to an account that is marked as departed: a session that such
\* an account still has was opened on the day of the mark or before, by a login
\* that the mark did not see.
DepartedStayOut ==
  \A s \in session : user[s.owner].departed # Never => s.opened <= user[s.owner].departed

\* Whoever holds a session acts for an account of their own: the person who
\* logged in is the person the account is linked to.
SessionsAreTheirPersons ==
  \A s \in session : user[s.owner].riro = s.person

\* Scheduled cleanup runs only under a policy an administrator has applied from
\* its preview since it was saved: what it erases has a departure that still
\* stands and is old enough, and an account once erased neither returns from
\* its departure nor carries a name again.
ErasureIsFinal ==
  [][\A a \in Accounts : user[a].anonymized =>
       /\ user'[a] = user[a]
       /\ \A s \in session' : s.owner # a]_accountVars

\* A policy that was saved anew erases nothing until an administrator has
\* applied it from a preview of it: every erasure happens under the version of
\* the last preview (the save switches the policy off).
ErasureWasShown ==
  [][(\E a \in Accounts : ~user[a].anonymized /\ user'[a].anonymized)
       => preview.version > 0 /\ policy.version = preview.version]_accountVars

\* Accounts and sessions are their owners', the departed stay out and what is
\* erased was to be.  That a session is its person's rests on numbers that are
\* not given out while they stand on a linked account.
AccountsAreKept ==
  /\ [](AccountsTypeOK /\ OneAccountEach /\ DepartedStayOut /\ (~ReusesNumbers => SessionsAreTheirPersons))
  /\ ErasureIsFinal /\ ErasureWasShown
=============================================================================
