----------------------------- MODULE CsrfTokens -----------------------------
(***************************************************************************)
(* The CSRF tokens of one session: every browser tab fetches one, keeps    *)
(* the promise of it, and sends it with each mutating request; the server  *)
(* stores the newest few of the session, under the session's lock.         *)
(***************************************************************************)
EXTENDS Integers, FiniteSets

CONSTANTS Tabs,        \* browser tabs of the session
          KeepTokens,  \* MAX_CSRF_TOKENS_PER_SESSION
          TokenLife,   \* CSRF_TTL_MS, in ticks
          MaxTokens,   \* bound on the tokens minted
          MaxStale,    \* bound on calls for a token that a reset has left behind
          LastTick

ASSUME TokensAssumption ==
  {KeepTokens, TokenLife} \subseteq Nat \ {0} /\ {MaxTokens, MaxStale, LastTick} \subseteq Nat

VARIABLES tokens,   \* the stored tokens
          minted,   \* tokens minted so far
          tab,      \* per tab: its promise, the token it resolved to, calls left behind
          tick

csrfVars == <<tokens, minted, tab, tick>>

NoToken == [id |-> 0, expires |-> 0]
FreshTab == [promise |-> "null", token |-> NoToken, stale |-> 0]

CsrfInit ==
  tokens = {} /\ minted = 0 /\ tab = [t \in Tabs |-> FreshTab] /\ tick = 0

ValidateToken(token) ==
  IF token \notin tokens THEN "csrf_invalid"
  ELSE IF token.expires <= tick THEN "csrf_expired"
  ELSE "ok"

\* The oldest tokens stay.
Bug_Newest(stored) == {token \in stored : Cardinality({u \in stored : u.id < token.id}) < KeepTokens}

Newest(stored) == {token \in stored : Cardinality({u \in stored : u.id > token.id}) < KeepTokens}

Minted == [id |-> minted + 1, expires |-> tick + TokenLife]

Mint ==
  /\ minted < MaxTokens
  /\ minted' = minted + 1
  /\ tokens' = Newest(tokens \cup {Minted})

-----------------------------------------------------------------------------
AskForToken(t) ==
  /\ tab[t].promise = "null"
  /\ tab' = [tab EXCEPT ![t].promise = "pending"]
  /\ UNCHANGED <<tokens, minted, tick>>

TokenArrives(t) ==
  /\ tab[t].promise = "pending" /\ Mint
  /\ tab' = [tab EXCEPT ![t].promise = "token", ![t].token = Minted]
  /\ UNCHANGED tick

\* The answer is an error, empty or lost; the server may have minted.
TokenFails(t) ==
  /\ tab[t].promise = "pending"
  /\ Mint \/ UNCHANGED <<tokens, minted>>
  /\ tab' = [tab EXCEPT ![t].promise = "null"]
  /\ UNCHANGED tick

\* resetCsrfToken, at a login or a logout: a pending call is left behind.
ResetToken(t) ==
  LET left == IF tab[t].promise = "pending" THEN 1 ELSE 0 IN
  /\ tab[t].promise # "null" /\ tab[t].stale + left <= MaxStale
  /\ tab' = [tab EXCEPT ![t] = [FreshTab EXCEPT !.stale = tab[t].stale + left]]
  /\ UNCHANGED <<tokens, minted, tick>>

\* A call left behind succeeds: the promise is left as it is.
StaleArrives(t) ==
  /\ tab[t].stale > 0 /\ Mint
  /\ tab' = [tab EXCEPT ![t].stale = @ - 1]
  /\ UNCHANGED tick

\* It fails: the promise is dropped, a newer one too, whose call is then left
\* behind in its place.
StaleFails(t) ==
  /\ tab[t].stale > 0
  /\ tab' = [tab EXCEPT ![t] = [FreshTab EXCEPT !.stale =
               IF tab[t].promise = "pending" THEN tab[t].stale ELSE tab[t].stale - 1]]
  /\ UNCHANGED <<tokens, minted, tick>>

Purgeable(token) == token.expires <= tick

DeleteExpiredTokens ==
  /\ tokens' = {token \in tokens : ~Purgeable(token)}
  /\ tokens' # tokens
  /\ UNCHANGED <<minted, tab, tick>>

CsrfTick ==
  /\ tick < LastTick
  /\ tick' = tick + 1
  /\ UNCHANGED <<tokens, minted, tab>>

CsrfNext ==
  \/ \E t \in Tabs : AskForToken(t) \/ TokenArrives(t) \/ TokenFails(t) \/ ResetToken(t)
                     \/ StaleArrives(t) \/ StaleFails(t)
  \/ DeleteExpiredTokens \/ CsrfTick

CsrfSpec == CsrfInit /\ [][CsrfNext]_csrfVars

-----------------------------------------------------------------------------
Token == [id : 0..MaxTokens, expires : 0..LastTick + TokenLife]

\* Every variable has its type, and a session never keeps more than its tokens.
CsrfTypeOK ==
  /\ tokens \subseteq Token /\ Cardinality(tokens) <= KeepTokens
  /\ minted \in 0..MaxTokens /\ tick \in 0..LastTick
  /\ tab \in [Tabs -> [promise : {"null", "pending", "token"}, token : Token, stale : 0..MaxStale]]

\* A tab whose token is refused has been overtaken by as many newer tokens as a
\* session keeps, or its token has expired: minting in other tabs, answers that
\* fail after the server has minted and the purge never cost a tab its token
\* before (prismaCsrfTokenStore.create, deleteExpiredCsrfTokens).
OnlyOvertakenTokensFail ==
  \A t \in Tabs :
    tab[t].promise = "token" /\ ValidateToken(tab[t].token) # "ok" =>
      tab[t].token.id + KeepTokens <= minted \/ tab[t].token.expires <= tick
=============================================================================
