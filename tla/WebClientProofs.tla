--------------------------- MODULE WebClientProofs ---------------------------
(***************************************************************************)
(* Proofs about the client and its requests: the tokens of the tabs and the *)
(* limits of the requests; the bulk dialog, the sheets of settings, the     *)
(* desk, the lists and the links of the administrators; the panels and the  *)
(* page of the students.  They hold for any number of tabs, administrators, *)
(* students, rows, links and requests.                                      *)
(***************************************************************************)
EXTENDS AdminDesk, AdminLinks, AdminLists, BulkCancellation, RequestLimits, SettingsSheet, StudentPage,
        StudentPanels, FiniteSetTheorems, FunctionTheorems, SequenceTheorems, WellFoundedInduction, TLAPS

(***************************************************************************)
(* CSRF tokens                                                             *)
(***************************************************************************)

(* The ids of the stored tokens tell them apart and were minted, and the    *)
(* token of a tab is still stored unless it was overtaken or has expired.   *)
CsrfInv ==
    /\ CsrfTypeOK
    /\ IsFiniteSet(tokens)
    /\ \A u, v \in tokens : u.id = v.id => u = v
    /\ \A u \in tokens : u.id \in 1 .. minted
    /\ \A t \in Tabs : tab[t].promise = "token" =>
          /\ tab[t].token.id \in 1 .. minted
          /\ \/ tab[t].token \in tokens
             \/ tab[t].token.id + KeepTokens <= minted
             \/ tab[t].token.expires <= tick

(* Records with different ids from an interval are no more than the ids.    *)
LEMMA IdsCount ==
    ASSUME NEW S, NEW n \in Nat, NEW m \in Nat, n <= m,
           \A u \in S : u.id \in n + 1 .. m,
           \A u, v \in S : u.id = v.id => u = v
    PROVE  IsFiniteSet(S) /\ Cardinality(S) <= m - n
<1> DEFINE f == [u \in S |-> u.id]
<1>1. f \in Injection(S, n + 1 .. m)
  BY DEF Injection, IsInjective
<1>2. IsFiniteSet(n + 1 .. m) /\ Cardinality(n + 1 .. m) = m - n
  <2>1. n + 1 \in Int /\ m \in Int
    OBVIOUS
  <2>2. /\ IsFiniteSet(n + 1 .. m)
        /\ Cardinality(n + 1 .. m) = IF n + 1 > m THEN 0 ELSE m - (n + 1) + 1
    BY <2>1, FS_Interval
  <2> QED BY <2>2
<1> QED BY <1>1, <1>2, FS_Injection

(* A session keeps at most its newest KeepTokens tokens.                    *)
LEMMA NewestAreFew ==
    ASSUME NEW S, IsFiniteSet(S), \A u \in S : u.id \in Nat,
           \A u, v \in S : u.id = v.id => u = v, KeepTokens \in Nat \ {0}
    PROVE  Cardinality(Newest(S)) <= KeepTokens
<1> DEFINE N == Newest(S)
<1>1. N \subseteq S /\ IsFiniteSet(N)
  BY FS_Subset DEF Newest
<1>2. CASE N = {}
  BY <1>2, FS_EmptySet
<1>3. CASE N # {}
  <2> DEFINE ids == {u.id : u \in N}
  <2>1. ids \subseteq Nat /\ ids # {}
    BY <1>1, <1>3
  <2>2. PICK i \in ids : \A j \in ids : ~(<<j, i>> \in OpToRel(<, Nat))
    BY <2>1, NatLessThanWellFounded, WFMin
  <2>3. PICK low \in N : low.id = i
    BY <2>2
  <2>4. \A u \in N \ {low} : u.id > low.id
    <3>1. SUFFICES ASSUME NEW u \in N, u # low PROVE u.id > low.id
      OBVIOUS
    <3>2. u.id \in ids /\ u.id \in Nat /\ low.id \in Nat
      BY <1>1, <2>1
    <3>3. ~(u.id < low.id)
      BY <2>2, <2>3, <3>2 DEF OpToRel
    <3>4. u.id # low.id
      BY <1>1, <3>1
    <3> QED BY <3>2, <3>3, <3>4
  <2> DEFINE newer == {u \in S : u.id > low.id}
  <2>5. IsFiniteSet(newer) /\ Cardinality(newer) < KeepTokens
    <3>1. IsFiniteSet(newer)
      BY FS_Subset
    <3> QED BY <2>3, <3>1 DEF Newest
  <2>6. N \ {low} \subseteq newer
    BY <1>1, <2>4
  <2>7. IsFiniteSet(N \ {low}) /\ Cardinality(N \ {low}) <= Cardinality(newer)
    BY <2>5, <2>6, FS_Subset
  <2>8. Cardinality(N \ {low}) = Cardinality(N) - 1
    BY <1>1, <2>3, FS_RemoveElement
  <2> QED
    <3>1. Cardinality(N) \in Nat /\ Cardinality(newer) \in Nat
      BY <1>1, <2>5, FS_CardinalityType
    <3> QED BY <2>5, <2>7, <2>8, <3>1
<1> QED BY <1>2, <1>3

(* Adding one token to those of a session and keeping the newest loses only *)
(* tokens that as many newer ones have overtaken.                           *)
LEMMA NewestLosesTheOvertaken ==
    ASSUME NEW S, NEW n \in Nat, KeepTokens \in Nat \ {0},
           \A u \in S : u.id \in 1 .. n,
           \A u, v \in S : u.id = v.id => u = v,
           NEW token \in S, token \notin Newest(S)
    PROVE  token.id + KeepTokens <= n
<1> DEFINE newer == {u \in S : u.id > token.id}
<1>1. token.id \in 1 .. n /\ token.id \in Nat /\ token.id <= n
  OBVIOUS
<1>2. \A u \in newer : u.id \in token.id + 1 .. n
  <2>1. SUFFICES ASSUME NEW u \in newer PROVE u.id \in token.id + 1 .. n
    OBVIOUS
  <2>2. u.id \in 1 .. n /\ u.id > token.id
    OBVIOUS
  <2> QED BY <1>1, <2>2
<1>3. IsFiniteSet(newer) /\ Cardinality(newer) <= n - token.id
  <2>1. \A u, v \in newer : u.id = v.id => u = v
    OBVIOUS
  <2> HIDE DEF newer
  <2> QED BY <1>1, <1>2, <2>1, IdsCount
<1>4. ~(Cardinality(newer) < KeepTokens)
  BY DEF Newest
<1>5. Cardinality(newer) \in Nat
  BY <1>3, FS_CardinalityType
<1> QED BY <1>1, <1>3, <1>4, <1>5

(* What minting does to the stored tokens: they stay distinct, minted and   *)
(* few, the new one is among them, and only overtaken ones are lost.        *)
LEMMA Minting ==
    ASSUME CsrfInv, Mint
    PROVE  /\ IsFiniteSet(tokens') /\ tokens' \subseteq tokens \cup {Minted} /\ Minted \in tokens'
           /\ \A u, v \in tokens' : u.id = v.id => u = v
           /\ \A u \in tokens' : u.id \in 1 .. minted'
           /\ tokens' \subseteq Token /\ Cardinality(tokens') <= KeepTokens
           /\ minted' = minted + 1 /\ minted' \in 0 .. MaxTokens
           /\ Minted \in Token /\ Minted.id \in 1 .. minted'
           /\ \A token \in tokens : token \in tokens' \/ token.id + KeepTokens <= minted'
<1> DEFINE S == tokens \cup {Minted}
<1>0. /\ KeepTokens \in Nat \ {0} /\ TokenLife \in Nat \ {0} /\ MaxTokens \in Nat /\ LastTick \in Nat
      /\ minted \in 0 .. MaxTokens /\ tick \in 0 .. LastTick /\ minted < MaxTokens
  BY TokensAssumption DEF TokensAssumption, CsrfInv, CsrfTypeOK, Mint
<1>1. /\ minted' = minted + 1 /\ minted' \in Nat /\ minted' \in 0 .. MaxTokens
      /\ Minted.id = minted' /\ Minted \in Token /\ tokens' = Newest(S)
  BY <1>0 DEF Mint, Minted, Token
<1>2. \A u \in S : u.id \in 1 .. minted'
  BY <1>0, <1>1 DEF CsrfInv
<1>3. \A u, v \in S : u.id = v.id => u = v
  BY <1>0, <1>1 DEF CsrfInv
<1>4. IsFiniteSet(S)
  BY FS_AddElement DEF CsrfInv
<1>5. Minted \in Newest(S)
  <2>1. SUFFICES ASSUME Minted \notin Newest(S) PROVE FALSE
    OBVIOUS
  <2> HIDE DEF S
  <2>2. Minted \in S
    BY DEF S
  <2>3. Minted.id + KeepTokens <= minted'
    BY <1>0, <1>1, <1>2, <1>3, <2>1, <2>2, NewestLosesTheOvertaken
  <2> QED BY <1>0, <1>1, <2>3
<1>6. \A token \in S : token \in Newest(S) \/ token.id + KeepTokens <= minted'
  <2> HIDE DEF S
  <2> QED BY <1>0, <1>1, <1>2, <1>3, NewestLosesTheOvertaken
<1>7. Cardinality(Newest(S)) <= KeepTokens
  <2> HIDE DEF S
  <2>1. \A u \in S : u.id \in Nat
    BY <1>1, <1>2
  <2> QED BY <1>0, <1>3, <1>4, <2>1, NewestAreFew
<1>8. Newest(S) \subseteq S
  BY DEF Newest
<1>9. S \subseteq Token
  BY <1>1 DEF CsrfInv, CsrfTypeOK
<1>10. IsFiniteSet(tokens')
  BY <1>1, <1>4, <1>8, FS_Subset
<1> QED BY <1>1, <1>2, <1>3, <1>5, <1>6, <1>7, <1>8, <1>9, <1>10

(* The invariant of the tokens holds at first.                              *)
LEMMA CsrfStarts == CsrfInit => CsrfInv
<1> SUFFICES ASSUME CsrfInit PROVE CsrfInv
  OBVIOUS
<1>1. IsFiniteSet(tokens) /\ Cardinality(tokens) = 0
  BY FS_EmptySet DEF CsrfInit
<1>2. /\ TokenLife \in Nat \ {0} /\ KeepTokens \in Nat \ {0}
      /\ MaxTokens \in Nat /\ LastTick \in Nat /\ MaxStale \in Nat
  BY TokensAssumption DEF TokensAssumption
<1>3. CsrfTypeOK
  BY <1>1, <1>2 DEF CsrfInit, CsrfTypeOK, Token, FreshTab, NoToken
<1> QED BY <1>1, <1>3 DEF CsrfInit, CsrfInv, FreshTab

(* Every step of the tabs and of the purge keeps the tokens' invariant.     *)
LEMMA CsrfSteps == CsrfInv /\ [CsrfNext]_csrfVars => CsrfInv'
<1> SUFFICES ASSUME CsrfInv, [CsrfNext]_csrfVars PROVE CsrfInv'
  OBVIOUS
<1>0. /\ KeepTokens \in Nat \ {0} /\ TokenLife \in Nat \ {0} /\ MaxTokens \in Nat /\ LastTick \in Nat
      /\ MaxStale \in Nat /\ minted \in 0 .. MaxTokens /\ tick \in 0 .. LastTick
  BY TokensAssumption DEF TokensAssumption, CsrfInv, CsrfTypeOK
<1>1. FreshTab \in [promise : {"null", "pending", "token"}, token : Token, stale : 0 .. MaxStale]
  BY <1>0 DEF FreshTab, NoToken, Token
<1>2. ASSUME UNCHANGED <<tokens, minted, tick>>,
             tab' \in [Tabs -> [promise : {"null", "pending", "token"}, token : Token, stale : 0 .. MaxStale]],
             \A t \in Tabs : tab'[t].promise = "token" => tab[t].promise = "token" /\ tab'[t].token = tab[t].token
      PROVE  CsrfInv'
  BY <1>2 DEF CsrfInv, CsrfTypeOK
<1>3. ASSUME Mint, tick' = tick,
             tab' \in [Tabs -> [promise : {"null", "pending", "token"}, token : Token, stale : 0 .. MaxStale]],
             \A t \in Tabs : tab'[t].promise = "token" =>
                \/ tab[t].promise = "token" /\ tab'[t].token = tab[t].token
                \/ tab'[t].token = Minted
      PROVE  CsrfInv'
  <2> USE <1>3
  <2>1. CsrfTypeOK'
    BY <1>0, Minting DEF CsrfTypeOK, CsrfInv
  <2>2. ASSUME NEW t \in Tabs, tab'[t].promise = "token"
        PROVE  /\ tab'[t].token.id \in 1 .. minted'
               /\ \/ tab'[t].token \in tokens'
                  \/ tab'[t].token.id + KeepTokens <= minted'
                  \/ tab'[t].token.expires <= tick'
    <3>1. minted' = minted + 1 /\ minted' \in Nat
      BY <1>0, Minting
    <3>2. CASE tab'[t].token = Minted
      BY <3>2, Minting
    <3>3. CASE tab[t].promise = "token" /\ tab'[t].token = tab[t].token
      <4>1. /\ tab[t].token.id \in 1 .. minted
            /\ \/ tab[t].token \in tokens
               \/ tab[t].token.id + KeepTokens <= minted
               \/ tab[t].token.expires <= tick
        BY <3>3 DEF CsrfInv
      <4>2. tab[t].token \in tokens => tab[t].token \in tokens' \/ tab[t].token.id + KeepTokens <= minted'
        BY Minting
      <4> QED BY <1>0, <3>1, <3>3, <4>1, <4>2
    <3> QED BY <2>2, <3>2, <3>3
  <2> QED BY <2>1, <2>2, Minting DEF CsrfInv
<1>4. ASSUME NEW t \in Tabs, AskForToken(t) PROVE CsrfInv'
  BY <1>2, <1>4 DEF AskForToken, CsrfInv, CsrfTypeOK
<1>5. ASSUME NEW t \in Tabs, TokenArrives(t) PROVE CsrfInv'
  <2>1. Minted \in Token
    BY <1>5, Minting DEF TokenArrives
  <2>2. Mint /\ tick' = tick /\ tab' = [tab EXCEPT ![t].promise = "token", ![t].token = Minted]
    BY <1>5 DEF TokenArrives
  <2>3. tab \in [Tabs -> [promise : {"null", "pending", "token"}, token : Token, stale : 0 .. MaxStale]]
    BY DEF CsrfInv, CsrfTypeOK
  <2> DEFINE minting == Minted
  <2> HIDE DEF minting
  <2>4. tab' = [tab EXCEPT ![t].promise = "token", ![t].token = minting] /\ minting \in Token /\ minting = Minted
    BY <2>1, <2>2 DEF minting
  <2>5. /\ tab' \in [Tabs -> [promise : {"null", "pending", "token"}, token : Token, stale : 0 .. MaxStale]]
        /\ tab'[t].token = minting
        /\ \A s \in Tabs : s = t \/ tab'[s] = tab[s]
    BY <2>3, <2>4
  <2>6. \A s \in Tabs : tab'[s].promise = "token" =>
           \/ tab[s].promise = "token" /\ tab'[s].token = tab[s].token
           \/ tab'[s].token = Minted
    BY <2>4, <2>5
  <2> QED BY <1>3, <2>2, <2>5, <2>6
<1>6. ASSUME NEW t \in Tabs, TokenFails(t) PROVE CsrfInv'
  <2>1. /\ tab' \in [Tabs -> [promise : {"null", "pending", "token"}, token : Token, stale : 0 .. MaxStale]]
        /\ \A s \in Tabs : tab'[s].promise = "token" => tab[s].promise = "token" /\ tab'[s].token = tab[s].token
    BY <1>6 DEF TokenFails, CsrfInv, CsrfTypeOK
  <2> QED BY <1>2, <1>3, <1>6, <2>1 DEF TokenFails
<1>7. ASSUME NEW t \in Tabs, ResetToken(t) PROVE CsrfInv'
  <2> DEFINE left == IF tab[t].promise = "pending" THEN 1 ELSE 0
  <2>1. tab[t].stale + left \in 0 .. MaxStale
    BY <1>0, <1>7 DEF ResetToken, CsrfInv, CsrfTypeOK
  <2> QED BY <1>1, <1>2, <1>7, <2>1 DEF ResetToken, CsrfInv, CsrfTypeOK, FreshTab
<1>8. ASSUME NEW t \in Tabs, StaleArrives(t) PROVE CsrfInv'
  <2>1. tab[t].stale - 1 \in 0 .. MaxStale
    BY <1>0, <1>8 DEF StaleArrives, CsrfInv, CsrfTypeOK
  <2> QED BY <1>3, <1>8, <2>1 DEF StaleArrives, CsrfInv, CsrfTypeOK
<1>9. ASSUME NEW t \in Tabs, StaleFails(t) PROVE CsrfInv'
  <2>1. tab[t].stale \in 0 .. MaxStale /\ tab[t].stale - 1 \in 0 .. MaxStale
    BY <1>0, <1>9 DEF StaleFails, CsrfInv, CsrfTypeOK
  <2> QED BY <1>1, <1>2, <1>9, <2>1 DEF StaleFails, CsrfInv, CsrfTypeOK, FreshTab
<1>10. ASSUME DeleteExpiredTokens PROVE CsrfInv'
  <2>1. tokens' \subseteq tokens /\ \A u \in tokens : u \in tokens' \/ u.expires <= tick
    BY <1>10 DEF DeleteExpiredTokens, Purgeable
  <2>2. IsFiniteSet(tokens') /\ Cardinality(tokens') <= KeepTokens
    <3>1. IsFiniteSet(tokens') /\ Cardinality(tokens') <= Cardinality(tokens)
      BY <2>1, FS_Subset DEF CsrfInv
    <3>2. Cardinality(tokens') \in Nat /\ Cardinality(tokens) \in Nat
      BY <3>1, FS_CardinalityType DEF CsrfInv
    <3> QED BY <1>0, <3>1, <3>2 DEF CsrfInv, CsrfTypeOK
  <2> QED BY <1>10, <2>1, <2>2 DEF DeleteExpiredTokens, CsrfInv, CsrfTypeOK
<1>11. ASSUME CsrfTick PROVE CsrfInv'
  <2>1. tick' \in 0 .. LastTick /\ tick' = tick + 1
    BY <1>0, <1>11 DEF CsrfTick
  <2>2. CsrfTypeOK'
    BY <1>11, <2>1 DEF CsrfTick, CsrfInv, CsrfTypeOK
  <2>3. \A t \in Tabs : tab[t].token.expires \in Int
    BY <1>0 DEF CsrfInv, CsrfTypeOK, Token
  <2> QED BY <1>0, <1>11, <2>1, <2>2, <2>3 DEF CsrfTick, CsrfInv
<1>12. CASE UNCHANGED csrfVars
  BY <1>12 DEF csrfVars, CsrfInv, CsrfTypeOK
<1> QED
  BY <1>4, <1>5, <1>6, <1>7, <1>8, <1>9, <1>10, <1>11, <1>12 DEF CsrfNext

(* A tab whose token is refused was overtaken or its token expired.         *)
LEMMA CsrfSafe == CsrfInv => CsrfTypeOK /\ OnlyOvertakenTokensFail
BY DEF CsrfInv, OnlyOvertakenTokensFail, ValidateToken

(* The tokens' invariant holds for ever.                                    *)
LEMMA CsrfAlways == CsrfSpec => []CsrfInv
BY CsrfStarts, CsrfSteps, PTL DEF CsrfSpec

(***************************************************************************)
(* Rate limits                                                             *)
(***************************************************************************)

(* A request that a rule let through is known by the window that counted it *)
(* and its number in it.                                                    *)
Passed(r) == [at : Nat, ends : Nat, nth : 1 .. Limit[r]]

(* The windows of a rule follow one another nearly a window apart: a purge  *)
(* and a request that read its clock before it cost MaxLag at most.         *)
Apart(r, e, f) == e + (Window[r] - MaxLag) <= f

(* What was counted fits the row: it is of the row's window and within its  *)
(* count, or of a window well before; and without a row its window is over. *)
Accounted(r, x) ==
    IF bucket[r] = NoBucket THEN x.ends <= time
    ELSE \/ x.ends = bucket[r].expires /\ x.nth <= bucket[r].count
         \/ Apart(r, x.ends, bucket[r].expires)

(* What a rule's row and the requests that it let through have in common.   *)
RuleInv(r) ==
    /\ \A x \in allowed[r] : x \in Passed(r) /\ Accounted(r, x)
    /\ \A x \in allowed[r] : x.at <= time /\ x.at < x.ends /\ x.ends <= x.at + Window[r] + MaxLag
    /\ \A x, y \in allowed[r] : x.ends = y.ends \/ Apart(r, x.ends, y.ends) \/ Apart(r, y.ends, x.ends)
    /\ \A x, y \in allowed[r] : x.ends = y.ends /\ x.nth = y.nth => x = y

(* The clock, the row and the requests under way of the rate limits.        *)
RatesInv ==
    /\ time \in Nat
    /\ bucket \in [Rules -> [count : Nat, expires : Nat]]
    /\ caller \in [Clients -> [at : Nat \cup {-1}, rule : Rules]]
    /\ allowed \in [Rules -> SUBSET [at : Nat, ends : Nat, nth : Nat]]
    /\ \A r \in Rules : bucket[r] # NoBucket => bucket[r].count > 0 /\ bucket[r].expires <= time + Window[r]
    /\ \A c \in Clients : caller[c].at # -1 => caller[c].at <= time /\ time <= caller[c].at + MaxLag
    /\ \A r \in Rules : RuleInv(r)

(* What the constants of the rates are.                                     *)
LEMMA RatesConstants ==
    /\ MaxLag \in Nat /\ MaxOver \in Nat /\ MaxTick \in Nat /\ 1 \in Rules
    /\ \A r \in Rules : /\ Limit[r] \in Nat \ {0} /\ Window[r] \in Nat \ {0}
                        /\ MaxLag < Window[r] /\ 4 * MaxLag < Window[r] + 2
BY RatesAssumption DEF RatesAssumption

(* The invariant of the rates holds at first.                               *)
LEMMA RatesStart == RatesInit => RatesInv
<1> SUFFICES ASSUME RatesInit PROVE RatesInv
  OBVIOUS
<1>1. time = 0 /\ bucket \in [Rules -> [count : Nat, expires : Nat]]
  BY DEF RatesInit, NoBucket
<1>2. caller \in [Clients -> [at : Nat \cup {-1}, rule : Rules]] /\ \A c \in Clients : caller[c].at = -1
  BY RatesConstants DEF RatesInit, NoCaller
<1>3. \A r \in Rules : allowed[r] = {}
  BY DEF RatesInit
<1> QED BY <1>1, <1>2, <1>3 DEF RatesInit, RatesInv, RuleInv

(* A request that is counted: what becomes of the row of its rule, and of   *)
(* the requests that the rule let through, where one more is one not there. *)
LEMMA CountKeepsTheRule ==
    ASSUME RatesInv, NEW c \in Clients, NEW r \in Rules, r = caller[c].rule, Count(c)
    PROVE  /\ RuleInv(r)'
           /\ bucket'[r] \in [count : Nat \ {0}, expires : Nat] /\ bucket'[r].expires <= time + Window[r]
           /\ allowed'[r] \subseteq [at : Nat, ends : Nat, nth : Nat]
           /\ Incremented(r, caller[c].at).count <= Limit[r] => allowed'[r] # allowed[r]
<1> PICK now : now = caller[c].at
  OBVIOUS
<1> PICK row : row = Incremented(r, now)
  OBVIOUS
<1> DEFINE W == Window[r]
           old == bucket[r]
           counted == [at |-> now, ends |-> row.expires, nth |-> row.count]
<1>1. /\ r \in Rules /\ now \in Nat /\ now <= time /\ time <= now + MaxLag /\ time \in Nat
  BY DEF RatesInv, Count
<1>2. /\ MaxLag \in Nat /\ W \in Nat \ {0} /\ MaxLag < W /\ Limit[r] \in Nat
  BY <1>1, RatesConstants
<1>3. old \in [count : Nat, expires : Nat] /\ (old # NoBucket => old.count > 0 /\ old.expires <= time + W)
  BY <1>1 DEF RatesInv
<1>4. old = NoBucket => old.expires <= now
  BY <1>1 DEF NoBucket
<1>5. bucket' = [bucket EXCEPT ![r] = row] /\ time' = time
  BY DEF Count
<1>6. \/ old.expires <= now /\ row = [count |-> 1, expires |-> now + W]
      \/ ~(old.expires <= now) /\ row = [count |-> old.count + 1, expires |-> old.expires]
  BY <1>3 DEF Incremented
<1>7. row \in [count : Nat \ {0}, expires : Nat] /\ row.expires <= time + W /\ now < row.expires
  BY <1>1, <1>2, <1>3, <1>4, <1>6
<1>8. bucket'[r] = row /\ row # NoBucket
  BY <1>1, <1>5, <1>7 DEF NoBucket, RatesInv
<1>9. \/ allowed'[r] = allowed[r]
      \/ allowed'[r] = allowed[r] \cup {counted} /\ row.count <= Limit[r]
  BY <1>1 DEF Count, RatesInv
<1> DEFINE A == allowed[r]
<1>10. /\ \A x \in A : x \in Passed(r) /\ Accounted(r, x)
       /\ \A x \in A : x.at <= time /\ x.at < x.ends /\ x.ends <= x.at + W + MaxLag
       /\ \A x, y \in A : x.ends = y.ends \/ Apart(r, x.ends, y.ends) \/ Apart(r, y.ends, x.ends)
       /\ \A x, y \in A : x.ends = y.ends /\ x.nth = y.nth => x = y
  BY <1>1 DEF RatesInv, RuleInv
<1>11. ASSUME NEW x \in A
       PROVE  \/ x.ends = row.expires /\ x.nth < row.count
              \/ Apart(r, x.ends, row.expires)
  <2>1. x.ends \in Nat /\ x.nth \in Nat
    BY <1>2, <1>10 DEF Passed
  <2>2. CASE old = NoBucket
    <3>1. x.ends <= time
      BY <1>10, <2>2 DEF Accounted
    <3>2. row.expires = now + W
      BY <1>4, <1>6, <2>2
    <3> QED BY <1>1, <1>2, <2>1, <3>1, <3>2 DEF Apart
  <2>3. CASE old # NoBucket
    <3>1. \/ x.ends = old.expires /\ x.nth <= old.count
          \/ Apart(r, x.ends, old.expires)
      BY <1>10, <2>3 DEF Accounted
    <3>2. CASE ~(old.expires <= now) /\ row = [count |-> old.count + 1, expires |-> old.expires]
      BY <1>3, <2>1, <3>1, <3>2
    <3>3. CASE old.expires <= now /\ row = [count |-> 1, expires |-> now + W]
      <4>1. x.ends <= old.expires
        BY <1>2, <1>3, <2>1, <3>1 DEF Apart
      <4> QED BY <1>1, <1>2, <1>3, <2>1, <3>3, <4>1 DEF Apart
    <3> QED BY <1>6, <3>2, <3>3
  <2> QED BY <2>2, <2>3
<1>12. \A x \in A : x.ends \in Nat /\ x.nth \in Nat
  BY <1>2, <1>10 DEF Passed
<1>13. \A x \in A : Accounted(r, x)'
  BY <1>7, <1>8, <1>11, <1>12 DEF Accounted, Apart
<1>14. ASSUME row.count <= Limit[r]
       PROVE  /\ counted \in Passed(r) /\ Accounted(r, counted)' /\ counted \in [at : Nat, ends : Nat, nth : Nat]
              /\ counted.at <= time /\ counted.at < counted.ends
              /\ counted.ends <= counted.at + W + MaxLag
  <2>1. row.count \in 1 .. Limit[r]
    BY <1>2, <1>7, <1>14
  <2>2. counted \in Passed(r) /\ counted \in [at : Nat, ends : Nat, nth : Nat]
    BY <1>1, <1>7, <2>1 DEF Passed
  <2>3. Accounted(r, counted)'
    BY <1>7, <1>8 DEF Accounted
  <2> QED BY <1>1, <1>2, <1>7, <2>2, <2>3
<1>15. \A x \in A : x.ends = counted.ends \/ Apart(r, x.ends, counted.ends)
  BY <1>11
<1>16. \A x \in A : ~(x.ends = counted.ends /\ x.nth = counted.nth)
  BY <1>2, <1>7, <1>11, <1>12 DEF Apart
<1>17. RuleInv(r)'
  <2> HIDE DEF counted, A
  <2>1. CASE allowed'[r] = A
    BY <1>5, <1>10, <1>13, <2>1 DEF RuleInv, Passed, Apart
  <2>2. CASE allowed'[r] = A \cup {counted} /\ row.count <= Limit[r]
    <3>1. \A x \in allowed'[r] : x \in Passed(r) /\ Accounted(r, x)'
      BY <1>10, <1>13, <1>14, <2>2
    <3>2. \A x \in allowed'[r] : x.at <= time /\ x.at < x.ends /\ x.ends <= x.at + W + MaxLag
      BY <1>10, <1>14, <2>2
    <3>3. \A x, y \in allowed'[r] : x.ends = y.ends \/ Apart(r, x.ends, y.ends) \/ Apart(r, y.ends, x.ends)
      BY <1>10, <1>15, <2>2
    <3>4. \A x, y \in allowed'[r] : x.ends = y.ends /\ x.nth = y.nth => x = y
      BY <1>10, <1>16, <2>2
    <3> QED BY <1>5, <3>1, <3>2, <3>3, <3>4 DEF RuleInv, Passed, Apart, Accounted
  <2> QED BY <1>9, <2>1, <2>2 DEF A
<1>18. allowed'[r] \subseteq [at : Nat, ends : Nat, nth : Nat]
  <2>1. allowed[r] \subseteq [at : Nat, ends : Nat, nth : Nat]
    BY <1>1 DEF RatesInv
  <2> QED BY <1>9, <1>14, <2>1
<1>19. row.count <= Limit[r] => allowed'[r] # allowed[r]
  <2>1. row.count <= Limit[r] => allowed'[r] = A \cup {counted}
    BY <1>1 DEF Count, RatesInv
  <2> QED BY <1>16, <2>1
<1> QED BY <1>7, <1>8, <1>17, <1>18, <1>19

(* Every step of the requests, the purge and the clock keeps the invariant. *)
LEMMA RatesSteps == RatesInv /\ [RatesNext]_rateVars => RatesInv'
<1> SUFFICES ASSUME RatesInv, [RatesNext]_rateVars PROVE RatesInv'
  OBVIOUS
<1> USE RatesConstants
<1>1. ASSUME NEW c \in Clients, ReadClock(c) PROVE RatesInv'
  <2>1. caller' \in [Clients -> [at : Nat \cup {-1}, rule : Rules]]
    BY <1>1 DEF ReadClock, RatesInv
  <2>2. \A d \in Clients : caller'[d].at # -1 => caller'[d].at <= time /\ time <= caller'[d].at + MaxLag
    BY <1>1 DEF ReadClock, RatesInv
  <2> QED BY <1>1, <2>1, <2>2 DEF ReadClock, RatesInv, RuleInv, Accounted
<1>2. ASSUME NEW c \in Clients, Count(c) PROVE RatesInv'
  <2> PICK r \in Rules : r = caller[c].rule
    BY DEF RatesInv
  <2>1. /\ RuleInv(r)'
        /\ bucket'[r] \in [count : Nat \ {0}, expires : Nat] /\ bucket'[r].expires <= time + Window[r]
        /\ allowed'[r] \subseteq [at : Nat, ends : Nat, nth : Nat]
    BY <1>2, CountKeepsTheRule
  <2>2. /\ time' = time
        /\ bucket' = [bucket EXCEPT ![r] = bucket'[r]]
        /\ allowed' = [allowed EXCEPT ![r] = allowed'[r]]
    BY <1>2 DEF Count, RatesInv
  <2>3. bucket' \in [Rules -> [count : Nat, expires : Nat]]
    BY <2>1, <2>2 DEF RatesInv
  <2>4. allowed' \in [Rules -> SUBSET [at : Nat, ends : Nat, nth : Nat]]
    BY <2>1, <2>2 DEF RatesInv
  <2>5. \A q \in Rules : bucket'[q] # NoBucket => bucket'[q].count > 0 /\ bucket'[q].expires <= time + Window[q]
    BY <2>1, <2>2 DEF RatesInv
  <2>6. \A q \in Rules : RuleInv(q)'
    <3>1. ASSUME NEW q \in Rules, q # r PROVE RuleInv(q)'
      <4>1. bucket'[q] = bucket[q] /\ allowed'[q] = allowed[q] /\ time' = time
        BY <2>2, <3>1 DEF RatesInv
      <4>2. RuleInv(q)
        BY DEF RatesInv
      <4> QED BY <4>1, <4>2 DEF RuleInv, Accounted, Apart, Passed
    <3> QED BY <2>1, <3>1
  <2>7. \/ caller' = [caller EXCEPT ![c].rule = r + 1] /\ r + 1 \in Rules
        \/ caller' = [caller EXCEPT ![c] = NoCaller]
    BY <1>2 DEF Count
  <2>8. caller' \in [Clients -> [at : Nat \cup {-1}, rule : Rules]]
    BY <2>7 DEF RatesInv, NoCaller
  <2>9. \A d \in Clients : caller'[d].at # -1 => caller'[d].at <= time /\ time <= caller'[d].at + MaxLag
    BY <2>7 DEF RatesInv, NoCaller
  <2> QED BY <2>2, <2>3, <2>4, <2>5, <2>6, <2>8, <2>9 DEF RatesInv
<1>3. ASSUME NEW r \in Rules, DeleteExpiredBucket(r) PROVE RatesInv'
  <2>1. bucket' = [bucket EXCEPT ![r] = NoBucket] /\ UNCHANGED <<caller, allowed, time>>
    BY <1>3 DEF DeleteExpiredBucket
  <2>2. bucket' \in [Rules -> [count : Nat, expires : Nat]]
    BY <2>1 DEF RatesInv, NoBucket
  <2>3. \A q \in Rules : bucket'[q] # NoBucket => bucket'[q].count > 0 /\ bucket'[q].expires <= time + Window[q]
    BY <2>1 DEF RatesInv
  <2>4. ASSUME NEW q \in Rules, NEW x \in allowed[q] PROVE Accounted(q, x)'
    <3>1. Accounted(q, x) /\ x \in Passed(q)
      BY DEF RatesInv, RuleInv
    <3>2. CASE q # r
      BY <2>1, <3>1, <3>2 DEF Accounted, RatesInv
    <3>3. CASE q = r
      <4>1. bucket[r] # NoBucket /\ bucket[r].expires <= time /\ bucket[r].expires \in Nat /\ time \in Nat
        BY <1>3 DEF DeleteExpiredBucket, RatesInv
      <4>2. x.ends <= bucket[r].expires
        BY <3>1, <3>3, <4>1 DEF Accounted, Apart, Passed
      <4>3. x.ends <= time
        BY <3>1, <4>1, <4>2 DEF Passed
      <4>4. bucket'[r] = NoBucket
        BY <2>1 DEF RatesInv
      <4> QED BY <2>1, <3>3, <4>3, <4>4 DEF Accounted
    <3> QED BY <3>2, <3>3
  <2>5. \A q \in Rules : RuleInv(q)'
    BY <2>1, <2>4 DEF RatesInv, RuleInv, Passed, Apart
  <2> QED BY <2>1, <2>2, <2>3, <2>5 DEF RatesInv
<1>4. ASSUME RateTick PROVE RatesInv'
  <2>1. time' = time + 1 /\ time' \in Nat /\ UNCHANGED <<bucket, caller, allowed>>
    BY <1>4 DEF RateTick, RatesInv
  <2>2. \A c \in Clients : caller'[c].at # -1 => caller'[c].at <= time' /\ time' <= caller'[c].at + MaxLag
    BY <1>4, <2>1 DEF RateTick, RatesInv, NoCaller
  <2>3. \A r \in Rules : bucket'[r] # NoBucket => bucket'[r].count > 0 /\ bucket'[r].expires <= time' + Window[r]
    BY <2>1 DEF RatesInv
  <2>4. ASSUME NEW r \in Rules, NEW x \in allowed[r] PROVE Accounted(r, x)' /\ x.at <= time'
    BY <2>1 DEF RatesInv, RuleInv, Accounted, Passed
  <2>5. \A r \in Rules : RuleInv(r)'
    BY <2>1, <2>4 DEF RatesInv, RuleInv, Passed, Apart
  <2> QED BY <2>1, <2>2, <2>3, <2>5 DEF RatesInv
<1>5. CASE UNCHANGED rateVars
  BY <1>5 DEF rateVars, RatesInv, RuleInv, Accounted
<1> QED BY <1>1, <1>2, <1>3, <1>4, <1>5 DEF RatesNext

(* Four windows of a rule do not all count requests of one span as long as  *)
(* the rule's window.                                                       *)
LEMMA AtMostThreeWindows ==
    ASSUME RatesInv, NEW r \in Rules, NEW from \in Nat
    PROVE  \E e1, e2, e3 : \A x \in Within(r, from) : x.ends \in {e1, e2, e3}
<1> DEFINE X == Within(r, from)
           W == Window[r]
<1>1. /\ MaxLag \in Nat /\ W \in Nat /\ MaxLag < W /\ 4 * MaxLag < W + 2
  BY RatesConstants
<1>2. \A x \in X : x.ends \in Nat /\ from < x.ends /\ x.ends <= from + W - 1 + W + MaxLag
  <2>1. SUFFICES ASSUME NEW x \in X
                 PROVE  x.ends \in Nat /\ from < x.ends /\ x.ends <= from + W - 1 + W + MaxLag
    OBVIOUS
  <2>2. x \in allowed[r] /\ x.at \in from .. from + W - 1
    BY DEF Within
  <2>3. x.at < x.ends /\ x.ends <= x.at + W + MaxLag /\ x.ends \in Nat
    BY <2>2 DEF RatesInv, RuleInv
  <2> QED BY <1>1, <2>2, <2>3
<1>3. \A x, y \in X : x.ends = y.ends \/ x.ends + (W - MaxLag) <= y.ends \/ y.ends + (W - MaxLag) <= x.ends
  BY DEF Within, RatesInv, RuleInv, Apart
<1> SUFFICES ASSUME \A e1, e2, e3 : \E x \in X : x.ends \notin {e1, e2, e3}
             PROVE  FALSE
  OBVIOUS
<1> HIDE DEF X, W
<1>4. PICK a \in X : TRUE
  OBVIOUS
<1>5. PICK b \in X : b.ends \notin {a.ends, a.ends, a.ends}
  OBVIOUS
<1>6. PICK c \in X : c.ends \notin {a.ends, b.ends, b.ends}
  OBVIOUS
<1>7. PICK d \in X : d.ends \notin {a.ends, b.ends, c.ends}
  OBVIOUS
<1> DEFINE g == W - MaxLag
<1>8. g \in Nat /\ 3 * g > W - 1 + W + MaxLag - 1
  BY <1>1
<1> QED
  <2>1. /\ a.ends \in Nat /\ b.ends \in Nat /\ c.ends \in Nat /\ d.ends \in Nat
        /\ a.ends + g <= b.ends \/ b.ends + g <= a.ends
        /\ a.ends + g <= c.ends \/ c.ends + g <= a.ends
        /\ a.ends + g <= d.ends \/ d.ends + g <= a.ends
        /\ b.ends + g <= c.ends \/ c.ends + g <= b.ends
        /\ b.ends + g <= d.ends \/ d.ends + g <= b.ends
        /\ c.ends + g <= d.ends \/ d.ends + g <= c.ends
    BY <1>2, <1>3, <1>4, <1>5, <1>6, <1>7
  <2>2. \A x \in {a, b, c, d} : from + 1 <= x.ends /\ x.ends <= from + W - 1 + W + MaxLag
    BY <1>1, <1>2, <1>4, <1>5, <1>6, <1>7
  <2> HIDE DEF g
  <2> QED BY <1>1, <1>8, <2>1, <2>2

(* The bound of a span that begins anywhere.                                *)
LEMMA SpansAreBounded ==
    ASSUME RatesInv, NEW r \in Rules, NEW from \in Nat
    PROVE  Cardinality(Within(r, from)) <= 3 * Limit[r]
<1> DEFINE X == Within(r, from)
           L == Limit[r]
<1>1. PICK e1, e2, e3 : \A x \in X : x.ends \in {e1, e2, e3}
  BY AtMostThreeWindows
<1> DEFINE E == {e1, e2, e3}
           f == [x \in X |-> <<x.ends, x.nth>>]
<1>2. L \in Nat
  BY RatesConstants
<1>3. \A x \in X : x.nth \in 1 .. L
  BY DEF Within, RatesInv, RuleInv, Passed
<1>4. \A x, y \in X : x.ends = y.ends /\ x.nth = y.nth => x = y
  BY DEF Within, RatesInv, RuleInv
<1>5. IsFiniteSet(E) /\ Cardinality(E) \in 0 .. 3
  <2>1. IsFiniteSet({e1}) /\ Cardinality({e1}) = 1
    BY FS_Singleton
  <2>2. IsFiniteSet({e1} \cup {e2}) /\ Cardinality({e1} \cup {e2}) \in 1 .. 2
    BY <2>1, FS_AddElement
  <2>3. IsFiniteSet(({e1} \cup {e2}) \cup {e3}) /\ Cardinality(({e1} \cup {e2}) \cup {e3}) \in 1 .. 3
    BY <2>2, FS_AddElement
  <2>4. E = ({e1} \cup {e2}) \cup {e3}
    OBVIOUS
  <2> QED BY <2>3, <2>4
<1>6. IsFiniteSet(1 .. L) /\ Cardinality(1 .. L) = L
  <2>1. IsFiniteSet(1 .. L) /\ Cardinality(1 .. L) = IF 1 > L THEN 0 ELSE L - 1 + 1
    BY <1>2, FS_Interval
  <2> QED BY <1>2, <2>1
<1>7. IsFiniteSet(E \X (1 .. L)) /\ Cardinality(E \X (1 .. L)) = Cardinality(E) * L
  <2> HIDE DEF E, L
  <2> QED BY <1>5, <1>6, FS_Product
<1>8. f \in Injection(X, E \X (1 .. L))
  <2> HIDE DEF X, E, L
  <2>1. f \in [X -> E \X (1 .. L)]
    BY <1>1, <1>3 DEF E
  <2> QED BY <1>4, <2>1 DEF Injection, IsInjective
<1>9. IsFiniteSet(X) /\ Cardinality(X) <= Cardinality(E) * L
  <2> HIDE DEF X, E, L, f
  <2> QED BY <1>7, <1>8, FS_Injection
<1>10. Cardinality(X) \in Nat
  BY <1>9, FS_CardinalityType
<1>11. Cardinality(E) * L <= 3 * L
  <2>1. Cardinality(E) = 0 \/ Cardinality(E) = 1 \/ Cardinality(E) = 2 \/ Cardinality(E) = 3
    BY <1>5
  <2> QED BY <1>2, <2>1
<1>12. Cardinality(E) * L \in Nat
  BY <1>2, <1>5
<1> HIDE DEF X, E, L
<1> QED BY <1>2, <1>9, <1>10, <1>11, <1>12 DEF X, L

(* What the run checks of the rates follows from their invariant.           *)
LEMMA RatesSafe == RatesInv => AtMostThriceTheLimit
<1> SUFFICES ASSUME RatesInv, NEW r \in Rules, NEW first \in allowed[r]
             PROVE  Cardinality(Within(r, first.at)) <= 3 * Limit[r]
  BY DEF AtMostThriceTheLimit
<1>1. first.at \in Nat
  BY DEF RatesInv
<1> QED BY <1>1, SpansAreBounded

(* The rates' invariant holds for ever.                                     *)
LEMMA RatesAlways == RatesSpec => []RatesInv
BY RatesStart, RatesSteps, PTL DEF RatesSpec

(* A session's tabs lose their tokens to newer ones or to time alone, and   *)
(* no rule lets more than three times its limit through in a span as long   *)
(* as its window, for any number of tabs, requests and tokens.              *)
THEOREM TokensAndRatesHold == CsrfSpec /\ RatesSpec => []TokensAndRates
<1>1. CsrfInv /\ RatesInv => TokensAndRates
  BY CsrfSafe, RatesSafe DEF TokensAndRates
<1> QED BY <1>1, CsrfAlways, RatesAlways, PTL

(***************************************************************************)
(* The dialog of the bulk cancellation: previews, executions, answers.     *)
(***************************************************************************)

(* What the dialog, the panel and a request may hold.                       *)
BulkWords == {"cancelled", "not_found", "invalid_status", "conflict"}
BulkReports == UNION {[S -> BulkWords] : S \in SUBSET Bookings}
BulkRequests == [mode : {"preview", "execute"}, ids : SUBSET Bookings,
                 stage : {"sent", "working", "ready", "broken", "told", "failed"},
                 todo : SUBSET Bookings, verdict : BulkReports, previewed : 0 .. MaxBulkAsks]
BulkBooks == [Bookings -> [fate : Fates, by : 0 .. MaxBulkAsks]]
BulkPanels == [rows : SUBSET Bookings, selected : SUBSET Bookings, open : BOOLEAN]
BulkBoxes == [face : {"none", "reason", "confirm", "result"}, for : SUBSET Bookings,
              preview : 0 .. MaxBulkAsks, pending : 0 .. MaxBulkAsks]

(* The variables keep their shape.                                          *)
BulkShape ==
    /\ books \in BulkBooks /\ panel \in BulkPanels /\ box \in BulkBoxes
    /\ asked \in Seq(BulkRequests) /\ Len(asked) <= MaxBulkAsks

(* What was cancelled here was cancelled by a request that was made.        *)
BooksAreSigned(held, made) ==
    \A b \in Bookings : held[b].by <= made /\ (held[b].fate = "CONFIRMED" => held[b].by = 0)

(* What a request has noted is what it did, reservation by reservation.     *)
NotesAreTrue(n, r, held) ==
    /\ r.stage = "sent" => DOMAIN r.verdict = {}
    /\ r.stage = "working" => /\ r.mode = "execute" /\ r.todo # {} /\ r.todo \subseteq r.ids
                              /\ DOMAIN r.verdict = r.ids \ r.todo
    /\ r.stage \in {"ready", "told"} => DOMAIN r.verdict = r.ids
    /\ r.mode = "execute" /\ r.stage \in {"sent", "working", "ready", "told"} =>
          \A b \in r.ids : held[b].by = n <=> b \in DOMAIN r.verdict /\ r.verdict[b] = "cancelled"

(* The dialog is there for a selection, waits for its own request, and      *)
(* shows the preview of what it was opened for.                             *)
BoxIsTrue(shown, roster, requests) ==
    /\ shown.face = "none" => shown = NoBox
    /\ shown.face # "none" => roster.open /\ roster.selected # {} /\ shown.for # {}
    /\ shown.pending # 0 =>
          /\ shown.pending \in DOMAIN requests /\ shown.face \in {"reason", "confirm"}
          /\ requests[shown.pending].ids = shown.for
          /\ requests[shown.pending].mode = IF shown.face = "reason" THEN "preview" ELSE "execute"
    /\ shown.face = "confirm" =>
          /\ shown.preview \in DOMAIN requests /\ requests[shown.preview].mode = "preview"
          /\ requests[shown.preview].stage = "told" /\ requests[shown.preview].ids = shown.for

(* The inductive invariant of the bulk cancellation.                        *)
BulkInv ==
    /\ BulkShape
    /\ BooksAreSigned(books, Len(asked))
    /\ \A n \in DOMAIN asked : NotesAreTrue(n, asked[n], books)
    /\ BoxIsTrue(box, panel, asked)
    /\ ExecutesThePreview

(* The reports, by their domain.                                            *)
LEMMA ReportsAre ==
    /\ \A S \in SUBSET Bookings : \A report \in [S -> BulkWords] : report \in BulkReports /\ DOMAIN report = S
    /\ \A report \in BulkReports : DOMAIN report \subseteq Bookings /\ report \in [DOMAIN report -> BulkWords]
<1>1. ASSUME NEW report \in BulkReports
      PROVE  DOMAIN report \subseteq Bookings /\ report \in [DOMAIN report -> BulkWords]
  <2>1. PICK S \in SUBSET Bookings : report \in [S -> BulkWords]
    BY <1>1 DEF BulkReports
  <2> QED BY <2>1
<1>2. ASSUME NEW S \in SUBSET Bookings, NEW report \in [S -> BulkWords]
      PROVE  report \in BulkReports /\ DOMAIN report = S
  BY <1>2 DEF BulkReports
<1> QED BY <1>1, <1>2

(* The requests are numbered.                                               *)
LEMMA RequestsAre ==
    ASSUME NEW requests \in Seq(BulkRequests)
    PROVE  /\ requests \in [1 .. Len(requests) -> BulkRequests] /\ DOMAIN requests = 1 .. Len(requests)
           /\ Len(requests) \in Nat
OBVIOUS

(* One request gets further.                                                *)
LEMMA RequestMoves ==
    ASSUME asked \in Seq(BulkRequests), NEW n \in DOMAIN asked, NEW r \in BulkRequests, Moves(n, r)
    PROVE  /\ asked' \in Seq(BulkRequests) /\ Len(asked') = Len(asked) /\ DOMAIN asked' = DOMAIN asked
           /\ asked'[n] = r /\ \A m \in DOMAIN asked : m = n \/ asked'[m] = asked[m]
<1>1. asked \in [1 .. Len(asked) -> BulkRequests] /\ DOMAIN asked = 1 .. Len(asked) /\ Len(asked) \in Nat
  BY RequestsAre
<1> DEFINE k == Len(asked)
           before == asked
<1>2. k \in Nat /\ before \in [1 .. k -> BulkRequests] /\ n \in 1 .. k
  BY <1>1
<1> HIDE DEF k, before
<1>3. [before EXCEPT ![n] = r] \in [1 .. k -> BulkRequests]
  BY <1>2
<1>4. \A f \in [1 .. k -> BulkRequests] : f \in Seq(BulkRequests) /\ Len(f) = k
  BY <1>2
<1>5. asked' = [before EXCEPT ![n] = r]
  BY DEF Moves, before
<1>6. asked' \in Seq(BulkRequests) /\ Len(asked') = k
  BY <1>3, <1>4, <1>5
<1>7. DOMAIN asked' = 1 .. k /\ asked'[n] = r /\ \A m \in 1 .. k : m = n \/ asked'[m] = before[m]
  BY <1>2, <1>5
<1> QED BY <1>1, <1>6, <1>7 DEF k, before

(* A request that gets further disturbs no other.                           *)
LEMMA BulkMoves ==
    ASSUME BulkInv, NEW n \in DOMAIN asked, NEW r \in BulkRequests, Moves(n, r),
           asked[n].stage # "told", r.mode = asked[n].mode, r.ids = asked[n].ids, r.previewed = asked[n].previewed,
           books' \in BulkBooks, panel' \in BulkPanels, box' \in BulkBoxes,
           BooksAreSigned(books', Len(asked)), NotesAreTrue(n, r, books'), BoxIsTrue(box', panel', asked'),
           \A m \in DOMAIN asked : m = n \/ \A b \in Bookings : books'[b].by = m <=> books[b].by = m
    PROVE  BulkInv'
<1>0. asked \in Seq(BulkRequests) /\ DOMAIN asked = 1 .. Len(asked) /\ asked \in [1 .. Len(asked) -> BulkRequests]
  BY RequestsAre DEF BulkInv, BulkShape
<1>1. /\ asked' \in Seq(BulkRequests) /\ Len(asked') = Len(asked) /\ DOMAIN asked' = DOMAIN asked
      /\ asked'[n] = r /\ \A m \in DOMAIN asked : m = n \/ asked'[m] = asked[m]
  BY <1>0, RequestMoves
<1>2. BulkShape'
  BY <1>1 DEF BulkInv, BulkShape
<1>3. ASSUME NEW m \in DOMAIN asked' PROVE NotesAreTrue(m, asked'[m], books')
  <2>1. CASE m = n
    BY <1>1, <2>1
  <2>2. CASE m # n
    <3>1. NotesAreTrue(m, asked[m], books) /\ asked'[m] = asked[m] /\ asked[m] \in BulkRequests
      BY <1>0, <1>1, <2>2 DEF BulkInv
    <3>2. \A b \in asked[m].ids : books'[b].by = m <=> books[b].by = m
      BY <1>1, <2>2, <3>1 DEF BulkRequests
    <3> QED BY <3>1, <3>2 DEF NotesAreTrue
  <2> QED BY <2>1, <2>2
<1>4. ExecutesThePreview'
  <2> SUFFICES ASSUME NEW m \in DOMAIN asked', asked'[m].mode = "execute"
      PROVE  /\ asked'[m].previewed \in 1 .. (m - 1)
             /\ asked'[asked'[m].previewed].mode = "preview"
             /\ asked'[asked'[m].previewed].stage = "told"
             /\ asked'[asked'[m].previewed].ids = asked'[m].ids
    BY DEF ExecutesThePreview
  <2>1. m \in DOMAIN asked /\ asked'[m].mode = asked[m].mode /\ asked'[m].ids = asked[m].ids
        /\ asked'[m].previewed = asked[m].previewed
    BY <1>1
  <2> DEFINE p == asked[m].previewed
  <2>2. p \in 1 .. (m - 1) /\ asked[p].mode = "preview" /\ asked[p].stage = "told" /\ asked[p].ids = asked[m].ids
    BY <2>1 DEF BulkInv, ExecutesThePreview
  <2>3. p \in DOMAIN asked
    BY <1>0, <2>1, <2>2
  <2>4. asked'[p] = asked[p]
    BY <1>1, <2>2, <2>3
  <2> QED BY <2>1, <2>2, <2>4
<1> QED BY <1>1, <1>2, <1>3, <1>4 DEF BulkInv

(* The dialog and the panel change, and nothing else.                       *)
LEMMA BulkLooks ==
    ASSUME BulkInv, UNCHANGED <<books, asked>>, panel' \in BulkPanels, box' \in BulkBoxes,
           BoxIsTrue(box', panel', asked)
    PROVE  BulkInv'
BY DEF BulkInv, BulkShape, ExecutesThePreview

(* What the screen shows of a panel.                                        *)
LEMMA ScreensAreTrue ==
    ASSUME BulkInv, NEW p \in BulkPanels
    PROVE  Screen(p) \in BulkBoxes /\ BoxIsTrue(Screen(p), p, asked)
<1>0. MaxBulkAsks \in Nat /\ 0 \in 0 .. MaxBulkAsks
  BY BulkAssumption DEF BulkAssumption
<1>1. NoBox \in BulkBoxes /\ NoBox.face = "none" /\ NoBox.pending = 0
  BY <1>0 DEF NoBox, BulkBoxes
<1>2. box \in BulkBoxes /\ BoxIsTrue(box, panel, asked)
  BY DEF BulkInv, BulkShape
<1>3. CASE ~p.open \/ p.selected = {}
  <2>1. Screen(p) = NoBox
    BY <1>3 DEF Screen
  <2> QED BY <1>1, <2>1 DEF BoxIsTrue
<1>4. CASE ~(~p.open \/ p.selected = {}) /\ box.face = "none"
  <2> DEFINE fresh == [NoBox EXCEPT !.face = "reason", !.for = p.selected]
  <2>1. fresh \in BulkBoxes /\ fresh.face = "reason" /\ fresh.for = p.selected /\ fresh.pending = 0
    BY <1>0 DEF NoBox, BulkBoxes, BulkPanels
  <2>2. Screen(p) = fresh
    BY <1>4 DEF Screen
  <2> HIDE DEF fresh
  <2> QED BY <1>4, <2>1, <2>2 DEF BoxIsTrue
<1>5. CASE ~(~p.open \/ p.selected = {}) /\ box.face # "none"
  <2>1. Screen(p) = box
    BY <1>5 DEF Screen
  <2> QED BY <1>2, <1>5, <2>1 DEF BoxIsTrue
<1> QED BY <1>3, <1>4, <1>5

(* The panel changes, and the screen shows it.                              *)
LEMMA PanelShows ==
    ASSUME BulkInv, NEW p \in BulkPanels, ShowsPanel(p), UNCHANGED <<books, asked>>
    PROVE  BulkInv'
<1>1. panel' = p /\ box' = Screen(p)
  BY DEF ShowsPanel
<1>2. Screen(p) \in BulkBoxes /\ BoxIsTrue(Screen(p), p, asked)
  BY ScreensAreTrue
<1> HIDE DEF Screen
<1> QED BY <1>1, <1>2, BulkLooks


(* The dialog opens nowhere at first.                                       *)
LEMMA BulkStarts == BulkInit => BulkInv
<1> SUFFICES ASSUME BulkInit PROVE BulkInv
  OBVIOUS
<1>0. MaxBulkAsks \in Nat /\ 0 \in 0 .. MaxBulkAsks
  BY BulkAssumption DEF BulkAssumption
<1>1. asked = <<>> /\ Len(asked) = 0 /\ DOMAIN asked = {} /\ asked \in Seq(BulkRequests)
  BY DEF BulkInit
<1>2. box \in BulkBoxes /\ box = NoBox /\ box.face = "none" /\ box.pending = 0
  BY <1>0 DEF BulkInit, NoBox, BulkBoxes
<1>3. BulkShape
  BY <1>0, <1>1, <1>2 DEF BulkInit, BulkShape, BulkBooks, BulkPanels, Fates
<1>4. BooksAreSigned(books, Len(asked))
  BY <1>1 DEF BulkInit, BooksAreSigned
<1>5. BoxIsTrue(box, panel, asked)
  BY <1>2 DEF BoxIsTrue
<1> QED BY <1>1, <1>3, <1>4, <1>5 DEF BulkInv, ExecutesThePreview

(* The steps of the panel: its list, its ticks, its dialog.                 *)
LEMMA PanelKeeps ==
    ASSUME BulkInv, ListIsRead \/ OpenBox \/ FilterMoves \/ DismissBox \/ \E b \in Bookings : Tick(b)
    PROVE  BulkInv'
<1>0. panel \in BulkPanels
  BY DEF BulkInv, BulkShape
<1>1. CASE ListIsRead
  <2> DEFINE p == Pruned(panel, {b \in Bookings : books[b].fate = "CONFIRMED"})
  <2>1. p \in BulkPanels
    BY <1>0 DEF Pruned, BulkPanels
  <2>2. ShowsPanel(p) /\ UNCHANGED <<books, asked>>
    BY <1>1 DEF ListIsRead
  <2> HIDE DEF p
  <2> QED BY <2>1, <2>2, PanelShows
<1>2. CASE OpenBox \/ DismissBox
  <2>1. PICK open \in BOOLEAN : ShowsPanel([panel EXCEPT !.open = open]) /\ UNCHANGED <<books, asked>>
    BY <1>2 DEF OpenBox, DismissBox
  <2>2. [panel EXCEPT !.open = open] \in BulkPanels
    BY <1>0 DEF BulkPanels
  <2> QED BY <2>1, <2>2, PanelShows
<1>3. CASE FilterMoves
  <2>1. [panel EXCEPT !.open = FALSE, !.selected = {}] \in BulkPanels
    BY <1>0 DEF BulkPanels
  <2> QED BY <1>3, <2>1, PanelShows DEF FilterMoves
<1>4. ASSUME NEW b \in Bookings, Tick(b) PROVE BulkInv'
  <2> DEFINE ticked == IF b \in panel.selected THEN panel.selected \ {b} ELSE panel.selected \cup {b}
  <2>1. ticked \in SUBSET Bookings
    BY <1>0 DEF BulkPanels
  <2>2. ShowsPanel([panel EXCEPT !.selected = ticked]) /\ UNCHANGED <<books, asked>>
    BY <1>4 DEF Tick
  <2> HIDE DEF ticked
  <2>3. [panel EXCEPT !.selected = ticked] \in BulkPanels
    BY <1>0, <2>1 DEF BulkPanels
  <2> QED BY <2>2, <2>3, PanelShows
<1> QED BY <1>1, <1>2, <1>3, <1>4

(* A request leaves.                                                        *)
LEMMA PostKeeps ==
    ASSUME BulkInv, NEW mode \in {"preview", "execute"}, Post(mode)
    PROVE  BulkInv'
<1> DEFINE k == Len(asked)
           r == [mode |-> mode, ids |-> Requested, stage |-> "sent", todo |-> {},
                 verdict |-> [b \in {} |-> "not_found"], previewed |-> box.preview]
<1>0. /\ asked \in Seq(BulkRequests) /\ DOMAIN asked = 1 .. k /\ k \in Nat /\ k < MaxBulkAsks
      /\ box \in BulkBoxes /\ MaxBulkAsks \in Nat
  BY RequestsAre, BulkAssumption DEF BulkInv, BulkShape, BulkAssumption, Post
<1>1. /\ r \in BulkRequests /\ r.mode = mode /\ r.ids = box.for /\ r.stage = "sent" /\ r.previewed = box.preview
      /\ DOMAIN r.verdict = {}
  <2> DEFINE report == [b \in {} |-> "not_found"]
  <2>1. report \in [{} -> BulkWords] /\ {} \in SUBSET Bookings
    OBVIOUS
  <2>2. report \in BulkReports /\ DOMAIN report = {}
    BY <2>1, ReportsAre
  <2> HIDE DEF report
  <2>3. box.for \in SUBSET Bookings /\ box.preview \in 0 .. MaxBulkAsks
    BY <1>0 DEF BulkBoxes
  <2>4. r = [mode |-> mode, ids |-> box.for, stage |-> "sent", todo |-> {}, verdict |-> report,
             previewed |-> box.preview]
    BY DEF report, Requested
  <2> HIDE DEF r
  <2> QED BY <2>2, <2>3, <2>4 DEF BulkRequests
<1> HIDE DEF r
<1>2. /\ asked' = Append(asked, r) /\ UNCHANGED <<books, panel, troubles>>
      /\ box' = [box EXCEPT !.pending = k + 1]
      /\ box.face = (IF mode = "preview" THEN "reason" ELSE "confirm") /\ box.pending = 0
  BY DEF Post, r
<1>3. /\ asked' \in Seq(BulkRequests) /\ Len(asked') = k + 1 /\ asked'[k + 1] = r
      /\ \A n \in 1 .. k : asked'[n] = asked[n]
  BY <1>0, <1>1, <1>2
<1>4. DOMAIN asked' = 1 .. (k + 1)
  BY <1>3, RequestsAre
<1> HIDE DEF k
<1>5. /\ box' \in BulkBoxes /\ box'.pending = k + 1 /\ box'.face = box.face /\ box'.for = box.for
      /\ box'.preview = box.preview
  BY <1>0, <1>2 DEF BulkBoxes
<1>6. BulkShape'
  BY <1>0, <1>2, <1>3, <1>5 DEF BulkInv, BulkShape
<1>7. BooksAreSigned(books', Len(asked'))
  <2>1. BooksAreSigned(books, k) /\ books \in BulkBooks
    BY DEF BulkInv, BulkShape, k
  <2>2. \A b \in Bookings : books[b].by \in Nat
    BY <1>0, <2>1 DEF BulkBooks
  <2> QED BY <1>0, <1>2, <1>3, <2>1, <2>2 DEF BooksAreSigned
<1>8. ASSUME NEW n \in DOMAIN asked' PROVE NotesAreTrue(n, asked'[n], books')
  <2>1. CASE n \in 1 .. k
    BY <1>0, <1>2, <1>3, <2>1 DEF BulkInv
  <2>2. CASE n = k + 1
    <3>1. \A b \in Bookings : books[b].by # n
      <4>1. BooksAreSigned(books, k) /\ books \in BulkBooks
        BY DEF BulkInv, BulkShape, k
      <4> QED BY <1>0, <2>2, <4>1 DEF BooksAreSigned, BulkBooks
    <3>2. r.ids \subseteq Bookings
      BY <1>1 DEF BulkRequests
    <3> QED BY <1>1, <1>2, <1>3, <2>2, <3>1, <3>2 DEF NotesAreTrue
  <2> QED BY <1>0, <1>4, <2>1, <2>2
<1>9. BoxIsTrue(box, panel, asked)
  BY DEF BulkInv
<1>10. BoxIsTrue(box', panel', asked')
  <2>1. box.face # "none" /\ box.face \in {"reason", "confirm"}
    BY <1>2
  <2>2. k + 1 \in 1 .. (k + 1) /\ 1 .. k \subseteq 1 .. (k + 1)
    BY <1>0
  <2>3. box.face = "confirm" => /\ box.preview \in 1 .. k /\ asked'[box.preview] = asked[box.preview]
    BY <1>0, <1>3, <1>9 DEF BoxIsTrue
  <2> QED BY <1>1, <1>2, <1>3, <1>4, <1>5, <1>9, <2>1, <2>2, <2>3 DEF BoxIsTrue
<1>11. ExecutesThePreview'
  <2> SUFFICES ASSUME NEW n \in DOMAIN asked', asked'[n].mode = "execute"
      PROVE  /\ asked'[n].previewed \in 1 .. (n - 1)
             /\ asked'[asked'[n].previewed].mode = "preview"
             /\ asked'[asked'[n].previewed].stage = "told"
             /\ asked'[asked'[n].previewed].ids = asked'[n].ids
    BY DEF ExecutesThePreview
  <2>1. CASE n \in 1 .. k
    <3> DEFINE p == asked[n].previewed
    <3>1. asked'[n] = asked[n]
      BY <1>3, <2>1
    <3>2. p \in 1 .. (n - 1) /\ asked[p].mode = "preview" /\ asked[p].stage = "told" /\ asked[p].ids = asked[n].ids
      BY <1>0, <2>1, <3>1 DEF BulkInv, ExecutesThePreview
    <3>3. p \in 1 .. k
      BY <1>0, <2>1, <3>2
    <3>4. asked'[p] = asked[p]
      BY <1>3, <3>3
    <3> QED BY <3>1, <3>2, <3>4
  <2>2. CASE n = k + 1
    <3> DEFINE p == box.preview
    <3>1. asked'[n] = r /\ r.mode = "execute" /\ box.face = "confirm" /\ r.previewed = p /\ r.ids = box.for
      BY <1>1, <1>2, <1>3, <2>2
    <3>2. p \in 1 .. k /\ asked[p].mode = "preview" /\ asked[p].stage = "told" /\ asked[p].ids = box.for
      BY <1>0, <1>9, <3>1 DEF BoxIsTrue
    <3>3. asked'[p] = asked[p] /\ p \in 1 .. (n - 1)
      BY <1>0, <1>3, <2>2, <3>2
    <3> QED BY <3>1, <3>2, <3>3
  <2> QED BY <1>0, <1>4, <2>1, <2>2
<1> QED BY <1>6, <1>7, <1>8, <1>10, <1>11 DEF BulkInv

(* Others end a reservation: who cancelled it does not change.              *)
LEMMA OthersKeep ==
    ASSUME BulkInv, NEW b \in Bookings, OthersEnd(b)
    PROVE  BulkInv'
<1>0. books \in BulkBooks /\ asked \in [1 .. Len(asked) -> BulkRequests] /\ DOMAIN asked = 1 .. Len(asked)
  BY RequestsAre DEF BulkInv, BulkShape
<1>1. PICK fate \in Fates \ {"CONFIRMED"} : books' = [books EXCEPT ![b].fate = fate]
  BY DEF OthersEnd
<1>2. UNCHANGED <<panel, box, asked>>
  BY DEF OthersEnd
<1>3. /\ books' \in BulkBooks /\ \A c \in Bookings : books'[c].by = books[c].by
      /\ \A c \in Bookings : books'[c].fate = "CONFIRMED" => books[c].fate = "CONFIRMED"
  BY <1>0, <1>1 DEF BulkBooks
<1>4. BooksAreSigned(books', Len(asked))
  BY <1>3 DEF BulkInv, BooksAreSigned
<1>5. ASSUME NEW n \in DOMAIN asked PROVE NotesAreTrue(n, asked[n], books')
  <2>1. NotesAreTrue(n, asked[n], books) /\ asked[n].ids \subseteq Bookings
    BY <1>0 DEF BulkInv, BulkRequests
  <2>2. \A c \in asked[n].ids : books'[c].by = books[c].by
    BY <1>3, <2>1
  <2> QED BY <2>1, <2>2 DEF NotesAreTrue
<1>6. ExecutesThePreview'
  BY <1>2 DEF BulkInv, ExecutesThePreview
<1> QED BY <1>2, <1>3, <1>4, <1>5, <1>6 DEF BulkInv, BulkShape

(* The least of some reservations.                                          *)
LEMMA NextIsOne ==
    ASSUME NEW S \in SUBSET Bookings, S # {}
    PROVE  (CHOOSE b \in S : \A c \in S : b <= c) \in S
<1>1. S \subseteq Nat
  BY BulkAssumption DEF BulkAssumption
<1>2. PICK low \in S : \A c \in S : ~(<<c, low>> \in OpToRel(<, Nat))
  BY <1>1, NatLessThanWellFounded, WFMin
<1>3. \A c \in S : low <= c
  <2> TAKE c \in S
  <2>1. c \in Nat /\ low \in Nat
    BY <1>1
  <2>2. ~(c < low)
    BY <1>2, <2>1 DEF OpToRel
  <2> QED BY <2>1, <2>2
<1> QED BY <1>3


(* A dialog that was true stays so when a request gets further.             *)
LEMMA BoxesStay ==
    ASSUME BulkInv, NEW n \in DOMAIN asked, NEW r \in BulkRequests, Moves(n, r),
           asked[n].stage # "told", r.mode = asked[n].mode, r.ids = asked[n].ids
    PROVE  \A shown, roster : BoxIsTrue(shown, roster, asked) => BoxIsTrue(shown, roster, asked')
<1>1. /\ DOMAIN asked' = DOMAIN asked
      /\ asked'[n] = r /\ \A m \in DOMAIN asked : m = n \/ asked'[m] = asked[m]
  BY RequestMoves DEF BulkInv, BulkShape
<1>2. /\ \A m \in DOMAIN asked : asked'[m].mode = asked[m].mode /\ asked'[m].ids = asked[m].ids
      /\ \A m \in DOMAIN asked : asked[m].stage = "told" => asked'[m].stage = "told"
  BY <1>1
<1> QED BY <1>1, <1>2 DEF BoxIsTrue

(* What is known of a request.                                              *)
LEMMA RequestIs ==
    ASSUME BulkInv, NEW n \in DOMAIN asked
    PROVE  /\ asked[n] \in BulkRequests /\ NotesAreTrue(n, asked[n], books) /\ n \in 1 .. Len(asked)
           /\ Len(asked) \in Nat /\ Len(asked) <= MaxBulkAsks /\ MaxBulkAsks \in Nat
           /\ asked[n].ids \subseteq Bookings /\ asked[n].todo \subseteq Bookings
           /\ books \in BulkBooks /\ panel \in BulkPanels /\ box \in BulkBoxes
           /\ BooksAreSigned(books, Len(asked)) /\ BoxIsTrue(box, panel, asked)
<1>1. asked \in [1 .. Len(asked) -> BulkRequests] /\ DOMAIN asked = 1 .. Len(asked) /\ Len(asked) \in Nat
  BY RequestsAre DEF BulkInv, BulkShape
<1>2. asked[n] \in BulkRequests
  BY <1>1
<1>3. asked[n].ids \subseteq Bookings /\ asked[n].todo \subseteq Bookings
  BY <1>2 DEF BulkRequests
<1> QED BY <1>1, <1>2, <1>3, BulkAssumption DEF BulkInv, BulkShape, BulkAssumption

(* A request that gets further while nothing else changes.                  *)
LEMMA QuietMoves ==
    ASSUME BulkInv, NEW n \in DOMAIN asked, NEW r \in BulkRequests, Moves(n, r),
           asked[n].stage # "told", r.mode = asked[n].mode, r.ids = asked[n].ids, r.previewed = asked[n].previewed,
           UNCHANGED <<books, panel, box>>, NotesAreTrue(n, r, books)
    PROVE  BulkInv'
<1>1. books \in BulkBooks /\ panel \in BulkPanels /\ box \in BulkBoxes /\ BooksAreSigned(books, Len(asked))
      /\ BoxIsTrue(box, panel, asked)
  BY DEF BulkInv, BulkShape
<1>2. BoxIsTrue(box', panel', asked')
  BY <1>1, BoxesStay
<1> QED BY <1>1, <1>2, BulkMoves

(* The server reads the reservations of a request.                          *)
LEMMA ResolveKeeps ==
    ASSUME BulkInv, NEW n \in DOMAIN asked, Resolve(n)
    PROVE  BulkInv'
<1> DEFINE r == asked[n]
           here == {b \in r.ids : books[b].fate # "GONE"}
           shown == [b \in r.ids |-> PreviewOf(b)]
           gone == [b \in r.ids \ here |-> "not_found"]
<1>0. /\ r \in BulkRequests /\ NotesAreTrue(n, r, books) /\ r.ids \subseteq Bookings
      /\ UNCHANGED <<books, panel, box>> /\ r.stage = "sent"
  BY RequestIs DEF Resolve
<1>1. shown \in BulkReports /\ DOMAIN shown = r.ids /\ gone \in BulkReports /\ DOMAIN gone = r.ids \ here
  <2>1. shown \in [r.ids -> BulkWords]
    BY DEF PreviewOf, BulkWords
  <2>2. gone \in [r.ids \ here -> BulkWords]
    BY DEF BulkWords
  <2>3. r.ids \in SUBSET Bookings /\ r.ids \ here \in SUBSET Bookings
    BY <1>0
  <2> HIDE DEF shown, gone, r, here
  <2> QED BY <2>1, <2>2, <2>3, ReportsAre
<1>2. r.mode = "execute" => \A b \in r.ids : books[b].by # n
  BY <1>0 DEF NotesAreTrue
<1>3. CASE r.mode = "preview"
  <2> DEFINE next == [r EXCEPT !.stage = "ready", !.verdict = shown]
  <2>1. Moves(n, next)
    BY <1>3 DEF Resolve
  <2> HIDE DEF shown
  <2>2. /\ next \in BulkRequests /\ next.mode = r.mode /\ next.ids = r.ids /\ next.previewed = r.previewed
        /\ next.stage = "ready" /\ next.verdict = shown
    BY <1>0, <1>1 DEF BulkRequests
  <2> HIDE DEF next
  <2>3. NotesAreTrue(n, next, books)
    BY <1>1, <1>3, <2>2 DEF NotesAreTrue
  <2> QED BY <1>0, <2>1, <2>2, <2>3, QuietMoves
<1>4. CASE r.mode = "execute"
  <2> DEFINE stage == IF here = {} THEN "ready" ELSE "working"
             next == [r EXCEPT !.stage = stage, !.todo = here, !.verdict = gone]
  <2>1. Moves(n, next)
    BY <1>4 DEF Resolve
  <2>2. \A b \in DOMAIN gone : gone[b] = "not_found"
    OBVIOUS
  <2>3. here \subseteq r.ids /\ here \in SUBSET Bookings
    BY <1>0
  <2> HIDE DEF gone, here
  <2>4. /\ next \in BulkRequests /\ next.mode = r.mode /\ next.ids = r.ids /\ next.previewed = r.previewed
        /\ next.stage = stage /\ next.verdict = gone /\ next.todo = here
    BY <1>0, <1>1, <2>3 DEF BulkRequests
  <2> HIDE DEF next
  <2>5. NotesAreTrue(n, next, books)
    BY <1>1, <1>2, <1>4, <2>2, <2>3, <2>4 DEF NotesAreTrue
  <2> QED BY <1>0, <2>1, <2>4, <2>5, QuietMoves
<1> QED BY <1>0, <1>3, <1>4 DEF BulkRequests

(* A verdict is noted of the next reservation.                              *)
LEMMA RecordsAreTrue ==
    ASSUME BulkInv, NEW n \in DOMAIN asked, asked[n].stage = "working", NEW v \in BulkWords,
           NEW b, b = NextOf(asked[n]), Records(n, b, v),
           NEW held, \A c \in Bookings : c = b \/ (held[c].by = n <=> books[c].by = n),
           held[b].by = n <=> v = "cancelled"
    PROVE  /\ b \in asked[n].todo
           /\ \E next \in BulkRequests :
                 /\ Moves(n, next) /\ next.mode = asked[n].mode /\ next.ids = asked[n].ids
                 /\ next.previewed = asked[n].previewed /\ NotesAreTrue(n, next, held)
<1> DEFINE r == asked[n]
           stage == IF r.todo = {b} THEN "ready" ELSE r.stage
           verdict == [c \in DOMAIN r.verdict \cup {b} |-> IF c = b THEN v ELSE r.verdict[c]]
           next == [r EXCEPT !.todo = r.todo \ {b}, !.stage = stage, !.verdict = verdict]
<1>0. /\ r \in BulkRequests /\ NotesAreTrue(n, r, books) /\ r.ids \subseteq Bookings /\ r.todo \in SUBSET Bookings
      /\ r.stage = "working" /\ r.mode = "execute" /\ r.todo # {} /\ r.todo \subseteq r.ids
      /\ DOMAIN r.verdict = r.ids \ r.todo /\ r.verdict \in BulkReports
  BY RequestIs DEF NotesAreTrue, BulkRequests
<1>1. b \in r.todo
  BY <1>0, NextIsOne DEF NextOf
<1>2. verdict \in BulkReports /\ DOMAIN verdict = r.ids \ (r.todo \ {b}) /\ verdict[b] = v
      /\ \A c \in DOMAIN r.verdict : c # b /\ verdict[c] = r.verdict[c]
  <2>1. r.verdict \in [DOMAIN r.verdict -> BulkWords]
    BY <1>0, ReportsAre
  <2>2. DOMAIN r.verdict \cup {b} = r.ids \ (r.todo \ {b}) /\ DOMAIN r.verdict \cup {b} \in SUBSET Bookings
    BY <1>0, <1>1
  <2>3. verdict \in [DOMAIN r.verdict \cup {b} -> BulkWords]
    BY <2>1
  <2>4. verdict \in BulkReports
    BY <2>2, <2>3, ReportsAre
  <2>5. b \notin DOMAIN r.verdict
    BY <1>0, <1>1
  <2> QED BY <2>2, <2>4, <2>5
<1>3. Moves(n, next)
  BY DEF Records
<1> HIDE DEF verdict
<1>4. stage \in {"ready", "working"} /\ r.todo \ {b} \in SUBSET Bookings
  BY <1>0
<1>5. /\ next \in BulkRequests /\ next.mode = r.mode /\ next.ids = r.ids /\ next.previewed = r.previewed
      /\ next.stage = stage /\ next.verdict = verdict /\ next.todo = r.todo \ {b}
  <2> HIDE DEF stage
  <2> QED BY <1>0, <1>2, <1>4 DEF BulkRequests
<1> HIDE DEF next
<1>6. \A c \in r.ids : held[c].by = n <=> c \in DOMAIN verdict /\ verdict[c] = "cancelled"
  <2> TAKE c \in r.ids
  <2>1. CASE c = b
    BY <1>0, <1>1, <1>2, <2>1
  <2>2. CASE c # b
    <3>1. held[c].by = n <=> books[c].by = n
      BY <1>0, <2>2
    <3>2. books[c].by = n <=> c \in DOMAIN r.verdict /\ r.verdict[c] = "cancelled"
      BY <1>0 DEF NotesAreTrue
    <3>3. c \in DOMAIN verdict <=> c \in DOMAIN r.verdict
      BY <1>0, <1>1, <1>2, <2>2
    <3> QED BY <1>2, <3>1, <3>2, <3>3
  <2> QED BY <2>1, <2>2
<1>7. stage = "ready" => r.todo \ {b} = {}
  BY <1>0
<1>8. stage = "working" => r.todo \ {b} # {}
  BY <1>0, <1>1
<1>9. NotesAreTrue(n, next, held)
  <2> HIDE DEF stage
  <2> QED BY <1>0, <1>2, <1>4, <1>5, <1>6, <1>7, <1>8 DEF NotesAreTrue
<1> QED BY <1>1, <1>3, <1>5, <1>9

(* The next reservation is cancelled, or was ended by others, or could not  *)
(* be cancelled for the conflicts.                                          *)
LEMMA CancellingKeeps ==
    ASSUME BulkInv, NEW n \in DOMAIN asked, CancelOne(n) \/ ConflictOne(n)
    PROVE  BulkInv'
<1> DEFINE b == NextOf(asked[n])
<1>0. /\ asked[n] \in BulkRequests /\ NotesAreTrue(n, asked[n], books) /\ asked[n].todo \in SUBSET Bookings
      /\ asked[n].stage = "working" /\ UNCHANGED <<panel, box>> /\ books \in BulkBooks
      /\ BooksAreSigned(books, Len(asked)) /\ n \in 1 .. Len(asked) /\ Len(asked) \in Nat /\ Len(asked) <= MaxBulkAsks
      /\ asked[n].todo # {} /\ asked[n].mode = "execute" /\ MaxBulkAsks \in Nat
  BY RequestIs DEF CancelOne, ConflictOne, NotesAreTrue
<1>1. b \in asked[n].todo /\ b \in Bookings
  BY <1>0, NextIsOne DEF NextOf
<1>2. books[b].by # n
  BY <1>0, <1>1 DEF NotesAreTrue
<1>3. CASE ConflictOne(n)
  <2>1. Records(n, b, "conflict") /\ UNCHANGED books
    BY <1>3 DEF ConflictOne
  <2> HIDE DEF b
  <2>2. PICK next \in BulkRequests :
           /\ Moves(n, next) /\ next.mode = asked[n].mode /\ next.ids = asked[n].ids
           /\ next.previewed = asked[n].previewed /\ NotesAreTrue(n, next, books)
    BY <1>0, <1>2, <2>1, RecordsAreTrue DEF BulkWords, b
  <2> QED BY <1>0, <2>1, <2>2, QuietMoves
<1>4. CASE CancelOne(n)
  <2> DEFINE v == OutcomeOf(b)
  <2>1. Records(n, b, v) /\ v \in BulkWords /\ (v = "cancelled" <=> books[b].fate = "CONFIRMED")
    BY <1>4 DEF CancelOne, OutcomeOf, PreviewOf, BulkWords
  <2>2. books' = IF books[b].fate = "CONFIRMED"
                 THEN [books EXCEPT ![b] = [fate |-> "CANCELLED", by |-> n]] ELSE books
    BY <1>4 DEF CancelOne
  <2>3. b = NextOf(asked[n])
    OBVIOUS
  <2> HIDE DEF b, v
  <2>4. /\ books' \in BulkBooks
        /\ \A c \in Bookings : c = b \/ books'[c] = books[c]
        /\ books'[b].by = n <=> v = "cancelled"
        /\ books'[b] = books[b] \/ (books[b].by = 0 /\ books'[b].by = n /\ books'[b].fate = "CANCELLED")
    <3>1. CASE books[b].fate = "CONFIRMED"
      <4>1. books' = [books EXCEPT ![b] = [fate |-> "CANCELLED", by |-> n]]
        BY <2>2, <3>1
      <4>2. [fate |-> "CANCELLED", by |-> n] \in [fate : Fates, by : 0 .. MaxBulkAsks]
        BY <1>0 DEF Fates
      <4>3. books[b].by = 0
        BY <1>0, <1>1, <3>1 DEF BooksAreSigned
      <4> QED BY <1>0, <1>1, <2>1, <3>1, <4>1, <4>2, <4>3 DEF BulkBooks
    <3>2. CASE books[b].fate # "CONFIRMED"
      BY <1>0, <1>2, <2>1, <2>2, <3>2
    <3> QED BY <3>1, <3>2
  <2>5. PICK next \in BulkRequests :
           /\ Moves(n, next) /\ next.mode = asked[n].mode /\ next.ids = asked[n].ids
           /\ next.previewed = asked[n].previewed /\ NotesAreTrue(n, next, books')
    <3>1. \A c \in Bookings : c = b \/ (books'[c].by = n <=> books[c].by = n)
      BY <2>4
    <3> QED BY <1>0, <2>1, <2>3, <2>4, <3>1, RecordsAreTrue
  <2>6. BooksAreSigned(books', Len(asked))
    BY <1>0, <2>4 DEF BooksAreSigned
  <2>7. \A m \in DOMAIN asked : m = n \/ \A c \in Bookings : books'[c].by = m <=> books[c].by = m
    <3>1. \A m \in DOMAIN asked : m # 0
      BY RequestIs
    <3> QED BY <2>4, <3>1
  <2>8. BoxIsTrue(box', panel', asked')
    BY <1>0, <2>5, BoxesStay, RequestIs
  <2> QED BY <1>0, <2>4, <2>5, <2>6, <2>7, <2>8, RequestIs, BulkMoves
<1> QED BY <1>3, <1>4

(* A request that ends, well or badly, with what it has noted.              *)
LEMMA StagesAreTrue ==
    ASSUME BulkInv, NEW n \in DOMAIN asked,
           NEW stage \in {"broken", "failed", "told"}, stage = "told" => asked[n].stage = "ready"
    PROVE  LET next == [asked[n] EXCEPT !.stage = stage] IN
           /\ next \in BulkRequests /\ next.mode = asked[n].mode /\ next.ids = asked[n].ids
           /\ next.previewed = asked[n].previewed /\ next.stage = stage /\ next.verdict = asked[n].verdict
           /\ NotesAreTrue(n, next, books)
<1> DEFINE r == asked[n]
           next == [r EXCEPT !.stage = stage]
<1>1. r \in BulkRequests /\ NotesAreTrue(n, r, books)
  BY RequestIs
<1>2. /\ next \in BulkRequests /\ next.mode = r.mode /\ next.ids = r.ids /\ next.previewed = r.previewed
      /\ next.stage = stage /\ next.verdict = r.verdict
  BY <1>1 DEF BulkRequests
<1> HIDE DEF next
<1>3. NotesAreTrue(n, next, books)
  BY <1>1, <1>2 DEF NotesAreTrue
<1> QED BY <1>2, <1>3 DEF next


(* An error ends the request.                                               *)
LEMMA BreaksOffKeeps ==
    ASSUME BulkInv, NEW n \in DOMAIN asked, BreaksOff(n)
    PROVE  BulkInv'
<1> DEFINE next == [asked[n] EXCEPT !.stage = "broken"]
<1>1. Moves(n, next) /\ UNCHANGED <<books, panel, box>> /\ asked[n].stage # "told"
  BY DEF BreaksOff
<1>2. /\ next \in BulkRequests /\ next.mode = asked[n].mode /\ next.ids = asked[n].ids
      /\ next.previewed = asked[n].previewed /\ NotesAreTrue(n, next, books)
  BY StagesAreTrue
<1> HIDE DEF next
<1> QED BY <1>1, <1>2, QuietMoves

(* An answer is an error, or is lost.                                       *)
LEMMA AnswerFailsKeeps ==
    ASSUME BulkInv, NEW n \in DOMAIN asked, AnswerFails(n)
    PROVE  BulkInv'
<1> DEFINE next == [asked[n] EXCEPT !.stage = "failed"]
           closed == [box EXCEPT !.pending = 0]
<1>1. Moves(n, next) /\ UNCHANGED <<books, panel>> /\ asked[n].stage # "told"
      /\ box' = IF box.pending = n THEN closed ELSE box
  BY DEF AnswerFails
<1>2. /\ next \in BulkRequests /\ next.mode = asked[n].mode /\ next.ids = asked[n].ids
      /\ next.previewed = asked[n].previewed /\ NotesAreTrue(n, next, books)
  BY StagesAreTrue
<1>3. /\ books \in BulkBooks /\ panel \in BulkPanels /\ box \in BulkBoxes /\ BooksAreSigned(books, Len(asked))
      /\ BoxIsTrue(box, panel, asked) /\ n # 0 /\ MaxBulkAsks \in Nat
  BY RequestIs
<1>4. closed \in BulkBoxes /\ closed.pending = 0 /\ closed.face = box.face /\ closed.for = box.for
      /\ closed.preview = box.preview
  BY <1>3 DEF BulkBoxes
<1> HIDE DEF next, closed
<1>5. box.pending = n => BoxIsTrue(closed, panel, asked)
  <2> HAVE box.pending = n
  <2>1. box.face # "none"
    BY <1>3 DEF BoxIsTrue
  <2> QED BY <1>3, <1>4, <2>1 DEF BoxIsTrue
<1>6. box' \in BulkBoxes /\ BoxIsTrue(box', panel', asked)
  BY <1>1, <1>3, <1>4, <1>5
<1>7. BoxIsTrue(box', panel', asked')
  BY <1>1, <1>2, <1>6, BoxesStay
<1> QED BY <1>1, <1>2, <1>3, <1>6, <1>7, BulkMoves

(* An answer arrives: a preview is shown for confirmation, an execution     *)
(* leaves selected what can be tried again, and nothing it has cancelled.   *)
LEMMA AnswerKeeps ==
    ASSUME BulkInv, NEW n \in DOMAIN asked, AnswerArrives(n)
    PROVE  /\ BulkInv'
           /\ asked[n].mode = "execute" =>
                 \A b \in panel'.selected : books[b].by # n /\ asked[n].verdict[b] = "conflict"
<1> DEFINE r == asked[n]
           next == [r EXCEPT !.stage = "told"]
<1>1. Moves(n, next) /\ UNCHANGED books /\ r.stage = "ready"
  BY DEF AnswerArrives
<1>2. /\ next \in BulkRequests /\ next.mode = r.mode /\ next.ids = r.ids
      /\ next.previewed = r.previewed /\ next.stage = "told" /\ NotesAreTrue(n, next, books)
  BY <1>1, StagesAreTrue
<1>3. /\ books \in BulkBooks /\ panel \in BulkPanels /\ box \in BulkBoxes /\ BooksAreSigned(books, Len(asked))
      /\ BoxIsTrue(box, panel, asked) /\ MaxBulkAsks \in Nat /\ n \in 0 .. MaxBulkAsks /\ n # 0 /\ r \in BulkRequests
      /\ NotesAreTrue(n, r, books) /\ r.ids \subseteq Bookings
  BY RequestIs
<1> HIDE DEF next
<1>4. DOMAIN asked' = DOMAIN asked /\ asked'[n] = next
  BY <1>1, <1>2, RequestMoves DEF BulkInv, BulkShape
<1>5. CASE r.mode = "preview"
  <2>0. panel' = panel /\ box' = IF box.pending = n THEN [box EXCEPT !.face = "confirm", !.preview = n, !.pending = 0]
                                 ELSE box
    BY <1>5 DEF AnswerArrives
  <2>1. CASE box.pending = n
    <3> DEFINE shown == [box EXCEPT !.face = "confirm", !.preview = n, !.pending = 0]
    <3>1. /\ shown \in BulkBoxes /\ shown.face = "confirm" /\ shown.preview = n /\ shown.pending = 0
          /\ shown.for = box.for
      <4>1. box \in BulkBoxes /\ n \in 0 .. MaxBulkAsks /\ 0 \in 0 .. MaxBulkAsks
        BY <1>3
      <4> QED BY <4>1 DEF BulkBoxes
    <3>2. box' = shown
      BY <2>0, <2>1
    <3> HIDE DEF shown
    <3>3. box.face # "none" /\ r.ids = box.for
      BY <1>3, <2>1 DEF BoxIsTrue
    <3>4. BoxIsTrue(shown, panel, asked')
      BY <1>2, <1>3, <1>4, <1>5, <3>1, <3>3 DEF BoxIsTrue
    <3> QED BY <1>1, <1>2, <1>3, <1>5, <2>0, <3>1, <3>2, <3>4, BulkMoves
  <2>2. CASE box.pending # n
    <3>1. BoxIsTrue(box', panel', asked')
      BY <1>1, <1>2, <1>3, <2>0, <2>2, BoxesStay
    <3> QED BY <1>1, <1>2, <1>3, <1>5, <2>0, <2>2, <3>1, BulkMoves
  <2> QED BY <2>1, <2>2
<1>6. CASE r.mode = "execute"
  <2> DEFINE kept == panel.selected \cap Retryable(r)
             roster == [panel EXCEPT !.selected = kept]
  <2>0. panel' = roster /\ roster \in BulkPanels /\ roster.selected = kept /\ roster.open = panel.open
    <3>1. kept \in SUBSET Bookings
      BY <1>3 DEF BulkPanels
    <3>2. panel' = roster
      BY <1>6 DEF AnswerArrives
    <3> HIDE DEF kept
    <3> QED BY <1>3, <3>1, <3>2 DEF BulkPanels
  <2> HIDE DEF roster
  <2>1. box' = IF box.pending = n /\ Screen(roster) # NoBox
               THEN [box EXCEPT !.face = "result", !.pending = 0] ELSE Screen(roster)
    <3>1. box' = IF box.pending = n /\ Screen(panel') # NoBox
                 THEN [box EXCEPT !.face = "result", !.pending = 0] ELSE Screen(panel')
      BY <1>6 DEF AnswerArrives
    <3> QED BY <2>0, <3>1
  <2>2. Screen(roster) \in BulkBoxes /\ BoxIsTrue(Screen(roster), roster, asked)
    BY <2>0, ScreensAreTrue
  <2>3. box' \in BulkBoxes /\ BoxIsTrue(box', roster, asked)
    <3>1. CASE box.pending = n /\ Screen(roster) # NoBox
      <4> DEFINE shown == [box EXCEPT !.face = "result", !.pending = 0]
      <4>1. /\ shown \in BulkBoxes /\ shown.face = "result" /\ shown.pending = 0 /\ shown.for = box.for
        <5>1. box \in BulkBoxes /\ 0 \in 0 .. MaxBulkAsks
          BY <1>3
        <5> QED BY <5>1 DEF BulkBoxes
      <4>2. box' = shown
        BY <2>1, <3>1
      <4> HIDE DEF shown
      <4>3. box.face # "none" /\ box.for # {}
        BY <1>3, <3>1 DEF BoxIsTrue
      <4>4. roster.open /\ roster.selected # {}
        BY <3>1 DEF Screen
      <4> QED BY <4>1, <4>2, <4>3, <4>4 DEF BoxIsTrue
    <3>2. CASE ~(box.pending = n /\ Screen(roster) # NoBox)
      BY <2>1, <2>2, <3>2
    <3> QED BY <3>1, <3>2
  <2>4. BoxIsTrue(box', roster, asked')
    BY <1>1, <1>2, <2>3, BoxesStay
  <2>5. \A b \in kept : books[b].by # n /\ r.verdict[b] = "conflict"
    <3>1. \A b \in r.ids : books[b].by = n <=> b \in DOMAIN r.verdict /\ r.verdict[b] = "cancelled"
      BY <1>1, <1>3, <1>6 DEF NotesAreTrue
    <3> QED BY <3>1 DEF Retryable
  <2>6. BulkInv'
    BY <1>1, <1>2, <1>3, <2>0, <2>3, <2>4, BulkMoves
  <2> QED BY <2>0, <2>5, <2>6
<1> QED BY <1>3, <1>5, <1>6 DEF BulkRequests

(* Every step keeps the invariant.                                          *)
LEMMA BulkKeeps == BulkInv /\ [BulkNext]_bulkVars => BulkInv'
<1> SUFFICES ASSUME BulkInv, [BulkNext]_bulkVars PROVE BulkInv'
  OBVIOUS
<1>1. CASE UNCHANGED bulkVars
  BY <1>1 DEF bulkVars, BulkInv, BulkShape, ExecutesThePreview
<1>2. CASE BulkNext
  BY <1>2, PanelKeeps, PostKeeps, OthersKeep, ResolveKeeps, CancellingKeeps, BreaksOffKeeps, AnswerKeeps,
     AnswerFailsKeeps DEF BulkNext
<1> QED BY <1>1, <1>2

(* Only an answer that arrives tells a request's result.                    *)
LEMMA AnswersTell ==
    ASSUME BulkInv, BulkNext, NEW n \in DOMAIN asked, asked[n].stage = "ready", asked'[n].stage = "told"
    PROVE  AnswerArrives(n)
<1>0. asked \in Seq(BulkRequests) /\ asked[n] \in BulkRequests /\ n \in 1 .. Len(asked) /\ Len(asked) \in Nat
  BY RequestIs DEF BulkInv, BulkShape
<1>1. asked' # asked
  BY <1>0
<1>2. ~(ListIsRead \/ OpenBox \/ FilterMoves \/ DismissBox) /\ \A b \in Bookings : ~Tick(b) /\ ~OthersEnd(b)
  BY <1>1 DEF ListIsRead, OpenBox, FilterMoves, DismissBox, Tick, OthersEnd
<1>3. ASSUME NEW mode \in {"preview", "execute"}, Post(mode) PROVE FALSE
  <2>1. PICK r : asked' = Append(asked, r)
    BY <1>3 DEF Post
  <2>2. asked'[n] = asked[n]
    BY <1>0, <2>1
  <2> QED BY <2>2
<1>4. PICK m \in DOMAIN asked : Resolve(m) \/ CancelOne(m) \/ ConflictOne(m) \/ BreaksOff(m)
                                  \/ AnswerArrives(m) \/ AnswerFails(m)
  BY <1>2, <1>3 DEF BulkNext
<1>5. \E r : Moves(m, r)
  BY <1>4 DEF Resolve, CancelOne, ConflictOne, BreaksOff, AnswerArrives, AnswerFails, Records
<1>6. m = n
  BY <1>0, <1>5 DEF Moves
<1>7. ~Resolve(n) /\ ~CancelOne(n) /\ ~ConflictOne(n) /\ ~BreaksOff(n)
  BY DEF Resolve, CancelOne, ConflictOne, BreaksOff
<1>8. ASSUME AnswerFails(n) PROVE FALSE
  <2>1. Moves(n, [asked[n] EXCEPT !.stage = "failed"])
    BY <1>8 DEF AnswerFails
  <2>2. asked'[n] = [asked[n] EXCEPT !.stage = "failed"]
    BY <1>0, <2>1 DEF Moves
  <2>3. asked'[n].stage = "failed"
    BY <1>0, <2>2 DEF BulkRequests
  <2> QED BY <2>3
<1> QED BY <1>4, <1>6, <1>7, <1>8

(* What the invariant says of the dialog and of the reports.                *)
LEMMA BulkHolds == BulkInv => BulkTypeOK /\ ExecutesThePreview /\ ReportIsTrue
<1> SUFFICES ASSUME BulkInv PROVE BulkTypeOK /\ ExecutesThePreview /\ ReportIsTrue
  OBVIOUS
<1>1. /\ books \in BulkBooks /\ panel \in BulkPanels /\ box \in BulkBoxes /\ BoxIsTrue(box, panel, asked)
      /\ DOMAIN asked = 1 .. Len(asked) /\ Len(asked) \in Nat
      /\ \A n \in DOMAIN asked : NotesAreTrue(n, asked[n], books)
  BY RequestsAre DEF BulkInv, BulkShape
<1>2. box.pending \in 0 .. Len(asked)
  BY <1>1 DEF BoxIsTrue
<1>3. BulkTypeOK
  BY <1>1, <1>2 DEF BulkTypeOK, BoxIsTrue, BulkBooks, BulkPanels, NotesAreTrue
<1>4. ReportIsTrue
  BY <1>1 DEF ReportIsTrue, NotesAreTrue
<1> QED BY <1>3, <1>4 DEF BulkInv

(* However many previews and executions of two dialogs overlap, and         *)
(* whatever others end meanwhile: what was previewed is executed, what an   *)
(* execution reports as cancelled is what it cancelled, and what stays      *)
(* selected is what may be tried again.                                     *)
THEOREM BulkSoundness == BulkSpec => BulkIsTrue
<1>1. BulkInv /\ [BulkNext]_bulkVars =>
        [\A n \in DOMAIN asked :
           asked[n].stage = "ready" /\ asked'[n].stage = "told" /\ asked[n].mode = "execute"
             => \A b \in panel'.selected : books[b].by # n /\ asked[n].verdict[b] = "conflict"]_bulkVars
  BY AnswersTell, AnswerKeeps
<1> QED BY BulkStarts, BulkKeeps, BulkHolds, <1>1, PTL DEF BulkSpec, BulkIsTrue, OnlyRetryableStays

(***************************************************************************)
(* The sheets of the period settings: reads, edits and partial saves.      *)
(***************************************************************************)

(* What the database, a sheet and a save may hold.                          *)
SheetValues == [id : -1 .. MaxSheetEdits, at : 0 .. (1 + MaxSheetSaves)]
SheetParts == [shown : SheetValues, edited : BOOLEAN, quiet : BOOLEAN, reading : {"none", "asked", "served"},
               read : SheetValues, failed : BOOLEAN, told : SheetValues]
SentParts == [id : -1 .. MaxSheetEdits, at : 0 .. (1 + MaxSheetSaves), outcome : {"sent", "ok", "lost", "refused"}]
SheetSaves == [of : Officers, number : 0 .. MaxSheetSaves, parts : [Parts -> SentParts]]
SheetCounts == [edits : 0 .. MaxSheetEdits, saves : 0 .. MaxSheetSaves, dates : 0 .. MaxSheetReads,
                faults : 0 .. MaxSheetFaults]

(* The saves whose PATCH of a part has not come to the server.              *)
Unsent(some, p) == {s \in some : s.parts[p].outcome = "sent"}

(* The variables keep their shape, and a part is stored once for a save.    *)
SheetShape ==
    /\ stored \in [Parts -> SheetValues] /\ sheets \in [Officers -> [Parts -> SheetParts]]
    /\ saves \subseteq SheetSaves /\ IsFiniteSet(saves) /\ sheetCount \in SheetCounts
    /\ Cardinality(saves) <= sheetCount.saves
    /\ \A p \in Parts :
         /\ stored[p].at >= 1 /\ stored[p].id <= sheetCount.edits /\ (p = "periods" => stored[p].id >= 0)
         /\ stored[p].at + Cardinality(Unsent(saves, p)) <= 1 + sheetCount.saves

(* What a part of a sheet shows, reads and was told.                        *)
PartIsTrue(part, cell, edits) ==
    /\ part.shown.id <= edits /\ part.read.id <= edits
    /\ part.edited => part.shown.at = 0
    /\ part.quiet => part.edited /\ part.shown.id >= 1
    /\ part.told.at <= cell.at
    /\ part.reading = "served" => part.told.at <= part.read.at
    /\ part.edited \/ part.reading # "none" \/ part.failed \/ part.shown.at >= part.told.at
    /\ part.quiet /\ part.reading # "none" => part.told.id = part.shown.id

(* What a save carries of a part that was edited quietly is what it shows,  *)
(* and is stored later than anything else that the sheet was told of.       *)
SentIsTrue(sent, part, cell, edits) ==
    /\ sent.id <= edits
    /\ sent.outcome = "ok" => sent.at <= cell.at
    /\ part.quiet =>
          /\ sent.id = part.shown.id
          /\ sent.outcome = "ok" /\ part.told.id # part.shown.id => sent.at > part.told.at

(* The inductive invariant of the sheets.                                   *)
SheetInv ==
    /\ SheetShape
    /\ \A o \in Officers, p \in Parts : PartIsTrue(sheets[o][p], stored[p], sheetCount.edits)
    /\ \A s \in saves, p \in Parts : SentIsTrue(s.parts[p], sheets[s.of][p], stored[p], sheetCount.edits)

(* The constants, and the values of a sheet that is unread.                 *)
LEMMA SheetConstants ==
    /\ MaxSheetEdits \in Nat /\ MaxSheetSaves \in Nat /\ MaxSheetReads \in Nat /\ MaxSheetFaults \in Nat
    /\ Unread \in SheetValues /\ Unread.id = -1 /\ Unread.at = 0
    /\ \A id \in -1 .. MaxSheetEdits, at \in 0 .. (1 + MaxSheetSaves) :
          Value(id, at) \in SheetValues /\ Value(id, at).id = id /\ Value(id, at).at = at
    /\ FreshPart \in SheetParts /\ FreshPart.shown = Unread /\ FreshPart.read = Unread /\ FreshPart.told = Unread
    /\ ~FreshPart.edited /\ ~FreshPart.quiet /\ FreshPart.reading = "asked" /\ ~FreshPart.failed
<1>1. MaxSheetEdits \in Nat /\ MaxSheetSaves \in Nat /\ MaxSheetReads \in Nat /\ MaxSheetFaults \in Nat
  BY SheetAssumption DEF SheetAssumption
<1>2. \A id \in -1 .. MaxSheetEdits, at \in 0 .. (1 + MaxSheetSaves) :
          Value(id, at) \in SheetValues /\ Value(id, at).id = id /\ Value(id, at).at = at
  BY DEF Value, SheetValues
<1>3. -1 \in -1 .. MaxSheetEdits /\ 0 \in 0 .. (1 + MaxSheetSaves)
  BY <1>1
<1>4. Unread \in SheetValues /\ Unread.id = -1 /\ Unread.at = 0
  BY <1>2, <1>3 DEF Unread
<1>5. FreshPart \in SheetParts /\ FreshPart.shown = Unread /\ FreshPart.read = Unread /\ FreshPart.told = Unread
      /\ ~FreshPart.edited /\ ~FreshPart.quiet /\ FreshPart.reading = "asked" /\ ~FreshPart.failed
  BY <1>4 DEF FreshPart, SheetParts
<1> QED BY <1>1, <1>2, <1>4, <1>5

(* What is known of a part of a sheet.                                      *)
LEMMA PartIs ==
    ASSUME SheetInv, NEW o \in Officers, NEW p \in Parts
    PROVE  /\ sheets[o][p] \in SheetParts /\ PartIsTrue(sheets[o][p], stored[p], sheetCount.edits)
           /\ stored[p] \in SheetValues /\ sheetCount \in SheetCounts /\ sheetCount.edits \in Nat
           /\ sheets \in [Officers -> [Parts -> SheetParts]]
           /\ stored[p].id \in Int /\ stored[p].at \in Nat /\ stored[p].id <= sheetCount.edits
           /\ sheets[o][p].told \in SheetValues /\ sheets[o][p].shown \in SheetValues
           /\ sheets[o][p].read \in SheetValues
           /\ sheets[o][p].told.at \in Nat /\ sheets[o][p].shown.at \in Nat /\ sheets[o][p].read.at \in Nat
<1>1. sheets[o][p] \in SheetParts /\ stored[p] \in SheetValues /\ sheetCount \in SheetCounts
  BY DEF SheetInv, SheetShape
<1>2. sheets[o][p].told \in SheetValues /\ sheets[o][p].shown \in SheetValues /\ sheets[o][p].read \in SheetValues
  BY <1>1 DEF SheetParts
<1>3. \A v \in SheetValues : v.id \in Int /\ v.at \in Nat
  BY DEF SheetValues
<1>4. sheetCount.edits \in Nat
  BY <1>1 DEF SheetCounts
<1> QED BY <1>1, <1>2, <1>3, <1>4 DEF SheetInv, SheetShape

(* One part of one sheet changes.                                           *)
LEMMA PartMoves ==
    ASSUME SheetInv, NEW o \in Officers, NEW p \in Parts, NEW part \in SheetParts,
           sheets' = [sheets EXCEPT ![o][p] = part], UNCHANGED <<stored, saves>>,
           sheetCount' \in SheetCounts, sheetCount'.saves = sheetCount.saves,
           sheetCount.edits <= sheetCount'.edits,
           PartIsTrue(part, stored[p], sheetCount'.edits),
           \A s \in saves : s.of = o => SentIsTrue(s.parts[p], part, stored[p], sheetCount'.edits)
    PROVE  SheetInv'
<1>0. /\ sheets \in [Officers -> [Parts -> SheetParts]] /\ saves \subseteq SheetSaves
      /\ sheetCount.edits \in Nat /\ sheetCount'.edits \in Nat
  BY PartIs DEF SheetInv, SheetShape, SheetCounts
<1>1. /\ sheets' \in [Officers -> [Parts -> SheetParts]]
      /\ sheets'[o][p] = part
      /\ \A d \in Officers, q \in Parts : (d = o /\ q = p) \/ sheets'[d][q] = sheets[d][q]
  BY <1>0
<1>2. SheetShape'
  <2>1. \A q \in Parts : stored[q].id <= sheetCount'.edits
    <3> TAKE q \in Parts
    <3>1. stored[q].id \in Int /\ stored[q].id <= sheetCount.edits
      BY PartIs
    <3> QED BY <1>0, <3>1
  <2> QED BY <1>1, <2>1 DEF SheetInv, SheetShape
<1>3. ASSUME NEW d \in Officers, NEW q \in Parts
      PROVE  PartIsTrue(sheets'[d][q], stored'[q], sheetCount'.edits)
  <2>1. CASE d = o /\ q = p
    BY <1>1, <2>1
  <2>2. CASE ~(d = o /\ q = p)
    <3>1. sheets'[d][q] = sheets[d][q] /\ PartIsTrue(sheets[d][q], stored[q], sheetCount.edits)
      BY <1>1, <2>2, PartIs
    <3>2. sheets[d][q].shown.id \in Int /\ sheets[d][q].read.id \in Int
      BY PartIs DEF SheetValues
    <3>3. sheets[d][q].shown.id <= sheetCount'.edits /\ sheets[d][q].read.id <= sheetCount'.edits
      BY <1>0, <3>1, <3>2 DEF PartIsTrue
    <3> QED BY <3>1, <3>3 DEF PartIsTrue
  <2> QED BY <2>1, <2>2
<1>4. ASSUME NEW s \in saves, NEW q \in Parts
      PROVE  SentIsTrue(s.parts[q], sheets'[s.of][q], stored'[q], sheetCount'.edits)
  <2>0. s \in SheetSaves /\ s.of \in Officers /\ s.parts[q] \in SentParts
    BY <1>0 DEF SheetSaves
  <2>1. CASE s.of = o /\ q = p
    BY <1>1, <2>1
  <2>2. CASE ~(s.of = o /\ q = p)
    <3>1. sheets'[s.of][q] = sheets[s.of][q] /\ SentIsTrue(s.parts[q], sheets[s.of][q], stored[q], sheetCount.edits)
      BY <1>1, <2>0, <2>2 DEF SheetInv
    <3>2. s.parts[q].id \in Int /\ s.parts[q].id <= sheetCount.edits
      BY <2>0, <3>1 DEF SentParts, SentIsTrue
    <3>3. s.parts[q].id <= sheetCount'.edits
      BY <1>0, <3>2
    <3> QED BY <3>1, <3>3 DEF SentIsTrue
  <2> QED BY <2>1, <2>2
<1> QED BY <1>2, <1>3, <1>4 DEF SheetInv


(* Nothing is read at first.                                                *)
LEMMA SheetStarts == SheetInit => SheetInv
<1> SUFFICES ASSUME SheetInit PROVE SheetInv
  OBVIOUS
<1>0. /\ MaxSheetEdits \in Nat /\ MaxSheetSaves \in Nat /\ MaxSheetReads \in Nat /\ MaxSheetFaults \in Nat
      /\ 0 \in -1 .. MaxSheetEdits /\ 1 \in 0 .. (1 + MaxSheetSaves)
  BY SheetConstants
<1>1. /\ Value(0, 1) \in SheetValues /\ Value(0, 1).id = 0 /\ Value(0, 1).at = 1
  BY <1>0, SheetConstants
<1>2. \A p \in Parts : stored[p] = Value(0, 1)
  BY DEF SheetInit
<1>3. stored \in [Parts -> SheetValues]
  BY <1>1 DEF SheetInit
<1>4. sheets \in [Officers -> [Parts -> SheetParts]] /\ \A o \in Officers, p \in Parts : sheets[o][p] = FreshPart
  BY SheetConstants DEF SheetInit
<1>5. /\ saves = {} /\ IsFiniteSet(saves) /\ Cardinality(saves) = 0
      /\ \A p \in Parts : Cardinality(Unsent(saves, p)) = 0
  <2>1. saves = {} /\ \A p \in Parts : Unsent(saves, p) = {}
    BY DEF SheetInit, Unsent
  <2> QED BY <2>1, FS_EmptySet
<1>6. sheetCount \in SheetCounts /\ sheetCount.edits = 0 /\ sheetCount.saves = 0
  BY <1>0 DEF SheetInit, SheetCounts
<1>7. SheetShape
  BY <1>1, <1>2, <1>3, <1>4, <1>5, <1>6 DEF SheetShape
<1>8. \A o \in Officers, p \in Parts : PartIsTrue(sheets[o][p], stored[p], sheetCount.edits)
  <2>1. PartIsTrue(FreshPart, Value(0, 1), 0)
    BY <1>1, SheetConstants DEF PartIsTrue
  <2> QED BY <1>2, <1>4, <1>6, <2>1
<1> QED BY <1>5, <1>7, <1>8 DEF SheetInv

(* A read is served, arrives or fails.                                      *)
LEMMA ReadsKeep ==
    ASSUME SheetInv, NEW o \in Officers, NEW p \in Parts, ServePart(o, p) \/ PartArrives(o, p) \/ PartFails(o, p)
    PROVE  SheetInv'
<1> DEFINE old == sheets[o][p]
<1>0. /\ old \in SheetParts /\ PartIsTrue(old, stored[p], sheetCount.edits) /\ stored[p] \in SheetValues
      /\ sheetCount \in SheetCounts /\ sheetCount.edits \in Nat /\ stored[p].id <= sheetCount.edits
      /\ sheets \in [Officers -> [Parts -> SheetParts]]
      /\ old.read \in SheetValues /\ old.told \in SheetValues /\ old.shown \in SheetValues
  BY PartIs
<1>1. \A s \in saves : s.of = o => SentIsTrue(s.parts[p], old, stored[p], sheetCount.edits)
  BY DEF SheetInv
<1>2. CASE ServePart(o, p)
  <2> DEFINE cell == stored[p]
             part == [old EXCEPT !.reading = "served", !.read = cell]
  <2>1. sheets' = [sheets EXCEPT ![o][p] = part]
    BY <1>0, <1>2 DEF ServePart
  <2>2. UNCHANGED <<stored, saves, sheetCount>> /\ old.reading = "asked"
    BY <1>2 DEF ServePart
  <2> HIDE DEF cell
  <2>3. /\ part \in SheetParts /\ part.reading = "served" /\ part.read = cell /\ part.shown = old.shown
        /\ part.told = old.told /\ part.quiet = old.quiet /\ part.edited = old.edited /\ part.failed = old.failed
    BY <1>0 DEF SheetParts, cell
  <2> HIDE DEF part
  <2>4. PartIsTrue(part, stored[p], sheetCount.edits)
    BY <1>0, <2>2, <2>3 DEF PartIsTrue, cell
  <2>5. \A s \in saves : s.of = o => SentIsTrue(s.parts[p], part, stored[p], sheetCount.edits)
    BY <1>1, <2>3 DEF SentIsTrue
  <2>6. sheetCount' \in SheetCounts /\ sheetCount'.saves = sheetCount.saves /\ sheetCount'.edits = sheetCount.edits
        /\ sheetCount.edits <= sheetCount'.edits
    BY <1>0, <2>2
  <2> QED BY <1>0, <2>1, <2>2, <2>3, <2>4, <2>5, <2>6, PartMoves
<1>3. CASE PartArrives(o, p)
  <2> DEFINE part == [FreshPart EXCEPT !.shown = old.read, !.reading = "none", !.told = old.told]
  <2>1. sheets' = [sheets EXCEPT ![o][p] = part]
    BY <1>3 DEF PartArrives
  <2>2. UNCHANGED <<stored, saves, sheetCount>> /\ old.reading = "served"
    BY <1>3 DEF PartArrives
  <2>3. /\ part \in SheetParts /\ part.reading = "none" /\ part.read = Unread /\ part.shown = old.read
        /\ part.told = old.told /\ ~part.quiet /\ ~part.edited /\ ~part.failed
    BY <1>0, SheetConstants DEF SheetParts
  <2> HIDE DEF part
  <2>4. PartIsTrue(part, stored[p], sheetCount.edits)
    <3>1. old.told.at <= old.read.at /\ old.told.at \in Nat /\ old.read.at \in Nat /\ Unread.id <= sheetCount.edits
      BY <1>0, <2>2, PartIs, SheetConstants DEF PartIsTrue
    <3> QED BY <1>0, <2>3, <3>1 DEF PartIsTrue
  <2>5. \A s \in saves : s.of = o => SentIsTrue(s.parts[p], part, stored[p], sheetCount.edits)
    BY <1>1, <2>3 DEF SentIsTrue
  <2>6. sheetCount' \in SheetCounts /\ sheetCount'.saves = sheetCount.saves /\ sheetCount'.edits = sheetCount.edits
        /\ sheetCount.edits <= sheetCount'.edits
    BY <1>0, <2>2
  <2> QED BY <1>0, <2>1, <2>2, <2>3, <2>4, <2>5, <2>6, PartMoves
<1>4. CASE PartFails(o, p)
  <2> DEFINE part == [old EXCEPT !.reading = "none", !.read = Unread, !.failed = TRUE]
  <2>1. sheets' = [sheets EXCEPT ![o][p] = part]
    BY <1>4 DEF PartFails
  <2>2. UNCHANGED <<stored, saves>> /\ sheetCount' = [sheetCount EXCEPT !.faults = sheetCount.faults + 1]
        /\ sheetCount.faults < MaxSheetFaults
    BY <1>4 DEF PartFails, SheetFault
  <2>3. /\ part \in SheetParts /\ part.reading = "none" /\ part.read = Unread /\ part.shown = old.shown
        /\ part.told = old.told /\ part.quiet = old.quiet /\ part.edited = old.edited /\ part.failed
    BY <1>0, SheetConstants DEF SheetParts
  <2> HIDE DEF part
  <2>4. sheetCount' \in SheetCounts /\ sheetCount'.edits = sheetCount.edits /\ sheetCount'.saves = sheetCount.saves
    BY <1>0, <2>2, SheetConstants DEF SheetCounts
  <2>5. PartIsTrue(part, stored[p], sheetCount.edits)
    <3>1. Unread.id <= sheetCount.edits
      BY <1>0, SheetConstants
    <3> QED BY <1>0, <2>3, <3>1 DEF PartIsTrue
  <2>6. \A s \in saves : s.of = o => SentIsTrue(s.parts[p], part, stored[p], sheetCount.edits)
    BY <1>1, <2>3 DEF SentIsTrue
  <2>7. sheetCount.edits <= sheetCount'.edits
    BY <1>0, <2>4
  <2> QED BY <1>0, <2>1, <2>2, <2>3, <2>4, <2>5, <2>6, <2>7, PartMoves
<1> QED BY <1>2, <1>3, <1>4

(* The administrator edits a part, or looks at another date.                *)
LEMMA SheetEditsKeep ==
    ASSUME SheetInv, NEW o \in Officers, ChangeSheetDate(o) \/ \E p \in Parts : EditPart(o, p)
    PROVE  SheetInv'
<1>1. CASE ChangeSheetDate(o)
  <2> DEFINE p == "periods"
             old == sheets[o][p]
             part == [ReadAnew(old) EXCEPT !.quiet = FALSE]
  <2>0. /\ p \in Parts /\ old \in SheetParts /\ PartIsTrue(old, stored[p], sheetCount.edits)
        /\ sheetCount \in SheetCounts /\ sheetCount.edits \in Nat
        /\ \A s \in saves : s.of = o => SentIsTrue(s.parts[p], old, stored[p], sheetCount.edits)
    <3>1. p \in Parts
      BY DEF Parts
    <3> QED BY <3>1, PartIs DEF SheetInv
  <2>1. /\ sheets' = [sheets EXCEPT ![o][p] = part]
        /\ UNCHANGED <<stored, saves>> /\ sheetCount' = [sheetCount EXCEPT !.dates = sheetCount.dates + 1]
        /\ sheetCount.dates < MaxSheetReads
    BY <1>1 DEF ChangeSheetDate
  <2>2. /\ part \in SheetParts /\ part.reading = "asked" /\ part.read = old.read /\ part.shown = old.shown
        /\ part.told = old.told /\ ~part.quiet /\ part.edited = old.edited /\ ~part.failed
    BY <2>0 DEF SheetParts, ReadAnew
  <2> HIDE DEF part
  <2>3. sheetCount' \in SheetCounts /\ sheetCount'.edits = sheetCount.edits /\ sheetCount'.saves = sheetCount.saves
    BY <2>0, <2>1, SheetConstants DEF SheetCounts
  <2>4. PartIsTrue(part, stored[p], sheetCount.edits)
    BY <2>0, <2>2 DEF PartIsTrue
  <2>5. \A s \in saves : s.of = o => SentIsTrue(s.parts[p], part, stored[p], sheetCount.edits)
    BY <2>0, <2>2 DEF SentIsTrue
  <2>6. sheetCount.edits <= sheetCount'.edits
    BY <2>0, <2>3
  <2> HIDE DEF p
  <2> QED BY <2>0, <2>1, <2>2, <2>3, <2>4, <2>5, <2>6, PartMoves
<1>2. ASSUME NEW p \in Parts, EditPart(o, p) PROVE SheetInv'
  <2> DEFINE old == sheets[o][p]
             news == Value(sheetCount.edits + 1, 0)
             quiet == ~Underway(o, p)
             part == [old EXCEPT !.shown = news, !.edited = TRUE, !.quiet = quiet]
  <2>0. /\ old \in SheetParts /\ PartIsTrue(old, stored[p], sheetCount.edits)
        /\ sheetCount \in SheetCounts /\ sheetCount.edits \in Nat /\ old.read.id \in Int
        /\ \A s \in saves : s.of = o => SentIsTrue(s.parts[p], old, stored[p], sheetCount.edits)
    BY PartIs DEF SheetInv, SheetValues
  <2>1. /\ sheets' = [sheets EXCEPT ![o][p] = part]
        /\ UNCHANGED <<stored, saves>> /\ sheetCount' = [sheetCount EXCEPT !.edits = sheetCount.edits + 1]
        /\ sheetCount.edits < MaxSheetEdits
    BY <1>2 DEF EditPart
  <2>2. quiet \in BOOLEAN /\ (quiet => old.reading = "none" /\ ~\E s \in saves : s.of = o)
    BY DEF Underway
  <2>3. news \in SheetValues /\ news.id = sheetCount.edits + 1 /\ news.at = 0
    <3>1. sheetCount.edits + 1 \in -1 .. MaxSheetEdits /\ 0 \in 0 .. (1 + MaxSheetSaves)
      BY <2>0, <2>1, SheetConstants
    <3> QED BY <3>1, SheetConstants
  <2> HIDE DEF news, quiet
  <2>4. /\ part \in SheetParts /\ part.reading = old.reading /\ part.read = old.read /\ part.shown = news
        /\ part.told = old.told /\ part.quiet = quiet /\ part.edited /\ part.failed = old.failed
    BY <2>0, <2>2, <2>3 DEF SheetParts
  <2> HIDE DEF part
  <2>5. /\ sheetCount' \in SheetCounts /\ sheetCount'.edits = sheetCount.edits + 1
        /\ sheetCount'.saves = sheetCount.saves
    BY <2>0, <2>1, SheetConstants DEF SheetCounts
  <2>6. PartIsTrue(part, stored[p], sheetCount'.edits)
    <3>1. old.read.id <= sheetCount.edits + 1
      BY <2>0 DEF PartIsTrue
    <3>2. news.id <= sheetCount.edits + 1 /\ news.id >= 1
      BY <2>0, <2>3
    <3> QED BY <2>0, <2>2, <2>3, <2>4, <2>5, <3>1, <3>2 DEF PartIsTrue
  <2>7. ASSUME NEW s \in saves, s.of = o PROVE SentIsTrue(s.parts[p], part, stored[p], sheetCount'.edits)
    <3>1. SentIsTrue(s.parts[p], old, stored[p], sheetCount.edits) /\ ~quiet
      BY <2>0, <2>2, <2>7
    <3>2. s.parts[p].id \in Int
      BY <2>7 DEF SheetInv, SheetShape, SheetSaves, SentParts
    <3>3. s.parts[p].id <= sheetCount.edits + 1
      BY <2>0, <3>1, <3>2 DEF SentIsTrue
    <3> QED BY <2>4, <2>5, <3>1, <3>3 DEF SentIsTrue
  <2>8. sheetCount.edits <= sheetCount'.edits
    BY <2>0, <2>5
  <2> QED BY <2>1, <2>4, <2>5, <2>6, <2>7, <2>8, PartMoves
<1> QED BY <1>1, <1>2


(* One more in a set.                                                       *)
LEMMA OneMore ==
    ASSUME NEW S, IsFiniteSet(S), NEW x
    PROVE  /\ IsFiniteSet(S \cup {x}) /\ Cardinality(S \cup {x}) <= Cardinality(S) + 1
           /\ Cardinality(S \cup {x}) \in Nat /\ Cardinality(S) \in Nat
<1>1. IsFiniteSet(S \cup {x}) /\ (Cardinality(S \cup {x}) = Cardinality(S) \/ Cardinality(S \cup {x}) = Cardinality(S) + 1)
  BY FS_AddElement
<1>2. Cardinality(S) \in Nat
  BY FS_CardinalityType
<1> QED BY <1>1, <1>2

(* Both parts leave as they are shown.                                      *)
LEMMA SaveSheetKeeps ==
    ASSUME SheetInv, NEW o \in Officers, SaveSheet(o)
    PROVE  SheetInv'
<1> DEFINE sending == [p \in Parts |-> [id |-> sheets[o][p].shown.id, at |-> 0, outcome |-> "sent"]]
           s == [of |-> o, number |-> sheetCount.saves, parts |-> sending]
<1>0. /\ sheetCount \in SheetCounts /\ sheetCount.saves \in Nat /\ sheetCount.saves < MaxSheetSaves
      /\ saves \subseteq SheetSaves /\ IsFiniteSet(saves) /\ MaxSheetSaves \in Nat
      /\ UNCHANGED <<stored, sheets>> /\ sheetCount' = [sheetCount EXCEPT !.saves = sheetCount.saves + 1]
      /\ saves' = saves \cup {s}
  BY SheetConstants DEF SheetInv, SheetShape, SheetCounts, SaveSheet
<1>1. \A p \in Parts : sending[p] \in SentParts /\ sending[p].id = sheets[o][p].shown.id
                       /\ sending[p].outcome = "sent" /\ sending[p].at = 0
  <2> TAKE p \in Parts
  <2>1. sheets[o][p].shown.id \in -1 .. MaxSheetEdits /\ 0 \in 0 .. (1 + MaxSheetSaves)
    BY <1>0, PartIs DEF SheetValues
  <2> QED BY <2>1 DEF SentParts
<1>2. s \in SheetSaves /\ s.of = o /\ s.parts = sending
  <2>1. sending \in [Parts -> SentParts]
    BY <1>1
  <2>2. sheetCount.saves \in 0 .. MaxSheetSaves
    BY <1>0
  <2> HIDE DEF sending
  <2> QED BY <2>1, <2>2 DEF SheetSaves
<1> HIDE DEF s, sending
<1>3. sheetCount' \in SheetCounts /\ sheetCount'.saves = sheetCount.saves + 1 /\ sheetCount'.edits = sheetCount.edits
  BY <1>0 DEF SheetCounts
<1>4. /\ IsFiniteSet(saves') /\ Cardinality(saves') <= Cardinality(saves) + 1
      /\ Cardinality(saves') \in Nat /\ Cardinality(saves) \in Nat
  BY <1>0, OneMore
<1>5. ASSUME NEW p \in Parts
      PROVE  stored[p].at + Cardinality(Unsent(saves', p)) <= 1 + (sheetCount.saves + 1)
  <2> DEFINE U == Unsent(saves, p)
  <2>1. Unsent(saves', p) \subseteq U \cup {s} /\ IsFiniteSet(U)
    <3>1. U \subseteq saves
      BY DEF Unsent
    <3> QED BY <1>0, <3>1, FS_Subset DEF Unsent
  <2>2. IsFiniteSet(U \cup {s}) /\ Cardinality(U \cup {s}) <= Cardinality(U) + 1
    <3> HIDE DEF U
    <3> QED BY <2>1, OneMore
  <2>3. IsFiniteSet(Unsent(saves', p)) /\ Cardinality(Unsent(saves', p)) <= Cardinality(U \cup {s})
    BY <2>1, <2>2, FS_Subset
  <2>4. /\ Cardinality(U) \in Nat /\ Cardinality(U \cup {s}) \in Nat /\ Cardinality(Unsent(saves', p)) \in Nat
        /\ stored[p].at \in Nat
    BY <2>1, <2>2, <2>3, FS_CardinalityType DEF SheetInv, SheetShape, SheetValues
  <2>5. stored[p].at + Cardinality(U) <= 1 + sheetCount.saves
    BY DEF SheetInv, SheetShape
  <2> HIDE DEF U
  <2> QED BY <1>0, <2>2, <2>3, <2>4, <2>5
<1>6. SheetShape'
  <2>1. Cardinality(saves') <= sheetCount.saves + 1 /\ saves' \subseteq SheetSaves
    BY <1>0, <1>2, <1>4 DEF SheetInv, SheetShape
  <2>2. /\ stored' \in [Parts -> SheetValues] /\ sheets' \in [Officers -> [Parts -> SheetParts]]
        /\ \A p \in Parts : /\ stored'[p].at >= 1 /\ stored'[p].id <= sheetCount'.edits
                            /\ (p = "periods" => stored'[p].id >= 0)
    BY <1>0, <1>3 DEF SheetInv, SheetShape
  <2>3. \A p \in Parts : stored'[p].at + Cardinality(Unsent(saves', p)) <= 1 + sheetCount'.saves
    BY <1>0, <1>3, <1>5
  <2> QED BY <1>3, <1>4, <2>1, <2>2, <2>3 DEF SheetShape
<1>7. ASSUME NEW t \in saves', NEW p \in Parts
      PROVE  SentIsTrue(t.parts[p], sheets'[t.of][p], stored'[p], sheetCount'.edits)
  <2>1. CASE t \in saves
    BY <1>0, <1>3, <2>1 DEF SheetInv
  <2>2. CASE t = s
    <3>1. PartIsTrue(sheets[o][p], stored[p], sheetCount.edits)
      BY PartIs
    <3> QED BY <1>0, <1>1, <1>2, <1>3, <2>2, <3>1 DEF SentIsTrue, PartIsTrue
  <2> QED BY <1>0, <2>1, <2>2
<1> QED BY <1>0, <1>3, <1>6, <1>7 DEF SheetInv

(* A part is stored, or not, and the save has its answer.                   *)
LEMMA PatchKeeps ==
    ASSUME SheetInv, NEW s \in saves, NEW p \in Parts, PatchPart(s, p)
    PROVE  SheetInv'
<1>0. /\ s \in SheetSaves /\ s.of \in Officers /\ s.parts \in [Parts -> SentParts] /\ s.parts[p] \in SentParts
      /\ s.parts[p].outcome = "sent" /\ UNCHANGED sheets /\ stored \in [Parts -> SheetValues]
      /\ sheets \in [Officers -> [Parts -> SheetParts]]
      /\ saves \subseteq SheetSaves /\ IsFiniteSet(saves) /\ MaxSheetSaves \in Nat
      /\ sheetCount \in SheetCounts /\ sheetCount.saves \in Nat /\ sheetCount.saves <= MaxSheetSaves
      /\ stored[p] \in SheetValues /\ stored[p].at \in Nat /\ stored[p].at >= 1
  BY SheetConstants DEF SheetInv, SheetShape, SheetSaves, PatchPart, SheetCounts, SheetValues
<1>1. \A q \in Parts : SentIsTrue(s.parts[q], sheets[s.of][q], stored[q], sheetCount.edits)
  BY DEF SheetInv
<1> DEFINE U(q) == Unsent(saves, q)
<1>2. \A q \in Parts : IsFiniteSet(U(q)) /\ Cardinality(U(q)) \in Nat
  <2> TAKE q \in Parts
  <2>1. U(q) \subseteq saves
    BY DEF Unsent
  <2> HIDE DEF U
  <2> QED BY <1>0, <2>1, FS_Subset, FS_CardinalityType
<1>3. stored[p].at + 1 <= 1 + sheetCount.saves /\ stored[p].at + Cardinality(U(p)) <= 1 + sheetCount.saves
  <2>1. s \in U(p)
    BY <1>0 DEF Unsent
  <2>2. Cardinality(U(p)) >= 1
    <3> HIDE DEF U
    <3>1. U(p) # {}
      BY <2>1
    <3>2. Cardinality(U(p)) # 0
      BY <1>2, <3>1, FS_EmptySet
    <3> QED BY <1>2, <3>2
  <2>3. stored[p].at + Cardinality(U(p)) <= 1 + sheetCount.saves
    BY DEF SheetInv, SheetShape
  <2> HIDE DEF U
  <2> QED BY <1>0, <1>2, <2>2, <2>3
<1>4. PICK outcome \in {"ok", "lost", "refused"}, at \in 0 .. (1 + MaxSheetSaves) :
        /\ saves' = (saves \ {s}) \cup {[s EXCEPT !.parts[p].outcome = outcome, !.parts[p].at = at]}
        /\ stored' \in {stored, StoredAs(p, s.parts[p].id)}
        /\ outcome = "ok" => stored' = StoredAs(p, s.parts[p].id) /\ at = stored'[p].at
        /\ sheetCount' = sheetCount \/ SheetFault
  <2> DEFINE stores == StoredAs(p, s.parts[p].id)
  <2>1. stores[p].at \in 0 .. (1 + MaxSheetSaves) /\ 0 \in 0 .. (1 + MaxSheetSaves)
    <3>1. stores = stored \/ stores = [stored EXCEPT ![p] = Value(s.parts[p].id, stored[p].at + 1)]
      BY DEF StoredAs
    <3> DEFINE news == Value(s.parts[p].id, stored[p].at + 1)
    <3>0. news.at = stored[p].at + 1
      BY DEF Value
    <3> HIDE DEF stores, news
    <3>2. stores[p].at = stored[p].at \/ stores[p].at = stored[p].at + 1
      BY <1>0, <3>0, <3>1 DEF news
    <3> QED BY <1>0, <1>3, <3>2
  <2>2. \/ /\ stored' = stores
           /\ saves' = (saves \ {s}) \cup {[s EXCEPT !.parts[p].outcome = "ok", !.parts[p].at = stored'[p].at]}
           /\ UNCHANGED sheetCount
        \/ /\ stored' = stores
           /\ saves' = (saves \ {s}) \cup {[s EXCEPT !.parts[p].outcome = "lost", !.parts[p].at = 0]}
           /\ SheetFault
        \/ /\ stored' = stored
           /\ saves' = (saves \ {s}) \cup {[s EXCEPT !.parts[p].outcome = "refused", !.parts[p].at = 0]}
           /\ SheetFault
    BY DEF PatchPart
  <2>3. stored' = stores => stored'[p].at = stores[p].at
    OBVIOUS
  <2> HIDE DEF stores
  <2>4. CASE /\ stored' = stores
             /\ saves' = (saves \ {s}) \cup {[s EXCEPT !.parts[p].outcome = "ok", !.parts[p].at = stored'[p].at]}
             /\ UNCHANGED sheetCount
    <3> DEFINE placed == stores[p].at
    <3>1. placed = stored'[p].at /\ placed \in 0 .. (1 + MaxSheetSaves)
      BY <2>1, <2>3, <2>4
    <3>2. saves' = (saves \ {s}) \cup {[s EXCEPT !.parts[p].outcome = "ok", !.parts[p].at = placed]}
      BY <2>4, <3>1
    <3> HIDE DEF placed
    <3> QED BY <2>4, <3>1, <3>2 DEF stores
  <2>5. CASE /\ stored' = stores
             /\ saves' = (saves \ {s}) \cup {[s EXCEPT !.parts[p].outcome = "lost", !.parts[p].at = 0]}
             /\ SheetFault
    BY <2>1, <2>5 DEF stores
  <2>6. CASE /\ stored' = stored
             /\ saves' = (saves \ {s}) \cup {[s EXCEPT !.parts[p].outcome = "refused", !.parts[p].at = 0]}
             /\ SheetFault
    BY <2>1, <2>6 DEF stores
  <2> QED BY <2>2, <2>4, <2>5, <2>6
<1> DEFINE t == [s EXCEPT !.parts[p].outcome = outcome, !.parts[p].at = at]
<1>5. /\ t \in SheetSaves /\ t.of = s.of /\ t.parts \in [Parts -> SentParts]
      /\ t.parts[p].id = s.parts[p].id /\ t.parts[p].outcome = outcome /\ t.parts[p].at = at
      /\ \A q \in Parts : q = p \/ t.parts[q] = s.parts[q]
  BY <1>0, <1>4 DEF SheetSaves, SentParts
<1>6. saves' = (saves \ {s}) \cup {t}
  BY <1>4
<1> HIDE DEF t
<1>7. sheetCount' \in SheetCounts /\ sheetCount'.saves = sheetCount.saves /\ sheetCount'.edits = sheetCount.edits
  BY <1>0, <1>4, SheetConstants DEF SheetCounts, SheetFault
<1> DEFINE cells == stored'
<1>8. /\ \A q \in Parts : q = p \/ stored'[q] = stored[q]
      /\ stored' \in [Parts -> SheetValues]
      /\ \/ stored' = stored
         \/ /\ stored'[p].id = s.parts[p].id /\ stored'[p].at = stored[p].at + 1
            /\ (p = "periods" => s.parts[p].id # -1)
  <2> DEFINE news == Value(s.parts[p].id, stored[p].at + 1)
  <2>1. news \in SheetValues /\ news.id = s.parts[p].id /\ news.at = stored[p].at + 1
    <3>1. s.parts[p].id \in -1 .. MaxSheetEdits
      BY <1>0 DEF SentParts
    <3>2. stored[p].at + 1 \in 0 .. (1 + MaxSheetSaves)
      BY <1>0, <1>3
    <3> QED BY <3>1, <3>2, SheetConstants
  <2>2. \/ stored' = stored
        \/ stored' = [stored EXCEPT ![p] = news] /\ (p = "periods" => s.parts[p].id # -1)
    BY <1>4, SheetConstants DEF StoredAs
  <2> HIDE DEF news
  <2> QED BY <1>0, <2>1, <2>2
<1>9. \A q \in Parts : IsFiniteSet(Unsent(saves', q)) /\ stored'[q].at + Cardinality(Unsent(saves', q)) <= 1 + sheetCount.saves
  <2> TAKE q \in Parts
  <2>0. stored[q].at + Cardinality(U(q)) <= 1 + sheetCount.saves /\ stored[q].at \in Nat
    BY DEF SheetInv, SheetShape, SheetValues
  <2>1. CASE q = p
    <3>1. Unsent(saves', q) \subseteq U(q) \ {s}
      BY <1>4, <1>5, <1>6, <2>1 DEF Unsent
    <3>2. s \in U(q)
      BY <1>0, <2>1 DEF Unsent
    <3> HIDE DEF U
    <3>3. IsFiniteSet(U(q) \ {s}) /\ Cardinality(U(q) \ {s}) = Cardinality(U(q)) - 1
      BY <1>2, <3>2, FS_RemoveElement
    <3>4. IsFiniteSet(Unsent(saves', q)) /\ Cardinality(Unsent(saves', q)) <= Cardinality(U(q) \ {s})
      BY <3>1, <3>3, FS_Subset
    <3>5. Cardinality(Unsent(saves', q)) \in Nat /\ Cardinality(U(q)) \in Nat
      BY <1>2, <3>4, FS_CardinalityType
    <3>6. stored'[q].at = stored[q].at \/ stored'[q].at = stored[q].at + 1
      BY <1>8, <2>1
    <3> QED BY <1>0, <2>0, <3>3, <3>4, <3>5, <3>6
  <2>2. CASE q # p
    <3>0. stored'[q] = stored[q]
      BY <1>8, <2>2
    <3>1. CASE s \in U(q)
      <4>1. Unsent(saves', q) \subseteq (U(q) \ {s}) \cup {t}
        BY <1>6 DEF Unsent
      <4> HIDE DEF U
      <4>2. IsFiniteSet(U(q) \ {s}) /\ Cardinality(U(q) \ {s}) = Cardinality(U(q)) - 1
        BY <1>2, <3>1, FS_RemoveElement
      <4>3. /\ IsFiniteSet((U(q) \ {s}) \cup {t})
            /\ Cardinality((U(q) \ {s}) \cup {t}) <= Cardinality(U(q) \ {s}) + 1
            /\ Cardinality(U(q) \ {s}) \in Nat
        BY <4>2, OneMore
      <4>4. /\ IsFiniteSet(Unsent(saves', q))
            /\ Cardinality(Unsent(saves', q)) <= Cardinality((U(q) \ {s}) \cup {t})
        BY <4>1, <4>3, FS_Subset
      <4>5. /\ Cardinality(Unsent(saves', q)) \in Nat /\ Cardinality((U(q) \ {s}) \cup {t}) \in Nat
            /\ Cardinality(U(q)) \in Nat
        BY <1>2, <4>3, <4>4, FS_CardinalityType
      <4> QED BY <1>0, <2>0, <3>0, <4>2, <4>3, <4>4, <4>5
    <3>2. CASE s \notin U(q)
      <4>1. Unsent(saves', q) \subseteq U(q)
        BY <1>5, <1>6, <2>2, <3>2 DEF Unsent
      <4> HIDE DEF U
      <4>2. IsFiniteSet(Unsent(saves', q)) /\ Cardinality(Unsent(saves', q)) <= Cardinality(U(q))
        BY <1>2, <4>1, FS_Subset
      <4>3. Cardinality(Unsent(saves', q)) \in Nat /\ Cardinality(U(q)) \in Nat
        BY <1>2, <4>2, FS_CardinalityType
      <4> QED BY <1>0, <2>0, <3>0, <4>2, <4>3
    <3> QED BY <3>1, <3>2
  <2> QED BY <2>1, <2>2
<1>10. IsFiniteSet(saves') /\ Cardinality(saves') <= Cardinality(saves) /\ saves' \subseteq SheetSaves
  <2>1. IsFiniteSet(saves \ {s}) /\ Cardinality(saves \ {s}) = Cardinality(saves) - 1
    BY <1>0, FS_RemoveElement
  <2>2. /\ IsFiniteSet(saves') /\ Cardinality(saves') <= Cardinality(saves \ {s}) + 1
        /\ Cardinality(saves \ {s}) \in Nat /\ Cardinality(saves) \in Nat /\ Cardinality(saves') \in Nat
    BY <1>0, <1>6, <2>1, OneMore, FS_CardinalityType
  <2> QED BY <1>0, <1>5, <1>6, <2>1, <2>2
<1>11. SheetShape'
  <2>1. Cardinality(saves') <= sheetCount.saves
    <3>1. Cardinality(saves') \in Nat /\ Cardinality(saves) \in Nat /\ Cardinality(saves) <= sheetCount.saves
      BY <1>0, <1>10, FS_CardinalityType DEF SheetInv, SheetShape
    <3> QED BY <1>0, <1>10, <3>1
  <2>2. ASSUME NEW q \in Parts
        PROVE  stored'[q].at >= 1 /\ stored'[q].id <= sheetCount.edits /\ (q = "periods" => stored'[q].id >= 0)
    <3>1. stored[q].at >= 1 /\ stored[q].id <= sheetCount.edits /\ (q = "periods" => stored[q].id >= 0)
          /\ stored[q].at \in Nat
      BY DEF SheetInv, SheetShape, SheetValues
    <3>2. CASE stored'[q] = stored[q]
      BY <3>1, <3>2
    <3>3. CASE /\ q = p /\ stored'[p].id = s.parts[p].id /\ stored'[p].at = stored[p].at + 1
               /\ (p = "periods" => s.parts[p].id # -1)
      <4>1. s.parts[p].id <= sheetCount.edits
        BY <1>1 DEF SentIsTrue
      <4>2. s.parts[p].id \in -1 .. MaxSheetEdits
        BY <1>0 DEF SentParts
      <4>3. s.parts[p].id # -1 => s.parts[p].id >= 0
        BY <4>2, SheetConstants
      <4> QED BY <3>1, <3>3, <4>1, <4>3
    <3> QED BY <1>8, <3>2, <3>3
  <2> QED BY <1>0, <1>7, <1>8, <1>9, <1>10, <2>1, <2>2 DEF SheetShape
<1>12. \A q \in Parts : stored[q].at <= stored'[q].at /\ stored[q].at \in Nat /\ stored'[q].at \in Nat
  <2> TAKE q \in Parts
  <2>1. stored[q].at \in Nat
    BY DEF SheetInv, SheetShape, SheetValues
  <2>2. stored'[q].at = stored[q].at \/ stored'[q].at = stored[q].at + 1
    BY <1>8
  <2> QED BY <2>1, <2>2
<1>13. ASSUME NEW o \in Officers, NEW q \in Parts PROVE PartIsTrue(sheets'[o][q], stored'[q], sheetCount'.edits)
  <2>1. PartIsTrue(sheets[o][q], stored[q], sheetCount.edits) /\ sheets[o][q].told.at \in Nat
    BY PartIs
  <2>2. sheets[o][q].told.at <= stored'[q].at
    <3>1. sheets[o][q].told.at <= stored[q].at
      BY <2>1 DEF PartIsTrue
    <3> QED BY <1>12, <2>1, <3>1
  <2> QED BY <1>0, <1>7, <2>1, <2>2 DEF PartIsTrue
<1>14. ASSUME NEW u \in saves, NEW q \in Parts
       PROVE  SentIsTrue(u.parts[q], sheets'[u.of][q], stored'[q], sheetCount'.edits)
  <2>1. SentIsTrue(u.parts[q], sheets[u.of][q], stored[q], sheetCount.edits) /\ u.parts[q].at \in Nat
    BY DEF SheetInv, SheetShape, SheetSaves, SentParts
  <2>2. u.parts[q].outcome = "ok" => u.parts[q].at <= stored'[q].at
    <3> HAVE u.parts[q].outcome = "ok"
    <3>1. u.parts[q].at <= stored[q].at
      BY <2>1 DEF SentIsTrue
    <3> QED BY <1>12, <2>1, <3>1
  <2> QED BY <1>0, <1>7, <2>1, <2>2 DEF SentIsTrue
<1>15. ASSUME NEW q \in Parts PROVE SentIsTrue(t.parts[q], sheets'[t.of][q], stored'[q], sheetCount'.edits)
  <2>1. CASE q # p
    BY <1>5, <1>14, <2>1
  <2>2. CASE q = p
    <3> DEFINE part == sheets[s.of][p]
    <3>1. SentIsTrue(s.parts[p], part, stored[p], sheetCount.edits) /\ PartIsTrue(part, stored[p], sheetCount.edits)
          /\ part.told.at \in Nat /\ part.shown.id \in Int
      BY <1>0, <1>1, PartIs DEF SheetValues
    <3>2. outcome = "ok" => at <= stored'[p].at
      BY <1>4, <1>12
    <3>3. ASSUME part.quiet, outcome = "ok" PROVE at > part.told.at
      <4>1. s.parts[p].id = part.shown.id /\ part.shown.id >= 1 /\ part.told.at <= stored[p].at
        BY <3>1, <3>3 DEF SentIsTrue, PartIsTrue
      <4>2. s.parts[p].id # -1
        BY <3>1, <4>1
      <4>3. stored' = [stored EXCEPT ![p] = Value(s.parts[p].id, stored[p].at + 1)] /\ at = stored'[p].at
        BY <1>4, <3>3, <4>2, SheetConstants DEF StoredAs
      <4>4. at = stored[p].at + 1
        BY <1>0, <4>3 DEF Value
      <4> QED BY <1>0, <3>1, <4>1, <4>4
    <3> HIDE DEF part
    <3>4. sheets'[t.of][q] = part
      BY <1>0, <1>5, <2>2 DEF part
    <3> QED BY <1>5, <1>7, <2>2, <3>1, <3>2, <3>3, <3>4 DEF SentIsTrue
  <2> QED BY <2>1, <2>2
<1> QED BY <1>6, <1>11, <1>13, <1>14, <1>15 DEF SheetInv


(* Both answers of a save are in: what was stored is read again.            *)
LEMMA AnsweredKeeps ==
    ASSUME SheetInv, NEW s \in saves, SaveAnswered(s)
    PROVE  /\ SheetInv'
           /\ \A o \in Officers, p \in Parts : sheets'[o][p].edited = sheets[o][p].edited
<1> DEFINE o == s.of
           news(p) == Value(s.parts[p].id, s.parts[p].at)
           told(p) == IF s.parts[p].outcome = "ok" /\ news(p).at > sheets[o][p].told.at
                      THEN news(p) ELSE sheets[o][p].told
           part(p) == [sheets[o][p] EXCEPT !.told = told(p)]
           new(p) == IF ReadAgain(s, p) THEN ReadAnew(part(p)) ELSE part(p)
<1>0. /\ s \in SheetSaves /\ o \in Officers /\ \A p \in Parts : s.parts[p] \in SentParts
      /\ UNCHANGED <<stored, sheetCount>> /\ saves' = saves \ {s}
      /\ sheets \in [Officers -> [Parts -> SheetParts]]
      /\ saves \subseteq SheetSaves /\ IsFiniteSet(saves)
      /\ sheetCount \in SheetCounts /\ sheetCount.saves \in Nat
  BY DEF SheetInv, SheetShape, SheetSaves, SaveAnswered, SheetCounts
<1>1. sheets' = [sheets EXCEPT ![o] = [p \in Parts |-> new(p)]]
  BY DEF SaveAnswered
<1>2. ASSUME NEW p \in Parts
      PROVE  /\ told(p) \in SheetValues /\ told(p).at \in Nat /\ new(p) \in SheetParts /\ new(p).told = told(p)
             /\ new(p).shown = sheets[o][p].shown /\ new(p).edited = sheets[o][p].edited
             /\ new(p).quiet = sheets[o][p].quiet /\ new(p).read = sheets[o][p].read
             /\ IF s.parts[p].outcome = "ok" THEN new(p).reading = "asked" /\ ~new(p).failed
                ELSE new(p).reading = sheets[o][p].reading /\ new(p).failed = sheets[o][p].failed
  <2> DEFINE old == sheets[o][p]
             heard == told(p)
  <2>0. old \in SheetParts /\ old.told \in SheetValues /\ s.parts[p] \in SentParts
    BY <1>0, PartIs
  <2>1. news(p) \in SheetValues
    <3>1. s.parts[p].id \in -1 .. MaxSheetEdits /\ s.parts[p].at \in 0 .. (1 + MaxSheetSaves)
      BY <2>0 DEF SentParts
    <3> QED BY <3>1, SheetConstants
  <2>2. heard \in SheetValues /\ heard.at \in Nat
    <3>1. heard \in SheetValues
      BY <2>0, <2>1
    <3> QED BY <3>1 DEF SheetValues
  <2>3. new(p) = IF s.parts[p].outcome = "ok" THEN [[old EXCEPT !.told = heard] EXCEPT !.reading = "asked", !.failed = FALSE]
                 ELSE [old EXCEPT !.told = heard]
    BY DEF ReadAgain, ReadAnew
  <2> HIDE DEF told, new, news, part
  <2> DEFINE result == new(p)
  <2>4. result = IF s.parts[p].outcome = "ok" THEN [[old EXCEPT !.told = heard] EXCEPT !.reading = "asked", !.failed = FALSE]
                 ELSE [old EXCEPT !.told = heard]
    BY <2>3
  <2> HIDE DEF result, heard, old
  <2>5. /\ result \in SheetParts /\ result.told = heard
        /\ result.shown = old.shown /\ result.edited = old.edited
        /\ result.quiet = old.quiet /\ result.read = old.read
        /\ IF s.parts[p].outcome = "ok" THEN result.reading = "asked" /\ ~result.failed
           ELSE result.reading = old.reading /\ result.failed = old.failed
    BY <2>0, <2>2, <2>4 DEF SheetParts
  <2> QED BY <2>2, <2>5 DEF result, heard, old
<1>3. \A p \in Parts :
        \/ told(p) = sheets[o][p].told
           /\ (s.parts[p].outcome = "ok" => s.parts[p].at <= sheets[o][p].told.at)
        \/ told(p).id = s.parts[p].id /\ told(p).at = s.parts[p].at /\ s.parts[p].outcome = "ok"
  <2> TAKE p \in Parts
  <2>1. s.parts[p].id \in -1 .. MaxSheetEdits /\ s.parts[p].at \in 0 .. (1 + MaxSheetSaves)
    BY <1>0 DEF SentParts
  <2>2. news(p).id = s.parts[p].id /\ news(p).at = s.parts[p].at /\ s.parts[p].at \in Nat
    BY <2>1, SheetConstants
  <2>3. sheets[o][p].told.at \in Nat
    BY <1>0, PartIs
  <2> HIDE DEF news
  <2> QED BY <2>2, <2>3
<1> HIDE DEF news, told, part, new
<1>4. /\ sheets' \in [Officers -> [Parts -> SheetParts]]
      /\ \A p \in Parts : sheets'[o][p] = new(p)
      /\ \A d \in Officers : d = o \/ sheets'[d] = sheets[d]
  BY <1>0, <1>1, <1>2
<1> HIDE DEF o
<1>5. SheetShape'
  <2>1. IsFiniteSet(saves') /\ Cardinality(saves') <= Cardinality(saves) /\ saves' \subseteq SheetSaves
    BY <1>0, FS_Subset
  <2>2. Cardinality(saves') \in Nat /\ Cardinality(saves) \in Nat
    BY <1>0, <2>1, FS_CardinalityType
  <2>3. Cardinality(saves') <= sheetCount.saves
    BY <1>0, <2>1, <2>2 DEF SheetInv, SheetShape
  <2>4. ASSUME NEW p \in Parts PROVE stored[p].at + Cardinality(Unsent(saves', p)) <= 1 + sheetCount.saves
    <3>1. Unsent(saves, p) \subseteq saves /\ Unsent(saves', p) \subseteq Unsent(saves, p)
      BY <1>0 DEF Unsent
    <3>2. IsFiniteSet(Unsent(saves, p))
      BY <1>0, <3>1, FS_Subset
    <3>3. IsFiniteSet(Unsent(saves', p)) /\ Cardinality(Unsent(saves', p)) <= Cardinality(Unsent(saves, p))
      BY <3>1, <3>2, FS_Subset
    <3>4. Cardinality(Unsent(saves', p)) \in Nat /\ Cardinality(Unsent(saves, p)) \in Nat
      BY <3>2, <3>3, FS_CardinalityType
    <3>5. stored[p].at + Cardinality(Unsent(saves, p)) <= 1 + sheetCount.saves /\ stored[p].at \in Nat
      BY DEF SheetInv, SheetShape, SheetValues
    <3> QED BY <1>0, <3>3, <3>4, <3>5
  <2> QED BY <1>0, <1>4, <2>1, <2>3, <2>4 DEF SheetInv, SheetShape
<1>6. ASSUME NEW p \in Parts PROVE PartIsTrue(new(p), stored[p], sheetCount.edits)
  <2> DEFINE old == sheets[o][p]
             sent == s.parts[p]
  <2>1. /\ PartIsTrue(old, stored[p], sheetCount.edits) /\ SentIsTrue(sent, old, stored[p], sheetCount.edits)
        /\ old.told.at \in Nat /\ old.shown.at \in Nat /\ sent.at \in Nat /\ stored[p].at \in Nat
    <3>1. SentIsTrue(sent, old, stored[p], sheetCount.edits) /\ sent.at \in Nat
      BY <1>0 DEF SheetInv, SentParts, o
    <3> QED BY <1>0, <3>1, PartIs DEF o
  <2>2. told(p).at <= stored[p].at
    BY <1>3, <2>1 DEF PartIsTrue, SentIsTrue
  <2>3. sent.outcome # "ok" => told(p) = old.told
    BY <1>3
  <2>4. old.quiet /\ sent.outcome = "ok" => told(p).id = old.shown.id
    <3> HAVE old.quiet /\ sent.outcome = "ok"
    <3>1. sent.id = old.shown.id /\ (old.told.id # old.shown.id => sent.at > old.told.at)
      BY <2>1 DEF SentIsTrue
    <3>2. CASE told(p) = old.told /\ sent.at <= old.told.at
      BY <2>1, <3>1, <3>2
    <3>3. CASE told(p).id = sent.id
      BY <3>1, <3>3
    <3> QED BY <1>3, <3>2, <3>3
  <2> DEFINE result == new(p)
  <2>5. /\ result.told = told(p) /\ result.shown = old.shown /\ result.edited = old.edited
        /\ result.quiet = old.quiet /\ result.read = old.read
        /\ IF sent.outcome = "ok" THEN result.reading = "asked" /\ ~result.failed
           ELSE result.reading = old.reading /\ result.failed = old.failed
    BY <1>2
  <2> HIDE DEF result, old, sent
  <2>6. PartIsTrue(result, stored[p], sheetCount.edits)
    <3>1. CASE sent.outcome = "ok"
      BY <2>1, <2>2, <2>4, <2>5, <3>1 DEF PartIsTrue
    <3>2. CASE sent.outcome # "ok"
      BY <2>1, <2>2, <2>3, <2>5, <3>2 DEF PartIsTrue
    <3> QED BY <3>1, <3>2
  <2> QED BY <2>6 DEF result
<1>7. ASSUME NEW d \in Officers, NEW p \in Parts PROVE PartIsTrue(sheets'[d][p], stored'[p], sheetCount'.edits)
  <2>1. CASE d = o
    BY <1>0, <1>4, <1>6, <2>1
  <2>2. CASE d # o
    BY <1>0, <1>4, <2>2 DEF SheetInv
  <2> QED BY <2>1, <2>2
<1>8. ASSUME NEW u \in saves', NEW p \in Parts
      PROVE  SentIsTrue(u.parts[p], sheets'[u.of][p], stored'[p], sheetCount'.edits)
  <2>0. u \in saves /\ u.of \in Officers /\ SentIsTrue(u.parts[p], sheets[u.of][p], stored[p], sheetCount.edits)
    BY <1>0 DEF SheetInv, SheetSaves
  <2>1. CASE u.of # o
    BY <1>0, <1>4, <2>0, <2>1
  <2>2. CASE u.of = o
    <3> DEFINE old == sheets[o][p]
               result == new(p)
    <3>1. SentIsTrue(s.parts[p], old, stored[p], sheetCount.edits)
      BY DEF SheetInv, o
    <3>2. result.told = told(p) /\ result.shown = old.shown /\ result.quiet = old.quiet /\ sheets'[u.of][p] = result
      BY <1>2, <1>4, <2>2
    <3>3. old.quiet => told(p) = old.told \/ told(p).id = old.shown.id
      BY <1>3, <3>1 DEF SentIsTrue
    <3>4. SentIsTrue(u.parts[p], old, stored[p], sheetCount.edits)
      BY <2>0, <2>2
    <3> HIDE DEF result, old
    <3> QED BY <1>0, <3>2, <3>3, <3>4 DEF SentIsTrue
  <2> QED BY <2>1, <2>2
<1>9. ASSUME NEW d \in Officers, NEW p \in Parts PROVE sheets'[d][p].edited = sheets[d][p].edited
  BY <1>2, <1>4
<1> QED BY <1>5, <1>7, <1>8, <1>9 DEF SheetInv

(* Every step keeps the invariant.                                          *)
LEMMA SheetKeeps == SheetInv /\ [SheetNext]_sheetVars => SheetInv'
<1> SUFFICES ASSUME SheetInv, [SheetNext]_sheetVars PROVE SheetInv'
  OBVIOUS
<1>1. CASE UNCHANGED sheetVars
  BY <1>1 DEF sheetVars, SheetInv, SheetShape
<1>2. CASE SheetNext
  BY <1>2, ReadsKeep, SheetEditsKeep, SaveSheetKeeps, PatchKeeps, AnsweredKeeps DEF SheetNext
<1> QED BY <1>1, <1>2

(* A quiet edit leaves the sheet by a read alone, and after it was stored.  *)
LEMMA QuietLeaves ==
    ASSUME SheetInv, SheetNext, NEW o \in Officers, NEW p \in Parts, sheets[o][p].quiet, ~sheets'[o][p].edited
    PROVE  sheets[o][p].told.id = sheets[o][p].shown.id
<1>0. /\ sheets \in [Officers -> [Parts -> SheetParts]] /\ sheets[o][p] \in SheetParts
      /\ sheets[o][p].edited /\ PartIsTrue(sheets[o][p], stored[p], sheetCount.edits)
  BY PartIs DEF PartIsTrue
<1>1. ASSUME NEW d \in Officers, NEW q \in Parts, ServePart(d, q) PROVE FALSE
  BY <1>0, <1>1 DEF ServePart, SheetParts
<1>2. ASSUME NEW d \in Officers, NEW q \in Parts, PartArrives(d, q)
      PROVE  sheets[o][p].told.id = sheets[o][p].shown.id
  <2>1. d = o /\ q = p
    BY <1>0, <1>2 DEF PartArrives
  <2>2. sheets[o][p].reading = "served"
    BY <1>2, <2>1 DEF PartArrives
  <2> QED BY <1>0, <2>2 DEF PartIsTrue
<1>3. ASSUME NEW d \in Officers, NEW q \in Parts, PartFails(d, q) PROVE FALSE
  <2>1. sheets' = [sheets EXCEPT ![d][q] = [sheets[d][q] EXCEPT !.reading = "none", !.read = Unread, !.failed = TRUE]]
    BY <1>3 DEF PartFails
  <2>2. sheets[d][q] \in SheetParts
    BY <1>0
  <2>3. [sheets[d][q] EXCEPT !.reading = "none", !.read = Unread, !.failed = TRUE].edited = sheets[d][q].edited
    BY <2>2 DEF SheetParts
  <2> QED BY <1>0, <2>1, <2>3
<1>4. ASSUME NEW d \in Officers, NEW q \in Parts, EditPart(d, q) PROVE FALSE
  <2> DEFINE part == [sheets[d][q] EXCEPT !.shown = Value(sheetCount.edits + 1, 0), !.edited = TRUE,
                                          !.quiet = ~Underway(d, q)]
  <2>1. sheets' = [sheets EXCEPT ![d][q] = part]
    BY <1>4 DEF EditPart
  <2>2. sheets[d][q] \in SheetParts
    BY <1>0
  <2>3. part.edited
    BY <2>2 DEF SheetParts
  <2> HIDE DEF part
  <2> QED BY <1>0, <2>1, <2>3
<1>5. ASSUME NEW d \in Officers, ChangeSheetDate(d) PROVE FALSE
  <2> DEFINE part == [ReadAnew(sheets[d]["periods"]) EXCEPT !.quiet = FALSE]
  <2>1. sheets' = [sheets EXCEPT ![d]["periods"] = part]
    BY <1>5 DEF ChangeSheetDate
  <2>2. sheets[d]["periods"] \in SheetParts
    BY <1>0 DEF Parts
  <2>3. part.edited = sheets[d]["periods"].edited
    BY <2>2 DEF SheetParts, ReadAnew
  <2> HIDE DEF part
  <2> QED BY <1>0, <2>1, <2>3
<1>6. ASSUME UNCHANGED sheets PROVE FALSE
  BY <1>0, <1>6
<1>7. ASSUME NEW s \in saves, SaveAnswered(s) PROVE FALSE
  BY <1>0, <1>7, AnsweredKeeps
<1> QED BY <1>1, <1>2, <1>3, <1>4, <1>5, <1>6, <1>7 DEF SheetNext, SaveSheet, PatchPart

(* What the invariant says of the sheets.                                   *)
LEMMA SheetHolds == SheetInv => SheetTypeOK /\ OwnSavesAreShown
<1> SUFFICES ASSUME SheetInv PROVE SheetTypeOK /\ OwnSavesAreShown
  OBVIOUS
<1>1. ASSUME NEW o \in Officers, NEW p \in Parts
      PROVE  /\ sheets[o][p].shown.id \in -1 .. sheetCount.edits
             /\ sheets[o][p].edited => sheets[o][p].shown.at = 0
             /\ sheets[o][p].quiet => sheets[o][p].edited
             /\ sheets[o][p].reading \in {"none", "asked", "served"}
             /\ sheets[o][p].told.at <= stored[p].at
             /\ \/ sheets[o][p].edited \/ sheets[o][p].reading # "none" \/ sheets[o][p].failed
                \/ sheets[o][p].shown.at >= sheets[o][p].told.at
  <2>1. sheets[o][p] \in SheetParts /\ PartIsTrue(sheets[o][p], stored[p], sheetCount.edits)
        /\ sheets[o][p].shown \in SheetValues /\ sheetCount.edits \in Nat
    BY PartIs
  <2>2. sheets[o][p].shown.id \in -1 .. sheetCount.edits
    BY <2>1 DEF SheetValues, PartIsTrue
  <2> QED BY <2>1, <2>2 DEF PartIsTrue, SheetParts
<1>2. ASSUME NEW p \in Parts
      PROVE  stored[p].id \in -1 .. sheetCount.edits /\ stored[p].at \in 1 .. (1 + MaxSheetSaves)
  <2>1. stored[p] \in SheetValues /\ stored[p].at >= 1 /\ stored[p].id <= sheetCount.edits /\ sheetCount.edits \in Nat
    BY DEF SheetInv, SheetShape, SheetCounts
  <2> QED BY <2>1, SheetConstants DEF SheetValues
<1>3. stored["periods"].id >= 0 /\ Cardinality(saves) <= sheetCount.saves
  BY DEF SheetInv, SheetShape, Parts
<1> QED BY <1>1, <1>2, <1>3 DEF SheetTypeOK, OwnSavesAreShown

(* However many sheets are saved, read and edited over each other, and      *)
(* whichever answers are lost: a sheet that is at rest shows what its       *)
(* administrator was told to have stored, and an edit that nothing was      *)
(* under way beside leaves it only when it was stored.                      *)
THEOREM SheetSoundness == SheetSpec => SheetIsTrue
<1>1. SheetInv /\ [SheetNext]_sheetVars =>
        [\A o \in Officers, p \in Parts :
           LET old == sheets[o][p]  new == sheets'[o][p] IN
           old.quiet /\ ~new.edited => old.told.id = old.shown.id]_sheetVars
  BY QuietLeaves
<1> QED BY SheetStarts, SheetKeeps, SheetHolds, <1>1, PTL DEF SheetSpec, SheetIsTrue, QuietEditsSurvive

(***************************************************************************)
(* The administrator's desk: selections, reads, drafts, prompts, orders.   *)
(***************************************************************************)

(* What the desk, its read and its requests may hold.                       *)
Someone == Learners \cup {NoOne}
DeskDetails == [of : Someone, version : 0 .. MaxVersion, restricted : BOOLEAN]
DeskStates == [section : {"students", "settings"}, selected : Someone, detail : DeskDetails, failed : BOOLEAN]
DeskReads == [of : Someone, read : BOOLEAN, version : 0 .. MaxVersion, restricted : BOOLEAN]
DeskOrders == [of : Learners, kind : {"restrict", "release"}, reason : Someone,
               status : {"RESTRICTED", "BANNED"}, refreshes : BOOLEAN, prompted : BOOLEAN,
               number : 0 .. MaxOrders, outcome : {"sent", "ok", "lost", "refused"},
               version : 0 .. MaxVersion]

DeskShape ==
    /\ restricted \in [Learners -> BOOLEAN]
    /\ version \in [Learners -> 0 .. MaxVersion]
    /\ answered \in [Learners -> 0 .. MaxVersion]
    /\ desk \in DeskStates
    /\ fetching \in DeskReads
    /\ drafts \in [Learners -> Draft]
    /\ prompt \in {"none", "open", "busy"}
    /\ sentOrders \in 0 .. MaxOrders
    /\ orders \in SUBSET DeskOrders
    /\ IsFiniteSet(orders) /\ Cardinality(orders) <= sentOrders

(* The read under way is of the student selected, details are only shown    *)
(* while somebody is, and a question only stands over somebody's details.   *)
DeskFollowsSelection ==
    /\ fetching.of \in {NoOne, desk.selected}
    /\ fetching.read => fetching.of # NoOne
    /\ desk.selected = NoOne => desk.detail.of = NoOne
    /\ prompt # "none" => desk.detail.of # NoOne

(* No answer is newer than the server, and a read that was served after an  *)
(* answer is not older than it.                                             *)
AnswersAreOld ==
    /\ \A s \in Learners : answered[s] <= version[s]
    /\ fetching.read => answered[fetching.of] <= fetching.version

(* Drafts hold a reason that was written about their own student.           *)
DraftsAreOwn == \A s \in Learners : drafts[s].reason \in {NoOne, s}

(* An order in itself: its number was given out, it carries its student's   *)
(* reason, and an accepted one has the version it made.                     *)
OrderIsTrue(o) ==
    /\ o.number < sentOrders
    /\ o.kind = "restrict" => o.reason = o.of
    /\ o.outcome = "ok" => o.version > 0 /\ o.version <= version[o.of]

(* The dialog waits for one order, and only while it is busy.               *)
OneDialog ==
    /\ prompt = "busy" <=> \E o \in orders : o.prompted
    /\ \A o1, o2 \in orders : (o1.prompted /\ o2.prompted) \/ o1.number = o2.number => o1 = o2

(* The desk's inductive invariant.                                          *)
DeskInv ==
    /\ DeskShape
    /\ DeskFollowsSelection
    /\ AnswersAreOld
    /\ DraftsAreOwn
    /\ \A o \in orders : OrderIsTrue(o)
    /\ OneDialog
    /\ OwnDeedsAreShown

(* The invariant holds in the initial states.                               *)
LEMMA DeskStarts == DeskInit => DeskInv
<1> SUFFICES ASSUME DeskInit PROVE DeskInv
  OBVIOUS
<1>1. MaxVersion \in Nat /\ MaxOrders \in Nat /\ 0 \in 0 .. MaxVersion /\ 0 \in 0 .. MaxOrders
  BY DeskAssumption DEF DeskAssumption
<1>2. DeskShape
  <2>1. NoDetail \in DeskDetails /\ NoFetch \in DeskReads /\ DefaultDraft \in Draft
    BY <1>1 DEF NoDetail, DeskDetails, NoFetch, DeskReads, DefaultDraft, Draft, Someone
  <2>2. desk \in DeskStates
    BY <2>1 DEF DeskInit, DeskStates, Someone
  <2>3. IsFiniteSet({}) /\ Cardinality({}) = 0
    BY FS_EmptySet
  <2>4. version \in [Learners -> 0 .. MaxVersion] /\ answered \in [Learners -> 0 .. MaxVersion]
    BY <1>1 DEF DeskInit
  <2> QED BY <1>1, <2>1, <2>2, <2>3, <2>4 DEF DeskInit, DeskShape
<1>3. DeskFollowsSelection
  BY DEF DeskInit, NoFetch, NoDetail, DeskFollowsSelection
<1>4. AnswersAreOld
  BY DEF DeskInit, NoFetch, AnswersAreOld
<1>5. DraftsAreOwn
  BY DEF DeskInit, DefaultDraft, DraftsAreOwn
<1>6. OneDialog /\ OwnDeedsAreShown /\ \A o \in orders : OrderIsTrue(o)
  BY DEF DeskInit, OneDialog, OwnDeedsAreShown, NoDetail, ShowsDetails
<1> QED BY <1>2, <1>3, <1>4, <1>5, <1>6 DEF DeskInv

(* The read that the effect starts is one of the selected student.          *)
LEMMA FetchIs ==
    ASSUME NEW d \in DeskStates
    PROVE  /\ Fetch(d) \in DeskReads
           /\ Fetch(d).of = IF d.section = "students" /\ d.selected # NoOne THEN d.selected ELSE NoOne
           /\ ~Fetch(d).read
<1>1. 0 \in 0 .. MaxVersion /\ d.selected \in Someone /\ NoOne \in Someone
  BY DeskAssumption DEF DeskAssumption, DeskStates, Someone
<1> QED BY <1>1 DEF Fetch, NoFetch, DeskReads

(* Steps that only go elsewhere on the desk keep the invariant: a read of   *)
(* whoever is selected then starts anew.                                    *)
LEMMA GoesKeep ==
    ASSUME DeskInv, NEW d \in DeskStates, Goes(d), UNCHANGED prompt, AtHand,
           d.selected = NoOne => d.detail.of = NoOne
    PROVE  DeskInv'
<1>0. /\ desk' = [d EXCEPT !.failed = FALSE] /\ fetching' = Fetch(d)
      /\ UNCHANGED <<restricted, version, drafts, orders, sentOrders, answered, prompt>>
      /\ prompt = "none"
  BY DEF Goes, AtHand
<1>1. desk' \in DeskStates /\ desk'.section = d.section /\ desk'.selected = d.selected /\ desk'.detail = d.detail
  BY <1>0 DEF DeskStates
<1>2. /\ fetching' \in DeskReads /\ ~fetching'.read
      /\ fetching'.of = IF d.section = "students" /\ d.selected # NoOne THEN d.selected ELSE NoOne
  BY <1>0, FetchIs
<1>3. DeskShape'
  BY <1>0, <1>1, <1>2 DEF DeskInv, DeskShape
<1>4. DeskFollowsSelection'
  BY <1>0, <1>1, <1>2 DEF DeskFollowsSelection
<1>5. AnswersAreOld'
  BY <1>0, <1>2 DEF DeskInv, AnswersAreOld
<1>6. DraftsAreOwn' /\ OneDialog' /\ \A o \in orders' : OrderIsTrue(o)'
  BY <1>0 DEF DeskInv, DraftsAreOwn, OneDialog, OrderIsTrue
<1>7. OwnDeedsAreShown'
  BY <1>0, <1>1, <1>2 DEF OwnDeedsAreShown, ShowsDetails
<1> QED BY <1>3, <1>4, <1>5, <1>6, <1>7 DEF DeskInv

(* Selecting, closing and changing the section keep the invariant.          *)
LEMMA MovesKeep ==
    ASSUME DeskInv, (\E s \in Learners : SelectStudent(s)) \/ CloseDetails \/ (\E x \in {"students", "settings"} : OpenSection(x))
    PROVE  DeskInv'
<1>0. desk \in DeskStates /\ (desk.selected = NoOne => desk.detail.of = NoOne) /\ NoOne \in Someone
  BY DEF DeskInv, DeskShape, DeskFollowsSelection, Someone
<1>1. ASSUME NEW s \in Learners, SelectStudent(s) PROVE DeskInv'
  <2> DEFINE d == [desk EXCEPT !.selected = s]
  <2>1. d \in DeskStates /\ d.selected = s
    BY <1>0 DEF DeskStates, Someone
  <2>2. s # NoOne
    BY DeskAssumption DEF DeskAssumption
  <2>3. Goes(d) /\ AtHand /\ UNCHANGED prompt
    BY <1>1 DEF SelectStudent
  <2> HIDE DEF d
  <2> QED BY <2>1, <2>2, <2>3, GoesKeep
<1>2. ASSUME CloseDetails PROVE DeskInv'
  <2> DEFINE d == [desk EXCEPT !.selected = NoOne, !.detail = NoDetail]
  <2>1. NoDetail \in DeskDetails /\ NoDetail.of = NoOne
    BY DeskAssumption DEF DeskAssumption, NoDetail, DeskDetails, Someone
  <2>2. d \in DeskStates /\ d.detail = NoDetail
    BY <1>0, <2>1 DEF DeskStates
  <2>3. Goes(d) /\ AtHand /\ UNCHANGED prompt
    BY <1>2 DEF CloseDetails
  <2> HIDE DEF d
  <2> QED BY <2>1, <2>2, <2>3, GoesKeep
<1>3. ASSUME NEW x \in {"students", "settings"}, OpenSection(x) PROVE DeskInv'
  <2> DEFINE d == [desk EXCEPT !.section = x]
  <2>1. d \in DeskStates /\ d.detail = desk.detail /\ d.selected = desk.selected
    BY <1>0 DEF DeskStates
  <2>3. Goes(d) /\ AtHand /\ UNCHANGED prompt
    BY <1>3 DEF OpenSection
  <2> HIDE DEF d
  <2> QED BY <1>0, <2>1, <2>3, GoesKeep
<1> QED BY <1>1, <1>2, <1>3

(* The read of the details, served, arrived or failed, keeps the invariant. *)
LEMMA DetailsKeep ==
    ASSUME DeskInv, ServeDetails \/ DetailsArrive \/ DetailsFail
    PROVE  DeskInv'
<1>0. /\ desk \in DeskStates /\ fetching \in DeskReads
      /\ fetching.of \in Learners \/ fetching.of = NoOne
      /\ NoFetch \in DeskReads /\ NoFetch.of = NoOne /\ ~NoFetch.read
  BY DeskAssumption DEF DeskAssumption, DeskInv, DeskShape, DeskReads, Someone, NoFetch
<1>1. /\ UNCHANGED <<restricted, version, drafts, prompt, orders, sentOrders, answered>>
  BY DEF ServeDetails, DetailsArrive, DetailsFail
<1>2. DraftsAreOwn' /\ OneDialog' /\ \A o \in orders' : OrderIsTrue(o)'
  BY <1>1 DEF DeskInv, DraftsAreOwn, OneDialog, OrderIsTrue
<1>3. CASE ServeDetails
  <2> DEFINE now == version[fetching.of]
             is == restricted[fetching.of]
  <2>1. now \in 0 .. MaxVersion /\ is \in BOOLEAN /\ answered[fetching.of] <= now /\ fetching.of # NoOne
    BY <1>0, <1>3 DEF ServeDetails, DeskInv, DeskShape, AnswersAreOld
  <2>2. fetching' = [fetching EXCEPT !.read = TRUE, !.version = now, !.restricted = is] /\ UNCHANGED desk
    BY <1>3 DEF ServeDetails
  <2> HIDE DEF now, is
  <2>3. /\ fetching' \in DeskReads /\ fetching'.of = fetching.of /\ fetching'.version = now
    BY <1>0, <2>1, <2>2 DEF DeskReads
  <2>4. DeskShape'
    BY <1>1, <2>2, <2>3 DEF DeskInv, DeskShape
  <2>5. DeskFollowsSelection'
    BY <1>1, <2>1, <2>2, <2>3 DEF DeskInv, DeskFollowsSelection
  <2>6. AnswersAreOld'
    BY <1>1, <2>1, <2>3 DEF DeskInv, AnswersAreOld
  <2>7. OwnDeedsAreShown'
    BY <2>1, <2>3 DEF OwnDeedsAreShown
  <2> QED BY <1>2, <2>4, <2>5, <2>6, <2>7 DEF DeskInv
<1>4. CASE DetailsArrive
  <2> DEFINE new == [of |-> fetching.of, version |-> fetching.version, restricted |-> fetching.restricted]
  <2>1. new \in DeskDetails /\ new.of = fetching.of /\ new.version = fetching.version
    BY <1>0 DEF DeskReads, DeskDetails
  <2>2. desk' = [desk EXCEPT !.detail = new] /\ fetching' = NoFetch /\ fetching.read
    BY <1>4 DEF DetailsArrive
  <2> HIDE DEF new
  <2>3. desk' \in DeskStates /\ desk'.detail = new /\ desk'.selected = desk.selected
    BY <1>0, <2>1, <2>2 DEF DeskStates
  <2>4. DeskShape'
    BY <1>0, <1>1, <2>2, <2>3 DEF DeskInv, DeskShape
  <2>5. fetching.of # NoOne /\ fetching.of = desk.selected /\ answered[fetching.of] <= fetching.version
    BY <2>2 DEF DeskInv, DeskFollowsSelection, AnswersAreOld
  <2>6. DeskFollowsSelection'
    BY <1>0, <1>1, <2>1, <2>2, <2>3, <2>5 DEF DeskFollowsSelection
  <2>7. AnswersAreOld'
    BY <1>0, <1>1, <2>2 DEF DeskInv, AnswersAreOld
  <2>8. OwnDeedsAreShown'
    <3>1. desk'.detail.of = desk'.selected
      BY <2>1, <2>3, <2>5
    <3>2. answered'[desk'.detail.of] <= desk'.detail.version
      BY <1>1, <2>1, <2>3, <2>5
    <3>3. answered'[desk'.detail.of] \in Int /\ desk'.detail.version \in Int
      <4>1. fetching.of \in Learners /\ answered \in [Learners -> 0 .. MaxVersion]
        BY <1>0, <2>5 DEF DeskInv, DeskShape
      <4> QED BY <1>0, <1>1, <2>1, <2>3, <4>1 DEF DeskReads
    <3>4. desk'.detail.version >= answered'[desk'.detail.of]
      BY <3>2, <3>3
    <3> QED BY <3>1, <3>4 DEF OwnDeedsAreShown
  <2> QED BY <1>2, <2>4, <2>6, <2>7, <2>8 DEF DeskInv
<1>5. CASE DetailsFail
  <2>2. desk' = [desk EXCEPT !.failed = TRUE] /\ fetching' = NoFetch
    BY <1>5 DEF DetailsFail
  <2>3. desk' \in DeskStates /\ desk'.detail = desk.detail /\ desk'.selected = desk.selected /\ desk'.failed
    BY <1>0, <2>2 DEF DeskStates
  <2>4. DeskShape'
    BY <1>0, <1>1, <2>2, <2>3 DEF DeskInv, DeskShape
  <2>6. DeskFollowsSelection'
    BY <1>0, <1>1, <2>2, <2>3 DEF DeskInv, DeskFollowsSelection
  <2>7. AnswersAreOld'
    BY <1>0, <1>1, <2>2 DEF DeskInv, AnswersAreOld
  <2>8. OwnDeedsAreShown'
    BY <2>3 DEF OwnDeedsAreShown
  <2> QED BY <1>2, <2>4, <2>6, <2>7, <2>8 DEF DeskInv
<1> QED BY <1>3, <1>4, <1>5

(* Writing a draft keeps the invariant, and never empties a reason.         *)
LEMMA EditDraftKeeps ==
    ASSUME DeskInv, EditDraft
    PROVE  DeskInv' /\ \A s \in Learners : drafts[s].reason # NoOne => drafts'[s].reason # NoOne
<1>0. /\ UNCHANGED <<restricted, version, desk, fetching, prompt, orders, sentOrders, answered>>
      /\ desk.detail.of # NoOne /\ ActsOn = desk.detail.of
  BY DEF EditDraft, ShowsDetails, ActsOn
<1>1. desk.detail.of \in Learners /\ desk.detail.of # NoOne
  BY <1>0 DEF DeskInv, DeskShape, DeskStates, DeskDetails, Someone
<1> DEFINE of == desk.detail.of
<1>2. PICK patch \in {[drafts[of] EXCEPT !.reason = of]}
             \cup {[drafts[of] EXCEPT !.status = st] : st \in {"RESTRICTED", "BANNED"}} :
        drafts' = [drafts EXCEPT ![of] = patch]
  BY <1>0 DEF EditDraft
<1> HIDE DEF of
<1>3. drafts \in [Learners -> Draft] /\ drafts[of].reason \in {NoOne, of} /\ of \in Learners /\ of # NoOne
  BY <1>1 DEF DeskInv, DeskShape, DraftsAreOwn, of
<1>4. patch \in Draft /\ patch.reason \in {NoOne, of} /\ (drafts[of].reason # NoOne => patch.reason # NoOne)
  <2>1. drafts[of] \in Draft
    BY <1>3
  <2>2. CASE patch = [drafts[of] EXCEPT !.reason = of]
    BY <1>3, <2>1, <2>2 DEF Draft
  <2>3. ASSUME NEW st \in {"RESTRICTED", "BANNED"}, patch = [drafts[of] EXCEPT !.status = st]
        PROVE  patch \in Draft /\ patch.reason = drafts[of].reason
    BY <2>1, <2>3 DEF Draft
  <2> QED BY <1>2, <1>3, <2>2, <2>3
<1>5. drafts' \in [Learners -> Draft] /\ \A s \in Learners : drafts'[s] = IF s = of THEN patch ELSE drafts[s]
  BY <1>2, <1>3, <1>4
<1>6. DraftsAreOwn'
  BY <1>3, <1>4, <1>5 DEF DeskInv, DraftsAreOwn
<1>7. \A s \in Learners : drafts[s].reason # NoOne => drafts'[s].reason # NoOne
  BY <1>3, <1>4, <1>5
<1>8. DeskShape'
  BY <1>0, <1>5 DEF DeskInv, DeskShape
<1>9. DeskFollowsSelection' /\ AnswersAreOld' /\ OneDialog' /\ \A o \in orders' : OrderIsTrue(o)'
  BY <1>0 DEF DeskInv, DeskFollowsSelection, AnswersAreOld, OneDialog, OrderIsTrue
<1>10. OwnDeedsAreShown'
  BY <1>0 DEF DeskInv, OwnDeedsAreShown, ShowsDetails
<1> QED BY <1>6, <1>7, <1>8, <1>9, <1>10 DEF DeskInv

(* A finite set with one more element has at most one more.                 *)
LEMMA OneOrderMore ==
    ASSUME NEW S, IsFiniteSet(S), NEW x
    PROVE  IsFiniteSet(S \cup {x}) /\ Cardinality(S \cup {x}) <= Cardinality(S) + 1 /\ Cardinality(S) \in Nat
<1>1. IsFiniteSet(S \cup {x}) /\ Cardinality(S \cup {x}) = IF x \in S THEN Cardinality(S) ELSE Cardinality(S) + 1
  BY FS_AddElement
<1>2. Cardinality(S) \in Nat
  BY FS_CardinalityType
<1> QED BY <1>1, <1>2

(* What an order of the desk is when it leaves.                             *)
LEMMA OrderIs ==
    ASSUME DeskInv, NEW s \in Learners, NEW kind \in {"restrict", "release"}, sentOrders < MaxOrders
    PROVE  LET o == Order(kind, s) IN
           /\ o \in DeskOrders /\ o.of = s /\ o.kind = kind /\ o.reason = drafts[s].reason
           /\ o.prompted = (prompt = "open") /\ o.number = sentOrders /\ o.outcome = "sent"
<1>1. drafts[s] \in Draft /\ sentOrders \in 0 .. MaxOrders /\ 0 \in 0 .. MaxVersion
  BY DeskAssumption DEF DeskAssumption, DeskInv, DeskShape
<1>2. drafts[s].reason \in Someone /\ drafts[s].status \in {"RESTRICTED", "BANNED"}
  BY <1>1 DEF Draft, Someone
<1> QED BY <1>1, <1>2 DEF Order, DeskOrders

(* An order that is dispatched is one more, with a number of its own.       *)
LEMMA DispatchKeeps ==
    ASSUME DeskInv, NEW o \in DeskOrders, Dispatched(o), o.number = sentOrders, o.outcome = "sent",
           o.kind = "restrict" => o.reason = o.of,
           o.prompted = (prompt = "open"),
           UNCHANGED <<restricted, version, desk, fetching, drafts, answered>>,
           prompt' = IF o.prompted THEN "busy" ELSE prompt
    PROVE  DeskInv'
<1>0. /\ sentOrders < MaxOrders /\ orders' = orders \cup {o} /\ sentOrders' = sentOrders + 1
      /\ sentOrders \in 0 .. MaxOrders /\ MaxOrders \in Nat /\ orders \in SUBSET DeskOrders
      /\ \A m \in orders : OrderIsTrue(m) /\ m.number \in 0 .. MaxOrders
      /\ prompt \in {"none", "open", "busy"}
  BY DeskAssumption DEF DeskAssumption, Dispatched, DeskInv, DeskShape, DeskOrders
<1>1. DeskShape'
  <2>1. IsFiniteSet(orders') /\ Cardinality(orders') <= sentOrders'
    <3>1. IsFiniteSet(orders) /\ Cardinality(orders) <= sentOrders
      BY DEF DeskInv, DeskShape
    <3>2. IsFiniteSet(orders \cup {o}) /\ Cardinality(orders \cup {o}) <= Cardinality(orders) + 1
          /\ Cardinality(orders) \in Nat
      BY <3>1, OneOrderMore
    <3>3. Cardinality(orders \cup {o}) \in Nat
      BY <3>2, FS_CardinalityType
    <3> QED BY <1>0, <3>1, <3>2, <3>3
  <2>2. sentOrders' \in 0 .. MaxOrders /\ orders' \in SUBSET DeskOrders
    BY <1>0
  <2>3. prompt' \in {"none", "open", "busy"}
    BY <1>0
  <2> QED BY <2>1, <2>2, <2>3 DEF DeskInv, DeskShape
<1>2. DeskFollowsSelection'
  BY <1>0 DEF DeskInv, DeskFollowsSelection
<1>3. AnswersAreOld' /\ DraftsAreOwn'
  BY DEF DeskInv, AnswersAreOld, DraftsAreOwn
<1>4. ASSUME NEW m \in orders' PROVE OrderIsTrue(m)'
  <2>1. CASE m \in orders
    BY <1>0, <2>1 DEF OrderIsTrue
  <2>2. CASE m = o
    BY <1>0, <2>2 DEF OrderIsTrue
  <2> QED BY <1>0, <1>4, <2>1, <2>2
<1>5. OneDialog'
  <2>1. OneDialog
    BY DEF DeskInv
  <2>2. \A m \in orders : m.number < o.number /\ m.number \in Int /\ o.number \in Int
    BY <1>0 DEF OrderIsTrue
  <2>3. o.prompted => prompt = "open" /\ \A m \in orders : ~m.prompted
    BY <2>1 DEF OneDialog
  <2>4. o.prompted \in BOOLEAN
    BY DEF DeskOrders
  <2>5. (prompt = "busy" <=> \E m \in orders : m.prompted)'
    <3>1. CASE o.prompted
      BY <1>0, <3>1
    <3>2. CASE ~o.prompted
      BY <1>0, <2>1, <3>2 DEF OneDialog
    <3> QED BY <3>1, <3>2
  <2>6. ASSUME NEW o1 \in orders', NEW o2 \in orders', (o1.prompted /\ o2.prompted) \/ o1.number = o2.number
        PROVE  o1 = o2
    <3>1. CASE o1 \in orders /\ o2 \in orders
      BY <2>1, <2>6, <3>1 DEF OneDialog
    <3>2. CASE o1 \in orders /\ o2 = o
      BY <2>2, <2>3, <2>6, <3>2
    <3>3. CASE o1 = o /\ o2 \in orders
      BY <2>2, <2>3, <2>6, <3>3
    <3> QED BY <1>0, <2>6, <3>1, <3>2, <3>3
  <2> QED BY <2>5, <2>6 DEF OneDialog
<1>6. OwnDeedsAreShown'
  BY DEF DeskInv, OwnDeedsAreShown, ShowsDetails
<1> QED BY <1>1, <1>2, <1>3, <1>4, <1>5, <1>6 DEF DeskInv

(* A step of the prompt alone keeps the invariant.                          *)
LEMMA PromptKeeps ==
    ASSUME DeskInv, UNCHANGED <<restricted, version, desk, fetching, drafts, orders, sentOrders, answered>>,
           prompt # "busy", prompt' \in {"none", "open"},
           prompt' = "open" => desk.detail.of # NoOne
    PROVE  DeskInv'
<1>1. DeskShape'
  BY DEF DeskInv, DeskShape
<1>2. DeskFollowsSelection' /\ AnswersAreOld' /\ DraftsAreOwn' /\ \A o \in orders' : OrderIsTrue(o)'
  BY DEF DeskInv, DeskFollowsSelection, AnswersAreOld, DraftsAreOwn, OrderIsTrue
<1>3. OneDialog'
  BY DEF DeskInv, OneDialog
<1>4. OwnDeedsAreShown'
  BY DEF DeskInv, OwnDeedsAreShown, ShowsDetails
<1> QED BY <1>1, <1>2, <1>3, <1>4 DEF DeskInv

(* Submitting the form, and answering or dismissing its question, keeps the *)
(* invariant: what is sent is the draft of the student of the details.      *)
LEMMA FormKeeps ==
    ASSUME DeskInv, Submit \/ ConfirmBan \/ DismissBan
    PROVE  DeskInv'
<1>0. UNCHANGED <<restricted, version, desk, fetching, drafts, answered>>
  BY DEF Submit, ConfirmBan, DismissBan
<1>1. Submit \/ ConfirmBan => ActsOn \in Learners /\ desk.detail.of # NoOne
  BY DEF DeskInv, DeskShape, DeskStates, DeskDetails, Someone, Submit, ConfirmBan, ActsOn, ShowsDetails, DeskFollowsSelection
<1>2. CASE DismissBan
  BY <1>0, <1>2, PromptKeeps DEF DismissBan
<1>3. ASSUME ActsOn \in Learners, Apply(ActsOn), drafts[ActsOn].reason # NoOne,
             prompt' = IF prompt = "open" THEN "busy" ELSE prompt
      PROVE  DeskInv'
  <2> DEFINE s == ActsOn
             o == Order("restrict", s)
  <2>1. Dispatched(o) /\ s \in Learners
    BY <1>3 DEF Apply
  <2>2. sentOrders < MaxOrders
    BY <2>1 DEF Dispatched
  <2>3. /\ o \in DeskOrders /\ o.of = s /\ o.reason = drafts[s].reason
        /\ o.prompted = (prompt = "open") /\ o.number = sentOrders /\ o.outcome = "sent"
    BY <2>1, <2>2, OrderIs
  <2>4. o.reason = o.of
    BY <1>3, <2>1, <2>3 DEF DeskInv, DraftsAreOwn
  <2>5. prompt' = IF o.prompted THEN "busy" ELSE prompt
    BY <1>3, <2>3
  <2> HIDE DEF o, s
  <2> QED BY <1>0, <2>1, <2>3, <2>4, <2>5, DispatchKeeps
<1>4. ASSUME ActsOn \in Learners, UNCHANGED <<orders, sentOrders, prompt>>
      PROVE  DeskInv'
  <2>1. CASE prompt = "busy"
    <3>1. DeskShape'
      BY <1>0, <1>4 DEF DeskInv, DeskShape
    <3>2. DeskFollowsSelection' /\ AnswersAreOld' /\ DraftsAreOwn' /\ \A o \in orders' : OrderIsTrue(o)'
      BY <1>0, <1>4 DEF DeskInv, DeskFollowsSelection, AnswersAreOld, DraftsAreOwn, OrderIsTrue
    <3>3. OneDialog'
      BY <1>0, <1>4 DEF DeskInv, OneDialog
    <3>4. OwnDeedsAreShown'
      BY <1>0, <1>4 DEF DeskInv, OwnDeedsAreShown, ShowsDetails
    <3> QED BY <3>1, <3>2, <3>3, <3>4 DEF DeskInv
  <2>2. CASE prompt # "busy"
    <3>1. prompt \in {"none", "open"} /\ (prompt = "open" => desk.detail.of # NoOne)
      BY <2>2 DEF DeskInv, DeskShape, DeskFollowsSelection
    <3> QED BY <1>0, <1>4, <2>2, <3>1, PromptKeeps
  <2> QED BY <2>1, <2>2
<1>5. CASE Submit
  <2>1. prompt = "none"
    BY <1>5 DEF Submit, AtHand
  <2>2. CASE Asks(ShownDraft)
    <3>1. prompt' = "open" /\ UNCHANGED <<orders, sentOrders>>
      BY <1>5, <2>2 DEF Submit
    <3> QED BY <1>0, <1>1, <1>5, <2>1, <3>1, PromptKeeps
  <2>3. CASE ~Asks(ShownDraft)
    <3>1. Apply(ActsOn) /\ UNCHANGED prompt
      BY <1>5, <2>3 DEF Submit
    <3>2. CASE drafts[ActsOn].reason = NoOne
      BY <1>1, <1>4, <1>5, <3>1, <3>2 DEF Apply
    <3>3. CASE drafts[ActsOn].reason # NoOne
      BY <1>1, <1>3, <1>5, <2>1, <3>1, <3>3
    <3> QED BY <3>2, <3>3
  <2> QED BY <2>2, <2>3
<1>6. CASE ConfirmBan
  <2>1. prompt = "open" /\ Apply(ActsOn) /\ prompt' = IF drafts[ActsOn].reason = NoOne THEN "open" ELSE "busy"
    BY <1>6 DEF ConfirmBan
  <2>2. CASE drafts[ActsOn].reason = NoOne
    BY <1>1, <1>4, <1>6, <2>1, <2>2 DEF Apply
  <2>3. CASE drafts[ActsOn].reason # NoOne
    BY <1>1, <1>3, <1>6, <2>1, <2>3
  <2> QED BY <2>2, <2>3
<1> QED BY <1>2, <1>5, <1>6

(* Asking for a release keeps the invariant.                                *)
LEMMA ReleaseKeeps ==
    ASSUME DeskInv, NEW s \in Learners, ReleaseStudent(s)
    PROVE  DeskInv'
<1> DEFINE made == Order("release", s)
           o == [made EXCEPT !.reason = NoOne, !.status = "RESTRICTED"]
<1>1. /\ Dispatched(o) /\ prompt = "none"
      /\ UNCHANGED <<restricted, version, desk, fetching, drafts, prompt, answered>>
  BY DEF ReleaseStudent, AtHand
<1>2. sentOrders < MaxOrders
  BY <1>1 DEF Dispatched
<1>3. /\ made \in DeskOrders /\ made.kind = "release"
      /\ made.prompted = (prompt = "open") /\ made.number = sentOrders /\ made.outcome = "sent"
  BY <1>2, OrderIs
<1> HIDE DEF made
<1>4. /\ o \in DeskOrders /\ o.kind = "release" /\ o.prompted = made.prompted
      /\ o.number = sentOrders /\ o.outcome = "sent"
  BY <1>3 DEF DeskOrders, Someone
<1> HIDE DEF o
<1>5. ~o.prompted
  BY <1>1, <1>3, <1>4
<1> QED BY <1>1, <1>3, <1>4, <1>5, DispatchKeeps

(* Nothing of the orders but what the server made of one of them moves when *)
(* it is carried out.                                                       *)
LEMMA CarriedIs ==
    ASSUME DeskInv, NEW o \in orders, Carried(o)
    PROVE  \E m \in DeskOrders :
             /\ orders' = (orders \ {o}) \cup {m}
             /\ m.of = o.of /\ m.kind = o.kind /\ m.reason = o.reason
             /\ m.prompted = o.prompted /\ m.number = o.number
             /\ version' \in [Learners -> 0 .. MaxVersion] /\ restricted' \in [Learners -> BOOLEAN]
             /\ \A s \in Learners : version[s] <= version'[s]
             /\ m.outcome = "ok" => m.version > 0 /\ m.version = version'[m.of]
<1> DEFINE CarriedInto == \E m \in DeskOrders :
                /\ orders' = (orders \ {o}) \cup {m}
                /\ m.of = o.of /\ m.kind = o.kind /\ m.reason = o.reason
                /\ m.prompted = o.prompted /\ m.number = o.number
                /\ version' \in [Learners -> 0 .. MaxVersion] /\ restricted' \in [Learners -> BOOLEAN]
                /\ \A s \in Learners : version[s] <= version'[s]
                /\ m.outcome = "ok" => m.version > 0 /\ m.version = version'[m.of]
<1>0. /\ o \in DeskOrders /\ o.of \in Learners
      /\ version \in [Learners -> 0 .. MaxVersion] /\ restricted \in [Learners -> BOOLEAN] /\ MaxVersion \in Nat
  BY DeskAssumption DEF DeskAssumption, DeskInv, DeskShape, DeskOrders
<1>1. ASSUME version[o.of] < MaxVersion, version' = [version EXCEPT ![o.of] = @ + 1],
             restricted' = [restricted EXCEPT ![o.of] = o.kind = "restrict"],
             NEW outcome \in {"ok", "lost"},
             orders' = (orders \ {o}) \cup {[o EXCEPT !.outcome = outcome, !.version = version[o.of] + 1]}
      PROVE  CarriedInto
  <2> DEFINE v == version[o.of] + 1
             m == [o EXCEPT !.outcome = outcome, !.version = v]
  <2>1. v \in 0 .. MaxVersion /\ v > 0
    BY <1>0, <1>1
  <2>2. version' = [version EXCEPT ![o.of] = v]
    BY <1>1
  <2>3. version'[o.of] = v /\ version' \in [Learners -> 0 .. MaxVersion]
    BY <1>0, <2>1, <2>2
  <2>4. \A s \in Learners : version[s] <= version'[s]
    <3> TAKE s \in Learners
    <3>1. version'[s] = IF s = o.of THEN version[s] + 1 ELSE version[s]
      BY <1>0, <2>2
    <3>2. version[s] \in Int
      BY <1>0
    <3> QED BY <3>1, <3>2
  <2>5. restricted' \in [Learners -> BOOLEAN]
    BY <1>0, <1>1
  <2>6. orders' = (orders \ {o}) \cup {m}
    BY <1>1
  <2> HIDE DEF v
  <2>7. /\ m \in DeskOrders /\ m.of = o.of /\ m.kind = o.kind /\ m.reason = o.reason
        /\ m.prompted = o.prompted /\ m.number = o.number /\ m.version = v
    BY <1>0, <1>1, <2>1 DEF DeskOrders
  <2> HIDE DEF m
  <2> QED BY <2>1, <2>3, <2>4, <2>5, <2>6, <2>7
<1>2. ASSUME orders' = (orders \ {o}) \cup {[o EXCEPT !.outcome = "refused"]},
             UNCHANGED <<restricted, version>>
      PROVE  CarriedInto
  <2> DEFINE m == [o EXCEPT !.outcome = "refused"]
  <2>1. /\ m \in DeskOrders /\ m.of = o.of /\ m.kind = o.kind /\ m.reason = o.reason
        /\ m.prompted = o.prompted /\ m.number = o.number /\ m.outcome = "refused"
    BY <1>0 DEF DeskOrders
  <2>2. orders' = (orders \ {o}) \cup {m}
    BY <1>2
  <2>3. \A s \in Learners : version[s] <= version'[s]
    BY <1>0, <1>2
  <2> HIDE DEF m
  <2> QED BY <1>0, <1>2, <2>1, <2>2, <2>3
<1> QED BY <1>1, <1>2 DEF Carried

(* Taking one order out of a finite set of them and putting one back adds   *)
(* none.                                                                    *)
LEMMA OneInItsPlace ==
    ASSUME NEW S, IsFiniteSet(S), NEW x \in S, NEW y
    PROVE  /\ IsFiniteSet(S \ {x}) /\ Cardinality(S \ {x}) <= Cardinality(S)
           /\ IsFiniteSet((S \ {x}) \cup {y}) /\ Cardinality((S \ {x}) \cup {y}) <= Cardinality(S)
<1>1. IsFiniteSet(S \ {x}) /\ Cardinality(S \ {x}) = Cardinality(S) - 1
  BY FS_RemoveElement
<1>2. IsFiniteSet((S \ {x}) \cup {y}) /\ Cardinality((S \ {x}) \cup {y}) <= Cardinality(S \ {x}) + 1
  BY <1>1, OneOrderMore
<1>3. Cardinality(S) \in Nat /\ Cardinality(S \ {x}) \in Nat /\ Cardinality((S \ {x}) \cup {y}) \in Nat
  BY <1>1, <1>2, FS_CardinalityType
<1> QED BY <1>1, <1>2, <1>3

(* What the route makes of an order keeps the invariant.                    *)
LEMMA CarriedKeeps ==
    ASSUME DeskInv, NEW o \in orders, Carried(o)
    PROVE  DeskInv'
<1>1. PICK m \in DeskOrders :
             /\ orders' = (orders \ {o}) \cup {m}
             /\ m.of = o.of /\ m.kind = o.kind /\ m.reason = o.reason
             /\ m.prompted = o.prompted /\ m.number = o.number
             /\ version' \in [Learners -> 0 .. MaxVersion] /\ restricted' \in [Learners -> BOOLEAN]
             /\ \A s \in Learners : version[s] <= version'[s]
             /\ m.outcome = "ok" => m.version > 0 /\ m.version = version'[m.of]
  BY CarriedIs
<1>2. UNCHANGED <<desk, fetching, drafts, prompt, sentOrders, answered>>
  BY DEF Carried
<1>3. /\ version \in [Learners -> 0 .. MaxVersion] /\ answered \in [Learners -> 0 .. MaxVersion]
      /\ orders \in SUBSET DeskOrders /\ sentOrders \in 0 .. MaxOrders
      /\ IsFiniteSet(orders) /\ Cardinality(orders) <= sentOrders
      /\ MaxVersion \in Nat /\ MaxOrders \in Nat
  BY DeskAssumption DEF DeskAssumption, DeskInv, DeskShape
<1>4. DeskShape'
  <2>1. IsFiniteSet(orders') /\ Cardinality(orders') <= sentOrders
    <3>1. IsFiniteSet(orders') /\ Cardinality(orders') <= Cardinality(orders)
      BY <1>1, <1>3, OneInItsPlace
    <3>2. Cardinality(orders') \in Nat /\ Cardinality(orders) \in Nat
      BY <1>3, <3>1, FS_CardinalityType
    <3> QED BY <1>3, <3>1, <3>2
  <2>2. orders' \in SUBSET DeskOrders
    BY <1>1, <1>3
  <2> QED BY <1>1, <1>2, <2>1, <2>2 DEF DeskInv, DeskShape
<1>5. DeskFollowsSelection' /\ DraftsAreOwn'
  BY <1>2 DEF DeskInv, DeskFollowsSelection, DraftsAreOwn
<1>6. AnswersAreOld'
  <2>1. \A s \in Learners : answered[s] <= version'[s]
    <3> TAKE s \in Learners
    <3>1. answered[s] <= version[s] /\ version[s] <= version'[s]
      BY <1>1 DEF DeskInv, AnswersAreOld
    <3>2. answered[s] \in Int /\ version[s] \in Int /\ version'[s] \in Int
      BY <1>1, <1>3
    <3> QED BY <3>1, <3>2
  <2> QED BY <1>2, <2>1 DEF DeskInv, AnswersAreOld
<1>7. ASSUME NEW k \in orders' PROVE OrderIsTrue(k)'
  <2>1. CASE k \in orders
    <3>1. OrderIsTrue(k) /\ k.version \in Int /\ k.of \in Learners
      BY <1>3, <2>1 DEF DeskInv, DeskOrders
    <3>2. version[k.of] <= version'[k.of] /\ version[k.of] \in Int /\ version'[k.of] \in Int
      BY <1>1, <1>3, <3>1
    <3> QED BY <1>2, <3>1, <3>2 DEF OrderIsTrue
  <2>2. CASE k = m
    <3>1. OrderIsTrue(o) /\ m.version \in Int /\ m.of \in Learners
      BY DEF DeskInv, DeskOrders
    <3>2. version'[m.of] \in Int
      BY <1>1, <3>1
    <3> QED BY <1>1, <1>2, <2>2, <3>1, <3>2 DEF OrderIsTrue
  <2> QED BY <1>1, <1>7, <2>1, <2>2
<1>8. OneDialog'
  <2>1. OneDialog
    BY DEF DeskInv
  <2>2. (\E k \in orders' : k.prompted) <=> (\E k \in orders : k.prompted)
    BY <1>1
  <2>3. ASSUME NEW o1 \in orders', NEW o2 \in orders', (o1.prompted /\ o2.prompted) \/ o1.number = o2.number
        PROVE  o1 = o2
    <3>1. CASE o1 \in orders \ {o} /\ o2 \in orders \ {o}
      BY <2>1, <2>3, <3>1 DEF OneDialog
    <3>2. ASSUME NEW k \in orders \ {o} PROVE ~(k.prompted /\ m.prompted) /\ k.number # m.number
      BY <1>1, <2>1, <3>2 DEF OneDialog
    <3> QED BY <1>1, <2>3, <3>1, <3>2
  <2> QED BY <1>2, <2>1, <2>2, <2>3 DEF OneDialog
<1>9. OwnDeedsAreShown'
  BY <1>2 DEF DeskInv, OwnDeedsAreShown, ShowsDetails
<1> QED BY <1>4, <1>5, <1>6, <1>7, <1>8, <1>9 DEF DeskInv

(* An answer keeps the invariant: the one that says something new makes the *)
(* details be read again.                                                   *)
LEMMA DeskAnswerKeeps ==
    ASSUME DeskInv, NEW o \in orders, Answer(o)
    PROVE  DeskInv'
<1>0. /\ o.outcome # "sent" /\ orders' = orders \ {o}
      /\ drafts' = IF Emptied(o) THEN [drafts EXCEPT ![o.of] = DefaultDraft] ELSE drafts
      /\ prompt' = IF ~o.prompted THEN prompt ELSE IF o.outcome = "ok" THEN "none" ELSE "open"
      /\ answered' = IF o.outcome = "ok" /\ o.refreshes /\ o.version > answered[o.of]
                     THEN [answered EXCEPT ![o.of] = o.version] ELSE answered
      /\ UNCHANGED <<restricted, version, sentOrders>>
  BY DEF Answer
<1>1. /\ version \in [Learners -> 0 .. MaxVersion] /\ answered \in [Learners -> 0 .. MaxVersion]
      /\ orders \in SUBSET DeskOrders /\ sentOrders \in 0 .. MaxOrders
      /\ IsFiniteSet(orders) /\ Cardinality(orders) <= sentOrders
      /\ MaxVersion \in Nat /\ MaxOrders \in Nat
      /\ desk \in DeskStates /\ fetching \in DeskReads /\ drafts \in [Learners -> Draft]
      /\ o \in DeskOrders /\ o.of \in Learners /\ o.version \in 0 .. MaxVersion
  BY DeskAssumption DEF DeskAssumption, DeskInv, DeskShape, DeskOrders
<1>2. /\ drafts' \in [Learners -> Draft]
      /\ \A s \in Learners : drafts'[s] = drafts[s] \/ drafts'[s] = DefaultDraft
  <2>1. DefaultDraft \in Draft
    BY DEF DefaultDraft, Draft
  <2> QED BY <1>0, <1>1, <2>1
<1>3. DraftsAreOwn'
  <2>1. DefaultDraft.reason = NoOne
    BY DEF DefaultDraft
  <2> QED BY <1>2, <2>1 DEF DeskInv, DraftsAreOwn
<1>4. answered' \in [Learners -> 0 .. MaxVersion] /\ \A s \in Learners : answered'[s] <= version[s]
  <2>1. CASE o.outcome = "ok"
    <3>1. o.version <= version[o.of]
      BY <2>1 DEF DeskInv, OrderIsTrue
    <3> QED BY <1>0, <1>1, <3>1 DEF DeskInv, AnswersAreOld
  <2>2. CASE o.outcome # "ok"
    BY <1>0, <1>1, <2>2 DEF DeskInv, AnswersAreOld
  <2> QED BY <2>1, <2>2
<1>5. /\ desk' \in DeskStates /\ fetching' \in DeskReads
      /\ desk'.section = desk.section /\ desk'.selected = desk.selected /\ desk'.detail = desk.detail
      /\ \/ /\ ~fetching'.read
            /\ fetching'.of = IF desk.section = "students" /\ desk.selected # NoOne THEN desk.selected ELSE NoOne
         \/ UNCHANGED <<desk, fetching, answered>>
  <2>1. CASE Refreshed(o)
    <3>1. desk' = [desk EXCEPT !.failed = FALSE] /\ fetching' = Fetch(desk)
      BY <2>1 DEF Answer
    <3>2. /\ fetching' \in DeskReads /\ ~fetching'.read
          /\ fetching'.of = IF desk.section = "students" /\ desk.selected # NoOne THEN desk.selected ELSE NoOne
      BY <1>1, <3>1, FetchIs
    <3>3. /\ desk' \in DeskStates /\ desk'.section = desk.section /\ desk'.selected = desk.selected
          /\ desk'.detail = desk.detail
      BY <1>1, <3>1 DEF DeskStates
    <3> QED BY <3>2, <3>3
  <2>2. CASE ~Refreshed(o)
    <3>1. UNCHANGED <<desk, fetching, answered>>
      BY <2>2, <1>0 DEF Answer, Refreshed
    <3> QED BY <1>1, <3>1
  <2> QED BY <2>1, <2>2
<1>6. prompt' \in {"none", "open", "busy"} /\ (prompt' # "none" => prompt # "none")
  <2>1. o.prompted => prompt = "busy"
    BY DEF DeskInv, OneDialog
  <2> QED BY <1>0, <2>1 DEF DeskInv, DeskShape
<1>7. DeskShape'
  <2>1. IsFiniteSet(orders') /\ Cardinality(orders') <= sentOrders
    <3>1. IsFiniteSet(orders') /\ Cardinality(orders') <= Cardinality(orders)
      BY <1>0, <1>1, OneInItsPlace
    <3>2. Cardinality(orders') \in Nat /\ Cardinality(orders) \in Nat
      BY <1>1, <3>1, FS_CardinalityType
    <3> QED BY <1>1, <3>1, <3>2
  <2> QED BY <1>0, <1>2, <1>4, <1>5, <1>6, <2>1 DEF DeskInv, DeskShape
<1>8. DeskFollowsSelection'
  BY <1>5, <1>6 DEF DeskInv, DeskFollowsSelection
<1>9. AnswersAreOld'
  BY <1>0, <1>4, <1>5 DEF DeskInv, AnswersAreOld
<1>10. ASSUME NEW k \in orders' PROVE OrderIsTrue(k)'
  BY <1>0 DEF DeskInv, OrderIsTrue
<1>11. OneDialog'
  <2>1. OneDialog
    BY DEF DeskInv
  <2>2. CASE o.prompted
    <3>1. \A k \in orders' : ~k.prompted
      BY <1>0, <2>1, <2>2 DEF OneDialog
    <3>2. prompt' # "busy"
      BY <1>0, <2>2
    <3> QED BY <1>0, <2>1, <3>1, <3>2 DEF OneDialog
  <2>3. CASE ~o.prompted
    BY <1>0, <2>1, <2>3 DEF OneDialog
  <2> QED BY <2>2, <2>3
<1>12. OwnDeedsAreShown'
  <2>1. CASE UNCHANGED <<desk, fetching, answered>>
    BY <2>1 DEF DeskInv, OwnDeedsAreShown, ShowsDetails
  <2>2. CASE fetching'.of = IF desk.section = "students" /\ desk.selected # NoOne THEN desk.selected ELSE NoOne
    BY <1>5, <2>2 DEF DeskInv, DeskFollowsSelection, OwnDeedsAreShown, ShowsDetails
  <2> QED BY <1>5, <2>1, <2>2
<1> QED BY <1>3, <1>7, <1>8, <1>9, <1>10, <1>11, <1>12 DEF DeskInv

(* Every step keeps the invariant.                                          *)
LEMMA DeskKeeps == DeskInv /\ [DeskNext]_deskVars => DeskInv'
<1> SUFFICES ASSUME DeskInv, [DeskNext]_deskVars PROVE DeskInv'
  OBVIOUS
<1>1. CASE UNCHANGED deskVars
  <2>1. DeskShape' /\ DeskFollowsSelection' /\ AnswersAreOld' /\ DraftsAreOwn'
    BY <1>1 DEF deskVars, DeskInv, DeskShape, DeskFollowsSelection, AnswersAreOld, DraftsAreOwn
  <2>2. OneDialog' /\ OwnDeedsAreShown' /\ \A o \in orders' : OrderIsTrue(o)'
    BY <1>1 DEF deskVars, DeskInv, OneDialog, OwnDeedsAreShown, ShowsDetails, OrderIsTrue
  <2> QED BY <2>1, <2>2 DEF DeskInv
<1>2. CASE DeskNext
  BY <1>2, MovesKeep, DetailsKeep, EditDraftKeeps, FormKeeps, ReleaseKeeps, CarriedKeeps, DeskAnswerKeeps DEF DeskNext
<1> QED BY <1>1, <1>2

(* Only the answer of a restriction that was applied empties a reason.      *)
LEMMA ReasonsOutlive ==
    ASSUME DeskInv, DeskNext
    PROVE  \A s \in Learners :
             drafts[s].reason # NoOne /\ drafts'[s].reason = NoOne =>
               \E o \in orders \ orders' : o.of = s /\ o.kind = "restrict" /\ o.version > 0 /\ o.outcome = "ok"
<1> SUFFICES ASSUME NEW s \in Learners, drafts[s].reason # NoOne, drafts'[s].reason = NoOne
             PROVE  \E o \in orders \ orders' : o.of = s /\ o.kind = "restrict" /\ o.version > 0 /\ o.outcome = "ok"
  OBVIOUS
<1>1. CASE EditDraft
  BY <1>1, EditDraftKeeps
<1>2. ASSUME NEW o \in orders, Answer(o)
      PROVE  \E k \in orders \ orders' : k.of = s /\ k.kind = "restrict" /\ k.version > 0 /\ k.outcome = "ok"
  <2>1. /\ orders' = orders \ {o}
        /\ drafts' = IF Emptied(o) THEN [drafts EXCEPT ![o.of] = DefaultDraft] ELSE drafts
    BY <1>2 DEF Answer
  <2>2. Emptied(o) /\ o.of = s
    <3>1. drafts \in [Learners -> Draft]
      BY DEF DeskInv, DeskShape
    <3> QED BY <2>1, <3>1
  <2>3. o.kind = "restrict" /\ o.outcome = "ok" /\ o.version > 0
    BY <2>2 DEF Emptied, DeskInv, OrderIsTrue
  <2>4. o \in orders \ orders'
    BY <2>1
  <2> QED BY <2>2, <2>3, <2>4
<1>3. CASE ~EditDraft /\ ~(\E o \in orders : Answer(o))
  <2>1. drafts' = drafts
    BY <1>3 DEF DeskNext, SelectStudent, ReleaseStudent, CloseDetails, OpenSection, Goes, ServeDetails,
                DetailsArrive, DetailsFail, Submit, ConfirmBan, DismissBan, Carried
  <2> QED BY <2>1
<1> QED BY <1>1, <1>2, <1>3

(* The invariant gives what is promised in a state.                         *)
LEMMA DeskHolds == DeskInv => DeskTypeOK /\ ReasonsStayWithTheirStudent /\ OwnDeedsAreShown
<1> SUFFICES ASSUME DeskInv PROVE DeskTypeOK /\ ReasonsStayWithTheirStudent /\ OwnDeedsAreShown
  OBVIOUS
<1>1. DeskTypeOK
  <2>1. /\ desk.section \in {"students", "settings"} /\ desk.selected \in Someone
        /\ desk.detail.of \in Someone /\ desk.failed \in BOOLEAN
    BY DEF DeskInv, DeskShape, DeskStates, DeskDetails
  <2>2. sentOrders <= MaxOrders
    BY DEF DeskInv, DeskShape
  <2> QED BY <2>1, <2>2 DEF DeskInv, DeskShape, DeskFollowsSelection, OneDialog, DeskTypeOK, Someone
<1>2. ReasonsStayWithTheirStudent
  BY DEF DeskInv, OrderIsTrue, ReasonsStayWithTheirStudent
<1> QED BY <1>1, <1>2 DEF DeskInv

(* However the administrator selects, writes, asks and confirms while reads *)
(* and answers come late or not at all: no student is restricted with a     *)
(* reason written about another, the details on the screen know of what the *)
(* desk was told, and a reason is only lost to the restriction it was for.  *)
THEOREM DeskSoundness == DeskSpec => DeskIsTrue
<1>1. DeskInv /\ [DeskNext]_deskVars =>
        [\A s \in Learners :
           drafts[s].reason # NoOne /\ drafts'[s].reason = NoOne =>
             \E o \in orders \ orders' :
                o.of = s /\ o.kind = "restrict" /\ o.version > 0 /\ o.outcome = "ok"]_deskVars
  BY ReasonsOutlive
<1> QED BY DeskStarts, DeskKeeps, DeskHolds, <1>1, PTL DEF DeskSpec, DeskIsTrue, ReasonsOutliveFailures

(***************************************************************************)
(* The administrator's lists: pages, cursors, refreshes, requests for more.*)
(***************************************************************************)

(* What the table, a page, a read and the list may hold.                    *)
ListRows == {NoRowAt} \cup [born : Nat, filter : Filters]
ListCursors == [after : Int, cutoff : Int, filter : AllFilters, exp : Int]
ListPages == [items : Seq(Places), next : ListCursors, filter : AllFilters,
              hidden : BOOLEAN, present : SUBSET Places, loaded : BOOLEAN]
ListReadings == [stage : {"none", "sent", "served"}, filter : AllFilters, answer : ListPages]
ListRequests == [request : Nat, filter : AllFilters, mode : {"append", "replace"}, cursor : ListCursors,
                 stage : {"sent", "ok", "CURSOR_EXPIRED", "CURSOR_FILTER_MISMATCH"}, answer : ListPages]
ListScreens == [page : ListPages, filter : AllFilters, shown : BOOLEAN, request : Nat,
                restart : BOOLEAN, loading : BOOLEAN, failed : BOOLEAN, crossed : BOOLEAN]

ListShape ==
    /\ table \in [Places -> ListRows]
    /\ listTick \in Nat
    /\ list \in ListScreens
    /\ reading \in ListReadings
    /\ paging \in SUBSET ListRequests
    /\ changed \in SUBSET Places

(* A sequence that does not repeat itself, and one in the query's order.    *)
Distinct(s) == \A i, j \in 1 .. Len(s) : i < j => s[i] # s[j]
Ascends(s) == \A i, j \in 1 .. Len(s) : i < j => s[i] < s[j]
EndsBy(s, at) == \A i \in 1 .. Len(s) : s[i] <= at

(* A row is in the list of a filter as it was at the cutoff.                *)
Listed(rows, p, f, cutoff) ==
    rows[p] # NoRowAt /\ f \in {FilterAll, rows[p].filter} /\ rows[p].born <= cutoff

(* A page's cursor is one of its own filter.                                *)
Continues(leaf) == leaf.next # NoCursor => leaf.next.after \in Places /\ leaf.next.filter = leaf.filter

(* The answer to a query holds, in order, every row of the query that did   *)
(* not change since, from where the query started to where the page ends.   *)
AnswerIsWhole(leaf, f, after, cutoff, rows, done) ==
    /\ leaf.loaded /\ leaf.filter = f /\ ~leaf.hidden /\ Continues(leaf)
    /\ Ascends(leaf.items)
    /\ \A i \in 1 .. Len(leaf.items) : leaf.items[i] > after
    /\ leaf.next # NoCursor => leaf.next.cutoff = cutoff /\ leaf.next.after > after /\ EndsBy(leaf.items, leaf.next.after)
    /\ \A p \in leaf.present \ done : Listed(rows, p, f, cutoff)
    /\ \A p \in Places \ done :
         Listed(rows, p, f, cutoff) /\ p > after /\ (leaf.next # NoCursor => p <= leaf.next.after)
           => p \in ToSet(leaf.items)
FirstPageIsWhole(leaf, f, rows, done, now) ==
    \E cutoff \in 0 .. now : AnswerIsWhole(leaf, f, -1, cutoff, rows, done)

(* The page on the screen: no row twice, and, unless a refresh crossed a    *)
(* "load more", in order and whole up to its cursor.                        *)
PageIsWhole(leaf, crossed, rows, done) ==
    /\ Distinct(leaf.items) /\ Continues(leaf) /\ (leaf.hidden => leaf.items # <<>>)
    /\ ~crossed =>
         /\ Ascends(leaf.items)
         /\ leaf.next # NoCursor =>
              /\ EndsBy(leaf.items, leaf.next.after)
              /\ \A p \in leaf.present \ done : Listed(rows, p, leaf.next.filter, leaf.next.cutoff)
         /\ \A p \in leaf.present \ done :
              (leaf.hidden => p >= Head(leaf.items)) /\ (leaf.next # NoCursor => p <= leaf.next.after)
                => p \in ToSet(leaf.items)
ScreenIsTrue == IF list.page.loaded THEN PageIsWhole(list.page, list.crossed, table, changed) ELSE list.page = NoPage

(* What a request that is under way, or its answer, stands for.             *)
RequestIsTrue(q) ==
    /\ q.request <= list.request
    /\ q.mode = "replace" => q.cursor = NoCursor
    /\ q.mode = "append" => q.cursor.after \in Places
    /\ q.stage = "ok" /\ q.mode = "replace" => FirstPageIsWhole(q.answer, q.filter, table, changed, listTick)
    /\ q.stage = "ok" /\ q.mode = "append" =>
         /\ q.cursor.filter = q.filter
         /\ AnswerIsWhole(q.answer, q.filter, q.cursor.after, q.cursor.cutoff, table, changed)

(* The newest request is one of the filter shown and of the page shown.     *)
NewestIsTrue(q) ==
    q.request = list.request =>
        /\ list.shown => q.filter = list.filter
        /\ q.mode = "append" =>
             /\ list.page.loaded
             /\ list.page.filter \in {q.cursor.filter, q.filter}
             /\ ~list.crossed => q.cursor = list.page.next

OneByNumber == \A q1, q2 \in paging : q1.request = q2.request => q1 = q2

(* A read under way is the one of the section shown, and its answer whole.  *)
ReadIsTrue ==
    /\ reading.stage # "none" => list.shown /\ reading.filter = list.filter
    /\ reading.stage = "served" => FirstPageIsWhole(reading.answer, reading.filter, table, changed, listTick)

(* The lists' inductive invariant.                                          *)
ListInv ==
    /\ ListShape
    /\ ScreenIsTrue
    /\ \A q \in paging : RequestIsTrue(q) /\ NewestIsTrue(q)
    /\ OneByNumber
    /\ ReadIsTrue
    /\ ListAnswersTheFilter

(* Some numbers have a least one.                                           *)
LEMMA LeastOf ==
    ASSUME NEW S \in SUBSET Nat, S # {}
    PROVE  \E low \in S : \A x \in S : low <= x
<1>1. PICK low \in S : \A x \in S : ~(<<x, low>> \in OpToRel(<, Nat))
  BY NatLessThanWellFounded, WFMin
<1>2. \A x \in S : ~(x < low)
  BY <1>1 DEF OpToRel
<1> QED BY <1>2

(* Finitely many places can be put in order: the least first, then the      *)
(* rest.                                                                    *)
LEMMA CanBeOrdered ==
    ASSUME NEW S \in SUBSET Nat, IsFiniteSet(S)
    PROVE  \E s \in [1 .. Cardinality(S) -> S] : \A i, j \in 1 .. Cardinality(S) : i < j => s[i] < s[j]
<1> DEFINE InOrderTo(T) ==
             \E s \in [1 .. Cardinality(T) -> T] : \A i, j \in 1 .. Cardinality(T) : i < j => s[i] < s[j]
           Bad == {n \in Nat : \E T \in SUBSET Nat : IsFiniteSet(T) /\ Cardinality(T) = n /\ ~InOrderTo(T)}
<1>1. ASSUME Bad # {} PROVE FALSE
  <2>1. PICK n \in Bad : \A k \in Bad : n <= k
    BY <1>1, LeastOf
  <2>2. PICK T \in SUBSET Nat : IsFiniteSet(T) /\ Cardinality(T) = n /\ ~InOrderTo(T)
    BY <2>1
  <2>3. T # {}
    <3>1. CASE T = {}
      <4>1. Cardinality(T) = 0
        BY <3>1, FS_EmptySet
      <4>2. 1 .. Cardinality(T) = {}
        BY <4>1
      <4>3. [i \in 1 .. Cardinality(T) |-> i] \in [1 .. Cardinality(T) -> T]
        BY <4>2
      <4> QED BY <4>2, <4>3, <2>2
    <3> QED BY <3>1
  <2>4. PICK low \in T : \A x \in T : low <= x
    BY <2>3, LeastOf
  <2> DEFINE R == T \ {low}
  <2>5. IsFiniteSet(R) /\ Cardinality(R) = n - 1 /\ Cardinality(R) \in Nat
    <3>1. IsFiniteSet(R) /\ Cardinality(R) = Cardinality(T) - 1
      BY <2>2, <2>4, FS_RemoveElement
    <3> QED BY <2>2, <3>1, FS_CardinalityType
  <2>6. n \in Nat /\ n - 1 \in Nat /\ n - 1 \notin Bad
    <3>1. n \in Nat
      BY <2>1
    <3>2. n - 1 \in Nat
      BY <2>5
    <3> QED BY <2>1, <3>1, <3>2
  <2>7. R \in SUBSET Nat
    BY <2>2
  <2>8. InOrderTo(R)
    BY <2>5, <2>6, <2>7
  <2>9. PICK r \in [1 .. (n - 1) -> R] : \A i, j \in 1 .. (n - 1) : i < j => r[i] < r[j]
    BY <2>5, <2>8
  <2> DEFINE s == [i \in 1 .. n |-> IF i = 1 THEN low ELSE r[i - 1]]
  <2> HIDE DEF R
  <2>10. \A i \in 1 .. n : i # 1 => i - 1 \in 1 .. (n - 1)
    BY <2>6
  <2>11. \A x \in R : low < x /\ x \in T
    <3>1. \A x \in R : x # low /\ x \in T /\ x \in Nat /\ low \in Nat
      BY <2>2, <2>4 DEF R
    <3> QED BY <2>4, <3>1
  <2>12. s \in [1 .. n -> T]
    BY <2>4, <2>9, <2>10, <2>11
  <2>13. \A i, j \in 1 .. n : i < j => s[i] < s[j]
    <3> SUFFICES ASSUME NEW i \in 1 .. n, NEW j \in 1 .. n, i < j PROVE s[i] < s[j]
      OBVIOUS
    <3>1. j # 1 /\ j - 1 \in 1 .. (n - 1) /\ s[j] = r[j - 1] /\ r[j - 1] \in R
      BY <2>6, <2>9, <2>10
    <3>2. CASE i = 1
      BY <2>11, <3>1, <3>2
    <3>3. CASE i # 1
      <4>1. i - 1 \in 1 .. (n - 1) /\ s[i] = r[i - 1] /\ i - 1 < j - 1
        BY <2>6, <2>10, <3>3
      <4> QED BY <2>9, <3>1, <4>1
    <3> QED BY <3>2, <3>3
  <2> HIDE DEF s
  <2> QED BY <2>2, <2>12, <2>13
<1> HIDE DEF Bad
<1>2. Bad = {}
  BY <1>1
<1>3. Cardinality(S) \in Nat
  BY FS_CardinalityType
<1> QED BY <1>2, <1>3 DEF Bad

(* What putting some places in order gives: each of them once, in order.    *)
LEMMA InOrderIs ==
    ASSUME NEW S \in SUBSET Nat, IsFiniteSet(S)
    PROVE  /\ InOrder(S) \in Seq(S) /\ Len(InOrder(S)) = Cardinality(S)
           /\ Ascends(InOrder(S)) /\ ToSet(InOrder(S)) = S
<1> DEFINE n == Cardinality(S)
           s == InOrder(S)
<1>1. n \in Nat
  BY FS_CardinalityType
<1>2. s \in [1 .. n -> S] /\ \A i, j \in 1 .. n : i < j => s[i] < s[j]
  BY CanBeOrdered DEF InOrder
<1> HIDE DEF n, s
<1>3. \A i \in 1 .. n : s[i] \in Nat
  BY <1>2
<1>4. s \in Injection(1 .. n, S)
  <2>1. ASSUME NEW i \in 1 .. n, NEW j \in 1 .. n, s[i] = s[j] PROVE i = j
    <3>1. ~(i < j) /\ ~(j < i)
      BY <1>2, <1>3, <2>1
    <3> QED BY <1>1, <3>1
  <2> QED BY <1>2, <2>1 DEF Injection, IsInjective
<1>5. Cardinality(1 .. n) = n
  <2>1. Cardinality(1 .. n) = IF 1 > n THEN 0 ELSE n - 1 + 1
    BY <1>1, FS_Interval
  <2> QED BY <1>1, <2>1
<1>6. s \in Surjection(1 .. n, S)
  BY <1>4, <1>5, FS_Injection DEF n
<1>7. \A x \in S : \E i \in 1 .. n : s[i] = x
  BY <1>6 DEF Surjection
<1>8. s \in Seq(S) /\ Len(s) = n /\ DOMAIN s = 1 .. n
  BY <1>1, <1>2
<1>9. ToSet(s) = S
  BY <1>2, <1>7, <1>8 DEF ToSet
<1>10. Ascends(s)
  BY <1>2, <1>8 DEF Ascends
<1> QED BY <1>8, <1>9, <1>10 DEF n, s

(* The first so many of a sequence.                                         *)
LEMMA FirstOf ==
    ASSUME NEW S, NEW s \in Seq(S), NEW k \in Nat,
           NEW n, n = IF Len(s) < k THEN Len(s) ELSE k
    PROVE  /\ SubSeq(s, 1, n) \in Seq(S) /\ Len(SubSeq(s, 1, n)) = n /\ n \in Nat /\ n <= Len(s)
           /\ \A i \in 1 .. n : SubSeq(s, 1, n)[i] = s[i]
<1>1. n \in Nat /\ n <= Len(s) /\ Len(s) \in Nat
  BY LenProperties
<1>2. \A i \in 1 .. n : s[i] \in S
  BY <1>1, ElementOfSeq
<1>3. /\ SubSeq(s, 1, n) \in Seq(S)
      /\ Len(SubSeq(s, 1, n)) = IF 1 <= n THEN n - 1 + 1 ELSE 0
      /\ \A i \in 1 .. n - 1 + 1 : SubSeq(s, 1, n)[i] = s[1 + i - 1]
  BY <1>1, <1>2, SubSeqProperties
<1>4. Len(SubSeq(s, 1, n)) = n /\ \A i \in 1 .. n : SubSeq(s, 1, n)[i] = s[i]
  BY <1>1, <1>3
<1> QED BY <1>1, <1>3, <1>4

(* The places of the constants.                                             *)
LEMMA ListConstants ==
    /\ Places \in SUBSET Nat /\ IsFiniteSet(Places) /\ PageSize \in Nat /\ PageSize > 0
    /\ VisibleLimit \in Nat /\ VisibleLimit > 0 /\ CursorLife \in Nat /\ \A p \in Places : p \in Nat
    /\ NoCursor \in ListCursors /\ NoCursor.after = -1
BY ListAssumption DEF ListAssumption, NoCursor, ListCursors, AllFilters

(* The page that the route makes of a query is one of it.                   *)
LEMMA PageOfIs ==
    ASSUME ListShape, NEW f \in AllFilters, NEW c \in ListCursors,
           c # NoCursor => c.after \in Places,
           NEW cutoff, cutoff = IF c = NoCursor THEN listTick ELSE c.cutoff
    PROVE  PageOf(f, c) \in ListPages /\ AnswerIsWhole(PageOf(f, c), f, c.after, cutoff, table, changed)
<1> DEFINE W == Where(c.after, cutoff, f)
           all == InOrder(W)
           rows == SubSeq(all, 1, IF Len(all) < Taken THEN Len(all) ELSE Taken)
           items == SubSeq(rows, 1, IF Len(rows) < PageSize THEN Len(rows) ELSE PageSize)
           more == [after |-> Last(items), cutoff |-> cutoff, filter |-> f, exp |-> listTick + CursorLife]
           P == PageOf(f, c)
<1>1. P = [items   |-> items,
           next    |-> IF Len(rows) > PageSize THEN more ELSE NoCursor,
           filter  |-> f,
           hidden  |-> FALSE,
           present |-> Where(-1, cutoff, f),
           loaded  |-> TRUE]
  BY DEF PageOf
<1>2. cutoff \in Int /\ listTick \in Nat /\ c.after \in Int
  BY ListConstants DEF ListCursors, ListShape
<1>3. W \in SUBSET Nat /\ IsFiniteSet(W) /\ W \subseteq Places
  BY ListConstants, FS_Subset DEF Where
<1>4. all \in Seq(W) /\ Len(all) = Cardinality(W) /\ Ascends(all) /\ ToSet(all) = W
  BY <1>3, InOrderIs
<1>5. PageSize \in Nat /\ Taken = PageSize + 1 /\ Taken \in Nat /\ PageSize > 0
  BY ListConstants DEF Taken
<1> HIDE DEF W, all
<1>6. /\ rows \in Seq(W) /\ Len(rows) = IF Len(all) < Taken THEN Len(all) ELSE Taken
      /\ \A i \in 1 .. Len(rows) : rows[i] = all[i]
  BY <1>4, <1>5, FirstOf
<1> HIDE DEF rows
<1>7. /\ items \in Seq(W) /\ Len(items) = IF Len(rows) < PageSize THEN Len(rows) ELSE PageSize
      /\ \A i \in 1 .. Len(items) : items[i] = rows[i]
  BY <1>5, <1>6, FirstOf
<1> HIDE DEF items
<1>8. Len(all) \in Nat /\ Len(rows) \in Nat /\ Len(items) \in Nat /\ Len(items) <= Len(all)
  <2>1. Len(all) \in Nat /\ Len(rows) \in Nat /\ Len(items) \in Nat
    BY <1>4, <1>6, <1>7, LenProperties
  <2> QED BY <1>5, <1>6, <1>7, <2>1
<1>9. \A i \in 1 .. Len(items) : items[i] = all[i] /\ items[i] \in W /\ i \in 1 .. Len(all)
  <2> TAKE i \in 1 .. Len(items)
  <2>1. i \in 1 .. Len(rows) /\ i \in 1 .. Len(all)
    BY <1>5, <1>6, <1>7, <1>8
  <2> QED BY <1>6, <1>7, <2>1, ElementOfSeq
<1>10. Ascends(items)
  BY <1>4, <1>9 DEF Ascends
<1>11. Len(rows) > PageSize => /\ Len(items) = PageSize /\ Last(items) = all[PageSize]
                               /\ Last(items) \in Places /\ Last(items) > c.after /\ EndsBy(items, Last(items))
  <2> HAVE Len(rows) > PageSize
  <2>1. Len(items) = PageSize /\ PageSize \in 1 .. Len(items)
    BY <1>5, <1>7, <1>8
  <2>2. Last(items) = items[PageSize] /\ items[PageSize] = all[PageSize] /\ items[PageSize] \in W
    BY <1>9, <2>1 DEF Last
  <2>3. EndsBy(items, items[PageSize])
    <3> SUFFICES ASSUME NEW i \in 1 .. PageSize PROVE items[i] <= items[PageSize]
      BY <2>1 DEF EndsBy
    <3>1. items[i] \in Nat /\ items[PageSize] \in Nat
      BY <1>3, <1>9, <2>1
    <3>2. CASE i = PageSize
      BY <3>1, <3>2
    <3>3. CASE i < PageSize
      BY <1>10, <2>1, <3>1, <3>3 DEF Ascends
    <3> QED BY <1>5, <3>2, <3>3
  <2>4. items[PageSize] > c.after
    BY <2>2 DEF W, Where
  <2> QED BY <1>3, <2>1, <2>2, <2>3, <2>4
<1>12. \A p \in W : (Len(rows) > PageSize => p <= Last(items)) => p \in ToSet(items)
  <2> SUFFICES ASSUME NEW p \in W, Len(rows) > PageSize => p <= Last(items) PROVE p \in ToSet(items)
    OBVIOUS
  <2>1. PICK i \in 1 .. Len(all) : all[i] = p
    <3>1. DOMAIN all = 1 .. Len(all)
      BY <1>4, LenProperties
    <3> QED BY <1>4, <3>1 DEF ToSet
  <2>2. i \in 1 .. Len(items)
    <3>1. CASE Len(rows) > PageSize
      <4>1. PageSize \in 1 .. Len(all) /\ p <= all[PageSize]
        BY <1>5, <1>8, <1>11, <3>1
      <4>2. p \in Nat /\ all[PageSize] \in Nat
        BY <1>3, <1>4, <4>1, ElementOfSeq
      <4>3. ~(PageSize < i)
        <5>1. PageSize < i => all[PageSize] < all[i]
          BY <1>4, <4>1 DEF Ascends
        <5> QED BY <2>1, <4>1, <4>2, <5>1
      <4> QED BY <1>5, <1>11, <3>1, <4>3
    <3>2. CASE ~(Len(rows) > PageSize)
      BY <1>5, <1>6, <1>7, <1>8, <3>2
    <3> QED BY <3>1, <3>2
  <2>3. items[i] = p /\ DOMAIN items = 1 .. Len(items)
    BY <1>7, <1>9, <2>1, <2>2, LenProperties
  <2> QED BY <2>2, <2>3 DEF ToSet
<1> HIDE DEF P
<1>13. /\ P.items = items /\ P.filter = f /\ ~P.hidden /\ P.loaded /\ P.present = Where(-1, cutoff, f)
       /\ P.next = IF Len(rows) > PageSize THEN more ELSE NoCursor
  BY <1>1
<1>14. /\ more.after = Last(items) /\ more.filter = f /\ more.cutoff = cutoff
       /\ Len(rows) > PageSize => more \in ListCursors
  <2>1. Len(rows) > PageSize => Last(items) \in Nat
    BY <1>11, ListConstants
  <2>2. listTick + CursorLife \in Int
    BY <1>2, ListConstants
  <2> QED BY <1>2, <2>1, <2>2 DEF ListCursors
<1> HIDE DEF more
<1>15. P \in ListPages
  <2>1. items \in Seq(Places) /\ Where(-1, cutoff, f) \in SUBSET Places
    BY <1>3, <1>7, SeqMonotonic DEF Where
  <2>2. (IF Len(rows) > PageSize THEN more ELSE NoCursor) \in ListCursors
    BY <1>14, ListConstants
  <2> QED BY <1>1, <2>1, <2>2 DEF ListPages
<1>16. P.next # NoCursor <=> Len(rows) > PageSize
  <2>1. Len(rows) > PageSize => more.after >= 0
    <3>1. Len(rows) > PageSize => Last(items) \in Nat
      BY <1>11, ListConstants
    <3> QED BY <1>14, <3>1
  <2> QED BY <1>13, <2>1, ListConstants
<1>17. AnswerIsWhole(P, f, c.after, cutoff, table, changed)
  <2>1. Continues(P)
    BY <1>11, <1>13, <1>14, <1>16 DEF Continues
  <2>2. \A i \in 1 .. Len(P.items) : P.items[i] > c.after
    BY <1>9, <1>13 DEF W, Where
  <2>3. P.next # NoCursor => P.next.cutoff = cutoff /\ P.next.after > c.after /\ EndsBy(P.items, P.next.after)
    BY <1>11, <1>13, <1>14, <1>16
  <2>4. \A p \in P.present \ changed : Listed(table, p, f, cutoff)
    BY <1>13 DEF Where, Listed, Passes, Present
  <2>5. \A p \in Places \ changed :
          Listed(table, p, f, cutoff) /\ p > c.after /\ (P.next # NoCursor => p <= P.next.after) => p \in ToSet(P.items)
    <3> SUFFICES ASSUME NEW p \in Places, Listed(table, p, f, cutoff), p > c.after, P.next # NoCursor => p <= P.next.after
                 PROVE  p \in ToSet(P.items)
      OBVIOUS
    <3>1. p \in W
      BY DEF W, Where, Listed, Passes, Present
    <3> QED BY <1>12, <1>13, <1>14, <1>16, <3>1
  <2> QED BY <1>10, <1>13, <2>1, <2>2, <2>3, <2>4, <2>5 DEF AnswerIsWhole
<1> QED BY <1>15, <1>17 DEF P

(* The elements of a sequence.                                              *)
LEMMA InSequence ==
    ASSUME NEW S, NEW s \in Seq(S)
    PROVE  /\ \A x : x \in ToSet(s) <=> \E i \in 1 .. Len(s) : s[i] = x
           /\ Len(s) \in Nat /\ \A i \in 1 .. Len(s) : s[i] \in S
           /\ s # <<>> => 1 \in 1 .. Len(s) /\ Head(s) = s[1]
<1>1. DOMAIN s = 1 .. Len(s) /\ Len(s) \in Nat
  BY LenProperties
<1>2. \A i \in 1 .. Len(s) : s[i] \in S
  BY ElementOfSeq
<1>3. s # <<>> => Len(s) \in Nat \ {0}
  BY EmptySeq
<1> QED BY <1>1, <1>2, <1>3 DEF ToSet

(* What an answer adds to a list: what the list did not hold, in order.     *)
Adds(fresh, old, new) ==
    /\ fresh \in Seq(Places) /\ Ascends(fresh)
    /\ \A x : (\E i \in 1 .. Len(fresh) : fresh[i] = x) <=> x \in ToSet(new) /\ x \notin ToSet(old)

(* Putting what is left of an answer in order is such an addition.          *)
LEMMA FreshIs ==
    ASSUME NEW old \in Seq(Places), NEW new \in Seq(Places)
    PROVE  Adds(InOrder(ToSet(new) \ ToSet(old)), old, new)
<1> DEFINE fresh == InOrder(ToSet(new) \ ToSet(old))
<1> DEFINE D == ToSet(new) \ ToSet(old)
<1>0. fresh = InOrder(D)
  OBVIOUS
<1> HIDE DEF fresh
<1>1. D \subseteq Places
  BY InSequence
<1>2. D \in SUBSET Nat /\ IsFiniteSet(D)
  BY <1>1, ListConstants, FS_Subset
<1> HIDE DEF D
<1>3. fresh \in Seq(D) /\ Ascends(fresh) /\ ToSet(fresh) = D
  BY <1>0, <1>2, InOrderIs
<1>4. fresh \in Seq(Places)
  BY <1>1, <1>3, SeqMonotonic
<1>5. \A x : (\E i \in 1 .. Len(fresh) : fresh[i] = x) <=> x \in D
  BY <1>3, InSequence
<1>6. Adds(fresh, old, new)
  BY <1>3, <1>4, <1>5 DEF D, Adds
<1> QED BY <1>6 DEF fresh

(* What stays visible is the end of the list.                               *)
LEMMA VisibleIs ==
    ASSUME NEW s \in Seq(Places)
    PROVE  \E d \in Nat :
             /\ Visible(s) \in Seq(Places) /\ d + Len(Visible(s)) = Len(s) /\ Len(Visible(s)) \in Nat
             /\ \A i \in 1 .. Len(Visible(s)) : Visible(s)[i] = s[d + i]
             /\ s # <<>> => Visible(s) # <<>>
<1>1. Len(s) \in Nat /\ \A i \in 1 .. Len(s) : s[i] \in Places
  BY InSequence
<1>2. CASE Len(s) > VisibleLimit
  <2> DEFINE d == Len(s) - VisibleLimit
             t == SubSeq(s, d + 1, Len(s))
  <2>1. d \in Nat /\ d + 1 \in Int /\ d + 1 <= Len(s) /\ VisibleLimit \in Nat /\ VisibleLimit > 0
    BY <1>1, <1>2, ListConstants
  <2>2. \A i \in d + 1 .. Len(s) : s[i] \in Places
    BY <1>1, <2>1
  <2>3. Visible(s) = t
    BY <1>2 DEF Visible
  <2> HIDE DEF d
  <2>4. /\ t \in Seq(Places) /\ Len(t) = IF d + 1 <= Len(s) THEN Len(s) - (d + 1) + 1 ELSE 0
        /\ \A i \in 1 .. Len(s) - (d + 1) + 1 : t[i] = s[(d + 1) + i - 1]
    BY <1>1, <2>1, <2>2, SubSeqProperties
  <2> HIDE DEF t
  <2>5. d + Len(t) = Len(s) /\ Len(t) = Len(s) - d /\ Len(t) \in Nat
    BY <1>1, <2>1, <2>4
  <2>6. \A i \in 1 .. Len(t) : t[i] = s[d + i]
    <3> TAKE i \in 1 .. Len(t)
    <3>1. i \in 1 .. Len(s) - (d + 1) + 1 /\ (d + 1) + i - 1 = d + i
      BY <1>1, <2>1, <2>5
    <3>2. t[i] = s[(d + 1) + i - 1]
      BY <2>4, <3>1
    <3> QED BY <3>1, <3>2
  <2>7. t # <<>>
    <3>1. Len(t) > 0
      BY <1>1, <2>1, <2>5
    <3> QED BY <3>1
  <2> QED BY <2>1, <2>3, <2>4, <2>5, <2>6, <2>7
<1>3. CASE ~(Len(s) > VisibleLimit)
  <2>1. Visible(s) = s
    BY <1>3 DEF Visible
  <2>2. 0 \in Nat /\ 0 + Len(s) = Len(s) /\ \A i \in 1 .. Len(s) : s[i] = s[0 + i]
    BY <1>1
  <2> QED BY <1>1, <2>1, <2>2
<1> QED BY <1>2, <1>3

(* The list an answer is added to: the old rows, then the fresh ones.       *)
Joins(both, old, new) ==
    /\ both \in Seq(Places) /\ Distinct(both)
    /\ \A x : x \in ToSet(both) <=> x \in ToSet(old) \/ x \in ToSet(new)
    /\ old # <<>> => both # <<>> /\ Head(both) = Head(old)
    /\ \A at \in Nat :
         Ascends(old) /\ EndsBy(old, at) /\ (\A i \in 1 .. Len(new) : new[i] > at) => Ascends(both)

(* Adding an answer to a list joins the two.                                *)
LEMMA BothAre ==
    ASSUME NEW old \in Seq(Places), NEW new \in Seq(Places), Distinct(old)
    PROVE  Joins(old \o InOrder(ToSet(new) \ ToSet(old)), old, new)
<1> DEFINE both == old \o InOrder(ToSet(new) \ ToSet(old))
<1> DEFINE fresh == InOrder(ToSet(new) \ ToSet(old))
           n == Len(old)
           k == Len(fresh)
<1>0. Adds(fresh, old, new) /\ both = old \o fresh
  BY FreshIs
<1> HIDE DEF fresh
<1>1. /\ fresh \in Seq(Places) /\ Ascends(fresh)
      /\ \A x : (\E i \in 1 .. Len(fresh) : fresh[i] = x) <=> x \in ToSet(new) /\ x \notin ToSet(old)
  BY <1>0 DEF Adds
<1>2. both = old \o fresh
  BY <1>0
<1> HIDE DEF both
<1>3. n \in Nat /\ k \in Nat /\ \A x : x \in ToSet(old) <=> \E i \in 1 .. n : old[i] = x
  BY <1>1, InSequence
<1>4. both \in Seq(Places) /\ Len(both) = n + k
  BY <1>1, <1>2, ConcatProperties
<1>5. \A i \in 1 .. n + k : both[i] = IF i <= n THEN old[i] ELSE fresh[i - n]
  <2>1. \A i \in 1 .. Len(old) + Len(fresh) :
          (old \o fresh)[i] = IF i <= Len(old) THEN old[i] ELSE fresh[i - Len(old)]
    BY <1>1, ConcatProperties
  <2> QED BY <1>2, <2>1
<1> HIDE DEF n, k
<1>6. \A i \in 1 .. n : both[i] = old[i] /\ old[i] \in Places /\ old[i] \in Nat
  <2>1. \A i \in 1 .. n : old[i] \in Places
    BY InSequence DEF n
  <2>2. \A i \in 1 .. n : i \in 1 .. n + k /\ i <= n
    BY <1>3
  <2> QED BY <1>5, <2>1, <2>2, ListConstants
<1>7. \A i \in 1 .. k : both[n + i] = fresh[i] /\ fresh[i] \in Places /\ fresh[i] \in Nat
  <2>1. \A i \in 1 .. k : fresh[i] \in Places
    BY <1>1, InSequence DEF k
  <2>2. \A i \in 1 .. k : n + i \in 1 .. n + k /\ ~(n + i <= n) /\ (n + i) - n = i
    BY <1>3
  <2> QED BY <1>5, <2>1, <2>2, ListConstants
<1>8. \A i \in 1 .. n + k : i \in 1 .. n \/ (i - n \in 1 .. k /\ i = n + (i - n))
  BY <1>3
<1>9. \A x : x \in ToSet(both) <=> x \in ToSet(old) \/ x \in ToSet(new)
  <2>1. \A x : x \in ToSet(both) <=> \E i \in 1 .. n + k : both[i] = x
    <3>1. \A x : x \in ToSet(both) <=> \E i \in 1 .. Len(both) : both[i] = x
      BY <1>4, InSequence
    <3> QED BY <1>4, <3>1
  <2>2. ASSUME NEW x, x \in ToSet(both) PROVE x \in ToSet(old) \/ x \in ToSet(new)
    <3>1. PICK i \in 1 .. n + k : both[i] = x
      BY <2>1, <2>2
    <3>2. CASE i \in 1 .. n
      BY <1>3, <1>6, <3>1, <3>2
    <3>3. CASE i - n \in 1 .. k /\ i = n + (i - n)
      <4>1. fresh[i - n] = x
        BY <1>7, <3>1, <3>3
      <4> QED BY <1>1, <3>3, <4>1 DEF k
    <3> QED BY <1>8, <3>2, <3>3
  <2>3. ASSUME NEW x, x \in ToSet(old) PROVE x \in ToSet(both)
    <3>1. PICK i \in 1 .. n : old[i] = x
      BY <1>3, <2>3
    <3>2. i \in 1 .. n + k
      BY <1>3
    <3> QED BY <1>6, <2>1, <3>1, <3>2
  <2>4. ASSUME NEW x, x \in ToSet(new), x \notin ToSet(old) PROVE x \in ToSet(both)
    <3>1. PICK i \in 1 .. k : fresh[i] = x
      BY <1>1, <2>4 DEF k
    <3>2. n + i \in 1 .. n + k
      BY <1>3
    <3> QED BY <1>7, <2>1, <3>1, <3>2
  <2> QED BY <2>2, <2>3, <2>4
<1>10. Distinct(both)
  <2> SUFFICES ASSUME NEW i \in 1 .. n + k, NEW j \in 1 .. n + k, i < j PROVE both[i] # both[j]
    BY <1>4 DEF Distinct
  <2>1. CASE i \in 1 .. n /\ j \in 1 .. n
    BY <1>6, <2>1 DEF Distinct, n
  <2>2. CASE i \in 1 .. n /\ j - n \in 1 .. k /\ j = n + (j - n)
    <3>1. both[i] = old[i] /\ old[i] \in ToSet(old)
      BY <1>3, <1>6, <2>2
    <3>2. both[j] = fresh[j - n]
      BY <1>7, <2>2
    <3>3. fresh[j - n] \notin ToSet(old)
      BY <1>1, <2>2 DEF k
    <3> QED BY <3>1, <3>2, <3>3
  <2>3. CASE i - n \in 1 .. k /\ j - n \in 1 .. k /\ i = n + (i - n) /\ j = n + (j - n)
    <3>1. i - n < j - n
      BY <1>3
    <3>2. fresh[i - n] < fresh[j - n]
      BY <1>1, <2>3, <3>1 DEF Ascends, k
    <3>3. both[i] = fresh[i - n] /\ both[j] = fresh[j - n] 
      BY <1>7, <2>3
    <3>4. fresh[i - n] \in Nat /\ fresh[j - n] \in Nat
      BY <1>7, <2>3
    <3>5. fresh[i - n] # fresh[j - n]
      BY <3>2, <3>4
    <3> QED BY <3>3, <3>5
  <2>4. ~(j \in 1 .. n /\ i - n \in 1 .. k)
    BY <1>3
  <2> QED BY <1>8, <2>1, <2>2, <2>3, <2>4
<1>11. old # <<>> => both # <<>> /\ Head(both) = Head(old)
  <2> HAVE old # <<>>
  <2>1. 1 \in 1 .. n /\ Head(old) = old[1]
    BY InSequence DEF n
  <2>2. 1 \in 1 .. Len(both)
    BY <1>3, <1>4, <2>1
  <2>3. both # <<>>
    <3>1. Len(<<>>) = 0
      BY EmptySeq
    <3> QED BY <2>2, <3>1
  <2>4. Head(both) = both[1]
    BY <1>4, <2>3, InSequence
  <2> QED BY <1>6, <2>1, <2>3, <2>4
<1>12. ASSUME NEW at \in Nat, Ascends(old), EndsBy(old, at), \A i \in 1 .. Len(new) : new[i] > at
       PROVE  Ascends(both)
  <2> SUFFICES ASSUME NEW i \in 1 .. n + k, NEW j \in 1 .. n + k, i < j PROVE both[i] < both[j]
    BY <1>4 DEF Ascends
  <2>1. CASE i \in 1 .. n /\ j \in 1 .. n
    BY <1>6, <1>12, <2>1 DEF Ascends, n
  <2>2. CASE i \in 1 .. n /\ j - n \in 1 .. k /\ j = n + (j - n)
    <3>1. both[i] = old[i] /\ old[i] <= at /\ old[i] \in Nat
      BY <1>6, <1>12, <2>2 DEF EndsBy, n
    <3>2. both[j] = fresh[j - n] /\ fresh[j - n] \in Nat
      BY <1>7, <2>2
    <3>3. fresh[j - n] \in ToSet(new)
      BY <1>1, <2>2 DEF k
    <3>4. fresh[j - n] > at
      <4>1. PICK m \in 1 .. Len(new) : new[m] = fresh[j - n]
        BY <3>3, InSequence
      <4> QED BY <1>12, <4>1
    <3>5. old[i] < fresh[j - n]
      BY <3>1, <3>2, <3>4
    <3> QED BY <3>1, <3>2, <3>5
  <2>3. CASE i - n \in 1 .. k /\ j - n \in 1 .. k /\ i = n + (i - n) /\ j = n + (j - n)
    <3>1. i - n < j - n
      BY <1>3
    <3>2. fresh[i - n] < fresh[j - n]
      BY <1>1, <2>3, <3>1 DEF Ascends, k
    <3>3. both[i] = fresh[i - n] /\ both[j] = fresh[j - n]
      BY <1>7, <2>3
    <3> QED BY <3>2, <3>3
  <2>4. ~(j \in 1 .. n /\ i - n \in 1 .. k)
    BY <1>3
  <2> QED BY <1>8, <2>1, <2>2, <2>3, <2>4
<1>13. Joins(both, old, new)
  BY <1>4, <1>9, <1>10, <1>11, <1>12 DEF Joins
<1> QED BY <1>13 DEF both

(* What a page becomes when an answer is merged into it.                    *)
Follows(leaf, old, crossed, rows, done) ==
    leaf \in ListPages /\ leaf.loaded /\ leaf.filter = old.filter /\ PageIsWhole(leaf, crossed, rows, done)

(* An answer merged into the page it continues leaves a page that is whole. *)
LEMMA MergeKeeps ==
    ASSUME NEW old \in ListPages, NEW new \in ListPages, NEW c \in ListCursors, NEW crossed \in BOOLEAN,
           old.loaded, c.after \in Places, PageIsWhole(old, crossed, table, changed),
           AnswerIsWhole(new, c.filter, c.after, c.cutoff, table, changed),
           old.filter = c.filter, ~crossed => c = old.next
    PROVE  Follows(Merged(old, new, "append"), old, crossed, table, changed)
<1> DEFINE leaf == Merged(old, new, "append")
           both == old.items \o InOrder(ToSet(new.items) \ ToSet(old.items))
           hides == old.hidden \/ Len(both) > VisibleLimit
           shown == IF hides THEN Visible(both) ELSE both
           more == [new EXCEPT !.items = shown, !.hidden = hides, !.filter = old.filter, !.present = old.present]
<1>1. CASE leaf = old
  <2>1. Follows(leaf, old, crossed, table, changed)
    BY <1>1 DEF Follows
  <2> QED BY <2>1
<1>2. CASE leaf # old
  <2>1. leaf = more
    BY <1>2 DEF Merged
  <2>2. old.items \in Seq(Places) /\ new.items \in Seq(Places) /\ Distinct(old.items)
    BY DEF ListPages, PageIsWhole
  <2> DEFINE at == c.after
  <2>3. at \in Nat
    BY ListConstants
  <2>4. /\ both \in Seq(Places) /\ Distinct(both)
        /\ \A x : x \in ToSet(both) <=> x \in ToSet(old.items) \/ x \in ToSet(new.items)
        /\ old.items # <<>> => both # <<>> /\ Head(both) = Head(old.items)
        /\ Ascends(old.items) /\ EndsBy(old.items, at) /\ (\A i \in 1 .. Len(new.items) : new.items[i] > at) => Ascends(both)
    <3>1. Joins(both, old.items, new.items)
      BY <2>2, BothAre
    <3> HIDE DEF both
    <3> QED BY <2>3, <3>1 DEF Joins
  <2> HIDE DEF both
  <2>5. Len(both) \in Nat /\ (\A i \in 1 .. Len(both) : both[i] \in Places)
        /\ \A x : x \in ToSet(both) <=> \E i \in 1 .. Len(both) : both[i] = x
    BY <2>4, InSequence
  <2>6. hides \in BOOLEAN /\ (hides => both # <<>>)
    <3>1. old.hidden \in BOOLEAN /\ (old.hidden => old.items # <<>>)
      BY DEF ListPages, PageIsWhole
    <3>2. Len(both) > VisibleLimit => both # <<>>
      <4>1. Len(<<>>) = 0
        BY EmptySeq
      <4> QED BY <4>1, ListConstants
    <3> QED BY <2>4, <3>1, <3>2
  <2>7. PICK d \in Nat :
           /\ shown \in Seq(Places) /\ d + Len(shown) = Len(both) /\ Len(shown) \in Nat
           /\ \A i \in 1 .. Len(shown) : shown[i] = both[d + i]
           /\ both # <<>> => shown # <<>>
           /\ ~hides => d = 0
    <3>1. CASE hides
      <4>1. shown = Visible(both)
        BY <3>1
      <4> HIDE DEF shown, hides
      <4> QED BY <2>4, <3>1, <4>1, VisibleIs
    <3>2. CASE ~hides
      <4>1. shown = both
        BY <3>2
      <4>2. 0 + Len(both) = Len(both) /\ \A i \in 1 .. Len(both) : both[i] = both[0 + i]
        BY <2>5
      <4> HIDE DEF shown, hides
      <4> QED BY <2>4, <2>5, <4>1, <4>2
    <3> QED BY <3>1, <3>2
  <2>8. /\ leaf.items = shown /\ leaf.hidden = hides /\ leaf.filter = old.filter /\ leaf.present = old.present
        /\ leaf.next = new.next /\ leaf.loaded
        /\ leaf \in ListPages
    <3>0. new.loaded
      BY DEF AnswerIsWhole
    <3>1. old.filter \in AllFilters /\ old.present \in SUBSET Places
      BY DEF ListPages
    <3> HIDE DEF shown, hides, leaf
    <3>2. more.items = shown /\ more.hidden = hides /\ more.filter = old.filter /\ more.present = old.present
          /\ more.next = new.next /\ more.loaded = new.loaded
      BY DEF ListPages
    <3>3. more \in ListPages
      BY <2>6, <2>7, <3>1 DEF ListPages
    <3> HIDE DEF more
    <3> QED BY <2>1, <3>0, <3>2, <3>3
  <2>9. \A i \in 1 .. Len(shown) : d + i \in 1 .. Len(both) /\ shown[i] = both[d + i]
    BY <2>5, <2>7
  <2>10. hides => both # <<>> /\ shown # <<>>
    BY <2>6, <2>7
  <2> HIDE DEF shown, leaf
  <2>11. Distinct(shown)
    <3> SUFFICES ASSUME NEW i \in 1 .. Len(shown), NEW j \in 1 .. Len(shown), i < j PROVE shown[i] # shown[j]
      BY DEF Distinct
    <3>1. d + i \in 1 .. Len(both) /\ d + j \in 1 .. Len(both) /\ d + i < d + j
      BY <2>9
    <3>2. both[d + i] # both[d + j]
      BY <2>4, <3>1 DEF Distinct
    <3> QED BY <2>9, <3>2
  <2>12. Continues(leaf)
    BY <2>8 DEF Continues, AnswerIsWhole
  <2>13. ASSUME ~crossed
         PROVE  /\ Ascends(leaf.items)
                /\ leaf.next # NoCursor =>
                     /\ EndsBy(leaf.items, leaf.next.after)
                     /\ \A p \in leaf.present \ changed : Listed(table, p, leaf.next.filter, leaf.next.cutoff)
                /\ \A p \in leaf.present \ changed :
                     (leaf.hidden => p >= Head(leaf.items)) /\ (leaf.next # NoCursor => p <= leaf.next.after)
                       => p \in ToSet(leaf.items)
    <3>1. c = old.next /\ old.next # NoCursor
      <4>1. c # NoCursor
        BY <2>3, ListConstants
      <4> QED BY <2>13, <4>1
    <3>2. /\ Ascends(old.items) /\ EndsBy(old.items, at)
          /\ \A p \in old.present \ changed : Listed(table, p, c.filter, c.cutoff)
          /\ \A p \in old.present \ changed : (old.hidden => p >= Head(old.items)) /\ p <= at => p \in ToSet(old.items)
      BY <2>13, <3>1 DEF PageIsWhole
    <3>3. \A i \in 1 .. Len(new.items) : new.items[i] > at
      BY DEF AnswerIsWhole
    <3>4. Ascends(both)
      BY <2>4, <3>2, <3>3
    <3>5. Ascends(shown)
      <4> SUFFICES ASSUME NEW i \in 1 .. Len(shown), NEW j \in 1 .. Len(shown), i < j PROVE shown[i] < shown[j]
        BY DEF Ascends
      <4>1. d + i \in 1 .. Len(both) /\ d + j \in 1 .. Len(both) /\ d + i < d + j
        BY <2>9
      <4>2. both[d + i] < both[d + j]
        BY <3>4, <4>1 DEF Ascends
      <4> QED BY <2>9, <4>2
    <3>6. ASSUME new.next # NoCursor
          PROVE  /\ EndsBy(shown, new.next.after)
                 /\ \A p \in old.present \ changed : Listed(table, p, new.next.filter, new.next.cutoff)
      <4>1. /\ new.next.cutoff = c.cutoff /\ new.next.filter = c.filter /\ new.next.after > at
            /\ EndsBy(new.items, new.next.after) /\ new.next.after \in Nat
        BY <3>6, ListConstants DEF AnswerIsWhole, Continues
      <4>2. \A x \in ToSet(old.items) : x <= new.next.after
        <5> TAKE x \in ToSet(old.items)
        <5>1. PICK i \in 1 .. Len(old.items) : old.items[i] = x
          BY <2>2, InSequence
        <5>2. x <= at /\ x \in Nat
          BY <2>2, <3>2, <5>1, InSequence, ListConstants DEF EndsBy
        <5> QED BY <2>3, <4>1, <5>2
      <4>3. \A x \in ToSet(new.items) : x <= new.next.after
        <5> TAKE x \in ToSet(new.items)
        <5>1. PICK i \in 1 .. Len(new.items) : new.items[i] = x
          BY <2>2, InSequence
        <5> QED BY <4>1, <5>1 DEF EndsBy
      <4>4. \A i \in 1 .. Len(shown) : shown[i] \in ToSet(both)
        BY <2>5, <2>9
      <4>5. EndsBy(shown, new.next.after)
        BY <2>4, <4>2, <4>3, <4>4 DEF EndsBy
      <4> QED BY <3>2, <4>1, <4>5
    <3>7. ASSUME NEW p \in old.present \ changed,
                 hides => p >= Head(shown), new.next # NoCursor => p <= new.next.after
          PROVE  p \in ToSet(shown)
      <4>1. p \in Nat /\ p \in Places
        BY ListConstants DEF ListPages
      <4>2. hides => Head(shown) = both[d + 1] /\ d + 1 \in 1 .. Len(both) /\ Head(both) = both[1] /\ 1 \in 1 .. Len(both)
        <5> HAVE hides
        <5>1. 1 \in 1 .. Len(shown) /\ Head(shown) = shown[1]
          BY <2>7, <2>10, InSequence
        <5>2. 1 \in 1 .. Len(both) /\ Head(both) = both[1]
          BY <2>4, <2>10, InSequence
        <5> QED BY <2>9, <5>1, <5>2
      <4>3. p \in ToSet(both)
        <5>1. CASE p <= at
          <6>1. old.hidden => p >= Head(old.items)
            <7> HAVE old.hidden
            <7>1. old.items # <<>> /\ hides
              BY DEF PageIsWhole
            <7>2. Head(both) = Head(old.items)
              BY <2>4, <7>1
            <7>3. both[1] \in Nat /\ both[d + 1] \in Nat /\ p >= both[d + 1]
              BY <2>5, <3>7, <4>2, <7>1, ListConstants
            <7>4. both[1] <= both[d + 1]
              <8>1. CASE d = 0
                BY <7>3, <8>1
              <8>2. CASE d # 0
                <9>1. 1 < d + 1
                  BY <8>2
                <9>2. both[1] < both[d + 1]
                  BY <3>4, <4>2, <7>1, <9>1 DEF Ascends
                <9> QED BY <7>3, <9>2
              <8> QED BY <8>1, <8>2
            <7>5. p >= both[1]
              BY <4>1, <7>3, <7>4
            <7> QED BY <4>2, <7>1, <7>2, <7>5
          <6> QED BY <2>4, <3>2, <5>1, <6>1
        <5>2. CASE p > at
          <6>1. p \in ToSet(new.items)
            BY <3>2, <3>7, <4>1, <5>2 DEF AnswerIsWhole
          <6> QED BY <2>4, <6>1
        <5> QED BY <2>3, <4>1, <5>1, <5>2
      <4>4. PICK k \in 1 .. Len(both) : both[k] = p
        BY <2>5, <4>3
      <4>5. d < k
        <5>1. CASE hides
          <6>1. both[d + 1] \in Nat /\ p >= both[d + 1]
            BY <2>5, <3>7, <4>2, <5>1, ListConstants
          <6>2. k < d + 1 => both[k] < both[d + 1]
            BY <3>4, <4>2, <5>1 DEF Ascends
          <6>3. ~(k < d + 1)
            BY <4>1, <4>4, <6>1, <6>2
          <6> QED BY <6>3
        <5>2. CASE ~hides
          BY <2>7, <5>2
        <5> QED BY <5>1, <5>2
      <4>6. k - d \in 1 .. Len(shown) /\ d + (k - d) = k
        BY <2>5, <2>7, <4>5
      <4>7. shown[k - d] = p
        BY <2>9, <4>4, <4>6
      <4> QED BY <2>7, <4>6, <4>7, InSequence
    <3> HIDE DEF hides
    <3> QED BY <2>8, <3>5, <3>6, <3>7
  <2>14. PageIsWhole(leaf, crossed, table, changed)
    <3>1. leaf.hidden => leaf.items # <<>>
      BY <2>8, <2>10
    <3>2. Distinct(leaf.items)
      BY <2>8, <2>11
    <3> HIDE DEF hides
    <3> QED BY <2>12, <2>13, <3>1, <3>2 DEF PageIsWhole
  <2>15. Follows(leaf, old, crossed, table, changed)
    BY <2>8, <2>14 DEF Follows
  <2> QED BY <2>15 DEF leaf
<1> QED BY <1>1, <1>2

(* An answer to a first page is whole as it stands.                         *)
LEMMA FirstPageStands ==
    ASSUME NEW leaf \in ListPages, NEW f, NEW crossed \in BOOLEAN, FirstPageIsWhole(leaf, f, table, changed, listTick)
    PROVE  leaf.loaded /\ leaf.filter = f /\ PageIsWhole(leaf, crossed, table, changed)
<1>1. PICK cutoff \in 0 .. listTick : AnswerIsWhole(leaf, f, -1, cutoff, table, changed)
  BY DEF FirstPageIsWhole
<1>2. leaf.items \in Seq(Places) /\ leaf.present \in SUBSET Places
  BY DEF ListPages
<1>3. leaf.loaded /\ leaf.filter = f /\ ~leaf.hidden /\ Continues(leaf) /\ Ascends(leaf.items)
  BY <1>1 DEF AnswerIsWhole
<1>4. Distinct(leaf.items)
  <2> SUFFICES ASSUME NEW i \in 1 .. Len(leaf.items), NEW j \in 1 .. Len(leaf.items), i < j
               PROVE  leaf.items[i] # leaf.items[j]
    BY DEF Distinct
  <2>1. leaf.items[i] \in Nat /\ leaf.items[j] \in Nat
    BY <1>2, InSequence, ListConstants
  <2>2. leaf.items[i] < leaf.items[j]
    BY <1>3 DEF Ascends
  <2> QED BY <2>1, <2>2
<1>5. leaf.next # NoCursor => /\ EndsBy(leaf.items, leaf.next.after)
                              /\ \A p \in leaf.present \ changed : Listed(table, p, leaf.next.filter, leaf.next.cutoff)
  BY <1>1, <1>3 DEF AnswerIsWhole, Continues
<1>6. \A p \in leaf.present \ changed : (leaf.next # NoCursor => p <= leaf.next.after) => p \in ToSet(leaf.items)
  <2> SUFFICES ASSUME NEW p \in leaf.present \ changed, leaf.next # NoCursor => p <= leaf.next.after
               PROVE  p \in ToSet(leaf.items)
    OBVIOUS
  <2>0. p \in Places \ changed /\ p \in Nat
    BY <1>2, ListConstants
  <2>1. p \in Places \ changed /\ p > -1
    BY <2>0
  <2>2. Listed(table, p, f, cutoff)
    BY <1>1 DEF AnswerIsWhole
  <2> QED BY <1>1, <2>1, <2>2 DEF AnswerIsWhole
<1> QED BY <1>3, <1>4, <1>5, <1>6 DEF PageIsWhole

(* The invariant holds in the initial states.                               *)
LEMMA ListStarts == ListInit => ListInv
<1> SUFFICES ASSUME ListInit PROVE ListInv
  OBVIOUS
<1>0. FilterAll \in AllFilters /\ NoCursor \in ListCursors /\ <<>> \in Seq(Places) /\ {} \in SUBSET Places
  BY ListConstants, EmptySeq DEF AllFilters
<1>1. NoPage \in ListPages /\ ~NoPage.loaded
  BY <1>0 DEF NoPage, ListPages
<1>2. /\ reading \in ListReadings /\ reading.stage = "sent" /\ reading.filter = FilterAll
  BY <1>0, <1>1 DEF ListInit, NoReading, ListReadings
<1>3. /\ list \in ListScreens /\ list.page = NoPage /\ list.shown /\ list.filter = FilterAll
  BY <1>0, <1>1 DEF ListInit, ListScreens
<1>4. table \in [Places -> ListRows] /\ listTick \in Nat /\ paging \in SUBSET ListRequests /\ changed \in SUBSET Places
  <2>1. {NoRowAt} \cup [born : {0}, filter : Filters] \subseteq ListRows
    BY DEF ListRows
  <2> QED BY <2>1 DEF ListInit
<1>5. ListShape
  BY <1>2, <1>3, <1>4 DEF ListShape
<1>6. paging = {}
  BY DEF ListInit
<1>7. ScreenIsTrue
  BY <1>1, <1>3 DEF ScreenIsTrue
<1>8. ReadIsTrue
  BY <1>2, <1>3 DEF ReadIsTrue
<1>9. ListAnswersTheFilter
  BY <1>2 DEF ListAnswersTheFilter
<1>10. OneByNumber /\ \A q \in paging : RequestIsTrue(q) /\ NewestIsTrue(q)
  BY <1>6 DEF OneByNumber
<1> QED BY <1>5, <1>7, <1>8, <1>9, <1>10 DEF ListInv

(* Rows that change do not make an answer or a page less whole: it answers  *)
(* for the others.                                                          *)
LEMMA AnswerLasts ==
    ASSUME NEW leaf \in ListPages, NEW f, NEW after, NEW cutoff,
           NEW rows, NEW done, NEW rows2, NEW done2, done \subseteq done2,
           \A p \in Places \ done2 : rows2[p] = rows[p],
           AnswerIsWhole(leaf, f, after, cutoff, rows, done)
    PROVE  AnswerIsWhole(leaf, f, after, cutoff, rows2, done2)
<1>1. leaf.present \subseteq Places
  BY DEF ListPages
<1>2. \A p \in Places \ done2 : p \notin done /\ (Listed(rows2, p, f, cutoff) <=> Listed(rows, p, f, cutoff))
  BY DEF Listed
<1>3. \A p \in leaf.present \ done2 : Listed(rows2, p, f, cutoff)
  BY <1>1, <1>2 DEF AnswerIsWhole
<1>4. \A p \in Places \ done2 :
         Listed(rows2, p, f, cutoff) /\ p > after /\ (leaf.next # NoCursor => p <= leaf.next.after)
           => p \in ToSet(leaf.items)
  BY <1>2 DEF AnswerIsWhole
<1> QED BY <1>3, <1>4 DEF AnswerIsWhole

(* The same of a first page.                                                *)
LEMMA FirstPagesLast ==
    ASSUME NEW leaf \in ListPages, NEW rows, NEW done, NEW rows2, NEW done2, done \subseteq done2,
           \A p \in Places \ done2 : rows2[p] = rows[p],
           NEW f \in AllFilters, NEW now \in Nat, NEW now2 \in Nat, now <= now2,
           FirstPageIsWhole(leaf, f, rows, done, now)
    PROVE  FirstPageIsWhole(leaf, f, rows2, done2, now2)
<1>1. PICK cutoff \in 0 .. now : AnswerIsWhole(leaf, f, -1, cutoff, rows, done)
  BY DEF FirstPageIsWhole
<1>2. AnswerIsWhole(leaf, f, -1, cutoff, rows2, done2)
  BY <1>1, AnswerLasts
<1>3. cutoff \in 0 .. now2
  BY <1>1
<1> QED BY <1>2, <1>3 DEF FirstPageIsWhole

(* And of the page on the screen.                                           *)
LEMMA PagesLast ==
    ASSUME NEW leaf \in ListPages, NEW rows, NEW done, NEW rows2, NEW done2, done \subseteq done2,
           \A p \in Places \ done2 : rows2[p] = rows[p],
           NEW crossed \in BOOLEAN, PageIsWhole(leaf, crossed, rows, done)
    PROVE  PageIsWhole(leaf, crossed, rows2, done2)
<1>1. leaf.present \subseteq Places
  BY DEF ListPages
<1>2. \A p \in leaf.present \ done2 : \A f, cutoff :
         p \in leaf.present \ done /\ (Listed(rows2, p, f, cutoff) <=> Listed(rows, p, f, cutoff))
  BY <1>1 DEF Listed
<1>3. Distinct(leaf.items) /\ Continues(leaf) /\ (leaf.hidden => leaf.items # <<>>)
  BY DEF PageIsWhole
<1>4. ASSUME ~crossed, leaf.next # NoCursor
      PROVE  /\ EndsBy(leaf.items, leaf.next.after)
             /\ \A p \in leaf.present \ done2 : Listed(rows2, p, leaf.next.filter, leaf.next.cutoff)
  <2>1. /\ EndsBy(leaf.items, leaf.next.after)
        /\ \A p \in leaf.present \ done : Listed(rows, p, leaf.next.filter, leaf.next.cutoff)
    BY <1>4 DEF PageIsWhole
  <2> QED BY <1>2, <2>1
<1>5. ASSUME ~crossed
      PROVE  /\ Ascends(leaf.items)
             /\ \A p \in leaf.present \ done2 :
                  (leaf.hidden => p >= Head(leaf.items)) /\ (leaf.next # NoCursor => p <= leaf.next.after)
                    => p \in ToSet(leaf.items)
  <2>1. /\ Ascends(leaf.items)
        /\ \A p \in leaf.present \ done :
             (leaf.hidden => p >= Head(leaf.items)) /\ (leaf.next # NoCursor => p <= leaf.next.after)
               => p \in ToSet(leaf.items)
    BY <1>5 DEF PageIsWhole
  <2> QED BY <1>2, <2>1
<1> QED BY <1>3, <1>4, <1>5 DEF PageIsWhole

(* Steps of the table and of the clock keep the invariant.                  *)
LEMMA TableKeeps ==
    ASSUME ListInv, UNCHANGED <<list, reading, paging>>,
           table' \in [Places -> ListRows], changed' \in SUBSET Places, changed \subseteq changed',
           listTick' \in Nat, listTick <= listTick',
           \A p \in Places \ changed' : table'[p] = table[p]
    PROVE  ListInv'
<1>0. /\ ListShape /\ listTick \in Nat /\ list.page \in ListPages /\ list.crossed \in BOOLEAN
      /\ reading.answer \in ListPages /\ reading.filter \in AllFilters
      /\ \A q \in paging : q.answer \in ListPages /\ q.filter \in AllFilters
  BY DEF ListInv, ListShape, ListScreens, ListReadings, ListRequests
<1>1. ListShape'
  BY <1>0 DEF ListShape
<1>2. ScreenIsTrue'
  <2>1. list.page.loaded => PageIsWhole(list.page, list.crossed, table', changed')
    <3>1. list.page.loaded => PageIsWhole(list.page, list.crossed, table, changed)
      BY DEF ListInv, ScreenIsTrue
    <3> QED BY <1>0, <3>1, PagesLast
  <2> QED BY <2>1 DEF ListInv, ScreenIsTrue
<1>3. ASSUME NEW q \in paging' PROVE RequestIsTrue(q)'
  <2>1. RequestIsTrue(q) /\ q.answer \in ListPages /\ q.filter \in AllFilters
    BY <1>0, <1>3 DEF ListInv
  <2>2. q.stage = "ok" /\ q.mode = "replace" => FirstPageIsWhole(q.answer, q.filter, table', changed', listTick')
    BY <1>0, <2>1, FirstPagesLast DEF RequestIsTrue
  <2>3. q.stage = "ok" /\ q.mode = "append" =>
          AnswerIsWhole(q.answer, q.filter, q.cursor.after, q.cursor.cutoff, table', changed')
    BY <2>1, AnswerLasts DEF RequestIsTrue
  <2> QED BY <2>1, <2>2, <2>3 DEF RequestIsTrue
<1>4. OneByNumber' /\ ListAnswersTheFilter' /\ \A q \in paging' : NewestIsTrue(q)'
  BY DEF ListInv, OneByNumber, ListAnswersTheFilter, NewestIsTrue
<1>5. ReadIsTrue'
  <2>1. reading.stage = "served" => FirstPageIsWhole(reading.answer, reading.filter, table', changed', listTick')
    <3>1. reading.stage = "served" => FirstPageIsWhole(reading.answer, reading.filter, table, changed, listTick)
      BY DEF ListInv, ReadIsTrue
    <3> QED BY <1>0, <3>1, FirstPagesLast
  <2> QED BY <2>1 DEF ListInv, ReadIsTrue
<1> QED BY <1>1, <1>2, <1>3, <1>4, <1>5 DEF ListInv

(* Rows that appear or change, and the clock, keep the invariant.           *)
LEMMA RowsKeep ==
    ASSUME ListInv, ListTick \/ (\E f \in Filters : \E p \in Places : RowAppears(p, f) \/ RowChanges(p, f))
    PROVE  ListInv'
<1>0. table \in [Places -> ListRows] /\ listTick \in Nat /\ changed \in SUBSET Places
  BY DEF ListInv, ListShape
<1>1. CASE ListTick
  <2>1. UNCHANGED <<list, reading, paging, table, changed>> /\ listTick' = listTick + 1
    BY <1>1 DEF ListTick
  <2> QED BY <1>0, <2>1, TableKeeps
<1>2. ASSUME NEW p \in Places, NEW row \in ListRows, table' = [table EXCEPT ![p] = row],
             changed' = changed \cup {p}, UNCHANGED <<listTick, list, reading, paging>>
      PROVE  ListInv'
  <2>1. table' \in [Places -> ListRows] /\ changed' \in SUBSET Places /\ changed \subseteq changed'
    BY <1>0, <1>2
  <2>2. \A x \in Places \ changed' : table'[x] = table[x]
    BY <1>0, <1>2
  <2>3. listTick' \in Nat /\ listTick <= listTick'
    BY <1>0, <1>2
  <2> QED BY <1>2, <2>1, <2>2, <2>3, TableKeeps
<1>3. ASSUME NEW f \in Filters, NEW p \in Places, RowAppears(p, f) PROVE ListInv'
  <2> DEFINE row == [born |-> listTick, filter |-> f]
  <2>1. row \in ListRows
    BY <1>0 DEF ListRows
  <2>2. /\ table' = [table EXCEPT ![p] = row] /\ changed' = changed \cup {p}
        /\ UNCHANGED <<listTick, list, reading, paging>>
    BY <1>3 DEF RowAppears
  <2> HIDE DEF row
  <2> QED BY <1>2, <2>1, <2>2
<1>4. ASSUME NEW f \in Filters, NEW p \in Places, RowChanges(p, f) PROVE ListInv'
  <2> DEFINE row == [table[p] EXCEPT !.filter = f]
  <2>1. row \in ListRows
    <3>1. table[p] # NoRowAt
      BY <1>4 DEF RowChanges, Present
    <3>2. table[p] \in [born : Nat, filter : Filters]
      BY <1>0, <3>1 DEF ListRows
    <3> QED BY <3>2 DEF ListRows
  <2>2. table' = [table EXCEPT ![p] = row]
    BY <1>4 DEF RowChanges
  <2>3. changed' = changed \cup {p} /\ UNCHANGED <<listTick, list, reading, paging>>
    BY <1>4 DEF RowChanges
  <2> HIDE DEF row
  <2> QED BY <1>2, <2>1, <2>2, <2>3
<1> QED BY <1>1, <1>3, <1>4

(* The route's answer to the section's read keeps the invariant.            *)
LEMMA ServeReadingKeeps ==
    ASSUME ListInv, ServeReading
    PROVE  ListInv'
<1> DEFINE leaf == PageOf(reading.filter, NoCursor)
<1>0. /\ ListShape /\ reading \in ListReadings /\ reading.filter \in AllFilters /\ listTick \in Nat
  BY DEF ListInv, ListShape, ListReadings
<1>1. /\ reading' = [reading EXCEPT !.stage = "served", !.answer = leaf] /\ reading.stage = "sent"
      /\ UNCHANGED <<table, listTick, list, paging, changed>>
  BY DEF ServeReading
<1>2. leaf \in ListPages /\ AnswerIsWhole(leaf, reading.filter, -1, listTick, table, changed)
  <2>1. NoCursor \in ListCursors /\ NoCursor.after = -1
    BY ListConstants
  <2> QED BY <1>0, <2>1, PageOfIs
<1> HIDE DEF leaf
<1>3. FirstPageIsWhole(leaf, reading.filter, table, changed, listTick)
  <2>1. listTick \in 0 .. listTick
    BY <1>0
  <2> QED BY <1>2, <2>1 DEF FirstPageIsWhole
<1>4. reading' \in ListReadings /\ reading'.stage = "served" /\ reading'.answer = leaf /\ reading'.filter = reading.filter
  BY <1>0, <1>1, <1>2 DEF ListReadings
<1>5. ListShape'
  BY <1>0, <1>1, <1>4 DEF ListShape
<1>6. ReadIsTrue'
  BY <1>1, <1>3, <1>4 DEF ListInv, ReadIsTrue
<1>7. ScreenIsTrue' /\ OneByNumber' /\ \A q \in paging' : RequestIsTrue(q)' /\ NewestIsTrue(q)'
  BY <1>1 DEF ListInv, ScreenIsTrue, OneByNumber, RequestIsTrue, NewestIsTrue
<1>8. ListAnswersTheFilter'
  BY <1>4 DEF ListAnswersTheFilter
<1> QED BY <1>5, <1>6, <1>7, <1>8 DEF ListInv

(* The route's answer to "load more" or "start again" keeps the invariant.  *)
LEMMA ServeMoreKeeps ==
    ASSUME ListInv, NEW q \in paging, ServeMore(q)
    PROVE  ListInv'
<1> DEFINE check == IF q.cursor = NoCursor THEN "ok" ELSE CursorCheck(q.cursor, q.filter)
           answer == IF check = "ok" THEN PageOf(q.filter, q.cursor) ELSE NoPage
           m == [q EXCEPT !.stage = check, !.answer = answer]
<1>0. /\ ListShape /\ q \in ListRequests /\ q.filter \in AllFilters /\ q.cursor \in ListCursors /\ listTick \in Nat
      /\ paging \in SUBSET ListRequests /\ RequestIsTrue(q) /\ NewestIsTrue(q)
  BY DEF ListInv, ListShape, ListRequests
<1>1. /\ paging' = (paging \ {q}) \cup {m}
      /\ UNCHANGED <<table, listTick, list, reading, changed>>
  BY DEF ServeMore
<1>2. check \in {"ok", "CURSOR_EXPIRED", "CURSOR_FILTER_MISMATCH"}
  BY DEF CursorCheck
<1>3. check = "ok" /\ q.cursor # NoCursor => q.cursor.filter = q.filter
  BY DEF CursorCheck
<1>4. q.cursor # NoCursor <=> q.mode = "append"
  <2>1. q.mode \in {"append", "replace"}
    BY <1>0 DEF ListRequests
  <2>2. q.mode = "append" => q.cursor.after \in Nat
    BY <1>0, ListConstants DEF RequestIsTrue
  <2>3. NoCursor.after = -1
    BY ListConstants
  <2> QED BY <1>0, <2>1, <2>2, <2>3 DEF RequestIsTrue
<1>5. check = "ok" =>
        /\ answer \in ListPages
        /\ AnswerIsWhole(answer, q.filter, q.cursor.after,
                         IF q.cursor = NoCursor THEN listTick ELSE q.cursor.cutoff, table, changed)
  <2>1. q.cursor # NoCursor => q.cursor.after \in Places
    BY <1>0, <1>4 DEF RequestIsTrue
  <2> HIDE DEF check
  <2> HAVE check = "ok"
  <2>2. answer = PageOf(q.filter, q.cursor)
    OBVIOUS
  <2> QED BY <1>0, <2>1, <2>2, PageOfIs
<1>6. NoPage \in ListPages
  BY ListConstants, EmptySeq DEF NoPage, ListPages, AllFilters
<1>7. answer \in ListPages
  BY <1>5, <1>6
<1> HIDE DEF check, answer
<1>8. /\ m \in ListRequests /\ m.stage = check /\ m.answer = answer /\ m.cursor = q.cursor /\ m.mode = q.mode
      /\ m.filter = q.filter /\ m.request = q.request
  BY <1>0, <1>2, <1>7 DEF ListRequests
<1> HIDE DEF m
<1>9. ListShape'
  <2>1. paging' \in SUBSET ListRequests
    BY <1>0, <1>1, <1>8
  <2> QED BY <1>0, <1>1, <2>1 DEF ListShape
<1>10. RequestIsTrue(m)
  <2>1. m.stage = "ok" /\ m.mode = "append" =>
          /\ m.cursor.filter = m.filter
          /\ AnswerIsWhole(m.answer, m.filter, m.cursor.after, m.cursor.cutoff, table, changed)
    BY <1>3, <1>4, <1>5, <1>8
  <2>2. ASSUME m.stage = "ok", m.mode = "replace" PROVE FirstPageIsWhole(m.answer, m.filter, table, changed, listTick)
    <3>1. q.cursor = NoCursor /\ NoCursor.after = -1
      BY <1>0, <1>8, <2>2, ListConstants DEF RequestIsTrue
    <3>2. AnswerIsWhole(answer, q.filter, -1, listTick, table, changed)
      BY <1>5, <1>8, <2>2, <3>1
    <3>3. listTick \in 0 .. listTick
      BY <1>0
    <3> QED BY <1>8, <3>2, <3>3 DEF FirstPageIsWhole
  <2> QED BY <1>0, <1>8, <2>1, <2>2 DEF RequestIsTrue
<1>11. NewestIsTrue(m)
  BY <1>0, <1>8 DEF NewestIsTrue
<1>12. ASSUME NEW k \in paging' PROVE RequestIsTrue(k)' /\ NewestIsTrue(k)'
  <2>1. RequestIsTrue(k) /\ NewestIsTrue(k)
    BY <1>1, <1>10, <1>11, <1>12 DEF ListInv
  <2> QED BY <1>1, <2>1 DEF RequestIsTrue, NewestIsTrue
<1>13. OneByNumber'
  BY <1>1, <1>8 DEF ListInv, OneByNumber
<1>14. ScreenIsTrue' /\ ReadIsTrue' /\ ListAnswersTheFilter'
  BY <1>1 DEF ListInv, ScreenIsTrue, ReadIsTrue, ListAnswersTheFilter
<1> QED BY <1>9, <1>12, <1>13, <1>14 DEF ListInv

(* The effect of the section keeps the invariant: what is shown is read     *)
(* anew, and the requests of before are no longer the newest.               *)
LEMMA EffectKeeps ==
    ASSUME ListInv, NEW s \in ListScreens, Effect(s), UNCHANGED <<table, listTick, paging, changed>>,
           s.page = list.page, s.request = list.request, s.crossed = list.crossed
    PROVE  ListInv'
<1>0. /\ ListShape /\ list \in ListScreens /\ paging \in SUBSET ListRequests
      /\ s.request \in Nat /\ s.filter \in AllFilters
      /\ \A q \in paging : q.request \in Nat /\ q.request <= list.request
  BY DEF ListInv, ListShape, ListScreens, ListRequests, RequestIsTrue
<1>1. NoPage \in ListPages
  BY ListConstants, EmptySeq DEF NoPage, ListPages, AllFilters
<1>2. /\ list' \in ListScreens /\ list'.page = list.page /\ list'.crossed = list.crossed
      /\ list'.shown = s.shown /\ list'.filter = s.filter /\ list'.request \in Nat
      /\ list'.request = IF s.shown THEN list.request + 1 ELSE list.request
  <2>1. CASE s.shown
    <3>1. list' = [Invalidated(s) EXCEPT !.failed = FALSE]
      BY <2>1 DEF Effect
    <3> DEFINE up == s.request + 1
    <3>2. Invalidated(s) = [s EXCEPT !.request = up, !.loading = FALSE, !.restart = FALSE] /\ up \in Nat
      BY <1>0 DEF Invalidated
    <3>3. up = list.request + 1
      OBVIOUS
    <3> HIDE DEF up
    <3>4. /\ Invalidated(s) \in ListScreens /\ Invalidated(s).page = s.page /\ Invalidated(s).crossed = s.crossed
          /\ Invalidated(s).shown = s.shown /\ Invalidated(s).filter = s.filter /\ Invalidated(s).request = up
      BY <3>2 DEF ListScreens
    <3>5. /\ list' \in ListScreens /\ list'.page = s.page /\ list'.crossed = s.crossed
          /\ list'.shown = s.shown /\ list'.filter = s.filter /\ list'.request = up
      BY <3>1, <3>4 DEF ListScreens
    <3> QED BY <2>1, <3>2, <3>3, <3>5
  <2>2. CASE ~s.shown
    <3>1. list' = [s EXCEPT !.failed = FALSE]
      BY <2>2 DEF Effect
    <3>2. /\ list' \in ListScreens /\ list'.page = s.page /\ list'.crossed = s.crossed
          /\ list'.shown = s.shown /\ list'.filter = s.filter /\ list'.request = s.request
      BY <3>1 DEF ListScreens
    <3> QED BY <1>0, <2>2, <3>2
  <2> QED BY <2>1, <2>2
<1>3. /\ reading' \in ListReadings
      /\ IF s.shown THEN reading'.stage = "sent" /\ reading'.filter = s.filter ELSE reading'.stage = "none"
  <2>1. NoReading \in ListReadings /\ NoReading.stage = "none"
    BY <1>1 DEF NoReading, ListReadings, AllFilters
  <2>2. CASE s.shown
    <3>1. reading' = [NoReading EXCEPT !.stage = "sent", !.filter = s.filter]
      BY <2>2 DEF Effect
    <3> QED BY <1>0, <2>1, <2>2, <3>1 DEF ListReadings
  <2>3. CASE ~s.shown
    <3>1. reading' = NoReading
      BY <2>3 DEF Effect
    <3> QED BY <2>1, <2>3, <3>1
  <2> QED BY <2>2, <2>3
<1>4. ListShape'
  BY <1>0, <1>2, <1>3 DEF ListShape
<1>5. ScreenIsTrue'
  BY <1>2 DEF ListInv, ScreenIsTrue
<1>6. ASSUME NEW q \in paging' PROVE RequestIsTrue(q)' /\ NewestIsTrue(q)'
  <2>1. RequestIsTrue(q) /\ NewestIsTrue(q) /\ q.request \in Nat /\ list.request \in Nat
    BY <1>0, <1>6 DEF ListInv, ListScreens
  <2>2. q.request <= list'.request
    BY <1>0, <1>2, <1>6, <2>1
  <2>3. RequestIsTrue(q)'
    BY <2>1, <2>2 DEF RequestIsTrue
  <2>4. CASE s.shown
    <3>1. q.request # list'.request
      BY <1>0, <1>2, <1>6, <2>1, <2>4
    <3> QED BY <2>3, <3>1 DEF NewestIsTrue
  <2>5. CASE ~s.shown
    <3>1. list'.request = list.request /\ ~list'.shown
      BY <1>2, <2>5
    <3> QED BY <1>2, <2>1, <2>3, <3>1 DEF NewestIsTrue
  <2> QED BY <2>4, <2>5
<1>7. OneByNumber'
  BY DEF ListInv, OneByNumber
<1>8. ReadIsTrue'
  BY <1>2, <1>3 DEF ReadIsTrue
<1>9. ListAnswersTheFilter'
  BY <1>2, <1>3 DEF ListAnswersTheFilter
<1> QED BY <1>4, <1>5, <1>6, <1>7, <1>8, <1>9 DEF ListInv

(* Another filter, another section and a refresh keep the invariant.        *)
LEMMA SectionKeeps ==
    ASSUME ListInv, SwitchSection \/ RefreshActive \/ (\E f \in AllFilters : ChangeFilter(f))
    PROVE  ListInv'
<1>0. list \in ListScreens
  BY DEF ListInv, ListShape
<1>1. CASE RefreshActive
  BY <1>0, <1>1, EffectKeeps DEF RefreshActive
<1>2. CASE SwitchSection
  <2> DEFINE s == [list EXCEPT !.shown = ~@]
  <2>1. s \in ListScreens /\ s.page = list.page /\ s.request = list.request /\ s.crossed = list.crossed
    BY <1>0 DEF ListScreens
  <2>2. Effect(s) /\ UNCHANGED <<table, listTick, paging, changed>>
    BY <1>2 DEF SwitchSection
  <2> HIDE DEF s
  <2> QED BY <2>1, <2>2, EffectKeeps
<1>3. ASSUME NEW f \in AllFilters, ChangeFilter(f) PROVE ListInv'
  <2> DEFINE s == [list EXCEPT !.filter = f]
  <2>1. s \in ListScreens /\ s.page = list.page /\ s.request = list.request /\ s.crossed = list.crossed
    BY <1>0 DEF ListScreens
  <2>2. Effect(s) /\ UNCHANGED <<table, listTick, paging, changed>>
    BY <1>3 DEF ChangeFilter
  <2> HIDE DEF s
  <2> QED BY <2>1, <2>2, EffectKeeps
<1> QED BY <1>1, <1>2, <1>3

(* The section's read, arrived or failed, keeps the invariant.              *)
LEMMA ReadingKeeps ==
    ASSUME ListInv, ReadingArrives \/ ReadingFails
    PROVE  ListInv'
<1>0. /\ ListShape /\ list \in ListScreens /\ reading \in ListReadings /\ reading.answer \in ListPages
      /\ list.shown /\ reading.filter = list.filter
  <2>1. reading.stage # "none"
    BY DEF ReadingArrives, ReadingFails
  <2> QED BY <2>1 DEF ListInv, ListShape, ListReadings, ReadIsTrue
<1>1. reading' = NoReading /\ UNCHANGED <<table, listTick, paging, changed>>
  BY DEF ReadingArrives, ReadingFails
<1>2. NoReading \in ListReadings /\ NoReading.stage = "none"
  <2>1. NoPage \in ListPages
    BY ListConstants, EmptySeq DEF NoPage, ListPages, AllFilters
  <2> QED BY <2>1 DEF NoReading, ListReadings, AllFilters
<1>3. ReadIsTrue' /\ OneByNumber'
  BY <1>1, <1>2 DEF ListInv, ReadIsTrue, OneByNumber
<1>4. CASE ReadingFails
  <2>1. list' = [list EXCEPT !.failed = TRUE]
    BY <1>4 DEF ReadingFails
  <2>2. /\ list' \in ListScreens /\ list'.page = list.page /\ list'.crossed = list.crossed /\ list'.failed
        /\ list'.shown = list.shown /\ list'.filter = list.filter /\ list'.request = list.request
    BY <1>0, <2>1 DEF ListScreens
  <2>3. ListShape'
    BY <1>0, <1>1, <1>2, <2>2 DEF ListShape
  <2>4. ScreenIsTrue' /\ \A q \in paging' : RequestIsTrue(q)' /\ NewestIsTrue(q)'
    BY <1>1, <2>2 DEF ListInv, ScreenIsTrue, RequestIsTrue, NewestIsTrue
  <2>5. ListAnswersTheFilter'
    BY <2>2 DEF ListAnswersTheFilter
  <2> QED BY <1>3, <2>3, <2>4, <2>5 DEF ListInv
<1>5. CASE ReadingArrives
  <2> DEFINE leaf == reading.answer
             caught == \E q \in paging : q.request = list.request
  <2>1. list' = [list EXCEPT !.page = leaf, !.restart = FALSE, !.crossed = caught] /\ reading.stage = "served"
    BY <1>5 DEF ReadingArrives, Merged
  <2>2. FirstPageIsWhole(leaf, list.filter, table, changed, listTick)
    BY <1>0, <2>1 DEF ListInv, ReadIsTrue
  <2> HIDE DEF leaf
  <2>3. caught \in BOOLEAN
    OBVIOUS
  <2>4. leaf \in ListPages
    BY <1>0 DEF leaf
  <2>5. leaf.loaded /\ leaf.filter = list.filter /\ PageIsWhole(leaf, caught, table, changed)
    BY <2>2, <2>3, <2>4, FirstPageStands
  <2> HIDE DEF caught
  <2>6. /\ list' \in ListScreens /\ list'.page = leaf /\ list'.crossed = caught
        /\ list'.shown = list.shown /\ list'.filter = list.filter /\ list'.request = list.request
    BY <1>0, <2>1, <2>3, <2>4 DEF ListScreens
  <2>7. ListShape'
    BY <1>0, <1>1, <1>2, <2>6 DEF ListShape
  <2>8. ScreenIsTrue'
    BY <1>1, <2>5, <2>6 DEF ScreenIsTrue
  <2>9. ASSUME NEW q \in paging' PROVE RequestIsTrue(q)' /\ NewestIsTrue(q)'
    <3>1. RequestIsTrue(q) /\ NewestIsTrue(q) /\ q \in paging
      BY <1>1, <2>9 DEF ListInv
    <3>2. RequestIsTrue(q)'
      BY <1>1, <2>6, <3>1 DEF RequestIsTrue
    <3>3. q.request = list.request => caught
      BY <3>1 DEF caught
    <3>4. NewestIsTrue(q)'
      BY <1>0, <2>5, <2>6, <3>1, <3>3 DEF NewestIsTrue
    <3> QED BY <3>2, <3>4
  <2>10. ListAnswersTheFilter'
    BY <2>5, <2>6 DEF ListAnswersTheFilter
  <2> QED BY <1>3, <2>7, <2>8, <2>9, <2>10 DEF ListInv
<1> QED BY <1>4, <1>5

(* Asking for more, or to start again, keeps the invariant.                 *)
LEMMA LoadMoreKeeps ==
    ASSUME ListInv, NEW mode \in {"append", "replace"}, LoadMore(mode)
    PROVE  ListInv'
<1> DEFINE up == list.request + 1
           m == [request |-> up, filter |-> list.filter, mode |-> mode,
                 cursor |-> IF mode = "append" THEN list.page.next ELSE NoCursor,
                 stage |-> "sent", answer |-> NoPage]
<1>0. /\ ListShape /\ list \in ListScreens /\ paging \in SUBSET ListRequests /\ list.shown
      /\ list.request \in Nat /\ list.filter \in AllFilters /\ list.page \in ListPages
      /\ \A q \in paging : q.request \in Nat /\ q.request <= list.request
  BY DEF ListInv, ListShape, ListScreens, ListRequests, RequestIsTrue, LoadMore
<1>1. /\ paging' = paging \cup {m} /\ UNCHANGED <<table, listTick, reading, changed>>
      /\ mode = "append" => list.page.next # NoCursor
  BY DEF LoadMore
<1>2. list' = [list EXCEPT !.request = up, !.loading = TRUE,
                           !.restart = IF mode = "replace" THEN FALSE ELSE @]
  BY DEF LoadMore
<1>3. up \in Nat /\ up > list.request
  BY <1>0
<1>4. NoPage \in ListPages /\ NoPage.next = NoCursor
  BY ListConstants, EmptySeq DEF NoPage, ListPages, AllFilters
<1> HIDE DEF up
<1>5. /\ list' \in ListScreens /\ list'.page = list.page /\ list'.crossed = list.crossed /\ list'.failed = list.failed
      /\ list'.shown = list.shown /\ list'.filter = list.filter /\ list'.request = up
  BY <1>0, <1>2, <1>3 DEF ListScreens
<1>6. /\ m \in ListRequests /\ m.request = up /\ m.filter = list.filter /\ m.mode = mode /\ m.stage = "sent"
      /\ m.cursor = IF mode = "append" THEN list.page.next ELSE NoCursor
  <2>1. list.page.next \in ListCursors
    BY <1>0 DEF ListPages
  <2> QED BY <1>0, <1>3, <1>4, <2>1, ListConstants DEF ListRequests
<1> HIDE DEF m
<1>7. ListShape'
  <2>1. paging' \in SUBSET ListRequests
    BY <1>0, <1>1, <1>6
  <2> QED BY <1>0, <1>1, <1>5, <2>1 DEF ListShape
<1>8. mode = "append" => /\ list.page.loaded /\ list.page.next.after \in Places
                         /\ list.page.next.filter = list.page.filter
  <2> HAVE mode = "append"
  <2>1. list.page.loaded
    BY <1>1, <1>4 DEF ListInv, ScreenIsTrue
  <2> QED BY <1>1, <2>1 DEF ListInv, ScreenIsTrue, PageIsWhole, Continues
<1>9. ASSUME NEW q \in paging' PROVE RequestIsTrue(q)' /\ NewestIsTrue(q)'
  <2>1. CASE q = m
    <3>1. RequestIsTrue(q)'
      BY <1>3, <1>5, <1>6, <1>8, <2>1 DEF RequestIsTrue
    <3>2. NewestIsTrue(q)'
      BY <1>5, <1>6, <1>8, <2>1 DEF NewestIsTrue
    <3> QED BY <3>1, <3>2
  <2>2. CASE q \in paging
    <3>1. RequestIsTrue(q) /\ q.request \in Nat
      BY <1>0, <2>2 DEF ListInv
    <3>2. q.request <= up /\ q.request # up
      BY <1>0, <1>3, <2>2
    <3>3. RequestIsTrue(q)'
      BY <1>1, <1>5, <3>1, <3>2 DEF RequestIsTrue
    <3> QED BY <1>5, <3>2, <3>3 DEF NewestIsTrue
  <2> QED BY <1>1, <1>9, <2>1, <2>2
<1>10. OneByNumber'
  <2>1. \A q \in paging : q.request # m.request
    BY <1>0, <1>3, <1>6
  <2> QED BY <1>1, <2>1 DEF ListInv, OneByNumber
<1>11. ScreenIsTrue' /\ ReadIsTrue' /\ ListAnswersTheFilter'
  BY <1>1, <1>5 DEF ListInv, ScreenIsTrue, ReadIsTrue, ListAnswersTheFilter
<1> QED BY <1>7, <1>9, <1>10, <1>11 DEF ListInv

(* What the newest request brings is the page shown from then on.           *)
LEMMA NewestArrives ==
    ASSUME ListInv, NEW q \in paging, q.request = list.request, q.stage = "ok",
           NEW leaf, leaf = Merged(list.page, q.answer, q.mode),
           NEW crossed, crossed = IF q.mode = "replace" THEN FALSE ELSE list.crossed
    PROVE  /\ leaf \in ListPages /\ leaf.loaded /\ crossed \in BOOLEAN
           /\ PageIsWhole(leaf, crossed, table, changed)
           /\ list.shown => leaf.filter = list.filter
<1>0. /\ q \in ListRequests /\ q.answer \in ListPages /\ q.cursor \in ListCursors /\ RequestIsTrue(q) /\ NewestIsTrue(q)
      /\ list.page \in ListPages /\ list.crossed \in BOOLEAN /\ q.mode \in {"append", "replace"}
  BY DEF ListInv, ListShape, ListRequests, ListScreens
<1>1. list.shown => q.filter = list.filter
  BY <1>0 DEF NewestIsTrue
<1>2. CASE q.mode = "replace"
  <2>1. leaf = q.answer /\ crossed = FALSE
    BY <1>2 DEF Merged
  <2>2. FirstPageIsWhole(q.answer, q.filter, table, changed, listTick)
    BY <1>0, <1>2 DEF RequestIsTrue
  <2> QED BY <1>0, <1>1, <2>1, <2>2, FirstPageStands
<1>3. CASE q.mode = "append"
  <2>1. /\ q.cursor.after \in Places /\ q.cursor.filter = q.filter
        /\ AnswerIsWhole(q.answer, q.cursor.filter, q.cursor.after, q.cursor.cutoff, table, changed)
    BY <1>0, <1>3 DEF RequestIsTrue
  <2>2. /\ list.page.loaded /\ list.page.filter = q.cursor.filter
        /\ ~list.crossed => q.cursor = list.page.next
    BY <1>0, <1>3, <2>1 DEF NewestIsTrue
  <2>3. PageIsWhole(list.page, list.crossed, table, changed)
    BY <2>2 DEF ListInv, ScreenIsTrue
  <2>4. leaf = Merged(list.page, q.answer, "append") /\ crossed = list.crossed
    BY <1>3
  <2>5. Follows(leaf, list.page, crossed, table, changed)
    BY <1>0, <2>1, <2>2, <2>3, <2>4, MergeKeeps
  <2> QED BY <1>0, <1>1, <2>1, <2>2, <2>4, <2>5 DEF Follows
<1> QED BY <1>0, <1>2, <1>3

(* The answers of such requests keep the invariant.                         *)
LEMMA MoreKeeps ==
    ASSUME ListInv, NEW q \in paging, MoreArrives(q) \/ MoreFails(q)
    PROVE  ListInv'
<1>0. /\ ListShape /\ list \in ListScreens /\ paging \in SUBSET ListRequests
  BY DEF ListInv, ListShape
<1>1. paging' = paging \ {q} /\ UNCHANGED <<table, listTick, reading, changed>>
  BY DEF MoreArrives, MoreFails
<1>2. OneByNumber'
  BY <1>1 DEF ListInv, OneByNumber
<1>3. CASE list' = list
  <2>1. ListShape'
    BY <1>0, <1>1, <1>3 DEF ListShape
  <2>2. ScreenIsTrue' /\ ReadIsTrue' /\ ListAnswersTheFilter' /\ \A k \in paging' : RequestIsTrue(k)' /\ NewestIsTrue(k)'
    BY <1>1, <1>3 DEF ListInv, ScreenIsTrue, ReadIsTrue, ListAnswersTheFilter, RequestIsTrue, NewestIsTrue
  <2> QED BY <1>2, <2>1, <2>2 DEF ListInv
<1>4. ASSUME IsNewest(q), list' \in ListScreens, list'.shown = list.shown, list'.filter = list.filter,
             list'.request = list.request,
             \/ list'.page = list.page /\ list'.crossed = list.crossed /\ list'.failed
             \/ /\ list'.page.loaded /\ PageIsWhole(list'.page, list'.crossed, table, changed)
                /\ list.shown => list'.page.filter = list.filter
      PROVE  ListInv'
  <2>1. ListShape'
    BY <1>0, <1>1, <1>4 DEF ListShape
  <2>2. ScreenIsTrue'
    BY <1>1, <1>4 DEF ListInv, ScreenIsTrue
  <2>3. ASSUME NEW k \in paging' PROVE RequestIsTrue(k)' /\ NewestIsTrue(k)'
    <3>1. RequestIsTrue(k) /\ k.request # list.request
      BY <1>1, <1>4, <2>3 DEF ListInv, OneByNumber, IsNewest
    <3> QED BY <1>1, <1>4, <3>1 DEF RequestIsTrue, NewestIsTrue
  <2>4. ReadIsTrue'
    BY <1>1, <1>4 DEF ListInv, ReadIsTrue
  <2>5. ListAnswersTheFilter'
    BY <1>1, <1>4 DEF ListAnswersTheFilter
  <2> QED BY <1>2, <2>1, <2>2, <2>3, <2>4, <2>5 DEF ListInv
<1>5. CASE MoreFails(q) /\ IsNewest(q)
  <2>1. list' = [list EXCEPT !.loading = FALSE, !.failed = TRUE]
    BY <1>5 DEF MoreFails
  <2>2. /\ list' \in ListScreens /\ list'.page = list.page /\ list'.crossed = list.crossed /\ list'.failed
        /\ list'.shown = list.shown /\ list'.filter = list.filter /\ list'.request = list.request
    BY <1>0, <2>1 DEF ListScreens
  <2> QED BY <1>4, <1>5, <2>2
<1>6. CASE MoreArrives(q) /\ IsNewest(q) /\ q.stage # "ok"
  <2> DEFINE again == list.restart \/ q.stage = "CURSOR_EXPIRED"
  <2>1. list' = [list EXCEPT !.loading = FALSE, !.failed = TRUE, !.restart = again]
    BY <1>6 DEF MoreArrives
  <2>2. again \in BOOLEAN
    BY <1>0 DEF ListScreens
  <2> HIDE DEF again
  <2>3. /\ list' \in ListScreens /\ list'.page = list.page /\ list'.crossed = list.crossed /\ list'.failed
        /\ list'.shown = list.shown /\ list'.filter = list.filter /\ list'.request = list.request
    BY <1>0, <2>1, <2>2 DEF ListScreens
  <2> QED BY <1>4, <1>6, <2>3
<1>7. CASE MoreArrives(q) /\ IsNewest(q) /\ q.stage = "ok"
  <2> DEFINE leaf == Merged(list.page, q.answer, q.mode)
             crossed == IF q.mode = "replace" THEN FALSE ELSE list.crossed
  <2>1. list' = [list EXCEPT !.page = leaf, !.loading = FALSE, !.failed = FALSE, !.crossed = crossed]
    BY <1>7 DEF MoreArrives
  <2>2. /\ leaf \in ListPages /\ leaf.loaded /\ crossed \in BOOLEAN
        /\ PageIsWhole(leaf, crossed, table, changed)
        /\ list.shown => leaf.filter = list.filter
    BY <1>7, NewestArrives DEF IsNewest
  <2> HIDE DEF leaf, crossed
  <2>3. /\ list' \in ListScreens /\ list'.page = leaf /\ list'.crossed = crossed
        /\ list'.shown = list.shown /\ list'.filter = list.filter /\ list'.request = list.request
    BY <1>0, <2>1, <2>2 DEF ListScreens
  <2> QED BY <1>4, <1>7, <2>2, <2>3
<1>8. CASE ~IsNewest(q)
  BY <1>3, <1>8 DEF MoreArrives, MoreFails
<1> QED BY <1>5, <1>6, <1>7, <1>8

(* Every step keeps the invariant.                                          *)
LEMMA ListKeeps == ListInv /\ [ListNext]_listVars => ListInv'
<1> SUFFICES ASSUME ListInv, [ListNext]_listVars PROVE ListInv'
  OBVIOUS
<1>1. CASE UNCHANGED listVars
  <2>1. UNCHANGED <<list, reading, paging, table, changed, listTick>>
    BY <1>1 DEF listVars
  <2>2. table \in [Places -> ListRows] /\ listTick \in Nat /\ changed \in SUBSET Places
    BY DEF ListInv, ListShape
  <2> QED BY <2>1, <2>2, TableKeeps
<1>2. CASE ListNext
  BY <1>2, RowsKeep, ServeReadingKeeps, ServeMoreKeeps, SectionKeeps, ReadingKeeps, LoadMoreKeeps, MoreKeeps DEF ListNext
<1> QED BY <1>1, <1>2

(* The invariant gives what the lists promise.                              *)
LEMMA ListsHold == ListInv => ListsAreTrue
<1> SUFFICES ASSUME ListInv PROVE ListsAreTrue
  OBVIOUS
<1>1. list.page \in ListPages /\ list.page.items \in Seq(Places) /\ list.page.present \in SUBSET Places
  BY DEF ListInv, ListShape, ListScreens, ListPages
<1>2. TraversalIsWhole
  BY <1>1 DEF ListInv, ScreenIsTrue, PageIsWhole, TraversalIsWhole
<1>3. DOMAIN list.page.items = 1 .. Len(list.page.items)
  BY <1>1, LenProperties
<1>4. RowsAreInOrder
  <2>1. CASE list.page.loaded
    BY <1>3, <2>1 DEF ListInv, ScreenIsTrue, PageIsWhole, Distinct, Ascends, RowsAreInOrder
  <2>2. CASE ~list.page.loaded
    <3>1. list.page.items = <<>>
      BY <2>2 DEF ListInv, ScreenIsTrue, NoPage
    <3>2. Len(<<>>) = 0
      BY EmptySeq
    <3> QED BY <1>3, <3>1, <3>2 DEF RowsAreInOrder
  <2> QED BY <2>1, <2>2
<1> QED BY <1>2, <1>4 DEF ListInv, ListsAreTrue

(* Whatever rows appear and change while pages are read, and however reads, *)
(* refreshes and requests for more overtake each other: the list on the     *)
(* screen answers its filter, in order, with every row once and none lost.  *)
THEOREM ListsSoundness == ListSpec => []ListsAreTrue
<1> QED BY ListStarts, ListKeeps, ListsHold, PTL DEF ListSpec

(***************************************************************************)
(* The student's client: the panels and the bell.                          *)
(***************************************************************************)

(* What an account, a view, a request and a panel may hold.                 *)
Visitors == Learned \cup {NoStudent}
PanelAccounts == [status : Statuses, since : Nat, ended : SUBSET Sanctions, notices : Nat]
PanelOwners == [user : Visitors, generation : Nat]
PanelViews == [who : Visitors, facing : Statuses, rows : SUBSET Sanctions, read : Nat]
PanelProfiles == [open : BOOLEAN, loading : BOOLEAN, error : BOOLEAN, shown : PanelViews]
ProfileCalls == [phase : {"none", "sent", "halfway", "answered"}, owner : PanelOwners,
                 status : Statuses, view : PanelViews]
PanelNotices == [who : Visitors, count : Nat]
BellStates == [loading : BOOLEAN, error : BOOLEAN, shown : PanelNotices]
PanelBells == [latest : Nat, state : BellStates]
BellCalls == [number : Nat, owner : PanelOwners, phase : {"sent", "answered"}, shown : PanelNotices]

(* The account is read at the present, and changed at the present.          *)
PanelsShape ==
    /\ accounts \in [Learned -> PanelAccounts]
    /\ visitor \in Visitors
    /\ owner \in PanelOwners
    /\ profile \in PanelProfiles
    /\ profileCall \in ProfileCalls
    /\ bell \in PanelBells
    /\ bellCalls \in SUBSET BellCalls
    /\ moment \in Nat
    /\ \A s \in Learned : accounts[s].since <= moment

(* Nobody logs in before the page knows that the one before is gone.        *)
PageFollows == owner.user # NoStudent => visitor \in {owner.user, NoStudent}

(* A view that was read since the account changed last hides a shadow ban.  *)
Hides(view) ==
    view.who # NoStudent /\ accounts[view.who].status = "SHADOW_BANNED"
        /\ view.read >= accounts[view.who].since
      => view.facing = "ACTIVE" /\ view.rows = {}

(* A view is of the student of the page, and was read by now.               *)
ViewIsOwn(view) == view.who \in {owner.user, NoStudent} /\ view.read <= moment

(* The dialog, and the request it waits for: a status that was read is that *)
(* of the account unless it changed since.                                  *)
ProfileIsTrue ==
    /\ profile.loading <=> profileCall.phase # "none"
    /\ profile.loading => profile.open /\ profile.shown = NoView
    /\ ViewIsOwn(profile.shown) /\ Hides(profile.shown)
    /\ profileCall.phase # "none" => profileCall.owner = owner /\ owner.user # NoStudent
    /\ ViewIsOwn(profileCall.view)
    /\ profileCall.phase \in {"none", "sent"} => profileCall.view = NoView
    /\ profileCall.phase = "halfway" =>
         LET view == profileCall.view IN
         /\ view.who # NoStudent
         /\ view.read >= accounts[view.who].since => profileCall.status = accounts[view.who].status
    /\ profileCall.phase = "answered" => Hides(profileCall.view)

(* Notices are those there have been.                                       *)
NoticesAreTrue(n) ==
    /\ n.who \in {owner.user, NoStudent}
    /\ n.who = NoStudent => n.count = 0
    /\ n.who # NoStudent => n.count <= accounts[n.who].notices

(* Requests are numbered, each is of a login, and the answer to the latest  *)
(* of this login holds no fewer notices than are shown.                     *)
BellIsTrue ==
    /\ NoticesAreTrue(bell.state.shown)
    /\ \A c \in bellCalls :
         /\ c.number \in 1 .. bell.latest
         /\ c.owner.user # NoStudent
         /\ c.phase = "answered" /\ c.number = bell.latest /\ c.owner = owner /\ c.shown # NoNotices =>
              /\ c.shown.who = owner.user /\ NoticesAreTrue(c.shown)
              /\ c.shown.count >= bell.state.shown.count
    /\ \A c1, c2 \in bellCalls : c1.number = c2.number => c1 = c2

(* What the panels rest on: the page follows the session, and an answer     *)
(* that still counts was asked for and served for this login.               *)
PanelsInv == PanelsShape /\ PageFollows /\ ProfileIsTrue /\ BellIsTrue

(* Without requests, views and notices nothing is untrue.                   *)
LEMMA PanelsStart == PanelsInit => PanelsInv
<1> SUFFICES ASSUME PanelsInit PROVE PanelsInv
  OBVIOUS
<1>1. NoView \in PanelViews /\ NoView.who = NoStudent /\ NoView.read = 0
  BY DEF NoView, PanelViews, Visitors, Statuses
<1>2. NoNotices \in PanelNotices /\ NoNotices.who = NoStudent /\ NoNotices.count = 0
  BY DEF NoNotices, PanelNotices, Visitors
<1>3. EmptyProfile \in PanelProfiles /\ EmptyProfile.shown = NoView /\ ~EmptyProfile.loading
  BY <1>1 DEF EmptyProfile, PanelProfiles
<1>4. /\ NoProfileCall \in ProfileCalls /\ NoProfileCall.phase = "none" /\ NoProfileCall.view = NoView
  BY <1>1 DEF NoProfileCall, ProfileCalls, PanelOwners, Visitors, Statuses
<1>5. bell \in PanelBells /\ bell.state.shown = NoNotices
  BY <1>2 DEF PanelsInit, EmptyBell, PanelBells, BellStates
<1>6. owner \in PanelOwners /\ owner.user = NoStudent
  BY DEF PanelsInit, PanelOwners, Visitors
<1>7. accounts \in [Learned -> PanelAccounts] /\ \A s \in Learned : accounts[s].since <= 0
  BY DEF PanelsInit, PanelAccounts, Statuses
<1>8. /\ profile = EmptyProfile /\ profileCall = NoProfileCall /\ bellCalls = {} /\ moment = 0
      /\ visitor = NoStudent
  BY DEF PanelsInit
<1>9. PanelsShape
  BY <1>3, <1>4, <1>5, <1>6, <1>7, <1>8 DEF PanelsShape, Visitors
<1>10. PageFollows
  BY <1>6 DEF PageFollows
<1>11. ViewIsOwn(NoView) /\ Hides(NoView)
  BY <1>1, <1>8 DEF ViewIsOwn, Hides
<1>12. ProfileIsTrue
  BY <1>3, <1>4, <1>8, <1>11 DEF ProfileIsTrue
<1>13. BellIsTrue
  BY <1>2, <1>5, <1>8 DEF BellIsTrue, NoticesAreTrue
<1> QED BY <1>9, <1>10, <1>12, <1>13 DEF PanelsInv

(* While the accounts, the time and the owner of the page stay, so does     *)
(* what is true of views and notices.                                       *)
LEMMA ViewsStay ==
    ASSUME UNCHANGED <<accounts, owner, moment>>
    PROVE  /\ \A view : (ViewIsOwn(view)' <=> ViewIsOwn(view)) /\ (Hides(view)' <=> Hides(view))
           /\ \A n : NoticesAreTrue(n)' <=> NoticesAreTrue(n)

<1> SUFFICES /\ \A view : ViewIsOwn(view)' <=> ViewIsOwn(view)
             /\ \A view : Hides(view)' <=> Hides(view)
             /\ \A n : NoticesAreTrue(n)' <=> NoticesAreTrue(n)
  OBVIOUS
<1>1. \A view : ViewIsOwn(view)' <=> ViewIsOwn(view)
  BY DEF ViewIsOwn
<1>2. \A view : Hides(view)' <=> Hides(view)
  BY DEF Hides
<1>3. \A n : NoticesAreTrue(n)' <=> NoticesAreTrue(n)
  BY DEF NoticesAreTrue
<1> QED BY <1>1, <1>2, <1>3

(* The dialog waits and shows as before while time passes.                  *)
LEMMA ProfileStays ==
    ASSUME PanelsInv, moment' \in Nat, moment' >= moment, UNCHANGED <<accounts, owner, profile, profileCall>>
    PROVE  ProfileIsTrue'
<1>1. moment \in Nat /\ profile.shown \in PanelViews /\ profileCall.view \in PanelViews
  BY DEF PanelsInv, PanelsShape, PanelProfiles, ProfileCalls
<1>2. profile.shown.read \in Nat /\ profileCall.view.read \in Nat
  BY <1>1 DEF PanelViews
<1>3. ViewIsOwn(profile.shown) /\ ViewIsOwn(profileCall.view)
  BY DEF PanelsInv, ProfileIsTrue
<1>4. ViewIsOwn(profile.shown)' /\ ViewIsOwn(profileCall.view)'
  BY <1>1, <1>2, <1>3 DEF ViewIsOwn
<1>5. (Hides(profile.shown)' <=> Hides(profile.shown)) /\ (Hides(profileCall.view)' <=> Hides(profileCall.view))
  BY DEF Hides
<1>6. ProfileIsTrue
  BY DEF PanelsInv
<1> QED BY <1>4, <1>5, <1>6 DEF ProfileIsTrue

(* The bell waits and shows as before.                                      *)
LEMMA BellStays ==
    ASSUME PanelsInv, UNCHANGED <<accounts, owner, bell, bellCalls>>
    PROVE  BellIsTrue'
<1>1. \A n : NoticesAreTrue(n)' <=> NoticesAreTrue(n)
  BY DEF NoticesAreTrue
<1>2. BellIsTrue
  BY DEF PanelsInv
<1> QED BY <1>1, <1>2 DEF BellIsTrue

(* Accounts change at the present only, and collect notices: what was read  *)
(* before does not speak of them any more.                                  *)
LEMMA AccountsMove ==
    ASSUME PanelsInv, moment' = moment + 1, UNCHANGED <<visitor, owner, profileSide, bellSide>>,
           accounts' \in [Learned -> PanelAccounts],
           \A s \in Learned : accounts'[s].notices >= accounts[s].notices,
           \A s \in Learned : \/ accounts'[s].since = accounts[s].since /\ accounts'[s].status = accounts[s].status
                              \/ accounts'[s].since = moment'
    PROVE  PanelsInv'
<1>1. PanelsShape /\ PageFollows /\ ProfileIsTrue /\ BellIsTrue
  BY DEF PanelsInv
<1>2. UNCHANGED <<visitor, owner, profile, profileCall, bell, bellCalls>> /\ moment \in Nat /\ moment' \in Nat
  BY <1>1 DEF PanelsShape, profileSide, bellSide
<1>3. /\ \A s \in Learned : accounts[s].since \in Nat /\ accounts[s].notices \in Nat
      /\ \A s \in Learned : accounts'[s].since \in Nat /\ accounts'[s].notices \in Nat
  BY <1>1 DEF PanelsShape, PanelAccounts
<1>4. PanelsShape'
  <2>1. \A s \in Learned : accounts'[s].since <= moment'
    BY <1>1, <1>2, <1>3 DEF PanelsShape
  <2> QED BY <1>1, <1>2, <2>1 DEF PanelsShape
<1>5. PageFollows'
  BY <1>1, <1>2 DEF PageFollows
<1>6. ASSUME NEW view \in PanelViews, ViewIsOwn(view) PROVE ViewIsOwn(view)' /\ (Hides(view) => Hides(view)')
  <2>1. view.read \in Nat /\ view.read <= moment /\ view.who \in Learned \cup {NoStudent}
    BY <1>6 DEF PanelViews, ViewIsOwn, Visitors
  <2>2. ViewIsOwn(view)'
    BY <1>2, <1>6, <2>1 DEF ViewIsOwn
  <2>3. CASE view.who = NoStudent
    BY <2>2, <2>3 DEF Hides
  <2>4. CASE view.who # NoStudent
    <3>1. view.who \in Learned
      BY <2>1, <2>4
    <3>2. view.read >= accounts'[view.who].since =>
            accounts'[view.who].since = accounts[view.who].since /\ accounts'[view.who].status = accounts[view.who].status
      BY <1>2, <1>3, <2>1, <3>1
    <3> QED BY <2>2, <3>2 DEF Hides
  <2> QED BY <2>3, <2>4
<1>7. profile.shown \in PanelViews /\ profileCall.view \in PanelViews
  BY <1>1 DEF PanelsShape, PanelProfiles, ProfileCalls
<1>8. ProfileIsTrue'
  <2>1. /\ ViewIsOwn(profile.shown)' /\ Hides(profile.shown)' /\ ViewIsOwn(profileCall.view)'
        /\ Hides(profileCall.view) => Hides(profileCall.view)'
    <3>1. ViewIsOwn(profile.shown) /\ Hides(profile.shown) /\ ViewIsOwn(profileCall.view)
      BY <1>1 DEF ProfileIsTrue
    <3>2. \A view \in PanelViews : ViewIsOwn(view) => ViewIsOwn(view)' /\ (Hides(view) => Hides(view)')
      BY <1>6
    <3> DEFINE one == profile.shown
               two == profileCall.view
    <3>3. profile'.shown = one /\ profileCall'.view = two
      BY <1>2
    <3>4. PICK v1, v2 \in PanelViews : v1 = profile.shown /\ v2 = profileCall.view
      BY <1>7
    <3>5. ViewIsOwn(v1)' /\ Hides(v1)' /\ ViewIsOwn(v2)' /\ (Hides(v2) => Hides(v2)')
      BY <3>1, <3>2, <3>4
    <3> QED BY <1>2, <3>4, <3>5 DEF ViewIsOwn, Hides
  <2>2. profileCall.phase = "halfway" =>
          /\ profileCall.view.who # NoStudent
          /\ profileCall.view.read >= accounts'[profileCall.view.who].since =>
               profileCall.status = accounts'[profileCall.view.who].status
    <3> SUFFICES ASSUME profileCall.phase = "halfway",
                        profileCall.view.read >= accounts'[profileCall.view.who].since
                 PROVE  profileCall.status = accounts'[profileCall.view.who].status
      BY <1>1 DEF ProfileIsTrue
    <3>1. profileCall.view.who \in Learned /\ profileCall.view.read \in Nat /\ profileCall.view.read <= moment
      BY <1>1, <1>7 DEF ProfileIsTrue, ViewIsOwn, PanelViews, Visitors
    <3>2. /\ accounts'[profileCall.view.who].since = accounts[profileCall.view.who].since
          /\ accounts'[profileCall.view.who].status = accounts[profileCall.view.who].status
      BY <1>2, <1>3, <3>1
    <3> QED BY <1>1, <3>2 DEF ProfileIsTrue
  <2> QED BY <1>1, <1>2, <2>1, <2>2 DEF ProfileIsTrue
<1>9. BellIsTrue'
  <2>1. ASSUME NEW n, NoticesAreTrue(n), n \in PanelNotices PROVE NoticesAreTrue(n)'
    <3>1. n.count \in Nat /\ n.who \in Learned \cup {NoStudent}
      BY <2>1 DEF PanelNotices, Visitors
    <3>2. n.who # NoStudent => n.count <= accounts'[n.who].notices
      BY <1>3, <2>1, <3>1 DEF NoticesAreTrue
    <3> QED BY <1>2, <2>1, <3>2 DEF NoticesAreTrue
  <2>2. bell.state.shown \in PanelNotices /\ \A c \in bellCalls : c.shown \in PanelNotices
    BY <1>1 DEF PanelsShape, PanelBells, BellStates, BellCalls
  <2>3. PICK n \in PanelNotices : n = bell.state.shown
    BY <2>2
  <2>4. NoticesAreTrue(n)'
    BY <1>1, <2>1, <2>3 DEF BellIsTrue
  <2>5. NoticesAreTrue(bell.state.shown)'
    BY <1>2, <2>3, <2>4 DEF NoticesAreTrue
  <2>6. \A c \in bellCalls : NoticesAreTrue(c.shown) => NoticesAreTrue(c.shown)'
    BY <2>1, <2>2
  <2> QED BY <1>1, <1>2, <2>5, <2>6 DEF BellIsTrue
<1> QED BY <1>4, <1>5, <1>8, <1>9 DEF PanelsInv

(* A sanction begins or ends, or a reservation is cancelled.                *)
LEMMA AdministratorsKeepPanels ==
    ASSUME PanelsInv, NEW s \in Learned,
           ReservationCancelled(s) \/ \E status \in Statuses : SanctionChanges(s, status)
    PROVE  PanelsInv'
<1>1. accounts \in [Learned -> PanelAccounts] /\ moment \in Nat /\ accounts[s] \in PanelAccounts
  BY DEF PanelsInv, PanelsShape
<1>2. \A x \in Learned : accounts[x].notices \in Nat
  BY <1>1 DEF PanelAccounts
<1>3. CASE ReservationCancelled(s)
  <2> DEFINE new == [accounts[s] EXCEPT !.notices = accounts[s].notices + 1]
  <2>1. accounts' = [accounts EXCEPT ![s] = new]
    BY <1>1, <1>3 DEF ReservationCancelled
  <2>2. /\ new \in PanelAccounts /\ new.notices = accounts[s].notices + 1
        /\ new.since = accounts[s].since /\ new.status = accounts[s].status
    BY <1>1 DEF PanelAccounts
  <2> HIDE DEF new
  <2>3. /\ accounts' \in [Learned -> PanelAccounts] /\ accounts'[s] = new
        /\ \A x \in Learned : x # s => accounts'[x] = accounts[x]
    BY <1>1, <2>1, <2>2
  <2>4. \A x \in Learned : accounts'[x].notices >= accounts[x].notices
    BY <1>2, <2>2, <2>3
  <2>5. \A x \in Learned : accounts'[x].since = accounts[x].since /\ accounts'[x].status = accounts[x].status
    BY <2>2, <2>3
  <2>6. moment' = moment + 1 /\ UNCHANGED <<visitor, owner, profileSide, bellSide>>
    BY <1>3 DEF ReservationCancelled, PanelEvent
  <2> QED BY <2>3, <2>4, <2>5, <2>6, AccountsMove
<1>4. ASSUME NEW status \in Statuses, SanctionChanges(s, status) PROVE PanelsInv'
  <2>0. moment' = moment + 1 /\ UNCHANGED <<visitor, owner, profileSide, bellSide>>
    BY <1>4 DEF SanctionChanges, PanelEvent
  <2> DEFINE past == OnRecord(s)
             new == [accounts[s] EXCEPT !.status = status, !.since = moment', !.ended = past]
  <2>1. accounts' = [accounts EXCEPT ![s] = new]
    BY <1>1, <1>4 DEF SanctionChanges
  <2>2. past \in SUBSET Sanctions /\ moment' \in Nat
    BY <1>1, <2>0 DEF PanelAccounts, Sanctions, OnRecord
  <2> HIDE DEF past
  <2>3. new \in PanelAccounts /\ new.notices = accounts[s].notices /\ new.since = moment'
    BY <1>1, <2>0, <2>2 DEF PanelAccounts
  <2> HIDE DEF new
  <2>4. /\ accounts' \in [Learned -> PanelAccounts] /\ accounts'[s] = new
        /\ \A x \in Learned : x # s => accounts'[x] = accounts[x]
    BY <1>1, <2>1, <2>3
  <2>5. \A x \in Learned : accounts'[x].notices >= accounts[x].notices
    BY <1>2, <2>3, <2>4
  <2>6. \A x \in Learned : \/ accounts'[x].since = accounts[x].since /\ accounts'[x].status = accounts[x].status
                           \/ accounts'[x].since = moment'
    BY <2>3, <2>4
  <2> QED BY <2>0, <2>4, <2>5, <2>6, AccountsMove
<1> QED BY <1>3, <1>4

(* A session begins or ends at the server; the page learns of it later.     *)
LEMMA SessionsKeepPanels ==
    ASSUME PanelsInv, SessionStops \/ \E s \in Learned : SessionStarts(s)
    PROVE  PanelsInv'
<1>1. PanelsShape /\ PageFollows /\ moment \in Nat
  BY DEF PanelsInv, PanelsShape
<1>2. /\ moment' = moment + 1 /\ UNCHANGED <<accounts, owner, profile, profileCall, bell, bellCalls>>
      /\ visitor' \in Visitors
      /\ visitor' = NoStudent \/ owner.user = NoStudent
  BY DEF SessionStops, SessionStarts, PanelEvent, profileSide, bellSide, Visitors
<1>3. \A s \in Learned : accounts[s].since \in Nat
  BY <1>1 DEF PanelsShape, PanelAccounts
<1>4. PanelsShape'
  <2>1. \A s \in Learned : accounts'[s].since <= moment'
    BY <1>1, <1>2, <1>3 DEF PanelsShape
  <2>2. moment' \in Nat
    BY <1>1, <1>2
  <2> QED BY <1>1, <1>2, <2>1, <2>2 DEF PanelsShape
<1>5. PageFollows'
  BY <1>2 DEF PageFollows
<1>6. ProfileIsTrue'
  BY <1>1, <1>2, ProfileStays
<1>7. BellIsTrue'
  BY <1>2, BellStays
<1> QED BY <1>4, <1>5, <1>6, <1>7 DEF PanelsInv

(* A request of the bell is the latest, and unanswered.                     *)
LEMMA BellIsAsked ==
    ASSUME PanelsInv, NEW of \in PanelOwners, of.user # NoStudent, AsksBell(of), of = owner',
           accounts' = accounts, owner'.user = owner.user \/ owner'.user # of.user \/ owner.user # of.user
    PROVE  /\ bell' \in PanelBells /\ bellCalls' \in SUBSET BellCalls /\ BellIsTrue'
           /\ owner.user = of.user => bell'.state.shown = bell.state.shown
<1>1. /\ bell \in PanelBells /\ bellCalls \in SUBSET BellCalls /\ owner \in PanelOwners
      /\ bell.latest \in Nat /\ bell.state.shown \in PanelNotices /\ BellIsTrue
  BY DEF PanelsInv, PanelsShape, PanelBells, BellStates
<1> DEFINE n == bell.latest + 1
           shown == IF owner.user = of.user THEN bell.state.shown ELSE NoNotices
           call == BellCall(n, of)
<1>2. bell' = [latest |-> n, state |-> [loading |-> TRUE, error |-> FALSE, shown |-> shown]]
      /\ bellCalls' = bellCalls \cup {call}
  BY DEF AsksBell
<1>3. NoNotices \in PanelNotices /\ NoNotices.who = NoStudent /\ NoNotices.count = 0
  BY DEF NoNotices, PanelNotices, Visitors
<1>4. shown \in PanelNotices /\ n \in Nat
  BY <1>1, <1>3
<1>5. call \in BellCalls /\ call.number = n /\ call.owner = of /\ call.phase = "sent"
  BY <1>3, <1>4 DEF BellCall, BellCalls
<1>6. bell' \in PanelBells /\ bell'.latest = n /\ bell'.state.shown = shown
  <2> HIDE DEF n, shown
  <2> QED BY <1>2, <1>4 DEF PanelBells, BellStates
<1> HIDE DEF call
<1>7. PICK told \in PanelNotices : told = shown
  BY <1>4
<1>15. NoticesAreTrue(told)'
  <2>1. CASE owner.user = of.user
    <3>1. told = bell.state.shown
      BY <1>7, <2>1
    <3>2. NoticesAreTrue(told)
      BY <1>1, <3>1 DEF BellIsTrue
    <3> QED BY <2>1, <3>2 DEF NoticesAreTrue
  <2>2. CASE owner.user # of.user
    BY <1>3, <1>7, <2>2 DEF NoticesAreTrue
  <2> QED BY <2>1, <2>2
<1> HIDE DEF shown
<1>8. \A c \in bellCalls : c.number \in 1 .. bell.latest /\ c.owner.user # NoStudent
  BY <1>1 DEF BellIsTrue
<1>9. NoticesAreTrue(bell.state.shown)'
  BY <1>6, <1>7, <1>15 DEF NoticesAreTrue
<1>10. \A c \in bellCalls' : /\ c.number \in 1 .. bell'.latest /\ c.owner.user # NoStudent
                             /\ ~(c.phase = "answered" /\ c.number = bell'.latest)
  BY <1>1, <1>2, <1>5, <1>6, <1>8
<1>11. \A c1, c2 \in bellCalls' : c1.number = c2.number => c1 = c2
  <2> SUFFICES ASSUME NEW c1 \in bellCalls', NEW c2 \in bellCalls', c1.number = c2.number PROVE c1 = c2
    OBVIOUS
  <2>1. \A c \in bellCalls : c.number # n
    BY <1>1, <1>8
  <2>2. CASE c1 \in bellCalls /\ c2 \in bellCalls
    BY <1>1, <2>2 DEF BellIsTrue
  <2>3. CASE c1 = call \/ c2 = call
    BY <1>2, <1>5, <2>1, <2>3
  <2> QED BY <1>2, <2>2, <2>3
<1>12. BellIsTrue'
  BY <1>9, <1>10, <1>11 DEF BellIsTrue
<1>13. bellCalls' \in SUBSET BellCalls
  BY <1>1, <1>2, <1>5
<1>14. owner.user = of.user => bell'.state.shown = bell.state.shown
  BY <1>6 DEF shown
<1> QED BY <1>6, <1>12, <1>13, <1>14

(* The page takes over the session: it forgets the dialog and the notices.  *)
LEMMA OwnerKeepsPanels ==
    ASSUME PanelsInv, OwnerCommitted
    PROVE  PanelsInv'
<1>1. /\ PanelsShape /\ bell \in PanelBells /\ bell.latest \in Nat /\ BellIsTrue
      /\ owner \in PanelOwners /\ owner.generation \in Nat /\ visitor \in Visitors /\ moment \in Nat
      /\ bellCalls \in SUBSET BellCalls
  BY DEF PanelsInv, PanelsShape, PanelBells, PanelOwners
<1> DEFINE next == [user |-> visitor, generation |-> owner.generation + 1]
<1>2. /\ owner.user # visitor /\ owner' = next /\ profile' = EmptyProfile /\ profileCall' = NoProfileCall
      /\ UNCHANGED <<accounts, visitor, moment>>
  BY DEF OwnerCommitted
<1>3. next \in PanelOwners /\ next.user = visitor
  BY <1>1 DEF PanelOwners
<1>4. NoView \in PanelViews /\ NoView.who = NoStudent /\ NoView.read = 0
  BY DEF NoView, PanelViews, Visitors, Statuses
<1>5. EmptyProfile \in PanelProfiles /\ EmptyProfile.shown = NoView /\ ~EmptyProfile.loading
  BY <1>4 DEF EmptyProfile, PanelProfiles
<1>6. NoProfileCall \in ProfileCalls /\ NoProfileCall.phase = "none" /\ NoProfileCall.view = NoView
  BY <1>4 DEF NoProfileCall, ProfileCalls, PanelOwners, Visitors, Statuses
<1>7. ProfileIsTrue'
  <2>1. ViewIsOwn(profile.shown)' /\ Hides(profile.shown)' /\ ViewIsOwn(profileCall.view)'
    BY <1>1, <1>2, <1>4, <1>5, <1>6 DEF ViewIsOwn, Hides
  <2> QED BY <1>2, <1>5, <1>6, <2>1 DEF ProfileIsTrue
<1>8. PageFollows'
  BY <1>2 DEF PageFollows
<1>9. bell' \in PanelBells /\ bellCalls' \in SUBSET BellCalls /\ BellIsTrue'
  <2>1. CASE visitor = NoStudent
    <3> DEFINE n == bell.latest + 1
    <3>1. bell' = [latest |-> n, state |-> EmptyBell] /\ bellCalls' = bellCalls /\ n \in Nat
      BY <1>1, <2>1 DEF OwnerCommitted
    <3>2. EmptyBell \in BellStates /\ EmptyBell.shown = NoNotices
      BY DEF EmptyBell, BellStates, NoNotices, PanelNotices, Visitors
    <3> HIDE DEF n
    <3>3. bell' \in PanelBells /\ bell'.state.shown = NoNotices /\ bell'.latest = n
      BY <3>1, <3>2 DEF PanelBells
    <3>4. NoticesAreTrue(bell.state.shown)'
      BY <3>3 DEF NoticesAreTrue, NoNotices
    <3>5. \A c \in bellCalls : c.number \in 1 .. bell.latest
      BY <1>1 DEF BellIsTrue
    <3>6. \A c \in bellCalls : c.number \in 1 .. n /\ c.number # n
      BY <1>1, <3>5 DEF n
    <3>7. BellIsTrue'
      BY <1>1, <3>1, <3>3, <3>4, <3>6 DEF BellIsTrue
    <3> QED BY <1>1, <3>1, <3>3, <3>7
  <2>2. CASE visitor # NoStudent
    <3>1. AsksBell(next)
      BY <1>2, <2>2 DEF OwnerCommitted
    <3> HIDE DEF next
    <3> QED BY <1>2, <1>3, <2>2, <3>1, BellIsAsked
  <2> QED BY <2>1, <2>2
<1>10. PanelsShape'
  BY <1>1, <1>2, <1>3, <1>5, <1>6, <1>9 DEF PanelsShape
<1> QED BY <1>7, <1>8, <1>9, <1>10 DEF PanelsInv

(* The bell asks again.                                                     *)
LEMMA AskingKeepsPanels ==
    ASSUME PanelsInv, AskBell
    PROVE  PanelsInv' /\ bell'.state.shown = bell.state.shown
<1>1. /\ PanelsShape /\ PageFollows /\ moment \in Nat /\ owner \in PanelOwners
      /\ \A s \in Learned : accounts[s].since \in Nat
  BY DEF PanelsInv, PanelsShape, PanelAccounts
<1>2. /\ owner.user # NoStudent /\ AsksBell(owner) /\ moment' = moment + 1
      /\ UNCHANGED <<accounts, visitor, owner, profile, profileCall>>
  BY DEF AskBell, PanelEvent, serverSide, profileSide
<1>3. bell' \in PanelBells /\ bellCalls' \in SUBSET BellCalls /\ BellIsTrue' /\ bell'.state.shown = bell.state.shown
  BY <1>1, <1>2, BellIsAsked
<1>4. PanelsShape'
  <2>1. \A s \in Learned : accounts'[s].since <= moment'
    BY <1>1, <1>2 DEF PanelsShape
  <2>2. moment' \in Nat
    BY <1>1, <1>2
  <2> QED BY <1>1, <1>2, <1>3, <2>1, <2>2 DEF PanelsShape
<1>5. ProfileIsTrue'
  BY <1>1, <1>2, ProfileStays
<1>6. PageFollows'
  BY <1>1, <1>2 DEF PageFollows
<1> QED BY <1>3, <1>4, <1>5, <1>6 DEF PanelsInv

(* The bell is served: with what the student of the page has.               *)
LEMMA ServingKeepsPanels ==
    ASSUME PanelsInv, NEW c \in bellCalls, ServeBell(c)
    PROVE  PanelsInv' /\ bell' = bell
<1>1. /\ PanelsShape /\ PageFollows /\ BellIsTrue /\ bellCalls \in SUBSET BellCalls /\ c \in BellCalls
      /\ visitor \in Visitors /\ moment \in Nat
  BY DEF PanelsInv, PanelsShape
<1>2. c.phase = "sent" /\ UNCHANGED <<accounts, visitor, owner, profile, profileCall, bell, moment>>
  BY DEF ServeBell, serverSide, profileSide
<1> DEFINE got == IF visitor = NoStudent THEN NoNotices ELSE [who |-> visitor, count |-> accounts[visitor].notices]
           new == [c EXCEPT !.phase = "answered", !.shown = got]
<1>3. bellCalls' = (bellCalls \ {c}) \cup {new}
  BY DEF ServeBell
<1>4. /\ visitor # NoStudent => visitor \in Learned /\ accounts[visitor].notices \in Nat
      /\ \A s \in Learned : accounts[s].notices \in Nat
  BY <1>1 DEF PanelsShape, PanelAccounts, Visitors
<1>5. got \in PanelNotices
  BY <1>1, <1>4 DEF PanelNotices, NoNotices, Visitors
<1>6. got # NoNotices => visitor # NoStudent /\ got.who = visitor /\ got.count = accounts[visitor].notices
  OBVIOUS
<1> HIDE DEF got
<1>7. new \in BellCalls /\ new.number = c.number /\ new.owner = c.owner /\ new.shown = got
  BY <1>1, <1>5 DEF BellCalls
<1> HIDE DEF new
<1>8. c.number \in 1 .. bell.latest /\ c.owner.user # NoStudent
  BY <1>1 DEF BellIsTrue
<1>9. new.owner = owner /\ got # NoNotices =>
        got.who = owner.user /\ NoticesAreTrue(got) /\ got.count >= bell.state.shown.count
  <2> SUFFICES ASSUME new.owner = owner, got # NoNotices
               PROVE  got.who = owner.user /\ NoticesAreTrue(got) /\ got.count >= bell.state.shown.count
    OBVIOUS
  <2>1. visitor = owner.user /\ visitor \in Learned
    BY <1>1, <1>4, <1>6, <1>7, <1>8 DEF PageFollows
  <2>2. got.who = owner.user /\ got.count = accounts[owner.user].notices /\ got.count \in Nat
    BY <1>4, <1>6, <2>1
  <2>3. NoticesAreTrue(got)
    BY <1>6, <2>1, <2>2 DEF NoticesAreTrue
  <2>4. NoticesAreTrue(bell.state.shown)
    BY <1>1 DEF BellIsTrue
  <2>5. got.count >= bell.state.shown.count
    BY <1>6, <2>1, <2>2, <2>4 DEF NoticesAreTrue
  <2> QED BY <2>2, <2>3, <2>5
<1>10. (\A n : NoticesAreTrue(n)' <=> NoticesAreTrue(n))
  BY <1>2 DEF NoticesAreTrue
<1>11. NoticesAreTrue(bell.state.shown)'
  BY <1>1, <1>2, <1>10 DEF BellIsTrue, NoticesAreTrue
<1>12. \A x \in bellCalls' :
         /\ x.number \in 1 .. bell'.latest /\ x.owner.user # NoStudent
         /\ x.phase = "answered" /\ x.number = bell'.latest /\ x.owner = owner' /\ x.shown # NoNotices =>
              /\ x.shown.who = owner'.user /\ NoticesAreTrue(x.shown)'
              /\ x.shown.count >= bell'.state.shown.count
  <2> SUFFICES ASSUME NEW x \in bellCalls'
               PROVE  /\ x.number \in 1 .. bell'.latest /\ x.owner.user # NoStudent
                      /\ x.phase = "answered" /\ x.number = bell'.latest /\ x.owner = owner' /\ x.shown # NoNotices =>
                           /\ x.shown.who = owner'.user /\ NoticesAreTrue(x.shown)'
                           /\ x.shown.count >= bell'.state.shown.count
    OBVIOUS
  <2>1. CASE x \in bellCalls
    BY <1>1, <1>2, <1>10, <2>1 DEF BellIsTrue
  <2>2. CASE x = new
    BY <1>2, <1>7, <1>8, <1>9, <1>10, <2>2
  <2> QED BY <1>3, <2>1, <2>2
<1>13. \A c1, c2 \in bellCalls' : c1.number = c2.number => c1 = c2
  BY <1>1, <1>3, <1>7 DEF BellIsTrue
<1>14. BellIsTrue'
  BY <1>11, <1>12, <1>13 DEF BellIsTrue
<1>15. PanelsShape'
  BY <1>1, <1>2, <1>3, <1>7 DEF PanelsShape
<1>16. ProfileIsTrue'
  BY <1>1, <1>2, ProfileStays
<1>17. PageFollows'
  BY <1>1, <1>2 DEF PageFollows
<1> QED BY <1>2, <1>14, <1>15, <1>16, <1>17 DEF PanelsInv

(* An answer of the bell, or its failure, shows no fewer notices.           *)
LEMMA BellEndsWell ==
    ASSUME PanelsInv, NEW c \in bellCalls, BellArrives(c) \/ BellFails(c)
    PROVE  PanelsInv' /\ bell'.state.shown.count >= bell.state.shown.count
<1>1. /\ PanelsShape /\ PageFollows /\ BellIsTrue /\ bellCalls \in SUBSET BellCalls /\ c \in BellCalls
      /\ moment \in Nat /\ bell \in PanelBells
  BY DEF PanelsInv, PanelsShape
<1>2. UNCHANGED <<accounts, visitor, owner, profile, profileCall>> /\ bellCalls' = bellCalls \ {c}
  BY DEF BellArrives, BellFails, BellAfter, serverSide, profileSide
<1>3. moment' \in Nat /\ moment' >= moment
  <2>1. moment' = moment \/ moment' = moment + 1
    BY DEF BellArrives, BellFails, PanelEvent
  <2> QED BY <1>1, <2>1
<1>4. bell.state.shown \in PanelNotices /\ c.shown \in PanelNotices /\ bell.state.shown.count \in Nat
  BY <1>1 DEF PanelBells, BellStates, BellCalls, PanelNotices
<1>5. /\ bell' \in PanelBells /\ bell'.latest = bell.latest
      /\ \/ bell'.state.shown = bell.state.shown
         \/ Commits(c) /\ c.phase = "answered" /\ c.shown # NoNotices /\ bell'.state.shown = c.shown
  <2>1. CASE ~Commits(c)
    BY <1>1, <2>1 DEF BellArrives, BellFails, BellAfter
  <2>2. CASE Commits(c) /\ BellArrives(c) /\ c.shown # NoNotices
    <3>1. bell' = [bell EXCEPT !.state.loading = FALSE, !.state.error = FALSE, !.state.shown = c.shown]
      BY <2>2 DEF BellArrives, BellAfter
    <3>2. c.phase = "answered"
      BY <2>2 DEF BellArrives
    <3>3. bell' \in PanelBells /\ bell'.latest = bell.latest /\ bell'.state.shown = c.shown
      BY <1>1, <1>4, <3>1 DEF PanelBells, BellStates
    <3> QED BY <2>2, <3>2, <3>3
  <2>3. CASE Commits(c) /\ ~(BellArrives(c) /\ c.shown # NoNotices)
    <3>1. bell' = [bell EXCEPT !.state.loading = FALSE, !.state.error = TRUE, !.state.shown = bell.state.shown]
      BY <2>3 DEF BellArrives, BellFails, BellAfter
    <3>2. bell' \in PanelBells /\ bell'.latest = bell.latest /\ bell'.state.shown = bell.state.shown
      BY <1>1, <1>4, <3>1 DEF PanelBells, BellStates
    <3> QED BY <3>2
  <2> QED BY <2>1, <2>2, <2>3
<1>6. \A n : NoticesAreTrue(n)' <=> NoticesAreTrue(n)
  BY <1>2 DEF NoticesAreTrue
<1>7. /\ NoticesAreTrue(bell'.state.shown)
      /\ bell'.state.shown.count >= bell.state.shown.count
  <2>1. CASE bell'.state.shown = bell.state.shown
    BY <1>1, <1>4, <2>1 DEF BellIsTrue
  <2>2. CASE Commits(c) /\ c.phase = "answered" /\ c.shown # NoNotices /\ bell'.state.shown = c.shown
    BY <1>1, <2>2 DEF BellIsTrue, Commits
  <2> QED BY <1>5, <2>1, <2>2
<1>8. BellIsTrue'
  <2>1. NoticesAreTrue(bell.state.shown)'
    BY <1>2, <1>7 DEF NoticesAreTrue
  <2>2. \A x \in bellCalls' : x \in bellCalls /\ (bell'.state.shown = bell.state.shown \/ x.number # bell'.latest)
    BY <1>1, <1>2, <1>5 DEF BellIsTrue, Commits
  <2> QED BY <1>1, <1>2, <1>5, <1>6, <2>1, <2>2 DEF BellIsTrue
<1>9. PanelsShape'
  <2>1. \A s \in Learned : accounts'[s].since <= moment'
    <3>1. \A s \in Learned : accounts[s].since \in Nat
      BY <1>1 DEF PanelsShape, PanelAccounts
    <3> QED BY <1>1, <1>2, <1>3, <3>1 DEF PanelsShape
  <2> QED BY <1>1, <1>2, <1>3, <1>5, <2>1 DEF PanelsShape
<1>10. ProfileIsTrue'
  BY <1>2, <1>3, ProfileStays
<1>11. PageFollows'
  BY <1>1, <1>2 DEF PageFollows
<1> QED BY <1>7, <1>8, <1>9, <1>10, <1>11 DEF PanelsInv

(* What is left of the invariant when only the dialog moves.                *)
LEMMA DialogMoves ==
    ASSUME PanelsInv, moment' \in Nat, moment' >= moment,
           UNCHANGED <<accounts, visitor, owner, bell, bellCalls>>,
           profile' \in PanelProfiles, profileCall' \in ProfileCalls, ProfileIsTrue'
    PROVE  PanelsInv'
<1>1. /\ PanelsShape /\ PageFollows /\ moment \in Nat /\ \A s \in Learned : accounts[s].since \in Nat
  BY DEF PanelsInv, PanelsShape, PanelAccounts
<1>2. \A s \in Learned : accounts'[s].since <= moment'
  BY <1>1 DEF PanelsShape
<1>3. PanelsShape'
  BY <1>1, <1>2 DEF PanelsShape
<1>4. PageFollows'
  BY <1>1 DEF PageFollows
<1>5. BellIsTrue'
  BY BellStays
<1> QED BY <1>3, <1>4, <1>5 DEF PanelsInv

(* The empty view hides everything and is nobody's.                         *)
LEMMA NothingIsOwn ==
    ASSUME PanelsInv
    PROVE  NoView \in PanelViews /\ ViewIsOwn(NoView) /\ Hides(NoView)
<1>1. moment \in Nat
  BY DEF PanelsInv, PanelsShape
<1>2. NoView \in PanelViews /\ NoView.who = NoStudent /\ NoView.read = 0
  BY DEF NoView, PanelViews, Visitors, Statuses
<1> QED BY <1>1, <1>2 DEF ViewIsOwn, Hides

(* The dialog opens, or asks again.                                         *)
LEMMA AskProfileKeeps ==
    ASSUME PanelsInv, AskProfile
    PROVE  PanelsInv'
<1>1. /\ PanelsShape /\ moment \in Nat /\ owner \in PanelOwners
  BY DEF PanelsInv, PanelsShape
<1>2. /\ owner.user # NoStudent /\ moment' = moment + 1
      /\ UNCHANGED <<accounts, visitor, owner, bell, bellCalls>>
      /\ profile' = [open |-> TRUE, loading |-> TRUE, error |-> FALSE, shown |-> NoView]
      /\ profileCall' = [NoProfileCall EXCEPT !.phase = "sent", !.owner = owner]
  BY DEF AskProfile, PanelEvent, serverSide, bellSide
<1>3. NoView \in PanelViews /\ ViewIsOwn(NoView) /\ Hides(NoView) /\ NoView.who = NoStudent /\ NoView.read = 0
  BY NothingIsOwn DEF NoView
<1>4. /\ profile' \in PanelProfiles /\ profile'.open /\ profile'.loading /\ profile'.shown = NoView
  BY <1>2, <1>3 DEF PanelProfiles
<1>5. NoProfileCall \in ProfileCalls /\ NoProfileCall.view = NoView
  BY <1>3 DEF NoProfileCall, ProfileCalls, PanelOwners, Visitors, Statuses
<1>6. /\ profileCall' \in ProfileCalls /\ profileCall'.phase = "sent" /\ profileCall'.owner = owner
      /\ profileCall'.view = NoView
  BY <1>1, <1>2, <1>5 DEF ProfileCalls
<1>7. ViewIsOwn(profile.shown)' /\ Hides(profile.shown)' /\ ViewIsOwn(profileCall.view)'
  BY <1>1, <1>2, <1>3, <1>4, <1>6 DEF ViewIsOwn, Hides
<1>8. ProfileIsTrue'
  BY <1>2, <1>4, <1>6, <1>7 DEF ProfileIsTrue
<1> QED BY <1>1, <1>2, <1>4, <1>6, <1>8, DialogMoves

(* The dialog is dismissed, and keeps what it has read.                     *)
LEMMA CloseProfileKeeps ==
    ASSUME PanelsInv, CloseProfile
    PROVE  PanelsInv'
<1>1. /\ PanelsShape /\ moment \in Nat /\ profile \in PanelProfiles /\ profileCall \in ProfileCalls /\ ProfileIsTrue
  BY DEF PanelsInv, PanelsShape
<1>2. /\ ~profile.loading /\ profile' = [profile EXCEPT !.open = FALSE]
      /\ UNCHANGED <<accounts, visitor, owner, profileCall, bell, bellCalls, moment>>
  BY DEF CloseProfile, serverSide, bellSide
<1>3. profile' \in PanelProfiles /\ profile'.loading = profile.loading /\ profile'.shown = profile.shown
  BY <1>1, <1>2 DEF PanelProfiles
<1>4. /\ ViewIsOwn(profile.shown) /\ Hides(profile.shown) /\ ViewIsOwn(profileCall.view)
  BY <1>1 DEF ProfileIsTrue
<1>5. /\ ViewIsOwn(profile.shown)' /\ Hides(profile.shown)' /\ ViewIsOwn(profileCall.view)'
      /\ Hides(profileCall.view)' <=> Hides(profileCall.view)
  BY <1>2, <1>3, <1>4 DEF ViewIsOwn, Hides
<1>6. ProfileIsTrue'
  BY <1>1, <1>2, <1>3, <1>5 DEF ProfileIsTrue
<1> QED BY <1>1, <1>2, <1>3, <1>6, DialogMoves

(* What the request becomes while the dialog waits for it.                  *)
LEMMA CallMoves ==
    ASSUME PanelsInv, NEW call \in ProfileCalls, profileCall' = call, profileCall.phase # "none",
           UNCHANGED <<accounts, visitor, owner, profile, bell, bellCalls, moment>>,
           call.phase \in {"halfway", "answered"}, call.owner = profileCall.owner, ViewIsOwn(call.view),
           call.phase = "halfway" =>
               /\ call.view.who # NoStudent
               /\ call.view.read >= accounts[call.view.who].since => call.status = accounts[call.view.who].status,
           call.phase = "answered" => Hides(call.view)
    PROVE  PanelsInv'
<1>1. /\ PanelsShape /\ moment \in Nat /\ profile \in PanelProfiles /\ ProfileIsTrue
  BY DEF PanelsInv, PanelsShape
<1>2. /\ ViewIsOwn(profile.shown) /\ Hides(profile.shown)
  BY <1>1 DEF ProfileIsTrue
<1>3. /\ ViewIsOwn(profile.shown)' /\ Hides(profile.shown)' /\ ViewIsOwn(profileCall.view)'
      /\ Hides(profileCall.view)' <=> Hides(call.view)
  BY <1>2 DEF ViewIsOwn, Hides
<1>4. ProfileIsTrue'
  BY <1>1, <1>3 DEF ProfileIsTrue
<1> QED BY <1>1, <1>4, DialogMoves

(* The account is read as it is, of the student whose session it is.        *)
LEMMA ServeAccountKeeps ==
    ASSUME PanelsInv, ServeAccount
    PROVE  PanelsInv'
<1>1. /\ PanelsShape /\ PageFollows /\ ProfileIsTrue /\ moment \in Nat /\ profileCall \in ProfileCalls
      /\ visitor \in Visitors
  BY DEF PanelsInv, PanelsShape
<1>2. /\ profileCall.phase = "sent" /\ UNCHANGED <<accounts, visitor, owner, profile, bell, bellCalls, moment>>
      /\ owner.user # NoStudent /\ profileCall.view = NoView
  BY <1>1 DEF ServeAccount, serverSide, bellSide, ProfileIsTrue
<1>3. NoView \in PanelViews /\ ViewIsOwn(NoView) /\ Hides(NoView)
  BY NothingIsOwn
<1>4. CASE visitor = NoStudent
  <2> DEFINE call == [profileCall EXCEPT !.phase = "answered"]
  <2>1. profileCall' = call
    BY <1>4 DEF ServeAccount
  <2>2. /\ call \in ProfileCalls /\ call.phase = "answered" /\ call.owner = profileCall.owner /\ call.view = NoView
    BY <1>1, <1>2 DEF ProfileCalls
  <2> HIDE DEF call
  <2> QED BY <1>2, <1>3, <2>1, <2>2, CallMoves
<1>5. CASE visitor # NoStudent
  <2> DEFINE seen == [NoView EXCEPT !.who = visitor, !.read = moment]
             call == [profileCall EXCEPT !.phase = "halfway", !.status = accounts[visitor].status, !.view = seen]
  <2>0. visitor \in Learned /\ accounts[visitor] \in PanelAccounts /\ accounts[visitor].status \in Statuses
    BY <1>1, <1>5 DEF PanelsShape, PanelAccounts, Visitors
  <2>1. profileCall' = call
    BY <1>1, <1>2, <1>5 DEF ServeAccount, ProfileCalls, NoView
  <2>2. seen \in PanelViews /\ seen.who = visitor /\ seen.read = moment
    BY <1>1, <1>3 DEF PanelViews
  <2>3. visitor = owner.user
    BY <1>1, <1>2, <1>5 DEF PageFollows
  <2>4. ViewIsOwn(seen)
    BY <1>1, <2>2, <2>3 DEF ViewIsOwn
  <2> HIDE DEF seen
  <2>5. /\ call \in ProfileCalls /\ call.phase = "halfway" /\ call.owner = profileCall.owner /\ call.view = seen
        /\ call.status = accounts[visitor].status
    BY <1>1, <2>0, <2>2 DEF ProfileCalls
  <2> HIDE DEF call
  <2> QED BY <1>2, <1>5, <2>1, <2>2, <2>4, <2>5, CallMoves
<1> QED BY <1>4, <1>5

(* The sanctions are read later: a shadow ban that was read hides them all. *)
LEMMA ServeSanctionsKeeps ==
    ASSUME PanelsInv, ServeSanctions
    PROVE  PanelsInv'
<1>1. /\ PanelsShape /\ ProfileIsTrue /\ moment \in Nat /\ profileCall \in ProfileCalls
      /\ profileCall.view \in PanelViews /\ profileCall.status \in Statuses
  BY DEF PanelsInv, PanelsShape, ProfileCalls
<1>2. /\ profileCall.phase = "halfway" /\ UNCHANGED <<accounts, visitor, owner, profile, bell, bellCalls, moment>>
  BY DEF ServeSanctions, serverSide, bellSide
<1> DEFINE view == profileCall.view
           rows == Exposed(profileCall.status, view.who)
           facing == Facing(profileCall.status)
           seen == [view EXCEPT !.facing = facing, !.rows = rows]
           call == [profileCall EXCEPT !.phase = "answered", !.view = seen]
<1>3. profileCall' = call
  BY <1>1 DEF ServeSanctions, ProfileCalls, PanelViews
<1>4. /\ view.who \in Learned /\ ViewIsOwn(view)
      /\ view.read >= accounts[view.who].since => profileCall.status = accounts[view.who].status
  BY <1>1, <1>2 DEF ProfileIsTrue, PanelViews, Visitors
<1>5. facing \in Statuses /\ rows \in SUBSET Sanctions
  <2>1. accounts[view.who] \in PanelAccounts
    BY <1>1, <1>4 DEF PanelsShape
  <2>2. accounts[view.who].ended \subseteq Sanctions /\ accounts[view.who].status \in Statuses
    BY <2>1 DEF PanelAccounts
  <2> QED BY <1>1, <2>2 DEF Facing, Exposed, OnRecord, Sanctions, Statuses
<1>6. profileCall.status = "SHADOW_BANNED" => facing = "ACTIVE" /\ rows = {}
  BY DEF Facing, Exposed
<1> HIDE DEF facing, rows
<1>7. seen \in PanelViews /\ seen.who = view.who /\ seen.read = view.read /\ seen.facing = facing /\ seen.rows = rows
  BY <1>1, <1>5 DEF PanelViews
<1> HIDE DEF seen
<1>8. /\ call \in ProfileCalls /\ call.phase = "answered" /\ call.owner = profileCall.owner /\ call.view = seen
  BY <1>1, <1>7 DEF ProfileCalls
<1> HIDE DEF call
<1>9. ViewIsOwn(seen)
  BY <1>4, <1>7 DEF ViewIsOwn
<1>10. Hides(seen)
  BY <1>4, <1>6, <1>7 DEF Hides
<1> QED BY <1>2, <1>3, <1>8, <1>9, <1>10, CallMoves

(* The dialog shows the answer, or that there is none.                      *)
LEMMA ProfileEndsWell ==
    ASSUME PanelsInv, ProfileArrives \/ ProfileFails
    PROVE  PanelsInv'
<1>1. /\ PanelsShape /\ ProfileIsTrue /\ moment \in Nat /\ profile \in PanelProfiles /\ profileCall \in ProfileCalls
      /\ profileCall.view \in PanelViews
  BY DEF PanelsInv, PanelsShape, ProfileCalls
<1>2. /\ profileCall.phase # "none" /\ profileCall' = NoProfileCall
      /\ UNCHANGED <<accounts, visitor, owner, bell, bellCalls>>
  BY DEF ProfileArrives, ProfileFails, serverSide, bellSide
<1>3. moment' \in Nat /\ moment' >= moment
  BY <1>1 DEF ProfileArrives, ProfileFails, PanelEvent
<1>4. profileCall.owner = owner
  BY <1>1, <1>2 DEF ProfileIsTrue
<1>5. NoView \in PanelViews /\ ViewIsOwn(NoView) /\ Hides(NoView) /\ NoView.who = NoStudent /\ NoView.read = 0
  BY NothingIsOwn DEF NoView
<1>6. PICK view \in PanelViews : profile' = ProfileAfter(view) /\ ViewIsOwn(view) /\ Hides(view)
  <2>1. CASE ProfileArrives
    BY <1>1, <1>4, <2>1 DEF ProfileArrives, ProfileIsTrue
  <2>2. CASE ProfileFails
    BY <1>4, <1>5, <2>2 DEF ProfileFails
  <2> QED BY <2>1, <2>2
<1>7. profile' \in PanelProfiles /\ ~profile'.loading /\ profile'.shown = view
  <2>1. (view = NoView) \in BOOLEAN
    OBVIOUS
  <2> DEFINE none == view = NoView
  <2>2. profile' = [profile EXCEPT !.loading = FALSE, !.error = none, !.shown = view]
    BY <1>6 DEF ProfileAfter
  <2>3. none \in BOOLEAN
    BY <2>1
  <2> HIDE DEF none
  <2> QED BY <1>1, <2>2, <2>3 DEF PanelProfiles
<1>8. NoProfileCall \in ProfileCalls /\ NoProfileCall.phase = "none" /\ NoProfileCall.view = NoView
  BY <1>5 DEF NoProfileCall, ProfileCalls, PanelOwners, Visitors, Statuses
<1>9. view.read \in Nat
  BY DEF PanelViews
<1>10. ViewIsOwn(profile.shown)' /\ Hides(profile.shown)' /\ ViewIsOwn(profileCall.view)'
  <2>1. ViewIsOwn(profile.shown)'
    BY <1>1, <1>2, <1>3, <1>6, <1>7, <1>9 DEF ViewIsOwn
  <2>2. Hides(profile.shown)'
    BY <1>2, <1>6, <1>7 DEF Hides
  <2>3. ViewIsOwn(profileCall.view)'
    BY <1>1, <1>2, <1>3, <1>5, <1>8 DEF ViewIsOwn
  <2> QED BY <2>1, <2>2, <2>3
<1>11. ProfileIsTrue'
  BY <1>2, <1>7, <1>8, <1>10 DEF ProfileIsTrue
<1> QED BY <1>2, <1>3, <1>7, <1>8, <1>11, DialogMoves

(* Every step of the panels keeps the invariant.                            *)
LEMMA PanelsKeep == PanelsInv /\ [PanelsNext]_panelVars => PanelsInv'
<1> SUFFICES ASSUME PanelsInv, [PanelsNext]_panelVars PROVE PanelsInv'
  OBVIOUS
<1>1. ASSUME NEW s \in Learned, NEW status \in Statuses, SanctionChanges(s, status) PROVE PanelsInv'
  BY <1>1, AdministratorsKeepPanels
<1>2. ASSUME NEW s \in Learned, ReservationCancelled(s) PROVE PanelsInv'
  BY <1>2, AdministratorsKeepPanels
<1>3. ASSUME NEW s \in Learned, SessionStarts(s) PROVE PanelsInv'
  BY <1>3, SessionsKeepPanels
<1>4. CASE SessionStops
  BY <1>4, SessionsKeepPanels
<1>5. CASE OwnerCommitted
  BY <1>5, OwnerKeepsPanels
<1>6. CASE AskProfile
  BY <1>6, AskProfileKeeps
<1>7. CASE CloseProfile
  BY <1>7, CloseProfileKeeps
<1>8. CASE ServeAccount
  BY <1>8, ServeAccountKeeps
<1>9. CASE ServeSanctions
  BY <1>9, ServeSanctionsKeeps
<1>10. CASE ProfileArrives \/ ProfileFails
  BY <1>10, ProfileEndsWell
<1>11. CASE AskBell
  BY <1>11, AskingKeepsPanels
<1>12. ASSUME NEW c \in bellCalls, ServeBell(c) PROVE PanelsInv'
  BY <1>12, ServingKeepsPanels
<1>13. ASSUME NEW c \in bellCalls, BellArrives(c) \/ BellFails(c) PROVE PanelsInv'
  BY <1>13, BellEndsWell
<1>14. CASE UNCHANGED panelVars
  <2>1. /\ PanelsShape /\ PageFollows /\ moment \in Nat
        /\ UNCHANGED <<accounts, visitor, owner, profile, profileCall, bell, bellCalls, moment>>
    BY <1>14 DEF panelVars, PanelsInv, PanelsShape
  <2>2. ProfileIsTrue'
    BY <2>1, ProfileStays
  <2>3. profile' \in PanelProfiles /\ profileCall' \in ProfileCalls /\ moment' \in Nat /\ moment' >= moment
    BY <2>1 DEF PanelsShape
  <2> QED BY <2>1, <2>2, <2>3, DialogMoves
<1> QED BY <1>1, <1>2, <1>3, <1>4, <1>5, <1>6, <1>7, <1>8, <1>9, <1>10, <1>11, <1>12, <1>13, <1>14 DEF PanelsNext

(* A step within one login shows no fewer notices.                          *)
LEMMA NoticesKeep ==
    ASSUME PanelsInv, [PanelsNext]_panelVars, owner' = owner
    PROVE  bell'.state.shown.count >= bell.state.shown.count
<1>0. bell.state.shown.count \in Nat
  BY DEF PanelsInv, PanelsShape, PanelBells, BellStates, PanelNotices
<1>1. CASE bell' = bell
  BY <1>0, <1>1
<1>2. CASE AskBell
  BY <1>0, <1>2, AskingKeepsPanels
<1>3. ASSUME NEW c \in bellCalls, BellArrives(c) \/ BellFails(c)
      PROVE  bell'.state.shown.count >= bell.state.shown.count
  BY <1>3, BellEndsWell
<1>4. ~OwnerCommitted
  BY DEF OwnerCommitted
<1>5. ASSUME NEW s \in Learned, \/ \E status \in Statuses : SanctionChanges(s, status)
                                \/ ReservationCancelled(s) \/ SessionStarts(s)
      PROVE  bell' = bell
  BY <1>5 DEF SanctionChanges, ReservationCancelled, SessionStarts, bellSide
<1>6. SessionStops \/ AskProfile \/ CloseProfile \/ ServeAccount \/ ServeSanctions \/ ProfileArrives \/ ProfileFails
        \/ UNCHANGED panelVars => bell' = bell
  BY DEF SessionStops, AskProfile, CloseProfile, ServeAccount, ServeSanctions, ProfileArrives, ProfileFails,
         panelVars, bellSide
<1>7. ASSUME NEW c \in bellCalls, ServeBell(c) PROVE bell' = bell
  BY <1>7 DEF ServeBell
<1> QED BY <1>1, <1>2, <1>3, <1>4, <1>5, <1>6, <1>7 DEF PanelsNext

(* What the invariant says of what the panels show.                         *)
LEMMA PanelsAreOwn == PanelsInv => PanelsTypeOK /\ PanelsBelongToSession /\ HiddenOnceBanned
<1> SUFFICES ASSUME PanelsInv PROVE PanelsTypeOK /\ PanelsBelongToSession /\ HiddenOnceBanned
  OBVIOUS
<1>1. PanelsShape /\ ProfileIsTrue /\ BellIsTrue
  BY DEF PanelsInv
<1>2. /\ \A s \in Learned : accounts[s].status \in Statuses /\ accounts[s].ended \subseteq Sanctions
      /\ visitor \in Visitors /\ owner.user \in Visitors
      /\ profile.shown.rows \subseteq Sanctions /\ profile.shown.facing \in Statuses
  BY <1>1 DEF PanelsShape, PanelAccounts, PanelOwners, PanelProfiles, PanelViews
<1>3. PanelsTypeOK
  BY <1>1, <1>2 DEF PanelsTypeOK, ProfileIsTrue, BellIsTrue, Visitors
<1>4. PanelsBelongToSession
  BY <1>1 DEF PanelsBelongToSession, ProfileIsTrue, BellIsTrue, ViewIsOwn, NoticesAreTrue
<1>5. HiddenOnceBanned
  BY <1>1 DEF HiddenOnceBanned, ProfileIsTrue, Hides
<1> QED BY <1>3, <1>4, <1>5

(* Whoever logs in and out and however answers are late: what the panels    *)
(* show is the student's own, a shadow ban stays hidden once the profile    *)
(* was read under it, and no notice that was shown is lost.                 *)
THEOREM PanelsSoundness == PanelsSpec => PanelsAreTheStudents
<1>1. PanelsInit => PanelsInv
  BY PanelsStart
<1>2. PanelsInv /\ [PanelsNext]_panelVars => PanelsInv'
  BY PanelsKeep
<1>3. PanelsInv => PanelsTypeOK /\ PanelsBelongToSession /\ HiddenOnceBanned
  BY PanelsAreOwn
<1>4. PanelsInv /\ [PanelsNext]_panelVars =>
        [owner' = owner => bell'.state.shown.count >= bell.state.shown.count]_panelVars
  BY NoticesKeep
<1> QED BY <1>1, <1>2, <1>3, <1>4, PTL DEF PanelsSpec, PanelsAreTheStudents, NoticesStay

(***************************************************************************)
(* The student's client: the page of periods and the dialog of one operation.*)
(***************************************************************************)

(* What the page, a request and the operation of the student may hold.      *)
PageUsers == Users \cup {NoUser}
PageDates == Dates \cup {NoDate}
Pages == [user : PageUsers, sessionFresh : BOOLEAN, fresh : BOOLEAN, error : BOOLEAN,
          cache : [Dates -> View], tag : [Week -> View], target : Dates]
MeCalls == [status : {"none", "sent", "answered"}, cookie : PageUsers, user : PageUsers]
PeriodCalls == [kind : {"none", "week", "date"}, date : PageDates, cookie : PageUsers, tag : [Week -> View],
                status : {"none", "sent"} \cup Answers, body : [Dates -> View], settles : BOOLEAN]
PageActs == [pc : {"idle", "checking", "told"} \cup Modal, kind : {"none", "reserve", "cancel"},
             date : PageDates, post : PageDates, who : PageUsers, session : PageUsers,
             owned : BOOLEAN, latest : BOOLEAN, per : {"done", "wait"} \cup Answers,
             me : {"done", "wait", "accepted", "rejected"}, ok : BOOLEAN]

PageShape ==
    /\ mine \in [Users -> SUBSET Dates] /\ free \subseteq Dates /\ live \subseteq Users
    /\ cookie \in PageUsers
    /\ page \in Pages /\ me \in MeCalls /\ period \in PeriodCalls /\ act \in PageActs

(* What is shown is of the session of the browser, and the ETag is of what  *)
(* is shown.                                                                *)
PageBelongs ==
    /\ ~(page.fresh /\ page.error)
    /\ \A d \in Dates : page.cache[d] # Nothing => page.cache[d].who = cookie
    /\ \A d \in Week : page.tag[d] = page.cache[d]

(* The latest request for periods is of the session of the browser, and is  *)
(* answered for it; its ETag is that of the page, or none.                  *)
CallBelongs ==
    /\ period.status # "none" =>
         /\ period.cookie = cookie /\ period.tag \in {page.tag, NoTag}
         /\ period.kind \in {"week", "date"} /\ (period.kind = "week" <=> period.date \in Week)
    /\ period.status = "ok" => \A d \in Dates : period.body[d].who = cookie
    /\ act.per = "wait" => period.status # "none" /\ period.date = act.post

(* An operation that still has its owner is of the session of the browser;  *)
(* what was sent was sent in the session it was begun in; and what succeeded*)
(* has been done.                                                           *)
ActIsOwn ==
    /\ act.owned => act.who = cookie
    /\ act.pc = "sent" => act.session = act.who
    /\ act.pc \notin {"idle", "told"} =>
         /\ act.post \in Dates /\ act.kind \in {"reserve", "cancel"}
         /\ act.kind = "cancel" => act.date = act.post
    /\ act.pc = "checking" => act.kind = "reserve"
    /\ act.pc = "after" => act.per # "done"
    /\ act.per = "wait" => act.pc \in {"checking", "after"}
    /\ act.pc \in {"answered", "after"} /\ act.ok =>
         act.who \in Users /\ (act.post \in mine[act.who] <=> act.kind = "reserve")

(* A view of a date tells whether the student has a reservation by now.     *)
TellsNow(view, d) == view.who = cookie /\ (view.mine <=> d \in mine[cookie])

(* While the page is refreshed after an operation, whatever answers it gets *)
(* tell what the operation has done.                                        *)
AfterIsTrue ==
    act.pc = "after" /\ act.owned =>
        /\ period.status = "ok" => \A d \in Dates : TellsNow(period.body[d], d)
        /\ period.status = "not_modified" =>
             period.kind = "week" /\ \A d \in Week : TellsNow(page.tag[d], d)
        /\ act.per \in {"ok", "not_modified"} => TellsNow(page.cache[act.post], act.post)

(* What the page rests on: every answer that still counts was asked for in  *)
(* the session the browser has.                                             *)
PageInv == PageShape /\ PageBelongs /\ CallBelongs /\ ActIsOwn /\ AfterIsTrue

(* The values that stand for nothing.                                       *)
LEMMA NothingsOnPage ==
    /\ Nothing \in View /\ Nothing.who = NoUser /\ NoTag \in [Week -> View]
    /\ NoCall \in PeriodCalls /\ NoCall.status = "none" /\ NoCall.kind = "none"
    /\ NoMe \in MeCalls
    /\ Idle \in PageActs /\ Idle.pc = "idle" /\ ~Idle.owned /\ Idle.per = "done" /\ Idle.me = "done" /\ ~Idle.ok
<1>1. Nothing \in View /\ Nothing.who = NoUser
  BY DEF Nothing, View
<1>2. NoTag \in [Week -> View] /\ [d \in Dates |-> Nothing] \in [Dates -> View]
  BY <1>1 DEF NoTag
<1>3. NoCall \in PeriodCalls /\ NoCall.status = "none" /\ NoCall.kind = "none"
  BY <1>2 DEF NoCall, PeriodCalls, PageUsers, PageDates
<1>4. NoMe \in MeCalls
  BY DEF NoMe, MeCalls, PageUsers
<1>5. Idle \in PageActs /\ Idle.pc = "idle" /\ ~Idle.owned /\ Idle.per = "done" /\ Idle.me = "done" /\ ~Idle.ok
  BY DEF Idle, PageActs, PageUsers, PageDates
<1> QED BY <1>1, <1>2, <1>3, <1>4, <1>5

(* The page begins with nothing shown, asked or begun.                      *)
LEMMA PageStarts == PageInit => PageInv
<1> SUFFICES ASSUME PageInit PROVE PageInv
  OBVIOUS
<1> USE NothingsOnPage
<1>1. PICK d \in Week :
        page = [user |-> NoUser, sessionFresh |-> FALSE, fresh |-> FALSE, error |-> FALSE,
                cache |-> [e \in Dates |-> Nothing], tag |-> NoTag, target |-> d]
  BY DEF PageInit
<1>2. d \in Dates
  BY PageAssumption DEF PageAssumption
<1>3. page \in Pages /\ page.cache = [e \in Dates |-> Nothing] /\ page.tag = NoTag /\ ~page.fresh
  BY <1>1, <1>2 DEF Pages, PageUsers
<1>4. PageShape
  BY <1>3 DEF PageInit, PageShape, PageUsers
<1>5. PageBelongs
  BY <1>3, PageAssumption DEF PageBelongs, NoTag, PageAssumption
<1>6. CallBelongs /\ ActIsOwn /\ AfterIsTrue
  BY DEF PageInit, CallBelongs, ActIsOwn, AfterIsTrue
<1> QED BY <1>4, <1>5, <1>6 DEF PageInv

(* A request for periods, as it is sent.                                    *)
LEMMA PeriodCallIs ==
    ASSUME NEW d \in Dates, NEW holder \in PageUsers, NEW tag \in [Week -> View], NEW settles \in BOOLEAN,
           NEW call, call = PeriodCall(d, holder, tag, settles)
    PROVE  /\ call \in PeriodCalls /\ call.status = "sent" /\ call.date = d /\ call.cookie = holder
           /\ call.tag = tag /\ call.kind \in {"week", "date"} /\ (call.kind = "week" <=> d \in Week)
<1> DEFINE kind == IF d \in Week THEN "week" ELSE "date"
<1>1. kind \in {"week", "date"} /\ (kind = "week" <=> d \in Week)
  OBVIOUS
<1>2. call = [NoCall EXCEPT !.kind = kind, !.date = d, !.cookie = holder,
                            !.tag = tag, !.status = "sent", !.settles = settles]
  BY DEF PeriodCall
<1> HIDE DEF kind
<1>3. NoCall \in PeriodCalls
  BY NothingsOnPage
<1> QED BY <1>1, <1>2, <1>3 DEF PeriodCalls, PageDates

(* The same operation, perhaps without its owner.                           *)
SameDeed(a, b) ==
    /\ b \in PageActs /\ b.pc = a.pc /\ b.kind = a.kind /\ b.date = a.date /\ b.post = a.post
    /\ b.who = a.who /\ b.session = a.session /\ b.ok = a.ok
    /\ b.owned => a.owned
    /\ b.per \in {"done", "wait"} => b.per = a.per

(* A replaced request leaves the operation as it is, except what it waits   *)
(* for.                                                                     *)
LEMMA ReplacedDeed ==
    ASSUME NEW a \in PageActs
    PROVE  /\ SameDeed(a, a)
           /\ SameDeed(a, PeriodReplaced(a)) /\ PeriodReplaced(a).per # "wait"
           /\ PeriodReplaced(a).per \in {a.per, "error"}
           /\ \A tracked \in BOOLEAN : SameDeed(a, MeReplaced(a, tracked)) /\ MeReplaced(a, tracked).per = a.per
           /\ Disowned(a) = Idle \/ (SameDeed(a, Disowned(a)) /\ ~Disowned(a).owned /\ Disowned(a).per = a.per)
<1>1. SameDeed(a, a)
  BY DEF SameDeed
<1>2. /\ SameDeed(a, PeriodReplaced(a)) /\ PeriodReplaced(a).per # "wait"
      /\ PeriodReplaced(a).per \in {a.per, "error"}
  BY DEF SameDeed, PeriodReplaced, PageActs, Answers
<1>3. ASSUME NEW tracked \in BOOLEAN
      PROVE  SameDeed(a, MeReplaced(a, tracked)) /\ MeReplaced(a, tracked).per = a.per
  BY DEF SameDeed, MeReplaced, PageActs
<1>4. Disowned(a) = Idle \/ (SameDeed(a, Disowned(a)) /\ ~Disowned(a).owned /\ Disowned(a).per = a.per)
  BY DEF SameDeed, Disowned, PageActs
<1> QED BY <1>1, <1>2, <1>3, <1>4

(* An operation that goes on is as much its owner's as before.              *)
LEMMA DeedStays ==
    ASSUME PageInv, act' = Idle \/ SameDeed(act, act'), mine' = mine, act'.owned => cookie' = cookie
    PROVE  ActIsOwn'
<1>1. ActIsOwn
  BY DEF PageInv
<1>2. CASE act' = Idle
  BY <1>2, NothingsOnPage DEF ActIsOwn
<1>3. CASE SameDeed(act, act')
  BY <1>1, <1>3 DEF ActIsOwn, SameDeed
<1> QED BY <1>2, <1>3

(* What the refreshed page was told stays true while others ask and answer. *)
LEMMA AfterStays ==
    ASSUME PageInv, SameDeed(act, act'), mine' = mine, cookie' = cookie,
           page'.cache = page.cache, page'.tag = page.tag,
           \/ period' = period
           \/ period'.status \in {"sent", "error", "none"},
           act'.per \in {act.per, "error", "wait"}
    PROVE  AfterIsTrue'
<1> SUFFICES ASSUME act'.pc = "after", act'.owned
             PROVE  /\ period'.status = "ok" => \A d \in Dates : TellsNow(period.body[d], d)'
                    /\ period'.status = "not_modified" =>
                         period'.kind = "week" /\ \A d \in Week : TellsNow(page.tag[d], d)'
                    /\ act'.per \in {"ok", "not_modified"} => TellsNow(page.cache[act.post], act.post)'
  BY DEF AfterIsTrue
<1>1. AfterIsTrue /\ act.pc = "after" /\ act.owned /\ act'.post = act.post
  BY DEF PageInv, SameDeed
<1>2. period'.status = "ok" => \A d \in Dates : TellsNow(period.body[d], d)'
  BY <1>1 DEF AfterIsTrue, TellsNow
<1>3. period'.status = "not_modified" => period'.kind = "week" /\ \A d \in Week : TellsNow(page.tag[d], d)'
  BY <1>1 DEF AfterIsTrue, TellsNow
<1>4. act'.per \in {"ok", "not_modified"} => TellsNow(page.cache[act.post], act.post)'
  BY <1>1 DEF AfterIsTrue, TellsNow
<1> QED BY <1>2, <1>3, <1>4

(* The page has a new user: nothing is shown, and nothing is owned.         *)
LEMMA TransitionKeeps ==
    ASSUME PageInv, NEW u \in PageUsers, NEW holder \in PageUsers, NEW a \in PageActs,
           SameDeed(act, a), a.per = act.per, Transition(u, holder, a), cookie' = holder,
           UNCHANGED <<mine, free>>, live' \subseteq Users, me' \in MeCalls
    PROVE  PageInv' /\ (act' = Idle \/ act'.pc = act.pc)
<1>1. PageShape /\ page \in Pages /\ page.target \in Dates
  BY DEF PageInv, PageShape, Pages
<1>2. page' = Cleared(u) /\ period' = FirstRequest(u, holder) /\ act' = Disowned(PeriodReplaced(a))
  BY DEF Transition
<1>3. NoTag \in [Week -> View] /\ [d \in Dates |-> Nothing] \in [Dates -> View]
  BY NothingsOnPage
<1>4. /\ page' \in Pages /\ page'.cache = [d \in Dates |-> Nothing] /\ page'.tag = NoTag /\ ~page'.fresh
  BY <1>1, <1>2, <1>3 DEF Cleared, Pages
<1>5. /\ act' \in PageActs /\ ~act'.owned /\ act'.per # "wait"
      /\ act' = Idle \/ SameDeed(act, act')
  <2> DEFINE b == PeriodReplaced(a)
  <2>1. SameDeed(a, b) /\ b.per # "wait" /\ b \in PageActs
    BY ReplacedDeed DEF SameDeed
  <2>2. act' = Disowned(b)
    BY <1>2
  <2> HIDE DEF b
  <2>3. Disowned(b) = Idle \/ (SameDeed(b, Disowned(b)) /\ ~Disowned(b).owned /\ Disowned(b).per = b.per)
    BY <2>1, ReplacedDeed
  <2> QED BY <2>1, <2>2, <2>3, NothingsOnPage DEF SameDeed
<1>6. /\ period' \in PeriodCalls /\ period'.status \in {"none", "sent"}
      /\ period'.status = "sent" =>
           /\ period'.cookie = holder /\ period'.tag = NoTag
           /\ period'.kind \in {"week", "date"} /\ (period'.kind = "week" <=> period'.date \in Week)
  <2>1. CASE u = NoUser
    BY <1>2, <2>1, NothingsOnPage DEF FirstRequest
  <2>2. CASE u # NoUser
    <3>1. period' = PeriodCall(page.target, holder, NoTag, TRUE)
      BY <1>2, <2>2 DEF FirstRequest
    <3>2. PICK settles \in BOOLEAN : period' = PeriodCall(page.target, holder, NoTag, settles)
      BY <3>1, Zenon
    <3> QED BY <1>1, <1>3, <3>2, PeriodCallIs
  <2> QED BY <2>1, <2>2
<1>7. PageShape'
  BY <1>1, <1>4, <1>5, <1>6 DEF PageShape
<1>8. PageBelongs'
  BY <1>4, PageAssumption DEF PageBelongs, PageAssumption, NoTag
<1>9. CallBelongs'
  BY <1>5, <1>6 DEF CallBelongs
<1>10. ActIsOwn'
  BY <1>5, DeedStays
<1>11. AfterIsTrue'
  BY <1>5 DEF AfterIsTrue
<1> QED BY <1>5, <1>7, <1>8, <1>9, <1>10, <1>11 DEF PageInv, SameDeed

(* Steps that leave the periods alone: the operation goes on, and the page  *)
(* only learns of its session.                                              *)
LEMMA SessionLearnt ==
    ASSUME PageInv, page' \in Pages, page'.cache = page.cache, page'.tag = page.tag,
           ~(page'.fresh /\ page'.error),
           SameDeed(act, act'), act'.per = act.per, UNCHANGED <<mine, cookie, period>>,
           free' \subseteq Dates, live' \subseteq Users, me' \in MeCalls
    PROVE  PageInv'
<1>1. PageShape /\ PageBelongs /\ CallBelongs
  BY DEF PageInv
<1>2. PageShape'
  BY <1>1 DEF PageShape, SameDeed
<1>3. PageBelongs'
  BY <1>1 DEF PageBelongs
<1>4. CallBelongs'
  BY <1>1 DEF CallBelongs, SameDeed
<1>5. ActIsOwn'
  BY DeedStays
<1>6. AfterIsTrue'
  BY AfterStays
<1> QED BY <1>2, <1>3, <1>4, <1>5, <1>6 DEF PageInv

(* The request for the session is sent, answered or lost; the session ends  *)
(* at the server; others move.                                              *)
LEMMA SessionStepsKeep ==
    ASSUME PageInv, ServeMe \/ MeFails \/ Mount \/ SessionEnds \/ \E d \in Dates : OthersMove(d)
    PROVE  PageInv' /\ act'.pc = act.pc /\ mine' = mine
<1>1. /\ PageShape /\ page \in Pages /\ me \in MeCalls /\ act \in PageActs /\ cookie \in PageUsers
      /\ live \subseteq Users /\ free \subseteq Dates /\ PageBelongs
  BY DEF PageInv, PageShape
<1>2. SameDeed(act, act)
  BY <1>1, ReplacedDeed
<1>3. CASE ServeMe
  <2> DEFINE known == IF me.cookie \in live THEN me.cookie ELSE NoUser
  <2>1. me' = [me EXCEPT !.status = "answered", !.user = known] /\ UNCHANGED <<mine, free, live, cookie, page, period, act>>
    BY <1>3 DEF ServeMe, serverVars
  <2>2. known \in PageUsers
    BY <1>1 DEF PageUsers
  <2> HIDE DEF known
  <2>3. me' \in MeCalls
    BY <1>1, <2>1, <2>2 DEF MeCalls
  <2> QED BY <1>1, <1>2, <2>1, <2>3, SessionLearnt DEF PageBelongs
<1>4. CASE MeFails
  <2>1. /\ me' = NoMe /\ page' = [page EXCEPT !.sessionFresh = FALSE] /\ UNCHANGED <<mine, free, live, cookie, period>>
        /\ act' = IF act.me = "wait" THEN [act EXCEPT !.me = "accepted"] ELSE act
    BY <1>4 DEF MeFails, serverVars
  <2>2. page' \in Pages /\ page'.cache = page.cache /\ page'.tag = page.tag /\ ~(page'.fresh /\ page'.error)
    BY <1>1, <2>1 DEF Pages, PageBelongs
  <2>3. SameDeed(act, act') /\ act'.per = act.per /\ act'.pc = act.pc
    BY <1>1, <2>1 DEF SameDeed, PageActs
  <2> QED BY <1>1, <2>1, <2>2, <2>3, NothingsOnPage, SessionLearnt
<1>5. CASE Mount
  <2>1. me' = MeCall(cookie) /\ UNCHANGED <<mine, free, live, cookie, page, period, act>>
    BY <1>5 DEF Mount, serverVars
  <2>2. me' \in MeCalls
    BY <1>1, <2>1 DEF MeCall, MeCalls, PageUsers
  <2> QED BY <1>1, <1>2, <2>1, <2>2, SessionLearnt DEF PageBelongs
<1>6. CASE SessionEnds
  <2>1. live' \subseteq Users /\ UNCHANGED <<mine, free, cookie, page, me, period, act>>
    BY <1>1, <1>6 DEF SessionEnds
  <2> QED BY <1>1, <1>2, <2>1, SessionLearnt DEF PageBelongs
<1>7. ASSUME NEW d \in Dates, OthersMove(d) PROVE PageInv' /\ act'.pc = act.pc /\ mine' = mine
  <2>1. free' \subseteq Dates /\ UNCHANGED <<mine, live, cookie, page, me, period, act>>
    BY <1>1, <1>7 DEF OthersMove
  <2> QED BY <1>1, <1>2, <2>1, SessionLearnt DEF PageBelongs
<1> QED BY <1>3, <1>4, <1>5, <1>6, <1>7

(* The page learns who is logged in, and is cleared for a new user.         *)
LEMMA MeArrivesKeeps ==
    ASSUME PageInv, MeArrives
    PROVE  PageInv' /\ (act' = Idle \/ act'.pc = act.pc) /\ mine' = mine
<1>1. /\ PageShape /\ page \in Pages /\ me \in MeCalls /\ act \in PageActs /\ cookie \in PageUsers
      /\ live \subseteq Users /\ free \subseteq Dates /\ PageBelongs /\ me.user \in PageUsers
  BY DEF PageInv, PageShape, MeCalls
<1> DEFINE a == IF act.me = "wait" THEN [act EXCEPT !.me = "accepted"] ELSE act
<1>2. a \in PageActs /\ SameDeed(act, a) /\ a.per = act.per
  BY <1>1 DEF SameDeed, PageActs
<1>3. me' = NoMe /\ UNCHANGED <<mine, free, live, cookie>>
  BY DEF MeArrives, serverVars
<1>4. CASE me.user = NoUser \/ me.user # page.user
  <2>1. Transition(me.user, cookie, a)
    BY <1>4 DEF MeArrives
  <2> HIDE DEF a
  <2> QED BY <1>1, <1>2, <1>3, <2>1, NothingsOnPage, TransitionKeeps
<1>5. CASE ~(me.user = NoUser \/ me.user # page.user)
  <2>1. page' = [page EXCEPT !.sessionFresh = TRUE] /\ act' = a /\ period' = period
    BY <1>5 DEF MeArrives
  <2> HIDE DEF a
  <2>2. page' \in Pages /\ page'.cache = page.cache /\ page'.tag = page.tag /\ ~(page'.fresh /\ page'.error)
    BY <1>1, <2>1 DEF Pages, PageBelongs
  <2> QED BY <1>1, <1>2, <1>3, <2>1, <2>2, NothingsOnPage, SessionLearnt DEF SameDeed
<1> QED BY <1>4, <1>5

(* Logging in and out changes the session and the user of the page at once. *)
LEMMA LoginsKeep ==
    ASSUME PageInv, LogOut \/ \E u \in Users : Login(u)
    PROVE  PageInv' /\ (act' = Idle \/ act'.pc = act.pc) /\ mine' = mine
<1>1. /\ PageShape /\ act \in PageActs /\ live \subseteq Users /\ me \in MeCalls /\ NoUser \in PageUsers
  BY DEF PageInv, PageShape, PageUsers
<1>2. SameDeed(act, act)
  BY <1>1, ReplacedDeed
<1>3. CASE LogOut
  <2>1. /\ live' \subseteq Users /\ cookie' = NoUser /\ Transition(NoUser, NoUser, act)
        /\ UNCHANGED <<mine, free, me>>
    BY <1>1, <1>3 DEF LogOut
  <2> QED BY <1>1, <1>2, <2>1, TransitionKeeps
<1>4. ASSUME NEW u \in Users, Login(u) PROVE PageInv' /\ (act' = Idle \/ act'.pc = act.pc) /\ mine' = mine
  <2>1. /\ live' \subseteq Users /\ cookie' = u /\ Transition(u, u, act) /\ UNCHANGED <<mine, free, me>>
    BY <1>1, <1>4 DEF Login
  <2>2. u \in PageUsers
    BY DEF PageUsers
  <2> QED BY <1>1, <1>2, <2>1, <2>2, TransitionKeeps
<1> QED BY <1>3, <1>4

(* The call for periods is served for the student whose session it has: its *)
(* answer tells what the student has by now.                                *)
LEMMA ServePeriodKeeps ==
    ASSUME PageInv, ServePeriod
    PROVE  PageInv' /\ act' = act /\ mine' = mine
<1>1. /\ PageShape /\ page \in Pages /\ period \in PeriodCalls /\ act \in PageActs /\ cookie \in PageUsers
      /\ mine \in [Users -> SUBSET Dates] /\ live \subseteq Users /\ PageBelongs /\ CallBelongs /\ AfterIsTrue
  BY DEF PageInv, PageShape
<1>2. /\ period.status = "sent" /\ UNCHANGED <<mine, free, live, cookie, page, me, act>>
      /\ period.cookie = cookie /\ period.tag \in {page.tag, NoTag}
      /\ period.kind \in {"week", "date"} /\ (period.kind = "week" <=> period.date \in Week)
  BY <1>1 DEF ServePeriod, serverVars, CallBelongs
<1> DEFINE known == cookie \in live
           status == IF ~known THEN "error"
                     ELSE IF period.kind = "week" /\ period.tag = WeekOf(cookie) THEN "not_modified" ELSE "ok"
           body == IF known THEN [d \in Dates |-> Content(cookie, d)] ELSE period.body
<1>3. period' = [period EXCEPT !.status = status, !.body = body]
  BY <1>1, <1>2 DEF ServePeriod
<1>4. known => cookie \in Users /\ cookie # NoUser
  BY <1>1, PageAssumption DEF PageAssumption
<1>5. ASSUME known, NEW d \in Dates
      PROVE  Content(cookie, d) \in View /\ TellsNow(Content(cookie, d), d)
  <2> DEFINE has == d \in mine[cookie]
             seat == d \in free
  <2>1. has \in BOOLEAN /\ seat \in BOOLEAN
    OBVIOUS
  <2>2. Content(cookie, d) = [who |-> cookie, mine |-> has, free |-> seat]
    BY DEF Content
  <2> HIDE DEF has, seat
  <2>3. /\ Content(cookie, d) \in View /\ Content(cookie, d).who = cookie
        /\ Content(cookie, d).mine = has
    BY <1>4, <1>5, <2>1, <2>2 DEF View
  <2> QED BY <2>3 DEF TellsNow, has
<1>6. status \in Answers /\ body \in [Dates -> View]
  <2>1. CASE known
    <3>1. [d \in Dates |-> Content(cookie, d)] \in [Dates -> View]
      BY <1>5, <2>1
    <3> QED BY <2>1, <3>1 DEF Answers
  <2>2. CASE ~known
    BY <1>1, <2>2 DEF Answers, PeriodCalls
  <2> QED BY <2>1, <2>2
<1>7. status = "ok" => \A d \in Dates : TellsNow(body[d], d)
  BY <1>5
<1>8. status = "not_modified" => period.kind = "week" /\ \A d \in Week : TellsNow(page.tag[d], d)
  <2> SUFFICES ASSUME status = "not_modified"
               PROVE  period.kind = "week" /\ \A d \in Week : TellsNow(page.tag[d], d)
    OBVIOUS
  <2>1. known /\ period.kind = "week" /\ period.tag = WeekOf(cookie)
    OBVIOUS
  <2>2. PICK e \in Week : e = period.date
    BY <1>2, <2>1
  <2>3. Week \subseteq Dates
    BY PageAssumption DEF PageAssumption
  <2>4. \A d \in Week : period.tag[d] = Content(cookie, d)
    BY <2>1 DEF WeekOf
  <2>5. period.tag # NoTag
    <3>1. period.tag[e].who = cookie
      BY <1>5, <2>1, <2>2, <2>3, <2>4 DEF TellsNow
    <3>2. NoTag[e].who = NoUser
      BY DEF NoTag, Nothing
    <3> QED BY <1>4, <2>1, <3>1, <3>2
  <2> QED BY <1>2, <1>5, <2>1, <2>3, <2>4, <2>5
<1> HIDE DEF status, body, known
<1>9. /\ period' \in PeriodCalls /\ period'.status = status /\ period'.body = body /\ period'.kind = period.kind
      /\ period'.cookie = period.cookie /\ period'.tag = period.tag /\ period'.date = period.date
  BY <1>1, <1>3, <1>6 DEF PeriodCalls
<1>10. PageShape'
  BY <1>1, <1>2, <1>9 DEF PageShape
<1>11. PageBelongs'
  BY <1>1, <1>2 DEF PageBelongs
<1>12. CallBelongs'
  <2>1. \A d \in Dates : period'.status = "ok" => period'.body[d].who = cookie
    BY <1>7, <1>9 DEF TellsNow
  <2>2. act.per = "wait" => period.date = act.post
    BY <1>1 DEF CallBelongs
  <2>3. period'.status # "none"
    BY <1>6, <1>9 DEF Answers
  <2> QED BY <1>2, <1>9, <2>1, <2>2, <2>3 DEF CallBelongs
<1>13. ActIsOwn'
  <2>1. ActIsOwn
    BY DEF PageInv
  <2> QED BY <1>2, <2>1 DEF ActIsOwn
<1>14. AfterIsTrue'
  <2>1. \A v, d : TellsNow(v, d)' <=> TellsNow(v, d)
    BY <1>2 DEF TellsNow
  <2>2. period'.status = "ok" => \A d \in Dates : TellsNow(period.body[d], d)'
    BY <1>2, <1>7, <1>9 DEF TellsNow
  <2>3. period'.status = "not_modified" => period'.kind = "week" /\ \A d \in Week : TellsNow(page.tag[d], d)'
    BY <1>2, <1>8, <1>9 DEF TellsNow
  <2>4. act.pc = "after" /\ act.owned /\ act.per \in {"ok", "not_modified"} => TellsNow(page.cache[act.post], act.post)'
    BY <1>1, <1>2 DEF AfterIsTrue, TellsNow
  <2> QED BY <1>2, <2>2, <2>3, <2>4 DEF AfterIsTrue
<1> QED BY <1>2, <1>10, <1>11, <1>12, <1>13, <1>14 DEF PageInv

(* The answer is lost.                                                      *)
LEMMA PeriodFailsKeeps ==
    ASSUME PageInv, PeriodFails
    PROVE  PageInv' /\ act' = act /\ mine' = mine
<1>1. /\ PageShape /\ period \in PeriodCalls /\ act \in PageActs /\ PageBelongs /\ CallBelongs /\ ActIsOwn
  BY DEF PageInv, PageShape
<1>2. /\ period.status = "sent" /\ UNCHANGED <<mine, free, live, cookie, page, me, act>>
      /\ period' = [period EXCEPT !.status = "error"]
  BY DEF PeriodFails, serverVars
<1>3. /\ period' \in PeriodCalls /\ period'.status = "error" /\ period'.kind = period.kind
      /\ period'.cookie = period.cookie /\ period'.tag = period.tag /\ period'.date = period.date
  BY <1>1, <1>2 DEF PeriodCalls, Answers
<1>4. PageShape'
  BY <1>1, <1>2, <1>3 DEF PageShape
<1>5. PageBelongs' /\ ActIsOwn'
  BY <1>1, <1>2 DEF PageBelongs, ActIsOwn
<1>6. CallBelongs'
  BY <1>1, <1>2, <1>3 DEF CallBelongs
<1>7. AfterIsTrue'
  BY <1>1, <1>2, <1>3, ReplacedDeed, AfterStays
<1> QED BY <1>2, <1>4, <1>5, <1>6, <1>7 DEF PageInv

(* The answer is shown, and kept by its ETag; it is what the operation that *)
(* waits for it has waited for.                                             *)
LEMMA PeriodArrivesKeeps ==
    ASSUME PageInv, PeriodArrives
    PROVE  PageInv' /\ act'.pc = act.pc /\ mine' = mine
<1>1. /\ PageShape /\ page \in Pages /\ period \in PeriodCalls /\ act \in PageActs /\ cookie \in PageUsers
      /\ PageBelongs /\ CallBelongs /\ AfterIsTrue /\ Week \subseteq Dates
  BY PageAssumption DEF PageInv, PageShape, PageAssumption
<1>2. /\ period.status \in Answers /\ UNCHANGED <<mine, free, live, cookie, me>> /\ period' = NoCall
      /\ act' = Answered /\ period.status # "none"
  BY DEF PeriodArrives, serverVars, Answers
<1>3. period.kind \in {"week", "date"} /\ (period.kind = "week" <=> period.date \in Week)
  BY <1>1, <1>2 DEF CallBelongs
<1> DEFINE cache == [d \in Dates |-> Fetched(d)]
           tag == IF period.status = "ok" /\ period.kind = "week" THEN [d \in Week |-> period.body[d]] ELSE page.tag
           fresh == IF period.settles THEN period.status # "error" ELSE page.fresh
           error == IF period.settles THEN period.status = "error" ELSE page.error
<1>4. page' = [page EXCEPT !.cache = cache, !.tag = tag, !.fresh = fresh, !.error = error]
  BY DEF PeriodArrives
<1>5. \A d \in Dates : Fetched(d) \in View
  BY <1>1 DEF Fetched, Pages, PeriodCalls
<1>6. cache \in [Dates -> View] /\ tag \in [Week -> View]
  BY <1>1, <1>5 DEF Pages, PeriodCalls
<1>7. fresh \in BOOLEAN /\ error \in BOOLEAN /\ ~(fresh /\ error)
  BY <1>1 DEF Pages, PageBelongs
<1>8. \A d \in Dates : cache[d] = Fetched(d)
  OBVIOUS
<1>9. \A d \in Week : tag[d] = cache[d]
  <2>1. CASE period.status = "ok" /\ period.kind = "week"
    BY <1>1, <2>1 DEF Fetched
  <2>2. CASE ~(period.status = "ok" /\ period.kind = "week")
    <3>1. \A d \in Week : Fetched(d) = page.cache[d]
      BY <1>1, <1>3, <2>2 DEF Fetched
    <3> QED BY <1>1, <1>8, <2>2, <3>1 DEF PageBelongs
  <2> QED BY <2>1, <2>2
<1> HIDE DEF cache, tag, fresh, error
<1>10. /\ page' \in Pages /\ page'.cache = cache /\ page'.tag = tag /\ page'.fresh = fresh /\ page'.error = error
  BY <1>1, <1>4, <1>6, <1>7 DEF Pages
<1>11. /\ SameDeed(act, act') /\ act'.pc = act.pc
       /\ act'.per = IF act.per = "wait" THEN period.status ELSE act.per
  <2> DEFINE per == IF act.per = "wait" THEN period.status ELSE act.per
  <2>1. act' = [act EXCEPT !.per = per]
    BY <1>2 DEF Answered
  <2>2. per \in {"done", "wait"} \cup Answers /\ (per \in {"done", "wait"} => per = act.per)
    BY <1>1, <1>2 DEF PageActs, Answers
  <2> HIDE DEF per
  <2>3. act' \in PageActs /\ act'.per = per /\ SameDeed(act, act')
    BY <1>1, <2>1, <2>2 DEF PageActs, SameDeed
  <2> QED BY <2>3 DEF per, SameDeed
<1>12. PageShape'
  BY <1>1, <1>2, <1>10, <1>11, NothingsOnPage DEF PageShape, SameDeed
<1>13. PageBelongs'
  <2>1. \A d \in Dates : cache[d] # Nothing => cache[d].who = cookie
    BY <1>1, <1>8 DEF Fetched, PageBelongs, CallBelongs
  <2> QED BY <1>2, <1>7, <1>9, <1>10, <2>1 DEF PageBelongs
<1>14. CallBelongs'
  <2>1. act'.per # "wait" /\ period'.status = "none"
    BY <1>2, <1>11, NothingsOnPage DEF Answers
  <2> QED BY <2>1 DEF CallBelongs
<1>15. ActIsOwn'
  BY <1>2, <1>11, DeedStays DEF SameDeed
<1>16. AfterIsTrue'
  <2> SUFFICES ASSUME act'.pc = "after", act'.owned, act'.per \in {"ok", "not_modified"}
               PROVE  TellsNow(page.cache[act.post], act.post)'
    BY <1>2, NothingsOnPage DEF AfterIsTrue
  <2>1. act.pc = "after" /\ act.owned /\ act'.post = act.post
    BY <1>11 DEF SameDeed
  <2>2. act.post \in Dates
    BY <2>1 DEF PageInv, ActIsOwn
  <2>3. TellsNow(cache[act.post], act.post)
    <3>1. CASE period.status = "ok" /\ act.post \in (IF period.kind = "week" THEN Week ELSE {period.date})
      <4>1. cache[act.post] = period.body[act.post]
        BY <1>8, <2>2, <3>1 DEF Fetched
      <4> QED BY <1>1, <2>1, <2>2, <3>1, <4>1 DEF AfterIsTrue
    <3>2. CASE ~(period.status = "ok" /\ act.post \in (IF period.kind = "week" THEN Week ELSE {period.date}))
      <4>1. cache[act.post] = page.cache[act.post]
        BY <1>8, <2>2, <3>2 DEF Fetched
      <4>2. CASE act.per = "wait"
        <5>1. period.date = act.post
          BY <1>1, <4>2 DEF CallBelongs
        <5>2. period.status = "not_modified"
          BY <1>3, <1>11, <3>2, <4>2, <5>1
        <5>3. act.post \in Week /\ TellsNow(page.tag[act.post], act.post)
          BY <1>1, <1>3, <2>1, <5>1, <5>2 DEF AfterIsTrue
        <5> QED BY <1>1, <4>1, <5>3 DEF PageBelongs
      <4>3. CASE act.per # "wait"
        BY <1>1, <1>11, <2>1, <4>1, <4>3 DEF AfterIsTrue
      <4> QED BY <4>2, <4>3
    <3> QED BY <3>1, <3>2
  <2> QED BY <1>2, <1>10, <2>1, <2>3 DEF TellsNow
<1> QED BY <1>2, <1>11, <1>12, <1>13, <1>14, <1>15, <1>16 DEF PageInv

(* A request for periods takes the place of the one before.                 *)
LEMMA AskedAnew ==
    ASSUME PageInv, NEW call \in PeriodCalls, period' = call, call.status = "sent", call.cookie = cookie,
           call.tag \in {page.tag, NoTag}, call.kind \in {"week", "date"}, call.kind = "week" <=> call.date \in Week,
           page' \in Pages, page'.cache = page.cache, page'.tag = page.tag, ~(page'.fresh /\ page'.error),
           SameDeed(act, act'), act'.per \in {act.per, "error"}, act'.per # "wait",
           UNCHANGED <<mine, free, live, cookie>>, me' \in MeCalls
    PROVE  PageInv'
<1>1. PageShape /\ PageBelongs
  BY DEF PageInv
<1>2. PageShape'
  BY <1>1 DEF PageShape, SameDeed
<1>3. PageBelongs'
  BY <1>1 DEF PageBelongs
<1>4. CallBelongs'
  BY DEF CallBelongs
<1>5. ActIsOwn'
  BY DeedStays
<1>6. AfterIsTrue'
  BY AfterStays
<1> QED BY <1>2, <1>3, <1>4, <1>5, <1>6 DEF PageInv

(* The timers, the button and the choice of a date ask for periods.         *)
LEMMA AskingKeepsPage ==
    ASSUME PageInv, Retry \/ (\E visible \in BOOLEAN : Poll(visible)) \/ (\E d \in Dates : SelectDate(d))
    PROVE  PageInv' /\ act'.pc = act.pc /\ mine' = mine
<1>1. /\ PageShape /\ page \in Pages /\ period \in PeriodCalls /\ act \in PageActs /\ cookie \in PageUsers
      /\ PageBelongs /\ CallBelongs /\ Week \subseteq Dates /\ page.target \in Dates /\ page.tag \in [Week -> View]
      /\ me \in MeCalls
  BY PageAssumption DEF PageInv, PageShape, PageAssumption, Pages
<1>2. MeCall(cookie) \in MeCalls
  BY <1>1 DEF MeCall, MeCalls, PageUsers
<1>3. ~(page.fresh /\ page.error)
  BY <1>1 DEF PageBelongs
<1>4. ASSUME NEW visible \in BOOLEAN, Poll(visible) PROVE PageInv' /\ act'.pc = act.pc /\ mine' = mine
  <2>1. /\ period' = PeriodCall(page.target, cookie, page.tag, TRUE) /\ UNCHANGED <<mine, free, live, cookie, page>>
        /\ me' \in MeCalls
        /\ act' = PeriodReplaced(act) \/ act' = MeReplaced(PeriodReplaced(act), TRUE)
    BY <1>1, <1>2, <1>4 DEF Poll, serverVars
  <2>2. PICK settles \in BOOLEAN : period' = PeriodCall(page.target, cookie, page.tag, settles)
    BY <2>1, Zenon
  <2>3. /\ period' \in PeriodCalls /\ period'.status = "sent" /\ period'.cookie = cookie /\ period'.tag = page.tag
        /\ period'.kind \in {"week", "date"} /\ (period'.kind = "week" <=> period'.date \in Week)
    BY <1>1, <2>2, PeriodCallIs
  <2>4. SameDeed(act, act') /\ act'.per \in {act.per, "error"} /\ act'.per # "wait" /\ act'.pc = act.pc
    <3> DEFINE b == PeriodReplaced(act)
    <3>1. SameDeed(act, b) /\ b.per # "wait" /\ b.per \in {act.per, "error"}
      BY <1>1, ReplacedDeed
    <3>2. act' = b \/ act' = MeReplaced(b, TRUE)
      BY <2>1
    <3> HIDE DEF b
    <3>3. b \in PageActs
      BY <3>1 DEF SameDeed
    <3>4. SameDeed(b, MeReplaced(b, TRUE)) /\ MeReplaced(b, TRUE).per = b.per
      BY <3>3 DEF SameDeed, MeReplaced, PageActs
    <3> QED BY <3>1, <3>2, <3>4 DEF SameDeed
  <2> QED BY <1>1, <1>3, <2>1, <2>3, <2>4, AskedAnew
<1>5. CASE Retry
  <2>1. /\ period = NoCall /\ UNCHANGED <<mine, free, live, cookie, page>> /\ me' = MeCall(cookie)
        /\ act' = MeReplaced(act, FALSE)
    BY <1>5 DEF Retry, serverVars
  <2>2. PICK d \in Week : period' = [PeriodCall(d, cookie, page.tag, TRUE) EXCEPT !.kind = "week"]
    BY <1>5 DEF Retry
  <2>3. /\ period' \in PeriodCalls /\ period'.status = "sent" /\ period'.cookie = cookie /\ period'.tag = page.tag
        /\ period'.kind = "week" /\ period'.date = d
    <3> DEFINE call == PeriodCall(d, cookie, page.tag, TRUE)
    <3>1. PICK settles \in BOOLEAN : call = PeriodCall(d, cookie, page.tag, settles)
      BY Zenon
    <3>2. call \in PeriodCalls /\ call.status = "sent" /\ call.cookie = cookie /\ call.tag = page.tag /\ call.date = d
      <4> HIDE DEF call
      <4> QED BY <1>1, <3>1, PeriodCallIs
    <3>3. period' = [call EXCEPT !.kind = "week"]
      BY <2>2
    <3> HIDE DEF call
    <3> QED BY <3>2, <3>3 DEF PeriodCalls
  <2>4. SameDeed(act, act') /\ act'.per = act.per /\ act'.pc = act.pc
    BY <1>1, <2>1 DEF SameDeed, MeReplaced, PageActs
  <2>5. act.per # "wait"
    BY <1>1, <2>1, NothingsOnPage DEF CallBelongs
  <2> QED BY <1>1, <1>2, <1>3, <2>1, <2>3, <2>4, <2>5, AskedAnew
<1>6. ASSUME NEW d \in Dates, SelectDate(d) PROVE PageInv' /\ act'.pc = act.pc /\ mine' = mine
  <2>1. page' = [page EXCEPT !.target = d] /\ UNCHANGED <<mine, free, live, cookie, me>>
    BY <1>6 DEF SelectDate, serverVars
  <2>2. page' \in Pages /\ page'.cache = page.cache /\ page'.tag = page.tag /\ ~(page'.fresh /\ page'.error)
    BY <1>1, <1>3, <2>1 DEF Pages
  <2>3. CASE UNCHANGED <<period, act>>
    <3>1. free' \subseteq Dates /\ live' \subseteq Users
      BY <1>1, <2>1 DEF PageShape
    <3> QED BY <1>1, <2>1, <2>2, <2>3, <3>1, ReplacedDeed, SessionLearnt
  <2>4. CASE period' = PeriodCall(d, cookie, NoTag, TRUE) /\ act' = PeriodReplaced(act)
    <3>1. PICK settles \in BOOLEAN : period' = PeriodCall(d, cookie, NoTag, settles)
      BY <2>4, Zenon
    <3>2. /\ period' \in PeriodCalls /\ period'.status = "sent" /\ period'.cookie = cookie /\ period'.tag = NoTag
          /\ period'.kind \in {"week", "date"} /\ (period'.kind = "week" <=> period'.date \in Week)
      BY <1>1, <3>1, PeriodCallIs, NothingsOnPage
    <3>3. SameDeed(act, act') /\ act'.per \in {act.per, "error"} /\ act'.per # "wait" /\ act'.pc = act.pc
      BY <1>1, <2>4, ReplacedDeed DEF SameDeed
    <3> QED BY <1>1, <2>1, <2>2, <3>2, <3>3, AskedAnew
  <2> QED BY <1>6, <2>3, <2>4 DEF SelectDate
<1> QED BY <1>4, <1>5, <1>6

(* The operation as it was asked for.                                       *)
SameParts(a, b) ==
    /\ b \in PageActs /\ b.kind = a.kind /\ b.date = a.date /\ b.post = a.post
    /\ b.who = a.who /\ b.owned = a.owned

(* The page is refreshed before and after an operation: whatever was under  *)
(* way is replaced.                                                         *)
LEMMA CoordinateKeeps ==
    ASSUME PageInv, NEW a \in PageActs, Coordinate(a), UNCHANGED <<mine, free, live, cookie>>,
           a.pc \in {"checking", "after"}, a.post \in Dates, a.kind \in {"reserve", "cancel"},
           a.kind = "cancel" => a.date = a.post, a.owned => a.who = cookie,
           a.pc = "checking" => a.kind = "reserve",
           a.pc = "after" /\ a.ok => a.who \in Users /\ (a.post \in mine[a.who] <=> a.kind = "reserve")
    PROVE  PageInv' /\ act'.pc = a.pc
<1>1. /\ PageShape /\ page \in Pages /\ PageBelongs /\ cookie \in PageUsers /\ page.tag \in [Week -> View]
  BY DEF PageInv, PageShape, Pages
<1>2. /\ page' = [page EXCEPT !.fresh = FALSE, !.error = FALSE] /\ me' = MeCall(cookie)
      /\ act' = [a EXCEPT !.latest = TRUE, !.per = "wait", !.me = "wait"]
  BY DEF Coordinate
<1>3. PICK settles \in BOOLEAN : period' = PeriodCall(a.post, cookie, page.tag, settles)
  <2>1. period' = PeriodCall(a.post, cookie, page.tag, FALSE)
    BY DEF Coordinate
  <2> QED BY <2>1, Zenon
<1>4. /\ period' \in PeriodCalls /\ period'.status = "sent" /\ period'.cookie = cookie /\ period'.tag = page.tag
      /\ period'.kind \in {"week", "date"} /\ (period'.kind = "week" <=> period'.date \in Week)
      /\ period'.date = a.post
  BY <1>1, <1>3, PeriodCallIs
<1>5. page' \in Pages /\ page'.cache = page.cache /\ page'.tag = page.tag /\ ~page'.fresh
  BY <1>1, <1>2 DEF Pages
<1>6. /\ act' \in PageActs /\ act'.per = "wait" /\ act'.pc = a.pc /\ act'.post = a.post /\ act'.kind = a.kind
      /\ act'.date = a.date /\ act'.who = a.who /\ act'.ok = a.ok /\ act'.owned = a.owned
  BY <1>2 DEF PageActs
<1>7. PageShape'
  BY <1>1, <1>2, <1>4, <1>5, <1>6 DEF PageShape, MeCall, MeCalls, PageUsers
<1>8. PageBelongs'
  BY <1>1, <1>5 DEF PageBelongs
<1>9. CallBelongs'
  BY <1>4, <1>5, <1>6 DEF CallBelongs
<1>10. ActIsOwn'
  BY <1>6 DEF ActIsOwn
<1>11. AfterIsTrue'
  BY <1>4, <1>6 DEF AfterIsTrue
<1> QED BY <1>6, <1>7, <1>8, <1>9, <1>10, <1>11 DEF PageInv

(* The student asks to reserve, or the page is refreshed after the act.     *)
LEMMA RefreshesKeep ==
    ASSUME PageInv, RequestReserve \/ RefreshAfter
    PROVE  PageInv' /\ act'.pc # "told" /\ mine' = mine
<1>1. /\ PageShape /\ act \in PageActs /\ cookie \in PageUsers /\ ActIsOwn /\ page \in Pages /\ page.target \in Dates
  BY DEF PageInv, PageShape, Pages
<1>2. CASE RequestReserve
  <2> DEFINE a == [Idle EXCEPT !.pc = "checking", !.kind = "reserve", !.date = page.target,
                             !.post = page.target, !.who = cookie, !.owned = TRUE]
  <2>1. Coordinate(a) /\ UNCHANGED <<mine, free, live, cookie>>
    BY <1>2 DEF RequestReserve, serverVars
  <2>2. /\ a \in PageActs /\ a.pc = "checking" /\ a.post \in Dates /\ a.kind = "reserve" /\ a.who = cookie
    BY <1>1, NothingsOnPage DEF PageActs, PageDates, Modal
  <2> HIDE DEF a
  <2> QED BY <2>1, <2>2, CoordinateKeeps
<1>3. CASE RefreshAfter
  <2> DEFINE a == [act EXCEPT !.pc = "after"]
  <2>1. Coordinate(a) /\ UNCHANGED <<mine, free, live, cookie>> /\ act.pc = "answered"
    BY <1>3 DEF RefreshAfter, serverVars
  <2>2. /\ a \in PageActs /\ a.pc = "after" /\ a.post = act.post /\ a.kind = act.kind /\ a.date = act.date
        /\ a.who = act.who /\ a.ok = act.ok /\ a.owned = act.owned
    BY <1>1 DEF PageActs, Modal
  <2> HIDE DEF a
  <2> QED BY <1>1, <2>1, <2>2, CoordinateKeeps DEF ActIsOwn
<1> QED BY <1>2, <1>3

(* The operation goes on while nothing else moves but what is fresh.        *)
LEMMA ActMoves ==
    ASSUME PageInv, UNCHANGED <<mine, free, live, cookie, me, period>>,
           page' \in Pages, page'.cache = page.cache, page'.tag = page.tag, ~(page'.fresh /\ page'.error),
           act' \in PageActs, ActIsOwn', act'.per # "wait", act'.pc # "after"
    PROVE  PageInv'
<1>1. PageShape /\ PageBelongs /\ CallBelongs
  BY DEF PageInv
<1>2. PageShape'
  BY <1>1 DEF PageShape
<1>3. PageBelongs'
  BY <1>1 DEF PageBelongs
<1>4. CallBelongs'
  BY <1>1 DEF CallBelongs
<1>5. AfterIsTrue'
  BY DEF AfterIsTrue
<1> QED BY <1>2, <1>3, <1>4, <1>5 DEF PageInv

(* What settles after a refresh.                                            *)
LEMMA SettlingIs ==
    ASSUME PageInv, Settling
    PROVE  page' \in Pages /\ page'.cache = page.cache /\ page'.tag = page.tag /\ ~(page'.fresh /\ page'.error)
<1>1. page \in Pages /\ ~(page.fresh /\ page.error)
  BY DEF PageInv, PageShape, PageBelongs
<1> DEFINE bad == act.per = "error"
<1>2. page' = IF act.latest THEN [page EXCEPT !.fresh = ~bad, !.error = bad] ELSE page
  BY DEF Settling
<1>3. bad \in BOOLEAN
  OBVIOUS
<1> HIDE DEF bad
<1> QED BY <1>1, <1>2, <1>3 DEF Pages

(* The dialog opens, closes or is confirmed, and the request is sent or not.*)
LEMMA DialogKeepsPage ==
    ASSUME PageInv, Checked \/ RequestCancel \/ CloseDialog \/ ConfirmPendingAction \/ Send \/ Read
    PROVE  PageInv' /\ act'.pc # "told" /\ mine' = mine
<1>1. /\ PageShape /\ act \in PageActs /\ cookie \in PageUsers /\ ActIsOwn /\ page \in Pages /\ page.target \in Dates
      /\ ~(page.fresh /\ page.error) /\ CallBelongs
  BY DEF PageInv, PageShape, Pages, PageBelongs
<1>2. /\ Idle \in PageActs /\ Idle.pc = "idle" /\ ~Idle.owned /\ Idle.per = "done"
  BY NothingsOnPage
<1>3. CASE act' = Idle /\ (Checked \/ CloseDialog \/ Read)
  <2>1. ActIsOwn'
    BY <1>2, <1>3 DEF ActIsOwn
  <2>2. page' \in Pages /\ page'.cache = page.cache /\ page'.tag = page.tag /\ ~(page'.fresh /\ page'.error)
    BY <1>1, <1>3, SettlingIs DEF Checked, CloseDialog, Read
  <2>3. UNCHANGED <<mine, free, live, cookie, me, period>>
    BY <1>3 DEF Checked, CloseDialog, Read, serverVars
  <2> QED BY <1>2, <1>3, <2>1, <2>2, <2>3, ActMoves
<1>4. CASE Checked /\ act' # Idle
  <2>1. /\ act' = [act EXCEPT !.pc = "dialog", !.post = page.target] /\ act.pc = "checking" /\ act.per # "wait"
        /\ Settling /\ UNCHANGED <<mine, free, live, cookie, me, period>>
    BY <1>4 DEF Checked, Both, serverVars
  <2>2. page' \in Pages /\ page'.cache = page.cache /\ page'.tag = page.tag /\ ~(page'.fresh /\ page'.error)
    BY <2>1, SettlingIs
  <2>3. /\ act' \in PageActs /\ act'.pc = "dialog" /\ act'.post = page.target /\ act'.kind = act.kind
        /\ act'.who = act.who /\ act'.owned = act.owned /\ act'.per = act.per /\ act'.date = act.date
    BY <1>1, <2>1 DEF PageActs, Modal, PageDates
  <2>4. act.kind = "reserve"
    BY <1>1, <2>1 DEF ActIsOwn
  <2>5. ActIsOwn'
    BY <1>1, <2>1, <2>3, <2>4 DEF ActIsOwn
  <2> QED BY <2>1, <2>2, <2>3, <2>5, ActMoves
<1>5. CASE RequestCancel
  <2>1. /\ act' = [Idle EXCEPT !.pc = "dialog", !.kind = "cancel", !.date = page.target,
                               !.post = page.target, !.who = cookie, !.owned = TRUE]
        /\ UNCHANGED <<mine, free, live, cookie, page, me, period>>
    BY <1>5 DEF RequestCancel, serverVars
  <2>2. /\ act' \in PageActs /\ act'.pc = "dialog" /\ act'.post = page.target /\ act'.date = page.target
        /\ act'.kind = "cancel" /\ act'.who = cookie /\ act'.per = "done"
    BY <1>1, <1>2, <2>1 DEF PageActs, Modal, PageDates
  <2>3. ActIsOwn'
    BY <1>1, <2>1, <2>2 DEF ActIsOwn
  <2> QED BY <1>1, <2>1, <2>2, <2>3, ActMoves
<1>6. CASE ConfirmPendingAction
  <2>1. /\ act.pc = "dialog" /\ act' = [act EXCEPT !.pc = "token"]
        /\ UNCHANGED <<mine, free, live, cookie, page, me, period>>
    BY <1>6 DEF ConfirmPendingAction, serverVars
  <2>2. SameParts(act, act') /\ act'.pc = "token" /\ act'.per = act.per
    BY <1>1, <2>1 DEF SameParts, PageActs, Modal
  <2>3. ActIsOwn' /\ act'.per # "wait"
    BY <1>1, <2>1, <2>2 DEF ActIsOwn, SameParts
  <2> QED BY <1>1, <2>1, <2>2, <2>3, ActMoves DEF SameParts
<1>7. CASE Send
  <2> DEFINE pc == IF MaySend THEN "sent" ELSE "answered"
  <2>1. /\ act.pc = "token" /\ act' = [act EXCEPT !.pc = pc, !.ok = FALSE, !.session = cookie]
        /\ UNCHANGED <<mine, free, live, cookie, page, me, period>>
    BY <1>7 DEF Send, serverVars
  <2>2. pc \in {"sent", "answered"} /\ (pc = "sent" => act.owned)
    BY DEF MaySend, Authorized
  <2> HIDE DEF pc
  <2>3. SameParts(act, act') /\ act'.pc = pc /\ act'.session = cookie /\ ~act'.ok /\ act'.per = act.per
    BY <1>1, <2>1, <2>2 DEF SameParts, PageActs, Modal
  <2>4. ActIsOwn' /\ act'.per # "wait"
    BY <1>1, <2>1, <2>2, <2>3 DEF ActIsOwn, SameParts
  <2> QED BY <1>1, <2>1, <2>2, <2>3, <2>4, ActMoves DEF SameParts
<1>8. CloseDialog \/ Read => act' = Idle
  BY DEF CloseDialog, Read
<1> QED BY <1>3, <1>4, <1>5, <1>6, <1>7, <1>8

(* The server performs the operation in the session it was sent in, which   *)
(* is the one it was confirmed in; an answer may be lost.                   *)
LEMMA ServeActKeeps ==
    ASSUME PageInv, ServeAct
    PROVE  /\ PageInv' /\ act'.pc # "told"
           /\ \A u \in Users : mine'[u] # mine[u] => act.who = u
<1>1. /\ PageShape /\ act \in PageActs /\ ActIsOwn /\ page \in Pages /\ PageBelongs /\ CallBelongs
      /\ mine \in [Users -> SUBSET Dates] /\ live \subseteq Users
  BY DEF PageInv, PageShape
<1>2. /\ Idle \in PageActs /\ Idle.pc = "idle" /\ ~Idle.owned /\ Idle.per = "done"
  BY NothingsOnPage
<1> DEFINE possible == /\ act.session \in live
                       /\ IF act.kind = "reserve" THEN act.post \in free /\ act.post \notin mine[act.session]
                          ELSE act.date \in mine[act.session]
<1>3. /\ act.pc = "sent" /\ UNCHANGED <<free, live, cookie, page, me, period>>
      /\ IF possible
         THEN mine' = [mine EXCEPT ![act.session] = IF act.kind = "reserve" THEN mine[act.session] \cup {act.post}
                                                    ELSE mine[act.session] \ {act.date}]
         ELSE mine' = mine
      /\ \/ act' = [act EXCEPT !.pc = "answered", !.ok = possible]
         \/ act' = IF act.owned THEN [act EXCEPT !.pc = "dialog"] ELSE Idle
  BY DEF ServeAct
<1>4. /\ possible \in BOOLEAN /\ (possible => act.session \in Users)
  BY <1>1
<1>5. /\ act.session = act.who /\ act.post \in Dates /\ act.kind \in {"reserve", "cancel"}
      /\ (act.kind = "cancel" => act.date = act.post) /\ act.per # "wait"
  BY <1>1, <1>3 DEF ActIsOwn
<1> HIDE DEF possible
<1>6. /\ mine' \in [Users -> SUBSET Dates]
      /\ \A u \in Users : mine'[u] # mine[u] => act.who = u
      /\ possible => act.who \in Users /\ (act.post \in mine'[act.who] <=> act.kind = "reserve")
  <2>1. CASE possible
    <3> DEFINE now == IF act.kind = "reserve" THEN mine[act.session] \cup {act.post}
                      ELSE mine[act.session] \ {act.date}
    <3>1. mine' = [mine EXCEPT ![act.session] = now]
      BY <1>3, <2>1
    <3>2. /\ now \in SUBSET Dates
          /\ act.post \in now <=> act.kind = "reserve"
      BY <1>1, <1>4, <1>5, <2>1
    <3> HIDE DEF now
    <3> QED BY <1>1, <1>4, <1>5, <2>1, <3>1, <3>2
  <2>2. CASE ~possible
    BY <1>1, <1>3, <2>2
  <2> QED BY <2>1, <2>2
<1>7. /\ act' \in PageActs /\ act'.per # "wait" /\ act'.pc \in {"answered", "dialog", "idle"} /\ ActIsOwn'
  <2>1. CASE act' = [act EXCEPT !.pc = "answered", !.ok = possible]
    <3>1. SameParts(act, act') /\ act'.pc = "answered" /\ act'.ok = possible /\ act'.per = act.per
      BY <1>1, <1>4, <2>1 DEF SameParts, PageActs, Modal
    <3>2. act'.ok => act'.who \in Users /\ (act'.post \in mine'[act'.who] <=> act'.kind = "reserve")
      BY <1>6, <3>1 DEF SameParts
    <3> QED BY <1>1, <1>3, <1>5, <3>1, <3>2 DEF ActIsOwn, SameParts
  <2>2. CASE act' = [act EXCEPT !.pc = "dialog"]
    <3>1. SameParts(act, act') /\ act'.pc = "dialog" /\ act'.per = act.per
      BY <1>1, <2>2 DEF SameParts, PageActs, Modal
    <3> QED BY <1>1, <1>3, <1>5, <3>1 DEF ActIsOwn, SameParts
  <2>3. CASE act' = Idle
    BY <1>2, <2>3 DEF ActIsOwn
  <2> QED BY <1>3, <2>1, <2>2, <2>3
<1>8. PageShape'
  BY <1>1, <1>3, <1>6, <1>7 DEF PageShape
<1>9. PageBelongs' /\ CallBelongs'
  BY <1>1, <1>3, <1>7 DEF PageBelongs, CallBelongs
<1>10. AfterIsTrue'
  BY <1>7 DEF AfterIsTrue
<1> QED BY <1>6, <1>7, <1>8, <1>9, <1>10 DEF PageInv

(* What was done is told when the refreshed page shows it.                  *)
LEMMA FinishKeeps ==
    ASSUME PageInv, Finish
    PROVE  /\ PageInv' /\ mine' = mine
           /\ act'.pc = "told" =>
                /\ act'.kind \in {"reserve", "cancel"}
                /\ act'.kind = "cancel" => act'.date = act'.post
                /\ page'.cache[act'.post].who = act'.who
                /\ page'.cache[act'.post].mine <=> act'.kind = "reserve"
<1>1. /\ PageShape /\ act \in PageActs /\ ActIsOwn /\ AfterIsTrue /\ page \in Pages
  BY DEF PageInv, PageShape
<1>2. /\ Idle \in PageActs /\ Idle.pc = "idle" /\ ~Idle.owned /\ Idle.per = "done"
  BY NothingsOnPage
<1>3. /\ act.pc = "after" /\ act.per # "wait" /\ Settling /\ UNCHANGED <<mine, free, live, cookie, me, period>>
      /\ act' = IF Tells THEN [Idle EXCEPT !.pc = "told", !.kind = act.kind, !.post = act.post,
                                           !.date = act.date, !.who = act.who]
                ELSE IF act.owned THEN [act EXCEPT !.pc = "dialog"] ELSE Idle
  BY DEF Finish, Both, serverVars
<1>4. page' \in Pages /\ page'.cache = page.cache /\ page'.tag = page.tag /\ ~(page'.fresh /\ page'.error)
  BY <1>3, SettlingIs
<1>5. /\ act.post \in Dates /\ act.kind \in {"reserve", "cancel"} /\ (act.kind = "cancel" => act.date = act.post)
      /\ act.per # "done"
  BY <1>1, <1>3 DEF ActIsOwn
<1>6. CASE Tells
  <2>1. act' = [Idle EXCEPT !.pc = "told", !.kind = act.kind, !.post = act.post,
                            !.date = act.date, !.who = act.who]
    BY <1>3, <1>6
  <2>2. /\ act' \in PageActs /\ act'.pc = "told" /\ act'.kind = act.kind /\ act'.post = act.post
        /\ act'.date = act.date /\ act'.who = act.who /\ ~act'.owned /\ act'.per = "done"
    <3>1. act.kind \in {"none", "reserve", "cancel"} /\ act.post \in PageDates /\ act.date \in PageDates /\ act.who \in PageUsers
      BY <1>1 DEF PageActs
    <3> QED BY <1>2, <2>1, <3>1 DEF PageActs
  <2>3. ActIsOwn'
    BY <2>2 DEF ActIsOwn
  <2>4. act.ok /\ act.owned /\ act.per # "error"
    BY <1>6 DEF Tells, Settled
  <2>5. act.per \in {"ok", "not_modified"}
    BY <1>1, <1>3, <1>5, <2>4 DEF PageActs, Answers
  <2>6. act.who = cookie /\ (act.post \in mine[act.who] <=> act.kind = "reserve")
    BY <1>1, <1>3, <2>4 DEF ActIsOwn
  <2>7. TellsNow(page.cache[act.post], act.post)
    BY <1>1, <1>3, <2>4, <2>5 DEF AfterIsTrue
  <2>8. /\ page'.cache[act'.post].who = act'.who
        /\ page'.cache[act'.post].mine <=> act'.kind = "reserve"
    BY <1>4, <2>2, <2>6, <2>7 DEF TellsNow
  <2> QED BY <1>3, <1>4, <1>5, <2>2, <2>3, <2>8, ActMoves
<1>7. CASE ~Tells /\ act.owned
  <2>1. act' = [act EXCEPT !.pc = "dialog"]
    BY <1>3, <1>7
  <2>2. SameParts(act, act') /\ act'.pc = "dialog" /\ act'.per = act.per
    BY <1>1, <2>1 DEF SameParts, PageActs, Modal
  <2>3. ActIsOwn'
    BY <1>1, <1>3, <1>5, <2>2 DEF ActIsOwn, SameParts
  <2> QED BY <1>3, <1>4, <2>2, <2>3, ActMoves DEF SameParts
<1>8. CASE ~Tells /\ ~act.owned
  <2>1. act' = Idle
    BY <1>3, <1>8
  <2>2. ActIsOwn'
    BY <1>2, <2>1 DEF ActIsOwn
  <2> QED BY <1>2, <1>3, <1>4, <2>1, <2>2, ActMoves
<1> QED BY <1>6, <1>7, <1>8

(* Every step of the page keeps what it rests on, acts as confirmed and     *)
(* tells what it shows.                                                     *)
PageActed == \A u \in Users : mine'[u] # mine[u] => act.who = u
PageTold ==
    act'.pc = "told" /\ act.pc # "told" =>
        LET d == IF act'.kind = "reserve" THEN act'.post ELSE act'.date IN
        /\ page'.cache[d].who = act'.who
        /\ page'.cache[d].mine <=> act'.kind = "reserve"

LEMMA PageKeeps ==
    ASSUME PageInv, [PageNext]_pageVars
    PROVE  PageInv' /\ PageActed /\ PageTold
<1>1. /\ PageShape /\ act \in PageActs
  BY DEF PageInv, PageShape
<1>2. ASSUME PageInv', mine' = mine, act'.pc # "told" \/ act'.pc = act.pc
      PROVE  PageInv' /\ PageActed /\ PageTold
  BY <1>2 DEF PageActed, PageTold
<1>3. CASE ServeMe \/ MeFails \/ Mount \/ SessionEnds \/ \E d \in Dates : OthersMove(d)
  BY <1>2, <1>3, SessionStepsKeep
<1>4. CASE Retry \/ (\E visible \in BOOLEAN : Poll(visible)) \/ (\E d \in Dates : SelectDate(d))
  BY <1>2, <1>4, AskingKeepsPage
<1>5. CASE RequestReserve \/ RefreshAfter
  BY <1>2, <1>5, RefreshesKeep
<1>6. CASE Checked \/ RequestCancel \/ CloseDialog \/ ConfirmPendingAction \/ Send \/ Read
  BY <1>2, <1>6, DialogKeepsPage
<1>7. CASE ServeAct
  BY <1>7, ServeActKeeps DEF PageActed, PageTold
<1>8. CASE Finish
  <2>1. PageTold
    BY <1>8, FinishKeeps DEF PageTold
  <2> QED BY <1>8, <2>1, FinishKeeps DEF PageActed
<1>9. CASE UNCHANGED pageVars
  <2>1. SameDeed(act, act)
    BY <1>1, ReplacedDeed
  <2>2. UNCHANGED <<mine, free, live, cookie, page, me, period, act>>
    BY <1>9 DEF pageVars
  <2>3. PageInv'
    BY <2>2 DEF PageInv, PageShape, PageBelongs, CallBelongs, ActIsOwn, AfterIsTrue, TellsNow
  <2> QED BY <1>2, <2>2, <2>3
<1>10. CASE MeArrives
  BY <1>2, <1>10, MeArrivesKeeps, NothingsOnPage
<1>11. CASE LogOut \/ \E u \in Users : Login(u)
  BY <1>2, <1>11, LoginsKeep, NothingsOnPage
<1>12. CASE ServePeriod
  BY <1>2, <1>12, ServePeriodKeeps
<1>13. CASE PeriodFails
  BY <1>2, <1>13, PeriodFailsKeeps
<1>14. CASE PeriodArrives
  BY <1>2, <1>14, PeriodArrivesKeeps
<1>15. PageNext \/ UNCHANGED pageVars
  OBVIOUS
<1> QED
  BY <1>3, <1>4, <1>5, <1>6, <1>7, <1>8, <1>9, <1>10, <1>11, <1>12, <1>13, <1>14, <1>15
  DEF PageNext, Answering, Working

(* What the invariant says of what is shown.                                *)
LEMMA PageIsOwn == PageInv => PageTypeOK /\ ShownBelongsToSession /\ TagDescribesShown
<1> SUFFICES ASSUME PageInv PROVE PageTypeOK /\ ShownBelongsToSession /\ TagDescribesShown
  OBVIOUS
<1>1. PageShape /\ PageBelongs
  BY DEF PageInv
<1>2. PageTypeOK
  BY <1>1 DEF PageShape, PageBelongs, PageTypeOK, Pages, MeCalls, PeriodCalls, PageActs, PageUsers
<1>3. ShownBelongsToSession /\ TagDescribesShown
  BY <1>1 DEF PageBelongs, ShownBelongsToSession, TagDescribesShown
<1> QED BY <1>2, <1>3

(* The page shows, does and tells what is of the student who is logged in,  *)
(* however late the answers come: every answer that still counts was asked  *)
(* for in the session the browser holds, and the refresh after an operation *)
(* began after the server had performed it.                                 *)
THEOREM PageSoundness == PageSpec => PageIsTrue
<1>1. PageInv /\ [PageNext]_pageVars => PageInv'
  BY PageKeeps
<1>2. PageInv /\ [PageNext]_pageVars => [PageActed]_pageVars /\ [PageTold]_pageVars
  BY PageKeeps
<1>3. PageSpec => []PageInv
  BY PageStarts, <1>1, PTL DEF PageSpec
<1>4. PageSpec => [](PageTypeOK /\ ShownBelongsToSession /\ TagDescribesShown)
  BY <1>3, PageIsOwn, PTL
<1>5. [PageActed]_pageVars =>
        [\A u \in Users : mine'[u] # mine[u] => act.who = u]_pageVars
  BY DEF PageActed
<1>6. [PageTold]_pageVars =>
        [act'.pc = "told" /\ act.pc # "told" =>
           LET d == IF act'.kind = "reserve" THEN act'.post ELSE act'.date IN
           /\ page'.cache[d].who = act'.who
           /\ page'.cache[d].mine <=> act'.kind = "reserve"]_pageVars
  BY DEF PageTold
<1>7. PageSpec => ActsAsConfirmed
  BY <1>2, <1>3, <1>5, PTL DEF PageSpec, ActsAsConfirmed
<1>8. PageSpec => ToldWasShown
  BY <1>2, <1>3, <1>6, PTL DEF PageSpec, ToldWasShown
<1> QED BY <1>4, <1>7, <1>8 DEF PageIsTrue

(***************************************************************************)
(* The administrators' client: the links of the console.                   *)
(***************************************************************************)

(* What the bar, the console and the dialog may hold.                       *)
SlipsOrNot == Slips \cup {Nowhere}
LinkBars == [section : {"none", "reservations", "students"},
             date : LinkDates \cup {Nowhere}, status : {"none", "CONFIRMED", "ALL"},
             reservation : SlipsOrNot, user : Pupils \cup {Nowhere}]
Consoles == [section : {"dashboard", "reservations", "students"}, date : LinkDates \cup {Nowhere},
             status : {"CONFIRMED", "ALL"}, focus : Slips \cup Pupils \cup {Nowhere},
             request : Nat, landed : Nat]
LinkWants == [slip : SlipsOrNot, date : LinkDates \cup {Nowhere}, opens : SlipsOrNot]
LinkDialogs == [slip : SlipsOrNot, typedFor : SlipsOrNot, pending : Nat]
LinkPosts == [slip : Slips, typedFor : SlipsOrNot, nth : Nat, state : {"sent", "done", "failed"}]
LinkCounts == [deeds : Nat, opened : Nat, offered : Nat, failed : BOOLEAN, chosen : BOOLEAN]

LinksShape ==
    /\ slips \in [Slips -> [date : LinkDates, confirmed : BOOLEAN]]
    /\ bar \in LinkBars /\ console \in Consoles /\ wanted \in LinkWants
    /\ lookups \subseteq [request : Nat, target : Targets]
    /\ dialog \in LinkDialogs
    /\ posts \subseteq LinkPosts /\ IsFiniteSet(posts)
    /\ count \in LinkCounts

(* The two codecs do not hold keys of each other at once.                   *)
BarIsWell(b) ==
    /\ b.reservation # Nowhere => b.section = "reservations" /\ b.user = Nowhere
    /\ b.section = "students" => b.user # Nowhere

(* The reads under way were asked for by this console, which has landed at  *)
(* none that is still to come.                                              *)
ReadsAreOurs ==
    /\ \A l \in lookups : l.request \in 1 .. console.request
    /\ console.landed <= console.request

(* The dialog stands in its section, with a reason for what it shows.       *)
DialogStands ==
    /\ dialog.slip # Nowhere => console.section = "reservations"
    /\ wanted.opens # Nowhere => console.section # "reservations"
    /\ dialog.typedFor \in {Nowhere, dialog.slip}

(* A record in the bar that no read of an operation link is about, and that *)
(* could be read, is that of the link of Discord, which is being read.      *)
LinkUnderWay == \E l \in lookups : l.request = console.request
BarIsSought ==
    \/ LinkUnderWay
    \/ count.failed
    \/ /\ bar.section # "students"
       /\ ~count.chosen /\ bar.reservation # Nowhere =>
            wanted.slip # Nowhere /\ ReservationLinkOf(bar) # {}

(* The link that is being read has not yet opened what it was followed for. *)
PromptsAreOwed ==
    ~count.chosen => count.opened + (IF wanted.slip # Nowhere THEN 1 ELSE 0) <= count.offered

(* What the links rest on.                                                  *)
LinksInv ==
    LinksShape /\ BarIsWell(bar) /\ ReadsAreOurs /\ DialogStands /\ BarIsSought /\ PromptsAreOwed

(* The keys that make a link of Discord, and how many links that are.       *)
LEMMA ReservationLinks ==
    ASSUME NEW b \in LinkBars
    PROVE  /\ ReservationLinkOf(b) # {} <=>
                b.section = "reservations" /\ b.date # Nowhere /\ b.status = "CONFIRMED" /\ b.reservation # Nowhere
           /\ ReservationLinkOf(b) = {} => Cardinality(ReservationLinkOf(b)) = 0
           /\ ReservationLinkOf(b) # {} => Cardinality(ReservationLinkOf(b)) = 1
           /\ \A l \in ReservationLinkOf(b) : l.slip = b.reservation /\ l.date = b.date
<1>1. ReservationLinkOf(b) = {} => Cardinality(ReservationLinkOf(b)) = 0
  BY FS_EmptySet
<1> DEFINE link == [slip |-> b.reservation, date |-> b.date]
<1>2. CASE b.section = "reservations" /\ b.date # Nowhere /\ b.status = "CONFIRMED" /\ b.reservation # Nowhere
  <2>1. ReservationLinkOf(b) = {link}
    BY <1>2 DEF ReservationLinkOf
  <2>2. link.slip = b.reservation /\ link.date = b.date
    OBVIOUS
  <2> HIDE DEF link
  <2>3. Cardinality({link}) = 1
    BY FS_Singleton
  <2> QED BY <1>1, <1>2, <2>1, <2>2, <2>3
<1>3. CASE ~(b.section = "reservations" /\ b.date # Nowhere /\ b.status = "CONFIRMED" /\ b.reservation # Nowhere)
  <2>1. ReservationLinkOf(b) = {}
    BY <1>3 DEF ReservationLinkOf
  <2> QED BY <1>1, <1>3, <2>1
<1> QED BY <1>2, <1>3

(* The keys that make a link of the panel of operations.                    *)
LEMMA ExactLinks ==
    ASSUME NEW b \in LinkBars, BarIsWell(b)
    PROVE  /\ ExactLinkOf(b) # {} <=> b.reservation # Nowhere \/ b.section = "students"
           /\ ExactLinkOf(b) \subseteq Targets
<1>1. CASE b.section = "reservations" /\ b.reservation # Nowhere /\ b.user = Nowhere
  <2>1. ExactLinkOf(b) = {[kind |-> "reservation", id |-> b.reservation]}
    BY <1>1 DEF ExactLinkOf
  <2>2. b.reservation \in Slips
    BY <1>1 DEF LinkBars, SlipsOrNot
  <2> QED BY <1>1, <2>1, <2>2 DEF Targets
<1>2. CASE b.section = "students" /\ b.user # Nowhere /\ b.reservation = Nowhere
  <2>1. ExactLinkOf(b) = {[kind |-> "user", id |-> b.user]}
    BY <1>2 DEF ExactLinkOf
  <2>2. b.user \in Pupils
    BY <1>2 DEF LinkBars
  <2> QED BY <1>2, <2>1, <2>2 DEF Targets
<1>3. CASE /\ ~(b.section = "reservations" /\ b.reservation # Nowhere /\ b.user = Nowhere)
           /\ ~(b.section = "students" /\ b.user # Nowhere /\ b.reservation = Nowhere)
  <2>1. ExactLinkOf(b) = {}
    BY <1>3 DEF ExactLinkOf
  <2> QED BY <1>3, <2>1 DEF BarIsWell
<1> QED BY <1>1, <1>2, <1>3

(* What the codecs write is well formed, and what they take out is gone.    *)
LEMMA CodecsWriteWell ==
    ASSUME NEW b \in LinkBars, BarIsWell(b)
    PROVE  /\ WithoutReservationLink(b) \in LinkBars /\ BarIsWell(WithoutReservationLink(b))
           /\ WithoutReservationLink(b).section = "none" /\ WithoutReservationLink(b).reservation = Nowhere
           /\ WithoutExactLink(b) \in LinkBars /\ BarIsWell(WithoutExactLink(b))
           /\ WithoutExactLink(b).section = "none" /\ WithoutExactLink(b).reservation = Nowhere
           /\ Cleaned(b) \in LinkBars /\ BarIsWell(Cleaned(b)) /\ Cleaned(b).section = b.section
           /\ Cleaned(b).reservation \in {Nowhere, b.reservation}
           /\ ReservationLinkOf(b) # {} => Cleaned(b).reservation = Nowhere
           /\ Finished(b) \in LinkBars /\ BarIsWell(Finished(b))
           /\ Finished(b).section # "students" /\ Finished(b).reservation = Nowhere
           /\ \A t \in Targets : WithExactLink(b, t) \in LinkBars /\ BarIsWell(WithExactLink(b, t))
<1>1. Bare \in LinkBars
  BY DEF Bare, LinkBars, SlipsOrNot
<1>2. /\ WithoutReservationLink(b) \in LinkBars /\ BarIsWell(WithoutReservationLink(b))
      /\ WithoutReservationLink(b).section = "none" /\ WithoutReservationLink(b).reservation = Nowhere
  BY DEF WithoutReservationLink, BarIsWell, Bare, LinkBars, SlipsOrNot
<1>3. /\ WithoutExactLink(b) \in LinkBars /\ BarIsWell(WithoutExactLink(b))
      /\ WithoutExactLink(b).section = "none" /\ WithoutExactLink(b).reservation = Nowhere
      /\ WithoutExactLink(b).user = Nowhere
  BY DEF WithoutExactLink, BarIsWell, LinkBars, SlipsOrNot
<1>4. /\ Cleaned(b) \in LinkBars /\ BarIsWell(Cleaned(b)) /\ Cleaned(b).section = b.section
      /\ Cleaned(b).reservation \in {Nowhere, b.reservation}
      /\ ReservationLinkOf(b) # {} => Cleaned(b).reservation = Nowhere
  <2>1. CASE ReservationLinkOf(b) # {}
    <3>1. Cleaned(b) = [b EXCEPT !.reservation = Nowhere]
      BY <2>1 DEF Cleaned
    <3> QED BY <3>1 DEF LinkBars, BarIsWell, SlipsOrNot
  <2>2. CASE ReservationLinkOf(b) = {}
    BY <2>2 DEF Cleaned
  <2> QED BY <2>1, <2>2
<1>5. /\ Finished(b) \in LinkBars /\ BarIsWell(Finished(b))
      /\ Finished(b).section # "students" /\ Finished(b).reservation = Nowhere
  BY <1>3, ExactLinks DEF Finished
<1>6. ASSUME NEW t \in Targets
      PROVE  WithExactLink(b, t) \in LinkBars /\ BarIsWell(WithExactLink(b, t))
  <2> DEFINE rest == WithoutExactLink(b)
  <2>1. WithExactLink(b, t) = IF t.kind = "reservation" THEN [rest EXCEPT !.section = "reservations", !.reservation = t.id]
                              ELSE [rest EXCEPT !.section = "students", !.user = t.id]
    BY DEF WithExactLink
  <2> HIDE DEF rest
  <2>2. rest \in LinkBars /\ rest.user = Nowhere /\ rest.reservation = Nowhere
    BY <1>3 DEF rest
  <2>3. CASE t.kind = "reservation"
    <3>1. t.id \in Slips
      BY <2>3 DEF Targets
    <3> QED BY <2>1, <2>2, <2>3, <3>1 DEF LinkBars, BarIsWell, SlipsOrNot
  <2>4. CASE t.kind # "reservation"
    <3>1. t.id \in Pupils /\ t.id # Nowhere
      BY <2>4, LinksAssumption DEF Targets, LinksAssumption
    <3> QED BY <2>1, <2>2, <2>4, <3>1 DEF LinkBars, BarIsWell
  <2> QED BY <2>3, <2>4
<1> QED BY <1>2, <1>3, <1>4, <1>5, <1>6

(* A link as the messages of Discord carry it, or cut short by hand.        *)
LEMMA DiscordLinks ==
    ASSUME NEW s \in Slips, NEW d \in LinkDates
    PROVE  /\ DiscordLink(s, d) \in LinkBars /\ BarIsWell(DiscordLink(s, d))
           /\ [DiscordLink(s, d) EXCEPT !.reservation = Nowhere] \in LinkBars
           /\ BarIsWell([DiscordLink(s, d) EXCEPT !.reservation = Nowhere])
BY DEF DiscordLink, LinkBars, BarIsWell, SlipsOrNot

(* The console as it mounts, and the dialog that is not there.              *)
LEMMA NothingLinked ==
    /\ NotWanted \in LinkWants /\ NotWanted.slip = Nowhere /\ NotWanted.opens = Nowhere
    /\ NoDialog \in LinkDialogs /\ NoDialog.slip = Nowhere /\ NoDialog.typedFor = Nowhere
    /\ Bare \in LinkBars /\ BarIsWell(Bare) /\ Bare.section = "none" /\ Bare.reservation = Nowhere
BY DEF NotWanted, NoDialog, Bare, LinkWants, LinkDialogs, LinkBars, SlipsOrNot, BarIsWell

(* Nothing is linked at first.                                              *)
LEMMA LinksStart == LinksInit => LinksInv
<1> SUFFICES ASSUME LinksInit PROVE LinksInv
  OBVIOUS
<1>1. /\ slips \in [Slips -> [date : LinkDates, confirmed : BOOLEAN]]
      /\ bar = Bare /\ wanted = NotWanted /\ lookups = {} /\ dialog = NoDialog /\ posts = {}
  <2>1. slips \in [Slips -> [date : LinkDates, confirmed : {TRUE}]]
    BY DEF LinksInit
  <2> QED BY <2>1 DEF LinksInit
<1>2. console \in Consoles /\ console.landed = 0 /\ console.request = 0
  BY DEF LinksInit, Consoles
<1>3. count \in LinkCounts /\ count.opened = 0 /\ count.offered = 0
  BY DEF LinksInit, LinkCounts
<1>4. LinksShape
  BY <1>1, <1>2, <1>3, NothingLinked, FS_EmptySet DEF LinksShape
<1>5. BarIsWell(bar) /\ ReadsAreOurs /\ DialogStands /\ BarIsSought /\ PromptsAreOwed
  BY <1>1, <1>2, <1>3, NothingLinked DEF ReadsAreOurs, DialogStands, BarIsSought, PromptsAreOwed
<1> QED BY <1>4, <1>5 DEF LinksInv

(* The panel takes over what a link opens, or leaves with its dialog.       *)
LEMMA ShowsIs ==
    ASSUME NEW s, NEW asking \in LinkWants, NEW d \in LinkDialogs, Shows(s, asking, d),
           d.typedFor \in {Nowhere, d.slip}
    PROVE  /\ dialog' \in LinkDialogs /\ dialog'.typedFor \in {Nowhere, dialog'.slip}
           /\ wanted' \in LinkWants /\ wanted'.slip = asking.slip
           /\ dialog'.slip # Nowhere => s = "reservations"
           /\ wanted'.opens # Nowhere => s # "reservations"
<1>1. CASE s # "reservations"
  BY <1>1, NothingLinked DEF Shows
<1>2. CASE s = "reservations" /\ asking.opens # Nowhere
  <2>1. dialog' = [d EXCEPT !.slip = asking.opens, !.typedFor = Nowhere] /\ wanted' = [asking EXCEPT !.opens = Nowhere]
    BY <1>2 DEF Shows, Opened
  <2> QED BY <1>2, <2>1 DEF LinkDialogs, LinkWants, SlipsOrNot
<1>3. CASE s = "reservations" /\ asking.opens = Nowhere
  BY <1>3 DEF Shows
<1> QED BY <1>1, <1>2, <1>3

(* The console mounts: a link of either kind is sought, and any other keys  *)
(* are taken out of the bar.                                                *)
LEMMA MountsIs ==
    ASSUME NEW b \in LinkBars, BarIsWell(b), Mounts(b)
    PROVE  /\ dialog' = NoDialog /\ bar' \in LinkBars /\ BarIsWell(bar')
           /\ console' \in Consoles /\ console'.landed = 0
           /\ wanted' \in LinkWants /\ wanted'.opens = Nowhere
           /\ lookups' \subseteq [request : Nat, target : Targets] /\ ReadsAreOurs'
           /\ \/ LinkUnderWay' /\ wanted'.slip = Nowhere
              \/ bar'.section # "students" /\ bar'.reservation = Nowhere /\ wanted'.slip = Nowhere
              \/ bar' = b /\ b.section # "students" /\ wanted'.slip # Nowhere /\ ReservationLinkOf(b) # {}
<1> DEFINE newly == [section |-> "dashboard", date |-> Nowhere, status |-> "CONFIRMED",
                     focus |-> Nowhere, request |-> 0, landed |-> 0]
<1>1. newly \in Consoles /\ newly.landed = 0 /\ newly.request = 0
  BY DEF Consoles
<1>2. /\ dialog' = NoDialog
      /\ \/ /\ bar' = WithoutReservationLink(b) /\ console' = newly /\ wanted' = NotWanted /\ lookups' = {}
         \/ \E l \in ReservationLinkOf(b) :
              /\ bar' = b /\ console' = [newly EXCEPT !.section = "reservations", !.date = l.date]
              /\ wanted' = [NotWanted EXCEPT !.slip = l.slip, !.date = l.date] /\ lookups' = {}
         \/ /\ ExactLinkOf(b) = {} /\ bar' = (IF HasExactKeys(b) THEN WithoutExactLink(b) ELSE b)
            /\ console' = newly /\ wanted' = NotWanted /\ lookups' = {}
         \/ /\ \E t \in ExactLinkOf(b) : lookups' = {[request |-> 1, target |-> t]}
            /\ bar' = b /\ console' = [newly EXCEPT !.request = 1] /\ wanted' = NotWanted
  BY DEF Mounts
<1> HIDE DEF newly
<1>3. CASE bar' = WithoutReservationLink(b) /\ console' = newly /\ wanted' = NotWanted /\ lookups' = {}
  BY <1>1, <1>2, <1>3, NothingLinked, CodecsWriteWell DEF ReadsAreOurs
<1>4. ASSUME NEW l \in ReservationLinkOf(b),
             bar' = b, console' = [newly EXCEPT !.section = "reservations", !.date = l.date],
             wanted' = [NotWanted EXCEPT !.slip = l.slip, !.date = l.date], lookups' = {}
      PROVE  /\ bar' = b /\ console' \in Consoles /\ console'.landed = 0
             /\ wanted' \in LinkWants /\ wanted'.opens = Nowhere /\ ReadsAreOurs'
             /\ b.section # "students" /\ wanted'.slip # Nowhere /\ ReservationLinkOf(b) # {}
  <2>1. /\ b.section = "reservations" /\ b.date # Nowhere /\ b.reservation # Nowhere
        /\ l.slip = b.reservation /\ l.date = b.date
    BY ReservationLinks
  <2>2. b.date \in LinkDates /\ b.reservation \in Slips
    BY <2>1 DEF LinkBars, SlipsOrNot
  <2>3. console' \in Consoles /\ console'.landed = 0 /\ console'.request = 0
    BY <1>1, <1>4, <2>1, <2>2 DEF Consoles
  <2>4. wanted' \in LinkWants /\ wanted'.opens = Nowhere /\ wanted'.slip = b.reservation
    BY <1>4, <2>1, <2>2, NothingLinked DEF LinkWants, SlipsOrNot
  <2>5. ReadsAreOurs'
    BY <1>4, <2>3 DEF ReadsAreOurs
  <2> QED BY <1>4, <2>1, <2>3, <2>4, <2>5
<1>5. CASE /\ ExactLinkOf(b) = {} /\ bar' = (IF HasExactKeys(b) THEN WithoutExactLink(b) ELSE b)
           /\ console' = newly /\ wanted' = NotWanted /\ lookups' = {}
  <2>1. b.section # "students" /\ b.reservation = Nowhere
    BY <1>5, ExactLinks
  <2> QED BY <1>1, <1>2, <1>5, <2>1, NothingLinked, CodecsWriteWell DEF ReadsAreOurs
<1>6. ASSUME NEW t \in ExactLinkOf(b), lookups' = {[request |-> 1, target |-> t]},
             bar' = b, console' = [newly EXCEPT !.request = 1], wanted' = NotWanted
      PROVE  /\ bar' = b /\ console' \in Consoles /\ console'.landed = 0
             /\ wanted' = NotWanted /\ LinkUnderWay'
             /\ lookups' \subseteq [request : Nat, target : Targets] /\ ReadsAreOurs'
  <2>1. t \in Targets
    BY ExactLinks
  <2>2. console' \in Consoles /\ console'.landed = 0 /\ console'.request = 1
    BY <1>1, <1>6 DEF Consoles
  <2> DEFINE read == [request |-> 1, target |-> t]
  <2>3. read \in [request : Nat, target : Targets] /\ read.request = 1
    BY <2>1
  <2>4. lookups' = {read}
    BY <1>6
  <2> HIDE DEF read
  <2>5. LinkUnderWay'
    BY <2>2, <2>3, <2>4 DEF LinkUnderWay
  <2>6. ReadsAreOurs'
    BY <2>2, <2>3, <2>4 DEF ReadsAreOurs
  <2> QED BY <1>6, <2>2, <2>3, <2>4, <2>5, <2>6
<1> QED BY <1>2, <1>3, <1>4, <1>5, <1>6, NothingLinked

(* A link is followed from outside, or the page is loaded again.            *)
LEMMA MountingKeepsLinks ==
    ASSUME LinksInv, Reload \/ \E b \in LinkBars : BarIsWell(b) /\ Visit(b)
    PROVE  LinksInv' /\ posts' = posts /\ console'.landed = 0
<1>1. PICK b \in LinkBars : BarIsWell(b) /\ Mounts(b) /\ UNCHANGED <<slips, posts>> /\ (Visit(b) \/ (Reload /\ b = bar))
  BY DEF LinksInv, LinksShape, Reload, Visit
<1>2. /\ dialog' = NoDialog /\ bar' \in LinkBars /\ BarIsWell(bar')
      /\ console' \in Consoles /\ console'.landed = 0
      /\ wanted' \in LinkWants /\ wanted'.opens = Nowhere
      /\ lookups' \subseteq [request : Nat, target : Targets] /\ ReadsAreOurs'
      /\ \/ LinkUnderWay' /\ wanted'.slip = Nowhere
         \/ bar'.section # "students" /\ bar'.reservation = Nowhere /\ wanted'.slip = Nowhere
         \/ bar' = b /\ b.section # "students" /\ wanted'.slip # Nowhere /\ ReservationLinkOf(b) # {}
  BY <1>1, MountsIs
<1> DEFINE links == Cardinality(ReservationLinkOf(b))
<1>3. /\ links \in {0, 1} /\ (ReservationLinkOf(b) # {} => links = 1)
  BY ReservationLinks
<1>4. /\ LinksShape /\ count \in LinkCounts /\ BarIsSought /\ PromptsAreOwed
      /\ count.opened \in Nat /\ count.offered \in Nat
  BY DEF LinksInv, LinksShape, LinkCounts
<1>5. count' \in LinkCounts /\ (~count'.chosen => count'.opened + (IF wanted'.slip # Nowhere THEN 1 ELSE 0) <= count'.offered)
  <2>1. CASE Visit(b)
    <3>1. count' = [deeds |-> count.deeds + 1, opened |-> 0, offered |-> links, failed |-> FALSE, chosen |-> FALSE]
      BY <2>1 DEF Visit
    <3> HIDE DEF links
    <3>2. count' \in LinkCounts /\ count'.opened = 0 /\ count'.offered = links
      BY <1>3, <1>4, <3>1 DEF LinkCounts
    <3> QED BY <1>2, <1>3, <3>2
  <2>2. CASE Reload /\ b = bar
    <3> DEFINE deeds == count.deeds + 1
    <3> DEFINE offers == IF Unsettled THEN count.offered + links ELSE count.offered
    <3>1. count' = [count EXCEPT !.deeds = deeds, !.offered = offers, !.failed = FALSE]
      BY <2>2 DEF Reload
    <3>2. /\ deeds \in Nat /\ offers \in Nat /\ offers >= count.offered
          /\ Unsettled /\ ReservationLinkOf(b) # {} => offers = count.offered + 1
      BY <1>3, <1>4 DEF LinkCounts
    <3> HIDE DEF offers, deeds
    <3>3. /\ count' \in LinkCounts /\ count'.opened = count.opened /\ count'.offered = offers
          /\ count'.chosen = count.chosen
      BY <1>4, <3>1, <3>2 DEF LinkCounts
    <3>4. ~count.chosen => count.opened <= count.offered
      BY <1>4 DEF PromptsAreOwed
    <3>5. ~count.chosen /\ wanted'.slip # Nowhere => Unsettled /\ ReservationLinkOf(b) # {}
      <4>1. ReservationLinkOf(b) # {} => b.reservation # Nowhere
        BY ReservationLinks
      <4> QED BY <1>2, <1>4, <2>2, <4>1 DEF BarIsSought, Unsettled, LinkUnderWay, IsLatest
    <3> QED BY <1>4, <3>2, <3>3, <3>4, <3>5
  <2> QED BY <1>1, <2>1, <2>2
<1>6. LinksShape'
  BY <1>1, <1>2, <1>4, <1>5, NothingLinked DEF LinksShape
<1>7. DialogStands'
  BY <1>2, NothingLinked DEF DialogStands
<1>8. BarIsSought'
  BY <1>2 DEF BarIsSought
<1>9. PromptsAreOwed'
  BY <1>5 DEF PromptsAreOwed
<1> QED BY <1>1, <1>2, <1>6, <1>7, <1>8, <1>9 DEF LinksInv

(* Steps that leave the bar and the reads alone: whatever may be said of    *)
(* them is as true as before.                                               *)
LEMMA BarStands ==
    ASSUME LinksInv, LinksShape', DialogStands', UNCHANGED <<bar, lookups>>,
           console'.request = console.request, console'.landed = console.landed,
           wanted'.slip = wanted.slip, count'.opened = count.opened, count'.offered = count.offered,
           count'.failed = count.failed, count'.chosen = count.chosen
    PROVE  LinksInv'
<1>1. BarIsWell(bar) /\ ReadsAreOurs /\ BarIsSought /\ PromptsAreOwed
  BY DEF LinksInv
<1>2. BarIsWell(bar)' /\ ReadsAreOurs'
  BY <1>1 DEF BarIsWell, ReadsAreOurs
<1>3. BarIsSought'
  BY <1>1 DEF BarIsSought, LinkUnderWay, ReservationLinkOf
<1>4. PromptsAreOwed'
  BY <1>1 DEF PromptsAreOwed
<1> QED BY <1>2, <1>3, <1>4 DEF LinksInv

(* The link of Discord is read: found, missing, or not to be read.          *)
LEMMA LinkAnswerKeeps ==
    ASSUME LinksInv, LinkAnswer
    PROVE  LinksInv' /\ posts' = posts /\ console' = console
<1>1. /\ LinksShape /\ bar \in LinkBars /\ BarIsWell(bar) /\ ReadsAreOurs /\ DialogStands /\ BarIsSought /\ PromptsAreOwed
      /\ wanted \in LinkWants /\ dialog \in LinkDialogs /\ console \in Consoles
      /\ count \in LinkCounts /\ count.opened \in Nat /\ count.offered \in Nat
  BY DEF LinksInv, LinksShape, LinkCounts
<1>2. UNCHANGED <<slips, console, lookups, posts>> /\ wanted.slip # Nowhere
  BY DEF LinkAnswer, LinkIsFound, LinkIsMissing, LinkReadFails
<1>3. /\ Cleaned(bar) \in LinkBars /\ BarIsWell(Cleaned(bar)) /\ Cleaned(bar).section = bar.section
      /\ Cleaned(bar).reservation \in {Nowhere, bar.reservation}
      /\ ReservationLinkOf(bar) # {} => Cleaned(bar).reservation = Nowhere
  BY <1>1, CodecsWriteWell
<1>4. ReadsAreOurs'
  BY <1>1, <1>2 DEF ReadsAreOurs
<1>5. ASSUME bar' = Cleaned(bar), count'.chosen = count.chosen, count'.failed = count.failed PROVE BarIsSought'
  BY <1>1, <1>2, <1>3, <1>5 DEF BarIsSought, LinkUnderWay
<1>6. CASE LinkIsFound
  <2> DEFINE asking == [NotWanted EXCEPT !.opens = wanted.slip]
  <2> DEFINE opened == count.opened + 1
  <2>1. bar' = Cleaned(bar) /\ Shows(console.section, asking, dialog) /\ count' = [count EXCEPT !.opened = opened]
    BY <1>6 DEF LinkIsFound
  <2>2. asking \in LinkWants /\ asking.slip = Nowhere
    BY <1>1, NothingLinked DEF LinkWants
  <2>3. opened \in Nat /\ opened = count.opened + 1
    BY <1>1
  <2> HIDE DEF asking, opened
  <2>4. /\ dialog' \in LinkDialogs /\ dialog'.typedFor \in {Nowhere, dialog'.slip}
        /\ wanted' \in LinkWants /\ wanted'.slip = Nowhere
        /\ dialog'.slip # Nowhere => console.section = "reservations"
        /\ wanted'.opens # Nowhere => console.section # "reservations"
    BY <1>1, <2>1, <2>2, ShowsIs DEF DialogStands
  <2>5. /\ count' \in LinkCounts /\ count'.opened = opened /\ count'.offered = count.offered
        /\ count'.chosen = count.chosen /\ count'.failed = count.failed
    BY <1>1, <2>1, <2>3 DEF LinkCounts
  <2>6. LinksShape' /\ DialogStands'
    BY <1>1, <1>2, <1>3, <2>1, <2>4, <2>5 DEF LinksShape, DialogStands
  <2>7. PromptsAreOwed'
    BY <1>1, <1>2, <2>3, <2>4, <2>5 DEF PromptsAreOwed
  <2> QED BY <1>2, <1>3, <1>4, <1>5, <2>1, <2>5, <2>6, <2>7 DEF LinksInv
<1>7. CASE LinkIsMissing
  <2>1. /\ bar' = Cleaned(bar) /\ wanted' = [wanted EXCEPT !.slip = Nowhere, !.date = Nowhere]
        /\ UNCHANGED <<dialog, count>>
    BY <1>7 DEF LinkIsMissing
  <2>2. wanted' \in LinkWants /\ wanted'.slip = Nowhere /\ wanted'.opens = wanted.opens
    BY <1>1, <2>1 DEF LinkWants, SlipsOrNot
  <2>3. LinksShape' /\ DialogStands'
    BY <1>1, <1>2, <1>3, <2>1, <2>2 DEF LinksShape, DialogStands
  <2>4. PromptsAreOwed'
    BY <1>1, <1>2, <2>1, <2>2 DEF PromptsAreOwed
  <2> QED BY <1>2, <1>3, <1>4, <1>5, <2>1, <2>3, <2>4 DEF LinksInv
<1>8. CASE LinkReadFails
  <2>1. /\ wanted' = [wanted EXCEPT !.slip = Nowhere, !.date = Nowhere] /\ count' = [count EXCEPT !.failed = TRUE]
        /\ UNCHANGED <<bar, dialog>>
    BY <1>8 DEF LinkReadFails
  <2>2. wanted' \in LinkWants /\ wanted'.slip = Nowhere /\ wanted'.opens = wanted.opens
    BY <1>1, <2>1 DEF LinkWants, SlipsOrNot
  <2>3. /\ count' \in LinkCounts /\ count'.failed /\ count'.opened = count.opened /\ count'.offered = count.offered
        /\ count'.chosen = count.chosen
    BY <1>1, <2>1 DEF LinkCounts
  <2>4. LinksShape' /\ DialogStands'
    BY <1>1, <1>2, <2>1, <2>2, <2>3 DEF LinksShape, DialogStands
  <2>5. PromptsAreOwed'
    BY <1>1, <1>2, <2>2, <2>3 DEF PromptsAreOwed
  <2>6. BarIsSought'
    BY <1>1, <1>2, <2>1, <2>3 DEF BarIsSought, LinkUnderWay, ReservationLinkOf
  <2> QED BY <1>1, <1>2, <1>4, <2>1, <2>4, <2>5, <2>6 DEF LinksInv
<1> QED BY <1>6, <1>7, <1>8 DEF LinkAnswer

(* A record of the panel of operations is asked for.                        *)
LEMMA NavigateKeeps ==
    ASSUME LinksInv, NEW t \in Targets, Navigate(t)
    PROVE  LinksInv' /\ posts' = posts /\ console'.landed = console.landed
<1>1. /\ LinksShape /\ bar \in LinkBars /\ BarIsWell(bar) /\ ReadsAreOurs /\ DialogStands /\ PromptsAreOwed
      /\ console \in Consoles /\ console.request \in Nat /\ console.landed \in Nat
      /\ count \in LinkCounts /\ count.deeds \in Nat
  BY DEF LinksInv, LinksShape, LinkCounts, Consoles
<1> DEFINE next == console.request + 1
<1> DEFINE deeds == count.deeds + 1
<1> DEFINE read == [request |-> next, target |-> t]
<1>2. /\ bar' = WithExactLink(bar, t) /\ console' = [console EXCEPT !.request = next]
      /\ lookups' = lookups \cup {read} /\ count' = [count EXCEPT !.deeds = deeds, !.failed = FALSE]
      /\ UNCHANGED <<slips, wanted, dialog, posts>>
  BY DEF Navigate
<1>3. next \in Nat /\ next = console.request + 1 /\ deeds \in Nat
  BY <1>1
<1>4. read \in [request : Nat, target : Targets] /\ read.request = next
  BY <1>3
<1> HIDE DEF next, deeds, read
<1>5. console' \in Consoles /\ console'.request = next /\ console'.landed = console.landed /\ console'.section = console.section
  BY <1>1, <1>2, <1>3 DEF Consoles
<1>6. /\ count' \in LinkCounts /\ count'.opened = count.opened /\ count'.offered = count.offered
      /\ count'.chosen = count.chosen
  BY <1>1, <1>2, <1>3 DEF LinkCounts
<1>7. bar' \in LinkBars /\ BarIsWell(bar')
  BY <1>1, <1>2, CodecsWriteWell
<1>8. LinksShape' /\ DialogStands'
  BY <1>1, <1>2, <1>4, <1>5, <1>6, <1>7 DEF LinksShape, DialogStands
<1>9. ReadsAreOurs'
  BY <1>1, <1>2, <1>3, <1>4, <1>5 DEF ReadsAreOurs
<1>10. BarIsSought'
  BY <1>2, <1>4, <1>5 DEF BarIsSought, LinkUnderWay
<1>11. PromptsAreOwed'
  BY <1>1, <1>2, <1>6 DEF PromptsAreOwed
<1> QED BY <1>2, <1>5, <1>7, <1>8, <1>9, <1>10, <1>11 DEF LinksInv

(* A record of the panel of operations is read: only the latest that was    *)
(* asked for moves the console, and only forward.                           *)
LEMMA LookupsKeep ==
    ASSUME LinksInv, NEW l \in lookups, NEW found \in BOOLEAN, LookupEnds(l, found)
    PROVE  LinksInv' /\ posts' = posts /\ console'.landed >= console.landed
<1>1. /\ LinksShape /\ bar \in LinkBars /\ BarIsWell(bar) /\ ReadsAreOurs /\ DialogStands /\ BarIsSought /\ PromptsAreOwed
      /\ console \in Consoles /\ console.request \in Nat /\ console.landed \in Nat
      /\ wanted \in LinkWants /\ dialog \in LinkDialogs /\ lookups \subseteq [request : Nat, target : Targets]
      /\ slips \in [Slips -> [date : LinkDates, confirmed : BOOLEAN]]
  BY DEF LinksInv, LinksShape, Consoles
<1>2. UNCHANGED <<slips, posts, count>> /\ lookups' = lookups \ {l}
  BY DEF LookupEnds
<1>3. CASE l.request # console.request
  <2>1. UNCHANGED <<bar, console, wanted, dialog>>
    BY <1>3 DEF LookupEnds, IsLatest
  <2>2. LinksShape' /\ DialogStands' /\ ReadsAreOurs'
    BY <1>1, <1>2, <2>1 DEF LinksShape, DialogStands, ReadsAreOurs
  <2>3. BarIsSought'
    BY <1>1, <1>2, <1>3, <2>1 DEF BarIsSought, LinkUnderWay, ReservationLinkOf
  <2>4. PromptsAreOwed'
    BY <1>1, <1>2, <2>1 DEF PromptsAreOwed
  <2> QED BY <1>1, <1>2, <2>1, <2>2, <2>3, <2>4 DEF LinksInv
<1>4. CASE l.request = console.request
  <2>1. bar' = Finished(bar)
    BY <1>4 DEF LookupEnds, IsLatest
  <2>2. bar' \in LinkBars /\ BarIsWell(bar') /\ bar'.section # "students" /\ bar'.reservation = Nowhere
    BY <1>1, <2>1, CodecsWriteWell
  <2>3. BarIsSought'
    BY <2>2 DEF BarIsSought
  <2>4. ASSUME console' \in Consoles, console'.request = console.request,
               console'.landed \in {console.landed, console.request},
               wanted' \in LinkWants, wanted'.slip = wanted.slip, dialog' \in LinkDialogs, DialogStands'
        PROVE  LinksInv' /\ posts' = posts /\ console'.landed >= console.landed
    <3>1. LinksShape'
      BY <1>1, <1>2, <2>2, <2>4 DEF LinksShape
    <3>2. ReadsAreOurs' /\ console'.landed >= console.landed
      BY <1>1, <1>2, <2>4 DEF ReadsAreOurs
    <3>3. PromptsAreOwed'
      BY <1>1, <1>2, <2>4 DEF PromptsAreOwed
    <3> QED BY <1>2, <2>2, <2>3, <2>4, <3>1, <3>2, <3>3 DEF LinksInv
  <2>5. CASE ~found
    <3>1. UNCHANGED <<console, wanted, dialog>>
      BY <1>4, <2>5 DEF LookupEnds, IsLatest
    <3>2. DialogStands'
      BY <1>1, <3>1 DEF DialogStands
    <3> QED BY <1>1, <2>4, <3>1, <3>2
  <2>6. CASE found
    <3> DEFINE s == IF l.target.kind = "user" THEN "students" ELSE "reservations"
    <3> DEFINE date == IF s = "students" THEN console.date ELSE slips[l.target.id].date
    <3> DEFINE status == IF s = "students" THEN console.status
                         ELSE IF slips[l.target.id].confirmed THEN "CONFIRMED" ELSE "ALL"
    <3>1. /\ console' = [console EXCEPT !.section = s, !.focus = l.target.id, !.landed = l.request,
                                        !.date = date, !.status = status]
          /\ Shows(s, wanted, dialog)
      BY <1>4, <2>6 DEF LookupEnds, IsLatest
    <3>2. l.target \in Targets
      BY <1>1
    <3>3. /\ s \in {"students", "reservations"} /\ date \in LinkDates \cup {Nowhere}
          /\ status \in {"CONFIRMED", "ALL"} /\ l.target.id \in Slips \cup Pupils
      BY <1>1, <3>2 DEF Consoles, Targets
    <3> HIDE DEF s, date, status
    <3>4. /\ console' \in Consoles /\ console'.request = console.request /\ console'.landed = console.request
          /\ console'.section = s
      BY <1>1, <1>4, <3>1, <3>3 DEF Consoles
    <3>5. /\ dialog' \in LinkDialogs /\ dialog'.typedFor \in {Nowhere, dialog'.slip}
          /\ wanted' \in LinkWants /\ wanted'.slip = wanted.slip
          /\ dialog'.slip # Nowhere => s = "reservations"
          /\ wanted'.opens # Nowhere => s # "reservations"
      BY <1>1, <3>1, ShowsIs DEF DialogStands
    <3>6. DialogStands'
      BY <3>4, <3>5 DEF DialogStands
    <3> QED BY <2>4, <3>4, <3>5, <3>6
  <2> QED BY <2>5, <2>6
<1> QED BY <1>3, <1>4

(* A read that fails leaves the bar as it is, with nobody who seeks it.      *)
LEMMA LookupFailureKeeps ==
    ASSUME LinksInv, NEW l \in lookups, LookupFails(l)
    PROVE  LinksInv' /\ posts' = posts /\ console' = console
<1>1. /\ LinksShape /\ BarIsWell(bar) /\ ReadsAreOurs /\ DialogStands /\ BarIsSought /\ PromptsAreOwed
      /\ count \in LinkCounts
  BY DEF LinksInv, LinksShape
<1> DEFINE failed == count.failed \/ IsLatest(l)
<1>2. /\ UNCHANGED <<slips, bar, console, wanted, dialog, posts>> /\ lookups' = lookups \ {l}
      /\ count' = [count EXCEPT !.failed = failed]
  BY DEF LookupFails
<1>3. count.failed \in BOOLEAN
  BY <1>1 DEF LinkCounts
<1>4. failed \in BOOLEAN /\ (failed <=> (count.failed \/ l.request = console.request))
  BY <1>3 DEF IsLatest
<1> HIDE DEF failed
<1>5. /\ count' \in LinkCounts /\ count'.failed = failed /\ count'.opened = count.opened
      /\ count'.offered = count.offered /\ count'.chosen = count.chosen
  BY <1>1, <1>2, <1>4 DEF LinkCounts
<1>6. LinksShape' /\ DialogStands' /\ ReadsAreOurs'
  BY <1>1, <1>2, <1>5 DEF LinksShape, DialogStands, ReadsAreOurs
<1>7. BarIsSought'
  BY <1>1, <1>2, <1>4, <1>5 DEF BarIsSought, LinkUnderWay, ReservationLinkOf
<1>8. PromptsAreOwed'
  BY <1>1, <1>2, <1>5 DEF PromptsAreOwed
<1> QED BY <1>1, <1>2, <1>6, <1>7, <1>8 DEF LinksInv

(* The administrator chooses what the console shows.                        *)
LEMMA ChoosingKeepsLinks ==
    ASSUME LinksInv,
           \/ \E s \in {"dashboard", "reservations", "students"} : ChooseSection(s)
           \/ \E s \in {"CONFIRMED", "ALL"} : ChooseStatus(s)
    PROVE  LinksInv' /\ posts' = posts /\ console'.landed = console.landed
<1>1. /\ LinksShape /\ bar \in LinkBars /\ BarIsWell(bar) /\ ReadsAreOurs /\ DialogStands /\ BarIsSought /\ PromptsAreOwed
      /\ console \in Consoles /\ wanted \in LinkWants /\ dialog \in LinkDialogs
      /\ count \in LinkCounts /\ count.deeds \in Nat
  BY DEF LinksInv, LinksShape, LinkCounts
<1>2. ASSUME NEW s \in {"dashboard", "reservations", "students"}, ChooseSection(s)
      PROVE  LinksInv' /\ posts' = posts /\ console'.landed = console.landed
  <2>1. /\ console' = [console EXCEPT !.section = s] /\ Shows(s, wanted, dialog)
        /\ UNCHANGED <<slips, bar, lookups, posts, count>>
    BY <1>2 DEF ChooseSection
  <2>2. /\ console' \in Consoles /\ console'.section = s /\ console'.request = console.request
        /\ console'.landed = console.landed
    BY <1>1, <2>1 DEF Consoles
  <2>3. /\ dialog' \in LinkDialogs /\ dialog'.typedFor \in {Nowhere, dialog'.slip}
        /\ wanted' \in LinkWants /\ wanted'.slip = wanted.slip
        /\ dialog'.slip # Nowhere => s = "reservations"
        /\ wanted'.opens # Nowhere => s # "reservations"
    BY <1>1, <2>1, ShowsIs DEF DialogStands
  <2>4. LinksShape' /\ DialogStands'
    BY <1>1, <2>1, <2>2, <2>3 DEF LinksShape, DialogStands
  <2> QED BY <2>1, <2>2, <2>3, <2>4, BarStands
<1>3. ASSUME NEW s \in {"CONFIRMED", "ALL"}, ChooseStatus(s)
      PROVE  LinksInv' /\ posts' = posts /\ console'.landed = console.landed
  <2> DEFINE deeds == count.deeds + 1
  <2> DEFINE chosen == count.chosen \/ ReservationLinkOf(bar) # {}
  <2>1. /\ console' = [console EXCEPT !.status = s] /\ bar' = [bar EXCEPT !.status = s]
        /\ count' = [count EXCEPT !.deeds = deeds, !.chosen = chosen]
        /\ UNCHANGED <<slips, wanted, lookups, dialog, posts>>
    BY <1>3 DEF ChooseStatus
  <2>2. /\ deeds \in Nat /\ chosen \in BOOLEAN
        /\ ~chosen => ~count.chosen /\ ReservationLinkOf(bar) = {}
    BY <1>1 DEF LinkCounts
  <2> HIDE DEF deeds, chosen
  <2>3. /\ console' \in Consoles /\ console'.section = console.section /\ console'.request = console.request
        /\ console'.landed = console.landed
    BY <1>1, <2>1 DEF Consoles
  <2>4. /\ bar' \in LinkBars /\ bar'.section = bar.section /\ bar'.reservation = bar.reservation /\ bar'.user = bar.user
    BY <1>1, <2>1 DEF LinkBars
  <2>5. /\ count' \in LinkCounts /\ count'.opened = count.opened /\ count'.offered = count.offered
        /\ count'.failed = count.failed /\ count'.chosen = chosen
    BY <1>1, <2>1, <2>2 DEF LinkCounts
  <2>6. LinksShape' /\ DialogStands' /\ ReadsAreOurs'
    BY <1>1, <2>1, <2>3, <2>4, <2>5 DEF LinksShape, DialogStands, ReadsAreOurs
  <2>7. BarIsWell(bar)'
    BY <1>1, <2>4 DEF BarIsWell
  <2>8. BarIsSought'
    BY <1>1, <2>1, <2>2, <2>3, <2>4, <2>5 DEF BarIsSought, LinkUnderWay
  <2>9. PromptsAreOwed'
    BY <1>1, <2>1, <2>2, <2>5 DEF PromptsAreOwed
  <2> QED BY <2>1, <2>3, <2>6, <2>7, <2>8, <2>9 DEF LinksInv
<1> QED BY <1>2, <1>3

(* What was sent at this step was typed for the reservation that is shown.  *)
SentWasTyped == \A p \in posts' \ posts : p.state = "sent" => p.slip = dialog.slip /\ p.typedFor = dialog.slip

(* The dialog of one cancellation.                                          *)
LEMMA DialogKeepsLinks ==
    ASSUME LinksInv,
           TypeReason \/ ConfirmCancel \/ DismissDialog \/ (\E s \in Slips : OpenDialog(s))
    PROVE  LinksInv' /\ SentWasTyped /\ console' = console
<1>1. /\ LinksShape /\ DialogStands /\ dialog \in LinkDialogs /\ dialog.slip \in SlipsOrNot
      /\ count \in LinkCounts /\ posts \subseteq LinkPosts /\ IsFiniteSet(posts)
  BY DEF LinksInv, LinksShape, LinkDialogs
<1>2. count.deeds + 1 \in Nat
  BY <1>1 DEF LinkCounts
<1> DEFINE deeds == count.deeds + 1
<1> HIDE DEF deeds
<1>3. [count EXCEPT !.deeds = deeds] \in LinkCounts
  BY <1>1, <1>2 DEF LinkCounts, deeds
<1>4. ASSUME dialog' \in LinkDialogs, dialog'.typedFor \in {Nowhere, dialog'.slip},
             dialog'.slip # Nowhere => console.section = "reservations",
             UNCHANGED <<slips, bar, console, wanted, lookups>>,
             count' = count \/ count' = [count EXCEPT !.deeds = deeds],
             posts' \subseteq LinkPosts, IsFiniteSet(posts')
      PROVE  LinksInv' /\ console' = console
  <2>1. /\ count' \in LinkCounts /\ count'.opened = count.opened /\ count'.offered = count.offered
        /\ count'.failed = count.failed /\ count'.chosen = count.chosen
    BY <1>1, <1>3, <1>4 DEF LinkCounts
  <2>2. LinksShape' /\ DialogStands'
    BY <1>1, <1>4, <2>1 DEF LinksShape, DialogStands
  <2> QED BY <1>4, <2>1, <2>2, BarStands
<1>5. CASE TypeReason
  <2>1. /\ dialog' = [dialog EXCEPT !.typedFor = dialog.slip]
        /\ UNCHANGED <<slips, bar, console, wanted, lookups, posts, count>>
    BY <1>5 DEF TypeReason
  <2>2. dialog' \in LinkDialogs /\ dialog'.slip = dialog.slip /\ dialog'.typedFor = dialog.slip
    BY <1>1, <2>1 DEF LinkDialogs
  <2> QED BY <1>1, <1>4, <2>1, <2>2 DEF DialogStands, SentWasTyped
<1>6. CASE ConfirmCancel
  <2> DEFINE nth == Cardinality(posts) + 1
  <2> DEFINE p == [slip |-> dialog.slip, typedFor |-> dialog.typedFor, nth |-> nth, state |-> "sent"]
  <2>1. /\ dialog.slip # Nowhere /\ dialog.typedFor # Nowhere /\ dialog' = [dialog EXCEPT !.pending = nth]
        /\ posts' = posts \cup {p} /\ count' = [count EXCEPT !.deeds = deeds]
        /\ UNCHANGED <<slips, bar, console, wanted, lookups>>
    BY <1>6 DEF ConfirmCancel, MayConfirm, deeds
  <2>2. nth \in Nat
    BY <1>1, FS_CardinalityType
  <2>3. p \in LinkPosts /\ p.slip = dialog.slip /\ p.typedFor = dialog.typedFor
    BY <1>1, <2>1, <2>2 DEF LinkPosts, LinkDialogs, SlipsOrNot
  <2>4. IsFiniteSet(posts \cup {p})
    <3> HIDE DEF p
    <3> QED BY <1>1, FS_AddElement
  <2> HIDE DEF nth, p
  <2>5. dialog' \in LinkDialogs /\ dialog'.slip = dialog.slip /\ dialog'.typedFor = dialog.typedFor
    BY <1>1, <2>1, <2>2 DEF LinkDialogs
  <2>6. SentWasTyped
    BY <1>1, <2>1, <2>3 DEF SentWasTyped, DialogStands
  <2>7. posts' \subseteq LinkPosts /\ IsFiniteSet(posts')
    BY <1>1, <2>1, <2>3, <2>4
  <2> QED BY <1>1, <1>4, <2>1, <2>5, <2>6, <2>7 DEF DialogStands
<1>7. CASE DismissDialog
  BY <1>1, <1>4, <1>7, NothingLinked DEF DismissDialog, SentWasTyped
<1>8. ASSUME NEW s \in Slips, OpenDialog(s) PROVE LinksInv' /\ SentWasTyped /\ console' = console
  <2>1. /\ dialog' = [dialog EXCEPT !.slip = s, !.typedFor = Nowhere] /\ console.section = "reservations"
        /\ count' = [count EXCEPT !.deeds = deeds] /\ UNCHANGED <<slips, bar, console, wanted, lookups, posts>>
    BY <1>8 DEF OpenDialog, Opened, deeds
  <2>2. dialog' \in LinkDialogs /\ dialog'.typedFor = Nowhere
    BY <1>1, <2>1 DEF LinkDialogs, SlipsOrNot
  <2> QED BY <1>1, <1>4, <2>1, <2>2 DEF SentWasTyped
<1> QED BY <1>5, <1>6, <1>7, <1>8

(* Reservations end, here or elsewhere.                                     *)
LEMMA EndingKeepsLinks ==
    ASSUME LinksInv,
           (\E p \in posts, told \in BOOLEAN : CancelAnswered(p, told)) \/ \E s \in Slips : Elsewhere(s)
    PROVE  LinksInv' /\ SentWasTyped /\ console' = console
<1>1. /\ LinksShape /\ DialogStands /\ dialog \in LinkDialogs /\ posts \subseteq LinkPosts /\ IsFiniteSet(posts)
      /\ slips \in [Slips -> [date : LinkDates, confirmed : BOOLEAN]]
  BY DEF LinksInv, LinksShape
<1>2. ASSUME NEW s \in Slips PROVE [slips EXCEPT ![s].confirmed = FALSE] \in [Slips -> [date : LinkDates, confirmed : BOOLEAN]]
  BY <1>1
<1>3. ASSUME NEW p \in posts, NEW told \in BOOLEAN, CancelAnswered(p, told)
      PROVE  LinksInv' /\ SentWasTyped /\ console' = console
  <2> DEFINE state == IF told THEN "done" ELSE "failed"
  <2> DEFINE settled == [p EXCEPT !.state = state]
  <2>1. /\ slips' = [slips EXCEPT ![p.slip].confirmed = FALSE] \/ slips' = slips
        /\ posts' = (posts \ {p}) \cup {settled}
        /\ dialog' = dialog \/ dialog' = NoDialog \/ dialog' = [dialog EXCEPT !.pending = 0]
        /\ UNCHANGED <<bar, console, wanted, lookups, count>>
    BY <1>3 DEF CancelAnswered
  <2>2. p \in LinkPosts /\ p.slip \in Slips
    BY <1>1 DEF LinkPosts
  <2>3. state \in {"done", "failed"}
    OBVIOUS
  <2>4. settled \in LinkPosts /\ settled.state # "sent"
    <3> HIDE DEF state
    <3> QED BY <2>2, <2>3 DEF LinkPosts
  <2> HIDE DEF state, settled
  <2>5. IsFiniteSet((posts \ {p}) \cup {settled})
    BY <1>1, FS_RemoveElement, FS_AddElement
  <2>6. /\ dialog' \in LinkDialogs /\ dialog'.typedFor \in {Nowhere, dialog'.slip}
        /\ dialog'.slip \in {Nowhere, dialog.slip}
    BY <1>1, <2>1, NothingLinked DEF LinkDialogs, DialogStands
  <2>7. slips' \in [Slips -> [date : LinkDates, confirmed : BOOLEAN]]
    BY <1>1, <1>2, <2>1, <2>2
  <2>8. LinksShape' /\ DialogStands'
    BY <1>1, <2>1, <2>4, <2>5, <2>6, <2>7 DEF LinksShape, DialogStands
  <2>9. SentWasTyped
    BY <2>1, <2>4 DEF SentWasTyped
  <2> QED BY <2>1, <2>8, <2>9, BarStands
<1>4. ASSUME NEW s \in Slips, Elsewhere(s)
      PROVE  LinksInv' /\ SentWasTyped /\ console' = console
  <2>1. /\ slips' = [slips EXCEPT ![s].confirmed = FALSE]
        /\ UNCHANGED <<bar, console, wanted, lookups, dialog, posts, count>>
    BY <1>4 DEF Elsewhere
  <2>2. LinksShape' /\ DialogStands'
    BY <1>1, <1>2, <2>1 DEF LinksShape, DialogStands
  <2> QED BY <2>1, <2>2, BarStands DEF SentWasTyped
<1> QED BY <1>3, <1>4

(* Every step keeps what the links rest on.                                 *)
LandsForward == console'.landed < console.landed => console'.landed = 0

LEMMA LinksKeep ==
    ASSUME LinksInv, [LinksNext]_linkVars
    PROVE  LinksInv' /\ SentWasTyped /\ LandsForward
<1>1. console.landed \in Nat /\ LinksShape /\ DialogStands /\ Bare \in LinkBars /\ BarIsWell(Bare)
  BY NothingLinked DEF LinksInv, LinksShape, Consoles
<1>2. ASSUME LinksInv', posts' = posts PROVE SentWasTyped /\ console'.landed \in Nat
  BY <1>2 DEF SentWasTyped, LinksInv, LinksShape, Consoles
<1>3. ASSUME Reload \/ \E b \in LinkBars : BarIsWell(b) /\ Visit(b)
      PROVE  LinksInv' /\ SentWasTyped /\ LandsForward
  BY <1>2, <1>3, MountingKeepsLinks DEF LandsForward
<1>4. CASE \E s \in Slips, d \in LinkDates :
             Visit(DiscordLink(s, d)) \/ Visit([DiscordLink(s, d) EXCEPT !.reservation = Nowhere])
  BY <1>3, <1>4, DiscordLinks
<1>5. CASE \E t \in Targets : Visit(WithExactLink(Bare, t))
  BY <1>1, <1>3, <1>5, CodecsWriteWell
<1>6. CASE Reload
  BY <1>3, <1>6
<1>7. CASE LinkAnswer
  BY <1>2, <1>7, LinkAnswerKeeps DEF LandsForward
<1>8. CASE \E t \in Targets : Navigate(t)
  BY <1>1, <1>2, <1>8, NavigateKeeps DEF LandsForward
<1>9. CASE LookupAnswer
  BY <1>1, <1>2, <1>9, LookupsKeep, LookupFailureKeeps DEF LandsForward, LookupAnswer
<1>10. CASE \/ \E s \in {"dashboard", "reservations", "students"} : ChooseSection(s)
            \/ \E s \in {"CONFIRMED", "ALL"} : ChooseStatus(s)
  BY <1>1, <1>2, <1>10, ChoosingKeepsLinks DEF LandsForward
<1>11. CASE TypeReason \/ ConfirmCancel \/ DismissDialog \/ (\E s \in Slips : OpenDialog(s))
  BY <1>1, <1>11, DialogKeepsLinks DEF LandsForward
<1>12. CASE (\E p \in posts, told \in BOOLEAN : CancelAnswered(p, told)) \/ \E s \in Slips : Elsewhere(s)
  BY <1>1, <1>12, EndingKeepsLinks DEF LandsForward
<1>13. CASE UNCHANGED linkVars
  <2>1. UNCHANGED <<slips, bar, console, wanted, lookups, dialog, posts, count>>
    BY <1>13 DEF linkVars
  <2>2. LinksShape' /\ DialogStands'
    BY <1>1, <2>1 DEF LinksShape, DialogStands
  <2> QED BY <1>1, <1>2, <2>1, <2>2, BarStands DEF LandsForward
<1> QED
  BY <1>4, <1>5, <1>6, <1>7, <1>8, <1>9, <1>10, <1>11, <1>12, <1>13 DEF LinksNext

(* What the invariant says of the bar and of what is prompted.              *)
LEMMA LinksAreOwn == LinksInv => LinksTypeOK /\ PromptsWereLinked /\ NamedTargetsAreSought
<1> SUFFICES ASSUME LinksInv PROVE LinksTypeOK /\ PromptsWereLinked /\ NamedTargetsAreSought
  OBVIOUS
<1>1. /\ LinksShape /\ bar \in LinkBars /\ BarIsWell(bar) /\ ReadsAreOurs /\ DialogStands /\ BarIsSought /\ PromptsAreOwed
      /\ count.opened \in Nat /\ count.offered \in Nat /\ lookups \subseteq [request : Nat, target : Targets]
      /\ dialog \in LinkDialogs
  BY DEF LinksInv, LinksShape, LinkCounts
<1>2. LinksTypeOK
  BY <1>1 DEF LinksTypeOK, LinksShape, LinkBars, LinkDialogs, SlipsOrNot, ReadsAreOurs, DialogStands
<1>3. PromptsWereLinked
  BY <1>1 DEF PromptsWereLinked, RefreshCannotReopen, PromptsAreOwed
<1>4. NamedTargetsAreSought
  <2>1. CASE count.chosen \/ Unsettled
    BY <2>1 DEF NamedTargetsAreSought
  <2>2. CASE ~count.chosen /\ ~Unsettled
    <3>1. bar.section # "students" /\ bar.reservation = Nowhere
      BY <1>1, <2>2 DEF Unsettled, IsLatest, BarIsSought, LinkUnderWay
    <3> QED BY <1>1, <3>1, ReservationLinks, ExactLinks DEF NamedTargetsAreSought
  <2> QED BY <2>1, <2>2
<1> QED BY <1>2, <1>3, <1>4

(* However many links are followed on top of each other, reloaded, answered *)
(* late or not at all: a settled link is not followed again, none leads     *)
(* back, and a cancellation is sent for the reservation that is shown, with *)
(* a reason that was typed for it.                                          *)
THEOREM LinksSoundness == LinksSpec => LinksAreFollowed
<1>1. LinksInv /\ [LinksNext]_linkVars => LinksInv'
  BY LinksKeep
<1>2. LinksInv /\ [LinksNext]_linkVars => [SentWasTyped]_linkVars /\ [LandsForward]_linkVars
  BY LinksKeep
<1>3. LinksSpec => []LinksInv
  BY LinksStart, <1>1, PTL DEF LinksSpec
<1>4. LinksSpec => [](LinksTypeOK /\ PromptsWereLinked /\ NamedTargetsAreSought)
  BY <1>3, LinksAreOwn, PTL
<1>5. [SentWasTyped]_linkVars =>
        [\A p \in posts' \ posts :
           p.state = "sent" => p.slip = dialog.slip /\ p.typedFor = dialog.slip]_linkVars
  BY DEF SentWasTyped
<1>6. [LandsForward]_linkVars =>
        [console'.landed < console.landed => console'.landed = 0]_linkVars
  BY DEF LandsForward
<1>7. LinksSpec => CancelsWhatIsShown
  BY <1>2, <1>3, <1>5, PTL DEF LinksSpec, CancelsWhatIsShown
<1>8. LinksSpec => NoWayBack
  BY <1>2, <1>3, <1>6, PTL DEF LinksSpec, NoWayBack
<1> QED BY <1>4, <1>7, <1>8 DEF LinksAreFollowed
=============================================================================
