----------------------------- MODULE RateLimits -----------------------------
(***************************************************************************)
(* A rate limit of the site.  Requests read the clock of their server,     *)
(* count themselves in a bucket that all servers share, and are let        *)
(* through while the count is within the limit; the maintenance job        *)
(* deletes buckets whose window is over.  A request may pass several       *)
(* rules: it is counted by each until one refuses it.                      *)
(***************************************************************************)
EXTENDS Integers, FiniteSets

CONSTANTS Clients,   \* requests under way at a time
          Rules,     \* the rules of a request, 1..n, in order
          Limit,     \* [Rules -> Nat]: the limit of each
          Window,    \* [Rules -> Nat]: its window, in ticks
          MaxLag,    \* ticks between a request's reading of the clock and its last count
          MaxOver,   \* bound on the requests refused in one window
          MaxTick

ASSUME RatesAssumption ==
  /\ Rules \in {1..n : n \in {1, 2}}
  /\ Limit \in [Rules -> Nat \ {0}] /\ Window \in [Rules -> Nat \ {0}]
  /\ MaxLag \in Nat /\ MaxOver \in Nat /\ MaxTick \in Nat
  /\ \A r \in Rules : MaxLag < Window[r] /\ 4 * MaxLag < Window[r] + 2

VARIABLES bucket,   \* per rule, its row
          caller,   \* per request: when it read the clock, and the rule it is at
          allowed,  \* per rule: the requests within the limit, by when they read the
                    \* clock, the end of the window that counted them and their number in it
          time

rateVars == <<bucket, caller, allowed, time>>

NoBucket == [count |-> 0, expires |-> 0]
NoCaller == [at |-> -1, rule |-> 1]

RatesInit ==
  /\ bucket = [r \in Rules |-> NoBucket]
  /\ caller = [c \in Clients |-> NoCaller]
  /\ allowed = [r \in Rules |-> {}]
  /\ time = 0

ReadClock(c) ==
  /\ caller[c] = NoCaller
  /\ \A r \in Rules : bucket[r].count < Limit[r] + MaxOver
  /\ caller' = [caller EXCEPT ![c].at = time]
  /\ UNCHANGED <<bucket, allowed, time>>

Incremented(r, now) ==
  IF bucket[r].expires <= now THEN [count |-> 1, expires |-> now + Window[r]]
  ELSE [bucket[r] EXCEPT !.count = @ + 1]

\* One statement counts and returns the row; the next rule follows only if this
\* one lets the request through.
Count(c) ==
  LET r == caller[c].rule
      now == caller[c].at
      row == Incremented(r, now)
      passes == row.count <= Limit[r]
      counted == [at |-> now, ends |-> row.expires, nth |-> row.count] IN
  /\ now # -1
  /\ bucket' = [bucket EXCEPT ![r] = row]
  /\ allowed' = IF passes THEN [allowed EXCEPT ![r] = @ \cup {counted}] ELSE allowed
  /\ caller' = [caller EXCEPT ![c] = IF passes /\ r + 1 \in Rules THEN [@ EXCEPT !.rule = r + 1]
                                     ELSE NoCaller]
  /\ UNCHANGED time

DeleteExpiredBucket(r) ==
  /\ bucket[r] # NoBucket /\ bucket[r].expires <= time
  /\ bucket' = [bucket EXCEPT ![r] = NoBucket]
  /\ UNCHANGED <<caller, allowed, time>>

RateTick ==
  /\ time < MaxTick
  /\ \A c \in Clients : caller[c] # NoCaller => time < caller[c].at + MaxLag
  /\ time' = time + 1
  /\ UNCHANGED <<bucket, caller, allowed>>

RatesNext ==
  \/ \E c \in Clients : ReadClock(c) \/ Count(c)
  \/ \E r \in Rules : DeleteExpiredBucket(r)
  \/ RateTick

RatesSpec == RatesInit /\ [][RatesNext]_rateVars

-----------------------------------------------------------------------------
Within(r, from) == {x \in allowed[r] : x.at \in from..from + Window[r] - 1}

\* In any span as long as its window a rule lets through at most three times its
\* limit, whenever the bucket was reset or purged and however late, within the
\* lag, a request was counted (checkRateLimit over the shared bucket).  It is
\* enough to look at the spans that begin with a request.
AtMostThriceTheLimit ==
  \A r \in Rules : \A first \in allowed[r] : Cardinality(Within(r, first.at)) <= 3 * Limit[r]
=============================================================================
