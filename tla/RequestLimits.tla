--------------------------- MODULE RequestLimits ---------------------------
(***************************************************************************)
(* What the shared tables bound that a browser's requests pass on their    *)
(* way: the session's CSRF tokens and the buckets of the rate limits.      *)
(***************************************************************************)
EXTENDS CsrfTokens, RateLimits

\* A tab loses its token only to newer ones or to time, a session keeps only the
\* newest few, and a rule lets three times its limit through at most in any span
\* as long as its window (csrf.ts, prisma-csrf-store.ts, rate-limit.ts).
TokensAndRates == CsrfTypeOK /\ OnlyOvertakenTokensFail /\ AtMostThriceTheLimit
=============================================================================
