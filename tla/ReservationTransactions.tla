----------------------- MODULE ReservationTransactions -----------------------
(***************************************************************************)
(* How the mutations of the reservation tables interleave.                 *)
(*                                                                         *)
(* withDatabaseMutation runs an operation in a Serializable transaction:   *)
(* its first statement takes the snapshot, then it waits for the advisory  *)
(* locks of its keys, in sorted order, then it reads the snapshot and      *)
(* writes.  The database refuses to commit it when the committed           *)
(* transactions would have no serial order; a refused attempt starts over, *)
(* at most MaxAttempts times.  ReservationLedger says what the operations  *)
(* decide about dates and windows; here there are two reservations for     *)
(* each student, one of today whose window has closed and one of tomorrow  *)
(* whose window is open, and one capacity, that of tomorrow.               *)
(*                                                                         *)
(* A definition Bug_... is the one after it with a plausible mistake: no   *)
(* specification uses it, the mutants of PROJECT.json put it in its place. *)
(***************************************************************************)
EXTENDS Naturals, Sequences, FiniteSets

SE == INSTANCE SequencesExt

CONSTANTS Students, Clients, \* a client sends one request, of the set Requests
          Requests,
          Capacities,        \* capacities an administrator may set
          InitialCapacity,
          MaxAttempts,       \* attempts of one mutation (3 in the code)
          HeldToday,         \* students who start with today's reservation
          LapsedStudents     \* students whose restriction has run out

Kinds == {"reserve", "cancel", "administratorCancel", "noShow", "ban", "restrict", "release"}
Days == {"today", "tomorrow"}
Slots == Students \X Days
AllRequests == [kind : Kinds, student : Students, day : Days]

ASSUME TransactionsAssumption ==
    /\ IsFiniteSet(Students) /\ IsFiniteSet(Clients)
    /\ Requests \subseteq AllRequests
    /\ Capacities \subseteq Nat /\ InitialCapacity \in Nat
    /\ MaxAttempts \in Nat \ {0}
    /\ HeldToday \subseteq Students /\ LapsedStudents \subseteq Students

NoSnapshot == [taken |-> FALSE]

VARIABLES db,        \* the committed tables
          highest,   \* history: the highest capacity there has been
          commits,   \* history: the number of mutations committed so far
          phase,     \* client -> where its request is
          request,   \* client -> its request
          selected,  \* client -> the students its transaction will be about
          attempt,   \* client -> the attempt it is at
          snapshot,  \* client -> the tables its transaction sees
          start,     \* client -> commits when the snapshot was taken
          lockedBy,  \* lock -> the clients holding it
          result,    \* client -> what its committed transaction read and wrote
          commitAt,  \* client -> its number in the order of commits
          preceding  \* client -> history: clients answered before it began

vars == <<db, highest, commits, phase, request, selected, attempt, snapshot, start, lockedBy,
          result, commitAt, preceding>>

Statuses == {"NONE", "CONFIRMED", "CANCELLED", "NO_SHOW"}
(* LAPSED stands for RESTRICTED with an end that has passed.               *)
BookingStatuses == {"ACTIVE", "LAPSED", "RESTRICTED", "BANNED"}
Databases == [reservation : [Slots -> Statuses], account : [Students -> BookingStatuses],
              capacity : Nat]
Phases == {"idle", "waiting", "locking", "committed", "answered"}
Answers == {"none", "confirmed", "restricted", "duplicate", "full", "ok", "unchanged",
            "invalid_status", "weaker_status", "exhausted", "timeout"}

Locks == {<<"period">>} \cup ({"user"} \X Students)

Reservation(s) == <<"reservation", s>>
Account(u) == <<"account", u>>
Capacity == <<"capacity">>
Items == {Reservation(s) : s \in Slots} \cup {Account(u) : u \in Students} \cup {Capacity}

(* The advisory locks of a mutation in the order they are taken, which is  *)
(* that of the keys: "period:..." before "user:...", students by their id. *)
KeyOrder == CHOOSE order \in [Students -> 1 .. Cardinality(Students)] : SE!IsInjective(order)

UserKeys(some) ==
    SE!SetToSortSeq({<<"user", u>> : u \in some}, LAMBDA j, k : KeyOrder[j[2]] < KeyOrder[k[2]])

LockKeys(r, some) ==
    IF r.kind = "reserve" THEN <<<<"period">>>> \o UserKeys(some) ELSE UserKeys(some)

-----------------------------------------------------------------------------
(* What an operation answers, reads and writes when it sees tables d.  The  *)
(* rows and accounts it writes are functions of those it changes.          *)
NoRows == [s \in {} |-> "NONE"]
Only(x, status) == [y \in {x} |-> status]
Updated(table, rows) == [x \in DOMAIN table |-> IF x \in DOMAIN rows THEN rows[x] ELSE table[x]]

Refused(answer, reads) ==
    [answer |-> answer, reads |-> reads, rows |-> NoRows, accounts |-> NoRows]

ConfirmedTomorrow(d) == {u \in Students : d.reservation[<<u, "tomorrow">>] = "CONFIRMED"}

MayBook(u, d) == d.account[u] \in {"ACTIVE", "LAPSED"}

(* reserveStudyPeriod of tomorrow's period, whose window is open.          *)
Reserve(u, d) ==
    LET row == <<u, "tomorrow">>
        identity == {Account(u), Capacity, Reservation(row)}
        counted == {Reservation(<<v, "tomorrow">>) : v \in Students}
    IN  CASE ~MayBook(u, d)                   -> Refused("restricted", {Account(u)})
          [] MayBook(u, d) /\ d.reservation[row] # "NONE"
                                              -> Refused("duplicate", identity)
          [] MayBook(u, d) /\ d.reservation[row] = "NONE"
               /\ Cardinality(ConfirmedTomorrow(d)) >= d.capacity
                                              -> Refused("full", identity \cup counted)
          [] OTHER -> [answer |-> "confirmed", reads |-> identity \cup counted,
                       rows |-> Only(row, "CONFIRMED"), accounts |-> NoRows]

(* A student cancels: a second cancellation is answered like the first.    *)
Cancel(s, d) ==
    CASE d.reservation[s] = "CANCELLED" -> Refused("unchanged", {Reservation(s)})
      [] d.reservation[s] = "CONFIRMED" ->
            [answer |-> "ok", reads |-> {Reservation(s), Account(s[1])},
             rows |-> Only(s, "CANCELLED"), accounts |-> Only(s[1], "RESTRICTED")]
      [] OTHER -> Refused("invalid_status", {Reservation(s)})

Bug_AdministratorCancel(s, d) ==   \* whatever the status
    [answer |-> "ok", reads |-> {Reservation(s)},
     rows |-> Only(s, "CANCELLED"), accounts |-> NoRows]

AdministratorCancel(s, d) ==
    IF d.reservation[s] = "CONFIRMED"
    THEN [answer |-> "ok", reads |-> {Reservation(s)},
          rows |-> Only(s, "CANCELLED"), accounts |-> NoRows]
    ELSE Refused("invalid_status", {Reservation(s)})

(* What a ban takes away: tomorrow's reservation, as today's has closed.   *)
FutureCancelled(u, d) ==
    IF d.reservation[<<u, "tomorrow">>] = "CONFIRMED"
    THEN Only(<<u, "tomorrow">>, "CANCELLED") ELSE NoRows

OwnRows(u) == {Reservation(<<u, day>>) : day \in Days}

(* A no-show of today's reservation.                                       *)
NoShow(u, d) ==
    LET row == <<u, "today">>
    IN  IF d.reservation[row] = "CONFIRMED"
        THEN [answer |-> "ok", reads |-> OwnRows(u) \cup {Account(u)},
              rows |-> [s \in {row} \cup DOMAIN FutureCancelled(u, d) |->
                            IF s = row THEN "NO_SHOW" ELSE "CANCELLED"],
              accounts |-> Only(u, "BANNED")]
        ELSE Refused("invalid_status", {Reservation(row)})

Ban(u, d) ==
    [answer |-> "ok", reads |-> OwnRows(u) \cup {Account(u)},
     rows |-> FutureCancelled(u, d), accounts |-> Only(u, "BANNED")]

ApplyRestriction(u, d) ==
    IF d.account[u] = "BANNED" THEN Refused("weaker_status", {Account(u)})
    ELSE [answer |-> "ok", reads |-> {Account(u)},
          rows |-> NoRows, accounts |-> Only(u, "RESTRICTED")]

StillLapsed(some, d) == {u \in some : d.account[u] = "LAPSED"}

(* releaseExpiredRestrictions: the update repeats the condition by which    *)
(* the students were selected, before the transaction began.               *)
Release(some, d) ==
    [answer |-> "ok", reads |-> {Account(u) : u \in some}, rows |-> NoRows,
     accounts |-> [u \in StillLapsed(some, d) |-> "ACTIVE"]]

Outcome(r, some, d) ==
    CASE r.kind = "reserve"             -> Reserve(r.student, d)
      [] r.kind = "cancel"              -> Cancel(<<r.student, r.day>>, d)
      [] r.kind = "administratorCancel" -> AdministratorCancel(<<r.student, r.day>>, d)
      [] r.kind = "noShow"              -> NoShow(r.student, d)
      [] r.kind = "ban"                 -> Ban(r.student, d)
      [] r.kind = "restrict"            -> ApplyRestriction(r.student, d)
      [] r.kind = "release"             -> Release(some, d)

Writes(outcome) ==
    {Reservation(s) : s \in DOMAIN outcome.rows} \cup {Account(u) : u \in DOMAIN outcome.accounts}

-----------------------------------------------------------------------------
(* The database (PostgreSQL, Serializable), seen from its clients.         *)
Committed == {c \in Clients : commitAt[c] > 0}
CommittedSince(c) == {o \in Committed : commitAt[o] > start[c]}

(* Nobody who committed after the snapshot wrote a row this one writes.    *)
FirstUpdaterWins(c, outcome) ==
    \A o \in CommittedSince(c) : Writes(result[o]) \cap Writes(outcome) = {}

(* t must come before o in any serial order: o saw a write of t, or t did  *)
(* not see a write of o to something it read.                              *)
Precedes(t, o, results, committed) ==
    \/ /\ committed[t] <= start[o]
       /\ Writes(results[t]) \cap (results[o].reads \cup Writes(results[o])) # {}
    \/ /\ committed[o] > start[t]
       /\ results[t].reads \cap Writes(results[o]) # {}

(* No cycle: every set of transactions has one that nothing precedes.      *)
Serializable(transactions, results, committed) ==
    \A some \in (SUBSET transactions) \ {{}} :
        \E o \in some : \A t \in some \ {o} : ~Precedes(t, o, results, committed)

Bug_MayCommit(c, outcome) == FirstUpdaterWins(c, outcome)   \* RepeatableRead

MayCommit(c, outcome) ==
    /\ FirstUpdaterWins(c, outcome)
    /\ Serializable(Committed \cup {c}, [result EXCEPT ![c] = outcome],
                    [commitAt EXCEPT ![c] = commits + 1])

-----------------------------------------------------------------------------
TypeOK ==
    /\ db \in Databases
    /\ highest \in Nat /\ commits \in Nat
    /\ phase \in [Clients -> Phases]
    /\ request \in [Clients -> Requests]
    /\ selected \in [Clients -> SUBSET Students]
    /\ attempt \in [Clients -> 0 .. MaxAttempts]
    /\ snapshot \in [Clients -> Databases \cup {NoSnapshot}]
    /\ start \in [Clients -> 0 .. commits]
    /\ lockedBy \in [Locks -> SUBSET Clients]
    /\ \A c \in Clients : result[c].answer \in Answers /\ result[c].reads \subseteq Items
    /\ commitAt \in [Clients -> 0 .. commits]
    /\ preceding \in [Clients -> SUBSET Clients]

Init ==
    /\ db = [reservation |-> [s \in Slots |-> IF s[2] = "today" /\ s[1] \in HeldToday
                                              THEN "CONFIRMED" ELSE "NONE"],
             account     |-> [u \in Students |-> IF u \in LapsedStudents THEN "LAPSED"
                                                 ELSE "ACTIVE"],
             capacity    |-> InitialCapacity]
    /\ highest = InitialCapacity
    /\ commits = 0
    /\ phase = [c \in Clients |-> "idle"]
    /\ request \in [Clients -> Requests]
    /\ selected = [c \in Clients |-> {}]
    /\ attempt = [c \in Clients |-> 0]
    /\ snapshot = [c \in Clients |-> NoSnapshot]
    /\ start = [c \in Clients |-> 0]
    /\ lockedBy = [k \in Locks |-> {}]
    /\ result = [c \in Clients |-> Refused("none", {})]
    /\ commitAt = [c \in Clients |-> 0]
    /\ preceding = [c \in Clients |-> {}]

(* A client sends its request.  In a transaction of its own that is over    *)
(* before the mutation begins the code looks up whom it is about: the owner *)
(* of a reservation, or for maintenance everybody whose restriction lapsed. *)
Submit(c) ==
    LET some == IF request[c].kind = "release" THEN StillLapsed(Students, db)
                ELSE {request[c].student}
    IN  /\ phase[c] = "idle"
        /\ phase' = [phase EXCEPT ![c] = IF some = {} THEN "answered" ELSE "waiting"]
        /\ selected' = [selected EXCEPT ![c] = some]
        /\ preceding' = [preceding EXCEPT ![c] = {o \in Clients : phase[o] = "answered"}]
        /\ UNCHANGED <<db, highest, commits, request, attempt, snapshot, start, lockedBy,
                       result, commitAt>>

(* An attempt begins: its first statement fixes what it will see.          *)
BeginAttempt(c) ==
    /\ phase[c] = "waiting"
    /\ phase' = [phase EXCEPT ![c] = "locking"]
    /\ attempt' = [attempt EXCEPT ![c] = @ + 1]
    /\ snapshot' = [snapshot EXCEPT ![c] = db]
    /\ start' = [start EXCEPT ![c] = commits]
    /\ UNCHANGED <<db, highest, commits, request, selected, lockedBy, result, commitAt, preceding>>

Holds(c) == {k \in Locks : c \in lockedBy[k]}

Bug_AcquireLock(c) ==   \* the keys are not sorted
    /\ phase[c] = "locking"
    /\ \E k \in SE!ToSet(LockKeys(request[c], selected[c])) :
           /\ lockedBy[k] = {}
           /\ lockedBy' = [lockedBy EXCEPT ![k] = {c}]
    /\ UNCHANGED <<db, highest, commits, phase, request, selected, attempt, snapshot, start,
                   result, commitAt, preceding>>

(* It takes the next of its locks, when that is free.                      *)
AcquireLock(c) ==
    LET keys == LockKeys(request[c], selected[c])
        next == Cardinality(Holds(c)) + 1
    IN  /\ phase[c] = "locking"
        /\ next <= Len(keys)
        /\ lockedBy[keys[next]] = {}
        /\ lockedBy' = [lockedBy EXCEPT ![keys[next]] = {c}]
        /\ UNCHANGED <<db, highest, commits, phase, request, selected, attempt, snapshot, start,
                       result, commitAt, preceding>>

HoldsAll(c) == phase[c] = "locking" /\ Cardinality(Holds(c)) = Len(LockKeys(request[c], selected[c]))

Released(c) == [k \in Locks |-> lockedBy[k] \ {c}]

(* It does its work and commits.                                           *)
Commit(c) ==
    LET outcome == Outcome(request[c], selected[c], snapshot[c])
    IN  /\ HoldsAll(c)
        /\ MayCommit(c, outcome)
        /\ db' = [db EXCEPT !.reservation = Updated(@, outcome.rows),
                            !.account = Updated(@, outcome.accounts)]
        /\ commits' = commits + 1
        /\ commitAt' = [commitAt EXCEPT ![c] = commits + 1]
        /\ result' = [result EXCEPT ![c] = outcome]
        /\ phase' = [phase EXCEPT ![c] = "committed"]
        /\ snapshot' = [snapshot EXCEPT ![c] = NoSnapshot]
        /\ lockedBy' = Released(c)
        /\ UNCHANGED <<highest, request, selected, attempt, start, preceding>>

Bug_AttemptsLeft(c) == attempt[c] + 1 < MaxAttempts
AttemptsLeft(c) == attempt[c] < MaxAttempts

(* The database refuses it, which it may do whenever another transaction   *)
(* committed since the snapshot; the request is tried again or given up.   *)
SerializationFailure(c) ==
    /\ HoldsAll(c)
    /\ CommittedSince(c) # {}
    /\ IF AttemptsLeft(c)
       THEN /\ phase' = [phase EXCEPT ![c] = "waiting"]
            /\ UNCHANGED result
       ELSE /\ phase' = [phase EXCEPT ![c] = "answered"]
            /\ result' = [result EXCEPT ![c] = Refused("exhausted", {})]
    /\ snapshot' = [snapshot EXCEPT ![c] = NoSnapshot]
    /\ lockedBy' = Released(c)
    /\ UNCHANGED <<db, highest, commits, request, selected, attempt, start, commitAt, preceding>>

(* A transaction that waits for a lock longer than its timeout is rolled   *)
(* back and not tried again.                                               *)
TimeOut(c) ==
    /\ phase[c] = "locking" /\ ~HoldsAll(c)
    /\ phase' = [phase EXCEPT ![c] = "answered"]
    /\ result' = [result EXCEPT ![c] = Refused("timeout", {})]
    /\ snapshot' = [snapshot EXCEPT ![c] = NoSnapshot]
    /\ lockedBy' = Released(c)
    /\ UNCHANGED <<db, highest, commits, request, selected, attempt, start, commitAt, preceding>>

(* The answer reaches the client.                                          *)
Answer(c) ==
    /\ phase[c] = "committed"
    /\ phase' = [phase EXCEPT ![c] = "answered"]
    /\ UNCHANGED <<db, highest, commits, request, selected, attempt, snapshot, start, lockedBy,
                   result, commitAt, preceding>>

(* The settings page sets the capacity in a plain transaction, which takes *)
(* no lock and is not part of the serial order.                            *)
SetCapacity(k) ==
    /\ db.capacity # k
    /\ db' = [db EXCEPT !.capacity = k]
    /\ highest' = IF k > highest THEN k ELSE highest
    /\ UNCHANGED <<commits, phase, request, selected, attempt, snapshot, start, lockedBy,
                   result, commitAt, preceding>>

Progress(c) ==
    Submit(c) \/ BeginAttempt(c) \/ AcquireLock(c) \/ Commit(c) \/ SerializationFailure(c)
      \/ Answer(c)

Next == (\E c \in Clients : Progress(c) \/ TimeOut(c)) \/ (\E k \in Capacities : SetCapacity(k))

Spec == Init /\ [][Next]_vars

(* A request that can go on does; nothing obliges a lock wait to time out, *)
(* an administrator to change a capacity.                                  *)
FairSpec == Spec /\ \A c \in Clients : WF_vars(Progress(c))

-----------------------------------------------------------------------------
(* The promises of the register hold of the tables, whatever is in flight. *)
Register == INSTANCE SeatRegister WITH reservation <- db.reservation, account <- db.account
ImplementsRegister == Register!Spec

(* One reservation is ended by one request: of a cancellation, a no-show   *)
(* and a ban that race for it, exactly one is told that it did it.         *)
EndedRows(c) == {s \in DOMAIN result[c].rows : result[c].rows[s] \in {"CANCELLED", "NO_SHOW"}}

EndedByOne ==
    \A c, o \in Committed : c # o => EndedRows(c) \cap EndedRows(o) = {}

(* Once a student, or an administrator, was told of a restriction, no      *)
(* request that the student sends afterwards is confirmed.                 *)
RestrictionsAreHeeded ==
    \A c \in Clients : \A o \in preceding[c] :
        /\ request[c].kind = "reserve"
        /\ request[o].kind # "release"
        /\ request[c].student \in DOMAIN result[o].accounts
        => result[c].answer # "confirmed"

(* A request is given up only when that many others got through while it   *)
(* was tried: the retries are not wasted.                                  *)
GivenUpOnlyUnderContention ==
    \A c \in Clients :
        result[c].answer = "exhausted" => Cardinality(Committed) >= MaxAttempts

(* Every request is answered: nothing waits for a lock for ever.           *)
EveryRequestIsAnswered == \A c \in Clients : <>(phase[c] = "answered")

(* The three together: what one operation decided holds for the others too. *)
OperationsHeedEachOther == TypeOK /\ EndedByOne /\ RestrictionsAreHeeded
=============================================================================
