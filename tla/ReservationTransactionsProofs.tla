-------------------- MODULE ReservationTransactionsProofs --------------------
(***************************************************************************)
(* The transactions of the site are as good as atomic operations: proofs   *)
(* of the invariants of ReservationTransactions, for any number of         *)
(* students, clients and attempts, and that it implements SeatRegister.    *)
(*                                                                         *)
(* The argument is that of serializable snapshot isolation. An operation   *)
(* is sound on the snapshot it reads (OutcomeIsSound). Of two requests     *)
(* that overlap and that each read what the other writes, at most one      *)
(* commits (NoWriteSkew), and what a request writes is, when it commits,   *)
(* still as its snapshot had it (WritesAreCurrent). So what an operation   *)
(* found in its snapshot, and what matters to what it writes, holds of the *)
(* tables at the commit.                                                   *)
(***************************************************************************)
EXTENDS ReservationTransactions, FiniteSetTheorems, TLAPS

(* What a booking that goes through has read: the account, the capacity  *)
(* and every row of tomorrow.                                            *)
Everything(u) ==
    {Account(u), Capacity, Reservation(<<u, "tomorrow">>)} \cup {Reservation(<<v, "tomorrow">>) : v \in Students}

(* What an operation may answer, for tables d. *)
Sound(r, d, out) ==
    /\ out.answer \in Answers /\ out.reads \subseteq Items
    /\ DOMAIN out.rows \subseteq Slots /\ DOMAIN out.accounts \subseteq Students
    /\ \A s \in DOMAIN out.rows :
         \/ /\ out.rows[s] = "CONFIRMED" /\ s = <<r.student, "tomorrow">>
            /\ d.reservation[s] = "NONE" /\ out.reads = Everything(r.student)
            /\ ~(Cardinality(ConfirmedTomorrow(d)) >= d.capacity) /\ MayBook(r.student, d)
         \/ out.rows[s] \in {"CANCELLED", "NO_SHOW"} /\ d.reservation[s] = "CONFIRMED"
    /\ \A u \in DOMAIN out.accounts :
         \/ out.accounts[u] \in {"RESTRICTED", "BANNED"}
         \/ r.kind = "release" /\ out.accounts[u] = "ACTIVE" /\ d.account[u] = "LAPSED"
    /\ \A u \in DOMAIN out.accounts : out.accounts[u] = "BANNED" => OwnRows(u) \subseteq out.reads
    /\ out.answer = "confirmed" => MayBook(r.student, d)

(* What operations read and write are items of the database.             *)
LEMMA ItemsAre ==
    /\ Capacity \in Items
    /\ \A s \in Slots : Reservation(s) \in Items
    /\ \A u \in Students : Account(u) \in Items /\ OwnRows(u) \subseteq Items
    /\ \A u \in Students, day \in Days : <<u, day>> \in Slots /\ <<u, day>>[1] = u
BY DEF Items, OwnRows, Slots, Days

(* A refusal writes nothing and is not a confirmation.                   *)
LEMMA RefusalIsSound ==
    ASSUME NEW r, NEW d, NEW answer \in Answers \ {"confirmed"}, NEW reads \in SUBSET Items
    PROVE  Sound(r, d, Refused(answer, reads))
BY DEF Sound, Refused, NoRows

(* A booking writes one row, and only if the account may book, the       *)
(* student had no row and a seat was left.                               *)
LEMMA ReserveIsSound ==
    ASSUME NEW r \in AllRequests, NEW d \in Databases
    PROVE  Sound(r, d, Reserve(r.student, d))
<1> DEFINE u == r.student
           row == <<u, "tomorrow">>
<1>1. u \in Students /\ row \in Slots
  BY DEF AllRequests, Slots, Days
<1>2. Everything(u) \subseteq Items
  BY <1>1, ItemsAre DEF Everything, Days
<1>3. CASE ~MayBook(u, d)
  BY <1>1, <1>3, ItemsAre, RefusalIsSound DEF Reserve, Answers
<1>4. CASE MayBook(u, d) /\ d.reservation[row] # "NONE"
  BY <1>1, <1>4, ItemsAre, RefusalIsSound DEF Reserve, Answers
<1>5. CASE MayBook(u, d) /\ d.reservation[row] = "NONE" /\ Cardinality(ConfirmedTomorrow(d)) >= d.capacity
  BY <1>1, <1>2, <1>5, RefusalIsSound DEF Reserve, Answers, Everything
<1>6. CASE MayBook(u, d) /\ d.reservation[row] = "NONE" /\ ~(Cardinality(ConfirmedTomorrow(d)) >= d.capacity)
  <2>1. Reserve(u, d) = [answer |-> "confirmed", reads |-> Everything(u), rows |-> Only(row, "CONFIRMED"), accounts |-> NoRows]
    BY <1>6 DEF Reserve, Everything
  <2> QED BY <1>1, <1>2, <1>6, <2>1 DEF Sound, Only, NoRows, Answers
<1> QED BY <1>3, <1>4, <1>5, <1>6

(* A cancellation, by the student or by an administrator, ends a         *)
(* confirmed row.                                                        *)
LEMMA CancellationsAreSound ==
    ASSUME NEW r \in AllRequests, NEW d \in Databases
    PROVE  /\ Sound(r, d, Cancel(<<r.student, r.day>>, d))
           /\ Sound(r, d, AdministratorCancel(<<r.student, r.day>>, d))
<1> DEFINE s == <<r.student, r.day>>
<1>1. s \in Slots /\ s[1] = r.student /\ r.student \in Students
  BY DEF AllRequests, Slots
<1>2. CASE d.reservation[s] = "CONFIRMED"
  <2>1. Cancel(s, d) = [answer |-> "ok", reads |-> {Reservation(s), Account(r.student)},
                        rows |-> Only(s, "CANCELLED"), accounts |-> Only(r.student, "RESTRICTED")]
    BY <1>1, <1>2 DEF Cancel
  <2>2. AdministratorCancel(s, d) = [answer |-> "ok", reads |-> {Reservation(s)},
                                     rows |-> Only(s, "CANCELLED"), accounts |-> NoRows]
    BY <1>2 DEF AdministratorCancel
  <2>3. Sound(r, d, Cancel(s, d))
    BY <1>1, <1>2, <2>1, ItemsAre DEF Sound, Only, Answers
  <2>4. Sound(r, d, AdministratorCancel(s, d))
    BY <1>1, <1>2, <2>2, ItemsAre DEF Sound, Only, NoRows, Answers
  <2> QED BY <2>3, <2>4
<1>3. CASE d.reservation[s] # "CONFIRMED"
  BY <1>1, <1>3, ItemsAre, RefusalIsSound DEF Cancel, AdministratorCancel, Answers
<1> QED BY <1>2, <1>3

(* A ban takes tomorrow's reservation with it if there is one.           *)
LEMMA FutureCancelledIs ==
    ASSUME NEW u \in Students, NEW d \in Databases
    PROVE  /\ DOMAIN FutureCancelled(u, d) \subseteq {<<u, "tomorrow">>}
           /\ \A s \in DOMAIN FutureCancelled(u, d) :
                FutureCancelled(u, d)[s] = "CANCELLED" /\ d.reservation[s] = "CONFIRMED"
           /\ d.reservation[<<u, "tomorrow">>] = "CONFIRMED" =>
                <<u, "tomorrow">> \in DOMAIN FutureCancelled(u, d)
BY DEF FutureCancelled, Only, NoRows

(* A no-show and a ban read the rows of the student they ban, and end    *)
(* confirmed rows only.                                                  *)
LEMMA BansAreSound ==
    ASSUME NEW r \in AllRequests, NEW d \in Databases
    PROVE  Sound(r, d, NoShow(r.student, d)) /\ Sound(r, d, Ban(r.student, d))
<1> DEFINE u == r.student
           today == <<u, "today">>
           future == FutureCancelled(u, d)
<1>1. /\ u \in Students /\ today \in Slots /\ <<u, "tomorrow">> \in Slots
      /\ OwnRows(u) \cup {Account(u)} \subseteq Items
  BY ItemsAre DEF AllRequests, Days
<1>2. /\ DOMAIN future \subseteq Slots
      /\ \A s \in DOMAIN future : future[s] = "CANCELLED" /\ d.reservation[s] = "CONFIRMED"
  BY <1>1, FutureCancelledIs
<1> HIDE DEF future
<1>3. Sound(r, d, Ban(u, d))
  <2>1. Ban(u, d) = [answer |-> "ok", reads |-> OwnRows(u) \cup {Account(u)},
                     rows |-> future, accounts |-> Only(u, "BANNED")]
    BY DEF Ban, future
  <2> QED BY <1>1, <1>2, <2>1 DEF Sound, Only, Answers
<1>4. CASE d.reservation[today] = "CONFIRMED"
  <2> DEFINE rows == [s \in {today} \cup DOMAIN future |-> IF s = today THEN "NO_SHOW" ELSE "CANCELLED"]
  <2>1. NoShow(u, d) = [answer |-> "ok", reads |-> OwnRows(u) \cup {Account(u)},
                        rows |-> rows, accounts |-> Only(u, "BANNED")]
    BY <1>4 DEF NoShow, future
  <2>2. /\ DOMAIN rows \subseteq Slots
        /\ \A s \in DOMAIN rows : rows[s] \in {"CANCELLED", "NO_SHOW"} /\ d.reservation[s] = "CONFIRMED"
    BY <1>1, <1>2, <1>4
  <2> HIDE DEF rows
  <2>3. Sound(r, d, NoShow(u, d))
    BY <1>1, <2>1, <2>2 DEF Sound, Only, Answers
  <2> QED BY <1>3, <2>3
<1>5. CASE d.reservation[today] # "CONFIRMED"
  BY <1>1, <1>3, <1>5, ItemsAre, RefusalIsSound DEF NoShow, Answers
<1> QED BY <1>4, <1>5

(* A restriction and a release write accounts only: a release no other   *)
(* than lapsed ones.                                                     *)
LEMMA AccountChangesAreSound ==
    ASSUME NEW r \in AllRequests, NEW d \in Databases, NEW some \in SUBSET Students
    PROVE  /\ Sound(r, d, ApplyRestriction(r.student, d))
           /\ r.kind = "release" => Sound(r, d, Release(some, d))
<1>1. r.student \in Students /\ Account(r.student) \in Items
  BY ItemsAre DEF AllRequests
<1>2. Sound(r, d, ApplyRestriction(r.student, d))
  <2>1. CASE d.account[r.student] = "BANNED"
    BY <1>1, <2>1, RefusalIsSound DEF ApplyRestriction, Answers
  <2>2. CASE d.account[r.student] # "BANNED"
    <3>1. ApplyRestriction(r.student, d) = [answer |-> "ok", reads |-> {Account(r.student)},
                                            rows |-> NoRows, accounts |-> Only(r.student, "RESTRICTED")]
      BY <2>2 DEF ApplyRestriction
    <3> QED BY <1>1, <3>1 DEF Sound, Only, NoRows, Answers
  <2> QED BY <2>1, <2>2
<1>3. ASSUME r.kind = "release" PROVE Sound(r, d, Release(some, d))
  <2>1. /\ StillLapsed(some, d) \subseteq Students
        /\ \A u \in StillLapsed(some, d) : d.account[u] = "LAPSED"
        /\ {Account(u) : u \in some} \subseteq Items
    BY ItemsAre DEF StillLapsed
  <2> QED BY <1>3, <2>1 DEF Sound, Release, NoRows, Answers
<1> QED BY <1>2, <1>3

(* What every operation answers is sound: the seven kinds of request, on *)
(* any tables.                                                           *)
LEMMA OutcomeIsSound ==
    ASSUME NEW r \in AllRequests, NEW d \in Databases, NEW some \in SUBSET Students
    PROVE  Sound(r, d, Outcome(r, some, d))
BY ReserveIsSound, CancellationsAreSound, BansAreSound, AccountChangesAreSound DEF Outcome, AllRequests, Kinds

(* What the bookkeeping of attempts and commits says. *)
OrderInv ==
    /\ DOMAIN result = Clients
    /\ \A c \in Clients : phase[c] \in {"idle", "waiting", "locking"} => commitAt[c] = 0
    /\ \A c \in Clients \ Committed :
         result[c].rows = NoRows /\ result[c].accounts = NoRows /\ result[c].answer # "confirmed"
    /\ \A c, o \in Clients : o \in preceding[c] => phase[o] = "answered"
    /\ \A c \in Clients : phase[c] = "locking" => snapshot[c] \in Databases /\ snapshot[c].capacity <= highest
    /\ db.capacity <= highest

(* The committed transactions did what their operations do. *)
ResultInv ==
    \A o \in Committed : \E d \in Databases : Sound(request[o], d, result[o])

(* A table differs from a snapshot only by what was committed since. *)
SnapshotInv ==
    \A c \in Clients : phase[c] = "locking" =>
       /\ \A s \in Slots :
            \/ db.reservation[s] = snapshot[c].reservation[s]
            \/ \E o \in CommittedSince(c) : s \in DOMAIN result[o].rows /\ result[o].rows[s] = db.reservation[s]
       /\ \A u \in Students :
            \/ db.account[u] = snapshot[c].account[u]
            \/ \E o \in CommittedSince(c) : u \in DOMAIN result[o].accounts /\ result[o].accounts[u] = db.account[u]

(* A reservation that was ended stays ended, and a student who was restricted stays so. *)
EndedInv ==
    \A o \in Committed : \A s \in EndedRows(o) : db.reservation[s] \in {"CANCELLED", "NO_SHOW"}

(* An account under a restriction or a ban.                              *)
Curbed(u, d) == d.account[u] \in {"RESTRICTED", "BANNED"}

(* A student who was curbed by a request that committed stays so, as     *)
(* long as none of the requests that commit later is a release.          *)
HeededInv ==
    \A o \in Committed : request[o].kind # "release" =>
       \A u \in DOMAIN result[o].accounts :
          /\ Curbed(u, db)
          /\ \A c \in Clients : o \in preceding[c] /\ phase[c] = "locking" => Curbed(u, snapshot[c])

(* An attempt that was refused is paid for by a commit. *)
ContentionInv ==
    /\ IsFiniteSet(Committed) /\ Cardinality(Committed) = commits
    /\ \A c \in Clients : phase[c] \in {"idle", "waiting"} => attempt[c] <= commits /\ attempt[c] < MaxAttempts
    /\ \A c \in Clients : phase[c] = "locking" => attempt[c] <= start[c] + 1

(* The inductive invariant. The first line says what a client in a       *)
(* transaction knows; the second what the answers that were given say of *)
(* the tables.                                                           *)
TransactionsInv ==
    /\ TypeOK /\ OrderInv /\ ResultInv /\ SnapshotInv
    /\ EndedInv /\ EndedByOne
    /\ HeededInv /\ RestrictionsAreHeeded
    /\ ContentionInv /\ GivenUpOnlyUnderContention


(* The requests that committed have a place in the order of commits.     *)
LEMMA CommittedAre ==
    ASSUME TypeOK
    PROVE  /\ commits \in Nat
           /\ \A o \in Committed : o \in Clients /\ commitAt[o] \in 1 .. commits
           /\ \A c \in Clients : start[c] \in 0 .. commits
           /\ \A c \in Clients : c \notin Committed => commitAt[c] = 0
           /\ \A c \in Clients : \A o \in CommittedSince(c) : o \in Committed /\ commitAt[o] > start[c]
BY DEF TypeOK, Committed, CommittedSince

(* The invariant holds in the initial states.                            *)
LEMMA TransactionsStart == Init => TransactionsInv
<1> SUFFICES ASSUME Init PROVE TransactionsInv
  OBVIOUS
<1>1. /\ Committed = {} /\ commits = 0 /\ MaxAttempts \in Nat \ {0} /\ InitialCapacity \in Nat
      /\ \A c \in Clients : /\ phase[c] = "idle" /\ result[c] = Refused("none", {}) /\ preceding[c] = {}
                            /\ attempt[c] = 0
  BY TransactionsAssumption DEF TransactionsAssumption, Init, Committed
<1>2. db \in Databases
  <2>1. db.reservation \in [Slots -> Statuses] /\ db.account \in [Students -> BookingStatuses]
    BY DEF Init, Statuses, BookingStatuses
  <2> QED BY <1>1, <2>1 DEF Init, Databases
<1>3. TypeOK
  <2>1. 0 \in 0 .. MaxAttempts /\ 0 \in 0 .. 0
    BY <1>1
  <2>2. \A c \in Clients : result[c].answer \in Answers /\ result[c].reads \subseteq Items
    BY <1>1 DEF Refused, Answers
  <2> QED BY <1>1, <1>2, <2>1, <2>2 DEF Init, TypeOK, Phases
<1>4. OrderInv
  BY <1>1 DEF Init, OrderInv, Refused
<1>5. ResultInv /\ SnapshotInv /\ EndedInv /\ EndedByOne /\ HeededInv
  BY <1>1 DEF ResultInv, SnapshotInv, EndedInv, EndedByOne, HeededInv
<1>6. RestrictionsAreHeeded /\ GivenUpOnlyUnderContention
  BY <1>1 DEF RestrictionsAreHeeded, GivenUpOnlyUnderContention, Refused
<1>7. ContentionInv
  BY <1>1, FS_EmptySet DEF ContentionInv
<1> QED BY <1>3, <1>4, <1>5, <1>6, <1>7 DEF TransactionsInv

(* What a commit does: it makes the outcome of the request, computed on  *)
(* the client's snapshot, the last in the order of commits. It goes      *)
(* through because no committed request since that snapshot is in a      *)
(* read-write conflict with it, or because it writes nothing.            *)
LEMMA CommitIs ==
    ASSUME TransactionsInv, NEW c \in Clients, Commit(c),
           NEW out, out = Outcome(request[c], selected[c], snapshot[c])
    PROVE  /\ phase[c] = "locking" /\ c \notin Committed /\ MayCommit(c, out)
           /\ snapshot[c] \in Databases /\ snapshot[c].capacity <= highest
           /\ Sound(request[c], snapshot[c], out)
           /\ db \in Databases /\ db' \in Databases /\ db'.capacity = db.capacity
           /\ db'.reservation = Updated(db.reservation, out.rows)
           /\ db'.account = Updated(db.account, out.accounts)
           /\ Committed' = Committed \cup {c}
           /\ commits' = commits + 1 /\ commitAt'[c] = commits + 1 /\ result'[c] = out
           /\ \A o \in Clients \ {c} : commitAt'[o] = commitAt[o] /\ result'[o] = result[o]
<1>1. TypeOK /\ OrderInv
  BY DEF TransactionsInv
<1>2. phase[c] = "locking" /\ MayCommit(c, out) /\ result' = [result EXCEPT ![c] = out]
      /\ commitAt' = [commitAt EXCEPT ![c] = commits + 1] /\ commits' = commits + 1
      /\ db' = [db EXCEPT !.reservation = Updated(db.reservation, out.rows),
                          !.account = Updated(db.account, out.accounts)]
  BY DEF Commit, HoldsAll
<1>3. commitAt[c] = 0 /\ c \notin Committed /\ snapshot[c] \in Databases /\ snapshot[c].capacity <= highest
  BY <1>1, <1>2 DEF OrderInv, Committed
<1>4. Sound(request[c], snapshot[c], out)
  <2>1. request[c] \in AllRequests /\ selected[c] \subseteq Students
    BY <1>1, TransactionsAssumption DEF TypeOK, TransactionsAssumption
  <2> QED BY <1>3, <2>1, OutcomeIsSound
<1>5. db \in Databases
  BY <1>1 DEF TypeOK
<1>6. /\ Updated(db.reservation, out.rows) \in [Slots -> Statuses]
      /\ Updated(db.account, out.accounts) \in [Students -> BookingStatuses]
  <2>1. /\ \A s \in DOMAIN out.rows : out.rows[s] \in Statuses
        /\ \A u \in DOMAIN out.accounts : out.accounts[u] \in BookingStatuses
    BY <1>4 DEF Sound, Statuses, BookingStatuses
  <2> QED BY <1>5, <2>1 DEF Databases, Updated
<1>7. /\ db' \in Databases /\ db'.capacity = db.capacity
      /\ db'.reservation = Updated(db.reservation, out.rows)
      /\ db'.account = Updated(db.account, out.accounts)
  BY <1>2, <1>5, <1>6 DEF Databases
<1>8. /\ commitAt'[c] = commits + 1 /\ result'[c] = out
      /\ \A o \in Clients \ {c} : commitAt'[o] = commitAt[o] /\ result'[o] = result[o]
  BY <1>1, <1>2 DEF TypeOK, OrderInv
<1>9. Committed' = Committed \cup {c}
  <2>1. commits + 1 > 0
    BY <1>1 DEF TypeOK
  <2> QED BY <1>8, <2>1 DEF Committed
<1> QED BY <1>2, <1>3, <1>4, <1>5, <1>7, <1>8, <1>9

(* What a transaction writes is still as its snapshot shows it. *)
LEMMA WritesAreCurrent ==
    ASSUME TransactionsInv, NEW c \in Clients, Commit(c),
           NEW out, out = Outcome(request[c], selected[c], snapshot[c])
    PROVE  /\ \A s \in DOMAIN out.rows : s \in Slots /\ db.reservation[s] = snapshot[c].reservation[s]
           /\ \A u \in DOMAIN out.accounts : u \in Students /\ db.account[u] = snapshot[c].account[u]
<1>1. /\ phase[c] = "locking" /\ MayCommit(c, out) /\ Sound(request[c], snapshot[c], out)
  BY CommitIs
<1>2. SnapshotInv /\ FirstUpdaterWins(c, out) /\ DOMAIN out.rows \subseteq Slots /\ DOMAIN out.accounts \subseteq Students
  BY <1>1 DEF TransactionsInv, MayCommit, Sound
<1>3. ASSUME NEW s \in DOMAIN out.rows, NEW o \in CommittedSince(c), s \in DOMAIN result[o].rows PROVE FALSE
  BY <1>2, <1>3 DEF FirstUpdaterWins, Writes
<1>4. ASSUME NEW u \in DOMAIN out.accounts, NEW o \in CommittedSince(c), u \in DOMAIN result[o].accounts PROVE FALSE
  BY <1>2, <1>4 DEF FirstUpdaterWins, Writes
<1> QED BY <1>1, <1>2, <1>3, <1>4 DEF SnapshotInv

(* Of two transactions neither of which saw what the other wrote to what it *)
(* read, the second does not commit. *)
LEMMA NoWriteSkew ==
    ASSUME TransactionsInv, NEW c \in Clients, Commit(c),
           NEW out, out = Outcome(request[c], selected[c], snapshot[c]),
           NEW o \in CommittedSince(c)
    PROVE  \/ out.reads \cap Writes(result[o]) = {}
           \/ result[o].reads \cap Writes(out) = {}
<1> DEFINE results == [result EXCEPT ![c] = out]
           committed == [commitAt EXCEPT ![c] = commits + 1]
<1>1. /\ MayCommit(c, out) /\ c \notin Committed
  BY CommitIs
<1>2. /\ o \in Committed /\ o \in Clients /\ o # c /\ commitAt[o] > start[c] /\ start[o] <= commits /\ commits \in Nat
      /\ start[o] \in Nat
  BY <1>1, CommittedAre DEF TransactionsInv
<1>3. /\ results[c] = out /\ results[o] = result[o]
      /\ committed[c] = commits + 1 /\ committed[o] = commitAt[o]
  BY <1>2 DEF TransactionsInv, TypeOK, OrderInv
<1>4. Serializable(Committed \cup {c}, results, committed)
  BY <1>1 DEF MayCommit
<1> HIDE DEF results, committed
<1>5. {c, o} \in (SUBSET (Committed \cup {c})) \ {{}}
  BY <1>2
<1>6. PICK p \in {c, o} : \A t \in {c, o} \ {p} : ~Precedes(t, p, results, committed)
  BY <1>4, <1>5 DEF Serializable
<1>7. CASE p = c
  <2>1. ~Precedes(o, c, results, committed)
    BY <1>2, <1>6, <1>7
  <2>2. committed[c] > start[o]
    BY <1>2, <1>3
  <2> QED BY <1>3, <2>1, <2>2 DEF Precedes
<1>8. CASE p = o
  <2>1. ~Precedes(c, o, results, committed)
    BY <1>2, <1>6, <1>8
  <2> QED BY <1>2, <1>3, <2>1 DEF Precedes
<1> QED BY <1>6, <1>7, <1>8


(* The steps of a client that leave the tables alone.                    *)
Quiet(c) ==
    Submit(c) \/ BeginAttempt(c) \/ AcquireLock(c) \/ SerializationFailure(c) \/ TimeOut(c) \/ Answer(c)

(* Such a step changes what one client is doing, and no table, answer or *)
(* order.                                                                *)
LEMMA QuietIs ==
    ASSUME TransactionsInv, NEW c \in Clients, Quiet(c)
    PROVE  /\ UNCHANGED <<db, highest, commits, commitAt, request>> /\ Committed' = Committed
           /\ DOMAIN result' = Clients
           /\ \A o \in Clients : \/ result'[o] = result[o]
                                 \/ /\ o \notin Committed /\ phase'[o] = "answered"
                                    /\ \/ result'[o] = Refused("timeout", {})
                                       \/ /\ result'[o] = Refused("exhausted", {}) /\ phase[o] = "locking"
                                          /\ CommittedSince(o) # {} /\ ~(attempt[o] < MaxAttempts)
           /\ \A o \in Clients : phase[o] = "answered" => phase'[o] = "answered"
           /\ \A o \in Clients : phase'[o] \in {"idle", "waiting", "locking"} => phase[o] \in {"idle", "waiting", "locking"}
           /\ \A o \in Clients :
                \/ preceding'[o] = preceding[o]
                \/ phase'[o] # "locking" /\ \A p \in preceding'[o] : phase[p] = "answered"
           /\ \A o \in Clients : phase'[o] = "locking" =>
                \/ /\ phase[o] = "locking" /\ start'[o] = start[o] /\ snapshot'[o] = snapshot[o]
                   /\ attempt'[o] = attempt[o]
                \/ /\ phase[o] = "waiting" /\ start'[o] = commits /\ snapshot'[o] = db
                   /\ attempt'[o] = attempt[o] + 1
           /\ \A o \in Clients : phase'[o] \in {"idle", "waiting"} =>
                /\ attempt'[o] = attempt[o]
                /\ \/ phase[o] \in {"idle", "waiting"}
                   \/ phase[o] = "locking" /\ CommittedSince(o) # {} /\ attempt[o] < MaxAttempts
<1>1. TypeOK /\ OrderInv
  BY DEF TransactionsInv
<1>2. \A o \in Clients : phase[o] = "locking" => o \notin Committed
  BY <1>1 DEF OrderInv, Committed
<1>3. UNCHANGED <<db, highest, commits, commitAt, request>>
  BY DEF Quiet, Submit, BeginAttempt, AcquireLock, SerializationFailure, TimeOut, Answer
<1>4. Committed' = Committed
  BY <1>3 DEF Committed
<1>5. CASE Submit(c)
  BY <1>1, <1>3, <1>4, <1>5 DEF Submit, TypeOK, OrderInv
<1>6. CASE BeginAttempt(c)
  BY <1>1, <1>3, <1>4, <1>6 DEF BeginAttempt, TypeOK, OrderInv
<1>7. CASE AcquireLock(c)
  BY <1>1, <1>3, <1>4, <1>7 DEF AcquireLock, TypeOK, OrderInv
<1>8. CASE SerializationFailure(c)
  <2>1. phase[c] = "locking" /\ CommittedSince(c) # {} /\ UNCHANGED <<attempt, start, preceding>>
        /\ \A o \in Clients \ {c} : snapshot'[o] = snapshot[o]
    BY <1>1, <1>8 DEF SerializationFailure, HoldsAll, TypeOK
  <2>2. CASE attempt[c] < MaxAttempts
    BY <1>1, <1>3, <1>4, <1>8, <2>1, <2>2 DEF SerializationFailure, AttemptsLeft, TypeOK, OrderInv
  <2>3. CASE ~(attempt[c] < MaxAttempts)
    BY <1>1, <1>2, <1>3, <1>4, <1>8, <2>1, <2>3 DEF SerializationFailure, AttemptsLeft, TypeOK, OrderInv
  <2> QED BY <2>2, <2>3
<1>9. CASE TimeOut(c)
  BY <1>1, <1>2, <1>3, <1>4, <1>9 DEF TimeOut, TypeOK, OrderInv
<1>10. CASE Answer(c)
  BY <1>1, <1>3, <1>4, <1>10 DEF Answer, TypeOK, OrderInv
<1> QED BY <1>5, <1>6, <1>7, <1>8, <1>9, <1>10 DEF Quiet

(* Such a step keeps the types.                                          *)
LEMMA QuietTypes ==
    ASSUME TransactionsInv, NEW c \in Clients, Quiet(c)
    PROVE  TypeOK'
<1>1. TypeOK /\ ContentionInv /\ MaxAttempts \in Nat
  BY TransactionsAssumption DEF TransactionsInv, TransactionsAssumption
<1>2. /\ UNCHANGED <<db, highest, commits, commitAt, request>>
      /\ \A o \in Clients : result'[o].answer \in Answers /\ result'[o].reads \subseteq Items
  BY <1>1, QuietIs DEF TypeOK, Refused, Answers
<1>3. phase' \in [Clients -> Phases]
  BY <1>1 DEF Quiet, Submit, BeginAttempt, AcquireLock, SerializationFailure, TimeOut, Answer, TypeOK, Phases
<1>4. selected' \in [Clients -> SUBSET Students] /\ preceding' \in [Clients -> SUBSET Clients]
  <2>1. CASE Submit(c)
    <3>1. request[c].student \in Students
      BY <1>1, TransactionsAssumption DEF TypeOK, TransactionsAssumption, AllRequests
    <3> QED BY <1>1, <2>1, <3>1 DEF Submit, TypeOK, StillLapsed
  <2>2. CASE ~Submit(c)
    BY <1>1, <2>2 DEF Quiet, BeginAttempt, AcquireLock, SerializationFailure, TimeOut, Answer, TypeOK
  <2> QED BY <2>1, <2>2
<1>5. attempt' \in [Clients -> 0 .. MaxAttempts] /\ start' \in [Clients -> 0 .. commits]
      /\ snapshot' \in [Clients -> Databases \cup {NoSnapshot}]
  <2>1. CASE BeginAttempt(c)
    <3>1. attempt[c] + 1 \in 0 .. MaxAttempts /\ commits \in 0 .. commits
      BY <1>1, <2>1 DEF TypeOK, ContentionInv, BeginAttempt
    <3> QED BY <1>1, <2>1, <3>1 DEF BeginAttempt, TypeOK
  <2>2. CASE ~BeginAttempt(c)
    BY <1>1, <2>2 DEF Quiet, Submit, AcquireLock, SerializationFailure, TimeOut, Answer, TypeOK
  <2> QED BY <2>1, <2>2
<1>6. lockedBy' \in [Locks -> SUBSET Clients]
  <2>1. \/ lockedBy' = lockedBy \/ lockedBy' = Released(c)
        \/ \E k : lockedBy' = [lockedBy EXCEPT ![k] = {c}]
    BY DEF Quiet, Submit, BeginAttempt, AcquireLock, SerializationFailure, TimeOut, Answer
  <2>2. Released(c) \in [Locks -> SUBSET Clients]
    BY <1>1 DEF TypeOK, Released
  <2> QED BY <1>1, <2>1, <2>2 DEF TypeOK
<1> QED BY <1>1, <1>2, <1>3, <1>4, <1>5, <1>6 DEF TypeOK

(* Such a step keeps the invariant: a snapshot is the tables as they     *)
(* are, and a request is given up only after an attempt that met         *)
(* another.                                                              *)
LEMMA QuietSteps ==
    ASSUME TransactionsInv, NEW c \in Clients, Quiet(c)
    PROVE  TransactionsInv'
<1>1. TypeOK /\ OrderInv /\ ResultInv /\ SnapshotInv /\ EndedInv /\ EndedByOne
      /\ HeededInv /\ RestrictionsAreHeeded /\ ContentionInv /\ GivenUpOnlyUnderContention
  BY DEF TransactionsInv
<1>2. /\ UNCHANGED <<db, highest, commits, commitAt, request>> /\ Committed' = Committed
      /\ \A o \in Committed : o \in Clients /\ result'[o] = result[o]
  BY QuietIs DEF Committed
<1>3. OrderInv'
  <2>1. \A o \in Clients \ Committed :
          result'[o].rows = NoRows /\ result'[o].accounts = NoRows /\ result'[o].answer # "confirmed"
    BY <1>1, QuietIs DEF OrderInv, Refused
  <2>2. \A d, o \in Clients : o \in preceding'[d] => phase'[o] = "answered"
    BY <1>1, QuietIs DEF OrderInv
  <2>3. db \in Databases
    BY <1>1 DEF TypeOK
  <2> QED BY <1>1, <1>2, <2>1, <2>2, <2>3, QuietIs DEF OrderInv
<1>4. ResultInv' /\ EndedInv' /\ EndedByOne'
  BY <1>1, <1>2 DEF ResultInv, EndedInv, EndedByOne, EndedRows
<1>5. SnapshotInv'
  <2> SUFFICES ASSUME NEW d \in Clients, phase'[d] = "locking"
               PROVE  /\ \A s \in Slots :
                           \/ db.reservation[s] = snapshot'[d].reservation[s]
                           \/ \E o \in CommittedSince(d)' : s \in DOMAIN result'[o].rows /\ result'[o].rows[s] = db.reservation[s]
                      /\ \A u \in Students :
                           \/ db.account[u] = snapshot'[d].account[u]
                           \/ \E o \in CommittedSince(d)' : u \in DOMAIN result'[o].accounts /\ result'[o].accounts[u] = db.account[u]
    BY <1>2 DEF SnapshotInv
  <2>1. CASE phase[d] = "locking" /\ start'[d] = start[d] /\ snapshot'[d] = snapshot[d]
    <3>1. CommittedSince(d)' = CommittedSince(d) /\ CommittedSince(d) \subseteq Committed
      BY <1>2, <2>1 DEF CommittedSince
    <3> QED BY <1>1, <1>2, <2>1, <3>1 DEF SnapshotInv
  <2>2. CASE snapshot'[d] = db
    BY <2>2
  <2> QED BY <2>1, <2>2, QuietIs
<1>6. HeededInv'
  <2> SUFFICES ASSUME NEW o \in Committed, request[o].kind # "release", NEW u \in DOMAIN result[o].accounts
               PROVE  /\ Curbed(u, db)
                      /\ \A d \in Clients : o \in preceding'[d] /\ phase'[d] = "locking" => Curbed(u, snapshot'[d])
    BY <1>2 DEF HeededInv, Curbed
  <2>1. Curbed(u, db)
    BY <1>1 DEF HeededInv
  <2>2. ASSUME NEW d \in Clients, o \in preceding'[d], phase'[d] = "locking" PROVE Curbed(u, snapshot'[d])
    <3>1. preceding'[d] = preceding[d]
      BY <2>2, QuietIs
    <3>2. snapshot'[d] = db \/ (phase[d] = "locking" /\ snapshot'[d] = snapshot[d])
      BY <2>2, QuietIs
    <3> QED BY <1>1, <2>1, <2>2, <3>1, <3>2 DEF HeededInv
  <2> QED BY <2>1, <2>2
<1>7. RestrictionsAreHeeded'
  <2> SUFFICES ASSUME NEW d \in Clients, NEW o \in preceding'[d],
                      request[o].kind # "release", request[d].student \in DOMAIN result'[o].accounts,
                      request[d].kind = "reserve", result'[d].answer = "confirmed"
               PROVE  FALSE
    BY <1>2 DEF RestrictionsAreHeeded
  <2>1. preceding'[d] \subseteq Clients
    BY QuietTypes DEF TypeOK
  <2>2. result'[d] = result[d] /\ result[d].answer = "confirmed"
    BY QuietIs DEF Refused
  <2>3. d \in Committed
    BY <1>1, <2>2 DEF OrderInv
  <2>4. result'[o] = result[o]
    BY <2>1, QuietIs DEF Refused, NoRows
  <2>5. phase[d] \in {"committed", "answered"}
    BY <1>1, <2>3 DEF OrderInv, TypeOK, Phases, Committed
  <2>6. preceding'[d] = preceding[d]
    BY <1>1, <2>5 DEF Quiet, Submit, BeginAttempt, AcquireLock, SerializationFailure, TimeOut, Answer, TypeOK
  <2> QED BY <1>1, <2>2, <2>4, <2>6 DEF RestrictionsAreHeeded
<1>8. \A d \in Clients : phase[d] = "locking" /\ CommittedSince(d) # {} => attempt[d] <= commits
  <2> SUFFICES ASSUME NEW d \in Clients, phase[d] = "locking", NEW o \in CommittedSince(d) PROVE attempt[d] <= commits
    OBVIOUS
  <2>1. commitAt[o] \in 1 .. commits /\ commitAt[o] > start[d] /\ start[d] \in Nat /\ commits \in Nat
    BY <1>1, CommittedAre
  <2>2. attempt[d] <= start[d] + 1 /\ attempt[d] \in Nat
    BY <1>1, TransactionsAssumption DEF ContentionInv, TypeOK, TransactionsAssumption
  <2> QED BY <2>1, <2>2
<1>9. ContentionInv'
  <2>1. \A d \in Clients : phase'[d] \in {"idle", "waiting"} => attempt'[d] <= commits /\ attempt'[d] < MaxAttempts
    BY <1>1, <1>8, QuietIs DEF ContentionInv
  <2>2. ASSUME NEW d \in Clients, phase'[d] = "locking" PROVE attempt'[d] <= start'[d] + 1
    <3>1. CASE phase[d] = "locking" /\ start'[d] = start[d] /\ attempt'[d] = attempt[d]
      BY <1>1, <3>1 DEF ContentionInv
    <3>2. CASE phase[d] = "waiting" /\ start'[d] = commits /\ attempt'[d] = attempt[d] + 1
      <4>1. attempt[d] <= commits /\ attempt[d] \in Nat /\ commits \in Nat
        BY <1>1, <3>2, TransactionsAssumption DEF ContentionInv, TypeOK, TransactionsAssumption
      <4> QED BY <3>2, <4>1
    <3> QED BY <2>2, <3>1, <3>2, QuietIs
  <2> QED BY <1>1, <1>2, <2>1, <2>2 DEF ContentionInv
<1>10. GivenUpOnlyUnderContention'
  <2> SUFFICES ASSUME NEW d \in Clients, result'[d].answer = "exhausted" PROVE Cardinality(Committed) >= MaxAttempts
    BY <1>2 DEF GivenUpOnlyUnderContention
  <2>1. CASE result'[d] = result[d]
    BY <1>1, <2>1 DEF GivenUpOnlyUnderContention
  <2>2. CASE phase[d] = "locking" /\ CommittedSince(d) # {} /\ ~(attempt[d] < MaxAttempts)
    <3>1. attempt[d] <= commits /\ attempt[d] \in Nat /\ commits \in Nat /\ MaxAttempts \in Nat
      BY <1>1, <1>8, <2>2, TransactionsAssumption DEF TypeOK, TransactionsAssumption
    <3> QED BY <1>1, <2>2, <3>1 DEF ContentionInv
  <2> QED BY <2>1, <2>2, QuietIs DEF Refused
<1> QED BY <1>3, <1>4, <1>5, <1>6, <1>7, <1>9, <1>10, QuietTypes DEF TransactionsInv


(* A commit keeps the types and what is known of contention.             *)
LEMMA CommitTypes ==
    ASSUME TransactionsInv, NEW c \in Clients, Commit(c)
    PROVE  TypeOK' /\ OrderInv'
<1> DEFINE out == Outcome(request[c], selected[c], snapshot[c])
<1>1. TypeOK /\ OrderInv
  BY DEF TransactionsInv
<1>2. UNCHANGED <<highest, request, selected, attempt, start, preceding>>
      /\ phase' = [phase EXCEPT ![c] = "committed"] /\ snapshot' = [snapshot EXCEPT ![c] = NoSnapshot]
      /\ lockedBy' = Released(c) /\ commits' = commits + 1
      /\ commitAt' = [commitAt EXCEPT ![c] = commits + 1] /\ result' = [result EXCEPT ![c] = out]
  BY DEF Commit
<1>3. /\ phase[c] = "locking" /\ c \notin Committed /\ Sound(request[c], snapshot[c], out)
      /\ db \in Databases /\ db' \in Databases /\ db'.capacity = db.capacity /\ Committed' = Committed \cup {c}
      /\ result'[c] = out /\ commitAt'[c] = commits + 1
      /\ \A o \in Clients \ {c} : commitAt'[o] = commitAt[o] /\ result'[o] = result[o]
  BY CommitIs
<1> HIDE DEF out
<1>4. commits \in Nat /\ commits' \in Nat /\ commits + 1 \in 0 .. commits' /\ 0 .. commits \subseteq 0 .. commits'
  BY <1>1, <1>2 DEF TypeOK
<1>5. TypeOK'
  <2>1. phase' \in [Clients -> Phases] /\ snapshot' \in [Clients -> Databases \cup {NoSnapshot}]
    BY <1>1, <1>2 DEF TypeOK, Phases
  <2>2. commitAt' \in [Clients -> 0 .. commits'] /\ start' \in [Clients -> 0 .. commits']
    <3>1. commitAt \in [Clients -> 0 .. commits'] /\ start \in [Clients -> 0 .. commits']
      BY <1>1, <1>4 DEF TypeOK
    <3> QED BY <1>2, <1>4, <3>1
  <2>3. lockedBy' \in [Locks -> SUBSET Clients]
    BY <1>1, <1>2 DEF TypeOK, Released
  <2>4. \A o \in Clients : result'[o].answer \in Answers /\ result'[o].reads \subseteq Items
    BY <1>1, <1>3 DEF TypeOK, Sound
  <2> QED BY <1>1, <1>2, <1>3, <1>4, <2>1, <2>2, <2>3, <2>4 DEF TypeOK
<1>6. OrderInv'
  <2>1. \A o \in Clients \ {c} : phase'[o] = phase[o] /\ snapshot'[o] = snapshot[o]
    BY <1>1, <1>2 DEF TypeOK
  <2>2. phase'[c] = "committed"
    BY <1>1, <1>2 DEF TypeOK
  <2>3. DOMAIN result' = Clients
    BY <1>1, <1>2 DEF OrderInv
  <2>4. \A d \in Clients : \A o \in preceding'[d] : phase'[o] = "answered"
    <3>1. \A d \in Clients : preceding[d] \subseteq Clients
      BY <1>1 DEF TypeOK
    <3> QED BY <1>1, <1>2, <1>3, <2>1, <3>1 DEF OrderInv
  <2> QED BY <1>1, <1>2, <1>3, <2>1, <2>2, <2>3, <2>4 DEF OrderInv
<1> QED BY <1>5, <1>6

(* The tables after a commit. *)
LEMMA TablesAfterCommit ==
    ASSUME TransactionsInv, NEW c \in Clients, Commit(c),
           NEW out, out = Outcome(request[c], selected[c], snapshot[c])
    PROVE  /\ \A s \in Slots : db'.reservation[s] = IF s \in DOMAIN out.rows THEN out.rows[s] ELSE db.reservation[s]
           /\ \A u \in Students : db'.account[u] = IF u \in DOMAIN out.accounts THEN out.accounts[u] ELSE db.account[u]
<1>1. db \in Databases /\ db'.reservation = Updated(db.reservation, out.rows)
      /\ db'.account = Updated(db.account, out.accounts)
  BY CommitIs
<1>2. DOMAIN db.reservation = Slots /\ DOMAIN db.account = Students
  BY <1>1 DEF Databases
<1> QED BY <1>1, <1>2 DEF Updated

(* A commit keeps what clients know of their snapshots: a row that       *)
(* differs from the tables was written by a request that committed       *)
(* since.                                                                *)
LEMMA CommitSnapshots ==
    ASSUME TransactionsInv, NEW c \in Clients, Commit(c)
    PROVE  SnapshotInv' /\ ResultInv'
<1> DEFINE out == Outcome(request[c], selected[c], snapshot[c])
<1>1. TypeOK /\ OrderInv /\ ResultInv /\ SnapshotInv
  BY DEF TransactionsInv
<1>2. /\ phase[c] = "locking" /\ c \notin Committed /\ Sound(request[c], snapshot[c], out) /\ snapshot[c] \in Databases
      /\ Committed' = Committed \cup {c} /\ result'[c] = out /\ commitAt'[c] = commits + 1
      /\ \A o \in Clients \ {c} : commitAt'[o] = commitAt[o] /\ result'[o] = result[o]
  BY CommitIs
<1>3. /\ \A s \in Slots : db'.reservation[s] = IF s \in DOMAIN out.rows THEN out.rows[s] ELSE db.reservation[s]
      /\ \A u \in Students : db'.account[u] = IF u \in DOMAIN out.accounts THEN out.accounts[u] ELSE db.account[u]
  BY TablesAfterCommit
<1> HIDE DEF out
<1>4. UNCHANGED <<request, start>> /\ phase'[c] = "committed"
      /\ \A d \in Clients \ {c} : phase'[d] = phase[d] /\ snapshot'[d] = snapshot[d]
  BY <1>1 DEF Commit, TypeOK
<1>5. ResultInv'
  <2>1. \A o \in Committed : o \in Clients \ {c}
    BY <1>2 DEF Committed
  <2> QED BY <1>1, <1>2, <1>4, <2>1 DEF ResultInv
<1>6. SnapshotInv'
  <2> SUFFICES ASSUME NEW d \in Clients, phase'[d] = "locking"
               PROVE  /\ \A s \in Slots :
                           \/ db'.reservation[s] = snapshot'[d].reservation[s]
                           \/ \E o \in CommittedSince(d)' : s \in DOMAIN result'[o].rows /\ result'[o].rows[s] = db'.reservation[s]
                      /\ \A u \in Students :
                           \/ db'.account[u] = snapshot'[d].account[u]
                           \/ \E o \in CommittedSince(d)' : u \in DOMAIN result'[o].accounts /\ result'[o].accounts[u] = db'.account[u]
    BY DEF SnapshotInv
  <2>1. d # c /\ phase[d] = "locking" /\ snapshot'[d] = snapshot[d]
    BY <1>4
  <2>2. c \in CommittedSince(d)' /\ \A o \in CommittedSince(d) : o \in CommittedSince(d)' /\ result'[o] = result[o]
    <3>1. commits + 1 > start[d]
      BY <1>1, CommittedAre
    <3>2. \A o \in Committed : o \in Clients \ {c}
      BY <1>2 DEF Committed
    <3> QED BY <1>2, <1>4, <3>1, <3>2 DEF CommittedSince
  <2> QED BY <1>1, <1>2, <1>3, <2>1, <2>2 DEF SnapshotInv
<1> QED BY <1>5, <1>6

(* A commit keeps what is known of ended rows: a row that a request      *)
(* ended was confirmed until then, and no other request ends it.         *)
LEMMA CommitEnds ==
    ASSUME TransactionsInv, NEW c \in Clients, Commit(c)
    PROVE  EndedInv' /\ EndedByOne'
<1> DEFINE out == Outcome(request[c], selected[c], snapshot[c])
<1>1. EndedInv /\ EndedByOne /\ ResultInv
  BY DEF TransactionsInv
<1>2. /\ c \notin Committed /\ Sound(request[c], snapshot[c], out)
      /\ Committed' = Committed \cup {c} /\ result'[c] = out
      /\ \A o \in Clients \ {c} : result'[o] = result[o]
  BY CommitIs
<1>3. \A s \in Slots : db'.reservation[s] = IF s \in DOMAIN out.rows THEN out.rows[s] ELSE db.reservation[s]
  BY TablesAfterCommit
<1>4. \A s \in DOMAIN out.rows : s \in Slots /\ db.reservation[s] = snapshot[c].reservation[s]
  BY WritesAreCurrent
<1> HIDE DEF out
<1>5. \A s \in DOMAIN out.rows : db.reservation[s] \in {"NONE", "CONFIRMED"}
  BY <1>2, <1>4 DEF Sound
<1>6. \A o \in Committed : /\ o \in Clients \ {c} /\ EndedRows(o)' = EndedRows(o)
                           /\ \A s \in EndedRows(o) : s \in Slots /\ s \notin DOMAIN out.rows
  <2>1. \A o \in Committed : o \in Clients \ {c}
    BY <1>2 DEF Committed
  <2>2. \A o \in Committed : \A s \in EndedRows(o) : s \in Slots
    BY <1>1 DEF ResultInv, Sound, EndedRows
  <2> QED BY <1>1, <1>2, <1>5, <2>1, <2>2 DEF EndedInv, EndedRows
<1>7. EndedRows(c)' \subseteq DOMAIN out.rows
  BY <1>2 DEF EndedRows
<1>8. \A s \in EndedRows(c)' : out.rows[s] \in {"CANCELLED", "NO_SHOW"}
  BY <1>2 DEF EndedRows
<1>9. EndedInv'
  BY <1>1, <1>2, <1>3, <1>4, <1>6, <1>7, <1>8 DEF EndedInv
<1>10. EndedByOne'
  BY <1>1, <1>2, <1>6, <1>7 DEF EndedByOne
<1> QED BY <1>9, <1>10

(* A commit keeps what is known of restrictions: no confirmation follows *)
(* a restriction that the confirmed request did not see.                 *)
LEMMA CommitHeeds ==
    ASSUME TransactionsInv, NEW c \in Clients, Commit(c)
    PROVE  HeededInv' /\ RestrictionsAreHeeded'
<1> DEFINE out == Outcome(request[c], selected[c], snapshot[c])
<1>1. TypeOK /\ OrderInv /\ ResultInv /\ HeededInv /\ RestrictionsAreHeeded
  BY DEF TransactionsInv
<1>2. /\ phase[c] = "locking" /\ c \notin Committed /\ Sound(request[c], snapshot[c], out)
      /\ Committed' = Committed \cup {c} /\ result'[c] = out
      /\ \A o \in Clients \ {c} : result'[o] = result[o]
  BY CommitIs
<1>3. \A u \in Students : db'.account[u] = IF u \in DOMAIN out.accounts THEN out.accounts[u] ELSE db.account[u]
  BY TablesAfterCommit
<1>4. \A u \in DOMAIN out.accounts : u \in Students /\ db.account[u] = snapshot[c].account[u]
  BY WritesAreCurrent
<1> HIDE DEF out
<1>5. UNCHANGED <<request, preceding>> /\ phase'[c] = "committed"
      /\ \A d \in Clients \ {c} : phase'[d] = phase[d] /\ snapshot'[d] = snapshot[d]
  BY <1>1 DEF Commit, TypeOK
<1>6. \A o \in Committed : o \in Clients \ {c}
  BY <1>2 DEF Committed
<1>7. \A u \in Students : Curbed(u, db) => Curbed(u, db')
  BY <1>2, <1>3, <1>4 DEF Sound, Curbed
<1>8. request[c].kind # "release" => \A u \in DOMAIN out.accounts : Curbed(u, db')
  BY <1>2, <1>3, <1>4 DEF Sound, Curbed
<1>9. \A o \in Committed : \A u \in DOMAIN result[o].accounts : u \in Students
  BY <1>1 DEF ResultInv, Sound
<1>10. \A d \in Clients : c \notin preceding[d] /\ preceding[d] \subseteq Clients
  BY <1>1, <1>2 DEF OrderInv, TypeOK
<1>11. HeededInv'
  <2> SUFFICES ASSUME NEW o \in Committed', request[o].kind # "release", NEW u \in DOMAIN result'[o].accounts
               PROVE  /\ Curbed(u, db')
                      /\ \A d \in Clients : o \in preceding[d] /\ phase'[d] = "locking" => Curbed(u, snapshot'[d])
    BY <1>5 DEF HeededInv, Curbed
  <2>1. CASE o = c
    BY <1>2, <1>8, <1>10, <2>1
  <2>2. CASE o \in Committed
    <3>1. result'[o] = result[o] /\ u \in DOMAIN result[o].accounts /\ u \in Students
      BY <1>2, <1>6, <1>9, <2>2
    <3> QED BY <1>1, <1>5, <1>7, <2>2, <3>1 DEF HeededInv
  <2> QED BY <1>2, <2>1, <2>2
<1>12. RestrictionsAreHeeded'
  <2> SUFFICES ASSUME NEW d \in Clients, NEW o \in preceding[d],
                      request[d].kind = "reserve", request[o].kind # "release",
                      request[d].student \in DOMAIN result'[o].accounts,
                      result'[d].answer = "confirmed"
               PROVE  FALSE
    BY <1>5 DEF RestrictionsAreHeeded
  <2>1. o \in Clients \ {c} /\ result'[o] = result[o]
    BY <1>2, <1>10
  <2>2. CASE d # c
    BY <1>1, <1>2, <2>1, <2>2 DEF RestrictionsAreHeeded
  <2>3. CASE d = c
    <3>1. o \in Committed
      BY <1>1, <2>1 DEF OrderInv, NoRows
    <3>2. Curbed(request[c].student, snapshot[c])
      BY <1>1, <1>2, <2>1, <2>3, <3>1 DEF HeededInv
    <3>3. MayBook(request[c].student, snapshot[c])
      BY <1>2, <2>3 DEF Sound
    <3> QED BY <3>2, <3>3 DEF Curbed, MayBook
  <2> QED BY <2>2, <2>3
<1> QED BY <1>11, <1>12

(* A commit keeps the invariant.                                         *)
LEMMA CommitSteps == ASSUME TransactionsInv, NEW c \in Clients, Commit(c) PROVE TransactionsInv'
<1>1. TypeOK /\ ContentionInv /\ GivenUpOnlyUnderContention
  BY DEF TransactionsInv
<1>2. /\ c \notin Committed /\ Committed' = Committed \cup {c} /\ commits' = commits + 1 /\ commits \in Nat
      /\ \A o \in Clients \ {c} : result'[o] = result[o]
      /\ result'[c].answer \notin {"exhausted"}
      /\ UNCHANGED <<attempt, start>> /\ phase' = [phase EXCEPT ![c] = "committed"]
  <2>1. Outcome(request[c], selected[c], snapshot[c]).answer # "exhausted"
    BY <1>1, TransactionsAssumption DEF Outcome, Reserve, Refused, Cancel, AdministratorCancel, NoShow, Ban,
       ApplyRestriction, Release, TypeOK, TransactionsAssumption, AllRequests, Kinds
  <2>2. /\ c \notin Committed /\ Committed' = Committed \cup {c} /\ commits' = commits + 1
        /\ result'[c] = Outcome(request[c], selected[c], snapshot[c])
        /\ \A o \in Clients \ {c} : result'[o] = result[o]
    BY CommitIs
  <2>3. UNCHANGED <<attempt, start>> /\ phase' = [phase EXCEPT ![c] = "committed"]
    BY DEF Commit
  <2> QED BY <1>1, <2>1, <2>2, <2>3 DEF TypeOK
<1>3. IsFiniteSet(Committed') /\ Cardinality(Committed') = commits'
  BY <1>1, <1>2, FS_AddElement DEF ContentionInv
<1>4. ContentionInv'
  <2>1. \A d \in Clients : phase'[d] \in {"idle", "waiting", "locking"} => phase'[d] = phase[d]
    BY <1>1, <1>2 DEF TypeOK
  <2>2. \A d \in Clients : attempt[d] \in Nat
    BY <1>1, TransactionsAssumption DEF TypeOK, TransactionsAssumption
  <2> QED BY <1>1, <1>2, <1>3, <2>1, <2>2 DEF ContentionInv
<1>5. GivenUpOnlyUnderContention'
  <2>1. MaxAttempts \in Nat
    BY TransactionsAssumption DEF TransactionsAssumption
  <2> QED BY <1>1, <1>2, <1>3, <2>1 DEF GivenUpOnlyUnderContention, ContentionInv
<1> QED BY <1>4, <1>5, CommitTypes, CommitSnapshots, CommitEnds, CommitHeeds DEF TransactionsInv

(* A change of the capacity keeps the invariant.                         *)
LEMMA CapacitySteps == ASSUME TransactionsInv, NEW k \in Capacities, SetCapacity(k) PROVE TransactionsInv'
<1>1. TypeOK /\ OrderInv /\ ResultInv /\ SnapshotInv /\ EndedInv /\ EndedByOne
      /\ HeededInv /\ RestrictionsAreHeeded /\ ContentionInv /\ GivenUpOnlyUnderContention
  BY DEF TransactionsInv
<1>2. UNCHANGED <<commits, phase, request, selected, attempt, snapshot, start, lockedBy, result, commitAt, preceding>>
  BY DEF SetCapacity
<1>3. /\ db' = [db EXCEPT !.capacity = k] /\ k \in Nat /\ db \in Databases /\ highest \in Nat
      /\ highest' = IF k > highest THEN k ELSE highest
  BY <1>1, TransactionsAssumption DEF SetCapacity, TypeOK, TransactionsAssumption
<1>4. /\ db' \in Databases /\ db'.reservation = db.reservation /\ db'.account = db.account
      /\ db'.capacity = k /\ highest' \in Nat /\ highest <= highest' /\ k <= highest'
  BY <1>3 DEF Databases
<1>5. TypeOK'
  BY <1>1, <1>2, <1>4 DEF TypeOK
<1>6. OrderInv'
  <2>1. \A c \in Clients : phase[c] = "locking" => snapshot[c].capacity <= highest'
    <3>1. \A c \in Clients : phase[c] = "locking" => snapshot[c].capacity \in Nat
      BY <1>1 DEF OrderInv, Databases
    <3> QED BY <1>1, <1>3, <1>4, <3>1 DEF OrderInv
  <2> QED BY <1>1, <1>2, <1>4, <2>1 DEF OrderInv, Committed
<1>7. Committed' = Committed /\ \A c \in Clients : CommittedSince(c)' = CommittedSince(c)
  BY <1>2 DEF Committed, CommittedSince
<1>8. ResultInv' /\ SnapshotInv'
  BY <1>1, <1>2, <1>4, <1>7 DEF ResultInv, SnapshotInv
<1>9. EndedInv' /\ EndedByOne'
  BY <1>1, <1>2, <1>4, <1>7 DEF EndedInv, EndedByOne, EndedRows
<1>10. HeededInv' /\ RestrictionsAreHeeded'
  BY <1>1, <1>2, <1>4, <1>7 DEF HeededInv, Curbed, RestrictionsAreHeeded
<1>11. ContentionInv' /\ GivenUpOnlyUnderContention'
  BY <1>1, <1>2, <1>7 DEF ContentionInv, GivenUpOnlyUnderContention
<1> QED BY <1>5, <1>6, <1>8, <1>9, <1>10, <1>11 DEF TransactionsInv

(* Every step keeps the invariant.                                       *)
LEMMA TransactionsStep == TransactionsInv /\ [Next]_vars => TransactionsInv'
<1> SUFFICES ASSUME TransactionsInv, [Next]_vars PROVE TransactionsInv'
  OBVIOUS
<1>1. ASSUME NEW c \in Clients, Progress(c) \/ TimeOut(c) PROVE TransactionsInv'
  BY <1>1, QuietSteps, CommitSteps DEF Progress, Quiet
<1>2. CASE UNCHANGED vars
  <2>1. Committed' = Committed /\ \A c \in Clients : CommittedSince(c)' = CommittedSince(c)
    BY <1>2 DEF vars, Committed, CommittedSince
  <2>2. \A o \in Clients : EndedRows(o)' = EndedRows(o)
    BY <1>2 DEF vars, EndedRows
  <2> QED BY <1>2, <2>1, <2>2 DEF vars, TransactionsInv, TypeOK, OrderInv, ResultInv, SnapshotInv, EndedInv, EndedByOne,
          HeededInv, Curbed, RestrictionsAreHeeded, ContentionInv, GivenUpOnlyUnderContention, EndedRows
<1> QED BY <1>1, <1>2, CapacitySteps DEF Next

(* The invariant holds in every state, whatever the students, the        *)
(* clients, their requests and the number of attempts.                   *)
THEOREM TransactionsAreSound == Spec => []TransactionsInv
<1> QED BY TransactionsStart, TransactionsStep, PTL DEF Spec

(* Operations that race for the same rows and accounts heed each other:  *)
(* a reservation is ended by one request, and nobody is confirmed under  *)
(* a restriction or a ban that was committed before. reservation-        *)
(* service.ts and its siblings owe this to the SERIALIZABLE isolation of *)
(* runSerializableTransaction.                                           *)
THEOREM OperationsHeed == Spec => []OperationsHeedEachOther
<1>1. TransactionsInv => OperationsHeedEachOther
  BY DEF TransactionsInv, OperationsHeedEachOther
<1> QED BY <1>1, TransactionsAreSound, PTL

(* A request is answered with a conflict only if each of its attempts    *)
(* met another transaction (mutation-transaction.ts: the retries are     *)
(* used up on serialization failures and lock timeouts, and on nothing   *)
(* else).                                                                *)
THEOREM GivenUpUnderContention == Spec => []GivenUpOnlyUnderContention
<1>1. TransactionsInv => GivenUpOnlyUnderContention
  BY DEF TransactionsInv
<1> QED BY <1>1, TransactionsAreSound, PTL


(* A table in which one row is updated.                                  *)
LEMMA UpdatedOnly ==
    ASSUME NEW table, table = [y \in DOMAIN table |-> table[y]], NEW x \in DOMAIN table, NEW status
    PROVE  Updated(table, Only(x, status)) = [table EXCEPT ![x] = status]
BY DEF Updated, Only

(* The tables start as the register does.                                *)
LEMMA RegisterStarts == Init => Register!Init
BY DEF Init, Register!Init, Slots, Days, Register!Slots, Register!Days

(* A seat that is confirmed was free, of a student who may have it. *)
LEMMA ConfirmIsRegisters ==
    ASSUME TransactionsInv, NEW c \in Clients, Commit(c),
           NEW out, out = Outcome(request[c], selected[c], snapshot[c]),
           NEW row \in DOMAIN out.rows, out.rows[row] = "CONFIRMED"
    PROVE  /\ row = <<request[c].student, "tomorrow">>
           /\ db.reservation[row] = "NONE"
           /\ db.account[request[c].student] # "BANNED"
           /\ Cardinality(ConfirmedTomorrow(db)) < highest
<1> DEFINE u == request[c].student
<1>1. /\ phase[c] = "locking" /\ c \notin Committed /\ Sound(request[c], snapshot[c], out)
      /\ snapshot[c] \in Databases /\ snapshot[c].capacity <= highest
  BY CommitIs
<1>2. /\ row = <<u, "tomorrow">> /\ snapshot[c].reservation[row] = "NONE" /\ out.reads = Everything(u)
      /\ ~(Cardinality(ConfirmedTomorrow(snapshot[c])) >= snapshot[c].capacity) /\ MayBook(u, snapshot[c])
  BY <1>1 DEF Sound
<1>3. TypeOK /\ SnapshotInv /\ ResultInv /\ u \in Students
  BY TransactionsAssumption DEF TransactionsInv, TypeOK, TransactionsAssumption, AllRequests
<1>4. db.reservation[row] = "NONE"
  BY <1>2, WritesAreCurrent
<1>5. Reservation(row) \in Writes(out)
  BY DEF Writes
<1>6. ASSUME NEW v \in Students, db.reservation[<<v, "tomorrow">>] = "CONFIRMED"
      PROVE  snapshot[c].reservation[<<v, "tomorrow">>] = "CONFIRMED"
  <2> SUFFICES ASSUME NEW o \in CommittedSince(c), <<v, "tomorrow">> \in DOMAIN result[o].rows,
                      result[o].rows[<<v, "tomorrow">>] = "CONFIRMED"
               PROVE  FALSE
    <3>1. <<v, "tomorrow">> \in Slots
      BY ItemsAre DEF Days
    <3> QED BY <1>1, <1>3, <1>6, <3>1 DEF SnapshotInv
  <2>1. o \in Committed
    BY DEF CommittedSince
  <2>2. result[o].reads = Everything(request[o].student)
    BY <1>3, <2>1 DEF ResultInv, Sound
  <2>3. Reservation(row) \in result[o].reads
    BY <1>2, <1>3, <2>2 DEF Everything
  <2>4. Reservation(<<v, "tomorrow">>) \in out.reads /\ Reservation(<<v, "tomorrow">>) \in Writes(result[o])
    BY <1>2 DEF Everything, Writes
  <2> QED BY <1>5, <2>3, <2>4, NoWriteSkew
<1>7. db.account[u] # "BANNED"
  <2> SUFFICES ASSUME NEW o \in CommittedSince(c), u \in DOMAIN result[o].accounts,
                      result[o].accounts[u] = "BANNED"
               PROVE  FALSE
    BY <1>1, <1>2, <1>3 DEF SnapshotInv, MayBook
  <2>1. o \in Committed
    BY DEF CommittedSince
  <2>2. OwnRows(u) \subseteq result[o].reads
    BY <1>3, <2>1 DEF ResultInv, Sound
  <2>3. Reservation(row) \in result[o].reads
    BY <1>2, <2>2 DEF OwnRows, Days
  <2>4. Account(u) \in out.reads /\ Account(u) \in Writes(result[o])
    BY <1>2 DEF Everything, Writes
  <2> QED BY <1>5, <2>3, <2>4, NoWriteSkew
<1>8. Cardinality(ConfirmedTomorrow(db)) < highest
  <2>1. IsFiniteSet(Students) /\ highest \in Nat /\ snapshot[c].capacity \in Nat
    BY <1>1, <1>3, TransactionsAssumption DEF TypeOK, Databases, TransactionsAssumption
  <2>2. ConfirmedTomorrow(db) \subseteq ConfirmedTomorrow(snapshot[c]) /\ ConfirmedTomorrow(snapshot[c]) \subseteq Students
    BY <1>6 DEF ConfirmedTomorrow
  <2>3. /\ IsFiniteSet(ConfirmedTomorrow(snapshot[c]))
        /\ Cardinality(ConfirmedTomorrow(snapshot[c])) \in Nat
    BY <2>1, <2>2, FS_Subset, FS_CardinalityType
  <2>4. /\ Cardinality(ConfirmedTomorrow(db)) \in Nat
        /\ Cardinality(ConfirmedTomorrow(db)) <= Cardinality(ConfirmedTomorrow(snapshot[c]))
    BY <2>2, <2>3, FS_Subset, FS_CardinalityType
  <2> QED BY <1>1, <1>2, <2>1, <2>3, <2>4
<1> QED BY <1>2, <1>4, <1>7, <1>8

(* A ban takes away the seat that there is, not the one the snapshot shows. *)
LEMMA BanSeesTheSeat ==
    ASSUME TransactionsInv, NEW c \in Clients, Commit(c),
           NEW out, out = Outcome(request[c], selected[c], snapshot[c]),
           NEW u \in DOMAIN out.accounts, out.accounts[u] = "BANNED",
           db.reservation[<<u, "tomorrow">>] = "CONFIRMED"
    PROVE  snapshot[c].reservation[<<u, "tomorrow">>] = "CONFIRMED"
<1> DEFINE row == <<u, "tomorrow">>
<1>1. /\ phase[c] = "locking" /\ Sound(request[c], snapshot[c], out)
  BY CommitIs
<1>2. SnapshotInv /\ ResultInv /\ u \in Students /\ OwnRows(u) \subseteq out.reads
  BY <1>1 DEF TransactionsInv, Sound
<1>3. row \in Slots
  BY <1>2, ItemsAre DEF Days
<1> SUFFICES ASSUME NEW o \in CommittedSince(c), row \in DOMAIN result[o].rows, result[o].rows[row] = "CONFIRMED"
             PROVE  FALSE
  BY <1>1, <1>2, <1>3 DEF SnapshotInv
<1>4. o \in Committed
  BY DEF CommittedSince
<1>5. result[o].reads = Everything(request[o].student) /\ row = <<request[o].student, "tomorrow">>
  BY <1>2, <1>4 DEF ResultInv, Sound
<1>6. Account(u) \in result[o].reads /\ Account(u) \in Writes(out)
  BY <1>5 DEF Everything, Writes
<1>7. Reservation(row) \in out.reads /\ Reservation(row) \in Writes(result[o])
  BY <1>2 DEF OwnRows, Days, Writes
<1> QED BY <1>6, <1>7, NoWriteSkew

(* The instance of the register counts as this module does.                *)
LEMMA SameCardinality == \A S : Register!Cardinality(S) = Cardinality(S)
BY DEF Register!Cardinality, Cardinality

(* A commit is one step of the register, or leaves it as it is.          *)
LEMMA CommitIsRegisters ==
    ASSUME TransactionsInv, NEW c \in Clients, Commit(c)
    PROVE  Register!Next \/ UNCHANGED <<db.reservation, db.account, highest>>
<1> DEFINE d == snapshot[c]
           r == request[c]
           u == r.student
           slot == <<u, r.day>>
           today == <<u, "today">>
           out == Outcome(r, selected[c], d)
<1>1. /\ d \in Databases /\ db \in Databases /\ Sound(r, d, out)
      /\ db'.reservation = Updated(db.reservation, out.rows)
      /\ db'.account = Updated(db.account, out.accounts) /\ highest' = highest
  <2>1. highest' = highest
    BY DEF Commit
  <2> QED BY <2>1, CommitIs
<1>2. /\ DOMAIN db.reservation = Slots /\ DOMAIN db.account = Students
      /\ db.reservation = [s \in Slots |-> db.reservation[s]]
      /\ db.account = [v \in Students |-> db.account[v]]
  BY <1>1 DEF Databases
<1>3. /\ \A s \in DOMAIN out.rows : s \in Slots /\ db.reservation[s] = d.reservation[s]
      /\ \A v \in DOMAIN out.accounts : v \in Students /\ db.account[v] = d.account[v]
  BY WritesAreCurrent
<1>4. r \in AllRequests /\ u \in Students /\ slot \in Slots /\ slot[1] = u
      /\ Register!Slots = Slots /\ Register!Days = Days
      /\ today \in Slots /\ <<u, "tomorrow">> \in Slots
  BY TransactionsAssumption DEF TransactionsInv, TypeOK, TransactionsAssumption, AllRequests, Slots, Days,
     Register!Slots, Register!Days
<1>5. ASSUME NEW answer, NEW reads, out = Refused(answer, reads)
      PROVE  UNCHANGED <<db.reservation, db.account, highest>>
  BY <1>1, <1>2, <1>5 DEF Refused, NoRows, Updated
<1>6. CASE r.kind = "reserve"
  <2>1. out = Reserve(u, d)
    BY <1>6 DEF Outcome
  <2>2. CASE \E answer, reads : out = Refused(answer, reads)
    BY <1>5, <2>2
  <2>3. CASE ~\E answer, reads : out = Refused(answer, reads)
    <3> DEFINE row == <<u, "tomorrow">>
    <3>1. out.rows = Only(row, "CONFIRMED") /\ out.accounts = NoRows
      <4>1. MayBook(u, d)
        BY <2>1, <2>3 DEF Reserve
      <4>2. d.reservation[row] = "NONE"
        BY <2>1, <2>3, <4>1 DEF Reserve
      <4>3. ~(Cardinality(ConfirmedTomorrow(d)) >= d.capacity)
        BY <2>1, <2>3, <4>1, <4>2 DEF Reserve
      <4> QED BY <2>1, <4>1, <4>2, <4>3 DEF Reserve
    <3>2. row \in DOMAIN out.rows /\ out.rows[row] = "CONFIRMED"
      BY <3>1 DEF Only
    <3>3. /\ db.reservation[row] = "NONE" /\ db.account[u] # "BANNED"
          /\ Cardinality(ConfirmedTomorrow(db)) < highest
      BY <3>2, ConfirmIsRegisters
    <3>4. db'.reservation = [db.reservation EXCEPT ![row] = "CONFIRMED"] /\ db'.account = db.account
      BY <1>1, <1>2, <3>1 DEF Only, NoRows, Updated
    <3>5. Register!Seated = ConfirmedTomorrow(db)
      BY DEF Register!Seated, ConfirmedTomorrow
    <3>6. db.reservation[<<u, "tomorrow">>] = "NONE" /\ UNCHANGED <<db.account, highest>>
      BY <1>1, <3>3, <3>4
    <3>7. Register!SeatLeft
      BY <3>3, <3>5, SameCardinality DEF Register!SeatLeft
    <3>8. db'.reservation = [db.reservation EXCEPT ![<<u, "tomorrow">>] = "CONFIRMED"]
      BY <3>4
    <3> HIDE DEF row, u
    <3>9. Register!Confirm(u)
      BY <3>3, <3>6, <3>7, <3>8 DEF Register!Confirm
    <3> QED BY <1>4, <3>9 DEF Register!Next
  <2> QED BY <2>2, <2>3
<1>7. CASE r.kind \in {"cancel", "administratorCancel"}
  <2>1. CASE \E answer, reads : out = Refused(answer, reads)
    BY <1>5, <2>1
  <2>2. CASE ~\E answer, reads : out = Refused(answer, reads)
    <3>1. /\ d.reservation[slot] = "CONFIRMED" /\ out.rows = Only(slot, "CANCELLED")
          /\ out.accounts = NoRows \/ out.accounts = Only(u, "RESTRICTED")
      BY <1>4, <1>7, <2>2 DEF Outcome, Cancel, AdministratorCancel
    <3>2. db.reservation[slot] = "CONFIRMED"
      BY <1>3, <3>1 DEF Only
    <3>3. db'.reservation = [db.reservation EXCEPT ![slot] = "CANCELLED"]
      BY <1>1, <1>2, <1>4, <3>1, UpdatedOnly
    <3>4. db'.account \in {db.account, [db.account EXCEPT ![slot[1]] = "RESTRICTED"]}
      BY <1>1, <1>2, <1>4, <3>1 DEF Only, NoRows, Updated
    <3>5. Register!Cancel(slot)
      BY <1>1, <3>2, <3>3, <3>4 DEF Register!Cancel
    <3> QED BY <1>4, <3>5 DEF Register!Next
  <2> QED BY <2>1, <2>2
<1>8. CASE r.kind \in {"noShow", "ban"}
  <2>1. CASE \E answer, reads : out = Refused(answer, reads)
    BY <1>5, <2>1
  <2>2. CASE ~\E answer, reads : out = Refused(answer, reads)
    <3> DEFINE seat == <<u, "tomorrow">>
               future == FutureCancelled(u, d)
               left == [db.reservation EXCEPT ![seat] = IF db.reservation[seat] = "CONFIRMED" THEN "CANCELLED"
                                                        ELSE db.reservation[seat]]
    <3>1. /\ out.accounts = Only(u, "BANNED")
          /\ \/ out.rows = future
             \/ /\ d.reservation[today] = "CONFIRMED"
                /\ out.rows = [s \in {today} \cup DOMAIN future |-> IF s = today THEN "NO_SHOW" ELSE "CANCELLED"]
      BY <1>8, <2>2 DEF Outcome, NoShow, Ban
    <3>2. /\ DOMAIN future \subseteq {seat} /\ \A s \in DOMAIN future : future[s] = "CANCELLED"
          /\ seat \in DOMAIN future <=> db.reservation[seat] = "CONFIRMED"
      <4>1. /\ DOMAIN future \subseteq {seat}
            /\ \A s \in DOMAIN future : future[s] = "CANCELLED" /\ d.reservation[s] = "CONFIRMED"
            /\ d.reservation[seat] = "CONFIRMED" => seat \in DOMAIN future
        BY <1>1, <1>4, FutureCancelledIs
      <4>2. db.reservation[seat] = "CONFIRMED" => d.reservation[seat] = "CONFIRMED"
        BY <3>1, BanSeesTheSeat DEF Only
      <4>3. DOMAIN future \subseteq DOMAIN out.rows
        BY <3>1
      <4> QED BY <1>3, <4>1, <4>2, <4>3
    <3> HIDE DEF future
    <3>3. db'.account = [db.account EXCEPT ![u] = "BANNED"]
      BY <1>1, <1>2, <3>1 DEF Only, Updated
    <3>4. today # seat
      OBVIOUS
    <3>5. CASE out.rows = future
      <4>1. db'.reservation = left
        BY <1>1, <1>2, <3>2, <3>5 DEF Updated
      <4> QED BY <1>1, <1>4, <3>3, <4>1 DEF Register!Next, Register!Ban, Register!WithoutSeat
    <3>6. CASE /\ d.reservation[today] = "CONFIRMED"
               /\ out.rows = [s \in {today} \cup DOMAIN future |-> IF s = today THEN "NO_SHOW" ELSE "CANCELLED"]
      <4>1. db'.reservation = [left EXCEPT ![today] = "NO_SHOW"]
        <5>1. db'.reservation = [s \in Slots |-> IF s \in DOMAIN out.rows THEN out.rows[s] ELSE db.reservation[s]]
          BY <1>1, <1>2 DEF Updated
        <5>2. left = [s \in Slots |-> IF s = seat /\ db.reservation[seat] = "CONFIRMED" THEN "CANCELLED" ELSE db.reservation[s]]
          BY <1>2
        <5>3. [left EXCEPT ![today] = "NO_SHOW"] = [s \in Slots |-> IF s = today THEN "NO_SHOW" ELSE left[s]]
          BY <5>2
        <5>4. DOMAIN out.rows = {today} \cup DOMAIN future /\ out.rows[today] = "NO_SHOW"
              /\ \A s \in DOMAIN future : s # today => out.rows[s] = "CANCELLED"
          BY <3>6
        <5>5. \A s \in Slots : (IF s \in DOMAIN out.rows THEN out.rows[s] ELSE db.reservation[s])
                                = IF s = today THEN "NO_SHOW" ELSE left[s]
          BY <3>2, <3>4, <5>2, <5>4
        <5> QED BY <5>1, <5>3, <5>5
      <4>2. db.reservation[today] = "CONFIRMED"
        BY <1>3, <3>6
      <4> QED BY <1>1, <1>4, <3>3, <4>1, <4>2 DEF Register!Next, Register!Ban, Register!WithoutSeat
    <3> QED BY <3>1, <3>5, <3>6
  <2> QED BY <2>1, <2>2
<1>9. CASE r.kind = "restrict"
  <2>1. CASE \E answer, reads : out = Refused(answer, reads)
    BY <1>5, <2>1
  <2>2. CASE ~\E answer, reads : out = Refused(answer, reads)
    <3>1. d.account[u] # "BANNED" /\ out.accounts = Only(u, "RESTRICTED") /\ out.rows = NoRows
      BY <1>9, <2>2 DEF Outcome, ApplyRestriction
    <3>2. db.account[u] # "BANNED"
      BY <1>3, <3>1 DEF Only
    <3>3. db'.account = [db.account EXCEPT ![u] = "RESTRICTED"] /\ db'.reservation = db.reservation
      BY <1>1, <1>2, <3>1 DEF Only, NoRows, Updated
    <3> QED BY <1>1, <1>4, <3>2, <3>3 DEF Register!Next, Register!ApplyRestriction
  <2> QED BY <2>1, <2>2
<1>10. CASE r.kind = "release"
  <2> DEFINE some == StillLapsed(selected[c], d)
  <2>1. out.rows = NoRows /\ out.accounts = [v \in some |-> "ACTIVE"]
    BY <1>10 DEF Outcome, Release
  <2>2. some \subseteq Students /\ \A v \in some : d.account[v] = "LAPSED"
    <3>1. selected[c] \subseteq Students
      BY DEF TransactionsInv, TypeOK
    <3> QED BY <3>1 DEF StillLapsed
  <2> HIDE DEF some
  <2>3. \A v \in some : db.account[v] = "LAPSED"
    BY <1>3, <2>1, <2>2
  <2>4. /\ db'.reservation = db.reservation
        /\ db'.account = [v \in Students |-> IF v \in some THEN "ACTIVE" ELSE db.account[v]]
    BY <1>1, <1>2, <2>1, <2>2 DEF NoRows, Updated
  <2>5. Register!Release(some)
    BY <1>1, <2>3, <2>4 DEF Register!Release
  <2> QED BY <2>2, <2>5 DEF Register!Next
<1> QED BY <1>4, <1>6, <1>7, <1>8, <1>9, <1>10 DEF AllRequests, Kinds

(* Every step of the transactions is a step of the register or a         *)
(* stutter.                                                              *)
LEMMA RegisterSteps == TransactionsInv /\ [Next]_vars => [Register!Next]_(Register!vars)
<1> SUFFICES ASSUME TransactionsInv, [Next]_vars
             PROVE  Register!Next \/ UNCHANGED <<db.reservation, db.account, highest>>
  BY DEF Register!vars
<1>1. ASSUME NEW c \in Clients, Quiet(c) PROVE UNCHANGED <<db.reservation, db.account, highest>>
  BY <1>1, QuietIs
<1>2. ASSUME NEW k \in Capacities, SetCapacity(k)
      PROVE  Register!Next \/ UNCHANGED <<db.reservation, db.account, highest>>
  <2>1. db \in Databases /\ db' = [db EXCEPT !.capacity = k]
    BY <1>2 DEF TransactionsInv, TypeOK, SetCapacity
  <2>2. db'.reservation = db.reservation /\ db'.account = db.account
    BY <2>1 DEF Databases
  <2> QED BY <1>2, <2>2 DEF SetCapacity, Register!Next, Register!RaiseCapacity
<1>3. CASE UNCHANGED vars
  BY <1>3 DEF vars
<1> QED BY <1>1, <1>2, <1>3, CommitIsRegisters DEF Next, Progress, Quiet

(* The transactions, with their snapshots, locks, retries and failures,  *)
(* implement the register, whose operations are atomic.                  *)
THEOREM TransactionsImplementRegister == Spec => ImplementsRegister
<1> QED BY RegisterStarts, RegisterSteps, TransactionsAreSound, PTL DEF Spec, ImplementsRegister, Register!Spec

(* What is proved of the register, read for the tables of the database.  *)
RegisterFacts == INSTANCE SeatRegisterProofs WITH reservation <- db.reservation, account <- db.account

(* The two instances of the register say the same.                       *)
LEMMA SameSpec == Register!Spec => RegisterFacts!Spec
<1>1. Register!Init => RegisterFacts!Init
  BY DEF Register!Init, RegisterFacts!Init, Register!Slots, RegisterFacts!Slots, Register!Days, RegisterFacts!Days
<1>2. [Register!Next]_(Register!vars) => [RegisterFacts!Next]_(RegisterFacts!vars)
  <2>1. Register!Seated = RegisterFacts!Seated
    BY DEF Register!Seated, RegisterFacts!Seated
  <2>2. Register!SeatLeft = RegisterFacts!SeatLeft
    BY <2>1 DEF Register!SeatLeft, RegisterFacts!SeatLeft, Register!Cardinality, RegisterFacts!Cardinality
  <2>3. ASSUME NEW u, Register!Confirm(u) PROVE RegisterFacts!Confirm(u)
    BY <2>2, <2>3 DEF Register!Confirm, RegisterFacts!Confirm
  <2>4. ASSUME NEW u, Register!Ban(u) PROVE RegisterFacts!Ban(u)
    BY <2>4 DEF Register!Ban, RegisterFacts!Ban, Register!WithoutSeat, RegisterFacts!WithoutSeat
  <2>5. ASSUME NEW u, Register!ApplyRestriction(u) PROVE RegisterFacts!ApplyRestriction(u)
    BY <2>5 DEF Register!ApplyRestriction, RegisterFacts!ApplyRestriction
  <2>6. ASSUME NEW s, Register!Cancel(s) PROVE RegisterFacts!Cancel(s)
    BY <2>6 DEF Register!Cancel, RegisterFacts!Cancel
  <2>7. ASSUME NEW some, Register!Release(some) PROVE RegisterFacts!Release(some)
    BY <2>7 DEF Register!Release, RegisterFacts!Release
  <2>8. Register!RaiseCapacity => RegisterFacts!RaiseCapacity
    BY DEF Register!RaiseCapacity, RegisterFacts!RaiseCapacity
  <2>9. Register!vars = RegisterFacts!vars /\ Register!Slots = RegisterFacts!Slots
    BY DEF Register!vars, RegisterFacts!vars, Register!Slots, RegisterFacts!Slots, Register!Days,
       RegisterFacts!Days
  <2>10. Register!Next => RegisterFacts!Next
    <3> SUFFICES ASSUME Register!Next PROVE RegisterFacts!Next
      OBVIOUS
    <3>1. CASE \E u \in Students : Register!Confirm(u) \/ Register!Ban(u) \/ Register!ApplyRestriction(u)
      <4>1. PICK u \in Students : Register!Confirm(u) \/ Register!Ban(u) \/ Register!ApplyRestriction(u)
        BY <3>1
      <4>2. RegisterFacts!Confirm(u) \/ RegisterFacts!Ban(u) \/ RegisterFacts!ApplyRestriction(u)
        BY <2>3, <2>4, <2>5, <4>1
      <4> QED BY <4>2 DEF RegisterFacts!Next
    <3>4. CASE \E s \in Register!Slots : Register!Cancel(s)
      BY <2>6, <2>9, <3>4 DEF RegisterFacts!Next
    <3>5. CASE \E some \in SUBSET Students : Register!Release(some)
      BY <2>7, <3>5 DEF RegisterFacts!Next
    <3>6. CASE Register!RaiseCapacity
      BY <2>8, <3>6 DEF RegisterFacts!Next
    <3> QED BY <3>1, <3>4, <3>5, <3>6 DEF Register!Next
  <2> QED BY <2>10 DEF Register!vars, RegisterFacts!vars
<1> QED BY <1>1, <1>2, PTL DEF Register!Spec, RegisterFacts!Spec

(* What is assumed of the register's constants follows from what is      *)
(* assumed of these.                                                     *)
LEMMA SameAssumption == RegisterFacts!RegisterAssumption
BY TransactionsAssumption DEF RegisterFacts!RegisterAssumption, TransactionsAssumption, IsFiniteSet, RegisterFacts!IsFiniteSet

(* In the committed tables a banned student never holds a seat for       *)
(* tomorrow: a booking and a ban that race cannot both go through unseen *)
(* by each other.                                                        *)
THEOREM DatabaseBannedUnseated ==
    Spec => [](\A u \in Students : db.account[u] = "BANNED" => u \notin ConfirmedTomorrow(db))
<1>1. RegisterFacts!Spec => []RegisterFacts!BannedHaveNoSeat
  BY SameAssumption, RegisterFacts!BannedUnseated DEF RegisterFacts!RegisterAssumption
<1>2. RegisterFacts!BannedHaveNoSeat =>
        \A u \in Students : db.account[u] = "BANNED" => u \notin ConfirmedTomorrow(db)
  <2>1. RegisterFacts!Seated = ConfirmedTomorrow(db)
    BY DEF RegisterFacts!Seated, ConfirmedTomorrow
  <2> QED BY <2>1 DEF RegisterFacts!BannedHaveNoSeat
<1> QED BY <1>1, <1>2, SameSpec, TransactionsImplementRegister, PTL DEF ImplementsRegister

==============================================================================
