---------------------- MODULE MCReservationTransactions ----------------------
(* Small instances of ReservationTransactions. *)
EXTENDS ReservationTransactions, TLC

CONSTANTS u1, u2, u3

MCReservesOnly == [kind : {"reserve"}, student : Students, day : {"tomorrow"}]
MCLockingRequests ==
    MCReservesOnly \cup [kind : {"release"}, student : {u1}, day : {"tomorrow"}]

-----------------------------------------------------------------------------
(* Three clients compete for tomorrow's seats while the capacity changes, or *)
(* three of them treat one student's rows and account.                       *)
MCSeatRequests ==
    MCReservesOnly \cup [kind : {"cancel", "ban"}, student : {u1}, day : {"tomorrow"}]
MCStudentRequests ==
    [kind : {"reserve", "ban", "restrict", "release"}, student : {u1}, day : {"tomorrow"}]
      \cup [kind : {"noShow"}, student : {u1}, day : {"today"}]
      \cup [kind : {"cancel", "administratorCancel"}, student : {u1}, day : Days]
MCRequests == MCSeatRequests \cup MCStudentRequests

MCCompete == \A c \in Clients : request[c] \in MCSeatRequests
MCTreatOne == \A c \in Clients : request[c] \in MCStudentRequests

MCInit == Init /\ (MCCompete \/ MCTreatOne)
MCSpec == MCInit /\ [][Next]_vars
MCBound == MCCompete \/ db.capacity = InitialCapacity
MCClientSymmetry == Permutations(Clients)
=============================================================================
