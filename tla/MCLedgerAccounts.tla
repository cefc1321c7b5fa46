--------------------------- MODULE MCLedgerAccounts ---------------------------
(* The ledger, and the accounts its students log in with, in one run.  A     *)
(* behaviour is one of one of them, its focus; the other stays as it began,  *)
(* so that the states add up and do not multiply, and every property is the  *)
(* one of its own module.                                                    *)
EXTENDS MCReservationLedger, AccountSessions

VARIABLE focus
parts == {"ledger", "accounts"}

MCSymmetry == Permutations(Accounts) \cup Permutations(People) \cup Permutations(Numbers)

\* Out of focus, a part is in one of the states it may begin in.
MCInit ==
    /\ focus \in parts
    /\ Init /\ AccountsInit
    /\ focus # "accounts" =>
         /\ \E a \in Accounts : user[a].row /\ user[a].riro = Nobody /\ a = CHOOSE b \in Accounts : TRUE
         /\ numberOf = CHOOSE f \in [People -> Numbers] : \A p, q \in People : p # q => f[p] # f[q]
         /\ \A a \in Accounts : user[a].row => user[a].number = CHOOSE n \in Numbers : TRUE

MCNext ==
    \/ focus = "ledger" /\ Next /\ UNCHANGED <<focus, accountVars>>
    \/ focus = "accounts" /\ AccountsNext /\ UNCHANGED <<focus, vars>>

MCSpec == MCInit /\ [][MCNext]_<<focus, vars, accountVars>>
=============================================================================
