------------------------------- MODULE Wallet -------------------------------
(***************************************************************************)
(* wallet-service: the wallets and wallet_transactions tables and the      *)
(* handlers that move money.  A credit or debit is one database            *)
(* transaction that locks the wallet's row (SELECT ... FOR UPDATE), so it  *)
(* takes two steps here: lock and read, then write and commit.  A handler  *)
(* is a chain of such transactions, its phase saying which one it is at.   *)
(***************************************************************************)
EXTENDS Integers, Sequences, FiniteSets

CONSTANTS Users,
          Reqs,       \* slots for handlers in flight
          Refs,       \* reference ids of the moves
          Amounts,    \* amounts a request may name, of either sign
          None,
          Faults      \* which of "db", "ack", "crash" may happen

ASSUME WalletAssumption ==
    /\ Amounts \subseteq Int
    /\ None \notin Reqs \cup Users \cup Refs
    /\ Faults \subseteq {"db", "ack", "crash"}

VARIABLES created,   \* users that have a wallet row
          balance,   \* wallets.balance
          ledger,    \* wallet_transactions of each wallet, in insertion order
          lock,      \* which slot holds the row lock of a wallet
          req,       \* req[r]: the handler in slot r
          usedRefs,  \* references handed out to transfers and top-ups (uuid.New)
          critical,  \* transfers whose rollback was logged as CRITICAL
          died       \* references of the handlers that died with the process
vars == <<created, balance, ledger, lock, req, usedRefs, critical, died>>

Phases == {"idle", "open", "topup", "make", "topupAgain", "debit",
           "send", "lookup", "create", "receive", "rollback"}
Row == [type : Phases, amount : Int, balance_after : Int, ref : Refs]
Idle == [phase |-> "idle", locked |-> FALSE, user |-> None, peer |-> None, amount |-> 0,
         ref |-> None, seen |-> 0]
Requests == [phase : Phases, locked : BOOLEAN, user : Users \cup {None},
             peer : Users \cup {None}, amount : Amounts \cup {0},
             ref : Refs \cup {None}, seen : Int]

TypeOK == /\ created \subseteq Users
          /\ balance \in [Users -> Int]
          /\ ledger \in [Users -> Seq(Row)]
          /\ lock \in [Users -> Reqs \cup {None}]
          /\ req \in [Reqs -> Requests]
          /\ usedRefs \subseteq Refs /\ critical \subseteq Refs /\ died \subseteq Refs

Init == /\ created = {} /\ usedRefs = {} /\ critical = {} /\ died = {}
        /\ balance = [u \in Users |-> 0]
        /\ ledger = [u \in Users |-> <<>>]
        /\ lock = [u \in Users |-> None]
        /\ req = [r \in Reqs |-> Idle]

-----------------------------------------------------------------------------
(* A handler arrives. *)

Start(r, phase, u, p, a, f) ==
    /\ req[r] = Idle
    /\ req' = [req EXCEPT ![r] = [phase |-> phase, locked |-> FALSE, user |-> u, peer |-> p,
                                  amount |-> a, ref |-> f, seen |-> 0]]

GetBalance(r, u) == /\ u \notin created
                    /\ Start(r, "open", u, None, 0, None)
                    /\ UNCHANGED <<created, balance, ledger, lock, usedRefs, critical, died>>

(* Neither TopUp nor Debit looks at the sign of the amount; a transfer has a
   minimum. *)
TopUp(r, u, a, f) == /\ f \notin usedRefs /\ usedRefs' = usedRefs \cup {f}
                     /\ Start(r, "topup", u, None, a, f)
                     /\ UNCHANGED <<created, balance, ledger, lock, critical, died>>

(* The caller names the reference, and may send the same one again. *)
Debit(r, u, a, f) == /\ usedRefs' = usedRefs \cup {f}
                     /\ Start(r, "debit", u, None, a, f)
                     /\ UNCHANGED <<created, balance, ledger, lock, critical, died>>

Transfer(r, u, p, a, f) == /\ u # p /\ a > 0
                           /\ f \notin usedRefs /\ usedRefs' = usedRefs \cup {f}
                           /\ Start(r, "send", u, p, a, f)
                           /\ UNCHANGED <<created, balance, ledger, lock, critical, died>>

-----------------------------------------------------------------------------
(* The database transaction of CreditWallet and DebitWallet. *)

TxPhases == {"topup", "topupAgain", "debit", "send", "receive", "rollback"}
Debits == {"debit", "send"}
Wallet(q) == IF q.phase = "receive" THEN q.peer ELSE q.user
Delta(q)  == IF q.phase \in Debits THEN -q.amount ELSE q.amount

Goto(r, phase) == req' = [req EXCEPT ![r].phase = phase, ![r].locked = FALSE]
End(r)         == req' = [req EXCEPT ![r] = Idle]

(* Mutants: a credit that fails is not given back; a debit that fails is. *)
FailQuietly(r) == End(r)
FailGivesBack(r) == IF req[r].phase \in {"send", "receive"} THEN Goto(r, "rollback") ELSE End(r)

(* What the service does when the repository call succeeded or failed. *)
Succeed(r) == IF req[r].phase = "send" THEN Goto(r, "lookup") ELSE End(r)
Fail(r) == IF req[r].phase = "receive" THEN Goto(r, "rollback") ELSE End(r)
Critical(r) == IF req[r].phase = "rollback" THEN critical \cup {req[r].ref} ELSE critical

(* Mutant: SELECT without FOR UPDATE. *)
ReadAnyway(w) == TRUE
RowFree(w) == lock[w] = None

Lock(r) ==
    LET w == Wallet(req[r]) IN
    /\ req[r].phase \in TxPhases /\ ~req[r].locked
    /\ w \in created /\ RowFree(w)
    /\ lock' = [lock EXCEPT ![w] = r]
    /\ req' = [req EXCEPT ![r].locked = TRUE, ![r].seen = balance[w]]
    /\ UNCHANGED <<created, balance, ledger, usedRefs, critical, died>>

(* ErrWalletNotFound: a top-up goes on to create the wallet. *)
NotFound(r) ==
    /\ req[r].phase \in TxPhases /\ ~req[r].locked
    /\ Wallet(req[r]) \notin created
    /\ IF req[r].phase = "topup" THEN Goto(r, "make") ELSE Fail(r)
    /\ critical' = Critical(r)
    /\ UNCHANGED <<created, balance, ledger, lock, usedRefs, died>>

(* Mutant: the balance is checked for a debit, not for a transfer. *)
InsufficientForDebit(q) == q.phase = "debit" /\ q.seen < q.amount
Insufficient(q) == q.phase \in Debits /\ q.seen < q.amount

(* UPDATE, INSERT and COMMIT; the acknowledgement of the commit may be lost. *)
Commit(r) ==
    LET q == req[r]
        w == Wallet(q)
        after == q.seen + Delta(q) IN
    /\ q.locked /\ ~Insufficient(q)
    /\ balance' = [balance EXCEPT ![w] = after]
    /\ ledger' = [ledger EXCEPT ![w] =
                    Append(@, [type |-> q.phase, amount |-> Delta(q),
                               balance_after |-> after, ref |-> q.ref])]
    /\ lock' = [lock EXCEPT ![w] = None]
    /\ \/ Succeed(r) /\ UNCHANGED critical
       \/ "ack" \in Faults /\ Fail(r) /\ critical' = Critical(r)
    /\ UNCHANGED <<created, usedRefs, died>>

(* ErrInsufficientBalance, or a statement that failed: rolled back. *)
Rollback(r) ==
    /\ req[r].phase \in TxPhases
    /\ \/ req[r].locked /\ Insufficient(req[r])
       \/ "db" \in Faults
    /\ lock' = IF req[r].locked THEN [lock EXCEPT ![Wallet(req[r])] = None] ELSE lock
    /\ Fail(r)
    /\ critical' = Critical(r)
    /\ UNCHANGED <<created, balance, ledger, usedRefs, died>>

(* Transfer looks for the receiver's wallet; any other error of the lookup
   is not looked at. *)
LookupReceiver(r) ==
    /\ req[r].phase = "lookup"
    /\ \/ req[r].peer \in created /\ Goto(r, "receive")
       \/ req[r].peer \notin created /\ Goto(r, "create")
       \/ "db" \in Faults /\ Goto(r, "receive")
    /\ UNCHANGED <<created, balance, ledger, lock, usedRefs, critical, died>>

(* CreateWallet of GetBalance, TopUp and Transfer.  user_id is unique: when
   another handler was first the insert fails, which only Transfer survives. *)
CreateWallet(r) ==
    LET q == req[r]
        w == IF q.phase = "create" THEN q.peer ELSE q.user IN
    /\ q.phase \in {"open", "make", "create"}
    /\ \/ /\ w \notin created /\ created' = created \cup {w}
          /\ CASE q.phase = "open"   -> End(r)
               [] q.phase = "make"   -> Goto(r, "topupAgain")
               [] q.phase = "create" -> Goto(r, "receive")
       \/ /\ w \in created \/ "db" \in Faults
          /\ UNCHANGED created
          /\ IF q.phase = "create" THEN Goto(r, "receive") ELSE End(r)
    /\ UNCHANGED <<balance, ledger, lock, usedRefs, critical, died>>

(* The process dies: the database rolls back and releases every lock. *)
Crash ==
    /\ "crash" \in Faults
    /\ req' = [r \in Reqs |-> Idle] /\ lock' = [u \in Users |-> None]
    /\ died' = died \cup ({req[r].ref : r \in Reqs} \cap Refs)
    /\ UNCHANGED <<created, balance, ledger, usedRefs, critical>>

-----------------------------------------------------------------------------
Arrive(r) == \E u \in Users :
    \/ GetBalance(r, u)
    \/ \E a \in Amounts, f \in Refs : \/ TopUp(r, u, a, f) \/ Debit(r, u, a, f)
                                      \/ \E p \in Users : Transfer(r, u, p, a, f)
Handle(r) == \/ Lock(r) \/ NotFound(r) \/ Commit(r) \/ Rollback(r)
             \/ LookupReceiver(r) \/ CreateWallet(r)
Next == (\E r \in Reqs : Arrive(r) \/ Handle(r)) \/ Crash
Spec == Init /\ [][Next]_vars

-----------------------------------------------------------------------------
(* Properties *)

(* Every ledger row carries on from the one before, and the balance is what  *)
(* the last row says, whatever handlers run at the same time.                *)
LedgerChain ==
    \A u \in Users : LET n == Len(ledger[u]) IN
      /\ balance[u] = IF n = 0 THEN 0 ELSE ledger[u][n].balance_after
      /\ \A i \in 1..n : ledger[u][i].balance_after =
            ledger[u][i].amount + IF i = 1 THEN 0 ELSE ledger[u][i - 1].balance_after

(* No debit or transfer leaves a wallet below zero, not even two at once.    *)
(* The one thing that takes a wallet below zero is a top-up of a negative    *)
(* amount, which no handler refuses (openapi.yaml says at least 10000); an   *)
(* overdrawn wallet stays below zero only through credits that do not fill   *)
(* it.                                                                       *)
NoOverdraft ==
    \A u \in Users : \A i \in DOMAIN ledger[u] : LET row == ledger[u][i] IN
      row.balance_after < 0 =>
        /\ row.type \notin Debits
        /\ \/ row.type \in {"topup", "topupAgain"} /\ row.amount < 0
           \/ i > 1 /\ ledger[u][i - 1].balance_after < 0

Rows(f, types) == UNION {{<<u, i>> : i \in {j \in DOMAIN ledger[u] :
                             ledger[u][j].ref = f /\ ledger[u][j].type \in types}} : u \in Users}
InFlight(f) == \E r \in Reqs : req[r].ref = f

(* The inductive invariant: the slot that locked a wallet is the only one to *)
(* write it, so what it read is the balance until it commits.                *)
LockOK(r) ==
    LET q == req[r] IN
    /\ q.phase # "idle" => q.user \in Users
    /\ q.phase \in {"send", "lookup", "create", "receive", "rollback"} => q.peer \in Users
    /\ q.phase \in TxPhases => q.amount \in Amounts /\ q.ref \in Refs
    /\ q.phase \in {"send", "lookup", "create", "receive", "rollback"} => q.amount > 0
    /\ q.phase \in {"make", "lookup", "create"} => q.amount \in Amounts /\ q.ref \in Refs
    /\ q.locked => /\ q.phase \in TxPhases
                   /\ lock[Wallet(q)] = r /\ q.seen = balance[Wallet(q)]
LockHeld == \A u \in Users : lock[u] # None =>
                 req[lock[u]].locked /\ Wallet(req[lock[u]]) = u
IInv == TypeOK /\ (\A r \in Reqs : LockOK(r)) /\ LockHeld /\ LedgerChain /\ NoOverdraft

(* Unless its handler died or the answer to a commit is lost, a transfer      *)
(* that took the sender's money gave it to the receiver or gave it back, not *)
(* both, or logged that it could not, whatever dies beside it.               *)
TransferSettled ==
    "ack" \notin Faults =>
      \A f \in Refs \ died : Rows(f, {"send"}) # {} /\ ~InFlight(f) =>
        Cardinality(Rows(f, {"receive", "rollback"})) = IF f \in critical THEN 0 ELSE 1

(* Even when the process may die, nobody is paid for a debit that did not    *)
(* commit, and no transfer pays twice.                                       *)
TransferBacked ==
    "ack" \notin Faults =>
      \A f \in Refs : Cardinality(Rows(f, {"receive", "rollback"}))
                        <= Cardinality(Rows(f, {"send"}))

(* Claim of openapi.yaml, /internal/wallet/debit: "Idempotent": one debit    *)
(* for one key.                                                              *)
DebitIdempotent == \A f \in Refs : Cardinality(Rows(f, {"debit"})) <= 1
=============================================================================
