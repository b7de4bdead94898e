---------------------------- MODULE WalletProofs ----------------------------
(***************************************************************************)
(* Proofs about Wallet for every value of its constants: the row lock is   *)
(* exclusive, so the ledger is an unbroken chain that ends in the balance, *)
(* and no debit overdraws a wallet.  Then about its transfers: as long as  *)
(* answers of commits arrive, nobody is paid for a debit that did not      *)
(* commit, and a transfer whose handler lives pays or gives back.          *)
(***************************************************************************)
EXTENDS Wallet, FiniteSetTheorems, TLAPS

LEMMA IdleSlot == Idle \in Requests /\ Idle.phase = "idle" /\ Idle.locked = FALSE
  BY DEF Idle, Requests, Phases

LEMMA InitIInv == Init => IInv
  BY IdleSlot, WalletAssumption
  DEF Init, IInv, TypeOK, LockOK, LockHeld, LedgerChain, NoOverdraft, TxPhases, Row

(* A handler arrives in an idle slot. *)
LEMMA ArriveStep ==
  ASSUME IInv, NEW r \in Reqs, NEW q \in Requests,
         req[r] = Idle, req' = [req EXCEPT ![r] = q], ~q.locked, q.user \in Users,
         q.phase \in {"send", "lookup", "create", "receive", "rollback"} => q.peer \in Users,
         q.phase \in {"send", "lookup", "create", "receive", "rollback"} => q.amount > 0,
         q.phase # "open" => q.amount \in Amounts /\ q.ref \in Refs,
         usedRefs' \subseteq Refs,
         UNCHANGED <<created, balance, ledger, lock, critical, died>>
  PROVE  IInv'
  <1> USE DEF IInv
  <1>1. TypeOK'
    BY DEF TypeOK
  <1>2. \A s \in Reqs : LockOK(s)'
    BY DEF TypeOK, LockOK, Wallet, TxPhases
  <1>3. LockHeld'
    BY IdleSlot, WalletAssumption DEF TypeOK, LockHeld, Wallet
  <1>4. LedgerChain' /\ NoOverdraft'
    BY DEF LedgerChain, NoOverdraft
  <1> QED
    BY <1>1, <1>2, <1>3, <1>4

(* A slot that holds no lock moves to another phase or ends, and no lock or  *)
(* ledger changes.                                                           *)
LEMMA UnlockedStep ==
  ASSUME IInv, NEW r \in Reqs, NEW q \in Requests,
         ~req[r].locked, req' = [req EXCEPT ![r] = q], ~q.locked,
         \/ q = Idle
         \/ /\ req[r].phase # "idle" /\ req[r].phase # "open"
            /\ q.user = req[r].user /\ q.peer = req[r].peer /\ q.amount = req[r].amount
            /\ q.ref = req[r].ref
            /\ \/ q.phase \in {"make", "topupAgain"}
               \/ /\ q.phase \in {"lookup", "create", "receive", "rollback"}
                  /\ req[r].phase \in {"send", "lookup", "create", "receive"},
         created' \subseteq Users, critical' \subseteq Refs,
         UNCHANGED <<balance, ledger, lock, usedRefs, died>>
  PROVE  IInv'
  <1> USE DEF IInv
  <1>1. TypeOK'
    BY DEF TypeOK
  <1>2. \A s \in Reqs : LockOK(s)'
    <2>1. \A s \in Reqs \ {r} : LockOK(s)'
      BY DEF TypeOK, LockOK, Wallet, TxPhases
    <2>2. LockOK(r)'
      BY IdleSlot DEF TypeOK, LockOK, Wallet, TxPhases, Requests, Phases
    <2> QED
      BY <2>1, <2>2
  <1>3. LockHeld'
    BY WalletAssumption DEF TypeOK, LockHeld, Wallet
  <1>4. LedgerChain' /\ NoOverdraft'
    BY DEF LedgerChain, NoOverdraft
  <1> QED
    BY <1>1, <1>2, <1>3, <1>4

(* What a handler does next, after its transaction succeeded or failed.      *)
LEMMA NextPhase ==
  ASSUME IInv, NEW r \in Reqs, req[r].phase \in TxPhases, Succeed(r) \/ Fail(r)
  PROVE  \E q \in Requests :
           /\ req' = [req EXCEPT ![r] = q] /\ ~q.locked
           /\ \/ q = Idle
              \/ /\ q.user = req[r].user /\ q.peer = req[r].peer /\ q.amount = req[r].amount
                 /\ q.ref = req[r].ref /\ q.phase \in {"lookup", "receive", "rollback"}
                 /\ req[r].phase \in {"send", "receive"}
  <1> USE DEF IInv
  <1>1. CASE End(r)
    BY <1>1, IdleSlot DEF End
  <1>2. CASE \E x \in {"lookup", "rollback"} : Goto(r, x) /\ req[r].phase \in {"send", "receive"}
    <2> PICK x \in {"lookup", "rollback"} : Goto(r, x) /\ req[r].phase \in {"send", "receive"}
      BY <1>2
    <2> DEFINE q == [req[r] EXCEPT !.phase = x, !.locked = FALSE]
    <2>1. /\ q \in Requests /\ q.phase = x /\ ~q.locked /\ q.user = req[r].user
          /\ q.peer = req[r].peer /\ q.amount = req[r].amount /\ q.ref = req[r].ref
      BY DEF TypeOK, Requests, Phases
    <2>2. req' = [req EXCEPT ![r] = q]
      BY DEF Goto, TypeOK, Requests
    <2> QED
      BY <2>1, <2>2
  <1> QED
    BY <1>1, <1>2 DEF Succeed, Fail

(* The slot that holds a lock writes at most its own wallet and lets go.     *)
LEMMA ReleaseStep ==
  ASSUME IInv, NEW r \in Reqs, req[r].locked, Succeed(r) \/ Fail(r),
         NEW w, w = Wallet(req[r]),
         lock' = [lock EXCEPT ![w] = None],
         \A u \in Users \ {w} : balance'[u] = balance[u],
         balance' \in [Users -> Int], ledger' \in [Users -> Seq(Row)],
         LedgerChain', NoOverdraft', critical' \subseteq Refs,
         UNCHANGED <<created, usedRefs, died>>
  PROVE  IInv'
  <1> USE DEF IInv
  <1>1. /\ req[r].phase \in TxPhases /\ lock[w] = r /\ w \in Users
        /\ req[r].amount \in Amounts /\ req[r].ref \in Refs
    BY DEF LockOK, Wallet, TypeOK, TxPhases
  <1>2. PICK q \in Requests :
           /\ req' = [req EXCEPT ![r] = q] /\ ~q.locked
           /\ \/ q = Idle
              \/ /\ q.user = req[r].user /\ q.peer = req[r].peer /\ q.amount = req[r].amount
                 /\ q.ref = req[r].ref /\ q.phase \in {"lookup", "receive", "rollback"}
                 /\ req[r].phase \in {"send", "receive"}
    BY <1>1, NextPhase
  <1>3. TypeOK'
    BY <1>1, <1>2 DEF TypeOK
  <1>4. \A s \in Reqs : LockOK(s)'
    <2>1. ASSUME NEW s \in Reqs, s # r PROVE LockOK(s)'
      <3>1. req'[s] = req[s] /\ LockOK(s)
        BY <2>1, <1>2 DEF TypeOK
      <3>2. req[s].locked => lock[Wallet(req[s])] = s
        BY <3>1 DEF LockOK
      <3>3. req[s].locked => Wallet(req[s]) # w
        BY <2>1, <1>1, <3>2
      <3>4. req[s].locked => Wallet(req[s]) \in Users
        BY <3>1 DEF LockOK, Wallet, TxPhases
      <3> QED
        BY <3>1, <3>3, <3>4, <1>1 DEF LockOK, Wallet, TypeOK
    <2>2. LockOK(r)'
      BY <1>1, <1>2, IdleSlot DEF TypeOK, LockOK, Wallet, TxPhases
    <2> QED
      BY <2>1, <2>2
  <1>5. LockHeld'
    <2> SUFFICES ASSUME NEW u \in Users, lock'[u] # None
                 PROVE  req'[lock'[u]].locked /\ Wallet(req'[lock'[u]]) = u
      BY DEF LockHeld, Wallet
    <2>1. u # w /\ lock'[u] = lock[u] /\ lock[u] # r
      BY <1>1 DEF TypeOK, LockHeld
    <2> QED
      BY <2>1, <1>2 DEF TypeOK, LockHeld
  <1> QED
    BY <1>3, <1>4, <1>5

LEMMA LockStep ==
  ASSUME IInv, NEW r \in Reqs, Lock(r)
  PROVE  IInv'
  <1> DEFINE w == Wallet(req[r])
             q == [req[r] EXCEPT !.locked = TRUE, !.seen = balance[w]]
  <1> USE DEF IInv
  <1>1. /\ w \in Users /\ lock[w] = None /\ ~req[r].locked /\ req[r].phase \in TxPhases
        /\ lock' = [lock EXCEPT ![w] = r]
        /\ UNCHANGED <<created, balance, ledger, usedRefs, critical, died>>
    BY DEF Lock, RowFree, TypeOK
  <1>2. /\ q \in Requests /\ q.locked /\ q.seen = balance[w] /\ q.user = req[r].user
        /\ q.peer = req[r].peer /\ q.phase = req[r].phase /\ q.amount = req[r].amount
        /\ q.ref = req[r].ref
    BY <1>1 DEF TypeOK, Requests
  <1>3. req' = [req EXCEPT ![r] = q]
    BY DEF Lock, RowFree, TypeOK, Requests
  <1>4. Wallet(q) = w
    BY <1>2 DEF Wallet
  <1> HIDE DEF q, w
  <1>5. TypeOK'
    BY <1>1, <1>2, <1>3 DEF TypeOK
  <1>6. \A s \in Reqs : LockOK(s)'
    <2>1. ASSUME NEW s \in Reqs, s # r PROVE LockOK(s)'
      <3>1. req'[s] = req[s] /\ LockOK(s)
        BY <2>1, <1>3 DEF TypeOK
      <3>2. req[s].locked => Wallet(req[s]) # w
        BY <1>1, WalletAssumption DEF LockOK
      <3> QED
        BY <3>1, <3>2, <1>1 DEF LockOK, Wallet, TypeOK
    <2>2. LockOK(r)'
      BY <1>1, <1>2, <1>3, <1>4 DEF TypeOK, LockOK, Wallet
    <2> QED
      BY <2>1, <2>2
  <1>7. LockHeld'
    BY <1>1, <1>2, <1>3, <1>4, WalletAssumption DEF TypeOK, LockHeld, Wallet
  <1>8. LedgerChain' /\ NoOverdraft'
    BY <1>1 DEF LedgerChain, NoOverdraft
  <1> QED
    BY <1>5, <1>6, <1>7, <1>8

LEMMA CommitStep ==
  ASSUME IInv, NEW r \in Reqs, Commit(r)
  PROVE  IInv'
  <1> DEFINE w == Wallet(req[r])
             after == req[r].seen + Delta(req[r])
             row == [type |-> req[r].phase, amount |-> Delta(req[r]),
                     balance_after |-> after, ref |-> req[r].ref]
  <1> USE DEF IInv
  <1>1. /\ req[r].locked /\ ~Insufficient(req[r])
        /\ balance' = [balance EXCEPT ![w] = after]
        /\ ledger' = [ledger EXCEPT ![w] = Append(ledger[w], row)]
        /\ lock' = [lock EXCEPT ![w] = None]
        /\ Succeed(r) \/ Fail(r)
        /\ UNCHANGED <<created, usedRefs, died>>
    BY DEF Commit
  <1>2. /\ req[r] \in Requests /\ req[r].phase \in TxPhases /\ req[r].amount \in Amounts
        /\ req[r].ref \in Refs /\ w \in Users /\ req[r].seen = balance[w]
    BY <1>1 DEF LockOK, TypeOK, TxPhases, Wallet
  <1>3. /\ Delta(req[r]) \in Int /\ after \in Int
        /\ balance[w] \in Int /\ after = balance[w] + Delta(req[r])
    <2>1. /\ balance[w] \in Int /\ req[r].amount \in Int
          /\ after = balance[w] + Delta(req[r])
      BY <1>2, WalletAssumption DEF TypeOK
    <2> QED
      BY <2>1 DEF Delta
  <1>3a. after < 0 => /\ req[r].phase \notin Debits
                      /\ \/ req[r].phase \in {"topup", "topupAgain"} /\ Delta(req[r]) < 0
                         \/ balance[w] < 0
    <2>1. req[r].amount \in Int
      BY <1>2, WalletAssumption
    <2>2. CASE req[r].phase \in Debits
      <3>1. Delta(req[r]) = -req[r].amount /\ ~(balance[w] < req[r].amount)
        BY <1>1, <1>2, <2>2 DEF Delta, Insufficient
      <3> QED
        BY <1>3, <2>1, <3>1
    <2>3. CASE req[r].phase \in {"topup", "topupAgain"}
      <3>1. req[r].phase \notin Debits
        BY <2>3 DEF Debits
      <3> QED
        BY <1>3, <2>3, <3>1
    <2>4. CASE req[r].phase \in {"receive", "rollback"}
      <3>1. Delta(req[r]) = req[r].amount /\ req[r].amount > 0 /\ req[r].phase \notin Debits
        BY <2>4 DEF Delta, Debits, LockOK
      <3> QED
        BY <1>3, <2>1, <3>1
    <2> QED
      BY <1>2, <2>2, <2>3, <2>4 DEF TxPhases, Debits
  <1>4. row \in Row
    BY <1>2, <1>3 DEF Row, Requests
  <1>5. critical' \subseteq Refs
    BY <1>2 DEF Commit, Critical, TypeOK
  <1> HIDE DEF w, after
  <1>6. balance' \in [Users -> Int] /\ ledger' \in [Users -> Seq(Row)]
    BY <1>1, <1>2, <1>3, <1>4 DEF TypeOK
  <1>7. ASSUME NEW u \in Users
        PROVE  LET n == Len(ledger'[u]) IN
               /\ balance'[u] = IF n = 0 THEN 0 ELSE ledger'[u][n].balance_after
               /\ \A i \in 1..n : ledger'[u][i].balance_after =
                     ledger'[u][i].amount + IF i = 1 THEN 0 ELSE ledger'[u][i - 1].balance_after
    <2>1. CASE u # w
      BY <1>1, <2>1 DEF TypeOK, LedgerChain
    <2>2. CASE u = w
      <3> DEFINE n == Len(ledger[w])
      <3>1. /\ n \in Nat /\ ledger'[w] = Append(ledger[w], row) /\ Len(ledger'[w]) = n + 1
            /\ ledger'[w][n + 1] = row /\ \A i \in 1..n : ledger'[w][i] = ledger[w][i]
        BY <1>1, <1>2, <1>4 DEF TypeOK
      <3>2. row.balance_after = after /\ row.amount = Delta(req[r]) /\ balance'[w] = after
        BY <1>1, <1>2 DEF TypeOK
      <3>3. balance[w] = IF n = 0 THEN 0 ELSE ledger[w][n].balance_after
        BY <1>2 DEF LedgerChain
      <3>4. \A i \in 1..n : ledger[w][i].balance_after =
               ledger[w][i].amount + IF i = 1 THEN 0 ELSE ledger[w][i - 1].balance_after
        BY <1>2 DEF LedgerChain
      <3> HIDE DEF n, row
      <3>5. ASSUME NEW i \in 1..(n + 1)
            PROVE  ledger'[w][i].balance_after =
                     ledger'[w][i].amount + IF i = 1 THEN 0 ELSE ledger'[w][i - 1].balance_after
        <4>1. CASE i = n + 1
          BY <4>1, <3>1, <3>2, <3>3, <1>3
        <4>2. CASE i # n + 1
          BY <4>2, <3>1, <3>4
        <4> QED
          BY <4>1, <4>2
      <3> QED
        BY <2>2, <3>1, <3>2, <3>5
    <2> QED
      BY <2>1, <2>2
  <1>8. LedgerChain'
    BY <1>7 DEF LedgerChain
  <1>9. NoOverdraft'
    <2> SUFFICES ASSUME NEW u \in Users, NEW i \in DOMAIN ledger'[u],
                        ledger'[u][i].balance_after < 0
                 PROVE  /\ ledger'[u][i].type \notin Debits
                        /\ \/ /\ ledger'[u][i].type \in {"topup", "topupAgain"}
                              /\ ledger'[u][i].amount < 0
                           \/ i > 1 /\ ledger'[u][i - 1].balance_after < 0
      BY DEF NoOverdraft
    <2>1. CASE u # w
      BY <1>1, <2>1 DEF TypeOK, NoOverdraft
    <2>2. CASE u = w
      <3> DEFINE n == Len(ledger[w])
      <3>1. /\ n \in Nat /\ DOMAIN ledger'[w] = 1..(n + 1)
            /\ ledger'[w][n + 1] = row /\ \A j \in 1..n : ledger'[w][j] = ledger[w][j]
            /\ DOMAIN ledger[w] = 1..n
        BY <1>1, <1>2, <1>4 DEF TypeOK
      <3>2. row.balance_after = after /\ row.amount = Delta(req[r]) /\ row.type = req[r].phase
        OBVIOUS
      <3>3. balance[w] = IF n = 0 THEN 0 ELSE ledger[w][n].balance_after
        BY <1>2 DEF LedgerChain
      <3> HIDE DEF n, row
      <3>4. CASE i = n + 1
        BY <2>2, <3>1, <3>2, <3>3, <3>4, <1>3, <1>3a
      <3>5. CASE i # n + 1
        <4>1. i \in 1..n /\ ledger'[w][i] = ledger[w][i]
              /\ (i > 1 => ledger'[w][i - 1] = ledger[w][i - 1])
          BY <2>2, <3>1, <3>5
        <4> QED
          BY <1>2, <2>2, <3>1, <4>1 DEF NoOverdraft
      <3> QED
        BY <3>4, <3>5
    <2> QED
      BY <2>1, <2>2
  <1>10. \A u \in Users \ {w} : balance'[u] = balance[u]
    BY <1>1 DEF TypeOK
  <1> HIDE DEF IInv
  <1> QED
    BY <1>1, <1>5, <1>6, <1>8, <1>9, <1>10, ReleaseStep DEF w

LEMMA RollbackStep ==
  ASSUME IInv, NEW r \in Reqs, Rollback(r)
  PROVE  IInv'
  <1>1. critical' \subseteq Refs /\ req[r].phase \in TxPhases
    BY DEF Rollback, Critical, IInv, TypeOK, LockOK
  <1>2. CASE req[r].locked
    BY <1>1, <1>2, ReleaseStep DEF Rollback, IInv, TypeOK, LedgerChain, NoOverdraft
  <1>3. CASE ~req[r].locked
    BY <1>1, <1>3, NextPhase, UnlockedStep DEF Rollback, IInv, TypeOK, TxPhases
  <1> QED
    BY <1>2, <1>3

(* The handler that an arriving request starts.                              *)
LEMMA NewRequest ==
  ASSUME NEW x \in Phases, NEW u \in Users, NEW p \in Users \cup {None},
         NEW a \in Amounts \cup {0}, NEW f \in Refs \cup {None}
  PROVE  LET q == [phase |-> x, locked |-> FALSE, user |-> u, peer |-> p, amount |-> a,
                   ref |-> f, seen |-> 0] IN
         /\ q \in Requests /\ q.phase = x /\ q.user = u /\ q.peer = p /\ q.amount = a
         /\ q.ref = f /\ ~q.locked
  BY DEF Requests

LEMMA HandlerStep ==
  ASSUME IInv, NEW r \in Reqs,
         Arrive(r) \/ NotFound(r) \/ LookupReceiver(r) \/ CreateWallet(r)
  PROVE  IInv'
  <1> USE DEF IInv
  <1>1. CASE Arrive(r)
    <2> DEFINE Arrives(x, u, p, a, f) ==
             /\ Start(r, x, u, p, a, f)
             /\ x # "open" => a \in Amounts /\ f \in Refs
             /\ x = "send" => p \in Users /\ a > 0
             /\ usedRefs' \subseteq Refs
             /\ UNCHANGED <<created, balance, ledger, lock, critical, died>>
    <2>1. PICK u \in Users, p \in Users \cup {None}, a \in Amounts \cup {0}, f \in Refs \cup {None},
               x \in {"open", "topup", "debit", "send"} : Arrives(x, u, p, a, f)
      <3>1. ASSUME NEW u \in Users, GetBalance(r, u) PROVE Arrives("open", u, None, 0, None)
        BY <3>1 DEF GetBalance, TypeOK
      <3>2. ASSUME NEW u \in Users, NEW a \in Amounts, NEW f \in Refs, TopUp(r, u, a, f)
            PROVE  Arrives("topup", u, None, a, f)
        BY <3>2 DEF TopUp, TypeOK
      <3>3. ASSUME NEW u \in Users, NEW a \in Amounts, NEW f \in Refs, Debit(r, u, a, f)
            PROVE  Arrives("debit", u, None, a, f)
        BY <3>3 DEF Debit, TypeOK
      <3>4. ASSUME NEW u \in Users, NEW p \in Users, NEW a \in Amounts, NEW f \in Refs,
                   Transfer(r, u, p, a, f)
            PROVE  Arrives("send", u, p, a, f)
        BY <3>4 DEF Transfer, TypeOK
      <3> HIDE DEF Arrives
      <3>5. PICK u \in Users :
               \/ GetBalance(r, u)
               \/ \E a \in Amounts, f \in Refs : \/ TopUp(r, u, a, f) \/ Debit(r, u, a, f)
                                                 \/ \E p \in Users : Transfer(r, u, p, a, f)
        BY <1>1 DEF Arrive
      <3>6. CASE GetBalance(r, u)
        BY <3>1, <3>6
      <3>7. CASE \E a \in Amounts, f \in Refs : \/ TopUp(r, u, a, f) \/ Debit(r, u, a, f)
                                                \/ \E p \in Users : Transfer(r, u, p, a, f)
        <4> PICK a \in Amounts, f \in Refs : \/ TopUp(r, u, a, f) \/ Debit(r, u, a, f)
                                             \/ \E p \in Users : Transfer(r, u, p, a, f)
          BY <3>7
        <4>1. CASE TopUp(r, u, a, f)
          BY <3>2, <4>1
        <4>2. CASE Debit(r, u, a, f)
          BY <3>3, <4>2
        <4>3. CASE \E p \in Users : Transfer(r, u, p, a, f)
          BY <3>4, <4>3
        <4> QED
          BY <4>1, <4>2, <4>3
      <3> QED
        BY <3>5, <3>6, <3>7
    <2> DEFINE q == [phase |-> x, locked |-> FALSE, user |-> u, peer |-> p, amount |-> a,
                     ref |-> f, seen |-> 0]
    <2>2. x \in Phases
      BY DEF Phases
    <2>3. /\ q \in Requests /\ q.phase = x /\ q.user = u /\ q.peer = p /\ q.amount = a
          /\ q.ref = f /\ ~q.locked
      BY <2>2, NewRequest
    <2>4. req[r] = Idle /\ req' = [req EXCEPT ![r] = q]
      BY <2>1 DEF Start
    <2> HIDE DEF q, IInv
    <2> QED
      BY <2>1, <2>3, <2>4, ArriveStep
  <1>2. CASE \/ NotFound(r) \/ LookupReceiver(r) \/ CreateWallet(r)
    <2>1. PICK q \in Requests :
             /\ ~req[r].locked /\ req' = [req EXCEPT ![r] = q] /\ ~q.locked
             /\ \/ q = Idle
                \/ /\ req[r].phase # "idle" /\ req[r].phase # "open"
                   /\ q.user = req[r].user /\ q.peer = req[r].peer /\ q.amount = req[r].amount
                   /\ q.ref = req[r].ref
                   /\ \/ q.phase \in {"make", "topupAgain"}
                      \/ /\ q.phase \in {"lookup", "create", "receive", "rollback"}
                         /\ req[r].phase \in {"send", "lookup", "create", "receive"}
      <3>1. ~req[r].locked
        BY <1>2 DEF NotFound, LookupReceiver, CreateWallet, LockOK, TxPhases, TypeOK, Requests
      <3>2. CASE End(r)
        BY <3>1, <3>2, IdleSlot DEF End
      <3>3. CASE \E x \in {"make", "topupAgain", "lookup", "create", "receive", "rollback"} :
                   /\ Goto(r, x) /\ req[r].phase \notin {"idle", "open"}
                   /\ \/ x \in {"make", "topupAgain"}
                      \/ req[r].phase \in {"send", "lookup", "create", "receive"}
        <4> PICK x \in {"make", "topupAgain", "lookup", "create", "receive", "rollback"} :
                   /\ Goto(r, x) /\ req[r].phase \notin {"idle", "open"}
                   /\ \/ x \in {"make", "topupAgain"}
                      \/ req[r].phase \in {"send", "lookup", "create", "receive"}
          BY <3>3
        <4> DEFINE q == [req[r] EXCEPT !.phase = x, !.locked = FALSE]
        <4>1. /\ q \in Requests /\ q.phase = x /\ ~q.locked /\ q.user = req[r].user
              /\ q.peer = req[r].peer /\ q.amount = req[r].amount /\ q.ref = req[r].ref
          BY DEF TypeOK, Requests, Phases
        <4>2. req' = [req EXCEPT ![r] = q]
          BY DEF Goto, TypeOK, Requests
        <4> QED
          BY <3>1, <4>1, <4>2
      <3>4. End(r) \/ \E x \in {"make", "topupAgain", "lookup", "create", "receive", "rollback"} :
                   /\ Goto(r, x) /\ req[r].phase \notin {"idle", "open"}
                   /\ \/ x \in {"make", "topupAgain"}
                      \/ req[r].phase \in {"send", "lookup", "create", "receive"}
        BY <1>2 DEF NotFound, LookupReceiver, CreateWallet, Fail, TxPhases
      <3> QED
        BY <3>2, <3>3, <3>4
    <2>2. /\ created' \subseteq Users /\ critical' \subseteq Refs
          /\ UNCHANGED <<balance, ledger, lock, usedRefs, died>>
      <3>1. req[r].phase = "rollback" => req[r].ref \in Refs
        BY DEF LockOK, TxPhases
      <3>2. req[r].phase = "create" => req[r].peer \in Users
        BY DEF LockOK
      <3>3. req[r].phase # "idle" => req[r].user \in Users
        BY DEF LockOK
      <3> QED
        BY <1>2, <3>1, <3>2, <3>3 DEF NotFound, LookupReceiver, CreateWallet, Critical, TypeOK
    <2> HIDE DEF IInv
    <2> QED
      BY <2>1, <2>2, UnlockedStep
  <1> QED
    BY <1>1, <1>2

LEMMA NextIInv == IInv /\ [Next]_vars => IInv'
  <1> SUFFICES ASSUME IInv, [Next]_vars PROVE IInv'
    OBVIOUS
  <1>1. ASSUME NEW r \in Reqs, Arrive(r) \/ Handle(r) PROVE IInv'
    BY <1>1, HandlerStep, LockStep, CommitStep, RollbackStep DEF Handle
  <1>2. CASE Crash
    BY <1>2, IdleSlot, WalletAssumption
    DEF Crash, IInv, TypeOK, LockOK, LockHeld, LedgerChain, NoOverdraft, TxPhases
  <1>3. CASE UNCHANGED vars
    BY <1>3 DEF vars, IInv, TypeOK, LockOK, LockHeld, LedgerChain, NoOverdraft, Wallet
  <1> QED
    BY <1>1, <1>2, <1>3 DEF Next

THEOREM Invariance == Spec => []IInv
  BY InitIInv, NextIInv, PTL DEF Spec

(* The state variables always have their types.                              *)
THEOREM TypeCorrect == Spec => []TypeOK
  <1>1. IInv => TypeOK
    BY DEF IInv
  <1> QED
    BY <1>1, Invariance, PTL

(* The ledger of every wallet is an unbroken chain that ends in its balance. *)
THEOREM LedgerSafe == Spec => []LedgerChain
  <1>1. IInv => LedgerChain
    BY DEF IInv
  <1> QED
    BY <1>1, Invariance, PTL

(* No debit or transfer overdraws a wallet, whatever amounts are asked for:   *)
(* only a top-up of a negative amount does.                                  *)
THEOREM OverdraftSafe == Spec => []NoOverdraft
  <1>1. IInv => NoOverdraft
    BY DEF IInv
  <1> QED
    BY <1>1, Invariance, PTL

-----------------------------------------------------------------------------
(* Transfers *)


Stages == {"send", "lookup", "create", "receive", "rollback"}
Sent(f) == Rows(f, {"send"})
Paid(f) == Rows(f, {"receive", "rollback"})
Carries(r, f) == req[r].phase \in Stages /\ req[r].ref = f

(* The inductive invariant: one handler carries a transfer, its phase tells  *)
(* which of the two rows exist, and a debited transfer nobody carries is     *)
(* paid, given back, logged or its handler died.                             *)
TransferOK(f) ==
    /\ f \notin usedRefs => /\ Sent(f) = {} /\ Paid(f) = {} /\ f \notin critical
                            /\ \A r \in Reqs : ~Carries(r, f)
    /\ \A r, s \in Reqs : Carries(r, f) /\ Carries(s, f) => r = s
    /\ \A r \in Reqs : Carries(r, f) =>
         /\ Paid(f) = {} /\ f \notin critical
         /\ Sent(f) = {} <=> req[r].phase = "send"
    /\ \A x, y \in Sent(f) : x = y
    /\ \A x, y \in Paid(f) : x = y
    /\ Paid(f) # {} => Sent(f) # {}
    /\ f \in critical => Paid(f) = {}
    /\ f \notin died /\ f \notin critical /\ Sent(f) # {} /\ Paid(f) = {} =>
         \E r \in Reqs : Carries(r, f)

TInv == \A f \in Refs : TransferOK(f)

-----------------------------------------------------------------------------
(* Rows of the ledgers *)

(* Rows, as a function of the ledgers it looks at.                           *)
RowsOf(l, f, T) == UNION {{<<u, i>> : i \in {j \in DOMAIN l[u] :
                             l[u][j].ref = f /\ l[u][j].type \in T}} : u \in Users}

LEMMA RowsAre ==
  ASSUME NEW f
  PROVE  /\ Sent(f) = RowsOf(ledger, f, {"send"})
         /\ Sent(f)' = RowsOf(ledger', f, {"send"})
         /\ Paid(f) = RowsOf(ledger, f, {"receive", "rollback"})
         /\ Paid(f)' = RowsOf(ledger', f, {"receive", "rollback"})
  BY DEF Sent, Paid, Rows, RowsOf

LEMMA RowsSame ==
  ASSUME UNCHANGED ledger
  PROVE  \A f : Sent(f)' = Sent(f) /\ Paid(f)' = Paid(f)
  BY DEF Sent, Paid, Rows

LEMMA RowsMember ==
  ASSUME NEW l, NEW f, NEW T, NEW x
  PROVE  x \in RowsOf(l, f, T) <=>
           \E u \in Users : \E i \in DOMAIN l[u] :
             x = <<u, i>> /\ l[u][i].ref = f /\ l[u][i].type \in T
  BY DEF RowsOf

(* A row appended to a ledger is the one member its rows may gain.           *)
LEMMA RowsAppend ==
  ASSUME NEW l, NEW m, NEW w \in Users, NEW n \in Nat, NEW row, NEW f, NEW T,
         DOMAIN l[w] = 1..n, DOMAIN m[w] = 1..(n + 1), m[w][n + 1] = row,
         \A i \in 1..n : m[w][i] = l[w][i],
         \A u \in Users : u # w => m[u] = l[u]
  PROVE  RowsOf(m, f, T) = RowsOf(l, f, T) \cup
           (IF row.ref = f /\ row.type \in T THEN {<<w, n + 1>>} ELSE {})
  <1> DEFINE New == IF row.ref = f /\ row.type \in T THEN {<<w, n + 1>>} ELSE {}
  <1>2. ASSUME NEW x \in RowsOf(l, f, T) PROVE x \in RowsOf(m, f, T)
    <2> PICK u \in Users : \E i \in DOMAIN l[u] :
          x = <<u, i>> /\ l[u][i].ref = f /\ l[u][i].type \in T
      BY RowsMember
    <2> PICK i \in DOMAIN l[u] : x = <<u, i>> /\ l[u][i].ref = f /\ l[u][i].type \in T
      OBVIOUS
    <2>1. i \in DOMAIN m[u] /\ m[u][i] = l[u][i]
      OBVIOUS
    <2> QED
      BY <2>1, RowsMember
  <1>3. ASSUME NEW x \in New PROVE x \in RowsOf(m, f, T)
    <2>1. x = <<w, n + 1>> /\ row.ref = f /\ row.type \in T /\ n + 1 \in DOMAIN m[w]
      OBVIOUS
    <2> QED
      BY <2>1, RowsMember
  <1>4. ASSUME NEW x \in RowsOf(m, f, T) PROVE x \in RowsOf(l, f, T) \cup New
    <2> PICK u \in Users : \E i \in DOMAIN m[u] :
          x = <<u, i>> /\ m[u][i].ref = f /\ m[u][i].type \in T
      BY RowsMember
    <2> PICK i \in DOMAIN m[u] : x = <<u, i>> /\ m[u][i].ref = f /\ m[u][i].type \in T
      OBVIOUS
    <2>1. CASE u = w /\ i = n + 1
      BY <2>1
    <2>2. CASE ~(u = w /\ i = n + 1)
      <3>1. i \in DOMAIN l[u] /\ m[u][i] = l[u][i]
        BY <2>2
      <3> QED
        BY <3>1, RowsMember
    <2> QED
      BY <2>1, <2>2
  <1>5. RowsOf(m, f, T) = RowsOf(l, f, T) \cup New
    BY <1>2, <1>3, <1>4
  <1> QED
    BY <1>5

-----------------------------------------------------------------------------
(* What other references do is nothing to a transfer.                        *)
LEMMA TransferSame ==
  ASSUME NEW f \in Refs, TransferOK(f), UNCHANGED <<usedRefs, critical, died>>,
         Sent(f)' = Sent(f), Paid(f)' = Paid(f),
         \A s \in Reqs : Carries(s, f)' <=> Carries(s, f),
         \A s \in Reqs : Carries(s, f) => req'[s].phase = req[s].phase
  PROVE  TransferOK(f)'
  <1>1. usedRefs' = usedRefs /\ critical' = critical /\ died' = died
    OBVIOUS
  <1>2. \A s \in Reqs : Carries(s, f) => (Sent(f) = {} <=> req'[s].phase = "send")
    BY DEF TransferOK
  <1> QED
    BY <1>1, <1>2 DEF TransferOK

(* A slot changes and no ledger does: a handler that carries no money ends   *)
(* or goes on, a transfer arrives, is refused, goes on, or is given up.      *)
LEMMA CarryStep ==
  ASSUME TInv, NEW r \in Reqs, NEW q \in Requests, req \in [Reqs -> Requests],
         req' = [req EXCEPT ![r] = q], UNCHANGED <<ledger, died>>, usedRefs \subseteq usedRefs',
         \/ /\ req[r].phase \notin Stages \ {"send"} /\ q.phase \notin Stages
            /\ UNCHANGED critical
         \/ /\ req[r].phase \in Stages \ {"send"} /\ q.phase \in Stages \ {"send"}
            /\ q.ref = req[r].ref /\ UNCHANGED critical
         \/ /\ req[r].phase = "rollback" /\ q.phase \notin Stages
            /\ critical' = critical \cup {req[r].ref}
         \/ /\ req[r].phase \notin Stages /\ q.phase = "send" /\ q.ref \notin usedRefs
            /\ q.ref \in usedRefs' /\ UNCHANGED critical
  PROVE  TInv'
  <1> SUFFICES ASSUME NEW f \in Refs PROVE TransferOK(f)'
    BY DEF TInv
  <1>1. /\ TransferOK(f) /\ Sent(f)' = Sent(f) /\ Paid(f)' = Paid(f)
        /\ req'[r] = q /\ \A s \in Reqs \ {r} : req'[s] = req[s]
    BY RowsSame DEF TInv
  <1>2. \A s \in Reqs \ {r} : Carries(s, f)' <=> Carries(s, f)
    BY <1>1 DEF Carries
  <1>3. Carries(r, f)' <=> q.phase \in Stages /\ q.ref = f
    BY <1>1 DEF Carries
  <1>4. CASE /\ req[r].phase \notin Stages \ {"send"} /\ q.phase \notin Stages
             /\ UNCHANGED critical
    BY <1>1, <1>2, <1>3, <1>4 DEF TransferOK, Carries, Stages
  <1>5. CASE /\ req[r].phase \in Stages \ {"send"} /\ q.phase \in Stages \ {"send"}
             /\ q.ref = req[r].ref /\ UNCHANGED critical
    BY <1>1, <1>2, <1>3, <1>5 DEF TransferOK, Carries, Stages
  <1>6. CASE /\ req[r].phase = "rollback" /\ q.phase \notin Stages
             /\ critical' = critical \cup {req[r].ref}
    BY <1>1, <1>2, <1>3, <1>6 DEF TransferOK, Carries, Stages
  <1>7. CASE /\ req[r].phase \notin Stages /\ q.phase = "send" /\ q.ref \notin usedRefs
             /\ q.ref \in usedRefs' /\ UNCHANGED critical
    BY <1>1, <1>2, <1>3, <1>7 DEF TransferOK, Carries, Stages
  <1> QED
    BY <1>4, <1>5, <1>6, <1>7

(* What a slot is after Goto and after Start.                                *)
LEMMA MovedSlot ==
  ASSUME req \in [Reqs -> Requests], NEW r \in Reqs, NEW x \in Phases, Goto(r, x)
  PROVE  \E q \in Requests : req' = [req EXCEPT ![r] = q] /\ q.phase = x /\ q.ref = req[r].ref
  <1> DEFINE q == [req[r] EXCEPT !.phase = x, !.locked = FALSE]
  <1>1. q \in Requests /\ q.phase = x /\ q.ref = req[r].ref
    BY DEF Requests
  <1>2. req' = [req EXCEPT ![r] = q]
    BY DEF Goto, Requests
  <1> QED
    BY <1>1, <1>2

LEMMA CarryIdle ==
  ASSUME IInv, TInv, NEW r \in Reqs, End(r), UNCHANGED <<ledger, died, usedRefs>>,
         \/ req[r].phase \notin Stages \ {"send"} /\ UNCHANGED critical
         \/ req[r].phase = "rollback" /\ critical' = critical \cup {req[r].ref}
  PROVE  TInv'
  BY IdleSlot, CarryStep DEF End, IInv, TypeOK, Stages

LEMMA CarryOn ==
  ASSUME IInv, TInv, NEW r \in Reqs, NEW x \in Phases, Goto(r, x),
         UNCHANGED <<ledger, died, usedRefs, critical>>,
         \/ req[r].phase \in Stages \ {"send"} /\ x \in Stages \ {"send"}
         \/ req[r].phase \notin Stages /\ x \notin Stages
  PROVE  TInv'
  <1>1. req \in [Reqs -> Requests]
    BY DEF IInv, TypeOK
  <1>2. PICK q \in Requests : req' = [req EXCEPT ![r] = q] /\ q.phase = x /\ q.ref = req[r].ref
    BY <1>1, MovedSlot
  <1> QED
    BY <1>1, <1>2, CarryStep

LEMMA TransferArrives ==
  ASSUME IInv, TInv, NEW r \in Reqs, Arrive(r)
  PROVE  TInv'
  <1> DEFINE Arrives(x, u, p, a, f) ==
           /\ Start(r, x, u, p, a, f)
           /\ x = "send" => f \notin usedRefs /\ usedRefs' = usedRefs \cup {f}
           /\ usedRefs \subseteq usedRefs'
           /\ UNCHANGED <<ledger, critical, died>>
  <1>1. PICK u \in Users, p \in Users \cup {None}, a \in Amounts \cup {0}, f \in Refs \cup {None},
             x \in {"open", "topup", "debit", "send"} : Arrives(x, u, p, a, f)
    <2>1. ASSUME NEW u \in Users, GetBalance(r, u) PROVE Arrives("open", u, None, 0, None)
      BY <2>1 DEF GetBalance
    <2>2. ASSUME NEW u \in Users, NEW a \in Amounts, NEW f \in Refs, TopUp(r, u, a, f)
          PROVE  Arrives("topup", u, None, a, f)
      BY <2>2 DEF TopUp
    <2>3. ASSUME NEW u \in Users, NEW a \in Amounts, NEW f \in Refs, Debit(r, u, a, f)
          PROVE  Arrives("debit", u, None, a, f)
      BY <2>3 DEF Debit
    <2>4. ASSUME NEW u \in Users, NEW p \in Users, NEW a \in Amounts, NEW f \in Refs,
                 Transfer(r, u, p, a, f)
          PROVE  Arrives("send", u, p, a, f)
      BY <2>4 DEF Transfer
    <2> HIDE DEF Arrives
    <2>5. PICK u \in Users :
             \/ GetBalance(r, u)
             \/ \E a \in Amounts, f \in Refs : \/ TopUp(r, u, a, f) \/ Debit(r, u, a, f)
                                               \/ \E p \in Users : Transfer(r, u, p, a, f)
      BY DEF Arrive
    <2>6. CASE GetBalance(r, u)
      BY <2>1, <2>6
    <2>7. CASE \E a \in Amounts, f \in Refs : \/ TopUp(r, u, a, f) \/ Debit(r, u, a, f)
                                              \/ \E p \in Users : Transfer(r, u, p, a, f)
      <3> PICK a \in Amounts, f \in Refs : \/ TopUp(r, u, a, f) \/ Debit(r, u, a, f)
                                           \/ \E p \in Users : Transfer(r, u, p, a, f)
        BY <2>7
      <3>1. CASE TopUp(r, u, a, f)
        BY <2>2, <3>1
      <3>2. CASE Debit(r, u, a, f)
        BY <2>3, <3>2
      <3>3. CASE \E p \in Users : Transfer(r, u, p, a, f)
        BY <2>4, <3>3
      <3> QED
        BY <3>1, <3>2, <3>3
    <2> QED
      BY <2>5, <2>6, <2>7
  <1> DEFINE q == [phase |-> x, locked |-> FALSE, user |-> u, peer |-> p, amount |-> a,
                   ref |-> f, seen |-> 0]
  <1>2. x \in Phases
    BY DEF Phases
  <1>3. q \in Requests /\ q.phase = x /\ q.ref = f
    BY <1>2, NewRequest
  <1>4. req[r] = Idle /\ req' = [req EXCEPT ![r] = q]
    BY <1>1 DEF Start
  <1>5. req \in [Reqs -> Requests]
    BY DEF IInv, TypeOK
  <1> HIDE DEF q
  <1>6. CASE x = "send"
    BY <1>1, <1>3, <1>4, <1>5, <1>6, IdleSlot, CarryStep DEF Stages
  <1>7. CASE x # "send"
    BY <1>1, <1>3, <1>4, <1>5, <1>7, IdleSlot, CarryStep DEF Stages
  <1> QED
    BY <1>6, <1>7

(* A transaction failed: the transfer is refused, gives back or is given up. *)
LEMMA TransferFails ==
  ASSUME IInv, TInv, NEW r \in Reqs, req[r].phase \in TxPhases, Fail(r),
         critical' = Critical(r), UNCHANGED <<ledger, died, usedRefs>>
  PROVE  TInv'
  <1>1. CASE req[r].phase = "receive"
    BY <1>1, CarryOn DEF Fail, Critical, Stages, Phases
  <1>2. CASE req[r].phase = "rollback"
    BY <1>2, CarryIdle DEF Fail, Critical
  <1>3. CASE req[r].phase \in {"topup", "topupAgain", "debit", "send"}
    BY <1>3, CarryIdle DEF Fail, Critical, Stages
  <1> QED
    BY <1>1, <1>2, <1>3 DEF TxPhases

LEMMA TransferWaits ==
  ASSUME IInv, TInv, NEW r \in Reqs,
         Lock(r) \/ NotFound(r) \/ Rollback(r) \/ LookupReceiver(r) \/ CreateWallet(r)
  PROVE  TInv'
  <1>1. CASE Lock(r)
    <2> DEFINE q == [req[r] EXCEPT !.locked = TRUE, !.seen = balance[Wallet(req[r])]]
    <2>1. req[r] \in Requests /\ balance[Wallet(req[r])] \in Int /\ req \in [Reqs -> Requests]
      BY <1>1 DEF IInv, TypeOK, Lock
    <2>2. q \in Requests /\ q.phase = req[r].phase /\ q.ref = req[r].ref
      BY <2>1 DEF Requests
    <2>3. req' = [req EXCEPT ![r] = q] /\ UNCHANGED <<ledger, usedRefs, critical, died>>
      BY <1>1, <2>1 DEF Lock, Requests
    <2> HIDE DEF q
    <2>4. \A s \in Reqs : /\ req'[s].phase = req[s].phase /\ req'[s].ref = req[s].ref
      BY <2>1, <2>2, <2>3
    <2>5. \A f : \A s \in Reqs : Carries(s, f)' <=> Carries(s, f)
      BY <2>4 DEF Carries
    <2> SUFFICES ASSUME NEW f \in Refs PROVE TransferOK(f)'
      BY DEF TInv
    <2>6. TransferOK(f) /\ Sent(f)' = Sent(f) /\ Paid(f)' = Paid(f)
      BY <2>3, RowsSame DEF TInv
    <2> QED
      BY <2>3, <2>4, <2>5, <2>6, TransferSame
  <1>2. CASE NotFound(r)
    <2>1. CASE req[r].phase = "topup"
      BY <1>2, <2>1, CarryOn DEF NotFound, Critical, Stages, Phases
    <2>2. CASE req[r].phase # "topup"
      BY <1>2, <2>2, TransferFails DEF NotFound
    <2> QED
      BY <2>1, <2>2
  <1>3. CASE Rollback(r)
    BY <1>3, TransferFails DEF Rollback
  <1>4. CASE LookupReceiver(r)
    BY <1>4, CarryOn DEF LookupReceiver, Stages, Phases
  <1>5. CASE CreateWallet(r)
    <2>1. CASE req[r].phase = "create"
      BY <1>5, <2>1, CarryOn DEF CreateWallet, Stages, Phases
    <2>2. CASE req[r].phase \in {"open", "make"}
      <3>1. (End(r) \/ Goto(r, "topupAgain")) /\ UNCHANGED <<ledger, usedRefs, critical, died>>
        BY <1>5, <2>2 DEF CreateWallet
      <3> QED
        BY <2>2, <3>1, CarryIdle, CarryOn DEF Stages, Phases
    <2> QED
      BY <1>5, <2>1, <2>2 DEF CreateWallet
  <1> QED
    BY <1>1, <1>2, <1>3, <1>4, <1>5

(* The commit of a debit, of a payment or of a return.                       *)
LEMMA TransferCommits ==
  ASSUME IInv, TInv, NEW r \in Reqs, Commit(r), "ack" \notin Faults
  PROVE  TInv'
  <1> DEFINE after == req[r].seen + Delta(req[r])
  <1>1. PICK w \in Users, row \in Row :
          /\ ledger' = [ledger EXCEPT ![w] = Append(ledger[w], row)]
          /\ row.type = req[r].phase /\ row.ref = req[r].ref
    <2> DEFINE row == [type |-> req[r].phase, amount |-> Delta(req[r]),
                       balance_after |-> after, ref |-> req[r].ref]
    <2>1. /\ req[r].phase \in Phases /\ req[r].ref \in Refs /\ Wallet(req[r]) \in Users
          /\ req[r].seen \in Int /\ req[r].amount \in Int
      <3>1. /\ LockOK(r) /\ req[r] \in Requests /\ req[r].locked
            /\ balance \in [Users -> Int] /\ Amounts \subseteq Int
        BY WalletAssumption DEF Commit, IInv, TypeOK
      <3>2. /\ req[r].phase \in TxPhases /\ req[r].amount \in Amounts /\ req[r].ref \in Refs
            /\ req[r].user \in Users
            /\ req[r].phase = "receive" => req[r].peer \in Users
        BY <3>1 DEF LockOK, TxPhases
      <3> QED
        BY <3>1, <3>2 DEF Requests, Wallet
    <2>2. Delta(req[r]) \in Int /\ after \in Int
      BY <2>1 DEF Delta
    <2>3. row \in Row /\ row.type = req[r].phase /\ row.ref = req[r].ref
      BY <2>1, <2>2 DEF Row
    <2>4. ledger' = [ledger EXCEPT ![Wallet(req[r])] = Append(ledger[Wallet(req[r])], row)]
      BY DEF Commit
    <2> HIDE DEF row
    <2> QED
      BY <2>1, <2>3, <2>4
  <1>2. /\ req[r].phase \in TxPhases /\ Succeed(r) /\ UNCHANGED <<critical, usedRefs, died>>
        /\ req \in [Reqs -> Requests] /\ ledger \in [Users -> Seq(Row)]
    BY DEF Commit, IInv, LockOK, TypeOK
  <1>3. PICK q \in Requests :
          /\ req' = [req EXCEPT ![r] = q]
          /\ IF req[r].phase = "send" THEN q.phase = "lookup" /\ q.ref = req[r].ref
                                      ELSE q.phase = "idle"
    <2>1. CASE req[r].phase = "send"
      BY <1>2, <2>1, MovedSlot DEF Succeed, Phases
    <2>2. CASE req[r].phase # "send"
      BY <1>2, <2>2, IdleSlot DEF Succeed, End
    <2> QED
      BY <2>1, <2>2
  <1> SUFFICES ASSUME NEW f \in Refs PROVE TransferOK(f)'
    BY DEF TInv
  <1>4. TransferOK(f) /\ req'[r] = q /\ \A s \in Reqs \ {r} : req'[s] = req[s]
    BY <1>2, <1>3 DEF TInv
  <1> DEFINE n == Len(ledger[w])
             x == <<w, n + 1>>
             Gain(T) == IF row.ref = f /\ row.type \in T THEN {x} ELSE {}
  <1>5. \A T : RowsOf(ledger', f, T) = RowsOf(ledger, f, T) \cup Gain(T)
    <2>1. /\ n \in Nat /\ DOMAIN ledger[w] = 1..n
          /\ DOMAIN ledger'[w] = 1..(n + 1) /\ ledger'[w][n + 1] = row
          /\ \A i \in 1..n : ledger'[w][i] = ledger[w][i]
          /\ \A u \in Users : u # w => ledger'[u] = ledger[u]
      BY <1>1, <1>2
    <2> HIDE DEF n
    <2>2. ASSUME NEW T
          PROVE  RowsOf(ledger', f, T) = RowsOf(ledger, f, T) \cup
                   (IF row.ref = f /\ row.type \in T THEN {<<w, n + 1>>} ELSE {})
      BY <2>1, RowsAppend
    <2> QED
      BY <2>2
  <1> HIDE DEF x
  <1>6. /\ Sent(f)' = Sent(f) \cup Gain({"send"})
        /\ Paid(f)' = Paid(f) \cup Gain({"receive", "rollback"})
    <2> HIDE DEF Gain
    <2> QED
      BY <1>5, RowsAre
  <1>7. \A s \in Reqs \ {r} : Carries(s, f)' <=> Carries(s, f)
    BY <1>4 DEF Carries
  <1>8. Carries(r, f)' <=> req[r].phase = "send" /\ req[r].ref = f
    BY <1>3, <1>4 DEF Carries, Stages
  <1>9. CASE ~Carries(r, f)
    <2>1. ~Carries(r, f)' /\ Sent(f)' = Sent(f) /\ Paid(f)' = Paid(f)
      BY <1>1, <1>5, <1>6, <1>8, <1>9 DEF Carries, Stages
    <2>2. \A s \in Reqs : Carries(s, f)' <=> Carries(s, f)
      BY <1>7, <1>9, <2>1
    <2>3. \A s \in Reqs : Carries(s, f) => req'[s].phase = req[s].phase
      BY <1>4, <1>9
    <2>4. TransferOK(f) /\ UNCHANGED <<usedRefs, critical, died>>
      BY <1>2, <1>4
    <2> QED
      BY <2>1, <2>2, <2>3, <2>4, TransferSame
  <1>10. CASE Carries(r, f) /\ req[r].phase = "send"
    <2>1. /\ Carries(r, f)' /\ Sent(f) = {} /\ Sent(f)' = {x} /\ Paid(f)' = Paid(f)
          /\ req'[r].phase = "lookup"
      BY <1>1, <1>3, <1>4, <1>5, <1>6, <1>8, <1>10 DEF TransferOK, Carries
    <2> QED
      BY <1>2, <1>4, <1>7, <1>10, <2>1 DEF TransferOK, Carries
  <1>11. CASE Carries(r, f) /\ req[r].phase # "send"
    <2>1. req[r].phase \in {"receive", "rollback"}
      BY <1>2, <1>11 DEF Carries, Stages, TxPhases
    <2>2. ~Carries(r, f)' /\ Sent(f)' = Sent(f) /\ Paid(f) = {} /\ Paid(f)' = {x} /\ Sent(f) # {}
      BY <1>1, <1>4, <1>5, <1>6, <1>8, <1>11, <2>1 DEF TransferOK, Carries
    <2> QED
      BY <1>2, <1>4, <1>7, <1>11, <2>2 DEF TransferOK, Carries
  <1> QED
    BY <1>9, <1>10, <1>11

(* A crash ends every transfer in flight, and counts it as died.             *)
LEMMA TransferDies ==
  ASSUME IInv, TInv, Crash
  PROVE  TInv'
  <1> SUFFICES ASSUME NEW f \in Refs PROVE TransferOK(f)'
    BY DEF TInv
  <1>1. /\ TransferOK(f) /\ UNCHANGED <<ledger, usedRefs, critical>> /\ died \subseteq died'
        /\ \A r \in Reqs : req'[r] = Idle
        /\ \A r \in Reqs : Carries(r, f) => f \in died'
    BY DEF Crash, TInv, Carries
  <1>2. Sent(f)' = Sent(f) /\ Paid(f)' = Paid(f) /\ \A r \in Reqs : ~Carries(r, f)'
    BY <1>1, RowsSame, IdleSlot DEF Carries, Stages
  <1> QED
    BY <1>1, <1>2 DEF TransferOK

LEMMA TransferStep ==
  ASSUME IInv, TInv, [Next]_vars, "ack" \notin Faults
  PROVE  TInv'
  <1>1. ASSUME NEW r \in Reqs, Arrive(r) \/ Handle(r) PROVE TInv'
    BY <1>1, TransferArrives, TransferWaits, TransferCommits DEF Handle
  <1>2. CASE UNCHANGED vars
    <2> SUFFICES ASSUME NEW f \in Refs PROVE TransferOK(f)'
      BY DEF TInv
    <2>1. /\ TransferOK(f) /\ Sent(f)' = Sent(f) /\ Paid(f)' = Paid(f)
          /\ UNCHANGED <<req, usedRefs, critical, died>>
      BY <1>2, RowsSame DEF TInv, vars
    <2>2. \A r \in Reqs : Carries(r, f)' <=> Carries(r, f)
      BY <2>1 DEF Carries
    <2> QED
      BY <2>1, <2>2, TransferSame
  <1> QED
    BY <1>1, <1>2, TransferDies DEF Next

LEMMA TransferInit == Init => TInv
  <1> SUFFICES ASSUME Init, NEW f \in Refs PROVE TransferOK(f)
    BY DEF TInv
  <1>1. Sent(f) = {} /\ Paid(f) = {}
    BY DEF Init, Sent, Paid, Rows
  <1>2. \A r \in Reqs : ~Carries(r, f)
    BY IdleSlot DEF Init, Carries, Stages
  <1> QED
    BY <1>1, <1>2 DEF Init, TransferOK

LEMMA TransferInvariance == "ack" \notin Faults => (Spec => []TInv)
  <1> SUFFICES ASSUME "ack" \notin Faults PROVE Spec => []TInv
    OBVIOUS
  <1>1. IInv /\ TInv /\ [Next]_vars => TInv'
    BY TransferStep
  <1> QED
    BY <1>1, TransferInit, Invariance, PTL DEF Spec

(* A set whose members are all equal has one of them or none.                *)
LEMMA AtMostOne ==
  ASSUME NEW S, \A x, y \in S : x = y
  PROVE  Cardinality(S) = IF S = {} THEN 0 ELSE 1
  <1>1. CASE S = {}
    BY <1>1, FS_EmptySet
  <1>2. CASE S # {}
    <2> PICK x \in S : TRUE
      BY <1>2
    <2>1. S = {x}
      OBVIOUS
    <2> QED
      BY <1>2, <2>1, FS_Singleton
  <1> QED
    BY <1>1, <1>2

(* Nobody is paid for a debit that did not commit, and no transfer pays      *)
(* twice, though statements fail and the process dies between them.          *)
THEOREM BackedSafe == Spec => []TransferBacked
  <1>1. CASE "ack" \in Faults
    <2>1. TransferBacked
      BY <1>1 DEF TransferBacked
    <2> QED
      BY <2>1, PTL
  <1>2. CASE "ack" \notin Faults
    <2>1. TInv => TransferBacked
      <3> SUFFICES ASSUME TInv, NEW f \in Refs
                   PROVE  Cardinality(Paid(f)) <= Cardinality(Sent(f))
        BY DEF TransferBacked, Sent, Paid
      <3>1. /\ \A x, y \in Sent(f) : x = y
            /\ \A x, y \in Paid(f) : x = y
            /\ Paid(f) # {} => Sent(f) # {}
        BY DEF TInv, TransferOK
      <3>2. /\ Cardinality(Sent(f)) = IF Sent(f) = {} THEN 0 ELSE 1
            /\ Cardinality(Paid(f)) = IF Paid(f) = {} THEN 0 ELSE 1
        BY <3>1, AtMostOne
      <3> QED
        BY <3>1, <3>2
    <2> QED
      BY <1>2, <2>1, TransferInvariance, PTL
  <1> QED
    BY <1>1, <1>2

(* A transfer that debited the sender and whose handler did not die pays the *)
(* receiver or gives back, exactly once, unless it logged that it could not. *)
THEOREM SettledSafe == Spec => []TransferSettled
  <1>1. CASE "ack" \in Faults
    <2>1. TransferSettled
      BY <1>1 DEF TransferSettled
    <2> QED
      BY <2>1, PTL
  <1>2. CASE "ack" \notin Faults
    <2>1. TInv => TransferSettled
      <3> SUFFICES ASSUME TInv, NEW f \in Refs \ died, Sent(f) # {}, ~InFlight(f)
                   PROVE  Cardinality(Paid(f)) = IF f \in critical THEN 0 ELSE 1
        BY DEF TransferSettled, Sent, Paid
      <3>1. TransferOK(f) /\ \A r \in Reqs : ~Carries(r, f)
        BY DEF TInv, InFlight, Carries
      <3>2. Cardinality(Paid(f)) = IF Paid(f) = {} THEN 0 ELSE 1
        BY <3>1, AtMostOne DEF TransferOK
      <3> QED
        BY <3>1, <3>2 DEF TransferOK
    <2> QED
      BY <1>2, <2>1, TransferInvariance, PTL
  <1> QED
    BY <1>1, <1>2
=============================================================================
