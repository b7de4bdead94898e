----------------------------- MODULE Idempotency -----------------------------
(***************************************************************************)
(* pkg/idempotency over the Redis store of payment-service: the lock and   *)
(* the result of a key are two Redis keys, written by two commands and     *)
(* each with its own time to live.  No service calls the package yet; a    *)
(* caller is taken to follow the flow of its documentation: Acquire, then  *)
(* work when the answer is nil, then Complete.                             *)
(***************************************************************************)
EXTENDS Naturals

CONSTANTS Keys, Callers,
          MaxRuns,    \* bound on the executions of a key
          Faults      \* TRUE: commands fail, a caller dies

VARIABLES lock,       \* idem:lock:{key} exists
          result,     \* idem:result:{key}: 0, or the number of the execution it came from
          runs,       \* executions begun, per key
          lapses,     \* history: how often the lock of a key has expired
          caller      \* caller[c]: what it does, for which key, and which execution it is
idemVars == <<lock, result, runs, lapses, caller>>

Away == [pc |-> "away", key |-> 0, run |-> 0]

TypeOK ==
    /\ lock \subseteq Keys
    /\ result \in [Keys -> 0..MaxRuns] /\ runs \in [Keys -> 0..MaxRuns]
    /\ lapses \in [Keys -> 0..MaxRuns]
    /\ \A c \in Callers : /\ caller[c].pc \in {"away", "get", "work", "complete"}
                          /\ caller[c].run \in 0..MaxRuns

Init == /\ lock = {} /\ caller = [c \in Callers |-> Away]
        /\ result = [k \in Keys |-> 0]
        /\ runs = [k \in Keys |-> 0] /\ lapses = [k \in Keys |-> 0]

Go(c, pc, k, n) == caller' = [caller EXCEPT ![c] = [pc |-> pc, key |-> k, run |-> n]]

-----------------------------------------------------------------------------
(* Acquire: SETNX, and GET when the lock is taken. *)

SetNX(c, k) ==
    /\ caller[c] = Away /\ runs[k] < MaxRuns
    /\ IF k \in lock THEN Go(c, "get", k, 0) /\ UNCHANGED <<lock, runs>>
       ELSE /\ lock' = lock \cup {k}
            /\ runs' = [runs EXCEPT ![k] = @ + 1]
            /\ Go(c, "work", k, runs[k] + 1)
    /\ UNCHANGED <<result, lapses>>

(* The key is set and the answer lost: the caller gives up. *)
SetNXFails(c, k) ==
    /\ Faults /\ caller[c] = Away
    /\ lock' = lock \cup {k}
    /\ UNCHANGED <<result, runs, lapses, caller>>

(* A missing result means the execution is under way: the caller is told     *)
(* 409.  Mutant: a missing result counts as a new key.                       *)
NilIsNew(k) == result[k] = 0 /\ runs[k] < MaxRuns
Proceeds(k) == FALSE

Get(c) ==
    LET k == caller[c].key IN
    /\ caller[c].pc = "get"
    /\ IF Proceeds(k)
       THEN Go(c, "work", k, runs[k] + 1) /\ runs' = [runs EXCEPT ![k] = @ + 1]
       ELSE caller' = [caller EXCEPT ![c] = Away] /\ UNCHANGED runs
    /\ UNCHANGED <<lock, result, lapses>>

(* The caller's own work, which may end without success. *)
Work(c) ==
    /\ caller[c].pc = "work"
    /\ \E pc \in {"complete", "away"} :
         caller' = [caller EXCEPT ![c] = IF pc = "away" THEN Away ELSE [@ EXCEPT !.pc = pc]]
    /\ UNCHANGED <<lock, result, runs, lapses>>

Complete(c) ==
    /\ caller[c].pc = "complete"
    /\ \/ result' = [result EXCEPT ![caller[c].key] = caller[c].run]
       \/ Faults /\ UNCHANGED result
    /\ caller' = [caller EXCEPT ![c] = Away]
    /\ UNCHANGED <<lock, runs, lapses>>

Die(c) ==
    /\ Faults /\ caller[c] # Away
    /\ caller' = [caller EXCEPT ![c] = Away]
    /\ UNCHANGED <<lock, result, runs, lapses>>

(* The two times to live run out independently. *)
LockExpires(k) ==
    /\ k \in lock /\ lapses[k] < MaxRuns
    /\ lock' = lock \ {k} /\ lapses' = [lapses EXCEPT ![k] = @ + 1]
    /\ UNCHANGED <<result, runs, caller>>
ResultExpires(k) ==
    /\ result[k] # 0
    /\ result' = [result EXCEPT ![k] = 0]
    /\ UNCHANGED <<lock, runs, lapses, caller>>

Next == \/ \E c \in Callers : \/ \E k \in Keys : SetNX(c, k) \/ SetNXFails(c, k)
                              \/ Get(c) \/ Work(c) \/ Complete(c) \/ Die(c)
        \/ \E k \in Keys : LockExpires(k) \/ ResultExpires(k)
Spec == Init /\ [][Next]_idemVars

-----------------------------------------------------------------------------
(* Properties *)

(* A key is executed once per life of its lock, whatever fails: a retry, a   *)
(* crash or an expired result alone never leads to a second execution.       *)
OncePerLock == \A k \in Keys : runs[k] <= lapses[k] + (IF k \in lock THEN 1 ELSE 0)
=============================================================================
