----------------------------- MODULE LockedQueue -----------------------------
(***************************************************************************)
(* task2/2.2/mutex, semaphore and spinlock, beside task2/2.2/cond: four    *)
(* programs over the same list that differ in what queue_add and queue_get *)
(* do when they cannot go on.  In cond they wait (CondQueue); in the       *)
(* others they return 0, and the loops of queue-threads.c call them again. *)
(*                                                                         *)
(* A critical section is one step, whatever kind of lock it is under.      *)
(***************************************************************************)
EXTENDS CondQueue

VARIABLE program     \* which program runs; never changes

lockedVars == <<vars, program>>

LockedInit ==
  /\ Init
  /\ program \in {"cond", "mutex", "semaphore", "spinlock"}

-----------------------------------------------------------------------------
(* queue_add without condition variables; its assertion is AddCall's *)

\* The queue is full: queue_add returns 0, and writer tries the value again.
AddRefused(w) ==
  /\ pc[w] = "lock" /\ count = MaxCount
  /\ pc' = [pc EXCEPT ![w] = "call"]
  /\ UNCHANGED <<listVars, i, got, expected, aborted>>

AddAccepted(w) ==
  /\ pc[w] = "lock" /\ count # MaxCount
  /\ \E n \in Nodes \ heap : Insert(n, i[w])
  /\ i' = [i EXCEPT ![w] = (@ + 1) % Wrap]
  /\ pc' = [pc EXCEPT ![w] = "call"]
  /\ UNCHANGED <<got, expected, aborted>>

-----------------------------------------------------------------------------
(* queue_get without condition variables *)

\* The assertion reads count before the lock is taken, except in mutex.
GetTry(r) ==
  /\ pc[r] = "call"
  /\ IF count >= 0 \/ program = "mutex"
     THEN pc' = [pc EXCEPT ![r] = "lock"] /\ UNCHANGED aborted
     ELSE aborted' = TRUE /\ UNCHANGED pc
  /\ UNCHANGED <<listVars, i, got, expected>>

\* The queue is empty: queue_get returns 0, and reader tries again.
GetRefused(r) ==
  /\ pc[r] = "lock" /\ count = 0
  /\ pc' = [pc EXCEPT ![r] = "call"]
  /\ UNCHANGED <<listVars, i, got, expected, aborted>>

\* In mutex the assertion is evaluated under the lock.
GetAccepted(r) ==
  /\ pc[r] = "lock" /\ count # 0
  /\ IF program = "mutex" /\ count < 0
     THEN aborted' = TRUE /\ UNCHANGED <<listVars, pc, got>>
     ELSE /\ got' = [got EXCEPT ![r] = val[first]]
          /\ Remove
          /\ pc' = [pc EXCEPT ![r] = "check"]
          /\ UNCHANGED aborted
  /\ UNCHANGED <<i, expected>>

-----------------------------------------------------------------------------
TryingWriter(w) == AddCall(w) \/ AddRefused(w) \/ AddAccepted(w)
TryingReader(r) == GetTry(r) \/ GetRefused(r) \/ GetAccepted(r) \/ ReaderCheck(r)

LockedNext ==
  /\ UNCHANGED program
  /\ \/ program = "cond" /\ Next
     \/ /\ program # "cond" /\ ~aborted
        /\ \/ \E w \in Writers : TryingWriter(w)
           \/ \E r \in Readers : TryingReader(r)

LockedSpec == LockedInit /\ [][LockedNext]_lockedVars

\* Every thread is scheduled, and gets a lock that is free again and again.
LockedFairness ==
  /\ \A w \in Writers :
       WF_lockedVars(/\ UNCHANGED program /\ ~aborted
                     /\ IF program = "cond" THEN WriterStep(w) ELSE TryingWriter(w))
  /\ \A r \in Readers :
       WF_lockedVars(/\ UNCHANGED program /\ ~aborted
                     /\ IF program = "cond" THEN ReaderStep(r) ELSE TryingReader(r))

FairLockedSpec == LockedSpec /\ LockedFairness

=============================================================================
