------------------------------ MODULE CondQueue ------------------------------
(***************************************************************************)
(* task2/2.2/cond: the blocking queue, its mutex and its two condition     *)
(* variables, driven by the loops of queue-threads.c.  main starts one     *)
(* reader and one writer; the module takes any number of each.             *)
(*                                                                         *)
(* A region under the mutex in which the code does not wait is one step.   *)
(* The mutex and the condition variables are never initialised, they lie   *)
(* in fresh zeroed memory, which on Linux is an unlocked mutex and         *)
(* condition variables without waiters: so they are taken to work.         *)
(***************************************************************************)
EXTENDS LinkedQueue

CONSTANTS Writers, Readers

ASSUME ThreadAssumption ==
  /\ IsFiniteSet(Writers) /\ IsFiniteSet(Readers)
  /\ Writers # {} /\ Readers # {} /\ Writers \cap Readers = {}

VARIABLES
  pc,          \* where each thread stands
  i,           \* the writer's next value
  got,         \* the value queue_get gave the reader, -1 before the first
  expected,    \* the value the reader expects
  aborted      \* an assert failed

Threads == Writers \cup Readers
vars == <<listVars, pc, i, got, expected, aborted>>

Init ==
  /\ ListInit
  /\ pc = [t \in Threads |-> "call"]
  /\ i = [w \in Writers |-> 0]
  /\ got = [r \in Readers |-> -1]
  /\ expected = [r \in Readers |-> 0]
  /\ aborted = FALSE

Waiting(S) == {t \in S : pc[t] = "wait"}
WokenReaders == Cardinality({t \in Readers : pc[t] = "woken"})
WokenWriters == Cardinality({t \in Writers : pc[t] = "woken"})

\* Mutant of SignalAndGoto: nobody is signalled.
NoSignalAndGoto(t, label, S) == S \subseteq Threads /\ pc' = [pc EXCEPT ![t] = label]

\* pthread_cond_signal for the waiters among S, unlock, and thread t goes on.
SignalAndGoto(t, label, S) ==
  IF Waiting(S) = {}
  THEN pc' = [pc EXCEPT ![t] = label]
  ELSE \E s \in Waiting(S) : pc' = [pc EXCEPT ![t] = label, ![s] = "woken"]

-----------------------------------------------------------------------------
(* queue_add, called by writer *)

\* The assertion reads count without the mutex.
AddCall(w) ==
  /\ pc[w] = "call"
  /\ IF count <= MaxCount
     THEN pc' = [pc EXCEPT ![w] = "lock"] /\ UNCHANGED aborted
     ELSE aborted' = TRUE /\ UNCHANGED pc
  /\ UNCHANGED <<listVars, i, got, expected>>

\* The mutex is held, on entry or again after a wait, and the queue is full.
AddFull(w) ==
  /\ pc[w] \in {"lock", "woken"} /\ count = MaxCount
  /\ pc' = [pc EXCEPT ![w] = "wait"]
  /\ UNCHANGED <<listVars, i, got, expected, aborted>>

\* Mutant of AddInsert: after a wait count is not tested again (if, not while).
AddInsertUntested(w) ==
  /\ \/ pc[w] = "lock" /\ count # MaxCount
     \/ pc[w] = "woken"
  /\ \E n \in Nodes \ heap : Insert(n, i[w])
  /\ SignalAndGoto(w, "call", Readers)
  /\ i' = [i EXCEPT ![w] = (@ + 1) % Wrap]
  /\ UNCHANGED <<got, expected, aborted>>

\* It is not full: the value goes in, a reader is signalled, and queue_add
\* returns 1, so the writer counts on.
AddInsert(w) ==
  /\ pc[w] \in {"lock", "woken"} /\ count # MaxCount
  /\ \E n \in Nodes \ heap : Insert(n, i[w])
  /\ SignalAndGoto(w, "call", Readers)
  /\ i' = [i EXCEPT ![w] = (@ + 1) % Wrap]
  /\ UNCHANGED <<got, expected, aborted>>

-----------------------------------------------------------------------------
(* queue_get, called by reader *)

GetCall(r) ==
  /\ pc[r] = "call"
  /\ pc' = [pc EXCEPT ![r] = "lock"]
  /\ UNCHANGED <<listVars, i, got, expected, aborted>>

GetEmpty(r) ==
  /\ pc[r] \in {"lock", "woken"} /\ count = 0
  /\ pc' = [pc EXCEPT ![r] = "wait"]
  /\ UNCHANGED <<listVars, i, got, expected, aborted>>

\* Mutant of GetTake: a writer is signalled only if the queue was full.
GetTakeSignalIfFull(r) ==
  /\ pc[r] \in {"lock", "woken"} /\ count # 0
  /\ got' = [got EXCEPT ![r] = val[first]]
  /\ Remove
  /\ SignalAndGoto(r, "check", IF count = MaxCount THEN Writers ELSE {})
  /\ UNCHANGED <<i, expected, aborted>>

\* The assertion, evaluated on entry only, and the removal; a writer is
\* signalled.
GetTake(r) ==
  /\ pc[r] \in {"lock", "woken"} /\ count # 0
  /\ IF pc[r] = "lock" /\ count < 0
     THEN aborted' = TRUE /\ UNCHANGED <<listVars, pc, got>>
     ELSE /\ got' = [got EXCEPT ![r] = val[first]]
          /\ Remove
          /\ SignalAndGoto(r, "check", Writers)
          /\ UNCHANGED aborted
  /\ UNCHANGED <<i, expected>>

\* reader compares the value with the expected one, and expects its successor.
ReaderCheck(r) ==
  /\ pc[r] = "check"
  /\ expected' = [expected EXCEPT ![r] = (got[r] + 1) % Wrap]
  /\ pc' = [pc EXCEPT ![r] = "call"]
  /\ UNCHANGED <<listVars, i, got, aborted>>

-----------------------------------------------------------------------------

\* pthread_cond_wait may return without a signal.
SpuriousWakeup(t) ==
  /\ pc[t] = "wait"
  /\ pc' = [pc EXCEPT ![t] = "woken"]
  /\ UNCHANGED <<listVars, i, got, expected, aborted>>

WriterStep(w) == AddCall(w) \/ AddFull(w) \/ AddInsert(w)
ReaderStep(r) == GetCall(r) \/ GetEmpty(r) \/ GetTake(r) \/ ReaderCheck(r)

Next ==
  /\ ~aborted
  /\ \/ \E w \in Writers : WriterStep(w)
     \/ \E r \in Readers : ReaderStep(r)
     \/ \E t \in Threads : SpuriousWakeup(t)

Spec == Init /\ [][Next]_vars

\* Every thread is scheduled, and a mutex that is free again and again is taken
\* in the end by a thread that tries to lock it.
Fairness ==
  /\ \A w \in Writers : WF_vars(~aborted /\ WriterStep(w))
  /\ \A r \in Readers : WF_vars(~aborted /\ ReaderStep(r))

FairSpec == Spec /\ Fairness

-----------------------------------------------------------------------------
(* Properties *)

\* Every variable has its type, and the queue never holds more than max_count.
TypeOK ==
  /\ count \in 0..MaxCount
  /\ next \in [Nodes -> Nodes \cup {NULL}]
  /\ val \in [Nodes -> Nat]
  /\ last \in Nodes \cup {NULL}
  /\ pc \in [Threads -> {"call", "lock", "wait", "woken", "check"}]
  /\ i \in [Writers -> 0..(Wrap - 1)]
  /\ got \in [Readers -> Nat \cup {-1}]
  /\ expected \in [Readers -> Nat]
  /\ aborted \in BOOLEAN

\* Neither assertion of queue_add and queue_get fails, not even the one that
\* reads count without the mutex.
AssertionsHold == ~aborted

\* No wakeup is lost.  While a reader waits, the values in the queue do not
\* outnumber the readers on their way to them; while a writer waits, nor do the
\* free places outnumber the writers on their way: one signal per operation and
\* two condition variables are enough, for any number of threads.
NoLostWakeup ==
  /\ Waiting(Readers) # {} => count <= WokenReaders
  /\ Waiting(Writers) # {} => MaxCount - count <= WokenWriters

\* Values go on arriving, whoever waits.
ValuesArrive == []<>(\E r \in Readers : pc[r] = "check")

\* The queue is a bounded FIFO buffer.
FIFO == INSTANCE BoundedFIFO WITH
  Capacity <- MaxCount, Values <- 0..(Wrap - 1), Takers <- Readers, Nothing <- -1,
  items <- Content, taken <- got

ImplementsFIFO == FIFO!Spec

=============================================================================
