-------------------------- MODULE LockedQueueProofs --------------------------
(***************************************************************************)
(* Theorems about LockedQueue: what CondQueueProofs proves of the queue    *)
(* with condition variables holds of all four locked queues.               *)
(***************************************************************************)
EXTENDS LockedQueue, CondQueueProofs

\* A step of a queue that returns 0 instead of waiting.
Trying ==
  \/ \E w \in Writers : TryingWriter(w)
  \/ \E r \in Readers : TryingReader(r)

\* A call that only changes a place, or aborts, leaves the queue and its values.
LEMMA CallKeeps ==
  ASSUME Inv, NEW t \in Threads, NEW label \in {"call", "lock"}, pc[t] # "woken",
         pc' = [pc EXCEPT ![t] = label], UNCHANGED <<listVars, i, got, expected, aborted>>
  PROVE  Inv'
<1>1. pc \in [Threads -> {"call", "lock", "wait", "woken", "check"}]
  BY DEF Inv, TypeOK
<1>2. count' = count
  BY DEF listVars
<1>3. NoLostWakeup'
  BY <1>1, <1>2, QuietMoves DEF Inv
<1>4. TypeOK' /\ ListShape' /\ AssertionsHold'
  BY <1>1 DEF Inv, TypeOK, ListShape, AssertionsHold, listVars
<1>5. QED
  BY <1>3, <1>4 DEF Inv

\* Every step of a queue that does not wait keeps the invariant of the one that
\* does, in which then nobody waits.
LEMMA TryingKeeps ==
  ASSUME Inv, \A t \in Threads : pc[t] \notin {"wait", "woken"}, Trying
  PROVE  Inv' /\ \A t \in Threads : pc'[t] \notin {"wait", "woken"}
<1>1. /\ TypeOK /\ ListShape /\ AssertionsHold /\ ListTypes
      /\ pc \in [Threads -> {"call", "lock", "wait", "woken", "check"}]
      /\ count = Len(chain) /\ count \in 0..MaxCount /\ MaxCount \in Nat \ {0}
  BY QueueAssumption DEF Inv, TypeOK, ListShape, ListTypes
<1>2. ASSUME NEW t \in Threads, NEW label \in {"call", "lock", "check"},
             pc' = [pc EXCEPT ![t] = label]
      PROVE  /\ pc' \in [Threads -> {"call", "lock", "wait", "woken", "check"}]
             /\ \A u \in Threads : pc'[u] \notin {"wait", "woken"}
             /\ NoLostWakeup'
  <2>1. /\ pc' \in [Threads -> {"call", "lock", "wait", "woken", "check"}]
        /\ \A u \in Threads : pc'[u] \notin {"wait", "woken"}
    BY <1>1, <1>2
  <2>2. Waiting(Readers)' = {} /\ Waiting(Writers)' = {}
    BY <2>1 DEF Waiting, Threads
  <2>3. QED
    BY <2>1, <2>2 DEF NoLostWakeup
<1>3. ASSUME NEW w \in Writers, AddCall(w) \/ AddRefused(w)
      PROVE  Inv' /\ \A t \in Threads : pc'[t] \notin {"wait", "woken"}
  <2>1. PICK label \in {"call", "lock"} : pc' = [pc EXCEPT ![w] = label]
    BY <1>1, <1>3 DEF AddCall, AddRefused
  <2>2. UNCHANGED <<listVars, i, got, expected, aborted>>
    BY <1>1, <1>3 DEF AddCall, AddRefused
  <2>3. Inv'
    BY <2>1, <2>2, CallKeeps DEF Threads
  <2>4. QED
    BY <1>2, <2>1, <2>3 DEF Threads
<1>4. ASSUME NEW w \in Writers, AddAccepted(w)
      PROVE  Inv' /\ \A t \in Threads : pc'[t] \notin {"wait", "woken"}
  <2>1. PICK n \in Nodes \ heap : Insert(n, i[w])
    BY <1>4 DEF AddAccepted
  <2>2. /\ count # MaxCount
        /\ pc' = [pc EXCEPT ![w] = "call"]
        /\ i' = [i EXCEPT ![w] = (i[w] + 1) % Wrap]
        /\ UNCHANGED <<got, expected, aborted>>
    BY <1>4 DEF AddAccepted
  <2>3. i[w] \in Nat /\ (i[w] + 1) % Wrap \in 0..(Wrap - 1)
    BY <1>1, QueueAssumption DEF TypeOK
  <2>4. ListShape' /\ ListTypes'
    BY <1>1, <2>1, <2>3, InsertShape
  <2>5. count' \in 0..MaxCount
    BY <1>1, <2>1, <2>2 DEF Insert
  <2>6. /\ pc' \in [Threads -> {"call", "lock", "wait", "woken", "check"}]
        /\ \A u \in Threads : pc'[u] \notin {"wait", "woken"}
        /\ NoLostWakeup'
    BY <1>2, <2>2 DEF Threads
  <2>7. TypeOK'
    BY <1>1, <2>2, <2>3, <2>4, <2>5, <2>6 DEF TypeOK, ListTypes
  <2>8. QED
    BY <1>1, <2>2, <2>4, <2>6, <2>7 DEF Inv, AssertionsHold
<1>5. ASSUME NEW r \in Readers, GetTry(r) \/ GetRefused(r)
      PROVE  Inv' /\ \A t \in Threads : pc'[t] \notin {"wait", "woken"}
  <2>1. PICK label \in {"call", "lock"} : pc' = [pc EXCEPT ![r] = label]
    BY <1>1, <1>5 DEF GetTry, GetRefused
  <2>2. UNCHANGED <<listVars, i, got, expected, aborted>>
    BY <1>1, <1>5 DEF GetTry, GetRefused
  <2>3. Inv'
    BY <2>1, <2>2, CallKeeps DEF Threads
  <2>4. QED
    BY <1>2, <2>1, <2>3 DEF Threads
<1>6. ASSUME NEW r \in Readers, GetAccepted(r)
      PROVE  Inv' /\ \A t \in Threads : pc'[t] \notin {"wait", "woken"}
  <2>1. /\ count # 0
        /\ got' = [got EXCEPT ![r] = val[first]] /\ Remove
        /\ pc' = [pc EXCEPT ![r] = "check"]
        /\ UNCHANGED <<i, expected, aborted>>
    BY <1>1, <1>6 DEF GetAccepted
  <2>2. ListShape' /\ ListTypes' /\ val[first] \in Nat
    <3>1. Len(chain) > 0 /\ first \in Nodes
      BY <1>1, <2>1 DEF ListShape
    <3>2. QED
      BY <1>1, <2>1, <3>1, RemoveShape DEF ListTypes
  <2>3. count' \in 0..MaxCount
    BY <1>1, <2>1 DEF Remove
  <2>4. /\ pc' \in [Threads -> {"call", "lock", "wait", "woken", "check"}]
        /\ \A u \in Threads : pc'[u] \notin {"wait", "woken"}
        /\ NoLostWakeup'
    BY <1>2, <2>1 DEF Threads
  <2>5. TypeOK'
    BY <1>1, <2>1, <2>2, <2>3, <2>4 DEF TypeOK, ListTypes
  <2>6. QED
    BY <1>1, <2>1, <2>2, <2>4, <2>5 DEF Inv, AssertionsHold
<1>7. ASSUME NEW r \in Readers, ReaderCheck(r)
      PROVE  Inv' /\ \A t \in Threads : pc'[t] \notin {"wait", "woken"}
  <2>1. /\ pc' = [pc EXCEPT ![r] = "call"]
        /\ expected' = [expected EXCEPT ![r] = (got[r] + 1) % Wrap]
        /\ UNCHANGED <<listVars, i, got, aborted>>
    BY <1>7 DEF ReaderCheck
  <2>2. (got[r] + 1) % Wrap \in Nat
    <3>1. got[r] + 1 \in Nat /\ Wrap \in Nat \ {0}
      BY <1>1, QueueAssumption DEF TypeOK
    <3> QED
      BY <3>1
  <2>3. /\ pc' \in [Threads -> {"call", "lock", "wait", "woken", "check"}]
        /\ \A u \in Threads : pc'[u] \notin {"wait", "woken"}
        /\ NoLostWakeup'
    BY <1>2, <2>1 DEF Threads
  <2>4. TypeOK' /\ ListShape' /\ AssertionsHold'
    BY <1>1, <2>1, <2>2, <2>3 DEF TypeOK, ListShape, AssertionsHold, listVars
  <2>5. QED
    BY <2>3, <2>4 DEF Inv
<1>8. QED
  BY <1>3, <1>4, <1>5, <1>6, <1>7 DEF Trying, TryingWriter, TryingReader

\* Every step of a queue that does not wait is one of the buffer, or none.
LEMMA TryingIsFIFO == Inv /\ Trying => [FIFO!Next]_<<Content, got>>
<1> SUFFICES ASSUME Inv, Trying PROVE [FIFO!Next]_<<Content, got>>
  OBVIOUS
<1>1. ListShape /\ ListTypes /\ count = Len(chain) /\ Len(chain) \in Nat
  BY DEF Inv, TypeOK, ListShape, ListTypes
<1>2. ASSUME NEW w \in Writers, AddAccepted(w) PROVE FIFO!Next
  <2>1. PICK n \in Nodes \ heap : Insert(n, i[w])
    BY <1>2 DEF AddAccepted
  <2>2. i[w] \in 0..(Wrap - 1) /\ i[w] \in Nat
    BY QueueAssumption DEF Inv, TypeOK
  <2>3. Content' = Append(Content, i[w])
    BY <1>1, <2>1, <2>2, InsertShape
  <2>4. Len(Content) < MaxCount
    <3>1. Len(Content) = Len(chain)
      BY <1>1 DEF Content
    <3>2. QED
      BY <1>1, <1>2, <3>1, QueueAssumption DEF AddAccepted, Inv, TypeOK
  <2>5. FIFO!Put(i[w])
    BY <1>2, <2>3, <2>4 DEF FIFO!Put, AddAccepted
  <2>6. QED
    BY <2>2, <2>5 DEF FIFO!Next
<1>3. ASSUME NEW r \in Readers, GetAccepted(r) PROVE FIFO!Next
  <2>1. got' = [got EXCEPT ![r] = val[first]] /\ Remove /\ Len(chain) > 0
    BY <1>1, <1>3 DEF GetAccepted, Inv, TypeOK
  <2>2. Content # <<>> /\ val[first] = Head(Content) /\ Content' = Tail(Content)
    BY <1>1, <2>1, RemoveShape
  <2>3. FIFO!Take(r)
    BY <2>1, <2>2 DEF FIFO!Take
  <2>4. QED
    BY <2>3 DEF FIFO!Next
<1>4. ASSUME UNCHANGED <<listVars, got>> PROVE UNCHANGED <<Content, got>>
  BY <1>4 DEF listVars, Content
<1>5. CASE \E w \in Writers : AddCall(w) \/ AddRefused(w)
  BY <1>4, <1>5 DEF AddCall, AddRefused
<1>6. CASE \E r \in Readers : GetTry(r) \/ GetRefused(r) \/ ReaderCheck(r)
  BY <1>4, <1>6 DEF GetTry, GetRefused, ReaderCheck
<1>7. QED
  BY <1>2, <1>3, <1>5, <1>6 DEF Trying, TryingWriter, TryingReader

-----------------------------------------------------------------------------

\* The invariant of all four programs: only the one with condition variables has
\* threads that wait.
LockedInv ==
  /\ Inv
  /\ program # "cond" => \A t \in Threads : pc[t] \notin {"wait", "woken"}

LEMMA LockedInvInit == LockedInit => LockedInv
<1>1. LockedInit => \A t \in Threads : pc[t] \notin {"wait", "woken"}
  BY DEF LockedInit, Init
<1>2. QED
  BY <1>1, InvInit DEF LockedInit, LockedInv

LEMMA LockedInvStep == LockedInv /\ [LockedNext]_lockedVars => LockedInv'
<1> SUFFICES ASSUME LockedInv, [LockedNext]_lockedVars PROVE LockedInv'
  OBVIOUS
<1>1. program' = program
  BY DEF LockedNext, lockedVars
<1>2. CASE program = "cond" /\ [Next]_vars
  BY <1>1, <1>2, InvStep DEF LockedInv
<1>3. CASE program # "cond" /\ Trying
  BY <1>1, <1>3, TryingKeeps DEF LockedInv
<1>4. CASE UNCHANGED vars
  <2>1. Inv'
    BY <1>4, InvStep DEF LockedInv
  <2>2. QED
    BY <1>1, <1>4, <2>1 DEF LockedInv, vars
<1>5. QED
  BY <1>2, <1>3, <1>4 DEF LockedNext, lockedVars, Trying

\* Whatever the lock, and whether the callers wait or try again: the list is well
\* formed, the bounds and the assertions hold, and no wakeup is lost.
THEOREM LockedInvCorrect == LockedSpec => []LockedInv
<1>1. QED
  BY LockedInvInit, LockedInvStep, PTL DEF LockedSpec

\* The list of every locked queue is well formed, though freed addresses return.
THEOREM LockedShapeCorrect == LockedSpec => []ListShape
<1>1. LockedInv => ListShape
  BY DEF LockedInv, Inv
<1>2. QED
  BY <1>1, LockedInvCorrect, PTL

\* No assertion of a locked queue fails, wherever the program evaluates it.
THEOREM LockedAssertionsCorrect == LockedSpec => []AssertionsHold
<1>1. LockedInv => AssertionsHold
  BY DEF LockedInv, Inv
<1>2. QED
  BY <1>1, LockedInvCorrect, PTL

\* Every locked queue implements the bounded FIFO buffer: each value is handed out
\* once, in the order in which it was added.
THEOREM LockedFIFOCorrect == LockedSpec => ImplementsFIFO
<1>1. LockedInit => FIFO!Init
  <2> SUFFICES ASSUME LockedInit PROVE FIFO!Init
    OBVIOUS
  <2>1. Content = <<>>
    BY DEF LockedInit, Init, ListInit, Content
  <2>2. QED
    BY <2>1 DEF LockedInit, Init, FIFO!Init
<1>2. LockedInv /\ [LockedNext]_lockedVars => [FIFO!Next]_<<Content, got>>
  <2> SUFFICES ASSUME LockedInv, [LockedNext]_lockedVars PROVE [FIFO!Next]_<<Content, got>>
    OBVIOUS
  <2>1. CASE [Next]_vars
    BY <2>1, StepIsFIFO DEF LockedInv
  <2>2. CASE Trying
    BY <2>2, TryingIsFIFO DEF LockedInv
  <2>3. QED
    BY <2>1, <2>2 DEF LockedNext, lockedVars, Trying
<1>3. QED
  BY <1>1, <1>2, LockedInvCorrect, PTL DEF LockedSpec, ImplementsFIFO, FIFO!Spec

=============================================================================
