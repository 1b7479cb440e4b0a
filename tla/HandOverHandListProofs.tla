------------------------ MODULE HandOverHandListProofs ------------------------
(***************************************************************************)
(* Proofs about HandOverHandList, for a list of any length (at least 4)    *)
(* and any number of threads: a link only changes under its node's lock, a *)
(* swap releases the locks it took, the links stay one chain of all nodes, *)
(* and a list that is long enough never has all threads wait.  In the      *)
(* program spinlock all this needs that only one thread swaps, because of  *)
(* the order in which it releases the locks (see README.md).  In all three *)
(* programs one swapping thread finds its third node.                      *)
(***************************************************************************)
EXTENDS HandOverHandList, FiniteSetTheorems, WellFoundedInduction, TLAPS

\* A walking thread holds the lock of the node whose link it follows.
WalkHolds(t) ==
  pc[t] = "step" =>
    IF SharedWalk THEN t \in readers[iter[t]] ELSE writer[iter[t]] = t

\* In the program spinlock, a swap that has begun to unlock reads the address of
\* its last node through links whose locks it has released.
SpinHolds(s) ==
  /\ next[iter[s]] = snd[s] /\ snd[s] \in Nodes
  /\ next[snd[s]] = fst[s] /\ fst[s] \in Nodes
  /\ fst[s] # snd[s] /\ writer[fst[s]] = s

\* The three nodes of a swap are different and all locked by it.
SwapHolds(s) ==
  /\ pc[s] \in {"lock2", "lock3", "store1", "store2", "store3", "unlock1"} => writer[iter[s]] = s
  /\ pc[s] = "lock3" =>
       next[iter[s]] \in Nodes /\ writer[next[iter[s]]] = s /\ next[iter[s]] # iter[s]
  /\ pc[s] \in {"store1", "store2", "store3", "unlock1"} =>
       /\ fst[s] \in Nodes /\ writer[fst[s]] = s
       /\ fst[s] # iter[s] /\ fst[s] # snd[s]
  /\ pc[s] \in {"store1", "store2", "store3", "unlock1", "unlock2"} =>
       /\ snd[s] \in Nodes /\ writer[snd[s]] = s /\ snd[s] # iter[s]
       /\ next[iter[s]] = IF pc[s] = "store1" THEN fst[s] ELSE snd[s]
  /\ pc[s] \in {"store1", "store2"} => next[fst[s]] = snd[s]
  /\ pc[s] = "store3" => next[fst[s]] = next[snd[s]]
  /\ pc[s] = "unlock1" => next[snd[s]] = fst[s]
  /\ pc[s] \in {"unlock2", "unlock3"} =>
       IF Program = "spinlock" THEN SpinHolds(s) ELSE writer[iter[s]] = s

\* A node locked for writing has no readers.
Exclusive == \A n \in Nodes : writer[n] # Nobody => readers[n] = {}

\* The evaluation of a guard is at one of its loads.
GuardInv ==
  \A s \in Swappers : pc[s] = "guard" => guard[s].test \in 1..3 /\ guard[s].left \in 1..3

LockInv ==
  /\ Exclusive
  /\ GuardInv
  /\ \A t \in Threads : WalkHolds(t)
  /\ \A s \in Swappers : SwapHolds(s)

\* Nobody changes a link that a swap still needs to find its locks: either it
\* releases the farthest first, or no other thread swaps.
SafeReleases == Program = "spinlock" => \A s, u \in Swappers : s = u

Inv == SafeReleases /\ TypeOK /\ LockInv

\* What a step of thread t leaves to every other thread: its place, its locks
\* and the links of the nodes it has locked for writing.
Frame(t) ==
  /\ \A u \in Threads \ {t} : pc'[u] = pc[u] /\ iter'[u] = iter[u]
  /\ \A s \in Swappers \ {t} : fst'[s] = fst[s] /\ snd'[s] = snd[s]
  /\ \A u \in Threads \ {t}, n \in Nodes :
       /\ writer[n] = u => writer'[n] = u /\ next'[n] = next[n]
       /\ u \in readers[n] => u \in readers'[n]

\* One step of one thread.
Step(t) ==
  \/ WalkFrom(t) \/ WalkOn(t)
  \/ t \in Swappers /\ (Draw(t) \/ Load(t) \/ Swap(t))

-----------------------------------------------------------------------------
(* Locks *)

\* A thread unlocks only what it holds, so other threads keep their locks.
LEMMA UnlockOwn ==
  ASSUME TypeOK, Exclusive, NEW t \in Threads, NEW n \in Nodes, Unlock(t, n),
         writer[n] = t \/ t \in readers[n]
  PROVE  /\ \A u \in Threads \ {t}, m \in Nodes :
              /\ writer[m] = u => writer'[m] = u
              /\ u \in readers[m] => u \in readers'[m]
         /\ \A m \in Nodes \ {n} : writer'[m] = writer[m] /\ readers'[m] = readers[m]
         /\ Exclusive'
<1>1. Nobody \notin Threads
  BY ListAssumption
<1>2. writer \in [Nodes -> Threads \cup {Nobody}] /\ readers \in [Nodes -> SUBSET Threads]
  BY DEF TypeOK
<1>3. CASE writer[n] = t
  BY <1>1, <1>2, <1>3 DEF Unlock, Exclusive
<1>4. CASE writer[n] # t /\ t \in readers[n]
  BY <1>1, <1>2, <1>4 DEF Unlock, Exclusive
<1>5. QED
  BY <1>3, <1>4

\* A thread that write-locks a free node takes nothing from another.
LEMMA WriteLockFree ==
  ASSUME TypeOK, Exclusive, NEW t \in Threads, NEW n \in Nodes, CanWrite(n), WriteLock(t, n)
  PROVE  /\ \A u \in Threads \ {t}, m \in Nodes :
              /\ writer[m] = u => writer'[m] = u
              /\ u \in readers[m] => u \in readers'[m]
         /\ \A m \in Nodes : writer[m] = t => writer'[m] = t
         /\ writer'[n] = t
         /\ Exclusive'
  BY ListAssumption DEF WriteLock, CanWrite, TypeOK, Exclusive, Threads

\* The same for the lock of a walk, which may be shared.
LEMMA WalkLockFree ==
  ASSUME TypeOK, Exclusive, NEW t \in Threads, NEW n \in Nodes, CanWalk(n), WalkLock(t, n)
  PROVE  /\ \A u \in Threads \ {t}, m \in Nodes :
              /\ writer[m] = u => writer'[m] = u
              /\ u \in readers[m] => u \in readers'[m]
         /\ IF SharedWalk THEN t \in readers'[n] ELSE writer'[n] = t
         /\ Exclusive'
<1>1. CASE SharedWalk
  BY <1>1, ListAssumption DEF WalkLock, CanWalk, CanRead, TypeOK, Exclusive, Threads
<1>2. CASE ~SharedWalk
  <2>1. CanWrite(n) /\ WriteLock(t, n)
    BY <1>2 DEF CanWalk, WalkLock
  <2>2. QED
    BY <1>2, <2>1, WriteLockFree
<1>3. QED
  BY <1>1, <1>2

\* What a swap is about to release, it holds.
LEMMA ReleasedHeld ==
  ASSUME SafeReleases, TypeOK, NEW s \in Swappers, SwapHolds(s),
         pc[s] \in {"unlock1", "unlock2", "unlock3"}
  PROVE  Released(s) \in Nodes /\ writer[Released(s)] = s
<1>1. CASE pc[s] = "unlock1"
  BY <1>1, ListAssumption DEF Released, NearestFirst, FarthestFirst, SwapHolds, Third, Second,
     TypeOK, Nodes, NULL, Threads
<1>2. CASE pc[s] = "unlock2"
  BY <1>2, ListAssumption DEF Released, NearestFirst, FarthestFirst, SwapHolds, Second
<1>3. CASE pc[s] = "unlock3"
  BY <1>3, ListAssumption DEF Released, NearestFirst, FarthestFirst, SwapHolds, SpinHolds, Third,
     Second, TypeOK, Nodes, NULL, Threads
<1>4. QED
  BY <1>1, <1>2, <1>3

\* A walk never follows a link to nowhere.
LEMMA SuccessorNode ==
  ASSUME TypeOK, NEW t \in Threads
  PROVE  Successor(t) \in Nodes
  BY ListAssumption DEF Successor, TypeOK, Nodes, NULL, first

\* The types of the locks, of the places of the threads, and of the guards.
LockType == writer \in [Nodes -> Threads \cup {Nobody}] /\ readers \in [Nodes -> SUBSET Threads]
PlaceType == pc \in [Threads -> Labels] /\ \A t \in Threads \ Swappers : pc[t] \in {"walk", "step"}
Tests == [test : 0..3, left : 0..3, at : Nodes \cup {NULL}]

\* Locking and unlocking keep the types of the locks.
LEMMA LockTypes ==
  ASSUME LockType, NEW t \in Threads, NEW n \in Nodes,
         WriteLock(t, n) \/ WalkLock(t, n) \/ Unlock(t, n)
  PROVE  LockType'
<1>1. CASE WriteLock(t, n)
  BY <1>1 DEF WriteLock, LockType
<1>2. CASE WalkLock(t, n)
  BY <1>2 DEF WalkLock, WriteLock, LockType
<1>3. CASE Unlock(t, n)
  BY <1>3 DEF Unlock, LockType
<1>4. QED
  BY <1>1, <1>2, <1>3

\* So does going on to another place.
LEMMA PlaceTypes ==
  ASSUME PlaceType, NEW t \in Threads, NEW label \in Labels, Goto(t, label),
         t \in Swappers \/ label \in {"walk", "step"}
  PROVE  PlaceType'
  BY DEF Goto, PlaceType

\* A load of the guard keeps its evaluation at one of its loads.
LEMMA LoadTypes ==
  ASSUME TypeOK, GuardInv, NEW s \in Swappers, Load(s), ~ crashed'
  PROVE  guard' \in [Swappers -> Tests] /\ GuardInv' /\ PlaceType'
<1> DEFINE g == guard[s]
<1> USE DEF Tests, Test
<1>1. pc[s] = "guard" /\ g \in Tests /\ g.test \in 1..3 /\ g.left \in 1..3
  BY DEF TypeOK, GuardInv, Load
<1>2. ~Crash
  BY DEF Crash
<1>3. g.at # NULL /\ next[g.at] \in Nodes \cup {NULL}
  BY <1>1, <1>2 DEF Load, TypeOK
<1>4. PlaceType /\ guard \in [Swappers -> Tests] /\ iter[s] \in Nodes /\ s \in Threads
  BY DEF TypeOK, PlaceType, Threads
<1>5. ASSUME NEW e \in Tests, guard' = [guard EXCEPT ![s] = e], e.test \in 1..3, e.left \in 1..3,
             UNCHANGED pc
      PROVE  guard' \in [Swappers -> Tests] /\ GuardInv' /\ PlaceType'
  <2>1. guard' \in [Swappers -> Tests] /\ PlaceType'
    BY <1>4, <1>5 DEF PlaceType
  <2>2. GuardInv'
    BY <1>4, <1>5 DEF GuardInv
  <2>3. QED
    BY <2>1, <2>2
<1>6. CASE g.left = 1 /\ (next[g.at] = NULL \/ g.test = 3)
  <2>1. PICK label \in {"walk", "lock1"} : Goto(s, label) /\ guard' = [guard EXCEPT ![s] = Test(0, NULL)]
    BY <1>2, <1>3, <1>6 DEF Load, Decide
  <2>2. PlaceType'
    BY <1>4, <2>1, PlaceTypes DEF Labels
  <2>3. guard' \in [Swappers -> Tests]
    BY <1>4, <2>1 DEF NULL
  <2>4. GuardInv'
    BY <1>4, <2>1 DEF GuardInv, Goto, PlaceType
  <2>5. QED
    BY <2>2, <2>3, <2>4
<1>7. CASE g.left = 1 /\ ~(next[g.at] = NULL \/ g.test = 3)
  <2>1. guard' = [guard EXCEPT ![s] = Test(g.test + 1, iter[s])] /\ UNCHANGED pc
    BY <1>2, <1>3, <1>7 DEF Load, Decide
  <2>2. g.test + 1 \in 1..3
    BY <1>1, <1>7
  <2>3. Test(g.test + 1, iter[s]) \in Tests
    BY <1>4, <2>2
  <2>4. QED
    BY <1>5, <2>1, <2>2, <2>3
<1>8. CASE g.left # 1
  <2> DEFINE e == [test |-> g.test, left |-> g.left - 1, at |-> next[g.at]]
  <2>1. guard' = [guard EXCEPT ![s] = e] /\ UNCHANGED pc
    BY <1>2, <1>3, <1>8 DEF Load
  <2>2. e \in Tests /\ e.test \in 1..3 /\ e.left \in 1..3
    <3>1. g.left - 1 \in 1..3 /\ g.left - 1 \in 0..3
      BY <1>1, <1>8
    <3>2. QED
      BY <1>1, <1>3, <3>1
  <2>3. QED
    BY <1>5, <2>1, <2>2
<1>9. QED
  BY <1>6, <1>7, <1>8

\* Every step keeps the types.
LEMMA TypeStep == Inv /\ [Next]_vars => TypeOK'
<1> SUFFICES ASSUME Inv, [Next]_vars PROVE TypeOK'
  OBVIOUS
<1> USE ListAssumption DEF Inv
<1>0. LockType /\ PlaceType /\ guard \in [Swappers -> Tests]
  BY DEF TypeOK, LockType, PlaceType, Tests
<1>t. ASSUME LockType', PlaceType', next' \in [Nodes -> Nodes \cup {NULL}],
             iter' \in [Threads -> Nodes], fst' \in [Swappers -> Nodes \cup {NULL}],
             snd' \in [Swappers -> Nodes \cup {NULL}], guard' \in [Swappers -> Tests],
             crashed' \in BOOLEAN, chain' \in [Nodes -> Nodes]
      PROVE  TypeOK'
  BY <1>t DEF TypeOK, LockType, PlaceType, Tests
<1> DEFINE Rest == UNCHANGED <<next, iter, fst, snd, guard, crashed, chain>>
<1>r. ASSUME LockType', PlaceType', Rest PROVE TypeOK'
  BY <1>0, <1>t, <1>r DEF TypeOK
<1>c. ASSUME Crash PROVE TypeOK'
  BY <1>0, <1>t, <1>c DEF Crash, TypeOK, LockType, PlaceType, lockVars, swapVars
<1>1. ASSUME NEW t \in Threads, WalkFrom(t) PROVE TypeOK'
  <2>1. LockType'
    BY <1>0, <1>1, LockTypes DEF WalkFrom, TypeOK
  <2>2. PlaceType'
    BY <1>0, <1>1, PlaceTypes DEF WalkFrom, Labels
  <2>3. QED
    BY <1>1, <1>r, <2>1, <2>2 DEF WalkFrom, swapVars
<1>2. ASSUME NEW t \in Threads, WalkOn(t) PROVE TypeOK'
  <2>1. LockType'
    BY <1>0, <1>2, LockTypes DEF WalkOn, TypeOK
  <2>2. Top(t) \in Labels /\ (t \in Swappers \/ Top(t) \in {"walk", "step"})
    BY DEF Top, Labels
  <2>3. PlaceType'
    BY <1>0, <1>2, <2>2, PlaceTypes DEF WalkOn
  <2>4. iter' \in [Threads -> Nodes]
    BY <1>2, SuccessorNode DEF WalkOn, TypeOK
  <2>5. QED
    BY <1>0, <1>2, <1>t, <2>1, <2>3, <2>4 DEF WalkOn, swapVars, TypeOK
<1> USE DEF Threads
<1>3. ASSUME NEW s \in Swappers, Draw(s) PROVE TypeOK'
  <2>1. PICK label \in {"walk", "guard"} : Goto(s, label)
    BY <1>3 DEF Draw
  <2>2. PlaceType'
    BY <1>0, <2>1, PlaceTypes DEF Labels
  <2>3. Test(1, iter[s]) \in Tests
    BY DEF Test, Tests, TypeOK
  <2>4. guard' \in [Swappers -> Tests]
    BY <1>0, <1>3, <2>3 DEF Draw
  <2>5. QED
    BY <1>0, <1>3, <1>t, <2>2, <2>4 DEF Draw, lockVars, swapVars, TypeOK, LockType
<1>4. ASSUME NEW s \in Swappers, ~crashed, Load(s) PROVE TypeOK'
  <2>1. CASE Crash
    BY <1>c, <2>1
  <2>2. CASE ~Crash
    <3>1. UNCHANGED <<next, lockVars, iter, swapVars, crashed, chain>>
      BY <1>4, <2>2 DEF Load
    <3>2. guard' \in [Swappers -> Tests] /\ PlaceType'
      BY <1>4, <3>1, LoadTypes DEF LockInv
    <3>3. QED
      BY <1>0, <1>t, <3>1, <3>2 DEF lockVars, swapVars, TypeOK, LockType
  <2>3. QED
    BY <2>1, <2>2
<1>5. ASSUME NEW s \in Swappers, Swap(s) PROVE TypeOK'
  <2>0. /\ Second(s) \in Nodes \cup {NULL} /\ Third(s) \in Nodes \cup {NULL}
        /\ iter[s] \in Nodes /\ SwapHolds(s)
    BY DEF Second, Third, LockInv, TypeOK
  <2> DEFINE label == CASE pc[s] = "lock1" -> "lock2" [] pc[s] = "lock2" -> "lock3"
                        [] pc[s] = "lock3" -> "store1" [] pc[s] = "store1" -> "store2"
                        [] pc[s] = "store2" -> "store3" [] pc[s] = "store3" -> "unlock1"
                        [] pc[s] = "unlock1" -> "unlock2" [] pc[s] = "unlock2" -> "unlock3"
                        [] OTHER -> "walk"
  <2>p. ASSUME Goto(s, label) PROVE PlaceType'
    <3>1. label \in Labels
      BY DEF Labels
    <3>2. QED
      BY <1>0, <2>p, <3>1, PlaceTypes
  <2> HIDE DEF label
  <2>1. CASE SwapLock1(s)
    <3>1. LockType'
      BY <1>0, <2>0, <2>1, LockTypes DEF SwapLock1
    <3>2. PlaceType'
      BY <2>1, <2>p DEF SwapLock1, label
    <3>3. QED
      BY <1>r, <2>1, <3>1, <3>2 DEF SwapLock1, swapVars
  <2>2. CASE SwapLock2(s) /\ ~Crash
    <3>1. LockType'
      BY <1>0, <2>0, <2>2, LockTypes DEF SwapLock2
    <3>2. PlaceType'
      BY <2>2, <2>p DEF SwapLock2, label
    <3>3. QED
      BY <1>r, <2>2, <3>1, <3>2 DEF SwapLock2, swapVars
  <2>3. CASE SwapLock3(s) /\ ~Crash
    <3>1. LockType'
      BY <1>0, <2>0, <2>3, LockTypes DEF SwapLock3
    <3>2. PlaceType'
      BY <2>3, <2>p DEF SwapLock3, label
    <3>3. fst' \in [Swappers -> Nodes \cup {NULL}] /\ snd' \in [Swappers -> Nodes \cup {NULL}]
      <4>1. fst' = [fst EXCEPT ![s] = Second(s)] /\ snd' = [snd EXCEPT ![s] = Third(s)]
        BY <2>3 DEF SwapLock3
      <4>2. fst \in [Swappers -> Nodes \cup {NULL}] /\ snd \in [Swappers -> Nodes \cup {NULL}]
        BY DEF TypeOK
      <4>3. QED
        BY <2>0, <4>1, <4>2
    <3>4. QED
      BY <1>0, <1>t, <2>3, <3>1, <3>2, <3>3 DEF SwapLock3, TypeOK
  <2> DEFINE Same == UNCHANGED <<iter, fst, snd, guard, crashed>>
  <2>4. ASSUME UNCHANGED lockVars, Same, PlaceType', next' \in [Nodes -> Nodes \cup {NULL}],
               chain' \in [Nodes -> Nodes]
        PROVE  TypeOK'
    BY <1>0, <1>t, <2>4 DEF LockType, lockVars, TypeOK
  <2>5. CASE StoreParent(s)
    <3>1. PlaceType'
      BY <2>5, <2>p DEF StoreParent, label
    <3>2. next' \in [Nodes -> Nodes \cup {NULL}] /\ chain' \in [Nodes -> Nodes]
      BY <2>5 DEF StoreParent, TypeOK
    <3>3. QED
      BY <2>4, <2>5, <3>1, <3>2 DEF StoreParent, swapVars
  <2>6. CASE StoreFirst(s)
    <3>1. PlaceType'
      BY <2>6, <2>p DEF StoreFirst, label
    <3>2. snd[s] \in Nodes
      BY <2>0, <2>6 DEF StoreFirst, SwapHolds
    <3>3. next' \in [Nodes -> Nodes \cup {NULL}] /\ chain' \in [Nodes -> Nodes]
      BY <2>6, <3>2 DEF StoreFirst, TypeOK
    <3>4. QED
      BY <2>4, <2>6, <3>1, <3>3 DEF StoreFirst, swapVars
  <2>7. CASE StoreSecond(s)
    <3>1. PlaceType'
      BY <2>7, <2>p DEF StoreSecond, label
    <3>2. fst[s] \in Nodes /\ snd[s] \in Nodes
      BY <2>0, <2>7 DEF StoreSecond, SwapHolds
    <3>3. next' \in [Nodes -> Nodes \cup {NULL}]
      BY <2>7, <3>2 DEF StoreSecond, TypeOK
    <3>4. chain' \in [Nodes -> Nodes]
      BY <2>7, <3>2 DEF StoreSecond, Exchanged, TypeOK
    <3>5. QED
      BY <2>4, <2>7, <3>1, <3>3, <3>4 DEF StoreSecond, swapVars
  <2>8. CASE SwapUnlock(s)
    <3>1. LockType'
      BY <1>0, <2>0, <2>8, LockTypes, ReleasedHeld DEF SwapUnlock
    <3>2. PlaceType'
      BY <2>8, <2>p DEF SwapUnlock, label
    <3>3. fst' \in [Swappers -> Nodes \cup {NULL}] /\ snd' \in [Swappers -> Nodes \cup {NULL}]
      BY <2>8 DEF SwapUnlock, swapVars, TypeOK
    <3>4. QED
      BY <1>0, <1>t, <2>8, <3>1, <3>2, <3>3 DEF SwapUnlock, TypeOK
  <2>9. QED
    BY <1>5, <1>c, <2>1, <2>2, <2>3, <2>5, <2>6, <2>7, <2>8 DEF Swap
<1>6. CASE UNCHANGED vars
  BY <1>0, <1>t, <1>6 DEF vars, TypeOK, LockType, PlaceType
<1>7. QED
  BY <1>1, <1>2, <1>3, <1>4, <1>5, <1>6 DEF Next, Halted

-----------------------------------------------------------------------------
(* What a step leaves to the other threads *)

\* Between two steps of a thread the others leave it its locks and its links,
\* and no node gets a writer while it has readers.
LEMMA FrameStep ==
  ASSUME Inv, NEW t \in Threads, Step(t)
  PROVE  Frame(t) /\ Exclusive'
<1> USE ListAssumption DEF Inv
<1>0. TypeOK /\ Exclusive /\ iter[t] \in Nodes /\ WalkHolds(t) /\ (t \in Swappers => SwapHolds(t))
  BY DEF LockInv, TypeOK
<1>1. ASSUME NEW label, Goto(t, label) PROVE \A u \in Threads \ {t} : pc'[u] = pc[u]
  BY <1>1 DEF Goto, TypeOK
<1>2. ASSUME UNCHANGED <<next, iter, fst, snd>>, NEW label, Goto(t, label), Exclusive',
             \A u \in Threads \ {t}, m \in Nodes :
                /\ writer[m] = u => writer'[m] = u
                /\ u \in readers[m] => u \in readers'[m]
      PROVE  Frame(t) /\ Exclusive'
  BY <1>1, <1>2 DEF Frame
<1>3. CASE UNCHANGED <<next, lockVars, pc, iter, swapVars>>
  BY <1>0, <1>3 DEF Frame, Exclusive, lockVars, swapVars
<1>4. CASE WalkFrom(t)
  BY <1>0, <1>2, <1>4, WalkLockFree DEF WalkFrom, swapVars
<1>5. CASE WalkOn(t)
  <2>1. Unlock(t, iter[t]) /\ (writer[iter[t]] = t \/ t \in readers[iter[t]])
    BY <1>0, <1>5 DEF WalkOn, WalkHolds
  <2>2. /\ \A u \in Threads \ {t}, m \in Nodes :
              /\ writer[m] = u => writer'[m] = u
              /\ u \in readers[m] => u \in readers'[m]
        /\ Exclusive'
    BY <1>0, <2>1, UnlockOwn
  <2>3. \A u \in Threads \ {t} : iter'[u] = iter[u]
    BY <1>5 DEF WalkOn, TypeOK
  <2>4. QED
    BY <1>1, <1>5, <2>2, <2>3 DEF WalkOn, swapVars, Frame
<1>6. CASE t \in Swappers /\ Draw(t)
  <2>1. PICK label : Goto(t, label)
    BY <1>6 DEF Draw
  <2>2. UNCHANGED <<next, iter, fst, snd>> /\ UNCHANGED lockVars
    BY <1>6 DEF Draw, swapVars
  <2>3. QED
    BY <1>0, <1>2, <2>1, <2>2 DEF lockVars, Exclusive
<1>7. CASE t \in Swappers /\ Load(t)
  <2>1. UNCHANGED <<next, lockVars, iter, swapVars>>
    BY <1>7 DEF Load, Crash
  <2>2. UNCHANGED pc \/ \E label : Goto(t, label)
    BY <1>7 DEF Load, Crash, Decide
  <2>3. QED
    BY <1>0, <1>2, <1>3, <2>1, <2>2 DEF lockVars, swapVars, Exclusive
<1>8. CASE t \in Swappers /\ Swap(t)
  <2> USE <1>8
  <2>1. CASE SwapLock1(t)
    BY <1>0, <1>2, <2>1, WriteLockFree DEF SwapLock1, swapVars
  <2>2. CASE Crash
    BY <1>3, <2>2 DEF Crash
  <2>3. CASE SwapLock2(t) /\ ~Crash
    <3>1. Second(t) \in Nodes /\ CanWrite(Second(t)) /\ WriteLock(t, Second(t))
      BY <1>0, <2>3 DEF SwapLock2, Second, TypeOK
    <3>2. QED
      BY <1>0, <1>2, <2>3, <3>1, WriteLockFree DEF SwapLock2, swapVars
  <2>4. CASE SwapLock3(t) /\ ~Crash
    <3>1. Third(t) \in Nodes /\ CanWrite(Third(t)) /\ WriteLock(t, Third(t))
      BY <1>0, <2>4 DEF SwapLock3, Second, Third, TypeOK
    <3>2. \A s \in Swappers \ {t} : fst'[s] = fst[s] /\ snd'[s] = snd[s]
      BY <2>4 DEF SwapLock3, TypeOK
    <3>3. /\ \A u \in Threads \ {t}, m \in Nodes :
                /\ writer[m] = u => writer'[m] = u
                /\ u \in readers[m] => u \in readers'[m]
          /\ Exclusive'
      BY <1>0, <3>1, WriteLockFree
    <3>4. UNCHANGED <<next, iter>> /\ \A u \in Threads \ {t} : pc'[u] = pc[u]
      BY <1>1, <2>4 DEF SwapLock3
    <3>5. QED
      BY <3>2, <3>3, <3>4 DEF Frame
  <2>5. CASE StoreParent(t) \/ StoreFirst(t) \/ StoreSecond(t)
    <3>1. UNCHANGED <<lockVars, iter, fst, snd>> /\ \A u \in Threads \ {t} : pc'[u] = pc[u]
      BY <1>1, <2>5 DEF StoreParent, StoreFirst, StoreSecond, swapVars
    <3>2. \A n \in Nodes : writer[n] # t => next'[n] = next[n]
      BY <1>0, <2>5 DEF StoreParent, StoreFirst, StoreSecond, SwapHolds, TypeOK
    <3>3. QED
      BY <1>0, <3>1, <3>2 DEF Frame, Exclusive, lockVars
  <2>6. CASE SwapUnlock(t)
    <3>1. Unlock(t, Released(t)) /\ Released(t) \in Nodes /\ writer[Released(t)] = t
      BY <1>0, <2>6, ReleasedHeld DEF SwapUnlock
    <3>2. \A s \in Swappers \ {t} : fst'[s] = fst[s] /\ snd'[s] = snd[s]
      BY <2>6 DEF SwapUnlock, swapVars, TypeOK
    <3>3. /\ \A u \in Threads \ {t}, m \in Nodes :
                /\ writer[m] = u => writer'[m] = u
                /\ u \in readers[m] => u \in readers'[m]
          /\ Exclusive'
      BY <1>0, <3>1, UnlockOwn
    <3>4. UNCHANGED <<next, iter>> /\ \A u \in Threads \ {t} : pc'[u] = pc[u]
      BY <1>1, <2>6 DEF SwapUnlock
    <3>5. QED
      BY <3>2, <3>3, <3>4 DEF Frame
  <2>7. QED
    BY <2>1, <2>2, <2>3, <2>4, <2>5, <2>6 DEF Swap
<1>9. QED
  BY <1>4, <1>5, <1>6, <1>7, <1>8 DEF Step

\* So what the other threads hold stays held.
LEMMA OthersKeep ==
  ASSUME Inv, NEW t \in Threads, Step(t), Frame(t), NEW u \in Threads, u # t
  PROVE  WalkHolds(u)' /\ (u \in Swappers => SwapHolds(u)')
<1> USE DEF Frame
<1>1. WalkHolds(u) /\ pc'[u] = pc[u] /\ iter'[u] = iter[u] /\ iter[u] \in Nodes
  BY DEF Inv, LockInv, TypeOK
<1>2. WalkHolds(u)'
  BY <1>1 DEF WalkHolds
<1>3. ASSUME u \in Swappers PROVE SwapHolds(u)'
  <2>1. SwapHolds(u) /\ fst'[u] = fst[u] /\ snd'[u] = snd[u]
    BY <1>3 DEF Inv, LockInv
  <2>2. \A n \in Nodes : writer[n] = u => writer'[n] = u /\ next'[n] = next[n]
    OBVIOUS
  <2>3. CASE Program = "spinlock"
    <3>1. t \notin Swappers
      BY <1>3, <2>3 DEF Inv, SafeReleases
    <3>2. next' = next
      BY <3>1 DEF Step, WalkFrom, WalkOn
    <3> HIDE DEF Frame
    <3>3. QED
      BY <1>1, <2>1, <2>2, <2>3, <3>2 DEF SwapHolds, SpinHolds
  <2> HIDE DEF Frame
  <2>4. CASE Program # "spinlock"
    BY <1>1, <2>1, <2>2, <2>4 DEF SwapHolds
  <2>5. QED
    BY <2>3, <2>4
<1>4. QED
  BY <1>2, <1>3

\* The thread that steps holds what its next place needs.
LEMMA ActorKeeps ==
  ASSUME Inv, NEW t \in Threads, Step(t), ~crashed'
  PROVE  WalkHolds(t)' /\ (t \in Swappers => SwapHolds(t)')
<1> USE ListAssumption DEF Inv
<1>0. /\ TypeOK /\ Exclusive /\ iter[t] \in Nodes /\ WalkHolds(t)
      /\ t \in Swappers => SwapHolds(t)
  BY DEF LockInv, TypeOK
<1>1. ASSUME NEW label \in {"draw", "walk", "guard", "lock1"}, Goto(t, label)
      PROVE  WalkHolds(t)' /\ (t \in Swappers => SwapHolds(t)')
  BY <1>1 DEF Goto, WalkHolds, SwapHolds, TypeOK
<1>2. ASSUME NEW label \in Labels \ {"step"}, Goto(t, label) PROVE WalkHolds(t)'
  BY <1>2 DEF Goto, WalkHolds, TypeOK
<1>3. CASE WalkFrom(t)
  <2>1. IF SharedWalk THEN t \in readers'[iter[t]] ELSE writer'[iter[t]] = t
    BY <1>0, <1>3, WalkLockFree DEF WalkFrom
  <2>2. pc'[t] = "step" /\ iter' = iter
    BY <1>3 DEF WalkFrom, Goto, TypeOK
  <2>3. QED
    BY <2>1, <2>2 DEF WalkHolds, SwapHolds
<1>4. CASE WalkOn(t)
  BY <1>1, <1>4 DEF WalkOn, Top
<1>5. CASE t \in Swappers /\ Draw(t)
  BY <1>1, <1>5 DEF Draw
<1>6. CASE t \in Swappers /\ Load(t)
  <2>1. CASE \E label \in {"walk", "lock1"} : Goto(t, label)
    BY <1>1, <2>1
  <2>2. CASE UNCHANGED pc
    BY <1>6, <2>2 DEF Load, WalkHolds, SwapHolds
  <2>3. QED
    BY <1>6, <2>1, <2>2 DEF Load, Decide, Crash
<1>7. CASE t \in Swappers /\ Swap(t)
  <2> USE <1>7
  <2>0. ~Crash
    BY DEF Crash
  <2> SUFFICES SwapHolds(t)'
    BY <1>2, <2>0 DEF Swap, SwapLock1, SwapLock2, SwapLock3, StoreParent, StoreFirst, StoreSecond,
       SwapUnlock, Labels
  <2>1. CASE SwapLock1(t)
    <3>1. writer'[iter[t]] = t
      BY <1>0, <2>1, WriteLockFree DEF SwapLock1
    <3>2. pc'[t] = "lock2" /\ iter' = iter
      BY <2>1 DEF SwapLock1, Goto, TypeOK
    <3>3. QED
      BY <3>1, <3>2 DEF SwapHolds
  <2>2. CASE SwapLock2(t)
    <3>1. Second(t) \in Nodes /\ CanWrite(Second(t)) /\ WriteLock(t, Second(t))
      BY <1>0, <2>0, <2>2 DEF SwapLock2, Second, TypeOK
    <3>2. writer[iter[t]] = t
      BY <1>0, <2>2 DEF SwapLock2, SwapHolds
    <3>3. writer'[iter[t]] = t /\ writer'[Second(t)] = t
      BY <1>0, <3>1, <3>2, WriteLockFree
    <3>4. Second(t) # iter[t]
      BY <3>1, <3>2 DEF CanWrite, Threads
    <3>5. pc'[t] = "lock3" /\ iter' = iter /\ next' = next
      BY <2>0, <2>2 DEF SwapLock2, Goto, TypeOK
    <3>6. QED
      BY <3>1, <3>3, <3>4, <3>5 DEF SwapHolds, Second
  <2>3. CASE SwapLock3(t)
    <3>1. Third(t) \in Nodes /\ CanWrite(Third(t)) /\ WriteLock(t, Third(t))
      BY <1>0, <2>0, <2>3 DEF SwapLock3, Second, Third, TypeOK
    <3>2. /\ writer[iter[t]] = t /\ Second(t) \in Nodes /\ writer[Second(t)] = t
          /\ Second(t) # iter[t]
      BY <1>0, <2>3 DEF SwapLock3, SwapHolds, Second
    <3>3. writer'[iter[t]] = t /\ writer'[Second(t)] = t /\ writer'[Third(t)] = t
      BY <1>0, <3>1, <3>2, WriteLockFree
    <3>4. Third(t) # iter[t] /\ Third(t) # Second(t)
      BY <3>1, <3>2 DEF CanWrite, Threads
    <3>5. next[iter[t]] = Second(t) /\ next[Second(t)] = Third(t)
      BY <3>2 DEF Second, Third, NULL, Nodes
    <3>6. /\ pc'[t] = "store1" /\ iter' = iter /\ next' = next
          /\ fst'[t] = Second(t) /\ snd'[t] = Third(t)
      BY <2>0, <2>3 DEF SwapLock3, Goto, TypeOK
    <3>7. QED
      BY <3>1, <3>2, <3>3, <3>4, <3>5, <3>6 DEF SwapHolds
  <2>4. CASE StoreParent(t) \/ StoreFirst(t) \/ StoreSecond(t)
    <3>1. /\ writer[iter[t]] = t
          /\ fst[t] \in Nodes /\ writer[fst[t]] = t /\ fst[t] # iter[t] /\ fst[t] # snd[t]
          /\ snd[t] \in Nodes /\ writer[snd[t]] = t /\ snd[t] # iter[t]
      BY <1>0, <2>4 DEF StoreParent, StoreFirst, StoreSecond, SwapHolds
    <3>2. UNCHANGED <<writer, iter, fst, snd>>
      BY <2>4 DEF StoreParent, StoreFirst, StoreSecond, lockVars, swapVars
    <3>3. CASE StoreParent(t)
      <4>1. pc'[t] = "store2" /\ next' = [next EXCEPT ![iter[t]] = snd[t]] /\ next[fst[t]] = snd[t]
        BY <1>0, <3>3 DEF StoreParent, Goto, SwapHolds, TypeOK
      <4>2. next'[iter[t]] = snd[t] /\ next'[fst[t]] = snd[t]
        BY <1>0, <3>1, <4>1 DEF TypeOK
      <4>3. QED
        BY <3>1, <3>2, <4>1, <4>2 DEF SwapHolds
    <3>4. CASE StoreFirst(t)
      <4>1. /\ pc'[t] = "store3" /\ next' = [next EXCEPT ![fst[t]] = next[snd[t]]]
            /\ next[iter[t]] = snd[t]
        BY <1>0, <3>4 DEF StoreFirst, Goto, SwapHolds, TypeOK
      <4>2. next'[iter[t]] = snd[t] /\ next'[fst[t]] = next'[snd[t]]
        BY <1>0, <3>1, <4>1 DEF TypeOK
      <4>3. QED
        BY <3>1, <3>2, <4>1, <4>2 DEF SwapHolds
    <3>5. CASE StoreSecond(t)
      <4>1. /\ pc'[t] = "unlock1" /\ next' = [next EXCEPT ![snd[t]] = fst[t]]
            /\ next[iter[t]] = snd[t]
        BY <1>0, <3>5 DEF StoreSecond, Goto, SwapHolds, TypeOK
      <4>2. next'[iter[t]] = snd[t] /\ next'[snd[t]] = fst[t]
        BY <1>0, <3>1, <4>1 DEF TypeOK
      <4>3. QED
        BY <3>1, <3>2, <4>1, <4>2 DEF SwapHolds
    <3>6. QED
      BY <2>4, <3>3, <3>4, <3>5
  <2>5. CASE SwapUnlock(t)
    <3>1. Unlock(t, Released(t)) /\ Released(t) \in Nodes /\ writer[Released(t)] = t
      BY <1>0, <2>5, ReleasedHeld DEF SwapUnlock
    <3>2. \A m \in Nodes \ {Released(t)} : writer'[m] = writer[m]
      BY <1>0, <3>1, UnlockOwn
    <3>3. UNCHANGED <<next, iter>>
      BY <2>5 DEF SwapUnlock
    <3>4. CASE pc[t] = "unlock1"
      <4>1. /\ writer[iter[t]] = t /\ snd[t] \in Nodes /\ writer[snd[t]] = t /\ snd[t] # iter[t]
            /\ next[iter[t]] = snd[t] /\ next[snd[t]] = fst[t]
            /\ fst[t] \in Nodes /\ writer[fst[t]] = t /\ fst[t] # iter[t] /\ fst[t] # snd[t]
        BY <1>0, <3>4 DEF SwapHolds
      <4>2. Released(t) = IF Program = "spinlock" THEN iter[t] ELSE fst[t]
        BY <3>4, <4>1 DEF Released, NearestFirst, FarthestFirst, Third, Second, NULL, Nodes
      <4>3. pc'[t] = "unlock2" /\ UNCHANGED <<fst, snd>>
        BY <2>5, <3>4 DEF SwapUnlock, Goto, swapVars, TypeOK
      <4>4. QED
        BY <1>0, <3>2, <3>3, <4>1, <4>2, <4>3 DEF SwapHolds, SpinHolds
    <3>5. CASE pc[t] = "unlock2"
      <4>1. /\ snd[t] # iter[t] /\ next[iter[t]] = snd[t]
            /\ IF Program = "spinlock" THEN SpinHolds(t) ELSE writer[iter[t]] = t
        BY <1>0, <3>5 DEF SwapHolds
      <4>2. Released(t) = snd[t]
        BY <3>5, <4>1 DEF Released, NearestFirst, FarthestFirst, Second
      <4>3. pc'[t] = "unlock3" /\ UNCHANGED <<fst, snd>>
        BY <2>5, <3>5 DEF SwapUnlock, Goto, swapVars, TypeOK
      <4>4. QED
        BY <1>0, <3>2, <3>3, <4>1, <4>2, <4>3 DEF SwapHolds, SpinHolds
    <3>6. CASE pc[t] = "unlock3"
      BY <1>1, <2>5, <3>6 DEF SwapUnlock
    <3>7. QED
      BY <2>5, <3>4, <3>5, <3>6 DEF SwapUnlock
  <2>6. QED
    BY <2>1, <2>2, <2>3, <2>4, <2>5 DEF Swap
<1>8. QED
  BY <1>3, <1>4, <1>5, <1>6, <1>7 DEF Step

\* A guard being evaluated stays at one of its loads.
LEMMA GuardStep ==
  ASSUME Inv, NEW t \in Threads, Step(t), ~crashed'
  PROVE  GuardInv'
<1> USE ListAssumption DEF Inv
<1>0. GuardInv /\ pc \in [Threads -> Labels] /\ guard \in [Swappers -> Tests] /\ Swappers \subseteq Threads
  BY DEF LockInv, TypeOK, Tests, Threads
<1>1. ASSUME UNCHANGED guard, NEW label, label # "guard", Goto(t, label) PROVE GuardInv'
  BY <1>0, <1>1 DEF GuardInv, Goto
<1>2. CASE WalkFrom(t) \/ WalkOn(t)
  BY <1>1, <1>2 DEF WalkFrom, WalkOn, Top
<1>3. CASE t \in Swappers /\ Draw(t)
  <2>1. CASE Goto(t, "walk") /\ UNCHANGED guard
    BY <1>1, <2>1
  <2>2. CASE Goto(t, "guard") /\ guard' = [guard EXCEPT ![t] = Test(1, iter[t])]
    BY <1>0, <1>3, <2>2 DEF GuardInv, Goto, Test
  <2>3. QED
    BY <1>3, <2>1, <2>2 DEF Draw
<1>4. CASE t \in Swappers /\ Load(t)
  BY <1>0, <1>4, LoadTypes
<1>5. CASE t \in Swappers /\ Swap(t)
  <2>1. UNCHANGED guard /\ \E label : label # "guard" /\ Goto(t, label)
    BY <1>5 DEF Swap, Crash, SwapLock1, SwapLock2, SwapLock3, StoreParent, StoreFirst, StoreSecond,
       SwapUnlock
  <2>2. QED
    BY <1>1, <2>1
<1>6. QED
  BY <1>2, <1>3, <1>4, <1>5 DEF Step

\* The invariant holds initially, ...
LEMMA InvInit == SafeReleases /\ Init => Inv
<1> SUFFICES ASSUME SafeReleases, Init PROVE Inv
  OBVIOUS
<1> USE ListAssumption DEF Init, NULL, Nodes, first, Test, Top, Threads
<1>1. TypeOK
  <2>1. pc \in [Threads -> Labels] /\ \A t \in Threads \ Swappers : pc[t] \in {"walk", "step"}
    BY DEF Labels
  <2>2. next \in [Nodes -> Nodes \cup {NULL}] /\ chain \in [Nodes -> Nodes]
    OBVIOUS
  <2>3. writer \in [Nodes -> Threads \cup {Nobody}] /\ readers \in [Nodes -> SUBSET Threads]
    OBVIOUS
  <2>4. guard \in [Swappers -> [test : 0..3, left : 0..3, at : Nodes \cup {NULL}]]
    OBVIOUS
  <2>5. /\ iter \in [Threads -> Nodes] /\ fst \in [Swappers -> Nodes \cup {NULL}]
        /\ snd \in [Swappers -> Nodes \cup {NULL}]
    OBVIOUS
  <2>6. crashed \in BOOLEAN
    OBVIOUS
  <2>7. QED
    BY <2>1, <2>2, <2>3, <2>4, <2>5, <2>6 DEF TypeOK
<1>2. LockInv
  BY DEF LockInv, Exclusive, GuardInv, WalkHolds, SwapHolds
<1>3. QED
  BY <1>1, <1>2 DEF Inv

\* ... and every step keeps it.
LEMMA InvStep == Inv /\ [Next]_vars => Inv'
<1> SUFFICES ASSUME Inv, [Next]_vars PROVE Inv'
  OBVIOUS
<1>1. TypeOK'
  BY TypeStep
<1>2. ASSUME NEW t \in Threads, Step(t), ~crashed' PROVE LockInv'
  <2>1. Frame(t) /\ Exclusive'
    BY <1>2, FrameStep
  <2>2. \A u \in Threads : WalkHolds(u)' /\ (u \in Swappers => SwapHolds(u)')
    BY <1>2, <2>1, OthersKeep, ActorKeeps
  <2>3. GuardInv'
    BY <1>2, GuardStep
  <2>4. QED
    BY <2>1, <2>2, <2>3 DEF LockInv, Threads
<1>3. ASSUME UNCHANGED <<next, lockVars, pc, iter, swapVars, guard>> PROVE LockInv'
  <2>0. /\ UNCHANGED <<next, writer, readers, pc, iter, fst, snd, guard>>
        /\ Exclusive /\ GuardInv
    BY <1>3 DEF lockVars, swapVars, Inv, LockInv
  <2>1. Exclusive' /\ GuardInv'
    BY <2>0 DEF Exclusive, GuardInv
  <2>2. \A t \in Threads : WalkHolds(t)'
    BY <2>0 DEF WalkHolds, Inv, LockInv
  <2>3. \A s \in Swappers : SwapHolds(s)'
    <3>1. ASSUME NEW s \in Swappers PROVE SwapHolds(s)'
      BY <2>0 DEF SwapHolds, SpinHolds, Inv, LockInv
    <3>2. QED
      BY <3>1
  <2>4. QED
    BY <2>1, <2>2, <2>3 DEF LockInv
<1>4. ASSUME UNCHANGED vars PROVE LockInv'
  BY <1>3, <1>4 DEF vars, lockVars, swapVars
<1>5. ASSUME NEW t \in Threads, ~crashed, Step(t), crashed' PROVE Crash
  BY <1>5 DEF Step, WalkFrom, WalkOn, Draw, Load, Swap, SwapLock1, SwapLock2, SwapLock3,
     StoreParent, StoreFirst, StoreSecond, SwapUnlock
<1>6. ASSUME NEW t \in Threads, ~crashed, Step(t) PROVE LockInv'
  <2>1. CASE ~crashed'
    BY <1>2, <1>6, <2>1
  <2>2. CASE crashed'
    <3>1. Crash
      BY <1>5, <1>6, <2>2
    <3>2. QED
      BY <1>3, <3>1 DEF Crash
  <2>3. QED
    BY <2>1, <2>2
<1>7. LockInv'
  <2>1. ASSUME NEW t \in Threads, ~crashed, WalkFrom(t) \/ WalkOn(t) PROVE LockInv'
    BY <1>6, <2>1 DEF Step
  <2>2. ASSUME NEW s \in Swappers, ~crashed, Draw(s) \/ Load(s) \/ Swap(s) PROVE LockInv'
    BY <1>6, <2>2 DEF Step, Threads
  <2>3. CASE Next
    BY <1>4, <2>1, <2>2, <2>3 DEF Next, Halted
  <2>4. QED
    BY <1>4, <2>3
<1>8. QED
  BY <1>1, <1>7 DEF Inv

LEMMA InvCorrect == SafeReleases /\ Spec => []Inv
  BY InvInit, InvStep, PTL DEF Spec

\* For any length and any number of threads (of which one swaps in the program
\* spinlock), every variable has its type.
THEOREM TypeCorrect == SafeReleases /\ Spec => []TypeOK
  BY InvCorrect, PTL DEF Inv

\* A swap releases only locks it holds, though it reads their addresses again
\* through links it has changed, which in the program spinlock it no longer holds:
\* there the second and third addresses are right because nobody else swaps.
THEOREM OwnUnlocksCorrect == SafeReleases /\ Spec => []OwnUnlocks
<1>1. Inv => OwnUnlocks
  BY ReleasedHeld DEF Inv, LockInv, OwnUnlocks
<1>2. QED
  BY <1>1, InvCorrect, PTL

-----------------------------------------------------------------------------
(* Links *)

\* A link changes only under its node's lock.
LEMMA LinksLocked ==
  ASSUME Inv, NEW t \in Threads, Step(t), NEW n \in Nodes, next'[n] # next[n]
  PROVE  writer[n] = t
<1>1. t \in Swappers /\ (StoreParent(t) \/ StoreFirst(t) \/ StoreSecond(t))
  BY DEF Step, WalkFrom, WalkOn, Draw, Load, Crash, Swap, SwapLock1, SwapLock2, SwapLock3, SwapUnlock
<1>2. TypeOK /\ SwapHolds(t)
  BY <1>1 DEF Inv, LockInv
<1>3. QED
  BY <1>1, <1>2 DEF StoreParent, StoreFirst, StoreSecond, SwapHolds, TypeOK

\* No link changes under a thread that is about to follow it.
LEMMA StableStepKept ==
  ASSUME Inv, [Next]_vars, NEW t \in Threads, pc[t] = "step", pc'[t] = "step"
  PROVE  next'[iter[t]] = next[iter[t]]
<1> USE ListAssumption
<1>1. TypeOK /\ Exclusive /\ WalkHolds(t) /\ iter[t] \in Nodes
  BY DEF Inv, LockInv, TypeOK
<1>2. writer[iter[t]] \in {t, Nobody}
  BY <1>1 DEF WalkHolds, Exclusive
<1>3. ASSUME NEW u \in Threads, Step(u) PROVE next'[iter[t]] = next[iter[t]]
  <2>1. CASE u = t
    BY <1>3, <2>1 DEF Step, WalkFrom, WalkOn, Draw, Load, Crash, Swap, SwapLock1, SwapLock2, SwapLock3,
       StoreParent, StoreFirst, StoreSecond, SwapUnlock
  <2>2. CASE u # t
    BY <1>1, <1>2, <1>3, <2>2, LinksLocked
  <2>3. QED
    BY <2>1, <2>2
<1>4. CASE UNCHANGED vars
  BY <1>4 DEF vars
<1>5. QED
  BY <1>3, <1>4 DEF Next, Halted, Step, Threads

\* A read lock is enough for the walk: between locking a node and locking its
\* successor its link does not change.
THEOREM StableStepCorrect == SafeReleases /\ Spec => StableStep
<1>1. Inv /\ [Next]_vars =>
        [\A t \in Threads :
           pc[t] = "step" /\ pc'[t] = "step" => next'[iter[t]] = next[iter[t]]]_vars
  BY StableStepKept
<1>2. QED
  BY <1>1, InvCorrect, PTL DEF Spec, StableStep

-----------------------------------------------------------------------------
(* The chain *)

\* The nodes whose links a swap has in its hands.
InHand(s, n) == Storing(s) /\ n \in {iter[s], fst[s]}

\* One swap at most has a node in its hands, and Link undoes its stores.
LEMMA LinkInHand ==
  Inv => \A s \in Swappers, n \in Nodes :
    InHand(s, n) => writer[n] = s /\ Link(n) = IF n = iter[s] THEN fst[s] ELSE snd[s]
<1> SUFFICES ASSUME Inv, NEW s \in Swappers, NEW n \in Nodes, InHand(s, n)
             PROVE  writer[n] = s /\ Link(n) = IF n = iter[s] THEN fst[s] ELSE snd[s]
  OBVIOUS
<1>1. \A u \in Swappers : InHand(u, n) => writer[n] = u
  BY DEF Inv, LockInv, SwapHolds, InHand, Storing
<1>2. \A u \in Swappers : InHand(u, n) => u = s
  BY <1>1
<1> DEFINE c == CHOOSE u \in Swappers : Storing(u) /\ n \in {iter[u], fst[u]}
<1>3. c \in Swappers /\ Storing(c) /\ n \in {iter[c], fst[c]}
  BY DEF InHand
<1>4. c = s
  BY <1>2, <1>3 DEF InHand
<1>5. QED
  BY <1>1, <1>3, <1>4 DEF Link

\* A node in nobody's hands has the link that is stored in it.
LEMMA LinkStored ==
  \A n \in Nodes : (\A s \in Swappers : ~InHand(s, n)) => Link(n) = next[n]
  BY DEF Link, InHand

\* The same in the next state.
LEMMA LinkInHandNext ==
  (Inv => \A s \in Swappers, n \in Nodes :
     InHand(s, n) => writer[n] = s /\ Link(n) = IF n = iter[s] THEN fst[s] ELSE snd[s])'
  BY LinkInHand, PTL

LEMMA LinkStoredNext ==
  (\A n \in Nodes : (\A s \in Swappers : ~InHand(s, n)) => Link(n) = next[n])'
  BY LinkStored, PTL

\* No step but the last store of a swap changes a link, counting the stores of a
\* swap at the last one.
LEMMA LinkKept ==
  ASSUME Inv, Inv', NEW t \in Threads, Step(t), ~(t \in Swappers /\ StoreSecond(t)), NEW n \in Nodes
  PROVE  Link(n)' = Link(n)
<1>1. Frame(t) /\ TypeOK
  BY FrameStep DEF Inv
<1>2. \A s \in Swappers \ {t} : InHand(s, n)' <=> InHand(s, n)
  BY <1>1 DEF Frame, InHand, Storing, Threads
<1>3. CASE \E s \in Swappers \ {t} : InHand(s, n)
  <2>1. PICK s \in Swappers \ {t} : InHand(s, n)
    BY <1>3
  <2>2. Link(n) = IF n = iter[s] THEN fst[s] ELSE snd[s]
    BY <2>1, LinkInHand
  <2>3. InHand(s, n)'
    BY <1>2, <2>1
  <2>4. Link(n)' = IF n = iter'[s] THEN fst'[s] ELSE snd'[s]
    BY <2>3, LinkInHandNext
  <2>5. QED
    BY <1>1, <2>2, <2>4 DEF Frame, Threads
<1>4. CASE \A s \in Swappers \ {t} : ~InHand(s, n)
  <2>1. CASE t \in Swappers /\ StoreParent(t)
    <3>1. /\ SwapHolds(t) /\ pc[t] = "store1" /\ pc'[t] = "store2"
          /\ UNCHANGED <<iter, fst, snd>> /\ next' = [next EXCEPT ![iter[t]] = snd[t]]
      BY <1>1, <2>1 DEF Inv, LockInv, StoreParent, Goto, swapVars, TypeOK
    <3>2. Link(n) = next[n]
      BY <1>4, <3>1, LinkStored DEF InHand, Storing
    <3>3. next[iter[t]] = fst[t] /\ next[fst[t]] = snd[t]
      BY <3>1 DEF SwapHolds
    <3>4. CASE n \in {iter[t], fst[t]}
      <4>1. InHand(t, n)'
        BY <3>1, <3>4 DEF InHand, Storing
      <4>2. Link(n)' = IF n = iter[t] THEN fst[t] ELSE snd[t]
        BY <2>1, <3>1, <4>1, LinkInHandNext
      <4>3. QED
        BY <3>2, <3>3, <3>4, <4>2
    <3>5. CASE n \notin {iter[t], fst[t]}
      <4>1. \A s \in Swappers : ~InHand(s, n)'
        BY <1>2, <1>4, <3>1, <3>5 DEF InHand
      <4>2. Link(n)' = next'[n]
        BY <4>1, LinkStoredNext
      <4>3. QED
        BY <1>1, <3>1, <3>2, <3>5, <4>2 DEF TypeOK
    <3>6. QED
      BY <3>4, <3>5
  <2>2. CASE t \in Swappers /\ StoreFirst(t)
    <3>1. /\ pc[t] = "store2" /\ pc'[t] = "store3"
          /\ UNCHANGED <<iter, fst, snd>> /\ next' = [next EXCEPT ![fst[t]] = next[snd[t]]]
      BY <1>1, <2>2 DEF StoreFirst, Goto, swapVars, TypeOK
    <3>2. CASE n \in {iter[t], fst[t]}
      <4>1. InHand(t, n) /\ InHand(t, n)'
        BY <3>1, <3>2 DEF InHand, Storing
      <4>2. QED
        BY <2>2, <3>1, <4>1, LinkInHand, LinkInHandNext
    <3>3. CASE n \notin {iter[t], fst[t]}
      <4>1. \A s \in Swappers : ~InHand(s, n) /\ ~InHand(s, n)'
        BY <1>2, <1>4, <3>1, <3>3 DEF InHand
      <4>2. Link(n) = next[n] /\ Link(n)' = next'[n]
        BY <4>1, LinkStored, LinkStoredNext
      <4>3. QED
        BY <1>1, <3>1, <3>3, <4>2 DEF TypeOK
    <3>4. QED
      BY <3>2, <3>3
  <2>3. CASE ~(t \in Swappers /\ (StoreParent(t) \/ StoreFirst(t)))
    <3>1. next' = next
      BY <2>3 DEF Step, WalkFrom, WalkOn, Draw, Load, Crash, Swap, SwapLock1, SwapLock2, SwapLock3,
         SwapUnlock
    <3>2. t \in Swappers => ~Storing(t) /\ ~Storing(t)'
      BY <1>1, <2>3 DEF Step, WalkFrom, WalkOn, Draw, Load, Decide, Crash, Swap, SwapLock1, SwapLock2,
         SwapLock3, SwapUnlock, Goto, Top, Storing, TypeOK
    <3>3. \A s \in Swappers : ~InHand(s, n) /\ ~InHand(s, n)'
      BY <1>2, <1>4, <3>2 DEF InHand
    <3>4. QED
      BY <3>1, <3>3, LinkStored, LinkStoredNext
  <2>4. QED
    BY <2>1, <2>2, <2>3
<1>5. QED
  BY <1>3, <1>4

\* The last store exchanges fst and snd in the links of the chain.
LEMMA LinkExchanged ==
  ASSUME Inv, Inv', NEW t \in Swappers, StoreSecond(t), Step(t),
         NEW p, NEW a, NEW b, p = iter[t], a = fst[t], b = snd[t]
  PROVE  /\ p \in Nodes /\ a \in Nodes /\ b \in Nodes /\ p # a /\ p # b /\ a # b
         /\ Link(p) = a /\ Link(a) = b
         /\ Link(p)' = b /\ Link(b)' = a /\ Link(a)' = Link(b)
         /\ \A n \in Nodes \ {p, a, b} : Link(n)' = Link(n)
<1>0. Frame(t) /\ TypeOK /\ t \in Threads /\ SwapHolds(t)
  BY FrameStep DEF Inv, LockInv, Threads
<1>1. /\ pc[t] = "store3" /\ pc'[t] = "unlock1" /\ UNCHANGED <<writer, iter, fst, snd>>
      /\ next' = [next EXCEPT ![b] = a]
  BY <1>0 DEF StoreSecond, Goto, lockVars, swapVars, TypeOK
<1>2. /\ p \in Nodes /\ a \in Nodes /\ b \in Nodes /\ p # a /\ p # b /\ a # b
      /\ writer[p] = t /\ writer[a] = t /\ writer[b] = t
      /\ next[p] = b /\ next[a] = next[b]
  BY <1>0, <1>1 DEF SwapHolds, TypeOK
<1>3. InHand(t, p) /\ InHand(t, a) /\ \A n \in Nodes : ~InHand(t, n)'
  BY <1>1 DEF InHand, Storing
<1>4. Link(p) = a /\ Link(a) = b
  BY <1>2, <1>3, LinkInHand
<1>5. \A s \in Swappers \ {t}, n \in Nodes : InHand(s, n)' <=> InHand(s, n)
  BY <1>0 DEF Frame, InHand, Storing, Threads
<1>6. \A s \in Swappers \ {t}, n \in {p, a, b} : ~InHand(s, n)
  BY <1>2, LinkInHand
<1>7. Link(b) = next[b]
  BY <1>2, <1>6, LinkStored DEF InHand
<1>8. \A n \in {p, a, b} : Link(n)' = next'[n]
  BY <1>2, <1>3, <1>5, <1>6, LinkStoredNext
<1>9. next'[p] = b /\ next'[b] = a /\ next'[a] = next[b]
  BY <1>0, <1>1, <1>2 DEF TypeOK
<1>10. ASSUME NEW n \in Nodes \ {p, a, b} PROVE Link(n)' = Link(n)
  <2>1. next'[n] = next[n]
    BY <1>0, <1>1, <1>2 DEF TypeOK
  <2>2. CASE \E s \in Swappers \ {t} : InHand(s, n)
    <3>1. PICK s \in Swappers \ {t} : InHand(s, n)
      BY <2>2
    <3>2. InHand(s, n)'
      BY <1>5, <3>1
    <3>3. QED
      BY <1>1, <3>1, <3>2, LinkInHand, LinkInHandNext
  <2>3. CASE \A s \in Swappers \ {t} : ~InHand(s, n)
    <3>1. \A s \in Swappers : ~InHand(s, n) /\ ~InHand(s, n)'
      BY <1>3, <1>5, <1>10, <2>3 DEF InHand
    <3>2. QED
      BY <2>1, <3>1, LinkStored, LinkStoredNext
  <2>4. QED
    BY <2>2, <2>3
<1>11. Link(p)' = b /\ Link(b)' = a /\ Link(a)' = Link(b)
  BY <1>7, <1>8, <1>9
<1>12. QED
  BY <1>2, <1>4, <1>10, <1>11

\* c is an order of all nodes that begins with the first one and that L follows.
Chains(c, L) ==
  /\ c \in [Nodes -> Nodes]
  /\ c[1] = first
  /\ \A j, k \in Nodes : c[j] = c[k] => j = k
  /\ \A n \in Nodes : \E k \in Nodes : c[k] = n
  /\ \A k \in Nodes : L[c[k]] = IF k = N THEN NULL ELSE c[k + 1]

\* Exchanging two neighbours that have a predecessor keeps a chain a chain.
LEMMA ChainExchange ==
  ASSUME NEW c, NEW L, Chains(c, L), NEW M,
         NEW p \in Nodes, NEW a \in Nodes, NEW b \in Nodes, p # a, p # b, a # b,
         L[p] = a, L[a] = b, M[p] = b, M[b] = a, M[a] = L[b],
         \A n \in Nodes \ {p, a, b} : M[n] = L[n]
  PROVE  Chains([k \in Nodes |-> IF c[k] = a THEN b ELSE IF c[k] = b THEN a ELSE c[k]], M)
<1> DEFINE d == [k \in Nodes |-> IF c[k] = a THEN b ELSE IF c[k] = b THEN a ELSE c[k]]
<1> USE ListAssumption DEF Nodes, NULL, first
<1>a. c \in [Nodes -> Nodes] /\ c[1] = first
  BY DEF Chains
<1>b. \A j, k \in Nodes : c[j] = c[k] => j = k
  BY DEF Chains
<1>c. \A n \in Nodes : \E k \in Nodes : c[k] = n
  BY DEF Chains
<1>d. \A k \in Nodes : L[c[k]] = IF k = N THEN NULL ELSE c[k + 1]
  BY DEF Chains
<1>1. PICK i \in Nodes : c[i] = p
  BY <1>c
<1>2. i # N /\ c[i + 1] = a /\ i + 1 \in Nodes
  <2>1. a = IF i = N THEN NULL ELSE c[i + 1]
    BY <1>1, <1>d
  <2>2. QED
    BY <2>1
<1>3. i + 1 # N /\ c[i + 2] = b /\ i + 2 \in Nodes
  <2>1. b = IF i + 1 = N THEN NULL ELSE c[(i + 1) + 1]
    BY <1>2, <1>d
  <2>2. (i + 1) + 1 = i + 2
    OBVIOUS
  <2>3. QED
    BY <1>2, <2>1, <2>2
<1>4. \A k \in Nodes : k \notin {i + 1, i + 2} => d[k] = c[k] /\ c[k] # a /\ c[k] # b
  BY <1>2, <1>3, <1>b
<1>5. d[i] = p /\ d[i + 1] = b /\ d[i + 2] = a
  BY <1>1, <1>2, <1>3
<1>6. d \in [Nodes -> Nodes] /\ d[1] = first
  BY <1>1, <1>4, <1>a
<1>7. ASSUME NEW j \in Nodes, NEW k \in Nodes, d[j] = d[k] PROVE j = k
  <2>1. c[j] = c[k]
    BY <1>7
  <2>2. QED
    BY <1>b, <2>1
<1>8. ASSUME NEW n \in Nodes PROVE \E k \in Nodes : d[k] = n
  <2>1. CASE n \in {a, b}
    BY <1>2, <1>3, <1>5, <2>1
  <2>2. CASE n \notin {a, b}
    BY <1>c, <2>2
  <2>3. QED
    BY <2>1, <2>2
<1>9. ASSUME NEW k \in Nodes PROVE M[d[k]] = IF k = N THEN NULL ELSE d[k + 1]
  <2>1. CASE k = i
    BY <1>2, <1>5, <2>1
  <2>2. CASE k = i + 1
    BY <1>3, <1>5, <2>2
  <2>3. CASE k = i + 2
    <3>1. M[d[k]] = L[c[k]]
      BY <1>3, <1>5, <2>3
    <3>2. k # N => d[k + 1] = c[k + 1]
      BY <1>4, <2>3
    <3>3. QED
      BY <1>d, <3>1, <3>2
  <2>4. CASE k \notin {i, i + 1, i + 2}
    <3>1. d[k] = c[k] /\ c[k] \in Nodes \ {p, a, b}
      BY <1>1, <1>4, <2>4 DEF Chains
    <3>2. M[d[k]] = L[c[k]]
      BY <3>1
    <3>3. k # N => k + 1 \in Nodes /\ k + 1 \notin {i + 1, i + 2}
      BY <2>4
    <3>4. k # N => d[k + 1] = c[k + 1]
      BY <1>4, <3>3
    <3>5. QED
      BY <1>d, <3>2, <3>4
  <2>5. QED
    BY <2>1, <2>2, <2>3, <2>4
<1>10. QED
  BY <1>6, <1>7, <1>8, <1>9 DEF Chains

\* Every step keeps the chain.
LEMMA ChainStep == Inv /\ Inv' /\ OneChain /\ [Next]_vars => OneChain'
<1> SUFFICES ASSUME Inv, Inv', OneChain, [Next]_vars PROVE OneChain'
  OBVIOUS
<1> DEFINE L == [n \in Nodes |-> Link(n)]
           M == [n \in Nodes |-> Link(n)']
<1>1. Chains(chain, L)
  BY DEF Inv, TypeOK, OneChain, Chains
<1>2. ASSUME Chains(chain', M) PROVE OneChain'
  BY <1>2 DEF Inv, TypeOK, OneChain, Chains
<1>3. ASSUME chain' = chain, \A n \in Nodes : Link(n)' = Link(n) PROVE OneChain'
  <2>1. M = L
    BY <1>3
  <2> HIDE DEF L, M
  <2>2. QED
    BY <1>1, <1>2, <1>3, <2>1
<1>4. ASSUME NEW t \in Threads, Step(t), ~(t \in Swappers /\ StoreSecond(t)) PROVE OneChain'
  <2>1. chain' = chain
    BY <1>4 DEF Step, WalkFrom, WalkOn, Draw, Load, Crash, Swap, SwapLock1, SwapLock2, SwapLock3,
       StoreParent, StoreFirst, SwapUnlock
  <2>2. QED
    BY <1>3, <1>4, <2>1, LinkKept
<1>5. ASSUME NEW t \in Swappers, StoreSecond(t) PROVE OneChain'
  <2>1. Step(t)
    BY <1>5 DEF Step, Swap
  <2>2. PICK p, a, b : p = iter[t] /\ a = fst[t] /\ b = snd[t]
    OBVIOUS
  <2>3. /\ p \in Nodes /\ a \in Nodes /\ b \in Nodes /\ p # a /\ p # b /\ a # b
        /\ L[p] = a /\ L[a] = b /\ M[p] = b /\ M[b] = a /\ M[a] = L[b]
        /\ \A n \in Nodes \ {p, a, b} : M[n] = L[n]
    BY <1>5, <2>1, <2>2, LinkExchanged
  <2>4. chain' = [k \in Nodes |-> IF chain[k] = a THEN b ELSE IF chain[k] = b THEN a ELSE chain[k]]
    BY <1>5, <2>2 DEF StoreSecond, Exchanged
  <2> HIDE DEF L, M
  <2>5. Chains(chain', M)
    BY <1>1, <2>3, <2>4, ChainExchange
  <2>6. QED
    BY <1>2, <2>5
<1>6. CASE UNCHANGED vars
  BY <1>6 DEF vars, OneChain, Link, Storing
<1>7. QED
  BY <1>4, <1>5, <1>6 DEF Next, Halted, Step, Threads

\* main's list is a chain.
LEMMA ChainInit == Init => OneChain
<1> SUFFICES ASSUME Init PROVE OneChain
  OBVIOUS
<1>1. \A n \in Nodes : Link(n) = next[n]
  BY DEF Init, Link, Storing, Top, Threads
<1>2. QED
  BY <1>1, ListAssumption DEF Init, OneChain, Nodes, NULL, first

\* However many threads walk and swap (one swapping in the program spinlock), over
\* links or over nodes that others are swapping, the links stay one chain of all
\* nodes from list->first on.
THEOREM OneChainCorrect == SafeReleases /\ Spec => []OneChain
  BY ChainInit, ChainStep, InvCorrect, PTL DEF Spec

-----------------------------------------------------------------------------
(* Waiting *)

\* What each place of a thread has locked.
Holding(t) ==
  CASE pc[t] \in {"step", "lock2"} -> {iter[t]}
    [] pc[t] = "lock3" -> {iter[t], next[iter[t]]}
    [] pc[t] \in {"store1", "store2", "store3", "unlock1"} -> {iter[t], fst[t], snd[t]}
    [] pc[t] = "unlock2" -> {snd[t], IF Program = "spinlock" THEN fst[t] ELSE iter[t]}
    [] pc[t] = "unlock3" -> {IF Program = "spinlock" THEN fst[t] ELSE iter[t]}
    [] OTHER -> {}

\* A thread holds no other locks, and read locks only on its walk.
OnlyHeld ==
  \A t \in Threads, n \in Nodes :
    /\ writer[n] = t => n \in Holding(t)
    /\ t \in readers[n] => n \in Holding(t) /\ pc[t] = "step"

\* A step takes locks for its own thread only.
LEMMA GainsOwn ==
  ASSUME Inv, NEW t \in Threads, Step(t), NEW n \in Nodes
  PROVE  writer'[n] \in {writer[n], t, Nobody} /\ readers'[n] \subseteq readers[n] \cup {t}
<1>1. LockType /\ TypeOK
  BY DEF Inv, TypeOK, LockType
<1>2. ASSUME NEW m \in Nodes, WriteLock(t, m) \/ WalkLock(t, m) \/ Unlock(t, m)
      PROVE  writer'[n] \in {writer[n], t, Nobody} /\ readers'[n] \subseteq readers[n] \cup {t}
  BY <1>1, <1>2 DEF LockType, WriteLock, WalkLock, Unlock
<1>3. ASSUME UNCHANGED lockVars
      PROVE  writer'[n] \in {writer[n], t, Nobody} /\ readers'[n] \subseteq readers[n] \cup {t}
  BY <1>1, <1>3 DEF lockVars
<1>4. iter[t] \in Nodes
  BY <1>1 DEF TypeOK
<1>5. CASE WalkFrom(t) \/ WalkOn(t)
  BY <1>2, <1>4, <1>5 DEF WalkFrom, WalkOn
<1>6. CASE t \in Swappers /\ (SwapLock1(t) \/ SwapLock2(t) \/ SwapLock3(t))
  <2>1. Second(t) \in Nodes \cup {NULL} /\ Third(t) \in Nodes \cup {NULL}
    BY <1>1, <1>4 DEF Second, Third, TypeOK
  <2>2. QED
    BY <1>2, <1>3, <1>4, <1>6, <2>1 DEF SwapLock1, SwapLock2, SwapLock3, Crash
<1>7. CASE t \in Swappers /\ SwapUnlock(t)
  <2>1. Released(t) \in Nodes
    BY <1>7, ReleasedHeld DEF Inv, LockInv, SwapUnlock
  <2>2. QED
    BY <1>2, <1>7, <2>1 DEF SwapUnlock
<1>8. CASE t \in Swappers /\ (Draw(t) \/ Load(t) \/ StoreParent(t) \/ StoreFirst(t)
                              \/ StoreSecond(t))
  BY <1>3, <1>8 DEF Draw, Load, Crash, StoreParent, StoreFirst, StoreSecond
<1>9. QED
  BY <1>5, <1>6, <1>7, <1>8 DEF Step, Swap

\* What a thread holds stays as it is while others move.
LEMMA OthersHold ==
  ASSUME Inv, OnlyHeld, NEW t \in Threads, Step(t), NEW u \in Threads, u # t, NEW n \in Nodes
  PROVE  /\ writer'[n] = u => n \in Holding(u)'
         /\ u \in readers'[n] => n \in Holding(u)' /\ pc'[u] = "step"
<1>1. Frame(t) /\ TypeOK
  BY FrameStep DEF Inv
<1>2. /\ pc'[u] = pc[u] /\ iter'[u] = iter[u]
      /\ u \in Swappers => fst'[u] = fst[u] /\ snd'[u] = snd[u]
  BY <1>1 DEF Frame
<1>3. pc[u] = "lock3" => u \in Swappers /\ next'[iter[u]] = next[iter[u]]
  <2> SUFFICES ASSUME pc[u] = "lock3" PROVE u \in Swappers /\ next'[iter[u]] = next[iter[u]]
    OBVIOUS
  <2>1. u \in Swappers
    BY <1>1 DEF TypeOK
  <2>2. writer[iter[u]] = u /\ iter[u] \in Nodes
    BY <1>1, <2>1 DEF Inv, LockInv, SwapHolds, TypeOK
  <2>3. QED
    BY <1>1, <2>1, <2>2 DEF Frame
<1>4. pc[u] \notin {"walk", "step"} => u \in Swappers
  BY <1>1 DEF TypeOK
<1>5. Holding(u)' = Holding(u)
  BY <1>2, <1>3, <1>4 DEF Holding
<1>6. u # Nobody
  BY ListAssumption
<1>7. writer'[n] = u => writer[n] = u
  BY <1>6, GainsOwn
<1>8. u \in readers'[n] => u \in readers[n]
  BY GainsOwn
<1>9. QED
  BY <1>2, <1>5, <1>7, <1>8 DEF OnlyHeld

\* A thread that unlocks a node no longer holds it.
LEMMA UnlockedGone ==
  ASSUME TypeOK, Exclusive, NEW t \in Threads, NEW n \in Nodes, Unlock(t, n),
         writer[n] = t \/ t \in readers[n]
  PROVE  /\ writer'[n] # t /\ t \notin readers'[n]
         /\ \A m \in Nodes \ {n} : writer'[m] = writer[m] /\ readers'[m] = readers[m]
<1>1. t # Nobody
  BY ListAssumption
<1>2. writer[n] # Nobody => readers[n] = {}
  BY DEF Exclusive
<1>3. LockType
  BY DEF TypeOK, LockType
<1>4. QED
  BY <1>1, <1>2, <1>3 DEF Unlock, LockType

\* A thread takes and releases what its place says.
LEMMA ActorHolds ==
  ASSUME Inv, OnlyHeld, NEW t \in Threads, Step(t), NEW n \in Nodes
  PROVE  /\ writer'[n] = t => n \in Holding(t)'
         /\ t \in readers'[n] => n \in Holding(t)' /\ pc'[t] = "step"
<1>1. /\ TypeOK /\ Exclusive /\ iter[t] \in Nodes /\ pc \in [Threads -> Labels] /\ WalkHolds(t)
      /\ iter \in [Threads -> Nodes]
      /\ writer \in [Nodes -> Threads \cup {Nobody}] /\ readers \in [Nodes -> SUBSET Threads]
  BY DEF Inv, LockInv, TypeOK
<1>2. /\ writer[n] = t => n \in Holding(t)
      /\ t \in readers[n] => n \in Holding(t) /\ pc[t] = "step"
  BY DEF OnlyHeld
<1>3. CASE WalkFrom(t)
  <2>1. Holding(t) = {} /\ pc'[t] = "step" /\ Holding(t)' = {iter[t]}
    BY <1>1, <1>3 DEF WalkFrom, Goto, Holding
  <2>2. \/ WriteLock(t, iter[t])
        \/ readers' = [readers EXCEPT ![iter[t]] = @ \cup {t}] /\ UNCHANGED writer
    BY <1>3 DEF WalkFrom, WalkLock
  <2>3. QED
    BY <1>1, <1>2, <2>1, <2>2 DEF WriteLock
<1>4. CASE WalkOn(t)
  <2>1. Holding(t) = {iter[t]} /\ Unlock(t, iter[t])
    BY <1>4 DEF WalkOn, Holding
  <2>2. writer[iter[t]] = t \/ t \in readers[iter[t]]
    BY <1>1, <1>4 DEF WalkOn, WalkHolds
  <2>3. writer'[n] # t /\ t \notin readers'[n]
    BY <1>1, <1>2, <2>1, <2>2, UnlockedGone
  <2>4. QED
    BY <2>3
<1>5. CASE t \in Swappers /\ (Draw(t) \/ Load(t))
  <2>1. Holding(t) = {} /\ UNCHANGED lockVars
    BY <1>5 DEF Draw, Load, Crash, Holding
  <2>2. QED
    BY <1>2, <2>1 DEF lockVars
<1>6. CASE t \in Swappers /\ Crash
  BY <1>2, <1>6 DEF Crash, lockVars, swapVars, Holding
<1>7. ASSUME NEW m \in Nodes, WriteLock(t, m), Holding(t)' = Holding(t) \cup {m}, pc[t] # "step"
      PROVE  /\ writer'[n] = t => n \in Holding(t)'
             /\ t \in readers'[n] => n \in Holding(t)' /\ pc'[t] = "step"
  BY <1>1, <1>2, <1>7 DEF WriteLock
<1>8. CASE t \in Swappers /\ SwapLock1(t)
  <2>1. Holding(t) = {} /\ Holding(t)' = {iter[t]}
    BY <1>1, <1>8 DEF SwapLock1, Goto, Holding
  <2>2. QED
    BY <1>1, <1>7, <1>8, <2>1 DEF SwapLock1
<1>9. CASE t \in Swappers /\ SwapLock2(t) /\ ~Crash
  <2>1. Second(t) \in Nodes
    BY <1>1, <1>9 DEF SwapLock2, Second, TypeOK
  <2>2. Holding(t) = {iter[t]} /\ Holding(t)' = {iter[t], Second(t)}
    BY <1>1, <1>9 DEF SwapLock2, Goto, Holding, Second
  <2>3. QED
    BY <1>7, <1>9, <2>1, <2>2 DEF SwapLock2
<1>10. CASE t \in Swappers /\ SwapLock3(t) /\ ~Crash
  <2>1. Third(t) \in Nodes
    BY <1>1, <1>10 DEF SwapLock3, Second, Third, TypeOK
  <2>2. Holding(t) = {iter[t], Second(t)}
    BY <1>1, <1>10 DEF SwapLock3, Holding, Second
  <2>3. /\ pc'[t] = "store1" /\ iter' = iter /\ fst'[t] = Second(t) /\ snd'[t] = Third(t)
    BY <1>1, <1>10 DEF SwapLock3, Goto, TypeOK
  <2>4. Holding(t)' = {iter[t], Second(t), Third(t)}
    BY <2>3 DEF Holding
  <2>5. QED
    BY <1>7, <1>10, <2>1, <2>2, <2>4 DEF SwapLock3
<1>11. CASE t \in Swappers /\ (StoreParent(t) \/ StoreFirst(t) \/ StoreSecond(t))
  <2>1. Holding(t)' = Holding(t) /\ UNCHANGED lockVars /\ pc[t] # "step"
    BY <1>1, <1>11 DEF StoreParent, StoreFirst, StoreSecond, Goto, swapVars, Holding
  <2>2. QED
    BY <1>2, <2>1 DEF lockVars
<1>12. CASE t \in Swappers /\ SwapUnlock(t)
  <2>1. /\ SwapHolds(t) /\ Unlock(t, Released(t)) /\ pc[t] \in {"unlock1", "unlock2", "unlock3"}
        /\ Released(t) \in Nodes /\ writer[Released(t)] = t
    BY <1>12, ReleasedHeld DEF SwapUnlock, Inv, LockInv
  <2>2. /\ writer'[Released(t)] # t /\ t \notin readers'[Released(t)]
        /\ \A m \in Nodes \ {Released(t)} : writer'[m] = writer[m] /\ readers'[m] = readers[m]
    BY <1>1, <2>1, UnlockedGone
  <2>3. t \notin readers'[n] /\ (writer'[n] = t => n \in Holding(t) \ {Released(t)})
    BY <1>2, <2>1, <2>2
  <2>4. CASE pc[t] = "unlock1"
    <3>1. Holding(t) = {iter[t], fst[t], snd[t]}
      BY <2>4 DEF Holding
    <3>2. Released(t) = IF Program = "spinlock" THEN iter[t] ELSE fst[t]
      BY <1>1, <2>1, <2>4, ListAssumption
         DEF Released, NearestFirst, FarthestFirst, Third, Second, SwapHolds, Nodes, NULL
    <3>3. Holding(t)' = {snd[t], IF Program = "spinlock" THEN fst[t] ELSE iter[t]}
      BY <1>1, <1>12, <2>4 DEF SwapUnlock, Goto, swapVars, Holding
    <3>4. QED
      BY <2>3, <3>1, <3>2, <3>3
  <2>5. CASE pc[t] = "unlock2"
    <3>1. Holding(t) = {snd[t], IF Program = "spinlock" THEN fst[t] ELSE iter[t]}
      BY <2>5 DEF Holding
    <3>2. Released(t) = snd[t]
      BY <2>1, <2>5 DEF Released, NearestFirst, FarthestFirst, Second, SwapHolds
    <3>3. Holding(t)' = {IF Program = "spinlock" THEN fst[t] ELSE iter[t]}
      BY <1>1, <1>12, <2>5 DEF SwapUnlock, Goto, swapVars, Holding
    <3>4. QED
      BY <2>3, <3>1, <3>2, <3>3
  <2>6. CASE pc[t] = "unlock3"
    <3>1. Holding(t) = {IF Program = "spinlock" THEN fst[t] ELSE iter[t]}
      BY <2>6 DEF Holding
    <3>2. Released(t) = IF Program = "spinlock" THEN fst[t] ELSE iter[t]
      BY <2>1, <2>6, ListAssumption
         DEF Released, NearestFirst, FarthestFirst, Third, Second, SwapHolds, SpinHolds, Nodes, NULL
    <3>3. QED
      BY <2>3, <3>1, <3>2
  <2>7. QED
    BY <2>1, <2>4, <2>5, <2>6
<1>13. QED
  BY <1>3, <1>4, <1>5, <1>6, <1>8, <1>9, <1>10, <1>11, <1>12 DEF Step, Swap

LEMMA OnlyHeldStep == Inv /\ OnlyHeld /\ [Next]_vars => OnlyHeld'
<1> SUFFICES ASSUME Inv, OnlyHeld, [Next]_vars PROVE OnlyHeld'
  OBVIOUS
<1>1. ASSUME NEW t \in Threads, Step(t) PROVE OnlyHeld'
  <2>1. ASSUME NEW u \in Threads, NEW n \in Nodes
        PROVE  /\ writer'[n] = u => n \in Holding(u)'
               /\ u \in readers'[n] => n \in Holding(u)' /\ pc'[u] = "step"
    BY <1>1, ActorHolds, OthersHold
  <2>2. QED
    BY <2>1 DEF OnlyHeld
<1>2. CASE UNCHANGED vars
  BY <1>2 DEF vars, OnlyHeld, Holding
<1>3. QED
  BY <1>1, <1>2 DEF Next, Halted, Step, Threads

LEMMA OnlyHeldAlways == SafeReleases /\ Spec => []OnlyHeld
<1>1. Init => OnlyHeld
  BY ListAssumption DEF Init, OnlyHeld
<1>2. QED
  BY <1>1, OnlyHeldStep, InvCorrect, PTL DEF Spec

\* A set of natural numbers has a least element.
LEMMA LeastElement ==
  ASSUME NEW S \in SUBSET Nat, S # {}
  PROVE  \E x \in S : \A y \in S : x <= y
<1>1. PICK x \in S : \A y \in S : ~(<<y, x>> \in OpToRel(<, Nat))
  BY WFMin, NatLessThanWellFounded, Zenon
<1>2. \A y \in S : ~(y < x)
  BY <1>1 DEF OpToRel
<1>3. \A y \in S : x <= y
  <2>1. \A a, b \in Nat : ~(b < a) => a <= b
    OBVIOUS
  <2>2. QED
    BY <1>2, <2>1
<1>4. QED
  BY <1>3

\* Places of the chain that have with each place the next one, and with the last
\* one the first, are all places.
LEMMA CircleWhole ==
  ASSUME NEW K \in SUBSET Nodes, K # {},
         \A k \in K : k # N => k + 1 \in K, N \in K => 1 \in K
  PROVE  K = Nodes
<1> USE ListAssumption DEF Nodes
<1>1. N \in K
  <2> DEFINE D == {d \in Nat : \E k \in K : d = N - k}
  <2>1. D # {}
    <3>1. PICK k \in K : TRUE
      OBVIOUS
    <3>2. N - k \in D
      BY <3>1
    <3>3. QED
      BY <3>2
  <2>2. PICK d \in D : \A e \in D : d <= e
    BY <2>1, LeastElement
  <2>3. PICK k \in K : d = N - k
    BY <2>2
  <2>4. CASE k = N
    BY <2>4
  <2>5. CASE k # N
    <3>1. k + 1 \in K /\ N - (k + 1) \in Nat
      BY <2>3, <2>5
    <3>2. N - (k + 1) \in D
      BY <3>1
    <3>3. QED
      BY <2>2, <2>3, <3>1, <3>2
  <2>6. QED
    BY <2>4, <2>5
<1>2. ASSUME Nodes \ K # {} PROVE FALSE
  <2>1. Nodes \ K \in SUBSET Nat
    OBVIOUS
  <2>2. PICK m \in Nodes \ K : \A e \in Nodes \ K : m <= e
    BY <1>2, <2>1, LeastElement
  <2>3. m # 1
    BY <1>1, <2>2
  <2>4. m - 1 \in K
    BY <2>2, <2>3
  <2>5. (m - 1) + 1 \in K
    BY <2>2, <2>4
  <2>6. QED
    BY <2>2, <2>5
<1>3. QED
  BY <1>2

\* The nodes somebody has locked.
Held == {n \in Nodes : writer[n] # Nobody \/ readers[n] # {}}

\* Where all threads wait, with each locked node the one after it is locked.
LEMMA HeldClosed ==
  ASSUME Inv, OnlyHeld, \A t \in Threads : Blocked(t), NEW n \in Held
  PROVE  (IF next[n] = NULL THEN first ELSE next[n]) \in Held
<1>1. TypeOK /\ LockType /\ Nobody \notin Threads
  BY ListAssumption DEF Inv, TypeOK, LockType
<1>2. PICK t \in Threads : writer[n] = t \/ t \in readers[n]
  BY <1>1 DEF LockType, Held
<1>3. n \in Holding(t) /\ n \in Nodes
  BY <1>2 DEF OnlyHeld, Held
<1>4. pc[t] \in {"walk", "step", "lock1", "lock2", "lock3"} /\ Blocked(t)
  BY DEF Blocked
<1>5. \A m \in Nodes : ~CanWalk(m) \/ ~CanWrite(m) => m \in Held
  BY DEF CanWalk, CanRead, CanWrite, Held
<1>6. CASE pc[t] = "step"
  <2>1. n = iter[t] /\ ~CanWalk(Successor(t))
    BY <1>3, <1>4, <1>6 DEF Holding, Blocked
  <2>2. Successor(t) \in Nodes
    BY <1>1, SuccessorNode
  <2>3. QED
    BY <1>5, <2>1, <2>2 DEF Successor
<1>7. CASE pc[t] = "lock2"
  <2>1. n = iter[t] /\ next[n] # NULL /\ ~CanWrite(next[n])
    BY <1>3, <1>4, <1>7 DEF Holding, Blocked, Second
  <2>2. next[n] \in Nodes
    BY <1>1, <1>3, <2>1 DEF TypeOK
  <2>3. QED
    BY <1>5, <2>1, <2>2
<1>8. CASE pc[t] = "lock3"
  <2>0. t \in Swappers
    BY <1>1, <1>8 DEF TypeOK
  <2>1. SwapHolds(t) /\ NULL \notin Nodes
    BY <2>0, ListAssumption DEF Inv, LockInv, Nodes, NULL
  <2>2. next[iter[t]] \in Nodes /\ writer[next[iter[t]]] = t /\ next[iter[t]] # NULL
    BY <1>8, <2>1 DEF SwapHolds, NULL
  <2>3. CASE n = iter[t]
    BY <1>1, <2>2, <2>3 DEF Held
  <2>4. CASE n = next[iter[t]]
    <3>1. next[n] # NULL /\ ~CanWrite(next[n])
      BY <1>4, <1>8, <2>2, <2>4 DEF Blocked, Third, Second
    <3>2. next[n] \in Nodes
      BY <1>1, <1>3, <3>1 DEF TypeOK
    <3>3. QED
      BY <1>5, <3>1, <3>2
  <2>5. QED
    BY <1>3, <1>8, <2>3, <2>4 DEF Holding
<1>9. CASE pc[t] \in {"walk", "lock1"}
  BY <1>3, <1>9 DEF Holding
<1>10. QED
  BY <1>4, <1>6, <1>7, <1>8, <1>9

\* Then all nodes are locked.
LEMMA AllHeld ==
  ASSUME Inv, OnlyHeld, OneChain, Threads # {}, \A t \in Threads : Blocked(t)
  PROVE  Held = Nodes
<1> DEFINE K == {k \in Nodes : chain[k] \in Held}
<1>1. TypeOK /\ chain \in [Nodes -> Nodes] /\ iter \in [Threads -> Nodes]
  BY DEF Inv, TypeOK
<1>2. \A n \in Nodes : Link(n) = next[n]
  <2>1. \A s \in Swappers : ~Storing(s)
    BY DEF Blocked, Storing, Threads
  <2>2. QED
    BY <2>1 DEF Link
<1>3. \A k \in Nodes : next[chain[k]] = IF k = N THEN NULL ELSE chain[k + 1]
  BY <1>1, <1>2 DEF OneChain
<1>4. Held # {}
  <2>1. PICK t \in Threads : Blocked(t)
    OBVIOUS
  <2>2. \A m \in Nodes : ~CanWalk(m) \/ ~CanWrite(m) => m \in Held
    BY DEF CanWalk, CanRead, CanWrite, Held
  <2>3. Successor(t) \in Nodes /\ iter[t] \in Nodes
    BY <1>1, SuccessorNode
  <2>4. Second(t) \in Nodes \cup {NULL} /\ Third(t) \in Nodes \cup {NULL}
    BY <1>1, <2>3 DEF Second, Third, TypeOK
  <2>5. QED
    BY <2>1, <2>2, <2>3, <2>4 DEF Blocked
<1>5. K # {}
  BY <1>4 DEF OneChain, Held
<1>6. ASSUME NEW k \in K, k # N PROVE k + 1 \in K
  <2>1. k + 1 \in Nodes /\ chain[k + 1] \in Nodes /\ NULL \notin Nodes
    <3>1. k \in 1..N
      BY <1>6 DEF Nodes
    <3>2. k + 1 \in 1..N /\ 0 \notin 1..N
      BY <1>6, <3>1, ListAssumption
    <3>3. QED
      BY <1>1, <3>2 DEF Nodes, NULL
  <2>2. next[chain[k]] = chain[k + 1]
    BY <1>3, <1>6
  <2>3. chain[k + 1] \in Held
    BY <2>1, <2>2, HeldClosed
  <2>4. QED
    BY <2>1, <2>3
<1>7. ASSUME N \in K PROVE 1 \in K
  <2>1. next[chain[N]] = NULL
    BY <1>3, <1>7
  <2>2. first \in Held
    BY <1>7, <2>1, HeldClosed
  <2>3. QED
    BY <2>2, ListAssumption DEF OneChain, Nodes
<1>8. K = Nodes
  <2>1. K \in SUBSET Nodes
    OBVIOUS
  <2> HIDE DEF K
  <2>2. QED
    BY <1>5, <1>6, <1>7, <2>1, CircleWhole
<1>9. QED
  BY <1>8 DEF OneChain, Held

\* A walking thread holds one node, a swapping one that waits two.
LEMMA HeldBound ==
  ASSUME Inv, OnlyHeld, \A t \in Threads : Blocked(t),
         IsFiniteSet(Comparers), IsFiniteSet(Swappers)
  PROVE  /\ IsFiniteSet(Held)
         /\ Cardinality(Held) <= Cardinality(Comparers) + 2 * Cardinality(Swappers)
<1> DEFINE near == {iter[t] : t \in Threads}
           far == {next[iter[s]] : s \in Swappers}
<1>1. Held \subseteq near \cup far
  <2> SUFFICES ASSUME NEW n \in Held PROVE n \in near \cup far
    OBVIOUS
  <2>1. TypeOK /\ LockType /\ Nobody \notin Threads
    BY ListAssumption DEF Inv, TypeOK, LockType
  <2>2. PICK t \in Threads : writer[n] = t \/ t \in readers[n]
    BY <2>1 DEF LockType, Held
  <2>3. n \in Holding(t)
    BY <2>2 DEF OnlyHeld, Held
  <2>4. pc[t] \in {"walk", "step", "lock1", "lock2", "lock3"}
    BY DEF Blocked
  <2>5. pc[t] = "lock3" => t \in Swappers
    BY <2>1 DEF TypeOK
  <2>6. QED
    BY <2>3, <2>4, <2>5 DEF Holding
<1>2. /\ IsFiniteSet(Threads)
      /\ Cardinality(Threads) <= Cardinality(Comparers) + Cardinality(Swappers)
  <2>1. /\ Comparers \cap Swappers = {}
        /\ Cardinality(Comparers) \in Nat /\ Cardinality(Swappers) \in Nat
    BY ListAssumption, FS_CardinalityType
  <2>2. QED
    BY <2>1, FS_Union, FS_EmptySet DEF Threads
<1>3. IsFiniteSet(near) /\ Cardinality(near) <= Cardinality(Threads)
  <2> DEFINE f == [t \in Threads |-> iter[t]]
  <2>1. f \in Surjection(Threads, near)
    BY DEF Surjection
  <2>2. QED
    BY <1>2, <2>1, FS_Surjection
<1>4. IsFiniteSet(far) /\ Cardinality(far) <= Cardinality(Swappers)
  <2> DEFINE f == [s \in Swappers |-> next[iter[s]]]
  <2>1. f \in Surjection(Swappers, far)
    BY DEF Surjection
  <2>2. QED
    BY <2>1, FS_Surjection
<1> HIDE DEF near, far
<1>5. /\ IsFiniteSet(near \cup far)
      /\ Cardinality(near \cup far) <= Cardinality(near) + Cardinality(far)
  <2>1. IsFiniteSet(near \cap far)
    BY <1>3, FS_Subset
  <2>2. /\ Cardinality(near) \in Nat /\ Cardinality(far) \in Nat
        /\ Cardinality(near \cap far) \in Nat
    BY <1>3, <1>4, <2>1, FS_CardinalityType
  <2>3. QED
    BY <1>3, <1>4, <2>2, FS_Union
<1>6. IsFiniteSet(Held) /\ Cardinality(Held) <= Cardinality(near \cup far)
  BY <1>1, <1>5, FS_Subset
<1>7. /\ Cardinality(near) \in Nat /\ Cardinality(far) \in Nat /\ Cardinality(near \cup far) \in Nat
      /\ Cardinality(Comparers) \in Nat /\ Cardinality(Swappers) \in Nat
      /\ Cardinality(Threads) \in Nat /\ Cardinality(Held) \in Nat
  BY <1>2, <1>3, <1>4, <1>5, <1>6, FS_CardinalityType
<1>8. QED
  BY <1>2, <1>3, <1>4, <1>5, <1>6, <1>7

\* In a list longer than the nodes its threads can hold at once, walking threads
\* with one and swapping threads with two, never all of them wait: the circle over
\* list->first, where the order of locking breaks, does not close.  The programs
\* have three threads of each kind and 100000 nodes.
THEOREM NeverAllBlockedCorrect ==
  ASSUME IsFiniteSet(Comparers), IsFiniteSet(Swappers), Threads # {},
         Cardinality(Comparers) + 2 * Cardinality(Swappers) < N
  PROVE  SafeReleases /\ Spec => []NeverAllBlocked
<1>1. ASSUME Inv, OnlyHeld, OneChain PROVE NeverAllBlocked
  <2> SUFFICES ASSUME \A t \in Threads : Blocked(t) PROVE FALSE
    BY DEF NeverAllBlocked
  <2>1. Held = Nodes
    BY <1>1, AllHeld
  <2>2. Cardinality(Nodes) <= Cardinality(Comparers) + 2 * Cardinality(Swappers)
    BY <1>1, <2>1, HeldBound
  <2>3. N \in Nat /\ N >= 4 /\ Cardinality(Nodes) = N
    BY ListAssumption, FS_Interval DEF Nodes
  <2>4. Cardinality(Comparers) \in Nat /\ Cardinality(Swappers) \in Nat
    BY FS_CardinalityType
  <2>5. QED
    BY <2>2, <2>3, <2>4
<1>2. QED
  BY <1>1, InvCorrect, OnlyHeldAlways, OneChainCorrect, PTL

-----------------------------------------------------------------------------
(* One swapping thread, in each of the three programs *)

\* The types the links and the guard need, whatever happens to the locks.
LinkType ==
  /\ next \in [Nodes -> Nodes \cup {NULL}]
  /\ PlaceType
  /\ iter \in [Threads -> Nodes]
  /\ fst \in [Swappers -> Nodes \cup {NULL}] /\ snd \in [Swappers -> Nodes \cup {NULL}]
  /\ guard \in [Swappers -> Tests]
  /\ \A s \in Swappers :
       pc[s] \in {"store1", "store2", "store3"} => fst[s] \in Nodes /\ snd[s] \in Nodes

\* What the guard has found so far, and where its next load is.
GuardFound(s) ==
  /\ pc[s] = "guard" =>
       LET g == guard[s] IN
       /\ g.test \in 1..3 /\ g.left \in 1..(g.test)
       /\ g.left = g.test => g.at = iter[s]
       /\ g.left = g.test - 1 => g.at = Second(s)
       /\ g.test > 1 => Second(s) # NULL
       /\ g.test = 3 => Third(s) # NULL
  /\ pc[s] \in {"lock1", "lock2", "lock3"} => Second(s) # NULL /\ Third(s) # NULL

FoundInv == LinkType /\ \A s \in Swappers : GuardFound(s)

\* Steps that leave the links and the guards alone keep their types.
LEMMA LinkTypeKept ==
  ASSUME LinkType, PlaceType', UNCHANGED <<next, guard>>, iter' \in [Threads -> Nodes],
         fst' \in [Swappers -> Nodes \cup {NULL}], snd' \in [Swappers -> Nodes \cup {NULL}],
         \A s \in Swappers : pc'[s] \in {"store1", "store2", "store3"} =>
           fst'[s] \in Nodes /\ snd'[s] \in Nodes
  PROVE  LinkType'
  BY DEF LinkType

\* Walking does not change what the guard of a swapping thread has found.
LEMMA WalkFound ==
  ASSUME FoundInv, NEW t \in Threads, WalkFrom(t) \/ WalkOn(t)
  PROVE  FoundInv'
<1>1. /\ LinkType /\ iter \in [Threads -> Nodes] /\ pc \in [Threads -> Labels] /\ PlaceType
      /\ fst \in [Swappers -> Nodes \cup {NULL}] /\ snd \in [Swappers -> Nodes \cup {NULL}]
      /\ \A s \in Swappers :
           pc[s] \in {"store1", "store2", "store3"} => fst[s] \in Nodes /\ snd[s] \in Nodes
  BY DEF FoundInv, LinkType, PlaceType
<1>2. PICK label \in {"step", "walk", "draw"} :
        Goto(t, label) /\ (t \in Swappers \/ label \in {"walk", "step"})
  BY <1>1 DEF WalkFrom, WalkOn, Top
<1>3. PlaceType'
  BY <1>1, <1>2, PlaceTypes DEF Labels
<1>4. \A u \in Threads : u # t => pc'[u] = pc[u] /\ iter'[u] = iter[u]
  BY <1>1, <1>2 DEF WalkFrom, WalkOn, Goto
<1>5. pc'[t] = label
  BY <1>1, <1>2 DEF Goto
<1>6. UNCHANGED <<next, fst, snd, guard>>
  BY DEF WalkFrom, WalkOn, swapVars
<1>7. iter' \in [Threads -> Nodes]
  <2>1. iter' = iter \/ iter' = [iter EXCEPT ![t] = Successor(t)]
    BY DEF WalkFrom, WalkOn
  <2>2. Successor(t) \in Nodes
    BY <1>1, ListAssumption DEF LinkType, Successor, Nodes, NULL, first
  <2>3. QED
    BY <1>1, <2>1, <2>2
<1>8. \A s \in Swappers : pc'[s] \in {"store1", "store2", "store3"} => pc[s] = pc'[s]
  BY <1>4, <1>5 DEF Threads
<1>9. LinkType'
  BY <1>1, <1>3, <1>6, <1>7, <1>8, LinkTypeKept
<1>10. ASSUME NEW s \in Swappers PROVE GuardFound(s)'
  <2>1. CASE s = t
    BY <1>5, <2>1 DEF GuardFound
  <2>2. CASE s # t
    <3>1. pc'[s] = pc[s] /\ iter'[s] = iter[s] /\ UNCHANGED <<next, guard>>
      BY <1>4, <1>6, <2>2 DEF Threads
    <3>2. GuardFound(s)
      BY DEF FoundInv
    <3>3. QED
      BY <3>1, <3>2 DEF GuardFound, Second, Third
  <2>3. QED
    BY <2>1, <2>2
<1>11. QED
  BY <1>9, <1>10 DEF FoundInv

\* A load of the guard reads one link further.
LEMMA LoadFound ==
  ASSUME LinkType, NEW s \in Swappers, GuardFound(s), Load(s), guard[s].at # NULL
  PROVE  guard' \in [Swappers -> Tests] /\ PlaceType' /\ GuardFound(s)'
         /\ UNCHANGED <<next, iter, fst, snd>>
         /\ pc'[s] \in {"guard", "walk", "lock1"}
<1> DEFINE g == guard[s]
<1> USE DEF Tests, Test
<1>1. /\ pc[s] = "guard" /\ g \in Tests /\ g.test \in 1..3 /\ g.left \in 1..(g.test)
      /\ g.left = g.test => g.at = iter[s]
      /\ g.left = g.test - 1 => g.at = Second(s)
      /\ g.test > 1 => Second(s) # NULL
      /\ g.test = 3 => Third(s) # NULL
  BY DEF LinkType, GuardFound, Load
<1>2. UNCHANGED <<next, iter, fst, snd>>
  BY DEF Load, Crash, swapVars
<1>3. /\ PlaceType /\ pc \in [Threads -> Labels] /\ guard \in [Swappers -> Tests]
      /\ iter[s] \in Nodes /\ s \in Threads
      /\ g.at \in Nodes /\ next[g.at] \in Nodes \cup {NULL}
  BY <1>1 DEF LinkType, PlaceType, Threads
<1>4. Second(s)' = Second(s) /\ Third(s)' = Third(s)
  BY <1>2 DEF Second, Third
<1>5. CASE g.left = 1 /\ (next[g.at] = NULL \/ g.test = 3)
  <2>1. /\ Goto(s, IF next[g.at] = NULL THEN "walk" ELSE "lock1")
        /\ guard' = [guard EXCEPT ![s] = Test(0, NULL)]
    BY <1>5 DEF Load, Decide
  <2>2. PlaceType' /\ pc'[s] = IF next[g.at] = NULL THEN "walk" ELSE "lock1"
    BY <1>3, <2>1, PlaceTypes DEF Labels, Goto
  <2>3. guard' \in [Swappers -> Tests]
    BY <1>3, <2>1 DEF NULL
  <2>4. GuardFound(s)'
    <3>1. pc'[s] = "lock1" => Second(s) # NULL /\ Third(s) # NULL
      BY <1>1, <1>5, <2>2
    <3>2. QED
      BY <1>4, <2>2, <3>1 DEF GuardFound
  <2>5. QED
    BY <1>2, <2>2, <2>3, <2>4
<1>6. CASE g.left = 1 /\ ~(next[g.at] = NULL \/ g.test = 3)
  <2> DEFINE e == Test(g.test + 1, iter[s])
  <2>1. guard' = [guard EXCEPT ![s] = e] /\ UNCHANGED pc
    BY <1>6 DEF Load, Decide
  <2>2. g.test \in {1, 2} /\ g.test + 1 \in 1..3
    BY <1>1, <1>6
  <2>3. e \in Tests /\ guard' \in [Swappers -> Tests] /\ guard'[s] = e
    BY <1>3, <2>1, <2>2
  <2>4. CASE g.test = 1
    <3>1. Second(s) # NULL
      BY <1>1, <1>6, <2>4 DEF Second
    <3>2. guard'[s] = Test(2, iter[s])
      BY <2>3, <2>4
    <3>3. GuardFound(s)'
      BY <1>1, <1>2, <1>4, <2>1, <3>1, <3>2 DEF GuardFound
    <3>4. QED
      BY <1>1, <1>2, <1>3, <2>1, <2>3, <3>3 DEF PlaceType
  <2>5. CASE g.test = 2
    <3>1. Second(s) # NULL /\ Third(s) # NULL
      BY <1>1, <1>6, <2>5 DEF Second, Third
    <3>2. guard'[s] = Test(3, iter[s])
      BY <2>3, <2>5
    <3>3. GuardFound(s)'
      BY <1>1, <1>2, <1>4, <2>1, <3>1, <3>2 DEF GuardFound
    <3>4. QED
      BY <1>1, <1>2, <1>3, <2>1, <2>3, <3>3 DEF PlaceType
  <2>6. QED
    BY <2>2, <2>4, <2>5
<1>7. CASE g.left # 1
  <2> DEFINE e == [test |-> g.test, left |-> g.left - 1, at |-> next[g.at]]
  <2>1. guard' = [guard EXCEPT ![s] = e] /\ UNCHANGED pc
    BY <1>7 DEF Load
  <2>2. g.left - 1 \in 1..(g.test) /\ g.left - 1 # g.test /\ g.left - 1 \in 0..3
    BY <1>1, <1>7
  <2>3. e \in Tests /\ guard' \in [Swappers -> Tests] /\ guard'[s] = e
    BY <1>1, <1>3, <2>1, <2>2
  <2>4. g.left - 1 = g.test - 1 => next[g.at] = Second(s)
    BY <1>1 DEF Second
  <2>5. GuardFound(s)'
    <3>1. /\ e.test = g.test /\ e.left = g.left - 1 /\ e.at = next[g.at]
      OBVIOUS
    <3> HIDE DEF e
    <3>2. QED
      BY <1>1, <1>4, <2>1, <2>2, <2>3, <2>4, <3>1 DEF GuardFound
  <2>6. QED
    BY <1>1, <1>2, <1>3, <2>1, <2>3, <2>5 DEF PlaceType
<1>8. QED
  BY <1>5, <1>6, <1>7

\* Only the swapping thread itself changes links, and not before it has the locks.
LEMMA FoundStep ==
  ASSUME NEW s, Swappers = {s}, FoundInv, [Next]_vars
  PROVE  FoundInv'
<1>1. /\ LinkType /\ GuardFound(s) /\ s \in Swappers /\ s \in Threads
      /\ PlaceType /\ pc \in [Threads -> Labels] /\ iter \in [Threads -> Nodes]
      /\ fst \in [Swappers -> Nodes \cup {NULL}] /\ snd \in [Swappers -> Nodes \cup {NULL}]
      /\ next \in [Nodes -> Nodes \cup {NULL}] /\ guard \in [Swappers -> Tests]
      /\ pc[s] \in {"store1", "store2", "store3"} => fst[s] \in Nodes /\ snd[s] \in Nodes
  BY DEF FoundInv, LinkType, PlaceType, Threads
<1>2. ASSUME LinkType', GuardFound(s)' PROVE FoundInv'
  BY <1>2 DEF FoundInv
<1>3. CASE UNCHANGED vars
  BY <1>1, <1>2, <1>3 DEF vars, swapVars, LinkType, PlaceType, GuardFound, Second, Third
<1>4. CASE Draw(s)
  <2>1. PICK label \in {"walk", "guard"} :
          /\ Goto(s, label)
          /\ guard' = IF label = "guard" THEN [guard EXCEPT ![s] = Test(1, iter[s])] ELSE guard
    BY <1>4 DEF Draw
  <2>2. UNCHANGED <<next, iter, fst, snd>>
    BY <1>4 DEF Draw, swapVars
  <2>3. PlaceType' /\ pc'[s] = label
    BY <1>1, <2>1, PlaceTypes DEF Labels, Goto
  <2>4. Test(1, iter[s]) \in Tests
    BY <1>1 DEF Test, Tests
  <2>5. LinkType'
    BY <1>1, <2>1, <2>2, <2>3, <2>4 DEF LinkType
  <2>6. GuardFound(s)'
    BY <1>1, <2>1, <2>2, <2>3 DEF GuardFound, Test
  <2>7. QED
    BY <1>2, <2>5, <2>6
<1>5. CASE Load(s)
  <2>1. CASE guard[s].at = NULL
    <3>1. Crash
      BY <1>5, <2>1 DEF Load
    <3>2. QED
      BY <1>1, <1>2, <3>1 DEF Crash, swapVars, LinkType, PlaceType, GuardFound, Second, Third
  <2>2. CASE guard[s].at # NULL
    <3>1. /\ guard' \in [Swappers -> Tests] /\ PlaceType' /\ GuardFound(s)'
          /\ UNCHANGED <<next, iter, fst, snd>>
          /\ pc'[s] \in {"guard", "walk", "lock1"}
      BY <1>1, <1>5, <2>2, LoadFound
    <3>2. LinkType'
      BY <1>1, <3>1 DEF LinkType
    <3>3. QED
      BY <1>2, <3>1, <3>2
  <2>3. QED
    BY <2>1, <2>2
<1>6. ASSUME Crash PROVE FoundInv'
  BY <1>1, <1>2, <1>6 DEF Crash, swapVars, LinkType, PlaceType, GuardFound, Second, Third
<1>7. CASE SwapLock1(s) \/ (SwapLock2(s) /\ ~Crash)
  <2>1. PICK label \in {"lock2", "lock3"} : Goto(s, label)
    BY <1>7 DEF SwapLock1, SwapLock2
  <2>2. pc[s] \in {"lock1", "lock2"} /\ UNCHANGED <<next, iter, fst, snd, guard>>
    BY <1>7 DEF SwapLock1, SwapLock2, swapVars
  <2>3. PlaceType' /\ pc'[s] = label
    BY <1>1, <2>1, PlaceTypes DEF Labels, Goto
  <2>4. LinkType'
    BY <1>1, <2>1, <2>2, <2>3 DEF LinkType
  <2>5. GuardFound(s)'
    BY <1>1, <2>1, <2>2, <2>3 DEF GuardFound, Second, Third
  <2>6. QED
    BY <1>2, <2>4, <2>5
<1>8. CASE SwapLock3(s) /\ ~Crash
  <2>1. /\ Goto(s, "store1") /\ UNCHANGED <<next, iter, guard>> /\ pc[s] = "lock3"
        /\ fst' = [fst EXCEPT ![s] = Second(s)] /\ snd' = [snd EXCEPT ![s] = Third(s)]
    BY <1>8 DEF SwapLock3
  <2>2. Second(s) \in Nodes /\ Third(s) \in Nodes
    BY <1>1, <2>1 DEF GuardFound, Second, Third
  <2>3. PlaceType' /\ pc'[s] = "store1"
    BY <1>1, <2>1, PlaceTypes DEF Labels, Goto
  <2>4. /\ fst' \in [Swappers -> Nodes \cup {NULL}] /\ snd' \in [Swappers -> Nodes \cup {NULL}]
        /\ fst'[s] \in Nodes /\ snd'[s] \in Nodes
    BY <1>1, <2>1, <2>2
  <2>5. LinkType'
    BY <1>1, <2>1, <2>3, <2>4 DEF LinkType
  <2>6. QED
    BY <1>2, <2>3, <2>5 DEF GuardFound
<1>9. CASE StoreParent(s) \/ StoreFirst(s) \/ StoreSecond(s)
  <2>1. PICK label \in {"store2", "store3", "unlock1"} : Goto(s, label)
    BY <1>9 DEF StoreParent, StoreFirst, StoreSecond
  <2>2. /\ UNCHANGED <<iter, fst, snd, guard>> /\ fst[s] \in Nodes /\ snd[s] \in Nodes
    BY <1>1, <1>9 DEF StoreParent, StoreFirst, StoreSecond, swapVars
  <2>3. \E a \in Nodes, b \in Nodes \cup {NULL} : next' = [next EXCEPT ![a] = b]
    BY <1>1, <1>9, <2>2 DEF StoreParent, StoreFirst, StoreSecond
  <2>4. next' \in [Nodes -> Nodes \cup {NULL}]
    BY <1>1, <2>3
  <2>5. PlaceType' /\ pc'[s] = label
    BY <1>1, <2>1, PlaceTypes DEF Labels, Goto
  <2>6. LinkType'
    BY <1>1, <2>2, <2>4, <2>5 DEF LinkType
  <2>7. QED
    BY <1>2, <2>1, <2>5, <2>6 DEF GuardFound
<1>10. CASE SwapUnlock(s)
  <2>1. PICK label \in {"unlock2", "unlock3", "walk"} : Goto(s, label)
    BY <1>10 DEF SwapUnlock
  <2>2. /\ UNCHANGED <<next, iter, guard>>
        /\ \/ UNCHANGED <<fst, snd>>
           \/ fst' = [fst EXCEPT ![s] = NULL] /\ snd' = [snd EXCEPT ![s] = NULL]
    BY <1>10 DEF SwapUnlock, swapVars
  <2>3. PlaceType' /\ pc'[s] = label
    BY <1>1, <2>1, PlaceTypes DEF Labels, Goto
  <2>4. fst' \in [Swappers -> Nodes \cup {NULL}] /\ snd' \in [Swappers -> Nodes \cup {NULL}]
    BY <1>1, <2>2
  <2>5. LinkType'
    BY <1>1, <2>1, <2>2, <2>3, <2>4 DEF LinkType
  <2>6. QED
    BY <1>2, <2>1, <2>3, <2>5 DEF GuardFound
<1>11. QED
  BY <1>3, <1>4, <1>5, <1>6, <1>7, <1>8, <1>9, <1>10, WalkFound DEF Next, Halted, Swap

\* With one swapping thread the guard, though it is read without a lock, is enough:
\* the third lock finds a node (list.c:100), in each of the three programs.
THEOREM SecondExistsCorrect ==
  ASSUME NEW s, Swappers = {s}
  PROVE  Spec => []SecondExists
<1>1. Init => FoundInv
  <2> SUFFICES ASSUME Init PROVE FoundInv
    OBVIOUS
  <2>1. next \in [Nodes -> Nodes \cup {NULL}]
    BY ListAssumption DEF Init, Nodes, NULL
  <2>2. PlaceType /\ \A t \in Threads : pc[t] \in {"walk", "draw"}
    BY DEF Init, PlaceType, Top, Labels, Threads
  <2>3. iter \in [Threads -> Nodes]
    BY ListAssumption DEF Init, Nodes, first
  <2>4. fst \in [Swappers -> Nodes \cup {NULL}] /\ snd \in [Swappers -> Nodes \cup {NULL}]
    BY DEF Init
  <2>5. guard \in [Swappers -> Tests]
    BY DEF Init, Test, Tests, NULL
  <2>6. LinkType
    BY <2>1, <2>2, <2>3, <2>4, <2>5 DEF LinkType, Threads
  <2>7. \A u \in Swappers : GuardFound(u)
    BY <2>2 DEF GuardFound, Threads
  <2>8. QED
    BY <2>6, <2>7 DEF FoundInv
<1>2. FoundInv /\ [Next]_vars => FoundInv'
  BY FoundStep
<1>3. FoundInv => SecondExists
  BY DEF FoundInv, GuardFound, SecondExists
<1>4. QED
  BY <1>1, <1>2, <1>3, PTL DEF Spec

=============================================================================
