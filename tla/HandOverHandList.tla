--------------------------- MODULE HandOverHandList ---------------------------
(***************************************************************************)
(* task2/2.3/mutex, rwlock and spinlock: the list that comparing and       *)
(* swapping threads walk hand over hand, holding one node while they lock  *)
(* its successor.  The three programs differ in their locks: in rwlock a   *)
(* walking thread takes read locks and a swap write locks, in the others   *)
(* every lock excludes every other.  And spinlock walks before it draws,   *)
(* and releases the locks of a swap in the other order.                    *)
(*                                                                         *)
(* main fills the list before it starts the threads, so nodes are numbered *)
(* in the order of list_add_last; list->first is never written again.  The *)
(* guard of swap_threads is read without a lock, load by load: the         *)
(* Makefiles build without optimisation.  A NULL that is followed ends the *)
(* process.  The counters and the comparisons, which decide nothing, are   *)
(* left out.                                                               *)
(***************************************************************************)
EXTENDS Naturals

CONSTANTS
  Comparers, Swappers, Nobody,
  N,          \* length of the list
  Program     \* which of the three programs

Threads == Comparers \cup Swappers

\* A walk takes read locks.
SharedWalk == Program = "rwlock"

ASSUME ListAssumption ==
  /\ N \in Nat /\ N >= 4
  /\ Program \in {"mutex", "rwlock", "spinlock"}
  /\ Comparers \cap Swappers = {} /\ Nobody \notin Threads

VARIABLES
  next,        \* node->next
  writer,      \* who holds a node's mutex, or its rwlock for writing
  readers,     \* who holds its rwlock for reading
  pc,          \* where each thread stands
  iter,        \* its iter
  fst, snd,    \* the arguments first and second of its swap_nodes
  guard,       \* its evaluation of the guard: which test, loads left, pointer
  crashed,     \* a NULL was followed
  chain        \* the order of the nodes, counting a swap at its last store

vars == <<next, writer, readers, pc, iter, fst, snd, guard, crashed, chain>>
lockVars == <<writer, readers>>
swapVars == <<fst, snd>>

Nodes == 1..N
NULL == 0
first == 1

\* The evaluation begins: test j follows j links from iter.
Test(j, n) == [test |-> j, left |-> j, at |-> n]

\* Where the loop of a thread begins.
Top(t) == IF t \in Swappers THEN "draw" ELSE "walk"

Init ==
  /\ next = [n \in Nodes |-> IF n = N THEN NULL ELSE n + 1]
  /\ writer = [n \in Nodes |-> Nobody]
  /\ readers = [n \in Nodes |-> {}]
  /\ pc = [t \in Threads |-> IF Program = "spinlock" THEN "walk" ELSE Top(t)]
  /\ iter = [t \in Threads |-> first]
  /\ fst = [s \in Swappers |-> NULL]
  /\ snd = [s \in Swappers |-> NULL]
  /\ guard = [s \in Swappers |-> Test(0, NULL)]
  /\ crashed = FALSE
  /\ chain = [k \in Nodes |-> k]

Goto(t, label) == pc' = [pc EXCEPT ![t] = label]

\* Following NULL.
Crash == crashed' = TRUE /\ UNCHANGED <<next, lockVars, pc, iter, swapVars, guard, chain>>

CanRead(n) == writer[n] = Nobody
CanWrite(n) == writer[n] = Nobody /\ readers[n] = {}
CanWalk(n) == IF SharedWalk THEN CanRead(n) ELSE CanWrite(n)

WriteLock(t, n) == writer' = [writer EXCEPT ![n] = t] /\ UNCHANGED readers
WalkLock(t, n) ==
  IF SharedWalk
  THEN readers' = [readers EXCEPT ![n] = @ \cup {t}] /\ UNCHANGED writer
  ELSE WriteLock(t, n)

\* Mutant of Unlock: a node locked for writing stays locked.
UnlockReader(t, n) == readers' = [readers EXCEPT ![n] = @ \ {t}] /\ UNCHANGED writer

\* pthread_mutex_unlock and pthread_rwlock_unlock: a mutex is released whoever
\* holds it.
Unlock(t, n) ==
  IF writer[n] # Nobody
  THEN writer' = [writer EXCEPT ![n] = Nobody] /\ UNCHANGED readers
  ELSE readers' = [readers EXCEPT ![n] = @ \ {t}] /\ UNCHANGED writer

-----------------------------------------------------------------------------
(* The walk of thread_comparision and swap_threads *)

\* iter is locked.
WalkFrom(t) ==
  /\ pc[t] = "walk" /\ CanWalk(iter[t])
  /\ WalkLock(t, iter[t])
  /\ Goto(t, "step")
  /\ UNCHANGED <<next, iter, swapVars, guard, crashed, chain>>

\* The node after iter, or the first one at the end of the list.
Successor(t) == IF next[iter[t]] = NULL THEN first ELSE next[iter[t]]

\* Mutant of WalkOn: the walk follows the last node's link.
WalkOnPastEnd(t) ==
  /\ pc[t] = "step" /\ CanWalk(Successor(t))
  /\ Unlock(t, iter[t])
  /\ iter' = [iter EXCEPT ![t] = next[iter[t]]]
  /\ Goto(t, Top(t))
  /\ UNCHANGED <<next, swapVars, guard, crashed, chain>>

\* The successor is locked while iter is held, and both are released: what is
\* done under the successor's lock only reads.
WalkOn(t) ==
  /\ pc[t] = "step" /\ CanWalk(Successor(t))
  /\ Unlock(t, iter[t])
  /\ iter' = [iter EXCEPT ![t] = Successor(t)]
  /\ Goto(t, Top(t))
  /\ UNCHANGED <<next, swapVars, guard, crashed, chain>>

-----------------------------------------------------------------------------
(* swap_threads *)

\* r is drawn: RAND_SWAP opens the guard.
Draw(s) ==
  /\ pc[s] = "draw"
  /\ \/ Goto(s, "walk") /\ UNCHANGED guard
     \/ Goto(s, "guard") /\ guard' = [guard EXCEPT ![s] = Test(1, iter[s])]
  /\ UNCHANGED <<next, lockVars, iter, swapVars, crashed, chain>>

\* Mutant of Decide: only iter->next is tested.
DecideAtOnce(s, n) ==
  /\ Goto(s, IF n = NULL THEN "walk" ELSE "lock1")
  /\ guard' = [guard EXCEPT ![s] = Test(0, NULL)]

\* What a test that read n decides.
Decide(s, n) ==
  IF n = NULL \/ guard[s].test = 3
  THEN /\ Goto(s, IF n = NULL THEN "walk" ELSE "lock1")
       /\ guard' = [guard EXCEPT ![s] = Test(0, NULL)]
  ELSE /\ guard' = [guard EXCEPT ![s] = Test(guard[s].test + 1, iter[s])]
       /\ UNCHANGED pc

\* One load of the guard.
Load(s) ==
  /\ pc[s] = "guard"
  /\ LET g == guard[s] IN
     IF g.at = NULL THEN Crash
     ELSE /\ IF g.left = 1
             THEN Decide(s, next[g.at])
             ELSE /\ guard' = [guard EXCEPT ![s] =
                                [test |-> g.test, left |-> g.left - 1, at |-> next[g.at]]]
                  /\ UNCHANGED pc
          /\ UNCHANGED <<next, lockVars, iter, swapVars, crashed, chain>>

\* iter, iter->next and iter->next->next.
Second(s) == next[iter[s]]
Third(s) == IF Second(s) = NULL THEN NULL ELSE next[Second(s)]

\* Mutant of SwapLock1: a read lock on the node whose link will change.
SwapLock1Shared(s) ==
  /\ pc[s] = "lock1" /\ CanRead(iter[s])
  /\ WalkLock(s, iter[s])
  /\ Goto(s, "lock2")
  /\ UNCHANGED <<next, iter, swapVars, guard, crashed, chain>>

SwapLock1(s) ==
  /\ pc[s] = "lock1" /\ CanWrite(iter[s])
  /\ WriteLock(s, iter[s])
  /\ Goto(s, "lock2")
  /\ UNCHANGED <<next, iter, swapVars, guard, crashed, chain>>

SwapLock2(s) ==
  /\ pc[s] = "lock2"
  /\ \/ Second(s) = NULL /\ Crash
     \/ /\ Second(s) # NULL /\ CanWrite(Second(s))
        /\ WriteLock(s, Second(s))
        /\ Goto(s, "lock3")
        /\ UNCHANGED <<next, iter, swapVars, guard, crashed, chain>>

\* Mutant of SwapLock3: the third node is not locked.
SwapLock3Unlocked(s) ==
  /\ pc[s] = "lock3"
  /\ \/ Third(s) = NULL /\ Crash
     \/ /\ Third(s) # NULL
        /\ fst' = [fst EXCEPT ![s] = Second(s)]
        /\ snd' = [snd EXCEPT ![s] = Third(s)]
        /\ Goto(s, "store1")
        /\ UNCHANGED <<next, lockVars, iter, guard, crashed, chain>>

\* With the third lock swap_nodes gets its arguments.
SwapLock3(s) ==
  /\ pc[s] = "lock3"
  /\ \/ Third(s) = NULL /\ Crash
     \/ /\ Third(s) # NULL /\ CanWrite(Third(s))
        /\ WriteLock(s, Third(s))
        /\ fst' = [fst EXCEPT ![s] = Second(s)]
        /\ snd' = [snd EXCEPT ![s] = Third(s)]
        /\ Goto(s, "store1")
        /\ UNCHANGED <<next, iter, guard, crashed, chain>>

\* The three assignments of swap_nodes, which an unlocked guard can see.
StoreParent(s) ==
  /\ pc[s] = "store1"
  /\ next' = [next EXCEPT ![iter[s]] = snd[s]]
  /\ Goto(s, "store2")
  /\ UNCHANGED <<lockVars, iter, swapVars, guard, crashed, chain>>

StoreFirst(s) ==
  /\ pc[s] = "store2"
  /\ next' = [next EXCEPT ![fst[s]] = next[snd[s]]]
  /\ Goto(s, "store3")
  /\ UNCHANGED <<lockVars, iter, swapVars, guard, crashed, chain>>

Exchanged(a, b) ==
  [k \in Nodes |-> IF chain[k] = a THEN b ELSE IF chain[k] = b THEN a ELSE chain[k]]

StoreSecond(s) ==
  /\ pc[s] = "store3"
  /\ next' = [next EXCEPT ![snd[s]] = fst[s]]
  /\ chain' = Exchanged(fst[s], snd[s])
  /\ Goto(s, "unlock1")
  /\ UNCHANGED <<lockVars, iter, swapVars, guard, crashed>>

\* Mutant of FarthestFirst: the locks are released in the order they were taken
\* in.  This is also how the program spinlock does it.
NearestFirst(s) ==
  CASE pc[s] = "unlock1" -> iter[s]
    [] pc[s] = "unlock2" -> Second(s)
    [] pc[s] = "unlock3" -> Third(s)

FarthestFirst(s) ==
  CASE pc[s] = "unlock1" -> Third(s)
    [] pc[s] = "unlock2" -> Second(s)
    [] pc[s] = "unlock3" -> iter[s]

\* Mutant of Released: the node in the middle is released twice.
ReleasedTwice(s) == IF pc[s] = "unlock3" THEN Second(s) ELSE NearestFirst(s)

\* The locks are released through the links the swap has changed.
Released(s) == IF Program = "spinlock" THEN NearestFirst(s) ELSE FarthestFirst(s)

SwapUnlock(s) ==
  /\ pc[s] \in {"unlock1", "unlock2", "unlock3"}
  /\ Unlock(s, Released(s))
  /\ Goto(s, CASE pc[s] = "unlock1" -> "unlock2"
               [] pc[s] = "unlock2" -> "unlock3"
               [] pc[s] = "unlock3" -> "walk")
  /\ IF pc[s] = "unlock3"
     THEN fst' = [fst EXCEPT ![s] = NULL] /\ snd' = [snd EXCEPT ![s] = NULL]
     ELSE UNCHANGED swapVars
  /\ UNCHANGED <<next, iter, guard, crashed, chain>>

-----------------------------------------------------------------------------
Swap(s) ==
  \/ SwapLock1(s) \/ SwapLock2(s) \/ SwapLock3(s)
  \/ StoreParent(s) \/ StoreFirst(s) \/ StoreSecond(s)
  \/ SwapUnlock(s)

Halted == crashed /\ UNCHANGED vars

Next ==
  \/ ~crashed /\ \E t \in Threads : WalkFrom(t) \/ WalkOn(t)
  \/ ~crashed /\ \E s \in Swappers : Draw(s) \/ Load(s) \/ Swap(s)
  \/ Halted

Spec == Init /\ [][Next]_vars

-----------------------------------------------------------------------------
(* Properties *)

Labels == {"draw", "walk", "step", "guard", "lock1", "lock2", "lock3", "store1",
           "store2", "store3", "unlock1", "unlock2", "unlock3"}

\* Every variable has its type; a comparing thread only walks.
TypeOK ==
  /\ next \in [Nodes -> Nodes \cup {NULL}]
  /\ writer \in [Nodes -> Threads \cup {Nobody}]
  /\ readers \in [Nodes -> SUBSET Threads]
  /\ pc \in [Threads -> Labels]
  /\ \A t \in Threads \ Swappers : pc[t] \in {"walk", "step"}
  /\ iter \in [Threads -> Nodes]
  /\ fst \in [Swappers -> Nodes \cup {NULL}]
  /\ snd \in [Swappers -> Nodes \cup {NULL}]
  /\ guard \in [Swappers -> [test : 0..3, left : 0..3, at : Nodes \cup {NULL}]]
  /\ crashed \in BOOLEAN
  /\ chain \in [Nodes -> Nodes]

Storing(s) == pc[s] \in {"store2", "store3"}

\* The link of node n as it was before the swap that is storing it.
Link(n) ==
  IF \E s \in Swappers : Storing(s) /\ n \in {iter[s], fst[s]}
  THEN LET s == CHOOSE s \in Swappers : Storing(s) /\ n \in {iter[s], fst[s]}
       IN  IF n = iter[s] THEN fst[s] ELSE snd[s]
  ELSE next[n]

\* Whatever the threads swap at the same time, the links are one chain of all
\* nodes that begins at list->first: no node is lost, none is met twice and the
\* walk always comes to the end (swap_nodes under the three locks of swap_threads).
OneChain ==
  /\ chain[1] = first
  /\ \A j, k \in Nodes : chain[j] = chain[k] => j = k
  /\ \A n \in Nodes : \E k \in Nodes : chain[k] = n
  /\ \A k \in Nodes : Link(chain[k]) = IF k = N THEN NULL ELSE chain[k + 1]

\* A thread releases only locks it holds, though it finds them through links its
\* own swap has changed and no longer has the addresses it locked.
OwnUnlocks ==
  \A s \in Swappers :
    pc[s] \in {"unlock1", "unlock2", "unlock3"} =>
      Released(s) \in Nodes /\ writer[Released(s)] = s

\* The lock a thread waits for is taken.
Blocked(t) ==
  \/ pc[t] = "walk" /\ ~CanWalk(iter[t])
  \/ pc[t] = "step" /\ ~CanWalk(Successor(t))
  \/ pc[t] = "lock1" /\ ~CanWrite(iter[t])
  \/ pc[t] = "lock2" /\ Second(t) # NULL /\ ~CanWrite(Second(t))
  \/ pc[t] = "lock3" /\ Third(t) # NULL /\ ~CanWrite(Third(t))

\* The threads never all wait for each other: who waits at the end of the list
\* for its first node closes a circle only if every node is held.
NeverAllBlocked == crashed \/ \E t \in Threads : ~Blocked(t)

\* The link a walking thread has under its lock does not change before it has
\* followed it (a read lock is enough for the walk).
StableStep ==
  [][\A t \in Threads :
       pc[t] = "step" /\ pc'[t] = "step" => next'[iter[t]] = next[iter[t]]]_vars

\* list.c: "do not use swap_nodes on the last element, due to null in the second
\* node": the thread that is about to lock iter->next->next finds a node there.
SecondExists == \A s \in Swappers : pc[s] = "lock3" => Third(s) # NULL

=============================================================================
