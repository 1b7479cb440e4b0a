--------------------------- MODULE CondQueueProofs ---------------------------
(***************************************************************************)
(* Proofs about CondQueue, for any number of readers and writers, any      *)
(* capacity and any malloc: the type invariant, the assertions of the      *)
(* code, that no wakeup is lost, and that the queue implements a bounded   *)
(* FIFO buffer.                                                            *)
(***************************************************************************)
EXTENDS CondQueue, FiniteSetTheorems, TLAPS

-----------------------------------------------------------------------------
(* The list: Insert and Remove keep it well formed; its content grows at the  *)
(* end and shrinks at the front.                                              *)

\* The fields of the nodes, and last, hold what they may hold.
ListTypes ==
  /\ next \in [Nodes -> Nodes \cup {NULL}]
  /\ val \in [Nodes -> Nat]
  /\ last \in Nodes \cup {NULL}

\* first is NULL exactly when the queue is empty, and otherwise both ends are
\* allocated nodes.
LEMMA ShapeEnds ==
  ASSUME ListShape
  PROVE  /\ first = NULL <=> Len(chain) = 0
         /\ first # NULL => first \in heap /\ last \in heap
         /\ Len(chain) \in Nat
  BY QueueAssumption DEF ListShape

\* An empty list has the shape.
LEMMA InitShape == ListInit => ListShape /\ ListTypes
  BY DEF ListInit, ListShape, ListTypes

\* Insert keeps the shape and appends the value, wherever malloc puts the node.
LEMMA InsertShape ==
  ASSUME ListShape, ListTypes, NEW n \in Nodes \ heap, NEW v \in Nat, Insert(n, v)
  PROVE  /\ ListShape' /\ ListTypes'
         /\ Content' = Append(Content, v)
<1> DEFINE N == Len(chain)
<1>1. /\ N \in Nat /\ chain' = Append(chain, n) /\ Len(chain') = N + 1
      /\ \A k \in 1..N : chain'[k] = chain[k] /\ chain[k] \in heap /\ chain[k] \in Nodes
      /\ chain'[N + 1] = n
      /\ chain' \in Seq(Nodes)
  BY DEF ListShape, Insert
<1>2. \A k \in 1..N : chain[k] # n
  BY <1>1
<1>3. count' = Len(chain') /\ heap' = {chain'[k] : k \in 1..Len(chain')}
  BY <1>1 DEF ListShape, Insert
<1>4. \A j, k \in 1..Len(chain') : chain'[j] = chain'[k] => j = k
  BY <1>1, <1>2 DEF ListShape
<1>5. last' = n /\ last' = chain'[Len(chain')]
  BY <1>1 DEF Insert
<1>6. first' = chain'[1] /\ next'[n] = NULL
  <2>1. CASE N = 0
    BY <1>1, <2>1 DEF Insert, ListShape, ListTypes
  <2>2. CASE N > 0
    <3>1. first # NULL /\ last # n /\ first' = first /\ chain'[1] = chain[1]
      BY <1>1, <1>2, <2>2, ShapeEnds DEF Insert, ListShape
    <3>2. next' = [next EXCEPT ![n] = NULL, ![last] = n]
      BY <3>1 DEF Insert
    <3>3. QED
      BY <2>2, <3>1, <3>2 DEF ListShape, ListTypes
  <2>3. QED
    BY <1>1, <2>1, <2>2
<1>7. \A k \in 1..N : next'[chain'[k]] = chain'[k + 1]
  <2> SUFFICES ASSUME NEW k \in 1..N PROVE next'[chain[k]] = chain'[k + 1]
    BY <1>1
  <2>1. /\ last = chain[N] /\ last \in Nodes /\ N > 0
        /\ next' = [next EXCEPT ![n] = NULL, ![last] = n]
    <3>1. N > 0
      BY <1>1
    <3>2. first # NULL
      BY <3>1, ShapeEnds
    <3>3. last = chain[Len(chain)]
      BY <1>1, <3>1 DEF ListShape
    <3>4. last = chain[N] /\ last \in Nodes
      BY <1>1, <3>1, <3>3
    <3>5. QED
      BY <3>1, <3>2, <3>4 DEF Insert
  <2>2. CASE k = N
    BY <1>1, <1>2, <2>1, <2>2 DEF ListTypes
  <2>3. CASE k # N
    <3>1. chain[k] # last /\ chain[k] # n
      BY <1>1, <1>2, <2>1, <2>3 DEF ListShape
    <3>2. next[chain[k]] = chain[k + 1] /\ k + 1 \in 1..N
      BY <1>1, <2>1, <2>3 DEF ListShape
    <3>3. QED
      BY <1>1, <2>1, <3>1, <3>2 DEF ListTypes
  <2>4. QED
    BY <2>2, <2>3
<1>8. ListShape'
  BY <1>1, <1>3, <1>4, <1>5, <1>6, <1>7 DEF ListShape
<1>9. ListTypes'
  BY <1>5 DEF Insert, ListTypes
<1>10. Content' = Append(Content, v)
  <2>1. val' = [val EXCEPT ![n] = v]
    BY DEF Insert
  <2>2. \A k \in 1..N : val'[chain'[k]] = val[chain[k]]
    BY <1>1, <1>2, <2>1 DEF ListTypes
  <2>3. val'[chain'[N + 1]] = v
    BY <1>1, <2>1 DEF ListTypes
  <2>4. Content' = [k \in 1..(N + 1) |-> val'[chain'[k]]]
    BY <1>1 DEF Content
  <2>5. Content \in Seq(Nat) /\ Len(Content) = N
    BY <1>1 DEF Content, ListTypes
  <2>6. QED
    BY <1>1, <2>2, <2>3, <2>4, <2>5 DEF Content
<1>11. QED
  BY <1>8, <1>9, <1>10

\* Remove keeps the shape, and takes the oldest value away, which is the one
\* queue_get has read from the first node.
LEMMA RemoveShape ==
  ASSUME ListShape, ListTypes, Len(chain) > 0, Remove
  PROVE  /\ ListShape' /\ ListTypes'
         /\ Content # <<>> /\ val[first] = Head(Content)
         /\ Content' = Tail(Content)
<1> DEFINE N == Len(chain)
<1>1. /\ N \in Nat /\ N > 0
      /\ chain' = Tail(chain) /\ chain' \in Seq(Nodes) /\ Len(chain') = N - 1
      /\ \A k \in 1..(N - 1) : chain'[k] = chain[k + 1]
      /\ \A k \in 1..N : chain[k] \in Nodes
      /\ first = chain[1] /\ last' = last /\ next' = next /\ val' = val
  BY DEF ListShape, Remove
<1>2. count' = Len(chain')
  BY <1>1 DEF ListShape, Remove
<1>3. \A j, k \in 1..Len(chain') : chain'[j] = chain'[k] => j = k
  BY <1>1 DEF ListShape
<1>4. heap' = {chain'[k] : k \in 1..Len(chain')}
  <2>1. heap' = {chain[k] : k \in 1..N} \ {chain[1]}
    BY <1>1 DEF ListShape, Remove
  <2>2. \A k \in 2..N : chain[k] # chain[1] /\ chain[k] = chain'[k - 1] /\ k - 1 \in 1..(N - 1)
    BY <1>1 DEF ListShape
  <2>3. \A k \in 1..(N - 1) : chain'[k] = chain[k + 1] /\ chain[k + 1] # chain[1] /\ k + 1 \in 1..N
    BY <1>1 DEF ListShape
  <2>4. ASSUME NEW x \in heap' PROVE x \in {chain'[k] : k \in 1..Len(chain')}
    <3>1. PICK k \in 1..N : x = chain[k] /\ k # 1
      BY <2>1, <2>4
    <3>2. k \in 2..N
      BY <1>1, <3>1
    <3>3. QED
      BY <1>1, <2>2, <3>1, <3>2
  <2>5. ASSUME NEW k \in 1..Len(chain') PROVE chain'[k] \in heap'
    BY <1>1, <2>1, <2>3
  <2>6. QED
    BY <2>4, <2>5
<1>5. ASSUME N = 1 PROVE ListShape'
  <2>1. first' = NULL /\ Len(chain') = 0
    BY <1>1, <1>5 DEF ListShape, Remove
  <2>2. QED
    BY <1>1, <1>2, <1>3, <1>4, <2>1 DEF ListShape
<1>6. ASSUME N > 1 PROVE ListShape'
  <2>1. first' = chain'[1]
    BY <1>1, <1>6 DEF ListShape, Remove
  <2>2. last' = chain'[Len(chain')] /\ next'[last'] = NULL
    BY <1>1, <1>6 DEF ListShape
  <2>3. \A k \in 1..(Len(chain') - 1) : next'[chain'[k]] = chain'[k + 1]
    BY <1>1 DEF ListShape
  <2>4. Len(chain') > 0
    BY <1>1, <1>6
  <2>5. QED
    BY <1>1, <1>2, <1>3, <1>4, <2>1, <2>2, <2>3, <2>4 DEF ListShape
<1>7. ListTypes'
  BY <1>1 DEF ListTypes
<1>8. /\ Content \in Seq(Nat) /\ Len(Content) = N
      /\ Content # <<>> /\ val[first] = Head(Content)
  <2>1. Content \in Seq(Nat) /\ Len(Content) = N
    BY <1>1 DEF Content, ListTypes
  <2>2. Content[1] = val[chain[1]]
    BY <1>1 DEF Content
  <2>3. QED
    BY <1>1, <2>1, <2>2
<1>9. Content' = Tail(Content)
  <2>1. Content' = [k \in 1..(N - 1) |-> val[chain[k + 1]]]
    BY <1>1 DEF Content
  <2>2. QED
    BY <1>1, <1>8, <2>1 DEF Content
<1>10. QED
  BY <1>1, <1>5, <1>6, <1>7, <1>8, <1>9

-----------------------------------------------------------------------------
(* The queue *)

\* The inductive invariant: its parts need one another, since a lost wakeup is
\* excluded by counting, and the count is right because the list is.
Inv == TypeOK /\ ListShape /\ AssertionsHold /\ NoLostWakeup

\* What one step can do to a set of threads that are in some place.
LEMMA CardMoves ==
  ASSUME NEW S, IsFiniteSet(S), NEW T \in SUBSET S
  PROVE  /\ Cardinality(T) \in Nat
         /\ \A t \in S \ T : Cardinality(T \cup {t}) = Cardinality(T) + 1
         /\ \A t \in T : Cardinality(T \ {t}) = Cardinality(T) - 1
<1>1. IsFiniteSet(T)
  BY FS_Subset
<1>2. QED
  BY <1>1, FS_CardinalityType, FS_AddElement, FS_RemoveElement

\* How the numbers of woken threads follow pc when thread t moves and s, if any,
\* is signalled.
LEMMA WokenMoves ==
  ASSUME pc \in [Threads -> {"call", "lock", "wait", "woken", "check"}],
         NEW t \in Threads, NEW label \in {"call", "lock", "wait", "check"},
         pc' = [pc EXCEPT ![t] = label]
  PROVE  /\ WokenReaders \in Nat /\ WokenWriters \in Nat
         /\ WokenReaders' \in Nat /\ WokenWriters' \in Nat
         /\ t \in Writers => WokenReaders' = WokenReaders /\ WokenWriters' >= WokenWriters - 1
         /\ t \in Readers => WokenWriters' = WokenWriters /\ WokenReaders' >= WokenReaders - 1
         /\ pc[t] # "woken" => WokenReaders' = WokenReaders /\ WokenWriters' = WokenWriters
<1> DEFINE R == {x \in Readers : pc[x] = "woken"}
           W == {x \in Writers : pc[x] = "woken"}
<1>1. R \in SUBSET Readers /\ W \in SUBSET Writers
  OBVIOUS
<1>2. {x \in Readers : pc'[x] = "woken"} = R \ {t} /\ {x \in Writers : pc'[x] = "woken"} = W \ {t}
  BY DEF Threads
<1>3. WokenReaders = Cardinality(R) /\ WokenWriters = Cardinality(W)
  BY DEF WokenReaders, WokenWriters
<1>4. WokenReaders' = Cardinality(R \ {t}) /\ WokenWriters' = Cardinality(W \ {t})
  BY <1>2 DEF WokenReaders, WokenWriters
<1>5. R \ {t} \in SUBSET Readers /\ W \ {t} \in SUBSET Writers
  BY <1>1
<1>6. /\ WokenReaders \in Nat /\ WokenWriters \in Nat
      /\ WokenReaders' \in Nat /\ WokenWriters' \in Nat
  BY <1>1, <1>3, <1>4, <1>5, CardMoves, ThreadAssumption
<1>7. /\ t \notin R => R \ {t} = R
      /\ t \notin W => W \ {t} = W
  OBVIOUS
<1>8. /\ t \in R => WokenReaders' = WokenReaders - 1
      /\ t \in W => WokenWriters' = WokenWriters - 1
  BY <1>1, <1>3, <1>4, CardMoves, ThreadAssumption
<1>9. /\ t \notin R => WokenReaders' = WokenReaders
      /\ t \notin W => WokenWriters' = WokenWriters
  BY <1>3, <1>4, <1>7
<1>10. /\ t \in Writers => t \notin R
       /\ t \in Readers => t \notin W
       /\ pc[t] # "woken" => t \notin R /\ t \notin W
  BY ThreadAssumption
<1>11. QED
  BY <1>6, <1>8, <1>9, <1>10

\* The same bounds, for any element that goes and any new one that comes.
LEMMA CardBounds ==
  ASSUME NEW S, IsFiniteSet(S), NEW T \in SUBSET S, NEW x
  PROVE  /\ Cardinality(T) \in Nat
         /\ Cardinality(T \ {x}) \in Nat
         /\ Cardinality(T \ {x}) >= Cardinality(T) - 1
         /\ Cardinality(T \cup ({x} \cap S)) \in Nat
         /\ Cardinality(T \cup ({x} \cap S)) >= Cardinality(T)
         /\ x \in S \ T => Cardinality(T \cup {x}) = Cardinality(T) + 1
<1>1. /\ Cardinality(T) \in Nat
      /\ x \in S \ T => Cardinality(T \cup {x}) = Cardinality(T) + 1
      /\ x \in T => Cardinality(T \ {x}) = Cardinality(T) - 1
  BY CardMoves
<1>2. T \ {x} \in SUBSET S /\ T \cup ({x} \cap S) \in SUBSET S
  OBVIOUS
<1>3. Cardinality(T \ {x}) \in Nat
  BY <1>2, CardMoves
<1>4. Cardinality(T \cup ({x} \cap S)) \in Nat
  BY <1>2, CardMoves
<1>5. x \notin T => T \ {x} = T
  OBVIOUS
<1>6. Cardinality(T \ {x}) >= Cardinality(T) - 1
  <2>1. CASE x \in T
    BY <1>1, <2>1
  <2>2. CASE x \notin T
    <3>1. Cardinality(T \ {x}) = Cardinality(T)
      BY <1>5, <2>2
    <3>2. QED
      BY <1>1, <3>1
  <2>3. QED
    BY <2>1, <2>2
<1>7. /\ x \in S \ T => T \cup ({x} \cap S) = T \cup {x}
      /\ x \notin S \ T => T \cup ({x} \cap S) = T
  OBVIOUS
<1>8. Cardinality(T \cup ({x} \cap S)) >= Cardinality(T)
  <2>1. CASE x \in S \ T
    <3>1. Cardinality(T \cup ({x} \cap S)) = Cardinality(T) + 1
      BY <1>1, <1>7, <2>1
    <3>2. QED
      BY <1>1, <3>1
  <2>2. CASE x \notin S \ T
    <3>1. Cardinality(T \cup ({x} \cap S)) = Cardinality(T)
      BY <1>7, <2>2
    <3>2. QED
      BY <1>1, <3>1
  <2>3. QED
    BY <2>1, <2>2
<1>9. QED
  BY <1>1, <1>3, <1>4, <1>6, <1>8

\* The same when the waiting thread s is woken as well.
LEMMA SignalMoves ==
  ASSUME pc \in [Threads -> {"call", "lock", "wait", "woken", "check"}],
         NEW t \in Threads, NEW label \in {"call", "check"},
         NEW s \in Threads, pc[s] = "wait", pc[t] # "wait",
         pc' = [pc EXCEPT ![t] = label, ![s] = "woken"]
  PROVE  /\ WokenReaders' \in Nat /\ WokenWriters' \in Nat
         /\ t \in Writers /\ s \in Readers =>
              WokenReaders' = WokenReaders + 1 /\ WokenWriters' >= WokenWriters - 1
         /\ t \in Readers /\ s \in Writers =>
              WokenWriters' = WokenWriters + 1 /\ WokenReaders' >= WokenReaders - 1
<1> DEFINE R == {x \in Readers : pc[x] = "woken"}
           W == {x \in Writers : pc[x] = "woken"}
<1>1. R \in SUBSET Readers /\ W \in SUBSET Writers /\ s \notin R /\ s \notin W
  OBVIOUS
<1>2. WokenReaders = Cardinality(R) /\ WokenWriters = Cardinality(W)
  BY DEF WokenReaders, WokenWriters
<1>3. t \in Writers /\ s \in Readers =>
        {x \in Readers : pc'[x] = "woken"} = R \cup {s} /\ {x \in Writers : pc'[x] = "woken"} = W \ {t}
  BY ThreadAssumption DEF Threads
<1>4. t \in Readers /\ s \in Writers =>
        {x \in Readers : pc'[x] = "woken"} = R \ {t} /\ {x \in Writers : pc'[x] = "woken"} = W \cup {s}
  BY ThreadAssumption DEF Threads
<1>5. t \in Writers /\ s \in Readers =>
        WokenReaders' = Cardinality(R \cup {s}) /\ WokenWriters' = Cardinality(W \ {t})
  BY <1>3 DEF WokenReaders, WokenWriters
<1>6. t \in Readers /\ s \in Writers =>
        WokenReaders' = Cardinality(R \ {t}) /\ WokenWriters' = Cardinality(W \cup {s})
  BY <1>4 DEF WokenReaders, WokenWriters
<1>7. {x \in Readers : pc'[x] = "woken"} \in SUBSET Readers /\ {x \in Writers : pc'[x] = "woken"} \in SUBSET Writers
  OBVIOUS
<1>8. WokenReaders' \in Nat /\ WokenWriters' \in Nat
  BY <1>7, CardMoves, ThreadAssumption DEF WokenReaders, WokenWriters
<1>9. HIDE DEF R, W
<1>10. s \in Readers => Cardinality(R \cup {s}) = Cardinality(R) + 1
  BY <1>1, CardBounds, ThreadAssumption
<1>11. s \in Writers => Cardinality(W \cup {s}) = Cardinality(W) + 1
  BY <1>1, CardBounds, ThreadAssumption
<1>12. Cardinality(R \ {t}) >= Cardinality(R) - 1
  BY <1>1, CardBounds, ThreadAssumption
<1>13. Cardinality(W \ {t}) >= Cardinality(W) - 1
  BY <1>1, CardBounds, ThreadAssumption
<1>14. QED
  BY <1>2, <1>5, <1>6, <1>8, <1>10, <1>11, <1>12, <1>13

\* The same when a waiting thread wakes up by itself.
LEMMA WakeupMoves ==
  ASSUME pc \in [Threads -> {"call", "lock", "wait", "woken", "check"}],
         NEW s \in Threads, pc' = [pc EXCEPT ![s] = "woken"]
  PROVE  /\ WokenReaders \in Nat /\ WokenReaders' \in Nat /\ WokenReaders' >= WokenReaders
         /\ WokenWriters \in Nat /\ WokenWriters' \in Nat /\ WokenWriters' >= WokenWriters
<1> DEFINE R == {x \in Readers : pc[x] = "woken"}
           W == {x \in Writers : pc[x] = "woken"}
<1>1. R \in SUBSET Readers /\ W \in SUBSET Writers
  OBVIOUS
<1>2. WokenReaders = Cardinality(R) /\ WokenWriters = Cardinality(W)
  BY DEF WokenReaders, WokenWriters
<1>3. {x \in Readers : pc'[x] = "woken"} = R \cup ({s} \cap Readers)
  BY DEF Threads
<1>4. {x \in Writers : pc'[x] = "woken"} = W \cup ({s} \cap Writers)
  BY DEF Threads
<1>5. WokenReaders' = Cardinality(R \cup ({s} \cap Readers))
  BY <1>3 DEF WokenReaders
<1>6. WokenWriters' = Cardinality(W \cup ({s} \cap Writers))
  BY <1>4 DEF WokenWriters
<1>7. HIDE DEF R, W
<1>8. WokenReaders \in Nat /\ WokenReaders' \in Nat /\ WokenReaders' >= WokenReaders
  BY <1>1, <1>2, <1>5, CardBounds, ThreadAssumption
<1>9. WokenWriters \in Nat /\ WokenWriters' \in Nat /\ WokenWriters' >= WokenWriters
  BY <1>1, <1>2, <1>6, CardBounds, ThreadAssumption
<1>10. QED
  BY <1>8, <1>9

\* The numbers of woken threads are numbers.
LEMMA WokenNat == WokenReaders \in Nat /\ WokenWriters \in Nat
<1>1. /\ {x \in Readers : pc[x] = "woken"} \in SUBSET Readers
      /\ {x \in Writers : pc[x] = "woken"} \in SUBSET Writers
  OBVIOUS
<1>2. QED
  BY <1>1, CardMoves, ThreadAssumption DEF WokenReaders, WokenWriters

\* What the writer's signal does to the counts: if a reader still waits, another
\* one was woken.
LEMMA SignalReader ==
  ASSUME pc \in [Threads -> {"call", "lock", "wait", "woken", "check"}],
         NEW t \in Writers, pc[t] \in {"lock", "woken"}, SignalAndGoto(t, "call", Readers)
  PROVE  /\ pc' \in [Threads -> {"call", "lock", "wait", "woken", "check"}]
         /\ WokenReaders \in Nat /\ WokenReaders' \in Nat
         /\ WokenWriters \in Nat /\ WokenWriters' \in Nat
         /\ Waiting(Writers)' \subseteq Waiting(Writers)
         /\ WokenWriters' >= WokenWriters - 1
         /\ Waiting(Readers)' # {} =>
              Waiting(Readers) # {} /\ WokenReaders' = WokenReaders + 1
<1>1. t \in Threads /\ pc[t] # "wait"
  BY DEF Threads
<1>2. CASE Waiting(Readers) = {}
  <2>1. pc' = [pc EXCEPT ![t] = "call"]
    BY <1>2 DEF SignalAndGoto
  <2>2. Waiting(Writers)' \subseteq Waiting(Writers) /\ Waiting(Readers)' = {}
    BY <1>1, <1>2, <2>1 DEF Waiting, Threads
  <2>3. QED
    BY <1>1, <2>1, <2>2, WokenMoves
<1>3. CASE Waiting(Readers) # {}
  <2>1. PICK s \in Waiting(Readers) : pc' = [pc EXCEPT ![t] = "call", ![s] = "woken"]
    BY <1>3 DEF SignalAndGoto
  <2>2. s \in Readers /\ s \in Threads /\ pc[s] = "wait"
    BY DEF Waiting, Threads
  <2>3. Waiting(Writers)' \subseteq Waiting(Writers)
    BY <1>1, <2>1, <2>2 DEF Waiting, Threads
  <2>4. /\ WokenReaders' \in Nat /\ WokenWriters' \in Nat
        /\ WokenReaders' = WokenReaders + 1
        /\ WokenWriters' >= WokenWriters - 1
    BY <1>1, <2>1, <2>2, SignalMoves
  <2>5. WokenReaders \in Nat /\ WokenWriters \in Nat
    BY WokenNat
  <2>6. QED
    BY <1>1, <1>3, <2>1, <2>2, <2>3, <2>4, <2>5
<1>4. QED
  BY <1>2, <1>3

\* What the reader's signal does to the counts: if a writer still waits, another
\* one was woken.
LEMMA SignalWriter ==
  ASSUME pc \in [Threads -> {"call", "lock", "wait", "woken", "check"}],
         NEW t \in Readers, pc[t] \in {"lock", "woken"}, SignalAndGoto(t, "check", Writers)
  PROVE  /\ pc' \in [Threads -> {"call", "lock", "wait", "woken", "check"}]
         /\ WokenWriters \in Nat /\ WokenWriters' \in Nat
         /\ WokenReaders \in Nat /\ WokenReaders' \in Nat
         /\ Waiting(Readers)' \subseteq Waiting(Readers)
         /\ WokenReaders' >= WokenReaders - 1
         /\ Waiting(Writers)' # {} =>
              Waiting(Writers) # {} /\ WokenWriters' = WokenWriters + 1
<1>1. t \in Threads /\ pc[t] # "wait"
  BY DEF Threads
<1>2. CASE Waiting(Writers) = {}
  <2>1. pc' = [pc EXCEPT ![t] = "check"]
    BY <1>2 DEF SignalAndGoto
  <2>2. Waiting(Readers)' \subseteq Waiting(Readers) /\ Waiting(Writers)' = {}
    BY <1>1, <1>2, <2>1 DEF Waiting, Threads
  <2>3. QED
    BY <1>1, <2>1, <2>2, WokenMoves
<1>3. CASE Waiting(Writers) # {}
  <2>1. PICK s \in Waiting(Writers) : pc' = [pc EXCEPT ![t] = "check", ![s] = "woken"]
    BY <1>3 DEF SignalAndGoto
  <2>2. s \in Writers /\ s \in Threads /\ pc[s] = "wait"
    BY DEF Waiting, Threads
  <2>3. Waiting(Readers)' \subseteq Waiting(Readers)
    BY <1>1, <2>1, <2>2 DEF Waiting, Threads
  <2>4. /\ WokenWriters' \in Nat /\ WokenReaders' \in Nat
        /\ WokenWriters' = WokenWriters + 1
        /\ WokenReaders' >= WokenReaders - 1
    BY <1>1, <2>1, <2>2, SignalMoves
  <2>5. WokenWriters \in Nat /\ WokenReaders \in Nat
    BY WokenNat
  <2>6. QED
    BY <1>1, <1>3, <2>1, <2>2, <2>3, <2>4, <2>5
<1>4. QED
  BY <1>2, <1>3

\* The initial queue is empty and nobody waits.
LEMMA InvInit == Init => Inv
<1> SUFFICES ASSUME Init PROVE Inv
  OBVIOUS
<1>1. ListShape /\ ListTypes
  BY InitShape DEF Init
<1>2. NoLostWakeup
  BY DEF Init, Waiting, Threads, NoLostWakeup
<1>3. TypeOK
  <2>1. count \in 0..MaxCount /\ 0 \in 0..(Wrap - 1)
    BY QueueAssumption DEF Init, ListInit
  <2>2. /\ next \in [Nodes -> Nodes \cup {NULL}]
        /\ val \in [Nodes -> Nat]
        /\ last \in Nodes \cup {NULL}
    BY DEF Init, ListInit
  <2>3. QED
    BY <2>1, <2>2 DEF Init, TypeOK
<1>4. AssertionsHold
  BY DEF Init, AssertionsHold
<1>5. QED
  BY <1>1, <1>2, <1>3, <1>4 DEF Inv

\* A step that leaves the list alone, in which no thread starts to wait and none
\* that was woken goes anywhere, loses no wakeup.
LEMMA QuietMoves ==
  ASSUME NoLostWakeup, NEW t \in Threads, NEW label \in {"call", "lock"},
         pc \in [Threads -> {"call", "lock", "wait", "woken", "check"}],
         pc[t] # "woken", pc' = [pc EXCEPT ![t] = label], count' = count
  PROVE  NoLostWakeup'
<1>1. WokenReaders' = WokenReaders /\ WokenWriters' = WokenWriters
  BY WokenMoves
<1>2. Waiting(Readers)' \subseteq Waiting(Readers) /\ Waiting(Writers)' \subseteq Waiting(Writers)
  BY DEF Waiting, Threads
<1>3. QED
  BY <1>1, <1>2 DEF NoLostWakeup

\* Every step keeps the invariant.
LEMMA InvStep == Inv /\ [Next]_vars => Inv'
<1> SUFFICES ASSUME Inv, [Next]_vars PROVE Inv'
  OBVIOUS
<1> USE DEF Inv
<1>0. /\ TypeOK /\ ListShape /\ AssertionsHold /\ NoLostWakeup /\ ListTypes
      /\ pc \in [Threads -> {"call", "lock", "wait", "woken", "check"}]
      /\ count = Len(chain) /\ count \in 0..MaxCount /\ MaxCount \in Nat \ {0}
  BY QueueAssumption DEF TypeOK, ListShape, ListTypes
<1>1. ASSUME NEW w \in Writers, AddCall(w) PROVE Inv'
  <2>1. /\ pc[w] = "call" /\ pc' = [pc EXCEPT ![w] = "lock"]
        /\ UNCHANGED <<listVars, i, got, expected, aborted>>
    BY <1>0, <1>1 DEF AddCall
  <2>2. NoLostWakeup'
    BY <1>0, <2>1, QuietMoves DEF Threads, listVars
  <2>3. TypeOK' /\ ListShape' /\ AssertionsHold'
    BY <1>0, <2>1 DEF TypeOK, ListShape, AssertionsHold, listVars, Threads
  <2>4. QED
    BY <2>2, <2>3
<1>2. ASSUME NEW w \in Writers, AddFull(w) PROVE Inv'
  <2>1. /\ count = MaxCount /\ pc[w] # "wait" /\ pc' = [pc EXCEPT ![w] = "wait"]
        /\ UNCHANGED <<listVars, i, got, expected, aborted>>
    BY <1>2 DEF AddFull
  <2>2. WokenReaders' = WokenReaders /\ WokenWriters' \in Nat
    BY <1>0, <2>1, WokenMoves DEF Threads
  <2>3. Waiting(Readers)' \subseteq Waiting(Readers)
    BY <1>0, <2>1, ThreadAssumption DEF Waiting, Threads
  <2>4. NoLostWakeup'
    BY <1>0, <2>1, <2>2, <2>3 DEF NoLostWakeup, listVars
  <2>5. pc' \in [Threads -> {"call", "lock", "wait", "woken", "check"}]
    BY <1>0, <2>1
  <2>6. TypeOK'
    BY <1>0, <2>1, <2>5 DEF TypeOK, listVars
  <2>7. ListShape' /\ AssertionsHold'
    <3>1. UNCHANGED <<first, last, next, heap, count, chain, aborted>>
      BY <2>1 DEF listVars
    <3>2. QED
      BY <1>0, <3>1 DEF ListShape, AssertionsHold
  <2>8. QED
    BY <2>4, <2>6, <2>7
<1>3. ASSUME NEW w \in Writers, AddInsert(w) PROVE Inv'
  <2>1. PICK n \in Nodes \ heap : Insert(n, i[w])
    BY <1>3 DEF AddInsert
  <2>2. /\ pc[w] \in {"lock", "woken"} /\ count # MaxCount
        /\ SignalAndGoto(w, "call", Readers)
        /\ i' = [i EXCEPT ![w] = (i[w] + 1) % Wrap]
        /\ UNCHANGED <<got, expected, aborted>>
    BY <1>3 DEF AddInsert
  <2>3. i[w] \in Nat /\ (i[w] + 1) % Wrap \in 0..(Wrap - 1)
    BY <1>0, QueueAssumption DEF TypeOK
  <2>4. ListShape' /\ ListTypes'
    BY <1>0, <2>1, <2>3, InsertShape
  <2>5. count' = count + 1 /\ count' \in 0..MaxCount
    BY <1>0, <2>1, <2>2 DEF Insert
  <2>6. NoLostWakeup'
    BY <1>0, <2>2, <2>5, SignalReader DEF NoLostWakeup
  <2>7. pc' \in [Threads -> {"call", "lock", "wait", "woken", "check"}]
    BY <1>0, <2>2, SignalReader
  <2>8. TypeOK'
    BY <1>0, <2>2, <2>3, <2>4, <2>5, <2>7 DEF TypeOK, ListTypes
  <2>9. QED
    BY <1>0, <2>2, <2>4, <2>6, <2>8 DEF AssertionsHold
<1>4. ASSUME NEW r \in Readers, GetCall(r) PROVE Inv'
  <2>1. /\ pc[r] = "call" /\ pc' = [pc EXCEPT ![r] = "lock"]
        /\ UNCHANGED <<listVars, i, got, expected, aborted>>
    BY <1>4 DEF GetCall
  <2>2. NoLostWakeup'
    BY <1>0, <2>1, QuietMoves DEF Threads, listVars
  <2>3. TypeOK' /\ ListShape' /\ AssertionsHold'
    BY <1>0, <2>1 DEF TypeOK, ListShape, AssertionsHold, listVars, Threads
  <2>4. QED
    BY <2>2, <2>3
<1>5. ASSUME NEW r \in Readers, GetEmpty(r) PROVE Inv'
  <2>1. /\ count = 0 /\ pc[r] # "wait" /\ pc' = [pc EXCEPT ![r] = "wait"]
        /\ UNCHANGED <<listVars, i, got, expected, aborted>>
    BY <1>5 DEF GetEmpty
  <2>2. WokenWriters' = WokenWriters /\ WokenReaders' \in Nat
    BY <1>0, <2>1, WokenMoves DEF Threads
  <2>3. Waiting(Writers)' \subseteq Waiting(Writers)
    BY <1>0, <2>1, ThreadAssumption DEF Waiting, Threads
  <2>4. NoLostWakeup'
    BY <1>0, <2>1, <2>2, <2>3 DEF NoLostWakeup, listVars
  <2>5. pc' \in [Threads -> {"call", "lock", "wait", "woken", "check"}]
    BY <1>0, <2>1
  <2>6. TypeOK'
    BY <1>0, <2>1, <2>5 DEF TypeOK, listVars
  <2>7. ListShape' /\ AssertionsHold'
    <3>1. UNCHANGED <<first, last, next, heap, count, chain, aborted>>
      BY <2>1 DEF listVars
    <3>2. QED
      BY <1>0, <3>1 DEF ListShape, AssertionsHold
  <2>8. QED
    BY <2>4, <2>6, <2>7
<1>6. ASSUME NEW r \in Readers, GetTake(r) PROVE Inv'
  <2>1. /\ pc[r] \in {"lock", "woken"} /\ count # 0
        /\ got' = [got EXCEPT ![r] = val[first]] /\ Remove
        /\ SignalAndGoto(r, "check", Writers)
        /\ UNCHANGED <<i, expected, aborted>>
    BY <1>0, <1>6 DEF GetTake
  <2>2. ListShape' /\ ListTypes' /\ val[first] \in Nat
    <3>1. Len(chain) > 0 /\ first \in Nodes
      BY <1>0, <2>1 DEF ListShape
    <3>2. QED
      BY <1>0, <2>1, <3>1, RemoveShape DEF ListTypes
  <2>3. count' = count - 1 /\ count' \in 0..MaxCount
    BY <1>0, <2>1 DEF Remove
  <2>4. NoLostWakeup'
    <3>1. pc \in [Threads -> {"call", "lock", "wait", "woken", "check"}]
      BY <1>0 DEF TypeOK
    <3>2. /\ WokenWriters \in Nat /\ WokenWriters' \in Nat
          /\ WokenReaders \in Nat /\ WokenReaders' \in Nat
          /\ Waiting(Readers)' \subseteq Waiting(Readers)
          /\ WokenReaders' >= WokenReaders - 1
          /\ Waiting(Writers)' # {} =>
               Waiting(Writers) # {} /\ WokenWriters' = WokenWriters + 1
      BY <2>1, <3>1, SignalWriter
    <3>3. count \in Nat /\ MaxCount \in Nat
      BY <1>0, <2>3, QueueAssumption DEF TypeOK, ListTypes
    <3>4. QED
      BY <1>0, <2>3, <3>2, <3>3 DEF NoLostWakeup
  <2>5. pc' \in [Threads -> {"call", "lock", "wait", "woken", "check"}]
    BY <1>0, <2>1, SignalWriter
  <2>6. TypeOK'
    BY <1>0, <2>1, <2>2, <2>3, <2>5 DEF TypeOK, ListTypes
  <2>7. QED
    BY <1>0, <2>1, <2>2, <2>4, <2>6 DEF AssertionsHold
<1>7. ASSUME NEW r \in Readers, ReaderCheck(r) PROVE Inv'
  <2>1. /\ pc[r] = "check" /\ pc' = [pc EXCEPT ![r] = "call"]
        /\ expected' = [expected EXCEPT ![r] = (got[r] + 1) % Wrap]
        /\ UNCHANGED <<listVars, i, got, aborted>>
    BY <1>7 DEF ReaderCheck
  <2>2. NoLostWakeup'
    BY <1>0, <2>1, QuietMoves DEF Threads, listVars
  <2>3. (got[r] + 1) % Wrap \in Nat
    BY <1>0, QueueAssumption DEF TypeOK
  <2>4. TypeOK' /\ ListShape' /\ AssertionsHold'
    BY <1>0, <2>1, <2>3 DEF TypeOK, ListShape, AssertionsHold, listVars, Threads
  <2>5. QED
    BY <2>2, <2>4
<1>8. ASSUME NEW t \in Threads, SpuriousWakeup(t) PROVE Inv'
  <2>1. /\ pc' = [pc EXCEPT ![t] = "woken"]
        /\ UNCHANGED <<listVars, i, got, expected, aborted>>
    BY <1>8 DEF SpuriousWakeup
  <2>2. Waiting(Readers)' \subseteq Waiting(Readers) /\ Waiting(Writers)' \subseteq Waiting(Writers)
    BY <1>0, <2>1 DEF Waiting, Threads
  <2>3. NoLostWakeup'
    <3>1. /\ WokenReaders \in Nat /\ WokenReaders' \in Nat /\ WokenReaders' >= WokenReaders
          /\ WokenWriters \in Nat /\ WokenWriters' \in Nat /\ WokenWriters' >= WokenWriters
      BY <1>0, <2>1, WakeupMoves
    <3>2. count' = count
      BY <2>1 DEF listVars
    <3>3. QED
      BY <1>0, <2>2, <3>1, <3>2 DEF NoLostWakeup
  <2>4. TypeOK' /\ ListShape' /\ AssertionsHold'
    BY <1>0, <2>1 DEF TypeOK, ListShape, AssertionsHold, listVars, Threads
  <2>5. QED
    BY <2>3, <2>4
<1>9. ASSUME UNCHANGED vars PROVE Inv'
  BY <1>0, <1>9 DEF vars, listVars, TypeOK, ListShape, AssertionsHold, NoLostWakeup, Waiting,
     WokenReaders, WokenWriters
<1>10. QED
  BY <1>1, <1>2, <1>3, <1>4, <1>5, <1>6, <1>7, <1>8, <1>9 DEF Next, WriterStep, ReaderStep

\* The invariant holds in every behaviour of the program.
THEOREM InvCorrect == Spec => []Inv
<1>1. QED
  BY InvInit, InvStep, PTL DEF Spec

\* The queue never holds more than max_count values, nor fewer than none.
THEOREM TypeCorrect == Spec => []TypeOK
<1>1. Inv => TypeOK
  BY DEF Inv
<1>2. QED
  BY <1>1, InvCorrect, PTL

\* The list is well formed whatever addresses malloc hands out again.
THEOREM ShapeCorrect == Spec => []ListShape
<1>1. Inv => ListShape
  BY DEF Inv
<1>2. QED
  BY <1>1, InvCorrect, PTL

\* The assertions of queue_add and queue_get never fail.
THEOREM AssertionsCorrect == Spec => []AssertionsHold
<1>1. Inv => AssertionsHold
  BY DEF Inv
<1>2. QED
  BY <1>1, InvCorrect, PTL

\* No wakeup is lost, for any number of readers and writers.
THEOREM WakeupsCorrect == Spec => []NoLostWakeup
<1>1. Inv => NoLostWakeup
  BY DEF Inv
<1>2. QED
  BY <1>1, InvCorrect, PTL

\* The threads never all wait for one another.
THEOREM NeverAllWait == Spec => [](\E t \in Threads : pc[t] # "wait")
<1>1. Inv => \E t \in Threads : pc[t] # "wait"
  <2> SUFFICES ASSUME Inv, \A t \in Threads : pc[t] = "wait" PROVE FALSE
    OBVIOUS
  <2>1. Waiting(Readers) # {} /\ Waiting(Writers) # {}
    BY ThreadAssumption DEF Waiting, Threads
  <2>2. {t \in Readers : pc[t] = "woken"} = {} /\ {t \in Writers : pc[t] = "woken"} = {}
    BY DEF Threads
  <2>3. WokenReaders = 0 /\ WokenWriters = 0
    BY <2>2, FS_EmptySet DEF WokenReaders, WokenWriters
  <2>4. count <= 0 /\ MaxCount - count <= 0
    BY <2>1, <2>3 DEF Inv, NoLostWakeup
  <2>5. QED
    BY <2>4, QueueAssumption DEF Inv, TypeOK
<1>2. QED
  BY <1>1, InvCorrect, PTL

\* Every step is a step of the FIFO buffer, or leaves it alone.
LEMMA StepIsFIFO == Inv /\ [Next]_vars => [FIFO!Next]_<<Content, got>>
<1> SUFFICES ASSUME Inv, [Next]_vars PROVE [FIFO!Next]_<<Content, got>>
  OBVIOUS
<1>1. ListShape /\ ListTypes /\ count = Len(chain) /\ Len(chain) \in Nat
  BY DEF Inv, TypeOK, ListShape, ListTypes
<1>2. ASSUME NEW w \in Writers, AddInsert(w) PROVE FIFO!Next
  <2>1. PICK n \in Nodes \ heap : Insert(n, i[w])
    BY <1>2 DEF AddInsert
  <2>2. i[w] \in 0..(Wrap - 1) /\ i[w] \in Nat
    BY QueueAssumption DEF Inv, TypeOK
  <2>3. Content' = Append(Content, i[w])
    BY <1>1, <2>1, <2>2, InsertShape
  <2>4. Len(Content) < MaxCount
    <3>1. Len(Content) = Len(chain)
      BY <1>1 DEF Content
    <3>2. QED
      BY <1>1, <1>2, <3>1, QueueAssumption DEF AddInsert, Inv, TypeOK
  <2>5. FIFO!Put(i[w])
    BY <1>2, <2>3, <2>4 DEF FIFO!Put, AddInsert
  <2>6. QED
    BY <2>2, <2>5 DEF FIFO!Next
<1>3. ASSUME NEW r \in Readers, GetTake(r) PROVE FIFO!Next
  <2>1. got' = [got EXCEPT ![r] = val[first]] /\ Remove /\ Len(chain) > 0
    BY <1>1, <1>3 DEF GetTake
  <2>2. Content # <<>> /\ val[first] = Head(Content) /\ Content' = Tail(Content)
    BY <1>1, <2>1, RemoveShape
  <2>3. FIFO!Take(r)
    BY <2>1, <2>2 DEF FIFO!Take
  <2>4. QED
    BY <2>3 DEF FIFO!Next
<1>4. ASSUME UNCHANGED <<listVars, got>> PROVE UNCHANGED <<Content, got>>
  BY <1>4 DEF listVars, Content
<1>5. CASE \E w \in Writers : AddCall(w) \/ AddFull(w)
  BY <1>4, <1>5 DEF AddCall, AddFull
<1>6. CASE \E r \in Readers : GetCall(r) \/ GetEmpty(r) \/ ReaderCheck(r)
  BY <1>4, <1>6 DEF GetCall, GetEmpty, ReaderCheck
<1>7. CASE \E t \in Threads : SpuriousWakeup(t)
  BY <1>4, <1>7 DEF SpuriousWakeup
<1>8. CASE UNCHANGED vars
  BY <1>4, <1>8 DEF vars
<1>9. QED
  BY <1>2, <1>3, <1>5, <1>6, <1>7, <1>8 DEF Next, WriterStep, ReaderStep

\* The blocking queue implements the bounded FIFO buffer: whatever the threads
\* do, each value is handed out once, in the order in which it was added.
THEOREM FIFOCorrect == Spec => ImplementsFIFO
<1>1. Init => FIFO!Init
  <2> SUFFICES ASSUME Init PROVE FIFO!Init
    OBVIOUS
  <2>1. Content = <<>>
    BY DEF Init, ListInit, Content
  <2>2. QED
    BY <2>1 DEF Init, FIFO!Init
<1>2. QED
  BY <1>1, InvCorrect, StepIsFIFO, PTL DEF Spec, ImplementsFIFO, FIFO!Spec

=============================================================================
