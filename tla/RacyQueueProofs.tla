--------------------------- MODULE RacyQueueProofs ---------------------------
(***************************************************************************)
(* Proofs about RacyQueue, for any capacity and any malloc: although the   *)
(* two threads lose each other's updates of count, count stays in range,   *)
(* so that the assertions of the code hold; and although they damage the   *)
(* list, the reader works on allocated nodes and gets growing values.      *)
(***************************************************************************)
EXTENDS RacyQueue, TLAPS

\* Where the writer has found the queue not full, and not yet loaded count.
AddTested == {"malloc", "empty", "setlast", "setfirst", "link", "advance", "load"}
AddPlaces == AddTested \cup {"assert", "full", "store"}

\* Where the reader has found the queue not empty, and not yet loaded count.
GetTested == {"first", "val", "next", "unlink", "free", "load"}
GetPlaces == GetTested \cup {"assert", "empty", "store", "check"}

\* Count is in range, and what each thread knows of it after its test stays
\* true: the other thread can only make the tested bound looser, even when it
\* stores a count computed from an old one.
CountInv ==
  /\ count \in 0..MaxCount
  /\ wpc \in AddPlaces /\ rpc \in GetPlaces
  /\ wcount \in Int /\ rcount \in Int
  /\ wpc \in AddTested => count < MaxCount
  /\ wpc = "store" => wcount \in 0..(MaxCount - 1)
  /\ rpc \in GetTested => count > 0
  /\ rpc = "store" => rcount \in 1..MaxCount
  /\ ended # "assert"

\* The pointers point to nodes where the threads rely on it.
PointerInv ==
  /\ {first, last, tmp, new, rnext} \subseteq Nodes \cup {NULL, GARBAGE}
  /\ next \in [Nodes -> Nodes \cup {NULL, GARBAGE}]
  /\ val \in [Nodes -> 0..MaxValue]
  /\ heap \subseteq Nodes
  /\ i \in 0..MaxValue /\ got \in -1..MaxValue /\ expected \in 0..(MaxValue + 1)
  /\ wpc # "assert" => i < MaxValue
  /\ wpc = "advance" => last \in Nodes
  /\ rpc \in {"next", "unlink", "free"} => tmp \in Nodes
  /\ ended \in {"no", "assert", "segv"}

Inv == CountInv /\ PointerInv

-----------------------------------------------------------------------------
(* count *)

\* The program starts with an empty queue.
LEMMA InvInit == Init => Inv
<1> SUFFICES ASSUME Init PROVE Inv
  OBVIOUS
<1>1. CountInv
  BY RacyAssumption DEF Init, CountInv, AddPlaces, GetPlaces, AddTested, GetTested
<1>2. PointerInv
  BY RacyAssumption DEF Init, PointerInv
<1>3. QED
  BY <1>1, <1>2 DEF Inv

\* Each step of the writer keeps the invariant.
LEMMA WriterKeeps == Inv /\ WriterStep => Inv'
<1> SUFFICES ASSUME Inv, WriterStep PROVE Inv'
  OBVIOUS
<1> USE RacyAssumption DEF Inv, Writer, queue, writerVars, readerVars
<1>1. CountInv'
  <2> USE DEF CountInv, AddPlaces, AddTested
  <2>1. CASE AddAssert
    BY <2>1 DEF AddAssert
  <2>2. CASE AddFull
    BY <2>2 DEF AddFull
  <2>3. CASE AddMalloc
    BY <2>3 DEF AddMalloc
  <2>4. CASE AddEmpty
    BY <2>4 DEF AddEmpty
  <2>5. CASE AddSetLast \/ AddSetFirst \/ AddAdvance
    BY <2>5 DEF AddSetLast, AddSetFirst, AddAdvance
  <2>6. CASE AddLink
    BY <2>6 DEF AddLink
  <2>7. CASE AddLoad
    BY <2>7 DEF AddLoad
  <2>8. CASE AddStore
    BY <2>8 DEF AddStore
  <2>9. QED
    BY <2>1, <2>2, <2>3, <2>4, <2>5, <2>6, <2>7, <2>8 DEF WriterStep
<1>2. PointerInv'
  <2> USE DEF PointerInv
  <2>1. CASE AddAssert
    BY <2>1 DEF AddAssert
  <2>2. CASE AddFull \/ AddEmpty \/ AddLoad
    BY <2>2 DEF AddFull, AddEmpty, AddLoad
  <2>3. CASE AddMalloc
    BY <2>3 DEF AddMalloc
  <2>4. CASE AddSetLast \/ AddSetFirst
    BY <2>4 DEF AddSetLast, AddSetFirst
  <2>5. CASE AddLink
    BY <2>5 DEF AddLink
  <2>6. CASE AddAdvance
    BY <2>6 DEF AddAdvance
  <2>7. CASE AddStore
    BY <2>7 DEF AddStore
  <2>8. QED
    BY <2>1, <2>2, <2>3, <2>4, <2>5, <2>6, <2>7 DEF WriterStep
<1>3. QED
  BY <1>1, <1>2

\* Each step of the reader keeps the invariant.
LEMMA ReaderKeeps == Inv /\ ReaderStep => Inv'
<1> SUFFICES ASSUME Inv, ReaderStep PROVE Inv'
  OBVIOUS
<1> USE RacyAssumption DEF Inv, Reader, queue, writerVars, readerVars
<1>1. CountInv'
  <2> USE DEF CountInv, GetPlaces, GetTested
  <2>1. CASE GetAssert
    BY <2>1 DEF GetAssert
  <2>2. CASE GetEmpty
    BY <2>2 DEF GetEmpty
  <2>3. CASE GetFirst \/ GetUnlink \/ GetFree
    BY <2>3 DEF GetFirst, GetUnlink, GetFree
  <2>4. CASE GetVal
    BY <2>4 DEF GetVal
  <2>5. CASE GetNext
    BY <2>5 DEF GetNext
  <2>6. CASE GetLoad
    BY <2>6 DEF GetLoad
  <2>7. CASE GetStore
    BY <2>7 DEF GetStore
  <2>8. CASE ReaderCheck
    BY <2>8 DEF ReaderCheck
  <2>9. QED
    BY <2>1, <2>2, <2>3, <2>4, <2>5, <2>6, <2>7, <2>8 DEF ReaderStep
<1>2. PointerInv'
  <2> USE DEF PointerInv
  <2>1. CASE GetAssert
    BY <2>1 DEF GetAssert
  <2>2. CASE GetEmpty \/ GetLoad \/ GetStore \/ ReaderCheck
    BY <2>2 DEF GetEmpty, GetLoad, GetStore, ReaderCheck
  <2>3. CASE GetFirst
    BY <2>3 DEF GetFirst
  <2>4. CASE GetVal
    BY <2>4 DEF GetVal
  <2>5. CASE GetNext
    BY <2>5 DEF GetNext
  <2>6. CASE GetUnlink
    BY <2>6 DEF GetUnlink
  <2>7. CASE GetFree
    BY <2>7 DEF GetFree
  <2>8. QED
    BY <2>1, <2>2, <2>3, <2>4, <2>5, <2>6, <2>7 DEF ReaderStep
<1>3. QED
  BY <1>1, <1>2

-----------------------------------------------------------------------------
(* The list *)

\* Where the writer has a new node that is not in the list yet, and where it is.
AddUnlinked == {"empty", "setlast", "setfirst", "link"}
AddLinked == {"advance", "load", "store"}

\* The allocated nodes form chains without branches: a node is followed by an
\* allocated node or by none, nothing leads back to the first node, and the node the
\* reader frees is out of the list.
ChainInv ==
  /\ first \in heap \cup {NULL}
  /\ \A n \in heap : next[n] \in heap \cup {NULL}
  /\ \A m, n \in heap : next[m] = next[n] /\ next[m] # NULL => m = n
  /\ \A n \in heap : next[n] = first => first = NULL \/ (rpc = "free" /\ n = tmp)
  /\ rpc = "free" => tmp \in heap /\ first # tmp /\ \A n \in heap : next[n] # tmp

\* What the writer relies on: the new node is nobody else's before it is linked,
\* and q->last is the end of a chain.  It may be freed, but not while first is set.
WriterInv ==
  /\ wpc \in AddUnlinked =>
       /\ new \in heap /\ next[new] = NULL /\ new # first /\ (rpc = "free" => new # tmp)
       /\ \A n \in heap : next[n] # new
  /\ wpc # "advance" /\ last \in heap => next[last] = NULL
  /\ wpc # "advance" /\ rpc = "free" /\ last = tmp => first = NULL
  /\ wpc \notin {"link", "advance"} /\ first # NULL => last \notin Nodes \ heap
  /\ wpc = "empty" /\ first # NULL => last # new
  /\ wpc = "link" => last # new
  /\ wpc = "setfirst" => last = new
  /\ wpc \in {"setlast", "setfirst"} => first = NULL
  /\ wpc = "advance" =>
       /\ new \in Nodes /\ next[last] \in {new, GARBAGE}
       /\ first # NULL => new \in heap
       /\ new \in heap => next[new] = NULL
       /\ rpc = "free" /\ tmp = new => first = NULL

\* What the reader relies on: it works on the first node, and what it loaded as
\* the next one still is, unless it was none.
ReaderInv ==
  /\ rpc = "val" => tmp \in heap \cup {NULL}
  /\ rpc \in {"val", "next", "unlink"} /\ tmp \in Nodes => first = tmp
  /\ rpc = "unlink" => rnext \in heap \cup {NULL} /\ (rnext # NULL => next[first] = rnext)

\* The values grow along the chains, the writer's next value is above all of them,
\* and those the reader has read are below the ones in the list.
ValueInv ==
  /\ \A n \in heap : next[n] # NULL => val[next[n]] > val[n]
  /\ \A n \in heap : val[n] < i \/ (n = new /\ val[n] = i /\ wpc \in AddUnlinked \cup AddLinked)
  /\ wpc \in AddUnlinked => val[new] = i
  /\ IF wpc \in AddLinked THEN got <= i /\ expected <= i + 1 ELSE got < i /\ expected <= i
  /\ rpc \in {"assert", "empty", "first", "val"} /\ first # NULL => val[first] >= expected
  /\ rpc \in {"next", "unlink", "free", "load", "store", "check"} => got >= expected
  /\ rpc \in {"next", "unlink"} => got = val[tmp]
  /\ rpc \in {"free", "load", "store", "check"} /\ first # NULL => val[first] > got

ListInv == ChainInv /\ WriterInv /\ ReaderInv /\ ValueInv

\* The steps of the writer that only move it, or only count.
WriterOnly == AddAssert \/ AddFull \/ AddLoad \/ AddStore

\* The steps of the reader that only move it, or only count.
ReaderOnly == GetAssert \/ GetEmpty \/ GetLoad \/ GetStore

\* The writer appends to a chain, or begins one.
LEMMA WriterChain == Inv /\ ListInv /\ WriterStep => ChainInv'
<1> SUFFICES ASSUME Inv, ListInv, WriterStep PROVE ChainInv'
  OBVIOUS
<1> USE RacyAssumption DEF Inv, ListInv, PointerInv, ChainInv, Writer, queue, readerVars
<1>1. CASE WriterOnly
  BY <1>1 DEF WriterOnly, AddAssert, AddFull, AddLoad, AddStore
<1>2. CASE AddMalloc
  BY <1>2 DEF AddMalloc
<1>3. CASE AddEmpty \/ AddSetLast \/ AddAdvance
  BY <1>3 DEF AddEmpty, AddSetLast, AddAdvance
<1>4. CASE AddSetFirst
  BY <1>4 DEF AddSetFirst, WriterInv, AddUnlinked
<1>5. CASE AddLink
  BY <1>5 DEF AddLink, WriterInv, AddUnlinked
<1>6. QED
  BY <1>1, <1>2, <1>3, <1>4, <1>5 DEF WriterStep, WriterOnly

\* The writer's own steps keep what it relies on.
LEMMA WriterWriter == Inv /\ ListInv /\ WriterStep => WriterInv'
<1> SUFFICES ASSUME Inv, ListInv, WriterStep PROVE WriterInv'
  OBVIOUS
<1> USE RacyAssumption DEF Inv, ListInv, PointerInv, ChainInv, WriterInv, AddUnlinked,
      Writer, queue, readerVars
<1>1. CASE WriterOnly
  BY <1>1 DEF WriterOnly, AddAssert, AddFull, AddLoad, AddStore
<1>2. CASE AddMalloc
  BY <1>2 DEF AddMalloc
<1>3. CASE AddEmpty
  BY <1>3 DEF AddEmpty
<1>4. CASE AddSetLast
  BY <1>4 DEF AddSetLast
<1>5. CASE AddSetFirst
  BY <1>5 DEF AddSetFirst
<1>6. CASE AddLink
  BY <1>6 DEF AddLink
<1>7. CASE AddAdvance
  BY <1>7 DEF AddAdvance
<1>8. QED
  BY <1>1, <1>2, <1>3, <1>4, <1>5, <1>6, <1>7 DEF WriterStep, WriterOnly

\* The writer does not take away what the reader relies on.
LEMMA WriterReader == Inv /\ ListInv /\ WriterStep => ReaderInv'
<1> SUFFICES ASSUME Inv, ListInv, WriterStep PROVE ReaderInv'
  OBVIOUS
<1> USE RacyAssumption DEF Inv, ListInv, PointerInv, ChainInv, ReaderInv, Writer, queue, readerVars
<1>1. CASE WriterOnly
  BY <1>1 DEF WriterOnly, AddAssert, AddFull, AddLoad, AddStore
<1>2. CASE AddMalloc
  BY <1>2 DEF AddMalloc
<1>3. CASE AddEmpty \/ AddSetLast \/ AddAdvance
  BY <1>3 DEF AddEmpty, AddSetLast, AddAdvance
<1>4. CASE AddSetFirst
  BY <1>4 DEF AddSetFirst, WriterInv
<1>5. CASE AddLink
  BY <1>5 DEF AddLink, WriterInv
<1>6. QED
  BY <1>1, <1>2, <1>3, <1>4, <1>5 DEF WriterStep, WriterOnly

\* The writer appends a value above those in the list and those that were read.
LEMMA WriterValue == Inv /\ ListInv /\ WriterStep => ValueInv'
<1> SUFFICES ASSUME Inv, ListInv, WriterStep PROVE ValueInv'
  OBVIOUS
<1> USE RacyAssumption DEF Inv, ListInv, PointerInv, ChainInv, ValueInv, AddUnlinked, AddLinked,
      Writer, queue, readerVars
<1>1. CASE AddAssert \/ AddFull \/ AddLoad
  BY <1>1 DEF AddAssert, AddFull, AddLoad
<1>2. CASE AddStore
  BY <1>2 DEF AddStore
<1>3. CASE AddMalloc
  BY <1>3 DEF AddMalloc, ReaderInv
<1>4. CASE AddEmpty \/ AddSetLast \/ AddAdvance
  BY <1>4 DEF AddEmpty, AddSetLast, AddAdvance
<1>5. CASE AddSetFirst
  <2>1. /\ new \in heap /\ val[new] = i /\ got < i /\ expected <= i /\ first = NULL /\ wpc = "setfirst"
    BY <1>5 DEF AddSetFirst, WriterInv
  <2>2. /\ first' = new /\ wpc' = "load"
        /\ UNCHANGED <<next, val, heap, i, new, rpc, tmp, got, expected>>
    BY <1>5 DEF AddSetFirst
  <2>3. i \in Int /\ got \in Int /\ expected \in Int
    OBVIOUS
  <2>4. /\ \A n \in heap' : next'[n] # NULL => val'[next'[n]] > val'[n]
        /\ \A n \in heap' : val'[n] < i' \/ (n = new' /\ val'[n] = i' /\ wpc' \in AddUnlinked \cup AddLinked)
    BY <2>1, <2>2
  <2> HIDE DEF Inv, ListInv, PointerInv, ChainInv
  <2>5. QED
    BY <2>1, <2>2, <2>3, <2>4 DEF ListInv
<1>6. CASE AddLink
  <2>1. /\ \A n \in heap : n # new => val[n] < i
        /\ val[new] = i /\ got < i /\ expected <= i /\ next[new] = NULL /\ last # new
        /\ \A n \in heap : next[n] # new
    BY <1>6 DEF AddLink, WriterInv
  <2>2. /\ UNCHANGED <<first, val, heap, i, new, rpc, tmp, got, expected>>
        /\ wpc = "link" /\ wpc' \in {"link", "advance"}
        /\ next' = next \/ (last \in Nodes /\ next' = [next EXCEPT ![last] = new])
    BY <1>6 DEF AddLink
  <2>3. \A n \in heap' : next'[n] # NULL => val'[next'[n]] > val'[n]
    BY <2>1, <2>2
  <2>4. \A n \in heap' : val'[n] < i' \/ (n = new' /\ val'[n] = i' /\ wpc' \in AddUnlinked \cup AddLinked)
    BY <2>2
  <2>5. i \in Int /\ got \in Int /\ expected \in Int
    OBVIOUS
  <2> HIDE DEF Inv, ListInv, PointerInv, ChainInv
  <2>6. IF wpc' \in AddLinked THEN got' <= i' /\ expected' <= i' + 1 ELSE got' < i' /\ expected' <= i'
    BY <2>1, <2>2, <2>5
  <2>7. /\ wpc' \in AddUnlinked => val'[new'] = i'
        /\ rpc' \in {"assert", "empty", "first", "val"} /\ first' # NULL => val'[first'] >= expected'
        /\ rpc' \in {"next", "unlink", "free", "load", "store", "check"} => got' >= expected'
        /\ rpc' \in {"next", "unlink"} => got' = val'[tmp']
        /\ rpc' \in {"free", "load", "store", "check"} /\ first' # NULL => val'[first'] > got'
    BY <2>1, <2>2 DEF ListInv
  <2>8. QED
    BY <2>3, <2>4, <2>6, <2>7
<1>7. QED
  BY <1>1, <1>2, <1>3, <1>4, <1>5, <1>6 DEF WriterStep

\* The reader takes the first node out of its chain before it frees it.
LEMMA ReaderChain == Inv /\ ListInv /\ ReaderStep => ChainInv'
<1> SUFFICES ASSUME Inv, ListInv, ReaderStep PROVE ChainInv'
  OBVIOUS
<1> USE RacyAssumption DEF Inv, ListInv, PointerInv, ChainInv, Reader, queue, writerVars
<1>1. CASE ReaderOnly
  BY <1>1 DEF ReaderOnly, GetAssert, GetEmpty, GetLoad, GetStore
<1>2. CASE GetFirst \/ GetVal \/ GetNext \/ ReaderCheck
  BY <1>2 DEF GetFirst, GetVal, GetNext, ReaderCheck
<1>3. CASE GetUnlink
  BY <1>3 DEF GetUnlink, ReaderInv
<1>4. CASE GetFree
  BY <1>4 DEF GetFree
<1>5. QED
  BY <1>1, <1>2, <1>3, <1>4 DEF ReaderStep, ReaderOnly

\* The reader frees q->last only with the list empty, and never the new node before
\* the writer has linked it.
LEMMA ReaderWriter == Inv /\ ListInv /\ ReaderStep => WriterInv'
<1> SUFFICES ASSUME Inv, ListInv, ReaderStep PROVE WriterInv'
  OBVIOUS
<1> USE RacyAssumption DEF Inv, ListInv, PointerInv, ChainInv, WriterInv, AddUnlinked,
      Reader, queue, writerVars
<1>1. CASE ReaderOnly
  BY <1>1 DEF ReaderOnly, GetAssert, GetEmpty, GetLoad, GetStore
<1>2. CASE GetFirst \/ GetVal \/ GetNext \/ ReaderCheck
  BY <1>2 DEF GetFirst, GetVal, GetNext, ReaderCheck
<1>3. CASE GetUnlink
  BY <1>3 DEF GetUnlink, ReaderInv
<1>4. CASE GetFree
  BY <1>4 DEF GetFree
<1>5. QED
  BY <1>1, <1>2, <1>3, <1>4 DEF ReaderStep, ReaderOnly

\* The reader's own steps keep what it relies on.
LEMMA ReaderReader == Inv /\ ListInv /\ ReaderStep => ReaderInv'
<1> SUFFICES ASSUME Inv, ListInv, ReaderStep PROVE ReaderInv'
  OBVIOUS
<1> USE RacyAssumption DEF Inv, ListInv, PointerInv, ChainInv, ReaderInv, Reader, queue, writerVars
<1>1. CASE ReaderOnly
  BY <1>1 DEF ReaderOnly, GetAssert, GetEmpty, GetLoad, GetStore
<1>2. CASE GetFirst
  BY <1>2 DEF GetFirst
<1>3. CASE GetVal
  BY <1>3 DEF GetVal
<1>4. CASE GetNext
  BY <1>4 DEF GetNext
<1>5. CASE GetUnlink \/ GetFree \/ ReaderCheck
  BY <1>5 DEF GetUnlink, GetFree, ReaderCheck
<1>6. QED
  BY <1>1, <1>2, <1>3, <1>4, <1>5 DEF ReaderStep, ReaderOnly

\* The value the reader gets is below those that follow it.
LEMMA ReaderValue == Inv /\ ListInv /\ ReaderStep => ValueInv'
<1> SUFFICES ASSUME Inv, ListInv, ReaderStep PROVE ValueInv'
  OBVIOUS
<1> USE RacyAssumption DEF Inv, ListInv, PointerInv, ChainInv, ValueInv, AddUnlinked, AddLinked,
      Reader, queue, writerVars
<1>1. CASE ReaderOnly
  BY <1>1 DEF ReaderOnly, GetAssert, GetEmpty, GetLoad, GetStore
<1>2. CASE GetFirst
  BY <1>2 DEF GetFirst
<1>3. CASE GetVal
  BY <1>3 DEF GetVal, ReaderInv, WriterInv
<1>4. CASE GetNext
  BY <1>4 DEF GetNext
<1>5. CASE GetUnlink
  BY <1>5 DEF GetUnlink, ReaderInv
<1>6. CASE GetFree
  BY <1>6 DEF GetFree, WriterInv
<1>7. CASE ReaderCheck
  BY <1>7 DEF ReaderCheck
<1>8. QED
  BY <1>1, <1>2, <1>3, <1>4, <1>5, <1>6, <1>7 DEF ReaderStep, ReaderOnly

\* An empty list is no chain.
LEMMA ListInit == Init => ListInv
  BY RacyAssumption DEF Init, ListInv, ChainInv, WriterInv, ReaderInv, ValueInv, AddUnlinked, AddLinked

-----------------------------------------------------------------------------
(* The theorems *)

\* The invariant holds in every behaviour of the two threads.
THEOREM InvCorrect == Spec => []Inv
<1>1. Inv /\ [Next]_vars => Inv'
  <2>1. Inv /\ UNCHANGED vars => Inv'
    BY DEF Inv, CountInv, PointerInv, vars, queue, writerVars, readerVars
  <2>2. QED
    BY <2>1, WriterKeeps, ReaderKeeps DEF Next
<1>2. QED
  BY <1>1, InvInit, PTL DEF Spec

\* count stays between 0 and max_count, whatever updates of it are lost.
THEOREM TypeCorrect == Spec => []TypeOK
<1>1. Inv => TypeOK
  BY DEF Inv, CountInv, PointerInv, TypeOK
<1>2. QED
  BY <1>1, InvCorrect, PTL

\* The assertions of queue_add and queue_get never fail.
THEOREM AssertionsCorrect == Spec => []AssertionsHold
<1>1. Inv => AssertionsHold
  BY DEF Inv, CountInv, AssertionsHold
<1>2. QED
  BY <1>1, InvCorrect, PTL

\* What is known of the list holds in every behaviour of the two threads.
THEOREM ListCorrect == Spec => []ListInv
<1>1. Inv /\ ListInv /\ [Next]_vars => ListInv'
  <2>1. ListInv /\ UNCHANGED vars => ListInv'
    BY DEF ListInv, ChainInv, WriterInv, ReaderInv, ValueInv, vars, queue, writerVars, readerVars
  <2>2. Inv /\ ListInv /\ WriterStep => ListInv'
    BY WriterChain, WriterWriter, WriterReader, WriterValue DEF ListInv
  <2>3. Inv /\ ListInv /\ ReaderStep => ListInv'
    BY ReaderChain, ReaderWriter, ReaderReader, ReaderValue DEF ListInv
  <2>4. QED
    BY <2>1, <2>2, <2>3 DEF Next
<1>2. QED
  BY <1>1, ListInit, InvCorrect, PTL DEF Spec

\* q->first is allocated or NULL, and the reader never reads or frees a node that
\* was freed, although the writer writes to freed nodes.
THEOREM ReaderNodeCorrect == Spec => []ReaderNodeLive
<1>1. Inv /\ ListInv => ReaderNodeLive
  BY DEF Inv, PointerInv, ListInv, ChainInv, ReaderInv, ReaderNodeLive
<1>2. QED
  BY <1>1, InvCorrect, ListCorrect, PTL

\* Values are lost, but the reader never gets one twice or out of order.
THEOREM ValuesCorrect == Spec => []ValuesIncrease
<1>1. ListInv => ValuesIncrease
  BY DEF ListInv, ValueInv, ValuesIncrease
<1>2. QED
  BY <1>1, ListCorrect, PTL

=============================================================================
