------------------------------ MODULE RacyQueue ------------------------------
(***************************************************************************)
(* task2/2.2/sync: the queue without any lock, one writer and one reader,  *)
(* both bound to the same CPU (queue-threads.c).  The threads are switched *)
(* between any two accesses to memory: a step is one load or store of a    *)
(* shared location, so that count++ and count-- are two steps each.  The   *)
(* build does not optimise (Makefile: CFLAGS= -g -Wall), which fixes the   *)
(* accesses and their order.                                               *)
(*                                                                         *)
(* A freed node can still be read and written: the store goes through, and *)
(* what free left in the node is either the old field or garbage.          *)
(***************************************************************************)
EXTENDS Integers, FiniteSets

CONSTANTS
  Nodes,       \* the addresses malloc returns
  NULL,
  GARBAGE,     \* a pointer to no node
  MaxCount,    \* max_count
  MaxValue     \* bound: the writer stops at this value

ASSUME RacyAssumption ==
  /\ IsFiniteSet(Nodes) /\ NULL \notin Nodes /\ GARBAGE \notin Nodes /\ NULL # GARBAGE
  /\ MaxCount \in Nat \ {0} /\ MaxValue \in Nat

VARIABLES
  first, last, count,   \* the fields of queue_t
  next, val,            \* the fields of the nodes
  heap,                 \* the nodes allocated and not freed
  wpc, i, new, wcount,  \* the writer: place, next value, new node, loaded count
  rpc, tmp, rnext, rcount, got, expected,   \* the reader, likewise
  ended                 \* "no", "assert" or "segv"

queue == <<first, last, count, next, val, heap>>
writerVars == <<wpc, i, new, wcount>>
readerVars == <<rpc, tmp, rnext, rcount, got, expected>>
vars == <<queue, writerVars, readerVars, ended>>

Init ==
  /\ first = NULL /\ last = NULL /\ count = 0
  /\ next = [n \in Nodes |-> NULL] /\ val = [n \in Nodes |-> 0] /\ heap = {}
  /\ wpc = "assert" /\ i = 0 /\ new = NULL /\ wcount = 0
  /\ rpc = "assert" /\ tmp = NULL /\ rnext = NULL /\ rcount = 0
  /\ got = -1 /\ expected = 0
  /\ ended = "no"

Writer(from, to) == wpc = from /\ wpc' = to
Reader(from, to) == rpc = from /\ rpc' = to

-----------------------------------------------------------------------------
(* queue_add, called by writer *)

AddAssert ==
  /\ wpc = "assert" /\ i < MaxValue
  /\ IF count <= MaxCount
     THEN wpc' = "full" /\ UNCHANGED ended
     ELSE ended' = "assert" /\ UNCHANGED wpc
  /\ UNCHANGED <<queue, i, new, wcount, readerVars>>

\* Mutant of AddFull: the queue is never found full.
AddFullUntested ==
  /\ Writer("full", "malloc")
  /\ UNCHANGED <<queue, i, new, wcount, readerVars, ended>>

AddFull ==
  /\ Writer("full", IF count = MaxCount THEN "assert" ELSE "malloc")
  /\ UNCHANGED <<queue, i, new, wcount, readerVars, ended>>

AddMalloc ==
  /\ Writer("malloc", "empty")
  /\ \E n \in Nodes \ heap :
       /\ new' = n
       /\ heap' = heap \cup {n}
       /\ val' = [val EXCEPT ![n] = i]
       /\ next' = [next EXCEPT ![n] = NULL]
  /\ UNCHANGED <<first, last, count, i, wcount, readerVars, ended>>

AddEmpty ==
  /\ Writer("empty", IF first = NULL THEN "setlast" ELSE "link")
  /\ UNCHANGED <<queue, i, new, wcount, readerVars, ended>>

\* q->first = q->last = new stores last before first.
AddSetLast ==
  /\ Writer("setlast", "setfirst")
  /\ last' = new
  /\ UNCHANGED <<first, count, next, val, heap, i, new, wcount, readerVars, ended>>

AddSetFirst ==
  /\ Writer("setfirst", "load")
  /\ first' = new
  /\ UNCHANGED <<last, count, next, val, heap, i, new, wcount, readerVars, ended>>

\* Mutant of AddLink: the new node is linked in front, and last stays.
AddLinkInFront ==
  /\ Writer("link", "load")
  /\ next' = [next EXCEPT ![new] = first] /\ first' = new
  /\ UNCHANGED <<last, count, val, heap, i, new, wcount, readerVars, ended>>

AddLink ==
  /\ wpc = "link"
  /\ IF last \in Nodes
     THEN next' = [next EXCEPT ![last] = new] /\ wpc' = "advance" /\ UNCHANGED ended
     ELSE ended' = "segv" /\ UNCHANGED <<next, wpc>>
  /\ UNCHANGED <<first, last, count, val, heap, i, new, wcount, readerVars>>

AddAdvance ==
  /\ Writer("advance", "load")
  /\ last' = next[last]
  /\ UNCHANGED <<first, count, next, val, heap, i, new, wcount, readerVars, ended>>

AddLoad ==
  /\ Writer("load", "store")
  /\ wcount' = count
  /\ UNCHANGED <<queue, i, new, readerVars, ended>>

\* count is stored, queue_add returns 1 and the writer counts on.
AddStore ==
  /\ Writer("store", "assert")
  /\ count' = wcount + 1
  /\ i' = i + 1
  /\ UNCHANGED <<first, last, next, val, heap, new, wcount, readerVars, ended>>

-----------------------------------------------------------------------------
(* queue_get, called by reader *)

GetAssert ==
  /\ rpc = "assert"
  /\ IF count >= 0
     THEN rpc' = "empty" /\ UNCHANGED ended
     ELSE ended' = "assert" /\ UNCHANGED rpc
  /\ UNCHANGED <<queue, writerVars, tmp, rnext, rcount, got, expected>>

GetEmpty ==
  /\ Reader("empty", IF count = 0 THEN "assert" ELSE "first")
  /\ UNCHANGED <<queue, writerVars, tmp, rnext, rcount, got, expected, ended>>

GetFirst ==
  /\ Reader("first", "val")
  /\ tmp' = first
  /\ UNCHANGED <<queue, writerVars, rnext, rcount, got, expected, ended>>

GetVal ==
  /\ rpc = "val"
  /\ IF tmp \in Nodes
     THEN got' = val[tmp] /\ rpc' = "next" /\ UNCHANGED ended
     ELSE ended' = "segv" /\ UNCHANGED <<got, rpc>>
  /\ UNCHANGED <<queue, writerVars, tmp, rnext, rcount, expected>>

\* q->first = q->first->next loads, then stores.
GetNext ==
  /\ rpc = "next"
  /\ IF first \in Nodes
     THEN rnext' = next[first] /\ rpc' = "unlink" /\ UNCHANGED ended
     ELSE ended' = "segv" /\ UNCHANGED <<rnext, rpc>>
  /\ UNCHANGED <<queue, writerVars, tmp, rcount, got, expected>>

\* Mutant of GetUnlink: the node is freed, but stays in the list.
GetUnlinkForgotten ==
  /\ Reader("unlink", "free")
  /\ UNCHANGED <<queue, writerVars, tmp, rnext, rcount, got, expected, ended>>

GetUnlink ==
  /\ Reader("unlink", "free")
  /\ first' = rnext
  /\ UNCHANGED <<last, count, next, val, heap, writerVars, tmp, rnext, rcount, got, expected, ended>>

GetFree ==
  /\ Reader("free", "load")
  /\ heap' = heap \ {tmp}
  /\ \E p \in {next[tmp], GARBAGE} : next' = [next EXCEPT ![tmp] = p]
  /\ UNCHANGED <<first, last, count, val, writerVars, tmp, rnext, rcount, got, expected, ended>>

GetLoad ==
  /\ Reader("load", "store")
  /\ rcount' = count
  /\ UNCHANGED <<queue, writerVars, tmp, rnext, got, expected, ended>>

GetStore ==
  /\ Reader("store", "check")
  /\ count' = rcount - 1
  /\ UNCHANGED <<first, last, next, val, heap, writerVars, tmp, rnext, rcount, got, expected, ended>>

\* reader compares the value with the expected one, and expects its successor.
ReaderCheck ==
  /\ Reader("check", "assert")
  /\ expected' = got + 1
  /\ UNCHANGED <<queue, writerVars, tmp, rnext, rcount, got, ended>>

-----------------------------------------------------------------------------

WriterStep ==
  AddAssert \/ AddFull \/ AddMalloc \/ AddEmpty \/ AddSetLast \/ AddSetFirst
  \/ AddLink \/ AddAdvance \/ AddLoad \/ AddStore

ReaderStep ==
  GetAssert \/ GetEmpty \/ GetFirst \/ GetVal \/ GetNext \/ GetUnlink \/ GetFree
  \/ GetLoad \/ GetStore \/ ReaderCheck

Next == ended = "no" /\ (WriterStep \/ ReaderStep)

Spec == Init /\ [][Next]_vars

-----------------------------------------------------------------------------
(* Properties *)

\* Every variable has its type.  Although updates of count are lost, count stays
\* between 0 and max_count: each thread tests it before it moves it, and the
\* other one only moves it the other way.
TypeOK ==
  /\ count \in 0..MaxCount
  /\ {first, last, tmp, new, rnext} \subseteq Nodes \cup {NULL, GARBAGE}
  /\ next \in [Nodes -> Nodes \cup {NULL, GARBAGE}]
  /\ heap \subseteq Nodes
  /\ i \in 0..MaxValue /\ got \in -1..MaxValue
  /\ ended \in {"no", "assert", "segv"}

\* Neither assertion of queue_add and queue_get fails, though they, too, read
\* count in the middle of the other thread's update.
AssertionsHold == ended # "assert"

\* Although the list is damaged, the reader never reads or frees a node a second
\* time: q->first and the node it works on are allocated, or NULL.
ReaderNodeLive ==
  /\ first \in heap \cup {NULL}
  /\ rpc \in {"val", "next", "unlink", "free"} => tmp \in heap \cup {NULL}

\* The damage loses values, and reader prints its ERROR; but no value comes twice
\* or out of order.
ValuesIncrease == rpc = "check" => got >= expected

=============================================================================
