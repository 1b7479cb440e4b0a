----------------------------- MODULE LinkedQueue -----------------------------
(***************************************************************************)
(* The singly linked list inside queue_t, the same code in all variants of *)
(* task2/2.2, and what queue_add and queue_get do to it once they may:     *)
(* Insert and Remove are whole critical sections of the locked variants.   *)
(* Nodes are addresses: malloc may return one that was freed before.       *)
(* malloc is assumed to succeed (a failure aborts the program).            *)
(***************************************************************************)
EXTENDS Integers, Sequences, FiniteSets

CONSTANTS
  Nodes,       \* the addresses malloc returns
  NULL,
  MaxCount,    \* max_count
  Wrap         \* bound: values are counted modulo Wrap

ASSUME QueueAssumption ==
  /\ IsFiniteSet(Nodes) /\ NULL \notin Nodes
  /\ MaxCount \in Nat \ {0} /\ MaxCount <= Cardinality(Nodes)
  /\ Wrap \in Nat \ {0}

VARIABLES
  first, last,   \* q->first, q->last
  next, val,     \* the fields of the nodes
  heap,          \* the nodes allocated and not freed
  count,         \* q->count
  chain          \* auxiliary, read by no action: the nodes in order of insertion

listVars == <<first, last, next, val, heap, count, chain>>

ListInit ==
  /\ first = NULL /\ last = NULL
  /\ next = [n \in Nodes |-> NULL]
  /\ val = [n \in Nodes |-> 0]
  /\ heap = {}
  /\ count = 0
  /\ chain = <<>>

\* Mutant of Insert: the empty queue is recognised by last, which queue_get
\* never resets.
InsertByLast(n, v) ==
  /\ val' = [val EXCEPT ![n] = v]
  /\ IF last = NULL
     THEN first' = n /\ next' = [next EXCEPT ![n] = NULL]
     ELSE next' = [next EXCEPT ![n] = NULL, ![last] = n] /\ UNCHANGED first
  /\ last' = n
  /\ heap' = heap \cup {n}
  /\ count' = count + 1
  /\ chain' = Append(chain, n)

\* Mutant of Insert: the new node is linked in front.
InsertInFront(n, v) ==
  /\ val' = [val EXCEPT ![n] = v]
  /\ next' = [next EXCEPT ![n] = first]
  /\ first' = n
  /\ last' = IF first = NULL THEN n ELSE last
  /\ heap' = heap \cup {n}
  /\ count' = count + 1
  /\ chain' = Append(chain, n)

\* The new node n gets its fields and is linked behind the last one; count++.
Insert(n, v) ==
  /\ val' = [val EXCEPT ![n] = v]
  /\ IF first = NULL
     THEN first' = n /\ next' = [next EXCEPT ![n] = NULL]
     ELSE next' = [next EXCEPT ![n] = NULL, ![last] = n] /\ UNCHANGED first
  /\ last' = n
  /\ heap' = heap \cup {n}
  /\ count' = count + 1
  /\ chain' = Append(chain, n)

\* The first node is unlinked and freed; last is left alone, even when it
\* pointed to that node; count--.
Remove ==
  /\ first' = next[first]
  /\ heap' = heap \ {first}
  /\ count' = count - 1
  /\ chain' = Tail(chain)
  /\ UNCHANGED <<last, next, val>>

\* The values in the queue, oldest first.
Content == [k \in 1..Len(chain) |-> val[chain[k]]]

\* The list is exactly the chain of allocated nodes, and count is its length.
\* While the queue is not empty, first and last point to allocated nodes; while
\* it is, last may dangle, but nothing follows it.
ListShape ==
  /\ chain \in Seq(Nodes)
  /\ count = Len(chain)
  /\ heap = {chain[k] : k \in 1..Len(chain)}
  /\ \A j, k \in 1..Len(chain) : chain[j] = chain[k] => j = k
  /\ Len(chain) = 0 => first = NULL
  /\ Len(chain) > 0 =>
       /\ first = chain[1]
       /\ last = chain[Len(chain)]
       /\ next[last] = NULL
       /\ \A k \in 1..(Len(chain) - 1) : next[chain[k]] = chain[k + 1]

=============================================================================
