---------------------------- MODULE ProxyDelivery ----------------------------
(***************************************************************************)
(* What ProxyCache delivers to its clients before the collector's first    *)
(* pass: it implements SharedFetch.  The history variable late, which no   *)
(* step reads, remembers who found the content of his URL complete.        *)
(***************************************************************************)
EXTENDS ProxyCache

VARIABLE late

DeliveryInit == Init /\ late = [c \in Clients |-> FALSE]

\* A lookup that finds an element is the step from "lookup" to "acquire".
FoundComplete(c) == pc[c] = "lookup" /\ pc'[c] = "acquire" /\ full[pair'[c]]

DeliveryNext ==
  /\ Next
  /\ late' = [c \in Clients |-> late[c] \/ FoundComplete(c)]

DeliverySpec == DeliveryInit /\ [][DeliveryNext]_<<vars, late>>

FairDeliverySpec == DeliverySpec /\ Fairness

-----------------------------------------------------------------------------
(* The refinement mapping *)

Phase ==
  [c \in Clients |->
     CASE pc[c] = "recv" -> "new"
       [] pc[c] = "lookup" -> "asked"
       [] pc[c] \in {"release", "destroy", "done"} -> "left"
       [] OTHER -> "served"]

Delivered == [c \in Clients |-> IF Phase[c] = "left" THEN 0 ELSE written[c]]

\* Nobody will add to entry e any more, and it is not complete.
FetchFailed(e) ==
  \/ spc[e] = "none" /\ pc[e] = "done"
  \/ spc[e] = "leaked"
  \/ spc[e] = "exit" /\ ~full[e]

Fate(e) ==
  IF full[e] THEN "complete" ELSE IF FetchFailed(e) THEN "failed" ELSE "running"

FetchState == [u \in Urls |-> IF cache[u] = None THEN "none" ELSE Fate(cache[u])]

Content == [u \in Urls |-> IF cache[u] = None THEN 0 ELSE size[cache[u]]]

Shared == INSTANCE SharedFetch WITH
  Nothing <- None, Pieces <- 0..BufferSize, phase <- Phase, wanted <- url,
  delivered <- Delivered, fetch <- FetchState, content <- Content

\* Before the first pass the clients of one URL share one fetch: none is sent
\* more than it received, none is let go before it is complete unless a write
\* to him fails that had something to write, and a client who comes when it is
\* complete gets all of it, whatever to_write and is_full_content the threads
\* saw at which time.
ImplementsSharedFetch == Shared!Spec

=============================================================================
