----------------------------- MODULE SharedFetch -----------------------------
(***************************************************************************)
(* What the proxy of task3 promises its clients as long as no entry is     *)
(* collected: a URL is fetched at most once, all clients that ask for it   *)
(* are served from what this one fetch receives, and nobody is let go      *)
(* before the content is complete unless his own connection fails.         *)
(*                                                                         *)
(* Not promised: that a client gets the end of a content which becomes     *)
(* complete while he is being served, nor anything if the fetch fails.     *)
(***************************************************************************)
EXTENDS Integers

CONSTANTS
  Clients,     \* who asks
  Urls,        \* what is asked for
  Pieces,      \* how many units can be received at a time
  Nothing      \* what a client wants before he has asked

VARIABLES
  phase,       \* of a client: "new", "asked", "served", "left"
  wanted,      \* the URL he asked for
  delivered,   \* units of content he was sent; 0 again when he has left
  late,        \* the content was complete when he was accepted
  fetch,       \* of a URL: "none", "running", "complete", "failed"
  content      \* units received for it

clientVars == <<phase, wanted, delivered, late>>
urlVars == <<fetch, content>>

Init ==
  /\ phase = [c \in Clients |-> "new"]
  /\ wanted = [c \in Clients |-> Nothing]
  /\ delivered = [c \in Clients |-> 0]
  /\ late = [c \in Clients |-> FALSE]
  /\ fetch = [u \in Urls |-> "none"]
  /\ content = [u \in Urls |-> 0]

Ask(c, u) ==
  /\ phase[c] = "new"
  /\ phase' = [phase EXCEPT ![c] = "asked"]
  /\ wanted' = [wanted EXCEPT ![c] = u]
  /\ UNCHANGED <<delivered, late, urlVars>>

\* A request that is not understood.
Refuse(c) ==
  /\ phase[c] = "new"
  /\ phase' = [phase EXCEPT ![c] = "left"]
  /\ UNCHANGED <<wanted, delivered, late, urlVars>>

\* The first client of a URL starts its only fetch.
Begin(c) ==
  /\ phase[c] = "asked" /\ fetch[wanted[c]] = "none"
  /\ phase' = [phase EXCEPT ![c] = "served"]
  /\ fetch' = [fetch EXCEPT ![wanted[c]] = "running"]
  /\ UNCHANGED <<wanted, delivered, late, content>>

\* Everybody else shares it, in whatever state it is.
Join(c) ==
  /\ phase[c] = "asked" /\ fetch[wanted[c]] # "none"
  /\ phase' = [phase EXCEPT ![c] = "served"]
  /\ late' = [late EXCEPT ![c] = fetch[wanted[c]] = "complete"]
  /\ UNCHANGED <<wanted, delivered, urlVars>>

\* The host cannot be reached: the fetch fails before anything was received.
GiveUp(c) ==
  /\ phase[c] = "served" /\ fetch[wanted[c]] = "running" /\ content[wanted[c]] = 0
  /\ phase' = [phase EXCEPT ![c] = "left"]
  /\ fetch' = [fetch EXCEPT ![wanted[c]] = "failed"]
  /\ UNCHANGED <<wanted, delivered, late, content>>

\* n more units are received, after which the fetch goes on or has failed.
Receive(u, n) ==
  /\ fetch[u] = "running"
  /\ content' = [content EXCEPT ![u] = @ + n]
  /\ fetch' \in {fetch, [fetch EXCEPT ![u] = "failed"]}
  /\ UNCHANGED clientVars

Complete(u) ==
  /\ fetch[u] = "running"
  /\ fetch' = [fetch EXCEPT ![u] = "complete"]
  /\ UNCHANGED <<clientVars, content>>

\* A client is sent something of what has been received and not sent to him.
Deliver(c) ==
  /\ phase[c] = "served"
  /\ \E n \in 1..(content[wanted[c]] - delivered[c]) :
       delivered' = [delivered EXCEPT ![c] = @ + n]
  /\ UNCHANGED <<phase, wanted, late, urlVars>>

Forget(c) ==
  /\ phase' = [phase EXCEPT ![c] = "left"]
  /\ delivered' = [delivered EXCEPT ![c] = 0]
  /\ UNCHANGED <<wanted, late, urlVars>>

\* A client is let go when the content is complete; whoever came after that
\* has been sent all of it.
Leave(c) ==
  /\ phase[c] = "served" /\ fetch[wanted[c]] = "complete"
  /\ late[c] => delivered[c] = content[wanted[c]]
  /\ Forget(c)

\* His connection fails, while there is something to send to him.
Break(c) ==
  /\ phase[c] = "served" /\ delivered[c] < content[wanted[c]]
  /\ Forget(c)

Next ==
  \/ \E c \in Clients :
       \/ \E u \in Urls : Ask(c, u)
       \/ Refuse(c) \/ Begin(c) \/ Join(c) \/ GiveUp(c)
       \/ Deliver(c) \/ Leave(c) \/ Break(c)
  \/ \E u \in Urls : Complete(u) \/ \E n \in Pieces : Receive(u, n)

Spec == Init /\ [][Next]_<<clientVars, urlVars>>

=============================================================================
