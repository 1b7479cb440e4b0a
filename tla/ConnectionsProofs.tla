-------------------------- MODULE ConnectionsProofs --------------------------
(***************************************************************************)
(* Proofs about Connections, for any number of connections, descriptors    *)
(* and addresses: who owns which descriptor, what a finished client leaves *)
(* open, and that a request is looked up only if it was accepted.          *)
(***************************************************************************)
EXTENDS Connections, WellFoundedInduction, TLAPS

-----------------------------------------------------------------------------
(* Lemmas about the operators *)

\* A set of natural numbers has a least element.
LEMMA LeastElement ==
  ASSUME NEW S \in SUBSET Nat, S # {}
  PROVE  \E x \in S : \A y \in S : x <= y
<1>1. PICK x \in S : \A y \in S : ~(<<y, x>> \in OpToRel(<, Nat))
  BY WFMin, NatLessThanWellFounded, Zenon
<1>2. \A y \in S : ~(y < x)
  BY <1>1 DEF OpToRel
<1>3. \A y \in S : x <= y
  <2>1. \A a, b \in Nat : ~(b < a) => a <= b
    OBVIOUS
  <2>2. QED
    BY <1>2, <2>1
<1>4. QED
  BY <1>3

\* accept() and socket() return a free number, if there is one.
LEMMA NewFdFree == Free # {} => NewFd \in Fds /\ user[NewFd] = Nobody
<1> SUFFICES ASSUME Free # {} PROVE NewFd \in Fds /\ user[NewFd] = Nobody
  OBVIOUS
<1>1. Free \in SUBSET Nat
  BY ConnectionsAssumption DEF Free, Fds
<1>2. Min(Free) \in Free
  BY <1>1, LeastElement DEF Min
<1>3. QED
  BY <1>2 DEF NewFd, Free

\* The two threads of a connection, and those of different connections, differ.
LEMMA ThreadNames ==
  /\ \A c \in Clients : Client(c) \in Threads /\ Server(c) \in Threads
  /\ \A c, d \in Clients :
       /\ Client(c) # Server(d)
       /\ Client(c) = Client(d) => c = d
       /\ Server(c) = Server(d) => c = d
  /\ \A c \in Clients :
       /\ Client(c)[1] = c /\ Client(c)[2] = "client"
       /\ Server(c)[1] = c /\ Server(c)[2] = "server"
  /\ \A t \in Threads : \E c \in Clients : t = Client(c) \/ t = Server(c)
  BY DEF Threads, Client, Server

\* The callbacks of a message are among those that init_parser stores.
LEMMA EventNames ==
  /\ Len(Callbacks) = 4 /\ DOMAIN Callbacks = 1..4
  /\ \A c \in Clients :
       /\ Len(Events(Client(c))) = 5 /\ DOMAIN Events(Client(c)) = 1..5
       /\ Len(Events(Server(c))) = 1 /\ DOMAIN Events(Server(c)) = 1..1
       /\ \A k \in 1..5 : Events(Client(c))[k] = "on_message_complete" <=> k = 5
       /\ \A k \in 1..5 : Events(Client(c))[k] = "on_url" <=> k \in {2, 3}
       /\ Events(Client(c))[1] = "on_method_complete"
       /\ Events(Client(c))[4] = "on_version_complete"
  /\ \A t \in Threads, k \in Nat :
       k \in 1..Len(Events(t)) => \E j \in 1..4 : Events(t)[k] = Callbacks[j]
<1>1. Len(Callbacks) = 4 /\ DOMAIN Callbacks = 1..4
      /\ Callbacks[1] = "on_url" /\ Callbacks[2] = "on_message_complete"
      /\ Callbacks[3] = "on_method_complete" /\ Callbacks[4] = "on_version_complete"
  BY DEF Callbacks
<1>2. ASSUME NEW c \in Clients
      PROVE  /\ Events(Client(c)) = <<"on_method_complete", "on_url", "on_url",
                                      "on_version_complete", "on_message_complete">>
             /\ Events(Server(c)) = <<"on_message_complete">>
  BY ThreadNames DEF Events
<1>3. ASSUME NEW t \in Threads, NEW k \in Nat, k \in 1..Len(Events(t))
      PROVE  \E j \in 1..4 : Events(t)[k] = Callbacks[j]
  <2>1. PICK c \in Clients : t = Client(c) \/ t = Server(c)
    BY ThreadNames
  <2>2. CASE t = Client(c)
    <3>1. k \in 1..5
      BY <1>2, <1>3, <2>2
    <3>2. QED
      BY <1>1, <1>2, <2>2, <3>1
  <2>3. CASE t = Server(c)
    <3>1. k = 1
      BY <1>2, <1>3, <2>3
    <3>2. QED
      BY <1>1, <1>2, <2>3, <3>1
  <2>4. QED
    BY <2>1, <2>2, <2>3
<1>4. QED
  BY <1>1, <1>2, <1>3

-----------------------------------------------------------------------------
(* The inductive invariant *)

\* The types TypeOK leaves open.
Types ==
  /\ TypeOK
  /\ at \in [Threads -> Nat] /\ chunk \in [Threads -> Nat]
  /\ DOMAIN got = Threads
  /\ request \in [Clients -> Requests]
  /\ whole \in [Threads -> BOOLEAN]

\* A descriptor in use is the one its thread remembers, so a thread has one at most.
Remembered == \A d \in Fds, t \in Threads : user[d] = t => fd[t] = d

\* What the two threads of a connection have open, by where they stand.
DescriptorsOf(c) ==
  /\ pc[Server(c)] \in {"unborn", "init", "read", "parse", "done"}
  /\ pc[Server(c)] # "unborn" => pc[Client(c)] \in {"close", "done"}
  /\ pc[Client(c)] = "unborn" => fd[Client(c)] = -1
  /\ pc[Client(c)] \in Looking \cup {"init", "read", "parse", "close"} => Own(Client(c))
  /\ pc[Client(c)] \in {"abandon", "done"} => fd[Client(c)] = -1
  /\ pc[Client(c)] \in {"unborn", "init", "read", "parse", "lookup"} => fd[Server(c)] = -1
  /\ pc[Client(c)] = "socket" => ~Own(Server(c))
  /\ pc[Client(c)] = "connect" => Own(Server(c))
  /\ pc[Client(c)] \in {"write", "abandon"} => Own(Server(c)) \/ dead[c]
  /\ pc[Client(c)] \in {"close", "done"} /\ pc[Server(c)] = "unborn" => ~Own(Server(c))
  /\ pc[Server(c)] \in {"init", "read", "parse"} => Own(Server(c))
  /\ dead[c] => pc[Client(c)] \in {"write", "abandon"} /\ ~Own(Server(c))

Descriptors == \A c \in Clients : DescriptorsOf(c)

\* What a thread has stored into the settings stays there, and what llhttp has
\* come to was called, as long as nobody clears the settings.
ParsedBy(t) ==
  /\ pc[t] = "unborn" => stores[t] = 0
  /\ pc[t] = "init" => stores[t] \in 0..4
  /\ pc[t] \in {"read", "parse"} => stores[t] = 5
  /\ pc[t] \in {"unborn", "init"} => at[t] = 0 /\ got[t] = {}
  /\ pc[t] = "parse" => chunk[t] >= 1
  /\ ~disturbed[t] /\ pc[t] \in {"init", "read", "parse"} =>
       \A i \in 1..4 : i < stores[t] => Callbacks[i] \in settings
  /\ ~disturbed[t] /\ pc[t] \in {"init", "read", "parse", "lookup"} => got[t] = 1..at[t]
  /\ pc[t] = "lookup" => Called(t, got[t], "on_message_complete") /\ ~Refused(t, got[t])

Parsing == \A t \in Threads : ParsedBy(t)

Inv == Types /\ Remembered /\ Descriptors /\ Parsing

-----------------------------------------------------------------------------
(* What an action does to the table of descriptors *)

\* The descriptors of all threads but t are what they were.
KeptBut(t) ==
  \A u \in Threads : u # t => fd'[u] = fd[u] /\ (Own(u)' <=> Own(u))

\* A number given to t is nobody's, and is remembered.
LEMMA OpenEffect ==
  ASSUME Types, Remembered, NEW t \in Threads, Free # {}, ~Own(t),
         fd' = [fd EXCEPT ![t] = NewFd], user' = [user EXCEPT ![NewFd] = t]
  PROVE  Remembered' /\ Own(t)' /\ KeptBut(t) /\ fd'[t] \in Fds
<1> DEFINE n == NewFd
<1>1. n \in Fds /\ user[n] = Nobody
  BY NewFdFree
<1>2. fd \in [Threads -> Fds \cup {-1}] /\ user \in [Fds -> Threads \cup {Nobody}]
  BY DEF Types, TypeOK
<1>3. fd'[t] = n /\ user'[n] = t
      /\ (\A u \in Threads : u # t => fd'[u] = fd[u])
      /\ (\A d \in Fds : d # n => user'[d] = user[d])
  BY <1>1, <1>2
<1> HIDE DEF n
<1>4. Own(t)'
  BY <1>1, <1>3 DEF Own
<1>5. KeptBut(t)
  BY <1>1, <1>3, ConnectionsAssumption DEF KeptBut, Own
<1>6. Remembered'
  BY <1>1, <1>3 DEF Remembered, Own
<1>7. QED
  BY <1>1, <1>3, <1>4, <1>5, <1>6

\* A number closed by the thread whose connection it is, or closed already.
LEMMA CloseEffect ==
  ASSUME Types, Remembered, NEW t \in Threads, Own(t) \/ Closed(t),
         fd' = fd \/ fd' = [fd EXCEPT ![t] = -1], user' = CloseFd(user, t)
  PROVE  Remembered' /\ ~Own(t)' /\ KeptBut(t)
<1>1. fd \in [Threads -> Fds \cup {-1}] /\ user \in [Fds -> Threads \cup {Nobody}]
  BY DEF Types, TypeOK
<1>2. /\ \A u \in Threads : u # t => fd'[u] = fd[u]
      /\ fd'[t] = fd[t] \/ fd'[t] = -1
      /\ \A d \in Fds : user'[d] = IF d = fd[t] THEN Nobody ELSE user[d]
  BY <1>1 DEF CloseFd
<1>3. -1 \notin Fds /\ Nobody \notin Threads
  BY ConnectionsAssumption DEF Fds
<1>4. ~Own(t)'
  BY <1>2, <1>3 DEF Own
<1>5. KeptBut(t)
  <2> SUFFICES ASSUME NEW u \in Threads, u # t PROVE Own(u)' <=> Own(u)
    BY <1>2 DEF KeptBut
  <2>1. CASE fd[u] = fd[t] /\ fd[u] \in Fds
    BY <2>1, <1>2, <1>3 DEF Own, Closed
  <2>2. CASE fd[u] # fd[t] \/ fd[u] \notin Fds
    BY <2>2, <1>2 DEF Own
  <2>3. QED
    BY <2>1, <2>2
<1>6. Remembered'
  BY <1>2, <1>3 DEF Remembered
<1>7. QED
  BY <1>4, <1>5, <1>6

\* A thread without a connection forgets the number.
LEMMA ForgetEffect ==
  ASSUME Types, Remembered, NEW t \in Threads, ~Own(t),
         fd' = [fd EXCEPT ![t] = -1], user' = user
  PROVE  Remembered' /\ ~Own(t)' /\ KeptBut(t) /\ fd'[t] = -1
<1>1. fd \in [Threads -> Fds \cup {-1}]
  BY DEF Types, TypeOK
<1>2. fd'[t] = -1 /\ \A u \in Threads : u # t => fd'[u] = fd[u]
  BY <1>1
<1>3. -1 \notin Fds
  BY ConnectionsAssumption DEF Fds
<1>4. QED
  BY <1>2, <1>3 DEF Remembered, Own, KeptBut

\* Most actions leave the table alone.
LEMMA NoEffect ==
  ASSUME Remembered, NEW t, UNCHANGED <<fd, user>>
  PROVE  Remembered' /\ KeptBut(t) /\ (Own(t)' <=> Own(t)) /\ fd'[t] = fd[t]
  BY DEF Remembered, KeptBut, Own

\* A connection whose threads stand still keeps what is known of it.
LEMMA Elsewhere ==
  ASSUME NEW c \in Clients, DescriptorsOf(c),
         pc'[Client(c)] = pc[Client(c)], pc'[Server(c)] = pc[Server(c)],
         fd'[Client(c)] = fd[Client(c)], fd'[Server(c)] = fd[Server(c)],
         Own(Client(c))' <=> Own(Client(c)), Own(Server(c))' <=> Own(Server(c)),
         dead'[c] = dead[c]
  PROVE  DescriptorsOf(c)'
  BY DEF DescriptorsOf

\* A step of one connection, in which one of its threads opens or closes.
LEMMA OneConnection ==
  ASSUME Descriptors, NEW c \in Clients, DescriptorsOf(c)',
         NEW t \in {Client(c), Server(c)}, KeptBut(t),
         \A u \in Threads : u \notin {Client(c), Server(c)} => pc'[u] = pc[u],
         \A d \in Clients : d # c => dead'[d] = dead[d]
  PROVE  Descriptors'
<1> SUFFICES ASSUME NEW d \in Clients, d # c PROVE DescriptorsOf(d)'
  BY DEF Descriptors
<1>1. /\ Client(d) \in Threads /\ Server(d) \in Threads
      /\ Client(d) \notin {Client(c), Server(c)} /\ Server(d) \notin {Client(c), Server(c)}
  BY ThreadNames
<1>2. QED
  BY <1>1, Elsewhere DEF Descriptors, KeptBut

\* A step of main or of client_handler that neither opens nor closes, and leads
\* to a place where the same descriptors are expected.
LEMMA Standing ==
  ASSUME Inv, NEW c \in Clients, NEW t \in {Client(c), Server(c)},
         UNCHANGED <<fd, user, dead>>,
         \A u \in Threads : u # t => pc'[u] = pc[u],
         DescriptorsOf(c)'
  PROVE  Remembered' /\ Descriptors'
  BY NoEffect, OneConnection DEF Inv

\* A step in which every thread stands where it stood, with what it had.
LEMMA Still ==
  ASSUME Inv, UNCHANGED <<fd, user, dead, pc>>
  PROVE  Remembered' /\ Descriptors'
  BY ThreadNames, NoEffect, Elsewhere DEF Inv, Descriptors

LEMMA GotoEffect ==
  ASSUME Types, NEW t \in Threads, NEW label, Goto(t, label)
  PROVE  pc'[t] = label /\ \A u \in Threads : u # t => pc'[u] = pc[u]
  BY DEF Types, TypeOK, Goto

\* Where the receive loop of a thread may lead.
AfterLoop(t) == IF t[2] = "client" THEN {"lookup", "close"} ELSE {"done"}

\* The steps of the parser keep the descriptors of its thread.
LEMMA InLoop ==
  ASSUME Inv, NEW t \in Threads, UNCHANGED <<fd, user, dead>>,
         pc[t] \in {"init", "read", "parse"},
         pc'[t] \in {"init", "read", "parse"} \cup AfterLoop(t),
         \A u \in Threads : u # t => pc'[u] = pc[u]
  PROVE  Remembered' /\ Descriptors'
<1>1. PICK c \in Clients : t = Client(c) \/ t = Server(c)
  BY ThreadNames
<1>2. /\ Client(c) \in Threads /\ Server(c) \in Threads /\ Client(c) # Server(c)
      /\ Client(c)[2] = "client" /\ Server(c)[2] = "server"
  BY ThreadNames
<1>3. (Own(Client(c))' <=> Own(Client(c))) /\ (Own(Server(c))' <=> Own(Server(c)))
  BY NoEffect DEF Inv
<1>4. fd[Server(c)] = -1 => ~Own(Server(c))
  BY ConnectionsAssumption DEF Own, Fds
<1>5. DescriptorsOf(c)
  BY DEF Inv, Descriptors
<1>6. DescriptorsOf(c)'
  <2>1. CASE t = Client(c)
    <3>1. pc'[Client(c)] \in {"init", "read", "parse", "lookup", "close"}
          /\ pc'[Server(c)] = pc[Server(c)]
      BY <1>2, <2>1 DEF AfterLoop
    <3>2. pc[Client(c)] \in {"init", "read", "parse"}
      BY <2>1
    <3>3. QED
      BY <3>1, <3>2, <1>3, <1>4, <1>5 DEF DescriptorsOf, Looking
  <2>2. CASE t = Server(c)
    <3>1. pc'[Server(c)] \in {"init", "read", "parse", "done"}
          /\ pc'[Client(c)] = pc[Client(c)]
      BY <1>2, <2>2 DEF AfterLoop
    <3>2. pc[Server(c)] \in {"init", "read", "parse"}
      BY <2>2
    <3>3. QED
      BY <3>1, <3>2, <1>3, <1>4, <1>5 DEF DescriptorsOf, Looking
  <2>3. QED
    BY <1>1, <2>1, <2>2
<1>7. QED
  BY <1>1, <1>6, Standing

\* The loop of a server_handler does not lead back to the client.
LEMMA LeaveEffect ==
  ASSUME NEW t \in Threads, NEW seen
  PROVE  /\ Leave(t, AfterParse(t, seen)) \in {"read"} \cup AfterLoop(t)
         /\ Leave(t, "reject") \in AfterLoop(t)
         /\ Leave(t, "reject") # "lookup"
         /\ Leave(t, AfterParse(t, seen)) = "lookup" =>
              Called(t, seen, "on_message_complete") /\ ~Refused(t, seen)
  BY Zenon DEF Leave, AfterParse, AfterLoop

-----------------------------------------------------------------------------
(* The descriptors, action by action *)

\* The steps of init_parser and of the parser.
LEMMA ParserDescriptors ==
  ASSUME Inv, NEW t \in Threads, Parser(t)
  PROVE  Remembered' /\ Descriptors'
<1> USE DEF Inv
<1>1. CASE Clear(t)
  BY <1>1, Still DEF Clear, fdVars
<1>2. CASE Store(t)
  <2>1. CASE stores[t] = Len(Callbacks)
    BY <1>2, <2>1, GotoEffect, InLoop DEF Store, fdVars
  <2>2. CASE stores[t] # Len(Callbacks)
    BY <1>2, <2>2, Still DEF Store, fdVars
  <2>3. QED
    BY <2>1, <2>2
<1>3. CASE Read(t)
  BY <1>3, GotoEffect, InLoop DEF Read, fdVars
<1>4. CASE Parse(t)
  <2>1. PICK seen : Goto(t, IF chunk[t] > 1 THEN "parse" ELSE Leave(t, AfterParse(t, seen)))
    BY <1>4 DEF Parse
  <2>2. /\ pc'[t] \in {"parse", Leave(t, AfterParse(t, seen))}
        /\ \A u \in Threads : u # t => pc'[u] = pc[u]
    BY <2>1, GotoEffect
  <2>3. QED
    BY <1>4, <2>2, LeaveEffect, InLoop DEF Parse, fdVars
<1>5. CASE ParseFails(t)
  BY <1>5, GotoEffect, LeaveEffect, InLoop DEF ParseFails, fdVars
<1>6. QED
  BY <1>1, <1>2, <1>3, <1>4, <1>5 DEF Parser

\* accept() gives main a free number, which becomes the connection of a thread
\* that had none.
LEMMA AcceptDescriptors ==
  ASSUME Inv, NEW c \in Clients, Accept(c)
  PROVE  Remembered' /\ Descriptors'
<1>1. Client(c) \in Threads /\ Server(c) \in Threads /\ Client(c) # Server(c)
  BY ThreadNames
<1>2. DescriptorsOf(c) /\ pc[Client(c)] = "unborn"
  BY DEF Inv, Descriptors, Accept
<1>3. ~Own(Client(c)) /\ ~Own(Server(c))
  BY <1>2, ConnectionsAssumption DEF DescriptorsOf, Own, Fds
<1>4. Remembered' /\ Own(Client(c))' /\ KeptBut(Client(c)) /\ fd'[Client(c)] \in Fds
  BY <1>1, <1>3, OpenEffect DEF Accept, Inv
<1>5. pc'[Client(c)] = "init" /\ \A u \in Threads : u # Client(c) => pc'[u] = pc[u]
  BY <1>1, GotoEffect DEF Accept, Inv
<1>6. fd'[Server(c)] = fd[Server(c)] /\ (Own(Server(c))' <=> Own(Server(c))) /\ dead' = dead
  BY <1>1, <1>4 DEF KeptBut, Accept
<1>7. DescriptorsOf(c)'
  BY <1>1, <1>2, <1>3, <1>4, <1>5, <1>6 DEF DescriptorsOf, Looking
<1>8. QED
  BY <1>4, <1>5, <1>6, <1>7, OneConnection DEF Inv

\* A read() that fails leads out of the loop, into the parser, or to a crash.
LEMMA ReadFailsDescriptors ==
  ASSUME Inv, NEW c \in Clients, ReadFails(c)
  PROVE  Remembered' /\ Descriptors'
<1> DEFINE t == Client(c)
<1>1. t \in Threads /\ Types
  BY ThreadNames DEF Inv
<1>2. pc[t] = "read"
  BY DEF ReadFails
<1>3. UNCHANGED <<fd, user, dead>>
  BY DEF ReadFails, Stop, fdVars
<1>4. Goto(t, Leave(t, "reject")) \/ Goto(t, "parse") \/ UNCHANGED pc
  BY DEF ReadFails, Stop
<1> HIDE DEF t
<1>5. CASE UNCHANGED pc
  BY <1>3, <1>5, Still
<1>6. CASE Goto(t, Leave(t, "reject")) \/ Goto(t, "parse")
  <2>1. pc'[t] \in {"parse", Leave(t, "reject")} /\ \A u \in Threads : u # t => pc'[u] = pc[u]
    BY <1>1, <1>6, GotoEffect
  <2>2. Leave(t, "reject") \in AfterLoop(t)
    BY <1>1, LeaveEffect
  <2>3. QED
    BY <1>1, <1>2, <1>3, <2>1, <2>2, InLoop
<1>7. QED
  BY <1>4, <1>5, <1>6

\* close(server_fd) by the server_handler, whose connection it is.
LEMMA ResponseEndsDescriptors ==
  ASSUME Inv, NEW c \in Clients, ResponseEnds(c)
  PROVE  Remembered' /\ Descriptors'
<1>1. Client(c) \in Threads /\ Server(c) \in Threads /\ Client(c) # Server(c)
  BY ThreadNames
<1>2. DescriptorsOf(c) /\ pc[Server(c)] = "read"
  BY DEF Inv, Descriptors, ResponseEnds
<1>3. Own(Server(c))
  BY <1>2 DEF DescriptorsOf
<1>4. Remembered' /\ ~Own(Server(c))' /\ KeptBut(Server(c))
  BY <1>1, <1>3, CloseEffect DEF ResponseEnds, Inv
<1>5. pc'[Server(c)] = "done" /\ \A u \in Threads : u # Server(c) => pc'[u] = pc[u]
  BY <1>1, GotoEffect DEF ResponseEnds, Inv
<1>6. fd'[Client(c)] = fd[Client(c)] /\ (Own(Client(c))' <=> Own(Client(c))) /\ dead' = dead
  BY <1>1, <1>4 DEF KeptBut, ResponseEnds
<1>7. DescriptorsOf(c)'
  BY <1>1, <1>2, <1>4, <1>5, <1>6 DEF DescriptorsOf, Looking
<1>8. QED
  BY <1>4, <1>5, <1>6, <1>7, OneConnection DEF Inv

\* The look-up of the host opens nothing.
LEMMA LookupDescriptors ==
  ASSUME Inv, NEW c \in Clients, Lookup(c)
  PROVE  Remembered' /\ Descriptors'
<1>1. Client(c) \in Threads /\ Server(c) \in Threads /\ Client(c) # Server(c)
  BY ThreadNames
<1>2. DescriptorsOf(c) /\ pc[Client(c)] = "lookup" /\ UNCHANGED <<fd, user, dead>>
  BY DEF Inv, Descriptors, Lookup
<1>3. /\ Own(Client(c))' <=> Own(Client(c))
      /\ Own(Server(c))' <=> Own(Server(c))
      /\ UNCHANGED <<fd, dead>>
  BY <1>2, NoEffect DEF Inv
<1>4. ~Own(Server(c))
  BY <1>2, ConnectionsAssumption DEF DescriptorsOf, Own, Fds
<1>5. Goto(Client(c), "close") \/ Goto(Client(c), "socket")
  BY DEF Lookup
<1>6. pc'[Client(c)] \in {"close", "socket"} /\ \A u \in Threads : u # Client(c) => pc'[u] = pc[u]
  BY <1>1, <1>5, GotoEffect DEF Inv
<1>7. DescriptorsOf(c)'
  BY <1>1, <1>2, <1>3, <1>4, <1>6 DEF DescriptorsOf, Looking
<1>8. QED
  BY <1>2, <1>6, <1>7, Standing

\* close(client_fd) at the end of client_handler.
LEMMA CloseDescriptors ==
  ASSUME Inv, NEW c \in Clients, Close(c)
  PROVE  Remembered' /\ Descriptors'
<1>1. Client(c) \in Threads /\ Server(c) \in Threads /\ Client(c) # Server(c)
  BY ThreadNames
<1>2. DescriptorsOf(c) /\ pc[Client(c)] = "close" /\ dead' = dead
  BY DEF Inv, Descriptors, Close
<1>3. Own(Client(c))
  BY <1>2 DEF DescriptorsOf
<1>4. Remembered' /\ ~Own(Client(c))' /\ KeptBut(Client(c))
  BY <1>1, <1>3, CloseEffect DEF Close, Inv
<1>5. fd'[Client(c)] = -1
  BY <1>1 DEF Close, Inv, Types, TypeOK
<1>6. pc'[Client(c)] = "done" /\ \A u \in Threads : u # Client(c) => pc'[u] = pc[u]
  BY <1>1, GotoEffect DEF Close, Inv
<1>7. fd'[Server(c)] = fd[Server(c)] /\ (Own(Server(c))' <=> Own(Server(c)))
  BY <1>1, <1>4 DEF KeptBut
<1>8. DescriptorsOf(c)'
  BY <1>1, <1>2, <1>4, <1>5, <1>6, <1>7 DEF DescriptorsOf, Looking
<1>9. QED
  BY <1>2, <1>4, <1>6, <1>8, OneConnection DEF Inv

\* Where connect_via_host_name goes from one address.
LEMMA NextAddressEffect ==
  ASSUME Types, NEW c \in Clients, NextAddress(c)
  PROVE  /\ \A u \in Threads : u # Client(c) => pc'[u] = pc[u]
         /\ \/ pc'[Client(c)] = "socket" /\ iter[c] > 1
            \/ pc'[Client(c)] = "close" /\ fd'[Server(c)] = -1
            \/ pc'[Client(c)] = "write" /\ fd'[Server(c)] # -1 /\ ~(iter[c] > 1)
<1>1. Client(c) \in Threads
  BY ThreadNames
<1>2. PICK label : /\ label = IF iter[c] > 1 THEN "socket"
                              ELSE IF fd'[Server(c)] = -1 THEN "close" ELSE "write"
                   /\ Goto(Client(c), label)
  BY DEF NextAddress
<1>3. pc'[Client(c)] = label /\ \A u \in Threads : u # Client(c) => pc'[u] = pc[u]
  BY <1>1, <1>2, GotoEffect
<1>4. QED
  BY <1>2, <1>3

\* socket() gives connect_via_host_name a free number, or none.
LEMMA SocketDescriptors ==
  ASSUME Inv, NEW c \in Clients, Socket(c)
  PROVE  Remembered' /\ Descriptors'
<1>1. Client(c) \in Threads /\ Server(c) \in Threads /\ Client(c) # Server(c)
  BY ThreadNames
<1>2. DescriptorsOf(c) /\ pc[Client(c)] = "socket" /\ dead' = dead
  BY DEF Inv, Descriptors, Socket
<1>3. ~Own(Server(c)) /\ Own(Client(c)) /\ ~dead[c] /\ pc[Server(c)] = "unborn"
  BY <1>2 DEF DescriptorsOf, Looking
<1>4. CASE Free = {}
  <2>1. fd' = [fd EXCEPT ![Server(c)] = -1] /\ user' = user /\ NextAddress(c)
    BY <1>4 DEF Socket, NewFd
  <2>2. Remembered' /\ ~Own(Server(c))' /\ KeptBut(Server(c)) /\ fd'[Server(c)] = -1
    BY <1>1, <1>3, <2>1, ForgetEffect DEF Inv
  <2>3. /\ \A u \in Threads : u # Client(c) => pc'[u] = pc[u]
        /\ pc'[Client(c)] \in {"socket", "close"}
    BY <2>1, <2>2, NextAddressEffect DEF Inv
  <2>4. Own(Client(c))' <=> Own(Client(c))
    BY <1>1, <2>2 DEF KeptBut
  <2>5. DescriptorsOf(c)'
    BY <1>1, <1>2, <1>3, <2>2, <2>3, <2>4 DEF DescriptorsOf, Looking
  <2>6. QED
    BY <1>2, <2>2, <2>3, <2>5, OneConnection DEF Inv
<1>5. CASE Free # {}
  <2>1. /\ fd' = [fd EXCEPT ![Server(c)] = NewFd]
        /\ user' = [user EXCEPT ![NewFd] = Server(c)]
        /\ Goto(Client(c), "connect")
    BY <1>5 DEF Socket
  <2>2. Remembered' /\ Own(Server(c))' /\ KeptBut(Server(c))
    BY <1>1, <1>3, <1>5, <2>1, OpenEffect DEF Inv
  <2>3. pc'[Client(c)] = "connect" /\ \A u \in Threads : u # Client(c) => pc'[u] = pc[u]
    BY <1>1, <2>1, GotoEffect DEF Inv
  <2>4. Own(Client(c))' <=> Own(Client(c))
    BY <1>1, <2>2 DEF KeptBut
  <2>5. DescriptorsOf(c)'
    BY <1>1, <1>2, <1>3, <2>2, <2>3, <2>4 DEF DescriptorsOf, Looking
  <2>6. QED
    BY <1>2, <2>2, <2>3, <2>5, OneConnection DEF Inv
<1>6. QED
  BY <1>4, <1>5

\* connect() keeps the connection to the host; if it fails the descriptor is closed,
\* and after the last address host_fd is still its number.
LEMMA ConnectDescriptors ==
  ASSUME Inv, NEW c \in Clients, Connect(c)
  PROVE  Remembered' /\ Descriptors'
<1>1. Client(c) \in Threads /\ Server(c) \in Threads /\ Client(c) # Server(c)
  BY ThreadNames
<1>2. DescriptorsOf(c) /\ pc[Client(c)] = "connect" /\ fd' = fd
  BY DEF Inv, Descriptors, Connect
<1>3. Own(Server(c)) /\ Own(Client(c)) /\ ~dead[c] /\ pc[Server(c)] = "unborn"
  BY <1>2 DEF DescriptorsOf, Looking
<1>4. CASE Goto(Client(c), "write") /\ UNCHANGED <<fd, user, dead>>
  <2>1. pc'[Client(c)] = "write" /\ \A u \in Threads : u # Client(c) => pc'[u] = pc[u]
    BY <1>1, <1>4, GotoEffect DEF Inv
  <2>2. (Own(Client(c))' <=> Own(Client(c))) /\ (Own(Server(c))' <=> Own(Server(c))) /\ dead' = dead
    BY <1>4, NoEffect DEF Inv
  <2>3. DescriptorsOf(c)'
    BY <1>1, <1>2, <1>3, <2>1, <2>2 DEF DescriptorsOf, Looking
  <2>4. QED
    BY <1>4, <2>1, <2>3, Standing
<1>5. CASE /\ user' = CloseFd(user, Server(c)) /\ UNCHANGED fd /\ NextAddress(c)
           /\ dead' = [dead EXCEPT ![c] = iter[c] = 1]
  <2>1. Remembered' /\ ~Own(Server(c))' /\ KeptBut(Server(c))
    BY <1>1, <1>3, <1>5, CloseEffect DEF Inv
  <2>2. fd'[Server(c)] # -1
    BY <1>3, <1>5, ConnectionsAssumption DEF Own, Fds
  <2>3. /\ \A u \in Threads : u # Client(c) => pc'[u] = pc[u]
        /\ \/ pc'[Client(c)] = "socket" /\ iter[c] > 1
           \/ pc'[Client(c)] = "write" /\ ~(iter[c] > 1)
    BY <1>5, <2>2, NextAddressEffect DEF Inv
  <2>4. iter[c] \in Nat /\ iter[c] > 0
    BY <1>2, ConnectionsAssumption DEF Inv, Types, TypeOK
  <2>5. /\ iter[c] = 1 <=> dead'[c]
        /\ \A d \in Clients : d # c => dead'[d] = dead[d]
    BY <1>5 DEF Inv, Types, TypeOK
  <2>6. (pc'[Client(c)] = "socket" /\ ~dead'[c]) \/ (pc'[Client(c)] = "write" /\ dead'[c])
    <3>1. iter[c] > 1 <=> iter[c] # 1
      BY <2>4
    <3>2. QED
      BY <2>3, <2>5, <3>1
  <2>7. Own(Client(c))' <=> Own(Client(c))
    BY <1>1, <2>1 DEF KeptBut
  <2>8. pc'[Server(c)] = "unborn"
    BY <1>1, <1>3, <2>3
  <2>9. DescriptorsOf(c)'
    BY <1>1, <1>2, <1>3, <2>1, <2>6, <2>7, <2>8 DEF DescriptorsOf, Looking
  <2>10. QED
    BY <2>1, <2>3, <2>5, <2>9, OneConnection DEF Inv
<1>6. QED
  BY <1>4, <1>5 DEF Connect

\* The request is written, and the server_handler gets the connection to the host.
LEMMA WriteDescriptors ==
  ASSUME Inv, NEW c \in Clients, Write(c)
  PROVE  Remembered' /\ Descriptors'
<1>1. Client(c) \in Threads /\ Server(c) \in Threads /\ Client(c) # Server(c)
  BY ThreadNames
<1>2. DescriptorsOf(c) /\ pc[Client(c)] = "write" /\ Own(Server(c))
      /\ UNCHANGED <<fd, user, dead>>
  BY DEF Inv, Descriptors, Write, fdVars
<1>3. Own(Client(c)) /\ ~dead[c]
  BY <1>2 DEF DescriptorsOf, Looking
<1>4. /\ pc'[Client(c)] = "close" /\ pc'[Server(c)] = "init"
      /\ \A u \in Threads : u \notin {Client(c), Server(c)} => pc'[u] = pc[u]
  BY <1>1 DEF Write, Inv, Types, TypeOK
<1>5. /\ Remembered' /\ KeptBut(Client(c)) /\ dead' = dead
      /\ Own(Client(c))' <=> Own(Client(c))
      /\ Own(Server(c))' <=> Own(Server(c))
  BY <1>2, NoEffect DEF Inv
<1>6. DescriptorsOf(c)'
  BY <1>1, <1>2, <1>3, <1>4, <1>5 DEF DescriptorsOf, Looking
<1>7. QED
  BY <1>4, <1>5, <1>6, OneConnection DEF Inv

\* The request is not written, and client_fd is closed.
LEMMA WriteFailsDescriptors ==
  ASSUME Inv, NEW c \in Clients, WriteFails(c)
  PROVE  Remembered' /\ Descriptors'
<1>1. Client(c) \in Threads /\ Server(c) \in Threads /\ Client(c) # Server(c)
  BY ThreadNames
<1>2. DescriptorsOf(c) /\ pc[Client(c)] = "write" /\ dead' = dead
  BY DEF Inv, Descriptors, WriteFails
<1>3. Own(Client(c)) /\ pc[Server(c)] = "unborn"
  BY <1>2 DEF DescriptorsOf, Looking
<1>4. Remembered' /\ ~Own(Client(c))' /\ KeptBut(Client(c))
  BY <1>1, <1>3, CloseEffect DEF WriteFails, Inv
<1>5. fd'[Client(c)] = -1
  BY <1>1 DEF WriteFails, Inv, Types, TypeOK
<1>6. pc'[Client(c)] = "abandon" /\ \A u \in Threads : u # Client(c) => pc'[u] = pc[u]
  BY <1>1, GotoEffect DEF WriteFails, Inv
<1>7. Own(Server(c))' <=> Own(Server(c))
  BY <1>1, <1>4 DEF KeptBut
<1>8. DescriptorsOf(c)'
  BY <1>1, <1>2, <1>3, <1>4, <1>5, <1>6, <1>7 DEF DescriptorsOf, Looking
<1>9. QED
  BY <1>2, <1>4, <1>6, <1>8, OneConnection DEF Inv

\* Then server_fd is closed, if it is not closed already, and client_handler returns.
LEMMA AbandonDescriptors ==
  ASSUME Inv, NEW c \in Clients, Abandon(c)
  PROVE  Remembered' /\ Descriptors'
<1>1. Client(c) \in Threads /\ Server(c) \in Threads /\ Client(c) # Server(c)
  BY ThreadNames
<1>2. DescriptorsOf(c) /\ pc[Client(c)] = "abandon"
  BY DEF Inv, Descriptors, Abandon
<1>3. fd[Client(c)] = -1 /\ pc[Server(c)] = "unborn"
  BY <1>2 DEF DescriptorsOf, Looking
<1>4. Remembered' /\ ~Own(Server(c))' /\ KeptBut(Server(c))
  BY <1>1, CloseEffect DEF Abandon, Inv
<1>5. /\ ~dead'[c] /\ \A d \in Clients : d # c => dead'[d] = dead[d]
  BY DEF Abandon, Inv, Types, TypeOK
<1>6. pc'[Client(c)] = "done" /\ \A u \in Threads : u # Client(c) => pc'[u] = pc[u]
  BY <1>1, GotoEffect DEF Abandon, Inv
<1>7. fd'[Client(c)] = -1
  BY <1>1, <1>3, <1>4 DEF KeptBut
<1>8. DescriptorsOf(c)'
  BY <1>1, <1>3, <1>4, <1>5, <1>6, <1>7 DEF DescriptorsOf, Looking
<1>9. QED
  BY <1>4, <1>5, <1>6, <1>8, OneConnection DEF Inv

\* Every step keeps what is known of the descriptors.
LEMMA DescriptorsStep == Inv /\ [Next]_vars => Remembered' /\ Descriptors'
<1> SUFFICES ASSUME Inv, [Next]_vars PROVE Remembered' /\ Descriptors'
  OBVIOUS
<1>1. CASE UNCHANGED vars
  BY <1>1, Still DEF vars, fdVars
<1>2. ASSUME NEW t \in Threads, Parser(t) PROVE Remembered' /\ Descriptors'
  BY <1>2, ParserDescriptors
<1>3. ASSUME NEW c \in Clients,
             Accept(c) \/ ReadFails(c) \/ ResponseEnds(c) \/ Lookup(c) \/ Close(c)
      PROVE  Remembered' /\ Descriptors'
  BY <1>3, AcceptDescriptors, ReadFailsDescriptors, ResponseEndsDescriptors,
     LookupDescriptors, CloseDescriptors
<1>4. ASSUME NEW c \in Clients, Connecting(c) PROVE Remembered' /\ Descriptors'
  <2>1. CASE WriteForeign(c)
    BY <2>1, Still DEF WriteForeign, Trespass, Stop, fdVars
  <2>2. QED
    BY <1>4, <2>1, SocketDescriptors, ConnectDescriptors, WriteDescriptors,
       WriteFailsDescriptors, AbandonDescriptors DEF Connecting
<1>5. QED
  BY <1>1, <1>2, <1>3, <1>4 DEF Next

-----------------------------------------------------------------------------
(* The parsing, action by action *)

\* A thread whose state is what it was keeps what is known of it, while callbacks
\* are only added to the settings.
LEMMA Unparsing ==
  ASSUME NEW t \in Threads, ParsedBy(t),
         pc'[t] = pc[t], stores'[t] = stores[t], disturbed'[t] = disturbed[t],
         at'[t] = at[t], chunk'[t] = chunk[t], got'[t] = got[t],
         settings \subseteq settings',
         t[2] = "client" => request'[t[1]] = request[t[1]]
  PROVE  ParsedBy(t)'
<1>1. Refused(t, got[t])' <=> Refused(t, got[t])
  BY DEF Refused, GoodVersion, GoodMethod, Called
<1>2. \A e : Called(t, got[t], e)' <=> Called(t, got[t], e)
  BY DEF Called
<1>3. QED
  BY <1>1, <1>2 DEF ParsedBy

\* A thread outside the parser.
LEMMA Outside ==
  ASSUME NEW t \in Threads, pc'[t] \notin {"unborn", "init", "read", "parse", "lookup"}
  PROVE  ParsedBy(t)'
  BY DEF ParsedBy

\* Actions of one thread that are not the parser's.
LEMMA OneThread ==
  ASSUME Inv, NEW t \in Threads, ParsedBy(t)', UNCHANGED parserVars,
         \A u \in Threads : u # t => pc'[u] = pc[u],
         \A c \in Clients : Client(c) # t => request'[c] = request[c]
  PROVE  Parsing'
<1> SUFFICES ASSUME NEW u \in Threads, u # t PROVE ParsedBy(u)'
  BY DEF Parsing
<1>1. ParsedBy(u)
  BY DEF Inv, Parsing
<1>2. u[2] = "client" => request'[u[1]] = request[u[1]]
  BY ThreadNames
<1>3. QED
  BY <1>1, <1>2, Unparsing DEF parserVars

\* The actions that end with Forget.
LEMMA ForgetParsing ==
  ASSUME Inv, NEW t \in Threads, Forget(t), UNCHANGED <<settings, stores>>,
         pc'[t] \notin {"unborn", "init", "read", "parse", "lookup"},
         \A u \in Threads : u # t => pc'[u] = pc[u]
  PROVE  Parsing'
<1> SUFFICES ASSUME NEW u \in Threads, u # t PROVE ParsedBy(u)'
  BY Outside DEF Parsing
<1>1. ParsedBy(u)
  BY DEF Inv, Parsing
<1>2. u[2] = "client" => request'[u[1]] = request[u[1]]
  <2>1. CASE t[2] = "client" /\ u[2] = "client"
    <3>1. t[1] \in Clients /\ u[1] \in Clients /\ t[1] # u[1]
      BY <2>1, ThreadNames
    <3>2. request' = [request EXCEPT ![t[1]] = "good"]
      BY <2>1 DEF Forget
    <3>3. QED
      BY <3>1, <3>2 DEF Inv, Types
  <2>2. QED
    BY <2>1 DEF Forget
<1>3. /\ at'[u] = at[u] /\ chunk'[u] = chunk[u] /\ got'[u] = got[u]
      /\ disturbed'[u] = disturbed[u]
  BY DEF Forget, Inv, Types, TypeOK
<1>4. QED
  BY <1>1, <1>2, <1>3, Unparsing

\* What a thread has stored before it was disturbed is forgotten; the thread that
\* clears begins anew.
LEMMA ClearParsing ==
  ASSUME Inv, NEW t \in Threads, Clear(t)
  PROVE  Parsing'
<1> SUFFICES ASSUME NEW u \in Threads PROVE ParsedBy(u)'
  BY DEF Parsing
<1>1. /\ pc' = pc /\ at' = at /\ got' = got /\ chunk' = chunk /\ request' = request
      /\ pc[t] = "init" /\ stores[t] = 0
  BY DEF Clear
<1>2. /\ stores' = [stores EXCEPT ![t] = 1]
      /\ disturbed'[u] = IF u = t THEN FALSE
                         ELSE disturbed[u] \/ (stores[u] > 0 /\ pc[u] \in {"init", "read", "parse"})
  BY DEF Clear
<1>3. ParsedBy(u)
  BY DEF Inv, Parsing
<1>4. Refused(u, got[u])' <=> Refused(u, got[u])
  BY <1>1 DEF Refused, GoodVersion, GoodMethod, Called
<1>5. \A e : Called(u, got[u], e)' <=> Called(u, got[u], e)
  BY <1>1 DEF Called
<1>6. CASE u = t
  <2>1. stores'[u] = 1
    BY <1>2, <1>6 DEF Inv, Types, TypeOK
  <2>2. 1 \in 0..4 /\ 1..0 = {} /\ \A i \in 1..4 : ~(i < 1)
    OBVIOUS
  <2>3. at'[u] = 0 /\ got'[u] = {} /\ pc'[u] = "init"
    BY <1>1, <1>3, <1>6 DEF ParsedBy
  <2>4. QED
    BY <2>1, <2>2, <2>3 DEF ParsedBy
<1>7. CASE u # t
  <2>1. stores'[u] = stores[u]
    BY <1>2, <1>7
  <2>2. ~disturbed'[u] => ~disturbed[u] /\ ~(stores[u] > 0 /\ pc[u] \in {"init", "read", "parse"})
    BY <1>2, <1>7
  <2>3. ~disturbed'[u] /\ pc[u] \in {"init", "read", "parse"} => stores[u] = 0
    BY <2>2, <1>3 DEF ParsedBy
  <2>4. \A i \in 1..4 : ~(i < 0)
    OBVIOUS
  <2>5. QED
    BY <1>1, <1>3, <1>4, <1>5, <2>1, <2>2, <2>3, <2>4 DEF ParsedBy
<1>8. QED
  BY <1>6, <1>7

\* A store adds one callback, and the settings keep the others.
LEMMA StoreParsing ==
  ASSUME Inv, NEW t \in Threads, Store(t)
  PROVE  Parsing'
<1> SUFFICES ASSUME NEW u \in Threads PROVE ParsedBy(u)'
  BY DEF Parsing
<1>1. /\ at' = at /\ got' = got /\ chunk' = chunk /\ request' = request /\ disturbed' = disturbed
      /\ pc[t] = "init" /\ stores[t] > 0
      /\ settings' = settings \cup {Callbacks[stores[t]]}
      /\ stores' = [stores EXCEPT ![t] = @ + 1]
  BY DEF Store
<1>2. ParsedBy(u) /\ ParsedBy(t)
  BY DEF Inv, Parsing
<1>3. /\ stores'[t] = stores[t] + 1
      /\ u # t => stores'[u] = stores[u]
  BY <1>1 DEF Inv, Types, TypeOK
<1>4. pc'[t] = (IF stores[t] = 4 THEN "read" ELSE "init") /\ (u # t => pc'[u] = pc[u])
  <2>1. CASE stores[t] = 4
    BY <2>1, EventNames, GotoEffect DEF Store, Inv
  <2>2. CASE stores[t] # 4
    BY <1>1, <2>2, EventNames DEF Store
  <2>3. QED
    BY <2>1, <2>2
<1>5. CASE u # t
  BY <1>1, <1>2, <1>3, <1>4, <1>5, Unparsing
<1>6. CASE u = t
  <2>1. stores[t] \in 1..4
    BY <1>1, <1>2 DEF ParsedBy
  <2>2. \A i \in 1..4 : i < stores[t] + 1 => i < stores[t] \/ i = stores[t]
    BY <2>1
  <2>3. ~disturbed[t] => \A i \in 1..4 : i < stores'[t] => Callbacks[i] \in settings'
    BY <1>1, <1>2, <1>3, <2>2 DEF ParsedBy
  <2>4. at'[t] = 0 /\ got'[t] = {} /\ 1..0 = {}
    BY <1>1, <1>2 DEF ParsedBy
  <2>5. CASE stores[t] = 4
    BY <1>1, <1>3, <1>4, <1>6, <2>3, <2>4, <2>5 DEF ParsedBy
  <2>6. CASE stores[t] # 4
    <3>1. stores'[t] \in 0..4 /\ pc'[t] = "init"
      BY <1>3, <1>4, <2>1, <2>6
    <3>2. QED
      BY <1>1, <1>6, <2>3, <2>4, <3>1 DEF ParsedBy
  <2>7. QED
    BY <2>5, <2>6
<1>7. QED
  BY <1>5, <1>6

\* read() puts at least one callback into the buffer.
LEMMA ReadParsing ==
  ASSUME Inv, NEW t \in Threads, NEW k \in Nat, k >= 1,
         pc[t] = "read", chunk' = [chunk EXCEPT ![t] = k], Goto(t, "parse"),
         UNCHANGED <<settings, stores, disturbed, at, got, request>>
  PROVE  Parsing'
<1> SUFFICES ASSUME NEW u \in Threads PROVE ParsedBy(u)'
  BY DEF Parsing
<1>1. ParsedBy(u) /\ ParsedBy(t)
  BY DEF Inv, Parsing
<1>2. pc'[t] = "parse" /\ (u # t => pc'[u] = pc[u])
  BY GotoEffect DEF Inv
<1>3. chunk'[t] = k /\ (u # t => chunk'[u] = chunk[u])
  BY DEF Inv, Types
<1>4. CASE u # t
  BY <1>1, <1>2, <1>3, <1>4, Unparsing
<1>5. CASE u = t
  BY <1>1, <1>2, <1>3, <1>5 DEF ParsedBy
<1>6. QED
  BY <1>4, <1>5

\* The next callback of the message, if llhttp still has a byte to parse.
LEMMA NextEvent ==
  ASSUME Inv, NEW t \in Threads, pc[t] = "parse"
  PROVE  /\ at[t] \in Nat /\ chunk[t] \in Nat /\ chunk[t] >= 1 /\ stores[t] = 5
         /\ at[t] + chunk[t] <= Len(Events(t)) /\ Len(Events(t)) \in Nat
         /\ ~disturbed[t] => Events(t)[at[t] + 1] \in settings /\ got[t] = 1..at[t]
<1>1. ParsedBy(t) /\ at[t] \in Nat /\ chunk[t] \in Nat
  BY DEF Inv, Parsing, Types
<1>2. chunk[t] >= 1 /\ stores[t] = 5
  BY <1>1 DEF ParsedBy
<1>3. Len(Events(t)) \in Nat
  BY ThreadNames, EventNames
<1>4. at[t] + chunk[t] <= Len(Events(t))
  BY <1>1, <1>3 DEF Inv, Types, TypeOK
<1>5. at[t] + 1 \in Nat /\ at[t] + 1 \in 1..Len(Events(t))
  BY <1>1, <1>2, <1>3, <1>4
<1>6. PICK j \in 1..4 : Events(t)[at[t] + 1] = Callbacks[j]
  BY <1>5, EventNames
<1>7. ASSUME ~disturbed[t] PROVE Events(t)[at[t] + 1] \in settings /\ got[t] = 1..at[t]
  BY <1>1, <1>2, <1>6, <1>7 DEF ParsedBy
<1>8. QED
  BY <1>1, <1>2, <1>3, <1>4, <1>7

\* A callback that llhttp comes to is called, unless the settings were cleared.
LEMMA ParseParsing ==
  ASSUME Inv, NEW t \in Threads, Parse(t)
  PROVE  Parsing'
<1> SUFFICES ASSUME NEW u \in Threads PROVE ParsedBy(u)'
  BY DEF Parsing
<1> DEFINE event == Events(t)[at[t] + 1]
           seen == got[t] \cup {i \in {at[t] + 1} : event \in settings}
           place == IF chunk[t] > 1 THEN "parse" ELSE Leave(t, AfterParse(t, seen))
<1>1. /\ UNCHANGED <<settings, stores, disturbed, request>>
      /\ pc[t] = "parse"
      /\ at' = [at EXCEPT ![t] = @ + 1] /\ chunk' = [chunk EXCEPT ![t] = @ - 1]
      /\ got' = [got EXCEPT ![t] = seen] /\ Goto(t, place)
  BY DEF Parse
<1>2. /\ at'[t] = at[t] + 1 /\ chunk'[t] = chunk[t] - 1 /\ got'[t] = seen
      /\ u # t => at'[u] = at[u] /\ chunk'[u] = chunk[u] /\ got'[u] = got[u]
  BY <1>1 DEF Inv, Types
<1>3. pc'[t] = place /\ (u # t => pc'[u] = pc[u])
  BY <1>1, GotoEffect DEF Inv
<1>4. ParsedBy(u) /\ ParsedBy(t)
  BY DEF Inv, Parsing
<1>5. CASE u # t
  BY <1>1, <1>2, <1>3, <1>4, <1>5, Unparsing
<1>6. CASE u = t
  <2>1. /\ at[t] \in Nat /\ chunk[t] \in Nat /\ chunk[t] >= 1 /\ stores[t] = 5
        /\ ~disturbed[t] => event \in settings /\ got[t] = 1..at[t]
    BY <1>1, NextEvent
  <2>2. ~disturbed[t] => seen = 1..at'[t]
    <3>1. ~disturbed[t] => seen = (1..at[t]) \cup {at[t] + 1}
      BY <2>1
    <3>2. \A n \in Nat : (1..n) \cup {n + 1} = 1..(n + 1)
      OBVIOUS
    <3>3. QED
      BY <1>2, <2>1, <3>1, <3>2
  <2>3. /\ place \in {"parse", "read"} \cup AfterLoop(t)
        /\ place = "lookup" => Called(t, seen, "on_message_complete") /\ ~Refused(t, seen)
        /\ place = "parse" => chunk[t] > 1
    <3>1. Leave(t, AfterParse(t, seen)) # "parse"
      BY LeaveEffect DEF AfterLoop
    <3>2. QED
      BY <3>1, LeaveEffect
  <2> HIDE DEF seen, place, event
  <2>4. /\ got'[t] = seen /\ stores'[t] = 5 /\ disturbed'[t] = disturbed[t]
        /\ pc'[t] \in {"parse", "read", "lookup", "close", "done"}
        /\ pc'[t] = "parse" => chunk'[t] >= 1
    <3>1. chunk[t] > 1 => chunk[t] - 1 >= 1
      BY <2>1
    <3>2. QED
      BY <1>1, <1>2, <1>3, <2>1, <2>3, <3>1 DEF AfterLoop
  <2>5. pc'[t] = "lookup" =>
          Called(t, got'[t], "on_message_complete") /\ ~Refused(t, got[t])'
    <3>1. Refused(t, got[t])' <=> Refused(t, seen)
      BY <1>1, <1>2 DEF Refused, GoodVersion, GoodMethod, Called
    <3>2. QED
      BY <1>2, <1>3, <2>3, <3>1
  <2>6. ~disturbed'[t] /\ pc'[t] \in {"init", "read", "parse"} =>
          \A i \in 1..4 : i < stores'[t] => Callbacks[i] \in settings'
    BY <1>1, <1>4, <2>1, <2>4 DEF ParsedBy
  <2>7. ParsedBy(t)'
    BY <2>2, <2>4, <2>5, <2>6 DEF ParsedBy, Called
  <2>8. QED
    BY <1>6, <2>7
<1>7. QED
  BY <1>5, <1>6

\* The other ways out of the receive loop.
LEMMA RejectParsing ==
  ASSUME Inv, NEW t \in Threads, Goto(t, Leave(t, "reject")), UNCHANGED <<parserVars, request>>
  PROVE  Parsing'
<1>1. pc'[t] = Leave(t, "reject") /\ \A u \in Threads : u # t => pc'[u] = pc[u]
  BY GotoEffect DEF Inv
<1>2. pc'[t] \in {"close", "done"}
  BY <1>1, LeaveEffect DEF AfterLoop
<1>3. ParsedBy(t)'
  BY <1>2, Outside
<1>4. QED
  BY <1>1, <1>3, OneThread

LEMMA ReadFailsParsing ==
  ASSUME Inv, NEW c \in Clients, ReadFails(c)
  PROVE  Parsing'
<1> DEFINE t == Client(c)
<1>1. t \in Threads
  BY ThreadNames
<1>2. pc[t] = "read"
  BY DEF ReadFails
<1>3. \/ Goto(t, Leave(t, "reject")) /\ UNCHANGED <<parserVars, request>>
      \/ /\ \E k \in 1..Unparsed(t) : chunk' = [chunk EXCEPT ![t] = k]
         /\ Goto(t, "parse")
         /\ UNCHANGED <<settings, stores, disturbed, at, got, request>>
      \/ UNCHANGED <<parserVars, pc, request>>
  BY DEF ReadFails, Stop
<1> HIDE DEF t
<1>4. CASE Goto(t, Leave(t, "reject")) /\ UNCHANGED <<parserVars, request>>
  BY <1>1, <1>4, RejectParsing
<1>5. CASE /\ \E k \in 1..Unparsed(t) : chunk' = [chunk EXCEPT ![t] = k]
           /\ Goto(t, "parse")
           /\ UNCHANGED <<settings, stores, disturbed, at, got, request>>
  <2>1. PICK k \in 1..Unparsed(t) : chunk' = [chunk EXCEPT ![t] = k]
    BY <1>5
  <2>2. at[t] \in Nat /\ Len(Events(t)) \in Nat
    BY <1>1, EventNames DEF Inv, Types
  <2>3. k \in Nat /\ k >= 1
    BY <2>2 DEF Unparsed
  <2>4. QED
    BY <1>1, <1>2, <1>5, <2>1, <2>3, ReadParsing
<1>6. CASE UNCHANGED <<parserVars, pc, request>>
  <2> SUFFICES ASSUME NEW u \in Threads PROVE ParsedBy(u)'
    BY DEF Parsing
  <2>1. ParsedBy(u)
    BY DEF Inv, Parsing
  <2>2. QED
    BY <2>1, <1>6, Unparsing DEF parserVars
<1>7. QED
  BY <1>3, <1>4, <1>5, <1>6

\* A thread begins with nothing stored and nothing parsed.
LEMMA BirthParsing ==
  ASSUME Inv, NEW t \in Threads, pc[t] = "unborn", pc'[t] = "init", UNCHANGED parserVars
  PROVE  ParsedBy(t)'
<1>1. ParsedBy(t)
  BY DEF Inv, Parsing
<1>2. stores'[t] = 0 /\ at'[t] = 0 /\ got'[t] = {}
  BY <1>1 DEF ParsedBy, parserVars
<1>3. 0 \in 0..4 /\ 1..0 = {} /\ \A i \in 1..4 : ~(i < 0)
  OBVIOUS
<1>4. QED
  BY <1>2, <1>3 DEF ParsedBy

LEMMA AcceptParsing ==
  ASSUME Inv, NEW c \in Clients, Accept(c)
  PROVE  Parsing'
<1>1. Client(c) \in Threads
  BY ThreadNames
<1>2. /\ pc[Client(c)] = "unborn" /\ UNCHANGED parserVars
      /\ \A d \in Clients : d # c => request'[d] = request[d]
  BY DEF Accept, Inv, Types
<1>3. pc'[Client(c)] = "init" /\ \A u \in Threads : u # Client(c) => pc'[u] = pc[u]
  BY <1>1, GotoEffect DEF Accept, Inv
<1>4. ParsedBy(Client(c))'
  BY <1>1, <1>2, <1>3, BirthParsing
<1>5. \A d \in Clients : Client(d) # Client(c) => request'[d] = request[d]
  BY <1>2
<1>6. QED
  BY <1>1, <1>2, <1>3, <1>4, <1>5, OneThread

\* The steps of connect_via_host_name are outside the parser.
LEMMA ConnectingParsing ==
  ASSUME Inv, NEW c \in Clients, Socket(c) \/ Connect(c) \/ WriteFails(c) \/ Abandon(c)
  PROVE  Parsing'
<1>1. Client(c) \in Threads
  BY ThreadNames
<1>2. UNCHANGED <<parserVars, request>>
  BY DEF Socket, Connect, WriteFails, Abandon
<1>3. NextAddress(c) \/ \E label \in {"connect", "write", "abandon", "done"} : Goto(Client(c), label)
  BY DEF Socket, Connect, WriteFails, Abandon
<1>4. /\ pc'[Client(c)] \in {"socket", "close", "write", "connect", "abandon", "done"}
      /\ \A u \in Threads : u # Client(c) => pc'[u] = pc[u]
  BY <1>1, <1>3, GotoEffect, NextAddressEffect DEF Inv
<1>5. ParsedBy(Client(c))'
  BY <1>1, <1>4, Outside
<1>6. QED
  BY <1>1, <1>2, <1>4, <1>5, OneThread

LEMMA WriteParsing ==
  ASSUME Inv, NEW c \in Clients, Write(c)
  PROVE  Parsing'
<1>1. Client(c) \in Threads /\ Server(c) \in Threads /\ Client(c) # Server(c)
  BY ThreadNames
<1>2. /\ pc'[Client(c)] = "close" /\ pc'[Server(c)] = "init"
      /\ \A u \in Threads : u \notin {Client(c), Server(c)} => pc'[u] = pc[u]
  BY <1>1 DEF Write, Inv, Types, TypeOK
<1>3. pc[Server(c)] = "unborn" /\ UNCHANGED <<parserVars, request>>
  BY DEF Write, Inv, Descriptors, DescriptorsOf
<1>4. ParsedBy(Client(c))' /\ ParsedBy(Server(c))'
  BY <1>1, <1>2, <1>3, Outside, BirthParsing
<1> SUFFICES ASSUME NEW u \in Threads, u \notin {Client(c), Server(c)} PROVE ParsedBy(u)'
  BY <1>4 DEF Parsing
<1>5. ParsedBy(u)
  BY DEF Inv, Parsing
<1>6. QED
  BY <1>2, <1>3, <1>5, Unparsing DEF parserVars

\* Every step keeps what is known of the parsing.
LEMMA ParsingStep == Inv /\ [Next]_vars => Parsing'
<1> SUFFICES ASSUME Inv, [Next]_vars PROVE Parsing'
  OBVIOUS
<1>1. CASE UNCHANGED <<parserVars, pc, request>>
  <2> SUFFICES ASSUME NEW u \in Threads PROVE ParsedBy(u)'
    BY DEF Parsing
  <2>1. ParsedBy(u)
    BY DEF Inv, Parsing
  <2>2. QED
    BY <2>1, <1>1, Unparsing DEF parserVars
<1>2. CASE UNCHANGED vars
  BY <1>1, <1>2 DEF vars
<1>3. ASSUME NEW t \in Threads, Parser(t) PROVE Parsing'
  <2>1. CASE Read(t)
    <3>1. PICK k \in 1..Unparsed(t) : chunk' = [chunk EXCEPT ![t] = k]
      BY <2>1 DEF Read
    <3>2. Len(Events(t)) \in Nat /\ at[t] \in Nat
      BY ThreadNames, EventNames DEF Inv, Types
    <3>3. k \in Nat /\ k >= 1
      BY <3>2 DEF Unparsed
    <3>4. QED
      BY <2>1, <3>1, <3>3, ReadParsing DEF Read
  <2>2. CASE ParseFails(t)
    BY <2>2, RejectParsing DEF ParseFails
  <2>3. QED
    BY <1>3, <2>1, <2>2, ClearParsing, StoreParsing, ParseParsing DEF Parser
<1>4. ASSUME NEW c \in Clients, ResponseEnds(c) \/ Lookup(c) \/ Close(c) PROVE Parsing'
  <2>1. /\ Client(c) \in Threads /\ Server(c) \in Threads
    BY ThreadNames
  <2>2. PICK t \in {Client(c), Server(c)}, label \in {"done", "close", "socket"} :
          Forget(t) /\ Goto(t, label) /\ UNCHANGED <<settings, stores>>
    BY <1>4 DEF ResponseEnds, Lookup, Close
  <2>3. /\ pc'[t] \notin {"unborn", "init", "read", "parse", "lookup"}
        /\ \A u \in Threads : u # t => pc'[u] = pc[u]
    BY <2>1, <2>2, GotoEffect DEF Inv
  <2>4. QED
    BY <2>1, <2>2, <2>3, ForgetParsing
<1>5. ASSUME NEW c \in Clients, Accept(c) \/ ReadFails(c) \/ Connecting(c) PROVE Parsing'
  <2>1. CASE WriteForeign(c)
    BY <1>1, <2>1 DEF WriteForeign, Trespass, Stop
  <2>2. QED
    BY <1>5, <2>1, AcceptParsing, ReadFailsParsing, ConnectingParsing, WriteParsing DEF Connecting
<1>6. QED
  BY <1>2, <1>3, <1>4, <1>5 DEF Next

-----------------------------------------------------------------------------
(* The types, by groups of variables *)

ParserTypes ==
  /\ settings \subseteq {Callbacks[i] : i \in DOMAIN Callbacks}
  /\ stores \in [Threads -> 0..Len(Callbacks) + 1]
  /\ disturbed \in [Threads -> BOOLEAN]
  /\ at \in [Threads -> Nat] /\ chunk \in [Threads -> Nat]
  /\ DOMAIN got = Threads
  /\ \A t \in Threads : at[t] + chunk[t] \in 0..Len(Events(t))

TableTypes ==
  /\ fd \in [Threads -> Fds \cup {-1}]
  /\ user \in [Fds -> Threads \cup {Nobody}]
  /\ iter \in [Clients -> 0..MaxAddresses]
  /\ dead \in [Clients -> BOOLEAN]

PlaceTypes ==
  /\ pc \in [Threads -> Looking \cup {"unborn", "init", "read", "parse", "abandon", "close", "done"}]
  /\ \A c \in Clients : pc[Client(c)] \in {"socket", "connect"} => iter[c] > 0

MessageTypes ==
  /\ request \in [Clients -> Requests]
  /\ whole \in [Threads -> BOOLEAN]
  /\ fault \in {"none", "crash", "foreign"}

LEMMA TypesByGroup ==
  Types <=> ParserTypes /\ TableTypes /\ PlaceTypes /\ MessageTypes
  BY DEF Types, TypeOK, ParserTypes, TableTypes, PlaceTypes, MessageTypes

\* Forget leaves nothing in the buffer.
LEMMA ForgetTypes ==
  ASSUME Inv, NEW t \in Threads, Forget(t)
  PROVE  (UNCHANGED <<settings, stores>> => ParserTypes') /\ request' \in [Clients -> Requests]
         /\ whole' \in [Threads -> BOOLEAN]
<1>1. Types /\ (t[2] = "client" => t[1] \in Clients)
  BY ThreadNames DEF Inv
<1>2. request' \in [Clients -> Requests] /\ whole' \in [Threads -> BOOLEAN]
  BY <1>1 DEF Forget, Types, Requests
<1>3. ASSUME UNCHANGED <<settings, stores>> PROVE ParserTypes'
  <2>1. /\ at' \in [Threads -> Nat] /\ chunk' \in [Threads -> Nat] /\ DOMAIN got' = Threads
        /\ disturbed' \in [Threads -> BOOLEAN]
    BY <1>1 DEF Forget, Types, TypeOK
  <2>2. ASSUME NEW u \in Threads PROVE at'[u] + chunk'[u] \in 0..Len(Events(u))
    <3>1. CASE u = t
      <4>1. at'[u] = 0 /\ chunk'[u] = 0 /\ Len(Events(u)) \in Nat
        BY <1>1, <3>1, ThreadNames, EventNames DEF Forget, Types
      <4>2. QED
        BY <4>1
    <3>2. CASE u # t
      BY <1>1, <3>2 DEF Forget, Types, TypeOK
    <3>3. QED
      BY <3>1, <3>2
  <2>3. QED
    BY <1>1, <1>3, <2>1, <2>2 DEF ParserTypes, Types, TypeOK
<1>4. QED
  BY <1>2, <1>3

\* The settings, the counters of init_parser and what llhttp has come to.
LEMMA ParserTypesStep == Inv /\ [Next]_vars => ParserTypes'
<1> SUFFICES ASSUME Inv, [Next]_vars PROVE ParserTypes'
  OBVIOUS
<1>1. ParserTypes
  BY TypesByGroup DEF Inv
<1>2. CASE UNCHANGED parserVars
  BY <1>1, <1>2 DEF ParserTypes, parserVars
<1>3. ASSUME NEW t \in Threads, Clear(t) PROVE ParserTypes'
  <2>1. stores' \in [Threads -> 0..Len(Callbacks) + 1]
    BY <1>1, <1>3, EventNames DEF ParserTypes, Clear
  <2>2. disturbed' \in [Threads -> BOOLEAN]
    BY <1>1, <1>3 DEF ParserTypes, Clear
  <2>3. QED
    BY <1>1, <1>3, <2>1, <2>2 DEF ParserTypes, Clear
<1>4. ASSUME NEW t \in Threads, Store(t) PROVE ParserTypes'
  <2>1. stores[t] \in 1..4
    BY <1>4, EventNames DEF Store, Inv, Parsing, ParsedBy
  <2>2. stores' \in [Threads -> 0..Len(Callbacks) + 1]
    <3>1. stores[t] + 1 \in 0..5 /\ Len(Callbacks) + 1 = 5
      BY <2>1, EventNames
    <3>2. QED
      BY <1>1, <1>4, <3>1 DEF ParserTypes, Store
  <2>3. settings' \subseteq {Callbacks[i] : i \in DOMAIN Callbacks}
    <3>1. Callbacks[stores[t]] \in {Callbacks[i] : i \in DOMAIN Callbacks}
      BY <2>1, EventNames
    <3>2. QED
      BY <1>1, <1>4, <3>1 DEF ParserTypes, Store
  <2>4. QED
    BY <1>1, <1>4, <2>2, <2>3 DEF ParserTypes, Store
<1>5. ASSUME NEW t \in Threads, NEW k \in 1..Unparsed(t), chunk' = [chunk EXCEPT ![t] = k],
             UNCHANGED <<settings, stores, disturbed, at, got>>
      PROVE  ParserTypes'
  <2>1. Len(Events(t)) \in Nat /\ at[t] \in Nat
    BY <1>1, ThreadNames, EventNames DEF ParserTypes
  <2>2. k \in Nat /\ at[t] + k \in 0..Len(Events(t))
    BY <2>1 DEF Unparsed
  <2>3. \A u \in Threads : chunk'[u] = IF u = t THEN k ELSE chunk[u]
    BY <1>1, <1>5 DEF ParserTypes
  <2>4. chunk' \in [Threads -> Nat]
    BY <1>1, <1>5, <2>2 DEF ParserTypes
  <2>5. QED
    BY <1>1, <1>5, <2>2, <2>3, <2>4 DEF ParserTypes
<1>6. ASSUME NEW t \in Threads, Parse(t) PROVE ParserTypes'
  <2>1. /\ at[t] \in Nat /\ chunk[t] \in Nat /\ chunk[t] >= 1
    BY <1>6, NextEvent DEF Parse
  <2>2. at' \in [Threads -> Nat] /\ chunk' \in [Threads -> Nat] /\ DOMAIN got' = Threads
    BY <1>1, <1>6, <2>1 DEF ParserTypes, Parse
  <2>3. \A u \in Threads : at'[u] + chunk'[u] = at[u] + chunk[u]
    BY <1>1, <1>6, <2>1 DEF ParserTypes, Parse
  <2>4. QED
    BY <1>1, <1>6, <2>2, <2>3 DEF ParserTypes, Parse
<1>7. ASSUME NEW c \in Clients, ReadFails(c) PROVE ParserTypes'
  <2>1. Client(c) \in Threads
    BY ThreadNames
  <2>2. ASSUME NEW k \in 1..Unparsed(Client(c)), chunk' = [chunk EXCEPT ![Client(c)] = k],
               UNCHANGED <<settings, stores, disturbed, at, got>>
        PROVE  ParserTypes'
    BY <1>5, <2>1, <2>2
  <2>3. QED
    BY <1>2, <1>7, <2>2 DEF ReadFails, Stop
<1>8. ASSUME NEW c \in Clients, ResponseEnds(c) \/ Lookup(c) \/ Close(c) PROVE ParserTypes'
  BY <1>8, ThreadNames, ForgetTypes DEF ResponseEnds, Lookup, Close
<1>9. ASSUME NEW t \in Threads, Parser(t) PROVE ParserTypes'
  BY <1>2, <1>3, <1>4, <1>5, <1>6, <1>9 DEF Parser, Read, ParseFails
<1>10. ASSUME NEW c \in Clients, Accept(c) \/ Connecting(c) PROVE ParserTypes'
  BY <1>2, <1>10 DEF Accept, Connecting, Socket, Connect, Write, WriteFails, Abandon,
     WriteForeign, Trespass, Stop
<1>11. QED
  BY <1>2, <1>7, <1>8, <1>9, <1>10 DEF Next, vars

\* An address is only taken from a list that has one.
LEMMA NextAddressTypes ==
  ASSUME Inv, NEW c \in Clients, NextAddress(c), pc[Client(c)] \in {"socket", "connect"}
  PROVE  /\ iter' \in [Clients -> 0..MaxAddresses]
         /\ iter[c] > 1 => iter'[c] > 0
<1>1. iter \in [Clients -> 0..MaxAddresses] /\ MaxAddresses \in Nat /\ iter[c] > 0
  BY ConnectionsAssumption DEF Inv, Types, TypeOK
<1>2. iter' = [iter EXCEPT ![c] = @ - 1]
  BY DEF NextAddress
<1>3. QED
  BY <1>1, <1>2

\* The table of descriptors and the lists of addresses.
LEMMA TableTypesStep == Inv /\ [Next]_vars => TableTypes'
<1> SUFFICES ASSUME Inv, [Next]_vars PROVE TableTypes'
  OBVIOUS
<1>1. TableTypes
  BY TypesByGroup DEF Inv
<1>2. CASE UNCHANGED fdVars
  BY <1>1, <1>2 DEF TableTypes, fdVars
<1>3. \A t : CloseFd(user, t) \in [Fds -> Threads \cup {Nobody}]
  BY <1>1 DEF TableTypes, CloseFd
<1>4. \A c \in Clients : Client(c) \in Threads /\ Server(c) \in Threads
  BY ThreadNames
<1>5. \A t \in Threads : [fd EXCEPT ![t] = -1] \in [Threads -> Fds \cup {-1}]
  BY <1>1 DEF TableTypes
<1>6. ASSUME Free # {}, NEW t \in Threads
      PROVE  /\ [fd EXCEPT ![t] = NewFd] \in [Threads -> Fds \cup {-1}]
             /\ [user EXCEPT ![NewFd] = t] \in [Fds -> Threads \cup {Nobody}]
  BY <1>1, <1>6, NewFdFree DEF TableTypes
<1>7. ASSUME NEW c \in Clients, Accept(c) PROVE TableTypes'
  BY <1>1, <1>4, <1>6, <1>7 DEF Accept, TableTypes
<1>8. ASSUME NEW c \in Clients, ResponseEnds(c) \/ Close(c) \/ WriteFails(c) PROVE TableTypes'
  BY <1>1, <1>3, <1>4, <1>5, <1>8 DEF ResponseEnds, Close, WriteFails, TableTypes
<1>9. ASSUME NEW c \in Clients, Abandon(c) PROVE TableTypes'
  BY <1>1, <1>3, <1>4, <1>5, <1>9 DEF Abandon, TableTypes
<1>10. ASSUME NEW c \in Clients, Lookup(c) PROVE TableTypes'
  <2>1. \A n \in 1..MaxAddresses : [iter EXCEPT ![c] = n] \in [Clients -> 0..MaxAddresses]
    BY <1>1, ConnectionsAssumption DEF TableTypes
  <2>2. QED
    BY <1>1, <1>10, <2>1 DEF Lookup, TableTypes
<1>11. ASSUME NEW c \in Clients, Socket(c) PROVE TableTypes'
  <2>1. CASE Free = {}
    <3>1. fd' = [fd EXCEPT ![Server(c)] = -1] /\ UNCHANGED <<user, dead>>
      BY <1>11, <2>1 DEF Socket, NewFd
    <3>2. iter' \in [Clients -> 0..MaxAddresses]
      BY <1>11, <2>1, NextAddressTypes DEF Socket
    <3>3. QED
      BY <1>1, <1>4, <1>5, <3>1, <3>2 DEF TableTypes
  <2>2. CASE Free # {}
    BY <1>1, <1>4, <1>6, <1>11, <2>2 DEF Socket, TableTypes
  <2>3. QED
    BY <2>1, <2>2
<1>12. ASSUME NEW c \in Clients, Connect(c) PROVE TableTypes'
  <2>1. CASE iter' = [iter EXCEPT ![c] = 0] /\ UNCHANGED <<fd, user, dead>>
    BY <1>1, <2>1, ConnectionsAssumption DEF TableTypes
  <2>2. CASE /\ user' = CloseFd(user, Server(c)) /\ UNCHANGED fd /\ NextAddress(c)
             /\ dead' = [dead EXCEPT ![c] = iter[c] = 1]
    <3>1. iter' \in [Clients -> 0..MaxAddresses]
      BY <1>12, <2>2, NextAddressTypes DEF Connect
    <3>2. dead' \in [Clients -> BOOLEAN]
      BY <1>1, <2>2 DEF TableTypes
    <3>3. QED
      BY <1>1, <1>3, <2>2, <3>1, <3>2 DEF TableTypes
  <2>3. QED
    BY <1>12, <2>1, <2>2 DEF Connect
<1>13. ASSUME NEW t \in Threads, Parser(t) PROVE TableTypes'
  BY <1>2, <1>13 DEF Parser, Clear, Store, Read, Parse, ParseFails
<1>14. ASSUME NEW c \in Clients, ReadFails(c) \/ Write(c) \/ WriteForeign(c) PROVE TableTypes'
  BY <1>2, <1>14 DEF ReadFails, Write, WriteForeign, Trespass, Stop
<1>15. QED
  BY <1>2, <1>7, <1>8, <1>9, <1>10, <1>11, <1>12, <1>13, <1>14 DEF Next, Connecting, vars

\* Where the threads stand, and that there is an address to connect to.
LEMMA PlaceTypesStep == Inv /\ [Next]_vars => PlaceTypes'
<1> SUFFICES ASSUME Inv, [Next]_vars PROVE PlaceTypes'
  OBVIOUS
<1> DEFINE Places == Looking \cup {"unborn", "init", "read", "parse", "abandon", "close", "done"}
<1>1. PlaceTypes /\ Types
  BY TypesByGroup DEF Inv
<1>2. ASSUME NEW t \in Threads, NEW label \in Places, Goto(t, label),
             label \in {"socket", "connect"} => t[2] = "client" /\ iter'[t[1]] > 0,
             \A c \in Clients : Client(c) # t => iter'[c] = iter[c]
      PROVE  PlaceTypes'
  <2>1. pc' \in [Threads -> Places]
    BY <1>1, <1>2 DEF PlaceTypes, Goto
  <2>2. pc'[t] = label /\ \A u \in Threads : u # t => pc'[u] = pc[u]
    BY <1>1, <1>2, GotoEffect
  <2>3. ASSUME NEW c \in Clients, pc'[Client(c)] \in {"socket", "connect"} PROVE iter'[c] > 0
    BY <1>1, <1>2, <2>2, <2>3, ThreadNames DEF PlaceTypes
  <2>4. QED
    BY <2>1, <2>3 DEF PlaceTypes
<1>3. ASSUME NEW t \in Threads, NEW label \in Places \ {"socket", "connect"}, Goto(t, label),
             UNCHANGED iter
      PROVE  PlaceTypes'
  BY <1>2, <1>3
<1>4. CASE UNCHANGED <<pc, iter>>
  BY <1>1, <1>4 DEF PlaceTypes
<1>5. ASSUME NEW t \in Threads, NEW seen
      PROVE  {Leave(t, AfterParse(t, seen)), Leave(t, "reject")} \subseteq {"read", "lookup", "close", "done"}
  BY <1>5, LeaveEffect DEF AfterLoop
<1>6. {"unborn", "init", "read", "parse", "lookup", "write", "abandon", "close", "done"}
        \subseteq Places \ {"socket", "connect"}
  BY DEF Looking
<1>7. {"socket", "connect"} \subseteq Places
  BY DEF Looking
<1> HIDE DEF Places
<1>8. ASSUME NEW t \in Threads, Parser(t) PROVE PlaceTypes'
  <2>1. CASE Store(t)
    BY <1>3, <1>4, <1>6, <2>1 DEF Store, fdVars
  <2>2. CASE Parse(t)
    <3>1. PICK seen : Goto(t, IF chunk[t] > 1 THEN "parse" ELSE Leave(t, AfterParse(t, seen)))
      BY <2>2 DEF Parse
    <3>2. Leave(t, AfterParse(t, seen)) \in {"read", "lookup", "close", "done"}
      BY <1>5
    <3>3. (IF chunk[t] > 1 THEN "parse" ELSE Leave(t, AfterParse(t, seen)))
            \in Places \ {"socket", "connect"}
      BY <1>6, <3>2
    <3>4. QED
      BY <1>3, <2>2, <3>1, <3>3 DEF Parse, fdVars
  <2>3. CASE ParseFails(t)
    <3>1. Leave(t, "reject") \in Places \ {"socket", "connect"}
      BY <1>5, <1>6
    <3>2. QED
      BY <1>3, <2>3, <3>1 DEF ParseFails, fdVars
  <2>4. CASE Clear(t) \/ Read(t)
    BY <1>3, <1>4, <1>6, <2>4 DEF Clear, Read, fdVars
  <2>5. QED
    BY <1>8, <2>1, <2>2, <2>3, <2>4 DEF Parser
<1>9. \A c \in Clients : Client(c) \in Threads /\ Server(c) \in Threads /\ Client(c) # Server(c)
                         /\ Client(c)[1] = c /\ Client(c)[2] = "client"
  BY ThreadNames
<1>10. ASSUME NEW c \in Clients, ReadFails(c) PROVE PlaceTypes'
  <2>1. Leave(Client(c), "reject") \in Places \ {"socket", "connect"}
    BY <1>5, <1>6, <1>9
  <2>2. UNCHANGED iter /\ (Goto(Client(c), Leave(Client(c), "reject")) \/ Goto(Client(c), "parse") \/ UNCHANGED pc)
    BY <1>10 DEF ReadFails, Stop, fdVars
  <2>3. QED
    BY <1>3, <1>4, <1>6, <1>9, <2>1, <2>2
<1>11. ASSUME NEW c \in Clients, Accept(c) \/ ResponseEnds(c) \/ Close(c) \/ WriteFails(c) \/ Abandon(c)
       PROVE  PlaceTypes'
  <2>1. UNCHANGED iter /\ \E t \in {Client(c), Server(c)}, label \in {"init", "done", "abandon"} : Goto(t, label)
    BY <1>11 DEF Accept, ResponseEnds, Close, WriteFails, Abandon
  <2>2. QED
    BY <1>3, <1>6, <1>9, <2>1
<1>12. ASSUME NEW c \in Clients, Lookup(c) PROVE PlaceTypes'
  <2>1. CASE Goto(Client(c), "close") /\ UNCHANGED iter
    BY <1>3, <1>6, <1>9, <2>1
  <2>2. CASE \E n \in 1..MaxAddresses : iter' = [iter EXCEPT ![c] = n] /\ Goto(Client(c), "socket")
    <3>1. iter'[c] > 0 /\ \A d \in Clients : d # c => iter'[d] = iter[d]
      BY <1>1, <2>2 DEF Types, TypeOK
    <3>2. QED
      BY <1>2, <1>7, <1>9, <2>2, <3>1
  <2>3. QED
    BY <1>12, <2>1, <2>2 DEF Lookup
<1>13. ASSUME NEW c \in Clients, NextAddress(c), pc[Client(c)] \in {"socket", "connect"}
       PROVE  PlaceTypes'
  <2>1. PICK label : /\ Goto(Client(c), label)
                     /\ label = IF iter[c] > 1 THEN "socket"
                                ELSE IF fd'[Server(c)] = -1 THEN "close" ELSE "write"
    BY <1>13 DEF NextAddress
  <2>2. (iter[c] > 1 => iter'[c] > 0) /\ \A d \in Clients : d # c => iter'[d] = iter[d]
    BY <1>13, NextAddressTypes DEF NextAddress
  <2>3. label \in Places /\ (label \in {"socket", "connect"} => iter[c] > 1)
    BY <1>6, <1>7, <2>1
  <2>4. QED
    BY <1>2, <1>9, <2>1, <2>2, <2>3
<1>14. ASSUME NEW c \in Clients, Socket(c) PROVE PlaceTypes'
  <2>1. CASE Goto(Client(c), "connect") /\ UNCHANGED iter
    <3>1. iter[c] > 0
      BY <1>1, <1>14 DEF Socket, PlaceTypes
    <3>2. QED
      BY <1>2, <1>7, <1>9, <2>1, <3>1
  <2>2. QED
    BY <1>13, <1>14, <2>1 DEF Socket
<1>15. ASSUME NEW c \in Clients, Connect(c) PROVE PlaceTypes'
  <2>1. CASE Goto(Client(c), "write") /\ iter' = [iter EXCEPT ![c] = 0]
    <3>1. \A d \in Clients : d # c => iter'[d] = iter[d]
      BY <2>1
    <3>2. QED
      BY <1>2, <1>6, <1>9, <2>1, <3>1
  <2>2. QED
    BY <1>13, <1>15, <2>1 DEF Connect
<1>16. ASSUME NEW c \in Clients, Write(c) PROVE PlaceTypes'
  <2>1. pc' = [pc EXCEPT ![Client(c)] = "close", ![Server(c)] = "init"] /\ UNCHANGED iter
    BY <1>16 DEF Write, fdVars
  <2>2. pc' \in [Threads -> Places]
    BY <1>1, <1>6, <1>9, <2>1 DEF PlaceTypes, Places
  <2>3. \A d \in Clients : pc'[Client(d)] \in {"socket", "connect"} => pc'[Client(d)] = pc[Client(d)]
    BY <1>1, <2>1, ThreadNames DEF PlaceTypes
  <2>4. QED
    BY <1>1, <2>1, <2>2, <2>3 DEF PlaceTypes, Places
<1>17. ASSUME NEW c \in Clients, WriteForeign(c) PROVE PlaceTypes'
  BY <1>4, <1>17 DEF WriteForeign, Trespass, Stop, fdVars
<1>18. QED
  BY <1>4, <1>8, <1>10, <1>11, <1>12, <1>14, <1>15, <1>16, <1>17 DEF Next, Connecting, vars, fdVars

\* What the clients send, and how the process ends.
LEMMA MessageTypesStep == Inv /\ [Next]_vars => MessageTypes'
<1> SUFFICES ASSUME Inv, [Next]_vars PROVE MessageTypes'
  OBVIOUS
<1>1. MessageTypes
  BY TypesByGroup DEF Inv
<1>2. CASE UNCHANGED <<request, whole, fault>>
  BY <1>1, <1>2 DEF MessageTypes
<1>3. ASSUME NEW c \in Clients, Accept(c) PROVE MessageTypes'
  BY <1>1, <1>3, ThreadNames DEF Accept, MessageTypes
<1>4. ASSUME NEW c \in Clients, ResponseEnds(c) \/ Lookup(c) \/ Close(c) PROVE MessageTypes'
  <2>1. PICK t \in {Client(c), Server(c)} : Forget(t) /\ (UNCHANGED fault \/ fault' = "crash")
    BY <1>4 DEF ResponseEnds, Lookup, Close
  <2>2. request' \in [Clients -> Requests] /\ whole' \in [Threads -> BOOLEAN]
    BY <2>1, ThreadNames, ForgetTypes
  <2>3. QED
    BY <1>1, <2>1, <2>2 DEF MessageTypes
<1>5. ASSUME NEW c \in Clients, ReadFails(c) \/ WriteForeign(c) PROVE MessageTypes'
  BY <1>1, <1>5 DEF ReadFails, WriteForeign, Trespass, Stop, MessageTypes
<1>6. ASSUME NEW c \in Clients, Write(c) PROVE MessageTypes'
  BY <1>1, <1>6, ThreadNames DEF Write, MessageTypes
<1>7. ASSUME NEW c \in Clients, Socket(c) \/ Connect(c) \/ WriteFails(c) \/ Abandon(c) PROVE MessageTypes'
  BY <1>2, <1>7 DEF Socket, Connect, WriteFails, Abandon
<1>8. ASSUME NEW t \in Threads, Parser(t) PROVE MessageTypes'
  BY <1>2, <1>8 DEF Parser, Clear, Store, Read, Parse, ParseFails
<1>9. QED
  BY <1>2, <1>3, <1>4, <1>5, <1>6, <1>7, <1>8 DEF Next, Connecting, vars

-----------------------------------------------------------------------------
(* The theorems *)

LEMMA InitInv == Init => Inv
<1> SUFFICES ASSUME Init PROVE Inv
  OBVIOUS
<1>1. ParserTypes /\ TableTypes /\ PlaceTypes /\ MessageTypes
  <2>1. \A t \in Threads : Len(Events(t)) \in Nat
    BY ThreadNames, EventNames
  <2>2. ParserTypes
    BY <2>1, EventNames DEF Init, ParserTypes
  <2>3. TableTypes
    BY ConnectionsAssumption DEF Init, TableTypes
  <2>4. PlaceTypes /\ MessageTypes
    BY ThreadNames DEF Init, PlaceTypes, MessageTypes, Requests
  <2>5. QED
    BY <2>2, <2>3, <2>4
<1>2. Remembered
  BY ConnectionsAssumption DEF Init, Remembered
<1>3. Descriptors
  <2> SUFFICES ASSUME NEW c \in Clients PROVE DescriptorsOf(c)
    BY DEF Descriptors
  <2>1. /\ pc[Client(c)] = "unborn" /\ pc[Server(c)] = "unborn"
        /\ fd[Client(c)] = -1 /\ fd[Server(c)] = -1 /\ ~dead[c]
    BY ThreadNames DEF Init
  <2>2. QED
    BY <2>1 DEF DescriptorsOf, Looking
<1>4. Parsing
  BY DEF Init, Parsing, ParsedBy
<1>5. QED
  BY <1>1, <1>2, <1>3, <1>4, TypesByGroup DEF Inv

LEMMA StepInv == Inv /\ [Next]_vars => Inv'
<1>1. ASSUME ParserTypes', TableTypes', PlaceTypes', MessageTypes' PROVE Types'
  BY <1>1 DEF Types, TypeOK, ParserTypes, TableTypes, PlaceTypes, MessageTypes
<1>2. QED
  BY <1>1, DescriptorsStep, ParsingStep, ParserTypesStep, TableTypesStep, PlaceTypesStep,
     MessageTypesStep DEF Inv

\* The inductive invariant: who has which descriptor by where the threads stand,
\* and what was stored and called while the settings are undisturbed.
THEOREM Invariance == Spec => []Inv
<1>1. Init => Inv
  BY InitInv
<1>2. Inv /\ [Next]_vars => Inv'
  BY StepInv
<1>3. QED
  BY <1>1, <1>2, PTL DEF Spec

\* Every variable keeps its type, and an address is only taken from a list that
\* still has one, however many connections, descriptors and addresses there are.
THEOREM TypeCorrect == Spec => []TypeOK
<1>1. Inv => TypeOK
  BY DEF Inv, Types
<1>2. QED
  BY <1>1, Invariance, PTL

\* Whatever other threads do to the static settings, client_handler looks up a
\* request only after its end was reported, and none whose reported method or version
\* is not accepted.  If nobody cleared them meanwhile, it was a GET of version 1.0 or
\* 1.1 with its whole URL: every callback before the end was called.
THEOREM AcceptedRequestAlways == Spec => []AcceptedRequest
<1>1. ASSUME Inv, NEW c \in Clients, pc[Client(c)] = "lookup"
      PROVE  /\ Called(Client(c), got[Client(c)], "on_message_complete")
             /\ Called(Client(c), got[Client(c)], "on_method_complete") => GoodMethod(c)
             /\ Called(Client(c), got[Client(c)], "on_version_complete") => GoodVersion(c)
  <2>1. Client(c) \in Threads /\ Client(c)[1] = c /\ Client(c)[2] = "client"
    BY ThreadNames
  <2>2. Called(Client(c), got[Client(c)], "on_message_complete")
        /\ ~Refused(Client(c), got[Client(c)])
    BY <1>1, <2>1 DEF Inv, Parsing, ParsedBy
  <2>3. QED
    BY <2>1, <2>2 DEF Refused
<1>2. ASSUME Inv, NEW c \in Clients, pc[Client(c)] = "lookup", ~disturbed[Client(c)]
      PROVE  /\ GoodMethod(c) /\ GoodVersion(c)
             /\ \A i \in DOMAIN Events(Client(c)) :
                  Events(Client(c))[i] = "on_url" => i \in got[Client(c)]
  <2> DEFINE t == Client(c)
  <2>1. t \in Threads /\ t[1] = c /\ t[2] = "client" /\ at[t] \in Nat /\ chunk[t] \in Nat
    BY <1>2, ThreadNames DEF Inv, Types
  <2>2. got[t] = 1..at[t] /\ Called(t, got[t], "on_message_complete") /\ ~Refused(t, got[t])
    BY <1>2, <2>1 DEF Inv, Parsing, ParsedBy
  <2>3. at[t] <= 5
    <3>1. at[t] + chunk[t] \in 0..5
      BY <1>2, <2>1, EventNames DEF Inv, Types, TypeOK
    <3>2. QED
      BY <2>1, <3>1
  <2>4. PICK k \in 1..at[t] : Events(t)[k] = "on_message_complete"
    BY <2>2 DEF Called
  <2>5. k \in 1..5
    BY <2>1, <2>3
  <2>6. k = 5
    BY <2>4, <2>5, EventNames
  <2>7. got[t] = 1..5
    BY <2>1, <2>2, <2>3, <2>6
  <2>8. Called(t, got[t], "on_method_complete") /\ Called(t, got[t], "on_version_complete")
    <3>1. 1 \in got[t] /\ 4 \in got[t]
      BY <2>7
    <3>2. QED
      BY <3>1, EventNames DEF Called
  <2>9. GoodMethod(c) /\ GoodVersion(c)
    BY <2>1, <2>2, <2>8 DEF Refused
  <2>10. QED
    BY <2>7, <2>9, EventNames
<1>3. Inv => AcceptedRequest
  BY <1>1, <1>2 DEF AcceptedRequest
<1>4. QED
  BY <1>3, Invariance, PTL

\* A thread that will still use a descriptor has its own connection behind the
\* number, whatever else was opened and closed meanwhile; only a host_fd that
\* connect_via_host_name closed is another's or nobody's.
THEOREM OwnDescriptorsAlways == Spec => []OwnDescriptors
<1>1. Inv => OwnDescriptors
  BY DEF Inv, Descriptors, DescriptorsOf, OwnDescriptors, Looking
<1>2. QED
  BY <1>1, Invariance, PTL

\* No way to the end of client_handler leaves its connection open, or the one to
\* the host if no server_handler has it.
THEOREM ClientClosedAlways == Spec => []ClientClosed
<1>1. Inv => ClientClosed
  <2> SUFFICES ASSUME Inv, NEW c \in Clients, NEW d \in Fds
               PROVE  /\ pc[Client(c)] = "done" => user[d] # Client(c)
                      /\ pc[Client(c)] \in {"close", "done"} /\ pc[Server(c)] = "unborn"
                           => user[d] # Server(c)
    BY DEF ClientClosed
  <2>1. Client(c) \in Threads /\ Server(c) \in Threads /\ DescriptorsOf(c)
    BY ThreadNames DEF Inv, Descriptors
  <2>2. \A t \in Threads : user[d] = t => Own(t)
    BY DEF Inv, Remembered, Own
  <2>3. fd[Client(c)] = -1 => ~Own(Client(c))
    BY ConnectionsAssumption DEF Own, Fds
  <2>4. QED
    BY <2>1, <2>2, <2>3 DEF DescriptorsOf
<1>2. QED
  BY <1>1, Invariance, PTL

=============================================================================
