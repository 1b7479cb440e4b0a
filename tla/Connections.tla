------------------------------ MODULE Connections ------------------------------
(***************************************************************************)
(* task3: what the threads of the proxy do with their connections: the     *)
(* accept loop of main, the receive loop of http_parser.c over llhttp,     *)
(* connect_via_host_name, and the ways in which client_handler and         *)
(* server_handler end.                                                     *)
(*                                                                         *)
(* The threads share two things here.  One is the static settings of       *)
(* init_parser: every thread clears them and stores the callbacks again,   *)
(* one by one, while llhttp calls other threads' callbacks through them.   *)
(* The other is the table of descriptors, in which a number is given out   *)
(* again as soon as it is closed.                                          *)
(*                                                                         *)
(* The cache is in ProxyCache: a lookup finds the URL or does not, and a   *)
(* client sends for a while.  A message is the callbacks it makes llhttp   *)
(* call.  The first use of a descriptor of another thread stops the model. *)
(***************************************************************************)
EXTENDS Integers, Sequences, FiniteSetsExt

CONSTANTS
  MaxClients,    \* bound: connections that main accepts
  Nobody,
  MaxFd,         \* bound: descriptors the process may have beside the listener
  MaxAddresses   \* bound: addresses getaddrinfo finds

\* Connections are numbered in the order in which they are accepted.
Clients == 1..MaxClients

\* The client_handler of a connection and the server_handler it may start.
Threads == Clients \X {"client", "server"}
Client(c) == <<c, "client">>
Server(c) == <<c, "server">>

Fds == 1..MaxFd

ASSUME ConnectionsAssumption ==
  /\ {MaxClients, MaxFd, MaxAddresses} \subseteq Nat \ {0}
  /\ Nobody \notin Threads

VARIABLES
  settings,   \* the callbacks stored in the static settings
  stores,     \* how many steps of init_parser each thread has made
  disturbed,  \* the settings were cleared since the thread cleared them itself
  pc,         \* where each thread stands
  at,         \* how many callbacks of its message llhttp has come to
  chunk,      \* how many of them are in the buffer it parses
  got,        \* those that were called, by position: what Parser_res holds
  request,    \* which request a client sends
  whole,      \* the peer is known to send a whole, good message
  fd,         \* client_fd, server_fd
  user,       \* the thread whose connection a descriptor is
  iter,       \* addresses left in the list
  dead,       \* connect_via_host_name returned a closed descriptor
  fault       \* the process has crashed, or used a foreign descriptor

parserVars == <<settings, stores, disturbed, at, chunk, got>>
fdVars == <<fd, user, iter, dead>>
vars == <<parserVars, pc, request, whole, fdVars, fault>>

\* The stores of init_parser into the settings (parseStateUrl, which
\* on_url_complete sets, is never read: it is left out).
Callbacks == <<"on_url", "on_message_complete", "on_method_complete", "on_version_complete">>

\* The callbacks of a request whose URL comes in two parts, and of a response.
Events(t) ==
  IF t[2] = "client"
  THEN <<"on_method_complete", "on_url", "on_url", "on_version_complete",
         "on_message_complete">>
  ELSE <<"on_message_complete">>

\* A client sends an acceptable request, one that is no GET, or one of another
\* version than 1.0 and 1.1.
Requests == {"good", "method", "version"}

Init ==
  /\ settings = {}
  /\ stores = [t \in Threads |-> 0]
  /\ disturbed = [t \in Threads |-> FALSE]
  /\ pc = [t \in Threads |-> "unborn"]
  /\ at = [t \in Threads |-> 0]
  /\ chunk = [t \in Threads |-> 0]
  /\ got = [t \in Threads |-> {}]
  /\ request = [c \in Clients |-> "good"]
  /\ whole = [t \in Threads |-> FALSE]
  /\ fd = [t \in Threads |-> -1]
  /\ user = [d \in Fds |-> Nobody]
  /\ iter = [c \in Clients |-> 0]
  /\ dead = [c \in Clients |-> FALSE]
  /\ fault = "none"

Goto(t, label) == pc' = [pc EXCEPT ![t] = label]
Stop(why) == fault' = why /\ UNCHANGED <<parserVars, pc, request, whole, fdVars>>

-----------------------------------------------------------------------------
(* Descriptors *)

Free == {d \in Fds : user[d] = Nobody}

\* accept() and socket(): the lowest free number, or -1.
NewFd == IF Free = {} THEN -1 ELSE Min(Free)

Own(t) == fd[t] \in Fds /\ user[fd[t]] = t
Closed(t) == fd[t] \notin Fds \/ user[fd[t]] = Nobody

\* The table after close() by t; a closed number is refused.
CloseFd(table, t) == [d \in Fds |-> IF d = fd[t] THEN Nobody ELSE table[d]]

\* A thread that reads, writes or closes what is another's stops the model.
Trespass(t) == ~Own(t) /\ ~Closed(t) /\ Stop("foreign")

-----------------------------------------------------------------------------
(* main and init_parser *)

\* A connection is accepted and its thread started; without a free descriptor
\* accept fails and the loop goes on.
Accept(c) ==
  /\ pc[Client(c)] = "unborn" /\ Free # {}
  /\ \A d \in 1..(c - 1) : pc[Client(d)] # "unborn"
  /\ fd' = [fd EXCEPT ![Client(c)] = NewFd]
  /\ user' = [user EXCEPT ![NewFd] = Client(c)]
  /\ \E r \in Requests, b \in BOOLEAN :
       /\ b => r = "good"
       /\ request' = [request EXCEPT ![c] = r] /\ whole' = [whole EXCEPT ![Client(c)] = b]
  /\ Goto(Client(c), "init")
  /\ UNCHANGED <<parserVars, iter, dead, fault>>

\* llhttp_settings_init clears the settings under every thread that uses them.
Clear(t) ==
  /\ pc[t] = "init" /\ stores[t] = 0
  /\ settings' = {}
  /\ disturbed' = [u \in Threads |->
                     IF u = t THEN FALSE
                     ELSE disturbed[u] \/ (stores[u] > 0 /\ pc[u] \in {"init", "read", "parse"})]
  /\ stores' = [stores EXCEPT ![t] = 1]
  /\ UNCHANGED <<pc, at, chunk, got, request, whole, fdVars, fault>>

\* Mutant of Store: the callback for the end of the message is not stored.
StoreNoEnd(t) ==
  /\ pc[t] = "init" /\ stores[t] > 0
  /\ settings' = settings \cup ({Callbacks[stores[t]]} \ {"on_message_complete"})
  /\ stores' = [stores EXCEPT ![t] = @ + 1]
  /\ IF stores[t] = Len(Callbacks) THEN Goto(t, "read") ELSE UNCHANGED pc
  /\ UNCHANGED <<disturbed, at, chunk, got, request, whole, fdVars, fault>>

\* One store into the settings; the last begins the parsing.
Store(t) ==
  /\ pc[t] = "init" /\ stores[t] > 0
  /\ settings' = settings \cup {Callbacks[stores[t]]}
  /\ stores' = [stores EXCEPT ![t] = @ + 1]
  /\ IF stores[t] = Len(Callbacks) THEN Goto(t, "read") ELSE UNCHANGED pc
  /\ UNCHANGED <<disturbed, at, chunk, got, request, whole, fdVars, fault>>

-----------------------------------------------------------------------------
(* receive_parsed_request and the loop of server_handler *)

Unparsed(t) == Len(Events(t)) - at[t]

\* What was parsed is not needed any more.
Forget(t) ==
  /\ at' = [at EXCEPT ![t] = 0]
  /\ chunk' = [chunk EXCEPT ![t] = 0]
  /\ got' = [got EXCEPT ![t] = {}]
  /\ request' = IF t[2] = "client" THEN [request EXCEPT ![t[1]] = "good"] ELSE request
  /\ whole' = [whole EXCEPT ![t] = FALSE]
  /\ disturbed' = [disturbed EXCEPT ![t] = FALSE]

\* read() brings the bytes up to some later callback.
Read(t) ==
  /\ pc[t] = "read" /\ Own(t) /\ Unparsed(t) > 0
  /\ \E k \in 1..Unparsed(t) : chunk' = [chunk EXCEPT ![t] = k]
  /\ Goto(t, "parse")
  /\ UNCHANGED <<settings, stores, disturbed, at, got, request, whole, fdVars, fault>>

GoodMethod(c) == request[c] # "method"
GoodVersion(c) == request[c] # "version"

Called(t, seen, callback) == \E i \in seen : Events(t)[i] = callback

\* A request whose version or method is known and not accepted.
Refused(t, seen) ==
  /\ t[2] = "client"
  /\ \/ Called(t, seen, "on_version_complete") /\ ~GoodVersion(t[1])
     \/ Called(t, seen, "on_method_complete") /\ ~GoodMethod(t[1])

\* Mutant of AfterParse: a complete message is not checked any more.
AfterParseEndFirst(t, seen) ==
  CASE Called(t, seen, "on_message_complete") -> "end"
    [] OTHER -> IF Refused(t, seen) THEN "reject" ELSE "read"

\* After each read() a request is checked as far as it is known, and then the
\* loop asks for the end of the message.
AfterParse(t, seen) ==
  CASE Refused(t, seen) -> "reject"
    [] OTHER -> IF Called(t, seen, "on_message_complete") THEN "end" ELSE "read"

\* Where a thread goes with the outcome of its loop: a server_handler ends
\* without closing its descriptor.
Leave(t, outcome) ==
  CASE outcome = "read"   -> "read"
    [] outcome = "end"    -> IF t[2] = "client" THEN "lookup" ELSE "done"
    [] outcome = "reject" -> IF t[2] = "client" THEN "close" ELSE "done"

\* llhttp comes to a callback and calls it if it is stored at this moment.
Parse(t) ==
  /\ pc[t] = "parse"
  /\ at' = [at EXCEPT ![t] = @ + 1]
  /\ chunk' = [chunk EXCEPT ![t] = @ - 1]
  /\ LET event == Events(t)[at[t] + 1]
         seen == got[t] \cup {i \in {at[t] + 1} : event \in settings}
     IN  /\ got' = [got EXCEPT ![t] = seen]
         /\ Goto(t, IF chunk[t] > 1 THEN "parse" ELSE Leave(t, AfterParse(t, seen)))
  /\ UNCHANGED <<settings, stores, disturbed, request, whole, fdVars, fault>>

\* A malformed message.
ParseFails(t) ==
  /\ pc[t] = "read" /\ Own(t) /\ ~whole[t]
  /\ Goto(t, Leave(t, "reject"))
  /\ UNCHANGED <<parserVars, request, whole, fdVars, fault>>

\* read() of a client returns -1, and llhttp gets that as a length: it parses
\* what the buffer holds from earlier and whatever lies behind.  It takes that for
\* an error, or for some or all of what the message still lacks, or runs off.
\* (After read() has returned 0 the loop goes on reading: no step.)
ReadFails(c) ==
  LET t == Client(c) IN
  /\ pc[t] = "read" /\ Own(t) /\ ~whole[t]
  /\ \/ /\ Goto(t, Leave(t, "reject"))
        /\ UNCHANGED <<parserVars, request, whole, fdVars, fault>>
     \/ /\ \E k \in 1..Unparsed(t) : chunk' = [chunk EXCEPT ![t] = k]
        /\ Goto(t, "parse")
        /\ UNCHANGED <<settings, stores, disturbed, at, got, request, whole, fdVars, fault>>
     \/ Stop("crash")

\* A server_handler whose read() returns 0 or -1 closes its descriptor and ends.
ResponseEnds(c) ==
  LET t == Server(c) IN
  /\ pc[t] = "read" /\ (Closed(t) \/ ~whole[t] \/ Unparsed(t) = 0)
  /\ user' = CloseFd(user, t)
  /\ fd' = [fd EXCEPT ![t] = -1]
  /\ Goto(t, "done")
  /\ Forget(t)
  /\ UNCHANGED <<settings, stores, iter, dead, fault>>

-----------------------------------------------------------------------------
(* client_handler *)

\* The URL is in the cache, or the client looks the host up: an error, after
\* which freeaddrinfo gets a pointer that was never set, or some addresses.
Lookup(c) ==
  /\ pc[Client(c)] = "lookup"
  /\ \/ Goto(Client(c), "close") /\ UNCHANGED <<iter, fault>>
     \/ fault' = "crash" /\ Goto(Client(c), "close") /\ UNCHANGED iter
     \/ /\ \E n \in 1..MaxAddresses : iter' = [iter EXCEPT ![c] = n]
        /\ Goto(Client(c), "socket")
        /\ UNCHANGED fault
  /\ Forget(Client(c))
  /\ UNCHANGED <<settings, stores, fd, user, dead>>

\* The next address, or the end of the loop with host_fd.
NextAddress(c) ==
  /\ iter' = [iter EXCEPT ![c] = @ - 1]
  /\ Goto(Client(c), IF iter[c] > 1 THEN "socket"
                     ELSE IF fd'[Server(c)] = -1 THEN "close" ELSE "write")

\* socket() for one address.
Socket(c) ==
  /\ pc[Client(c)] = "socket"
  /\ fd' = [fd EXCEPT ![Server(c)] = NewFd]
  /\ IF Free = {}
     THEN NextAddress(c) /\ UNCHANGED user
     ELSE /\ user' = [user EXCEPT ![NewFd] = Server(c)]
          /\ Goto(Client(c), "connect")
          /\ UNCHANGED iter
  /\ UNCHANGED <<parserVars, request, whole, dead, fault>>

\* connect(), and close() if it fails: host_fd keeps the number.
Connect(c) ==
  /\ pc[Client(c)] = "connect"
  /\ \/ /\ Goto(Client(c), "write")
        /\ iter' = [iter EXCEPT ![c] = 0]
        /\ UNCHANGED <<fd, user, dead>>
     \/ /\ user' = CloseFd(user, Server(c)) /\ UNCHANGED fd
        /\ NextAddress(c)
        /\ dead' = [dead EXCEPT ![c] = iter[c] = 1]
  /\ UNCHANGED <<parserVars, request, whole, fault>>

\* The request cannot be written to the host: client_fd is closed, then server_fd.
WriteFails(c) ==
  /\ pc[Client(c)] = "write" /\ (Own(Server(c)) \/ Closed(Server(c)))
  /\ user' = CloseFd(user, Client(c))
  /\ fd' = [fd EXCEPT ![Client(c)] = -1]
  /\ Goto(Client(c), "abandon")
  /\ UNCHANGED <<parserVars, request, whole, iter, dead, fault>>

\* Mutant of Abandon: client_handler does not return.
AbandonOn(c) ==
  /\ pc[Client(c)] = "abandon" /\ (Own(Server(c)) \/ Closed(Server(c)))
  /\ user' = CloseFd(user, Server(c))
  /\ Goto(Client(c), "close")
  /\ UNCHANGED <<parserVars, request, whole, fd, iter, dead, fault>>

Abandon(c) ==
  /\ pc[Client(c)] = "abandon" /\ (Own(Server(c)) \/ Closed(Server(c)))
  /\ user' = CloseFd(user, Server(c))
  /\ fd' = [fd EXCEPT ![Server(c)] = -1]
  /\ Goto(Client(c), "done")
  /\ dead' = [dead EXCEPT ![c] = FALSE]
  /\ UNCHANGED <<parserVars, request, whole, iter, fault>>

\* It is written, and a server_handler is started.
Write(c) ==
  /\ pc[Client(c)] = "write" /\ Own(Server(c))
  /\ pc' = [pc EXCEPT ![Client(c)] = "close", ![Server(c)] = "init"]
  /\ \E b \in BOOLEAN : whole' = [whole EXCEPT ![Server(c)] = b]
  /\ UNCHANGED <<parserVars, request, fdVars, fault>>

\* The number is the connection of another thread, to which the request is
\* written, or which is closed.
WriteForeign(c) == pc[Client(c)] \in {"write", "abandon"} /\ Trespass(Server(c))

\* Mutant of Close: the connection is left open.
CloseNot(c) ==
  /\ pc[Client(c)] = "close"
  /\ Goto(Client(c), "done")
  /\ UNCHANGED <<parserVars, request, whole, fdVars, fault>>

\* close(client_fd), after the content was sent or not, and return.
Close(c) ==
  /\ pc[Client(c)] = "close"
  /\ user' = CloseFd(user, Client(c))
  /\ fd' = [fd EXCEPT ![Client(c)] = -1]
  /\ Goto(Client(c), "done")
  /\ Forget(Client(c))
  /\ UNCHANGED <<settings, stores, iter, dead, fault>>

-----------------------------------------------------------------------------
Connecting(c) ==
  Socket(c) \/ Connect(c) \/ Write(c) \/ WriteFails(c) \/ Abandon(c) \/ WriteForeign(c)
Parser(t) == Clear(t) \/ Store(t) \/ Read(t) \/ Parse(t) \/ ParseFails(t)

Next ==
  /\ fault = "none"
  /\ \/ \E t \in Threads : Parser(t)
     \/ \E c \in Clients :
          \/ Accept(c) \/ ReadFails(c) \/ ResponseEnds(c)
          \/ Lookup(c) \/ Connecting(c) \/ Close(c)

Spec == Init /\ [][Next]_vars

\* Threads are scheduled, and the bytes a peer sends arrive.
FairSpec ==
  /\ Spec
  /\ \A t \in Threads :
       WF_vars(fault = "none" /\ (Clear(t) \/ Store(t) \/ Read(t) \/ Parse(t)))

-----------------------------------------------------------------------------
(* Properties *)

Looking == {"lookup", "socket", "connect", "write"}

\* Every variable has its type, and an address is only taken from the list.
TypeOK ==
  /\ settings \subseteq {Callbacks[i] : i \in DOMAIN Callbacks}
  /\ stores \in [Threads -> 0..Len(Callbacks) + 1]
  /\ disturbed \in [Threads -> BOOLEAN]
  /\ pc \in [Threads -> Looking \cup {"unborn", "init", "read", "parse", "abandon", "close", "done"}]
  /\ \A t \in Threads : at[t] + chunk[t] \in 0..Len(Events(t))
  /\ fd \in [Threads -> Fds \cup {-1}]
  /\ user \in [Fds -> Threads \cup {Nobody}]
  /\ iter \in [Clients -> 0..MaxAddresses]
  /\ \A c \in Clients : pc[Client(c)] \in {"socket", "connect"} => iter[c] > 0
  /\ dead \in [Clients -> BOOLEAN]
  /\ fault \in {"none", "crash", "foreign"}

\* Whatever other threads do to the static settings meanwhile, client_handler looks
\* up a request only after its end was reported, and never one that was reported to
\* be no GET or of another version than 1.0 and 1.1 (receive_parsed_request).  If
\* nobody cleared the settings since this thread did, method and version were
\* reported, and every piece of the URL (init_parser).
AcceptedRequest ==
  \A c \in Clients :
    pc[Client(c)] = "lookup" =>
      LET reported(callback) == Called(Client(c), got[Client(c)], callback)
      IN  /\ reported("on_message_complete")
          /\ reported("on_method_complete") => GoodMethod(c)
          /\ reported("on_version_complete") => GoodVersion(c)
          /\ ~disturbed[Client(c)] =>
               /\ GoodMethod(c) /\ GoodVersion(c)
               /\ \A i \in DOMAIN Events(Client(c)) :
                    Events(Client(c))[i] = "on_url" => i \in got[Client(c)]

\* A thread that will still use a descriptor has its own connection behind the
\* number, though numbers are used again (client_handler, server_handler); the
\* exception is a connect_via_host_name that returned a closed descriptor.
OwnDescriptors ==
  \A c \in Clients :
    /\ pc[Client(c)] \in Looking \cup {"init", "read", "parse", "close"} => Own(Client(c))
    /\ \/ pc[Client(c)] \in {"connect", "write", "abandon"}
       \/ pc[Server(c)] \in {"init", "read", "parse"}
       => Own(Server(c)) \/ dead[c]

\* Whichever way client_handler ends, its connection is closed, and so is the one
\* to the host if no server_handler was started.
ClientClosed ==
  \A c \in Clients, d \in Fds :
    /\ pc[Client(c)] = "done" => user[d] # Client(c)
    /\ pc[Client(c)] \in {"close", "done"} /\ pc[Server(c)] = "unborn" => user[d] # Server(c)

\* A thread whose peer sends the whole message leaves the parsing loop, unless
\* another thread clears the settings (while (parseStateMsg != MsgParsed)).
MessageEnds ==
  \A t \in Threads :
    pc[t] = "read" /\ whole[t] ~> pc[t] \notin {"read", "parse"} \/ disturbed[t] \/ fault # "none"

=============================================================================
