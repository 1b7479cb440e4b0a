--------------------------- MODULE ProxyCacheProofs ---------------------------
(***************************************************************************)
(* Proofs about ProxyCache, for every number of clients and URLs and every *)
(* bound.  Base is an inductive invariant that does not count references;  *)
(* RefCountExact is inductive relative to it; TypeOK and EntryLifecycle    *)
(* follow from the two.  Quiet holds until a pass of the collector releases*)
(* an entry, and gives NoFault; MappedUnlessReleased, whatever passes do,  *)
(* gives OneFetchPerUrl.  While no pass has begun, Quiet and Delivering,   *)
(* which says how far each client has got, give the implementation of      *)
(* SharedFetch.                                                            *)
(***************************************************************************)
EXTENDS ProxyDelivery, FiniteSetTheorems, TLAPS

-----------------------------------------------------------------------------
(* The inductive invariant *)

\* The size flag is never cleared, so nobody returns with entry->mutex locked.
NoAbandonedMutex == \A e \in Clients : fits[e] /\ emutex[e] = None

\* What the position of a client thread says about its locals.
Locals ==
  \A c \in Clients :
    /\ pc[c] \in {"recv", "lookup", "connect", "fetch"} => pair[c] = None /\ spc[c] = "none"
    /\ pc[c] \in {"recv", "lookup"} => life[c] = "unborn"
    /\ pc[c] = "recv" => url[c] = None
    /\ pc[c] \notin {"recv", "done"} => url[c] \in Urls

\* Nobody points to an entry that is not created yet, and it is as malloc'd.
UnbornUntouched ==
  \A e \in Clients :
    life[e] = "unborn" =>
      ref[e] = 0 /\ ~released[e] /\ gpair # e /\ \A c \in Clients : pair[c] # e

\* destroy_pair is reached only with an entry that was given up.
DestroysDoomed ==
  /\ gpc = "destroy" => gpair \in Clients /\ life[gpair] \in {"doomed", "freed"}
  /\ \A c \in Clients :
       pc[c] = "destroy" => pair[c] \in Clients /\ life[pair[c]] \in {"doomed", "freed"}

\* A pass has still to visit only URLs that are mapped.
TodoMapped ==
  /\ gpc = "idle" => todo = {}
  /\ \A u \in todo : cache[u] # None

Base ==
  /\ Types
  /\ NoAbandonedMutex
  /\ Locals
  /\ UnbornUntouched
  /\ DestroysDoomed
  /\ TodoMapped
  /\ MappedEntryLive

-----------------------------------------------------------------------------
\* Base holds initially.
LEMMA BaseInit == Init => Base
<1> SUFFICES ASSUME Init PROVE Base
  OBVIOUS
<1>1. Types
  <2>1. stale \in SUBSET Clients /\ gstale \in BOOLEAN /\ gpc \in GcPc
    BY DEF Init, GcPc
  <2>2. pc \in [Clients -> ClientPc] /\ spc \in [Clients -> ServerPc]
    BY DEF Init, ClientPc, ServerPc
  <2>3. rec \in [Clients -> 0..BufferSize]
    BY ProxyAssumption DEF Init
  <2>4. QED
    BY <2>1, <2>2, <2>3 DEF Init, Types
<1>2. NoAbandonedMutex /\ Locals /\ UnbornUntouched
  BY ProxyAssumption DEF Init, NoAbandonedMutex, Locals, UnbornUntouched
<1>3. DestroysDoomed /\ TodoMapped /\ MappedEntryLive
  BY ProxyAssumption DEF Init, DestroysDoomed, TodoMapped, MappedEntryLive
<1>4. QED
  BY <1>1, <1>2, <1>3 DEF Base

\* Every step of every thread preserves Base.
LEMMA BaseStep == Base /\ [Next]_vars => Base'
<1> SUFFICES ASSUME Base, [Next]_vars PROVE Base'
  OBVIOUS
<1> USE ProxyAssumption DEF Base, Types, NoAbandonedMutex, Locals, UnbornUntouched,
    DestroysDoomed, TodoMapped, MappedEntryLive, ClientPc, ServerPc, GcPc, entryVars,
    mapVars, clientVars, serverVars, gcVars, Goto, SGoto, CanLock, Usable
<1>1. ASSUME NEW c \in Clients, ClientReceive(c) PROVE Base'
  BY <1>1 DEF ClientReceive
<1>2. ASSUME NEW c \in Clients, ClientMiss(c) PROVE Base'
  BY <1>2 DEF ClientMiss, HashmapSet, PairHolders
<1>3. ASSUME NEW c \in Clients, ClientHit(c) PROVE Base'
  BY <1>3 DEF ClientHit
<1>4. ASSUME NEW c \in Clients, ClientConnect(c) PROVE Base'
  BY <1>4 DEF ClientConnect
<1>5. ASSUME NEW c \in Clients, ClientFetch(c) PROVE Base'
  BY <1>5 DEF ClientFetch
<1>6. ASSUME NEW c \in Clients, ClientAcquire(c) PROVE Base'
  BY <1>6 DEF ClientAcquire
<1>7. ASSUME NEW c \in Clients, ClientReadSize(c) PROVE Base'
  BY <1>7 DEF ClientReadSize
<1>8. ASSUME NEW c \in Clients, ClientTest(c) PROVE Base'
  BY <1>8 DEF ClientTest
<1>9. ASSUME NEW c \in Clients, ClientSpuriousWakeup(c) PROVE Base'
  BY <1>9 DEF ClientSpuriousWakeup
<1>10. ASSUME NEW c \in Clients, ClientWoken(c) PROVE Base'
  BY <1>10 DEF ClientWoken
<1>11. ASSUME NEW c \in Clients, ClientFlag(c) PROVE Base'
  BY <1>11 DEF ClientFlag
<1>12. ASSUME NEW c \in Clients, ClientSend(c) PROVE Base'
  BY <1>12 DEF ClientSend
<1>13. ASSUME NEW c \in Clients, ClientRelease(c) PROVE Base'
  <2>1. CASE ref[pair[c]] = 1
    <3>1. /\ pc[c] = "release" /\ pair[c] \in Clients
          /\ life[pair[c]] \notin {"freed", "unborn"}
      BY <1>13 DEF ClientRelease
    <3>2. /\ cache' = [cache EXCEPT ![url[pair[c]]] = None]
          /\ todo' \subseteq {u \in Urls \ {url[pair[c]]} : gpc # "idle" /\ cache[u] # None}
          /\ life' = [life EXCEPT ![pair[c]] = "doomed"]
          /\ stale' \in SUBSET Clients /\ gstale' \in BOOLEAN
      BY <1>13, <2>1 DEF ClientRelease, DropReference, HashmapDelete, PairHolders
    <3>3. /\ ref' = [ref EXCEPT ![pair[c]] = ref[pair[c]] - 1]
          /\ pc' = [pc EXCEPT ![c] = "destroy"]
          /\ towrite' = [towrite EXCEPT ![c] = 0] /\ written' = [written EXCEPT ![c] = 0]
          /\ UNCHANGED <<released, full, size, fits, emutex, url, pair, serverVars, gpc,
                         gpair, fault>>
      BY <1>13, <2>1, <3>1 DEF ClientRelease, DropReference
    <3>4. Types'
      <4>1. /\ cache' \in [Urls -> Clients \cup {None}] /\ todo' \in SUBSET Urls
            /\ stale' \in SUBSET Clients /\ gstale' \in BOOLEAN
        BY <3>2
      <4>2. /\ life' \in [Clients -> {"unborn", "live", "doomed", "freed"}]
            /\ ref' \in [Clients -> Int]
            /\ pc' \in [Clients -> ClientPc]
        BY <3>1, <3>2, <3>3
      <4>3. towrite' \in [Clients -> Nat] /\ written' \in [Clients -> Nat]
        BY <3>3
      <4>4. QED
        BY <3>3, <4>1, <4>2, <4>3
    <3>5. NoAbandonedMutex' /\ Locals'
      BY <3>1, <3>2, <3>3
    <3>6. UnbornUntouched' /\ DestroysDoomed'
      BY <3>1, <3>2, <3>3
    <3>7. TodoMapped' /\ MappedEntryLive'
      BY <3>1, <3>2, <3>3
    <3>8. QED
      BY <3>4, <3>5, <3>6, <3>7
  <2>2. CASE ref[pair[c]] # 1
    BY <1>13, <2>2 DEF ClientRelease, DropReference
  <2>3. QED
    BY <2>1, <2>2
<1>14. ASSUME NEW c \in Clients, ClientDestroy(c) PROVE Base'
  BY <1>14 DEF ClientDestroy
<1>15. ASSUME NEW c \in Clients, ClientFault(c) PROVE Base'
  BY <1>15 DEF ClientFault, PairFault, BadPair
<1>16. ASSUME NEW c \in Clients, ServerStart(c) PROVE Base'
  BY <1>16 DEF ServerStart
<1>17. ASSUME NEW c \in Clients, ServerAcquire(c) PROVE Base'
  BY <1>17 DEF ServerAcquire
<1>18. ASSUME NEW c \in Clients, ServerRead(c) PROVE Base'
  BY <1>18 DEF ServerRead, RecCounter
<1>19. ASSUME NEW c \in Clients, ServerFail(c) PROVE Base'
  BY <1>19 DEF ServerFail, ServerReturn
<1>20. ASSUME NEW c \in Clients, ServerAppend(c) PROVE Base'
  BY <1>20 DEF ServerAppend
<1>21. ASSUME NEW c \in Clients, ServerBroadcast(c) PROVE Base'
  BY <1>21 DEF ServerBroadcast
<1>22. ASSUME NEW c \in Clients, ServerFinish(c) PROVE Base'
  BY <1>22 DEF ServerFinish, ServerReturn
<1>23. ASSUME NEW c \in Clients, ServerFault(c) PROVE Base'
  BY <1>23 DEF ServerFault, PairFault, BadPair
<1>24. CASE GcWake
  BY <1>24 DEF GcWake
<1>25. CASE GcNext
  <2>1. PICK u \in todo : gpair' = cache[u] /\ todo' = todo \ {u}
    BY <1>25 DEF GcNext
  <2>2. /\ gpc' = "collect" /\ gstale' = FALSE
        /\ UNCHANGED <<cache, stale, entryVars, clientVars, serverVars, fault>>
    BY <1>25 DEF GcNext
  <2>3. gpair' \in Clients /\ life[gpair'] = "live"
    BY <2>1
  <2>4. Types'
    BY <2>1, <2>2, <2>3
  <2>5. NoAbandonedMutex' /\ Locals' /\ UnbornUntouched'
    BY <2>2, <2>3
  <2>6. DestroysDoomed' /\ TodoMapped' /\ MappedEntryLive'
    BY <2>1, <2>2
  <2>7. QED
    BY <2>4, <2>5, <2>6
<1>26. CASE GcCollect
  <2>1. gpair \in Clients /\ life[gpair] \notin {"freed", "unborn"}
    BY <1>26 DEF GcCollect
  <2>2. CASE released[gpair]
    BY <1>26, <2>1, <2>2 DEF GcCollect, GcContinue
  <2>3. CASE ~released[gpair] /\ ref[gpair] = 1
    <3>1. /\ cache' = [cache EXCEPT ![url[gpair]] = None]
          /\ todo' \subseteq {u \in Urls \ {url[gpair]} : gpc # "idle" /\ cache[u] # None}
          /\ life' = [life EXCEPT ![gpair] = "doomed"]
          /\ stale' \in SUBSET Clients /\ gstale' \in BOOLEAN
      BY <1>26, <2>3 DEF GcCollect, DropReference, HashmapDelete, PairHolders
    <3>2. /\ ref' = [ref EXCEPT ![gpair] = ref[gpair] - 1]
          /\ released' = [released EXCEPT ![gpair] = TRUE]
          /\ gpc' = "destroy"
          /\ UNCHANGED <<gpair, full, size, fits, emutex, clientVars, serverVars, fault>>
      BY <1>26, <2>3 DEF GcCollect, DropReference
    <3>3. Types'
      <4>1. /\ cache' \in [Urls -> Clients \cup {None}] /\ todo' \in SUBSET Urls
            /\ stale' \in SUBSET Clients /\ gstale' \in BOOLEAN
        BY <3>1
      <4>2. /\ life' \in [Clients -> {"unborn", "live", "doomed", "freed"}]
            /\ ref' \in [Clients -> Int]
            /\ released' \in [Clients -> BOOLEAN]
        BY <2>1, <3>1, <3>2
      <4>3. QED
        BY <3>2, <4>1, <4>2
    <3>4. NoAbandonedMutex' /\ Locals'
      BY <2>1, <3>1, <3>2
    <3>5. UnbornUntouched' /\ DestroysDoomed'
      BY <2>1, <3>1, <3>2
    <3>6. TodoMapped' /\ MappedEntryLive'
      BY <2>1, <3>1, <3>2
    <3>7. QED
      BY <3>3, <3>4, <3>5, <3>6
  <2>4. CASE ~released[gpair] /\ ref[gpair] # 1
    <3>1. /\ ref' = [ref EXCEPT ![gpair] = ref[gpair] - 1]
          /\ released' = [released EXCEPT ![gpair] = TRUE]
          /\ gpc' = "next" /\ gpair' = None
          /\ UNCHANGED <<life, mapVars, todo, full, size, fits, emutex, clientVars,
                         serverVars, fault>>
      BY <1>26, <2>4 DEF GcCollect, DropReference, GcContinue
    <3>2. QED
      BY <2>1, <3>1
  <2>5. QED
    BY <2>2, <2>3, <2>4
<1>27. CASE GcDestroy
  BY <1>27 DEF GcDestroy, GcContinue
<1>28. CASE GcSleep
  BY <1>28 DEF GcSleep
<1>29. CASE GcFault
  BY <1>29 DEF GcFault, BadPair
<1>30. CASE UNCHANGED vars
  BY <1>30 DEF vars
<1> HIDE DEF Base
<1>31. QED
  BY <1>1, <1>2, <1>3, <1>4, <1>5, <1>6, <1>7, <1>8, <1>9, <1>10, <1>11, <1>12, <1>13,
     <1>14, <1>15, <1>16, <1>17, <1>18, <1>19, <1>20, <1>21, <1>22, <1>23, <1>24, <1>25,
     <1>26, <1>27, <1>28, <1>29, <1>30
     DEF Next, Step, Halted, Collector, ClientLookup, ClientInternal, ClientExternal,
         ServerInternal, ServerExternal

\* The conjuncts of Base hold in every reachable state.
THEOREM BaseCorrect == Spec => []Base
  BY BaseInit, BaseStep, PTL DEF Spec

\* No thread ever returns with entry->mutex locked: the return that would do it
\* is never taken.
THEOREM MutexCorrect == Spec => []NoAbandonedMutex
<1>1. Base => NoAbandonedMutex
  BY DEF Base
<1>2. QED
  BY <1>1, BaseCorrect, PTL

-----------------------------------------------------------------------------
(* Reference counting *)

\* What is counted is a set of clients, whose cardinality moves by one.
LEMMA SubsetCount ==
  ASSUME NEW S \in SUBSET Clients
  PROVE  /\ Cardinality(S) \in Nat
         /\ Cardinality(S) = 0 <=> S = {}
         /\ \A c \in Clients \ S : Cardinality(S \cup {c}) = Cardinality(S) + 1
         /\ \A c \in S : Cardinality(S \ {c}) = Cardinality(S) - 1
<1>1. IsFiniteSet(S)
  BY ProxyAssumption, FS_Subset
<1>2. QED
  BY <1>1, FS_CardinalityType, FS_EmptySet, FS_AddElement, FS_RemoveElement

\* The counted regions are sets of clients.
LEMMA CountedSubsets ==
  /\ ClientsCounted \in [Clients -> SUBSET Clients]
  /\ ServersCounted \in [Clients -> SUBSET Clients]
  BY DEF ClientsCounted, ServersCounted

\* A step that moves nobody into or out of the counted regions.
LEMMA CountUnchanged ==
  ASSUME RefCountExact, UNCHANGED <<ref, released>>,
         \A e \in Clients :
           /\ life'[e] # "unborn" => life[e] # "unborn"
           /\ ClientsCounted'[e] = ClientsCounted[e]
           /\ ServersCounted'[e] = ServersCounted[e]
  PROVE  RefCountExact'
  BY DEF RefCountExact

\* What RefCountExact compares entry e's counter with.
Counted ==
  [e \in Clients |-> (IF released[e] THEN 0 ELSE 1)
                       + Cardinality(ClientsCounted[e]) + Cardinality(ServersCounted[e])]

\* A client enters or leaves the counted region of entry e, on either side.
LEMMA ClientCountMoves ==
  ASSUME NEW e \in Clients, NEW c \in Clients,
         ServersCounted'[e] = ServersCounted[e], released'[e] = released[e]
  PROVE  /\ c \notin ClientsCounted[e] /\ ClientsCounted'[e] = ClientsCounted[e] \cup {c}
              => Counted'[e] = Counted[e] + 1
         /\ c \in ClientsCounted[e] /\ ClientsCounted'[e] = ClientsCounted[e] \ {c}
              => Counted'[e] = Counted[e] - 1
<1>1. CASE c \notin ClientsCounted[e]
  BY <1>1, SubsetCount, CountedSubsets DEF Counted
<1>2. CASE c \in ClientsCounted[e]
  BY <1>2, SubsetCount, CountedSubsets DEF Counted
<1>3. QED
  BY <1>1, <1>2

\* The same for the fetches.
LEMMA ServerCountMoves ==
  ASSUME NEW e \in Clients, NEW c \in Clients,
         ClientsCounted'[e] = ClientsCounted[e], released'[e] = released[e]
  PROVE  /\ c \notin ServersCounted[e] /\ ServersCounted'[e] = ServersCounted[e] \cup {c}
              => Counted'[e] = Counted[e] + 1
         /\ c \in ServersCounted[e] /\ ServersCounted'[e] = ServersCounted[e] \ {c}
              => Counted'[e] = Counted[e] - 1
<1>1. CASE c \notin ServersCounted[e]
  BY <1>1, SubsetCount, CountedSubsets DEF Counted
<1>2. CASE c \in ServersCounted[e]
  BY <1>2, SubsetCount, CountedSubsets DEF Counted
<1>3. QED
  BY <1>1, <1>2

\* A step after which the counter of e and what is counted for e agree again.
LEMMA CountMoved ==
  ASSUME RefCountExact, NEW e \in Clients, life[e] # "unborn",
         ref[e] = Counted[e] => ref'[e] = Counted'[e],
         \A d \in Clients : life'[d] # "unborn" => life[d] # "unborn",
         \A d \in Clients \ {e} : ref'[d] = ref[d],
         \A d \in Clients \ {e} : Counted'[d] = Counted[d]
  PROVE  RefCountExact'
<1>1. \A d \in Clients : life[d] # "unborn" => ref[d] = Counted[d]
  BY DEF RefCountExact, Counted
<1>2. \A d \in Clients : life'[d] # "unborn" => ref'[d] = Counted'[d]
  BY <1>1
<1>3. QED
  BY <1>2 DEF RefCountExact, Counted

\* No entry exists initially.
LEMMA RefCountInit == Init => RefCountExact
  BY DEF Init, RefCountExact

\* Every step that moves a thread into or out of a counted region moves the
\* counter with it.
LEMMA RefCountStep == Base /\ Base' /\ RefCountExact /\ [Next]_vars => RefCountExact'
<1> SUFFICES ASSUME Base, Base', RefCountExact, [Next]_vars PROVE RefCountExact'
  OBVIOUS
<1> USE DEF Base, Types, mapVars, entryVars, clientVars, serverVars, gcVars, Goto, SGoto, CanLock,
    Usable
<1>1. ASSUME NEW c \in Clients, ClientReceive(c) PROVE RefCountExact'
  BY <1>1, CountUnchanged, ProxyAssumption DEF ClientReceive, ClientsCounted, ServersCounted, Locals
<1>2. ASSUME NEW c \in Clients, ClientHit(c) PROVE RefCountExact'
  BY <1>2, CountUnchanged, ProxyAssumption DEF ClientHit, ClientsCounted, ServersCounted, Locals
<1>3. ASSUME NEW c \in Clients, ClientConnect(c) PROVE RefCountExact'
  BY <1>3, CountUnchanged, ProxyAssumption DEF ClientConnect, ClientsCounted, ServersCounted, Locals
<1>4. ASSUME NEW c \in Clients, ClientFetch(c) PROVE RefCountExact'
  BY <1>4, CountUnchanged, ProxyAssumption DEF ClientFetch, ClientsCounted, ServersCounted, Locals
<1>5. ASSUME NEW c \in Clients, ClientReadSize(c) PROVE RefCountExact'
  BY <1>5, CountUnchanged, ProxyAssumption DEF ClientReadSize, ClientsCounted, ServersCounted, Locals
<1>6. ASSUME NEW c \in Clients, ClientTest(c) PROVE RefCountExact'
  BY <1>6, CountUnchanged, ProxyAssumption DEF ClientTest, ClientsCounted, ServersCounted, Locals
<1>7. ASSUME NEW c \in Clients, ClientSpuriousWakeup(c) PROVE RefCountExact'
  BY <1>7, CountUnchanged, ProxyAssumption DEF ClientSpuriousWakeup, ClientsCounted, ServersCounted, Locals
<1>8. ASSUME NEW c \in Clients, ClientWoken(c) PROVE RefCountExact'
  BY <1>8, CountUnchanged, ProxyAssumption DEF ClientWoken, ClientsCounted, ServersCounted, Locals, NoAbandonedMutex
<1>9. ASSUME NEW c \in Clients, ClientFlag(c) PROVE RefCountExact'
  BY <1>9, CountUnchanged, ProxyAssumption DEF ClientFlag, ClientsCounted, ServersCounted, Locals
<1>10. ASSUME NEW c \in Clients, ClientSend(c) PROVE RefCountExact'
  BY <1>10, CountUnchanged, ProxyAssumption DEF ClientSend, ClientsCounted, ServersCounted, Locals
<1>11. ASSUME NEW c \in Clients, ClientDestroy(c) PROVE RefCountExact'
  <2>1. \A e \in Clients : /\ ClientsCounted'[e] = ClientsCounted[e]
                           /\ ServersCounted'[e] = ServersCounted[e]
    BY <1>11 DEF ClientDestroy, ClientsCounted, ServersCounted
  <2>2. UNCHANGED <<ref, released>>
    BY <1>11 DEF ClientDestroy
  <2>3. \A e \in Clients : life'[e] # "unborn" => life[e] # "unborn"
    BY <1>11 DEF ClientDestroy, DestroysDoomed
  <2>4. QED
    BY <2>1, <2>2, <2>3, CountUnchanged
<1>12. ASSUME NEW c \in Clients, ClientFault(c) PROVE RefCountExact'
  BY <1>12, CountUnchanged, ProxyAssumption DEF ClientFault, PairFault, ClientsCounted, ServersCounted, Locals, BadPair
<1>13. ASSUME NEW c \in Clients, ServerStart(c) PROVE RefCountExact'
  BY <1>13, CountUnchanged, ProxyAssumption DEF ServerStart, ClientsCounted, ServersCounted, Locals
<1>14. ASSUME NEW c \in Clients, ServerRead(c) PROVE RefCountExact'
  BY <1>14, CountUnchanged, ProxyAssumption DEF ServerRead, ClientsCounted, ServersCounted, Locals, RecCounter
<1>15. ASSUME NEW c \in Clients, ServerAppend(c) PROVE RefCountExact'
  BY <1>15, CountUnchanged, ProxyAssumption DEF ServerAppend, ClientsCounted, ServersCounted, Locals
<1>16. ASSUME NEW c \in Clients, ServerBroadcast(c) PROVE RefCountExact'
  BY <1>16, CountUnchanged, ProxyAssumption DEF ServerBroadcast, ClientsCounted, ServersCounted, Locals
<1>17. ASSUME NEW c \in Clients, ServerFault(c) PROVE RefCountExact'
  BY <1>17, CountUnchanged, ProxyAssumption DEF ServerFault, PairFault, ClientsCounted, ServersCounted, Locals, BadPair
<1>18. CASE GcWake
  BY <1>18, CountUnchanged DEF GcWake, ClientsCounted, ServersCounted, DestroysDoomed
<1>19. CASE GcNext
  BY <1>19, CountUnchanged DEF GcNext, ClientsCounted, ServersCounted, DestroysDoomed
<1>20. CASE GcDestroy
  BY <1>20, CountUnchanged DEF GcDestroy, ClientsCounted, ServersCounted, DestroysDoomed, GcContinue
<1>21. CASE GcSleep
  BY <1>21, CountUnchanged DEF GcSleep, ClientsCounted, ServersCounted, DestroysDoomed
<1>22. CASE GcFault
  BY <1>22, CountUnchanged DEF GcFault, ClientsCounted, ServersCounted, DestroysDoomed, BadPair
<1>23. CASE UNCHANGED vars
  BY <1>23, CountUnchanged DEF vars, ClientsCounted, ServersCounted
<1>24. ASSUME NEW c \in Clients, ClientMiss(c) PROVE RefCountExact'
  <2>1. ClientsCounted'[c] = {} /\ ServersCounted'[c] = {}
    BY <1>24 DEF ClientMiss, HashmapSet, ClientsCounted, ServersCounted, Locals, UnbornUntouched
  <2>2. \A e \in Clients \ {c} :
          /\ ClientsCounted'[e] = ClientsCounted[e] /\ ServersCounted'[e] = ServersCounted[e]
          /\ life'[e] = life[e] /\ ref'[e] = ref[e] /\ released'[e] = released[e]
    BY <1>24 DEF ClientMiss, HashmapSet, ClientsCounted, ServersCounted, Locals
  <2>3. ref'[c] = 1 /\ ~released'[c]
    BY <1>24 DEF ClientMiss, HashmapSet, Locals, UnbornUntouched
  <2>4. Counted'[c] = 1
    <3>1. Cardinality({}) = 0
      BY FS_EmptySet
    <3>2. /\ Cardinality(ClientsCounted'[c]) = 0 /\ Cardinality(ServersCounted'[c]) = 0
      BY <2>1, <3>1
    <3>3. QED
      BY <2>3, <3>2 DEF Counted
  <2>5. \A e \in Clients \ {c} : Counted'[e] = Counted[e]
    BY <2>2 DEF Counted
  <2>6. \A e \in Clients : life'[e] # "unborn" => ref'[e] = Counted'[e]
    <3>1. \A e \in Clients : life[e] # "unborn" => ref[e] = Counted[e]
      BY DEF RefCountExact, Counted
    <3>2. QED
      BY <2>2, <2>3, <2>4, <2>5, <3>1
  <2>7. QED
    BY <2>6 DEF RefCountExact, Counted
<1>25. ASSUME NEW c \in Clients, ClientAcquire(c) PROVE RefCountExact'
  <2>1. PICK e \in Clients : e = pair[c] /\ life[e] # "unborn"
    BY <1>25 DEF ClientAcquire, UnbornUntouched
  <2>2. /\ c \notin ClientsCounted[e]
        /\ ClientsCounted'[e] = ClientsCounted[e] \cup {c}
    BY <1>25, <2>1 DEF ClientAcquire, ClientsCounted, NoAbandonedMutex
  <2>3. /\ ServersCounted'[e] = ServersCounted[e]
        /\ \A d \in Clients \ {e} : ClientsCounted'[d] = ClientsCounted[d]
        /\ \A d \in Clients \ {e} : ServersCounted'[d] = ServersCounted[d]
    BY <1>25, <2>1 DEF ClientAcquire, ClientsCounted, ServersCounted, NoAbandonedMutex
  <2>4. /\ ref'[e] = ref[e] + 1
        /\ \A d \in Clients \ {e} : ref'[d] = ref[d]
        /\ released' = released
        /\ \A d \in Clients : life'[d] # "unborn" => life[d] # "unborn"
    BY <1>25, <2>1 DEF ClientAcquire, NoAbandonedMutex, NoAbandonedMutex, DropReference
  <2>5. Counted'[e] = Counted[e] + 1
    BY <2>1, <2>2, <2>3, <2>4, ClientCountMoves
  <2>6. \A d \in Clients \ {e} : Counted'[d] = Counted[d]
    BY <2>3, <2>4 DEF Counted
  <2>7. QED
    BY <2>1, <2>4, <2>5, <2>6, CountMoved
<1>26. ASSUME NEW c \in Clients, ClientRelease(c) PROVE RefCountExact'
  <2>1. PICK e \in Clients : e = pair[c] /\ life[e] # "unborn"
    BY <1>26 DEF ClientRelease, UnbornUntouched
  <2>2. /\ c \in ClientsCounted[e]
        /\ ClientsCounted'[e] = ClientsCounted[e] \ {c}
    BY <1>26, <2>1 DEF ClientRelease, ClientsCounted
  <2>3. /\ ServersCounted'[e] = ServersCounted[e]
        /\ \A d \in Clients \ {e} : ClientsCounted'[d] = ClientsCounted[d]
        /\ \A d \in Clients \ {e} : ServersCounted'[d] = ServersCounted[d]
    BY <1>26, <2>1 DEF ClientRelease, ClientsCounted, ServersCounted
  <2>4. /\ ref'[e] = ref[e] - 1
        /\ \A d \in Clients \ {e} : ref'[d] = ref[d]
        /\ released' = released
        /\ \A d \in Clients : life'[d] # "unborn" => life[d] # "unborn"
    BY <1>26, <2>1 DEF ClientRelease, NoAbandonedMutex, DropReference
  <2>5. Counted'[e] = Counted[e] - 1
    BY <2>1, <2>2, <2>3, <2>4, ClientCountMoves
  <2>6. \A d \in Clients \ {e} : Counted'[d] = Counted[d]
    BY <2>3, <2>4 DEF Counted
  <2>7. QED
    BY <2>1, <2>4, <2>5, <2>6, CountMoved
<1>27. ASSUME NEW c \in Clients, ServerAcquire(c) PROVE RefCountExact'
  <2>1. PICK e \in Clients : e = pair[c] /\ life[e] # "unborn"
    BY <1>27 DEF ServerAcquire, UnbornUntouched
  <2>2. /\ c \notin ServersCounted[e]
        /\ ServersCounted'[e] = ServersCounted[e] \cup {c}
    BY <1>27, <2>1 DEF ServerAcquire, ServersCounted
  <2>3. /\ ClientsCounted'[e] = ClientsCounted[e]
        /\ \A d \in Clients \ {e} : ClientsCounted'[d] = ClientsCounted[d]
        /\ \A d \in Clients \ {e} : ServersCounted'[d] = ServersCounted[d]
    BY <1>27, <2>1 DEF ServerAcquire, ClientsCounted, ServersCounted
  <2>4. /\ ref'[e] = ref[e] + 1
        /\ \A d \in Clients \ {e} : ref'[d] = ref[d]
        /\ released' = released
        /\ \A d \in Clients : life'[d] # "unborn" => life[d] # "unborn"
    BY <1>27, <2>1 DEF ServerAcquire, NoAbandonedMutex, DropReference
  <2>5. Counted'[e] = Counted[e] + 1
    BY <2>1, <2>2, <2>3, <2>4, ServerCountMoves
  <2>6. \A d \in Clients \ {e} : Counted'[d] = Counted[d]
    BY <2>3, <2>4 DEF Counted
  <2>7. QED
    BY <2>1, <2>4, <2>5, <2>6, CountMoved
<1>28. ASSUME NEW c \in Clients, ServerFail(c) PROVE RefCountExact'
  <2>1. PICK e \in Clients : e = pair[c] /\ life[e] # "unborn"
    BY <1>28 DEF ServerFail, UnbornUntouched
  <2>2. /\ c \in ServersCounted[e]
        /\ ServersCounted'[e] = ServersCounted[e] \ {c}
    BY <1>28, <2>1 DEF ServerFail, ServersCounted, ServerReturn
  <2>3. /\ ClientsCounted'[e] = ClientsCounted[e]
        /\ \A d \in Clients \ {e} : ClientsCounted'[d] = ClientsCounted[d]
        /\ \A d \in Clients \ {e} : ServersCounted'[d] = ServersCounted[d]
    BY <1>28, <2>1 DEF ServerFail, ClientsCounted, ServersCounted, ServerReturn
  <2>4. /\ ref'[e] = ref[e] - 1
        /\ \A d \in Clients \ {e} : ref'[d] = ref[d]
        /\ released' = released
        /\ \A d \in Clients : life'[d] # "unborn" => life[d] # "unborn"
    BY <1>28, <2>1 DEF ServerFail, ServerReturn, NoAbandonedMutex, DropReference
  <2>5. Counted'[e] = Counted[e] - 1
    BY <2>1, <2>2, <2>3, <2>4, ServerCountMoves
  <2>6. \A d \in Clients \ {e} : Counted'[d] = Counted[d]
    BY <2>3, <2>4 DEF Counted
  <2>7. QED
    BY <2>1, <2>4, <2>5, <2>6, CountMoved
<1>29. ASSUME NEW c \in Clients, ServerFinish(c) PROVE RefCountExact'
  <2>1. PICK e \in Clients : e = pair[c] /\ life[e] # "unborn"
    BY <1>29 DEF ServerFinish, UnbornUntouched
  <2>2. /\ c \in ServersCounted[e]
        /\ ServersCounted'[e] = ServersCounted[e] \ {c}
    BY <1>29, <2>1 DEF ServerFinish, ServersCounted, ServerReturn
  <2>3. /\ ClientsCounted'[e] = ClientsCounted[e]
        /\ \A d \in Clients \ {e} : ClientsCounted'[d] = ClientsCounted[d]
        /\ \A d \in Clients \ {e} : ServersCounted'[d] = ServersCounted[d]
    BY <1>29, <2>1 DEF ServerFinish, ClientsCounted, ServersCounted, ServerReturn
  <2>4. /\ ref'[e] = ref[e] - 1
        /\ \A d \in Clients \ {e} : ref'[d] = ref[d]
        /\ released' = released
        /\ \A d \in Clients : life'[d] # "unborn" => life[d] # "unborn"
    BY <1>29, <2>1 DEF ServerFinish, ServerReturn, NoAbandonedMutex, DropReference
  <2>5. Counted'[e] = Counted[e] - 1
    BY <2>1, <2>2, <2>3, <2>4, ServerCountMoves
  <2>6. \A d \in Clients \ {e} : Counted'[d] = Counted[d]
    BY <2>3, <2>4 DEF Counted
  <2>7. QED
    BY <2>1, <2>4, <2>5, <2>6, CountMoved
<1>30. CASE GcCollect
  <2>1. PICK e \in Clients : e = gpair /\ life[e] # "unborn"
    BY <1>30 DEF GcCollect, UnbornUntouched
  <2>2. /\ \A d \in Clients : ClientsCounted'[d] = ClientsCounted[d]
        /\ \A d \in Clients : ServersCounted'[d] = ServersCounted[d]
    BY <1>30 DEF GcCollect, ClientsCounted, ServersCounted
  <2>3. \A d \in Clients : life'[d] # "unborn" => life[d] # "unborn"
    BY <1>30, <2>1 DEF GcCollect, DropReference
  <2>4. CASE released[e]
    <3>1. UNCHANGED <<ref, released>>
      BY <1>30, <2>1, <2>4 DEF GcCollect
    <3>2. QED
      BY <2>2, <2>3, <3>1, CountUnchanged
  <2>5. CASE ~released[e]
    <3>1. /\ ref'[e] = ref[e] - 1
          /\ \A d \in Clients \ {e} : ref'[d] = ref[d]
          /\ released'[e]
          /\ \A d \in Clients \ {e} : released'[d] = released[d]
      BY <1>30, <2>1, <2>5 DEF GcCollect, DropReference
    <3>2. Counted'[e] = Counted[e] - 1
      <4>1. /\ Cardinality(ClientsCounted[e]) \in Nat
            /\ Cardinality(ServersCounted[e]) \in Nat
        BY <2>1, SubsetCount, CountedSubsets
      <4>2. /\ ClientsCounted'[e] = ClientsCounted[e]
            /\ ServersCounted'[e] = ServersCounted[e]
        BY <2>1, <2>2
      <4>3. QED
        BY <2>1, <2>5, <3>1, <4>1, <4>2 DEF Counted
    <3>3. \A d \in Clients \ {e} : Counted'[d] = Counted[d]
      BY <2>2, <3>1 DEF Counted
    <3>4. QED
      BY <2>1, <2>3, <3>1, <3>2, <3>3, CountMoved
  <2>6. QED
    BY <2>4, <2>5
<1>31. QED
  BY <1>1, <1>2, <1>3, <1>4, <1>5, <1>6, <1>7, <1>8, <1>9, <1>10, <1>11, <1>12, <1>13, <1>14, <1>15, <1>16, <1>17, <1>18, <1>19, <1>20, <1>21, <1>22, <1>23, <1>24, <1>25, <1>26, <1>27, <1>28, <1>29, <1>30
  DEF Next, Step, Halted, Collector, ClientLookup, ClientInternal, ClientExternal,
      ServerInternal, ServerExternal

\* The reference counter is exact at every moment, whatever the interleaving of
\* clients, fetches and collector passes.
THEOREM RefCountCorrect == Spec => []RefCountExact
<1>1. Init => RefCountExact
  BY RefCountInit
<1>2. QED
  BY <1>1, BaseCorrect, RefCountStep, PTL DEF Spec

\* Every variable has its type; the reference counters never wrap.
THEOREM TypeCorrect == Spec => []TypeOK
<1>1. Base /\ RefCountExact => TypeOK
  <2> SUFFICES ASSUME Base, RefCountExact, NEW e \in Clients PROVE ref[e] >= 0
    BY DEF Base, TypeOK
  <2>1. CASE life[e] = "unborn"
    BY <2>1 DEF Base, UnbornUntouched
  <2>2. CASE life[e] # "unborn"
    <3>1. ref[e] = (IF released[e] THEN 0 ELSE 1)
                     + Cardinality(ClientsCounted[e]) + Cardinality(ServersCounted[e])
      BY <2>2 DEF RefCountExact
    <3>2. /\ Cardinality(ClientsCounted[e]) \in Nat
          /\ Cardinality(ServersCounted[e]) \in Nat
      BY SubsetCount, CountedSubsets
    <3>3. QED
      BY <3>1, <3>2
  <2>3. QED
    BY <2>1, <2>2
<1>2. QED
  BY <1>1, BaseCorrect, RefCountCorrect, PTL

\* A lookup never returns an entry that is given up or freed.
THEOREM MappedCorrect == Spec => []MappedEntryLive
<1>1. Base => MappedEntryLive
  BY DEF Base
<1>2. QED
  BY <1>1, BaseCorrect, PTL

-----------------------------------------------------------------------------
(* The life of an entry *)

ZeroMeansUncounted ==
  \A e \in Clients : life[e] # "unborn" /\ ref[e] = 0 =>
                       ClientsCounted[e] = {} /\ ServersCounted[e] = {}

\* An exact counter that is zero counts nobody.
LEMMA ZeroCorrect == RefCountExact => ZeroMeansUncounted
<1> SUFFICES ASSUME RefCountExact, NEW e \in Clients, life[e] # "unborn", ref[e] = 0
             PROVE  ClientsCounted[e] = {} /\ ServersCounted[e] = {}
  BY DEF ZeroMeansUncounted
<1>1. ClientsCounted[e] \in SUBSET Clients /\ ServersCounted[e] \in SUBSET Clients
  BY CountedSubsets
<1>2. Cardinality(ClientsCounted[e]) = 0 /\ Cardinality(ServersCounted[e]) = 0
  BY <1>1, SubsetCount DEF RefCountExact
<1>3. QED
  BY <1>1, <1>2, SubsetCount

\* Only an insertion, a decrement to zero and destroy_pair change life.
LEMMA LifeStepHolds == Base /\ ZeroMeansUncounted' /\ [Next]_vars => LifeStep
<1> SUFFICES ASSUME Base, ZeroMeansUncounted', [Next]_vars PROVE LifeStep
  OBVIOUS
<1> USE DEF Base, Types, mapVars, entryVars, CanLock, Usable, LifeStep
<1>1. ASSUME NEW c \in Clients, ClientMiss(c) PROVE LifeStep
  BY <1>1 DEF ClientMiss, HashmapSet, Locals
<1>2. ASSUME NEW c \in Clients, ClientRelease(c) PROVE LifeStep
  <2>1. PICK e \in Clients : e = pair[c] /\ life[e] \notin {"unborn", "freed"}
    BY <1>2 DEF ClientRelease, UnbornUntouched
  <2>2. CASE ref[e] = 1
    BY <1>2, <2>1, <2>2 DEF ClientRelease, DropReference, ZeroMeansUncounted
  <2>3. CASE ref[e] # 1
    BY <1>2, <2>1, <2>3 DEF ClientRelease, DropReference
  <2>4. QED
    BY <2>2, <2>3
<1>3. ASSUME NEW c \in Clients, ClientDestroy(c) PROVE LifeStep
  BY <1>3 DEF ClientDestroy, DestroysDoomed
<1>4. CASE GcCollect
  <2>1. PICK e \in Clients : e = gpair /\ life[e] \notin {"unborn", "freed"}
    BY <1>4 DEF GcCollect, UnbornUntouched
  <2>2. CASE ref[e] = 1 /\ ~released[e]
    BY <1>4, <2>1, <2>2 DEF GcCollect, DropReference, ZeroMeansUncounted
  <2>3. CASE ref[e] # 1 \/ released[e]
    BY <1>4, <2>1, <2>3 DEF GcCollect, DropReference
  <2>4. QED
    BY <2>2, <2>3
<1>5. CASE GcDestroy
  BY <1>5 DEF GcDestroy, DestroysDoomed
<1>6. ASSUME NEW c \in Clients, ClientHit(c) \/ ClientFetch(c) PROVE LifeStep
  BY <1>6 DEF ClientHit, ClientFetch
<1>7. ASSUME NEW c \in Clients, ClientExternal(c) PROVE LifeStep
  BY <1>7 DEF ClientExternal, ClientReceive, ClientConnect, ClientSend,
                ClientSpuriousWakeup
<1>8. ASSUME NEW c \in Clients, \/ ClientAcquire(c) \/ ClientReadSize(c) \/ ClientTest(c)
                                \/ ClientWoken(c) \/ ClientFlag(c) \/ ClientFault(c) PROVE LifeStep
  BY <1>8 DEF ClientAcquire, ClientReadSize, ClientTest, ClientWoken, ClientFlag,
                ClientFault
<1>9. ASSUME NEW c \in Clients, ServerInternal(c) PROVE LifeStep
  BY <1>9 DEF ServerInternal, ServerStart, ServerAcquire, ServerAppend, ServerBroadcast,
                ServerFinish, ServerFault
<1>10. ASSUME NEW c \in Clients, ServerExternal(c) PROVE LifeStep
  BY <1>10 DEF ServerExternal, ServerRead, ServerFail
<1>11. CASE GcWake \/ GcNext \/ GcSleep \/ GcFault
  BY <1>11 DEF GcWake, GcNext, GcSleep, GcFault
<1>12. CASE UNCHANGED vars
  BY <1>12 DEF vars
<1>13. QED
  BY <1>1, <1>2, <1>3, <1>4, <1>5, <1>6, <1>7, <1>8, <1>9, <1>10, <1>11, <1>12
  DEF Next, Step, Halted, Collector, ClientLookup, ClientInternal

\* An entry is given up with no thread counting it and freed at most once.
THEOREM LifecycleCorrect == Spec => EntryLifecycle
<1>1. Base /\ ZeroMeansUncounted' /\ [Next]_vars => [LifeStep]_vars
  BY LifeStepHolds
<1>2. QED
  BY <1>1, BaseCorrect, RefCountCorrect, ZeroCorrect, PTL DEF Spec, EntryLifecycle

-----------------------------------------------------------------------------
(* Before a pass has dropped the map's reference of any entry *)

NoneReleased == \A e \in Clients : ~released[e]

\* Then every entry is mapped and counted by the map, so whatever a thread found
\* by a lookup remains usable.
MapKeepsEntries ==
  /\ NoneReleased
  /\ gpc # "destroy" /\ (gpc = "collect" => gpair # None)
  /\ \A e \in Clients :
       /\ life[e] \in {"unborn", "live"}
       /\ life[e] = "live" => url[e] \in Urls /\ cache[url[e]] = e
  /\ \A c \in Clients :
       /\ pc[c] \in {"connect", "fetch"} => life[c] = "live"
       /\ pc[c] \notin {"recv", "lookup", "connect", "fetch", "done"} => pair[c] # None
       /\ pc[c] # "destroy"

\* A fetch fills the entry of the client that started it, and that client waits
\* for content at least until the fetch has read args.
FetchOwnEntry ==
  \A c \in Clients :
    /\ spc[c] # "none" => pair[c] = c /\ life[c] = "live"
    /\ spc[c] = "none" => size[c] = 0 /\ ~full[c]
    /\ pc[c] \in {"recv", "lookup", "connect", "fetch"} => written[c] = 0 /\ towrite[c] = 0
    /\ spc[c] = "created" =>
         /\ size[c] = 0 /\ ~full[c] /\ written[c] = 0 /\ towrite[c] = 0
         /\ pc[c] \in {"acquire", "size", "test", "wait", "woken"}

\* The map moves an element only to insert one for another URL, and this is all
\* that can go wrong.
MovedOnly ==
  /\ ~gstale
  /\ stale # {} => SeveralUrls
  /\ fault = "none" \/ (SeveralUrls /\ fault = "moved")

Quiet == MapKeepsEntries /\ FetchOwnEntry /\ MovedOnly

\* Initially nothing is mapped and nothing is fetched.
LEMMA QuietInit == Init => Quiet
  BY DEF Init, Quiet, NoneReleased, MapKeepsEntries, FetchOwnEntry, MovedOnly

\* A request is made once, and a release by the collector is never undone.
LEMMA ForEver ==
  Base /\ [Next]_vars =>
    /\ SeveralUrls => SeveralUrls'
    /\ \A e \in Clients : released[e] => released'[e]
<1> SUFFICES ASSUME Base, [Next]_vars
             PROVE  /\ SeveralUrls => SeveralUrls'
                    /\ \A e \in Clients : released[e] => released'[e]
  OBVIOUS
<1> USE DEF entryVars, clientVars, serverVars, gcVars
<1>1. CASE UNCHANGED <<url, released>>
  BY <1>1 DEF SeveralUrls
<1>2. ASSUME NEW c \in Clients, ClientReceive(c)
      PROVE  (SeveralUrls => SeveralUrls') /\ UNCHANGED released
  <2>1. url[c] = None /\ released' = released /\ \A d \in Clients \ {c} : url'[d] = url[d]
    BY <1>2 DEF ClientReceive, Base, Locals, Types
  <2>2. QED
    BY <2>1, ProxyAssumption DEF SeveralUrls
<1>3. CASE GcCollect
  <2>1. url' = url /\ \A e \in Clients : released[e] => released'[e]
    BY <1>3 DEF GcCollect, Base, Types
  <2>2. QED
    BY <2>1 DEF SeveralUrls
<1>4. ASSUME NEW c \in Clients, \/ ClientLookup(c) \/ ClientInternal(c) \/ ClientConnect(c)
                               \/ ClientSend(c) \/ ClientSpuriousWakeup(c)
      PROVE  UNCHANGED <<url, released>>
  BY <1>4 DEF ClientLookup, ClientMiss, ClientHit, ClientFetch, ClientInternal, ClientAcquire,
     ClientReadSize, ClientTest, ClientWoken, ClientFlag, ClientRelease, ClientDestroy,
     ClientFault, ClientConnect, ClientSend, ClientSpuriousWakeup
<1>5. ASSUME NEW c \in Clients, ServerInternal(c) \/ ServerExternal(c)
      PROVE  UNCHANGED <<url, released>>
  BY <1>5 DEF ServerInternal, ServerStart, ServerAcquire, ServerAppend, ServerBroadcast,
     ServerFinish, ServerFault, ServerExternal, ServerRead, ServerFail
<1>6. CASE GcWake \/ GcNext \/ GcDestroy \/ GcSleep \/ GcFault
  BY <1>1, <1>6 DEF GcWake, GcNext, GcDestroy, GcSleep, GcFault
<1>7. CASE UNCHANGED vars
  BY <1>1, <1>7 DEF vars
<1>8. QED
  BY <1>1, <1>2, <1>3, <1>4, <1>5, <1>6, <1>7
     DEF Next, Step, Halted, Collector, ClientExternal

\* While the map counts an entry, the client that releases it is not the last.
LEMMA NotLast ==
  ASSUME RefCountExact, Base, MapKeepsEntries,
         NEW c \in Clients, pc[c] = "release"
  PROVE  ref[pair[c]] # 1
<1>0. pair[c] \in Clients
  BY DEF Base, Types, MapKeepsEntries
<1>1. PICK e \in Clients : e = pair[c] /\ life[e] # "unborn" /\ ~released[e]
  BY <1>0 DEF Base, MapKeepsEntries, NoneReleased, UnbornUntouched
<1>2. c \in ClientsCounted[e]
  BY <1>1 DEF ClientsCounted
<1>3. Cardinality(ClientsCounted[e]) \in Nat /\ Cardinality(ClientsCounted[e]) # 0
  BY <1>2, SubsetCount, CountedSubsets
<1>4. Cardinality(ServersCounted[e]) \in Nat
  BY SubsetCount, CountedSubsets
<1>5. QED
  BY <1>1, <1>3, <1>4 DEF RefCountExact

\* Every step that releases nothing preserves Quiet.
LEMMA QuietStep ==
  Base /\ Base' /\ RefCountExact /\ Quiet /\ NoneReleased' /\ [Next]_vars => Quiet'
<1> SUFFICES ASSUME Base, Base', RefCountExact, Quiet, NoneReleased', [Next]_vars
             PROVE  Quiet'
  OBVIOUS
<1>s. SeveralUrls => SeveralUrls'
  BY ForEver
<1> USE <1>s, ProxyAssumption DEF Base, Types, NoAbandonedMutex, Locals, UnbornUntouched,
    Quiet, NoneReleased, MapKeepsEntries, FetchOwnEntry, MovedOnly, ClientPc, ServerPc, mapVars, entryVars, clientVars, serverVars,
    gcVars, Goto, SGoto, CanLock, Usable
<1>1. ASSUME NEW c \in Clients, ClientReceive(c) PROVE Quiet'
  BY <1>1 DEF ClientReceive
<1>2. ASSUME NEW c \in Clients, ClientMiss(c) PROVE Quiet'
  <2>1. ASSUME NEW d \in Clients, pair[d] # None PROVE SeveralUrls
    <3>1. PICK e \in Clients : e = pair[d] /\ life[e] = "live"
      BY <2>1
    <3>2. url[e] \in Urls /\ url[c] \in Urls /\ url[e] # url[c]
      BY <1>2, <3>1 DEF ClientMiss
    <3>3. QED
      BY <3>2 DEF SeveralUrls
  <2>2. MovedOnly'
    BY <1>2, <2>1 DEF ClientMiss, HashmapSet, PairHolders
  <2>3. MapKeepsEntries' /\ FetchOwnEntry'
    BY <1>2 DEF ClientMiss, HashmapSet
  <2>4. QED
    BY <2>2, <2>3
<1>3. ASSUME NEW c \in Clients, ClientHit(c) PROVE Quiet'
  BY <1>3 DEF ClientHit
<1>4. ASSUME NEW c \in Clients, ClientConnect(c) PROVE Quiet'
  <2>1. MapKeepsEntries'
    BY <1>4 DEF ClientConnect
  <2>2. FetchOwnEntry' /\ MovedOnly'
    BY <1>4 DEF ClientConnect
  <2>3. QED
    BY <2>1, <2>2
<1>5. ASSUME NEW c \in Clients, ClientFetch(c) PROVE Quiet'
  <2>1. pair' = [pair EXCEPT ![c] = c] /\ life[c] = "live" /\ spc[c] = "none"
    BY <1>5 DEF ClientFetch
  <2>2. MapKeepsEntries'
    BY <1>5, <2>1 DEF ClientFetch
  <2>3. MovedOnly'
    BY <1>5 DEF ClientFetch
  <2>4. FetchOwnEntry'
    <3>1. /\ spc' = [spc EXCEPT ![c] = "created"] /\ pc' = [pc EXCEPT ![c] = "acquire"]
          /\ pc[c] = "fetch" /\ UNCHANGED <<life, size, full, written, towrite>>
      BY <1>5 DEF ClientFetch
    <3>2. QED
      BY <2>1, <3>1
  <2>5. QED
    BY <2>2, <2>3, <2>4
<1>6. ASSUME NEW c \in Clients, ClientAcquire(c) PROVE Quiet'
  BY <1>6 DEF ClientAcquire
<1>7. ASSUME NEW c \in Clients, ClientReadSize(c) PROVE Quiet'
  BY <1>7 DEF ClientReadSize
<1>8. ASSUME NEW c \in Clients, ClientTest(c) PROVE Quiet'
  BY <1>8 DEF ClientTest, MustWait
<1>9. ASSUME NEW c \in Clients, ClientSpuriousWakeup(c) PROVE Quiet'
  BY <1>9 DEF ClientSpuriousWakeup
<1>10. ASSUME NEW c \in Clients, ClientWoken(c) PROVE Quiet'
  BY <1>10 DEF ClientWoken, MustWait
<1>11. ASSUME NEW c \in Clients, ClientFlag(c) PROVE Quiet'
  BY <1>11 DEF ClientFlag
<1>12. ASSUME NEW c \in Clients, ClientSend(c) PROVE Quiet'
  BY <1>12 DEF ClientSend
<1>13. ASSUME NEW c \in Clients, ClientRelease(c) PROVE Quiet'
  BY <1>13, NotLast DEF ClientRelease, DropReference
<1>14. ASSUME NEW c \in Clients, ClientDestroy(c) PROVE Quiet'
  BY <1>14 DEF ClientDestroy
<1>15. ASSUME NEW c \in Clients, ClientFault(c) PROVE Quiet'
  <2>1. Usable(pair[c])
    BY <1>15 DEF ClientFault
  <2>2. QED
    BY <1>15, <2>1 DEF ClientFault, PairFault
<1>16. ASSUME NEW c \in Clients, ServerStart(c) PROVE Quiet'
  BY <1>16 DEF ServerStart
<1>17. ASSUME NEW c \in Clients, ServerAcquire(c) PROVE Quiet'
  BY <1>17 DEF ServerAcquire
<1>18. ASSUME NEW c \in Clients, ServerRead(c) PROVE Quiet'
  BY <1>18 DEF ServerRead, RecCounter
<1>19. ASSUME NEW c \in Clients, ServerFail(c) PROVE Quiet'
  BY <1>19 DEF ServerFail, ServerReturn
<1>20. ASSUME NEW c \in Clients, ServerAppend(c) PROVE Quiet'
  BY <1>20 DEF ServerAppend
<1>21. ASSUME NEW c \in Clients, ServerBroadcast(c) PROVE Quiet'
  BY <1>21 DEF ServerBroadcast
<1>22. ASSUME NEW c \in Clients, ServerFinish(c) PROVE Quiet'
  BY <1>22 DEF ServerFinish, ServerReturn
<1>23. ASSUME NEW c \in Clients, ServerFault(c) PROVE Quiet'
  <2>1. Usable(pair[c]) /\ ~(spc[c] = "created" /\ pc[c] = "done")
    BY <1>23 DEF ServerFault
  <2>2. c \in stale /\ fault' = "moved"
    BY <1>23, <2>1 DEF ServerFault, PairFault
  <2>3. UNCHANGED <<mapVars, entryVars, clientVars, serverVars, gcVars>>
    BY <1>23 DEF ServerFault
  <2>4. MovedOnly'
    BY <2>2, <2>3
  <2>5. MapKeepsEntries' /\ FetchOwnEntry'
    BY <2>3
  <2>6. QED
    BY <2>4, <2>5
<1>24. CASE GcWake \/ GcNext \/ GcSleep
  <2>1. UNCHANGED <<cache, stale, entryVars, clientVars, serverVars, fault>> /\ ~gstale'
    <3>1. ~gstale
      OBVIOUS
    <3>2. CASE GcNext
      BY <3>2 DEF GcNext
    <3>3. CASE GcWake \/ GcSleep
      BY <3>1, <3>3 DEF GcWake, GcSleep
    <3>4. QED
      BY <1>24, <3>2, <3>3
  <2>2. gpc' # "destroy" /\ (gpc' = "collect" => gpair' # None)
    BY <1>24 DEF GcWake, GcNext, GcSleep, TodoMapped
  <2>3. MovedOnly' /\ FetchOwnEntry'
    BY <2>1
  <2>4. MapKeepsEntries'
    BY <2>1, <2>2
  <2>5. QED
    BY <2>3, <2>4
<1>25. ASSUME GcCollect \/ GcDestroy \/ GcFault PROVE FALSE
  <2>1. gpc # "destroy" /\ (gpc = "collect" => Usable(gpair) /\ ~released[gpair])
    OBVIOUS
  <2>2. QED
    BY <1>25, <2>1 DEF GcCollect, GcDestroy, GcFault
<1>26. CASE UNCHANGED vars
  BY <1>26 DEF vars
<1> HIDE DEF Base, Quiet
<1>27. QED
  BY <1>1, <1>2, <1>3, <1>4, <1>5, <1>6, <1>7, <1>8, <1>9, <1>10, <1>11, <1>12, <1>13,
     <1>14, <1>15, <1>16, <1>17, <1>18, <1>19, <1>20, <1>21, <1>22, <1>23, <1>24, <1>25, <1>26
     DEF Next, Step, Halted, Collector, ClientLookup, ClientInternal, ClientExternal,
         ServerInternal, ServerExternal

\* Quiet holds until an entry is released by a pass.
THEOREM QuietCorrect == Spec => [](NoneReleased => Quiet)
<1>1. Base /\ [Next]_vars /\ NoneReleased' => NoneReleased
  BY ForEver DEF NoneReleased
<1>2. Base /\ Base' /\ RefCountExact /\ (NoneReleased => Quiet) /\ [Next]_vars
      => (NoneReleased => Quiet)'
  BY <1>1, QuietStep
<1>3. QED
  BY <1>2, QuietInit, BaseCorrect, RefCountCorrect, PTL DEF Spec

\* Until a pass has released an entry, nothing goes wrong as long as one URL is
\* asked for, and after that only through a pair that the map has moved.
THEOREM NoFaultCorrect == Spec => []NoFault
<1>1. (NoneReleased => Quiet) => NoFault
  BY DEF Quiet, MovedOnly, NoFault, NoneReleased
<1>2. QED
  BY <1>1, QuietCorrect, PTL

-----------------------------------------------------------------------------
(* One fetch of a URL *)

\* An entry disappears from the map only when an entry of its URL was released.
MappedUnlessReleased ==
  \A e \in Clients :
    /\ life[e] # "unborn" =>
         /\ url[e] \in Urls
         /\ cache[url[e]] = e \/ \E d \in Clients : released[d] /\ url[d] = url[e]
    /\ spc[e] # "none" \/ pc[e] \in {"connect", "fetch"} => life[e] # "unborn"

\* The client who is the last to release an entry comes after the collector.
LEMMA LastIsReleased ==
  ASSUME RefCountExact, Base, NEW e \in Clients, NEW c \in ClientsCounted[e], ref[e] = 1
  PROVE  released[e]
<1>1. c \in Clients /\ pair[c] = e /\ life[e] # "unborn"
  BY DEF ClientsCounted, Base, UnbornUntouched
<1>2. Cardinality(ClientsCounted[e]) \in Nat /\ Cardinality(ClientsCounted[e]) # 0
  BY SubsetCount, CountedSubsets
<1>3. Cardinality(ServersCounted[e]) \in Nat
  BY SubsetCount, CountedSubsets
<1>4. QED
  BY <1>1, <1>2, <1>3 DEF RefCountExact

\* A step that deletes the element of URL u, if any, and inserts none but a new one.
LEMMA MappedStays ==
  ASSUME Base, Base', MappedUnlessReleased,
         \A e \in Clients : released[e] => released'[e],
         \A e \in Clients : life[e] # "unborn" => url'[e] = url[e],
         \A e \in Clients : life'[e] # "unborn" =>
           life[e] # "unborn" \/ (url'[e] \in Urls /\ cache'[url'[e]] = e),
         \A e \in Clients : spc'[e] # "none" \/ pc'[e] \in {"connect", "fetch"} =>
           spc[e] # "none" \/ pc[e] \in {"connect", "fetch"} \/ life'[e] # "unborn",
         \A e \in Clients : life[e] # "unborn" => life'[e] # "unborn",
         \A e \in Clients : life[e] # "unborn" /\ cache[url[e]] = e =>
           \/ cache'[url[e]] = e
           \/ \E d \in Clients : released'[d] /\ url'[d] = url[e]
  PROVE  MappedUnlessReleased'
<1>1. ASSUME NEW e \in Clients, life'[e] # "unborn"
      PROVE  /\ url'[e] \in Urls
             /\ cache'[url'[e]] = e \/ \E d \in Clients : released'[d] /\ url'[d] = url'[e]
  <2>1. CASE life[e] = "unborn"
    BY <1>1, <2>1
  <2>2. CASE life[e] # "unborn" /\ cache[url[e]] = e
    BY <2>2 DEF MappedUnlessReleased
  <2>3. CASE life[e] # "unborn" /\ cache[url[e]] # e
    <3>1. PICK d \in Clients : released[d] /\ url[d] = url[e]
      BY <2>3 DEF MappedUnlessReleased
    <3>2. life[d] # "unborn"
      BY <3>1 DEF Base, UnbornUntouched
    <3>3. released'[d] /\ url'[d] = url[d] /\ url'[e] = url[e] /\ url[e] \in Urls
      BY <2>3, <3>1, <3>2 DEF MappedUnlessReleased
    <3>4. QED
      BY <3>1, <3>3
  <2>4. QED
    BY <2>1, <2>2, <2>3
<1>2. ASSUME NEW e \in Clients, spc'[e] # "none" \/ pc'[e] \in {"connect", "fetch"}
      PROVE  life'[e] # "unborn"
  BY <1>2 DEF MappedUnlessReleased
<1>3. QED
  BY <1>1, <1>2 DEF MappedUnlessReleased

\* Every step keeps an entry mapped or leaves behind that one was released.
LEMMA MappedUnlessReleasedStep ==
  Base /\ Base' /\ RefCountExact /\ MappedUnlessReleased /\ [Next]_vars
  => MappedUnlessReleased'
<1> SUFFICES ASSUME Base, Base', RefCountExact, MappedUnlessReleased, [Next]_vars
             PROVE  MappedUnlessReleased'
  OBVIOUS
<1>r. \A e \in Clients : released[e] => released'[e]
  BY ForEver
<1> USE <1>r, MappedStays DEF Base, Types, Locals, mapVars, entryVars, clientVars, serverVars,
    gcVars, Goto, SGoto
<1>1. ASSUME NEW c \in Clients, ClientReceive(c) PROVE MappedUnlessReleased'
  BY <1>1 DEF ClientReceive
<1>2. ASSUME NEW c \in Clients, ClientMiss(c) PROVE MappedUnlessReleased'
  BY <1>2, ProxyAssumption DEF ClientMiss, HashmapSet
<1>3. ASSUME NEW c \in Clients, ClientFetch(c) PROVE MappedUnlessReleased'
  BY <1>3 DEF ClientFetch
<1>4. ASSUME NEW c \in Clients, ClientConnect(c) PROVE MappedUnlessReleased'
  BY <1>4 DEF ClientConnect
<1>5. ASSUME NEW c \in Clients,
             \/ ClientHit(c) \/ ClientAcquire(c) \/ ClientReadSize(c) \/ ClientTest(c)
             \/ ClientSpuriousWakeup(c) \/ ClientWoken(c) \/ ClientFlag(c) \/ ClientSend(c)
             \/ ClientFault(c)
      PROVE  MappedUnlessReleased'
  <2>1. UNCHANGED <<cache, life, url, spc>>
        /\ \A e \in Clients : pc'[e] \in {"connect", "fetch"} => pc[e] \in {"connect", "fetch"}
    BY <1>5 DEF ClientHit, ClientAcquire, ClientReadSize, ClientTest, ClientSpuriousWakeup,
       ClientWoken, ClientFlag, ClientSend, ClientFault
  <2>2. QED
    BY <2>1
<1>6. ASSUME NEW c \in Clients, ClientRelease(c) PROVE MappedUnlessReleased'
  <2>1. UNCHANGED <<released, url, spc>> /\ pc[c] = "release" /\ pair[c] \in Clients
        /\ \A e \in Clients : pc'[e] \in {"connect", "fetch"} => pc[e] \in {"connect", "fetch"}
    BY <1>6 DEF ClientRelease, CanLock, Usable
  <2>2. CASE ref[pair[c]] = 1
    <3>1. released[pair[c]]
      BY <2>1, <2>2, LastIsReleased DEF ClientsCounted
    <3>2. cache' = [cache EXCEPT ![url[pair[c]]] = None]
          /\ life' = [life EXCEPT ![pair[c]] = "doomed"]
      BY <1>6, <2>2 DEF ClientRelease, DropReference, HashmapDelete
    <3>3. life[pair[c]] # "unborn"
      BY <2>1 DEF UnbornUntouched
    <3>4. QED
      BY <2>1, <3>1, <3>2, <3>3
  <2>3. CASE ref[pair[c]] # 1
    BY <1>6, <2>1, <2>3 DEF ClientRelease, DropReference
  <2>4. QED
    BY <2>2, <2>3
<1>7. ASSUME NEW c \in Clients, ClientDestroy(c) PROVE MappedUnlessReleased'
  BY <1>7 DEF ClientDestroy, DestroysDoomed
<1>8. ASSUME NEW c \in Clients, ServerInternal(c) \/ ServerExternal(c)
      PROVE  MappedUnlessReleased'
  <2>1. /\ UNCHANGED <<cache, life, url>>
        /\ \A e \in Clients : spc'[e] # "none" => spc[e] # "none"
        /\ \A e \in Clients : pc'[e] \in {"connect", "fetch"} => pc[e] \in {"connect", "fetch"}
    BY <1>8 DEF ServerInternal, ServerStart, ServerAcquire, ServerAppend, ServerBroadcast,
       ServerFinish, ServerFault, ServerExternal, ServerRead, ServerFail, ServerReturn
  <2>2. QED
    BY <2>1
<1>9. CASE GcCollect
  <2>1. UNCHANGED <<url, spc, pc>> /\ gpair \in Clients /\ life[gpair] # "unborn"
    BY <1>9 DEF GcCollect, CanLock, Usable, UnbornUntouched
  <2>2. CASE ~released[gpair] /\ ref[gpair] = 1
    <3>1. /\ cache' = [cache EXCEPT ![url[gpair]] = None]
          /\ life' = [life EXCEPT ![gpair] = "doomed"]
          /\ released'[gpair]
      BY <1>9, <2>1, <2>2 DEF GcCollect, DropReference, HashmapDelete
    <3>2. QED
      BY <2>1, <3>1
  <2>3. CASE released[gpair] \/ ref[gpair] # 1
    BY <1>9, <2>1, <2>3 DEF GcCollect, DropReference
  <2>4. QED
    BY <2>2, <2>3
<1>10. CASE GcDestroy
  BY <1>10 DEF GcDestroy, DestroysDoomed
<1>11. CASE GcWake \/ GcNext \/ GcSleep \/ GcFault
  BY <1>11 DEF GcWake, GcNext, GcSleep, GcFault
<1>12. CASE UNCHANGED vars
  BY <1>12 DEF vars
<1>13. QED
  BY <1>1, <1>2, <1>3, <1>4, <1>5, <1>6, <1>7, <1>8, <1>9, <1>10, <1>11, <1>12
     DEF Next, Step, Halted, Collector, ClientLookup, ClientInternal, ClientExternal

\* Two fetches of one URL need a pass that released an entry of this URL.
THEOREM OneFetchCorrect == Spec => []OneFetchPerUrl
<1>1. Init => MappedUnlessReleased
  BY DEF Init, MappedUnlessReleased
<1>2. MappedUnlessReleased => OneFetchPerUrl
  <2> SUFFICES ASSUME MappedUnlessReleased, NEW c \in Clients, NEW d \in Clients,
                      spc[c] # "none", spc[d] # "none", url[c] = url[d], c # d
               PROVE  \E e \in Clients : released[e] /\ url[e] = url[c]
    BY DEF OneFetchPerUrl
  <2>1. cache[url[c]] # c \/ cache[url[d]] # d
    OBVIOUS
  <2>2. QED
    BY <2>1 DEF MappedUnlessReleased
<1>3. QED
  BY <1>1, <1>2, BaseCorrect, RefCountCorrect, MappedUnlessReleasedStep, PTL DEF Spec

-----------------------------------------------------------------------------
(* What is delivered before the first pass *)

\* What a client has found is what the map has for his URL, and the entry of a
\* client who started a fetch has this fetch or never gets one.
FoundMapped ==
  \A c \in Clients :
    /\ pair[c] # None => url[c] \in Urls /\ cache[url[c]] = pair[c]
    /\ life[c] = "live" /\ spc[c] = "none" => pc[c] \in {"connect", "fetch", "done"}
    /\ full[c] => spc[c] = "exit"

\* How far a client has got.  is_full_content is read twice, but never becomes
\* false, so a client who goes on to write has something to write.
Sending ==
  \A c \in Clients :
    /\ pc[c] \in {"recv", "lookup", "connect", "fetch", "acquire"} =>
         written[c] = 0 /\ towrite[c] = 0
    /\ pc[c] \in {"size", "test", "wait", "woken", "flag", "send"} =>
         written[c] <= towrite[c] /\ towrite[c] <= size[pair[c]]
    /\ pc[c] = "flag" => written[c] < towrite[c] \/ full[pair[c]]
    /\ pc[c] = "send" => written[c] < towrite[c]

\* Who found the content complete never waits and knows its size.
LateKnows ==
  \A c \in Clients :
    late[c] =>
      /\ pc[c] \in {"acquire", "size", "test", "flag", "send", "release", "done"}
      /\ pair[c] # None /\ full[pair[c]]
      /\ pc[c] \in {"test", "flag", "send"} => towrite[c] = size[pair[c]]

Delivering == FoundMapped /\ Sending /\ LateKnows /\ late \in [Clients -> BOOLEAN]

\* Nothing is delivered initially.
LEMMA DeliveringInit == DeliveryInit => Delivering
  BY DEF DeliveryInit, Init, Delivering, FoundMapped, Sending, LateKnows

\* Without passes nothing is ever released.
NoPass == gpc = "idle" /\ NoneReleased

LEMMA NoPassStep == ~CollectorRuns /\ NoPass /\ [Next]_vars => NoPass'
<1> SUFFICES ASSUME ~CollectorRuns, NoPass, [Next]_vars PROVE NoPass'
  OBVIOUS
<1> USE DEF NoPass, NoneReleased, entryVars, clientVars, serverVars, gcVars
<1>1. ASSUME NEW c \in Clients, ClientLookup(c) \/ ClientInternal(c) \/ ClientExternal(c)
      PROVE  UNCHANGED <<gpc, released>>
  BY <1>1 DEF ClientLookup, ClientMiss, ClientHit, ClientFetch, ClientInternal, ClientAcquire,
     ClientReadSize, ClientTest, ClientWoken, ClientFlag, ClientRelease, ClientDestroy,
     ClientFault, ClientExternal, ClientReceive, ClientConnect, ClientSend, ClientSpuriousWakeup
<1>2. ASSUME NEW c \in Clients, ServerInternal(c) \/ ServerExternal(c)
      PROVE  UNCHANGED <<gpc, released>>
  BY <1>2 DEF ServerInternal, ServerStart, ServerAcquire, ServerAppend, ServerBroadcast,
     ServerFinish, ServerFault, ServerExternal, ServerRead, ServerFail
<1>3. ~Collector
  BY DEF Collector, GcWake, GcNext, GcCollect, GcDestroy, GcSleep, GcFault
<1>4. QED
  BY <1>1, <1>2, <1>3 DEF Next, Step, Halted, vars

\* Every step keeps what was found, how far clients are, and what latecomers know.
LEMMA DeliveringStep ==
  /\ ~CollectorRuns /\ Base /\ Base' /\ RefCountExact /\ Quiet /\ NoPass
  /\ Delivering /\ [DeliveryNext]_<<vars, late>>
  => Delivering'
<1> SUFFICES ASSUME ~CollectorRuns, Base, Base', RefCountExact, Quiet, NoPass, Delivering,
                    [DeliveryNext]_<<vars, late>>
             PROVE  Delivering'
  OBVIOUS
<1> DEFINE Remembers == late' = [c \in Clients |-> late[c] \/ FoundComplete(c)]
<1> USE ProxyAssumption DEF Base, Types, NoAbandonedMutex, Locals, UnbornUntouched, Quiet,
    MapKeepsEntries, NoneReleased, FetchOwnEntry, NoPass, ClientPc, ServerPc, mapVars, entryVars, clientVars, serverVars,
    gcVars, Goto, SGoto, CanLock, Usable, Delivering, FoundMapped, Sending, LateKnows,
    FoundComplete
<1>1. ASSUME NEW c \in Clients, ClientReceive(c), Remembers PROVE Delivering'
  <2>1. /\ pc[c] = "recv" /\ UNCHANGED <<cache, life, full, size, pair, towrite, written, spc>>
        /\ \A d \in Clients \ {c} : pc'[d] = pc[d] /\ url'[d] = url[d]
        /\ pc'[c] \in {"lookup", "done"}
    BY <1>1 DEF ClientReceive
  <2>2. FoundMapped' /\ Sending'
    BY <2>1
  <2>3. LateKnows' /\ late' \in [Clients -> BOOLEAN]
    BY <1>1, <2>1
  <2>4. QED
    BY <2>2, <2>3
<1>2. ASSUME NEW c \in Clients, ClientMiss(c), Remembers PROVE Delivering'
  BY <1>2 DEF ClientMiss, HashmapSet
<1>3. ASSUME NEW c \in Clients, ClientHit(c), Remembers PROVE Delivering'
  BY <1>3 DEF ClientHit
<1>4. ASSUME NEW c \in Clients, ClientConnect(c), Remembers PROVE Delivering'
  <2>1. /\ UNCHANGED <<cache, life, full, size, url, pair, towrite, written, spc>>
        /\ pc[c] = "connect" /\ pc'[c] \in {"fetch", "done"}
        /\ \A d \in Clients \ {c} : pc'[d] = pc[d]
    BY <1>4 DEF ClientConnect
  <2>2. FoundMapped' /\ Sending'
    BY <2>1
  <2>3. LateKnows' /\ late' \in [Clients -> BOOLEAN]
    BY <1>4, <2>1
  <2>4. QED
    BY <2>2, <2>3
<1>5. ASSUME NEW c \in Clients, ClientFetch(c), Remembers PROVE Delivering'
  BY <1>5 DEF ClientFetch
<1>6. ASSUME NEW c \in Clients, ClientAcquire(c), Remembers PROVE Delivering'
  BY <1>6 DEF ClientAcquire
<1>7. ASSUME NEW c \in Clients, ClientReadSize(c), Remembers PROVE Delivering'
  BY <1>7 DEF ClientReadSize
<1>8. ASSUME NEW c \in Clients, ClientTest(c), Remembers PROVE Delivering'
  <2>1. \/ pc' = [pc EXCEPT ![c] = "wait"] /\ written[c] = towrite[c] /\ ~full[pair[c]]
        \/ pc' = [pc EXCEPT ![c] = "flag"] /\ ~(written[c] = towrite[c] /\ ~full[pair[c]])
    <3>1. CASE MustWait(c, towrite[c])
      <4>1. pc' = [pc EXCEPT ![c] = "wait"]
        BY <1>8, <3>1 DEF ClientTest
      <4>2. QED
        BY <3>1, <4>1 DEF MustWait
    <3>2. CASE ~MustWait(c, towrite[c])
      <4>1. pc' = [pc EXCEPT ![c] = "flag"]
        BY <1>8, <3>2 DEF ClientTest
      <4>2. QED
        BY <3>2, <4>1 DEF MustWait
    <3>3. QED
      BY <3>1, <3>2
  <2>2. /\ pc[c] = "test" /\ pair[c] \in Clients
        /\ UNCHANGED <<cache, life, full, size, url, pair, towrite, written, spc>>
    BY <1>8 DEF ClientTest
  <2>3. FoundMapped' /\ Sending'
    BY <2>1, <2>2
  <2>4. LateKnows' /\ late' \in [Clients -> BOOLEAN]
    BY <1>8, <2>1, <2>2
  <2>5. QED
    BY <2>3, <2>4
<1>9. ASSUME NEW c \in Clients, ClientSpuriousWakeup(c), Remembers PROVE Delivering'
  BY <1>9 DEF ClientSpuriousWakeup
<1>10. ASSUME NEW c \in Clients, ClientWoken(c), Remembers PROVE Delivering'
  <2>1. CASE MustWait(c, size[pair[c]])
    <3>1. pc[c] = "woken" /\ pair[c] \in Clients /\ fits[pair[c]]
      BY <1>10 DEF ClientWoken
    <3>2. pc' = [pc EXCEPT ![c] = "wait"]
      BY <1>10, <2>1, <3>1 DEF ClientWoken
    <3>3. towrite' = [towrite EXCEPT ![c] = size[pair[c]]]
      BY <1>10, <3>1 DEF ClientWoken
    <3>4. UNCHANGED <<cache, life, full, size, url, pair, written, spc>>
      BY <1>10 DEF ClientWoken
    <3>5. written[c] = size[pair[c]]
      BY <2>1 DEF MustWait
    <3>6. FoundMapped' /\ Sending'
      BY <3>1, <3>2, <3>3, <3>4, <3>5
    <3>7. LateKnows' /\ late' \in [Clients -> BOOLEAN]
      BY <1>10, <3>1, <3>2, <3>3, <3>4
    <3>8. QED
      BY <3>6, <3>7
  <2>2. CASE ~MustWait(c, size[pair[c]])
    <3>0. pc[c] = "woken" /\ pair[c] \in Clients /\ fits[pair[c]]
      BY <1>10 DEF ClientWoken
    <3>a. pc' = [pc EXCEPT ![c] = "flag"]
      BY <1>10, <2>2, <3>0 DEF ClientWoken
    <3>b. towrite' = [towrite EXCEPT ![c] = size[pair[c]]]
      BY <1>10, <3>0 DEF ClientWoken
    <3>c. UNCHANGED <<cache, life, full, size, url, pair, written, spc>>
      BY <1>10 DEF ClientWoken
    <3>1. /\ pc' = [pc EXCEPT ![c] = "flag"] /\ pc[c] = "woken"
          /\ towrite' = [towrite EXCEPT ![c] = size[pair[c]]] /\ pair[c] \in Clients
          /\ UNCHANGED <<cache, life, full, size, url, pair, written, spc>>
      BY <3>0, <3>a, <3>b, <3>c
    <3>d. written[c] <= size[pair[c]] /\ written[c] \in Nat /\ size[pair[c]] \in Nat
      <4>1. written[c] <= towrite[c] /\ towrite[c] <= size[pair[c]]
        BY <3>0
      <4>2. written[c] \in Nat /\ towrite[c] \in Nat /\ size[pair[c]] \in Nat
        BY <3>0
      <4>3. QED
        BY ONLY <4>1, <4>2
    <3>e. written[c] # size[pair[c]] \/ full[pair[c]]
      BY ONLY <2>2, Zenon DEF MustWait
    <3>f. written[c] < size[pair[c]] \/ written[c] = size[pair[c]]
      BY ONLY <3>d
    <3>2. written[c] < size[pair[c]] \/ (written[c] = size[pair[c]] /\ full[pair[c]])
      BY ONLY <3>e, <3>f, Zenon
    <3>3. ~late[c]
      BY <3>1
    <3>4. FoundMapped'
      BY <3>1
    <3>5. Sending'
      BY <3>1, <3>2
    <3>6. LateKnows' /\ late' \in [Clients -> BOOLEAN]
      BY <1>10, <3>1, <3>3
    <3>7. QED
      BY <3>4, <3>5, <3>6
  <2>3. QED
    BY <2>1, <2>2
<1>11. ASSUME NEW c \in Clients, ClientFlag(c), Remembers PROVE Delivering'
  BY <1>11 DEF ClientFlag
<1>12. ASSUME NEW c \in Clients, ClientSend(c), Remembers PROVE Delivering'
  BY <1>12 DEF ClientSend
<1>13. ASSUME NEW c \in Clients, ClientRelease(c), Remembers PROVE Delivering'
  BY <1>13, NotLast DEF ClientRelease, DropReference
<1>14. ASSUME NEW c \in Clients, ServerStart(c), Remembers PROVE Delivering'
  BY <1>14 DEF ServerStart
<1>15. ASSUME NEW c \in Clients, ServerAcquire(c), Remembers PROVE Delivering'
  BY <1>15 DEF ServerAcquire
<1>16. ASSUME NEW c \in Clients, ServerRead(c), Remembers PROVE Delivering'
  BY <1>16 DEF ServerRead, RecCounter
<1>17. ASSUME NEW c \in Clients, ServerFail(c), Remembers PROVE Delivering'
  BY <1>17 DEF ServerFail, ServerReturn
<1>18. ASSUME NEW c \in Clients, ServerAppend(c), Remembers PROVE Delivering'
  BY <1>18 DEF ServerAppend
<1>19. ASSUME NEW c \in Clients, ServerBroadcast(c), Remembers PROVE Delivering'
  BY <1>19 DEF ServerBroadcast
<1>20. ASSUME NEW c \in Clients, ServerFinish(c), Remembers PROVE Delivering'
  BY <1>20 DEF ServerFinish, ServerReturn
<1>21. ASSUME NEW c \in Clients, ClientDestroy(c) \/ ClientFault(c) \/ ServerFault(c), Remembers
      PROVE  Delivering'
  <2>1. UNCHANGED <<mapVars, entryVars, clientVars, serverVars>>
    BY <1>21 DEF ClientDestroy, ClientFault, ServerFault
  <2>2. QED
    BY <1>21, <2>1
<1>22. ASSUME Collector PROVE FALSE
  BY <1>22 DEF Collector, GcWake, GcNext, GcCollect, GcDestroy, GcSleep, GcFault
<1>23. CASE UNCHANGED vars /\ Remembers
  BY <1>23 DEF vars
<1>24. CASE UNCHANGED <<vars, late>>
  BY <1>24 DEF vars
<1> HIDE DEF Base, Quiet, Delivering
<1>25. QED
  BY <1>1, <1>2, <1>3, <1>4, <1>5, <1>6, <1>7, <1>8, <1>9, <1>10, <1>11, <1>12, <1>13,
     <1>14, <1>15, <1>16, <1>17, <1>18, <1>19, <1>20, <1>21, <1>22, <1>23, <1>24
     DEF DeliveryNext, Next, Step, Halted, ClientLookup, ClientInternal, ClientExternal,
         ServerInternal, ServerExternal

\* The invariants under which a step is mapped.
Known == Base /\ Quiet /\ NoPass /\ Delivering

\* What a step that is not a lookup leaves as it is.
LEMMA LateStays ==
  ASSUME Known, late' = [c \in Clients |-> late[c] \/ FoundComplete(c)],
         \A c \in Clients : pc[c] = "lookup" => pc'[c] # "acquire"
  PROVE  late' = late
  BY DEF Known, Delivering, FoundComplete

\* A step that moves no client between the phases.
LEMMA PhaseStays ==
  ASSUME \A c \in Clients :
           \/ pc'[c] = pc[c]
           \/ {pc[c], pc'[c]} \subseteq {"release", "destroy", "done"}
           \/ {pc[c], pc'[c]} \cap {"recv", "lookup", "release", "destroy", "done"} = {}
  PROVE  Phase' = Phase
  BY DEF Phase

\* A step that moves client c.
LEMMA PhaseMoves ==
  ASSUME Known, NEW c \in Clients, NEW label, pc' = [pc EXCEPT ![c] = label],
         NEW phase, phase = (CASE label = "recv" -> "new"
                               [] label = "lookup" -> "asked"
                               [] label \in {"release", "destroy", "done"} -> "left"
                               [] OTHER -> "served")
  PROVE  Phase' = [Phase EXCEPT ![c] = phase]
  BY DEF Known, Base, Types, Phase

\* A step after which the map, the contents and the fates of fetches are the same.
LEMMA UrlsStay ==
  ASSUME cache' = cache,
         \A u \in Urls : LET e == cache[u] IN
           e # None => /\ full'[e] = full[e] /\ size'[e] = size[e]
                       /\ FetchFailed(e)' <=> FetchFailed(e)
  PROVE  FetchState' = FetchState /\ Content' = Content
  BY DEF FetchState, Fate, Content

\* A step after which the fate of one fetch is another.
LEMMA FateMoves ==
  ASSUME NEW u \in Urls, NEW fate, cache' = cache, cache[u] # None,
         Fate(cache[u])' = fate,
         \A v \in Urls \ {u} : cache[v] # None => Fate(cache[v])' = Fate(cache[v])
  PROVE  FetchState' = [FetchState EXCEPT ![u] = fate]
  BY DEF FetchState

sharedVars == <<Phase, url, Delivered, late, FetchState, Content>>

\* Where the proxy starts, SharedFetch starts.
LEMMA SharedInit == DeliveryInit => Shared!Init
<1> SUFFICES ASSUME DeliveryInit PROVE Shared!Init
  OBVIOUS
<1>1. /\ cache = [u \in Urls |-> None]
      /\ pc = [c \in Clients |-> "recv"]
      /\ url = [c \in Clients |-> None]
      /\ written = [c \in Clients |-> 0]
      /\ late = [c \in Clients |-> FALSE]
  BY DEF DeliveryInit, Init
<1>2. Phase = [c \in Clients |-> "new"]
  BY <1>1 DEF Phase
<1>3. Delivered = [c \in Clients |-> 0]
  BY <1>1 DEF Delivered, Phase
<1>4. FetchState = [u \in Urls |-> "none"] /\ Content = [u \in Urls |-> 0]
  BY <1>1 DEF FetchState, Content
<1>5. QED
  BY <1>1, <1>2, <1>3, <1>4 DEF Shared!Init

\* Every step of the proxy is a step of SharedFetch or changes nothing there.
LEMMA SharedStep ==
  /\ ~CollectorRuns /\ RefCountExact /\ Known /\ Known'
  /\ [DeliveryNext]_<<vars, late>>
  => [Shared!Next]_sharedVars
<1> SUFFICES ASSUME ~CollectorRuns, RefCountExact, Known, Known',
                    [DeliveryNext]_<<vars, late>>
             PROVE  [Shared!Next]_sharedVars
  OBVIOUS
<1> DEFINE Remembers == late' = [c \in Clients |-> late[c] \/ FoundComplete(c)]
<1> USE ProxyAssumption DEF mapVars, entryVars, clientVars, serverVars, gcVars, Goto, SGoto, CanLock,
    Usable, sharedVars
\* What the invariants say, for the steps below.
<1>a. /\ cache \in [Urls -> Clients \cup {None}] /\ pc \in [Clients -> ClientPc]
      /\ written \in [Clients -> Nat] /\ towrite \in [Clients -> Nat]
      /\ size \in [Clients -> Nat] /\ full \in [Clients -> BOOLEAN]
      /\ late \in [Clients -> BOOLEAN] /\ url \in [Clients -> Urls \cup {None}]
      /\ spc \in [Clients -> ServerPc] /\ pair \in [Clients -> Clients \cup {None}]
      /\ rec \in [Clients -> 0..BufferSize]
  BY DEF Known, Base, Types, Delivering
<1>b. \A u \in Urls : cache[u] # None =>
        cache[u] \in Clients /\ life[cache[u]] = "live" /\ url[cache[u]] = u
  BY DEF Known, Base, Types, MappedEntryLive
<1>c. \A e \in Clients : life[e] = "live" =>
        /\ url[e] \in Urls /\ cache[url[e]] = e /\ pc[e] \notin {"recv", "lookup"}
        /\ spc[e] = "none" => size[e] = 0 /\ ~full[e] /\ pc[e] \in {"connect", "fetch", "done"}
  BY DEF Known, Base, Locals, Quiet, MapKeepsEntries, FetchOwnEntry, Delivering, FoundMapped
<1>d. \A c \in Clients :
        /\ spc[c] # "none" => pair[c] = c /\ life[c] = "live"
        /\ full[c] => spc[c] = "exit"
        /\ pair[c] # None => url[c] \in Urls /\ cache[url[c]] = pair[c]
  BY DEF Known, Base, Types, Locals, Quiet, FetchOwnEntry, Delivering, FoundMapped, MapKeepsEntries
<1>e. \A c \in Clients :
        /\ pc[c] \in {"connect", "fetch"} =>
             life[c] = "live" /\ spc[c] = "none" /\ pair[c] = None /\ written[c] = 0
        /\ pc[c] \in {"recv", "lookup"} => life[c] = "unborn" /\ written[c] = 0
        /\ pc[c] \notin {"recv", "lookup", "connect", "fetch", "done"} => pair[c] # None
        /\ pc[c] # "destroy"
  BY DEF Known, Base, Locals, Quiet, MapKeepsEntries, FetchOwnEntry
<1>1. ASSUME NEW c \in Clients, ClientReceive(c), Remembers PROVE [Shared!Next]_sharedVars
  <2>1. late' = late /\ FetchState' = FetchState /\ Content' = Content
    BY <1>1, <1>a, <1>b, <1>c, <1>e, LateStays, UrlsStay DEF ClientReceive, FetchFailed
  <2>2. Delivered' = Delivered
    BY <1>1, <1>a, <1>e DEF ClientReceive, Delivered, Phase
  <2>3. CASE pc' = [pc EXCEPT ![c] = "done"] /\ url' = url
    <3>1. Phase' = [Phase EXCEPT ![c] = "left"] /\ Phase[c] = "new"
      BY <1>1, <1>a, <2>3 DEF ClientReceive, Phase
    <3>2. QED
      BY <2>1, <2>2, <2>3, <3>1 DEF Shared!Next, Shared!Refuse, Shared!urlVars
  <2>4. ASSUME NEW u \in Urls, url' = [url EXCEPT ![c] = u], pc' = [pc EXCEPT ![c] = "lookup"]
        PROVE  [Shared!Next]_sharedVars
    <3>1. Phase' = [Phase EXCEPT ![c] = "asked"] /\ Phase[c] = "new"
      BY <1>1, <1>a, <2>4 DEF ClientReceive, Phase
    <3>2. QED
      BY <2>1, <2>2, <2>4, <3>1 DEF Shared!Next, Shared!Ask, Shared!urlVars
  <2>5. QED
    BY <1>1, <2>3, <2>4 DEF ClientReceive
<1>2. ASSUME NEW c \in Clients, ClientMiss(c), Remembers PROVE [Shared!Next]_sharedVars
  <2>1. late' = late
    BY <1>2, <1>a, LateStays DEF ClientMiss, HashmapSet
  <2>2. Phase' = [Phase EXCEPT ![c] = "served"] /\ Phase[c] = "asked"
    BY <1>2, <1>a DEF ClientMiss, HashmapSet, Phase
  <2>3. Delivered' = Delivered
    BY <1>2, <1>a DEF ClientMiss, HashmapSet, Delivered, Phase
  <2>4. url[c] \in Urls /\ spc[c] = "none" /\ size[c] = 0 /\ ~full[c]
    BY <1>2 DEF ClientMiss, HashmapSet, Known, Base, Locals, Quiet, FetchOwnEntry
  <2>5. FetchState[url[c]] = "none"
    BY <1>2, <2>4 DEF ClientMiss, HashmapSet, FetchState
  <2>6. FetchState' = [FetchState EXCEPT ![url[c]] = "running"]
    <3>1. \A e \in Clients : Fate(e)' = (IF e = c THEN "running" ELSE Fate(e))
      BY <1>2, <1>a, <2>4 DEF ClientMiss, HashmapSet, Fate, FetchFailed
    <3>2. cache' = [cache EXCEPT ![url[c]] = c]
      BY <1>2 DEF ClientMiss, HashmapSet
    <3>3. \A u \in Urls : cache[u] # c
      BY <1>2, <1>b, <1>e DEF ClientMiss, HashmapSet
    <3>4. QED
      BY <1>a, <2>4, <3>1, <3>2, <3>3, ProxyAssumption DEF FetchState
  <2>7. Content' = Content
    BY <1>2, <1>a, <2>4 DEF ClientMiss, HashmapSet, Content
  <2>8. QED
    BY <1>2, <2>1, <2>2, <2>3, <2>5, <2>6, <2>7 DEF ClientMiss, HashmapSet, Shared!Next, Shared!Begin
<1>3. ASSUME NEW c \in Clients, ClientHit(c), Remembers PROVE [Shared!Next]_sharedVars
  <2>1. Phase' = [Phase EXCEPT ![c] = "served"] /\ Phase[c] = "asked"
    BY <1>3, <1>a DEF ClientHit, Phase
  <2>2. Delivered' = Delivered
    BY <1>3, <1>a DEF ClientHit, Delivered, Phase
  <2>3. FetchState' = FetchState /\ Content' = Content
    BY <1>3, <1>a, <1>b, <1>c, UrlsStay DEF ClientHit, FetchFailed
  <2>4. url[c] \in Urls /\ cache[url[c]] \in Clients /\ ~late[c]
    BY <1>3, <1>a DEF ClientHit, Known, Base, Types, Locals, Delivering, LateKnows
  <2>5. FetchState[url[c]] # "none" /\ (FetchState[url[c]] = "complete" <=> full[cache[url[c]]])
    BY <1>3, <1>a, <2>4 DEF ClientHit, FetchState, Fate
  <2>6. late' = [late EXCEPT ![c] = FetchState[url[c]] = "complete"]
    <3>1. \A d \in Clients : FoundComplete(d) <=> d = c /\ FetchState[url[c]] = "complete"
      BY <1>3, <1>a, <2>4, <2>5 DEF ClientHit, FoundComplete
    <3>2. late' = [d \in Clients |-> late[d] \/ (d = c /\ FetchState[url[c]] = "complete")]
      BY <1>3, <3>1, Zenon
    <3>3. \A d \in Clients :
            (late[d] \/ (d = c /\ FetchState[url[c]] = "complete"))
              = (IF d = c THEN FetchState[url[c]] = "complete" ELSE late[d])
      BY <1>a, <2>4
    <3>4. QED
      BY <1>a, <3>2, <3>3
  <2>7. QED
    BY <1>3, <2>1, <2>2, <2>3, <2>5, <2>6 DEF ClientHit, Shared!Next, Shared!Join, Shared!urlVars
<1>4. ASSUME NEW c \in Clients, ClientConnect(c), Remembers PROVE [Shared!Next]_sharedVars
  <2>1. late' = late
    BY <1>4, <1>a, LateStays DEF ClientConnect
  <2>2. Delivered' = Delivered
    BY <1>4, <1>a, <1>e DEF ClientConnect, Delivered, Phase
  <2>3. life[c] = "live" /\ spc[c] = "none" /\ cache[url[c]] = c /\ url[c] \in Urls
        /\ size[c] = 0 /\ ~full[c] /\ pc[c] = "connect"
    BY <1>4, <1>c, <1>e DEF ClientConnect
  <2>4. Content' = Content
    BY <1>4 DEF ClientConnect, Content
  <2>5. CASE pc' = [pc EXCEPT ![c] = "fetch"]
    <3>1. Phase' = Phase
      BY <1>a, <2>3, <2>5, PhaseStays
    <3>2. FetchState' = FetchState
      BY <1>4, <1>a, <1>b, <2>3, <2>5, UrlsStay DEF ClientConnect, FetchFailed
    <3>3. QED
      BY <1>4, <2>1, <2>2, <2>4, <3>1, <3>2 DEF ClientConnect
  <2>6. CASE pc' = [pc EXCEPT ![c] = "done"]
    <3>1. Phase' = [Phase EXCEPT ![c] = "left"] /\ Phase[c] = "served"
      BY <1>a, <2>3, <2>6 DEF Phase
    <3>2. \A u \in Urls : cache[u] = c <=> u = url[c]
      BY <1>b, <2>3, ProxyAssumption
    <3>3. FetchState' = [FetchState EXCEPT ![url[c]] = "failed"]
      <4>1. Fate(c)' = "failed"
        BY <1>4, <1>a, <2>3, <2>6 DEF ClientConnect, Fate, FetchFailed
      <4>2. \A e \in Clients \ {c} : Fate(e)' = Fate(e)
        BY <1>4, <1>a, <2>6 DEF ClientConnect, Fate, FetchFailed
      <4>3. cache' = cache /\ cache[url[c]] # None
        BY <1>4, <2>3, ProxyAssumption DEF ClientConnect
      <4>4. QED
        BY <1>b, <2>3, <3>2, <4>1, <4>2, <4>3, FateMoves
    <3>4. FetchState[url[c]] = "running" /\ Content[url[c]] = 0
      BY <2>3, ProxyAssumption DEF FetchState, Fate, FetchFailed, Content
    <3>5. QED
      BY <1>4, <2>1, <2>2, <2>4, <3>1, <3>3, <3>4 DEF ClientConnect, Shared!Next, Shared!GiveUp
  <2>7. QED
    BY <1>4, <2>5, <2>6 DEF ClientConnect
\* The steps of a client that stays in its phase and writes nothing.
<1>5. ASSUME NEW c \in Clients, Remembers,
             \/ ClientFetch(c) \/ ClientAcquire(c) \/ ClientReadSize(c) \/ ClientTest(c)
             \/ ClientSpuriousWakeup(c) \/ ClientWoken(c) \/ ClientRelease(c)
             \/ ClientFlag(c) /\ pc'[c] = "send"
      PROVE  [Shared!Next]_sharedVars
  <2>1. PICK label \in ClientPc : pc' = [pc EXCEPT ![c] = label]
    BY <1>5 DEF ClientFetch, ClientAcquire, ClientReadSize, ClientTest, ClientSpuriousWakeup,
       ClientWoken, ClientRelease, ClientFlag, ClientPc
  <2>2. \/ pc[c] = "release" /\ label \in {"destroy", "done"}
        \/ {pc[c], label} \cap {"recv", "lookup", "release", "destroy", "done"} = {}
    BY <1>5, <1>a, <2>1 DEF ClientFetch, ClientAcquire, ClientReadSize, ClientTest, Known, Base,
       NoAbandonedMutex, ClientSpuriousWakeup, ClientWoken, ClientRelease, ClientFlag
  <2>3. Phase' = Phase
    BY <1>a, <2>1, <2>2, PhaseStays
  <2>4. late' = late
    BY <1>5, <1>a, <2>1, <2>2, LateStays
  <2>5. /\ cache' = cache /\ full' = full /\ size' = size /\ url' = url
        /\ \A e \in Clients :
             \/ spc'[e] = spc[e]
             \/ e = c /\ spc[e] = "none" /\ pc[e] = "fetch" /\ spc'[e] = "created"
        /\ \A e \in Clients : e # c => pc'[e] = pc[e]
    <3>1. CASE ClientFetch(c)
      BY <1>a, <1>e, <3>1 DEF ClientFetch
    <3>2. CASE ClientRelease(c)
      BY <1>a, <3>2, NotLast DEF ClientRelease, DropReference, Known, Quiet
    <3>3. CASE \/ ClientAcquire(c) \/ ClientReadSize(c) \/ ClientTest(c)
               \/ ClientSpuriousWakeup(c) \/ ClientWoken(c) \/ ClientFlag(c)
      BY <1>a, <3>3 DEF ClientAcquire, ClientReadSize, ClientTest, ClientSpuriousWakeup,
         ClientWoken, ClientFlag
    <3>4. QED
      BY <1>5, <3>1, <3>2, <3>3
  <2>6. Delivered' = Delivered
    <3>1. \/ written' = written
          \/ pc[c] = "release" /\ written' = [written EXCEPT ![c] = 0]
      <4>1. CASE ClientRelease(c)
        BY <4>1 DEF ClientRelease
      <4>2. CASE ~ClientRelease(c)
        BY <1>5, <4>2 DEF ClientFetch, ClientAcquire, ClientReadSize, ClientTest,
           ClientSpuriousWakeup, ClientWoken, ClientFlag
      <4>3. QED
        BY <4>1, <4>2
    <3>2. QED
      BY <1>a, <2>3, <3>1 DEF Delivered, Phase
  <2>7. ASSUME NEW e \in Clients, life[e] = "live" PROVE FetchFailed(e)' <=> FetchFailed(e)
    <3>1. pc[c] # "done" /\ (pc'[c] = "done" => pc[c] = "release")
      BY <1>a, <2>1, <2>2
    <3>2. QED
      BY <1>a, <1>c, <1>e, <2>1, <2>2, <2>5, <2>7, <3>1 DEF FetchFailed
  <2>8. FetchState' = FetchState /\ Content' = Content
    BY <1>a, <1>b, <2>5, <2>7, UrlsStay
  <2>9. QED
    BY <2>3, <2>4, <2>5, <2>6, <2>8
\* A client is let go.
<1>6. ASSUME NEW c \in Clients, Remembers,
             \/ ClientFlag(c) /\ pc'[c] # "send"
             \/ ClientSend(c) /\ pc'[c] = "release"
      PROVE  [Shared!Next]_sharedVars
  <2>1. /\ pc' = [pc EXCEPT ![c] = "release"] /\ pc[c] \in {"flag", "send"}
        /\ UNCHANGED <<cache, full, size, url, spc, written, towrite>>
    BY <1>6, <1>a DEF ClientFlag, ClientSend
  <2>2. Phase' = [Phase EXCEPT ![c] = "left"] /\ Phase[c] = "served"
    BY <1>a, <2>1 DEF Phase
  <2>3. late' = late
    BY <1>6, <1>a, <2>1, LateStays
  <2>4. Delivered' = [Delivered EXCEPT ![c] = 0] /\ Delivered[c] = written[c]
    BY <1>a, <2>1, <2>2 DEF Delivered, Phase
  <2>5. FetchState' = FetchState /\ Content' = Content
    BY <1>a, <1>b, <1>c, <2>1, UrlsStay DEF FetchFailed
  <2>6. url[c] \in Urls /\ cache[url[c]] = pair[c] /\ pair[c] \in Clients
    BY <1>a, <1>d, <1>e, <2>1
  <2>7. Content[url[c]] = size[pair[c]] /\ (full[pair[c]] => FetchState[url[c]] = "complete")
    BY <1>a, <2>6 DEF Content, FetchState, Fate
  <2>8. CASE ClientFlag(c)
    <3>1. written[c] = towrite[c] /\ full[pair[c]]
      BY <1>a, <2>1, <2>8 DEF ClientFlag
    <3>2. late[c] => towrite[c] = size[pair[c]]
      BY <2>1, <2>8 DEF ClientFlag, Known, Delivering, LateKnows
    <3>3. QED
      BY <2>1, <2>2, <2>3, <2>4, <2>5, <2>7, <3>1, <3>2
         DEF Shared!Next, Shared!Leave, Shared!Forget, Shared!urlVars
  <2>9. CASE ClientSend(c)
    <3>1. written[c] < size[pair[c]]
      <4>1. written[c] < towrite[c] /\ towrite[c] <= size[pair[c]]
        BY <2>9 DEF ClientSend, Known, Delivering, Sending
      <4>2. QED
        BY <1>a, <2>6, <4>1
    <3>2. QED
      BY <2>1, <2>2, <2>3, <2>4, <2>5, <2>7, <3>1
         DEF Shared!Next, Shared!Break, Shared!Forget, Shared!urlVars
  <2>10. QED
    BY <1>6, <2>8, <2>9
<1>7. ASSUME NEW c \in Clients, ClientSend(c), pc'[c] # "release", Remembers
      PROVE  [Shared!Next]_sharedVars
  <2>1. PICK n \in 1..(towrite[c] - written[c]) :
          written' = [written EXCEPT ![c] = written[c] + n] /\ pc' = [pc EXCEPT ![c] = "size"]
    BY <1>7, <1>a DEF ClientSend
  <2>2. pc[c] = "send" /\ UNCHANGED <<cache, full, size, url, spc, towrite>>
    BY <1>7 DEF ClientSend
  <2>3. Phase' = Phase
    BY <1>a, <2>1, <2>2, PhaseStays
  <2>4. late' = late
    BY <1>7, <1>a, <2>1, <2>2, LateStays
  <2>5. FetchState' = FetchState /\ Content' = Content
    BY <1>a, <1>b, <1>c, <2>1, <2>2, UrlsStay DEF FetchFailed
  <2>6. Phase[c] = "served"
    BY <1>a, <2>2 DEF Phase
  <2>7. Delivered' = [Delivered EXCEPT ![c] = Delivered[c] + n] /\ Delivered[c] = written[c]
    BY <1>a, <2>1, <2>2, <2>3, <2>6 DEF Delivered
  <2>8. url[c] \in Urls /\ cache[url[c]] = pair[c] /\ pair[c] \in Clients
    BY <1>a, <1>d, <1>e, <2>2
  <2>9. towrite[c] <= Content[url[c]]
    BY <2>2, <2>8, ProxyAssumption DEF Content, Known, Delivering, Sending
  <2>10. Content[url[c]] \in Nat
    BY <1>a, <2>8 DEF Content
  <2>11. n \in 1..(Content[url[c]] - Delivered[c])
    BY <1>a, <2>7, <2>9, <2>10
  <2>12. QED
    BY <2>2, <2>3, <2>4, <2>5, <2>6, <2>7, <2>11 DEF Shared!Next, Shared!Deliver, Shared!urlVars
\* The steps of a fetch that nobody sees yet.
<1>8. ASSUME NEW c \in Clients, Remembers,
             ServerStart(c) \/ ServerAcquire(c) \/ ServerRead(c) \/ ServerBroadcast(c)
      PROVE  [Shared!Next]_sharedVars
  <2>1. /\ UNCHANGED <<cache, full, size, url, written>>
        /\ \A w \in Clients : pc'[w] = pc[w] \/ (pc[w] = "wait" /\ pc'[w] = "woken")
    <3>1. CASE ServerBroadcast(c)
      BY <1>a, <3>1 DEF ServerBroadcast
    <3>2. CASE ~ServerBroadcast(c)
      BY <1>8, <3>2 DEF ServerStart, ServerAcquire, ServerRead
    <3>3. QED
      BY <3>1, <3>2
  <2>2. PICK label \in {"acquire", "read", "append", "bcast", "finish"} :
          spc' = [spc EXCEPT ![c] = label] /\ spc[c] \notin {"none", "leaked", "exit"}
    BY <1>8 DEF ServerStart, ServerAcquire, ServerRead, ServerBroadcast
  <2>3. Phase' = Phase
    BY <1>a, <2>1, PhaseStays
  <2>4. late' = late
    BY <1>8, <1>a, <2>1, LateStays
  <2>5. Delivered' = Delivered
    BY <2>1, <2>3 DEF Delivered
  <2>6. FetchState' = FetchState /\ Content' = Content
    BY <1>a, <1>b, <2>1, <2>2, UrlsStay DEF FetchFailed
  <2>7. QED
    BY <2>1, <2>3, <2>4, <2>5, <2>6
\* The steps of a fetch that fill, end or spoil it: it is the one of its URL.
<1>9. ASSUME NEW c \in Clients, Remembers, ServerAppend(c) \/ ServerFail(c) \/ ServerFinish(c)
      PROVE  [Shared!Next]_sharedVars
  <2>1. UNCHANGED <<cache, clientVars>> /\ spc[c] \in {"read", "append", "finish"}
    BY <1>9 DEF ServerAppend, ServerFail, ServerFinish
  <2>2. /\ pair[c] = c /\ url[c] \in Urls /\ cache[url[c]] = c /\ ~full[c]
        /\ \A u \in Urls : cache[u] = c <=> u = url[c]
    BY <1>b, <1>c, <1>d, <2>1, ProxyAssumption
  <2>3. Phase' = Phase
    BY <2>1, PhaseStays
  <2>4. late' = late
    BY <1>9, <1>a, <2>1, LateStays
  <2>5. Delivered' = Delivered
    BY <2>1, <2>3 DEF Delivered
  <2>6. FetchState[url[c]] = "running" /\ Content[url[c]] = size[c]
    BY <2>1, <2>2, ProxyAssumption DEF FetchState, Fate, FetchFailed, Content
  <2>7. \A e \in Clients \ {c} : Fate(e)' = Fate(e)
    <3>1. \A e \in Clients \ {c} : spc'[e] = spc[e] /\ full'[e] = full[e]
      BY <1>9, <1>a, <2>2 DEF ServerAppend, ServerFail, ServerFinish, ServerReturn
    <3>2. QED
      BY <2>1, <3>1 DEF Fate, FetchFailed
  <2>8. ASSUME NEW fate, Fate(c)' = fate
        PROVE  FetchState' = [FetchState EXCEPT ![url[c]] = fate]
    BY <1>b, <2>1, <2>2, <2>7, <2>8, FateMoves, ProxyAssumption
  <2>9. CASE ServerAppend(c)
    <3>1. size' = [size EXCEPT ![c] = size[c] + rec[c]] /\ full' = full
      BY <2>2, <2>9 DEF ServerAppend
    <3>2. Content' = [Content EXCEPT ![url[c]] = Content[url[c]] + rec[c]]
      BY <1>a, <2>1, <2>2, <2>6, <3>1, ProxyAssumption DEF Content
    <3>3. CASE spc' = [spc EXCEPT ![c] = "bcast"]
      <4>1. Fate(c)' = Fate(c)
        BY <1>a, <2>1, <2>2, <3>1, <3>3 DEF Fate, FetchFailed
      <4>2. FetchState' = FetchState
        BY <2>1, <2>2, <2>7, <4>1, <1>b DEF FetchState
      <4>3. QED
        BY <1>a, <2>1, <2>2, <2>3, <2>4, <2>5, <2>6, <3>2, <4>2
           DEF Shared!Next, Shared!Receive, Shared!clientVars
    <3>4. CASE spc' = [spc EXCEPT ![c] = "leaked"]
      <4>1. Fate(c)' = "failed"
        BY <1>a, <2>2, <3>1, <3>4 DEF Fate, FetchFailed
      <4>2. QED
        BY <1>a, <2>1, <2>2, <2>3, <2>4, <2>5, <2>6, <2>8, <3>2, <4>1
           DEF Shared!Next, Shared!Receive, Shared!clientVars
    <3>5. QED
      BY <2>9, <3>3, <3>4 DEF ServerAppend
  <2>10. CASE ServerFail(c)
    <3>1. size' = size /\ full' = full /\ spc' = [spc EXCEPT ![c] = "exit"]
      BY <2>10 DEF ServerFail, ServerReturn
    <3>2. Fate(c)' = "failed"
      BY <1>a, <2>2, <3>1 DEF Fate, FetchFailed
    <3>3. Content' = [Content EXCEPT ![url[c]] = Content[url[c]] + 0]
      BY <1>a, <2>1, <2>2, <2>6, <3>1 DEF Content
    <3>4. 0 \in 0..BufferSize
      BY ProxyAssumption
    <3>5. QED
      BY <2>1, <2>2, <2>3, <2>4, <2>5, <2>6, <2>8, <3>2, <3>3, <3>4
         DEF Shared!Next, Shared!Receive, Shared!clientVars
  <2>11. CASE ServerFinish(c)
    <3>1. size' = size /\ full' = [full EXCEPT ![c] = TRUE]
      BY <2>2, <2>11 DEF ServerFinish
    <3>2. Fate(c)' = "complete"
      BY <1>a, <3>1 DEF Fate
    <3>3. Content' = Content
      BY <2>1, <3>1 DEF Content
    <3>4. QED
      BY <2>1, <2>2, <2>3, <2>4, <2>5, <2>6, <2>8, <3>2, <3>3
         DEF Shared!Next, Shared!Complete, Shared!clientVars
  <2>12. QED
    BY <1>9, <2>9, <2>10, <2>11
\* A pair that has moved is the end of what is described, and changes nothing.
<1>10. ASSUME NEW c \in Clients, ClientDestroy(c) \/ ClientFault(c) \/ ServerFault(c), Remembers
       PROVE  [Shared!Next]_sharedVars
  <2>1. UNCHANGED <<mapVars, entryVars, clientVars, serverVars>>
    BY <1>10, <1>e DEF ClientDestroy, ClientFault, ServerFault
  <2>2. late' = late
    BY <1>10, <1>a, <2>1, LateStays
  <2>3. QED
    BY <2>1, <2>2 DEF Phase, Delivered, FetchState, Fate, Content, FetchFailed
<1>11. ASSUME Collector PROVE FALSE
  BY <1>11 DEF Collector, GcWake, GcNext, GcCollect, GcDestroy, GcSleep, GcFault, Known, NoPass
<1>12. CASE UNCHANGED vars /\ (Remembers \/ UNCHANGED late)
  <2>1. late' = late
    BY <1>12, LateStays DEF vars
  <2>2. QED
    BY <1>12, <2>1 DEF vars, Phase, Delivered, FetchState, Fate, Content, FetchFailed
<1>13. QED
  BY <1>1, <1>2, <1>3, <1>4, <1>5, <1>6, <1>7, <1>8, <1>9, <1>10, <1>11, <1>12
     DEF DeliveryNext, Next, Step, Halted, ClientLookup, ClientInternal, ClientExternal,
         ServerInternal, ServerExternal

\* Before the first pass the proxy implements a shared fetch.
THEOREM DeliveryCorrect == ASSUME ~CollectorRuns PROVE DeliverySpec => ImplementsSharedFetch
<1>1. DeliverySpec => Spec
  <2>1. DeliveryInit => Init
    BY DEF DeliveryInit
  <2>2. [DeliveryNext]_<<vars, late>> => [Next]_vars
    BY DEF DeliveryNext
  <2>3. QED
    BY <2>1, <2>2, PTL DEF DeliverySpec, Spec
<1>p. Spec => []NoPass
  <2>1. Init => NoPass
    BY DEF Init, NoPass, NoneReleased
  <2>2. NoPass /\ [Next]_vars => NoPass'
    BY NoPassStep
  <2>3. QED
    BY <2>1, <2>2, PTL DEF Spec
<1>q. NoPass => NoneReleased
  BY DEF NoPass
<1>2. DeliverySpec => [](Base /\ RefCountExact /\ Quiet /\ NoPass)
  BY <1>1, <1>p, <1>q, BaseCorrect, RefCountCorrect, QuietCorrect, PTL
<1>3. /\ Base /\ Base' /\ RefCountExact /\ Quiet /\ NoPass
      /\ Delivering /\ [DeliveryNext]_<<vars, late>>
      => Delivering'
  BY DeliveringStep
<1>4. DeliverySpec => []Delivering
  BY <1>2, <1>3, DeliveringInit, PTL DEF DeliverySpec
<1>5. DeliverySpec => []Known
  BY <1>2, <1>4, PTL DEF Known
<1>6. RefCountExact /\ Known /\ Known' /\ [DeliveryNext]_<<vars, late>>
      => [Shared!Next]_sharedVars
  BY SharedStep
<1>7. DeliverySpec => Shared!Init /\ [][Shared!Next]_sharedVars
  BY <1>2, <1>5, <1>6, SharedInit, PTL DEF DeliverySpec
<1>8. QED
  BY <1>7 DEF ImplementsSharedFetch, Shared!Spec, sharedVars, Shared!clientVars, Shared!urlVars

=============================================================================
