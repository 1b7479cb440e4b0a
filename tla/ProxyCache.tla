------------------------------ MODULE ProxyCache ------------------------------
(***************************************************************************)
(* The caching core of the HTTP proxy in task3/src: the threads that run   *)
(* client_handler, the threads that run server_handler, the garbage        *)
(* collector thread, and the cache of reference-counted entries they share.*)
(*                                                                         *)
(* Granularity.  A region under a mutex or a rwlock in which the code never*)
(* blocks is one step, and its guard is that the lock is free.  Three locks*)
(* are visible between steps because they are held there: cache->lock,     *)
(* write-locked for a whole collector pass (gpc # "idle"); entry->lock,    *)
(* read-locked during write() to a client (pc[c] = "send"); and            *)
(* entry->mutex, which one return path of send_cached_content keeps        *)
(* (emutex).  An unlocked read of shared data is a step of its own.        *)
(*                                                                         *)
(* An entry is named by the client whose cache miss created it; a client   *)
(* thread serves one connection, so it creates at most one.  The server    *)
(* thread a client starts is named by the client too.  A Pair_t obtained   *)
(* from the map is named by its entry, but it is an address inside the map,*)
(* which moves its elements when one is inserted or deleted: stale says for*)
(* whom that may have happened since he looked his pair up.  Through such a*)
(* pair a thread may still find its element, or not.                       *)
(*                                                                         *)
(* Memory errors.  The first access to a freed entry, through a NULL pair, *)
(* through a pair whose element has moved away, or to the stack frame of a *)
(* thread that has returned sets fault, and nothing happens afterwards: the*)
(* properties describe executions up to the first such access.             *)
(***************************************************************************)
EXTENDS Integers, FiniteSets

CONSTANTS
  Clients,            \* the connections, each with its client_handler thread
  Urls,               \* the URLs requested
  None,               \* NULL, and "nobody"
  BufferSize,         \* largest read from a server, in units of content
  MaxEntryCapacity,   \* MAX_CACHE_ENTRY_CAPCITY, in the same units
  MaxResponse,        \* bound: units of content one entry receives at most
  CollectorRuns       \* FALSE: the first TIME_TO_CLEAR seconds, before any pass

ASSUME ProxyAssumption ==
  /\ IsFiniteSet(Clients)
  /\ None \notin Clients \cup Urls
  /\ BufferSize \in Nat \ {0}
  /\ MaxEntryCapacity \in Nat
  /\ BufferSize < MaxEntryCapacity
  /\ MaxResponse \in Nat
  /\ CollectorRuns \in BOOLEAN

VARIABLES
  cache,      \* the map: URL -> entry, None where there is no element
  stale,      \* the clients whose pair may have moved since they looked it up
  gstale,     \* the element the collector looks at may have moved
  life,       \* entry memory: "unborn", "live", "doomed" (count hit 0), "freed"
  ref,        \* entry->ref_counter
  released,   \* entry->is_realeased_by_gb
  full,       \* entry->is_full_content
  size,       \* vector_size(*entry->content)
  fits,       \* entry->is_corresponds_to_cache_size
  emutex,     \* the client that returned without unlocking entry->mutex
  pc,         \* where client_handler stands
  url,        \* the requested URL
  pair,       \* client_handler's pair, also what args.pair points to
  towrite,    \* to_write of send_cached_content
  written,    \* written_counter of send_cached_content
  spc,        \* where the server_handler started by the client stands
  rec,        \* rec_size, the units last read
  parsed,     \* parseStateMsg = MsgParsed in server_handler
  gpc,        \* where the collector stands; not "idle": it holds cache->lock
  todo,       \* elements hashmap_iter has still to return in this pass
  gpair,      \* the element the collector looks at
  fault       \* the undefined behaviour reached, "none" before

entryVars  == <<life, ref, released, full, size, fits, emutex>>
clientVars == <<pc, url, pair, towrite, written>>
serverVars == <<spc, rec, parsed>>
gcVars     == <<gpc, todo, gpair>>
mapVars    == <<cache, stale, gstale>>
vars == <<mapVars, entryVars, clientVars, serverVars, gcVars, fault>>

ClientPc == {"recv", "lookup", "connect", "fetch", "acquire", "size", "test",
             "wait", "woken", "flag", "send", "release", "destroy", "done"}
ServerPc == {"none", "created", "acquire", "read", "append", "bcast",
             "finish", "leaked", "exit"}
GcPc     == {"idle", "next", "collect", "destroy"}

Init ==
  /\ cache = [u \in Urls |-> None]
  /\ stale = {} /\ gstale = FALSE
  /\ life = [e \in Clients |-> "unborn"]
  /\ ref = [e \in Clients |-> 0]
  /\ released = [e \in Clients |-> FALSE]
  /\ full = [e \in Clients |-> FALSE]
  /\ size = [e \in Clients |-> 0]
  /\ fits = [e \in Clients |-> TRUE]
  /\ emutex = [e \in Clients |-> None]
  /\ pc = [c \in Clients |-> "recv"]
  /\ url = [c \in Clients |-> None]
  /\ pair = [c \in Clients |-> None]
  /\ towrite = [c \in Clients |-> 0]
  /\ written = [c \in Clients |-> 0]
  /\ spc = [c \in Clients |-> "none"]
  /\ rec = [c \in Clients |-> 0]
  /\ parsed = [c \in Clients |-> FALSE]
  /\ gpc = "idle"
  /\ todo = {}
  /\ gpair = None
  /\ fault = "none"

-----------------------------------------------------------------------------
(* The locks and the memory of an entry *)

\* cache->lock can be taken: only a collector pass holds it between steps.
CacheLockFree == gpc = "idle"

\* The memory behind a Pair_t pointer can be accessed.
Usable(e) == e # None /\ life[e] # "freed"

\* entry->mutex can be taken, and touching it is defined.
CanLock(e) == Usable(e) /\ emutex[e] = None

\* Two URLs have been asked for, so the map may have held two elements.
SeveralUrls == \E c, d \in Clients : {url[c], url[d]} \subseteq Urls /\ url[c] # url[d]

\* Whose address inside the map is still in use, by him or his server_handler.
PairHolders ==
  {c \in Clients : /\ pair[c] # None
                   /\ pc[c] = "done" => spc[c] \notin {"none", "leaked", "exit"}}

\* hashmap_delete(cache->cache, pair): the element with the pair's URL leaves
\* the map, whichever entry it is.  The elements behind it move up and the map
\* may shrink: nobody's pair is safe any more, the caller's own included, unless
\* it was the only element there ever was.  A pass in progress iterates over the
\* same buckets, and may miss elements now or come upon some again.
HashmapDelete(e) ==
  /\ cache' = [cache EXCEPT ![url[e]] = None]
  /\ stale' = IF SeveralUrls THEN stale \cup PairHolders ELSE stale
  /\ gstale' = (gstale \/ (SeveralUrls /\ gpair # None))
  /\ todo' \in SUBSET {u \in Urls \ {url[e]} : gpc # "idle" /\ cache[u] # None}

\* Mutant of DropReference: hashmap_delete is forgotten.
DropReferenceKeepElement(e) ==
  /\ ref' = [ref EXCEPT ![e] = @ - 1]
  /\ life' = IF ref[e] = 1 THEN [life EXCEPT ![e] = "doomed"] ELSE life
  /\ UNCHANGED <<mapVars, todo>>

\* Mutant of DropReference: the counter is compared with 1 after the decrement.
DropReferenceEarly(e) ==
  /\ ref' = [ref EXCEPT ![e] = @ - 1]
  /\ IF ref[e] <= 2
     THEN life' = [life EXCEPT ![e] = "doomed"] /\ HashmapDelete(e)
     ELSE UNCHANGED <<life, mapVars, todo>>

\* ref_counter-- of a thread that deletes the element when it reaches 0.
DropReference(e) ==
  /\ ref' = [ref EXCEPT ![e] = @ - 1]
  /\ IF ref[e] = 1
     THEN life' = [life EXCEPT ![e] = "doomed"] /\ HashmapDelete(e)
     ELSE UNCHANGED <<life, mapVars, todo>>

-----------------------------------------------------------------------------
(* client_handler *)

Goto(c, label) == pc' = [pc EXCEPT ![c] = label]

\* receive_parsed_request returned a request for u, or an error.
ClientReceive(c) ==
  /\ pc[c] = "recv"
  /\ \/ \E u \in Urls : url' = [url EXCEPT ![c] = u] /\ Goto(c, "lookup")
     \/ Goto(c, "done") /\ UNCHANGED url
  /\ UNCHANGED <<mapVars, entryVars, pair, towrite, written, serverVars, gcVars, fault>>

\* hashmap_set of a new element for client c: it may push others from their
\* buckets, or make the map grow, and it may take a bucket that a deleted
\* element has left.
HashmapSet(c) ==
  /\ cache' = [cache EXCEPT ![url[c]] = c]
  /\ stale' = stale \cup PairHolders
  /\ UNCHANGED gstale

\* Mutant of ClientMiss: the map is not consulted again before the insertion,
\* as if get and set were two critical sections.
ClientMissUnchecked(c) ==
  /\ pc[c] = "lookup" /\ CacheLockFree
  /\ HashmapSet(c)
  /\ life' = [life EXCEPT ![c] = "live"]
  /\ ref' = [ref EXCEPT ![c] = 1]
  /\ Goto(c, "connect")
  /\ UNCHANGED <<released, full, size, fits, emutex, url, pair, towrite, written,
                 serverVars, gcVars, fault>>

\* hashmap_get_or_set finds nothing and inserts a fresh entry, counted once
\* for the map itself.
ClientMiss(c) ==
  /\ pc[c] = "lookup" /\ CacheLockFree
  /\ cache[url[c]] = None
  /\ HashmapSet(c)
  /\ life' = [life EXCEPT ![c] = "live"]
  /\ ref' = [ref EXCEPT ![c] = 1]
  /\ Goto(c, "connect")
  /\ UNCHANGED <<released, full, size, fits, emutex, url, pair, towrite, written,
                 serverVars, gcVars, fault>>

\* hashmap_get_or_set finds an element: its Pair_t is returned, and nothing is
\* counted for the caller yet.
ClientHit(c) ==
  /\ pc[c] = "lookup" /\ CacheLockFree
  /\ cache[url[c]] # None
  /\ pair' = [pair EXCEPT ![c] = cache[url[c]]]
  /\ Goto(c, "acquire")
  /\ UNCHANGED <<mapVars, entryVars, url, towrite, written, serverVars, gcVars, fault>>

\* connect_via_host_name and the write of the request to the server.  On
\* failure the handler returns and leaves its entry in the map.
ClientConnect(c) ==
  /\ pc[c] = "connect"
  /\ Goto(c, "fetch") \/ Goto(c, "done")
  /\ UNCHANGED <<mapVars, entryVars, url, pair, towrite, written, serverVars, gcVars, fault>>

\* The second lookup, under a read lock, and pthread_create of server_handler
\* with the address of the local args.  Nothing checks the pair found.
ClientFetch(c) ==
  /\ pc[c] = "fetch" /\ CacheLockFree
  /\ pair' = [pair EXCEPT ![c] = cache[url[c]]]
  /\ spc' = [spc EXCEPT ![c] = "created"]
  /\ Goto(c, "acquire")
  /\ UNCHANGED <<mapVars, entryVars, url, towrite, written, rec, parsed, gcVars, fault>>

\* Mutant of ClientAcquire: the increment is forgotten.
ClientAcquireUncounted(c) ==
  /\ pc[c] = "acquire" /\ CanLock(pair[c])
  /\ Goto(c, IF fits[pair[c]] THEN "size" ELSE "done")
  /\ UNCHANGED <<mapVars, entryVars, url, pair, towrite, written, serverVars, gcVars,
                 fault>>

\* send_cached_content: the size flag, then ref_counter++ under entry->mutex.
\* The flag changes only in a branch that is never taken (see RecCounter), so
\* its unlocked read and the locked increment are one step.
ClientAcquire(c) ==
  LET e == pair[c] IN
  /\ pc[c] = "acquire" /\ CanLock(e)
  /\ IF fits[e]
     THEN Goto(c, "size") /\ ref' = [ref EXCEPT ![e] = @ + 1]
     ELSE Goto(c, "done") /\ UNCHANGED ref
  /\ UNCHANGED <<mapVars, life, released, full, size, fits, emutex, url, pair, towrite,
                 written, serverVars, gcVars, fault>>

\* to_write = vector_size(*content) under the read lock.
ClientReadSize(c) ==
  /\ pc[c] = "size" /\ Usable(pair[c])
  /\ towrite' = [towrite EXCEPT ![c] = size[pair[c]]]
  /\ Goto(c, "test")
  /\ UNCHANGED <<mapVars, entryVars, url, pair, written, serverVars, gcVars, fault>>

\* Mutant of MustWait: the negation of is_full_content is lost.
MustWaitOnFull(c, t) == written[c] = t /\ full[pair[c]]

\* The condition of the wait loop, for a value t of to_write.
MustWait(c, t) == written[c] = t /\ ~full[pair[c]]

\* The wait loop is entered: to_write may be older than the last append.
ClientTest(c) ==
  /\ pc[c] = "test" /\ CanLock(pair[c])
  /\ Goto(c, IF MustWait(c, towrite[c]) THEN "wait" ELSE "flag")
  /\ UNCHANGED <<mapVars, entryVars, url, pair, towrite, written, serverVars, gcVars, fault>>

\* pthread_cond_wait may return without a broadcast.
ClientSpuriousWakeup(c) ==
  /\ pc[c] = "wait"
  /\ Goto(c, "woken")
  /\ UNCHANGED <<mapVars, entryVars, url, pair, towrite, written, serverVars, gcVars, fault>>

\* pthread_cond_wait returned with entry->mutex held.  If the entry no longer
\* fits, the function returns at once: it neither unlocks nor uncounts.
ClientWoken(c) ==
  LET e == pair[c] IN
  /\ pc[c] = "woken" /\ CanLock(e)
  /\ IF fits[e]
     THEN /\ towrite' = [towrite EXCEPT ![c] = size[e]]
          /\ Goto(c, IF MustWait(c, size[e]) THEN "wait" ELSE "flag")
          /\ UNCHANGED emutex
     ELSE /\ emutex' = [emutex EXCEPT ![e] = c]
          /\ Goto(c, "done")
          /\ UNCHANGED towrite
  /\ UNCHANGED <<mapVars, life, ref, released, full, size, fits, url, pair, written,
                 serverVars, gcVars, fault>>

\* is_full_content is read again, without a lock and against the same to_write;
\* unless all is sent, entry->lock is taken for reading.
ClientFlag(c) ==
  /\ pc[c] = "flag" /\ Usable(pair[c])
  /\ Goto(c, IF written[c] = towrite[c] /\ full[pair[c]] THEN "release" ELSE "send")
  /\ UNCHANGED <<mapVars, entryVars, url, pair, towrite, written, serverVars, gcVars, fault>>

\* Mutant of ClientSend: write() is asked for to_write units, not for the rest.
ClientSendTooMuch(c) ==
  /\ pc[c] = "send" /\ Usable(pair[c])
  /\ \/ \E n \in 1..towrite[c] :
           written' = [written EXCEPT ![c] = @ + n] /\ Goto(c, "size")
     \/ Goto(c, "release") /\ UNCHANGED written
  /\ UNCHANGED <<mapVars, entryVars, url, pair, towrite, serverVars, gcVars, fault>>

\* write() to the client: a part of the rest is sent, or it fails (writing
\* nothing also counts as failure).
ClientSend(c) ==
  /\ pc[c] = "send" /\ Usable(pair[c])
  /\ \/ \E n \in 1..(towrite[c] - written[c]) :
           written' = [written EXCEPT ![c] = @ + n] /\ Goto(c, "size")
     \/ Goto(c, "release") /\ UNCHANGED written
  /\ UNCHANGED <<mapVars, entryVars, url, pair, towrite, serverVars, gcVars, fault>>

\* ref_counter-- under entry->mutex; the last reference deletes the element,
\* without cache->lock.  The locals of send_cached_content are gone.
ClientRelease(c) ==
  LET e == pair[c] IN
  /\ pc[c] = "release" /\ CanLock(e)
  /\ DropReference(e)
  /\ Goto(c, IF ref[e] = 1 THEN "destroy" ELSE "done")
  /\ towrite' = [towrite EXCEPT ![c] = 0] /\ written' = [written EXCEPT ![c] = 0]
  /\ UNCHANGED <<released, full, size, fits, emutex, url, pair, serverVars, gpc,
                 gpair, fault>>

\* destroy_pair, after entry->mutex was unlocked.
ClientDestroy(c) ==
  /\ pc[c] = "destroy" /\ Usable(pair[c])
  /\ life' = [life EXCEPT ![pair[c]] = "freed"]
  /\ Goto(c, "done")
  /\ UNCHANGED <<mapVars, ref, released, full, size, fits, emutex, url, pair, towrite,
                 written, serverVars, gcVars, fault>>

-----------------------------------------------------------------------------
(* server_handler *)

SGoto(c, label) == spc' = [spc EXCEPT ![c] = label]

\* server_handler reads *args, a local of the client_handler that started it,
\* and init_parser reads the entry's content pointer.
ServerStart(c) ==
  /\ spc[c] = "created" /\ pc[c] # "done" /\ Usable(pair[c])
  /\ SGoto(c, "acquire")
  /\ UNCHANGED <<mapVars, entryVars, clientVars, rec, parsed, gcVars, fault>>

ServerAcquire(c) ==
  LET e == pair[c] IN
  /\ spc[c] = "acquire" /\ CanLock(e)
  /\ ref' = [ref EXCEPT ![e] = @ + 1]
  /\ SGoto(c, "read")
  /\ UNCHANGED <<mapVars, life, released, full, size, fits, emutex, clientVars, rec,
                 parsed, gcVars, fault>>

\* rec_counter is initialised and compared, and nothing ever adds to it.
RecCounter == 0

\* read() from the server returns n units.  If these do not fit in an entry, the
\* flag is cleared and the loop left.
ServerRead(c) ==
  LET e == pair[c] IN
  /\ spc[c] = "read"
  /\ \E n \in 1..BufferSize :
       /\ size[e] + n <= MaxResponse
       /\ IF RecCounter + n >= MaxEntryCapacity
          THEN /\ CanLock(e)
               /\ fits' = [fits EXCEPT ![e] = FALSE]
               /\ SGoto(c, "finish")
               /\ UNCHANGED rec
          ELSE /\ rec' = [rec EXCEPT ![c] = n]
               /\ SGoto(c, "append")
               /\ UNCHANGED fits
  /\ UNCHANGED <<mapVars, life, ref, released, full, size, emutex, clientVars, parsed,
                 gcVars, fault>>

\* The thread ends; its locals are gone.
ServerReturn(c) ==
  /\ SGoto(c, "exit")
  /\ rec' = [rec EXCEPT ![c] = 0] /\ parsed' = [parsed EXCEPT ![c] = FALSE]

\* read() returns end of stream or an error: ref_counter-- and return.  Nobody is
\* told, and a count that reaches 0 deletes nothing.
ServerFail(c) ==
  LET e == pair[c] IN
  /\ spc[c] = "read" /\ CanLock(e)
  /\ ref' = [ref EXCEPT ![e] = @ - 1]
  /\ ServerReturn(c)
  /\ UNCHANGED <<mapVars, life, released, full, size, fits, emutex, clientVars,
                 gcVars, fault>>

\* No client holds entry->lock for reading.
NoReader(e) == \A c \in Clients : pc[c] = "send" => pair[c] # e

\* The units read are added to the content under the write lock, then parsed:
\* a parse error returns with the reference still counted; otherwise the
\* message is complete now, or not yet.
ServerAppend(c) ==
  LET e == pair[c] IN
  /\ spc[c] = "append" /\ Usable(e) /\ NoReader(e)
  /\ size' = [size EXCEPT ![e] = @ + rec[c]]
  /\ \/ SGoto(c, "leaked") /\ UNCHANGED parsed
     \/ \E b \in BOOLEAN : parsed' = [parsed EXCEPT ![c] = b] /\ SGoto(c, "bcast")
  /\ UNCHANGED <<mapVars, life, ref, released, full, fits, emutex, clientVars, rec,
                 gcVars, fault>>

\* Mutant of ServerBroadcast: pthread_cond_signal.
ServerSignal(c) ==
  LET waiters == {w \in Clients : pc[w] = "wait" /\ pair[w] = pair[c]} IN
  /\ spc[c] = "bcast" /\ Usable(pair[c])
  /\ IF waiters = {}
     THEN UNCHANGED pc
     ELSE \E w \in waiters : Goto(w, "woken")
  /\ SGoto(c, IF parsed[c] THEN "finish" ELSE "read")
  /\ UNCHANGED <<mapVars, entryVars, url, pair, towrite, written, rec, parsed,
                 gcVars, fault>>

\* pthread_cond_broadcast, without entry->mutex, and the loop condition.
ServerBroadcast(c) ==
  LET e == pair[c] IN
  /\ spc[c] = "bcast" /\ Usable(e)
  /\ pc' = [w \in Clients |->
              IF pc[w] = "wait" /\ pair[w] = e THEN "woken" ELSE pc[w]]
  /\ SGoto(c, IF parsed[c] THEN "finish" ELSE "read")
  /\ UNCHANGED <<mapVars, entryVars, url, pair, towrite, written, rec, parsed,
                 gcVars, fault>>

\* is_full_content = 1 and ref_counter-- under entry->mutex.  No broadcast
\* follows, and a count that reaches 0 deletes nothing.
ServerFinish(c) ==
  LET e == pair[c] IN
  /\ spc[c] = "finish" /\ CanLock(e)
  /\ full' = [full EXCEPT ![e] = TRUE]
  /\ ref' = [ref EXCEPT ![e] = @ - 1]
  /\ ServerReturn(c)
  /\ UNCHANGED <<mapVars, life, released, size, fits, emutex, clientVars, gcVars, fault>>

-----------------------------------------------------------------------------
(* garbage_collector *)

\* The timed wait is over (gar_cond is never signalled): cache->lock is taken
\* for writing and iterate_over_map begins.
GcWake ==
  /\ CollectorRuns
  /\ gpc = "idle"
  /\ gpc' = "next"
  /\ todo' = {u \in Urls : cache[u] # None}
  /\ UNCHANGED <<mapVars, entryVars, clientVars, serverVars, gpair, fault>>

\* hashmap_iter returns the next element.
GcNext ==
  /\ gpc = "next"
  /\ \E u \in todo :
       /\ gpair' = cache[u]
       /\ todo' = todo \ {u}
  /\ gpc' = "collect" /\ gstale' = FALSE
  /\ UNCHANGED <<cache, stale, entryVars, clientVars, serverVars, fault>>

\* The loop body ends, and its local pair is gone.
GcContinue == gpc' = "next" /\ gpair' = None

\* Mutant of GcCollect: is_realeased_by_gb is not tested.
GcCollectAgain ==
  /\ gpc = "collect" /\ CanLock(gpair)
  /\ released' = [released EXCEPT ![gpair] = TRUE]
  /\ DropReference(gpair)
  /\ IF ref[gpair] = 1 THEN gpc' = "destroy" /\ UNCHANGED gpair ELSE GcContinue
  /\ UNCHANGED <<full, size, fits, emutex, clientVars, serverVars, fault>>

\* Under entry->mutex: an entry released by an earlier pass is skipped; from
\* any other the map's own reference is dropped.
GcCollect ==
  /\ gpc = "collect" /\ CanLock(gpair)
  /\ \/ /\ released[gpair]
        /\ GcContinue
        /\ UNCHANGED <<mapVars, life, ref, released, todo>>
     \/ /\ ~released[gpair]
        /\ released' = [released EXCEPT ![gpair] = TRUE]
        /\ DropReference(gpair)
        /\ IF ref[gpair] = 1 THEN gpc' = "destroy" /\ UNCHANGED gpair ELSE GcContinue
  /\ UNCHANGED <<full, size, fits, emutex, clientVars, serverVars, fault>>

\* destroy_pair, after entry->mutex was unlocked.
GcDestroy ==
  /\ gpc = "destroy" /\ Usable(gpair)
  /\ life' = [life EXCEPT ![gpair] = "freed"]
  /\ GcContinue
  /\ UNCHANGED <<mapVars, ref, released, full, size, fits, emutex, clientVars,
                 serverVars, todo, fault>>

\* Mutant of GcSleep: the unlock is forgotten; the next pass starts all the
\* same, for relocking fails at once with EDEADLK, which nobody checks.
GcSleepHolding ==
  /\ gpc = "next" /\ todo = {}
  /\ todo' = {u \in Urls : cache[u] # None}
  /\ UNCHANGED <<mapVars, entryVars, clientVars, serverVars, gpc, gpair, fault>>

\* The iteration is over and cache->lock is unlocked.
GcSleep ==
  /\ gpc = "next" /\ todo = {}
  /\ gpc' = "idle"
  /\ UNCHANGED <<mapVars, entryVars, clientVars, serverVars, todo, gpair, fault>>

-----------------------------------------------------------------------------
(* Undefined behaviour *)

\* What accessing memory through a pair that is not Usable is called.
BadPair(e) == IF e = None THEN "null" ELSE "freed"

\* Client c, or his server_handler, follows the pair to an entry that is not
\* there, or to another element or none, for the one looked up has moved.
PairFault(c) ==
  \/ ~Usable(pair[c]) /\ fault' = BadPair(pair[c])
  \/ c \in stale /\ fault' = "moved"

ClientFault(c) ==
  /\ pc[c] \in {"acquire", "size", "test", "woken", "flag", "send", "release", "destroy"}
  /\ PairFault(c)
  /\ UNCHANGED <<mapVars, entryVars, clientVars, serverVars, gcVars>>

ServerFault(c) ==
  /\ \/ /\ spc[c] = "created" /\ pc[c] = "done"
        /\ fault' = "frame"
     \/ /\ spc[c] \in {"created", "acquire", "read", "append", "bcast", "finish"}
        /\ PairFault(c)
  /\ UNCHANGED <<mapVars, entryVars, clientVars, serverVars, gcVars>>

GcFault ==
  /\ gpc \in {"collect", "destroy"}
  /\ \/ ~Usable(gpair) /\ fault' = BadPair(gpair)
     \/ gstale /\ fault' = "moved"
  /\ UNCHANGED <<mapVars, entryVars, clientVars, serverVars, gcVars>>

\* After undefined behaviour nothing more is said.
Halted == fault # "none" /\ UNCHANGED vars

-----------------------------------------------------------------------------
(* The specification *)

\* Steps of a client thread that wait for nothing outside the process.
ClientLookup(c) == ClientMiss(c) \/ ClientHit(c) \/ ClientFetch(c)
ClientInternal(c) ==
  \/ ClientAcquire(c) \/ ClientReadSize(c) \/ ClientTest(c) \/ ClientWoken(c)
  \/ ClientFlag(c) \/ ClientRelease(c) \/ ClientDestroy(c) \/ ClientFault(c)
ClientExternal(c) ==
  ClientReceive(c) \/ ClientConnect(c) \/ ClientSend(c) \/ ClientSpuriousWakeup(c)

ServerInternal(c) ==
  \/ ServerStart(c) \/ ServerAcquire(c) \/ ServerAppend(c) \/ ServerBroadcast(c)
  \/ ServerFinish(c) \/ ServerFault(c)
ServerExternal(c) == ServerRead(c) \/ ServerFail(c)

Collector == GcWake \/ GcNext \/ GcCollect \/ GcDestroy \/ GcSleep \/ GcFault

Step ==
  \/ \E c \in Clients : \/ ClientLookup(c) \/ ClientInternal(c) \/ ClientExternal(c)
                        \/ ServerInternal(c) \/ ServerExternal(c)
  \/ Collector

Next == (fault = "none" /\ Step) \/ Halted

Spec == Init /\ [][Next]_vars

\* Threads are scheduled, so a step that waits for nothing outside the process
\* is eventually taken if it stays enabled.  The collector sleeps for
\* TIME_TO_CLEAR seconds between passes, far longer than a thread blocked on
\* cache->lock needs to take it, so a lookup that can be made again and again
\* is made.  Nothing is assumed of peers: receiving, connecting, reading from a
\* server and sending to a client may take forever (no timeout is set).
Fairness ==
  /\ \A c \in Clients :
       /\ SF_vars(fault = "none" /\ ClientLookup(c))
       /\ WF_vars(fault = "none" /\ ClientInternal(c))
       /\ WF_vars(fault = "none" /\ ServerInternal(c))
  /\ WF_vars(fault = "none" /\ Collector)

FairSpec == Spec /\ Fairness

-----------------------------------------------------------------------------
(* Properties *)

Types ==
  /\ cache \in [Urls -> Clients \cup {None}]
  /\ stale \in SUBSET Clients /\ gstale \in BOOLEAN
  /\ life \in [Clients -> {"unborn", "live", "doomed", "freed"}]
  /\ ref \in [Clients -> Int]
  /\ released \in [Clients -> BOOLEAN]
  /\ full \in [Clients -> BOOLEAN]
  /\ size \in [Clients -> Nat]
  /\ fits \in [Clients -> BOOLEAN]
  /\ emutex \in [Clients -> Clients \cup {None}]
  /\ pc \in [Clients -> ClientPc]
  /\ url \in [Clients -> Urls \cup {None}]
  /\ pair \in [Clients -> Clients \cup {None}]
  /\ towrite \in [Clients -> Nat]
  /\ written \in [Clients -> Nat]
  /\ spc \in [Clients -> ServerPc]
  /\ rec \in [Clients -> 0..BufferSize]
  /\ parsed \in [Clients -> BOOLEAN]
  /\ gpc \in GcPc
  /\ todo \in SUBSET Urls
  /\ gpair \in Clients \cup {None}
  /\ fault \in {"none", "null", "freed", "frame", "moved"}

\* Every variable has its type, and no reference counter, a uint64_t that is
\* decremented without a test, has wrapped below zero.
TypeOK == Types /\ \A e \in Clients : ref[e] >= 0

\* The threads whose increment of entry e's counter is not yet undone.
ClientsCounted ==
  [e \in Clients |->
     {c \in Clients : /\ pair[c] = e
                      /\ pc[c] \in {"size", "test", "wait", "woken", "flag", "send",
                                    "release"}}]
ServersCounted ==
  [e \in Clients |->
     {c \in Clients : /\ pair[c] = e
                      /\ spc[c] \in {"read", "append", "bcast", "finish", "leaked"}}]

\* The counter is the map's reference, until a pass has dropped it, plus one
\* for every thread between its ++ and its --: so it never wraps below zero,
\* however passes, releases and failing fetches interleave.
RefCountExact ==
  \A e \in Clients :
    life[e] # "unborn" =>
      ref[e] = (IF released[e] THEN 0 ELSE 1)
                 + Cardinality(ClientsCounted[e]) + Cardinality(ServersCounted[e])

\* The map never returns an entry that is being destroyed or is destroyed, nor
\* one of another URL: deletion precedes destroy_pair on both paths.
MappedEntryLive ==
  \A u \in Urls : cache[u] # None => life[cache[u]] = "live" /\ url[cache[u]] = u

\* What one step may do to the memory of an entry.
LifeStep ==
  \A e \in Clients : life'[e] # life[e] =>
    \/ life[e] = "unborn" /\ life'[e] = "live"
    \/ /\ life[e] = "live" /\ life'[e] = "doomed"
       /\ ClientsCounted'[e] = {} /\ ServersCounted'[e] = {}
    \/ life[e] = "doomed" /\ life'[e] = "freed"

\* An entry is given up only when no thread counts it, and it is freed only
\* after that, once: the part of the reference protocol that survives the
\* uncounted lookups.
EntryLifecycle == [][LifeStep]_vars

\* Until a pass has dropped the map's reference of some entry, no thread touches
\* freed memory, a NULL pair or a dead stack frame, although neither lookup counts
\* its caller and args lives on the stack of a thread that does not wait for its
\* reader.  What can go wrong before, and only once a second URL is asked for, is
\* that the map moves an element while somebody keeps its address.
NoFault ==
  (\A e \in Clients : ~released[e]) =>
    fault = "none" \/ (SeveralUrls /\ fault = "moved")

\* A URL is fetched twice only if a pass has dropped the map's reference of an
\* entry of this URL: until then the content of an entry is one response.
OneFetchPerUrl ==
  \A c, d \in Clients :
    spc[c] # "none" /\ spc[d] # "none" /\ url[c] = url[d] /\ c # d =>
      \E e \in Clients : released[e] /\ url[e] = url[c]

\* The content of an entry stays below the limit that cache.h declares.
EntryWithinCapacity == \A e \in Clients : size[e] < MaxEntryCapacity

\* A client thread never stays at a lock or in the process's own code: it ends,
\* or it waits for a peer or for the condition variable.
ClientNeverWedged ==
  \A c \in Clients :
    []<>(pc[c] \in {"recv", "connect", "send", "wait", "done"} \/ fault # "none")

\* Every client that waits when its fetch is about to append is woken, not
\* only one of them: unless the response does not parse, or slow clients hold
\* entry->lock for ever and keep the server from appending.
AppendWakesWaiters ==
  \A c, s \in Clients :
    (pc[c] = "wait" /\ spc[s] = "append" /\ pair[s] = pair[c])
      ~> \/ pc[c] # "wait" \/ fault # "none"
         \/ spc[s] = "leaked"
         \/ [](spc[s] = "append" /\ ~NoReader(pair[s]))

\* A pass ends, so cache->lock is released and lookups go on: no entry mutex
\* is left locked by a thread that has returned.
PassEnds == (gpc # "idle") ~> (gpc = "idle" \/ fault # "none")

=============================================================================
