--------------------------- MODULE MyThreadProofs ---------------------------
(***************************************************************************)
(* Proofs about MyThread, for any number of threads and of addresses: who  *)
(* frees a stack is decided right at every interleaving, a join delivers   *)
(* the result of the thread it waits for, and a cancelled thread does not  *)
(* call its routine again.                                                 *)
(***************************************************************************)
EXTENDS MyThread, TLAPS

\* The places of start_routine that use the stack.
OnStackPc == {"start", "routine", "jumped", "ended", "detached", "jump", "exit"}
ReturnedPc == {"ended", "detached", "jump", "exit", "gone"}

\* Threads have a handle once they are created, and an address belongs to the
\* thread whose handle it is.  What mmap returns is zero.
OwnInv ==
  /\ \A t \in Threads :
       IF t <= thread_num THEN stack[t] \in Stacks /\ pc[t] # "none"
       ELSE pc[t] = "none" /\ calls[t] = 0 /\ got[t] = 0 /\ t \notin held
  /\ \A a \in Stacks : owner[a] # 0 => owner[a] <= thread_num /\ stack[owner[a]] = a
  /\ \A a \in Stacks : owner[a] = 0 => ~isCancelled[a]
  /\ mpc = "poll" => arg \in Threads /\ arg <= thread_num

\* Before the routine returned it was called once, and a thread that comes back
\* from testcancel finds isCancelled set.
OnceInv ==
  /\ RunsOnce
  /\ \A t \in Threads : pc[t] = "start" => calls[t] = 0
  /\ \A t \in Threads : pc[t] = "jumped" /\ OnItsStack(t) => isCancelled[stack[t]]

\* One thread at a time prepares new_context and local_thread.
AloneInv ==
  ~crowded =>
    /\ \A t, u \in Leaving : t = u
    /\ \A t \in Leaving : page = t
    /\ \A t \in Threads : pc[t] = "jump" => local = stack[t]

\* What the struct of a thread says, as long as its stack is its own.
StructInv(t) ==
  OnItsStack(t) =>
    /\ ~notFinished[stack[t]] => pc[t] = "gone"
    /\ pc[t] \in {"detached", "jump"} => isDetached[stack[t]]
    /\ isCancelled[stack[t]] => t \in asked
    /\ pc[t] \in ReturnedPc =>
         retval[stack[t]] = Returned(t) \/ (retval[stack[t]] = Cancelled /\ t \in asked)

\* A running thread has its stack, and so has one main may still join.
CalmInv ==
  Calm =>
    /\ ~fault
    /\ \A t \in Threads : pc[t] \in OnStackPc => OnItsStack(t)
    /\ \A t \in held : OnItsStack(t) /\ ~isDetached[stack[t]]
    /\ \A t \in Threads : t <= thread_num => StructInv(t)
    /\ mpc = "poll" => arg \in held
    /\ JoinGetsResult

IInv == TypeOK /\ OwnInv /\ OnceInv /\ AloneInv /\ CalmInv

\* No thread has been created at the start.
LEMMA IInvInit == Init => IInv
<1> SUFFICES ASSUME Init PROVE IInv
  OBVIOUS
<1> USE ThreadAssumption DEF Init, Threads
<1>1. TypeOK
  <2>1. 0 \in 0..MaxThreads /\ MaxThreads \in Nat
    OBVIOUS
  <2>2. /\ owner \in [Stacks -> 0..MaxThreads]
        /\ retval \in [Stacks -> Results \cup {0}]
        /\ got \in [Threads -> Results \cup {0}]
        /\ calls \in [Threads -> Nat]
    BY <2>1 DEF Results
  <2>3. /\ notFinished \in [Stacks -> BOOLEAN] /\ isDetached \in [Stacks -> BOOLEAN]
        /\ isCancelled \in [Stacks -> BOOLEAN]
        /\ stack \in [Threads -> Stacks \cup {None}]
        /\ pc \in [Threads -> ThreadPc]
    BY DEF ThreadPc
  <2>4. /\ thread_num \in 0..MaxThreads /\ page \in 0..MaxThreads /\ arg \in 0..MaxThreads
        /\ local \in Stacks \cup {None} /\ mpc \in {"idle", "poll"}
        /\ held \in SUBSET Threads /\ asked \in SUBSET Threads
        /\ careless \in BOOLEAN /\ crowded \in BOOLEAN /\ fault \in BOOLEAN
        /\ exited \in BOOLEAN
    BY <2>1
  <2> HIDE DEF Init
  <2> QED
    BY <2>2, <2>3, <2>4 DEF TypeOK
<1>2. OwnInv
  BY DEF OwnInv
<1>3. OnceInv
  BY DEF OnceInv, RunsOnce
<1>4. AloneInv
  BY DEF AloneInv, Leaving
<1>5. CalmInv
  BY DEF CalmInv, OnStackPc, JoinGetsResult
<1> QED
  BY <1>1, <1>2, <1>3, <1>4, <1>5 DEF IInv

\* A fault does not happen while the library is used calmly.
LEMMA FaultKeeps ==
  ASSUME IInv, ~Calm', Fault, careless' \in BOOLEAN
  PROVE  IInv'
BY DEF IInv, Fault, structVars, TypeOK, OwnInv, OnceInv, RunsOnce, AloneInv, Leaving,
       CalmInv, OnItsStack

\* Main's calls keep the invariant.
LEMMA CreateKeeps == ASSUME IInv, NEW a \in Stacks, Create(a) PROVE IInv'
<1> USE ThreadAssumption DEF IInv, Create, Mapped, Goto
<1>0. PICK n \in Threads : n = thread_num + 1
  OBVIOUS
<1>1. n \in Threads /\ owner[a] = 0 /\ thread_num' = n
  BY <1>0 DEF TypeOK
<1>2. TypeOK'
  BY <1>0, <1>1 DEF TypeOK, ThreadPc, Threads
<1>3. OwnInv'
  BY <1>0, <1>1 DEF TypeOK, OwnInv, Threads
<1>4. \A t \in Threads : t # n => (OnItsStack(t))' = OnItsStack(t)
                               /\ (OnItsStack(t) => stack[t] # a)
  BY <1>0, <1>1 DEF TypeOK, OnItsStack, Threads
<1>5. OnceInv'
  BY <1>0, <1>1, <1>4 DEF TypeOK, OwnInv, OnceInv, RunsOnce, OnItsStack, Threads
<1>6. AloneInv'
  BY <1>0, <1>1 DEF TypeOK, OwnInv, AloneInv, Leaving, Threads
<1>7. ASSUME Calm' PROVE CalmInv'
  <2>1. Calm /\ ~fault'
    BY <1>7 DEF Calm, CalmInv
  <2>2. \A t \in Threads : t = n \/ (pc'[t] = pc[t] /\ stack'[t] = stack[t])
    BY <1>0 DEF TypeOK
  <2>3. OnItsStack(n)' /\ pc'[n] = "start"
    BY <1>0, <1>1 DEF TypeOK, OnItsStack
  <2>4. \A t \in Threads : pc'[t] \in OnStackPc => OnItsStack(t)'
    BY <1>4, <2>1, <2>2, <2>3 DEF CalmInv
  <2>5. \A t \in held' : OnItsStack(t)' /\ ~isDetached'[stack'[t]]
    <3> SUFFICES ASSUME NEW t \in held' PROVE OnItsStack(t)' /\ ~isDetached'[stack'[t]]
      OBVIOUS
    <3>1. CASE t = n
      BY <3>1, <2>3, <1>0, <1>1 DEF TypeOK
    <3>2. CASE t # n
      BY <3>2, <1>0, <1>4, <2>1, <2>2 DEF CalmInv, TypeOK
    <3> QED
      BY <3>1, <3>2
  <2>6. \A t \in Threads : t <= thread_num' => StructInv(t)'
    <3> SUFFICES ASSUME NEW t \in Threads, t <= thread_num' PROVE StructInv(t)'
      OBVIOUS
    <3>1. CASE t = n
      <4>1. notFinished'[a] /\ ~isCancelled'[a] /\ stack'[n] = a
        BY <1>0, <1>1 DEF TypeOK, OwnInv
      <4> QED
        BY <3>1, <4>1, <2>3 DEF StructInv, ReturnedPc
    <3>2. CASE t # n
      <4>1. t <= thread_num
        BY <3>2, <1>0, <1>1 DEF Threads, TypeOK
      <4> QED
        BY <3>2, <4>1, <1>0, <1>1, <1>4, <2>1, <2>2 DEF CalmInv, StructInv, TypeOK
    <3> QED
      BY <3>1, <3>2
  <2>7. JoinGetsResult' /\ (mpc' = "poll" => arg' \in held')
    BY <1>7, <2>1 DEF CalmInv, JoinGetsResult
  <2> QED
    BY <2>1, <2>4, <2>5, <2>6, <2>7 DEF CalmInv
<1>8. CalmInv'
  BY <1>7 DEF CalmInv
<1> QED
  BY <1>2, <1>3, <1>5, <1>6, <1>8

\* munmap clears one address and leaves the others alone.
LEMMA UnmapFacts ==
  ASSUME TypeOK, NEW a, Unmap(a)
  PROVE  /\ owner' \in [Stacks -> 0..MaxThreads]
         /\ notFinished' \in [Stacks -> BOOLEAN]
         /\ isDetached' \in [Stacks -> BOOLEAN]
         /\ isCancelled' \in [Stacks -> BOOLEAN]
         /\ retval' \in [Stacks -> Results \cup {0}]
         /\ \A b \in Stacks : b = a => owner'[b] = 0 /\ ~isCancelled'[b]
         /\ \A b \in Stacks : b # a =>
              /\ owner'[b] = owner[b] /\ notFinished'[b] = notFinished[b]
              /\ isDetached'[b] = isDetached[b] /\ isCancelled'[b] = isCancelled[b]
              /\ retval'[b] = retval[b]
<1>1. 0 \in 0..MaxThreads
  BY ThreadAssumption
<1> QED
  BY <1>1 DEF TypeOK, Unmap

\* A step of calm use that unmaps an address unmaps the stack of a thread t that is
\* still mapped, which t no longer uses and main no longer holds.
LEMMA UnmapKeeps ==
  ASSUME IInv, NEW a, Unmap(a), NEW t \in Threads, t <= thread_num,
         UNCHANGED <<thread_num, stack, page, local, calls, asked, careless, crowded,
                     fault, exited>>,
         pc' \in [Threads -> ThreadPc], \A u \in Threads : u # t => pc'[u] = pc[u],
         pc'[t] = pc[t] \/ pc'[t] = "freed",
         held' \subseteq held,
         mpc' \in {"idle", "poll"}, arg' \in 0..MaxThreads,
         mpc' = "poll" => mpc = "poll" /\ arg' = arg,
         got' \in [Threads -> Results \cup {0}],
         \A u \in Threads : got'[u] = got[u] \/ u <= thread_num,
         Calm => /\ a = stack[t] /\ OnItsStack(t)
                 /\ pc'[t] \in {"freed", "gone"} /\ t \notin held'
                 /\ mpc' = "poll" => arg' \in held'
                 /\ JoinGetsResult'
  PROVE  IInv'
<1> USE ThreadAssumption DEF IInv
<1>1. TypeOK'
  BY UnmapFacts DEF TypeOK
<1>2. /\ \A b \in Stacks : b = a => owner'[b] = 0 /\ ~isCancelled'[b]
      /\ \A b \in Stacks : b # a =>
              /\ owner'[b] = owner[b] /\ notFinished'[b] = notFinished[b]
              /\ isDetached'[b] = isDetached[b] /\ isCancelled'[b] = isCancelled[b]
              /\ retval'[b] = retval[b]
  BY UnmapFacts
<1>3. \A u \in Threads : u <= thread_num => stack[u] \in Stacks /\ u # 0
  BY DEF OwnInv, Threads
<1>4. \A u \in Threads : u <= thread_num /\ OnItsStack(u)' => OnItsStack(u) /\ stack[u] # a
  BY <1>2, <1>3 DEF OnItsStack
<1>5. \A u \in Threads : u <= thread_num /\ OnItsStack(u) /\ stack[u] # a => OnItsStack(u)'
  BY <1>2, <1>3 DEF OnItsStack
<1>6. OwnInv'
  <2>1. \A u \in Threads : pc[u] = "none" <=> pc'[u] = "none"
    BY DEF OwnInv
  <2>2. \A u \in Threads : IF u <= thread_num THEN stack[u] \in Stacks /\ pc'[u] # "none"
                           ELSE pc'[u] = "none" /\ calls[u] = 0 /\ got'[u] = 0 /\ u \notin held'
    BY <2>1 DEF OwnInv
  <2>3. \A b \in Stacks : owner'[b] # 0 => owner'[b] <= thread_num /\ stack[owner'[b]] = b
    BY <1>2 DEF OwnInv
  <2>4. \A b \in Stacks : owner'[b] = 0 => ~isCancelled'[b]
    BY <1>2 DEF OwnInv
  <2> QED
    BY <2>2, <2>3, <2>4 DEF OwnInv
<1>7. OnceInv'
  <2>1. ASSUME NEW u \in Threads, pc'[u] = "jumped", OnItsStack(u)'
        PROVE  isCancelled'[stack'[u]]
    <3>1. pc[u] = "jumped" /\ u <= thread_num
      BY <2>1 DEF OwnInv
    <3> QED
      BY <2>1, <3>1, <1>2, <1>3, <1>4 DEF OnceInv
  <2> QED
    BY <2>1 DEF OnceInv, RunsOnce
<1>8. AloneInv'
  BY DEF AloneInv, Leaving
<1>9. ASSUME Calm' PROVE CalmInv'
  <2>1. Calm
    BY <1>9 DEF Calm
  <2>2. \A u \in Threads : u # t /\ OnItsStack(u) => stack[u] # a
    BY <2>1 DEF OnItsStack
  <2>3. \A u \in Threads : pc'[u] \in OnStackPc => OnItsStack(u)'
    <3> SUFFICES ASSUME NEW u \in Threads, pc'[u] \in OnStackPc PROVE OnItsStack(u)'
      OBVIOUS
    <3>1. u # t /\ pc[u] \in OnStackPc
      BY <2>1 DEF OnStackPc
    <3>2. u <= thread_num
      BY <3>1 DEF OwnInv, OnStackPc
    <3> QED
      BY <3>1, <3>2, <2>1, <2>2, <1>5 DEF CalmInv
  <2>4. \A u \in held' : OnItsStack(u)' /\ ~isDetached'[stack'[u]]
    <3> SUFFICES ASSUME NEW u \in held' PROVE OnItsStack(u)' /\ ~isDetached'[stack'[u]]
      OBVIOUS
    <3>1. u # t /\ u \in Threads /\ u <= thread_num /\ OnItsStack(u) /\ ~isDetached[stack[u]]
      BY <2>1 DEF CalmInv, OwnInv, TypeOK
    <3> QED
      BY <3>1, <2>2, <1>2, <1>3, <1>5
  <2>5. \A u \in Threads : u <= thread_num => StructInv(u)'
    <3> SUFFICES ASSUME NEW u \in Threads, u <= thread_num, OnItsStack(u)'
                 PROVE  StructInv(u)'
      BY DEF StructInv
    <3>1. OnItsStack(u) /\ stack[u] # a /\ u # t /\ stack[u] \in Stacks /\ StructInv(u)
      BY <2>1, <1>3, <1>4 DEF CalmInv
    <3> QED
      BY <3>1, <1>2 DEF StructInv
  <2> QED
    BY <2>1, <2>3, <2>4, <2>5 DEF CalmInv
<1>10. CalmInv'
  BY <1>9 DEF CalmInv
<1> QED
  BY <1>1, <1>6, <1>7, <1>8, <1>10

\* A join that ends frees the stack of a thread that is gone.
LEMMA JoinEndKeeps == ASSUME IInv, JoinEnd PROVE IInv'
<1> USE ThreadAssumption DEF IInv
<1>1. /\ mpc = "poll" /\ arg \in Threads /\ arg <= thread_num /\ stack[arg] \in Stacks
      /\ ~notFinished[stack[arg]] /\ Mapped(stack[arg])
      /\ Unmap(stack[arg])
      /\ got' = [got EXCEPT ![arg] = retval[stack[arg]]]
      /\ mpc' = "idle" /\ arg' = 0 /\ held' = held \ {arg}
      /\ UNCHANGED <<thread_num, stack, pc, page, local, calls, asked, careless, crowded,
                     fault, exited>>
  BY DEF JoinEnd, OwnInv
<1>2. got' \in [Threads -> Results \cup {0}] /\ pc \in [Threads -> ThreadPc]
      /\ held' \subseteq held /\ arg' \in 0..MaxThreads
  BY <1>1 DEF TypeOK
<1>3. Calm => OnItsStack(arg) /\ pc[arg] = "gone" /\ JoinGetsResult'
  BY <1>1 DEF CalmInv, StructInv, ReturnedPc, JoinGetsResult, TypeOK
<1> QED
  BY <1>1, <1>2, <1>3, UnmapKeeps DEF TypeOK

\* It is tested whether the thread is cancelled.
LEMMA StartKeeps == ASSUME IInv, NEW t \in Threads, Start(t) PROVE IInv'
<1> USE ThreadAssumption DEF IInv, Start, Goto, Mapped, structVars, mainVars
<1>1. TypeOK'
  <2>1. Cancelled \in Results /\ t \in Results /\ t \in 0..MaxThreads
    BY DEF Results, Threads, Cancelled
  <2>2. calls[t] + 1 \in Nat
    BY DEF TypeOK
  <2> QED
    BY <2>1, <2>2 DEF TypeOK, ThreadPc
<1>2. OwnInv'
  BY DEF TypeOK, OwnInv
<1>3. OnceInv'
  BY DEF TypeOK, OwnInv, OnceInv, RunsOnce, OnItsStack
<1>4. AloneInv'
  BY DEF TypeOK, AloneInv, Leaving
<1>5. CalmInv'
  BY DEF TypeOK, OwnInv, AloneInv, CalmInv, StructInv, Calm, OnStackPc, ReturnedPc,
         OnItsStack, JoinGetsResult
<1> QED
  BY <1>1, <1>2, <1>3, <1>4, <1>5

\* The thread goes back to getcontext.
LEMMA TestCancelKeeps == ASSUME IInv, NEW t \in Threads, TestCancel(t) PROVE IInv'
<1> USE ThreadAssumption DEF IInv, TestCancel, Goto, Mapped, structVars, mainVars
<1>1. TypeOK'
  BY DEF TypeOK, ThreadPc, Threads, Results
<1>2. OwnInv'
  BY DEF TypeOK, OwnInv
<1>3. OnceInv'
  BY DEF TypeOK, OwnInv, OnceInv, RunsOnce, OnItsStack
<1>4. AloneInv'
  BY DEF TypeOK, AloneInv, Leaving
<1>5. CalmInv'
  BY DEF TypeOK, OwnInv, AloneInv, CalmInv, StructInv, Calm, OnStackPc, ReturnedPc,
         OnItsStack, JoinGetsResult
<1> QED
  BY <1>1, <1>2, <1>3, <1>4, <1>5

\* The routine returns.
LEMMA RoutineReturnKeeps == ASSUME IInv, NEW t \in Threads, RoutineReturn(t) PROVE IInv'
<1> USE ThreadAssumption DEF IInv, RoutineReturn, Goto, Mapped, structVars, mainVars
<1>1. TypeOK'
  <2>1. Cancelled \in Results /\ t \in Results /\ t \in 0..MaxThreads
    BY DEF Results, Threads, Cancelled
  <2>2. calls[t] + 1 \in Nat
    BY DEF TypeOK
  <2> QED
    BY <2>1, <2>2 DEF TypeOK, ThreadPc, Returned
<1>2. OwnInv'
  BY DEF TypeOK, OwnInv, Returned
<1>3. OnceInv'
  BY DEF TypeOK, OwnInv, OnceInv, RunsOnce, OnItsStack, Returned
<1>4. AloneInv'
  BY DEF TypeOK, AloneInv, Leaving, Returned
<1>5. CalmInv'
  BY DEF TypeOK, OwnInv, AloneInv, CalmInv, StructInv, Calm, OnStackPc, ReturnedPc,
         OnItsStack, JoinGetsResult, Returned
<1> QED
  BY <1>1, <1>2, <1>3, <1>4, <1>5

\* The end of a thread looks at isDetached.
LEMMA EndTestKeeps == ASSUME IInv, NEW t \in Threads, EndTest(t) PROVE IInv'
<1> USE ThreadAssumption DEF IInv, EndTest, Goto, Mapped, structVars, mainVars
<1>1. TypeOK'
  <2>1. /\ page' \in 0..MaxThreads /\ crowded' \in BOOLEAN
        /\ pc' \in [Threads -> ThreadPc]
    <3>1. page' \in 0..MaxThreads
      BY DEF TypeOK, Threads
    <3>2. crowded' \in BOOLEAN
      BY DEF TypeOK, Leaving
    <3>3. pc' \in [Threads -> ThreadPc]
      BY DEF TypeOK, ThreadPc
    <3> QED
      BY <3>1, <3>2, <3>3
  <2>2. UNCHANGED <<thread_num, owner, structVars, stack, local, calls, mainVars, fault,
                    exited>>
    OBVIOUS
  <2> QED
    BY <2>1, <2>2 DEF TypeOK
<1>2. OwnInv'
  BY DEF TypeOK, OwnInv
<1>3. OnceInv'
  BY DEF TypeOK, OwnInv, OnceInv, RunsOnce, OnItsStack
<1>4. AloneInv'
  <2>1. CASE ~isDetached[stack[t]]
    BY <2>1 DEF TypeOK, AloneInv, Leaving
  <2>2. CASE isDetached[stack[t]]
    <3>1. ~crowded' => ~crowded /\ Leaving = {}
      BY <2>2 DEF TypeOK
    <3>2. \A u \in Threads : u = t \/ pc'[u] = pc[u]
      BY DEF TypeOK
    <3>3. pc'[t] = "detached" /\ page' = t
      BY <2>2 DEF TypeOK
    <3> QED
      BY <3>1, <3>2, <3>3 DEF AloneInv, Leaving
  <2> QED
    BY <2>1, <2>2
<1>5. CalmInv'
  BY DEF TypeOK, OwnInv, AloneInv, CalmInv, StructInv, Calm, OnStackPc, ReturnedPc,
         OnItsStack, JoinGetsResult
<1> QED
  BY <1>1, <1>2, <1>3, <1>4, <1>5

\* local_thread is set.
LEMMA SetLocalKeeps == ASSUME IInv, NEW t \in Threads, SetLocal(t) PROVE IInv'
<1> USE ThreadAssumption DEF IInv, SetLocal, Goto, Mapped, structVars, mainVars
<1>1. TypeOK'
  BY DEF TypeOK, ThreadPc, Threads, Results
<1>2. OwnInv'
  BY DEF TypeOK, OwnInv
<1>3. OnceInv'
  BY DEF TypeOK, OwnInv, OnceInv, RunsOnce, OnItsStack
<1>4. AloneInv'
  BY DEF TypeOK, AloneInv, Leaving
<1>5. CalmInv'
  BY DEF TypeOK, OwnInv, AloneInv, CalmInv, StructInv, Calm, OnStackPc, ReturnedPc,
         OnItsStack, JoinGetsResult
<1> QED
  BY <1>1, <1>2, <1>3, <1>4, <1>5

\* The kernel clears notFinished.
LEMMA TaskExitKeeps == ASSUME IInv, NEW t \in Threads, TaskExit(t) PROVE IInv'
<1> USE ThreadAssumption DEF IInv, TaskExit, Goto, Mapped, structVars, mainVars
<1>1. TypeOK'
  BY DEF TypeOK, ThreadPc, Threads, Results
<1>2. OwnInv'
  BY DEF TypeOK, OwnInv
<1>3. OnceInv'
  BY DEF TypeOK, OwnInv, OnceInv, RunsOnce, OnItsStack
<1>4. AloneInv'
  BY DEF TypeOK, AloneInv, Leaving
<1>5. CalmInv'
  BY DEF TypeOK, OwnInv, AloneInv, CalmInv, StructInv, Calm, OnStackPc, ReturnedPc,
         OnItsStack, JoinGetsResult
<1> QED
  BY <1>1, <1>2, <1>3, <1>4, <1>5

\* A detached thread frees its own stack.
LEMMA FreeStackKeeps == ASSUME IInv, NEW t \in Threads, FreeStack(t) PROVE IInv'
<1> USE ThreadAssumption DEF IInv
<1>1. /\ pc[t] = "jump" /\ OnItsStack(t) /\ Unmap(local)
      /\ pc' = [pc EXCEPT ![t] = "freed"]
      /\ UNCHANGED <<thread_num, stack, page, local, calls, mpc, arg, got, held, asked,
                     careless, crowded, fault, exited>>
  BY DEF FreeStack, Goto, mainVars
<1>2. t <= thread_num /\ pc' \in [Threads -> ThreadPc] /\ pc'[t] = "freed"
      /\ \A u \in Threads : u # t => pc'[u] = pc[u]
  BY <1>1 DEF OwnInv, TypeOK, ThreadPc
<1>3. Calm => local = stack[t] /\ t \notin held
  BY <1>1, <1>2 DEF Calm, AloneInv, CalmInv, StructInv
<1>4. Calm => (mpc = "poll" => arg \in held) /\ JoinGetsResult'
  BY <1>1 DEF CalmInv, JoinGetsResult, Calm
<1> QED
  BY <1>1, <1>2, <1>3, <1>4, UnmapKeeps DEF TypeOK

\* Main asks for a cancel.
LEMMA CancelKeeps == ASSUME IInv, NEW t \in Threads, Cancel(t) PROVE IInv'
<1> USE ThreadAssumption DEF IInv, Mapped, structVars
<1>1. t <= thread_num /\ careless' \in BOOLEAN /\ (Calm' => Calm /\ t \in held)
  <2>1. Use(t) /\ crowded' = crowded
    BY DEF Cancel, Fault
  <2>2. t \in 1..thread_num /\ thread_num \in Nat
    BY <2>1 DEF Use, TypeOK
  <2>3. ~careless' => ~careless /\ t \in held
    BY <2>1 DEF Use
  <2>4. careless' \in BOOLEAN
    BY <2>1 DEF Use
  <2> QED
    BY <2>1, <2>2, <2>3, <2>4 DEF Calm
<1>2. CASE ~Mapped(stack[t]) /\ Fault
  <2>1. ~Calm'
    BY <1>1, <1>2 DEF CalmInv, OnItsStack, Threads
  <2> QED
    BY <2>1, <1>1, <1>2, FaultKeeps
<1>3. CASE /\ Mapped(stack[t])
           /\ isCancelled' = [isCancelled EXCEPT ![stack[t]] = TRUE]
           /\ asked' = asked \cup {t}
           /\ UNCHANGED <<thread_num, owner, notFinished, isDetached, retval, stack, pc,
                          page, local, calls, mpc, arg, got, held, crowded, fault, exited>>
  <2>1. TypeOK'
    BY <1>1, <1>3 DEF TypeOK
  <2>2. OwnInv' /\ AloneInv'
    BY <1>1, <1>3 DEF TypeOK, OwnInv, AloneInv, Leaving
  <2>3. OnceInv'
    BY <1>1, <1>3 DEF TypeOK, OwnInv, OnceInv, RunsOnce, OnItsStack
  <2>4. ASSUME Calm' PROVE CalmInv'
    <3>1. OnItsStack(t) /\ Calm
      BY <2>4, <1>1 DEF CalmInv
    <3>2. \A u \in Threads : u <= thread_num /\ OnItsStack(u) /\ u # t =>
            isCancelled'[stack[u]] = isCancelled[stack[u]]
      BY <3>1, <1>3 DEF OnItsStack, TypeOK, OwnInv
    <3>3. \A u \in Threads : u <= thread_num => StructInv(u)'
      BY <3>1, <3>2, <1>3 DEF CalmInv, StructInv, OnItsStack
    <3> QED
      BY <3>1, <3>3, <1>3 DEF CalmInv, OnItsStack, JoinGetsResult
  <2>5. CalmInv'
    BY <2>4 DEF CalmInv
  <2> QED
    BY <2>1, <2>2, <2>3, <2>5
<1> QED
  BY <1>2, <1>3 DEF Cancel

\* Main detaches a thread: it holds it no longer.
LEMMA DetachKeeps == ASSUME IInv, NEW t \in Threads, Detach(t) PROVE IInv'
<1> USE ThreadAssumption DEF IInv, Mapped, structVars
<1>1. t <= thread_num /\ careless' \in BOOLEAN /\ (Calm' => Calm /\ t \in held)
  <2>1. Use(t) /\ crowded' = crowded
    BY DEF Detach, Fault
  <2>2. t \in 1..thread_num /\ thread_num \in Nat
    BY <2>1 DEF Use, TypeOK
  <2>3. ~careless' => ~careless /\ t \in held
    BY <2>1 DEF Use
  <2>4. careless' \in BOOLEAN
    BY <2>1 DEF Use
  <2> QED
    BY <2>1, <2>2, <2>3, <2>4 DEF Calm
<1>2. CASE ~Mapped(stack[t]) /\ Fault
  <2>1. ~Calm'
    BY <1>1, <1>2 DEF CalmInv, OnItsStack, Threads
  <2> QED
    BY <2>1, <1>1, <1>2, FaultKeeps
<1>3. CASE /\ Mapped(stack[t])
           /\ isDetached' = [isDetached EXCEPT ![stack[t]] = TRUE]
           /\ held' = held \ {t}
           /\ mpc = "idle"
           /\ UNCHANGED <<thread_num, owner, notFinished, isCancelled, retval, stack, pc,
                          page, local, calls, mpc, arg, got, asked, crowded, fault, exited>>
  <2>1. TypeOK'
    BY <1>1, <1>3 DEF TypeOK
  <2>2. OwnInv' /\ AloneInv'
    BY <1>1, <1>3 DEF TypeOK, OwnInv, AloneInv, Leaving
  <2>3. OnceInv'
    BY <1>1, <1>3 DEF TypeOK, OwnInv, OnceInv, RunsOnce, OnItsStack
  <2>4. ASSUME Calm' PROVE CalmInv'
    <3>1. OnItsStack(t) /\ Calm
      BY <2>4, <1>1 DEF CalmInv
    <3>2. \A u \in Threads : u <= thread_num /\ OnItsStack(u) /\ u # t =>
            isDetached'[stack[u]] = isDetached[stack[u]]
      BY <3>1, <1>3 DEF OnItsStack, TypeOK, OwnInv
    <3>3. \A u \in Threads : u <= thread_num => StructInv(u)'
      BY <3>1, <3>2, <1>3 DEF CalmInv, StructInv, OnItsStack, TypeOK, OwnInv
    <3>4. \A u \in held' : OnItsStack(u)' /\ ~isDetached'[stack'[u]]
      BY <3>1, <3>2, <1>3 DEF CalmInv, OnItsStack, OwnInv, TypeOK
    <3> QED
      BY <3>1, <3>3, <3>4, <1>3 DEF CalmInv, OnItsStack, JoinGetsResult, TypeOK
  <2>5. CalmInv'
    BY <2>4 DEF CalmInv
  <2> QED
    BY <2>1, <2>2, <2>3, <2>5
<1> QED
  BY <1>2, <1>3 DEF Detach, Use

\* Main starts to wait for a thread that is not detached.
LEMMA JoinCallKeeps == ASSUME IInv, NEW t \in Threads, JoinCall(t) PROVE IInv'
<1> USE ThreadAssumption DEF IInv, Mapped, structVars
<1>1. t <= thread_num /\ careless' \in BOOLEAN /\ (Calm' => Calm /\ t \in held)
  <2>1. Use(t) /\ crowded' = crowded
    BY DEF JoinCall, Fault
  <2>2. t \in 1..thread_num /\ thread_num \in Nat
    BY <2>1 DEF Use, TypeOK
  <2>3. ~careless' => ~careless /\ t \in held
    BY <2>1 DEF Use
  <2>4. careless' \in BOOLEAN
    BY <2>1 DEF Use
  <2> QED
    BY <2>1, <2>2, <2>3, <2>4 DEF Calm
<1>2. CASE ~Mapped(stack[t]) /\ Fault
  <2>1. ~Calm'
    BY <1>1, <1>2 DEF CalmInv, OnItsStack, Threads
  <2> QED
    BY <2>1, <1>1, <1>2, FaultKeeps
<1>3. CASE /\ mpc = "idle" /\ (UNCHANGED <<mpc, arg>> \/ (mpc' = "poll" /\ arg' = t))
           /\ UNCHANGED <<thread_num, owner, structVars, stack, pc, page, local, calls,
                          got, held, asked, crowded, fault, exited>>
  <2>1. TypeOK'
    BY <1>1, <1>3 DEF TypeOK, Threads
  <2>2. OwnInv' /\ AloneInv' /\ OnceInv'
    BY <1>1, <1>3 DEF OwnInv, AloneInv, Leaving, OnceInv, RunsOnce, OnItsStack
  <2>3. CalmInv'
    BY <1>1, <1>3 DEF CalmInv, StructInv, OnItsStack, JoinGetsResult
  <2> QED
    BY <2>1, <2>2, <2>3
<1> QED
  BY <1>2, <1>3 DEF JoinCall, Use

\* A poll of memory that is gone, and a thread on a stack that is gone, are not
\* part of calm use.
LEMMA OtherFaultsKeep ==
  ASSUME IInv, JoinFault \/ \E t \in Threads : StackFault(t)
  PROVE  IInv'
<1> USE ThreadAssumption DEF IInv
<1>1. careless' = careless /\ crowded' = crowded /\ Fault
  BY DEF JoinFault, StackFault, Fault
<1>2. CASE JoinFault
  <2>1. ~Calm
    BY <1>2 DEF JoinFault, CalmInv, Mapped, OnItsStack, TypeOK, Threads
  <2> QED
    BY <1>1, <2>1, FaultKeeps DEF Calm, TypeOK
<1>3. ASSUME NEW t \in Threads, StackFault(t) PROVE IInv'
  <2>1. ~Calm
    BY <1>3 DEF StackFault, CalmInv, OnStackPc, Calm, AloneInv, Leaving
  <2> QED
    BY <1>1, <2>1, FaultKeeps DEF Calm, TypeOK
<1> QED
  BY <1>2, <1>3

\* Every step keeps the invariant.
LEMMA StepKeeps == IInv /\ [Next]_vars => IInv'
<1> SUFFICES ASSUME IInv, [Next]_vars PROVE IInv'
  OBVIOUS
<1>1. ASSUME Main PROVE IInv'
  <2>1. ASSUME JoinPoll PROVE UNCHANGED vars
    BY <2>1 DEF JoinPoll
  <2>2. CASE UNCHANGED vars
    BY <2>2 DEF vars, structVars, mainVars, IInv, TypeOK, OwnInv, OnceInv, RunsOnce, AloneInv,
                Leaving, CalmInv, Calm, StructInv, OnItsStack, JoinGetsResult
  <2> QED
    BY <1>1, <2>1, <2>2, CreateKeeps, CancelKeeps, DetachKeeps, JoinCallKeeps, JoinEndKeeps,
       OtherFaultsKeep DEF Main, MainCall
<1>2. ASSUME NEW t \in Threads, Thread(t) PROVE IInv'
  <2>1. ASSUME ContextReturn(t) PROVE IInv'
    BY <2>1 DEF ContextReturn, structVars, mainVars, IInv, TypeOK, OwnInv, OnceInv, RunsOnce,
                AloneInv, Leaving, CalmInv, Calm, StructInv, OnItsStack, JoinGetsResult
  <2> QED
    BY <1>2, <2>1, StartKeeps, TestCancelKeeps, RoutineReturnKeeps, EndTestKeeps,
       SetLocalKeeps, FreeStackKeeps, TaskExitKeeps, OtherFaultsKeep DEF Thread
<1>3. CASE UNCHANGED vars
  BY <1>3 DEF vars, structVars, mainVars, IInv, TypeOK, OwnInv, OnceInv, RunsOnce, AloneInv,
              Leaving, CalmInv, Calm, StructInv, OnItsStack, JoinGetsResult
<1> QED
  BY <1>1, <1>2, <1>3 DEF Next, Halted

\* The invariant holds in every reachable state.
LEMMA IInvAlways == Spec => []IInv
  BY IInvInit, StepKeeps, PTL DEF Spec

\* Every variable has its type.
THEOREM TypeCorrect == Spec => []TypeOK
<1>1. IInv => TypeOK
  BY DEF IInv
<1> QED
  BY <1>1, IInvAlways, PTL

\* Who frees a stack is decided right at every interleaving of main and the
\* threads, as long as main lets each handle go once and detached threads do not
\* end together.
THEOREM NoStackLostUnderUse == Spec => []NoFault
<1>1. IInv => NoFault
  BY DEF IInv, CalmInv, NoFault
<1> QED
  BY <1>1, IInvAlways, PTL

\* A join delivers the result of the thread it waits for.
THEOREM JoinIsRight == Spec => []JoinGetsResult
<1>1. IInv => JoinGetsResult
  BY DEF IInv, CalmInv, JoinGetsResult
<1> QED
  BY <1>1, IInvAlways, PTL

\* A cancelled thread does not call its routine again, however main uses handles.
THEOREM RoutineRunsOnce == Spec => []RunsOnce
<1>1. IInv => RunsOnce
  BY DEF IInv, OnceInv
<1> QED
  BY <1>1, IInvAlways, PTL

=============================================================================
