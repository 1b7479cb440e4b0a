------------------------------- MODULE MyThread -------------------------------
(***************************************************************************)
(* task1/task1-6: threads made with clone().  The main thread creates      *)
(* them and may cancel, detach and join them by handle, in any order and   *)
(* as often as it likes; each thread runs start_routine.                   *)
(*                                                                         *)
(* A handle is the address of a mapping that holds both the stack of the   *)
(* thread and its mythread_struct_t, so whoever reads a field of the       *)
(* struct needs the mapping, and mmap may return an address again after    *)
(* munmap.  The first access to memory that is not mapped, or that belongs *)
(* to another thread's stack, sets fault and ends the description.         *)
(*                                                                         *)
(* clone() is called without CLONE_SETTLS: the new thread has the thread-  *)
(* local storage of its creator, so that local_thread and new_context,     *)
(* declared thread_local, are one variable each.  A context made with      *)
(* uc_link = NULL ends the whole process when its function returns.        *)
(*                                                                         *)
(* mmap, mprotect, malloc and clone are assumed to succeed.  The return of *)
(* main, which ends the process between two of its calls, is no step: it   *)
(* only cuts a behaviour short.                                            *)
(***************************************************************************)
EXTENDS Naturals, FiniteSets

CONSTANTS
  MaxThreads,   \* bound: calls of mythread_create
  Stacks,       \* the addresses mmap returns
  None          \* NULL, and "nobody"

ASSUME ThreadAssumption == MaxThreads \in Nat /\ None \notin Stacks

\* Threads are named by mythread_id; 0 is no thread.
Threads == 1..MaxThreads

\* What a routine returns: here the thread's own name.  MYTHREAD_CANCELLED.
Returned(t) == t
Cancelled == MaxThreads + 1
Results == Threads \cup {Cancelled}

VARIABLES
  thread_num,    \* threads created
  owner,         \* whose stack is mapped at an address, 0 where none is
  notFinished, isDetached, isCancelled, retval,   \* the struct at an address
  stack,         \* the handle of each thread
  pc,            \* where each thread stands in start_routine
  page,          \* new_context: the thread whose page it names
  local,         \* local_thread.stack
  calls,         \* auxiliary: how often the routine was called for a thread
  mpc, arg,      \* where main stands in mythread_join, and its argument
  got,           \* the value join delivered for a thread
  held,          \* auxiliary: threads neither joined nor detached
  asked,         \* auxiliary: threads main called mythread_cancel on
  careless,      \* auxiliary: main used a handle it had joined or detached
  crowded,       \* auxiliary: a detached thread ended while another one did
  fault,         \* undefined behaviour
  exited         \* the process has ended

structVars == <<notFinished, isDetached, isCancelled, retval>>
mainVars == <<mpc, arg, got, held, asked, careless>>
vars == <<thread_num, owner, structVars, stack, pc, page, local, calls, mainVars,
          crowded, fault, exited>>

Init ==
  /\ thread_num = 0
  /\ owner = [a \in Stacks |-> 0]
  /\ notFinished = [a \in Stacks |-> FALSE]
  /\ isDetached = [a \in Stacks |-> FALSE]
  /\ isCancelled = [a \in Stacks |-> FALSE]
  /\ retval = [a \in Stacks |-> 0]
  /\ stack = [t \in Threads |-> None]
  /\ pc = [t \in Threads |-> "none"]
  /\ page = 0
  /\ local = None
  /\ calls = [t \in Threads |-> 0]
  /\ mpc = "idle" /\ arg = 0
  /\ got = [t \in Threads |-> 0]
  /\ held = {} /\ asked = {} /\ careless = FALSE /\ crowded = FALSE
  /\ fault = FALSE /\ exited = FALSE

Mapped(a) == owner[a] # 0

\* Thread t still has its stack under it.
OnItsStack(t) == owner[stack[t]] = t

Goto(t, label) == pc' = [pc EXCEPT ![t] = label]

Fault ==
  /\ fault' = TRUE
  /\ UNCHANGED <<thread_num, owner, structVars, stack, pc, page, local, calls, mpc, arg,
                 got, held, asked, crowded, exited>>

\* Mutant of Unmap: memory is recycled as it is, and mythread_create does not
\* set isCancelled.
Recycle(a) ==
  /\ owner' = [owner EXCEPT ![a] = 0]
  /\ UNCHANGED structVars

\* munmap.  Whoever gets the address again from mmap finds zeros.
Unmap(a) ==
  /\ owner' = [owner EXCEPT ![a] = 0]
  /\ notFinished' = [notFinished EXCEPT ![a] = FALSE]
  /\ isDetached' = [isDetached EXCEPT ![a] = FALSE]
  /\ isCancelled' = [isCancelled EXCEPT ![a] = FALSE]
  /\ retval' = [retval EXCEPT ![a] = 0]

-----------------------------------------------------------------------------
(* The calls of the main thread *)

\* mythread_create: a mapping, the struct at its end, clone.  isCancelled and
\* retval are not set; they are zero as the memory is.
Create(a) ==
  LET t == thread_num + 1 IN
  /\ mpc = "idle" /\ t \in Threads /\ ~Mapped(a)
  /\ thread_num' = t
  /\ owner' = [owner EXCEPT ![a] = t]
  /\ notFinished' = [notFinished EXCEPT ![a] = TRUE]
  /\ isDetached' = [isDetached EXCEPT ![a] = FALSE]
  /\ stack' = [stack EXCEPT ![t] = a]
  /\ Goto(t, "start")
  /\ held' = held \cup {t}
  /\ UNCHANGED <<isCancelled, retval, page, local, calls, mpc, arg, got, asked, careless,
                 crowded, fault, exited>>

\* Main uses the handle of thread t.
Use(t) ==
  /\ mpc = "idle" /\ t \in 1..thread_num
  /\ careless' = (careless \/ t \notin held)

Cancel(t) ==
  /\ Use(t)
  /\ \/ ~Mapped(stack[t]) /\ Fault
     \/ /\ Mapped(stack[t])
        /\ isCancelled' = [isCancelled EXCEPT ![stack[t]] = TRUE]
        /\ asked' = asked \cup {t}
        /\ UNCHANGED <<thread_num, owner, notFinished, isDetached, retval, stack, pc,
                       page, local, calls, mpc, arg, got, held, crowded, fault, exited>>

Detach(t) ==
  /\ Use(t)
  /\ \/ ~Mapped(stack[t]) /\ Fault
     \/ /\ Mapped(stack[t])
        /\ isDetached' = [isDetached EXCEPT ![stack[t]] = TRUE]
        /\ held' = held \ {t}
        /\ UNCHANGED <<thread_num, owner, notFinished, isCancelled, retval, stack, pc,
                       page, local, calls, mpc, arg, got, asked, crowded, fault, exited>>

\* mythread_join up to its loop: a detached thread is refused.
JoinCall(t) ==
  /\ Use(t)
  /\ \/ ~Mapped(stack[t]) /\ Fault
     \/ /\ Mapped(stack[t])
        /\ IF isDetached[stack[t]]
           THEN UNCHANGED <<mpc, arg>>
           ELSE mpc' = "poll" /\ arg' = t
        /\ UNCHANGED <<thread_num, owner, structVars, stack, pc, page, local, calls,
                       got, held, asked, crowded, fault, exited>>

\* Mutant of JoinEnd: the flag is not waited for.
JoinEndAtOnce ==
  /\ mpc = "poll" /\ Mapped(stack[arg])
  /\ got' = [got EXCEPT ![arg] = retval[stack[arg]]]
  /\ Unmap(stack[arg])
  /\ held' = held \ {arg}
  /\ mpc' = "idle" /\ arg' = 0
  /\ UNCHANGED <<thread_num, stack, pc, page, local, calls, asked, careless,
                 crowded, fault, exited>>

\* The loop ends when notFinished is 0; the value is copied and the mapping
\* removed.
JoinEnd ==
  /\ mpc = "poll" /\ Mapped(stack[arg]) /\ ~notFinished[stack[arg]]
  /\ got' = [got EXCEPT ![arg] = retval[stack[arg]]]
  /\ Unmap(stack[arg])
  /\ held' = held \ {arg}
  /\ mpc' = "idle" /\ arg' = 0
  /\ UNCHANGED <<thread_num, stack, pc, page, local, calls, asked, careless,
                 crowded, fault, exited>>

\* The loop goes round.
JoinPoll ==
  /\ mpc = "poll" /\ Mapped(stack[arg]) /\ notFinished[stack[arg]]
  /\ UNCHANGED vars

\* The flag it polls is no longer mapped.
JoinFault ==
  /\ mpc = "poll" /\ ~Mapped(stack[arg])
  /\ Fault /\ UNCHANGED careless

MainCall == \E t \in Threads : Cancel(t) \/ Detach(t) \/ JoinCall(t)
Main == (\E a \in Stacks : Create(a)) \/ MainCall \/ JoinPoll \/ JoinEnd \/ JoinFault

-----------------------------------------------------------------------------
(* start_routine *)

\* The threads on their way to free their own stack.
Leaving == {t \in Threads : pc[t] \in {"detached", "jump"}}

\* getcontext, where a cancelled thread will come back to, and the test there.
Start(t) ==
  /\ pc[t] \in {"start", "jumped"} /\ OnItsStack(t)
  /\ IF isCancelled[stack[t]]
     THEN /\ retval' = [retval EXCEPT ![stack[t]] = Cancelled]
          /\ Goto(t, "ended")
          /\ UNCHANGED calls
     ELSE /\ calls' = [calls EXCEPT ![t] = @ + 1]
          /\ Goto(t, "routine")
          /\ UNCHANGED retval
  /\ UNCHANGED <<thread_num, owner, notFinished, isDetached, isCancelled, stack, page,
                 local, mainVars, crowded, fault, exited>>

\* Mutant of TestCancel: the flag is consumed.
TestCancelOnce(t) ==
  /\ pc[t] = "routine" /\ OnItsStack(t)
  /\ isCancelled[stack[t]]
  /\ isCancelled' = [isCancelled EXCEPT ![stack[t]] = FALSE]
  /\ Goto(t, "jumped")
  /\ UNCHANGED <<thread_num, owner, notFinished, isDetached, retval, stack, page, local,
                 calls, mainVars, crowded, fault, exited>>

\* The routine calls mythread_testcancel on itself: setcontext.
TestCancel(t) ==
  /\ pc[t] = "routine" /\ OnItsStack(t)
  /\ isCancelled[stack[t]]
  /\ Goto(t, "jumped")
  /\ UNCHANGED <<thread_num, owner, structVars, stack, page, local, calls, mainVars,
                 crowded, fault, exited>>

\* The routine returns.
RoutineReturn(t) ==
  /\ pc[t] = "routine" /\ OnItsStack(t)
  /\ retval' = [retval EXCEPT ![stack[t]] = Returned(t)]
  /\ Goto(t, "ended")
  /\ UNCHANGED <<thread_num, owner, notFinished, isDetached, isCancelled, stack, page,
                 local, calls, mainVars, crowded, fault, exited>>

\* isDetached is read; a detached thread prepares new_context.
EndTest(t) ==
  /\ pc[t] = "ended" /\ OnItsStack(t)
  /\ IF isDetached[stack[t]]
     THEN /\ page' = t /\ Goto(t, "detached")
          /\ crowded' = (crowded \/ Leaving # {})
     ELSE Goto(t, "exit") /\ UNCHANGED <<page, crowded>>
  /\ UNCHANGED <<thread_num, owner, structVars, stack, local, calls, mainVars, fault,
                 exited>>

\* local_thread.stack is set.
SetLocal(t) ==
  /\ pc[t] = "detached" /\ OnItsStack(t)
  /\ local' = stack[t]
  /\ Goto(t, "jump")
  /\ UNCHANGED <<thread_num, owner, structVars, stack, page, calls, mainVars, crowded,
                 fault, exited>>

\* setcontext to the page of new_context; free_stack_of_thread unmaps the stack
\* local_thread names.
FreeStack(t) ==
  /\ pc[t] = "jump" /\ OnItsStack(t) /\ page = t
  /\ Unmap(local)
  /\ Goto(t, "freed")
  /\ UNCHANGED <<thread_num, stack, page, local, calls, mainVars, crowded,
                 fault, exited>>

\* free_stack_of_thread returns: uc_link is NULL.
ContextReturn(t) ==
  /\ pc[t] = "freed"
  /\ exited' = TRUE
  /\ UNCHANGED <<thread_num, owner, structVars, stack, pc, page, local, calls,
                 mainVars, crowded, fault>>

\* Mutant of TaskExit: clone without CLONE_CHILD_CLEARTID.
TaskExitSilent(t) ==
  /\ pc[t] = "exit" /\ OnItsStack(t)
  /\ Goto(t, "gone")
  /\ UNCHANGED <<thread_num, owner, structVars, stack, page, local, calls, mainVars,
                 crowded, fault, exited>>

\* start_routine returns and the kernel ends the thread: CLONE_CHILD_CLEARTID
\* clears notFinished when the thread no longer runs.
TaskExit(t) ==
  /\ pc[t] = "exit" /\ OnItsStack(t)
  /\ notFinished' = [notFinished EXCEPT ![stack[t]] = FALSE]
  /\ Goto(t, "gone")
  /\ UNCHANGED <<thread_num, owner, isDetached, isCancelled, retval, stack, page, local,
                 calls, mainVars, crowded, fault, exited>>

\* A thread runs on a stack that was unmapped, or two threads run on one page.
StackFault(t) ==
  /\ \/ /\ pc[t] \in {"start", "routine", "jumped", "ended", "detached", "jump", "exit"}
        /\ ~OnItsStack(t)
     \/ pc[t] = "jump" /\ page # t
  /\ Fault /\ UNCHANGED careless

Thread(t) ==
  \/ Start(t) \/ TestCancel(t) \/ RoutineReturn(t) \/ EndTest(t) \/ SetLocal(t)
  \/ FreeStack(t) \/ ContextReturn(t) \/ TaskExit(t) \/ StackFault(t)

-----------------------------------------------------------------------------
Stopped == fault \/ exited
Halted == Stopped /\ UNCHANGED vars

Next == (~Stopped /\ (Main \/ \E t \in Threads : Thread(t))) \/ Halted

Spec == Init /\ [][Next]_vars

\* Threads are scheduled, routines return, and main goes on in mythread_join.
Fairness ==
  /\ \A t \in Threads : WF_vars(~Stopped /\ Thread(t))
  /\ WF_vars(~Stopped /\ (JoinEnd \/ JoinFault))

FairSpec == Spec /\ Fairness

-----------------------------------------------------------------------------
(* Properties *)

ThreadPc == {"none", "start", "routine", "jumped", "ended", "detached", "jump", "freed",
             "exit", "gone"}

\* Every variable has its type.
TypeOK ==
  /\ thread_num \in 0..MaxThreads
  /\ owner \in [Stacks -> 0..MaxThreads]
  /\ notFinished \in [Stacks -> BOOLEAN]
  /\ isDetached \in [Stacks -> BOOLEAN]
  /\ isCancelled \in [Stacks -> BOOLEAN]
  /\ retval \in [Stacks -> Results \cup {0}]
  /\ stack \in [Threads -> Stacks \cup {None}]
  /\ pc \in [Threads -> ThreadPc]
  /\ page \in 0..MaxThreads
  /\ local \in Stacks \cup {None}
  /\ calls \in [Threads -> Nat]
  /\ mpc \in {"idle", "poll"}
  /\ arg \in 0..MaxThreads
  /\ got \in [Threads -> Results \cup {0}]
  /\ held \in SUBSET Threads
  /\ asked \in SUBSET Threads
  /\ careless \in BOOLEAN /\ crowded \in BOOLEAN
  /\ fault \in BOOLEAN /\ exited \in BOOLEAN

\* The conditions under which the library works: main lets a handle go with its
\* first mythread_join or mythread_detach, and detached threads do not end at the
\* same time.
Calm == ~careless /\ ~crowded

\* No stack is unmapped under its thread, no freed struct is read, and main never
\* polls a flag that is gone, as long as main uses no handle it has let go and no
\* two detached threads end together: the decision who frees the stack
\* (mythread_create.c:68, :142-149) is then right at every interleaving.
NoFault == Calm => ~fault

\* The value mythread_join delivers is what the thread's own routine returned, or
\* MYTHREAD_CANCELLED for a thread that was cancelled: never the value of a
\* thread that lived at the same address before.
JoinGetsResult ==
  Calm => \A t \in Threads : got[t] # 0 =>
            got[t] = Returned(t) \/ (got[t] = Cancelled /\ t \in asked)

\* mythread_testcancel goes back to the getcontext of start_routine; the routine
\* is not called again from there.
RunsOnce == \A t \in Threads : calls[t] <= 1

\* A call of mythread_join that waits returns, whatever was cancelled before and
\* whichever addresses are used again.
JoinReturns == mpc = "poll" ~> (mpc = "idle" \/ Stopped)

=============================================================================
