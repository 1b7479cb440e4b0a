------------------------------- MODULE Uthread -------------------------------
(***************************************************************************)
(* task1/task1-7: user-level threads on one kernel thread.  Each has a     *)
(* stack of its own; they are linked in a ring, and uthread_scheduler,     *)
(* called by the running thread, picks the next one that does not sleep    *)
(* and swaps contexts.                                                     *)
(*                                                                         *)
(* SIGALRM arrives at any place where isSchduler_active is 0 and jumps, by *)
(* setcontext, to the top of uthread_sched_yield on a stack of its own.    *)
(* What was interrupted is saved nowhere: the next swapcontext stores a    *)
(* position on that stack into the context of ulist.curr.                  *)
(*                                                                         *)
(* The code is compiled without optimisation, so that the variables of a   *)
(* call lie on its stack: every call of uthread_scheduler on the signal's  *)
(* stack has the same frame, and finds there what the last one left.       *)
(*                                                                         *)
(* The first access to an unmapped stack or to NULL, or a jump into a call *)
(* that has returned, sets fault and ends the description.  Time is        *)
(* abstract: a sleeping thread becomes due.                                *)
(***************************************************************************)
EXTENDS Naturals

CONSTANTS
  Creates,      \* calls of uthread_create in main (3 in the program)
  Rounds,       \* rounds of the routine (3)
  TimeToClear,  \* timeToClear (30)
  MaxStacks,    \* MAX_STACKS_TO_CLEAR (100)
  Sched,        \* the stack of the signal's context
  None          \* NULL

Workers == 1..Creates
Threads == 0..Creates       \* 0 is main_thread
Places == Threads \cup {Sched}

ASSUME UthreadAssumption ==
  /\ Creates \in Nat /\ Rounds \in Nat
  /\ TimeToClear \in Nat \ {0} /\ MaxStacks \in Nat
  /\ TimeToClear <= MaxStacks
  /\ Sched \notin Threads /\ None \notin Threads

VARIABLES
  first, last, curr,   \* ulist
  next,                \* next of each uthread_t
  isSleep,             \* isSleep of each uthread_t
  due,                 \* its sleeping time is over
  ctx,                 \* what its uctx continues with
  currNum, currTime, stacksArr,   \* stack_list
  mapped,              \* the threads whose stack is mapped
  on, pc,              \* the stack the processor is on, and where it is
  utid_curr,           \* this variable of uthread_scheduler, on each stack
  utid_iter,
  temp,                \* this variable of start_thread
  rounds,              \* i of the routine, per thread
  ended,               \* threads whose routine returned
  created,             \* threads main created
  interrupted,         \* auxiliary: the signal has jumped
  fault, exited        \* undefined behaviour; the process has ended

listVars == <<first, last, curr, next>>
sleepVars == <<isSleep, due>>
clearVars == <<currNum, currTime, stacksArr, mapped>>
callVars == <<utid_curr, utid_iter, temp>>
endVars == <<interrupted, fault, exited>>
vars == <<listVars, sleepVars, ctx, clearVars, on, pc, callVars, rounds, ended, created,
          endVars>>

Init ==
  /\ first = 0 /\ last = 0 /\ curr = 0
  /\ next = [t \in Threads |-> None]
  /\ isSleep = [t \in Threads |-> FALSE]
  /\ due = [t \in Threads |-> FALSE]
  /\ ctx = [t \in Threads |-> IF t = 0 THEN "main" ELSE "start"]
  /\ currNum = 0 /\ currTime = 0
  /\ stacksArr = [i \in 0..(MaxStacks - 1) |-> None]
  /\ mapped = {0}
  /\ on = 0 /\ pc = "create"
  /\ utid_curr = [p \in Places |-> 0] /\ utid_iter = 0 /\ temp = 0
  /\ rounds = [t \in Threads |-> 0] /\ ended = {}
  /\ created = 0
  /\ interrupted = FALSE /\ fault = FALSE /\ exited = FALSE

Fault == fault' = TRUE /\ UNCHANGED <<interrupted, exited>>
Quiet == UNCHANGED endVars
Goto(label) == pc' = label /\ UNCHANGED on

-----------------------------------------------------------------------------
(* main and uthread_create *)

\* The stack, the struct at its end, the context of start_thread; the new thread
\* points to the first one.
Create ==
  /\ on = 0 /\ pc = "create" /\ created < Creates
  /\ created' = created + 1
  /\ mapped' = mapped \cup {created + 1}
  /\ next' = [next EXCEPT ![created + 1] = first]
  /\ Goto("link")
  /\ UNCHANGED <<first, last, curr, sleepVars, ctx, currNum, currTime, stacksArr, callVars,
                 rounds, ended>> /\ Quiet

Link ==
  /\ on = 0 /\ pc = "link"
  /\ next' = [next EXCEPT ![last] = created]
  /\ Goto("last")
  /\ UNCHANGED <<first, last, curr, sleepVars, ctx, clearVars, callVars, rounds, ended,
                 created>> /\ Quiet

SetLast ==
  /\ on = 0 /\ pc = "last"
  /\ last' = created
  /\ Goto(IF created = Creates THEN "sleep" ELSE "create")
  /\ UNCHANGED <<first, curr, next, sleepVars, ctx, clearVars, callVars, rounds, ended,
                 created>> /\ Quiet

-----------------------------------------------------------------------------
(* The routine, uthread_sleep and the end of start_thread *)

\* for (i = 0; i < 3; i++): print and sleep; then start_thread goes on.
Body ==
  /\ on \in Workers /\ pc = "body"
  /\ IF rounds[on] < Rounds
     THEN Goto("sleep") /\ UNCHANGED ended
     ELSE Goto("unlink") /\ ended' = ended \cup {on}
  /\ UNCHANGED <<listVars, sleepVars, ctx, clearVars, callVars, rounds, created>> /\ Quiet

\* uthread_sleep works on ulist.curr: isSleep first,
SleepFlag ==
  /\ on \in Threads /\ pc = "sleep"
  /\ isSleep' = [isSleep EXCEPT ![curr] = TRUE]
  /\ Goto("start")
  /\ UNCHANGED <<listVars, due, ctx, clearVars, callVars, rounds, ended, created>> /\ Quiet

\* then timeToSleep and start.
SleepStart ==
  /\ on \in Threads /\ pc = "start"
  /\ due' = [due EXCEPT ![curr] = FALSE]
  /\ Goto("scheduler")
  /\ UNCHANGED <<listVars, isSleep, ctx, clearVars, callVars, rounds, ended, created>>
  /\ Quiet

\* The threads found by following links from one: those in every set that has it
\* and whatever the threads in it point to.
Reached(from, links) ==
  {t \in Threads : \A S \in SUBSET Threads :
     from \in S /\ (\A u \in S : links[u] # None => links[u] \in S) => t \in S}
Ring == Reached(first, next)

\* Mutants of Unlink: the end of the ring is cut off; the thread that follows is
\* lost too; the thread stays in the ring.
UnlinkNull ==
  /\ on \in Workers /\ pc = "unlink"
  /\ \E t \in Ring \cap Threads : next[t] = on /\ temp' = t /\ next' = [next EXCEPT ![t] = None]
  /\ Goto("relast")
  /\ UNCHANGED <<first, last, curr, sleepVars, ctx, clearVars, utid_curr, utid_iter,
                 rounds, ended, created>> /\ Quiet
UnlinkTwo ==
  /\ on \in Workers /\ pc = "unlink"
  /\ \E t \in Threads : /\ t \in Ring /\ next[t] = on
                     /\ temp' = t
                     /\ next' = [next EXCEPT ![t] = next[next[on]]]
  /\ Goto("relast")
  /\ UNCHANGED <<first, last, curr, sleepVars, ctx, clearVars, utid_curr, utid_iter,
                 rounds, ended, created>> /\ Quiet
UnlinkNot ==
  /\ on \in Workers /\ pc = "unlink"
  /\ \E t \in Ring \cap Threads : next[t] = on /\ temp' = t
  /\ Goto("relast")
  /\ UNCHANGED <<listVars, sleepVars, ctx, clearVars, utid_curr, utid_iter, rounds,
                 ended, created>> /\ Quiet

\* The thread before this one is searched from first and linked to the next one.
Unlink ==
  /\ on \in Workers /\ pc = "unlink"
  /\ \E t \in Threads : /\ t \in Ring /\ next[t] = on
                     /\ temp' = t
                     /\ next' = [next EXCEPT ![t] = next[on]]
  /\ Goto("relast")
  /\ UNCHANGED <<first, last, curr, sleepVars, ctx, clearVars, utid_curr, utid_iter,
                 rounds, ended, created>> /\ Quiet

\* Mutant of Relast: last keeps pointing to the thread that ends.
RelastNot ==
  /\ on \in Workers /\ pc = "relast"
  /\ Goto("push")
  /\ UNCHANGED <<listVars, sleepVars, ctx, clearVars, callVars, rounds, ended,
                 created>> /\ Quiet

Relast ==
  /\ on \in Workers /\ pc = "relast"
  /\ last' = IF on = last THEN temp ELSE last
  /\ Goto("push")
  /\ UNCHANGED <<first, curr, next, sleepVars, ctx, clearVars, callVars, rounds, ended,
                 created>> /\ Quiet

\* The stack this code runs on is put on the list of stacks to unmap.
Push ==
  /\ on \in Workers /\ pc = "push"
  /\ IF currNum < MaxStacks
     THEN /\ stacksArr' = [stacksArr EXCEPT ![currNum] = on]
          /\ Quiet
     ELSE Fault /\ UNCHANGED stacksArr
  /\ Goto("count")
  /\ UNCHANGED <<listVars, sleepVars, ctx, currNum, currTime, mapped, callVars, rounds,
                 ended, created>>

Count ==
  /\ on \in Workers /\ pc = "count"
  /\ currNum' = currNum + 1
  /\ Goto("scheduler")
  /\ UNCHANGED <<listVars, sleepVars, ctx, currTime, stacksArr, mapped, callVars, rounds,
                 ended, created>> /\ Quiet

-----------------------------------------------------------------------------
(* uthread_scheduler.  isSchduler_active is 1 where pc = "select". *)

\* Mutant of Clear: the number of stacks is not reset.
ClearTimeOnly ==
  IF currTime + 1 = TimeToClear
  THEN /\ mapped' = mapped \ {stacksArr[i] : i \in 0..(currNum - 1)}
       /\ currTime' = 0 /\ UNCHANGED currNum
  ELSE currTime' = currTime + 1 /\ UNCHANGED <<mapped, currNum>>

\* At every TimeToClear-th call the stacks on the list are unmapped.
Clear ==
  IF currTime + 1 = TimeToClear
  THEN /\ mapped' = mapped \ {stacksArr[i] : i \in 0..(currNum - 1)}
       /\ currTime' = 0 /\ currNum' = 0
  ELSE currTime' = currTime + 1 /\ UNCHANGED <<mapped, currNum>>

\* The call up to its loop.  The struct of ulist.curr, which lies on its stack,
\* may just have been unmapped, with the stack this runs on; and a thread without
\* a next one leads to NULL.
Enter ==
  /\ pc = "scheduler"
  /\ Clear
  /\ utid_curr' = [utid_curr EXCEPT ![on] = curr]
  /\ IF curr \notin mapped' \/ next[curr] = None
     THEN Fault /\ UNCHANGED utid_iter
     ELSE utid_iter' = next[curr] /\ Quiet
  /\ Goto("select")
  /\ UNCHANGED <<listVars, sleepVars, ctx, stacksArr, temp, rounds, ended, created>>

Following(t) == IF next[t] = None THEN first ELSE next[t]

\* Mutant of Scan: ulist.curr is not set.
ScanKeepCurr ==
  /\ pc = "select"
  /\ IF isSleep[utid_iter] /\ ~due[utid_iter]
     THEN /\ utid_iter' = Following(utid_iter)
          /\ Goto("select")
          /\ UNCHANGED isSleep
     ELSE /\ isSleep' = [isSleep EXCEPT ![utid_iter] = FALSE]
          /\ Goto("switch")
          /\ UNCHANGED utid_iter
  /\ Quiet
  /\ UNCHANGED <<listVars, due, ctx, clearVars, utid_curr, temp, rounds, ended, created>>

\* One round of the loop: a thread that sleeps is passed over, another one is
\* taken.
Scan ==
  /\ pc = "select"
  /\ IF utid_iter \notin mapped
     THEN Fault /\ UNCHANGED <<on, pc, isSleep, curr, utid_iter>>
     ELSE /\ Quiet
          /\ IF isSleep[utid_iter] /\ ~due[utid_iter]
             THEN /\ utid_iter' = Following(utid_iter)
                  /\ Goto("select")
                  /\ UNCHANGED <<isSleep, curr>>
             ELSE /\ isSleep' = [isSleep EXCEPT ![utid_iter] = FALSE]
                  /\ curr' = utid_iter
                  /\ Goto("switch")
                  /\ UNCHANGED utid_iter
  /\ UNCHANGED <<first, last, next, due, ctx, clearVars, utid_curr, temp, rounds, ended,
                 created>>

\* Where a context goes on.  main starts again after its getcontext, but no thread
\* is created beyond the bound Creates.  The frame of a stale context is gone: what
\* lies there may have been written over, or be what the last call left, from the
\* same place, as long as the routine has not returned.
Resume(t, where) ==
  \/ /\ where = "main"
     /\ on' = t /\ pc' = "create" /\ UNCHANGED rounds /\ Quiet
  \/ /\ where = "start"
     /\ on' = t /\ pc' = "body" /\ rounds' = [rounds EXCEPT ![t] = 0] /\ Quiet
  \/ /\ where = "own"
     /\ on' = t /\ pc' = "resumed" /\ UNCHANGED rounds /\ Quiet
  \/ /\ where = "sched"
     /\ on' = Sched /\ pc' = "resumed" /\ UNCHANGED rounds /\ Quiet
  \/ /\ where = "stale" /\ t \notin ended
     /\ on' = t /\ pc' = "resumed" /\ UNCHANGED rounds /\ Quiet
  \/ /\ where = "stale"
     /\ Fault /\ UNCHANGED <<on, pc, rounds>>

\* swapcontext: this position goes to the context of utid_curr, the context of
\* utid_iter goes on.
Switch ==
  /\ pc = "switch"
  /\ ctx' = [ctx EXCEPT ![utid_curr[on]] = IF on = Sched THEN "sched" ELSE "own"]
  /\ Resume(utid_iter, ctx'[utid_iter])
  /\ UNCHANGED <<listVars, sleepVars, clearVars, callVars, ended, created>>

\* After swapcontext utid_curr is looked at again, in the frame of this stack.
Reselect ==
  /\ pc = "resumed"
  /\ LET u == utid_curr[on]
     IN  \/ u \notin mapped /\ Fault /\ UNCHANGED <<on, pc, utid_iter>>
         \/ /\ u \in mapped /\ isSleep[u]
            /\ IF next[u] = None THEN Fault /\ UNCHANGED utid_iter
               ELSE utid_iter' = next[u] /\ Quiet
            /\ Goto("select")
  /\ UNCHANGED <<listVars, sleepVars, ctx, clearVars, utid_curr, temp, rounds, ended,
                 created>>

\* uthread_scheduler returns: into the loop of uthread_sched_yield, to the end of
\* main or of start_thread, which ends the process, or into the routine, where i
\* beyond Rounds is as good as Rounds.
Return ==
  /\ pc = "resumed"
  /\ utid_curr[on] \in mapped /\ ~isSleep[utid_curr[on]]
  /\ \/ /\ on = Sched
        /\ Goto("scheduler") /\ UNCHANGED <<ctx, rounds>> /\ Quiet
     \/ /\ on \in ended \cup {0}
        /\ exited' = TRUE /\ UNCHANGED <<on, pc, ctx, rounds, interrupted, fault>>
     \/ /\ on \in Workers \ ended
        /\ rounds' = [rounds EXCEPT ![on] = IF @ < Rounds THEN @ + 1 ELSE @]
        /\ ctx' = [ctx EXCEPT ![on] = "stale"]
        /\ Goto("body") /\ Quiet
  /\ UNCHANGED <<listVars, sleepVars, clearVars, callVars, ended, created>>

-----------------------------------------------------------------------------
(* The signal and the clock *)

\* alarm_sig_handler, where the scheduler is not active.
Alarm ==
  /\ pc # "select"
  /\ on' = Sched /\ pc' = "scheduler"
  /\ interrupted' = TRUE
  /\ UNCHANGED <<listVars, sleepVars, ctx, clearVars, callVars, rounds, ended, created,
                 fault, exited>>

\* The processor time a thread wants to sleep for has passed.
Elapse(t) ==
  /\ isSleep[t] /\ ~due[t]
  /\ due' = [due EXCEPT ![t] = TRUE]
  /\ UNCHANGED <<listVars, isSleep, ctx, clearVars, on, pc, callVars, rounds, ended,
                 created>> /\ Quiet

Program ==
  \/ Create \/ Link \/ SetLast
  \/ Body \/ SleepFlag \/ SleepStart
  \/ Unlink \/ Relast \/ Push \/ Count
  \/ Enter \/ Scan \/ Switch \/ Reselect \/ Return

Stopped == fault \/ exited
Halted == Stopped /\ UNCHANGED vars

Next ==
  \/ ~Stopped /\ (Program \/ Alarm \/ \E t \in Threads : Elapse(t))
  \/ Halted

Spec == Init /\ [][Next]_vars

\* The program runs, and time passes.
Fairness ==
  /\ WF_vars(~Stopped /\ Program)
  /\ \A t \in Threads : WF_vars(~Stopped /\ Elapse(t))

FairSpec == Spec /\ Fairness

-----------------------------------------------------------------------------
(* Properties *)

\* Every variable has its type.
TypeOK ==
  /\ first \in Threads /\ last \in Threads /\ curr \in Threads
  /\ next \in [Threads -> Threads \cup {None}]
  /\ isSleep \in [Threads -> BOOLEAN] /\ due \in [Threads -> BOOLEAN]
  /\ ctx \in [Threads -> {"main", "start", "own", "stale", "sched"}]
  /\ currNum \in 0..MaxStacks /\ currTime \in 0..(TimeToClear - 1)
  /\ stacksArr \in [0..(MaxStacks - 1) -> Workers \cup {None}]
  /\ mapped \subseteq Threads
  /\ on \in Places
  /\ pc \in {"create", "link", "last", "body", "sleep", "start", "unlink", "relast", "push",
             "count", "scheduler", "select", "switch", "resumed"}
  /\ utid_curr \in [Places -> Threads] /\ utid_iter \in Threads /\ temp \in Threads
  /\ rounds \in [Threads -> 0..Rounds]
  /\ ended \subseteq Workers
  /\ created \in 0..Creates
  /\ interrupted \in BOOLEAN /\ fault \in BOOLEAN /\ exited \in BOOLEAN

\* The array of stacks to unmap never overflows, although nothing compares currNum
\* with MAX_STACKS_TO_CLEAR (uthread.c:151): each push is followed by a call of the
\* scheduler that moves currTime on, wherever the signal comes, and both counters
\* go back to 0 together.
StacksFit ==
  /\ currNum <= currTime + (IF pc = "scheduler" THEN 1 ELSE 0)
  /\ pc = "push" => currNum < MaxStacks

\* A thread that is found from first has its stack, and its struct on it: whatever
\* the signal cuts off in the end of a thread, the stack is on the list only after
\* the thread left the ring.
ListedMapped == \A t \in Ring : t \in mapped

\* start_thread and uthread_sleep take ulist.curr for the thread they run in
\* (uthread.c:128, :137); outside swapcontext it is, after a signal too.
CurrIsRunning == on \in Threads /\ pc # "switch" => curr = on

\* As long as no signal jumped, the ring is whole: a thread that is not the one
\* changing it finds, from first, exactly the threads created and not ended, and
\* last closes it.
RingExact ==
  ~interrupted /\ created = Creates /\ pc \in {"scheduler", "select", "switch"} =>
    Ring = Threads \ ended /\ last \in Ring /\ next[last] = first

\* Without a signal there is one fault: the call of the scheduler at the end of a
\* thread is the TimeToClear-th one and unmaps the stack it runs on
\* (uthread.c:79, :151-153).  With 30 for TimeToClear and the 13 calls this program
\* makes it stays out.
OnlyOwnStackCleared == fault => interrupted \/ (curr \in ended /\ curr \notin mapped)

\* A thread whose time is over runs again, unless the process ends or a signal
\* takes the processor away: the ring is gone round fairly.
Woken ==
  \A t \in Threads : isSleep[t] /\ due[t] ~> (~isSleep[t] \/ interrupted \/ Stopped)

=============================================================================
