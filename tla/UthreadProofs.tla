---------------------------- MODULE UthreadProofs ----------------------------
(***************************************************************************)
(* Proofs about Uthread, for any number of threads and rounds and with the *)
(* signal at any place outside the active scheduler: the array of stacks   *)
(* to unmap does not overflow, the code of a thread finds itself in        *)
(* ulist.curr, and no thread of the ring loses its stack.  Without the     *)
(* signal: the ring is exact, and there is one kind of fault.              *)
(***************************************************************************)
EXTENDS Uthread, TLAPS

SchedulerPc == {"scheduler", "select", "switch", "resumed"}
EndPc == {"unlink", "relast", "push", "count"}

\* Outside swapcontext ulist.curr is the running thread, and utid_curr of a frame
\* on the stack of a thread is that thread.
FrameInv ==
  /\ on \in Threads /\ pc # "switch" => curr = on
  /\ pc = "switch" => utid_iter = curr
  /\ on \in Threads /\ pc \in {"select", "switch", "resumed"} => utid_curr[on] = on
  /\ \A t \in Threads : ctx[t] \in {"own", "stale"} => utid_curr[t] = t
  /\ on = Sched => pc \in SchedulerPc

\* The end of start_thread is reached only when the routine has returned.
RoundsInv == on \in Workers /\ pc \in EndPc => on \in ended

IInv == TypeOK /\ StacksFit /\ FrameInv /\ RoundsInv

\* The program starts in main.
LEMMA IInvInit == Init => IInv
<1> SUFFICES ASSUME Init PROVE IInv
  OBVIOUS
<1>1. TypeOK
  <2>1. 0 \in Threads /\ 0 \in 0..(TimeToClear - 1) /\ 0 \in 0..MaxStacks /\ 0 \in 0..Rounds
    BY UthreadAssumption DEF Threads
  <2>2. /\ first \in Threads /\ last \in Threads /\ curr \in Threads /\ on \in Places
        /\ utid_iter \in Threads /\ temp \in Threads /\ mapped \subseteq Threads
        /\ created \in 0..Creates /\ ended \subseteq Workers
        /\ currNum \in 0..MaxStacks /\ currTime \in 0..(TimeToClear - 1)
        /\ interrupted \in BOOLEAN /\ fault \in BOOLEAN /\ exited \in BOOLEAN
    BY <2>1 DEF Init, Threads, Places
  <2>3. /\ next \in [Threads -> Threads \cup {None}]
        /\ isSleep \in [Threads -> BOOLEAN] /\ due \in [Threads -> BOOLEAN]
        /\ ctx \in [Threads -> {"main", "start", "own", "stale", "sched"}]
        /\ stacksArr \in [0..(MaxStacks - 1) -> Workers \cup {None}]
        /\ utid_curr \in [Places -> Threads]
        /\ rounds \in [Threads -> 0..Rounds]
    BY <2>1 DEF Init
  <2> QED
    BY <2>2, <2>3 DEF TypeOK, Init
<1>2. StacksFit
  BY UthreadAssumption DEF StacksFit, Init
<1>3. FrameInv
  BY UthreadAssumption DEF FrameInv, Init, Threads
<1>4. RoundsInv
  BY DEF Init, Workers, RoundsInv
<1> QED
  BY <1>1, <1>2, <1>3, <1>4 DEF IInv

\* Every step keeps the invariant.
LEMMA StepKeeps == IInv /\ [Next]_vars => IInv'
<1> SUFFICES ASSUME IInv, [Next]_vars PROVE IInv'
  OBVIOUS
<1> USE UthreadAssumption DEF IInv, Goto, Quiet, endVars, listVars, sleepVars, clearVars,
        callVars, Workers, Threads, Places, EndPc, SchedulerPc
<1>1. ASSUME Create PROVE IInv'
  <2>1. /\ on = 0 /\ pc = "create" /\ pc' = "link" /\ created' = created + 1
        /\ created' \in Threads /\ mapped' = mapped \cup {created + 1}
        /\ next' = [next EXCEPT ![created + 1] = first]
        /\ UNCHANGED <<on, first, last, curr, sleepVars, ctx, currNum, currTime, stacksArr,
                       callVars, rounds, ended, interrupted, fault, exited>>
    BY <1>1 DEF Create, TypeOK
  <2>2. created' \in 0..Creates /\ mapped' \subseteq Threads
        /\ next' \in [Threads -> Threads \cup {None}]
    BY <2>1 DEF TypeOK
  <2>3. TypeOK'
    BY <2>1, <2>2 DEF TypeOK
  <2>4. StacksFit' /\ FrameInv' /\ RoundsInv'
    BY <2>1 DEF StacksFit, FrameInv, RoundsInv
  <2> QED
    BY <2>3, <2>4
<1>2. ASSUME Link PROVE IInv'
  BY <1>2 DEF Link, TypeOK, StacksFit, FrameInv, RoundsInv
<1>3. ASSUME SetLast PROVE IInv'
  <2>1. TypeOK'
    BY <1>3 DEF SetLast, TypeOK
  <2>2. StacksFit' /\ FrameInv' /\ RoundsInv'
    BY <1>3 DEF SetLast, StacksFit, FrameInv, RoundsInv
  <2> QED
    BY <2>1, <2>2
<1>4. ASSUME Body PROVE IInv'
  <2>1. on \in Workers /\ pc = "body" /\ pc' \in {"sleep", "unlink"}
        /\ UNCHANGED <<on, listVars, sleepVars, ctx, clearVars, callVars, rounds, created>>
        /\ Quiet
    BY <1>4 DEF Body
  <2>2. IF rounds[on] < Rounds THEN pc' = "sleep" /\ ended' = ended
                               ELSE pc' = "unlink" /\ ended' = ended \cup {on}
    BY <1>4 DEF Body
  <2>3. TypeOK'
    BY <2>1, <2>2 DEF TypeOK
  <2>4. StacksFit' /\ FrameInv'
    BY <2>1 DEF StacksFit, FrameInv
  <2>5. RoundsInv'
    BY <2>1, <2>2 DEF RoundsInv
  <2> QED
    BY <2>3, <2>4, <2>5
<1>5. ASSUME SleepFlag PROVE IInv'
  BY <1>5 DEF SleepFlag, TypeOK, StacksFit, FrameInv, RoundsInv
<1>6. ASSUME SleepStart PROVE IInv'
  BY <1>6 DEF SleepStart, TypeOK, StacksFit, FrameInv, RoundsInv
<1>7. ASSUME Unlink PROVE IInv'
  <2>1. PICK t \in Threads : temp' = t /\ next' = [next EXCEPT ![t] = next[on]]
    BY <1>7 DEF Unlink
  <2> QED
    BY <1>7, <2>1 DEF Unlink, TypeOK, StacksFit, FrameInv, RoundsInv
<1>8. ASSUME Relast PROVE IInv'
  <2>1. /\ on \in Workers /\ pc = "relast" /\ pc' = "push"
        /\ last' \in Threads
        /\ UNCHANGED <<on, first, curr, next, sleepVars, ctx, clearVars, callVars, rounds,
                       ended, created, interrupted, fault, exited>>
    BY <1>8 DEF Relast, TypeOK
  <2>2. TypeOK'
    BY <2>1 DEF TypeOK
  <2>3. FrameInv' /\ RoundsInv'
    BY <2>1 DEF FrameInv, RoundsInv
  <2>4. StacksFit'
    BY <2>1, <1>8 DEF StacksFit, TypeOK
  <2> QED
    BY <2>2, <2>3, <2>4
<1>9. ASSUME Push PROVE IInv'
  <2>1. /\ on \in Workers /\ pc = "push" /\ pc' = "count"
        /\ UNCHANGED <<on, listVars, sleepVars, ctx, currNum, currTime, mapped, callVars,
                       rounds, ended, created, interrupted, exited>>
        /\ fault' \in BOOLEAN
        /\ \/ stacksArr' = stacksArr
           \/ stacksArr' = [stacksArr EXCEPT ![currNum] = on]
    BY <1>9 DEF Push, Fault, TypeOK
  <2>2. stacksArr' \in [0..(MaxStacks - 1) -> Workers \cup {None}]
    BY <2>1 DEF TypeOK
  <2>3. TypeOK'
    BY <2>1, <2>2 DEF TypeOK
  <2>4. StacksFit' /\ FrameInv'
    BY <2>1 DEF StacksFit, FrameInv
  <2>5. RoundsInv'
    BY <2>1 DEF RoundsInv
  <2> QED
    BY <2>3, <2>4, <2>5
<1>10. ASSUME Count PROVE IInv'
  <2>1. /\ on \in Workers /\ pc = "count" /\ pc' = "scheduler" /\ currNum' = currNum + 1
        /\ UNCHANGED <<on, listVars, sleepVars, ctx, currTime, stacksArr, mapped, callVars,
                       rounds, ended, created, interrupted, fault, exited>>
    BY <1>10 DEF Count
  <2>2. StacksFit' /\ currNum' \in 0..MaxStacks
    BY <2>1 DEF TypeOK, StacksFit
  <2>3. TypeOK'
    BY <2>1, <2>2 DEF TypeOK
  <2>4. FrameInv' /\ RoundsInv'
    BY <2>1 DEF FrameInv, RoundsInv
  <2> QED
    BY <2>2, <2>3, <2>4
<1>11. ASSUME Enter PROVE IInv'
  <2>1. StacksFit' /\ currNum' \in 0..MaxStacks /\ currTime' \in 0..(TimeToClear - 1)
    <3>1. pc = "scheduler" /\ pc' = "select"
      BY <1>11 DEF Enter
    <3>2. \/ currTime' = 0 /\ currNum' = 0
          \/ currTime + 1 # TimeToClear /\ currTime' = currTime + 1 /\ currNum' = currNum
      BY <1>11 DEF Enter, Clear
    <3> QED
      BY <3>1, <3>2 DEF TypeOK, StacksFit
  <2>2. mapped' \subseteq Threads
    BY <1>11 DEF Enter, Clear, TypeOK
  <2>3. utid_iter' \in Threads /\ {fault', exited', interrupted'} \subseteq BOOLEAN
    BY <1>11 DEF Enter, Fault, TypeOK
  <2>4. UNCHANGED <<listVars, sleepVars, ctx, stacksArr, temp, rounds, ended, created, on>>
        /\ pc = "scheduler" /\ pc' = "select"
        /\ utid_curr' = [utid_curr EXCEPT ![on] = curr]
    BY <1>11 DEF Enter
  <2>5. TypeOK'
    BY <2>1, <2>2, <2>3, <2>4 DEF TypeOK
  <2>6. FrameInv' /\ RoundsInv'
    BY <2>4 DEF TypeOK, FrameInv, RoundsInv
  <2> QED
    BY <2>1, <2>5, <2>6
<1>12. ASSUME Scan PROVE IInv'
  <2>1. TypeOK'
    BY <1>12 DEF Scan, Following, Fault, TypeOK
  <2>2. StacksFit' /\ FrameInv'
    BY <1>12 DEF Scan, TypeOK, StacksFit, FrameInv
  <2>3. RoundsInv'
    BY <1>12 DEF Scan, RoundsInv
  <2> QED
    BY <2>1, <2>2, <2>3
<1>13. ASSUME Switch PROVE IInv'
  <2>1. /\ pc = "switch" /\ utid_iter \in Threads /\ utid_iter = curr
        /\ ctx' = [ctx EXCEPT ![utid_curr[on]] = IF on = Sched THEN "sched" ELSE "own"]
        /\ UNCHANGED <<listVars, sleepVars, clearVars, callVars, ended, created>>
        /\ Resume(utid_iter, ctx'[utid_iter])
    BY <1>13 DEF Switch, TypeOK, FrameInv
  <2>2. ctx' \in [Threads -> {"main", "start", "own", "stale", "sched"}]
    BY <2>1 DEF TypeOK
  <2>3. \A t \in Threads : ctx'[t] \in {"own", "stale"} => utid_curr[t] = t
    BY <2>1 DEF TypeOK, FrameInv
  <2> QED
    <3> DEFINE where == ctx'[utid_iter]
               Faults == Fault /\ UNCHANGED <<on, pc, rounds>>
               GoesOn == /\ on' = utid_iter /\ pc' = "resumed" /\ UNCHANGED rounds
                         /\ UNCHANGED <<interrupted, fault, exited>>
    <3>1. CASE where \in {"main", "start", "own"} \/ (where = "stale" /\ GoesOn)
      <4>1. /\ on' = utid_iter /\ pc' \in {"create", "body", "resumed"}
            /\ UNCHANGED <<interrupted, fault, exited>>
            /\ pc' = "resumed" => where \in {"own", "stale"}
            /\ \/ rounds' = rounds
               \/ pc' = "body" /\ rounds' = [rounds EXCEPT ![utid_iter] = 0]
        BY <3>1, <2>1 DEF Resume
      <4>2. rounds' \in [Threads -> 0..Rounds]
        <5>1. rounds \in [Threads -> 0..Rounds] /\ 0 \in 0..Rounds
          BY DEF TypeOK
        <5>2. rounds' = rounds \/ rounds' = [rounds EXCEPT ![utid_iter] = 0]
          BY <4>1
        <5> HIDE DEF Threads
        <5> QED
          BY <5>1, <5>2
      <4>3. TypeOK'
        BY <4>1, <4>2, <2>1, <2>2 DEF TypeOK
      <4>4. StacksFit'
        BY <4>1, <2>1, <2>2 DEF TypeOK, StacksFit
      <4>5. FrameInv'
        BY <4>1, <2>1, <2>3 DEF FrameInv
      <4>6. RoundsInv'
        BY <4>1, <2>1 DEF RoundsInv
      <4> QED
        BY <4>3, <4>4, <4>5, <4>6
    <3>2. CASE where = "sched"
      <4>1. on' = Sched /\ pc' = "resumed" /\ UNCHANGED <<rounds, interrupted, fault, exited>>
        BY <3>2, <2>1 DEF Resume
      <4>2. TypeOK'
        BY <4>1, <2>1, <2>2 DEF TypeOK
      <4>3. StacksFit' /\ FrameInv'
        BY <4>1, <2>1, <2>3 DEF StacksFit, FrameInv
      <4>4. RoundsInv'
        BY <4>1, <2>1 DEF RoundsInv
      <4> QED
        BY <4>2, <4>3, <4>4
    <3>3. CASE where = "stale" /\ Faults
      <4>1. fault' = TRUE /\ UNCHANGED <<on, pc, rounds, interrupted, exited>>
        BY <3>3 DEF Fault
      <4>2. TypeOK'
        BY <4>1, <2>1, <2>2 DEF TypeOK
      <4>3. StacksFit' /\ FrameInv'
        BY <4>1, <2>1, <2>3 DEF StacksFit, FrameInv
      <4>4. RoundsInv'
        BY <4>1, <2>1 DEF RoundsInv
      <4> QED
        BY <4>2, <4>3, <4>4
    <3> QED
      <4>1. where \in {"main", "start", "own", "stale", "sched"}
        BY <2>1, <2>2
      <4>2. where = "stale" => GoesOn \/ Faults
        BY <2>1 DEF Resume
      <4> QED
        BY <3>1, <3>2, <3>3, <4>1, <4>2
<1>14. ASSUME Reselect PROVE IInv'
  <2>1. /\ pc = "resumed" /\ on' = on /\ pc' \in {"resumed", "select"}
        /\ utid_iter' \in Threads
        /\ fault' \in BOOLEAN /\ UNCHANGED <<interrupted, exited>>
        /\ UNCHANGED <<listVars, sleepVars, ctx, clearVars, utid_curr, temp, rounds,
                       ended, created>>
    BY <1>14 DEF Reselect, Fault, TypeOK
  <2>2. TypeOK'
    BY <2>1 DEF TypeOK
  <2>3. StacksFit' /\ FrameInv' /\ RoundsInv'
    BY <2>1 DEF StacksFit, FrameInv, RoundsInv
  <2> QED
    BY <2>2, <2>3
<1>15. ASSUME Return PROVE IInv'
  <2>1. /\ pc = "resumed" /\ on' = on
        /\ UNCHANGED <<listVars, sleepVars, clearVars, callVars, ended, created>>
    BY <1>15 DEF Return
  <2>2. CASE on \in Workers \ ended
             /\ rounds' = [rounds EXCEPT ![on] = IF @ < Rounds THEN @ + 1 ELSE @]
             /\ ctx' = [ctx EXCEPT ![on] = "stale"] /\ pc' = "body" /\ Quiet
    <3>1. rounds[on] \in 0..Rounds
      BY <2>1, <2>2 DEF TypeOK
    <3>2. TypeOK'
      <4>1. /\ rounds \in [Threads -> 0..Rounds]
            /\ (IF rounds[on] < Rounds THEN rounds[on] + 1 ELSE rounds[on]) \in 0..Rounds
        BY <3>1 DEF TypeOK
      <4>2. rounds' \in [Threads -> 0..Rounds]
        <5> HIDE DEF Threads
        <5> QED
          BY <2>2, <4>1
      <4>3. ctx' \in [Threads -> {"main", "start", "own", "stale", "sched"}]
        BY <2>2 DEF TypeOK
      <4> QED
        BY <2>1, <2>2, <4>2, <4>3 DEF TypeOK
    <3>3. StacksFit' /\ FrameInv'
      BY <2>1, <2>2 DEF TypeOK, StacksFit, FrameInv
    <3>4. RoundsInv'
      BY <2>1, <2>2 DEF TypeOK, RoundsInv
    <3> QED
      BY <3>2, <3>3, <3>4
  <2>3. CASE UNCHANGED <<ctx, rounds, interrupted, fault>> /\ exited' \in BOOLEAN
             /\ (pc' = "resumed" \/ (on = Sched /\ pc' = "scheduler"))
    <3>1. TypeOK'
      BY <2>1, <2>3 DEF TypeOK
    <3>2. StacksFit'
      BY <2>1, <2>3 DEF TypeOK, StacksFit
    <3>3. FrameInv'
      BY <2>1, <2>3 DEF FrameInv
    <3>4. RoundsInv'
      BY <2>1, <2>3 DEF RoundsInv
    <3> QED
      BY <3>1, <3>2, <3>3, <3>4
  <2> QED
    BY <1>15, <2>2, <2>3 DEF Return, TypeOK
<1>16. ASSUME Alarm PROVE IInv'
  <2>1. TypeOK'
    BY <1>16 DEF Alarm, TypeOK
  <2>2. StacksFit'
    BY <1>16 DEF Alarm, TypeOK, StacksFit
  <2>3. FrameInv' /\ RoundsInv'
    BY <1>16 DEF Alarm, FrameInv, RoundsInv
  <2> QED
    BY <2>1, <2>2, <2>3
<1>17. ASSUME NEW t \in Threads, Elapse(t) PROVE IInv'
  <2>1. TypeOK'
    <3>1. due' \in [Threads -> BOOLEAN]
      BY <1>17 DEF Elapse, TypeOK
    <3>2. UNCHANGED <<listVars, isSleep, ctx, clearVars, on, pc, callVars, rounds, ended,
                      created, endVars>>
      BY <1>17 DEF Elapse
    <3> QED
      BY <3>1, <3>2 DEF TypeOK
  <2>2. StacksFit'
    BY <1>17 DEF Elapse, TypeOK, StacksFit
  <2>3. FrameInv' /\ RoundsInv'
    BY <1>17 DEF Elapse, FrameInv, RoundsInv
  <2> QED
    BY <2>1, <2>2, <2>3
<1>18. CASE UNCHANGED vars
  <2>1. TypeOK'
    BY <1>18 DEF vars, TypeOK
  <2>2. StacksFit'
    BY <1>18 DEF vars, TypeOK, StacksFit
  <2>3. FrameInv' /\ RoundsInv'
    BY <1>18 DEF vars, FrameInv, RoundsInv
  <2> QED
    BY <2>1, <2>2, <2>3
<1> QED
  BY <1>1, <1>2, <1>3, <1>4, <1>5, <1>6, <1>7, <1>8, <1>9, <1>10, <1>11, <1>12, <1>13,
     <1>14, <1>15, <1>16, <1>17, <1>18 DEF Next, Program, Halted

\* The invariant holds in every reachable state.
LEMMA IInvAlways == Spec => []IInv
  BY IInvInit, StepKeeps, PTL DEF Spec

\* Every variable has its type, wherever the signal comes.
THEOREM TypeCorrect == Spec => []TypeOK
<1>1. IInv => TypeOK
  BY DEF IInv
<1> QED
  BY <1>1, IInvAlways, PTL

\* The array of stacks to unmap never overflows (uthread.c:151), for any number of
\* threads, as long as timeToClear is at most MAX_STACKS_TO_CLEAR.
THEOREM ArrayFits == Spec => []StacksFit
<1>1. IInv => StacksFit
  BY DEF IInv
<1> QED
  BY <1>1, IInvAlways, PTL

\* start_thread and uthread_sleep may take ulist.curr for the thread they run in.
THEOREM RunsItself == Spec => []CurrIsRunning
<1>1. IInv => CurrIsRunning
  BY DEF IInv, FrameInv, CurrIsRunning
<1> QED
  BY <1>1, IInvAlways, PTL

-----------------------------------------------------------------------------
(* The ring *)

\* Following the links leads from a thread that is reached to one that is reached,
LEMMA ReachedClosed ==
  ASSUME NEW from \in Threads, NEW links \in [Threads -> Threads \cup {None}]
  PROVE  LET R == Reached(from, links)
         IN  R \subseteq Threads /\ from \in R /\ \A t \in R : links[t] # None => links[t] \in R
  BY DEF Reached

\* and no set that has the first thread and what its threads point to misses any.
LEMMA ReachedLeast ==
  ASSUME NEW from, NEW links, NEW S \in SUBSET Threads, from \in S,
         \A u \in S : links[u] # None => links[u] \in S
  PROVE  Reached(from, links) \subseteq S
  BY DEF Reached

\* Links of threads that are not reached do not matter.
LEMMA ReachedSame ==
  ASSUME NEW from \in Threads, NEW links \in [Threads -> Threads \cup {None}],
         NEW links2 \in [Threads -> Threads \cup {None}],
         \A t \in Reached(from, links) : links2[t] = links[t]
  PROVE  Reached(from, links2) = Reached(from, links)
<1> DEFINE R == Reached(from, links)
           R2 == Reached(from, links2)
<1>1. /\ R \in SUBSET Threads /\ from \in R /\ \A t \in R : links[t] # None => links[t] \in R
      /\ R2 \in SUBSET Threads /\ from \in R2 /\ \A t \in R2 : links2[t] # None => links2[t] \in R2
  BY ReachedClosed
<1>2. R2 \subseteq R
  BY <1>1, ReachedLeast
<1>3. \A t \in R2 : links[t] # None => links[t] \in R2
  BY <1>1, <1>2
<1>4. R \subseteq R2
  BY <1>1, <1>3, ReachedLeast
<1>5. QED
  BY <1>2, <1>4

\* A thread that points to the first one adds at most itself where it is linked,
\* and exactly itself where the ring was open or closed.
LEMMA ReachedLinked ==
  ASSUME NEW from \in Threads, NEW links \in [Threads -> Threads \cup {None}],
         NEW end \in Threads, NEW new \in Threads, links[new] = from, end # new
  PROVE  LET R == Reached(from, links)
             R2 == Reached(from, [links EXCEPT ![end] = new])
         IN  /\ R2 \subseteq R \cup {new}
             /\ end \in R /\ links[end] \in {None, from} => R2 = R \cup {new}
<1> DEFINE links2 == [links EXCEPT ![end] = new]
           R == Reached(from, links)
           R2 == Reached(from, links2)
<1>1. links2 \in [Threads -> Threads \cup {None}]
      /\ links2[end] = new /\ \A t \in Threads : t # end => links2[t] = links[t]
  OBVIOUS
<1> HIDE DEF links2
<1>2. /\ R \in SUBSET Threads /\ from \in R /\ \A t \in R : links[t] # None => links[t] \in R
      /\ R2 \in SUBSET Threads /\ from \in R2 /\ \A t \in R2 : links2[t] # None => links2[t] \in R2
  BY <1>1, ReachedClosed
<1> HIDE DEF R, R2
<1>3. R \cup {new} \in SUBSET Threads
      /\ \A t \in R \cup {new} : links2[t] # None => links2[t] \in R \cup {new}
  BY <1>1, <1>2
<1>4. R2 \subseteq R \cup {new}
  BY <1>2, <1>3, ReachedLeast DEF R2
<1>5. ASSUME end \in R, links[end] \in {None, from} PROVE R2 = R \cup {new}
  <2>1. \A t \in R2 : links[t] # None => links[t] \in R2
    BY <1>1, <1>2, <1>5
  <2>2. R \subseteq R2
    BY <1>2, <2>1, ReachedLeast DEF R
  <2>3. new \in R2
    BY <1>1, <1>2, <1>5, <2>2, UthreadAssumption
  <2>4. QED
    BY <1>4, <2>2, <2>3
<1>6. QED
  BY <1>4, <1>5 DEF R, R2, links2

\* A thread which one thread points to, and no other, is taken out alone.
LEMMA ReachedUnlinked ==
  ASSUME NEW from \in Threads, NEW links \in [Threads -> Threads \cup {None}],
         NEW gone \in Threads, gone # from, NEW t \in Reached(from, links), links[t] = gone,
         \A u \in Reached(from, links) : links[u] = gone => u = t,
         NEW links2 \in [Threads -> Threads \cup {None}],
         \A u \in Threads : links2[u] = IF u = t THEN links[gone] ELSE links[u]
  PROVE  LET R == Reached(from, links)
             R2 == Reached(from, links2)
         IN  /\ R2 = R \ {gone} /\ t # gone /\ t \in R2
             /\ links[gone] # None => links[gone] \in R2
<1> DEFINE R == Reached(from, links)
           R2 == Reached(from, links2)
<1>1. t \in Threads /\ gone # None
  BY ReachedClosed, UthreadAssumption
<1>2. links2[t] = links[gone] /\ \A u \in Threads : u # t => links2[u] = links[u]
  BY <1>1
<1>3. /\ R \in SUBSET Threads /\ from \in R /\ \A u \in R : links[u] # None => links[u] \in R
      /\ R2 \in SUBSET Threads /\ from \in R2 /\ \A u \in R2 : links2[u] # None => links2[u] \in R2
  BY <1>2, ReachedClosed
<1>4. t \in R /\ gone \in R /\ \A u \in R : links[u] = gone => u = t
  BY <1>1, <1>3
<1>5. \A S \in SUBSET Threads :
        from \in S /\ (\A u \in S : links[u] # None => links[u] \in S) => R \subseteq S
  BY ReachedLeast
<1>6. \A S \in SUBSET Threads :
        from \in S /\ (\A u \in S : links2[u] # None => links2[u] \in S) => R2 \subseteq S
  BY ReachedLeast
<1> HIDE DEF R, R2
<1>7. t # gone
  <2> SUFFICES ASSUME t = gone PROVE FALSE
    OBVIOUS
  <2>1. R \ {gone} \in SUBSET Threads /\ from \in R \ {gone}
        /\ \A u \in R \ {gone} : links[u] # None => links[u] \in R \ {gone}
    BY <1>3, <1>4
  <2>2. QED
    BY <1>4, <1>5, <2>1
<1>8. R2 \subseteq R \ {gone}
  <2>1. \A u \in R \ {gone} : links2[u] # None => links2[u] \in R \ {gone}
    <3>1. links[gone] # gone
      BY <1>4, <1>7
    <3>2. QED
      BY <1>2, <1>3, <1>4, <3>1
  <2>2. QED
    BY <1>3, <1>6, <2>1
<1>9. t \in R2
  <2> SUFFICES ASSUME t \notin R2 PROVE FALSE
    OBVIOUS
  <2>1. \A u \in R2 : links[u] # None => links[u] \in R2
    BY <1>2, <1>3
  <2>2. QED
    BY <1>3, <1>4, <1>5, <2>1
<1>10. R \subseteq R2 \cup {gone}
  <2>1. \A u \in R2 \cup {gone} : links[u] # None => links[u] \in R2 \cup {gone}
    BY <1>2, <1>3, <1>9
  <2>2. R2 \cup {gone} \in SUBSET Threads /\ from \in R2 \cup {gone}
    BY <1>3
  <2>3. QED
    BY <1>5, <2>1, <2>2
<1>11. R2 = R \ {gone}
  BY <1>8, <1>10
<1>12. QED
  BY <1>2, <1>3, <1>7, <1>9, <1>11 DEF R, R2

-----------------------------------------------------------------------------
(* The stacks, whatever the signal cuts off *)

Created == 0..created

\* Nobody knows of a thread before it is created.
KnownInv ==
  /\ first = 0
  /\ \A t \in Threads : next[t] # None => next[t] \in Created /\ t \in Created
  /\ {last, temp, utid_iter} \subseteq Created /\ (on \in Threads => on \in Created)
  /\ \A i \in 0..(MaxStacks - 1) : stacksArr[i] # None => stacksArr[i] \in Created
  /\ on = 0 /\ pc = "link" =>
       /\ created # 0 /\ created \in mapped /\ next[created] = 0 /\ last # created
       /\ \A t \in Threads : next[t] # created
       /\ \A i \in 0..(MaxStacks - 1) : stacksArr[i] # created

\* The ring does not run into its own middle; a thread that has left it does not
\* come back, and only the stacks of such threads are on the list.
RingInv ==
  /\ \A t, u \in Ring : next[t] = next[u] /\ next[t] \notin {None, 0} => t = u
  /\ on \in Workers /\ pc \in {"relast", "push", "count"} => on \notin Ring
  /\ on \in Workers /\ pc = "count" => currNum < MaxStacks /\ stacksArr[currNum] = on
  /\ \A i \in 0..(MaxStacks - 1) : i < currNum => stacksArr[i] \notin Ring
  /\ Ring \subseteq mapped

MainPc == {"create", "link", "last"}

\* Without a signal, main creates the threads and then each of them runs
\* until it sleeps or ends.
TurnInv ==
  ~interrupted =>
    /\ on \in Threads
    /\ pc \in MainPc => on = 0 /\ ended = {}
    /\ pc \notin MainPc => created = Creates
    /\ ctx[0] \in {"main", "own"} /\ (ctx[0] = "main" => on = 0)
    /\ \A t \in Workers : ctx[t] \in {"start", "own", "stale"} /\ (ctx[t] = "stale" => t = on)
    /\ pc \in {"body", "sleep", "start", "resumed"} => on \notin ended
    /\ pc = "switch" \/ (pc = "select" /\ ~fault) => utid_iter \in Ring

\* Without a signal, the ring has the threads created and not ended, up to the one
\* that is being linked or unlinked, and it is closed by last.
WholeInv ==
  ~interrupted =>
    /\ pc \in {"create", "last"} => Ring = Created
    /\ pc = "link" => Ring = Created \ {created}
    /\ pc = "unlink" => Ring = (Threads \ ended) \cup {on}
    /\ pc \notin MainPc \cup {"unlink"} => Ring = Threads \ ended
    /\ \A t \in Ring : next[t] = None => t = last /\ pc \in {"create", "link"}
    /\ pc \in {"create", "link"} => last \in Ring /\ next[last] \in {None, 0}
    /\ pc = "last" => created # 0 /\ next[created] = 0
    /\ pc \notin MainPc \cup {"relast"} => last \in Ring /\ next[last] = 0
    /\ pc = "relast" =>
         /\ temp \in Ring
         /\ IF on = last THEN next[temp] = 0 ELSE last \in Ring /\ next[last] = 0
    /\ on \in ended /\ pc \in {"relast", "push", "count", "scheduler"} => next[on] \in Ring

\* Without a signal, only a thread that has ended finds its stack unmapped.
FaultInv == ~interrupted /\ fault => curr \in ended /\ curr \notin mapped

\* What TypeOK says of the ring.
LEMMA RingTypes ==
  ASSUME IInv
  PROVE  /\ first \in Threads /\ next \in [Threads -> Threads \cup {None}]
         /\ Ring \subseteq Threads /\ first \in Ring
         /\ \A t \in Ring : next[t] # None => next[t] \in Ring
<1>1. first \in Threads /\ next \in [Threads -> Threads \cup {None}]
  BY DEF IInv, TypeOK
<1>2. QED
  BY <1>1, ReachedClosed DEF Ring

LEMMA RingKnown ==
  ASSUME IInv, KnownInv
  PROVE  Ring \subseteq Created
<1>1. Created \in SUBSET Threads /\ first \in Created
  BY UthreadAssumption DEF IInv, TypeOK, KnownInv, Created, Threads
<1>2. \A t \in Created : next[t] # None => next[t] \in Created
  BY <1>1 DEF KnownInv
<1>3. QED
  BY <1>1, <1>2, ReachedLeast DEF Ring

\* The ring after a step that leaves the links alone.
LEMMA RingUnchanged ==
  ASSUME UNCHANGED <<first, next>>
  PROVE  Ring' = Ring
  BY DEF Ring

\* Every step finds threads that were created.
LEMMA KnownStep ==
  ASSUME IInv, KnownInv, [Next]_vars
  PROVE  KnownInv'
<1> USE UthreadAssumption DEF Goto, Quiet, endVars, listVars, sleepVars, clearVars, callVars
<1> DEFINE Slots == 0..(MaxStacks - 1)
<1>1. /\ created \in Nat /\ created <= Creates /\ Creates \in Nat
      /\ next \in [Threads -> Threads \cup {None}]
      /\ stacksArr \in [Slots -> Workers \cup {None}]
  BY DEF IInv, TypeOK
<1> HIDE DEF Slots
<1>2. CASE Create
  <2>1. /\ created' = created + 1 /\ mapped' = mapped \cup {created + 1}
        /\ next' = [next EXCEPT ![created + 1] = first]
        /\ UNCHANGED <<first, last, on, stacksArr, temp, utid_iter>>
        /\ on = 0 /\ created < Creates
    BY <1>2 DEF Create
  <2>2. /\ created + 1 \in Threads /\ created + 1 \notin Created /\ Created \subseteq Created'
        /\ created' \in Created' /\ 0 \in Created /\ created' # 0
    BY <1>1, <2>1 DEF Threads, Created
  <2>3. \A t \in Threads : next'[t] = IF t = created + 1 THEN 0 ELSE next[t]
    BY <1>1, <2>1 DEF KnownInv
  <2>4. \A t \in Threads : next'[t] # None => next'[t] \in Created' /\ t \in Created'
    BY <2>1, <2>2, <2>3 DEF KnownInv
  <2>5. \A t \in Threads : next'[t] # created'
    BY <2>1, <2>2, <2>3 DEF KnownInv
  <2>6. \A k \in 0..(MaxStacks - 1) : stacksArr[k] # created'
    BY <2>1, <2>2 DEF KnownInv
  <2>7. created' \in mapped' /\ next'[created'] = 0 /\ last' # created'
    BY <2>1, <2>2, <2>3 DEF KnownInv
  <2>8. QED
    BY <2>1, <2>2, <2>4, <2>5, <2>6, <2>7 DEF KnownInv
<1>3. CASE Link
  <2>1. next' = [next EXCEPT ![last] = created] /\ pc' = "last"
        /\ UNCHANGED <<first, last, on, stacksArr, temp, utid_iter, created>>
    BY <1>3 DEF Link
  <2>2. created \in Created
    BY <1>1 DEF Created
  <2>3. \A t \in Threads : next'[t] = IF t = last THEN created ELSE next[t]
    BY <1>1, <2>1
  <2>4. Created' = Created
    BY <2>1 DEF Created
  <2>5. QED
    BY <2>1, <2>2, <2>3, <2>4 DEF KnownInv
<1>4. CASE SetLast
  <2>1. created \in Created /\ Created' = Created
    BY <1>1, <1>4 DEF Created, SetLast
  <2>2. pc' # "link"
    BY <1>4 DEF SetLast
  <2>3. QED
    BY <1>4, <2>1, <2>2 DEF SetLast, KnownInv
<1>5. CASE Unlink
  <2>1. PICK t \in Threads : t \in Ring /\ temp' = t /\ next' = [next EXCEPT ![t] = next[on]]
    BY <1>5 DEF Unlink
  <2>2. UNCHANGED <<first, last, on, stacksArr, utid_iter, created>> /\ pc' = "relast"
        /\ on \in Threads
    BY <1>5 DEF Unlink, Workers, Threads
  <2>3. t \in Created /\ Created' = Created
    BY <2>1, <2>2, RingKnown DEF Created
  <2>4. \A u \in Threads : next'[u] = IF u = t THEN next[on] ELSE next[u]
    BY <1>1, <2>1
  <2>5. QED
    BY <2>1, <2>2, <2>3, <2>4 DEF KnownInv
<1>6. CASE Relast
  <2>1. last' \in {last, temp} /\ pc' = "push" /\ Created' = Created
    BY <1>6 DEF Relast, Created
  <2>2. QED
    BY <1>6, <2>1 DEF Relast, KnownInv
<1>7. CASE Push
  <2>1. Created' = Created /\ pc' = "count" /\ UNCHANGED <<first, last, next, on, temp, utid_iter>>
        /\ on \in Workers
    BY <1>7 DEF Push, Created
  <2>2. stacksArr' = stacksArr \/ stacksArr' = [stacksArr EXCEPT ![currNum] = on]
    BY <1>7 DEF Push
  <2>3. on \in Created
    BY <2>1 DEF KnownInv, Workers, Threads
  <2>4. ASSUME NEW k \in 0..(MaxStacks - 1), stacksArr'[k] # None PROVE stacksArr'[k] \in Created
    BY <1>1, <2>2, <2>3, <2>4 DEF KnownInv, Slots
  <2>5. QED
    BY <2>1, <2>4 DEF KnownInv
<1>8. CASE Count \/ Body \/ SleepFlag \/ SleepStart \/ (\E t \in Threads : Elapse(t))
  <2>1. /\ Created' = Created
        /\ UNCHANGED <<first, last, next, on, temp, utid_iter, stacksArr, mapped>>
        /\ (pc' = pc \/ pc' # "link")
    BY <1>8 DEF Count, Body, SleepFlag, SleepStart, Elapse, Created
  <2>2. UNCHANGED created
    BY <1>8 DEF Count, Body, SleepFlag, SleepStart, Elapse
  <2>3. QED
    BY <2>1, <2>2 DEF KnownInv
<1>9. CASE Enter \/ Scan \/ Reselect
  <2>1. /\ Created' = Created /\ UNCHANGED <<first, last, next, on, temp, stacksArr>>
        /\ pc' # "link"
    BY <1>9 DEF Enter, Scan, Reselect, Created
  <2>2. utid_iter' \in Created
    <3>1. 0 \in Created
      BY <1>1 DEF Created
    <3>2. curr \in Threads /\ utid_curr[on] \in Threads /\ utid_iter \in Threads
      BY DEF IInv, TypeOK
    <3>3. \A t \in Threads : next[t] # None => next[t] \in Created
      BY DEF KnownInv
    <3>4. first \in Created /\ utid_iter \in Created
      BY <3>1 DEF KnownInv
    <3>5. utid_iter' = utid_iter \/ utid_iter' = first
          \/ (next[utid_iter] # None /\ utid_iter' = next[utid_iter])
          \/ (next[curr] # None /\ utid_iter' = next[curr])
          \/ (next[utid_curr[on]] # None /\ utid_iter' = next[utid_curr[on]])
      BY <1>9 DEF Enter, Scan, Reselect, Following
    <3>6. QED
      BY <3>2, <3>3, <3>4, <3>5
  <2>3. QED
    BY <2>1, <2>2 DEF KnownInv
<1>10. CASE Switch \/ Return \/ Alarm
  <2>1. /\ Created' = Created /\ UNCHANGED <<first, last, next, temp, utid_iter, stacksArr>>
        /\ pc' # "link" \/ UNCHANGED <<on, pc, mapped, created>>
        /\ on' \in {on, utid_iter, Sched}
    BY <1>10 DEF Switch, Resume, Return, Alarm, Fault, Created
  <2>2. QED
    BY <2>1 DEF KnownInv
<1>11. CASE UNCHANGED vars
  BY <1>11 DEF vars, KnownInv, Created
<1>12. QED
  BY <1>2, <1>3, <1>4, <1>5, <1>6, <1>7, <1>8, <1>9, <1>10, <1>11 DEF Next, Program, Halted

\* What the steps on the ring need to know of the state.
LEMMA RingFacts ==
  ASSUME IInv, KnownInv
  PROVE  /\ Ring \subseteq Threads /\ Ring \subseteq Created /\ first = 0 /\ first \in Threads
         /\ first \in Ring /\ \A t \in Ring : next[t] # None => next[t] \in Ring
         /\ next \in [Threads -> Threads \cup {None}]
         /\ stacksArr \in [0..(MaxStacks - 1) -> Workers \cup {None}]
         /\ currNum \in Nat /\ currNum <= MaxStacks
         /\ created \in Nat /\ created <= Creates
<1>1. /\ Ring \subseteq Threads /\ next \in [Threads -> Threads \cup {None}] /\ first \in Ring
      /\ \A t \in Ring : next[t] # None => next[t] \in Ring
  BY RingTypes
<1>2. /\ first = 0 /\ first \in Threads
      /\ stacksArr \in [0..(MaxStacks - 1) -> Workers \cup {None}]
      /\ currNum \in 0..MaxStacks /\ created \in 0..Creates
  BY DEF IInv, TypeOK, KnownInv
<1>3. QED
  BY <1>1, <1>2, RingKnown, UthreadAssumption

\* A thread that is created is not in the ring yet,
LEMMA CreateRing ==
  ASSUME IInv, KnownInv, Create
  PROVE  /\ Ring' = Ring /\ created' = created + 1 /\ created' \notin Ring
         /\ \A t \in Ring : next'[t] = next[t]
<1>1. /\ created + 1 \in Threads /\ created + 1 \notin Ring /\ first' = first
      /\ next' = [next EXCEPT ![created + 1] = first] /\ created' = created + 1
  BY RingFacts, UthreadAssumption DEF Create, Created, Threads
<1>2. /\ next \in [Threads -> Threads \cup {None}] /\ first \in Threads /\ Ring \subseteq Threads
  BY RingFacts
<1>3. /\ next' \in [Threads -> Threads \cup {None}]
      /\ \A t \in Ring : next'[t] = next[t]
  BY <1>1, <1>2
<1>4. Reached(first, next') = Reached(first, next)
  BY <1>2, <1>3, ReachedSame DEF Ring
<1>5. QED
  BY <1>1, <1>3, <1>4 DEF Ring

\* the assignment to next of last takes it in,
LEMMA LinkRing ==
  ASSUME IInv, KnownInv, Link
  PROVE  /\ Ring' \subseteq Ring \cup {created}
         /\ last \in Ring /\ next[last] \in {None, 0} => Ring' = Ring \cup {created}
         /\ \A t \in Threads : next'[t] = IF t = last THEN created ELSE next[t]
         /\ created \in Threads \cap mapped /\ next[created] = 0 /\ last # created /\ created # 0
         /\ \A t \in Threads : next[t] # created
<1>1. /\ next' = [next EXCEPT ![last] = created] /\ on = 0 /\ pc = "link" /\ first' = first
  BY DEF Link
<1>2. /\ created \in mapped /\ next[created] = 0 /\ last # created /\ created # 0
      /\ \A t \in Threads : next[t] # created
      /\ last \in Threads
  BY <1>1 DEF KnownInv, IInv, TypeOK
<1>3. created \in Threads
  BY RingFacts, UthreadAssumption DEF Threads
<1>4. next \in [Threads -> Threads \cup {None}] /\ first = 0 /\ first \in Threads
  BY RingFacts
<1>5. LET R == Reached(first, next)
          R2 == Reached(first, [next EXCEPT ![last] = created])
      IN  /\ R2 \subseteq R \cup {created}
          /\ last \in R /\ next[last] \in {None, first} => R2 = R \cup {created}
  BY <1>2, <1>3, <1>4, ReachedLinked
<1>6. \A t \in Threads : next'[t] = IF t = last THEN created ELSE next[t]
  BY <1>1, <1>4
<1>7. QED
  BY <1>1, <1>2, <1>3, <1>4, <1>5, <1>6 DEF Ring

\* and the one to next of the thread before it takes it out.
LEMMA UnlinkRing ==
  ASSUME IInv, KnownInv, RingInv, Unlink
  PROVE  /\ Ring' = Ring \ {on} /\ on \in Ring /\ on \in Workers /\ on # 0
         /\ temp' \in Ring' /\ next[temp'] = on /\ temp' # on
         /\ next[on] # None => next[on] \in Ring'
         /\ \A u \in Threads : next'[u] = IF u = temp' THEN next[on] ELSE next[u]
<1>1. PICK t \in Threads :
        /\ t \in Ring /\ next[t] = on /\ next' = [next EXCEPT ![t] = next[on]] /\ temp' = t
  BY DEF Unlink
<1>2. /\ first' = first /\ on \in Workers /\ on \in Threads /\ on # 0 /\ on # None
  BY UthreadAssumption DEF Unlink, Workers, Threads
<1>3. \A u \in Ring : next[u] = on => u = t
  <2>1. \A v, u \in Ring : next[v] = next[u] /\ next[v] \notin {None, 0} => v = u
    BY DEF RingInv
  <2>2. QED
    BY <1>1, <1>2, <2>1
<1>4. t \in Reached(first, next) /\ \A u \in Reached(first, next) : next[u] = on => u = t
  BY <1>1, <1>3 DEF Ring
<1>5. /\ first \in Threads /\ on # first /\ on \in Threads /\ next[t] = on
      /\ next \in [Threads -> Threads \cup {None}] /\ on \in Ring
  BY <1>1, <1>2, RingFacts
<1>6. /\ next' \in [Threads -> Threads \cup {None}]
      /\ \A u \in Threads : next'[u] = IF u = t THEN next[on] ELSE next[u]
  BY <1>1, <1>5
<1>7. /\ Reached(first, next') = Reached(first, next) \ {on} /\ t # on
      /\ t \in Reached(first, next') /\ (next[on] # None => next[on] \in Reached(first, next'))
  BY <1>4, <1>5, <1>6, ReachedUnlinked
<1>8. QED
  BY <1>1, <1>2, <1>5, <1>6, <1>7 DEF Ring

\* Every step keeps the stacks on the list out of the ring.
LEMMA RingStep ==
  ASSUME IInv, KnownInv, RingInv, [Next]_vars
  PROVE  RingInv'
<1> USE UthreadAssumption DEF Goto, Quiet, endVars, listVars, sleepVars, clearVars, callVars
<1>1. /\ Ring \subseteq Threads /\ Ring \subseteq Created /\ first = 0 /\ first \in Threads
      /\ next \in [Threads -> Threads \cup {None}]
      /\ stacksArr \in [0..(MaxStacks - 1) -> Workers \cup {None}]
      /\ currNum \in Nat /\ currNum <= MaxStacks
      /\ created \in Nat /\ created <= Creates
  BY RingFacts
<1>2. CASE Create
  <2>1. /\ pc' = "link" /\ on' = 0 /\ mapped' = mapped \cup {created + 1}
        /\ UNCHANGED <<stacksArr, currNum>>
    BY <1>2 DEF Create
  <2>2. Ring' = Ring /\ \A t \in Ring : next'[t] = next[t]
    BY <1>2, CreateRing
  <2>3. QED
    BY <2>1, <2>2 DEF RingInv, Workers
<1>3. CASE Link
  <2>1. /\ pc' = "last" /\ on = 0 /\ pc = "link"
        /\ UNCHANGED <<on, stacksArr, currNum, mapped, created>>
    BY <1>3 DEF Link
  <2>2. /\ Ring' \subseteq Ring \cup {created}
        /\ \A t \in Threads : next'[t] = IF t = last THEN created ELSE next[t]
        /\ created \in Threads \cap mapped /\ next[created] = 0 /\ last # created
        /\ \A t \in Threads : next[t] # created
    BY <1>3, LinkRing
  <2>3. \A k \in 0..(MaxStacks - 1) : stacksArr[k] # created
    BY <2>1 DEF KnownInv
  <2>4. /\ created \in Ring' => next'[created] = 0
        /\ \A t \in Ring : t # last => next'[t] = next[t] /\ next[t] # created
        /\ last \in Ring => next'[last] = created
    BY <1>1, <2>2
  <2>5. \A t, u \in Ring' : next'[t] = next'[u] /\ next'[t] \notin {None, 0} => t = u
    BY <2>2, <2>4 DEF RingInv
  <2>6. \A k \in 0..(MaxStacks - 1) : k < currNum => stacksArr[k] \notin Ring'
    BY <2>2, <2>3 DEF RingInv
  <2>7. QED
    BY <2>1, <2>2, <2>5, <2>6 DEF RingInv
<1>4. CASE Unlink
  <2>1. UNCHANGED <<on, stacksArr, currNum, mapped>> /\ pc' = "relast"
    BY <1>4 DEF Unlink
  <2>2. /\ Ring' = Ring \ {on} /\ on \in Ring /\ temp' \in Ring'
        /\ \A u \in Threads : next'[u] = IF u = temp' THEN next[on] ELSE next[u]
    BY <1>4, UnlinkRing
  <2>3. \A u, v \in Ring' : next'[u] = next'[v] /\ next'[u] \notin {None, 0} => u = v
    BY <1>1, <2>2 DEF RingInv
  <2>4. QED
    BY <2>1, <2>2, <2>3 DEF RingInv
<1>5. CASE Push
  <2>1. /\ currNum < MaxStacks /\ stacksArr' = [stacksArr EXCEPT ![currNum] = on]
        /\ UNCHANGED <<first, next, on, currNum, mapped>> /\ pc = "push" /\ on \in Workers
    BY <1>5 DEF Push, IInv, StacksFit
  <2>2. /\ Ring' = Ring /\ currNum \in 0..(MaxStacks - 1)
    BY <1>1, <2>1, RingUnchanged
  <2>3. \A k \in 0..(MaxStacks - 1) : stacksArr'[k] = IF k = currNum THEN on ELSE stacksArr[k]
    BY <1>1, <2>1
  <2>4. QED
    BY <1>1, <2>1, <2>2, <2>3 DEF RingInv
<1>6. CASE Count
  <2>1. /\ currNum' = currNum + 1 /\ pc' = "scheduler" /\ pc = "count" /\ on \in Workers
        /\ UNCHANGED <<first, next, on, stacksArr, mapped>>
    BY <1>6 DEF Count
  <2>2. \A k \in 0..(MaxStacks - 1) : k < currNum + 1 => k < currNum \/ k = currNum
    BY <1>1
  <2>3. Ring' = Ring /\ stacksArr[currNum] = on /\ on \notin Ring
    BY <2>1, RingUnchanged DEF RingInv
  <2>4. QED
    BY <2>1, <2>2, <2>3 DEF RingInv
<1>7. CASE Enter
  <2>1. /\ UNCHANGED <<first, next, on, stacksArr>> /\ pc' = "select"
        /\ \/ currNum' = 0 /\ mapped' = mapped \ {stacksArr[k] : k \in 0..(currNum - 1)}
           \/ UNCHANGED <<currNum, mapped>>
    BY <1>7 DEF Enter, Clear
  <2>2. \A k \in 0..(currNum - 1) : stacksArr[k] \notin Ring
    BY <1>1 DEF RingInv
  <2>3. Ring' = Ring /\ Ring \subseteq mapped'
    BY <2>1, <2>2, RingUnchanged DEF RingInv
  <2>4. \A k \in 0..(MaxStacks - 1) : ~(k < 0)
    OBVIOUS
  <2>5. QED
    BY <2>1, <2>3, <2>4 DEF RingInv
<1>8. ASSUME UNCHANGED <<first, next, currNum, stacksArr, mapped>>,
             \/ UNCHANGED <<on, pc>>
             \/ pc' \notin {"relast", "push", "count"}
             \/ on' = on /\ pc' = "push" /\ pc = "relast"
      PROVE  RingInv'
  BY <1>8, RingUnchanged DEF RingInv
<1>9. CASE SetLast \/ Body \/ SleepFlag \/ SleepStart \/ Relast \/ Scan \/ Switch \/ Reselect
           \/ Return \/ Alarm
  BY <1>8, <1>9 DEF SetLast, Body, SleepFlag, SleepStart, Relast, Scan, Switch, Resume, Reselect,
     Return, Alarm, Fault
<1>10. CASE \E t \in Threads : Elapse(t)
  BY <1>8, <1>10 DEF Elapse
<1>11. CASE UNCHANGED vars
  BY <1>8, <1>11 DEF vars
<1>12. QED
  BY <1>2, <1>3, <1>4, <1>5, <1>6, <1>7, <1>9, <1>10, <1>11 DEF Next, Program, Halted

-----------------------------------------------------------------------------
(* Without a signal *)

\* The swap goes to a thread of the ring that has not returned from the scheduler.
LEMMA SwitchTurn ==
  ASSUME IInv, TurnInv, WholeInv, Switch, ~interrupted
  PROVE  /\ on \in Threads /\ on' = utid_iter /\ on' \in Threads \ ended
         /\ ctx' = [ctx EXCEPT ![on] = "own"]
         /\ pc' \in {"body", "resumed"} /\ UNCHANGED <<interrupted, fault>>
<1>1. /\ on \in Threads /\ on # Sched /\ pc = "switch"
      /\ utid_iter \in Ring /\ utid_iter \in Threads
      /\ ctx \in [Threads -> {"main", "start", "own", "stale", "sched"}]
  BY UthreadAssumption DEF Switch, TurnInv, IInv, TypeOK
<1>2. utid_curr[on] = on
  BY <1>1 DEF IInv, FrameInv
<1>3. ctx' = [ctx EXCEPT ![on] = "own"] /\ Resume(utid_iter, ctx'[utid_iter])
  BY <1>1, <1>2 DEF Switch
<1>4. ctx'[utid_iter] \in {"start", "own"}
  <2>1. CASE utid_iter = on
    BY <1>1, <1>3, <2>1
  <2>2. CASE utid_iter # on /\ utid_iter = 0
    BY <1>1, <1>3, <2>2 DEF TurnInv
  <2>3. CASE utid_iter # on /\ utid_iter \in Workers
    BY <1>1, <1>3, <2>3 DEF TurnInv
  <2>4. QED
    BY <1>1, <2>1, <2>2, <2>3, UthreadAssumption DEF Threads, Workers
<1>5. utid_iter \notin ended
  BY <1>1 DEF WholeInv, MainPc
<1>6. on' = utid_iter /\ pc' \in {"body", "resumed"} /\ UNCHANGED <<interrupted, fault>>
  BY <1>3, <1>4 DEF Resume, Quiet, endVars
<1>7. QED
  BY <1>1, <1>3, <1>5, <1>6

\* Every thread takes its turn.
LEMMA TurnStep ==
  ASSUME IInv, KnownInv, TurnInv, WholeInv, [Next]_vars
  PROVE  TurnInv'
<1> USE DEF Goto, Quiet, endVars, listVars, sleepVars, clearVars, callVars, MainPc
<1> SUFFICES ASSUME ~interrupted' PROVE TurnInv'
  BY DEF TurnInv
<1>1. ~interrupted
  BY DEF Next, Program, Halted, vars, Create, Link, SetLast, Body, SleepFlag, SleepStart, Unlink,
     Relast, Push, Count, Enter, Scan, Switch, Resume, Reselect, Return, Alarm, Elapse, Fault
<1>2. /\ ended \subseteq Workers /\ 0 \notin Workers /\ Workers \subseteq Threads
      /\ ctx \in [Threads -> {"main", "start", "own", "stale", "sched"}] /\ 0 \in Threads
      /\ Ring \subseteq Threads /\ first \in Ring
      /\ \A t \in Ring : next[t] # None => next[t] \in Ring
  <2>1. 0 \notin Workers /\ Workers \subseteq Threads /\ 0 \in Threads
    BY UthreadAssumption DEF Workers, Threads
  <2>2. ended \subseteq Workers /\ ctx \in [Threads -> {"main", "start", "own", "stale", "sched"}]
    BY DEF IInv, TypeOK
  <2>3. QED
    BY <2>1, <2>2, RingFacts
<1>3. ASSUME UNCHANGED <<on, ctx>>, pc \in MainPc, ended' = {},
             pc' \in MainPc \/ (pc' = "sleep" /\ created' = Creates)
      PROVE  TurnInv'
  BY <1>1, <1>3 DEF TurnInv
<1>4. CASE Create \/ Link \/ SetLast
  <2>1. /\ UNCHANGED <<on, ctx, ended>> /\ pc \in MainPc
        /\ pc' \in MainPc \/ (pc' = "sleep" /\ created' = Creates)
    BY <1>4 DEF Create, Link, SetLast
  <2>2. QED
    BY <1>1, <1>3, <2>1 DEF TurnInv
<1>5. ASSUME UNCHANGED <<on, ctx, created>>, pc \notin MainPc,
             \/ pc' \in {"sleep", "start"} /\ pc \in {"body", "sleep"} /\ ended' = ended
             \/ pc' \in {"unlink", "relast", "push", "count", "scheduler"}
      PROVE  TurnInv'
  BY <1>1, <1>5 DEF TurnInv
<1>6. CASE Body \/ SleepFlag \/ SleepStart \/ Unlink \/ Relast \/ Push \/ Count
  BY <1>5, <1>6 DEF Body, SleepFlag, SleepStart, Unlink, Relast, Push, Count
<1>7. ASSUME UNCHANGED <<on, ctx, created, ended, first, next>>, pc \notin MainPc,
             pc' \in {"select", "switch"}, ~fault' => utid_iter' \in Ring, fault' => pc' = "select"
      PROVE  TurnInv'
  BY <1>1, <1>7, RingUnchanged DEF TurnInv
<1>8. CASE Enter
  <2>1. /\ pc = "scheduler" /\ pc' = "select" /\ on \in Threads /\ curr = on
        /\ UNCHANGED <<on, ctx, created, ended, first, next>>
        /\ fault' \/ (next[curr] # None /\ utid_iter' = next[curr])
    BY <1>1, <1>8 DEF Enter, Fault, TurnInv, IInv, FrameInv
  <2>2. next[on] # None => next[on] \in Ring
    <3>1. CASE on \in ended
      BY <1>1, <2>1, <3>1 DEF WholeInv
    <3>2. CASE on \notin ended
      BY <1>1, <1>2, <2>1, <3>2 DEF WholeInv
    <3>3. QED
      BY <3>1, <3>2
  <2>3. QED
    BY <1>7, <2>1, <2>2
<1>9. CASE Scan /\ ~fault
  <2>1. utid_iter \in Ring /\ pc = "select"
    BY <1>1, <1>9 DEF Scan, TurnInv
  <2>2. Following(utid_iter) \in Ring
    BY <1>2, <2>1 DEF Following
  <2>3. /\ UNCHANGED <<on, ctx, created, ended, first, next>>
        /\ \/ fault' /\ pc' = "select"
           \/ ~fault' /\ pc' \in {"select", "switch"}
              /\ utid_iter' \in {utid_iter, Following(utid_iter)}
    BY <1>9, <2>1 DEF Scan, Fault
  <2>4. QED
    BY <1>7, <2>1, <2>2, <2>3
<1>10. CASE Switch
  <2>1. /\ on \in Threads /\ on' \in Threads \ ended /\ ctx' = [ctx EXCEPT ![on] = "own"]
        /\ pc' \in {"body", "resumed"}
    BY <1>1, <1>10, SwitchTurn
  <2>2. UNCHANGED <<created, ended>> /\ pc = "switch"
    BY <1>10 DEF Switch
  <2>3. ctx'[0] = "own"
    BY <1>1, <1>2, <2>1 DEF TurnInv
  <2>4. \A t \in Workers : ctx'[t] \in {"start", "own"}
    BY <1>1, <1>2, <2>1 DEF TurnInv
  <2>5. QED
    BY <1>1, <2>1, <2>2, <2>3, <2>4 DEF TurnInv
<1>11. CASE Reselect
  <2>1. /\ pc = "resumed" /\ on \in Threads /\ on \notin ended /\ utid_curr[on] = on
        /\ on \in Ring
    BY <1>1, <1>11 DEF Reselect, TurnInv, WholeInv, IInv, FrameInv
  <2>2. CASE UNCHANGED pc
    BY <1>1, <1>11, <2>1, <2>2 DEF Reselect, TurnInv
  <2>3. CASE pc' = "select"
    <3>1. UNCHANGED <<on, ctx, created, ended, first, next>>
          /\ (fault' \/ (next[on] # None /\ utid_iter' = next[on]))
      BY <1>11, <2>1, <2>3 DEF Reselect, Fault
    <3>2. QED
      BY <1>2, <1>7, <2>1, <2>3, <3>1
  <2>4. QED
    BY <1>11, <2>2, <2>3 DEF Reselect
<1>12. CASE Return
  <2>1. pc = "resumed" /\ on \in Threads /\ on # Sched /\ UNCHANGED <<on, created, ended>>
    BY <1>1, <1>12, UthreadAssumption DEF Return, TurnInv
  <2>2. CASE UNCHANGED <<pc, ctx>>
    BY <1>1, <2>1, <2>2 DEF TurnInv
  <2>3. CASE on \in Workers \ ended /\ ctx' = [ctx EXCEPT ![on] = "stale"] /\ pc' = "body"
    BY <1>1, <1>2, <2>1, <2>3 DEF TurnInv
  <2>4. QED
    BY <1>12, <2>1, <2>2, <2>3 DEF Return
<1>13. ASSUME UNCHANGED <<on, pc, ctx, created, ended, first, next, utid_iter, fault>>
       PROVE  TurnInv'
  BY <1>1, <1>13, RingUnchanged DEF TurnInv
<1>14. CASE \E t \in Threads : Elapse(t)
  BY <1>13, <1>14 DEF Elapse
<1>15. CASE UNCHANGED vars
  BY <1>13, <1>15 DEF vars
<1>16. CASE Alarm
  BY <1>16 DEF Alarm
<1>17. QED
  BY <1>4, <1>6, <1>8, <1>9, <1>10, <1>11, <1>12, <1>14, <1>15, <1>16 DEF Next, Program, Halted,
     Stopped

\* The ring has the threads it should have.
LEMMA WholeStep ==
  ASSUME IInv, KnownInv, RingInv, TurnInv, WholeInv, [Next]_vars
  PROVE  WholeInv'
<1> USE DEF Goto, Quiet, endVars, listVars, sleepVars, clearVars, callVars, MainPc
<1> SUFFICES ASSUME ~interrupted' PROVE WholeInv'
  BY DEF WholeInv
<1>1. ~interrupted
  BY DEF Next, Program, Halted, vars, Create, Link, SetLast, Body, SleepFlag, SleepStart, Unlink,
     Relast, Push, Count, Enter, Scan, Switch, Resume, Reselect, Return, Alarm, Elapse, Fault
<1>2. /\ Ring \subseteq Threads /\ first = 0 /\ None \notin Threads /\ 0 # None
      /\ last \in Threads /\ created \in Nat /\ ended \subseteq Workers /\ 0 \notin Workers
      /\ Workers \subseteq Threads
  <2>1. 0 \notin Workers /\ Workers \subseteq Threads /\ 0 # None /\ None \notin Threads
    BY UthreadAssumption DEF Workers, Threads
  <2>2. ended \subseteq Workers /\ last \in Threads
    BY DEF IInv, TypeOK
  <2>3. QED
    BY <2>1, <2>2, RingFacts
<1>3. CASE Create
  <2>1. /\ Ring' = Ring /\ created' = created + 1 /\ created' \notin Ring
        /\ \A t \in Ring : next'[t] = next[t]
    BY <1>3, CreateRing
  <2>2. pc = "create" /\ pc' = "link" /\ UNCHANGED <<last, on, ended>> /\ on = 0
    BY <1>3 DEF Create
  <2>3. Created' = Created \cup {created'}
    BY <1>2, <2>1 DEF Created
  <2>4. Ring = Created /\ last \in Ring /\ next[last] \in {None, 0}
        /\ \A t \in Ring : next[t] = None => t = last
    BY <1>1, <2>2 DEF WholeInv
  <2>5. Ring' = Created' \ {created'}
    BY <2>1, <2>3, <2>4
  <2>6. QED
    BY <1>2, <2>1, <2>2, <2>4, <2>5 DEF WholeInv
<1>4. CASE Link
  <2>1. /\ last \in Ring /\ next[last] \in {None, 0} /\ Ring = Created \ {created}
        /\ \A t \in Ring : next[t] = None => t = last
        /\ pc' = "last" /\ on = 0 /\ UNCHANGED <<created, last, on, ended>>
    BY <1>1, <1>4 DEF Link, WholeInv
  <2>2. /\ Ring' = Ring \cup {created}
        /\ \A t \in Threads : next'[t] = IF t = last THEN created ELSE next[t]
        /\ created \in Threads /\ next[created] = 0 /\ last # created /\ created # 0
    BY <1>4, <2>1, LinkRing
  <2>3. created \in Created /\ Created' = Created
    BY <1>2, <2>1 DEF Created
  <2>4. Ring' = Created'
    BY <2>1, <2>2, <2>3
  <2>5. next'[created] = 0 /\ \A t \in Ring' : next'[t] # None
    BY <1>2, <2>1, <2>2
  <2>6. QED
    BY <1>2, <2>1, <2>2, <2>4, <2>5 DEF WholeInv
<1>5. CASE SetLast
  <2>1. /\ pc = "last" /\ on = 0 /\ last' = created /\ UNCHANGED <<first, next, on, ended, created>>
        /\ pc' = IF created = Creates THEN "sleep" ELSE "create"
    BY <1>5 DEF SetLast
  <2>2. /\ Ring' = Ring /\ Ring = Created /\ Created' = Created /\ created \in Created
        /\ next[created] = 0 /\ ended = {}
        /\ \A t \in Ring : next[t] # None
    BY <1>1, <1>2, <2>1, RingUnchanged DEF WholeInv, TurnInv, Created
  <2>3. created = Creates => Created = Threads
    BY DEF Created, Threads
  <2>4. QED
    BY <1>2, <2>1, <2>2, <2>3 DEF WholeInv
<1>6. CASE Body
  <2>1. /\ UNCHANGED <<first, next, last, on>> /\ pc = "body" /\ on \in Workers /\ on \notin ended
        /\ \/ pc' = "sleep" /\ ended' = ended
           \/ pc' = "unlink" /\ ended' = ended \cup {on}
    BY <1>1, <1>6 DEF Body, TurnInv
  <2>2. Ring' = Ring /\ Ring = Threads \ ended /\ last \in Ring /\ next[last] = 0
        /\ \A t \in Ring : next[t] # None
    BY <1>1, <2>1, RingUnchanged DEF WholeInv
  <2>3. Threads \ ended = (Threads \ (ended \cup {on})) \cup {on}
    BY <1>2, <2>1
  <2>4. QED
    BY <2>1, <2>2, <2>3 DEF WholeInv
<1>7. CASE Unlink
  <2>1. /\ Ring' = Ring \ {on} /\ on \in Ring /\ on # 0
        /\ temp' \in Ring' /\ next[temp'] = on /\ temp' # on
        /\ next[on] # None => next[on] \in Ring'
        /\ \A u \in Threads : next'[u] = IF u = temp' THEN next[on] ELSE next[u]
    BY <1>7, UnlinkRing
  <2>2. pc = "unlink" /\ pc' = "relast" /\ UNCHANGED <<on, last, ended>> /\ on \in Workers
    BY <1>7 DEF Unlink
  <2>3. on \in ended
    BY <2>2 DEF IInv, RoundsInv, EndPc
  <2>4. /\ Ring = (Threads \ ended) \cup {on} /\ last \in Ring /\ next[last] = 0
        /\ \A t \in Ring : next[t] # None
    BY <1>1, <2>2 DEF WholeInv
  <2>5. Ring' = Threads \ ended
    BY <2>1, <2>3, <2>4
  <2>6. /\ next'[on] = next[on] /\ next'[temp'] = next[on]
        /\ last # on => next'[last] = 0
    BY <1>2, <2>1, <2>4
  <2>7. \A t \in Ring' : next'[t] # None
    BY <1>2, <2>1, <2>4
  <2>8. QED
    BY <2>1, <2>2, <2>4, <2>5, <2>6, <2>7 DEF WholeInv
<1>8. CASE Relast
  <2>1. /\ pc = "relast" /\ pc' = "push" /\ UNCHANGED <<first, next, on, ended>>
        /\ last' = IF on = last THEN temp ELSE last
    BY <1>8 DEF Relast
  <2>2. Ring' = Ring
    BY <2>1, RingUnchanged
  <2>3. QED
    BY <1>1, <2>1, <2>2 DEF WholeInv
<1>9. ASSUME UNCHANGED <<first, next, last, ended>>, pc \notin MainPc \cup {"unlink", "relast"},
             pc' \notin MainPc \cup {"unlink", "relast"},
             on' = on \/ pc' \in {"body", "resumed"},
             pc' = "scheduler" => on \notin ended \/ pc = "count" \/ pc = pc',
             pc' = "push" => pc = "push",
             pc' = "count" => pc \in {"push", "count"}
      PROVE  WholeInv'
  BY <1>1, <1>9, RingUnchanged DEF WholeInv
<1>10. CASE SleepFlag \/ SleepStart
  <2>1. /\ UNCHANGED <<first, next, last, on, created, ended>>
        /\ pc \in {"sleep", "start"} /\ pc' \in {"start", "scheduler"}
    BY <1>10 DEF SleepFlag, SleepStart
  <2>2. pc = "start" => on \notin ended
    BY <1>1 DEF TurnInv
  <2>3. pc' = "scheduler" => pc = "start"
    BY <1>10 DEF SleepFlag, SleepStart
  <2>4. QED
    BY <1>9, <2>1, <2>2, <2>3
<1>11. CASE Push \/ Count
  <2>1. /\ UNCHANGED <<first, next, last, on, ended>>
        /\ (pc = "push" /\ pc' = "count") \/ (pc = "count" /\ pc' = "scheduler")
    BY <1>11 DEF Push, Count
  <2>2. QED
    BY <1>9, <2>1
<1>12. CASE Enter \/ Scan
  <2>1. /\ UNCHANGED <<first, next, last, on, ended>>
        /\ pc \in {"scheduler", "select"} /\ pc' \in {"select", "switch"}
    BY <1>12 DEF Enter, Scan
  <2>2. QED
    BY <1>9, <2>1
<1>13. CASE Switch
  <2>1. pc' \in {"body", "resumed"}
    BY <1>1, <1>13, SwitchTurn
  <2>2. UNCHANGED <<first, next, last, ended>> /\ pc = "switch"
    BY <1>13 DEF Switch
  <2>3. QED
    BY <1>9, <2>1, <2>2
<1>14. CASE Reselect \/ Return
  <2>1. /\ UNCHANGED <<first, next, last, on, ended>> /\ pc = "resumed"
        /\ pc' \in {"resumed", "select", "body"} \/ (pc' = "scheduler" /\ on = Sched)
    BY <1>14 DEF Reselect, Return
  <2>2. on # Sched
    BY <1>1, UthreadAssumption DEF TurnInv
  <2>3. QED
    BY <1>9, <2>1, <2>2
<1>15. ASSUME UNCHANGED <<first, next, last, ended, on, pc, temp, created>> PROVE WholeInv'
  BY <1>1, <1>15, RingUnchanged DEF WholeInv, Created
<1>16. CASE \E t \in Threads : Elapse(t)
  BY <1>15, <1>16 DEF Elapse
<1>17. CASE UNCHANGED vars
  BY <1>15, <1>17 DEF vars
<1>18. CASE Alarm
  BY <1>18 DEF Alarm
<1>19. QED
  BY <1>3, <1>4, <1>5, <1>6, <1>7, <1>8, <1>10, <1>11, <1>12, <1>13, <1>14, <1>16, <1>17, <1>18
     DEF Next, Program, Halted

\* A fault is found at the end of a thread only.
LEMMA FaultStep ==
  ASSUME IInv, IInv', KnownInv, RingInv, RingInv', TurnInv, WholeInv, FaultInv, [Next]_vars
  PROVE  FaultInv'
<1> USE DEF Goto, Quiet, endVars, listVars, sleepVars, clearVars, callVars, MainPc
<1> SUFFICES ASSUME ~interrupted', fault' PROVE FaultInv'
  BY DEF FaultInv
<1>1. ~interrupted
  BY DEF Next, Program, Halted, vars, Create, Link, SetLast, Body, SleepFlag, SleepStart, Unlink,
     Relast, Push, Count, Enter, Scan, Switch, Resume, Reselect, Return, Alarm, Elapse, Fault
<1>2. /\ \A t \in Ring : next[t] # None => next[t] \in Ring
      /\ Ring \subseteq Threads /\ None \notin Threads /\ Ring \subseteq mapped
      /\ Ring' \subseteq mapped'
  BY RingFacts, UthreadAssumption DEF RingInv
<1>3. ASSUME fault' = fault, ~fault PROVE FALSE
  BY <1>3
<1>4. CASE ~Stopped /\ Enter
  <2>1. /\ pc = "scheduler" /\ on \in Threads /\ curr = on /\ UNCHANGED <<first, next, curr, ended>>
        /\ curr \notin mapped' \/ next[curr] = None \/ fault' = fault
    BY <1>1, <1>4 DEF Enter, TurnInv, IInv, FrameInv
  <2>2. fault' # fault
    BY <1>4, Zenon DEF Stopped
  <2>3. Ring' = Ring
    BY <2>1, RingUnchanged
  <2>4. next[on] # None
    BY <1>1, <1>2, <2>1 DEF WholeInv
  <2>5. on \notin ended => on \in mapped'
    BY <1>1, <1>2, <2>1, <2>3 DEF WholeInv
  <2>6. QED
    BY <2>1, <2>2, <2>4, <2>5 DEF FaultInv
<1>5. CASE ~Stopped /\ Scan
  <2>1. utid_iter \in mapped
    BY <1>1, <1>2, <1>5 DEF Stopped, Scan, TurnInv
  <2>2. fault' = fault
    BY <1>5, <2>1 DEF Scan
  <2>3. QED
    BY <1>3, <1>5, <2>2 DEF Stopped
<1>6. CASE ~Stopped /\ Reselect
  <2>1. /\ pc = "resumed" /\ on \in Threads /\ on \notin ended /\ utid_curr[on] = on /\ on \in Ring
        /\ next[on] # None
    BY <1>1, <1>6 DEF Reselect, TurnInv, WholeInv, IInv, FrameInv
  <2>2. on \in mapped
    BY <1>2, <2>1
  <2>3. fault' = fault
    BY <1>6, <2>1, <2>2 DEF Reselect
  <2>4. QED
    BY <1>3, <1>6, <2>3 DEF Stopped
<1>7. CASE ~Stopped /\ Switch
  BY <1>1, <1>3, <1>7, SwitchTurn DEF Stopped
<1>8. CASE ~Stopped /\ Push
  BY <1>3, <1>8 DEF Stopped, Push, IInv, StacksFit
<1>9. CASE ~Stopped /\ (Create \/ Link \/ SetLast \/ Body \/ SleepFlag \/ SleepStart \/ Unlink
                        \/ Relast \/ Count \/ Return \/ Alarm \/ \E t \in Threads : Elapse(t))
  BY <1>3, <1>9 DEF Stopped, Create, Link, SetLast, Body, SleepFlag, SleepStart, Unlink, Relast,
     Count, Return, Alarm, Elapse
<1>10. CASE UNCHANGED vars
  BY <1>1, <1>10 DEF vars, FaultInv
<1>11. QED
  BY <1>4, <1>5, <1>6, <1>7, <1>8, <1>9, <1>10 DEF Next, Program, Halted

RInv == IInv /\ KnownInv /\ RingInv /\ TurnInv /\ WholeInv /\ FaultInv

LEMMA RInvInit == Init => RInv
<1> SUFFICES ASSUME Init PROVE RInv
  OBVIOUS
<1>1. IInv
  BY IInvInit
<1>2. /\ first = 0 /\ next = [t \in Threads |-> None] /\ last = 0 /\ on = 0 /\ pc = "create"
      /\ created = 0 /\ 0 \in Threads /\ mapped = {0} /\ ended = {} /\ currNum = 0
      /\ ctx = [t \in Threads |-> IF t = 0 THEN "main" ELSE "start"]
      /\ temp = 0 /\ utid_iter = 0 /\ fault = FALSE
      /\ stacksArr = [k \in 0..(MaxStacks - 1) |-> None]
  BY UthreadAssumption DEF Init, Threads
<1>3. Created = {0}
  BY <1>2 DEF Created
<1>4. Workers \subseteq Threads /\ 0 \notin Workers
  BY UthreadAssumption DEF Workers, Threads
<1>5. Ring = {0}
  <2>1. next \in [Threads -> Threads \cup {None}] /\ \A t \in Threads : next[t] = None
    BY <1>2
  <2>2. 0 \in Ring
    BY <1>2, <2>1, ReachedClosed DEF Ring
  <2>3. {0} \in SUBSET Threads /\ \A u \in {0} : next[u] # None => next[u] \in {0}
    BY <1>2, <2>1
  <2>4. Ring \subseteq {0}
    BY <1>2, <2>3, ReachedLeast DEF Ring
  <2>5. QED
    BY <2>2, <2>4
<1>6. KnownInv
  BY <1>2, <1>3 DEF KnownInv
<1>7. RingInv
  <2>1. \A k \in 0..(MaxStacks - 1) : ~(k < currNum)
    BY <1>2
  <2>2. QED
    BY <1>2, <1>4, <1>5, <2>1 DEF RingInv
<1>8. TurnInv
  BY <1>2, <1>4 DEF TurnInv, MainPc
<1>9. WholeInv
  BY <1>2, <1>3, <1>5 DEF WholeInv, MainPc
<1>10. FaultInv
  BY <1>2 DEF FaultInv
<1>11. QED
  BY <1>1, <1>6, <1>7, <1>8, <1>9, <1>10 DEF RInv

LEMMA RInvStep == RInv /\ [Next]_vars => RInv'
<1> SUFFICES ASSUME RInv, [Next]_vars PROVE RInv'
  OBVIOUS
<1>1. IInv /\ KnownInv /\ RingInv /\ TurnInv /\ WholeInv /\ FaultInv
  BY DEF RInv
<1>2. IInv'
  BY <1>1, StepKeeps
<1>3. KnownInv'
  BY <1>1, KnownStep
<1>4. RingInv'
  BY <1>1, RingStep
<1>5. TurnInv'
  BY <1>1, TurnStep
<1>6. WholeInv'
  BY <1>1, WholeStep
<1>7. FaultInv'
  BY <1>1, <1>2, <1>4, FaultStep
<1>8. QED
  BY <1>2, <1>3, <1>4, <1>5, <1>6, <1>7 DEF RInv

\* The invariant of the ring holds in every reachable state.
LEMMA RInvAlways == Spec => []RInv
  BY RInvInit, RInvStep, PTL DEF Spec

\* Every thread that is found from first has its stack, and with it its struct,
\* wherever the signal cuts the end of a thread off (uthread.c:143-153).
THEOREM ListedHasStack == Spec => []ListedMapped
<1>1. RInv => ListedMapped
  BY DEF RInv, RingInv, ListedMapped
<1> QED
  BY <1>1, RInvAlways, PTL

\* Without a signal, the ring that the scheduler goes round has exactly the threads
\* created and not ended, and last closes it (uthread.c:143-150).
THEOREM RingIsExact == Spec => []RingExact
<1>1. RInv => RingExact
  BY DEF RInv, KnownInv, WholeInv, RingExact, MainPc
<1> QED
  BY <1>1, RInvAlways, PTL

\* Without a signal, a thread that ends on the TimeToClear-th call of the scheduler
\* and unmaps the stack it runs on is the only fault (uthread.c:79, :151-153).
THEOREM OneFault == Spec => []OnlyOwnStackCleared
<1>1. RInv => OnlyOwnStackCleared
  BY DEF RInv, FaultInv, OnlyOwnStackCleared
<1> QED
  BY <1>1, RInvAlways, PTL

=============================================================================
