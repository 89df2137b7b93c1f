------------------------- MODULE JavaMonitorsProofs -------------------------
(***************************************************************************)
(* The green-thread runtime implements the monitors of JavaMonitors, for   *)
(* every number of threads and objects, every bound and every program.     *)
(***************************************************************************)
EXTENDS GreenThreadsProofs

(* What the refinement mapping makes of a context: the thread is in the wait *)
(* set of o, and the holds it gave up there.                                 *)
Waiting(w, o) == w.kind = "MONITOR_WAIT" /\ w.obj = o /\ ~w.ready
Given(w, o) == IF w.obj = o THEN w.holds ELSE 0

waitSet == [o \in Objects |-> {t \in Threads : ctx[t].kind = "MONITOR_WAIT" /\ ctx[t].obj = o /\ ~ctx[t].ready}]
saved == [t \in Threads |-> [o \in Objects |-> IF ctx[t].obj = o THEN ctx[t].holds ELSE 0]]

(* Contexts that look the same to the abstract specification. *)
SameView(v, w) == \A o \in Objects : (Waiting(v, o) <=> Waiting(w, o)) /\ Given(v, o) = Given(w, o)

LEMMA SameViewKeeps ==
  ASSUME \A u \in Threads : SameView(ctx[u], ctx'[u])
  PROVE  waitSet' = waitSet /\ saved' = saved
<1>1. waitSet' = waitSet
  BY DEF waitSet, SameView, Waiting
<1>2. saved' = saved
  BY DEF saved, SameView, Given
<1> QED  BY <1>1, <1>2

LEMMA SameViewStutters ==
  ASSUME UNCHANGED <<owner, hold>>, \A u \in Threads : SameView(ctx[u], ctx'[u])
  PROVE  UNCHANGED JM!jvars
BY SameViewKeeps DEF JM!jvars, waitSet, saved

(* The wait sets change at one object only. *)
LEMMA WaitSetExcept ==
  ASSUME NEW o \in Objects, NEW X,
         \A p \in Objects : {u \in Threads : Waiting(ctx'[u], p)} =
           IF p = o THEN X ELSE {u \in Threads : Waiting(ctx[u], p)}
  PROVE  waitSet' = [waitSet EXCEPT ![o] = X]
<1> DEFINE now_(p) == {u \in Threads : Waiting(ctx[u], p)}
           then_(p) == {u \in Threads : Waiting(ctx'[u], p)}
<1>1. waitSet = [p \in Objects |-> now_(p)] /\ waitSet' = [p \in Objects |-> then_(p)]
  BY DEF waitSet, Waiting
<1> HIDE DEF now_, then_
<1>2. \A p \in Objects : then_(p) = IF p = o THEN X ELSE now_(p)
  BY DEF now_, then_
<1> QED  BY <1>1, <1>2

(* The holds given up change for one thread and one object only. *)
LEMMA SavedExcept ==
  ASSUME NEW t \in Threads, NEW o \in Objects, NEW n,
         \A u \in Threads, p \in Objects :
           Given(ctx'[u], p) = IF u = t /\ p = o THEN n ELSE Given(ctx[u], p)
  PROVE  saved' = [saved EXCEPT ![t][o] = n]
<1>1. /\ saved = [u \in Threads |-> [p \in Objects |-> Given(ctx[u], p)]]
      /\ saved' = [u \in Threads |-> [p \in Objects |-> Given(ctx'[u], p)]]
  BY DEF saved, Given
<1> QED  BY <1>1

(* A context that waits for no monitor is invisible. *)
LEMMA PlainIsInvisible ==
  ASSUME NEW w, Plain(w)
  PROVE  \A o \in Objects : ~Waiting(w, o) /\ Given(w, o) = 0
BY ThreadsAssumption DEF Plain, Waiting, Given, MonitorKinds

(* So is one that waits to enter a monitor without holds to restore. *)
LEMMA EntrantIsInvisible ==
  ASSUME NEW w, w.kind # "MONITOR_WAIT", w.holds = 0
  PROVE  \A o \in Objects : ~Waiting(w, o) /\ Given(w, o) = 0
BY DEF Waiting, Given

(* A thread without holds to restore gets another such context. *)
LEMMA InvisibleKeeps ==
  ASSUME Inv, NEW t \in Threads, ctx[t].kind # "MONITOR_WAIT", ctx[t].holds = 0,
         NEW w, w.kind # "MONITOR_WAIT", w.holds = 0, ctx' = [ctx EXCEPT ![t] = w]
  PROVE  waitSet' = waitSet /\ saved' = saved
<1>1. \A u \in Threads : ctx'[u] = IF u = t THEN w ELSE ctx[u]
  BY DEF Inv, TypeOK
<1>2. SameView(ctx[t], w)
  BY EntrantIsInvisible DEF SameView
<1>3. \A u \in Threads : SameView(ctx[u], ctx'[u])
  BY <1>1, <1>2 DEF SameView
<1> QED  BY <1>3, SameViewKeeps

(* A thread that waits for no monitor gets another such context. *)
LEMMA PlainStutters ==
  ASSUME Inv, NEW t \in Threads, ctx[t].kind \notin MonitorKinds, NEW w, Plain(w),
         ctx' = [ctx EXCEPT ![t] = w], UNCHANGED <<owner, hold>>
  PROVE  UNCHANGED JM!jvars
<1>1. ctx[t].kind # "MONITOR_WAIT" /\ ctx[t].holds = 0
  BY DEF Inv, MonitorsSound, MonitorKinds
<1>2. w.kind # "MONITOR_WAIT" /\ w.holds = 0
  BY DEF Plain, MonitorKinds
<1> QED  BY <1>1, <1>2, InvisibleKeeps DEF JM!jvars, waitSet, saved

(* A thread with no holds to restore is free to act in the abstract          *)
(* specification.                                                            *)
LEMMA HoldsNothingBack ==
  ASSUME NEW t \in Threads, ctx[t].holds = 0
  PROVE  JM!Free(t)
BY DEF JM!Free, JM!NothingSaved

-----------------------------------------------------------------------------
(* monitor_acquire takes the monitor. *)
LEMMA TakeEnters ==
  ASSUME Inv, NEW t \in Threads, NEW o \in Objects, owner[o] \in {Nobody, t},
         ctx[t].kind # "MONITOR_WAIT", ctx[t].holds = 0,
         Take(t, o, hold[o] + 1), Continue(t)
  PROVE  JM!Enter(t, o)
<1>1. waitSet' = waitSet /\ saved' = saved
  BY PlainNotSuspended, InvisibleKeeps DEF Continue, Plain
<1>2. JM!Free(t)
  BY HoldsNothingBack
<1> QED  BY <1>1, <1>2 DEF JM!Enter, Take, waitSet, saved

(* monitor_reacquire_hold_count takes the monitor back: the wait is over. *)
LEMMA TakeEndsWait ==
  ASSUME Inv, NEW t \in Threads, NEW o \in Objects, owner[o] = Nobody,
         ctx[t].kind \in MonitorKinds, ctx[t].obj = o, ctx[t].holds > 0,
         Take(t, o, ctx[t].holds), Continue(t)
  PROVE  JM!EndWait(t, o)
<1>1. \A u \in Threads : ctx'[u] = IF u = t THEN NotSuspended ELSE ctx[u]
  BY DEF Inv, TypeOK, Continue
<1>2. \A p \in Objects : ~Waiting(NotSuspended, p) /\ Given(NotSuspended, p) = 0
  BY PlainNotSuspended, PlainIsInvisible
<1>3. \A p \in Objects \ {o} : ~Waiting(ctx[t], p) /\ Given(ctx[t], p) = 0
  BY DEF Waiting, Given
<1>4. waitSet' = [waitSet EXCEPT ![o] = {u \in Threads : Waiting(ctx[u], o)} \ {t}]
  <2>1. \A p \in Objects : {u \in Threads : Waiting(ctx'[u], p)} =
          IF p = o THEN {u \in Threads : Waiting(ctx[u], o)} \ {t} ELSE {u \in Threads : Waiting(ctx[u], p)}
    BY <1>1, <1>2, <1>3
  <2> QED  BY <2>1, WaitSetExcept
<1>5. saved' = [saved EXCEPT ![t][o] = 0]
  BY <1>1, <1>2, <1>3, SavedExcept
<1>6. waitSet[o] = {u \in Threads : Waiting(ctx[u], o)} /\ saved[t][o] = ctx[t].holds
  BY DEF waitSet, saved, Waiting
<1>7. /\ saved[t][o] > 0
      /\ owner' = [owner EXCEPT ![o] = t] /\ hold' = [hold EXCEPT ![o] = saved[t][o]]
      /\ waitSet' = [waitSet EXCEPT ![o] = waitSet[o] \ {t}]
  BY <1>4, <1>6 DEF Take
<1> QED  BY <1>5, <1>7 DEF JM!EndWait, waitSet, saved

(* monitor_reacquire_hold_count suspends: a waiter that was not notified      *)
(* gives up waiting, any other one is where it was.                           *)
LEMMA BlockGivesUp ==
  ASSUME Inv, NEW t \in Threads, NEW o \in Objects,
         ctx[t].kind \in MonitorKinds, ctx[t].obj = o, NEW ready,
         Suspend(t, EnterWaiting(o, ready, ctx[t].holds)), UNCHANGED <<owner, hold>>
  PROVE  JM!GiveUp(t, o) \/ UNCHANGED JM!jvars
<1> DEFINE w == EnterWaiting(o, ready, ctx[t].holds)
<1>1. \A u \in Threads : ctx'[u] = IF u = t THEN w ELSE ctx[u]
  BY DEF Inv, TypeOK, Suspend
<1>2. w.kind = "MONITOR_ENTER_WAITING" /\ w.obj = o /\ w.holds = ctx[t].holds
  BY DEF EnterWaiting, MonitorWakeup
<1> HIDE DEF w
<1>3. \A p \in Objects : ~Waiting(w, p) /\ Given(w, p) = Given(ctx[t], p)
  BY <1>2 DEF Waiting, Given
<1>4. CASE Waiting(ctx[t], o)
  <2>1. \A p \in Objects \ {o} : ~Waiting(ctx[t], p)
    BY DEF Waiting
  <2>2. \A p \in Objects : {u \in Threads : Waiting(ctx'[u], p)} =
          IF p = o THEN {u \in Threads : Waiting(ctx[u], o)} \ {t} ELSE {u \in Threads : Waiting(ctx[u], p)}
    BY <1>1, <1>3, <2>1
  <2>3. waitSet' = [waitSet EXCEPT ![o] = {u \in Threads : Waiting(ctx[u], o)} \ {t}]
    BY <2>2, WaitSetExcept
  <2>4. waitSet[o] = {u \in Threads : Waiting(ctx[u], o)}
    BY DEF waitSet, Waiting
  <2>5. saved' = saved
    BY <1>1, <1>3 DEF saved, Given
  <2>6. t \in waitSet[o] /\ waitSet' = [waitSet EXCEPT ![o] = waitSet[o] \ {t}]
    BY <1>4, <2>3, <2>4
  <2> QED  BY <2>5, <2>6 DEF JM!GiveUp, waitSet, saved
<1>5. CASE ~Waiting(ctx[t], o)
  <2>1. \A p \in Objects : ~Waiting(ctx[t], p)
    BY <1>5 DEF Waiting
  <2>2. \A u \in Threads : SameView(ctx[u], ctx'[u])
    BY <1>1, <1>3, <2>1 DEF SameView
  <2> QED  BY <2>2, SameViewStutters
<1> QED  BY <1>4, <1>5

(* Marking threads that wait to enter cannot be seen. *)
LEMMA MarkingEntrants ==
  ASSUME Inv, NEW o \in Objects, NEW S \in SUBSET Entrants(o)
  PROVE  \A u \in Threads : SameView(ctx[u], MarkReady(S)[u])
<1>1. ctx \in [Threads -> WakeupInfo]
  BY DEF Inv, TypeOK
<1>2. \A u \in Threads : /\ MarkReady(S)[u].kind = ctx[u].kind
                         /\ MarkReady(S)[u].obj = ctx[u].obj
                         /\ MarkReady(S)[u].holds = ctx[u].holds
                         /\ MarkReady(S)[u].ready <=> (ctx[u].ready \/ u \in S)
  BY <1>1, MarkReadyKeeps
<1>3. \A u \in S : ctx[u].kind # "MONITOR_WAIT"
  BY DEF Entrants
<1> QED  BY <1>2, <1>3 DEF SameView, Waiting, Given

(* monitorexit releases one hold. *)
LEMMA ReleaseExits ==
  ASSUME Inv, NEW t \in Threads, NEW o \in Objects, MonitorExit(t, o)
  PROVE  JM!Exit(t, o)
<1>1. /\ running = t /\ ctx[t].kind = "NONE" /\ owner[o] = t
      /\ hold' = [hold EXCEPT ![o] = @ - 1]
      /\ IF hold[o] = 1
         THEN owner' = [owner EXCEPT ![o] = Nobody] /\ ctx' = monitor_exit_handler(o)
         ELSE UNCHANGED <<owner, ctx>>
  BY DEF MonitorExit, monitor_release, Executing
<1>2. ctx[t].holds = 0
  BY <1>1 DEF Inv, MonitorsSound
<1>3. \A u \in Threads : SameView(ctx[u], ctx'[u])
  <2>1. CASE hold[o] = 1
    <3>1. PICK S \in SUBSET Entrants(o) : monitor_exit_handler(o) = MarkReady(S)
      BY <1>1, ExitHandlerHandsOff
    <3> QED  BY <1>1, <2>1, <3>1, MarkingEntrants
  <2>2. CASE hold[o] # 1
    BY <1>1, <2>2 DEF SameView
  <2> QED  BY <2>1, <2>2
<1>4. waitSet' = waitSet /\ saved' = saved
  BY <1>3, SameViewKeeps
<1>5. owner' = IF hold[o] = 1 THEN [owner EXCEPT ![o] = Nobody] ELSE owner
  BY <1>1
<1>6. JM!Free(t)
  BY <1>2, HoldsNothingBack
<1> QED  BY <1>1, <1>4, <1>5, <1>6 DEF JM!Exit, waitSet, saved

(* Object.wait0 gives up all holds and joins the wait set. *)
LEMMA ReleaseStartsWait ==
  ASSUME Inv, NEW t \in Threads, running = t, ctx[t].kind = "NONE", NEW o \in Objects, owner[o] = t,
         NEW d, ReleaseAllAndSuspend(t, o, d)
  PROVE  JM!StartWait(t, o)
<1> DEFINE w == WaitContext(o, d, hold[o])
<1>1. w.kind = "MONITOR_WAIT" /\ w.obj = o /\ w.holds = hold[o] /\ ~w.ready
  BY DEF WaitContext, MonitorWakeup
<1>2. PICK S \in SUBSET Entrants(o) : monitor_exit_handler(o) = MarkReady(S)
  BY ExitHandlerHandsOff
<1>3. MarkReady(S) \in [Threads -> WakeupInfo]
  BY MarkReadyKeeps DEF Inv, TypeOK
<1>4. ctx' = [MarkReady(S) EXCEPT ![t] = w]
  BY <1>2 DEF ReleaseAllAndSuspend
<1> HIDE DEF w
<1>5. \A u \in Threads : ctx'[u] = IF u = t THEN w ELSE MarkReady(S)[u]
  BY <1>3, <1>4
<1>6. \A u \in Threads \ {t}, p \in Objects : /\ Waiting(ctx'[u], p) <=> Waiting(ctx[u], p)
                                              /\ Given(ctx'[u], p) = Given(ctx[u], p)
  BY <1>5, MarkingEntrants DEF SameView
<1>7. ctx[t].kind # "MONITOR_WAIT" /\ ctx[t].holds = 0
  BY DEF Inv, MonitorsSound
<1>8. \A p \in Objects : ~Waiting(ctx[t], p) /\ Given(ctx[t], p) = 0
  BY <1>7, EntrantIsInvisible
<1>9. \A p \in Objects : /\ Waiting(ctx'[t], p) <=> p = o
                         /\ Given(ctx'[t], p) = IF p = o THEN hold[o] ELSE 0
  BY <1>1, <1>5 DEF Waiting, Given
<1>10. \A p \in Objects : {u \in Threads : Waiting(ctx'[u], p)} =
         IF p = o THEN {u \in Threads : Waiting(ctx[u], o)} \cup {t} ELSE {u \in Threads : Waiting(ctx[u], p)}
  BY <1>6, <1>8, <1>9
<1>11. waitSet' = [waitSet EXCEPT ![o] = {u \in Threads : Waiting(ctx[u], o)} \cup {t}]
  BY <1>10, WaitSetExcept
<1>12. waitSet[o] = {u \in Threads : Waiting(ctx[u], o)}
  BY DEF waitSet, Waiting
<1>13. waitSet' = [waitSet EXCEPT ![o] = waitSet[o] \cup {t}]
  BY <1>11, <1>12
<1>14. saved' = [saved EXCEPT ![t][o] = hold[o]]
  BY <1>6, <1>8, <1>9, SavedExcept
<1>15. JM!Free(t)
  BY <1>7, HoldsNothingBack
<1>16. owner' = [owner EXCEPT ![o] = Nobody] /\ hold' = [hold EXCEPT ![o] = 0]
  BY DEF ReleaseAllAndSuspend, Take
<1> QED  BY <1>13, <1>14, <1>15, <1>16 DEF JM!StartWait, waitSet, saved

(* Notifications: some of the threads that wait on o are marked ready. *)
LEMMA MarkingWakes ==
  ASSUME Inv, NEW o \in Objects, NEW S \in SUBSET Waiters("MONITOR_WAIT", o), ctx' = MarkReady(S),
         owner[o] # Nobody \/ o \in Threads, UNCHANGED <<owner, hold>>
  PROVE  JM!JNext
<1>1. ctx \in [Threads -> WakeupInfo] /\ Range(rr) \subseteq Threads
  BY DEF Inv, TypeOK, RunQueueSound
<1>2. \A u \in Threads : /\ ctx'[u].kind = ctx[u].kind
                         /\ ctx'[u].obj = ctx[u].obj
                         /\ ctx'[u].holds = ctx[u].holds
                         /\ ctx'[u].ready <=> (ctx[u].ready \/ u \in S)
  BY <1>1, MarkReadyKeeps
<1> PICK R \in SUBSET S : R = {u \in S : ~ctx[u].ready}
  OBVIOUS
<1>3. \A u \in S : u \in Threads /\ ctx[u].kind = "MONITOR_WAIT" /\ ctx[u].obj = o
  BY <1>1 DEF Waiters
<1>4. waitSet[o] = {u \in Threads : Waiting(ctx[u], o)}
  BY DEF waitSet, Waiting
<1>5. R \in SUBSET waitSet[o]
  BY <1>3, <1>4 DEF Waiting
<1>6. \A p \in Objects : {u \in Threads : Waiting(ctx'[u], p)} =
        IF p = o THEN {u \in Threads : Waiting(ctx[u], o)} \ R ELSE {u \in Threads : Waiting(ctx[u], p)}
  BY <1>2, <1>3 DEF Waiting
<1>7. waitSet' = [waitSet EXCEPT ![o] = waitSet[o] \ R]
  <2>1. waitSet' = [waitSet EXCEPT ![o] = {u \in Threads : Waiting(ctx[u], o)} \ R]
    BY <1>6, WaitSetExcept
  <2> QED  BY <1>4, <2>1
<1>8. saved' = saved
  BY <1>2 DEF saved
<1>9. JM!Wake(o, R)
  BY <1>5, <1>7, <1>8 DEF JM!Wake, waitSet, saved
<1>10. \E Q \in SUBSET waitSet[o] : JM!Wake(o, Q)
  BY <1>5, <1>9
<1> QED  BY <1>10, Zenon DEF JM!JNext, waitSet

(* A thread whose last call returned notifies those who wait on it. *)
LEMMA ReturnWakes ==
  ASSUME Inv, NEW t \in Threads, Return(t)
  PROVE  JM!JNext \/ UNCHANGED JM!jvars
<1>1. UNCHANGED <<owner, hold>> /\ unshift(t)
  BY DEF Return, monitorVars
<1>2. CASE calls[t] > 1
  <2>1. ctx' = ctx
    BY <1>1, <1>2 DEF unshift
  <2> QED  BY <1>1, <2>1, SameViewStutters DEF SameView
<1>3. CASE ~(calls[t] > 1) /\ t \in Objects
  <2>1. ctx' = MarkReady(Waiters("MONITOR_WAIT", t))
    BY <1>1, <1>3 DEF unshift, monitor_notify_all
  <2> QED  BY <1>1, <1>3, <2>1, MarkingWakes
<1>4. CASE ~(calls[t] > 1) /\ t \notin Objects
  <2>1. ctx' = MarkReady(Waiters("MONITOR_WAIT", t))
    BY <1>1, <1>4 DEF unshift, monitor_notify_all
  <2>2. Waiters("MONITOR_WAIT", t) = {}
    BY <1>4 DEF Waiters, Inv, MonitorsSound, RunQueueSound
  <2>3. \A u \in Threads : ctx'[u] = ctx[u]
    BY <2>1, <2>2 DEF MarkReady
  <2> QED  BY <1>1, <2>3, SameViewStutters DEF SameView
<1> QED  BY <1>2, <1>3, <1>4

-----------------------------------------------------------------------------
(* Every step of the runtime is a step of Java's monitors, or one they cannot *)
(* see.                                                                       *)
LEMMA MonitorStep ==
  ASSUME Inv, [Next]_vars
  PROVE  [JM!JNext]_(JM!jvars)
<1> USE ThreadsAssumption, BoundsAssumption
<1> DEFINE Allowed == JM!JNext \/ UNCHANGED JM!jvars
<1>1. TypeOK /\ MonitorsSound
  BY DEF Inv
<1>2. \A t \in Threads, o \in Objects :
        JM!Enter(t, o) \/ JM!Exit(t, o) \/ JM!StartWait(t, o) \/ JM!GiveUp(t, o) \/ JM!EndWait(t, o)
          => Allowed
  BY DEF JM!JNext
<1> HIDE DEF Allowed
<1>3. UNCHANGED JM!jvars => Allowed
  BY DEF Allowed
<1>4. JM!JNext => Allowed
  BY DEF Allowed
<1>5. UNCHANGED <<ctx, owner, hold>> => Allowed
  BY <1>3, SameViewStutters DEF SameView
<1>6. ASSUME NEW t \in Threads, ctx[t].kind \notin MonitorKinds, NEW w, Plain(w), Suspend(t, w),
             UNCHANGED <<owner, hold>>
      PROVE  Allowed
  BY <1>3, <1>6, PlainStutters DEF Suspend
<1>7. ASSUME NEW t \in Threads, ctx[t].kind \notin MonitorKinds, Continue(t), UNCHANGED <<owner, hold>>
      PROVE  Allowed
  BY <1>3, <1>7, PlainNotSuspended, PlainStutters DEF Continue
<1>8. ASSUME rr_scheduler_step \/ Tick \/ UNCHANGED vars  PROVE Allowed
  BY <1>5, <1>8 DEF rr_scheduler_step, Tick, vars, monitorVars
<1>9. ASSUME NEW t \in Threads, ffi_rr_schedule(t)  PROVE Allowed
  BY <1>5, <1>9 DEF ffi_rr_schedule, monitorVars
<1>10. Plain(Wakeup("YIELDING", 0)) /\ Plain(Wakeup("REFERENCE_PENDING", Far))
  BY PlainWakeup DEF Kinds, MonitorKinds, Far
<1>11. ASSUME NEW t \in Threads, refuel_check(t)  PROVE Allowed
  BY <1>6, <1>10, <1>11 DEF refuel_check, monitorVars, MonitorKinds
<1>12. ASSUME NEW t \in Threads, yield0(t)  PROVE Allowed
  BY <1>6, <1>10, <1>12 DEF yield0, Executing, monitorVars, MonitorKinds
<1>13. ASSUME NEW t \in Threads, InterruptedBefore(t)  PROVE Allowed
  BY <1>5, <1>13 DEF InterruptedBefore, monitorVars
<1>14. ASSUME NEW t \in Threads, NEW d \in Delays, sleepNanos0(t, d)  PROVE Allowed
  <2>1. CASE InterruptedBefore(t)
    BY <1>13, <2>1
  <2>2. CASE ~InterruptedBefore(t)
    <3>1. "SLEEP" \in Kinds \ MonitorKinds /\ now + d \in 0 .. Far
      BY <1>1, <1>14, <2>2 DEF Kinds, MonitorKinds, Far, sleepNanos0, TypeOK
    <3>2. Plain(Wakeup("SLEEP", now + d))
      BY <3>1, PlainWakeup
    <3> QED  BY <1>6, <1>14, <2>2, <3>2 DEF sleepNanos0, Executing, monitorVars, MonitorKinds
  <2> QED  BY <2>1, <2>2
<1>15. ASSUME NEW t \in Threads, NEW d \in Delays, park(t, d)  PROVE Allowed
  <2>1. "THREAD_PARK" \in Kinds \ MonitorKinds /\ (IF d = 0 THEN 0 ELSE now + d) \in 0 .. Far
    BY <1>1, <1>15 DEF Kinds, MonitorKinds, Far, park, TypeOK
  <2>2. Plain(Wakeup("THREAD_PARK", IF d = 0 THEN 0 ELSE now + d))
    BY <2>1, PlainWakeup
  <2> QED  BY <1>6, <1>15, <2>2 DEF park, Executing, monitorVars, MonitorKinds
<1>16. ASSUME NEW t \in Threads, ctx[t].kind \notin MonitorKinds, ReferenceLoop(t), UNCHANGED monitorVars
       PROVE  Allowed
  <2>1. CASE refs
    BY <1>7, <1>16, <2>1 DEF ReferenceLoop, monitorVars
  <2>2. CASE ~refs
    BY <1>6, <1>10, <1>16, <2>2 DEF ReferenceLoop, monitorVars
  <2> QED  BY <2>1, <2>2
<1>17. ASSUME NEW t \in Threads, NEW u \in Threads,
              interrupt0(t, u) \/ unpark(t, u) \/ JoinTest(t, u) \/ start0(t, u)
       PROVE  Allowed
  BY <1>5, <1>17 DEF interrupt0, unpark, JoinTest, start0, monitorVars
<1>18. ASSUME NEW t \in Threads, getAndClearReferencePendingList(t) \/ DiscoverReferences(t)  PROVE Allowed
  BY <1>5, <1>18 DEF getAndClearReferencePendingList, DiscoverReferences, monitorVars
<1>19. ASSUME NEW t \in Threads, NEW o \in Objects, ctx[t].kind # "MONITOR_WAIT", ctx[t].holds = 0,
              monitor_acquire(t, o)
       PROVE  Allowed
  <2>1. CASE owner[o] = Nobody /\ Take(t, o, 1) /\ Continue(t)
    <3>1. hold[o] + 1 = 1
      BY <1>1, <2>1 DEF MonitorsSound
    <3> QED  BY <1>2, <1>19, <2>1, <3>1, TakeEnters
  <2>2. CASE owner[o] = t /\ Take(t, o, hold[o] + 1) /\ Continue(t)
    BY <1>2, <1>19, <2>2, TakeEnters
  <2>3. CASE Suspend(t, EnterWaiting(o, FALSE, 0)) /\ UNCHANGED monitorVars
    <3>1. EnterWaiting(o, FALSE, 0).kind # "MONITOR_WAIT" /\ EnterWaiting(o, FALSE, 0).holds = 0
      BY DEF EnterWaiting, MonitorWakeup
    <3>2. waitSet' = waitSet /\ saved' = saved
      BY <1>19, <2>3, <3>1, InvisibleKeeps DEF Suspend
    <3> QED  BY <1>3, <2>3, <3>2 DEF JM!jvars, waitSet, saved, monitorVars
  <2> QED  BY <1>19, <2>1, <2>2, <2>3 DEF monitor_acquire
<1>20. ASSUME NEW t \in Threads, NEW o \in Objects, MonitorExit(t, o)  PROVE Allowed
  BY <1>2, <1>20, ReleaseExits
<1>21. ASSUME NEW t \in Threads, running = t, ctx[t].kind = "NONE",
              NEW o \in Objects, NEW d \in Nat, wait0(t, o, d)
       PROVE  Allowed
  <2>1. CASE InterruptedBefore(t)
    BY <1>13, <2>1
  <2>2. CASE owner[o] = t /\ ReleaseAllAndSuspend(t, o, d)
    BY <1>2, <1>21, <2>2, ReleaseStartsWait
  <2> QED  BY <1>21, <2>1, <2>2 DEF wait0
<1>22. ASSUME NEW t \in Threads, ctx[t].kind \in MonitorKinds, ctx[t].holds > 0, NEW r,
              monitor_reacquire_hold_count(t, ctx[t].obj, ctx[t].holds, r)
       PROVE  Allowed
  <2>1. PICK o \in Objects : o = ctx[t].obj
    BY <1>1, <1>22 DEF MonitorsSound, MonitorKinds
  <2>2. CASE owner[o] = Nobody /\ Take(t, o, ctx[t].holds) /\ Continue(t)
    BY <1>2, <1>22, <2>1, <2>2, TakeEndsWait
  <2>3. CASE Suspend(t, EnterWaiting(o, r, ctx[t].holds)) /\ UNCHANGED monitorVars
    <3>1. JM!GiveUp(t, o) \/ UNCHANGED JM!jvars
      BY <1>22, <2>1, <2>3, BlockGivesUp DEF monitorVars
    <3> QED  BY <1>2, <1>3, <3>1
  <2> QED  BY <1>22, <2>1, <2>2, <2>3 DEF monitor_reacquire_hold_count
<1>23. ASSUME NEW t \in Threads, NEW o \in Objects, Notify(t, o) \/ NotifyAll(t, o)  PROVE Allowed
  <2>1. owner[o] = t /\ UNCHANGED <<owner, hold>>
    BY <1>23 DEF Notify, NotifyAll, holdsLock, monitorVars
  <2>2. \E S \in SUBSET Waiters("MONITOR_WAIT", o) : ctx' = MarkReady(S)
    <3>1. CASE Notify(t, o)
      BY <1>1, <3>1, MarkFirstMarks DEF Notify, monitor_notify_one, TypeOK
    <3>2. CASE NotifyAll(t, o)
      BY <3>2 DEF NotifyAll, monitor_notify_all
    <3> QED  BY <1>23, <3>1, <3>2
  <2> QED  BY <1>4, <2>1, <2>2, MarkingWakes
<1>24. ASSUME NEW t \in Threads, Operation(t)  PROVE Allowed
  <2>1. ASSUME NEW o \in Objects, MonitorEnter(t, o)  PROVE Allowed
    <3>1. ctx[t].kind = "NONE" /\ ctx[t].holds = 0
      BY <1>1, <2>1 DEF MonitorEnter, Executing, MonitorsSound
    <3> QED  BY <1>19, <2>1, <3>1 DEF MonitorEnter
  <2>2. ASSUME NEW o \in Objects, NEW d \in Delays, Wait(t, o, d)  PROVE Allowed
    BY <1>21, <2>2 DEF Wait, Executing
  <2>3. ASSUME waitForReferencePendingList(t)  PROVE Allowed
    BY <1>16, <2>3 DEF waitForReferencePendingList, Executing, MonitorKinds
  <2>4. ASSUME JoinWait(t)  PROVE Allowed
    <3>1. joining[t] \in Objects
      BY <1>1, <2>4 DEF TypeOK, JoinWait
    <3> QED  BY <1>21, <2>4, <3>1 DEF JoinWait
  <2> QED  BY <1>12, <1>14, <1>15, <1>17, <1>18, <1>20, <1>23, <1>24, <2>1, <2>2, <2>3, <2>4 DEF Operation
<1>25. ASSUME NEW t \in Threads, Resume(t)  PROVE Allowed
  <2>1. ASSUME ResumeYield(t) \/ ResumePark(t) \/ ResumeSleep(t)  PROVE Allowed
    BY <1>7, <2>1 DEF ResumeYield, ResumePark, ResumeSleep, Resuming, monitorVars, MonitorKinds
  <2>2. ASSUME ResumeReferences(t)  PROVE Allowed
    BY <1>16, <2>2 DEF ResumeReferences, Resuming, MonitorKinds
  <2>3. ASSUME ResumeMonitorEnter(t)  PROVE Allowed
    <3>1. ctx[t].obj \in Objects
      BY <1>1, <2>3 DEF ResumeMonitorEnter, Resuming, MonitorsSound
    <3> QED  BY <1>19, <2>3, <3>1 DEF ResumeMonitorEnter, Resuming
  <2>4. ASSUME ResumeWait(t)  PROVE Allowed
    <3>1. ctx[t].kind = "MONITOR_WAIT" /\ ctx[t].holds > 0
      BY <1>1, <2>4 DEF ResumeWait, Resuming, MonitorsSound
    <3> QED  BY <1>22, <2>4, <3>1 DEF ResumeWait, MonitorKinds
  <2>5. ASSUME ResumeReacquire(t)  PROVE Allowed
    BY <1>22, <2>5 DEF ResumeReacquire, Resuming, MonitorKinds
  <2> QED  BY <1>25, <2>1, <2>2, <2>3, <2>4, <2>5 DEF Resume
<1>26. ASSUME NEW t \in Threads, Return(t)  PROVE Allowed
  BY <1>3, <1>4, <1>26, ReturnWakes
<1>27. Allowed
  BY <1>8, <1>9, <1>11, <1>24, <1>25, <1>26 DEF Next
<1> QED  BY <1>27 DEF Allowed

LEMMA MonitorInit == Init => JM!JInit
BY PlainNotSuspended, PlainIsInvisible DEF Init, JM!JInit, JM!NothingSaved, Waiting, Given

(* The monitors of this VM, built from wakeup records, ready flags, hand-over *)
(* on exit and retries after spurious dispatches, are Java's monitors: no     *)
(* interleaving of the scheduler, the natives and the program gives a monitor *)
(* two owners, returns from wait with another number of holds, or takes a     *)
(* thread out of a wait set other than by notify, death, timeout or           *)
(* interrupt.                                                                 *)
THEOREM MonitorsImplemented == Spec => ImplementsJavaMonitors
<1>1. Inv /\ [Next]_vars => [JM!JNext]_(JM!jvars)
  BY MonitorStep
<1> QED  BY <1>1, MonitorInit, InvHolds, PTL DEF Spec, ImplementsJavaMonitors, JM!JSpec
=============================================================================
