------------------------------ MODULE Monitors ------------------------------
(***************************************************************************)
(* Object monitors: vm/monitors.c, the monitorenter and monitorexit        *)
(* handlers of vm/interpreter2.c, and the natives of java.lang.Object that *)
(* wait and notify.                                                        *)
(***************************************************************************)
EXTENDS RoundRobin

(* The context of a thread that found o taken. *)
EnterWaiting(o, ready, n) == MonitorWakeup("MONITOR_ENTER_WAITING", 0, o, ready, n)

Take(t, o, n) ==
  /\ owner' = [owner EXCEPT ![o] = t]
  /\ hold' = [hold EXCEPT ![o] = n]

(* monitor_acquire from any point of its loop: take a free monitor, count    *)
(* one more hold of one's own, or suspend.  Every retry runs on a copy of    *)
(* the context, whose ready flag nobody ever sets.                           *)
monitor_acquire(t, o) ==
  \/ owner[o] = Nobody /\ Take(t, o, 1) /\ Continue(t)
  \/ owner[o] = t /\ hold[o] < MaxHold /\ Take(t, o, hold[o] + 1) /\ Continue(t)
  \/ /\ owner[o] \notin {Nobody, t}
     /\ Suspend(t, EnterWaiting(o, FALSE, 0))
     /\ UNCHANGED monitorVars

MonitorEnter(t, o) ==
  /\ Executing(t)
  /\ monitor_acquire(t, o)
  /\ UNCHANGED <<queueVars, threadVars, now>>

(* CONT_MONITOR_ENTER and CONT_SYNCHRONIZED_METHOD. *)
ResumeMonitorEnter(t) ==
  /\ Resuming(t, "MONITOR_ENTER_WAITING")
  /\ ctx[t].holds = 0
  /\ monitor_acquire(t, ctx[t].obj)
  /\ UNCHANGED <<queueVars, threadVars, now>>

(* Mutation: whose monitor it is does not matter. *)
monitor_release_unchecked(t, o) ==
  /\ hold' = [hold EXCEPT ![o] = @ - 1]
  /\ IF hold[o] = 1
     THEN owner' = [owner EXCEPT ![o] = Nobody] /\ ctx' = monitor_exit_handler(o)
     ELSE UNCHANGED <<owner, ctx>>

(* Mutation: the monitor stays owned when its last hold is released. *)
monitor_release_keeps_owner(t, o) ==
  /\ owner[o] = t /\ hold[o] > 0
  /\ hold' = [hold EXCEPT ![o] = @ - 1]
  /\ ctx' = IF hold[o] = 1 THEN monitor_exit_handler(o) ELSE ctx
  /\ UNCHANGED owner

(* monitor_release by an owner.  By any other thread it changes nothing and  *)
(* monitorexit throws IllegalMonitorStateException.                          *)
monitor_release(t, o) ==
  /\ owner[o] = t /\ hold[o] > 0
  /\ hold' = [hold EXCEPT ![o] = @ - 1]
  /\ IF hold[o] = 1
     THEN owner' = [owner EXCEPT ![o] = Nobody] /\ ctx' = monitor_exit_handler(o)
     ELSE UNCHANGED <<owner, ctx>>

MonitorExit(t, o) ==
  /\ Executing(t)
  /\ monitor_release(t, o)
  /\ UNCHANGED <<queueVars, running, threadVars, now>>

-----------------------------------------------------------------------------
(* The context of Object.wait0, which keeps the number of holds it released. *)
WaitContext(o, d, n) ==
  MonitorWakeup("MONITOR_WAIT", IF d = 0 THEN 0 ELSE now + d, o, FALSE, n)

(* monitor_release_all_hold_count by the owner, and the suspension of wait0. *)
ReleaseAllAndSuspend(t, o, d) ==
  /\ Take(Nobody, o, 0)
  /\ ctx' = [monitor_exit_handler(o) EXCEPT ![t] = WaitContext(o, d, hold[o])]
  /\ running' = Nobody

(* A pending interrupt makes wait0 throw InterruptedException at once. *)
InterruptedBefore(t) ==
  /\ interrupted[t]
  /\ interrupted' = [interrupted EXCEPT ![t] = FALSE]
  /\ joining' = [joining EXCEPT ![t] = Nobody]
  /\ UNCHANGED <<queueVars, ctx, running, monitorVars, started, eetop, permit, refs, now>>

(* Object.wait0(d) on o.  By a thread that does not own o it throws          *)
(* IllegalMonitorStateException and changes nothing.                         *)
wait0(t, o, d) ==
  \/ InterruptedBefore(t)
  \/ /\ ~interrupted[t]
     /\ owner[o] = t /\ hold[o] > 0
     /\ d = 0 \/ now + d < MaxTime
     /\ ReleaseAllAndSuspend(t, o, d)
     /\ UNCHANGED <<queueVars, threadVars, now>>

Wait(t, o, d) == Executing(t) /\ wait0(t, o, d)

(* Mutation: one hold is reacquired whatever the thread had released. *)
monitor_reacquire_once(t, o, n, ready) ==
  \/ /\ owner[o] = Nobody
     /\ Take(t, o, 1)
     /\ Continue(t)
     /\ interrupted' = [interrupted EXCEPT ![t] = FALSE]
     /\ joining' = [joining EXCEPT ![t] = Nobody]
  \/ /\ owner[o] # Nobody
     /\ Suspend(t, EnterWaiting(o, ready, n))
     /\ UNCHANGED <<monitorVars, interrupted, joining>>

(* monitor_reacquire_hold_count and the end of wait0, which consumes an      *)
(* interrupt, whatever ended the wait.  Its context is on the heap: a ready  *)
(* flag once set stays set over the retries.  Owning o already is an error   *)
(* there (-1, and an assertion in wait0).                                    *)
monitor_reacquire_hold_count(t, o, n, ready) ==
  \/ /\ owner[o] = Nobody
     /\ Take(t, o, n)
     /\ Continue(t)
     /\ interrupted' = [interrupted EXCEPT ![t] = FALSE]
     /\ joining' = [joining EXCEPT ![t] = Nobody]
  \/ /\ owner[o] \notin {Nobody, t}
     /\ Suspend(t, EnterWaiting(o, ready, n))
     /\ UNCHANGED <<monitorVars, interrupted, joining>>

(* The wait is over: notified, timed out or interrupted. *)
ResumeWait(t) ==
  /\ Resuming(t, "MONITOR_WAIT")
  /\ monitor_reacquire_hold_count(t, ctx[t].obj, ctx[t].holds, FALSE)
  /\ UNCHANGED <<queueVars, started, eetop, permit, refs, now>>

ResumeReacquire(t) ==
  /\ Resuming(t, "MONITOR_ENTER_WAITING")
  /\ ctx[t].holds > 0
  /\ monitor_reacquire_hold_count(t, ctx[t].obj, ctx[t].holds, ctx[t].ready)
  /\ UNCHANGED <<queueVars, started, eetop, permit, refs, now>>

(* current_thread_hold_count(t, o) > 0. *)
holdsLock(t, o) == owner[o] = t /\ hold[o] > 0

Notify(t, o) ==
  /\ Executing(t)
  /\ holdsLock(t, o)
  /\ ctx' = monitor_notify_one(o)
  /\ UNCHANGED <<queueVars, running, monitorVars, threadVars, now>>

NotifyAll(t, o) ==
  /\ Executing(t)
  /\ holdsLock(t, o)
  /\ ctx' = monitor_notify_all(o)
  /\ UNCHANGED <<queueVars, running, monitorVars, threadVars, now>>
=============================================================================
