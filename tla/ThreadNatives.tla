---------------------------- MODULE ThreadNatives ----------------------------
(***************************************************************************)
(* The natives of java.lang.Thread, jdk.internal.misc.Unsafe and           *)
(* java.lang.ref.Reference that suspend a thread or change what another    *)
(* one sees: start, sleep, yield, interrupt, park, unpark and the wait for *)
(* cleared references; and Thread.join, the JDK code over isAlive() and    *)
(* wait(0) that is told of a thread's death by the scheduler.              *)
(***************************************************************************)
EXTENDS Monitors

start0(t, u) ==
  /\ Executing(t)
  /\ u \notin started
  /\ started' = started \cup {u}
  /\ eetop' = [eetop EXCEPT ![u] = TRUE]
  /\ Enqueue(u)
  /\ UNCHANGED <<ctx, running, monitorVars, interrupted, permit, joining, refs, now>>

(* The scheduler is not told: is_sleeping looks at the flag. *)
interrupt0(t, u) ==
  /\ Executing(t)
  /\ interrupted' = [interrupted EXCEPT ![u] = TRUE]
  /\ UNCHANGED <<queueVars, ctx, running, monitorVars, started, eetop, permit, joining, refs, now>>

sleepNanos0(t, d) ==
  /\ Executing(t)
  /\ \/ InterruptedBefore(t)
     \/ /\ ~interrupted[t]
        /\ now + d < MaxTime
        /\ Suspend(t, Wakeup("SLEEP", now + d))
        /\ UNCHANGED <<queueVars, monitorVars, threadVars, now>>

(* Awake again: an interrupt is thrown and consumed. *)
ResumeSleep(t) ==
  /\ Resuming(t, "SLEEP")
  /\ Continue(t)
  /\ interrupted' = [interrupted EXCEPT ![t] = FALSE]
  /\ UNCHANGED <<queueVars, monitorVars, started, eetop, permit, joining, refs, now>>

yield0(t) ==
  /\ Executing(t)
  /\ Suspend(t, Wakeup("YIELDING", 0))
  /\ UNCHANGED <<queueVars, monitorVars, threadVars, now>>

(* Unsafe.park with a relative timeout, none if d = 0, or an absolute        *)
(* deadline that has not passed.  A pending permit or interrupt is noticed   *)
(* by is_sleeping only.                                                      *)
park(t, d) ==
  /\ Executing(t)
  /\ d = 0 \/ now + d < MaxTime
  /\ Suspend(t, Wakeup("THREAD_PARK", IF d = 0 THEN 0 ELSE now + d))
  /\ UNCHANGED <<queueVars, monitorVars, threadVars, now>>

(* Neither the permit nor an interrupt is consumed. *)
ResumePark(t) ==
  /\ Resuming(t, "THREAD_PARK")
  /\ Continue(t)
  /\ UNCHANGED <<queueVars, monitorVars, threadVars, now>>

(* set_unpark_permit finds the vm_thread by eetop. *)
unpark(t, u) ==
  /\ Executing(t)
  /\ permit' = IF eetop[u] THEN [permit EXCEPT ![u] = TRUE] ELSE permit
  /\ UNCHANGED <<queueVars, ctx, running, monitorVars, started, eetop, interrupted, joining, refs, now>>

(* The loop of waitForReferencePendingList, from its test on. *)
ReferenceLoop(t) == IF refs THEN Continue(t) ELSE Suspend(t, Wakeup("REFERENCE_PENDING", Far))

waitForReferencePendingList(t) ==
  /\ Executing(t)
  /\ ReferenceLoop(t)
  /\ UNCHANGED <<queueVars, monitorVars, threadVars, now>>

ResumeReferences(t) ==
  /\ Resuming(t, "REFERENCE_PENDING")
  /\ ReferenceLoop(t)
  /\ UNCHANGED <<queueVars, monitorVars, threadVars, now>>

getAndClearReferencePendingList(t) ==
  /\ Executing(t)
  /\ refs' = FALSE
  /\ UNCHANGED <<queueVars, ctx, running, monitorVars, started, eetop, interrupted, permit, joining, now>>

(* A collection, on an allocation of t, clears the referent of a Reference. *)
DiscoverReferences(t) ==
  /\ Executing(t)
  /\ refs' = TRUE
  /\ UNCHANGED <<queueVars, ctx, running, monitorVars, started, eetop, interrupted, permit, joining, now>>

-----------------------------------------------------------------------------
(* Thread.join on u, in its monitor: isAlive() is true, wait(0) comes next.  *)
(* There are branches, hence preemption points, between the two.             *)
JoinTest(t, u) ==
  /\ Executing(t)
  /\ u \in Objects
  /\ holdsLock(t, u)
  /\ eetop[u]
  /\ joining' = [joining EXCEPT ![t] = u]
  /\ UNCHANGED <<queueVars, ctx, running, monitorVars, started, eetop, interrupted, permit, refs, now>>

JoinWait(t) ==
  /\ running = t
  /\ ctx[t].kind = "NONE"
  /\ joining[t] # Nobody
  /\ wait0(t, joining[t], 0)
=============================================================================
