---------------------------- MODULE GreenThreads ----------------------------
(***************************************************************************)
(* The green-thread runtime as a whole: the scheduler, the monitors and    *)
(* the natives, driven by an arbitrary Java program that performs the      *)
(* operations of the groups in Ops, and by JavaScript scheduling calls.    *)
(***************************************************************************)
EXTENDS ThreadNatives

(* What the running thread's program may do next. *)
Operation(t) ==
  \/ "monitor" \in Ops /\ \E o \in Objects : MonitorEnter(t, o) \/ MonitorExit(t, o)
  \/ "wait" \in Ops /\ \E o \in Objects, d \in Delays : Wait(t, o, d)
  \/ "notify" \in Ops /\ \E o \in Objects : Notify(t, o) \/ NotifyAll(t, o)
  \/ "sleep" \in Ops /\ \E d \in Delays : sleepNanos0(t, d)
  \/ "yield" \in Ops /\ yield0(t)
  \/ "park" \in Ops /\ \/ \E d \in Delays : park(t, d)
                       \/ \E u \in Threads : unpark(t, u)
  \/ "interrupt" \in Ops /\ \E u \in Threads : interrupt0(t, u)
  \/ "start" \in Ops /\ \E u \in Threads : start0(t, u)
  \/ "join" \in Ops /\ ((\E u \in Threads : JoinTest(t, u)) \/ JoinWait(t))
  \/ "references" \in Ops /\ \/ waitForReferencePendingList(t)
                             \/ getAndClearReferencePendingList(t)
                             \/ DiscoverReferences(t)

(* A context goes on from where it was suspended. *)
Resume(t) ==
  \/ ResumeYield(t)
  \/ ResumeSleep(t)
  \/ ResumePark(t)
  \/ ResumeReferences(t)
  \/ ResumeMonitorEnter(t)
  \/ ResumeWait(t)
  \/ ResumeReacquire(t)

Next ==
  \/ rr_scheduler_step
  \/ \E t \in Threads : \/ Operation(t)
                        \/ Resume(t)
                        \/ refuel_check(t)
                        \/ Return(t)
  \/ "schedule" \in Ops /\ \E t \in Threads : ffi_rr_schedule(t)
  \/ Tick

Spec == Init /\ [][Next]_vars

(* The JavaScript event loop calls the scheduler again while it answers     *)
(* MORE; a resumed context runs; a thread that does not stop otherwise is   *)
(* preempted once its fuel and its time slice are used up; time passes.     *)
Fairness ==
  /\ WF_vars(rr_scheduler_step)
  /\ WF_vars(\E t \in Threads : Resume(t) \/ refuel_check(t))
  /\ WF_vars(Tick)

FairSpec == Spec /\ Fairness

-----------------------------------------------------------------------------
(* Every variable keeps to its C type, within the bounds of the model. *)
TypeOK ==
  /\ rr \in Seq(Threads)
  /\ calls \in [Threads -> 0 .. MaxCalls]
  /\ ctx \in [Threads -> WakeupInfo]
  /\ running \in Threads \cup {Nobody}
  /\ owner \in [Objects -> Threads \cup {Nobody}]
  /\ hold \in [Objects -> 0 .. MaxHold]
  /\ started \in SUBSET Threads
  /\ eetop \in [Threads -> BOOLEAN]
  /\ interrupted \in [Threads -> BOOLEAN]
  /\ permit \in [Threads -> BOOLEAN]
  /\ joining \in [Threads -> (Threads \cap Objects) \cup {Nobody}]
  /\ refs \in BOOLEAN
  /\ now \in 0 .. MaxTime

(* impl.round_robin, whose entries get_next_thr, unshift and start0 shift    *)
(* around: a thread is in it exactly once while it has pending calls and not *)
(* otherwise, a suspended or running thread is never lost from it.           *)
RunQueueSound ==
  /\ IsInjective(rr)
  /\ Range(rr) = {t \in Threads : calls[t] > 0}
  /\ Range(rr) \subseteq started
  /\ running # Nobody => running \in Range(rr)
  /\ \A t \in Threads : ctx[t].kind # "NONE" => t \in Range(rr)

(* A monitor is free exactly when its hold count is 0; its owner is a thread *)
(* that can still release it; and a thread blocked in monitor_acquire,       *)
(* wait0 or monitor_reacquire_hold_count on a monitor does not own it, so    *)
(* the "this should be illegal" case of the latter never happens and the     *)
(* assertion of wait0 on its result holds.  Holds to restore are kept by     *)
(* waiting threads only.                                                     *)
MonitorsSound ==
  /\ \A o \in Objects : owner[o] = Nobody <=> hold[o] = 0
  /\ \A o \in Objects : owner[o] # Nobody => owner[o] \in Range(rr)
  /\ \A t \in Threads :
       IF ctx[t].kind \in {"MONITOR_WAIT", "MONITOR_ENTER_WAITING"}
       THEN /\ ctx[t].obj \in Objects
            /\ owner[ctx[t].obj] # t
            /\ ctx[t].kind = "MONITOR_WAIT" => ctx[t].holds > 0
       ELSE ctx[t].obj = NoObject /\ ctx[t].holds = 0

Entrants(o) == {t \in Threads : ctx[t].kind = "MONITOR_ENTER_WAITING" /\ ctx[t].obj = o}

(* monitor_exit_handler tells one waiter "at most", and a thread that never   *)
(* blocked may take the monitor before that waiter runs.  Still no release is *)
(* lost: whenever a monitor is free and threads wait to enter it, one of them *)
(* is marked ready.                                                           *)
HandOff ==
  \A o \in Objects : owner[o] = Nobody /\ Entrants(o) # {} =>
    \E t \in Entrants(o) : ctx[t].ready

(* The invariant that is inductive. *)
Inv == TypeOK /\ RunQueueSound /\ MonitorsSound /\ HandOff

(* A thread that get_next_thr dispatches out of Thread.sleep, Object.wait or *)
(* Unsafe.park was notified or unparked, is interrupted, or its deadline has *)
(* passed: there are no spurious wakeups, and no early ones although the     *)
(* clock is read twice.                                                      *)
WakesForACause ==
  [][\A t \in Threads : running = Nobody /\ running' = t =>
       LET w == ctx[t]
           timedOut == w.until # 0 /\ w.until < now'
       IN /\ w.kind = "SLEEP" => interrupted[t] \/ timedOut
          /\ w.kind = "MONITOR_WAIT" => interrupted[t] \/ timedOut \/ w.ready
          /\ w.kind = "THREAD_PARK" => interrupted[t] \/ timedOut \/ permit[t]]_vars

-----------------------------------------------------------------------------
(* Round robin does not starve: a thread that has a call pending and is not  *)
(* asleep gets the interpreter, unless the scheduler stops because only      *)
(* daemons are left.                                                         *)
RunnableIsRun ==
  \A t \in Threads :
    (t \in Range(rr) /\ ~is_sleeping(t, now)) ~> (running = t \/ only_daemons_running)

(* A thread with a deadline runs again, even when every other one waits      *)
(* without a deadline and get_next_thr prefers those.                        *)
DeadlineIsMet ==
  \A t \in Threads :
    (ctx[t].until \in 1 .. MaxTime) ~> (running = t \/ only_daemons_running)

(* A free monitor that threads wait to enter does not stay free. *)
LockNotAbandoned ==
  \A o \in Objects :
    (owner[o] = Nobody /\ Entrants(o) # {}) ~> (owner[o] # Nobody \/ only_daemons_running)

-----------------------------------------------------------------------------
(* The monitors of the abstract specification, in the state of the runtime. *)
JM == INSTANCE JavaMonitors WITH
        waitSet <- [o \in Objects |-> {t \in Threads : /\ ctx[t].kind = "MONITOR_WAIT"
                                                       /\ ctx[t].obj = o
                                                       /\ ~ctx[t].ready}],
        saved <- [t \in Threads |-> [o \in Objects |->
                    IF ctx[t].obj = o THEN ctx[t].holds ELSE 0]]

(* Every step of the scheduler, of the monitor code and of the natives is a  *)
(* step that Java's monitors allow, or changes nothing they can see: locks   *)
(* exclude, wait gives up all holds and returns with the same number, notify *)
(* reaches waiters of that object only.                                      *)
ImplementsJavaMonitors == JM!JSpec
=============================================================================
