----------------------------- MODULE RoundRobin -----------------------------
(***************************************************************************)
(* The round-robin scheduler of vm/roundrobin_scheduler.c: the order in    *)
(* which threads get the interpreter, who is asleep, what monitorexit,     *)
(* notify and notifyAll write into the wakeup records of other threads,    *)
(* and how a thread enters and leaves the run queue.                       *)
(***************************************************************************)
EXTENDS VMThreads, SequencesExt

(* The least index of an element of S in sequence s. *)
FirstIndex(s, S) ==
  CHOOSE i \in DOMAIN s : s[i] \in S /\ \A j \in DOMAIN s : s[j] \in S => i <= j

(* The first element of sequence s that is in S. *)
First(s, S) == s[FirstIndex(s, S)]

(* arrdel(s, 0) followed by arrput of the same element, k times. *)
Rotate(s, k) ==
  [i \in 1 .. Len(s) |-> IF i + k <= Len(s) THEN s[i + k] ELSE s[i + k - Len(s)]]

(* arrdel(s, k) followed by arrput of the same element. *)
MoveToTail(s, k) ==
  [i \in 1 .. Len(s) |-> IF i < k THEN s[i]
                         ELSE IF i < Len(s) THEN s[i + 1] ELSE s[k]]

-----------------------------------------------------------------------------
(* Threads in the run queue whose record says they wait in the given way on *)
(* o.  A running thread has no wakeup_info.                                 *)
Waiters(kind, o) ==
  {t \in Range(rr) : t # running /\ ctx[t].kind = kind /\ ctx[t].obj = o}

MarkReady(S) ==
  [t \in Threads |-> IF t \in S THEN [ctx[t] EXCEPT !.ready = TRUE] ELSE ctx[t]]

(* Mutation: the first thread of the run queue is not looked at. *)
MarkFirstSkippingHead(kind, o) ==
  LET W == Waiters(kind, o) \ {rr[1]} IN MarkReady(IF W = {} THEN {} ELSE {First(rr, W)})

(* Contexts after the first waiter of the run queue has been marked ready. *)
MarkFirst(kind, o) ==
  LET W == Waiters(kind, o) IN MarkReady(IF W = {} THEN {} ELSE {First(rr, W)})

monitor_notify_one(o) == MarkFirst("MONITOR_WAIT", o)

monitor_notify_all(o) == MarkReady(Waiters("MONITOR_WAIT", o))

(* Mutation: nobody is told that the monitor is free again. *)
NoExitHandler(o) == ctx

monitor_exit_handler(o) == MarkFirst("MONITOR_ENTER_WAITING", o)

-----------------------------------------------------------------------------
(* monitorenter and synchronized methods run monitor_acquire on a context in *)
(* their own C frame, so the record the scheduler keeps a pointer to is gone *)
(* once they return.  Its content is then arbitrary.                         *)
RecordIsDead(t) ==
  /\ ~RecordsSurvive
  /\ ctx[t].kind = "MONITOR_ENTER_WAITING"
  /\ ctx[t].holds = 0

(* The event the record waits for has not happened yet. *)
Blocked(t) ==
  \/ ctx[t].kind = "SLEEP"
  \/ ctx[t].kind = "THREAD_PARK" /\ ~permit[t]
  \/ ctx[t].kind \in {"MONITOR_WAIT", "MONITOR_ENTER_WAITING"} /\ ~ctx[t].ready

(* Mutation: the deadline is not looked at. *)
is_sleeping_forever(t, time) ==
  IF ctx[t].kind = "REFERENCE_PENDING" THEN ~refs
  ELSE Blocked(t) /\ ~(interrupted[t] /\ ctx[t].kind # "MONITOR_ENTER_WAITING")

(* Mutation: a deadline of 0 is a deadline in the past. *)
is_sleeping_zero_deadline(t, time) ==
  IF ctx[t].kind = "REFERENCE_PENDING" THEN ~refs
  ELSE /\ Blocked(t)
       /\ ~(interrupted[t] /\ ctx[t].kind # "MONITOR_ENTER_WAITING")
       /\ ctx[t].until >= time

is_sleeping(t, time) ==
  IF ctx[t].kind = "REFERENCE_PENDING" THEN ~refs
  ELSE /\ Blocked(t)
       /\ ~(interrupted[t] /\ ctx[t].kind # "MONITOR_ENTER_WAITING")
       /\ ctx[t].until = 0 \/ ctx[t].until >= time

(* What the scheduler sees, when the dead records that read as asleep are    *)
(* the ones in garbage.                                                      *)
Asleep(t, time, garbage) ==
  IF RecordIsDead(t) THEN t \in garbage ELSE is_sleeping(t, time)

(* The position of the first thread with the least deadline. *)
EarliestIndex(s) ==
  CHOOSE i \in DOMAIN s : \A j \in DOMAIN s :
    \/ ctx[s[i]].until < ctx[s[j]].until
    \/ ctx[s[i]].until = ctx[s[j]].until /\ i <= j

only_daemons_running == Range(rr) \subseteq Daemons

(* Mutation: the search always starts at the thread scheduled first. *)
get_next_thr_no_rotation(time, garbage) ==
  LET awake == {t \in Range(rr) : ~Asleep(t, time, garbage)}
      k == IF awake # {} THEN FirstIndex(rr, awake) ELSE EarliestIndex(rr)
  IN [thread |-> rr[k], queue |-> rr]

(* Mutation: the chosen thread is dropped from the queue. *)
get_next_thr_drops(time, garbage) ==
  LET awake == {t \in Range(rr) : ~Asleep(t, time, garbage)}
      k == IF awake # {} THEN FirstIndex(rr, awake) ELSE EarliestIndex(rr)
  IN [thread |-> rr[k],
      queue  |-> IF awake # {} THEN Rotate(rr, k) ELSE RemoveAt(rr, k)]

(* The thread to run next and the run queue afterwards: the first thread    *)
(* that is awake, every thread up to it having moved behind the others, or, *)
(* when all sleep, the one with the least deadline (0 counts as least).     *)
get_next_thr(time, garbage) ==
  LET awake == {t \in Range(rr) : ~Asleep(t, time, garbage)}
      k == IF awake # {} THEN FirstIndex(rr, awake) ELSE EarliestIndex(rr)
  IN [thread |-> rr[k],
      queue  |-> IF awake # {} THEN Rotate(rr, k) ELSE MoveToTail(rr, k)]

(* rr_scheduler_step up to call_interpreter.  It reads the clock, then      *)
(* get_next_thr reads it again: the clock may have moved in between, so the *)
(* thread found awake may still be asleep by the first reading.             *)
rr_scheduler_step ==
  /\ running = Nobody
  /\ ~only_daemons_running
  /\ \E later \in {now, now + 1}, garbage \in SUBSET {t \in Threads : RecordIsDead(t)} :
       LET next == get_next_thr(later, garbage)
       IN /\ later <= MaxTime
          /\ now' = later
          /\ rr' = next.queue
          /\ running' = IF Asleep(next.thread, now, garbage) THEN Nobody ELSE next.thread
  /\ UNCHANGED <<calls, ctx, monitorVars, threadVars>>

(* rr_scheduler_run: a call is queued on t, which joins the run queue unless *)
(* it is in it already.                                                      *)
Enqueue(t) ==
  /\ calls' = [calls EXCEPT ![t] = @ + 1]
  /\ rr' = IF t \in Range(rr) THEN rr ELSE Append(rr, t)

(* ffi_rr_schedule: JavaScript schedules a method on a thread it knows.      *)
ffi_rr_schedule(t) ==
  /\ running = Nobody
  /\ t \in started
  /\ calls[t] < MaxCalls
  /\ Enqueue(t)
  /\ UNCHANGED <<ctx, running, monitorVars, threadVars, now>>

(* unshift and free_thread_info: the finished call is dropped; without        *)
(* another one the thread leaves the run queue, is dead to Java, and wakes    *)
(* the threads that wait on its java.lang.Thread.                             *)
unshift(t) ==
  /\ calls' = [calls EXCEPT ![t] = @ - 1]
  /\ IF calls[t] > 1
     THEN UNCHANGED <<rr, eetop, ctx>>
     ELSE /\ rr' = RemoveAt(rr, FirstIndex(rr, {t}))
          /\ eetop' = [eetop EXCEPT ![t] = FALSE]
          /\ ctx' = monitor_notify_all(t)

(* call_interpreter returned READY.  Java compilers emit balanced            *)
(* monitorenter and monitorexit, so a call that returns holds no monitor.    *)
Return(t) ==
  /\ Executing(t)
  /\ \A o \in Objects : owner[o] # t
  /\ running' = Nobody
  /\ unshift(t)
  /\ UNCHANGED <<monitorVars, started, interrupted, permit, joining, refs, now>>

(* refuel_check at a branch, once the time slice is over: t yields. *)
refuel_check(t) ==
  /\ running = t
  /\ ctx[t].kind = "NONE"
  /\ Suspend(t, Wakeup("YIELDING", 0))
  /\ UNCHANGED <<queueVars, monitorVars, threadVars, now>>

(* CONT_RESUME_INSN, and the end of Thread.yield0. *)
ResumeYield(t) ==
  /\ Resuming(t, "YIELDING")
  /\ Continue(t)
  /\ UNCHANGED <<queueVars, monitorVars, threadVars, now>>

(* Time passes. *)
Tick ==
  /\ now < MaxTime
  /\ now' = now + 1
  /\ UNCHANGED <<queueVars, ctx, running, monitorVars, threadVars>>
=============================================================================
