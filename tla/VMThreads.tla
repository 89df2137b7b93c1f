------------------------------ MODULE VMThreads ------------------------------
(***************************************************************************)
(* The state shared by the green-thread runtime: the run queue of the      *)
(* round-robin scheduler, the suspended context (with its wakeup record)   *)
(* of every thread, the object monitors, and the per-thread flags the      *)
(* natives of java.lang.Thread, java.lang.Object and Unsafe work on.       *)
(*                                                                         *)
(* All Java threads are multiplexed on one OS thread.  `running' is the    *)
(* thread whose interpreter is on the C stack, or Nobody between two calls *)
(* of rr_scheduler_step.  Only the running thread changes this state, and  *)
(* only at a suspension can another one take over.                         *)
(***************************************************************************)
EXTENDS Integers, Sequences, FiniteSets, Functions

CONSTANTS
  Threads,         \* the vm_threads of the VM, each with its java.lang.Thread
  Main,            \* the thread create_main_thread makes
  Daemons,         \* threads whose java.lang.Thread is a daemon
  Objects,         \* objects used as monitors; may contain members of Threads,
                   \* which then stand for their java.lang.Thread objects
  Nobody,          \* no thread: NOT_HELD_TID, and "no interpreter is running"
  NoObject,        \* the monitor of a wakeup record that has none
  MaxTime,         \* bound on the clock
  Delays,          \* the timeouts programs use (0: none, for wait and park)
  MaxHold,         \* bound on a monitor's hold count
  MaxCalls,        \* bound on the calls queued on one thread
  Ops,             \* the groups of operations the Java program performs
  RecordsSurvive   \* FALSE: a wakeup record on a C stack frame that has
                   \* returned is garbage when the scheduler reads it

OpGroups == {"monitor", "wait", "notify", "sleep", "park", "interrupt",
             "start", "join", "references", "schedule", "yield"}

ASSUME ThreadsAssumption ==
  /\ Main \in Threads
  /\ Daemons \subseteq Threads
  /\ Nobody \notin Threads
  /\ NoObject \notin Objects

ASSUME BoundsAssumption ==
  /\ MaxTime \in Nat
  /\ Delays \subseteq Nat
  /\ MaxHold \in Nat \ {0}
  /\ MaxCalls \in Nat \ {0}
  /\ RecordsSurvive \in BOOLEAN

ASSUME OpsAssumption == Ops \subseteq OpGroups

VARIABLES
  rr,           \* impl.round_robin: threads that have a thread_info
  calls,        \* number of pending calls in a thread_info's call_queue
  ctx,          \* the context a thread is suspended in
  running,      \* the thread being interpreted, or Nobody
  owner,        \* monitor_data.tid, by object
  hold,         \* monitor_data.hold_count, by object
  started,      \* threads for which a vm_thread exists
  eetop,        \* native_Thread.eetop is non-zero: Java sees the thread alive
  interrupted,  \* native_Thread.interrupted
  permit,       \* vm_thread.unpark_permit
  joining,      \* the thread whose isAlive() the running join() saw as true
  refs,         \* vm.reference_pending_list is not empty
  now           \* get_unix_us()

threadVars  == <<started, eetop, interrupted, permit, joining, refs>>
monitorVars == <<owner, hold>>
queueVars   == <<rr, calls>>
vars == <<rr, calls, ctx, running, owner, hold, started, eetop, interrupted,
          permit, joining, refs, now>>

-----------------------------------------------------------------------------
(* rr_wakeup_kind, and NONE for a thread that is not suspended in a context. *)
Kinds == {"NONE", "YIELDING", "SLEEP", "REFERENCE_PENDING", "THREAD_PARK",
          "MONITOR_ENTER_WAITING", "MONITOR_WAIT"}

(* INT64_MAX, the deadline waitForReferencePendingList writes. *)
Far == MaxTime + 1

(* rr_wakeup_info, with the hold count the enclosing Object.wait0 context   *)
(* has to restore: 0 in a context of monitorenter or a synchronized method. *)
WakeupInfo == [kind  : Kinds,
               until : 0 .. Far,
               obj   : Objects \cup {NoObject},
               ready : BOOLEAN,
               holds : 0 .. MaxHold]

Wakeup(kind, until) ==
  [kind |-> kind, until |-> until, obj |-> NoObject, ready |-> FALSE, holds |-> 0]

MonitorWakeup(kind, until, o, ready, n) ==
  [kind |-> kind, until |-> until, obj |-> o, ready |-> ready, holds |-> n]

NotSuspended == Wakeup("NONE", 0)

Init ==
  /\ rr = <<>>
  /\ calls = [t \in Threads |-> 0]
  /\ ctx = [t \in Threads |-> NotSuspended]
  /\ running = Nobody
  /\ owner = [o \in Objects |-> Nobody]
  /\ hold = [o \in Objects |-> 0]
  /\ started = {Main}
  /\ eetop = [t \in Threads |-> t = Main]
  /\ interrupted = [t \in Threads |-> FALSE]
  /\ permit = [t \in Threads |-> FALSE]
  /\ joining = [t \in Threads |-> Nobody]
  /\ refs = FALSE
  /\ now = 0

(* The running thread t gives up the C stack, leaving context w behind. *)
Suspend(t, w) ==
  /\ ctx' = [ctx EXCEPT ![t] = w]
  /\ running' = Nobody

(* The running thread t leaves the context it was suspended in. *)
Continue(t) ==
  /\ ctx' = [ctx EXCEPT ![t] = NotSuspended]
  /\ UNCHANGED running

(* t is interpreting bytecode and about to perform an operation of its      *)
(* program: it is in no async context and not between the isAlive() and the *)
(* wait(0) of Thread.join.                                                  *)
Executing(t) ==
  /\ running = t
  /\ ctx[t].kind = "NONE"
  /\ joining[t] = Nobody

(* t has been resumed inside an async context of the given kind. *)
Resuming(t, kind) ==
  /\ running = t
  /\ ctx[t].kind = kind
=============================================================================
