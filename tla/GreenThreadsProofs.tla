------------------------- MODULE GreenThreadsProofs -------------------------
(***************************************************************************)
(* Proofs that the run queue, the monitors and the hand-over of a released *)
(* monitor are right for every number of threads and objects, every bound  *)
(* and every program.                                                      *)
(***************************************************************************)
EXTENDS GreenThreads, RoundRobinProofs

MonitorKinds == {"MONITOR_WAIT", "MONITOR_ENTER_WAITING"}

(* The part of the invariant that relates variables. *)
Sound == RunQueueSound /\ MonitorsSound /\ HandOff

(* A context that concerns no monitor. *)
Plain(w) ==
  /\ w \in WakeupInfo
  /\ w.kind \notin MonitorKinds
  /\ w.obj = NoObject
  /\ w.holds = 0

LEMMA PlainWakeup ==
  ASSUME NEW kind \in Kinds \ MonitorKinds, NEW until \in 0 .. Far
  PROVE  /\ Plain(Wakeup(kind, until))
         /\ Wakeup(kind, until).kind = kind
BY BoundsAssumption DEF Plain, Wakeup, WakeupInfo

LEMMA PlainNotSuspended == Plain(NotSuspended) /\ NotSuspended.kind = "NONE"
<1>1. 0 \in 0 .. Far /\ "NONE" \in Kinds \ MonitorKinds
  BY BoundsAssumption DEF Far, Kinds, MonitorKinds
<1> QED  BY <1>1, PlainWakeup DEF NotSuspended

(* A step that leaves queue, contexts, monitors and running alone. *)
LEMMA SoundUnchanged ==
  ASSUME Sound, started \subseteq started',
         UNCHANGED <<rr, calls, ctx, running, owner, hold>>
  PROVE  Sound'
BY DEF Sound, RunQueueSound, MonitorsSound, HandOff, Entrants, Range, IsInjective

(* A step in which a thread of the queue other than one waiting to enter a  *)
(* monitor gets a context that concerns no monitor.                         *)
LEMMA SoundPlainContext ==
  ASSUME Inv, NEW t \in Threads, running = t, ctx[t].kind # "MONITOR_ENTER_WAITING",
         NEW w, Plain(w), ctx' = [ctx EXCEPT ![t] = w],
         running' \in {t, Nobody}, started' = started,
         UNCHANGED <<rr, calls, owner, hold>>
  PROVE  Sound'
<1>1. ctx \in [Threads -> WakeupInfo]
  BY DEF Inv, TypeOK
<1>2. \A u \in Threads : ctx'[u] = IF u = t THEN w ELSE ctx[u]
  BY <1>1
<1>3. t \in Range(rr)
  BY ThreadsAssumption DEF Inv, RunQueueSound
<1>4. RunQueueSound'
  BY <1>2, <1>3 DEF Inv, RunQueueSound, Range, IsInjective
<1>5. MonitorsSound'
  BY <1>2 DEF Inv, MonitorsSound, Plain, MonitorKinds, Range
<1>6. \A o \in Objects : Entrants(o)' = Entrants(o)
  BY <1>2 DEF Entrants, Plain, MonitorKinds
<1>7. HandOff'
  <2> SUFFICES ASSUME NEW o \in Objects, owner[o] = Nobody, Entrants(o) # {}
               PROVE  \E u \in Entrants(o) : ctx'[u].ready
    BY <1>6 DEF HandOff
  <2>1. PICK u \in Entrants(o) : ctx[u].ready
    BY DEF Inv, HandOff
  <2>2. ctx'[u] = ctx[u]
    BY <1>2 DEF Entrants
  <2> QED  BY <2>1, <2>2
<1> QED  BY <1>4, <1>5, <1>7 DEF Sound

(* Setting ready flags disturbs nothing. *)
LEMMA SoundMarked ==
  ASSUME Inv, NEW S, ctx' = MarkReady(S), running' \in {running, Nobody}, started' = started,
         UNCHANGED <<rr, calls, owner, hold>>
  PROVE  Sound'
<1>1. \A u \in Threads : /\ ctx'[u].kind = ctx[u].kind
                         /\ ctx'[u].obj = ctx[u].obj
                         /\ ctx'[u].holds = ctx[u].holds
                         /\ ctx[u].ready => ctx'[u].ready
  <2>1. ctx \in [Threads -> WakeupInfo]
    BY DEF Inv, TypeOK
  <2> QED  BY <2>1, MarkReadyKeeps
<1>2. RunQueueSound'
  BY <1>1 DEF Inv, RunQueueSound, Range, IsInjective
<1>3. MonitorsSound'
  BY <1>1 DEF Inv, MonitorsSound, Range
<1>4. \A o \in Objects : Entrants(o)' = Entrants(o)
  BY <1>1 DEF Entrants
<1>5. HandOff'
  BY <1>1, <1>4 DEF Inv, HandOff, Entrants
<1> QED  BY <1>2, <1>3, <1>5 DEF Sound

(* A thread takes a free monitor, or one of its own, and goes on. *)
LEMMA SoundTake ==
  ASSUME Inv, NEW t \in Threads, running = t, NEW o \in Objects, owner[o] \in {Nobody, t},
         ctx[t].kind \in MonitorKinds => ctx[t].obj = o,
         NEW n \in 1 .. MaxHold, Take(t, o, n), Continue(t), started' = started,
         UNCHANGED <<rr, calls>>
  PROVE  Sound'
<1>1. /\ ctx \in [Threads -> WakeupInfo] /\ owner \in [Objects -> Threads \cup {Nobody}]
      /\ hold \in [Objects -> 0 .. MaxHold]
  BY DEF Inv, TypeOK
<1>2. \A u \in Threads : ctx'[u] = IF u = t THEN NotSuspended ELSE ctx[u]
  BY <1>1 DEF Continue
<1>3. \A p \in Objects : /\ owner'[p] = IF p = o THEN t ELSE owner[p]
                         /\ hold'[p] = IF p = o THEN n ELSE hold[p]
  BY <1>1 DEF Take
<1>4. t \in Range(rr) /\ t # Nobody /\ running' = t
  BY ThreadsAssumption DEF Inv, RunQueueSound, Continue
<1>5. RunQueueSound'
  BY <1>2, <1>4, PlainNotSuspended DEF Inv, RunQueueSound, Range, IsInjective
<1>6. MonitorsSound'
  <2>1. \A p \in Objects : (owner[p] = Nobody <=> hold[p] = 0)' /\ (owner[p] # Nobody => owner[p] \in Range(rr))'
    BY <1>1, <1>3, <1>4, BoundsAssumption DEF Inv, MonitorsSound, Range
  <2>2. \A u \in Threads \ {t} : ctx'[u] = ctx[u]
    BY <1>2
  <2>3. ctx'[t] = NotSuspended
    BY <1>2
  <2> QED  BY <1>3, <2>1, <2>2, <2>3, PlainNotSuspended DEF Inv, MonitorsSound, Plain, MonitorKinds, Range
<1>7. HandOff'
  <2> SUFFICES ASSUME NEW p \in Objects, owner'[p] = Nobody, Entrants(p)' # {}
               PROVE  \E u \in Entrants(p)' : ctx'[u].ready
    BY DEF HandOff
  <2>1. p # o /\ owner[p] = Nobody
    BY <1>3, <1>4
  <2>2. Entrants(p)' = Entrants(p)
    <3>1. t \notin Entrants(p) /\ t \notin Entrants(p)'
      BY <1>2, <2>1, PlainNotSuspended DEF Entrants, MonitorKinds
    <3> QED  BY <1>2, <3>1 DEF Entrants
  <2>3. PICK u \in Entrants(p) : ctx[u].ready
    BY <2>1, <2>2 DEF Inv, HandOff
  <2>4. ctx'[u] = ctx[u]
    BY <1>2, <2>1, <2>3 DEF Entrants, MonitorKinds
  <2> QED  BY <2>2, <2>3, <2>4
<1> QED  BY <1>5, <1>6, <1>7 DEF Sound

(* A thread finds the monitor taken by another and waits to enter it. *)
LEMMA SoundBlock ==
  ASSUME Inv, NEW t \in Threads, running = t, NEW o \in Objects, owner[o] \notin {Nobody, t},
         ctx[t].kind \in MonitorKinds => ctx[t].obj = o,
         NEW ready \in BOOLEAN, NEW n \in 0 .. MaxHold, Suspend(t, EnterWaiting(o, ready, n)),
         started' = started, UNCHANGED <<rr, calls, owner, hold>>
  PROVE  Sound'
<1> DEFINE w == EnterWaiting(o, ready, n)
<1>1. ctx \in [Threads -> WakeupInfo] /\ owner \in [Objects -> Threads \cup {Nobody}]
  BY DEF Inv, TypeOK
<1>2. \A u \in Threads : ctx'[u] = IF u = t THEN w ELSE ctx[u]
  BY <1>1 DEF Suspend
<1>3. w.kind = "MONITOR_ENTER_WAITING" /\ w.obj = o
  BY DEF EnterWaiting, MonitorWakeup
<1>4. t \in Range(rr) /\ running' = Nobody
  BY ThreadsAssumption DEF Inv, RunQueueSound, Suspend
<1> HIDE DEF w
<1>5. RunQueueSound'
  BY <1>2, <1>4 DEF Inv, RunQueueSound, Range, IsInjective
<1>6. MonitorsSound'
  BY <1>2, <1>3 DEF Inv, MonitorsSound, Range
<1>7. HandOff'
  <2> SUFFICES ASSUME NEW p \in Objects, owner[p] = Nobody, Entrants(p)' # {}
               PROVE  \E u \in Entrants(p)' : ctx'[u].ready
    BY DEF HandOff
  <2>1. p # o
    OBVIOUS
  <2>2. Entrants(p)' = Entrants(p)
    <3>1. t \notin Entrants(p) /\ t \notin Entrants(p)'
      BY <1>2, <1>3, <2>1 DEF Entrants, MonitorKinds
    <3> QED  BY <1>2, <3>1 DEF Entrants
  <2>3. PICK u \in Entrants(p) : ctx[u].ready
    BY <2>2 DEF Inv, HandOff
  <2>4. ctx'[u] = ctx[u]
    BY <1>2, <2>1, <2>3 DEF Entrants, MonitorKinds
  <2> QED  BY <2>2, <2>3, <2>4
<1> QED  BY <1>5, <1>6, <1>7 DEF Sound

(* The first thread that waits to enter o is told of the release of o: after *)
(* monitor_exit_handler one of them is ready, if there are any.              *)
LEMMA ExitHandlerHandsOff ==
  ASSUME Inv, NEW t \in Threads, running = t, ctx[t].kind = "NONE", NEW o \in Objects
  PROVE  \E S \in SUBSET Entrants(o) :
           /\ monitor_exit_handler(o) = MarkReady(S)
           /\ Entrants(o) # {} => S # {}
<1>1. Waiters("MONITOR_ENTER_WAITING", o) = Entrants(o)
  <2>1. Range(rr) \subseteq Threads
    BY DEF Inv, RunQueueSound
  <2>2. \A u \in Entrants(o) : u \in Range(rr) /\ u # running
    BY DEF Inv, RunQueueSound, Entrants
  <2> QED  BY <2>1, <2>2 DEF Waiters, Entrants
<1>2. ctx \in [Threads -> WakeupInfo] /\ rr \in Seq(Threads)
  BY DEF Inv, TypeOK
<1> QED  BY <1>1, <1>2, MarkFirstMarks DEF monitor_exit_handler

(* The owner gives the monitor up, leaving context w behind. *)
LEMMA SoundRelease ==
  ASSUME Inv, NEW t \in Threads, running = t, ctx[t].kind = "NONE",
         NEW o \in Objects, owner[o] = t,
         NEW w \in WakeupInfo,
         w = ctx[t] \/ (w.kind = "MONITOR_WAIT" /\ w.obj = o /\ w.holds > 0),
         owner' = [owner EXCEPT ![o] = Nobody], hold' = [hold EXCEPT ![o] = 0],
         ctx' = [monitor_exit_handler(o) EXCEPT ![t] = w],
         running' \in {t, Nobody}, started' = started, UNCHANGED <<rr, calls>>
  PROVE  Sound'
<1>1. /\ ctx \in [Threads -> WakeupInfo] /\ owner \in [Objects -> Threads \cup {Nobody}]
      /\ hold \in [Objects -> 0 .. MaxHold]
  BY DEF Inv, TypeOK
<1>2. PICK S \in SUBSET Entrants(o) :
        /\ monitor_exit_handler(o) = MarkReady(S)
        /\ Entrants(o) # {} => S # {}
  BY ExitHandlerHandsOff
<1> DEFINE m == MarkReady(S)
<1>3. /\ m \in [Threads -> WakeupInfo]
      /\ \A u \in Threads : /\ m[u].kind = ctx[u].kind
                            /\ m[u].obj = ctx[u].obj
                            /\ m[u].holds = ctx[u].holds
                            /\ m[u].ready <=> (ctx[u].ready \/ u \in S)
  BY <1>1, MarkReadyKeeps
<1>4. \A u \in Threads : ctx'[u] = IF u = t THEN w ELSE m[u]
  BY <1>2, <1>3
<1> HIDE DEF m
<1>5. \A p \in Objects : /\ owner'[p] = IF p = o THEN Nobody ELSE owner[p]
                         /\ hold'[p] = IF p = o THEN 0 ELSE hold[p]
  BY <1>1
<1>6. t \in Range(rr) /\ t # Nobody
  BY ThreadsAssumption DEF Inv, RunQueueSound
<1>7. RunQueueSound'
  BY <1>3, <1>4, <1>6 DEF Inv, RunQueueSound, Range, IsInjective
<1>8. MonitorsSound'
  <2>1. \A p \in Objects : (owner[p] = Nobody <=> hold[p] = 0)' /\ (owner[p] # Nobody => owner[p] \in Range(rr))'
    BY <1>5 DEF Inv, MonitorsSound, Range
  <2>2. \A u \in Threads : u # t => /\ ctx'[u].kind = ctx[u].kind
                                    /\ ctx'[u].obj = ctx[u].obj
                                    /\ ctx'[u].holds = ctx[u].holds
    BY <1>3, <1>4
  <2>3. ctx'[t] = w
    BY <1>4
  <2>4. w = ctx[t] => w.kind = "NONE" /\ w.obj = NoObject /\ w.holds = 0
    BY DEF Inv, MonitorsSound
  <2> DEFINE Fits(c, own, u) == IF c[u].kind \in MonitorKinds
                                THEN /\ c[u].obj \in Objects
                                     /\ own[c[u].obj] # u
                                     /\ c[u].kind = "MONITOR_WAIT" => c[u].holds > 0
                                ELSE c[u].obj = NoObject /\ c[u].holds = 0
  <2>5. ASSUME NEW u \in Threads, u # t  PROVE Fits(ctx', owner', u)
    <3>1. Fits(ctx, owner, u)
      BY DEF Inv, MonitorsSound, MonitorKinds
    <3>2. \A p \in Objects : owner[p] # u => owner'[p] # u
      BY <1>5, ThreadsAssumption
    <3> QED  BY <2>2, <2>5, <3>1, <3>2
  <2>6. Fits(ctx', owner', t)
    BY <1>5, <1>6, <2>3, <2>4 DEF MonitorKinds
  <2> QED  BY <2>1, <2>5, <2>6 DEF MonitorsSound, MonitorKinds
<1>9. \A p \in Objects : Entrants(p)' = Entrants(p)
  BY <1>3, <1>4 DEF Entrants
<1>10. HandOff'
  <2> SUFFICES ASSUME NEW p \in Objects, owner'[p] = Nobody, Entrants(p) # {}
               PROVE  \E u \in Entrants(p) : ctx'[u].ready
    BY <1>9 DEF HandOff
  <2>1. \A u \in Entrants(p) : u \in Threads /\ u # t /\ (ctx'[u].ready <=> (ctx[u].ready \/ u \in S))
    BY <1>3, <1>4 DEF Entrants
  <2>2. CASE p = o
    BY <1>2, <2>1, <2>2
  <2>3. CASE p # o
    BY <1>5, <2>1, <2>3 DEF Inv, HandOff
  <2> QED  BY <2>2, <2>3
<1> QED  BY <1>7, <1>8, <1>10 DEF Sound

(* A step that changes the run queue, and the contexts by ready flags only,  *)
(* and keeps the owners of monitors in the queue.                            *)
LEMMA SoundQueue ==
  ASSUME Inv, RunQueueSound', UNCHANGED <<owner, hold>>,
         \A u \in Threads : /\ ctx'[u].kind = ctx[u].kind
                            /\ ctx'[u].obj = ctx[u].obj
                            /\ ctx'[u].holds = ctx[u].holds
                            /\ ctx[u].ready => ctx'[u].ready,
         \A o \in Objects : owner[o] # Nobody => owner[o] \in Range(rr')
  PROVE  Sound'
<1>1. MonitorsSound'
  BY DEF Inv, MonitorsSound, Range
<1>2. \A o \in Objects : Entrants(o)' = Entrants(o)
  BY DEF Entrants
<1>3. HandOff'
  BY <1>2 DEF Inv, HandOff, Entrants
<1> QED  BY <1>1, <1>3 DEF Sound

(* get_next_thr only reorders the queue. *)
LEMMA SoundSchedulerStep ==
  ASSUME Inv, rr_scheduler_step
  PROVE  Sound'
<1>1. PICK later \in {now, now + 1}, garbage \in SUBSET {t \in Threads : RecordIsDead(t)} :
        /\ rr' = get_next_thr(later, garbage).queue
        /\ running' \in {Nobody, get_next_thr(later, garbage).thread}
  BY DEF rr_scheduler_step
<1>2. rr # <<>>
  BY DEF rr_scheduler_step, only_daemons_running, Range
<1>3. /\ running' \in {Nobody} \cup Range(rr)
      /\ Range(rr') = Range(rr)
      /\ IsInjective(rr')
  BY <1>1, <1>2, NextThread DEF Inv, TypeOK, RunQueueSound
<1>4. UNCHANGED <<calls, ctx, owner, hold, started>>
  BY DEF rr_scheduler_step, monitorVars, threadVars
<1>5. RunQueueSound'
  <2>1. Range(rr)' = Range(rr') /\ IsInjective(rr)' = IsInjective(rr')
    BY DEF Range, IsInjective
  <2> QED  BY <1>3, <1>4, <2>1 DEF Inv, RunQueueSound
<1>6. \A o \in Objects : owner[o] # Nobody => owner[o] \in Range(rr')
  BY <1>3 DEF Inv, MonitorsSound
<1> QED  BY <1>4, <1>5, <1>6, SoundQueue

(* A call is queued on u, whose context does not change. *)
LEMMA SoundEnqueue ==
  ASSUME Inv, NEW u \in Threads, Enqueue(u), started' = started \cup {u},
         UNCHANGED <<ctx, running, owner, hold>>
  PROVE  Sound'
<1>1. /\ rr \in Seq(Threads) /\ IsInjective(rr) /\ calls \in [Threads -> 0 .. MaxCalls]
      /\ Range(rr) = {t \in Threads : calls[t] > 0} /\ Range(rr) \subseteq started
  BY DEF Inv, TypeOK, RunQueueSound
<1>2. Range(rr') = Range(rr) \cup {u} /\ IsInjective(rr')
  <2>1. CASE u \in Range(rr)
    BY <1>1, <2>1 DEF Enqueue
  <2>2. CASE u \notin Range(rr)
    BY <1>1, <2>2, AppendKeeps DEF Enqueue
  <2> QED  BY <2>1, <2>2
<1>3. \A t \in Threads : calls'[t] > 0 <=> (t = u \/ calls[t] > 0)
  BY <1>1 DEF Enqueue
<1>4. RunQueueSound'
  <2>1. Range(rr') = {t \in Threads : calls'[t] > 0}
    BY <1>1, <1>2, <1>3
  <2>2. Range(rr') \subseteq started'
    BY <1>1, <1>2
  <2>3. \A t \in Threads : ctx'[t].kind # "NONE" => t \in Range(rr')
    BY <1>2 DEF Inv, RunQueueSound
  <2>4. running' # Nobody => running' \in Range(rr')
    BY <1>2 DEF Inv, RunQueueSound
  <2> QED  BY <1>2, <2>1, <2>2, <2>3, <2>4 DEF RunQueueSound, Range, IsInjective
<1>5. \A o \in Objects : owner[o] # Nobody => owner[o] \in Range(rr')
  BY <1>2 DEF Inv, MonitorsSound
<1> QED  BY <1>4, <1>5, SoundQueue

(* The thread whose last call returned leaves the queue; it owns nothing and *)
(* has no context, so nobody waits for it.                                   *)
LEMMA SoundReturn ==
  ASSUME Inv, NEW t \in Threads, Return(t)
  PROVE  Sound'
<1>1. /\ rr \in Seq(Threads) /\ IsInjective(rr) /\ calls \in [Threads -> 0 .. MaxCalls]
      /\ Range(rr) = {u \in Threads : calls[u] > 0} /\ Range(rr) \subseteq started
      /\ ctx \in [Threads -> WakeupInfo]
  BY DEF Inv, TypeOK, RunQueueSound
<1>2. /\ running = t /\ ctx[t].kind = "NONE" /\ running' = Nobody
      /\ \A o \in Objects : owner[o] # t
      /\ UNCHANGED <<owner, hold, started>>
      /\ unshift(t)
  BY DEF Return, Executing, monitorVars
<1>3. t \in Range(rr)
  BY <1>2, ThreadsAssumption DEF Inv, RunQueueSound
<1>4. CASE calls[t] > 1
  <2>1. UNCHANGED <<rr, ctx>> /\ \A u \in Threads : calls'[u] > 0 <=> calls[u] > 0
    BY <1>1, <1>2, <1>4 DEF unshift
  <2>2. RunQueueSound'
    BY <1>2, <2>1 DEF Inv, RunQueueSound, Range, IsInjective
  <2>3. \A o \in Objects : owner[o] # Nobody => owner[o] \in Range(rr')
    BY <2>1 DEF Inv, MonitorsSound
  <2> QED  BY <1>2, <2>1, <2>2, <2>3, SoundQueue
<1>5. CASE ~(calls[t] > 1)
  <2>1. \A u \in Threads : calls'[u] > 0 <=> u # t /\ calls[u] > 0
    BY <1>1, <1>2, <1>5 DEF unshift
  <2>2. FirstIndex(rr, {t}) \in 1 .. Len(rr) /\ rr[FirstIndex(rr, {t})] = t
    <3>1. \E i \in DOMAIN rr : rr[i] \in {t}
      BY <1>3 DEF Range
    <3> QED  BY <1>1, <3>1, FirstIndexFound
  <2>3. Range(rr') = Range(rr) \ {t} /\ IsInjective(rr')
    BY <1>1, <1>2, <1>5, <2>2, RemoveAtKeeps DEF unshift
  <2>4. \A u \in Threads : /\ ctx'[u].kind = ctx[u].kind
                           /\ ctx'[u].obj = ctx[u].obj
                           /\ ctx'[u].holds = ctx[u].holds
                           /\ ctx[u].ready => ctx'[u].ready
    BY <1>1, <1>2, <1>5, MarkReadyKeeps DEF unshift, monitor_notify_all
  <2>5. RunQueueSound'
    <3>1. Range(rr') = {u \in Threads : calls'[u] > 0}
      BY <1>1, <2>1, <2>3
    <3>2. Range(rr') \subseteq started'
      BY <1>1, <1>2, <2>3
    <3>3. \A u \in Threads : ctx'[u].kind # "NONE" => u \in Range(rr')
      BY <1>2, <2>3, <2>4 DEF Inv, RunQueueSound
    <3> QED  BY <1>2, <2>3, <3>1, <3>2, <3>3 DEF RunQueueSound, Range, IsInjective
  <2>6. \A o \in Objects : owner[o] # Nobody => owner[o] \in Range(rr')
    BY <1>2, <2>3 DEF Inv, MonitorsSound
  <2> QED  BY <1>2, <2>4, <2>5, <2>6, SoundQueue
<1> QED  BY <1>4, <1>5

-----------------------------------------------------------------------------
(* Every action keeps the types.  The queue lemmas give the type of rr; a    *)
(* call that returns was pending, and a thread that is started had none.     *)
LEMMA TypeStep ==
  ASSUME Inv, [Next]_vars
  PROVE  TypeOK'
<1> USE ThreadsAssumption, BoundsAssumption
<1>1. TypeOK
  BY DEF Inv
<1>2. \A kind \in Kinds \ MonitorKinds, until \in 0 .. Far : Wakeup(kind, until) \in WakeupInfo
  BY PlainWakeup DEF Plain
<1>3. NotSuspended \in WakeupInfo
  BY PlainNotSuspended DEF Plain
<1>4. \A o \in Objects, r \in BOOLEAN, n \in 0 .. MaxHold : EnterWaiting(o, r, n) \in WakeupInfo
  BY DEF EnterWaiting, MonitorWakeup, WakeupInfo, Far, Kinds
<1>5. ASSUME NEW S  PROVE MarkReady(S) \in [Threads -> WakeupInfo]
  BY <1>1, MarkReadyKeeps DEF TypeOK
<1>6. ASSUME NEW kind, NEW o  PROVE MarkFirst(kind, o) \in [Threads -> WakeupInfo]
  BY <1>5 DEF MarkFirst
<1>7. CASE rr_scheduler_step
  <2>1. PICK later \in {now, now + 1}, garbage \in SUBSET {t \in Threads : RecordIsDead(t)} :
          /\ later <= MaxTime
          /\ now' = later
          /\ rr' = get_next_thr(later, garbage).queue
          /\ running' = IF Asleep(get_next_thr(later, garbage).thread, now, garbage)
                        THEN Nobody ELSE get_next_thr(later, garbage).thread
    BY <1>7 DEF rr_scheduler_step
  <2>2. rr # <<>>
    BY <1>7 DEF rr_scheduler_step, only_daemons_running, Range
  <2>3. /\ get_next_thr(later, garbage).thread \in Range(rr)
        /\ get_next_thr(later, garbage).queue \in Seq(Threads)
    BY <1>1, <2>2, NextThread DEF TypeOK, Inv, RunQueueSound
  <2>4. Range(rr) \subseteq Threads
    BY DEF Inv, RunQueueSound
  <2>5. rr' \in Seq(Threads) /\ running' \in Threads \cup {Nobody}
    BY <2>1, <2>3, <2>4
  <2>6. now' \in 0 .. MaxTime
    BY <1>1, <2>1 DEF TypeOK
  <2>7. UNCHANGED <<calls, ctx, monitorVars, threadVars>>
    BY <1>7 DEF rr_scheduler_step
  <2> QED  BY <1>1, <2>5, <2>6, <2>7 DEF TypeOK, monitorVars, threadVars
<1>8. CASE Tick
  BY <1>1, <1>8 DEF TypeOK, Tick, queueVars, monitorVars, threadVars
<1>9. ASSUME NEW t \in Threads, calls[t] < MaxCalls, Enqueue(t)
      PROVE  rr' \in Seq(Threads) /\ calls' \in [Threads -> 0 .. MaxCalls]
  BY <1>1, <1>9 DEF TypeOK, Enqueue
<1>10. ASSUME NEW t \in Threads, ffi_rr_schedule(t)  PROVE TypeOK'
  BY <1>1, <1>9, <1>10 DEF TypeOK, ffi_rr_schedule, monitorVars, threadVars
<1>11. ASSUME NEW t \in Threads, NEW u \in Threads, start0(t, u)  PROVE TypeOK'
  <2>1. calls[u] < MaxCalls
    BY <1>1, <1>11 DEF start0, Inv, RunQueueSound, TypeOK
  <2>2. rr' \in Seq(Threads) /\ calls' \in [Threads -> 0 .. MaxCalls]
    BY <1>9, <1>11, <2>1 DEF start0
  <2> QED  BY <1>1, <1>11, <2>2 DEF TypeOK, start0, monitorVars
<1>12. ASSUME NEW t \in Threads, Return(t)  PROVE TypeOK'
  <2>1. t \in Range(rr) /\ calls[t] > 0
    BY <1>12 DEF Return, Executing, Inv, RunQueueSound
  <2>2. calls' \in [Threads -> 0 .. MaxCalls]
    BY <1>1, <1>12, <2>1 DEF TypeOK, Return, unshift
  <2>3. rr' \in Seq(Threads) /\ ctx' \in [Threads -> WakeupInfo] /\ eetop' \in [Threads -> BOOLEAN]
    <3>1. CASE calls[t] > 1
      BY <1>1, <1>12, <3>1 DEF TypeOK, Return, unshift
    <3>2. CASE ~(calls[t] > 1)
      <4>1. \E i \in DOMAIN rr : rr[i] \in {t}
        BY <2>1 DEF Range
      <4>2. FirstIndex(rr, {t}) \in 1 .. Len(rr)
        BY <1>1, <4>1, FirstIndexFound DEF TypeOK
      <4>3. RemoveAt(rr, FirstIndex(rr, {t})) \in Seq(Threads)
        BY <1>1, <4>2, RemoveAtKeeps DEF TypeOK, Inv, RunQueueSound
      <4>4. rr' \in Seq(Threads) /\ eetop' \in [Threads -> BOOLEAN]
        BY <1>1, <1>12, <3>2, <4>3 DEF TypeOK, Return, unshift
      <4>5. ctx' \in [Threads -> WakeupInfo]
        BY <1>5, <1>12, <3>2 DEF Return, unshift, monitor_notify_all
      <4> QED  BY <4>4, <4>5
    <3> QED  BY <3>1, <3>2
  <2> QED  BY <1>1, <1>12, <2>2, <2>3 DEF TypeOK, Return, monitorVars
<1>13. ASSUME NEW t \in Threads, NEW w \in WakeupInfo, ctx' = [ctx EXCEPT ![t] = w],
              running' \in Threads \cup {Nobody},
              UNCHANGED <<queueVars, monitorVars, threadVars, now>>
       PROVE  TypeOK'
  BY <1>1, <1>13 DEF TypeOK, queueVars, monitorVars, threadVars
<1>14. ASSUME NEW t \in Threads, NEW w \in WakeupInfo, Suspend(t, w),
              UNCHANGED <<queueVars, monitorVars, threadVars, now>>
       PROVE  TypeOK'
  BY <1>13, <1>14 DEF Suspend
<1>15. ASSUME NEW t \in Threads, Continue(t), UNCHANGED <<queueVars, monitorVars, threadVars, now>>
       PROVE  TypeOK'
  BY <1>1, <1>3, <1>13, <1>15 DEF Continue, TypeOK
<1>16. ASSUME NEW t \in Threads, refuel_check(t)  PROVE TypeOK'
  <2>1. Wakeup("YIELDING", 0) \in WakeupInfo
    BY <1>2 DEF Kinds, MonitorKinds, Far
  <2> QED  BY <1>14, <1>16, <2>1 DEF refuel_check
<1>17. ASSUME NEW t \in Threads, yield0(t)  PROVE TypeOK'
  <2>1. Wakeup("YIELDING", 0) \in WakeupInfo
    BY <1>2 DEF Kinds, MonitorKinds, Far
  <2> QED  BY <1>14, <1>17, <2>1 DEF yield0
<1>18. ASSUME NEW t \in Threads, InterruptedBefore(t)  PROVE TypeOK'
  BY <1>1, <1>18 DEF TypeOK, InterruptedBefore, queueVars, monitorVars
<1>19. ASSUME NEW t \in Threads, NEW d \in Delays, sleepNanos0(t, d)  PROVE TypeOK'
  <2>1. CASE InterruptedBefore(t)
    BY <1>18, <2>1
  <2>2. CASE ~InterruptedBefore(t)
    <3>1. "SLEEP" \in Kinds \ MonitorKinds /\ now + d \in 0 .. Far
      BY <1>1, <1>19, <2>2 DEF Kinds, MonitorKinds, Far, sleepNanos0, TypeOK
    <3>2. Wakeup("SLEEP", now + d) \in WakeupInfo
      BY <1>2, <3>1
    <3> QED  BY <1>14, <1>19, <2>2, <3>2 DEF sleepNanos0
  <2> QED  BY <2>1, <2>2
<1>20. ASSUME NEW t \in Threads, NEW d \in Delays, park(t, d)  PROVE TypeOK'
  <2>1. "THREAD_PARK" \in Kinds \ MonitorKinds /\ (IF d = 0 THEN 0 ELSE now + d) \in 0 .. Far
    BY <1>1, <1>20 DEF Kinds, MonitorKinds, Far, park, TypeOK
  <2>2. Wakeup("THREAD_PARK", IF d = 0 THEN 0 ELSE now + d) \in WakeupInfo
    BY <1>2, <2>1
  <2> QED  BY <1>14, <1>20, <2>2 DEF park
<1>21. ASSUME NEW t \in Threads, ReferenceLoop(t), UNCHANGED <<queueVars, monitorVars, threadVars, now>>
       PROVE  TypeOK'
  <2>1. Wakeup("REFERENCE_PENDING", Far) \in WakeupInfo
    BY <1>2 DEF Kinds, MonitorKinds, Far
  <2>2. CASE refs
    BY <1>15, <1>21, <2>2 DEF ReferenceLoop
  <2>3. CASE ~refs
    BY <1>14, <1>21, <2>1, <2>3 DEF ReferenceLoop
  <2> QED  BY <2>2, <2>3
<1>22. ASSUME NEW t \in Threads, ResumeSleep(t)  PROVE TypeOK'
  BY <1>1, <1>3, <1>22 DEF TypeOK, ResumeSleep, Continue, queueVars, monitorVars
<1>23. ASSUME NEW t \in Threads, NEW u \in Threads, interrupt0(t, u)  PROVE TypeOK'
  BY <1>1, <1>23 DEF TypeOK, interrupt0, queueVars, monitorVars
<1>24. ASSUME NEW t \in Threads, NEW u \in Threads, unpark(t, u)  PROVE TypeOK'
  BY <1>1, <1>24 DEF TypeOK, unpark, queueVars, monitorVars
<1>25. ASSUME NEW t \in Threads, NEW u \in Threads, JoinTest(t, u)  PROVE TypeOK'
  BY <1>1, <1>25 DEF TypeOK, JoinTest, queueVars, monitorVars
<1>26. ASSUME NEW t \in Threads, getAndClearReferencePendingList(t)  PROVE TypeOK'
  BY <1>1, <1>26 DEF TypeOK, getAndClearReferencePendingList, queueVars, monitorVars
<1>27. ASSUME NEW t \in Threads, DiscoverReferences(t)  PROVE TypeOK'
  BY <1>1, <1>27 DEF TypeOK, DiscoverReferences, queueVars, monitorVars
<1>28. ASSUME NEW t \in Threads, NEW o \in Objects, monitor_acquire(t, o),
              UNCHANGED <<queueVars, threadVars, now>>
       PROVE  TypeOK'
  <2>1. CASE owner[o] = Nobody /\ Take(t, o, 1) /\ Continue(t)
    BY <1>1, <1>3, <1>28, <2>1 DEF TypeOK, Take, Continue, queueVars, threadVars
  <2>2. CASE owner[o] = t /\ hold[o] < MaxHold /\ Take(t, o, hold[o] + 1) /\ Continue(t)
    BY <1>1, <1>3, <1>28, <2>2 DEF TypeOK, Take, Continue, queueVars, threadVars
  <2>3. CASE Suspend(t, EnterWaiting(o, FALSE, 0)) /\ UNCHANGED monitorVars
    <3>1. EnterWaiting(o, FALSE, 0) \in WakeupInfo
      BY DEF EnterWaiting, MonitorWakeup, WakeupInfo, Far, Kinds
    <3> QED  BY <1>14, <1>28, <2>3, <3>1
  <2> QED  BY <1>28, <2>1, <2>2, <2>3 DEF monitor_acquire
<1>29. ASSUME NEW t \in Threads, NEW o \in Objects, MonitorExit(t, o)  PROVE TypeOK'
  <2>1. ctx' \in [Threads -> WakeupInfo]
    BY <1>1, <1>6, <1>29 DEF TypeOK, MonitorExit, monitor_release, monitor_exit_handler
  <2>2. hold' \in [Objects -> 0 .. MaxHold]
    BY <1>1, <1>29 DEF TypeOK, MonitorExit, monitor_release
  <2>3. owner' \in [Objects -> Threads \cup {Nobody}]
    BY <1>1, <1>29 DEF TypeOK, MonitorExit, monitor_release
  <2>4. UNCHANGED <<queueVars, running, threadVars, now>>
    BY <1>29 DEF MonitorExit
  <2> QED  BY <1>1, <2>1, <2>2, <2>3, <2>4 DEF TypeOK, queueVars, threadVars
<1>30. ASSUME NEW t \in Threads, NEW o \in Objects, NEW d \in Nat, wait0(t, o, d)  PROVE TypeOK'
  <2>1. CASE InterruptedBefore(t)
    BY <1>18, <2>1
  <2>2. CASE ~InterruptedBefore(t)
    <3>1. /\ d = 0 \/ now + d < MaxTime
          /\ ReleaseAllAndSuspend(t, o, d)
          /\ UNCHANGED <<queueVars, threadVars, now>>
      BY <1>30, <2>2 DEF wait0
    <3>2. WaitContext(o, d, hold[o]) \in WakeupInfo
      BY <1>1, <3>1 DEF WaitContext, MonitorWakeup, WakeupInfo, Kinds, Far, TypeOK
    <3>3. ctx' \in [Threads -> WakeupInfo]
      BY <1>6, <3>1, <3>2 DEF ReleaseAllAndSuspend, monitor_exit_handler
    <3> QED  BY <1>1, <3>1, <3>3 DEF TypeOK, ReleaseAllAndSuspend, Take, queueVars, threadVars
  <2> QED  BY <2>1, <2>2
<1>31. ASSUME NEW t \in Threads, NEW o \in Objects, NEW n \in 0 .. MaxHold, NEW r \in BOOLEAN,
              monitor_reacquire_hold_count(t, o, n, r),
              UNCHANGED <<queueVars, started, eetop, permit, refs, now>>
       PROVE  TypeOK'
  <2>1. CASE Take(t, o, n) /\ Continue(t) /\ interrupted' = [interrupted EXCEPT ![t] = FALSE]
             /\ joining' = [joining EXCEPT ![t] = Nobody]
    BY <1>1, <1>3, <1>31, <2>1 DEF TypeOK, Take, Continue, queueVars
  <2>2. CASE Suspend(t, EnterWaiting(o, r, n)) /\ UNCHANGED <<monitorVars, interrupted, joining>>
    <3>1. EnterWaiting(o, r, n) \in WakeupInfo
      BY <1>4
    <3> QED  BY <1>14, <1>31, <2>2, <3>1 DEF threadVars
  <2> QED  BY <1>31, <2>1, <2>2 DEF monitor_reacquire_hold_count
<1>32. ASSUME NEW t \in Threads, NEW o \in Objects, Notify(t, o)  PROVE TypeOK'
  <2>1. ctx' \in [Threads -> WakeupInfo]
    BY <1>6, <1>32 DEF Notify, monitor_notify_one
  <2> QED  BY <1>1, <1>32, <2>1 DEF TypeOK, Notify, queueVars, monitorVars, threadVars
<1>33. ASSUME NEW t \in Threads, NEW o \in Objects, NotifyAll(t, o)  PROVE TypeOK'
  <2>1. ctx' \in [Threads -> WakeupInfo]
    BY <1>5, <1>33 DEF NotifyAll, monitor_notify_all
  <2> QED  BY <1>1, <1>33, <2>1 DEF TypeOK, NotifyAll, queueVars, monitorVars, threadVars
<1>34. CASE UNCHANGED vars
  BY <1>1, <1>34 DEF TypeOK, vars
<1>35. ASSUME NEW t \in Threads, Operation(t)  PROVE TypeOK'
  <2>1. ASSUME NEW o \in Objects, MonitorEnter(t, o)  PROVE TypeOK'
    BY <1>28, <2>1 DEF MonitorEnter
  <2>2. ASSUME NEW o \in Objects, NEW d \in Delays, Wait(t, o, d)  PROVE TypeOK'
    BY <1>30, <2>2 DEF Wait
  <2>3. ASSUME waitForReferencePendingList(t)  PROVE TypeOK'
    BY <1>21, <2>3 DEF waitForReferencePendingList
  <2>4. ASSUME JoinWait(t)  PROVE TypeOK'
    <3>1. joining[t] \in Objects
      BY <1>1, <2>4 DEF TypeOK, JoinWait
    <3> QED  BY <1>30, <2>4, <3>1 DEF JoinWait
  <2> QED  BY <1>11, <1>17, <1>19, <1>20, <1>23, <1>24, <1>25, <1>26, <1>27, <1>29, <1>32,
              <1>33, <1>35, <2>1, <2>2, <2>3, <2>4 DEF Operation
<1>36. ASSUME NEW t \in Threads, Resume(t)  PROVE TypeOK'
  <2>1. ctx[t] \in WakeupInfo
    BY <1>1 DEF TypeOK
  <2>2. ctx[t].kind \in MonitorKinds => ctx[t].obj \in Objects
    BY DEF Inv, MonitorsSound, MonitorKinds
  <2>3. ctx[t].holds \in 0 .. MaxHold /\ ctx[t].ready \in BOOLEAN
    BY <2>1 DEF WakeupInfo
  <2>4. ASSUME ResumeYield(t)  PROVE TypeOK'
    BY <1>15, <2>4 DEF ResumeYield
  <2>5. ASSUME ResumePark(t)  PROVE TypeOK'
    BY <1>15, <2>5 DEF ResumePark
  <2>6. ASSUME ResumeReferences(t)  PROVE TypeOK'
    BY <1>21, <2>6 DEF ResumeReferences
  <2>7. ASSUME ResumeMonitorEnter(t)  PROVE TypeOK'
    BY <1>28, <2>2, <2>7 DEF ResumeMonitorEnter, Resuming, MonitorKinds
  <2>8. ASSUME ResumeWait(t)  PROVE TypeOK'
    <3>1. monitor_reacquire_hold_count(t, ctx[t].obj, ctx[t].holds, FALSE)
      BY <2>8 DEF ResumeWait
    <3>2. ctx[t].obj \in Objects
      BY <2>2, <2>8 DEF ResumeWait, Resuming, MonitorKinds
    <3>3. UNCHANGED <<queueVars, started, eetop, permit, refs, now>>
      BY <2>8 DEF ResumeWait
    <3> QED  BY <1>31, <2>3, <3>1, <3>2, <3>3
  <2>9. ASSUME ResumeReacquire(t)  PROVE TypeOK'
    <3>1. monitor_reacquire_hold_count(t, ctx[t].obj, ctx[t].holds, ctx[t].ready)
      BY <2>9 DEF ResumeReacquire
    <3>2. ctx[t].obj \in Objects
      BY <2>2, <2>9 DEF ResumeReacquire, Resuming, MonitorKinds
    <3>3. UNCHANGED <<queueVars, started, eetop, permit, refs, now>>
      BY <2>9 DEF ResumeReacquire
    <3> QED  BY <1>31, <2>3, <3>1, <3>2, <3>3
  <2> QED  BY <1>22, <1>36, <2>4, <2>5, <2>6, <2>7, <2>8, <2>9 DEF Resume
<1> QED  BY <1>7, <1>8, <1>10, <1>12, <1>16, <1>34, <1>35, <1>36 DEF Next

-----------------------------------------------------------------------------
(* Every action keeps the queue, the monitors and the hand-over right. *)
LEMMA SoundStep ==
  ASSUME Inv, [Next]_vars
  PROVE  Sound'
<1> USE ThreadsAssumption, BoundsAssumption
<1>1. Sound /\ TypeOK
  BY DEF Inv, Sound
<1>2. Plain(NotSuspended) /\ NotSuspended.kind = "NONE"
  BY PlainNotSuspended
<1>3. \A kind \in Kinds \ MonitorKinds, until \in 0 .. Far : Plain(Wakeup(kind, until))
  BY PlainWakeup
<1>4. \A t \in Threads : Plain(ctx[t]) <=> ctx[t].kind \notin MonitorKinds
  BY <1>1 DEF Plain, Sound, MonitorsSound, MonitorKinds, TypeOK
<1>5. ASSUME NEW t \in Threads, running = t, ctx[t].kind # "MONITOR_ENTER_WAITING",
             NEW w, Plain(w), Suspend(t, w), UNCHANGED <<rr, calls, owner, hold, started>>
      PROVE  Sound'
  BY <1>5, SoundPlainContext DEF Suspend
<1>6. ASSUME NEW t \in Threads, running = t, ctx[t].kind # "MONITOR_ENTER_WAITING",
             Continue(t), UNCHANGED <<rr, calls, owner, hold, started>>
      PROVE  Sound'
  BY <1>2, <1>6, SoundPlainContext DEF Continue
<1>7. CASE rr_scheduler_step
  BY <1>7, SoundSchedulerStep
<1>8. CASE Tick
  BY <1>1, <1>8, SoundUnchanged DEF Tick, queueVars, monitorVars, threadVars
<1>9. ASSUME NEW t \in Threads, ffi_rr_schedule(t)  PROVE Sound'
  <2>1. started' = started \cup {t}
    BY <1>9 DEF ffi_rr_schedule, threadVars
  <2> QED  BY <1>9, <2>1, SoundEnqueue DEF ffi_rr_schedule, monitorVars
<1>10. ASSUME NEW t \in Threads, NEW u \in Threads, start0(t, u)  PROVE Sound'
  BY <1>10, SoundEnqueue DEF start0, monitorVars
<1>11. ASSUME NEW t \in Threads, refuel_check(t)  PROVE Sound'
  <2>1. Plain(Wakeup("YIELDING", 0))
    BY <1>3 DEF Kinds, MonitorKinds, Far
  <2> QED  BY <1>5, <1>11, <2>1 DEF refuel_check, queueVars, monitorVars, threadVars
<1>12. ASSUME NEW t \in Threads, yield0(t)  PROVE Sound'
  <2>1. Plain(Wakeup("YIELDING", 0))
    BY <1>3 DEF Kinds, MonitorKinds, Far
  <2> QED  BY <1>5, <1>12, <2>1 DEF yield0, Executing, queueVars, monitorVars, threadVars
<1>13. ASSUME NEW t \in Threads, InterruptedBefore(t)  PROVE Sound'
  BY <1>1, <1>13, SoundUnchanged DEF InterruptedBefore, queueVars, monitorVars
<1>14. ASSUME NEW t \in Threads, NEW d \in Delays, sleepNanos0(t, d)  PROVE Sound'
  <2>1. CASE InterruptedBefore(t)
    BY <1>13, <2>1
  <2>2. CASE ~InterruptedBefore(t)
    <3>1. "SLEEP" \in Kinds \ MonitorKinds /\ now + d \in 0 .. Far
      BY <1>1, <1>14, <2>2 DEF Kinds, MonitorKinds, Far, sleepNanos0, TypeOK
    <3>2. Plain(Wakeup("SLEEP", now + d))
      BY <1>3, <3>1
    <3> QED  BY <1>5, <1>14, <2>2, <3>2
             DEF sleepNanos0, Executing, queueVars, monitorVars, threadVars
  <2> QED  BY <2>1, <2>2
<1>15. ASSUME NEW t \in Threads, NEW d \in Delays, park(t, d)  PROVE Sound'
  <2>1. "THREAD_PARK" \in Kinds \ MonitorKinds /\ (IF d = 0 THEN 0 ELSE now + d) \in 0 .. Far
    BY <1>1, <1>15 DEF Kinds, MonitorKinds, Far, park, TypeOK
  <2>2. Plain(Wakeup("THREAD_PARK", IF d = 0 THEN 0 ELSE now + d))
    BY <1>3, <2>1
  <2> QED  BY <1>5, <1>15, <2>2 DEF park, Executing, queueVars, monitorVars, threadVars
<1>16. ASSUME NEW t \in Threads, running = t, ctx[t].kind # "MONITOR_ENTER_WAITING",
              ReferenceLoop(t), UNCHANGED <<queueVars, monitorVars, threadVars, now>>
       PROVE  Sound'
  <2>1. Plain(Wakeup("REFERENCE_PENDING", Far))
    BY <1>3 DEF Kinds, MonitorKinds, Far
  <2>2. UNCHANGED <<rr, calls, owner, hold, started>>
    BY <1>16 DEF queueVars, monitorVars, threadVars
  <2>3. CASE refs
    BY <1>6, <1>16, <2>2, <2>3 DEF ReferenceLoop
  <2>4. CASE ~refs
    BY <1>5, <1>16, <2>1, <2>2, <2>4 DEF ReferenceLoop
  <2> QED  BY <2>3, <2>4
<1>17. ASSUME NEW t \in Threads, NEW u \in Threads, interrupt0(t, u)  PROVE Sound'
  BY <1>1, <1>17, SoundUnchanged DEF interrupt0, queueVars, monitorVars
<1>18. ASSUME NEW t \in Threads, NEW u \in Threads, unpark(t, u)  PROVE Sound'
  BY <1>1, <1>18, SoundUnchanged DEF unpark, queueVars, monitorVars
<1>19. ASSUME NEW t \in Threads, NEW u \in Threads, JoinTest(t, u)  PROVE Sound'
  BY <1>1, <1>19, SoundUnchanged DEF JoinTest, queueVars, monitorVars
<1>20. ASSUME NEW t \in Threads, getAndClearReferencePendingList(t)  PROVE Sound'
  BY <1>1, <1>20, SoundUnchanged DEF getAndClearReferencePendingList, queueVars, monitorVars
<1>21. ASSUME NEW t \in Threads, DiscoverReferences(t)  PROVE Sound'
  BY <1>1, <1>21, SoundUnchanged DEF DiscoverReferences, queueVars, monitorVars
<1>22. ASSUME NEW t \in Threads, running = t, NEW o \in Objects,
              ctx[t].kind \in MonitorKinds => ctx[t].obj = o,
              monitor_acquire(t, o), UNCHANGED <<queueVars, threadVars, now>>
       PROVE  Sound'
  <2>1. UNCHANGED <<rr, calls, started>>
    BY <1>22 DEF queueVars, threadVars
  <2>2. CASE owner[o] = Nobody /\ Take(t, o, 1) /\ Continue(t)
    BY <1>22, <2>1, <2>2, SoundTake
  <2>3. CASE owner[o] = t /\ hold[o] < MaxHold /\ Take(t, o, hold[o] + 1) /\ Continue(t)
    <3>1. hold[o] + 1 \in 1 .. MaxHold
      BY <1>1, <2>3 DEF TypeOK
    <3> QED  BY <1>22, <2>1, <2>3, <3>1, SoundTake
  <2>4. CASE owner[o] \notin {Nobody, t} /\ Suspend(t, EnterWaiting(o, FALSE, 0)) /\ UNCHANGED monitorVars
    <3>1. FALSE \in BOOLEAN /\ 0 \in 0 .. MaxHold
      OBVIOUS
    <3> QED  BY <1>22, <2>1, <2>4, <3>1, SoundBlock DEF monitorVars
  <2> QED  BY <1>22, <2>2, <2>3, <2>4 DEF monitor_acquire
<1>23. ASSUME NEW t \in Threads, NEW o \in Objects, MonitorExit(t, o)  PROVE Sound'
  <2>1. /\ running = t /\ ctx[t].kind = "NONE" /\ owner[o] = t /\ hold[o] > 0
        /\ UNCHANGED <<rr, calls, started, running>>
    BY <1>23 DEF MonitorExit, monitor_release, Executing, queueVars, threadVars
  <2>2. CASE hold[o] = 1
    <3>1. /\ owner' = [owner EXCEPT ![o] = Nobody]
          /\ hold' = [hold EXCEPT ![o] = 0]
          /\ ctx' = monitor_exit_handler(o)
      BY <1>1, <1>23, <2>2 DEF MonitorExit, monitor_release, TypeOK
    <3>2. ctx' = [monitor_exit_handler(o) EXCEPT ![t] = ctx[t]]
      <4>1. PICK S \in SUBSET Entrants(o) : monitor_exit_handler(o) = MarkReady(S)
        BY <2>1, ExitHandlerHandsOff
      <4>2. t \notin S
        BY <2>1 DEF Entrants
      <4> QED  BY <3>1, <4>1, <4>2 DEF MarkReady
    <3>3. ctx[t] \in WakeupInfo /\ ctx[t] = ctx[t]
      BY <1>1 DEF TypeOK
    <3> QED  BY <2>1, <3>1, <3>2, <3>3, SoundRelease
  <2>3. CASE hold[o] # 1
    <3>1. UNCHANGED <<owner, ctx>> /\ hold' = [hold EXCEPT ![o] = @ - 1]
      BY <1>23, <2>3 DEF MonitorExit, monitor_release
    <3>2. \A p \in Objects : hold'[p] = 0 <=> hold[p] = 0
      BY <1>1, <2>1, <2>3, <3>1 DEF TypeOK
    <3>3. RunQueueSound' /\ HandOff'
      BY <1>1, <2>1, <3>1 DEF Sound, RunQueueSound, HandOff, Entrants, Range, IsInjective
    <3>4. MonitorsSound'
      BY <1>1, <2>1, <3>1, <3>2 DEF Sound, MonitorsSound, Range
    <3> QED  BY <3>3, <3>4 DEF Sound
  <2> QED  BY <2>2, <2>3
<1>24. ASSUME NEW t \in Threads, running = t, ctx[t].kind = "NONE",
              NEW o \in Objects, NEW d \in Nat, wait0(t, o, d)
       PROVE  Sound'
  <2>1. CASE InterruptedBefore(t)
    BY <1>13, <2>1
  <2>2. CASE ~InterruptedBefore(t)
    <3>1. /\ owner[o] = t /\ hold[o] > 0
          /\ d = 0 \/ now + d < MaxTime
          /\ ReleaseAllAndSuspend(t, o, d)
          /\ UNCHANGED <<rr, calls, started>>
      BY <1>24, <2>2 DEF wait0, queueVars, threadVars
    <3> DEFINE w == WaitContext(o, d, hold[o])
    <3>2. w \in WakeupInfo
      <4>1. hold[o] \in 0 .. MaxHold /\ (IF d = 0 THEN 0 ELSE now + d) \in 0 .. Far
        BY <1>1, <3>1 DEF Far, TypeOK
      <4> QED  BY <4>1 DEF WaitContext, MonitorWakeup, WakeupInfo, Kinds
    <3>3. w.kind = "MONITOR_WAIT" /\ w.obj = o /\ w.holds > 0
      BY <3>1 DEF WaitContext, MonitorWakeup
    <3> HIDE DEF w
    <3>4. /\ owner' = [owner EXCEPT ![o] = Nobody] /\ hold' = [hold EXCEPT ![o] = 0]
          /\ ctx' = [monitor_exit_handler(o) EXCEPT ![t] = w]
          /\ running' = Nobody
      BY <3>1 DEF ReleaseAllAndSuspend, Take, w
    <3> QED  BY <1>24, <3>1, <3>2, <3>3, <3>4, SoundRelease
  <2> QED  BY <2>1, <2>2
<1>25. ASSUME NEW t \in Threads, running = t, ctx[t].kind \in MonitorKinds, NEW o \in Objects,
              ctx[t].obj = o, NEW n \in 1 .. MaxHold, NEW r \in BOOLEAN,
              monitor_reacquire_hold_count(t, o, n, r),
              UNCHANGED <<queueVars, started, eetop, permit, refs, now>>
       PROVE  Sound'
  <2>1. UNCHANGED <<rr, calls, started>>
    BY <1>25 DEF queueVars
  <2>2. CASE owner[o] = Nobody /\ Take(t, o, n) /\ Continue(t)
    BY <1>25, <2>1, <2>2, SoundTake
  <2>3. CASE owner[o] \notin {Nobody, t} /\ Suspend(t, EnterWaiting(o, r, n)) /\ UNCHANGED monitorVars
    <3>1. n \in 0 .. MaxHold
      OBVIOUS
    <3>2. UNCHANGED <<rr, calls, owner, hold>> /\ started' = started
      BY <2>1, <2>3 DEF monitorVars
    <3>3. running = t /\ owner[o] \notin {Nobody, t} /\ Suspend(t, EnterWaiting(o, r, n))
      BY <1>25, <2>3
    <3>4. ctx[t].kind \in MonitorKinds => ctx[t].obj = o
      BY <1>25
    <3> QED  BY <3>1, <3>2, <3>3, <3>4, SoundBlock
  <2> QED  BY <1>25, <2>2, <2>3 DEF monitor_reacquire_hold_count
<1>26. ASSUME NEW t \in Threads, NEW o \in Objects, Notify(t, o)  PROVE Sound'
  <2>1. PICK S \in SUBSET Waiters("MONITOR_WAIT", o) : ctx' = MarkReady(S)
    BY <1>1, <1>26, MarkFirstMarks DEF Notify, monitor_notify_one, TypeOK
  <2> QED  BY <1>26, <2>1, SoundMarked DEF Notify, queueVars, monitorVars, threadVars
<1>27. ASSUME NEW t \in Threads, NEW o \in Objects, NotifyAll(t, o)  PROVE Sound'
  BY <1>27, SoundMarked DEF NotifyAll, monitor_notify_all, queueVars, monitorVars, threadVars
<1>28. CASE UNCHANGED vars
  BY <1>1, <1>28, SoundUnchanged DEF vars
<1>29. ASSUME NEW t \in Threads, Operation(t)  PROVE Sound'
  <2>1. ASSUME NEW o \in Objects, MonitorEnter(t, o)  PROVE Sound'
    BY <1>22, <2>1 DEF MonitorEnter, Executing, MonitorKinds
  <2>2. ASSUME NEW o \in Objects, NEW d \in Delays, Wait(t, o, d)  PROVE Sound'
    BY <1>24, <2>2 DEF Wait, Executing
  <2>3. ASSUME waitForReferencePendingList(t)  PROVE Sound'
    BY <1>16, <2>3 DEF waitForReferencePendingList, Executing
  <2>4. ASSUME JoinWait(t)  PROVE Sound'
    <3>1. joining[t] \in Objects
      BY <1>1, <2>4 DEF TypeOK, JoinWait
    <3> QED  BY <1>24, <2>4, <3>1 DEF JoinWait
  <2> QED  BY <1>10, <1>12, <1>14, <1>15, <1>17, <1>18, <1>19, <1>20, <1>21, <1>23, <1>26,
              <1>27, <1>29, <2>1, <2>2, <2>3, <2>4 DEF Operation
<1>30. ASSUME NEW t \in Threads, Resume(t)  PROVE Sound'
  <2>1. ctx[t].holds \in 0 .. MaxHold /\ ctx[t].ready \in BOOLEAN
    BY <1>1 DEF TypeOK, WakeupInfo
  <2>2. ctx[t].kind \in MonitorKinds => ctx[t].obj \in Objects
    BY <1>1 DEF Sound, MonitorsSound, MonitorKinds
  <2>3. ASSUME ResumeYield(t)  PROVE Sound'
    BY <1>6, <2>3 DEF ResumeYield, Resuming, queueVars, monitorVars, threadVars
  <2>4. ASSUME ResumePark(t)  PROVE Sound'
    BY <1>6, <2>4 DEF ResumePark, Resuming, queueVars, monitorVars, threadVars
  <2>5. ASSUME ResumeSleep(t)  PROVE Sound'
    BY <1>6, <2>5 DEF ResumeSleep, Resuming, queueVars, monitorVars
  <2>6. ASSUME ResumeReferences(t)  PROVE Sound'
    BY <1>16, <2>6 DEF ResumeReferences, Resuming
  <2>7. ASSUME ResumeMonitorEnter(t)  PROVE Sound'
    BY <1>22, <2>2, <2>7 DEF ResumeMonitorEnter, Resuming, MonitorKinds
  <2>8. ASSUME ResumeWait(t)  PROVE Sound'
    <3>1. /\ running = t /\ ctx[t].kind = "MONITOR_WAIT"
          /\ monitor_reacquire_hold_count(t, ctx[t].obj, ctx[t].holds, FALSE)
          /\ UNCHANGED <<queueVars, started, eetop, permit, refs, now>>
      BY <2>8 DEF ResumeWait, Resuming
    <3>2. ctx[t].holds > 0
      BY <1>1, <3>1 DEF Sound, MonitorsSound
    <3>3. ctx[t].holds \in 1 .. MaxHold /\ FALSE \in BOOLEAN
      BY <2>1, <3>2
    <3> QED  BY <1>25, <2>2, <3>1, <3>3 DEF MonitorKinds
  <2>9. ASSUME ResumeReacquire(t)  PROVE Sound'
    <3>1. /\ running = t /\ ctx[t].kind = "MONITOR_ENTER_WAITING" /\ ctx[t].holds > 0
          /\ monitor_reacquire_hold_count(t, ctx[t].obj, ctx[t].holds, ctx[t].ready)
          /\ UNCHANGED <<queueVars, started, eetop, permit, refs, now>>
      BY <2>9 DEF ResumeReacquire, Resuming
    <3>2. ctx[t].holds \in 1 .. MaxHold
      BY <2>1, <3>1
    <3> QED  BY <1>25, <2>1, <2>2, <3>1, <3>2 DEF MonitorKinds
  <2> QED  BY <1>30, <2>3, <2>4, <2>5, <2>6, <2>7, <2>8, <2>9 DEF Resume
<1>31. ASSUME NEW t \in Threads, Return(t)  PROVE Sound'
  BY <1>31, SoundReturn
<1> QED  BY <1>7, <1>8, <1>9, <1>11, <1>28, <1>29, <1>30, <1>31 DEF Next

(* The VM starts with an empty queue and free monitors. *)
LEMMA InitSound == Init => Inv
<1> SUFFICES ASSUME Init  PROVE Inv
  OBVIOUS
<1> USE ThreadsAssumption, BoundsAssumption
<1>1. Plain(NotSuspended) /\ NotSuspended.kind = "NONE"
  BY PlainNotSuspended
<1>2. TypeOK
  <2>1. NotSuspended \in WakeupInfo
    BY <1>1 DEF Plain
  <2>2. rr \in Seq(Threads) /\ ctx \in [Threads -> WakeupInfo] /\ joining \in [Threads -> (Threads \cap Objects) \cup {Nobody}]
    BY <2>1 DEF Init
  <2>3. /\ eetop \in [Threads -> BOOLEAN] /\ interrupted \in [Threads -> BOOLEAN]
        /\ permit \in [Threads -> BOOLEAN] /\ refs \in BOOLEAN
    BY DEF Init
  <2>4. /\ calls \in [Threads -> 0 .. MaxCalls] /\ hold \in [Objects -> 0 .. MaxHold]
        /\ owner \in [Objects -> Threads \cup {Nobody}] /\ now \in 0 .. MaxTime
        /\ running \in Threads \cup {Nobody} /\ started \in SUBSET Threads
    BY DEF Init
  <2> QED  BY <2>2, <2>3, <2>4 DEF TypeOK
<1>3. Range(rr) = {} /\ IsInjective(rr)
  BY DEF Init, Range, IsInjective
<1>4. RunQueueSound
  BY <1>1, <1>3 DEF Init, RunQueueSound
<1>5. MonitorsSound
  BY <1>1 DEF Init, MonitorsSound, Plain, MonitorKinds
<1>6. HandOff
  BY <1>1 DEF Init, HandOff, Entrants
<1> QED  BY <1>2, <1>4, <1>5, <1>6 DEF Inv

(* In every state the runtime reaches, the types, the run queue, the monitors *)
(* and the hand-over of released monitors are right, whatever the number of   *)
(* threads and objects and whatever the Java program does.                    *)
THEOREM InvHolds == Spec => []Inv
<1>1. ASSUME Inv, [Next]_vars  PROVE Inv'
  BY <1>1, TypeStep, SoundStep DEF Inv, Sound
<1> QED  BY <1>1, InitSound, PTL DEF Spec

(* Every variable keeps its type: no wakeup record outside rr_wakeup_info, no *)
(* hold count below zero.                                                     *)
THEOREM TypeCorrect == Spec => []TypeOK
<1>1. Inv => TypeOK
  BY DEF Inv
<1> QED  BY <1>1, InvHolds, PTL

(* No thread with pending calls is lost from impl.round_robin, none is in it  *)
(* twice, and none stays in it without a call.                                *)
THEOREM RunQueueCorrect == Spec => []RunQueueSound
<1>1. Inv => RunQueueSound
  BY DEF Inv
<1> QED  BY <1>1, InvHolds, PTL

(* Monitors exclude, and the illegal case of monitor_reacquire_hold_count is  *)
(* unreachable.                                                               *)
THEOREM MonitorsCorrect == Spec => []MonitorsSound
<1>1. Inv => MonitorsSound
  BY DEF Inv
<1> QED  BY <1>1, InvHolds, PTL

(* A release is never lost: a free monitor with threads waiting to enter has  *)
(* a waiter that monitor_exit_handler marked ready.                           *)
THEOREM HandOffCorrect == Spec => []HandOff
<1>1. Inv => HandOff
  BY DEF Inv
<1> QED  BY <1>1, InvHolds, PTL

-----------------------------------------------------------------------------
(* Only rr_scheduler_step gives the interpreter to a thread. *)
LEMMA OnlySchedulerDispatches ==
  ASSUME [Next]_vars, running = Nobody, running' # Nobody
  PROVE  rr_scheduler_step
<1> USE ThreadsAssumption
<1>1. ASSUME NEW t \in Threads, Operation(t)  PROVE FALSE
  <2>1. running = t
    BY <1>1 DEF Operation, MonitorEnter, MonitorExit, Wait, Notify, NotifyAll, sleepNanos0,
       yield0, park, unpark, interrupt0, start0, JoinTest, JoinWait,
       waitForReferencePendingList, getAndClearReferencePendingList, DiscoverReferences, Executing
  <2> QED  BY <2>1
<1>2. ASSUME NEW t \in Threads, Resume(t)  PROVE FALSE
  <2>1. running = t
    BY <1>2 DEF Resume, ResumeYield, ResumeSleep, ResumePark, ResumeReferences,
       ResumeMonitorEnter, ResumeWait, ResumeReacquire, Resuming
  <2> QED  BY <2>1
<1>3. ASSUME NEW t \in Threads, refuel_check(t)  PROVE FALSE
  BY <1>3 DEF refuel_check
<1>4. ASSUME NEW t \in Threads, Return(t)  PROVE FALSE
  BY <1>4 DEF Return
<1>5. ASSUME NEW t \in Threads, ffi_rr_schedule(t)  PROVE FALSE
  BY <1>5 DEF ffi_rr_schedule
<1>6. ~Tick
  BY DEF Tick
<1>7. running' # running
  OBVIOUS
<1> QED  BY <1>1, <1>2, <1>3, <1>4, <1>5, <1>6, <1>7 DEF Next, vars

(* The scheduler wakes nobody from sleep, wait or park without a notification, *)
(* a permit, an interrupt or a passed deadline, although get_next_thr reads    *)
(* the clock a second time and may choose a thread that is asleep.             *)
THEOREM NoSpuriousWakeup == Spec => WakesForACause
<1> DEFINE Caused(t) ==
      /\ ctx[t].kind = "SLEEP" => interrupted[t] \/ (ctx[t].until # 0 /\ ctx[t].until < now')
      /\ ctx[t].kind = "MONITOR_WAIT" =>
           interrupted[t] \/ (ctx[t].until # 0 /\ ctx[t].until < now') \/ ctx[t].ready
      /\ ctx[t].kind = "THREAD_PARK" =>
           interrupted[t] \/ (ctx[t].until # 0 /\ ctx[t].until < now') \/ permit[t]
<1>1. ASSUME Inv, [Next]_vars, NEW t \in Threads, running = Nobody, running' = t  PROVE Caused(t)
  <2>1. rr_scheduler_step
    BY <1>1, OnlySchedulerDispatches, ThreadsAssumption
  <2>2. PICK later \in {now, now + 1}, garbage \in SUBSET {u \in Threads : RecordIsDead(u)} :
          /\ now' = later
          /\ running' = IF Asleep(get_next_thr(later, garbage).thread, now, garbage)
                        THEN Nobody ELSE get_next_thr(later, garbage).thread
    BY <2>1 DEF rr_scheduler_step
  <2>3. ~Asleep(t, now, garbage)
    BY <1>1, <2>2, ThreadsAssumption
  <2>4. ctx[t] \in WakeupInfo /\ now \in Nat /\ now' >= now
    BY <1>1, <2>2, BoundsAssumption DEF Inv, TypeOK
  <2>5. ctx[t].until \in Nat
    BY <2>4, BoundsAssumption DEF WakeupInfo, Far
  <2>6. ASSUME ctx[t].kind \in {"SLEEP", "MONITOR_WAIT", "THREAD_PARK"}, ~interrupted[t], Blocked(t)
        PROVE  ctx[t].until # 0 /\ ctx[t].until < now'
    <3>1. ~is_sleeping(t, now)
      BY <2>3, <2>6 DEF Asleep, RecordIsDead
    <3>2. ctx[t].until # 0 /\ ~(ctx[t].until >= now)
      BY <2>6, <3>1 DEF is_sleeping
    <3> QED  BY <2>2, <2>4, <2>5, <3>2
  <2> QED  BY <2>6 DEF Blocked
<1>2. Inv /\ [Next]_vars => [\A t \in Threads : running = Nobody /\ running' = t =>
       LET w == ctx[t]
           timedOut == w.until # 0 /\ w.until < now'
       IN /\ w.kind = "SLEEP" => interrupted[t] \/ timedOut
          /\ w.kind = "MONITOR_WAIT" => interrupted[t] \/ timedOut \/ w.ready
          /\ w.kind = "THREAD_PARK" => interrupted[t] \/ timedOut \/ permit[t]]_vars
  BY <1>1
<1> QED  BY <1>2, InvHolds, PTL DEF Spec, WakesForACause
=============================================================================
