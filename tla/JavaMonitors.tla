---------------------------- MODULE JavaMonitors ----------------------------
(***************************************************************************)
(* What the monitors of a Java VM promise, whatever its scheduler does: a  *)
(* monitor has at most one owner, which alone may enter it again, leave it *)
(* or wait on it; a wait gives up all the owner's holds at once and, when  *)
(* it ends, the same thread gets back exactly as many, on a monitor that   *)
(* was free; and only threads in the wait set of the object are notified,  *)
(* by its owner or by the death of the thread the object stands for.       *)
(***************************************************************************)
EXTENDS Integers

CONSTANTS Threads, Objects, Nobody

VARIABLES
  owner,     \* the owner of each monitor, or Nobody
  hold,      \* how often the owner has entered it
  waitSet,   \* the threads waiting on each object, not notified yet
  saved      \* the holds each thread gave up in wait, by object; 0: none

jvars == <<owner, hold, waitSet, saved>>

NothingSaved == [o \in Objects |-> 0]

JInit ==
  /\ owner = [o \in Objects |-> Nobody]
  /\ hold = [o \in Objects |-> 0]
  /\ waitSet = [o \in Objects |-> {}]
  /\ saved = [t \in Threads |-> NothingSaved]

(* A thread in a wait does nothing else. *)
Free(t) == saved[t] = NothingSaved

Enter(t, o) ==
  /\ Free(t)
  /\ owner[o] \in {Nobody, t}
  /\ owner' = [owner EXCEPT ![o] = t]
  /\ hold' = [hold EXCEPT ![o] = @ + 1]
  /\ UNCHANGED <<waitSet, saved>>

Exit(t, o) ==
  /\ Free(t)
  /\ owner[o] = t
  /\ hold' = [hold EXCEPT ![o] = @ - 1]
  /\ owner' = IF hold[o] = 1 THEN [owner EXCEPT ![o] = Nobody] ELSE owner
  /\ UNCHANGED <<waitSet, saved>>

StartWait(t, o) ==
  /\ Free(t)
  /\ owner[o] = t
  /\ saved' = [saved EXCEPT ![t][o] = hold[o]]
  /\ owner' = [owner EXCEPT ![o] = Nobody]
  /\ hold' = [hold EXCEPT ![o] = 0]
  /\ waitSet' = [waitSet EXCEPT ![o] = @ \cup {t}]

(* Threads leave the wait set: notified by the owner of o, or because the   *)
(* thread that is o died.                                                   *)
Wake(o, S) ==
  /\ owner[o] # Nobody \/ o \in Threads
  /\ S \subseteq waitSet[o]
  /\ waitSet' = [waitSet EXCEPT ![o] = @ \ S]
  /\ UNCHANGED <<owner, hold, saved>>

(* t leaves the wait set by itself, interrupted or timed out, and finds the *)
(* monitor taken.                                                           *)
GiveUp(t, o) ==
  /\ t \in waitSet[o]
  /\ waitSet' = [waitSet EXCEPT ![o] = @ \ {t}]
  /\ UNCHANGED <<owner, hold, saved>>

EndWait(t, o) ==
  /\ saved[t][o] > 0
  /\ owner[o] = Nobody
  /\ owner' = [owner EXCEPT ![o] = t]
  /\ hold' = [hold EXCEPT ![o] = saved[t][o]]
  /\ saved' = [saved EXCEPT ![t][o] = 0]
  /\ waitSet' = [waitSet EXCEPT ![o] = @ \ {t}]

JNext ==
  \/ \E t \in Threads, o \in Objects :
       Enter(t, o) \/ Exit(t, o) \/ StartWait(t, o) \/ GiveUp(t, o) \/ EndWait(t, o)
  \/ \E o \in Objects : \E S \in SUBSET waitSet[o] : Wake(o, S)

JSpec == JInit /\ [][JNext]_jvars
=============================================================================
