------------------------------ MODULE ClassInit ------------------------------
(***************************************************************************)
(* Class initialization: initialize_class (vm/bjvm.c) and link_class       *)
(* (vm/linkage.c), called by several green threads.  A thread can lose the *)
(* interpreter only while a <clinit> executes or while it waits for a      *)
(* class another thread initializes; the rest of initialize_class, nested  *)
(* calls for the superclass and the interfaces included, and all of        *)
(* link_class are not interrupted.                                         *)
(***************************************************************************)
EXTENDS Integers, Sequences, FiniteSets, SequencesExt

CONSTANTS
  Threads,      \* the green threads
  Classes,      \* the ordinary classes of the program
  Parents,      \* by class: its superclass followed by its interfaces
  Clinit,       \* the classes with a <clinit>
  Uses,         \* by class: the classes its <clinit> may refer to
  Defective,    \* the classes whose code does not verify
  CallocFails   \* TRUE: calloc may fail; the Java heap may be full in any case

ASSUME ClassesAssumption ==
  /\ Parents \in [Classes -> Seq(Classes)]
  /\ Clinit \subseteq Classes
  /\ Uses \in [Classes -> SUBSET Classes]
  /\ Defective \subseteq Classes
  /\ CallocFails \in BOOLEAN

(* define_class rejects a class that is its own superclass or superinterface, *)
(* however indirectly (Loading models it), so every class has a depth.        *)
AreDepths(depth) ==
  \A c \in Classes : \A i \in 1 .. Len(Parents[c]) : depth[Parents[c][i]] < depth[c]

ASSUME HierarchyAssumption == \E depth \in [Classes -> 0 .. Cardinality(Classes)] : AreDepths(depth)

VARIABLES
  state,        \* classdesc.state
  by,           \* classdesc.initializing_thread
  stack,        \* by thread: the activations of the two functions, outermost first
  exc,          \* by thread: current_exception (see Pending)
  result,       \* by thread: what the last activation that ended returned; 0: no error
  running       \* the thread on the C stack

vars == <<state, by, stack, exc, result, running>>

States == {"LOADED", "LINKED", "INITIALIZING", "INITIALIZED", "LINKAGE_ERROR"}

(* What current_exception is: null, an exception that is not an Error, an    *)
(* Error, or an Error that was there when a <clinit> was entered.            *)
Pending == {"none", "exception", "error", "inherited"}

(* An activation: its class, where it is, how many parents have been        *)
(* started, and whether the C local `error' is still the one it assigned,   *)
(* because no suspension has unwound the C stack since.  At "link" it is    *)
(* one of link_class, anywhere else one of initialize_class.                *)
Places == {"enter", "linking", "parents", "clinit", "waiting", "link"}

Activations == [cls : Classes, at : Places, i : Nat, kept : BOOLEAN]

Activation(c) == [cls |-> c, at |-> "enter", i |-> 0, kept |-> TRUE]
Linking(c) == [Activation(c) EXCEPT !.at = "link"]

Active(t) == running = t /\ stack[t] # <<>>
Top(t) == stack[t][Len(stack[t])]
At(t, place) == Active(t) /\ Top(t).at = place
SetTop(t, a) == stack' = [stack EXCEPT ![t] = ReplaceAt(@, Len(@), a)]
Call(t, a) == stack' = [stack EXCEPT ![t] = Append(@, a)]
CallFrom(t, top, a) == stack' = [stack EXCEPT ![t] = Append(ReplaceAt(@, Len(@), top), a)]
Answer(t, error) == /\ stack' = [stack EXCEPT ![t] = Front(@)]
                    /\ result' = [result EXCEPT ![t] = error]

(* The superclass comes first, then the interfaces; the first failure is     *)
(* the last parent tried.                                                    *)
ParentsLeft(t) == Top(t).i < Len(Parents[Top(t).cls])
ParentFailed(t) == Top(t).i > 0 /\ result[t] = 1
NextParent(t) == Parents[Top(t).cls][Top(t).i + 1]
AtNextParent(t) == [Top(t) EXCEPT !.i = @ + 1]

-----------------------------------------------------------------------------
(* link_class of a class that is not LOADED: it counts as linked, whatever   *)
(* its state.                                                                *)
LinkReturnAtOnce(t) ==
  /\ At(t, "link")
  /\ Top(t).i = 0 /\ state[Top(t).cls] # "LOADED"
  /\ Answer(t, 0)
  /\ UNCHANGED <<state, by, exc, running>>

InLink(t) == At(t, "link") /\ (Top(t).i = 0 => state[Top(t).cls] = "LOADED")

LinkParent(t) ==
  /\ InLink(t)
  /\ ~ParentFailed(t) /\ ParentsLeft(t)
  /\ CallFrom(t, AtNextParent(t), Linking(NextParent(t)))
  /\ UNCHANGED <<state, by, exc, result, running>>

LinkGiveUp(t) ==
  /\ InLink(t)
  /\ ParentFailed(t)
  /\ state' = [state EXCEPT ![Top(t).cls] = "LINKAGE_ERROR"]
  /\ Answer(t, 1)
  /\ UNCHANGED <<by, exc, running>>

(* The methods are analyzed; a VerifyError is raised for the first that is   *)
(* not right.                                                                *)
LinkMethods(t) ==
  /\ InLink(t)
  /\ ~ParentFailed(t) /\ ~ParentsLeft(t)
  /\ LET c == Top(t).cls
     IN IF c \in Defective
        THEN /\ state' = [state EXCEPT ![c] = "LINKAGE_ERROR"]
             /\ exc' = [exc EXCEPT ![t] = "error"]
             /\ Answer(t, 1)
        ELSE /\ state' = [state EXCEPT ![c] = "LINKED"]
             /\ Answer(t, 0)
             /\ UNCHANGED exc
  /\ UNCHANGED <<by, running>>

link_class(t) == LinkReturnAtOnce(t) \/ LinkParent(t) \/ LinkGiveUp(t) \/ LinkMethods(t)

-----------------------------------------------------------------------------
Link(t) ==
  /\ At(t, "enter")
  /\ state[Top(t).cls] = "LOADED"
  /\ CallFrom(t, [Top(t) EXCEPT !.at = "linking"], Linking(Top(t).cls))
  /\ UNCHANGED <<state, by, exc, result, running>>

(* After link_class: initialize_class goes on, or returns 0 although an      *)
(* exception is pending.                                                     *)
Linked(t) ==
  /\ At(t, "linking")
  /\ IF result[t] = 0 THEN SetTop(t, [Top(t) EXCEPT !.at = "enter"]) /\ UNCHANGED result
                      ELSE Answer(t, 0)
  /\ UNCHANGED <<state, by, exc, running>>

(* Nothing to do, or this thread is doing it. *)
ReturnAtOnce(t) ==
  /\ At(t, "enter")
  /\ LET c == Top(t).cls
     IN \/ state[c] \in {"INITIALIZED", "LINKAGE_ERROR"}
        \/ state[c] = "INITIALIZING" /\ by[c] = t
  /\ Answer(t, 0)
  /\ UNCHANGED <<state, by, exc, running>>

(* Mutation: it does not matter which thread initializes the class. *)
InitializedByAnyone(t, c) == FALSE

(* Another thread initializes the class. *)
InitializedByOther(t, c) == state[c] = "INITIALIZING" /\ by[c] # t

StartWaiting(t) ==
  /\ At(t, "enter")
  /\ InitializedByOther(t, Top(t).cls)
  /\ SetTop(t, [Top(t) EXCEPT !.at = "waiting"])
  /\ UNCHANGED <<state, by, exc, result, running>>

(* Mutation: one turn of the others is taken to be enough. *)
WaitIsAlwaysOver(c) == TRUE

(* Mutation: the wait looks at a copy of the state it never reads again. *)
WaitIsNeverOver(c) == FALSE

(* The condition of the busy wait, tested whenever the thread runs again. *)
WaitIsOver(c) == state[c] # "INITIALIZING"

EndWaiting(t) ==
  /\ At(t, "waiting")
  /\ WaitIsOver(Top(t).cls)
  /\ Answer(t, 0)
  /\ UNCHANGED <<state, by, exc, running>>

(* The class becomes INITIALIZING.  If the context for the nested calls      *)
(* cannot be allocated, it stays so.                                         *)
Begin(t) ==
  /\ At(t, "enter")
  /\ LET c == Top(t).cls
     IN /\ state[c] \in {"LINKED", "INITIALIZING"}
        /\ state[c] = "INITIALIZING" => by[c] # t /\ ~InitializedByOther(t, c)
        /\ state' = [state EXCEPT ![c] = "INITIALIZING"]
        /\ by' = [by EXCEPT ![c] = t]
        /\ \/ SetTop(t, [Top(t) EXCEPT !.at = "parents"]) /\ UNCHANGED <<exc, result>>
           \/ CallocFails /\ Answer(t, 1) /\ exc' = [exc EXCEPT ![t] = "error"]
  /\ UNCHANGED running

-----------------------------------------------------------------------------
(* Mutation: a class that failed may be tried again. *)
StateAfterToRetry(c, error) == IF error = 1 THEN "LINKED" ELSE "INITIALIZED"

StateAfter(c, error) == IF error = 1 THEN "LINKAGE_ERROR" ELSE "INITIALIZED"

(* The end of initialize_class. *)
Done(t, error) ==
  /\ state' = [state EXCEPT ![Top(t).cls] = StateAfter(Top(t).cls, error)]
  /\ Answer(t, error)

InitParent(t) ==
  /\ At(t, "parents")
  /\ ~ParentFailed(t) /\ ParentsLeft(t)
  /\ CallFrom(t, AtNextParent(t), Activation(NextParent(t)))
  /\ UNCHANGED <<state, by, exc, result, running>>

GiveUp(t) ==
  /\ At(t, "parents")
  /\ ParentFailed(t)
  /\ Done(t, 1)
  /\ UNCHANGED <<by, exc, running>>

(* The ConstantValue fields, whose strings may not fit in memory, and then   *)
(* the <clinit>, if any.  It is entered although an Error of a parent's      *)
(* <clinit> is pending.                                                      *)
RunClinit(t) ==
  /\ At(t, "parents")
  /\ ~ParentFailed(t) /\ ~ParentsLeft(t)
  /\ \/ /\ Top(t).cls \in Clinit
        /\ SetTop(t, [Top(t) EXCEPT !.at = "clinit"])
        /\ exc' = [exc EXCEPT ![t] = IF @ = "none" THEN @ ELSE "inherited"]
        /\ UNCHANGED <<state, result>>
     \/ /\ Top(t).cls \notin Clinit
        /\ Done(t, 0)
        /\ UNCHANGED exc
     \/ /\ Done(t, 1)
        /\ exc' = [exc EXCEPT ![t] = "error"]
  /\ UNCHANGED <<by, running>>

(* <clinit> returns or throws.  An exception that is not an Error is wrapped *)
(* in one, and then `error' is read although nothing was assigned to it      *)
(* since the await.                                                          *)
EndClinit(t) ==
  /\ At(t, "clinit")
  /\ \E error \in IF exc[t] = "exception" /\ ~Top(t).kept THEN {0, 1} ELSE {0} : Done(t, error)
  /\ exc' = [exc EXCEPT ![t] = IF @ = "none" THEN @ ELSE "error"]
  /\ UNCHANGED <<by, running>>

-----------------------------------------------------------------------------
(* The bytecodes of a <clinit> or, outside of any, of the program: they      *)
(* resolve classes, throw and catch.  Under an inherited Error a build with  *)
(* tail calls executes them up to the first that looks for an exception, the *)
(* other builds go to the handler, if any, at once.                          *)
Executes(t) == running = t /\ (stack[t] # <<>> => Top(t).at = "clinit")

Unthrown(t) == exc[t] \in {"none", "inherited"}

(* new, getstatic, putstatic and invokestatic on their first execution       *)
(* initialize a class; anewarray, checkcast and instanceof only link it.     *)
Use(t) ==
  /\ Executes(t)
  /\ Unthrown(t)
  /\ \E c \in IF stack[t] = <<>> THEN Classes ELSE Uses[Top(t).cls] :
       Call(t, Activation(c)) \/ Call(t, Linking(c))
  /\ exc' = [exc EXCEPT ![t] = IF @ = "none" THEN @ ELSE "error"]
  /\ UNCHANGED <<state, by, result, running>>

Throw(t) ==
  /\ At(t, "clinit")
  /\ Unthrown(t)
  /\ \E e \in {"exception", "error"} : exc' = [exc EXCEPT ![t] = e]
  /\ UNCHANGED <<state, by, stack, result, running>>

Catch(t) ==
  /\ Executes(t)
  /\ exc[t] # "none"
  /\ exc' = [exc EXCEPT ![t] = "none"]
  /\ UNCHANGED <<state, by, stack, result, running>>

(* The scheduler gives the interpreter to another thread: at any bytecode,   *)
(* or in the busy wait.                                                      *)
Switch(u) ==
  /\ u # running
  /\ \/ Executes(running)
     \/ At(running, "waiting") /\ ~WaitIsOver(Top(running).cls)
  /\ running' = u
  /\ stack' = [stack EXCEPT ![running] = [n \in DOMAIN @ |-> [@[n] EXCEPT !.kept = FALSE]]]
  /\ UNCHANGED <<state, by, exc, result>>

Init ==
  /\ state = [c \in Classes |-> "LOADED"]
  /\ \E t \in Threads : by = [c \in Classes |-> t]    \* 0, a tid; not read before it is set
  /\ stack = [t \in Threads |-> <<>>]
  /\ exc = [t \in Threads |-> "none"]
  /\ result = [t \in Threads |-> 0]
  /\ running \in Threads

initialize_class(t) ==
  \/ Link(t) \/ Linked(t) \/ ReturnAtOnce(t) \/ StartWaiting(t) \/ EndWaiting(t) \/ Begin(t)
  \/ InitParent(t) \/ GiveUp(t) \/ RunClinit(t)

Next == \E t \in Threads : \/ initialize_class(t) \/ link_class(t) \/ EndClinit(t)
                           \/ Use(t) \/ Throw(t) \/ Catch(t) \/ Switch(t)

Spec == Init /\ [][Next]_vars

(* The two functions go on while they can; every thread is scheduled again    *)
(* and again; no <clinit> runs for ever.                                     *)
Fairness ==
  \A t \in Threads :
    /\ WF_vars(initialize_class(t) \/ link_class(t))
    /\ SF_vars(EndClinit(t))
    /\ SF_vars(Switch(t))

FairSpec == Spec /\ Fairness

-----------------------------------------------------------------------------
(* Every variable keeps to its C type. *)
TypeOK ==
  /\ state \in [Classes -> States]
  /\ by \in [Classes -> Threads]
  /\ stack \in [Threads -> Seq(Activations)]
  /\ exc \in [Threads -> Pending]
  /\ result \in [Threads -> {0, 1}]
  /\ running \in Threads

(* The n-th activation of t initializes c, as opposed to waiting for it. *)
Initializes(t, n, c) == stack[t][n].cls = c /\ stack[t][n].at \in {"parents", "clinit"}

(* A class that an activation initializes is INITIALIZING in the name of its *)
(* thread, and no other activation initializes it: no <clinit> runs twice.   *)
OneInitializer ==
  \A c \in Classes, t \in Threads : \A n \in DOMAIN stack[t] :
    Initializes(t, n, c) =>
      /\ state[c] = "INITIALIZING"
      /\ by[c] = t
      /\ \A m \in DOMAIN stack[t] : Initializes(t, m, c) => m = n

(* A class is INITIALIZING exactly while one activation initializes it, on   *)
(* the thread it names: no <clinit> runs twice, none is forgotten half-way,  *)
(* and the thread that finds its own name there is not told to wait.         *)
Owned ==
  /\ OneInitializer
  /\ \A c \in Classes : state[c] = "INITIALIZING" =>
       \E n \in DOMAIN stack[by[c]] : Initializes(by[c], n, c)

(* As far as t is concerned, p is initialized, or as good as. *)
Settled(t, p) ==
  \/ state[p] \in {"INITIALIZED", "LINKAGE_ERROR"}
  \/ state[p] = "INITIALIZING" /\ by[p] = t

(* While a <clinit> runs, the superclass and the interfaces of its class are *)
(* initialized, have failed, or are being initialized further out on the     *)
(* same thread.                                                              *)
ParentsFirst ==
  \A t \in Threads : \A n \in DOMAIN stack[t] :
    stack[t][n].at = "clinit" =>
      \A p \in Range(Parents[stack[t][n].cls]) : Settled(t, p)

(* The states of a class only advance, and INITIALIZED and LINKAGE_ERROR are *)
(* final: resolved instructions rely on it, they never test the class again. *)
Advances == [][
  \A c \in Classes : state'[c] # state[c] =>
    <<state[c], state'[c]>> \in {<<"LOADED", "LINKED">>, <<"LOADED", "LINKAGE_ERROR">>,
      <<"LINKED", "INITIALIZING">>, <<"INITIALIZING", "INITIALIZED">>,
      <<"INITIALIZING", "LINKAGE_ERROR">>}]_vars

(* Unless the initializers wait for each other in a cycle, every call of     *)
(* initialize_class ends, the busy waits for other threads included.         *)
InitializationEnds ==
  \A t \in Threads : stack[t] # <<>> ~> stack[t] = <<>>
=============================================================================
