------------------------------- MODULE Loading -------------------------------
(***************************************************************************)
(* Class loading (src/vm/bjvm.c): lookup_class, define_class and           *)
(* resolve_class_impl, the natives of java.lang.ClassLoader, and the Java  *)
(* class loaders between them, which ask their parent first.               *)
(*                                                                         *)
(* A class is <<the loader that defines it, its name>>.  stack[t] holds    *)
(* the activations of thread t, innermost first; answer[t] is what the     *)
(* last one returned, Pending while one runs.  A world has                 *)
(*   w.files     the class files, by loader and name: supertypes, whether  *)
(*               it parses, and the subclasses it permits                  *)
(*   w.requests  what the program may ask for                              *)
(* The program is suspended only while a class loader's Java code runs and *)
(* nobody below it has called synchronously.                               *)
(***************************************************************************)
EXTENDS Naturals, Sequences, SequencesExt, FiniteSets, TLC

CONSTANTS
  Threads,
  Loaders, Boot,
  Parent,        \* by loader other than Boot, its parent
  Names,
  Worlds,
  MaxRequests,   \* requests in a behaviour
  MaxDepth,      \* activations on a thread's stack when a Java call overflows it
  MaxDims        \* dimensions of an array an undefined local may stand for

\* The loaders are a tree, whose root is the bootstrap loader.
ASSUME LoadersAssumption ==
  /\ Boot \in Loaders /\ IsFiniteSet(Loaders) /\ Parent \in [Loaders \ {Boot} -> Loaders]
  /\ \E depth \in [Loaders -> 0..Cardinality(Loaders)] : \A l \in DOMAIN Parent : depth[Parent[l]] < depth[l]
  /\ Threads # {} /\ MaxRequests \in Nat /\ MaxDepth \in Nat /\ MaxDims \in Nat

VARIABLES
  world,
  loaded,       \* the classes in the loaded tables of the loaders
  initiating,   \* by loader and name: the class recorded there
  inchoate,     \* vm->inchoate_classes
  info,         \* by symbolic reference: what resolve_class_impl left in it
  stack, answer, exc,
  running,      \* the thread on the C stack
  vm,           \* up, aborted by a CHECK, or corrupt after use of a wild pointer
  abandoned,    \* names that a lookup which ran out of memory left inchoate
  asked         \* requests so far

tables == <<loaded, initiating, inchoate>>
vars == <<world, tables, info, stack, answer, exc, running, vm, abandoned, asked>>

NoClass == <<>>
Pending == [class |-> NoClass, dims |-> 0, pending |-> TRUE]
Result(c, dims) == [class |-> c, dims |-> dims, pending |-> FALSE]
Null == Result(NoClass, 0)

\* The loaders from l to the bootstrap loader.
Ancestors(l) ==
  LET up[k \in Loaders] == IF k = Boot THEN <<Boot>> ELSE <<k>> \o up[Parent[k]] IN up[l]

HasFile(w, l, n) == <<l, n>> \in DOMAIN w.files

----------------------------------------------------------------------------
(***************************************************************************)
(* Activations.  sync: the caller requires that the call does not suspend  *)
(* (synchronous_depth).  kept: the locals are still those of its first     *)
(* entry, because the C stack has not been unwound since.                  *)
(***************************************************************************)
Frame(op, l, n, at, sync) ==
  [op |-> op, cl |-> l, name |-> n, at |-> at, sync |-> sync, dims |-> 0, raise |-> TRUE, kept |-> TRUE, k |-> 1]
LookupFrame(l, n, dims, raise, sync) ==
  [Frame("lookup", l, n, "enter", sync) EXCEPT !.dims = dims, !.raise = raise]
LoadFrame(l, n, sync) == Frame("load", l, n, "lock", sync)
DefineFrame(l, n) == Frame("define", l, n, "enter", FALSE)

Top == Head(stack[running])
Below == Tail(stack[running])
Is(op, at) == vm = "up" /\ stack[running] # <<>> /\ Top.op = op /\ Top.at = at
Returned == ~answer[running].pending

\* The top activation goes on at another place, and may call another one.
GoOn(top) == stack' = [stack EXCEPT ![running] = <<top>> \o Below]
Call(top, callee) == /\ stack' = [stack EXCEPT ![running] = <<callee, top>> \o Below]
                     /\ answer' = [answer EXCEPT ![running] = Pending]
Answer(r, e) == answer' = [answer EXCEPT ![running] = r] /\ exc' = [exc EXCEPT ![running] = e]
Return(r, e) == stack' = [stack EXCEPT ![running] = Below] /\ Answer(r, e)

\* call_interpreter: too little stack for another frame is an exception in the caller.
Overflows == Len(stack[running]) >= MaxDepth
CallJava(top, callee) ==
  IF Overflows THEN GoOn(top) /\ Answer(Null, "StackOverflowError")
  ELSE Call(top, callee) /\ UNCHANGED exc

Control == UNCHANGED <<world, info, running, vm, abandoned, asked>>

----------------------------------------------------------------------------
\* lookup_class.
lookup_class ==
  /\ Is("lookup", "enter")
  /\ LET c == initiating[Top.cl][Top.name]
         called == [Top EXCEPT !.at = "called"]
     IN  IF c # NoClass
         THEN Return(Result(c, Top.dims), exc[running]) /\ UNCHANGED inchoate
         ELSE /\ inchoate' = inchoate \union {Top.name}
              /\ IF Top.cl # Boot THEN CallJava(called, LoadFrame(Top.cl, Top.name, FALSE))
                 ELSE IF HasFile(world, Boot, Top.name)      \* bootstrap_load_class_from_fs
                 THEN Call(called, DefineFrame(Boot, Top.name)) /\ UNCHANGED exc
                 ELSE GoOn(called) /\ Answer(Null, exc[running])
  /\ UNCHANGED <<loaded, initiating>> /\ Control

\* No memory for the argument of loadClass.
LookupOutOfMemory ==
  /\ Is("lookup", "enter") /\ Top.cl # Boot /\ initiating[Top.cl][Top.name] = NoClass
  /\ inchoate' = inchoate \union {Top.name}
  /\ abandoned' = abandoned \union {Top.name}
  /\ Return(Null, "OutOfMemoryError")
  /\ UNCHANGED <<world, loaded, initiating, info, running, vm, asked>>

\* The loaders that get a record of class c when l has looked it up.
OnlyTheFirst(l, c) == {l} \ {c[1]}
RecordingLoaders(l, c) ==
  LET up == Ancestors(l) IN {up[i] : i \in {j \in DOMAIN up : \A m \in 1..j : up[m] # c[1]}}

MarkKept(name) == inchoate
WithoutMark(name) == inchoate \ {name}

LookupDone ==
  /\ Is("lookup", "called") /\ Returned
  /\ inchoate' = WithoutMark(Top.name)
  /\ LET c == answer[running].class
         failed == IF Top.raise /\ exc[running] = "none" THEN "ClassNotFoundException" ELSE exc[running]
     IN  IF c = NoClass THEN Return(Null, failed) /\ UNCHANGED initiating
         ELSE \E dims \in (IF Top.kept THEN {Top.dims} ELSE 0..MaxDims) :
                /\ initiating' = [l \in Loaders |-> IF l \in RecordingLoaders(Top.cl, c)
                                                    THEN [initiating[l] EXCEPT ![Top.name] = c] ELSE initiating[l]]
                /\ Return(Result(c, dims), exc[running])
  /\ UNCHANGED loaded /\ Control

\* class is not assigned when loadClass has thrown: after a suspension it is any pointer.
LookupWild ==
  /\ Is("lookup", "called") /\ Returned /\ ~Top.kept /\ exc[running] # "none"
  /\ vm' = "corrupt"
  /\ UNCHANGED <<world, tables, info, stack, answer, exc, running, abandoned, asked>>

----------------------------------------------------------------------------
\* define_class.
File == world.files[<<Top.cl, Top.name>>]

define_class ==
  /\ Is("define", "enter")
  /\ CASE initiating[Top.cl][Top.name] # NoClass -> Return(Null, "LinkageError")
       [] initiating[Top.cl][Top.name] = NoClass /\ ~File.parses -> Return(Null, "ClassFormatError")
       [] OTHER -> GoOn([Top EXCEPT !.at = "supers"]) /\ UNCHANGED <<answer, exc>>
  /\ UNCHANGED tables /\ Control

\* The superclass and the superinterfaces are resolved in turn.
DefineSuper ==
  /\ Is("define", "supers") /\ Top.k <= Len(File.supers)
  /\ LET s == File.supers[Top.k]
     IN  IF s \in inchoate THEN Return(Null, "ClassCircularityError")
         ELSE Call([Top EXCEPT !.at = "called"], LookupFrame(Top.cl, s, 0, TRUE, TRUE)) /\ UNCHANGED exc
  /\ UNCHANGED tables /\ Control

EveryonePermitted(w, super, name) == TRUE
check_permitted_subclasses(w, super, name) == name \in w.files[super].permits

SameSuper(k) == k
NextSuper(k) == k + 1

DefineSuperDone ==
  /\ Is("define", "called") /\ Returned
  /\ LET c == answer[running].class
     IN  CASE c = NoClass -> Return(Null, exc[running])
           [] c # NoClass /\ ~check_permitted_subclasses(world, c, Top.name) ->
                Return(Null, "IncompatibleClassChangeError")
           [] OTHER -> GoOn([Top EXCEPT !.at = "supers", !.k = NextSuper(@)]) /\ UNCHANGED <<answer, exc>>
  /\ UNCHANGED tables /\ Control

DefineEnd ==
  /\ Is("define", "supers") /\ Top.k > Len(File.supers)
  /\ LET c == <<Top.cl, Top.name>>
     IN  /\ loaded' = loaded \union {c}
         /\ initiating' = [initiating EXCEPT ![Top.cl][Top.name] = c]
         /\ Return(Result(c, 0), exc[running])
  /\ UNCHANGED inchoate /\ Control

----------------------------------------------------------------------------
(***************************************************************************)
(* loadClass of a Java class loader: under the lock for the name, look     *)
(* among its own classes (findLoadedClass0), ask the parent (findBootstrap-*)
(* Class at the top), then define the class from its own path.             *)
(***************************************************************************)
Holders(l, n) ==
  {t \in Threads : \E i \in DOMAIN stack[t] : LET f == stack[t][i] IN
     f.op = "load" /\ f.cl = l /\ f.name = n /\ f.at # "lock"}
Synchronous(t) == \E i \in DOMAIN stack[t] : stack[t][i].sync

LoadLock ==
  /\ Is("load", "lock") /\ Holders(Top.cl, Top.name) \subseteq {running}
  /\ GoOn([Top EXCEPT !.at = "find"])
  /\ UNCHANGED <<tables, answer, exc>> /\ Control

\* A call that must not suspend has to wait for a lock.
LoadMustWait ==
  /\ Is("load", "lock") /\ ~(Holders(Top.cl, Top.name) \subseteq {running}) /\ Synchronous(running)
  /\ vm' = "aborted"
  /\ UNCHANGED <<world, tables, info, stack, answer, exc, running, abandoned, asked>>

findLoadedClass0(l, n) == <<l, n>> \in loaded
findBootstrapClass(n) == LookupFrame(Boot, n, 0, FALSE, FALSE)

LoadFind ==
  /\ Is("load", "find")
  /\ LET asking == [Top EXCEPT !.at = "parent"]
     IN  IF findLoadedClass0(Top.cl, Top.name) THEN Return(Result(<<Top.cl, Top.name>>, 0), "none")
         ELSE IF Parent[Top.cl] = Boot THEN Call(asking, findBootstrapClass(Top.name)) /\ UNCHANGED exc
         ELSE CallJava(asking, LoadFrame(Parent[Top.cl], Top.name, FALSE))
  /\ UNCHANGED tables /\ Control

LoadParentDone ==
  /\ Is("load", "parent") /\ Returned
  /\ CASE answer[running].class # NoClass -> Return(answer[running], "none")
       [] answer[running].class = NoClass /\ exc[running] \notin {"none", "ClassNotFoundException"} ->
            Return(Null, exc[running])
       [] OTHER -> IF HasFile(world, Top.cl, Top.name)
                   THEN /\ Call([Top EXCEPT !.at = "define"], DefineFrame(Top.cl, Top.name))
                        /\ exc' = [exc EXCEPT ![running] = "none"]
                   ELSE Return(Null, "ClassNotFoundException")
  /\ UNCHANGED tables /\ Control

LoadDefined ==
  /\ Is("load", "define") /\ Returned
  /\ Return(answer[running], exc[running])
  /\ UNCHANGED tables /\ Control

----------------------------------------------------------------------------
(***************************************************************************)
(* What a program asks: to resolve a symbolic reference of a class loaded  *)
(* by r.cl, to load the class of a descriptor, Class.forName, or to define *)
(* a class from bytes it has.                                              *)
(***************************************************************************)
Unresolved == [class |-> NoClass, error |-> "none"]
References == {r \in world.requests : r.kind = "resolve"}

Entered(r) ==
  CASE r.kind = "resolve" -> <<LookupFrame(r.cl, r.name, r.dims, TRUE, TRUE),
                             [Frame("resolve", r.cl, r.name, "called", FALSE) EXCEPT !.dims = r.dims]>>
    [] r.kind = "descriptor" -> <<LookupFrame(r.cl, r.name, r.dims, FALSE, FALSE)>>
    [] r.kind = "forName" -> <<IF r.cl = Boot THEN LookupFrame(Boot, r.name, 0, TRUE, FALSE)
                               ELSE LoadFrame(r.cl, r.name, TRUE)>>
    [] r.kind = "define" -> <<DefineFrame(r.cl, r.name)>>

MayAsk == vm = "up" /\ stack[running] = <<>> /\ asked < MaxRequests
Asked == asked' = asked + 1 /\ UNCHANGED <<world, tables, info, running, vm, abandoned>>
Known(r) == r.kind = "resolve" /\ info[r] # Unresolved

Ask(r) ==
  /\ MayAsk /\ ~Known(r) /\ Asked
  /\ stack' = [stack EXCEPT ![running] = Entered(r)]
  /\ Answer(Pending, "none")

\* The reference has been resolved, or has failed, before.
AskAgain(r) ==
  /\ MayAsk /\ Known(r) /\ Asked
  /\ Answer(IF info[r].class = NoClass THEN Null ELSE Result(info[r].class, r.dims), info[r].error)
  /\ UNCHANGED stack

resolve_class_impl ==
  /\ Is("resolve", "called") /\ Returned
  /\ info' = [r \in References |-> IF r.cl = Top.cl /\ r.name = Top.name /\ r.dims = Top.dims
                                   THEN [class |-> answer[running].class, error |-> exc[running]] ELSE info[r]]
  /\ Return(answer[running], exc[running])
  /\ UNCHANGED <<world, tables, running, vm, abandoned, asked>>

\* refuel_check, or a loader waiting for a lock: the C stack is unwound.
MaySwitch == vm = "up" /\ (stack[running] # <<>> => Top.op = "load" /\ ~Synchronous(running))
Switch(t) ==
  /\ MaySwitch /\ t # running
  /\ running' = t
  /\ stack' = [stack EXCEPT ![running] = [i \in DOMAIN @ |-> [@[i] EXCEPT !.kept = FALSE]]]
  /\ UNCHANGED <<world, tables, info, answer, exc, vm, abandoned, asked>>

Init ==
  /\ world \in Worlds
  /\ loaded = {} /\ initiating = [l \in Loaders |-> [n \in Names |-> NoClass]] /\ inchoate = {}
  /\ info = [r \in References |-> Unresolved]
  /\ stack = [t \in Threads |-> <<>>] /\ answer = [t \in Threads |-> Null] /\ exc = [t \in Threads |-> "none"]
  /\ running = CHOOSE t \in Threads : TRUE
  /\ vm = "up" /\ abandoned = {} /\ asked = 0

Step ==
  \/ lookup_class \/ LookupOutOfMemory \/ LookupDone \/ LookupWild
  \/ define_class \/ DefineSuper \/ DefineSuperDone \/ DefineEnd
  \/ LoadLock \/ LoadMustWait \/ LoadFind \/ LoadParentDone \/ LoadDefined
  \/ resolve_class_impl

Next == Step \/ (\E r \in world.requests : Ask(r) \/ AskAgain(r)) \/ (\E t \in Threads : Switch(t))

Spec == Init /\ [][Next]_vars
\* A thread that was preempted or waits is scheduled again, and one that is scheduled executes.
FairSpec == Spec /\ \A t \in Threads : SF_vars(running = t /\ Step) /\ SF_vars(Switch(t))

----------------------------------------------------------------------------
(***************************************************************************)
(* What the class files say.  Parent-first: of the files on the way from   *)
(* the bootstrap loader down to l the first one counts.  A class can be    *)
(* loaded if its file parses and all its supertypes can, and permit it;    *)
(* a class on a cycle never gets into the least such set.                  *)
(***************************************************************************)
Definer(w, l, n) ==
  LET up == Ancestors(l)
      having == {i \in DOMAIN up : HasFile(w, up[i], n)}
  IN  IF having = {} THEN NoClass ELSE <<up[Max(having)], n>>

SupersOf(w, c) == {Definer(w, c[1], n) : n \in ToSet(w.files[c].supers)}

LoadableAbove(w, S) ==
  {c \in DOMAIN w.files : w.files[c].parses /\ \A s \in SupersOf(w, c) : s \in S /\ c[2] \in w.files[s].permits}
Loadable(w) == {c \in DOMAIN w.files : \A S \in SUBSET DOMAIN w.files : LoadableAbove(w, S) \subseteq S => c \in S}

\* A class has another one above it, or is it: every set of classes closed upwards says so.
Leads(w, from, to) ==
  \A S \in SUBSET (DOMAIN w.files \union {NoClass}) :
    from \in S /\ (\A c \in S \ {NoClass} : SupersOf(w, c) \subseteq S) => to \in S

(***************************************************************************)
(* What a class path and a program must be for the loaders to agree.  A    *)
(* supertype that is missing is reported as if the class itself were, and  *)
(* the next loader then takes its own class of that name: a file another   *)
(* one hides has all its supertypes.  And a program that defines a class   *)
(* itself defines none that the parents of its loader have: define_class   *)
(* looks for a record only when it begins.                                 *)
(***************************************************************************)
ASSUME WorldsAssumption ==
  \A w \in Worlds :
    /\ DOMAIN w.files \subseteq Loaders \X Names
    /\ \A c \in DOMAIN w.files : w.files[c].supers \in Seq(Names) /\ w.files[c].parses \in BOOLEAN
    /\ \A r \in w.requests : /\ r.kind \in {"resolve", "descriptor", "forName", "define"}
                             /\ r.cl \in Loaders /\ r.name \in Names /\ r.dims \in Nat
                             /\ r.kind = "define" => Definer(w, r.cl, r.name) = <<r.cl, r.name>>
    /\ \A c \in DOMAIN w.files : LET d == Definer(w, c[1], c[2]) IN d # c => ~Leads(w, d, NoClass)

(***************************************************************************)
(* The tables of the loaders agree: what a loader has defined it has       *)
(* recorded, a record leads to a class an ancestor has defined and all     *)
(* loaders on the way have it too (bjvm.c:1563), and every defined class   *)
(* has all its supertypes recorded with its own loader, without cycles     *)
(* (define_class, bjvm.c:1344).                                            *)
(***************************************************************************)
RecordsSound ==
  /\ \A c \in loaded : initiating[c[1]][c[2]] = c
  /\ \A l \in Loaders, n \in Names :
       LET c == initiating[l][n]
           up == Ancestors(l)
       IN  c # NoClass => /\ c \in loaded /\ c[2] = n
                          /\ \E i \in DOMAIN up : up[i] = c[1] /\ \A j \in 1..i : initiating[up[j]][n] = c
  /\ \A c \in loaded : \A s \in SupersOf(world, c) :
       s \in loaded /\ initiating[c[1]][s[2]] = s /\ ~Leads(world, s, c)

\* The thread's outermost activation, and the one request that is answered without any.
Ends(t) == stack[t] # <<>> /\ stack'[t] = <<>>
Outer(t) == Last(stack[t])

(***************************************************************************)
(* However loaders delegate, threads interleave and earlier lookups ended, *)
(* a request gets the class its class file names, an array of the right    *)
(* dimensions unless the call was suspended, and no class only if it       *)
(* cannot be loaded, or for the errors of the machine: no stack, no        *)
(* memory, a mark of somebody else (lookup_class, bjvm.c:1497).            *)
(***************************************************************************)
LookupRight ==
  [][\A t \in Threads : Ends(t) =>
       LET f == Outer(t)
           r == answer'[t]
           c == IF f.op = "define" THEN <<f.cl, f.name>> ELSE Definer(world, f.cl, f.name)
       IN  IF r.class # NoClass
           THEN r.class = c /\ c \in Loadable(world) /\ exc'[t] = "none" /\ (f.kept => r.dims = f.dims)
           ELSE /\ \/ c \notin Loadable(world)
                   \/ exc'[t] \in {"ClassCircularityError", "StackOverflowError", "OutOfMemoryError"}
                   \/ exc'[t] = "LinkageError" /\ c \in loaded
                /\ f.raise => exc'[t] # "none"]_vars

LookedUpByOther(t, n) ==
  \E u \in Threads \ {t} : \E i \in DOMAIN stack[u] : stack[u][i].op = "lookup" /\ stack[u][i].name = n

(***************************************************************************)
(* define_class reports a circularity only where the class files have one, *)
(* where another thread is loading the supertype at this moment, or where  *)
(* a lookup of it ran out of memory: marks are never left behind otherwise *)
(* (bjvm.c:1373, 1394, 1560).                                              *)
(***************************************************************************)
CircularityJustified ==
  [][\A t \in Threads :
       (Len(stack'[t]) < Len(stack[t]) /\ Head(stack[t]).op = "define" /\ Head(stack[t]).at = "supers"
          /\ exc'[t] = "ClassCircularityError") =>
         LET d == Head(stack[t])
             c == <<d.cl, d.name>>
             s == Definer(world, d.cl, world.files[c].supers[d.k])
         IN  \/ s # NoClass /\ Leads(world, s, c)
             \/ LookedUpByOther(t, world.files[c].supers[d.k])
             \/ world.files[c].supers[d.k] \in abandoned]_vars

(***************************************************************************)
(* Every request ends, circular hierarchies in Java class loaders, whose   *)
(* marks the delegation removes, included (lookup_class, bjvm.c:1497).     *)
(***************************************************************************)
LookupsEnd == \A t \in Threads : stack[t] # <<>> ~> (stack[t] = <<>> \/ vm # "up")

=============================================================================
