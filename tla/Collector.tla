------------------------------ MODULE Collector ------------------------------
(***************************************************************************)
(* The heap and its compacting collector: bump_allocate (vm/bjvm.c) and    *)
(* major_gc (vm/gc.c) in the build that slides objects down in place.      *)
(* Memory is an array of cells.  An object is a header cell followed by    *)
(* one cell per reference; the mark word of an object that was locked lies *)
(* in a monitor_data cell of its own elsewhere in the heap, which moves    *)
(* like an object.  A collection runs inside an allocation and the program *)
(* does nothing meanwhile; it is split into the iterations of its loops.   *)
(***************************************************************************)
EXTENDS Integers, FiniteSets, FiniteSetsExt, Functions

CONSTANTS
  Cap,          \* heap_capacity, in cells
  Classes,      \* the classes of the program
  Reference,    \* java.lang.ref.Reference: slot 1 is `referent', 2 `discovered'
  Locked,       \* the classes whose objects the program locks and hashes
  NRefs,        \* the number of reference slots of each class
  Roots,        \* the locations major_gc_enumerate_gc_roots finds by itself
  Handler,      \* the list the JDK's ReferenceHandler is working on
  Args,         \* reference arguments of pending calls, pushed by the scheduler
  Hashes,       \* the identity hash codes (0: not computed)
  RootsFit      \* TRUE: the root vector never grows while the scheduler pushes

ASSUME HeapAssumption ==
  /\ Cap \in Nat
  /\ Reference \in Classes
  /\ Locked \subseteq Classes
  /\ NRefs \in [Classes -> Nat]
  /\ NRefs[Reference] >= 2
  /\ Roots \cap Args = {}
  /\ Handler \notin Roots \cup Args
  /\ Hashes \subseteq Nat \ {0}
  /\ RootsFit \in BOOLEAN

VARIABLES
  mem,          \* the heap
  heap_used,    \* cells allocated so far
  roots,        \* what the root locations and the pending arguments refer to
  pending,      \* vm.reference_pending_list
  phase,        \* where major_gc is; "run": not collecting
  request,      \* the allocation that started the collection
  worklist,     \* gc_ctx.worklist
  objs,         \* gc_ctx.objs: objects and monitors found reachable
  moved,        \* gc_ctx.new_location, by old address, as far as written
  fixed,        \* entries of objs relocate_instance_fields is done with
  write_ptr     \* the next cell to copy to

gcVars == <<worklist, objs, moved, fixed, write_ptr>>
vars == <<mem, heap_used, roots, pending, phase, request, worklist, objs, moved, fixed, write_ptr>>

Null == 0
Addrs == 1 .. Cap

-----------------------------------------------------------------------------
(* A cell: a header (class, payload, and the mark word or the monitor that  *)
(* holds it), a reference slot, or a monitor_data with its mark word.       *)
Free == [tag |-> "free", cls |-> Reference, id |-> 0, mon |-> Null,
         reach |-> FALSE, hash |-> 0, ref |-> Null]
Header(c, id) == [Free EXCEPT !.tag = "obj", !.cls = c, !.id = id]
Slot(p) == [Free EXCEPT !.tag = "ref", !.ref = p]
Monitor(hash) == [Free EXCEPT !.tag = "mon", !.hash = hash]

Size(c) == 1 + NRefs[c]
size_of_object(a) == IF mem[a].tag = "mon" THEN 1 ELSE Size(mem[a].cls)
Cells(a, n) == a .. a + n - 1

(* The cell whose mark word is that of the object at a. *)
get_mark_word(a) == IF mem[a].mon # Null THEN mem[a].mon ELSE a
Reached(a) == mem[get_mark_word(a)].reach
Hash(a) == mem[get_mark_word(a)].hash
SetReached(S, flag) ==
  [a \in Addrs |-> IF \E o \in S : a = get_mark_word(o) THEN [mem[a] EXCEPT !.reach = flag] ELSE mem[a]]

(* The objects in the slots first, first + 1, ... of the object at a. *)
Targets(a, first) == {mem[a + k].ref : k \in first .. NRefs[mem[a].cls]} \ {Null}
(* Mutation: a Reference keeps its referent alive. *)
AllTargets(a) == Targets(a, 1)

(* The slots that keep what they refer to alive: all but a `referent'. *)
StrongTargets(a) == Targets(a, IF mem[a].cls = Reference THEN 2 ELSE 1)

-----------------------------------------------------------------------------
(* Allocation requests: a new object of class c for the root r (a Reference  *)
(* is constructed with the referent the root s refers to), or the monitor    *)
(* of the object r refers to.                                                *)
Request(what, c, r, s) == [what |-> what, cls |-> c, root |-> r, referent |-> s]
NoRequest == Request("none", Reference, Handler, Handler)
NewObject(c, r, s) == Request("object", c, r, IF c = Reference THEN s ELSE r)
NewMonitor(r) == Request("monitor", Reference, r, r)
Requested(q) == IF q.what = "monitor" THEN 1 ELSE Size(q.cls)

(* A payload no object in the heap has. *)
FreshId == Min((1 .. Cap + 1) \ {mem[a].id : a \in 1 .. heap_used})

(* Mutation: the mark word of a monitor starts empty. *)
EmptyMonitor(o) == Monitor(0)

(* The monitor of the object at o starts with its mark word. *)
NewMarkWord(o) == Monitor(Hash(o))

(* AllocateObject with the constructor of Reference, the only code that sets *)
(* a referent, and the inflation of monitor_acquire, which copies the mark   *)
(* word into the monitor and swings the header over to it.                   *)
Grant(q) ==
  LET a == heap_used + 1
      o == roots[q.root]
  IN /\ heap_used' = heap_used + Requested(q)
     /\ IF q.what = "object"
        THEN /\ mem' = [b \in Addrs |->
                          IF b = a THEN Header(q.cls, FreshId)
                          ELSE IF b = a + 1 /\ q.cls = Reference THEN Slot(roots[q.referent])
                          ELSE IF b \in Cells(a, Size(q.cls)) THEN Slot(Null) ELSE mem[b]]
             /\ roots' = [roots EXCEPT ![q.root] = a]
        ELSE /\ mem' = [mem EXCEPT ![a] = NewMarkWord(o), ![o] = [@ EXCEPT !.mon = a, !.hash = 0]]
             /\ UNCHANGED roots

Fits(q) == heap_used + Requested(q) <= Cap

(* bump_allocate: on the first try a full heap starts a collection. *)
bump_allocate(q) ==
  /\ phase = "run"
  /\ IF Fits(q)
     THEN Grant(q) /\ UNCHANGED <<phase, request>>
     ELSE phase' = "start" /\ request' = q /\ UNCHANGED <<mem, heap_used, roots>>
  /\ UNCHANGED <<pending, gcVars>>

(* ... and on the second an OutOfMemoryError. *)
Retry ==
  /\ phase = "retry"
  /\ phase' = "run"
  /\ request' = NoRequest
  /\ IF Fits(request)
     THEN Grant(request)
     ELSE UNCHANGED <<mem, heap_used, roots>>
  /\ UNCHANGED <<pending, gcVars>>

-----------------------------------------------------------------------------
(* The root vector.  rr_scheduler_enumerate_gc_roots gets it by value: if it *)
(* has to grow, the caller goes on with the old one, which lacks the         *)
(* arguments of pending calls.                                               *)
RootLocations == Roots \cup {Handler} \cup (IF RootsFit THEN Args ELSE {})
RootObjects == ({roots[r] : r \in RootLocations} \cup {pending}) \ {Null}

(* The root loop of the mark phase. *)
MarkRoots ==
  /\ phase = "start"
  /\ phase' = "mark"
  /\ LET new == {o \in RootObjects : ~Reached(o)}
     IN mem' = SetReached(new, TRUE) /\ worklist' = new
  /\ objs' = {}
  /\ UNCHANGED <<heap_used, roots, pending, request, moved, fixed, write_ptr>>

mark_reachable(a) ==
  LET new == {t \in StrongTargets(a) : ~Reached(t)}
  IN /\ objs' = objs \cup {a} \cup ({mem[a].mon} \ {Null})
     /\ mem' = SetReached(new, TRUE)
     /\ worklist' = (worklist \ {a}) \cup new

Mark ==
  /\ phase = "mark"
  /\ \E a \in worklist : mark_reachable(a)
  /\ UNCHANGED <<heap_used, roots, pending, phase, request, moved, fixed, write_ptr>>

(* The worklist is empty: objs is sorted, the copy loop starts. *)
StartCopy ==
  /\ phase = "mark"
  /\ worklist = {}
  /\ phase' = "copy"
  /\ moved' = <<>>
  /\ write_ptr' = 1
  /\ UNCHANGED <<mem, heap_used, roots, pending, request, worklist, objs, fixed>>

NotMoved == objs \ DOMAIN moved

(* Mutation: objs is not sorted. *)
LastToCopy == Max(NotMoved)

NextToCopy == Min(NotMoved)

(* Mutation: the mark of an object with a monitor is cleared in its header. *)
ClearHeaderMark(a) == IF mem[a].tag = "mon" THEN mem ELSE [mem EXCEPT ![a].reach = FALSE]

ClearMark(a) == IF mem[a].tag = "mon" THEN mem ELSE SetReached({a}, FALSE)

(* One iteration of the copy loop: the lowest object or monitor that has not *)
(* been copied loses its mark and slides down to write_ptr.                  *)
Copy ==
  /\ phase = "copy"
  /\ NotMoved # {}
  /\ LET a == NextToCopy
         n == size_of_object(a)
         cleared == ClearMark(a)
     IN /\ mem' = [b \in Addrs |-> IF b \in Cells(write_ptr, n)
                                   THEN cleared[a + (b - write_ptr)] ELSE cleared[b]]
        /\ moved' = [b \in DOMAIN moved \cup {a} |-> IF b = a THEN write_ptr ELSE moved[b]]
        /\ write_ptr' = write_ptr + n
  /\ UNCHANGED <<heap_used, roots, pending, phase, request, worklist, objs, fixed>>

(* relocate_object: what a location holds after it has been looked up in objs. *)
relocate_object(p) == IF p \in objs THEN moved[p] ELSE p

(* The root loop after the copy loop. *)
RelocateRoots ==
  /\ phase = "copy"
  /\ NotMoved = {}
  /\ phase' = "fields"
  /\ roots' = [r \in DOMAIN roots |-> IF r \in RootLocations THEN relocate_object(roots[r]) ELSE roots[r]]
  /\ pending' = relocate_object(pending)
  /\ fixed' = {}
  /\ UNCHANGED <<mem, heap_used, request, worklist, objs, moved, write_ptr>>

NotFixed == objs \ fixed

(* Slot k of an object after relocation.  A `referent' that is not in objs    *)
(* is cleared.                                                               *)
RelocatedSlot(b, k) ==
  IF mem[b].cls = Reference /\ k = 1 /\ mem[b + 1].ref \notin objs
  THEN Slot(Null) ELSE Slot(relocate_object(mem[b + k].ref))

(* Mutation: a Reference is put on the list although it is on it already. *)
BecomesPendingAgain(b) ==
  /\ mem[b].cls = Reference
  /\ mem[b + 1].ref \notin objs

(* The Reference at b loses its referent and is not on the pending list yet. *)
BecomesPending(b) ==
  /\ mem[b].cls = Reference
  /\ mem[b + 1].ref \notin objs \cup {Null}
  /\ mem[b + 2].ref = Null

(* One iteration of relocate_instance_fields, on an object that is now at b. *)
Relocate(b) ==
  LET slots == Cells(b + 1, NRefs[mem[b].cls])
      fresh == BecomesPending(b)
  IN /\ mem' = [c \in Addrs |->
                  IF c = b THEN [mem[b] EXCEPT !.mon = relocate_object(@)]
                  ELSE IF c = b + 2 /\ fresh THEN Slot(pending)
                  ELSE IF c \in slots THEN RelocatedSlot(b, c - b) ELSE mem[c]]
     /\ pending' = IF fresh THEN b ELSE pending

RelocateFields ==
  /\ phase = "fields"
  /\ NotFixed # {}
  /\ LET a == Min(NotFixed)
     IN /\ fixed' = fixed \cup {a}
        /\ IF mem[moved[a]].tag = "mon" THEN UNCHANGED <<mem, pending>> ELSE Relocate(moved[a])
  /\ UNCHANGED <<heap_used, roots, phase, request, worklist, objs, moved, write_ptr>>

CellsInUse == write_ptr - 1

(* The end of major_gc.  What is above heap_used is dead: nothing refers to  *)
(* it (NoDangling) and bump_allocate zeroes it before use.                   *)
FinishGC ==
  /\ phase = "fields"
  /\ NotFixed = {}
  /\ phase' = "retry"
  /\ heap_used' = CellsInUse
  /\ mem' = [a \in Addrs |-> IF a < write_ptr THEN mem[a] ELSE Free]
  /\ objs' = {} /\ moved' = <<>> /\ fixed' = {} /\ write_ptr' = 1
  /\ UNCHANGED <<roots, pending, request, worklist>>

-----------------------------------------------------------------------------
(* The program between collections: it allocates, locks, hashes, and copies  *)
(* references between its variables, the arguments of calls it schedules,    *)
(* and the fields of objects.  It never sees `discovered', and reads a       *)
(* `referent' but does not write it.                                         *)
Variables == Roots \cup Args
ProgramSlots(a) == {k \in 1 .. NRefs[mem[a].cls] : mem[a].cls # Reference \/ k > 2}
Unchanged == UNCHANGED <<heap_used, phase, request, gcVars>>

New == \E c \in Classes, r, s \in Roots : bump_allocate(NewObject(c, r, s))

(* monitor_acquire on an object without a monitor. *)
Inflate ==
  \E r \in Roots : /\ roots[r] # Null
                   /\ mem[roots[r]].cls \in Locked
                   /\ mem[roots[r]].mon = Null
                   /\ bump_allocate(NewMonitor(r))

get_object_hash_code ==
  /\ phase = "run"
  /\ \E r \in Roots, h \in Hashes :
       /\ roots[r] # Null
       /\ mem[roots[r]].cls \in Locked
       /\ Hash(roots[r]) = 0
       /\ mem' = [mem EXCEPT ![get_mark_word(roots[r])].hash = h]
  /\ UNCHANGED <<roots, pending>> /\ Unchanged

Assign ==
  /\ phase = "run"
  /\ \E r, s \in Variables : /\ roots[r] # roots[s]
                            /\ roots' = [roots EXCEPT ![r] = roots[s]]
  /\ UNCHANGED <<mem, pending>> /\ Unchanged

Drop ==
  /\ phase = "run"
  /\ \E r \in Variables : roots[r] # Null /\ roots' = [roots EXCEPT ![r] = Null]
  /\ UNCHANGED <<mem, pending>> /\ Unchanged

getfield ==
  /\ phase = "run"
  /\ \E r, s \in Roots :
       /\ roots[s] # Null
       /\ \E k \in ProgramSlots(roots[s]) \cup (IF mem[roots[s]].cls = Reference THEN {1} ELSE {}) :
            roots' = [roots EXCEPT ![r] = mem[roots[s] + k].ref]
  /\ UNCHANGED <<mem, pending>> /\ Unchanged

putfield ==
  /\ phase = "run"
  /\ \E r, s \in Roots :
       /\ roots[r] # Null
       /\ \E k \in ProgramSlots(roots[r]) : mem' = [mem EXCEPT ![roots[r] + k] = Slot(roots[s])]
  /\ UNCHANGED <<roots, pending>> /\ Unchanged

(* getAndClearReferencePendingList, which the ReferenceHandler calls when it  *)
(* has no list left,                                                          *)
getAndClearReferencePendingList ==
  /\ phase = "run"
  /\ pending # Null
  /\ roots[Handler] = Null
  /\ roots' = [roots EXCEPT ![Handler] = pending]
  /\ pending' = Null
  /\ UNCHANGED mem /\ Unchanged

(* and the loop in which it takes the References off the list.                *)
processPendingReferences ==
  /\ phase = "run"
  /\ roots[Handler] # Null
  /\ LET discovered == roots[Handler] + 2
     IN /\ mem' = [mem EXCEPT ![discovered] = Slot(Null)]
        /\ roots' = [roots EXCEPT ![Handler] = mem[discovered].ref]
  /\ UNCHANGED pending /\ Unchanged

Init ==
  /\ mem = [a \in Addrs |-> Free]
  /\ heap_used = 0
  /\ roots = [r \in Variables \cup {Handler} |-> Null]
  /\ pending = Null
  /\ phase = "run"
  /\ request = NoRequest
  /\ worklist = {} /\ objs = {} /\ moved = <<>> /\ fixed = {} /\ write_ptr = 1

major_gc == MarkRoots \/ Mark \/ StartCopy \/ Copy \/ RelocateRoots \/ RelocateFields \/ FinishGC
Mutator == \/ New \/ Inflate \/ get_object_hash_code \/ Assign \/ Drop \/ getfield \/ putfield
           \/ getAndClearReferencePendingList \/ processPendingReferences
Next == Mutator \/ major_gc \/ Retry
Spec == Init /\ [][Next]_vars

-----------------------------------------------------------------------------
IsObject(p) == p \in 1 .. heap_used /\ mem[p].tag = "obj"
IsMonitor(p) == p \in 1 .. heap_used /\ mem[p].tag = "mon"

(* What the program can reach: the addresses that can be reached from the   *)
(* roots through all slots.  As many rounds as there are cells are enough.  *)
Visible ==
  LET round[n \in 0 .. Cap] ==
        IF n = 0 THEN (Range(roots) \cup {pending}) \ {Null}
        ELSE UNION {{a} \cup (IF IsObject(a) THEN Targets(a, 1) ELSE {}) : a \in round[n - 1]}
  IN round[Cap]

(* What is strongly reachable: the least set of addresses that has those the *)
(* roots refer to and those the slots of its objects refer to, but for a     *)
(* `referent'.                                                               *)
IsClosed(S) ==
  /\ (Range(roots) \cup {pending}) \ {Null} \subseteq S
  /\ \A a \in S : IsObject(a) => Targets(a, IF mem[a].cls = Reference THEN 2 ELSE 1) \subseteq S
Live == {a \in Addrs : \A S \in SUBSET Addrs : IsClosed(S) => a \in S}
Stable == phase \in {"run", "retry"}

(* No reference of the program or of an object it can reach dangles, every  *)
(* monitor has one object and lies above it: the collector clears the mark  *)
(* of an object through the monitor's old address, and finds the monitors   *)
(* in objs.                                                                 *)
NoDangling ==
  Stable => LET seen == Visible
            IN \A a \in seen :
                 /\ IsObject(a)
                 /\ mem[a].mon # Null => /\ IsMonitor(mem[a].mon) /\ mem[a].mon > a
                                        /\ \A b \in seen \ {a} : mem[b].mon # mem[a].mon

(* The slide never writes over what it still has to read: the copies stay   *)
(* below every object that has not been copied (the DCHECK of the loop),    *)
(* and such an object's monitor has not been copied either.                 *)
SlideIsSafe ==
  phase = "copy" => \A a \in NotMoved : /\ write_ptr <= a
                                        /\ mem[a].mon # Null => mem[a].mon \in NotMoved

(* A collection leaves nothing but strongly reachable objects and their     *)
(* monitors, so that OutOfMemoryError is thrown only if they do not leave   *)
(* enough room.                                                             *)
NoFloatingGarbage ==
  phase = "retry" =>
    1 .. heap_used = UNION {Cells(a, size_of_object(a)) \cup ({mem[a].mon} \ {Null}) : a \in Live}
=============================================================================
