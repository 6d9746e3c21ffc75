---------------------------- MODULE MarkSweepGC ----------------------------
(***************************************************************************)
(* The heap mode of the runtime: slab allocation (memory/Heap.hpp), the    *)
(* mark-sweep collector (memory/GarbageCollector.cpp), and the weak        *)
(* references that hang on the heap's table m_weakrefs                     *)
(* (runtime/modules/weakref).  All of it stands under #ifndef              *)
(* PYLANG_USE_ARENA: the default build (CMakeLists.txt:281) compiles the   *)
(* arena mode with the Boehm collector instead, and the heap mode has not  *)
(* followed the change of Value to RtValue (forward.hpp:34).  This is a    *)
(* model of the code as it stands there, not of the built program.         *)
(*                                                                         *)
(* A cell is a slot of a slab, named by its index, so a freed cell and the *)
(* one allocated in its place have the same address.  An edge is what      *)
(* visit_graph reports; a weak reference does not report its referent.     *)
(* Memory allocated under ScopedStaticAllocation is outside the slabs: the *)
(* collector neither frees nor enters it, and it has no cells here.        *)
(* Collection runs inside Heap::allocate with the program stopped, and is  *)
(* split into the steps of MarkSweepGC::run.                               *)
(*                                                                         *)
(* stamp and refStamp are history: they tell an object from the one that   *)
(* had its address before.                                                 *)
(***************************************************************************)
EXTENDS Integers, Sequences

CONSTANTS NCells,     \* bound: slots of the slab
          Frequency,  \* m_frequency: allocations per collection
          MaxAllocs,  \* bound: allocations in a behaviour
          MaxScopes,  \* bound: nested ScopedGCPause
          NoRef,      \* the referent of a cell that is no weak reference
          PyNone      \* the referent of a weak reference found dead

Cells == 1..NCells

ASSUME MarkSweepGCAssumption ==
    /\ NCells \in Nat /\ Frequency \in Nat \ {0}
    /\ MaxAllocs \in Nat /\ MaxScopes \in Nat
    /\ NoRef \notin Cells /\ PyNone \notin Cells /\ NoRef # PyNone

VARIABLES occupied,    \* the set bits of m_occupied_chunks
          colour,      \* colour[c]: GarbageCollected::m_state
          edges,       \* edges[c]: the cells visit_graph of c reports
          roots,       \* cells on the stack, in the VM and the interpreter
          phase,       \* where MarkSweepGC::run is
          found,       \* what collect_roots found
          toVisit,     \* the stack of mark_all_live_objects
          cursor,      \* the next cell sweep looks at
          iterations,  \* m_iterations_since_last_sweep
          paused,      \* m_pause
          scopes,      \* m_needs_to_be_resumed of the open ScopedGCPauses
          weakrefs,    \* weakrefs[c]: m_weakrefs[c], empty if not contained
          referent,    \* referent[w]: PyWeakRef::m_object
          stamp,       \* stamp[c]: the number of the allocation of c
          refStamp,    \* refStamp[w]: the stamp of its referent back then
          allocs       \* the allocations so far

graphVars == <<edges, roots>>
gcVars == <<phase, found, toVisit, cursor, iterations>>
pauseVars == <<paused, scopes>>
refVars == <<weakrefs, referent, stamp, refStamp>>
vars == <<occupied, colour, edges, roots, phase, found, toVisit, cursor,
          iterations, paused, scopes, weakrefs, referent, stamp, refStamp,
          allocs>>

-----------------------------------------------------------------------------
Init ==
    /\ occupied = {}
    /\ colour = [c \in Cells |-> "white"]
    /\ edges = [c \in Cells |-> {}]
    /\ roots = {}
    /\ phase = "mutator"
    /\ found = {} /\ toVisit = {} /\ cursor = 1
    /\ iterations = 0
    /\ paused = FALSE /\ scopes = <<>>
    /\ weakrefs = [c \in Cells |-> {}]
    /\ referent = [c \in Cells |-> NoRef]
    /\ stamp = [c \in Cells |-> 0]
    /\ refStamp = [c \in Cells |-> 0]
    /\ allocs = 0

-----------------------------------------------------------------------------
\* The program between two allocations: it loads and stores references it can
\* reach, and lets go of what it holds.
LoadRef(a, b) ==
    /\ phase = "mutator"
    /\ a \in roots /\ b \in edges[a] \ roots
    /\ roots' = roots \union {b}
    /\ UNCHANGED <<occupied, colour, edges, allocs>>
    /\ UNCHANGED <<gcVars, pauseVars, refVars>>

StoreRef(a, b) ==
    /\ phase = "mutator"
    /\ a \in roots /\ b \in roots \ edges[a]
    /\ edges' = [edges EXCEPT ![a] = @ \union {b}]
    /\ UNCHANGED <<occupied, colour, roots, allocs>>
    /\ UNCHANGED <<gcVars, pauseVars, refVars>>

ClearRef(a, b) ==
    /\ phase = "mutator"
    /\ a \in roots /\ b \in edges[a]
    /\ edges' = [edges EXCEPT ![a] = @ \ {b}]
    /\ UNCHANGED <<occupied, colour, roots, allocs>>
    /\ UNCHANGED <<gcVars, pauseVars, refVars>>

DropRoot(c) ==
    /\ phase = "mutator"
    /\ c \in roots
    /\ roots' = roots \ {c}
    /\ UNCHANGED <<occupied, colour, edges, allocs>>
    /\ UNCHANGED <<gcVars, pauseVars, refVars>>

\* ScopedGCPause: only the scope that found the collector active resumes it.
EnterGCPause ==
    /\ phase = "mutator"
    /\ Len(scopes) < MaxScopes
    /\ scopes' = Append(scopes, ~paused)
    /\ paused' = TRUE
    /\ UNCHANGED <<occupied, colour, allocs>>
    /\ UNCHANGED <<graphVars, gcVars, refVars>>

\* Mutant of LeaveGCPause: every scope resumes the collector.
LeaveGCPauseAlways ==
    /\ phase = "mutator"
    /\ scopes # <<>>
    /\ scopes' = SubSeq(scopes, 1, Len(scopes) - 1)
    /\ paused' = FALSE
    /\ UNCHANGED <<occupied, colour, allocs>>
    /\ UNCHANGED <<graphVars, gcVars, refVars>>

LeaveGCPause ==
    /\ phase = "mutator"
    /\ scopes # <<>>
    /\ scopes' = SubSeq(scopes, 1, Len(scopes) - 1)
    /\ paused' = (paused /\ ~scopes[Len(scopes)])
    /\ UNCHANGED <<occupied, colour, allocs>>
    /\ UNCHANGED <<graphVars, gcVars, refVars>>

-----------------------------------------------------------------------------
\* Heap::allocate calls collect_garbage first: MarkSweepGC::run up to the
\* decision whether this is the allocation that collects.
CollectGarbage ==
    /\ phase = "mutator"
    /\ allocs < MaxAllocs /\ occupied # Cells
    /\ iterations' = IF paused THEN iterations ELSE iterations + 1
    /\ phase' = IF paused \/ iterations + 1 < Frequency THEN "allocate"
                ELSE "clear"
    /\ UNCHANGED <<occupied, colour, found, toVisit, cursor, allocs>>
    /\ UNCHANGED <<graphVars, pauseVars, refVars>>

\* Mutant of MarkAllCellUnreachable: the marks of the last collection stay.
MarkAllCellUnreachableNot ==
    /\ phase = "clear"
    /\ phase' = "roots"
    /\ UNCHANGED <<occupied, colour, found, toVisit, cursor, iterations, allocs>>
    /\ UNCHANGED <<graphVars, pauseVars, refVars>>

MarkAllCellUnreachable ==
    /\ phase = "clear"
    /\ colour' = [c \in Cells |-> "white"]
    /\ phase' = "roots"
    /\ UNCHANGED <<occupied, found, toVisit, cursor, iterations, allocs>>
    /\ UNCHANGED <<graphVars, pauseVars, refVars>>

\* Mutant of CollectRoots: the VM and the interpreter are not asked.
CollectRootsStackOnly ==
    /\ phase = "roots"
    /\ \E extra \in SUBSET occupied :
           /\ found' = extra
           /\ colour' = [c \in Cells |-> IF c \in extra THEN "grey"
                                         ELSE colour[c]]
           /\ toVisit' = extra
    /\ phase' = "mark"
    /\ UNCHANGED <<occupied, cursor, iterations, allocs>>
    /\ UNCHANGED <<graphVars, pauseVars, refVars>>

\* collect_roots: the stack is scanned conservatively, so a word that happens
\* to be the address of an occupied cell makes it a root as well; add_root
\* takes a root that is white, and the second time round it is grey.
CollectRoots ==
    /\ phase = "roots"
    /\ \E extra \in SUBSET occupied :
           LET white == {c \in roots \union extra : colour[c] = "white"}
           IN  /\ found' = roots \union extra
               /\ colour' = [c \in Cells |-> IF c \in white THEN "grey"
                                             ELSE colour[c]]
               /\ toVisit' = white
    /\ phase' = "mark"
    /\ UNCHANGED <<occupied, cursor, iterations, allocs>>
    /\ UNCHANGED <<graphVars, pauseVars, refVars>>

\* Mutant of MarkLive: cells that are black already are pushed again.
MarkLiveAgain(c) ==
    /\ phase = "mark" /\ c \in toVisit
    /\ LET new == {d \in edges[c] : colour[d] # "grey"}
       IN  /\ colour' = [d \in Cells |-> IF d \in new THEN "grey"
                                         ELSE IF d = c THEN "black"
                                         ELSE colour[d]]
           /\ toVisit' = (toVisit \ {c}) \union new
    /\ UNCHANGED <<occupied, phase, found, cursor, iterations, allocs>>
    /\ UNCHANGED <<graphVars, pauseVars, refVars>>

\* Mutant of MarkLive: a cell is blackened, its neighbours are overlooked.
MarkLiveShallow(c) ==
    /\ phase = "mark" /\ c \in toVisit
    /\ colour' = [colour EXCEPT ![c] = "black"]
    /\ toVisit' = toVisit \ {c}
    /\ UNCHANGED <<occupied, phase, found, cursor, iterations, allocs>>
    /\ UNCHANGED <<graphVars, pauseVars, refVars>>

\* mark_all_live_objects takes one cell off its stack and blackens it;
\* MarkGCVisitor greys and pushes the neighbours that are white.
MarkLive(c) ==
    /\ phase = "mark" /\ c \in toVisit
    /\ LET new == {d \in edges[c] \ {c} : colour[d] = "white"}
       IN  /\ colour' = [d \in Cells |-> IF d = c THEN "black"
                                         ELSE IF d \in new THEN "grey"
                                         ELSE colour[d]]
           /\ toVisit' = (toVisit \ {c}) \union new
    /\ UNCHANGED <<occupied, phase, found, cursor, iterations, allocs>>
    /\ UNCHANGED <<graphVars, pauseVars, refVars>>

\* Mutant of MarkDone: marking stops with cells left to visit.
MarkDoneEarly ==
    /\ phase = "mark"
    /\ phase' = "sweep"
    /\ cursor' = 1
    /\ UNCHANGED <<occupied, colour, found, toVisit, iterations, allocs>>
    /\ UNCHANGED <<graphVars, pauseVars, refVars>>

MarkDone ==
    /\ phase = "mark" /\ toVisit = {}
    /\ phase' = "sweep"
    /\ cursor' = 1
    /\ UNCHANGED <<occupied, colour, found, toVisit, iterations, allocs>>
    /\ UNCHANGED <<graphVars, pauseVars, refVars>>

\* Mutant of SweepCell: the table of weak references keeps the dead cell.
SweepCellKeepWeakrefs ==
    /\ phase = "sweep" /\ cursor \in Cells
    /\ cursor' = cursor + 1
    /\ IF cursor \in occupied /\ colour[cursor] = "white"
       THEN /\ occupied' = occupied \ {cursor}
            /\ edges' = [edges EXCEPT ![cursor] = {}]
            /\ referent' = [referent EXCEPT ![cursor] = NoRef]
       ELSE UNCHANGED <<occupied, edges, referent>>
    /\ UNCHANGED <<colour, roots, phase, found, toVisit, iterations, weakrefs,
                   stamp, refStamp, allocs>>
    /\ UNCHANGED pauseVars

\* sweep looks at one occupied cell after the other; a white one loses its
\* entry in m_weakrefs, is destroyed, and its slot is free with a new header.
SweepCell ==
    /\ phase = "sweep" /\ cursor \in Cells
    /\ cursor' = cursor + 1
    /\ IF cursor \in occupied /\ colour[cursor] = "white"
       THEN /\ weakrefs' = [weakrefs EXCEPT ![cursor] = {}]
            /\ occupied' = occupied \ {cursor}
            /\ edges' = [edges EXCEPT ![cursor] = {}]
            /\ referent' = [referent EXCEPT ![cursor] = NoRef]
       ELSE UNCHANGED <<weakrefs, occupied, edges, referent>>
    /\ UNCHANGED <<colour, roots, phase, found, toVisit, iterations, stamp,
                   refStamp, allocs>>
    /\ UNCHANGED pauseVars

\* Mutant of SweepDone: the count of allocations is not reset.
SweepDoneNoReset ==
    /\ phase = "sweep" /\ cursor \notin Cells
    /\ phase' = "allocate"
    /\ found' = {} /\ cursor' = 1
    /\ UNCHANGED <<occupied, colour, toVisit, iterations, allocs>>
    /\ UNCHANGED <<graphVars, pauseVars, refVars>>

\* run() returns; the roots it found and its place in the slab were local.
SweepDone ==
    /\ phase = "sweep" /\ cursor \notin Cells
    /\ phase' = "allocate"
    /\ iterations' = 0
    /\ found' = {} /\ cursor' = 1
    /\ UNCHANGED <<occupied, colour, toVisit, allocs>>
    /\ UNCHANGED <<graphVars, pauseVars, refVars>>

\* next_free_chunk
FirstFree == CHOOSE f \in Cells \ occupied : \A g \in Cells \ occupied : f <= g

\* Block::allocate takes the first free slot, allocate_gc gives it a white
\* header, and the constructor stores arguments the caller holds.
SlabAllocate(args) ==
    LET c == FirstFree
    IN  /\ phase = "allocate"
        /\ args \subseteq roots
        /\ occupied' = occupied \union {c}
        /\ colour' = [colour EXCEPT ![c] = "white"]
        /\ edges' = [edges EXCEPT ![c] = args]
        /\ roots' = roots \union {c}
        /\ allocs' = allocs + 1
        /\ stamp' = [stamp EXCEPT ![c] = allocs + 1]
        /\ phase' = "mutator"
        /\ UNCHANGED <<found, toVisit, cursor, iterations>>
        /\ UNCHANGED pauseVars

Allocate(args) ==
    /\ SlabAllocate(args)
    /\ UNCHANGED <<weakrefs, referent, refStamp>>

\* Mutant of AllocateWeakref: the weak reference is not entered in m_weakrefs.
AllocateWeakrefUnregistered(target, callback) ==
    LET w == FirstFree
    IN  /\ target \in roots
        /\ SlabAllocate(callback)
        /\ referent' = [referent EXCEPT ![w] = target]
        /\ refStamp' = [refStamp EXCEPT ![w] = stamp[target]]
        /\ UNCHANGED weakrefs

\* Heap::allocate_weakref; the callback is the one thing a weak reference
\* reports to the collector.
AllocateWeakref(target, callback) ==
    LET w == FirstFree
    IN  /\ target \in roots
        /\ SlabAllocate(callback)
        /\ weakrefs' = [weakrefs EXCEPT ![target] = @ \union {w}]
        /\ referent' = [referent EXCEPT ![w] = target]
        /\ refStamp' = [refStamp EXCEPT ![w] = stamp[target]]

-----------------------------------------------------------------------------
\* Heap::has_weakref_object on the m_object of a weak reference
IsAlive(w) == referent[w] \in Cells /\ weakrefs[referent[w]] # {}

\* PyWeakRef::__call__, PyWeakProxy::__getattribute__: is_alive forgets a
\* referent that it finds dead; a live one is handed to the program.
CallWeakref(w) ==
    /\ phase = "mutator"
    /\ w \in roots /\ referent[w] # NoRef
    /\ IF IsAlive(w)
       THEN roots' = roots \union {referent[w]} /\ UNCHANGED referent
       ELSE referent' = [referent EXCEPT ![w] = PyNone] /\ UNCHANGED roots
    /\ UNCHANGED <<occupied, colour, edges, weakrefs, stamp, refStamp, allocs>>
    /\ UNCHANGED <<gcVars, pauseVars>>

-----------------------------------------------------------------------------
Mutator ==
    \/ \E a, b \in Cells : LoadRef(a, b) \/ StoreRef(a, b) \/ ClearRef(a, b)
    \/ \E c \in Cells : DropRoot(c) \/ CallWeakref(c)
    \/ EnterGCPause \/ LeaveGCPause

\* The rest of Heap::allocate once it has been called.
Collector ==
    \/ MarkAllCellUnreachable \/ CollectRoots \/ MarkDone
    \/ SweepCell \/ SweepDone
    \/ \E c \in Cells : MarkLive(c)
    \/ \E args \in SUBSET roots : Allocate(args)
    \/ \E target \in roots : \E callback \in SUBSET roots :
           AllocateWeakref(target, callback)

Next == Mutator \/ CollectGarbage \/ Collector

\* Heap::allocate runs to its end once it is called.
Spec == Init /\ [][Next]_vars /\ WF_vars(Collector)

-----------------------------------------------------------------------------
Colours == {"white", "grey", "black"}
Phases == {"mutator", "clear", "roots", "mark", "sweep", "allocate"}

\* Every variable has its type.
TypeOK ==
    /\ occupied \subseteq Cells
    /\ colour \in [Cells -> Colours]
    /\ edges \in [Cells -> SUBSET Cells]
    /\ roots \subseteq Cells
    /\ phase \in Phases
    /\ found \subseteq Cells
    /\ toVisit \subseteq Cells
    /\ cursor \in 1..(NCells + 1)
    /\ iterations \in 0..Frequency
    /\ paused \in BOOLEAN
    /\ scopes \in Seq(BOOLEAN)
    /\ weakrefs \in [Cells -> SUBSET Cells]
    /\ referent \in [Cells -> Cells \union {NoRef, PyNone}]
    /\ stamp \in [Cells -> 0..MaxAllocs]
    /\ refStamp \in [Cells -> 0..MaxAllocs]
    /\ allocs \in 0..MaxAllocs

\* S holds every cell that a cell of S refers to.
Closed(S) == \A c \in S : edges[c] \subseteq S

\* The cells reachable from a set: those in every closed set around it.
ReachableFrom(from) ==
    {c \in Cells : \A S \in SUBSET Cells : from \subseteq S /\ Closed(S) => c \in S}

\* No cell the program can still reach is ever freed, during a collection or
\* after it.
ReachableIsOccupied == ReachableFrom(roots) \subseteq occupied

\* While marking, no black cell refers to a white one, the stack holds exactly
\* the grey cells (which is what mark_all_live_objects asserts of the cell it
\* takes), and every root has been seen.
TriColour ==
    phase \in {"mark", "sweep"} =>
        /\ toVisit = {c \in Cells : colour[c] = "grey"}
        /\ found \subseteq {c \in Cells : colour[c] # "white"}
        /\ \A c \in Cells : colour[c] = "black" =>
               \A d \in edges[c] : colour[d] # "white"

\* Once marking is done, what will survive is what the roots reach and no
\* more: cyclic garbage goes in the first collection that does not mistake a
\* word on the stack for a reference to it.
OnlyReachableSurvives ==
    phase = "sweep" =>
        {c \in Cells : colour[c] # "white"} = ReachableFrom(found)

\* add_root asserts that no root is black yet.
RootsNotBlack == phase = "roots" => \A c \in Cells : colour[c] # "black"

\* A weak reference never answers with a cell that is free: an address with an
\* entry in m_weakrefs is occupied.
WeakrefsOfOccupied == \A c \in Cells : weakrefs[c] # {} => c \in occupied

\* A weak reference to an object that was not freed is alive.
ReferentAliveIfNotFreed ==
    \A w \in occupied :
        /\ referent[w] \in occupied
        /\ stamp[referent[w]] = refStamp[w]
        => IsAlive(w)

\* Inside a ScopedGCPause, however nested, no collection starts.
PausedInScope ==
    scopes # <<>> => paused /\ phase \in {"mutator", "allocate"}

\* Every allocation returns.
AllocationReturns == phase # "mutator" ~> phase = "mutator"
=============================================================================
