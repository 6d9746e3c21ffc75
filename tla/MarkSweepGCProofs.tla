------------------------- MODULE MarkSweepGCProofs -------------------------
(***************************************************************************)
(* What MarkSweepGC keeps for every heap size, collection frequency and    *)
(* nesting of pauses.  The inductive invariant says what each phase of a   *)
(* collection hands to the next.                                           *)
(***************************************************************************)
EXTENDS MarkSweepGC, TLAPS, SequenceTheorems, WellFoundedInduction

NonWhite == {c \in Cells : colour[c] # "white"}

\* What the program holds is allocated, what allocated cells refer to is
\* allocated (except while sweep is taking garbage apart), and a free slot
\* refers to nothing.
HeapInv ==
    /\ roots \subseteq occupied
    /\ \A c \in Cells \ occupied : edges[c] = {} /\ referent[c] = NoRef
    /\ phase # "sweep" => \A c \in Cells : edges[c] \subseteq occupied
    /\ phase # "mutator" => occupied # Cells

\* From the roots on, the coloured cells are allocated and reachable.
MarkInv ==
    phase \in {"mark", "sweep"} =>
        /\ roots \subseteq found
        /\ NonWhite \subseteq occupied
        /\ NonWhite \subseteq ReachableFrom(found)

\* Behind the cursor of sweep there is no garbage.
SweepInv ==
    phase = "sweep" =>
        /\ toVisit = {}
        /\ \A c \in occupied : c < cursor => colour[c] # "white"

AllWhite == phase = "roots" => \A c \in Cells : colour[c] = "white"

\* The outermost open scope, and only it, will resume the collector.
PauseInv ==
    /\ \A i \in 1..Len(scopes) : scopes[i] <=> i = 1
    /\ paused <=> scopes # <<>>
    /\ phase \in {"clear", "roots", "mark", "sweep"} => ~paused

\* The count of allocations is below the frequency outside a collection,
\* and a call of allocate is within the bound.
CountInv ==
    /\ phase \in {"mutator", "allocate"} => iterations < Frequency
    /\ phase # "mutator" => allocs < MaxAllocs

\* No stamp is ahead of the count of allocations.
StampInv == \A c \in Cells : stamp[c] <= allocs /\ refStamp[c] <= allocs

IInv ==
    /\ TypeOK
    /\ HeapInv
    /\ TriColour
    /\ MarkInv
    /\ SweepInv
    /\ AllWhite
    /\ WeakrefsOfOccupied
    /\ ReferentAliveIfNotFreed
    /\ PauseInv
    /\ CountInv
    /\ StampInv

USE DEF Cells

-----------------------------------------------------------------------------
\* The reachable cells are a closed set around where one starts ...
LEMMA ReachableIsClosed ==
    ASSUME edges \in [Cells -> SUBSET Cells], NEW from \in SUBSET Cells
    PROVE  /\ from \subseteq ReachableFrom(from)
           /\ \A c \in ReachableFrom(from) : edges[c] \subseteq ReachableFrom(from)
<1>1. from \subseteq ReachableFrom(from)
  BY DEF ReachableFrom
<1>2. ASSUME NEW c \in ReachableFrom(from), NEW d \in edges[c]
      PROVE  d \in ReachableFrom(from)
  <2>1. c \in Cells /\ d \in Cells
    BY DEF ReachableFrom
  <2>2. ASSUME NEW S \in SUBSET Cells, from \subseteq S, Closed(S)
        PROVE  d \in S
    BY <2>2 DEF ReachableFrom, Closed
  <2> QED
    BY <2>1, <2>2 DEF ReachableFrom
<1> QED
  BY <1>1, <1>2

\* ... and the smallest one.
LEMMA ReachableIsLeast ==
    ASSUME NEW from, NEW S \in SUBSET Cells, from \subseteq S, Closed(S)
    PROVE  ReachableFrom(from) \subseteq S
  BY DEF ReachableFrom

-----------------------------------------------------------------------------
\* The invariant holds of the empty heap.
LEMMA InitIInv == Init => IInv
<1> SUFFICES ASSUME Init PROVE IInv
  OBVIOUS
<1> USE MarkSweepGCAssumption DEF MarkSweepGCAssumption, Init
<1>1. TypeOK
  <2>1. scopes \in Seq(BOOLEAN)
    <3>1. << >> \in Seq(BOOLEAN)
      OBVIOUS
    <3> QED
      BY <3>1
  <2>6. paused \in BOOLEAN
    BY Zenon
  <2>2. stamp \in [Cells -> 0..MaxAllocs] /\ refStamp \in [Cells -> 0..MaxAllocs]
    OBVIOUS
  <2>3. referent \in [Cells -> Cells \union {NoRef, PyNone}]
    OBVIOUS
  <2>4. cursor \in 1..(NCells + 1) /\ iterations \in 0..Frequency /\ allocs \in 0..MaxAllocs
    OBVIOUS
  <2>5. colour \in [Cells -> Colours] /\ phase \in Phases
    BY DEF Colours, Phases
  <2> QED
    BY <2>1, <2>2, <2>3, <2>4, <2>5, <2>6 DEF TypeOK
<1>2. HeapInv /\ TriColour /\ MarkInv /\ SweepInv /\ AllWhite /\ CountInv
  BY DEF HeapInv, TriColour, MarkInv, SweepInv, AllWhite, CountInv
<1>3. WeakrefsOfOccupied /\ ReferentAliveIfNotFreed /\ StampInv
  BY DEF WeakrefsOfOccupied, ReferentAliveIfNotFreed, StampInv
<1>4. PauseInv
  BY DEF PauseInv
<1> QED
  BY <1>1, <1>2, <1>3, <1>4 DEF IInv

-----------------------------------------------------------------------------
\* What a step of the program leaves alone: collections are not under way.
LEMMA MutatorFrame ==
    ASSUME IInv, phase = "mutator", UNCHANGED <<gcVars, stamp, refStamp, allocs>>
    PROVE  /\ TriColour' /\ MarkInv' /\ SweepInv' /\ AllWhite'
           /\ CountInv' /\ StampInv'
  BY DEF IInv, TriColour, MarkInv, SweepInv, AllWhite, CountInv, StampInv, gcVars

\* The weak references and the pauses when a step does not touch them.
LEMMA RefFrame ==
    ASSUME IInv, UNCHANGED <<occupied, refVars>>
    PROVE  WeakrefsOfOccupied' /\ ReferentAliveIfNotFreed'
  BY DEF IInv, WeakrefsOfOccupied, ReferentAliveIfNotFreed, IsAlive, refVars

LEMMA PauseFrame ==
    ASSUME IInv, UNCHANGED pauseVars,
           \/ phase' \in {"mutator", "allocate"}
           \/ phase \in {"clear", "roots", "mark", "sweep"}
           \/ ~paused
    PROVE  PauseInv'
  BY DEF IInv, PauseInv, pauseVars

\* Loading, storing, clearing and dropping references keeps the invariant.
LEMMA LoadRefKeeps ==
    ASSUME IInv, NEW a \in Cells, NEW b \in Cells, LoadRef(a, b)
    PROVE  IInv'
<1>1. TypeOK'
  BY DEF IInv, TypeOK, LoadRef, gcVars, pauseVars, refVars
<1>2. HeapInv'
  BY DEF IInv, TypeOK, HeapInv, LoadRef, gcVars, refVars
<1>3. WeakrefsOfOccupied' /\ ReferentAliveIfNotFreed' /\ PauseInv'
  BY RefFrame, PauseFrame DEF LoadRef, gcVars, refVars
<1>4. TriColour' /\ MarkInv' /\ SweepInv' /\ AllWhite' /\ CountInv' /\ StampInv'
  BY MutatorFrame DEF LoadRef, refVars
<1> QED
  BY <1>1, <1>2, <1>3, <1>4 DEF IInv

LEMMA StoreRefKeeps ==
    ASSUME IInv, NEW a \in Cells, NEW b \in Cells, StoreRef(a, b)
    PROVE  IInv'
<1>1. TypeOK'
  BY DEF IInv, TypeOK, StoreRef, gcVars, pauseVars, refVars
<1>2. HeapInv'
  BY DEF IInv, TypeOK, HeapInv, StoreRef, gcVars, refVars
<1>3. WeakrefsOfOccupied' /\ ReferentAliveIfNotFreed' /\ PauseInv'
  BY RefFrame, PauseFrame DEF StoreRef, gcVars, refVars
<1>4. TriColour' /\ MarkInv' /\ SweepInv' /\ AllWhite' /\ CountInv' /\ StampInv'
  BY MutatorFrame DEF StoreRef, refVars
<1> QED
  BY <1>1, <1>2, <1>3, <1>4 DEF IInv

LEMMA ClearRefKeeps ==
    ASSUME IInv, NEW a \in Cells, NEW b \in Cells, ClearRef(a, b)
    PROVE  IInv'
<1>1. TypeOK'
  BY DEF IInv, TypeOK, ClearRef, gcVars, pauseVars, refVars
<1>2. HeapInv'
  BY DEF IInv, TypeOK, HeapInv, ClearRef, gcVars, refVars
<1>3. WeakrefsOfOccupied' /\ ReferentAliveIfNotFreed' /\ PauseInv'
  BY RefFrame, PauseFrame DEF ClearRef, gcVars, refVars
<1>4. TriColour' /\ MarkInv' /\ SweepInv' /\ AllWhite' /\ CountInv' /\ StampInv'
  BY MutatorFrame DEF ClearRef, refVars
<1> QED
  BY <1>1, <1>2, <1>3, <1>4 DEF IInv

LEMMA DropRootKeeps ==
    ASSUME IInv, NEW c \in Cells, DropRoot(c)
    PROVE  IInv'
<1>1. TypeOK'
  BY DEF IInv, TypeOK, DropRoot, gcVars, pauseVars, refVars
<1>2. HeapInv'
  BY DEF IInv, TypeOK, HeapInv, DropRoot, gcVars, refVars
<1>3. WeakrefsOfOccupied' /\ ReferentAliveIfNotFreed' /\ PauseInv'
  BY RefFrame, PauseFrame DEF DropRoot, gcVars, refVars
<1>4. TriColour' /\ MarkInv' /\ SweepInv' /\ AllWhite' /\ CountInv' /\ StampInv'
  BY MutatorFrame DEF DropRoot, refVars
<1> QED
  BY <1>1, <1>2, <1>3, <1>4 DEF IInv

\* Following a weak reference hands out an allocated cell or none.
LEMMA CallWeakrefKeeps ==
    ASSUME IInv, NEW w \in Cells, CallWeakref(w)
    PROVE  IInv'
<1>1. TypeOK'
  BY DEF IInv, TypeOK, CallWeakref, IsAlive, gcVars, pauseVars
<1>2. HeapInv'
  <2>1. roots' \subseteq occupied'
    <3>1. CASE IsAlive(w)
      <4>1. referent[w] \in occupied
        BY <3>1 DEF IInv, WeakrefsOfOccupied, IsAlive
      <4> QED
        BY <3>1, <4>1 DEF IInv, HeapInv, CallWeakref
    <3>2. CASE ~IsAlive(w)
      BY <3>2 DEF IInv, HeapInv, CallWeakref
    <3> QED
      BY <3>1, <3>2
  <2>2. \A c \in Cells \ occupied' : edges'[c] = {} /\ referent'[c] = NoRef
    BY DEF IInv, TypeOK, HeapInv, CallWeakref
  <2> QED
    BY <2>1, <2>2 DEF IInv, HeapInv, CallWeakref, gcVars
<1>3. WeakrefsOfOccupied'
  BY DEF IInv, WeakrefsOfOccupied, CallWeakref
<1>4. ReferentAliveIfNotFreed'
  <2>1. CASE IsAlive(w)
    BY <2>1 DEF IInv, ReferentAliveIfNotFreed, CallWeakref, IsAlive
  <2>2. CASE ~IsAlive(w)
    <3>1. PyNone \notin occupied
      BY MarkSweepGCAssumption DEF IInv, TypeOK, MarkSweepGCAssumption
    <3>2. \A u \in occupied : referent'[u] = IF u = w THEN PyNone ELSE referent[u]
      BY <2>2 DEF IInv, TypeOK, CallWeakref
    <3>3. UNCHANGED <<occupied, stamp, refStamp, weakrefs>>
      BY DEF CallWeakref
    <3> QED
      BY <3>1, <3>2, <3>3 DEF IInv, ReferentAliveIfNotFreed, IsAlive
  <2> QED
    BY <2>1, <2>2
<1>5. PauseInv'
  BY PauseFrame DEF CallWeakref, gcVars
<1>6. TriColour' /\ MarkInv' /\ SweepInv' /\ AllWhite' /\ CountInv' /\ StampInv'
  BY MutatorFrame DEF CallWeakref
<1> QED
  BY <1>1, <1>2, <1>3, <1>4, <1>5, <1>6 DEF IInv

-----------------------------------------------------------------------------
\* The stack of pauses: only the bottom element will resume the collector.
LEMMA EnterGCPauseKeeps ==
    ASSUME IInv, EnterGCPause
    PROVE  IInv'
<1> DEFINE n == Len(scopes)
<1>1. scopes \in Seq(BOOLEAN) /\ n \in Nat /\ paused \in BOOLEAN
  BY DEF IInv, TypeOK
<1>2. (~paused) \in BOOLEAN
  BY <1>1, Zenon
<1>3. /\ scopes' \in Seq(BOOLEAN)
      /\ Len(scopes') = n + 1
      /\ \A i \in 1..n : scopes'[i] = scopes[i]
      /\ scopes'[n + 1] = ~paused
  BY <1>1, <1>2 DEF EnterGCPause
<1>4. paused' \in BOOLEAN
  BY Zenon DEF EnterGCPause
<1>5. TypeOK'
  BY <1>3, <1>4 DEF IInv, TypeOK, EnterGCPause, graphVars, gcVars, refVars
<1>6. PauseInv'
  <2>1. CASE scopes = << >>
    <3>1. n = 0 /\ ~paused
      BY <2>1 DEF IInv, PauseInv
    <3>2. Len(scopes') = 1 /\ scopes'[1]
      BY <1>3, <3>1
    <3>3. \A i \in 1..Len(scopes') : scopes'[i] <=> i = 1
      BY <3>2
    <3>4. scopes' # << >>
      BY <3>2
    <3> QED
      BY <3>3, <3>4 DEF PauseInv, EnterGCPause, gcVars
  <2>2. CASE scopes # << >>
    <3>1. n > 0 /\ paused
      BY <1>1, <2>2 DEF IInv, PauseInv
    <3>2. \A i \in 1..(n + 1) : scopes'[i] <=> i = 1
      BY <1>1, <1>3, <3>1 DEF IInv, PauseInv
    <3>3. scopes' # << >>
      BY <1>1, <1>3
    <3> QED
      BY <1>3, <3>2, <3>3 DEF IInv, PauseInv, EnterGCPause, gcVars
  <2> QED
    BY <2>1, <2>2
<1>7. HeapInv'
  BY DEF IInv, HeapInv, EnterGCPause, graphVars, gcVars, refVars
<1>8. WeakrefsOfOccupied' /\ ReferentAliveIfNotFreed'
  BY RefFrame DEF EnterGCPause
<1>9. TriColour' /\ MarkInv' /\ SweepInv' /\ AllWhite' /\ CountInv' /\ StampInv'
  BY MutatorFrame DEF EnterGCPause, refVars
<1> QED
  BY <1>5, <1>6, <1>7, <1>8, <1>9 DEF IInv

LEMMA PopProperties ==
    ASSUME NEW T, NEW s \in Seq(T), Len(s) > 0
    PROVE  /\ SubSeq(s, 1, Len(s) - 1) \in Seq(T)
           /\ Len(SubSeq(s, 1, Len(s) - 1)) = Len(s) - 1
           /\ \A i \in 1..(Len(s) - 1) : SubSeq(s, 1, Len(s) - 1)[i] = s[i]
<1> DEFINE m == Len(s) - 1
<1>1. m \in Nat /\ \A i \in 1..m : s[i] \in T
  OBVIOUS
<1> HIDE DEF m
<1>2. /\ SubSeq(s, 1, m) \in Seq(T)
      /\ Len(SubSeq(s, 1, m)) = m
      /\ \A i \in 1..m : SubSeq(s, 1, m)[i] = s[i]
  BY <1>1, SubSeqProperties
<1> QED
  BY <1>2 DEF m

LEMMA LeaveGCPauseKeeps ==
    ASSUME IInv, LeaveGCPause
    PROVE  IInv'
<1> DEFINE n == Len(scopes)
<1>1. scopes \in Seq(BOOLEAN) /\ n \in Nat /\ n > 0
  BY DEF IInv, TypeOK, LeaveGCPause
<1>2. n = 1 \/ n > 1
  <2>1. n \in Nat /\ n > 0
    BY <1>1
  <2> HIDE DEF n
  <2> QED
    BY <2>1
<1>3. /\ scopes' \in Seq(BOOLEAN)
      /\ Len(scopes') = n - 1
      /\ \A i \in 1..(n - 1) : scopes'[i] = scopes[i]
  BY <1>1, PopProperties DEF LeaveGCPause
<1>4. paused' \in BOOLEAN
  BY Zenon DEF LeaveGCPause
<1>5. TypeOK'
  BY <1>3, <1>4 DEF IInv, TypeOK, LeaveGCPause, graphVars, gcVars, refVars
<1>6. PauseInv'
  <2>0. paused /\ \A i \in 1..n : scopes[i] <=> i = 1
    BY DEF IInv, PauseInv, LeaveGCPause
  <2>1. CASE n = 1
    <3>1. scopes' = << >>
      BY <1>3, <2>1
    <3>3. scopes[Len(scopes)]
      BY <2>0, <2>1
    <3>2. ~paused'
      BY <3>3, Zenon DEF LeaveGCPause
    <3> QED
      BY <3>1, <3>2 DEF PauseInv
  <2>2. CASE n > 1
    <3>1. ~scopes[n]
      BY <1>1, <2>0, <2>2
    <3>2. paused'
      BY <2>0, <3>1 DEF LeaveGCPause
    <3>3. \A i \in 1..(n - 1) : scopes'[i] <=> i = 1
      BY <1>1, <1>3, <2>0
    <3>4. scopes' # << >>
      BY <1>1, <1>3, <2>2
    <3> QED
      BY <1>3, <3>2, <3>3, <3>4 DEF IInv, PauseInv, LeaveGCPause, gcVars
  <2> QED
    BY <1>2, <2>1, <2>2
<1>7. HeapInv'
  BY DEF IInv, HeapInv, LeaveGCPause, graphVars, gcVars, refVars
<1>8. WeakrefsOfOccupied' /\ ReferentAliveIfNotFreed'
  BY RefFrame DEF LeaveGCPause
<1>9. TriColour' /\ MarkInv' /\ SweepInv' /\ AllWhite' /\ CountInv' /\ StampInv'
  BY MutatorFrame DEF LeaveGCPause, refVars
<1> QED
  BY <1>5, <1>6, <1>7, <1>8, <1>9 DEF IInv

-----------------------------------------------------------------------------
\* A collection starts from a heap without dangling references.
LEMMA CollectGarbageKeeps ==
    ASSUME IInv, CollectGarbage
    PROVE  IInv'
<1> USE MarkSweepGCAssumption DEF MarkSweepGCAssumption
<1>1. TypeOK'
  <2>1. iterations' \in 0..Frequency
    BY DEF IInv, TypeOK, CountInv, CollectGarbage
  <2>2. phase' \in Phases
    BY DEF CollectGarbage, Phases
  <2> QED
    BY <2>1, <2>2 DEF IInv, TypeOK, CollectGarbage, graphVars, pauseVars, refVars
<1>2. phase' \in {"allocate", "clear"}
  BY DEF CollectGarbage
<1>3. HeapInv'
  BY <1>2 DEF IInv, HeapInv, CollectGarbage, graphVars, refVars
<1>4. TriColour' /\ MarkInv' /\ SweepInv' /\ AllWhite'
  BY <1>2 DEF TriColour, MarkInv, SweepInv, AllWhite
<1>5. WeakrefsOfOccupied' /\ ReferentAliveIfNotFreed'
  BY RefFrame DEF CollectGarbage
<1>6. PauseInv'
  BY PauseFrame DEF CollectGarbage
<1>7. CountInv'
  BY DEF IInv, TypeOK, CountInv, CollectGarbage
<1>8. StampInv'
  BY DEF IInv, StampInv, CollectGarbage, refVars
<1> QED
  BY <1>1, <1>3, <1>4, <1>5, <1>6, <1>7, <1>8 DEF IInv

LEMMA MarkAllCellUnreachableKeeps ==
    ASSUME IInv, MarkAllCellUnreachable
    PROVE  IInv'
<1>1. TypeOK'
  BY DEF IInv, TypeOK, MarkAllCellUnreachable, Colours, Phases, graphVars, pauseVars, refVars
<1>2. HeapInv'
  BY DEF IInv, HeapInv, MarkAllCellUnreachable, graphVars, refVars
<1>3. TriColour' /\ MarkInv' /\ SweepInv' /\ AllWhite'
  BY DEF TriColour, MarkInv, SweepInv, AllWhite, MarkAllCellUnreachable
<1>4. WeakrefsOfOccupied' /\ ReferentAliveIfNotFreed' /\ PauseInv'
  BY RefFrame, PauseFrame DEF MarkAllCellUnreachable
<1>5. CountInv' /\ StampInv'
  BY DEF IInv, CountInv, StampInv, MarkAllCellUnreachable, refVars
<1> QED
  BY <1>1, <1>2, <1>3, <1>4, <1>5 DEF IInv

\* After collect_roots exactly the roots are grey and the rest is white.
LEMMA CollectRootsKeeps ==
    ASSUME IInv, CollectRoots
    PROVE  IInv'
<1>1. PICK extra \in SUBSET occupied :
          /\ found' = roots \union extra
          /\ colour' = [c \in Cells |-> IF c \in found' THEN "grey" ELSE "white"]
          /\ toVisit' = found'
  <2>1. /\ roots \subseteq Cells /\ occupied \subseteq Cells
        /\ \A c \in Cells : colour[c] = "white"
    BY DEF CollectRoots, IInv, AllWhite, TypeOK
  <2>2. PICK extra \in SUBSET occupied :
            LET white == {c \in roots \union extra : colour[c] = "white"}
            IN  /\ found' = roots \union extra
                /\ colour' = [c \in Cells |-> IF c \in white THEN "grey" ELSE colour[c]]
                /\ toVisit' = white
    BY DEF CollectRoots
  <2>3. {c \in roots \union extra : colour[c] = "white"} = roots \union extra
    BY <2>1
  <2>4. /\ found' = roots \union extra /\ toVisit' = found'
        /\ colour' = [c \in Cells |-> IF c \in found' THEN "grey" ELSE colour[c]]
    BY <2>2, <2>3
  <2>5. colour' = [c \in Cells |-> IF c \in found' THEN "grey" ELSE "white"]
    BY <2>1, <2>4
  <2> QED
    BY <2>4, <2>5
<1>2. phase = "roots" /\ phase' = "mark"
      /\ UNCHANGED <<occupied, cursor, iterations, allocs>>
      /\ UNCHANGED <<graphVars, pauseVars, refVars>>
  BY DEF CollectRoots
<1>3. found' \subseteq occupied /\ found' \subseteq Cells
  BY <1>1 DEF IInv, TypeOK, HeapInv
<1>4. TypeOK'
  BY <1>1, <1>2, <1>3 DEF IInv, TypeOK, Colours, Phases, graphVars, pauseVars, refVars
<1>5. HeapInv'
  BY <1>2 DEF IInv, HeapInv, graphVars, refVars
<1>6. NonWhite' = found'
  BY <1>1, <1>3 DEF NonWhite
<1>7. TriColour'
  BY <1>1, <1>2, <1>3 DEF TriColour
<1>8. MarkInv'
  <2>1. found' \subseteq ReachableFrom(found)'
    BY <1>3 DEF ReachableFrom
  <2> QED
    BY <1>1, <1>2, <1>3, <1>6, <2>1 DEF MarkInv, graphVars
<1>9. SweepInv' /\ AllWhite'
  BY <1>2 DEF SweepInv, AllWhite
<1>10. WeakrefsOfOccupied' /\ ReferentAliveIfNotFreed' /\ PauseInv'
  BY <1>2, RefFrame, PauseFrame
<1>11. CountInv' /\ StampInv'
  BY <1>2 DEF IInv, CountInv, StampInv, refVars
<1> QED
  BY <1>4, <1>5, <1>7, <1>8, <1>9, <1>10, <1>11 DEF IInv

\* One cell is blackened and its white neighbours greyed: they are reachable
\* because the cell is, and allocated because the heap is closed.
LEMMA MarkLiveKeeps ==
    ASSUME IInv, NEW c \in Cells, MarkLive(c)
    PROVE  IInv'
<1> DEFINE new == {d \in edges[c] \ {c} : colour[d] = "white"}
<1>1. /\ phase = "mark" /\ phase' = "mark" /\ c \in toVisit
      /\ colour' = [d \in Cells |-> IF d = c THEN "black"
                                    ELSE IF d \in new THEN "grey" ELSE colour[d]]
      /\ toVisit' = (toVisit \ {c}) \union new
      /\ UNCHANGED <<occupied, phase, found, cursor, iterations, allocs>>
      /\ UNCHANGED <<graphVars, pauseVars, refVars>>
  BY DEF MarkLive
<1>2. new \subseteq Cells /\ new \subseteq edges[c] /\ c \notin new
  BY DEF IInv, TypeOK
<1>3. colour[c] = "grey" /\ c \in NonWhite
  BY <1>1 DEF IInv, TriColour, NonWhite
<1>4. NonWhite' = NonWhite \union new
  BY <1>1, <1>2, <1>3 DEF NonWhite, IInv, TypeOK, Colours
<1>5. TypeOK'
  <2>1. colour' \in [Cells -> Colours]
    BY <1>1 DEF IInv, TypeOK, Colours
  <2> QED
    BY <1>1, <1>2, <2>1 DEF IInv, TypeOK, graphVars, pauseVars, refVars
<1>6. HeapInv'
  BY <1>1 DEF IInv, HeapInv, graphVars, refVars
<1>7. TriColour'
  <2>1. toVisit' = {d \in Cells : colour'[d] = "grey"}
    BY <1>1, <1>2, <1>3 DEF IInv, TriColour, TypeOK
  <2>2. found' \subseteq {d \in Cells : colour'[d] # "white"}
    BY <1>1, <1>2 DEF IInv, TriColour, TypeOK
  <2>3. ASSUME NEW d \in Cells, colour'[d] = "black", NEW e \in edges'[d]
        PROVE  colour'[e] # "white"
    <3>1. e \in edges[d] /\ e \in Cells
      BY <1>1 DEF IInv, TypeOK, graphVars
    <3>2. CASE d = c
      BY <1>1, <3>1, <3>2
    <3>3. CASE d # c
      <4>1. colour[d] = "black"
        BY <1>1, <2>3, <3>3
      <4>2. colour[e] # "white"
        BY <1>1, <3>1, <4>1 DEF IInv, TriColour
      <4> QED
        BY <1>1, <3>1, <4>2
    <3> QED
      BY <3>2, <3>3
  <2> QED
    BY <2>1, <2>2, <2>3 DEF TriColour
<1>8. MarkInv'
  <2>1. ReachableFrom(found)' = ReachableFrom(found)
    BY <1>1 DEF ReachableFrom, Closed, graphVars
  <2>2. c \in ReachableFrom(found)
    BY <1>1, <1>3 DEF IInv, MarkInv
  <2>3. edges[c] \subseteq ReachableFrom(found)
    BY <2>2, ReachableIsClosed DEF IInv, TypeOK
  <2>4. edges[c] \subseteq occupied
    BY <1>1 DEF IInv, HeapInv
  <2> QED
    BY <1>1, <1>2, <1>4, <2>1, <2>3, <2>4 DEF IInv, MarkInv, graphVars
<1>9. SweepInv' /\ AllWhite'
  BY <1>1 DEF SweepInv, AllWhite
<1>10. WeakrefsOfOccupied' /\ ReferentAliveIfNotFreed' /\ PauseInv'
  BY <1>1, RefFrame, PauseFrame
<1>11. CountInv' /\ StampInv'
  BY <1>1 DEF IInv, CountInv, StampInv, refVars
<1> QED
  BY <1>5, <1>6, <1>7, <1>8, <1>9, <1>10, <1>11 DEF IInv

LEMMA MarkDoneKeeps ==
    ASSUME IInv, MarkDone
    PROVE  IInv'
<1> USE MarkSweepGCAssumption DEF MarkSweepGCAssumption
<1>1. TypeOK'
  <2>1. cursor' \in 1..(NCells + 1) /\ phase' \in Phases
    BY DEF MarkDone, Phases
  <2> QED
    BY <2>1 DEF IInv, TypeOK, MarkDone, graphVars, pauseVars, refVars
<1>2. HeapInv'
  BY DEF IInv, HeapInv, MarkDone, graphVars, refVars
<1>3. TriColour' /\ SweepInv' /\ AllWhite'
  BY DEF IInv, TypeOK, TriColour, SweepInv, AllWhite, MarkDone, graphVars
<1>4. MarkInv'
  <2>1. ReachableFrom(found)' = ReachableFrom(found)
    BY DEF ReachableFrom, Closed, MarkDone, graphVars
  <2> QED
    BY <2>1 DEF IInv, MarkInv, NonWhite, MarkDone, graphVars
<1>5. WeakrefsOfOccupied' /\ ReferentAliveIfNotFreed' /\ PauseInv'
  BY RefFrame, PauseFrame DEF MarkDone
<1>6. CountInv' /\ StampInv'
  BY DEF IInv, CountInv, StampInv, MarkDone, refVars
<1> QED
  BY <1>1, <1>2, <1>3, <1>4, <1>5, <1>6 DEF IInv

\* Freeing a white cell: nothing that is coloured refers to it, so the closed
\* sets around the roots stay closed when its own references go.
LEMMA SweepCellKeeps ==
    ASSUME IInv, SweepCell
    PROVE  IInv'
<1> USE MarkSweepGCAssumption DEF MarkSweepGCAssumption
<1>0. /\ phase = "sweep" /\ phase' = "sweep" /\ cursor \in Cells /\ cursor' = cursor + 1
      /\ UNCHANGED <<colour, roots, phase, found, toVisit, iterations, stamp, refStamp, allocs>>
      /\ UNCHANGED pauseVars
  BY DEF SweepCell
<1>1. CountInv' /\ StampInv' /\ AllWhite'
  BY <1>0 DEF IInv, CountInv, StampInv, AllWhite
<1>2. PauseInv'
  BY <1>0, PauseFrame
<1>5. cursor' \in 1..(NCells + 1)
  BY <1>0
<1>3. CASE cursor \in occupied /\ colour[cursor] = "white"
  <2>1. /\ weakrefs' = [weakrefs EXCEPT ![cursor] = {}]
        /\ occupied' = occupied \ {cursor}
        /\ edges' = [edges EXCEPT ![cursor] = {}]
        /\ referent' = [referent EXCEPT ![cursor] = NoRef]
    BY <1>3 DEF SweepCell
  <2>2. cursor \notin NonWhite /\ NonWhite' = NonWhite
    BY <1>0, <1>3 DEF NonWhite
  <2>3. found \subseteq NonWhite /\ NonWhite \subseteq Cells
    BY <1>0 DEF IInv, TriColour, NonWhite
  <2>4. TypeOK'
    BY <1>0, <1>5, <2>1 DEF IInv, TypeOK, pauseVars
  <2>5. HeapInv'
    <3>1. roots' \subseteq occupied'
      BY <1>0, <2>1, <2>2, <2>3 DEF IInv, HeapInv, MarkInv
    <3>2. \A d \in Cells \ occupied' : edges'[d] = {} /\ referent'[d] = NoRef
      BY <2>1 DEF IInv, TypeOK, HeapInv
    <3>3. occupied' # Cells
      BY <1>0, <2>1
    <3> QED
      BY <1>0, <3>1, <3>2, <3>3 DEF HeapInv
  <2>6. TriColour'
    BY <1>0, <2>1 DEF IInv, TypeOK, TriColour
  <2>7. \A d \in NonWhite : edges'[d] = edges[d] /\ edges[d] \subseteq NonWhite
    <3>1. toVisit = {}
      BY <1>0 DEF IInv, SweepInv
    <3>2. \A d \in NonWhite : colour[d] = "black"
      BY <1>0, <3>1 DEF IInv, TriColour, TypeOK, Colours, NonWhite
    <3> QED
      BY <1>0, <2>1, <2>2, <3>2 DEF IInv, TriColour, TypeOK, NonWhite
  <2>8. MarkInv'
    <3>1. ASSUME NEW d \in NonWhite, NEW S \in SUBSET Cells,
                 found' \subseteq S, Closed(S)'
          PROVE  d \in S
      <4>1. found \subseteq S \cap NonWhite
        BY <1>0, <2>3, <3>1
      <4>2. Closed(S \cap NonWhite)
        BY <2>7, <3>1 DEF Closed
      <4>3. d \in ReachableFrom(found)
        BY <1>0 DEF IInv, MarkInv
      <4>4. S \cap NonWhite \in SUBSET Cells
        OBVIOUS
      <4> QED
        BY <4>1, <4>2, <4>3, <4>4 DEF ReachableFrom
    <3>2. NonWhite' \subseteq ReachableFrom(found)'
      BY <2>2, <2>3, <3>1 DEF ReachableFrom
    <3>3. NonWhite' \subseteq occupied'
      BY <1>0, <2>1, <2>2 DEF IInv, MarkInv
    <3> QED
      BY <1>0, <3>2, <3>3 DEF IInv, MarkInv
  <2>9. SweepInv'
    BY <1>0, <2>1 DEF IInv, TypeOK, SweepInv
  <2>10. WeakrefsOfOccupied'
    BY <2>1 DEF IInv, TypeOK, WeakrefsOfOccupied
  <2>11. ReferentAliveIfNotFreed'
    BY <1>0, <2>1 DEF IInv, TypeOK, ReferentAliveIfNotFreed, IsAlive
  <2> QED
    BY <1>1, <1>2, <2>4, <2>5, <2>6, <2>8, <2>9, <2>10, <2>11 DEF IInv
<1>4. CASE ~(cursor \in occupied /\ colour[cursor] = "white")
  <2>1. UNCHANGED <<weakrefs, occupied, edges, referent>>
    BY <1>4 DEF SweepCell
  <2>2. TypeOK'
    BY <1>0, <1>5, <2>1 DEF IInv, TypeOK, pauseVars
  <2>3. HeapInv' /\ TriColour'
    BY <1>0, <2>1 DEF IInv, HeapInv, TriColour
  <2>4. MarkInv'
    <3>1. ReachableFrom(found)' = ReachableFrom(found)
      BY <1>0, <2>1 DEF ReachableFrom, Closed
    <3> QED
      BY <1>0, <2>1, <3>1 DEF IInv, MarkInv, NonWhite
  <2>5. SweepInv'
    BY <1>0, <1>4, <2>1 DEF IInv, TypeOK, SweepInv
  <2>6. WeakrefsOfOccupied' /\ ReferentAliveIfNotFreed'
    BY <1>0, <2>1, RefFrame DEF refVars
  <2> QED
    BY <1>1, <1>2, <2>2, <2>3, <2>4, <2>5, <2>6 DEF IInv
<1> QED
  BY <1>3, <1>4

\* When sweep is done, what is left is coloured, hence closed: no allocated
\* cell refers to a free slot.
LEMMA SweepDoneKeeps ==
    ASSUME IInv, SweepDone
    PROVE  IInv'
<1> USE MarkSweepGCAssumption DEF MarkSweepGCAssumption
<1>1. /\ phase = "sweep" /\ phase' = "allocate" /\ iterations' = 0 /\ cursor \notin Cells
      /\ found' = {} /\ cursor' = 1
      /\ UNCHANGED <<occupied, colour, toVisit, allocs>>
      /\ UNCHANGED <<graphVars, pauseVars, refVars>>
  BY DEF SweepDone
<1>2. TypeOK'
  <2>1. iterations' \in 0..Frequency /\ cursor' \in 1..(NCells + 1)
    BY <1>1
  <2> QED
    BY <1>1, <2>1 DEF IInv, TypeOK, Phases, graphVars, pauseVars, refVars
<1>3. \A c \in occupied : colour[c] # "white"
  <2>1. cursor \in 1..(NCells + 1) /\ occupied \subseteq Cells
    BY DEF IInv, TypeOK
  <2>2. \A c \in Cells : c < cursor
    BY <1>1, <2>1
  <2> QED
    BY <1>1, <2>1, <2>2 DEF IInv, SweepInv
<1>4. \A c \in Cells : edges[c] \subseteq occupied
  <2>1. ASSUME NEW c \in occupied PROVE edges[c] \subseteq occupied
    <3>1. c \in Cells /\ toVisit = {}
      BY <1>1 DEF IInv, TypeOK, SweepInv
    <3>2. colour[c] = "black"
      BY <1>1, <1>3, <3>1 DEF IInv, TriColour, TypeOK, Colours
    <3>3. edges[c] \subseteq NonWhite
      BY <1>1, <3>1, <3>2 DEF IInv, TriColour, TypeOK, NonWhite
    <3> QED
      BY <1>1, <3>3 DEF IInv, MarkInv
  <2> QED
    BY <2>1 DEF IInv, HeapInv
<1>5. HeapInv'
  BY <1>1, <1>4 DEF IInv, HeapInv, graphVars, refVars
<1>6. TriColour' /\ MarkInv' /\ SweepInv' /\ AllWhite'
  BY <1>1 DEF TriColour, MarkInv, SweepInv, AllWhite
<1>7. WeakrefsOfOccupied' /\ ReferentAliveIfNotFreed' /\ PauseInv'
  BY <1>1, RefFrame, PauseFrame
<1>8. CountInv' /\ StampInv'
  BY <1>1 DEF IInv, CountInv, StampInv, refVars
<1> QED
  BY <1>2, <1>5, <1>6, <1>7, <1>8 DEF IInv

-----------------------------------------------------------------------------
\* A slab that is not full has a first free slot.
LEMMA FirstFreeIsFree ==
    ASSUME NCells \in Nat, occupied \subseteq Cells, occupied # Cells
    PROVE  FirstFree \in Cells \ occupied
<1> DEFINE R == OpToRel(<, Nat)
           F == Cells \ occupied
<1>1. IsWellFoundedOn(R, Nat)
  BY NatLessThanWellFounded, Zenon
<1>2. \A f, g \in Nat : <<f, g>> \in R <=> f < g
  BY DEF OpToRel
<1>3. F \subseteq Nat /\ F # {}
  <2>1. F \subseteq Nat
    OBVIOUS
  <2>2. \E f \in Cells : f \notin occupied
    OBVIOUS
  <2> QED
    BY <2>1, <2>2
<1> HIDE DEF R, F
<1>4. \E f \in F : \A g \in F : ~ (<<g, f>> \in R)
  BY <1>1, <1>3, WFMin
<1>5. PICK f \in F : \A g \in F : ~ (<<g, f>> \in R)
  BY <1>4
<1>6. ASSUME NEW g \in F PROVE f <= g
  <2>1. f \in Nat /\ g \in Nat
    BY <1>3
  <2>2. ~ (g < f)
    BY <1>2, <1>5, <2>1
  <2> QED
    BY <2>1, <2>2
<1>7. \E h \in Cells \ occupied : \A g \in Cells \ occupied : h <= g
  BY <1>6 DEF F
<1> QED
  BY <1>7, Zenon DEF FirstFree

\* What the two ways to allocate have in common.
LEMMA SlabAllocateKeeps ==
    ASSUME IInv, NEW args, SlabAllocate(args),
           \A d \in Cells \ {FirstFree} : referent'[d] = referent[d]
    PROVE  /\ FirstFree \in Cells \ occupied
           /\ HeapInv' /\ TriColour' /\ MarkInv' /\ SweepInv' /\ AllWhite'
           /\ PauseInv' /\ CountInv'
           /\ occupied' \subseteq Cells
           /\ colour' \in [Cells -> Colours]
           /\ edges' \in [Cells -> SUBSET Cells]
           /\ roots' \subseteq Cells
           /\ phase' \in Phases
           /\ stamp' \in [Cells -> 0..MaxAllocs]
           /\ allocs' \in 0..MaxAllocs
<1> DEFINE c == FirstFree
<1>1. c \in Cells \ occupied
  BY FirstFreeIsFree, MarkSweepGCAssumption
  DEF IInv, TypeOK, HeapInv, SlabAllocate, MarkSweepGCAssumption
<1>2. /\ phase = "allocate" /\ phase' = "mutator"
      /\ args \subseteq roots
      /\ occupied' = occupied \union {c}
      /\ colour' = [colour EXCEPT ![c] = "white"]
      /\ edges' = [edges EXCEPT ![c] = args]
      /\ roots' = roots \union {c}
      /\ allocs' = allocs + 1
      /\ stamp' = [stamp EXCEPT ![c] = allocs + 1]
      /\ UNCHANGED <<found, toVisit, cursor, iterations>>
      /\ UNCHANGED pauseVars
  BY DEF SlabAllocate
<1> HIDE DEF c
<1>3. TriColour' /\ MarkInv' /\ SweepInv' /\ AllWhite'
  BY <1>2 DEF TriColour, MarkInv, SweepInv, AllWhite
<1>4. PauseInv'
  BY <1>2, PauseFrame
<1>5. CountInv'
  BY <1>2 DEF IInv, CountInv
<1>6. allocs' \in 0..MaxAllocs
  BY <1>2, MarkSweepGCAssumption DEF IInv, TypeOK, CountInv, MarkSweepGCAssumption
<1>7. stamp' \in [Cells -> 0..MaxAllocs]
  BY <1>1, <1>2, <1>6 DEF IInv, TypeOK
<1>8. /\ occupied' \subseteq Cells /\ roots' \subseteq Cells /\ phase' \in Phases
      /\ colour' \in [Cells -> Colours] /\ edges' \in [Cells -> SUBSET Cells]
  BY <1>1, <1>2 DEF IInv, TypeOK, Phases, Colours
<1>9. HeapInv'
  <2>1. roots' \subseteq occupied'
    BY <1>2 DEF IInv, HeapInv
  <2>2. \A d \in Cells \ occupied' : edges'[d] = {} /\ referent'[d] = NoRef
    BY <1>1, <1>2 DEF IInv, HeapInv, TypeOK, c
  <2>3. \A d \in Cells : edges'[d] \subseteq occupied'
    BY <1>1, <1>2 DEF IInv, HeapInv, TypeOK
  <2> QED
    BY <1>2, <2>1, <2>2, <2>3 DEF HeapInv
<1> QED
  BY <1>1, <1>3, <1>4, <1>5, <1>6, <1>7, <1>8, <1>9 DEF c

\* The object in a slot that was free is a new one: no weak reference has its
\* stamp.
LEMMA AllocateKeeps ==
    ASSUME IInv, NEW args, Allocate(args)
    PROVE  IInv'
<1> DEFINE c == FirstFree
<1>0. SlabAllocate(args) /\ UNCHANGED <<weakrefs, referent, refStamp>>
  BY DEF Allocate
<1>1. /\ c \in Cells \ occupied
      /\ HeapInv' /\ TriColour' /\ MarkInv' /\ SweepInv' /\ AllWhite'
      /\ PauseInv' /\ CountInv'
  BY <1>0, SlabAllocateKeeps
<1>2. /\ occupied' \subseteq Cells /\ roots' \subseteq Cells /\ phase' \in Phases
      /\ colour' \in [Cells -> Colours] /\ edges' \in [Cells -> SUBSET Cells]
      /\ stamp' \in [Cells -> 0..MaxAllocs] /\ allocs' \in 0..MaxAllocs
  BY <1>0, SlabAllocateKeeps
<1>3. /\ UNCHANGED <<found, toVisit, cursor, iterations>> /\ UNCHANGED pauseVars
      /\ occupied' = occupied \union {c}
      /\ stamp' = [stamp EXCEPT ![c] = allocs + 1] /\ allocs' = allocs + 1
  BY <1>0 DEF SlabAllocate
<1> HIDE DEF c
<1>4. TypeOK'
  BY <1>0, <1>2, <1>3 DEF IInv, TypeOK, pauseVars
<1>5. StampInv'
  <2>1. ASSUME NEW d \in Cells
        PROVE  stamp'[d] <= allocs + 1 /\ refStamp'[d] <= allocs + 1
    <3>1. /\ allocs \in Nat /\ stamp[d] \in Nat /\ refStamp[d] \in Nat
          /\ stamp[d] <= allocs /\ refStamp[d] <= allocs
      BY DEF IInv, TypeOK, StampInv
    <3>2. stamp'[d] = IF d = c THEN allocs + 1 ELSE stamp[d]
      BY <1>3 DEF IInv, TypeOK
    <3> QED
      BY <1>0, <3>1, <3>2
  <2> QED
    BY <1>3, <2>1 DEF StampInv
<1>6. WeakrefsOfOccupied'
  BY <1>0, <1>3 DEF IInv, WeakrefsOfOccupied
<1>7. ReferentAliveIfNotFreed'
  <2>1. ASSUME NEW w \in occupied', referent'[w] \in occupied',
               stamp'[referent'[w]] = refStamp'[w]
        PROVE  IsAlive(w)'
    <3>1. w \in occupied
      <4>1. referent[w] \in Cells
        BY <1>0, <1>2, <2>1
      <4>2. referent[c] = NoRef
        BY <1>1 DEF IInv, HeapInv
      <4> QED
        BY <1>3, <4>1, <4>2, MarkSweepGCAssumption DEF MarkSweepGCAssumption
    <3>2. w \in Cells /\ refStamp[w] <= allocs /\ refStamp[w] \in Nat /\ allocs \in Nat
      BY <3>1 DEF IInv, TypeOK, StampInv
    <3>3. referent[w] # c
      BY <1>0, <1>1, <1>3, <2>1, <3>2 DEF IInv, TypeOK
    <3>4. referent[w] \in occupied /\ stamp[referent[w]] = refStamp[w]
      BY <1>0, <1>3, <2>1, <3>3 DEF IInv, TypeOK
    <3>5. IsAlive(w)
      BY <3>1, <3>4 DEF IInv, ReferentAliveIfNotFreed
    <3> QED
      BY <1>0, <3>5 DEF IsAlive
  <2> QED
    BY <2>1 DEF ReferentAliveIfNotFreed
<1> QED
  BY <1>1, <1>4, <1>5, <1>6, <1>7 DEF IInv

LEMMA AllocateWeakrefKeeps ==
    ASSUME IInv, NEW target, NEW callback, AllocateWeakref(target, callback)
    PROVE  IInv'
<1> DEFINE c == FirstFree
<1>0. /\ SlabAllocate(callback)
      /\ target \in roots
      /\ weakrefs' = [weakrefs EXCEPT ![target] = @ \union {c}]
      /\ referent' = [referent EXCEPT ![c] = target]
      /\ refStamp' = [refStamp EXCEPT ![c] = stamp[target]]
  BY DEF AllocateWeakref
<1>1. \A d \in Cells \ {c} : referent'[d] = referent[d]
  BY <1>0 DEF IInv, TypeOK
<1>2. /\ c \in Cells \ occupied
      /\ HeapInv' /\ TriColour' /\ MarkInv' /\ SweepInv' /\ AllWhite'
      /\ PauseInv' /\ CountInv'
  BY <1>0, <1>1, SlabAllocateKeeps
<1>3. /\ occupied' \subseteq Cells /\ roots' \subseteq Cells /\ phase' \in Phases
      /\ colour' \in [Cells -> Colours] /\ edges' \in [Cells -> SUBSET Cells]
      /\ stamp' \in [Cells -> 0..MaxAllocs] /\ allocs' \in 0..MaxAllocs
  BY <1>0, <1>1, SlabAllocateKeeps
<1>4. /\ UNCHANGED <<found, toVisit, cursor, iterations>> /\ UNCHANGED pauseVars
      /\ occupied' = occupied \union {c}
      /\ stamp' = [stamp EXCEPT ![c] = allocs + 1] /\ allocs' = allocs + 1
  BY <1>0 DEF SlabAllocate
<1> HIDE DEF c
<1>5. target \in occupied /\ target \in Cells /\ target # c
  BY <1>0, <1>2 DEF IInv, TypeOK, HeapInv
<1>6. TypeOK'
  <2>1. weakrefs' \in [Cells -> SUBSET Cells]
    BY <1>0, <1>2 DEF IInv, TypeOK
  <2>2. referent' \in [Cells -> Cells \union {NoRef, PyNone}]
    BY <1>0, <1>5 DEF IInv, TypeOK
  <2>3. refStamp' \in [Cells -> 0..MaxAllocs]
    BY <1>0, <1>5 DEF IInv, TypeOK
  <2> QED
    BY <1>3, <1>4, <2>1, <2>2, <2>3 DEF IInv, TypeOK, pauseVars
<1>7. StampInv'
  <2>1. ASSUME NEW d \in Cells
        PROVE  stamp'[d] <= allocs + 1 /\ refStamp'[d] <= allocs + 1
    <3>1. /\ allocs \in Nat /\ stamp[d] \in Nat /\ refStamp[d] \in Nat
          /\ stamp[d] <= allocs /\ refStamp[d] <= allocs
          /\ stamp[target] \in Nat /\ stamp[target] <= allocs
      BY <1>5 DEF IInv, TypeOK, StampInv
    <3>2. stamp'[d] = IF d = c THEN allocs + 1 ELSE stamp[d]
      BY <1>4 DEF IInv, TypeOK
    <3>3. refStamp'[d] = IF d = c THEN stamp[target] ELSE refStamp[d]
      BY <1>0 DEF IInv, TypeOK
    <3> QED
      BY <3>1, <3>2, <3>3
  <2> QED
    BY <1>4, <2>1 DEF StampInv
<1>8. WeakrefsOfOccupied'
  BY <1>0, <1>4, <1>5 DEF IInv, TypeOK, WeakrefsOfOccupied
<1>9. ReferentAliveIfNotFreed'
  <2>1. ASSUME NEW w \in occupied', referent'[w] \in occupied',
               stamp'[referent'[w]] = refStamp'[w]
        PROVE  IsAlive(w)'
    <3>1. CASE w = c
      <4>1. referent'[w] = target
        BY <1>0, <1>2, <3>1 DEF IInv, TypeOK
      <4>2. c \in weakrefs'[target]
        BY <1>0, <1>5 DEF IInv, TypeOK
      <4> QED
        BY <1>5, <4>1, <4>2 DEF IsAlive
    <3>2. CASE w # c
      <4>1. w \in occupied /\ w \in Cells /\ referent'[w] = referent[w] /\ refStamp'[w] = refStamp[w]
        BY <1>0, <1>4, <2>1, <3>2 DEF IInv, TypeOK
      <4>2. refStamp[w] <= allocs /\ refStamp[w] \in Nat /\ allocs \in Nat
        BY <4>1 DEF IInv, TypeOK, StampInv
      <4>3. referent[w] # c
        BY <1>2, <1>4, <2>1, <4>1, <4>2 DEF IInv, TypeOK
      <4>4. referent[w] \in occupied /\ stamp[referent[w]] = refStamp[w]
        BY <1>4, <2>1, <4>1, <4>3 DEF IInv, TypeOK
      <4>5. IsAlive(w)
        BY <4>1, <4>4 DEF IInv, ReferentAliveIfNotFreed
      <4>6. \A d \in Cells : weakrefs[d] \subseteq weakrefs'[d]
        BY <1>0 DEF IInv, TypeOK
      <4> QED
        BY <4>1, <4>5, <4>6 DEF IsAlive
    <3> QED
      BY <3>1, <3>2
  <2> QED
    BY <2>1 DEF ReferentAliveIfNotFreed
<1> QED
  BY <1>2, <1>6, <1>7, <1>8, <1>9 DEF IInv

-----------------------------------------------------------------------------
\* A step that changes nothing keeps the invariant.
LEMMA StutterKeeps ==
    ASSUME IInv, UNCHANGED vars
    PROVE  IInv'
<1> USE DEF vars
<1>1. TypeOK'
  BY DEF IInv, TypeOK
<1>2. HeapInv' /\ TriColour'
  BY DEF IInv, HeapInv, TriColour
<1>3. MarkInv'
  BY DEF IInv, MarkInv, NonWhite, ReachableFrom, Closed
<1>4. SweepInv' /\ AllWhite' /\ WeakrefsOfOccupied' /\ CountInv' /\ StampInv'
  BY DEF IInv, SweepInv, AllWhite, WeakrefsOfOccupied, CountInv, StampInv
<1>5. ReferentAliveIfNotFreed'
  BY DEF IInv, ReferentAliveIfNotFreed, IsAlive
<1>6. PauseInv'
  BY DEF IInv, PauseInv
<1> QED
  BY <1>1, <1>2, <1>3, <1>4, <1>5, <1>6 DEF IInv

\* Every step of the program and of the collector keeps the invariant.
LEMMA NextIInv == IInv /\ [Next]_vars => IInv'
<1> SUFFICES ASSUME IInv, [Next]_vars PROVE IInv'
  OBVIOUS
<1>1. ASSUME NEW a \in Cells, NEW b \in Cells,
             LoadRef(a, b) \/ StoreRef(a, b) \/ ClearRef(a, b)
      PROVE  IInv'
  BY <1>1, LoadRefKeeps, StoreRefKeeps, ClearRefKeeps
<1>2. ASSUME NEW c \in Cells, DropRoot(c) \/ CallWeakref(c)
      PROVE  IInv'
  BY <1>2, DropRootKeeps, CallWeakrefKeeps
<1>3. CASE EnterGCPause \/ LeaveGCPause
  BY <1>3, EnterGCPauseKeeps, LeaveGCPauseKeeps
<1>4. CASE CollectGarbage
  BY <1>4, CollectGarbageKeeps
<1>5. CASE MarkAllCellUnreachable \/ CollectRoots \/ MarkDone
  BY <1>5, MarkAllCellUnreachableKeeps, CollectRootsKeeps, MarkDoneKeeps
<1>6. CASE SweepCell \/ SweepDone
  BY <1>6, SweepCellKeeps, SweepDoneKeeps
<1>7. ASSUME NEW c \in Cells, MarkLive(c)
      PROVE  IInv'
  BY <1>7, MarkLiveKeeps
<1>8. ASSUME NEW args \in SUBSET roots, Allocate(args)
      PROVE  IInv'
  BY <1>8, AllocateKeeps
<1>9. ASSUME NEW target \in roots, NEW callback \in SUBSET roots,
             AllocateWeakref(target, callback)
      PROVE  IInv'
  BY <1>9, AllocateWeakrefKeeps
<1>10. CASE UNCHANGED vars
  BY <1>10, StutterKeeps
<1> USE DEF Next, Mutator, Collector
<1>11. CASE Mutator
  BY <1>1, <1>2, <1>3, <1>11
<1>12. CASE Collector
  BY <1>5, <1>6, <1>7, <1>8, <1>9, <1>12
<1> QED
  BY <1>4, <1>10, <1>11, <1>12

\* The inductive invariant holds throughout.
THEOREM GCInvariance == Spec => []IInv
  BY InitIInv, NextIInv, PTL DEF Spec

\* Every variable of the heap and the collector keeps its type; in particular
\* the count of allocations never passes the frequency (GarbageCollector.cpp:304).
THEOREM GCTypeCorrect == Spec => []TypeOK
<1>1. IInv => TypeOK
  BY DEF IInv
<1> QED
  BY GCInvariance, <1>1, PTL

\* For every heap: a cell the program can reach is never freed, neither between
\* two steps of sweep nor after them (GarbageCollector.cpp:264).
THEOREM NoReachableCellFreed == Spec => []ReachableIsOccupied
<1>1. IInv => ReachableIsOccupied
  <2> SUFFICES ASSUME IInv PROVE ReachableIsOccupied
    OBVIOUS
  <2>1. CASE phase = "sweep"
    <3>1. NonWhite \in SUBSET Cells /\ roots \subseteq NonWhite /\ NonWhite \subseteq occupied
      BY <2>1 DEF IInv, MarkInv, TriColour, NonWhite
    <3>2. \A c \in NonWhite : colour[c] = "black"
      BY <2>1 DEF IInv, TypeOK, Colours, TriColour, SweepInv, NonWhite
    <3>3. Closed(NonWhite)
      BY <2>1, <3>2 DEF IInv, TypeOK, TriColour, Closed, NonWhite
    <3>4. ReachableFrom(roots) \subseteq NonWhite
      BY <3>1, <3>3, ReachableIsLeast
    <3> QED
      BY <3>1, <3>4 DEF ReachableIsOccupied
  <2>2. CASE phase # "sweep"
    <3>1. occupied \in SUBSET Cells /\ roots \subseteq occupied
      BY DEF IInv, TypeOK, HeapInv
    <3>2. Closed(occupied)
      BY <2>2, <3>1 DEF IInv, HeapInv, Closed
    <3>3. ReachableFrom(roots) \subseteq occupied
      BY <3>1, <3>2, ReachableIsLeast
    <3> QED
      BY <3>3 DEF ReachableIsOccupied
  <2> QED
    BY <2>1, <2>2
<1> QED
  BY GCInvariance, <1>1, PTL

\* The tri-colour invariant of mark_all_live_objects (GarbageCollector.cpp:241).
THEOREM TriColourHolds == Spec => []TriColour
<1>1. IInv => TriColour
  BY DEF IInv
<1> QED
  BY GCInvariance, <1>1, PTL

\* The assertion of add_root never fires (GarbageCollector.cpp:40).
THEOREM AddRootAssertion == Spec => []RootsNotBlack
<1>1. IInv => RootsNotBlack
  BY DEF IInv, AllWhite, RootsNotBlack
<1> QED
  BY GCInvariance, <1>1, PTL

\* What sweep leaves is exactly what the roots it was given reach.
THEOREM SweepIsPrecise == Spec => []OnlyReachableSurvives
<1>1. IInv => OnlyReachableSurvives
  <2> SUFFICES ASSUME IInv, phase = "sweep"
               PROVE  NonWhite = ReachableFrom(found)
    BY DEF OnlyReachableSurvives, NonWhite
  <2>1. NonWhite \subseteq ReachableFrom(found)
    BY DEF IInv, MarkInv
  <2>2. NonWhite \in SUBSET Cells /\ found \subseteq NonWhite
    BY DEF IInv, TriColour, NonWhite
  <2>3. \A c \in NonWhite : colour[c] = "black"
    BY DEF IInv, TypeOK, Colours, TriColour, SweepInv, NonWhite
  <2>4. Closed(NonWhite)
    BY <2>3 DEF IInv, TypeOK, TriColour, Closed, NonWhite
  <2>5. ReachableFrom(found) \subseteq NonWhite
    BY <2>2, <2>4, ReachableIsLeast
  <2> QED
    BY <2>1, <2>5
<1> QED
  BY GCInvariance, <1>1, PTL

\* The table of weak references has no entry for a free slot: sweep erases it
\* before the slot is given back (GarbageCollector.cpp:292).
THEOREM WeakrefTableSound == Spec => []WeakrefsOfOccupied
<1>1. IInv => WeakrefsOfOccupied
  BY DEF IInv
<1> QED
  BY GCInvariance, <1>1, PTL

\* A weak reference to an object that was not freed is alive, through any number
\* of collections and reuses of other slots (Heap.hpp:390, Heap.hpp:427).
THEOREM LiveReferentsAnswer == Spec => []ReferentAliveIfNotFreed
<1>1. IInv => ReferentAliveIfNotFreed
  BY DEF IInv
<1> QED
  BY GCInvariance, <1>1, PTL

\* No collection starts inside a ScopedGCPause, for any nesting (Heap.hpp:324).
THEOREM NoCollectionInScope == Spec => []PausedInScope
<1>1. IInv => PausedInScope
  BY DEF IInv, TypeOK, Phases, PauseInv, PausedInScope
<1> QED
  BY GCInvariance, <1>1, PTL
=============================================================================
