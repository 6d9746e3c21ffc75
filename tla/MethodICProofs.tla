--------------------------- MODULE MethodICProofs ---------------------------
(***************************************************************************)
(* For every set of classes, instances, names and calls, and any number of *)
(* slots: the entries of the method caches stay valid, a call never spends *)
(* two slots on one class and shape, and a hit calls what a call without a *)
(* cache calls.                                                            *)
(***************************************************************************)
EXTENDS MethodIC, ObjectModelProofs

-----------------------------------------------------------------------------
\* The inductive invariant.  The entries alone are not inductive: that a class
\* mutation leaves no entry current comes from TypeOK (no entry is newer than
\* the global version), and that the uncached path reads a slot that exists,
\* so that it has an outcome at all, from SlotsMatchShape.
IInv == TypeOK /\ SlotsMatchShape /\ PicEntriesValid /\ PicSlotsDistinct

SlotIndices == 0..(PicSlots - 1)

\* What the invariant says of instances and class dictionaries.
LEMMA InvInstanceOK ==
    ASSUME IInv
    PROVE  InstanceOK /\ cdict \in [Classes -> Namespace] /\ gver \in Nat
  BY ObjectModelAssumption DEF IInv, TypeOK, ObjTypeOK, InstanceOK

\* A hit has a first slot that matches.
LEMMA FirstMatchFound ==
    ASSUME NEW s \in CallSites, NEW o \in Objs, PicHit(s, o)
    PROVE  FirstMatch(s, o) \in SlotIndices /\ PicMatch(s, o, FirstMatch(s, o))
  <1> DEFINE T == {i \in SlotIndices : PicMatch(s, o, i)}
  <1>1. PicSlots \in Nat \ {0}
    BY MethodICAssumption
  <1>2. T \subseteq Nat /\ T # {}
    BY <1>1 DEF PicHit, SlotIndices
  <1>3. PICK i \in T : \A j \in T : i <= j
    <2> HIDE DEF T
    <2> QED
      BY <1>2, SmallestIndex
  <1>4. ASSUME NEW j \in 0..(i - 1)
        PROVE  ~PicMatch(s, o, j)
    <2>1. i \in SlotIndices /\ i \in Nat
      BY <1>1 DEF SlotIndices
    <2>2. j \in SlotIndices /\ ~(i <= j)
      BY <1>1, <2>1 DEF SlotIndices
    <2> QED
      BY <1>3, <2>2
  <1>5. \E k \in 0..(PicSlots - 1) :
          PicMatch(s, o, k) /\ \A j \in 0..(k - 1) : ~PicMatch(s, o, j)
    BY <1>4 DEF SlotIndices
  <1> QED
    BY <1>5 DEF FirstMatch, SlotIndices

\* A call without a cache always ends in an outcome: the slot it reads exists.
LEMMA RawCallType ==
    ASSUME IInv, NEW o \in Objs, NEW n \in Names
    PROVE  RawCall(o, n) \in Outcomes
  <1> DEFINE d == ClassBinding(o, n)
  <1>1. InstanceOK /\ cdict \in [Classes -> Namespace]
    BY InvInstanceOK
  <1>2. d \in Binding
    BY <1>1, LookupBinding, AttrValuesAssumption DEF ClassBinding
  <1>3. \A r \in Outcomes : CallBound(r) \in Outcomes
    BY DEF CallBound, Outcome, Outcomes, Vias
  <1>4. CallBound(GetAttribute(o, n)) \in Outcomes
    BY <1>1, <1>2, <1>3, InstanceBindingType, ResolveType DEF GetAttribute
  <1>5. ASSUME NEW fn \in Functions
        PROVE  CallFunction(o, n, fn) \in Outcomes
    <2>1. CASE Has(shape[o], n)
      <3>1. Offset(shape[o], n) \in DOMAIN shape[o]
        BY <1>1, <2>1, OffsetFound DEF InstanceOK
      <3>2. /\ slots[o] \in Seq(Values) /\ shape[o] \in Seq(Names)
            /\ Len(slots[o]) = Len(shape[o])
        BY <1>1 DEF InstanceOK, SlotsMatchShape
      <3>3. slots[o][Offset(shape[o], n)] \in Binding
        BY <3>1, <3>2 DEF Binding
      <3> QED
        BY <2>1, <3>3, OutcomeType DEF CallFunction, Vias
    <2>2. CASE ~Has(shape[o], n)
      <3>1. fn \in Binding
        BY DEF Binding, Values
      <3> QED
        BY <2>2, <3>1, OutcomeType DEF CallFunction, Vias
    <2> QED
      BY <2>1, <2>2
  <1>6. Outcome("called", d, o) \in Outcomes
    BY <1>2, OutcomeType DEF Vias
  <1> QED
    BY <1>4, <1>5, <1>6 DEF RawCall

-----------------------------------------------------------------------------
\* What a step has to keep.

\* IInv, put together again after a step that keeps classes.
LEMMA Reassemble ==
    ASSUME IInv, gver' = gver, cdict' = cdict, InstanceOK',
           pic' \in [CallSites -> [SlotIndices -> PicEntries]],
           evict' \in [CallSites -> SlotIndices],
           PicEntriesValid', PicSlotsDistinct'
    PROVE  IInv'
  <1>1. PicEntries' = PicEntries
    BY DEF PicEntries
  <1> QED
    BY <1>1 DEF IInv, TypeOK, ObjTypeOK, InstanceOK, SlotIndices

\* Caches that are not touched in a step that keeps classes.
LEMMA PicUntouched ==
    ASSUME IInv, gver' = gver, cdict' = cdict, InstanceOK', UNCHANGED picVars
    PROVE  IInv'
  <1>1. PicEntriesValid' /\ PicSlotsDistinct'
    BY DEF IInv, PicEntriesValid, PicSlotsDistinct, picVars
  <1>2. /\ pic' \in [CallSites -> [SlotIndices -> PicEntries]]
        /\ evict' \in [CallSites -> SlotIndices]
    BY DEF IInv, TypeOK, picVars, SlotIndices
  <1> QED
    BY <1>1, <1>2, Reassemble

\* An entry made on a miss: it holds what the class binds, and no other slot
\* that is current has its class and shape, or the call had been a hit.
LEMMA PicFilled ==
    ASSUME IInv, gver' = gver, cdict' = cdict, InstanceOK',
           NEW s \in CallSites, NEW o \in Objs, NEW d, ~PicHit(s, o),
           d = ClassBinding(o, MethodAt[s]), d \in Functions \ Statics,
           TypeOf[o] \notin CustomGet,
           pic' = [pic EXCEPT ![s][evict[s]] = MethodEntry(o, d)],
           evict' = [evict EXCEPT ![s] = (@ + 1) % PicSlots]
    PROVE  IInv'
  <1> DEFINE e == MethodEntry(o, d)
             k == evict[s]
  <1>1. PicSlots \in Nat \ {0}
    BY MethodICAssumption
  <1>2. /\ pic \in [CallSites -> [SlotIndices -> PicEntries]]
        /\ evict \in [CallSites -> SlotIndices]
    BY DEF IInv, TypeOK, SlotIndices
  <1>3. k \in SlotIndices /\ (k + 1) % PicSlots \in SlotIndices
    BY <1>1, <1>2 DEF SlotIndices
  <1>4. gver \in Nat /\ shape[o] \in Seq(Names) /\ TypeOf[o] \in Classes
    BY InvInstanceOK, AttrValuesAssumption DEF InstanceOK
  <1>5. e \in PicEntries
    BY <1>4 DEF MethodEntry, PicEntries
  <1>6. e.tag = 1 /\ e.type = TypeOf[o] /\ e.version = gver /\ e.shape = shape[o] /\ e.func = d
    BY DEF MethodEntry
  <1>7. pic' = [pic EXCEPT ![s][k] = e] /\ evict' = [evict EXCEPT ![s] = (k + 1) % PicSlots]
    OBVIOUS
  <1> HIDE DEF e, k
  <1>8. /\ pic' \in [CallSites -> [SlotIndices -> PicEntries]]
        /\ evict' \in [CallSites -> SlotIndices]
        /\ pic'[s][k] = e
        /\ \A i \in SlotIndices : i # k => pic'[s][i] = pic[s][i]
        /\ \A t \in CallSites : t # s => pic'[t] = pic[t]
    BY <1>2, <1>3, <1>5, <1>7
  <1>9. PicEntriesValid'
    <2> SUFFICES ASSUME NEW t \in CallSites, NEW i \in SlotIndices,
                        pic'[t][i].tag # 0, pic'[t][i].version = gver
                 PROVE  /\ pic'[t][i].func = Lookup(cdict, pic'[t][i].type, MethodAt[t])
                        /\ pic'[t][i].func \in Functions \ Statics
                        /\ pic'[t][i].type \notin CustomGet
      BY DEF PicEntriesValid, SlotIndices
    <2>1. CASE t = s /\ i = k
      BY <1>6, <1>8, <2>1 DEF ClassBinding
    <2>2. CASE ~(t = s /\ i = k)
      <3>1. pic'[t][i] = pic[t][i]
        BY <1>8, <2>2
      <3> QED
        BY <3>1 DEF IInv, PicEntriesValid, SlotIndices
    <2> QED
      BY <2>1, <2>2
  <1>10. ASSUME NEW i \in SlotIndices, i # k, pic'[s][i].tag # 0, pic'[s][i].version = gver
         PROVE  pic'[s][i].type # e.type \/ pic'[s][i].shape # e.shape
    <2>1. ~PicMatch(s, o, i)
      BY DEF PicHit, SlotIndices
    <2> QED
      BY <1>6, <1>8, <1>10, <2>1 DEF PicMatch
  <1>11. PicSlotsDistinct'
    <2> SUFFICES ASSUME NEW t \in CallSites, NEW i \in SlotIndices, NEW j \in SlotIndices, i # j,
                        pic'[t][i].tag # 0, pic'[t][j].tag # 0,
                        pic'[t][i].version = gver, pic'[t][j].version = gver
                 PROVE  pic'[t][i].type # pic'[t][j].type \/ pic'[t][i].shape # pic'[t][j].shape
      BY DEF PicSlotsDistinct, SlotIndices
    <2>1. CASE t = s /\ i = k
      BY <1>8, <1>10, <2>1
    <2>2. CASE t = s /\ j = k
      BY <1>8, <1>10, <2>2
    <2>3. CASE t # s \/ (i # k /\ j # k)
      <3>1. pic'[t][i] = pic[t][i] /\ pic'[t][j] = pic[t][j]
        BY <1>8, <2>3
      <3> QED
        BY <3>1 DEF IInv, PicSlotsDistinct, SlotIndices
    <2> QED
      BY <2>1, <2>2, <2>3
  <1> QED
    BY <1>8, <1>9, <1>11, Reassemble

-----------------------------------------------------------------------------
\* One lemma per kind of step: each preserves the inductive invariant.

\* rt_call_method_ic_ptrs: a hit, a class with its own __getattribute__, or a
\* miss that fills the next slot in turn.
LEMMA CallPreserves ==
    ASSUME IInv, NEW s \in CallSites, NEW o \in Objs, RtCallMethodIC(s, o)
    PROVE  IInv'
  <1>1. UNCHANGED <<gver, cdict, shape, slots, idict>>
    BY DEF RtCallMethodIC, RtCallMethodHit, RtCallMethodCustom, RtCallMethodMiss
  <1>2. MethodAt[s] \in Names /\ RawCall(o, MethodAt[s]) \in Outcomes
    BY MethodICAssumption, RawCallType
  <1>3. ASSUME result' \in Outcomes
        PROVE  InstanceOK'
    BY <1>1, <1>3, InvInstanceOK DEF InstanceOK, SlotsMatchShape
  <1>4. CASE RtCallMethodHit(s, o)
    <2> DEFINE i == FirstMatch(s, o)
    <2>1. i \in SlotIndices /\ PicMatch(s, o, i)
      BY <1>4, FirstMatchFound DEF RtCallMethodHit
    <2>2. result' = Outcome("called with self", pic[s][i].func, o) /\ UNCHANGED picVars
      BY <1>4 DEF RtCallMethodHit, picVars
    <2> HIDE DEF i
    <2>3. pic[s][i].func \in Functions
      BY <2>1 DEF PicMatch, IInv, PicEntriesValid, SlotIndices
    <2>4. result' \in Outcomes
      BY <2>2, <2>3, OutcomeType DEF Binding, Values, Vias
    <2> QED
      BY <1>1, <1>3, <2>2, <2>4, PicUntouched
  <1>5. CASE RtCallMethodCustom(s, o)
    BY <1>1, <1>2, <1>3, <1>5, PicUntouched DEF RtCallMethodCustom, picVars
  <1>6. CASE RtCallMethodMiss(s, o)
    <2>1. /\ ~PicHit(s, o) /\ TypeOf[o] \notin CustomGet /\ UpdateMethodCache(s, o)
          /\ result' = RawCall(o, MethodAt[s])
      BY <1>6 DEF RtCallMethodMiss
    <2>2. InstanceOK'
      BY <1>2, <1>3, <2>1
    <2> DEFINE d == ClassBinding(o, MethodAt[s])
    <2>3. CASE /\ d \in Functions \ Statics
               /\ pic' = [pic EXCEPT ![s][evict[s]] = MethodEntry(o, d)]
               /\ evict' = [evict EXCEPT ![s] = (@ + 1) % PicSlots]
      <3> HIDE DEF d
      <3>1. d = ClassBinding(o, MethodAt[s])
        BY DEF d
      <3> QED
        BY <1>1, <2>1, <2>2, <2>3, <3>1, PicFilled
    <2>4. CASE UNCHANGED picVars
      BY <1>1, <2>2, <2>4, PicUntouched
    <2> QED
      BY <2>1, <2>3, <2>4 DEF UpdateMethodCache
  <1> QED
    BY <1>4, <1>5, <1>6 DEF RtCallMethodIC

\* A class mutation: the new version is newer than every entry.
LEMMA ClassPreserves ==
    ASSUME IInv, NEW c \in Classes, NEW n \in Names, NEW v \in Values,
           SetClassAttribute(c, n, v), UNCHANGED picVars
    PROVE  IInv'
  <1>1. ObjTypeOK' /\ SlotsMatchShape' /\ gver \in Nat /\ gver' = gver + 1
    BY ClassStep DEF IInv, TypeOK
  <1>2. 0..gver \subseteq 0..gver'
    BY <1>1
  <1>3. PicEntries \subseteq PicEntries'
    BY <1>2 DEF PicEntries
  <1>4. /\ pic' \in [CallSites -> [SlotIndices -> PicEntries']]
        /\ evict' \in [CallSites -> SlotIndices]
    BY <1>3 DEF IInv, TypeOK, picVars, SlotIndices
  <1>5. \A e \in PicEntries : e.tag # 0 => e.version # gver'
    BY <1>1 DEF PicEntries
  <1>6. \A t \in CallSites, i \in SlotIndices : pic'[t][i].tag # 0 => pic'[t][i].version # gver'
    BY <1>5 DEF IInv, TypeOK, picVars, SlotIndices
  <1>7. PicEntriesValid' /\ PicSlotsDistinct'
    BY <1>6 DEF PicEntriesValid, PicSlotsDistinct, SlotIndices
  <1> QED
    BY <1>1, <1>4, <1>7 DEF IInv, TypeOK, SlotIndices

\* Zero-initialised caches and fresh instances satisfy the invariant.
LEMMA InitInv == Init => IInv
  <1> SUFFICES ASSUME Init PROVE IInv
    OBVIOUS
  <1>1. ObjTypeOK
    BY ObjectModelAssumption DEF Init, ObjInit, ObjTypeOK, Outcome, Outcomes,
       Vias, Binding
  <1>2. SlotsMatchShape
    BY DEF Init, ObjInit, SlotsMatchShape
  <1>3. EmptySlot \in PicEntries /\ EmptySlot.tag = 0
    BY DEF EmptySlot, PicEntries
  <1>4. 0 \in SlotIndices
    BY MethodICAssumption DEF SlotIndices
  <1>5. /\ pic \in [CallSites -> [SlotIndices -> PicEntries]]
        /\ evict \in [CallSites -> SlotIndices]
    BY <1>3, <1>4 DEF Init, SlotIndices
  <1>6. PicEntriesValid /\ PicSlotsDistinct
    BY <1>3 DEF Init, PicEntriesValid, PicSlotsDistinct
  <1> QED
    BY <1>1, <1>2, <1>5, <1>6 DEF IInv, TypeOK, SlotIndices

\* Every step of a program preserves the invariant.
LEMMA StepInv == IInv /\ [Next]_vars => IInv'
  <1> SUFFICES ASSUME IInv, [Next]_vars PROVE IInv'
    OBVIOUS
  <1>1. ASSUME NEW s \in CallSites, NEW o \in Objs, RtCallMethodIC(s, o)
        PROVE  IInv'
    BY <1>1, CallPreserves
  <1>2. ASSUME NEW o \in Objs, NEW n \in Names, NEW v \in Values,
               SetAttribute(o, n, v), UNCHANGED picVars
        PROVE  IInv'
    <2>1. InstanceOK' /\ UNCHANGED <<gver, cdict>>
      BY <1>2, InvInstanceOK, SetAttributeInstance DEF SetAttribute
    <2> QED
      BY <1>2, <2>1, PicUntouched
  <1>3. ASSUME NEW c \in Classes, NEW n \in Names, NEW v \in Values,
               SetClassAttribute(c, n, v), UNCHANGED picVars
        PROVE  IInv'
    BY <1>3, ClassPreserves
  <1>4. ASSUME NEW o \in Objs, UNCHANGED picVars,
               \/ MaterializeDict(o)
               \/ \E n \in Names, v \in Binding : WriteDict(o, n, v)
               \/ \E d \in Namespace : AssignDict(o, d)
        PROVE  IInv'
    <2>1. InstanceOK' /\ UNCHANGED <<gver, cdict>>
      BY <1>4, InvInstanceOK, DictInstance
    <2> QED
      BY <1>4, <2>1, PicUntouched
  <1>5. CASE UNCHANGED vars
    <2>1. InstanceOK'
      BY <1>5, InvInstanceOK DEF vars, InstanceOK, SlotsMatchShape
    <2> QED
      BY <1>5, <2>1, PicUntouched DEF vars, picVars
  <1> QED
    BY <1>1, <1>2, <1>3, <1>4, <1>5 DEF Next, ObjNext

-----------------------------------------------------------------------------
\* The inductive invariant holds in every reachable state.
THEOREM Invariance == Spec => []IInv
  BY InitInv, StepInv, PTL DEF Spec

\* Every slot holds nothing or an entry that is no newer than the global type
\* version, next_evict_slot stays inside the cache whatever its size, and
\* every call ends in an outcome.
THEOREM TypeCorrect == Spec => []TypeOK
  BY Invariance, PTL DEF IInv

\* rt_method_cache.cpp:200 "no type and no class member has changed": the
\* version is enough, for any class hierarchy and any mutations of classes,
\* inherited methods included.
THEOREM EntriesStayValid == Spec => []PicEntriesValid
  BY Invariance, PTL DEF IInv

\* Round-robin eviction never spends two slots on one class and shape.
THEOREM SlotsStayDistinct == Spec => []PicSlotsDistinct
  BY Invariance, PTL DEF IInv

\* On an instance whose shape does not have the name, a hit calls exactly
\* what rt_call_method_raw_ptrs calls, with the same self.
THEOREM HitSound == Spec => []PicHitAgreesWithRaw
  <1>1. ASSUME IInv, NEW s \in CallSites, NEW o \in Objs, PicHit(s, o),
               ~Has(shape[o], MethodAt[s])
        PROVE  Outcome("called with self", pic[s][FirstMatch(s, o)].func, o)
                   = RawCall(o, MethodAt[s])
    <2> DEFINE i == FirstMatch(s, o)
               fn == pic[s][i].func
    <2>1. i \in SlotIndices /\ PicMatch(s, o, i)
      BY <1>1, FirstMatchFound
    <2> HIDE DEF i
    <2>2. /\ fn = ClassBinding(o, MethodAt[s]) /\ fn \in Functions \ Statics
          /\ TypeOf[o] \notin CustomGet
      BY <1>1, <2>1 DEF PicMatch, IInv, PicEntriesValid, SlotIndices, ClassBinding
    <2> HIDE DEF fn
    <2>3. RawCall(o, MethodAt[s]) = Outcome("called with self", fn, o)
      BY <1>1, <2>2 DEF RawCall, CallFunction
    <2> QED
      BY <2>3 DEF fn, i
  <1>2. IInv => PicHitAgreesWithRaw
    BY <1>1 DEF PicHitAgreesWithRaw
  <1> QED
    BY <1>2, Invariance, PTL
=============================================================================
