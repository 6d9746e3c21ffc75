---------------------------- MODULE AttrICProofs ----------------------------
(***************************************************************************)
(* For every set of classes, instances, names and occurrences: the caches  *)
(* of AttrIC stay valid, a hit answers what the slow path answers, and the *)
(* runtime with its shapes and caches implements AttrSpec.                 *)
(***************************************************************************)
EXTENDS AttrIC, ObjectModelProofs

-----------------------------------------------------------------------------
\* What the operators on slot vectors return.

\* Storing into an existing slot keeps the length, storing into the next one
\* is push_back: the vector is never padded with null pointers.
LEMMA PutSlotVector ==
    ASSUME NEW vec \in Seq(Values), NEW off \in 1..(Len(vec) + 1),
           NEW v \in Values
    PROVE  /\ PutSlot(vec, off, v) \in Seq(Values)
           /\ off \in DOMAIN vec =>
                 /\ PutSlot(vec, off, v) = [vec EXCEPT ![off] = v]
                 /\ Len(PutSlot(vec, off, v)) = Len(vec)
           /\ off = Len(vec) + 1 => PutSlot(vec, off, v) = Append(vec, v)
  <1>1. CASE off \in DOMAIN vec
    BY <1>1 DEF PutSlot
  <1>2. CASE off = Len(vec) + 1
    BY <1>2 DEF PutSlot
  <1> QED
    BY <1>1, <1>2

-----------------------------------------------------------------------------
\* The inductive invariant.  CachesValid alone is not inductive: that a slot
\* exists under a cached offset comes from SlotsMatchShape, and that a class
\* mutation leaves no entry current comes from TypeOK (no entry is newer than
\* the global version).
IInv == TypeOK /\ SlotsMatchShape /\ CachesValid

-----------------------------------------------------------------------------
\* Entries stay valid in a step that leaves classes and caches alone.
LEMMA CachesKept ==
    ASSUME CachesValid, gver' = gver, cdict' = cdict
    PROVE  /\ getIC' = getIC => \A s \in GetSites : ReadEntryValid(s)'
           /\ setIC' = setIC => \A s \in SetSites : WriteEntryValid(s)'
  BY DEF CachesValid, ReadEntryValid, WriteEntryValid

\* A cache that is emptied is valid, and the others are not touched.
LEMMA GetCacheEmptied ==
    ASSUME IInv, gver' = gver, cdict' = cdict, setIC' = setIC,
           NEW s \in GetSites, getIC' = [getIC EXCEPT ![s] = EmptyGet]
    PROVE  /\ getIC' \in [GetSites -> ReadEntries']
           /\ setIC' \in [SetSites -> WriteEntries']
           /\ CachesValid'
  <1>1. ReadEntries' = ReadEntries /\ WriteEntries' = WriteEntries
    BY DEF ReadEntries, WriteEntries
  <1>2. EmptyGet \in ReadEntries
    BY DEF EmptyGet, ReadEntries
  <1>3. /\ getIC' \in [GetSites -> ReadEntries']
        /\ setIC' \in [SetSites -> WriteEntries']
    BY <1>1, <1>2 DEF IInv, TypeOK
  <1>4. ReadEntryValid(s)'
    BY DEF ReadEntryValid, EmptyGet, IInv, TypeOK
  <1>5. \A r \in GetSites : r # s => ReadEntryValid(r)'
    BY DEF ReadEntryValid, IInv, TypeOK, CachesValid
  <1>6. \A r \in SetSites : WriteEntryValid(r)'
    BY CachesKept DEF IInv
  <1> QED
    BY <1>3, <1>4, <1>5, <1>6 DEF CachesValid

\* The same for a write cache that is emptied.
LEMMA SetCacheEmptied ==
    ASSUME IInv, gver' = gver, cdict' = cdict, getIC' = getIC,
           NEW s \in SetSites, setIC' = [setIC EXCEPT ![s] = EmptySet]
    PROVE  /\ getIC' \in [GetSites -> ReadEntries']
           /\ setIC' \in [SetSites -> WriteEntries']
           /\ CachesValid'
  <1>1. ReadEntries' = ReadEntries /\ WriteEntries' = WriteEntries
    BY DEF ReadEntries, WriteEntries
  <1>2. EmptySet \in WriteEntries
    BY DEF EmptySet, WriteEntries
  <1>3. /\ getIC' \in [GetSites -> ReadEntries']
        /\ setIC' \in [SetSites -> WriteEntries']
    BY <1>1, <1>2 DEF IInv, TypeOK
  <1>4. WriteEntryValid(s)'
    BY DEF WriteEntryValid, EmptySet, IInv, TypeOK
  <1>5. \A r \in SetSites : r # s => WriteEntryValid(r)'
    BY DEF WriteEntryValid, IInv, TypeOK, CachesValid
  <1>6. \A r \in GetSites : ReadEntryValid(r)'
    BY CachesKept DEF IInv
  <1> QED
    BY <1>3, <1>4, <1>5, <1>6 DEF CachesValid

\* Filling a read cache: what resolve_default_getattr established about the
\* class and the shape is what ReadEntryValid asks for.
LEMMA GetCacheFilled ==
    ASSUME IInv, gver' = gver, cdict' = cdict, setIC' = setIC,
           NEW s \in GetSites, NEW o \in Objs,
           TypeOf[o] \notin CustomGet,
           ~HasGet(ClassBinding(o, NameAt[s])), Has(shape[o], NameAt[s]),
           getIC' = [getIC EXCEPT
                        ![s] = ReadEntry(o, Offset(shape[o], NameAt[s]))]
    PROVE  /\ getIC' \in [GetSites -> ReadEntries']
           /\ setIC' \in [SetSites -> WriteEntries']
           /\ CachesValid'
  <1> DEFINE off == Offset(shape[o], NameAt[s])
             e == ReadEntry(o, off)
  <1>1. ReadEntries' = ReadEntries /\ WriteEntries' = WriteEntries
    BY DEF ReadEntries, WriteEntries
  <1>2. shape[o] \in Seq(Names) /\ TypeOf[o] \in Classes /\ gver \in Nat
    BY AttrValuesAssumption, ObjectModelAssumption
       DEF IInv, TypeOK, ObjTypeOK
  <1>3. off \in DOMAIN shape[o] /\ shape[o][off] = NameAt[s]
    BY <1>2, OffsetFound
  <1>4. off \in Nat
    BY <1>2, <1>3
  <1>5. e \in ReadEntries
    BY <1>2, <1>4 DEF ReadEntry, ReadEntries
  <1>6. /\ getIC' \in [GetSites -> ReadEntries']
        /\ setIC' \in [SetSites -> WriteEntries']
    BY <1>1, <1>5 DEF IInv, TypeOK
  <1>7. getIC'[s] = e
    BY DEF IInv, TypeOK
  <1>8. ReadEntryValid(s)'
    BY <1>3, <1>7 DEF ReadEntryValid, ReadEntry, ClassBinding
  <1>9. \A r \in GetSites : r # s => ReadEntryValid(r)'
    BY DEF ReadEntryValid, IInv, TypeOK, CachesValid
  <1>10. \A r \in SetSites : WriteEntryValid(r)'
    BY CachesKept DEF IInv
  <1> QED
    BY <1>6, <1>8, <1>9, <1>10 DEF CachesValid

\* Filling a write cache with an offset of the shape or with a transition.
LEMMA SetCacheFilled ==
    ASSUME IInv, gver' = gver, cdict' = cdict, getIC' = getIC,
           NEW s \in SetSites, NEW o \in Objs, NEW next, NEW off,
           TypeOf[o] \notin CustomSet,
           ClassBinding(o, NameAt[s]) = Absent,
           \/ /\ next = shape[o]
              /\ off \in DOMAIN shape[o]
              /\ shape[o][off] = NameAt[s]
           \/ /\ ~Has(shape[o], NameAt[s])
              /\ next = Append(shape[o], NameAt[s])
              /\ off = Len(shape[o]) + 1,
           setIC' = [setIC EXCEPT ![s] = WriteEntry(o, next, off)]
    PROVE  /\ getIC' \in [GetSites -> ReadEntries']
           /\ setIC' \in [SetSites -> WriteEntries']
           /\ CachesValid'
  <1> DEFINE e == WriteEntry(o, next, off)
  <1>1. ReadEntries' = ReadEntries /\ WriteEntries' = WriteEntries
    BY DEF ReadEntries, WriteEntries
  <1>2. shape[o] \in Seq(Names) /\ TypeOf[o] \in Classes /\ gver \in Nat
    BY AttrValuesAssumption, ObjectModelAssumption
       DEF IInv, TypeOK, ObjTypeOK
  <1>n. NameAt[s] \in Names
    BY AttrICAssumption
  <1>3. next \in Seq(Names) /\ off \in Nat
    <2>1. /\ Append(shape[o], NameAt[s]) \in Seq(Names)
          /\ Len(shape[o]) \in Nat
          /\ DOMAIN shape[o] = 1..Len(shape[o])
      BY <1>2, <1>n
    <2>2. CASE next = shape[o] /\ off \in DOMAIN shape[o]
      BY <1>2, <2>1, <2>2
    <2>3. CASE next = Append(shape[o], NameAt[s]) /\ off = Len(shape[o]) + 1
      BY <2>1, <2>3
    <2> QED
      BY <2>2, <2>3
  <1>4. e \in WriteEntries
    BY <1>2, <1>3 DEF WriteEntry, WriteEntries
  <1>5. /\ getIC' \in [GetSites -> ReadEntries']
        /\ setIC' \in [SetSites -> WriteEntries']
    BY <1>1, <1>4 DEF IInv, TypeOK
  <1>6. setIC'[s] = e
    BY DEF IInv, TypeOK
  <1>7. WriteEntryValid(s)'
    BY <1>6 DEF WriteEntryValid, WriteEntry, ClassBinding
  <1>8. \A r \in SetSites : r # s => WriteEntryValid(r)'
    BY DEF WriteEntryValid, IInv, TypeOK, CachesValid
  <1>9. \A r \in GetSites : ReadEntryValid(r)'
    BY CachesKept DEF IInv
  <1> QED
    BY <1>5, <1>7, <1>8, <1>9 DEF CachesValid

-----------------------------------------------------------------------------
\* IInv, put together again after a step that keeps classes.
LEMMA Reassemble ==
    ASSUME IInv, gver' = gver, cdict' = cdict, InstanceOK',
           getIC' \in [GetSites -> ReadEntries'],
           setIC' \in [SetSites -> WriteEntries'],
           CachesValid'
    PROVE  IInv'
  BY DEF IInv, TypeOK, ObjTypeOK, InstanceOK

\* What the invariant says of instances and class dictionaries.
LEMMA InvInstanceOK ==
    ASSUME IInv
    PROVE  InstanceOK /\ cdict \in [Classes -> Namespace]
  BY DEF IInv, TypeOK, ObjTypeOK, InstanceOK

\* Caches that are not touched in a step that keeps classes.
LEMMA CachesUntouched ==
    ASSUME IInv, gver' = gver, cdict' = cdict, getIC' = getIC, setIC' = setIC
    PROVE  /\ getIC' \in [GetSites -> ReadEntries']
           /\ setIC' \in [SetSites -> WriteEntries']
           /\ CachesValid'
  <1>1. ReadEntries' = ReadEntries /\ WriteEntries' = WriteEntries
    BY DEF ReadEntries, WriteEntries
  <1>2. CachesValid'
    BY CachesKept DEF IInv, CachesValid
  <1> QED
    BY <1>1, <1>2 DEF IInv, TypeOK

\* The hit of a read cache answers what the slow path answers.
LEMMA GetHitSound ==
    ASSUME IInv, NEW s \in GetSites, NEW o \in Objs, GetHit(s, o)
    PROVE  /\ getIC[s].offset \in DOMAIN slots[o]
           /\ Outcome("value", slots[o][getIC[s].offset], o)
                  = GetAttribute(o, NameAt[s])
           /\ slots[o][getIC[s].offset] \in Binding
  <1> DEFINE off == getIC[s].offset
             n == NameAt[s]
  <1>1. /\ TypeOf[o] \notin CustomGet
        /\ ~HasGet(ClassBinding(o, n))
        /\ off \in DOMAIN shape[o]
        /\ shape[o][off] = n
    BY DEF IInv, CachesValid, ReadEntryValid, GetHit, ClassBinding
  <1>2. /\ shape[o] \in Seq(Names)
        /\ slots[o] \in Seq(Values)
        /\ Len(slots[o]) = Len(shape[o])
        /\ \A j, k \in DOMAIN shape[o] : shape[o][j] = shape[o][k] => j = k
    BY InvInstanceOK DEF InstanceOK, SlotsMatchShape
  <1> HIDE DEF off, n
  <1>3. Has(shape[o], n) /\ Offset(shape[o], n) = off
    BY <1>1, <1>2, OffsetUnique
  <1>4. off \in DOMAIN slots[o] /\ slots[o][off] \in Values
    BY <1>1, <1>2
  <1>5. InstanceBinding(o, n) = slots[o][off]
    BY <1>3 DEF InstanceBinding, GetHit
  <1>6. slots[o][off] # Absent
    BY <1>4, AttrValuesAssumption
  <1>7. GetAttribute(o, n) = Outcome("value", slots[o][off], o)
    BY <1>1, <1>5, <1>6 DEF GetAttribute, Resolve
  <1> QED
    BY <1>4, <1>7 DEF off, n, Binding

\* A miss of a read cache answers what the slow path answers.
LEMMA GetMissSound ==
    ASSUME IInv, NEW s \in GetSites, NEW o \in Objs, RtGetattrMiss(s, o)
    PROVE  result' = GetAttribute(o, NameAt[s])
  <1> DEFINE n == NameAt[s]
             d == ClassBinding(o, n)
  <1>1. TypeOf[o] \notin CustomGet /\ idict[o] = NoDict
    BY DEF RtGetattrMiss
  <1>2. CASE HasGet(d)
    <2>1. result' = Outcome("__get__", d, o)
      BY <1>2 DEF RtGetattrMiss, ResolveDefaultGetattr
    <2> QED
      BY <1>1, <1>2, <2>1 DEF GetAttribute, Resolve
  <1>3. CASE ~HasGet(d) /\ Has(shape[o], n)
    <2>1. /\ shape[o] \in Seq(Names)
          /\ slots[o] \in Seq(Values)
          /\ Len(slots[o]) = Len(shape[o])
      BY InvInstanceOK DEF InstanceOK, SlotsMatchShape
    <2>2. Offset(shape[o], n) \in DOMAIN shape[o]
      BY <1>3, <2>1, OffsetFound
    <2>3. slots[o][Offset(shape[o], n)] \in Values
      BY <2>1, <2>2
    <2>4. slots[o][Offset(shape[o], n)] # Absent
      BY <2>3, AttrValuesAssumption
    <2>5. result' = Outcome("value", slots[o][Offset(shape[o], n)], o)
      BY <1>3 DEF RtGetattrMiss, ResolveDefaultGetattr
    <2> QED
      BY <1>1, <1>3, <2>4, <2>5 DEF GetAttribute, Resolve, InstanceBinding
  <1>4. CASE ~HasGet(d) /\ ~Has(shape[o], n)
    <2>1. result' = IF d # Absent THEN Outcome("value", d, o)
                                  ELSE Outcome("AttributeError", Absent, o)
      BY <1>4 DEF RtGetattrMiss, ResolveDefaultGetattr
    <2> QED
      BY <1>1, <1>4, <2>1 DEF GetAttribute, Resolve, InstanceBinding
  <1> QED
    BY <1>2, <1>3, <1>4

\* rt_getattr_ic, however it goes, answers PyObject::getattribute and leaves
\* classes and instances alone.
LEMMA GetIsGetAttribute ==
    ASSUME IInv, NEW s \in GetSites, NEW o \in Objs, RtGetattrIC(s, o)
    PROVE  /\ result' = GetAttribute(o, NameAt[s])
           /\ UNCHANGED <<gver, cdict, shape, slots, idict, setIC>>
  <1>1. CASE RtGetattrHit(s, o)
    BY <1>1, GetHitSound DEF RtGetattrHit
  <1>2. CASE RtGetattrGeneric(s, o)
    BY <1>2 DEF RtGetattrGeneric
  <1>3. CASE RtGetattrMiss(s, o)
    BY <1>3, GetMissSound DEF RtGetattrMiss
  <1> QED
    BY <1>1, <1>2, <1>3 DEF RtGetattrIC

\* A hit of a write cache is the store PyObject::__setattribute__ would make.
LEMMA SetHitIsStore ==
    ASSUME IInv, NEW s \in SetSites, NEW o \in Objs, NEW v \in Values,
           RtSetattrHit(s, o, v)
    PROVE  SetAttribute(o, NameAt[s], v)
  <1> DEFINE n == NameAt[s]
             e == setIC[s]
  <1>1. /\ SetHit(s, o)
        /\ shape' = [shape EXCEPT ![o] = e.next]
        /\ slots' = [slots EXCEPT ![o] = PutSlot(slots[o], e.offset, v)]
        /\ result' = Outcome("stored", v, o)
        /\ UNCHANGED <<gver, cdict, idict>>
    BY DEF RtSetattrHit
  <1>2. /\ TypeOf[o] \notin CustomSet
        /\ idict[o] = NoDict
        /\ e.shape = shape[o]
        /\ ClassBinding(o, n) = Absent
        /\ \/ /\ e.next = shape[o]
              /\ e.offset \in DOMAIN shape[o]
              /\ shape[o][e.offset] = n
           \/ /\ ~Has(shape[o], n)
              /\ e.next = Append(shape[o], n)
              /\ e.offset = Len(shape[o]) + 1
    BY <1>1 DEF SetHit, SetGeneric, IInv, CachesValid, WriteEntryValid,
                ClassBinding
  <1>3. /\ shape \in [Objs -> Seq(Names)]
        /\ slots \in [Objs -> Seq(Values)]
        /\ shape[o] \in Seq(Names)
        /\ slots[o] \in Seq(Values)
        /\ Len(slots[o]) = Len(shape[o])
        /\ \A j, k \in DOMAIN shape[o] : shape[o][j] = shape[o][k] => j = k
    BY InvInstanceOK DEF InstanceOK, SlotsMatchShape
  <1>4. ~HasSet(ClassBinding(o, n))
    BY <1>2, AttrValuesAssumption DEF HasSet, Values
  <1> HIDE DEF n, e
  <1>5. CASE /\ e.next = shape[o]
             /\ e.offset \in DOMAIN shape[o]
             /\ shape[o][e.offset] = n
    <2>1. Has(shape[o], n) /\ Offset(shape[o], n) = e.offset
      BY <1>3, <1>5, OffsetUnique
    <2>2. e.offset \in DOMAIN slots[o] /\ e.offset \in 1..(Len(slots[o]) + 1)
      BY <1>3, <1>5
    <2>3. PutSlot(slots[o], e.offset, v) = [slots[o] EXCEPT ![e.offset] = v]
      BY <1>3, <2>2, PutSlotVector
    <2>4. shape' = shape
      BY <1>1, <1>3, <1>5
    <2>5. slots' = [slots EXCEPT ![o][Offset(shape[o], n)] = v]
      BY <1>1, <1>3, <2>1, <2>3
    <2>6. StoreInInstance(o, n, v)
      BY <1>1, <1>2, <2>1, <2>4, <2>5 DEF StoreInInstance
    <2> QED
      BY <1>1, <1>2, <1>4, <2>6 DEF SetAttribute, n
  <1>6. CASE /\ ~Has(shape[o], n)
             /\ e.next = Append(shape[o], n)
             /\ e.offset = Len(shape[o]) + 1
    <2>1. e.offset \in 1..(Len(slots[o]) + 1) /\ e.offset = Len(slots[o]) + 1
      BY <1>3, <1>6
    <2>2. PutSlot(slots[o], e.offset, v) = Append(slots[o], v)
      BY <1>3, <2>1, PutSlotVector
    <2>3. shape' = [shape EXCEPT ![o] = Transition(shape[o], n)]
      BY <1>1, <1>6 DEF Transition
    <2>4. slots' = [slots EXCEPT ![o] = Append(slots[o], v)]
      BY <1>1, <2>2
    <2>5. StoreInInstance(o, n, v)
      BY <1>1, <1>2, <1>6, <2>3, <2>4 DEF StoreInInstance
    <2> QED
      BY <1>1, <1>2, <1>4, <2>5 DEF SetAttribute, n
  <1> QED
    BY <1>2, <1>5, <1>6 DEF n, e

\* rt_setattr_ic, however it goes, is PyObject::setattribute on the instance.
LEMMA SetIsSetAttribute ==
    ASSUME IInv, NEW s \in SetSites, NEW o \in Objs, NEW v \in Values,
           RtSetattrIC(s, o, v)
    PROVE  SetAttribute(o, NameAt[s], v)
  <1> DEFINE n == NameAt[s]
  <1>1. CASE RtSetattrGeneric(s, o, v) \/ RtSetattrClassBound(s, o, v)
    BY <1>1 DEF RtSetattrGeneric, RtSetattrClassBound
  <1>2. CASE RtSetattrHit(s, o, v)
    BY <1>2, SetHitIsStore
  <1>3. CASE RtSetattrExisting(s, o, v)
    <2>1. ~HasSet(ClassBinding(o, n))
      BY <1>3, AttrValuesAssumption DEF RtSetattrExisting, HasSet, Values
    <2>2. TypeOf[o] \notin CustomSet /\ idict[o] = NoDict
      BY <1>3 DEF RtSetattrExisting, SetGeneric
    <2>3. StoreInInstance(o, n, v)
      BY <1>3, <2>2 DEF RtSetattrExisting, StoreInInstance
    <2> QED
      BY <1>3, <2>1, <2>2, <2>3 DEF RtSetattrExisting, SetAttribute
  <1>4. CASE RtSetattrTransition(s, o, v)
    <2>1. ~HasSet(ClassBinding(o, n))
      BY <1>4, AttrValuesAssumption DEF RtSetattrTransition, HasSet, Values
    <2>2. TypeOf[o] \notin CustomSet /\ idict[o] = NoDict
      BY <1>4 DEF RtSetattrTransition, SetGeneric
    <2>3. /\ shape[o] \in Seq(Names)
          /\ slots[o] \in Seq(Values)
          /\ Len(slots[o]) = Len(shape[o])
          /\ \A j, k \in DOMAIN shape[o] :
                shape[o][j] = shape[o][k] => j = k
      BY InvInstanceOK DEF InstanceOK, SlotsMatchShape
    <2>4. n \in Names
      BY AttrICAssumption
    <2>5. ~Has(shape[o], n)
      BY <1>4 DEF RtSetattrTransition
    <2>6. Offset(Transition(shape[o], n), n) = Len(slots[o]) + 1
      BY <2>3, <2>4, <2>5, TransitionShape
    <2>7. Len(slots[o]) + 1 \in 1..(Len(slots[o]) + 1)
      BY <2>3
    <2>8. PutSlot(slots[o], Len(slots[o]) + 1, v) = Append(slots[o], v)
      BY <2>3, <2>7, PutSlotVector
    <2>9. slots' = [slots EXCEPT ![o] = Append(slots[o], v)]
      BY <1>4, <2>6, <2>8 DEF RtSetattrTransition
    <2>10. StoreInInstance(o, n, v)
      BY <1>4, <2>2, <2>5, <2>9 DEF RtSetattrTransition, StoreInInstance
    <2> QED
      BY <1>4, <2>1, <2>2, <2>10 DEF RtSetattrTransition, SetAttribute
  <1> QED
    BY <1>1, <1>2, <1>3, <1>4 DEF RtSetattrIC

-----------------------------------------------------------------------------
\* One lemma per kind of step: each preserves the inductive invariant.

\* rt_getattr_ic: only the cache of its own occurrence changes.
LEMMA GetPreserves ==
    ASSUME IInv, NEW s \in GetSites, NEW o \in Objs, RtGetattrIC(s, o)
    PROVE  IInv'
  <1>1. /\ result' = GetAttribute(o, NameAt[s])
        /\ UNCHANGED <<gver, cdict, shape, slots, idict, setIC>>
    BY GetIsGetAttribute
  <1>2. InstanceOK /\ cdict \in [Classes -> Namespace]
    BY InvInstanceOK
  <1>3. NameAt[s] \in Names /\ TypeOf[o] \in Classes
    BY AttrICAssumption, AttrValuesAssumption
  <1>4. /\ ClassBinding(o, NameAt[s]) \in Binding
        /\ InstanceBinding(o, NameAt[s]) \in Binding
    BY <1>2, <1>3, LookupBinding, InstanceBindingType DEF ClassBinding
  <1>5. result' \in Outcomes
    BY <1>1, <1>4, ResolveType DEF GetAttribute
  <1>6. InstanceOK'
    BY <1>1, <1>2, <1>5 DEF InstanceOK, SlotsMatchShape
  <1>7. /\ getIC' \in [GetSites -> ReadEntries']
        /\ setIC' \in [SetSites -> WriteEntries']
        /\ CachesValid'
    <2>1. CASE getIC' = getIC
      BY <1>1, <2>1, CachesUntouched
    <2>2. CASE getIC' = [getIC EXCEPT ![s] = EmptyGet]
      BY <1>1, <2>2, GetCacheEmptied
    <2>3. CASE /\ TypeOf[o] \notin CustomGet
               /\ ~HasGet(ClassBinding(o, NameAt[s]))
               /\ Has(shape[o], NameAt[s])
               /\ getIC' = [getIC EXCEPT
                      ![s] = ReadEntry(o, Offset(shape[o], NameAt[s]))]
      BY <1>1, <2>3, GetCacheFilled
    <2> QED
      BY <2>1, <2>2, <2>3 DEF RtGetattrIC, RtGetattrHit, RtGetattrGeneric,
         RtGetattrMiss, ResolveDefaultGetattr
  <1> QED
    BY <1>1, <1>6, <1>7, Reassemble

\* rt_setattr_ic: the store of SetAttribute, and a cache left alone,
\* emptied or filled.
LEMMA SetPreserves ==
    ASSUME IInv, NEW s \in SetSites, NEW o \in Objs, NEW v \in Values,
           RtSetattrIC(s, o, v)
    PROVE  IInv'
  <1> DEFINE n == NameAt[s]
  <1>1. SetAttribute(o, n, v)
    BY SetIsSetAttribute
  <1>2. n \in Names
    BY AttrICAssumption
  <1>3. InstanceOK'
    BY <1>1, <1>2, InvInstanceOK, SetAttributeInstance
  <1>4. UNCHANGED <<gver, cdict>>
    BY <1>1 DEF SetAttribute
  <1>5. /\ getIC' \in [GetSites -> ReadEntries']
        /\ setIC' \in [SetSites -> WriteEntries']
        /\ CachesValid'
    <2>1. CASE RtSetattrGeneric(s, o, v) \/ RtSetattrHit(s, o, v)
      BY <1>4, <2>1, CachesUntouched
         DEF RtSetattrGeneric, RtSetattrHit, icVars
    <2>2. CASE RtSetattrClassBound(s, o, v)
      BY <1>4, <2>2, SetCacheEmptied DEF RtSetattrClassBound
    <2>3. CASE RtSetattrExisting(s, o, v)
      <3>1. /\ TypeOf[o] \notin CustomSet
            /\ ClassBinding(o, n) = Absent
            /\ Has(shape[o], n)
            /\ getIC' = getIC
            /\ setIC' = [setIC EXCEPT
                   ![s] = WriteEntry(o, shape[o], Offset(shape[o], n))]
        BY <2>3 DEF RtSetattrExisting, SetGeneric
      <3>2. /\ Offset(shape[o], n) \in DOMAIN shape[o]
            /\ shape[o][Offset(shape[o], n)] = n
        BY <3>1, InvInstanceOK, OffsetFound DEF InstanceOK
      <3> QED
        BY <1>4, <3>1, <3>2, SetCacheFilled
    <2>4. CASE RtSetattrTransition(s, o, v)
      <3> DEFINE next == Transition(shape[o], n)
                 off == Offset(next, n)
      <3>1. /\ TypeOf[o] \notin CustomSet
            /\ ClassBinding(o, n) = Absent
            /\ ~Has(shape[o], n)
            /\ getIC' = getIC
            /\ setIC' = [setIC EXCEPT ![s] = WriteEntry(o, next, off)]
        BY <2>4 DEF RtSetattrTransition, SetGeneric
      <3>2. /\ shape[o] \in Seq(Names)
            /\ \A j, k \in DOMAIN shape[o] :
                  shape[o][j] = shape[o][k] => j = k
        BY InvInstanceOK DEF InstanceOK, SlotsMatchShape
      <3>3. off = Len(shape[o]) + 1
        BY <1>2, <3>1, <3>2, TransitionShape
      <3>4. next = Append(shape[o], n)
        BY DEF Transition
      <3> HIDE DEF next, off
      <3> QED
        BY <1>4, <3>1, <3>3, <3>4, SetCacheFilled
    <2> QED
      BY <2>1, <2>2, <2>3, <2>4 DEF RtSetattrIC
  <1> QED
    BY <1>3, <1>4, <1>5, Reassemble

\* A class mutation: the new version is newer than every entry.
LEMMA ClassPreserves ==
    ASSUME IInv, NEW c \in Classes, NEW n \in Names, NEW v \in Values,
           SetClassAttribute(c, n, v), UNCHANGED icVars
    PROVE  IInv'
  <1>1. ObjTypeOK' /\ SlotsMatchShape' /\ gver \in Nat /\ gver' = gver + 1
    BY ClassStep DEF IInv, TypeOK
  <1>2. 0..gver \subseteq 0..gver'
    BY <1>1
  <1>3. ReadEntries \subseteq ReadEntries' /\ WriteEntries \subseteq WriteEntries'
    BY <1>2 DEF ReadEntries, WriteEntries
  <1>4. /\ getIC' \in [GetSites -> ReadEntries']
        /\ setIC' \in [SetSites -> WriteEntries']
    BY <1>3 DEF IInv, TypeOK, icVars
  <1>5. \A e \in ReadEntries : e.kind = 1 => e.version # gver'
    BY <1>1 DEF ReadEntries
  <1>6. \A e \in WriteEntries : e.kind = 2 => e.version # gver'
    BY <1>1 DEF WriteEntries
  <1>7. CachesValid'
    BY <1>5, <1>6 DEF CachesValid, ReadEntryValid, WriteEntryValid, IInv,
       TypeOK, icVars
  <1> QED
    BY <1>1, <1>4, <1>7 DEF IInv, TypeOK

\* The operations on __dict__ touch neither shapes nor classes nor caches.
LEMMA DictPreserves ==
    ASSUME IInv, NEW o \in Objs, UNCHANGED icVars,
           \/ MaterializeDict(o)
           \/ \E n \in Names, v \in Binding : WriteDict(o, n, v)
           \/ \E d \in Namespace : AssignDict(o, d)
    PROVE  IInv'
  <1>1. InstanceOK' /\ UNCHANGED <<gver, cdict, shape, slots>>
    BY InvInstanceOK, DictInstance
  <1> QED
    BY <1>1, CachesUntouched, Reassemble DEF icVars

\* Zero-initialised caches and fresh instances satisfy the invariant.
LEMMA InitInv == Init => IInv
  <1> SUFFICES ASSUME Init PROVE IInv
    OBVIOUS
  <1>1. ObjTypeOK
    BY ObjectModelAssumption DEF Init, ObjInit, ObjTypeOK, Outcome, Outcomes,
       Vias, Binding
  <1>2. SlotsMatchShape
    BY DEF Init, ObjInit, SlotsMatchShape
  <1>3. EmptyGet \in ReadEntries /\ EmptySet \in WriteEntries
    BY DEF EmptyGet, EmptySet, ReadEntries, WriteEntries
  <1>4. CachesValid
    BY DEF Init, CachesValid, ReadEntryValid, WriteEntryValid, EmptyGet,
       EmptySet
  <1> QED
    BY <1>1, <1>2, <1>3, <1>4 DEF Init, IInv, TypeOK

\* Every step of a program preserves the invariant.
LEMMA StepInv == IInv /\ [Next]_vars => IInv'
  <1> SUFFICES ASSUME IInv, [Next]_vars PROVE IInv'
    OBVIOUS
  <1>1. ASSUME NEW s \in GetSites, NEW o \in Objs, RtGetattrIC(s, o)
        PROVE  IInv'
    BY <1>1, GetPreserves
  <1>2. ASSUME NEW s \in SetSites, NEW o \in Objs, NEW v \in Values,
               RtSetattrIC(s, o, v)
        PROVE  IInv'
    BY <1>2, SetPreserves
  <1>3. ASSUME NEW c \in Classes, NEW n \in Names, NEW v \in Values,
               SetClassAttribute(c, n, v), UNCHANGED icVars
        PROVE  IInv'
    BY <1>3, ClassPreserves
  <1>4. ASSUME NEW o \in Objs, UNCHANGED icVars,
               \/ MaterializeDict(o)
               \/ \E n \in Names, v \in Binding : WriteDict(o, n, v)
               \/ \E d \in Namespace : AssignDict(o, d)
        PROVE  IInv'
    BY <1>4, DictPreserves
  <1>5. CASE UNCHANGED vars
    BY <1>5 DEF vars, IInv, TypeOK, ObjTypeOK, SlotsMatchShape, CachesValid,
       ReadEntryValid, WriteEntryValid, ReadEntries, WriteEntries
  <1> QED
    BY <1>1, <1>2, <1>3, <1>4, <1>5 DEF Next, ObjNext

\* The inductive invariant holds in every reachable state.
THEOREM Invariance == Spec => []IInv
  BY InitInv, StepInv, PTL DEF Spec

\* Every slot holds a value and no cache entry is newer than the global type
\* version, whatever the program does.
THEOREM TypeCorrect == Spec => []TypeOK
  BY Invariance, PTL DEF IInv

\* m_slots and m_shape of an instance stay in step, through the slow path and
\* through the stores of the write cache.
THEOREM SlotsFollowShape == Spec => []SlotsMatchShape
  BY Invariance, PTL DEF IInv

\* Every current entry of a read or write cache is valid.
THEOREM CachesStayValid == Spec => []CachesValid
  BY Invariance, PTL DEF IInv

\* rt_attr_cache.cpp:104-106: the version/shape/type guard is enough.
THEOREM ReadHitSound == Spec => []HitAgreesWithGetattribute
  <1>1. IInv => HitAgreesWithGetattribute
    BY GetHitSound DEF HitAgreesWithGetattribute
  <1> QED
    BY <1>1, Invariance, PTL

\* A hit of the write cache installs the shape and offset of the slow path
\* and bypasses no property.
THEOREM WriteHitSound == Spec => []HitAgreesWithSetattribute
  <1>1. ASSUME IInv, NEW s \in SetSites, NEW o \in Objs, SetHit(s, o)
        PROVE  /\ ~HasSet(ClassBinding(o, NameAt[s]))
               /\ setIC[s].next =
                      IF Has(shape[o], NameAt[s]) THEN shape[o]
                      ELSE Transition(shape[o], NameAt[s])
               /\ setIC[s].offset = Offset(setIC[s].next, NameAt[s])
    <2> DEFINE n == NameAt[s]
               e == setIC[s]
    <2>1. /\ ClassBinding(o, n) = Absent
          /\ \/ /\ e.next = shape[o]
                /\ e.offset \in DOMAIN shape[o]
                /\ shape[o][e.offset] = n
             \/ /\ ~Has(shape[o], n)
                /\ e.next = Append(shape[o], n)
                /\ e.offset = Len(shape[o]) + 1
      BY <1>1 DEF SetHit, IInv, CachesValid, WriteEntryValid, ClassBinding
    <2>2. ~HasSet(ClassBinding(o, n))
      BY <2>1, AttrValuesAssumption DEF HasSet, Values
    <2>3. /\ shape[o] \in Seq(Names)
          /\ \A j, k \in DOMAIN shape[o] : shape[o][j] = shape[o][k] => j = k
      BY <1>1, InvInstanceOK DEF InstanceOK, SlotsMatchShape
    <2>4. n \in Names
      BY AttrICAssumption
    <2> HIDE DEF n, e
    <2>5. CASE /\ e.next = shape[o]
               /\ e.offset \in DOMAIN shape[o]
               /\ shape[o][e.offset] = n
      <3>1. Has(shape[o], n) /\ Offset(shape[o], n) = e.offset
        BY <2>3, <2>5, OffsetUnique
      <3> QED
        BY <2>2, <2>5, <3>1 DEF n, e
    <2>6. CASE /\ ~Has(shape[o], n)
               /\ e.next = Append(shape[o], n)
               /\ e.offset = Len(shape[o]) + 1
      <3>1. Offset(Transition(shape[o], n), n) = Len(shape[o]) + 1
        BY <2>3, <2>4, <2>6, TransitionShape
      <3>2. e.next = Transition(shape[o], n)
        BY <2>6 DEF Transition
      <3> QED
        BY <2>2, <2>6, <3>1, <3>2 DEF n, e
    <2> QED
      BY <2>1, <2>5, <2>6 DEF n, e
  <1>2. IInv => HitAgreesWithSetattribute
    BY <1>1 DEF HitAgreesWithSetattribute
  <1> QED
    BY <1>2, Invariance, PTL

-----------------------------------------------------------------------------
\* The refinement: the caches, shapes and dictionaries implement AttrSpec.

\* The namespace of every instance, as AttrSpec sees it.
NS == [o \in Objs |-> [n \in Names |-> InstanceBinding(o, n)]]

\* A step that changes no instance changes no namespace.
LEMMA NSUnchanged ==
    ASSUME UNCHANGED <<shape, slots, idict>>
    PROVE  NS' = NS
  BY DEF NS, InstanceBinding

\* Whichever of the three places StoreInInstance writes to, the namespace of
\* the instance changes at that name and nowhere else.
LEMMA StoreIsNamespaceWrite ==
    ASSUME InstanceOK, NEW o \in Objs, NEW n \in Names, NEW v \in Values,
           StoreInInstance(o, n, v)
    PROVE  NS' = [NS EXCEPT ![o][n] = v]
  <1>1. /\ shape \in [Objs -> Seq(Names)]
        /\ slots \in [Objs -> Seq(Values)]
        /\ idict \in [Objs -> Namespace \union {NoDict}]
        /\ shape[o] \in Seq(Names)
        /\ slots[o] \in Seq(Values)
        /\ Len(slots[o]) = Len(shape[o])
        /\ \A j, k \in DOMAIN shape[o] : shape[o][j] = shape[o][k] => j = k
    BY DEF InstanceOK, SlotsMatchShape
  <1>2. ASSUME NEW q \in Objs, q # o, NEW m \in Names
        PROVE  InstanceBinding(q, m)' = InstanceBinding(q, m)
    <2>1. shape'[q] = shape[q] /\ slots'[q] = slots[q] /\ idict'[q] = idict[q]
      BY <1>1, <1>2 DEF StoreInInstance
    <2> QED
      BY <2>1 DEF InstanceBinding
  <1>3. ASSUME NEW m \in Names
        PROVE  InstanceBinding(o, m)'
                   = IF m = n THEN v ELSE InstanceBinding(o, m)
    <2>1. CASE /\ idict[o] # NoDict
               /\ idict' = [idict EXCEPT ![o][n] = v]
               /\ UNCHANGED <<shape, slots>>
      <3>1. idict[o] \in Namespace
        BY <1>1, <2>1
      <3>2. /\ idict'[o] = [idict[o] EXCEPT ![n] = v]
            /\ idict'[o] \in Namespace
        BY <1>1, <2>1, <3>1 DEF Namespace, Binding
      <3>3. idict'[o] # NoDict
        BY <3>2, ObjectModelAssumption
      <3> QED
        BY <2>1, <3>1, <3>2, <3>3 DEF InstanceBinding, Namespace
    <2>2. CASE /\ idict[o] = NoDict
               /\ Has(shape[o], n)
               /\ slots' = [slots EXCEPT ![o][Offset(shape[o], n)] = v]
               /\ UNCHANGED <<shape, idict>>
      <3> DEFINE off == Offset(shape[o], n)
      <3>1. off \in DOMAIN shape[o] /\ shape[o][off] = n
        BY <1>1, <2>2, OffsetFound
      <3>2. slots'[o] = [slots[o] EXCEPT ![off] = v]
        BY <1>1, <2>2
      <3>3. off \in DOMAIN slots[o]
        BY <1>1, <3>1
      <3>4. CASE m = n
        BY <2>2, <3>2, <3>3, <3>4 DEF InstanceBinding
      <3>5. CASE m # n /\ Has(shape[o], m)
        <4>1. /\ Offset(shape[o], m) \in DOMAIN shape[o]
              /\ shape[o][Offset(shape[o], m)] = m
          BY <1>1, <3>5, OffsetFound
        <4>2. Offset(shape[o], m) # off
          BY <3>1, <3>5, <4>1
        <4>3. slots'[o][Offset(shape[o], m)] = slots[o][Offset(shape[o], m)]
          BY <1>1, <3>2, <4>1, <4>2
        <4> QED
          BY <2>2, <3>5, <4>3 DEF InstanceBinding
      <3>6. CASE m # n /\ ~Has(shape[o], m)
        BY <2>2, <3>6 DEF InstanceBinding
      <3> QED
        BY <3>4, <3>5, <3>6
    <2>3. CASE /\ idict[o] = NoDict
               /\ ~Has(shape[o], n)
               /\ shape' = [shape EXCEPT ![o] = Transition(@, n)]
               /\ slots' = [slots EXCEPT ![o] = Append(@, v)]
               /\ UNCHANGED idict
      <3> DEFINE next == Transition(shape[o], n)
      <3>1. /\ next \in Seq(Names)
            /\ Len(next) = Len(shape[o]) + 1
            /\ \A i \in DOMAIN shape[o] : next[i] = shape[o][i]
            /\ next[Len(shape[o]) + 1] = n
            /\ \A j, k \in DOMAIN next : next[j] = next[k] => j = k
            /\ Has(next, n)
            /\ Offset(next, n) = Len(shape[o]) + 1
        BY <1>1, <2>3, TransitionShape
      <3>2. shape'[o] = next /\ slots'[o] = Append(slots[o], v)
        BY <1>1, <2>3
      <3> HIDE DEF next
      <3>3. CASE m = n
        <4>1. slots'[o][Len(shape[o]) + 1] = v
          BY <1>1, <3>2
        <4> QED
          BY <2>3, <3>1, <3>2, <3>3, <4>1 DEF InstanceBinding
      <3>4. CASE m # n /\ Has(shape[o], m)
        <4> DEFINE k == Offset(shape[o], m)
        <4>1. k \in DOMAIN shape[o] /\ shape[o][k] = m
          BY <1>1, <3>4, OffsetFound
        <4> HIDE DEF k
        <4>2. k \in DOMAIN next /\ next[k] = m
          BY <1>1, <3>1, <4>1
        <4>3. Has(next, m) /\ Offset(next, m) = k
          BY <3>1, <4>2, OffsetUnique
        <4>4. slots'[o][k] = slots[o][k]
          BY <1>1, <3>2, <4>1
        <4> QED
          BY <2>3, <3>2, <3>4, <4>3, <4>4 DEF InstanceBinding, k
      <3>5. CASE m # n /\ ~Has(shape[o], m)
        <4>1. ASSUME NEW i \in DOMAIN next
              PROVE  next[i] # m
          <5>1. i \in DOMAIN shape[o] \/ i = Len(shape[o]) + 1
            BY <1>1, <3>1
          <5> QED
            BY <3>1, <3>5, <5>1 DEF Has
        <4>2. ~Has(next, m)
          BY <4>1 DEF Has
        <4> QED
          BY <2>3, <3>2, <3>5, <4>2 DEF InstanceBinding
      <3> QED
        BY <3>3, <3>4, <3>5
    <2> QED
      BY <2>1, <2>2, <2>3 DEF StoreInInstance
  <1> QED
    BY <1>2, <1>3 DEF NS

\* Assigning an attribute is one of the three assignments of AttrSpec.
LEMMA SetAttributeRefines ==
    ASSUME InstanceOK, NEW o \in Objs, NEW n \in Names, NEW v \in Values,
           SetAttribute(o, n, v)
    PROVE  Attributes!Next
  <1>1. cdict' = cdict
    BY DEF SetAttribute
  <1>2. CASE /\ TypeOf[o] \in CustomSet
             /\ result' = Outcome("user __setattr__", Absent, o)
             /\ UNCHANGED <<shape, slots, idict>>
    <2>1. NS' = NS
      BY <1>2, NSUnchanged
    <2>2. Attributes!SetAttrByUser(o)
      BY <1>1, <1>2, <2>1 DEF Attributes!SetAttrByUser, Outcome,
         Attributes!Outcome, NS
    <2> QED
      BY <2>2 DEF Attributes!Next
  <1>3. CASE /\ TypeOf[o] \notin CustomSet
             /\ HasSet(ClassBinding(o, n))
             /\ result' = Outcome("__set__", ClassBinding(o, n), o)
             /\ UNCHANGED <<shape, slots, idict>>
    <2>1. NS' = NS
      BY <1>3, NSUnchanged
    <2>2. Attributes!Lookup(cdict, TypeOf[o], n) = ClassBinding(o, n)
      BY DEF Attributes!Lookup, Lookup, ClassBinding
    <2>3. Attributes!SetAttrByDescriptor(o, n)
      BY <1>1, <1>3, <2>1, <2>2 DEF Attributes!SetAttrByDescriptor, Outcome,
         Attributes!Outcome, Attributes!HasSet, HasSet, NS
    <2> QED
      BY <2>3 DEF Attributes!Next
  <1>4. CASE /\ TypeOf[o] \notin CustomSet
             /\ ~HasSet(ClassBinding(o, n))
             /\ StoreInInstance(o, n, v)
    <2>1. NS' = [NS EXCEPT ![o][n] = v]
      BY <1>4, StoreIsNamespaceWrite
    <2>2. Attributes!Lookup(cdict, TypeOf[o], n) = ClassBinding(o, n)
      BY DEF Attributes!Lookup, Lookup, ClassBinding
    <2>3. result' = Outcome("stored", v, o)
      BY <1>4 DEF StoreInInstance
    <2>4. Attributes!SetAttrInNamespace(o, n, v)
      BY <1>1, <1>4, <2>1, <2>2, <2>3 DEF Attributes!SetAttrInNamespace,
         Outcome, Attributes!Outcome, Attributes!HasSet, HasSet, NS
    <2> QED
      BY <2>4 DEF Attributes!Next, Attributes!Values, Values
  <1> QED
    BY <1>2, <1>3, <1>4 DEF SetAttribute

\* The operations on __dict__: asking for it is invisible, writing through it
\* and replacing it are operations of AttrSpec.
LEMMA DictRefines ==
    ASSUME InstanceOK, NEW o \in Objs, UNCHANGED icVars,
           \/ MaterializeDict(o)
           \/ \E n \in Names, v \in Binding : WriteDict(o, n, v)
           \/ \E d \in Namespace : AssignDict(o, d)
    PROVE  [Attributes!Next]_(Attributes!vars)
  <1>0. /\ idict \in [Objs -> Namespace \union {NoDict}]
        /\ UNCHANGED <<cdict, shape, slots>>
        /\ NoDict \notin Namespace
    BY ObjectModelAssumption
       DEF InstanceOK, MaterializeDict, WriteDict, AssignDict
  <1>1. ASSUME NEW ns \in Namespace, idict' = [idict EXCEPT ![o] = ns]
        PROVE  NS' = [NS EXCEPT ![o] = ns]
    <2>1. ASSUME NEW q \in Objs, q # o, NEW m \in Names
          PROVE  InstanceBinding(q, m)' = InstanceBinding(q, m)
      BY <1>0, <1>1, <2>1 DEF InstanceBinding
    <2>2. idict'[o] = ns /\ ns # NoDict
      BY <1>0, <1>1
    <2>3. \A m \in Names : InstanceBinding(o, m)' = ns[m]
      BY <2>2 DEF InstanceBinding
    <2>4. ns = [m \in Names |-> ns[m]]
      BY <1>1 DEF Namespace
    <2>5. [m \in Names |-> InstanceBinding(o, m)'] = ns
      BY <2>3, <2>4
    <2>6. ASSUME NEW q \in Objs, q # o
          PROVE  [m \in Names |-> InstanceBinding(q, m)']
                     = [m \in Names |-> InstanceBinding(q, m)]
      BY <2>1, <2>6
    <2>7. NS'[o] = ns /\ \A q \in Objs : q # o => NS'[q] = NS[q]
      BY <2>5, <2>6 DEF NS
    <2>8. NS = [q \in Objs |-> NS[q]] /\ NS' = [q \in Objs |-> NS'[q]]
      BY DEF NS
    <2> HIDE DEF NS
    <2> QED
      BY <2>7, <2>8
  <1>2. CASE MaterializeDict(o)
    <2>1. [n \in Names |-> InstanceBinding(o, n)] \in Namespace
      BY InstanceBindingType DEF Namespace
    <2>2. NS' = [NS EXCEPT ![o] = [n \in Names |-> InstanceBinding(o, n)]]
      BY <1>1, <1>2, <2>1 DEF MaterializeDict
    <2>3. NS' = NS
      BY <2>2 DEF NS
    <2> QED
      BY <1>0, <1>2, <2>3 DEF MaterializeDict, Attributes!vars, NS
  <1>3. ASSUME NEW n \in Names, NEW v \in Binding, WriteDict(o, n, v)
        PROVE  Attributes!Next
    <2>1. idict[o] \in Namespace /\ idict[o] # NoDict
      BY <1>0, <1>3 DEF WriteDict
    <2>2. [idict[o] EXCEPT ![n] = v] \in Namespace
      BY <2>1 DEF Namespace
    <2>3. idict' = [idict EXCEPT ![o] = [idict[o] EXCEPT ![n] = v]]
      BY <1>3 DEF WriteDict
    <2>4. NS' = [NS EXCEPT ![o] = [idict[o] EXCEPT ![n] = v]]
      BY <1>1, <2>2, <2>3
    <2>5. NS[o] = idict[o]
      BY <2>1 DEF NS, InstanceBinding, Namespace
    <2>6. NS' = [NS EXCEPT ![o][n] = v]
      BY <2>4, <2>5
    <2>7. Attributes!WriteNamespace(o, n, v)
      BY <1>0, <1>3, <2>6 DEF WriteDict, Attributes!WriteNamespace, Outcome,
         Attributes!Outcome, NS
    <2> QED
      BY <2>7 DEF Attributes!Next, Attributes!Binding, Binding,
         Attributes!Values, Values
  <1>4. ASSUME NEW d \in Namespace, AssignDict(o, d)
        PROVE  Attributes!Next
    <2>1. NS' = [NS EXCEPT ![o] = d]
      BY <1>1, <1>4 DEF AssignDict
    <2>2. Attributes!ReplaceNamespace(o, d)
      BY <1>0, <1>4, <2>1 DEF AssignDict, Attributes!ReplaceNamespace,
         Outcome, Attributes!Outcome, NS
    <2>3. Attributes!Namespace = Namespace
      BY DEF Attributes!Namespace, Namespace, Attributes!Binding, Binding,
         Attributes!Values, Values
    <2> QED
      BY <2>2, <2>3 DEF Attributes!Next
  <1> QED
    BY <1>2, <1>3, <1>4

\* A fresh program is a fresh AttrSpec.
LEMMA InitRefines == Init => Attributes!Init
  <1> SUFFICES ASSUME Init PROVE Attributes!Init
    OBVIOUS
  <1>1. \A o \in Objs, n \in Names : InstanceBinding(o, n) = Absent
    BY DEF Init, ObjInit, InstanceBinding, Has
  <1>2. Attributes!Namespace = Namespace /\ Attributes!Outcomes = Outcomes
    BY DEF Attributes!Namespace, Namespace, Attributes!Binding, Binding,
       Attributes!Values, Values, Attributes!Outcomes, Outcomes,
       Attributes!Vias, Vias
  <1>3. result \in Outcomes /\ cdict \in [Classes -> Namespace]
    BY InitInv DEF IInv, TypeOK, ObjTypeOK
  <1> QED
    BY <1>1, <1>2, <1>3 DEF Attributes!Init

\* Every step of the runtime is a step of AttrSpec or invisible to it.
LEMMA StepRefines == IInv /\ [Next]_vars => [Attributes!Next]_(Attributes!vars)
  <1> SUFFICES ASSUME IInv, [Next]_vars
               PROVE  [Attributes!Next]_(Attributes!vars)
    OBVIOUS
  <1>0. InstanceOK
    BY InvInstanceOK
  <1>1. ASSUME NEW s \in GetSites, NEW o \in Objs, RtGetattrIC(s, o)
        PROVE  Attributes!Next
    <2>1. /\ result' = GetAttribute(o, NameAt[s])
          /\ UNCHANGED <<cdict, shape, slots, idict>>
      BY <1>1, GetIsGetAttribute
    <2>2. NameAt[s] \in Names
      BY AttrICAssumption
    <2>3. NS' = NS /\ NS[o][NameAt[s]] = InstanceBinding(o, NameAt[s])
      BY <2>1, <2>2, NSUnchanged DEF NS
    <2>4. Attributes!Lookup(cdict, TypeOf[o], NameAt[s])
              = ClassBinding(o, NameAt[s])
      BY DEF Attributes!Lookup, Lookup, ClassBinding
    <2>5. Attributes!GetAttr(o, NameAt[s])
      BY <2>1, <2>3, <2>4 DEF Attributes!GetAttr, GetAttribute, Resolve,
         Attributes!Resolve, Outcome, Attributes!Outcome, HasGet,
         Attributes!HasGet, NS
    <2> QED
      BY <2>2, <2>5 DEF Attributes!Next
  <1>2. ASSUME NEW s \in SetSites, NEW o \in Objs, NEW v \in Values,
               RtSetattrIC(s, o, v)
        PROVE  Attributes!Next
    <2>1. NameAt[s] \in Names
      BY AttrICAssumption
    <2>2. SetAttribute(o, NameAt[s], v)
      BY <1>2, SetIsSetAttribute
    <2> QED
      BY <1>0, <2>1, <2>2, SetAttributeRefines
  <1>3. ASSUME NEW c \in Classes, NEW n \in Names, NEW v \in Values,
               SetClassAttribute(c, n, v)
        PROVE  Attributes!Next
    <2>1. NS' = NS
      BY <1>3, NSUnchanged DEF SetClassAttribute
    <2>2. Attributes!SetClassAttr(c, n, v)
      BY <1>3, <2>1 DEF SetClassAttribute, Attributes!SetClassAttr, Outcome,
         Attributes!Outcome, NS
    <2> QED
      BY <2>2 DEF Attributes!Next, Attributes!Values, Values
  <1>4. ASSUME NEW o \in Objs, UNCHANGED icVars,
               \/ MaterializeDict(o)
               \/ \E n \in Names, v \in Binding : WriteDict(o, n, v)
               \/ \E d \in Namespace : AssignDict(o, d)
        PROVE  [Attributes!Next]_(Attributes!vars)
    BY <1>0, <1>4, DictRefines
  <1>5. CASE UNCHANGED vars
    <2>1. NS' = NS
      BY <1>5, NSUnchanged DEF vars
    <2> QED
      BY <1>5, <2>1 DEF vars, Attributes!vars, NS
  <1> QED
    BY <1>1, <1>2, <1>3, <1>4, <1>5 DEF Next, ObjNext

\* The inline caches, the shapes with their slots and the materialised
\* dictionaries together implement plain attribute access.
THEOREM Refinement == Spec => ImplementsAttrSpec
  BY Invariance, InitRefines, StepRefines, PTL
     DEF Spec, ImplementsAttrSpec, Attributes!Spec

-----------------------------------------------------------------------------
\* What a step does to a shape.

\* PyObject::__setattribute__ extends at most the shape of its instance.
LEMMA SetAttributeGrows ==
    ASSUME InstanceOK, NEW o \in Objs, NEW n \in Names, NEW v \in Values,
           SetAttribute(o, n, v), NEW q \in Objs
    PROVE  \/ shape'[q] = shape[q]
           \/ \E m \in Names : shape'[q] = Append(shape[q], m)
  <1>1. \/ shape' = shape
        \/ shape' = [shape EXCEPT ![o] = Append(shape[o], n)]
    BY DEF SetAttribute, StoreInInstance, Transition
  <1> QED
    BY <1>1 DEF InstanceOK

\* A shape only ever grows, one name at a time, on the fast paths too: an
\* offset that was handed out stays good as long as the instance lives.
THEOREM ShapesGrow == Spec => ShapesOnlyGrow
  <1>1. ASSUME IInv, [Next]_vars
        PROVE  [\A o \in Objs :
                   \/ shape'[o] = shape[o]
                   \/ \E n \in Names : shape'[o] = Append(shape[o], n)]_vars
    <2>1. ASSUME NEW s \in SetSites, NEW o \in Objs, NEW v \in Values,
                 RtSetattrIC(s, o, v), NEW q \in Objs
          PROVE  \/ shape'[q] = shape[q]
                 \/ \E n \in Names : shape'[q] = Append(shape[q], n)
      <3>1. NameAt[s] \in Names
        BY AttrICAssumption
      <3>2. SetAttribute(o, NameAt[s], v)
        BY <1>1, <2>1, SetIsSetAttribute
      <3> QED
        BY <1>1, <3>1, <3>2, InvInstanceOK, SetAttributeGrows
    <2>2. ASSUME NEW s \in GetSites, NEW o \in Objs, RtGetattrIC(s, o)
          PROVE  shape' = shape
      BY <1>1, <2>2, GetIsGetAttribute
    <2>3. CASE ObjNext
      BY <2>3 DEF ObjNext, SetClassAttribute, MaterializeDict, WriteDict,
         AssignDict
    <2> QED
      BY <1>1, <2>1, <2>2, <2>3 DEF Next, vars
  <1> QED
    BY <1>1, Invariance, PTL DEF Spec, ShapesOnlyGrow
=============================================================================
