------------------------------- MODULE AttrIC -------------------------------
(***************************************************************************)
(* The monomorphic inline caches of compiled attribute reads and writes    *)
(* (runtime/export/cache/rt_attr_cache.cpp).  The compiler emits one       *)
(* zero-initialised AttrCache per source occurrence of o.n and o.n = v, so *)
(* a cache serves one name and either reads or writes.                     *)
(*                                                                         *)
(* The thread-local py::AttrCache table that resolve_default_getattr       *)
(* consults has no variable here: its lookup and its update declare a      *)
(* table each (AttributeCache.hpp:71 and :79), so nothing that is stored   *)
(* is ever found and every resolution walks the MRO.                       *)
(***************************************************************************)
EXTENDS ObjectModel

CONSTANTS GetSites,  \* occurrences of o.n in compiled code
          SetSites,  \* occurrences of o.n = v
          NameAt     \* the name an occurrence is about

ASSUME AttrICAssumption ==
    /\ GetSites \intersect SetSites = {}
    /\ NameAt \in [GetSites \union SetSites -> Names]

VARIABLES getIC,  \* getIC[s]: the AttrCache of a read
          setIC   \* setIC[s]: the AttrCache of a write

icVars == <<getIC, setIC>>
vars == <<gver, cdict, shape, slots, idict, result, getIC, setIC>>

-----------------------------------------------------------------------------
\* kind 0: nothing cached (llvm::Constant::getNullValue)
EmptyGet == [kind |-> 0]
EmptySet == [kind |-> 0]

\* kind 1: a slot to read for instances of one type and one shape
ReadEntry(o, off) ==
    [kind |-> 1, type |-> TypeOf[o], version |-> gver,
     shape |-> shape[o], offset |-> off]

\* kind 2: a slot to write, and the shape the instance has afterwards
WriteEntry(o, next, off) ==
    [kind |-> 2, type |-> TypeOf[o], version |-> gver,
     shape |-> shape[o], next |-> next, offset |-> off]

Init ==
    /\ ObjInit
    /\ getIC = [s \in GetSites |-> EmptyGet]
    /\ setIC = [s \in SetSites |-> EmptySet]

-----------------------------------------------------------------------------
\* Mutant of GetHit: the hot path forgets that there may be a dictionary.
GetHitAnyDict(s, o) ==
    /\ getIC[s].kind = 1
    /\ getIC[s].type = TypeOf[o]
    /\ getIC[s].shape = shape[o]
    /\ getIC[s].version = gver

\* Mutant of GetHit: the shape is not compared.
GetHitAnyShape(s, o) ==
    /\ getIC[s].kind = 1
    /\ getIC[s].type = TypeOf[o]
    /\ getIC[s].version = gver
    /\ idict[o] = NoDict

\* The guard of the hot path of rt_getattr_ic.
GetHit(s, o) ==
    /\ getIC[s].kind = 1
    /\ getIC[s].type = TypeOf[o]
    /\ getIC[s].shape = shape[o]
    /\ getIC[s].version = gver
    /\ idict[o] = NoDict

RtGetattrHit(s, o) ==
    /\ GetHit(s, o)
    /\ result' = Outcome("value", slots[o][getIC[s].offset], o)
    /\ UNCHANGED <<gver, cdict, shape, slots, idict, getIC, setIC>>

\* A miss empties the cache; a type with its own __getattribute__ or an
\* instance with a dictionary is left to PyObject::getattribute.
RtGetattrGeneric(s, o) ==
    /\ ~GetHit(s, o)
    /\ TypeOf[o] \in CustomGet \/ idict[o] # NoDict
    /\ getIC' = [getIC EXCEPT ![s] = EmptyGet]
    /\ result' = GetAttribute(o, NameAt[s])
    /\ UNCHANGED <<gver, cdict, shape, slots, idict, setIC>>

\* resolve_default_getattr: a class attribute with __get__, then the slot of
\* the shape (which is what gets cached), then the class attribute or an error.
ResolveDefaultGetattr(s, o) ==
    LET n == NameAt[s]
        d == ClassBinding(o, n)
    IN  \/ /\ HasGet(d)
           /\ getIC' = [getIC EXCEPT ![s] = EmptyGet]
           /\ result' = Outcome("__get__", d, o)
        \/ /\ ~HasGet(d)
           /\ Has(shape[o], n)
           /\ getIC' = [getIC EXCEPT
                           ![s] = ReadEntry(o, Offset(shape[o], n))]
           /\ result' = Outcome("value", slots[o][Offset(shape[o], n)], o)
        \/ /\ ~HasGet(d)
           /\ ~Has(shape[o], n)
           /\ getIC' = [getIC EXCEPT ![s] = EmptyGet]
           /\ result' = IF d # Absent THEN Outcome("value", d, o)
                                      ELSE Outcome("AttributeError", Absent, o)

RtGetattrMiss(s, o) ==
    /\ ~GetHit(s, o)
    /\ TypeOf[o] \notin CustomGet
    /\ idict[o] = NoDict
    /\ ResolveDefaultGetattr(s, o)
    /\ UNCHANGED <<gver, cdict, shape, slots, idict, setIC>>

-----------------------------------------------------------------------------
\* Instances rt_setattr_ic hands to PyObject::setattribute before it looks
\* at the cache.
SetGeneric(o) == TypeOf[o] \in CustomSet \/ idict[o] # NoDict

RtSetattrGeneric(s, o, v) ==
    /\ SetGeneric(o)
    /\ SetAttribute(o, NameAt[s], v)
    /\ UNCHANGED icVars

\* Mutant of SetHit: the version is not compared.
SetHitAnyVersion(s, o) ==
    /\ ~SetGeneric(o)
    /\ setIC[s].kind = 2
    /\ setIC[s].type = TypeOf[o]
    /\ setIC[s].shape = shape[o]

\* Mutant of SetHit: the shape is not compared.
SetHitAnyShape(s, o) ==
    /\ ~SetGeneric(o)
    /\ setIC[s].kind = 2
    /\ setIC[s].type = TypeOf[o]
    /\ setIC[s].version = gver

\* The guard of the hot path of rt_setattr_ic.
SetHit(s, o) ==
    /\ ~SetGeneric(o)
    /\ setIC[s].kind = 2
    /\ setIC[s].type = TypeOf[o]
    /\ setIC[s].shape = shape[o]
    /\ setIC[s].version = gver

\* Mutant of PutSlot: the vector grows by one slot too many.
PutSlotOvergrow(vec, off, v) ==
    IF off <= Len(vec) THEN [vec EXCEPT ![off] = v]
    ELSE [i \in 1..(off + 1) |-> IF i = off THEN v
                                 ELSE IF i <= Len(vec) THEN vec[i] ELSE Absent]

\* push_back when the slot is the next one; otherwise grow the vector to it,
\* padding with null pointers, and store.
PutSlot(vec, off, v) ==
    IF off = Len(vec) + 1 THEN Append(vec, v)
    ELSE IF off <= Len(vec) THEN [vec EXCEPT ![off] = v]
    ELSE [i \in 1..off |-> IF i = off THEN v
                           ELSE IF i <= Len(vec) THEN vec[i] ELSE Absent]

\* Mutant of RtSetattrHit: the slot is added, the shape is not installed.
RtSetattrHitKeepShape(s, o, v) ==
    /\ SetHit(s, o)
    /\ slots' = [slots EXCEPT ![o] = PutSlot(@, setIC[s].offset, v)]
    /\ result' = Outcome("stored", v, o)
    /\ UNCHANGED <<gver, cdict, shape, idict, getIC, setIC>>

RtSetattrHit(s, o, v) ==
    /\ SetHit(s, o)
    /\ shape' = [shape EXCEPT ![o] = setIC[s].next]
    /\ slots' = [slots EXCEPT ![o] = PutSlot(@, setIC[s].offset, v)]
    /\ result' = Outcome("stored", v, o)
    /\ UNCHANGED <<gver, cdict, idict, getIC, setIC>>

\* A miss empties the cache.  Any class attribute of that name sends the
\* write to PyObject::setattribute: descriptor_is_data is applied to the type
\* of the attribute (rt_attr_cache.cpp:181), and no type is a staticmethod or
\* a slot wrapper, so it answers true for all of them.
RtSetattrClassBound(s, o, v) ==
    /\ ~SetGeneric(o) /\ ~SetHit(s, o)
    /\ ClassBinding(o, NameAt[s]) # Absent
    /\ setIC' = [setIC EXCEPT ![s] = EmptySet]
    /\ SetAttribute(o, NameAt[s], v)
    /\ UNCHANGED getIC

\* Mutant of RtSetattrExisting: the entry is made, the value is not stored.
RtSetattrExistingNoStore(s, o, v) ==
    LET off == Offset(shape[o], NameAt[s])
    IN  /\ ~SetGeneric(o) /\ ~SetHit(s, o)
        /\ ClassBinding(o, NameAt[s]) = Absent
        /\ Has(shape[o], NameAt[s])
        /\ setIC' = [setIC EXCEPT ![s] = WriteEntry(o, shape[o], off)]
        /\ result' = Outcome("stored", v, o)
        /\ UNCHANGED <<gver, cdict, shape, slots, idict, getIC>>

\* The name is already in the shape: store, and cache the offset.
RtSetattrExisting(s, o, v) ==
    LET off == Offset(shape[o], NameAt[s])
    IN  /\ ~SetGeneric(o) /\ ~SetHit(s, o)
        /\ ClassBinding(o, NameAt[s]) = Absent
        /\ Has(shape[o], NameAt[s])
        /\ setIC' = [setIC EXCEPT ![s] = WriteEntry(o, shape[o], off)]
        /\ slots' = [slots EXCEPT ![o][off] = v]
        /\ result' = Outcome("stored", v, o)
        /\ UNCHANGED <<gver, cdict, shape, idict, getIC>>

\* A new attribute: take the transition, cache it, and add the slot.
RtSetattrTransition(s, o, v) ==
    LET next == Transition(shape[o], NameAt[s])
        off  == Offset(next, NameAt[s])
    IN  /\ ~SetGeneric(o) /\ ~SetHit(s, o)
        /\ ClassBinding(o, NameAt[s]) = Absent
        /\ ~Has(shape[o], NameAt[s])
        /\ setIC' = [setIC EXCEPT ![s] = WriteEntry(o, next, off)]
        /\ shape' = [shape EXCEPT ![o] = next]
        /\ slots' = [slots EXCEPT ![o] = PutSlot(@, off, v)]
        /\ result' = Outcome("stored", v, o)
        /\ UNCHANGED <<gver, cdict, idict, getIC>>

-----------------------------------------------------------------------------
\* rt_getattr_ic and rt_setattr_ic, whole.
RtGetattrIC(s, o) ==
    RtGetattrHit(s, o) \/ RtGetattrGeneric(s, o) \/ RtGetattrMiss(s, o)

RtSetattrIC(s, o, v) ==
    \/ RtSetattrGeneric(s, o, v)
    \/ RtSetattrHit(s, o, v)
    \/ RtSetattrClassBound(s, o, v)
    \/ RtSetattrExisting(s, o, v)
    \/ RtSetattrTransition(s, o, v)

Next ==
    \/ \E s \in GetSites, o \in Objs : RtGetattrIC(s, o)
    \/ \E s \in SetSites, o \in Objs, v \in Values : RtSetattrIC(s, o, v)
    \/ ObjNext /\ UNCHANGED icVars

Spec == Init /\ [][Next]_vars

-----------------------------------------------------------------------------
ReadEntries ==
    [kind : {0}] \union
    [kind : {1}, type : Classes, version : 0..gver,
     shape : Seq(Names), offset : Nat]

WriteEntries ==
    [kind : {0}] \union
    [kind : {2}, type : Classes, version : 0..gver,
     shape : Seq(Names), next : Seq(Names), offset : Nat]

\* Every variable has its type; in particular no slot ever holds a null
\* pointer and no entry carries a version that does not exist yet.
TypeOK ==
    /\ ObjTypeOK
    /\ getIC \in [GetSites -> ReadEntries]
    /\ setIC \in [SetSites -> WriteEntries]

\* A read entry whose version is current reads the slot of its own name, and
\* no class attribute with __get__ stands in front of that slot.
ReadEntryValid(s) ==
    LET e == getIC[s]
    IN  e.kind = 1 /\ e.version = gver =>
            /\ e.type \notin CustomGet
            /\ ~HasGet(Lookup(cdict, e.type, NameAt[s]))
            /\ e.offset \in DOMAIN e.shape
            /\ e.shape[e.offset] = NameAt[s]

\* A write entry whose version is current stores under its own name, adds at
\* most one slot, the next one, and no class attribute has that name.
WriteEntryValid(s) ==
    LET e == setIC[s]
    IN  e.kind = 2 /\ e.version = gver =>
            /\ e.type \notin CustomSet
            /\ Lookup(cdict, e.type, NameAt[s]) = Absent
            /\ \/ /\ e.next = e.shape
                  /\ e.offset \in DOMAIN e.shape
                  /\ e.shape[e.offset] = NameAt[s]
               \/ /\ ~Has(e.shape, NameAt[s])
                  /\ e.next = Append(e.shape, NameAt[s])
                  /\ e.offset = Len(e.shape) + 1

\* The inductive invariant behind every property of the two caches.
CachesValid ==
    /\ \A s \in GetSites : ReadEntryValid(s)
    /\ \A s \in SetSites : WriteEntryValid(s)

\* rt_attr_cache.cpp:104-106: "a matching version/shape/type guard is enough
\* to reuse the slot directly".  Whenever the guard of the hot path holds, the
\* slot it reads is the answer PyObject::__getattribute__ would give, however
\* classes, shapes and dictionaries changed since the entry was made.
HitAgreesWithGetattribute ==
    \A s \in GetSites, o \in Objs :
        GetHit(s, o) =>
            /\ getIC[s].offset \in DOMAIN slots[o]
            /\ Outcome("value", slots[o][getIC[s].offset], o)
                   = GetAttribute(o, NameAt[s])

\* A hit of the write cache never takes a store away from a property: the
\* class binds no __set__ under that name, and the shape it installs is the
\* one Shape::transition gives.
HitAgreesWithSetattribute ==
    \A s \in SetSites, o \in Objs :
        SetHit(s, o) =>
            /\ ~HasSet(ClassBinding(o, NameAt[s]))
            /\ setIC[s].next =
                   IF Has(shape[o], NameAt[s]) THEN shape[o]
                   ELSE Transition(shape[o], NameAt[s])
            /\ setIC[s].offset = Offset(setIC[s].next, NameAt[s])

\* The caches, shapes and dictionaries are invisible: the runtime implements
\* plain attribute access.
Attributes ==
    INSTANCE AttrSpec WITH
        cls <- cdict,
        attrs <- [o \in Objs |-> [n \in Names |-> InstanceBinding(o, n)]]

ImplementsAttrSpec == Attributes!Spec

\* A shape only ever grows, by one name at a time: an offset once handed out
\* stays good for the rest of the life of the instance.
ShapesOnlyGrow ==
    [][\A o \in Objs :
          \/ shape'[o] = shape[o]
          \/ \E n \in Names : shape'[o] = Append(shape[o], n)]_vars
=============================================================================
