------------------------------ MODULE MethodIC ------------------------------
(***************************************************************************)
(* Compiled method calls o.m(...): the polymorphic inline cache of         *)
(* runtime/export/cache/rt_method_cache.cpp and the uncached path it falls *)
(* back to, rt_call_method_raw_ptrs of runtime/export/rt_func.cpp.  The    *)
(* compiler emits one zero-initialised MethodCache per call.               *)
(*                                                                         *)
(* The intrinsics for list, set and dict methods come before the cache and *)
(* concern no user class.  update_method_cache would also cache a callable *)
(* that is no descriptor (tag 2), but only where descriptor_is_data denies *)
(* it, that is for static methods, which have __get__ and are not cached:  *)
(* tag 2 never occurs, so an entry of this module is always called with    *)
(* self.                                                                   *)
(***************************************************************************)
EXTENDS ObjectModel

CONSTANTS CallSites,  \* occurrences of o.m(...) in compiled code
          MethodAt,   \* the method name of an occurrence
          Statics,    \* the static methods among Functions
          PicSlots    \* PYLANG_METHOD_CACHE_SLOTS

ASSUME MethodICAssumption ==
    /\ MethodAt \in [CallSites -> Names]
    /\ Statics \subseteq Functions
    /\ PicSlots \in Nat \ {0}

VARIABLES pic,   \* pic[s]: MethodCache::slots
          evict  \* evict[s]: MethodCache::next_evict_slot, modulo PicSlots

picVars == <<pic, evict>>
vars == <<gver, cdict, shape, slots, idict, result, pic, evict>>

-----------------------------------------------------------------------------
\* tag 0
EmptySlot == [tag |-> 0]

\* tag 1: a function of the class, to be called with the instance first
MethodEntry(o, fn) ==
    [tag |-> 1, type |-> TypeOf[o], version |-> gver,
     shape |-> shape[o], func |-> fn]

Init ==
    /\ ObjInit
    /\ pic = [s \in CallSites |-> [i \in 0..(PicSlots - 1) |-> EmptySlot]]
    /\ evict = [s \in CallSites |-> 0]

-----------------------------------------------------------------------------
\* rt_call_raw_ptrs on what PyObject::getattribute answered: a bound method
\* brings its instance along, anything else is called as it is.
CallBound(r) ==
    IF r.via = "__get__" /\ r.value \in Functions \ Statics
    THEN Outcome("called with self", r.value, r.self)
    ELSE IF r.via \in {"__get__", "value"} THEN Outcome("called", r.value, r.self)
    ELSE r

\* The slot of the instance, if the shape has the name: the dictionary of the
\* instance is not looked at.
CallFunction(o, n, fn) ==
    IF Has(shape[o], n)
    THEN Outcome("called", slots[o][Offset(shape[o], n)], o)
    ELSE Outcome("called with self", fn, o)

\* rt_call_method_raw_ptrs: what a call without a cache calls.
RawCall(o, n) ==
    LET d == ClassBinding(o, n)
    IN  IF TypeOf[o] \in CustomGet THEN CallBound(GetAttribute(o, n))
        ELSE IF d \in Statics THEN Outcome("called", d, o)
        ELSE IF d \in Functions THEN CallFunction(o, n, d)
        ELSE CallBound(GetAttribute(o, n))

-----------------------------------------------------------------------------
\* Mutant of PicMatch: the version is not compared.
PicMatchAnyVersion(s, o, i) ==
    /\ pic[s][i].tag # 0
    /\ pic[s][i].type = TypeOf[o]
    /\ pic[s][i].shape = shape[o]

\* The guard of one slot of the cache.
PicMatch(s, o, i) ==
    /\ pic[s][i].tag # 0
    /\ pic[s][i].type = TypeOf[o]
    /\ pic[s][i].shape = shape[o]
    /\ pic[s][i].version = gver

PicHit(s, o) == \E i \in 0..(PicSlots - 1) : PicMatch(s, o, i)

\* The slots are tried in order and the first match is called.
FirstMatch(s, o) ==
    CHOOSE i \in 0..(PicSlots - 1) :
        /\ PicMatch(s, o, i)
        /\ \A j \in 0..(i - 1) : ~PicMatch(s, o, j)

RtCallMethodHit(s, o) ==
    /\ PicHit(s, o)
    /\ result' = Outcome("called with self", pic[s][FirstMatch(s, o)].func, o)
    /\ UNCHANGED <<gver, cdict, shape, slots, idict, pic, evict>>

\* A miss on an instance whose class has its own __getattribute__.
RtCallMethodCustom(s, o) ==
    /\ ~PicHit(s, o)
    /\ TypeOf[o] \in CustomGet
    /\ result' = RawCall(o, MethodAt[s])
    /\ UNCHANGED <<gver, cdict, shape, slots, idict, pic, evict>>

\* Mutant of UpdateMethodCache: the eviction index does not wrap.
UpdateMethodCacheNoWrap(s, o) ==
    LET d == ClassBinding(o, MethodAt[s])
    IN  \/ /\ d \in Functions \ Statics
           /\ pic' = [pic EXCEPT ![s][evict[s]] = MethodEntry(o, d)]
           /\ evict' = [evict EXCEPT ![s] = @ + 1]
        \/ /\ d \notin Functions \ Statics
           /\ UNCHANGED picVars

\* update_method_cache: functions of the class take the next slot in turn.
UpdateMethodCache(s, o) ==
    LET d == ClassBinding(o, MethodAt[s])
    IN  \/ /\ d \in Functions \ Statics
           /\ pic' = [pic EXCEPT ![s][evict[s]] = MethodEntry(o, d)]
           /\ evict' = [evict EXCEPT ![s] = (@ + 1) % PicSlots]
        \/ /\ d \notin Functions \ Statics
           /\ UNCHANGED picVars

\* Mutant of RtCallMethodMiss: the cache is maintained on a hit too.
RtCallMethodMissAlways(s, o) ==
    /\ TypeOf[o] \notin CustomGet
    /\ UpdateMethodCache(s, o)
    /\ result' = RawCall(o, MethodAt[s])
    /\ UNCHANGED <<gver, cdict, shape, slots, idict>>

\* Any other miss maintains the cache and takes the uncached path.
RtCallMethodMiss(s, o) ==
    /\ ~PicHit(s, o)
    /\ TypeOf[o] \notin CustomGet
    /\ UpdateMethodCache(s, o)
    /\ result' = RawCall(o, MethodAt[s])
    /\ UNCHANGED <<gver, cdict, shape, slots, idict>>

\* rt_call_method_ic_ptrs, whole.
RtCallMethodIC(s, o) ==
    \/ RtCallMethodHit(s, o)
    \/ RtCallMethodCustom(s, o)
    \/ RtCallMethodMiss(s, o)

Next ==
    \/ \E s \in CallSites, o \in Objs : RtCallMethodIC(s, o)
    \/ /\ \E o \in Objs, n \in Names, v \in Values : SetAttribute(o, n, v)
       /\ UNCHANGED picVars
    \/ ObjNext /\ UNCHANGED picVars

Spec == Init /\ [][Next]_vars

-----------------------------------------------------------------------------
PicEntries ==
    [tag : {0}] \union
    [tag : {1}, type : Classes, version : 0..gver, shape : Seq(Names),
     func : Functions]

\* Every variable has its type; no entry is newer than the global version.
TypeOK ==
    /\ ObjTypeOK
    /\ pic \in [CallSites -> [0..(PicSlots - 1) -> PicEntries]]
    /\ evict \in [CallSites -> 0..(PicSlots - 1)]

\* rt_method_cache.cpp:200 "no type and no class member has changed": an entry
\* with the current version holds what PyType::lookup finds in its class now,
\* a function, and its class leaves __getattribute__ alone.
PicEntriesValid ==
    \A s \in CallSites : \A i \in 0..(PicSlots - 1) :
        LET e == pic[s][i]
        IN  e.tag # 0 /\ e.version = gver =>
                /\ e.func = Lookup(cdict, e.type, MethodAt[s])
                /\ e.func \in Functions \ Statics
                /\ e.type \notin CustomGet

\* On an instance whose shape does not have the name, a hit calls what the
\* uncached path calls.
PicHitAgreesWithRaw ==
    \A s \in CallSites, o \in Objs :
        PicHit(s, o) /\ ~Has(shape[o], MethodAt[s]) =>
            Outcome("called with self", pic[s][FirstMatch(s, o)].func, o)
                = RawCall(o, MethodAt[s])

\* The slots of a call are never spent twice on the same class and shape: up
\* to PicSlots combinations live side by side until a class changes.
PicSlotsDistinct ==
    \A s \in CallSites : \A i, j \in 0..(PicSlots - 1) :
        LET a == pic[s][i]
            b == pic[s][j]
        IN  i # j /\ a.tag # 0 /\ b.tag # 0 /\ a.version = gver
                  /\ b.version = gver =>
                a.type # b.type \/ a.shape # b.shape

\* rt_func.cpp:333 "instance attributes take precedence over non-data
\* descriptors", said of functions: a hit on an instance that holds the name
\* calls what the instance holds.
InstanceShadowsMethodOnHit ==
    \A s \in CallSites, o \in Objs :
        /\ PicHit(s, o)
        /\ InstanceBinding(o, MethodAt[s]) # Absent
        => Outcome("called with self", pic[s][FirstMatch(s, o)].func, o)
               = Outcome("called", InstanceBinding(o, MethodAt[s]), o)
=============================================================================
