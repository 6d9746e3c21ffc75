------------------------- MODULE ObjectModelProofs -------------------------
(***************************************************************************)
(* What the operations on classes and instances preserve, for every set of *)
(* classes, instances and names: the lemmas that the proofs about the      *)
(* caches of attributes and of method calls share.                         *)
(***************************************************************************)
EXTENDS ObjectModel, TLAPS, SequenceTheorems, WellFoundedInduction

-----------------------------------------------------------------------------
\* What the operators on shapes and dictionaries return.

\* Shape::lookup finds an offset inside the shape, at which the name stands.
LEMMA OffsetFound ==
    ASSUME NEW S, NEW path \in Seq(S), NEW n, Has(path, n)
    PROVE  /\ Offset(path, n) \in DOMAIN path
           /\ path[Offset(path, n)] = n
  BY DEF Has, Offset

\* In a shape that names nothing twice the offset of a name is its only place.
LEMMA OffsetUnique ==
    ASSUME NEW S, NEW path \in Seq(S), NEW i \in DOMAIN path,
           \A j, k \in DOMAIN path : path[j] = path[k] => j = k
    PROVE  /\ Has(path, path[i])
           /\ Offset(path, path[i]) = i
  <1>1. Has(path, path[i])
    BY DEF Has
  <1>2. /\ Offset(path, path[i]) \in DOMAIN path
        /\ path[Offset(path, path[i])] = path[i]
    BY <1>1, OffsetFound
  <1> QED
    BY <1>1, <1>2

\* Shape::transition keeps every offset and gives the new name the next one.
LEMMA TransitionShape ==
    ASSUME NEW path \in Seq(Names), NEW n \in Names, ~Has(path, n),
           \A j, k \in DOMAIN path : path[j] = path[k] => j = k
    PROVE  LET next == Transition(path, n)
           IN  /\ next \in Seq(Names)
               /\ Len(next) = Len(path) + 1
               /\ \A i \in DOMAIN path : next[i] = path[i]
               /\ next[Len(path) + 1] = n
               /\ \A j, k \in DOMAIN next : next[j] = next[k] => j = k
               /\ Has(next, n)
               /\ Offset(next, n) = Len(path) + 1
  <1> DEFINE next == Transition(path, n)
  <1>1. /\ next \in Seq(Names)
        /\ Len(next) = Len(path) + 1
        /\ \A i \in DOMAIN path : next[i] = path[i]
        /\ next[Len(path) + 1] = n
        /\ DOMAIN next = 1..(Len(path) + 1)
        /\ DOMAIN path = 1..Len(path)
        /\ Len(path) \in Nat
    BY DEF Transition
  <1>2. \A i \in DOMAIN path : path[i] # n
    BY DEF Has
  <1> HIDE DEF next
  <1>3. ASSUME NEW j \in DOMAIN next, NEW k \in DOMAIN next, next[j] = next[k]
        PROVE  j = k
    <2>1. CASE j \in DOMAIN path /\ k \in DOMAIN path
      BY <1>1, <1>3, <2>1
    <2>2. CASE j = Len(path) + 1 /\ k \in DOMAIN path
      BY <1>1, <1>2, <1>3, <2>2
    <2>3. CASE j \in DOMAIN path /\ k = Len(path) + 1
      BY <1>1, <1>2, <1>3, <2>3
    <2>4. CASE j = Len(path) + 1 /\ k = Len(path) + 1
      BY <2>4
    <2> QED
      BY <1>1, <2>1, <2>2, <2>3, <2>4
  <1>4. /\ Has(next, next[Len(path) + 1])
        /\ Offset(next, next[Len(path) + 1]) = Len(path) + 1
    <2>1. Len(path) + 1 \in DOMAIN next
      BY <1>1
    <2> QED
      BY <1>1, <1>3, <2>1, OffsetUnique
  <1> QED
    BY <1>1, <1>3, <1>4 DEF next

\* A non-empty set of indices has a smallest one.
LEMMA SmallestIndex ==
    ASSUME NEW T, T \subseteq Nat, T # {}
    PROVE  \E i \in T : \A j \in T : i <= j
  <1> DEFINE R == OpToRel(<, Nat)
  <1>1. IsWellFoundedOn(R, Nat)
    BY NatLessThanWellFounded, Zenon
  <1>2. \A i, j \in Nat : <<i, j>> \in R <=> i < j
    BY DEF OpToRel
  <1> HIDE DEF R
  <1>3. \E i \in T : \A j \in T : ~ (<<j, i>> \in R)
    BY <1>1, WFMin
  <1>4. PICK i \in T : \A j \in T : ~ (<<j, i>> \in R)
    BY <1>3
  <1>5. ASSUME NEW j \in T
        PROVE  i <= j
    <2>1. i \in Nat /\ j \in Nat
      OBVIOUS
    <2>2. ~ (j < i)
      BY <1>2, <1>4, <2>1, Zenon
    <2> QED
      BY <2>1, <2>2
  <1> QED
    BY <1>5

\* PyType::lookup returns an entry of some class dictionary or nothing.
LEMMA LookupBinding ==
    ASSUME NEW dict \in [Classes -> Namespace], NEW c \in Classes,
           NEW n \in Names
    PROVE  Lookup(dict, c, n) \in Binding
  <1> DEFINE holders == {i \in DOMAIN Mro[c] : dict[Mro[c][i]][n] # Absent}
  <1>1. Mro[c] \in Seq(Classes)
    BY AttrValuesAssumption
  <1>2. CASE holders = {}
    BY <1>2 DEF Lookup, Binding
  <1>3. CASE holders # {}
    <2>1. holders \subseteq Nat
      BY <1>1
    <2>2. \E i \in holders : \A j \in holders : i <= j
      BY <1>3, <2>1, SmallestIndex
    <2> DEFINE first == CHOOSE i \in holders : \A j \in holders : i <= j
    <2>3. first \in DOMAIN Mro[c]
      BY <2>2
    <2> HIDE DEF first
    <2>4. Mro[c][first] \in Classes
      BY <1>1, <2>3, ElementOfSeq
    <2>5. dict[Mro[c][first]][n] \in Binding
      BY <2>4 DEF Namespace
    <2> QED
      BY <1>3, <2>5 DEF Lookup, first
  <1> QED
    BY <1>2, <1>3

\* Every attribute resolution is an outcome.
LEMMA OutcomeType ==
    ASSUME NEW how \in Vias, NEW b \in Binding, NEW o \in Objs
    PROVE  Outcome(how, b, o) \in Outcomes
  BY DEF Outcome, Outcomes

\* PyObject::__getattribute__ always ends in an outcome.
LEMMA ResolveType ==
    ASSUME NEW o \in Objs, NEW d \in Binding, NEW b \in Binding
    PROVE  Resolve(o, d, b) \in Outcomes
  <1>1. Absent \in Binding
    BY DEF Binding
  <1> QED
    BY <1>1, OutcomeType DEF Resolve, Vias

-----------------------------------------------------------------------------
\* What a write to an instance can disturb.
InstanceOK ==
    /\ shape \in [Objs -> Seq(Names)]
    /\ slots \in [Objs -> Seq(Values)]
    /\ idict \in [Objs -> Namespace \union {NoDict}]
    /\ result \in Outcomes
    /\ SlotsMatchShape

\* The namespace of an instance binds a name to a value or to nothing.
LEMMA InstanceBindingType ==
    ASSUME InstanceOK, NEW o \in Objs, NEW n \in Names
    PROVE  InstanceBinding(o, n) \in Binding
  <1>1. CASE idict[o] # NoDict
    BY <1>1 DEF InstanceOK, InstanceBinding, Namespace
  <1>2. CASE idict[o] = NoDict /\ Has(shape[o], n)
    <2>1. Offset(shape[o], n) \in DOMAIN shape[o]
      BY <1>2, OffsetFound DEF InstanceOK
    <2>2. /\ slots[o] \in Seq(Values)
          /\ shape[o] \in Seq(Names)
          /\ Len(slots[o]) = Len(shape[o])
      BY DEF InstanceOK, SlotsMatchShape
    <2>3. slots[o][Offset(shape[o], n)] \in Values
      BY <2>1, <2>2
    <2> QED
      BY <1>2, <2>3 DEF InstanceBinding, Binding
  <1>3. CASE idict[o] = NoDict /\ ~Has(shape[o], n)
    BY <1>3 DEF InstanceBinding, Binding
  <1> QED
    BY <1>1, <1>2, <1>3

\* Overwriting a slot of the shape.
LEMMA OverwriteSlot ==
    ASSUME InstanceOK, NEW o \in Objs, NEW off \in DOMAIN shape[o],
           NEW v \in Values,
           shape' = shape, slots' = [slots EXCEPT ![o][off] = v],
           idict' = idict, result' \in Outcomes
    PROVE  InstanceOK'
  <1>1. slots[o] \in Seq(Values) /\ Len(slots[o]) = Len(shape[o])
    BY DEF InstanceOK, SlotsMatchShape
  <1>2. [slots[o] EXCEPT ![off] = v] \in Seq(Values)
    BY <1>1
  <1>3. Len([slots[o] EXCEPT ![off] = v]) = Len(shape[o])
    BY <1>1
  <1>4. slots' \in [Objs -> Seq(Values)]
    BY <1>2 DEF InstanceOK
  <1>5. \A q \in Objs : Len(slots'[q]) = Len(shape[q])
    BY <1>3 DEF InstanceOK, SlotsMatchShape
  <1> QED
    BY <1>4, <1>5 DEF InstanceOK, SlotsMatchShape

\* Taking a transition and pushing the new slot.
LEMMA AddSlot ==
    ASSUME InstanceOK, NEW o \in Objs, NEW n \in Names, NEW v \in Values,
           ~Has(shape[o], n),
           shape' = [shape EXCEPT ![o] = Transition(shape[o], n)],
           slots' = [slots EXCEPT ![o] = Append(slots[o], v)],
           idict' = idict, result' \in Outcomes
    PROVE  InstanceOK'
  <1> DEFINE next == Transition(shape[o], n)
  <1>1. /\ shape[o] \in Seq(Names)
        /\ slots[o] \in Seq(Values)
        /\ Len(slots[o]) = Len(shape[o])
        /\ \A j, k \in DOMAIN shape[o] : shape[o][j] = shape[o][k] => j = k
    BY DEF InstanceOK, SlotsMatchShape
  <1>2. /\ next \in Seq(Names)
        /\ Len(next) = Len(shape[o]) + 1
        /\ \A j, k \in DOMAIN next : next[j] = next[k] => j = k
    BY <1>1, TransitionShape
  <1>3. /\ Append(slots[o], v) \in Seq(Values)
        /\ Len(Append(slots[o], v)) = Len(slots[o]) + 1
    BY <1>1
  <1> HIDE DEF next
  <1>4. shape' = [shape EXCEPT ![o] = next]
    BY DEF next
  <1>5. shape' \in [Objs -> Seq(Names)] /\ slots' \in [Objs -> Seq(Values)]
    BY <1>2, <1>3, <1>4 DEF InstanceOK
  <1>6. ASSUME NEW q \in Objs
        PROVE  /\ Len(slots'[q]) = Len(shape'[q])
               /\ \A j, k \in DOMAIN shape'[q] :
                     shape'[q][j] = shape'[q][k] => j = k
    <2>1. CASE q = o
      BY <1>1, <1>2, <1>3, <1>4, <2>1 DEF InstanceOK
    <2>2. CASE q # o
      <3>1. shape'[q] = shape[q] /\ slots'[q] = slots[q]
        BY <1>4, <2>2 DEF InstanceOK
      <3> QED
        BY <3>1 DEF InstanceOK, SlotsMatchShape
    <2> QED
      BY <2>1, <2>2
  <1> QED
    BY <1>5, <1>6 DEF InstanceOK, SlotsMatchShape

\* PyObject::__setattribute__ keeps slots and shapes together.
LEMMA SetAttributeInstance ==
    ASSUME InstanceOK, cdict \in [Classes -> Namespace],
           NEW o \in Objs, NEW n \in Names, NEW v \in Values,
           SetAttribute(o, n, v)
    PROVE  InstanceOK'
  <1>1. ClassBinding(o, n) \in Binding
    BY LookupBinding, AttrValuesAssumption DEF ClassBinding
  <1>2. \A how \in Vias, b \in Binding : Outcome(how, b, o) \in Outcomes
    BY DEF Outcome, Outcomes
  <1>3. v \in Binding /\ Absent \in Binding
    BY DEF Binding
  <1>4. result' \in Outcomes
    BY <1>1, <1>2, <1>3 DEF SetAttribute, StoreInInstance, Vias
  <1>5. CASE UNCHANGED <<shape, slots, idict>>
    BY <1>4, <1>5 DEF InstanceOK, SlotsMatchShape
  <1>6. CASE StoreInInstance(o, n, v)
    <2>1. CASE idict[o] # NoDict /\ idict' = [idict EXCEPT ![o][n] = v]
               /\ UNCHANGED <<shape, slots>>
      <3>1. idict[o] \in Namespace
        BY <2>1 DEF InstanceOK
      <3>2. [idict[o] EXCEPT ![n] = v] \in Namespace
        BY <1>3, <3>1 DEF Namespace
      <3>3. idict' \in [Objs -> Namespace \union {NoDict}]
        BY <2>1, <3>2 DEF InstanceOK
      <3> QED
        BY <1>4, <2>1, <3>3 DEF InstanceOK, SlotsMatchShape
    <2>2. CASE /\ Has(shape[o], n)
               /\ slots' = [slots EXCEPT ![o][Offset(shape[o], n)] = v]
               /\ UNCHANGED <<shape, idict>>
      <3>1. Offset(shape[o], n) \in DOMAIN shape[o]
        BY <2>2, OffsetFound DEF InstanceOK
      <3> QED
        BY <1>4, <2>2, <3>1, OverwriteSlot
    <2>3. CASE /\ ~Has(shape[o], n)
               /\ shape' = [shape EXCEPT ![o] = Transition(@, n)]
               /\ slots' = [slots EXCEPT ![o] = Append(@, v)]
               /\ UNCHANGED idict
      BY <1>4, <2>3, AddSlot
    <2> QED
      BY <1>6, <2>1, <2>2, <2>3 DEF StoreInInstance
  <1> QED
    BY <1>5, <1>6 DEF SetAttribute

\* The operations on __dict__ touch neither shapes nor classes.
LEMMA DictInstance ==
    ASSUME InstanceOK, NEW o \in Objs,
           \/ MaterializeDict(o)
           \/ \E n \in Names, v \in Binding : WriteDict(o, n, v)
           \/ \E d \in Namespace : AssignDict(o, d)
    PROVE  InstanceOK' /\ UNCHANGED <<gver, cdict, shape, slots>>
  <1>1. Absent \in Binding
    BY DEF Binding
  <1>2. UNCHANGED <<gver, cdict, shape, slots>>
    BY DEF MaterializeDict, WriteDict, AssignDict
  <1>3. idict' \in [Objs -> Namespace \union {NoDict}] /\ result' \in Outcomes
    <2>1. CASE MaterializeDict(o)
      <3>1. [n \in Names |-> InstanceBinding(o, n)] \in Namespace
        BY InstanceBindingType DEF Namespace
      <3> QED
        BY <2>1, <3>1 DEF MaterializeDict, InstanceOK
    <2>2. ASSUME NEW n \in Names, NEW v \in Binding, WriteDict(o, n, v)
          PROVE  /\ idict' \in [Objs -> Namespace \union {NoDict}]
                 /\ result' \in Outcomes
      <3>1. idict[o] \in Namespace
        BY <2>2 DEF WriteDict, InstanceOK
      <3>2. [idict[o] EXCEPT ![n] = v] \in Namespace
        BY <3>1 DEF Namespace
      <3>3. result' \in Outcomes
        BY <2>2, OutcomeType DEF WriteDict, Vias
      <3> QED
        BY <2>2, <3>2, <3>3 DEF WriteDict, InstanceOK
    <2>3. ASSUME NEW d \in Namespace, AssignDict(o, d)
          PROVE  /\ idict' \in [Objs -> Namespace \union {NoDict}]
                 /\ result' \in Outcomes
      BY <1>1, <2>3, OutcomeType DEF AssignDict, InstanceOK, Vias
    <2> QED
      BY <2>1, <2>2, <2>3
  <1> QED
    BY <1>2, <1>3 DEF InstanceOK, SlotsMatchShape

\* A class mutation advances the version and leaves instances alone.
LEMMA ClassStep ==
    ASSUME ObjTypeOK, SlotsMatchShape, NEW c \in Classes, NEW n \in Names, NEW v \in Values,
           SetClassAttribute(c, n, v)
    PROVE  /\ ObjTypeOK' /\ SlotsMatchShape'
           /\ gver \in Nat /\ gver' = gver + 1
  <1>1. /\ gver \in 0..MaxVersion /\ gver < MaxVersion /\ gver' = gver + 1
        /\ MaxVersion \in Nat
    BY ObjectModelAssumption DEF ObjTypeOK, SetClassAttribute
  <1>2. gver' \in 0..MaxVersion /\ gver \in Nat
    BY <1>1
  <1>3. v \in Binding /\ Absent \in Binding
    BY DEF Binding
  <1>4. cdict' \in [Classes -> Namespace]
    BY <1>3 DEF SetClassAttribute, ObjTypeOK, Namespace
  <1>5. result' \in Outcomes
    BY <1>3 DEF SetClassAttribute, Outcome, Outcomes, Vias
  <1>6. SlotsMatchShape'
    BY DEF SetClassAttribute, SlotsMatchShape
  <1> QED
    BY <1>1, <1>2, <1>4, <1>5, <1>6 DEF SetClassAttribute, ObjTypeOK

=============================================================================
