---------------------------- MODULE ObjectModel ----------------------------
(***************************************************************************)
(* Instances and classes of the AOT runtime: class dictionaries guarded by *)
(* a global type version (PyType.cpp), and instance attributes kept in a   *)
(* hidden-class Shape with a slot vector until __dict__ is asked for, and  *)
(* in a real dictionary from then on (PyObject.cpp, shape/Shape.cpp).      *)
(*                                                                         *)
(* A shape is the sequence of names on its path from the root of its type: *)
(* Shape::transition returns the same child for the same name, so the type *)
(* and the path determine the Shape object.  <<>> is m_shape == nullptr    *)
(* (an instance never carries the root shape itself).  Slot offsets count  *)
(* from 1.                                                                 *)
(***************************************************************************)
EXTENDS AttrValues

CONSTANTS NoDict,     \* m_instance_dict == nullptr
          DictTypes,  \* classes whose instances may have a __dict__
          MaxVersion  \* bound: class mutations in a behaviour

ASSUME ObjectModelAssumption ==
    /\ DictTypes \subseteq Classes
    /\ NoDict \notin Namespace
    /\ MaxVersion \in Nat

VARIABLES gver,   \* PyType::global_version
          cdict,  \* cdict[c]: TypePrototype::__dict__
          shape,  \* shape[o]: m_shape
          slots,  \* slots[o]: m_slots
          idict,  \* idict[o]: m_instance_dict
          result  \* what the last operation handed back

objVars == <<gver, cdict, shape, slots, idict, result>>

-----------------------------------------------------------------------------
\* Shape::lookup: the offset of a name, 0 if the shape does not have it.
Has(path, n) == \E i \in DOMAIN path : path[i] = n
Offset(path, n) == CHOOSE i \in DOMAIN path : path[i] = n

\* Shape::transition; root(type)->transition for an instance with no shape.
Transition(path, n) == Append(path, n)

ClassBinding(o, n) == Lookup(cdict, TypeOf[o], n)

\* The instance part of PyObject::__getattribute__.
InstanceBinding(o, n) ==
    IF idict[o] # NoDict THEN idict[o][n]
    ELSE IF Has(shape[o], n) THEN slots[o][Offset(shape[o], n)]
    ELSE Absent

\* PyObject::getattribute on an instance.
GetAttribute(o, n) == Resolve(o, ClassBinding(o, n), InstanceBinding(o, n))

-----------------------------------------------------------------------------
\* A program starts with its classes built and fresh instances.
ObjInit ==
    /\ gver = 0
    /\ cdict \in [Classes -> Namespace]
    /\ shape = [o \in Objs |-> <<>>]
    /\ slots = [o \in Objs |-> <<>>]
    /\ idict = [o \in Objs |-> NoDict]
    /\ result = Outcome("class", Absent, Absent)

\* Mutant of SetClassAttribute: the version is not advanced.
SetClassAttributeSameVersion(c, n, v) ==
    /\ cdict' = [cdict EXCEPT ![c][n] = v]
    /\ result' = Outcome("class", v, Absent)
    /\ UNCHANGED <<gver, shape, slots, idict>>

\* PyObject::__setattribute__ on a class: the version first, then __dict__.
SetClassAttribute(c, n, v) ==
    /\ gver < MaxVersion
    /\ gver' = gver + 1
    /\ cdict' = [cdict EXCEPT ![c][n] = v]
    /\ result' = Outcome("class", v, Absent)
    /\ UNCHANGED <<shape, slots, idict>>

\* The end of PyObject::__setattribute__: the dictionary once there is one,
\* an existing slot, or a new slot at the end of a longer shape.
StoreInInstance(o, n, v) ==
    /\ \/ /\ idict[o] # NoDict
          /\ idict' = [idict EXCEPT ![o][n] = v]
          /\ UNCHANGED <<shape, slots>>
       \/ /\ idict[o] = NoDict
          /\ Has(shape[o], n)
          /\ slots' = [slots EXCEPT ![o][Offset(shape[o], n)] = v]
          /\ UNCHANGED <<shape, idict>>
       \/ /\ idict[o] = NoDict
          /\ ~Has(shape[o], n)
          /\ shape' = [shape EXCEPT ![o] = Transition(@, n)]
          /\ slots' = [slots EXCEPT ![o] = Append(@, v)]
          /\ UNCHANGED idict
    /\ result' = Outcome("stored", v, o)

\* PyObject::setattribute on an instance: the slot of the type first (user
\* code when it was defined in Python), then a class attribute with __set__,
\* then the instance.
SetAttribute(o, n, v) ==
    /\ \/ /\ TypeOf[o] \in CustomSet
          /\ result' = Outcome("user __setattr__", Absent, o)
          /\ UNCHANGED <<shape, slots, idict>>
       \/ /\ TypeOf[o] \notin CustomSet
          /\ HasSet(ClassBinding(o, n))
          /\ result' = Outcome("__set__", ClassBinding(o, n), o)
          /\ UNCHANGED <<shape, slots, idict>>
       \/ /\ TypeOf[o] \notin CustomSet
          /\ ~HasSet(ClassBinding(o, n))
          /\ StoreInInstance(o, n, v)
    /\ UNCHANGED <<gver, cdict>>

\* Mutant of MaterializeDict: the dictionary starts out empty.
MaterializeEmptyDict(o) ==
    /\ TypeOf[o] \in DictTypes
    /\ idict[o] = NoDict
    /\ idict' = [idict EXCEPT ![o] = [n \in Names |-> Absent]]
    /\ UNCHANGED <<gver, cdict, shape, slots, result>>

\* o.__dict__: PyObject::materialize_instance_dict copies the slots once.
MaterializeDict(o) ==
    /\ TypeOf[o] \in DictTypes
    /\ idict[o] = NoDict
    /\ idict' = [idict EXCEPT ![o] = [n \in Names |-> InstanceBinding(o, n)]]
    /\ UNCHANGED <<gver, cdict, shape, slots, result>>

\* A write to the materialised dictionary through a reference the program
\* kept: PyDict knows nothing of the instance it belongs to.
WriteDict(o, n, v) ==
    /\ idict[o] # NoDict
    /\ idict' = [idict EXCEPT ![o][n] = v]
    /\ result' = Outcome("dict", v, o)
    /\ UNCHANGED <<gver, cdict, shape, slots>>

\* o.__dict__ = d: the instance takes the dictionary; shape and slots stay.
AssignDict(o, d) ==
    /\ TypeOf[o] \in DictTypes
    /\ idict' = [idict EXCEPT ![o] = d]
    /\ result' = Outcome("dict", Absent, o)
    /\ UNCHANGED <<gver, cdict, shape, slots>>

\* Everything a program can do to classes and instances without a cache.
ObjNext ==
    \/ \E c \in Classes, n \in Names, v \in Values : SetClassAttribute(c, n, v)
    \/ \E o \in Objs : MaterializeDict(o)
    \/ \E o \in Objs, n \in Names, v \in Binding : WriteDict(o, n, v)
    \/ \E o \in Objs, d \in Namespace : AssignDict(o, d)

-----------------------------------------------------------------------------
ObjTypeOK ==
    /\ gver \in 0..MaxVersion
    /\ cdict \in [Classes -> Namespace]
    /\ shape \in [Objs -> Seq(Names)]
    /\ slots \in [Objs -> Seq(Values)]
    /\ idict \in [Objs -> Namespace \union {NoDict}]
    /\ result \in Outcomes

\* The slot vector of an instance has exactly the slots of its shape and a
\* shape names no attribute twice: the fast paths index m_slots with an
\* offset taken from a shape, unchecked.
SlotsMatchShape ==
    \A o \in Objs :
        /\ Len(slots[o]) = Len(shape[o])
        /\ \A i, j \in DOMAIN shape[o] : shape[o][i] = shape[o][j] => i = j
=============================================================================
