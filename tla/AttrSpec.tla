------------------------------ MODULE AttrSpec ------------------------------
(***************************************************************************)
(* What attribute access on instances promises, with nothing of how it is  *)
(* done: a dictionary per class, a namespace per instance, and an outcome  *)
(* for every operation.  There are no shapes, slots, materialised          *)
(* dictionaries, versions or caches here; AttrIC implements this module.   *)
(*                                                                         *)
(* The precedence is the one PyObject::__getattribute__ has: a class       *)
(* attribute whose type defines __get__ wins over the instance, the        *)
(* instance wins over any other class attribute.                           *)
(***************************************************************************)
EXTENDS AttrValues

VARIABLES cls,     \* cls[c][n]: the dictionary of class c
          attrs,   \* attrs[o][n]: the namespace of instance o
          result   \* what the last operation handed back

vars == <<cls, attrs, result>>

Init ==
    /\ cls \in [Classes -> Namespace]
    /\ attrs = [o \in Objs |-> [n \in Names |-> Absent]]
    /\ result \in Outcomes

\* C.n = v
SetClassAttr(c, n, v) ==
    /\ cls' = [cls EXCEPT ![c][n] = v]
    /\ result' = Outcome("class", v, Absent)
    /\ UNCHANGED attrs

\* o.n
GetAttr(o, n) ==
    /\ result' = Resolve(o, Lookup(cls, TypeOf[o], n), attrs[o][n])
    /\ UNCHANGED <<cls, attrs>>

\* o.n = v where the class handles the assignment itself
SetAttrByUser(o) ==
    /\ TypeOf[o] \in CustomSet
    /\ result' = Outcome("user __setattr__", Absent, o)
    /\ UNCHANGED <<cls, attrs>>

\* o.n = v where the class binds n to a data descriptor
SetAttrByDescriptor(o, n) ==
    /\ TypeOf[o] \notin CustomSet
    /\ HasSet(Lookup(cls, TypeOf[o], n))
    /\ result' = Outcome("__set__", Lookup(cls, TypeOf[o], n), o)
    /\ UNCHANGED <<cls, attrs>>

\* o.n = v into the namespace of o
SetAttrInNamespace(o, n, v) ==
    /\ TypeOf[o] \notin CustomSet
    /\ ~HasSet(Lookup(cls, TypeOf[o], n))
    /\ attrs' = [attrs EXCEPT ![o][n] = v]
    /\ result' = Outcome("stored", v, o)
    /\ UNCHANGED cls

\* o.__dict__[n] = v, del o.__dict__[n]
WriteNamespace(o, n, v) ==
    /\ attrs' = [attrs EXCEPT ![o][n] = v]
    /\ result' = Outcome("dict", v, o)
    /\ UNCHANGED cls

\* o.__dict__ = {...}
ReplaceNamespace(o, ns) ==
    /\ attrs' = [attrs EXCEPT ![o] = ns]
    /\ result' = Outcome("dict", Absent, o)
    /\ UNCHANGED cls

Next ==
    \/ \E c \in Classes, n \in Names, v \in Values : SetClassAttr(c, n, v)
    \/ \E o \in Objs, n \in Names : GetAttr(o, n) \/ SetAttrByDescriptor(o, n)
    \/ \E o \in Objs : SetAttrByUser(o)
    \/ \E o \in Objs, n \in Names, v \in Values : SetAttrInNamespace(o, n, v)
    \/ \E o \in Objs, n \in Names, v \in Binding : WriteNamespace(o, n, v)
    \/ \E o \in Objs, ns \in Namespace : ReplaceNamespace(o, ns)

Spec == Init /\ [][Next]_vars
=============================================================================
