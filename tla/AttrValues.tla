----------------------------- MODULE AttrValues -----------------------------
(***************************************************************************)
(* The vocabulary shared by the attribute modules: classes, instances,     *)
(* names, the kinds of value a class dictionary holds, the lookup along    *)
(* the method resolution order, and what an attribute operation hands      *)
(* back to the program.                                                    *)
(***************************************************************************)
EXTENDS Naturals, Sequences

CONSTANTS Classes,    \* user classes (heap types)
          Objs,       \* instances
          Names,      \* interned attribute names
          Functions,  \* values whose type defines __get__ and not __set__
          Properties, \* values whose type defines both __get__ and __set__
          Plains,     \* values whose type defines neither
          Absent,     \* "no such key"
          TypeOf,     \* the class of an instance
          Mro,        \* the method resolution order of a class
          CustomGet,  \* classes with __getattribute__ defined in Python
          CustomSet   \* classes with __setattr__ defined in Python

Values == Functions \union Properties \union Plains

ASSUME AttrValuesAssumption ==
    /\ TypeOf \in [Objs -> Classes]
    /\ Mro \in [Classes -> Seq(Classes)]
    /\ Absent \notin Values \union Objs
    /\ Functions \intersect Properties = {}
    /\ Functions \intersect Plains = {}
    /\ Properties \intersect Plains = {}
    /\ CustomGet \subseteq Classes
    /\ CustomSet \subseteq Classes

\* What a namespace (a class dictionary or an instance) binds a name to.
Binding == Values \union {Absent}
Namespace == [Names -> Binding]

HasGet(v) == v \in Functions \union Properties
HasSet(v) == v \in Properties

\* PyType::lookup: the first class of the MRO whose dictionary has the name.
Lookup(dict, c, n) ==
    LET holders == {i \in DOMAIN Mro[c] : dict[Mro[c][i]][n] # Absent}
        first   == CHOOSE i \in holders : \A j \in holders : i <= j
    IN  IF holders = {} THEN Absent ELSE dict[Mro[c][first]][n]

-----------------------------------------------------------------------------
\* What an operation hands back to the program.
Outcome(how, v, o) == [via |-> how, value |-> v, self |-> o]

Vias == {"__get__", "value", "AttributeError", "user __getattribute__",
         "__set__", "stored", "user __setattr__", "dict", "class",
         "called with self", "called"}

\* self is Absent for an assignment to a class attribute.
Outcomes == [via : Vias, value : Binding, self : Objs \union {Absent}]

\* PyObject::__getattribute__ on o, for the class binding d and the instance
\* binding v of the name.
Resolve(o, d, v) ==
    IF TypeOf[o] \in CustomGet
    THEN Outcome("user __getattribute__", Absent, o)
    ELSE IF HasGet(d) THEN Outcome("__get__", d, o)
    ELSE IF v # Absent THEN Outcome("value", v, o)
    ELSE IF d # Absent THEN Outcome("value", d, o)
    ELSE Outcome("AttributeError", Absent, o)
=============================================================================
