------------------------ MODULE MCRegisterAllocation ------------------------
(***************************************************************************)
(* Small programs for the register allocator: what the lowerings of an     *)
(* expression, a conditional expression and the loops emit, with the       *)
(* operations and the operands of the program chosen freely.               *)
(***************************************************************************)
EXTENDS RegisterAllocation

CONSTANTS
    Shapes,     \* shapes of control flow: a subset of {"line", "cond", "for", "forwhile"}
    FreeKinds,  \* what an operation of the program may be: a subset of {"plain", "call", "yield"}
    MaxArgs     \* bound: operands of one operation

\* An operation is free to choose where the template says "free", and its operands where it
\* says "read"; the others are what the lowering of the statement emits.
\* x; then c; d; d(x, c): an expression.   A conditional expression joined in value 3, between
\* an operation before it and two behind it.   A for loop, with one ForIter before its body and
\* one behind it; what is behind the loop may use value 1 (the __exit__ of a with statement).
\* A for loop around a while loop: in reverse post-order the body of the while is last.
Template(shape) ==
    CASE shape = "line" -> <<Op("free", 1, {}), Op("free", 2, {1}), Op("free", 3, {1, 2}), Op("read", 4, {1, 2, 3})>>
      [] shape = "cond" -> <<Op("free", 1, {}), Op("test", 0, {1}),
                             Op("free", 3, {1}), Op("br", 0, {3}),
                             Op("free", 3, {1}), Op("br", 0, {3}),
                             Op("free", 7, {1, 3}), Op("read", 8, {1, 3, 7})>>
      [] shape = "for" -> <<Op("free", 1, {}), Op("iter", 2, {1}), Op("next", 3, {2}),
                            Op("free", 4, {3}), Op("free", 5, {3, 4}),
                            Op("next", 3, {2}), Op("read", 7, {1})>>
      [] shape = "forwhile" -> <<Op("free", 1, {}), Op("iter", 2, {1}), Op("next", 3, {2}),
                                 Op("free", 4, {3}), Op("test", 0, {4}),
                                 Op("next", 3, {2}), Op("read", 7, {1}),
                                 Op("free", 8, {}), Op("read", 9, {8})>>

\* Where control may go; 0 is the end of the function.
Flow(shape) ==
    CASE shape = "line" -> <<{2}, {3}, {4}, {0}>>
      [] shape = "cond" -> <<{2}, {3, 5}, {4}, {7}, {6}, {7}, {8}, {0}>>
      [] shape = "for" -> <<{2}, {3}, {4, 7}, {5}, {6}, {4, 7}, {0}>>
      [] shape = "forwhile" -> <<{2}, {3}, {4, 7}, {5}, {6, 8}, {4, 7}, {0}, {9}, {4}>>

\* The values that dominate an operation.
Defined(shape) ==
    CASE shape = "line" -> <<{}, {1}, {1, 2}, {1, 2, 3}>>
      [] shape = "cond" -> <<{}, {1}, {1}, {1, 3}, {1}, {1, 3}, {1, 3}, {1, 3, 7}>>
      [] shape = "for" -> <<{}, {1}, {1, 2}, {1, 2, 3}, {1, 2, 3, 4}, {1, 2, 3, 4, 5}, {1, 2}>>
      [] shape = "forwhile" -> <<{}, {1}, {1, 2}, {1, 2, 3}, {1, 2, 3, 4}, {1, 2, 3, 4}, {1, 2},
                                 {1, 2, 3, 4}, {1, 2, 3, 4, 8}>>

\* The least solution of the equations of liveness: the values with the operations that need them.
Live(ops, flow) ==
    LET NeededAt(v) ==
            LET Step(s) == {i \in DOMAIN ops : \/ v \in ops[i].args
                                               \/ ops[i].res # v /\ flow[i] \cap s # {}}
                after[n \in 0..Len(ops)] == IF n = 0 THEN {} ELSE Step(after[n - 1])
            IN  after[Len(ops)]
        needed == {<<v, NeededAt(v)>> : v \in UNION {ops[i].args : i \in DOMAIN ops}}
    IN  [i \in DOMAIN ops |-> {x[1] : x \in {y \in needed : i \in y[2]}}]

\* The part of a template's operation that the program chooses.
OpChoices(op) ==
    LET kinds == IF op.kind = "free" THEN FreeKinds ELSE {"plain"}
    IN  IF op.kind \notin {"free", "read"} THEN {op}
        ELSE {Op(kind, op.res, args) :
                 kind \in kinds, args \in {s \in SUBSET op.args : Cardinality(s) <= MaxArgs}}

Instances(shape) ==
    LET template == Template(shape)
        prefixes[n \in 0..Len(template)] ==
            IF n = 0 THEN {<<>>}
            ELSE {Append(ops, op) : ops \in prefixes[n - 1], op \in OpChoices(template[n])}
    IN  prefixes[Len(template)]

ProgramsOf(shape) ==
    {[ops |-> ops, flow |-> Flow(shape), defined |-> Defined(shape), live |-> Live(ops, Flow(shape))] :
        ops \in IF shape \in Shapes THEN Instances(shape) ELSE {}}

MCPrograms == ProgramsOf("line") \cup ProgramsOf("cond") \cup ProgramsOf("for") \cup ProgramsOf("forwhile")
=============================================================================
