------------------------- MODULE RegisterAllocation -------------------------
(***************************************************************************)
(* The linear-scan register allocator of the bytecode emitter, and the     *)
(* code that runs with the registers it chose.                             *)
(*                                                                         *)
(* A program is a sequence of operations in the order in which the emitter *)
(* lays out the blocks of a function, with the control flow between them.  *)
(* A timestep is the index of an operation.  A value is a number; a block  *)
(* argument and the values passed for it are one value, as LiveAnalysis    *)
(* makes them.                                                             *)
(***************************************************************************)
EXTENDS Integers, FiniteSets, Sequences, FiniteSetsExt

CONSTANTS
    NRegs,     \* registers, the size of the bitset
    Programs   \* the programs that may be compiled

ASSUME RegsAssumption == NRegs \in Nat /\ NRegs >= 2

Kinds == {"plain", "call", "yield", "iter", "next", "test", "br"}
Operations == [kind : Kinds, res : Nat, args : SUBSET Nat]
Op(kind, res, args) == [kind |-> kind, res |-> res, args |-> args]

\* What operation i has defined when control goes from it to j: at the exit of its loop, the last
\* successor, a ForIter has no item.
Gives(p, i, j) ==
    IF p.ops[i].kind = "next" /\ j = Max(p.flow[i]) THEN {} ELSE {p.ops[i].res}

\* What the verifier of the dialect lets through: `flow` is where control may go, 0 being the
\* end of the function.  Dominance: `defined` are values that every way to an operation has
\* defined, and operands are among them; blocks are sorted by dominance, so a definition comes
\* before the first operation that reads the value.  Liveness: `live` are the values that are needed at
\* the start of an operation, a solution of the equations of the control flow.
WellFormed(p) ==
    LET steps == DOMAIN p.ops
        names == {p.ops[i].res : i \in steps} \ {0}
    IN  /\ p.ops \in Seq(Operations) /\ p.ops # <<>>
        /\ \A i \in steps : p.ops[i].res = 0 <=> p.ops[i].kind \in {"test", "br"}
        /\ \A i \in steps : \A v \in p.ops[i].args : \E j \in 1..(i - 1) : p.ops[j].res = v
        /\ p.flow \in [steps -> SUBSET (steps \cup {0})]
        /\ p.defined \in [steps -> SUBSET names] /\ p.defined[1] = {}
        /\ \A i \in steps : p.ops[i].args \subseteq p.defined[i]
        /\ \A i \in steps : \A j \in p.flow[i] \ {0} : p.defined[j] \subseteq p.defined[i] \cup Gives(p, i, j)
        /\ p.live \in [steps -> SUBSET names]
        /\ \A i \in steps :
             p.live[i] = p.ops[i].args \cup UNION {p.live[j] \ Gives(p, i, j) : j \in p.flow[i] \ {0}}

ASSUME ProgramsAssumption == \A p \in Programs : WellFormed(p)

VARIABLES
    prog,       \* the program
    points,     \* sorted_live_intervals: the timesteps of every value
    unhandled,  \* values whose intervals are still to be visited
    active, inactive,
    mem,        \* value2mem_map, NoReg for a value that has none
    free,       \* registers of the bitset that are set
    saved,      \* operations with a push before and a move and a pop behind
    abort,      \* the assertion that ended the compiler, if any
    pc,         \* the operation that runs next, 0 while registers are allocated
    regs        \* the registers of the frame that runs

vars == <<prog, points, unhandled, active, inactive, mem, free, saved, abort, pc, regs>>
allocation == <<points, unhandled, active, inactive, mem, free, saved, abort>>

Registers == 0..(NRegs - 1)
NoReg == NRegs
Junk == 0
None == "none"

-----------------------------------------------------------------------------
(* The program *)

Ops == prog.ops
Successors(i) == prog.flow[i]
Defs(v) == {i \in DOMAIN Ops : Ops[i].res = v}
Values == {Ops[i].res : i \in DOMAIN Ops} \ {0}

-----------------------------------------------------------------------------
(* Live intervals *)

\* The timesteps at which a value is a result or an operand.
Points(v) == {i \in DOMAIN Ops : Ops[i].res = v \/ v \in Ops[i].args}

Start(v) == Min(points[v])
End(v) == Max(points[v]) + 1

\* From the first timestep to the last, gaps included: nothing would fill a register again that
\* was lent in a gap.
MAliveInPoints(v, pos) == pos \in points[v]
AliveAt(v, pos) == pos >= Start(v) /\ pos < End(v)

\* Two lists of intervals overlap only where both have a timestep.
Overlaps(u, v) == points[u] \cap points[v] # {}

\* Operations whose result arrives in register 0.
ClobbersR0(i) == Ops[i].kind \in {"call", "yield"}
MDefsOf(v) == Defs(v)
CallsOf(v) == {i \in Defs(v) : ClobbersR0(i)}
ClaimsR0(v) == \E i \in Defs(v) : ClobbersR0(i)

-----------------------------------------------------------------------------
(* The allocator: one step for every interval, in the order of their starts *)

\* Active intervals that are over, or not alive, give their registers back.
MExpiredEarly(cur) == {v \in active : End(v) <= Start(cur) + 1}
Expired(cur) == {v \in active : End(v) < Start(cur)}
Sleeping(cur) == {v \in active : ~AliveAt(v, Start(cur))} \ Expired(cur)
Released(cur) == {mem[v] : v \in Expired(cur) \cup Sleeping(cur)}

\* Registers that no interval holds, and that none of those to come needs while this one lives.
Available(cur, now, asleep) ==
    now \ {mem[v] : v \in {w \in (asleep \cup unhandled) \ {cur} : Overlaps(w, cur)}}

\* The lowest one, but not register 0 for an iterator.
Pick(cur, available) ==
    LET allowed == IF \E i \in Defs(cur) : Ops[i].kind = "iter" THEN available \ {0} ELSE available
    IN  IF mem[cur] # NoReg THEN mem[cur] ELSE IF allowed = {} THEN NoReg ELSE Min(allowed)

\* Register 0 is taken: the result is moved to a scratch register behind one of the calls that
\* define the value, and register 0 is pushed before that call and popped behind it.
SaveAround(cur, now, available) ==
    LET scratch == Min(available \ {0})
    IN  IF available \ {0} = {}
        THEN abort' = "no scratch register" /\ mem' = mem /\ free' = now /\ saved' = saved
        ELSE /\ \E i \in CallsOf(cur) : saved' = saved \cup {i}
             /\ mem' = [mem EXCEPT ![cur] = scratch]
             /\ free' = now \ {scratch}
             /\ abort' = abort

Allocate ==
    /\ pc = 0 /\ abort = None /\ unhandled # {}
    /\ LET cur == CHOOSE v \in unhandled : \A w \in unhandled : Start(v) <= Start(w)
           now == free \cup Released(cur)
           dozing == {v \in (inactive \cup Sleeping(cur)) \ {cur} : End(v) >= Start(cur)}
           available == Available(cur, now, dozing)
           reg == Pick(cur, available)
       IN  /\ unhandled' = unhandled \ {cur}
           /\ inactive' = dozing
           /\ active' = (active \ (Expired(cur) \cup Sleeping(cur))) \cup {cur}
           /\ IF \E v \in dozing : AliveAt(v, Start(cur))
              THEN abort' = "woken twice" /\ UNCHANGED <<mem, free, saved>>
              ELSE IF available = {} \/ reg = NoReg
              THEN abort' = "no register" /\ UNCHANGED <<mem, free, saved>>
              ELSE IF reg \in now
              THEN /\ mem' = [mem EXCEPT ![cur] = reg]
                   /\ free' = now \ {reg}
                   /\ UNCHANGED <<saved, abort>>
              ELSE SaveAround(cur, now, available)
    /\ UNCHANGED <<prog, points, pc, regs>>

-----------------------------------------------------------------------------
(* The emitted code *)

Begin ==
    /\ pc = 0 /\ abort = None /\ unhandled = {}
    /\ pc' = 1
    /\ UNCHANGED <<prog, regs, allocation>>

\* The registers after an operation, `back` being what the pop behind it finds.
Moved(r, op, i, back) ==
    IF i \in saved THEN [[r EXCEPT ![mem[op.res]] = r[0]] EXCEPT ![0] = back] ELSE r

MNotMoved(op, i, back) ==
    CASE op.kind \in {"plain", "iter"} -> [regs EXCEPT ![mem[op.res]] = op.res]
      [] op.kind = "call" -> [regs EXCEPT ![0] = op.res]
      [] op.kind = "yield" -> Moved([[regs EXCEPT ![0] = Junk] EXCEPT ![mem[op.res]] = op.res], op, i, back)
      [] OTHER -> regs
After(op, i, back) ==
    CASE op.kind \in {"plain", "iter"} -> [regs EXCEPT ![mem[op.res]] = op.res]
      [] op.kind = "call" -> Moved([regs EXCEPT ![0] = op.res], op, i, back)
      [] op.kind = "yield" -> Moved([[regs EXCEPT ![0] = Junk] EXCEPT ![mem[op.res]] = op.res], op, i, back)
      [] OTHER -> regs

\* While a generator is suspended its caller may overwrite what was pushed.
Execute ==
    /\ pc # 0
    /\ Ops[pc].kind # "next"
    /\ \E back \in {regs[0]} \cup (IF Ops[pc].kind = "yield" THEN {Junk} ELSE {}) :
           regs' = After(Ops[pc], pc, back)
    /\ pc' \in Successors(pc)
    /\ pc' # 0
    /\ UNCHANGED <<prog, allocation>>

\* ForIter stores the next item and goes to the body, or leaves the loop.
ForIter ==
    /\ pc # 0
    /\ Ops[pc].kind = "next"
    /\ \E target \in Successors(pc) :
         /\ pc' = target
         /\ regs' = IF Gives(prog, pc, target) = {} THEN regs
                    ELSE [regs EXCEPT ![mem[Ops[pc].res]] = Ops[pc].res]
    /\ UNCHANGED <<prog, allocation>>

-----------------------------------------------------------------------------

Init ==
    /\ prog \in Programs
    /\ points = [v \in Values |-> Points(v)]
    /\ unhandled = Values
    /\ active = {}
    /\ inactive = {v \in Values : ClaimsR0(v)}
    /\ mem = [v \in Values |-> IF ClaimsR0(v) THEN 0 ELSE NoReg]
    /\ free = Registers
    /\ saved = {}
    /\ abort = None
    /\ pc = 0
    /\ regs = [r \in Registers |-> Junk]

Next == Allocate \/ Begin \/ Execute \/ ForIter

Spec == Init /\ [][Next]_vars

-----------------------------------------------------------------------------
(* Properties *)

\* Every variable has its type.
TypeOK ==
    /\ points \in [Values -> SUBSET DOMAIN Ops]
    /\ unhandled \subseteq Values /\ active \subseteq Values /\ inactive \subseteq Values
    /\ mem \in [Values -> Registers \cup {NoReg}]
    /\ free \subseteq Registers
    /\ saved \subseteq {i \in DOMAIN Ops : ClobbersR0(i)}
    /\ abort \in {None, "no scratch register", "no register", "woken twice"}
    /\ pc \in {0} \cup DOMAIN Ops
    /\ regs \in [Registers -> Values \cup {Junk}]

\* No two values whose intervals meet, gaps included, are left in one register: a register taken
\* in the gap of a value, or claimed in advance for the result of a call, is not shared.
RegistersNotShared ==
    pc # 0 => \A u, v \in Values :
        u # v /\ Start(u) < End(v) /\ Start(v) < End(u) => mem[u] # mem[v]

\* No interval among the inactive ones is alive when another one begins.  The branch for it puts
\* the interval among the active ones without taking it from the inactive ones, so the loop would
\* meet it again and its assertion would end the compiler.
NeverWokenTwice == abort # "woken twice"

\* The order of the blocks covers the lifetime of the value: wherever the control flow needs it,
\* its interval is open.
Covered(v) == \A i \in DOMAIN Ops : v \in prog.live[i] => AliveAt(v, i)

\* A value with two calls that may define it is saved around one of them only, and a yield with a
\* saved register behaves as Execute says.
SavedAtEveryCall ==
    /\ \A v \in Values : Cardinality(CallsOf(v)) <= 1
    /\ \A i \in saved : Ops[i].kind # "yield"

\* Whatever path the program takes, an operand is in its register when an operation reads it,
\* calls and the registers saved around them included, as long as the order of the blocks covers
\* the lifetime of the value.
OperandsIntact ==
    pc # 0 /\ SavedAtEveryCall =>
        \A v \in Ops[pc].args : Covered(v) => regs[mem[v]] = v

\* RegisterAllocation_tests.cpp:239, of the values of a loop body: "These should NOT reuse the
\* iterator register since the iterator is still alive".
IteratorNotClobbered ==
    pc # 0 /\ Ops[pc].kind = "next" => \A v \in Ops[pc].args : regs[mem[v]] = v

=============================================================================
