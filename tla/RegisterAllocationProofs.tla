---------------------- MODULE RegisterAllocationProofs ----------------------
(***************************************************************************)
(* Theorems about the register allocator and the code that runs with its   *)
(* registers, for any set of well-formed programs and any number of        *)
(* registers.                                                              *)
(***************************************************************************)
EXTENDS RegisterAllocation, SequenceTheorems, FiniteSetTheorems, TLAPS

-----------------------------------------------------------------------------
(* The inductive invariant *)

Sound == prog \in Programs /\ points = [v \in Values |-> Points(v)]

Visited == Values \ unhandled
Meet(u, v) == Start(u) < End(v) /\ Start(v) < End(u)

\* Intervals are visited in the order of their starts, no interval is active and inactive at once,
\* and those that gave their register back are over when any interval to come begins.
Scan ==
    /\ unhandled \subseteq Values /\ active \subseteq Visited /\ inactive \subseteq Values
    /\ active \cap inactive = {}
    /\ mem \in [Values -> Registers \cup {NoReg}] /\ free \subseteq Registers
    /\ saved \subseteq {i \in DOMAIN Ops : ClobbersR0(i)}
    /\ \A v \in unhandled : mem[v] = IF ClaimsR0(v) THEN 0 ELSE NoReg
    /\ \A v \in Visited, w \in unhandled :
         Start(v) <= Start(w) /\ (v \in active \/ End(v) <= Start(w))

\* While the allocator goes on, active intervals hold different registers, none of them free, and
\* a value is in register 0 unless a call that defines it was given a move behind it.
Placed ==
    /\ \A v \in Visited : mem[v] \in Registers
    /\ \A v \in active : mem[v] \notin free
    /\ \A u, v \in active : u # v => mem[u] # mem[v]
    /\ \A u, v \in Visited : u # v /\ Meet(u, v) => mem[u] # mem[v]
    /\ \A i \in saved : Ops[i].res \in Visited /\ mem[Ops[i].res] # 0
    /\ \A v \in Visited : ClaimsR0(v) /\ CallsOf(v) \cap saved = {} => mem[v] = 0

\* While the code runs, every value that is defined on all ways here and still needed is in its
\* register, not only the operands of the next operation.
Intact ==
    \A v \in prog.defined[pc] : Covered(v) /\ v \in prog.live[pc] => regs[mem[v]] = v

Runs ==
    /\ abort \in {None, "no scratch register", "no register"}
    /\ pc \in {0} \cup DOMAIN Ops
    /\ regs \in [Registers -> Values \cup {Junk}]
    /\ pc # 0 => abort = None /\ unhandled = {} /\ (SavedAtEveryCall => Intact)

IInv == Sound /\ Scan /\ (abort = None => Placed) /\ Runs

-----------------------------------------------------------------------------
(* Intervals *)

\* A non-empty set of numbers has a smallest one ...
LEMMA Smallest ==
    ASSUME NEW T, T \subseteq Nat, T # {}
    PROVE  \E i \in T : \A j \in T : i <= j
<1> DEFINE R == OpToRel(<, Nat)
<1>1. IsWellFoundedOn(R, Nat)
  BY NatLessThanWellFounded, Zenon
<1>2. \A i, j \in Nat : <<i, j>> \in R <=> i < j
  BY DEF OpToRel
<1> HIDE DEF R
<1>3. PICK i \in T : \A j \in T : ~(<<j, i>> \in R)
  BY <1>1, WFMin
<1>4. ASSUME NEW j \in T
      PROVE  i <= j
  <2>1. i \in Nat /\ j \in Nat
    OBVIOUS
  <2>2. ~(j < i)
    BY <1>2, <1>3, <2>1, Zenon
  <2> QED BY <2>1, <2>2
<1> QED BY <1>4

\* ... and one with a bound has a largest.
LEMMA Largest ==
    ASSUME NEW n \in Nat, NEW T, T \subseteq 1..n, T # {}
    PROVE  \E i \in T : \A j \in T : j <= i
<1> DEFINE D == {n - i : i \in T}
<1>1. D \subseteq Nat /\ D # {}
  <2>1. \A i \in 1..n : n - i \in Nat
    OBVIOUS
  <2>2. PICK i \in T : TRUE
    OBVIOUS
  <2>3. n - i \in D
    OBVIOUS
  <2> QED BY <2>1, <2>3
<1>2. PICK d \in D : \A e \in D : d <= e
  <2> HIDE DEF D
  <2> QED BY <1>1, Smallest
<1>3. PICK i \in T : d = n - i
  OBVIOUS
<1>4. ASSUME NEW j \in T
      PROVE  j <= i
  <2>1. n - j \in D
    OBVIOUS
  <2>2. n - i <= n - j
    BY <1>2, <1>3, <2>1
  <2>3. i \in Nat /\ j \in Nat
    OBVIOUS
  <2> QED BY <2>2, <2>3
<1> QED BY <1>4


LEMMA ProgramFacts ==
    ASSUME Sound
    PROVE  /\ WellFormed(prog) /\ Ops \in Seq(Operations) /\ Len(Ops) \in Nat \ {0}
           /\ DOMAIN Ops = 1..Len(Ops)
           /\ \A i \in DOMAIN Ops : /\ Ops[i].res \in Nat /\ Ops[i].kind \in Kinds
                                    /\ Ops[i].res = 0 <=> Ops[i].kind \in {"test", "br"}
                                    /\ Ops[i].res # 0 => Ops[i].res \in Values
           /\ Values \subseteq Nat \ {0}
<1>1. WellFormed(prog)
  BY ProgramsAssumption DEF Sound
<1>2. Ops \in Seq(Operations) /\ Ops # <<>>
  BY <1>1 DEF WellFormed, Ops
<1>3. Len(Ops) \in Nat \ {0} /\ DOMAIN Ops = 1..Len(Ops) /\ \A i \in 1..Len(Ops) : Ops[i] \in Operations
  BY <1>2, EmptySeq, LenProperties
<1>4. \A i \in DOMAIN Ops : Ops[i].res \in Nat /\ Ops[i].kind \in Kinds
  BY <1>3 DEF Operations
<1>5. \A i \in DOMAIN Ops : Ops[i].res = 0 <=> Ops[i].kind \in {"test", "br"}
  BY <1>1 DEF WellFormed, Ops
<1>6. Values \subseteq Nat \ {0} /\ \A i \in DOMAIN Ops : Ops[i].res # 0 => Ops[i].res \in Values
  BY <1>4 DEF Values
<1> QED BY <1>1, <1>2, <1>3, <1>4, <1>5, <1>6

\* The interval of a value runs from its first timestep to behind its last.
LEMMA IntervalFacts ==
    ASSUME Sound, NEW v \in Values
    PROVE  /\ Start(v) \in Nat /\ End(v) \in Nat /\ Start(v) < End(v)
           /\ \A i \in DOMAIN Ops : Ops[i].res = v \/ v \in Ops[i].args => Start(v) <= i /\ i < End(v)
<1> DEFINE P == points[v]
           n == Len(Ops)
<1>1. n \in Nat /\ DOMAIN Ops = 1..n
  BY ProgramFacts
<1>2. P = Points(v)
  BY DEF Sound
<1>3. P \subseteq 1..n /\ P # {}
  <2>1. PICK i \in DOMAIN Ops : Ops[i].res = v
    BY DEF Values
  <2>2. i \in P
    BY <1>2, <2>1 DEF Points
  <2> QED BY <1>1, <1>2, <2>2 DEF Points
<1> HIDE DEF P
<1>4. P \subseteq Nat
  BY <1>1, <1>3
<1>5. Min(P) \in P /\ \A i \in P : Min(P) <= i
  <2>1. \E i \in P : \A j \in P : i <= j
    BY <1>3, <1>4, Smallest
  <2> QED BY <2>1 DEF Min
<1>6. Max(P) \in P /\ \A i \in P : i <= Max(P)
  <2>1. \E i \in P : \A j \in P : j <= i
    BY <1>1, <1>3, Largest
  <2>2. \E i \in P : \A j \in P : i >= j
    BY <1>4, <2>1
  <2>3. Max(P) \in P /\ \A i \in P : Max(P) >= i
    BY <2>2 DEF Max
  <2> QED BY <1>4, <2>3
<1>7. Start(v) = Min(P) /\ End(v) = Max(P) + 1
  BY DEF Start, End, P
<1>8. ASSUME NEW i \in DOMAIN Ops, Ops[i].res = v \/ v \in Ops[i].args
      PROVE  i \in P
  BY <1>2, <1>8 DEF Points
<1> DEFINE a == Min(P)
           b == Max(P)
<1>9. a \in Nat /\ b \in Nat /\ a <= b /\ \A i \in P : i \in Nat /\ a <= i /\ i <= b
  BY <1>4, <1>5, <1>6
<1>10. Start(v) = a /\ End(v) = b + 1
  BY <1>7
<1> HIDE DEF a, b
<1>11. Start(v) \in Nat /\ End(v) \in Nat /\ Start(v) < End(v)
  BY <1>9, <1>10
<1>12. \A i \in P : Start(v) <= i /\ i < End(v)
  BY <1>9, <1>10
<1> QED BY <1>8, <1>11, <1>12

\* An interval begins where the value is defined, so no two begin together.
LEMMA StartsDiffer ==
    ASSUME Sound, NEW u \in Values, NEW v \in Values, Start(u) = Start(v)
    PROVE  u = v
<1>1. ASSUME NEW w \in Values
      PROVE  Ops[Start(w)].res = w
  <2> DEFINE P == points[w]
             i == Start(w)
  <2>1. P = Points(w) /\ i = Min(P)
    BY DEF Sound, Start
  <2>2. P # {} /\ P \subseteq DOMAIN Ops
    <3>1. PICK j \in DOMAIN Ops : Ops[j].res = w
      BY DEF Values
    <3> QED BY <2>1, <3>1 DEF Points
  <2>3. DOMAIN Ops \subseteq Nat
    BY ProgramFacts
  <2> HIDE DEF P, i
  <2>4. i \in P /\ \A j \in P : i <= j
    <3>1. \E k \in P : \A j \in P : k <= j
      BY <2>2, <2>3, Smallest
    <3> QED BY <2>1, <3>1 DEF Min
  <2>5. i \in DOMAIN Ops /\ (Ops[i].res = w \/ w \in Ops[i].args)
    BY <2>1, <2>4 DEF Points
  <2>6. ASSUME w \in Ops[i].args
        PROVE  FALSE
    <3>1. PICK j \in 1..(i - 1) : Ops[j].res = w
      BY <2>5, <2>6, ProgramFacts DEF WellFormed, Ops
    <3>2. i \in 1..Len(Ops) /\ Len(Ops) \in Nat
      BY <2>5, ProgramFacts
    <3>3. j \in 1..Len(Ops) /\ ~(i <= j)
      BY <3>2
    <3>4. j \in P
      BY <2>1, <3>1, <3>3, ProgramFacts DEF Points
    <3> QED BY <2>4, <3>3, <3>4
  <2> QED BY <2>5, <2>6 DEF i
<1> QED BY <1>1

\* The interval the allocator visits next is one with the earliest start.
LEMMA NextInterval ==
    ASSUME Sound, unhandled \subseteq Values, unhandled # {}
    PROVE  LET cur == CHOOSE v \in unhandled : \A w \in unhandled : Start(v) <= Start(w)
           IN  cur \in unhandled /\ \A w \in unhandled : Start(cur) <= Start(w)
<1> DEFINE T == {Start(v) : v \in unhandled}
<1>1. T \subseteq Nat /\ T # {}
  BY IntervalFacts
<1>2. PICK s \in T : \A t \in T : s <= t
  <2> HIDE DEF T
  <2> QED BY <1>1, Smallest
<1>3. PICK v \in unhandled : s = Start(v)
  OBVIOUS
<1>4. \A w \in unhandled : Start(v) <= Start(w)
  BY <1>2, <1>3
<1> QED BY <1>4

-----------------------------------------------------------------------------
(* The allocator *)

\* The registers that are free once the intervals that are over gave theirs back: none of them
\* belongs to an interval that stays active.
LEMMA FreeNow ==
    ASSUME Sound, Scan, Placed, NEW cur \in unhandled, \A w \in unhandled : Start(cur) <= Start(w)
    PROVE  LET gone == Expired(cur) \cup Sleeping(cur)
               now == free \cup Released(cur)
           IN  /\ gone \subseteq active
               /\ \A v \in gone : End(v) <= Start(cur)
               /\ \A v \in Visited : v \in active \ gone \/ End(v) <= Start(cur)
               /\ \A v \in active \ gone : mem[v] \notin now
               /\ now \subseteq Registers
<1> DEFINE gone == Expired(cur) \cup Sleeping(cur)
           now == free \cup Released(cur)
<1>1. \A v \in Values : Start(v) \in Nat /\ End(v) \in Nat
  BY IntervalFacts
<1>2. cur \in Values /\ active \subseteq Visited /\ Visited \subseteq Values
  BY DEF Scan, Visited
<1>3. gone \subseteq active
  BY DEF Expired, Sleeping
<1>4. ASSUME NEW v \in gone
      PROVE  End(v) <= Start(cur)
  <2>1. Start(v) <= Start(cur)
    BY <1>2, <1>3 DEF Scan
  <2>2. End(v) < Start(cur) \/ ~(Start(cur) >= Start(v) /\ Start(cur) < End(v))
    BY DEF Expired, Sleeping, AliveAt
  <2> QED BY <1>1, <1>2, <1>3, <2>1, <2>2
<1>5. \A v \in Visited : v \in active \ gone \/ End(v) <= Start(cur)
  BY <1>4 DEF Scan
<1>6. now = free \cup {mem[v] : v \in gone}
  BY DEF Released
<1> HIDE DEF gone, now
<1>7. \A v \in active \ gone : mem[v] \notin now
  BY <1>3, <1>6 DEF Placed
<1>8. now \subseteq Registers
  BY <1>2, <1>3, <1>6 DEF Placed, Scan
<1> QED BY <1>3, <1>4, <1>5, <1>7, <1>8 DEF gone, now

\* What a visit does: the allocator gives up, or the value gets a register that is free now.
LEMMA Outcome ==
    ASSUME Sound, Scan, Placed, pc = 0, abort = None, unhandled # {}, Allocate
    PROVE  \E cur \in unhandled :
             LET gone == Expired(cur) \cup Sleeping(cur)
                 now == free \cup Released(cur)
             IN  /\ \A w \in unhandled : Start(cur) <= Start(w)
                 /\ unhandled' = unhandled \ {cur} /\ active' = (active \ gone) \cup {cur}
                 /\ inactive' \subseteq (inactive \cup gone) \ {cur}
                 /\ \/ /\ abort' \in {"no scratch register", "no register"}
                       /\ mem' = mem /\ saved' = saved /\ free' \subseteq free \cup now
                    \/ /\ abort' = None
                       /\ \E r \in now :
                            /\ mem' = [mem EXCEPT ![cur] = r] /\ free' = now \ {r}
                            /\ \/ saved' = saved /\ (ClaimsR0(cur) => r = 0)
                               \/ r # 0 /\ \E i \in CallsOf(cur) : saved' = saved \cup {i}
<1> DEFINE cur == CHOOSE v \in unhandled : \A w \in unhandled : Start(v) <= Start(w)
           gone == Expired(cur) \cup Sleeping(cur)
           now == free \cup Released(cur)
           dozing == {v \in (inactive \cup Sleeping(cur)) \ {cur} : End(v) >= Start(cur)}
           available == Available(cur, now, dozing)
           reg == Pick(cur, available)
<1>1. cur \in unhandled /\ \A w \in unhandled : Start(cur) <= Start(w)
  BY NextInterval DEF Scan
<1>2. /\ unhandled' = unhandled \ {cur} /\ active' = (active \ gone) \cup {cur}
      /\ inactive' = dozing
  BY DEF Allocate
<1>3. dozing \subseteq Values /\ dozing \subseteq (inactive \cup gone) \ {cur}
  BY DEF Sleeping, Scan, Visited
<1>4. mem[cur] = IF ClaimsR0(cur) THEN 0 ELSE NoReg
  BY <1>1 DEF Scan
<1>n. ASSUME NEW v \in dozing
      PROVE  ~AliveAt(v, Start(cur))
  <2>1. v \in Values /\ cur \in Values /\ v # cur
    BY <1>1, <1>3 DEF Scan
  <2>2. Start(v) \in Nat /\ End(v) \in Nat /\ Start(cur) \in Nat
    BY <2>1, IntervalFacts
  <2>3. v \in Sleeping(cur) \/ v \in inactive
    OBVIOUS
  <2> HIDE DEF cur, dozing
  <2>4. CASE v \in Sleeping(cur)
    BY <2>4 DEF Sleeping
  <2>5. CASE v \in inactive /\ v \in unhandled
    <3>1. Start(cur) <= Start(v) /\ Start(cur) # Start(v)
      BY <1>1, <2>1, <2>5, StartsDiffer
    <3> QED BY <2>2, <3>1 DEF AliveAt
  <2>6. CASE v \in inactive /\ v \notin unhandled
    <3>1. End(v) <= Start(cur)
      BY <1>1, <2>1, <2>6 DEF Scan, Visited
    <3> QED BY <2>2, <3>1 DEF AliveAt
  <2> QED BY <2>3, <2>4, <2>5, <2>6
<1>5. NoReg # 0
  BY RegsAssumption DEF NoReg
<1>6. available \subseteq now
  BY DEF Available
<1>7. \/ abort' = "no register" /\ mem' = mem /\ free' = free /\ saved' = saved
      \/ /\ reg \in now /\ reg # NoReg
         /\ mem' = [mem EXCEPT ![cur] = reg] /\ free' = now \ {reg} /\ saved' = saved /\ abort' = abort
      \/ SaveAround(cur, now, available)
  BY <1>n DEF Allocate
<1>8. ClaimsR0(cur) => reg = 0
  BY <1>4, <1>5 DEF Pick
<1> HIDE DEF cur, gone, now, available, reg, dozing
<1>9. SaveAround(cur, now, available) =>
         \/ abort' = "no scratch register" /\ mem' = mem /\ free' = now /\ saved' = saved
         \/ /\ abort' = abort
            /\ \E r \in now : /\ r # 0 /\ mem' = [mem EXCEPT ![cur] = r] /\ free' = now \ {r}
                              /\ \E i \in CallsOf(cur) : saved' = saved \cup {i}
  <2> SUFFICES ASSUME SaveAround(cur, now, available), available \ {0} # {}
               PROVE  /\ abort' = abort
                      /\ \E r \in now : /\ r # 0 /\ mem' = [mem EXCEPT ![cur] = r] /\ free' = now \ {r}
                                        /\ \E i \in CallsOf(cur) : saved' = saved \cup {i}
    BY DEF SaveAround
  <2> DEFINE T == available \ {0}
             r == Min(T)
  <2>1. T \subseteq Nat
    <3>1. now \subseteq Registers
      BY <1>1, FreeNow DEF now
    <3> QED BY <1>6, <3>1, RegsAssumption DEF Registers
  <2>2. r \in T
    <3>1. \E i \in T : \A j \in T : i <= j
      <4>1. T # {}
        OBVIOUS
      <4> HIDE DEF T
      <4> QED BY <2>1, <4>1, Smallest
    <3> QED BY <3>1 DEF Min
  <2>3. /\ \E i \in CallsOf(cur) : saved' = saved \cup {i}
        /\ mem' = [mem EXCEPT ![cur] = r] /\ free' = now \ {r} /\ abort' = abort
    BY DEF SaveAround
  <2>4. r \in now /\ r # 0
    BY <1>6, <2>2
  <2> HIDE DEF r
  <2> QED BY <2>3, <2>4
<1>10. \/ /\ abort' \in {"no scratch register", "no register"}
          /\ mem' = mem /\ saved' = saved /\ free' \subseteq free \cup now
       \/ /\ abort' = None
          /\ \E r \in now :
               /\ mem' = [mem EXCEPT ![cur] = r] /\ free' = now \ {r}
               /\ \/ saved' = saved /\ (ClaimsR0(cur) => r = 0)
                  \/ r # 0 /\ \E i \in CallsOf(cur) : saved' = saved \cup {i}
  BY <1>7, <1>8, <1>9
<1> QED BY <1>1, <1>2, <1>3, <1>10 DEF gone, now

\* What depends on the program and its timesteps alone stays.
LEMMA SameProgram ==
    ASSUME prog' = prog, points' = points
    PROVE  /\ Ops' = Ops /\ Values' = Values
           /\ \A v : /\ Start(v)' = Start(v) /\ End(v)' = End(v) /\ Points(v)' = Points(v)
                     /\ ClaimsR0(v)' = ClaimsR0(v) /\ CallsOf(v)' = CallsOf(v)
           /\ \A i : ClobbersR0(i)' = ClobbersR0(i)
           /\ \A u, v : Meet(u, v)' = Meet(u, v)
           /\ Sound => Sound'
<1>1. Ops' = Ops
  BY DEF Ops
<1>2. Values' = Values
  BY <1>1 DEF Values
<1>3. \A i : ClobbersR0(i)' = ClobbersR0(i)
  BY <1>1 DEF ClobbersR0
<1>4. ASSUME NEW v
      PROVE  /\ Start(v)' = Start(v) /\ End(v)' = End(v) /\ Points(v)' = Points(v)
             /\ ClaimsR0(v)' = ClaimsR0(v) /\ CallsOf(v)' = CallsOf(v)
  <2>1. Defs(v)' = Defs(v)
    BY <1>1 DEF Defs
  <2>2. Start(v)' = Start(v) /\ End(v)' = End(v)
    BY DEF Start, End
  <2>3. Points(v)' = Points(v)
    BY <1>1 DEF Points
  <2>4. ClaimsR0(v)' = ClaimsR0(v) /\ CallsOf(v)' = CallsOf(v)
    BY <1>3, <2>1 DEF ClaimsR0, CallsOf
  <2> QED BY <2>2, <2>3, <2>4
<1>5. \A u, v : Meet(u, v)' = Meet(u, v)
  BY <1>4 DEF Meet
<1>6. Sound => Sound'
  BY <1>2, <1>4 DEF Sound
<1> QED BY <1>1, <1>2, <1>3, <1>4, <1>5, <1>6

LEMMA AllocatePreserves ==
    ASSUME IInv, Allocate
    PROVE  IInv'
<1>1. pc = 0 /\ abort = None /\ unhandled # {} /\ Sound /\ Scan /\ Placed /\ Runs
  BY DEF IInv, Allocate
<1>2. prog' = prog /\ points' = points /\ pc' = pc /\ regs' = regs
  BY DEF Allocate
<1>3. PICK cur \in unhandled :
        LET gone == Expired(cur) \cup Sleeping(cur)
            now == free \cup Released(cur)
        IN  /\ \A w \in unhandled : Start(cur) <= Start(w)
            /\ unhandled' = unhandled \ {cur} /\ active' = (active \ gone) \cup {cur}
            /\ inactive' \subseteq (inactive \cup gone) \ {cur}
            /\ \/ /\ abort' \in {"no scratch register", "no register"}
                  /\ mem' = mem /\ saved' = saved /\ free' \subseteq free \cup now
               \/ /\ abort' = None
                  /\ \E r \in now :
                       /\ mem' = [mem EXCEPT ![cur] = r] /\ free' = now \ {r}
                       /\ \/ saved' = saved /\ (ClaimsR0(cur) => r = 0)
                          \/ r # 0 /\ \E i \in CallsOf(cur) : saved' = saved \cup {i}
  BY <1>1, Outcome
<1> DEFINE gone == Expired(cur) \cup Sleeping(cur)
           now == free \cup Released(cur)
<1>4. /\ gone \subseteq active
      /\ \A v \in gone : End(v) <= Start(cur)
      /\ \A v \in Visited : v \in active \ gone \/ End(v) <= Start(cur)
      /\ \A v \in active \ gone : mem[v] \notin now
      /\ now \subseteq Registers
  BY <1>1, <1>3, FreeNow
<1>5. /\ \A w \in unhandled : Start(cur) <= Start(w)
      /\ unhandled' = unhandled \ {cur} /\ active' = (active \ gone) \cup {cur}
      /\ inactive' \subseteq (inactive \cup gone) \ {cur}
  BY <1>3
<1>6. \/ /\ abort' \in {"no scratch register", "no register"}
         /\ mem' = mem /\ saved' = saved /\ free' \subseteq free \cup now
      \/ /\ abort' = None
         /\ \E r \in now :
              /\ mem' = [mem EXCEPT ![cur] = r] /\ free' = now \ {r}
              /\ \/ saved' = saved /\ (ClaimsR0(cur) => r = 0)
                 \/ r # 0 /\ \E i \in CallsOf(cur) : saved' = saved \cup {i}
  BY <1>3
<1> HIDE DEF gone, now
<1>7. /\ Ops' = Ops /\ Values' = Values /\ Sound'
      /\ \A v : /\ Start(v)' = Start(v) /\ End(v)' = End(v)
                /\ ClaimsR0(v)' = ClaimsR0(v) /\ CallsOf(v)' = CallsOf(v)
      /\ \A i : ClobbersR0(i)' = ClobbersR0(i)
      /\ \A u, v : Meet(u, v)' = Meet(u, v)
  BY <1>1, <1>2, SameProgram
<1>8. \A v \in Values : Start(v) \in Nat /\ End(v) \in Nat
  BY <1>1, IntervalFacts
<1>9. /\ cur \in Values /\ unhandled \subseteq Values /\ active \subseteq Visited
      /\ Visited' = Visited \cup {cur} /\ cur \notin Visited /\ Visited \subseteq Values
  BY <1>1, <1>5, <1>7 DEF Scan, Visited
<1>10. \A v \in Values \ {cur} : mem'[v] = mem[v]
  BY <1>1, <1>6, <1>9 DEF Scan
<1>11. \A i \in CallsOf(cur) : i \in DOMAIN Ops /\ ClobbersR0(i) /\ Ops[i].res = cur
  BY DEF CallsOf, Defs
<1>12. Scan'
  <2>1. /\ unhandled' \subseteq Values' /\ active' \subseteq Visited' /\ inactive' \subseteq Values'
        /\ active' \cap inactive' = {}
    BY <1>1, <1>4, <1>5, <1>7, <1>9 DEF Scan
  <2>2. mem' \in [Values' -> Registers \cup {NoReg}] /\ free' \subseteq Registers
    BY <1>1, <1>4, <1>6, <1>7, <1>9 DEF Scan
  <2>3. saved' \subseteq {i \in DOMAIN Ops : ClobbersR0(i)}
    <3>1. \A i \in saved : i \in DOMAIN Ops /\ ClobbersR0(i)
      BY <1>1 DEF Scan
    <3>2. saved' = saved \/ \E i \in CallsOf(cur) : saved' = saved \cup {i}
      BY <1>6
    <3>3. \A i \in saved' : i \in DOMAIN Ops /\ ClobbersR0(i)
      BY <1>11, <3>1, <3>2
    <3> QED BY <3>3
  <2>4. \A v \in unhandled' : mem'[v] = IF ClaimsR0(v) THEN 0 ELSE NoReg
    BY <1>1, <1>5, <1>9, <1>10 DEF Scan
  <2>5. ASSUME NEW v \in Visited', NEW w \in unhandled'
        PROVE  Start(v) <= Start(w) /\ (v \in active' \/ End(v) <= Start(w))
    <3>1. w \in unhandled /\ w \in Values /\ v \in Values /\ Start(cur) <= Start(w)
      BY <1>5, <1>9
    <3>2. CASE v = cur
      BY <1>5, <3>1, <3>2
    <3>3. CASE v \in Visited
      <4>1. Start(v) <= Start(w) /\ (v \in active' \/ End(v) <= Start(cur))
        BY <1>1, <1>4, <1>5, <3>1, <3>3 DEF Scan
      <4>2. Start(w) \in Nat /\ Start(cur) \in Nat /\ End(v) \in Nat
        BY <1>8, <1>9, <3>1
      <4> QED BY <3>1, <4>1, <4>2
    <3> QED BY <1>9, <3>2, <3>3
  <2>6. saved' \subseteq {i \in DOMAIN Ops' : ClobbersR0(i)'}
    BY <1>7, <2>3
  <2>7. \A v \in unhandled' : mem'[v] = IF ClaimsR0(v)' THEN 0 ELSE NoReg
    BY <1>7, <2>4
  <2>8. \A v \in Visited', w \in unhandled' :
          Start(v)' <= Start(w)' /\ (v \in active' \/ End(v)' <= Start(w)')
    BY <1>7, <2>5
  <2> QED BY <2>1, <2>2, <2>6, <2>7, <2>8 DEF Scan, Registers, NoReg
<1>13. ASSUME abort' = None
       PROVE  Placed'
  <2>1. PICK r \in now :
          /\ mem' = [mem EXCEPT ![cur] = r] /\ free' = now \ {r}
          /\ \/ saved' = saved /\ (ClaimsR0(cur) => r = 0)
             \/ r # 0 /\ \E i \in CallsOf(cur) : saved' = saved \cup {i}
    BY <1>6, <1>13 DEF None
  <2>2. mem'[cur] = r /\ r \in Registers
    BY <1>1, <1>4, <1>9, <2>1 DEF Scan
  <2>3. \A v \in Visited : mem'[v] = mem[v] /\ v # cur
    BY <1>9, <1>10
  <2>4. \A v \in Visited' : mem'[v] \in Registers
    BY <1>1, <1>9, <2>2, <2>3 DEF Placed
  <2>5. \A v \in active' : v = cur \/ (v \in active \ gone /\ v \in Visited /\ mem'[v] = mem[v] /\ mem[v] \notin now)
    BY <1>4, <1>5, <1>9, <2>3
  <2>6. \A v \in active' : mem'[v] \notin free'
    BY <2>1, <2>2, <2>5
  <2>7. \A u, v \in active' : u # v => mem'[u] # mem'[v]
    BY <1>1, <2>2, <2>5 DEF Placed
  <2>8. ASSUME NEW v \in Visited, Meet(cur, v) \/ Meet(v, cur)
        PROVE  mem'[v] # r
    <3>1. Start(cur) \in Nat /\ End(v) \in Nat /\ Start(cur) < End(v)
      BY <1>8, <1>9, <2>8 DEF Meet
    <3>2. v \in active \ gone
      BY <1>4, <3>1
    <3> QED BY <1>4, <2>3, <3>2
  <2>9. \A u, v \in Visited' : u # v /\ Meet(u, v) => mem'[u] # mem'[v]
    BY <1>1, <1>9, <2>2, <2>3, <2>8 DEF Placed
  <2>10. \A i \in saved' : Ops[i].res \in Visited' /\ mem'[Ops[i].res] # 0
    <3>1. \A i \in saved : Ops[i].res \in Visited /\ mem[Ops[i].res] # 0
      BY <1>1 DEF Placed
    <3>2. \A i \in saved : Ops[i].res \in Visited' /\ mem'[Ops[i].res] # 0
      BY <1>9, <2>3, <3>1
    <3>3. CASE saved' = saved
      BY <3>2, <3>3
    <3>4. CASE r # 0 /\ \E i \in CallsOf(cur) : saved' = saved \cup {i}
      BY <1>9, <1>11, <2>2, <3>2, <3>4
    <3> QED BY <2>1, <3>3, <3>4
  <2>11. ASSUME NEW v \in Visited', ClaimsR0(v), CallsOf(v) \cap saved' = {}
         PROVE  mem'[v] = 0
    <3>1. saved \subseteq saved'
      BY <2>1
    <3>2. CASE v \in Visited
      BY <1>1, <2>3, <2>11, <3>1, <3>2 DEF Placed
    <3>3. CASE v = cur
      BY <2>1, <2>2, <2>11, <3>3
    <3> QED BY <1>9, <3>2, <3>3
  <2>12. \A u, v \in Visited' : u # v /\ Meet(u, v)' => mem'[u] # mem'[v]
    BY <1>7, <2>9
  <2>13. \A i \in saved' : Ops'[i].res \in Visited' /\ mem'[Ops'[i].res] # 0
    BY <1>7, <2>10
  <2>14. \A v \in Visited' : ClaimsR0(v)' /\ CallsOf(v)' \cap saved' = {} => mem'[v] = 0
    BY <1>7, <2>11
  <2> QED BY <2>4, <2>6, <2>7, <2>12, <2>13, <2>14 DEF Placed, Registers
<1>14. Runs'
  BY <1>1, <1>2, <1>6, <1>7 DEF Runs, Registers
<1> QED BY <1>7, <1>12, <1>13, <1>14 DEF IInv

-----------------------------------------------------------------------------
(* The code that runs *)

\* Two calls that define one value are the same call.
LEMMA OneCall ==
    ASSUME Sound, SavedAtEveryCall, NEW v \in Values, NEW i \in CallsOf(v), NEW j \in CallsOf(v)
    PROVE  i = j
<1> SUFFICES ASSUME i # j PROVE FALSE
  OBVIOUS
<1> DEFINE C == CallsOf(v)
<1>1. C \subseteq 1..Len(Ops) /\ Len(Ops) \in Nat
  BY ProgramFacts DEF CallsOf, Defs
<1>2. IsFiniteSet(C)
  <2>1. IsFiniteSet(1..Len(Ops))
    BY <1>1, FS_Interval
  <2> HIDE DEF C
  <2> QED BY <1>1, <2>1, FS_Subset
<1>3. Cardinality(C) <= 1
  BY DEF SavedAtEveryCall
<1>4. i \in C /\ j \in C
  OBVIOUS
<1> HIDE DEF C
<1>5. Cardinality(C) \in Nat
  BY <1>2, FS_CardinalityType
<1>6. Cardinality(C) # 0
  BY <1>2, <1>4, FS_EmptySet
<1>7. Cardinality(C) = 1
  BY <1>3, <1>5, <1>6
<1>8. PICK x : C = {x}
  BY <1>2, <1>7, FS_Singleton
<1> QED BY <1>4, <1>8

\* A call or a yield whose result is not moved leaves it where the value lives, in register 0.
LEMMA NotMoved ==
    ASSUME Sound, Placed, unhandled = {}, SavedAtEveryCall, NEW i \in DOMAIN Ops,
           ClobbersR0(i), i \notin saved
    PROVE  mem[Ops[i].res] = 0
<1> DEFINE w == Ops[i].res
<1>1. w \in Values
  BY ProgramFacts DEF ClobbersR0
<1>2. i \in CallsOf(w) /\ ClaimsR0(w)
  BY DEF CallsOf, Defs, ClaimsR0
<1>3. CallsOf(w) \cap saved = {}
  BY <1>1, <1>2, OneCall
<1> QED BY <1>1, <1>2, <1>3 DEF Placed, Visited

\* An operation puts its result where the value lives, and every other register keeps what it has,
\* register 0 included.
LEMMA AfterOK ==
    ASSUME Sound, Scan, Placed, unhandled = {}, regs \in [Registers -> Values \cup {Junk}],
           NEW i \in DOMAIN Ops, Ops[i].kind # "next", NEW back \in Values \cup {Junk},
           Ops[i].kind # "yield" => back = regs[0]
    PROVE  LET after == After(Ops[i], i, back)
               w == Ops[i].res
           IN  /\ after \in [Registers -> Values \cup {Junk}]
               /\ SavedAtEveryCall =>
                    /\ w # 0 => after[mem[w]] = w
                    /\ \A r \in Registers : w = 0 \/ r # mem[w] => after[r] = regs[r]
<1> DEFINE after == After(Ops[i], i, back)
           w == Ops[i].res
           m == mem[w]
           kind == Ops[i].kind
<1>1. kind \in Kinds /\ (w = 0 <=> kind \in {"test", "br"}) /\ (w # 0 => w \in Values)
  BY ProgramFacts
<1>2. 0 \in Registers
  BY RegsAssumption DEF Registers
<1>3. w # 0 => m \in Registers
  BY <1>1 DEF Placed, Visited
<1>4. CASE kind \in {"test", "br"}
  <2>1. after = regs
    BY <1>4 DEF After
  <2> QED BY <1>1, <1>4, <2>1
<1>5. CASE kind \in {"plain", "iter"}
  <2>1. after = [regs EXCEPT ![m] = w]
    BY <1>5 DEF After
  <2>2. w # 0
    BY <1>1, <1>5
  <2> HIDE DEF after, w, m
  <2>3. /\ after \in [Registers -> Values \cup {Junk}] /\ after[m] = w
        /\ \A r \in Registers : r # m => after[r] = regs[r]
    BY <1>1, <1>3, <2>1, <2>2
  <2> QED BY <2>2, <2>3 DEF after, w, m
<1>6. CASE kind = "call"
  <2> DEFINE q == [regs EXCEPT ![0] = w]
  <2>1. after = IF i \in saved THEN [[q EXCEPT ![m] = q[0]] EXCEPT ![0] = back] ELSE q
    BY <1>6 DEF After, Moved
  <2>2. w # 0 /\ back = regs[0]
    BY <1>1, <1>6
  <2>3. i \in saved => m # 0
    BY DEF Placed
  <2>4. SavedAtEveryCall /\ i \notin saved => m = 0
    BY <1>6, NotMoved DEF ClobbersR0
  <2> HIDE DEF after, w, m, kind
  <2>5. q \in [Registers -> Values \cup {Junk}] /\ q[0] = w /\ \A r \in Registers \ {0} : q[r] = regs[r]
    BY <1>1, <1>2, <2>2
  <2> HIDE DEF q
  <2>6. CASE i \in saved
    <3> DEFINE s == [q EXCEPT ![m] = q[0]]
    <3>1. s \in [Registers -> Values \cup {Junk}] /\ s[m] = w /\ \A r \in Registers \ {m} : s[r] = q[r]
      BY <1>3, <2>2, <2>5, <1>2
    <3>2. after = [s EXCEPT ![0] = back]
      BY <2>1, <2>6
    <3> HIDE DEF s
    <3>3. /\ after \in [Registers -> Values \cup {Junk}] /\ after[0] = back
          /\ \A r \in Registers \ {0} : after[r] = s[r]
      BY <1>2, <3>1, <3>2
    <3>4. after[m] = w
      BY <1>3, <2>2, <2>3, <2>6, <3>1, <3>3
    <3>5. \A r \in Registers : r # m => after[r] = regs[r]
      BY <2>2, <2>5, <3>1, <3>3
    <3> QED BY <2>2, <3>3, <3>4, <3>5 DEF after, w, m
  <2>7. CASE i \notin saved
    BY <2>1, <2>2, <2>4, <2>5, <2>7 DEF after, w, m
  <2> QED BY <2>6, <2>7
<1>7. CASE kind = "yield"
  <2> DEFINE p == [regs EXCEPT ![0] = Junk]
             q == [p EXCEPT ![m] = w]
  <2>1. after = IF i \in saved THEN [[q EXCEPT ![m] = q[0]] EXCEPT ![0] = back] ELSE q
    BY <1>7 DEF After, Moved
  <2>2. w # 0
    BY <1>1, <1>7
  <2>3. SavedAtEveryCall => i \notin saved
    BY <1>7 DEF SavedAtEveryCall
  <2>4. SavedAtEveryCall => m = 0
    BY <1>7, <2>3, NotMoved DEF ClobbersR0
  <2> HIDE DEF after, w, m, kind
  <2>5. p \in [Registers -> Values \cup {Junk}] /\ \A r \in Registers \ {0} : p[r] = regs[r]
    BY <1>2
  <2> HIDE DEF p
  <2>6. q \in [Registers -> Values \cup {Junk}] /\ q[m] = w /\ \A r \in Registers \ {m} : q[r] = p[r]
    BY <1>1, <1>3, <2>2, <2>5
  <2> HIDE DEF q
  <2>7. after \in [Registers -> Values \cup {Junk}]
    <3> DEFINE s == [q EXCEPT ![m] = q[0]]
    <3>1. s \in [Registers -> Values \cup {Junk}]
      BY <1>2, <2>6
    <3> HIDE DEF s
    <3>2. [s EXCEPT ![0] = back] \in [Registers -> Values \cup {Junk}]
      BY <3>1
    <3> QED BY <2>1, <2>6, <3>2 DEF s
  <2>8. SavedAtEveryCall => after[m] = w /\ \A r \in Registers : r # m => after[r] = regs[r]
    BY <2>1, <2>3, <2>4, <2>5, <2>6
  <2> QED BY <2>2, <2>7, <2>8 DEF after, w, m
<1> QED BY <1>1, <1>4, <1>5, <1>6, <1>7 DEF Kinds

\* What control needs at the next operation it still needs at this one, or was just given: a
\* register that holds it now is written only for a value whose interval does not meet its own.
LEMMA StepIntact ==
    ASSUME Sound, Placed, unhandled = {}, Intact, pc \in DOMAIN Ops, NEW j \in prog.flow[pc] \ {0},
           NEW after,
           Gives(prog, pc, j) # {} /\ Ops[pc].res # 0 => after[mem[Ops[pc].res]] = Ops[pc].res,
           \A r \in Registers :
             Gives(prog, pc, j) = {} \/ Ops[pc].res = 0 \/ r # mem[Ops[pc].res] => after[r] = regs[r]
    PROVE  \A v \in prog.defined[j] : Covered(v) /\ v \in prog.live[j] => after[mem[v]] = v
<1> SUFFICES ASSUME NEW v \in prog.defined[j], Covered(v), v \in prog.live[j]
             PROVE  after[mem[v]] = v
  OBVIOUS
<1> DEFINE w == Ops[pc].res
           G == Gives(prog, pc, j)
<1>1. WellFormed(prog) /\ Values \subseteq Nat \ {0} /\ (w # 0 => w \in Values)
  BY ProgramFacts
<1>2. /\ prog.flow \in [DOMAIN Ops -> SUBSET (DOMAIN Ops \cup {0})]
      /\ prog.defined \in [DOMAIN Ops -> SUBSET Values]
  BY <1>1 DEF WellFormed, Ops, Values
<1>3. j \in DOMAIN Ops /\ v \in Values
  BY <1>2
<1>4. prog.defined[j] \subseteq prog.defined[pc] \cup G
  BY <1>1 DEF WellFormed, Ops
<1>5. prog.live[j] \ G \subseteq prog.live[pc]
  BY <1>1 DEF WellFormed, Ops
<1>6. G = {} \/ G = {w}
  BY DEF Gives, Ops
<1>7. CASE v \in G
  BY <1>1, <1>3, <1>6, <1>7
<1>8. CASE v \notin G
  <2>1. v \in prog.defined[pc] /\ v \in prog.live[pc]
    BY <1>4, <1>5, <1>8
  <2>2. regs[mem[v]] = v
    BY <2>1 DEF Intact
  <2>3. mem[v] \in Registers
    BY <1>3 DEF Placed, Visited
  <2>4. CASE G = {} \/ w = 0
    BY <2>2, <2>3, <2>4
  <2>5. CASE G = {w} /\ w # 0
    <3>1. w \in Values /\ w # v
      BY <1>1, <1>8, <2>5
    <3>2. Start(v) <= pc /\ pc < End(v)
      <4>1. Start(v) \in Nat /\ pc \in Nat
        BY <1>3, IntervalFacts, ProgramFacts
      <4> QED BY <2>1, <4>1 DEF Covered, AliveAt
    <3>3. Start(w) <= pc /\ pc < End(w)
      BY <3>1, IntervalFacts
    <3>4. Start(v) \in Nat /\ End(v) \in Nat /\ Start(w) \in Nat /\ End(w) \in Nat /\ pc \in Nat
      BY <1>3, <3>1, IntervalFacts, ProgramFacts
    <3> HIDE DEF w
    <3>5. Meet(v, w)
      BY <3>2, <3>3, <3>4 DEF Meet
    <3>6. mem[v] # mem[w]
      BY <1>3, <3>1, <3>5 DEF Placed, Visited
    <3> QED BY <2>2, <2>3, <3>6 DEF w
  <2> QED BY <1>6, <2>4, <2>5
<1> QED BY <1>7, <1>8

\* A step of the running code keeps the registers chosen, and what was said of them.
LEMMA AllocationStays ==
    ASSUME IInv, UNCHANGED <<prog, allocation>>
    PROVE  /\ Sound' /\ Scan' /\ (abort' = None => Placed')
           /\ Ops' = Ops /\ Values' = Values /\ (SavedAtEveryCall' <=> SavedAtEveryCall)
           /\ \A v : Covered(v)' <=> Covered(v)
<1>1. /\ prog' = prog /\ points' = points /\ unhandled' = unhandled /\ active' = active
      /\ inactive' = inactive /\ mem' = mem /\ free' = free /\ saved' = saved /\ abort' = abort
  BY DEF allocation
<1>2. /\ Ops' = Ops /\ Values' = Values /\ Sound'
      /\ \A v : /\ Start(v)' = Start(v) /\ End(v)' = End(v)
                /\ ClaimsR0(v)' = ClaimsR0(v) /\ CallsOf(v)' = CallsOf(v)
      /\ \A i : ClobbersR0(i)' = ClobbersR0(i)
      /\ \A u, v : Meet(u, v)' = Meet(u, v)
  BY <1>1, SameProgram DEF IInv
<1>3. Visited' = Visited
  BY <1>1, <1>2 DEF Visited
<1>4. Scan'
  <2>1. saved' \subseteq {i \in DOMAIN Ops' : ClobbersR0(i)'}
    BY <1>1, <1>2 DEF IInv, Scan
  <2>2. \A v \in unhandled' : mem'[v] = IF ClaimsR0(v)' THEN 0 ELSE NoReg
    BY <1>1, <1>2 DEF IInv, Scan
  <2>3. \A v \in Visited', w \in unhandled' :
          Start(v)' <= Start(w)' /\ (v \in active' \/ End(v)' <= Start(w)')
    BY <1>1, <1>2, <1>3 DEF IInv, Scan
  <2>4. /\ unhandled' \subseteq Values' /\ active' \subseteq Visited' /\ inactive' \subseteq Values'
        /\ active' \cap inactive' = {}
        /\ mem' \in [Values' -> Registers \cup {NoReg}] /\ free' \subseteq Registers
    BY <1>1, <1>2, <1>3 DEF IInv, Scan
  <2> QED BY <2>1, <2>2, <2>3, <2>4 DEF Scan, Registers, NoReg
<1>5. ASSUME abort' = None
      PROVE  Placed'
  <2>1. Placed
    BY <1>1, <1>5 DEF IInv
  <2>2. \A u, v \in Visited' : u # v /\ Meet(u, v)' => mem'[u] # mem'[v]
    BY <1>1, <1>2, <1>3, <2>1 DEF Placed
  <2>3. \A i \in saved' : Ops'[i].res \in Visited' /\ mem'[Ops'[i].res] # 0
    BY <1>1, <1>2, <1>3, <2>1 DEF Placed
  <2>4. \A v \in Visited' : ClaimsR0(v)' /\ CallsOf(v)' \cap saved' = {} => mem'[v] = 0
    BY <1>1, <1>2, <1>3, <2>1 DEF Placed
  <2>5. /\ \A v \in Visited' : mem'[v] \in Registers
        /\ \A v \in active' : mem'[v] \notin free'
        /\ \A u, v \in active' : u # v => mem'[u] # mem'[v]
    BY <1>1, <1>3, <2>1 DEF Placed
  <2> QED BY <2>2, <2>3, <2>4, <2>5 DEF Placed, Registers
<1>6. SavedAtEveryCall' <=> SavedAtEveryCall
  BY <1>1, <1>2 DEF SavedAtEveryCall
<1>7. ASSUME NEW v
      PROVE  Covered(v)' <=> Covered(v)
  <2>1. \A i : AliveAt(v, i)' <=> AliveAt(v, i)
    BY <1>2 DEF AliveAt
  <2> QED BY <1>1, <1>2, <2>1 DEF Covered
<1> QED BY <1>2, <1>4, <1>5, <1>6, <1>7

\* What is left to show of a step of the running code.
LEMMA RunningStep ==
    ASSUME IInv, UNCHANGED <<prog, allocation>>, abort = None, unhandled = {}, pc' \in {0} \cup DOMAIN Ops,
           regs' \in [Registers -> Values \cup {Junk}],
           ASSUME pc' # 0, SavedAtEveryCall
           PROVE  \A v \in prog.defined[pc'] : Covered(v) /\ v \in prog.live[pc'] => regs'[mem[v]] = v
    PROVE  IInv'
<1>1. /\ Sound' /\ Scan' /\ (abort' = None => Placed')
      /\ Ops' = Ops /\ Values' = Values /\ (SavedAtEveryCall' <=> SavedAtEveryCall)
      /\ \A v : Covered(v)' <=> Covered(v)
  BY AllocationStays
<1>2. prog' = prog /\ mem' = mem /\ unhandled' = unhandled /\ abort' = abort
  BY DEF allocation
<1>3. ASSUME pc' # 0, SavedAtEveryCall'
      PROVE  Intact'
  <2>1. SavedAtEveryCall
    BY <1>1, <1>3
  <2>2. \A v \in prog.defined[pc'] : Covered(v) /\ v \in prog.live[pc'] => regs'[mem[v]] = v
    BY <1>3, <2>1
  <2>3. \A v \in prog'.defined[pc'] : Covered(v)' /\ v \in prog'.live[pc'] => regs'[mem'[v]] = v
    BY <1>1, <1>2, <2>2
  <2> QED BY <2>3 DEF Intact
<1>4. Runs'
  <2>1. regs' \in [Registers -> Values' \cup {Junk}]
    BY <1>1
  <2>2. pc' \in {0} \cup DOMAIN Ops'
    BY <1>1
  <2>3. abort' = None /\ unhandled' = {}
    BY <1>2
  <2> QED BY <1>3, <2>1, <2>2, <2>3 DEF Runs, Registers, Junk, None
<1> QED BY <1>1, <1>4 DEF IInv

LEMMA BeginPreserves ==
    ASSUME IInv, Begin
    PROVE  IInv'
<1>1. /\ abort = None /\ unhandled = {} /\ pc' = 1 /\ UNCHANGED <<prog, allocation>> /\ regs' = regs
      /\ Sound /\ Runs
  BY DEF Begin, IInv
<1>2. 1 \in DOMAIN Ops
  BY <1>1, ProgramFacts
<1>3. regs' \in [Registers -> Values \cup {Junk}]
  BY <1>1 DEF Runs
<1>4. prog.defined[pc'] = {}
  BY <1>1, ProgramFacts DEF WellFormed
<1> QED BY <1>1, <1>2, <1>3, <1>4, RunningStep

LEMMA ExecutePreserves ==
    ASSUME IInv, Execute
    PROVE  IInv'
<1>1. /\ pc # 0 /\ Ops[pc].kind # "next" /\ pc' \in prog.flow[pc] \ {0} /\ UNCHANGED <<prog, allocation>>
      /\ Sound /\ Scan /\ Runs
  BY DEF Execute, Successors, IInv
<1>2. /\ pc \in DOMAIN Ops /\ abort = None /\ unhandled = {} /\ Placed
      /\ regs \in [Registers -> Values \cup {Junk}] /\ (SavedAtEveryCall => Intact)
  BY <1>1 DEF Runs, IInv
<1>3. PICK back \in {regs[0]} \cup (IF Ops[pc].kind = "yield" THEN {Junk} ELSE {}) :
        regs' = After(Ops[pc], pc, back)
  BY DEF Execute
<1>4. back \in Values \cup {Junk} /\ (Ops[pc].kind # "yield" => back = regs[0])
  <2>1. 0 \in Registers
    BY RegsAssumption DEF Registers
  <2> QED BY <1>2, <1>3, <2>1
<1>5. /\ regs' \in [Registers -> Values \cup {Junk}]
      /\ SavedAtEveryCall =>
           /\ Ops[pc].res # 0 => regs'[mem[Ops[pc].res]] = Ops[pc].res
           /\ \A r \in Registers : Ops[pc].res = 0 \/ r # mem[Ops[pc].res] => regs'[r] = regs[r]
  BY <1>1, <1>2, <1>3, <1>4, AfterOK
<1>6. Gives(prog, pc, pc') # {}
  BY <1>1 DEF Gives, Ops
<1>7. pc' \in DOMAIN Ops
  BY <1>1, <1>2, ProgramFacts DEF WellFormed, Ops
<1>8. ASSUME SavedAtEveryCall
      PROVE  \A v \in prog.defined[pc'] : Covered(v) /\ v \in prog.live[pc'] => regs'[mem[v]] = v
  BY <1>1, <1>2, <1>5, <1>6, <1>8, StepIntact
<1> QED BY <1>1, <1>2, <1>5, <1>7, <1>8, RunningStep

LEMMA ForIterPreserves ==
    ASSUME IInv, ForIter
    PROVE  IInv'
<1>1. /\ pc # 0 /\ Ops[pc].kind = "next" /\ pc' \in prog.flow[pc] /\ UNCHANGED <<prog, allocation>>
      /\ regs' = IF Gives(prog, pc, pc') = {} THEN regs ELSE [regs EXCEPT ![mem[Ops[pc].res]] = Ops[pc].res]
      /\ Sound /\ Runs
  BY DEF ForIter, Successors, IInv
<1>2. /\ pc \in DOMAIN Ops /\ abort = None /\ unhandled = {} /\ Placed
      /\ regs \in [Registers -> Values \cup {Junk}] /\ (SavedAtEveryCall => Intact)
  BY <1>1 DEF Runs, IInv
<1>3. pc' \in {0} \cup DOMAIN Ops
  BY <1>1, <1>2, ProgramFacts DEF WellFormed, Ops
<1> DEFINE w == Ops[pc].res
<1>4. w \in Values /\ mem[w] \in Registers
  <2>1. w \in Values
    BY <1>1, <1>2, ProgramFacts
  <2> QED BY <1>2, <2>1 DEF Placed, Visited
<1>5. regs' = IF Gives(prog, pc, pc') = {} THEN regs ELSE [regs EXCEPT ![mem[w]] = w]
  BY <1>1
<1> HIDE DEF w
<1>6. /\ regs' \in [Registers -> Values \cup {Junk}]
      /\ Gives(prog, pc, pc') # {} => regs'[mem[w]] = w
      /\ \A r \in Registers : Gives(prog, pc, pc') = {} \/ r # mem[w] => regs'[r] = regs[r]
  BY <1>2, <1>4, <1>5
<1>7. w # 0
  BY <1>1, <1>4, ProgramFacts
<1>8. ASSUME pc' # 0, SavedAtEveryCall
      PROVE  \A v \in prog.defined[pc'] : Covered(v) /\ v \in prog.live[pc'] => regs'[mem[v]] = v
  <2>1. pc' \in prog.flow[pc] \ {0}
    BY <1>1, <1>8
  <2>2. /\ Gives(prog, pc, pc') # {} => regs'[mem[Ops[pc].res]] = Ops[pc].res
        /\ \A r \in Registers :
             Gives(prog, pc, pc') = {} \/ Ops[pc].res = 0 \/ r # mem[Ops[pc].res] => regs'[r] = regs[r]
    BY <1>6, <1>7 DEF w
  <2> QED BY <1>1, <1>2, <1>8, <2>1, <2>2, StepIntact
<1> QED BY <1>1, <1>2, <1>3, <1>6, <1>8, RunningStep

-----------------------------------------------------------------------------
(* The theorems *)

LEMMA InitHolds ==
    ASSUME Init
    PROVE  IInv
<1>1. Sound
  BY DEF Init, Sound
<1>2. Visited = {} /\ active = {} /\ saved = {} /\ pc = 0 /\ abort = None
  BY DEF Init, Visited
<1>3. 0 \in Registers
  BY RegsAssumption DEF Registers
<1>4. Scan
  <2>1. mem \in [Values -> Registers \cup {NoReg}]
    BY <1>3 DEF Init
  <2>2. \A v \in unhandled : mem[v] = IF ClaimsR0(v) THEN 0 ELSE NoReg
    BY DEF Init
  <2> QED BY <1>2, <2>1, <2>2 DEF Scan, Init
<1>5. Placed
  BY <1>2 DEF Placed
<1>6. Runs
  BY <1>2 DEF Runs, Init
<1> QED BY <1>1, <1>4, <1>5, <1>6 DEF IInv

LEMMA NextPreserves ==
    ASSUME IInv, [Next]_vars
    PROVE  IInv'
<1>1. CASE Allocate
  BY <1>1, AllocatePreserves
<1>2. CASE Begin
  BY <1>2, BeginPreserves
<1>3. CASE Execute
  BY <1>3, ExecutePreserves
<1>4. CASE ForIter
  BY <1>4, ForIterPreserves
<1>5. CASE UNCHANGED vars
  <2>1. UNCHANGED <<prog, allocation>> /\ pc' = pc /\ regs' = regs
    BY <1>5 DEF vars, allocation
  <2>2. /\ Sound' /\ Scan' /\ (abort' = None => Placed')
        /\ Ops' = Ops /\ Values' = Values /\ (SavedAtEveryCall' <=> SavedAtEveryCall)
        /\ \A v : Covered(v)' <=> Covered(v)
    BY <2>1, AllocationStays
  <2>3. prog' = prog /\ mem' = mem /\ unhandled' = unhandled /\ abort' = abort
    BY <2>1 DEF allocation
  <2>4. Intact => Intact'
    BY <2>1, <2>2, <2>3 DEF Intact
  <2>5. Runs'
    BY <2>1, <2>2, <2>3, <2>4 DEF IInv, Runs, Registers
  <2> QED BY <2>2, <2>5 DEF IInv
<1> QED BY <1>1, <1>2, <1>3, <1>4, <1>5 DEF Next

\* The invariant of the allocator and of the code that runs with its registers.
THEOREM Invariance == Spec => []IInv
<1>1. Init => IInv
  BY InitHolds
<1>2. IInv /\ [Next]_vars => IInv'
  BY NextPreserves
<1> QED BY <1>1, <1>2, PTL DEF Spec

\* Every variable of the allocator and of the frame that runs has its type, for any number of
\* registers and any set of well-formed programs: in particular an interval is moved to a register
\* that exists, and only behind calls and yields.
THEOREM TypeCorrect == Spec => []TypeOK
<1>1. IInv => TypeOK
  <2> SUFFICES ASSUME IInv PROVE TypeOK
    OBVIOUS
  <2>1. points \in [Values -> SUBSET DOMAIN Ops]
    BY DEF IInv, Sound, Points
  <2>2. active \subseteq Values
    BY DEF IInv, Scan, Visited
  <2> QED BY <2>1, <2>2 DEF IInv, Scan, Runs, TypeOK
<1> QED BY <1>1, Invariance, PTL

\* The assertion behind the branch for an inactive interval that is alive again never fires, since
\* blocks are sorted by dominance: two intervals never begin together, and one that was put aside
\* is over.
THEOREM NeverReactivated == Spec => []NeverWokenTwice
<1>1. IInv => NeverWokenTwice
  BY DEF IInv, Runs, NeverWokenTwice, None
<1> QED BY <1>1, Invariance, PTL

\* Two values whose intervals meet, gaps included, are never left in one register, whatever order
\* intervals of equal start are visited in: the register claimed in advance for the result of a
\* call is given to the call's value, or the call is saved around (the linear scan of
\* LinearScanRegisterAllocation.hpp).
THEOREM NotShared == Spec => []RegistersNotShared
<1>1. IInv => RegistersNotShared
  <2> SUFFICES ASSUME IInv, pc # 0, NEW u \in Values, NEW v \in Values, u # v,
                      Start(u) < End(v), Start(v) < End(u)
               PROVE  mem[u] # mem[v]
    BY DEF RegistersNotShared
  <2>1. Placed /\ unhandled = {}
    BY DEF IInv, Runs
  <2>2. u \in Visited /\ v \in Visited /\ Meet(u, v)
    BY <2>1 DEF Visited, Meet
  <2> QED BY <2>1, <2>2 DEF Placed
<1> QED BY <1>1, Invariance, PTL

\* On every path through any well-formed program, loops and the exits of loops included, an
\* operand is in its register when an operation reads it, as long as the order of the blocks
\* covers the lifetime of the value and no value has two calls that may define it.
THEOREM OperandsKept == Spec => []OperandsIntact
<1>1. IInv => OperandsIntact
  <2> SUFFICES ASSUME IInv, pc # 0, SavedAtEveryCall, NEW v \in Ops[pc].args, Covered(v)
               PROVE  regs[mem[v]] = v
    BY DEF OperandsIntact
  <2>1. Sound /\ Intact /\ pc \in DOMAIN Ops
    BY DEF IInv, Runs
  <2>2. WellFormed(prog)
    BY <2>1, ProgramFacts
  <2>3. v \in prog.defined[pc] /\ v \in prog.live[pc]
    BY <2>1, <2>2 DEF WellFormed, Ops
  <2> QED BY <2>1, <2>3 DEF Intact
<1> QED BY <1>1, Invariance, PTL

=============================================================================
