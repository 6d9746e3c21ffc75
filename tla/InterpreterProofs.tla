------------------------- MODULE InterpreterProofs -------------------------
(***************************************************************************)
(* Theorems about the interpreter, for any number of frames, generators    *)
(* and nested blocks.                                                      *)
(***************************************************************************)
EXTENDS Interpreter, SequenceTheorems, FiniteSetTheorems, TLAPS

-----------------------------------------------------------------------------
(* The inductive invariant *)

\* HandlersMatchNesting of one frame, by the places in its path: each handler is a prefix of
\* the path that ends in a body, every body has one, and the inner ones come later.
Handled(path, cleanup) ==
    /\ \A i \in DOMAIN cleanup :
         /\ Len(cleanup[i].path) \in BodiesOf(path)
         /\ \A j \in 1..Len(cleanup[i].path) : cleanup[i].path[j] = path[j]
    /\ \A k \in BodiesOf(path) : \E i \in DOMAIN cleanup : Len(cleanup[i].path) = k
    /\ \A i, j \in DOMAIN cleanup : i < j => Len(cleanup[i].path) < Len(cleanup[j].path)

\* What lies on the stack above the locals of a frame is what the instruction that is being
\* run has pushed, and below it what an instruction that failed has left there.
Balanced(f) ==
    /\ f.base + f.pushed <= f.sp
    /\ ~f.leaked => f.sp = f.base + f.pushed

\* What holds of a frame whether it runs, waits for a call or is kept in a generator.  The
\* finally blocks that are due have to be counted inside a handler too, where
\* FinallyRunsOnceUnlessLeft says nothing: the count is needed again behind it.
FrameOK(f) ==
    /\ f \in Frames
    /\ Balanced(f)
    /\ \A i \in DOMAIN f.cleanup : f.cleanup[i].path # <<>>
    /\ ~f.jumped => Handled(f.path, f.cleanup)
    /\ f.jumped \/ f.escaped \/ f.due = OpenFinally(f.path)

\* A frame that waits for the iterator of a loop is in that loop, and one that waits for an
\* __exit__ with an exception is at the handler of a with statement.
Waits(caller, how) ==
    /\ how = "iter" => caller.path # <<>> /\ Last(caller.path).kind = "loop"
    /\ how = "exit" => caller.path # <<>> /\ Last(caller.path).region = "exitX"

\* The frame of a function begins above all that its caller has on the stack; that of a
\* generator may lie lower, it was laid out for the frame that made it.
Above(caller, f) == f.gen = NoGen => caller.sp <= f.base

\* A stack of frames with the current Python frame.
Chain(stack, cur) ==
    /\ stack \in Seq(Frames)
    /\ \A i \in DOMAIN stack : FrameOK(stack[i])
    /\ cur \in FrameIds /\ (stack # <<>> => cur = Last(stack).id)
    /\ \A i \in DOMAIN stack : stack[i].back = IF i = 1 THEN NoFrame ELSE stack[i - 1].id
    /\ \A i \in 1..(Len(stack) - 1) : Above(stack[i], stack[i + 1])
    /\ \A i, j \in DOMAIN stack : i # j => stack[i].id # stack[j].id
    /\ \A i \in 1..(Len(stack) - 1) : Waits(stack[i], stack[i + 1].how)

GenRecords ==
    [state : {"none", "suspended", "running", "finished"},
     frame : Frames \cup {NoFrame}, invalid_return : BOOLEAN]

\* The frames on the stack and those that generators keep.  The frame of a generator begins
\* above that of its maker, as long as both exist: neither is ever laid out anew.
Held(stack, gs) ==
    {stack[i] : i \in DOMAIN stack} \cup {gs[g].frame : g \in {h \in Gens : gs[h].state = "suspended"}}
AboveMakers(stack, gs) ==
    \A f, m \in Held(stack, gs) : m.id = f.maker => m.base <= f.base

\* A generator that waits owns its frame alone; its frame is on the stack at most once.
Owns(stack, gs) ==
    /\ gs \in [Gens -> GenRecords]
    /\ \A g \in Gens : gs[g].state = "suspended" =>
         /\ FrameOK(gs[g].frame)
         /\ gs[g].frame.gen = g
         /\ \A i \in DOMAIN stack : stack[i].id # gs[g].frame.id
    /\ \A g, h \in Gens :
         g # h /\ gs[g].state = "suspended" /\ gs[h].state = "suspended" =>
             gs[g].frame.id # gs[h].frame.id
    /\ \A g \in Gens : gs[g].state = "running" <=> \E i \in DOMAIN stack : stack[i].gen = g
    /\ \A i, j \in DOMAIN stack : stack[i].gen # NoGen /\ stack[i].gen = stack[j].gen => i = j
    /\ AboveMakers(stack, gs)

Items == Seq([exc : Excs, frame : FrameIds])
Aborts == {None, "beyond", "resume", "overflow", "pop", "leave", "bare raise", "reraise", "return"}

RestOK ==
    /\ exc \in Items
    /\ pending \in Excs \cup {None}
    /\ entered \in 0..MaxBlocks
    /\ abort \in Aborts
    /\ pending # None => vm # <<>>

IInv == Chain(vm, current) /\ Owns(vm, gens) /\ RestOK

-----------------------------------------------------------------------------
(* Sequences: their ends and their prefixes *)

LEMMA FrontLast ==
    ASSUME NEW S, NEW s \in Seq(S), s # <<>>
    PROVE  /\ Len(s) \in Nat \ {0}
           /\ Last(s) = s[Len(s)] /\ Last(s) \in S
           /\ Front(s) \in Seq(S)
           /\ Len(Front(s)) = Len(s) - 1
           /\ \A i \in 1..(Len(s) - 1) : Front(s)[i] = s[i]
<1>1. Len(s) \in Nat \ {0} /\ \A i \in 1..Len(s) : s[i] \in S
  BY EmptySeq, LenProperties
<1>2. Last(s) = s[Len(s)] /\ Last(s) \in S
  BY <1>1 DEF Last
<1>3. /\ SubSeq(s, 1, Len(s) - 1) \in Seq(S)
      /\ Len(SubSeq(s, 1, Len(s) - 1)) = IF 1 <= Len(s) - 1 THEN Len(s) - 1 - 1 + 1 ELSE 0
      /\ \A i \in 1..(Len(s) - 1 - 1 + 1) : SubSeq(s, 1, Len(s) - 1)[i] = s[1 + i - 1]
  BY <1>1, SubSeqProperties
<1>4. Len(Front(s)) = Len(s) - 1
  <2>1. \A n \in Nat \ {0} : (IF 1 <= n - 1 THEN n - 1 - 1 + 1 ELSE 0) = n - 1
    OBVIOUS
  <2>2. (IF 1 <= Len(s) - 1 THEN Len(s) - 1 - 1 + 1 ELSE 0) = Len(s) - 1
    BY <1>1, <2>1
  <2>3. Len(SubSeq(s, 1, Len(s) - 1)) = Len(s) - 1
    BY <1>3, <2>2
  <2> QED BY <2>3 DEF Front
<1>5. ASSUME NEW i \in 1..(Len(s) - 1)
      PROVE  Front(s)[i] = s[i]
  <2>1. i \in 1..(Len(s) - 1 - 1 + 1) /\ 1 + i - 1 = i
    BY <1>1
  <2> QED BY <1>3, <2>1 DEF Front
<1> QED BY <1>1, <1>2, <1>3, <1>4, <1>5 DEF Front

\* The last element replaced.
LEMMA ReplaceLast ==
    ASSUME NEW S, NEW s \in Seq(S), s # <<>>, NEW e \in S
    PROVE  LET t == Append(Front(s), e)
           IN  /\ t \in Seq(S) /\ t # <<>>
               /\ Len(t) = Len(s) /\ DOMAIN t = 1..Len(s)
               /\ \A i \in 1..(Len(s) - 1) : t[i] = s[i]
               /\ t[Len(s)] = e /\ Last(t) = e
<1> DEFINE t == Append(Front(s), e)
<1>1. /\ Len(s) \in Nat \ {0} /\ Front(s) \in Seq(S) /\ Len(Front(s)) = Len(s) - 1
      /\ \A i \in 1..(Len(s) - 1) : Front(s)[i] = s[i]
  BY FrontLast
<1>2. /\ t \in Seq(S) /\ t # <<>> /\ Len(t) = Len(Front(s)) + 1
      /\ \A i \in 1..Len(Front(s)) : t[i] = Front(s)[i]
      /\ t[Len(Front(s)) + 1] = e
  BY <1>1, AppendProperties
<1>3. Len(t) = Len(s) /\ t[Len(s)] = e
  BY <1>1, <1>2
<1>4. DOMAIN t = 1..Len(s)
  BY <1>2, <1>3, LenProperties
<1>5. \A i \in 1..(Len(s) - 1) : t[i] = s[i]
  BY <1>1, <1>2
<1> QED BY <1>2, <1>3, <1>4, <1>5 DEF Last

LEMMA Prefix ==
    ASSUME NEW S, NEW s \in Seq(S), NEW n \in 0..Len(s)
    PROVE  /\ SubSeq(s, 1, n) \in Seq(S)
           /\ Len(SubSeq(s, 1, n)) = n
           /\ \A i \in 1..n : SubSeq(s, 1, n)[i] = s[i]
<1>1. Len(s) \in Nat /\ \A i \in 1..n : s[i] \in S
  BY LenProperties
<1>2. /\ SubSeq(s, 1, n) \in Seq(S)
      /\ Len(SubSeq(s, 1, n)) = IF 1 <= n THEN n - 1 + 1 ELSE 0
      /\ \A i \in 1..(n - 1 + 1) : SubSeq(s, 1, n)[i] = s[1 + i - 1]
  BY <1>1, SubSeqProperties
<1> QED BY <1>1, <1>2

-----------------------------------------------------------------------------
(* Paths: which bodies and which open finally blocks a change of the address leaves *)

LEMMA BlockType ==
    ASSUME NEW kind \in TryKinds \cup {"with", "loop"}, NEW region \in Regions
    PROVE  /\ Block(kind, region) \in Blocks
           /\ Block(kind, region).kind = kind /\ Block(kind, region).region = region
BY DEF Block, Blocks

\* Another region of the innermost block.
LEMMA InPath ==
    ASSUME NEW p \in Paths, p # <<>>, NEW region \in Regions
    PROVE  /\ In(p, region) \in Paths /\ In(p, region) # <<>>
           /\ Len(p) \in Nat \ {0}
           /\ Len(In(p, region)) = Len(p)
           /\ \A i \in 1..(Len(p) - 1) : In(p, region)[i] = p[i]
           /\ In(p, region)[Len(p)].kind = p[Len(p)].kind
           /\ In(p, region)[Len(p)].region = region
<1>1. Last(p) \in Blocks /\ Last(p) = p[Len(p)] /\ Len(p) \in Nat \ {0}
  BY FrontLast DEF Paths
<1> DEFINE b == Block(Last(p).kind, region)
<1>2. b \in Blocks /\ b.kind = Last(p).kind /\ b.region = region
  BY <1>1, BlockType DEF Blocks
<1> HIDE DEF b
<1>3. LET t == Append(Front(p), b)
      IN  /\ t \in Seq(Blocks) /\ t # <<>>
          /\ Len(t) = Len(p)
          /\ \A i \in 1..(Len(p) - 1) : t[i] = p[i]
          /\ t[Len(p)] = b
  BY <1>2, ReplaceLast DEF Paths
<1>4. In(p, region) = Append(Front(p), b)
  BY DEF In, b
<1> QED BY <1>1, <1>2, <1>3, <1>4 DEF Paths

LEMMA InMarks ==
    ASSUME NEW p \in Paths, p # <<>>, NEW region \in Regions, region # "body"
    PROVE  /\ BodiesOf(In(p, region)) = BodiesOf(p) \ {Len(p)}
           /\ OpenBlocks(In(p, region)) =
                  IF HasFinally(p[Len(p)].kind) /\ region \in {"cond", "handler", "orelse"}
                  THEN OpenBlocks(p) \cup {Len(p)} ELSE OpenBlocks(p) \ {Len(p)}
<1> DEFINE q == In(p, region)
<1>1. /\ q \in Paths /\ Len(p) \in Nat \ {0} /\ Len(q) = Len(p)
      /\ \A i \in 1..(Len(p) - 1) : q[i] = p[i]
      /\ q[Len(p)].kind = p[Len(p)].kind
      /\ q[Len(p)].region = region
  BY InPath
<1>2. DOMAIN p = 1..Len(p) /\ DOMAIN q = 1..Len(p)
  BY <1>1, LenProperties DEF Paths
<1> HIDE DEF q
<1>3. BodiesOf(q) = BodiesOf(p) \ {Len(p)}
  BY <1>1, <1>2 DEF BodiesOf
<1>4. OpenBlocks(q) = IF HasFinally(p[Len(p)].kind) /\ region \in {"cond", "handler", "orelse"}
                      THEN OpenBlocks(p) \cup {Len(p)} ELSE OpenBlocks(p) \ {Len(p)}
  BY <1>1, <1>2 DEF OpenBlocks
<1> QED BY <1>3, <1>4 DEF q

LEMMA PrefixMarks ==
    ASSUME NEW p \in Paths, NEW n \in 0..Len(p)
    PROVE  /\ SubSeq(p, 1, n) \in Paths
           /\ BodiesOf(SubSeq(p, 1, n)) = BodiesOf(p) \cap 1..n
           /\ OpenBlocks(SubSeq(p, 1, n)) = OpenBlocks(p) \cap 1..n
<1> DEFINE q == SubSeq(p, 1, n)
<1>1. q \in Paths /\ Len(q) = n /\ \A i \in 1..n : q[i] = p[i]
  BY Prefix DEF Paths
<1>2. DOMAIN p = 1..Len(p) /\ DOMAIN q = 1..n /\ Len(p) \in Nat
  BY <1>1, LenProperties DEF Paths
<1> HIDE DEF q
<1>3. BodiesOf(q) = BodiesOf(p) \cap 1..n
  BY <1>1, <1>2 DEF BodiesOf
<1>4. OpenBlocks(q) = OpenBlocks(p) \cap 1..n
  BY <1>1, <1>2 DEF OpenBlocks
<1> QED BY <1>1, <1>3, <1>4 DEF q

LEMMA FrontMarks ==
    ASSUME NEW p \in Paths, p # <<>>
    PROVE  /\ Front(p) \in Paths
           /\ BodiesOf(Front(p)) = BodiesOf(p) \ {Len(p)}
           /\ OpenBlocks(Front(p)) = OpenBlocks(p) \ {Len(p)}
<1>1. Len(p) \in Nat \ {0} /\ DOMAIN p = 1..Len(p)
  BY FrontLast, LenProperties DEF Paths
<1>2. BodiesOf(p) \subseteq 1..Len(p) /\ OpenBlocks(p) \subseteq 1..Len(p)
  BY <1>1 DEF BodiesOf, OpenBlocks
<1>3. Len(p) - 1 \in 0..Len(p)
  BY <1>1
<1>4. /\ SubSeq(p, 1, Len(p) - 1) \in Paths
      /\ BodiesOf(SubSeq(p, 1, Len(p) - 1)) = BodiesOf(p) \cap 1..(Len(p) - 1)
      /\ OpenBlocks(SubSeq(p, 1, Len(p) - 1)) = OpenBlocks(p) \cap 1..(Len(p) - 1)
  BY <1>3, PrefixMarks
<1>5. /\ BodiesOf(p) \cap 1..(Len(p) - 1) = BodiesOf(p) \ {Len(p)}
      /\ OpenBlocks(p) \cap 1..(Len(p) - 1) = OpenBlocks(p) \ {Len(p)}
  BY <1>1, <1>2
<1> QED BY <1>4, <1>5 DEF Front

LEMMA AppendMarks ==
    ASSUME NEW p \in Paths, NEW b \in Blocks, b.region = "body"
    PROVE  LET q == Append(p, b)
           IN  /\ q \in Paths /\ q # <<>> /\ Len(q) = Len(p) + 1
               /\ \A i \in 1..Len(p) : q[i] = p[i]
               /\ q[Len(p) + 1] = b
               /\ BodiesOf(q) = IF b.kind = "loop" THEN BodiesOf(p) ELSE BodiesOf(p) \cup {Len(p) + 1}
               /\ OpenBlocks(q) = IF HasFinally(b.kind) THEN OpenBlocks(p) \cup {Len(p) + 1}
                                  ELSE OpenBlocks(p)
<1> DEFINE q == Append(p, b)
<1>1. /\ q \in Paths /\ q # <<>> /\ Len(q) = Len(p) + 1
      /\ \A i \in 1..Len(p) : q[i] = p[i]
      /\ q[Len(p) + 1] = b
  BY AppendProperties DEF Paths
<1>2. DOMAIN p = 1..Len(p) /\ DOMAIN q = 1..(Len(p) + 1) /\ Len(p) \in Nat
  BY <1>1, LenProperties DEF Paths
<1> HIDE DEF q
<1>3. BodiesOf(q) = IF b.kind = "loop" THEN BodiesOf(p) ELSE BodiesOf(p) \cup {Len(p) + 1}
  BY <1>1, <1>2 DEF BodiesOf
<1>4. OpenBlocks(q) = IF HasFinally(b.kind) THEN OpenBlocks(p) \cup {Len(p) + 1} ELSE OpenBlocks(p)
  BY <1>1, <1>2 DEF OpenBlocks
<1> QED BY <1>1, <1>3, <1>4 DEF q

\* The blocks that are open can be counted.
LEMMA OpenCount ==
    ASSUME NEW p \in Paths
    PROVE  /\ OpenBlocks(p) \subseteq 1..Len(p)
           /\ OpenFinally(p) \in Nat
           /\ \A q \in Paths : \A k \in Nat :
                /\ k \notin OpenBlocks(p) /\ OpenBlocks(q) = OpenBlocks(p) \cup {k} =>
                       OpenFinally(q) = OpenFinally(p) + 1
                /\ k \in OpenBlocks(p) /\ OpenBlocks(q) = OpenBlocks(p) \ {k} =>
                       OpenFinally(q) = OpenFinally(p) - 1
<1>1. DOMAIN p = 1..Len(p) /\ Len(p) \in Nat
  BY LenProperties DEF Paths
<1>2. OpenBlocks(p) \subseteq 1..Len(p)
  BY <1>1 DEF OpenBlocks
<1>3. IsFiniteSet(1..Len(p))
  BY <1>1, FS_Interval
<1>4. IsFiniteSet(OpenBlocks(p))
  BY <1>2, <1>3, FS_Subset
<1>5. OpenFinally(p) \in Nat
  BY <1>4, FS_CardinalityType DEF OpenFinally
<1>6. ASSUME NEW q \in Paths, NEW k \in Nat, k \notin OpenBlocks(p),
             OpenBlocks(q) = OpenBlocks(p) \cup {k}
      PROVE  OpenFinally(q) = OpenFinally(p) + 1
  BY <1>4, <1>6, FS_AddElement DEF OpenFinally
<1>7. ASSUME NEW q \in Paths, NEW k \in Nat, k \in OpenBlocks(p),
             OpenBlocks(q) = OpenBlocks(p) \ {k}
      PROVE  OpenFinally(q) = OpenFinally(p) - 1
  BY <1>4, <1>7, FS_RemoveElement DEF OpenFinally
<1> QED BY <1>2, <1>5, <1>6, <1>7

-----------------------------------------------------------------------------
(* Frames: the moves of a frame keep its handlers and its count *)

HandlerRecords == [with : BOOLEAN, path : Paths]

\* What the provers need of the type of a frame.
LEMMA FrameFields ==
    ASSUME NEW f \in Frames
    PROVE  /\ f.path \in Paths /\ f.cleanup \in Seq(HandlerRecords)
           /\ f.due \in Int /\ f.jumped \in BOOLEAN /\ f.escaped \in BOOLEAN
           /\ f.sp \in 0..StackSize /\ f.base \in 0..StackSize /\ f.pushed \in Nat /\ f.leaked \in BOOLEAN
           /\ f.id \in FrameIds
           /\ Len(f.path) \in Nat /\ DOMAIN f.path = 1..Len(f.path)
           /\ \A i \in DOMAIN f.path : f.path[i] \in Blocks
           /\ Len(f.cleanup) \in Nat /\ DOMAIN f.cleanup = 1..Len(f.cleanup)
           /\ \A i \in DOMAIN f.cleanup : f.cleanup[i].path \in Paths /\ Len(f.cleanup[i].path) \in Nat
<1>1. /\ f.path \in Paths /\ f.cleanup \in Seq(HandlerRecords)
      /\ f.due \in Int /\ f.jumped \in BOOLEAN /\ f.escaped \in BOOLEAN
      /\ f.sp \in 0..StackSize /\ f.base \in 0..StackSize /\ f.pushed \in Nat /\ f.leaked \in BOOLEAN
      /\ f.id \in FrameIds
  BY DEF Frames, HandlerRecords
<1>2. /\ Len(f.path) \in Nat /\ DOMAIN f.path = 1..Len(f.path)
      /\ \A i \in 1..Len(f.path) : f.path[i] \in Blocks
  BY <1>1, LenProperties DEF Paths
<1>3. /\ Len(f.cleanup) \in Nat /\ DOMAIN f.cleanup = 1..Len(f.cleanup)
      /\ \A i \in 1..Len(f.cleanup) : f.cleanup[i] \in HandlerRecords
  BY <1>1, LenProperties
<1>4. \A i \in DOMAIN f.cleanup : f.cleanup[i].path \in Paths /\ Len(f.cleanup[i].path) \in Nat
  BY <1>3, LenProperties DEF HandlerRecords, Paths
<1> QED BY <1>1, <1>2, <1>3, <1>4

SameSlots(f, g) ==
    g.base = f.base /\ g.sp = f.sp /\ g.pushed = f.pushed /\ g.leaked = f.leaked

\* The address changes above the innermost body only.
LEMMA MoveOK ==
    ASSUME NEW f, FrameOK(f), NEW g \in Frames, SameSlots(f, g), g.cleanup = f.cleanup,
           g.jumped = f.jumped, g.escaped = f.escaped,
           BodiesOf(g.path) = BodiesOf(f.path),
           \A k \in BodiesOf(f.path) : \A i \in 1..k : g.path[i] = f.path[i],
           g.due = f.due + (OpenFinally(g.path) - OpenFinally(f.path))
    PROVE  FrameOK(g)
<1>1. f \in Frames
  BY DEF FrameOK
<1>2. OpenFinally(f.path) \in Nat /\ OpenFinally(g.path) \in Nat /\ f.due \in Int
  BY <1>1, FrameFields, OpenCount
<1>3. ~g.jumped => Handled(g.path, g.cleanup)
  BY DEF FrameOK, Handled
<1>4. g.jumped \/ g.escaped \/ g.due = OpenFinally(g.path)
  BY <1>2 DEF FrameOK
<1> QED BY <1>3, <1>4 DEF FrameOK, Balanced, SameSlots

\* Once a block was left by a jump, nothing but types is kept.
LEMMA JumpedOK ==
    ASSUME NEW f, FrameOK(f), NEW g \in Frames, SameSlots(f, g), g.jumped,
           \A i \in DOMAIN g.cleanup : g.cleanup[i].path # <<>>
    PROVE  FrameOK(g)
BY DEF FrameOK, Balanced, SameSlots

\* The last handler is that of the innermost body.
LEMMA TopHandler ==
    ASSUME NEW f, FrameOK(f), ~f.jumped, f.cleanup # <<>>
    PROVE  LET t == Last(f.cleanup).path
           IN  /\ t \in Paths /\ t # <<>> /\ Len(t) \in BodiesOf(f.path)
               /\ \A j \in 1..Len(t) : t[j] = f.path[j]
               /\ \A k \in BodiesOf(f.path) : k <= Len(t)
<1> DEFINE c == f.cleanup
           n == Len(f.cleanup)
           t == Last(f.cleanup).path
<1>1. f \in Frames /\ Handled(f.path, c)
  BY DEF FrameOK
<1>2. /\ c \in Seq(HandlerRecords) /\ DOMAIN c = 1..n /\ n \in Nat \ {0} /\ DOMAIN f.path = 1..Len(f.path)
      /\ Len(f.path) \in Nat
  BY <1>1, FrameFields, FrontLast
<1>3. t = c[n].path /\ n \in DOMAIN c
  BY <1>2 DEF Last
<1>4. t \in Paths /\ t # <<>>
  BY <1>1, <1>3, FrameFields DEF FrameOK
<1>5. Len(t) \in BodiesOf(f.path) /\ \A j \in 1..Len(t) : t[j] = f.path[j]
  BY <1>1, <1>3 DEF Handled
<1>6. ASSUME NEW k \in BodiesOf(f.path)
      PROVE  k <= Len(t)
  <2>1. PICK i \in DOMAIN c : Len(c[i].path) = k
    BY <1>1 DEF Handled
  <2>2. k \in Nat /\ Len(t) \in Nat
    BY <1>2, <1>5 DEF BodiesOf
  <2>3. CASE i = n
    BY <1>3, <2>1, <2>2, <2>3
  <2>4. CASE i < n
    <3>1. Len(c[i].path) < Len(c[n].path)
      BY <1>1, <1>3, <2>4 DEF Handled
    <3> QED BY <1>3, <2>1, <2>2, <3>1
  <2> QED BY <1>2, <2>3, <2>4
<1> QED BY <1>4, <1>5, <1>6

\* The innermost body is left and its handler with it.
LEMMA DropOK ==
    ASSUME NEW f, FrameOK(f), f.cleanup # <<>>,
           NEW g \in Frames, SameSlots(f, g), g.cleanup = Front(f.cleanup), g.jumped = f.jumped,
           ~f.jumped =>
               LET k == Len(Last(f.cleanup).path)
               IN  /\ BodiesOf(g.path) = BodiesOf(f.path) \ {k}
                   /\ \A i \in 1..(k - 1) : g.path[i] = f.path[i],
           g.jumped \/ g.escaped \/ g.due = OpenFinally(g.path)
    PROVE  FrameOK(g)
<1> DEFINE c == f.cleanup
           n == Len(f.cleanup)
           t == Last(f.cleanup).path
<1>1. /\ f \in Frames /\ c \in Seq(HandlerRecords) /\ n \in Nat \ {0} /\ DOMAIN c = 1..n
      /\ Front(c) \in Seq(HandlerRecords) /\ Len(Front(c)) = n - 1 /\ t = c[n].path
      /\ \A i \in 1..(n - 1) : Front(c)[i] = c[i]
  <2>1. f \in Frames
    BY DEF FrameOK
  <2>2. c \in Seq(HandlerRecords) /\ DOMAIN c = 1..n
    BY <2>1, FrameFields
  <2>3. /\ n \in Nat \ {0} /\ Front(c) \in Seq(HandlerRecords) /\ Len(Front(c)) = n - 1
        /\ Last(c) = c[n] /\ \A i \in 1..(n - 1) : Front(c)[i] = c[i]
    BY <2>2, FrontLast
  <2> QED BY <2>1, <2>2, <2>3
<1>2. DOMAIN g.cleanup = 1..(n - 1) /\ \A i \in 1..(n - 1) : g.cleanup[i] = c[i]
  BY <1>1, LenProperties
<1>3. \A i \in DOMAIN g.cleanup : g.cleanup[i].path # <<>>
  BY <1>1, <1>2 DEF FrameOK
<1>4. ASSUME ~f.jumped
      PROVE  Handled(g.path, g.cleanup)
  <2>1. Handled(f.path, c) /\ Len(f.path) \in Nat /\ DOMAIN f.path = 1..Len(f.path)
    BY <1>1, <1>4, FrameFields DEF FrameOK
  <2>2. /\ Len(t) \in BodiesOf(f.path) /\ \A k \in BodiesOf(f.path) : k <= Len(t)
        /\ BodiesOf(g.path) = BodiesOf(f.path) \ {Len(t)}
        /\ \A i \in 1..(Len(t) - 1) : g.path[i] = f.path[i]
    BY <1>4, TopHandler
  <2>3. BodiesOf(f.path) \subseteq Nat
    BY <2>1 DEF BodiesOf
  <2>4. ASSUME NEW i \in DOMAIN g.cleanup
        PROVE  /\ Len(g.cleanup[i].path) \in BodiesOf(g.path)
               /\ \A j \in 1..Len(g.cleanup[i].path) : g.cleanup[i].path[j] = g.path[j]
    <3>1. i \in DOMAIN c /\ i < n /\ n \in DOMAIN c /\ g.cleanup[i] = c[i]
      BY <1>1, <1>2
    <3>2. /\ Len(c[i].path) < Len(t) /\ Len(c[i].path) \in BodiesOf(f.path)
          /\ \A j \in 1..Len(c[i].path) : c[i].path[j] = f.path[j]
      BY <1>1, <2>1, <3>1 DEF Handled
    <3>3. Len(c[i].path) \in Nat /\ Len(t) \in Nat
      BY <2>2, <2>3, <3>2
    <3>4. \A j \in 1..Len(c[i].path) : j \in 1..(Len(t) - 1)
      BY <3>2, <3>3
    <3> QED BY <2>2, <3>1, <3>2, <3>3, <3>4
  <2>5. ASSUME NEW k \in BodiesOf(g.path)
        PROVE  \E i \in DOMAIN g.cleanup : Len(g.cleanup[i].path) = k
    <3>1. k \in BodiesOf(f.path) /\ k # Len(t)
      BY <2>2
    <3>2. PICK i \in DOMAIN c : Len(c[i].path) = k
      BY <2>1, <3>1 DEF Handled
    <3>3. i # n
      BY <1>1, <3>1, <3>2
    <3>4. i \in DOMAIN g.cleanup /\ g.cleanup[i] = c[i]
      BY <1>1, <1>2, <3>3
    <3> QED BY <3>2, <3>4
  <2>6. \A i, j \in DOMAIN g.cleanup :
           i < j => Len(g.cleanup[i].path) < Len(g.cleanup[j].path)
    <3>1. \A i \in DOMAIN g.cleanup : i \in DOMAIN c /\ g.cleanup[i] = c[i]
      BY <1>1, <1>2
    <3> QED BY <2>1, <3>1 DEF Handled
  <2> QED BY <2>4, <2>5, <2>6 DEF Handled
<1> QED BY <1>3, <1>4 DEF FrameOK, Balanced, SameSlots

-----------------------------------------------------------------------------
(* The moves, one by one *)

\* The identity of an activation, which no instruction of its own code changes.
SameActivation(f, g) ==
    /\ g.id = f.id /\ g.gen = f.gen /\ g.how = f.how /\ g.back = f.back
    /\ g.maker = f.maker /\ g.base = f.base

\* A block is left whose end is neither a body with a handler nor open.
LEMMA LeaveBlockOK ==
    ASSUME NEW f, FrameOK(f), f.path # <<>>,
           Len(f.path) \notin BodiesOf(f.path), Len(f.path) \notin OpenBlocks(f.path)
    PROVE  LET g == [f EXCEPT !.path = Front(@)] IN FrameOK(g) /\ SameActivation(f, g)
<1> DEFINE g == [f EXCEPT !.path = Front(@)]
<1>1. f \in Frames
  BY DEF FrameOK
<1>2. f.path \in Paths /\ f.due \in Int
  BY <1>1, FrameFields
<1>3. /\ Front(f.path) \in Paths
      /\ BodiesOf(Front(f.path)) = BodiesOf(f.path)
      /\ OpenBlocks(Front(f.path)) = OpenBlocks(f.path)
  BY <1>2, FrontMarks
<1>4. /\ g \in Frames /\ SameActivation(f, g) /\ SameSlots(f, g)
      /\ g.path = Front(f.path) /\ g.due = f.due
      /\ g.cleanup = f.cleanup /\ g.jumped = f.jumped /\ g.escaped = f.escaped
  BY <1>1, <1>3 DEF Frames, SameActivation, SameSlots
<1>5. OpenFinally(g.path) = OpenFinally(f.path) /\ OpenFinally(f.path) \in Nat
  BY <1>2, <1>3, <1>4, OpenCount DEF OpenFinally
<1>6. ASSUME NEW k \in BodiesOf(f.path), NEW i \in 1..k
      PROVE  g.path[i] = f.path[i]
  <2>1. k \in 1..Len(f.path) /\ k # Len(f.path) /\ Len(f.path) \in Nat
    BY <1>1, FrameFields DEF BodiesOf
  <2>2. i \in 1..(Len(f.path) - 1)
    BY <2>1
  <2> QED BY <1>2, <1>4, <2>2, FrontLast DEF Paths
<1>7. g.due = f.due + (OpenFinally(g.path) - OpenFinally(f.path))
  BY <1>2, <1>4, <1>5
<1> HIDE DEF g
<1>8. FrameOK(g)
  BY <1>3, <1>4, <1>6, <1>7, MoveOK DEF SameActivation, SameSlots
<1> QED BY <1>4, <1>8 DEF g

\* Another region of a block that is not a body with a handler.
LEMMA RegionOK ==
    ASSUME NEW f, FrameOK(f), f.path # <<>>, Len(f.path) \notin BodiesOf(f.path),
           NEW region \in Regions, region # "body", NEW d \in Int,
           d = f.due + (OpenFinally(In(f.path, region)) - OpenFinally(f.path)),
           NEW g, g \in Frames, SameActivation(f, g), SameSlots(f, g), g.path = In(f.path, region),
           g.cleanup = f.cleanup, g.jumped = f.jumped, g.escaped = f.escaped, g.due = d
    PROVE  FrameOK(g)
<1>1. f \in Frames
  BY DEF FrameOK
<1>2. f.path \in Paths
  BY <1>1, FrameFields
<1>3. BodiesOf(g.path) = BodiesOf(f.path)
  <2>1. BodiesOf(In(f.path, region)) = BodiesOf(f.path) \ {Len(f.path)}
    BY <1>2, InMarks
  <2> QED BY <2>1
<1>4. ASSUME NEW k \in BodiesOf(f.path), NEW i \in 1..k
      PROVE  g.path[i] = f.path[i]
  <2>1. k \in 1..Len(f.path) /\ k # Len(f.path) /\ Len(f.path) \in Nat
    BY <1>1, FrameFields DEF BodiesOf
  <2>2. i \in 1..(Len(f.path) - 1)
    BY <2>1
  <2> QED BY <1>2, <2>2, InPath
<1> QED BY <1>3, <1>4, MoveOK DEF SameActivation, SameSlots

\* Another region, and the finally code is as open as it was.
LEMMA SameRegionOK ==
    ASSUME NEW f, FrameOK(f), f.path # <<>>, Len(f.path) \notin BodiesOf(f.path),
           NEW region \in Regions, region # "body",
           Len(f.path) \in OpenBlocks(f.path) <=>
               HasFinally(f.path[Len(f.path)].kind) /\ region \in {"cond", "handler", "orelse"}
    PROVE  LET g == [f EXCEPT !.path = In(@, region)] IN FrameOK(g) /\ SameActivation(f, g)
<1> DEFINE g == [f EXCEPT !.path = In(@, region)]
<1>1. f \in Frames
  BY DEF FrameOK
<1>2. f.path \in Paths /\ f.due \in Int
  BY <1>1, FrameFields
<1>3. In(f.path, region) \in Paths /\ OpenBlocks(In(f.path, region)) = OpenBlocks(f.path)
  <2>1. OpenBlocks(In(f.path, region)) =
            IF Len(f.path) \in OpenBlocks(f.path)
            THEN OpenBlocks(f.path) \cup {Len(f.path)} ELSE OpenBlocks(f.path) \ {Len(f.path)}
    BY <1>2, InMarks
  <2> QED BY <1>2, <2>1, InPath
<1>4. /\ g \in Frames /\ SameActivation(f, g) /\ SameSlots(f, g)
      /\ g.path = In(f.path, region) /\ g.due = f.due
      /\ g.cleanup = f.cleanup /\ g.jumped = f.jumped /\ g.escaped = f.escaped
  BY <1>1, <1>3 DEF Frames, SameActivation, SameSlots
<1>5. f.due = f.due + (OpenFinally(In(f.path, region)) - OpenFinally(f.path))
  <2>1. OpenFinally(In(f.path, region)) = OpenFinally(f.path) /\ OpenFinally(f.path) \in Nat
    BY <1>2, <1>3, OpenCount DEF OpenFinally
  <2> QED BY <1>2, <2>1
<1> HIDE DEF g
<1>6. FrameOK(g)
  BY <1>2, <1>4, <1>5, RegionOK
<1> QED BY <1>4, <1>6 DEF g

\* The finally code of an open block begins.
LEMMA BeginFinallyOK ==
    ASSUME NEW f, FrameOK(f), f.path # <<>>, Len(f.path) \notin BodiesOf(f.path),
           Len(f.path) \in OpenBlocks(f.path), NEW region \in {"finally", "finallyX"}
    PROVE  LET g == [f EXCEPT !.path = In(@, region), !.due = @ - 1]
           IN  FrameOK(g) /\ SameActivation(f, g)
<1> DEFINE g == [f EXCEPT !.path = In(@, region), !.due = @ - 1]
<1>1. f \in Frames
  BY DEF FrameOK
<1>2. f.path \in Paths /\ f.due \in Int /\ region \in Regions /\ region # "body"
  BY <1>1, FrameFields DEF Regions, StatementRegions
<1>3. In(f.path, region) \in Paths /\ OpenBlocks(In(f.path, region)) = OpenBlocks(f.path) \ {Len(f.path)}
  BY <1>2, InPath, InMarks
<1>4. /\ g \in Frames /\ SameActivation(f, g) /\ SameSlots(f, g)
      /\ g.path = In(f.path, region) /\ g.due = f.due - 1
      /\ g.cleanup = f.cleanup /\ g.jumped = f.jumped /\ g.escaped = f.escaped
  <2> DEFINE p == In(f.path, region)
             d == f.due - 1
  <2>1. p \in Paths /\ d \in Int
    BY <1>2, <1>3
  <2>2. g = [f EXCEPT !.path = p, !.due = d]
    OBVIOUS
  <2> HIDE DEF g, p, d
  <2>3. /\ g \in Frames /\ SameActivation(f, g) /\ SameSlots(f, g) /\ g.path = p /\ g.due = d
        /\ g.cleanup = f.cleanup /\ g.jumped = f.jumped /\ g.escaped = f.escaped
    BY <1>1, <2>1, <2>2 DEF Frames, SameActivation, SameSlots
  <2> QED BY <2>3 DEF p, d
<1>5. f.due - 1 = f.due + (OpenFinally(In(f.path, region)) - OpenFinally(f.path))
  <2>1. Len(f.path) \in Nat
    BY <1>1, FrameFields
  <2>2. OpenFinally(In(f.path, region)) = OpenFinally(f.path) - 1 /\ OpenFinally(f.path) \in Nat
    BY <1>2, <1>3, <2>1, OpenCount
  <2> QED BY <1>2, <2>2
<1> HIDE DEF g
<1>6. FrameOK(g)
  BY <1>2, <1>4, <1>5, RegionOK
<1> QED BY <1>4, <1>6 DEF g

\* The end of a handler or of the else of a try.
LEMMA FinallyOrEndOK ==
    ASSUME NEW f, FrameOK(f), f.path # <<>>, Last(f.path).region \in {"handler", "orelse"}
    PROVE  FrameOK(ToFinallyOrEnd(f)) /\ SameActivation(f, ToFinallyOrEnd(f))
<1>1. f \in Frames /\ f.path \in Paths /\ Len(f.path) \in Nat \ {0} /\ DOMAIN f.path = 1..Len(f.path)
  <2>1. f \in Frames
    BY DEF FrameOK
  <2>2. f.path \in Paths /\ DOMAIN f.path = 1..Len(f.path)
    BY <2>1, FrameFields
  <2> QED BY <2>1, <2>2, FrontLast DEF Paths
<1>2. /\ Last(f.path) = f.path[Len(f.path)] /\ Len(f.path) \notin BodiesOf(f.path)
      /\ Len(f.path) \in OpenBlocks(f.path) <=> HasFinally(Last(f.path).kind)
  BY <1>1 DEF Last, BodiesOf, OpenBlocks
<1>3. CASE HasFinally(Last(f.path).kind)
  BY <1>2, <1>3, BeginFinallyOK DEF ToFinallyOrEnd
<1>4. CASE ~HasFinally(Last(f.path).kind)
  BY <1>2, <1>4, LeaveBlockOK DEF ToFinallyOrEnd
<1> QED BY <1>3, <1>4

\* The end of a body with a handler: the handler that goes is that of this body.
LEMMA BodyEndOK ==
    ASSUME NEW f, FrameOK(f), Len(f.path) \in BodiesOf(f.path), f.cleanup # <<>>,
           NEW g \in Frames, SameActivation(f, g), SameSlots(f, g), g.cleanup = Front(f.cleanup),
           g.jumped = f.jumped, g.escaped = f.escaped,
           BodiesOf(g.path) = BodiesOf(f.path) \ {Len(f.path)},
           \A i \in 1..(Len(f.path) - 1) : g.path[i] = f.path[i],
           g.due = f.due + (OpenFinally(g.path) - OpenFinally(f.path))
    PROVE  FrameOK(g)
<1>1. f \in Frames
  BY DEF FrameOK
<1>2. OpenFinally(f.path) \in Nat /\ OpenFinally(g.path) \in Nat /\ f.due \in Int
  BY <1>1, FrameFields, OpenCount
<1>3. g.jumped \/ g.escaped \/ g.due = OpenFinally(g.path)
  BY <1>2 DEF FrameOK
<1>4. ASSUME ~f.jumped
      PROVE  Len(Last(f.cleanup).path) = Len(f.path)
  <2>1. /\ Len(Last(f.cleanup).path) \in BodiesOf(f.path)
        /\ Len(f.path) <= Len(Last(f.cleanup).path)
    BY <1>4, TopHandler
  <2>2. Len(Last(f.cleanup).path) \in 1..Len(f.path) /\ Len(f.path) \in Nat
    BY <1>1, <2>1, FrameFields DEF BodiesOf
  <2> QED BY <2>1, <2>2
<1> QED BY <1>3, <1>4, DropOK DEF SameActivation, SameSlots

\* The parts of a frame at the end of a body.
LEMMA BodyEnd ==
    ASSUME NEW f, FrameOK(f), f.path # <<>>, Last(f.path).region = "body",
           Last(f.path).kind # "loop", f.cleanup # <<>>
    PROVE  /\ f \in Frames /\ f.path \in Paths /\ f.due \in Int
           /\ Len(f.path) \in Nat \ {0} /\ Last(f.path) = f.path[Len(f.path)]
           /\ Front(f.cleanup) \in Seq(HandlerRecords)
           /\ Len(f.path) \in BodiesOf(f.path)
           /\ Len(f.path) \in OpenBlocks(f.path) <=> HasFinally(Last(f.path).kind)
           /\ OpenFinally(f.path) \in Nat
<1>1. f \in Frames
  BY DEF FrameOK
<1>2. /\ f.path \in Paths /\ f.due \in Int /\ f.cleanup \in Seq(HandlerRecords)
      /\ DOMAIN f.path = 1..Len(f.path)
  BY <1>1, FrameFields
<1>3. Len(f.path) \in Nat \ {0} /\ Last(f.path) = f.path[Len(f.path)]
  BY <1>2, FrontLast DEF Paths
<1>4. Front(f.cleanup) \in Seq(HandlerRecords)
  BY <1>2, FrontLast
<1>5. /\ Len(f.path) \in BodiesOf(f.path)
      /\ Len(f.path) \in OpenBlocks(f.path) <=> HasFinally(Last(f.path).kind)
  BY <1>2, <1>3 DEF BodiesOf, OpenBlocks
<1>6. OpenFinally(f.path) \in Nat
  BY <1>2, OpenCount
<1> QED BY <1>1, <1>2, <1>3, <1>4, <1>5, <1>6

\* ... to the else block, or to the call of __exit__.
LEMMA EndBodyRegionOK ==
    ASSUME NEW f, FrameOK(f), f.path # <<>>, Last(f.path).region = "body",
           Last(f.path).kind # "loop", f.cleanup # <<>>, NEW region \in {"orelse", "exit"},
           HasFinally(Last(f.path).kind) => region = "orelse"
    PROVE  LET g == [DropHandler(f) EXCEPT !.path = In(@, region)]
           IN  FrameOK(g) /\ SameActivation(f, g)
<1> DEFINE g == [DropHandler(f) EXCEPT !.path = In(@, region)]
           q == In(f.path, region)
<1>1. /\ f \in Frames /\ f.path \in Paths /\ f.due \in Int
      /\ Len(f.path) \in Nat \ {0} /\ Last(f.path) = f.path[Len(f.path)]
      /\ Front(f.cleanup) \in Seq(HandlerRecords)
      /\ Len(f.path) \in BodiesOf(f.path)
      /\ Len(f.path) \in OpenBlocks(f.path) <=> HasFinally(Last(f.path).kind)
      /\ OpenFinally(f.path) \in Nat
  BY BodyEnd
<1>2. region \in Regions /\ region # "body"
  BY DEF Regions, StatementRegions
<1>3. /\ q \in Paths /\ \A i \in 1..(Len(f.path) - 1) : q[i] = f.path[i]
      /\ BodiesOf(q) = BodiesOf(f.path) \ {Len(f.path)}
      /\ OpenBlocks(q) = IF HasFinally(f.path[Len(f.path)].kind) /\ region \in {"cond", "handler", "orelse"}
                         THEN OpenBlocks(f.path) \cup {Len(f.path)} ELSE OpenBlocks(f.path) \ {Len(f.path)}
  BY <1>1, <1>2, InPath, InMarks
<1>4. OpenBlocks(q) = OpenBlocks(f.path)
  BY <1>1, <1>3
<1> HIDE DEF q
<1>5. /\ g \in Frames /\ SameActivation(f, g) /\ SameSlots(f, g)
      /\ g.path = q /\ g.cleanup = Front(f.cleanup)
      /\ g.due = f.due /\ g.jumped = f.jumped /\ g.escaped = f.escaped
  <2>1. g = [f EXCEPT !.cleanup = Front(f.cleanup), !.path = q]
    BY <1>1 DEF DropHandler, q, Frames
  <2> HIDE DEF g
  <2> QED BY <1>1, <1>3, <2>1 DEF Frames, SameActivation, SameSlots, HandlerRecords
<1>6. g.due = f.due + (OpenFinally(g.path) - OpenFinally(f.path))
  BY <1>1, <1>4, <1>5 DEF OpenFinally
<1> HIDE DEF g
<1>7. FrameOK(g)
  BY <1>1, <1>3, <1>5, <1>6, BodyEndOK
<1> QED BY <1>5, <1>7 DEF g

\* ... to the finally code, or to what follows.
LEMMA EndBodyOK ==
    ASSUME NEW f, FrameOK(f), f.path # <<>>, Last(f.path).region = "body",
           Last(f.path).kind # "loop", f.cleanup # <<>>
    PROVE  LET g == ToFinallyOrEnd(DropHandler(f)) IN FrameOK(g) /\ SameActivation(f, g)
<1> DEFINE g == ToFinallyOrEnd(DropHandler(f))
           q == IF HasFinally(Last(f.path).kind) THEN In(f.path, "finally") ELSE Front(f.path)
           e == IF HasFinally(Last(f.path).kind) THEN f.due - 1 ELSE f.due
<1>1. /\ f \in Frames /\ f.path \in Paths /\ f.due \in Int
      /\ Len(f.path) \in Nat \ {0} /\ Last(f.path) = f.path[Len(f.path)]
      /\ Front(f.cleanup) \in Seq(HandlerRecords)
      /\ Len(f.path) \in BodiesOf(f.path)
      /\ Len(f.path) \in OpenBlocks(f.path) <=> HasFinally(Last(f.path).kind)
      /\ OpenFinally(f.path) \in Nat
  BY BodyEnd
<1>2. "finally" \in Regions
  BY DEF Regions, StatementRegions
<1>3. /\ q \in Paths /\ \A i \in 1..(Len(f.path) - 1) : q[i] = f.path[i]
      /\ BodiesOf(q) = BodiesOf(f.path) \ {Len(f.path)}
      /\ OpenBlocks(q) = OpenBlocks(f.path) \ {Len(f.path)}
  <2>1. CASE HasFinally(Last(f.path).kind)
    <3>1. OpenBlocks(In(f.path, "finally")) = OpenBlocks(f.path) \ {Len(f.path)}
      BY <1>1, <1>2, InMarks
    <3> QED BY <1>1, <1>2, <2>1, <3>1, InPath, InMarks
  <2>2. CASE ~HasFinally(Last(f.path).kind)
    BY <1>1, <2>2, FrontMarks, FrontLast DEF Paths
  <2> QED BY <2>1, <2>2
<1>4. e \in Int /\ e = f.due + (OpenFinally(q) - OpenFinally(f.path))
  <2>1. CASE HasFinally(Last(f.path).kind)
    <3>1. OpenFinally(q) = OpenFinally(f.path) - 1
      BY <1>1, <1>3, <2>1, OpenCount
    <3> HIDE DEF q
    <3> QED BY <1>1, <2>1, <3>1
  <2>2. CASE ~HasFinally(Last(f.path).kind)
    <3>1. OpenBlocks(q) = OpenBlocks(f.path)
      BY <1>1, <1>3, <2>2
    <3>2. OpenFinally(q) = OpenFinally(f.path)
      BY <3>1 DEF OpenFinally
    <3> HIDE DEF q
    <3> QED BY <1>1, <2>2, <3>2
  <2> QED BY <2>1, <2>2
<1>5. g = [f EXCEPT !.cleanup = Front(f.cleanup), !.path = q, !.due = e]
  <2> DEFINE d == DropHandler(f)
  <2>1. d.path = f.path /\ d.due = f.due /\ d = [f EXCEPT !.cleanup = Front(f.cleanup)]
    BY <1>1 DEF DropHandler, Frames
  <2>2. CASE HasFinally(Last(f.path).kind)
    <3>1. g = [d EXCEPT !.path = In(d.path, "finally"), !.due = d.due - 1]
      BY <2>1, <2>2 DEF ToFinallyOrEnd
    <3> HIDE DEF d
    <3> QED BY <1>1, <2>1, <2>2, <3>1 DEF Frames
  <2>3. CASE ~HasFinally(Last(f.path).kind)
    <3>1. g = [d EXCEPT !.path = Front(d.path)]
      BY <2>1, <2>3 DEF ToFinallyOrEnd
    <3> HIDE DEF d
    <3> QED BY <1>1, <2>1, <2>3, <3>1 DEF Frames
  <2> QED BY <2>2, <2>3
<1> HIDE DEF q, e, g
<1>6. /\ g \in Frames /\ SameActivation(f, g) /\ SameSlots(f, g)
      /\ g.path = q /\ g.cleanup = Front(f.cleanup)
      /\ g.due = e /\ g.jumped = f.jumped /\ g.escaped = f.escaped
  BY <1>1, <1>3, <1>4, <1>5 DEF Frames, SameActivation, SameSlots, HandlerRecords
<1>7. FrameOK(g)
  BY <1>1, <1>3, <1>4, <1>6, BodyEndOK
<1> QED BY <1>6, <1>7 DEF g

\* The last handler of a frame, jumped or not.
LEMMA LastHandler ==
    ASSUME NEW f, FrameOK(f), f.cleanup # <<>>
    PROVE  /\ f \in Frames /\ f.path \in Paths /\ f.due \in Int /\ f.escaped \in BOOLEAN
           /\ Front(f.cleanup) \in Seq(HandlerRecords)
           /\ \A i \in DOMAIN Front(f.cleanup) : Front(f.cleanup)[i].path # <<>>
           /\ Last(f.cleanup).path \in Paths /\ Last(f.cleanup).path # <<>>
<1> DEFINE c == f.cleanup
<1>1. f \in Frames
  BY DEF FrameOK
<1>2. /\ f.path \in Paths /\ f.due \in Int /\ f.escaped \in BOOLEAN /\ c \in Seq(HandlerRecords)
      /\ DOMAIN c = 1..Len(c)
  BY <1>1, FrameFields
<1>3. /\ Len(c) \in Nat \ {0} /\ Front(c) \in Seq(HandlerRecords) /\ Len(Front(c)) = Len(c) - 1
      /\ Last(c) = c[Len(c)] /\ Last(c) \in HandlerRecords
      /\ \A i \in 1..(Len(c) - 1) : Front(c)[i] = c[i]
  BY <1>2, FrontLast
<1>4. DOMAIN Front(c) = 1..(Len(c) - 1)
  BY <1>3, LenProperties
<1>5. \A i \in DOMAIN Front(c) : i \in DOMAIN c /\ Front(c)[i] = c[i]
  BY <1>2, <1>3, <1>4
<1>6. \A i \in DOMAIN Front(c) : Front(c)[i].path # <<>>
  BY <1>5 DEF FrameOK
<1>7. Last(c).path # <<>>
  BY <1>2, <1>3 DEF FrameOK
<1> QED BY <1>1, <1>2, <1>3, <1>6, <1>7 DEF HandlerRecords

\* Marks of a path that agrees with another up to its end.
LEMMA AgreeMarks ==
    ASSUME NEW p \in Paths, NEW t \in Paths, Len(t) <= Len(p), \A j \in 1..Len(t) : t[j] = p[j]
    PROVE  BodiesOf(t) = BodiesOf(p) \cap 1..Len(t) /\ OpenBlocks(t) = OpenBlocks(p) \cap 1..Len(t)
<1>1. DOMAIN p = 1..Len(p) /\ DOMAIN t = 1..Len(t) /\ Len(p) \in Nat /\ Len(t) \in Nat
  BY LenProperties DEF Paths
<1> QED BY <1>1 DEF BodiesOf, OpenBlocks

\* An exception goes to the innermost body's handler; unless it escapes a finally on the way,
\* the finally blocks that are open are those of the bodies it reaches later.
LEMMA JumpToHandlerOK ==
    ASSUME NEW f, FrameOK(f), f.cleanup # <<>>
    PROVE  FrameOK(JumpToHandler(f)) /\ SameActivation(f, JumpToHandler(f))
<1> DEFINE g == JumpToHandler(f)
           t == Last(f.cleanup).path
           kind == Last(t).kind
           region == HandlerRegion(kind)
           q == In(t, region)
           d == IF kind = "finally" THEN f.due - 1 ELSE f.due
           e == f.escaped \/ EscapesFinally(f.path)
<1>1. /\ f \in Frames /\ f.path \in Paths /\ f.due \in Int /\ f.escaped \in BOOLEAN
      /\ Front(f.cleanup) \in Seq(HandlerRecords)
      /\ \A i \in DOMAIN Front(f.cleanup) : Front(f.cleanup)[i].path # <<>>
      /\ t \in Paths /\ t # <<>>
  BY LastHandler
<1>2. Len(t) \in Nat \ {0} /\ Last(t) = t[Len(t)] /\ Last(t) \in Blocks
  BY <1>1, FrontLast DEF Paths
<1>3. region \in Regions /\ region # "body"
  BY DEF HandlerRegion, Regions, StatementRegions
<1>4. /\ q \in Paths /\ Len(q) = Len(t) /\ \A i \in 1..(Len(t) - 1) : q[i] = t[i]
      /\ BodiesOf(q) = BodiesOf(t) \ {Len(t)}
      /\ OpenBlocks(q) = IF HasFinally(t[Len(t)].kind) /\ region \in {"cond", "handler", "orelse"}
                         THEN OpenBlocks(t) \cup {Len(t)} ELSE OpenBlocks(t) \ {Len(t)}
  <2> HIDE DEF region, t
  <2> QED BY <1>1, <1>3, InPath, InMarks DEF q
<1>5. /\ g \in Frames /\ SameActivation(f, g) /\ SameSlots(f, g)
      /\ g.path = q /\ g.cleanup = Front(f.cleanup)
      /\ g.due = d /\ g.jumped = f.jumped /\ g.escaped = e
  <2>1. g = [f EXCEPT !.path = q, !.cleanup = Front(f.cleanup), !.escaped = e, !.due = d]
    BY DEF JumpToHandler
  <2>2. d \in Int /\ e \in BOOLEAN
    BY <1>1 DEF EscapesFinally
  <2> HIDE DEF g, q, d, e
  <2> QED BY <1>1, <1>4, <2>1, <2>2 DEF Frames, SameActivation, SameSlots, HandlerRecords
<1>6. ASSUME ~f.jumped
      PROVE  /\ BodiesOf(t) = BodiesOf(f.path) /\ Len(t) \in BodiesOf(f.path)
             /\ OpenBlocks(t) = OpenBlocks(f.path) \cap 1..Len(t)
             /\ \A i \in 1..Len(t) : t[i] = f.path[i]
             /\ \A k \in BodiesOf(f.path) : k <= Len(t)
             /\ kind # "loop" /\ t[Len(t)].region = "body"
  <2>1. /\ Len(t) \in BodiesOf(f.path) /\ \A j \in 1..Len(t) : t[j] = f.path[j]
        /\ \A k \in BodiesOf(f.path) : k <= Len(t)
    BY <1>6, TopHandler
  <2>2. DOMAIN f.path = 1..Len(f.path) /\ Len(f.path) \in Nat
    BY <1>1, LenProperties DEF Paths
  <2>3. BodiesOf(f.path) \subseteq 1..Len(f.path)
    BY <2>2 DEF BodiesOf
  <2>4. BodiesOf(t) = BodiesOf(f.path) \cap 1..Len(t) /\ OpenBlocks(t) = OpenBlocks(f.path) \cap 1..Len(t)
    <3>1. Len(t) <= Len(f.path)
      BY <2>1, <2>2, <2>3
    <3> HIDE DEF t
    <3> QED BY <1>1, <2>1, <3>1, AgreeMarks
  <2>5. BodiesOf(f.path) \subseteq 1..Len(t)
    BY <1>2, <2>1, <2>2, <2>3
  <2>6. Len(t) \in BodiesOf(t)
    BY <2>1, <2>4, <2>5
  <2>7. kind # "loop" /\ t[Len(t)].region = "body"
    BY <1>2, <2>6 DEF BodiesOf
  <2> QED BY <2>1, <2>4, <2>5, <2>7
<1>7. ASSUME ~f.jumped, ~e
      PROVE  g.due = OpenFinally(q)
  <2>1. OpenBlocks(f.path) \subseteq BodiesOf(f.path)
    <3>1. ASSUME NEW k \in OpenBlocks(f.path)
          PROVE  k \in BodiesOf(f.path)
      <4>1. k \in DOMAIN f.path /\ HasFinally(f.path[k].kind)
        BY DEF OpenBlocks
      <4>2. f.path[k] \in ToSet(f.path)
        BY <4>1 DEF ToSet
      <4>3. f.path[k].region \notin {"cond", "handler", "orelse"}
        BY <1>7, <4>1, <4>2 DEF EscapesFinally
      <4>4. f.path[k].region = "body" /\ f.path[k].kind # "loop"
        BY <4>1, <4>3 DEF OpenBlocks, HasFinally
      <4> QED BY <4>1, <4>4 DEF BodiesOf
    <3> QED BY <3>1
  <2>2. OpenBlocks(t) = OpenBlocks(f.path)
    <3>1. BodiesOf(f.path) \subseteq 1..Len(t)
      <4>1. BodiesOf(t) \subseteq 1..Len(t)
        BY <1>1, LenProperties DEF BodiesOf, Paths
      <4> QED BY <1>6, <1>7, <4>1
    <3> QED BY <1>6, <1>7, <2>1, <3>1
  <2>3. f.due = OpenFinally(t) /\ OpenFinally(t) \in Nat
    BY <1>1, <1>7, <2>2, OpenCount DEF FrameOK, OpenFinally
  <2>4. Len(t) \in OpenBlocks(t) <=> HasFinally(kind)
    <3>1. Len(t) \in DOMAIN t
      BY <1>1, <1>2, LenProperties DEF Paths
    <3> QED BY <1>2, <1>6, <1>7, <3>1 DEF OpenBlocks
  <2>5. CASE kind = "finally"
    <3>1. HasFinally(kind) /\ region = "finallyX"
      BY <2>5 DEF HasFinally, HandlerRegion, HasHandlers
    <3>2. OpenBlocks(q) = OpenBlocks(t) \ {Len(t)}
      BY <1>4, <3>1
    <3>3. OpenFinally(q) = OpenFinally(t) - 1
      <4> HIDE DEF t, q
      <4> QED BY <1>1, <1>2, <1>4, <2>4, <3>1, <3>2, OpenCount
    <3> QED BY <1>5, <2>3, <2>5, <3>3
  <2>6. CASE kind # "finally"
    <3>1. HasFinally(kind) <=> region = "cond" /\ HasFinally(kind)
      BY <2>6 DEF HasFinally, HandlerRegion, HasHandlers
    <3>2. OpenBlocks(q) = OpenBlocks(t)
      BY <1>2, <1>4, <2>4, <3>1 DEF HandlerRegion
    <3>3. OpenFinally(q) = OpenFinally(t)
      BY <3>2 DEF OpenFinally
    <3> QED BY <1>5, <2>3, <2>6, <3>3
  <2> QED BY <2>5, <2>6
<1>8. ~f.jumped => /\ BodiesOf(g.path) = BodiesOf(f.path) \ {Len(t)}
                   /\ \A i \in 1..(Len(t) - 1) : g.path[i] = f.path[i]
  <2> HIDE DEF g, q, t
  <2> SUFFICES ASSUME ~f.jumped
               PROVE  /\ BodiesOf(q) = BodiesOf(f.path) \ {Len(t)}
                      /\ \A i \in 1..(Len(t) - 1) : q[i] = f.path[i]
    BY <1>5
  <2>1. \A i \in 1..(Len(t) - 1) : i \in 1..Len(t)
    BY <1>2
  <2> QED BY <1>4, <1>6, <2>1
<1>9. g.jumped \/ g.escaped \/ g.due = OpenFinally(g.path)
  BY <1>5, <1>7
<1> HIDE DEF g
<1>10. FrameOK(g)
  BY <1>5, <1>8, <1>9, DropOK DEF SameActivation, SameSlots
<1> QED BY <1>5, <1>10 DEF g

\* A try or a with begins.
LEMMA InstallOK ==
    ASSUME NEW f, FrameOK(f), NEW kind \in TryKinds \cup {"with"}
    PROVE  LET p == Append(f.path, Block(kind, "body"))
               g == [f EXCEPT !.path = p, !.cleanup = Append(@, [with |-> kind = "with", path |-> p]),
                              !.due = IF HasFinally(kind) THEN @ + 1 ELSE @]
           IN  FrameOK(g) /\ SameActivation(f, g)
<1> DEFINE b == Block(kind, "body")
           p == Append(f.path, b)
           h == [with |-> kind = "with", path |-> p]
           c == Append(f.cleanup, h)
           d == IF HasFinally(kind) THEN f.due + 1 ELSE f.due
           g == [f EXCEPT !.path = p, !.cleanup = c, !.due = d]
           n == Len(f.path)
           m == Len(f.cleanup)
<1>1. f \in Frames
  BY DEF FrameOK
<1>2. /\ f.path \in Paths /\ f.cleanup \in Seq(HandlerRecords) /\ f.due \in Int
      /\ n \in Nat /\ DOMAIN f.path = 1..n /\ m \in Nat /\ DOMAIN f.cleanup = 1..m
  BY <1>1, FrameFields
<1>3. b \in Blocks /\ b.kind = kind /\ b.region = "body" /\ kind # "loop"
  BY BlockType DEF Regions, StatementRegions, TryKinds
<1> HIDE DEF b
<1>4. /\ p \in Paths /\ p # <<>> /\ Len(p) = n + 1
      /\ \A i \in 1..n : p[i] = f.path[i]
      /\ BodiesOf(p) = BodiesOf(f.path) \cup {n + 1}
      /\ OpenBlocks(p) = IF HasFinally(kind) THEN OpenBlocks(f.path) \cup {n + 1} ELSE OpenBlocks(f.path)
  BY <1>2, <1>3, AppendMarks
<1> HIDE DEF p
<1>5. h \in HandlerRecords /\ h.path = p
  BY <1>4 DEF HandlerRecords
<1> HIDE DEF h
<1>6. /\ c \in Seq(HandlerRecords) /\ Len(c) = m + 1 /\ c[m + 1] = h
      /\ \A i \in 1..m : c[i] = f.cleanup[i]
  BY <1>2, <1>5, AppendProperties
<1>7. DOMAIN c = 1..(m + 1)
  BY <1>6, LenProperties
<1> HIDE DEF c
<1>8. d \in Int
  BY <1>2
<1> HIDE DEF d
<1>9. /\ g \in Frames /\ SameActivation(f, g) /\ SameSlots(f, g)
      /\ g.path = p /\ g.cleanup = c /\ g.due = d
      /\ g.jumped = f.jumped /\ g.escaped = f.escaped
  BY <1>1, <1>4, <1>6, <1>8 DEF Frames, SameActivation, SameSlots, HandlerRecords
<1> HIDE DEF g
<1>10. \A i \in DOMAIN c : c[i].path # <<>>
  <2>1. \A i \in 1..m : c[i].path # <<>>
    BY <1>2, <1>6 DEF FrameOK
  <2>2. \A i \in DOMAIN c : i \in 1..m \/ i = m + 1
    BY <1>2, <1>7
  <2> QED BY <1>4, <1>5, <1>6, <2>1, <2>2
<1>11. ASSUME ~f.jumped
       PROVE  Handled(p, c)
  <2>1. Handled(f.path, f.cleanup)
    BY <1>11 DEF FrameOK
  <2>2. BodiesOf(f.path) \subseteq 1..n
    BY <1>2 DEF BodiesOf
  <2>3. \A i \in DOMAIN c : \/ i \in DOMAIN f.cleanup /\ c[i] = f.cleanup[i] /\ i <= m
                            \/ i = m + 1 /\ c[i].path = p
    BY <1>2, <1>5, <1>6, <1>7
  <2>4. ASSUME NEW i \in DOMAIN c
        PROVE  Len(c[i].path) \in BodiesOf(p) /\ \A j \in 1..Len(c[i].path) : c[i].path[j] = p[j]
    <3>1. CASE i \in DOMAIN f.cleanup /\ c[i] = f.cleanup[i]
      <4>1. /\ Len(c[i].path) \in BodiesOf(f.path)
            /\ \A j \in 1..Len(c[i].path) : c[i].path[j] = f.path[j]
        BY <2>1, <3>1 DEF Handled
      <4>2. \A j \in 1..Len(c[i].path) : j \in 1..n
        BY <1>2, <2>2, <4>1
      <4> QED BY <1>4, <4>1, <4>2
    <3>2. CASE c[i].path = p
      BY <1>4, <3>2
    <3> QED BY <2>3, <3>1, <3>2
  <2>5. ASSUME NEW k \in BodiesOf(p)
        PROVE  \E i \in DOMAIN c : Len(c[i].path) = k
    <3>1. CASE k \in BodiesOf(f.path)
      <4>1. PICK i \in DOMAIN f.cleanup : Len(f.cleanup[i].path) = k
        BY <2>1, <3>1 DEF Handled
      <4>2. i \in DOMAIN c /\ c[i] = f.cleanup[i]
        BY <1>2, <1>6, <1>7
      <4> QED BY <4>1, <4>2
    <3>2. CASE k = n + 1
      <4>1. m + 1 \in DOMAIN c
        BY <1>2, <1>7
      <4> QED BY <1>4, <1>5, <1>6, <3>2, <4>1
    <3> QED BY <1>4, <3>1, <3>2
  <2>6. ASSUME NEW i \in DOMAIN c, NEW j \in DOMAIN c, i < j
        PROVE  Len(c[i].path) < Len(c[j].path)
    <3>1. i \in DOMAIN f.cleanup /\ c[i] = f.cleanup[i]
      BY <1>2, <1>7, <2>3, <2>6
    <3>2. Len(c[i].path) \in BodiesOf(f.path)
      BY <2>1, <3>1 DEF Handled
    <3>3. CASE j \in DOMAIN f.cleanup /\ c[j] = f.cleanup[j]
      BY <2>1, <2>6, <3>1, <3>3 DEF Handled
    <3>4. CASE c[j].path = p
      BY <1>2, <1>4, <2>2, <3>2, <3>4
    <3> QED BY <2>3, <3>3, <3>4
  <2> QED BY <2>4, <2>5, <2>6 DEF Handled
<1>12. g.jumped \/ g.escaped \/ g.due = OpenFinally(p)
  <2>1. OpenFinally(p) = IF HasFinally(kind) THEN OpenFinally(f.path) + 1 ELSE OpenFinally(f.path)
    <3>1. CASE HasFinally(kind)
      <4>1. n + 1 \notin OpenBlocks(f.path) /\ n + 1 \in Nat
        BY <1>2 DEF OpenBlocks
      <4> QED BY <1>2, <1>4, <3>1, <4>1, OpenCount
    <3>2. CASE ~HasFinally(kind)
      BY <1>4, <3>2 DEF OpenFinally
    <3> QED BY <3>1, <3>2
  <2> QED BY <1>9, <2>1 DEF FrameOK, d
<1>13. FrameOK(g)
  BY <1>9, <1>10, <1>11, <1>12 DEF FrameOK, Balanced, SameActivation, SameSlots
<1> QED BY <1>9, <1>13 DEF g, d, c, h, p, b

\* A loop begins.
LEMMA EnterLoopOK ==
    ASSUME NEW f, FrameOK(f)
    PROVE  LET g == [f EXCEPT !.path = Append(@, Block("loop", "body"))]
           IN  FrameOK(g) /\ SameActivation(f, g)
<1> DEFINE b == Block("loop", "body")
           p == Append(f.path, b)
           g == [f EXCEPT !.path = p]
<1>1. f \in Frames
  BY DEF FrameOK
<1>2. f.path \in Paths /\ f.due \in Int /\ Len(f.path) \in Nat /\ DOMAIN f.path = 1..Len(f.path)
  BY <1>1, FrameFields
<1>3. b \in Blocks /\ b.kind = "loop" /\ b.region = "body"
  BY BlockType DEF Regions, StatementRegions
<1> HIDE DEF b
<1>4. /\ p \in Paths /\ \A i \in 1..Len(f.path) : p[i] = f.path[i]
      /\ BodiesOf(p) = BodiesOf(f.path) /\ OpenBlocks(p) = OpenBlocks(f.path)
  BY <1>2, <1>3, AppendMarks DEF HasFinally
<1> HIDE DEF p
<1>5. /\ g \in Frames /\ SameActivation(f, g) /\ SameSlots(f, g)
      /\ g.path = p /\ g.cleanup = f.cleanup /\ g.due = f.due
      /\ g.jumped = f.jumped /\ g.escaped = f.escaped
  BY <1>1, <1>4 DEF Frames, SameActivation, SameSlots
<1> HIDE DEF g
<1>6. \A k \in BodiesOf(f.path) : \A i \in 1..k : g.path[i] = f.path[i]
  <2>1. \A k \in BodiesOf(f.path) : \A i \in 1..k : i \in 1..Len(f.path)
    BY <1>2 DEF BodiesOf
  <2> QED BY <1>4, <1>5, <2>1
<1>7. g.due = f.due + (OpenFinally(g.path) - OpenFinally(f.path))
  <2>1. OpenFinally(g.path) = OpenFinally(f.path) /\ OpenFinally(f.path) \in Nat
    BY <1>2, <1>4, <1>5, OpenCount DEF OpenFinally
  <2> QED BY <1>2, <1>5, <2>1
<1>8. FrameOK(g)
  BY <1>4, <1>5, <1>6, <1>7, MoveOK DEF SameActivation, SameSlots
<1> QED BY <1>5, <1>8 DEF g, p, b

\* break or continue, out of `Len(path) - target` blocks; nothing but finally code that had
\* begun is crossed, or the frame is marked.
LEMMA JumpOK ==
    ASSUME NEW f, FrameOK(f), NEW inner \in DOMAIN f.path, f.path[inner].kind = "loop",
           NEW target \in {inner - 1, inner}
    PROVE  LET crossed == SubSeq(f.path, inner + 1, Len(f.path))
               g == [f EXCEPT !.path = SubSeq(@, 1, target),
                              !.jumped = @ \/ \E b \in ToSet(crossed) : b.region # "finally"]
           IN  FrameOK(g) /\ SameActivation(f, g)
<1> DEFINE crossed == SubSeq(f.path, inner + 1, Len(f.path))
           n == Len(f.path)
           p == SubSeq(f.path, 1, target)
           j == f.jumped \/ \E b \in ToSet(crossed) : b.region # "finally"
           g == [f EXCEPT !.path = p, !.jumped = j]
<1>1. f \in Frames
  BY DEF FrameOK
<1>2. /\ f.path \in Paths /\ f.due \in Int /\ n \in Nat /\ DOMAIN f.path = 1..n /\ inner \in 1..n
      /\ \A i \in 1..n : f.path[i] \in Blocks
      /\ f.jumped \in BOOLEAN
  BY <1>1, FrameFields
<1>3. target \in 0..n /\ target \in {inner - 1, inner}
  BY <1>2
<1>4. /\ p \in Paths /\ \A i \in 1..target : p[i] = f.path[i]
      /\ BodiesOf(p) = BodiesOf(f.path) \cap 1..target
      /\ OpenBlocks(p) = OpenBlocks(f.path) \cap 1..target
  BY <1>2, <1>3, PrefixMarks, Prefix DEF Paths
<1>5. j \in BOOLEAN
  BY <1>2
<1>6. ASSUME ~j, NEW i \in (inner + 1)..n
      PROVE  f.path[i].region = "finally"
  <2>1. /\ crossed \in Seq(Blocks) /\ Len(crossed) = IF inner + 1 <= n THEN n - (inner + 1) + 1 ELSE 0
        /\ \A k \in 1..(n - (inner + 1) + 1) : crossed[k] = f.path[inner + 1 + k - 1]
    <3>1. \A k \in (inner + 1)..n : f.path[k] \in Blocks
      BY <1>2
    <3> QED BY <1>2, <3>1, SubSeqProperties
  <2>2. i - inner \in 1..Len(crossed) /\ i - inner \in 1..(n - (inner + 1) + 1)
        /\ inner + 1 + (i - inner) - 1 = i
    <3>1. inner + 1 <= n /\ n - (inner + 1) + 1 = n - inner
      BY <1>2
    <3>2. Len(crossed) = n - inner
      BY <2>1, <3>1
    <3>3. inner \in Nat /\ i \in Nat /\ inner + 1 <= i /\ i <= n
      BY <1>2
    <3>4. \A a, k, m \in Nat : a + 1 <= k /\ k <= m =>
             k - a \in 1..(m - a) /\ a + 1 + (k - a) - 1 = k
      OBVIOUS
    <3>5. i - inner \in 1..(n - inner) /\ inner + 1 + (i - inner) - 1 = i
      BY <1>2, <3>3, <3>4
    <3> QED BY <3>1, <3>2, <3>5
  <2>3. crossed[i - inner] = f.path[i]
    BY <2>1, <2>2
  <2>4. i - inner \in DOMAIN crossed
    BY <2>1, <2>2, LenProperties
  <2>5. f.path[i] \in ToSet(crossed)
    BY <2>3, <2>4 DEF ToSet
  <2> QED BY <1>6, <2>5
<1> HIDE DEF p, j
<1>7. /\ g \in Frames /\ SameActivation(f, g) /\ SameSlots(f, g)
      /\ g.path = p /\ g.cleanup = f.cleanup /\ g.due = f.due
      /\ g.jumped = j /\ g.escaped = f.escaped
  BY <1>1, <1>4, <1>5 DEF Frames, SameActivation, SameSlots
<1> HIDE DEF g
<1>8. CASE j
  <2>1. \A i \in DOMAIN f.cleanup : f.cleanup[i].path # <<>>
    BY DEF FrameOK
  <2>2. FrameOK(g)
    BY <1>7, <1>8, <2>1, JumpedOK DEF SameActivation, SameSlots
  <2> QED BY <1>7, <2>2 DEF g, p, j
<1>9. CASE ~j
  <2>1. ~f.jumped
    BY <1>9 DEF j
  <2>2. ASSUME NEW k \in BodiesOf(f.path) \cup OpenBlocks(f.path)
        PROVE  k \in 1..target
    <3>1. k \in 1..n /\ f.path[k].region # "finally" /\ f.path[k].kind # "loop"
      BY <1>2 DEF BodiesOf, OpenBlocks, HasFinally
    <3>2. k \notin (inner + 1)..n /\ k # inner
      BY <1>6, <1>9, <3>1
    <3> QED BY <1>2, <1>3, <3>1, <3>2
  <2>3. BodiesOf(p) = BodiesOf(f.path) /\ OpenBlocks(p) = OpenBlocks(f.path)
    BY <1>4, <2>2
  <2>4. \A k \in BodiesOf(f.path) : \A i \in 1..k : g.path[i] = f.path[i]
    <3>1. \A k \in BodiesOf(f.path) : \A i \in 1..k : i \in 1..target
      <4>1. \A k \in BodiesOf(f.path) : k \in 1..target
        BY <2>2
      <4> QED BY <1>3, <4>1
    <3> QED BY <1>4, <1>7, <3>1
  <2>5. g.due = f.due + (OpenFinally(g.path) - OpenFinally(f.path))
    <3>1. OpenFinally(g.path) = OpenFinally(f.path) /\ OpenFinally(f.path) \in Nat
      BY <1>2, <1>7, <2>3, OpenCount DEF OpenFinally
    <3> QED BY <1>2, <1>7, <3>1
  <2>6. g.jumped = f.jumped
    BY <1>7, <1>9, <1>2, <2>1, <1>5
  <2>7. FrameOK(g)
    BY <1>7, <2>3, <2>4, <2>5, <2>6, MoveOK DEF SameActivation, SameSlots
  <2> QED BY <1>7, <2>7 DEF g, p, j
<1> QED BY <1>5, <1>8, <1>9

\* A return begins the copy of the finally code of a block.
LEMMA ReturnCopyOK ==
    ASSUME NEW f, FrameOK(f), NEW n \in DOMAIN f.path, NEW region \in {"exitR", "finallyR"},
           NEW kind
    PROVE  LET g == [f EXCEPT !.path = In(SubSeq(@, 1, n), region),
                              !.due = IF kind = "with" THEN @ ELSE @ - 1, !.jumped = TRUE]
           IN  FrameOK(g) /\ SameActivation(f, g)
<1> DEFINE p == In(SubSeq(f.path, 1, n), region)
           d == IF kind = "with" THEN f.due ELSE f.due - 1
           g == [f EXCEPT !.path = p, !.due = d, !.jumped = TRUE]
<1>1. f \in Frames
  BY DEF FrameOK
<1>2. /\ f.path \in Paths /\ f.due \in Int /\ Len(f.path) \in Nat /\ n \in 1..Len(f.path)
  BY <1>1, FrameFields
<1>3. SubSeq(f.path, 1, n) \in Paths /\ SubSeq(f.path, 1, n) # <<>>
  <2>1. n \in 0..Len(f.path)
    BY <1>2
  <2>2. SubSeq(f.path, 1, n) \in Paths /\ Len(SubSeq(f.path, 1, n)) = n
    BY <1>2, <2>1, Prefix DEF Paths
  <2> QED BY <1>2, <2>2, EmptySeq
<1>4. region \in Regions
  BY DEF Regions, StatementRegions
<1>5. p \in Paths
  BY <1>3, <1>4, InPath
<1>6. d \in Int
  BY <1>2
<1> HIDE DEF p, d
<1>7. g \in Frames /\ SameActivation(f, g) /\ SameSlots(f, g) /\ g.cleanup = f.cleanup /\ g.jumped
  BY <1>1, <1>5, <1>6 DEF Frames, SameActivation, SameSlots
<1> HIDE DEF g
<1>8. FrameOK(g)
  BY <1>7, JumpedOK DEF SameActivation, SameSlots, FrameOK
<1> QED BY <1>7, <1>8 DEF g, p, d

-----------------------------------------------------------------------------
(* What is pushed and popped around an instruction *)

\* Only the value stack changes.
SameBlocks(f, g) ==
    /\ g.path = f.path /\ g.cleanup = f.cleanup
    /\ g.due = f.due /\ g.jumped = f.jumped /\ g.escaped = f.escaped

LEMMA PushedOK ==
    ASSUME NEW f, FrameOK(f), NEW k \in Nat, f.sp + k <= StackSize
    PROVE  FrameOK(Pushed(f, k)) /\ SameActivation(f, Pushed(f, k)) /\ Pushed(f, k).path = f.path
<1> DEFINE g == Pushed(f, k)
<1>1. /\ f \in Frames /\ f.sp \in 0..StackSize /\ f.base \in 0..StackSize /\ f.pushed \in Nat
      /\ f.leaked \in BOOLEAN /\ StackSize \in Nat /\ Balanced(f)
  BY FrameFields, BoundsAssumption DEF FrameOK
<1>2. f.sp + k \in 0..StackSize /\ f.pushed + k \in Nat
  BY <1>1
<1>3. /\ g \in Frames /\ SameActivation(f, g) /\ SameBlocks(f, g)
      /\ g.sp = f.sp + k /\ g.pushed = f.pushed + k /\ g.leaked = f.leaked
  BY <1>1, <1>2 DEF Pushed, Frames, SameActivation, SameBlocks
<1> HIDE DEF g
<1>4. Balanced(g)
  BY <1>1, <1>2, <1>3 DEF Balanced, SameActivation
<1>5. FrameOK(g) /\ g.path = f.path
  BY <1>3, <1>4 DEF FrameOK, SameBlocks
<1> QED BY <1>3, <1>5 DEF g

LEMMA PoppedOK ==
    ASSUME NEW f, FrameOK(f)
    PROVE  FrameOK(Popped(f)) /\ SameActivation(f, Popped(f)) /\ Popped(f).path = f.path
<1> DEFINE g == Popped(f)
<1>1. /\ f \in Frames /\ f.sp \in 0..StackSize /\ f.base \in 0..StackSize /\ f.pushed \in Nat
      /\ f.leaked \in BOOLEAN /\ StackSize \in Nat /\ Balanced(f)
  BY FrameFields, BoundsAssumption DEF FrameOK
<1>2. f.sp - f.pushed \in 0..StackSize
  BY <1>1 DEF Balanced
<1>3. /\ g \in Frames /\ SameActivation(f, g) /\ SameBlocks(f, g)
      /\ g.sp = f.sp - f.pushed /\ g.pushed = 0 /\ g.leaked = f.leaked
  BY <1>1, <1>2 DEF Popped, Frames, SameActivation, SameBlocks
<1> HIDE DEF g
<1>4. Balanced(g)
  BY <1>1, <1>2, <1>3 DEF Balanced, SameActivation
<1>5. FrameOK(g) /\ g.path = f.path
  BY <1>3, <1>4 DEF FrameOK, SameBlocks
<1> QED BY <1>3, <1>5 DEF g

LEMMA AbandonedOK ==
    ASSUME NEW f, FrameOK(f)
    PROVE  FrameOK(Abandoned(f)) /\ SameActivation(f, Abandoned(f)) /\ Abandoned(f).path = f.path
<1> DEFINE g == Abandoned(f)
<1>1. /\ f \in Frames /\ f.sp \in 0..StackSize /\ f.base \in 0..StackSize /\ f.pushed \in Nat
      /\ f.leaked \in BOOLEAN /\ StackSize \in Nat /\ Balanced(f)
  BY FrameFields, BoundsAssumption DEF FrameOK
<1>2. (f.leaked \/ f.pushed > 0) \in BOOLEAN
  BY <1>1
<1>3. /\ g \in Frames /\ SameActivation(f, g) /\ SameBlocks(f, g)
      /\ g.sp = f.sp /\ g.pushed = 0 /\ g.leaked = (f.leaked \/ f.pushed > 0)
  BY <1>1, <1>2 DEF Abandoned, Frames, SameActivation, SameBlocks
<1> HIDE DEF g
<1>4. Balanced(g)
  <2>1. g.base = f.base /\ g.sp = f.sp /\ g.pushed = 0
    BY <1>3 DEF SameActivation
  <2>2. ~g.leaked => ~f.leaked /\ ~(f.pushed > 0)
    BY <1>3, Zenon
  <2>3. f.pushed > 0 \/ f.pushed = 0
    BY <1>1
  <2> QED BY <1>1, <2>1, <2>2, <2>3 DEF Balanced
<1>5. FrameOK(g) /\ g.path = f.path
  BY <1>3, <1>4 DEF FrameOK, SameBlocks
<1> QED BY <1>3, <1>5 DEF g

-----------------------------------------------------------------------------
(* The stack of frames *)

\* What the provers need of a stack.
LEMMA ChainFacts ==
    ASSUME NEW s, NEW cur, Chain(s, cur)
    PROVE  /\ s \in Seq(Frames) /\ Len(s) \in Nat /\ DOMAIN s = 1..Len(s)
           /\ \A i \in DOMAIN s : s[i] \in Frames /\ FrameOK(s[i])
           /\ s # <<>> => /\ Len(s) \in Nat \ {0} /\ Last(s) = s[Len(s)]
                          /\ Last(s) \in Frames /\ FrameOK(Last(s)) /\ cur = Last(s).id
<1>1. s \in Seq(Frames) /\ \A i \in DOMAIN s : FrameOK(s[i])
  BY DEF Chain
<1>2. Len(s) \in Nat /\ DOMAIN s = 1..Len(s)
  BY <1>1, LenProperties
<1>3. \A i \in DOMAIN s : s[i] \in Frames /\ FrameOK(s[i])
  BY <1>1, <1>2 DEF FrameOK
<1>4. ASSUME s # <<>>
      PROVE  Len(s) \in Nat \ {0} /\ Last(s) = s[Len(s)] /\ cur = Last(s).id
  BY <1>1, <1>4, FrontLast DEF Chain
<1> QED BY <1>1, <1>2, <1>3, <1>4

\* What a frame keeps on the stack, in a generator and back on the stack.
SameOrigin(f, g) == g.id = f.id /\ g.maker = f.maker /\ g.base = f.base

LEMMA MakersKept ==
    ASSUME NEW s, NEW gs, AboveMakers(s, gs), NEW t, NEW hs,
           \A e \in Held(t, hs) : \E d \in Held(s, gs) : SameOrigin(d, e)
    PROVE  AboveMakers(t, hs)
<1> SUFFICES ASSUME NEW f \in Held(t, hs), NEW m \in Held(t, hs), m.id = f.maker
             PROVE  m.base <= f.base
  BY DEF AboveMakers
<1>1. PICK d \in Held(s, gs) : SameOrigin(d, f)
  OBVIOUS
<1>2. PICK e \in Held(s, gs) : SameOrigin(e, m)
  OBVIOUS
<1>3. e.id = d.maker => e.base <= d.base
  BY DEF AboveMakers
<1> QED BY <1>1, <1>2, <1>3 DEF SameOrigin

\* One frame more, which no other frame has as its maker.
LEMMA MakersAdded ==
    ASSUME NEW s, NEW gs, AboveMakers(s, gs), NEW t, NEW hs, NEW f, f.maker # f.id,
           \A d \in Held(s, gs) : d.maker # f.id /\ (d.id = f.maker => d.base <= f.base),
           \A e \in Held(t, hs) : SameOrigin(f, e) \/ \E d \in Held(s, gs) : SameOrigin(d, e)
    PROVE  AboveMakers(t, hs)
<1> SUFFICES ASSUME NEW h \in Held(t, hs), NEW m \in Held(t, hs), m.id = h.maker
             PROVE  m.base <= h.base
  BY DEF AboveMakers
<1>1. CASE SameOrigin(f, m)
  BY <1>1 DEF SameOrigin
<1>2. ASSUME NEW e \in Held(s, gs), SameOrigin(e, m)
      PROVE  m.base <= h.base
  <2>1. CASE SameOrigin(f, h)
    BY <1>2, <2>1 DEF SameOrigin
  <2>2. ASSUME NEW d \in Held(s, gs), SameOrigin(d, h)
        PROVE  m.base <= h.base
    <3>1. e.id = d.maker => e.base <= d.base
      BY DEF AboveMakers
    <3> QED BY <1>2, <2>2, <3>1 DEF SameOrigin
  <2> QED BY <2>1, <2>2
<1> QED BY <1>1, <1>2

\* An instruction of the running frame.
LEMMA ChainTop ==
    ASSUME NEW s, NEW cur, Chain(s, cur), s # <<>>,
           NEW f, FrameOK(f), SameActivation(Last(s), f)
    PROVE  LET t == Append(Front(s), f)
           IN  /\ Chain(t, cur) /\ Last(t) = f /\ t # <<>>
               /\ \A gs : Owns(s, gs) => Owns(t, gs)
<1> DEFINE t == Append(Front(s), f)
           n == Len(s)
<1>1. /\ s \in Seq(Frames) /\ n \in Nat \ {0} /\ DOMAIN s = 1..n /\ Last(s) = s[n]
      /\ cur = Last(s).id /\ f \in Frames
  BY ChainFacts DEF FrameOK
<1>2. /\ t \in Seq(Frames) /\ t # <<>> /\ Len(t) = n /\ DOMAIN t = 1..n
      /\ \A i \in 1..(n - 1) : t[i] = s[i]
      /\ t[n] = f /\ Last(t) = f
  <2>1. LET u == Append(Front(s), f)
        IN  /\ u \in Seq(Frames) /\ u # <<>>
            /\ Len(u) = Len(s) /\ DOMAIN u = 1..Len(s)
            /\ \A i \in 1..(Len(s) - 1) : u[i] = s[i]
            /\ u[Len(s)] = f /\ Last(u) = f
    <3>1. s \in Seq(Frames) /\ f \in Frames /\ s # <<>>
      BY <1>1
    <3> QED BY ONLY <3>1, ReplaceLast
  <2> QED BY <2>1
<1> HIDE DEF t
<1>3. \A i \in 1..n : i \in 1..(n - 1) \/ i = n
  <2> HIDE DEF n
  <2> QED BY <1>1
<1>4. \A i \in 1..n : SameActivation(s[i], t[i])
  BY <1>1, <1>2, <1>3 DEF SameActivation
<1>5. Chain(t, cur)
  <2>1. \A i \in DOMAIN t : FrameOK(t[i])
    BY <1>1, <1>2, <1>3 DEF Chain
  <2>2. \A i \in DOMAIN t : t[i].back = IF i = 1 THEN NoFrame ELSE t[i - 1].id
    <3>1. \A i \in 1..n : i = 1 \/ i - 1 \in 1..n
      BY <1>1
    <3> QED BY <1>1, <1>2, <1>4, <3>1 DEF Chain, SameActivation
  <2>3. \A i \in 1..(n - 1) : Above(t[i], t[i + 1])
    <3>1. \A i \in 1..(n - 1) : i + 1 \in 1..n
      BY <1>1
    <3> QED BY <1>1, <1>2, <1>4, <3>1 DEF Chain, SameActivation, Above
  <2>4. \A i, j \in DOMAIN t : i # j => t[i].id # t[j].id
    BY <1>1, <1>2, <1>4 DEF Chain, SameActivation
  <2>5. \A i \in 1..(n - 1) : Waits(t[i], t[i + 1].how)
    <3>1. \A i \in 1..(n - 1) : i + 1 \in 1..n
      BY <1>1
    <3> QED BY <1>1, <1>2, <1>4, <3>1 DEF Chain, SameActivation
  <2>6. cur \in FrameIds /\ cur = Last(t).id
    BY <1>1, <1>2 DEF SameActivation, Chain
  <2> QED BY <1>2, <2>1, <2>2, <2>3, <2>4, <2>5, <2>6 DEF Chain
<1>6. ASSUME NEW gs, Owns(s, gs)
      PROVE  Owns(t, gs)
  <2>1. \A e \in Held(t, gs) : \E d \in Held(s, gs) : SameOrigin(d, e)
    BY <1>1, <1>2, <1>4 DEF Held, SameActivation, SameOrigin
  <2>2. AboveMakers(t, gs)
    BY <1>6, <2>1, MakersKept DEF Owns
  <2> QED BY <1>1, <1>2, <1>4, <1>6, <2>2 DEF Owns, SameActivation
<1> QED BY <1>2, <1>5, <1>6 DEF t

\* push_frame.
LEMMA ChainPush ==
    ASSUME NEW s, NEW cur, Chain(s, cur), s # <<>>,
           NEW f, FrameOK(f), f.back = cur, Above(Last(s), f), Waits(Last(s), f.how),
           \A i \in DOMAIN s : s[i].id # f.id
    PROVE  Chain(Append(s, f), f.id)
<1> DEFINE t == Append(s, f)
           n == Len(s)
<1>1. /\ s \in Seq(Frames) /\ n \in Nat \ {0} /\ DOMAIN s = 1..n /\ Last(s) = s[n]
      /\ cur = Last(s).id /\ f \in Frames
  BY ChainFacts DEF FrameOK
<1>2. /\ t \in Seq(Frames) /\ t # <<>> /\ Len(t) = n + 1
      /\ \A i \in 1..n : t[i] = s[i]
      /\ t[n + 1] = f
  BY <1>1, AppendProperties
<1>3. DOMAIN t = 1..(n + 1) /\ Last(t) = f
  BY <1>2, LenProperties DEF Last
<1> HIDE DEF t
<1>4. \A i \in 1..(n + 1) : i \in 1..n \/ i = n + 1
  BY <1>1
<1>5. \A i \in DOMAIN t : FrameOK(t[i])
  BY <1>1, <1>2, <1>3, <1>4 DEF Chain
<1>6. ASSUME NEW i \in DOMAIN t
      PROVE  t[i].back = IF i = 1 THEN NoFrame ELSE t[i - 1].id
  <2>1. CASE i \in 1..n
    <3>1. i = 1 \/ i - 1 \in 1..n
      BY <1>1, <2>1
    <3> QED BY <1>1, <1>2, <2>1, <3>1 DEF Chain
  <2>2. CASE i = n + 1
    <3>1. i # 1 /\ i - 1 = n /\ n \in 1..n
      BY <1>1, <2>2
    <3> QED BY <1>1, <1>2, <2>2, <3>1
  <2> QED BY <1>3, <1>4, <2>1, <2>2
<1>7. ASSUME NEW i \in 1..n
      PROVE  Above(t[i], t[i + 1]) /\ Waits(t[i], t[i + 1].how)
  <2>1. CASE i \in 1..(n - 1)
    <3>1. i + 1 \in 1..n
      BY <1>1, <2>1
    <3> QED BY <1>1, <1>2, <2>1, <3>1 DEF Chain
  <2>2. CASE i = n
    BY <1>1, <1>2, <2>2
  <2>3. i \in 1..(n - 1) \/ i = n
    <3> HIDE DEF n
    <3> QED BY <1>1
  <2> QED BY <2>1, <2>2, <2>3
<1>8. ASSUME NEW i \in DOMAIN t, NEW j \in DOMAIN t, i # j
      PROVE  t[i].id # t[j].id
  <2>1. CASE i \in 1..n /\ j \in 1..n
    BY <1>1, <1>2, <1>8, <2>1 DEF Chain
  <2>2. CASE i = n + 1 \/ j = n + 1
    BY <1>1, <1>2, <1>3, <1>4, <1>8, <2>2
  <2> QED BY <1>3, <1>4, <2>1, <2>2
<1>9. \A i \in 1..(Len(t) - 1) : i \in 1..n
  BY <1>1, <1>2
<1>10. Chain(t, f.id)
  <2>1. f.id \in FrameIds
    BY <1>1, FrameFields
  <2> QED BY <2>1, <1>2, <1>3, <1>5, <1>6, <1>7, <1>8, <1>9 DEF Chain
<1> QED BY <1>10 DEF t

\* pop_frame.
LEMMA ChainPop ==
    ASSUME NEW s, NEW cur, Chain(s, cur), s # <<>>
    PROVE  /\ Chain(Front(s), IF Len(s) = 1 THEN cur ELSE Last(s).back)
           /\ Len(s) = 1 => Front(s) = <<>>
           /\ Len(s) # 1 => /\ Front(s) # <<>> /\ Last(Front(s)) = s[Len(s) - 1]
                            /\ Waits(s[Len(s) - 1], Last(s).how)
<1> DEFINE t == Front(s)
           n == Len(s)
<1>1. /\ s \in Seq(Frames) /\ n \in Nat \ {0} /\ DOMAIN s = 1..n /\ Last(s) = s[n]
  BY ChainFacts
<1>2. /\ t \in Seq(Frames) /\ Len(t) = n - 1
      /\ \A i \in 1..(n - 1) : t[i] = s[i]
  BY <1>1, FrontLast
<1>3. DOMAIN t = 1..(n - 1)
  BY <1>2, LenProperties
<1>4. t = <<>> <=> n = 1
  BY <1>1, <1>2, EmptySeq
<1> HIDE DEF t
<1>5. n # 1 => n - 1 \in 1..(n - 1) /\ (n - 1) + 1 = n
  BY <1>1
<1>6. n # 1 => Last(t) = s[n - 1]
  BY <1>2, <1>5 DEF Last
<1>7. n # 1 => Waits(s[n - 1], Last(s).how)
  BY <1>1, <1>5 DEF Chain
<1> DEFINE c == IF n = 1 THEN cur ELSE Last(s).back
<1>8. c \in FrameIds /\ (t # <<>> => c = Last(t).id)
  <2>1. CASE n = 1
    BY <1>4, <2>1 DEF Chain
  <2>2. CASE n # 1
    <3>1. c = s[n - 1].id /\ n - 1 \in DOMAIN s
      BY <1>1, <1>5, <2>2 DEF Chain
    <3>2. s[n - 1] \in Frames
      BY <3>1, ChainFacts
    <3> QED BY <1>6, <2>2, <3>1, <3>2, FrameFields
  <2> QED BY <2>1, <2>2
<1> HIDE DEF c
<1>9. \A i \in DOMAIN t : i \in DOMAIN s /\ t[i] = s[i]
  BY <1>1, <1>2, <1>3
<1>10. \A i \in DOMAIN t : t[i].back = IF i = 1 THEN NoFrame ELSE t[i - 1].id
  <2>1. \A i \in DOMAIN t : i = 1 \/ i - 1 \in DOMAIN t
    BY <1>1, <1>3
  <2> QED BY <1>9, <2>1 DEF Chain
<1>11. \A i \in 1..(Len(t) - 1) : i \in DOMAIN t /\ i + 1 \in DOMAIN t /\ i \in 1..(n - 1)
  BY <1>1, <1>2, <1>3
<1>12. \A i \in 1..(Len(t) - 1) : Above(t[i], t[i + 1]) /\ Waits(t[i], t[i + 1].how)
  BY <1>9, <1>11 DEF Chain
<1>13. Chain(t, c)
  BY <1>1, <1>2, <1>8, <1>9, <1>10, <1>12 DEF Chain
<1> QED BY <1>4, <1>6, <1>7, <1>13 DEF t, c

-----------------------------------------------------------------------------
(* The generators and their frames *)

\* A frame of a plain function comes ...
LEMMA OwnsPush ==
    ASSUME NEW s \in Seq(Frames), NEW gs, Owns(s, gs), NEW f \in Frames, f.gen = NoGen,
           f.maker = NoFrame, \A d \in Held(s, gs) : d.maker # f.id /\ d \in Frames,
           \A g \in Gens : gs[g].state = "suspended" => gs[g].frame.id # f.id
    PROVE  Owns(Append(s, f), gs)
<1> DEFINE t == Append(s, f)
           n == Len(s)
<1>1. /\ Len(t) = n + 1 /\ t \in Seq(Frames) /\ t[n + 1] = f /\ \A i \in 1..n : t[i] = s[i]
  BY AppendProperties
<1>2. DOMAIN t = 1..(n + 1) /\ DOMAIN s = 1..n /\ n \in Nat
  BY <1>1, LenProperties
<1> HIDE DEF t
<1>3. \A i \in DOMAIN t : (i \in DOMAIN s /\ t[i] = s[i]) \/ t[i] = f
  <2>1. \A i \in 1..(n + 1) : i \in 1..n \/ i = n + 1
    BY <1>2
  <2> QED BY <1>1, <1>2, <2>1
<1>4. \A i \in DOMAIN s : i \in DOMAIN t /\ t[i] = s[i]
  BY <1>1, <1>2
<1>5. \A g \in Gens : (\E i \in DOMAIN t : t[i].gen = g) <=> (\E i \in DOMAIN s : s[i].gen = g)
  BY <1>3, <1>4, GensAssumption
<1>6. \A g \in Gens : gs[g].state = "suspended" =>
         FrameOK(gs[g].frame) /\ gs[g].frame.gen = g /\ \A i \in DOMAIN t : t[i].id # gs[g].frame.id
  BY <1>3 DEF Owns
<1>7. \A i, j \in DOMAIN t : t[i].gen # NoGen /\ t[i].gen = t[j].gen => i = j
  BY <1>3 DEF Owns
<1>8. AboveMakers(t, gs)
  <2>1. \A d \in Frames : d.id # NoFrame
    BY FrameFields, FramesAssumption DEF NoFrame
  <2>2. \A e \in Held(t, gs) : SameOrigin(f, e) \/ \E d \in Held(s, gs) : SameOrigin(d, e)
    BY <1>3 DEF Held, SameOrigin
  <2>3. f.maker # f.id /\ \A d \in Held(s, gs) : d.maker # f.id /\ d.id # f.maker
    BY <2>1
  <2>4. AboveMakers(s, gs)
    BY DEF Owns
  <2> QED BY <2>2, <2>3, <2>4, MakersAdded
<1>9. Owns(t, gs)
  BY <1>5, <1>6, <1>7, <1>8 DEF Owns
<1> QED BY <1>9 DEF t

\* ... and goes.
LEMMA OwnsPop ==
    ASSUME NEW s \in Seq(Frames), s # <<>>, NEW gs, Owns(s, gs), Last(s).gen = NoGen
    PROVE  Owns(Front(s), gs)
<1> DEFINE t == Front(s)
           n == Len(s)
<1>1. /\ n \in Nat \ {0} /\ Last(s) = s[n] /\ Len(t) = n - 1 /\ t \in Seq(Frames)
      /\ \A i \in 1..(n - 1) : t[i] = s[i]
  BY FrontLast
<1>2. DOMAIN t = 1..(n - 1) /\ DOMAIN s = 1..n
  BY <1>1, LenProperties
<1> HIDE DEF t, n
<1>3. \A i \in DOMAIN t : i \in DOMAIN s /\ t[i] = s[i]
  BY <1>1, <1>2
<1>4. \A i \in DOMAIN s : i \in DOMAIN t \/ s[i].gen = NoGen
  BY <1>1, <1>2
<1>5. \A g \in Gens : (\E i \in DOMAIN t : t[i].gen = g) <=> (\E i \in DOMAIN s : s[i].gen = g)
  BY <1>3, <1>4, GensAssumption
<1>6. AboveMakers(t, gs)
  <2>1. \A e \in Held(t, gs) : \E d \in Held(s, gs) : SameOrigin(d, e)
    BY <1>3 DEF Held, SameOrigin
  <2> QED BY <2>1, MakersKept DEF Owns
<1>7. Owns(t, gs)
  BY <1>3, <1>5, <1>6 DEF Owns
<1> QED BY <1>7 DEF t

\* A generator is resumed: its frame moves to the stack.
LEMMA OwnsResume ==
    ASSUME NEW s \in Seq(Frames), NEW gs, Owns(s, gs), NEW g \in Gens, gs[g].state = "suspended",
           NEW f \in Frames, f.gen = g, SameOrigin(gs[g].frame, f)
    PROVE  Owns(Append(s, f), [gs EXCEPT ![g].state = "running"])
<1> DEFINE t == Append(s, f)
           n == Len(s)
           hs == [gs EXCEPT ![g].state = "running"]
<1>1. /\ Len(t) = n + 1 /\ t \in Seq(Frames) /\ t[n + 1] = f /\ \A i \in 1..n : t[i] = s[i]
  BY AppendProperties
<1>2. DOMAIN t = 1..(n + 1) /\ DOMAIN s = 1..n /\ n \in Nat
  BY <1>1, LenProperties
<1> HIDE DEF t
<1>3. \A i \in DOMAIN t : (i \in DOMAIN s /\ t[i] = s[i] /\ i # n + 1) \/ (t[i] = f /\ i = n + 1)
  <2>1. \A i \in 1..(n + 1) : (i \in 1..n /\ i # n + 1) \/ i = n + 1
    BY <1>2
  <2> QED BY <1>1, <1>2, <2>1
<1>4. (\A i \in DOMAIN s : i \in DOMAIN t /\ t[i] = s[i]) /\ n + 1 \in DOMAIN t
  BY <1>1, <1>2
<1>5. /\ hs \in [Gens -> GenRecords] /\ hs[g].state = "running"
      /\ \A h \in Gens \ {g} : hs[h] = gs[h]
  BY DEF Owns, GenRecords
<1> HIDE DEF hs
<1>6. \A h \in Gens : hs[h].state = "suspended" => h # g /\ hs[h] = gs[h]
  BY <1>5
<1>7. \A i \in DOMAIN s : s[i].gen # g
  BY DEF Owns
<1>8. ASSUME NEW h \in Gens
      PROVE  hs[h].state = "running" <=> \E i \in DOMAIN t : t[i].gen = h
  <2>1. CASE h = g
    BY <1>1, <1>4, <1>5, <2>1
  <2>2. CASE h # g
    <3>1. hs[h].state = "running" <=> \E i \in DOMAIN s : s[i].gen = h
      BY <1>5, <2>2 DEF Owns
    <3> QED BY <1>3, <1>4, <2>2, <3>1
  <2> QED BY <2>1, <2>2
<1>9. \A h \in Gens : hs[h].state = "suspended" =>
         FrameOK(hs[h].frame) /\ hs[h].frame.gen = h /\ \A i \in DOMAIN t : t[i].id # hs[h].frame.id
  BY <1>3, <1>6 DEF Owns, SameOrigin
<1>10. \A i, j \in DOMAIN t : t[i].gen # NoGen /\ t[i].gen = t[j].gen => i = j
  BY <1>3, <1>7 DEF Owns
<1>11. \A h, k \in Gens : h # k /\ hs[h].state = "suspended" /\ hs[k].state = "suspended" =>
           hs[h].frame.id # hs[k].frame.id
  BY <1>6 DEF Owns
<1>12. AboveMakers(t, hs)
  <2>1. \A e \in Held(t, hs) : \E d \in Held(s, gs) : SameOrigin(d, e)
    BY <1>3, <1>6 DEF Held, SameOrigin
  <2> QED BY <2>1, MakersKept DEF Owns
<1>13. Owns(t, hs)
  BY <1>5, <1>8, <1>9, <1>10, <1>11, <1>12 DEF Owns
<1> QED BY <1>13 DEF t, hs

\* The frame of a generator leaves the stack, to be kept or to be dropped.
LEMMA OwnsLeave ==
    ASSUME NEW s \in Seq(Frames), s # <<>>, NEW gs, Owns(s, gs), NEW g \in Gens, Last(s).gen = g,
           NEW r \in GenRecords, r.state \in {"suspended", "finished"},
           \A i, j \in DOMAIN s : i # j => s[i].id # s[j].id,
           r.state = "suspended" => FrameOK(r.frame) /\ r.frame.gen = g /\ SameOrigin(Last(s), r.frame)
    PROVE  Owns(Front(s), [gs EXCEPT ![g] = r])
<1> DEFINE t == Front(s)
           n == Len(s)
           hs == [gs EXCEPT ![g] = r]
<1>1. /\ n \in Nat \ {0} /\ Last(s) = s[n] /\ Len(t) = n - 1 /\ t \in Seq(Frames)
      /\ \A i \in 1..(n - 1) : t[i] = s[i]
  BY FrontLast
<1>2. DOMAIN t = 1..(n - 1) /\ DOMAIN s = 1..n
  BY <1>1, LenProperties
<1> HIDE DEF t, n
<1>3. (\A i \in DOMAIN t : i \in DOMAIN s /\ t[i] = s[i] /\ i # n) /\ n \in DOMAIN s
  BY <1>1, <1>2
<1>4. \A i \in DOMAIN s : i \in DOMAIN t \/ i = n
  BY <1>1, <1>2
<1>5. hs \in [Gens -> GenRecords] /\ hs[g] = r /\ \A h \in Gens \ {g} : hs[h] = gs[h]
  BY DEF Owns
<1> HIDE DEF hs
<1>6. \A i \in DOMAIN t : t[i].gen # g
  BY <1>1, <1>3, GensAssumption DEF Owns
<1>7. ASSUME NEW h \in Gens
      PROVE  hs[h].state = "running" <=> \E i \in DOMAIN t : t[i].gen = h
  <2>1. CASE h = g
    BY <1>5, <1>6, <2>1
  <2>2. CASE h # g
    <3>1. hs[h].state = "running" <=> \E i \in DOMAIN s : s[i].gen = h
      BY <1>5, <2>2 DEF Owns
    <3> QED BY <1>1, <1>3, <1>4, <2>2, <3>1
  <2> QED BY <2>1, <2>2
<1>8. ASSUME NEW h \in Gens, hs[h].state = "suspended"
      PROVE  FrameOK(hs[h].frame) /\ hs[h].frame.gen = h /\ \A i \in DOMAIN t : t[i].id # hs[h].frame.id
  <2>1. CASE h = g
    BY <1>1, <1>3, <1>5, <1>8, <2>1 DEF SameOrigin
  <2>2. CASE h # g
    BY <1>3, <1>5, <1>8, <2>2 DEF Owns
  <2> QED BY <2>1, <2>2
<1>9. \A i, j \in DOMAIN t : t[i].gen # NoGen /\ t[i].gen = t[j].gen => i = j
  BY <1>3 DEF Owns
<1>10. ASSUME NEW h \in Gens, NEW k \in Gens, h # k, hs[h].state = "suspended", hs[k].state = "suspended"
       PROVE  hs[h].frame.id # hs[k].frame.id
  <2>1. \A m \in Gens \ {g} : hs[m].state = "suspended" => hs[m].frame.id # s[n].id
    BY <1>3, <1>5 DEF Owns
  <2>2. CASE h # g /\ k # g
    BY <1>5, <1>10, <2>2 DEF Owns
  <2>3. CASE h = g
    BY <1>1, <1>5, <1>10, <2>1, <2>3 DEF SameOrigin
  <2>4. CASE k = g
    BY <1>1, <1>5, <1>10, <2>1, <2>4 DEF SameOrigin
  <2> QED BY <2>2, <2>3, <2>4
<1>11. AboveMakers(t, hs)
  <2>1. \A e \in Held(t, hs) : \E d \in Held(s, gs) : SameOrigin(d, e)
    <3> SUFFICES ASSUME NEW e \in Held(t, hs)
                 PROVE  \E d \in Held(s, gs) : SameOrigin(d, e)
      OBVIOUS
    <3>1. CASE \E i \in DOMAIN t : e = t[i]
      BY <1>3, <3>1 DEF Held, SameOrigin
    <3>2. ASSUME NEW h \in Gens, hs[h].state = "suspended", e = hs[h].frame
          PROVE  \E d \in Held(s, gs) : SameOrigin(d, e)
      <4>1. CASE h = g
        <5>1. s[n] \in Held(s, gs) /\ SameOrigin(s[n], e)
          BY <1>1, <1>3, <1>5, <3>2, <4>1 DEF Held
        <5> QED BY <5>1
      <4>2. CASE h # g
        <5>1. e \in Held(s, gs) /\ SameOrigin(e, e)
          BY <1>5, <3>2, <4>2 DEF Held, SameOrigin
        <5> QED BY <5>1
      <4> QED BY <4>1, <4>2
    <3> QED BY <3>1, <3>2 DEF Held
  <2> QED BY <2>1, MakersKept DEF Owns
<1>12. Owns(t, hs)
  BY <1>5, <1>7, <1>8, <1>9, <1>10, <1>11 DEF Owns
<1> QED BY <1>12 DEF t, hs

\* A generator is made.
LEMMA OwnsMake ==
    ASSUME NEW s \in Seq(Frames), NEW gs, Owns(s, gs), NEW g \in Gens, gs[g].state = "none",
           NEW r \in GenRecords, r.state = "suspended", FrameOK(r.frame), r.frame.gen = g,
           r.frame.maker # r.frame.id,
           \A d \in Held(s, gs) : d.maker # r.frame.id /\ (d.id = r.frame.maker => d.base <= r.frame.base),
           \A i \in DOMAIN s : s[i].id # r.frame.id,
           \A h \in Gens : gs[h].state = "suspended" => gs[h].frame.id # r.frame.id
    PROVE  Owns(s, [gs EXCEPT ![g] = r])
<1> DEFINE hs == [gs EXCEPT ![g] = r]
<1>1. hs \in [Gens -> GenRecords] /\ hs[g] = r /\ \A h \in Gens \ {g} : hs[h] = gs[h]
  BY DEF Owns
<1> HIDE DEF hs
<1>2. \A h \in Gens : h = g \/ hs[h] = gs[h]
  BY <1>1
<1>3. \A h \in Gens : hs[h].state = "running" <=> \E i \in DOMAIN s : s[i].gen = h
  BY <1>1, <1>2 DEF Owns
<1>4. \A h \in Gens : hs[h].state = "suspended" =>
         FrameOK(hs[h].frame) /\ hs[h].frame.gen = h /\ \A i \in DOMAIN s : s[i].id # hs[h].frame.id
  BY <1>1, <1>2 DEF Owns
<1>5. \A h, k \in Gens : h # k /\ hs[h].state = "suspended" /\ hs[k].state = "suspended" =>
           hs[h].frame.id # hs[k].frame.id
  BY <1>1, <1>2 DEF Owns
<1>6. AboveMakers(s, hs)
  <2>1. \A e \in Held(s, hs) : SameOrigin(r.frame, e) \/ \E d \in Held(s, gs) : SameOrigin(d, e)
    BY <1>1, <1>2 DEF Held, SameOrigin
  <2>2. AboveMakers(s, gs)
    BY DEF Owns
  <2> QED BY <2>1, <2>2, MakersAdded
<1>7. Owns(s, hs)
  BY <1>1, <1>3, <1>4, <1>5, <1>6 DEF Owns
<1> QED BY <1>7 DEF hs

\* Only the mark of a return changes.
LEMMA OwnsMark ==
    ASSUME NEW s, NEW gs, Owns(s, gs), NEW g \in Gens
    PROVE  Owns(s, [gs EXCEPT ![g].invalid_return = TRUE])
<1> DEFINE hs == [gs EXCEPT ![g].invalid_return = TRUE]
<1>1. /\ hs \in [Gens -> GenRecords]
      /\ \A h \in Gens : hs[h].state = gs[h].state /\ hs[h].frame = gs[h].frame
  <2> DEFINE r == [gs[g] EXCEPT !.invalid_return = TRUE]
  <2>1. gs \in [Gens -> GenRecords]
    BY DEF Owns
  <2>2. r \in GenRecords /\ r.state = gs[g].state /\ r.frame = gs[g].frame
    BY <2>1 DEF GenRecords
  <2>3. hs = [gs EXCEPT ![g] = r]
    BY <2>1
  <2> HIDE DEF r, hs
  <2> QED BY <2>1, <2>2, <2>3
<1> HIDE DEF hs
<1>2. AboveMakers(s, hs)
  <2>1. Held(s, hs) = Held(s, gs)
    BY <1>1 DEF Held
  <2> QED BY <2>1 DEF Owns, AboveMakers
<1>3. Owns(s, hs)
  BY <1>1, <1>2 DEF Owns
<1> QED BY <1>3 DEF hs

-----------------------------------------------------------------------------
(* Fresh frames and the ways out of one *)

\* A non-empty set of numbers has a smallest one ...
LEMMA Smallest ==
    ASSUME NEW T, T \subseteq Nat, T # {}
    PROVE  \E i \in T : \A j \in T : i <= j
<1> DEFINE R == OpToRel(<, Nat)
<1>1. IsWellFoundedOn(R, Nat)
  BY NatLessThanWellFounded, Zenon
<1>2. \A i, j \in Nat : <<i, j>> \in R <=> i < j
  BY DEF OpToRel
<1> HIDE DEF R
<1>3. PICK i \in T : \A j \in T : ~(<<j, i>> \in R)
  BY <1>1, WFMin
<1>4. ASSUME NEW j \in T
      PROVE  i <= j
  <2>1. i \in Nat /\ j \in Nat
    OBVIOUS
  <2>2. ~(j < i)
    BY <1>2, <1>3, <2>1, Zenon
  <2> QED BY <2>1, <2>2
<1> QED BY <1>4

\* ... and one with a bound has a largest.
LEMMA Largest ==
    ASSUME NEW n \in Nat, NEW T, T \subseteq 1..n, T # {}
    PROVE  \E i \in T : \A j \in T : j <= i
<1> DEFINE D == {n - i : i \in T}
<1>1. D \subseteq Nat /\ D # {}
  <2>1. \A i \in 1..n : n - i \in Nat
    OBVIOUS
  <2>2. PICK i \in T : TRUE
    OBVIOUS
  <2>3. n - i \in D
    OBVIOUS
  <2> QED BY <2>1, <2>3
<1>2. PICK d \in D : \A e \in D : d <= e
  <2> HIDE DEF D
  <2> QED BY <1>1, Smallest
<1>3. PICK i \in T : d = n - i
  OBVIOUS
<1>4. ASSUME NEW j \in T
      PROVE  j <= i
  <2>1. n - j \in D
    OBVIOUS
  <2>2. n - i <= n - j
    BY <1>2, <1>3, <2>1
  <2>3. i \in Nat /\ j \in Nat
    OBVIOUS
  <2> QED BY <2>2, <2>3
<1> QED BY <1>4

\* The identity of a new Python frame is that of no other frame in use.
LEMMA Fresh ==
    ASSUME Chain(vm, current), Owns(vm, gens), FreeIds # {}
    PROVE  /\ FreshId \in FrameIds
           /\ \A i \in DOMAIN vm : vm[i].id # FreshId
           /\ \A g \in Gens : gens[g].state = "suspended" => gens[g].frame.id # FreshId
           /\ \A d \in Held(vm, gens) : d.maker # FreshId /\ d \in Frames
<1>1. FreeIds \subseteq Nat
  BY FramesAssumption DEF FreeIds
<1>2. FreshId \in FreeIds
  BY <1>1, Smallest DEF FreshId
<1>3. \A i \in DOMAIN vm : vm[i].id \notin FreeIds
  BY DEF FreeIds, LiveFrames, ToSet
<1>4. \A g \in Gens : gens[g].state = "suspended" => gens[g].frame.id \notin FreeIds
  BY DEF FreeIds, LiveFrames, SavedFrames
<1>5. \A d \in Held(vm, gens) : d.maker \notin FreeIds
  BY DEF FreeIds, LiveFrames, SavedFrames, ToSet, Held
<1>6. \A d \in Held(vm, gens) : d \in Frames
  BY ChainFacts DEF Held, Owns, FrameOK
<1> QED BY <1>2, <1>3, <1>4, <1>5, <1>6 DEF FreeIds

LEMMA NewFrameOK ==
    ASSUME NEW id \in FrameIds, NEW gen \in Gens \cup {NoGen}, NEW how \in {"call", "iter", "exit"},
           NEW at \in 0..StackSize, current \in FrameIds \cup {NoFrame},
           NEW f, f = NewFrame(id, gen, how, at)
    PROVE  /\ FrameOK(f) /\ f.id = id /\ f.gen = gen /\ f.how = how /\ f.back = current
           /\ f.maker = NoFrame /\ f.base = at /\ f.sp = at
<1>1. <<>> \in Paths /\ <<>> \in Seq([with : BOOLEAN, path : Paths])
  BY EmptySeq DEF Paths
<1>2. /\ f \in Frames /\ f.id = id /\ f.gen = gen /\ f.how = how /\ f.back = current
      /\ f.maker = NoFrame /\ f.base = at /\ f.sp = at /\ f.pushed = 0
      /\ f.path = <<>> /\ f.cleanup = <<>> /\ f.due = 0 /\ ~f.jumped
  BY <1>1 DEF NewFrame, Frames
<1>3. OpenFinally(<<>>) = 0 /\ Handled(<<>>, <<>>)
  <2>1. BodiesOf(<<>>) = {} /\ OpenBlocks(<<>>) = {}
    BY DEF BodiesOf, OpenBlocks
  <2>2. OpenFinally(<<>>) = 0
    BY <2>1, FS_EmptySet DEF OpenFinally
  <2> QED BY <2>1, <2>2 DEF Handled
<1>4. Balanced(f)
  BY <1>2, BoundsAssumption DEF Balanced
<1>5. FrameOK(f)
  BY <1>2, <1>3, <1>4 DEF FrameOK
<1> QED BY <1>2, <1>5

\* Only the links of a frame to others change.
LEMMA LinksOK ==
    ASSUME NEW f, FrameOK(f), NEW g \in Frames, SameSlots(f, g), SameBlocks(f, g)
    PROVE  FrameOK(g)
BY DEF FrameOK, Balanced, SameSlots, SameBlocks

\* The innermost block of a path.
LEMMA LastMarks ==
    ASSUME NEW f, FrameOK(f), f.path # <<>>
    PROVE  /\ Len(f.path) \in Nat \ {0} /\ Last(f.path) = f.path[Len(f.path)]
           /\ Len(f.path) \in BodiesOf(f.path) <=>
                  Last(f.path).region = "body" /\ Last(f.path).kind # "loop"
           /\ Len(f.path) \in OpenBlocks(f.path) <=>
                  HasFinally(Last(f.path).kind) /\ Last(f.path).region \in {"body", "cond", "handler", "orelse"}
<1>1. f.path \in Seq(Blocks) /\ DOMAIN f.path = 1..Len(f.path)
  BY FrameFields DEF FrameOK, Paths
<1>2. Len(f.path) \in Nat \ {0} /\ Last(f.path) = f.path[Len(f.path)]
  BY <1>1, FrontLast
<1>3. Len(f.path) \in DOMAIN f.path
  BY <1>1, <1>2
<1> QED BY <1>2, <1>3 DEF BodiesOf, OpenBlocks

\* What the generator keeps of its frame.
LEMMA GenAfterOK ==
    ASSUME NEW f, FrameOK(f), NEW result
    PROVE  LET r == GenAfter(f, result)
           IN  /\ r \in GenRecords /\ r.state \in {"suspended", "finished"}
               /\ r.state = "suspended" => FrameOK(r.frame) /\ r.frame.gen = f.gen /\ SameOrigin(f, r.frame)
<1> DEFINE h == [f EXCEPT !.back = NoFrame]
<1>1. /\ h \in Frames /\ SameOrigin(f, h) /\ SameSlots(f, h) /\ h.gen = f.gen /\ h.path = f.path
      /\ h.cleanup = f.cleanup /\ h.due = f.due /\ h.jumped = f.jumped /\ h.escaped = f.escaped
  BY DEF FrameOK, Frames, SameOrigin, SameSlots
<1> HIDE DEF h
<1>2. FrameOK(h)
  BY <1>1 DEF FrameOK, Balanced, SameSlots
<1>3. CASE result = Ok
  <2>1. GenAfter(f, result) = [state |-> "suspended", frame |-> h, invalid_return |-> FALSE]
    BY <1>3 DEF GenAfter, h
  <2> QED BY <1>1, <1>2, <2>1 DEF GenRecords
<1>4. CASE result # Ok
  BY <1>4 DEF GenAfter, GenRecords
<1> QED BY <1>3, <1>4

\* The caller that waited goes on where it was.
LEMMA ContinueOK ==
    ASSUME NEW s, NEW cur, Chain(s, cur), s # <<>>, Front(vm) = s, NEW how, Waits(Last(s), how),
           NEW result \in Excs \cup {Ok}, Continue(Last(s), how, result)
    PROVE  /\ Chain(vm', cur) /\ vm' # <<>>
           /\ \A gs : Owns(s, gs) => Owns(vm', gs)
           /\ pending' \in Excs \cup {None}
<1> DEFINE caller == Last(s)
           back == Popped(caller)
<1>1. FrameOK(caller)
  BY ChainFacts
<1>2. FrameOK(back) /\ SameActivation(caller, back) /\ back.path = caller.path
  BY <1>1, PoppedOK
<1> HIDE DEF caller, back
<1>3. ASSUME NEW g, FrameOK(g), SameActivation(back, g), vm' = Append(Front(s), g)
      PROVE  Chain(vm', cur) /\ vm' # <<>> /\ \A gs : Owns(s, gs) => Owns(vm', gs)
  <2>1. SameActivation(Last(s), g)
    BY <1>2, <1>3 DEF SameActivation, caller
  <2> QED BY <1>3, <2>1, ChainTop
<1>4. CASE how = "iter" /\ result = "StopIteration"
  <2> DEFINE g == [back EXCEPT !.path = Front(@)]
  <2>1. vm' = Append(Front(s), g) /\ pending' = None
    BY <1>4 DEF Continue, caller, back
  <2>2. back.path # <<>> /\ Last(back.path).kind = "loop"
    BY <1>2, <1>4 DEF Waits, caller
  <2>3. Len(back.path) \notin BodiesOf(back.path) /\ Len(back.path) \notin OpenBlocks(back.path)
    BY <1>2, <2>2, LastMarks DEF HasFinally
  <2>4. FrameOK(g) /\ SameActivation(back, g)
    BY <1>2, <2>2, <2>3, LeaveBlockOK
  <2> HIDE DEF g
  <2> QED BY <1>3, <2>1, <2>4
<1>5. CASE how = "exit"
  <2>1. /\ pending' = None
        /\ \E region \in {"suppress", "reraise"} :
               vm' = Append(Front(s), [back EXCEPT !.path = In(@, region)])
    BY <1>5 DEF Continue, caller, back
  <2>2. PICK region \in {"suppress", "reraise"} :
               vm' = Append(Front(s), [back EXCEPT !.path = In(@, region)])
    BY <2>1
  <2>3. back.path # <<>> /\ Last(back.path).region = "exitX"
    BY <1>2, <1>5 DEF Waits, caller
  <2>4. Len(back.path) \notin BodiesOf(back.path) /\ Len(back.path) \notin OpenBlocks(back.path)
    BY <1>2, <2>3, LastMarks
  <2> DEFINE g == [back EXCEPT !.path = In(@, region)]
  <2>5. FrameOK(g) /\ SameActivation(back, g)
    <3>1. region \in Regions /\ region # "body" /\ region \notin {"cond", "handler", "orelse"}
      BY DEF Regions
    <3> QED BY <1>2, <2>3, <2>4, <3>1, SameRegionOK
  <2>6. vm' = Append(Front(s), g)
    BY <2>2
  <2> HIDE DEF g
  <2> QED BY <1>3, <2>1, <2>5, <2>6
<1>6. CASE ~(how = "iter" /\ result = "StopIteration") /\ how # "exit"
  <2> DEFINE g == IF result = Ok THEN back ELSE Abandoned(caller)
  <2>1. vm' = Append(Front(s), g) /\ pending' = IF result = Ok THEN None ELSE result
    BY <1>6 DEF Continue, caller, back
  <2>2. FrameOK(Abandoned(caller)) /\ SameActivation(caller, Abandoned(caller))
    BY <1>1, AbandonedOK
  <2>3. FrameOK(g) /\ SameActivation(back, g)
    <3>1. CASE result = Ok
      BY <1>2, <3>1 DEF SameActivation
    <3>2. CASE result # Ok
      <4>1. g = Abandoned(caller)
        BY <3>2
      <4> HIDE DEF g
      <4> QED BY <1>2, <2>2, <4>1 DEF SameActivation
    <3> QED BY <3>1, <3>2
  <2> HIDE DEF g
  <2> QED BY <1>3, <2>1, <2>3
<1> QED BY <1>4, <1>5, <1>6

\* A frame is left, with a result or an exception.
LEMMA LeaveOK ==
    ASSUME Chain(vm, current), Owns(vm, gens), vm # <<>>, NEW f, FrameOK(f), SameActivation(Top, f),
           NEW result \in Excs \cup {Ok}, Leave(f, result),
           pending \in Excs \cup {None}, abort \in Aborts
    PROVE  /\ Chain(vm', current') /\ Owns(vm', gens') /\ abort' \in Aborts
           /\ pending' \in Excs \cup {None} /\ (pending' # None => vm' # <<>>)
<1> DEFINE failed == Len(vm) > 1 /\ (f.sp < vm[Len(vm) - 1].sp \/ f.base < vm[Len(vm) - 1].base)
<1>1. CASE failed
  <2>1. /\ abort' = "pop" /\ vm' = vm /\ current' = current /\ gens' = gens /\ pending' = pending
    BY <1>1 DEF Leave
  <2> QED BY <2>1 DEF Aborts
<1>2. SUFFICES ASSUME ~failed
               PROVE  /\ Chain(vm', current') /\ Owns(vm', gens') /\ abort' \in Aborts
                      /\ pending' \in Excs \cup {None} /\ (pending' # None => vm' # <<>>)
  BY <1>1
<1> DEFINE passed == IF f.gen = NoGen THEN result ELSE SendResult(f.gen, result)
           s == Front(vm)
<1>3. passed \in Excs \cup {Ok}
  BY DEF SendResult, Excs
<1>4. vm \in Seq(Frames) /\ f.gen \in Gens \cup {NoGen} /\ Len(vm) \in Nat
  BY ChainFacts DEF FrameOK, Frames
<1>5. /\ current' = (IF Len(vm) = 1 THEN current ELSE f.back) /\ abort' = abort
      /\ gens' = IF f.gen = NoGen THEN gens ELSE [gens EXCEPT ![f.gen] = GenAfter(f, passed)]
      /\ Len(vm) = 1 => vm' = <<>> /\ pending' = None
      /\ Len(vm) # 1 => Continue(vm[Len(vm) - 1], f.how, passed)
  BY <1>2 DEF Leave, ExitTo
<1> HIDE DEF passed, failed
<1>6. Chain(s, current')
  BY <1>5, ChainPop DEF SameActivation, Top
<1>7. Owns(s, gens')
  <2>1. CASE f.gen = NoGen
    BY <1>4, <1>5, <2>1, OwnsPop DEF SameActivation, Top
  <2>2. CASE f.gen # NoGen
    <3> DEFINE r == GenAfter(f, passed)
    <3>1. /\ r \in GenRecords /\ r.state \in {"suspended", "finished"}
          /\ r.state = "suspended" => FrameOK(r.frame) /\ r.frame.gen = f.gen /\ SameOrigin(f, r.frame)
      BY GenAfterOK
    <3> HIDE DEF r
    <3>2. /\ f.gen \in Gens /\ Last(vm).gen = f.gen
          /\ r.state = "suspended" => SameOrigin(Last(vm), r.frame)
      BY <1>4, <2>2, <3>1 DEF SameActivation, SameOrigin, Top
    <3>3. \A i, j \in DOMAIN vm : i # j => vm[i].id # vm[j].id
      BY DEF Chain
    <3>4. Owns(s, [gens EXCEPT ![f.gen] = r])
      BY <1>4, <3>1, <3>2, <3>3, OwnsLeave
    <3> QED BY <1>5, <2>2, <3>4 DEF r
  <2> QED BY <2>1, <2>2
<1>8. CASE Len(vm) = 1
  BY <1>5, <1>6, <1>7, <1>8, ChainPop
<1>9. CASE Len(vm) # 1
  <2>1. s # <<>> /\ Last(s) = vm[Len(vm) - 1] /\ Waits(vm[Len(vm) - 1], Last(vm).how)
    BY <1>9, ChainPop
  <2>2. Waits(Last(s), f.how) /\ Continue(Last(s), f.how, passed)
    BY <1>5, <1>9, <2>1 DEF SameActivation, Top
  <2>3. /\ Chain(vm', current') /\ vm' # <<>> /\ Owns(vm', gens')
        /\ pending' \in Excs \cup {None}
    BY <1>3, <1>6, <1>7, <2>1, <2>2, ContinueOK
  <2> QED BY <1>5, <2>3
<1> QED BY <1>8, <1>9

-----------------------------------------------------------------------------
(* The parts actions share *)

\* The top frame moves on.
LEMMA TopMoves ==
    ASSUME IInv, vm # <<>>, NEW f, FrameOK(f), SameActivation(Top, f),
           vm' = WithTop(f), current' = current, gens' = gens
    PROVE  Chain(vm', current') /\ Owns(vm', gens') /\ vm' # <<>>
<1>1. Chain(vm, current) /\ Owns(vm, gens)
  BY DEF IInv
<1>2. /\ Chain(Append(Front(vm), f), current) /\ Append(Front(vm), f) # <<>>
      /\ \A gs : Owns(vm, gs) => Owns(Append(Front(vm), f), gs)
  BY <1>1, ChainTop DEF Top
<1> QED BY <1>1, <1>2 DEF WithTop

LEMMA TopFacts ==
    ASSUME IInv, vm # <<>>
    PROVE  /\ Chain(vm, current) /\ Owns(vm, gens) /\ vm \in Seq(Frames)
           /\ FrameOK(Top) /\ Top \in Frames /\ current = Top.id
           /\ current \in FrameIds /\ Top.sp \in Nat /\ Top.sp <= StackSize
<1>1. Chain(vm, current) /\ Owns(vm, gens)
  BY DEF IInv
<1>2. /\ vm \in Seq(Frames) /\ FrameOK(Top) /\ Top \in Frames /\ current = Top.id
  BY <1>1, ChainFacts DEF Top
<1>3. Top.id \in FrameIds /\ Top.sp \in 0..StackSize
  BY <1>2, FrameFields
<1> QED BY <1>1, <1>2, <1>3, BoundsAssumption DEF FrameOK

LEMMA ClearedOK ==
    ASSUME NEW items \in Items, NEW id
    PROVE  Cleared(items, id) \in Items
<1> DEFINE keep == {i \in DOMAIN items : items[i].frame # id}
           k == IF keep = {} THEN 0 ELSE CHOOSE i \in keep : \A j \in keep : j <= i
<1>1. Len(items) \in Nat /\ DOMAIN items = 1..Len(items)
  BY LenProperties DEF Items
<1>2. k \in 0..Len(items)
  <2>1. CASE keep = {}
    BY <1>1, <2>1
  <2>2. CASE keep # {}
    <3>1. keep \subseteq 1..Len(items)
      BY <1>1
    <3>2. \E i \in keep : \A j \in keep : j <= i
      <4> HIDE DEF keep
      <4> QED BY <1>1, <2>2, <3>1, Largest
    <3>3. k \in keep
      BY <2>2, <3>2
    <3> QED BY <1>1, <3>1, <3>3
  <2> QED BY <2>1, <2>2
<1> HIDE DEF k
<1>3. SubSeq(items, 1, k) \in Items
  BY <1>2, Prefix DEF Items
<1> QED BY <1>3 DEF Cleared, k

LEMMA ReRaiseOK ==
    ASSUME exc \in Items, pending = None, abort \in Aborts, NEW blame \in Aborts, ReRaise(blame)
    PROVE  exc' \in Items /\ pending' \in Excs \cup {None} /\ abort' \in Aborts
<1>1. CASE exc = <<>>
  BY <1>1 DEF ReRaise
<1>2. CASE exc # <<>>
  <2>1. Last(exc) \in [exc : Excs, frame : FrameIds] /\ Front(exc) \in Items
    BY <1>2, FrontLast DEF Items
  <2> QED BY <1>2, <2>1 DEF ReRaise
<1> QED BY <1>1, <1>2

\* push_frame puts a frame on the stack, or the process ends at an assertion.  The caller c
\* has pushed k values.
LEMMA PushOK ==
    ASSUME IInv, vm # <<>>, NEW c, FrameOK(c), SameActivation(Top, c), NEW k \in Nat,
           NEW f, f.sp \in Nat, f.sp < StackSize => FrameOK(f),
           f.back = current, Above(Pushed(c, k), f), Waits(c, f.how),
           \A i \in DOMAIN vm : vm[i].id # f.id, PushFrame(Pushed(c, k), f)
    PROVE  /\ abort' \in Aborts
           /\ \/ vm' = vm /\ current' = current /\ abort' \in {"beyond", "resume", "overflow"}
              \/ \E s \in Seq(Frames) :
                   /\ vm' = Append(s, Popped(f)) /\ abort' = abort /\ f.sp < StackSize
                   /\ Held(s, gens) \subseteq Held(vm, gens) \cup {Pushed(c, k)}
                   /\ Owns(s, gens)
                   /\ FrameOK(Popped(f)) /\ SameActivation(f, Popped(f))
                   /\ Chain(vm', current') /\ vm' # <<>>
<1> DEFINE caller == Pushed(c, k)
           s == WithTop(caller)
<1>1. /\ Chain(vm, current) /\ Owns(vm, gens) /\ vm \in Seq(Frames)
      /\ abort \in Aborts /\ StackSize \in Nat
      /\ c.sp \in Nat /\ c \in Frames
  BY TopFacts, FrameFields, BoundsAssumption DEF IInv, RestOK, FrameOK
<1>2. caller.sp = c.sp + k
  BY <1>1 DEF Pushed, Frames
<1>3. CASE caller.sp > StackSize \/ f.sp < caller.sp \/ f.base < caller.base \/ f.sp >= StackSize
  <2> HIDE DEF caller
  <2>1. PushFrame(caller, f)
    BY DEF caller
  <2> QED BY <1>3, <2>1 DEF PushFrame, Aborts
<1>4. CASE ~(caller.sp > StackSize \/ f.sp < caller.sp \/ f.base < caller.base \/ f.sp >= StackSize)
  <2>1. vm' = Append(s, Popped(f)) /\ current' = f.id /\ abort' = abort
    <3> HIDE DEF caller
    <3>1. PushFrame(caller, f)
      BY DEF caller
    <3> QED BY <1>4, <3>1 DEF PushFrame
  <2>2. f.sp < StackSize /\ c.sp + k <= StackSize
    BY <1>1, <1>2, <1>4
  <2>3. FrameOK(caller) /\ SameActivation(c, caller) /\ caller.path = c.path
    BY <2>2, PushedOK
  <2>4. FrameOK(Popped(f)) /\ SameActivation(f, Popped(f))
    BY <2>2, PoppedOK
  <2> DEFINE g == Popped(f)
  <2> HIDE DEF caller, g
  <2>5. SameActivation(Top, caller)
    BY <2>3 DEF SameActivation
  <2>6. /\ Chain(s, current) /\ Last(s) = caller /\ s # <<>> /\ Owns(s, gens)
    BY <1>1, <2>3, <2>5, ChainTop DEF WithTop, Top
  <2>7. /\ s \in Seq(Frames) /\ DOMAIN s = DOMAIN vm
        /\ \A i \in DOMAIN s : s[i] = vm[i] \/ (s[i] = caller /\ vm[i] = Top)
    <3>1. /\ caller \in Frames /\ Last(vm) = vm[Len(vm)]
          /\ DOMAIN vm = 1..Len(vm) /\ Len(vm) \in Nat \ {0}
      BY <1>1, <2>3, ChainFacts DEF FrameOK
    <3>2. LET t == Append(Front(vm), caller)
          IN  /\ t \in Seq(Frames) /\ t # <<>>
              /\ Len(t) = Len(vm) /\ DOMAIN t = 1..Len(vm)
              /\ \A i \in 1..(Len(vm) - 1) : t[i] = vm[i]
              /\ t[Len(vm)] = caller /\ Last(t) = caller
      <4>1. vm \in Seq(Frames) /\ caller \in Frames /\ vm # <<>>
        BY <1>1, <3>1
      <4> QED BY ONLY <4>1, ReplaceLast
    <3>3. \A n \in Nat \ {0} : \A i \in 1..n : i \in 1..(n - 1) \/ i = n
      OBVIOUS
    <3>4. /\ s \in Seq(Frames) /\ DOMAIN s = 1..Len(vm) /\ s[Len(vm)] = caller
          /\ \A i \in 1..(Len(vm) - 1) : s[i] = vm[i]
      BY <3>2 DEF WithTop
    <3> HIDE DEF s
    <3> QED BY <3>1, <3>3, <3>4 DEF Top
  <2>8. Held(s, gens) \subseteq Held(vm, gens) \cup {caller}
    <3> HIDE DEF s
    <3> QED BY <2>7 DEF Held
  <2>9. /\ g.id = f.id /\ g.back = current /\ g.how = f.how /\ g.gen = f.gen /\ g.base = f.base
    BY <2>4 DEF SameActivation, g
  <2>10. Above(Last(s), g) /\ Waits(Last(s), g.how)
    BY <2>3, <2>6, <2>9 DEF Above, Waits, caller
  <2>11. \A i \in DOMAIN s : s[i].id # g.id
    <3> HIDE DEF s
    <3> QED BY <2>5, <2>7, <2>9 DEF SameActivation
  <2>12. FrameOK(g) /\ g \in Frames
    BY <2>4 DEF g, FrameOK
  <2> HIDE DEF s
  <2>13. Chain(Append(s, g), g.id)
    BY <2>6, <2>9, <2>10, <2>11, <2>12, ChainPush
  <2>14. Append(s, g) # <<>>
    BY <2>7, <2>12, AppendProperties
  <2>15. vm' = Append(s, g) /\ current' = g.id
    BY <2>1, <2>9 DEF g
  <2>16. Chain(vm', current') /\ vm' # <<>>
    BY <2>13, <2>14, <2>15
  <2>17. Held(s, gens) \subseteq Held(vm, gens) \cup {Pushed(c, k)}
    BY <2>8 DEF caller
  <2> QED BY <1>1, <2>1, <2>2, <2>4, <2>6, <2>7, <2>16, <2>17
<1> QED BY <1>3, <1>4

\* A call of a Python function by the caller c, with k values pushed for it.
LEMMA CallOK ==
    ASSUME IInv, Running, NEW c, FrameOK(c), SameActivation(Top, c), NEW k \in Pushes,
           NEW n \in LocalCounts, NEW how \in {"call", "exit"}, Waits(c, how),
           Call(Pushed(c, k), n, how), entered' = entered
    PROVE  IInv'
<1> DEFINE caller == Pushed(c, k)
           at == caller.sp + n
           f == NewFrame(FreshId, NoGen, how, at)
<1>1. vm # <<>> /\ FreeIds # {}
  BY DEF Running, Call
<1>2. /\ Chain(vm, current) /\ Owns(vm, gens) /\ current \in FrameIds
      /\ vm \in Seq(Frames)
  BY <1>1, TopFacts
<1>3. /\ k \in Nat /\ n \in Nat /\ c.sp \in Nat /\ c \in Frames /\ StackSize \in Nat
      /\ c.maker \in FrameIds \cup {NoFrame}
  BY FrameFields, BoundsAssumption DEF FrameOK, Frames
<1>4. caller.sp = c.sp + k /\ caller.maker = c.maker
  BY <1>3 DEF Pushed, Frames
<1>5. at \in Nat /\ caller.sp <= at
  BY <1>3, <1>4
<1>6. /\ FreshId \in FrameIds /\ \A i \in DOMAIN vm : vm[i].id # FreshId
      /\ \A g \in Gens : gens[g].state = "suspended" => gens[g].frame.id # FreshId
      /\ \A d \in Held(vm, gens) : d.maker # FreshId /\ d \in Frames
  BY <1>1, <1>2, Fresh
<1>7. PushFrame(caller, f) /\ exc' = exc /\ gens' = gens /\ pending' = pending
  BY DEF Call
<1> HIDE DEF at
<1>8. /\ f.id = FreshId /\ f.gen = NoGen /\ f.how = how /\ f.back = current /\ f.sp = at
      /\ f.base = at /\ f.maker = NoFrame
  BY DEF NewFrame
<1>9. ASSUME f.sp < StackSize
      PROVE  FrameOK(f)
  <2>1. /\ NoGen \in Gens \cup {NoGen} /\ how \in {"call", "iter", "exit"}
        /\ current \in FrameIds \cup {NoFrame} /\ at \in 0..StackSize
    BY <1>2, <1>3, <1>5, <1>8, <1>9
  <2> QED BY <1>6, <2>1, NewFrameOK
<1>10. Above(caller, f) /\ f.sp \in Nat /\ Waits(c, f.how) /\ \A i \in DOMAIN vm : vm[i].id # f.id
  BY <1>5, <1>6, <1>8 DEF Above
<1> HIDE DEF f
<1>11. /\ abort' \in Aborts
       /\ \/ vm' = vm /\ current' = current /\ abort' \in {"beyond", "resume", "overflow"}
          \/ \E s \in Seq(Frames) :
               /\ vm' = Append(s, Popped(f)) /\ abort' = abort /\ f.sp < StackSize
               /\ Held(s, gens) \subseteq Held(vm, gens) \cup {caller}
               /\ Owns(s, gens)
               /\ FrameOK(Popped(f)) /\ SameActivation(f, Popped(f))
               /\ Chain(vm', current') /\ vm' # <<>>
  BY <1>1, <1>3, <1>7, <1>8, <1>9, <1>10, PushOK
<1>12. Chain(vm', current') /\ Owns(vm', gens') /\ vm' # <<>>
  <2>1. CASE vm' = vm /\ current' = current
    BY <1>1, <1>2, <1>7, <2>1
  <2>2. ASSUME NEW s \in Seq(Frames),
               vm' = Append(s, Popped(f)), f.sp < StackSize,
               Held(s, gens) \subseteq Held(vm, gens) \cup {caller}, Owns(s, gens),
               FrameOK(Popped(f)), SameActivation(f, Popped(f)),
               Chain(vm', current'), vm' # <<>>
        PROVE  Owns(vm', gens')
    <3> DEFINE g == Popped(f)
    <3>1. g \in Frames /\ g.gen = NoGen /\ g.maker = NoFrame /\ g.id = FreshId
      BY <1>8, <2>2 DEF FrameOK, SameActivation
    <3> HIDE DEF g
    <3>2. \A d \in Held(s, gens) : d \in Frames
      BY <2>2, LenProperties DEF Held, Owns, FrameOK
    <3>3. Top \in Held(vm, gens) /\ c.maker = Top.maker
      BY <1>1, <1>2, ChainFacts DEF Held, Top, SameActivation
    <3>4. \A d \in Held(s, gens) : d.maker # g.id /\ d \in Frames
      BY <1>4, <1>6, <2>2, <3>1, <3>2, <3>3
    <3>5. Owns(Append(s, g), gens)
      BY <1>6, <2>2, <3>1, <3>4, OwnsPush
    <3> QED BY <1>7, <2>2, <3>5 DEF g
  <2> QED BY <1>11, <2>1, <2>2
<1>13. RestOK'
  BY <1>7, <1>11, <1>12 DEF IInv, RestOK, Items
<1> QED BY <1>12, <1>13 DEF IInv

\* An instruction fails: what it pushed stays.
LEMMA FailOK ==
    ASSUME IInv, Running, NEW c, FrameOK(c), SameActivation(Top, c), NEW k \in Nat, NEW e \in Excs,
           Fail(c, k, e), current' = current, gens' = gens, exc' = exc, entered' = entered
    PROVE  IInv'
<1>1. vm # <<>> /\ pending = None /\ abort = None
  BY DEF Running
<1>2. k \in Nat /\ c.sp \in Nat /\ StackSize \in Nat
  BY FrameFields, BoundsAssumption DEF FrameOK
<1>3. CASE c.sp + k > StackSize
  <2>1. abort' = "beyond" /\ vm' = vm /\ pending' = pending
    BY <1>3 DEF Fail
  <2> QED BY <1>1, <2>1 DEF IInv, RestOK, Aborts
<1>4. CASE ~(c.sp + k > StackSize)
  <2> DEFINE p == Pushed(c, k)
             g == Abandoned(p)
  <2>1. vm' = WithTop(g) /\ pending' = e /\ abort' = abort
    BY <1>4 DEF Fail
  <2>2. c.sp + k <= StackSize
    BY <1>2, <1>4
  <2>3. FrameOK(p) /\ SameActivation(c, p)
    BY <1>2, <2>2, PushedOK
  <2> HIDE DEF p
  <2>4. FrameOK(g) /\ SameActivation(p, g)
    BY <2>3, AbandonedOK
  <2> HIDE DEF g
  <2>5. SameActivation(Top, g)
    BY <2>3, <2>4 DEF SameActivation
  <2>6. Chain(vm', current') /\ Owns(vm', gens') /\ vm' # <<>>
    BY <1>1, <2>1, <2>4, <2>5, TopMoves
  <2> QED BY <2>1, <2>6 DEF IInv, RestOK
<1> QED BY <1>3, <1>4

\* GeneratorInterface::send, whatever the state of the generator.
LEMMA SendOK ==
    ASSUME IInv, Running, NEW g \in Gens, NEW how \in {"call", "iter"}, NEW k \in Nat,
           Waits(Top, how), Send(g, how, k), entered' = entered
    PROVE  IInv'
<1>1. vm # <<>> /\ pending = None /\ abort = None
  BY DEF Running
<1>2. /\ Chain(vm, current) /\ Owns(vm, gens) /\ current \in FrameIds /\ vm \in Seq(Frames)
      /\ FrameOK(Top) /\ SameActivation(Top, Top)
  BY <1>1, TopFacts DEF SameActivation
<1>3. CASE gens[g].state = "running" \/ (gens[g].state = "finished" /\ how = "call")
  <2>1. PICK e \in Excs : Fail(Top, k, e)
    BY <1>3 DEF Send, MaySend, Excs
  <2>2. current' = current /\ exc' = exc /\ gens' = gens
    BY <1>3 DEF Send, MaySend
  <2> QED BY <1>2, <2>1, <2>2, FailOK
<1>4. CASE gens[g].state = "finished" /\ how = "iter"
  <2> DEFINE f == [Top EXCEPT !.path = Front(@)]
  <2>1. /\ vm' = WithTop(f) /\ pending' = None /\ current' = current /\ exc' = exc
        /\ gens' = gens /\ abort' = abort
    BY <1>4 DEF Send, MaySend
  <2>2. Top.path # <<>> /\ Last(Top.path).kind = "loop"
    BY <1>4 DEF Waits
  <2>3. Len(Top.path) \notin BodiesOf(Top.path) /\ Len(Top.path) \notin OpenBlocks(Top.path)
    BY <1>2, <2>2, LastMarks DEF HasFinally
  <2>4. FrameOK(f) /\ SameActivation(Top, f)
    BY <1>2, <2>2, <2>3, LeaveBlockOK
  <2> HIDE DEF f
  <2>5. Chain(vm', current') /\ Owns(vm', gens') /\ vm' # <<>>
    BY <1>1, <2>1, <2>4, TopMoves
  <2> QED BY <2>1, <2>5 DEF IInv, RestOK
<1>5. CASE gens[g].state = "suspended"
  <2> DEFINE e == gens[g].frame
             f == [e EXCEPT !.how = how, !.back = current]
             caller == Pushed(Top, k)
  <2>1. /\ PushFrame(caller, f) /\ exc' = exc /\ pending' = pending
        /\ gens' = IF abort' = None THEN [gens EXCEPT ![g].state = "running"] ELSE gens
    BY <1>5 DEF Send
  <2>2. FrameOK(e) /\ e.gen = g /\ \A i \in DOMAIN vm : vm[i].id # e.id
    BY <1>2, <1>5 DEF Owns
  <2> HIDE DEF e
  <2>3. /\ f \in Frames /\ SameSlots(e, f) /\ SameBlocks(e, f) /\ SameOrigin(e, f)
        /\ f.how = how /\ f.back = current /\ f.gen = e.gen
    BY <1>2, <2>2 DEF FrameOK, Frames, SameSlots, SameBlocks, SameOrigin
  <2> HIDE DEF f
  <2>4. FrameOK(f) /\ f.sp \in Nat
    BY <2>2, <2>3, LinksOK, FrameFields
  <2>5. Above(caller, f) /\ Waits(Top, f.how) /\ \A i \in DOMAIN vm : vm[i].id # f.id
    BY <2>2, <2>3, GensAssumption DEF Above, SameOrigin
  <2>6. /\ abort' \in Aborts
        /\ \/ vm' = vm /\ current' = current /\ abort' \in {"beyond", "resume", "overflow"}
           \/ \E s \in Seq(Frames) :
                /\ vm' = Append(s, Popped(f)) /\ abort' = abort /\ f.sp < StackSize
                /\ Held(s, gens) \subseteq Held(vm, gens) \cup {caller}
                /\ Owns(s, gens)
                /\ FrameOK(Popped(f)) /\ SameActivation(f, Popped(f))
                /\ Chain(vm', current') /\ vm' # <<>>
    BY <1>1, <1>2, <2>1, <2>3, <2>4, <2>5, PushOK
  <2>7. Chain(vm', current') /\ Owns(vm', gens') /\ vm' # <<>>
    <3>1. CASE vm' = vm /\ current' = current /\ abort' \in {"beyond", "resume", "overflow"}
      BY <1>1, <1>2, <2>1, <3>1 DEF None
    <3>2. ASSUME NEW s \in Seq(Frames),
                 vm' = Append(s, Popped(f)), abort' = abort, Owns(s, gens),
                 FrameOK(Popped(f)), SameActivation(f, Popped(f)),
                 Chain(vm', current'), vm' # <<>>
          PROVE  Owns(vm', gens')
      <4> DEFINE h == Popped(f)
      <4>1. h \in Frames /\ h.gen = g /\ SameOrigin(gens[g].frame, h)
        BY <2>2, <2>3, <3>2 DEF FrameOK, SameActivation, SameOrigin, e
      <4> HIDE DEF h
      <4>2. Owns(Append(s, h), [gens EXCEPT ![g].state = "running"])
        BY <1>5, <3>2, <4>1, OwnsResume
      <4> QED BY <1>1, <2>1, <3>2, <4>2 DEF h
    <3> QED BY <2>6, <3>1, <3>2
  <2> QED BY <2>1, <2>6, <2>7 DEF IInv, RestOK
<1>6. gens[g].state \in {"running", "finished", "suspended"}
  BY DEF Send, MaySend
<1> QED BY <1>3, <1>4, <1>5, <1>6

\* A return: the next copy of a finally block, StopIteration in a generator, or the way out.
LEMMA ReturnFromOK ==
    ASSUME IInv, Running, NEW f, FrameOK(f), SameActivation(Top, f), exc' \in Items,
           ReturnFrom(f), entered' = entered
    PROVE  IInv'
<1> DEFINE owed == Owed(f.path)
           next == CHOOSE i \in owed : \A j \in owed : j <= i
<1>1. vm # <<>> /\ pending = None /\ abort = None
  BY DEF Running
<1>2. Chain(vm, current) /\ Owns(vm, gens)
  BY <1>1, TopFacts
<1>3. CASE owed # {}
  <2>1. Len(f.path) \in Nat /\ owed \subseteq 1..Len(f.path) /\ DOMAIN f.path = 1..Len(f.path)
    BY FrameFields DEF FrameOK, Owed
  <2>2. next \in DOMAIN f.path
    <3> HIDE DEF owed
    <3>1. \E i \in owed : \A j \in owed : j <= i
      BY <1>3, <2>1, Largest
    <3>2. next \in owed
      BY <3>1
    <3> QED BY <2>1, <3>2
  <2> DEFINE kind == f.path[next].kind
             region == IF kind = "with" THEN "exitR" ELSE "finallyR"
             h == [f EXCEPT !.path = In(SubSeq(@, 1, next), region),
                            !.due = IF kind = "with" THEN @ ELSE @ - 1, !.jumped = TRUE]
  <2>3. vm' = WithTop(h) /\ current' = current /\ gens' = gens /\ pending' = pending /\ abort' = abort
    BY <1>3 DEF ReturnFrom
  <2> HIDE DEF next, kind
  <2>4. region \in {"exitR", "finallyR"}
    OBVIOUS
  <2> HIDE DEF region
  <2>5. FrameOK(h) /\ SameActivation(f, h)
    BY <2>2, <2>4, ReturnCopyOK
  <2>6. SameActivation(Top, h)
    BY <2>5 DEF SameActivation
  <2> HIDE DEF h
  <2>7. Chain(vm', current') /\ Owns(vm', gens') /\ vm' # <<>>
    BY <1>1, <2>3, <2>5, <2>6, TopMoves
  <2> QED BY <1>1, <2>3, <2>7 DEF IInv, RestOK, Items
<1>4. CASE owed = {} /\ f.gen # NoGen
  <2>1. /\ vm' = WithTop(f) /\ gens' = [gens EXCEPT ![f.gen].invalid_return = TRUE]
        /\ pending' = "StopIteration" /\ current' = current /\ abort' = abort
    BY <1>4 DEF ReturnFrom
  <2>2. f.gen \in Gens
    BY <1>4 DEF FrameOK, Frames
  <2>3. /\ Chain(Append(Front(vm), f), current) /\ Append(Front(vm), f) # <<>>
        /\ \A gs : Owns(vm, gs) => Owns(Append(Front(vm), f), gs)
    BY <1>1, <1>2, ChainTop DEF Top
  <2>4. Owns(vm, [gens EXCEPT ![f.gen].invalid_return = TRUE])
    BY <1>2, <2>2, OwnsMark
  <2>5. Chain(vm', current') /\ Owns(vm', gens') /\ vm' # <<>>
    BY <2>1, <2>3, <2>4 DEF WithTop
  <2> QED BY <2>1, <2>5 DEF IInv, RestOK, Items, Excs
<1>5. CASE owed = {} /\ f.gen = NoGen /\ MayReturn(f, exc')
  <2>1. Leave(f, Ok)
    BY <1>5 DEF ReturnFrom
  <2>2. /\ Chain(vm', current') /\ Owns(vm', gens') /\ abort' \in Aborts
        /\ pending' \in Excs \cup {None} /\ (pending' # None => vm' # <<>>)
    BY <1>1, <1>2, <2>1, LeaveOK DEF Aborts
  <2> QED BY <2>2 DEF IInv, RestOK
<1>6. CASE owed = {} /\ f.gen = NoGen /\ ~MayReturn(f, exc')
  <2>1. abort' = "return" /\ vm' = vm /\ current' = current /\ gens' = gens /\ pending' = pending
    BY <1>6 DEF ReturnFrom
  <2> QED BY <1>1, <2>1 DEF IInv, RestOK, Aborts
<1> QED BY <1>3, <1>4, <1>5, <1>6

-----------------------------------------------------------------------------
(* The actions.  Calls and generators first. *)

LEMMA AtFacts ==
    ASSUME IInv, Running
    PROVE  /\ vm # <<>> /\ pending = None /\ abort = None
           /\ FrameOK(Top) /\ Top \in Frames /\ Chain(vm, current) /\ Owns(vm, gens)
           /\ exc \in Items /\ current \in FrameIds /\ entered \in 0..MaxBlocks
<1>1. vm # <<>> /\ pending = None /\ abort = None
  BY DEF Running
<1>2. exc \in Items /\ entered \in 0..MaxBlocks
  BY DEF IInv, RestOK, Items
<1> QED BY <1>1, <1>2, TopFacts

\* An action that moves the top frame and leaves the chain and the generators alone.
LEMMA MoveInv ==
    ASSUME IInv, Running, NEW f, FrameOK(f), SameActivation(Top, f), vm' = WithTop(f),
           current' = current, gens' = gens, exc' \in Items, pending' \in Excs \cup {None},
           abort' \in Aborts, entered' \in 0..MaxBlocks
    PROVE  IInv'
<1>1. Chain(vm', current') /\ Owns(vm', gens') /\ vm' # <<>>
  BY AtFacts, TopMoves
<1> QED BY <1>1 DEF IInv, RestOK, Items, Aborts

\* An action that leaves the frames and the generators alone.
LEMMA StayInv ==
    ASSUME IInv, Running, vm' = vm, current' = current, gens' = gens, exc' \in Items,
           pending' \in Excs \cup {None}, abort' \in Aborts, entered' \in 0..MaxBlocks
    PROVE  IInv'
<1>1. Chain(vm', current') /\ Owns(vm', gens') /\ vm' # <<>>
  BY AtFacts
<1> QED BY <1>1 DEF IInv, RestOK, Items, Aborts

LEMMA CallsPreserve ==
    ASSUME IInv, FunctionCall \/ MakeGenerator \/ SendToGenerator \/ ForIter \/ YieldValue
    PROVE  IInv'
<1>1. Running
  BY DEF FunctionCall, MakeGenerator, SendToGenerator, ForIter, YieldValue, AtStatement
<1>2. /\ vm # <<>> /\ pending = None /\ abort = None
      /\ FrameOK(Top) /\ Top \in Frames /\ Chain(vm, current) /\ Owns(vm, gens)
      /\ exc \in Items /\ current \in FrameIds /\ entered \in 0..MaxBlocks
  BY <1>1, AtFacts
<1>3. SameActivation(Top, Top) /\ Pushes \subseteq Nat
  BY BoundsAssumption DEF SameActivation
<1>4. CASE FunctionCall
  <2>1. PICK k \in Pushes, n \in LocalCounts : Call(Pushed(Top, k), n, "call")
    BY <1>4 DEF FunctionCall
  <2>2. Waits(Top, "call") /\ entered' = entered
    BY <1>4 DEF Waits, FunctionCall
  <2> QED BY <1>1, <1>2, <1>3, <2>1, <2>2, CallOK
<1>5. CASE MakeGenerator
  <2>1. PICK g \in Gens, k \in Pushes, n \in GenLocals :
          /\ gens[g].state = "none"
          /\ IF Top.sp + k > StackSize THEN abort' = "beyond" /\ gens' = gens
             ELSE IF Top.sp + k + n >= StackSize THEN abort' = "overflow" /\ gens' = gens
             ELSE /\ gens' = [gens EXCEPT ![g] = [state |-> "suspended", invalid_return |-> FALSE,
                                frame |-> [NewFrame(FreshId, g, "call", Top.sp + k + n)
                                              EXCEPT !.back = NoFrame, !.maker = Top.id]]]
                  /\ abort' = abort
    BY <1>5 DEF MakeGenerator
  <2>2. /\ FreeIds # {} /\ vm' = vm /\ current' = current /\ exc' = exc
        /\ pending' = pending /\ entered' = entered
    BY <1>5 DEF MakeGenerator
  <2> DEFINE at == Top.sp + k + n
             e == NewFrame(FreshId, g, "call", at)
             h == [e EXCEPT !.back = NoFrame, !.maker = Top.id]
             r == [state |-> "suspended", invalid_return |-> FALSE, frame |-> h]
  <2>3. /\ at \in Nat /\ StackSize \in Nat /\ Top.base \in Nat /\ Top.base <= at
        /\ Top.id \in FrameIds
    <3>1. /\ Top.sp \in Nat /\ Top.base \in Nat /\ Top.pushed \in Nat /\ Balanced(Top)
          /\ k \in Nat /\ n \in Nat /\ StackSize \in Nat /\ Top.id \in FrameIds
      BY <1>2, FrameFields, BoundsAssumption DEF FrameOK
    <3> QED BY <3>1 DEF Balanced
  <2>4. CASE Top.sp + k > StackSize \/ at >= StackSize
    <3>1. abort' \in {"beyond", "overflow"} /\ gens' = gens
      BY <2>1, <2>4
    <3> QED BY <1>1, <1>2, <2>2, <3>1, StayInv DEF Aborts
  <2>5. CASE ~(Top.sp + k > StackSize \/ at >= StackSize)
    <3>1. gens' = [gens EXCEPT ![g] = r] /\ abort' = abort
      BY <2>1, <2>5
    <3>2. /\ FreshId \in FrameIds /\ \A i \in DOMAIN vm : vm[i].id # FreshId
          /\ \A j \in Gens : gens[j].state = "suspended" => gens[j].frame.id # FreshId
          /\ \A d \in Held(vm, gens) : d.maker # FreshId /\ d \in Frames
      BY <1>2, <2>2, Fresh
    <3>3. FrameOK(e) /\ e.id = FreshId /\ e.gen = g /\ e.base = at
      <4>1. /\ at \in 0..StackSize /\ "call" \in {"call", "iter", "exit"} /\ g \in Gens \cup {NoGen}
            /\ current \in FrameIds \cup {NoFrame}
        BY <1>2, <2>3, <2>5
      <4> HIDE DEF at
      <4> QED BY <3>2, <4>1, NewFrameOK
    <3> HIDE DEF at, e
    <3>4. /\ h \in Frames /\ SameSlots(e, h) /\ SameBlocks(e, h)
          /\ h.id = FreshId /\ h.gen = g /\ h.base = at /\ h.maker = Top.id
      BY <2>3, <3>3 DEF FrameOK, Frames, SameSlots, SameBlocks
    <3> HIDE DEF h
    <3>5. FrameOK(h)
      BY <3>3, <3>4, LinksOK
    <3>6. r \in GenRecords /\ r.state = "suspended" /\ r.frame = h
      BY <3>4 DEF GenRecords
    <3> HIDE DEF r
    <3>7. vm \in Seq(Frames)
      BY <1>2, TopFacts
    <3>8. Top.id # FreshId /\ \A d \in Held(vm, gens) : d.id = Top.id => d.base = Top.base
      <4>1. Top = vm[Len(vm)] /\ Len(vm) \in DOMAIN vm
        BY <1>2, ChainFacts DEF Top
      <4>2. \A i \in DOMAIN vm : vm[i].id = Top.id => vm[i] = Top
        BY <1>2, <4>1 DEF Chain
      <4>3. \A j \in Gens : gens[j].state = "suspended" => gens[j].frame.id # Top.id
        BY <1>2, <4>1 DEF Owns
      <4> QED BY <3>2, <4>1, <4>2, <4>3 DEF Held
    <3>9. /\ r.frame.maker # r.frame.id
          /\ \A d \in Held(vm, gens) :
               d.maker # r.frame.id /\ (d.id = r.frame.maker => d.base <= r.frame.base)
      BY <2>3, <3>2, <3>4, <3>6, <3>8
    <3>10. Owns(vm, [gens EXCEPT ![g] = r])
      BY <1>2, <2>1, <3>2, <3>4, <3>5, <3>6, <3>7, <3>9, OwnsMake
    <3> QED BY <1>2, <2>2, <3>1, <3>10 DEF IInv, RestOK
  <2> QED BY <2>4, <2>5
<1>6. CASE SendToGenerator
  <2>1. PICK g \in Gens, k \in Pushes : Send(g, "call", k)
    BY <1>6 DEF SendToGenerator
  <2>2. Waits(Top, "call") /\ entered' = entered
    BY <1>6 DEF Waits, SendToGenerator
  <2> QED BY <1>1, <1>3, <2>1, <2>2, SendOK
<1>7. CASE ForIter
  <2>1. PICK g \in Gens : Send(g, "iter", 0)
    BY <1>7 DEF ForIter
  <2>2. Waits(Top, "iter") /\ entered' = entered
    BY <1>7 DEF Waits, ForIter
  <2> QED BY <1>1, <2>1, <2>2, SendOK
<1>8. CASE YieldValue
  <2>1. PICK k \in Pushes :
          IF Top.sp + k > StackSize
          THEN abort' = "beyond" /\ UNCHANGED <<vm, current, gens, pending>>
          ELSE Leave(Pushed(Top, k), Ok)
    BY <1>8 DEF YieldValue
  <2>2. exc' = exc /\ entered' = entered
    BY <1>8 DEF YieldValue
  <2>3. CASE Top.sp + k > StackSize
    BY <1>1, <1>2, <2>1, <2>2, <2>3, StayInv DEF Aborts
  <2>4. CASE ~(Top.sp + k > StackSize)
    <3>1. Top.sp + k <= StackSize
      BY <1>2, <1>3, <2>4, TopFacts, BoundsAssumption
    <3>2. FrameOK(Pushed(Top, k)) /\ SameActivation(Top, Pushed(Top, k))
      BY <1>2, <1>3, <3>1, PushedOK
    <3> DEFINE f == Pushed(Top, k)
    <3>3. Leave(f, Ok)
      BY <2>1, <2>4
    <3> HIDE DEF f
    <3>4. FrameOK(f) /\ SameActivation(Top, f)
      BY <3>2 DEF f
    <3>5. /\ Chain(vm', current') /\ Owns(vm', gens') /\ abort' \in Aborts
          /\ pending' \in Excs \cup {None} /\ (pending' # None => vm' # <<>>)
      BY <1>2, <3>3, <3>4, LeaveOK DEF Aborts
    <3> QED BY <1>2, <2>2, <3>5 DEF IInv, RestOK
  <2> QED BY <2>3, <2>4
<1> QED BY <1>4, <1>5, <1>6, <1>7, <1>8

LEMMA ErrorsPreserve ==
    ASSUME IInv, Raise \/ BareRaise \/ HandleError
    PROVE  IInv'
<1>1. CASE Raise
  <2>1. Running
    BY <1>1 DEF Raise, AtStatement
  <2>2. FrameOK(Top) /\ SameActivation(Top, Top) /\ Pushes \subseteq Nat
    BY <2>1, AtFacts, BoundsAssumption DEF SameActivation
  <2>3. PICK e \in Excs, k \in Pushes : Fail(Top, k, e)
    BY <1>1 DEF Raise
  <2>4. current' = current /\ exc' = exc /\ gens' = gens /\ entered' = entered
    BY <1>1 DEF Raise
  <2> QED BY <2>1, <2>2, <2>3, <2>4, FailOK
<1>2. CASE BareRaise
  <2>1. Running
    BY <1>2 DEF BareRaise, AtStatement
  <2>2. exc \in Items /\ abort = None /\ pending = None /\ entered \in 0..MaxBlocks
    BY <2>1, AtFacts
  <2>3. ReRaise("bare raise") /\ vm' = vm /\ current' = current /\ gens' = gens /\ entered' = entered
    BY <1>2 DEF BareRaise
  <2>4. exc' \in Items /\ pending' \in Excs \cup {None} /\ abort' \in Aborts
    BY <2>2, <2>3, ReRaiseOK DEF Aborts
  <2> QED BY <2>1, <2>2, <2>3, <2>4, StayInv
<1>3. CASE HandleError
  <2>1. /\ pending # None /\ abort = None /\ entered \in 0..MaxBlocks /\ pending \in Excs
        /\ vm # <<>> /\ exc \in Items
    BY <1>3 DEF HandleError, IInv, RestOK, Items
  <2>2. /\ FrameOK(Top) /\ Top \in Frames /\ Chain(vm, current) /\ Owns(vm, gens)
        /\ current \in FrameIds
    BY <2>1, TopFacts
  <2>3. exc' \in Items
    <3>1. [exc |-> pending, frame |-> current] \in [exc : Excs, frame : FrameIds]
      BY <2>1, <2>2
    <3>2. exc' = Append(exc, [exc |-> pending, frame |-> current])
      BY <1>3 DEF HandleError, PushException
    <3> QED BY <2>1, <3>1, <3>2, AppendProperties DEF Items
  <2>4. entered' = entered
    BY <1>3 DEF HandleError
  <2>5. CASE Top.cleanup = <<>>
    <3> DEFINE f == [Top EXCEPT !.escaped = @ \/ EscapesFinally(Top.path)]
    <3>1. Leave(f, pending)
      BY <1>3, <2>5 DEF HandleError
    <3>2. /\ f \in Frames /\ f.id = Top.id /\ f.gen = Top.gen /\ f.how = Top.how /\ f.back = Top.back
          /\ f.maker = Top.maker /\ SameSlots(Top, f)
          /\ f.path = Top.path /\ f.cleanup = Top.cleanup /\ f.due = Top.due
          /\ f.jumped = Top.jumped /\ f.escaped = (Top.escaped \/ EscapesFinally(Top.path))
      BY <2>2 DEF Frames, SameSlots
    <3> HIDE DEF f
    <3>3. FrameOK(f) /\ SameActivation(Top, f)
      BY <2>2, <3>2 DEF FrameOK, Balanced, SameSlots, SameActivation
    <3>4. /\ Chain(vm', current') /\ Owns(vm', gens') /\ abort' \in Aborts
          /\ pending' \in Excs \cup {None} /\ (pending' # None => vm' # <<>>)
      BY <2>1, <2>2, <3>1, <3>3, LeaveOK DEF Aborts
    <3> QED BY <2>1, <2>3, <2>4, <3>4 DEF IInv, RestOK
  <2>6. CASE Top.cleanup # <<>>
    <3>1. /\ vm' = WithTop(JumpToHandler(Top)) /\ pending' = None /\ current' = current /\ gens' = gens
          /\ abort' = abort
      BY <1>3, <2>6 DEF HandleError
    <3>2. FrameOK(JumpToHandler(Top)) /\ SameActivation(Top, JumpToHandler(Top))
      BY <2>2, <2>6, JumpToHandlerOK
    <3>3. Chain(vm', current') /\ Owns(vm', gens') /\ vm' # <<>>
      BY <2>1, <3>1, <3>2, TopMoves
    <3> QED BY <2>1, <2>3, <2>4, <3>1, <3>3 DEF IInv, RestOK, Items
  <2> QED BY <2>5, <2>6
<1> QED BY <1>1, <1>2, <1>3

LEMMA EntersPreserve ==
    ASSUME IInv, EnterTry \/ EnterWith \/ EnterLoop
    PROVE  IInv'
<1>1. Running /\ entered < MaxBlocks /\ entered' = entered + 1
  BY DEF EnterTry, EnterWith, EnterLoop, Enter, AtStatement
<1>2. FrameOK(Top) /\ exc \in Items /\ entered \in 0..MaxBlocks /\ pending = None /\ abort = None
  BY <1>1, AtFacts
<1>3. entered' \in 0..MaxBlocks
  BY <1>1, <1>2, BoundsAssumption
<1>4. /\ current' = current /\ gens' = gens /\ exc' = exc /\ pending' = pending /\ abort' = abort
      /\ exc' \in Items /\ pending' \in Excs \cup {None} /\ abort' \in Aborts
  BY <1>2 DEF EnterTry, EnterWith, EnterLoop, Aborts
<1>5. CASE EnterTry \/ EnterWith
  <2>1. PICK kind \in TryKinds \cup {"with"} : Install(kind)
    BY <1>5 DEF EnterTry, EnterWith
  <2> DEFINE p == Append(Top.path, Block(kind, "body"))
             g == [Top EXCEPT !.path = p, !.cleanup = Append(@, [with |-> kind = "with", path |-> p]),
                              !.due = IF HasFinally(kind) THEN @ + 1 ELSE @]
  <2>2. vm' = WithTop(g)
    BY <2>1 DEF Install
  <2>3. FrameOK(g) /\ SameActivation(Top, g)
    BY <1>2, InstallOK
  <2> HIDE DEF g
  <2> QED BY <1>1, <1>3, <1>4, <2>2, <2>3, MoveInv
<1>6. CASE EnterLoop
  <2> DEFINE g == [Top EXCEPT !.path = Append(@, Block("loop", "body"))]
  <2>1. vm' = WithTop(g)
    BY <1>6 DEF EnterLoop
  <2>2. FrameOK(g) /\ SameActivation(Top, g)
    BY <1>2, EnterLoopOK
  <2> HIDE DEF g
  <2> QED BY <1>1, <1>3, <1>4, <2>1, <2>2, MoveInv
<1> QED BY <1>5, <1>6

LEMMA EndBodyPreserves ==
    ASSUME IInv, EndBody
    PROVE  IInv'
<1>1. Running /\ Top.path # <<>> /\ Last(Top.path).region = "body"
  BY DEF EndBody, At
<1>2. FrameOK(Top) /\ exc \in Items /\ entered \in 0..MaxBlocks /\ pending = None /\ abort = None
  BY <1>1, AtFacts
<1>3. /\ current' = current /\ gens' = gens /\ exc' \in Items /\ pending' \in Excs \cup {None}
      /\ entered' \in 0..MaxBlocks
  BY <1>2 DEF EndBody
<1>4. Last(Top.path).kind \in TryKinds \cup {"with", "loop"}
  <2>1. Top.path \in Seq(Blocks)
    BY <1>2, FrameFields DEF FrameOK, Paths
  <2>2. Last(Top.path) \in Blocks
    BY <1>1, <2>1, FrontLast
  <2> QED BY <2>2 DEF Blocks
<1>5. CASE Last(Top.path).kind = "loop"
  <2> DEFINE g == [Top EXCEPT !.path = Front(@)]
  <2>1. vm' = WithTop(g) /\ abort' = abort
    BY <1>5 DEF EndBody, TryKinds
  <2>2. Len(Top.path) \notin BodiesOf(Top.path) /\ Len(Top.path) \notin OpenBlocks(Top.path)
    BY <1>1, <1>2, <1>5, LastMarks DEF HasFinally
  <2>3. FrameOK(g) /\ SameActivation(Top, g)
    BY <1>1, <1>2, <2>2, LeaveBlockOK
  <2> HIDE DEF g
  <2>4. abort' \in Aborts
    BY <1>2, <2>1 DEF Aborts
  <2> QED BY <1>1, <1>3, <2>1, <2>3, <2>4, MoveInv
<1>6. CASE Last(Top.path).kind # "loop" /\ Top.cleanup = <<>>
  <2>1. abort' = "leave" /\ vm' = vm
    BY <1>6 DEF EndBody
  <2>2. abort' \in Aborts
    BY <2>1 DEF Aborts
  <2> QED BY <1>1, <1>3, <2>1, <2>2, StayInv
<1>7. CASE Last(Top.path).kind = "with" /\ Top.cleanup # <<>>
  <2> DEFINE g == [DropHandler(Top) EXCEPT !.path = In(@, "exit")]
  <2>1. vm' = WithTop(g) /\ abort' = abort
    BY <1>7 DEF EndBody, TryKinds
  <2>2. FrameOK(g) /\ SameActivation(Top, g)
    <3>1. Last(Top.path).kind # "loop" /\ ~HasFinally(Last(Top.path).kind)
          /\ "exit" \in {"orelse", "exit"}
      BY <1>7 DEF HasFinally
    <3> QED BY <1>1, <1>2, <1>7, <3>1, EndBodyRegionOK
  <2> HIDE DEF g
  <2>3. abort' \in Aborts
    BY <1>2, <2>1 DEF Aborts
  <2> QED BY <1>1, <1>3, <2>1, <2>2, <2>3, MoveInv
<1>8. CASE Last(Top.path).kind \in TryKinds /\ Top.cleanup # <<>>
  <2> DEFINE g == ToFinallyOrEnd(DropHandler(Top))
             h == [DropHandler(Top) EXCEPT !.path = In(@, "orelse")]
  <2>1. (vm' = WithTop(g) \/ vm' = WithTop(h)) /\ abort' = abort
    BY <1>8 DEF EndBody, TryKinds
  <2>2. Last(Top.path).kind # "loop"
    BY <1>8 DEF TryKinds
  <2>3. FrameOK(g) /\ SameActivation(Top, g)
    BY <1>1, <1>2, <1>8, <2>2, EndBodyOK
  <2>4. FrameOK(h) /\ SameActivation(Top, h)
    <3>1. "orelse" \in {"orelse", "exit"}
      OBVIOUS
    <3> QED BY <1>1, <1>2, <1>8, <2>2, <3>1, EndBodyRegionOK
  <2> HIDE DEF g, h
  <2>5. abort' \in Aborts
    BY <1>2, <2>1 DEF Aborts
  <2> QED BY <1>1, <1>3, <2>1, <2>3, <2>4, <2>5, MoveInv
<1> QED BY <1>4, <1>5, <1>6, <1>7, <1>8

LEMMA HandlersPreserve ==
    ASSUME IInv, MatchHandler \/ EndHandler \/ EndOrelse
    PROVE  IInv'
<1>1. /\ Running /\ Top.path # <<>> /\ Last(Top.path).region \in {"cond", "handler", "orelse"}
      /\ current' = current /\ gens' = gens /\ entered' = entered
  BY DEF MatchHandler, EndHandler, EndOrelse, At
<1>2. FrameOK(Top) /\ exc \in Items /\ entered \in 0..MaxBlocks /\ pending = None /\ abort = None
  BY <1>1, AtFacts
<1>3. /\ Len(Top.path) \notin BodiesOf(Top.path)
      /\ Len(Top.path) \in OpenBlocks(Top.path) <=> HasFinally(Last(Top.path).kind)
      /\ Last(Top.path) = Top.path[Len(Top.path)]
  BY <1>1, <1>2, LastMarks
<1>4. entered' \in 0..MaxBlocks
  BY <1>1, <1>2
<1>5. CASE MatchHandler
  <2> DEFINE g == [Top EXCEPT !.path = In(@, "handler")]
             h == [Top EXCEPT !.path = In(@, "finallyX"), !.due = @ - 1]
  <2>1. CASE vm' = WithTop(g) /\ exc' = exc /\ pending' = pending /\ abort' = abort
    <3>1. FrameOK(g) /\ SameActivation(Top, g)
      <4>1. "handler" \in Regions /\ "handler" # "body" /\ "handler" \in {"cond", "handler", "orelse"}
        BY DEF Regions, StatementRegions
      <4> QED BY <1>1, <1>2, <1>3, <4>1, SameRegionOK
    <3> HIDE DEF g
    <3>2. exc' \in Items /\ pending' \in Excs \cup {None} /\ abort' \in Aborts
      BY <1>2, <2>1 DEF Aborts
    <3> QED BY <1>1, <1>4, <2>1, <3>1, <3>2, MoveInv
  <2>2. CASE /\ HasFinally(Last(Top.path).kind)
             /\ vm' = WithTop(h) /\ exc' = exc /\ pending' = pending /\ abort' = abort
    <3>1. FrameOK(h) /\ SameActivation(Top, h)
      <4>1. "finallyX" \in {"finally", "finallyX"}
        OBVIOUS
      <4> QED BY <1>1, <1>2, <1>3, <2>2, <4>1, BeginFinallyOK
    <3> HIDE DEF h
    <3>2. exc' \in Items /\ pending' \in Excs \cup {None} /\ abort' \in Aborts
      BY <1>2, <2>2 DEF Aborts
    <3> QED BY <1>1, <1>4, <2>2, <3>1, <3>2, MoveInv
  <2>3. CASE ReRaise("reraise") /\ vm' = vm
    <3>1. exc' \in Items /\ pending' \in Excs \cup {None} /\ abort' \in Aborts
      BY <1>2, <2>3, ReRaiseOK DEF Aborts
    <3> QED BY <1>1, <1>4, <2>3, <3>1, StayInv
  <2>4. CASE exc' = exc /\ \E k \in Pushes : Fail(Top, k, "Error")
    <3>1. PICK k \in Pushes : Fail(Top, k, "Error")
      BY <2>4
    <3>2. SameActivation(Top, Top) /\ k \in Nat /\ "Error" \in Excs
      BY BoundsAssumption DEF SameActivation, Excs
    <3> QED BY <1>1, <1>2, <2>4, <3>1, <3>2, FailOK
  <2> QED BY <1>5, <2>1, <2>2, <2>3, <2>4 DEF MatchHandler
<1>6. CASE EndHandler \/ EndOrelse
  <2>1. /\ vm' = WithTop(ToFinallyOrEnd(Top)) /\ pending' = pending /\ abort' = abort
        /\ exc' = exc \/ exc' = Cleared(exc, current)
        /\ Last(Top.path).region \in {"handler", "orelse"}
    BY <1>6 DEF EndHandler, EndOrelse, At
  <2>2. FrameOK(ToFinallyOrEnd(Top)) /\ SameActivation(Top, ToFinallyOrEnd(Top))
    BY <1>1, <1>2, <2>1, FinallyOrEndOK
  <2>3. exc' \in Items
    BY <1>2, <2>1, ClearedOK
  <2>4. pending' \in Excs \cup {None} /\ abort' \in Aborts
    BY <1>2, <2>1 DEF Aborts
  <2> QED BY <1>1, <1>4, <2>1, <2>2, <2>3, <2>4, MoveInv
<1> QED BY <1>5, <1>6

LEMMA EndsPreserve ==
    ASSUME IInv, EndFinally \/ EndWithReRaise \/ EndWith
    PROVE  IInv'
<1>1. /\ Running /\ Top.path # <<>> /\ current' = current /\ gens' = gens /\ entered' = entered
      /\ Last(Top.path).region \in {"finally", "finallyX", "reraise", "exited", "suppress"}
  BY DEF EndFinally, EndWithReRaise, EndWith, At
<1>2. FrameOK(Top) /\ exc \in Items /\ entered \in 0..MaxBlocks /\ pending = None /\ abort = None
  BY <1>1, AtFacts
<1>3. entered' \in 0..MaxBlocks
  BY <1>1, <1>2
<1>4. CASE EndFinally \/ EndWith
  <2> DEFINE g == [Top EXCEPT !.path = Front(@)]
  <2>1. /\ vm' = WithTop(g) /\ pending' = pending /\ abort' = abort
        /\ exc' = exc \/ exc' = Cleared(exc, current)
    BY <1>4 DEF EndFinally, EndWith
  <2>2. Len(Top.path) \notin BodiesOf(Top.path) /\ Len(Top.path) \notin OpenBlocks(Top.path)
    BY <1>1, <1>2, LastMarks
  <2>3. FrameOK(g) /\ SameActivation(Top, g)
    BY <1>1, <1>2, <2>2, LeaveBlockOK
  <2> HIDE DEF g
  <2>4. exc' \in Items
    BY <1>2, <2>1, ClearedOK
  <2>5. pending' \in Excs \cup {None} /\ abort' \in Aborts
    BY <1>2, <2>1 DEF Aborts
  <2> QED BY <1>1, <1>3, <2>1, <2>3, <2>4, <2>5, MoveInv
<1>5. CASE EndWithReRaise
  <2>1. ReRaise("reraise") /\ vm' = vm
    BY <1>5 DEF EndWithReRaise
  <2>2. exc' \in Items /\ pending' \in Excs \cup {None} /\ abort' \in Aborts
    BY <1>2, <2>1, ReRaiseOK DEF Aborts
  <2> QED BY <1>1, <1>3, <2>1, <2>2, StayInv
<1> QED BY <1>4, <1>5

LEMMA CallExitPreserves ==
    ASSUME IInv, CallExit
    PROVE  IInv'
<1>1. /\ Running /\ Top.path # <<>> /\ entered' = entered
      /\ Last(Top.path).region \in {"exit", "exitR"}
  BY DEF CallExit, At
<1>2. /\ FrameOK(Top) /\ exc \in Items /\ entered \in 0..MaxBlocks /\ pending = None /\ abort = None
      /\ vm # <<>> /\ Chain(vm, current) /\ Owns(vm, gens) /\ current \in FrameIds
  BY <1>1, AtFacts
<1> DEFINE after == IF Last(Top.path).region = "exit" THEN "exited" ELSE "exitedR"
           caller == [Top EXCEPT !.path = In(@, after)]
<1>3. FrameOK(caller) /\ SameActivation(Top, caller)
  <2>1. after \in Regions /\ after # "body" /\ after \notin {"cond", "handler", "orelse"}
    BY DEF Regions
  <2> HIDE DEF after
  <2>2. Len(Top.path) \notin BodiesOf(Top.path) /\ Len(Top.path) \notin OpenBlocks(Top.path)
    BY <1>1, <1>2, LastMarks
  <2> QED BY <1>1, <1>2, <2>1, <2>2, SameRegionOK
<1>4. \/ /\ vm' = WithTop(caller) /\ current' = current /\ exc' = exc /\ gens' = gens
         /\ pending' = pending /\ abort' = abort
      \/ /\ \E k \in Pushes : Fail(caller, k, "Error")
         /\ current' = current /\ exc' = exc /\ gens' = gens
      \/ \E k \in Pushes, n \in LocalCounts : Call(Pushed(caller, k), n, "call")
  BY DEF CallExit
<1> HIDE DEF caller
<1>5. CASE /\ vm' = WithTop(caller) /\ current' = current /\ exc' = exc /\ gens' = gens
           /\ pending' = pending /\ abort' = abort
  <2>1. pending' \in Excs \cup {None} /\ abort' \in Aborts /\ exc' \in Items /\ entered' \in 0..MaxBlocks
    BY <1>1, <1>2, <1>5 DEF Aborts
  <2> QED BY <1>1, <1>3, <1>5, <2>1, MoveInv
<1>6. ASSUME NEW k \in Pushes, Fail(caller, k, "Error"), current' = current, exc' = exc, gens' = gens
      PROVE  IInv'
  <2>1. k \in Nat /\ "Error" \in Excs
    BY BoundsAssumption DEF Excs
  <2> QED BY <1>1, <1>3, <1>6, <2>1, FailOK
<1>7. ASSUME NEW k \in Pushes, NEW n \in LocalCounts, Call(Pushed(caller, k), n, "call")
      PROVE  IInv'
  <2>1. Waits(caller, "call")
    BY DEF Waits
  <2> QED BY <1>1, <1>3, <1>7, <2>1, CallOK
<1> QED BY <1>4, <1>5, <1>6, <1>7

LEMMA WithExceptStartPreserves ==
    ASSUME IInv, WithExceptStart
    PROVE  IInv'
<1>1. Running /\ Top.path # <<>> /\ entered' = entered /\ Last(Top.path).region = "exitX"
  BY DEF WithExceptStart, At
<1>2. FrameOK(Top) /\ exc \in Items /\ entered \in 0..MaxBlocks /\ pending = None /\ abort = None
  BY <1>1, AtFacts
<1>3. ASSUME NEW region \in {"suppress", "reraise"}, vm' = WithTop([Top EXCEPT !.path = In(@, region)]),
             current' = current, exc' = exc, gens' = gens, pending' = pending, abort' = abort
      PROVE  IInv'
  <2> DEFINE g == [Top EXCEPT !.path = In(@, region)]
  <2>1. region \in Regions /\ region # "body" /\ region \notin {"cond", "handler", "orelse"}
    BY DEF Regions
  <2>2. Len(Top.path) \notin BodiesOf(Top.path) /\ Len(Top.path) \notin OpenBlocks(Top.path)
    BY <1>1, <1>2, LastMarks
  <2>3. FrameOK(g) /\ SameActivation(Top, g)
    BY <1>1, <1>2, <2>1, <2>2, SameRegionOK
  <2>4. vm' = WithTop(g)
    BY <1>3
  <2> HIDE DEF g
  <2>5. pending' \in Excs \cup {None} /\ abort' \in Aborts /\ exc' \in Items /\ entered' \in 0..MaxBlocks
    BY <1>1, <1>2, <1>3 DEF Aborts
  <2> QED BY <1>1, <1>3, <2>3, <2>4, <2>5, MoveInv
<1>4. SameActivation(Top, Top)
  BY DEF SameActivation
<1>5. ASSUME NEW k \in Pushes, NEW n \in LocalCounts, Call(Pushed(Top, k), n, "exit")
      PROVE  IInv'
  <2>1. Waits(Top, "exit")
    BY <1>1 DEF Waits
  <2> QED BY <1>1, <1>2, <1>4, <1>5, <2>1, CallOK
<1>6. ASSUME NEW k \in Pushes, Fail(Top, k, "Error"), current' = current, exc' = exc, gens' = gens
      PROVE  IInv'
  <2>1. k \in Nat /\ "Error" \in Excs
    BY BoundsAssumption DEF Excs
  <2> QED BY <1>1, <1>2, <1>4, <1>6, <2>1, FailOK
<1> QED BY <1>3, <1>5, <1>6 DEF WithExceptStart

LEMMA JumpsPreserve ==
    ASSUME IInv, Jump \/ Return \/ ReturnOn
    PROVE  IInv'
<1>1. Running /\ entered' = entered
  BY DEF Jump, Return, ReturnOn, AtStatement, At
<1>2. FrameOK(Top) /\ exc \in Items /\ entered \in 0..MaxBlocks /\ pending = None /\ abort = None
  BY <1>1, AtFacts
<1>3. CASE Jump
  <2> DEFINE loops == {i \in DOMAIN Top.path : Top.path[i].kind = "loop"}
             inner == CHOOSE i \in loops : \A j \in loops : j <= i
             crossed == SubSeq(Top.path, inner + 1, Len(Top.path))
  <2>1. PICK target \in {inner - 1, inner} :
          vm' = WithTop([Top EXCEPT !.path = SubSeq(@, 1, target),
                            !.jumped = @ \/ \E b \in ToSet(crossed) : b.region # "finally"])
    BY <1>3 DEF Jump
  <2>2. loops # {}
    BY <1>3 DEF Jump
  <2>3. loops \subseteq 1..Len(Top.path) /\ Len(Top.path) \in Nat
    BY <1>2, FrameFields DEF FrameOK
  <2>4. inner \in loops
    <3> HIDE DEF loops
    <3>1. \E i \in loops : \A j \in loops : j <= i
      BY <2>2, <2>3, Largest
    <3> QED BY <3>1
  <2>5. inner \in DOMAIN Top.path /\ Top.path[inner].kind = "loop"
    BY <2>4
  <2> HIDE DEF inner
  <2> DEFINE g == [Top EXCEPT !.path = SubSeq(@, 1, target),
                              !.jumped = @ \/ \E b \in ToSet(crossed) : b.region # "finally"]
  <2>6. FrameOK(g) /\ SameActivation(Top, g)
    BY <1>2, <2>5, JumpOK
  <2>7. vm' = WithTop(g)
    BY <2>1
  <2> HIDE DEF g
  <2>8. /\ current' = current /\ gens' = gens
        /\ pending' \in Excs \cup {None} /\ abort' \in Aborts /\ exc' \in Items /\ entered' \in 0..MaxBlocks
    BY <1>1, <1>2, <1>3 DEF Aborts, Jump
  <2> QED BY <1>1, <2>6, <2>7, <2>8, MoveInv
<1>4. CASE Return
  <2>1. ReturnFrom(Top) /\ (exc' = exc \/ exc' = Cleared(exc, current))
    BY <1>4 DEF Return
  <2>2. exc' \in Items
    BY <1>2, <2>1, ClearedOK
  <2>3. SameActivation(Top, Top)
    BY DEF SameActivation
  <2> QED BY <1>1, <1>2, <2>1, <2>2, <2>3, ReturnFromOK
<1>5. CASE ReturnOn
  <2> DEFINE g == [Top EXCEPT !.path = Front(@)]
  <2>1. ReturnFrom(g) /\ (exc' = exc \/ exc' = Cleared(exc, current))
    BY <1>5 DEF ReturnOn
  <2>2. Top.path # <<>> /\ Last(Top.path).region \in {"finallyR", "exitedR"}
    BY <1>5 DEF ReturnOn, At
  <2>3. Len(Top.path) \notin BodiesOf(Top.path) /\ Len(Top.path) \notin OpenBlocks(Top.path)
    BY <1>2, <2>2, LastMarks
  <2>4. FrameOK(g) /\ SameActivation(Top, g)
    BY <1>2, <2>2, <2>3, LeaveBlockOK
  <2> HIDE DEF g
  <2>5. exc' \in Items
    BY <1>2, <2>1, ClearedOK
  <2> QED BY <1>1, <2>1, <2>4, <2>5, ReturnFromOK
<1> QED BY <1>3, <1>4, <1>5

-----------------------------------------------------------------------------
(* The invariant holds in every state *)

LEMMA InitHolds == Init => IInv
<1> SUFFICES ASSUME Init PROVE IInv
  OBVIOUS
<1> DEFINE e == NewFrame(1, NoGen, "call", 0)
           f == [e EXCEPT !.back = NoFrame]
<1>1. FrameOK(f) /\ f.id = 1 /\ f.gen = NoGen /\ f.back = NoFrame /\ f \in Frames /\ f.maker # f.id
  <2>1. /\ 1 \in FrameIds /\ NoGen \in Gens \cup {NoGen} /\ "call" \in {"call", "iter", "exit"}
        /\ 0 \in 0..StackSize /\ current \in FrameIds \cup {NoFrame}
    BY FramesAssumption, BoundsAssumption DEF Init
  <2>2. FrameOK(e) /\ e.id = 1 /\ e.gen = NoGen /\ e.maker = NoFrame
    BY <2>1, NewFrameOK
  <2> HIDE DEF e
  <2>3. /\ f \in Frames /\ SameSlots(e, f) /\ SameBlocks(e, f) /\ f.id = 1 /\ f.gen = NoGen
        /\ f.back = NoFrame /\ f.maker = NoFrame
    BY <2>2 DEF FrameOK, Frames, SameSlots, SameBlocks
  <2> HIDE DEF f
  <2>4. FrameOK(f)
    BY <2>2, <2>3, LinksOK
  <2> QED BY <2>3, <2>4 DEF NoFrame
<1>2. vm = <<f>> /\ current = 1
  BY DEF Init
<1> HIDE DEF f
<1>3. vm \in Seq(Frames) /\ Len(vm) = 1 /\ DOMAIN vm = {1} /\ vm[1] = f /\ vm # <<>> /\ Last(vm) = f
  BY <1>1, <1>2 DEF Last
<1>4. 1..(Len(vm) - 1) = {}
  BY <1>3
<1>5. Chain(vm, current)
  BY <1>1, <1>2, <1>3, <1>4, FramesAssumption DEF Chain
<1>6. gens \in [Gens -> GenRecords] /\ \A g \in Gens : gens[g].state = "none"
  BY DEF Init, GenRecords
<1>7. Owns(vm, gens)
  <2>1. \A d \in Held(vm, gens) : d = f
    BY <1>3, <1>6 DEF Held
  <2>2. AboveMakers(vm, gens)
    BY <1>1, <2>1 DEF AboveMakers
  <2> QED BY <1>1, <1>3, <1>6, <2>2, GensAssumption DEF Owns
<1>8. RestOK
  <2>1. exc \in Items
    BY EmptySeq DEF Init, Items
  <2> QED BY <2>1, BoundsAssumption DEF Init, RestOK, Aborts
<1> QED BY <1>5, <1>7, <1>8 DEF IInv

LEMMA NextPreserves == IInv /\ [Next]_vars => IInv'
<1> SUFFICES ASSUME IInv, [Next]_vars PROVE IInv'
  OBVIOUS
<1>1. CASE FunctionCall \/ MakeGenerator \/ SendToGenerator \/ ForIter \/ YieldValue
  BY <1>1, CallsPreserve
<1>2. CASE Raise \/ BareRaise \/ HandleError
  BY <1>2, ErrorsPreserve
<1>3. CASE EnterTry \/ EnterWith \/ EnterLoop
  BY <1>3, EntersPreserve
<1>4. CASE EndBody
  BY <1>4, EndBodyPreserves
<1>5. CASE MatchHandler \/ EndHandler \/ EndOrelse
  BY <1>5, HandlersPreserve
<1>6. CASE EndFinally \/ EndWithReRaise \/ EndWith
  BY <1>6, EndsPreserve
<1>7. CASE CallExit
  BY <1>7, CallExitPreserves
<1>8. CASE WithExceptStart
  BY <1>8, WithExceptStartPreserves
<1>9. CASE Jump \/ Return \/ ReturnOn
  BY <1>9, JumpsPreserve
<1>10. CASE UNCHANGED vars
  BY <1>10 DEF vars, IInv, RestOK
<1> QED BY <1>1, <1>2, <1>3, <1>4, <1>5, <1>6, <1>7, <1>8, <1>9, <1>10 DEF Next

\* The chain of frames, the generators that own the frames off the stack and the handlers of
\* every frame fit together after every instruction, call and exception.
THEOREM Invariance == Spec => []IInv
<1> QED BY InitHolds, NextPreserves, PTL DEF Spec

-----------------------------------------------------------------------------
(* What follows from it *)

\* Frames on the stack and frames kept in generators alike.
LEMMA LiveOK ==
    ASSUME IInv, NEW f \in LiveFrames
    PROVE  FrameOK(f)
<1>1. Chain(vm, current) /\ Owns(vm, gens)
  BY DEF IInv
<1>2. CASE f \in ToSet(vm)
  BY <1>1, <1>2, ChainFacts DEF ToSet
<1>3. CASE f \in SavedFrames
  BY <1>1, <1>3 DEF SavedFrames, Owns
<1> QED BY <1>2, <1>3 DEF LiveFrames

\* Every variable keeps its type, for any set of frames, generators and bounds.
THEOREM TypeCorrect == Spec => []TypeOK
<1>1. IInv => TypeOK
  <2> SUFFICES ASSUME IInv PROVE TypeOK
    OBVIOUS
  <2>1. vm \in Seq(Frames)
    BY DEF IInv, Chain
  <2>2. current \in FrameIds \cup {NoFrame}
    BY DEF IInv, Chain
  <2>3. \A g \in Gens :
          /\ gens[g].state \in {"none", "suspended", "running", "finished"}
          /\ gens[g].invalid_return \in BOOLEAN
    BY DEF IInv, Owns, GenRecords
  <2>4. SavedFrames \subseteq Frames
    BY LiveOK DEF LiveFrames, FrameOK
  <2> QED BY <2>1, <2>2, <2>3, <2>4 DEF IInv, RestOK, TypeOK, Items, Aborts
<1> QED BY <1>1, Invariance, PTL

\* Interpreter::m_current_frame is the Python frame of the innermost stack frame of the
\* virtual machine, and m_f_back leads through the frames below it, on every way in and out.
THEOREM ChainInSync == Spec => []FrameChainInSync
<1>1. IInv => FrameChainInSync
  BY DEF IInv, Chain, FrameChainInSync, Top
<1> QED BY <1>1, Invariance, PTL

\* No generator runs twice at a time, and no two activations share a Python frame, however
\* send, yield, return and exceptions interleave across nested generators.
THEOREM RunsOnce == Spec => []GeneratorRunsOnce
<1>1. IInv => GeneratorRunsOnce
  <2> SUFFICES ASSUME IInv PROVE GeneratorRunsOnce
    OBVIOUS
  <2>1. Chain(vm, current) /\ Owns(vm, gens)
    BY DEF IInv
  <2>2. \A f \in SavedFrames : \A i \in DOMAIN vm : vm[i].id # f.id
    BY <2>1 DEF SavedFrames, Owns
  <2>3. \A g \in Gens : gens[g].state = "running" <=> \E i \in DOMAIN vm : vm[i].gen = g
    BY <2>1 DEF Owns
  <2>4. \A i, j \in DOMAIN vm : i # j => vm[i].id # vm[j].id
    BY <2>1 DEF Chain
  <2> QED BY <2>2, <2>3, <2>4 DEF GeneratorRunsOnce
<1> QED BY <1>1, Invariance, PTL

\* pop_frame's assertion holds of every function that returns: its frame lies above all that
\* its caller has on the stack, though pushes, pops and what failed calls leave behind move
\* both stack pointers.
THEOREM CalleesStacked == Spec => []CalleesAbove
<1>1. IInv => CalleesAbove
  <2> SUFFICES ASSUME IInv, NEW i \in 2..Len(vm), vm[i].gen = NoGen
               PROVE  vm[i - 1].sp <= vm[i].sp /\ vm[i - 1].base <= vm[i].base
    BY DEF CalleesAbove
  <2>1. Chain(vm, current)
    BY DEF IInv
  <2>2. /\ Len(vm) \in Nat /\ DOMAIN vm = 1..Len(vm)
        /\ \A j \in DOMAIN vm : vm[j] \in Frames /\ FrameOK(vm[j])
    BY <2>1, ChainFacts
  <2>3. i \in DOMAIN vm /\ i - 1 \in DOMAIN vm /\ i - 1 \in 1..(Len(vm) - 1) /\ (i - 1) + 1 = i
    BY <2>2
  <2>4. vm[i - 1].sp <= vm[i].base
    BY <2>1, <2>3 DEF Chain, Above
  <2>5. \A j \in DOMAIN vm :
          vm[j].base \in Int /\ vm[j].sp \in Int /\ vm[j].base <= vm[j].sp
    <3> SUFFICES ASSUME NEW f, FrameOK(f) PROVE f.base \in Int /\ f.sp \in Int /\ f.base <= f.sp
      BY <2>2
    <3>1. f.base \in Nat /\ f.sp \in Nat /\ f.pushed \in Nat /\ Balanced(f)
      BY FrameFields DEF FrameOK
    <3> QED BY <3>1 DEF Balanced
  <2>6. /\ vm[i].base \in Int /\ vm[i].sp \in Int /\ vm[i].base <= vm[i].sp
        /\ vm[i - 1].base \in Int /\ vm[i - 1].sp \in Int /\ vm[i - 1].base <= vm[i - 1].sp
    BY <2>3, <2>5
  <2> QED BY <2>4, <2>6
<1> QED BY <1>1, Invariance, PTL

\* The assertions of push_frame hold whenever the function that made a generator resumes it
\* with a for loop, unless a failed call has left values of that function on the stack:
\* whatever ran in between, the generator's frame begins above that function's locals.
THEOREM MakersResume == Spec => []MakerMayResume
<1>1. IInv => MakerMayResume
  <2> SUFFICES ASSUME IInv, NEW f \in SavedFrames, NEW i \in DOMAIN vm,
                      vm[i].id = f.maker, ~vm[i].leaked
               PROVE  vm[i].base <= f.base /\ vm[i].sp - vm[i].pushed <= f.sp
    BY DEF MakerMayResume
  <2>1. Chain(vm, current) /\ Owns(vm, gens)
    BY DEF IInv
  <2>2. FrameOK(f)
    BY LiveOK DEF LiveFrames
  <2>3. FrameOK(vm[i])
    BY <2>1, ChainFacts
  <2>4. f \in Held(vm, gens) /\ vm[i] \in Held(vm, gens)
    BY DEF Held, SavedFrames
  <2>5. vm[i].base <= f.base
    BY <2>1, <2>4 DEF Owns, AboveMakers
  <2>6. /\ f.base \in Nat /\ f.sp \in Nat /\ f.pushed \in Nat /\ Balanced(f)
        /\ vm[i].base \in Nat /\ vm[i].sp \in Nat /\ vm[i].pushed \in Nat /\ Balanced(vm[i])
    BY <2>2, <2>3, FrameFields DEF FrameOK
  <2> QED BY <2>5, <2>6 DEF Balanced
<1> QED BY <1>1, Invariance, PTL

\* The handlers of a frame are those of the bodies around it.
LEMMA HandledPaths ==
    ASSUME NEW f, FrameOK(f), ~f.jumped
    PROVE  {h.path : h \in ToSet(f.cleanup)} = EnclosingBodies(f.path)
<1>1. /\ f.path \in Seq(Blocks) /\ Len(f.path) \in Nat /\ DOMAIN f.path = 1..Len(f.path)
      /\ \A i \in DOMAIN f.cleanup : f.cleanup[i].path \in Seq(Blocks)
  BY FrameFields DEF FrameOK, Paths
<1>2. Handled(f.path, f.cleanup)
  BY DEF FrameOK
<1>3. ASSUME NEW i \in DOMAIN f.cleanup
      PROVE  /\ Len(f.cleanup[i].path) \in BodiesOf(f.path)
             /\ f.cleanup[i].path = SubSeq(f.path, 1, Len(f.cleanup[i].path))
  <2> DEFINE t == f.cleanup[i].path
             k == Len(t)
  <2>1. t \in Seq(Blocks) /\ k \in BodiesOf(f.path) /\ \A j \in 1..k : t[j] = f.path[j]
    BY <1>1, <1>2 DEF Handled
  <2>2. k \in 0..Len(f.path)
    BY <1>1, <2>1 DEF BodiesOf
  <2>3. /\ SubSeq(f.path, 1, k) \in Seq(Blocks) /\ Len(SubSeq(f.path, 1, k)) = k
        /\ \A j \in 1..k : SubSeq(f.path, 1, k)[j] = f.path[j]
    <3> HIDE DEF k
    <3> QED BY <1>1, <2>2, Prefix
  <2> DEFINE u == SubSeq(f.path, 1, k)
  <2>4. u \in Seq(Blocks) /\ Len(u) = Len(t) /\ \A j \in 1..Len(t) : t[j] = u[j]
    BY <2>1, <2>3
  <2> HIDE DEF t, u
  <2>5. t = u
    BY <2>1, <2>4, SeqEqual
  <2> QED BY <2>1, <2>5 DEF t, u
<1>4. ASSUME NEW k \in BodiesOf(f.path)
      PROVE  \E i \in DOMAIN f.cleanup : f.cleanup[i].path = SubSeq(f.path, 1, k)
  <2>1. PICK i \in DOMAIN f.cleanup : Len(f.cleanup[i].path) = k
    BY <1>2 DEF Handled
  <2> QED BY <1>3, <2>1
<1>5. {h.path : h \in ToSet(f.cleanup)} = {f.cleanup[i].path : i \in DOMAIN f.cleanup}
  <2>1. ToSet(f.cleanup) = {f.cleanup[i] : i \in DOMAIN f.cleanup}
    BY DEF ToSet
  <2> QED BY <2>1
<1>6. \A i \in DOMAIN f.cleanup : f.cleanup[i].path \in EnclosingBodies(f.path)
  BY <1>3 DEF EnclosingBodies
<1>7. \A x \in EnclosingBodies(f.path) : \E i \in DOMAIN f.cleanup : x = f.cleanup[i].path
  BY <1>4 DEF EnclosingBodies
<1> QED BY <1>5, <1>6, <1>7

\* Until break, continue or return leaves a block, the handlers a frame has are exactly those
\* of the try and with bodies around the instruction it runs, inner ones later: an exception
\* is handled where the program text says.
THEOREM HandlersNest == Spec => []HandlersMatchNesting
<1>1. IInv => HandlersMatchNesting
  <2> SUFFICES ASSUME IInv, NEW f \in LiveFrames, ~f.jumped
               PROVE  /\ {h.path : h \in ToSet(f.cleanup)} = EnclosingBodies(f.path)
                      /\ \A i, j \in DOMAIN f.cleanup :
                             i < j => Len(f.cleanup[i].path) < Len(f.cleanup[j].path)
    BY DEF HandlersMatchNesting
  <2>1. FrameOK(f)
    BY LiveOK
  <2>2. Handled(f.path, f.cleanup)
    BY <2>1 DEF FrameOK
  <2>3. {h.path : h \in ToSet(f.cleanup)} = EnclosingBodies(f.path)
    BY <2>1, HandledPaths
  <2>4. \A i, j \in DOMAIN f.cleanup : i < j => Len(f.cleanup[i].path) < Len(f.cleanup[j].path)
    BY <2>2 DEF Handled
  <2> QED BY <2>3, <2>4
<1> QED BY <1>1, Invariance, PTL

\* Unless one of the two ways a finally block is lost was taken (a jump out of the try, an
\* exception in its handler or else), each finally block that was entered runs exactly once.
THEOREM FinallyOnce == Spec => []FinallyRunsOnceUnlessLeft
<1>1. IInv => FinallyRunsOnceUnlessLeft
  <2> SUFFICES ASSUME IInv, NEW f \in LiveFrames, ~f.jumped, ~f.escaped, ~EscapesFinally(f.path)
               PROVE  f.due = WillRun(f)
    BY DEF FinallyRunsOnceUnlessLeft
  <2>1. FrameOK(f) /\ f.due = OpenFinally(f.path) /\ Handled(f.path, f.cleanup)
    BY LiveOK DEF FrameOK
  <2>2. CASE pending # None /\ f = Top /\ f.cleanup = <<>>
    <3>1. BodiesOf(f.path) = {}
      BY <2>1, <2>2 DEF Handled
    <3>2. OpenBlocks(f.path) = {}
      BY <3>1 DEF OpenBlocks, BodiesOf, EscapesFinally, ToSet, HasFinally
    <3>3. OpenFinally(f.path) = 0
      BY <3>2, FS_EmptySet DEF OpenFinally
    <3> QED BY <2>1, <2>2, <3>3 DEF WillRun
  <2>3. CASE ~(pending # None /\ f = Top /\ f.cleanup = <<>>)
    BY <2>1, <2>3 DEF WillRun
  <2> QED BY <2>2, <2>3
<1> QED BY <1>1, Invariance, PTL

=============================================================================
