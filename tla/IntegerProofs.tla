--------------------------- MODULE IntegerProofs ---------------------------
(***************************************************************************)
(* Theorems about the integers of compiled code, and about the subscripts, *)
(* slices and ranges they are used in, for every width of the machine word *)
(* and every length.                                                       *)
(***************************************************************************)
EXTENDS Slicing, TLAPS

\* A word has room for the tag and for the bools.
Widths == Nat \ {0, 1}
PosNat == Nat \ {0}

-----------------------------------------------------------------------------
(* The encoding *)

\* Casting, shifting and tagging a number that fits gives an odd word.
LEMMA FromIntWord ==
    ASSUME H \in Widths, NEW n \in Int, FitsTagged(n)
    PROVE  /\ from_int(n) \in Words
           /\ is_tagged_int(from_int(n))
           /\ n \in Int64
<1>1. CASE n < 0
  <2>1. AsWord(n) = n + 4 * H /\ AsWord(n) >= 2 * H
    BY <1>1 DEF AsWord, FitsTagged, Widths
  <2>2. from_int(n) = 2 * (n + 2 * H) + 1
    BY <2>1 DEF from_int, Doubled, Widths
  <2> QED BY <2>2, <1>1 DEF Words, is_tagged_int, Int64, FitsTagged, Widths
<1>2. CASE n >= 0
  <2>1. AsWord(n) = n /\ ~(AsWord(n) >= 2 * H)
    BY <1>2 DEF AsWord, FitsTagged, Widths
  <2>2. from_int(n) = 2 * n + 1
    BY <2>1 DEF from_int, Doubled, Widths
  <2> QED BY <2>2, <1>2 DEF Words, is_tagged_int, Int64, FitsTagged, Widths
<1> QED BY <1>1, <1>2

\* RtValue.hpp: "arithmetic shift to the right restores the value".  A number that fits the
\* tagged range survives from_int and as_int.
THEOREM RoundTrip ==
    ASSUME H \in Widths, NEW n \in Int, FitsTagged(n)
    PROVE  as_int(from_int(n)) = n
<1>1. CASE n < 0
  <2>1. from_int(n) = 2 * n + 1 + 4 * H
    BY <1>1 DEF from_int, Doubled, AsWord, FitsTagged, Widths
  <2>2. Signed(from_int(n)) = 2 * n + 1
    BY <2>1, <1>1 DEF Signed, FitsTagged, Widths
  <2> QED BY <2>2 DEF as_int
<1>2. CASE n >= 0
  <2>1. from_int(n) = 2 * n + 1
    BY <1>2 DEF from_int, Doubled, AsWord, FitsTagged, Widths
  <2>2. Signed(from_int(n)) = 2 * n + 1
    BY <2>1, <1>2 DEF Signed, FitsTagged, Widths
  <2> QED BY <2>2 DEF as_int
<1> QED BY <1>1, <1>2

\* A machine integer that does not fit is not restored: every fast path that keeps its result
\* in a word has to ask fits_tagged_int, the test is as weak as it can be.
THEOREM FitsIsNecessary ==
    ASSUME H \in Widths, NEW n \in Int64, ~FitsTagged(n)
    PROVE  as_int(from_int(n)) # n
<1>0. n \in Int BY DEF Int64, Widths
<1>1. CASE n < 0
  <2>1. from_int(n) = 2 * n + 4 * H + 1 /\ 2 * n + 4 * H + 1 < 2 * H
    BY <1>0, <1>1 DEF from_int, Doubled, AsWord, FitsTagged, Widths, Int64
  <2>2. Signed(from_int(n)) = 2 * (n + 2 * H) + 1
    BY <2>1, <1>0 DEF Signed, Widths
  <2>3. as_int(from_int(n)) = n + 2 * H
    BY <2>2, <1>0 DEF as_int, Widths
  <2> QED BY <2>3, <1>0 DEF Widths
<1>2. CASE n >= 0
  <2>1. from_int(n) = 2 * n + 1 /\ 2 * n + 1 >= 2 * H
    BY <1>0, <1>2 DEF from_int, Doubled, AsWord, FitsTagged, Widths, Int64
  <2>2. Signed(from_int(n)) = 2 * (n - 2 * H) + 1
    BY <2>1, <1>0 DEF Signed, Widths
  <2>3. as_int(from_int(n)) = n - 2 * H
    BY <2>2, <1>0 DEF as_int, Widths
  <2> QED BY <2>3, <1>0 DEF Widths
<1> QED BY <1>0, <1>1, <1>2

\* An odd word stands for an integer that fits, and for no other word: comparing words compares
\* integers.
LEMMA WordFits ==
    ASSUME H \in Widths, NEW w \in Words, is_tagged_int(w)
    PROVE  /\ as_int(w) \in Int
           /\ FitsTagged(as_int(w))
           /\ w = (IF as_int(w) < 0 THEN 2 * as_int(w) + 1 + 4 * H ELSE 2 * as_int(w) + 1)
<1>0. w \in Nat /\ w < 4 * H /\ w % 2 = 1
  BY DEF Words, is_tagged_int, Widths
<1>1. PICK k \in Int : w = 2 * k + 1
  BY <1>0
<1>2. CASE w >= 2 * H
  <2>1. as_int(w) = k - 2 * H
    BY <1>1, <1>2 DEF as_int, Signed, Widths
  <2> QED BY <2>1, <1>0, <1>1, <1>2 DEF FitsTagged, Widths
<1>3. CASE w < 2 * H
  <2>1. as_int(w) = k
    BY <1>0, <1>1, <1>3 DEF as_int, Signed, Widths
  <2> QED BY <2>1, <1>0, <1>1, <1>3 DEF FitsTagged, Widths
<1> QED BY <1>0, <1>2, <1>3 DEF Widths
-----------------------------------------------------------------------------
(* Values *)

\* What each kind of value is.
LEMMA NumberKinds ==
    ASSUME H \in Widths, NEW x \in Numbers
    PROVE  /\ IntOf(x) \in Int
           /\ \/ /\ x.kind = "tagged" /\ x.bits \in Words /\ is_tagged_int(x.bits)
                 /\ x = OfWord(x.bits)
              \/ x.kind = "int" /\ x.val \in Int
              \/ x.kind = "bool" /\ x.val \in 0..1
<1>1. CASE \E w \in {u \in Words : is_tagged_int(u)} : x = OfWord(w)
  BY <1>1, WordFits DEF OfWord, IntOf
<1>2. CASE \E n \in Int : x = IntObject(n)
  BY <1>2 DEF IntObject, IntOf
<1>3. CASE \E b \in 0..1 : x = BoolObject(b)
  BY <1>3 DEF BoolObject, IntOf
<1> QED BY <1>1, <1>2, <1>3 DEF Numbers

\* RtValue::flatten keeps the integer and hands on either a word or an int that does not fit.
LEMMA FlattenKeeps ==
    ASSUME H \in Widths, NEW x \in Numbers
    PROVE  /\ IntOf(flatten(x)) = IntOf(x)
           /\ \/ /\ flatten(x).kind = "tagged"
                 /\ flatten(x).bits \in Words /\ is_tagged_int(flatten(x).bits)
                 /\ FitsTagged(IntOf(x))
                 /\ as_int(flatten(x).bits) = IntOf(x)
              \/ /\ flatten(x).kind = "int"
                 /\ ~FitsTagged(IntOf(x))
<1>1. CASE x.kind = "tagged" /\ x.bits \in Words /\ is_tagged_int(x.bits)
  <2>1. flatten(x) = x BY <1>1 DEF flatten
  <2> QED BY <2>1, <1>1, WordFits DEF IntOf
<1>2. CASE /\ x.kind \in {"int", "bool"} /\ x.val \in Int
           /\ FitsTagged(x.val)
  <2>1. flatten(x) = OfWord(from_int(x.val))
    BY <1>2, FromIntWord DEF flatten
  <2>2. IntOf(x) = x.val BY <1>2 DEF IntOf
  <2> QED BY <2>1, <2>2, <1>2, FromIntWord, RoundTrip DEF OfWord, IntOf
<1>3. CASE x.kind = "int" /\ x.val \in Int /\ ~FitsTagged(x.val)
  <2>1. flatten(x) = x BY <1>3 DEF flatten
  <2> QED BY <2>1, <1>3 DEF IntOf
<1>4. x.kind = "bool" /\ x.val \in 0..1 => x.val \in Int /\ FitsTagged(x.val)
  BY DEF FitsTagged, Widths
<1> QED BY <1>1, <1>2, <1>3, <1>4, NumberKinds

\* The fast path of an operation hands back the word of its result.
LEMMA TaggedResult ==
    ASSUME H \in Widths, NEW n \in Int, FitsTagged(n)
    PROVE  tagged_result(n) # NoResult /\ IntOf(tagged_result(n)) = n
<1>1. tagged_result(n).kind = "tagged" /\ NoResult.kind = "null pointer"
  BY DEF tagged_result, OfWord, NoResult
<1> QED BY <1>1, RoundTrip DEF tagged_result, OfWord, IntOf

\* Addition, subtraction and multiplication of compiled code are exact for every mixture of
\* words, int objects and bools: the overflow and range tests of the fast path send every
\* result that a word cannot hold to the big integers, and no other.
THEOREM ArithmeticExact ==
    ASSUME H \in Widths, NEW x \in Numbers, NEW y \in Numbers
    PROVE  /\ IntOf(rt_binary("add", x, y)) = IntOf(x) + IntOf(y)
           /\ IntOf(rt_binary("sub", x, y)) = IntOf(x) - IntOf(y)
           /\ IntOf(rt_binary("mul", x, y)) = IntOf(x) * IntOf(y)
<1>0. IntOf(x) \in Int /\ IntOf(y) \in Int
  BY NumberKinds
<1> DEFINE l == flatten(x)
           r == flatten(y)
           Val(op) == CASE op = "add" -> IntOf(x) + IntOf(y)
                        [] op = "sub" -> IntOf(x) - IntOf(y)
                        [] op = "mul" -> IntOf(x) * IntOf(y)
<1>1. ASSUME NEW op \in {"add", "sub", "mul"}
      PROVE  IntOf(rt_binary(op, x, y)) = Val(op)
  <2>1. Val(op) \in Int
    BY <1>0
  <2>2. IntOf(Slow(op, l, r)) = Val(op)
    BY FlattenKeeps DEF Slow, IntObject, IntOf
  <2>3. CASE l.kind = "tagged" /\ r.kind = "tagged"
    <3>1. as_int(l.bits) = IntOf(x) /\ as_int(r.bits) = IntOf(y)
      BY <2>3, FlattenKeeps
    <3>2. Fast(op, as_int(l.bits), as_int(r.bits))
            = IF Val(op) \in Int64 /\ FitsTagged(Val(op)) THEN tagged_result(Val(op)) ELSE NoResult
      BY <3>1 DEF Fast
    <3>3. CASE Val(op) \in Int64 /\ FitsTagged(Val(op))
      BY <3>2, <3>3, <2>1, <2>3, TaggedResult DEF rt_binary
    <3>4. CASE ~(Val(op) \in Int64 /\ FitsTagged(Val(op)))
      BY <3>2, <3>4, <2>2, <2>3 DEF rt_binary
    <3> QED BY <3>3, <3>4
  <2>4. CASE ~(l.kind = "tagged" /\ r.kind = "tagged")
    BY <2>4, <2>2 DEF rt_binary
  <2> QED BY <2>3, <2>4
<1> QED BY <1>1

-----------------------------------------------------------------------------
(* Division *)

\* Division of natural numbers.
LEMMA NatDivision ==
    ASSUME NEW a \in Nat, NEW b \in PosNat
    PROVE  /\ a \div b \in Nat
           /\ b * (a \div b) <= a
           /\ a < b * (a \div b) + b
BY DEF PosNat

\* The remainder of the machine is less than the divisor and has the sign of the dividend.
LEMMA TruncDivision ==
    ASSUME NEW a \in Int, NEW b \in Int, b # 0
    PROVE  /\ TruncDiv(a, b) \in Int
           /\ TruncRem(a, b) \in Int
           /\ a = b * TruncDiv(a, b) + TruncRem(a, b)
           /\ Abs(TruncRem(a, b)) < Abs(b)
           /\ a >= 0 => TruncRem(a, b) >= 0
           /\ a < 0 => TruncRem(a, b) <= 0
<1> DEFINE q == Abs(a) \div Abs(b)
<1>1. Abs(a) \in Nat /\ Abs(b) \in PosNat
  BY DEF Abs, PosNat
<1>2. /\ q \in Nat
      /\ Abs(b) * q <= Abs(a)
      /\ Abs(a) < Abs(b) * q + Abs(b)
  BY <1>1, NatDivision
<1>3. TruncDiv(a, b) = IF (a < 0) = (b < 0) THEN q ELSE -q
  BY DEF TruncDiv
<1> HIDE DEF q
<1>4. CASE a >= 0 /\ b > 0
  BY <1>2, <1>3, <1>4 DEF TruncRem, Abs
<1>5. CASE a < 0 /\ b < 0
  BY <1>2, <1>3, <1>5 DEF TruncRem, Abs
<1>6. CASE a < 0 /\ b > 0
  BY <1>2, <1>3, <1>6 DEF TruncRem, Abs
<1>7. CASE a >= 0 /\ b < 0
  BY <1>2, <1>3, <1>7 DEF TruncRem, Abs
<1> QED BY <1>4, <1>5, <1>6, <1>7

\* fast_floordiv_i64 and fast_mod_i64: one step down for a remainder of the wrong sign turns the
\* division of the machine into the one of Python.
THEOREM FloorDivision ==
    ASSUME NEW a \in Int, NEW b \in Int, b # 0
    PROVE  /\ FloorQuotient(a, b) \in Int
           /\ FloorRemainder(a, b) \in Int
           /\ IsDivMod(a, b, FloorQuotient(a, b), FloorRemainder(a, b))
<1> DEFINE t == TruncDiv(a, b)
           m == TruncRem(a, b)
<1>1. /\ t \in Int /\ m \in Int
      /\ a = b * t + m
      /\ Abs(m) < Abs(b)
  BY TruncDivision
<1>2. /\ FloorQuotient(a, b) = IF m # 0 /\ (m < 0) # (b < 0) THEN t - 1 ELSE t
      /\ FloorRemainder(a, b) = IF m # 0 /\ (m < 0) # (b < 0) THEN m + b ELSE m
  BY DEF FloorQuotient, FloorRemainder, Adjust
<1> HIDE DEF t, m
<1>3. b * (t - 1) = b * t - b
  BY <1>1
<1>4. CASE m # 0 /\ (m < 0) # (b < 0)
  BY <1>1, <1>2, <1>3, <1>4 DEF IsDivMod, Abs
<1>5. CASE ~(m # 0 /\ (m < 0) # (b < 0))
  BY <1>1, <1>2, <1>5 DEF IsDivMod, Abs
<1> QED BY <1>4, <1>5
\* When both numbers have the same sign, rounding down is rounding towards zero.
LEMMA SameSigns ==
    ASSUME NEW a \in Int, NEW b \in Int, b # 0, (a < 0) = (b < 0)
    PROVE  FloorQuotient(a, b) = TruncDiv(a, b) /\ FloorRemainder(a, b) = TruncRem(a, b)
<1>0. /\ TruncRem(a, b) \in Int
      /\ a >= 0 => TruncRem(a, b) >= 0
      /\ a < 0 => TruncRem(a, b) <= 0
  BY TruncDivision
<1>1. ~Adjust(a, b)
  <2>1. CASE a >= 0 /\ b > 0
    BY <1>0, <2>1 DEF Adjust
  <2>2. CASE a < 0 /\ b < 0
    BY <1>0, <2>2 DEF Adjust
  <2> QED BY <2>1, <2>2
<1> QED BY <1>1 DEF FloorQuotient, FloorRemainder

\* The results of fast_mod_i64, which has no range test, always fit, and those of
\* fast_floordiv_i64 do except for the one quotient that negates the smallest number.
THEOREM DivisionFits ==
    ASSUME H \in Widths, NEW a \in Int, NEW b \in Int, b # 0, FitsTagged(a), FitsTagged(b)
    PROVE  /\ FitsTagged(FloorRemainder(a, b))
           /\ ~(a = -H /\ b = -1) => FitsTagged(FloorQuotient(a, b))
<1> DEFINE q == FloorQuotient(a, b)
           m == FloorRemainder(a, b)
<1>1. /\ q \in Int /\ m \in Int
      /\ a = b * q + m
      /\ b > 0 => 0 <= m /\ m < b
      /\ b < 0 => b < m /\ m <= 0
  <2>1. q \in Int /\ m \in Int /\ IsDivMod(a, b, q, m)
    BY FloorDivision
  <2> HIDE DEF q, m
  <2> QED BY <2>1 DEF IsDivMod
<1> HIDE DEF q, m
<1>2. FitsTagged(m)
  BY <1>1 DEF FitsTagged, Widths
<1>3. ASSUME ~(a = -H /\ b = -1)
      PROVE  FitsTagged(q)
  <2>1. CASE b > 0
    <3>1. ASSUME q >= H PROVE FALSE
      <4>1. b * q >= q BY <2>1, <3>1, <1>1 DEF Widths
      <4> QED BY <4>1, <3>1, <2>1, <1>1 DEF FitsTagged, Widths
    <3>2. ASSUME q < -H PROVE FALSE
      <4>1. b * (q + 1) <= q + 1 BY <2>1, <3>2, <1>1 DEF Widths
      <4>2. b * (q + 1) = b * q + b BY <1>1
      <4> QED BY <4>1, <4>2, <3>2, <2>1, <1>1 DEF FitsTagged, Widths
    <3> QED BY <3>1, <3>2, <1>1 DEF FitsTagged, Widths
  <2>2. CASE b = -1
    <3>1. m = 0 /\ q = -a
      BY <2>2, <1>1
    <3> QED BY <3>1, <2>2, <1>3 DEF FitsTagged, Widths
  <2>3. CASE b < -1
    <3>1. ASSUME q >= H PROVE FALSE
      <4>1. b * q <= -(2 * q) BY <2>3, <3>1, <1>1 DEF Widths
      <4> QED BY <4>1, <3>1, <2>3, <1>1 DEF FitsTagged, Widths
    <3>2. ASSUME q < -H PROVE FALSE
      <4>1. b * (q + 1) >= -(2 * (q + 1)) BY <2>3, <3>2, <1>1 DEF Widths
      <4>2. b * (q + 1) = b * q + b BY <1>1
      <4> QED BY <4>1, <4>2, <3>2, <2>3, <1>1 DEF FitsTagged, Widths
    <3> QED BY <3>1, <3>2, <1>1 DEF FitsTagged, Widths
  <2> QED BY <2>1, <2>2, <2>3, <1>1
<1> QED BY <1>2, <1>3 DEF q, m

\* What rt_binary answers for // and %: the floor on the fast path, truncation on the slow one.
LEMMA DivisionResults ==
    ASSUME H \in Widths, NEW x \in Numbers, NEW y \in Numbers, IntOf(y) # 0
    PROVE  LET a == IntOf(x)
               b == IntOf(y)
               small == FitsTagged(a) /\ FitsTagged(b)
           IN  /\ IntOf(rt_binary("floordiv", x, y)) =
                     IF small /\ FitsTagged(FloorQuotient(a, b)) THEN FloorQuotient(a, b)
                     ELSE TruncDiv(a, b)
               /\ IntOf(rt_binary("mod", x, y)) =
                     IF small THEN FloorRemainder(a, b) ELSE TruncRem(a, b)
<1> DEFINE a == IntOf(x)
           b == IntOf(y)
           l == flatten(x)
           r == flatten(y)
<1>0. a \in Int /\ b \in Int /\ b # 0
  BY NumberKinds
<1>1. /\ FloorQuotient(a, b) \in Int /\ FloorRemainder(a, b) \in Int
  BY <1>0, FloorDivision
<1>2. /\ IntOf(Slow("floordiv", l, r)) = TruncDiv(a, b)
      /\ IntOf(Slow("mod", l, r)) = TruncRem(a, b)
  BY FlattenKeeps DEF Slow, IntObject, IntOf
<1>3. CASE l.kind = "tagged" /\ r.kind = "tagged"
  <2>1. as_int(l.bits) = a /\ as_int(r.bits) = b /\ FitsTagged(a) /\ FitsTagged(b)
    BY <1>3, FlattenKeeps
  <2>2. /\ Fast("floordiv", a, b) = IF FitsTagged(FloorQuotient(a, b))
                                    THEN tagged_result(FloorQuotient(a, b)) ELSE NoResult
        /\ Fast("mod", a, b) = tagged_result(FloorRemainder(a, b))
    BY <1>0 DEF Fast
  <2>3. FitsTagged(FloorRemainder(a, b))
    BY <2>1, <1>0, DivisionFits
  <2>4. IntOf(rt_binary("mod", x, y)) = FloorRemainder(a, b)
    BY <2>1, <2>2, <2>3, <1>1, <1>3, TaggedResult DEF rt_binary
  <2>5. CASE FitsTagged(FloorQuotient(a, b))
    BY <2>1, <2>2, <2>4, <2>5, <1>1, <1>3, TaggedResult DEF rt_binary
  <2>6. CASE ~FitsTagged(FloorQuotient(a, b))
    BY <2>1, <2>2, <2>4, <2>6, <1>2, <1>3 DEF rt_binary
  <2> QED BY <2>5, <2>6
<1>4. CASE ~(l.kind = "tagged" /\ r.kind = "tagged")
  <2>1. ~(FitsTagged(a) /\ FitsTagged(b))
    BY <1>4, FlattenKeeps
  <2> QED BY <2>1, <1>2, <1>4 DEF rt_binary
<1> QED BY <1>3, <1>4

\* // and % of compiled code are those of Python when both numbers fit into words, in whatever
\* representation they come, and also beyond when they have the same sign; the one quotient of
\* two words that does not fit is computed by the big integers and is right as well.
THEOREM DivisionExact ==
    ASSUME H \in Widths, NEW x \in Numbers, NEW y \in Numbers, IntOf(y) # 0,
           \/ FitsTagged(IntOf(x)) /\ FitsTagged(IntOf(y))
           \/ (IntOf(x) < 0) = (IntOf(y) < 0)
    PROVE  IsDivMod(IntOf(x), IntOf(y), IntOf(rt_binary("floordiv", x, y)), IntOf(rt_binary("mod", x, y)))
<1> DEFINE a == IntOf(x)
           b == IntOf(y)
<1>0. a \in Int /\ b \in Int /\ b # 0
  BY NumberKinds
<1>1. IsDivMod(a, b, FloorQuotient(a, b), FloorRemainder(a, b))
  BY <1>0, FloorDivision
<1>2. (a < 0) = (b < 0) =>
        FloorQuotient(a, b) = TruncDiv(a, b) /\ FloorRemainder(a, b) = TruncRem(a, b)
  BY <1>0, SameSigns
<1>3. ~((a < 0) = (b < 0)) => FitsTagged(FloorQuotient(a, b))
  BY <1>0, DivisionFits DEF Widths
<1>4. /\ IntOf(rt_binary("floordiv", x, y)) = FloorQuotient(a, b)
      /\ IntOf(rt_binary("mod", x, y)) = FloorRemainder(a, b)
  BY <1>2, <1>3, DivisionResults
<1> QED BY <1>1, <1>4

\* The precondition of DivisionExact is needed: with a number that does not fit and different
\* signs PyNumber::__mod__ answers with a remainder of the wrong sign whenever there is one.
THEOREM BigDivisionTruncates ==
    ASSUME H \in Widths, NEW x \in Numbers, NEW y \in Numbers, IntOf(y) # 0,
           ~(FitsTagged(IntOf(x)) /\ FitsTagged(IntOf(y))),
           ~((IntOf(x) < 0) = (IntOf(y) < 0)),
           TruncRem(IntOf(x), IntOf(y)) # 0
    PROVE  ~IsDivMod(IntOf(x), IntOf(y), IntOf(rt_binary("floordiv", x, y)), IntOf(rt_binary("mod", x, y)))
<1> DEFINE a == IntOf(x)
           b == IntOf(y)
<1>0. a \in Int /\ b \in Int /\ b # 0
  BY NumberKinds
<1>1. IntOf(rt_binary("mod", x, y)) = TruncRem(a, b)
  BY DivisionResults
<1>2. /\ TruncRem(a, b) \in Int
      /\ a >= 0 => TruncRem(a, b) >= 0
      /\ a < 0 => TruncRem(a, b) <= 0
  BY <1>0, TruncDivision
<1> QED BY <1>0, <1>1, <1>2 DEF IsDivMod

-----------------------------------------------------------------------------
(* Keys of dictionaries *)

\* The remainder of a number below the modulus is the number.
LEMMA SmallRemainder ==
    ASSUME NEW a \in Nat, NEW b \in PosNat, a < b
    PROVE  a % b = a
BY DEF PosNat

\* RtValueEq and RtValueHash, by which a dictionary finds a key: two ints are equal exactly when
\* they are the same number, as a word or as an object, and equal keys have the same hash,
\* although a word is hashed by hash_big_int and an object by a shortcut of PyInteger::__hash__.
THEOREM EqualKeysHashAlike ==
    ASSUME H \in Widths, P \in PosNat, NEW x \in Numbers, NEW y \in Numbers
    PROVE  /\ RtValueEq(x, y) => RtValueHash(x) = RtValueHash(y)
           /\ x.kind # "bool" /\ y.kind # "bool" => (RtValueEq(x, y) <=> IntOf(x) = IntOf(y))
<1>1. ASSUME NEW n \in Int
      PROVE  IntegerHash(n) = hash_big_int(n)
  <2>1. CASE n > -P /\ n < P
    <3>1. Abs(n) \in Nat /\ Abs(n) < P
      BY <2>1 DEF Abs, PosNat
    <3>2. Abs(n) % P = Abs(n)
      BY <3>1, SmallRemainder
    <3>3. (IF n < 0 THEN -(Abs(n) % P) ELSE Abs(n) % P) = n
      BY <3>2 DEF Abs
    <3> QED BY <3>3 DEF IntegerHash, hash_big_int
  <2>2. CASE ~(n > -P /\ n < P)
    BY <2>2 DEF IntegerHash
  <2> QED BY <2>1, <2>2
<1>2. ASSUME NEW z \in Numbers
      PROVE  RtValueHash(z) = hash_big_int(IntOf(z))
  BY <1>1, NumberKinds DEF RtValueHash, IntOf
<1>3. RtValueEq(x, y) => IntOf(x) = IntOf(y)
  BY DEF RtValueEq, SameObject, IntOf
<1>4. x.kind # "bool" /\ y.kind # "bool" /\ IntOf(x) = IntOf(y) => RtValueEq(x, y)
  BY DEF RtValueEq, SameObject, IntOf
<1> QED BY <1>2, <1>3, <1>4

-----------------------------------------------------------------------------
(* Arithmetic *)

\* Products keep the order when the factor is positive.
LEMMA ProductMonotone ==
    ASSUME NEW a \in Int, NEW b \in Int, NEW s \in Int, s > 0
    PROVE  /\ a * s \in Int
           /\ a <= b => a * s <= b * s
           /\ a < b <=> a * s < b * s
<1>1. ASSUME NEW d \in Int, d > 0 PROVE d * s > 0
  BY <1>1
<1>2. a * s \in Int /\ b * s \in Int
  OBVIOUS
<1>3. a < b => a * s < b * s
  <2>1. HAVE a < b
  <2>2. (b - a) * s > 0
    BY <2>1, <1>1
  <2>3. b * s = a * s + (b - a) * s
    OBVIOUS
  <2> QED BY <2>2, <2>3, <1>2
<1>4. b < a => b * s < a * s
  <2>1. HAVE b < a
  <2>2. (a - b) * s > 0
    BY <2>1, <1>1
  <2>3. a * s = b * s + (a - b) * s
    OBVIOUS
  <2> QED BY <2>2, <2>3, <1>2
<1>5. a = b => a * s = b * s
  OBVIOUS
<1> QED BY <1>2, <1>3, <1>4, <1>5

\* The number of multiples of s from 0 to x.
LEMMA Multiples ==
    ASSUME NEW x \in Nat, NEW s \in PosNat, NEW i \in Nat
    PROVE  /\ x \div s \in Nat
           /\ i < (x \div s) + 1 <=> i * s <= x
<1> DEFINE q == x \div s
<1>1. q \in Nat /\ s * q <= x /\ x < s * q + s
  BY NatDivision
<1> HIDE DEF q
<1>2. i <= q => i * s <= q * s
  BY <1>1, ProductMonotone DEF PosNat
<1>3. q + 1 <= i => (q + 1) * s <= i * s
  BY <1>1, ProductMonotone DEF PosNat
<1>4. (q + 1) * s = s * q + s /\ q * s = s * q /\ i * s \in Int
  BY <1>1 DEF PosNat
<1>5. i < q + 1 <=> i * s <= x
  BY <1>1, <1>2, <1>3, <1>4 DEF PosNat
<1> QED BY <1>1, <1>5 DEF q

-----------------------------------------------------------------------------
(* One element *)

\* PyList, PyTuple, PyBytes, PyByteArray and the fast paths of rt_getitem, which all compute the
\* position in their own way, take an index as Python does: the position they read is inside.
THEOREM ItemAccess ==
    ASSUME H \in Widths, NEW index \in Int64, NEW length \in Lengths
    PROVE  /\ GetItem(index, length) = PythonIndex(index, length)
           /\ AddFirst(index, length) = PythonIndex(index, length)
           /\ PythonIndex(index, length) \in (0..(length - 1)) \cup {IndexError}
BY DEF Widths, Int64, Lengths, GetItem, AddFirst, PythonIndex, IndexError, Abs

\* PyString does so for every index but the smallest integer, whose absolute value does not
\* exist: its assertion ends the process.
THEOREM StringAccess ==
    ASSUME H \in Widths, NEW index \in Int64, NEW length \in Lengths
    PROVE  StringGetItem(index, length)
             = IF index = Smallest THEN Assertion ELSE PythonIndex(index, length)
BY DEF Widths, Int64, Lengths, StringGetItem, SignedAbs, PythonIndex, IndexError, Assertion, Smallest, Abs

\* PyList::__delitem__ does so for every index but the length of the list, which it takes for a
\* position and erases the element behind the last one.
THEOREM DeletionAccess ==
    ASSUME H \in Widths, NEW index \in Int64, NEW length \in Lengths
    PROVE  DeleteItem(index, length)
             = IF index = length THEN length ELSE PythonIndex(index, length)
BY DEF Widths, Int64, Lengths, DeleteItem, PythonIndex, IndexError, Abs

-----------------------------------------------------------------------------
(* Slices *)

\* adjust_indices counts negative bounds from the end and cuts them to the sequence.
THEOREM BoundsAreClamped ==
    ASSUME H \in Widths, NEW x \in Int64, NEW step \in Int64, step # 0, NEW length \in Lengths
    PROVE  /\ Adjusted(x, step, length) = PythonBound(x, step, length)
           /\ Adjusted(x, step, length) \in Int64
           /\ step > 0 => Adjusted(x, step, length) \in 0..length
           /\ step < 0 => Adjusted(x, step, length) \in (-1)..(length - 1)
BY DEF Widths, Int64, Lengths, Adjusted, PythonBound

\* An omitted bound, for which unpack stands the largest or smallest integer, means the end of
\* the sequence that the direction of the slice asks for, whatever the length.
THEOREM OmittedBounds ==
    ASSUME H \in Widths, NEW b \in Bound, ~b.given,
           NEW step \in Int64, step # 0, NEW length \in Lengths
    PROVE  /\ Adjusted(UnpackStart(b, step), step, length) = IF step < 0 THEN length - 1 ELSE 0
           /\ Adjusted(UnpackStop(b, step), step, length) = IF step < 0 THEN -1 ELSE length
BY DEF Widths, Int64, Lengths, Adjusted, UnpackStart, UnpackStop, Smallest, Largest

\* The loop of __getitem__ takes exactly the positions from start on that come before stop, for
\* either direction and any step, and all of them are inside the sequence: its unchecked
\* accesses are safe.  A step that is the smallest integer, which cannot be negated, is no
\* exception: the quotient is zero with either sign.
THEOREM SliceVisitsExactly ==
    ASSUME H \in Widths, NEW start \in Int64, NEW stop \in Int64, NEW step \in Int64, step # 0,
           NEW length \in Lengths, NEW i \in Nat
    PROVE  LET s == adjust_indices(start, stop, step, length)
           IN  /\ i < s.length <=> Before(Visited(s, step, i), s.stop, step)
               /\ i < s.length => Visited(s, step, i) \in 0..(length - 1)
<1> DEFINE first == Adjusted(start, step, length)
           end == Adjusted(stop, step, length)
           n == SliceLength(first, end, step)
<1>1. /\ first \in Int64 /\ end \in Int64
      /\ step > 0 => first \in 0..length /\ end \in 0..length
      /\ step < 0 => first \in (-1)..(length - 1) /\ end \in (-1)..(length - 1)
  BY BoundsAreClamped
<1>2. step \in Int /\ length \in Nat /\ i * step \in Int
  BY DEF Int64, Lengths, Widths
<1>3. SUFFICES /\ i < n <=> Before(first + i * step, end, step)
               /\ i < n => first + i * step \in 0..(length - 1)
  BY DEF adjust_indices, Visited
<1> HIDE DEF first, end
<1>4. CASE step > 0
  <2> DEFINE x == end - first - 1
  <2>1. CASE first < end
    <3>1. x \in Nat /\ step \in PosNat
      BY <1>1, <1>2, <1>4, <2>1 DEF PosNat, Int64, Widths
    <3>2. n = (x \div step) + 1
      BY <3>1, <1>4, <2>1 DEF SliceLength, TruncDiv, Abs, PosNat
    <3>3. i < n <=> i * step <= x
      BY <3>1, <3>2, Multiples
    <3>4. i * step >= 0
      BY <1>2, <1>4, ProductMonotone
    <3> HIDE DEF n
    <3> QED BY <1>1, <1>2, <1>4, <3>3, <3>4 DEF Before
  <2>2. CASE ~(first < end)
    <3>1. n = 0
      BY <1>2, <1>4, <2>2 DEF SliceLength
    <3>2. i * step >= 0
      BY <1>2, <1>4, ProductMonotone
    <3> HIDE DEF n
    <3> QED BY <1>1, <1>2, <1>4, <2>2, <3>1, <3>2 DEF Before
  <2> QED BY <2>1, <2>2
<1>5. CASE step < 0
  <2> DEFINE x == first - end - 1
             s == -step
  <2>0. i * s = -(i * step) /\ i * s >= 0
    BY <1>2, <1>5, ProductMonotone
  <2>1. CASE end < first
    <3>1. x \in Nat /\ s \in PosNat
      BY <1>1, <1>2, <1>5, <2>1 DEF PosNat, Int64, Widths
    <3>2. n = (x \div s) + 1
      <4>1. CASE step # Smallest
        BY <3>1, <1>5, <2>1, <4>1 DEF SliceLength, TruncDiv, Abs, PosNat, Opposite
      <4>2. CASE step = Smallest
        <5>1. Abs(x) = x /\ Abs(step) = s
          BY <3>1, <1>2, <1>5 DEF Abs
        <5>2. x < s
          BY <1>1, <1>2, <4>2, <2>1 DEF Smallest, Lengths, Int64, Widths
        <5>3. x \div s = 0
          BY <3>1, <5>2, NatDivision, SmallRemainder DEF PosNat
        <5>4. TruncDiv(x, step) = -(x \div s)
          BY <5>1, <3>1, <1>2, <1>5 DEF TruncDiv
        <5>5. n = TruncDiv(x, step) + 1
          BY <1>5, <2>1, <4>2 DEF SliceLength, Opposite
        <5> QED BY <5>3, <5>4, <5>5
      <4> QED BY <4>1, <4>2
    <3>3. i < n <=> i * s <= x
      BY <3>1, <3>2, Multiples
    <3> HIDE DEF n
    <3> QED BY <1>1, <1>2, <1>5, <2>0, <3>3 DEF Before
  <2>2. CASE ~(end < first)
    <3>1. n = 0
      BY <1>5, <2>2 DEF SliceLength
    <3> HIDE DEF n
    <3> QED BY <1>1, <1>2, <1>5, <2>0, <2>2, <3>1 DEF Before
  <2> QED BY <2>1, <2>2
<1> QED BY <1>2, <1>4, <1>5

\* Where a slice is answered with a copy of the whole sequence, the loop would have visited all
\* of it in order.
THEOREM ShortcutIsWhole ==
    ASSUME H \in Widths, NEW start \in Int64, NEW stop \in Int64, NEW step \in Int64, step # 0,
           NEW length \in Lengths,
           Shortcut(adjust_indices(start, stop, step, length), step, length)
    PROVE  LET s == adjust_indices(start, stop, step, length)
           IN  s.length = length /\ \A i \in Nat : Visited(s, step, i) = i
<1> DEFINE first == Adjusted(start, step, length)
           end == Adjusted(stop, step, length)
<1>1. first = 0 /\ end = length /\ step = 1
  BY DEF adjust_indices, Shortcut
<1>2. length \in Nat
  BY DEF Lengths, Int64, Widths
<1>3. SliceLength(0, length, 1) = length
  <2>1. CASE length = 0
    BY <2>1 DEF SliceLength
  <2>2. CASE length > 0
    BY <1>2, <2>2 DEF SliceLength, TruncDiv, Abs
  <2> QED BY <1>2, <2>1, <2>2
<1> QED BY <1>1, <1>3 DEF adjust_indices, Visited

\* No sum or difference of adjust_indices leaves the machine integers: the negation of the
\* smallest step is its only overflow.
THEOREM SliceNoOverflow ==
    ASSUME H \in Widths, NEW x \in Int64, NEW y \in Int64, NEW step \in Int64, step # 0,
           NEW length \in Lengths
    PROVE  LET a == Adjusted(x, step, length)
               b == Adjusted(y, step, length)
           IN  /\ x < 0 => x + length \in Int64
               /\ b < a => a - b - 1 \in Int64
               /\ step # Smallest => Opposite(step) = -step /\ -step \in Int64
<1>1. /\ Adjusted(x, step, length) \in (-1)..length
      /\ Adjusted(y, step, length) \in (-1)..length
      /\ step < 0 => Adjusted(x, step, length) <= length - 1
      /\ step > 0 => Adjusted(y, step, length) >= 0
  <2>1. step \in Int /\ length \in Nat
    BY DEF Widths, Int64, Lengths
  <2>2. CASE step > 0
    BY <2>1, <2>2, BoundsAreClamped
  <2>3. CASE step < 0
    BY <2>1, <2>3, BoundsAreClamped
  <2> QED BY <2>1, <2>2, <2>3
<1> QED BY <1>1 DEF Widths, Int64, Lengths, Opposite, Smallest

-----------------------------------------------------------------------------
(* Ranges *)

\* A range in terms of the distance it covers and the size of its steps.
LEMMA RangeSteps ==
    ASSUME NEW r \in Ranges, Within(r, r.start)
    PROVE  LET w == Abs(r.stop - r.start)
               s == Abs(r.step)
               m == w - s * Count(r)
           IN  /\ w \in PosNat /\ s \in PosNat /\ Count(r) \in Nat
               /\ m \in Nat /\ m < s
               /\ m = 0 <=> TruncRem(r.stop - r.start, r.step) = 0
               /\ \A i \in Int : Within(r, Item(r, i)) <=> i * s < w
<1> DEFINE d == r.stop - r.start
           w == Abs(d)
           s == Abs(r.step)
<1>1. r.start \in Int /\ r.stop \in Int /\ r.step \in Int /\ r.step # 0 /\ d \in Int
  BY DEF Ranges
<1>2. w \in PosNat /\ s \in PosNat /\ (d < 0) = (r.step < 0)
  BY <1>1 DEF Within, Abs, PosNat
<1>3. Count(r) = w \div s
  BY <1>2 DEF Count, TruncDiv
<1>4. Count(r) \in Nat /\ s * Count(r) <= w /\ w < s * Count(r) + s
  BY <1>2, <1>3, NatDivision DEF PosNat
<1>5. TruncRem(d, r.step) = d - r.step * Count(r)
  BY DEF TruncRem, Count
<1>6. CASE r.step > 0
  <2>1. w = d /\ s = r.step
    BY <1>1, <1>2, <1>6 DEF Abs
  <2>2. ASSUME NEW i \in Int PROVE Within(r, Item(r, i)) <=> i * s < w
    <3>1. r.step * i = i * s /\ i * s \in Int
      BY <2>1, <1>1
    <3> QED BY <3>1, <2>1, <1>1, <1>6 DEF Within, Item
  <2> QED BY <1>1, <1>2, <1>4, <1>5, <2>1, <2>2 DEF PosNat
<1>7. CASE r.step < 0
  <2>1. w = -d /\ s = -r.step
    BY <1>1, <1>2, <1>7 DEF Abs
  <2>2. ASSUME NEW i \in Int PROVE Within(r, Item(r, i)) <=> i * s < w
    <3>1. r.step * i = -(i * s) /\ i * s \in Int
      BY <2>1, <1>1
    <3> QED BY <3>1, <2>1, <1>1, <1>7 DEF Within, Item
  <2>3. s * Count(r) = -(r.step * Count(r))
    BY <2>1, <1>1, <1>4
  <2> QED BY <1>1, <1>2, <1>4, <1>5, <2>1, <2>2, <2>3 DEF PosNat
<1> QED BY <1>1, <1>6, <1>7

\* The n of __getitem__ and __reversed__, "the number of integers in the range", is that number
\* when the step divides the distance, and one less than it otherwise.
THEOREM RangeCount ==
    ASSUME NEW r \in Ranges, Within(r, r.start), NEW i \in Nat
    PROVE  Within(r, Item(r, i))
             <=> i < Count(r) + (IF TruncRem(r.stop - r.start, r.step) = 0 THEN 0 ELSE 1)
<1> DEFINE w == Abs(r.stop - r.start)
           s == Abs(r.step)
           c == Count(r)
           m == w - s * c
<1>1. /\ w \in PosNat /\ s \in PosNat /\ c \in Nat
      /\ m \in Nat /\ m < s
      /\ m = 0 <=> TruncRem(r.stop - r.start, r.step) = 0
      /\ Within(r, Item(r, i)) <=> i * s < w
  BY RangeSteps
<1> HIDE DEF w, s, c
<1>2. /\ i < c <=> i * s < c * s
      /\ i <= c => i * s <= c * s
      /\ c + 1 <= i => (c + 1) * s <= i * s
      /\ i * s \in Int
  BY <1>1, ProductMonotone DEF PosNat
<1>3. c * s = s * c /\ (c + 1) * s = s * c + s /\ w = s * c + m
  BY <1>1 DEF PosNat
<1>4. CASE m = 0
  <2>1. i < c <=> i * s < w
    BY <1>1, <1>2, <1>3, <1>4 DEF PosNat
  <2> QED BY <1>1, <1>4, <2>1 DEF c
<1>5. CASE m # 0
  <2>1. i < c + 1 => i * s < w
    BY <1>1, <1>2, <1>3, <1>5 DEF PosNat
  <2>2. ~(i < c + 1) => ~(i * s < w)
    BY <1>1, <1>2, <1>3, <1>5 DEF PosNat
  <2> QED BY <1>1, <1>5, <2>1, <2>2 DEF c
<1> QED BY <1>4, <1>5

\* When the step divides the distance, reversed() hands out the numbers of the range in the
\* other order, all of them and no other.
THEOREM ReversedExact ==
    ASSUME NEW r \in Ranges, Within(r, r.start), TruncRem(r.stop - r.start, r.step) = 0,
           NEW i \in Nat
    PROVE  /\ Item(Reversed(r), i) = Item(r, Count(r) - 1 - i)
           /\ Within(Reversed(r), Item(Reversed(r), i)) <=> i < Count(r)
<1> DEFINE c == Count(r)
           t == r.step
<1>1. r.start \in Int /\ r.stop \in Int /\ t \in Int /\ t # 0 /\ c \in Int
  BY RangeSteps DEF Ranges
<1>2. /\ Reversed(r).start = r.start + (c - 1) * t
      /\ Reversed(r).stop = r.start - t
      /\ Reversed(r).step = -t
  BY DEF Reversed, Range3
<1> HIDE DEF c, t
<1>3. /\ (-t) * i = -(t * i)
      /\ t * (c - 1 - i) = (c - 1) * t - t * i
      /\ t * i \in Int /\ (c - 1) * t \in Int
  BY <1>1
<1>4. Item(Reversed(r), i) = r.start + (c - 1) * t - t * i
  BY <1>1, <1>2, <1>3 DEF Item
<1>5. Item(Reversed(r), i) = Item(r, c - 1 - i)
  BY <1>1, <1>3, <1>4 DEF Item, t
<1>6. (c - i) * t = (c - 1) * t - t * i + t
  BY <1>1
<1>7. CASE t > 0
  <2>1. 0 < c - i <=> 0 * t < (c - i) * t
    BY <1>1, <1>7, ProductMonotone
  <2>2. Within(Reversed(r), Item(Reversed(r), i)) <=> (c - i) * t > 0
    BY <1>1, <1>2, <1>3, <1>4, <1>6, <1>7 DEF Within
  <2> QED BY <1>1, <1>5, <2>1, <2>2 DEF c
<1>8. CASE t < 0
  <2>1. 0 < c - i <=> 0 * (-t) < (c - i) * (-t)
    BY <1>1, <1>8, ProductMonotone
  <2>2. (c - i) * (-t) = -((c - i) * t)
    BY <1>1
  <2>3. Within(Reversed(r), Item(Reversed(r), i)) <=> (c - i) * t < 0
    BY <1>1, <1>2, <1>3, <1>4, <1>6, <1>8 DEF Within
  <2> QED BY <1>1, <1>5, <2>1, <2>2, <2>3 DEF c
<1> QED BY <1>1, <1>7, <1>8

\* When it does not, the last number of the range is refused by __getitem__ and left out by
\* reversed(), against the comment of __reversed__.
THEOREM LastItemLost ==
    ASSUME NEW r \in Ranges, Within(r, r.start), TruncRem(r.stop - r.start, r.step) # 0
    PROVE  /\ Within(r, Item(r, Count(r)))
           /\ RangeGetItem(r, Count(r)) = NoItem
           /\ Reversed(r).start = Item(r, Count(r) - 1)
<1>1. Count(r) \in Nat
  BY RangeSteps
<1>2. Within(r, Item(r, Count(r)))
  BY <1>1, RangeCount
<1>3. RangeGetItem(r, Count(r)) = NoItem
  BY <1>1 DEF RangeGetItem
<1>4. Reversed(r).start = Item(r, Count(r) - 1)
  BY <1>1 DEF Reversed, Range3, Item, Ranges
<1> QED BY <1>2, <1>3, <1>4

\* An index that is too far from the end is not refused: the answer is a number before the
\* first one of the range.
THEOREM NegativeIndexUnchecked ==
    ASSUME NEW r \in Ranges, Within(r, r.start), NEW index \in Int, index < -Count(r)
    PROVE  /\ RangeGetItem(r, index) = IntObject(Item(r, index + Count(r)))
           /\ index + Count(r) < 0
<1>1. Count(r) \in Nat
  BY RangeSteps
<1> QED BY <1>1 DEF RangeGetItem

\* A slice of a range with both bounds given and not negative has the numbers whose positions, in
\* the range or beyond it, come before the end of the slice.
LEMMA RangeSliceItems ==
    ASSUME H \in Widths, NEW r \in Ranges, NEW start \in Bound, NEW stop \in Bound,
           NEW step \in Bound, UnpackStep(step) # 0, start.given, stop.given,
           start.val \in 0..(Largest - 1), stop.val \in 0..(Largest - 1), NEW i \in Nat
    PROVE  LET t == RangeGetSlice(r, start, stop, step)
               pos == start.val + i * UnpackStep(step)
           IN  /\ Item(t, i) = Item(r, pos)
               /\ Within(t, Item(t, i)) <=> Before(pos, stop.val, UnpackStep(step))
<1> DEFINE k == UnpackStep(step)
           a == start.val
           b == stop.val
           t == RangeGetSlice(r, start, stop, step)
           q == r.step
           pos == a + i * k
<1>1. k \in Int /\ a \in Int /\ b \in Int /\ r.start \in Int /\ q \in Int /\ q # 0 /\ k # 0
  BY DEF UnpackStep, Bound, Int64, Ranges, Widths
<1>2. /\ t.start = r.start + a * q
      /\ t.stop = r.start + b * q
      /\ t.step = k * q
  BY DEF RangeGetSlice, UnpackStart, UnpackStop, Range3, Largest, Smallest, Widths
<1> HIDE DEF k, a, b, q, t
<1>3. /\ i * k \in Int /\ pos \in Int
      /\ a * q \in Int /\ b * q \in Int /\ k * q \in Int /\ pos * q \in Int
      /\ (k * q) * i = (i * k) * q
      /\ pos * q = a * q + (i * k) * q
      /\ q * pos = pos * q
  BY <1>1
<1>4. Item(t, i) = r.start + pos * q
  BY <1>1, <1>2, <1>3 DEF Item
<1>5. Item(t, i) = Item(r, pos)
  BY <1>3, <1>4 DEF Item, q
<1>6. /\ q > 0 => /\ pos < b <=> pos * q < b * q
                  /\ b < pos <=> b * q < pos * q
      /\ q < 0 => /\ pos < b <=> pos * q > b * q
                  /\ b < pos <=> b * q > pos * q
  <2>1. CASE q > 0
    BY <1>1, <1>3, <2>1, ProductMonotone
  <2>2. CASE q < 0
    <3>1. /\ pos < b <=> pos * (-q) < b * (-q)
          /\ b < pos <=> b * (-q) < pos * (-q)
      BY <1>1, <1>3, <2>2, ProductMonotone
    <3>2. pos * (-q) = -(pos * q) /\ b * (-q) = -(b * q)
      BY <1>1, <1>3
    <3> QED BY <1>1, <1>3, <2>2, <3>1, <3>2
  <2> QED BY <1>1, <2>1, <2>2
<1>7. (k * q < 0) <=> ((k < 0) # (q < 0))
  BY <1>1
<1>8. Within(t, Item(t, i)) <=> Before(pos, b, k)
  <2>1. Within(t, Item(t, i)) <=> IF k * q < 0 THEN pos * q > b * q ELSE pos * q < b * q
    BY <1>1, <1>2, <1>3, <1>4 DEF Within
  <2> HIDE DEF pos
  <2> QED BY <1>1, <1>3, <1>6, <1>7, <2>1 DEF Before
<1> QED BY <1>5, <1>8 DEF k, a, b, t

\* Where Python cuts neither bound to the length n of the range, the slice that __getitem__ makes is
\* Python's: its numbers are those of the range at the positions before the stop.
THEOREM RangeSliceExact ==
    ASSUME H \in Widths, NEW r \in Ranges, NEW n, HasLength(r, n),
           NEW start \in Bound, NEW stop \in Bound, NEW step \in Bound,
           UnpackStep(step) # 0, start.given, stop.given,
           start.val \in 0..(Largest - 1), stop.val \in 0..(Largest - 1),
           PythonBound(start.val, UnpackStep(step), n) = start.val,
           PythonBound(stop.val, UnpackStep(step), n) = stop.val, NEW i \in Nat
    PROVE  LET t == RangeGetSlice(r, start, stop, step)
               pos == start.val + i * UnpackStep(step)
           IN  /\ Within(t, Item(t, i)) <=> Before(pos, stop.val, UnpackStep(step))
               /\ Within(t, Item(t, i)) =>
                      pos \in 0..(n - 1) /\ Item(t, i) = Item(r, pos) /\ Within(r, Item(t, i))
<1> DEFINE k == UnpackStep(step)
           a == start.val
           b == stop.val
           t == RangeGetSlice(r, start, stop, step)
           pos == a + i * k
<1>1. Item(t, i) = Item(r, pos) /\ (Within(t, Item(t, i)) <=> Before(pos, b, k))
  BY RangeSliceItems
<1>2. k \in Int /\ k # 0 /\ a \in Nat /\ b \in Nat /\ n \in Nat
  BY DEF UnpackStep, Bound, Int64, Largest, Widths, HasLength
<1>3. IF k < 0 THEN a <= n - 1 ELSE b <= n
  BY <1>2 DEF PythonBound
<1> HIDE DEF k, a, b, t
<1>4. i * k \in Int /\ (k > 0 => i * k >= 0) /\ (k < 0 => i * k <= 0)
  BY <1>2
<1>5. Before(pos, b, k) => pos \in 0..(n - 1)
  BY <1>2, <1>3, <1>4 DEF Before
<1>6. pos \in 0..(n - 1) => Within(r, Item(r, pos))
  BY <1>2 DEF HasLength
<1> QED BY <1>1, <1>5, <1>6 DEF k, a, b, t

\* __getitem__ does not cut: every position before the stop that lies behind the last number of the
\* range gives the slice a number that the range does not have, as in range(5)[0:10].
THEOREM RangeSliceNotCut ==
    ASSUME H \in Widths, NEW r \in Ranges, NEW n, HasLength(r, n),
           NEW start \in Bound, NEW stop \in Bound, NEW step \in Bound,
           UnpackStep(step) # 0, start.given, stop.given,
           start.val \in 0..(Largest - 1), stop.val \in 0..(Largest - 1), NEW i \in Nat,
           start.val + i * UnpackStep(step) >= n,
           Before(start.val + i * UnpackStep(step), stop.val, UnpackStep(step))
    PROVE  LET t == RangeGetSlice(r, start, stop, step)
           IN  Within(t, Item(t, i)) /\ ~Within(r, Item(t, i))
<1> DEFINE k == UnpackStep(step)
           t == RangeGetSlice(r, start, stop, step)
           pos == start.val + i * k
<1>1. Item(t, i) = Item(r, pos) /\ (Within(t, Item(t, i)) <=> Before(pos, stop.val, k))
  BY RangeSliceItems
<1>2. k \in Int /\ start.val \in Nat /\ n \in Nat
  BY DEF UnpackStep, Bound, Int64, Largest, Widths, HasLength
<1>3. pos \in Nat
  <2> HIDE DEF k
  <2>1. i * k \in Int
    BY <1>2
  <2> QED BY <1>2, <2>1 DEF k
<1>4. ~Within(r, Item(r, pos))
  BY <1>2, <1>3 DEF HasLength
<1> QED BY <1>1, <1>4

\* With the stop omitted a forward slice of a range has no numbers at all, wherever it starts:
\* the -1 that stands for the end is taken for the position before the first.
THEOREM RangeSliceWithoutStop ==
    ASSUME H \in Widths, NEW r \in Ranges, NEW start \in Bound, NEW stop \in Bound,
           NEW step \in Bound, UnpackStep(step) > 0, ~stop.given,
           start.given => start.val \in 0..(Largest - 1)
    PROVE  LET t == RangeGetSlice(r, start, stop, step) IN ~Within(t, t.start)
<1> DEFINE k == UnpackStep(step)
           a == UnpackStart(start, k)
           t == RangeGetSlice(r, start, stop, step)
           q == r.step
<1>1. k \in Int /\ k > 0 /\ a \in 0..(Largest - 1) /\ r.start \in Int /\ q \in Int /\ q # 0
  BY DEF UnpackStep, UnpackStart, Bound, Int64, Ranges, Largest, Widths
<1>2. /\ t.start = r.start + a * q
      /\ t.stop = r.start + (-1) * q
      /\ t.step = k * q
  BY <1>1 DEF RangeGetSlice, UnpackStop, Range3, Largest, Smallest, Widths
<1>3. a \in Nat
  BY <1>1 DEF Largest, Widths
<1> HIDE DEF k, a, q, t
<1>4. a * q \in Int /\ k * q \in Int /\ (-1) * q = -q /\ (a + 1) * q = a * q + q
  BY <1>1, <1>3
<1>5. CASE q > 0
  <2>1. k * q > 0 /\ (a + 1) * q > 0
    BY <1>1, <1>3, <1>5
  <2> QED BY <1>1, <1>2, <1>4, <2>1 DEF Within, t
<1>6. CASE q < 0
  <2>1. k * q < 0 /\ (a + 1) * q < 0
    BY <1>1, <1>3, <1>6
  <2> QED BY <1>1, <1>2, <1>4, <2>1 DEF Within, t
<1> QED BY <1>1, <1>5, <1>6
=============================================================================
