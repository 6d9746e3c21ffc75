----------------------------- MODULE TaggedInt -----------------------------
(***************************************************************************)
(* Integers in compiled code.  A value is one machine word: an odd word is *)
(* an integer of one bit less (runtime/taggered_pointer/RtValue.hpp), an   *)
(* even one points to an object, here an int of any size or a bool.        *)
(*                                                                         *)
(* The arithmetic on integers is tried on the words first, in the code     *)
(* that IREmitter::emit_tagged_binary_op emits and again in rt_binary_*,   *)
(* and left to the big integers of the objects when it does not fit.       *)
(***************************************************************************)
EXTENDS Integers

CONSTANTS
    H,  \* kTaggedIntMax + 1, a quarter of the number of words: 2^62 in the build
    P   \* kPyHashModulus: 2^61 - 1 in the build

Int64 == (-(2 * H))..(2 * H - 1)
Words == 0..(4 * H - 1)

\* fits_tagged_int
FitsTagged(n) == n >= -H /\ n <= H - 1

-----------------------------------------------------------------------------
(* The encoding *)

\* A signed number of the machine as a word and back.
AsWord(n) == IF n < 0 THEN n + 4 * H ELSE n
Signed(w) == IF w >= 2 * H THEN w - 4 * H ELSE w

\* A shift to the left loses the highest bit; the lowest one is then free for the tag.
Doubled(w) == IF w >= 2 * H THEN 2 * w - 4 * H ELSE 2 * w

from_int(n) == Doubled(AsWord(n)) + 1
is_tagged_int(w) == w % 2 = 1

\* The arithmetic shift to the right.
as_int(w) == Signed(w) \div 2

-----------------------------------------------------------------------------
(* Values: what a variable of the program may hold for an integer *)

OfWord(w) == [kind |-> "tagged", bits |-> w]
IntObject(n) == [kind |-> "int", val |-> n]
BoolObject(b) == [kind |-> "bool", val |-> b]

Numbers == {OfWord(w) : w \in {u \in Words : is_tagged_int(u)}}
           \cup {IntObject(n) : n \in Int}
           \cup {BoolObject(b) : b \in 0..1}

\* The integer that the program sees; box() makes an object of it.
IntOf(x) == IF x.kind = "tagged" THEN as_int(x.bits) ELSE x.val

\* RtValue::flatten: bools and small ints become words.
flatten(x) ==
    IF x.kind = "bool" \/ (x.kind = "int" /\ x.val \in Int64 /\ FitsTagged(x.val))
    THEN OfWord(from_int(x.val)) ELSE x

-----------------------------------------------------------------------------
(* Division of the machine, which rounds towards zero *)

Abs(n) == IF n < 0 THEN -n ELSE n
TruncDiv(a, b) ==
    IF (a < 0) = (b < 0) THEN Abs(a) \div Abs(b) ELSE -(Abs(a) \div Abs(b))
TruncRem(a, b) == a - b * TruncDiv(a, b)

\* (rem != 0) && ((rem ^ b) < 0)
Adjust(a, b) == LET rem == TruncRem(a, b) IN rem # 0 /\ (rem < 0) # (b < 0)

FloorQuotient(a, b) == IF Adjust(a, b) THEN TruncDiv(a, b) - 1 ELSE TruncDiv(a, b)
FloorRemainder(a, b) == IF Adjust(a, b) THEN TruncRem(a, b) + b ELSE TruncRem(a, b)

-----------------------------------------------------------------------------
(* Operations *)

NoResult == [kind |-> "null pointer"]
tagged_result(n) == OfWord(from_int(n))

\* fast_*_i64: a tagged result, or none when the operation overflows, does not fit or divides
\* by zero.  fast_mod_i64 does not ask whether its result fits.
Fast(op, l, r) ==
    LET n == CASE op = "add" -> l + r
               [] op = "sub" -> l - r
               [] op = "mul" -> l * r
               [] op = "floordiv" -> FloorQuotient(l, r)
               [] op = "mod" -> FloorRemainder(l, r)
        defined == CASE op \in {"add", "sub", "mul"} -> n \in Int64 /\ FitsTagged(n)
                     [] op = "floordiv" -> r # 0 /\ FitsTagged(n)
                     [] op = "mod" -> r # 0
    IN  IF defined THEN tagged_result(n) ELSE NoResult

\* slow_*: PyNumber on big integers, whose / and % round towards zero.  A divisor
\* of zero, which no test keeps away from them, ends the process: no result is defined for it.
Slow(op, l, r) ==
    IntObject(CASE op = "add" -> IntOf(l) + IntOf(r)
                [] op = "sub" -> IntOf(l) - IntOf(r)
                [] op = "mul" -> IntOf(l) * IntOf(r)
                [] op = "floordiv" -> TruncDiv(IntOf(l), IntOf(r))
                [] op = "mod" -> TruncRem(IntOf(l), IntOf(r)))

\* binary_int_or_slow; the first attempt of the code, on the words as they are, is the second
\* one when both are tagged, since flatten does not change a tagged word.
rt_binary(op, x, y) ==
    LET l == flatten(x)
        r == flatten(y)
        fast == Fast(op, as_int(l.bits), as_int(r.bits))
    IN  IF l.kind = "tagged" /\ r.kind = "tagged" /\ fast # NoResult
        THEN fast ELSE Slow(op, l, r)

-----------------------------------------------------------------------------
(* Equality and hash, by which a dictionary finds a key *)

\* PyNumber::__eq__ knows exact ints only: a bool is equal to itself and to no int.
SameObject(x, y) ==
    /\ (x.kind = "bool") = (y.kind = "bool")
    /\ IntOf(x) = IntOf(y)

RtValueEq(x, y) ==
    IF x.kind = "tagged" /\ y.kind = "tagged"
    THEN x.bits = y.bits \/ as_int(x.bits) = as_int(y.bits)
    ELSE SameObject(x, y)

normalize_python_hash(h) == IF h = -1 THEN -2 ELSE h

\* The remainder of the absolute value, with the sign of the number.
hash_big_int(n) ==
    normalize_python_hash(IF n < 0 THEN -(Abs(n) % P) ELSE Abs(n) % P)

\* PyInteger::__hash__ answers small numbers without dividing.
IntegerHash(n) ==
    IF n \in Int64 /\ n > -P /\ n < P THEN normalize_python_hash(n) ELSE hash_big_int(n)

RtValueHash(x) == IF x.kind = "tagged" THEN hash_big_int(as_int(x.bits)) ELSE IntegerHash(x.val)

-----------------------------------------------------------------------------
(* What Python says *)

\* q and m are the floor quotient and the remainder of a by b: the remainder has the sign of b.
IsDivMod(a, b, q, m) ==
    /\ a = b * q + m
    /\ IF b > 0 THEN 0 <= m /\ m < b ELSE b < m /\ m <= 0

=============================================================================
