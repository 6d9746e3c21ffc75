------------------------------ MODULE Slicing ------------------------------
(***************************************************************************)
(* Subscripts: positions in lists, tuples, strings and bytes, slices of    *)
(* them, and the positions and slices of a range (runtime/PySlice.cpp,     *)
(* PyRange.cpp and the __getitem__ of the sequences).  Bounds and lengths  *)
(* are machine integers, Int64 of TaggedInt; the numbers of a range are    *)
(* integers of any size.                                                   *)
(***************************************************************************)
EXTENDS TaggedInt

\* The number of elements of a sequence.
Lengths == {n \in Int64 : n >= 0}

Smallest == -(2 * H)
Largest == 2 * H - 1

-----------------------------------------------------------------------------
(* One element.  The answer is a position, an exception or a failed assertion. *)

IndexError == -1
Assertion == -2

\* PyList and PyTuple compare the absolute value as an unsigned number, so that the one of the
\* smallest integer is right although it is not a machine integer.
GetItem(index, length) ==
    IF index < 0 /\ Abs(index) > length THEN IndexError
    ELSE LET i == IF index < 0 THEN index + length ELSE index
         IN  IF i >= length THEN IndexError ELSE i

\* PyString compares it as a signed number: the smallest integer is its own absolute value.
SignedAbs(n) == IF n = Smallest THEN n ELSE Abs(n)
StringGetItem(index, length) ==
    IF index < 0 /\ SignedAbs(index) > length THEN IndexError
    ELSE LET i == IF index < 0 THEN index + length ELSE index
         IN  IF i < 0 THEN Assertion
             ELSE IF i >= length THEN IndexError ELSE i

\* PyBytes, PyByteArray, the assignment to an element, and rt_getitem for all of them.
AddFirst(index, length) ==
    LET i == IF index < 0 THEN index + length ELSE index
    IN  IF i < 0 \/ i >= length THEN IndexError ELSE i

\* validate_index of PyList::__delitem__.
DeleteItem(index, length) ==
    IF index >= 0 THEN IF index > length THEN IndexError ELSE index
    ELSE IF Abs(index) > length THEN IndexError ELSE length - Abs(index)

-----------------------------------------------------------------------------
(* Slices *)

\* A bound that is None or a number.
Bound == [given : BOOLEAN, val : Int64]

UnpackStep(step) == IF step.given THEN step.val ELSE 1
UnpackStart(start, step) ==
    IF start.given THEN start.val ELSE IF step < 0 THEN Largest ELSE 0
UnpackStop(stop, step) ==
    IF stop.given THEN stop.val ELSE IF step < 0 THEN Smallest ELSE Largest

\* What adjust_indices does to start and to stop.
Adjusted(x, step, length) ==
    IF x < 0 THEN IF x + length < 0 THEN IF step < 0 THEN -1 ELSE 0 ELSE x + length
    ELSE IF x >= length THEN IF step < 0 THEN length - 1 ELSE length
    ELSE x

\* -step; the smallest integer has no opposite and wraps to itself.
Opposite(step) == IF step = Smallest THEN step ELSE -step

SliceLength(start, stop, step) ==
    IF step < 0
    THEN IF stop < start THEN TruncDiv(start - stop - 1, Opposite(step)) + 1 ELSE 0
    ELSE IF start < stop THEN TruncDiv(stop - start - 1, step) + 1 ELSE 0

\* The first position, the end, and the number of positions that the loop of __getitem__ visits.
adjust_indices(start, stop, step, length) ==
    LET first == Adjusted(start, step, length)
        end == Adjusted(stop, step, length)
    IN  [start |-> first, stop |-> end, length |-> SliceLength(first, end, step)]

\* The position that the loop reads in its turn i.
Visited(slice, step, i) == slice.start + i * step

\* The sequence is copied as a whole instead.
Shortcut(slice, step, length) == slice.start = 0 /\ slice.stop = length /\ step = 1

-----------------------------------------------------------------------------
(* Ranges *)

Ranges == [start : Int, stop : Int, step : Int \ {0}]
Range3(start, stop, step) == [start |-> start, stop |-> stop, step |-> step]

Item(r, i) == r.start + r.step * i

\* within_range of PyRangeIterator: the iterator hands out Item(r, 0), Item(r, 1)... up to the
\* first that is not within the range.
Within(r, x) == IF r.step < 0 THEN x > r.stop ELSE x < r.stop

\* The n of __reversed__ and __getitem__.
Count(r) == TruncDiv(r.stop - r.start, r.step)

Reversed(r) == Range3(r.start + (Count(r) - 1) * r.step, r.start - r.step, -r.step)

NoItem == [kind |-> "IndexError"]
RangeGetItem(r, index) ==
    LET i == IF index < 0 THEN index + Count(r) ELSE index
    IN  IF i >= Count(r) THEN NoItem ELSE IntObject(Item(r, i))

\* A bound that was None becomes -1, which is not counted from the end.
RangeGetSlice(r, start, stop, step) ==
    LET st == UnpackStep(step)
        first == UnpackStart(start, st)
        end == UnpackStop(stop, st)
        i == IF first = Largest THEN -1 ELSE first
        j == IF end \in {Smallest, Largest} THEN -1 ELSE end
    IN  Range3(r.start + i * r.step, r.start + j * r.step, st * r.step)

-----------------------------------------------------------------------------
(* What Python says *)

\* The position that an index means, or an exception.
PythonIndex(index, length) ==
    IF index >= 0 /\ index < length THEN index
    ELSE IF index < 0 /\ index >= -length THEN index + length
    ELSE IndexError

\* A bound counts from the end when it is negative and is cut to the ends of the sequence, which
\* are one further down when the slice runs backwards.
PythonBound(x, step, length) ==
    LET lower == IF step < 0 THEN -1 ELSE 0
        upper == IF step < 0 THEN length - 1 ELSE length
        pos == IF x < 0 THEN x + length ELSE x
    IN  IF pos < lower THEN lower ELSE IF pos > upper THEN upper ELSE pos

\* A range has n numbers, at the positions 0 to n - 1.
HasLength(r, n) == n \in Nat /\ \A p \in Nat : Within(r, Item(r, p)) <=> p < n

\* Whether a position comes before the end of a slice.
Before(pos, stop, step) == IF step < 0 THEN pos > stop ELSE pos < stop

=============================================================================
