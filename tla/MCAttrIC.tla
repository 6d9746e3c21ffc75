------------------------------ MODULE MCAttrIC ------------------------------
(***************************************************************************)
(* Instances of AttrIC small enough for TLC: a base class and a class      *)
(* derived from it, with one method, one property and one plain value.     *)
(***************************************************************************)
EXTENDS AttrIC, TLC

CONSTANTS base, derived, o1, o2, f, p, v, x, y, readX, writeX, writeY

\* Both instances are of the derived class: one entry serves both.
MCTypeOf == o1 :> derived @@ o2 :> derived

\* One instance per class: an entry made for one must not serve the other.
MCTypeOfMixed == o1 :> derived @@ o2 :> base

MCMro == derived :> <<derived, base>> @@ base :> <<base>>
MCMroFlat == derived :> <<derived>>

MCNameAt == readX :> x @@ writeX :> x @@ writeY :> y
MCNameAtX == readX :> x @@ writeX :> x

\* The two instances are interchangeable when they have the same class.
MCSymmetry == Permutations({o1, o2})
=============================================================================
