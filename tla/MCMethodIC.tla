----------------------------- MODULE MCMethodIC -----------------------------
(***************************************************************************)
(* An instance of MethodIC for TLC: a method name m that the base and the  *)
(* derived class may each bind to a function, a static method, a property  *)
(* or a plain value, and two slots in the cache of the one call.           *)
(***************************************************************************)
EXTENDS MethodIC, TLC

CONSTANTS base, derived, o1, o2, f, st, p, v, m, call

MCTypeOf == o1 :> derived @@ o2 :> base
MCMro == derived :> <<derived, base>> @@ base :> <<base>>
MCMethodAt == call :> m
=============================================================================
