----------------------------- MODULE MCAptWrap -----------------------------
(* Instances of AptWrap: a package that is there, a library that two others *)
(* need, and sessions that may wish for nothing, one or the other.          *)
EXTENDS AptWrap, TLC

CONSTANTS libc, lib, gcc, tool

SmallPackages == {libc, lib, gcc, tool}

SmallNeeds == (libc :> {}) @@ (lib :> {libc}) @@ (gcc :> {lib}) @@ (tool :> {lib})

System(all, marked) == [installed |-> all, manual |-> marked]

SmallSystems ==
  {System({libc}, {libc}), System({libc, lib}, {libc}), System({libc}, {})}

SmallWishes == {{}, {gcc}, {tool}}

SessionsAlike == Permutations(Sessions)

SmallKeeps == {{}, {lib, tool}}

\* A third session is run only where all are inside one another and nothing
\* has failed.
Shallow == overlapped \/ trouble => Cardinality({s \in Sessions : at[s] # "idle"}) <= 2
=============================================================================
