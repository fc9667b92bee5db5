------------------------------ MODULE CpuCount ------------------------------
(***************************************************************************)
(* incontainer/nproc.h: from a limit and the environment to the number of   *)
(* CPUs a process is told, the decision of get_container_cpus().            *)
(***************************************************************************)
EXTENDS Integers

CONSTANT CpuMax    \* cpu_max

ASSUME CpuAssumption == CpuMax \in Nat \ {0}

Kinds == {"normal", "force", "min"}

\* NPROC as a number, 0 when it is unset or makes no sense, and NPROC_KIND.
Env == [nproc : 0 .. CpuMax, kind : Kinds]

Smaller(a, b) == IF a < b THEN a ELSE b
Larger(a, b)  == IF a < b THEN b ELSE a

MinPositive(a, b) == IF a < 1 THEN Larger(b, 0) ELSE IF b < 1 THEN Larger(a, 0) ELSE Smaller(a, b)

\* NPROC, or the limit; NPROC_KIND=min is decided on here.
Asked(max, e) ==
  LET n == IF e.nproc = 0 THEN max ELSE e.nproc
  IN  IF e.kind = "min" THEN Larger(n, max) ELSE n

\* A mutant of Forces: "min" is left as it is.
ForcesOnly(max, e) == Asked(max, e) > max /\ e.kind = "force"

Forces(max, e) == Asked(max, e) > max /\ e.kind \in {"force", "min"}

\* A mutant of Count: what is asked for is given.
CountAsked(max, e) == Larger(Asked(max, e), 1)

Count(max, e) ==
  Larger(1, IF Forces(max, e) THEN Asked(max, e) ELSE MinPositive(max, Asked(max, e)))

\* A mutant of Left: that a number is forced is not handed down.
LeftNormal(max, e) == [nproc |-> Count(max, e), kind |-> "normal"]

Left(max, e) ==
  [nproc |-> Count(max, e), kind |-> IF Forces(max, e) THEN "force" ELSE "normal"]
=============================================================================
