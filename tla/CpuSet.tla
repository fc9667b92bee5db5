------------------------------- MODULE CpuSet -------------------------------
(***************************************************************************)
(* The CPUs a process may run on, as k2env.so shows and changes them.  The *)
(* constructor of the library, with NPROC_CPUSET=random, takes CPUs out of *)
(* the process's affinity until as many are left as the process was told   *)
(* it has; sched_getaffinity(2), which the library replaces, does the same *)
(* to every answer.  CPUs to exclude are drawn between the least and the   *)
(* greatest of the set, which are found word by word.                      *)
(***************************************************************************)
EXTENDS Integers, FiniteSets

CONSTANTS
  Bits,       \* of a size_t
  Bytes,      \* sizeof(size_t)
  Words,      \* in a mask
  Counts,     \* what get_container_cpus() may tell
  Masks,      \* affinities a process may be started with
  Changes,    \* those the administrator may give it later
  MaxChanges  \* bound: times he does

CPUs == 0 .. Words * Bits - 1

ASSUME MaskAssumption ==
  /\ Bits \in Nat /\ Bits > 2 /\ {Bytes, Words} \subseteq Nat \ {0} /\ MaxChanges \in Nat
  /\ Counts \subseteq Nat \ {0}
  /\ Masks \cup Changes \subseteq (SUBSET CPUs) \ {{}}

-----------------------------------------------------------------------------
(* Words, as sets of the positions of their bits. *)

BitsOf(mask, w) == {b \in 0 .. Bits - 1 : w * Bits + b \in mask}

Lowest(v)   == CHOOSE b \in v : \A c \in v : b <= c
Greatest(v) == CHOOSE b \in v : \A c \in v : c <= b

MinusOne(v)   == (v \ {Lowest(v)}) \cup (0 .. Lowest(v) - 1)
ShiftRight(v) == {b - 1 : b \in v \ {0}}
ShiftLeft(v)  == {b + 1 : b \in v \ {Bits - 1}}

\* set_lower: sizeof(t) * CHAR_BIT - 3 rounds.
SetLower(v) ==
  LET round[n \in 0 .. Bits - 3] ==
        IF n = 0 THEN v \cup MinusOne(v) \cup ShiftRight(v)
        ELSE ShiftRight(round[n - 1] \cup ShiftLeft(v))
  IN  IF v = {} THEN {} ELSE round[Bits - 3]

GetMsb(v) == Cardinality(SetLower(v))

\* nproc_sched_cpucount_ex: the least and the greatest CPU of a mask; word w
\* begins at w * sizeof(size_t).
Extent(mask) ==
  LET filled == {w \in 0 .. Words - 1 : BitsOf(mask, w) # {}}
      first  == Lowest(filled)
      last   == Greatest(filled)
  IN  [min |-> first * Bytes + GetMsb({Lowest(BitsOf(mask, first))}) - 1,
       max |-> last * Bytes + GetMsb(BitsOf(mask, last)) - 1]

-----------------------------------------------------------------------------
VARIABLES
  allowed,  \* the affinity the kernel keeps
  told,     \* ncpu
  pc,       \* "start", "exclude" in the constructor, "run", "answer" in a call
  mask,     \* the copy of it that CPUs are excluded from
  left,     \* cpucount_real
  min, max, \* info
  read,     \* history: the affinity as it was read
  answer,   \* what the last call answered, {} when there was none
  changes

loop == <<mask, left, min, max>>
vars == <<allowed, told, pc, loop, read, answer, changes>>

GetNprocs == told

\* sysconf(3): the two numbers of CPUs are replaced.
Sysconf(name, real) == IF name \in {"_SC_NPROCESSORS_CONF", "_SC_NPROCESSORS_ONLN"} THEN told ELSE real

Init ==
  /\ allowed \in Masks /\ told \in Counts
  /\ pc = "start" /\ mask = {} /\ left = 0 /\ min = 0 /\ max = 0
  /\ read = {} /\ answer = {} /\ changes = 0

\* nproc_sched_getaffinity, into a buffer of so many words; {} is a failure,
\* as the kernel gives its mask whole or not at all.
GetAffinity(words) == IF words < Words THEN {} ELSE allowed

\* The first half of adjust_cpuset_to_count_random: it comes back at once
\* if no CPU is too many.
Load(words, there) ==
  /\ mask' = GetAffinity(words) /\ mask' # {} /\ read' = allowed
  /\ left' = Cardinality(allowed)
  /\ told < Cardinality(allowed)
  /\ min' = Extent(allowed).min /\ max' = Extent(allowed).max
  /\ pc' = there /\ UNCHANGED <<allowed, told, answer, changes>>

\* adjust_container_cpuset: nothing to do unless NPROC_CPUSET=random, or
\* when there are no more CPUs than told, or no affinity, or no memory.
Leave == pc = "start" /\ pc' = "run" /\ UNCHANGED <<allowed, told, loop, read, answer, changes>>

Adjust == pc = "start" /\ Load(Words, "exclude")

\* A mutant of Drawing: one round more.
DrawingPast == pc \in {"exclude", "answer"} /\ left >= told /\ min < max

Drawing == pc \in {"exclude", "answer"} /\ left > told /\ min < max

\* A mutant of Exclude: what is excluded is not counted.
ExcludeUncounted(i) ==
  /\ Drawing /\ i \in mask \cap (min .. max)
  /\ mask' = mask \ {i}
  /\ min' = (IF i = min THEN min + 1 ELSE min)
  /\ max' = (IF i # min /\ i = max THEN max - 1 ELSE max)
  /\ UNCHANGED <<allowed, told, pc, left, read, answer, changes>>

\* A mutant of Exclude: a number is counted whether or not it is set.
ExcludeAny(i) ==
  /\ Drawing /\ i \in min .. max
  /\ mask' = mask \ {i} /\ left' = left - 1
  /\ min' = (IF i = min THEN min + 1 ELSE min)
  /\ max' = (IF i # min /\ i = max THEN max - 1 ELSE max)
  /\ UNCHANGED <<allowed, told, pc, read, answer, changes>>

\* A number is drawn, and excluded if it is set.
Exclude(i) ==
  /\ Drawing /\ i \in mask \cap (min .. max)
  /\ mask' = mask \ {i} /\ left' = left - 1
  /\ min' = (IF i = min THEN min + 1 ELSE min)
  /\ max' = (IF i # min /\ i = max THEN max - 1 ELSE max)
  /\ UNCHANGED <<allowed, told, pc, read, answer, changes>>

Miss == Drawing /\ (min .. max) \ mask # {} /\ UNCHANGED vars

Drawn(there) == pc = there /\ ~Drawing /\ pc' = "run"

\* A mutant of EndAdjust: the mask is set whatever its count.
EndAdjustAnyway ==
  /\ Drawn("exclude") /\ allowed' = mask
  /\ UNCHANGED <<told, loop, read, answer, changes>>

\* sched_setaffinity(2), if the count is right; what it answers is ignored.
EndAdjust ==
  /\ Drawn("exclude")
  /\ \/ left = told /\ allowed' = mask
     \/ UNCHANGED allowed
  /\ UNCHANGED <<told, loop, read, answer, changes>>

\* new_getaffinity: the answer goes out whether or not its count is right.
Ask(words) ==
  /\ pc = "run"
  /\ \/ Load(words, "answer")
     \/ /\ told >= Cardinality(GetAffinity(words))
        /\ answer' = GetAffinity(words) /\ read' = allowed
        /\ UNCHANGED <<allowed, told, pc, loop, changes>>

EndAsk ==
  /\ Drawn("answer") /\ answer' = mask
  /\ UNCHANGED <<allowed, told, loop, read, changes>>

\* exec: the constructor runs again.
Exec ==
  /\ pc = "run" /\ pc' = "start" /\ answer' = {}
  /\ UNCHANGED <<allowed, told, loop, read, changes>>

\* sched_setaffinity(2) from outside, at any time.
Change(m) ==
  /\ changes < MaxChanges /\ allowed' = m /\ changes' = changes + 1
  /\ UNCHANGED <<told, pc, loop, read, answer>>

\* What the library does by itself.
Work == Leave \/ Adjust \/ (\E i \in CPUs : Exclude(i)) \/ EndAdjust \/ EndAsk

Next == Work \/ Miss \/ Exec \/ (\E n \in 1 .. Words : Ask(n)) \/ \E m \in Changes : Change(m)

Spec == Init /\ [][Next]_vars

-----------------------------------------------------------------------------
(* Properties. *)

Fewer(m, n) == IF n < m THEN n ELSE m

\* Whether the numbers drawn reach every CPU of a mask.
Covered(m) == m \subseteq Extent(m).min .. Extent(m).max

\* EnoughLeft: whatever the mask, and whatever happens to the affinity
\* meanwhile, no answer has fewer CPUs than the process was told, or than it
\* had when it asked (nproc.h adjust_cpuset_to_count_random).
EnoughLeft == pc = "run" /\ answer # {} => Cardinality(answer) >= Fewer(GetNprocs, Cardinality(read))

LowWord(m) == m \subseteq 0 .. Bits - 2

\* CountsAgree: a program that counts the CPUs of its affinity finds as many
\* as sysconf(3) says, or as it has, where the numbers drawn reach all of
\* them; which they do where all are in the first word, its topmost bit left
\* out: there the rounds of shifts and the counting of bits find the least and
\* the greatest (nproc.h nproc_sched_cpucount_ex, num/setlower.h).
CountsAgree ==
  pc = "run" /\ answer # {} /\ (Covered(read) \/ LowWord(read)) =>
    Cardinality(answer) = Fewer(Sysconf("_SC_NPROCESSORS_ONLN", Cardinality(CPUs)), Cardinality(read))

\* NeverStripped: an adjusted affinity has as many CPUs as the process was
\* told; it is never taken from it altogether (nproc.h
\* adjust_container_cpuset).
NeverStripped == [][allowed' # allowed /\ changes' = changes => Cardinality(allowed') = told]_vars

\* LowCpusEnd: for masks in the low bits of the first word the drawing ends.
LowCpusEnd == pc \in {"exclude", "answer"} /\ LowWord(read) ~> pc = "run"

\* AdjustEnds: it ends for every mask.
AdjustEnds == pc \in {"exclude", "answer"} ~> pc = "run"
=============================================================================
