--------------------------- MODULE CpuSet_proofs ---------------------------
(***************************************************************************)
(* Proofs about CpuSet.  That no answer has too few CPUs needs nothing of  *)
(* what the words of a mask say of its least and greatest: whatever        *)
(* numbers are drawn, only CPUs that are in the mask are excluded, and     *)
(* each of them is counted.  That none has too many does: what is left     *)
(* lies between the bounds when they meet.                                 *)
(*                                                                         *)
(* That a process is told the least of what its group is allowed is about  *)
(* what the operators of CpuLimit compute: each list counts to the CPUs it *)
(* names, a quota comes to the CPUs it keeps busy, the walks of the lines  *)
(* end at the directory of the group, and the fold leaves the least.       *)
(***************************************************************************)
EXTENDS MCCpus, FiniteSetTheorems, WellFoundedInduction, TLAPS

\* A copy of the affinity is being thinned out: its CPUs are counted, and as
\* many as told are left.
Counted ==
  pc \in {"exclude", "answer"} =>
    /\ mask \subseteq read /\ left = Cardinality(mask)
    /\ told <= left /\ told <= Cardinality(read)

\* What a call has answered, once it is over; there is none in the constructor.
Answered ==
  /\ pc \in {"start", "exclude"} => answer = {}
  /\ EnoughLeft

Typed ==
  /\ allowed \in (SUBSET CPUs) \ {{}} /\ told \in Nat \ {0}
  /\ pc \in {"start", "exclude", "run", "answer"}
  /\ read \in SUBSET CPUs /\ changes \in Nat

Inv == Typed /\ Counted /\ Answered

-----------------------------------------------------------------------------
LEMMA CountIsNat ==
  ASSUME NEW s \in SUBSET CPUs
  PROVE  IsFiniteSet(s) /\ Cardinality(s) \in Nat /\ (Cardinality(s) = 0 <=> s = {})
<1>1. IsFiniteSet(CPUs)
  BY MaskAssumption, FS_Interval DEF CPUs
<1>2. QED
  BY <1>1, FS_Subset, FS_CardinalityType, FS_EmptySet

LEMMA OneLess ==
  ASSUME NEW s \in SUBSET CPUs, NEW i \in s
  PROVE  Cardinality(s \ {i}) = Cardinality(s) - 1
BY CountIsNat, FS_RemoveElement

LEMMA InitInv == Init => Inv
<1> SUFFICES ASSUME Init PROVE Inv
  OBVIOUS
<1>1. Typed
  BY MaskAssumption DEF Init, Typed
<1>2. QED
  BY <1>1 DEF Init, Inv, Counted, Answered, EnoughLeft

\* The affinity is read: the copy is all of it, and it has more than told.
LEMMA LoadInv ==
  ASSUME Inv, NEW words, NEW there \in {"exclude", "answer"}, Load(words, there),
         there = "exclude" => answer = {}
  PROVE  Inv'
<1>1. mask' = allowed /\ read' = allowed /\ left' = Cardinality(allowed) /\ told < Cardinality(allowed)
  BY DEF Load, GetAffinity
<1>2. UNCHANGED <<allowed, told, answer, changes>> /\ pc' = there
  BY DEF Load
<1>3. Typed'
  BY <1>1, <1>2 DEF Inv, Typed
<1>4. Counted'
  BY <1>1, <1>2, CountIsNat DEF Inv, Typed, Counted
<1>5. Answered'
  BY <1>2 DEF Answered, EnoughLeft
<1>6. QED
  BY <1>3, <1>4, <1>5 DEF Inv

LEMMA ExcludeInv ==
  ASSUME Inv, NEW i, Exclude(i)
  PROVE  Inv'
<1>1. pc \in {"exclude", "answer"} /\ left > told /\ i \in mask
  BY DEF Exclude, Drawing
<1>2. mask' = mask \ {i} /\ left' = left - 1 /\ UNCHANGED <<allowed, told, pc, read, answer, changes>>
  BY DEF Exclude
<1>3. Typed' /\ Answered'
  BY <1>2 DEF Inv, Typed, Answered, EnoughLeft, GetNprocs
<1>4. mask \in SUBSET CPUs /\ mask \subseteq read /\ left = Cardinality(mask) /\ told <= Cardinality(read)
  BY <1>1 DEF Inv, Typed, Counted
<1>5. Cardinality(mask') = left' /\ left' \in Int /\ told \in Nat
  BY <1>1, <1>2, <1>4, OneLess, CountIsNat DEF Inv, Typed
<1>6. told <= left'
  BY <1>1, <1>2, <1>4, <1>5, CountIsNat
<1>7. Counted'
  BY <1>2, <1>4, <1>5, <1>6 DEF Counted
<1>8. QED
  BY <1>3, <1>7 DEF Inv

LEMMA EndAdjustInv ==
  ASSUME Inv, EndAdjust
  PROVE  Inv' /\ (allowed' # allowed => Cardinality(allowed') = told)
<1>1. pc = "exclude" /\ pc' = "run" /\ UNCHANGED <<told, mask, left, read, answer, changes>>
  BY DEF EndAdjust, Drawn, loop
<1>2. mask \in SUBSET CPUs /\ left = Cardinality(mask) /\ answer = {} /\ told \in Nat \ {0}
  BY <1>1 DEF Inv, Typed, Counted, Answered
<1>3. (left = told /\ allowed' = mask) \/ allowed' = allowed
  BY DEF EndAdjust
<1>4. allowed' \in (SUBSET CPUs) \ {{}}
  BY <1>2, <1>3, CountIsNat DEF Inv, Typed
<1>5. Typed' /\ Counted' /\ Answered'
  BY <1>1, <1>2, <1>4 DEF Inv, Typed, Counted, Answered, EnoughLeft
<1>6. QED
  BY <1>2, <1>3, <1>5 DEF Inv

LEMMA EndAskInv ==
  ASSUME Inv, EndAsk
  PROVE  Inv'
<1>1. pc = "answer" /\ pc' = "run" /\ answer' = mask /\ UNCHANGED <<allowed, told, mask, left, read, changes>>
  BY DEF EndAsk, Drawn, loop
<1>2. /\ mask \in SUBSET CPUs /\ left = Cardinality(mask) /\ told <= left /\ told <= Cardinality(read)
      /\ told \in Nat /\ read \in SUBSET CPUs
  BY <1>1 DEF Inv, Typed, Counted
<1>3. EnoughLeft'
  BY <1>1, <1>2, CountIsNat DEF EnoughLeft, Fewer, GetNprocs
<1>4. Typed' /\ Counted'
  BY <1>1 DEF Inv, Typed, Counted
<1>5. QED
  BY <1>1, <1>3, <1>4 DEF Inv, Answered

LEMMA AskInv ==
  ASSUME Inv, NEW words, Ask(words)
  PROVE  Inv'
<1>1. CASE Load(words, "answer")
  BY <1>1, LoadInv
<1>2. CASE /\ told >= Cardinality(GetAffinity(words))
           /\ answer' = GetAffinity(words) /\ read' = allowed
           /\ UNCHANGED <<allowed, told, pc, loop, changes>>
  <2>1. pc = "run"
    BY DEF Ask
  <2>2. answer' \in {{}, allowed} /\ (answer' = allowed => told >= Cardinality(allowed))
    BY <1>2 DEF GetAffinity, Inv, Typed
  <2>3. EnoughLeft'
    BY <1>2, <2>2, CountIsNat DEF EnoughLeft, Fewer, GetNprocs, Inv, Typed
  <2>4. Typed' /\ Counted'
    BY <1>2, <2>1 DEF Inv, Typed, Counted
  <2>5. QED
    BY <1>2, <2>1, <2>3, <2>4 DEF Inv, Answered
<1>3. QED
  BY <1>1, <1>2 DEF Ask

\* The affinity changes hands only as NeverStripped says.
LEMMA StepInv ==
  ASSUME Inv, [Next]_vars
  PROVE  Inv' /\ (allowed' # allowed /\ changes' = changes => Cardinality(allowed') = told)
<1>1. CASE Leave
  BY <1>1 DEF Leave, loop, Inv, Typed, Counted, Answered, EnoughLeft
<1>2. CASE Adjust
  <2>1. Load(Words, "exclude") /\ answer = {}
    BY <1>2 DEF Adjust, Inv, Answered
  <2>2. QED
    BY <2>1, LoadInv DEF Load
<1>3. ASSUME NEW i \in CPUs, Exclude(i) PROVE Inv' /\ allowed' = allowed
  BY <1>3, ExcludeInv DEF Exclude
<1>4. CASE EndAdjust
  BY <1>4, EndAdjustInv
<1>5. CASE EndAsk
  BY <1>5, EndAskInv DEF EndAsk
<1>6. CASE Miss \/ UNCHANGED vars
  BY <1>6 DEF Miss, vars, loop, Inv, Typed, Counted, Answered, EnoughLeft, GetNprocs
<1>7. CASE Exec
  BY <1>7 DEF Exec, loop, Inv, Typed, Counted, Answered, EnoughLeft
<1>8. ASSUME NEW n \in 1 .. Words, Ask(n) PROVE Inv' /\ allowed' = allowed
  BY <1>8, AskInv DEF Ask, Load
<1>9. ASSUME NEW m \in Changes, Change(m) PROVE Inv' /\ changes' # changes
  <2>1. allowed' \in (SUBSET CPUs) \ {{}} /\ changes' = changes + 1 /\ UNCHANGED <<told, pc, mask, left, read, answer>>
    BY <1>9, MaskAssumption DEF Change, loop
  <2>2. QED
    BY <2>1 DEF Inv, Typed, Counted, Answered, EnoughLeft, GetNprocs
<1>10. QED
  BY <1>1, <1>2, <1>3, <1>4, <1>5, <1>6, <1>7, <1>8, <1>9 DEF Next, Work

-----------------------------------------------------------------------------
\* EnoughCPUs: for masks of any number of words of any size, whatever is
\* drawn, no answer has fewer CPUs than the process was told, or had.
THEOREM EnoughCPUs == Spec => []EnoughLeft
<1>1. Inv => EnoughLeft
  BY DEF Inv, Answered
<1>2. QED
  BY InitInv, StepInv, <1>1, PTL DEF Spec

\* AffinityKept: the affinity that is set has as many CPUs as the process was
\* told, never none, and whatever others set meanwhile.
THEOREM AffinityKept == Spec => NeverStripped
<1>1. Inv /\ [Next]_vars => [allowed' # allowed /\ changes' = changes => Cardinality(allowed') = told]_vars
  BY StepInv
<1>2. QED
  BY InitInv, StepInv, <1>1, PTL DEF Spec, NeverStripped

-----------------------------------------------------------------------------
(* Induction, over sets of naturals. *)

LEMMA LeastIn ==
  ASSUME NEW T \in SUBSET Nat, T # {}
  PROVE  \E m \in T : \A k \in T : m <= k
<1>1. \E m \in T : \A k \in T : <<k, m>> \notin OpToRel(<, Nat)
  BY NatLessThanWellFounded, WFMin, Zenon
<1>2. PICK m \in T : \A k \in T : <<k, m>> \notin OpToRel(<, Nat)
  BY <1>1
<1>3. ASSUME NEW k \in T, k < m PROVE FALSE
  <2>1. <<k, m>> \in Nat \X Nat /\ <<k, m>>[1] < <<k, m>>[2]
    BY <1>3
  <2>2. <<k, m>> \in OpToRel(<, Nat)
    BY <2>1 DEF OpToRel
  <2>3. QED
    BY <1>2, <2>2
<1>4. QED
  BY <1>3

LEMMA Upwards ==
  ASSUME NEW n \in Nat, NEW P \in SUBSET (0 .. n),
         0 \in P, \A m \in 0 .. n - 1 : m \in P => m + 1 \in P
  PROVE  P = 0 .. n
<1> DEFINE T == (0 .. n) \ P
<1>1. SUFFICES ASSUME T # {} PROVE FALSE
  OBVIOUS
<1>2. T \in SUBSET Nat
  OBVIOUS
<1>3. PICK m \in T : \A k \in T : m <= k
  <2> HIDE DEF T
  <2>1. QED
    BY <1>1, <1>2, LeastIn
<1>4. m # 0 /\ m - 1 \in P
  BY <1>3
<1>5. QED
  BY <1>3, <1>4

-----------------------------------------------------------------------------
(* What the words say. *)

WordBits == 0 .. Bits - 1

LEMMA LowestIs ==
  ASSUME NEW v \in SUBSET Nat, v # {}
  PROVE  Lowest(v) \in v /\ \A c \in v : Lowest(v) <= c
BY LeastIn DEF Lowest

LEMMA GreatestIs ==
  ASSUME NEW n \in Nat, NEW v \in SUBSET (0 .. n), v # {}
  PROVE  Greatest(v) \in v /\ \A c \in v : c <= Greatest(v)
<1> DEFINE T == {k \in 0 .. n : n - k \in v}
<1>1. T \in SUBSET Nat /\ \A c \in v : n - c \in T
  OBVIOUS
<1>2. PICK m \in T : \A k \in T : m <= k
  <2>1. T # {}
    BY <1>1
  <2> HIDE DEF T
  <2>2. QED
    BY <1>1, <2>1, LeastIn
<1>3. n - m \in v /\ \A c \in v : c <= n - m
  BY <1>1, <1>2
<1>4. QED
  BY <1>3 DEF Greatest

\* What the rounds start from, and what they come to: a bit that so many
\* rounds have moved to x, or one of the word that fewer have.
Start(v) == v \cup MinusOne(v) \cup ShiftRight(v)

After(v, n) ==
  {x \in WordBits : x + n \in Start(v) \/ \E k \in 0 .. n - 1 : x + k \in v \ {Bits - 1}}

LEMMA StartInWord ==
  ASSUME NEW v \in SUBSET WordBits, v # {}
  PROVE  Start(v) \in SUBSET WordBits
<1>1. Lowest(v) \in WordBits /\ Bits \in Nat
  <2>1. v \in SUBSET Nat
    BY MaskAssumption DEF WordBits
  <2>2. QED
    BY <2>1, LowestIs, MaskAssumption
<1> DEFINE low == Lowest(v)
<1> HIDE DEF low
<1>2. MinusOne(v) = (v \ {low}) \cup (0 .. low - 1) /\ low \in 0 .. Bits - 1
  BY <1>1 DEF MinusOne, low, WordBits
<1>3. ShiftRight(v) \in SUBSET WordBits
  BY <1>1 DEF ShiftRight, WordBits
<1>4. MinusOne(v) \in SUBSET WordBits
  BY <1>1, <1>2 DEF WordBits
<1>5. QED
  BY <1>3, <1>4 DEF Start

LEMMA AfterOneMore ==
  ASSUME NEW v \in SUBSET WordBits, v # {}, NEW n \in Nat
  PROVE  After(v, n + 1) = ShiftRight(After(v, n) \cup ShiftLeft(v))
<1> DEFINE old == After(v, n) \cup ShiftLeft(v)
<1>0. Bits \in Nat /\ Bits > 2 /\ Start(v) \in SUBSET WordBits
  BY MaskAssumption, StartInWord
<1>1. ASSUME NEW x \in After(v, n + 1) PROVE x \in ShiftRight(old)
  <2>1. x \in WordBits /\ (x + (n + 1) \in Start(v) \/ \E k \in 0 .. n : x + k \in v \ {Bits - 1})
    BY <1>1 DEF After
  <2>2. SUFFICES x + 1 \in old
    <3>1. (x + 1) - 1 = x /\ x + 1 # 0
      BY <2>1 DEF WordBits
    <3> HIDE DEF old
    <3>2. QED
      BY <2>2, <3>1 DEF ShiftRight
  <2>3. CASE x + (n + 1) \in Start(v)
    <3>1. x + 1 \in WordBits /\ (x + 1) + n = x + (n + 1)
      BY <1>0, <2>1, <2>3 DEF WordBits
    <3>2. QED
      BY <2>3, <3>1 DEF After
  <2>4. CASE x \in v \ {Bits - 1}
    BY <2>4 DEF ShiftLeft
  <2>5. CASE \E k \in 1 .. n : x + k \in v \ {Bits - 1}
    <3>1. PICK k \in 1 .. n : x + k \in v \ {Bits - 1}
      BY <2>5
    <3>2. k - 1 \in 0 .. n - 1 /\ (x + 1) + (k - 1) = x + k /\ x + 1 \in WordBits
      BY <1>0, <2>1, <3>1 DEF WordBits
    <3>3. QED
      BY <3>1, <3>2 DEF After
  <2>6. (\E k \in 0 .. n : x + k \in v \ {Bits - 1}) =>
          x \in v \ {Bits - 1} \/ \E k \in 1 .. n : x + k \in v \ {Bits - 1}
    <3>1. x + 0 = x /\ \A k \in 0 .. n : k = 0 \/ k \in 1 .. n
      BY <2>1 DEF WordBits
    <3>2. QED
      BY <3>1
  <2>7. QED
    BY <2>1, <2>3, <2>4, <2>5, <2>6
<1>2. ASSUME NEW x \in ShiftRight(old) PROVE x \in After(v, n + 1)
  <2>1. PICK b \in old : b # 0 /\ x = b - 1
    BY <1>2 DEF ShiftRight
  <2>2. CASE b \in After(v, n)
    <3>1. b \in WordBits /\ (b + n \in Start(v) \/ \E k \in 0 .. n - 1 : b + k \in v \ {Bits - 1})
      BY <2>2 DEF After
    <3>2. x \in WordBits /\ x + (n + 1) = b + n
      BY <1>0, <2>1, <3>1 DEF WordBits
    <3>3. ASSUME NEW k \in 0 .. n - 1 PROVE k + 1 \in 0 .. (n + 1) - 1 /\ x + (k + 1) = b + k
      BY <2>1, <3>1 DEF WordBits
    <3>4. QED
      BY <3>1, <3>2, <3>3 DEF After
  <2>3. CASE b \in ShiftLeft(v)
    <3>1. x \in v \ {Bits - 1}
      BY <2>1, <2>3 DEF ShiftLeft, WordBits
    <3>2. x \in WordBits /\ x + 0 = x /\ 0 \in 0 .. (n + 1) - 1
      BY <3>1 DEF WordBits
    <3>3. QED
      BY <3>1, <3>2 DEF After
  <2>4. QED
    BY <2>1, <2>2, <2>3
<1>3. QED
  BY <1>1, <1>2

LEMMA SetLowerIs ==
  ASSUME NEW v \in SUBSET WordBits, v # {}
  PROVE  SetLower(v) = After(v, Bits - 3)
<1> DEFINE Next1(s) == ShiftRight(s \cup ShiftLeft(v))
           Body(f) == [n \in 0 .. Bits - 3 |-> IF n = 0 THEN Start(v) ELSE Next1(f[n - 1])]
           e == [n \in 0 .. Bits - 3 |-> After(v, n)]
           round == CHOOSE f : f = Body(f)
<1>0. Bits - 3 \in Nat
  BY MaskAssumption
<1>1. SetLower(v) = round[Bits - 3]
  BY DEF SetLower, Start
<1>2. After(v, 0) = Start(v)
  <2>1. Start(v) \in SUBSET WordBits /\ \A x \in WordBits : x + 0 = x
    BY StartInWord, MaskAssumption DEF WordBits
  <2>2. QED
    BY <2>1 DEF After
<1>3. ASSUME NEW n \in 1 .. Bits - 3 PROVE After(v, n) = Next1(After(v, n - 1))
  <2>1. n - 1 \in Nat /\ (n - 1) + 1 = n
    BY <1>0
  <2>2. After(v, (n - 1) + 1) = Next1(After(v, n - 1))
    BY <2>1, AfterOneMore
  <2>3. QED
    BY <2>1, <2>2
<1> HIDE DEF Next1
<1>4. e = Body(e)
  <2>1. ASSUME NEW n \in 0 .. Bits - 3
        PROVE  After(v, n) = IF n = 0 THEN Start(v) ELSE Next1(e[n - 1])
    <3>1. CASE n = 0
      BY <1>2, <3>1
    <3>2. CASE n # 0
      <4>1. n \in 1 .. Bits - 3 /\ n - 1 \in 0 .. Bits - 3
        BY <1>0, <3>2
      <4>2. e[n - 1] = After(v, n - 1)
        BY <4>1
      <4>3. QED
        BY <1>3, <3>2, <4>1, <4>2
    <3>3. QED
      BY <3>1, <3>2
  <2>2. QED
    BY <2>1
<1>5. round = Body(round)
  <2> HIDE DEF e, Body
  <2>1. \E f : f = Body(f)
    BY <1>4
  <2>2. QED
    BY <2>1
<1> HIDE DEF round
<1> DEFINE P == {n \in 0 .. Bits - 3 : round[n] = After(v, n)}
<1>6. P = 0 .. Bits - 3
  <2>1. 0 \in P
    <3>1. round[0] = Start(v)
      BY <1>0, <1>5
    <3>2. QED
      BY <1>0, <1>2, <3>1
  <2>2. ASSUME NEW m \in 0 .. (Bits - 3) - 1, m \in P PROVE m + 1 \in P
    <3>1. m + 1 \in 0 .. Bits - 3 /\ m + 1 # 0 /\ (m + 1) - 1 = m /\ m + 1 \in 1 .. Bits - 3
      BY <1>0
    <3>2. round[m + 1] = Next1(round[(m + 1) - 1])
      BY <1>5, <3>1
    <3>3. After(v, m + 1) = Next1(After(v, (m + 1) - 1))
      BY <1>3, <3>1
    <3>4. QED
      BY <2>2, <3>1, <3>2, <3>3
  <2>3. P \in SUBSET (0 .. Bits - 3)
    OBVIOUS
  <2> HIDE DEF P
  <2>4. QED
    BY <1>0, <2>1, <2>2, <2>3, Upwards
<1>7. Bits - 3 \in 0 .. Bits - 3
  BY <1>0
<1>8. QED
  BY <1>1, <1>6, <1>7

\* A word counts to a number that an index can be computed of.
LEMMA MsbIsNat ==
  ASSUME NEW v \in SUBSET WordBits
  PROVE  GetMsb(v) \in Nat
<1>1. SetLower(v) \in SUBSET WordBits
  <2>1. CASE v = {}
    BY <2>1 DEF SetLower
  <2>2. CASE v # {}
    <3>1. SetLower(v) = After(v, Bits - 3)
      BY <2>2, SetLowerIs
    <3>2. QED
      BY <3>1 DEF After
  <2>3. QED
    BY <2>1, <2>2
<1>2. IsFiniteSet(WordBits)
  BY MaskAssumption, FS_Interval DEF WordBits
<1>3. IsFiniteSet(SetLower(v))
  BY <1>1, <1>2, FS_Subset
<1>4. QED
  BY <1>3, FS_CardinalityType DEF GetMsb

\* Up to the last bit but one the rounds set all that are lower, so that
\* counting tells the position.
LEMMA LowBitsAreFound ==
  ASSUME NEW v \in SUBSET (0 .. Bits - 2), v # {}
  PROVE  GetMsb(v) = Greatest(v) + 1
<1> DEFINE g == Greatest(v)
<1>0. Bits \in Nat /\ Bits > 2 /\ Bits - 2 \in Nat
  BY MaskAssumption
<1>1. g \in v /\ \A c \in v : c <= g
  BY <1>0, GreatestIs
<1> HIDE DEF g
<1>2. v \in SUBSET WordBits /\ v \in SUBSET Nat /\ g \in 0 .. Bits - 2
  BY <1>0, <1>1 DEF WordBits
<1>3. SetLower(v) = After(v, Bits - 3)
  BY <1>2, SetLowerIs
<1>4. Start(v) \in SUBSET (0 .. g) /\ g \in Start(v) /\ (g # 0 => g - 1 \in Start(v))
  <2> DEFINE low == Lowest(v)
  <2>1. low \in v
    BY <1>2, LowestIs
  <2> HIDE DEF low
  <2>2. MinusOne(v) = (v \ {low}) \cup (0 .. low - 1)
    BY DEF MinusOne, low
  <2>3. MinusOne(v) \in SUBSET (0 .. g)
    BY <1>1, <1>2, <2>1, <2>2
  <2>4. ShiftRight(v) \in SUBSET (0 .. g) /\ (g # 0 => g - 1 \in ShiftRight(v))
    BY <1>1, <1>2 DEF ShiftRight
  <2>5. v \in SUBSET (0 .. g)
    BY <1>1, <1>2
  <2>6. QED
    BY <1>1, <2>3, <2>4, <2>5 DEF Start
<1>5. ASSUME NEW x \in After(v, Bits - 3) PROVE x \in 0 .. g
  <2>1. /\ x \in WordBits
        /\ x + (Bits - 3) \in Start(v) \/ \E k \in 0 .. (Bits - 3) - 1 : x + k \in v \ {Bits - 1}
    BY <1>5 DEF After
  <2>2. CASE x + (Bits - 3) \in Start(v)
    <3>1. x + (Bits - 3) \in 0 .. g
      BY <1>4, <2>2
    <3>2. QED
      BY <1>0, <1>2, <2>1, <3>1 DEF WordBits
  <2>3. CASE \E k \in 0 .. (Bits - 3) - 1 : x + k \in v \ {Bits - 1}
    <3>1. PICK k \in 0 .. (Bits - 3) - 1 : x + k <= g
      BY <1>1, <2>3
    <3>2. QED
      BY <1>0, <1>2, <2>1, <3>1 DEF WordBits
  <2>4. QED
    BY <2>1, <2>2, <2>3
<1>6. ASSUME NEW x \in 0 .. g PROVE x \in After(v, Bits - 3)
  <2>1. x \in WordBits /\ g - x \in 0 .. Bits - 2 /\ x + (g - x) = g
    BY <1>0, <1>2 DEF WordBits
  <2>2. CASE g - x \in 0 .. (Bits - 3) - 1
    <3>1. x + (g - x) \in v \ {Bits - 1}
      BY <1>0, <1>1, <1>2, <2>1
    <3>2. QED
      BY <2>1, <2>2, <3>1 DEF After
  <2>3. CASE g - x = Bits - 3
    BY <1>4, <2>1, <2>3 DEF After
  <2>4. CASE g - x = Bits - 2
    <3>1. g # 0 /\ x + (Bits - 3) = g - 1
      BY <1>0, <1>2, <2>4
    <3>2. QED
      BY <1>4, <2>1, <3>1 DEF After
  <2>5. QED
    BY <1>0, <2>1, <2>2, <2>3, <2>4
<1>7. SetLower(v) = 0 .. g
  BY <1>3, <1>5, <1>6
<1>8. Cardinality(0 .. g) = g + 1
  BY <1>2, FS_Interval
<1>9. QED
  BY <1>7, <1>8 DEF GetMsb, g

Filled(m) == {w \in 0 .. Words - 1 : BitsOf(m, w) # {}}

\* The word that a CPU is in, or another: a mask that has a CPU has a word.
LEMMA SomeFilled ==
  ASSUME NEW m \in SUBSET CPUs, m # {}
  PROVE  Filled(m) # {}
<1>0. Bits \in Nat \ {0} /\ Words \in Nat
  BY MaskAssumption
<1>01. Words * Bits \in Nat
  BY <1>0, Z3
<1>1. PICK c \in m : c \in Nat /\ c < Words * Bits
  <2> DEFINE all == Words * Bits
  <2>1. all \in Nat /\ CPUs = 0 .. all - 1
    BY <1>01 DEF CPUs
  <2> HIDE DEF all
  <2>2. PICK c \in m : c \in CPUs
    OBVIOUS
  <2>3. c \in Nat /\ c < all
    BY <2>1, <2>2
  <2>4. QED
    BY <2>2, <2>3, Zenon DEF all
<1> DEFINE w == c \div Bits
           b == c % Bits
<1>2. \A x \in Nat, y \in Nat \ {0} :
        x \div y \in Nat /\ x % y \in 0 .. y - 1 /\ (x \div y) * y + (x % y) = x
  BY Z3
<1>3. w \in Nat /\ b \in 0 .. Bits - 1 /\ w * Bits + b = c
  BY <1>0, <1>1, <1>2
<1> HIDE DEF w, b
<1>4. w < Words
  <2>1. \A x \in Nat, y \in Nat, z \in Nat : x >= y => x * z >= y * z
    BY Z3
  <2>2. w >= Words => w * Bits >= Words * Bits
    BY <1>0, <1>3, <2>1
  <2>3. w * Bits \in Nat /\ Words * Bits \in Nat
    BY <1>0, <1>3, Z3
  <2>4. QED
    BY <1>0, <1>1, <1>3, <2>2, <2>3
<1>5. w \in 0 .. Words - 1 /\ b \in BitsOf(m, w)
  BY <1>0, <1>1, <1>3, <1>4 DEF BitsOf
<1>6. QED
  BY <1>5 DEF Filled

LEMMA ExtentInInt ==
  ASSUME NEW m \in SUBSET CPUs, m # {}
  PROVE  Extent(m).min \in Int /\ Extent(m).max \in Int
<1> DEFINE first == Lowest(Filled(m))
           last  == Greatest(Filled(m))
<1>0. /\ Words - 1 \in Nat /\ Bytes \in Nat /\ Filled(m) \in SUBSET (0 .. Words - 1)
      /\ Filled(m) \in SUBSET Nat
  BY MaskAssumption DEF Filled
<1>1. first \in Filled(m) /\ last \in Filled(m)
  BY <1>0, SomeFilled, LowestIs, GreatestIs
<1> HIDE DEF first, last
<1>2. first \in Nat /\ last \in Nat /\ BitsOf(m, first) # {}
  BY <1>0, <1>1 DEF Filled
<1>3. \A w : BitsOf(m, w) \in SUBSET WordBits
  BY DEF BitsOf, WordBits
<1>4. Lowest(BitsOf(m, first)) \in WordBits
  <2>1. BitsOf(m, first) \in SUBSET Nat
    BY <1>3, MaskAssumption DEF WordBits
  <2>2. QED
    BY <1>2, <1>3, <2>1, LowestIs
<1>5. GetMsb({Lowest(BitsOf(m, first))}) \in Nat /\ GetMsb(BitsOf(m, last)) \in Nat
  BY <1>3, <1>4, MsbIsNat
<1>6. first * Bytes \in Nat /\ last * Bytes \in Nat
  BY <1>0, <1>2, Z3
<1>7. /\ Extent(m).min = first * Bytes + GetMsb({Lowest(BitsOf(m, first))}) - 1
      /\ Extent(m).max = last * Bytes + GetMsb(BitsOf(m, last)) - 1
  BY DEF Extent, Filled, first, last
<1>8. QED
  BY <1>5, <1>6, <1>7

\* What is in the low bits of the first word is found.
LEMMA LowWordIsCovered ==
  ASSUME NEW m \in SUBSET CPUs, m # {}, LowWord(m)
  PROVE  Covered(m)
<1> DEFINE low == Lowest(m)
           top == Greatest(m)
<1>0. /\ Bits \in Nat /\ Bits > 2 /\ Bits - 2 \in Nat /\ Words \in Nat \ {0} /\ Bytes \in Nat
      /\ m \in SUBSET (0 .. Bits - 2) /\ m \in SUBSET Nat
  BY MaskAssumption DEF LowWord
<1>1. low \in m /\ (\A c \in m : low <= c) /\ top \in m /\ (\A c \in m : c <= top)
  BY <1>0, LowestIs, GreatestIs
<1>2. BitsOf(m, 0) = m
  <2>1. \A b \in 0 .. Bits - 1 : 0 * Bits + b = b
    BY <1>0, Z3
  <2>2. \A b \in 0 .. Bits - 1 : 0 * Bits + b \in m <=> b \in m
    BY <2>1, Zenon
  <2>3. BitsOf(m, 0) = {b \in 0 .. Bits - 1 : b \in m}
    BY <2>2, Zenon DEF BitsOf
  <2>4. m \in SUBSET (0 .. Bits - 1)
    BY <1>0
  <2>5. QED
    BY <2>3, <2>4, Zenon
<1>3. ASSUME NEW w \in 0 .. Words - 1, w # 0 PROVE BitsOf(m, w) = {}
  <2>1. \A x \in Nat \ {0}, y \in Nat : x * y \in Nat /\ x * y >= y
    BY Z3
  <2>2. w * Bits \in Nat /\ w * Bits >= Bits
    BY <1>0, <1>3, <2>1
  <2>3. \A b \in 0 .. Bits - 1 : w * Bits + b \notin m
    BY <1>0, <2>2
  <2>4. QED
    BY <2>3 DEF BitsOf
<1>4. Filled(m) = {0}
  BY <1>0, <1>2, <1>3 DEF Filled
<1>5. Lowest({0}) = 0 /\ Greatest({0}) = 0
  BY DEF Lowest, Greatest
<1>6. GetMsb({low}) = low + 1 /\ GetMsb(m) = top + 1
  <2> HIDE DEF low
  <2>1. Greatest({low}) = low
    BY <1>0, <1>1 DEF Greatest
  <2>2. {low} \in SUBSET (0 .. Bits - 2) /\ {low} # {}
    BY <1>0, <1>1
  <2>3. QED
    BY <1>0, <2>1, <2>2, LowBitsAreFound
<1>7. /\ Extent(m).min = 0 * Bytes + GetMsb({low}) - 1
      /\ Extent(m).max = 0 * Bytes + GetMsb(m) - 1
  BY <1>2, <1>4, <1>5 DEF Extent, Filled
<1>8. low \in Nat /\ top \in Nat
  BY <1>0, <1>1
<1> HIDE DEF low, top
<1>9. Extent(m).min = low /\ Extent(m).max = top
  BY <1>0, <1>6, <1>7, <1>8
<1>10. QED
  BY <1>0, <1>1, <1>8, <1>9 DEF Covered

-----------------------------------------------------------------------------
(* No CPU too many. *)

Reachable(m) == Covered(m) \/ LowWord(m)

\* While CPUs are excluded those that are left lie between the bounds.
Between ==
  pc \in {"exclude", "answer"} /\ Reachable(read) =>
    min \in Int /\ max \in Int /\ mask \subseteq min .. max

\* The bounds have met, or there are as many as told: which is the same, as
\* one CPU is left at least.
LEMMA DrawnIsTold ==
  ASSUME Inv, Between, NEW there \in {"exclude", "answer"}, Drawn(there), Reachable(read)
  PROVE  Cardinality(mask) = told
<1>1. pc = there /\ ~(left > told /\ min < max)
  BY DEF Drawn, Drawing
<1>2. /\ mask \subseteq read /\ left = Cardinality(mask) /\ told <= left
      /\ told \in Nat \ {0} /\ read \in SUBSET CPUs
  BY <1>1 DEF Inv, Typed, Counted
<1>3. min \in Int /\ max \in Int /\ mask \subseteq min .. max
  BY <1>1 DEF Between
<1>4. left \in Nat
  BY <1>2, CountIsNat
<1>5. CASE ~(min < max)
  <2>0. /\ IsFiniteSet(min .. max)
        /\ Cardinality(min .. max) = IF min > max THEN 0 ELSE max - min + 1
    BY <1>3, FS_Interval
  <2>1. IsFiniteSet(min .. max) /\ Cardinality(min .. max) <= 1
    BY <1>3, <1>5, <2>0
  <2>2. Cardinality(mask) <= Cardinality(min .. max)
    BY <1>3, <2>1, FS_Subset
  <2>3. Cardinality(min .. max) \in Nat
    BY <2>1, FS_CardinalityType
  <2>4. QED
    BY <1>2, <1>4, <2>1, <2>2, <2>3
<1>6. CASE ~(left > told)
  BY <1>2, <1>4, <1>6
<1>7. QED
  BY <1>1, <1>5, <1>6

LEMMA InitAgrees == Init => Between /\ CountsAgree
BY DEF Init, Between, CountsAgree

LEMMA LoadBetween ==
  ASSUME Inv, NEW words, NEW there \in {"exclude", "answer"}, Load(words, there)
  PROVE  Between'
<1>1. /\ mask' = allowed /\ read' = allowed /\ allowed \in (SUBSET CPUs) \ {{}}
      /\ min' = Extent(allowed).min /\ max' = Extent(allowed).max
  BY DEF Load, GetAffinity, Inv, Typed
<1>2. min' \in Int /\ max' \in Int
  BY <1>1, ExtentInInt
<1>3. Reachable(allowed) => Covered(allowed)
  BY <1>1, LowWordIsCovered DEF Reachable
<1>4. Reachable(allowed) => allowed \subseteq min' .. max'
  BY <1>1, <1>3 DEF Covered
<1>5. Reachable(read)' => Reachable(allowed)
  BY <1>1 DEF Reachable, Covered, LowWord
<1>6. QED
  BY <1>1, <1>2, <1>4, <1>5 DEF Between

LEMMA ExcludeBetween ==
  ASSUME Inv, Between, NEW i, Exclude(i)
  PROVE  Between'
<1>1. /\ i \in mask /\ mask' = mask \ {i} /\ pc' = pc /\ read' = read
      /\ min' = (IF i = min THEN min + 1 ELSE min)
      /\ max' = (IF i # min /\ i = max THEN max - 1 ELSE max)
  BY DEF Exclude
<1>2. Reachable(read)' = Reachable(read)
  BY <1>1 DEF Reachable, Covered, LowWord
<1>3. ASSUME pc \in {"exclude", "answer"}, Reachable(read)
      PROVE  min' \in Int /\ max' \in Int /\ mask' \subseteq min' .. max'
  <2>1. min \in Int /\ max \in Int /\ mask \subseteq min .. max
    BY <1>3 DEF Between
  <2>2. QED
    BY <1>1, <2>1
<1>4. QED
  BY <1>1, <1>2, <1>3 DEF Between

LEMMA StepAgrees ==
  ASSUME Inv, Between, CountsAgree, [Next]_vars
  PROVE  Between' /\ CountsAgree'
<1>0. Inv'
  BY StepInv
<1>1. ASSUME NEW m PROVE Sysconf("_SC_NPROCESSORS_ONLN", m) = told
  BY DEF Sysconf
<1>2. CASE Leave \/ Miss \/ UNCHANGED vars
  BY <1>2 DEF Leave, Miss, vars, loop, Between, Reachable, Covered, LowWord, CountsAgree, Sysconf,
              Inv, Answered
<1>3. CASE Adjust
  BY <1>3, LoadBetween DEF Adjust, Load, CountsAgree
<1>4. ASSUME NEW i \in CPUs, Exclude(i) PROVE Between' /\ CountsAgree'
  <2>1. pc \in {"exclude", "answer"} /\ pc' = pc
    BY <1>4 DEF Exclude, Drawing
  <2>2. QED
    BY <1>4, <2>1, ExcludeBetween DEF CountsAgree
<1>5. CASE EndAdjust
  <2>1. pc = "exclude" /\ pc' = "run" /\ answer' = answer
    BY <1>5 DEF EndAdjust, Drawn
  <2>2. answer = {}
    BY <2>1 DEF Inv, Answered
  <2>3. QED
    BY <2>1, <2>2 DEF Between, CountsAgree
<1>6. CASE EndAsk
  <2>1. /\ pc = "answer" /\ pc' = "run" /\ answer' = mask /\ read' = read /\ told' = told
        /\ Drawn("answer")
    BY <1>6 DEF EndAsk, Drawn
  <2>2. told <= Cardinality(read) /\ told \in Nat /\ Cardinality(read) \in Nat
    BY <2>1, CountIsNat DEF Inv, Typed, Counted
  <2>3. Reachable(read) => Cardinality(mask) = told
    BY <2>1, DrawnIsTold
  <2>4. Fewer(told, Cardinality(read)) = told
    BY <2>2 DEF Fewer
  <2>5. CountsAgree'
    BY <2>1, <2>3, <2>4 DEF CountsAgree, Sysconf, Reachable, Covered, LowWord
  <2>6. QED
    BY <2>1, <2>5 DEF Between
<1>7. CASE Exec
  BY <1>7 DEF Exec, Between, CountsAgree
<1>8. ASSUME NEW n \in 1 .. Words, Ask(n) PROVE Between' /\ CountsAgree'
  <2>1. CASE Load(n, "answer")
    BY <2>1, LoadBetween DEF Load, CountsAgree
  <2>2. CASE /\ told >= Cardinality(GetAffinity(n))
             /\ answer' = GetAffinity(n) /\ read' = allowed
             /\ UNCHANGED <<allowed, told, pc, loop, changes>>
    <3>1. pc = "run" /\ pc' = "run" /\ told' = told
      BY <1>8, <2>2 DEF Ask
    <3>2. ASSUME answer' # {} PROVE answer' = read' /\ told >= Cardinality(read')
      BY <2>2, <3>2 DEF GetAffinity
    <3>3. told \in Nat /\ Cardinality(read') \in Nat
      BY <1>0, <3>1, CountIsNat DEF Inv, Typed
    <3>4. answer' # {} => Fewer(told, Cardinality(read')) = Cardinality(answer')
      BY <3>2, <3>3 DEF Fewer
    <3>5. QED
      BY <3>1, <3>4 DEF Between, CountsAgree, Sysconf
  <2>3. QED
    BY <1>8, <2>1, <2>2 DEF Ask
<1>9. ASSUME NEW m \in Changes, Change(m) PROVE Between' /\ CountsAgree'
  BY <1>9 DEF Change, loop, Between, Reachable, Covered, LowWord, CountsAgree, Sysconf
<1>10. QED
  BY <1>2, <1>3, <1>4, <1>5, <1>6, <1>7, <1>8, <1>9 DEF Next, Work

\* CountsAlwaysAgree: whatever is drawn, a program finds as many CPUs as it
\* is told there are, or as it has, where the numbers drawn reach all of them:
\* in the low bits of the first word they do, for words of any length.
THEOREM CountsAlwaysAgree == Spec => []CountsAgree
<1>1. Inv /\ Between /\ CountsAgree /\ [Next]_vars => Inv' /\ Between' /\ CountsAgree'
  BY StepInv, StepAgrees
<1>2. QED
  BY InitInv, InitAgrees, <1>1, PTL DEF Spec

-----------------------------------------------------------------------------
(* The least of the limits, part by part. *)

IsLeast(limits, n, x) ==
  /\ x \in Nat
  /\ x = 0 => \A i \in 1 .. n : limits[i] = 0
  /\ x # 0 => /\ \E i \in 1 .. n : limits[i] = x
              /\ \A i \in 1 .. n : limits[i] = 0 \/ x <= limits[i]

LEMMA LeastIsOne ==
  ASSUME NEW limits \in Seq(Nat), NEW n \in 0 .. Len(limits), NEW x, NEW y,
         IsLeast(limits, n, x), IsLeast(limits, n, y)
  PROVE  x = y
<1>1. x \in Nat /\ y \in Nat
  BY DEF IsLeast
<1>2. CASE x = 0
  <2>1. \A i \in 1 .. n : limits[i] = 0
    BY <1>2 DEF IsLeast
  <2>2. QED
    BY <1>2, <2>1 DEF IsLeast
<1>3. CASE y = 0
  <2>1. \A i \in 1 .. n : limits[i] = 0
    BY <1>3 DEF IsLeast
  <2>2. QED
    BY <1>3, <2>1 DEF IsLeast
<1>4. CASE x # 0 /\ y # 0
  <2>1. PICK i \in 1 .. n : limits[i] = x
    BY <1>4 DEF IsLeast
  <2>2. PICK j \in 1 .. n : limits[j] = y
    BY <1>4 DEF IsLeast
  <2>3. y <= x /\ x <= y
    BY <1>4, <2>1, <2>2 DEF IsLeast
  <2>4. QED
    BY <1>1, <2>3
<1>5. QED
  BY <1>2, <1>3, <1>4

LEMMA LeastOfOneMore ==
  ASSUME NEW limits \in Seq(Nat), NEW n \in 1 .. Len(limits), NEW x, IsLeast(limits, n - 1, x)
  PROVE  IsLeast(limits, n, MinPositive(x, limits[n]))
<1> DEFINE b == limits[n]
           y == MinPositive(x, b)
<1> SUFFICES IsLeast(limits, n, y)
  OBVIOUS
<1>1. x \in Nat /\ b \in Nat /\ n \in Nat /\ n - 1 \in Nat
  BY DEF IsLeast
<1>2. \A i \in 1 .. n : i = n \/ i \in 1 .. n - 1
  BY <1>1
<1>3. n \in 1 .. n /\ \A i \in 1 .. n - 1 : i \in 1 .. n
  BY <1>1
<1>4. \A i \in 1 .. n - 1 : limits[i] \in Nat
  OBVIOUS
<1> HIDE DEF b
<1>5. CASE x = 0
  <2>1. y = b
    BY <1>1, <1>5 DEF MinPositive, Larger
  <2>2. \A i \in 1 .. n - 1 : limits[i] = 0
    BY <1>5 DEF IsLeast
  <2>3. \A i \in 1 .. n : limits[i] = 0 \/ i = n
    BY <1>2, <2>2
  <2> HIDE DEF y
  <2>4. QED
    BY <1>1, <1>3, <2>1, <2>3 DEF IsLeast, b
<1>6. CASE x # 0 /\ b = 0
  <2>1. y = x
    BY <1>1, <1>6 DEF MinPositive, Larger
  <2>2. PICK i \in 1 .. n - 1 : limits[i] = x
    BY <1>6 DEF IsLeast
  <2>3. \A j \in 1 .. n : limits[j] = 0 \/ x <= limits[j]
    BY <1>2, <1>6 DEF IsLeast, b
  <2> HIDE DEF y
  <2>4. QED
    BY <1>1, <1>3, <1>6, <2>1, <2>2, <2>3 DEF IsLeast, b
<1>7. CASE x # 0 /\ b # 0
  <2>1. y \in {x, b} /\ y <= x /\ y <= b /\ y # 0 /\ y \in Nat
    BY <1>1, <1>7 DEF MinPositive, Larger, Smaller
  <2>2. PICK i \in 1 .. n - 1 : limits[i] = x
    BY <1>7 DEF IsLeast
  <2> HIDE DEF y
  <2>3. \A j \in 1 .. n - 1 : limits[j] = 0 \/ y <= limits[j]
    <3>1. \A j \in 1 .. n - 1 : limits[j] = 0 \/ x <= limits[j]
      BY <1>7 DEF IsLeast
    <3>2. QED
      BY <1>1, <1>4, <2>1, <3>1
  <2>4. \E j \in 1 .. n : limits[j] = y
    BY <1>3, <2>1, <2>2 DEF b
  <2>5. QED
    BY <1>2, <2>1, <2>3, <2>4 DEF IsLeast, b
<1>8. QED
  BY <1>5, <1>6, <1>7 DEF b

LEMMA LeastIsLeast ==
  ASSUME NEW limits \in Seq(Nat)
  PROVE  IsLeast(limits, Len(limits), Least(limits))
<1> DEFINE N == Len(limits)
           V(n) == CHOOSE x : IsLeast(limits, n, x)
           Body(f) == [n \in 0 .. N |-> IF n = 0 THEN 0 ELSE MinPositive(f[n - 1], limits[n])]
           e == [n \in 0 .. N |-> V(n)]
           least == CHOOSE f : f = Body(f)
           P == {n \in 0 .. N : IsLeast(limits, n, V(n))}
<1>0. N \in Nat
  OBVIOUS
<1>1. Least(limits) = least[N]
  BY DEF Least
<1>2. IsLeast(limits, 0, 0)
  BY DEF IsLeast
<1>3. IsLeast(limits, 0, V(0))
  BY <1>2
<1>4. V(0) = 0
  <2>1. 0 \in 0 .. Len(limits)
    BY <1>0
  <2> HIDE DEF V
  <2>2. QED
    BY <1>2, <1>3, <2>1, LeastIsOne
<1> HIDE DEF N
<1>5. ASSUME NEW m \in 0 .. N - 1, m \in P
      PROVE  IsLeast(limits, m + 1, V(m + 1)) /\ V(m + 1) = MinPositive(V(m), limits[m + 1])
  <2>1. m + 1 \in 1 .. N /\ (m + 1) - 1 = m /\ IsLeast(limits, m, V(m)) /\ m + 1 \in 0 .. N
    BY <1>0, <1>5
  <2> DEFINE v == V(m)
  <2> HIDE DEF v
  <2>2. IsLeast(limits, m + 1, MinPositive(v, limits[m + 1]))
    BY <2>1, LeastOfOneMore DEF v, N
  <2>3. IsLeast(limits, m + 1, V(m + 1))
    BY <2>2
  <2> HIDE DEF V
  <2>4. V(m + 1) = MinPositive(v, limits[m + 1])
    BY <2>1, <2>2, <2>3, LeastIsOne DEF N
  <2>5. QED
    BY <2>3, <2>4 DEF v
<1> HIDE DEF V
<1>6. P = 0 .. N
  <2>1. 0 \in P /\ P \in SUBSET (0 .. N)
    BY <1>0, <1>3
  <2>2. ASSUME NEW m \in 0 .. N - 1, m \in P PROVE m + 1 \in P
    <3>1. m + 1 \in 0 .. N
      BY <1>0
    <3>2. QED
      BY <1>5, <2>2, <3>1
  <2> HIDE DEF P
  <2>3. QED
    BY <1>0, <2>1, <2>2, Upwards
<1>7. e = Body(e)
  <2>1. ASSUME NEW n \in 0 .. N
        PROVE  V(n) = IF n = 0 THEN 0 ELSE MinPositive(e[n - 1], limits[n])
    <3>1. CASE n = 0
      BY <1>4, <3>1
    <3>2. CASE n # 0
      <4>1. n - 1 \in 0 .. N - 1 /\ n - 1 \in 0 .. N /\ (n - 1) + 1 = n
        BY <1>0, <3>2
      <4>2. n - 1 \in P
        BY <1>6, <4>1
      <4>3. V((n - 1) + 1) = MinPositive(V(n - 1), limits[(n - 1) + 1])
        BY <1>5, <4>1, <4>2
      <4>4. e[n - 1] = V(n - 1)
        BY <4>1
      <4> HIDE DEF e
      <4>5. QED
        BY <3>2, <4>1, <4>3, <4>4
    <3>3. QED
      BY <3>1, <3>2
  <2>2. QED
    BY <2>1
<1>8. least = Body(least)
  <2> HIDE DEF e, Body
  <2>1. \E f : f = Body(f)
    BY <1>7
  <2>2. QED
    BY <2>1
<1> HIDE DEF least
<1> DEFINE Q == {n \in 0 .. N : least[n] = V(n)}
<1>9. Q = 0 .. N
  <2>1. 0 \in Q /\ Q \in SUBSET (0 .. N)
    BY <1>0, <1>4, <1>8
  <2>2. ASSUME NEW m \in 0 .. N - 1, m \in Q PROVE m + 1 \in Q
    <3>1. m + 1 \in 0 .. N /\ m + 1 # 0 /\ (m + 1) - 1 = m /\ m \in P
      BY <1>0, <1>6
    <3>2. least[m + 1] = MinPositive(least[(m + 1) - 1], limits[m + 1])
      BY <1>8, <3>1
    <3>3. V(m + 1) = MinPositive(V(m), limits[m + 1])
      BY <1>5, <3>1
    <3>4. QED
      BY <2>2, <3>1, <3>2, <3>3
  <2> HIDE DEF Q
  <2>3. QED
    BY <1>0, <2>1, <2>2, Upwards
<1>10. N \in 0 .. N
  BY <1>0
<1>11. QED
  BY <1>1, <1>6, <1>9, <1>10 DEF N

-----------------------------------------------------------------------------
(* A list counts to the CPUs it names. *)

ListedTo(list, n) == UNION {PartOf(list[i]) : i \in 1 .. n}

LEMMA ListIs ==
  ASSUME NEW list \in Lists
  PROVE  /\ list \in Seq(Seq(CPUs)) /\ Len(list) \in Nat /\ DOMAIN list = 1 .. Len(list)
         /\ \A i \in 1 .. Len(list) :
              /\ list[i] \in Seq(CPUs) /\ Len(list[i]) \in {1, 2}
              /\ PartOf(list[i]) \in SUBSET CPUs
              /\ Len(list[i]) = 2 => list[i][1] <= list[i][2]
         /\ \A i \in 1 .. Len(list) : \A j \in 1 .. i - 1 :
              \A c \in PartOf(list[i]) : \A d \in PartOf(list[j]) : d < c
<1>1. list \in Seq(Seq(CPUs)) /\ Ordered(list)
  BY DEF Lists
<1>2. Len(list) \in Nat /\ DOMAIN list = 1 .. Len(list)
  BY <1>1
<1>3. \A i \in 1 .. Len(list) : list[i] \in Seq(CPUs)
  BY <1>1
<1>4. QED
  BY <1>1, <1>2, <1>3 DEF Ordered

LEMMA PartCounts ==
  ASSUME NEW part \in Seq(CPUs), Len(part) \in {1, 2}, Len(part) = 2 => part[1] <= part[2]
  PROVE  /\ PartCount(part) \in Nat /\ IsFiniteSet(PartOf(part)) /\ PartOf(part) # {}
         /\ Cardinality(PartOf(part)) = PartCount(part)
<1>0. \A c \in CPUs : c \in Nat
  BY MaskAssumption DEF CPUs
<1>1. CASE Len(part) = 1
  <2>1. PartOf(part) = {part[1]} /\ PartCount(part) = 1
    BY <1>1 DEF PartOf, PartCount
  <2>2. IsFiniteSet({part[1]}) /\ Cardinality({part[1]}) = 1 /\ {part[1]} # {}
    BY FS_Singleton
  <2>3. QED
    BY <2>1, <2>2
<1>2. CASE Len(part) = 2
  <2>1. part[1] \in CPUs /\ part[2] \in CPUs
    BY <1>2
  <2>2. part[1] \in Nat /\ part[2] \in Nat /\ part[1] <= part[2]
    BY <1>0, <1>2, <2>1
  <2>3. PartOf(part) = part[1] .. part[2] /\ PartCount(part) = part[2] - part[1] + 1
    BY <1>2 DEF PartOf, PartCount
  <2>4. IsFiniteSet(part[1] .. part[2]) /\ Cardinality(part[1] .. part[2]) = part[2] - part[1] + 1
    <3>1. \A a, b \in Nat : a <= b => IsFiniteSet(a .. b) /\ Cardinality(a .. b) = b - a + 1
      BY FS_Interval
    <3>2. QED
      BY <2>2, <3>1
  <2>5. part[1] \in part[1] .. part[2] /\ part[2] - part[1] + 1 \in Nat
    BY <2>2
  <2>6. QED
    BY <2>3, <2>4, <2>5
<1>3. QED
  BY <1>1, <1>2

LEMMA OnePartMore ==
  ASSUME NEW list \in Lists, NEW n \in 1 .. Len(list)
  PROVE  /\ ListedTo(list, n - 1) \in SUBSET CPUs /\ ListedTo(list, n) \in SUBSET CPUs
         /\ Cardinality(ListedTo(list, n)) = Cardinality(ListedTo(list, n - 1)) + PartCount(list[n])
<1> DEFINE old  == ListedTo(list, n - 1)
           part == PartOf(list[n])
<1>0. n \in Nat /\ Len(list) \in Nat /\ \A i \in 1 .. n : i \in 1 .. Len(list)
  BY ListIs
<1>1. \A i \in 1 .. n : PartOf(list[i]) \in SUBSET CPUs
  BY <1>0, ListIs
<1>2. \A i \in 1 .. n : i = n \/ i \in 1 .. n - 1
  BY <1>0
<1>3. n \in 1 .. n /\ \A i \in 1 .. n - 1 : i \in 1 .. n
  BY <1>0
<1>4. ListedTo(list, n) = old \cup part /\ old \in SUBSET CPUs /\ part \in SUBSET CPUs
  BY <1>1, <1>2, <1>3 DEF ListedTo
<1>5. old \cap part = {}
  <2>1. \A j \in 1 .. n - 1 : \A c \in part : \A d \in PartOf(list[j]) : d < c
    BY ListIs
  <2>2. \A c \in CPUs : c \in Int
    BY MaskAssumption DEF CPUs
  <2>3. \A c \in CPUs : ~ (c < c)
    BY <2>2
  <2> HIDE DEF part
  <2>4. QED
    BY <1>4, <2>1, <2>3 DEF ListedTo
<1>6. Cardinality(part) = PartCount(list[n]) /\ PartCount(list[n]) \in Nat
  BY ListIs, PartCounts
<1>7. IsFiniteSet(old) /\ IsFiniteSet(part)
  BY <1>4, CountIsNat
<1> HIDE DEF old, part
<1>8. Cardinality(old \cup part) = Cardinality(old) + Cardinality(part) - Cardinality(old \cap part)
  BY <1>7, FS_Union
<1>9. Cardinality(old \cap part) = 0 /\ Cardinality(old) \in Nat
  BY <1>4, <1>5, CountIsNat, FS_EmptySet
<1>10. QED
  BY <1>4, <1>6, <1>8, <1>9 DEF old

LEMMA ListCounts ==
  ASSUME NEW list \in Lists
  PROVE  /\ CpuListCount(list) = Cardinality(CpusOf(list)) /\ CpusOf(list) \in SUBSET CPUs
         /\ CpusOf(list) = {} <=> list = <<>>
<1> DEFINE N == Len(list)
           V(n) == Cardinality(ListedTo(list, n))
           Body(f) == [n \in 0 .. N |-> IF n = 0 THEN 0 ELSE f[n - 1] + PartCount(list[n])]
           e == [n \in 0 .. N |-> V(n)]
           sum == CHOOSE f : f = Body(f)
<1>0. N \in Nat
  BY ListIs
<1>1. CpuListCount(list) = sum[N]
  BY DEF CpuListCount
<1>2. V(0) = 0
  <2>1. ListedTo(list, 0) = {}
    BY DEF ListedTo
  <2>2. QED
    BY <2>1, FS_EmptySet
<1>3. ASSUME NEW n \in 1 .. N PROVE V(n) = V(n - 1) + PartCount(list[n])
  BY OnePartMore
<1>4. CpusOf(list) = ListedTo(list, N)
  BY ListIs DEF CpusOf, ListedTo
<1>5. CpusOf(list) \in SUBSET CPUs
  BY ListIs DEF CpusOf
<1>6. CpusOf(list) = {} <=> list = <<>>
  <2>1. CASE list = <<>>
    BY <2>1 DEF CpusOf
  <2>2. CASE list # <<>>
    <3>1. 1 \in 1 .. Len(list) /\ 1 \in DOMAIN list
      BY <2>2, ListIs
    <3>2. PartOf(list[1]) # {}
      BY <3>1, ListIs, PartCounts
    <3>3. QED
      BY <2>2, <3>1, <3>2 DEF CpusOf
  <2>3. QED
    BY <2>1, <2>2
<1> HIDE DEF N, V
<1>7. e = Body(e)
  <2>1. ASSUME NEW n \in 0 .. N
        PROVE  V(n) = IF n = 0 THEN 0 ELSE e[n - 1] + PartCount(list[n])
    <3>1. CASE n = 0
      BY <1>2, <3>1
    <3>2. CASE n # 0
      <4>1. n \in 1 .. N /\ n - 1 \in 0 .. N
        BY <1>0, <3>2
      <4>2. e[n - 1] = V(n - 1)
        BY <4>1
      <4> HIDE DEF e
      <4>3. QED
        BY <1>3, <3>2, <4>1, <4>2
    <3>3. QED
      BY <3>1, <3>2
  <2>2. QED
    BY <2>1
<1>8. sum = Body(sum)
  <2> HIDE DEF e, Body
  <2>1. \E f : f = Body(f)
    BY <1>7
  <2>2. QED
    BY <2>1
<1> HIDE DEF sum
<1> DEFINE Q == {n \in 0 .. N : sum[n] = V(n)}
<1>9. Q = 0 .. N
  <2>1. 0 \in Q /\ Q \in SUBSET (0 .. N)
    BY <1>0, <1>2, <1>8
  <2>2. ASSUME NEW m \in 0 .. N - 1, m \in Q PROVE m + 1 \in Q
    <3>1. m + 1 \in 0 .. N /\ m + 1 # 0 /\ (m + 1) - 1 = m /\ m + 1 \in 1 .. N
      BY <1>0
    <3>2. sum[m + 1] = sum[(m + 1) - 1] + PartCount(list[m + 1])
      BY <1>8, <3>1
    <3>3. V(m + 1) = V((m + 1) - 1) + PartCount(list[m + 1])
      BY <1>3, <3>1
    <3>4. QED
      BY <2>2, <3>1, <3>2, <3>3
  <2> HIDE DEF Q
  <2>3. QED
    BY <1>0, <2>1, <2>2, Upwards
<1>10. N \in 0 .. N
  BY <1>0
<1>11. QED
  BY <1>1, <1>4, <1>5, <1>6, <1>9, <1>10 DEF V

-----------------------------------------------------------------------------
(* A quota comes to the CPUs it keeps busy. *)

LEMMA DivIs ==
  ASSUME NEW q \in Nat, NEW p \in Nat \ {0}
  PROVE  /\ q \div p \in Nat /\ q % p \in 0 .. p - 1
         /\ q = (q \div p) * p + (q % p)
BY Z3

LEMMA OnlyOneNeeded ==
  ASSUME NEW q \in Nat, NEW p \in Nat \ {0}, NEW n \in Nat, NEW k \in Nat,
         n * p >= q, (n - 1) * p < q, k * p >= q, (k - 1) * p < q
  PROVE  n = k
<1>1. \A a, b, c \in Nat : a < b => a * c <= (b - 1) * c
  <2>1. SUFFICES ASSUME NEW a \in Nat, NEW b \in Nat, NEW c \in Nat, a < b
                 PROVE  a * c <= (b - 1) * c
    OBVIOUS
  <2>2. PICK d \in Nat : b - 1 = a + d
    <3>1. b - 1 - a \in Nat /\ b - 1 = a + (b - 1 - a)
      BY <2>1
    <3>2. QED
      BY <3>1
  <2>3. (b - 1) * c = a * c + d * c /\ d * c \in Nat /\ a * c \in Nat
    BY <2>2
  <2>4. QED
    BY <2>3
<1>2. n * p \in Int /\ k * p \in Int /\ (n - 1) * p \in Int /\ (k - 1) * p \in Int
  OBVIOUS
<1>3. ~(n < k)
  <2>1. n < k => n * p <= (k - 1) * p
    BY <1>1
  <2>2. QED
    BY <1>2, <2>1
<1>4. ~(k < n)
  <2>1. k < n => k * p <= (n - 1) * p
    BY <1>1
  <2>2. QED
    BY <1>2, <2>1
<1>5. QED
  BY <1>3, <1>4

LEMMA NeededIs ==
  ASSUME NEW q \in Nat \ {0}, NEW p \in Nat \ {0}
  PROVE  Needed(q, p) \in Nat \ {0} /\ Larger(1, CeilDiv(q, p)) = Needed(q, p)
<1> DEFINE d == q \div p
           r == q % p
           c == CeilDiv(q, p)
<1>1. d \in Nat /\ r \in 0 .. p - 1 /\ q = d * p + r
  BY DivIs
<1>2. c = d + (IF r # 0 THEN 1 ELSE 0)
  BY DEF CeilDiv
<1> HIDE DEF d, r, c
<1>3. (d + 1) * p = d * p + p /\ d * p \in Nat /\ (d - 1) * p = d * p - p
  BY <1>1
<1>4. c \in 1 .. q /\ c * p >= q /\ (c - 1) * p < q
  <2>1. CASE r # 0
    <3>1. c = d + 1 /\ c - 1 = d
      BY <1>1, <1>2, <2>1
    <3>2. d <= d * p
      BY <1>1
    <3>3. QED
      BY <1>1, <1>3, <2>1, <3>1, <3>2
  <2>2. CASE r = 0
    <3>1. c = d /\ q = d * p
      BY <1>1, <1>2, <2>2
    <3>2. d # 0
      BY <1>1, <3>1
    <3>3. d <= d * p
      BY <1>1
    <3>4. QED
      BY <1>1, <1>3, <3>1, <3>2, <3>3
  <2>3. QED
    BY <2>1, <2>2
<1>5. \E n \in 1 .. q : n * p >= q /\ (n - 1) * p < q
  BY <1>4
<1>6. Needed(q, p) \in 1 .. q /\ Needed(q, p) * p >= q /\ (Needed(q, p) - 1) * p < q
  BY <1>5 DEF Needed
<1> DEFINE n == Needed(q, p)
<1> HIDE DEF n
<1>7. n = c
  <2>1. n \in Nat /\ c \in Nat /\ n * p >= q /\ (n - 1) * p < q
    BY <1>4, <1>6 DEF n
  <2>2. QED
    BY <1>4, <2>1, OnlyOneNeeded
<1>8. Larger(1, c) = c
  BY <1>4 DEF Larger
<1>9. QED
  BY <1>4, <1>7, <1>8 DEF n, c

-----------------------------------------------------------------------------
(* The directory of a machine's own group, and what is in it. *)

Shown(m) == m.root \in {TheRoot, m.path}

OwnDirectory(m, at) ==
  IF Shown(m) THEN [mount |-> at, path |-> IF m.root = TheRoot THEN m.path ELSE <<>>, found |-> TRUE]
  ELSE Nowhere

LEMMA OneSuch ==
  ASSUME NEW lines, NEW n \in Nat, DOMAIN lines = 1 .. n, NEW such,
         NEW i \in 1 .. n, lines[i] \in such, \A h \in 1 .. i - 1 : lines[h] \notin such
  PROVE  FirstSuch(lines, such) = {lines[i]}
<1> DEFINE J == {j \in DOMAIN lines : lines[j] \in such /\ \A h \in 1 .. j - 1 : lines[h] \notin such}
<1>1. i \in J
  OBVIOUS
<1>2. ASSUME NEW j \in J PROVE j = i
  <2>1. j \in 1 .. n /\ lines[j] \in such /\ \A h \in 1 .. j - 1 : lines[h] \notin such
    OBVIOUS
  <2>2. j \notin 1 .. i - 1 /\ i \notin 1 .. j - 1
    BY <2>1
  <2>3. QED
    BY <2>1, <2>2
<1>3. FirstSuch(lines, such) = {lines[j] : j \in J}
  BY DEF FirstSuch
<1> HIDE DEF J
<1>4. QED
  BY <1>1, <1>2, <1>3

LEMMA NoSuch ==
  ASSUME NEW lines, NEW such, \A i \in DOMAIN lines : lines[i] \notin such
  PROVE  FirstSuch(lines, such) = {}
BY DEF FirstSuch

LEMMA PathFound ==
  ASSUME NEW k, NEW own, NEW m, NEW g,
         FirstSuch(k.mounts, DOMAIN own) = {m}, FirstSuch(k.groups, own[m]) = {g}
  PROVE  CgroupPath(k, own) = Directory(m, g)
<1> DEFINE dirs == UNION {{Directory(x, y) : y \in FirstSuch(k.groups, own[x])} : x \in FirstSuch(k.mounts, DOMAIN own)}
<1>1. dirs = {Directory(m, g)}
  OBVIOUS
<1>2. CgroupPath(k, own) = IF dirs = {} THEN Nowhere ELSE CHOOSE d \in dirs : TRUE
  BY DEF CgroupPath
<1> HIDE DEF dirs
<1>3. QED
  BY <1>1, <1>2

LEMMA PathNotFound ==
  ASSUME NEW k, NEW own,
         \A m \in FirstSuch(k.mounts, DOMAIN own) : FirstSuch(k.groups, own[m]) = {}
  PROVE  CgroupPath(k, own) = Nowhere
<1> DEFINE dirs == UNION {{Directory(x, y) : y \in FirstSuch(k.groups, own[x])} : x \in FirstSuch(k.mounts, DOMAIN own)}
<1>1. dirs = {}
  OBVIOUS
<1>2. CgroupPath(k, own) = IF dirs = {} THEN Nowhere ELSE CHOOSE d \in dirs : TRUE
  BY DEF CgroupPath
<1> HIDE DEF dirs
<1>3. QED
  BY <1>1, <1>2

MountsOf(m) ==
  IF m.version = 1
  THEN <<Mount("proc", <<"proc">>, TheRoot, {"rw"}),
         Mount("cgroup", <<"cg", "cpu">>, m.root, {"rw", "cpu", "cpuacct"}),
         Mount("cgroup", <<"cg", "cpuset">>, m.root, {"rw", "cpuset"}),
         Mount("cgroup2", <<"cg", "unified">>, m.root, {"rw"})>>
  ELSE <<Mount("proc", <<"proc">>, TheRoot, {"rw"}),
         Mount("cgroup2", <<"cg">>, m.root, {"rw"})>>

GroupsOf(m) ==
  IF m.version = 1
  THEN <<Group(3, {"cpu", "cpuacct"}, m.path), Group(2, {"cpuset"}, m.path), Group(0, {}, m.path)>>
  ELSE <<Group(0, {}, m.path)>>

LEMMA KernelLines ==
  ASSUME NEW m
  PROVE  KernelOf(m).mounts = MountsOf(m) /\ KernelOf(m).groups = GroupsOf(m)
BY DEF KernelOf, MountsOf, GroupsOf

\* There are four or two mounts, three groups or one.
LEMMA LinesOfV1 ==
  ASSUME NEW m, m.version = 1
  PROVE  /\ DOMAIN MountsOf(m) = 1 .. 4
         /\ MountsOf(m)[1].fs_type = "proc"
         /\ MountsOf(m)[2] = Mount("cgroup", <<"cg", "cpu">>, m.root, {"rw", "cpu", "cpuacct"})
         /\ MountsOf(m)[3] = Mount("cgroup", <<"cg", "cpuset">>, m.root, {"rw", "cpuset"})
         /\ MountsOf(m)[4] = Mount("cgroup2", <<"cg", "unified">>, m.root, {"rw"})
         /\ DOMAIN GroupsOf(m) = 1 .. 3
         /\ GroupsOf(m)[1] = Group(3, {"cpu", "cpuacct"}, m.path)
         /\ GroupsOf(m)[2] = Group(2, {"cpuset"}, m.path)
         /\ GroupsOf(m)[3] = Group(0, {}, m.path)
<1> DEFINE A == Mount("proc", <<"proc">>, TheRoot, {"rw"})
           B == Mount("cgroup", <<"cg", "cpu">>, m.root, {"rw", "cpu", "cpuacct"})
           C == Mount("cgroup", <<"cg", "cpuset">>, m.root, {"rw", "cpuset"})
           D == Mount("cgroup2", <<"cg", "unified">>, m.root, {"rw"})
           X == Group(3, {"cpu", "cpuacct"}, m.path)
           Y == Group(2, {"cpuset"}, m.path)
           Z == Group(0, {}, m.path)
<1>1. MountsOf(m) = <<A, B, C, D>> /\ GroupsOf(m) = <<X, Y, Z>>
  BY DEF MountsOf, GroupsOf
<1>2. A.fs_type = "proc"
  BY DEF Mount
<1> HIDE DEF A, B, C, D, X, Y, Z
<1>3. /\ DOMAIN MountsOf(m) = 1 .. 4 /\ DOMAIN GroupsOf(m) = 1 .. 3
      /\ MountsOf(m)[1] = A /\ MountsOf(m)[2] = B /\ MountsOf(m)[3] = C /\ MountsOf(m)[4] = D
      /\ GroupsOf(m)[1] = X /\ GroupsOf(m)[2] = Y /\ GroupsOf(m)[3] = Z
  BY <1>1
<1>4. QED
  BY <1>2, <1>3 DEF B, C, D, X, Y, Z

LEMMA LinesOfV2 ==
  ASSUME NEW m, m.version # 1
  PROVE  /\ DOMAIN MountsOf(m) = 1 .. 2
         /\ MountsOf(m)[1].fs_type = "proc"
         /\ MountsOf(m)[2] = Mount("cgroup2", <<"cg">>, m.root, {"rw"})
         /\ DOMAIN GroupsOf(m) = 1 .. 1
         /\ GroupsOf(m)[1] = Group(0, {}, m.path)
<1> DEFINE A == Mount("proc", <<"proc">>, TheRoot, {"rw"})
           B == Mount("cgroup2", <<"cg">>, m.root, {"rw"})
           X == Group(0, {}, m.path)
<1>1. MountsOf(m) = <<A, B>> /\ GroupsOf(m) = <<X>>
  BY DEF MountsOf, GroupsOf
<1>2. A.fs_type = "proc"
  BY DEF Mount
<1> HIDE DEF A, B, X
<1>3. /\ DOMAIN MountsOf(m) = 1 .. 2 /\ DOMAIN GroupsOf(m) = 1 .. 1
      /\ MountsOf(m)[1] = A /\ MountsOf(m)[2] = B /\ GroupsOf(m)[1] = X
  BY <1>1
<1>4. QED
  BY <1>2, <1>3 DEF B, X

LEMMA FieldsAre ==
  ASSUME NEW type, NEW at, NEW root, NEW options, NEW n, NEW controllers, NEW path
  PROVE  /\ Mount(type, at, root, options).fs_type = type
         /\ Mount(type, at, root, options).mount_point = at
         /\ Mount(type, at, root, options).root = root
         /\ Mount(type, at, root, options).super_options = options
         /\ Group(n, controllers, path).id = n
         /\ Group(n, controllers, path).controllers = controllers
         /\ Group(n, controllers, path).path = path
BY DEF Mount, Group

\* A mount is found, and a group that it shows or not.
Walks(m, own, i, j) ==
  LET M == MountsOf(m)[i]
      G == GroupsOf(m)[j]
  IN  /\ i \in DOMAIN MountsOf(m) /\ M \in DOMAIN own
      /\ \A h \in 1 .. i - 1 : MountsOf(m)[h] \notin DOMAIN own
      /\ j \in DOMAIN GroupsOf(m) /\ (G \in own[M] <=> Shown(m))
      /\ \A h \in DOMAIN GroupsOf(m) : h # j => GroupsOf(m)[h] \notin own[M]
      /\ M.root = m.root /\ G.path = m.path

LEMMA Walk ==
  ASSUME NEW m, NEW own, NEW i, NEW j, Walks(m, own, i, j)
  PROVE  CgroupPath(KernelOf(m), own) = OwnDirectory(m, MountsOf(m)[i].mount_point)
<1> DEFINE M == MountsOf(m)[i]
           G == GroupsOf(m)[j]
<1>1. PICK a \in Nat, b \in Nat : DOMAIN MountsOf(m) = 1 .. a /\ DOMAIN GroupsOf(m) = 1 .. b
  <2>1. 4 \in Nat /\ 3 \in Nat /\ 2 \in Nat /\ 1 \in Nat
    OBVIOUS
  <2>2. QED
    BY <2>1, LinesOfV1, LinesOfV2
<1>2. FirstSuch(KernelOf(m).mounts, DOMAIN own) = {M}
  BY <1>1, KernelLines, OneSuch DEF Walks
<1>3. CASE Shown(m)
  <2>1. \A h \in 1 .. j - 1 : h \in 1 .. b /\ h # j
    BY <1>1 DEF Walks
  <2>2. FirstSuch(KernelOf(m).groups, own[M]) = {G}
    BY <1>1, <1>3, <2>1, KernelLines, OneSuch DEF Walks
  <2>3. CgroupPath(KernelOf(m), own) = Directory(M, G)
    BY <1>2, <2>2, PathFound
  <2>4. M.root = m.root /\ G.path = m.path
    BY DEF Walks
  <2>5. QED
    BY <1>3, <2>3, <2>4 DEF Directory, OwnDirectory
<1>4. CASE ~Shown(m)
  <2>1. \A h \in DOMAIN GroupsOf(m) : GroupsOf(m)[h] \notin own[M]
    BY <1>4 DEF Walks
  <2>2. FirstSuch(KernelOf(m).groups, own[M]) = {}
    BY <2>1, KernelLines, NoSuch
  <2>3. QED
    BY <1>2, <1>4, <2>2, PathNotFound DEF OwnDirectory
<1>5. QED
  BY <1>3, <1>4

LEMMA CpuSetDirectory ==
  ASSUME NEW m, m.version = 1
  PROVE  CgroupV1Path(KernelOf(m), "cpuset") = OwnDirectory(m, <<"cg", "cpuset">>)
<1> DEFINE k   == KernelOf(m)
           all == {x \in LinesOf(k.mounts) : x.fs_type = "cgroup" /\ "cpuset" \in x.super_options}
           own == [x \in all |->
                     {g \in LinesOf(k.groups) : "cpuset" \in g.controllers /\ x.root \in {g.path, TheRoot}}]
           M   == Mount("cgroup", <<"cg", "cpuset">>, m.root, {"rw", "cpuset"})
           G   == Group(2, {"cpuset"}, m.path)
<1>1. CgroupV1Path(k, "cpuset") = CgroupPath(k, own)
  BY DEF CgroupV1Path
<1>2. DOMAIN MountsOf(m) = 1 .. 4 /\ MountsOf(m)[3] = M /\ k.mounts = MountsOf(m)
  BY KernelLines, LinesOfV1
<1>3. DOMAIN GroupsOf(m) = 1 .. 3 /\ GroupsOf(m)[2] = G /\ k.groups = GroupsOf(m)
  BY KernelLines, LinesOfV1
<1>4. M.fs_type = "cgroup" /\ M.mount_point = <<"cg", "cpuset">> /\ M.root = m.root /\ "cpuset" \in M.super_options
  BY DEF Mount
<1>5. G.path = m.path /\ "cpuset" \in G.controllers
  BY DEF Group
<1>6. MountsOf(m)[1].fs_type = "proc" /\ "cpuset" \notin MountsOf(m)[2].super_options
  BY LinesOfV1, FieldsAre
<1>7. "cpuset" \notin GroupsOf(m)[1].controllers /\ "cpuset" \notin GroupsOf(m)[3].controllers
  BY LinesOfV1, FieldsAre
<1> HIDE DEF k, M, G
<1>8. M \in all /\ DOMAIN own = all
  BY <1>2, <1>4 DEF LinesOf
<1>9. \A h \in 1 .. 3 - 1 : MountsOf(m)[h] \notin DOMAIN own
  <2>1. MountsOf(m)[1] \notin all /\ MountsOf(m)[2] \notin all
    BY <1>6
  <2>2. \A h \in 1 .. 3 - 1 : h = 1 \/ h = 2
    OBVIOUS
  <2> HIDE DEF all
  <2>3. QED
    BY <2>1, <2>2
<1>10. own[M] = {g \in LinesOf(k.groups) : "cpuset" \in g.controllers /\ M.root \in {g.path, TheRoot}}
  BY <1>8
<1>11. \A h \in 1 .. 3 : h # 2 => GroupsOf(m)[h] \notin own[M]
  <2>1. \A h \in 1 .. 3 : h = 1 \/ h = 2 \/ h = 3
    OBVIOUS
  <2> HIDE DEF own
  <2>2. QED
    BY <1>7, <1>10, <2>1
<1>12. G \in own[M] <=> Shown(m)
  <2>1. G \in LinesOf(k.groups)
    BY <1>3 DEF LinesOf
  <2> HIDE DEF own
  <2>2. QED
    BY <1>4, <1>5, <1>10, <2>1 DEF Shown
<1> HIDE DEF all, own
<1>13. Walks(m, own, 3, 2)
  BY <1>2, <1>3, <1>4, <1>5, <1>8, <1>9, <1>11, <1>12 DEF Walks
<1>14. CgroupPath(KernelOf(m), own) = OwnDirectory(m, MountsOf(m)[3].mount_point)
  BY <1>13, Walk
<1>15. QED
  BY <1>1, <1>2, <1>4, <1>14 DEF k

LEMMA CpuDirectory ==
  ASSUME NEW m, m.version = 1
  PROVE  CgroupV1Path(KernelOf(m), "cpu") = OwnDirectory(m, <<"cg", "cpu">>)
<1> DEFINE k   == KernelOf(m)
           all == {x \in LinesOf(k.mounts) : x.fs_type = "cgroup" /\ "cpu" \in x.super_options}
           own == [x \in all |->
                     {g \in LinesOf(k.groups) : "cpu" \in g.controllers /\ x.root \in {g.path, TheRoot}}]
           M   == Mount("cgroup", <<"cg", "cpu">>, m.root, {"rw", "cpu", "cpuacct"})
           G   == Group(3, {"cpu", "cpuacct"}, m.path)
<1>1. CgroupV1Path(k, "cpu") = CgroupPath(k, own)
  BY DEF CgroupV1Path
<1>2. DOMAIN MountsOf(m) = 1 .. 4 /\ MountsOf(m)[2] = M /\ k.mounts = MountsOf(m)
  BY KernelLines, LinesOfV1
<1>3. DOMAIN GroupsOf(m) = 1 .. 3 /\ GroupsOf(m)[1] = G /\ k.groups = GroupsOf(m)
  BY KernelLines, LinesOfV1
<1>4. M.fs_type = "cgroup" /\ M.mount_point = <<"cg", "cpu">> /\ M.root = m.root /\ "cpu" \in M.super_options
  BY DEF Mount
<1>5. G.path = m.path /\ "cpu" \in G.controllers
  BY DEF Group
<1>6. MountsOf(m)[1].fs_type = "proc"
  BY LinesOfV1, FieldsAre
<1>7. "cpu" \notin GroupsOf(m)[2].controllers /\ "cpu" \notin GroupsOf(m)[3].controllers
  BY LinesOfV1, FieldsAre
<1> HIDE DEF k, M, G
<1>8. M \in all /\ DOMAIN own = all
  BY <1>2, <1>4 DEF LinesOf
<1>9. \A h \in 1 .. 2 - 1 : MountsOf(m)[h] \notin DOMAIN own
  <2>1. MountsOf(m)[1] \notin all
    BY <1>6
  <2>2. \A h \in 1 .. 2 - 1 : h = 1
    OBVIOUS
  <2> HIDE DEF all
  <2>3. QED
    BY <2>1, <2>2
<1>10. own[M] = {g \in LinesOf(k.groups) : "cpu" \in g.controllers /\ M.root \in {g.path, TheRoot}}
  BY <1>8
<1>11. \A h \in 1 .. 3 : h # 1 => GroupsOf(m)[h] \notin own[M]
  <2>1. \A h \in 1 .. 3 : h = 1 \/ h = 2 \/ h = 3
    OBVIOUS
  <2> HIDE DEF own
  <2>2. QED
    BY <1>7, <1>10, <2>1
<1>12. G \in own[M] <=> Shown(m)
  <2>1. G \in LinesOf(k.groups)
    BY <1>3 DEF LinesOf
  <2> HIDE DEF own
  <2>2. QED
    BY <1>4, <1>5, <1>10, <2>1 DEF Shown
<1> HIDE DEF all, own
<1>13. Walks(m, own, 2, 1)
  BY <1>2, <1>3, <1>4, <1>5, <1>8, <1>9, <1>11, <1>12 DEF Walks
<1>14. CgroupPath(KernelOf(m), own) = OwnDirectory(m, MountsOf(m)[2].mount_point)
  BY <1>13, Walk
<1>15. QED
  BY <1>1, <1>2, <1>4, <1>14 DEF k

LEMMA NoV1Directory ==
  ASSUME NEW m, m.version = 2, NEW controller
  PROVE  CgroupV1Path(KernelOf(m), controller) = Nowhere
<1> DEFINE k   == KernelOf(m)
           all == {x \in LinesOf(k.mounts) : x.fs_type = "cgroup" /\ controller \in x.super_options}
           own == [x \in all |->
                     {g \in LinesOf(k.groups) : controller \in g.controllers /\ x.root \in {g.path, TheRoot}}]
<1>1. CgroupV1Path(k, controller) = CgroupPath(k, own)
  BY DEF CgroupV1Path
<1>2. DOMAIN MountsOf(m) = 1 .. 2 /\ k.mounts = MountsOf(m)
  BY KernelLines, LinesOfV2
<1>3. MountsOf(m)[1].fs_type = "proc" /\ MountsOf(m)[2].fs_type = "cgroup2"
  BY LinesOfV2, FieldsAre
<1>4. \A h \in DOMAIN k.mounts : k.mounts[h] \notin DOMAIN own
  <2>1. \A h \in 1 .. 2 : h = 1 \/ h = 2
    OBVIOUS
  <2> HIDE DEF k
  <2>2. QED
    BY <1>2, <1>3, <2>1
<1> HIDE DEF own
<1>5. FirstSuch(k.mounts, DOMAIN own) = {}
  BY <1>4, NoSuch
<1>6. QED
  BY <1>1, <1>5, PathNotFound

LEMMA V2Directory ==
  ASSUME NEW m, m.version \in {1, 2}, ~Outside(m.root)
  PROVE  CgroupV2Path(KernelOf(m)) =
           OwnDirectory(m, IF m.version = 1 THEN <<"cg", "unified">> ELSE <<"cg">>)
<1> DEFINE k   == KernelOf(m)
           all == {x \in LinesOf(k.mounts) : x.fs_type = "cgroup2"}
           own == [x \in all |->
                     {g \in LinesOf(k.groups) : /\ g.id = 0 /\ g.controllers = {}
                                                /\ x.root \in {TheRoot, g.path} \/ Outside(x.root)}]
           at  == IF m.version = 1 THEN <<"cg", "unified">> ELSE <<"cg">>
           M   == Mount("cgroup2", at, m.root, {"rw"})
           G   == Group(0, {}, m.path)
           a   == IF m.version = 1 THEN 4 ELSE 2
           b   == IF m.version = 1 THEN 3 ELSE 1
<1>1. CgroupV2Path(k) = CgroupPath(k, own)
  BY DEF CgroupV2Path
<1>2. k.mounts = MountsOf(m) /\ k.groups = GroupsOf(m)
  BY KernelLines
<1>3. /\ DOMAIN MountsOf(m) = 1 .. a /\ MountsOf(m)[a] = M /\ a \in Nat \ {0}
      /\ DOMAIN GroupsOf(m) = 1 .. b /\ GroupsOf(m)[b] = G /\ b \in Nat \ {0}
  <2>1. CASE m.version = 1
    BY <2>1, LinesOfV1
  <2>2. CASE m.version # 1
    BY <2>2, LinesOfV2
  <2>3. QED
    BY <2>1, <2>2
<1>4. M.fs_type = "cgroup2" /\ M.mount_point = at /\ M.root = m.root
  BY DEF Mount
<1>5. G.path = m.path /\ G.id = 0 /\ G.controllers = {}
  BY DEF Group
<1>6. \A h \in 1 .. a - 1 : MountsOf(m)[h].fs_type # "cgroup2"
  <2>1. CASE m.version = 1
    <3>1. \A h \in 1 .. a - 1 : h = 1 \/ h = 2 \/ h = 3
      BY <2>1
    <3>2. MountsOf(m)[1].fs_type = "proc" /\ MountsOf(m)[2].fs_type = "cgroup" /\ MountsOf(m)[3].fs_type = "cgroup"
      BY <2>1, LinesOfV1, FieldsAre
    <3>3. QED
      BY <3>1, <3>2
  <2>2. CASE m.version # 1
    <3>1. \A h \in 1 .. a - 1 : h = 1
      BY <2>2
    <3>2. MountsOf(m)[1].fs_type = "proc"
      BY <2>2, LinesOfV2
    <3>3. QED
      BY <3>1, <3>2
  <2>3. QED
    BY <2>1, <2>2
<1>7. \A h \in 1 .. b : h # b => GroupsOf(m)[h].id # 0
  <2>1. CASE m.version = 1
    <3>1. \A h \in 1 .. b : h # b => h = 1 \/ h = 2
      BY <2>1
    <3>2. GroupsOf(m)[1].id = 3 /\ GroupsOf(m)[2].id = 2
      BY <2>1, LinesOfV1, FieldsAre
    <3>3. QED
      BY <3>1, <3>2
  <2>2. CASE m.version # 1
    BY <2>2
  <2>3. QED
    BY <2>1, <2>2
<1> HIDE DEF k, M, G, at, a, b
<1>8. M \in all /\ DOMAIN own = all
  BY <1>2, <1>3, <1>4 DEF LinesOf
<1>9. \A h \in 1 .. a - 1 : MountsOf(m)[h] \notin DOMAIN own
  BY <1>6
<1>10. own[M] = {g \in LinesOf(k.groups) : /\ g.id = 0 /\ g.controllers = {}
                                           /\ M.root \in {TheRoot, g.path} \/ Outside(M.root)}
  BY <1>8
<1>11. \A h \in 1 .. b : h # b => GroupsOf(m)[h] \notin own[M]
  <2> HIDE DEF own
  <2>1. QED
    BY <1>7, <1>10
<1>12. G \in own[M] <=> Shown(m)
  <2>1. G \in LinesOf(k.groups)
    BY <1>2, <1>3 DEF LinesOf
  <2> HIDE DEF own
  <2>2. QED
    BY <1>4, <1>5, <1>10, <2>1 DEF Shown
<1> HIDE DEF all, own
<1>13. a \in 1 .. a /\ b \in 1 .. b /\ a \in Nat /\ b \in Nat
  BY <1>3
<1>14. Walks(m, own, a, b)
  BY <1>2, <1>3, <1>4, <1>5, <1>8, <1>9, <1>11, <1>12, <1>13 DEF Walks
<1>15. CgroupPath(KernelOf(m), own) = OwnDirectory(m, MountsOf(m)[a].mount_point)
  BY <1>14, Walk
<1>16. QED
  BY <1>1, <1>3, <1>4, <1>15 DEF k, at

LEMMA TreeHas ==
  ASSUME NEW m, Shown(m), NEW at, NEW has, NEW k,
         Tree(m, at, has) \subseteq k.files,
         \A f \in k.files : f.mount = at => f \in Tree(m, at, has)
  PROVE  FilesOf(k, OwnDirectory(m, at)) = has
<1> DEFINE p     == IF m.root = TheRoot THEN m.path ELSE <<>>
           own   == IF m.root = TheRoot THEN {m.path} ELSE IF m.root = m.path THEN {<<>>} ELSE {}
           low   == [NoFiles EXCEPT !.cpus = << <<0>> >>, !.quota = 1, !.period = 1]
           dir   == OwnDirectory(m, at)
           there == {f \in k.files : dir.found /\ f.mount = dir.mount /\ f.path = dir.path}
<1>1. own = {p}
  BY DEF Shown
<1>2. dir.found /\ dir.mount = at /\ dir.path = p
  BY DEF OwnDirectory
<1>3. Tree(m, at, has) = {File(at, q, has) : q \in own} \cup {File(at, q, low) : q \in Paths \ own}
  BY DEF Tree
<1>4. FilesOf(k, dir) = IF there = {} THEN NoFiles ELSE (CHOOSE f \in there : TRUE).has
  BY DEF FilesOf
<1>5. \A q, h : File(at, q, h).mount = at /\ File(at, q, h).path = q /\ File(at, q, h).has = h
  BY DEF File
<1> HIDE DEF own, p, low, dir
<1>6. File(at, p, has) \in k.files
  BY <1>1, <1>3
<1>7. ASSUME NEW f \in k.files, f.mount = at, f.path = p PROVE f = File(at, p, has)
  <2>1. f \in Tree(m, at, has)
    BY <1>7
  <2>2. CASE f \in {File(at, q, has) : q \in own}
    BY <1>1, <2>2
  <2>3. CASE f \in {File(at, q, low) : q \in Paths \ own}
    BY <1>1, <1>5, <1>7, <2>3
  <2>4. QED
    BY <1>3, <2>1, <2>2, <2>3
<1>8. there = {File(at, p, has)}
  BY <1>2, <1>5, <1>6, <1>7
<1> HIDE DEF there
<1>9. QED
  BY <1>4, <1>5, <1>8 DEF dir

LEMMA TreeHasNot ==
  ASSUME NEW k, NEW dir, ~dir.found \/ \A f \in k.files : f.mount # dir.mount
  PROVE  FilesOf(k, dir) = NoFiles
BY DEF FilesOf

CpuSetFiles(m) == [NoFiles EXCEPT !.cpus = m.cpuset]
CpuFiles(m)    == [NoFiles EXCEPT !.quota = m.quota, !.period = m.period, !.shares = m.shares]
AllFiles(m)    == [CpuSetFiles(m) EXCEPT !.quota = m.quota, !.period = m.period]

LEMMA KernelFiles ==
  ASSUME NEW m
  PROVE  /\ m.version = 1 =>
              KernelOf(m).files = Tree(m, <<"cg", "cpu">>, CpuFiles(m)) \cup Tree(m, <<"cg", "cpuset">>, CpuSetFiles(m))
         /\ m.version # 1 => KernelOf(m).files = Tree(m, <<"cg">>, AllFiles(m))
BY DEF KernelOf, CpuFiles, CpuSetFiles, AllFiles

LEMMA TreeMounts ==
  ASSUME NEW m, NEW at, NEW has
  PROVE  \A f \in Tree(m, at, has) : f.mount = at
BY DEF Tree, File

LEMMA FilesOfV1 ==
  ASSUME NEW m, m.version = 1, ~Outside(m.root), Shown(m)
  PROVE  /\ FilesOf(KernelOf(m), CgroupV1Path(KernelOf(m), "cpuset")) = CpuSetFiles(m)
         /\ FilesOf(KernelOf(m), CgroupV1Path(KernelOf(m), "cpu")) = CpuFiles(m)
         /\ FilesOf(KernelOf(m), CgroupV2Path(KernelOf(m))) = NoFiles
<1> DEFINE k == KernelOf(m)
           a == <<"cg", "cpu">>
           b == <<"cg", "cpuset">>
           c == <<"cg", "unified">>
<1>1. k.files = Tree(m, a, CpuFiles(m)) \cup Tree(m, b, CpuSetFiles(m))
  BY KernelFiles
<1>2. a # b /\ a # c /\ b # c
  <2>1. a[2] = "cpu" /\ b[2] = "cpuset" /\ c[2] = "unified"
    OBVIOUS
  <2>2. QED
    BY <2>1
<1>3. /\ CgroupV1Path(k, "cpuset") = OwnDirectory(m, b) /\ CgroupV1Path(k, "cpu") = OwnDirectory(m, a)
      /\ CgroupV2Path(k) = OwnDirectory(m, c)
  BY CpuSetDirectory, CpuDirectory, V2Directory
<1> HIDE DEF a, b, c, k
<1>4. \A f \in Tree(m, a, CpuFiles(m)) : f.mount = a
  BY TreeMounts
<1>5. \A f \in Tree(m, b, CpuSetFiles(m)) : f.mount = b
  BY TreeMounts
<1>6. FilesOf(k, OwnDirectory(m, a)) = CpuFiles(m)
  <2>1. Tree(m, a, CpuFiles(m)) \subseteq k.files
    BY <1>1
  <2>2. \A f \in k.files : f.mount = a => f \in Tree(m, a, CpuFiles(m))
    BY <1>1, <1>2, <1>5
  <2>3. QED
    BY <2>1, <2>2, TreeHas
<1>7. FilesOf(k, OwnDirectory(m, b)) = CpuSetFiles(m)
  <2>1. Tree(m, b, CpuSetFiles(m)) \subseteq k.files
    BY <1>1
  <2>2. \A f \in k.files : f.mount = b => f \in Tree(m, b, CpuSetFiles(m))
    BY <1>1, <1>2, <1>4
  <2>3. QED
    BY <2>1, <2>2, TreeHas
<1>8. FilesOf(k, OwnDirectory(m, c)) = NoFiles
  <2>1. \A f \in k.files : f.mount # c
    BY <1>1, <1>2, <1>4, <1>5
  <2>2. OwnDirectory(m, c).mount = c
    BY DEF OwnDirectory
  <2>3. QED
    BY <2>1, <2>2, TreeHasNot
<1>9. QED
  BY <1>3, <1>6, <1>7, <1>8 DEF k

LEMMA FilesOfV2 ==
  ASSUME NEW m, m.version = 2, ~Outside(m.root), Shown(m)
  PROVE  /\ FilesOf(KernelOf(m), CgroupV1Path(KernelOf(m), "cpuset")) = NoFiles
         /\ FilesOf(KernelOf(m), CgroupV1Path(KernelOf(m), "cpu")) = NoFiles
         /\ FilesOf(KernelOf(m), CgroupV2Path(KernelOf(m))) = AllFiles(m)
<1>1. ~Nowhere.found
  BY DEF Nowhere
<1>2. FilesOf(KernelOf(m), Nowhere) = NoFiles
  BY <1>1, TreeHasNot
<1>3. CgroupV2Path(KernelOf(m)) = OwnDirectory(m, <<"cg">>)
  BY V2Directory
<1>4. KernelOf(m).files = Tree(m, <<"cg">>, AllFiles(m))
  BY KernelFiles
<1>5. FilesOf(KernelOf(m), OwnDirectory(m, <<"cg">>)) = AllFiles(m)
  BY <1>4, TreeHas
<1>6. QED
  BY <1>2, <1>3, <1>5, NoV1Directory

LEMMA FilesOfNone ==
  ASSUME NEW m, m.version \in {1, 2}, ~Outside(m.root), ~Shown(m)
  PROVE  /\ FilesOf(KernelOf(m), CgroupV1Path(KernelOf(m), "cpuset")) = NoFiles
         /\ FilesOf(KernelOf(m), CgroupV1Path(KernelOf(m), "cpu")) = NoFiles
         /\ FilesOf(KernelOf(m), CgroupV2Path(KernelOf(m))) = NoFiles
<1>1. ~Nowhere.found
  BY DEF Nowhere
<1>2. FilesOf(KernelOf(m), Nowhere) = NoFiles
  BY <1>1, TreeHasNot
<1>3. \A at : OwnDirectory(m, at) = Nowhere
  BY DEF OwnDirectory
<1>4. CgroupV2Path(KernelOf(m)) = Nowhere
  BY <1>3, V2Directory
<1>5. CASE m.version = 1
  BY <1>2, <1>3, <1>4, <1>5, CpuSetDirectory, CpuDirectory
<1>6. CASE m.version = 2
  BY <1>2, <1>4, <1>6, NoV1Directory
<1>7. QED
  BY <1>5, <1>6

-----------------------------------------------------------------------------
(* From the limits to what a machine allows. *)

\* A limit is the least of some numbers: 0 if there are none, and no more
\* than CpuMax.
Limits(x, S) ==
  /\ x \in 0 .. CpuMax /\ (x = 0 <=> S = {})
  /\ x # 0 => x \in S \cup {CpuMax} /\ \A n \in S : x <= n

LEMMA LimitsAre ==
  ASSUME NEW limits \in Seq(0 .. CpuMax), NEW S \in SUBSET Nat,
         \A i \in 1 .. Len(limits) : limits[i] # 0 => limits[i] \in S \cup {CpuMax} /\ S # {},
         \A n \in S : \E i \in 1 .. Len(limits) : limits[i] # 0 /\ limits[i] <= n
  PROVE  Limits(Least(limits), S)
<1> DEFINE x == Least(limits)
           N == Len(limits)
<1>0. CpuMax \in Nat \ {0}
  BY CpuAssumption
<1>1. limits \in Seq(Nat) /\ N \in Nat /\ \A i \in 1 .. N : limits[i] \in 0 .. CpuMax
  BY <1>0
<1>2. IsLeast(limits, N, x)
  BY <1>1, LeastIsLeast
<1> HIDE DEF x, N
<1>3. CASE x = 0
  <2>1. \A i \in 1 .. N : limits[i] = 0
    BY <1>2, <1>3 DEF IsLeast
  <2>2. S = {}
    BY <2>1 DEF N
  <2>3. QED
    BY <1>0, <1>3, <2>2 DEF Limits, x
<1>4. CASE x # 0
  <2>1. PICK i \in 1 .. N : limits[i] = x
    BY <1>2, <1>4 DEF IsLeast
  <2>2. \A j \in 1 .. N : limits[j] = 0 \/ x <= limits[j]
    BY <1>2, <1>4 DEF IsLeast
  <2>3. x \in 0 .. CpuMax /\ x \in S \cup {CpuMax} /\ S # {}
    BY <1>1, <1>4, <2>1 DEF N
  <2>4. ASSUME NEW n \in S PROVE x <= n
    <3>1. PICK j \in 1 .. N : limits[j] # 0 /\ limits[j] <= n
      BY DEF N
    <3>2. x <= limits[j] /\ limits[j] \in Nat /\ n \in Nat /\ x \in Nat
      BY <1>0, <1>1, <2>2, <2>3, <3>1
    <3>3. QED
      BY <3>1, <3>2
  <2>5. QED
    BY <1>4, <2>3, <2>4 DEF Limits, x
<1>5. QED
  BY <1>3, <1>4

LEMMA ClampIs ==
  ASSUME NEW n \in Nat
  PROVE  /\ ClampCpuCount(n) \in 0 .. CpuMax /\ (ClampCpuCount(n) = 0 <=> n = 0)
         /\ ClampCpuCount(n) <= n /\ ClampCpuCount(n) \in {n, CpuMax}
         /\ n <= CpuMax => ClampCpuCount(n) = n
BY CpuAssumption DEF ClampCpuCount, Smaller

LEMMA OneOf ==
  ASSUME NEW n \in Nat \ {0}
  PROVE  Limits(ClampCpuCount(n), {n})
<1>1. ClampCpuCount(n) # 0 /\ ClampCpuCount(n) <= n
  BY ClampIs
<1>2. QED
  BY <1>1, ClampIs DEF Limits

LEMMA NoneOf == Limits(0, {})
BY CpuAssumption DEF Limits

LEMMA ListLimit ==
  ASSUME NEW files, files.cpus \in Lists
  PROVE  Limits(CpuSetLimit(files), IF files.cpus # <<>> THEN {Cardinality(CpusOf(files.cpus))} ELSE {})
<1> DEFINE list == files.cpus
           n    == Cardinality(CpusOf(list))
<1>1. CpuSetLimit(files) = ClampCpuCount(n)
  BY ListCounts DEF CpuSetLimit
<1>2. n \in Nat /\ (n = 0 <=> list = <<>>)
  BY ListCounts, CountIsNat
<1> HIDE DEF list, n
<1>3. CASE list = <<>>
  <2>1. ClampCpuCount(n) = 0
    BY <1>2, <1>3, ClampIs
  <2>2. QED
    BY <1>1, <1>3, <2>1, NoneOf DEF list
<1>4. CASE list # <<>>
  <2>1. Limits(ClampCpuCount(n), {n})
    BY <1>2, <1>4, OneOf
  <2>2. QED
    BY <1>1, <1>4, <2>1 DEF list, n
<1>5. QED
  BY <1>3, <1>4

LEMMA QuotaIs ==
  ASSUME NEW files, files.quota \in Int, files.period \in Nat \ {0}
  PROVE  Limits(QuotaLimit(files), IF files.quota > 0 THEN {Needed(files.quota, files.period)} ELSE {})
<1> DEFINE q == files.quota
           p == files.period
<1>1. QuotaLimit(files) = ClampCpuCount(IF q > 0 /\ p > 0 THEN Larger(1, CeilDiv(q, p)) ELSE 0)
  BY DEF QuotaLimit
<1> HIDE DEF q, p
<1>2. CASE q > 0
  <2>1. q \in Nat \ {0} /\ p \in Nat \ {0} /\ p > 0
    BY <1>2 DEF q, p
  <2>2. Needed(q, p) \in Nat \ {0} /\ Larger(1, CeilDiv(q, p)) = Needed(q, p)
    BY <2>1, NeededIs
  <2>3. QED
    BY <1>1, <1>2, <2>1, <2>2, OneOf DEF q, p
<1>3. CASE ~(q > 0)
  <2>1. QuotaLimit(files) = 0
    BY <1>1, <1>3 DEF ClampCpuCount
  <2>2. QED
    BY <1>3, <2>1, NoneOf DEF q
<1>4. QED
  BY <1>2, <1>3

LEMMA SharesAre ==
  ASSUME NEW files, files.shares \in {0} \cup {s \in Nat : s > SharesUnit}
  PROVE  Limits(SharesLimit(files), IF files.shares > 0 THEN {Needed(files.shares, SharesUnit)} ELSE {})
<1> DEFINE s == files.shares
<1>0. SharesUnit \in Nat \ {0}
  BY SharesAssumption
<1>1. SharesLimit(files) = ClampCpuCount(IF s > SharesUnit THEN Larger(1, CeilDiv(s, SharesUnit)) ELSE s)
  BY DEF SharesLimit
<1> HIDE DEF s
<1>2. CASE s > SharesUnit
  <2>1. s \in Nat \ {0} /\ s > 0
    BY <1>0, <1>2 DEF s
  <2>2. Needed(s, SharesUnit) \in Nat \ {0} /\ Larger(1, CeilDiv(s, SharesUnit)) = Needed(s, SharesUnit)
    BY <1>0, <2>1, NeededIs
  <2>3. QED
    BY <1>1, <1>2, <2>1, <2>2, OneOf DEF s
<1>3. CASE s = 0
  <2>1. SharesLimit(files) = 0
    BY <1>0, <1>1, <1>3 DEF ClampCpuCount
  <2>2. QED
    BY <1>3, <2>1, NoneOf DEF s
<1>4. QED
  BY <1>2, <1>3 DEF s

LEMMA LimitsOfAll ==
  ASSUME NEW limits \in Seq(0 .. CpuMax), NEW sets \in Seq(SUBSET Nat), NEW n \in Nat,
         Len(limits) = n, Len(sets) = n,
         \A i \in 1 .. n : Limits(limits[i], sets[i])
  PROVE  Limits(Least(limits), UNION {sets[i] : i \in 1 .. n})
<1> DEFINE S == UNION {sets[i] : i \in 1 .. n}
<1>2. S \in SUBSET Nat
  <2>1. \A i \in 1 .. n : sets[i] \in SUBSET Nat
    OBVIOUS
  <2>2. QED
    BY <2>1
<1>3. ASSUME NEW i \in 1 .. n, limits[i] # 0 PROVE limits[i] \in S \cup {CpuMax} /\ S # {}
  <2>1. limits[i] \in sets[i] \cup {CpuMax} /\ sets[i] # {} /\ sets[i] \subseteq S
    BY <1>3 DEF Limits
  <2>2. QED
    BY <2>1
<1>4. ASSUME NEW s \in S PROVE \E i \in 1 .. n : limits[i] # 0 /\ limits[i] <= s
  <2>1. PICK i \in 1 .. n : s \in sets[i]
    OBVIOUS
  <2>2. limits[i] # 0 /\ limits[i] <= s
    BY <2>1 DEF Limits
  <2>3. QED
    BY <2>2
<1> HIDE DEF S
<1>5. Limits(Least(limits), S)
  BY <1>2, <1>3, <1>4, LimitsAre
<1>6. QED
  BY <1>5 DEF S

LEMMA LimitsOfThree ==
  ASSUME NEW a, NEW b, NEW c, NEW A \in SUBSET Nat, NEW B \in SUBSET Nat, NEW C \in SUBSET Nat,
         Limits(a, A), Limits(b, B), Limits(c, C)
  PROVE  Limits(Least(<<a, b, c>>), A \cup B \cup C)
<1> DEFINE limits == <<a, b, c>>
           sets   == <<A, B, C>>
<1>1. a \in 0 .. CpuMax /\ b \in 0 .. CpuMax /\ c \in 0 .. CpuMax
  BY DEF Limits
<1>2. limits \in Seq(0 .. CpuMax) /\ Len(limits) = 3 /\ sets \in Seq(SUBSET Nat) /\ Len(sets) = 3
  BY <1>1
<1>3. /\ limits[1] = a /\ limits[2] = b /\ limits[3] = c
      /\ sets[1] = A /\ sets[2] = B /\ sets[3] = C
  OBVIOUS
<1>4. \A i \in 1 .. 3 : i = 1 \/ i = 2 \/ i = 3
  OBVIOUS
<1> HIDE DEF limits, sets
<1>5. \A i \in 1 .. 3 : Limits(limits[i], sets[i])
  BY <1>3, <1>4
<1>6. UNION {sets[i] : i \in 1 .. 3} = A \cup B \cup C
  <2>1. ASSUME NEW x \in UNION {sets[i] : i \in 1 .. 3} PROVE x \in A \cup B \cup C
    <3>1. PICK i \in 1 .. 3 : x \in sets[i]
      OBVIOUS
    <3>2. QED
      BY <1>3, <1>4, <3>1
  <2>2. ASSUME NEW x \in A \cup B \cup C PROVE \E i \in 1 .. 3 : x \in sets[i]
    <3>1. 1 \in 1 .. 3 /\ 2 \in 1 .. 3 /\ 3 \in 1 .. 3
      OBVIOUS
    <3>2. QED
      BY <1>3, <3>1
  <2>3. QED
    BY <2>1, <2>2
<1>7. Limits(Least(limits), UNION {sets[i] : i \in 1 .. 3})
  BY <1>2, <1>5, LimitsOfAll
<1>8. QED
  BY <1>6, <1>7 DEF limits

LEMMA LimitsOfFive ==
  ASSUME NEW a, NEW b, NEW c, NEW d, NEW e,
         NEW A \in SUBSET Nat, NEW B \in SUBSET Nat, NEW C \in SUBSET Nat, NEW D \in SUBSET Nat, NEW E \in SUBSET Nat,
         Limits(a, A), Limits(b, B), Limits(c, C), Limits(d, D), Limits(e, E)
  PROVE  Limits(Least(<<a, b, c, d, e>>), A \cup B \cup C \cup D \cup E)
<1> DEFINE limits == <<a, b, c, d, e>>
           sets   == <<A, B, C, D, E>>
<1>1. a \in 0 .. CpuMax /\ b \in 0 .. CpuMax /\ c \in 0 .. CpuMax /\ d \in 0 .. CpuMax /\ e \in 0 .. CpuMax
  BY DEF Limits
<1>2. limits \in Seq(0 .. CpuMax) /\ Len(limits) = 5 /\ sets \in Seq(SUBSET Nat) /\ Len(sets) = 5
  BY <1>1
<1>3. /\ limits[1] = a /\ limits[2] = b /\ limits[3] = c /\ limits[4] = d /\ limits[5] = e
      /\ sets[1] = A /\ sets[2] = B /\ sets[3] = C /\ sets[4] = D /\ sets[5] = E
  OBVIOUS
<1>4. \A i \in 1 .. 5 : i = 1 \/ i = 2 \/ i = 3 \/ i = 4 \/ i = 5
  OBVIOUS
<1> HIDE DEF limits, sets
<1>5. \A i \in 1 .. 5 : Limits(limits[i], sets[i])
  BY <1>3, <1>4
<1>6. UNION {sets[i] : i \in 1 .. 5} = A \cup B \cup C \cup D \cup E
  <2>1. ASSUME NEW x \in UNION {sets[i] : i \in 1 .. 5} PROVE x \in A \cup B \cup C \cup D \cup E
    <3>1. PICK i \in 1 .. 5 : x \in sets[i]
      OBVIOUS
    <3>2. QED
      BY <1>3, <1>4, <3>1
  <2>2. ASSUME NEW x \in A \cup B \cup C \cup D \cup E PROVE \E i \in 1 .. 5 : x \in sets[i]
    <3>1. 1 \in 1 .. 5 /\ 2 \in 1 .. 5 /\ 3 \in 1 .. 5 /\ 4 \in 1 .. 5 /\ 5 \in 1 .. 5
      OBVIOUS
    <3>2. QED
      BY <1>3, <3>1
  <2>3. QED
    BY <2>1, <2>2
<1>7. Limits(Least(limits), UNION {sets[i] : i \in 1 .. 5})
  BY <1>2, <1>5, LimitsOfAll
<1>8. QED
  BY <1>6, <1>7 DEF limits

\* The directories allow what the machine gives the group.
ListNumbers(list)  == IF list # <<>> THEN {Cardinality(CpusOf(list))} ELSE {}
QuotaNumbers(q, p) == IF q > 0 THEN {Needed(q, p)} ELSE {}

OwnNumbers(m) ==
  IF ~Shown(m) THEN {}
  ELSE ListNumbers(m.cpuset) \cup QuotaNumbers(m.quota, m.period) \cup
       (IF m.version = 1 /\ m.shares > 0 THEN {Needed(m.shares, SharesUnit)} ELSE {})

LEMMA NoFilesLimits ==
  /\ Limits(CpuSetLimit(NoFiles), {}) /\ Limits(QuotaLimit(NoFiles), {}) /\ Limits(SharesLimit(NoFiles), {})
<1>1. NoFiles.cpus = <<>> /\ NoFiles.quota = 0 /\ NoFiles.period = 0 /\ NoFiles.shares = 0
  BY DEF NoFiles
<1>2. <<>> \in Lists
  <2>1. DOMAIN <<>> = {} /\ <<>> \in Seq(Seq(CPUs))
    OBVIOUS
  <2>2. QED
    BY <2>1 DEF Lists, Ordered
<1>3. Limits(CpuSetLimit(NoFiles), {})
  BY <1>1, <1>2, ListLimit
<1>4. QuotaLimit(NoFiles) = 0
  BY <1>1 DEF QuotaLimit, ClampCpuCount
<1>5. SharesLimit(NoFiles) = 0
  BY <1>1, SharesAssumption DEF SharesLimit, ClampCpuCount
<1>6. QED
  BY <1>3, <1>4, <1>5, NoneOf

LEMMA NumbersAreNat ==
  /\ \A list \in Lists : ListNumbers(list) \in SUBSET Nat
  /\ \A q \in Int, p \in Nat \ {0} : QuotaNumbers(q, p) \in SUBSET Nat
<1>1. ASSUME NEW list \in Lists PROVE ListNumbers(list) \in SUBSET Nat
  <2>1. Cardinality(CpusOf(list)) \in Nat
    BY ListCounts, CountIsNat
  <2>2. QED
    BY <2>1 DEF ListNumbers
<1>2. ASSUME NEW q \in Int, NEW p \in Nat \ {0} PROVE QuotaNumbers(q, p) \in SUBSET Nat
  <2>1. q > 0 => Needed(q, p) \in Nat
    BY NeededIs
  <2>2. QED
    BY <2>1 DEF QuotaNumbers
<1>3. QED
  BY <1>1, <1>2

LEMMA MachineIs ==
  ASSUME NEW m \in Machines
  PROVE  /\ m.online \in Lists \ {<<>>} /\ m.possible \in Lists \ {<<>>} /\ m.present \in Lists \ {<<>>}
         /\ m.cpuset \in Lists /\ m.affinity \in (SUBSET CPUs) \ {{}}
         /\ m.quota \in Int /\ m.period \in Nat \ {0} /\ m.version \in {1, 2} /\ m.env \in Env
         /\ m.shares \in {0} \cup {s \in Nat : s > SharesUnit} /\ ~Outside(m.root)
         /\ Words * Bits <= CpuMax
BY MachinesAssumption

LEMMA CgroupsLimits ==
  ASSUME NEW m \in Machines
  PROVE  Limits(CgroupsLimit(KernelOf(m)), OwnNumbers(m))
<1> DEFINE k      == KernelOf(m)
           cpuset == FilesOf(k, CgroupV1Path(k, "cpuset"))
           cpu    == FilesOf(k, CgroupV1Path(k, "cpu"))
           v2     == FilesOf(k, CgroupV2Path(k))
           list   == ListNumbers(m.cpuset)
           quota  == QuotaNumbers(m.quota, m.period)
           shares == QuotaNumbers(m.shares, SharesUnit)
<1>1. CgroupsLimit(k) = Least(<<CpuSetLimit(cpuset), QuotaLimit(cpu), SharesLimit(cpu), CpuSetLimit(v2), QuotaLimit(v2)>>)
  BY DEF CgroupsLimit
<1>2. list \in SUBSET Nat /\ quota \in SUBSET Nat /\ shares \in SUBSET Nat
  <2>1. m.shares \in Int /\ SharesUnit \in Nat \ {0}
    BY MachineIs, SharesAssumption
  <2>2. QED
    BY <2>1, MachineIs, NumbersAreNat
<1>3. m.version \in {1, 2} /\ ~Outside(m.root)
  BY MachineIs
<1>4. /\ CpuSetFiles(m).cpus = m.cpuset /\ AllFiles(m).cpus = m.cpuset
      /\ CpuFiles(m).quota = m.quota /\ CpuFiles(m).period = m.period /\ CpuFiles(m).shares = m.shares
      /\ AllFiles(m).quota = m.quota /\ AllFiles(m).period = m.period
  BY DEF CpuSetFiles, CpuFiles, AllFiles, NoFiles
<1>5. /\ Limits(CpuSetLimit(CpuSetFiles(m)), list) /\ Limits(CpuSetLimit(AllFiles(m)), list)
      /\ Limits(QuotaLimit(CpuFiles(m)), quota) /\ Limits(QuotaLimit(AllFiles(m)), quota)
      /\ Limits(SharesLimit(CpuFiles(m)), shares)
  <2>1. Limits(CpuSetLimit(CpuSetFiles(m)), list) /\ Limits(CpuSetLimit(AllFiles(m)), list)
    BY <1>4, MachineIs, ListLimit DEF ListNumbers
  <2>2. Limits(QuotaLimit(CpuFiles(m)), quota) /\ Limits(QuotaLimit(AllFiles(m)), quota)
    BY <1>4, MachineIs, QuotaIs DEF QuotaNumbers
  <2>3. Limits(SharesLimit(CpuFiles(m)), shares)
    BY <1>4, MachineIs, SharesAre DEF QuotaNumbers
  <2>4. QED
    BY <2>1, <2>2, <2>3
<1> HIDE DEF k, cpuset, cpu, v2, list, quota, shares
<1>6. CASE ~Shown(m)
  <2>1. cpuset = NoFiles /\ cpu = NoFiles /\ v2 = NoFiles
    BY <1>3, <1>6, FilesOfNone DEF k, cpuset, cpu, v2
  <2>2. Limits(CgroupsLimit(k), {} \cup {} \cup {} \cup {} \cup {})
    BY <1>1, <2>1, NoFilesLimits, LimitsOfFive
  <2>3. OwnNumbers(m) = {}
    BY <1>6 DEF OwnNumbers
  <2>4. QED
    BY <2>2, <2>3 DEF k
<1>7. CASE Shown(m) /\ m.version = 1
  <2>1. cpuset = CpuSetFiles(m) /\ cpu = CpuFiles(m) /\ v2 = NoFiles
    BY <1>3, <1>7, FilesOfV1 DEF k, cpuset, cpu, v2
  <2>2. Limits(CgroupsLimit(k), list \cup quota \cup shares \cup {} \cup {})
    BY <1>1, <1>2, <1>5, <2>1, NoFilesLimits, LimitsOfFive
  <2>3. OwnNumbers(m) = list \cup quota \cup shares \cup {} \cup {}
    BY <1>7 DEF OwnNumbers, list, quota, shares, QuotaNumbers
  <2>4. QED
    BY <2>2, <2>3 DEF k
<1>8. CASE Shown(m) /\ m.version = 2
  <2>1. cpuset = NoFiles /\ cpu = NoFiles /\ v2 = AllFiles(m)
    BY <1>3, <1>8, FilesOfV2 DEF k, cpuset, cpu, v2
  <2>2. Limits(CgroupsLimit(k), {} \cup {} \cup {} \cup list \cup quota)
    BY <1>1, <1>2, <1>5, <2>1, NoFilesLimits, LimitsOfFive
  <2>3. OwnNumbers(m) = {} \cup {} \cup {} \cup list \cup quota
    BY <1>8 DEF OwnNumbers, list, quota
  <2>4. QED
    BY <2>2, <2>3 DEF k
<1>9. QED
  BY <1>3, <1>6, <1>7, <1>8

LEMMA CountsAreAtMost ==
  ASSUME NEW s \in SUBSET CPUs, Words * Bits <= CpuMax
  PROVE  Cardinality(s) \in 0 .. CpuMax
<1>1. Words * Bits \in Nat /\ Words * Bits - 1 \in Int
  BY MaskAssumption
<1>2. IsFiniteSet(CPUs) /\ Cardinality(CPUs) = Words * Bits
  <2> DEFINE n == Words * Bits
  <2> HIDE DEF n
  <2>1. n \in Nat
    BY <1>1 DEF n
  <2>2. IsFiniteSet(0 .. n - 1) /\ Cardinality(0 .. n - 1) = IF 0 > n - 1 THEN 0 ELSE (n - 1) - 0 + 1
    BY <2>1, FS_Interval
  <2>3. Cardinality(0 .. n - 1) = n
    BY <2>1, <2>2
  <2>4. QED
    BY <2>2, <2>3 DEF CPUs, n
<1>3. Cardinality(s) <= Cardinality(CPUs)
  BY <1>2, FS_Subset
<1>4. QED
  BY <1>1, <1>2, <1>3, CountIsNat, CpuAssumption

LEMMA AllowsAre ==
  ASSUME NEW m \in Machines
  PROVE  /\ Allows(m) = ListNumbers(m.online) \cup ListNumbers(m.possible) \cup ListNumbers(m.present)
                         \cup OwnNumbers(m) \cup {Cardinality(m.affinity)}
         /\ OwnNumbers(m) \in SUBSET Nat /\ Cardinality(m.affinity) \in 1 .. CpuMax
<1>1. /\ ListNumbers(m.online) = {Cardinality(CpusOf(m.online))}
      /\ ListNumbers(m.possible) = {Cardinality(CpusOf(m.possible))}
      /\ ListNumbers(m.present) = {Cardinality(CpusOf(m.present))}
  BY MachineIs DEF ListNumbers
<1>2. Cardinality(m.affinity) \in 1 .. CpuMax
  <2>1. m.affinity \in SUBSET CPUs /\ m.affinity # {} /\ Words * Bits <= CpuMax
    BY MachineIs
  <2>2. Cardinality(m.affinity) \in 0 .. CpuMax /\ Cardinality(m.affinity) # 0
    BY <2>1, CountsAreAtMost, CountIsNat
  <2>3. QED
    BY <2>2, CpuAssumption
<1>3. OwnNumbers(m) \in SUBSET Nat
  <2>1. ListNumbers(m.cpuset) \in SUBSET Nat /\ QuotaNumbers(m.quota, m.period) \in SUBSET Nat
    BY MachineIs, NumbersAreNat
  <2>2. m.shares > 0 => Needed(m.shares, SharesUnit) \in Nat
    BY MachineIs, SharesAssumption, NeededIs
  <2>3. QED
    BY <2>1, <2>2 DEF OwnNumbers
<1>4. OwnNumbers(m) = IF m.root \notin {TheRoot, m.path} THEN {}
                      ELSE (IF m.cpuset # <<>> THEN {Cardinality(CpusOf(m.cpuset))} ELSE {}) \cup
                           (IF m.quota > 0 THEN {Needed(m.quota, m.period)} ELSE {}) \cup
                           (IF m.version = 1 /\ m.shares > 0 THEN {Needed(m.shares, SharesUnit)} ELSE {})
  BY Zenon DEF OwnNumbers, Shown, ListNumbers, QuotaNumbers
<1>5. Allows(m) = {Cardinality(c) : c \in {CpusOf(m.online), CpusOf(m.possible), CpusOf(m.present), m.affinity}}
                  \cup OwnNumbers(m)
  BY <1>4 DEF Allows
<1>6. {Cardinality(c) : c \in {CpusOf(m.online), CpusOf(m.possible), CpusOf(m.present), m.affinity}} =
        {Cardinality(CpusOf(m.online)), Cardinality(CpusOf(m.possible)),
         Cardinality(CpusOf(m.present)), Cardinality(m.affinity)}
  OBVIOUS
<1>7. QED
  BY <1>1, <1>2, <1>3, <1>5, <1>6

LEMMA LimitIsLeast ==
  ASSUME NEW m \in Machines
  PROVE  /\ Limit(KernelOf(m)) \in 1 .. CpuMax /\ Limit(KernelOf(m)) \in Allows(m)
         /\ \A n \in Allows(m) : n \in Nat /\ Limit(KernelOf(m)) <= n
<1> DEFINE k == KernelOf(m)
           a == ListNumbers(m.online)
           b == ListNumbers(m.possible)
           c == ListNumbers(m.present)
           o == OwnNumbers(m)
           n == Cardinality(m.affinity)
           x == Limit(k)
<1>1. /\ a \in SUBSET Nat /\ b \in SUBSET Nat /\ c \in SUBSET Nat
      /\ o \in SUBSET Nat /\ n \in 1 .. CpuMax /\ n \in Nat \ {0}
      /\ Allows(m) = a \cup b \cup c \cup o \cup {n}
  BY MachineIs, NumbersAreNat, AllowsAre
<1>2. Limits(SysfsLimit(k), a \cup b \cup c)
  <2> DEFINE l(list) == ClampCpuCount(CpuListCount(list))
  <2>1. \A list \in Lists : Limits(l(list), ListNumbers(list))
    <3>1. SUFFICES ASSUME NEW list \in Lists PROVE Limits(l(list), ListNumbers(list))
      OBVIOUS
    <3> DEFINE files == [NoFiles EXCEPT !.cpus = list]
    <3>2. files.cpus = list
      BY DEF NoFiles
    <3>3. Limits(CpuSetLimit(files), ListNumbers(list))
      BY <3>2, ListLimit DEF ListNumbers
    <3>4. QED
      BY <3>2, <3>3 DEF CpuSetLimit
  <2>2. SysfsLimit(k) = Least(<<l(m.online), l(m.possible), l(m.present)>>)
    <3>1. k.lists = <<m.online, m.possible, m.present>>
      BY DEF KernelOf
    <3>2. [i \in DOMAIN k.lists |-> l(k.lists[i])] = <<l(m.online), l(m.possible), l(m.present)>>
      <4> HIDE DEF k, l
      <4>1. QED
        BY <3>1
    <3>3. QED
      BY <3>2 DEF SysfsLimit
  <2> HIDE DEF l
  <2>3. Limits(l(m.online), a) /\ Limits(l(m.possible), b) /\ Limits(l(m.present), c)
    BY <2>1, MachineIs
  <2> HIDE DEF a, b, c, k
  <2>4. QED
    BY <1>1, <2>2, <2>3, LimitsOfThree
<1>3. Limits(CgroupsLimit(k), o)
  BY CgroupsLimits
<1>4. k.affinity = n
  BY DEF KernelOf
<1> HIDE DEF k, a, b, c, o, n
<1>5. Limits(ClampCpuCount(k.affinity), {n})
  BY <1>1, <1>4, OneOf
<1>6. a \cup b \cup c \in SUBSET Nat /\ {n} \in SUBSET Nat
  BY <1>1
<1>7. Limits(x, (a \cup b \cup c) \cup o \cup {n})
  BY <1>1, <1>2, <1>3, <1>5, <1>6, LimitsOfThree DEF Limit
<1>8. Allows(m) = (a \cup b \cup c) \cup o \cup {n} /\ Allows(m) \in SUBSET Nat /\ n \in Allows(m)
  BY <1>1
<1> HIDE DEF x
<1>9. x \in 1 .. CpuMax /\ x \in Allows(m) \cup {CpuMax} /\ \A y \in Allows(m) : x <= y
  BY <1>7, <1>8, CpuAssumption DEF Limits
<1>10. x = CpuMax => x = n
  BY <1>1, <1>8, <1>9, CpuAssumption
<1>11. QED
  BY <1>8, <1>9, <1>10 DEF x, k

\* A process is told the limit, or by NPROC no more, unless it is forced.
LEMMA CountIs ==
  ASSUME NEW limit \in 1 .. CpuMax, NEW e \in Env
  PROVE  /\ Count(limit, e) \in Nat
         /\ e.nproc = 0 => Count(limit, e) = limit
         /\ e.kind = "normal" => Count(limit, e) <= limit
<1>1. CpuMax \in Nat \ {0} /\ e.nproc \in 0 .. CpuMax /\ limit \in Nat \ {0}
  BY CpuAssumption DEF Env
<1>2. CASE e.nproc = 0
  <2>1. Asked(limit, e) = limit
    BY <1>1, <1>2 DEF Asked, Larger
  <2>2. QED
    BY <1>1, <2>1 DEF Count, Forces, MinPositive, Larger, Smaller
<1>3. CASE e.nproc # 0 /\ e.kind = "normal"
  <2>1. Asked(limit, e) = e.nproc
    BY <1>3 DEF Asked
  <2>2. ~Forces(limit, e)
    BY <1>3 DEF Forces
  <2>3. Count(limit, e) = Larger(1, MinPositive(limit, e.nproc))
    BY <2>1, <2>2 DEF Count
  <2>4. QED
    BY <1>1, <1>3, <2>3 DEF MinPositive, Larger, Smaller
<1>4. Count(limit, e) \in Nat
  <2>1. Asked(limit, e) \in Nat
    BY <1>1 DEF Asked, Larger
  <2> DEFINE a == Asked(limit, e)
  <2> HIDE DEF a
  <2>2. Count(limit, e) = Larger(1, IF Forces(limit, e) THEN a ELSE MinPositive(limit, a))
    BY DEF Count, a
  <2>3. QED
    BY <1>1, <2>1, <2>2 DEF a, MinPositive, Larger, Smaller
<1>5. QED
  BY <1>2, <1>3, <1>4

LEMMA ToldStays ==
  ASSUME [MCNext]_<<vars, machine>>
  PROVE  told' = told /\ machine' = machine
<1>1. CASE UNCHANGED <<vars, machine>>
  BY <1>1 DEF vars
<1>2. CASE MCNext
  <2>1. Next /\ machine' = machine
    BY <1>2 DEF MCNext
  <2>2. QED
    BY <2>1 DEF Next, Work, Leave, Adjust, Load, Exclude, EndAdjust, EndAsk, Drawn, Miss, Exec, Ask, Change, vars
<1>3. QED
  BY <1>1, <1>2

\* ToldTheLeast: for every machine of MachinesAssumption (any lists, sets and
\* quotas, but no cpu.shares from 1 to 1024, which nproc.h:566 takes for CPUs,
\* and no mount whose root is outside the namespace, cgroup-v2.h:48), from the
\* texts of its kernel a process is told the least of what is allowed to its own
\* group.
THEOREM ToldTheLeast == MachineSpec => []ToldIsLeast
<1>1. MCInit => ToldIsLeast
  <2>1. SUFFICES ASSUME MCInit PROVE ToldIsLeast
    OBVIOUS
  <2>2. machine \in Machines /\ told = Count(Limit(KernelOf(machine)), machine.env)
    BY <2>1 DEF MCInit
  <2> DEFINE x == Limit(KernelOf(machine))
             e == machine.env
  <2>3. e \in Env /\ x \in 1 .. CpuMax
    BY <2>2, MachineIs, LimitIsLeast
  <2>4. x \in Allows(machine) /\ \A n \in Allows(machine) : n \in Nat /\ x <= n
    BY <2>2, LimitIsLeast
  <2> HIDE DEF x
  <2>5. /\ told \in Nat /\ x \in Nat
        /\ e.nproc = 0 => told = x
        /\ e.kind = "normal" => told <= x
    BY <2>2, <2>3, CountIs DEF x
  <2>6. QED
    BY <2>3, <2>4, <2>5 DEF ToldIsLeast
<1>2. ToldIsLeast /\ [MCNext]_<<vars, machine>> => ToldIsLeast'
  BY ToldStays DEF ToldIsLeast
<1>3. QED
  BY <1>1, <1>2, PTL DEF MachineSpec
=============================================================================
