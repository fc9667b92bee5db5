----------------------------- MODULE Xvp_proofs -----------------------------
(***************************************************************************)
(* Proofs about Xvp, for every list, every set of options and faults, and   *)
(* every number of processes.                                              *)
(*                                                                         *)
(* The argument is that batches are cuts of the wanted arguments: there are *)
(* n processes and places cut[1] <= ... <= cut[n], such that the q-th child *)
(* has been made with the arguments behind cut[q - 1] up to cut[q], and     *)
(* xvp itself works on those behind cut[n].  What xvp keeps while it reads  *)
(* (the buffer, the argument begun, the one held back, the batch) is a      *)
(* function of how far it has worked through the list.                      *)
(***************************************************************************)
EXTENDS MCXvp, SequenceTheorems, FiniteSetTheorems, WellFoundedInduction, TLAPS

-----------------------------------------------------------------------------
(* Induction, over sets of naturals. *)

\* A set of naturals has a least element.
LEMMA LeastIn ==
  ASSUME NEW T \in SUBSET Nat, T # {}
  PROVE  \E m \in T : \A k \in T : m <= k
<1>1. \E m \in T : \A k \in T : <<k, m>> \notin OpToRel(<, Nat)
  BY NatLessThanWellFounded, WFMin, Zenon
<1>2. PICK m \in T : \A k \in T : <<k, m>> \notin OpToRel(<, Nat)
  BY <1>1
<1>3. ASSUME NEW k \in T, k < m PROVE FALSE
  <2>1. <<k, m>> \in Nat \X Nat /\ <<k, m>>[1] < <<k, m>>[2]
    BY <1>3
  <2>2. <<k, m>> \in OpToRel(<, Nat)
    BY <2>1 DEF OpToRel
  <2> QED BY <1>2, <2>2
<1> QED BY <1>3

\* Induction up to n, over a set.
LEMMA Upwards ==
  ASSUME NEW n \in Nat, NEW P \in SUBSET (0 .. n),
         0 \in P, \A m \in 0 .. n - 1 : m \in P => m + 1 \in P
  PROVE  P = 0 .. n
<1> DEFINE T == (0 .. n) \ P
<1>1. SUFFICES ASSUME T # {} PROVE FALSE
  OBVIOUS
<1>2. T \in SUBSET Nat
  OBVIOUS
<1>3. PICK m \in T : \A k \in T : m <= k
  <2> HIDE DEF T
  <2> QED BY <1>1, <1>2, LeastIn
<1>4. m # 0 /\ m - 1 \in P
  BY <1>3
<1> QED BY <1>3, <1>4

\* f starts as a and goes on by the rounds of h.
Rounds(f, n, V, a, h) ==
  /\ f \in [0 .. n -> V] /\ f[0] = a
  /\ \A m \in 1 .. n : f[m] = h[<<m, f[m - 1]>>]

\* There is such a function.
LEMMA RoundsExist ==
  ASSUME NEW V, NEW a \in V, NEW n \in Nat, NEW h \in [(1 .. n) \X V -> V]
  PROVE  \E f : Rounds(f, n, V, a, h)
<1> DEFINE Upto(f, k) == f[0] = a /\ \A m \in 1 .. k : f[m] = h[<<m, f[m - 1]>>]
           P == {k \in 0 .. n : \E f \in [0 .. k -> V] : Upto(f, k)}
<1>1. 0 \in P
  <2> DEFINE f == [k \in 0 .. 0 |-> a]
  <2>1. f \in [0 .. 0 -> V] /\ Upto(f, 0)
    OBVIOUS
  <2> HIDE DEF f, Upto
  <2>2. \E e \in [0 .. 0 -> V] : Upto(e, 0)
    BY <2>1
  <2> QED BY <2>2
<1>2. ASSUME NEW m \in 0 .. n - 1, m \in P PROVE m + 1 \in P
  <2>1. PICK f \in [0 .. m -> V] : Upto(f, m)
    BY <1>2
  <2> DEFINE e == [k \in 0 .. m + 1 |-> IF k = m + 1 THEN h[<<m + 1, f[m]>>] ELSE f[k]]
  <2>0. m + 1 \in 1 .. n /\ m \in Nat /\ f[m] \in V
    OBVIOUS
  <2>2. h[<<m + 1, f[m]>>] \in V
    BY <2>0
  <2>3. e \in [0 .. m + 1 -> V]
    BY <2>0, <2>2
  <2>4. \A k \in 0 .. m : e[k] = f[k]
    BY <2>0
  <2>5. e[m + 1] = h[<<m + 1, f[m]>>]
    BY <2>0
  <2> HIDE DEF e
  <2>6. Upto(e, m + 1)
    <3>1. e[0] = a
      BY <2>1, <2>4
    <3>2. ASSUME NEW j \in 1 .. m + 1 PROVE e[j] = h[<<j, e[j - 1]>>]
      <4>1. CASE j = m + 1
        <5>1. e[j - 1] = f[m]
          BY <2>0, <2>4, <4>1
        <5> QED BY <2>5, <4>1, <5>1
      <4>2. CASE j \in 1 .. m
        <5>1. j - 1 \in 0 .. m /\ j \in 0 .. m
          BY <2>0, <4>2
        <5>2. f[j] = h[<<j, f[j - 1]>>]
          BY <2>1, <4>2
        <5> QED BY <2>4, <5>1, <5>2
      <4> QED BY <2>0, <4>1, <4>2
    <3> QED BY <3>1, <3>2
  <2> HIDE DEF Upto
  <2> QED BY <2>0, <2>3, <2>6
<1>3. P \in SUBSET (0 .. n)
  OBVIOUS
<1>4. n \in P
  <2> HIDE DEF P
  <2> QED BY <1>1, <1>2, <1>3, Upwards
<1> QED BY <1>4 DEF Rounds

Alike(h, g, n, V) == \A m \in 1 .. n : \A v \in V : h[<<m, v>>] = g[<<m, v>>]

\* And only one.
LEMMA RoundsAgree ==
  ASSUME NEW V, NEW a, NEW n \in Nat, NEW h, NEW f, Rounds(f, n, V, a, h),
         NEW k \in 0 .. n, NEW g, NEW e, Rounds(e, k, V, a, g),
         Alike(h, g, k, V)
  PROVE  \A m \in 0 .. k : f[m] = e[m]
<1> DEFINE P == {m \in 0 .. k : f[m] = e[m]}
<1>1. 0 \in P
  BY DEF Rounds
<1>2. ASSUME NEW m \in 0 .. k - 1, m \in P PROVE m + 1 \in P
  <2>1. /\ m + 1 \in 1 .. k /\ m + 1 \in 1 .. n /\ (m + 1) - 1 = m /\ m + 1 \in 0 .. k
        /\ m \in 0 .. n
    OBVIOUS
  <2>2. f[m + 1] = h[<<m + 1, f[m]>>] /\ e[m + 1] = g[<<m + 1, e[m]>>]
    BY <2>1 DEF Rounds
  <2>3. f[m] = e[m] /\ f[m] \in V
    BY <1>2, <2>1 DEF Rounds
  <2>4. h[<<m + 1, f[m]>>] = g[<<m + 1, f[m]>>]
    BY <2>1, <2>3 DEF Alike
  <2> QED BY <2>1, <2>2, <2>3, <2>4
<1>3. P \in SUBSET (0 .. k) /\ k \in Nat
  OBVIOUS
<1>4. P = 0 .. k
  <2> HIDE DEF P
  <2> QED BY <1>1, <1>2, <1>3, Upwards
<1> QED BY <1>4

\* A function that follows the rounds of h from a.
LEMMA RoundsFrom ==
  ASSUME NEW V, NEW a \in V, NEW n \in Nat, NEW h \in [(1 .. n) \X V -> V], NEW f,
         f = [m \in 0 .. n |-> f[m]], f[0] = a,
         \A m \in 1 .. n : f[m - 1] \in V => f[m] = h[<<m, f[m - 1]>>]
  PROVE  Rounds(f, n, V, a, h)
<1> DEFINE P == {m \in 0 .. n : f[m] \in V}
<1>1. 0 \in P
  OBVIOUS
<1>2. ASSUME NEW m \in 0 .. n - 1, m \in P PROVE m + 1 \in P
  <2>0. f[m] \in V
    BY <1>2
  <2>1. m + 1 \in 1 .. n /\ (m + 1) - 1 = m /\ m + 1 \in 0 .. n /\ f[m] \in V
    BY <2>0
  <2>2. f[m + 1] = h[<<m + 1, f[m]>>]
    BY <2>1
  <2>3. <<m + 1, f[m]>> \in (1 .. n) \X V
    BY <2>1
  <2>4. h[<<m + 1, f[m]>>] \in V
    BY <2>3
  <2> QED BY <2>1, <2>2, <2>4
<1>3. P \in SUBSET (0 .. n)
  OBVIOUS
<1>4. P = 0 .. n
  <2> HIDE DEF P
  <2> QED BY <1>1, <1>2, <1>3, Upwards
<1>5. \A m \in 0 .. n : f[m] \in V
  BY <1>4
<1>6. \A m \in 1 .. n : m - 1 \in 0 .. n
  OBVIOUS
<1> QED BY <1>5, <1>6 DEF Rounds

-----------------------------------------------------------------------------
(* Sizes. *)

Plus(costs) == [x \in (1 .. Len(costs)) \X Int |-> x[2] + costs[x[1]]]

\* Total is the last of these rounds.
LEMMA TotalRounds ==
  ASSUME NEW a \in Int, NEW costs \in Seq(Int)
  PROVE  \E f : Rounds(f, Len(costs), Int, a, Plus(costs)) /\ Total(a, costs) = f[Len(costs)]
<1> DEFINE n == Len(costs)
           h == Plus(costs)
           Body(f) == [m \in 0 .. n |-> IF m = 0 THEN a ELSE f[m - 1] + costs[m]]
           W == CHOOSE f : f = Body(f)
<1>1. n \in Nat /\ \A m \in 1 .. n : costs[m] \in Int
  OBVIOUS
<1>2. h \in [(1 .. n) \X Int -> Int] /\ \A m \in 1 .. n, v \in Int : h[<<m, v>>] = v + costs[m]
  BY <1>1 DEF Plus
<1> HIDE DEF n, h
<1>3. PICK e : Rounds(e, n, Int, a, h)
  BY <1>1, <1>2, RoundsExist
<1>4. e = Body(e)
  <2>1. \A m \in 1 .. n : e[m] = e[m - 1] + costs[m]
    <3> SUFFICES ASSUME NEW m \in 1 .. n PROVE e[m] = e[m - 1] + costs[m]
      OBVIOUS
    <3>1. m - 1 \in 0 .. n
      BY <1>1
    <3>2. e[m - 1] \in Int /\ e[m] = h[<<m, e[m - 1]>>]
      BY <1>3, <3>1 DEF Rounds
    <3> QED BY <1>2, <3>2
  <2>2. e \in [0 .. n -> Int] /\ e[0] = a
    BY <1>3 DEF Rounds
  <2> QED BY <1>1, <2>1, <2>2
<1>5. W = Body(W)
  <2> HIDE DEF Body
  <2> QED BY <1>4
<1>6. Total(a, costs) = W[n]
  BY DEF Total, n
<1> HIDE DEF W
<1>7. /\ W = [m \in 0 .. n |-> W[m]] /\ W[0] = a
      /\ \A m \in 1 .. n : W[m] = W[m - 1] + costs[m]
  <2>1. W = [m \in 0 .. n |-> IF m = 0 THEN a ELSE W[m - 1] + costs[m]]
    BY <1>5
  <2>2. 0 \in 0 .. n /\ 1 .. n \subseteq 0 .. n /\ \A m \in 1 .. n : m # 0
    BY <1>1
  <2>3. W = [m \in 0 .. n |-> W[m]]
    BY <2>1, Zenon
  <2>4. W[0] = a
    BY <2>1, <2>2
  <2>5. \A m \in 1 .. n : W[m] = W[m - 1] + costs[m]
    BY <2>1, <2>2
  <2> QED BY <2>3, <2>4, <2>5
<1>8. Rounds(W, n, Int, a, h)
  BY <1>1, <1>2, <1>7, RoundsFrom
<1> QED BY <1>6, <1>8 DEF n, h

LEMMA TotalEmpty == ASSUME NEW a \in Int PROVE Total(a, <<>>) = a
<1>1. <<>> \in Seq(Int) /\ Len(<<>>) = 0
  OBVIOUS
<1>2. PICK f : Rounds(f, 0, Int, a, Plus(<<>>)) /\ Total(a, <<>>) = f[0]
  BY <1>1, TotalRounds
<1> QED BY <1>2 DEF Rounds

LEMMA TotalAppend ==
  ASSUME NEW a \in Int, NEW costs \in Seq(Int), NEW c \in Int
  PROVE  /\ Total(a, Append(costs, c)) = Total(a, costs) + c
         /\ Total(a, costs) \in Int
<1> DEFINE n == Len(costs)
           more == Append(costs, c)
<1>1. n \in Nat /\ more \in Seq(Int) /\ Len(more) = n + 1 /\ more[n + 1] = c
      /\ \A m \in 1 .. n : more[m] = costs[m] /\ costs[m] \in Int
  OBVIOUS
<1>2. PICK f : Rounds(f, n, Int, a, Plus(costs)) /\ Total(a, costs) = f[n]
  BY TotalRounds
<1> HIDE DEF more
<1>3. PICK e : Rounds(e, n + 1, Int, a, Plus(more)) /\ Total(a, more) = e[n + 1]
  BY <1>1, TotalRounds
<1>4. \A m \in 1 .. n : \A v \in Int : Plus(more)[<<m, v>>] = Plus(costs)[<<m, v>>]
  <2> SUFFICES ASSUME NEW m \in 1 .. n, NEW v \in Int
               PROVE  Plus(more)[<<m, v>>] = Plus(costs)[<<m, v>>]
    OBVIOUS
  <2>1. m \in 1 .. n + 1
    BY <1>1
  <2>2. Plus(more)[<<m, v>>] = v + more[m]
    BY <1>1, <2>1 DEF Plus
  <2>3. Plus(costs)[<<m, v>>] = v + costs[m]
    BY DEF Plus
  <2> QED BY <1>1, <2>2, <2>3
<1>5. \A m \in 0 .. n : e[m] = f[m]
  <2>1. n \in 0 .. n + 1 /\ n + 1 \in Nat
    BY <1>1
  <2>2. Alike(Plus(more), Plus(costs), n, Int)
    BY <1>4 DEF Alike
  <2> HIDE DEF n
  <2> QED BY <1>2, <1>3, <2>1, <2>2, RoundsAgree
<1>6. e[n] = f[n] /\ f[n] \in Int
  BY <1>1, <1>2, <1>5 DEF Rounds
<1>7. e[n + 1] = Plus(more)[<<n + 1, e[n]>>]
  <2>1. n + 1 \in 1 .. n + 1 /\ (n + 1) - 1 = n
    BY <1>1
  <2> QED BY <1>3, <2>1 DEF Rounds
<1>8. Plus(more)[<<n + 1, e[n]>>] = e[n] + c
  BY <1>1, <1>6 DEF Plus
<1> QED BY <1>2, <1>3, <1>6, <1>7, <1>8 DEF more

Strings == Seq(Nat)

Starts(bytes, i, n) ==
  i \in 1 .. n /\ (i = 1 \/ bytes[i - 1] = Nul) /\ \A j \in i .. n - 1 : bytes[j] # Nul

LEMMA StartFacts ==
  ASSUME NEW bytes \in Strings, NEW n \in 1 .. Len(bytes) + 1
  PROVE  Starts(bytes, StartOf(bytes, n), n)
<1> DEFINE all == Len(bytes)
           P == {k \in 0 .. all : \E i \in 1 .. k + 1 : Starts(bytes, i, k + 1)}
<1>0. all \in Nat /\ bytes \in [1 .. all -> Nat]
  BY DEF Strings
<1>1. 0 \in P
  <2>1. Starts(bytes, 1, 0 + 1) /\ 1 \in 1 .. 0 + 1
    BY DEF Starts
  <2> QED BY <1>0, <2>1
<1>2. ASSUME NEW m \in 0 .. all - 1, m \in P PROVE m + 1 \in P
  <2>1. PICK i \in 1 .. m + 1 : Starts(bytes, i, m + 1)
    BY <1>2
  <2>2. CASE bytes[m + 1] = Nul
    <3>1. Starts(bytes, m + 2, (m + 1) + 1) /\ m + 2 \in 1 .. (m + 1) + 1
      BY <1>0, <2>2 DEF Starts
    <3> QED BY <1>0, <3>1
  <2>3. CASE bytes[m + 1] # Nul
    <3>1. Starts(bytes, i, (m + 1) + 1) /\ i \in 1 .. (m + 1) + 1
      BY <1>0, <2>1, <2>3 DEF Starts
    <3> QED BY <1>0, <3>1
  <2> QED BY <2>2, <2>3
<1>3. P \in SUBSET (0 .. all)
  OBVIOUS
<1>4. P = 0 .. all
  <2> HIDE DEF P, all
  <2> QED BY <1>0, <1>1, <1>2, <1>3, Upwards
<1>5. n - 1 \in 0 .. all /\ (n - 1) + 1 = n
  BY <1>0
<1>6. \E i \in 1 .. n : Starts(bytes, i, n)
  BY <1>4, <1>5
<1>7. \E i \in 1 .. n : (i = 1 \/ bytes[i - 1] = Nul) /\ \A j \in i .. n - 1 : bytes[j] # Nul
  BY <1>6 DEF Starts
<1> QED BY <1>7 DEF StartOf, Starts

LEMMA StartIsOne ==
  ASSUME NEW bytes \in Strings, NEW n \in 1 .. Len(bytes) + 1, NEW i, Starts(bytes, i, n)
  PROVE  i = StartOf(bytes, n)
<1> DEFINE s == StartOf(bytes, n)
<1>1. Starts(bytes, s, n)
  BY StartFacts
<1> HIDE DEF s
<1>2. i \in Nat /\ s \in Nat /\ n \in Nat
  BY <1>1 DEF Starts, Strings
<1>3. ~(i < s)
  <2>1. i < s => s - 1 \in i .. n - 1 /\ s # 1
    BY <1>1, <1>2 DEF Starts
  <2> QED BY <1>1, <2>1 DEF Starts
<1>4. ~(s < i)
  <2>1. s < i => i - 1 \in s .. n - 1 /\ i # 1
    BY <1>1, <1>2 DEF Starts
  <2> QED BY <1>1, <2>1 DEF Starts
<1> QED BY <1>2, <1>3, <1>4 DEF s

\* The string that goes on to a byte, and the one that starts behind a NUL.
LEMMA StringSteps ==
  ASSUME NEW bytes \in Strings
  PROVE  /\ StringTo(bytes, 1) = <<>>
         /\ \A n \in 1 .. Len(bytes) + 1 : StringTo(bytes, n) \in Strings
         /\ \A n \in 1 .. Len(bytes) :
              StringTo(bytes, n + 1) = IF bytes[n] = Nul THEN <<>> ELSE Append(StringTo(bytes, n), bytes[n])
<1>0. Len(bytes) \in Nat /\ bytes \in Seq(Nat)
  BY DEF Strings
<1>1. StringTo(bytes, 1) = <<>>
  <2>1. StartOf(bytes, 1) = 1
    BY <1>0, StartFacts DEF Starts
  <2> QED BY <1>0, <2>1 DEF StringTo
<1>2. ASSUME NEW n \in 1 .. Len(bytes) + 1 PROVE StringTo(bytes, n) \in Strings
  <2>1. StartOf(bytes, n) \in 1 .. n
    BY StartFacts DEF Starts
  <2>2. \A i \in StartOf(bytes, n) .. n - 1 : i \in 1 .. Len(bytes)
    BY <1>0, <2>1
  <2> HIDE DEF Strings
  <2>3. SubSeq(bytes, StartOf(bytes, n), n - 1) \in Seq(Nat)
    BY <1>0, <2>1, <2>2
  <2> QED BY <2>3 DEF StringTo, Strings
<1>3. ASSUME NEW n \in 1 .. Len(bytes)
      PROVE  StringTo(bytes, n + 1) = IF bytes[n] = Nul THEN <<>> ELSE Append(StringTo(bytes, n), bytes[n])
  <2>0. n \in 1 .. Len(bytes) + 1 /\ n + 1 \in 1 .. Len(bytes) + 1 /\ (n + 1) - 1 = n
    BY <1>0
  <2>1. CASE bytes[n] = Nul
    <3>1. Starts(bytes, n + 1, n + 1)
      BY <1>0, <2>0, <2>1 DEF Starts
    <3>2. StartOf(bytes, n + 1) = n + 1
      BY <2>0, <3>1, StartIsOne
    <3>3. SubSeq(bytes, n + 1, n) = <<>>
      BY <1>0, <2>0
    <3> QED BY <2>0, <2>1, <3>2, <3>3 DEF StringTo
  <2>2. CASE bytes[n] # Nul
    <3> DEFINE s == StartOf(bytes, n)
    <3>1. Starts(bytes, s, n)
      BY <2>0, StartFacts
    <3> HIDE DEF s
    <3>2. Starts(bytes, s, n + 1)
      BY <1>0, <2>0, <2>2, <3>1 DEF Starts
    <3>3. s = StartOf(bytes, n + 1)
      BY <2>0, <3>2, StartIsOne
    <3>4. s \in 1 .. n
      BY <3>1 DEF Starts
    <3>5. SubSeq(bytes, s, n) = Append(SubSeq(bytes, s, n - 1), bytes[n])
      BY <1>0, <2>0, <3>4
    <3> QED BY <2>0, <2>2, <3>3, <3>5 DEF StringTo, s
  <2> QED BY <2>1, <2>2
<1> QED BY <1>1, <1>2, <1>3

Argvs == Seq(Strings)

\* What the n-th byte makes of the arguments before it.
Wholes(bytes) ==
  [x \in (1 .. Len(bytes)) \X Argvs |->
     IF bytes[x[1]] # Nul \/ TooLong(StringTo(bytes, x[1])) THEN x[2]
     ELSE Append(x[2], StringTo(bytes, x[1]))]

LEMMA WholeRounds ==
  ASSUME NEW bytes \in Strings
  PROVE  \E f : /\ Rounds(f, Len(bytes), Argvs, <<>>, Wholes(bytes))
                /\ \A n \in 0 .. Len(bytes) : Whole(bytes, n) = f[n]
<1> DEFINE n == Len(bytes)
           h == Wholes(bytes)
           Goes(m, v) == IF bytes[m] # Nul \/ TooLong(StringTo(bytes, m)) THEN v
                          ELSE Append(v, StringTo(bytes, m))
           Body(f) == [m \in 0 .. n |->
                         IF m = 0 THEN <<>>
                         ELSE IF bytes[m] # Nul \/ TooLong(StringTo(bytes, m)) THEN f[m - 1]
                         ELSE Append(f[m - 1], StringTo(bytes, m))]
           W == CHOOSE f : f = Body(f)
<1>1. n \in Nat /\ <<>> \in Argvs
  BY DEF Strings, Argvs
<1>2. \A m \in 1 .. n : StringTo(bytes, m) \in Strings
  BY <1>1, StringSteps
<1>3. \A m \in 1 .. n : \A v \in Argvs : Goes(m, v) \in Argvs
  BY <1>2 DEF Argvs
<1> HIDE DEF Goes
<1>4. h = [x \in (1 .. n) \X Argvs |-> Goes(x[1], x[2])]
  BY DEF Wholes, Goes
<1> HIDE DEF h, n
<1>5. h \in [(1 .. n) \X Argvs -> Argvs] /\ \A m \in 1 .. n : \A v \in Argvs : h[<<m, v>>] = Goes(m, v)
  BY <1>3, <1>4
<1>6. PICK e : Rounds(e, n, Argvs, <<>>, h)
  BY <1>1, <1>5, RoundsExist
<1>7. e = [m \in 0 .. n |-> IF m = 0 THEN <<>> ELSE Goes(m, e[m - 1])]
  <2>1. \A m \in 1 .. n : e[m] = Goes(m, e[m - 1])
    <3> SUFFICES ASSUME NEW m \in 1 .. n PROVE e[m] = Goes(m, e[m - 1])
      OBVIOUS
    <3>1. m - 1 \in 0 .. n
      BY <1>1
    <3>2. e[m - 1] \in Argvs /\ e[m] = h[<<m, e[m - 1]>>]
      BY <1>6, <3>1 DEF Rounds
    <3> QED BY <1>5, <3>2
  <2>2. e \in [0 .. n -> Argvs] /\ e[0] = <<>>
    BY <1>6 DEF Rounds
  <2> QED BY <1>1, <2>1, <2>2
<1>8. W = Body(W)
  <2>1. e = Body(e)
    BY <1>7 DEF Goes
  <2> HIDE DEF Body
  <2> QED BY <2>1
<1>9. \A m \in 0 .. n : Whole(bytes, m) = W[m]
  BY DEF Whole, n
<1>10. W = [m \in 0 .. n |-> IF m = 0 THEN <<>> ELSE Goes(m, W[m - 1])]
  BY <1>8 DEF Goes
<1> HIDE DEF W
<1>11. /\ W = [m \in 0 .. n |-> W[m]] /\ W[0] = <<>>
       /\ \A m \in 1 .. n : W[m] = Goes(m, W[m - 1])
  <2>2. 0 \in 0 .. n /\ 1 .. n \subseteq 0 .. n /\ \A m \in 1 .. n : m # 0
    BY <1>1
  <2>3. W = [m \in 0 .. n |-> W[m]]
    BY <1>10, Zenon
  <2>4. W[0] = <<>>
    BY <1>10, <2>2
  <2>5. \A m \in 1 .. n : W[m] = Goes(m, W[m - 1])
    BY <1>10, <2>2
  <2> QED BY <2>3, <2>4, <2>5
<1>12. \A m \in 1 .. n : W[m - 1] \in Argvs => W[m] = h[<<m, W[m - 1]>>]
  BY <1>5, <1>11
<1>13. Rounds(W, n, Argvs, <<>>, h)
  BY <1>1, <1>5, <1>11, <1>12, RoundsFrom
<1> QED BY <1>9, <1>13 DEF n, h

LEMMA WholeSteps ==
  ASSUME NEW bytes \in Strings
  PROVE  /\ \A n \in 0 .. Len(bytes) : Whole(bytes, n) \in Argvs
         /\ Whole(bytes, 0) = <<>>
         /\ \A n \in 1 .. Len(bytes) :
              Whole(bytes, n) = IF bytes[n] # Nul \/ TooLong(StringTo(bytes, n)) THEN Whole(bytes, n - 1)
                                ELSE Append(Whole(bytes, n - 1), StringTo(bytes, n))
<1>1. PICK f : /\ Rounds(f, Len(bytes), Argvs, <<>>, Wholes(bytes))
               /\ \A n \in 0 .. Len(bytes) : Whole(bytes, n) = f[n]
  BY WholeRounds
<1>2. Len(bytes) \in Nat
  BY DEF Strings
<1>3. \A n \in 0 .. Len(bytes) : Whole(bytes, n) \in Argvs
  BY <1>1 DEF Rounds
<1>4. Whole(bytes, 0) = <<>>
  BY <1>1, <1>2 DEF Rounds
<1>5. ASSUME NEW n \in 1 .. Len(bytes)
      PROVE  Whole(bytes, n) = IF bytes[n] # Nul \/ TooLong(StringTo(bytes, n)) THEN Whole(bytes, n - 1)
                               ELSE Append(Whole(bytes, n - 1), StringTo(bytes, n))
  <2>1. n - 1 \in 0 .. Len(bytes) /\ n \in 0 .. Len(bytes)
    BY <1>2
  <2>2. Whole(bytes, n) = Wholes(bytes)[<<n, Whole(bytes, n - 1)>>]
    BY <1>1, <2>1 DEF Rounds
  <2>3. Whole(bytes, n - 1) \in Argvs
    BY <1>3, <2>1
  <2> QED BY <2>2, <2>3 DEF Wholes
<1> QED BY <1>3, <1>4, <1>5

\* How many arguments the first n bytes have.
Count(bytes, n) == Len(Whole(bytes, n))

LEMMA CountSteps ==
  ASSUME NEW bytes \in Strings
  PROVE  /\ Count(bytes, 0) = 0
         /\ \A n \in 0 .. Len(bytes) : Count(bytes, n) \in 0 .. n
         /\ \A n \in 1 .. Len(bytes) :
              Count(bytes, n) = IF bytes[n] # Nul \/ TooLong(StringTo(bytes, n)) THEN Count(bytes, n - 1)
                                ELSE Count(bytes, n - 1) + 1
<1>0. Len(bytes) \in Nat
  BY DEF Strings
<1>1. Count(bytes, 0) = 0
  BY WholeSteps DEF Count
<1>2. ASSUME NEW n \in 1 .. Len(bytes)
      PROVE  Count(bytes, n) = IF bytes[n] # Nul \/ TooLong(StringTo(bytes, n)) THEN Count(bytes, n - 1)
                               ELSE Count(bytes, n - 1) + 1
  <2>1. n - 1 \in 0 .. Len(bytes)
    BY <1>0
  <2>2. Whole(bytes, n - 1) \in Argvs
    BY <2>1, WholeSteps
  <2>3. Whole(bytes, n) = IF bytes[n] # Nul \/ TooLong(StringTo(bytes, n)) THEN Whole(bytes, n - 1)
                          ELSE Append(Whole(bytes, n - 1), StringTo(bytes, n))
    BY WholeSteps
  <2> QED BY <2>2, <2>3 DEF Count, Argvs
<1>3. \A n \in 0 .. Len(bytes) : Count(bytes, n) \in 0 .. n
  <2> DEFINE all == Len(bytes)
             P == {n \in 0 .. all : Count(bytes, n) \in 0 .. n}
  <2>1. 0 \in P
    BY <1>0, <1>1
  <2>2. ASSUME NEW m \in 0 .. all - 1, m \in P PROVE m + 1 \in P
    <3>1. m + 1 \in 1 .. all /\ (m + 1) - 1 = m /\ m + 1 \in 0 .. all /\ Count(bytes, m) \in 0 .. m
      BY <1>0, <2>2
    <3>2. Count(bytes, m + 1) = Count(bytes, m) \/ Count(bytes, m + 1) = Count(bytes, m) + 1
      BY <1>2, <3>1
    <3> QED BY <3>1, <3>2
  <2>3. P \in SUBSET (0 .. all)
    OBVIOUS
  <2>4. P = 0 .. all
    <3> HIDE DEF P, all
    <3>1. all \in Nat
      BY <1>0 DEF all
    <3> QED BY <2>1, <2>2, <2>3, <3>1, Upwards
  <2> QED BY <2>4
<1> QED BY <1>1, <1>2, <1>3

\* What arrives is counted off from the front of what is wanted.
LEMMA WantedCounts ==
  ASSUME NEW bytes \in Strings
  PROVE  /\ Wanted(bytes) \in Argvs
         /\ \A n \in 0 .. Len(bytes) : Count(bytes, n) <= Len(Wanted(bytes))
         /\ \A n \in 1 .. Len(bytes) :
              bytes[n] = Nul /\ ~TooLong(StringTo(bytes, n)) =>
                Wanted(bytes)[Count(bytes, n)] = StringTo(bytes, n)
         /\ IF Rest(bytes) = <<>> \/ TooLong(Rest(bytes)) THEN Len(Wanted(bytes)) = Count(bytes, Len(bytes))
            ELSE /\ Len(Wanted(bytes)) = Count(bytes, Len(bytes)) + 1
                 /\ Wanted(bytes)[Len(Wanted(bytes))] = Rest(bytes)
<1> DEFINE all == Len(bytes)
           w == Wanted(bytes)
           N(n) == Count(bytes, n)
           W(n) == Whole(bytes, n)
<1>0. all \in Nat /\ Rest(bytes) \in Strings
  <2>1. all \in Nat
    BY DEF Strings
  <2>2. all + 1 \in 1 .. all + 1
    BY <2>1
  <2> QED BY <2>1, <2>2, StringSteps DEF Rest
<1>1. \A n \in 0 .. all : W(n) \in Seq(Strings) /\ N(n) = Len(W(n)) /\ N(n) \in Nat
  BY WholeSteps DEF Argvs, Count
<1>2. w = W(all) \o IF Rest(bytes) = <<>> \/ TooLong(Rest(bytes)) THEN <<>> ELSE <<Rest(bytes)>>
  BY DEF Wanted
<1>3. /\ w \in Seq(Strings) /\ N(all) <= Len(w)
      /\ \A k \in 1 .. N(all) : w[k] = W(all)[k]
      /\ IF Rest(bytes) = <<>> \/ TooLong(Rest(bytes)) THEN Len(w) = N(all)
         ELSE Len(w) = N(all) + 1 /\ w[Len(w)] = Rest(bytes)
  <2>1. all \in 0 .. all
    BY <1>0
  <2>2. W(all) \in Seq(Strings) /\ N(all) = Len(W(all)) /\ N(all) \in Nat
    BY <1>1, <2>1
  <2> HIDE DEF w, W, N, all
  <2>3. CASE Rest(bytes) = <<>> \/ TooLong(Rest(bytes))
    <3>1. w = W(all)
      BY <1>2, <2>2, <2>3
    <3> QED BY <2>2, <2>3, <3>1
  <2>4. CASE ~(Rest(bytes) = <<>> \/ TooLong(Rest(bytes)))
    <3>1. w = W(all) \o <<Rest(bytes)>>
      BY <1>2, <2>4
    <3>2. w = Append(W(all), Rest(bytes))
      BY <2>2, <3>1
    <3> QED BY <1>0, <2>2, <2>4, <3>2
  <2> QED BY <2>3, <2>4
<1> DEFINE P == {d \in 0 .. all : N(all - d) <= N(all) /\ \A k \in 1 .. N(all - d) : W(all - d)[k] = w[k]}
<1>4. 0 \in P
  BY <1>0, <1>3, <1>1
<1>5. ASSUME NEW d \in 0 .. all - 1, d \in P PROVE d + 1 \in P
  <2> DEFINE n == all - d
  <2>1. n \in 1 .. all /\ all - (d + 1) = n - 1 /\ n - 1 \in 0 .. all /\ n \in 0 .. all
    BY <1>0
  <2>2. N(n) <= N(all) /\ \A k \in 1 .. N(n) : W(n)[k] = w[k]
    BY <1>5
  <2>3. N(n - 1) <= N(n) /\ \A k \in 1 .. N(n - 1) : W(n - 1)[k] = W(n)[k]
    <3>1. W(n) = IF bytes[n] # Nul \/ TooLong(StringTo(bytes, n)) THEN W(n - 1)
                 ELSE Append(W(n - 1), StringTo(bytes, n))
      BY <2>1, WholeSteps
    <3>2. W(n - 1) \in Seq(Strings) /\ N(n - 1) = Len(W(n - 1)) /\ N(n) = Len(W(n))
      BY <1>1, <2>1
    <3>3. StringTo(bytes, n) \in Strings
      BY <1>0, <2>1, StringSteps
    <3> HIDE DEF n, W, N
    <3> QED BY <3>1, <3>2, <3>3
  <2>4. N(n - 1) <= N(all) /\ \A k \in 1 .. N(n - 1) : W(n - 1)[k] = w[k]
    <3>1. N(n) \in Nat /\ N(n - 1) \in Nat /\ N(all) \in Nat
      <4>1. all \in 0 .. all
        BY <1>0
      <4> QED BY <1>1, <2>1, <4>1
    <3> HIDE DEF n, W, N, w
    <3> QED BY <2>2, <2>3, <3>1
  <2>5. d + 1 \in 0 .. all
    BY <1>0
  <2> HIDE DEF n, W, N, w
  <2> QED BY <2>1, <2>4, <2>5
<1>6. P \in SUBSET (0 .. all)
  OBVIOUS
<1>7. P = 0 .. all
  <2> HIDE DEF P, all
  <2> QED BY <1>0, <1>4, <1>5, <1>6, Upwards
<1>8. ASSUME NEW n \in 0 .. all PROVE N(n) <= N(all) /\ \A k \in 1 .. N(n) : W(n)[k] = w[k]
  <2>1. all - n \in 0 .. all /\ all - (all - n) = n
    BY <1>0
  <2>2. all - n \in P
    BY <1>7, <2>1
  <2> HIDE DEF W, N, w, all
  <2> QED BY <2>1, <2>2
<1>9. ASSUME NEW n \in 1 .. all, bytes[n] = Nul, ~TooLong(StringTo(bytes, n))
      PROVE  w[N(n)] = StringTo(bytes, n)
  <2>1. W(n) = Append(W(n - 1), StringTo(bytes, n))
    BY <1>9, WholeSteps
  <2>2. n - 1 \in 0 .. all /\ n \in 0 .. all
    BY <1>0
  <2>3. W(n - 1) \in Seq(Strings) /\ N(n) = Len(W(n))
    BY <1>1, <2>2
  <2>4. StringTo(bytes, n) \in Strings
    BY <1>0, StringSteps
  <2> HIDE DEF W, N, w, all
  <2>5. N(n) = Len(W(n - 1)) + 1 /\ W(n)[N(n)] = StringTo(bytes, n)
    BY <2>1, <2>3, <2>4
  <2>6. N(n) \in 1 .. N(n)
    BY <2>3, <2>5
  <2> QED BY <1>8, <2>2, <2>5, <2>6
<1>10. \A n \in 0 .. all : N(n) <= Len(w)
  <2>1. all \in 0 .. all
    BY <1>0
  <2>2. \A n \in 0 .. all : N(n) \in Nat
    BY <1>1
  <2> HIDE DEF W, N, w, all
  <2>3. Len(w) \in Nat
    BY <1>3
  <2> QED BY <1>3, <1>8, <2>1, <2>2, <2>3
<1> QED BY <1>3, <1>9, <1>10 DEF Argvs

LEMMA BlockFacts ==
  ASSUME NEW buf \in Strings
  PROVE  /\ Block(buf) \in 0 .. Len(buf)
         /\ \A k \in 1 .. Block(buf) : buf[k] # Nul
         /\ Block(buf) < Len(buf) => buf[Block(buf) + 1] = Nul
<1> DEFINE nuls == {i \in DOMAIN buf : buf[i] = Nul}
<1>0. Len(buf) \in Nat /\ DOMAIN buf = 1 .. Len(buf)
  BY DEF Strings
<1>1. CASE nuls = {}
  BY <1>0, <1>1 DEF Block
<1>2. CASE nuls # {}
  <2>1. nuls \in SUBSET Nat
    BY <1>0
  <2>2. PICK m \in nuls : \A k \in nuls : m <= k
    <3> HIDE DEF nuls
    <3> QED BY <1>2, <2>1, LeastIn
  <2>3. Min(nuls) \in nuls /\ \A k \in nuls : Min(nuls) <= k
    <3> HIDE DEF nuls
    <3> QED BY <2>2 DEF Min
  <2>4. Block(buf) = Min(nuls) - 1
    BY <1>2 DEF Block
  <2>5. Min(nuls) \in 1 .. Len(buf) /\ buf[Min(nuls)] = Nul
    BY <1>0, <2>3
  <2>6. ASSUME NEW k \in 1 .. Min(nuls) - 1 PROVE buf[k] # Nul
    <3>1. k \in 1 .. Len(buf) /\ ~(Min(nuls) <= k)
      BY <1>0, <2>5
    <3> QED BY <1>0, <2>3, <3>1
  <2> HIDE DEF nuls
  <2> QED BY <2>4, <2>5, <2>6
<1> QED BY <1>1, <1>2

LEMMA AppendJoined == \A s, t \in Seq(Nat) : \A c \in Nat : Append(s \o t, c) = s \o Append(t, c)
  BY Z3

LEMMA Cuts ==
  ASSUME NEW A, NEW s \in Seq(A), NEW i \in 1 .. Len(s) + 1, NEW j \in i - 1 .. Len(s)
  PROVE  /\ SubSeq(s, i, j) \in Seq(A) /\ Len(SubSeq(s, i, j)) = j - i + 1
         /\ \A k \in 1 .. j - i + 1 : SubSeq(s, i, j)[k] = s[i + k - 1]
         /\ SubSeq(s, i, i - 1) = <<>>
         /\ j < Len(s) => SubSeq(s, i, j + 1) = Append(SubSeq(s, i, j), s[j + 1])
<1>1. Len(s) \in Nat /\ s \in [1 .. Len(s) -> A] /\ i \in Nat /\ j \in Int
  OBVIOUS
<1>2. \A k \in i .. j : s[k] \in A
  BY <1>1
<1>3. SubSeq(s, i, j) \in Seq(A) /\ Len(SubSeq(s, i, j)) = j - i + 1
  BY <1>1, <1>2
<1>4. \A k \in 1 .. j - i + 1 : SubSeq(s, i, j)[k] = s[i + k - 1]
  BY <1>1
<1>5. SubSeq(s, i, i - 1) = <<>>
  BY <1>1
<1>6. j < Len(s) => SubSeq(s, i, j + 1) = Append(SubSeq(s, i, j), s[j + 1])
  BY <1>1
<1> QED BY <1>3, <1>4, <1>5, <1>6

\* A cut of a cut.
LEMMA CutAgain ==
  ASSUME NEW A, NEW s \in Seq(A), NEW i \in 1 .. Len(s) + 1, NEW j \in i - 1 .. Len(s),
         NEW k \in 1 .. j - i + 2, NEW m \in k - 1 .. j - i + 1
  PROVE  SubSeq(SubSeq(s, i, j), k, m) = SubSeq(s, i + k - 1, i + m - 1)
<1> DEFINE t == SubSeq(s, i, j)
           u == SubSeq(t, k, m)
           v == SubSeq(s, i + k - 1, i + m - 1)
<1>1. Len(s) \in Nat /\ i \in Nat /\ j \in Int /\ k \in Nat /\ m \in Int
  OBVIOUS
<1>2. t \in Seq(A) /\ Len(t) = j - i + 1 /\ \A x \in 1 .. j - i + 1 : t[x] = s[i + x - 1]
  BY Cuts
<1>3. i + k - 1 \in 1 .. Len(s) + 1 /\ i + m - 1 \in (i + k - 1) - 1 .. Len(s)
  BY <1>1
<1> HIDE DEF t
<1>4. k \in 1 .. Len(t) + 1 /\ m \in k - 1 .. Len(t)
  BY <1>1, <1>2
<1>5. u \in Seq(A) /\ Len(u) = m - k + 1 /\ \A x \in 1 .. m - k + 1 : u[x] = t[k + x - 1]
  BY <1>2, <1>4, Cuts
<1>6. v \in Seq(A) /\ Len(v) = (i + m - 1) - (i + k - 1) + 1
      /\ \A x \in 1 .. (i + m - 1) - (i + k - 1) + 1 : v[x] = s[(i + k - 1) + x - 1]
  BY <1>3, Cuts
<1> HIDE DEF u, v
<1>7. Len(v) = Len(u)
  BY <1>1, <1>5, <1>6
<1>8. ASSUME NEW x \in 1 .. Len(u) PROVE u[x] = v[x]
  <2>1. x \in 1 .. m - k + 1 /\ x \in 1 .. (i + m - 1) - (i + k - 1) + 1 /\ k + x - 1 \in 1 .. j - i + 1
        /\ i + (k + x - 1) - 1 = (i + k - 1) + x - 1
    BY <1>1, <1>5
  <2> QED BY <1>2, <1>5, <1>6, <2>1
<1>9. u = v
  BY <1>5, <1>6, <1>7, <1>8, SeqEqual
<1> QED BY <1>9 DEF u, v, t

\* Bytes that are no NUL make a string longer and no argument.
LEMMA Along ==
  ASSUME NEW bytes \in Strings, NEW pos \in Nat, NEW b \in Nat, pos + b <= Len(bytes),
         \A k \in 1 .. b : bytes[pos + k] # Nul
  PROVE  /\ Count(bytes, pos + b) = Count(bytes, pos)
         /\ StringTo(bytes, pos + b + 1) = StringTo(bytes, pos + 1) \o SubSeq(bytes, pos + 1, pos + b)
<1> DEFINE S(k) == StringTo(bytes, pos + k + 1)
           B(k) == SubSeq(bytes, pos + 1, pos + k)
           P == {k \in 0 .. b : Count(bytes, pos + k) = Count(bytes, pos) /\ S(k) = S(0) \o B(k)}
<1>0. Len(bytes) \in Nat /\ bytes \in Seq(Nat) /\ pos + 0 = pos /\ pos + 1 \in 1 .. Len(bytes) + 1
  BY DEF Strings
<1>1. \A k \in 0 .. b : S(k) \in Seq(Nat)
  <2>1. \A k \in 0 .. b : pos + k + 1 \in 1 .. Len(bytes) + 1
    BY <1>0
  <2> QED BY <2>1, StringSteps DEF Strings
<1>2. \A k \in 0 .. b : B(k) \in Seq(Nat)
  <2> SUFFICES ASSUME NEW k \in 0 .. b PROVE B(k) \in Seq(Nat)
    OBVIOUS
  <2>1. pos + k \in (pos + 1) - 1 .. Len(bytes)
    BY <1>0
  <2> QED BY <1>0, <2>1, Cuts
<1>3. 0 \in P
  <2>1. B(0) = <<>>
    <3>1. (pos + 1) - 1 = pos + 0 /\ pos + 0 \in (pos + 1) - 1 .. Len(bytes)
      BY <1>0
    <3> QED BY <1>0, <3>1, Cuts
  <2>2. S(0) \in Seq(Nat) /\ 0 \in 0 .. b
    <3>1. 0 \in 0 .. b
      OBVIOUS
    <3> HIDE DEF S
    <3> QED BY <1>1, <3>1
  <2>3. \A s \in Seq(Nat) : s = s \o <<>>
    OBVIOUS
  <2> HIDE DEF S, B
  <2>4. S(0) = S(0) \o B(0)
    BY <2>1, <2>2, <2>3
  <2> QED BY <1>0, <2>2, <2>4
<1>4. ASSUME NEW m \in 0 .. b - 1, m \in P PROVE m + 1 \in P
  <2>1. /\ pos + m + 1 \in 1 .. Len(bytes) /\ pos + (m + 1) = pos + m + 1 /\ m + 1 \in 0 .. b
        /\ m + 1 \in 1 .. b /\ m \in 0 .. b
        /\ (pos + m + 1) - 1 = pos + m /\ pos + m \in (pos + 1) - 1 .. Len(bytes) /\ pos + m < Len(bytes)
    BY <1>0
  <2>2. bytes[pos + m + 1] # Nul
    BY <2>1
  <2>3. Count(bytes, pos + (m + 1)) = Count(bytes, pos + m)
    BY <2>1, <2>2, CountSteps
  <2>4. S(m + 1) = Append(S(m), bytes[pos + m + 1])
    BY <2>1, <2>2, StringSteps
  <2>5. B(m + 1) = Append(B(m), bytes[pos + m + 1])
    BY <1>0, <2>1, Cuts
  <2>6. S(m) = S(0) \o B(m) /\ Count(bytes, pos + m) = Count(bytes, pos)
    BY <1>4
  <2>7. S(0) \in Seq(Nat) /\ B(m) \in Seq(Nat) /\ bytes[pos + m + 1] \in Nat
    <3>1. 0 \in 0 .. b
      OBVIOUS
    <3>2. bytes[pos + m + 1] \in Nat
      BY <1>0, <2>1
    <3> HIDE DEF S, B
    <3> QED BY <1>1, <1>2, <2>1, <3>1, <3>2
  <2> HIDE DEF S, B
  <2>8. Append(S(0) \o B(m), bytes[pos + m + 1]) = S(0) \o Append(B(m), bytes[pos + m + 1])
    BY <2>7, AppendJoined, Zenon
  <2>9. S(m + 1) = S(0) \o B(m + 1)
    BY <2>4, <2>5, <2>6, <2>8
  <2> QED BY <2>1, <2>3, <2>6, <2>9
<1>5. P \in SUBSET (0 .. b)
  OBVIOUS
<1>6. P = 0 .. b
  <2> HIDE DEF P
  <2> QED BY <1>3, <1>4, <1>5, Upwards
<1>7. b \in P
  <2> HIDE DEF P
  <2> QED BY <1>6
<1> QED BY <1>0, <1>7

LEMMA Places ==
  ASSUME NEW pos \in Int, NEW b \in Nat, NEW off \in Int, pos + b <= off
  PROVE  /\ 1 \in 1 .. off - (pos + 1) + 2 /\ b \in 1 - 1 .. off - (pos + 1) + 1
         /\ (pos + 1) + 1 - 1 = pos + 1 /\ (pos + 1) + b - 1 = pos + b
         /\ (pos + 1) + (b + 2) - 1 = pos + b + 2 /\ (pos + 1) + (off - pos) - 1 = off
         /\ pos + b < off => /\ b + 2 \in 1 .. off - (pos + 1) + 2
                            /\ off - pos \in (b + 2) - 1 .. off - (pos + 1) + 1
  OBVIOUS

LEMMA CutAway ==
  ASSUME NEW s \in Seq(Nat), NEW pos \in Nat, NEW off \in Nat, off <= Len(s), NEW b \in Nat, pos + b <= off,
         NEW buf, buf = SubSeq(s, pos + 1, off)
  PROVE  /\ SubSeq(buf, 1, b) = SubSeq(s, pos + 1, pos + b)
         /\ pos + b < off => SubSeq(buf, b + 2, off - pos) = SubSeq(s, pos + b + 2, off)
<1>1. Len(s) \in Nat /\ pos + 1 \in 1 .. Len(s) + 1 /\ off \in (pos + 1) - 1 .. Len(s)
  OBVIOUS
<1>2. /\ 1 \in 1 .. off - (pos + 1) + 2 /\ b \in 1 - 1 .. off - (pos + 1) + 1
      /\ (pos + 1) + 1 - 1 = pos + 1 /\ (pos + 1) + b - 1 = pos + b
      /\ (pos + 1) + (b + 2) - 1 = pos + b + 2 /\ (pos + 1) + (off - pos) - 1 = off
      /\ pos + b < off => /\ b + 2 \in 1 .. off - (pos + 1) + 2
                         /\ off - pos \in (b + 2) - 1 .. off - (pos + 1) + 1
  BY Places
<1>4. SubSeq(SubSeq(s, pos + 1, off), 1, b) = SubSeq(s, (pos + 1) + 1 - 1, (pos + 1) + b - 1)
  BY <1>1, <1>2, CutAgain
<1>5. pos + b < off => SubSeq(SubSeq(s, pos + 1, off), b + 2, off - pos) =
                         SubSeq(s, (pos + 1) + (b + 2) - 1, (pos + 1) + (off - pos) - 1)
  BY <1>1, <1>2, CutAgain
<1>6. SubSeq(s, (pos + 1) + (b + 2) - 1, (pos + 1) + (off - pos) - 1) = SubSeq(s, pos + b + 2, off)
  BY <1>2, Zenon
<1>7. SubSeq(s, (pos + 1) + 1 - 1, (pos + 1) + b - 1) = SubSeq(s, pos + 1, pos + b)
  BY <1>2, Zenon
<1> QED BY <1>4, <1>5, <1>6, <1>7, Zenon

\* The buffer is a window on the list.
Window(buf, bytes, pos, off) == buf = SubSeq(bytes, pos + 1, off)

LEMMA WindowFacts ==
  ASSUME NEW s \in Seq(Nat), NEW pos \in Nat, NEW off \in Nat, off <= Len(s), pos <= off,
         NEW buf, Window(buf, s, pos, off)
  PROVE  /\ buf \in Seq(Nat) /\ Len(buf) = off - pos
         /\ \A k \in 1 .. off - pos : buf[k] = s[pos + k]
         /\ \A b \in Nat : pos + b <= off =>
              /\ SubSeq(buf, 1, b) = SubSeq(s, pos + 1, pos + b)
              /\ pos + b < off => Window(SubSeq(buf, b + 2, Len(buf)), s, pos + b + 1, off)
<1>1. buf = SubSeq(s, pos + 1, off)
  BY DEF Window
<1>0. pos + 1 \in 1 .. Len(s) + 1 /\ off \in (pos + 1) - 1 .. Len(s)
  OBVIOUS
<1>2. off - (pos + 1) + 1 = off - pos /\ \A k \in Int : (pos + 1) + k - 1 = pos + k
  OBVIOUS
<1>3. /\ buf \in Seq(Nat) /\ Len(buf) = off - (pos + 1) + 1
      /\ \A k \in 1 .. off - (pos + 1) + 1 : buf[k] = s[(pos + 1) + k - 1]
  BY <1>0, <1>1, Cuts
<1>4. \A k \in 1 .. off - pos : buf[k] = s[pos + k]
  <2> SUFFICES ASSUME NEW k \in 1 .. off - pos PROVE buf[k] = s[pos + k]
    OBVIOUS
  <2>1. k \in Int
    OBVIOUS
  <2> QED BY <1>2, <1>3, <2>1
<1>5. ASSUME NEW b \in Nat, pos + b <= off
      PROVE  /\ SubSeq(buf, 1, b) = SubSeq(s, pos + 1, pos + b)
             /\ pos + b < off => Window(SubSeq(buf, b + 2, Len(buf)), s, pos + b + 1, off)
  <2>1. SubSeq(buf, 1, b) = SubSeq(s, pos + 1, pos + b)
    BY <1>1, <1>5, CutAway
  <2>2. ASSUME pos + b < off PROVE Window(SubSeq(buf, b + 2, Len(buf)), s, pos + b + 1, off)
    <3>1. SubSeq(buf, b + 2, off - pos) = SubSeq(s, pos + b + 2, off)
      BY <1>1, <1>5, <2>2, CutAway
    <3>2. (pos + b + 1) + 1 = pos + b + 2
      OBVIOUS
    <3>3. Len(buf) = off - pos
      BY <1>2, <1>3
    <3> QED BY <3>1, <3>2, <3>3, Zenon DEF Window
  <2> QED BY <2>1, <2>2
<1> QED BY <1>2, <1>3, <1>4, <1>5

LEMMA Inside ==
  ASSUME NEW n \in Nat, NEW pos \in Nat, NEW off \in Nat, pos <= off, off <= n, NEW b \in 0 .. off - pos
  PROVE  /\ b \in Nat /\ pos + b <= off /\ pos + b <= n
         /\ b # off - pos =>
              /\ pos + b < off /\ pos + b + 1 \in 1 .. off /\ pos + b + 1 \in 1 .. n /\ b + 1 \in 1 .. off - pos
              /\ (pos + b + 1) - 1 = pos + b /\ (pos + b + 1) + 1 = pos + b + 2
              /\ pos + (b + 1) = pos + b + 1
  OBVIOUS

\* What the next string of the buffer, or what there is of it, adds.
ScansTo(bytes, off, pos, buf, b, arg) ==
  /\ buf \in Strings /\ Len(buf) = off - pos /\ b \in 0 .. Len(buf) /\ arg \in Strings
  /\ b = Len(buf) => arg = StringTo(bytes, off + 1) /\ Count(bytes, off) = Count(bytes, pos)
  /\ b # Len(buf) =>
       /\ pos + b + 1 \in 1 .. off
       /\ Window(SubSeq(buf, b + 2, Len(buf)), bytes, pos + b + 1, off)
       /\ StringTo(bytes, pos + b + 2) = <<>>
       /\ IF TooLong(arg) THEN Count(bytes, pos + b + 1) = Count(bytes, pos)
          ELSE /\ Count(bytes, pos + b + 1) = Count(bytes, pos) + 1
               /\ Wanted(bytes)[Count(bytes, pos) + 1] = arg

LEMMA ScanTo ==
  ASSUME NEW bytes \in Strings, NEW off \in 0 .. Len(bytes), NEW pos \in 0 .. off,
         NEW buf, Window(buf, bytes, pos, off), NEW b, b = Block(buf),
         NEW arg, arg = StringTo(bytes, pos + 1) \o SubSeq(buf, 1, b)
  PROVE  ScansTo(bytes, off, pos, buf, b, arg)
<1> USE DEF ScansTo
<1>0. Len(bytes) \in Nat /\ bytes \in Seq(Nat) /\ pos \in Nat /\ off \in Nat /\ pos <= off /\ off <= Len(bytes)
  BY DEF Strings
<1>1. /\ buf \in Seq(Nat) /\ Len(buf) = off - pos
      /\ \A k \in 1 .. off - pos : buf[k] = bytes[pos + k]
      /\ \A x \in Nat : pos + x <= off =>
           /\ SubSeq(buf, 1, x) = SubSeq(bytes, pos + 1, pos + x)
           /\ pos + x < off => Window(SubSeq(buf, x + 2, Len(buf)), bytes, pos + x + 1, off)
  BY <1>0, WindowFacts
<1>11. buf \in Seq(Nat) /\ Len(buf) = off - pos
  BY <1>1, Zenon
<1>2. b \in 0 .. Len(buf) /\ (\A k \in 1 .. b : buf[k] # Nul) /\ (b < Len(buf) => buf[b + 1] = Nul)
  BY <1>11, BlockFacts DEF Strings
<1>3. b \in Nat /\ pos + b <= off /\ pos + b <= Len(bytes)
  <2>1. b \in 0 .. off - pos
    BY <1>11, <1>2
  <2> QED BY <1>0, <2>1, Inside
<1>10. off \in Int /\ pos \in Int /\ b \in Int /\ 0 <= pos /\ 0 <= b /\ pos + b <= off /\ off <= Len(bytes)
       /\ Len(bytes) \in Int /\ (b # Len(buf) => pos + b < off)
  BY <1>0, <1>11, <1>3
<1>4. \A k \in 1 .. b : bytes[pos + k] # Nul
  <2> SUFFICES ASSUME NEW k \in 1 .. b PROVE bytes[pos + k] # Nul
    OBVIOUS
  <2>1. k \in 1 .. off - pos
    BY <1>0, <1>3
  <2> QED BY <1>1, <1>2, <2>1
<1>5. /\ SubSeq(buf, 1, b) = SubSeq(bytes, pos + 1, pos + b)
      /\ pos + b < off => Window(SubSeq(buf, b + 2, Len(buf)), bytes, pos + b + 1, off)
  BY <1>1, <1>3, Zenon
<1>6. Count(bytes, pos + b) = Count(bytes, pos) /\ arg = StringTo(bytes, pos + b + 1)
  <2>1. /\ Count(bytes, pos + b) = Count(bytes, pos)
        /\ StringTo(bytes, pos + b + 1) = StringTo(bytes, pos + 1) \o SubSeq(bytes, pos + 1, pos + b)
    BY <1>0, <1>3, <1>4, Along, Zenon
  <2> QED BY <1>5, <2>1, Zenon
<1>7. arg \in Strings
  <2>1. pos + b + 1 \in 1 .. Len(bytes) + 1
    BY <1>10
  <2> QED BY <1>6, <2>1, StringSteps
<1>8. CASE b = Len(buf)
  <2>1. pos + b = off
    BY <1>0, <1>1, <1>8
  <2> QED BY <1>1, <1>2, <1>6, <1>7, <1>8, <2>1 DEF Strings
<1>9. CASE b # Len(buf)
  <2>1. /\ pos + b + 1 \in 1 .. off /\ pos + b + 1 \in 1 .. Len(bytes) /\ b + 1 \in 1 .. off - pos
        /\ (pos + b + 1) - 1 = pos + b /\ (pos + b + 1) + 1 = pos + b + 2 /\ pos + (b + 1) = pos + b + 1
    <3>1. b \in 0 .. off - pos /\ b # off - pos
      BY <1>11, <1>2, <1>9
    <3>2. Len(bytes) \in Nat /\ pos \in Nat /\ off \in Nat /\ pos <= off /\ off <= Len(bytes)
      BY <1>0
    <3> HIDE <1>9
    <3> QED BY <3>1, <3>2, Inside, SMTT(60)
  <2>0. b < Len(buf)
    BY <1>11, <1>2, <1>9
  <2>2. bytes[pos + b + 1] = Nul
    <3>1. buf[b + 1] = Nul
      BY <1>2, <2>0
    <3> QED BY <1>1, <2>1, <3>1
  <2>3. StringTo(bytes, pos + b + 2) = <<>>
    BY <2>1, <2>2, StringSteps
  <2>4. Count(bytes, pos + b + 1) = IF TooLong(arg) THEN Count(bytes, pos) ELSE Count(bytes, pos) + 1
    <3>1. Count(bytes, pos + b + 1) = IF TooLong(arg) THEN Count(bytes, pos + b) ELSE Count(bytes, pos + b) + 1
      BY <1>6, <2>1, <2>2, CountSteps
    <3> QED BY <1>6, <3>1
  <2>5. ~TooLong(arg) => Wanted(bytes)[Count(bytes, pos) + 1] = arg
    BY <1>6, <2>1, <2>2, <2>4, WantedCounts
  <2>6. Window(SubSeq(buf, b + 2, Len(buf)), bytes, pos + b + 1, off)
    <3>1. pos + b < off
      BY <1>9, <1>10
    <3> QED BY <1>5, <3>1, Zenon
  <2>7. IF TooLong(arg) THEN Count(bytes, pos + b + 1) = Count(bytes, pos)
        ELSE /\ Count(bytes, pos + b + 1) = Count(bytes, pos) + 1
             /\ Wanted(bytes)[Count(bytes, pos) + 1] = arg
    BY <2>4, <2>5
  <2> HIDE DEF Strings
  <2> QED BY <1>1, <1>2, <1>7, <1>9, <2>1, <2>3, <2>6, <2>7 DEF Strings
<1> QED BY <1>8, <1>9

-----------------------------------------------------------------------------
(* Sizes. *)

\* What the kernel counts, and what get_argv_fullsize() does.
RawSize(first, argv)  == Total(first, [i \in DOMAIN argv |-> Len(argv[i]) + 1 + Ptr])
WordSize(first, argv) == Total(first, [i \in DOMAIN argv |-> RoundUp(Len(argv[i]) + 1) + Ptr])

LEMMA SizesOf ==
  ASSUME NEW l, l.mem = "whole"
  PROVE  /\ FullSize(l) = WordSize(given.initSize, l.argv)
         /\ Fits(l) <=> RawSize(given.initSize, l.argv) <= SizeArgs + Padding * Ptr
         /\ CountOf(l) = given.initCount + Len(l.argv)
  BY Zenon DEF FullSize, WordSize, Fits, RawSize, Common, CountOf

LEMMA PtrIsPositive == Ptr \in Nat \ {0} /\ SizeArgs \in Nat \ {0} /\ ArgBuf \in Nat \ {0}
                       /\ MaxProcs \in Nat \ {0} /\ Padding \in Nat /\ ReadBuf \in Nat \ {0}
  BY SizeAssumption

LEMMA RoundUpHolds == ASSUME NEW n \in Nat PROVE RoundUp(n) \in Nat /\ n <= RoundUp(n)
<1>1. (-n) % Ptr \in 0 .. Ptr - 1
  BY PtrIsPositive
<1> QED BY <1>1 DEF RoundUp

LEMMA RawSteps ==
  ASSUME NEW first \in Int, NEW argv \in Argvs
  PROVE  /\ RawSize(first, <<>>) = first /\ RawSize(first, argv) \in Int
         /\ \A arg \in Strings : RawSize(first, Append(argv, arg)) = RawSize(first, argv) + Len(arg) + 1 + Ptr
<1> DEFINE C(a) == [i \in DOMAIN a |-> Len(a[i]) + 1 + Ptr]
<1>1. C(argv) \in Seq(Int)
  BY PtrIsPositive DEF Argvs, Strings
<1>2. C(<<>>) = <<>>
  OBVIOUS
<1>3. RawSize(first, argv) \in Int
  <2> HIDE DEF C
  <2>1. RawSize(first, argv) = Total(first, C(argv))
    BY DEF RawSize, C
  <2> QED BY <1>1, <2>1, TotalAppend
<1>4. ASSUME NEW arg \in Strings
      PROVE  RawSize(first, Append(argv, arg)) = RawSize(first, argv) + Len(arg) + 1 + Ptr
  <2>1. C(Append(argv, arg)) = Append(C(argv), Len(arg) + 1 + Ptr)
    BY PtrIsPositive DEF Argvs, Strings
  <2>2. Len(arg) + 1 + Ptr \in Int /\ Len(arg) \in Nat
    BY PtrIsPositive DEF Strings
  <2> HIDE DEF C
  <2>3. /\ RawSize(first, argv) = Total(first, C(argv))
        /\ RawSize(first, Append(argv, arg)) = Total(first, C(Append(argv, arg)))
    BY DEF RawSize, C
  <2>4. /\ Total(first, Append(C(argv), Len(arg) + 1 + Ptr)) = Total(first, C(argv)) + (Len(arg) + 1 + Ptr)
        /\ Total(first, C(argv)) \in Int
    BY <1>1, <2>2, TotalAppend
  <2> QED BY <2>1, <2>2, <2>3, <2>4, PtrIsPositive
<1>5. RawSize(first, <<>>) = first
  <2> HIDE DEF C
  <2>1. RawSize(first, <<>>) = Total(first, C(<<>>))
    BY DEF RawSize, C
  <2> QED BY <1>2, <2>1, TotalEmpty
<1> QED BY <1>3, <1>4, <1>5

LEMMA WordSteps ==
  ASSUME NEW first \in Int, NEW argv \in Argvs
  PROVE  /\ WordSize(first, <<>>) = first /\ WordSize(first, argv) \in Int
         /\ \A arg \in Strings : WordSize(first, Append(argv, arg)) >= WordSize(first, argv) + Len(arg) + 1 + Ptr
<1> DEFINE C(a) == [i \in DOMAIN a |-> RoundUp(Len(a[i]) + 1) + Ptr]
<1>0. \A s \in Strings : RoundUp(Len(s) + 1) \in Nat /\ Len(s) + 1 <= RoundUp(Len(s) + 1) /\ Len(s) \in Nat
  BY RoundUpHolds DEF Strings
<1>1. C(argv) \in Seq(Int)
  <2>1. Len(argv) \in Nat /\ DOMAIN argv = 1 .. Len(argv) /\ \A i \in 1 .. Len(argv) : argv[i] \in Strings
    BY DEF Argvs
  <2>2. \A i \in 1 .. Len(argv) : RoundUp(Len(argv[i]) + 1) + Ptr \in Int
    BY <1>0, <2>1, PtrIsPositive
  <2>3. C(argv) = [i \in 1 .. Len(argv) |-> RoundUp(Len(argv[i]) + 1) + Ptr]
    BY <2>1, Zenon
  <2> QED BY <2>1, <2>2, <2>3
<1>2. C(<<>>) = <<>>
  OBVIOUS
<1>3. WordSize(first, argv) \in Int
  <2> HIDE DEF C
  <2>1. WordSize(first, argv) = Total(first, C(argv))
    BY DEF WordSize, C
  <2> QED BY <1>1, <2>1, TotalAppend
<1>4. ASSUME NEW arg \in Strings
      PROVE  WordSize(first, Append(argv, arg)) >= WordSize(first, argv) + Len(arg) + 1 + Ptr
  <2> DEFINE c == RoundUp(Len(arg) + 1) + Ptr
  <2>1. C(Append(argv, arg)) = Append(C(argv), c)
    BY <1>0, PtrIsPositive DEF Argvs
  <2>2. c \in Int /\ Len(arg) + 1 + Ptr <= c /\ Len(arg) \in Nat
    BY <1>0, PtrIsPositive
  <2> HIDE DEF C, c
  <2>3. /\ WordSize(first, argv) = Total(first, C(argv))
        /\ WordSize(first, Append(argv, arg)) = Total(first, C(Append(argv, arg)))
    BY DEF WordSize, C
  <2>4. Total(first, Append(C(argv), c)) = Total(first, C(argv)) + c /\ Total(first, C(argv)) \in Int
    BY <1>1, <2>2, TotalAppend
  <2> QED BY <2>1, <2>2, <2>3, <2>4, PtrIsPositive
<1>5. WordSize(first, <<>>) = first
  <2> HIDE DEF C
  <2>1. WordSize(first, <<>>) = Total(first, C(<<>>))
    BY DEF WordSize, C
  <2> QED BY <1>2, <2>1, TotalEmpty
<1> QED BY <1>3, <1>4, <1>5

-----------------------------------------------------------------------------
(* The invariant. *)

Pcs == {"open", "fill", "scan", "fork", "reap", "wait", "close", "last", "out", "exec", "again"}

Local ==
  [kind : {"xvp"}, pc : Pcs, parent : {0, Top}, child : 0 .. MaxProcs, err : Int,
   buf : Strings, arg : Strings, pend : BOOLEAN, argv : Argvs, mem : {"whole"}]

Process ==
  {Unborn} \cup Local \cup [kind : {"program"}, parent : {0, Top}, mem : {"whole"}]
  \cup [kind : {"zombie"}, parent : {0, Top}, ending : Int] \cup [kind : {"gone"}, ending : Int]

Typed ==
  /\ given \in Cases /\ offset \in 0 .. Len(given.list) /\ listed \in BOOLEAN
  /\ proc \in [Pids -> Process] /\ ran \in [Pids -> Argvs] /\ stray \in SUBSET Pids

\* Whatever argument is short enough, a batch has room for it.
RoomyCase(g) == g.initSize + ArgBuf <= SizeArgs
Roomy == RoomyCase(given)

\* What has no NUL behind it is not counted; the padding makes up for it.
TidyCase(g) ==
  /\ "read" \notin g.faults /\ Padding >= 1
  /\ Rest(g.list) = <<>> \/ Len(Rest(g.list)) <= (Padding - 2) * Ptr
Tidy == TidyCase(given)

\* Nothing fails.
CalmCase(g) ==
  g.faults = {} /\ ~g.strict /\ ~g.forceOnce /\ TidyCase(g) /\ Len(g.list) < MaxProcs

Others == Pids \ {Top}

\* The first n processes are born; the batch of the q-th one ends at cut[q].
Batch(g, cut, q) == SubSeq(Wanted(g.list), cut[q - 1] + 1, cut[q])

ChildOf(g, n, cut, q, r, t) ==
  /\ r.kind = "unborn" <=> q > n
  /\ q <= n => cut[q - 1] < cut[q] /\ cut[q] <= Len(Wanted(g.list)) /\ t \in {<<>>, Batch(g, cut, q)}
  /\ r.kind \in {"xvp", "program", "zombie"} => r.parent = Top
  /\ r.kind = "xvp" =>
       /\ r.pc \in {"exec", "again"} /\ (r.pc = "again" => g.noWait)
       /\ r.argv = Batch(g, cut, q) /\ RawSize(g.initSize, r.argv) <= SizeArgs - 1 + Ptr
  /\ r.kind \in {"unborn", "xvp"} => t = <<>>
  /\ CalmCase(g) /\ r.kind \notin {"unborn", "xvp"} => t = Batch(g, cut, q)

Children(n, cut) == \A q \in Others : ChildOf(given, n, cut, q, proc[q], ran[q])

\* What the argument held back counts.
Held(m) == IF m.pend THEN 1 ELSE 0

Sized(g, argv) ==
  /\ RawSize(g.initSize, argv) <= WordSize(g.initSize, argv)
  /\ RawSize(g.initSize, argv) <= SizeArgs - 1 + Ptr

\* In the loop, where the list has been worked through up to pos.
Reading(g, off, last, m, pos) ==
  /\ Len(m.buf) <= off /\ pos = off - Len(m.buf) /\ Window(m.buf, g.list, pos, off)
  /\ IF m.pend
     THEN /\ StringTo(g.list, pos + 1) = <<>> /\ ~TooLong(m.arg)
          /\ Count(g.list, pos) >= 1 /\ Wanted(g.list)[Count(g.list, pos)] = m.arg
     ELSE m.arg = StringTo(g.list, pos + 1)
  /\ last <= Count(g.list, pos) - Held(m)
  /\ m.pc \in {"open", "fill", "scan", "fork"} =>
       m.argv = SubSeq(Wanted(g.list), last + 1, Count(g.list, pos) - Held(m)) /\ Sized(g, m.argv)
  /\ m.pc \in {"reap", "wait"} => last = Count(g.list, pos) - Held(m)
  /\ m.pc = "open" => m.buf = <<>> /\ ~m.pend /\ m.argv = <<>>
  /\ m.pc = "fill" /\ m.pend => m.argv = <<>>
  /\ m.pc = "scan" => m.buf # <<>> /\ ~m.pend
  /\ m.pc = "fork" => m.argv # <<>>

\* The batch of xvp itself is what is left, or what is left of it.
LastBatch(g, off, last, argv) ==
  LET whole == SubSeq(Wanted(g.list), last + 1, Count(g.list, off))
  IN  \/ off = Len(g.list) /\ argv = SubSeq(Wanted(g.list), last + 1, Len(Wanted(g.list)))
      \/ /\ "read" \in g.faults /\ off < Len(g.list) /\ last <= Count(g.list, off)
         /\ argv = whole \/ argv = Append(whole, StringTo(g.list, off + 1))

Looping == {"open", "fill", "scan", "fork", "reap", "wait"}
Leaving == {"close", "last", "again"}

MainOf(g, off, isListed, n, last, m, t) ==
  /\ m.kind \in {"xvp", "program", "zombie"} /\ m.parent = 0
  /\ g.forceOnce => n = Top
  /\ m.kind = "xvp" =>
       /\ m.pc \in Looping \cup Leaving \cup {"out"} /\ t = <<>>
       /\ m.pc \in {"reap", "wait"} => m.child = n /\ n # Top
       /\ m.pc = "wait" => ~g.noWait
       /\ m.pc = "again" => g.noWait /\ m.argv # <<>>
       /\ m.pc \in Looping => \E pos \in 0 .. off : Reading(g, off, last, m, pos)
       /\ m.pc \in Leaving =>
            /\ LastBatch(g, off, last, m.argv)
            /\ TidyCase(g) => RawSize(g.initSize, m.argv) <= SizeArgs + Padding * Ptr
       /\ g.unlink /\ isListed => m.pc \notin {"last", "again"}
       /\ m.pc = "out" => ~CalmCase(g) /\ (g.forceOnce => m.err # 0)
  /\ m.kind = "program" => t # <<>> /\ ~(g.unlink /\ isListed)
  /\ m.kind = "zombie" =>
       /\ g.unlink /\ isListed => m.ending \in {EACCES, ENOMEM}
       /\ g.forceOnce /\ t = <<>> /\ "read" \notin g.faults => m.ending # 0 \/ Wanted(g.list) = <<>>
  /\ m.kind # "xvp" =>
       /\ t # <<>> => LastBatch(g, off, last, t)
       /\ CalmCase(g) => off = Len(g.list) /\ t = SubSeq(Wanted(g.list), last + 1, Len(Wanted(g.list)))

Main(n, cut) == MainOf(given, offset, listed, n, cut[n], proc[Top], ran[Top])

At(pcs) == proc[Top].kind = "xvp" /\ proc[Top].pc \in pcs

\* Without -n the only child at work is the one that is waited for.
Turns(n) ==
  ~given.noWait => \A q \in Others :
    proc[q].kind \in {"xvp", "program"} => At({"reap", "wait"}) /\ q = n

\* A child that has failed is the last one, and nothing is started after it.
HasFailed(q) == proc[q].kind \in {"zombie", "gone"} /\ proc[q].ending # 0 /\ q \notin stray

Stopped(n) ==
  given.strict => \A q \in Others : HasFailed(q) =>
    /\ q = n
    /\ \/ At({"reap", "wait"}) /\ proc[q].kind = "zombie"
       \/ At({"out"})
       \/ proc[Top].kind = "zombie" /\ ran[Top] = <<>>

Holds(n, cut) ==
  /\ cut[1] = 0 /\ n <= cut[n] + 1 /\ cut[n] <= Len(Wanted(given.list))
  /\ Children(n, cut) /\ Main(n, cut) /\ Turns(n) /\ Stopped(n)

\* Until a block that was refused is taken for granted.
Inv == Roomy /\ lack = "no" => Typed /\ \E n \in Pids, cut \in [Pids -> Nat] : Holds(n, cut)

-----------------------------------------------------------------------------
(* Processes. *)

LEMMA Kinds ==
  /\ \A r \in Process :
       /\ r.kind \in {"unborn", "xvp", "program", "zombie", "gone"}
       /\ r.kind = "xvp" <=> r \in Local
       /\ r.kind \in {"zombie", "gone"} => r.ending \in Int
       /\ r.kind \in {"xvp", "program", "zombie"} => r.parent \in {0, Top}
  /\ \A r \in Local : r \in Process
  /\ Unborn \in Process /\ Unborn.kind = "unborn"
  /\ \A parent \in {0, Top} :
       /\ \A l \in Local : l.parent = parent =>
            Program(l) \in Process /\ Program(l).kind = "program" /\ Program(l).parent = parent
       /\ \A e \in Int :
            /\ Zombie(parent, e) \in Process /\ Zombie(parent, e).kind = "zombie"
            /\ Zombie(parent, e).parent = parent /\ Zombie(parent, e).ending = e
  /\ \A e \in Int : [kind |-> "gone", ending |-> e] \in Process
<1>1. ASSUME NEW r \in Process
      PROVE  /\ r.kind \in {"unborn", "xvp", "program", "zombie", "gone"}
             /\ r.kind = "xvp" <=> r \in Local
             /\ r.kind \in {"zombie", "gone"} => r.ending \in Int
             /\ r.kind \in {"xvp", "program", "zombie"} => r.parent \in {0, Top}
  <2>1. CASE r = Unborn
    BY <2>1 DEF Unborn, Local
  <2>2. CASE r \in Local
    BY <2>2 DEF Local
  <2>3. CASE r \in [kind : {"program"}, parent : {0, Top}, mem : {"whole"}]
    BY <2>3 DEF Local
  <2>4. CASE r \in [kind : {"zombie"}, parent : {0, Top}, ending : Int]
    BY <2>4 DEF Local
  <2>5. CASE r \in [kind : {"gone"}, ending : Int]
    BY <2>5 DEF Local
  <2> QED BY <2>1, <2>2, <2>3, <2>4, <2>5 DEF Process
<1>2. /\ \A r \in Local : r \in Process
      /\ Unborn \in Process
  BY DEF Process
<1>3. Unborn.kind = "unborn"
  BY DEF Unborn
<1>4. ASSUME NEW parent \in {0, Top}
      PROVE  \A l \in Local : l.parent = parent =>
               Program(l) \in Process /\ Program(l).kind = "program" /\ Program(l).parent = parent
  BY DEF Program, Process, Local
<1>5. ASSUME NEW parent \in {0, Top}, NEW e \in Int
      PROVE  /\ Zombie(parent, e) \in Process /\ Zombie(parent, e).kind = "zombie"
             /\ Zombie(parent, e).parent = parent /\ Zombie(parent, e).ending = e
  BY DEF Zombie, Process
<1>6. \A e \in Int : [kind |-> "gone", ending |-> e] \in Process
  BY DEF Process
<1> QED BY <1>1, <1>2, <1>3, <1>4, <1>5, <1>6

LEMMA PidFacts == Top \in Pids /\ Pids \subseteq Nat /\ (\A p \in Pids : p = Top \/ p \in Others)
                  /\ Others \subseteq Pids /\ Top \notin Others /\ 0 \notin Others
  BY PtrIsPositive DEF Pids, Top, Others

\* Everyone's parent is xvp.
LEMMA Family ==
  ASSUME Typed, NEW n \in Pids, NEW cut, Holds(n, cut)
  PROVE  /\ \A q : q \in ChildrenOf(Top) <=> q \in Others /\ proc[q].kind \in {"xvp", "program", "zombie"}
         /\ \A q : q \in ZombiesOf(Top) <=> q \in Others /\ proc[q].kind = "zombie"
         /\ \A p \in Others : ChildrenOf(p) = {} /\ ZombiesOf(p) = {}
<1>1. \A q \in Others : proc[q].kind \in {"xvp", "program", "zombie"} => proc[q].parent = Top
  BY DEF Holds, Children, ChildOf
<1>2. proc[Top].parent = 0
  BY DEF Holds, Main, MainOf
<1>3. \A q : q \in ChildrenOf(Top) <=> q \in Others /\ proc[q].kind \in {"xvp", "program", "zombie"}
  <2>1. \A q : q \in ChildrenOf(Top) <=>
          q \in Pids /\ proc[q].kind \in {"xvp", "program", "zombie"} /\ proc[q].parent = Top
    BY DEF ChildrenOf
  <2>2. proc[Top].parent # Top
    BY <1>2 DEF Top
  <2> QED BY <1>1, <2>1, <2>2, PidFacts
<1>4. \A q : q \in ZombiesOf(Top) <=> q \in Others /\ proc[q].kind = "zombie"
  BY <1>3 DEF ZombiesOf
<1>5. ASSUME NEW p \in Others PROVE ChildrenOf(p) = {} /\ ZombiesOf(p) = {}
  <2>1. ChildrenOf(p) = {}
    BY <1>1, <1>2, PidFacts DEF ChildrenOf
  <2> QED BY <2>1 DEF ZombiesOf
<1> QED BY <1>3, <1>4, <1>5

Reaped(q) == proc[q].kind = "zombie" /\ proc'[q] = [kind |-> "gone", ending |-> proc[q].ending]

LEMMA ReapedFacts ==
  ASSUME NEW q, Reaped(q)
  PROVE  proc[q].kind = "zombie" /\ proc'[q].kind = "gone" /\ proc'[q].ending = proc[q].ending
  BY DEF Reaped

\* A step of xvp, which may reap children.
LEMMA MainMoves ==
  ASSUME Typed, NEW n \in Pids, NEW cut \in [Pids -> Nat], Holds(n, cut), given' = given,
         \A q \in Others : ran'[q] = ran[q] /\ (proc'[q] = proc[q] \/ Reaped(q)),
         stray \subseteq stray',
         MainOf(given, offset', listed', n, cut[n], proc'[Top], ran'[Top]),
         ~given.noWait /\ At({"reap", "wait"}) =>
           At({"reap", "wait"})' \/ n = Top \/ proc'[n].kind \notin {"xvp", "program"},
         given.strict /\ n \in Others /\ HasFailed(n) /\ HasFailed(n)' =>
           \/ At({"reap", "wait"})' /\ proc'[n].kind = "zombie"
           \/ At({"out"})'
           \/ proc'[Top].kind = "zombie" /\ ran'[Top] = <<>>
  PROVE  Holds(n, cut)'
<1> USE DEF Holds
<1>1. Children(n, cut)'
  <2> SUFFICES ASSUME NEW q \in Others PROVE ChildOf(given, n, cut, q, proc'[q], ran'[q])
    BY DEF Children
  <2>1. ChildOf(given, n, cut, q, proc[q], ran[q]) /\ ran'[q] = ran[q]
    BY DEF Children
  <2>2. CASE proc'[q] = proc[q]
    BY <2>1, <2>2
  <2>3. CASE Reaped(q)
    BY <2>1, <2>3, ReapedFacts DEF ChildOf
  <2> QED BY <2>2, <2>3
<1>2. Main(n, cut)'
  BY DEF Main
<1>3. Turns(n)'
  <2> SUFFICES ASSUME ~given.noWait, NEW q \in Others, proc'[q].kind \in {"xvp", "program"}
               PROVE  At({"reap", "wait"})' /\ q = n
    BY DEF Turns
  <2>1. proc'[q] = proc[q]
    BY ReapedFacts
  <2>2. At({"reap", "wait"}) /\ q = n
    BY <2>1 DEF Turns
  <2> QED BY <2>2, PidFacts
<1>4. Stopped(n)'
  <2> SUFFICES ASSUME given.strict, NEW q \in Others, HasFailed(q)'
               PROVE  /\ q = n
                      /\ \/ At({"reap", "wait"})' /\ proc'[q].kind = "zombie"
                         \/ At({"out"})'
                         \/ proc'[Top].kind = "zombie" /\ ran'[Top] = <<>>
    BY DEF Stopped
  <2>1. HasFailed(q)
    BY ReapedFacts DEF HasFailed
  <2>2. q = n
    BY <2>1 DEF Stopped
  <2> QED BY <2>1, <2>2
<1>5. (Wanted(given.list))' = Wanted(given.list)
  OBVIOUS
<1> QED BY <1>1, <1>2, <1>3, <1>4, <1>5

\* A step of a child.
LEMMA ChildMoves ==
  ASSUME Typed, NEW n \in Pids, NEW cut \in [Pids -> Nat], Holds(n, cut),
         UNCHANGED <<given, offset, listed, stray>>, NEW p \in Others,
         \A q \in Pids \ {p} : ran'[q] = ran[q] /\ proc'[q] = proc[q],
         ChildOf(given, n, cut, p, proc'[p], ran'[p]), proc[p].kind \in {"xvp", "program"},
         proc'[p].kind \in {"xvp", "program", "zombie"}
  PROVE  Holds(n, cut)'
<1> USE DEF Holds
<1>1. Children(n, cut)'
  BY PidFacts DEF Children
<1>2. proc'[Top] = proc[Top] /\ ran'[Top] = ran[Top]
  BY PidFacts
<1>3. Main(n, cut)'
  BY <1>2 DEF Main
<1>4. At({"reap", "wait"})' = At({"reap", "wait"}) /\ At({"out"})' = At({"out"})
  BY <1>2 DEF At
<1>5. Turns(n)'
  <2> SUFFICES ASSUME ~given.noWait, NEW q \in Others, proc'[q].kind \in {"xvp", "program"}
               PROVE  At({"reap", "wait"})' /\ q = n
    BY DEF Turns
  <2>1. proc[q].kind \in {"xvp", "program"}
    BY PidFacts
  <2> QED BY <1>4, <2>1 DEF Turns
<1>6. Stopped(n)'
  <2> SUFFICES ASSUME given.strict, NEW q \in Others, HasFailed(q)'
               PROVE  /\ q = n
                      /\ \/ At({"reap", "wait"})' /\ proc'[q].kind = "zombie"
                         \/ At({"out"})'
                         \/ proc'[Top].kind = "zombie" /\ ran'[Top] = <<>>
    BY DEF Stopped
  <2>1. CASE q = p
    <3>1. ~given.noWait
      BY SizeAssumption DEF Typed
    <3>2. At({"reap", "wait"}) /\ p = n
      BY <3>1 DEF Turns
    <3>3. proc'[p].kind = "zombie"
      BY <2>1 DEF HasFailed
    <3> QED BY <1>4, <2>1, <3>2, <3>3
  <2>2. CASE q # p
    <3>1. proc'[q] = proc[q] /\ HasFailed(q)
      BY <2>2, PidFacts DEF HasFailed
    <3> QED BY <1>2, <1>4, <3>1 DEF Stopped
  <2> QED BY <2>1, <2>2
<1>7. (Wanted(given.list))' = Wanted(given.list)
  OBVIOUS
<1> QED BY <1>1, <1>3, <1>5, <1>6, <1>7

-----------------------------------------------------------------------------
(* What the loop's steps do to what has been read. *)

LEMMA GivenFacts ==
  ASSUME NEW g \in Cases
  PROVE  /\ g.list \in Strings /\ Len(g.list) \in Nat /\ g.initSize \in Int /\ g.initSize <= SizeArgs - 1
         /\ g.strict \in BOOLEAN /\ g.noWait \in BOOLEAN /\ g.forceOnce \in BOOLEAN /\ g.unlink \in BOOLEAN
         /\ \A e \in g.endings : e \in Int
         /\ ~(g.strict /\ g.noWait) /\ g.initCount \in Nat
<1>1. g \in Case /\ ~(g.strict /\ g.noWait)
  BY SizeAssumption
<1>2. g.list \in Seq(Nat) /\ g.initSize \in 1 .. SizeArgs - 1 /\ g.initCount \in Nat
      /\ g.strict \in BOOLEAN /\ g.noWait \in BOOLEAN /\ g.forceOnce \in BOOLEAN /\ g.unlink \in BOOLEAN
      /\ g.endings \in SUBSET (Nat \cup {Killed})
  BY <1>1 DEF Case
<1>3. Len(g.list) \in Nat
  BY <1>2
<1>4. \A e \in g.endings : e \in Int
  BY <1>2 DEF Killed
<1> QED BY <1>1, <1>2, <1>3, <1>4, PtrIsPositive DEF Strings

LEMMA LocalFacts ==
  ASSUME NEW m \in Local
  PROVE  /\ m.kind = "xvp" /\ m.pc \in Pcs /\ m.parent \in {0, Top} /\ m.child \in 0 .. MaxProcs /\ m.err \in Int
         /\ m.buf \in Strings /\ Len(m.buf) \in Nat /\ m.arg \in Strings /\ Len(m.arg) \in Nat
         /\ m.pend \in BOOLEAN /\ m.argv \in Argvs /\ m.mem = "whole"
         /\ Held(m) \in {0, 1} /\ (m.pend => Held(m) = 1) /\ (~m.pend => Held(m) = 0)
<1>1. /\ m.kind = "xvp" /\ m.pc \in Pcs /\ m.parent \in {0, Top} /\ m.child \in 0 .. MaxProcs /\ m.err \in Int
      /\ m.buf \in Strings /\ m.arg \in Strings /\ m.pend \in BOOLEAN /\ m.argv \in Argvs /\ m.mem = "whole"
  BY DEF Local
<1> QED BY <1>1 DEF Held, Strings

LEMMA PlaceFacts ==
  ASSUME NEW g \in Cases, NEW pos \in 0 .. Len(g.list)
  PROVE  /\ Count(g.list, pos) \in Nat /\ Count(g.list, pos) <= pos
         /\ Count(g.list, pos) <= Len(Wanted(g.list))
         /\ Wanted(g.list) \in Argvs /\ Len(Wanted(g.list)) \in Nat
         /\ StringTo(g.list, pos + 1) \in Strings
<1>1. g.list \in Strings /\ Len(g.list) \in Nat
  BY GivenFacts
<1>2. Count(g.list, pos) \in 0 .. pos
  BY <1>1, CountSteps
<1>3. Wanted(g.list) \in Argvs /\ Count(g.list, pos) <= Len(Wanted(g.list))
  BY <1>1, WantedCounts
<1>4. StringTo(g.list, pos + 1) \in Strings
  <2>1. pos + 1 \in 1 .. Len(g.list) + 1
    BY <1>1
  <2> QED BY <1>1, <2>1, StringSteps
<1> QED BY <1>2, <1>3, <1>4 DEF Argvs

\* Cuts of what is wanted.
LEMMA ArgCuts ==
  ASSUME NEW w \in Argvs, NEW i \in Nat, NEW j \in Nat, i <= j, j <= Len(w)
  PROVE  /\ SubSeq(w, i + 1, j) \in Argvs /\ Len(SubSeq(w, i + 1, j)) = j - i
         /\ SubSeq(w, i + 1, j) = <<>> <=> i = j
         /\ j < Len(w) => SubSeq(w, i + 1, j + 1) = Append(SubSeq(w, i + 1, j), w[j + 1]) /\ w[j + 1] \in Strings
         /\ \A k \in 1 .. j - i : SubSeq(w, i + 1, j)[k] = w[i + k]
<1>1. Len(w) \in Nat /\ i + 1 \in 1 .. Len(w) + 1 /\ j \in (i + 1) - 1 .. Len(w) /\ w \in Seq(Strings)
  BY DEF Argvs
<1>2. j - (i + 1) + 1 = j - i /\ (i + 1) - 1 = i /\ \A k \in Int : (i + 1) + k - 1 = i + k
  OBVIOUS
<1>3. /\ SubSeq(w, i + 1, j) \in Seq(Strings) /\ Len(SubSeq(w, i + 1, j)) = j - (i + 1) + 1
      /\ \A k \in 1 .. j - (i + 1) + 1 : SubSeq(w, i + 1, j)[k] = w[(i + 1) + k - 1]
      /\ SubSeq(w, i + 1, (i + 1) - 1) = <<>>
      /\ j < Len(w) => SubSeq(w, i + 1, j + 1) = Append(SubSeq(w, i + 1, j), w[j + 1])
  BY <1>1, Cuts
<1>4. SubSeq(w, i + 1, j) = <<>> <=> i = j
  <2>1. i = j => SubSeq(w, i + 1, j) = <<>>
    BY <1>2, <1>3
  <2>2. SubSeq(w, i + 1, j) = <<>> => Len(SubSeq(w, i + 1, j)) = 0
    OBVIOUS
  <2> QED BY <1>2, <1>3, <2>1, <2>2
<1>5. j < Len(w) => w[j + 1] \in Strings
  BY <1>1
<1>6. \A k \in 1 .. j - i : SubSeq(w, i + 1, j)[k] = w[i + k]
  <2> SUFFICES ASSUME NEW k \in 1 .. j - i PROVE SubSeq(w, i + 1, j)[k] = w[i + k]
    OBVIOUS
  <2>1. k \in Int
    OBVIOUS
  <2> QED BY <1>2, <1>3, <2>1
<1> QED BY <1>2, <1>3, <1>4, <1>5, <1>6 DEF Argvs

\* A batch with a short argument added to it.
LEMMA SizedAppend ==
  ASSUME NEW g \in Cases, NEW argv \in Argvs, NEW arg \in Strings,
         RawSize(g.initSize, argv) <= WordSize(g.initSize, argv),
         WordSize(g.initSize, argv) + Len(arg) + 1 < SizeArgs
  PROVE  Sized(g, Append(argv, arg))
<1>1. Len(arg) \in Nat /\ g.initSize \in Int /\ SizeArgs \in Nat /\ Ptr \in Nat
  BY GivenFacts, PtrIsPositive DEF Strings
<1>2. /\ RawSize(g.initSize, argv) \in Int /\ WordSize(g.initSize, argv) \in Int
      /\ RawSize(g.initSize, Append(argv, arg)) = RawSize(g.initSize, argv) + Len(arg) + 1 + Ptr
      /\ WordSize(g.initSize, Append(argv, arg)) >= WordSize(g.initSize, argv) + Len(arg) + 1 + Ptr
  BY <1>1, RawSteps, WordSteps
<1>3. Append(argv, arg) \in Argvs
  BY DEF Argvs
<1>4. WordSize(g.initSize, Append(argv, arg)) \in Int
  BY <1>1, <1>3, WordSteps
<1> QED BY <1>1, <1>2, <1>4 DEF Sized

LEMMA SizedEmpty ==
  ASSUME NEW g \in Cases
  PROVE  /\ Sized(g, <<>>) /\ WordSize(g.initSize, <<>>) = g.initSize
         /\ \A arg \in Strings : RoomyCase(g) /\ ~TooLong(arg) =>
              WordSize(g.initSize, <<>>) + Len(arg) + 1 < SizeArgs
<1>1. g.initSize \in Int /\ g.initSize <= SizeArgs - 1 /\ SizeArgs \in Nat /\ Ptr \in Nat /\ ArgBuf \in Nat
  BY GivenFacts, PtrIsPositive
<1>2. <<>> \in Argvs
  BY DEF Argvs
<1>3. RawSize(g.initSize, <<>>) = g.initSize /\ WordSize(g.initSize, <<>>) = g.initSize
  BY <1>1, <1>2, RawSteps, WordSteps
<1>4. ASSUME NEW arg \in Strings, RoomyCase(g), ~TooLong(arg)
      PROVE  WordSize(g.initSize, <<>>) + Len(arg) + 1 < SizeArgs
  <2>1. Len(arg) \in Nat
    BY DEF Strings
  <2> QED BY <1>1, <1>3, <1>4, <2>1 DEF RoomyCase, TooLong
<1> QED BY <1>1, <1>3, <1>4 DEF Sized

LEMMA ReadingFacts ==
  ASSUME NEW g \in Cases, NEW off \in 0 .. Len(g.list), NEW last \in Nat, NEW m \in Local,
         NEW pos \in 0 .. off, Reading(g, off, last, m, pos)
  PROVE  /\ pos \in Nat /\ off \in Nat /\ pos \in 0 .. Len(g.list) /\ off <= Len(g.list) /\ Len(g.list) \in Nat
         /\ pos <= off /\ Len(m.buf) = off - pos /\ (m.buf = <<>> <=> pos = off)
         /\ Count(g.list, pos) \in Nat /\ Count(g.list, pos) <= Len(Wanted(g.list))
         /\ last <= Count(g.list, pos) - Held(m) /\ Count(g.list, pos) - Held(m) \in Nat
<1>1. Len(g.list) \in Nat
  BY GivenFacts
<1>2. pos \in Nat /\ off \in Nat /\ pos \in 0 .. Len(g.list) /\ off <= Len(g.list) /\ pos <= off
  BY <1>1
<1>3. Len(m.buf) = off - pos /\ m.buf \in Seq(Nat) /\ last <= Count(g.list, pos) - Held(m)
  BY <1>2, LocalFacts DEF Reading, Strings
<1>4. m.buf = <<>> <=> pos = off
  BY <1>2, <1>3
<1>5. Count(g.list, pos) \in Nat /\ Count(g.list, pos) <= Len(Wanted(g.list)) /\ Held(m) \in {0, 1}
  BY <1>2, PlaceFacts, LocalFacts
<1>6. Count(g.list, pos) - Held(m) \in Nat
  BY <1>3, <1>5
<1> QED BY <1>1, <1>2, <1>3, <1>4, <1>5, <1>6

\* At the start.
LEMMA ReadOpen ==
  ASSUME NEW g \in Cases, NEW m \in Local, m.pc \in {"open", "fill"}, m.buf = <<>>, m.arg = <<>>, ~m.pend, m.argv = <<>>
  PROVE  Reading(g, 0, 0, m, 0)
<1>1. g.list \in Strings /\ 0 \in 0 .. Len(g.list) /\ Held(m) = 0 /\ Len(g.list) \in Nat
  BY GivenFacts, LocalFacts
<1>2. Count(g.list, 0) = 0 /\ StringTo(g.list, 0 + 1) = <<>>
  BY <1>1, CountSteps, StringSteps
<1>3. Wanted(g.list) \in Argvs /\ Len(Wanted(g.list)) \in Nat
  BY <1>1, PlaceFacts
<1>4. SubSeq(Wanted(g.list), 0 + 1, 0) = <<>>
  BY <1>3, ArgCuts
<1>5. Window(m.buf, g.list, 0, 0)
  BY <1>1 DEF Window, Strings
<1>6. Sized(g, m.argv)
  BY SizedEmpty
<1>7. Len(m.buf) = 0 /\ 0 <= 0 - Held(m) /\ 0 - Held(m) = 0 /\ 0 = 0 - 0
  BY <1>1
<1>8. ~m.pend /\ m.pc # "scan" /\ m.pc # "fork" /\ m.pc \notin {"reap", "wait"}
  OBVIOUS
<1> QED BY <1>2, <1>4, <1>5, <1>6, <1>7, <1>8 DEF Reading

\* The argument held back comes first.
Filled(g, last, m, pos, argv, arg) ==
  /\ arg = StringTo(g.list, pos + 1) /\ last <= Count(g.list, pos)
  /\ argv = SubSeq(Wanted(g.list), last + 1, Count(g.list, pos)) /\ Sized(g, argv)

LEMMA ReadFill ==
  ASSUME NEW g \in Cases, RoomyCase(g), NEW off \in 0 .. Len(g.list), NEW last \in Nat, NEW m \in Local,
         NEW pos \in 0 .. off, Reading(g, off, last, m, pos), m.pc = "fill",
         NEW argv, argv = IF m.pend THEN Append(m.argv, m.arg) ELSE m.argv,
         NEW arg, arg = IF m.pend THEN <<>> ELSE m.arg
  PROVE  Filled(g, last, m, pos, argv, arg)
<1> DEFINE w == Wanted(g.list)
           c == Count(g.list, pos)
<1>1. /\ pos \in 0 .. Len(g.list) /\ c \in Nat /\ c <= Len(w) /\ w \in Argvs /\ Len(w) \in Nat
      /\ last <= c - Held(m)
  <2>1. pos \in 0 .. Len(g.list) /\ c \in Nat /\ c <= Len(w) /\ last <= c - Held(m)
    BY ReadingFacts
  <2> QED BY <2>1, PlaceFacts
<1>2. CASE ~m.pend
  <2>1. Held(m) = 0 /\ c - 0 = c
    BY <1>1, <1>2, LocalFacts
  <2>2. arg = StringTo(g.list, pos + 1) /\ argv = m.argv
    BY <1>2 DEF Reading
  <2>3. m.argv = SubSeq(w, last + 1, c - Held(m)) /\ Sized(g, m.argv)
    BY DEF Reading
  <2> QED BY <1>1, <2>1, <2>2, <2>3 DEF Filled
<1>3. CASE m.pend
  <2>1. /\ Held(m) = 1 /\ m.argv = <<>> /\ m.argv = SubSeq(w, last + 1, c - 1) /\ c >= 1 /\ w[c] = m.arg
        /\ ~TooLong(m.arg) /\ StringTo(g.list, pos + 1) = <<>> /\ m.arg \in Strings
    BY <1>3, LocalFacts DEF Reading
  <2> HIDE DEF w, c
  <2>2. c - 1 \in Nat /\ last <= c - 1 /\ (c - 1) + 1 = c /\ c - 1 < Len(w)
    BY <1>1, <2>1
  <2>3. SubSeq(w, last + 1, (c - 1) + 1) = Append(SubSeq(w, last + 1, c - 1), w[(c - 1) + 1])
    BY <1>1, <2>2, ArgCuts
  <2>4. argv = SubSeq(w, last + 1, c)
    BY <1>3, <2>1, <2>2, <2>3
  <2>5. Sized(g, argv)
    <3>1. WordSize(g.initSize, <<>>) + Len(m.arg) + 1 < SizeArgs
      BY <2>1, SizedEmpty
    <3>2. RawSize(g.initSize, <<>>) <= WordSize(g.initSize, <<>>) /\ <<>> \in Argvs
      BY SizedEmpty DEF Sized, Argvs
    <3>3. argv = Append(<<>>, m.arg)
      BY <1>3, <2>1
    <3> QED BY <2>1, <3>1, <3>2, <3>3, SizedAppend
  <2>6. last <= c
    BY <1>1, <2>2
  <2>7. arg = StringTo(g.list, pos + 1)
    BY <1>3, <2>1
  <2> QED BY <2>4, <2>5, <2>6, <2>7 DEF Filled, w, c
<1> QED BY <1>2, <1>3, LocalFacts

\* On to the rest of the buffer.
LEMMA ReadOn ==
  ASSUME NEW g \in Cases, NEW off \in 0 .. Len(g.list), NEW last \in Nat, NEW m \in Local,
         NEW pos \in 0 .. off, Reading(g, off, last, m, pos),
         NEW m2 \in Local, m2.pc = "scan", ~m2.pend, m2.buf = m.buf, m.buf # <<>>,
         Filled(g, last, m, pos, m2.argv, m2.arg)
  PROVE  Reading(g, off, last, m2, pos)
<1>1. Held(m2) = 0 /\ Count(g.list, pos) \in Nat
  BY ReadingFacts, LocalFacts
<1>2. Count(g.list, pos) - Held(m2) = Count(g.list, pos)
  BY <1>1
<1> QED BY <1>1, <1>2 DEF Reading, Filled

\* On to what has been read of the list.
LEMMA ReadMore ==
  ASSUME NEW g \in Cases, NEW off \in 0 .. Len(g.list), NEW last \in Nat, NEW m \in Local,
         NEW pos \in 0 .. off, Reading(g, off, last, m, pos), m.buf = <<>>,
         NEW k \in Nat, k >= 1, off + k <= Len(g.list),
         NEW m2 \in Local, m2.pc = "scan", ~m2.pend, m2.buf = SubSeq(g.list, off + 1, off + k),
         Filled(g, last, m, pos, m2.argv, m2.arg)
  PROVE  off + k \in 0 .. Len(g.list) /\ off \in 0 .. off + k /\ Reading(g, off + k, last, m2, off)
<1>1. /\ Held(m2) = 0 /\ Count(g.list, pos) \in Nat /\ pos = off /\ off \in Nat
      /\ Len(g.list) \in Nat
  <2>1. /\ Count(g.list, pos) \in Nat /\ (m.buf = <<>> <=> pos = off) /\ off \in Nat
        /\ Len(g.list) \in Nat
    BY ReadingFacts
  <2>2. Held(m2) = 0
    BY LocalFacts
  <2> QED BY <2>1, <2>2
<1>2. Count(g.list, pos) - Held(m2) = Count(g.list, pos)
  BY <1>1
<1>3. Window(m2.buf, g.list, off, off + k)
  BY DEF Window
<1>4. Len(m2.buf) = (off + k) - off
  <2>1. g.list \in Seq(Nat) /\ off + k \in Nat /\ off <= off + k
    <3>1. g.list \in Seq(Nat)
      BY GivenFacts DEF Strings
    <3>2. off + k \in Nat /\ off <= off + k
      BY <1>1
    <3> QED BY <3>1, <3>2
  <2> QED BY <1>1, <1>3, <2>1, WindowFacts
<1>5. m2.buf # <<>> /\ Len(m2.buf) <= off + k /\ off = (off + k) - Len(m2.buf)
  <2>1. Len(m2.buf) = k
    BY <1>1, <1>4
  <2>2. m2.buf # <<>>
    BY <2>1
  <2>3. Len(m2.buf) <= off + k /\ off = (off + k) - Len(m2.buf)
    <3>1. off \in Nat
      BY <1>1
    <3> QED BY <2>1, <3>1
  <2> QED BY <2>2, <2>3
<1>6. off + k \in 0 .. Len(g.list) /\ off \in 0 .. off + k
  BY <1>1
<1> QED BY <1>1, <1>2, <1>3, <1>5, <1>6 DEF Reading, Filled

\* The end of the list, or of what can be read of it.
LEMMA TidyPadding ==
  ASSUME NEW size \in Int, NEW length \in Nat, size <= SizeArgs - 1 + Ptr, Padding >= 1
  PROVE  /\ size <= SizeArgs + Padding * Ptr
         /\ length <= (Padding - 2) * Ptr => size + length + 1 + Ptr <= SizeArgs + Padding * Ptr
<1>1. Ptr \in Nat /\ Padding \in Nat /\ SizeArgs \in Nat
  BY PtrIsPositive
<1>2. Padding * Ptr \in Int /\ (Padding - 2) * Ptr = Padding * Ptr - 2 * Ptr /\ Padding * Ptr >= Ptr
  BY <1>1
<1>3. ASSUME NEW x \in Int, x >= Ptr, (Padding - 2) * Ptr = x - 2 * Ptr
      PROVE  /\ size <= SizeArgs + x
             /\ length <= (Padding - 2) * Ptr => size + length + 1 + Ptr <= SizeArgs + x
  BY <1>1, <1>3
<1> QED BY <1>2, <1>3

LEMMA ReadLast ==
  ASSUME NEW g \in Cases, NEW off \in 0 .. Len(g.list), NEW last \in Nat, NEW m \in Local,
         NEW pos \in 0 .. off, Reading(g, off, last, m, pos), m.buf = <<>>,
         off = Len(g.list) \/ "read" \in g.faults,
         NEW argv \in Argvs, NEW arg \in Strings, Filled(g, last, m, pos, argv, arg),
         NEW all, all = IF arg = <<>> \/ TooLong(arg) THEN argv ELSE Append(argv, arg)
  PROVE  /\ LastBatch(g, off, last, all)
         /\ TidyCase(g) => RawSize(g.initSize, all) <= SizeArgs + Padding * Ptr
<1> DEFINE w == Wanted(g.list)
           c == Count(g.list, off)
<1>1. pos = off /\ off \in Nat /\ c \in Nat /\ c <= Len(w) /\ Len(g.list) \in Nat /\ off <= Len(g.list)
  BY ReadingFacts
<1>2. /\ arg = StringTo(g.list, off + 1) /\ last <= c /\ argv = SubSeq(w, last + 1, c) /\ Sized(g, argv)
      /\ w \in Argvs /\ Len(w) \in Nat
  <2>1. arg = StringTo(g.list, off + 1) /\ last <= c /\ argv = SubSeq(w, last + 1, c) /\ Sized(g, argv)
    BY <1>1 DEF Filled
  <2> QED BY <2>1, PlaceFacts
<1>3. LastBatch(g, off, last, all)
  <2>1. CASE off = Len(g.list)
    <3>1. arg = Rest(g.list)
      BY <1>2, <2>1 DEF Rest
    <3>2. IF arg = <<>> \/ TooLong(arg) THEN Len(w) = c ELSE Len(w) = c + 1 /\ w[c + 1] = arg
      <4>1. g.list \in Strings
        BY GivenFacts
      <4>2. IF Rest(g.list) = <<>> \/ TooLong(Rest(g.list)) THEN Len(w) = Count(g.list, Len(g.list))
            ELSE Len(w) = Count(g.list, Len(g.list)) + 1 /\ w[Len(w)] = Rest(g.list)
        BY <4>1, WantedCounts
      <4> QED BY <2>1, <3>1, <4>2
    <3> HIDE DEF w, c
    <3>3. CASE arg = <<>> \/ TooLong(arg)
      <4>1. all = SubSeq(w, last + 1, Len(w))
        BY <1>2, <3>2, <3>3
      <4> QED BY <2>1, <4>1 DEF LastBatch, w
    <3>4. CASE ~(arg = <<>> \/ TooLong(arg))
      <4>1. Len(w) = c + 1 /\ w[c + 1] = arg /\ c < Len(w)
        BY <1>1, <3>2, <3>4
      <4>2. SubSeq(w, last + 1, c + 1) = Append(SubSeq(w, last + 1, c), w[c + 1])
        BY <1>1, <1>2, <4>1, ArgCuts
      <4>3. all = SubSeq(w, last + 1, Len(w))
        BY <1>2, <3>4, <4>1, <4>2
      <4> QED BY <2>1, <4>3 DEF LastBatch, w
    <3> QED BY <3>3, <3>4
  <2>2. CASE off # Len(g.list)
    <3>1. "read" \in g.faults /\ off < Len(g.list)
      BY <1>1, <2>2
    <3>2. all = argv \/ all = Append(argv, StringTo(g.list, off + 1))
      BY <1>2
    <3> QED BY <1>2, <3>1, <3>2 DEF LastBatch
  <2> QED BY <2>1, <2>2
<1>4. ASSUME TidyCase(g) PROVE RawSize(g.initSize, all) <= SizeArgs + Padding * Ptr
  <2>1. off = Len(g.list) /\ Padding >= 1
    BY <1>4 DEF TidyCase
  <2>2. arg = <<>> \/ Len(arg) <= (Padding - 2) * Ptr
    BY <1>2, <1>4, <2>1 DEF TidyCase, Rest
  <2>3. g.initSize \in Int /\ Len(arg) \in Nat
    BY GivenFacts DEF Strings
  <2>4. /\ RawSize(g.initSize, argv) \in Int
        /\ RawSize(g.initSize, Append(argv, arg)) = RawSize(g.initSize, argv) + Len(arg) + 1 + Ptr
    BY <2>3, RawSteps
  <2>5. RawSize(g.initSize, argv) <= SizeArgs - 1 + Ptr
    BY <1>2 DEF Sized
  <2>6. /\ RawSize(g.initSize, argv) <= SizeArgs + Padding * Ptr
        /\ Len(arg) <= (Padding - 2) * Ptr =>
             RawSize(g.initSize, argv) + Len(arg) + 1 + Ptr <= SizeArgs + Padding * Ptr
    BY <2>1, <2>3, <2>4, <2>5, TidyPadding
  <2> QED BY <2>2, <2>4, <2>6
<1> QED BY <1>3, <1>4

\* What the next string of the buffer is, and what is behind it.
StringAhead(g, off, pos, buf, b, arg, rest) ==
  /\ arg \in Strings /\ rest \in Strings /\ b \in Nat
  /\ b = Len(buf) => arg = StringTo(g.list, off + 1) /\ Count(g.list, off) = Count(g.list, pos)
  /\ b # Len(buf) =>
       \E p \in 0 .. off :
         /\ p = pos + b + 1 /\ Window(rest, g.list, p, off) /\ StringTo(g.list, p + 1) = <<>>
         /\ IF TooLong(arg) THEN Count(g.list, p) = Count(g.list, pos)
            ELSE Count(g.list, p) = Count(g.list, pos) + 1 /\ Wanted(g.list)[Count(g.list, pos) + 1] = arg

LEMMA IsStringAhead ==
  ASSUME NEW g \in Cases, NEW off \in 0 .. Len(g.list), NEW last \in Nat, NEW m \in Local,
         NEW pos \in 0 .. off, Reading(g, off, last, m, pos), m.pc = "scan"
  PROVE  StringAhead(g, off, pos, m.buf, Block(m.buf), m.arg \o SubSeq(m.buf, 1, Block(m.buf)),
               SubSeq(m.buf, Block(m.buf) + 2, Len(m.buf)))
<1>1. ~m.pend /\ m.arg = StringTo(g.list, pos + 1) /\ Window(m.buf, g.list, pos, off)
  BY DEF Reading
<1>2. g.list \in Strings
  BY GivenFacts
<1>0. m.buf \in Strings
  BY LocalFacts
<1>3. PICK buf, b, arg, rest : /\ buf = m.buf /\ b = Block(buf) /\ arg = StringTo(g.list, pos + 1) \o SubSeq(buf, 1, b)
                               /\ rest = SubSeq(buf, b + 2, Len(buf))
  OBVIOUS
<1>6. Window(buf, g.list, pos, off)
  BY <1>1, <1>3
<1>4. /\ b \in 0 .. Len(buf) /\ arg \in Strings
      /\ b = Len(buf) => arg = StringTo(g.list, off + 1) /\ Count(g.list, off) = Count(g.list, pos)
      /\ b # Len(buf) =>
           /\ pos + b + 1 \in 1 .. off
           /\ Window(SubSeq(buf, b + 2, Len(buf)), g.list, pos + b + 1, off)
           /\ StringTo(g.list, pos + b + 2) = <<>>
           /\ IF TooLong(arg) THEN Count(g.list, pos + b + 1) = Count(g.list, pos)
              ELSE /\ Count(g.list, pos + b + 1) = Count(g.list, pos) + 1
                   /\ Wanted(g.list)[Count(g.list, pos) + 1] = arg
  <2>1. ScansTo(g.list, off, pos, buf, b, arg)
    BY <1>2, <1>3, <1>6, ScanTo
  <2> QED BY <2>1, Zenon DEF ScansTo
<1>5. StringAhead(g, off, pos, buf, b, arg, rest)
  <2>0. rest = SubSeq(buf, b + 2, Len(buf)) /\ buf \in Strings
    BY <1>0, <1>3
  <2>1. rest \in Strings
    <3>1. buf \in Seq(Nat) /\ Len(buf) \in Nat /\ b \in Nat
      BY <1>4, <2>0 DEF Strings
    <3>2. \A i \in b + 2 .. Len(buf) : buf[i] \in Nat
      BY <3>1
    <3> QED BY <2>0, <3>1, <3>2 DEF Strings
  <2>2. b \in Nat /\ (pos + b + 1) + 1 = pos + b + 2
    <3>1. Len(buf) \in Nat
      BY <2>0 DEF Strings
    <3>2. b \in 0 .. Len(buf)
      BY <1>4
    <3>3. pos \in Int
      OBVIOUS
    <3> QED BY <3>1, <3>2, <3>3
  <2>3. ASSUME b # Len(buf)
        PROVE  \E p \in 0 .. off :
                 /\ p = pos + b + 1 /\ Window(rest, g.list, p, off) /\ StringTo(g.list, p + 1) = <<>>
                 /\ IF TooLong(arg) THEN Count(g.list, p) = Count(g.list, pos)
                    ELSE Count(g.list, p) = Count(g.list, pos) + 1 /\ Wanted(g.list)[Count(g.list, pos) + 1] = arg
    <3>1. pos + b + 1 \in 1 .. off
      BY <1>4, <2>3
    <3>2. pos + b + 1 \in 0 .. off
      BY <3>1
    <3>3. StringTo(g.list, (pos + b + 1) + 1) = <<>>
      BY <1>4, <2>2, <2>3
    <3> WITNESS pos + b + 1 \in 0 .. off
    <3> QED BY <1>4, <2>0, <2>3, <3>3, Zenon
  <2>4. arg \in Strings /\ (b = Len(buf) => arg = StringTo(g.list, off + 1) /\ Count(g.list, off) = Count(g.list, pos))
    BY <1>4, Zenon
  <2> QED BY <2>1, <2>2, <2>3, <2>4, Zenon DEF StringAhead
<1> QED BY <1>1, <1>3, <1>5, Zenon

LEMMA ScanFacts ==
  ASSUME NEW g \in Cases, NEW off \in 0 .. Len(g.list), NEW last \in Nat, NEW m \in Local,
         NEW pos \in 0 .. off, Reading(g, off, last, m, pos), m.pc = "scan"
  PROVE  /\ Count(g.list, pos) \in Nat /\ Count(g.list, pos) <= Len(Wanted(g.list))
         /\ Wanted(g.list) \in Argvs /\ Len(Wanted(g.list)) \in Nat
         /\ last <= Count(g.list, pos) /\ m.argv = SubSeq(Wanted(g.list), last + 1, Count(g.list, pos))
         /\ Sized(g, m.argv) /\ m.argv \in Argvs /\ WordSize(g.initSize, m.argv) \in Int
<1>1. Count(g.list, pos) \in Nat /\ Count(g.list, pos) <= Len(Wanted(g.list)) /\ pos \in 0 .. Len(g.list)
  BY ReadingFacts
<1>2. Wanted(g.list) \in Argvs /\ Len(Wanted(g.list)) \in Nat
  BY <1>1, PlaceFacts
<1>3. ~m.pend /\ last <= Count(g.list, pos) - Held(m)
      /\ m.argv = SubSeq(Wanted(g.list), last + 1, Count(g.list, pos) - Held(m)) /\ Sized(g, m.argv)
  BY DEF Reading
<1>4. Count(g.list, pos) - Held(m) = Count(g.list, pos)
  BY <1>1, <1>3, LocalFacts
<1>5. m.argv \in Argvs
  BY LocalFacts
<1>6. WordSize(g.initSize, m.argv) \in Int
  BY <1>5, GivenFacts, WordSteps
<1> QED BY <1>1, <1>2, <1>3, <1>4, <1>5, <1>6

\* No NUL in the buffer.
LEMMA ScanEnd ==
  ASSUME NEW g \in Cases, NEW off \in 0 .. Len(g.list), NEW last \in Nat, NEW m \in Local,
         NEW pos \in 0 .. off, Reading(g, off, last, m, pos), m.pc = "scan",
         NEW b, NEW arg, NEW rest, StringAhead(g, off, pos, m.buf, b, arg, rest), b = Len(m.buf),
         NEW m2 \in Local, m2.pc = "fill", m2.buf = <<>>, m2.arg = arg, ~m2.pend, m2.argv = m.argv
  PROVE  off \in 0 .. off /\ Reading(g, off, last, m2, off)
<1>1. arg = StringTo(g.list, off + 1) /\ Count(g.list, off) = Count(g.list, pos)
  BY DEF StringAhead
<1>2. off \in Nat /\ Len(g.list) \in Nat /\ off <= Len(g.list)
  BY ReadingFacts
<1>3. Count(g.list, off) - Held(m2) = Count(g.list, pos)
  BY <1>1, ScanFacts, LocalFacts
<1>4. Window(m2.buf, g.list, off, off)
  <2>1. SubSeq(g.list, off + 1, off) = <<>>
    BY <1>2, GivenFacts DEF Strings
  <2> QED BY <2>1 DEF Window
<1>5. Len(m2.buf) <= off /\ off = off - Len(m2.buf)
  BY <1>2
<1>6. last <= Count(g.list, pos) /\ m.argv = SubSeq(Wanted(g.list), last + 1, Count(g.list, pos)) /\ Sized(g, m.argv)
  BY ScanFacts
<1>7. Reading(g, off, last, m2, off)
  BY <1>1, <1>3, <1>4, <1>5, <1>6 DEF Reading
<1> QED BY <1>2, <1>7

LEMMA RestFacts ==
  ASSUME NEW g \in Cases, NEW off \in 0 .. Len(g.list), NEW p \in 0 .. off, NEW rest, Window(rest, g.list, p, off)
  PROVE  Len(rest) <= off /\ p = off - Len(rest)
<1>1. g.list \in Seq(Nat) /\ Len(g.list) \in Nat
  BY GivenFacts DEF Strings
<1>2. p \in Nat /\ off \in Nat /\ p <= off /\ off <= Len(g.list)
  BY <1>1
<1>3. Len(rest) = off - p
  BY <1>1, <1>2, WindowFacts
<1> QED BY <1>2, <1>3

\* A string too long is left out.
LEMMA ScanLong ==
  ASSUME NEW g \in Cases, NEW off \in 0 .. Len(g.list), NEW last \in Nat, NEW m \in Local,
         NEW pos \in 0 .. off, Reading(g, off, last, m, pos), m.pc = "scan",
         NEW b, NEW arg, NEW rest, StringAhead(g, off, pos, m.buf, b, arg, rest), b # Len(m.buf), TooLong(arg),
         NEW m2 \in Local, rest = <<>> => m2.pc = "fill", rest # <<>> => m2.pc = "scan",
         m2.buf = rest, m2.arg = <<>>, ~m2.pend, m2.argv = m.argv
  PROVE  \E p \in 0 .. off : Reading(g, off, last, m2, p)
<1>1. PICK p \in 0 .. off : /\ Window(rest, g.list, p, off) /\ StringTo(g.list, p + 1) = <<>>
                            /\ Count(g.list, p) = Count(g.list, pos)
  BY DEF StringAhead
<1>2. Count(g.list, p) - Held(m2) = Count(g.list, pos)
  BY <1>1, ScanFacts, LocalFacts
<1>3. Len(m2.buf) <= off /\ p = off - Len(m2.buf)
  BY <1>1, RestFacts
<1>4. last <= Count(g.list, pos) /\ m.argv = SubSeq(Wanted(g.list), last + 1, Count(g.list, pos)) /\ Sized(g, m.argv)
  BY ScanFacts
<1>5. m2.pc \in {"fill", "scan"} /\ (m2.pc = "scan" => m2.buf # <<>>)
  OBVIOUS
<1>6. Reading(g, off, last, m2, p)
  BY <1>1, <1>2, <1>3, <1>4, <1>5 DEF Reading
<1> QED BY <1>6

\* A string that does not fit is held back.
LEMMA ScanFull ==
  ASSUME NEW g \in Cases, RoomyCase(g), NEW off \in 0 .. Len(g.list), NEW last \in Nat, NEW m \in Local,
         NEW pos \in 0 .. off, Reading(g, off, last, m, pos), m.pc = "scan",
         NEW b, NEW arg, NEW rest, StringAhead(g, off, pos, m.buf, b, arg, rest), b # Len(m.buf), ~TooLong(arg),
         WordSize(g.initSize, m.argv) + Len(arg) + 1 >= SizeArgs,
         NEW m2 \in Local, m2.pc = "fork", m2.buf = rest, m2.arg = arg, m2.pend, m2.argv = m.argv
  PROVE  \E p \in 0 .. off : Reading(g, off, last, m2, p)
<1>1. PICK p \in 0 .. off : /\ Window(rest, g.list, p, off) /\ StringTo(g.list, p + 1) = <<>>
                            /\ Count(g.list, p) = Count(g.list, pos) + 1
                            /\ Wanted(g.list)[Count(g.list, pos) + 1] = arg
  BY DEF StringAhead
<1>2. Count(g.list, p) - Held(m2) = Count(g.list, pos) /\ Count(g.list, p) >= 1
  <2>1. Held(m2) = 1
    BY LocalFacts
  <2>2. Count(g.list, pos) \in Nat
    BY ScanFacts
  <2> QED BY <1>1, <2>1, <2>2
<1>3. Len(m2.buf) <= off /\ p = off - Len(m2.buf)
  BY <1>1, RestFacts
<1>4. last <= Count(g.list, pos) /\ m.argv = SubSeq(Wanted(g.list), last + 1, Count(g.list, pos)) /\ Sized(g, m.argv)
  BY ScanFacts
<1>5. m.argv # <<>>
  <2>1. SUFFICES ASSUME m.argv = <<>> PROVE FALSE
    OBVIOUS
  <2>2. arg \in Strings
    BY DEF StringAhead
  <2>3. WordSize(g.initSize, <<>>) + Len(arg) + 1 < SizeArgs
    BY <2>2, SizedEmpty
  <2>4. WordSize(g.initSize, <<>>) \in Int /\ Len(arg) \in Nat /\ SizeArgs \in Nat
    BY <2>1, <2>2, ScanFacts, PtrIsPositive DEF Strings
  <2> QED BY <2>1, <2>3, <2>4
<1>6. Reading(g, off, last, m2, p)
  BY <1>1, <1>2, <1>3, <1>4, <1>5 DEF Reading
<1> QED BY <1>6

\* A string is added.
LEMMA ScanAdd ==
  ASSUME NEW g \in Cases, NEW off \in 0 .. Len(g.list), NEW last \in Nat, NEW m \in Local,
         NEW pos \in 0 .. off, Reading(g, off, last, m, pos), m.pc = "scan",
         NEW b, NEW arg, NEW rest, StringAhead(g, off, pos, m.buf, b, arg, rest), b # Len(m.buf), ~TooLong(arg),
         ~(WordSize(g.initSize, m.argv) + Len(arg) + 1 >= SizeArgs),
         NEW m2 \in Local, m2.pc \in {"fork", IF rest = <<>> THEN "fill" ELSE "scan"},
         m2.buf = rest, m2.arg = <<>>, ~m2.pend, m2.argv = Append(m.argv, arg)
  PROVE  \E p \in 0 .. off : Reading(g, off, last, m2, p)
<1>1. PICK p \in 0 .. off : /\ Window(rest, g.list, p, off) /\ StringTo(g.list, p + 1) = <<>>
                            /\ Count(g.list, p) = Count(g.list, pos) + 1
                            /\ Wanted(g.list)[Count(g.list, pos) + 1] = arg
  BY DEF StringAhead
<1> DEFINE w == Wanted(g.list)
           c == Count(g.list, pos)
<1>2. /\ c \in Nat /\ w \in Argvs /\ Len(w) \in Nat /\ last <= c /\ m.argv = SubSeq(w, last + 1, c)
      /\ Sized(g, m.argv) /\ m.argv \in Argvs /\ WordSize(g.initSize, m.argv) \in Int
  BY ScanFacts
<1>3. Count(g.list, p) <= Len(w)
  <2>1. p \in 0 .. Len(g.list)
    BY GivenFacts
  <2> QED BY <2>1, PlaceFacts
<1>4. Count(g.list, p) - Held(m2) = c + 1
  <2>1. Held(m2) = 0
    BY LocalFacts
  <2>2. c \in Nat /\ Count(g.list, p) = c + 1
    BY <1>1, <1>2
  <2> QED BY <2>1, <2>2
<1>5. Len(m2.buf) <= off /\ p = off - Len(m2.buf)
  BY <1>1, RestFacts
<1>6. w[c + 1] = arg /\ Count(g.list, p) = c + 1
  BY <1>1
<1> HIDE DEF w, c
<1>7. SubSeq(w, last + 1, c + 1) = Append(SubSeq(w, last + 1, c), w[c + 1])
  <2>0. c \in Nat /\ w \in Argvs /\ Len(w) \in Nat /\ last <= c
    BY <1>2
  <2>1. c < Len(w)
    BY <1>3, <1>6, <2>0
  <2>2. c <= Len(w)
    BY <2>0, <2>1
  <2> QED BY <2>0, <2>1, <2>2, ArgCuts
<1>8. m2.argv = SubSeq(w, last + 1, c + 1) /\ last <= c + 1
  <2>1. m2.argv = Append(m.argv, arg) /\ m.argv = SubSeq(w, last + 1, c) /\ w[c + 1] = arg
    BY <1>2, <1>6
  <2>2. c \in Nat /\ last <= c
    BY <1>2
  <2>3. last <= c + 1
    BY <2>2
  <2> QED BY <1>7, <2>1, <2>3, Zenon
<1>9. arg \in Strings
  BY DEF StringAhead
<1>10. Sized(g, m2.argv)
  <2>1. WordSize(g.initSize, m.argv) + Len(arg) + 1 < SizeArgs
    <3>1. Len(arg) \in Nat /\ SizeArgs \in Nat
      BY <1>9, PtrIsPositive DEF Strings
    <3> QED BY <1>2, <3>1
  <2>2. RawSize(g.initSize, m.argv) <= WordSize(g.initSize, m.argv)
    BY <1>2 DEF Sized
  <2> QED BY <1>2, <1>9, <2>1, <2>2, SizedAppend
<1>11. m2.argv # <<>>
  <2>1. m.argv \in Seq(Strings)
    BY <1>2 DEF Argvs
  <2>2. Append(m.argv, arg) # <<>>
    BY <1>9, <2>1
  <2> QED BY <2>2
<1>12. m2.pc \in {"fork", "fill", "scan"} /\ (m2.pc = "scan" => m2.buf # <<>>)
  OBVIOUS
<1>13. Reading(g, off, last, m2, p)
  <2>1. /\ last <= Count(g.list, p) - Held(m2)
        /\ m2.argv = SubSeq(Wanted(g.list), last + 1, Count(g.list, p) - Held(m2))
    BY <1>4, <1>8 DEF w
  <2> QED BY <1>1, <1>5, <1>10, <1>11, <1>12, <2>1 DEF Reading
<1> QED BY <1>13

-----------------------------------------------------------------------------
(* The steps of xvp itself. *)

LEMMA BecomeFacts ==
  ASSUME Typed, NEW p \in Pids, NEW r \in Process, Become(p, r)
  PROVE  /\ proc'[p] = r /\ \A q \in Pids \ {p} : proc'[q] = proc[q]
         /\ proc' \in [Pids -> Process]
  BY DEF Become, Typed

\* What a process may come to while no refused block is taken for granted.
Clean(r) == r.kind # "torn" /\ (r.kind \in {"xvp", "program"} => r.mem = "whole")

LEMMA StaysClean ==
  ASSUME NEW p, NEW r, Become(p, r) \/ \E q : BecomeReaping(p, r, q), lack' = "no"
  PROVE  Clean(r) /\ lack = "no"
  BY DEF Become, BecomeReaping, Noted, Clean

LEMMA ReapingFacts ==
  ASSUME Typed, NEW p \in Pids, NEW r \in Process, NEW q \in Pids \ {p}, proc[q].kind = "zombie",
         BecomeReaping(p, r, q)
  PROVE  /\ proc'[p] = r /\ Reaped(q) /\ \A o \in Pids \ {p, q} : proc'[o] = proc[o]
         /\ proc' \in [Pids -> Process]
<1>1. proc \in [Pids -> Process] /\ proc[q] \in Process
  BY DEF Typed
<1>2. Gone(q) = [kind |-> "gone", ending |-> proc[q].ending]
  BY DEF Gone
<1>3. Gone(q) \in Process
  BY <1>1, <1>2, Kinds
<1> HIDE DEF Gone
<1>4. proc'[p] = r /\ proc'[q] = Gone(q) /\ \A o \in Pids \ {p, q} : proc'[o] = proc[o]
  BY <1>1 DEF BecomeReaping
<1>5. proc' \in [Pids -> Process]
  BY <1>1, <1>3 DEF BecomeReaping
<1> QED BY <1>2, <1>4, <1>5 DEF Reaped

LEMMA AgainFacts ==
  ASSUME NEW l \in Local
  PROVE  /\ Again(l) \in Local /\ Again(l).pc = "fill" /\ Again(l).parent = l.parent /\ Again(l).buf = l.buf
         /\ Again(l).arg = l.arg /\ Again(l).pend = l.pend /\ Again(l).argv = <<>>
<1>1. "fill" \in Pcs /\ <<>> \in Argvs
  BY DEF Pcs, Argvs
<1> QED BY <1>1 DEF Again, Local

LEMMA GiveUpFacts ==
  ASSUME NEW l \in Local, NEW err \in Int
  PROVE  /\ GiveUp(l, err) \in Local /\ GiveUp(l, err).pc = "out" /\ GiveUp(l, err).parent = l.parent
         /\ GiveUp(l, err).err = err
  BY DEF GiveUp, Local, Pcs

LEMMA RefinedFacts ==
  ASSUME NEW l \in Local, NEW r \in Refined(l)
  PROVE  r = Again(l) \/ (MayRefuse /\ ~Clean(r))
<1>1. Again(l) \in Local
  BY AgainFacts
<1>2. ASSUME NEW mem \in {"null", "bare"} PROVE ~Clean([Again(l) EXCEPT !.mem = mem])
  BY <1>1 DEF Local, Clean
<1>3. ~Clean(Torn(l.parent))
  BY DEF Clean, Torn
<1> QED BY <1>2, <1>3 DEF Refined

Put(l, arg) == [l EXCEPT !.argv = Append(@, arg), !.arg = <<>>, !.pend = FALSE]

LEMMA StoredFacts ==
  ASSUME NEW l \in Local, NEW arg \in Strings, NEW m \in Stored(l, arg)
  PROVE  m = Put(l, arg) \/ (MayRefuse /\ m = Torn(l.parent))
<1>1. l.mem = "whole" /\ [l EXCEPT !.argv = Append(@, arg), !.arg = <<>>, !.pend = FALSE, !.mem = "whole"] = Put(l, arg)
  BY DEF Local, Put
<1> QED BY <1>1 DEF Stored

LEMMA TornFacts == \A parent : Failed(Torn(parent)) /\ ~Clean(Torn(parent))
  BY DEF Failed, Torn, Clean

LEMMA PutFacts ==
  ASSUME NEW l \in Local, NEW arg \in Strings
  PROVE  /\ Put(l, arg) \in Local /\ Put(l, arg).pc = l.pc /\ Put(l, arg).parent = l.parent
         /\ Put(l, arg).buf = l.buf /\ Put(l, arg).arg = <<>> /\ Put(l, arg).argv = Append(l.argv, arg)
         /\ Put(l, arg).pend = FALSE
         /\ l.pc # "out" => ~Failed(Put(l, arg))
<1>1. Append(l.argv, arg) \in Argvs /\ <<>> \in Strings
  BY DEF Local, Argvs, Strings
<1> QED BY <1>1 DEF Put, Local, Failed

Waiting(l) == [l EXCEPT !.pc = "wait", !.err = ECHILD]

LEMMA WaitingFacts ==
  ASSUME NEW l \in Local
  PROVE  /\ Waiting(l) \in Local /\ Waiting(l).pc = "wait" /\ Waiting(l).parent = l.parent
         /\ Waiting(l).child = l.child /\ Waiting(l).buf = l.buf
         /\ Waiting(l).arg = l.arg /\ Waiting(l).pend = l.pend
<1>1. "wait" \in Pcs /\ ECHILD \in Int
  BY DEF Pcs, ECHILD
<1>2. Waiting(l) \in Local
  BY <1>1 DEF Local, Waiting
<1> QED BY <1>2 DEF Local, Waiting

\* Only a child on its way to do_exec() runs xvp's code apart from xvp itself.
LEMMA IsTop ==
  ASSUME Typed, NEW n \in Pids, NEW cut, Holds(n, cut), NEW p \in Pids
  PROVE  /\ \A pc \in Pcs \ {"exec", "again"} : Is(p, pc) => p = Top
         /\ p = Top => ~Is(p, "exec")
         /\ \A pc : Is(p, pc) => proc[p] \in Local /\ proc[p].kind = "xvp" /\ proc[p].pc = pc
<1>1. \A q \in Others : proc[q].kind = "xvp" => proc[q].pc \in {"exec", "again"}
  BY DEF Holds, Children, ChildOf
<1>2. proc[Top].kind = "xvp" => proc[Top].pc \in Looping \cup Leaving \cup {"out"}
  BY DEF Holds, Main, MainOf
<1>3. proc[p] \in Process
  BY DEF Typed
<1>4. \A pc \in Pcs \ {"exec", "again"} : Is(p, pc) => p = Top
  BY <1>1, PidFacts DEF Is
<1>5. p = Top => ~Is(p, "exec")
  BY <1>2 DEF Is, Looping, Leaving
<1>6. \A pc : Is(p, pc) => proc[p] \in Local /\ proc[p].kind = "xvp" /\ proc[p].pc = pc
  BY <1>3, Kinds DEF Is
<1> QED BY <1>4, <1>5, <1>6

LEMMA Loops ==
  ASSUME NEW g, NEW off, NEW isListed, NEW n, NEW last, NEW m, NEW t, MainOf(g, off, isListed, n, last, m, t),
         m.kind = "xvp", NEW off2, NEW r \in Local, r.parent = m.parent, r.pc \in Looping,
         r.pc \in {"reap", "wait"} => r.child = n /\ n # Top, r.pc = "wait" => ~g.noWait,
         \E pos \in 0 .. off2 : Reading(g, off2, last, r, pos)
  PROVE  MainOf(g, off2, isListed, n, last, r, t)
<1>1. r.kind = "xvp" /\ r.pc \notin Leaving \cup {"out"} /\ r.pc # "again" /\ r.pc \notin {"last", "again"}
  BY LocalFacts DEF Looping, Leaving
<1> QED BY <1>1 DEF MainOf

LEMMA Outs ==
  ASSUME NEW g, NEW off, NEW isListed, NEW n, NEW last, NEW m, NEW t, MainOf(g, off, isListed, n, last, m, t),
         m.kind = "xvp", NEW off2, NEW r \in Local, r.parent = m.parent, r.pc = "out",
         ~CalmCase(g), g.forceOnce => r.err # 0
  PROVE  MainOf(g, off2, isListed, n, last, r, t)
<1>1. r.kind = "xvp" /\ r.pc \notin Leaving \cup Looping
  BY LocalFacts DEF Looping, Leaving
<1> QED BY <1>1 DEF MainOf

LEMMA Leaves ==
  ASSUME NEW g, NEW off, NEW isListed, NEW n, NEW last, NEW m, NEW t, MainOf(g, off, isListed, n, last, m, t),
         m.kind = "xvp", NEW listed2, NEW r \in Local, r.parent = m.parent, r.pc \in Leaving,
         r.pc = "again" => g.noWait /\ r.argv # <<>>, r.pc \in {"last", "again"} => ~(g.unlink /\ listed2),
         LastBatch(g, off, last, r.argv),
         TidyCase(g) => RawSize(g.initSize, r.argv) <= SizeArgs + Padding * Ptr
  PROVE  MainOf(g, off, listed2, n, last, r, t)
<1>1. /\ r.kind = "xvp" /\ r.pc \notin Looping \cup {"out"} /\ r.pc \notin {"reap", "wait"} /\ r.pc # "wait"
      /\ r.pc # "out"
  BY LocalFacts DEF Looping, Leaving
<1> QED BY <1>1 DEF MainOf

LEMMA MainTurns ==
  ASSUME Typed, NEW n \in Pids, NEW cut \in [Pids -> Nat], Holds(n, cut), UNCHANGED <<given, ran>>,
         stray' \in SUBSET Pids, stray \subseteq stray',
         offset' \in 0 .. Len(given.list), listed' \in BOOLEAN, proc' \in [Pids -> Process],
         \A q \in Others : proc'[q] = proc[q] \/ Reaped(q),
         MainOf(given, offset', listed', n, cut[n], proc'[Top], ran[Top]),
         ~given.noWait /\ At({"reap", "wait"}) =>
           At({"reap", "wait"})' \/ n = Top \/ proc'[n].kind \notin {"xvp", "program"},
         given.strict /\ n \in Others /\ HasFailed(n) /\ HasFailed(n)' =>
           \/ At({"reap", "wait"})' /\ proc'[n].kind = "zombie"
           \/ At({"out"})'
           \/ proc'[Top].kind = "zombie" /\ ran[Top] = <<>>
  PROVE  Typed' /\ Holds(n, cut)'
<1>1. Typed'
  BY DEF Typed
<1>2. Holds(n, cut)'
  BY MainMoves
<1> QED BY <1>1, <1>2

\* A step that changes xvp's own variables alone.
LEMMA MainAlone ==
  ASSUME Typed, NEW n \in Pids, NEW cut \in [Pids -> Nat], Holds(n, cut), UNCHANGED <<given, ran, stray>>,
         offset' \in 0 .. Len(given.list), listed' \in BOOLEAN,
         NEW r \in Process, Become(Top, r),
         MainOf(given, offset', listed', n, cut[n], r, ran[Top]),
         ~given.noWait /\ At({"reap", "wait"}) =>
           (r.kind = "xvp" /\ r.pc \in {"reap", "wait"}) \/ n = Top \/ proc[n].kind \notin {"xvp", "program"},
         given.strict /\ n \in Others /\ HasFailed(n) =>
           \/ r.kind = "xvp" /\ r.pc \in {"reap", "wait"} /\ proc[n].kind = "zombie"
           \/ r.kind = "xvp" /\ r.pc = "out"
           \/ r.kind = "zombie" /\ ran[Top] = <<>>
  PROVE  Typed' /\ Holds(n, cut)'
<1>1. proc'[Top] = r /\ (\A q \in Pids \ {Top} : proc'[q] = proc[q]) /\ proc' \in [Pids -> Process]
  BY PidFacts, BecomeFacts
<1>2. \A q \in Others : proc'[q] = proc[q]
  BY <1>1 DEF Others
<1>3. n # Top => proc'[n] = proc[n] /\ n \in Others
  BY <1>2, PidFacts
<1>4. \A pcs : At(pcs)' <=> r.kind = "xvp" /\ r.pc \in pcs
  BY <1>1 DEF At
<1>5. stray' \in SUBSET Pids /\ stray \subseteq stray'
  BY DEF Typed
<1>6. At({"reap", "wait"})' <=> r.kind = "xvp" /\ r.pc \in {"reap", "wait"}
  BY <1>1 DEF At
<1>7. At({"out"})' <=> r.kind = "xvp" /\ r.pc = "out"
  BY <1>1 DEF At
<1> QED BY <1>1, <1>2, <1>3, <1>5, <1>6, <1>7, MainTurns

LEMMA StoppedFacts ==
  ASSUME NEW n, NEW cut, Holds(n, cut), given.strict, n \in Others, HasFailed(n)
  PROVE  At({"reap", "wait", "out"}) \/ proc[Top].kind = "zombie"
  BY DEF Holds, Stopped, At

LEMMA ReadingKept ==
  ASSUME NEW g, NEW off, NEW last, NEW m \in Local, NEW pos, Reading(g, off, last, m, pos),
         NEW r \in Local, r.buf = m.buf, r.arg = m.arg, r.pend = m.pend, r.argv = <<>>,
         m.pc = "open" /\ r.pc = "fill"
  PROVE  Reading(g, off, last, r, pos)
<1>1. Held(r) = Held(m)
  BY DEF Held
<1> QED BY <1>1 DEF Reading

LEMMA OpenStep ==
  ASSUME Typed, Roomy, NEW n \in Pids, NEW cut \in [Pids -> Nat], Holds(n, cut), NEW p \in Pids, Open(p), lack' = "no"
  PROVE  Typed' /\ Holds(n, cut)'
<1>1. p = Top /\ proc[p] \in Local /\ proc[p].kind = "xvp" /\ proc[p].pc = "open"
  BY IsTop DEF Open, Pcs
<1> DEFINE m == proc[Top]
<1>2. MainOf(given, offset, listed, n, cut[n], m, ran[Top])
  BY DEF Holds, Main
<1>3. m.parent = 0 /\ ran[Top] = <<>>
  BY <1>1, <1>2 DEF MainOf
<1>4. UNCHANGED <<given, offset, listed, ran, stray>>
  BY DEF Open
<1>5. offset' \in 0 .. Len(given.list) /\ listed' \in BOOLEAN
  BY <1>4 DEF Typed
<1>6. /\ ~At({"reap", "wait"})
      /\ ~(given.strict /\ n \in Others /\ HasFailed(n))
  BY <1>1, StoppedFacts DEF At
<1>7. ASSUME NEW x \in Refined(m), Become(p, x) PROVE Typed' /\ Holds(n, cut)'
  <2> DEFINE r == Again(m)
  <2>0. x = r
    BY <1>1, <1>7, RefinedFacts, StaysClean
  <2>1. /\ r \in Local /\ r.pc = "fill" /\ r.parent = m.parent /\ r.buf = m.buf /\ r.arg = m.arg
        /\ r.pend = m.pend /\ r.argv = <<>>
    BY <1>1, AgainFacts
  <2>2. Become(Top, r)
    BY <1>1, <1>7, <2>0
  <2> HIDE DEF r
  <2>3. PICK pos \in 0 .. offset : Reading(given, offset, cut[n], m, pos)
    BY <1>1, <1>2 DEF MainOf, Looping
  <2>4. Reading(given, offset, cut[n], r, pos)
    BY <1>1, <2>1, <2>3, ReadingKept
  <2>5. MainOf(given, offset', listed', n, cut[n], r, ran[Top])
    BY <1>1, <1>2, <1>4, <2>1, <2>4, Loops DEF Looping
  <2>6. r \in Process
    BY <2>1, Kinds
  <2> QED BY <1>4, <1>5, <1>6, <2>2, <2>5, <2>6, MainAlone
<1>8. ASSUME NEW e \in {EACCES, ENOMEM}, given.faults # {}, Become(p, Zombie(proc[p].parent, e))
      PROVE  Typed' /\ Holds(n, cut)'
  <2> DEFINE r == Zombie(0, e)
  <2>1. Become(Top, r)
    BY <1>1, <1>3, <1>8
  <2>2. r \in Process /\ r.kind = "zombie" /\ r.parent = 0 /\ r.ending = e
    BY <1>8, Kinds DEF EACCES, ENOMEM
  <2> HIDE DEF r
  <2>3. MainOf(given, offset', listed', n, cut[n], r, ran[Top])
    BY <1>1, <1>2, <1>3, <1>4, <1>8, <2>2 DEF MainOf, CalmCase, EACCES, ENOMEM
  <2> QED BY <1>4, <1>5, <1>6, <2>1, <2>2, <2>3, MainAlone
<1>9. \/ \E x \in Refined(m) : Become(p, x)
      \/ \E e \in {EACCES, ENOMEM} : given.faults # {} /\ Become(p, Zombie(proc[p].parent, e))
  BY <1>1 DEF Open, MayRefuse
<1> QED BY <1>7, <1>8, <1>9

LEMMA FillStep ==
  ASSUME Typed, Roomy, NEW n \in Pids, NEW cut \in [Pids -> Nat], Holds(n, cut), NEW p \in Pids, Fill(p), lack' = "no"
  PROVE  Typed' /\ Holds(n, cut)'
<1>1. p = Top /\ proc[p] \in Local /\ proc[p].kind = "xvp" /\ proc[p].pc = "fill"
  BY IsTop DEF Fill, Pcs
<1> DEFINE m == proc[Top]
           argv == IF m.pend THEN Append(m.argv, m.arg) ELSE m.argv
           arg  == IF m.pend THEN <<>> ELSE m.arg
           now(pc, buf, rest, all) ==
             [m EXCEPT !.pc = pc, !.pend = FALSE, !.buf = buf, !.arg = rest, !.argv = all]
<1>2. MainOf(given, offset, listed, n, cut[n], m, ran[Top])
  BY DEF Holds, Main
<1>3. m.parent = 0 /\ ran[Top] = <<>>
  BY <1>1, <1>2 DEF MainOf
<1>4. UNCHANGED <<given, listed, ran, stray>>
  BY DEF Fill
<1>5. given \in Cases /\ RoomyCase(given) /\ offset \in 0 .. Len(given.list) /\ listed' \in BOOLEAN /\ cut[n] \in Nat
  BY <1>4 DEF Typed, Roomy
<1>6. /\ ~At({"reap", "wait"})
      /\ ~(given.strict /\ n \in Others /\ HasFailed(n))
  BY <1>1, StoppedFacts DEF At
<1>7. PICK pos \in 0 .. offset : Reading(given, offset, cut[n], m, pos)
  BY <1>1, <1>2 DEF MainOf, Looping
<1>8. argv \in Argvs /\ arg \in Strings
  <2>1. m.argv \in Seq(Strings) /\ m.arg \in Strings /\ <<>> \in Strings
    BY <1>1, LocalFacts DEF Argvs, Strings
  <2> QED BY <2>1 DEF Argvs
<1>9. Filled(given, cut[n], m, pos, argv, arg)
  BY <1>1, <1>5, <1>7, ReadFill
<1>10. ASSUME NEW pc \in Pcs, NEW buf \in Strings, NEW rest \in Strings, NEW all \in Argvs
       PROVE  /\ now(pc, buf, rest, all) \in Local /\ now(pc, buf, rest, all).pc = pc
              /\ now(pc, buf, rest, all).parent = m.parent /\ now(pc, buf, rest, all).buf = buf
              /\ now(pc, buf, rest, all).arg = rest /\ ~now(pc, buf, rest, all).pend
              /\ now(pc, buf, rest, all).argv = all
  BY <1>1 DEF Local
<1>11. \/ /\ m.buf # <<>>
          /\ Become(Top, now("scan", m.buf, arg, argv)) /\ UNCHANGED offset
       \/ /\ m.buf = <<>>
          /\ \E k \in 1 .. Min({ReadBuf, Len(given.list) - offset}) :
               /\ Become(Top, now("scan", SubSeq(given.list, offset + 1, offset + k), arg, argv))
               /\ offset' = offset + k
       \/ /\ m.buf = <<>> /\ (offset = Len(given.list) \/ "read" \in given.faults)
          /\ IF arg = <<>> \/ TooLong(arg)
             THEN Become(Top, now("close", <<>>, arg, argv))
             ELSE Become(Top, now("close", <<>>, <<>>, Append(argv, arg)))
          /\ UNCHANGED offset
  <2> DEFINE base == [m EXCEPT !.pend = FALSE, !.arg = arg, !.argv = argv]
  <2>1. /\ base \in Local /\ base.buf = m.buf /\ base.arg = arg /\ base.argv = argv /\ base.pc = "fill"
        /\ base.pend = FALSE /\ ~Failed(base)
    BY <1>1, <1>8 DEF Local, Failed
  <2>2. /\ m.pend => base = Put(m, m.arg)
        /\ ~m.pend => base = m
    <3>1. ~m.pend => m.pend = FALSE
      BY <1>1, LocalFacts
    <3>2. m \in Local
      BY <1>1
    <3> QED BY <3>1, <3>2 DEF Put, Local
  <2>3. \A pc \in Pcs, buf \in Strings :
          [base EXCEPT !.pc = pc, !.buf = buf] = now(pc, buf, arg, argv)
    BY <1>1, <1>8 DEF Local
  <2>4. [base EXCEPT !.pc = "scan"] = now("scan", m.buf, arg, argv)
    BY <1>1, <1>8 DEF Local
  <2>5. m.buf = <<>> => [base EXCEPT !.pc = "close"] = now("close", <<>>, arg, argv)
    BY <1>1, <1>8 DEF Local
  <2>6. m.buf = <<>> => [Put(base, arg) EXCEPT !.pc = "close"] = now("close", <<>>, <<>>, Append(argv, arg))
    BY <1>1, <1>8 DEF Local, Put
  <2>7. ASSUME NEW k \in 1 .. Min({ReadBuf, Len(given.list) - offset})
        PROVE  [base EXCEPT !.pc = "scan", !.buf = SubSeq(given.list, offset + 1, offset + k)]
                 = now("scan", SubSeq(given.list, offset + 1, offset + k), arg, argv)
    BY <1>1, <1>8 DEF Local
  <2>8. PICK l \in IF m.pend THEN Stored(m, m.arg) ELSE {m} :
          IF Failed(l) THEN Become(Top, l) /\ UNCHANGED offset
          ELSE \/ /\ l.buf # <<>>
                  /\ Become(Top, [l EXCEPT !.pc = "scan"]) /\ UNCHANGED offset
               \/ /\ l.buf = <<>>
                  /\ \E k \in 1 .. Min({ReadBuf, Len(given.list) - offset}) :
                       /\ Become(Top, [l EXCEPT !.pc = "scan", !.buf = SubSeq(given.list, offset + 1, offset + k)])
                       /\ offset' = offset + k
               \/ /\ l.buf = <<>> /\ (offset = Len(given.list) \/ "read" \in given.faults)
                  /\ \E x \in IF l.arg = <<>> \/ TooLong(l.arg) THEN {l} ELSE Stored(l, l.arg) :
                       Become(Top, IF Failed(x) THEN x ELSE [x EXCEPT !.pc = "close"])
                  /\ UNCHANGED offset
    <3> HIDE DEF base, now, argv, arg
    <3> QED BY <1>1, Zenon DEF Fill
  <2>9. l = base
    <3>1. m.pend => l = base \/ l = Torn(m.parent)
      <4> SUFFICES ASSUME m.pend PROVE l = base \/ l = Torn(m.parent)
        OBVIOUS
      <4>1. m \in Local /\ m.arg \in Strings
        BY <1>1, LocalFacts
      <4>2. l \in Stored(m, m.arg)
        BY <2>8
      <4> HIDE DEF base, m
      <4>3. l = Put(m, m.arg) \/ l = Torn(m.parent)
        BY <4>1, <4>2, StoredFacts
      <4> QED BY <2>2, <4>3
    <3>2. l = Torn(m.parent) => ~Clean(l) /\ Become(Top, l)
      BY <2>8, TornFacts
    <3> HIDE DEF base
    <3>3. ~m.pend => l = m
      BY <2>8
    <3> QED BY <2>2, <3>1, <3>2, <3>3, StaysClean
  <2> HIDE DEF base, argv, now
  <2>10. CASE m.buf # <<>>
    BY <2>1, <2>4, <2>8, <2>9, <2>10
  <2>11. ASSUME m.buf = <<>>, NEW k \in 1 .. Min({ReadBuf, Len(given.list) - offset}),
                Become(Top, [l EXCEPT !.pc = "scan", !.buf = SubSeq(given.list, offset + 1, offset + k)]),
                offset' = offset + k
         PROVE  Become(Top, now("scan", SubSeq(given.list, offset + 1, offset + k), arg, argv))
    BY <2>7, <2>9, <2>11
  <2>12. ASSUME m.buf = <<>>, NEW x \in IF l.arg = <<>> \/ TooLong(l.arg) THEN {l} ELSE Stored(l, l.arg),
                Become(Top, IF Failed(x) THEN x ELSE [x EXCEPT !.pc = "close"])
         PROVE  IF arg = <<>> \/ TooLong(arg)
                THEN Become(Top, now("close", <<>>, arg, argv))
                ELSE Become(Top, now("close", <<>>, <<>>, Append(argv, arg)))
    <3>1. CASE arg = <<>> \/ TooLong(arg)
      <4>1. x = base
        BY <2>1, <2>9, <2>12, <3>1
      <4> QED BY <2>1, <2>5, <2>12, <3>1, <4>1
    <3>2. CASE ~(arg = <<>> \/ TooLong(arg))
      <4>1. x = Put(base, arg) \/ x = Torn(base.parent)
        BY <1>8, <2>1, <2>9, <2>12, <3>2, StoredFacts
      <4>2. x # Torn(base.parent)
        BY <2>12, TornFacts, StaysClean
      <4>3. x = Put(base, arg) /\ ~Failed(x)
        BY <1>8, <2>1, <4>1, <4>2, PutFacts
      <4> QED BY <2>6, <2>12, <3>2, <4>3
    <3> QED BY <3>1, <3>2
  <2>13. ~Failed(l) /\ l.buf = m.buf
    BY <2>1, <2>9
  <2> QED BY <2>8, <2>10, <2>11, <2>12, <2>13
<1> HIDE DEF now, argv, arg
<1>12. CASE m.buf # <<>> /\ Become(Top, now("scan", m.buf, arg, argv)) /\ UNCHANGED offset
  <2> DEFINE r == now("scan", m.buf, arg, argv)
  <2>1. m.buf \in Strings
    BY <1>1, LocalFacts
  <2>2. r \in Local /\ r.pc = "scan" /\ r.parent = m.parent /\ r.buf = m.buf /\ r.arg = arg /\ ~r.pend /\ r.argv = argv
    BY <1>8, <1>10, <2>1 DEF Pcs
  <2> HIDE DEF r
  <2>3. Reading(given, offset, cut[n], r, pos)
    BY <1>1, <1>5, <1>7, <1>9, <1>12, <2>2, ReadOn
  <2>4. MainOf(given, offset', listed', n, cut[n], r, ran[Top])
    BY <1>1, <1>2, <1>4, <1>12, <2>2, <2>3, Loops DEF Looping
  <2>5. r \in Process /\ Become(Top, r) /\ offset' \in 0 .. Len(given.list)
    BY <1>5, <1>12, <2>2, Kinds DEF r
  <2> QED BY <1>4, <1>5, <1>6, <2>4, <2>5, MainAlone
<1>13. ASSUME m.buf = <<>>, NEW k \in 1 .. Min({ReadBuf, Len(given.list) - offset}),
              Become(Top, now("scan", SubSeq(given.list, offset + 1, offset + k), arg, argv)), offset' = offset + k
       PROVE  Typed' /\ Holds(n, cut)'
  <2> DEFINE buf == SubSeq(given.list, offset + 1, offset + k)
             r == now("scan", buf, arg, argv)
  <2>1. k \in Nat /\ k >= 1 /\ offset + k <= Len(given.list) /\ offset + k \in 0 .. Len(given.list)
    <3>1. Len(given.list) \in Nat /\ offset \in Nat /\ ReadBuf \in Nat
      BY <1>5, GivenFacts, PtrIsPositive
    <3>2. Min({ReadBuf, Len(given.list) - offset}) <= Len(given.list) - offset
          /\ Min({ReadBuf, Len(given.list) - offset}) \in Int
      <4> DEFINE S == {ReadBuf, Len(given.list) - offset}
      <4>1. \E x \in S : \A y \in S : x <= y
        BY <3>1
      <4>2. Min(S) \in S /\ \A y \in S : Min(S) <= y
        <5> HIDE DEF S
        <5> QED BY <4>1 DEF Min
      <4> QED BY <3>1, <4>2
    <3> HIDE DEF Min
    <3> QED BY <3>1, <3>2
  <2>2. buf \in Strings
    <3>1. given.list \in Seq(Nat) /\ offset \in Nat /\ Len(given.list) \in Nat
      BY <1>5, GivenFacts DEF Strings
    <3>2. \A i \in offset + 1 .. offset + k : i \in 1 .. Len(given.list)
      BY <2>1, <3>1
    <3>3. \A i \in offset + 1 .. offset + k : given.list[i] \in Nat
      BY <3>1, <3>2
    <3> QED BY <2>1, <3>1, <3>3 DEF Strings
  <2> HIDE DEF buf
  <2>3. r \in Local /\ r.pc = "scan" /\ r.parent = m.parent /\ r.buf = buf /\ r.arg = arg /\ ~r.pend /\ r.argv = argv
    BY <1>8, <1>10, <2>2 DEF Pcs
  <2> HIDE DEF r
  <2>4. offset \in 0 .. offset + k /\ Reading(given, offset + k, cut[n], r, offset)
    BY <1>1, <1>5, <1>7, <1>9, <1>13, <2>1, <2>3, ReadMore DEF buf
  <2>5. MainOf(given, offset', listed', n, cut[n], r, ran[Top])
    BY <1>1, <1>2, <1>4, <1>13, <2>3, <2>4, Loops DEF Looping
  <2>6. r \in Process /\ Become(Top, r) /\ offset' \in 0 .. Len(given.list)
    BY <1>13, <2>1, <2>3, Kinds DEF r, buf
  <2> QED BY <1>4, <1>5, <1>6, <2>5, <2>6, MainAlone
<1>14. ASSUME m.buf = <<>>, offset = Len(given.list) \/ "read" \in given.faults,
              IF arg = <<>> \/ TooLong(arg)
              THEN Become(Top, now("close", <<>>, arg, argv))
              ELSE Become(Top, now("close", <<>>, <<>>, Append(argv, arg))),
              UNCHANGED offset
       PROVE  Typed' /\ Holds(n, cut)'
  <2> DEFINE all == IF arg = <<>> \/ TooLong(arg) THEN argv ELSE Append(argv, arg)
             left == IF arg = <<>> \/ TooLong(arg) THEN arg ELSE <<>>
             r == now("close", <<>>, left, all)
  <2>1. all \in Argvs /\ left \in Strings /\ <<>> \in Strings
    BY <1>8 DEF Argvs, Strings
  <2>2. Become(Top, r)
    BY <1>14
  <2> HIDE DEF left
  <2>3. /\ LastBatch(given, offset, cut[n], all)
        /\ TidyCase(given) => RawSize(given.initSize, all) <= SizeArgs + Padding * Ptr
    BY <1>1, <1>5, <1>7, <1>8, <1>9, <1>14, ReadLast
  <2> HIDE DEF all
  <2>4. r \in Local /\ r.pc = "close" /\ r.parent = m.parent /\ r.argv = all
    BY <1>10, <2>1 DEF Pcs
  <2> HIDE DEF r
  <2>5. MainOf(given, offset, listed', n, cut[n], r, ran[Top])
    BY <1>1, <1>2, <2>3, <2>4, Leaves DEF Leaving
  <2>6. r \in Process /\ offset' \in 0 .. Len(given.list) /\ offset' = offset
    BY <1>5, <1>14, <2>4, Kinds
  <2> QED BY <1>4, <1>5, <1>6, <2>2, <2>5, <2>6, MainAlone
<1> QED BY <1>11, <1>12, <1>13, <1>14, Zenon

LEMMA ScanStep ==
  ASSUME Typed, Roomy, NEW n \in Pids, NEW cut \in [Pids -> Nat], Holds(n, cut), NEW p \in Pids, Scan(p), lack' = "no"
  PROVE  Typed' /\ Holds(n, cut)'
<1>1. p = Top /\ proc[p] \in Local /\ proc[p].kind = "xvp" /\ proc[p].pc = "scan"
  BY IsTop DEF Scan, Pcs
<1> DEFINE m    == proc[Top]
           b    == Block(m.buf)
           arg  == m.arg \o SubSeq(m.buf, 1, b)
           rest == SubSeq(m.buf, b + 2, Len(m.buf))
           next == IF rest = <<>> THEN "fill" ELSE "scan"
<1>2. MainOf(given, offset, listed, n, cut[n], m, ran[Top])
  BY DEF Holds, Main
<1>3. UNCHANGED <<given, offset, listed, ran, stray>>
  BY DEF Scan
<1>4. /\ given \in Cases /\ RoomyCase(given) /\ offset \in 0 .. Len(given.list) /\ listed' \in BOOLEAN
      /\ offset' \in 0 .. Len(given.list) /\ cut[n] \in Nat
  BY <1>3 DEF Typed, Roomy
<1>5. /\ ~At({"reap", "wait"})
      /\ ~(given.strict /\ n \in Others /\ HasFailed(n))
  BY <1>1, StoppedFacts DEF At
<1>6. PICK pos \in 0 .. offset : Reading(given, offset, cut[n], m, pos)
  BY <1>1, <1>2 DEF MainOf, Looping
<1>7. StringAhead(given, offset, pos, m.buf, b, arg, rest)
  BY <1>1, <1>4, <1>6, IsStringAhead
<1>8. IsFull(m, Len(arg)) <=> WordSize(given.initSize, m.argv) + Len(arg) + 1 >= SizeArgs
  BY <1>1, LocalFacts, SizesOf DEF IsFull
<1>9. IF b = Len(m.buf)
      THEN Become(Top, [m EXCEPT !.pc = "fill", !.buf = <<>>, !.arg = arg])
      ELSE IF TooLong(arg)
      THEN Become(Top, [m EXCEPT !.pc = next, !.buf = rest, !.arg = <<>>])
      ELSE IF IsFull(m, Len(arg))
      THEN Become(Top, [m EXCEPT !.pc = "fork", !.buf = rest, !.arg = arg, !.pend = TRUE])
      ELSE \E x \in Stored([m EXCEPT !.buf = rest], arg) :
             Become(Top, IF Failed(x) THEN x ELSE [x EXCEPT !.pc = IF IsFull(x, 0) THEN "fork" ELSE next])
  BY <1>1 DEF Scan
<1> HIDE DEF b, arg, rest
<1>10. /\ arg \in Strings /\ rest \in Strings /\ <<>> \in Strings /\ ~m.pend /\ m.argv \in Argvs
       /\ m.argv \in Argvs
  <2>1. ~m.pend
    BY <1>1, <1>6 DEF Reading
  <2> QED BY <1>1, <1>7, <2>1, LocalFacts DEF StringAhead, Strings
<1>11. ASSUME NEW r \in Local, Become(Top, r), r.parent = m.parent, r.pc \in {"fill", "scan", "fork"},
              \E q \in 0 .. offset : Reading(given, offset, cut[n], r, q)
       PROVE  Typed' /\ Holds(n, cut)'
  <2>1. MainOf(given, offset', listed', n, cut[n], r, ran[Top])
    BY <1>1, <1>2, <1>3, <1>11, Loops DEF Looping
  <2>2. r \in Process
    BY Kinds
  <2> QED BY <1>3, <1>4, <1>5, <1>11, <2>1, <2>2, MainAlone
<1>12. CASE b = Len(m.buf)
  <2> DEFINE r == [m EXCEPT !.pc = "fill", !.buf = <<>>, !.arg = arg]
  <2>1. /\ r \in Local /\ r.pc = "fill" /\ r.parent = m.parent /\ r.buf = <<>> /\ r.arg = arg
        /\ r.pend = m.pend /\ r.argv = m.argv
    BY <1>1, <1>10 DEF Local, Pcs
  <2>2. Become(Top, r)
    BY <1>9, <1>12
  <2> HIDE DEF r
  <2>3. offset \in 0 .. offset /\ Reading(given, offset, cut[n], r, offset)
    BY <1>1, <1>4, <1>6, <1>7, <1>10, <1>12, <2>1, ScanEnd
  <2> QED BY <1>11, <2>1, <2>2, <2>3
<1>13. CASE b # Len(m.buf) /\ TooLong(arg)
  <2> DEFINE r == [m EXCEPT !.pc = next, !.buf = rest, !.arg = <<>>]
  <2>1. /\ r \in Local /\ r.pc = next /\ r.parent = m.parent /\ r.buf = rest /\ r.arg = <<>>
        /\ r.pend = m.pend /\ r.argv = m.argv
    BY <1>1, <1>10 DEF Local, Pcs
  <2>2. Become(Top, r)
    BY <1>9, <1>13
  <2> HIDE DEF r
  <2>3. \E q \in 0 .. offset : Reading(given, offset, cut[n], r, q)
    <3>1. (rest = <<>> => r.pc = "fill") /\ (rest # <<>> => r.pc = "scan")
      BY <2>1
    <3> HIDE DEF next
    <3> QED BY <1>1, <1>4, <1>6, <1>7, <1>10, <1>13, <2>1, <3>1, ScanLong
  <2> QED BY <1>11, <2>1, <2>2, <2>3
<1>14. CASE b # Len(m.buf) /\ ~TooLong(arg) /\ IsFull(m, Len(arg))
  <2> DEFINE r == [m EXCEPT !.pc = "fork", !.buf = rest, !.arg = arg, !.pend = TRUE]
  <2>1. /\ r \in Local /\ r.pc = "fork" /\ r.parent = m.parent /\ r.buf = rest /\ r.arg = arg
        /\ r.pend /\ r.argv = m.argv
    BY <1>1, <1>10 DEF Local, Pcs
  <2>2. Become(Top, r)
    BY <1>9, <1>14
  <2> HIDE DEF r
  <2>3. \E q \in 0 .. offset : Reading(given, offset, cut[n], r, q)
    BY <1>1, <1>4, <1>6, <1>7, <1>8, <1>10, <1>14, <2>1, ScanFull
  <2> QED BY <1>11, <2>1, <2>2, <2>3
<1>15. CASE b # Len(m.buf) /\ ~TooLong(arg) /\ ~IsFull(m, Len(arg))
  <2> DEFINE y  == [m EXCEPT !.buf = rest]
             z  == Put(y, arg)
             pc == IF IsFull(z, 0) THEN "fork" ELSE next
             r  == [z EXCEPT !.pc = pc]
  <2>0. y \in Local /\ y.pc = "scan" /\ y.buf = rest /\ y.argv = m.argv /\ y.parent = m.parent
    BY <1>1, <1>10 DEF Local
  <2>00. /\ z \in Local /\ z.parent = m.parent /\ z.buf = rest /\ z.arg = <<>> /\ z.argv = Append(m.argv, arg)
         /\ z.pend = FALSE /\ ~Failed(z)
    <3> HIDE DEF y
    <3>1. /\ Put(y, arg) \in Local /\ Put(y, arg).parent = y.parent /\ Put(y, arg).buf = y.buf
          /\ Put(y, arg).arg = <<>> /\ Put(y, arg).argv = Append(y.argv, arg)
          /\ Put(y, arg).pend = FALSE
      BY <1>10, <2>0, PutFacts
    <3>2. ~Failed(Put(y, arg))
      BY <1>10, <2>0, PutFacts
    <3> QED BY <2>0, <3>1, <3>2
  <2>1. pc \in {"fork", next} /\ pc \in {"fill", "scan", "fork"} /\ Append(m.argv, arg) \in Argvs
    BY <1>10 DEF Argvs
  <2>2. Become(Top, r)
    <3>1. PICK x \in Stored(y, arg) : Become(Top, IF Failed(x) THEN x ELSE [x EXCEPT !.pc = IF IsFull(x, 0) THEN "fork" ELSE next])
      BY <1>9, <1>15
    <3> HIDE DEF y
    <3>2. x = z \/ x = Torn(y.parent)
      BY <1>10, <2>0, StoredFacts
    <3> HIDE DEF z
    <3>3. x = z
      BY <3>1, <3>2, TornFacts, StaysClean
    <3> QED BY <2>00, <3>1, <3>3
  <2> HIDE DEF y, z
  <2> HIDE DEF pc
  <2>3. /\ r \in Local /\ r.pc = pc /\ r.parent = m.parent /\ r.buf = rest /\ r.arg = <<>>
        /\ r.pend = m.pend /\ r.argv = Append(m.argv, arg)
    <3>1. m.pend = FALSE
      BY <1>1, <1>10, LocalFacts
    <3>2. /\ r \in Local /\ r.pc = pc /\ r.parent = z.parent /\ r.buf = z.buf /\ r.arg = z.arg
          /\ r.pend = z.pend /\ r.argv = z.argv
      BY <2>00, <2>1 DEF Local, Pcs
    <3> QED BY <2>00, <3>1, <3>2
  <2> HIDE DEF r
  <2>4. \E q \in 0 .. offset : Reading(given, offset, cut[n], r, q)
    BY <1>1, <1>4, <1>6, <1>7, <1>8, <1>10, <1>15, <2>1, <2>3, ScanAdd
  <2> QED BY <1>11, <2>1, <2>2, <2>3, <2>4
<1> QED BY <1>12, <1>13, <1>14, <1>15

\* A step that gives up.
LEMMA GivesUp ==
  ASSUME Typed, NEW n \in Pids, NEW cut \in [Pids -> Nat], Holds(n, cut), proc[Top] \in Local,
         UNCHANGED <<given, offset, listed, ran, stray>>,
         NEW err \in Int, Become(Top, GiveUp(proc[Top], err)), ~CalmCase(given), given.forceOnce => err # 0,
         ~given.noWait /\ At({"reap", "wait"}) => n = Top \/ proc[n].kind \notin {"xvp", "program"}
  PROVE  Typed' /\ Holds(n, cut)'
<1> DEFINE m == proc[Top]
           r == GiveUp(m, err)
<1>1. r \in Local /\ r.pc = "out" /\ r.err = err /\ r.parent = m.parent
  BY DEF Local, GiveUp, Pcs
<1>2. r \in Process /\ r.kind = "xvp" /\ m.kind = "xvp"
  BY <1>1, Kinds, LocalFacts
<1> HIDE DEF r
<1>3. MainOf(given, offset, listed, n, cut[n], m, ran[Top])
  BY DEF Holds, Main
<1>4. MainOf(given, offset', listed', n, cut[n], r, ran[Top])
  BY <1>1, <1>2, <1>3, Outs
<1>5. offset' \in 0 .. Len(given.list) /\ listed' \in BOOLEAN
  BY DEF Typed
<1> QED BY <1>1, <1>2, <1>4, <1>5, MainAlone DEF r

\* The top of the loop, with an empty batch.
LEMMA ReadAgain ==
  ASSUME NEW g \in Cases, NEW off \in 0 .. Len(g.list), NEW last \in Nat, NEW m \in Local,
         NEW pos \in 0 .. off, Reading(g, off, last, m, pos), m.pc \in {"reap", "wait"},
         NEW r \in Local, r.pc = "fill", r.buf = m.buf, r.arg = m.arg, r.pend = m.pend, r.argv = <<>>
  PROVE  Reading(g, off, last, r, pos)
<1>1. last = Count(g.list, pos) - Held(m) /\ Held(r) = Held(m)
  BY DEF Reading, Held
<1>2. Wanted(g.list) \in Argvs /\ last <= Len(Wanted(g.list))
  <2>1. Count(g.list, pos) \in Nat /\ Count(g.list, pos) <= Len(Wanted(g.list)) /\ pos \in 0 .. Len(g.list)
    BY ReadingFacts
  <2>2. Wanted(g.list) \in Argvs /\ Len(Wanted(g.list)) \in Nat
    BY <2>1, PlaceFacts
  <2>3. Held(m) \in {0, 1}
    BY LocalFacts
  <2> QED BY <1>1, <2>1, <2>2, <2>3
<1>3. SubSeq(Wanted(g.list), last + 1, last) = <<>>
  BY <1>2, ArgCuts
<1>4. Sized(g, r.argv)
  BY SizedEmpty
<1>5. last <= last
  OBVIOUS
<1> QED BY <1>1, <1>3, <1>4, <1>5 DEF Reading

LEMMA RefinedMain ==
  ASSUME Typed, NEW n \in Pids, NEW cut \in [Pids -> Nat], NEW t, NEW m \in Local,
         MainOf(given, offset, listed, n, cut[n], m, t), m.pc \in {"reap", "wait"},
         NEW l \in Local, l.parent = m.parent, l.buf = m.buf, l.arg = m.arg, l.pend = m.pend,
         NEW r \in Refined(l), Clean(r)
  PROVE  r \in Local /\ r.parent = m.parent /\ r.pc = "fill"
         /\ MainOf(given, offset, listed, n, cut[n], r, t)
<1>1. given \in Cases /\ offset \in 0 .. Len(given.list) /\ m.kind = "xvp" /\ cut[n] \in Nat
  BY LocalFacts DEF Typed
<1>2. r = Again(l)
  BY RefinedFacts
<1>3. /\ r \in Local /\ r.pc = "fill" /\ r.parent = m.parent /\ r.buf = m.buf /\ r.arg = m.arg /\ r.pend = m.pend
      /\ r.argv = <<>>
  BY <1>2, AgainFacts
<1>4. PICK pos \in 0 .. offset : Reading(given, offset, cut[n], m, pos)
  BY <1>1 DEF MainOf, Looping
<1>5. Reading(given, offset, cut[n], r, pos)
  BY <1>1, <1>3, <1>4, ReadAgain
<1>6. MainOf(given, offset, listed, n, cut[n], r, t)
  BY <1>1, <1>3, <1>5, Loops DEF Looping
<1> QED BY <1>3, <1>6

LEMMA ReapStep ==
  ASSUME Typed, Roomy, NEW n \in Pids, NEW cut \in [Pids -> Nat], Holds(n, cut), NEW p \in Pids, Reap(p), lack' = "no"
  PROVE  Typed' /\ Holds(n, cut)'
<1>1. p = Top /\ proc[p] \in Local /\ proc[p].kind = "xvp" /\ proc[p].pc = "reap"
  BY IsTop DEF Reap, Pcs
<1> DEFINE m == proc[Top]
<1>2. MainOf(given, offset, listed, n, cut[n], m, ran[Top])
  BY DEF Holds, Main
<1>3. UNCHANGED <<given, offset, listed, ran>> /\ m.child = n /\ n # Top
  BY <1>1, <1>2 DEF Reap, MainOf
<1>4. given \in Cases /\ offset' \in 0 .. Len(given.list) /\ listed' \in BOOLEAN
  BY <1>3 DEF Typed
<1>5. PICK r \in IF given.noWait THEN Refined(m) ELSE {[m EXCEPT !.pc = "wait", !.err = ECHILD]} :
        \/ ZombiesOf(Top) = {} /\ Become(Top, r) /\ UNCHANGED stray
        \/ \E q \in ZombiesOf(Top) : BecomeReaping(Top, r, q) /\ stray' = stray \cup {q}
  BY <1>1 DEF Reap
<1>5a. Clean(r)
  BY <1>5, StaysClean
<1>6. /\ r \in Local /\ r.parent = m.parent /\ MainOf(given, offset, listed, n, cut[n], r, ran[Top])
      /\ ~given.noWait => r.pc = "wait"
  <2>1. CASE given.noWait
    BY <1>1, <1>2, <1>5, <1>5a, <2>1, RefinedMain
  <2>2. CASE ~given.noWait
    <3>1. r = Waiting(m)
      BY <1>5, <2>2 DEF Waiting
    <3>2. /\ r \in Local /\ r.pc = "wait" /\ r.parent = m.parent /\ r.child = m.child /\ r.buf = m.buf
          /\ r.arg = m.arg /\ r.pend = m.pend
      BY <1>1, <3>1, WaitingFacts
    <3>3. PICK pos \in 0 .. offset : Reading(given, offset, cut[n], m, pos)
      BY <1>1, <1>2 DEF MainOf, Looping
    <3>4. Reading(given, offset, cut[n], r, pos)
      BY <1>1, <3>2, <3>3 DEF Reading, Held
    <3>5. MainOf(given, offset, listed, n, cut[n], r, ran[Top])
      BY <1>1, <1>2, <1>3, <2>2, <3>2, <3>4, Loops DEF Looping
    <3> QED BY <3>2, <3>5
  <2> QED BY <2>1, <2>2
<1>7. r \in Process /\ r.kind = "xvp"
  BY <1>6, Kinds, LocalFacts
<1>8. given.strict /\ n \in Others /\ HasFailed(n) => ~given.noWait /\ r.pc = "wait" /\ proc[n].kind = "zombie"
  <2> SUFFICES ASSUME given.strict, n \in Others, HasFailed(n) PROVE ~given.noWait /\ proc[n].kind = "zombie"
    BY <1>6
  <2>1. ~given.noWait
    BY <1>4, GivenFacts
  <2>2. proc[n].kind = "zombie"
    BY <1>1 DEF Holds, Stopped, At
  <2> QED BY <2>1, <2>2
<1>9. CASE ZombiesOf(Top) = {} /\ Become(Top, r) /\ UNCHANGED stray
  BY <1>3, <1>4, <1>6, <1>7, <1>8, <1>9, MainAlone
<1>10. ASSUME NEW q \in ZombiesOf(Top),
              BecomeReaping(Top, r, q), stray' = stray \cup {q}
       PROVE  Typed' /\ Holds(n, cut)'
  <2>1. q \in Others /\ proc[q].kind = "zombie" /\ q \in Pids \ {Top}
    BY Family DEF Others
  <2>2. /\ proc'[Top] = r /\ Reaped(q) /\ (\A o \in Pids \ {Top, q} : proc'[o] = proc[o])
        /\ proc' \in [Pids -> Process]
    BY <1>7, <1>10, <2>1, PidFacts, ReapingFacts
  <2>3. \A o \in Others : proc'[o] = proc[o] \/ Reaped(o)
    BY <2>2 DEF Others
  <2>4. stray' \in SUBSET Pids /\ stray \subseteq stray'
    BY <1>10, <2>1 DEF Typed
  <2>5. At({"reap", "wait"})' <=> r.pc \in {"reap", "wait"}
    BY <1>7, <2>2 DEF At
  <2>6. HasFailed(n)' => proc'[n].kind = proc[n].kind
    <3>1. n = q => ~HasFailed(n)'
      BY <1>10 DEF HasFailed
    <3>2. n # q => proc'[n] = proc[n]
      BY <1>3, <2>2
    <3> QED BY <3>1, <3>2
  <2> QED BY <1>3, <1>4, <1>6, <1>8, <2>2, <2>3, <2>4, <2>5, <2>6, MainTurns
<1> QED BY <1>5, <1>9, <1>10

LEMMA WaitStep ==
  ASSUME Typed, Roomy, NEW n \in Pids, NEW cut \in [Pids -> Nat], Holds(n, cut), NEW p \in Pids, Wait(p), lack' = "no"
  PROVE  Typed' /\ Holds(n, cut)'
<1>1. p = Top /\ proc[p] \in Local /\ proc[p].kind = "xvp" /\ proc[p].pc = "wait"
  BY IsTop DEF Wait, Pcs
<1> DEFINE m == proc[Top]
<1>2. MainOf(given, offset, listed, n, cut[n], m, ran[Top])
  BY DEF Holds, Main
<1>3. UNCHANGED <<given, offset, listed, ran, stray>> /\ m.child = n /\ n # Top /\ n \in Others /\ n \in Pids \ {Top}
  BY <1>1, <1>2, PidFacts DEF Wait, MainOf
<1>4. given \in Cases /\ offset' \in 0 .. Len(given.list) /\ listed' \in BOOLEAN
      /\ stray' \in SUBSET Pids /\ stray \subseteq stray'
  BY <1>3 DEF Typed
<1>5. proc[n].kind # "unborn" /\ proc[n] \in Process
  <2>1. ~(n > n)
    BY PidFacts
  <2> QED BY <1>3, <2>1 DEF Holds, Children, ChildOf, Typed
<1>6. given.strict /\ HasFailed(n) => proc[n].kind = "zombie"
  BY <1>1, <1>3 DEF Holds, Stopped, At
<1>7. \/ n \notin ChildrenOf(Top) /\ \E r \in Refined(m) : Become(Top, r)
      \/ /\ n \in ZombiesOf(Top)
         /\ LET e    == proc[n].ending
                l    == [m EXCEPT !.err = IF e = Killed THEN @ ELSE e]
                then == IF given.strict /\ e # 0 THEN {GiveUp(l, l.err)} ELSE Refined(l)
            IN  \E r \in then : BecomeReaping(Top, r, n)
  BY <1>1, <1>3 DEF Wait
<1>8. ASSUME n \notin ChildrenOf(Top), NEW r \in Refined(m), Become(Top, r)
      PROVE  Typed' /\ Holds(n, cut)'
  <2>1. proc[n].kind \notin {"xvp", "program", "zombie"}
    BY <1>3, <1>8, Family
  <2>2. r \in Local /\ MainOf(given, offset, listed, n, cut[n], r, ran[Top])
    BY <1>1, <1>2, <1>8, RefinedMain, StaysClean
  <2>3. r \in Process
    BY <2>2, Kinds
  <2> QED BY <1>3, <1>4, <1>6, <1>8, <2>1, <2>2, <2>3, MainAlone
<1>9. ASSUME n \in ZombiesOf(Top)
      PROVE  LET e    == proc[n].ending
                 l    == [m EXCEPT !.err = IF e = Killed THEN @ ELSE e]
                 then == IF given.strict /\ e # 0 THEN {GiveUp(l, l.err)} ELSE Refined(l)
             IN  \A r \in then : BecomeReaping(Top, r, n) => Typed' /\ Holds(n, cut)'
  <2> DEFINE e    == proc[n].ending
             l    == [m EXCEPT !.err = IF e = Killed THEN @ ELSE e]
             then == IF given.strict /\ e # 0 THEN {GiveUp(l, l.err)} ELSE Refined(l)
  <2> SUFFICES ASSUME NEW r \in then, BecomeReaping(Top, r, n)
               PROVE  Typed' /\ Holds(n, cut)'
    OBVIOUS
  <2>1. proc[n].kind = "zombie" /\ e \in Int
    BY <1>5, <1>9, Family, Kinds
  <2>2. /\ l \in Local /\ l.parent = m.parent /\ l.buf = m.buf /\ l.arg = m.arg /\ l.pend = m.pend
        /\ l.err \in Int
    BY <1>1, <2>1 DEF Local
  <2>3. r \in then
    OBVIOUS
  <2> HIDE DEF e, l
  <2>4. /\ r \in Local /\ r.parent = m.parent /\ MainOf(given, offset, listed, n, cut[n], r, ran[Top])
        /\ given.strict /\ e # 0 => r.pc = "out"
    <3>1. CASE given.strict /\ e # 0
      <4>1. r = GiveUp(l, l.err)
        BY <2>3, <3>1
      <4>2. r \in Local /\ r.pc = "out" /\ r.parent = m.parent
        BY <2>2, <4>1, GiveUpFacts
      <4>3. ~CalmCase(given) /\ ~given.forceOnce
        BY <1>2, <1>3, <3>1 DEF CalmCase, MainOf
      <4>4. MainOf(given, offset, listed, n, cut[n], r, ran[Top])
        BY <1>1, <1>2, <4>2, <4>3, Outs
      <4> QED BY <4>2, <4>4
    <3>2. CASE ~(given.strict /\ e # 0)
      <4>1. r \in Refined(l)
        BY <2>3, <3>2
      <4>2. Clean(r)
        BY StaysClean
      <4> QED BY <1>1, <1>2, <2>2, <3>2, <4>1, <4>2, RefinedMain
    <3> QED BY <3>1, <3>2
  <2>5. r \in Process /\ r.kind = "xvp"
    BY <2>4, Kinds, LocalFacts
  <2>6. /\ proc'[Top] = r /\ Reaped(n) /\ (\A o \in Pids \ {Top, n} : proc'[o] = proc[o])
        /\ proc' \in [Pids -> Process]
    BY <1>3, <2>1, <2>5, PidFacts, ReapingFacts
  <2>7. \A o \in Others : proc'[o] = proc[o] \/ Reaped(o)
    BY <2>6 DEF Others
  <2>8. proc'[n].kind = "gone" /\ proc'[n].ending = e
    BY <2>6, ReapedFacts DEF e
  <2>9. HasFailed(n)' => e # 0
    BY <2>8 DEF HasFailed
  <2>10. At({"out"})' <=> r.pc = "out"
    BY <2>5, <2>6 DEF At
  <2> QED BY <1>3, <1>4, <2>4, <2>6, <2>7, <2>8, <2>9, <2>10, MainTurns
<1> QED BY <1>7, <1>8, <1>9

\* The new batch ends at c.
CutsAt(g, off, last, m, pos, c) ==
  /\ last < c /\ c <= Len(g.list) /\ c <= Len(Wanted(g.list))
  /\ m.argv = SubSeq(Wanted(g.list), last + 1, c) /\ RawSize(g.initSize, m.argv) <= SizeArgs - 1 + Ptr
  /\ \A r \in Local : r.pc = "reap" /\ r.buf = m.buf /\ r.arg = m.arg /\ r.pend = m.pend =>
       Reading(g, off, c, r, pos)

LEMMA ForkFacts ==
  ASSUME NEW g \in Cases, NEW off \in 0 .. Len(g.list), NEW last \in Nat, NEW m \in Local,
         NEW pos \in 0 .. off, Reading(g, off, last, m, pos), m.pc = "fork"
  PROVE  \E c \in Nat : CutsAt(g, off, last, m, pos, c)
<1> DEFINE c == Count(g.list, pos) - Held(m)
<1>1. Count(g.list, pos) \in Nat /\ Count(g.list, pos) <= pos /\ Count(g.list, pos) <= Len(Wanted(g.list))
      /\ Wanted(g.list) \in Argvs /\ Len(Wanted(g.list)) \in Nat /\ pos <= Len(g.list)
      /\ Len(g.list) \in Nat /\ pos \in Nat
  <2>1. Len(g.list) \in Nat
    BY GivenFacts
  <2>2. pos \in 0 .. Len(g.list)
    BY <2>1
  <2> QED BY <2>1, <2>2, PlaceFacts
<1>2. Held(m) \in {0, 1}
  BY LocalFacts
<1>3. last <= c /\ m.argv = SubSeq(Wanted(g.list), last + 1, c) /\ Sized(g, m.argv) /\ m.argv # <<>>
  BY DEF Reading
<1>4. c \in Nat /\ c <= Len(g.list) /\ c <= Len(Wanted(g.list)) /\ c <= c
  BY <1>1, <1>2, <1>3
<1>5. last < c
  <2> HIDE DEF c
  <2>1. last # c
    BY <1>1, <1>3, <1>4, ArgCuts
  <2> QED BY <1>3, <1>4, <2>1
<1>6. RawSize(g.initSize, m.argv) <= SizeArgs - 1 + Ptr
  BY <1>3 DEF Sized
<1>7. ASSUME NEW r \in Local, r.pc = "reap", r.buf = m.buf, r.arg = m.arg, r.pend = m.pend
      PROVE  Reading(g, off, c, r, pos)
  <2>1. Held(r) = Held(m)
    BY <1>7 DEF Held
  <2>2. c <= Count(g.list, pos) - Held(r) /\ c = Count(g.list, pos) - Held(r)
    BY <1>4, <2>1
  <2> QED BY <1>7, <2>2 DEF Reading
<1> HIDE DEF c
<1>8. CutsAt(g, off, last, m, pos, c)
  BY <1>3, <1>4, <1>5, <1>6, <1>7 DEF CutsAt
<1> QED BY <1>4, <1>8

LEMMA OlderChild ==
  ASSUME NEW g, NEW n \in Nat, NEW cut, NEW q \in Nat, NEW r, NEW t, ChildOf(g, n, cut, q, r, t), q # n + 1,
         NEW cut2, cut2[q - 1] = cut[q - 1] \/ q > n, cut2[q] = cut[q] \/ q > n
  PROVE  ChildOf(g, n + 1, cut2, q, r, t)
<1>1. CASE q <= n
  <2>1. ~(q > n) /\ ~(q > n + 1)
    BY <1>1
  <2>2. cut2[q - 1] = cut[q - 1] /\ cut2[q] = cut[q]
    BY <2>1
  <2>3. Batch(g, cut2, q) = Batch(g, cut, q)
    BY <2>2 DEF Batch
  <2>4. q <= n + 1
    BY <1>1
  <2> QED BY <1>1, <2>1, <2>2, <2>3, <2>4 DEF ChildOf
<1>2. CASE ~(q <= n)
  <2>1. q > n /\ q > n + 1 /\ ~(q <= n + 1)
    BY <1>2
  <2>2. r.kind = "unborn"
    BY <2>1 DEF ChildOf
  <2>3. t = <<>>
    BY <2>2 DEF ChildOf
  <2> QED BY <2>1, <2>2, <2>3 DEF ChildOf
<1> QED BY <1>1, <1>2

LEMMA NewChild ==
  ASSUME NEW g, NEW n \in Nat, NEW cut, NEW t, NEW r \in Local, r.parent = Top, r.pc = "exec", t = <<>>,
         cut[n] < cut[n + 1], cut[n + 1] <= Len(Wanted(g.list)),
         r.argv = SubSeq(Wanted(g.list), cut[n] + 1, cut[n + 1]),
         RawSize(g.initSize, r.argv) <= SizeArgs - 1 + Ptr
  PROVE  ChildOf(g, n + 1, cut, n + 1, r, t)
<1>1. r.kind = "xvp" /\ (n + 1) - 1 = n /\ ~(n + 1 > n + 1)
  BY LocalFacts
<1>2. r.argv = Batch(g, cut, n + 1)
  BY <1>1 DEF Batch
<1> QED BY <1>1, <1>2 DEF ChildOf

\* The pids not born yet.
LEMMA NextPid ==
  ASSUME Typed, NEW n \in Pids, NEW cut, Holds(n, cut)
  PROVE  /\ Unborns = {} => n = MaxProcs
         /\ Unborns # {} => Min(Unborns) = n + 1 /\ n + 1 \in Others
<1>1. \A q \in Others : proc[q].kind = "unborn" <=> q > n
  BY DEF Holds, Children, ChildOf
<1>2. proc[Top].kind # "unborn"
  BY DEF Holds, Main, MainOf
<1>3. n \in Nat /\ n >= 1 /\ n <= MaxProcs /\ MaxProcs \in Nat
  BY PtrIsPositive DEF Pids
<1>4. \A q : q \in Unborns <=> q \in Others /\ q > n
  BY <1>1, <1>2, PidFacts DEF Unborns
<1>5. ASSUME n # MaxProcs PROVE n + 1 \in Unborns /\ n + 1 \in Others
  <2>1. n + 1 \in Others
    BY <1>3, <1>5 DEF Others, Pids, Top
  <2> QED BY <1>3, <1>4, <2>1
<1>6. ASSUME Unborns # {} PROVE Min(Unborns) = n + 1 /\ n + 1 \in Others
  <2>1. n # MaxProcs
    BY <1>3, <1>4, <1>6 DEF Others, Pids
  <2>2. n + 1 \in Unborns /\ n + 1 \in Others
    BY <1>5, <2>1
  <2>3. ASSUME NEW q \in Unborns PROVE q \in Nat /\ n + 1 <= q
    <3>1. q \in Nat /\ q > n
      BY <1>4, PidFacts
    <3> QED BY <1>3, <3>1
  <2>4. \A q \in Unborns : (\A o \in Unborns : q <= o) => q = n + 1
    BY <1>3, <2>2, <2>3
  <2> QED BY <2>2, <2>3, <2>4 DEF Min
<1> QED BY <1>5, <1>6

LEMMA Forks ==
  ASSUME NEW g, NEW off, NEW isListed, NEW n, NEW last, NEW m, NEW t, MainOf(g, off, isListed, n, last, m, t),
         m.kind = "xvp", NEW n2, n2 # Top, NEW c, NEW r \in Local, r.parent = m.parent, r.pc = "reap",
         r.child = n2, ~g.forceOnce, \E pos \in 0 .. off : Reading(g, off, c, r, pos)
  PROVE  MainOf(g, off, isListed, n2, c, r, t)
<1>1. r.kind = "xvp" /\ r.pc \notin Leaving \cup {"out"} /\ r.pc # "again" /\ r.pc # "wait" /\ r.pc \notin {"last", "again"}
      /\ r.pc \in Looping
  BY LocalFacts DEF Looping, Leaving
<1> QED BY <1>1 DEF MainOf

LEMMA ForkStep ==
  ASSUME Typed, Roomy, NEW n \in Pids, NEW cut \in [Pids -> Nat], Holds(n, cut), NEW p \in Pids, Fork(p), lack' = "no"
  PROVE  Typed' /\ \E n2 \in Pids, cut2 \in [Pids -> Nat] : Holds(n2, cut2)'
<1>1. p = Top /\ proc[p] \in Local /\ proc[p].kind = "xvp" /\ proc[p].pc = "fork"
  BY IsTop DEF Fork, Pcs
<1> DEFINE m == proc[Top]
<1>2. MainOf(given, offset, listed, n, cut[n], m, ran[Top])
  BY DEF Holds, Main
<1>3. UNCHANGED <<given, offset, listed, ran, stray>> /\ m.parent = 0 /\ ran[Top] = <<>>
  BY <1>1, <1>2 DEF Fork, MainOf
<1>4. given \in Cases /\ offset \in 0 .. Len(given.list) /\ cut[n] \in Nat /\ proc \in [Pids -> Process]
  BY DEF Typed
<1>5. PICK pos \in 0 .. offset : Reading(given, offset, cut[n], m, pos)
  BY <1>1, <1>2 DEF MainOf, Looping
<1>6a. PICK c \in Nat : CutsAt(given, offset, cut[n], m, pos, c)
  BY <1>1, <1>4, <1>5, ForkFacts
<1>6. /\ cut[n] < c /\ c <= Len(given.list) /\ c <= Len(Wanted(given.list))
      /\ m.argv = SubSeq(Wanted(given.list), cut[n] + 1, c)
      /\ RawSize(given.initSize, m.argv) <= SizeArgs - 1 + Ptr
      /\ \A r \in Local : r.pc = "reap" /\ r.buf = m.buf /\ r.arg = m.arg /\ r.pend = m.pend =>
           Reading(given, offset, c, r, pos)
  BY <1>6a DEF CutsAt
<1>7. n \in Nat /\ n >= 1 /\ n <= MaxProcs /\ MaxProcs \in Nat /\ n <= cut[n] + 1 /\ cut[1] = 0
      /\ Len(given.list) \in Nat /\ Len(Wanted(given.list)) \in Nat
  <2>1. Len(given.list) \in Nat /\ 0 \in 0 .. Len(given.list)
    BY <1>4, GivenFacts
  <2>2. Len(Wanted(given.list)) \in Nat
    BY <1>4, <2>1, PlaceFacts
  <2> QED BY <2>1, <2>2, PtrIsPositive DEF Pids, Holds
<1>8. ~At({"reap", "wait"}) /\ (given.strict => \A q \in Others : ~HasFailed(q))
  <2>1. ~At({"reap", "wait"}) /\ ~At({"out"}) /\ proc[Top].kind # "zombie"
    BY <1>1 DEF At
  <2> QED BY <2>1 DEF Holds, Stopped
<1>9. CASE given.forceOnce /\ Become(Top, GiveUp(m, E2BIG))
  <2>1. ~CalmCase(given) /\ E2BIG \in Int /\ E2BIG # 0
    BY <1>9 DEF CalmCase, E2BIG
  <2>2. Typed' /\ Holds(n, cut)'
    BY <1>1, <1>3, <1>8, <1>9, <2>1, GivesUp
  <2> QED BY <2>2
<1>10. CASE /\ ~given.forceOnce /\ ("fork" \in given.faults \/ Unborns = {})
            /\ Become(Top, GiveUp(m, EAGAIN))
  <2>1. Unborns = {} => ~(Len(given.list) < MaxProcs)
    <3>1. Unborns = {} => n = MaxProcs
      BY NextPid
    <3> QED BY <1>4, <1>6, <1>7, <3>1
  <2>2. ~CalmCase(given) /\ EAGAIN \in Int
    BY <1>10, <2>1 DEF CalmCase, EAGAIN
  <2>3. Typed' /\ Holds(n, cut)'
    BY <1>1, <1>3, <1>8, <1>10, <2>2, GivesUp
  <2> QED BY <2>3
<1>11. CASE /\ ~given.forceOnce /\ Unborns # {}
            /\ LET q == Min(Unborns)
               IN  proc' = [proc EXCEPT
                     ![Top] = [@ EXCEPT !.pc = "reap", !.child = q],
                     ![q] = [m EXCEPT !.pc = "exec", !.parent = Top, !.child = 0]]
  <2> DEFINE k == n + 1
             r == [m EXCEPT !.pc = "reap", !.child = k]
             s == [m EXCEPT !.pc = "exec", !.parent = Top, !.child = 0]
  <2>1. Min(Unborns) = k /\ k \in Others
    BY <1>11, NextPid
  <2>2. k \in Pids /\ k # Top /\ k # 0 /\ k # 1
    BY <2>1, PidFacts DEF Top
  <2>3. proc' = [proc EXCEPT ![Top] = r, ![k] = s]
    BY <1>11, <2>1
  <2>4. /\ r \in Local /\ r.pc = "reap" /\ r.parent = m.parent /\ r.child = k /\ r.buf = m.buf
        /\ r.arg = m.arg /\ r.pend = m.pend
    <3>1. "reap" \in Pcs /\ k \in 0 .. MaxProcs
      BY <2>2 DEF Pcs, Pids
    <3> QED BY <1>1, <3>1 DEF Local
  <2>5. s \in Local /\ s.pc = "exec" /\ s.parent = Top /\ s.argv = m.argv
    <3>1. "exec" \in Pcs /\ 0 \in 0 .. MaxProcs
      BY <1>7 DEF Pcs
    <3> QED BY <1>1, <3>1 DEF Local
  <2>6. r \in Process /\ s \in Process /\ r.kind = "xvp" /\ s.kind = "xvp"
    BY <2>4, <2>5, Kinds
  <2> HIDE DEF r, s
  <2>7. proc'[Top] = r /\ proc'[k] = s /\ (\A q \in Pids \ {Top, k} : proc'[q] = proc[q])
        /\ proc' \in [Pids -> Process]
    BY <1>4, <2>2, <2>3, <2>6, PidFacts
  <2>8. Typed'
    BY <1>3, <2>7 DEF Typed
  <2>9. PICK cuts \in [Pids -> Nat] : cuts[k] = c /\ (\A q \in Pids \ {k} : cuts[q] = cut[q])
    <3>1. [cut EXCEPT ![k] = c] \in [Pids -> Nat]
      OBVIOUS
    <3>2. [cut EXCEPT ![k] = c][k] = c /\ \A q \in Pids \ {k} : [cut EXCEPT ![k] = c][q] = cut[q]
      BY <2>2
    <3> QED BY <3>1, <3>2
  <2>10. cuts[n] = cut[n] /\ cuts[1] = 0 /\ n # k
    <3>1. n # k /\ 1 \in Pids
      BY <1>7 DEF Pids
    <3> QED BY <1>7, <2>2, <2>9, <3>1
  <2>11. Children(k, cuts)'
    <3> SUFFICES ASSUME NEW q \in Others PROVE ChildOf(given, n + 1, cuts, q, proc'[q], ran[q])
      BY <1>3 DEF Children
    <3>1. ChildOf(given, n, cut, q, proc[q], ran[q]) /\ q \in Nat /\ q \in Pids /\ q # Top
      BY PidFacts DEF Holds, Children
    <3>2. CASE q = k
      <4>1. proc[q].kind = "unborn"
        <5>1. q > n
          BY <1>7, <3>2
        <5> QED BY <3>1, <5>1 DEF ChildOf
      <4>2. ran[q] = <<>>
        BY <3>1, <4>1 DEF ChildOf
      <4>3. /\ cuts[n] < cuts[n + 1] /\ cuts[n + 1] <= Len(Wanted(given.list))
            /\ s.argv = SubSeq(Wanted(given.list), cuts[n] + 1, cuts[n + 1])
            /\ RawSize(given.initSize, s.argv) <= SizeArgs - 1 + Ptr
        BY <1>6, <2>5, <2>9, <2>10
      <4>4. ChildOf(given, n + 1, cuts, n + 1, s, ran[q])
        BY <1>7, <2>5, <4>2, <4>3, NewChild
      <4> QED BY <2>7, <3>2, <4>4
    <3>3. CASE q # k
      <4>1. proc'[q] = proc[q] /\ cuts[q] = cut[q]
        BY <2>7, <2>9, <3>1, <3>3
      <4>2. cuts[q - 1] = cut[q - 1] \/ q > n
        <5>1. CASE q > n
          BY <5>1
        <5>2. CASE ~(q > n)
          <6>1. q - 1 \in Pids /\ q - 1 # k
            BY <1>7, <3>1, <5>2 DEF Pids, Top
          <6> QED BY <2>9, <6>1
        <5> QED BY <5>1, <5>2
      <4> QED BY <1>7, <3>1, <3>3, <4>1, <4>2, OlderChild
    <3> QED BY <3>2, <3>3
  <2>12. Main(k, cuts)'
    <3>1. Reading(given, offset, c, r, pos)
      BY <1>6, <2>4
    <3>2. MainOf(given, offset, listed, k, c, r, ran[Top])
      BY <1>1, <1>2, <1>11, <2>2, <2>4, <3>1, Forks
    <3> QED BY <1>3, <2>7, <2>9, <3>2 DEF Main
  <2>13. At({"reap", "wait"})'
    BY <2>4, <2>6, <2>7 DEF At
  <2>14. Turns(k)'
    <3> SUFFICES ASSUME ~given.noWait, NEW q \in Others, q # k, proc'[q].kind \in {"xvp", "program"}
                 PROVE  FALSE
      BY <1>3, <2>13 DEF Turns
    <3>1. proc'[q] = proc[q]
      BY <2>7 DEF Others
    <3> QED BY <1>8, <3>1 DEF Holds, Turns
  <2>15. Stopped(k)'
    <3> SUFFICES ASSUME given.strict, NEW q \in Others, HasFailed(q)' PROVE FALSE
      BY <1>3 DEF Stopped
    <3>1. CASE q = k
      BY <2>6, <2>7, <3>1 DEF HasFailed
    <3>2. CASE q # k
      <4>1. proc'[q] = proc[q]
        BY <2>7, <3>2 DEF Others
      <4> QED BY <1>3, <1>8, <4>1 DEF HasFailed
    <3> QED BY <3>1, <3>2
  <2>16. k <= cuts[k] + 1 /\ cuts[k] <= Len(Wanted(given.list))
    BY <1>4, <1>6, <1>7, <2>9
  <2>17. Holds(k, cuts)'
    <3>1. (Wanted(given.list))' = Wanted(given.list)
      BY <1>3
    <3> QED BY <2>10, <2>11, <2>12, <2>14, <2>15, <2>16, <3>1 DEF Holds
  <2> QED BY <2>2, <2>8, <2>9, <2>17
<1> QED BY <1>1, <1>9, <1>10, <1>11 DEF Fork

\* xvp goes on, and may reap a child before.
LEMMA MayReap ==
  ASSUME Typed, NEW n \in Pids, NEW cut \in [Pids -> Nat], Holds(n, cut), UNCHANGED <<given, offset, stray>>,
         listed' \in BOOLEAN, ran' \in [Pids -> Argvs], \A q \in Others : ran'[q] = ran[q],
         NEW r \in Process, Become(Top, r) \/ \E q \in ZombiesOf(Top) : BecomeReaping(Top, r, q),
         MainOf(given, offset, listed', n, cut[n], r, ran'[Top]),
         ~At({"reap", "wait", "out"}), proc[Top].kind = "xvp"
  PROVE  Typed' /\ Holds(n, cut)'
<1>1. /\ proc'[Top] = r /\ proc' \in [Pids -> Process]
      /\ \A q \in Others : proc'[q] = proc[q] \/ Reaped(q)
  <2>1. CASE Become(Top, r)
    <3>1. proc'[Top] = r /\ (\A q \in Pids \ {Top} : proc'[q] = proc[q]) /\ proc' \in [Pids -> Process]
      BY <2>1, PidFacts, BecomeFacts
    <3> QED BY <3>1 DEF Others
  <2>2. ASSUME NEW q \in ZombiesOf(Top), BecomeReaping(Top, r, q)
        PROVE  /\ proc'[Top] = r /\ proc' \in [Pids -> Process]
               /\ \A o \in Others : proc'[o] = proc[o] \/ Reaped(o)
    <3>1. q \in Others /\ proc[q].kind = "zombie" /\ q \in Pids \ {Top}
      BY <2>2, Family DEF Others
    <3>2. /\ proc'[Top] = r /\ Reaped(q) /\ (\A o \in Pids \ {Top, q} : proc'[o] = proc[o])
          /\ proc' \in [Pids -> Process]
      BY <2>2, <3>1, PidFacts, ReapingFacts
    <3> QED BY <3>2 DEF Others
  <2> QED BY <2>1, <2>2
<1>2. ~At({"reap", "wait"}) /\ ~(given.strict /\ n \in Others /\ HasFailed(n))
  BY StoppedFacts DEF At
<1>3. Typed'
  BY <1>1 DEF Typed
<1>4. Holds(n, cut)'
  BY <1>1, <1>2, MainMoves
<1> QED BY <1>3, <1>4

LEMMA CloseStep ==
  ASSUME Typed, Roomy, NEW n \in Pids, NEW cut \in [Pids -> Nat], Holds(n, cut), NEW p \in Pids, Close(p), lack' = "no"
  PROVE  Typed' /\ Holds(n, cut)'
<1>1. p = Top /\ proc[p] \in Local /\ proc[p].kind = "xvp" /\ proc[p].pc = "close"
  BY IsTop DEF Close, Pcs
<1> DEFINE m == proc[Top]
           r == [m EXCEPT !.pc = "last"]
<1>2. MainOf(given, offset, listed, n, cut[n], m, ran[Top])
  BY DEF Holds, Main
<1>3. UNCHANGED <<given, offset, ran, stray>> /\ listed' = (listed /\ ~given.unlink)
  BY DEF Close, DeleteScript
<1>4. listed' \in BOOLEAN /\ ran' \in [Pids -> Argvs] /\ ~(given.unlink /\ listed')
  BY <1>3 DEF Typed
<1>5. r \in Local /\ r.pc = "last" /\ r.parent = m.parent /\ r.argv = m.argv
  BY <1>1 DEF Local, Pcs
<1>6. Become(Top, r) \/ \E q \in ZombiesOf(Top) : BecomeReaping(Top, r, q)
  BY <1>1 DEF Close
<1> HIDE DEF r
<1>7. MainOf(given, offset, listed', n, cut[n], r, ran'[Top])
  <2>1. /\ LastBatch(given, offset, cut[n], m.argv)
        /\ TidyCase(given) => RawSize(given.initSize, m.argv) <= SizeArgs + Padding * Ptr
    BY <1>1, <1>2 DEF MainOf, Leaving
  <2> QED BY <1>1, <1>2, <1>3, <1>4, <1>5, <2>1, Leaves DEF Leaving
<1>8. r \in Process /\ ~At({"reap", "wait", "out"})
  BY <1>1, <1>5, Kinds DEF At
<1> QED BY <1>1, <1>3, <1>4, <1>6, <1>7, <1>8, MayReap

\* What xvp leaves when it ends without having become the program.
LEMMA Dies ==
  ASSUME NEW g, NEW off, NEW isListed, NEW n, NEW last, NEW m, NEW t, MainOf(g, off, isListed, n, last, m, t),
         m.kind = "xvp", NEW listed2, ~(g.unlink /\ listed2), NEW e \in Int, ~CalmCase(g),
         g.forceOnce => e # 0 \/ Wanted(g.list) = <<>>
  PROVE  MainOf(g, off, listed2, n, last, Zombie(0, e), t)
<1>1. Zombie(0, e).kind = "zombie" /\ Zombie(0, e).parent = 0 /\ Zombie(0, e).ending = e /\ t = <<>>
  BY Kinds DEF MainOf
<1> QED BY <1>1 DEF MainOf

LEMMA OutStep ==
  ASSUME Typed, Roomy, NEW n \in Pids, NEW cut \in [Pids -> Nat], Holds(n, cut), NEW p \in Pids, Out(p), lack' = "no"
  PROVE  Typed' /\ Holds(n, cut)'
<1>1. p = Top /\ proc[p] \in Local /\ proc[p].kind = "xvp" /\ proc[p].pc = "out"
  BY IsTop DEF Out, Pcs
<1> DEFINE m == proc[Top]
<1>2. MainOf(given, offset, listed, n, cut[n], m, ran[Top])
  BY DEF Holds, Main
<1>3. UNCHANGED <<given, offset, ran, stray>> /\ listed' = (listed /\ ~given.unlink)
  BY DEF Out, DeleteScript
<1>4. listed' \in BOOLEAN /\ offset' \in 0 .. Len(given.list) /\ ~(given.unlink /\ listed')
  BY <1>3 DEF Typed
<1>5. m.parent = 0 /\ m.err \in Int /\ ~CalmCase(given) /\ (given.forceOnce => m.err # 0) /\ ran[Top] = <<>>
  BY <1>1, <1>2, LocalFacts DEF MainOf
<1>6. Become(Top, Zombie(0, m.err))
  BY <1>1, <1>5 DEF Out
<1>7. Zombie(0, m.err) \in Process /\ Zombie(0, m.err).kind = "zombie"
  BY <1>5, Kinds
<1>8. MainOf(given, offset', listed', n, cut[n], Zombie(0, m.err), ran[Top])
  BY <1>1, <1>2, <1>3, <1>4, <1>5, Dies
<1>9. ~At({"reap", "wait"})
  BY <1>1 DEF At
<1> QED BY <1>3, <1>4, <1>5, <1>6, <1>7, <1>8, <1>9, MainAlone

-----------------------------------------------------------------------------
(* Becoming the program. *)

LEMMA TidyFits ==
  ASSUME Typed, NEW l \in Local, TidyCase(given)
  PROVE  /\ RawSize(given.initSize, l.argv) <= SizeArgs - 1 + Ptr => Fits(l)
         /\ RawSize(given.initSize, l.argv) <= SizeArgs + Padding * Ptr => Fits(l)
<1>1. given \in Cases /\ given.initSize \in Int
  BY GivenFacts DEF Typed
<1>2. RawSize(given.initSize, l.argv) \in Int /\ 0 \in Nat /\ l.mem = "whole"
  BY <1>1, LocalFacts, RawSteps
<1>3. RawSize(given.initSize, l.argv) <= SizeArgs - 1 + Ptr =>
        RawSize(given.initSize, l.argv) <= SizeArgs + Padding * Ptr
  BY <1>2, TidyPadding DEF TidyCase
<1> QED BY <1>2, <1>3, SizesOf

\* The batch of a child.
LEMMA ChildBatch ==
  ASSUME Typed, NEW n \in Pids, NEW cut \in [Pids -> Nat], Holds(n, cut), NEW p \in Others, proc[p].kind = "xvp"
  PROVE  /\ ChildOf(given, n, cut, p, proc[p], ran[p]) /\ p <= n /\ proc[p].parent = Top
         /\ proc[p].argv \in Argvs /\ proc[p].argv # <<>> /\ proc[p].argv = Batch(given, cut, p)
         /\ ran[p] = <<>>
         /\ CalmCase(given) => Fits(proc[p]) /\ "exec" \notin given.faults
<1>1. ChildOf(given, n, cut, p, proc[p], ran[p])
  BY DEF Holds, Children
<1>2. p <= n
  <2>1. ~(p > n)
    BY <1>1 DEF ChildOf
  <2> QED BY <2>1, PidFacts
<1>3. /\ cut[p - 1] < cut[p] /\ cut[p] <= Len(Wanted(given.list)) /\ proc[p].parent = Top /\ ran[p] = <<>>
      /\ proc[p].argv = Batch(given, cut, p) /\ RawSize(given.initSize, proc[p].argv) <= SizeArgs - 1 + Ptr
  BY <1>1, <1>2 DEF ChildOf
<1>4. proc[p] \in Process /\ p \in Pids /\ given \in Cases
  BY PidFacts DEF Typed
<1>5. proc[p] \in Local /\ proc[p].argv \in Argvs
  BY <1>4, Kinds, LocalFacts
<1>6. proc[p].argv # <<>>
  <2>1. cut[p - 1] \in Nat /\ cut[p] \in Nat
    <3>1. p - 1 \in Pids
      BY PidFacts, PtrIsPositive DEF Others, Pids, Top
    <3> QED BY <1>4, <3>1
  <2>2. Wanted(given.list) \in Argvs
    <3>1. 0 \in 0 .. Len(given.list)
      BY <1>4, GivenFacts
    <3> QED BY <1>4, <3>1, PlaceFacts
  <2>3. SubSeq(Wanted(given.list), cut[p - 1] + 1, cut[p]) = <<>> <=> cut[p - 1] = cut[p]
    <3>1. cut[p - 1] <= cut[p]
      BY <1>3, <2>1
    <3> QED BY <1>3, <2>1, <2>2, <3>1, ArgCuts
  <2> QED BY <1>3, <2>1, <2>3 DEF Batch
<1>7. CalmCase(given) => Fits(proc[p]) /\ "exec" \notin given.faults
  BY <1>3, <1>5, TidyFits DEF CalmCase
<1> QED BY <1>1, <1>2, <1>3, <1>5, <1>6, <1>7

\* A child becomes the program, has failed to, or does not run it yet.
LEMMA ChildExecs ==
  ASSUME Typed, NEW n \in Pids, NEW cut \in [Pids -> Nat], Holds(n, cut), NEW p \in Others, proc[p].kind = "xvp",
         UNCHANGED <<given, offset, listed, stray>>, NEW r, Become(p, r),
         \/ r = Program(proc[p]) /\ ran' = [ran EXCEPT ![p] = proc[p].argv]
         \/ (\E e \in Int : r = Zombie(Top, e)) /\ ran' = ran /\ ~CalmCase(given)
         \/ r \in Local /\ r.parent = Top /\ r.pc = "again" /\ r.argv = proc[p].argv /\ ran' = ran /\ given.noWait
  PROVE  Typed' /\ Holds(n, cut)'
<1>1. /\ ChildOf(given, n, cut, p, proc[p], ran[p]) /\ p <= n /\ proc[p].argv \in Argvs
      /\ proc[p].argv = Batch(given, cut, p) /\ ran[p] = <<>>
  BY ChildBatch
<1>1a. proc[p] \in Local /\ proc[p].parent = Top
  BY ChildBatch, Kinds, PidFacts DEF Typed
<1>2. p \in Pids /\ ran \in [Pids -> Argvs] /\ ~(p > n)
  BY <1>1, PidFacts DEF Typed
<1>3. /\ r \in Process /\ r.kind \in {"xvp", "program", "zombie"} /\ ran' \in [Pids -> Argvs]
      /\ \A q \in Pids \ {p} : ran'[q] = ran[q]
      /\ ChildOf(given, n, cut, p, r, ran'[p])
  <2>1. CASE r = Program(proc[p]) /\ ran' = [ran EXCEPT ![p] = proc[p].argv]
    <3>1. r \in Process /\ r.kind = "program" /\ r.parent = Top
      BY <1>1a, <2>1, Kinds
    <3>2. ran' \in [Pids -> Argvs] /\ ran'[p] = proc[p].argv /\ \A q \in Pids \ {p} : ran'[q] = ran[q]
      BY <1>1, <1>2, <2>1
    <3>3. ChildOf(given, n, cut, p, r, ran'[p])
      BY <1>1, <1>2, <3>1, <3>2 DEF ChildOf
    <3> QED BY <3>1, <3>2, <3>3
  <2>2. ASSUME NEW e \in Int, r = Zombie(Top, e), ran' = ran, ~CalmCase(given)
        PROVE  /\ r \in Process /\ r.kind \in {"xvp", "program", "zombie"} /\ ran' \in [Pids -> Argvs]
               /\ \A q \in Pids \ {p} : ran'[q] = ran[q]
               /\ ChildOf(given, n, cut, p, r, ran'[p])
    <3>1. r \in Process /\ r.kind = "zombie" /\ r.parent = Top
      BY <2>2, Kinds
    <3>2. ran' \in [Pids -> Argvs] /\ ran'[p] = <<>> /\ \A q \in Pids \ {p} : ran'[q] = ran[q]
      BY <1>1, <1>2, <2>2
    <3>3. ChildOf(given, n, cut, p, r, ran'[p])
      BY <1>1, <1>2, <2>2, <3>1, <3>2 DEF ChildOf
    <3> QED BY <3>1, <3>2, <3>3
  <2>3. CASE /\ r \in Local /\ r.parent = Top /\ r.pc = "again" /\ r.argv = proc[p].argv
             /\ ran' = ran /\ given.noWait
    <3>1. r \in Process /\ r.kind = "xvp"
      BY <2>3, Kinds
    <3>2. ran' \in [Pids -> Argvs] /\ ran'[p] = <<>> /\ \A q \in Pids \ {p} : ran'[q] = ran[q]
      BY <1>1, <1>2, <2>3
    <3>3. ChildOf(given, n, cut, p, r, ran'[p])
      BY <1>1, <1>2, <2>3, <3>1, <3>2 DEF ChildOf
    <3> QED BY <3>1, <3>2, <3>3
  <2> QED BY <2>1, <2>2, <2>3
<1>4. proc'[p] = r /\ (\A q \in Pids \ {p} : proc'[q] = proc[q]) /\ proc' \in [Pids -> Process]
  BY <1>2, <1>3, BecomeFacts
<1>5. Typed'
  BY <1>3, <1>4 DEF Typed
<1>6. Holds(n, cut)'
  BY <1>3, <1>4, ChildMoves
<1> QED BY <1>5, <1>6

\* xvp itself becomes the program.
LEMMA BecomesProgram ==
  ASSUME NEW g, NEW off, NEW isListed, NEW n, NEW last, NEW m, NEW t, MainOf(g, off, isListed, n, last, m, t),
         m.kind = "xvp", m.pc \in {"last", "again"}, m.argv # <<>>, m \in Local
  PROVE  MainOf(g, off, isListed, n, last, Program(m), m.argv)
<1>1. Program(m).kind = "program" /\ Program(m).parent = 0
  BY Kinds DEF MainOf
<1>2. LastBatch(g, off, last, m.argv) /\ ~(g.unlink /\ isListed)
  BY DEF MainOf, Leaving
<1>3. CalmCase(g) => off = Len(g.list) /\ m.argv = SubSeq(Wanted(g.list), last + 1, Len(Wanted(g.list)))
  BY <1>2 DEF CalmCase, LastBatch
<1> QED BY <1>1, <1>2, <1>3 DEF MainOf

LEMMA NothingToRun ==
  ASSUME NEW g \in Cases, NEW off, NEW isListed, NEW n, NEW last, NEW m, NEW t, MainOf(g, off, isListed, n, last, m, t),
         m.kind = "xvp", m.pc = "last", m.argv = <<>>, NEW e \in Int, n = Top => last = 0
  PROVE  MainOf(g, off, isListed, n, last, Zombie(0, e), t)
<1>1. Zombie(0, e).kind = "zombie" /\ Zombie(0, e).parent = 0 /\ Zombie(0, e).ending = e
  BY Kinds
<1>2. LastBatch(g, off, last, m.argv) /\ ~(g.unlink /\ isListed) /\ t = <<>>
  BY DEF MainOf, Leaving
<1>3. "read" \notin g.faults => off = Len(g.list) /\ t = SubSeq(Wanted(g.list), last + 1, Len(Wanted(g.list)))
  BY <1>2 DEF LastBatch
<1>4. CalmCase(g) => "read" \notin g.faults
  BY DEF CalmCase
<1>5. g.forceOnce /\ "read" \notin g.faults => Wanted(g.list) = <<>>
  <2> SUFFICES ASSUME g.forceOnce, "read" \notin g.faults PROVE Wanted(g.list) = <<>>
    OBVIOUS
  <2>1. last = 0
    BY DEF MainOf
  <2>2. SubSeq(Wanted(g.list), 0 + 1, Len(Wanted(g.list))) = <<>>
    BY <1>2, <1>3, <2>1
  <2>3. Wanted(g.list) \in Argvs /\ Len(Wanted(g.list)) \in Nat
    <3>1. 0 \in 0 .. Len(g.list)
      BY GivenFacts
    <3> QED BY <3>1, PlaceFacts
  <2>4. 0 = Len(Wanted(g.list))
    BY <2>2, <2>3, ArgCuts
  <2> QED BY <2>3, <2>4 DEF Argvs
<1> QED BY <1>1, <1>2, <1>3, <1>4, <1>5 DEF MainOf

\* xvp's own batch, when it has one.
LEMMA LastFits ==
  ASSUME Typed, NEW n \in Pids, NEW cut \in [Pids -> Nat], Holds(n, cut),
         proc[Top].kind = "xvp", proc[Top].pc \in {"last", "again"}
  PROVE  /\ proc[Top] \in Local /\ proc[Top].argv \in Argvs /\ proc[Top].parent = 0 /\ proc[Top].err \in Int
         /\ MainOf(given, offset, listed, n, cut[n], proc[Top], ran[Top])
         /\ ran[Top] = <<>> /\ ~(given.unlink /\ listed)
         /\ ~At({"reap", "wait", "out"}) /\ ~(given.strict /\ n \in Others /\ HasFailed(n))
         /\ TidyCase(given) => Fits(proc[Top])
<1>1. MainOf(given, offset, listed, n, cut[n], proc[Top], ran[Top])
  BY DEF Holds, Main
<1>2. proc[Top] \in Local /\ proc[Top].argv \in Argvs /\ proc[Top].err \in Int
  <2>1. proc[Top] \in Local
    BY Kinds, PidFacts DEF Typed
  <2> QED BY <2>1, LocalFacts
<1>3. proc[Top].parent = 0 /\ ran[Top] = <<>> /\ ~(given.unlink /\ listed)
  BY <1>1 DEF MainOf
<1>4. ~At({"reap", "wait", "out"})
  BY DEF At
<1>5. ~(given.strict /\ n \in Others /\ HasFailed(n))
  BY <1>4, StoppedFacts
<1>6. TidyCase(given) => Fits(proc[Top])
  <2>1. TidyCase(given) => RawSize(given.initSize, proc[Top].argv) <= SizeArgs + Padding * Ptr
    BY <1>1 DEF MainOf, Leaving
  <2> QED BY <1>2, <2>1, TidyFits
<1> QED BY <1>1, <1>2, <1>3, <1>4, <1>5, <1>6

Becomes(r) == Become(Top, r) \/ \E q \in ZombiesOf(Top) : BecomeReaping(Top, r, q)

\* xvp becomes the program, or fails to.
LEMMA LastExecs ==
  ASSUME Typed, NEW n \in Pids, NEW cut \in [Pids -> Nat], Holds(n, cut),
         proc[Top].kind = "xvp", proc[Top].pc \in {"last", "again"},
         UNCHANGED <<given, offset, listed, stray>>, NEW r, Becomes(r),
         \/ r = Program(proc[Top]) /\ ran' = [ran EXCEPT ![Top] = proc[Top].argv] /\ proc[Top].argv # <<>>
         \/ r = Zombie(0, proc[Top].err) /\ ran' = ran /\ proc[Top].argv = <<>> /\ proc[Top].pc = "last"
         \/ (\E e \in Int \ {0} : r = Zombie(0, e)) /\ ran' = ran /\ ~CalmCase(given)
         \/ r \in Local /\ r.parent = 0 /\ r.pc = "again" /\ r.argv = proc[Top].argv /\ r.argv # <<>> /\ ran' = ran
            /\ given.noWait
  PROVE  Typed' /\ Holds(n, cut)'
<1> DEFINE m == proc[Top]
<1>1. /\ m \in Local /\ m.argv \in Argvs /\ m.parent = 0 /\ m.err \in Int
      /\ MainOf(given, offset, listed, n, cut[n], m, ran[Top])
      /\ ran[Top] = <<>> /\ ~(given.unlink /\ listed)
      /\ ~At({"reap", "wait", "out"})
  BY LastFits
<1>2. ran \in [Pids -> Argvs] /\ Top \in Pids /\ given \in Cases /\ listed' \in BOOLEAN
  BY PidFacts DEF Typed
<1>3. n = Top => cut[n] = 0
  BY DEF Holds, Top
<1>4. /\ r \in Process /\ ran' \in [Pids -> Argvs] /\ \A q \in Others : ran'[q] = ran[q]
      /\ MainOf(given, offset, listed, n, cut[n], r, ran'[Top])
  <2>1. CASE r = Program(m) /\ ran' = [ran EXCEPT ![Top] = m.argv] /\ m.argv # <<>>
    <3>1. MainOf(given, offset, listed, n, cut[n], r, m.argv)
      BY <1>1, <2>1, BecomesProgram
    <3>2. ran' \in [Pids -> Argvs] /\ ran'[Top] = m.argv /\ \A q \in Others : ran'[q] = ran[q]
      BY <1>1, <1>2, <2>1 DEF Others
    <3>3. r \in Process
      BY <1>1, <2>1, Kinds
    <3> QED BY <3>1, <3>2, <3>3
  <2>2. CASE r = Zombie(0, m.err) /\ ran' = ran /\ m.argv = <<>> /\ m.pc = "last"
    <3>1. MainOf(given, offset, listed, n, cut[n], r, ran[Top])
      BY <1>1, <1>2, <1>3, <2>2, NothingToRun
    <3> QED BY <1>1, <1>2, <2>2, <3>1, Kinds
  <2>3. ASSUME NEW e \in Int \ {0}, r = Zombie(0, e), ran' = ran, ~CalmCase(given)
        PROVE  r \in Process /\ MainOf(given, offset, listed, n, cut[n], r, ran'[Top])
    <3>1. MainOf(given, offset, listed, n, cut[n], Zombie(0, e), ran[Top])
      BY <1>1, <2>3, Dies
    <3> QED BY <2>3, <3>1, Kinds
  <2>4. CASE r \in Local /\ r.parent = 0 /\ r.pc = "again" /\ r.argv = m.argv /\ r.argv # <<>>
             /\ ran' = ran /\ given.noWait
    <3>1. /\ LastBatch(given, offset, cut[n], m.argv)
          /\ TidyCase(given) => RawSize(given.initSize, m.argv) <= SizeArgs + Padding * Ptr
      BY <1>1 DEF MainOf, Leaving
    <3>2. MainOf(given, offset, listed, n, cut[n], r, ran[Top])
      BY <1>1, <2>4, <3>1, Leaves DEF Leaving
    <3> QED BY <1>2, <2>4, <3>2, Kinds
  <2> QED BY <1>2, <2>1, <2>2, <2>3, <2>4
<1>5. Become(Top, r) \/ \E q \in ZombiesOf(Top) : BecomeReaping(Top, r, q)
  BY DEF Becomes
<1> QED BY <1>1, <1>2, <1>4, <1>5, MayReap

\* Where no refused block is taken for granted, there is one list of pointers.
LEMMA PointerFacts ==
  ASSUME NEW l \in Local, NEW m \in PointerLists(l)
  PROVE  \/ m = l
         \/ /\ MayRefuse /\ ~Clean(Program(m)) /\ ~Clean([m EXCEPT !.pc = "again"])
<1>1. m = l \/ (MayRefuse /\ m = [l EXCEPT !.argv = <<>>, !.mem = "null"])
  BY LocalFacts DEF PointerLists
<1>2. CASE MayRefuse /\ m = [l EXCEPT !.argv = <<>>, !.mem = "null"]
  BY <1>2 DEF Local, Clean, Program
<1> QED BY <1>1, <1>2

LEMMA ExecStep ==
  ASSUME Typed, Roomy, NEW n \in Pids, NEW cut \in [Pids -> Nat], Holds(n, cut), NEW p \in Pids, Exec(p), lack' = "no"
  PROVE  Typed' /\ Holds(n, cut)'
<1> DEFINE l == proc[p]
           a == [l EXCEPT !.pc = "again"]
<1>1. /\ l \in Local /\ l.kind = "xvp" /\ (l.pc = "exec" \/ l.pc = "last")
      /\ (l.pc = "last" => p = Top) /\ (p = Top => l.pc = "last")
  BY IsTop DEF Exec, Pcs
<1>2. UNCHANGED <<given, offset, listed, stray>>
  BY DEF Exec
<1>3. CountOf(l) = given.initCount <=> l.argv = <<>>
  <2>1. given.initCount \in Nat /\ CountOf(l) = given.initCount + Len(l.argv)
    BY <1>1, GivenFacts, LocalFacts, SizesOf DEF Typed
  <2>2. l.argv \in Seq(Strings)
    BY <1>1, LocalFacts DEF Argvs
  <2>3. Len(l.argv) \in Nat /\ (Len(l.argv) = 0 <=> l.argv = <<>>)
    BY <2>2
  <2> HIDE DEF l
  <2> QED BY <2>1, <2>3
<1>4. ASSUME NEW m, m \in PointerLists(l), CountOf(l) # given.initCount,
             \/ Fits(m) /\ Become(p, Program(m)) /\ ran' = [ran EXCEPT ![p] = m.argv]
             \/ /\ "exec" \in given.faults \/ ~Fits(m)
                /\ Become(p, IF given.noWait THEN [m EXCEPT !.pc = "again"]
                             ELSE Zombie(l.parent, IF Fits(m) THEN ENOENT ELSE E2BIG))
                /\ UNCHANGED ran
      PROVE  /\ l.argv # <<>>
             /\ \/ Become(p, Program(l)) /\ ran' = [ran EXCEPT ![p] = l.argv]
                \/ given.noWait /\ Become(p, a) /\ ran' = ran
                \/ /\ \E e \in Int \ {0} : Become(p, Zombie(l.parent, e))
                   /\ (given.faults # {} \/ ~Fits(l)) /\ ran' = ran
  <2> HIDE DEF a
  <2>1. l.argv # <<>>
    BY <1>3, <1>4
  <2>2. (IF Fits(m) THEN ENOENT ELSE E2BIG) \in Int \ {0}
    BY DEF ENOENT, E2BIG
  <2>3. m = l \/ (MayRefuse /\ ~Clean(Program(m)) /\ ~Clean([m EXCEPT !.pc = "again"]))
    BY <1>1, <1>4, PointerFacts
  <2>4. CASE Fits(m) /\ Become(p, Program(m)) /\ ran' = [ran EXCEPT ![p] = m.argv]
    <3>1. m = l
      BY <2>3, <2>4, StaysClean
    <3> QED BY <2>1, <2>4, <3>1
  <2>5. CASE /\ "exec" \in given.faults \/ ~Fits(m)
             /\ given.noWait /\ Become(p, [m EXCEPT !.pc = "again"]) /\ ran' = ran
    <3>1. m = l
      BY <2>3, <2>5, StaysClean
    <3> QED BY <2>1, <2>5, <3>1 DEF a
  <2>6. CASE /\ "exec" \in given.faults \/ ~Fits(m)
             /\ Become(p, Zombie(l.parent, IF Fits(m) THEN ENOENT ELSE E2BIG)) /\ ran' = ran
    <3>1. given.faults # {} \/ ~Fits(l)
      BY <2>3, <2>6 DEF MayRefuse
    <3> QED BY <2>1, <2>2, <2>6, <3>1
  <2> QED BY <1>4, <2>4, <2>5, <2>6
<1>5. \/ /\ l.argv = <<>> /\ ran' = ran
         /\ Become(p, IF l.pc = "exec" THEN [l EXCEPT !.pc = "reap"] ELSE Zombie(l.parent, l.err))
      \/ l.argv # <<>> /\ Become(p, Program(l)) /\ ran' = [ran EXCEPT ![p] = l.argv]
      \/ l.argv # <<>> /\ given.noWait /\ Become(p, a) /\ ran' = ran
      \/ /\ l.argv # <<>> /\ \E e \in Int \ {0} : Become(p, Zombie(l.parent, e))
         /\ (given.faults # {} \/ ~Fits(l)) /\ ran' = ran
  <2> HIDE DEF a
  <2>1. CASE CountOf(l) = given.initCount
    BY <1>3, <2>1 DEF Exec
  <2>2. CASE CountOf(l) # given.initCount
    <3>1. PICK m \in PointerLists(l) :
            \/ Fits(m) /\ Become(p, Program(m)) /\ ran' = [ran EXCEPT ![p] = m.argv]
            \/ /\ "exec" \in given.faults \/ ~Fits(m)
               /\ Become(p, IF given.noWait THEN [m EXCEPT !.pc = "again"]
                            ELSE Zombie(l.parent, IF Fits(m) THEN ENOENT ELSE E2BIG))
               /\ UNCHANGED ran
      BY <2>2 DEF Exec
    <3> QED BY <1>4, <2>2, <3>1
  <2> QED BY <2>1, <2>2
<1>6. a \in Local /\ a.parent = l.parent /\ a.pc = "again" /\ a.argv = l.argv
  <2>1. "again" \in Pcs
    BY DEF Pcs
  <2> QED BY <1>1, <2>1 DEF Local
<1> HIDE DEF a
<1>7. CASE p = Top
  <2>1. l.pc = "last" /\ l.parent = 0 /\ l.err \in Int
    BY <1>1, <1>7, LastFits
  <2>2. CASE l.argv = <<>> /\ Become(Top, Zombie(0, l.err)) /\ ran' = ran
    <3>1. Becomes(Zombie(0, l.err))
      BY <2>2 DEF Becomes
    <3> QED BY <1>1, <1>2, <1>7, <2>1, <2>2, <3>1, LastExecs
  <2>3. CASE l.argv # <<>> /\ Become(Top, Program(l)) /\ ran' = [ran EXCEPT ![Top] = l.argv]
    <3>1. Becomes(Program(l))
      BY <2>3 DEF Becomes
    <3> QED BY <1>1, <1>2, <1>7, <2>1, <2>3, <3>1, LastExecs
  <2>4. CASE l.argv # <<>> /\ given.noWait /\ Become(Top, a) /\ ran' = ran
    <3>1. Becomes(a)
      BY <2>4 DEF Becomes
    <3> QED BY <1>1, <1>2, <1>6, <1>7, <2>1, <2>4, <3>1, LastExecs
  <2>5. ASSUME NEW e \in Int \ {0}, Become(Top, Zombie(0, e)), given.faults # {} \/ ~Fits(l), ran' = ran
        PROVE  Typed' /\ Holds(n, cut)'
    <3>1. Becomes(Zombie(0, e))
      BY <2>5 DEF Becomes
    <3>2. ~CalmCase(given)
      BY <1>1, <1>7, <2>1, <2>5, LastFits DEF CalmCase
    <3> QED BY <1>1, <1>2, <1>7, <2>1, <2>5, <3>1, <3>2, LastExecs
  <2> QED BY <1>1, <1>5, <1>7, <2>1, <2>2, <2>3, <2>4, <2>5
<1>8. CASE p \in Others
  <2>1. /\ l.argv # <<>> /\ l.parent = Top
        /\ CalmCase(given) => Fits(l) /\ "exec" \notin given.faults
    BY <1>1, <1>8, ChildBatch
  <2>2. CASE Become(p, Program(l)) /\ ran' = [ran EXCEPT ![p] = l.argv]
    BY <1>1, <1>2, <1>8, <2>2, ChildExecs
  <2>3. CASE given.noWait /\ Become(p, a) /\ ran' = ran
    BY <1>1, <1>2, <1>6, <1>8, <2>1, <2>3, ChildExecs
  <2>4. ASSUME NEW e \in Int \ {0}, Become(p, Zombie(Top, e)), given.faults # {} \/ ~Fits(l), ran' = ran
        PROVE  Typed' /\ Holds(n, cut)'
    <3>1. (\E x \in Int : Zombie(Top, e) = Zombie(Top, x)) /\ ~CalmCase(given)
      BY <2>1, <2>4 DEF CalmCase
    <3> QED BY <1>1, <1>2, <1>8, <2>4, <3>1, ChildExecs
  <2> QED BY <1>5, <2>1, <2>2, <2>3, <2>4
<1> QED BY <1>7, <1>8, PidFacts

LEMMA ExecAgainStep ==
  ASSUME Typed, Roomy, NEW n \in Pids, NEW cut \in [Pids -> Nat], Holds(n, cut), NEW p \in Pids, ExecAgain(p), lack' = "no"
  PROVE  Typed' /\ Holds(n, cut)'
<1> DEFINE l == proc[p]
           e == IF Fits(l) THEN ENOENT ELSE E2BIG
           Then(r) == Become(p, r) \/ \E q \in ZombiesOf(p) : BecomeReaping(p, r, q)
<1>1. l \in Local /\ l.kind = "xvp" /\ l.pc = "again"
  BY IsTop DEF ExecAgain
<1>2. UNCHANGED <<given, offset, listed, stray>>
  BY DEF ExecAgain
<1>3. \/ Then(Program(l)) /\ ran' = [ran EXCEPT ![p] = l.argv]
      \/ ("exec" \in given.faults \/ ~Fits(l)) /\ Then(Zombie(l.parent, e)) /\ ran' = ran
  BY DEF ExecAgain
<1>4. e \in Int \ {0}
  BY DEF ENOENT, E2BIG
<1> HIDE DEF e
<1>5. CASE p = Top
  <2>1. l.parent = 0 /\ \A r : Then(r) <=> Becomes(r)
    BY <1>1, <1>5, LastFits DEF Becomes
  <2>2. CASE Then(Program(l)) /\ ran' = [ran EXCEPT ![Top] = l.argv]
    <3>1. Becomes(Program(l))
      BY <2>1, <2>2
    <3>2. l.argv # <<>>
      BY <1>1, <1>5, LastFits DEF MainOf
    <3> QED BY <1>1, <1>2, <1>5, <2>1, <2>2, <3>1, <3>2, LastExecs
  <2>3. CASE ("exec" \in given.faults \/ ~Fits(l)) /\ Then(Zombie(0, e)) /\ ran' = ran
    <3>1. Becomes(Zombie(0, e))
      BY <2>1, <2>3
    <3>2. ~CalmCase(given)
      BY <1>1, <1>5, <2>3, LastFits DEF CalmCase
    <3> QED BY <1>1, <1>2, <1>4, <1>5, <2>1, <2>3, <3>1, <3>2, LastExecs
  <2> QED BY <1>3, <1>5, <2>1, <2>2, <2>3
<1>6. CASE p \in Others
  <2>1. /\ l.parent = Top /\ (CalmCase(given) => Fits(l) /\ "exec" \notin given.faults)
        /\ \A r : Then(r) => Become(p, r)
    BY <1>1, <1>6, ChildBatch, Family
  <2>2. CASE Become(p, Program(l)) /\ ran' = [ran EXCEPT ![p] = l.argv]
    BY <1>1, <1>2, <1>6, <2>2, ChildExecs
  <2>3. CASE ("exec" \in given.faults \/ ~Fits(l)) /\ Become(p, Zombie(Top, e)) /\ ran' = ran
    <3>1. \E x \in Int : Zombie(Top, e) = Zombie(Top, x)
      BY <1>4
    <3> QED BY <1>1, <1>2, <1>6, <2>1, <2>3, <3>1, ChildExecs
  <2> HIDE DEF Then
  <2> QED BY <1>3, <2>1, <2>2, <2>3
<1> QED BY <1>5, <1>6, PidFacts

LEMMA FinishStep ==
  ASSUME Typed, Roomy, NEW n \in Pids, NEW cut \in [Pids -> Nat], Holds(n, cut), NEW p \in Pids, Finish(p), lack' = "no"
  PROVE  Typed' /\ Holds(n, cut)'
<1>1. proc[p].kind = "program" /\ proc[p].parent \in {0, Top} /\ UNCHANGED <<given, offset, listed, ran, stray>>
  BY Kinds DEF Finish, Typed
<1>2. PICK e \in given.endings : Become(p, Zombie(proc[p].parent, e))
  BY DEF Finish
<1>3. e \in Int /\ given \in Cases
  BY GivenFacts DEF Typed
<1> DEFINE r == Zombie(proc[p].parent, e)
<1>4. r \in Process /\ r.kind = "zombie" /\ r.parent = proc[p].parent /\ r.ending = e
  BY <1>1, <1>3, Kinds
<1> HIDE DEF r
<1>5. Become(p, r)
  BY <1>2 DEF r
<1>6. CASE p = Top
  <2>1. MainOf(given, offset, listed, n, cut[n], proc[Top], ran[Top])
    BY DEF Holds, Main
  <2>2. MainOf(given, offset', listed', n, cut[n], r, ran[Top])
    BY <1>1, <1>4, <1>6, <2>1 DEF MainOf
  <2>3. ~At({"reap", "wait"}) /\ ~(given.strict /\ n \in Others /\ HasFailed(n))
    <3>1. ~At({"reap", "wait"}) /\ ~At({"reap", "wait", "out"}) /\ proc[Top].kind # "zombie"
      BY <1>1, <1>6 DEF At
    <3> QED BY <3>1, StoppedFacts
  <2>4. offset' \in 0 .. Len(given.list) /\ listed' \in BOOLEAN
    BY <1>1 DEF Typed
  <2> QED BY <1>1, <1>4, <1>5, <1>6, <2>2, <2>3, <2>4, MainAlone
<1>7. CASE p \in Others
  <2>1. ChildOf(given, n, cut, p, proc[p], ran[p])
    BY <1>7 DEF Holds, Children
  <2>2. proc'[p] = r /\ (\A q \in Pids \ {p} : proc'[q] = proc[q]) /\ proc' \in [Pids -> Process]
    BY <1>4, <1>5, BecomeFacts
  <2>3. ChildOf(given, n, cut, p, r, ran'[p])
    BY <1>1, <1>4, <2>1 DEF ChildOf
  <2>4. Holds(n, cut)'
    BY <1>1, <1>4, <1>7, <2>2, <2>3, ChildMoves
  <2>5. Typed'
    BY <1>1, <2>2 DEF Typed
  <2> QED BY <2>4, <2>5
<1> QED BY <1>6, <1>7, PidFacts

LEMMA StutterStep ==
  ASSUME Typed, NEW n \in Pids, NEW cut \in [Pids -> Nat], Holds(n, cut), UNCHANGED vars
  PROVE  Typed' /\ Holds(n, cut)'
<1>1. UNCHANGED <<given, offset, listed, proc, ran, stray>>
  BY DEF vars
<1>2. Typed'
  BY <1>1 DEF Typed
<1>3. Children(n, cut)' /\ Main(n, cut)'
  BY <1>1 DEF Holds, Children, Main
<1>4. Turns(n)'
  BY <1>1 DEF Holds, Turns, At
<1>5. Stopped(n)'
  BY <1>1 DEF Holds, Stopped, At, HasFailed
<1>6. (Wanted(given.list))' = Wanted(given.list)
  BY <1>1
<1> QED BY <1>2, <1>3, <1>4, <1>5, <1>6 DEF Holds

LEMMA StartHolds ==
  ASSUME Init, Roomy
  PROVE  Typed /\ \E n \in Pids, cut \in [Pids -> Nat] : Holds(n, cut)
<1> DEFINE m   == [kind |-> "xvp", pc |-> "open", parent |-> 0, child |-> 0, err |-> 0,
                   buf |-> <<>>, arg |-> <<>>, pend |-> FALSE, argv |-> <<>>, mem |-> "whole"]
           cut == [p \in Pids |-> 0]
<1>1. given \in Cases /\ offset = 0 /\ listed = TRUE /\ ran = [p \in Pids |-> <<>>] /\ stray = {}
      /\ proc = [p \in Pids |-> IF p = Top THEN m ELSE Unborn]
  BY DEF Init
<1>2. /\ m \in Local /\ m.kind = "xvp" /\ m.pc = "open" /\ m.parent = 0 /\ m.buf = <<>> /\ m.arg = <<>> /\ ~m.pend
      /\ m.argv = <<>>
  <2>1. "open" \in Pcs /\ <<>> \in Argvs /\ <<>> \in Strings /\ 0 \in 0 .. MaxProcs /\ 0 \in Int
    BY PtrIsPositive DEF Pcs, Argvs, Strings
  <2> QED BY <2>1 DEF Local
<1> HIDE DEF m
<1>3. Len(given.list) \in Nat /\ Wanted(given.list) \in Argvs /\ 0 <= Len(Wanted(given.list))
  <2>1. Len(given.list) \in Nat
    BY <1>1, GivenFacts
  <2>2. 0 \in 0 .. Len(given.list)
    BY <2>1
  <2>3. Wanted(given.list) \in Argvs /\ Len(Wanted(given.list)) \in Nat
    BY <1>1, <2>2, PlaceFacts
  <2> QED BY <2>1, <2>3
<1>4. /\ proc \in [Pids -> Process] /\ proc[Top] = m
      /\ \A q \in Others : proc[q] = Unborn /\ proc[q].kind = "unborn" /\ ran[q] = <<>>
  <2>1. m \in Process /\ Unborn \in Process /\ Unborn.kind = "unborn"
    BY <1>2, Kinds
  <2> HIDE DEF Unborn
  <2> QED BY <1>1, <2>1, PidFacts
<1>5. Typed
  <2>1. <<>> \in Argvs
    BY DEF Argvs
  <2> QED BY <1>1, <1>3, <1>4, <2>1 DEF Typed
<1>6. cut \in [Pids -> Nat] /\ cut[1] = 0 /\ cut[Top] = 0 /\ Top <= cut[Top] + 1
  BY PidFacts DEF Top
<1> HIDE DEF cut
<1>7. Children(Top, cut)
  <2> SUFFICES ASSUME NEW q \in Others PROVE ChildOf(given, Top, cut, q, proc[q], ran[q])
    BY DEF Children
  <2>1. q > Top /\ ~(q <= Top)
    BY PtrIsPositive DEF Others, Pids, Top
  <2> QED BY <1>4, <2>1 DEF ChildOf
<1>8. Main(Top, cut)
  <2>1. Reading(given, 0, 0, m, 0)
    BY <1>1, <1>2, ReadOpen
  <2>2. \E pos \in 0 .. offset : Reading(given, offset, cut[Top], m, pos)
    BY <1>1, <1>6, <2>1
  <2>3. m.pc \in Looping /\ m.pc \notin Leaving
    BY <1>2 DEF Looping, Leaving
  <2>4. ran[Top] = <<>>
    BY <1>1, PidFacts
  <2>5. MainOf(given, offset, listed, Top, cut[Top], m, ran[Top])
    BY <1>2, <2>2, <2>3, <2>4 DEF MainOf
  <2> QED BY <1>4, <2>5 DEF Main
<1>9. Turns(Top) /\ Stopped(Top)
  BY <1>4 DEF Turns, Stopped, HasFailed
<1>10. Holds(Top, cut)
  BY <1>3, <1>6, <1>7, <1>8, <1>9 DEF Holds
<1> QED BY <1>5, <1>6, <1>10, PidFacts

LEMMA StepHolds ==
  ASSUME Typed, Roomy, NEW n \in Pids, NEW cut \in [Pids -> Nat], Holds(n, cut), [Next]_vars, lack' = "no"
  PROVE  Typed' /\ \E n2 \in Pids, cut2 \in [Pids -> Nat] : Holds(n2, cut2)'
<1>1. ASSUME Typed' /\ Holds(n, cut)'
      PROVE  Typed' /\ \E n2 \in Pids, cut2 \in [Pids -> Nat] : Holds(n2, cut2)'
  BY <1>1
<1>2. ASSUME NEW p \in Pids, Step(p)
      PROVE  Typed' /\ \E n2 \in Pids, cut2 \in [Pids -> Nat] : Holds(n2, cut2)'
  <2>1. CASE Open(p)
    BY <1>1, <2>1, OpenStep
  <2>2. CASE Fill(p)
    BY <1>1, <2>2, FillStep
  <2>3. CASE Scan(p)
    BY <1>1, <2>3, ScanStep
  <2>4. CASE Fork(p)
    BY <2>4, ForkStep
  <2>5. CASE Reap(p)
    BY <1>1, <2>5, ReapStep
  <2>6. CASE Wait(p)
    BY <1>1, <2>6, WaitStep
  <2>7. CASE Close(p)
    BY <1>1, <2>7, CloseStep
  <2>8. CASE Out(p)
    BY <1>1, <2>8, OutStep
  <2>9. CASE Exec(p)
    BY <1>1, <2>9, ExecStep
  <2>10. CASE ExecAgain(p)
    BY <1>1, <2>10, ExecAgainStep
  <2>11. CASE Finish(p)
    BY <1>1, <2>11, FinishStep
  <2> QED BY <1>2, <2>1, <2>2, <2>3, <2>4, <2>5, <2>6, <2>7, <2>8, <2>9, <2>10, <2>11 DEF Step
<1>4. CASE Ended \/ UNCHANGED vars
  BY <1>1, <1>4, StutterStep DEF Ended
<1> QED BY <1>2, <1>4 DEF Next

LEMMA GivenKept == ASSUME [Next]_vars PROVE given' = given
<1>1. ASSUME NEW p \in Pids, Step(p) PROVE given' = given
  BY <1>1 DEF Step, Open, Fill, Scan, Fork, Reap, Wait, Close, Out, Exec, ExecAgain, Finish
<1> QED BY <1>1 DEF Next, Ended, vars

\* Nothing takes back that a refused block has been taken for granted.
LEMMA LackStays == ASSUME [Next]_vars, lack' = "no" PROVE lack = "no"
<1>1. ASSUME NEW p \in Pids, Step(p) PROVE lack = "no"
  <2>1. (\E r : Become(p, r)) \/ (\E r, q : BecomeReaping(p, r, q)) \/ UNCHANGED lack
    BY <1>1, Zenon DEF Step, Open, Fill, Scan, Fork, Reap, Wait, Close, Out, Exec, ExecAgain, Finish
  <2> QED BY <2>1, StaysClean
<1> QED BY <1>1 DEF Next, Ended, vars

\* Every batch that is being filled is a cut of the list's arguments in their
\* order, and what is in the read buffer is the stretch of the list that follows
\* it: the invariant of run(), of reading the list and of forking, until a refused
\* block is taken for granted (memfun.h:308).
THEOREM BatchesAreCut == Spec => []Inv
<1>1. Init => Inv
  BY StartHolds DEF Inv
<1>2. Inv /\ [Next]_vars => Inv'
  <2> SUFFICES ASSUME Inv, [Next]_vars, Roomy', lack' = "no" PROVE Typed' /\ \E n \in Pids, cut \in [Pids -> Nat] : Holds(n, cut)'
    BY DEF Inv
  <2>1. Roomy /\ lack = "no"
    BY GivenKept, LackStays DEF Roomy
  <2>2. PICK n \in Pids, cut \in [Pids -> Nat] : Typed /\ Holds(n, cut)
    BY <2>1 DEF Inv
  <2> QED BY <2>1, <2>2, StepHolds
<1> QED BY <1>1, <1>2, PTL DEF Spec

-----------------------------------------------------------------------------
(* What has arrived. *)

LEMMA JoinCuts ==
  ASSUME NEW w \in Argvs, NEW i \in Nat, NEW j \in Nat, i <= j, j <= Len(w)
  PROVE  SubSeq(w, 1, i) \o SubSeq(w, i + 1, j) = SubSeq(w, 1, j)
<1>1. Len(w) \in Nat /\ w \in Seq(Strings) /\ 1 \in 1 .. Len(w) + 1 /\ i \in 1 - 1 .. Len(w) /\ j \in i .. Len(w)
  BY DEF Argvs
<1> QED BY <1>1, ConcatAdjacentSubSeq

\* What each turn adds.
Turn == [x \in (1 .. MaxProcs) \X Argvs |-> x[2] \o ran[InTurn(x[1])]]

LEMMA InTurnIsPid == \A k \in 1 .. MaxProcs : InTurn(k) \in Pids
  BY PtrIsPositive DEF InTurn, Pids, Top

LEMMA ArrivedRounds ==
  ASSUME ran \in [Pids -> Argvs]
  PROVE  \E f : Rounds(f, MaxProcs, Argvs, <<>>, Turn) /\ Arrived = f[MaxProcs]
<1> DEFINE n == MaxProcs
           Goes(m, v) == v \o ran[InTurn(m)]
           Body(f) == [m \in 0 .. n |-> IF m = 0 THEN <<>> ELSE f[m - 1] \o ran[InTurn(m)]]
           W == CHOOSE f : f = Body(f)
<1>1. n \in Nat /\ <<>> \in Argvs /\ \A m \in 1 .. n : ran[InTurn(m)] \in Argvs
  BY PtrIsPositive, InTurnIsPid DEF Argvs
<1>2. Turn \in [(1 .. n) \X Argvs -> Argvs] /\ \A m \in 1 .. n, v \in Argvs : Turn[<<m, v>>] = v \o ran[InTurn(m)]
  <2>1. \A m \in 1 .. n, v \in Argvs : v \o ran[InTurn(m)] \in Argvs
    BY <1>1 DEF Argvs
  <2> QED BY <2>1 DEF Turn
<1>3. PICK e : Rounds(e, n, Argvs, <<>>, Turn)
  <2> HIDE DEF n
  <2> QED BY <1>1, <1>2, RoundsExist
<1>4. e = [m \in 0 .. n |-> IF m = 0 THEN <<>> ELSE Goes(m, e[m - 1])]
  <2>1. \A m \in 1 .. n : e[m] = Goes(m, e[m - 1])
    <3> SUFFICES ASSUME NEW m \in 1 .. n PROVE e[m] = Goes(m, e[m - 1])
      OBVIOUS
    <3>1. m - 1 \in 0 .. n
      BY <1>1
    <3>2. e[m - 1] \in Argvs /\ e[m] = Turn[<<m, e[m - 1]>>]
      BY <1>3, <3>1 DEF Rounds
    <3> QED BY <1>2, <3>2
  <2>2. e \in [0 .. n -> Argvs] /\ e[0] = <<>>
    BY <1>3 DEF Rounds
  <2> HIDE DEF Goes
  <2> QED BY <1>1, <2>1, <2>2
<1>5. W = Body(W)
  <2>1. e = Body(e)
    BY <1>4 DEF Goes
  <2> HIDE DEF Body
  <2> QED BY <2>1
<1>6. Arrived = W[n]
  BY DEF Arrived
<1>7. /\ W = [m \in 0 .. n |-> W[m]] /\ W[0] = <<>>
      /\ \A m \in 1 .. n : W[m] = Goes(m, W[m - 1])
  <2>1. W = [m \in 0 .. n |-> IF m = 0 THEN <<>> ELSE Goes(m, W[m - 1])]
    BY <1>5
  <2> HIDE DEF W, n, Goes
  <2>2. 0 \in 0 .. n /\ 1 .. n \subseteq 0 .. n /\ \A m \in 1 .. n : m # 0
    BY <1>1
  <2>3. W = [m \in 0 .. n |-> W[m]]
    BY <2>1, Zenon
  <2>4. W[0] = <<>>
    BY <2>1, <2>2
  <2>5. \A m \in 1 .. n : W[m] = Goes(m, W[m - 1])
    BY <2>1, <2>2
  <2> QED BY <2>3, <2>4, <2>5
<1> HIDE DEF W, n
<1>8. \A m \in 1 .. n : W[m - 1] \in Argvs => W[m] = Turn[<<m, W[m - 1]>>]
  BY <1>2, <1>7
<1>9. Rounds(W, n, Argvs, <<>>, Turn)
  BY <1>1, <1>2, <1>7, <1>8, RoundsFrom
<1> QED BY <1>6, <1>9 DEF n

\* c cuts w up into what the processes have been given in their turns.
CutsUp(c, w) ==
  /\ c \in [0 .. MaxProcs -> Nat] /\ c[0] = 0
  /\ \A k \in 1 .. MaxProcs :
       c[k - 1] <= c[k] /\ c[k] <= Len(w) /\ ran[InTurn(k)] = SubSeq(w, c[k - 1] + 1, c[k])

LEMMA ArrivedIs ==
  ASSUME ran \in [Pids -> Argvs], NEW w \in Argvs, NEW c, CutsUp(c, w)
  PROVE  Arrived = SubSeq(w, 1, c[MaxProcs])
<1>1. PICK f : Rounds(f, MaxProcs, Argvs, <<>>, Turn) /\ Arrived = f[MaxProcs]
  BY ArrivedRounds
<1> DEFINE n == MaxProcs
           P == {k \in 0 .. n : f[k] = SubSeq(w, 1, c[k])}
<1>2. n \in Nat
  BY PtrIsPositive
<1>3. 0 \in P
  <2>1. SubSeq(w, 0 + 1, 0) = <<>>
    <3>1. 0 <= Len(w)
      BY DEF Argvs
    <3> QED BY <3>1, ArgCuts
  <2>2. f[0] = <<>> /\ c[0] = 0
    BY <1>1 DEF Rounds, CutsUp
  <2>3. f[0] = SubSeq(w, 1, c[0])
    BY <2>1, <2>2
  <2>4. 0 \in 0 .. n
    BY <1>2
  <2> HIDE DEF n
  <2> QED BY <2>3, <2>4
<1>4. ASSUME NEW m \in 0 .. n - 1, m \in P PROVE m + 1 \in P
  <2>1. m + 1 \in 1 .. n /\ (m + 1) - 1 = m /\ m \in 0 .. n /\ m + 1 \in 0 .. n
    BY <1>2
  <2>2. /\ c[m] \in Nat /\ c[m + 1] \in Nat /\ c[m] <= c[m + 1] /\ c[m + 1] <= Len(w)
        /\ ran[InTurn(m + 1)] = SubSeq(w, c[m] + 1, c[m + 1])
    BY <2>1 DEF CutsUp
  <2>3. f[m] \in Argvs /\ f[m + 1] = Turn[<<m + 1, f[m]>>]
    BY <1>1, <2>1 DEF Rounds
  <2>4. Turn[<<m + 1, f[m]>>] = f[m] \o ran[InTurn(m + 1)]
    BY <2>1, <2>3 DEF Turn
  <2>5. f[m] = SubSeq(w, 1, c[m])
    BY <1>4
  <2>6. f[m + 1] = SubSeq(w, 1, c[m]) \o SubSeq(w, c[m] + 1, c[m + 1])
    BY <2>2, <2>3, <2>4, <2>5
  <2>7. f[m + 1] = SubSeq(w, 1, c[m + 1])
    BY <2>2, <2>6, JoinCuts
  <2> QED BY <2>1, <2>7
<1>5. P \in SUBSET (0 .. n) /\ n \in 0 .. n
  BY <1>2
<1>6. P = 0 .. n
  <2> HIDE DEF P, n
  <2> QED BY <1>2, <1>3, <1>4, <1>5, Upwards
<1> QED BY <1>1, <1>5, <1>6

\* Where the batches of the turns before the last one end.
TurnEnds(n, cut) == [k \in 0 .. MaxProcs - 1 |-> IF k + 1 <= n THEN cut[k + 1] ELSE cut[n]]

LEMMA TurnEndsFacts ==
  ASSUME Typed, NEW n \in Pids, NEW cut \in [Pids -> Nat], Holds(n, cut), NEW c, c = TurnEnds(n, cut)
  PROVE  /\ c \in [0 .. MaxProcs - 1 -> Nat] /\ c[0] = 0 /\ c[MaxProcs - 1] = cut[n] /\ MaxProcs \in Nat \ {0}
         /\ Wanted(given.list) \in Argvs /\ Len(Wanted(given.list)) \in Nat /\ cut[n] <= Len(Wanted(given.list))
         /\ \A k \in 1 .. MaxProcs - 1 :
              /\ c[k - 1] <= c[k] /\ c[k] <= Len(Wanted(given.list))
              /\ InTurn(k) = k + 1 /\ k + 1 \in Others
              /\ k + 1 > n => ran[k + 1] = <<>> /\ c[k - 1] = c[k] /\ proc[k + 1].kind = "unborn"
              /\ k + 1 <= n => /\ Batch(given, cut, k + 1) = SubSeq(Wanted(given.list), c[k - 1] + 1, c[k])
                               /\ ran[k + 1] = <<>> \/ ran[k + 1] = SubSeq(Wanted(given.list), c[k - 1] + 1, c[k])
<1>1. MaxProcs \in Nat \ {0} /\ n \in 1 .. MaxProcs /\ n \in Nat /\ Pids = 1 .. MaxProcs
  BY PtrIsPositive DEF Pids
<1>2. Wanted(given.list) \in Argvs /\ Len(Wanted(given.list)) \in Nat
  <2>1. given \in Cases /\ 0 \in 0 .. Len(given.list)
    BY GivenFacts DEF Typed
  <2> QED BY <2>1, PlaceFacts
<1>3. cut[1] = 0 /\ cut[n] <= Len(Wanted(given.list))
  BY DEF Holds
<1>4. \A k \in 0 .. MaxProcs - 1 : c[k] = IF k + 1 <= n THEN cut[k + 1] ELSE cut[n]
  BY DEF TurnEnds
<1>5. c \in [0 .. MaxProcs - 1 -> Nat]
  <2>1. \A k \in 0 .. MaxProcs - 1 : k + 1 \in Pids
    BY <1>1
  <2> QED BY <2>1 DEF TurnEnds
<1>6. c[0] = 0 /\ c[MaxProcs - 1] = cut[n]
  BY <1>1, <1>3, <1>4
<1>7. ASSUME NEW k \in 1 .. MaxProcs - 1
      PROVE  /\ c[k - 1] <= c[k] /\ c[k] <= Len(Wanted(given.list))
             /\ InTurn(k) = k + 1 /\ k + 1 \in Others
             /\ k + 1 > n => ran[k + 1] = <<>> /\ c[k - 1] = c[k] /\ proc[k + 1].kind = "unborn"
             /\ k + 1 <= n => /\ Batch(given, cut, k + 1) = SubSeq(Wanted(given.list), c[k - 1] + 1, c[k])
                              /\ ran[k + 1] = <<>> \/ ran[k + 1] = SubSeq(Wanted(given.list), c[k - 1] + 1, c[k])
  <2>1. k \in Nat /\ k - 1 \in 0 .. MaxProcs - 1 /\ k \in 0 .. MaxProcs - 1 /\ (k - 1) + 1 = k /\ (k + 1) - 1 = k
        /\ k # MaxProcs /\ k + 1 \in Pids /\ k + 1 # 1
    BY <1>1
  <2>2. InTurn(k) = k + 1 /\ k + 1 \in Others
    BY <2>1 DEF InTurn, Others, Top
  <2>3. ChildOf(given, n, cut, k + 1, proc[k + 1], ran[k + 1])
    BY <2>2 DEF Holds, Children
  <2>4. /\ c[k - 1] = (IF k <= n THEN cut[k] ELSE cut[n])
        /\ c[k] = (IF k + 1 <= n THEN cut[k + 1] ELSE cut[n])
    BY <1>4, <2>1
  <2>5. CASE k + 1 > n
    <3>1. c[k] = cut[n] /\ c[k - 1] = cut[n]
      BY <1>1, <2>1, <2>4, <2>5
    <3>2. proc[k + 1].kind = "unborn" /\ ran[k + 1] = <<>>
      BY <2>3, <2>5 DEF ChildOf
    <3>3. ~(k + 1 <= n) /\ cut[n] \in Nat
      BY <1>1, <2>1, <2>5
    <3> QED BY <1>3, <2>2, <3>1, <3>2, <3>3
  <2>6. CASE k + 1 <= n
    <3>1. c[k] = cut[k + 1] /\ c[k - 1] = cut[k] /\ ~(k + 1 > n)
      BY <1>1, <2>1, <2>4, <2>6
    <3>2. Batch(given, cut, k + 1) = SubSeq(Wanted(given.list), cut[k] + 1, cut[k + 1])
      BY <2>1 DEF Batch
    <3>3. cut[k] < cut[k + 1] /\ cut[k + 1] <= Len(Wanted(given.list))
          /\ (ran[k + 1] = <<>> \/ ran[k + 1] = Batch(given, cut, k + 1))
      BY <2>1, <2>3, <2>6 DEF ChildOf
    <3>4. c[k - 1] \in Nat /\ c[k] \in Nat
      BY <1>5, <2>1
    <3>5. c[k - 1] <= c[k]
      BY <3>1, <3>3, <3>4
    <3> QED BY <2>2, <3>1, <3>2, <3>3, <3>5
  <2> QED BY <1>1, <2>1, <2>5, <2>6
<1> QED BY <1>1, <1>2, <1>3, <1>5, <1>6, <1>7

-----------------------------------------------------------------------------

LEMMA FitsFollows == ASSUME Inv, Roomy, Tidy, lack = "no" PROVE BatchesFit
<1> SUFFICES ASSUME NEW p \in Pids, Is(p, "exec") \/ Is(p, "last") PROVE Fits(proc[p])
  BY DEF BatchesFit
<1>1. PICK n \in Pids, cut \in [Pids -> Nat] : Typed /\ Holds(n, cut)
  BY DEF Inv
<1>2. /\ proc[p].kind = "xvp" /\ proc[p].pc \in {"exec", "last"}
      /\ (p = Top => proc[p].pc = "last")
  BY <1>1, IsTop DEF Is
<1>3. CASE p = Top
  BY <1>1, <1>2, <1>3, LastFits DEF Tidy
<1>4. CASE p \in Others
  <2>1. ChildOf(given, n, cut, p, proc[p], ran[p]) /\ proc[p] \in Local
    BY <1>1, <1>2, <1>4, ChildBatch, Kinds, PidFacts DEF Typed
  <2>2. RawSize(given.initSize, proc[p].argv) <= SizeArgs - 1 + Ptr
    BY <1>2, <2>1 DEF ChildOf
  <2> QED BY <1>1, <2>1, <2>2, TidyFits DEF Tidy
<1> QED BY <1>3, <1>4, PidFacts

LEMMA AtMostOne == ASSUME NEW S, \A x, y \in S : x = y PROVE Cardinality(S) <= 1
<1>1. CASE S = {}
  BY <1>1, FS_EmptySet
<1>2. ASSUME NEW x \in S PROVE Cardinality(S) <= 1
  <2>1. S = {x}
    OBVIOUS
  <2> QED BY <2>1, FS_Singleton
<1> QED BY <1>1, <1>2

LEMMA OneFollows == ASSUME Inv, Roomy, lack = "no" PROVE OneAtATime
<1>1. PICK n \in Pids, cut \in [Pids -> Nat] : Typed /\ Holds(n, cut)
  BY DEF Inv
<1> SUFFICES ASSUME ~given.noWait PROVE Cardinality({p \in Pids : proc[p].kind = "program"}) <= 1
  BY DEF OneAtATime
<1>2. \A q \in Others : proc[q].kind = "program" => proc[Top].kind = "xvp" /\ q = n
  BY <1>1 DEF Holds, Turns, At
<1>3. \A x, y \in {p \in Pids : proc[p].kind = "program"} : x = y
  BY <1>2, PidFacts
<1> QED BY <1>3, AtMostOne

LEMMA RemovedFollows == ASSUME Inv, Roomy, lack = "no" PROVE ListRemoved
<1>1. PICK n \in Pids, cut \in [Pids -> Nat] : Typed /\ Holds(n, cut)
  BY DEF Inv
<1> QED BY <1>1 DEF ListRemoved, Holds, Main, MainOf

LEMMA StrictFollows == ASSUME Inv, Roomy, lack = "no" PROVE StrictUnlessStray
<1>1. PICK n \in Pids, cut \in [Pids -> Nat] : Typed /\ Holds(n, cut)
  BY DEF Inv
<1> SUFFICES ASSUME given.strict, NEW p \in FailedChildren \ stray, NEW q \in StartedAfter(p) PROVE FALSE
  BY DEF StrictUnlessStray
<1>2. p \in Others /\ HasFailed(p)
  BY PidFacts DEF FailedChildren, HasFailed
<1>3. /\ p = n
      /\ \/ At({"reap", "wait"})
         \/ At({"out"})
         \/ proc[Top].kind = "zombie" /\ ran[Top] = <<>>
  BY <1>1, <1>2 DEF Holds, Stopped
<1>4. ran[Top] = <<>>
  <2>1. proc[Top].kind = "xvp" => ran[Top] = <<>>
    BY <1>1 DEF Holds, Main, MainOf
  <2> QED BY <1>3, <2>1 DEF At
<1>5. q \in Pids /\ ran[q] # <<>> /\ q # Top /\ q > n
  BY <1>3, <1>4 DEF StartedAfter
<1>6. ChildOf(given, n, cut, q, proc[q], ran[q])
  BY <1>1, <1>5, PidFacts DEF Holds, Children
<1> QED BY <1>5, <1>6 DEF ChildOf

\* All of xvp's own batch, with the batches before it.
LEMMA TurnsAndLast ==
  ASSUME Typed, NEW n \in Pids, NEW cut \in [Pids -> Nat], Holds(n, cut),
         \A q \in Others : q <= n => ran[q] = Batch(given, cut, q),
         ran[Top] = SubSeq(Wanted(given.list), cut[n] + 1, Len(Wanted(given.list)))
  PROVE  Arrived = Wanted(given.list)
<1> DEFINE w == Wanted(given.list)
           c == TurnEnds(n, cut)
           d == [k \in 0 .. MaxProcs |-> IF k = MaxProcs THEN Len(w) ELSE c[k]]
<1>1. /\ c \in [0 .. MaxProcs - 1 -> Nat] /\ c[0] = 0 /\ c[MaxProcs - 1] = cut[n] /\ MaxProcs \in Nat \ {0}
      /\ w \in Argvs /\ Len(w) \in Nat /\ cut[n] <= Len(w)
      /\ \A k \in 1 .. MaxProcs - 1 :
           /\ c[k - 1] <= c[k] /\ c[k] <= Len(w)
           /\ InTurn(k) = k + 1 /\ k + 1 \in Others
           /\ k + 1 > n => ran[k + 1] = <<>> /\ c[k - 1] = c[k]
           /\ k + 1 <= n => Batch(given, cut, k + 1) = SubSeq(w, c[k - 1] + 1, c[k])
  BY TurnEndsFacts
<1>2. n \in Nat
  BY PidFacts
<1> HIDE DEF c, w
<1>3. \A k \in 0 .. MaxProcs - 1 : d[k] = c[k]
  BY <1>1
<1>4. d[MaxProcs] = Len(w)
  BY <1>1
<1>5. d \in [0 .. MaxProcs -> Nat] /\ d[0] = 0
  <2>1. \A k \in 0 .. MaxProcs : k # MaxProcs => k \in 0 .. MaxProcs - 1
    BY <1>1
  <2> QED BY <1>1, <2>1
<1> HIDE DEF d
<1>6. ASSUME NEW k \in 1 .. MaxProcs
      PROVE  d[k - 1] <= d[k] /\ d[k] <= Len(w) /\ ran[InTurn(k)] = SubSeq(w, d[k - 1] + 1, d[k])
  <2>1. CASE k = MaxProcs
    <3>1. k - 1 \in 0 .. MaxProcs - 1 /\ InTurn(k) = Top
      BY <1>1, <2>1 DEF InTurn
    <3>2. d[k - 1] = cut[n] /\ d[k] = Len(w)
      BY <1>1, <1>3, <1>4, <2>1, <3>1
    <3> QED BY <1>1, <3>1, <3>2 DEF w
  <2>2. CASE k # MaxProcs
    <3>1. k \in 1 .. MaxProcs - 1 /\ k - 1 \in 0 .. MaxProcs - 1 /\ k \in 0 .. MaxProcs - 1 /\ k + 1 \in Nat
      BY <1>1, <2>2
    <3>2. d[k - 1] = c[k - 1] /\ d[k] = c[k]
      BY <1>3, <3>1
    <3>3. c[k - 1] <= c[k] /\ c[k] <= Len(w) /\ InTurn(k) = k + 1 /\ k + 1 \in Others
          /\ (k + 1 > n => ran[k + 1] = <<>> /\ c[k - 1] = c[k])
          /\ (k + 1 <= n => Batch(given, cut, k + 1) = SubSeq(w, c[k - 1] + 1, c[k]))
      BY <1>1, <3>1
    <3>4. CASE k + 1 <= n
      <4>1. ran[k + 1] = Batch(given, cut, k + 1)
        BY <3>3, <3>4
      <4> QED BY <3>2, <3>3, <3>4, <4>1
    <3>5. CASE k + 1 > n
      <4>1. c[k] \in Nat
        BY <1>1, <3>1
      <4>2. SubSeq(w, c[k] + 1, c[k]) = <<>>
        BY <1>1, <3>3, <4>1, ArgCuts
      <4> QED BY <3>2, <3>3, <3>5, <4>2
    <3> QED BY <1>2, <3>1, <3>4, <3>5
  <2> QED BY <2>1, <2>2
<1>7. CutsUp(d, w)
  BY <1>5, <1>6 DEF CutsUp
<1>8. ran \in [Pids -> Argvs]
  BY DEF Typed
<1>9. Arrived = SubSeq(w, 1, Len(w))
  BY <1>1, <1>4, <1>7, <1>8, ArrivedIs
<1>10. SubSeq(w, 1, Len(w)) = w
  BY <1>1 DEF Argvs
<1> QED BY <1>9, <1>10 DEF w

\* Nothing but xvp's own batch.
LEMMA OnlyTop ==
  ASSUME Typed, \A q \in Others : ran[q] = <<>>
  PROVE  Arrived = ran[Top]
<1> DEFINE w == ran[Top]
           d == [k \in 0 .. MaxProcs |-> IF k = MaxProcs THEN Len(w) ELSE 0]
<1>1. ran \in [Pids -> Argvs] /\ w \in Argvs /\ Len(w) \in Nat /\ MaxProcs \in Nat \ {0}
  BY PidFacts, PtrIsPositive DEF Typed, Argvs
<1> HIDE DEF w
<1>2. d \in [0 .. MaxProcs -> Nat] /\ d[0] = 0 /\ d[MaxProcs] = Len(w)
  BY <1>1
<1>3. \A k \in 0 .. MaxProcs - 1 : d[k] = 0
  BY <1>1
<1> HIDE DEF d
<1>4. SubSeq(w, 0 + 1, 0) = <<>>
  BY <1>1, ArgCuts
<1>5. SubSeq(w, 0 + 1, Len(w)) = w
  BY <1>1 DEF Argvs
<1>6. ASSUME NEW k \in 1 .. MaxProcs
      PROVE  d[k - 1] <= d[k] /\ d[k] <= Len(w) /\ ran[InTurn(k)] = SubSeq(w, d[k - 1] + 1, d[k])
  <2>1. d[k - 1] = 0
    BY <1>1, <1>3
  <2>2. CASE k = MaxProcs
    <3>1. d[k] = Len(w) /\ 0 <= Len(w) /\ Len(w) <= Len(w)
      BY <1>1, <1>2, <2>2
    <3>2. InTurn(k) = Top
      BY <2>2 DEF InTurn
    <3>3. ran[InTurn(k)] = w
      BY <3>2 DEF w
    <3> QED BY <1>5, <2>1, <3>1, <3>3
  <2>3. CASE k # MaxProcs
    <3>1. d[k] = 0 /\ InTurn(k) \in Others
      BY <1>1, <1>3, <2>3, InTurnIsPid DEF InTurn, Others, Top
    <3>2. ran[InTurn(k)] = <<>> /\ 0 <= 0 /\ 0 <= Len(w)
      BY <1>1, <3>1
    <3> QED BY <1>4, <2>1, <3>1, <3>2
  <2> QED BY <2>2, <2>3
<1>7. CutsUp(d, w)
  BY <1>2, <1>6 DEF CutsUp
<1>8. Arrived = SubSeq(w, 1, Len(w))
  BY <1>1, <1>2, <1>7, ArrivedIs
<1>9. SubSeq(w, 1, Len(w)) = w
  BY <1>1 DEF Argvs
<1> QED BY <1>8, <1>9 DEF w

LEMMA DeliveredFollows == ASSUME Inv, Roomy, lack = "no", Tidy, Len(given.list) < MaxProcs PROVE AllDelivered
<1> SUFFICES ASSUME Quiet, given.faults = {}, ~given.strict, ~given.forceOnce PROVE Arrived = Wanted(given.list)
  BY DEF AllDelivered
<1>1. PICK n \in Pids, cut \in [Pids -> Nat] : Typed /\ Holds(n, cut)
  BY DEF Inv
<1>2. CalmCase(given)
  BY DEF CalmCase, Tidy
<1>3. \A q \in Others : q <= n => ran[q] = Batch(given, cut, q)
  <2> SUFFICES ASSUME NEW q \in Others, q <= n PROVE ran[q] = Batch(given, cut, q)
    OBVIOUS
  <2>1. ChildOf(given, n, cut, q, proc[q], ran[q])
    BY <1>1 DEF Holds, Children
  <2>2. ~(q > n) /\ proc[q].kind # "xvp"
    BY PidFacts DEF Quiet
  <2> QED BY <1>2, <2>1, <2>2 DEF ChildOf
<1>4. ran[Top] = SubSeq(Wanted(given.list), cut[n] + 1, Len(Wanted(given.list)))
  <2>1. proc[Top].kind # "xvp"
    BY PidFacts DEF Quiet
  <2> QED BY <1>1, <1>2, <2>1 DEF Holds, Main, MainOf
<1> QED BY <1>1, <1>3, <1>4, TurnsAndLast

LEMMA OneOrNoneFollows == ASSUME Inv, Roomy, lack = "no", "read" \notin given.faults PROVE AllOrNothing
<1> SUFFICES ASSUME given.forceOnce, Quiet
             PROVE  \/ Arrived = Wanted(given.list) /\ \A p \in Pids \ {Top} : ran[p] = <<>>
                    \/ Arrived = <<>> /\ proc[Top].ending # 0
  BY DEF AllOrNothing
<1>1. PICK n \in Pids, cut \in [Pids -> Nat] : Typed /\ Holds(n, cut)
  BY DEF Inv
<1>2. MainOf(given, offset, listed, n, cut[n], proc[Top], ran[Top]) /\ proc[Top].kind # "xvp"
  BY <1>1, PidFacts DEF Holds, Main, Quiet
<1>3. n = Top /\ cut[n] = 0
  BY <1>1, <1>2 DEF MainOf, Holds, Top
<1>4. \A q \in Others : ran[q] = <<>>
  <2> SUFFICES ASSUME NEW q \in Others PROVE ran[q] = <<>>
    OBVIOUS
  <2>1. q > n
    BY <1>3, PtrIsPositive DEF Others, Pids, Top
  <2>2. ChildOf(given, n, cut, q, proc[q], ran[q])
    BY <1>1 DEF Holds, Children
  <2> QED BY <2>1, <2>2 DEF ChildOf
<1>5. Arrived = ran[Top]
  BY <1>1, <1>4, OnlyTop
<1>6. CASE ran[Top] # <<>>
  <2>1. ran[Top] = SubSeq(Wanted(given.list), 0 + 1, Len(Wanted(given.list)))
    BY <1>2, <1>3, <1>6 DEF MainOf, LastBatch
  <2>2. Wanted(given.list) \in Argvs
    BY <1>1, TurnEndsFacts
  <2>3. SubSeq(Wanted(given.list), 0 + 1, Len(Wanted(given.list))) = Wanted(given.list)
    BY <2>2 DEF Argvs
  <2> QED BY <1>4, <1>5, <2>1, <2>3 DEF Others
<1>7. CASE ran[Top] = <<>>
  <2>1. proc[Top].kind = "zombie"
    BY <1>2, <1>7 DEF MainOf
  <2>2. proc[Top].ending # 0 \/ Wanted(given.list) = <<>>
    BY <1>2, <1>7, <2>1 DEF MainOf
  <2> QED BY <1>4, <1>5, <1>7, <2>2 DEF Others
<1> QED BY <1>6, <1>7

LEMMA NeverBack ==
  ASSUME NEW n \in Nat, NEW c \in [0 .. n -> Nat], \A k \in 1 .. n : c[k - 1] <= c[k], NEW i \in 0 .. n, NEW j \in i .. n
  PROVE  c[i] <= c[j]
<1> DEFINE P == {k \in 0 .. n - i : c[i] <= c[i + k]}
<1>1. n - i \in Nat /\ i \in Nat
  OBVIOUS
<1>2. 0 \in P
  BY <1>1
<1>3. ASSUME NEW k \in 0 .. (n - i) - 1, k \in P PROVE k + 1 \in P
  <2>1. k + 1 \in 0 .. n - i /\ i + (k + 1) \in 1 .. n /\ (i + (k + 1)) - 1 = i + k /\ i + k \in 0 .. n
        /\ i + (k + 1) \in 0 .. n
    BY <1>1
  <2>2. c[i] <= c[i + k] /\ c[i + k] <= c[i + (k + 1)]
    BY <1>3, <2>1
  <2>3. c[i] \in Nat /\ c[i + k] \in Nat /\ c[i + (k + 1)] \in Nat
    BY <2>1
  <2>4. c[i] <= c[i + (k + 1)]
    BY <2>2, <2>3
  <2> QED BY <2>1, <2>4
<1>4. P \in SUBSET (0 .. n - i)
  OBVIOUS
<1>5. P = 0 .. n - i
  <2> HIDE DEF P
  <2> QED BY <1>1, <1>2, <1>3, <1>4, Upwards
<1>6. j - i \in 0 .. n - i /\ i + (j - i) = j
  BY <1>1
<1>7. j - i \in P
  BY <1>5, <1>6
<1> QED BY <1>6, <1>7

\* The batch of a child.
LEMMA StretchOfCut ==
  ASSUME NEW w \in Argvs, NEW i \in Nat, NEW j \in Nat, i <= j, j <= Len(w)
  PROVE  \A p : ran[p] = SubSeq(w, i + 1, j) => Stretch(w, p, i) /\ Len(ran[p]) = j - i
<1> SUFFICES ASSUME NEW p, ran[p] = SubSeq(w, i + 1, j) PROVE Stretch(w, p, i) /\ Len(ran[p]) = j - i
  OBVIOUS
<1>1. Len(SubSeq(w, i + 1, j)) = j - i /\ SubSeq(w, i + 1, j) \in Argvs
      /\ \A k \in 1 .. j - i : SubSeq(w, i + 1, j)[k] = w[i + k]
  BY ArgCuts
<1>2. Len(ran[p]) = j - i /\ DOMAIN ran[p] = 1 .. j - i /\ \A k \in 1 .. j - i : ran[p][k] = w[i + k]
  BY <1>1 DEF Argvs
<1>3. \A k \in 1 .. j - i : i + k <= Len(w)
  BY DEF Argvs
<1> QED BY <1>2, <1>3 DEF Stretch

\* That of xvp itself, with what a read error leaves.
LEMMA StretchOfLast ==
  ASSUME given \in Cases, offset \in 0 .. Len(given.list), NEW last \in Nat, last <= Len(Wanted(given.list)),
         LastBatch(given, offset, last, ran[Top])
  PROVE  Stretch(Wanted(given.list), Top, last)
<1> DEFINE w == Wanted(given.list)
           c == Count(given.list, offset)
<1>1. w \in Argvs /\ Len(w) \in Nat /\ c \in Nat /\ c <= Len(w) /\ StringTo(given.list, offset + 1) \in Strings
  BY PlaceFacts
<1>2. \/ ran[Top] = SubSeq(w, last + 1, Len(w))
      \/ last <= c /\ ran[Top] = SubSeq(w, last + 1, c)
      \/ /\ "read" \in given.faults /\ offset < Len(given.list) /\ last <= c
         /\ ran[Top] = Append(SubSeq(w, last + 1, c), StringTo(given.list, offset + 1))
  BY DEF LastBatch
<1> HIDE DEF w, c
<1>3. CASE ran[Top] = SubSeq(w, last + 1, Len(w))
  <2>1. last <= Len(w) /\ Len(w) <= Len(w)
    BY <1>1 DEF w
  <2>2. Stretch(w, Top, last)
    BY <1>1, <1>3, <2>1, StretchOfCut
  <2> QED BY <2>2 DEF w
<1>4. CASE last <= c /\ ran[Top] = SubSeq(w, last + 1, c)
  <2>1. Stretch(w, Top, last)
    BY <1>1, <1>4, StretchOfCut
  <2> QED BY <2>1 DEF w
<1>5. CASE /\ "read" \in given.faults /\ offset < Len(given.list) /\ last <= c
           /\ ran[Top] = Append(SubSeq(w, last + 1, c), StringTo(given.list, offset + 1))
  <2> DEFINE a == SubSeq(w, last + 1, c)
             s == StringTo(given.list, offset + 1)
  <2>1. a \in Seq(Strings) /\ Len(a) = c - last /\ \A k \in 1 .. c - last : a[k] = w[last + k]
    BY <1>1, <1>5, ArgCuts DEF Argvs
  <2>2. Half(s)
    BY <1>5 DEF Half
  <2>3. s \in Strings /\ ran[Top] = Append(a, s)
    BY <1>1, <1>5
  <2> HIDE DEF a, s
  <2>4. Len(ran[Top]) = c - last + 1 /\ DOMAIN ran[Top] = 1 .. c - last + 1 /\ ran[Top][c - last + 1] = s
        /\ \A k \in 1 .. c - last : ran[Top][k] = a[k]
    BY <1>1, <1>5, <2>1, <2>3
  <2>5. ASSUME NEW k \in 1 .. c - last + 1
        PROVE  \/ last + k <= Len(w) /\ ran[Top][k] = w[last + k]
               \/ k = Len(ran[Top]) /\ Half(ran[Top][k])
    <3>1. CASE k = c - last + 1
      BY <2>2, <2>4, <3>1
    <3>2. CASE k # c - last + 1
      <4>1. k \in 1 .. c - last /\ last + k <= Len(w)
        BY <1>1, <1>5, <3>2
      <4> QED BY <2>1, <2>4, <4>1
    <3> QED BY <3>1, <3>2
  <2>6. Stretch(w, Top, last)
    BY <2>4, <2>5 DEF Stretch
  <2> QED BY <2>6 DEF w
<1> QED BY <1>2, <1>3, <1>4, <1>5

LEMMA OrderFollows == ASSUME Inv, Roomy, lack = "no" PROVE OnceInOrder
<1>1. PICK n \in Pids, cut \in [Pids -> Nat] : Typed /\ Holds(n, cut)
  BY DEF Inv
<1> DEFINE w       == Wanted(given.list)
           c       == TurnEnds(n, cut)
           started == {k \in Pids : ran[InTurn(k)] # <<>>}
           from    == [k \in started |-> c[k - 1]]
<1>2. /\ c \in [0 .. MaxProcs - 1 -> Nat] /\ c[0] = 0 /\ c[MaxProcs - 1] = cut[n] /\ MaxProcs \in Nat \ {0}
      /\ w \in Argvs /\ Len(w) \in Nat /\ cut[n] <= Len(w)
      /\ \A k \in 1 .. MaxProcs - 1 :
           /\ c[k - 1] <= c[k] /\ c[k] <= Len(w)
           /\ InTurn(k) = k + 1 /\ k + 1 \in Others
           /\ k + 1 > n => ran[k + 1] = <<>>
           /\ k + 1 <= n => ran[k + 1] = <<>> \/ ran[k + 1] = SubSeq(w, c[k - 1] + 1, c[k])
  BY <1>1, TurnEndsFacts
<1>3. given \in Cases /\ offset \in 0 .. Len(given.list) /\ Pids = 1 .. MaxProcs /\ n \in Nat /\ cut[n] \in Nat
  BY <1>1, PidFacts DEF Typed, Pids
<1>4. MainOf(given, offset, listed, n, cut[n], proc[Top], ran[Top])
  BY <1>1 DEF Holds, Main
<1> HIDE DEF c, w
<1>5. \A k \in 0 .. MaxProcs - 1 : c[k] \in 0 .. Len(w)
  <2> SUFFICES ASSUME NEW k \in 0 .. MaxProcs - 1 PROVE c[k] \in 0 .. Len(w)
    OBVIOUS
  <2>1. c[k] \in Nat
    BY <1>2
  <2>2. c[k] <= Len(w)
    <3>1. CASE k = 0
      BY <1>2, <3>1
    <3>2. CASE k # 0
      <4>1. k \in 1 .. MaxProcs - 1
        BY <3>2
      <4> QED BY <1>2, <4>1
    <3> QED BY <3>1, <3>2
  <2> QED BY <1>2, <2>1, <2>2
<1>6. \A k \in Pids : k - 1 \in 0 .. MaxProcs - 1
  BY <1>2, <1>3
<1>7. from \in [started -> 0 .. Len(w)]
  BY <1>5, <1>6
<1>8. ASSUME NEW k \in started, k # MaxProcs
      PROVE  Stretch(w, InTurn(k), from[k]) /\ from[k] + Len(ran[InTurn(k)]) = c[k] /\ k \in 1 .. MaxProcs - 1
  <2>1. k \in 1 .. MaxProcs - 1 /\ k - 1 \in 0 .. MaxProcs - 1 /\ k \in 0 .. MaxProcs - 1 /\ k + 1 \in Nat
    BY <1>2, <1>3, <1>8
  <2>2. c[k - 1] \in Nat /\ c[k] \in Nat /\ c[k - 1] <= c[k] /\ c[k] <= Len(w) /\ InTurn(k) = k + 1
        /\ (k + 1 > n => ran[k + 1] = <<>>)
        /\ (k + 1 <= n => ran[k + 1] = <<>> \/ ran[k + 1] = SubSeq(w, c[k - 1] + 1, c[k]))
    BY <1>2, <2>1
  <2>3. ran[InTurn(k)] = SubSeq(w, c[k - 1] + 1, c[k])
    <3>1. ran[InTurn(k)] # <<>>
      OBVIOUS
    <3>2. k + 1 > n \/ k + 1 <= n
      BY <1>3, <2>1
    <3> QED BY <2>2, <3>1, <3>2
  <2>4. Stretch(w, InTurn(k), c[k - 1]) /\ Len(ran[InTurn(k)]) = c[k] - c[k - 1]
    <3>1. \A i, j \in Nat : i <= j /\ j <= Len(w) =>
            \A p : ran[p] = SubSeq(w, i + 1, j) => Stretch(w, p, i) /\ Len(ran[p]) = j - i
      BY <1>2, StretchOfCut
    <3>2. \A p : ran[p] = SubSeq(w, c[k - 1] + 1, c[k]) =>
            Stretch(w, p, c[k - 1]) /\ Len(ran[p]) = c[k] - c[k - 1]
      <4> HIDE DEF started, from
      <4> QED BY <2>2, <3>1
    <3> QED BY <2>3, <3>2
  <2>5. from[k] = c[k - 1]
    OBVIOUS
  <2> HIDE DEF from
  <2>6. from[k] + Len(ran[InTurn(k)]) = c[k]
    BY <2>2, <2>4, <2>5
  <2> QED BY <2>1, <2>4, <2>5, <2>6
<1>9. ASSUME NEW k \in started, k = MaxProcs PROVE Stretch(w, InTurn(k), from[k])
  <2>1. InTurn(k) = Top
    BY <1>9 DEF InTurn
  <2>2. ran[Top] # <<>>
    BY <2>1
  <2>3. LastBatch(given, offset, cut[n], ran[Top])
    BY <1>4, <2>2 DEF MainOf
  <2>4. Stretch(w, Top, cut[n])
    BY <1>2, <1>3, <2>3, StretchOfLast DEF w
  <2>5. from[k] = cut[n]
    BY <1>2, <1>9
  <2> QED BY <2>1, <2>4, <2>5
<1>10. ASSUME NEW k \in started, NEW m \in started, k < m PROVE from[k] + Len(ran[InTurn(k)]) <= from[m]
  <2>1. k # MaxProcs /\ k \in 0 .. MaxProcs - 1 /\ m - 1 \in k .. MaxProcs - 1 /\ MaxProcs - 1 \in Nat
    BY <1>2, <1>3, <1>10
  <2>2. from[k] + Len(ran[InTurn(k)]) = c[k]
    BY <1>8, <2>1
  <2>3. c[k] <= c[m - 1]
    <3>1. \A i \in 1 .. MaxProcs - 1 : c[i - 1] <= c[i]
      BY <1>2
    <3> HIDE DEF started
    <3> QED BY <1>2, <2>1, <3>1, NeverBack
  <2>4. from[m] = c[m - 1]
    OBVIOUS
  <2> QED BY <2>2, <2>3, <2>4
<1> HIDE DEF from
<1>11. /\ \A k \in started : Stretch(w, InTurn(k), from[k])
       /\ \A k, m \in started : k < m => from[k] + Len(ran[InTurn(k)]) <= from[m]
  BY <1>8, <1>9, <1>10
<1> QED BY <1>7, <1>11 DEF OnceInOrder, w

-----------------------------------------------------------------------------
(* Where memory is not refused, nothing is lacking. *)

Enough == Roomy /\ ~MayRefuse => lack = "no"

LEMMA CleanOnes ==
  /\ \A l \in Local : Clean(l) /\ Clean(Program(l))
  /\ \A parent, e : Clean(Zombie(parent, e))
  BY DEF Local, Clean, Program, Zombie

LEMMA FillsClean ==
  ASSUME NEW p \in Pids, proc[p] \in Local, proc[p].pc = "fill", ~MayRefuse, Fill(p), given \in Cases, offset \in Nat
  PROVE  \E r : Clean(r) /\ Become(p, r)
<1>1. PICK l \in IF proc[p].pend THEN Stored(proc[p], proc[p].arg) ELSE {proc[p]} :
        IF Failed(l) THEN Become(p, l)
        ELSE \/ Become(p, [l EXCEPT !.pc = "scan"])
             \/ \E n \in 1 .. Min({ReadBuf, Len(given.list) - offset}) :
                  Become(p, [l EXCEPT !.pc = "scan", !.buf = SubSeq(given.list, offset + 1, offset + n)])
             \/ \E m \in IF l.arg = <<>> \/ TooLong(l.arg) THEN {l} ELSE Stored(l, l.arg) :
                  Become(p, IF Failed(m) THEN m ELSE [m EXCEPT !.pc = "close"])
  BY Zenon DEF Fill
<1>2. l \in Local
  <2>1. CASE proc[p].pend
    <3>1. proc[p].arg \in Strings /\ l = Put(proc[p], proc[p].arg)
      BY <1>1, <2>1, LocalFacts, StoredFacts
    <3> QED BY <3>1, PutFacts
  <2> QED BY <1>1, <2>1
<1>3. \A pc, buf : Clean([l EXCEPT !.pc = pc]) /\ Clean([l EXCEPT !.pc = pc, !.buf = buf])
  BY <1>2 DEF Local, Clean
<1>4. \A m \in IF l.arg = <<>> \/ TooLong(l.arg) THEN {l} ELSE Stored(l, l.arg) :
        Clean(IF Failed(m) THEN m ELSE [m EXCEPT !.pc = "close"])
  <2> SUFFICES ASSUME NEW m \in IF l.arg = <<>> \/ TooLong(l.arg) THEN {l} ELSE Stored(l, l.arg)
               PROVE  m \in Local
    BY DEF Local, Clean
  <2>1. CASE l.arg = <<>> \/ TooLong(l.arg)
    BY <1>2, <2>1
  <2>2. CASE ~(l.arg = <<>> \/ TooLong(l.arg))
    <3>1. l.arg \in Strings /\ m = Put(l, l.arg)
      BY <1>2, <2>2, LocalFacts, StoredFacts
    <3> QED BY <1>2, <3>1, PutFacts
  <2> QED BY <2>1, <2>2
<1> QED BY <1>1, <1>2, <1>3, <1>4, CleanOnes

LEMMA ScansClean ==
  ASSUME NEW p \in Pids, proc[p] \in Local, ~MayRefuse, Scan(p)
  PROVE  \E r : Clean(r) /\ Become(p, r)
<1> DEFINE l    == proc[p]
           b    == Block(l.buf)
           arg  == l.arg \o SubSeq(l.buf, 1, b)
           rest == SubSeq(l.buf, b + 2, Len(l.buf))
           next == IF rest = <<>> THEN "fill" ELSE "scan"
           y    == [l EXCEPT !.buf = rest]
<1>1. IF b = Len(l.buf)
      THEN Become(p, [l EXCEPT !.pc = "fill", !.buf = <<>>, !.arg = arg])
      ELSE IF TooLong(arg)
      THEN Become(p, [l EXCEPT !.pc = next, !.buf = rest, !.arg = <<>>])
      ELSE IF IsFull(l, Len(arg))
      THEN Become(p, [l EXCEPT !.pc = "fork", !.buf = rest, !.arg = arg, !.pend = TRUE])
      ELSE \E m \in Stored(y, arg) :
             Become(p, IF Failed(m) THEN m ELSE [m EXCEPT !.pc = IF IsFull(m, 0) THEN "fork" ELSE next])
  BY DEF Scan
<1>2. b \in 0 .. Len(l.buf) /\ l.buf \in Seq(Nat) /\ l.arg \in Seq(Nat)
  <2>1. l.buf \in Seq(Nat) /\ l.arg \in Seq(Nat)
    BY LocalFacts DEF Strings
  <2>2. l.buf \in Strings
    BY LocalFacts
  <2> HIDE DEF l
  <2> QED BY <2>1, <2>2, BlockFacts
<1>3. arg \in Strings /\ (b # Len(l.buf) => rest \in Strings)
  <2> HIDE DEF b, l
  <2>1. SubSeq(l.buf, 1, b) \in Seq(Nat)
    BY <1>2, SubSeqProperties
  <2>2. b # Len(l.buf) => SubSeq(l.buf, b + 2, Len(l.buf)) \in Seq(Nat)
    BY <1>2, SubSeqProperties
  <2> QED BY <1>2, <2>1, <2>2 DEF Strings
<1> HIDE DEF b, arg, rest
<1>4. b # Len(l.buf) => y \in Local
  BY <1>3 DEF Local
<1>5. /\ Clean([l EXCEPT !.pc = "fill", !.buf = <<>>, !.arg = arg])
      /\ Clean([l EXCEPT !.pc = next, !.buf = rest, !.arg = <<>>])
      /\ Clean([l EXCEPT !.pc = "fork", !.buf = rest, !.arg = arg, !.pend = TRUE])
  BY DEF Local, Clean
<1>6. b # Len(l.buf) => \A m \in Stored(y, arg) :
        Clean(IF Failed(m) THEN m ELSE [m EXCEPT !.pc = IF IsFull(m, 0) THEN "fork" ELSE next])
  <2> HIDE DEF y
  <2> SUFFICES ASSUME b # Len(l.buf), NEW m \in Stored(y, arg) PROVE m \in Local
    BY DEF Local, Clean
  <2>1. m = Put(y, arg)
    BY <1>3, <1>4, StoredFacts
  <2> QED BY <1>3, <1>4, <2>1, PutFacts
<1> HIDE DEF y, next
<1> QED BY <1>1, <1>5, <1>6

LEMMA StepsClean ==
  ASSUME Typed, NEW p \in Pids, ~MayRefuse, Step(p)
  PROVE  \/ \E r : Clean(r) /\ (Become(p, r) \/ \E q : BecomeReaping(p, r, q))
         \/ UNCHANGED lack
<1>0. \A pc : Is(p, pc) => proc[p] \in Local /\ proc[p].pc = pc
  BY Kinds DEF Is, Typed
<1>1. \A l \in Local : \A r \in Refined(l) : Clean(r)
  BY RefinedFacts, AgainFacts, CleanOnes
<1>2. \A l \in Local : \A err : Clean(GiveUp(l, err))
  BY DEF GiveUp, Local, Clean
<1>3. \A l \in Local : \A pc : Clean([l EXCEPT !.pc = pc])
  BY DEF Local, Clean
<1>4. given \in Cases /\ offset \in Nat
  BY GivenFacts DEF Typed
<1>5. CASE Open(p)
  BY <1>0, <1>1, <1>5, CleanOnes DEF Open
<1>6. CASE Fill(p)
  <2>1. proc[p] \in Local /\ proc[p].pc = "fill"
    BY <1>0, <1>6 DEF Fill
  <2> QED BY <1>4, <1>6, <2>1, FillsClean
<1>7. CASE Scan(p)
  <2>1. proc[p] \in Local
    BY <1>0, <1>7 DEF Scan
  <2> QED BY <1>7, <2>1, ScansClean
<1>8. CASE Fork(p)
  <2>1. proc[p] \in Local
    BY <1>0, <1>8 DEF Fork
  <2> QED BY <1>2, <1>8, <2>1 DEF Fork
<1>9. CASE Reap(p)
  <2>1. proc[p] \in Local
    BY <1>0, <1>9 DEF Reap
  <2>2. \A r \in IF given.noWait THEN Refined(proc[p]) ELSE {[proc[p] EXCEPT !.pc = "wait", !.err = ECHILD]} : Clean(r)
    <3>1. CASE given.noWait
      BY <1>1, <2>1, <3>1
    <3>2. Clean([proc[p] EXCEPT !.pc = "wait", !.err = ECHILD])
      BY <2>1 DEF Local, Clean
    <3> QED BY <3>1, <3>2
  <2> QED BY <1>9, <2>2 DEF Reap
<1>10. CASE Wait(p)
  <2> DEFINE l == proc[p]
             e == proc[l.child].ending
             m == [l EXCEPT !.err = IF e = Killed THEN @ ELSE e]
             S == IF given.strict /\ e # 0 THEN {GiveUp(m, m.err)} ELSE Refined(m)
  <2>1. l \in Local
    BY <1>0, <1>10 DEF Wait
  <2>2. CASE \E r \in Refined(l) : Become(p, r)
    BY <1>1, <2>1, <2>2
  <2>3. CASE l.child \in ZombiesOf(p) /\ \E r \in S : BecomeReaping(p, r, l.child)
    <3>1. l.child \in Pids /\ proc[l.child].kind = "zombie"
      BY <2>3 DEF ZombiesOf, ChildrenOf
    <3>2. proc[l.child] \in Process
      BY <3>1 DEF Typed
    <3>3. e \in Int
      BY <3>1, <3>2, Kinds
    <3> HIDE DEF e
    <3>4. m \in Local
      BY <2>1, <3>3 DEF Local
    <3> HIDE DEF m
    <3>5. \A r \in S : Clean(r)
      BY <1>1, <1>2, <3>4
    <3> QED BY <2>3, <3>5
  <2> QED BY <1>10, <2>2, <2>3 DEF Wait
<1>11. CASE Close(p)
  <2>1. proc[p] \in Local
    BY <1>0, <1>11 DEF Close
  <2> QED BY <1>3, <1>11, <2>1 DEF Close
<1>12. CASE Out(p)
  BY <1>12, CleanOnes DEF Out
<1>13. CASE Exec(p)
  <2> DEFINE l == proc[p]
  <2>1. l \in Local
    BY <1>0, <1>13 DEF Exec
  <2>2. CASE CountOf(l) = given.initCount
    <3>1. Clean(IF l.pc = "exec" THEN [l EXCEPT !.pc = "reap"] ELSE Zombie(l.parent, l.err))
      BY <1>3, <2>1, CleanOnes
    <3> QED BY <1>13, <2>2, <3>1 DEF Exec
  <2>3. CASE CountOf(l) # given.initCount
    <3>1. \A m \in PointerLists(l) : m = l
      BY <2>1, PointerFacts
    <3>2. \A parent, e : Clean(IF given.noWait THEN [l EXCEPT !.pc = "again"] ELSE Zombie(parent, e))
      BY <1>3, <2>1, CleanOnes
    <3>3. \/ Become(p, Program(l))
          \/ Become(p, IF given.noWait THEN [l EXCEPT !.pc = "again"]
                       ELSE Zombie(l.parent, IF Fits(l) THEN ENOENT ELSE E2BIG))
      BY <1>13, <2>3, <3>1 DEF Exec
    <3> QED BY <2>1, <3>2, <3>3, CleanOnes
  <2> QED BY <2>2, <2>3
<1>14. CASE ExecAgain(p)
  <2>1. proc[p] \in Local
    BY <1>0, <1>14 DEF ExecAgain
  <2> QED BY <1>14, <2>1, CleanOnes DEF ExecAgain
<1>15. CASE Finish(p)
  BY <1>15, CleanOnes DEF Finish
<1> QED BY <1>5, <1>6, <1>7, <1>8, <1>9, <1>10, <1>11, <1>12, <1>13, <1>14, <1>15 DEF Step

LEMMA EnoughKept == ASSUME Inv, Enough, [Next]_vars PROVE Enough'
<1> SUFFICES ASSUME Roomy, ~MayRefuse, lack = "no" PROVE lack' = "no"
  BY GivenKept DEF Enough, Roomy, MayRefuse
<1>1. Typed
  BY DEF Inv
<1>2. ASSUME NEW p \in Pids, Step(p) PROVE lack' = "no"
  <2>1. \A r : Clean(r) => Noted(r) = lack
    BY DEF Clean, Noted
  <2> QED BY <1>1, <1>2, <2>1, StepsClean DEF Become, BecomeReaping
<1> QED BY <1>2 DEF Next, Ended, vars

LEMMA EnoughHolds == Spec => []Enough
<1>1. Init => Enough
  BY DEF Init, Enough
<1>2. Inv /\ Enough /\ [Next]_vars => Enough'
  BY EnoughKept
<1> QED BY <1>1, <1>2, BatchesAreCut, PTL DEF Spec

-----------------------------------------------------------------------------
(* The theorems. *)

\* When an argument that is short enough fits behind the common ones, and what
\* has no NUL behind it is made up for by the padding, no batch is handed to
\* execve(2) that it must refuse for its size (is_argv_full(), which counts
\* whole words, and argc_padding), until a refused block is taken for granted.
THEOREM BatchesAlwaysFit == Spec => [](Roomy /\ Tidy /\ lack = "no" => BatchesFit)
<1>1. Inv => (Roomy /\ Tidy /\ lack = "no" => BatchesFit)
  BY FitsFollows
<1> QED BY <1>1, BatchesAreCut, PTL

\* Whatever fails, and however the list is read, no argument arrives twice or
\* before an earlier one, and none is torn but the last one of a list that
\* could not be read to its end (the loop of run()), until a refused block is
\* taken for granted (memfun.h:308).
THEOREM ArgumentsComeInOrder == Spec => [](Roomy => OnceInOrder)
<1>1. Inv => (Roomy => OnceInOrder)
  BY OrderFollows DEF OnceInOrder
<1> QED BY <1>1, BatchesAreCut, PTL

\* When nothing fails and xvp may fork as often as it wants to, the programs
\* have been given the whole list once they all have ended (run(), do_exec()).
THEOREM ListIsDelivered ==
  Spec => [](Roomy /\ Tidy /\ Len(given.list) < MaxProcs => AllDelivered)
<1>1. Inv /\ Enough => (Roomy /\ Tidy /\ Len(given.list) < MaxProcs => AllDelivered)
  BY DeliveredFollows DEF Enough, MayRefuse, AllDelivered
<1> QED BY <1>1, BatchesAreCut, EnoughHolds, PTL

\* -f, -s and -u do what the usage text says of them, and without -n programs
\* wait for one another, until a refused block is taken for granted; a read
\* error makes -f run what there is of the list.
THEOREM OptionsHold ==
  Spec => [](Roomy /\ (given.forceOnce => "read" \notin given.faults) => UsageHolds)
<1>1. Inv => (Roomy /\ (given.forceOnce => "read" \notin given.faults) => UsageHolds)
  <2> SUFFICES ASSUME Inv, Roomy, lack = "no", given.forceOnce => "read" \notin given.faults
               PROVE  AllOrNothing /\ StrictUnlessStray /\ ListRemoved /\ OneAtATime
    BY DEF UsageHolds
  <2>1. AllOrNothing
    <3>1. CASE given.forceOnce
      BY <3>1, OneOrNoneFollows
    <3>2. CASE ~given.forceOnce
      BY <3>2 DEF AllOrNothing
    <3> QED BY <3>1, <3>2
  <2> QED BY <2>1, StrictFollows, RemovedFollows, OneFollows
<1> QED BY <1>1, BatchesAreCut, PTL
=============================================================================
