---------------------------- MODULE Nproc_proofs ----------------------------
(* Proofs about Nproc: what processes are told of the number of CPUs, for   *)
(* any number of processes and execs and any limit.  And, behind, proofs    *)
(* about EntryPoint: what its parts and programs are run with, for any list *)
(* of parts, any preloaded libraries and any number of runs.                *)
EXTENDS Container, SequenceTheorems, WellFoundedInduction, TLAPS

-----------------------------------------------------------------------------
(* The decision, in terms of the three numbers it is made of. *)

LEMMA CountBounds ==
  ASSUME NEW max \in 0 .. CpuMax, NEW e \in Env
  PROVE  /\ Asked(max, e) \in 0 .. CpuMax
         /\ Count(max, e) \in 1 .. CpuMax
         /\ Forces(max, e) => Count(max, e) = Asked(max, e) /\ max < Asked(max, e)
         /\ ~Forces(max, e) /\ max > 0 => Count(max, e) <= max
<1>1. e.nproc \in 0 .. CpuMax /\ CpuMax \in Nat /\ CpuMax >= 1
  BY CpuAssumption DEF Env
<1>2. Asked(max, e) \in 0 .. CpuMax
  BY <1>1 DEF Asked, Larger
<1>3. Forces(max, e) => max < Asked(max, e)
  BY <1>1, <1>2 DEF Forces
<1> DEFINE n == Asked(max, e)
<1>4. n \in 0 .. CpuMax BY <1>2
<1> HIDE DEF n
<1>5. Count(max, e) = Larger(1, IF Forces(max, e) THEN n ELSE MinPositive(max, n))
  BY DEF Count, n
<1>6. CASE Forces(max, e)
  <2>1. max < n BY <1>3, <1>6 DEF n
  <2>2. Count(max, e) = n BY <1>1, <1>4, <1>5, <1>6, <2>1 DEF Larger
  <2> QED BY <1>1, <1>2, <1>6, <2>1, <2>2, <1>4 DEF n
<1>7. CASE ~Forces(max, e)
  <2>1. Count(max, e) \in 1 .. CpuMax /\ (max > 0 => Count(max, e) <= max)
    BY <1>1, <1>4, <1>5, <1>7 DEF Larger, Smaller, MinPositive
  <2> QED BY <1>2, <1>7, <2>1
<1> QED BY <1>6, <1>7

LEMMA LeftIsEnv ==
  ASSUME NEW max \in 0 .. CpuMax, NEW e \in Env
  PROVE  Left(max, e) \in Env /\ Left(max, e).nproc \in 1 .. CpuMax
BY CountBounds, CpuAssumption DEF Left, Env, Kinds

\* Nothing is forced but by the environment, and then nothing above the
\* limit is told.
LEMMA NormalStays ==
  ASSUME NEW max \in 0 .. CpuMax, NEW e \in Env, e.kind = "normal"
  PROVE  /\ Left(max, e).kind = "normal"
         /\ max > 0 => Left(max, e).nproc <= max
<1>1. ~Forces(max, e) BY DEF Forces
<1> QED BY <1>1, CountBounds DEF Left

LEMMA LeftIsMeant ==
  ASSUME NEW max \in 0 .. CpuMax, NEW e \in Env
  PROVE  Left(max, e).nproc = Meant(max, e)
<1>1. e.nproc \in 0 .. CpuMax /\ CpuMax \in Nat /\ e.kind \in Kinds
  BY CpuAssumption DEF Env
<1> DEFINE n == e.nproc
<1> HIDE DEF n
<1>2. n \in 0 .. CpuMax BY <1>1 DEF n
<1>3. Left(max, e).nproc = Count(max, e) BY DEF Left
<1>4. CASE e.kind = "normal"
  <2>1. Asked(max, e) = (IF n = 0 THEN max ELSE n) /\ ~Forces(max, e)
    BY <1>4 DEF Asked, Forces, n
  <2> QED BY <1>1, <1>2, <1>3, <1>4, <2>1 DEF n, Count, Meant, Larger, Smaller, MinPositive
<1>5. CASE e.kind = "force"
  <2>1. Asked(max, e) = (IF n = 0 THEN max ELSE n) /\ (Forces(max, e) <=> Asked(max, e) > max)
    BY <1>5 DEF Asked, Forces, n
  <2> QED BY <1>1, <1>2, <1>3, <1>5, <2>1 DEF n, Count, Meant, Larger, Smaller, MinPositive
<1>6. CASE e.kind = "min"
  <2>1. /\ Asked(max, e) = Larger(IF n = 0 THEN max ELSE n, max)
        /\ Forces(max, e) <=> Asked(max, e) > max
    BY <1>6 DEF Asked, Forces, n
  <2> QED BY <1>1, <1>2, <1>3, <1>6, <2>1 DEF n, Count, Meant, Larger, Smaller, MinPositive
<1> QED BY <1>1, <1>4, <1>5, <1>6 DEF Kinds

\* To decide once more changes nothing.
LEMMA LeftTwice ==
  ASSUME NEW max \in 0 .. CpuMax, NEW e \in Env
  PROVE  Left(max, Left(max, e)) = Left(max, e)
<1> DEFINE c == Count(max, e)
           e2 == Left(max, e)
<1>1. c \in 1 .. CpuMax /\ CpuMax \in Nat BY CountBounds, CpuAssumption
<1>2. e2.nproc = c /\ e2.kind \in {"normal", "force"} /\ (e2.kind = "force" <=> Forces(max, e))
  BY DEF Left
<1>3. Asked(max, e2) = c BY <1>1, <1>2 DEF Asked
<1>4. Forces(max, e) => c > max BY CountBounds
<1>5. Forces(max, e2) <=> Forces(max, e) BY <1>2, <1>3, <1>4 DEF Forces
<1>6. ~Forces(max, e) => max = 0 \/ c <= max BY CountBounds
<1> HIDE DEF c, e2
<1>7. Count(max, e2) = c
  BY <1>1, <1>3, <1>5, <1>6 DEF Count, Larger, Smaller, MinPositive
<1> QED BY <1>5, <1>7 DEF Left, c, e2

\* Who finds in the file the number of its environment, or has none, is told
\* what the file says.
LEMMA FileDecides ==
  ASSUME NEW c \in 1 .. CpuMax, NEW e \in Env, e.nproc \in {0, c}
  PROVE  Left(c, e).nproc = c
<1>1. CpuMax \in Nat BY CpuAssumption
<1>2. Asked(c, e) = c BY <1>1 DEF Asked, Larger
<1>3. ~Forces(c, e) BY <1>1, <1>2 DEF Forces
<1>4. Count(c, e) = c BY <1>1, <1>2, <1>3 DEF Count, Larger, Smaller, MinPositive
<1> QED BY <1>4 DEF Left

-----------------------------------------------------------------------------
(* The invariant.  What process 1 decides, at its start and at every exec,   *)
(* is one environment for the whole behaviour; all that is in the file and   *)
(* all that processes find there is its number.                              *)

Chosen == Left(limit, env[Root])

Decided(p) == pc[p] \in {"truncate", "write", "done"}

\* Where a process has decided, its environment is what the decision left.
EnvIsLeft ==
  \A p \in Pids : env[p] = IF Decided(p) THEN Left(x[p], born[p]) ELSE born[p]

RootIsSettled ==
  /\ pc[Root] \in {"decide", "truncate", "write", "done"}
  /\ x[Root] = IF Decided(Root) THEN limit ELSE 0
  /\ Decided(Root) => env[Root] = Chosen

FileIsChosen == file \in {Gone, Blank, Chosen.nproc}

\* Another process p that has been started.
Other(p) ==
  /\ pc[p] \in {"read", "unlink", "decide", "done"}
  /\ env[Root] = Chosen
  /\ x[p] \in {IF pc[p] = "done" THEN limit ELSE 0, Chosen.nproc}
  /\ pc[p] = "read" => x[p] = 0
  /\ found[p] /\ pc[p] # "read" => x[p] = Chosen.nproc
  /\ env[p].kind # "normal" => env[p].kind = Chosen.kind
  /\ own[p] /\ (Chosen.kind = "normal" \/ found[p]) => env[p].nproc = Chosen.nproc

OthersFollow == \A p \in Pids \ {Root} : pc[p] # "unborn" => Other(p)

Inv == TypeOK /\ EnvIsLeft /\ RootIsSettled /\ FileIsChosen /\ OthersFollow

LEMMA NoNumber == Gone \in -1 .. CpuMax /\ Blank \in -1 .. CpuMax /\ 0 \in 0 .. MaxExecs
<1>1. CpuMax \in Nat /\ MaxExecs \in Nat BY CpuAssumption, ProcessAssumption
<1>2. 0 - 1 \in -1 .. CpuMax BY <1>1
<1> QED BY <1>1, <1>2 DEF Gone, Blank

LEMMA InitInv == Init => Inv
<1> SUFFICES ASSUME Init PROVE Inv
  OBVIOUS
<1>1. limit \in 0 .. CpuMax /\ Root \in Pids /\ NoEnv \in Env
  BY CpuAssumption, ProcessAssumption DEF Init, Root, Pids, NoEnv, Env, Kinds
<1>2. TypeOK
  <2>1. env \in [Pids -> Env]
    <3>1. PICK e \in RootEnvs : env = [p \in Pids |-> IF p = Root THEN e ELSE NoEnv]
      BY DEF Init
    <3> QED BY <1>1, <3>1, CpuAssumption, ProcessAssumption
  <2>2. limit \in Limits /\ file \in -1 .. CpuMax /\ named \in BOOLEAN /\ execs \in 0 .. MaxExecs
    <3>1. limit \in Limits /\ file = Gone /\ named = FALSE /\ execs = 0
      BY DEF Init
    <3> QED BY <3>1, NoNumber, Zenon
  <2>3. /\ pc \in [Pids -> Where] /\ x \in [Pids -> 0 .. CpuMax] /\ born \in [Pids -> Env]
        /\ own \in [Pids -> BOOLEAN] /\ found \in [Pids -> BOOLEAN]
    BY <1>1, <2>1, CpuAssumption, ProcessAssumption DEF Init, Where
  <2> QED BY <2>1, <2>2, <2>3 DEF TypeOK
<1>3. EnvIsLeft
  BY DEF Init, EnvIsLeft, Decided
<1>4. RootIsSettled
  BY <1>1 DEF Init, RootIsSettled, Decided
<1>5. FileIsChosen
  BY DEF Init, FileIsChosen
<1>6. OthersFollow
  BY DEF Init, OthersFollow
<1> QED BY <1>2, <1>3, <1>4, <1>5, <1>6 DEF Inv

LEMMA RootFacts ==
  ASSUME TypeOK
  PROVE  /\ Root \in Pids /\ limit \in 0 .. CpuMax /\ CpuMax \in Nat
         /\ NoEnv \in Env /\ env[Root] \in Env
         /\ Chosen \in Env /\ Chosen.nproc \in 1 .. CpuMax /\ Chosen.kind \in {"normal", "force"}
<1>1. Root \in Pids /\ limit \in 0 .. CpuMax /\ CpuMax \in Nat /\ NoEnv \in Env
  BY CpuAssumption, ProcessAssumption DEF TypeOK, Root, Pids, NoEnv, Env, Kinds
<1>2. env[Root] \in Env
  BY <1>1 DEF TypeOK
<1>3. Chosen \in Env /\ Chosen.nproc \in 1 .. CpuMax
  BY <1>1, <1>2, LeftIsEnv DEF Chosen
<1> QED BY <1>1, <1>2, <1>3 DEF Chosen, Left

\* One step per action: a start leaves the types alone.
LEMMA StartTypes ==
  ASSUME TypeOK, NEW p \in Pids, NEW there \in Where, NEW e \in Env,
         NEW mine \in BOOLEAN, NEW finder \in BOOLEAN,
         Start(p, there, e, mine, finder), execs' \in 0 .. MaxExecs
  PROVE  TypeOK'
<1>1. /\ pc' \in [Pids -> Where] /\ env' \in [Pids -> Env] /\ born' \in [Pids -> Env]
      /\ own' \in [Pids -> BOOLEAN] /\ found' \in [Pids -> BOOLEAN]
  BY DEF TypeOK, Start, To
<1>2. x' \in [Pids -> 0 .. CpuMax]
  <2>1. 0 \in 0 .. CpuMax BY CpuAssumption, ProcessAssumption
  <2> QED BY <2>1 DEF TypeOK, Start
<1> QED BY <1>1, <1>2 DEF TypeOK, Start

LEMMA TypeStep == TypeOK /\ [Next]_vars => TypeOK'
<1> SUFFICES ASSUME TypeOK, [Next]_vars PROVE TypeOK'
  OBVIOUS
<1> USE RootFacts
<1>1. ASSUME NEW p \in Pids, Read(p) PROVE TypeOK'
  <2>1. CASE file \in 1 .. CpuMax
    BY <1>1, <2>1 DEF Read, TypeOK, To, Where
  <2>2. CASE file \notin 1 .. CpuMax
    BY <1>1, <2>2 DEF Read, TypeOK, To, Where
  <2> QED BY <2>1, <2>2
<1>2. ASSUME NEW p \in Pids, Unlink(p) PROVE TypeOK'
  BY <1>2, NoNumber DEF Unlink, TypeOK, To, Where, history
<1>3. ASSUME NEW p \in Pids, Decide(p) PROVE TypeOK'
  <2>1. x'[p] \in 0 .. CpuMax /\ x' \in [Pids -> 0 .. CpuMax] /\ env[p] \in Env
    BY <1>3 DEF Decide, TypeOK
  <2>2. env' \in [Pids -> Env]
    <3>1. Left(x'[p], env[p]) \in Env BY <2>1, LeftIsEnv
    <3> QED BY <1>3, <3>1 DEF Decide, TypeOK
  <2>3. pc' \in [Pids -> Where]
    BY <1>3 DEF Decide, TypeOK, To, Where
  <2> QED BY <1>3, <2>1, <2>2, <2>3 DEF Decide, TypeOK, history
<1>4. ASSUME NEW p \in Pids, NEW q \in Pids, Spawn(p, q) PROVE TypeOK'
  <2>1. /\ env[p] \in Env /\ own[p] \in BOOLEAN /\ found[p] \in BOOLEAN
        /\ \A n \in 1 .. CpuMax : [nproc |-> n, kind |-> env[p].kind] \in Env
        /\ "read" \in Where /\ execs' = execs /\ execs \in 0 .. MaxExecs
    BY <1>4 DEF TypeOK, Env, Spawn, Where
  <2>2. CASE Start(q, "read", env[p], own[p], found[p])
    BY <2>1, <2>2, StartTypes
  <2>3. CASE Start(q, "read", NoEnv, FALSE, found[p])
    BY <2>1, <2>3, StartTypes
  <2>4. ASSUME NEW n \in 1 .. CpuMax,
               Start(q, "read", [nproc |-> n, kind |-> env[p].kind], FALSE, found[p])
        PROVE  TypeOK'
    <3>1. [nproc |-> n, kind |-> env[p].kind] \in Env BY <2>1
    <3> QED BY <2>1, <2>4, <3>1, StartTypes
  <2> QED BY <1>4, <2>2, <2>3, <2>4 DEF Spawn
<1>5. ASSUME Truncate PROVE TypeOK'
  BY <1>5, NoNumber DEF Truncate, TypeOK, To, Where, history
<1>6. ASSUME Write PROVE TypeOK'
  <2>1. env[Root].nproc \in 0 .. CpuMax BY DEF Env
  <2> QED BY <1>6, <2>1 DEF Write, TypeOK, To, Where, history
<1>7. ASSUME Exec PROVE TypeOK'
  <2>1. execs' \in 0 .. MaxExecs /\ "decide" \in Where
    BY <1>7, CpuAssumption, ProcessAssumption DEF Exec, TypeOK, Where
  <2> QED BY <1>7, <2>1, StartTypes DEF Exec
<1>8. CASE Rest \/ UNCHANGED vars
  BY <1>8 DEF Rest, vars, process, history, TypeOK
<1> QED BY <1>1, <1>2, <1>3, <1>4, <1>5, <1>6, <1>7, <1>8 DEF Next

\* What process 1 decides never changes, and once decided stays decided.
LEMMA ChosenStays ==
  ASSUME TypeOK, RootIsSettled, [Next]_vars
  PROVE  /\ limit' = limit /\ Chosen' = Chosen
         /\ env[Root] = Chosen => env'[Root] = Chosen
<1> USE RootFacts
<1>1. limit' = limit
  BY DEF Next, Read, Unlink, Decide, Spawn, Start, Truncate, Write, Exec, Rest, vars
<1>2. CASE env'[Root] = env[Root]
  BY <1>1, <1>2 DEF Chosen
<1>3. CASE Decide(Root)
  <2>1. x[Root] = 0 BY <1>3 DEF RootIsSettled, Decide, Decided
  <2>2. x'[Root] = limit BY <1>3, <2>1 DEF Decide, TypeOK
  <2>3. env'[Root] = Chosen BY <1>3, <2>2 DEF Decide, TypeOK, Chosen
  <2>4. Left(limit, Chosen) = Chosen BY LeftTwice DEF Chosen
  <2> QED BY <1>1, <2>3, <2>4 DEF Chosen
<1>4. CASE ~Decide(Root)
  <2>1. ASSUME NEW p \in Pids, NEW q \in Pids, Spawn(p, q) PROVE env'[Root] = env[Root]
    BY <2>1 DEF Spawn, Start, TypeOK
  <2>2. ASSUME NEW p \in Pids, Decide(p) PROVE env'[Root] = env[Root]
    <3>1. p # Root BY <1>4, <2>2
    <3> QED BY <2>2, <3>1 DEF Decide, TypeOK
  <2>3. ASSUME Exec PROVE env'[Root] = env[Root]
    BY <2>3 DEF Exec, Start, TypeOK
  <2>4. ASSUME NEW p \in Pids, Read(p) \/ Unlink(p) PROVE env'[Root] = env[Root]
    BY <2>4 DEF Read, Unlink
  <2>5. ASSUME Truncate \/ Write \/ Rest \/ UNCHANGED vars PROVE env'[Root] = env[Root]
    BY <2>5 DEF Truncate, Write, Rest, vars, process
  <2>6. env'[Root] = env[Root]
    BY <2>1, <2>2, <2>3, <2>4, <2>5 DEF Next
  <2> QED BY <1>2, <2>6
<1> QED BY <1>3, <1>4

LEMMA LeftStep ==
  ASSUME TypeOK, EnvIsLeft, [Next]_vars
  PROVE  EnvIsLeft'
<1> SUFFICES ASSUME NEW r \in Pids
             PROVE  env'[r] = IF Decided(r)' THEN Left(x'[r], born'[r]) ELSE born'[r]
  BY DEF EnvIsLeft
<1>0. env[r] = IF Decided(r) THEN Left(x[r], born[r]) ELSE born[r]
  BY DEF EnvIsLeft
<1> USE RootFacts
<1>1. ASSUME NEW p \in Pids, Read(p) PROVE env'[r] = IF Decided(r)' THEN Left(x'[r], born'[r]) ELSE born'[r]
  BY <1>0, <1>1 DEF Read, TypeOK, To, Decided
<1>2. ASSUME NEW p \in Pids, Unlink(p) PROVE env'[r] = IF Decided(r)' THEN Left(x'[r], born'[r]) ELSE born'[r]
  BY <1>0, <1>2 DEF Unlink, TypeOK, To, Decided, history
<1>3. ASSUME NEW p \in Pids, Decide(p) PROVE env'[r] = IF Decided(r)' THEN Left(x'[r], born'[r]) ELSE born'[r]
  <2>1. CASE r = p
    <3>1. env[r] = born[r] /\ Decided(r)'
      BY <1>0, <1>3, <2>1 DEF Decide, TypeOK, To, Decided
    <3>2. env'[r] = Left(x'[r], env[r]) /\ born' = born
      BY <1>3, <2>1 DEF Decide, TypeOK, history
    <3> QED BY <3>1, <3>2
  <2>2. CASE r # p
    BY <1>0, <1>3, <2>2 DEF Decide, TypeOK, To, Decided, history
  <2> QED BY <2>1, <2>2
<1>4. ASSUME NEW p \in Pids, NEW there \in {"read", "decide"}, NEW e, NEW mine, NEW finder,
             Start(p, there, e, mine, finder)
      PROVE env'[r] = IF Decided(r)' THEN Left(x'[r], born'[r]) ELSE born'[r]
  <2>1. CASE r = p
    BY <1>4, <2>1 DEF Start, TypeOK, To, Decided
  <2>2. CASE r # p
    BY <1>0, <1>4, <2>2 DEF Start, TypeOK, To, Decided
  <2> QED BY <2>1, <2>2
<1>5. ASSUME Truncate \/ Write PROVE env'[r] = IF Decided(r)' THEN Left(x'[r], born'[r]) ELSE born'[r]
  BY <1>0, <1>5 DEF Truncate, Write, TypeOK, To, Decided, history
<1>6. ASSUME Rest \/ UNCHANGED vars PROVE env'[r] = IF Decided(r)' THEN Left(x'[r], born'[r]) ELSE born'[r]
  BY <1>0, <1>6 DEF Rest, vars, process, history, Decided
<1>7. ASSUME Exec PROVE env'[r] = IF Decided(r)' THEN Left(x'[r], born'[r]) ELSE born'[r]
  BY <1>4, <1>7 DEF Exec
<1>8. ASSUME NEW p \in Pids, NEW q \in Pids, Spawn(p, q)
      PROVE  env'[r] = IF Decided(r)' THEN Left(x'[r], born'[r]) ELSE born'[r]
  BY <1>4, <1>8 DEF Spawn
<1> QED BY <1>1, <1>2, <1>3, <1>5, <1>6, <1>7, <1>8 DEF Next

LEMMA RootStep ==
  ASSUME TypeOK, RootIsSettled, [Next]_vars
  PROVE  RootIsSettled'
<1> USE RootFacts
<1>0. limit' = limit /\ Chosen' = Chosen /\ (env[Root] = Chosen => env'[Root] = Chosen)
  BY ChosenStays
<1>1. ASSUME NEW p \in Pids, Read(p) \/ Unlink(p) PROVE RootIsSettled'
  <2>1. p # Root BY <1>1 DEF RootIsSettled, Read, Unlink
  <2> QED BY <1>0, <1>1, <2>1 DEF RootIsSettled, Read, Unlink, TypeOK, To, Decided, history
<1>2. ASSUME NEW p \in Pids, Decide(p) PROVE RootIsSettled'
  <2>1. CASE p = Root
    <3>1. x[Root] = 0 BY <1>2, <2>1 DEF RootIsSettled, Decide, Decided
    <3>2. x'[Root] = limit /\ pc'[Root] = "truncate"
      BY <1>2, <2>1, <3>1 DEF Decide, TypeOK, To
    <3>3. env'[Root] = Chosen BY <1>2, <2>1, <3>2 DEF Decide, TypeOK, Chosen
    <3> QED BY <1>0, <3>2, <3>3 DEF RootIsSettled, Decided
  <2>2. CASE p # Root
    BY <1>0, <1>2, <2>2 DEF RootIsSettled, Decide, TypeOK, To, Decided
  <2> QED BY <2>1, <2>2
<1>3. ASSUME NEW p \in Pids, NEW q \in Pids, Spawn(p, q) PROVE RootIsSettled'
  <2>1. pc'[Root] = pc[Root] /\ x'[Root] = x[Root]
    BY <1>3 DEF Spawn, Start, TypeOK, To
  <2> QED BY <1>0, <2>1 DEF RootIsSettled, Decided
<1>4. ASSUME Truncate \/ Write PROVE RootIsSettled'
  BY <1>0, <1>4 DEF RootIsSettled, Truncate, Write, TypeOK, To, Decided, history
<1>5. ASSUME Exec PROVE RootIsSettled'
  BY <1>0, <1>5 DEF RootIsSettled, Exec, Start, TypeOK, To, Decided
<1>6. ASSUME Rest \/ UNCHANGED vars PROVE RootIsSettled'
  BY <1>0, <1>6 DEF RootIsSettled, Rest, vars, process, Decided
<1> QED BY <1>1, <1>2, <1>3, <1>4, <1>5, <1>6 DEF Next

LEMMA FileStep ==
  ASSUME TypeOK, RootIsSettled, FileIsChosen, [Next]_vars
  PROVE  FileIsChosen'
<1>0. Chosen' = Chosen BY ChosenStays
<1>1. file' \in {file, Gone, Blank} \/ Write
  BY DEF Next, Read, Unlink, Decide, Spawn, Start, Truncate, Exec, Rest, vars
<1>2. Write => file' \in {file, Chosen.nproc}
  BY DEF Write, RootIsSettled, Decided
<1> QED BY <1>0, <1>1, <1>2 DEF FileIsChosen

\* A step that changes nothing of another process.
LEMMA OtherStays ==
  ASSUME TypeOK, RootIsSettled, [Next]_vars, NEW p \in Pids, Other(p),
         pc'[p] = pc[p], env'[p] = env[p], x'[p] = x[p], own'[p] = own[p], found'[p] = found[p]
  PROVE  Other(p)'
<1>1. limit' = limit /\ Chosen' = Chosen /\ (env[Root] = Chosen => env'[Root] = Chosen)
  BY ChosenStays
<1> QED BY <1>1 DEF Other

LEMMA OtherReads ==
  ASSUME Inv, [Next]_vars, NEW p \in Pids, Other(p), Read(p)
  PROVE  Other(p)'
<1>1. limit' = limit /\ Chosen' = Chosen /\ (env[Root] = Chosen => env'[Root] = Chosen)
  BY ChosenStays DEF Inv
<1>2. Chosen.nproc \in 1 .. CpuMax /\ CpuMax \in Nat /\ TypeOK /\ FileIsChosen
  BY RootFacts DEF Inv
<1>3. x[p] = 0 /\ env' = env /\ own' = own
  BY DEF Read, Other
<1>4. CASE file \in 1 .. CpuMax
  <2>1. file = Chosen.nproc
    BY <1>2, <1>4 DEF FileIsChosen, Gone, Blank
  <2>2. x'[p] = Chosen.nproc /\ pc'[p] = "decide" /\ found'[p] = found[p]
    BY <1>2, <1>4, <2>1 DEF Read, TypeOK, To
  <2> QED BY <1>1, <1>3, <2>2 DEF Other
<1>5. CASE file \notin 1 .. CpuMax
  <2>1. x'[p] = 0 /\ pc'[p] = "unlink" /\ found'[p] = FALSE
    BY <1>2, <1>3, <1>5 DEF Read, TypeOK, To
  <2> QED BY <1>1, <1>3, <2>1 DEF Other
<1> QED BY <1>4, <1>5

LEMMA OtherDecides ==
  ASSUME Inv, [Next]_vars, NEW p \in Pids \ {Root}, Other(p), Decide(p)
  PROVE  Other(p)'
<1>1. limit' = limit /\ Chosen' = Chosen /\ (env[Root] = Chosen => env'[Root] = Chosen)
  BY ChosenStays DEF Inv
<1> DEFINE c == Chosen.nproc
<1>2. /\ TypeOK /\ limit \in 0 .. CpuMax /\ CpuMax \in Nat /\ env[p] \in Env
      /\ Chosen \in Env /\ c \in 1 .. CpuMax /\ Chosen.kind \in {"normal", "force"}
  BY RootFacts DEF Inv, TypeOK
<1>3. /\ pc[p] = "decide" /\ x[p] \in {0, c} /\ (found[p] => x[p] = c)
      /\ own' = own /\ found' = found /\ pc'[p] = "done" /\ env[Root] = Chosen
  BY <1>2 DEF Decide, Other, TypeOK, To, history
<1>4. x'[p] = (IF x[p] = 0 THEN limit ELSE x[p]) /\ env'[p] = Left(x'[p], env[p])
  BY <1>2 DEF Decide, TypeOK
<1>5. x'[p] \in {limit, c} /\ x'[p] \in 0 .. CpuMax /\ (found[p] => x'[p] = c)
  BY <1>2, <1>3, <1>4
<1>6. env'[p].kind # "normal" => env'[p].kind = Chosen.kind
  <2>1. env[p].kind = "normal" => env'[p].kind = "normal"
    BY <1>2, <1>4, <1>5, NormalStays
  <2>2. env[p].kind # "normal" => env[p].kind = Chosen.kind
    BY DEF Other
  <2>3. env'[p].kind \in {"normal", "force"}
    BY <1>4 DEF Left
  <2> QED BY <1>2, <2>1, <2>2, <2>3
<1>7. ASSUME own[p], Chosen.kind = "normal" \/ found[p] PROVE env'[p].nproc = c
  <2>1. env[p].nproc = c BY <1>7 DEF Other
  <2>2. CASE x'[p] = c
    BY <1>2, <1>4, <2>1, <2>2, FileDecides
  <2>3. CASE x'[p] # c
    <3>1. x'[p] = limit /\ Chosen.kind = "normal" BY <1>5, <1>7, <2>3
    <3>2. env[p].kind = "normal" BY <3>1 DEF Other
    <3>3. env[p] = Chosen BY <1>2, <2>1, <3>1, <3>2 DEF Env
    <3>4. Left(limit, Chosen) = Chosen BY <1>3 DEF Chosen
    <3> QED BY <1>4, <3>1, <3>3, <3>4
  <2> QED BY <2>2, <2>3
<1> QED BY <1>1, <1>3, <1>5, <1>6, <1>7 DEF Other

\* A process that has been started, by process 1 or by another.
LEMMA OtherStarts ==
  ASSUME Inv, [Next]_vars, NEW p \in Pids, NEW q \in Pids, Spawn(p, q)
  PROVE  Other(q)'
<1>1. limit' = limit /\ Chosen' = Chosen /\ (env[Root] = Chosen => env'[Root] = Chosen)
  BY ChosenStays DEF Inv
<1>2. TypeOK /\ pc[p] = "done"
  BY DEF Inv, Spawn
<1>3. /\ env[Root] = Chosen
      /\ env[p].kind # "normal" => env[p].kind = Chosen.kind
      /\ own[p] /\ (Chosen.kind = "normal" \/ found[p]) => env[p].nproc = Chosen.nproc
  <2>1. CASE p = Root
    BY <1>2, <2>1 DEF Inv, RootIsSettled, Decided
  <2>2. CASE p # Root
    <3>1. Other(p) BY <1>2, <2>2 DEF Inv, OthersFollow
    <3> QED BY <3>1 DEF Other
  <2> QED BY <2>1, <2>2
<1>4. ASSUME NEW e, NEW mine, NEW finder, Start(q, "read", e, mine, finder),
             e.kind # "normal" => e.kind = Chosen.kind,
             mine /\ (Chosen.kind = "normal" \/ finder) => e.nproc = Chosen.nproc
      PROVE  Other(q)'
  <2>1. /\ pc'[q] = "read" /\ x'[q] = 0 /\ env'[q] = e /\ own'[q] = mine /\ found'[q] = finder
    BY <1>2, <1>4 DEF Start, To, TypeOK
  <2> QED BY <1>1, <1>3, <1>4, <2>1 DEF Other
<1>5. CASE Start(q, "read", env[p], own[p], found[p])
  BY <1>3, <1>4, <1>5, Zenon
<1>6. CASE Start(q, "read", NoEnv, FALSE, found[p])
  <2>1. NoEnv.kind = "normal" BY DEF NoEnv
  <2> QED BY <1>4, <1>6, <2>1, Zenon
<1>7. ASSUME NEW n \in 1 .. CpuMax,
             Start(q, "read", [nproc |-> n, kind |-> env[p].kind], FALSE, found[p])
      PROVE  Other(q)'
  <2>1. [nproc |-> n, kind |-> env[p].kind].kind = env[p].kind OBVIOUS
  <2> QED BY <1>3, <1>4, <1>7, <2>1, Zenon
<1> QED BY <1>5, <1>6, <1>7 DEF Spawn

LEMMA OthersStep == Inv /\ [Next]_vars => OthersFollow'
<1> SUFFICES ASSUME Inv, [Next]_vars, NEW r \in Pids \ {Root}, pc'[r] # "unborn"
             PROVE  Other(r)'
  BY DEF OthersFollow
<1>0. /\ TypeOK /\ RootIsSettled /\ (pc[r] # "unborn" => Other(r)) /\ Root \in Pids
  BY RootFacts DEF Inv, OthersFollow
<1> DEFINE Same == /\ pc'[r] = pc[r] /\ env'[r] = env[r] /\ x'[r] = x[r]
                   /\ own'[r] = own[r] /\ found'[r] = found[r]
<1>1. Same => Other(r)'
  BY <1>0, OtherStays
<1>2. ASSUME NEW p \in Pids, Read(p) PROVE Other(r)'
  <2>1. CASE p = r
    BY <1>0, <1>2, <2>1, OtherReads DEF Read
  <2>2. CASE p # r
    <3>1. Same BY <1>0, <1>2, <2>2 DEF Read, To, TypeOK
    <3> QED BY <1>1, <3>1
  <2> QED BY <2>1, <2>2
<1>3. ASSUME NEW p \in Pids, Unlink(p) PROVE Other(r)'
  <2>1. CASE p = r
    <3>1. limit' = limit /\ Chosen' = Chosen /\ (env[Root] = Chosen => env'[Root] = Chosen)
      BY <1>0, ChosenStays
    <3>2. Other(r) /\ pc[r] = "unlink" /\ pc'[r] = "decide" /\ env' = env /\ x' = x /\ own' = own /\ found' = found
      BY <1>0, <1>3, <2>1 DEF Unlink, To, TypeOK, history
    <3> QED BY <3>1, <3>2 DEF Other
  <2>2. CASE p # r
    <3>1. Same BY <1>0, <1>3, <2>2 DEF Unlink, To, TypeOK, history
    <3> QED BY <1>1, <3>1
  <2> QED BY <2>1, <2>2
<1>4. ASSUME NEW p \in Pids, Decide(p) PROVE Other(r)'
  <2>1. CASE p = r
    BY <1>0, <1>4, <2>1, OtherDecides DEF Decide
  <2>2. CASE p # r
    <3>1. Same BY <1>0, <1>4, <2>2 DEF Decide, To, TypeOK, history
    <3> QED BY <1>1, <3>1
  <2> QED BY <2>1, <2>2
<1>5. ASSUME NEW p \in Pids, NEW q \in Pids, Spawn(p, q) PROVE Other(r)'
  <2>1. CASE q = r
    BY <1>5, <2>1, OtherStarts
  <2>2. CASE q # r
    <3>1. Same BY <1>0, <1>5, <2>2 DEF Spawn, Start, To, TypeOK
    <3> QED BY <1>1, <3>1
  <2> QED BY <2>1, <2>2
<1>6. ASSUME Truncate \/ Write PROVE Other(r)'
  <2>1. Same BY <1>0, <1>6 DEF Truncate, Write, To, TypeOK, history
  <2> QED BY <1>1, <2>1
<1>7. ASSUME Exec PROVE Other(r)'
  <2>1. Same BY <1>0, <1>7 DEF Exec, Start, To, TypeOK
  <2> QED BY <1>1, <2>1
<1>8. ASSUME Rest \/ UNCHANGED vars PROVE Other(r)'
  <2>1. Same BY <1>8 DEF Rest, vars, process, history
  <2> QED BY <1>1, <2>1
<1> QED BY <1>2, <1>3, <1>4, <1>5, <1>6, <1>7, <1>8 DEF Next

\* Inv holds in every state Nproc reaches.
THEOREM Invariance == Spec => []Inv
<1>1. Inv /\ [Next]_vars => Inv'
  BY TypeStep, LeftStep, RootStep, FileStep, OthersStep DEF Inv
<1> QED BY InitInv, <1>1, PTL DEF Spec

-----------------------------------------------------------------------------
(* What follows. *)

\* Every process is told what its environment means (get_container_cpus), for
\* any number of CPUs.
THEOREM ToldWhatIsMeant == Spec => []CountIsMeant
<1>1. Inv => CountIsMeant
  <2> SUFFICES ASSUME Inv, NEW p \in Pids, Done(p) PROVE Told(p) = Meant(x[p], born[p])
    BY DEF CountIsMeant
  <2>1. x[p] \in 0 .. CpuMax /\ born[p] \in Env BY DEF Inv, TypeOK
  <2>2. env[p] = Left(x[p], born[p]) BY DEF Inv, EnvIsLeft, Done, Decided
  <2> QED BY <2>1, <2>2, LeftIsMeant DEF Told
<1> QED BY <1>1, Invariance, PTL

LEMMA UnforcedChoice ==
  ASSUME Inv, Unforced
  PROVE  Chosen.kind = "normal" /\ (limit > 0 => Chosen.nproc <= limit)
<1>1. /\ Root \in Pids /\ limit \in 0 .. CpuMax /\ env[Root] \in Env
      /\ x[Root] \in 0 .. CpuMax /\ born[Root] \in Env /\ born[Root].kind = "normal"
  BY RootFacts DEF Inv, TypeOK, Unforced
<1>2. env[Root].kind = "normal"
  BY <1>1, NormalStays DEF Inv, EnvIsLeft
<1> QED BY <1>1, <1>2, NormalStays DEF Chosen

\* Where nothing is forced no process is told more than the limit, however
\* many have started each other, read, lost and rewritten the file.
THEOREM NeverAboveLimit == Spec => []WithinLimit
<1>1. Inv => WithinLimit
  <2> SUFFICES ASSUME Inv, Unforced, limit > 0, NEW p \in Pids, Done(p) PROVE Told(p) <= limit
    BY DEF WithinLimit
  <2>1. /\ x[p] \in 0 .. CpuMax /\ born[p] \in Env /\ born[p].kind = "normal"
        /\ limit \in 0 .. CpuMax /\ CpuMax \in Nat /\ Chosen.nproc \in 1 .. CpuMax
    BY RootFacts DEF Inv, TypeOK, Unforced
  <2>2. env[p] = Left(x[p], born[p]) BY DEF Inv, EnvIsLeft, Done, Decided
  <2>3. x[p] \in {limit, Chosen.nproc}
    <3>1. CASE p = Root BY <3>1 DEF Inv, RootIsSettled, Done, Decided
    <3>2. CASE p # Root
      <4>1. Other(p) BY <3>2 DEF Inv, OthersFollow, Done
      <4> QED BY <4>1 DEF Other, Done
    <3> QED BY <3>1, <3>2
  <2>4. x[p] > 0 /\ x[p] <= limit BY <2>1, <2>3, UnforcedChoice
  <2>5. Told(p) <= x[p] BY <2>1, <2>2, <2>4, NormalStays DEF Told
  <2>6. Told(p) \in Nat BY <2>1, <2>2, LeftIsEnv DEF Told
  <2> QED BY <2>1, <2>4, <2>5, <2>6
<1> QED BY <1>1, Invariance, PTL

\* All processes in process 1's environment are told the same.
THEOREM EverybodyAgrees == Spec => []AllAgree
<1>1. Inv => AllAgree
  <2> SUFFICES ASSUME Inv, NEW p \in Pids, Done(p), own[p], Unforced \/ found[p]
               PROVE  Told(p) = Told(Root)
    BY DEF AllAgree
  <2>1. CASE p = Root BY <2>1
  <2>2. CASE p # Root
    <3>1. Other(p) BY <2>2 DEF Inv, OthersFollow, Done
    <3>2. Chosen.kind = "normal" \/ found[p] BY UnforcedChoice
    <3> QED BY <3>1, <3>2 DEF Other, Told
  <2> QED BY <2>1, <2>2
<1> QED BY <1>1, Invariance, PTL

\* Who finds the file and has no number of its own is told process 1's.
THEOREM FileHandsDown == Spec => []Handed
<1>1. Inv => Handed
  <2> SUFFICES ASSUME Inv, NEW p \in Pids \ {Root}, Done(p), found[p], born[p].nproc = 0
               PROVE  Told(p) = Told(Root)
    BY DEF Handed
  <2>1. Other(p) BY DEF Inv, OthersFollow, Done
  <2>2. x[p] = Chosen.nproc /\ env[Root] = Chosen BY <2>1 DEF Other, Done
  <2>3. born[p] \in Env /\ Chosen.nproc \in 1 .. CpuMax BY RootFacts DEF Inv, TypeOK
  <2>4. env[p] = Left(x[p], born[p]) BY DEF Inv, EnvIsLeft, Done, Decided
  <2> QED BY <2>2, <2>3, <2>4, FileDecides DEF Told
<1> QED BY <1>1, Invariance, PTL

-----------------------------------------------------------------------------
(* The two properties the runs check. *)

\* What each process is told is what its environment means, within the limit.
THEOREM EachItsOwn == Spec => []OwnCount
BY ToldWhatIsMeant, NeverAboveLimit, PTL DEF OwnCount

\* There is one number in a container, process 1's (the file in /run/lock).
THEOREM OneForAll == Spec => []OneCount
BY EverybodyAgrees, FileHandsDown, PTL DEF OneCount

-----------------------------------------------------------------------------
(* ep.sh. *)

LEMMA LeastIn ==
  ASSUME NEW T \in SUBSET Nat, T # {}
  PROVE  \E m \in T : \A k \in T : m <= k
<1>1. \E m \in T : \A k \in T : <<k, m>> \notin OpToRel(<, Nat)
  BY NatLessThanWellFounded, WFMin, Zenon
<1>2. PICK m \in T : \A k \in T : <<k, m>> \notin OpToRel(<, Nat)
  BY <1>1
<1>3. ASSUME NEW k \in T, k < m PROVE FALSE
  <2>1. <<k, m>> \in Nat \X Nat /\ <<k, m>>[1] < <<k, m>>[2]
    BY <1>3
  <2>2. <<k, m>> \in OpToRel(<, Nat)
    BY <2>1 DEF OpToRel
  <2> QED BY <1>2, <2>2
<1> QED BY <1>3

\* Induction up to n, over a set.
LEMMA Upwards ==
  ASSUME NEW n \in Nat, NEW P \in SUBSET (0 .. n),
         0 \in P, \A m \in 0 .. n - 1 : m \in P => m + 1 \in P
  PROVE  P = 0 .. n
<1> DEFINE T == (0 .. n) \ P
<1>1. SUFFICES ASSUME T # {} PROVE FALSE
  OBVIOUS
<1>2. T \in SUBSET Nat
  OBVIOUS
<1>3. PICK m \in T : \A k \in T : m <= k
  <2> HIDE DEF T
  <2> QED BY <1>1, <1>2, LeastIn
<1>4. m # 0 /\ m - 1 \in P
  BY <1>3
<1> QED BY <1>3, <1>4

\* f starts as a and goes on by the rounds of h.
Rounds(f, n, V, a, h) ==
  /\ f \in [0 .. n -> V] /\ f[0] = a
  /\ \A m \in 1 .. n : f[m] = h[<<m, f[m - 1]>>]

\* There is such a function.
LEMMA RoundsExist ==
  ASSUME NEW V, NEW a \in V, NEW n \in Nat, NEW h \in [(1 .. n) \X V -> V]
  PROVE  \E f : Rounds(f, n, V, a, h)
<1> DEFINE Upto(f, k) == f[0] = a /\ \A m \in 1 .. k : f[m] = h[<<m, f[m - 1]>>]
           P == {k \in 0 .. n : \E f \in [0 .. k -> V] : Upto(f, k)}
<1>1. 0 \in P
  <2> DEFINE f == [k \in 0 .. 0 |-> a]
  <2>1. f \in [0 .. 0 -> V] /\ Upto(f, 0)
    OBVIOUS
  <2> HIDE DEF f, Upto
  <2>2. \E e \in [0 .. 0 -> V] : Upto(e, 0)
    BY <2>1
  <2> QED BY <2>2
<1>2. ASSUME NEW m \in 0 .. n - 1, m \in P PROVE m + 1 \in P
  <2>1. PICK f \in [0 .. m -> V] : Upto(f, m)
    BY <1>2
  <2> DEFINE e == [k \in 0 .. m + 1 |-> IF k = m + 1 THEN h[<<m + 1, f[m]>>] ELSE f[k]]
  <2>0. m + 1 \in 1 .. n /\ m \in Nat /\ f[m] \in V
    OBVIOUS
  <2>2. h[<<m + 1, f[m]>>] \in V
    BY <2>0
  <2>3. e \in [0 .. m + 1 -> V]
    BY <2>0, <2>2
  <2>4. \A k \in 0 .. m : e[k] = f[k]
    BY <2>0
  <2>5. e[m + 1] = h[<<m + 1, f[m]>>]
    BY <2>0
  <2> HIDE DEF e
  <2>6. Upto(e, m + 1)
    <3>1. e[0] = a
      BY <2>1, <2>4
    <3>2. ASSUME NEW j \in 1 .. m + 1 PROVE e[j] = h[<<j, e[j - 1]>>]
      <4>1. CASE j = m + 1
        <5>1. e[j - 1] = f[m]
          BY <2>0, <2>4, <4>1
        <5> QED BY <2>5, <4>1, <5>1
      <4>2. CASE j \in 1 .. m
        <5>1. j - 1 \in 0 .. m /\ j \in 0 .. m
          BY <2>0, <4>2
        <5>2. f[j] = h[<<j, f[j - 1]>>]
          BY <2>1, <4>2
        <5> QED BY <2>4, <5>1, <5>2
      <4> QED BY <2>0, <4>1, <4>2
    <3> QED BY <3>1, <3>2
  <2> HIDE DEF Upto
  <2> QED BY <2>0, <2>3, <2>6
<1>3. P \in SUBSET (0 .. n)
  OBVIOUS
<1>4. n \in P
  <2> HIDE DEF P
  <2> QED BY <1>1, <1>2, <1>3, Upwards
<1> QED BY <1>4 DEF Rounds

Alike(h, g, n, V) == \A m \in 1 .. n : \A v \in V : h[<<m, v>>] = g[<<m, v>>]

\* And only one.
LEMMA RoundsAgree ==
  ASSUME NEW V, NEW a, NEW n \in Nat, NEW h, NEW f, Rounds(f, n, V, a, h),
         NEW k \in 0 .. n, NEW g, NEW e, Rounds(e, k, V, a, g),
         Alike(h, g, k, V)
  PROVE  \A m \in 0 .. k : f[m] = e[m]
<1> DEFINE P == {m \in 0 .. k : f[m] = e[m]}
<1>1. 0 \in P
  BY DEF Rounds
<1>2. ASSUME NEW m \in 0 .. k - 1, m \in P PROVE m + 1 \in P
  <2>1. /\ m + 1 \in 1 .. k /\ m + 1 \in 1 .. n /\ (m + 1) - 1 = m /\ m + 1 \in 0 .. k
        /\ m \in 0 .. n
    OBVIOUS
  <2>2. f[m + 1] = h[<<m + 1, f[m]>>] /\ e[m + 1] = g[<<m + 1, e[m]>>]
    BY <2>1 DEF Rounds
  <2>3. f[m] = e[m] /\ f[m] \in V
    BY <1>2, <2>1 DEF Rounds
  <2>4. h[<<m + 1, f[m]>>] = g[<<m + 1, f[m]>>]
    BY <2>1, <2>3 DEF Alike
  <2> QED BY <2>1, <2>2, <2>3, <2>4
<1>3. P \in SUBSET (0 .. k) /\ k \in Nat
  OBVIOUS
<1>4. P = 0 .. k
  <2> HIDE DEF P
  <2> QED BY <1>1, <1>2, <1>3, Upwards
<1> QED BY <1>4

\* A function that follows the rounds of h from a.
LEMMA RoundsFrom ==
  ASSUME NEW V, NEW a \in V, NEW n \in Nat, NEW h \in [(1 .. n) \X V -> V], NEW f,
         f = [m \in 0 .. n |-> f[m]], f[0] = a,
         \A m \in 1 .. n : f[m - 1] \in V => f[m] = h[<<m, f[m - 1]>>]
  PROVE  Rounds(f, n, V, a, h)
<1> DEFINE P == {m \in 0 .. n : f[m] \in V}
<1>1. 0 \in P
  OBVIOUS
<1>2. ASSUME NEW m \in 0 .. n - 1, m \in P PROVE m + 1 \in P
  <2>0. f[m] \in V
    BY <1>2
  <2>1. m + 1 \in 1 .. n /\ (m + 1) - 1 = m /\ m + 1 \in 0 .. n /\ f[m] \in V
    BY <2>0
  <2>2. f[m + 1] = h[<<m + 1, f[m]>>]
    BY <2>1
  <2>3. <<m + 1, f[m]>> \in (1 .. n) \X V
    BY <2>1
  <2>4. h[<<m + 1, f[m]>>] \in V
    BY <2>3
  <2> QED BY <2>1, <2>2, <2>4
<1>3. P \in SUBSET (0 .. n)
  OBVIOUS
<1>4. P = 0 .. n
  <2> HIDE DEF P
  <2> QED BY <1>1, <1>2, <1>3, Upwards
<1>5. \A m \in 0 .. n : f[m] \in V
  BY <1>4
<1>6. \A m \in 1 .. n : m - 1 \in 0 .. n
  OBVIOUS
<1> QED BY <1>5, <1>6 DEF Rounds

-----------------------------------------------------------------------------
(* What is picked of a sequence. *)

Pick(s, places, S) ==
  [z \in (1 .. Len(s)) \X Seq(S) |-> IF z[1] \in places THEN Append(z[2], s[z[1]]) ELSE z[2]]

LEMMA PickTyped ==
  ASSUME NEW S, NEW s \in Seq(S), NEW places
  PROVE  Pick(s, places, S) \in [(1 .. Len(s)) \X Seq(S) -> Seq(S)]
<1>1. ASSUME NEW z \in (1 .. Len(s)) \X Seq(S)
      PROVE  (IF z[1] \in places THEN Append(z[2], s[z[1]]) ELSE z[2]) \in Seq(S)
  <2>1. s[z[1]] \in S /\ z[2] \in Seq(S)
    OBVIOUS
  <2> QED BY <2>1
<1> QED BY <1>1 DEF Pick

LEMMA PickRound ==
  ASSUME NEW S, NEW s \in Seq(S), NEW places, NEW m \in 1 .. Len(s), NEW v \in Seq(S)
  PROVE  Pick(s, places, S)[<<m, v>>] = IF m \in places THEN Append(v, s[m]) ELSE v
BY DEF Pick

LEMMA PickedRounds ==
  ASSUME NEW S, NEW s \in Seq(S), NEW places
  PROVE  \E f : /\ Rounds(f, Len(s), Seq(S), <<>>, Pick(s, places, S))
                /\ E!Picked(s, places) = f[Len(s)]
<1> DEFINE n == Len(s)
           h == Pick(s, places, S)
           Body(f) == [i \in 0 .. n |->
                         IF i = 0 THEN <<>> ELSE IF i \in places THEN Append(f[i - 1], s[i]) ELSE f[i - 1]]
           W == CHOOSE f : f = Body(f)
<1>1. n \in Nat /\ <<>> \in Seq(S)
  OBVIOUS
<1>2. h \in [(1 .. n) \X Seq(S) -> Seq(S)]
  BY PickTyped
<1>3. ASSUME NEW m \in 1 .. n, NEW v \in Seq(S)
      PROVE  h[<<m, v>>] = IF m \in places THEN Append(v, s[m]) ELSE v
  BY PickRound
<1> HIDE DEF n, h
<1>4. PICK e : Rounds(e, n, Seq(S), <<>>, h)
  BY <1>1, <1>2, RoundsExist
<1>5. e = Body(e)
  <2>1. \A m \in 1 .. n : e[m] = IF m \in places THEN Append(e[m - 1], s[m]) ELSE e[m - 1]
    <3> SUFFICES ASSUME NEW m \in 1 .. n
                 PROVE  e[m] = IF m \in places THEN Append(e[m - 1], s[m]) ELSE e[m - 1]
      OBVIOUS
    <3>1. m - 1 \in 0 .. n
      BY <1>1
    <3>2. e[m - 1] \in Seq(S) /\ e[m] = h[<<m, e[m - 1]>>]
      BY <1>4, <3>1 DEF Rounds
    <3> QED BY <1>3, <3>2
  <2>2. e \in [0 .. n -> Seq(S)] /\ e[0] = <<>>
    BY <1>4 DEF Rounds
  <2>3. \A m \in 0 .. n : e[m] = Body(e)[m]
    <3> SUFFICES ASSUME NEW m \in 0 .. n PROVE e[m] = Body(e)[m]
      OBVIOUS
    <3>1. CASE m = 0
      BY <2>2, <3>1
    <3>2. CASE m # 0
      <4>1. m \in 1 .. n
        BY <1>1, <3>2
      <4> QED BY <2>1, <3>2, <4>1
    <3> QED BY <3>1, <3>2
  <2>4. e = [m \in 0 .. n |-> e[m]] /\ Body(e) = [m \in 0 .. n |-> Body(e)[m]]
    BY <2>2
  <2> QED BY <2>3, <2>4
<1>6. W = Body(W)
  <2> HIDE DEF Body
  <2> QED BY <1>5
<1>7. E!Picked(s, places) = W[n]
  BY DEF E!Picked, n
<1> HIDE DEF W
<1>8. /\ W = [m \in 0 .. n |-> W[m]] /\ W[0] = <<>>
      /\ \A m \in 1 .. n : W[m] = IF m \in places THEN Append(W[m - 1], s[m]) ELSE W[m - 1]
  <2>1. W = [m \in 0 .. n |->
               IF m = 0 THEN <<>> ELSE IF m \in places THEN Append(W[m - 1], s[m]) ELSE W[m - 1]]
    BY <1>6
  <2>2. 0 \in 0 .. n /\ 1 .. n \subseteq 0 .. n /\ \A m \in 1 .. n : m # 0
    BY <1>1
  <2>3. W = [m \in 0 .. n |-> W[m]]
    BY <2>1, Zenon
  <2>4. W[0] = <<>>
    BY <2>1, <2>2
  <2>5. \A m \in 1 .. n : W[m] = IF m \in places THEN Append(W[m - 1], s[m]) ELSE W[m - 1]
    BY <2>1, <2>2
  <2> QED BY <2>3, <2>4, <2>5
<1>9. Rounds(W, n, Seq(S), <<>>, h)
  <2>1. ASSUME NEW m \in 1 .. n, W[m - 1] \in Seq(S) PROVE W[m] = h[<<m, W[m - 1]>>]
    <3>1. h[<<m, W[m - 1]>>] = IF m \in places THEN Append(W[m - 1], s[m]) ELSE W[m - 1]
      BY <1>3, <2>1
    <3> QED BY <1>8, <3>1
  <2> QED BY <1>1, <1>2, <1>8, <2>1, RoundsFrom
<1> QED BY <1>7, <1>9 DEF n, h

LEMMA PickedEmpty ==
  ASSUME NEW places PROVE E!Picked(<<>>, places) = <<>>
<1>1. <<>> \in Seq({}) /\ Len(<<>>) = 0
  OBVIOUS
<1>2. PICK f : Rounds(f, 0, Seq({}), <<>>, Pick(<<>>, places, {})) /\ E!Picked(<<>>, places) = f[0]
  BY <1>1, PickedRounds
<1> QED BY <1>2 DEF Rounds

\* What comes behind is picked or not, whatever was picked before.
LEMMA PickedAppend ==
  ASSUME NEW S, NEW s \in Seq(S), NEW z \in S, NEW places, NEW others,
         \A i \in 1 .. Len(s) : i \in places <=> i \in others
  PROVE  /\ E!Picked(Append(s, z), places) =
              IF Len(s) + 1 \in places THEN Append(E!Picked(s, others), z) ELSE E!Picked(s, others)
         /\ E!Picked(s, others) \in Seq(S)
<1> DEFINE n == Len(s)
           more == Append(s, z)
<1>1. n \in Nat /\ more \in Seq(S) /\ Len(more) = n + 1 /\ more[n + 1] = z
      /\ \A m \in 1 .. n : more[m] = s[m]
  OBVIOUS
<1>2. PICK f : Rounds(f, n, Seq(S), <<>>, Pick(s, others, S)) /\ E!Picked(s, others) = f[n]
  BY PickedRounds
<1> HIDE DEF more
<1>3. PICK e : Rounds(e, n + 1, Seq(S), <<>>, Pick(more, places, S)) /\ E!Picked(more, places) = e[n + 1]
  BY <1>1, PickedRounds
<1>4. Alike(Pick(more, places, S), Pick(s, others, S), n, Seq(S))
  <2> SUFFICES ASSUME NEW m \in 1 .. n, NEW v \in Seq(S)
               PROVE  Pick(more, places, S)[<<m, v>>] = Pick(s, others, S)[<<m, v>>]
    BY DEF Alike
  <2>1. m \in 1 .. Len(more)
    BY <1>1
  <2>2. Pick(more, places, S)[<<m, v>>] = IF m \in places THEN Append(v, more[m]) ELSE v
    BY <1>1, <2>1, PickRound
  <2>3. Pick(s, others, S)[<<m, v>>] = IF m \in others THEN Append(v, s[m]) ELSE v
    BY PickRound
  <2> QED BY <1>1, <2>2, <2>3
<1>5. \A m \in 0 .. n : e[m] = f[m]
  <2>1. n \in 0 .. n + 1 /\ n + 1 \in Nat
    BY <1>1
  <2> HIDE DEF n
  <2> QED BY <1>2, <1>3, <1>4, <2>1, RoundsAgree
<1>6. e[n] = f[n] /\ f[n] \in Seq(S)
  BY <1>1, <1>2, <1>5 DEF Rounds
<1>7. e[n + 1] = Pick(more, places, S)[<<n + 1, e[n]>>]
  <2>1. n + 1 \in 1 .. n + 1 /\ (n + 1) - 1 = n
    BY <1>1
  <2> QED BY <1>3, <2>1 DEF Rounds
<1>8. Pick(more, places, S)[<<n + 1, e[n]>>] = IF n + 1 \in places THEN Append(e[n], z) ELSE e[n]
  <2>1. n + 1 \in 1 .. Len(more) /\ e[n] \in Seq(S)
    BY <1>1, <1>6
  <2>2. Pick(more, places, S)[<<n + 1, e[n]>>] = IF n + 1 \in places THEN Append(e[n], more[n + 1]) ELSE e[n]
    BY <1>1, <2>1, PickRound
  <2> QED BY <1>1, <2>2
<1> QED BY <1>2, <1>3, <1>6, <1>7, <1>8 DEF more

LEMMA PickedTyped ==
  ASSUME NEW S, NEW s \in Seq(S), NEW places
  PROVE  E!Picked(s, places) \in Seq(S)
<1>1. PICK f : /\ Rounds(f, Len(s), Seq(S), <<>>, Pick(s, places, S))
               /\ E!Picked(s, places) = f[Len(s)]
  BY PickedRounds
<1> QED BY <1>1 DEF Rounds

\* A sequence up to its m-th item.
Upto(s, m) == SubSeq(s, 1, m)

LEMMA UptoParts ==
  ASSUME NEW S, NEW s \in Seq(S), NEW m \in 0 .. Len(s)
  PROVE  /\ Upto(s, m) \in Seq(S) /\ Len(Upto(s, m)) = m
         /\ Upto(s, 0) = <<>> /\ Upto(s, Len(s)) = s
         /\ m < Len(s) => Upto(s, m + 1) = Append(Upto(s, m), s[m + 1]) /\ s[m + 1] \in S
         /\ \A i \in 1 .. m : Upto(s, m)[i] = s[i]
BY DEF Upto

LEMMA PrefixMeans ==
  ASSUME NEW S, NEW s \in Seq(S), NEW t \in Seq(S)
  PROVE  E!IsPrefix(s, t) <=> Len(s) <= Len(t) /\ \A i \in 1 .. Len(s) : s[i] = t[i]
<1>1. s = SubSeq(s, 1, Len(s))
  OBVIOUS
<1>2. ASSUME Len(s) <= Len(t) PROVE s = SubSeq(t, 1, Len(s)) <=> \A i \in 1 .. Len(s) : s[i] = t[i]
  <2>1. SubSeq(t, 1, Len(s)) \in Seq(S) /\ Len(SubSeq(t, 1, Len(s))) = Len(s)
    BY <1>2
  <2>2. \A i \in 1 .. Len(s) : SubSeq(t, 1, Len(s))[i] = t[i]
    BY <1>2
  <2>3. ASSUME \A i \in 1 .. Len(s) : s[i] = t[i] PROVE s = SubSeq(t, 1, Len(s))
    BY <2>1, <2>2, <2>3
  <2> QED BY <2>2, <2>3
<1> QED BY <1>1, <1>2 DEF E!IsPrefix

\* What is picked up to some place comes first in what is picked of all.
LEMMA PickedPrefix ==
  ASSUME NEW S, NEW s \in Seq(S), NEW places, NEW m \in 0 .. Len(s)
  PROVE  E!IsPrefix(E!Picked(Upto(s, m), places), E!Picked(s, places))
<1> DEFINE n == Len(s)
           P(k) == E!Picked(Upto(s, k), places)
           T == {j \in 0 .. n - m : E!IsPrefix(P(m), P(m + j))}
<1>1. n \in Nat /\ m \in Nat /\ m <= n /\ P(n) = E!Picked(s, places)
  BY UptoParts
<1>2. \A k \in 0 .. n : P(k) \in Seq(S)
  BY UptoParts, PickedTyped
<1>3. \A k \in 0 .. n - 1 :
        P(k + 1) = IF k + 1 \in places THEN Append(P(k), s[k + 1]) ELSE P(k)
  <2> SUFFICES ASSUME NEW k \in 0 .. n - 1
               PROVE  P(k + 1) = IF k + 1 \in places THEN Append(P(k), s[k + 1]) ELSE P(k)
    OBVIOUS
  <2>1. k \in 0 .. Len(s) /\ k < Len(s)
    BY <1>1
  <2>2. Upto(s, k) \in Seq(S) /\ Len(Upto(s, k)) = k /\ s[k + 1] \in S
        /\ Upto(s, k + 1) = Append(Upto(s, k), s[k + 1])
    BY <2>1, UptoParts
  <2> DEFINE u == Upto(s, k)
             z == s[k + 1]
  <2> HIDE DEF u, z
  <2>3. u \in Seq(S) /\ z \in S /\ Len(u) = k
    BY <2>2 DEF u, z
  <2>4. E!Picked(Append(u, z), places) =
          IF Len(u) + 1 \in places THEN Append(E!Picked(u, places), z) ELSE E!Picked(u, places)
    BY <2>3, PickedAppend
  <2> QED BY <2>2, <2>3, <2>4 DEF u, z
<1>4. \A k \in 0 .. n - 1 : s[k + 1] \in S
  BY <1>1
<1> HIDE DEF P, n
<1>5. 0 \in T
  <2>1. P(m) \in Seq(S)
    BY <1>1, <1>2
  <2> QED BY <1>1, <2>1 DEF E!IsPrefix
<1>6. ASSUME NEW j \in 0 .. (n - m) - 1, j \in T PROVE j + 1 \in T
  <2>1. /\ m + j \in 0 .. n - 1 /\ (m + j) + 1 = m + (j + 1) /\ m + j \in 0 .. n
        /\ m \in 0 .. n /\ j + 1 \in 0 .. n - m
    BY <1>1, <1>6
  <2>2. P(m) \in Seq(S) /\ P(m + j) \in Seq(S) /\ E!IsPrefix(P(m), P(m + j)) /\ s[(m + j) + 1] \in S
    BY <1>2, <1>4, <1>6, <2>1
  <2>3. P(m + (j + 1)) = P(m + j) \/ P(m + (j + 1)) = Append(P(m + j), s[(m + j) + 1])
    BY <1>3, <2>1
  <2> DEFINE a == P(m)
             b == P(m + j)
             z == s[(m + j) + 1]
  <2> HIDE DEF a, b, z
  <2>4. a \in Seq(S) /\ b \in Seq(S) /\ z \in S /\ E!IsPrefix(a, b)
    BY <2>2 DEF a, b, z
  <2>5. Len(a) <= Len(b) /\ \A i \in 1 .. Len(a) : a[i] = b[i]
    BY <2>4, PrefixMeans
  <2>6. /\ Append(b, z) \in Seq(S) /\ Len(a) <= Len(Append(b, z))
        /\ \A i \in 1 .. Len(a) : a[i] = Append(b, z)[i]
    BY <2>4, <2>5
  <2>7. E!IsPrefix(a, Append(b, z))
    BY <2>4, <2>6, PrefixMeans
  <2>8. E!IsPrefix(P(m), P(m + (j + 1)))
    BY <2>3, <2>4, <2>7 DEF a, b, z
  <2> QED BY <2>1, <2>8
<1>7. n - m \in Nat /\ T \in SUBSET (0 .. n - m)
  <2>1. n - m \in Nat
    BY <1>1
  <2> QED BY <2>1
<1>8. T = 0 .. n - m
  <2> HIDE DEF T
  <2> QED BY <1>5, <1>6, <1>7, Upwards
<1>9. n - m \in T /\ m + (n - m) = n
  <2>1. n - m \in 0 .. n - m /\ m + (n - m) = n
    BY <1>1, <1>7
  <2> HIDE DEF T
  <2> QED BY <1>8, <2>1
<1>10. E!IsPrefix(P(m), P(m + (n - m)))
  BY <1>9
<1>11. E!IsPrefix(P(m), E!Picked(s, places))
  BY <1>1, <1>9, <1>10, Zenon
<1> QED BY <1>11 DEF P
-----------------------------------------------------------------------------
(* LD_PRELOAD. *)

Libraries == Libs \cup {K2}
LdPreload == [libs : Seq(Libraries), colons : BOOLEAN]

OtherPlaces(libs) == {i \in DOMAIN libs : libs[i] # K2}
OthersOf(libs) == E!Picked(libs, OtherPlaces(libs))

LEMMA OthersAppend ==
  ASSUME NEW libs \in Seq(Libraries), NEW lib \in Libraries
  PROVE  OthersOf(Append(libs, lib)) = IF lib = K2 THEN OthersOf(libs) ELSE Append(OthersOf(libs), lib)
<1> DEFINE n == Len(libs)
           places == OtherPlaces(Append(libs, lib))
           before1 == OtherPlaces(libs)
<1>1. \A i \in 1 .. n : i \in places <=> i \in before1
  BY DEF OtherPlaces
<1>2. n + 1 \in places <=> lib # K2
  BY DEF OtherPlaces
<1> HIDE DEF places, before1
<1>3. E!Picked(Append(libs, lib), places) =
        IF n + 1 \in places THEN Append(E!Picked(libs, before1), lib) ELSE E!Picked(libs, before1)
  BY <1>1, PickedAppend
<1> QED BY <1>2, <1>3 DEF OthersOf, places, before1

\* Nothing is lost but k2env.so itself.
LEMMA OthersKept ==
  ASSUME NEW libs \in Seq(Libraries), NEW places, OtherPlaces(libs) \subseteq places
  PROVE  /\ OthersOf(<<K2>> \o E!Picked(libs, places)) = OthersOf(libs)
         /\ E!Picked(libs, places) \in Seq(Libraries)
<1> DEFINE n == Len(libs)
           P(m) == E!Picked(Upto(libs, m), places)
           T == {m \in 0 .. n : OthersOf(<<K2>> \o P(m)) = OthersOf(Upto(libs, m))}
<1>1. n \in Nat /\ K2 \in Libraries
  BY DEF Libraries
<1>2. \A m \in 0 .. n : P(m) \in Seq(Libraries)
  BY UptoParts, PickedTyped
<1>3. 0 \in T
  <2>1. Upto(libs, 0) = <<>> /\ P(0) = <<>>
    <3>1. 0 \in 0 .. Len(libs)
      BY <1>1
    <3> QED BY <3>1, UptoParts, PickedEmpty
  <2>2. <<K2>> \o <<>> = Append(<<>>, K2) /\ <<>> \in Seq(Libraries)
    BY <1>1
  <2>3. OthersOf(Append(<<>>, K2)) = OthersOf(<<>>)
    BY <1>1, <2>2, OthersAppend
  <2>4. OthersOf(<<K2>> \o P(0)) = OthersOf(Upto(libs, 0))
    BY <2>1, <2>2, <2>3, Zenon
  <2> HIDE DEF P
  <2> QED BY <1>1, <2>4
<1>4. ASSUME NEW m \in 0 .. n - 1, m \in T PROVE m + 1 \in T
  <2> DEFINE u == Upto(libs, m)
             z == libs[m + 1]
             p == P(m)
  <2>1. m \in 0 .. Len(libs) /\ m < Len(libs) /\ m + 1 \in 0 .. n /\ m + 1 \in 1 .. n
    BY <1>1
  <2>2. /\ u \in Seq(Libraries) /\ Len(u) = m /\ z \in Libraries /\ p \in Seq(Libraries)
        /\ Upto(libs, m + 1) = Append(u, z)
    BY <1>2, <2>1, UptoParts
  <2>3. OthersOf(<<K2>> \o p) = OthersOf(u) /\ p = E!Picked(u, places)
    BY <1>4
  <2>4. z # K2 => m + 1 \in places
    BY <2>1 DEF OtherPlaces
  <2> HIDE DEF u, z, p
  <2>5. E!Picked(Append(u, z), places) = IF Len(u) + 1 \in places THEN Append(p, z) ELSE p
    BY <2>2, <2>3, PickedAppend
  <2>6. OthersOf(Append(u, z)) = IF z = K2 THEN OthersOf(u) ELSE Append(OthersOf(u), z)
    BY <2>2, OthersAppend
  <2>7. <<K2>> \o p \in Seq(Libraries) /\ <<K2>> \o Append(p, z) = Append(<<K2>> \o p, z)
    BY <1>1, <2>2
  <2>8. OthersOf(Append(<<K2>> \o p, z)) = IF z = K2 THEN OthersOf(<<K2>> \o p) ELSE Append(OthersOf(<<K2>> \o p), z)
    BY <2>2, <2>7, OthersAppend
  <2>9. P(m + 1) = IF m + 1 \in places THEN Append(p, z) ELSE p
    BY <2>2, <2>5
  <2>10. OthersOf(<<K2>> \o P(m + 1)) = OthersOf(Append(u, z))
    <3>1. CASE m + 1 \in places
      BY <2>3, <2>6, <2>7, <2>8, <2>9, <3>1
    <3>2. CASE m + 1 \notin places
      BY <2>3, <2>4, <2>6, <2>9, <3>2
    <3> QED BY <3>1, <3>2
  <2> QED BY <2>1, <2>2, <2>10
<1>5. T \in SUBSET (0 .. n)
  OBVIOUS
<1>6. T = 0 .. n
  <2> HIDE DEF T
  <2> QED BY <1>1, <1>3, <1>4, <1>5, Upwards
<1>7. OthersOf(<<K2>> \o P(n)) = OthersOf(Upto(libs, n))
  BY <1>1, <1>6
<1>8. Upto(libs, n) = libs
  BY <1>1, UptoParts
<1> QED BY <1>7, <1>8, PickedTyped

LEMMA OthersMeans == ASSUME NEW p PROVE E!Others(p) = OthersOf(p.libs)
BY DEF E!Others, OthersOf, OtherPlaces

\* k2env.so is made the first, and the others stay.
LEMMA Enforced ==
  ASSUME NEW p \in LdPreload
  PROVE  /\ E!EnforceK2env(p) \in LdPreload /\ E!IsFirst(E!EnforceK2env(p))
         /\ OthersOf(E!EnforceK2env(p).libs) = OthersOf(p.libs)
         /\ E!IsFirst(p) => E!EnforceK2env(p) = p
<1>1. CASE E!IsFirst(p)
  BY <1>1 DEF E!EnforceK2env
<1>2. CASE ~E!IsFirst(p)
  <2> DEFINE places == DOMAIN p.libs \ E!Matched(p.libs)
             rest == E!Picked(p.libs, places)
  <2>1. p.libs \in Seq(Libraries)
    BY DEF LdPreload
  <2>2. OtherPlaces(p.libs) \subseteq places
    <3> SUFFICES ASSUME NEW i \in OtherPlaces(p.libs), i \in E!Matched(p.libs) PROVE FALSE
      BY DEF OtherPlaces
    <3>1. PICK k \in 2 .. i : \A j \in k .. i : p.libs[j] = K2
      BY DEF E!Matched
    <3>2. i \in Int /\ i \in k .. i
      BY <3>1, <2>1 DEF OtherPlaces
    <3> QED BY <3>1, <3>2 DEF OtherPlaces
  <2>3. OthersOf(<<K2>> \o rest) = OthersOf(p.libs) /\ rest \in Seq(Libraries)
    BY <2>1, <2>2, OthersKept
  <2>4. E!EnforceK2env(p) = [libs |-> <<K2>> \o rest, colons |-> TRUE]
    BY <1>2 DEF E!EnforceK2env, E!ReparseLdPreload, E!Preload, E!Stripped
  <2> HIDE DEF rest
  <2>5. <<K2>> \o rest \in Seq(Libraries) /\ Head(<<K2>> \o rest) = K2 /\ <<K2>> \o rest # <<>>
    BY <2>3 DEF Libraries
  <2> DEFINE q == E!EnforceK2env(p)
  <2>6. q.libs = <<K2>> \o rest /\ q.colons = TRUE /\ q = [libs |-> q.libs, colons |-> q.colons]
    BY <2>4
  <2> HIDE DEF q
  <2>7. q \in LdPreload /\ E!IsFirst(q)
    BY <2>5, <2>6 DEF LdPreload, E!IsFirst
  <2>8. OthersOf(q.libs) = OthersOf(p.libs)
    BY <2>3, <2>6
  <2> QED BY <1>2, <2>7, <2>8 DEF q
<1> QED BY <1>1, <1>2

\* What comes first is there.
LEMMA FirstIsPreloaded ==
  ASSUME NEW e, e.preload \in LdPreload, E!IsFirst(e.preload) PROVE E!Preloaded(e)
<1>1. e.preload.libs \in Seq(Libraries) /\ e.preload.libs # <<>> /\ Head(e.preload.libs) = K2
  BY DEF LdPreload, E!IsFirst
<1>2. 1 \in DOMAIN e.preload.libs /\ e.preload.libs[1] = K2
  BY <1>1
<1> QED BY <1>2 DEF E!Preloaded
-----------------------------------------------------------------------------
(* What each step of ep.sh does to the environment. *)

EType ==
  /\ E!EntryAssumption /\ given \in Containers
  /\ ep_env \in E!Environment /\ ep_file \in 0 .. CpuMax /\ pid1 \in BOOLEAN
  /\ kept \in {-1} \cup Nat /\ todo \in Seq(Parts)
  /\ touched \in BOOLEAN /\ ate \in BOOLEAN /\ runs \in Nat \ {0} /\ restarts \in Nat
  /\ \/ image = "ep.sh" /\ step \in {"load", "check", "parts"}
     \/ image = "program" /\ step \in {"load", "program"}

\* Of an environment, what the constructor decides on, and the threads.
Cpus(e) == [nproc |-> e.nproc, kind |-> e.kind]

AlikeThreads(e, f) ==
  /\ f.gomaxprocs = e.gomaxprocs /\ f.omp = e.omp /\ f.force_gomaxprocs = e.force_gomaxprocs

LEMMA EnvParts ==
  ASSUME NEW e \in E!Environment
  PROVE  /\ e.preload \in LdPreload /\ Cpus(e) \in Env /\ e.arenas \in {-1} \cup Nat
         /\ e.nproc \in 0 .. CpuMax /\ e.kind \in Kinds
         /\ e.gomaxprocs \in {-1} \cup 0 .. CpuMax /\ e.omp \in {-1} \cup 0 .. CpuMax
         /\ e.force_gomaxprocs \in {-1} \cup 0 .. CpuMax /\ e.ep_env \in {"unset", "0", "1"}
BY DEF E!Environment, E!Threads, E!Nonsense, E!Kinds, Kinds, Cpus, Env, LdPreload, Libraries

LEMMA SameCounts ==
  /\ \A max, e : E!Left(max, e) = Left(max, e)
  /\ \A max, e : E!Count(max, e) = Count(max, e)
  /\ \A a, b : E!Larger(a, b) = Larger(a, b)
  /\ \A a, b : E!Smaller(a, b) = Smaller(a, b)
  /\ \A e : E!EnvOf(e) = Cpus(e)
BY DEF E!Left, Left, E!Count, Count, E!Forces, Forces, E!Asked, Asked, E!Larger, Larger, E!MinPositive,
       MinPositive, E!Smaller, Smaller, E!EnvOf, Cpus

LEMMA LimitTyped ==
  ASSUME EType
  PROVE  /\ E!IsContainer(given) /\ given.limit \in 0 .. CpuMax /\ given.file \in 0 .. CpuMax
         /\ given.env \in E!Environment /\ given.parts \in Seq(Parts)
         /\ given.pid1 \in BOOLEAN /\ given.writable \in BOOLEAN
         /\ E!Limit \in 0 .. CpuMax /\ E!Found \in 0 .. CpuMax
<1>1. E!IsContainer(given)
  BY DEF EType, E!EntryAssumption
<1> QED BY <1>1 DEF EType, E!IsContainer, E!Limit, E!Found

LEMMA LoadDoes ==
  ASSUME EType, E!Load
  PROVE  /\ EType' /\ ep_env'.preload = ep_env.preload /\ ep_env'.arenas = ep_env.arenas
         /\ AlikeThreads(ep_env, ep_env') /\ ep_env'.ep_env = ep_env.ep_env
         /\ E!Preloaded(ep_env) =>
              /\ Cpus(ep_env') = Left(E!Limit, Cpus(ep_env))
              /\ ep_file' = IF pid1 /\ given.writable THEN Left(E!Limit, Cpus(ep_env)).nproc ELSE ep_file
         /\ ~E!Preloaded(ep_env) => Cpus(ep_env') = Cpus(ep_env) /\ ep_file' = ep_file
<1> DEFINE left == Left(E!Limit, Cpus(ep_env))
<1>1. left \in Env /\ left.nproc \in 1 .. CpuMax
  BY EnvParts, LimitTyped, LeftIsEnv DEF EType
<1>2. left = [nproc |-> left.nproc, kind |-> left.kind] /\ left.kind \in Kinds
  BY <1>1 DEF Env
<1>3. E!Left(E!Limit, E!EnvOf(ep_env)) = left
  BY SameCounts
<1> HIDE DEF left
<1>4. CASE E!Preloaded(ep_env)
  <2>1. /\ ep_env' = [ep_env EXCEPT !.nproc = left.nproc, !.kind = left.kind]
        /\ ep_file' = IF pid1 /\ given.writable THEN left.nproc ELSE ep_file
    BY <1>3, <1>4 DEF E!Load
  <2>2. /\ ep_env' \in E!Environment /\ ep_env'.preload = ep_env.preload /\ ep_env'.arenas = ep_env.arenas
        /\ AlikeThreads(ep_env, ep_env') /\ ep_env'.ep_env = ep_env.ep_env
        /\ ep_env'.nproc = left.nproc /\ ep_env'.kind = left.kind
    <3>1. left.nproc \in 0 .. CpuMax /\ left.kind \in E!Kinds /\ ep_env \in E!Environment
      BY <1>1, <1>2, CpuAssumption DEF EType, E!Kinds, Kinds
    <3> QED BY <2>1, <3>1 DEF E!Environment, AlikeThreads
  <2>3. Cpus(ep_env') = left
    BY <1>2, <2>2 DEF Cpus
  <2>4. EType'
    BY <1>1, <2>1, <2>2, CpuAssumption DEF EType, E!Load
  <2> QED BY <1>4, <2>1, <2>2, <2>3, <2>4 DEF left
<1>5. CASE ~E!Preloaded(ep_env)
  <2>1. ep_env' = ep_env /\ ep_file' = ep_file
    BY <1>5 DEF E!Load
  <2>2. EType'
    BY <2>1 DEF EType, E!Load
  <2> QED BY <1>5, <2>1, <2>2 DEF AlikeThreads
<1> QED BY <1>4, <1>5

LEMMA StartAgainDoes ==
  ASSUME EType, E!StartAgain
  PROVE  /\ EType' /\ ep_env'.preload = E!EnforceK2env(ep_env.preload) /\ ep_env'.arenas = ep_env.arenas
         /\ AlikeThreads(ep_env, ep_env') /\ ep_env'.ep_env = ep_env.ep_env /\ Cpus(ep_env') = Cpus(ep_env)
<1> DEFINE p == E!EnforceK2env(ep_env.preload)
<1>1. ep_env \in E!Environment /\ p \in LdPreload
  BY EnvParts, Enforced DEF EType
<1>2. ep_env' = [ep_env EXCEPT !.preload = p]
  BY DEF E!StartAgain
<1> HIDE DEF p
<1>3. /\ ep_env' \in E!Environment /\ ep_env'.preload = p /\ ep_env'.arenas = ep_env.arenas
      /\ AlikeThreads(ep_env, ep_env') /\ ep_env'.ep_env = ep_env.ep_env /\ Cpus(ep_env') = Cpus(ep_env)
  BY <1>1, <1>2 DEF E!Environment, AlikeThreads, Cpus, LdPreload, Libraries
<1>4. EType'
  BY <1>3 DEF EType, E!StartAgain
<1> QED BY <1>3, <1>4 DEF p

LEMMA SetupDoes ==
  ASSUME EType, E!Setup
  PROVE  /\ EType' /\ ep_env'.preload = ep_env.preload /\ ep_env'.arenas = 2
         /\ AlikeThreads(ep_env, ep_env') /\ Cpus(ep_env') = Cpus(ep_env)
         /\ ep_env'.ep_env = IF ep_env.ep_env # "unset" THEN ep_env.ep_env
                             ELSE IF given.command = "env" THEN "1" ELSE "0"
<1>1. ep_env \in E!Environment /\ ep_env.ep_env \in {"unset", "0", "1"}
  BY EnvParts DEF EType
<1> DEFINE m == IF ep_env.ep_env # "unset" THEN ep_env.ep_env ELSE IF given.command = "env" THEN "1" ELSE "0"
<1>2. ep_env' = [ep_env EXCEPT !.arenas = 2, !.ep_env = m]
  BY DEF E!Setup
<1>3. m \in {"0", "1"}
  BY <1>1
<1> HIDE DEF m
<1>4. /\ ep_env' \in E!Environment /\ ep_env'.preload = ep_env.preload /\ ep_env'.arenas = 2
      /\ AlikeThreads(ep_env, ep_env') /\ ep_env'.ep_env = m /\ Cpus(ep_env') = Cpus(ep_env)
  BY <1>1, <1>2, <1>3 DEF E!Environment, AlikeThreads, Cpus
<1>5. given.parts \in Seq(Parts) /\ ep_env.arenas \in {-1} \cup Nat
  BY LimitTyped, EnvParts DEF EType
<1>6. EType'
  <2>1. kept' \in {-1} \cup Nat /\ todo' \in Seq(Parts)
    BY <1>5 DEF E!Setup, E!Unset
  <2> QED BY <1>4, <2>1 DEF EType, E!Setup
<1> QED BY <1>4, <1>6 DEF m

\* The fixups: k2env.so is first again, and there are two arenas.
LEMMA FixedHas ==
  ASSUME NEW e \in E!Environment
  PROVE  /\ E!Fixed(e) \in E!Environment /\ E!Fixed(e).preload = E!EnforceK2env(e.preload)
         /\ E!Fixed(e).arenas = 2 /\ AlikeThreads(e, E!Fixed(e)) /\ E!Fixed(e).ep_env = e.ep_env
         /\ Cpus(E!Fixed(e)) = Cpus(e)
<1> DEFINE p == E!EnforceK2env(e.preload)
<1>1. p \in LdPreload
  BY EnvParts, Enforced
<1>2. E!Fixed(e) = [e EXCEPT !.arenas = 2, !.preload = p]
  BY DEF E!Fixed
<1> HIDE DEF p
<1> DEFINE P == [libs : Seq(Libs \cup {K2}), colons : BOOLEAN]
<1>4. P = LdPreload
  BY DEF LdPreload, Libraries
<1>5. p \in P
  BY <1>1, <1>4
<1> HIDE DEF P
<1>3. /\ E!Fixed(e) \in E!Environment /\ E!Fixed(e).preload = p /\ E!Fixed(e).arenas = 2
      /\ AlikeThreads(e, E!Fixed(e)) /\ E!Fixed(e).ep_env = e.ep_env /\ Cpus(E!Fixed(e)) = Cpus(e)
  <2>1. E!Environment =
          [preload : P, nproc : 0 .. CpuMax, kind : E!Kinds, arenas : {E!Nonsense} \cup Nat,
           gomaxprocs : E!Threads, omp : E!Threads, force_gomaxprocs : E!Threads,
           ep_env : {"unset", "0", "1"}]
    BY DEF E!Environment, P
  <2>2. 2 \in {E!Nonsense} \cup Nat
    OBVIOUS
  <2>3. E!Fixed(e) \in E!Environment
    BY <1>2, <1>5, <2>1, <2>2
  <2>4. /\ E!Fixed(e).preload = p /\ E!Fixed(e).arenas = 2
        /\ AlikeThreads(e, E!Fixed(e)) /\ E!Fixed(e).ep_env = e.ep_env /\ Cpus(E!Fixed(e)) = Cpus(e)
    BY <1>2, <2>1 DEF AlikeThreads, Cpus
  <2> QED BY <2>3, <2>4
<1> QED BY <1>3 DEF p

\* What has been sourced leaves an environment as it was made.
LEMMA SourcedDoes ==
  ASSUME EType, NEW e \in E!Environment, NEW rest, E!Sourced(e, rest), rest \in Seq(Parts),
         step = "parts", kept' \in {-1} \cup Nat, touched' \in BOOLEAN, ate' \in BOOLEAN
  PROVE  /\ EType' /\ ep_env'.preload = E!EnforceK2env(e.preload) /\ ep_env'.arenas = 2
         /\ AlikeThreads(e, ep_env') /\ ep_env'.ep_env = e.ep_env /\ Cpus(ep_env') = Cpus(e)
<1>1. ep_env' = E!Fixed(e)
  BY DEF E!Sourced
<1>2. EType'
  BY <1>1, FixedHas DEF EType, E!Sourced
<1> QED BY <1>1, <1>2, FixedHas

LEMMA PartsShrink ==
  ASSUME EType, todo # <<>>
  PROVE  /\ Tail(todo) \in Seq(Parts) /\ Head(todo) \in Parts /\ <<>> \in Seq(Parts)
         /\ Head(todo).kind \in E!PartKinds
BY DEF EType, E!EntryAssumption

\* In the parts of the image no variable changes but one.
LEMMA ArenasDoes ==
  ASSUME EType, E!Arenas
  PROVE  /\ EType' /\ ep_env'.preload = E!EnforceK2env(ep_env.preload) /\ ep_env'.arenas = 2
         /\ AlikeThreads(ep_env, ep_env') /\ ep_env'.ep_env = ep_env.ep_env /\ Cpus(ep_env') = Cpus(ep_env)
<1>1. E!ArenasFor(kept, ep_env.nproc) \in {-1} \cup Nat
  BY EnvParts, CpuAssumption DEF EType, E!ArenasFor, E!Larger, E!Nonsense
<1>2. step = "parts" /\ Tail(todo) \in Seq(Parts)
  BY PartsShrink DEF E!Arenas, E!Next1
<1>3. /\ kept' \in {-1} \cup Nat /\ touched' \in BOOLEAN /\ ate' \in BOOLEAN
      /\ E!Sourced(ep_env, Tail(todo)) /\ ep_env \in E!Environment
  BY <1>1 DEF E!Arenas, EType
<1> QED BY <1>2, <1>3, SourcedDoes

\* The number of threads, where the environment is the one at hand.
Worked(n, forced) == E!ThreadsFor(ep_env, n, forced)

LEMMA WorkedTyped ==
  ASSUME EType, NEW n \in {-1} \cup 0 .. CpuMax, NEW forced \in {-1} \cup 0 .. CpuMax
  PROVE  Worked(n, forced) \in {-1} \cup 0 .. CpuMax
<1> DEFINE asked == [nproc |-> IF n = E!Nonsense THEN E!Unset ELSE n, kind |-> ep_env.kind]
           told == IF E!Preloaded(ep_env) THEN Left(E!Found, asked) ELSE asked
<1>1. ep_env.kind \in Kinds /\ ep_env.nproc \in 0 .. CpuMax /\ E!Found \in 0 .. CpuMax
  BY EnvParts, LimitTyped DEF EType
<1>2. asked \in Env
  BY <1>1, CpuAssumption DEF Env, E!Nonsense, E!Unset
<1>3. told \in Env
  BY <1>1, <1>2, LeftIsEnv
<1>4. E!NprocSays(ep_env, n) = Count(E!Found, told)
  BY SameCounts DEF E!NprocSays
<1>5. Count(E!Found, told) \in 1 .. CpuMax
  BY <1>1, <1>3, CountBounds
<1>6. E!NprocSays(ep_env, n) \in 1 .. CpuMax
  BY <1>4, <1>5
<1> QED BY <1>1, <1>6, CpuAssumption DEF Worked, E!ThreadsFor

LEMMA GomaxprocsDoes ==
  ASSUME EType, E!Gomaxprocs
  PROVE  /\ EType' /\ ep_env'.preload = E!EnforceK2env(ep_env.preload) /\ ep_env'.arenas = 2
         /\ ep_env'.gomaxprocs = Worked(ep_env.gomaxprocs, ep_env.force_gomaxprocs)
         /\ ep_env'.force_gomaxprocs = 0 /\ ep_env'.omp = ep_env.omp
         /\ ep_env'.ep_env = ep_env.ep_env /\ Cpus(ep_env') = Cpus(ep_env)
<1> DEFINE n == Worked(ep_env.gomaxprocs, ep_env.force_gomaxprocs)
           e == [ep_env EXCEPT !.gomaxprocs = n, !.force_gomaxprocs = 0]
<1>1. ep_env \in E!Environment /\ n \in {-1} \cup 0 .. CpuMax
  BY EnvParts, WorkedTyped DEF EType
<1>2. step = "parts" /\ Tail(todo) \in Seq(Parts)
  BY PartsShrink DEF E!Gomaxprocs, E!Next1
<1>3. E!Sourced(e, Tail(todo)) /\ kept' = kept /\ touched' = touched /\ ate' = ate
  BY DEF E!Gomaxprocs, Worked, E!Unset
<1> HIDE DEF n
<1>4. 0 \in 0 .. CpuMax
  BY CpuAssumption
<1>5. /\ e \in E!Environment /\ e.preload = ep_env.preload /\ e.gomaxprocs = n /\ e.force_gomaxprocs = 0
      /\ e.omp = ep_env.omp /\ e.ep_env = ep_env.ep_env /\ Cpus(e) = Cpus(ep_env)
  BY <1>1, <1>4 DEF E!Environment, E!Threads, E!Nonsense, Cpus
<1> HIDE DEF e
<1>6. kept' \in {-1} \cup Nat /\ touched' \in BOOLEAN /\ ate' \in BOOLEAN
  BY <1>3 DEF EType
<1>7. /\ EType' /\ ep_env'.preload = E!EnforceK2env(e.preload) /\ ep_env'.arenas = 2
      /\ AlikeThreads(e, ep_env') /\ ep_env'.ep_env = e.ep_env /\ Cpus(ep_env') = Cpus(e)
  BY <1>2, <1>3, <1>5, <1>6, SourcedDoes
<1> QED BY <1>5, <1>7 DEF AlikeThreads, n

LEMMA OmpDoes ==
  ASSUME EType, E!OmpThreadLimit
  PROVE  /\ EType' /\ ep_env'.preload = E!EnforceK2env(ep_env.preload) /\ ep_env'.arenas = 2
         /\ ep_env'.omp = Worked(ep_env.omp, 0)
         /\ ep_env'.force_gomaxprocs = ep_env.force_gomaxprocs /\ ep_env'.gomaxprocs = ep_env.gomaxprocs
         /\ ep_env'.ep_env = ep_env.ep_env /\ Cpus(ep_env') = Cpus(ep_env)
<1> DEFINE n == Worked(ep_env.omp, 0)
           e == [ep_env EXCEPT !.omp = n]
<1>1. ep_env \in E!Environment /\ n \in {-1} \cup 0 .. CpuMax
  BY EnvParts, WorkedTyped, CpuAssumption DEF EType
<1>2. step = "parts" /\ Tail(todo) \in Seq(Parts)
  BY PartsShrink DEF E!OmpThreadLimit, E!Next1
<1>3. E!Sourced(e, Tail(todo)) /\ kept' = kept /\ touched' = touched /\ ate' = ate
  BY DEF E!OmpThreadLimit, Worked, E!Unset
<1> HIDE DEF n
<1>5. /\ e \in E!Environment /\ e.preload = ep_env.preload /\ e.omp = n
      /\ e.force_gomaxprocs = ep_env.force_gomaxprocs
      /\ e.gomaxprocs = ep_env.gomaxprocs /\ e.ep_env = ep_env.ep_env /\ Cpus(e) = Cpus(ep_env)
  BY <1>1 DEF E!Environment, E!Threads, E!Nonsense, Cpus
<1> HIDE DEF e
<1>6. kept' \in {-1} \cup Nat /\ touched' \in BOOLEAN /\ ate' \in BOOLEAN
  BY <1>3 DEF EType
<1>7. /\ EType' /\ ep_env'.preload = E!EnforceK2env(e.preload) /\ ep_env'.arenas = 2
      /\ AlikeThreads(e, ep_env') /\ ep_env'.ep_env = e.ep_env /\ Cpus(ep_env') = Cpus(e)
  BY <1>2, <1>3, <1>5, <1>6, SourcedDoes
<1> QED BY <1>5, <1>7 DEF AlikeThreads, n

\* A foreign part may do more.
LEMMA ForeignDoes ==
  ASSUME EType, E!Foreign
  PROVE  /\ EType' /\ ep_env'.arenas = 2 /\ ep_env'.ep_env = ep_env.ep_env /\ Cpus(ep_env') = Cpus(ep_env)
         /\ touched => touched'
         /\ ~touched' => /\ ep_env'.preload = E!EnforceK2env(ep_env.preload)
                         /\ AlikeThreads(ep_env, ep_env')
         /\ E!IsFirst(ep_env'.preload)
         /\ \/ todo' = Tail(todo) /\ ate' = ate
            \/ todo' = <<>> /\ ate' = TRUE
         /\ ran' = Append(ran, Head(todo).name)
<1> DEFINE Outcome == EType' /\ ep_env'.arenas = 2 /\ ep_env'.ep_env = ep_env.ep_env
                      /\ Cpus(ep_env') = Cpus(ep_env) /\ E!IsFirst(ep_env'.preload)
<1>1. /\ ep_env \in E!Environment /\ kept' \in {-1} \cup Nat /\ touched \in BOOLEAN /\ ate \in BOOLEAN
      /\ step = "parts" /\ Tail(todo) \in Seq(Parts) /\ <<>> \in Seq(Parts)
  BY PartsShrink DEF EType, E!Foreign, E!Next1
<1>2. ASSUME NEW e \in E!Environment, NEW rest \in Seq(Parts), E!Sourced(e, rest),
             touched' \in BOOLEAN, ate' \in BOOLEAN
      PROVE  /\ EType' /\ ep_env'.preload = E!EnforceK2env(e.preload) /\ ep_env'.arenas = 2
             /\ AlikeThreads(e, ep_env') /\ ep_env'.ep_env = e.ep_env /\ Cpus(ep_env') = Cpus(e)
             /\ E!IsFirst(ep_env'.preload)
             /\ todo' = rest /\ ran' = Append(ran, Head(todo).name)
  <2>1. /\ EType' /\ ep_env'.preload = E!EnforceK2env(e.preload) /\ ep_env'.arenas = 2
        /\ AlikeThreads(e, ep_env') /\ ep_env'.ep_env = e.ep_env /\ Cpus(ep_env') = Cpus(e)
    BY <1>1, <1>2, SourcedDoes
  <2>2. E!IsFirst(ep_env'.preload)
    BY <2>1, EnvParts, Enforced
  <2> QED BY <1>2, <2>1, <2>2 DEF E!Sourced
<1>3. CASE E!Sourced(ep_env, Tail(todo)) /\ UNCHANGED <<touched, ate>>
  BY <1>1, <1>2, <1>3
<1>4. CASE \E p \in Preloads :
             E!Sourced([ep_env EXCEPT !.preload = p], Tail(todo)) /\ touched' = TRUE /\ UNCHANGED ate
  <2>1. PICK p \in Preloads :
          E!Sourced([ep_env EXCEPT !.preload = p], Tail(todo)) /\ touched' = TRUE /\ ate' = ate
    BY <1>4
  <2> DEFINE e == [ep_env EXCEPT !.preload = p]
  <2>2. p \in LdPreload
    BY DEF EType, E!EntryAssumption, LdPreload, Libraries
  <2>3. e \in E!Environment /\ e.ep_env = ep_env.ep_env /\ Cpus(e) = Cpus(ep_env)
    BY <1>1, <2>2 DEF E!Environment, LdPreload, Libraries, Cpus
  <2> HIDE DEF e
  <2>4. E!Sourced(e, Tail(todo)) /\ touched' = TRUE /\ ate' = ate
    BY <2>1 DEF e
  <2> QED BY <1>1, <1>2, <2>3, <2>4
<1>5. CASE \E n \in Numbers :
             E!Sourced([ep_env EXCEPT !.arenas = n], Tail(todo)) /\ UNCHANGED <<touched, ate>>
  <2>1. PICK n \in Numbers :
          E!Sourced([ep_env EXCEPT !.arenas = n], Tail(todo)) /\ touched' = touched /\ ate' = ate
    BY <1>5
  <2> DEFINE e == [ep_env EXCEPT !.arenas = n]
  <2>2. n \in {-1} \cup Nat
    BY CpuAssumption DEF EType, E!EntryAssumption, E!Threads, E!Nonsense
  <2>3. /\ e \in E!Environment /\ e.ep_env = ep_env.ep_env /\ Cpus(e) = Cpus(ep_env)
        /\ AlikeThreads(ep_env, e) /\ e.preload = ep_env.preload
    BY <1>1, <2>2 DEF E!Environment, Cpus, AlikeThreads, E!Nonsense
  <2> HIDE DEF e
  <2>4. E!Sourced(e, Tail(todo)) /\ touched' = touched /\ ate' = ate
    BY <2>1 DEF e
  <2> QED BY <1>1, <1>2, <2>3, <2>4 DEF AlikeThreads
<1>6. CASE \E n \in Numbers :
             E!Sourced([ep_env EXCEPT !.gomaxprocs = n], Tail(todo)) /\ touched' = TRUE /\ UNCHANGED ate
  <2>1. PICK n \in Numbers :
          E!Sourced([ep_env EXCEPT !.gomaxprocs = n], Tail(todo)) /\ touched' = TRUE /\ ate' = ate
    BY <1>6
  <2> DEFINE e == [ep_env EXCEPT !.gomaxprocs = n]
  <2>2. n \in E!Threads
    BY DEF EType, E!EntryAssumption
  <2>3. e \in E!Environment /\ e.ep_env = ep_env.ep_env /\ Cpus(e) = Cpus(ep_env)
    BY <1>1, <2>2 DEF E!Environment, Cpus
  <2> HIDE DEF e
  <2>4. E!Sourced(e, Tail(todo)) /\ touched' = TRUE /\ ate' = ate
    BY <2>1 DEF e
  <2> QED BY <1>1, <1>2, <2>3, <2>4
<1>7. CASE E!Sourced(ep_env, <<>>) /\ ate' = TRUE /\ UNCHANGED touched
  BY <1>1, <1>2, <1>7
<1> QED BY <1>3, <1>4, <1>5, <1>6, <1>7 DEF E!Foreign

LEMMA RunPartDoes ==
  ASSUME EType, E!RunPart
  PROVE  /\ EType' /\ ep_env' = ep_env /\ ep_file' = ep_file /\ kept' = kept /\ touched' = touched
         /\ step = "parts" /\ todo # <<>> /\ Head(todo).kind \in {"program", "plain"}
         /\ IF E!Skipped THEN ran' = ran ELSE ran' = Append(ran, Head(todo).name)
         /\ \/ todo' = Tail(todo) /\ ate' = ate
            \/ todo' = <<>> /\ ate' = TRUE
<1>1. step = "parts" /\ todo # <<>> /\ Head(todo).kind \in {"program", "plain"}
  BY DEF E!RunPart, E!Next1
<1>2. Tail(todo) \in Seq(Parts) /\ <<>> \in Seq(Parts)
  BY <1>1, PartsShrink
<1>3. \/ todo' = Tail(todo) /\ ate' = ate
      \/ todo' = <<>> /\ ate' = TRUE
  BY DEF E!RunPart
<1>4. EType'
  BY <1>2, <1>3 DEF EType, E!RunPart
<1> QED BY <1>1, <1>3, <1>4 DEF E!RunPart

LEMMA BecomeDoes ==
  ASSUME EType, E!Become
  PROVE  /\ EType' /\ ep_env'.preload = ep_env.preload /\ ep_env'.arenas = kept
         /\ AlikeThreads(ep_env, ep_env') /\ ep_env'.ep_env = ep_env.ep_env /\ Cpus(ep_env') = Cpus(ep_env)
<1>1. ep_env \in E!Environment /\ kept \in {-1} \cup Nat
  BY DEF EType
<1>2. ep_env' = [ep_env EXCEPT !.arenas = kept]
  BY DEF E!Become
<1>3. /\ ep_env' \in E!Environment /\ ep_env'.preload = ep_env.preload /\ ep_env'.arenas = kept
      /\ AlikeThreads(ep_env, ep_env') /\ ep_env'.ep_env = ep_env.ep_env /\ Cpus(ep_env') = Cpus(ep_env)
  BY <1>1, <1>2 DEF E!Environment, AlikeThreads, Cpus, E!Nonsense
<1>4. EType'
  BY <1>3 DEF EType, E!Become
<1> QED BY <1>3, <1>4

LEMMA RunAgainDoes ==
  ASSUME EType, E!RunAgain
  PROVE  EType' /\ ep_env' = ep_env /\ ep_file' = ep_file
<1>1. /\ ep_env' = ep_env /\ ep_file' = ep_file /\ kept' = 0 /\ restarts' = 0 /\ runs' = runs + 1
      /\ pid1' = FALSE /\ image' = "ep.sh" /\ step' = "load"
      /\ given' = given /\ todo' = todo /\ touched' = touched /\ ate' = ate
  BY DEF E!RunAgain, E!Unset
<1>2. 0 \in {-1} \cup Nat /\ runs + 1 \in Nat \ {0}
  BY DEF EType
<1> QED BY <1>1, <1>2 DEF EType
-----------------------------------------------------------------------------
(* k2env.so comes first. *)

First == E!IsFirst(ep_env.preload)

Late == step = "parts" \/ image = "program" \/ runs > 1

PreloadInv ==
  /\ restarts \in {0, 1} /\ (restarts = 1 => First)
  /\ Late => First
  /\ ~touched => ep_env.preload \in {given.env.preload, E!EnforceK2env(given.env.preload)}

\* Once it comes first nothing changes any more, but by a foreign part.
LEMMA EnforcedTwice ==
  ASSUME EType
  PROVE  LET p == ep_env.preload
             q == given.env.preload
         IN  /\ E!IsFirst(E!EnforceK2env(p)) /\ (E!IsFirst(p) => E!EnforceK2env(p) = p)
             /\ E!IsFirst(E!EnforceK2env(q)) /\ (E!IsFirst(q) => E!EnforceK2env(q) = q)
<1>1. ep_env.preload \in LdPreload /\ given.env.preload \in LdPreload
  BY EnvParts, LimitTyped DEF EType
<1> QED BY <1>1, Enforced

LEMMA PreloadStays ==
  ASSUME EType, PreloadInv, given' = given, restarts' = restarts, touched' = touched,
         Late' => Late, ep_env'.preload = ep_env.preload
  PROVE  PreloadInv'
<1>1. First' = First
  BY DEF First
<1> QED BY <1>1 DEF PreloadInv, Late

LEMMA PreloadStep ==
  ASSUME EType, PreloadInv, E!ENext
  PROVE  EType' /\ PreloadInv'
<1>1. ASSUME E!Load PROVE EType' /\ PreloadInv'
  <2>1. /\ given' = given /\ restarts' = restarts /\ runs' = runs /\ touched' = touched
        /\ image' = image /\ step' # "parts" /\ step = "load"
    BY <1>1 DEF E!Load
  <2>2. EType' /\ ep_env'.preload = ep_env.preload
    BY <1>1, LoadDoes
  <2>3. Late' => Late
    BY <2>1 DEF Late
  <2> QED BY <2>1, <2>2, <2>3, PreloadStays
<1>2. ASSUME E!StartAgain PROVE EType' /\ PreloadInv'
  <2>1. /\ given' = given /\ restarts' = restarts + 1 /\ runs' = runs /\ touched' = touched
        /\ image' = image /\ step' = "load" /\ ~First
    BY <1>2 DEF E!StartAgain, First
  <2>2. EType' /\ ep_env'.preload = E!EnforceK2env(ep_env.preload)
    BY <1>2, StartAgainDoes
  <2>3. First'
    BY <2>2, EnforcedTwice DEF First
  <2>4. restarts = 0
    BY <2>1 DEF PreloadInv, Late
  <2>5. ~touched => ep_env.preload = given.env.preload
    BY <2>1, EnforcedTwice DEF PreloadInv, Late, First
  <2> QED BY <2>1, <2>2, <2>3, <2>4, <2>5 DEF PreloadInv, Late
<1>3. ASSUME E!Setup PROVE EType' /\ PreloadInv'
  <2>1. /\ given' = given /\ restarts' = restarts /\ runs' = runs /\ touched' = touched /\ First
    BY <1>3 DEF E!Setup, First
  <2>2. EType' /\ ep_env'.preload = ep_env.preload
    BY <1>3, SetupDoes
  <2>3. First'
    BY <2>1, <2>2 DEF First
  <2> QED BY <2>1, <2>2, <2>3 DEF PreloadInv, Late
<1>4. ASSUME E!Arenas \/ E!Gomaxprocs \/ E!OmpThreadLimit PROVE EType' /\ PreloadInv'
  <2>1. /\ given' = given /\ restarts' = restarts /\ runs' = runs /\ touched' = touched /\ step = "parts"
    BY <1>4 DEF E!Arenas, E!Gomaxprocs, E!OmpThreadLimit, E!Next1, E!Sourced
  <2>2. First
    BY <2>1 DEF PreloadInv, Late
  <2>3. EType' /\ ep_env'.preload = E!EnforceK2env(ep_env.preload)
    BY <1>4, ArenasDoes, GomaxprocsDoes, OmpDoes
  <2>4. ep_env'.preload = ep_env.preload
    BY <2>2, <2>3, EnforcedTwice DEF First
  <2>5. Late' => Late
    BY <2>1 DEF Late
  <2> QED BY <2>1, <2>3, <2>4, <2>5, PreloadStays
<1>5. ASSUME E!Foreign PROVE EType' /\ PreloadInv'
  <2>1. /\ given' = given /\ restarts' = restarts /\ runs' = runs /\ step = "parts"
    BY <1>5 DEF E!Foreign, E!Next1, E!Sourced
  <2>2. /\ EType' /\ First' /\ (touched => touched')
        /\ ~touched' => ep_env'.preload = E!EnforceK2env(ep_env.preload)
    BY <1>5, ForeignDoes DEF First
  <2>3. First
    BY <2>1 DEF PreloadInv, Late
  <2>4. ~touched' => ep_env'.preload = ep_env.preload
    BY <2>2, <2>3, EnforcedTwice DEF First
  <2> QED BY <2>1, <2>2, <2>4 DEF PreloadInv, Late
<1>6. ASSUME E!RunPart PROVE EType' /\ PreloadInv'
  <2>1. /\ given' = given /\ restarts' = restarts /\ runs' = runs /\ touched' = touched /\ step = "parts"
    BY <1>6, RunPartDoes DEF E!RunPart
  <2>2. EType' /\ ep_env' = ep_env
    BY <1>6, RunPartDoes DEF E!RunPart
  <2>3. Late' => Late
    BY <2>1 DEF Late
  <2> QED BY <2>1, <2>2, <2>3, PreloadStays
<1>7. ASSUME E!Become PROVE EType' /\ PreloadInv'
  <2>1. /\ given' = given /\ restarts' = restarts /\ runs' = runs /\ touched' = touched /\ step = "parts"
    BY <1>7 DEF E!Become
  <2>2. EType' /\ ep_env'.preload = ep_env.preload
    BY <1>7, BecomeDoes
  <2>3. Late' => Late
    BY <2>1 DEF Late
  <2> QED BY <2>1, <2>2, <2>3, PreloadStays
<1>8. ASSUME E!RunAgain PROVE EType' /\ PreloadInv'
  <2>1. /\ given' = given /\ restarts' = 0 /\ runs' = runs + 1 /\ touched' = touched /\ step = "program"
    BY <1>8 DEF E!RunAgain
  <2>2. image = "program" /\ First
    BY <2>1 DEF EType, PreloadInv, Late
  <2>3. EType' /\ ep_env' = ep_env
    BY <1>8, RunAgainDoes
  <2> QED BY <2>1, <2>2, <2>3 DEF PreloadInv, Late, First
<1>9. ASSUME E!Started PROVE EType' /\ PreloadInv'
  <2>1. EType'
    BY <1>9 DEF E!Started, E!evars, EType
  <2>2. PreloadInv'
    BY <1>9 DEF E!Started, E!evars, PreloadInv, Late, First
  <2> QED BY <2>1, <2>2
<1> QED BY <1>1, <1>2, <1>3, <1>4, <1>5, <1>6, <1>7, <1>8, <1>9 DEF E!ENext

LEMMA PreloadInit ==
  ASSUME E!EntryAssumption, E!EInit PROVE EType /\ PreloadInv
<1>1. E!IsContainer(given)
  BY DEF E!EntryAssumption, E!EInit
<1>2. EType
  <2>1. /\ given.env \in E!Environment /\ given.file \in 0 .. CpuMax /\ given.pid1 \in BOOLEAN
    BY <1>1 DEF E!IsContainer
  <2>2. 0 \in {-1} \cup Nat /\ <<>> \in Seq(Parts) /\ 1 \in Nat \ {0} /\ 0 \in Nat
    OBVIOUS
  <2>3. /\ given \in Containers /\ ep_env = given.env /\ ep_file = given.file /\ pid1 = given.pid1
        /\ kept = 0 /\ todo = <<>> /\ touched = FALSE /\ ate = FALSE /\ runs = 1 /\ restarts = 0
        /\ image = "ep.sh" /\ step = "load"
    BY DEF E!EInit, E!Unset
  <2> QED BY <2>1, <2>2, <2>3 DEF EType
<1>3. PreloadInv
  BY DEF PreloadInv, Late, E!EInit
<1> QED BY <1>2, <1>3

LEMMA PreloadQuiet ==
  ASSUME EType, PreloadInv, UNCHANGED (E!evars) PROVE EType' /\ PreloadInv'
<1>1. EType'
  BY DEF E!evars, EType
<1>2. PreloadInv'
  BY DEF E!evars, PreloadInv, Late, First
<1> QED BY <1>1, <1>2

PreloadAll == EType /\ PreloadInv

LEMMA EntryInvariance ==
  E!EntryAssumption /\ E!ESpec => []PreloadAll
<1>1. E!EntryAssumption /\ E!EInit => PreloadAll
  BY PreloadInit DEF PreloadAll
<1>2. PreloadAll /\ [E!ENext]_(E!evars) => PreloadAll'
  BY PreloadStep, PreloadQuiet DEF PreloadAll
<1> QED BY <1>1, <1>2, PTL DEF E!ESpec

\* Whatever libraries were preloaded, and whatever foreign parts do, parts and
\* programs run with k2env.so first and, as long as no part has set the
\* variable, with all the others in their order (ep.sh enforce_k2env_so).
THEOREM PreloadIsKept == E!EntryAssumption /\ E!ESpec => []PreloadKept
<1>1. PreloadAll => PreloadKept
  <2> SUFFICES ASSUME EType, PreloadInv PROVE PreloadKept
    BY DEF PreloadAll
  <2>1. step \in {"parts", "program"} => E!IsFirst(ep_env.preload)
    BY DEF EType, PreloadInv, Late, First
  <2>2. ~touched => OthersOf(ep_env.preload.libs) = OthersOf(given.env.preload.libs)
    <3>1. given.env.preload \in LdPreload
      BY LimitTyped, EnvParts
    <3> QED BY <3>1, Enforced DEF PreloadInv, Late
  <2>3. ~touched => E!Others(ep_env.preload) = E!Others(given.env.preload)
    BY <2>2, OthersMeans
  <2> QED BY <2>1, <2>3 DEF PreloadKept, E!PreloadKept, PreloadInv
<1> QED BY <1>1, EntryInvariance, PTL
-----------------------------------------------------------------------------
(* The parts of the list, in turn. *)

PartNames == {part.name : part \in Parts}
NamesOf(parts) == [i \in DOMAIN parts |-> parts[i].name]
WantedOf(parts, mode) == {i \in DOMAIN parts : E!Wanted(parts[i], mode)}

\* What has run when m parts are done, and what is left then.
RanUpto(parts, mode, m) == E!Picked(Upto(NamesOf(parts), m), WantedOf(parts, mode))

DoneUpto(parts, mode, m, did, left, all) ==
  did = RanUpto(parts, mode, m) /\ (left = SubSeq(parts, m + 1, Len(parts)) \/ (all /\ left = <<>>))

Underway(parts, mode, did, left, all) ==
  \E m \in 0 .. Len(parts) : DoneUpto(parts, mode, m, did, left, all)

Did(mode, did, left) ==
  IF E!Wanted(Head(left), mode) THEN Append(did, Head(left).name) ELSE did

LEMMA NamesTyped ==
  ASSUME NEW parts \in Seq(Parts)
  PROVE  /\ NamesOf(parts) \in Seq(PartNames) /\ Len(NamesOf(parts)) = Len(parts)
         /\ \A i \in 1 .. Len(parts) : NamesOf(parts)[i] = parts[i].name /\ parts[i] \in Parts
<1>1. \A i \in 1 .. Len(parts) : parts[i] \in Parts /\ parts[i].name \in PartNames
  BY DEF PartNames
<1> QED BY <1>1 DEF NamesOf

LEMMA UnderwayFirst ==
  ASSUME NEW parts \in Seq(Parts), NEW mode, NEW all
  PROVE  Underway(parts, mode, <<>>, parts, all)
<1>1. 0 \in 0 .. Len(parts) /\ SubSeq(parts, 0 + 1, Len(parts)) = parts
  OBVIOUS
<1>2. Upto(NamesOf(parts), 0) = <<>>
  <2>1. 0 \in 0 .. Len(NamesOf(parts))
    BY <1>1, NamesTyped
  <2> QED BY <2>1, NamesTyped, UptoParts
<1>3. RanUpto(parts, mode, 0) = <<>>
  BY <1>2, PickedEmpty DEF RanUpto
<1>4. DoneUpto(parts, mode, 0, <<>>, parts, all)
  BY <1>1, <1>3 DEF DoneUpto
<1> QED BY <1>1, <1>4 DEF Underway

LEMMA RanNext ==
  ASSUME NEW parts \in Seq(Parts), NEW mode, NEW m \in 0 .. Len(parts), m < Len(parts)
  PROVE  RanUpto(parts, mode, m + 1) =
           IF E!Wanted(parts[m + 1], mode) THEN Append(RanUpto(parts, mode, m), parts[m + 1].name)
           ELSE RanUpto(parts, mode, m)
<1> DEFINE names == NamesOf(parts)
           u == Upto(names, m)
           z == names[m + 1]
           W == WantedOf(parts, mode)
<1>1. /\ names \in Seq(PartNames) /\ m \in 0 .. Len(names) /\ m < Len(names) /\ m + 1 \in 1 .. Len(parts)
      /\ z = parts[m + 1].name
  BY NamesTyped
<1>2. u \in Seq(PartNames) /\ Len(u) = m /\ Upto(names, m + 1) = Append(u, z) /\ z \in PartNames
  BY <1>1, UptoParts
<1>3. m + 1 \in W <=> E!Wanted(parts[m + 1], mode)
  BY <1>1 DEF WantedOf
<1>4. RanUpto(parts, mode, m + 1) = E!Picked(Upto(names, m + 1), W) /\ RanUpto(parts, mode, m) = E!Picked(u, W)
  BY DEF RanUpto
<1> HIDE DEF names, u, z, W
<1>5. E!Picked(Append(u, z), W) = IF Len(u) + 1 \in W THEN Append(E!Picked(u, W), z) ELSE E!Picked(u, W)
  BY <1>2, PickedAppend
<1> QED BY <1>1, <1>2, <1>3, <1>4, <1>5

LEMMA UnderwayNext ==
  ASSUME NEW parts \in Seq(Parts), NEW mode, NEW did, NEW left, NEW all,
         Underway(parts, mode, did, left, all), left # <<>>
  PROVE  /\ Underway(parts, mode, Did(mode, did, left), Tail(left), all)
         /\ Underway(parts, mode, Did(mode, did, left), <<>>, TRUE)
<1>1. PICK m \in 0 .. Len(parts) : DoneUpto(parts, mode, m, did, left, all)
  BY DEF Underway
<1>2. did = RanUpto(parts, mode, m) /\ left = SubSeq(parts, m + 1, Len(parts))
  BY <1>1 DEF DoneUpto
<1>3. m < Len(parts)
  BY <1>2
<1>4. /\ Head(left) = parts[m + 1] /\ Tail(left) = SubSeq(parts, (m + 1) + 1, Len(parts))
      /\ m + 1 \in 0 .. Len(parts)
  BY <1>2, <1>3
<1>5. Did(mode, did, left) = RanUpto(parts, mode, m + 1)
  BY <1>2, <1>3, <1>4, RanNext DEF Did
<1> QED BY <1>4, <1>5 DEF Underway, DoneUpto

LEMMA UnderwayMeans ==
  ASSUME NEW parts \in Seq(Parts), NEW mode, NEW did, NEW left, NEW all, Underway(parts, mode, did, left, all)
  PROVE  /\ E!IsPrefix(did, E!Picked(NamesOf(parts), WantedOf(parts, mode)))
         /\ left = <<>> /\ ~all => did = E!Picked(NamesOf(parts), WantedOf(parts, mode))
<1>1. PICK m \in 0 .. Len(parts) : DoneUpto(parts, mode, m, did, left, all)
  BY DEF Underway
<1>2. /\ NamesOf(parts) \in Seq(PartNames) /\ m \in 0 .. Len(NamesOf(parts))
      /\ did = E!Picked(Upto(NamesOf(parts), m), WantedOf(parts, mode))
  BY <1>1, NamesTyped DEF DoneUpto, RanUpto
<1>3. E!IsPrefix(did, E!Picked(NamesOf(parts), WantedOf(parts, mode)))
  BY <1>2, PickedPrefix
<1>4. ASSUME left = <<>>, ~all PROVE did = E!Picked(NamesOf(parts), WantedOf(parts, mode))
  <2>1. SubSeq(parts, m + 1, Len(parts)) = <<>>
    BY <1>1, <1>4 DEF DoneUpto
  <2>2. m = Len(parts)
    BY <2>1
  <2>3. Upto(NamesOf(parts), m) = NamesOf(parts)
    BY <1>2, <2>2, NamesTyped, UptoParts
  <2> QED BY <1>2, <2>3
<1> QED BY <1>3, <1>4

UnderwayNow == Underway(given.parts, ep_env.ep_env, ran, todo, ate)

PartsInv ==
  /\ image = "ep.sh" /\ step # "parts" => ran = <<>>
  /\ step = "parts" \/ image = "program" => ep_env.ep_env \in {"0", "1"} /\ UnderwayNow
  /\ image = "program" => todo = <<>>

\* The part at the head is done, or it has read the list.
LEMMA PartDone ==
  ASSUME EType, PartsInv, step = "parts", todo # <<>>, given' = given, ep_env'.ep_env = ep_env.ep_env,
         ran' = Did(ep_env.ep_env, ran, todo), step' = "parts", image' = image,
         (todo' = Tail(todo) /\ ate' = ate) \/ (todo' = <<>> /\ ate' = TRUE)
  PROVE  PartsInv'
<1>1. UnderwayNow /\ given.parts \in Seq(Parts) /\ image = "ep.sh"
  BY LimitTyped DEF PartsInv, EType
<1>2. UnderwayNow'
  <2>1. /\ Underway(given.parts, ep_env.ep_env, Did(ep_env.ep_env, ran, todo), Tail(todo), ate)
        /\ Underway(given.parts, ep_env.ep_env, Did(ep_env.ep_env, ran, todo), <<>>, TRUE)
    BY <1>1, UnderwayNext DEF UnderwayNow
  <2>2. CASE todo' = Tail(todo) /\ ate' = ate
    BY <2>1, <2>2 DEF UnderwayNow
  <2>3. CASE todo' = <<>> /\ ate' = TRUE
    BY <2>1, <2>3 DEF UnderwayNow
  <2> QED BY <2>2, <2>3
<1> QED BY <1>1, <1>2 DEF PartsInv

LEMMA PartsStep ==
  ASSUME EType, PartsInv, E!ENext
  PROVE  PartsInv'
<1>1. ASSUME E!Load PROVE PartsInv'
  <2>1. /\ given' = given /\ image' = image /\ todo' = todo /\ ate' = ate /\ ran' = ran
        /\ step' # "parts" /\ step = "load" /\ ep_env'.ep_env = ep_env.ep_env
    BY <1>1, LoadDoes DEF E!Load
  <2> QED BY <2>1 DEF PartsInv, UnderwayNow
<1>2. ASSUME E!StartAgain PROVE PartsInv'
  <2>1. image = "ep.sh" /\ image' = image /\ ran' = ran /\ step = "check" /\ step' = "load"
    BY <1>2 DEF E!StartAgain, EType
  <2> QED BY <2>1 DEF PartsInv
<1>3. ASSUME E!Setup PROVE PartsInv'
  <2>1. /\ image = "ep.sh" /\ image' = image /\ ran' = ran /\ given' = given /\ step = "check"
        /\ todo' = given.parts
    BY <1>3 DEF E!Setup, EType
  <2>2. ran' = <<>>
    BY <2>1 DEF PartsInv
  <2>3. ep_env'.ep_env \in {"0", "1"}
    <3>1. ep_env.ep_env \in {"unset", "0", "1"}
      BY EnvParts DEF EType
    <3> QED BY <1>3, <3>1, SetupDoes
  <2>4. UnderwayNow'
    BY <2>1, <2>2, LimitTyped, UnderwayFirst DEF UnderwayNow
  <2> QED BY <2>1, <2>2, <2>3, <2>4 DEF PartsInv
<1>4. ASSUME E!Arenas \/ E!Gomaxprocs \/ E!OmpThreadLimit PROVE PartsInv'
  <2>1. /\ given' = given /\ step = "parts" /\ step' = "parts" /\ image' = image /\ todo # <<>>
        /\ todo' = Tail(todo) /\ ate' = ate /\ ran' = Append(ran, Head(todo).name)
        /\ Head(todo).kind \in {"arenas", "gomaxprocs", "omp"}
    BY <1>4 DEF E!Arenas, E!Gomaxprocs, E!OmpThreadLimit, E!Next1, E!Sourced
  <2>2. ep_env'.ep_env = ep_env.ep_env
    BY <1>4, ArenasDoes, GomaxprocsDoes, OmpDoes
  <2>3. ran' = Did(ep_env.ep_env, ran, todo)
    BY <2>1 DEF Did, E!Wanted
  <2> QED BY <2>1, <2>2, <2>3, PartDone
<1>5. ASSUME E!Foreign PROVE PartsInv'
  <2>1. /\ given' = given /\ step = "parts" /\ step' = "parts" /\ image' = image /\ todo # <<>>
        /\ Head(todo).kind = "sourced"
    BY <1>5 DEF E!Foreign, E!Next1, E!Sourced
  <2>2. /\ ep_env'.ep_env = ep_env.ep_env /\ ran' = Append(ran, Head(todo).name)
        /\ (todo' = Tail(todo) /\ ate' = ate) \/ (todo' = <<>> /\ ate' = TRUE)
    BY <1>5, ForeignDoes
  <2>3. ran' = Did(ep_env.ep_env, ran, todo)
    BY <2>1, <2>2 DEF Did, E!Wanted
  <2> QED BY <2>1, <2>2, <2>3, PartDone
<1>6. ASSUME E!RunPart PROVE PartsInv'
  <2>1. /\ given' = given /\ step' = step /\ image' = image
    BY <1>6 DEF E!RunPart
  <2>2. /\ ep_env' = ep_env /\ step = "parts" /\ todo # <<>> /\ Head(todo).kind \in {"program", "plain"}
        /\ ran' = IF E!Skipped THEN ran ELSE Append(ran, Head(todo).name)
        /\ (todo' = Tail(todo) /\ ate' = ate) \/ (todo' = <<>> /\ ate' = TRUE)
    BY <1>6, RunPartDoes
  <2>3. ep_env.ep_env \in {"0", "1"}
    BY <2>2 DEF PartsInv
  <2>4. E!Wanted(Head(todo), ep_env.ep_env) <=> ~E!Skipped
    BY <2>2, <2>3 DEF E!Wanted, E!Skipped
  <2>5. ran' = Did(ep_env.ep_env, ran, todo)
    BY <2>2, <2>4 DEF Did
  <2> QED BY <2>1, <2>2, <2>5, PartDone
<1>7. ASSUME E!Become PROVE PartsInv'
  <2>1. /\ given' = given /\ step = "parts" /\ image' = "program" /\ step' = "load" /\ todo = <<>>
        /\ todo' = todo /\ ran' = ran /\ ate' = ate /\ ep_env'.ep_env = ep_env.ep_env
    BY <1>7, BecomeDoes DEF E!Become
  <2> QED BY <2>1 DEF PartsInv, UnderwayNow
<1>8. ASSUME E!RunAgain PROVE PartsInv'
  BY <1>8 DEF E!RunAgain, PartsInv
<1>9. ASSUME E!Started PROVE PartsInv'
  BY <1>9 DEF E!Started, E!evars, PartsInv, UnderwayNow
<1> QED BY <1>1, <1>2, <1>3, <1>4, <1>5, <1>6, <1>7, <1>8, <1>9 DEF E!ENext

LEMMA PartsInvariance ==
  E!EntryAssumption /\ E!ESpec => [](EType /\ PartsInv)
<1>1. E!EntryAssumption /\ E!EInit => PartsInv
  BY DEF E!EInit, PartsInv
<1>2. EType /\ PartsInv /\ [E!ENext]_(E!evars) => PartsInv'
  BY PartsStep DEF E!evars, PartsInv, UnderwayNow
<1>3. PreloadAll => EType
  BY DEF PreloadAll
<1> QED BY <1>1, <1>2, <1>3, EntryInvariance, PTL DEF E!ESpec

\* Every part of the list is sourced or run once and in its order, programs
\* left out when only the environment is wanted, up to one that reads the list
\* itself (ep.sh), however long the list is.
THEOREM PartsRunInTurn == E!EntryAssumption /\ E!ESpec => []PartsInTurn
<1>1. EType /\ PartsInv => PartsInTurn
  <2> SUFFICES ASSUME EType, PartsInv PROVE PartsInTurn
    OBVIOUS
  <2> DEFINE all == E!Picked(NamesOf(given.parts), WantedOf(given.parts, ep_env.ep_env))
  <2>1. given.parts \in Seq(Parts)
    BY LimitTyped
  <2>2. ASSUME UnderwayNow
        PROVE  E!IsPrefix(ran, all) /\ (todo = <<>> /\ ~ate => ran = all)
    BY <2>1, <2>2, UnderwayMeans DEF UnderwayNow
  <2>3. step \in {"parts", "program"} => UnderwayNow
    BY DEF PartsInv, EType
  <2>4. step = "program" => todo = <<>>
    BY DEF PartsInv, EType
  <2> QED BY <2>2, <2>3, <2>4 DEF PartsInTurn, E!PartsInTurn, NamesOf, WantedOf
<1> QED BY <1>1, PartsInvariance, PTL
-----------------------------------------------------------------------------
(* The CPUs of a container. *)

\* What the first process with k2env.so finds and leaves, what it leaves in
\* the file, and what others find.
FirstLimit(c) == IF c.pid1 \/ c.file = 0 THEN c.limit ELSE c.file
OwnOf(c)      == Left(FirstLimit(c), Cpus(c.env))
FileOf(c)     == IF c.pid1 /\ c.writable THEN OwnOf(c).nproc ELSE c.file
FoundOf(c)    == IF FileOf(c) = 0 THEN c.limit ELSE FileOf(c)

LEMMA ContainerCpus ==
  ASSUME NEW c, E!IsContainer(c)
  PROVE  /\ Cpus(c.env) \in Env /\ FirstLimit(c) \in 0 .. CpuMax
         /\ OwnOf(c) \in Env /\ OwnOf(c).nproc \in 1 .. CpuMax
         /\ FileOf(c) \in 0 .. CpuMax /\ FoundOf(c) \in 0 .. CpuMax
<1>1. /\ c.env \in E!Environment /\ c.file \in 0 .. CpuMax /\ c.limit \in 0 .. CpuMax
      /\ c.pid1 \in BOOLEAN /\ c.writable \in BOOLEAN
  BY DEF E!IsContainer
<1>2. Cpus(c.env) \in Env /\ FirstLimit(c) \in 0 .. CpuMax
  BY <1>1, EnvParts DEF FirstLimit
<1>3. OwnOf(c) \in Env /\ OwnOf(c).nproc \in 1 .. CpuMax
  BY <1>2, LeftIsEnv DEF OwnOf
<1>4. OwnOf(c).nproc \in 0 .. CpuMax
  BY <1>3, CpuAssumption
<1> QED BY <1>1, <1>2, <1>3, <1>4 DEF FileOf, FoundOf

\* Those that come later find the same as the first, or what it has left.
LEMMA FoundLater ==
  ASSUME NEW c, E!IsContainer(c)
  PROVE  FoundOf(c) = FirstLimit(c) \/ (FoundOf(c) = OwnOf(c).nproc /\ FileOf(c) = OwnOf(c).nproc)
<1>1. OwnOf(c).nproc # 0
  BY ContainerCpus, CpuAssumption
<1>2. c.pid1 /\ ~c.writable => c.file = 0
  BY DEF E!IsContainer, E!Unset
<1> HIDE DEF OwnOf
<1> QED BY <1>1, <1>2 DEF FoundOf, FileOf, FirstLimit

\* A number that stands in the file is left, and nothing is forced.
LEMMA LeftAtFile ==
  ASSUME NEW n \in 1 .. CpuMax, NEW e \in Env, e.nproc = n
  PROVE  Left(n, e) = [nproc |-> n, kind |-> "normal"]
<1>1. Left(n, e).nproc = n
  BY FileDecides
<1>2. n \in Nat /\ n # 0 /\ e.kind \in {"normal", "force", "min"}
  BY CpuAssumption DEF Env, Kinds
<1>3. Asked(n, e) = n
  BY <1>2 DEF Asked, Larger
<1>4. ~Forces(n, e)
  BY <1>2, <1>3 DEF Forces
<1> QED BY <1>1, <1>4 DEF Left

IsOwn(c, e, f, one) ==
  \/ Cpus(e) = OwnOf(c)
  \/ ~one /\ f = OwnOf(c).nproc /\ Cpus(e) = [nproc |-> OwnOf(c).nproc, kind |-> "normal"]

IsSet == ep_file = FileOf(given) /\ IsOwn(given, ep_env, ep_file, pid1)

IsRaw ==
  /\ runs = 1 /\ image = "ep.sh" /\ step \in {"load", "check"}
  /\ ep_file = given.file /\ Cpus(ep_env) = Cpus(given.env)
  /\ step = "check" => ~E!Preloaded(ep_env)

CpuInv ==
  /\ runs = 1 => pid1 = given.pid1
  /\ runs > 1 => ~pid1
  /\ IsRaw \/ IsSet

LEMMA LimitIs ==
  ASSUME EType, CpuInv
  PROVE  /\ IsRaw => E!Limit = FirstLimit(given)
         /\ IsSet => \/ E!Limit = FirstLimit(given)
                     \/ E!Limit = OwnOf(given).nproc /\ ~pid1 /\ ep_file = OwnOf(given).nproc
<1>1. E!IsContainer(given) /\ runs \in Nat \ {0}
  BY LimitTyped DEF EType
<1>2. (runs = 1 /\ pid1 = given.pid1) \/ ~pid1
  BY <1>1 DEF CpuInv
<1>3. IsRaw => E!Limit = FirstLimit(given)
  BY DEF IsRaw, CpuInv, E!Limit, E!Found, E!Unset, FirstLimit
<1>4. ASSUME IsSet PROVE E!Found = FoundOf(given) /\ ep_file = FileOf(given)
  BY <1>4 DEF IsSet, E!Found, E!Unset, FoundOf
<1>5. CASE pid1
  <2>1. given.pid1
    BY <1>2, <1>5
  <2> QED BY <1>3, <1>5, <2>1 DEF E!Limit, FirstLimit
<1>6. CASE ~pid1
  <2>1. E!Limit = E!Found
    BY <1>6 DEF E!Limit
  <2> QED BY <1>1, <1>3, <1>4, <1>6, <2>1, FoundLater
<1>7. pid1 \in BOOLEAN
  BY DEF EType
<1> QED BY <1>5, <1>6, <1>7

LEMMA LoadSets ==
  ASSUME EType, CpuInv, E!Load, E!Preloaded(ep_env)
  PROVE  IsSet'
<1>1. E!IsContainer(given)
  BY LimitTyped
<1>2. /\ given' = given /\ pid1' = pid1 /\ Cpus(ep_env') = Left(E!Limit, Cpus(ep_env))
      /\ ep_file' = IF pid1 /\ given.writable THEN Left(E!Limit, Cpus(ep_env)).nproc ELSE ep_file
  BY LoadDoes DEF E!Load
<1>3. OwnOf(given) \in Env /\ OwnOf(given).nproc \in 1 .. CpuMax
  BY <1>1, ContainerCpus
<1> DEFINE mine == OwnOf(given)
           set == [nproc |-> mine.nproc, kind |-> "normal"]
<1>4. set \in Env /\ set.nproc = mine.nproc
  BY <1>3, CpuAssumption DEF Env, Kinds
<1>5. CASE IsRaw
  <2>1. Left(E!Limit, Cpus(ep_env)) = mine
    <3>1. E!Limit = FirstLimit(given) /\ Cpus(ep_env) = Cpus(given.env)
      BY <1>5, LimitIs DEF IsRaw
    <3> QED BY <3>1 DEF OwnOf
  <2>2. pid1 = given.pid1 /\ ep_file = given.file
    BY <1>5 DEF IsRaw, CpuInv
  <2> HIDE DEF mine
  <2>3. ep_file' = IF given.pid1 /\ given.writable THEN mine.nproc ELSE given.file
    BY <1>2, <2>1, <2>2
  <2> QED BY <1>2, <2>1, <2>3 DEF IsSet, IsOwn, FileOf, mine
<1>6. CASE IsSet
  <2>1. ep_file = FileOf(given)
    BY <1>6 DEF IsSet
  <2>2. \/ Left(E!Limit, Cpus(ep_env)) = mine
        \/ Left(E!Limit, Cpus(ep_env)) = set /\ ~pid1 /\ ep_file = mine.nproc
    <3>1. CASE Cpus(ep_env) = mine
      <4>1. CASE E!Limit = FirstLimit(given)
        <5>1. Left(FirstLimit(given), mine) = mine
          BY <1>1, ContainerCpus, LeftTwice DEF OwnOf
        <5> QED BY <3>1, <4>1, <5>1
      <4>2. CASE E!Limit = mine.nproc /\ ~pid1 /\ ep_file = mine.nproc
        <5>1. Left(mine.nproc, mine) = set
          BY <1>3, LeftAtFile
        <5> HIDE DEF mine, set
        <5> QED BY <3>1, <4>2, <5>1
      <4> QED BY <1>6, <4>1, <4>2, LimitIs
    <3>2. CASE ~pid1 /\ ep_file = mine.nproc /\ Cpus(ep_env) = set
      <4>1. E!Limit = mine.nproc
        <5>1. mine.nproc # 0
          BY <1>3, CpuAssumption
        <5> HIDE DEF mine
        <5> QED BY <3>2, <5>1 DEF E!Limit, E!Found, E!Unset
      <4>2. Left(mine.nproc, set) = set
        BY <1>3, <1>4, LeftAtFile
      <4> HIDE DEF mine, set
      <4> QED BY <3>2, <4>1, <4>2
    <3> QED BY <1>6, <3>1, <3>2 DEF IsSet, IsOwn
  <2>3. Left(E!Limit, Cpus(ep_env)).nproc = mine.nproc
    BY <2>2, <1>4
  <2>4. ep_file' = FileOf(given)
    <3>1. CASE pid1 /\ given.writable
      <4>1. pid1 = given.pid1
        <5>1. runs = 1
          BY <3>1 DEF CpuInv, EType
        <5> QED BY <5>1 DEF CpuInv
      <4> HIDE DEF mine
      <4> QED BY <1>2, <2>3, <3>1, <4>1 DEF FileOf, mine
    <3>2. CASE ~(pid1 /\ given.writable)
      BY <1>2, <2>1, <3>2
    <3> QED BY <3>1, <3>2
  <2>5. ASSUME ~pid1 PROVE ep_file' = ep_file
    BY <1>2, <2>5
  <2> HIDE DEF mine, set
  <2>6. \/ Cpus(ep_env') = mine
        \/ ~pid1' /\ ep_file' = mine.nproc /\ Cpus(ep_env') = set
    BY <1>2, <2>2, <2>5
  <2>7. IsOwn(given, ep_env', ep_file', pid1')
    BY <2>6 DEF IsOwn, mine, set
  <2> QED BY <1>2, <2>4, <2>7 DEF IsSet
<1> QED BY <1>5, <1>6 DEF CpuInv

LEMMA SetStays ==
  ASSUME IsSet, given' = given, ep_file' = ep_file, Cpus(ep_env') = Cpus(ep_env), pid1' = pid1 \/ pid1' = FALSE
  PROVE  IsSet'
BY DEF IsSet, IsOwn

LEMMA SetLate ==
  ASSUME EType, CpuInv, step = "parts" \/ image = "program" \/ runs > 1 PROVE IsSet
BY DEF CpuInv, IsRaw, EType

LEMMA CpuStep ==
  ASSUME EType, PreloadInv, CpuInv, E!ENext PROVE CpuInv'
<1>0. runs \in Nat \ {0}
  BY DEF EType
<1>1. ASSUME E!Load PROVE CpuInv'
  <2>1. given' = given /\ pid1' = pid1 /\ runs' = runs /\ image' = image
        /\ step' = (IF image = "ep.sh" THEN "check" ELSE "program")
    BY <1>1 DEF E!Load
  <2>2. CASE E!Preloaded(ep_env)
    BY <1>1, <2>1, <2>2, LoadSets DEF CpuInv
  <2>3. CASE ~E!Preloaded(ep_env)
    <3>1. Cpus(ep_env') = Cpus(ep_env) /\ ep_file' = ep_file /\ ep_env'.preload = ep_env.preload
      BY <1>1, <2>3, LoadDoes
    <3>2. IsRaw => IsRaw'
      BY <2>1, <2>3, <3>1 DEF IsRaw, E!Preloaded
    <3>3. IsSet => IsSet'
      BY <2>1, <3>1, SetStays
    <3> QED BY <2>1, <3>2, <3>3 DEF CpuInv
  <2> QED BY <2>2, <2>3
<1>2. ASSUME E!StartAgain PROVE CpuInv'
  <2>1. /\ given' = given /\ pid1' = pid1 /\ runs' = runs /\ image' = image /\ step' = "load"
        /\ ep_file' = ep_file /\ Cpus(ep_env') = Cpus(ep_env)
    BY <1>2, StartAgainDoes DEF E!StartAgain
  <2>2. IsRaw => IsRaw'
    BY <2>1 DEF IsRaw
  <2> QED BY <2>1, <2>2, SetStays DEF CpuInv
<1>3. ASSUME E!Setup PROVE CpuInv'
  <2>1. /\ given' = given /\ pid1' = pid1 /\ runs' = runs
        /\ ep_file' = ep_file /\ Cpus(ep_env') = Cpus(ep_env) /\ step = "check" /\ E!IsFirst(ep_env.preload)
    BY <1>3, SetupDoes DEF E!Setup
  <2>2. E!Preloaded(ep_env)
    BY <2>1, EnvParts, FirstIsPreloaded DEF EType
  <2>3. IsSet
    BY <2>1, <2>2 DEF CpuInv, IsRaw
  <2> QED BY <2>1, <2>3, SetStays DEF CpuInv
<1>4. ASSUME E!Arenas \/ E!Gomaxprocs \/ E!OmpThreadLimit \/ E!Foreign \/ E!RunPart \/ E!Become PROVE CpuInv'
  <2>1. /\ given' = given /\ pid1' = pid1 /\ runs' = runs /\ ep_file' = ep_file /\ step = "parts"
    BY <1>4 DEF E!Arenas, E!Gomaxprocs, E!OmpThreadLimit, E!Foreign, E!RunPart, E!Become, E!Next1, E!Sourced
  <2>2. Cpus(ep_env') = Cpus(ep_env)
    BY <1>4, ArenasDoes, GomaxprocsDoes, OmpDoes, ForeignDoes, RunPartDoes, BecomeDoes
  <2> QED BY <2>1, <2>2, SetLate, SetStays DEF CpuInv
<1>5. ASSUME E!RunAgain PROVE CpuInv'
  <2>1. /\ given' = given /\ pid1' = FALSE /\ runs' = runs + 1 /\ ep_file' = ep_file /\ ep_env' = ep_env
        /\ step = "program"
    BY <1>5 DEF E!RunAgain
  <2>2. image = "program"
    BY <2>1 DEF EType
  <2>3. IsSet
    BY <2>2, SetLate
  <2>4. IsSet'
    BY <2>1, <2>3, SetStays
  <2> QED BY <1>0, <2>1, <2>4 DEF CpuInv
<1>6. ASSUME E!Started PROVE CpuInv'
  BY <1>6 DEF E!Started, E!evars, CpuInv, IsRaw, IsSet, E!Preloaded
<1> QED BY <1>1, <1>2, <1>3, <1>4, <1>5, <1>6 DEF E!ENext
-----------------------------------------------------------------------------
(* Arenas and threads. *)

HasPart(parts, kind) == \E i \in DOMAIN parts : parts[i].kind = kind
HasKind(c, kind)     == HasPart(c.parts, kind)

\* A part of some kind has been done when others are left.
DoneKind(parts, left, kind) == \E i \in 1 .. Len(parts) - Len(left) : parts[i].kind = kind

\* It has been done, in this run or in the ones before.
Doing(kind) ==
  \/ step = "parts" /\ (DoneKind(given.parts, todo, kind) \/ (runs > 1 /\ HasKind(given, kind)))
  \/ step # "parts" /\ (image = "program" \/ runs > 1) /\ HasKind(given, kind)

LEMMA DoneMore ==
  ASSUME NEW parts \in Seq(Parts), NEW mode, NEW did, NEW left, NEW kind,
         Underway(parts, mode, did, left, FALSE)
  PROVE  left # <<>> =>
           (DoneKind(parts, Tail(left), kind) <=> DoneKind(parts, left, kind) \/ Head(left).kind = kind)
<1>1. PICK m \in 0 .. Len(parts) : DoneUpto(parts, mode, m, did, left, FALSE)
  BY DEF Underway
<1>2. left = SubSeq(parts, m + 1, Len(parts))
  BY <1>1 DEF DoneUpto
<1>3. ASSUME left # <<>>
      PROVE  DoneKind(parts, Tail(left), kind) <=> DoneKind(parts, left, kind) \/ Head(left).kind = kind
  <2>1. m < Len(parts) /\ m \in Nat
    BY <1>2, <1>3
  <2>2. /\ Len(left) = Len(parts) - m /\ left \in Seq(Parts) /\ Head(left) = parts[m + 1]
    BY <1>2, <2>1
  <2>5. Len(Tail(left)) = Len(left) - 1
    BY <1>3, <2>2
  <2>6. Len(parts) \in Nat
    OBVIOUS
  <2>3. Len(parts) - Len(left) = m /\ Len(parts) - Len(Tail(left)) = m + 1
    <3> DEFINE a == Len(left)
               n == Len(parts)
               t == Len(Tail(left))
    <3>1. a \in Nat /\ n \in Nat /\ a = n - m /\ t = a - 1 /\ m \in Nat /\ m < n
      BY <2>1, <2>2, <2>5, <2>6
    <3> HIDE DEF a, n, t
    <3>2. n - a = m /\ n - t = m + 1
      BY <3>1
    <3> QED BY <3>2 DEF a, n, t
  <2>4. \A i : i \in 1 .. m + 1 <=> i \in 1 .. m \/ i = m + 1
    BY <2>1
  <2> HIDE <1>2
  <2> QED BY <2>2, <2>3, <2>4 DEF DoneKind
<1> QED BY <1>3

LEMMA DoneEnds ==
  ASSUME NEW parts \in Seq(Parts), NEW kind
  PROVE  ~DoneKind(parts, parts, kind) /\ (DoneKind(parts, <<>>, kind) <=> HasPart(parts, kind))
BY DEF DoneKind, HasPart

LEMMA DoingStays ==
  ASSUME NEW kind, given' = given, runs' = runs, image' = image, step # "parts", step' # "parts"
  PROVE  Doing(kind)' <=> Doing(kind)
BY DEF Doing

LEMMA DoingMore ==
  ASSUME EType, PartsInv, NEW kind, given' = given, runs' = runs, image' = image, step = "parts", step' = "parts",
         todo # <<>>, todo' = Tail(todo), ~ate
  PROVE  Doing(kind)' <=> Doing(kind) \/ Head(todo).kind = kind
<1>1. ate = FALSE
  BY DEF EType
<1>2. Underway(given.parts, ep_env.ep_env, ran, todo, FALSE) /\ given.parts \in Seq(Parts)
  BY <1>1, LimitTyped DEF PartsInv, UnderwayNow
<1>3. DoneKind(given.parts, Tail(todo), kind) <=> DoneKind(given.parts, todo, kind) \/ Head(todo).kind = kind
  BY <1>2, DoneMore
<1> QED BY <1>3 DEF Doing

LEMMA DoneAll ==
  ASSUME EType, NEW kind
  PROVE  /\ DoneKind(given.parts, <<>>, kind) <=> HasKind(given, kind)
         /\ ~DoneKind(given.parts, given.parts, kind)
<1>1. given.parts \in Seq(Parts)
  BY LimitTyped
<1> QED BY <1>1, DoneEnds DEF HasKind

LEMMA DoingSetup ==
  ASSUME EType, NEW kind, E!Setup PROVE Doing(kind)' <=> Doing(kind)
<1>1. /\ given' = given /\ runs' = runs /\ image' = image /\ image = "ep.sh" /\ step = "check" /\ step' = "parts"
      /\ todo' = given.parts
  BY DEF E!Setup, EType
<1>2. ~DoneKind(given.parts, given.parts, kind)
  BY DoneAll
<1> QED BY <1>1, <1>2 DEF Doing

LEMMA DoingBecome ==
  ASSUME EType, NEW kind, E!Become PROVE Doing(kind)' <=> Doing(kind)
<1>1. /\ given' = given /\ runs' = runs /\ image' = "program" /\ step = "parts" /\ step' = "load" /\ todo = <<>>
  BY DEF E!Become
<1>2. DoneKind(given.parts, <<>>, kind) <=> HasKind(given, kind)
  BY DoneAll
<1> QED BY <1>1, <1>2 DEF Doing

LEMMA DoingAgain ==
  ASSUME EType, NEW kind, E!RunAgain PROVE Doing(kind)' <=> Doing(kind)
<1>1. /\ given' = given /\ runs' > 1 /\ image = "program" /\ step = "program" /\ step' = "load"
  BY DEF E!RunAgain, EType
<1> QED BY <1>1 DEF Doing

-----------------------------------------------------------------------------
\* What the user has set, or 2, and what the program has when that part is done.
GivenArenas(c) == IF c.env.arenas = 0 THEN 2 ELSE c.env.arenas
UserArenas(c)  == IF E!IsNumber(c.env.arenas) THEN c.env.arenas ELSE 2
ArenasOf(c, d) == IF d THEN Larger(UserArenas(c), OwnOf(c).nproc) ELSE GivenArenas(c)

ArenaInv ==
  /\ step = "parts" => ep_env.arenas = 2
  /\ ~ate =>
       /\ image = "ep.sh" /\ step # "parts" =>
            ep_env.arenas = IF runs > 1 THEN ArenasOf(given, Doing("arenas")) ELSE given.env.arenas
       /\ step = "parts" \/ image = "program" => kept = ArenasOf(given, Doing("arenas"))
       /\ image = "program" => ep_env.arenas = kept

LEMMA ArenasNumber ==
  ASSUME NEW c, E!IsContainer(c), NEW d \in BOOLEAN
  PROVE  /\ ArenasOf(c, d) \in {-1} \cup (Nat \ {0})
         /\ E!ArenasFor(ArenasOf(c, d), OwnOf(c).nproc) = ArenasOf(c, TRUE)
<1>1. c.env.arenas \in {-1} \cup Nat
  BY EnvParts DEF E!IsContainer
<1>2. OwnOf(c).nproc \in Nat /\ OwnOf(c).nproc >= 1
  BY ContainerCpus, CpuAssumption
<1> DEFINE n == OwnOf(c).nproc
           a == c.env.arenas
<1>3. n \in Nat /\ n >= 1 /\ a \in {-1} \cup Nat
  BY <1>1, <1>2
<1>4. /\ UserArenas(c) = (IF a # 0 /\ a # -1 THEN a ELSE 2) /\ GivenArenas(c) = (IF a = 0 THEN 2 ELSE a)
      /\ \A v : ArenasOf(c, v) = IF v THEN (IF UserArenas(c) < n THEN n ELSE UserArenas(c)) ELSE GivenArenas(c)
      /\ \A v : E!ArenasFor(v, n) = IF (IF v = -1 THEN 2 ELSE v) < n THEN n ELSE (IF v = -1 THEN 2 ELSE v)
  BY DEF UserArenas, GivenArenas, ArenasOf, E!IsNumber, E!Unset, E!Nonsense, E!ArenasFor, E!Larger, Larger
<1> HIDE DEF n, a
<1>5. UserArenas(c) \in Nat \ {0} /\ GivenArenas(c) \in {-1} \cup (Nat \ {0})
  BY <1>3, <1>4
<1>6. UserArenas(c) = IF GivenArenas(c) = -1 THEN 2 ELSE GivenArenas(c)
  BY <1>3, <1>4
<1>7. ArenasOf(c, d) \in {-1} \cup (Nat \ {0})
  BY <1>3, <1>4, <1>5
<1>8. CASE d
  <2>1. ArenasOf(c, d) = IF UserArenas(c) < n THEN n ELSE UserArenas(c)
    BY <1>4, <1>8
  <2>2. ArenasOf(c, d) \in Nat /\ ArenasOf(c, d) >= n
    BY <1>3, <1>5, <2>1
  <2>3. E!ArenasFor(ArenasOf(c, d), n) = ArenasOf(c, d)
    BY <1>3, <1>4, <2>2
  <2>4. ArenasOf(c, TRUE) = ArenasOf(c, d)
    BY <1>4, <2>1
  <2> QED BY <1>7, <2>3, <2>4 DEF n
<1>9. CASE ~d
  <2>1. ArenasOf(c, d) = GivenArenas(c)
    BY <1>4, <1>9
  <2>2. E!ArenasFor(GivenArenas(c), n) = IF UserArenas(c) < n THEN n ELSE UserArenas(c)
    BY <1>4, <1>6
  <2> QED BY <1>4, <1>7, <2>1, <2>2 DEF n
<1> QED BY <1>8, <1>9

LEMMA ArenaStays ==
  ASSUME ArenaInv, given' = given, runs' = runs, image' = image, step' = step \/ (step # "parts" /\ step' # "parts"),
         ep_env'.arenas = ep_env.arenas, kept' = kept, ate => ate', ~ate' => (Doing("arenas")' <=> Doing("arenas"))
  PROVE  ArenaInv'
BY DEF ArenaInv, ArenasOf
LEMMA SetMeans ==
  ASSUME EType, IsSet
  PROVE  /\ ep_env.nproc = OwnOf(given).nproc
         /\ given.env.kind = "normal" => ep_env.kind = "normal" /\ Cpus(ep_env) = OwnOf(given)
         /\ E!Found = FoundOf(given)
<1>1. E!IsContainer(given)
  BY LimitTyped
<1>2. given.env.kind = "normal" => OwnOf(given).kind = "normal"
  <2>1. FirstLimit(given) \in 0 .. CpuMax /\ Cpus(given.env) \in Env /\ Cpus(given.env).kind = given.env.kind
    BY <1>1, ContainerCpus DEF Cpus
  <2> QED BY <2>1, NormalStays DEF OwnOf
<1>3. E!Found = FoundOf(given)
  BY DEF IsSet, E!Found, E!Unset, FoundOf
<1>4. OwnOf(given) = [nproc |-> OwnOf(given).nproc, kind |-> OwnOf(given).kind]
  BY <1>1, ContainerCpus DEF Env
<1>5. Cpus(ep_env).nproc = ep_env.nproc /\ Cpus(ep_env).kind = ep_env.kind
  BY DEF Cpus
<1>6. Cpus(ep_env).nproc = OwnOf(given).nproc /\ (given.env.kind = "normal" => Cpus(ep_env).kind = "normal")
  BY <1>2 DEF IsSet, IsOwn
<1>7. given.env.kind = "normal" => Cpus(ep_env) = OwnOf(given)
  BY <1>2, <1>4 DEF IsSet, IsOwn
<1> QED BY <1>3, <1>5, <1>6, <1>7

\* Which part is done says nothing about parts of another kind.
LEMMA OtherKind ==
  ASSUME EType, PartsInv, NEW kind, given' = given, runs' = runs, image' = image, step = "parts", step' = "parts",
         todo # <<>>, Head(todo).kind # kind, (todo' = Tail(todo) /\ ate' = ate) \/ (todo' = <<>> /\ ate' = TRUE)
  PROVE  (ate => ate') /\ (~ate' => (Doing(kind)' <=> Doing(kind)))
<1>1. CASE todo' = Tail(todo) /\ ate' = ate
  <2>1. CASE ate
    BY <1>1, <2>1
  <2>2. CASE ~ate
    <3>1. Doing(kind)' <=> Doing(kind) \/ Head(todo).kind = kind
      BY <1>1, <2>2, DoingMore
    <3> QED BY <1>1, <3>1
  <2> QED BY <2>1, <2>2
<1>2. CASE todo' = <<>> /\ ate' = TRUE
  BY <1>2
<1> QED BY <1>1, <1>2

\* What holds of every step at the list of parts.
LEMMA PartAction ==
  ASSUME EType, E!Arenas \/ E!Gomaxprocs \/ E!OmpThreadLimit \/ E!Foreign \/ E!RunPart
  PROVE  /\ given' = given /\ runs' = runs /\ image' = image /\ step = "parts" /\ step' = "parts" /\ todo # <<>>
         /\ pid1' = pid1 /\ before' = before /\ image = "ep.sh"
         /\ (todo' = Tail(todo) /\ ate' = ate) \/ (todo' = <<>> /\ ate' = TRUE)
         /\ ep_env'.ep_env = ep_env.ep_env
         /\ touched => touched'
<1>1. /\ given' = given /\ runs' = runs /\ image' = image /\ step = "parts" /\ step' = "parts" /\ todo # <<>>
      /\ pid1' = pid1 /\ before' = before
  BY DEF E!Arenas, E!Gomaxprocs, E!OmpThreadLimit, E!Foreign, E!RunPart, E!Next1, E!Sourced
<1>2. (todo' = Tail(todo) /\ ate' = ate) \/ (todo' = <<>> /\ ate' = TRUE)
  <2>1. CASE E!Arenas \/ E!Gomaxprocs \/ E!OmpThreadLimit
    BY <2>1 DEF E!Arenas, E!Gomaxprocs, E!OmpThreadLimit, E!Sourced
  <2>2. CASE E!Foreign
    BY <2>2, ForeignDoes
  <2>3. CASE E!RunPart
    BY <2>3, RunPartDoes
  <2> QED BY <2>1, <2>2, <2>3
<1>3. ep_env'.ep_env = ep_env.ep_env
  BY ArenasDoes, GomaxprocsDoes, OmpDoes, ForeignDoes, RunPartDoes
<1>4. touched => touched'
  <2>1. CASE E!Foreign
    BY <2>1, ForeignDoes
  <2>2. CASE ~E!Foreign
    BY <2>2 DEF E!Arenas, E!Gomaxprocs, E!OmpThreadLimit, E!RunPart
  <2> QED BY <2>1, <2>2
<1>5. image = "ep.sh"
  BY <1>1 DEF EType
<1> QED BY <1>1, <1>2, <1>3, <1>4, <1>5

LEMMA ArenaStep ==
  ASSUME EType, PartsInv, CpuInv, ArenaInv, E!ENext
  PROVE  ArenaInv'
<1>0. E!IsContainer(given) /\ ate \in BOOLEAN /\ \A d \in BOOLEAN :
        /\ ArenasOf(given, d) \in {-1} \cup (Nat \ {0})
        /\ E!ArenasFor(ArenasOf(given, d), OwnOf(given).nproc) = ArenasOf(given, TRUE)
  BY LimitTyped, ArenasNumber DEF EType
<1>a. Doing("arenas") \in BOOLEAN
  BY DEF Doing
<1>1. ASSUME E!Load PROVE ArenaInv'
  <2>1. /\ given' = given /\ runs' = runs /\ image' = image /\ step # "parts" /\ step' # "parts"
        /\ ep_env'.arenas = ep_env.arenas /\ kept' = kept /\ ate' = ate
    BY <1>1, LoadDoes DEF E!Load
  <2>2. Doing("arenas")' <=> Doing("arenas")
    BY <2>1, DoingStays
  <2> QED BY <2>1, <2>2, ArenaStays
<1>2. ASSUME E!StartAgain PROVE ArenaInv'
  <2>1. /\ given' = given /\ runs' = runs /\ image' = image /\ step # "parts" /\ step' # "parts"
        /\ ep_env'.arenas = ep_env.arenas /\ kept' = kept /\ ate' = ate
    BY <1>2, StartAgainDoes DEF E!StartAgain
  <2>2. Doing("arenas")' <=> Doing("arenas")
    BY <2>1, DoingStays
  <2> QED BY <2>1, <2>2, ArenaStays
<1>3. ASSUME E!Setup PROVE ArenaInv'
  <2>1. /\ given' = given /\ runs' = runs /\ image' = image /\ image = "ep.sh" /\ step = "check" /\ step' = "parts"
        /\ ep_env'.arenas = 2 /\ kept' = (IF ep_env.arenas = 0 THEN 2 ELSE ep_env.arenas) /\ ate' = ate
    BY <1>3, SetupDoes DEF E!Setup, E!Unset, EType
  <2>2. Doing("arenas")' <=> Doing("arenas")
    BY <1>3, DoingSetup
  <2>3. ASSUME ~ate PROVE kept' = ArenasOf(given, Doing("arenas"))
    <3>1. CASE runs > 1
      <4>1. ep_env.arenas = ArenasOf(given, Doing("arenas"))
        BY <2>1, <2>3, <3>1 DEF ArenaInv
      <4>2. ArenasOf(given, Doing("arenas")) # 0
        <5>1. ArenasOf(given, Doing("arenas")) \in {-1} \cup (Nat \ {0})
          BY <1>0, <1>a, ArenasNumber
        <5> HIDE <1>0
        <5> QED BY <5>1
      <4> QED BY <2>1, <4>1, <4>2
    <3>2. CASE ~(runs > 1)
      <4>1. ep_env.arenas = given.env.arenas
        BY <2>1, <2>3, <3>2 DEF ArenaInv
      <4>2. ~Doing("arenas")
        BY <2>1, <3>2 DEF Doing
      <4> QED BY <2>1, <4>1, <4>2 DEF ArenasOf, GivenArenas
    <3> QED BY <3>1, <3>2
  <2>4. ASSUME ~ate PROVE kept' = ArenasOf(given', Doing("arenas")')
    BY <2>1, <2>2, <2>3, <2>4 DEF ArenasOf
  <2> QED BY <2>1, <2>4 DEF ArenaInv
<1>4. ASSUME E!Arenas PROVE ArenaInv'
  <2>1. /\ given' = given /\ runs' = runs /\ image' = image /\ step = "parts" /\ step' = "parts" /\ todo # <<>>
        /\ image = "ep.sh"
    BY <1>4, PartAction
  <2>2. /\ todo' = Tail(todo) /\ ate' = ate /\ kept' = E!ArenasFor(kept, ep_env.nproc)
        /\ Head(todo).kind = "arenas"
    BY <1>4 DEF E!Arenas, E!Next1, E!Sourced
  <2>3. ep_env'.arenas = 2
    BY <1>4, ArenasDoes
  <2>4. ASSUME ~ate PROVE kept' = ArenasOf(given', Doing("arenas")')
    <3>1. Doing("arenas")' = TRUE
      <4>1. Doing("arenas")' <=> Doing("arenas") \/ Head(todo).kind = "arenas"
        BY <2>1, <2>2, <2>4, DoingMore
      <4> QED BY <2>2, <4>1 DEF Doing
    <3>2. kept = ArenasOf(given, Doing("arenas"))
      BY <2>1, <2>4 DEF ArenaInv
    <3>3. ep_env.nproc = OwnOf(given).nproc
      BY <2>1, SetLate, SetMeans
    <3>4. E!ArenasFor(kept, ep_env.nproc) = ArenasOf(given, TRUE)
      BY <1>0, <1>a, <3>2, <3>3
    <3> QED BY <2>1, <2>2, <3>1, <3>4
  <2> QED BY <2>1, <2>2, <2>3, <2>4 DEF ArenaInv
<1>5. ASSUME E!Gomaxprocs \/ E!OmpThreadLimit \/ E!Foreign \/ E!RunPart PROVE ArenaInv'
  <2>1. /\ given' = given /\ runs' = runs /\ image' = image /\ step = "parts" /\ step' = "parts" /\ todo # <<>>
        /\ (todo' = Tail(todo) /\ ate' = ate) \/ (todo' = <<>> /\ ate' = TRUE)
    BY <1>5, PartAction
  <2>2. kept' = kept /\ Head(todo).kind # "arenas"
    BY <1>5, RunPartDoes DEF E!Gomaxprocs, E!OmpThreadLimit, E!Foreign, E!Next1
  <2>3. ep_env.arenas = 2
    BY <2>1 DEF ArenaInv
  <2>4. ep_env'.arenas = 2
    BY <1>5, <2>3, GomaxprocsDoes, OmpDoes, ForeignDoes, RunPartDoes
  <2>5. (ate => ate') /\ (~ate' => (Doing("arenas")' <=> Doing("arenas")))
    BY <2>1, <2>2, OtherKind
  <2> QED BY <2>1, <2>2, <2>3, <2>4, <2>5, ArenaStays
<1>6. ASSUME E!Become PROVE ArenaInv'
  <2>1. /\ given' = given /\ runs' = runs /\ image' = "program" /\ step = "parts" /\ step' = "load"
        /\ kept' = kept /\ ate' = ate /\ ep_env'.arenas = kept
    BY <1>6, BecomeDoes DEF E!Become
  <2>2. Doing("arenas")' <=> Doing("arenas")
    BY <1>6, DoingBecome
  <2>3. ASSUME ~ate PROVE kept = ArenasOf(given', Doing("arenas")')
    BY <2>1, <2>2, <2>3 DEF ArenaInv, ArenasOf
  <2> QED BY <2>1, <2>3 DEF ArenaInv
<1>7. ASSUME E!RunAgain PROVE ArenaInv'
  <2>1. /\ given' = given /\ runs' > 1 /\ image' = "ep.sh" /\ image = "program" /\ step' = "load"
        /\ ate' = ate /\ ep_env' = ep_env
    BY <1>7 DEF E!RunAgain, EType
  <2>2. Doing("arenas")' <=> Doing("arenas")
    BY <1>7, DoingAgain
  <2>3. ASSUME ~ate PROVE ep_env.arenas = ArenasOf(given', Doing("arenas")')
    BY <2>1, <2>2, <2>3 DEF ArenaInv, ArenasOf
  <2> QED BY <2>1, <2>3 DEF ArenaInv
<1>8. ASSUME E!Started PROVE ArenaInv'
  BY <1>8 DEF E!Started, E!evars, ArenaInv, Doing
<1> QED BY <1>1, <1>2, <1>3, <1>4, <1>5, <1>6, <1>7, <1>8 DEF E!ENext
-----------------------------------------------------------------------------
\* How many threads, where nothing is forced and some number is set, and what
\* the variable holds then, its part done or not.
Number(n)           == [nproc |-> IF n = -1 THEN 0 ELSE n, kind |-> "normal"]
ThreadsMeant(c, n)  == IF n = 0 THEN OwnOf(c).nproc ELSE Left(FoundOf(c), Number(n)).nproc
ThreadsOf(c, d, n)  == IF d THEN ThreadsMeant(c, n) ELSE n

ThreadInv ==
  E!Free =>
    /\ ep_env.force_gomaxprocs = 0
    /\ ep_env.gomaxprocs = ThreadsOf(given, Doing("gomaxprocs"), given.env.gomaxprocs)
    /\ ep_env.omp = ThreadsOf(given, Doing("omp"), given.env.omp)

LEMMA NumberTyped ==
  ASSUME NEW n \in {-1} \cup 0 .. CpuMax
  PROVE  Number(n) \in Env /\ Number(n).kind = "normal"
BY CpuAssumption DEF Number, Env, Kinds

LEMMA MeantTwice ==
  ASSUME NEW c, E!IsContainer(c), c.env.kind = "normal", NEW n \in {-1} \cup 0 .. CpuMax
  PROVE  /\ ThreadsMeant(c, n) \in 1 .. CpuMax
         /\ ThreadsMeant(c, ThreadsMeant(c, n)) = ThreadsMeant(c, n)
<1> DEFINE t == ThreadsMeant(c, n)
           left == Left(FoundOf(c), Number(n))
<1>1. FoundOf(c) \in 0 .. CpuMax /\ OwnOf(c).nproc \in 1 .. CpuMax /\ Number(n) \in Env /\ OwnOf(c) \in Env
  BY ContainerCpus, NumberTyped
<1>2. left \in Env /\ left.nproc \in 1 .. CpuMax /\ left.kind = "normal"
  BY <1>1, LeftIsEnv, NormalStays, NumberTyped
<1>3. t \in 1 .. CpuMax
  <2> HIDE DEF left
  <2>1. t = IF n = 0 THEN OwnOf(c).nproc ELSE left.nproc
    BY DEF ThreadsMeant, left
  <2> HIDE DEF t
  <2> QED BY <1>1, <1>2, <2>1
<1>4. t # 0 /\ t # -1
  BY <1>3, CpuAssumption
<1>5. Number(t) = [nproc |-> t, kind |-> "normal"]
  BY <1>4 DEF Number
<1>6. ThreadsMeant(c, t) = Left(FoundOf(c), Number(t)).nproc
  BY <1>4 DEF ThreadsMeant
<1>7. CASE n # 0
  <2>1. t = left.nproc
    BY <1>7 DEF ThreadsMeant
  <2>2. Number(t) = left
    <3>1. left = [nproc |-> left.nproc, kind |-> left.kind]
      BY <1>2 DEF Env
    <3> HIDE DEF left, t
    <3> QED BY <1>2, <1>5, <2>1, <3>1
  <2>3. Left(FoundOf(c), left) = left
    BY <1>1, LeftTwice
  <2> HIDE DEF left, t
  <2> QED BY <1>3, <1>6, <2>1, <2>2, <2>3 DEF t
<1>8. CASE n = 0
  <2>1. t = OwnOf(c).nproc
    BY <1>8 DEF ThreadsMeant
  <2>2. FirstLimit(c) \in 0 .. CpuMax /\ Cpus(c.env) \in Env /\ Cpus(c.env).kind = "normal"
    BY ContainerCpus DEF Cpus
  <2>3. OwnOf(c).kind = "normal"
    BY <2>2, NormalStays DEF OwnOf
  <2>4. Number(t) = OwnOf(c)
    <3>1. OwnOf(c) = [nproc |-> OwnOf(c).nproc, kind |-> OwnOf(c).kind]
      BY <1>1 DEF Env
    <3> HIDE DEF t
    <3> QED BY <1>5, <2>1, <2>3, <3>1
  <2>5. Left(FoundOf(c), OwnOf(c)).nproc = OwnOf(c).nproc
    <3>1. CASE FoundOf(c) = FirstLimit(c)
      <4>1. Left(FirstLimit(c), OwnOf(c)) = OwnOf(c)
        BY <2>2, LeftTwice DEF OwnOf
      <4> QED BY <3>1, <4>1
    <3>2. CASE FoundOf(c) = OwnOf(c).nproc
      <4>1. Left(OwnOf(c).nproc, OwnOf(c)).nproc = OwnOf(c).nproc
        BY <1>1, FileDecides
      <4> QED BY <3>2, <4>1
    <3> QED BY <3>1, <3>2, FoundLater
  <2> HIDE DEF t
  <2> QED BY <1>3, <1>6, <2>1, <2>4, <2>5 DEF t
<1> QED BY <1>7, <1>8

LEMMA WorkedIs ==
  ASSUME EType, PreloadInv, CpuInv, step = "parts", given.env.kind = "normal", NEW n \in {-1} \cup 0 .. CpuMax
  PROVE  Worked(n, 0) = ThreadsMeant(given, n)
<1>1. E!Preloaded(ep_env)
  <2>1. ep_env.preload \in LdPreload /\ E!IsFirst(ep_env.preload)
    BY EnvParts DEF EType, PreloadInv, Late, First
  <2> QED BY <2>1, FirstIsPreloaded
<1>2. ep_env.nproc = OwnOf(given).nproc /\ ep_env.kind = "normal" /\ E!Found = FoundOf(given)
  BY SetLate, SetMeans
<1>3. Number(n) \in Env /\ E!Found \in 0 .. CpuMax
  BY NumberTyped, LimitTyped
<1>4. E!NprocSays(ep_env, n) = Left(E!Found, Number(n)).nproc
  <2>1. Number(n) = [nproc |-> IF n = E!Nonsense THEN E!Unset ELSE n, kind |-> ep_env.kind]
    BY <1>2 DEF Number, E!Nonsense, E!Unset
  <2>2. E!NprocSays(ep_env, n) = Count(E!Found, Left(E!Found, Number(n)))
    BY <1>1, <2>1, SameCounts DEF E!NprocSays
  <2>3. Count(E!Found, Left(E!Found, Number(n))) = Left(E!Found, Left(E!Found, Number(n))).nproc
    BY DEF Left
  <2>4. Left(E!Found, Left(E!Found, Number(n))) = Left(E!Found, Number(n))
    BY <1>3, LeftTwice
  <2> QED BY <2>2, <2>3, <2>4
<1> QED BY <1>2, <1>4 DEF Worked, E!ThreadsFor, E!Unset, ThreadsMeant

LEMMA ThreadsAgain ==
  ASSUME NEW c, E!IsContainer(c), c.env.kind = "normal", NEW n \in {-1} \cup 0 .. CpuMax, NEW d \in BOOLEAN
  PROVE  /\ ThreadsOf(c, d, n) \in {-1} \cup 0 .. CpuMax
         /\ ThreadsMeant(c, ThreadsOf(c, d, n)) = ThreadsOf(c, TRUE, n)
<1>1. ThreadsMeant(c, n) \in 1 .. CpuMax /\ ThreadsMeant(c, ThreadsMeant(c, n)) = ThreadsMeant(c, n)
  BY MeantTwice
<1> QED BY <1>1, CpuAssumption DEF ThreadsOf

LEMMA FreeStays ==
  ASSUME EType, given' = given, touched => touched', ate => ate'
  PROVE  E!Free' => E!Free /\ ~touched' /\ ~ate'
BY DEF E!Free

LEMMA ThreadStays ==
  ASSUME EType, ThreadInv, given' = given, touched => touched', ate => ate',
         ~touched' => AlikeThreads(ep_env, ep_env'),
         ~ate' => (Doing("gomaxprocs")' <=> Doing("gomaxprocs")), ~ate' => (Doing("omp")' <=> Doing("omp"))
  PROVE  ThreadInv'
<1> SUFFICES ASSUME E!Free'
             PROVE  /\ ep_env'.force_gomaxprocs = 0
                    /\ ep_env'.gomaxprocs = ThreadsOf(given', Doing("gomaxprocs")', given'.env.gomaxprocs)
                    /\ ep_env'.omp = ThreadsOf(given', Doing("omp")', given'.env.omp)
  BY DEF ThreadInv
<1>1. E!Free /\ ~touched' /\ ~ate'
  BY FreeStays
<1> QED BY <1>1 DEF ThreadInv, ThreadsOf, AlikeThreads

LEMMA ThreadStep ==
  ASSUME EType, PreloadInv, PartsInv, CpuInv, ThreadInv, E!ENext
  PROVE  ThreadInv'
<1>0. E!IsContainer(given) /\ given.env.gomaxprocs \in {-1} \cup 0 .. CpuMax /\ given.env.omp \in {-1} \cup 0 .. CpuMax
      /\ Doing("gomaxprocs") \in BOOLEAN /\ Doing("omp") \in BOOLEAN
  BY LimitTyped, EnvParts DEF Doing
<1>1. ASSUME E!Load \/ E!StartAgain PROVE ThreadInv'
  <2>1. /\ given' = given /\ runs' = runs /\ image' = image /\ step # "parts" /\ step' # "parts"
        /\ ate' = ate /\ touched' = touched
    BY <1>1 DEF E!Load, E!StartAgain
  <2>2. AlikeThreads(ep_env, ep_env')
    BY <1>1, LoadDoes, StartAgainDoes
  <2>3. \A k : Doing(k)' <=> Doing(k)
    BY <2>1, DoingStays
  <2> QED BY <2>1, <2>2, <2>3, ThreadStays
<1>2. ASSUME E!Setup \/ E!Become \/ E!RunAgain PROVE ThreadInv'
  <2>1. given' = given /\ ate' = ate /\ touched' = touched
    BY <1>2 DEF E!Setup, E!Become, E!RunAgain
  <2>2. AlikeThreads(ep_env, ep_env')
    BY <1>2, SetupDoes, BecomeDoes, RunAgainDoes DEF AlikeThreads
  <2>3. \A k : Doing(k)' <=> Doing(k)
    BY <1>2, DoingSetup, DoingBecome, DoingAgain
  <2> QED BY <2>1, <2>2, <2>3, ThreadStays
<1>3. ASSUME E!Arenas \/ E!Foreign \/ E!RunPart PROVE ThreadInv'
  <2>1. /\ given' = given /\ runs' = runs /\ image' = image /\ step = "parts" /\ step' = "parts" /\ todo # <<>>
        /\ (todo' = Tail(todo) /\ ate' = ate) \/ (todo' = <<>> /\ ate' = TRUE)
        /\ touched => touched'
    BY <1>3, PartAction
  <2>2. Head(todo).kind # "gomaxprocs" /\ Head(todo).kind # "omp"
    BY <1>3, RunPartDoes DEF E!Arenas, E!Foreign, E!Next1
  <2>3. ~touched' => AlikeThreads(ep_env, ep_env')
    BY <1>3, ArenasDoes, ForeignDoes, RunPartDoes DEF AlikeThreads
  <2>4. (ate => ate') /\ (~ate' => (Doing("gomaxprocs")' <=> Doing("gomaxprocs")))
    BY <2>1, <2>2, OtherKind
  <2>5. (ate => ate') /\ (~ate' => (Doing("omp")' <=> Doing("omp")))
    BY <2>1, <2>2, OtherKind
  <2> QED BY <2>1, <2>3, <2>4, <2>5, ThreadStays
<1>4. ASSUME E!Gomaxprocs \/ E!OmpThreadLimit, E!Free' PROVE ThreadInv'
  <2>1. /\ given' = given /\ runs' = runs /\ image' = image /\ step = "parts" /\ step' = "parts" /\ todo # <<>>
        /\ (todo' = Tail(todo) /\ ate' = ate) \/ (todo' = <<>> /\ ate' = TRUE)
    BY <1>4, PartAction
  <2>2. touched' = touched /\ ate' = ate /\ todo' = Tail(todo)
    BY <1>4 DEF E!Gomaxprocs, E!OmpThreadLimit, E!Sourced
  <2>3. E!Free /\ ~ate
    BY <1>4, <2>1, <2>2, FreeStays
  <2>4. given.env.kind = "normal"
    BY <2>3 DEF E!Free
  <2>5. /\ ep_env.force_gomaxprocs = 0
        /\ ep_env.gomaxprocs = ThreadsOf(given, Doing("gomaxprocs"), given.env.gomaxprocs)
        /\ ep_env.omp = ThreadsOf(given, Doing("omp"), given.env.omp)
    BY <2>3 DEF ThreadInv
  <2> DEFINE G == Doing("gomaxprocs")
             O == Doing("omp")
  <2> HIDE DEF G, O
  <2>a. G \in BOOLEAN /\ O \in BOOLEAN
    BY <1>0 DEF G, O
  <2>6. /\ ThreadsMeant(given, ep_env.gomaxprocs) = ThreadsOf(given, TRUE, given.env.gomaxprocs)
        /\ ep_env.gomaxprocs \in {-1} \cup 0 .. CpuMax
    <3>1. /\ ThreadsOf(given, G, given.env.gomaxprocs) \in {-1} \cup 0 .. CpuMax
          /\ ThreadsMeant(given, ThreadsOf(given, G, given.env.gomaxprocs)) = ThreadsOf(given, TRUE, given.env.gomaxprocs)
      BY <1>0, <2>4, <2>a, ThreadsAgain
    <3> QED BY <2>5, <3>1 DEF G
  <2>7. /\ ThreadsMeant(given, ep_env.omp) = ThreadsOf(given, TRUE, given.env.omp)
        /\ ep_env.omp \in {-1} \cup 0 .. CpuMax
    <3>1. /\ ThreadsOf(given, O, given.env.omp) \in {-1} \cup 0 .. CpuMax
          /\ ThreadsMeant(given, ThreadsOf(given, O, given.env.omp)) = ThreadsOf(given, TRUE, given.env.omp)
      BY <1>0, <2>4, <2>a, ThreadsAgain
    <3> QED BY <2>5, <3>1 DEF O
  <2>8. CASE E!Gomaxprocs
    <3>1. Head(todo).kind = "gomaxprocs"
      BY <2>8 DEF E!Gomaxprocs, E!Next1
    <3>2. Doing("gomaxprocs")' = TRUE
      <4>1. Doing("gomaxprocs")' <=> Doing("gomaxprocs") \/ Head(todo).kind = "gomaxprocs"
        BY <2>1, <2>2, <2>3, DoingMore
      <4> QED BY <3>1, <4>1 DEF Doing
    <3>3. ~ate' => (Doing("omp")' <=> Doing("omp"))
      BY <2>1, <3>1, OtherKind
    <3>4. /\ ep_env'.gomaxprocs = Worked(ep_env.gomaxprocs, 0)
          /\ ep_env'.force_gomaxprocs = 0 /\ ep_env'.omp = ep_env.omp
      BY <2>5, <2>8, GomaxprocsDoes
    <3>5. ep_env'.gomaxprocs = ThreadsOf(given, TRUE, given.env.gomaxprocs)
      BY <2>1, <2>4, <2>6, <3>4, WorkedIs
    <3>6. ep_env'.omp = ThreadsOf(given', Doing("omp")', given'.env.omp)
      BY <2>1, <2>2, <2>3, <2>5, <3>3, <3>4 DEF ThreadsOf
    <3> QED BY <2>1, <3>2, <3>4, <3>5, <3>6 DEF ThreadInv
  <2>9. CASE E!OmpThreadLimit
    <3>1. Head(todo).kind = "omp"
      BY <2>9 DEF E!OmpThreadLimit, E!Next1
    <3>2. Doing("omp")' = TRUE
      <4>1. Doing("omp")' <=> Doing("omp") \/ Head(todo).kind = "omp"
        BY <2>1, <2>2, <2>3, DoingMore
      <4> QED BY <3>1, <4>1 DEF Doing
    <3>3. ~ate' => (Doing("gomaxprocs")' <=> Doing("gomaxprocs"))
      BY <2>1, <3>1, OtherKind
    <3>4. /\ ep_env'.omp = Worked(ep_env.omp, 0)
          /\ ep_env'.force_gomaxprocs = 0 /\ ep_env'.gomaxprocs = ep_env.gomaxprocs
      BY <2>5, <2>9, OmpDoes
    <3>5. ep_env'.omp = ThreadsOf(given, TRUE, given.env.omp)
      BY <2>1, <2>4, <2>7, <3>4, WorkedIs
    <3>6. ep_env'.gomaxprocs = ThreadsOf(given', Doing("gomaxprocs")', given'.env.gomaxprocs)
      BY <2>1, <2>2, <2>3, <2>5, <3>3, <3>4 DEF ThreadsOf
    <3> QED BY <2>1, <3>2, <3>4, <3>5, <3>6 DEF ThreadInv
  <2> QED BY <1>4, <2>8, <2>9
<1>5. ASSUME E!Gomaxprocs \/ E!OmpThreadLimit PROVE ThreadInv'
  BY <1>4, <1>5 DEF ThreadInv
<1>6. ASSUME E!Started PROVE ThreadInv'
  BY <1>6 DEF E!Started, E!evars, ThreadInv, Doing, E!Free
<1> QED BY <1>1, <1>2, <1>3, <1>5, <1>6 DEF E!ENext
-----------------------------------------------------------------------------
(* EP_ENV, and the environment that each program comes by. *)

ModeOf(c) ==
  IF c.env.ep_env # "unset" THEN c.env.ep_env ELSE IF c.command = "env" THEN "1" ELSE "0"

ModeInv ==
  /\ ep_env.ep_env \in {given.env.ep_env, ModeOf(given)}
  /\ Late => ep_env.ep_env = ModeOf(given)

FinalOf(c) ==
  [preload |-> E!EnforceK2env(c.env.preload), nproc |-> OwnOf(c).nproc, kind |-> "normal",
   arenas |-> ArenasOf(c, HasKind(c, "arenas")),
   gomaxprocs |-> ThreadsOf(c, HasKind(c, "gomaxprocs"), c.env.gomaxprocs),
   omp |-> ThreadsOf(c, HasKind(c, "omp"), c.env.omp), force_gomaxprocs |-> 0, ep_env |-> ModeOf(c)]

IsFinal(c, e) ==
  /\ e.preload = E!EnforceK2env(c.env.preload) /\ e.nproc = OwnOf(c).nproc /\ e.kind = "normal"
  /\ e.arenas = ArenasOf(c, HasKind(c, "arenas"))
  /\ e.gomaxprocs = ThreadsOf(c, HasKind(c, "gomaxprocs"), c.env.gomaxprocs)
  /\ e.omp = ThreadsOf(c, HasKind(c, "omp"), c.env.omp)
  /\ e.force_gomaxprocs = 0 /\ e.ep_env = ModeOf(c)

BeforeInv ==
  /\ before \in Seq(E!Environment)
  /\ E!Free => \A i \in DOMAIN before : before[i] = FinalOf(given)

LEMMA FinalIs ==
  ASSUME NEW c, NEW e \in E!Environment, IsFinal(c, e) PROVE e = FinalOf(c)
<1>1. e = [preload |-> e.preload, nproc |-> e.nproc, kind |-> e.kind, arenas |-> e.arenas,
           gomaxprocs |-> e.gomaxprocs, omp |-> e.omp, force_gomaxprocs |-> e.force_gomaxprocs,
           ep_env |-> e.ep_env]
  BY DEF E!Environment
<1> QED BY <1>1 DEF IsFinal, FinalOf

LEMMA ModeStep ==
  ASSUME EType, ModeInv, E!ENext PROVE ModeInv'
<1>1. ASSUME E!Load \/ E!StartAgain PROVE ModeInv'
  <2>1. /\ given' = given /\ runs' = runs /\ image' = image /\ step' # "parts"
    BY <1>1 DEF E!Load, E!StartAgain
  <2>2. ep_env'.ep_env = ep_env.ep_env
    BY <1>1, LoadDoes, StartAgainDoes
  <2> QED BY <2>1, <2>2 DEF ModeInv, Late
<1>2. ASSUME E!Setup PROVE ModeInv'
  <2>1. given' = given
    BY <1>2 DEF E!Setup
  <2>2. ep_env'.ep_env = IF ep_env.ep_env # "unset" THEN ep_env.ep_env
                         ELSE IF given.command = "env" THEN "1" ELSE "0"
    BY <1>2, SetupDoes
  <2>3. ep_env'.ep_env = ModeOf(given)
    BY <2>2 DEF ModeInv, ModeOf
  <2> QED BY <2>1, <2>3 DEF ModeInv
<1>3. ASSUME E!Arenas \/ E!Gomaxprocs \/ E!OmpThreadLimit \/ E!Foreign \/ E!RunPart PROVE ModeInv'
  BY <1>3, PartAction DEF ModeInv, Late
<1>4. ASSUME E!Become PROVE ModeInv'
  <2>1. given' = given /\ step = "parts" /\ ep_env'.ep_env = ep_env.ep_env
    BY <1>4, BecomeDoes DEF E!Become
  <2> QED BY <2>1 DEF ModeInv, Late
<1>5. ASSUME E!RunAgain PROVE ModeInv'
  <2>1. given' = given /\ image = "program" /\ ep_env' = ep_env
    BY <1>5 DEF E!RunAgain, EType
  <2> QED BY <2>1 DEF ModeInv, Late
<1>6. ASSUME E!Started PROVE ModeInv'
  BY <1>6 DEF E!Started, E!evars, ModeInv, Late
<1> QED BY <1>1, <1>2, <1>3, <1>4, <1>5, <1>6 DEF E!ENext

\* A program is started in the environment that the container determines.
LEMMA ProgramIsFinal ==
  ASSUME EType, PreloadInv, CpuInv, ArenaInv, ThreadInv, ModeInv, E!Free, image = "program", step # "parts"
  PROVE  IsFinal(given, ep_env)
<1>1. ~touched /\ ~ate /\ given.env.kind = "normal" /\ Late
  BY DEF E!Free, Late
<1>2. \A k : Doing(k) <=> HasKind(given, k)
  BY DEF Doing
<1>3. ep_env.preload = E!EnforceK2env(given.env.preload)
  BY <1>1, EnforcedTwice DEF PreloadInv, First
<1>4. ep_env.nproc = OwnOf(given).nproc /\ ep_env.kind = "normal"
  BY <1>1, SetLate, SetMeans
<1>5. ep_env.arenas = ArenasOf(given, HasKind(given, "arenas"))
  <2>1. Doing("arenas") <=> HasKind(given, "arenas")
    BY <1>2
  <2> QED BY <1>1, <2>1 DEF ArenaInv, ArenasOf
<1>6. /\ ep_env.gomaxprocs = ThreadsOf(given, HasKind(given, "gomaxprocs"), given.env.gomaxprocs)
      /\ ep_env.omp = ThreadsOf(given, HasKind(given, "omp"), given.env.omp)
      /\ ep_env.force_gomaxprocs = 0
  <2>1. (Doing("gomaxprocs") <=> HasKind(given, "gomaxprocs")) /\ (Doing("omp") <=> HasKind(given, "omp"))
    BY <1>2
  <2> QED BY <2>1 DEF ThreadInv, ThreadsOf
<1>7. ep_env.ep_env = ModeOf(given)
  BY <1>1 DEF ModeInv
<1> QED BY <1>3, <1>4, <1>5, <1>6, <1>7 DEF IsFinal

LEMMA BeforeStep ==
  ASSUME EType, PreloadInv, CpuInv, ArenaInv, ThreadInv, ModeInv, BeforeInv, E!ENext
  PROVE  BeforeInv'
<1>1. ASSUME E!Load, image = "program" PROVE BeforeInv'
  <2>1. /\ given' = given /\ touched' = touched /\ ate' = ate /\ before' = Append(before, ep_env')
        /\ step = "load"
    BY <1>1 DEF E!Load
  <2>2. /\ EType' /\ ep_env'.preload = ep_env.preload /\ ep_env'.arenas = ep_env.arenas
        /\ AlikeThreads(ep_env, ep_env') /\ ep_env'.ep_env = ep_env.ep_env
    BY <1>1, LoadDoes
  <2>3. ep_env' \in E!Environment /\ before \in Seq(E!Environment)
    BY <2>2 DEF EType, BeforeInv
  <2>4. ASSUME E!Free PROVE ep_env' = FinalOf(given)
    <3>1. IsFinal(given, ep_env)
      BY <1>1, <2>1, <2>4, ProgramIsFinal
    <3>2. ep_env'.nproc = ep_env.nproc /\ ep_env'.kind = ep_env.kind
      <4>1. /\ Cpus(ep_env) = OwnOf(given) /\ IsSet
        BY <1>1, <2>4, SetLate, SetMeans DEF E!Free
      <4>2. Cpus(ep_env') = Cpus(ep_env)
        <5>1. CASE E!Preloaded(ep_env)
          <6>1. IsSet' /\ OwnOf(given).kind = "normal"
            <7>1. Cpus(ep_env).kind = "normal"
              BY <3>1 DEF IsFinal, Cpus
            <7> QED BY <1>1, <4>1, <5>1, <7>1, LoadSets
          <6>2. OwnOf(given) = [nproc |-> OwnOf(given).nproc, kind |-> "normal"]
            BY <6>1, LimitTyped, ContainerCpus DEF Env
          <6> QED BY <2>1, <4>1, <6>1, <6>2 DEF IsSet, IsOwn
        <5>2. CASE ~E!Preloaded(ep_env)
          BY <1>1, <5>2, LoadDoes
        <5> QED BY <5>1, <5>2
      <4>3. Cpus(ep_env').nproc = Cpus(ep_env).nproc /\ Cpus(ep_env').kind = Cpus(ep_env).kind
        BY <4>2
      <4> QED BY <4>3 DEF Cpus
    <3>3. IsFinal(given, ep_env')
      BY <2>2, <3>1, <3>2 DEF IsFinal, AlikeThreads
    <3> QED BY <2>3, <3>3, FinalIs
  <2>5. E!Free' => E!Free
    BY <2>1 DEF E!Free
  <2>6. ASSUME E!Free, NEW i \in DOMAIN Append(before, ep_env')
        PROVE  Append(before, ep_env')[i] = FinalOf(given)
    <3>1. \A j \in DOMAIN before : before[j] = FinalOf(given)
      BY <2>6 DEF BeforeInv
    <3>2. i \in DOMAIN before \/ i = Len(before) + 1
      BY <2>3
    <3>3. CASE i \in DOMAIN before
      BY <2>3, <3>1, <3>3
    <3>4. CASE i = Len(before) + 1
      BY <2>3, <2>4, <2>6, <3>4
    <3> QED BY <3>2, <3>3, <3>4
  <2>7. Append(before, ep_env') \in Seq(E!Environment)
    BY <2>3
  <2> QED BY <2>1, <2>5, <2>6, <2>7 DEF BeforeInv
<1>2. ASSUME E!Load, image # "program" PROVE BeforeInv'
  <2>1. given' = given /\ touched' = touched /\ ate' = ate /\ before' = before
    BY <1>2 DEF E!Load, EType
  <2> QED BY <2>1 DEF BeforeInv, E!Free
<1>3. ASSUME E!StartAgain \/ E!Setup \/ E!Become \/ E!RunAgain PROVE BeforeInv'
  <2>1. given' = given /\ touched' = touched /\ ate' = ate /\ before' = before
    BY <1>3 DEF E!StartAgain, E!Setup, E!Become, E!RunAgain
  <2> QED BY <2>1 DEF BeforeInv, E!Free
<1>4. ASSUME E!Arenas \/ E!Gomaxprocs \/ E!OmpThreadLimit \/ E!Foreign \/ E!RunPart PROVE BeforeInv'
  <2>1. given' = given /\ (touched => touched') /\ before' = before
    BY <1>4, PartAction
  <2>2. (todo' = Tail(todo) /\ ate' = ate) \/ (todo' = <<>> /\ ate' = TRUE)
    BY <1>4, PartAction
  <2>3. ate => ate'
    BY <2>2
  <2> QED BY <2>1, <2>3, FreeStays DEF BeforeInv
<1>5. ASSUME E!Started PROVE BeforeInv'
  BY <1>5 DEF E!Started, E!evars, BeforeInv, E!Free
<1> QED BY <1>1, <1>2, <1>3, <1>4, <1>5 DEF E!ENext

NumbersInv == CpuInv /\ ArenaInv /\ ThreadInv /\ ModeInv /\ BeforeInv

LEMMA NumbersInit ==
  ASSUME EType, E!EInit PROVE NumbersInv
<1>1. /\ ep_env = given.env /\ ep_file = given.file /\ pid1 = given.pid1
      /\ image = "ep.sh" /\ step = "load" /\ runs = 1 /\ before = <<>>
  BY DEF E!EInit
<1>2. CpuInv
  BY <1>1 DEF CpuInv, IsRaw
<1>3. ArenaInv
  BY <1>1 DEF ArenaInv
<1>4. ThreadInv
  BY <1>1 DEF ThreadInv, Doing, ThreadsOf, E!Free, E!Unset
<1>5. ModeInv
  BY <1>1 DEF ModeInv, Late
<1>6. BeforeInv
  BY <1>1 DEF BeforeInv
<1> QED BY <1>2, <1>3, <1>4, <1>5, <1>6 DEF NumbersInv

LEMMA NumbersQuiet ==
  ASSUME NumbersInv, UNCHANGED (E!evars) PROVE NumbersInv'
BY DEF E!evars, NumbersInv, CpuInv, IsRaw, IsSet, E!Preloaded, ArenaInv, ThreadInv, ModeInv, BeforeInv, Late,
       Doing, E!Free

EntryAll == EType /\ PreloadInv /\ PartsInv /\ NumbersInv

LEMMA AllInvariance ==
  E!EntryAssumption /\ E!ESpec => []EntryAll
<1>1. EType /\ E!EInit => NumbersInv
  BY NumbersInit
<1>2. EType /\ PreloadInv /\ PartsInv /\ NumbersInv /\ [E!ENext]_(E!evars) => NumbersInv'
  <2> SUFFICES ASSUME EType, PreloadInv, PartsInv, NumbersInv, [E!ENext]_(E!evars) PROVE NumbersInv'
    OBVIOUS
  <2>1. CASE E!ENext
    BY <2>1, CpuStep, ArenaStep, ThreadStep, ModeStep, BeforeStep DEF NumbersInv
  <2>2. CASE UNCHANGED (E!evars)
    BY <2>2, NumbersQuiet
  <2> QED BY <2>1, <2>2
<1>3. PreloadAll <=> EType /\ PreloadInv
  BY DEF PreloadAll
<1>4. EntryAll <=> EType /\ PreloadInv /\ PartsInv /\ NumbersInv
  BY DEF EntryAll
<1> QED BY <1>1, <1>2, <1>3, <1>4, EntryInvariance, PartsInvariance, PTL DEF E!ESpec

\* Arenas and threads fit the CPUs of the program, whatever the user has set
\* and whatever parts there are besides (ep.d/00-default).
THEOREM ThreadsAndArenasFit == E!EntryAssumption /\ E!ESpec => []NumbersFit
<1>1. EntryAll => NumbersFit
  <2> SUFFICES ASSUME EType, PreloadInv, PartsInv, CpuInv, ArenaInv, ThreadInv PROVE E!ArenasKept /\ E!ThreadsFit
    BY DEF EntryAll, NumbersInv, NumbersFit, E!NumbersFit
  <2>0. E!IsContainer(given)
    BY LimitTyped
  <2>1. ASSUME step = "program"
        PROVE  /\ image = "program" /\ ep_env.nproc = OwnOf(given).nproc
               /\ E!Found = FoundOf(given)
               /\ \A k : Doing(k) <=> HasKind(given, k)
    BY <2>1, SetLate, SetMeans DEF EType, Doing
  <2>2. ASSUME step = "program", ~ate, HasKind(given, "arenas")
        PROVE  ep_env.arenas = Larger(UserArenas(given), ep_env.nproc)
    <3>1. Doing("arenas")
      BY <2>1, <2>2
    <3> QED BY <2>1, <2>2, <3>1 DEF ArenaInv, ArenasOf
  <2>3. E!ArenasKept
    BY <2>2, SameCounts DEF E!ArenasKept, UserArenas, HasKind, HasPart, ArenaInv
  <2>4. ASSUME NEW n \in {-1} \cup 0 .. CpuMax, step = "program", E!Known, given.env.kind = "normal"
        PROVE  ThreadsMeant(given, n) =
                 IF E!IsNumber(n) THEN E!Smaller(n, ep_env.nproc) ELSE ep_env.nproc
    <3> DEFINE c == ep_env.nproc
    <3>1. c \in 1 .. CpuMax /\ c = OwnOf(given).nproc /\ FoundOf(given) = c
      BY <2>0, <2>1, <2>4, ContainerCpus DEF E!Known
    <3> HIDE DEF c
    <3>2. ThreadsMeant(given, n) = IF n = 0 THEN c ELSE Left(c, Number(n)).nproc
      BY <3>1 DEF ThreadsMeant
    <3>3. Number(n) \in Env
      BY NumberTyped
    <3>4. CASE n = 0
      BY <3>2, <3>4 DEF E!IsNumber, E!Unset, c
    <3>5. CASE n = -1
      <4>1. Number(n).nproc = 0
        BY <3>5 DEF Number
      <4>2. Left(c, Number(n)).nproc = c
        BY <3>1, <3>3, <4>1, FileDecides
      <4> QED BY <3>2, <3>5, <4>2 DEF E!IsNumber, E!Nonsense, c
    <3>6. CASE n # 0 /\ n # -1
      <4>1. n \in Nat /\ n >= 1 /\ c \in Nat /\ c >= 1 /\ Number(n) = [nproc |-> n, kind |-> "normal"]
        BY <3>1, <3>6, CpuAssumption DEF Number
      <4>2. Asked(c, Number(n)) = n /\ ~Forces(c, Number(n))
        BY <4>1 DEF Asked, Forces
      <4>3. Left(c, Number(n)).nproc = Larger(1, MinPositive(c, n))
        BY <4>2 DEF Left, Count
      <4>4. Larger(1, MinPositive(c, n)) = Smaller(n, c)
        BY <4>1 DEF Larger, MinPositive, Smaller
      <4> QED BY <3>2, <3>6, <4>3, <4>4, SameCounts DEF E!IsNumber, E!Unset, E!Nonsense, c
    <3> QED BY <3>4, <3>5, <3>6
  <2>5. ASSUME step = "program", E!Free, E!Known
        PROVE  /\ HasKind(given, "gomaxprocs") => ep_env.gomaxprocs = ThreadsMeant(given, given.env.gomaxprocs)
               /\ HasKind(given, "omp") => ep_env.omp = ThreadsMeant(given, given.env.omp)
    BY <2>1, <2>5 DEF ThreadInv, ThreadsOf
  <2>6. given.env.gomaxprocs \in {-1} \cup 0 .. CpuMax /\ given.env.omp \in {-1} \cup 0 .. CpuMax
    BY LimitTyped, EnvParts
  <2>7. E!ThreadsFit
    <3>1. E!Free => given.env.kind = "normal"
      BY DEF E!Free
    <3> QED BY <2>4, <2>5, <2>6, <3>1 DEF E!ThreadsFit, HasKind, HasPart
  <2> QED BY <2>3, <2>7
<1> QED BY <1>1, AllInvariance, PTL

\* Where nothing is forced, ep.sh run once more by the program comes by the
\* same environment, however often (ep.env; .envsh parts of ep.d).
THEOREM SameEnvironmentAgain == E!EntryAssumption /\ E!ESpec => []AgainTheSame
<1>1. EntryAll => AgainTheSame
  <2> SUFFICES ASSUME BeforeInv, E!Free, NEW i \in DOMAIN before PROVE before[i] = before[1]
    BY DEF EntryAll, NumbersInv, AgainTheSame, E!AgainTheSame
  <2>1. 1 \in DOMAIN before
    BY DEF BeforeInv
  <2> QED BY <2>1 DEF BeforeInv
<1> QED BY <1>1, AllInvariance, PTL

=============================================================================
