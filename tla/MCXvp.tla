------------------------------- MODULE MCXvp -------------------------------
(* Properties of Xvp, and the lists and options of its runs. *)
EXTENDS Xvp

\* Where the string that the n-th byte ends, or would end, starts.
StartOf(bytes, n) ==
  CHOOSE i \in 1 .. n : (i = 1 \/ bytes[i - 1] = Nul) /\ \A j \in i .. n - 1 : bytes[j] # Nul

StringTo(bytes, n) == SubSeq(bytes, StartOf(bytes, n), n - 1)

\* The arguments among the first n bytes that have their NUL there, those too
\* long left out.
Whole(bytes, n) ==
  LET upto[m \in 0 .. Len(bytes)] ==
        IF m = 0 THEN <<>>
        ELSE IF bytes[m] # Nul \/ TooLong(StringTo(bytes, m)) THEN upto[m - 1]
        ELSE Append(upto[m - 1], StringTo(bytes, m))
  IN  upto[n]

\* What is behind the last NUL.
Rest(bytes) == StringTo(bytes, Len(bytes) + 1)

\* The arguments of a list: bytes behind the last NUL are one, if there are
\* any.
Wanted(bytes) ==
  Whole(bytes, Len(bytes)) \o
    IF Rest(bytes) = <<>> \/ TooLong(Rest(bytes)) THEN <<>> ELSE <<Rest(bytes)>>

\* The processes in the order of their batches.
InTurn(n) == IF n = MaxProcs THEN Top ELSE n + 1

\* What the programs have been given, in that order.
Arrived ==
  LET upto[n \in 0 .. MaxProcs] == IF n = 0 THEN <<>> ELSE upto[n - 1] \o ran[InTurn(n)]
  IN  upto[MaxProcs]

Quiet == \A p \in Pids : proc[p].kind # "xvp"

\* AllDelivered: when nothing has failed, every argument of the list has
\* been given to exactly one program, in order, however the list was cut up
\* by short reads (xvp.cc run()).
AllDelivered ==
  Quiet /\ given.faults = {} /\ ~given.strict /\ ~given.forceOnce => Arrived = Wanted(given.list)

\* What a read error leaves of the argument it cuts through.
Half(arg) ==
  "read" \in given.faults /\ offset < Len(given.list) /\ arg = StringTo(given.list, offset + 1)

\* The arguments of a program are those behind the first i, but for a torn
\* one at the very end.
Stretch(args, p, i) ==
  \A k \in DOMAIN ran[p] :
    \/ i + k <= Len(args) /\ ran[p][k] = args[i + k]
    \/ p = Top /\ k = Len(ran[p]) /\ Half(ran[p][k])

\* OnceInOrder: at no time, whatever has failed, has an argument arrived
\* twice or before an earlier one, and none torn but, when the list could not
\* be read to its end, the very last (the buffers of xvp.cc run() and the
\* argument held back for the next batch; xvp.cc:484).  That is, until a block
\* is refused and taken for granted (memfun.h:308): the batch then loses the
\* common arguments or all, and do_exec() may take it for an empty one.
OnceInOrder ==
  LET args    == Wanted(given.list)
      started == {n \in Pids : ran[InTurn(n)] # <<>>}
  IN  lack = "no" =>
      \E from \in [started -> 0 .. Len(args)] :
        /\ \A n \in started : Stretch(args, InTurn(n), from[n])
        /\ \A n, m \in started : n < m => from[n] + Len(ran[InTurn(n)]) <= from[m]

\* AllOrNothing: with -f one program gets the whole list, or none is started
\* and xvp reports an error (the usage text: "force _single_ <program>
\* execution or return error").
AllOrNothing ==
  given.forceOnce /\ Quiet =>
    \/ Arrived = Wanted(given.list) /\ \A p \in Pids \ {Top} : ran[p] = <<>>
    \/ Arrived = <<>> /\ proc[Top].ending # 0

\* OneAtATime: without -n a batch is not started before the program of the
\* one before has ended, by whichever wait it is reaped (xvp.cc run(), the
\* usage text on -n).
OneAtATime ==
  given.noWait \/ Cardinality({p \in Pids : proc[p].kind = "program"}) <= 1

\* BatchesFit: no batch is handed to execve(2) that the kernel must refuse
\* for its size, also where the common arguments were lost for lack of memory
\* (is_argv_full() in xvp.cc is there for that).
BatchesFit ==
  \A p \in Pids : Is(p, "exec") \/ Is(p, "last") => Fits(proc[p])

FailedChildren ==
  {p \in Pids \ {Top} : proc[p].kind \in {"zombie", "gone"} /\ proc[p].ending # 0}

StartedAfter(p) == {q \in Pids : ran[q] # <<>> /\ (q > p \/ q = Top)}

\* StrictUnlessStray: with -s nothing is started after a child has failed (the
\* usage text: "stop after first failed child process"), but for children
\* whose status went to the waitpid(2) after fork(2), which discards it.
StrictUnlessStray == given.strict => \A p \in FailedChildren \ stray : StartedAfter(p) = {}

\* ListRemoved: with -u the list is gone when xvp has become the last
\* program or has ended, also after an error, unless it was not even opened,
\* or there was no memory for the buffers (xvp.cc delete_script()).
ListRemoved ==
  given.unlink /\ proc[Top].kind # "xvp" /\ listed =>
    proc[Top].kind = "zombie" /\ proc[Top].ending \in {EACCES, ENOMEM}

\* UsageHolds: -f, -s and -u do what the usage text says of them, and without
\* -n programs wait for one another, whichever of open, fork, exec and the
\* buffers' memory fails, and whoever of parent and child is faster, until a
\* refused block is taken for granted (memfun.h:308).
UsageHolds ==
  lack = "no" => AllOrNothing /\ StrictUnlessStray /\ ListRemoved /\ OneAtATime

\* Ends: xvp always ends, if the programs it starts do, whatever is refused,
\* unless it writes past a block that could not grow (memfun.h:295).
Ends == <>(proc[Top].kind = "zombie" \/ lack = "torn")

-----------------------------------------------------------------------------
(* Lists.  The n-th argument is written with the byte n, so that no two are  *)
(* alike; each one of Terminated has its NUL.                                *)

Argument(n, length) == [i \in 1 .. length |-> n]

Lists(max, lengths) == UNION {[1 .. n -> lengths] : n \in 0 .. max}

Terminated(list) ==
  FlattenSeq([n \in DOMAIN list |-> Append(Argument(n, list[n]), Nul)])

Unterminated(list) == IF list = <<>> THEN <<>> ELSE Front(Terminated(list))

Given(lists, faults, endings) ==
  [list : lists, initSize : {6}, initCount : {1}, strict : {FALSE}, noWait : {FALSE}, forceOnce : {FALSE},
   unlink : {TRUE}, faults : {faults}, endings : {endings}]

With(cases, option) == {[c EXCEPT ![option] = TRUE] : c \in cases}

AnyFault   == {"open", "fork", "exec"}
AllEndings == {0, 1, Killed}

MixedLists ==
  {Terminated(list) : list \in Lists(3, {0, 2, 3})} \cup {Unterminated(list) : list \in Lists(3, {1, 2})}
PlainLists == {Terminated(list) : list \in Lists(5, {1})}

\* Everything that may be cut up, without faults; then each option.
WholeCases ==
  Given({Terminated(list) : list \in Lists(3, {0, 1, 3, 4}) \cup Lists(4, {2, 3})}, {}, {0, 1})
ReadCases   == Given({Terminated(list) : list \in Lists(4, {1, 2})}, {"read"}, {0, 1})
FaultyCases == Given(MixedLists, AnyFault, AllEndings)

\* Memory may be refused: the common arguments are one, or as many as the
\* arguments of a batch, which do_exec() then takes for an empty one.
MemoryCases ==
  LET some == Given({Terminated(list) : list \in Lists(3, {0, 2})}, {"memory", "exec"}, {0})
      more == {[c EXCEPT !.initCount = 2] : c \in some}
  IN  some \cup more \cup With(some \cup more, "noWait") \cup With(some, "strict") \cup With(some, "forceOnce")

AllCases ==
  WholeCases \cup ReadCases \cup FaultyCases \cup With(FaultyCases, "noWait") \cup With(FaultyCases, "strict")
  \cup With(Given(MixedLists, {}, {0}), "forceOnce") \cup MemoryCases

CommonCases   == {[c EXCEPT !.initSize = 12] : c \in Given({Terminated(<<2, 2>>)}, {}, {0})}
=============================================================================
