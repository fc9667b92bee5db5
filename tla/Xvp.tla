-------------------------------- MODULE Xvp --------------------------------
(***************************************************************************)
(* xvp.cc: run a program over a list of NUL-separated arguments, as many   *)
(* of them at a time as one execve(2) takes.                               *)
(*                                                                         *)
(* Every process made from xvp by fork(2) is in "proc", whether it still   *)
(* runs xvp's code, has become the program or has ended.  The kernel's     *)
(* part is its own few actions: a program ends, a child that has ended is  *)
(* a zombie until its parent waits for it.  The offset of the open list is *)
(* shared by every process that inherited it.                              *)
(***************************************************************************)
EXTENDS Integers, Sequences, SequencesExt, FiniteSets, FiniteSetsExt

CONSTANTS
  Cases,     \* what xvp may be started with: a set of records "given"
  ArgBuf,    \* s_buf_arg: an argument and its NUL must be shorter
  ReadBuf,   \* s_buf_read: the most one read(2) is asked for
  SizeArgs,  \* size_args: what a batch may take, pointers included
  Ptr,       \* sizeof(size_t)
  Padding,   \* argc_padding: words that prepare() sets aside
  MaxProcs   \* bound: processes a behaviour may fork, fork(2) fails after

Nul    == 0
Killed == -1
E2BIG  == 7
ECHILD == 10
EAGAIN == 11
ENOMEM == 12
ENOENT == 2
EACCES == 13

\* A list is its bytes, NUL is 0.
Case ==
  [list : Seq(Nat),
   initSize : 1 .. SizeArgs - 1,  \* get_argv_fullsize(&argv_init): the program
  initCount : Nat \ {0},         \* and the common arguments; how many
   strict : BOOLEAN, noWait : BOOLEAN, forceOnce : BOOLEAN, unlink : BOOLEAN,
   faults : SUBSET {"open", "fork", "exec", "memory", "read"},
   endings : SUBSET (Nat \cup {Killed})]  \* how the programs may end

ASSUME SizeAssumption ==
  /\ {ArgBuf, ReadBuf, SizeArgs, Ptr, MaxProcs} \subseteq Nat \ {0} /\ Padding \in Nat
  /\ Cases \subseteq Case
  /\ \A c \in Cases : ~(c.strict /\ c.noWait)  \* parse_opts()

VARIABLES
  given,   \* the list, the options, and what may go wrong
  offset,  \* how much of the list has been read
  listed,  \* whether its name is still there
  proc,    \* the processes
  ran,     \* the batch each process became the program with
  stray,   \* children reaped by the waitpid(2) that discards the status
  lack     \* history: whether a block that was refused has been taken for
           \* granted, which loses arguments or spoils memory that is not xvp's

vars == <<given, offset, listed, proc, ran, stray, lack>>

Pids == 1 .. MaxProcs
Top  == 1

-----------------------------------------------------------------------------
(* Batches. *)

RoundUp(n) == n + ((-n) % Ptr)

Total(first, costs) ==
  LET upto[n \in 0 .. Len(costs)] == IF n = 0 THEN first ELSE upto[n - 1] + costs[n]
  IN  upto[Len(costs)]

\* A batch is what a process l has put behind the common arguments.  Those
\* are there ("whole"), or the first block for their bytes was refused
\* ("null": argv_curr claims a block and has none) or, that for their offsets
\* ("bare"): append() then leaves argv_curr empty and allocated() all the same.
Common(l) == IF l.mem = "whole" THEN given.initSize ELSE 0

\* argv_curr.count()
CountOf(l) == (IF l.mem = "whole" THEN given.initCount ELSE 0) + Len(l.argv)

\* get_argv_fullsize(): each string takes whole words, and a pointer.
FullSize(l) == Total(Common(l), [i \in DOMAIN l.argv |-> RoundUp(Len(l.argv[i]) + 1) + Ptr])

\* A mutant of IsFull: what is about to be added is not counted.
IsFullBefore(l, extra) == FullSize(l) + 1 >= SizeArgs

\* is_argv_full(); the limit on their number is reached after that on size.
IsFull(l, extra) == FullSize(l) + extra + 1 >= SizeArgs

TooLong(arg) == Len(arg) + 1 >= ArgBuf

\* What the kernel counts, and lets pass: strings as they are, a pointer
\* each, and the words prepare() has set aside.
Fits(l) ==
  Total(Common(l), [i \in DOMAIN l.argv |-> Len(l.argv[i]) + 1 + Ptr]) <= SizeArgs + Padding * Ptr

\* strnlen(): the bytes before the first NUL.
Block(buf) ==
  LET nuls == {i \in DOMAIN buf : buf[i] = Nul}
  IN  IF nuls = {} THEN Len(buf) ELSE Min(nuls) - 1

-----------------------------------------------------------------------------
(* Processes. *)

Unborn == [kind |-> "unborn"]

Program(l)             == [kind |-> "program", parent |-> l.parent, mem |-> l.mem]
Torn(parent)           == [kind |-> "torn", parent |-> parent]
Zombie(parent, ending) == [kind |-> "zombie", parent |-> parent, ending |-> ending]

\* A child waited for; how it ended is kept as history.
Gone(p) == [kind |-> "gone", ending |-> proc[p].ending]

Is(p, pc) == proc[p].kind = "xvp" /\ proc[p].pc = pc

ChildrenOf(p) ==
  {q \in Pids : proc[q].kind \in {"xvp", "program", "zombie"} /\ proc[q].parent = p}

ZombiesOf(p) == {q \in ChildrenOf(p) : proc[q].kind = "zombie"}

\* wait(2) and waitid(P_ALL) return: a child has ended or there is none.
\* MayPass's mutant CanPass takes no answer but a child's for one.
CanPass(p) == ZombiesOf(p) # {}
MayPass(p) == ChildrenOf(p) = {} \/ ZombiesOf(p) # {}

Unborns == {q \in Pids : proc[q].kind = "unborn"}

Init ==
  /\ given \in Cases /\ offset = 0 /\ listed = TRUE
  /\ proc = [p \in Pids |->
       IF p = Top
       THEN [kind |-> "xvp", pc |-> "open", parent |-> 0, child |-> 0, err |-> 0,
             buf |-> <<>>, arg |-> <<>>, pend |-> FALSE, argv |-> <<>>, mem |-> "whole"]
       ELSE Unborn]
  /\ ran = [p \in Pids |-> <<>>] /\ stray = {} /\ lack = "no"

\* What a process has come to shows of refused memory.
Noted(r) ==
  IF r.kind = "torn" THEN "torn"
  ELSE IF r.kind \in {"xvp", "program"} /\ lack = "no" /\ r.mem # "whole" THEN "unnoticed"
  ELSE lack

Become(p, r) == proc' = [proc EXCEPT ![p] = r] /\ lack' = Noted(r)

\* The same, and a child is waited for.
BecomeReaping(p, r, q) == proc' = [proc EXCEPT ![p] = r, ![q] = Gone(q)] /\ lack' = Noted(r)

\* Mutants of Again: the batch is kept, the argument held back is not.
AgainKeeps(l)   == [l EXCEPT !.pc = "fill"]
AgainForgets(l) ==
  [l EXCEPT !.pc = "fill", !.argv = <<>>, !.mem = "whole", !.pend = FALSE, !.arg = <<>>]

\* Back to the top of the loop with nothing but the common arguments.
Again(l) == [l EXCEPT !.pc = "fill", !.argv = <<>>, !.mem = "whole"]

\* A mutant of GiveUp: the loop is left, and what there is is run.
GiveUpLate(local, err) == [local EXCEPT !.pc = "close", !.err = err]

GiveUp(local, err) == [local EXCEPT !.pc = "out", !.err = err]

MayRefuse == "memory" \in given.faults

\* Adding the common arguments asks for memory: the first block of either
\* kind may be refused, unnoticed since allocated() is not 0, and a block
\* already held that cannot grow is written past (memfun.h:295).
Refined(l) ==
  {Again(l)} \cup
    IF MayRefuse THEN {[Again(l) EXCEPT !.mem = m] : m \in {"null", "bare"}} \cup {Torn(l.parent)} ELSE {}

\* append() of an argument.  It is an error, and seen to be one, only where
\* the list of offsets has no block, or the bytes have none and the argument
\* is longer than what they claim; shorter, it is copied to NULL.
Stored(l, arg) ==
  LET put(mem) == [l EXCEPT !.argv = Append(@, arg), !.arg = <<>>, !.pend = FALSE, !.mem = mem]
      toNull   == l.mem = "null" /\ arg # <<>>
      when(cond, set) == IF cond THEN set ELSE {}
  IN  (IF toNull THEN {Zombie(l.parent, Killed)} ELSE {put(l.mem)})
      \cup when(MayRefuse /\ (l.mem # "null" \/ l.argv # <<>>), {Torn(l.parent)})
      \cup when(MayRefuse /\ (l.mem = "null" \/ (l.mem = "bare" /\ l.argv = <<>>)), {GiveUp(l, ENOMEM)})
      \cup when(MayRefuse /\ toNull /\ l.argv = <<>>, {put("bare")})

Failed(m) == m.kind # "xvp" \/ m.pc = "out"

-----------------------------------------------------------------------------
(* The loop of run(). *)

\* What goes wrong before the loop leaves the list alone.
Open(p) ==
  /\ Is(p, "open")
  /\ \/ \E m \in Refined(proc[p]) : Become(p, m)
     \/ "open" \in given.faults /\ Become(p, Zombie(proc[p].parent, EACCES))
     \/ MayRefuse /\ Become(p, Zombie(proc[p].parent, ENOMEM))
  /\ UNCHANGED <<given, offset, listed, ran, stray>>

\* The argument that did not fit comes first; then, if the buffer is empty,
\* it is filled.  At the end of the list, or at an error, what has no NUL
\* after it is an argument too.
Fill(p) ==
  /\ Is(p, "fill")
  /\ \E l \in IF proc[p].pend THEN Stored(proc[p], proc[p].arg) ELSE {proc[p]} :
       IF Failed(l) THEN Become(p, l) /\ UNCHANGED offset
       ELSE \/ /\ l.buf # <<>>
               /\ Become(p, [l EXCEPT !.pc = "scan"]) /\ UNCHANGED offset
            \/ /\ l.buf = <<>>
               /\ \E n \in 1 .. Min({ReadBuf, Len(given.list) - offset}) :
                    /\ Become(p, [l EXCEPT !.pc = "scan", !.buf = SubSeq(given.list, offset + 1, offset + n)])
                    /\ offset' = offset + n
            \/ /\ l.buf = <<>> /\ (offset = Len(given.list) \/ "read" \in given.faults)
               /\ \E m \in IF l.arg = <<>> \/ TooLong(l.arg) THEN {l} ELSE Stored(l, l.arg) :
                    Become(p, IF Failed(m) THEN m ELSE [m EXCEPT !.pc = "close"])
               /\ UNCHANGED offset
  /\ UNCHANGED <<given, listed, ran, stray>>

\* One string of the buffer, or what there is of it.
Scan(p) ==
  /\ Is(p, "scan")
  /\ LET l    == proc[p]
         b    == Block(l.buf)
         arg  == l.arg \o SubSeq(l.buf, 1, b)
         rest == SubSeq(l.buf, b + 2, Len(l.buf))
         next == IF rest = <<>> THEN "fill" ELSE "scan"
     IN  IF b = Len(l.buf)
         THEN Become(p, [l EXCEPT !.pc = "fill", !.buf = <<>>, !.arg = arg])
         ELSE IF TooLong(arg)
         THEN Become(p, [l EXCEPT !.pc = next, !.buf = rest, !.arg = <<>>])
         ELSE IF IsFull(l, Len(arg))
         THEN Become(p, [l EXCEPT !.pc = "fork", !.buf = rest, !.arg = arg, !.pend = TRUE])
         ELSE \E m \in Stored([l EXCEPT !.buf = rest], arg) :
                Become(p, IF Failed(m) THEN m
                          ELSE [m EXCEPT !.pc = IF IsFull(m, 0) THEN "fork" ELSE next])
  /\ UNCHANGED <<given, offset, listed, ran, stray>>

\* A full batch: the child is a copy of its parent, on its way to do_exec().
Fork(p) ==
  /\ Is(p, "fork")
  /\ \/ given.forceOnce /\ Become(p, GiveUp(proc[p], E2BIG))
     \/ /\ ~given.forceOnce /\ Unborns # {}
        /\ LET q == Min(Unborns)
           IN  proc' = [proc EXCEPT
                 ![p] = [@ EXCEPT !.pc = "reap", !.child = q],
                 ![q] = [proc[p] EXCEPT !.pc = "exec", !.parent = p, !.child = 0]]
         /\ UNCHANGED lack
     \/ /\ ~given.forceOnce /\ ("fork" \in given.faults \/ Unborns = {})
        /\ Become(p, GiveUp(proc[p], EAGAIN))
  /\ UNCHANGED <<given, offset, listed, ran, stray>>

\* waitpid(-1, NULL, WNOHANG), whoever it finds.
Reap(p) ==
  /\ Is(p, "reap")
  /\ \E then \in IF given.noWait THEN Refined(proc[p])
                 ELSE {[proc[p] EXCEPT !.pc = "wait", !.err = ECHILD]} :
       \/ ZombiesOf(p) = {} /\ Become(p, then) /\ UNCHANGED stray
       \/ \E q \in ZombiesOf(p) :
            BecomeReaping(p, then, q) /\ stray' = stray \cup {q}
  /\ UNCHANGED <<given, offset, listed, ran>>

\* A mutant of Wait: it does not block.
WaitBriefly(p) ==
  /\ Is(p, "wait") /\ Become(p, Again(proc[p])) /\ UNCHANGED <<given, offset, listed, ran, stray>>

\* waitid(P_PID, child): an error, when it is nobody's child any more, ends
\* the wait like a good answer.
Wait(p) ==
  /\ Is(p, "wait")
  /\ LET l == proc[p]
     IN  \/ l.child \notin ChildrenOf(p) /\ \E m \in Refined(l) : Become(p, m)
         \/ /\ l.child \in ZombiesOf(p)
            /\ LET e    == proc[l.child].ending
                   m    == [l EXCEPT !.err = IF e = Killed THEN @ ELSE e]
                   then == IF given.strict /\ e # 0 THEN {GiveUp(m, m.err)} ELSE Refined(m)
               IN  \E n \in then : BecomeReaping(p, n, l.child)
  /\ UNCHANGED <<given, offset, listed, ran, stray>>

-----------------------------------------------------------------------------
(* Leaving run(). *)

DeleteScript == listed' = (listed /\ ~given.unlink)

\* The list is closed and deleted; one child, if there are any, is waited for.
Close(p) ==
  /\ Is(p, "close")
  /\ MayPass(p)
  /\ LET last == [proc[p] EXCEPT !.pc = "last"]
     IN  \/ ChildrenOf(p) = {} /\ Become(p, last)
         \/ \E q \in ZombiesOf(p) : BecomeReaping(p, last, q)
  /\ DeleteScript
  /\ UNCHANGED <<given, offset, ran, stray>>

\* A mutant of Out: only success deletes the list.
OutKeeps(p) ==
  /\ Is(p, "out") /\ Become(p, Zombie(proc[p].parent, proc[p].err))
  /\ UNCHANGED <<given, offset, listed, ran, stray>>

Out(p) ==
  /\ Is(p, "out")
  /\ Become(p, Zombie(proc[p].parent, proc[p].err))
  /\ DeleteScript
  /\ UNCHANGED <<given, offset, ran, stray>>

\* to_ptrlist(): a refused list of pointers is NULL, and one of a batch
\* without bytes begins with NULL.  Either way the kernel is given no arguments.
PointerLists(l) ==
  {IF l.mem = "null" THEN [l EXCEPT !.argv = <<>>] ELSE l} \cup
    IF MayRefuse THEN {[l EXCEPT !.argv = <<>>, !.mem = "null"]} ELSE {}

\* do_exec() of a child, or of xvp itself at the end.  With as many arguments
\* as the common ones it returns: a child goes on as if it were its own parent.
Exec(p) ==
  /\ Is(p, "exec") \/ Is(p, "last")
  /\ LET l == proc[p]
     IN  \/ /\ CountOf(l) = given.initCount
            /\ Become(p, IF l.pc = "exec" THEN [l EXCEPT !.pc = "reap"]
                         ELSE Zombie(l.parent, l.err))
            /\ UNCHANGED ran
         \/ /\ CountOf(l) # given.initCount
            /\ \E m \in PointerLists(l) :
                 \/ Fits(m) /\ Become(p, Program(m)) /\ ran' = [ran EXCEPT ![p] = m.argv]
                 \/ /\ "exec" \in given.faults \/ ~Fits(m)
                    /\ Become(p, IF given.noWait THEN [m EXCEPT !.pc = "again"]
                                 ELSE Zombie(l.parent, IF Fits(m) THEN ENOENT ELSE E2BIG))
                    /\ UNCHANGED ran
  /\ UNCHANGED <<given, offset, listed, stray>>

\* With -n a failed execvp(3) is tried once more, after a child has ended.
ExecAgain(p) ==
  /\ Is(p, "again") /\ MayPass(p)
  /\ LET l == proc[p]
         Then(local) ==
           \/ ZombiesOf(p) = {} /\ Become(p, local)
           \/ \E q \in ZombiesOf(p) : BecomeReaping(p, local, q)
     IN  \/ Fits(l) /\ Then(Program(l)) /\ ran' = [ran EXCEPT ![p] = l.argv]
         \/ /\ "exec" \in given.faults \/ ~Fits(l)
            /\ Then(Zombie(l.parent, IF Fits(l) THEN ENOENT ELSE E2BIG))
            /\ UNCHANGED ran
  /\ UNCHANGED <<given, offset, listed, stray>>

\* The program's end, which the code only sees.
Finish(p) ==
  /\ proc[p].kind = "program"
  /\ \E e \in given.endings : Become(p, Zombie(proc[p].parent, e))
  /\ UNCHANGED <<given, offset, listed, ran, stray>>

\* What a program does that has written where it must not is not said.
Sane == lack # "torn"

Step(p) ==
  /\ Sane
  /\ \/ Open(p) \/ Fill(p) \/ Scan(p) \/ Fork(p) \/ Reap(p) \/ Wait(p)
     \/ Close(p) \/ Out(p) \/ Exec(p) \/ ExecAgain(p) \/ Finish(p)

Ended == (proc[Top].kind = "zombie" \/ ~Sane) /\ UNCHANGED vars

Next == (\E p \in Pids : Step(p)) \/ Ended

Spec == Init /\ [][Next]_vars

\* Every process gets to run, and every program comes to an end.
FairSpec == Spec /\ \A p \in Pids : WF_vars(Step(p))
=============================================================================
