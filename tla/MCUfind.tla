------------------------------ MODULE MCUfind ------------------------------
(***************************************************************************)
(* Trees for Ufind; and files for IsElf, which works on lists that ufind   *)
(* has made, and lines for LogStderr, by which both report errors.  The    *)
(* three share no state, so that a behaviour is of one of them.            *)
(***************************************************************************)
EXTENDS Ufind, FiniteSets, TLC

CONSTANTS Files, MaxArgs, FdMax
CONSTANTS Stamps, LogPrefixes, TextsOf, Heads, Messages, LogBuffer, SizeSpan

VARIABLES disk, at, pc, bo_target, fds, n_buf, listed, seen, call, step, line, over

E == INSTANCE IsElf
L == INSTANCE LogStderr

ASSUME InstanceAssumption == E!FileAssumption /\ L!LogAssumption

OfIsElf == <<disk, at, pc, bo_target, fds, n_buf, listed, seen>>
OfLog   == <<call, step, line, over>>

OneCase == CHOOSE c \in Cases : TRUE

NoCall ==
  /\ call = <<>> /\ step = "none" /\ line = <<>> /\ over = FALSE

MCInit ==
  \/ disk = <<>> /\ E!EInit /\ NoCall /\ Init
  \/ given = OneCase /\ Init /\ NoCall /\ E!EInit
  \/ given = OneCase /\ Init /\ disk = <<>> /\ E!EInit /\ L!LInit

MCNext ==
  \/ disk = <<>> /\ step = "none" /\ Next /\ UNCHANGED <<OfIsElf, OfLog>>
  \/ given = OneCase /\ Init /\ step = "none" /\ E!ENext /\ UNCHANGED <<vars, OfLog>>
  \/ step # "none" /\ L!LNext /\ UNCHANGED <<vars, OfIsElf>>

MCSpec == MCInit /\ [][MCNext]_<<vars, OfIsElf, OfLog>>

EachByItself == E!EachByItself
LineIsMeant  == step # "none" => L!LineIsMeant

\* SkipsMounts: with -x only files on the devices of the arguments are
\* printed (the usage text: "skip entries on different file systems").
SkipsMounts ==
  given.xdev => \A i \in DOMAIN printed : Dev(printed[i]) \in ArgDevs

-----------------------------------------------------------------------------
(* Two devices.  A has two directories and two files, B one of each, and the *)
(* inodes of B are inodes of A too.                                          *)

A1 == <<"A", 1>>
A2 == <<"A", 2>>
AF == <<"A", 8>>
AG == <<"A", 9>>
B1 == <<"B", 1>>
BF == <<"B", 8>>

Fifo == <<"A", 7>>

Own(type, o)  == [type |-> type, ino |-> o[2], to |-> o]
Link(o)       == [type |-> "lnk", ino |-> 6, to |-> o]
Mount(ino, o) == [type |-> "dir", ino |-> ino, to |-> o]

File         == [type |-> "reg", entries |-> {}]
Directory(s) == [type |-> "dir", entries |-> s]

Tree(a1, a2, b1) ==
  (A1 :> Directory(a1)) @@ (A2 :> Directory(a2)) @@ (B1 :> Directory(b1))
    @@ (AF :> File) @@ (AG :> File) @@ (BF :> File) @@ (Fifo :> [type |-> "other", entries |-> {}])

PlainTrees ==
  {Tree(a1, a2, b1) :
     a1 \in {s \cup {Own("dir", A2)} : s \in SUBSET {Own("reg", AF), Link(A1), Link(B1)}},
     a2 \in SUBSET {Own("reg", AF), Own("reg", AG), Link(A1), Link(BF)},
     b1 \in {s \cup {Own("reg", BF)} : s \in SUBSET {Link(A2), Link(<<"B", 7>>)}}}

MountTrees ==
  {Tree(a1, {Own("reg", AG)}, {Own("reg", BF)}) :
     a1 \in {s \cup {Mount(3, B1)} : s \in SUBSET {Own("reg", AF), Own("dir", A2), Link(B1), Link(Fifo), Own("other", Fifo)}}}

Args == {<<A1>>, <<A1, B1>>, <<B1, A1>>, <<A2, BF, A1>>}

PlainCases ==
  [tree : PlainTrees, args : Args, xdev : BOOLEAN, unreadable : {{}}, faults : {{}}]
UnreadableCases ==
  [tree : PlainTrees, args : {<<A1>>}, xdev : {FALSE}, unreadable : {{A2}, {A1}}, faults : {{}}]
MountCases ==
  [tree : MountTrees, args : {<<A1>>, <<A2, A1>>}, xdev : BOOLEAN, unreadable : {{}, {B1}, {A2}}, faults : {{}}]
\* A file system that does not tell types.
UntoldCases ==
  [tree : {Tree({Own("other", AF), Own("dir", A2)}, {Own("reg", AG)}, {})},
   args : {<<A1>>}, xdev : BOOLEAN, unreadable : {{}}, faults : {{}}]
\* Arguments and links that cannot be opened or named, and paths too long.
FaultyCases ==
  [tree : PlainTrees, args : {<<A1, B1>>}, xdev : BOOLEAN, unreadable : {{}},
   faults : {{"open"}, {"long"}}]
DevNames == {"A", "B"}
AllInos  == {1, 2, 3, 6, 7, 8, 9}
AllCases == PlainCases \cup UnreadableCases \cup UntoldCases \cup MountCases \cup FaultyCases

-----------------------------------------------------------------------------
(* Files of both byte orders, one with a field in the other order, one of a  *)
(* kind that is not wanted, one with the signature backwards.                *)

Magic == 2135247942  \* the bytes 7F 45 4C 46

Elf(data, order, machine) ==
  [sig |-> [value |-> Magic, order |-> "msb"], class |-> 2, data |-> data, version |-> 1,
   osabi |-> 0, type |-> [value |-> 3, order |-> order],
   machine |-> [value |-> machine, order |-> order], eversion |-> [value |-> 1, order |-> order]]

Regular(header) == [opens |-> TRUE, regular |-> TRUE, long |-> TRUE, ehdr |-> header]

Amd64 == Elf(1, "lsb", 62)
S390  == Elf(2, "msb", 22)

SomeFiles ==
  {Regular(Amd64), Regular(S390), Regular([S390 EXCEPT !.machine.order = "lsb"]),
   Regular([Amd64 EXCEPT !.type.value = 4]), Regular([Amd64 EXCEPT !.sig.order = "lsb"]),
   Regular([Amd64 EXCEPT !.data = 3]),
   [Regular(Amd64) EXCEPT !.regular = FALSE], [Regular(S390) EXCEPT !.opens = FALSE]}

-----------------------------------------------------------------------------
(* Lines around the size of the buffer, which is 12.  No two parts are       *)
(* alike, so that a line shows what it was made of.                          *)

Bytes(names, n) == [i \in 1 .. n |-> names[1 + (i % 2)]]

Upto(names, lengths) == {Bytes(names, n) : n \in lengths}

Spaced(text) == <<" ">> \o text \o <<" ">>

SomeStamps   == Upto(<<"t", "u">>, {0, 2})
SomePrefixes == Upto(<<"p", "q">>, {0, 1, 3}) \cup {Spaced(<<"p">>)}
SomeTexts    == Upto(<<"x", "y">>, {0, 1, 2, 3, 5, 7, 11, 12}) \cup {Spaced(<<"x", "y">>), <<" ">>}
SomeHeads    == Upto(<<"h", "g">>, {0, 1, 2, 5, 9, 10, 11, 12})
SomeMessages == Upto(<<"m", "n">>, {0, 1, 3, 6})
=============================================================================
