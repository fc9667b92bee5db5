---------------------------- MODULE Ufind_proofs ----------------------------
(***************************************************************************)
(* Proofs about Ufind, for every tree, whatever its size, in which nothing *)
(* is mounted, and every list of arguments; and about what works beside it *)
(* in MCUfind, for every list of files and every line that is logged.      *)
(*                                                                         *)
(* Where nothing is mounted an entry's inode and its directory's device    *)
(* are those of the object its name leads to.  So a file printed is one    *)
(* whose own inode is in the table, an open directory likewise, and the    *)
(* devices known with -x are those of arguments: the seal is on whenever a *)
(* directory is open.  That nothing is missed is a second invariant, of    *)
(* what is still to be read.                                               *)
(***************************************************************************)
EXTENDS MCUfind, SequenceTheorems, WellFoundedInduction, TLAPS

\* Each open directory is seen under its own device and lists its own entries.
Honest(st) ==
  \A k \in 1 .. Len(st) :
    st[k].dev = Dev(st[k].at) /\ st[k].left \subseteq Entries(st[k].at)

\* The open directories are different ones, and have been seen.
Listing(st, saw) ==
  \A k \in 1 .. Len(st) :
    /\ st[k].at \in saw
    /\ \A j \in 1 .. Len(st) : k # j => st[k].at # st[j].at

\* So are the files printed.
Recorded(out, saw) ==
  \A k \in 1 .. Len(out) :
    /\ out[k] \in saw
    /\ \A j \in 1 .. Len(out) : k # j => out[k] # out[j]

AtHome(objects, devs) == \A k \in 1 .. Len(objects) : Dev(objects[k]) \in devs

\* With -x the devices known are those of arguments, and what is printed is
\* on a device known.
Sealed ==
  /\ known \subseteq ArgDevs
  /\ AtHome(printed, known) /\ AtHome(todo, ArgDevs)
  /\ stack # <<>> => seal

Inv ==
  /\ TypeOK
  /\ Unmounted => Honest(stack) /\ Listing(stack, dirs) /\ Recorded(printed, files)
  /\ Unmounted /\ given.xdev => Sealed

\* What is left of the recursion after the entry at hand.
Ready(sealed, rest) ==
  /\ sealed \in BOOLEAN /\ rest \in Seq(FrameOf)
  /\ Unmounted => Honest(rest) /\ Listing(rest, dirs)
  /\ Unmounted /\ given.xdev => sealed \/ rest = <<>>

\* The entry at hand: with -x, the seal is on or it is an argument.
Named(id, to, sealed) ==
  /\ id \in Objects /\ to \in Objects
  /\ Unmounted => id = to
  /\ Unmounted /\ given.xdev => sealed \/ Dev(id) \in ArgDevs

Waiting ==
  /\ todo' \in Seq(Objects)
  /\ Unmounted /\ given.xdev => AtHome(todo', ArgDevs)

-----------------------------------------------------------------------------
LEMMA ObjectParts ==
  ASSUME NEW o \in Objects
  PROVE  Dev(o) \in Devs /\ o = <<Dev(o), o[2]>> /\ o[2] \in Inos
  BY DEF Objects, Dev

LEMMA EntriesTyped ==
  ASSUME TypeOK, NEW o
  PROVE  Entries(o) \subseteq Entry
  BY CaseAssumption DEF TypeOK, Entries, Node

LEMMA SameCase ==
  ASSUME given' = given
  PROVE  /\ Unmounted' = Unmounted /\ ArgDevs' = ArgDevs
         /\ \A o : Entries(o)' = Entries(o)
  BY Zenon DEF Unmounted, Plain, ArgDevs, Entries

LEMMA RecordOne ==
  ASSUME NEW S, NEW out \in Seq(S), NEW saw, NEW o \in S, o \notin saw, Recorded(out, saw)
  PROVE  Recorded(Append(out, o), saw \cup {o})
  BY DEF Recorded

LEMMA OpenOne ==
  ASSUME NEW st \in Seq(FrameOf), NEW saw, NEW f \in FrameOf, f.at \notin saw, Listing(st, saw)
  PROVE  Listing(Append(st, f), saw \cup {f.at})
  BY DEF Listing

LEMMA HonestOne ==
  ASSUME NEW st \in Seq(FrameOf), NEW f \in FrameOf, Honest(st),
         f.dev = Dev(f.at), f.left \subseteq Entries(f.at)
  PROVE  Honest(Append(st, f))
  BY DEF Honest

LEMMA AtHomeOne ==
  ASSUME NEW out \in Seq(Objects), NEW o \in Objects, NEW devs, NEW more,
         AtHome(out, devs), devs \subseteq more, Dev(o) \in more
  PROVE  AtHome(Append(out, o), more)
  BY DEF AtHome

-----------------------------------------------------------------------------
(* The handlers preserve the invariant. *)

LEMMA SkipStep ==
  ASSUME Inv, NEW sealed, NEW rest, Ready(sealed, rest), Waiting, Skip(sealed, rest)
  PROVE  Inv'
<1>1. Unmounted' = Unmounted /\ ArgDevs' = ArgDevs /\ \A o : Entries(o)' = Entries(o)
  BY SameCase DEF Skip
<1>2. TypeOK'
  BY DEF Inv, TypeOK, Ready, Waiting, Skip
<1>3. Unmounted => Honest(stack)' /\ Listing(stack, dirs)' /\ Recorded(printed, files)'
  <2>1. Unmounted => Honest(stack)'
    BY <1>1 DEF Honest, Ready, Skip, Dev
  <2>2. Unmounted => Listing(stack, dirs)' /\ Recorded(printed, files)'
    BY DEF Inv, Listing, Recorded, Ready, Skip
  <2> QED BY <2>1, <2>2
<1>4. Unmounted /\ given.xdev => Sealed'
  BY <1>1 DEF Inv, Sealed, AtHome, Dev, Ready, Waiting, Skip
<1> QED
  BY <1>1, <1>2, <1>3, <1>4 DEF Inv, Skip

\* What process_dev does to the devices known.
LEMMA DevStep ==
  ASSUME Inv, NEW id, NEW to, NEW sealed, NEW rest, Ready(sealed, rest),
         Named(id, to, sealed), ProcessDev(Dev(id), sealed)
  PROVE  /\ known \subseteq known' /\ known' \subseteq Devs /\ seal' \in BOOLEAN
         /\ ~Barred(Dev(id), sealed) => Dev(id) \in known'
         /\ Unmounted /\ given.xdev => known' \subseteq ArgDevs
         /\ Unmounted /\ given.xdev => ~Barred(Dev(id), sealed) \/ sealed
         /\ given.xdev => seal' \/ (Barred(Dev(id), sealed) /\ seal' = sealed)
<1>1. Dev(id) \in Devs
  BY ObjectParts DEF Named
<1>2. known \subseteq Devs /\ given.xdev \in BOOLEAN
  BY CaseAssumption DEF Inv, TypeOK
<1>3. Unmounted /\ given.xdev => known \subseteq ArgDevs
  BY DEF Inv, Sealed
<1> QED
  BY <1>1, <1>2, <1>3 DEF ProcessDev, Barred, Ready, Named

LEMMA FileStep ==
  ASSUME Inv, NEW id, NEW to, NEW sealed, NEW rest, Ready(sealed, rest),
         Named(id, to, sealed), Waiting, ProcessFile(id, to, sealed, rest)
  PROVE  Inv'
<1>0. given' = given /\ stack' = rest /\ dirs' = dirs /\ ProcessDev(Dev(id), sealed)
  BY DEF ProcessFile
<1>1. Unmounted' = Unmounted /\ ArgDevs' = ArgDevs /\ \A o : Entries(o)' = Entries(o)
  BY <1>0, SameCase
<1>2. /\ known \subseteq known' /\ known' \subseteq Devs /\ seal' \in BOOLEAN
      /\ ~Barred(Dev(id), sealed) => Dev(id) \in known'
      /\ Unmounted /\ given.xdev => known' \subseteq ArgDevs
      /\ given.xdev => seal' \/ (Barred(Dev(id), sealed) /\ seal' = sealed)
  BY <1>0, DevStep
<1>3. \/ files' = files /\ printed' = printed
      \/ /\ ~Barred(Dev(id), sealed) /\ id \notin files
         /\ files' = files \cup {id} /\ printed' = Append(printed, to)
  BY DEF ProcessFile
<1>4. TypeOK'
  <2>1. printed \in Seq(Objects) /\ files \subseteq Objects /\ id \in Objects /\ to \in Objects
    BY DEF Inv, TypeOK, Named
  <2>2. printed' \in Seq(Objects) /\ files' \subseteq Objects
    BY <1>3, <2>1
  <2> QED BY <1>0, <1>2, <2>2 DEF Inv, TypeOK, Ready, Waiting
<1>5. Unmounted => Honest(stack)' /\ Listing(stack, dirs)'
  <2>1. Unmounted => Honest(stack)'
    BY <1>0, <1>1 DEF Honest, Ready, Dev
  <2>2. Unmounted => Listing(stack, dirs)'
    BY <1>0 DEF Listing, Ready
  <2> QED BY <2>1, <2>2
<1>6. Unmounted => Recorded(printed', files')
  <2>1. printed \in Seq(Objects) /\ to \in Objects
    BY DEF Inv, TypeOK, Named
  <2>2. Unmounted => id = to /\ Recorded(printed, files)
    BY DEF Inv, Named
  <2>3. CASE files' = files /\ printed' = printed
    BY <2>2, <2>3
  <2>4. CASE id \notin files /\ files' = files \cup {id} /\ printed' = Append(printed, to)
    BY <2>1, <2>2, <2>4, RecordOne
  <2> QED BY <1>3, <2>3, <2>4
<1>7. Unmounted /\ given.xdev => Sealed'
  <2>1. SUFFICES ASSUME Unmounted, given.xdev PROVE Sealed'
    OBVIOUS
  <2>2. printed \in Seq(Objects) /\ to \in Objects /\ id = to /\ AtHome(printed, known)
    BY <2>1 DEF Inv, TypeOK, Named, Sealed
  <2>3. AtHome(printed', known')
    <3>1. CASE printed' = printed
      BY <3>1, <1>2, <2>2 DEF AtHome
    <3>2. CASE ~Barred(Dev(id), sealed) /\ printed' = Append(printed, to)
      BY <3>2, <1>2, <2>2, AtHomeOne
    <3> QED BY <1>3, <3>1, <3>2
  <2>4. AtHome(todo', ArgDevs)
    BY <2>1 DEF Waiting
  <2>5. stack' # <<>> => seal'
    BY <1>0, <1>2, <2>1 DEF Ready
  <2> QED BY <1>1, <1>2, <2>1, <2>3, <2>4, <2>5 DEF Sealed, AtHome, Dev
<1> QED
  BY <1>0, <1>1, <1>4, <1>5, <1>6, <1>7 DEF Inv, Recorded

LEMMA DirStep ==
  ASSUME Inv, NEW id, NEW to, NEW sealed, NEW rest, Ready(sealed, rest),
         Named(id, to, sealed), Waiting, ProcessDir(id, to, sealed, rest)
  PROVE  Inv'
<1>0. given' = given /\ files' = files /\ printed' = printed /\ ProcessDev(Dev(id), sealed)
  BY DEF ProcessDir
<1>1. Unmounted' = Unmounted /\ ArgDevs' = ArgDevs /\ \A o : Entries(o)' = Entries(o)
  BY <1>0, SameCase
<1>2. /\ known \subseteq known' /\ known' \subseteq Devs /\ seal' \in BOOLEAN
      /\ Unmounted /\ given.xdev => known' \subseteq ArgDevs
      /\ Unmounted /\ given.xdev => ~Barred(Dev(id), sealed) \/ sealed
      /\ given.xdev => seal' \/ (Barred(Dev(id), sealed) /\ seal' = sealed)
  BY <1>0, DevStep
<1>3. \/ stack' = rest /\ dirs' = dirs
      \/ id \notin dirs /\ dirs' = dirs \cup {id} /\ stack' = rest /\ ~Barred(Dev(id), sealed)
      \/ /\ id \notin dirs /\ dirs' = dirs \cup {id}
         /\ stack' = Append(rest, Frame(id, to)) /\ ~Barred(Dev(id), sealed)
  BY DEF ProcessDir
<1>4. /\ Frame(id, to) \in FrameOf /\ Frame(id, to).at = to
      /\ Frame(id, to).dev = Dev(id) /\ Frame(id, to).left = Entries(to)
  BY ObjectParts, EntriesTyped DEF Frame, FrameOf, Inv, Named
<1>5. rest \in Seq(FrameOf) /\ dirs \subseteq Objects /\ id \in Objects
  BY DEF Ready, Inv, TypeOK, Named
<1>6. TypeOK'
  <2>1. stack' \in Seq(FrameOf) /\ dirs' \subseteq Objects
    BY <1>3, <1>4, <1>5
  <2> QED BY <1>0, <1>2, <2>1 DEF Inv, TypeOK, Waiting
<1>7. Unmounted => Honest(stack') /\ Listing(stack', dirs')
  <2>1. SUFFICES ASSUME Unmounted PROVE Honest(stack') /\ Listing(stack', dirs')
    OBVIOUS
  <2>2. id = to /\ Honest(rest) /\ Listing(rest, dirs)
    BY <2>1 DEF Named, Ready
  <2>3. CASE stack' = rest
    <3>1. dirs \subseteq dirs'
      BY <1>3
    <3> QED BY <2>2, <2>3, <3>1 DEF Listing
  <2>4. CASE id \notin dirs /\ dirs' = dirs \cup {id} /\ stack' = Append(rest, Frame(id, to))
    <3>1. Honest(Append(rest, Frame(id, to)))
      BY <1>4, <1>5, <2>2, HonestOne
    <3>2. Listing(Append(rest, Frame(id, to)), dirs \cup {id})
      BY <1>4, <1>5, <2>2, <2>4, OpenOne
    <3> QED BY <2>4, <3>1, <3>2
  <2> QED BY <1>3, <2>3, <2>4
<1>8. Unmounted => Honest(stack)'
  BY <1>1, <1>7 DEF Honest, Dev
<1>9. Unmounted /\ given.xdev => Sealed'
  <2>1. SUFFICES ASSUME Unmounted, given.xdev PROVE Sealed'
    OBVIOUS
  <2>2. AtHome(printed', known')
    BY <1>0, <1>2, <2>1 DEF Inv, Sealed, AtHome
  <2>3. AtHome(todo', ArgDevs)
    BY <2>1 DEF Waiting
  <2>4. stack' # <<>> => seal'
    BY <1>2, <1>3, <2>1 DEF Ready
  <2> QED BY <1>1, <1>2, <2>1, <2>2, <2>3, <2>4 DEF Sealed, AtHome, Dev
<1>10. Unmounted => Recorded(printed, files)'
  BY <1>0 DEF Inv, Recorded
<1> QED
  BY <1>0, <1>1, <1>6, <1>7, <1>8, <1>9, <1>10 DEF Inv, Listing

LEMMA ArgStep ==
  ASSUME Inv, NEW to \in Objects, NEW sealed, NEW rest, Ready(sealed, rest), Waiting,
         Named(to, to, sealed), ProcessArg(to, sealed, rest)
  PROVE  Inv'
  BY FileStep, DirStep, SkipStep, Zenon DEF ProcessArg

-----------------------------------------------------------------------------
(* The actions. *)

LEMMA InitInv == Init => Inv
<1> SUFFICES ASSUME Init PROVE Inv
  OBVIOUS
<1>1. TypeOK
  BY CaseAssumption, EmptySeq DEF Init, TypeOK
<1>2. stack = <<>> /\ printed = <<>> /\ known = {} /\ todo = given.args
  BY DEF Init
<1>3. Len(stack) = 0 /\ Len(printed) = 0
  BY <1>2, EmptySeq
<1>4. Honest(stack) /\ Listing(stack, dirs) /\ Recorded(printed, files) /\ AtHome(printed, known)
  BY <1>3 DEF Honest, Listing, Recorded, AtHome
<1>5. AtHome(todo, ArgDevs)
  BY <1>1, <1>2 DEF AtHome, ArgDevs, TypeOK
<1> QED BY <1>1, <1>2, <1>4, <1>5 DEF Inv, Sealed

LEMMA ArgumentInv == Inv /\ Argument => Inv'
<1> SUFFICES ASSUME Inv, Argument PROVE Inv'
  OBVIOUS
<1>1. /\ todo \in Seq(Objects) /\ todo # <<>> /\ todo' = Tail(todo)
      /\ ProcessArg(Head(todo), FALSE, <<>>)
  BY DEF Inv, TypeOK, Argument
<1>2. /\ Head(todo) \in Objects /\ Tail(todo) \in Seq(Objects) /\ Len(Tail(todo)) = Len(todo) - 1
      /\ Head(todo) = todo[1] /\ Len(todo) \in Nat \ {0}
      /\ \A k \in 1 .. Len(Tail(todo)) : Tail(todo)[k] = todo[k + 1]
  BY <1>1, HeadTailProperties, EmptySeq
<1>3. Unmounted /\ given.xdev => AtHome(todo, ArgDevs)
  BY DEF Inv, Sealed
<1>4. Ready(FALSE, <<>>)
  BY EmptySeq DEF Ready, Honest, Listing
<1>5. Named(Head(todo), Head(todo), FALSE)
  BY <1>2, <1>3 DEF Named, AtHome
<1>6. Waiting
  BY <1>1, <1>2, <1>3 DEF Waiting, AtHome
<1> QED BY <1>1, <1>2, <1>4, <1>5, <1>6, ArgStep

LEMMA SetOne ==
  ASSUME NEW S, NEW s \in Seq(S), NEW i \in 1 .. Len(s), NEW x, x \in S
  PROVE  /\ [s EXCEPT ![i] = x] \in Seq(S) /\ Len([s EXCEPT ![i] = x]) = Len(s)
         /\ \A j \in 1 .. Len(s) : [s EXCEPT ![i] = x][j] = IF j = i THEN x ELSE s[j]
  BY ExceptSeq

\* The frame on top with one entry less.
LEMMA EntryTaken ==
  ASSUME Inv, stack # <<>>, NEW top, top = stack[Len(stack)], NEW e \in top.left, NEW rest,
         rest = [stack EXCEPT ![Len(stack)] = [top EXCEPT !.left = @ \ {e}]]
  PROVE  /\ e \in Entry /\ top.dev \in Devs /\ Ready(seal, rest)
         /\ Unmounted /\ e.type \in {"reg", "dir"} => e.to = <<top.dev, e.ino>>
         /\ Unmounted /\ given.xdev => seal
<1> DEFINE less == [top EXCEPT !.left = @ \ {e}]
<1>1. /\ stack \in Seq(FrameOf) /\ Len(stack) \in Nat \ {0} /\ top \in FrameOf
      /\ seal \in BOOLEAN
  BY EmptySeq, ElementOfSeq DEF Inv, TypeOK
<1>2. less \in FrameOf /\ less.at = top.at /\ less.dev = top.dev /\ less.left \subseteq top.left
  BY <1>1 DEF FrameOf
<1>3. /\ rest \in Seq(FrameOf) /\ Len(rest) = Len(stack)
      /\ \A k \in 1 .. Len(stack) : rest[k] = IF k = Len(stack) THEN less ELSE stack[k]
  <2> HIDE DEF less
  <2>1. rest = [stack EXCEPT ![Len(stack)] = less]
    BY DEF less
  <2>2. Len(stack) \in 1 .. Len(stack)
    BY <1>1
  <2>3. /\ [stack EXCEPT ![Len(stack)] = less] \in Seq(FrameOf)
        /\ Len([stack EXCEPT ![Len(stack)] = less]) = Len(stack)
        /\ \A k \in 1 .. Len(stack) :
             [stack EXCEPT ![Len(stack)] = less][k] = IF k = Len(stack) THEN less ELSE stack[k]
    BY <1>1, <1>2, <2>2, SetOne
  <2> QED BY <2>1, <2>3, Zenon
<1> HIDE DEF less
<1>4. Unmounted => Honest(stack) /\ Listing(stack, dirs)
  BY DEF Inv
<1>5. Honest(stack) => Honest(rest)
  BY <1>1, <1>2, <1>3 DEF Honest
<1>6. Listing(stack, dirs) => Listing(rest, dirs)
  BY <1>1, <1>2, <1>3 DEF Listing
<1>7. Unmounted /\ given.xdev => seal
  BY DEF Inv, Sealed
<1>8. ASSUME Unmounted, e.type \in {"reg", "dir"} PROVE e.to = <<top.dev, e.ino>>
  <2>1. top.dev = Dev(top.at) /\ e \in Entries(top.at)
    BY <1>1, <1>4, <1>8 DEF Honest
  <2>2. top.at \in DOMAIN given.tree
    BY <2>1 DEF Entries
  <2> QED BY <1>8, <2>1, <2>2 DEF Unmounted, Plain
<1> QED BY <1>1, <1>3, <1>4, <1>5, <1>6, <1>7, <1>8 DEF Ready, FrameOf

LEMMA ReadDirInv == Inv /\ ReadDir => Inv'
<1> SUFFICES ASSUME Inv, ReadDir PROVE Inv'
  OBVIOUS
<1> DEFINE top     == stack[Len(stack)]
           rest(e) == [stack EXCEPT ![Len(stack)] = [top EXCEPT !.left = @ \ {e}]]
           id(e)   == <<top.dev, e.ino>>
<1>1. PICK e \in top.left :
        \/ e.type = "reg" /\ ProcessFile(id(e), e.to, seal, rest(e))
        \/ e.type = "dir" /\ ProcessDir(id(e), e.to, seal, rest(e))
        \/ e.type = "lnk" /\ ProcessArg(e.to, seal, rest(e))
        \/ e.type \notin {"reg", "dir", "lnk"} /\ Skip(seal, rest(e))
        \/ "long" \in given.faults /\ Skip(seal, rest(e))
  BY Zenon DEF ReadDir
<1>2. stack # <<>> /\ todo' = todo
  BY DEF ReadDir
<1>3. /\ e \in Entry /\ top.dev \in Devs /\ Ready(seal, rest(e))
      /\ Unmounted /\ e.type \in {"reg", "dir"} => e.to = id(e)
      /\ Unmounted /\ given.xdev => seal
  BY <1>2, EntryTaken
<1> HIDE DEF top, rest
<1>4. id(e) \in Objects /\ e.to \in Objects
  BY <1>3 DEF Entry, Objects
<1>5. Named(e.to, e.to, seal) /\ (e.type \in {"reg", "dir"} => Named(id(e), e.to, seal))
  BY <1>3, <1>4 DEF Named
<1>6. Waiting
  BY <1>2 DEF Waiting, Inv, TypeOK, Sealed
<1> HIDE DEF id
<1>7. CASE e.type = "reg" /\ ProcessFile(id(e), e.to, seal, rest(e))
  BY <1>3, <1>5, <1>6, <1>7, FileStep
<1>8. CASE e.type = "dir" /\ ProcessDir(id(e), e.to, seal, rest(e))
  BY <1>3, <1>5, <1>6, <1>8, DirStep
<1>9. CASE e.type = "lnk" /\ ProcessArg(e.to, seal, rest(e))
  BY <1>3, <1>4, <1>5, <1>6, <1>9, ArgStep
<1>10. CASE Skip(seal, rest(e))
  BY <1>3, <1>6, <1>10, SkipStep
<1> QED BY <1>1, <1>7, <1>8, <1>9, <1>10

LEMMA CloseDirInv == Inv /\ CloseDir => Inv'
<1> SUFFICES ASSUME Inv, CloseDir PROVE Inv'
  OBVIOUS
<1> DEFINE rest == SubSeq(stack, 1, Len(stack) - 1)
<1>1. stack \in Seq(FrameOf) /\ Len(stack) \in Nat \ {0} /\ seal \in BOOLEAN
  BY EmptySeq DEF CloseDir, Inv, TypeOK
<1>2. /\ rest \in Seq(FrameOf) /\ Len(rest) = Len(stack) - 1
      /\ \A k \in 1 .. Len(rest) : rest[k] = stack[k]
  <2> DEFINE n == Len(stack) - 1
  <2>1. n \in Nat /\ \A k \in 1 .. n : stack[k] \in FrameOf
    BY <1>1, ElementOfSeq
  <2> HIDE DEF n
  <2>2. /\ SubSeq(stack, 1, n) \in Seq(FrameOf) /\ Len(SubSeq(stack, 1, n)) = n
        /\ \A k \in 1 .. n : SubSeq(stack, 1, n)[k] = stack[k]
    BY <2>1, SubSeqProperties
  <2> QED BY <2>2 DEF n
<1>3. Skip(seal, rest) /\ stack # <<>> /\ todo' = todo
  BY DEF CloseDir
<1> HIDE DEF rest
<1>4. Unmounted => Honest(rest) /\ Listing(rest, dirs)
  BY <1>1, <1>2 DEF Inv, Honest, Listing
<1>5. Ready(seal, rest)
  BY <1>1, <1>2, <1>3, <1>4 DEF Ready, Inv, Sealed
<1>6. Waiting
  BY <1>3 DEF Waiting, Inv, TypeOK, Sealed
<1> QED BY <1>3, <1>5, <1>6, SkipStep

LEMMA StutterInv == Inv /\ UNCHANGED vars => Inv'
<1> SUFFICES ASSUME Inv, UNCHANGED vars PROVE Inv'
  OBVIOUS
<1>1. Unmounted' = Unmounted /\ ArgDevs' = ArgDevs /\ \A o : Entries(o)' = Entries(o)
  BY SameCase DEF vars
<1>2. TypeOK'
  BY DEF Inv, TypeOK, vars
<1>3. Unmounted => Honest(stack)' /\ Listing(stack, dirs)' /\ Recorded(printed, files)'
  BY <1>1 DEF Inv, Honest, Listing, Recorded, Dev, vars
<1>4. Unmounted /\ given.xdev => Sealed'
  BY <1>1 DEF Inv, Sealed, AtHome, Dev, vars
<1> QED BY <1>1, <1>2, <1>3, <1>4 DEF Inv, vars

\* The invariant holds of every tree, in every order readdir(3) may choose.
THEOREM Invariance == Spec => []Inv
<1>1. Inv /\ [Next]_vars => Inv'
  BY ArgumentInv, ReadDirInv, CloseDirInv, StutterInv, Zenon DEF Next
<1> QED BY InitInv, <1>1, PTL DEF Spec

\* OnceEach, for all trees in which nothing is mounted: no file is printed
\* twice, whatever hard and symbolic links lead to it.
THEOREM PrintedOnce == Spec => []OnceEach
<1>1. Inv => OnceEach
  <2> SUFFICES ASSUME Inv, Unmounted PROVE \A i, j \in DOMAIN printed : i # j => printed[i] # printed[j]
    BY DEF OnceEach
  <2>1. printed \in Seq(Objects) /\ Recorded(printed, files)
    BY DEF Inv, TypeOK
  <2> QED BY <2>1 DEF Recorded
<1> QED BY Invariance, <1>1, PTL

\* StaysHome, for all of them: -x keeps to the devices of the arguments.
THEOREM StaysOnItsDevices == Spec => []StaysHome
<1>1. Inv => StaysHome
  <2> SUFFICES ASSUME Inv, given.xdev, Unmounted
               PROVE \A i \in DOMAIN printed : Dev(printed[i]) \in ArgDevs
    BY DEF StaysHome
  <2>1. printed \in Seq(Objects) /\ known \subseteq ArgDevs /\ AtHome(printed, known)
    BY DEF Inv, TypeOK, Sealed
  <2> QED BY <2>1 DEF AtHome
<1> QED BY Invariance, <1>1, PTL

\* NoLoop, for all of them: no directory is listed inside itself, so the
\* depth of the recursion is bounded by the number of directories.
THEOREM NeverInsideItself == Spec => []NoLoop
<1>1. Inv => NoLoop
  <2> SUFFICES ASSUME Inv, Unmounted
               PROVE \A i, j \in DOMAIN stack : i # j => stack[i].at # stack[j].at
    BY DEF NoLoop
  <2>1. stack \in Seq(FrameOf) /\ Listing(stack, dirs)
    BY DEF Inv, TypeOK
  <2> QED BY <2>1 DEF Listing
<1> QED BY Invariance, <1>1, PTL

-----------------------------------------------------------------------------
(* Nothing is missed.  An object is found when it is a file that has been    *)
(* printed or a directory that has been seen; what an entry of a directory   *)
(* seen leads to has been found, or the entry is still to be read.           *)

Found(p) ==
  /\ Type(p) = "reg" => \E k \in 1 .. Len(printed) : printed[k] = p
  /\ Type(p) = "dir" => p \in dirs

\* An entry still to be read.
Unread(st, o, e) == \E k \in 1 .. Len(st) : st[k].at = o /\ e \in st[k].left

Near(o, p) == given.xdev => Dev(o) = Dev(p)

Clear == Unmounted /\ Told /\ given.unreadable = {} /\ given.faults = {}

Seen == files \subseteq {printed[k] : k \in 1 .. Len(printed)} /\ \A o \in dirs : Dev(o) \in known

\* But for entries that lead to p.
Followed(st, p) ==
  \A o \in dirs : \A e \in Entries(o) :
    Near(o, e.to) => Found(e.to) \/ Unread(st, o, e) \/ e.to = p

In(p, list)  == \E j \in 1 .. Len(list) : list[j] = p

Thorough ==
  /\ seal => given.xdev
  /\ Clear =>
       /\ Seen
       /\ \A o \in dirs : \A e \in Entries(o) : Near(o, e.to) => Found(e.to) \/ Unread(stack, o, e)
       /\ \A i \in 1 .. Len(given.args) : Found(given.args[i]) \/ In(given.args[i], todo)

\* The entry or the argument at hand.
AtHand(p, sealed, rest) ==
  /\ sealed => given.xdev
  /\ Clear =>
       /\ Seen /\ Followed(rest, p)
       /\ \A i \in 1 .. Len(given.args) :
            Found(given.args[i]) \/ In(given.args[i], todo') \/ (given.args[i] = p /\ ~sealed)

LEMMA SameTree ==
  ASSUME given' = given
  PROVE  /\ Clear' = Clear /\ \A o : Type(o)' = Type(o) /\ Entries(o)' = Entries(o)
         /\ \A o, p : Near(o, p)' = Near(o, p)
<1>1. \A o : Type(o)' = Type(o) /\ Entries(o)' = Entries(o) /\ Plain(o)' = Plain(o)
  BY Zenon DEF Type, Entries, Plain
<1>2. \A o, p : Near(o, p)' = Near(o, p)
  BY Zenon DEF Near
<1>3. Clear' = Clear
  BY <1>1, Zenon DEF Clear, Unmounted, Told
<1> QED BY <1>1, <1>2, <1>3

LEMMA FoundStays ==
  ASSUME NEW p, Found(p), given' = given, dirs \subseteq dirs',
         \A k \in 1 .. Len(printed) : k \in 1 .. Len(printed') /\ printed'[k] = printed[k]
  PROVE  Found(p)'
BY DEF Found, Type

\* What is at hand is found, or barred; what it brings is still to be read.
LEMMA HandleStep ==
  ASSUME Inv, NEW p, NEW sealed, NEW rest, AtHand(p, sealed, rest), given' = given, rest \in Seq(FrameOf),
         seal' => given.xdev, known \subseteq known',
         Clear => \/ Found(p)'
                  \/ sealed /\ Dev(p) \notin known,
         dirs \subseteq dirs',
         \A k \in 1 .. Len(printed) : k \in 1 .. Len(printed') /\ printed'[k] = printed[k],
         Clear => files' \subseteq {printed'[k] : k \in 1 .. Len(printed')},
         \/ stack' = rest /\ dirs' = dirs
         \/ /\ Clear => dirs' = dirs \cup {p} /\ stack' = Append(rest, Frame(p, p)) /\ Dev(p) \in known'
  PROVE  Thorough'
<1> SUFFICES ASSUME Clear PROVE Thorough'
  BY SameTree DEF Thorough
<1>1. \A o : Found(o) => Found(o)'
  BY FoundStays
<1>2. Seen' /\ Followed(rest, p) /\ Seen
  BY DEF Seen, AtHand
<1>3. ASSUME NEW o \in dirs, NEW e \in Entries(o), Near(o, e.to)
      PROVE  Found(e.to)' \/ Unread(rest, o, e)
  <2>1. Found(e.to) \/ Unread(rest, o, e) \/ e.to = p
    BY <1>2, <1>3 DEF Followed
  <2>2. CASE e.to = p
    <3>1. CASE Found(p)'
      BY <2>2, <3>1
    <3>2. CASE sealed /\ Dev(p) \notin known
      BY <1>2, <1>3, <2>2, <3>2 DEF Seen, Near, AtHand
    <3> QED BY <3>1, <3>2
  <2> QED BY <1>1, <2>1, <2>2
<1>4. ASSUME NEW o \in dirs', NEW e \in Entries(o), Near(o, e.to)
      PROVE  Found(e.to)' \/ Unread(stack', o, e)
  <2>1. CASE stack' = rest /\ dirs' = dirs
    BY <1>3, <1>4, <2>1
  <2>2. CASE dirs' = dirs \cup {p} /\ stack' = Append(rest, Frame(p, p))
    <3>1. /\ Len(stack') = Len(rest) + 1 /\ Len(rest) \in Nat /\ stack'[Len(rest) + 1] = Frame(p, p)
          /\ \A k \in 1 .. Len(rest) : stack'[k] = rest[k]
      BY <2>2
    <3>2. CASE o \in dirs
      <4>1. Unread(rest, o, e) => Unread(stack', o, e)
        BY <3>1 DEF Unread
      <4> QED BY <1>3, <1>4, <3>2, <4>1
    <3>3. CASE o = p
      <4>1. Frame(p, p).at = p /\ Frame(p, p).left = Entries(p)
        BY DEF Frame
      <4>2. Len(rest) + 1 \in 1 .. Len(stack')
        BY <3>1
      <4> QED BY <1>4, <3>1, <3>3, <4>1, <4>2 DEF Unread
    <3> QED BY <2>2, <3>2, <3>3
  <2> QED BY <2>1, <2>2
<1>5. ASSUME NEW i \in 1 .. Len(given.args) PROVE Found(given.args[i])' \/ In(given.args[i], todo')
  BY <1>1 DEF AtHand
<1>6. Clear' /\ given' = given /\ (seal' => given'.xdev)
  BY SameTree
<1>7. \A o \in dirs' : \A e \in Entries(o)' : Near(o, e.to)' => Found(e.to)' \/ Unread(stack', o, e)
  BY <1>4, SameTree
<1> QED BY <1>2, <1>5, <1>6, <1>7 DEF Thorough, Unread

LEMMA SkipHandles ==
  ASSUME Inv, NEW p, NEW sealed, NEW rest, AtHand(p, sealed, rest), rest \in Seq(FrameOf),
         Clear => Type(p) \notin {"reg", "dir"}, Skip(sealed, rest)
  PROVE  Thorough'
<1>1. Clear => Found(p)'
  BY DEF Found, Type, Skip
<1>2. /\ given' = given /\ seal' = sealed /\ known' = known /\ dirs' = dirs /\ files' = files
      /\ printed' = printed /\ stack' = rest
  BY DEF Skip
<1>3. Clear => files' \subseteq {printed'[k] : k \in 1 .. Len(printed')}
  BY <1>2 DEF AtHand, Seen
<1> QED BY <1>1, <1>2, <1>3, HandleStep DEF AtHand

LEMMA DevKnown ==
  ASSUME NEW dev, NEW sealed, ProcessDev(dev, sealed), sealed => given.xdev
  PROVE  /\ known \subseteq known'
         /\ seal' => given.xdev
         /\ ~Barred(dev, sealed) => dev \in known'
BY DEF ProcessDev

LEMMA FileHandles ==
  ASSUME Inv, NEW p \in Objects, NEW sealed, NEW rest, AtHand(p, sealed, rest), rest \in Seq(FrameOf),
         Clear => Type(p) = "reg", NEW id, Clear => id = p, ProcessFile(id, p, sealed, rest)
  PROVE  Thorough'
<1>1. given' = given /\ dirs' = dirs /\ stack' = rest /\ ProcessDev(Dev(id), sealed)
  BY DEF ProcessFile
<1>2. known \subseteq known' /\ (seal' => given.xdev)
  <2>1. sealed => given.xdev
    BY DEF AtHand
  <2> QED BY <1>1, <2>1, DevKnown
<1>3. printed \in Seq(Objects)
  BY DEF Inv, TypeOK
<1>4. /\ \A k \in 1 .. Len(printed) : k \in 1 .. Len(printed') /\ printed'[k] = printed[k]
      /\ Clear => files' \subseteq {printed'[k] : k \in 1 .. Len(printed')}
      /\ Clear => Found(p)' \/ (sealed /\ Dev(p) \notin known)
  <2>1. CASE Barred(Dev(id), sealed)
    <3>1. files' = files /\ printed' = printed
      BY <2>1 DEF ProcessFile
    <3> QED BY <2>1, <3>1 DEF Barred, AtHand, Seen
  <2>2. CASE id \in files
    <3>1. files' = files /\ printed' = printed
      BY <2>2 DEF ProcessFile
    <3>2. Clear => Found(p)'
      BY <1>1, <2>2, <3>1 DEF Found, Type, AtHand, Seen
    <3> QED BY <3>1, <3>2 DEF AtHand, Seen
  <2>3. CASE ~Barred(Dev(id), sealed) /\ id \notin files
    <3>1. files' = files \cup {id} /\ printed' = Append(printed, p)
      BY <2>3 DEF ProcessFile
    <3>2. /\ Len(printed') = Len(printed) + 1 /\ Len(printed) \in Nat /\ printed'[Len(printed) + 1] = p
          /\ \A k \in 1 .. Len(printed) : k \in 1 .. Len(printed') /\ printed'[k] = printed[k]
      BY <1>3, <3>1
    <3>3. Len(printed) + 1 \in 1 .. Len(printed')
      BY <3>2
    <3>4. Clear => Found(p)'
      BY <1>1, <3>2, <3>3 DEF Found, Type
    <3>5. Clear => files' \subseteq {printed'[k] : k \in 1 .. Len(printed')}
      <4> SUFFICES ASSUME Clear, NEW o \in files' PROVE \E k \in 1 .. Len(printed') : printed'[k] = o
        OBVIOUS
      <4>1. CASE o = p
        BY <3>2, <3>3, <4>1
      <4>2. CASE o \in files
        BY <3>2, <4>2 DEF AtHand, Seen
      <4> QED BY <3>1, <4>1, <4>2
    <3> QED BY <3>2, <3>4, <3>5
  <2> QED BY <2>1, <2>2, <2>3
<1> QED BY <1>1, <1>2, <1>4, HandleStep

LEMMA DirHandles ==
  ASSUME Inv, NEW p \in Objects, NEW sealed, NEW rest, AtHand(p, sealed, rest), rest \in Seq(FrameOf),
         Clear => Type(p) = "dir", NEW id, Clear => id = p, ProcessDir(id, p, sealed, rest)
  PROVE  Thorough'
<1>1. given' = given /\ files' = files /\ printed' = printed /\ ProcessDev(Dev(id), sealed)
  BY DEF ProcessDir
<1>2. known \subseteq known' /\ (seal' => given.xdev) /\ (~Barred(Dev(id), sealed) => Dev(id) \in known')
  <2>1. sealed => given.xdev
    BY DEF AtHand
  <2> QED BY <1>1, <2>1, DevKnown
<1>3. /\ \A k \in 1 .. Len(printed) : k \in 1 .. Len(printed') /\ printed'[k] = printed[k]
      /\ Clear => files' \subseteq {printed'[k] : k \in 1 .. Len(printed')}
  BY <1>1 DEF AtHand, Seen
<1>4. CASE Barred(Dev(id), sealed) \/ id \in dirs
  <2>1. stack' = rest /\ dirs' = dirs
    BY <1>4 DEF ProcessDir
  <2>2. Clear => Found(p)' \/ (sealed /\ Dev(p) \notin known)
    BY <1>1, <1>4, <2>1 DEF Found, Type, Barred
  <2> QED BY <1>1, <1>2, <1>3, <2>1, <2>2, HandleStep
<1>5. CASE ~Barred(Dev(id), sealed) /\ id \notin dirs
  <2>1. dirs' = dirs \cup {id}
    BY <1>5 DEF ProcessDir
  <2>2. Clear => dirs' = dirs \cup {p} /\ stack' = Append(rest, Frame(p, p)) /\ Dev(p) \in known'
    BY <1>2, <1>5 DEF ProcessDir, Clear
  <2>3. Clear => Found(p)'
    BY <1>1, <2>2 DEF Found, Type
  <2>4. dirs \subseteq dirs'
    BY <2>1
  <2> QED BY <1>1, <1>2, <1>3, <2>2, <2>3, <2>4, HandleStep
<1> QED BY <1>4, <1>5

LEMMA ArgHandles ==
  ASSUME Inv, NEW p \in Objects, NEW sealed, NEW rest, AtHand(p, sealed, rest), rest \in Seq(FrameOf),
         ProcessArg(p, sealed, rest)
  PROVE  Thorough'
<1>1. CASE Type(p) = "reg" /\ ProcessFile(p, p, sealed, rest)
  BY <1>1, FileHandles
<1>2. CASE Type(p) = "dir" /\ ProcessDir(p, p, sealed, rest)
  BY <1>2, DirHandles
<1>3. CASE Type(p) \in {"other", "none"} /\ Skip(sealed, rest)
  BY <1>3, SkipHandles
<1>4. CASE "open" \in given.faults /\ Skip(sealed, rest)
  BY <1>4, SkipHandles DEF Clear
<1> QED BY <1>1, <1>2, <1>3, <1>4 DEF ProcessArg

LEMMA ThoroughInit == Init => Thorough
<1> SUFFICES ASSUME Init PROVE Thorough
  OBVIOUS
<1>1. dirs = {} /\ files = {} /\ todo = given.args /\ seal = FALSE
  BY DEF Init
<1>2. \A i \in 1 .. Len(given.args) : In(given.args[i], todo)
  BY <1>1 DEF In
<1> QED BY <1>1, <1>2 DEF Thorough, Seen

LEMMA ArgumentThorough == Inv /\ Thorough /\ Argument => Thorough'
<1> SUFFICES ASSUME Inv, Thorough, Argument PROVE Thorough'
  OBVIOUS
<1>1. todo \in Seq(Objects) /\ todo # <<>> /\ stack = <<>> /\ todo' = Tail(todo) /\ ProcessArg(Head(todo), FALSE, <<>>)
  BY DEF Argument, Inv, TypeOK
<1>2. /\ Head(todo) \in Objects /\ Len(Tail(todo)) = Len(todo) - 1 /\ Len(todo) \in Nat \ {0}
      /\ Head(todo) = todo[1]
      /\ \A k \in 1 .. Len(Tail(todo)) : Tail(todo)[k] = todo[k + 1]
  BY <1>1, HeadTailProperties, EmptySeq
<1>3. \A o : In(o, todo) => In(o, todo') \/ o = Head(todo)
  <2> SUFFICES ASSUME NEW j \in 1 .. Len(todo), j # 1
               PROVE  \E k \in 1 .. Len(Tail(todo)) : Tail(todo)[k] = todo[j]
    BY <1>1, <1>2 DEF In
  <2>1. j - 1 \in 1 .. Len(Tail(todo)) /\ (j - 1) + 1 = j
    BY <1>2
  <2> QED BY <1>2, <2>1
<1>4. Len(stack) = 0
  BY <1>1, EmptySeq
<1>5. \A o, e : ~Unread(stack, o, e)
  BY <1>4 DEF Unread
<1>6. AtHand(Head(todo), FALSE, <<>>)
  <2>1. Clear => Seen /\ Followed(<<>>, Head(todo))
    BY <1>5 DEF Thorough, Followed
  <2>2. ASSUME Clear, NEW i \in 1 .. Len(given.args)
        PROVE  Found(given.args[i]) \/ In(given.args[i], todo') \/ given.args[i] = Head(todo)
    <3>1. Found(given.args[i]) \/ In(given.args[i], todo)
      BY <2>2 DEF Thorough
    <3> QED BY <1>3, <3>1
  <2> QED BY <2>1, <2>2 DEF AtHand
<1> QED BY <1>1, <1>2, <1>6, ArgHandles, EmptySeq

LEMMA ReadDirThorough == Inv /\ Thorough /\ ReadDir => Thorough'
<1> SUFFICES ASSUME Inv, Thorough, ReadDir PROVE Thorough'
  OBVIOUS
<1> DEFINE top     == stack[Len(stack)]
           rest(e) == [stack EXCEPT ![Len(stack)] = [top EXCEPT !.left = @ \ {e}]]
           id(e)   == <<top.dev, e.ino>>
<1>1. PICK e \in top.left :
        \/ e.type = "reg" /\ ProcessFile(id(e), e.to, seal, rest(e))
        \/ e.type = "dir" /\ ProcessDir(id(e), e.to, seal, rest(e))
        \/ e.type = "lnk" /\ ProcessArg(e.to, seal, rest(e))
        \/ e.type \notin {"reg", "dir", "lnk"} /\ Skip(seal, rest(e))
        \/ "long" \in given.faults /\ Skip(seal, rest(e))
  BY Zenon DEF ReadDir
<1>2. stack # <<>> /\ todo' = todo
  BY DEF ReadDir
<1>3. /\ e \in Entry /\ top.dev \in Devs /\ Ready(seal, rest(e))
      /\ Unmounted /\ e.type \in {"reg", "dir"} => e.to = id(e)
  BY <1>2, EntryTaken
<1>4. \A o, d : Unread(stack, o, d) => Unread(rest(e), o, d) \/ d = e
  <2>1. stack \in Seq(FrameOf) /\ Len(stack) \in 1 .. Len(stack) /\ top \in FrameOf
    BY <1>2, EmptySeq, ElementOfSeq DEF Inv, TypeOK
  <2> DEFINE less == [top EXCEPT !.left = @ \ {e}]
  <2>2. less \in FrameOf /\ less.at = top.at /\ less.left = top.left \ {e}
    BY <2>1 DEF FrameOf
  <2> HIDE DEF less
  <2>3. rest(e) = [stack EXCEPT ![Len(stack)] = less]
    BY DEF less
  <2>4. /\ Len([stack EXCEPT ![Len(stack)] = less]) = Len(stack)
        /\ \A k \in 1 .. Len(stack) :
             [stack EXCEPT ![Len(stack)] = less][k] = IF k = Len(stack) THEN less ELSE stack[k]
    BY <2>1, <2>2, SetOne
  <2> DEFINE now == rest(e)
  <2>5. /\ Len(now) = Len(stack)
        /\ \A k \in 1 .. Len(stack) : now[k] = IF k = Len(stack) THEN less ELSE stack[k]
    BY <2>3, <2>4, Zenon
  <2> HIDE DEF now
  <2>6. \A o, d : Unread(stack, o, d) => Unread(now, o, d) \/ d = e
    BY <2>2, <2>5 DEF Unread
  <2> QED BY <2>6 DEF now
<1> HIDE DEF top, rest
<1>5. e.to \in Objects /\ (Clear /\ e.type \in {"reg", "dir"} => e.to = id(e))
  BY <1>3 DEF Entry, Clear
<1>6. rest(e) \in Seq(FrameOf)
  BY <1>3 DEF Ready
<1>7. ASSUME Clear PROVE e.type # "lnk" => Type(e.to) = e.type
  <2>1. top.left \subseteq Entries(top.at)
    <3>1. Honest(stack) /\ Len(stack) \in 1 .. Len(stack)
      BY <1>2, <1>7, EmptySeq DEF Inv, TypeOK, Clear
    <3> QED BY <3>1 DEF Honest, top
  <2>2. e \in Entries(top.at) /\ top.at \in DOMAIN given.tree
    BY <2>1 DEF Entries
  <2> QED BY <1>7, <2>2 DEF Clear, Told
<1>8. AtHand(e.to, seal, rest(e))
  <2>1. Clear => Followed(rest(e), e.to)
    BY <1>4 DEF Thorough, Followed
  <2>2. \A o : In(o, todo') = In(o, todo)
    BY <1>2 DEF In
  <2>3. Clear => Seen /\ \A i \in 1 .. Len(given.args) : Found(given.args[i]) \/ In(given.args[i], todo)
    BY DEF Thorough
  <2>4. seal => given.xdev
    BY DEF Thorough
  <2> QED BY <2>1, <2>2, <2>3, <2>4 DEF AtHand
<1>9. CASE e.type = "reg" /\ ProcessFile(id(e), e.to, seal, rest(e))
  BY <1>5, <1>6, <1>7, <1>8, <1>9, FileHandles
<1>10. CASE e.type = "dir" /\ ProcessDir(id(e), e.to, seal, rest(e))
  BY <1>5, <1>6, <1>7, <1>8, <1>10, DirHandles
<1>11. CASE ProcessArg(e.to, seal, rest(e))
  BY <1>5, <1>6, <1>8, <1>11, ArgHandles
<1>12. CASE e.type \notin {"reg", "dir", "lnk"} /\ Skip(seal, rest(e))
  BY <1>5, <1>6, <1>7, <1>8, <1>12, SkipHandles
<1>13. CASE "long" \in given.faults /\ Skip(seal, rest(e))
  BY <1>6, <1>8, <1>13, SkipHandles DEF Clear
<1> QED BY <1>1, <1>9, <1>10, <1>11, <1>12, <1>13

LEMMA CloseDirThorough == Inv /\ Thorough /\ CloseDir => Thorough'
<1> SUFFICES ASSUME Inv, Thorough, CloseDir PROVE Thorough'
  OBVIOUS
<1> DEFINE rest == SubSeq(stack, 1, Len(stack) - 1)
<1>1. /\ stack' = rest /\ seal' = seal /\ todo' = todo /\ given' = given /\ known' = known
      /\ dirs' = dirs /\ files' = files /\ printed' = printed
      /\ stack # <<>> /\ stack[Len(stack)].left = {}
  BY DEF CloseDir, Skip
<1>2. stack \in Seq(FrameOf) /\ Len(stack) \in Nat \ {0}
  BY <1>1, EmptySeq DEF Inv, TypeOK
<1>3. Len(rest) = Len(stack) - 1 /\ \A k \in 1 .. Len(rest) : rest[k] = stack[k]
  <2> DEFINE n == Len(stack) - 1
  <2>1. n \in Nat /\ \A k \in 1 .. n : stack[k] \in FrameOf
    BY <1>2, ElementOfSeq
  <2> HIDE DEF n
  <2>2. Len(SubSeq(stack, 1, n)) = n /\ \A k \in 1 .. n : SubSeq(stack, 1, n)[k] = stack[k]
    BY <2>1, SubSeqProperties
  <2> QED BY <2>2 DEF n
<1> HIDE DEF rest
<1>4. \A o, e : Unread(stack, o, e) => Unread(stack', o, e)
  <2> SUFFICES ASSUME NEW o, NEW e, NEW k \in 1 .. Len(stack), stack[k].at = o, e \in stack[k].left
               PROVE  Unread(rest, o, e)
    BY <1>1 DEF Unread
  <2>1. k \in 1 .. Len(rest)
    BY <1>1, <1>2, <1>3
  <2> QED BY <1>3, <2>1 DEF Unread
<1>5. \A p : Found(p)' <=> Found(p)
  BY <1>1 DEF Found, Type
<1>6. Clear => Seen'
  BY <1>1 DEF Thorough, Seen
<1>7. Clear => \A o \in dirs : \A e \in Entries(o) : Near(o, e.to) => Found(e.to)' \/ Unread(stack', o, e)
  BY <1>4, <1>5 DEF Thorough
<1>8. /\ Clear' = Clear /\ \A o : Entries(o)' = Entries(o)
      /\ \A o, p : Near(o, p)' = Near(o, p)
  BY <1>1, SameTree
<1>9. Clear => \A i \in 1 .. Len(given.args) : Found(given.args[i])' \/ In(given.args[i], todo')
  BY <1>1, <1>5 DEF Thorough
<1>10. seal => given.xdev
  BY DEF Thorough
<1> QED BY <1>1, <1>6, <1>7, <1>8, <1>9, <1>10 DEF Thorough, Unread, In

LEMMA StutterThorough == Thorough /\ UNCHANGED vars => Thorough'
<1> SUFFICES ASSUME Thorough, UNCHANGED vars PROVE Thorough'
  OBVIOUS
<1>1. /\ stack' = stack /\ seal' = seal /\ todo' = todo /\ given' = given /\ known' = known
      /\ dirs' = dirs /\ files' = files /\ printed' = printed
  BY DEF vars
<1>2. Clear' = Clear /\ (\A o : Entries(o)' = Entries(o)) /\ \A o, p : Near(o, p)' = Near(o, p)
  BY <1>1, SameTree
<1>3. \A p : Found(p)' <=> Found(p)
  BY <1>1 DEF Found, Type
<1>4. \A o, e : Unread(stack', o, e) <=> Unread(stack, o, e)
  BY <1>1 DEF Unread
<1>5. Clear => Seen'
  BY <1>1 DEF Thorough, Seen
<1>6. Clear => \A o \in dirs : \A e \in Entries(o) : Near(o, e.to) => Found(e.to)' \/ Unread(stack', o, e)
  BY <1>3, <1>4 DEF Thorough
<1>7. Clear => \A i \in 1 .. Len(given.args) : Found(given.args[i])' \/ In(given.args[i], todo')
  BY <1>1, <1>3 DEF Thorough
<1>8. seal => given.xdev
  BY DEF Thorough
<1> QED BY <1>1, <1>2, <1>5, <1>6, <1>7, <1>8 DEF Thorough, Unread, In

\* NothingMissed, for all trees in which nothing is mounted, whose types are
\* told and whose directories can be read, where arguments and links can be
\* opened and named and no path is too long: a file that an argument leads to,
\* by directories and links in circles or not, is printed; with -x it is if
\* every step to it stays on one device.
THEOREM EveryFileIsFound == Spec => []NothingMissed
<1>1. Inv /\ Thorough /\ [Next]_vars => Thorough'
  BY ArgumentThorough, ReadDirThorough, CloseDirThorough, StutterThorough, Zenon DEF Next
<1>2. Inv /\ Thorough => NothingMissed
  <2> SUFFICES ASSUME Inv, Thorough, Done, Clear, NEW i \in DOMAIN given.args,
                      NEW o \in ReachedFrom(given.args[i]), Type(o) = "reg"
               PROVE  \E k \in DOMAIN printed : printed[k] = o
    BY DEF NothingMissed, Clear
  <2> DEFINE start == given.args[i]
             all   == DOMAIN given.tree \cup {start}
             found == {p \in all : Found(p)}
  <2>1. given.args \in Seq(Objects) /\ printed \in Seq(Objects)
    BY CaseAssumption DEF Inv, TypeOK
  <2>2. Len(stack) = 0 /\ Len(todo) = 0
    BY EmptySeq DEF Done
  <2>3. (\A p, e : ~Unread(stack, p, e)) /\ \A p : ~In(p, todo)
    BY <2>2 DEF Unread, In
  <2>4. start \in found
    <3>1. i \in 1 .. Len(given.args)
      BY <2>1
    <3> QED BY <2>3, <3>1 DEF Thorough
  <2>5. ASSUME NEW p \in found, NEW q \in all, Leads(p, q) PROVE q \in found
    <3>1. PICK e \in Entries(p) : e.to = q
      BY <2>5 DEF Leads
    <3>2. p \in DOMAIN given.tree /\ given.tree[p] \in Node /\ e \in given.tree[p].entries
      BY <3>1, CaseAssumption DEF Entries, Inv, TypeOK
    <3>3. given.tree[p].type = "dir"
      BY <3>2 DEF Node
    <3>4. p \in dirs
      BY <3>2, <3>3 DEF Found, Type
    <3>5. Near(p, e.to)
      BY <2>5, <3>1 DEF Leads, Near
    <3> QED BY <2>3, <3>1, <3>4, <3>5 DEF Thorough
  <2>6. o \in found
    <3>1. found \in SUBSET all
      OBVIOUS
    <3>2. o \in all /\ \A some \in SUBSET all :
            start \in some /\ (\A p \in some : \A q \in all : Leads(p, q) => q \in some) => o \in some
      BY DEF ReachedFrom
    <3> HIDE DEF found, all, start
    <3> QED BY <2>4, <2>5, <3>1, <3>2
  <2>7. Found(o)
    BY <2>6
  <2> QED BY <2>1, <2>7 DEF Found
<1> QED BY ThoroughInit, Invariance, <1>1, <1>2, PTL DEF Spec

-----------------------------------------------------------------------------
(* is-elf: no file is judged for what another one was.                       *)

\* A file as it may be found on the disk.
OneFile == [opens : BOOLEAN, regular : BOOLEAN, long : BOOLEAN, ehdr : E!Header]

\* The numbers listed are those of the arguments before n that are ELF files.
Verdicts(list, n) ==
  /\ \A i \in 1 .. n : (\E h \in seen[i] : E!IsElfHeader(h)) <=> \E k \in 1 .. Len(list) : list[k] = i
  /\ \A k \in 1 .. Len(list) : list[k] \in 1 .. n
  /\ \A j, k \in 1 .. Len(list) : j < k => list[j] < list[k]

\* The descriptor is held only between open(2) and close(2), and what has been
\* read is of the file at hand.
ElfInv ==
  /\ \E n \in Nat : disk \in [1 .. n -> OneFile] /\ DOMAIN seen = 1 .. n
  /\ at \in Nat \ {0} /\ listed \in Seq(Nat)
  /\ pc \in {"open", "stat", "read", "judge"}
  /\ pc # "open" => at \in DOMAIN disk
  /\ fds = IF pc \in {"stat", "read"} THEN 1 ELSE 0
  /\ at <= Len(disk) + 1
  /\ pc = "judge" => n_buf \in E!Header /\ seen[at] = {n_buf}
  /\ \A i \in DOMAIN seen : i > at \/ (i = at /\ pc # "judge") => seen[i] = {}
  /\ Verdicts(listed, at - 1)
  /\ \A i \in 1 .. at - 1 : seen[i] = {} => ~disk[i].opens \/ ~disk[i].regular \/ ~disk[i].long

LEMMA NumberAgrees ==
  ASSUME NEW f \in E!Field, NEW bo, NEW n \in Nat \ {0}
  PROVE  E!ToHost(f, bo) = n <=> f.value = n /\ f.order = (IF bo = 1 THEN "lsb" ELSE "msb")
BY DEF E!Field, E!ToHost, E!Lsb

\* The byte order a header names is that of its fields, or the numbers differ.
LEMMA JudgedRight ==
  ASSUME NEW h \in E!Header
  PROVE  E!Marked(h) /\ E!Known(h) <=> E!IsElfHeader(h)
<1>1. /\ h.sig \in E!Field /\ h.type \in E!Field /\ h.machine \in E!Field /\ h.eversion \in E!Field
      /\ h.data \in Nat
  BY DEF E!Header
<1>2. E!Signature = 2135247942 /\ E!EvCurrent = 1 /\ E!Lsb = 1 /\ E!Msb = 2 /\ E!FirstOrder = 0
      /\ E!Types = {1, 2, 3} /\ E!Machines = {3, 21, 22, 62, 183}
  BY DEF E!Signature, E!EvCurrent, E!Lsb, E!Msb, E!FirstOrder, E!None, E!Types, E!Machines
<1>3. E!Marked(h) <=> h.sig = [value |-> E!Signature, order |-> "msb"] /\ h.class \in E!Classes
  <2>1. E!ToHost(h.sig, 0) = 2135247942 <=> h.sig.value = 2135247942 /\ h.sig.order = "msb"
    BY <1>1, NumberAgrees
  <2>2. h.sig = [value |-> 2135247942, order |-> "msb"] <=> h.sig.value = 2135247942 /\ h.sig.order = "msb"
    BY <1>1 DEF E!Field
  <2> QED BY <1>2, <2>1, <2>2 DEF E!Marked
<1>4. \A f \in E!Field : \A ns \in {E!Types, E!Machines, {E!EvCurrent}} :
        E!ToHost(f, h.data) \in ns <=> f.value \in ns /\ f.order = (IF h.data = 1 THEN "lsb" ELSE "msb")
  BY <1>2, NumberAgrees
<1>5. E!Known(h) <=>
        /\ h.data \in {1, 2} /\ h.version = E!EvCurrent /\ h.osabi \in E!Abis
        /\ h.type.value \in E!Types /\ h.machine.value \in E!Machines /\ h.eversion.value = E!EvCurrent
        /\ {h.type.order, h.machine.order, h.eversion.order} = {IF h.data = 1 THEN "lsb" ELSE "msb"}
  BY <1>1, <1>2, <1>4 DEF E!Known
<1>6. ASSUME NEW orders
      PROVE  (\E order \in {"lsb", "msb"} : h.data = (IF order = "lsb" THEN E!Lsb ELSE E!Msb) /\ orders = {order})
               <=> h.data \in {1, 2} /\ orders = {IF h.data = 1 THEN "lsb" ELSE "msb"}
  BY <1>2
<1> QED BY <1>3, <1>5, <1>6 DEF E!IsElfHeader

LEMMA ElfInit == E!EInit => ElfInv
<1> SUFFICES ASSUME E!EInit PROVE ElfInv
  OBVIOUS
<1>1. PICK n \in Nat : disk \in [1 .. n -> Files]
  BY InstanceAssumption DEF E!EInit, E!FileAssumption
<1>2. disk \in [1 .. n -> OneFile] /\ DOMAIN seen = 1 .. n /\ Len(disk) = n
  BY <1>1, InstanceAssumption DEF E!EInit, E!FileAssumption, OneFile
<1>3. listed = <<>> /\ at = 1 /\ pc = "open" /\ fds = 0
  BY DEF E!EInit
<1>4. Len(<<>>) = 0 /\ listed \in Seq(Nat) /\ \A i \in DOMAIN seen : seen[i] = {}
  BY <1>3, EmptySeq DEF E!EInit
<1>5. Verdicts(<<>>, 0)
  BY <1>4 DEF Verdicts
<1> QED BY <1>2, <1>3, <1>4, <1>5 DEF ElfInv

\* The verdict on one more argument.
LEMMA Judged ==
  ASSUME NEW n \in Nat, NEW list \in Seq(Nat), Verdicts(list, n), NEW is \in BOOLEAN,
         is <=> \E h \in seen[n + 1] : E!IsElfHeader(h),
         NEW new, new = IF is THEN Append(list, n + 1) ELSE list
  PROVE  Verdicts(new, n + 1) /\ new \in Seq(Nat)
<1> DEFINE l == Len(list)
<1>1. l \in Nat /\ \A i \in 1 .. n + 1 : i \in 1 .. n \/ i = n + 1
  OBVIOUS
<1>2. CASE is
  <2>1. /\ new \in Seq(Nat) /\ Len(new) = l + 1 /\ new[l + 1] = n + 1
        /\ \A k \in 1 .. l : new[k] = list[k]
    BY <1>2
  <2> HIDE DEF l
  <2>2. /\ \A k \in 1 .. l + 1 : k \in 1 .. l \/ k = l + 1
        /\ l + 1 \in 1 .. l + 1 /\ \A k \in 1 .. l : k \in 1 .. l + 1
    BY <1>1
  <2>3. /\ \A i \in 1 .. n : (\E h \in seen[i] : E!IsElfHeader(h)) <=> \E k \in 1 .. l : list[k] = i
        /\ \A k \in 1 .. l : list[k] \in 1 .. n
        /\ \A j, k \in 1 .. l : j < k => list[j] < list[k]
    BY DEF Verdicts, l
  <2>4. ASSUME NEW k \in 1 .. l + 1 PROVE new[k] \in 1 .. n + 1
    <3>1. CASE k = l + 1
      BY <2>1, <3>1
    <3>2. CASE k \in 1 .. l
      <4>1. new[k] = list[k] /\ list[k] \in 1 .. n
        BY <2>1, <2>3, <3>2
      <4>2. \A i \in 1 .. n : i \in 1 .. n + 1
        OBVIOUS
      <4> QED BY <4>1, <4>2
    <3> QED BY <2>2, <3>1, <3>2
  <2>5. ASSUME NEW i \in 1 .. n + 1
        PROVE  (\E h \in seen[i] : E!IsElfHeader(h)) <=> \E k \in 1 .. l + 1 : new[k] = i
    <3>1. CASE i = n + 1
      BY <1>2, <2>1, <2>2, <3>1
    <3>2. CASE i # n + 1
      <4>1. i \in 1 .. n
        BY <1>1, <3>2
      <4>2. \A k \in 1 .. l + 1 : new[k] = i => k \in 1 .. l /\ list[k] = i
        BY <2>1, <2>2, <3>2
      <4> QED BY <2>1, <2>2, <2>3, <4>1, <4>2
    <3> QED BY <3>1, <3>2
  <2>6. ASSUME NEW j \in 1 .. l + 1, NEW k \in 1 .. l + 1, j < k PROVE new[j] < new[k]
    <3>1. j \in 1 .. l
      BY <1>1, <2>2, <2>6
    <3> QED BY <1>1, <2>1, <2>2, <2>3, <2>6, <3>1
  <2> QED BY <2>1, <2>4, <2>5, <2>6 DEF Verdicts
<1>3. CASE ~is
  BY <1>1, <1>3 DEF Verdicts
<1> QED BY <1>2, <1>3

LEMMA ElfStep == ElfInv /\ [E!ENext]_(E!evars) => ElfInv'
<1> SUFFICES ASSUME ElfInv, [E!ENext]_(E!evars) PROVE ElfInv'
  OBVIOUS
<1>1. PICK n \in Nat : disk \in [1 .. n -> OneFile] /\ DOMAIN seen = 1 .. n
  BY DEF ElfInv
<1>2. Len(disk) = n /\ DOMAIN disk = 1 .. n /\ at \in Nat \ {0} /\ at <= n + 1
  BY <1>1 DEF ElfInv
<1>3. FdMax >= 1 /\ FdMax \in Nat
  BY InstanceAssumption DEF E!FileAssumption
<1>4. (\A i \in 1 .. at : i \in 1 .. at - 1 \/ i = at) /\ (at - 1) + 1 = at /\ at - 1 \in Nat
  BY <1>2
<1>5. listed \in Seq(Nat) /\ Verdicts(listed, at - 1)
  BY DEF ElfInv
\* A file passed over, for what it is.
<1>6. ASSUME at <= n, disk' = disk, seen' = seen, listed' = listed, at' = at + 1, pc' = "open", fds' = 0,
             pc # "judge", ~disk[at].opens \/ ~disk[at].regular \/ ~disk[at].long
      PROVE  ElfInv'
  <2>1. at' - 1 = at /\ seen[at] = {} /\ ~ \E h \in seen[(at - 1) + 1] : E!IsElfHeader(h)
    BY <1>1, <1>2, <1>6 DEF ElfInv
  <2>2. Verdicts(listed, at)
    BY <1>4, <1>5, <2>1, Judged
  <2>3. Verdicts(listed, at - 1)' 
    BY <1>6, <2>1, <2>2 DEF Verdicts
  <2>4. \A i \in 1 .. at : seen[i] = {} => ~disk[i].opens \/ ~disk[i].regular \/ ~disk[i].long
    BY <1>4, <1>6 DEF ElfInv
  <2>5. \A i \in DOMAIN seen : i > at => seen[i] = {}
    BY DEF ElfInv
  <2>6. \A i \in DOMAIN seen' : i > at' \/ i = at' => seen'[i] = {}
    BY <1>1, <1>2, <1>6, <2>5
  <2>7. at' \in Nat \ {0} /\ at' <= n + 1
    BY <1>2, <1>6
  <2> QED BY <1>1, <1>2, <1>5, <1>6, <2>1, <2>3, <2>4, <2>6, <2>7 DEF ElfInv
\* A file gone on with.
<1>7. ASSUME at <= n, disk' = disk, seen' = seen, listed' = listed, at' = at,
             pc \in {"open", "stat"}, pc' \in {"stat", "read"}, fds' = 1
      PROVE  ElfInv'
  <2>1. Verdicts(listed, at - 1)'
    BY <1>5, <1>7 DEF Verdicts
  <2> QED BY <1>1, <1>2, <1>7, <2>1 DEF ElfInv
<1>8. CASE E!Open
  <2>1. at <= n /\ pc = "open" /\ fds = 0 /\ disk' = disk /\ seen' = seen /\ listed' = listed
    BY <1>2, <1>8 DEF E!Open, E!Busy, ElfInv
  <2>2. CASE disk[at].opens
    BY <1>3, <1>7, <1>8, <2>1, <2>2 DEF E!Open
  <2>3. CASE ~disk[at].opens
    BY <1>6, <1>8, <2>1, <2>3 DEF E!Open
  <2> QED BY <2>2, <2>3
<1>9. CASE E!Stat
  <2>1. at <= n /\ pc = "stat" /\ fds = 1 /\ disk' = disk /\ seen' = seen /\ listed' = listed
    BY <1>2, <1>9 DEF E!Stat, E!Busy, ElfInv
  <2>2. CASE disk[at].regular /\ disk[at].long
    BY <1>7, <1>9, <2>1, <2>2 DEF E!Stat
  <2>3. CASE ~disk[at].regular \/ ~disk[at].long
    BY <1>6, <1>9, <2>1, <2>3 DEF E!Stat, E!Cleanup
  <2> QED BY <2>2, <2>3
<1>10. CASE E!ReadHeader
  <2>1. at <= n /\ pc = "read" /\ fds = 1 /\ disk' = disk /\ listed' = listed /\ at \in 1 .. n
    BY <1>2, <1>10 DEF E!ReadHeader, E!Busy, ElfInv
  <2>2. CASE disk[at].long
    <3>1. /\ n_buf' = disk[at].ehdr /\ seen' = [seen EXCEPT ![at] = {n_buf'}] /\ fds' = 0 /\ pc' = "judge" /\ at' = at
      BY <1>10, <2>1, <2>2 DEF E!ReadHeader
    <3>2. n_buf' \in E!Header
      BY <1>1, <2>1, <3>1 DEF OneFile
    <3>3. seen'[at] = {n_buf'} /\ DOMAIN seen' = 1 .. n /\ \A i \in 1 .. n : i # at => seen'[i] = seen[i]
      BY <1>1, <2>1, <3>1
    <3>4. \A i \in 1 .. at - 1 : i \in 1 .. n /\ i # at
      BY <1>2, <2>1
    <3>5. Verdicts(listed, at - 1)'
      BY <1>5, <2>1, <3>1, <3>3, <3>4 DEF Verdicts
    <3>6. \A i \in DOMAIN seen' : i > at => seen'[i] = {}
      BY <1>1, <2>1, <3>3 DEF ElfInv
    <3>7. \A i \in 1 .. at - 1 : seen'[i] = {} => ~disk[i].opens \/ ~disk[i].regular \/ ~disk[i].long
      BY <3>3, <3>4 DEF ElfInv
    <3> QED BY <1>1, <1>2, <2>1, <3>1, <3>2, <3>3, <3>5, <3>6, <3>7 DEF ElfInv
  <2>3. CASE ~disk[at].long
    BY <1>6, <1>10, <2>1, <2>3 DEF E!ReadHeader, E!Cleanup
  <2> QED BY <2>2, <2>3
<1>11. CASE E!Judge
  <2>1. /\ at <= n /\ pc = "judge" /\ fds = 0 /\ disk' = disk /\ seen' = seen /\ at' = at + 1 /\ pc' = "open"
        /\ fds' = 0 /\ n_buf \in E!Header /\ seen[at] = {n_buf}
    BY <1>2, <1>11 DEF E!Judge, E!Busy, ElfInv
  <2> DEFINE is == E!IsElfHeader(n_buf)
  <2>2. listed' = IF is THEN Append(listed, (at - 1) + 1) ELSE listed
    BY <1>4, <1>11, <2>1, JudgedRight DEF E!Judge
  <2>3. is \in BOOLEAN /\ (is <=> \E h \in seen[(at - 1) + 1] : E!IsElfHeader(h))
    BY <1>4, <2>1 DEF E!IsElfHeader
  <2> HIDE DEF is
  <2>4. Verdicts(listed', at) /\ listed' \in Seq(Nat)
    BY <1>4, <1>5, <2>2, <2>3, Judged
  <2>5. at' - 1 = at
    BY <1>2, <2>1
  <2>6. Verdicts(listed, at - 1)'
    BY <2>1, <2>4, <2>5 DEF Verdicts
  <2>7. \A i \in 1 .. at : seen[i] = {} => ~disk[i].opens \/ ~disk[i].regular \/ ~disk[i].long
    BY <1>4, <2>1 DEF ElfInv
  <2>8. \A i \in DOMAIN seen : i > at => seen[i] = {}
    BY DEF ElfInv
  <2>9. \A i \in DOMAIN seen' : i > at' \/ i = at' => seen'[i] = {}
    BY <1>1, <1>2, <2>1, <2>8
  <2>10. at' \in Nat \ {0} /\ at' <= n + 1
    BY <1>2, <2>1
  <2> QED BY <1>1, <1>2, <2>1, <2>4, <2>5, <2>6, <2>7, <2>9, <2>10 DEF ElfInv
<1>12. ASSUME NEW i \in DOMAIN disk, E!Truncate(i) PROVE ElfInv'
  <2>1. /\ disk' = [disk EXCEPT ![i].long = FALSE] /\ at' = at /\ pc' = pc /\ fds' = fds /\ n_buf' = n_buf
        /\ listed' = listed /\ seen' = seen /\ i \in 1 .. n
    BY <1>2, <1>12 DEF E!Truncate
  <2>2. /\ disk' \in [1 .. n -> OneFile]
        /\ \A j \in 1 .. n : /\ disk'[j].opens = disk[j].opens /\ disk'[j].regular = disk[j].regular
                             /\ disk'[j].long => disk[j].long
    BY <1>1, <2>1 DEF OneFile
  <2>3. Len(disk') = n /\ DOMAIN disk' = 1 .. n
    BY <2>2
  <2>4. \A j \in 1 .. at - 1 : j \in 1 .. n
    BY <1>2
  <2>5. \A j \in 1 .. at - 1 : seen'[j] = {} => ~disk'[j].opens \/ ~disk'[j].regular \/ ~disk'[j].long
    BY <2>1, <2>2, <2>4 DEF ElfInv
  <2>6. Verdicts(listed, at - 1)'
    BY <1>5, <2>1 DEF Verdicts
  <2> QED BY <1>1, <1>2, <2>1, <2>2, <2>3, <2>5, <2>6 DEF ElfInv
<1>13. CASE UNCHANGED E!evars
  BY <1>13 DEF E!evars, ElfInv, Verdicts
<1>14. CASE E!Ended
  BY <1>13, <1>14 DEF E!Ended
<1> QED BY <1>8, <1>9, <1>10, <1>11, <1>12, <1>13, <1>14 DEF E!ENext

\* EachByItself, for any number of files of any kind, truncated at any time,
\* and as few descriptors as one.
THEOREM NoFileMattersToAnother == E!ESpec => []EachByItself
<1>1. ElfInv => EachByItself
  <2> SUFFICES ASSUME ElfInv PROVE E!OwnVerdict /\ E!NoneSkipped
    BY DEF EachByItself, E!EachByItself
  <2>1. E!NoneSkipped
    BY DEF ElfInv, E!NoneSkipped
  <2>2. E!OwnVerdict
    <3>1. Verdicts(listed, at - 1) /\ listed \in Seq(Nat)
      BY DEF ElfInv
    <3>2. DOMAIN listed = 1 .. Len(listed)
      BY <3>1
    <3> QED BY <3>1, <3>2 DEF Verdicts, E!OwnVerdict
  <2> QED BY <2>1, <2>2
<1> QED BY ElfInit, ElfStep, <1>1, PTL DEF E!ESpec

-----------------------------------------------------------------------------
(* LogStderr.  Places in a text, and how texts begin.                        *)

LEMMA LeastIn ==
  ASSUME NEW T \in SUBSET Nat, T # {}
  PROVE  \E m \in T : \A k \in T : m <= k
<1>1. \E m \in T : \A k \in T : <<k, m>> \notin OpToRel(<, Nat)
  BY NatLessThanWellFounded, WFMin, Zenon
<1>2. PICK m \in T : \A k \in T : <<k, m>> \notin OpToRel(<, Nat)
  BY <1>1
<1>3. ASSUME NEW k \in T, k < m PROVE FALSE
  <2>1. <<k, m>> \in Nat \X Nat /\ <<k, m>>[1] < <<k, m>>[2]
    BY <1>3
  <2>2. <<k, m>> \in OpToRel(<, Nat)
    BY <2>1 DEF OpToRel
  <2> QED BY <1>2, <2>2
<1> QED BY <1>3

LEMMA LeastOf ==
  ASSUME NEW a \in Int, NEW b \in Int
  PROVE  L!Least(a, b) = IF a <= b THEN a ELSE b
<1>1. \E k \in {a, b} : \A j \in {a, b} : k <= j
  OBVIOUS
<1>2. L!Min({a, b}) \in {a, b} /\ \A k \in {a, b} : L!Min({a, b}) <= k
  BY <1>1 DEF L!Min
<1> QED BY <1>2 DEF L!Least

\* The ends of a set of places.
LEMMA EndsOf ==
  ASSUME NEW n \in Nat, NEW T \in SUBSET (1 .. n), T # {}
  PROVE  /\ L!Min(T) \in T /\ \A k \in T : L!Min(T) <= k
         /\ L!Max(T) \in T /\ \A k \in T : L!Max(T) >= k
<1>1. T \in SUBSET Nat
  OBVIOUS
<1>2. \E m \in T : \A k \in T : m <= k
  BY <1>1, LeastIn
<1>3. \E m \in T : \A k \in T : m >= k
  <2> DEFINE U == {n - k : k \in T}
  <2>1. U \in SUBSET Nat /\ U # {}
    <3>1. \A k \in T : n - k \in Nat
      OBVIOUS
    <3> QED BY <3>1
  <2>2. PICK u \in U : \A k \in U : u <= k
    <3> HIDE DEF U
    <3> QED BY <2>1, LeastIn
  <2>3. PICK m \in T : u = n - m
    OBVIOUS
  <2>4. ASSUME NEW k \in T PROVE m >= k
    <3>1. n - k \in U
      OBVIOUS
    <3> QED BY <2>2, <2>3, <3>1
  <2> QED BY <2>4
<1> QED BY <1>2, <1>3 DEF L!Min, L!Max

\* Strings, and what may be in a buffer.
Byte == L!Chars \cup {L!Space, L!Nul, L!Junk}
Text == Seq(L!Chars)
Str  == Seq(Byte)

LEMMA StrLen == \A s \in Str : Len(s) \in Nat /\ DOMAIN s = 1 .. Len(s)
BY DEF Str

Begins(s, t) == Len(s) <= Len(t) /\ \A i \in 1 .. Len(s) : s[i] = t[i]

LEMMA PrefixMeans ==
  ASSUME NEW s \in Str, NEW t \in Str
  PROVE  L!IsPrefix(s, t) <=> Begins(s, t)
<1>1. s \in Seq(Byte) /\ t \in Seq(Byte)
  BY DEF Str
<1>2. Len(s) \in Nat /\ Len(t) \in Nat
  BY <1>1
<1>3. SubSeq(s, 1, Len(s)) = s
  BY <1>1, SubSeqFull
<1>4. ASSUME Len(s) <= Len(t)
      PROVE  /\ SubSeq(t, 1, Len(s)) \in Seq(Byte) /\ Len(SubSeq(t, 1, Len(s))) = Len(s)
             /\ \A i \in 1 .. Len(s) : SubSeq(t, 1, Len(s))[i] = t[i]
  BY <1>1, <1>2, <1>4
<1>5. ASSUME Len(s) <= Len(t), \A i \in 1 .. Len(s) : s[i] = t[i]
      PROVE  s = SubSeq(t, 1, Len(s))
  BY <1>1, <1>4, <1>5, SeqEqual
<1> QED BY <1>2, <1>3, <1>4, <1>5 DEF L!IsPrefix, Begins

LEMMA PrefixOfPrefix ==
  ASSUME NEW s \in Str, NEW t \in Str, NEW u \in Str, L!IsPrefix(s, t), L!IsPrefix(t, u)
  PROVE  L!IsPrefix(s, u)
BY PrefixMeans, StrLen DEF Begins

LEMMA PrefixOfAll ==
  ASSUME NEW s \in Str, NEW t \in Str
  PROVE  /\ s \o t \in Str /\ Len(s \o t) = Len(s) + Len(t)
         /\ L!IsPrefix(s, s) /\ L!IsPrefix(s, s \o t)
<1>1. s \in Seq(Byte) /\ t \in Seq(Byte)
  BY DEF Str
<1>2. /\ s \o t \in Seq(Byte) /\ Len(s \o t) = Len(s) + Len(t)
      /\ \A i \in 1 .. Len(s) : (s \o t)[i] = s[i]
  BY <1>1
<1>3. s \o t \in Str
  BY <1>2 DEF Str
<1>4. Begins(s, s) /\ Begins(s, s \o t)
  BY <1>2, StrLen DEF Begins
<1> QED BY <1>2, <1>3, <1>4, PrefixMeans

\* Texts that begin alike, behind the same text.
LEMMA PrefixBehind ==
  ASSUME NEW r \in Str, NEW s \in Str, NEW t \in Str, L!IsPrefix(s, t)
  PROVE  L!IsPrefix(r \o s, r \o t)
<1>1. r \in Seq(Byte) /\ s \in Seq(Byte) /\ t \in Seq(Byte)
  BY DEF Str
<1>2. Len(s) \in Nat /\ Len(t) \in Nat /\ Len(r) \in Nat
  BY StrLen
<1>3. Len(s) <= Len(t) /\ \A i \in 1 .. Len(s) : s[i] = t[i]
  BY PrefixMeans DEF Begins
<1>4. /\ Len(r \o s) = Len(r) + Len(s) /\ Len(r \o t) = Len(r) + Len(t)
      /\ \A i \in 1 .. Len(r) + Len(s) : (r \o s)[i] = IF i <= Len(r) THEN r[i] ELSE s[i - Len(r)]
      /\ \A i \in 1 .. Len(r) + Len(t) : (r \o t)[i] = IF i <= Len(r) THEN r[i] ELSE t[i - Len(r)]
  BY <1>1, ConcatProperties
<1>5. \A i \in 1 .. Len(r) + Len(s) : (r \o s)[i] = (r \o t)[i]
  BY <1>2, <1>3, <1>4
<1>6. r \o s \in Str /\ r \o t \in Str
  BY PrefixOfAll
<1>7. Begins(r \o s, r \o t)
  BY <1>2, <1>3, <1>4, <1>5 DEF Begins
<1> QED BY <1>6, <1>7, PrefixMeans

LEMMA TrimIs ==
  ASSUME NEW s \in Str
  PROVE  /\ L!Trim(s) \in Str /\ Len(L!Trim(s)) <= Len(s)
         /\ s = <<>> => L!Trim(s) = <<>>
<1> DEFINE kept == {i \in DOMAIN s : s[i] # L!Space}
<1>1. s \in Seq(Byte) /\ Len(s) \in Nat /\ DOMAIN s = 1 .. Len(s)
  BY StrLen DEF Str
<1>2. CASE kept = {}
  <2>1. L!Trim(s) = <<>>
    BY <1>2 DEF L!Trim
  <2> QED BY <1>1, <2>1, EmptySeq DEF Str
<1>3. CASE kept # {}
  <2>1. kept \in SUBSET (1 .. Len(s))
    BY <1>1
  <2>2. L!Min(kept) \in 1 .. Len(s) /\ L!Max(kept) \in 1 .. Len(s)
    <3> HIDE DEF kept
    <3> QED BY <1>1, <1>3, <2>1, EndsOf
  <2>3. L!Trim(s) = SubSeq(s, L!Min(kept), L!Max(kept))
    BY <1>3 DEF L!Trim
  <2> DEFINE a == L!Min(kept)
             b == L!Max(kept)
  <2>4. a \in 1 .. Len(s) /\ b \in 1 .. Len(s)
    BY <2>2
  <2> HIDE DEF a, b
  <2>5. SubSeq(s, a, b) \in Seq(Byte) /\ Len(SubSeq(s, a, b)) <= Len(s)
    BY <1>1, <2>4
  <2>6. Len(s) # 0
    BY <2>4, <1>1
  <2>7. s # <<>>
    BY <2>6, EmptySeq
  <2> QED BY <2>3, <2>5, <2>7 DEF a, b, Str
<1> QED BY <1>2, <1>3

\* A text that is cut begins, trimmed, as it does when it is whole.
LEMMA TrimOfPrefix ==
  ASSUME NEW s \in Str, NEW t \in Str, L!IsPrefix(s, t)
  PROVE  L!IsPrefix(L!Trim(s), L!Trim(t))
<1> DEFINE ks == {i \in DOMAIN s : s[i] # L!Space}
           kt == {i \in DOMAIN t : t[i] # L!Space}
<1>1. s \in Seq(Byte) /\ t \in Seq(Byte) /\ Len(s) \in Nat /\ Len(t) \in Nat
      /\ DOMAIN s = 1 .. Len(s) /\ DOMAIN t = 1 .. Len(t)
  BY StrLen DEF Str
<1>2. Len(s) <= Len(t) /\ \A i \in 1 .. Len(s) : s[i] = t[i]
  BY PrefixMeans DEF Begins
<1>3. ks \in SUBSET (1 .. Len(s)) /\ kt \in SUBSET (1 .. Len(t)) /\ ks \subseteq kt
      /\ \A i \in kt : i <= Len(s) => i \in ks
  BY <1>1, <1>2
<1>4. L!Trim(s) \in Str /\ L!Trim(t) \in Str
  BY TrimIs
<1>5. CASE ks = {}
  <2>1. L!Trim(s) = <<>> /\ Len(<<>>) = 0
    BY <1>5, EmptySeq DEF L!Trim
  <2> QED BY <1>4, <2>1, PrefixMeans, StrLen DEF Begins
<1>6. CASE ks # {}
  <2>1. kt # {}
    BY <1>3, <1>6
  <2>2. L!Trim(s) = SubSeq(s, L!Min(ks), L!Max(ks)) /\ L!Trim(t) = SubSeq(t, L!Min(kt), L!Max(kt))
    BY <1>6, <2>1 DEF L!Trim
  <2> HIDE DEF ks, kt
  <2>3. /\ L!Min(ks) \in ks /\ L!Max(ks) \in ks /\ L!Min(kt) \in kt /\ L!Max(kt) \in kt
        /\ \A k \in ks : L!Min(ks) <= k /\ L!Max(ks) >= k
        /\ \A k \in kt : L!Min(kt) <= k /\ L!Max(kt) >= k
    BY <1>1, <1>3, <1>6, <2>1, EndsOf
  <2> DEFINE a == L!Min(ks)
             b == L!Max(ks)
             c == L!Max(kt)
  <2>4. L!Min(kt) = a
    <3>1. a \in ks /\ a \in kt /\ L!Min(kt) <= a /\ a \in 1 .. Len(s)
      BY <1>3, <2>3
    <3>2. L!Min(kt) \in Nat /\ L!Min(kt) <= Len(s)
      <4> DEFINE z == L!Min(kt)
      <4>1. z \in 1 .. Len(t) /\ z <= a
        BY <1>3, <2>3, <3>1
      <4> HIDE DEF z, a
      <4>2. z \in Nat /\ z <= Len(s)
        BY <1>1, <3>1, <4>1
      <4> QED BY <4>2 DEF z
    <3>3. a <= L!Min(kt)
      BY <1>3, <2>3, <3>2
    <3> HIDE DEF a
    <3> QED BY <1>1, <3>1, <3>2, <3>3
  <2>5. a \in 1 .. Len(s) /\ b \in 1 .. Len(s) /\ c \in 1 .. Len(t) /\ b <= c /\ a <= b
    BY <1>1, <1>3, <2>3
  <2>6. L!Trim(s) = SubSeq(s, a, b) /\ L!Trim(t) = SubSeq(t, a, c)
    BY <2>2, <2>4
  <2> HIDE DEF a, b, c
  <2>7. /\ Len(SubSeq(s, a, b)) = b - a + 1 /\ Len(SubSeq(t, a, c)) = c - a + 1
        /\ \A i \in 1 .. b - a + 1 : SubSeq(s, a, b)[i] = s[a + i - 1]
        /\ \A i \in 1 .. c - a + 1 : SubSeq(t, a, c)[i] = t[a + i - 1]
    BY <1>1, <2>5
  <2>8. \A i \in 1 .. b - a + 1 : SubSeq(s, a, b)[i] = SubSeq(t, a, c)[i]
    BY <1>1, <1>2, <2>5, <2>7
  <2>9. Begins(SubSeq(s, a, b), SubSeq(t, a, c))
    <3> DEFINE u == SubSeq(s, a, b)
               v == SubSeq(t, a, c)
    <3>1. /\ Len(u) = b - a + 1 /\ Len(v) = c - a + 1
          /\ \A i \in 1 .. b - a + 1 : u[i] = v[i]
      BY <2>7, <2>8
    <3> HIDE DEF u, v
    <3>2. Begins(u, v)
      BY <1>1, <2>5, <3>1 DEF Begins
    <3> QED BY <3>2 DEF u, v
  <2> QED BY <1>4, <2>6, <2>9, PrefixMeans
<1> QED BY <1>5, <1>6

LEMMA PartIs ==
  ASSUME NEW s \in Str
  PROVE  L!Part(s) \in Str /\ Len(L!Part(s)) <= L!Room(s)
<1>1. L!Space \in Byte
  BY DEF Byte
<1>2. <<L!Space>> \in Seq(Byte) /\ Len(<<L!Space>>) = 1
  BY <1>1
<1>3. <<>> \in Str /\ Len(<<>>) = 0
  BY EmptySeq DEF Str
<1>4. L!Trim(s) \in Str /\ Len(L!Trim(s)) <= Len(s) /\ Len(s) \in Nat /\ (s = <<>> => L!Trim(s) = <<>>)
  BY TrimIs, StrLen
<1>5. <<L!Space>> \o L!Trim(s) \in Str /\ Len(<<L!Space>> \o L!Trim(s)) = 1 + Len(L!Trim(s))
  BY <1>2, <1>4, PrefixOfAll DEF Str
<1>6. L!Room(s) = IF s = <<>> THEN 0 ELSE Len(s) + 1
  BY DEF L!Room
<1>7. L!Part(s) = IF L!Trim(s) = <<>> THEN <<>> ELSE <<L!Space>> \o L!Trim(s)
  BY DEF L!Part
<1>8. Len(L!Trim(s)) \in Nat
  BY <1>4, StrLen
<1> QED BY <1>3, <1>4, <1>5, <1>6, <1>7, <1>8

LEMMA PartOfPrefix ==
  ASSUME NEW s \in Str, NEW t \in Str, L!IsPrefix(s, t)
  PROVE  L!IsPrefix(L!Part(s), L!Part(t))
<1>1. L!Trim(s) \in Str /\ L!Trim(t) \in Str /\ L!IsPrefix(L!Trim(s), L!Trim(t))
  BY TrimIs, TrimOfPrefix
<1>2. L!Part(s) \in Str /\ L!Part(t) \in Str /\ <<>> \in Str /\ Len(<<>>) = 0
  BY PartIs, EmptySeq DEF Str
<1>3. CASE L!Trim(s) = <<>>
  <2>1. L!Part(s) = <<>>
    BY <1>3 DEF L!Part
  <2> QED BY <1>2, <2>1, PrefixMeans, StrLen DEF Begins
<1>4. CASE L!Trim(s) # <<>>
  <2>1. Len(L!Trim(s)) # 0
    BY <1>1, <1>4, EmptySeq DEF Str
  <2>2. Len(L!Trim(t)) # 0
    BY <1>1, <2>1, PrefixMeans, StrLen DEF Begins
  <2>3. L!Trim(t) # <<>>
    BY <2>2, EmptySeq
  <2>4. L!Space \in Byte
    BY DEF Byte
  <2>5. <<L!Space>> \in Str
    BY <2>4 DEF Str
  <2> QED BY <1>1, <1>4, <2>3, <2>5, PrefixBehind DEF L!Part
<1> QED BY <1>3, <1>4

LEMMA TextIsStr ==
  ASSUME NEW s \in Text
  PROVE  s \in Str /\ Len(s) \in Nat /\ \A i \in 1 .. Len(s) : s[i] # L!Nul
<1>1. \A i \in 1 .. Len(s) : s[i] \in L!Chars
  BY DEF Text
<1> QED BY <1>1 DEF Text, Str, Byte, L!Chars

-----------------------------------------------------------------------------
(* The error at the end of a line. *)

Sized == LogBuffer \in Nat /\ LogBuffer >= 3

\* The bytes of a buffer in which head and message have been put.
Filled(bytes, h, m) ==
  /\ bytes \in Str /\ Len(bytes) = LogBuffer
  /\ \E i \in 1 .. LogBuffer : bytes[i] = L!Nul
  /\ m # <<>> /\ Len(h) + 2 * Len(m) <= L!MaxLen =>
       /\ bytes[Len(h) + Len(m) + 1] = L!Nul
       /\ \A i \in 1 .. Len(h) : bytes[i] = h[i]
       /\ \A i \in 1 .. Len(m) : bytes[Len(h) + i] = m[i]
  /\ m = <<>> /\ Len(h) < L!MaxLen =>
       bytes[Len(h) + 1] = L!Nul /\ \A i \in 1 .. Len(h) : bytes[i] = h[i]
  /\ m = <<>> /\ Len(h) = L!MaxLen =>
       bytes[Len(h)] = L!Nul /\ \A i \in 1 .. Len(h) - 1 : bytes[i] = h[i]

LEMMA ErrorBytesAre ==
  ASSUME Sized, NEW h \in Text, NEW m \in Text, Len(h) <= L!MaxLen
  PROVE  Filled(L!ErrorBytes(h, m), h, m)
<1> DEFINE a == Len(h)
           b == Len(m)
           M == L!MaxLen
           cut == L!Least(a, M - 1)
           length == L!Least(b, M - a)
           room == M - a - length
           bytes == L!ErrorBytes(h, m)
<1>1. /\ a \in Nat /\ b \in Nat /\ M = LogBuffer - 1 /\ M \in Nat /\ M >= 2 /\ a <= M
      /\ (m = <<>> => b = 0) /\ (b = 0 => m = <<>>)
  BY EmptySeq DEF Text, Sized, L!MaxLen
<1>2. cut = (IF a <= M - 1 THEN a ELSE M - 1) /\ length = (IF b <= M - a THEN b ELSE M - a)
  BY <1>1, LeastOf
<1>3. bytes =
        [i \in 1 .. LogBuffer |->
           IF m # <<>> /\ i \in a + 1 .. a + room
           THEN IF i - a <= b THEN m[i - a] ELSE L!Nul
           ELSE IF i = a + length + 1 \/ i = cut + 1 THEN L!Nul
           ELSE IF i <= cut THEN h[i] ELSE L!Junk]
  BY DEF L!ErrorBytes
<1> HIDE DEF a, b, M, cut, length, bytes
<1>0. LogBuffer \in Nat /\ M = LogBuffer - 1 /\ cut \in Int /\ length \in Nat
  BY <1>1, <1>2 DEF Sized
<1>4. ASSUME NEW i \in 1 .. LogBuffer
      PROVE  bytes[i] = IF m # <<>> /\ i \in a + 1 .. a + room
                        THEN IF i - a <= b THEN m[i - a] ELSE L!Nul
                        ELSE IF i = a + length + 1 \/ i = cut + 1 THEN L!Nul
                        ELSE IF i <= cut THEN h[i] ELSE L!Junk
  BY <1>3
<1>5. ASSUME NEW i \in 1 .. LogBuffer PROVE bytes[i] \in Byte
  <2>1. \A k \in 1 .. a : h[k] \in Byte
    BY DEF Text, Byte, a
  <2>2. \A k \in 1 .. b : m[k] \in Byte
    BY DEF Text, Byte, b
  <2>3. CASE m # <<>> /\ i \in a + 1 .. a + room
    <3>1. i - a \in Nat /\ i - a >= 1
      BY <1>1, <1>2, <2>3
    <3>2. i - a <= b => i - a \in 1 .. b
      BY <1>1, <3>1
    <3>3. L!Nul \in Byte
      BY DEF Byte
    <3> QED BY <1>4, <2>2, <2>3, <3>2, <3>3
  <2>4. CASE ~(m # <<>> /\ i \in a + 1 .. a + room)
    <3>1. i <= cut => i \in 1 .. a
      BY <1>1, <1>2
    <3>2. L!Nul \in Byte /\ L!Junk \in Byte
      BY DEF Byte
    <3> QED BY <1>4, <2>1, <2>4, <3>1, <3>2
  <2> QED BY <2>3, <2>4
<1>6. bytes \in [1 .. LogBuffer -> Byte]
  BY <1>3, <1>5
<1>7. bytes \in Str /\ Len(bytes) = LogBuffer
  BY <1>6 DEF Str, Sized
<1>8. \E i \in 1 .. LogBuffer : bytes[i] = L!Nul
  <2> DEFINE p == a + length + 1
  <2>1. p \in 1 .. LogBuffer
    BY <1>0, <1>1, <1>2
  <2>2. p \in a + 1 .. a + room => ~(p - a <= b)
    BY <1>1, <1>2
  <2>3. bytes[p] = L!Nul
    BY <1>4, <2>1, <2>2
  <2> QED BY <2>1, <2>3
<1>9. ASSUME m # <<>>, a + 2 * b <= M
      PROVE  /\ bytes[a + b + 1] = L!Nul
             /\ \A i \in 1 .. a : bytes[i] = h[i]
             /\ \A i \in 1 .. b : bytes[a + i] = m[i]
  <2>1. length = b /\ cut = a /\ room >= b /\ b >= 1 /\ room \in Nat
    BY <1>1, <1>2, <1>9
  <2>2. bytes[a + b + 1] = L!Nul
    <3>1. a + b + 1 \in 1 .. LogBuffer /\ ~((a + b + 1) - a <= b)
      BY <1>0, <1>1, <1>9
    <3> QED BY <1>4, <2>1, <3>1
  <2>3. ASSUME NEW i \in 1 .. a PROVE bytes[i] = h[i]
    <3>1. i \in 1 .. LogBuffer /\ i \notin a + 1 .. a + room /\ i # a + length + 1 /\ i # cut + 1 /\ i <= cut
      BY <1>0, <1>1, <2>1
    <3> QED BY <1>4, <3>1
  <2>4. ASSUME NEW i \in 1 .. b PROVE bytes[a + i] = m[i]
    <3>1. a + i \in 1 .. LogBuffer /\ a + i \in a + 1 .. a + room /\ (a + i) - a = i /\ i <= b
      BY <1>0, <1>1, <1>9, <2>1
    <3> QED BY <1>4, <1>9, <3>1
  <2> QED BY <2>2, <2>3, <2>4
<1>10. ASSUME m = <<>>, NEW i \in 1 .. LogBuffer
       PROVE  bytes[i] = IF i = a + 1 \/ i = cut + 1 THEN L!Nul ELSE IF i <= cut THEN h[i] ELSE L!Junk
  <2>1. length = 0
    BY <1>1, <1>2, <1>10
  <2> QED BY <1>1, <1>4, <1>10, <2>1
<1>11. ASSUME m = <<>>, a < M
       PROVE  bytes[a + 1] = L!Nul /\ \A i \in 1 .. a : bytes[i] = h[i]
  <2>1. cut = a /\ a + 1 \in 1 .. LogBuffer
    BY <1>0, <1>1, <1>2, <1>11
  <2>2. \A i \in 1 .. a : i \in 1 .. LogBuffer /\ i # a + 1 /\ i # cut + 1 /\ i <= cut
    BY <1>0, <1>1, <2>1
  <2> QED BY <1>10, <1>11, <2>1, <2>2
<1>12. ASSUME m = <<>>, a = M
       PROVE  bytes[a] = L!Nul /\ \A i \in 1 .. a - 1 : bytes[i] = h[i]
  <2>1. cut = a - 1 /\ a \in 1 .. LogBuffer /\ cut + 1 = a
    BY <1>0, <1>1, <1>2, <1>12
  <2>2. \A i \in 1 .. a - 1 : i \in 1 .. LogBuffer /\ i # a + 1 /\ i # cut + 1 /\ i <= cut
    BY <1>0, <1>1, <2>1
  <2> QED BY <1>10, <1>12, <2>1, <2>2
<1> QED BY <1>7, <1>8, <1>9, <1>11, <1>12 DEF Filled, a, b, M, bytes

\* The error, where there is room for its message twice: as it is meant, or a
\* head that fills the buffer without its last byte.
LEMMA SuffixIs ==
  ASSUME Sized, NEW h \in Text, NEW m \in Text
  PROVE  /\ L!Suffix(h, m) \in Str /\ h \o m \in Str
         /\ Len(h) + 2 * Len(m) <= L!MaxLen => L!IsPrefix(L!Suffix(h, m), h \o m)
         /\ Len(h) + 2 * Len(m) <= L!MaxLen /\ Len(h) < L!MaxLen => L!Suffix(h, m) = h \o m
<1> DEFINE a == Len(h)
           b == Len(m)
           M == L!MaxLen
           bytes == L!ErrorBytes(h, m)
           nuls == {i \in DOMAIN bytes : bytes[i] = L!Nul}
           q == L!Min(nuls)
           hm == h \o m
<1>1. /\ a \in Nat /\ b \in Nat /\ M = LogBuffer - 1 /\ M \in Nat /\ M >= 2 /\ LogBuffer \in Nat
      /\ (m = <<>> => b = 0) /\ (b = 0 => m = <<>>)
  BY EmptySeq DEF Text, Sized, L!MaxLen
<1>2. /\ h \in Str /\ m \in Str
      /\ \A i \in 1 .. a : h[i] # L!Nul
      /\ \A i \in 1 .. b : m[i] # L!Nul
  BY TextIsStr
<1>3. hm \in Str /\ Len(hm) = a + b
  BY <1>2, PrefixOfAll
<1>4. \A i \in 1 .. a + b : hm[i] = IF i <= a THEN h[i] ELSE m[i - a]
  BY <1>2, ConcatProperties DEF Str
<1>5. CASE a > M
  <2>1. L!Suffix(h, m) = <<>>
    BY <1>5 DEF L!Suffix
  <2>2. ~(a + 2 * b <= M) /\ ~(a < M)
    BY <1>1, <1>5
  <2> QED BY <1>3, <2>1, <2>2, EmptySeq DEF Str
<1>6. CASE a <= M
  <2>1. Filled(bytes, h, m)
    BY <1>6, ErrorBytesAre
  <2>2. L!Suffix(h, m) = SubSeq(bytes, 1, q - 1)
    <3>1. ~(a > M)
      BY <1>1, <1>6
    <3>2. L!Suffix(h, m) =
            IF a > M THEN <<>> ELSE SubSeq(bytes, 1, L!Min({i \in DOMAIN bytes : bytes[i] = L!Nul}) - 1)
      BY DEF L!Suffix
    <3> HIDE DEF a, M, bytes
    <3> QED BY <3>1, <3>2
  <2> HIDE DEF bytes
  <2>3. bytes \in Str /\ Len(bytes) = LogBuffer /\ DOMAIN bytes = 1 .. LogBuffer
    BY <2>1 DEF Filled, Str
  <2>4. nuls \in SUBSET (1 .. LogBuffer) /\ nuls # {}
    BY <2>1, <2>3 DEF Filled
  <2>5. q \in nuls /\ \A k \in nuls : q <= k
    <3> HIDE DEF nuls
    <3> QED BY <1>1, <2>4, EndsOf
  <2>6. q \in 1 .. LogBuffer /\ bytes[q] = L!Nul /\ \A k \in 1 .. LogBuffer : bytes[k] = L!Nul => q <= k
    BY <2>3, <2>5
  <2> DEFINE u == SubSeq(bytes, 1, q - 1)
  <2> HIDE DEF q, nuls
  <2>7. u \in Str /\ Len(u) = q - 1 /\ \A i \in 1 .. q - 1 : u[i] = bytes[i]
    BY <1>1, <2>3, <2>6 DEF Str
  <2> HIDE DEF u
  <2> HIDE DEF a, b, M, hm
  <2>8. CASE m # <<>> /\ a + 2 * b <= M
    <3>1. /\ bytes[a + b + 1] = L!Nul
          /\ \A i \in 1 .. a : bytes[i] = h[i]
          /\ \A i \in 1 .. b : bytes[a + i] = m[i]
      BY <2>1, <2>8 DEF Filled, a, b, M
    <3>2. ASSUME NEW i \in 1 .. a + b PROVE bytes[i] = hm[i] /\ bytes[i] # L!Nul
      <4>1. CASE i <= a
        <5>1. i \in 1 .. a
          BY <1>1, <4>1
        <5> QED BY <1>2, <1>4, <3>1, <4>1, <5>1
      <4>2. CASE ~(i <= a)
        <5>1. i - a \in 1 .. b /\ a + (i - a) = i
          BY <1>1, <4>2
        <5>2. bytes[a + (i - a)] = m[i - a]
          BY <3>1, <5>1
        <5> QED BY <1>2, <1>4, <4>2, <5>1, <5>2
      <4> QED BY <4>1, <4>2
    <3>3. a + b + 1 \in 1 .. LogBuffer
      BY <1>1, <2>8
    <3>4. q = a + b + 1
      <4>1. q <= a + b + 1
        BY <2>6, <3>1, <3>3
      <4>2. q \notin 1 .. a + b
        BY <2>6, <3>2
      <4> QED BY <1>1, <2>6, <4>1, <4>2
    <3>5. u = hm
      <4>1. Len(u) = Len(hm) /\ \A i \in 1 .. Len(u) : u[i] = hm[i]
        BY <1>1, <1>3, <2>7, <3>2, <3>4
      <4> QED BY <1>3, <2>7, <4>1, SeqEqual DEF Str
    <3>6. L!IsPrefix(hm, hm)
      BY <1>3, PrefixOfAll
    <3> QED BY <1>3, <2>2, <2>7, <3>5, <3>6 DEF u, hm
  <2>9. CASE m = <<>> /\ a < M
    <3>1. bytes[a + 1] = L!Nul /\ \A i \in 1 .. a : bytes[i] = h[i]
      BY <2>1, <2>9 DEF Filled, a, M
    <3>2. b = 0
      BY <1>1, <2>9
    <3>3. \A i \in 1 .. a : bytes[i] = hm[i] /\ bytes[i] # L!Nul
      BY <1>1, <1>2, <1>4, <3>1, <3>2
    <3>4. q = a + 1
      <4>1. a + 1 \in 1 .. LogBuffer
        BY <1>1, <2>9
      <4>2. q <= a + 1 /\ q \notin 1 .. a
        BY <2>6, <3>1, <3>3, <4>1
      <4> QED BY <1>1, <2>6, <4>2
    <3>5. u = hm
      <4>1. Len(u) = Len(hm) /\ \A i \in 1 .. Len(u) : u[i] = hm[i]
        BY <1>1, <1>3, <2>7, <3>2, <3>3, <3>4
      <4> QED BY <1>3, <2>7, <4>1, SeqEqual DEF Str
    <3>6. L!IsPrefix(hm, hm)
      BY <1>3, PrefixOfAll
    <3> QED BY <1>3, <2>2, <2>7, <3>5, <3>6 DEF u, hm
  <2>10. CASE m = <<>> /\ a = M
    <3>1. bytes[a] = L!Nul /\ \A i \in 1 .. a - 1 : bytes[i] = h[i]
      BY <2>1, <2>10 DEF Filled, a, M
    <3>2. b = 0 /\ a >= 2
      BY <1>1, <2>10
    <3>3. \A i \in 1 .. a - 1 : bytes[i] = hm[i] /\ bytes[i] # L!Nul
      BY <1>1, <1>2, <1>4, <3>1, <3>2
    <3>4. q = a
      <4>1. a \in 1 .. LogBuffer
        BY <1>1, <2>10
      <4>2. q <= a /\ q \notin 1 .. a - 1
        BY <2>6, <3>1, <3>3, <4>1
      <4> QED BY <1>1, <2>6, <4>2
    <3>5. Len(u) <= Len(hm) /\ \A i \in 1 .. Len(u) : u[i] = hm[i]
      BY <1>1, <1>3, <2>7, <3>2, <3>3, <3>4
    <3>6. L!IsPrefix(u, hm)
      BY <1>3, <2>7, <3>5, PrefixMeans DEF Begins
    <3>7. ~(a < M)
      BY <1>1, <2>10
    <3> QED BY <1>3, <2>2, <2>7, <3>6, <3>7 DEF u, hm, a, M
  <2>11. CASE m # <<>> /\ ~(a + 2 * b <= M)
    BY <1>3, <2>2, <2>7, <2>11 DEF u, hm, a, b, M
  <2> QED BY <1>1, <1>6, <2>8, <2>9, <2>10, <2>11
<1>7. a > M \/ a <= M
  BY <1>1
<1> QED BY <1>5, <1>6, <1>7

-----------------------------------------------------------------------------
(* One part of the line. *)

Piece(parted, text) == IF parted THEN <<L!Space>> \o text ELSE <<>>

With(from, parted) == IF parted THEN Append(from, L!Space) ELSE from
Behind(from, parted, text, max) ==
  With(from, parted) \o SubSeq(text, 1, L!Least(Len(text), max - Len(With(from, parted))))

\* What is behind the line afterwards: a part, or as much as there is room for.
Put(before, after, piece, max) ==
  /\ after \in Str /\ Len(after) <= max /\ Len(after) <= Len(before) + Len(piece)
  /\ L!IsPrefix(after, before \o piece)
  /\ after = before \o piece \/ Len(after) = max
  /\ Len(before) + Len(piece) <= max => after = before \o piece

LEMMA PutDoes ==
  ASSUME NEW from \in Str, NEW text \in Str, NEW parted \in BOOLEAN, ~parted => text = <<>>,
         NEW max \in Nat, Len(from) <= max, ~(parted /\ Len(from) >= max - 1)
  PROVE  /\ Put(from, Behind(from, parted, text, max), Piece(parted, text), max)
         /\ ~parted => Behind(from, parted, text, max) = from
<1> DEFINE l == Len(from)
           t == Len(text)
           with == With(from, parted)
           new == Behind(from, parted, text, max)
<1>0. new = with \o SubSeq(text, 1, L!Least(t, max - Len(with)))
  BY DEF Behind
<1>1. l \in Nat /\ t \in Nat /\ <<>> \in Str /\ Len(<<>>) = 0 /\ L!Space \in Byte
  BY StrLen, EmptySeq DEF Str, Byte
<1>2. CASE ~parted
  <2>1. with = from /\ text = <<>> /\ t = 0 /\ Piece(parted, text) = <<>>
    BY <1>1, <1>2 DEF Piece, With
  <2> HIDE DEF with, new
  <2>2. L!Least(t, max - l) = 0
    BY <1>1, <2>1, LeastOf
  <2>3. SubSeq(text, 1, 0) = <<>>
    BY SubSeqEmpty
  <2>4. new = from \o <<>>
    BY <1>0, <2>1, <2>2, <2>3
  <2>5. from \o <<>> = from
    BY ConcatEmptySeq DEF Str
  <2>6. L!IsPrefix(from, from)
    BY PrefixOfAll
  <2>7. new = from
    BY <2>4, <2>5
  <2>8. Put(from, from, <<>>, max)
    BY <1>1, <2>5, <2>6 DEF Put
  <2> QED BY <2>1, <2>7, <2>8 DEF new
<1>3. CASE parted
  <2> DEFINE sp == <<L!Space>>
             n == L!Least(t, max - Len(with))
             cut == SubSeq(text, 1, n)
             p == Piece(parted, text)
  <2>1. sp \in Str /\ Len(sp) = 1
    BY <1>1 DEF Str
  <2>2. with = from \o sp
    <3>1. from \in Seq(Byte)
      BY DEF Str
    <3> QED BY <1>1, <1>3, <3>1, AppendIsConcat DEF With
  <2> HIDE DEF sp, with, new
  <2>3. with \in Str /\ Len(with) = l + 1
    <3>1. from \o sp \in Str /\ Len(from \o sp) = Len(from) + Len(sp)
      BY <2>1, PrefixOfAll
    <3>2. Len(from \o sp) = l + 1
      BY <2>1, <3>1
    <3> QED BY <2>2, <3>1, <3>2
  <2>4. n = IF t <= max - (l + 1) THEN t ELSE max - (l + 1)
    BY <1>1, <2>3, LeastOf
  <2>5. n \in 0 .. t /\ (n = t \/ n = max - (l + 1)) /\ n <= max - (l + 1)
    BY <1>1, <1>3, <2>4
  <2> HIDE DEF n
  <2>6. cut \in Str /\ Len(cut) = n /\ \A i \in 1 .. n : cut[i] = text[i]
    BY <1>1, <2>5 DEF Str
  <2>7. L!IsPrefix(cut, text)
    <3>1. Begins(cut, text)
      BY <1>1, <2>5, <2>6 DEF Begins
    <3> QED BY <2>6, <3>1, PrefixMeans
  <2>8. n = t => cut = text
    BY SubSeqFull DEF Str
  <2> HIDE DEF cut
  <2>9. new = with \o cut
    BY <1>0 DEF cut, n
  <2>10. new = from \o (sp \o cut)
    <3>1. (from \o sp) \o cut = from \o (sp \o cut)
      <4>1. from \in Seq(Byte) /\ sp \in Seq(Byte) /\ cut \in Seq(Byte)
        BY <2>1, <2>6 DEF Str
      <4> QED BY <4>1, ConcatAssociative
    <3> QED BY <2>2, <2>9, <3>1
  <2>11. p = sp \o text
    BY <1>3 DEF Piece, sp
  <2> HIDE DEF p
  <2>12. sp \o cut \in Str /\ Len(sp \o cut) = 1 + n /\ p \in Str /\ Len(p) = 1 + t
    BY <2>1, <2>6, <2>11, PrefixOfAll
  <2>13. L!IsPrefix(sp \o cut, p)
    BY <2>1, <2>6, <2>7, <2>11, PrefixBehind
  <2>14. L!IsPrefix(new, from \o p)
    BY <2>10, <2>12, <2>13, PrefixBehind
  <2>15. new \in Str /\ Len(new) = l + (1 + n)
    BY <2>10, <2>12, PrefixOfAll
  <2>16. n = t => new = from \o p
    BY <2>8, <2>10, <2>11
  <2>17. Len(new) <= max /\ Len(new) <= l + Len(p) /\ (n # t => Len(new) = max)
    <3> DEFINE k == Len(new)
               j == Len(p)
    <3>1. k = l + (1 + n) /\ j = 1 + t
      BY <2>12, <2>15
    <3> HIDE DEF k, j, l, t
    <3>2. l \in Nat /\ t \in Nat /\ n \in Nat /\ n <= t
      BY <1>1, <2>5
    <3>4. (n = t \/ n = max - (l + 1)) /\ n <= max - (l + 1)
      BY <2>5
    <3>3. k <= max /\ k <= l + j /\ (n # t => k = max)
      BY <3>1, <3>2, <3>4
    <3> QED BY <3>3 DEF k, j, l, t
  <2>18. l + Len(p) <= max => n = t
    BY <1>1, <2>5, <2>12
  <2>19. Put(from, new, p, max)
    BY <2>14, <2>15, <2>16, <2>17, <2>18 DEF Put
  <2> QED BY <1>3, <2>19 DEF p, new
<1> QED BY <1>2, <1>3

-----------------------------------------------------------------------------
(* The line. *)

Roomy(c) == L!RoomForAll(c) /\ c.stamp # <<>>

Sum(c) == L!Room(c.stamp) + L!Room(c.prefix) + L!Room(c.text) + L!Room(c.suffix)

IsCall(c) ==
  /\ Sized
  /\ c.stamp \in Text /\ c.prefix \in Text /\ c.text \in Text /\ c.head \in Text /\ c.message \in Text
  /\ Len(c.stamp) < LogBuffer - 2
  /\ c.suffix = L!Suffix(c.head, c.message)

\* The line up to a step, and what may be put behind it from there.
SoFar(c, s) ==
  LET one == c.stamp \o L!Part(c.prefix)
      two == one \o L!Part(c.text)
  IN  CASE s = "prefix" -> c.stamp [] s = "text" -> one [] s = "suffix" -> two
        [] OTHER -> two \o L!Part(c.suffix)

Rest(c, s) ==
  CASE s = "prefix" -> L!Room(c.prefix) + L!Room(c.text) + L!Room(c.suffix)
    [] s = "text" -> L!Room(c.text) + L!Room(c.suffix)
    [] s = "suffix" -> L!Room(c.suffix)
    [] OTHER -> 0

Places == {"prefix", "text", "suffix"}

\* While the line is put together it has room for what is to come, or is cut.
Fitting(c, s, l) ==
  /\ l \in Str /\ Len(l) <= L!LenMax(c) /\ Len(l) + Rest(c, s) <= Sum(c)
  /\ L!Usual(c) =>
       /\ L!IsPrefix(l, SoFar(c, "eol"))
       /\ s \in Places => l = SoFar(c, s) \/ Len(l) = L!LenMax(c)
  /\ L!Usual(c) /\ Roomy(c) => l = SoFar(c, s) /\ Len(l) + Rest(c, s) <= L!LenMax(c)

LogInv ==
  /\ IsCall(call) /\ step \in Places \cup {"eol", "written", "over"}
  /\ over <=> step = "over"
  /\ step = "over" => Len(call.text) >= LogBuffer \/ L!TooLong(call.head)
  /\ step # "over" => Fitting(call, step, line)

LEMMA CallParts ==
  ASSUME NEW c, IsCall(c)
  PROVE  /\ c.stamp \in Str /\ c.prefix \in Str /\ c.text \in Str /\ c.suffix \in Str
         /\ c.head \o c.message \in Str
         /\ L!Part(c.prefix) \in Str /\ L!Part(c.text) \in Str /\ L!Part(c.suffix) \in Str
         /\ L!Usual(c) => L!IsPrefix(c.suffix, c.head \o c.message)
<1>1. c.stamp \in Text /\ c.prefix \in Text /\ c.text \in Text /\ c.head \in Text /\ c.message \in Text
      /\ Sized /\ c.suffix = L!Suffix(c.head, c.message)
  BY DEF IsCall
<1>2. /\ c.suffix \in Str /\ c.head \o c.message \in Str
      /\ L!Usual(c) => L!IsPrefix(c.suffix, c.head \o c.message)
  BY <1>1, SuffixIs DEF L!Usual
<1>3. c.stamp \in Str /\ c.prefix \in Str /\ c.text \in Str
  BY <1>1, TextIsStr
<1> QED BY <1>2, <1>3, PartIs

LEMMA RoomIs ==
  ASSUME NEW s \in Str
  PROVE  L!Room(s) \in Nat /\ (s # <<>> => L!Room(s) = Len(s) + 1 /\ Len(s) >= 1) /\ (s = <<>> => L!Room(s) = 0 /\ Len(s) = 0)
<1>1. Len(s) \in Nat /\ (s # <<>> => Len(s) # 0) /\ Len(<<>>) = 0
  BY EmptySeq DEF Str
<1> QED BY <1>1 DEF L!Room

\* Where there is room for all the error is whole, and the line is as long as
\* its parts need.
LEMMA RoomyIs ==
  ASSUME NEW c, IsCall(c), L!Usual(c), Roomy(c)
  PROVE  c.suffix = c.head \o c.message /\ Sum(c) <= LogBuffer /\ Sum(c) >= 1
<1> DEFINE hm == c.head \o c.message
           r == L!Room(c.stamp)
           a == L!Room(hm)
           p == L!Room(c.prefix)
           x == L!Room(c.text)
<1>1. c.stamp \in Str /\ c.prefix \in Str /\ c.text \in Str /\ hm \in Str
  BY CallParts
<1>2. c.head \in Text /\ c.message \in Text /\ Sized /\ c.suffix = L!Suffix(c.head, c.message)
  BY DEF IsCall
<1>3. Len(c.head) \in Nat /\ Len(c.message) \in Nat /\ Len(hm) = Len(c.head) + Len(c.message)
  <2>1. c.head \in Str /\ c.message \in Str
    BY <1>2, TextIsStr
  <2> QED BY <2>1, PrefixOfAll, StrLen
<1>4. r \in Nat /\ r >= 2 /\ a \in Nat /\ p \in Nat /\ x \in Nat
  BY <1>1, RoomIs DEF Roomy
<1>5. r + p + x + a <= LogBuffer
  BY DEF Roomy, L!RoomForAll
<1>6. Len(hm) <= a
  <2>1. hm \in Str
    BY <1>1
  <2> HIDE DEF hm
  <2>2. Len(hm) \in Nat
    BY <2>1, StrLen
  <2> QED BY <2>1, <2>2, RoomIs
<1>7. LogBuffer \in Nat /\ L!MaxLen = LogBuffer - 1
  BY <1>2 DEF Sized, L!MaxLen
<1>8. Len(c.head) < L!MaxLen
  <2> DEFINE h == Len(c.head)
             m == Len(c.message)
             k == Len(hm)
  <2>1. h \in Nat /\ m \in Nat /\ k = h + m /\ k <= a
    BY <1>3, <1>6
  <2> HIDE DEF h, m, k, r, a, p, x
  <2>2. h < L!MaxLen
    BY <1>4, <1>5, <1>7, <2>1
  <2> QED BY <2>2 DEF h
<1>9. c.suffix = hm
  BY <1>2, <1>8, SuffixIs DEF L!Usual
<1>10. Sum(c) = r + p + x + a
  BY <1>9 DEF Sum
<1> HIDE DEF r, p, x, a
<1>11. Sum(c) <= LogBuffer /\ Sum(c) >= 1
  BY <1>4, <1>5, <1>10
<1> QED BY <1>9, <1>11

LEMMA LenMaxIs ==
  ASSUME NEW c, IsCall(c), SizeSpan \in Nat, SizeSpan > 2 * LogBuffer
  PROVE  /\ Sum(c) \in Nat /\ L!LenMax(c) \in Nat
         /\ Sum(c) > 0 => L!LenMax(c) = (IF Sum(c) <= LogBuffer THEN Sum(c) ELSE LogBuffer) - 1
<1>1. Sum(c) \in Nat
  BY CallParts, RoomIs DEF Sum
<1>2. LogBuffer \in Nat /\ LogBuffer >= 3
  BY DEF IsCall, Sized
<1>3. L!LenMax(c) = (L!Least(Sum(c), LogBuffer) - 1) % SizeSpan
  BY DEF L!LenMax, Sum
<1> DEFINE s == Sum(c)
<1> HIDE DEF s
<1>4. s \in Nat
  BY <1>1 DEF s
<1>5. L!Least(s, LogBuffer) = IF s <= LogBuffer THEN s ELSE LogBuffer
  BY <1>2, <1>4, LeastOf
<1> DEFINE k == L!Least(s, LogBuffer) - 1
<1>6. k \in Int /\ k < SizeSpan /\ (s > 0 => k \in Nat)
  BY <1>2, <1>4, <1>5
<1>7. (s > 0 => k = (IF s <= LogBuffer THEN s ELSE LogBuffer) - 1)
  BY <1>5
<1> HIDE DEF k
<1>8. k % SizeSpan \in Nat
  BY <1>2, <1>6
<1>9. s > 0 => k % SizeSpan = k
  <2>1. \A n \in Nat, w \in Nat \ {0} : n < w => n % w = n
    OBVIOUS
  <2> QED BY <1>2, <1>6, <2>1
<1>10. L!LenMax(c) = k % SizeSpan
  BY <1>3 DEF k, s
<1> QED BY <1>1, <1>7, <1>8, <1>9, <1>10 DEF s

LEMMA SoFarGrows ==
  ASSUME NEW c, IsCall(c)
  PROVE  /\ \A s \in Places \cup {"eol"} : SoFar(c, s) \in Str /\ L!IsPrefix(SoFar(c, s), SoFar(c, "eol"))
         /\ SoFar(c, "text") = SoFar(c, "prefix") \o L!Part(c.prefix)
         /\ SoFar(c, "suffix") = SoFar(c, "text") \o L!Part(c.text)
         /\ SoFar(c, "eol") = SoFar(c, "suffix") \o L!Part(c.suffix)
         /\ SoFar(c, "prefix") = c.stamp
<1> DEFINE zero == SoFar(c, "prefix")
           one == SoFar(c, "text")
           two == SoFar(c, "suffix")
           all == SoFar(c, "eol")
<1>1. /\ zero = c.stamp /\ one = zero \o L!Part(c.prefix)
      /\ two = one \o L!Part(c.text) /\ all = two \o L!Part(c.suffix)
  BY DEF SoFar
<1>2. c.stamp \in Str /\ L!Part(c.prefix) \in Str /\ L!Part(c.text) \in Str /\ L!Part(c.suffix) \in Str
  BY CallParts
<1> HIDE DEF zero, one, two, all
<1>3. zero \in Str
  BY <1>1, <1>2
<1>4. one \in Str /\ L!IsPrefix(zero, one)
  BY <1>1, <1>2, <1>3, PrefixOfAll
<1>5. two \in Str /\ L!IsPrefix(one, two)
  BY <1>1, <1>2, <1>4, PrefixOfAll
<1>6. all \in Str /\ L!IsPrefix(two, all) /\ L!IsPrefix(all, all)
  BY <1>1, <1>2, <1>5, PrefixOfAll
<1>7. L!IsPrefix(one, all)
  BY <1>4, <1>5, <1>6, PrefixOfPrefix
<1>8. L!IsPrefix(zero, all)
  BY <1>3, <1>4, <1>6, <1>7, PrefixOfPrefix
<1> QED BY <1>1, <1>3, <1>4, <1>5, <1>6, <1>7, <1>8 DEF zero, one, two, all, Places

Follows(c, s, next, parted, t, x) ==
  /\ s \in Places /\ next \in Places \cup {"eol"}
  /\ parted \in BOOLEAN /\ t \in Str /\ x \in Str
  /\ Rest(c, s) = L!Room(x) + Rest(c, next) /\ Rest(c, next) \in Nat
  /\ Len(Piece(parted, t)) \in Nat /\ Len(Piece(parted, t)) <= L!Room(x)
  /\ ~parted => t = <<>>
  /\ parted => x # <<>>
  /\ L!Usual(c) => SoFar(c, next) = SoFar(c, s) \o Piece(parted, t)

LEMMA PartFollows ==
  ASSUME NEW c, IsCall(c)
  PROVE  /\ Follows(c, "prefix", "text", L!Trim(c.prefix) # <<>>, L!Trim(c.prefix), c.prefix)
         /\ Follows(c, "text", "suffix", c.text # <<>>, L!Trim(c.text), c.text)
         /\ Follows(c, "suffix", "eol", L!Trim(c.suffix) # <<>>, L!Trim(c.suffix), c.suffix)
<1>1. /\ c.prefix \in Str /\ c.text \in Str /\ c.suffix \in Str
  BY CallParts
<1>2. L!Room(c.prefix) \in Nat /\ L!Room(c.text) \in Nat /\ L!Room(c.suffix) \in Nat
  BY <1>1, RoomIs
<1>3. /\ Rest(c, "prefix") = L!Room(c.prefix) + Rest(c, "text") /\ Rest(c, "text") \in Nat
      /\ Rest(c, "text") = L!Room(c.text) + Rest(c, "suffix") /\ Rest(c, "suffix") \in Nat
      /\ Rest(c, "suffix") = L!Room(c.suffix) + Rest(c, "eol") /\ Rest(c, "eol") \in Nat
  BY <1>2 DEF Rest
<1>4. ASSUME NEW x \in Str
      PROVE  /\ L!Trim(x) \in Str /\ (x = <<>> => L!Trim(x) = <<>>)
             /\ Piece(L!Trim(x) # <<>>, L!Trim(x)) = L!Part(x)
             /\ Len(L!Part(x)) \in Nat /\ Len(L!Part(x)) <= L!Room(x)
             /\ Len(Piece(x # <<>>, L!Trim(x))) \in Nat /\ Len(Piece(x # <<>>, L!Trim(x))) <= L!Room(x)
             /\ (x # <<>> => L!Trim(x) # <<>>) => Piece(x # <<>>, L!Trim(x)) = L!Part(x)
  <2> DEFINE t == L!Trim(x)
  <2>1. t \in Str /\ (x = <<>> => t = <<>>) /\ Len(t) <= Len(x)
    BY TrimIs
  <2>2. L!Part(x) = IF t = <<>> THEN <<>> ELSE <<L!Space>> \o t
    BY DEF L!Part
  <2>3. L!Part(x) \in Str /\ Len(L!Part(x)) <= L!Room(x)
    BY PartIs
  <2>4. Len(L!Part(x)) \in Nat
    BY <2>3, StrLen
  <2> HIDE DEF t
  <2>5. Piece(t # <<>>, t) = L!Part(x)
    BY <2>2 DEF Piece
  <2>6. ((x # <<>>) => (t # <<>>)) => Piece(x # <<>>, t) = L!Part(x)
    BY <2>1, <2>2 DEF Piece
  <2>7. Len(Piece(x # <<>>, t)) \in Nat /\ Len(Piece(x # <<>>, t)) <= L!Room(x)
    <3> DEFINE sp == <<L!Space>>
    <3>1. sp \in Str /\ Len(sp) = 1
      BY DEF Str, Byte
    <3> HIDE DEF sp
    <3>2. Len(sp \o t) = 1 + Len(t)
      BY <2>1, <3>1, PrefixOfAll
    <3>3. Len(t) \in Nat /\ Len(<<>>) = 0
      BY <2>1, StrLen, EmptySeq
    <3>4. CASE x = <<>>
      <4>1. Piece(x # <<>>, t) = <<>> /\ L!Room(x) = 0
        BY <3>4, RoomIs DEF Piece
      <4> QED BY <3>3, <4>1
    <3>5. CASE x # <<>>
      <4>1. Piece(x # <<>>, t) = sp \o t /\ L!Room(x) = Len(x) + 1
        BY <3>5, RoomIs DEF Piece, sp
      <4>2. Len(x) \in Nat
        BY StrLen
      <4> QED BY <2>1, <3>2, <3>3, <4>1, <4>2
    <3> QED BY <3>4, <3>5
  <2> QED BY <2>1, <2>3, <2>4, <2>5, <2>6, <2>7 DEF t
<1>5. ASSUME NEW x \in Str, NEW s, NEW next, s \in Places, next \in Places \cup {"eol"},
             Rest(c, s) = L!Room(x) + Rest(c, next), Rest(c, next) \in Nat,
             SoFar(c, next) = SoFar(c, s) \o L!Part(x)
      PROVE  /\ Follows(c, s, next, L!Trim(x) # <<>>, L!Trim(x), x)
             /\ (L!Usual(c) => (x # <<>> => L!Trim(x) # <<>>)) => Follows(c, s, next, x # <<>>, L!Trim(x), x)
  <2>1. Follows(c, s, next, L!Trim(x) # <<>>, L!Trim(x), x)
    BY <1>4, <1>5 DEF Follows
  <2>2. ASSUME L!Usual(c) => (x # <<>> => L!Trim(x) # <<>>)
        PROVE  Follows(c, s, next, x # <<>>, L!Trim(x), x)
    BY <1>4, <1>5, <2>2 DEF Follows
  <2> QED BY <2>1, <2>2
<1>6. L!Usual(c) => (c.text # <<>> => L!Trim(c.text) # <<>>)
  BY DEF L!Usual
<1>7. /\ "prefix" \in Places /\ "text" \in Places /\ "suffix" \in Places
      /\ "text" \in Places \cup {"eol"} /\ "suffix" \in Places \cup {"eol"} /\ "eol" \in Places \cup {"eol"}
  BY DEF Places
<1>8. Follows(c, "prefix", "text", L!Trim(c.prefix) # <<>>, L!Trim(c.prefix), c.prefix)
  BY <1>1, <1>3, <1>5, <1>7, SoFarGrows
<1>9. Follows(c, "text", "suffix", c.text # <<>>, L!Trim(c.text), c.text)
  BY <1>1, <1>3, <1>5, <1>6, <1>7, SoFarGrows
<1>10. Follows(c, "suffix", "eol", L!Trim(c.suffix) # <<>>, L!Trim(c.suffix), c.suffix)
  BY <1>1, <1>3, <1>5, <1>7, SoFarGrows
<1> QED BY <1>8, <1>9, <1>10

LEMMA PutKeeps ==
  ASSUME NEW c, IsCall(c), SizeSpan \in Nat, SizeSpan > 2 * LogBuffer,
         NEW from, NEW s, NEW next, NEW parted, NEW t, NEW x,
         Fitting(c, s, from), Follows(c, s, next, parted, t, x)
  PROVE  /\ ~(parted /\ Len(from) >= L!LenMax(c) - 1) =>
              Fitting(c, next, Behind(from, parted, t, L!LenMax(c)))
         /\ parted /\ Len(from) >= L!LenMax(c) - 1 => Fitting(c, "eol", from)
<1> DEFINE max == L!LenMax(c)
           new == Behind(from, parted, t, max)
           piece == Piece(parted, t)
           k == Len(piece)
           r == L!Room(x)
           rest == Rest(c, next)
           l == Len(from)
<1>1. /\ s \in Places /\ next \in Places \cup {"eol"} /\ parted \in BOOLEAN /\ t \in Str /\ x \in Str
      /\ Rest(c, s) = r + rest /\ rest \in Nat /\ k \in Nat /\ k <= r
      /\ (~parted => t = <<>>) /\ (parted => x # <<>>)
      /\ (L!Usual(c) => SoFar(c, next) = SoFar(c, s) \o piece)
  BY DEF Follows
<1>2. r \in Nat /\ (parted => r >= 2)
  BY <1>1, RoomIs
<1>3. max \in Nat /\ Sum(c) \in Nat
  BY LenMaxIs
<1>4. /\ from \in Str /\ l <= max /\ l + Rest(c, s) <= Sum(c)
      /\ L!Usual(c) => L!IsPrefix(from, SoFar(c, "eol")) /\ (from = SoFar(c, s) \/ l = max)
      /\ L!Usual(c) /\ Roomy(c) => from = SoFar(c, s) /\ l + Rest(c, s) <= max
  BY <1>1 DEF Fitting
<1>5. l \in Nat
  BY <1>4, StrLen
<1>6. /\ SoFar(c, s) \in Str /\ SoFar(c, next) \in Str /\ SoFar(c, "eol") \in Str
      /\ L!IsPrefix(SoFar(c, next), SoFar(c, "eol"))
  BY <1>1, SoFarGrows
<1>7. CASE ~(parted /\ l >= max - 1)
  <2>1. Put(from, new, piece, max) /\ (~parted => new = from)
    <3> HIDE DEF max
    <3> QED BY <1>1, <1>3, <1>4, <1>7, PutDoes
  <2> HIDE DEF max, new, piece, r, rest
  <2>2. /\ new \in Str /\ Len(new) <= max /\ Len(new) <= l + k
        /\ L!IsPrefix(new, from \o piece) /\ (new = from \o piece \/ Len(new) = max)
        /\ (l + k <= max => new = from \o piece)
    BY <2>1 DEF Put
  <2> DEFINE n == Len(new)
  <2>3. n \in Nat
    BY <2>2, StrLen
  <2>4. n + rest <= Sum(c)
    <3> HIDE DEF n, l, k
    <3>1. l + (r + rest) <= Sum(c)
      BY <1>1, <1>4
    <3>2. n <= l + k
      BY <2>2 DEF n
    <3> QED BY <1>1, <1>2, <1>3, <1>5, <2>3, <3>1, <3>2
  <2>5. ASSUME L!Usual(c)
        PROVE  L!IsPrefix(new, SoFar(c, "eol")) /\ (new = SoFar(c, next) \/ Len(new) = max)
    <3>1. CASE from = SoFar(c, s)
      <4>1. from \o piece = SoFar(c, next)
        BY <1>1, <2>5, <3>1
      <4>2. L!IsPrefix(new, SoFar(c, "eol"))
        BY <1>6, <2>2, <4>1, PrefixOfPrefix
      <4> QED BY <2>2, <4>1, <4>2
    <3>2. CASE l = max
      <4>1. ~parted
        BY <1>3, <1>7, <3>2
      <4>2. new = from
        BY <2>1, <4>1
      <4> QED BY <1>4, <2>5, <3>2, <4>2
    <3> QED BY <1>4, <2>5, <3>1, <3>2
  <2>6. ASSUME L!Usual(c), Roomy(c)
        PROVE  new = SoFar(c, next) /\ Len(new) + rest <= max
    <3>1. from = SoFar(c, s) /\ l + (r + rest) <= max
      BY <1>1, <1>4, <2>6
    <3>2. l + k <= max
      <4> HIDE DEF l, k
      <4> QED BY <1>1, <1>2, <1>3, <1>5, <3>1
    <3>3. new = SoFar(c, next)
      BY <1>1, <2>2, <2>6, <3>1, <3>2
    <3>4. n + rest <= max
      <4>1. n <= l + k
        BY <2>2
      <4> HIDE DEF l, k, n
      <4> QED BY <1>1, <1>2, <1>3, <1>5, <2>3, <3>1, <4>1
    <3> QED BY <3>3, <3>4
  <2>7. Fitting(c, next, new)
    BY <2>2, <2>4, <2>5, <2>6 DEF Fitting, max, rest
  <2> QED BY <1>7, <2>7 DEF max, new
<1>8. CASE parted /\ l >= max - 1
  <2>1. Rest(c, "eol") = 0 /\ "eol" \notin Places
    BY DEF Rest, Places
  <2>2. ~(L!Usual(c) /\ Roomy(c))
    <3> SUFFICES ASSUME L!Usual(c), Roomy(c) PROVE FALSE
      OBVIOUS
    <3>1. l + (r + rest) <= max /\ r >= 2
      BY <1>1, <1>2, <1>4, <1>8
    <3> HIDE DEF l, r, rest, max
    <3> QED BY <1>1, <1>2, <1>3, <1>5, <1>8, <3>1
  <2>3. l + 0 <= Sum(c)
    <3>1. l + (r + rest) <= Sum(c)
      BY <1>1, <1>4
    <3> HIDE DEF l, r, rest
    <3> QED BY <1>1, <1>2, <1>3, <1>5, <3>1
  <2>4. Fitting(c, "eol", from)
    BY <1>4, <2>1, <2>2, <2>3 DEF Fitting
  <2> QED BY <1>8, <2>4
<1> QED BY <1>7, <1>8

-----------------------------------------------------------------------------
(* The steps. *)

LEMMA LogBounds == SizeSpan \in Nat /\ SizeSpan > 2 * LogBuffer
BY InstanceAssumption DEF L!LogAssumption

LEMMA LogInit == L!LInit => LogInv
<1> SUFFICES ASSUME L!LInit PROVE LogInv
  OBVIOUS
<1>1. PICK a \in Stamps, p \in LogPrefixes, b \in TextsOf, h \in Heads, m \in Messages :
        call = [stamp |-> a, prefix |-> p, text |-> b, head |-> h, message |-> m, suffix |-> L!Suffix(h, m)]
  BY DEF L!LInit
<1>2. /\ a \in Text /\ p \in Text /\ b \in Text /\ h \in Text /\ m \in Text
      /\ LogBuffer \in Nat /\ Len(a) < LogBuffer - 2
  BY InstanceAssumption DEF L!LogAssumption, Text
<1>3. Len(a) \in Nat
  BY <1>2, TextIsStr
<1>4. Sized
  BY <1>2, <1>3 DEF Sized
<1>5. IsCall(call)
  BY <1>1, <1>2, <1>4 DEF IsCall
<1>6. /\ over = L!TooLong(call.head) /\ line = call.stamp
      /\ step = IF over THEN "over" ELSE "prefix"
  BY DEF L!LInit
<1>7. over \in BOOLEAN
  BY <1>6 DEF L!TooLong
<1>8. Fitting(call, "prefix", call.stamp)
  <2> DEFINE l == Len(call.stamp)
             r == L!Room(call.stamp)
             rest == Rest(call, "prefix")
             max == L!LenMax(call)
  <2>1. call.stamp \in Str /\ l \in Nat /\ l < LogBuffer - 2 /\ LogBuffer \in Nat
    BY <1>2, <1>5, CallParts, StrLen DEF IsCall
  <2>2. r \in Nat /\ l <= r /\ (call.stamp # <<>> => r = l + 1 /\ l >= 1) /\ (call.stamp = <<>> => l = 0)
    BY <2>1, RoomIs
  <2>3. Sum(call) = r + rest /\ rest \in Nat
    <3>1. L!Room(call.prefix) \in Nat /\ L!Room(call.text) \in Nat /\ L!Room(call.suffix) \in Nat
      BY <1>5, CallParts, RoomIs
    <3> QED BY <2>2, <3>1 DEF Sum, Rest
  <2>4. max \in Nat /\ (Sum(call) > 0 => max = (IF Sum(call) <= LogBuffer THEN Sum(call) ELSE LogBuffer) - 1)
    BY <1>5, LogBounds, LenMaxIs
  <2>5. SoFar(call, "prefix") = call.stamp /\ L!IsPrefix(call.stamp, SoFar(call, "eol"))
    BY <1>5, SoFarGrows DEF Places
  <2>6. ASSUME L!Usual(call), Roomy(call) PROVE l + rest <= max
    <3>1. Sum(call) <= LogBuffer /\ Sum(call) >= 1 /\ call.stamp # <<>>
      BY <1>5, <2>6, RoomyIs DEF Roomy
    <3>2. r = l + 1 /\ max = Sum(call) - 1
      BY <2>2, <2>3, <2>4, <3>1
    <3> HIDE DEF l, r, rest, max
    <3> QED BY <2>1, <2>2, <2>3, <3>2
  <2>7. l <= max /\ l + rest <= Sum(call)
    <3>1. call.stamp # <<>> => Sum(call) > 0 /\ Sum(call) >= l + 1
      <4> HIDE DEF l, r, rest
      <4> QED BY <2>1, <2>2, <2>3
    <3> HIDE DEF l, r, rest, max
    <3> QED BY <2>1, <2>2, <2>3, <2>4, <3>1
  <2> QED BY <2>1, <2>5, <2>6, <2>7 DEF Fitting
<1>9. CASE over
  BY <1>5, <1>6, <1>9 DEF LogInv
<1>10. CASE ~over
  BY <1>5, <1>6, <1>8, <1>10 DEF LogInv, Places
<1> QED BY <1>7, <1>9, <1>10

LEMMA PutStep ==
  ASSUME LogInv, step \in Places, UNCHANGED <<call, over>>,
         NEW next, NEW parted, NEW t, NEW x,
         Follows(call, step, next, parted, t, x), L!Put(parted, t, next)
  PROVE  LogInv'
<1>1. IsCall(call) /\ over = FALSE /\ Fitting(call, step, line)
  BY DEF LogInv, Places
<1>2. call' = call /\ over' = over /\ next \in Places \cup {"eol"}
  BY DEF Follows
<1>3. step' \in Places \cup {"eol"} /\ Fitting(call, step', line')
  <2>1. CASE parted /\ Len(line) >= L!LenMax(call) - 1
    <3>1. step' = "eol" /\ line' = line
      BY <2>1 DEF L!Put
    <3> QED BY <1>1, <2>1, <3>1, LogBounds, PutKeeps
  <2>2. CASE ~(parted /\ Len(line) >= L!LenMax(call) - 1)
    <3>1. step' = next /\ line' = Behind(line, parted, t, L!LenMax(call))
      BY <2>2 DEF L!Put, Behind, With
    <3> QED BY <1>1, <1>2, <2>2, <3>1, LogBounds, PutKeeps
  <2> QED BY <2>1, <2>2
<1>4. step' # "over" /\ step' \in Places \cup {"eol", "written", "over"}
  BY <1>3 DEF Places
<1> QED BY <1>1, <1>2, <1>3, <1>4 DEF LogInv

LEMMA LogStep == LogInv /\ [L!LNext]_(L!lvars) => LogInv'
<1> SUFFICES ASSUME LogInv, [L!LNext]_(L!lvars) PROVE LogInv'
  OBVIOUS
<1>1. IsCall(call) /\ (step # "over" => over = FALSE /\ Fitting(call, step, line))
  BY DEF LogInv
<1>2. "prefix" \in Places /\ "text" \in Places /\ "suffix" \in Places /\ "over" \notin Places
  BY DEF Places
<1>3. CASE L!PutPrefix
  <2>1. step = "prefix" /\ L!Put(L!Trim(call.prefix) # <<>>, L!Trim(call.prefix), "text") /\ UNCHANGED <<call, over>>
    BY <1>3 DEF L!PutPrefix
  <2>2. Follows(call, step, "text", L!Trim(call.prefix) # <<>>, L!Trim(call.prefix), call.prefix)
    BY <1>1, <2>1, PartFollows
  <2> QED BY <1>2, <2>1, <2>2, PutStep
<1>4. CASE L!PutText
  <2>1. step = "text" /\ call' = call
    BY <1>4 DEF L!PutText
  <2>2. CASE Len(call.text) >= LogBuffer /\ Len(line) < L!LenMax(call) - 1
    <3>1. over' = TRUE /\ step' = "over"
      BY <1>4, <2>2 DEF L!PutText
    <3> QED BY <1>1, <2>1, <2>2, <3>1 DEF LogInv
  <2>3. CASE ~(Len(call.text) >= LogBuffer /\ Len(line) < L!LenMax(call) - 1)
    <3>1. L!Put(call.text # <<>>, L!Trim(call.text), "suffix") /\ over' = over
      BY <1>4, <2>3 DEF L!PutText
    <3>2. Follows(call, step, "suffix", call.text # <<>>, L!Trim(call.text), call.text)
      BY <1>1, <2>1, PartFollows
    <3> QED BY <1>2, <2>1, <3>1, <3>2, PutStep
  <2> QED BY <2>2, <2>3
<1>5. CASE L!PutSuffix
  <2>1. step = "suffix" /\ L!Put(L!Trim(call.suffix) # <<>>, L!Trim(call.suffix), "eol") /\ UNCHANGED <<call, over>>
    BY <1>5 DEF L!PutSuffix
  <2>2. Follows(call, step, "eol", L!Trim(call.suffix) # <<>>, L!Trim(call.suffix), call.suffix)
    BY <1>1, <2>1, PartFollows
  <2> QED BY <1>2, <2>1, <2>2, PutStep
<1>6. CASE L!Eol
  <2>1. step = "eol" /\ step' = "written" /\ over' = (Len(line) + 1 > LogBuffer) /\ call' = call /\ line' = line
    BY <1>6 DEF L!Eol
  <2>2. Fitting(call, "eol", line)
    BY <1>1, <2>1
  <2>3. line \in Str /\ Len(line) <= L!LenMax(call) /\ Len(line) + 0 <= Sum(call)
    BY <2>2 DEF Fitting, Rest
  <2>4. Len(line) \in Nat
    BY <2>3, StrLen
  <2>5. Sum(call) \in Nat /\ (Sum(call) > 0 => L!LenMax(call) = (IF Sum(call) <= LogBuffer THEN Sum(call) ELSE LogBuffer) - 1)
        /\ LogBuffer \in Nat /\ LogBuffer >= 3
    BY <1>1, LogBounds, LenMaxIs DEF IsCall, Sized
  <2>6. ~(Len(line) + 1 > LogBuffer)
    <3> DEFINE l == Len(line)
               s == Sum(call)
    <3>1. l \in Nat /\ s \in Nat /\ l + 0 <= s /\ l <= L!LenMax(call)
      BY <2>3, <2>4, <2>5
    <3>2. CASE s = 0
      <4> HIDE DEF l, s
      <4> QED BY <2>5, <3>1, <3>2 DEF l
    <3>3. CASE s > 0
      <4>1. l <= (IF s <= LogBuffer THEN s ELSE LogBuffer) - 1
        BY <2>5, <3>1, <3>3
      <4> HIDE DEF l, s
      <4>2. l <= LogBuffer - 1
        BY <2>5, <3>1, <4>1
      <4> QED BY <2>5, <3>1, <4>2 DEF l
    <3> QED BY <3>1, <3>2, <3>3
  <2>7. Fitting(call, "written", line)
    <3>1. Rest(call, "written") = Rest(call, "eol") /\ SoFar(call, "written") = SoFar(call, "eol")
          /\ "written" \notin Places
      BY DEF Rest, SoFar, Places
    <3> QED BY <2>2, <3>1 DEF Fitting
  <2>8. ~over'
    BY <2>1, <2>6
  <2> QED BY <1>1, <2>1, <2>7, <2>8 DEF LogInv
<1>7. CASE L!Logged \/ UNCHANGED L!lvars
  BY <1>7 DEF L!Logged, L!lvars, LogInv
<1> QED BY <1>3, <1>4, <1>5, <1>6, <1>7 DEF L!LNext

\* LineIsMeant, for timestamps, prefixes, texts, heads and messages of any
\* length and any buffer: whole where there is room, cut at the end where not
\* (log-stderr.h vlog_stderr, vlog_stderr_error).
THEOREM LinesAreMeant == L!LSpec => []LineIsMeant
<1>1. LogInv => LineIsMeant
  <2> SUFFICES ASSUME LogInv PROVE L!LineIsWhole /\ L!LineIsCut
    BY DEF LineIsMeant, L!LineIsMeant
  <2> DEFINE hm == call.head \o call.message
             two == SoFar(call, "suffix")
  <2>1. IsCall(call)
    BY DEF LogInv
  <2>2. SoFar(call, "eol") = two \o L!Part(call.suffix) /\ two \in Str
    BY <2>1, SoFarGrows DEF Places
  <2>3. L!Meant(call) = two \o L!Part(hm)
    BY DEF L!Meant, SoFar
  <2>4. L!Part(hm) \in Str /\ L!Part(call.suffix) \in Str /\ hm \in Str /\ call.suffix \in Str
        /\ (L!Usual(call) => L!IsPrefix(call.suffix, hm))
    BY <2>1, CallParts, PartIs
  <2>5. over => Len(call.text) >= LogBuffer \/ L!TooLong(call.head)
    BY DEF LogInv
  <2>6. step = "written" => Fitting(call, "written", line)
    BY DEF LogInv
  <2>7. SoFar(call, "written") = SoFar(call, "eol")
    BY DEF SoFar
  <2>8. ASSUME step = "written", L!Usual(call) PROVE L!IsPrefix(line, L!Meant(call))
    <3>1. line \in Str /\ L!IsPrefix(line, SoFar(call, "eol"))
      BY <2>6, <2>8 DEF Fitting
    <3> HIDE DEF two, hm
    <3>2. L!IsPrefix(L!Part(call.suffix), L!Part(hm))
      BY <2>4, <2>8, PartOfPrefix
    <3>3. L!IsPrefix(SoFar(call, "eol"), L!Meant(call))
      BY <2>2, <2>3, <2>4, <3>2, PrefixBehind
    <3>4. SoFar(call, "eol") \in Str /\ L!Meant(call) \in Str
      BY <2>2, <2>3, <2>4, PrefixOfAll
    <3> QED BY <3>1, <3>3, <3>4, PrefixOfPrefix
  <2>9. ASSUME step = "written", L!Usual(call), L!RoomForAll(call), call.stamp # <<>>
        PROVE  line = L!Meant(call)
    <3>1. Roomy(call)
      BY <2>9 DEF Roomy
    <3>2. line = SoFar(call, "eol")
      BY <2>6, <2>7, <2>9, <3>1 DEF Fitting
    <3>3. call.suffix = hm
      BY <2>1, <2>9, <3>1, RoomyIs
    <3> QED BY <2>2, <2>3, <3>2, <3>3
  <2> QED BY <2>5, <2>8, <2>9 DEF L!LineIsWhole, L!LineIsCut
<1> QED BY LogInit, LogStep, <1>1, PTL DEF L!LSpec
=============================================================================
