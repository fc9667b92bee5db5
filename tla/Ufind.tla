------------------------------- MODULE Ufind -------------------------------
(***************************************************************************)
(* ufind.c: list the regular files under some paths, each file once.       *)
(*                                                                         *)
(* A file or directory is an object <<dev, ino>>.  The walk is a recursion *)
(* whose frames are "stack"; the tables of inodes seen, one of directories *)
(* and one of files for each device, are the sets "dirs" and "files" (what *)
(* insert_strict of UHash promises is GrowOnlyMap).  The tree does not     *)
(* change during the walk; readdir(3) may list it in any order.            *)
(***************************************************************************)
EXTENDS Naturals, Sequences

CONSTANTS
  Devs, Inos,  \* devices and inodes
  Cases        \* what ufind may be started with: a set of records "given"

Objects == Devs \X Inos

\* An entry has the type and the inode readdir(3) reports, and "to", what its
\* name leads to: something else where a file system is mounted, the end of
\* the chain for a symbolic link, nothing of the tree for a dangling one.
Entry == [type : {"reg", "dir", "lnk", "other"}, ino : Inos, to : Objects]

Node == [type : {"reg", "other"}, entries : {{}}] \cup [type : {"dir"}, entries : SUBSET Entry]

\* tree: what there is; args: the objects named; xdev: option -x;
\* unreadable: the directories opendir(3) fails on; faults: whether open(2) of an
\* argument or a link, or asking for its type or name, may fail ("open"), and
\* paths may be too long ("long"), which depends on the name a directory was
\* reached by.
ASSUME CaseAssumption ==
  \A c \in Cases :
    /\ DOMAIN c.tree \subseteq Objects /\ \A o \in DOMAIN c.tree : c.tree[o] \in Node
    /\ c.args \in Seq(Objects) /\ c.xdev \in BOOLEAN /\ c.unreadable \subseteq Objects
    /\ c.faults \subseteq {"open", "long"}

VARIABLES
  given,    \* the case
  todo,     \* the arguments left
  seal,     \* devroot_seal
  known,    \* the devices in devroot
  dirs,     \* seen_t.dir of every device
  files,    \* seen_t.file of every device
  stack,    \* the directories open
  printed   \* the objects whose names have been written

vars == <<given, todo, seal, known, dirs, files, stack, printed>>

Dev(o) == o[1]

Type(o) == IF o \in DOMAIN given.tree THEN given.tree[o].type ELSE "none"

Entries(o) == IF o \in DOMAIN given.tree THEN given.tree[o].entries ELSE {}

Init ==
  /\ given \in Cases /\ todo = given.args
  /\ seal = FALSE /\ known = {} /\ dirs = {} /\ files = {}
  /\ stack = <<>> /\ printed = <<>>

Barred(dev, sealed) == sealed /\ dev \notin known

\* A mutant of ProcessDev: the seal is not set.
ProcessDevOpen(dev, sealed) == known' = known \cup {dev} /\ seal' = sealed

\* With -x the devices known are all there will be, until the next argument.
ProcessDev(dev, sealed) ==
  IF Barred(dev, sealed)
  THEN UNCHANGED known /\ seal' = sealed
  ELSE known' = known \cup {dev} /\ seal' = given.xdev

\* A mutant of ProcessFile: a file that was seen is printed all the same.
ProcessFileAgain(id, to, sealed, rest) ==
  /\ ProcessDev(Dev(id), sealed)
  /\ IF Barred(Dev(id), sealed) THEN UNCHANGED <<files, printed>>
     ELSE files' = files \cup {id} /\ printed' = Append(printed, to)
  /\ stack' = rest /\ UNCHANGED <<given, dirs>>

\* The file "to", seen under the device and inode "id".
ProcessFile(id, to, sealed, rest) ==
  /\ ProcessDev(Dev(id), sealed)
  /\ IF Barred(Dev(id), sealed) \/ id \in files
     THEN UNCHANGED <<files, printed>>
     ELSE files' = files \cup {id} /\ printed' = Append(printed, to)
  /\ stack' = rest
  /\ UNCHANGED <<given, dirs>>

Frame(id, to) == [at |-> to, dev |-> Dev(id), left |-> Entries(to)]

\* A mutant of ProcessDir: a directory is seen when it has been listed.
ProcessDirLate(id, to, sealed, rest) ==
  /\ ProcessDev(Dev(id), sealed)
  /\ stack' = IF Barred(Dev(id), sealed) \/ id \in dirs \/ to \in given.unreadable
              THEN rest ELSE Append(rest, Frame(id, to))
  /\ dirs' = IF Entries(to) = {} THEN dirs \cup {id} ELSE dirs
  /\ UNCHANGED <<given, files, printed>>

ProcessDir(id, to, sealed, rest) ==
  /\ ProcessDev(Dev(id), sealed)
  /\ IF Barred(Dev(id), sealed) \/ id \in dirs
     THEN stack' = rest /\ UNCHANGED dirs
     ELSE /\ dirs' = dirs \cup {id}
          /\ stack' = IF to \in given.unreadable THEN rest ELSE Append(rest, Frame(id, to))
  /\ UNCHANGED <<given, files, printed>>

Skip(sealed, rest) ==
  /\ stack' = rest /\ seal' = sealed
  /\ UNCHANGED <<given, known, dirs, files, printed>>

\* An argument, or what a symbolic link leads to: the real device and inode.
\* What cannot be opened, or named by its descriptor, is dropped.
ProcessArg(to, sealed, rest) ==
  \/ Type(to) = "reg" /\ ProcessFile(to, to, sealed, rest)
  \/ Type(to) = "dir" /\ ProcessDir(to, to, sealed, rest)
  \/ Type(to) \in {"other", "none"} /\ Skip(sealed, rest)
  \/ "open" \in given.faults /\ Skip(sealed, rest)

\* A mutant of Argument: the seal of the argument before stays.
ArgumentSealed ==
  /\ stack = <<>> /\ todo # <<>> /\ todo' = Tail(todo)
  /\ ProcessArg(Head(todo), seal, <<>>)

Argument ==
  /\ stack = <<>> /\ todo # <<>>
  /\ todo' = Tail(todo)
  /\ ProcessArg(Head(todo), FALSE, <<>>)

\* The inode is the one readdir(3) gave, and the device the directory's own
\* as its caller saw it.  Whatever has too long a path is skipped.
ReadDir ==
  /\ stack # <<>>
  /\ LET top == stack[Len(stack)]
     IN  \E e \in top.left :
           LET rest == [stack EXCEPT ![Len(stack)] = [top EXCEPT !.left = @ \ {e}]]
               id   == <<top.dev, e.ino>>
           IN  \/ e.type = "reg" /\ ProcessFile(id, e.to, seal, rest)
               \/ e.type = "dir" /\ ProcessDir(id, e.to, seal, rest)
               \/ e.type = "lnk" /\ ProcessArg(e.to, seal, rest)
               \/ e.type \notin {"reg", "dir", "lnk"} /\ Skip(seal, rest)
               \/ "long" \in given.faults /\ Skip(seal, rest)
  /\ UNCHANGED todo

CloseDir ==
  /\ stack # <<>> /\ stack[Len(stack)].left = {}
  /\ Skip(seal, SubSeq(stack, 1, Len(stack) - 1))
  /\ UNCHANGED todo

Done == stack = <<>> /\ todo = <<>>

Next == Argument \/ ReadDir \/ CloseDir \/ (Done /\ UNCHANGED vars)

Spec == Init /\ [][Next]_vars

-----------------------------------------------------------------------------
(* Properties. *)

FrameOf == [at : Objects, dev : Devs, left : SUBSET Entry]

TypeOK ==
  /\ given \in Cases /\ todo \in Seq(Objects) /\ seal \in BOOLEAN
  /\ known \subseteq Devs /\ dirs \subseteq Objects /\ files \subseteq Objects
  /\ stack \in Seq(FrameOf) /\ printed \in Seq(Objects)

\* Nothing is mounted on an entry of the directory o.
Plain(o) ==
  \A e \in Entries(o) : e.type \in {"reg", "dir"} => e.to = <<Dev(o), e.ino>>

Unmounted == \A o \in DOMAIN given.tree : Plain(o)

\* OnceEach: where nothing is mounted, no file is printed twice, by whichever
\* names, hard links and symbolic links it is reached (ufind.c:1, "target
\* uniqueness checks").
OnceEach ==
  Unmounted => \A i, j \in DOMAIN printed : i # j => printed[i] # printed[j]

ArgDevs == {Dev(given.args[i]) : i \in DOMAIN given.args}

\* StaysHome: with -x, where nothing is mounted, only files on the devices of
\* the arguments are printed (ufind.c:49, "skip entries on different file
\* systems"; process_dev).
StaysHome ==
  given.xdev /\ Unmounted => \A i \in DOMAIN printed : Dev(printed[i]) \in ArgDevs

\* NoLoop: symbolic links in a circle never bring the recursion back into a
\* directory it is listing (process_dir).
NoLoop ==
  Unmounted => \A i, j \in DOMAIN stack : i # j => stack[i].at # stack[j].at

\* readdir(3) tells the type of every entry, as not every file system does.
Told ==
  \A o \in DOMAIN given.tree : \A e \in Entries(o) : e.type # "lnk" => Type(e.to) = e.type

\* What leads from the object o to the next: with -x only on its own device.
Leads(o, p) ==
  /\ \E e \in Entries(o) : e.to = p
  /\ given.xdev => Dev(o) = Dev(p)

\* All that an object leads to, in any number of steps.
ReachedFrom(start) ==
  LET all == DOMAIN given.tree \cup {start}
      Closed(some) == \A o \in some : \A p \in all : Leads(o, p) => p \in some
  IN  {p \in all : \A some \in SUBSET all : start \in some /\ Closed(some) => p \in some}

\* NothingMissed: where nothing is mounted, types are told, every directory can
\* be read, every argument and link opened and named, and no path is longer than
\* a buffer (PATH_MAX), each file that an argument leads to has been printed at the
\* end; with -x, each one that it leads to without leaving its device,
\* whatever the other arguments are and in which order they come (ufind.c
\* main, process_dev).
NothingMissed ==
  Done /\ Unmounted /\ Told /\ given.unreadable = {} /\ given.faults = {} =>
    \A i \in DOMAIN given.args : \A o \in ReachedFrom(given.args[i]) :
      Type(o) = "reg" => \E k \in DOMAIN printed : printed[k] = o
=============================================================================
