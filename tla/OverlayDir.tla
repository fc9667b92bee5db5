---------------------------- MODULE OverlayDir -----------------------------
(***************************************************************************)
(* bin/overlay-dir-list: the files in a stack of directories, where what a *)
(* later one has covers what earlier ones have under that name, directories *)
(* are merged, and "name.-" removes "name" from the earlier ones.          *)
(*                                                                         *)
(* A name is a record: its text, its place in the order of sort -V, where   *)
(* different texts may have the same place ("a1", "a01"), the number that  *)
(* awk takes it for, if any ("1", "01", "1.0"), and whether it begins or    *)
(* ends with a blank, which the shell's read takes away.  A layer is a set  *)
(* of entries; a directory is a layer's number and a path, a sequence of   *)
(* names.                                                                  *)
(***************************************************************************)
EXTENDS Integers, Sequences, SequencesExt, FiniteSets

NoNumber == -1

Name == [text : Nat, place : Nat, number : Nat \cup {NoNumber}, blank : BOOLEAN]

\* "name.-" is an entry of that name with skip; what is neither a directory
\* nor a file, a device or a socket is "other", a name with a line feed or "|"
\* too: they are filtered out before anything else.
EntryKinds == {"dir", "file", "other"}

Entry(path, kind, skip) == [path |-> path, kind |-> kind, skip |-> skip]

NameOf(entry) == Last(entry.path)

-----------------------------------------------------------------------------
(* Names as the tools compare them. *)

Before(m, n) == m.place < n.place \/ (m.place = n.place /\ m.text < n.text)

SameToAwk(m, n) == m = n \/ (m.number # NoNumber /\ m.number = n.number)

AsRead(name) == [name EXCEPT !.blank = FALSE]

-----------------------------------------------------------------------------
(* One level: what find and sort say of a directory, and the list that is   *)
(* accumulated over the arguments.                                          *)

IsDir(layers, d) ==
  d[2] = <<>> \/ \E e \in layers[d[1]] : e.path = d[2] /\ e.kind = "dir" /\ ~e.skip

Current(layers, d) ==
  LET in == {e \in layers[d[1]] : Len(e.path) = Len(d[2]) + 1 /\ IsPrefix(d[2], e.path) /\ e.kind # "other"}
      Sooner(e, f) == \/ Before(NameOf(e), NameOf(f))
                      \/ NameOf(e) = NameOf(f) /\ f.skip /\ ~e.skip
      sorted == SetToSortSeq(in, Sooner)
  IN  IF IsDir(layers, d)
      THEN [i \in DOMAIN sorted |-> [kind |-> sorted[i].kind, dir |-> d, name |-> NameOf(sorted[i]),
                                     skip |-> sorted[i].skip]]
      ELSE <<>>

\* adjust_with_skiplist: the names are read, and awk compares them.
Without(all, names, kinds) ==
  LET Stays(e) == ~\E n \in names : SameToAwk(e.name, AsRead(n)) /\ e.kind \in kinds
  IN  SelectSeq(all, Stays)

NamesIn(list, Such(_)) == {list[i].name : i \in {j \in DOMAIN list : Such(list[j])}}

\* A mutant of Merged: a file does not cover the directories before it.
MergedFiles(all, current) ==
  LET Skips(e) == e.skip
      Keeps(e) == ~e.skip
      covers   == NamesIn(current, Keeps)
  IN  Without(Without(all, NamesIn(current, Skips), EntryKinds), covers, {"file"}) \o SelectSeq(current, Keeps)

\* Names to skip go, then all that a file covers, then files that a directory
\* covers; what is left of the new list is put after the old one.
Merged(all, current) ==
  LET Skips(e)  == e.skip
      Keeps(e)  == ~e.skip
      IsFile(e) == Keeps(e) /\ e.kind # "dir"
      Dirs(e)   == Keeps(e) /\ e.kind = "dir"
      unskipped == Without(all, NamesIn(current, Skips), EntryKinds)
      bare      == Without(unskipped, NamesIn(current, IsFile), EntryKinds)
  IN  Without(bare, NamesIn(current, Dirs), {"file"}) \o SelectSeq(current, Keeps)

Accumulated(layers, dirs) ==
  FoldLeft(LAMBDA all, d : Merged(all, Current(layers, d)), <<>>, dirs)

\* sort -zuV: of names with one place the first stays.
UniqueNames(all) ==
  LET firsts == {i \in DOMAIN all : \A j \in 1 .. i - 1 : all[j].name.place # all[i].name.place}
      sorted == SetToSortSeq(firsts, LAMBDA i, j : Before(all[i].name, all[j].name))
  IN  [i \in DOMAIN sorted |-> all[sorted[i]].name]

-----------------------------------------------------------------------------
(* All levels: the script calls itself for the directories of one name.     *)

RECURSIVE Listing(_, _, _)

Listing(layers, dirs, depth) ==
  LET all == Accumulated(layers, dirs)
      Chosen(name) == LET IsIt(e) == SameToAwk(e.name, name) IN SelectSeq(all, IsIt)
      Below(list) == [i \in DOMAIN list |-> <<list[i].dir[1], Append(list[i].dir[2], list[i].name)>>]
      \* An entry of a name; "dirnames" has the names gone into.
      AddEntry(out, e, name) ==
        IF e.kind # "dir" THEN [out EXCEPT !.files = Append(@, <<e.dir[1], Append(e.dir[2], name)>>)]
        ELSE IF depth = 1 \/ name \in out.dirnames THEN out
        ELSE [files |-> out.files \o Listing(layers, Below(Chosen(name)), depth - 1),
              dirnames |-> out.dirnames \cup {name}]
      AddName(out, name) == FoldLeft(LAMBDA o, e : AddEntry(o, e, name), out, Chosen(name))
  IN  FoldLeft(LAMBDA out, n : AddName(out, AsRead(n)), [files |-> <<>>, dirnames |-> {}],
               UniqueNames(all)).files

OverlayList(layers, depth) == Listing(layers, [i \in DOMAIN layers |-> <<i, <<>>>>], depth)

-----------------------------------------------------------------------------
(* What is meant. *)

\* An entry of a later layer, or of one of the directories on the way there,
\* covers a path.
Covers(e, path) ==
  /\ e.kind # "other" /\ IsPrefix(e.path, path)
  /\ e.skip \/ e.kind = "file" \/ e.path = path

FilesIn(layer, depth) ==
  {e.path : e \in {f \in layer : f.kind = "file" /\ ~f.skip /\ Len(f.path) <= depth}}

Visible(layers, depth) ==
  UNION {{<<i, p>> : p \in {q \in FilesIn(layers[i], depth) :
                              ~\E j \in i + 1 .. Len(layers) : \E e \in layers[j] : Covers(e, q)}} :
           i \in DOMAIN layers}

Sorted(path, other) ==
  \E n \in 1 .. Len(path) :
    /\ n <= Len(other) /\ SubSeq(path, 1, n - 1) = SubSeq(other, 1, n - 1)
    /\ Before(path[n], other[n])

\* Names that no tool takes for one another.
Usual(layers) ==
  LET names == UNION {Range(e.path) : e \in UNION Range(layers)}
  IN  \A m, n \in names : ~m.blank /\ (m.place = n.place \/ SameToAwk(m, n) => m = n)

\* Whether a list has every visible file, once, in order, and nothing else.
IsMeant(layers, depth, list) ==
  /\ Range(list) = Visible(layers, depth)
  /\ \A i, j \in DOMAIN list : i < j => Sorted(list[i][2], list[j][2])
=============================================================================
