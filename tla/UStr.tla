-------------------------------- MODULE UStr --------------------------------
(***************************************************************************)
(* Lists of strings in one block, as xvp keeps the arguments of a program: *)
(* uvector::str of include/uvector/str.hh and its elder, string_v of       *)
(* include/uvector/str.h.  A string is stored with the NUL that the        *)
(* cleared memory after it holds, from a whole word on; an array keeps     *)
(* the offsets.                                                            *)
(*                                                                         *)
(* The two are written apart and differ in what an array does at its       *)
(* limit, in how a list is copied and in where a range of it ends.  The     *)
(* copy constructor of str.hh is meant to copy the offsets, but dynmem's   *)
(* own constructor for that is a template, hence no copy constructor: the  *)
(* implicit one is taken, and the two lists share one block of offsets.    *)
(***************************************************************************)
EXTENDS Integers, Sequences, SequencesExt, FiniteSets, FiniteSetsExt

CONSTANTS
  Strs,           \* the lists of the program
  Texts,          \* what callers append
  Junk,           \* a byte, or an offset, nobody initialised
  Word,           \* sizeof(size_t)
  BlockSize, OffGrowth, OffMax, OffWFall, OffSpan, SizeSpan, IntSpan,
  HeapMax, ReallocMayFail,  \* as in Blocks
  Amounts,        \* how many strings a range is asked to have
  MaxTexts        \* bound: strings in all lists

Nul == 0

\* The array of offsets: items are words, and 0 is an offset too.
Off == INSTANCE Blocks WITH
  Values <- 1 .. SizeSpan - 1, Zero <- 0, ItemSize <- Word, Growth <- OffGrowth,
  IdxMax <- OffMax, WFall <- OffWFall, IndexSpan <- OffSpan

\* Assumed of the constants by whoever takes an instance.
TextAssumption ==
  /\ Texts \subseteq Seq(Nat \ {Nul}) /\ Word \in Nat \ {0} /\ MaxTexts \in Nat
  /\ BlockSize % Word = 0 /\ OffGrowth % BlockSize = 0
  /\ IntSpan <= OffSpan  \* indices are unsigned ints
  /\ Amounts \subseteq 0 .. OffSpan - 1
  /\ IntSpan % (2 * BlockSize) = 0 /\ IsFiniteSet(Strs)
  /\ \A s \in Texts : 2 * (Len(s) + BlockSize) <= IntSpan  \* no string of a gigabyte
  /\ MaxTexts <= OffMax  \* past idx_max C++ loses offsets

VARIABLES
  lang,   \* the one of the two that is compiled
  text,   \* the lists
  call,   \* a range being appended, NoCall when there is none
  broken  \* the first undefined behaviour, after which nothing is specified

svars == <<lang, text, call, broken>>

NoCall == [dst |-> "none"]

\* mem is what the block really holds, twins are the lists that have the same
\* block of offsets.  History: the block failed to grow, it was copied smaller
\* than it claims, what a twin did to the offsets, and the strings whose
\* append was reported to have succeeded.
NoText ==
  [live |-> FALSE, mem |-> <<>>, claimed |-> 0, used |-> 0, off |-> Off!Blank, twins |-> {},
   refused |-> FALSE, slack |-> FALSE, lost |-> "no", kept |-> <<>>]

Refused(t) == t.refused \/ t.off.denied

\* The lists whose blocks are theirs, and as long as they claim.
Trusted(t) == ~Refused(t) /\ ~t.slack /\ t.lost = "no"

CountOf(t) == t.off.used

-----------------------------------------------------------------------------
(* Appending: the set of outcomes. *)

\* A mutant of Realloc: only what is new to the vector is cleared.
ReallocDirty(t, extend) ==
  LET new == Off!WantRealloc(Off!BlockAlign(t.claimed), extend)
  IN  IF new = 0 THEN {t}
      ELSE {[t EXCEPT !.live = TRUE, !.claimed = new,
               !.mem = [i \in 1 .. new |-> IF i <= Len(t.mem) THEN t.mem[i] ELSE Junk]]}

\* memfun_realloc_ex() on the characters: the length is stored first.
Realloc(t, extend) ==
  LET old     == Off!BlockAlign(t.claimed)
      new     == Off!WantRealloc(old, extend)
      granted == [t EXCEPT !.live = TRUE, !.claimed = new,
                    !.mem = [i \in 1 .. new |-> IF i > old THEN Nul
                                                ELSE IF i <= Len(@) THEN @[i] ELSE Junk]]
      denied  == [t EXCEPT !.claimed = new, !.refused = TRUE]
  IN  IF new = 0 THEN {t}
      ELSE (IF new <= HeapMax THEN {granted} ELSE {})
           \cup (IF ~t.live \/ ReallocMayFail \/ new > HeapMax THEN {denied} ELSE {})

\* grow_auto(): C++ asks for more at idx_max too.
GrowOffsets(v) ==
  IF lang = "C" \/ v.used < v.allocated \/ OffMax < v.allocated THEN Off!GrowAuto(v)
  ELSE Off!GrowBytes(v, OffGrowth)

\* append(), and is_inv() of what it returns.
AddOffset(v, offset) ==
  {IF r.ok
   THEN [vec |-> Off!Put(r.vec, r.vec.used + 1, r.vec.used, offset), ok |-> r.vec.used <= OffMax,
         bad |-> Off!Outside(r.vec, r.vec.used + 1)]
   ELSE [vec |-> r.vec, ok |-> FALSE, bad |-> "none"] : r \in GrowOffsets(v)}

\* memcpy() of the string to the place after the last one.
Written(t, off, s, used) ==
  [t EXCEPT !.off = off, !.used = used, !.kept = Append(@, s),
            !.mem = [i \in DOMAIN @ |-> IF i \in t.used + 1 .. t.used + Len(s)
                                        THEN s[i - t.used] ELSE @[i]]]

Overrun(t, s) == IF s # <<>> /\ t.used + Len(s) > Len(t.mem) THEN "overrun" ELSE "none"

\* What is left to do with the room there is.
Stored(t, s, used) ==
  {IF r.ok
   THEN [text |-> Written(t, r.vec, s, used), ok |-> TRUE,
         bad |-> IF r.bad = "none" THEN Overrun(t, s) ELSE r.bad]
   ELSE [text |-> [t EXCEPT !.off = r.vec], ok |-> FALSE, bad |-> r.bad] :
     r \in AddOffset(t.off, t.used)}

\* Mutants of Added: the NUL is not counted, room is asked for a string late.
AddedBare(t, s) ==
  LET used == Off!RoundBy((t.used + Len(s)) % SizeSpan, Word)
  IN  UNION {Stored(g, s, used) : g \in IF used > t.claimed THEN Realloc(t, Len(s) + 1) ELSE {t}}
AddedLate(t, s) ==
  LET used == Off!RoundBy((t.used + Len(s) + 1) % SizeSpan, Word)
  IN  UNION {Stored(g, s, used) : g \in IF t.used >= t.claimed THEN Realloc(t, Len(s) + 1) ELSE {t}}

\* _append(): NULL is noticed only by who asked for memory.
Added(t, s) ==
  LET used == Off!RoundBy((t.used + Len(s) + 1) % SizeSpan, Word)
  IN  IF used <= t.claimed THEN Stored(t, s, used)
      ELSE UNION {IF g.live THEN Stored(g, s, used)
                  ELSE {[text |-> g, ok |-> FALSE, bad |-> "none"]} : g \in Realloc(t, Len(s) + 1)}

-----------------------------------------------------------------------------
(* Reading. *)

\* get_val(): 0 past the last one.
OffsetOf(t, i) == IF i < Len(t.off.mem) /\ i < t.off.used THEN t.off.mem[i + 1] ELSE 0

\* The bytes up to the next NUL.
TextAt(t, offset) ==
  LET nuls == {i \in offset + 1 .. Len(t.mem) : t.mem[i] = Nul}
  IN  SubSeq(t.mem, offset + 1, IF nuls = {} THEN Len(t.mem) ELSE Min(nuls) - 1)

\* get(): C++ compares the index with used(), a number of bytes.
Readable(t, i) == i < (IF lang = "C" THEN CountOf(t) ELSE t.used)

Get(t, i) == TextAt(t, OffsetOf(t, i))

Unended(t, i) ==
  IF t.lost = "dangling" THEN "dangling" ELSE
  IF \E j \in OffsetOf(t, i) + 1 .. Len(t.mem) : t.mem[j] = Nul THEN "none" ELSE "overrun"

\* to_ptrlist(): what the pointers lead to.
PtrList(t) == [i \in 1 .. CountOf(t) |-> Get(t, i - 1)]

-----------------------------------------------------------------------------
SInit ==
  /\ lang \in {"C", "C++"}
  /\ text = [x \in Strs |-> NoText] /\ call = NoCall /\ broken = "none"

\* What becomes of list t when its twin was old and is new: a block that
\* grows moves, and one that does not may get an offset written over.
Follow(t, old, new) ==
  IF Len(new.off.mem) # Len(old.off.mem) THEN [t EXCEPT !.lost = "dangling", !.twins = {}]
  ELSE [t EXCEPT !.off.mem = new.off.mem,
                 !.lost = IF CountOf(old) < CountOf(t) /\ new.off # old.off THEN "overwritten" ELSE @]

\* List x becomes t; a pointer to a block that is gone must not be used.
Settle(x, t, bad) ==
  /\ broken = "none" /\ UNCHANGED lang
  /\ broken' = IF text[x].lost = "dangling" THEN "dangling" ELSE bad
  /\ text' = [y \in Strs |->
       IF y \in text[x].twins THEN Follow(text[y], text[x], t)
       ELSE IF y = x /\ Len(t.off.mem) # Len(text[x].off.mem) THEN [t EXCEPT !.twins = {}]
       ELSE IF y = x THEN t ELSE text[y]]

\* The bound on the number of strings.
RoomFor(n) ==
  Cardinality({p \in Strs \X (0 .. MaxTexts - 1) : p[2] < CountOf(text[p[1]])}) + n <= MaxTexts

AppendText(x, s) ==
  /\ call = NoCall /\ RoomFor(1) /\ UNCHANGED call
  /\ \E r \in Added(text[x], s) : Settle(x, r.text, r.bad)

\* free() clears what is used.
FreeText(x) ==
  /\ call = NoCall /\ text[x] # NoText /\ UNCHANGED call
  /\ IF \/ text[x].lost = "dangling"
        \/ text[x].live /\ text[x].used > Len(text[x].mem)
        \/ CountOf(text[x]) > Len(text[x].off.mem)
     THEN Settle(x, text[x], "overrun") ELSE Settle(x, NoText, "none")

\* The copy of a list whose array of offsets is "off".  It claims what its
\* block has in C++, and in C what the other claims.
CopyOf(t, off) ==
  LET room == Off!BlockAlign(t.used)
  IN  [t EXCEPT !.live = TRUE, !.refused = Refused(t), !.off = off,
         !.mem = [i \in 1 .. room |-> IF i > t.used THEN Nul ELSE IF i <= Len(@) THEN @[i] ELSE Junk],
         !.claimed = IF lang = "C" THEN @ ELSE room,
         !.slack = @ \/ (lang = "C" /\ t.claimed > room)]

Unreadable(t) == t.used > Len(t.mem) \/ CountOf(t) > Len(t.off.mem)

\* dup(): all of the list or nothing.
DupText(d, s) ==
  /\ lang = "C" /\ call = NoCall /\ text[d] = NoText /\ d # s /\ RoomFor(CountOf(text[s]))
  /\ UNCHANGED call
  /\ \/ Settle(d, NoText, "none")
     \/ /\ Off!BlockAlign(text[s].used) <= HeapMax
        /\ \E r \in Off!InitEx(CountOf(text[s])) :
             /\ r.ok
             /\ Settle(d, CopyOf(text[s],
                         Off!With(r.vec, CountOf(text[s]),
                           [i \in DOMAIN r.vec.mem |-> IF i <= CountOf(text[s])
                              THEN OffsetOf(text[s], i - 1) ELSE r.vec.mem[i]])),
                       IF Unreadable(text[s]) THEN "overrun" ELSE "none")

\* The copy constructor: the same, but for the offsets.
CopyText(d, s) ==
  /\ lang = "C++" /\ call = NoCall /\ broken = "none"
  /\ text[d] = NoText /\ d # s /\ RoomFor(CountOf(text[s]))
  /\ text[s].off.allocated > 0 /\ Off!BlockAlign(text[s].used) <= HeapMax
  /\ LET twins == text[s].twins \cup {s, d}
     IN  text' = [y \in Strs |->
           IF y = d THEN [CopyOf(text[s], text[s].off) EXCEPT !.twins = twins \ {d}]
           ELSE IF y \in twins THEN [text[y] EXCEPT !.twins = twins \ {y}] ELSE text[y]]
  /\ broken' = IF text[s].lost = "dangling" THEN "dangling"
               ELSE IF Unreadable(text[s]) THEN "overrun" ELSE "none"
  /\ UNCHANGED <<lang, call>>

\* A mutant of RangeEnd: the beginning is not counted.
RangeEndShort(t, begin, n) == Min({n, CountOf(t)})

\* Where a range ends, in an index_t; C++ takes the number of bytes for
\* that of strings.
RangeEnd(t, begin, n) ==
  Min({(begin + n) % OffSpan, IF lang = "C" THEN CountOf(t) ELSE t.used % OffSpan})

\* copy_range() into a list that holds nothing, or append() of a range.
BeginRange(d, s, begin, n) ==
  /\ call = NoCall /\ broken = "none" /\ d # s /\ begin < CountOf(text[s])
  /\ lang = "C" => text[d] = NoText
  /\ RoomFor(RangeEnd(text[s], begin, n) - begin)
  /\ call' = [dst |-> d, src |-> s, begin |-> begin, n |-> n, at |-> begin,
              end |-> RangeEnd(text[s], begin, n), before |-> text[d].kept, missed |-> FALSE]
  /\ UNCHANGED <<lang, text, broken>>

\* One string of the range; C goes on when it could not be appended.
AddNext ==
  /\ call # NoCall /\ call.at < call.end /\ Readable(text[call.src], call.at)
  /\ \E r \in Added(text[call.dst], Get(text[call.src], call.at)) :
       /\ Settle(call.dst, r.text, IF r.bad = "none" THEN Unended(text[call.src], call.at) ELSE r.bad)
       /\ call' = [call EXCEPT !.missed = @ \/ ~r.ok,
                     !.at = IF r.ok \/ lang = "C" THEN @ + 1 ELSE call.end]

EndRange ==
  /\ call # NoCall /\ broken = "none"
  /\ (call.at >= call.end \/ ~Readable(text[call.src], call.at))
  /\ call' = NoCall /\ UNCHANGED <<lang, text, broken>>

Shattered == broken # "none" /\ UNCHANGED svars

SNext ==
  \/ \E x \in Strs, s \in Texts : AppendText(x, s)
  \/ \E x \in Strs : FreeText(x)
  \/ \E d, s \in Strs : DupText(d, s) \/ CopyText(d, s)
  \/ \E d, s \in Strs, b \in 0 .. MaxTexts, n \in Amounts : BeginRange(d, s, b, n)
  \/ AddNext \/ EndRange \/ Shattered

SSpec == SInit /\ [][SNext]_svars

-----------------------------------------------------------------------------
(* Properties. *)

\* StringsIntact: the strings whose append succeeded, and no others, are read
\* back from the list and from what to_ptrlist() makes of it, each where it
\* was put and with its NUL, whatever was appended, copied or moved since, and
\* whether or not later calls failed for want of a first block; also in a list
\* made by the copy constructor, until the two grow apart (str.hh _append,
\* str.h append_fixed).
StringsIntact ==
  broken = "none" =>
    \A x \in Strs :
      LET t == text[x]
      IN  Trusted(t) =>
            /\ \A i \in DOMAIN t.kept : PtrList(t)[i] = t.kept[i] /\ Unended(t, i - 1) = "none"
            /\ CountOf(t) = Len(t.kept)

\* OverrunExcused: memory that is not the list's is touched only after
\* a block failed to grow, through a copy that string_v's dup made smaller
\* than it claims (str.h:44, :53), or through offsets that are shared since
\* str.hh:91.
OverrunExcused == broken # "none" => \E x \in Strs : ~Trusted(text[x])

\* RangeIsWhole: a range that ends inside the list, or in C anywhere short of
\* where an index wraps, is appended without loss, in order, after what was
\* there (str.hh append, str.h copy_range); xvp relies on it for the common
\* arguments of every batch (xvp.cc:424, :643).
RangeIsWhole ==
  /\ broken = "none" /\ call # NoCall
  /\ call.at >= call.end /\ ~call.missed /\ call.begin + call.n < OffSpan
  /\ lang = "C" \/ call.begin + call.n <= CountOf(text[call.src])
  /\ Trusted(text[call.src]) /\ Trusted(text[call.dst])
  => text[call.dst].kept = call.before \o
       SubSeq(text[call.src].kept, call.begin + 1, Min({call.begin + call.n, CountOf(text[call.src])}))

FullSize(t) == t.used + CountOf(t) * Word

\* What the kernel counts for strings: their bytes, their NULs, their pointers.
KernelSize(strs) ==
  LET size[n \in 0 .. Len(strs)] == IF n = 0 THEN 0 ELSE size[n - 1] + Len(strs[n]) + 1 + Word
  IN  size[Len(strs)]

\* KernelCountsLess: what xvp takes a batch to be long is never less than what
\* the kernel counts for it: each string, its NUL and a pointer (xvp.cc
\* get_argv_fullsize).
KernelCountsLess ==
  broken = "none" =>
    \A x \in Strs : Trusted(text[x]) => KernelSize(text[x].kept) <= FullSize(text[x])

\* StringsHold: what a list of strings holds is what was put there, one by one
\* or as a range of another, and is no longer for the kernel than for xvp (str.hh,
\* str.h, xvp.cc get_argv_fullsize).
StringsHold == StringsIntact /\ RangeIsWhole /\ KernelCountsLess
=============================================================================
