------------------------------ MODULE Blocks -------------------------------
(***************************************************************************)
(* Blocks of memory that grow: include/misc/memfun.h and, for a record     *)
(* that stands for a dynamic array, the growing of include/uvector.        *)
(*                                                                         *)
(* Sizes are bytes, indices are counted in items.  The widths of the C     *)
(* types are parameters, so that the truncation of roundbyl() (declared    *)
(* "int") and the limits of index_t are met inside a small instance.  The  *)
(* allocator may refuse any request; a request above HeapMax it must       *)
(* refuse.                                                                 *)
(***************************************************************************)
EXTENDS Integers, Sequences

CONSTANTS
  Values,        \* what callers store, all-zero items excepted
  Zero,          \* an item whose bytes are all zero
  Junk,          \* an item nobody initialised
  ItemSize,      \* align_size: bytes from one item to the next
  BlockSize,     \* memfun_block_size()
  Growth,        \* bytes asked for by grow_auto
  IdxMax,        \* idx_max: largest number of items ever claimed
  WFall,         \* 2^wfall_bits: smallest index is_wfall() is true of
  IndexSpan,     \* 2^r_idx_bits: index_t wraps here
  SizeSpan,      \* 2^64: size_t wraps here
  IntSpan,       \* 2^32: int wraps here
  HeapMax,       \* the largest block the allocator can hand out
  ReallocMayFail \* whether a block already held may fail to grow

ASSUME WidthAssumption ==
  /\ {ItemSize, BlockSize, Growth, IdxMax, WFall} \subseteq Nat \ {0}
  /\ {IndexSpan, SizeSpan, IntSpan, HeapMax} \subseteq Nat \ {0}
  /\ ReallocMayFail \in BOOLEAN
  /\ WFall <= IdxMax /\ IdxMax < IndexSpan
  /\ IntSpan <= SizeSpan
  /\ ItemSize * IndexSpan <= SizeSpan  \* what fence_bits is there for
  /\ ItemSize * IdxMax <= SizeSpan - IntSpan

\* fence_bits is 1 at least: twice as many items can be counted as claimed.
ASSUME FenceAssumption == 2 * (IdxMax + 1) <= IndexSpan

\* No block comes near the end of the address space.
ASSUME HeapAssumption == HeapMax < SizeSpan - IntSpan

\* MEMFUN_MACRO_CALC_GROWTH: whole blocks, room for an item at least.
ASSUME GrowthAssumption ==
  /\ ItemSize <= Growth /\ 2 * Growth <= IntSpan
  /\ Growth % BlockSize = 0 /\ IntSpan % BlockSize = 0

ASSUME ItemAssumption == Zero \notin Values /\ Junk \notin Values /\ Zero # Junk

Items   == Values \cup {Zero, Junk}
Indices == 0 .. IndexSpan - 1

(* "live" is ptr # NULL; mem is what the block really holds, one entry for  *)
(* each whole item of it; denied is history: the block failed to grow.      *)
Vector == [live : BOOLEAN, mem : Seq(Items), used : Indices,
           allocated : Indices, denied : BOOLEAN]

Blank == [live |-> FALSE, mem |-> <<>>, used |-> 0, allocated |-> 0, denied |-> FALSE]

-----------------------------------------------------------------------------
(* Allocation arithmetic. *)

\* An int converted to size_t: the low bits, sign-extended.
FromInt(x) ==
  LET low == x % IntSpan
  IN  IF 2 * low >= IntSpan THEN SizeSpan - IntSpan + low ELSE low

\* roundbyl(): up to the next multiple, down when that would overflow.
RoundBy(x, align) ==
  LET down == x - (x % align)
      up   == IF x = down THEN x ELSE down + align
  IN  FromInt(IF up < SizeSpan THEN up ELSE down)

BlockAlign(length) == IF length = 0 THEN 0 ELSE RoundBy(length, BlockSize)

\* memfun_want_realloc(): the new block length, 0 when none is wanted.
WantRealloc(length, extend) ==
  LET a == BlockAlign(length)
      b == length + extend
  IN  IF \/ extend = 0 \/ length > a
         \/ b >= SizeSpan \/ a >= b \/ BlockAlign(b) < b
      THEN 0 ELSE BlockAlign(b)

ClaimUncapped(bytes)  == bytes \div ItemSize
ClaimRoundedUp(bytes) == LET n == (bytes + ItemSize - 1) \div ItemSize
                         IN  IF n < IdxMax THEN n ELSE IdxMax

\* How many items grow_by_bytes() takes a block to have room for.
Claim(bytes) ==
  IF bytes \div ItemSize < IdxMax THEN bytes \div ItemSize ELSE IdxMax

ExtendedFresh(mem, old, bytes) == [i \in 1 .. bytes \div ItemSize |-> Zero]

\* What the block holds once it is "bytes" long, of which the code takes the
\* first "old" to be initialised and clears the rest.
Extended(mem, old, bytes) ==
  [i \in 1 .. bytes \div ItemSize |->
     IF i * ItemSize > old THEN Zero ELSE IF i <= Len(mem) THEN mem[i] ELSE Junk]

-----------------------------------------------------------------------------
(* Growing: the set of outcomes, each with the truth value returned. *)

Same(w, ok) == {[vec |-> w, ok |-> ok]}

Granted(w, old, new) ==
  [live |-> TRUE, mem |-> Extended(w.mem, old, new), used |-> w.used,
   allocated |-> Claim(new), denied |-> w.denied]

Denied(w, new) ==
  [live |-> w.live, mem |-> w.mem, used |-> w.used,
   allocated |-> Claim(new), denied |-> TRUE]

\* grow_by_bytes, the internal one.  memfun_realloc_ex() stores the new
\* length before it asks for the memory, and hands back the old pointer when
\* it is refused: the vector then claims items its block does not have.
GrowBytes(w, bytes) ==
  LET old     == BlockAlign(ItemSize * w.allocated)
      new     == WantRealloc(old, bytes)
      refusal == IF w.live THEN Same(Denied(w, new), TRUE) ELSE Same(w, FALSE)
      mayFail == ~w.live \/ ReallocMayFail \/ new > HeapMax
  IN  IF new = 0 THEN Same(w, w.live /\ w.allocated > 0)
      ELSE (IF new <= HeapMax THEN Same(Granted(w, old, new), TRUE) ELSE {})
           \cup (IF mayFail THEN refusal ELSE {})

\* grow_by_bytes, the public one.
GrowByBytes(w, bytes) ==
  IF bytes = 0 \/ w.allocated >= IdxMax THEN Same(w, FALSE) ELSE GrowBytes(w, bytes)

\* grow_by_count, the public one and the internal one it ends in.
GrowByCount(w, count) ==
  IF \/ count = 0 \/ count >= WFall
     \/ w.allocated >= IdxMax \/ w.allocated + count > IdxMax
  THEN Same(w, FALSE) ELSE GrowBytes(w, ItemSize * count)

GrowAutoLate(w) == IF w.used <= w.allocated THEN Same(w, TRUE) ELSE GrowByBytes(w, Growth)

GrowAuto(w) == IF w.used < w.allocated THEN Same(w, TRUE) ELSE GrowByBytes(w, Growth)

\* init_ex: whatever the vector held is forgotten, not released.
InitEx(size) == GrowByCount(Blank, IF size = 0 THEN 1 ELSE size)

Outside(w, count) == IF count > Len(w.mem) THEN "overrun" ELSE "none"

\* w with "used" items and other contents.
With(w, used, mem) ==
  [live |-> w.live, mem |-> mem, used |-> used, allocated |-> w.allocated,
   denied |-> w.denied]

\* w with "used" items, x in the slot "index" (from 0).
Put(w, used, index, x) ==
  With(w, used, [i \in DOMAIN w.mem |-> IF i = index + 1 THEN x ELSE w.mem[i]])
=============================================================================
