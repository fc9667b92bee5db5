----------------------------- MODULE MCUVector -----------------------------
(***************************************************************************)
(* Instances of UVector, CxxArray and UStr for TLC.  Vectors of C and       *)
(* arrays of C++: items of 3 bytes in blocks of 4, index_t of 3 bits, so   *)
(* that idx_max is met, and an int that is narrower than the sizes in use. *)
(* Lists of strings: words of 2 bytes.  The three share no state, so that  *)
(* a behaviour is of one of them.                                          *)
(***************************************************************************)
EXTENDS UVector, CxxArray, TLC

CONSTANTS
  Strs, Texts, Word, OffGrowth, OffMax, OffWFall, OffSpan, RangeLengths, MaxTexts

VARIABLES lang, text, call, broken

S == INSTANCE UStr WITH Amounts <- RangeLengths

ASSUME InstanceAssumption ==
  /\ S!TextAssumption /\ S!Off!WidthAssumption /\ S!Off!FenceAssumption /\ S!Off!HeapAssumption
  /\ S!Off!GrowthAssumption /\ S!Off!ItemAssumption

OfStrings == <<lang, text, call, broken>>

SomeTexts == {<<>>, <<1, 2, 1>>}

MCInit == Init /\ S!SInit /\ AInit

MCNext ==
  \/ S!SInit /\ lang = "C" /\ AInit /\ Next /\ UNCHANGED <<OfStrings, avars>>
  \/ Init /\ AInit /\ S!SNext /\ UNCHANGED <<vars, avars>>
  \/ Init /\ S!SInit /\ lang = "C++" /\ ANext /\ UNCHANGED <<vars, OfStrings>>

MCSpec == MCInit /\ [][MCNext]_<<vars, OfStrings, avars>>

Symmetry == Permutations(Vecs) \cup Permutations(Strs) \cup Permutations(Arrays)

StringsHold == S!StringsHold

\* OverrunsNeedCause: blocks of vectors, arrays and lists are overrun only
\* after a live block was refused growth, at the limit of an index, or by way
\* of a copy that the code makes wrong (common.h, dynmem.hh:234, str.h:53,
\* str.hh:91); and memcpy() is given NULL only by a copy_range() that was left
\* without a block while there are items to copy (common.h:107).
OverrunsNeedCause ==
  OverrunNeedsRefusal /\ NullCopyNeedsBlank /\ S!OverrunExcused /\ TornNeedsLimit

\* ItemsKept: no item is lost, moved or made up by growing, and a range is
\* appended as far as the call says (memfun.h realloc, dynmem.hh:215,
\* inplace.hh:189).
ItemsKept == GrowthKeepsItems /\ RangesAreTold
=============================================================================
