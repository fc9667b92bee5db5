----------------------------- MODULE CxxArray ------------------------------
(***************************************************************************)
(* The C++ dynamic arrays of include/uvector: dynmem.hh, which is common.h *)
(* with another idea of its limit, and inplace.hh, which has its room      *)
(* inside and takes items of the other.                                    *)
(***************************************************************************)
EXTENDS Blocks, FiniteSets, FiniteSetsExt

CONSTANTS
  Arrays,  \* the dynmem objects
  Room,    \* max_elements of the inplace one
  Amounts, \* what callers ask room or a range for
  MaxItems \* bound: items of all dynmem objects

ASSUME RoomAssumption ==
  /\ Room \in Nat \ {0} /\ Room <= IdxMax /\ Amounts \subseteq Indices
  /\ IsFiniteSet(Arrays) /\ MaxItems \in Indices  \* past idx_max, yet used never wraps

VARIABLES
  dyn,   \* the dynmem objects
  fix,   \* the inplace object
  told,  \* what appending a range has just returned, NoRange after other calls
  torn   \* the first undefined behaviour, after which nothing is specified

avars == <<dyn, fix, told, torn>>

NoRange == -1

EmptyFix == [used |-> 0, mem |-> [i \in 1 .. Room |-> Zero]]

-----------------------------------------------------------------------------
(* dynmem: the set of outcomes of a call. *)

\* grow_by_bytes() is refused past idx_max only, not at it.
DynGrowByBytes(w, bytes) ==
  IF bytes = 0 \/ IdxMax < w.allocated THEN Same(w, FALSE) ELSE GrowBytes(w, bytes)

\* A mutant of DynGrowAuto: it grows when there is no room left for the next.
DynGrowAutoLate(w) == IF w.used <= w.allocated THEN Same(w, TRUE) ELSE DynGrowByBytes(w, Growth)

DynGrowAuto(w) == IF w.used < w.allocated THEN Same(w, TRUE) ELSE DynGrowByBytes(w, Growth)

\* is_inv() of an index.
IsInv(index) == index > IdxMax

\* append(): an index is returned also when it is not one.
DynAppend(w, x) ==
  {IF r.ok
   THEN [arr |-> Put(r.vec, (r.vec.used + 1) % IndexSpan, r.vec.used, x),
         ok |-> ~IsInv(r.vec.used), bad |-> Outside(r.vec, r.vec.used + 1)]
   ELSE [arr |-> r.vec, ok |-> FALSE, bad |-> "none"] : r \in DynGrowAuto(w)}

\* A mutant of FixAppend: one past its room.
FixAppendPast(f, x) ==
  IF f.used <= Room
  THEN {[arr |-> [used |-> f.used + 1, mem |-> [i \in 1 .. Room |-> IF i = f.used + 1 THEN x ELSE f.mem[i]]],
         ok |-> TRUE, bad |-> "none"]}
  ELSE {[arr |-> f, ok |-> FALSE, bad |-> "none"]}

\* inplace's append().
FixAppend(f, x) ==
  IF f.used < Room
  THEN {[arr |-> [used |-> f.used + 1, mem |-> [f.mem EXCEPT ![f.used + 1] = x]], ok |-> TRUE, bad |-> "none"]}
  ELSE {[arr |-> f, ok |-> FALSE, bad |-> "none"]}

\* The loop of append(): it goes on until an item is refused.
OneMore(inplace, o, x) ==
  {[arr |-> a.arr, ok |-> a.ok, bad |-> a.bad, told |-> IF a.ok THEN o.told + 1 ELSE o.told] :
     a \in IF inplace THEN FixAppend(o.arr, x) ELSE DynAppend(o.arr, x)}

AppendAll(inplace, w, items) ==
  LET after[n \in 0 .. Len(items)] ==
        IF n = 0 THEN {[arr |-> w, ok |-> TRUE, bad |-> "none", told |-> 0]}
        ELSE UNION {IF o.ok /\ o.bad = "none" THEN OneMore(inplace, o, items[n]) ELSE {o} : o \in after[n - 1]}
  IN  after[Len(items)]

\* A mutant of Range1: its end is not cut.
Range1Uncut(source, begin, count) ==
  SubSeq(source.mem, begin + 1, Min({Len(source.mem), (begin + count) % IndexSpan}))

\* The items of a range: its end wraps, and is cut at the end of the source.
Range1(source, begin, count) ==
  SubSeq(source.mem, begin + 1, Min({source.used, (begin + count) % IndexSpan}))

-----------------------------------------------------------------------------
AInit ==
  /\ dyn = [d \in Arrays |-> Blank] /\ fix = EmptyFix /\ told = NoRange /\ torn = "none"

Becomes(d, w, bad) ==
  /\ torn = "none" /\ torn' = bad
  /\ dyn' = [dyn EXCEPT ![d] = w] /\ UNCHANGED fix

FixBecomes(f) == torn = "none" /\ fix' = f /\ UNCHANGED <<dyn, torn>>

\* Bounds: where a range begins, and the number of items.
Begins == {0, 1}
RoomFor(n) ==
  Cardinality({p \in Arrays \X (0 .. MaxItems - 1) : p[2] < dyn[p[1]].used}) + n <= MaxItems

\* append() of one item, by reference or by a pointer that may be null.
AppendOne(d, x) ==
  /\ RoomFor(1)
  /\ \E r \in DynAppend(dyn[d], x) : Becomes(d, r.arr, r.bad)
  /\ told' = NoRange

\* grow_by_count(), grow_by_bytes() and the constructor that reserves.
Reserve(d, amount) ==
  /\ \E r \in GrowByCount(dyn[d], amount) \cup DynGrowByBytes(dyn[d], amount) :
       Becomes(d, r.vec, "none")
  /\ told' = NoRange

\* set(): refused at or past used().
SetOne(d, index, x) ==
  /\ index < dyn[d].used
  /\ Becomes(d, Put(dyn[d], dyn[d].used, index, x), Outside(dyn[d], index + 1))
  /\ told' = NoRange

Release(d) ==
  /\ dyn[d].live /\ told' = NoRange
  /\ Becomes(d, IF dyn[d].used > Len(dyn[d].mem) THEN dyn[d] ELSE Blank,
             Outside(dyn[d], dyn[d].used))

\* The constructor that copies a dynmem of another growth; of an empty one,
\* or if there is no room, it makes an empty one.
CopyDyn(d, s) ==
  /\ ~dyn[d].live /\ d # s /\ RoomFor(dyn[s].used) /\ told' = NoRange
  /\ \E r \in GrowByCount(Blank, dyn[s].used) :
       IF r.ok
       THEN Becomes(d, With(r.vec, dyn[s].used,
                         [i \in DOMAIN r.vec.mem |->
                            IF i <= dyn[s].used /\ i <= Len(dyn[s].mem) THEN dyn[s].mem[i] ELSE r.vec.mem[i]]),
                    Outside(dyn[s], dyn[s].used))
       ELSE Becomes(d, r.vec, "none")

\* append() of a range, from one dynmem to another.
AppendRange(d, s, begin, count) ==
  /\ d # s /\ begin < dyn[s].used /\ Len(dyn[s].mem) >= dyn[s].used
  /\ RoomFor(Len(Range1(dyn[s], begin, count)))
  /\ \E r \in AppendAll(FALSE, dyn[d], Range1(dyn[s], begin, count)) :
       /\ Becomes(d, r.arr, r.bad)
       /\ told' = r.told

\* append() and set() of the inplace array, and free().
FixOne(x) == (\E r \in FixAppend(fix, x) : FixBecomes(r.arr)) /\ told' = NoRange

FixSet(index, x) ==
  index < fix.used /\ FixBecomes([fix EXCEPT !.mem[index + 1] = x]) /\ told' = NoRange

FixFree == FixBecomes(EmptyFix) /\ told' = NoRange

\* The constructor that takes what fits of a dynmem.
FixCopy(s) ==
  /\ Len(dyn[s].mem) >= dyn[s].used
  /\ LET n == Min({Room, dyn[s].used})
     IN  FixBecomes([used |-> n, mem |-> [i \in 1 .. Room |-> IF i <= n THEN dyn[s].mem[i] ELSE Zero]])
  /\ told' = NoRange

\* append() of a range of a dynmem.
FixRange(s, begin, count) ==
  /\ begin <= dyn[s].used /\ Len(dyn[s].mem) >= dyn[s].used
  /\ \E r \in AppendAll(TRUE, fix, Range1(dyn[s], begin, count)) :
       /\ FixBecomes(r.arr)
       /\ told' = r.told

Torn == torn # "none" /\ UNCHANGED avars

ANext ==
  \/ \E d \in Arrays, x \in Values \cup {Zero} : AppendOne(d, x)
  \/ \E d \in Arrays, n \in Amounts : Reserve(d, n)
  \/ \E d \in Arrays, i \in 0 .. MaxItems : SetOne(d, i, Zero)
  \/ \E d \in Arrays : Release(d)
  \/ \E d, s \in Arrays : CopyDyn(d, s)
  \/ \E d, s \in Arrays, b \in Begins, n \in Amounts : AppendRange(d, s, b, n)
  \/ \E x \in Values : FixOne(x)
  \/ \E i \in 0 .. Room : FixSet(i, Zero)
  \/ FixFree
  \/ \E s \in Arrays : FixCopy(s)
  \/ \E s \in Arrays, b \in Begins, n \in Amounts : FixRange(s, b, n)
  \/ Torn

ASpec == AInit /\ [][ANext]_avars

-----------------------------------------------------------------------------
(* Properties. *)

\* An array past its limit, which dynmem.hh:234 lets happen.
Past(w) == w.used > IdxMax

\* ArraysInOrder: an array never counts more items than it claims room for,
\* up to idx_max and until it is refused growth, and never claims more than
\* idx_max; an inplace one never counts more than it has (dynmem.hh grow_auto,
\* inplace.hh append).  A refused array may claim idx_max items of a size that
\* roundbyl() truncates, and then grow to fewer than it counts.
ArraysInOrder ==
  /\ \A d \in Arrays :
       /\ dyn[d].allocated <= IdxMax
       /\ dyn[d].used <= dyn[d].allocated \/ Past(dyn[d]) \/ dyn[d].denied
  /\ fix.used <= Room

\* TornNeedsLimit: memory an array does not own is touched only after its
\* growth was refused or it has passed idx_max.
TornNeedsLimit == torn # "none" => \E d \in Arrays : dyn[d].denied \/ Past(dyn[d])

\* What was appended to an array is what another one has somewhere, and
\* as much of it as was told.
Taken(new, old, sources) ==
  /\ told' = new.used - old.used
  /\ SubSeq(new.mem, 1, old.used) = SubSeq(old.mem, 1, old.used)
  /\ \E s \in sources : \E b \in 0 .. dyn[s].used - told' :
       SubSeq(new.mem, old.used + 1, new.used) = SubSeq(dyn[s].mem, b + 1, b + told')

\* RangesAreTold: what appending a range returns is the number of items it
\* appended, also when the array fills up half way, the allocator refuses or
\* an index wraps; and those are items of the source, in its order, after the
\* items that were there (dynmem.hh:215, inplace.hh:189).
RangesAreTold ==
  [][(/\ told' # NoRange /\ torn' = "none"
      /\ \A d \in Arrays : ~dyn'[d].denied /\ ~Past(dyn[d]) /\ ~Past(dyn'[d])) =>
       /\ fix' # fix => Taken(fix', fix, Arrays)
       /\ \A d \in Arrays : dyn'[d] # dyn[d] => Taken(dyn'[d], dyn[d], Arrays \ {d})
       /\ dyn' = dyn /\ fix' = fix => told' = 0]_avars
=============================================================================
