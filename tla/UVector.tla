------------------------------ MODULE UVector ------------------------------
(***************************************************************************)
(* The C dynamic array of include/uvector/common.h: what its callers may   *)
(* do with a few of them, whatever the allocator answers.                  *)
(***************************************************************************)
EXTENDS Blocks

CONSTANT Vecs  \* the vector objects of the program

VARIABLES
  vec,   \* each vector: its fields and its block
  fault  \* the first undefined behaviour, after which nothing is specified

vars == <<vec, fault>>

-----------------------------------------------------------------------------
Init == vec = [v \in Vecs |-> Blank] /\ fault = "none"

\* The vector takes the new record, unless the step touched memory it did
\* not own: then the record is all that is left to see.
Commit(v, w, bad) ==
  /\ fault = "none"
  /\ vec' = [vec EXCEPT ![v] = w]
  /\ fault' = bad

\* init_ex() on a vector that holds nothing.
InitVec(v, size) ==
  /\ ~vec[v].live
  /\ \E r \in InitEx(size) : Commit(v, r.vec, "none")

\* grow_by_count() and grow_by_bytes(), called from outside.
GrowVec(v, amount) ==
  \E r \in GrowByCount(vec[v], amount) \cup GrowByBytes(vec[v], amount) :
    Commit(v, r.vec, "none")

\* append_by_val(), and append_by_ptr() whose NULL source appends Zero.
AppendTo(v, x) ==
  \E r \in GrowAuto(vec[v]) :
    IF r.ok
    THEN Commit(v, Put(r.vec, r.vec.used + 1, r.vec.used, x), Outside(r.vec, r.vec.used + 1))
    ELSE Commit(v, r.vec, "none")

\* set_by_val() and set_by_ptr(): refused at or past "used".
SetAt(v, index, x) ==
  /\ index < vec[v].used
  /\ Commit(v, Put(vec[v], vec[v].used, index, x), Outside(vec[v], index + 1))

\* free(): the used items are cleared, the block goes, the fields are zeroed.
FreeVec(v) ==
  /\ vec[v].live
  /\ Commit(v, IF vec[v].used > Len(vec[v].mem) THEN vec[v] ELSE Blank,
            Outside(vec[v], vec[v].used))

\* memcpy() of "count" items of vector s, from "begin" on, to the front of w.
Copied(w, s, begin, count) ==
  With(w, count, [i \in DOMAIN w.mem |->
                    IF i <= count /\ begin + i <= Len(vec[s].mem)
                    THEN vec[s].mem[begin + i] ELSE w.mem[i]])

\* dup() into a vector that holds nothing.
DupTo(d, s) ==
  /\ ~vec[d].live /\ d # s
  /\ \E r \in InitEx(vec[s].used) :
       IF r.ok
       THEN Commit(d, Copied(r.vec, s, 0, vec[s].used), Outside(vec[s], vec[s].used))
       ELSE Commit(d, r.vec, "none")

\* copy_range(): "end" wraps in index_t, and nobody looks at the result of
\* init_ex(), so that memcpy() may be given NULL.
CopyRange(d, s, begin, count) ==
  /\ ~vec[d].live /\ d # s /\ begin < vec[s].used
  /\ LET end == (begin + count) % IndexSpan
         n   == IF end > vec[s].used THEN vec[s].used - begin ELSE count
     IN  \E r \in InitEx(n) :
           IF r.ok
           THEN Commit(d, Copied(r.vec, s, begin, n), Outside(vec[s], begin + n))
           ELSE Commit(d, r.vec, IF n = 0 THEN "none" ELSE "null copy")

Undefined == fault # "none" /\ UNCHANGED vars

Next ==
  \/ \E v \in Vecs, n \in Indices : InitVec(v, n)
  \/ \E v \in Vecs, n \in Indices : GrowVec(v, n)
  \/ \E v \in Vecs, x \in Values \cup {Zero} : AppendTo(v, x)
  \/ \E v \in Vecs, x \in Values \cup {Zero}, i \in Indices : SetAt(v, i, x)
  \/ \E v \in Vecs : FreeVec(v)
  \/ \E v, s \in Vecs : DupTo(v, s)
  \/ \E v, s \in Vecs, b, n \in Indices : CopyRange(v, s, b, n)
  \/ Undefined

Spec == Init /\ [][Next]_vars

-----------------------------------------------------------------------------
TypeOK == vec \in [Vecs -> Vector] /\ fault \in {"none", "overrun", "null copy"}

\* A vector never counts more items than it claims room for, and never claims
\* more than idx_max of them: append, grow, dup and copy_range keep the two
\* fields in step whatever the allocator answers and wherever index_t wraps.
FieldsInOrder ==
  \A v \in Vecs : vec[v].used <= vec[v].allocated /\ vec[v].allocated <= IdxMax

\* The room a vector claims is room its block has, until realloc() refuses to
\* grow a block (then memfun.h:295 returns the old pointer, which common.h:149
\* takes for success): no rounding, capping or wrapping of sizes makes it claim more.
RoomIsReal ==
  \A v \in Vecs : ~vec[v].denied => vec[v].allocated <= Len(vec[v].mem)

\* A block is read or written past its end only where realloc() has refused to
\* grow the block of some vector that still lives.
OverrunNeedsRefusal == fault = "overrun" => \E v \in Vecs : vec[v].denied

\* The other fault, memcpy() to NULL (common.h:108), needs no such vector: it is
\* met where init_ex() has left copy_range() without a block, for malloc() has
\* refused it or "begin + count" has wrapped and asks for more than idx_max, and
\* where there are items to copy.
NullCopyNeedsBlank ==
  fault = "null copy" => \E d, s \in Vecs : vec[d] = Blank /\ vec[s].used > 0

\* A vector that has to grow, and may move, keeps the items it holds: only a
\* set changes an item in place and only free() drops any.
GrowthKeepsItems ==
  [][\A v \in Vecs :
       (vec[v].allocated < vec'[v].allocated /\ ~vec'[v].denied)
         => \A i \in 1 .. vec[v].used : vec'[v].mem[i] = vec[v].mem[i]]_vars
=============================================================================
