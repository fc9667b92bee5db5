------------------------------ MODULE MCUHash ------------------------------
(* Properties of UHash, and the module its runs check. *)
EXTENDS UHash, FiniteSets

\* One level of a walk by comparisons: it stays at k's node and off the tree.
Closer(k, i) ==
  IF i = 0 THEN 0
  ELSE IF hash.nodes[i].key = k THEN i
  ELSE IF k > hash.nodes[i].key THEN hash.nodes[i].right ELSE hash.nodes[i].left

\* Where that walk is after as many levels as there are nodes.
Walk(k) ==
  LET from[n \in 0 .. Used] == IF n = 0 THEN hash.root ELSE Closer(k, from[n - 1])
  IN  from[Used]

\* KeysAreFound: whatever rotations the stored depths have caused, and in
\* the middle of fixing up too, the walk for each inserted key ends at its
\* own node (include/uhash/common.h, search and rebalance).
KeysAreFound == \A i \in Placed : Walk(hash.nodes[i].key) = i

\* HeldOnce: no rotation drops a subtree or hangs a node in two places: the
\* links and the root name every node, each one exactly once (rotate_left,
\* rotate_right and rotate in include/uhash/common.h).
HeldOnce ==
  LET held == {r \in SlotsOf(Used) : Slot(hash, r) # 0}
  IN  /\ {Slot(hash, r) : r \in held} = Placed
      /\ \A r, q \in held : Slot(hash, r) = Slot(hash, q) => r = q

\* TreeHolds: whatever the depths say, and whatever was refused, the tree has
\* every key where a search looks for it, every node in one slot, and the
\* slots that a call has still to fix up hold one (insert, rebalance and
\* update_depth in include/uhash/common.h).
TreeHolds == KeysAreFound /\ HeldOnce /\ BranchStaysFilled

WithChildren(some) ==
  some \cup (({hash.nodes[j].left : j \in some} \cup {hash.nodes[j].right : j \in some}) \ {0})

\* The nodes at or under node i.
Under(i) ==
  LET reached[n \in 0 .. Used] == IF n = 0 THEN {i} \ {0} ELSE WithChildren(reached[n - 1])
  IN  reached[Used]

\* Where a search or a descent is.
Standing == IF op.pc = "search" THEN op.at ELSE IF op.pc = "descend" THEN Here ELSE 0

\* CallsAdvance: each level that a search or an insertion walks down leaves
\* nodes behind for good: no cycle of links is ever made, so every call
\* comes back (the loops of search and insert in include/uhash/common.h have
\* no other bound).
CallsAdvance ==
  [][op.pc # "idle" /\ op'.pc = op.pc => Under(Standing) = {} \/ Under(Standing') # Under(Standing)]_vars

\* The inserted keys as an abstract map.
Map ==
  [k \in {hash.nodes[i].key : i \in Placed} |->
     CHOOSE i \in Placed : hash.nodes[i].key = k]

\* The call in progress as the abstract map has it.
Served ==
  IF op.pc = "idle" THEN [kind |-> "none", result |-> ret]
  ELSE IF op.pc = "search" THEN [kind |-> "search", key |-> op.key]
  ELSE IF op.pc = "fixup" THEN [kind |-> "leave", result |-> op.at]
  ELSE [kind |-> "insert", key |-> op.key, strict |-> op.strict]

Grown == INSTANCE GrowOnlyMap WITH Refused <- TheRoot, index <- Map, call <- Served

\* IsGrowOnlyMap: searches and insertions answer as the abstract map does;
\* indices are dense, never move, and survive every rotation.
IsGrowOnlyMap == Grown!Spec

-----------------------------------------------------------------------------
(* Constants of the runs. *)
FiveKeys == 1 .. 5
=============================================================================
