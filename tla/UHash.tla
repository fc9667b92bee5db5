------------------------------- MODULE UHash -------------------------------
(***************************************************************************)
(* The "grow-only hash" of include/uhash: a balanced search tree whose     *)
(* nodes live in a dynamic array and name each other by index.             *)
(*                                                                         *)
(* An insertion walks down from the root, remembering in a scratch array   *)
(* ("branch") the slots it came through, puts the new node in the empty    *)
(* slot it ends at, and walks the branch back, rotating where the stored   *)
(* depths of two siblings differ by more than one.  Each round of these    *)
(* loops is a step.  Indices as callers see them start at 1; 0 is "none".  *)
(***************************************************************************)
EXTENDS Integers, Sequences, SequencesExt

CONSTANTS
  Keys,     \* what is inserted: integers, under the default comparator
  IdxMax,   \* _uhash_idx_t_max: all index bits but the two of the selector
  MayRefuse \* whether the allocator may refuse memory

ASSUME IndexAssumption == Keys \subseteq Int /\ IdxMax \in Nat \ {0} /\ MayRefuse \in BOOLEAN

VARIABLES
  hash,  \* the object: its nodes and the index of the root
  op,    \* the call in progress
  ret,   \* what the last call returned
  fault  \* the first undefined behaviour, after which nothing is specified

vars == <<hash, op, ret, fault>>

\* What a node is in an array of n of them.
Node(n) == [key : Keys, left : 0 .. n, right : 0 .. n, depth : Nat \ {0}]

-----------------------------------------------------------------------------
(* A slot is where the index of a node is kept: tree_root or a link of a    *)
(* node.  It is named by one number, the selector above the node's index.   *)

Left  == 1
Right == 2
Root  == 3

RelaIndex(selector, i) == selector * (IdxMax + 1) + i
TruIndex(rela) == rela % (IdxMax + 1)
Selector(rela) == rela \div (IdxMax + 1)
TheRoot        == RelaIndex(Root, 0)

SlotsOf(n) == {TheRoot} \cup {RelaIndex(s, i) : s \in {Left, Right}, i \in 1 .. n}

Slot(h, rela) ==
  IF Selector(rela) = Root THEN h.root
  ELSE LET node == h.nodes[TruIndex(rela)]
       IN  IF Selector(rela) = Left THEN node.left ELSE node.right

SetLeft(ns, i, to)  == [ns EXCEPT ![i].left = to]
SetRight(ns, i, to) == [ns EXCEPT ![i].right = to]

SetSlot(h, rela, to) ==
  IF Selector(rela) = Root THEN [nodes |-> h.nodes, root |-> to]
  ELSE [nodes |-> IF Selector(rela) = Left THEN SetLeft(h.nodes, TruIndex(rela), to)
                  ELSE SetRight(h.nodes, TruIndex(rela), to),
        root  |-> h.root]

-----------------------------------------------------------------------------
(* Depths and rotations, over the array of nodes. *)

Depth(ns, i) == IF i = 0 THEN 0 ELSE ns[i].depth

BalanceSwapped(ns, i) ==
  IF i = 0 THEN 0 ELSE Depth(ns, ns[i].right) - Depth(ns, ns[i].left)

BalanceFactor(ns, i) ==
  IF i = 0 THEN 0 ELSE Depth(ns, ns[i].left) - Depth(ns, ns[i].right)

\* update_depth, from the depths of the two children: without any, one more
\* than the node's own old depth.
UpdatedDepth(old, dl, dr) ==
  LET start == IF dl # 0 THEN dl ELSE old
  IN  (IF start < dr THEN dr ELSE start) + 1

Relink(ns, i, l, r, d) ==
  [ns EXCEPT ![i] = [key |-> ns[i].key, left |-> l, right |-> r, depth |-> d]]

UpdateDepth(ns, i) ==
  [ns EXCEPT ![i].depth = UpdatedDepth(@, Depth(ns, ns[i].left), Depth(ns, ns[i].right))]

\* As if x->left were hung where it was, and as if it were not moved at all.
RiseKeepsInner(ns, down, up) ==
  Relink(Relink(ns, down, ns[down].left, ns[up].right, 1), up, down, ns[up].left, 2)

RiseKeepsLink(ns, down, up) ==
  Relink(Relink(ns, down, ns[down].left, up, 1), up, down, ns[up].right, 2)

\* "up", to the right of "down", takes its place over it.
RiseRight(ns, down, up) ==
  LET dn == UpdatedDepth(ns[down].depth, Depth(ns, ns[down].left), Depth(ns, ns[up].left))
      du == UpdatedDepth(ns[up].depth, dn, Depth(ns, ns[up].right))
  IN  Relink(Relink(ns, down, ns[down].left, ns[up].left, dn),
             up, down, ns[up].right, du)

RiseLeft(ns, down, up) ==
  LET dn == UpdatedDepth(ns[down].depth, Depth(ns, ns[up].right), Depth(ns, ns[down].right))
      du == UpdatedDepth(ns[up].depth, Depth(ns, ns[up].left), dn)
  IN  Relink(Relink(ns, down, ns[up].right, ns[down].right, dn),
             up, ns[up].left, down, du)

RotateUnhooked(ns, n) == RiseRight(ns, ns[n].left, ns[ns[n].left].right)

\* rotate_left: the left child of n gives way to its own right child.
RotateLeft(ns, n) ==
  LET l == ns[n].left
      i == ns[l].right
  IN  SetLeft(RiseRight(ns, l, i), n, i)

RotateRight(ns, n) ==
  LET r == ns[n].right
      i == ns[r].left
  IN  SetRight(RiseLeft(ns, r, i), n, i)

\* rotate, to either side: what is then in the slot, and the nodes.
TurnLeft(ns, n)  == [top |-> ns[n].right, nodes |-> RiseRight(ns, n, ns[n].right)]
TurnRight(ns, n) == [top |-> ns[n].left, nodes |-> RiseLeft(ns, n, ns[n].left)]

LeansLeft(ns, n)  == BalanceFactor(ns, n) > 1
LeansRight(ns, n) == BalanceFactor(ns, n) < -1

\* rebalance: the node left in the slot and the nodes after it.
Rebalance(ns, n) ==
  IF LeansLeft(ns, n)
  THEN TurnRight(IF BalanceFactor(ns, ns[n].left) < 0 THEN RotateLeft(ns, n) ELSE ns, n)
  ELSE IF LeansRight(ns, n)
  THEN TurnLeft(IF BalanceFactor(ns, ns[n].right) > 0 THEN RotateRight(ns, n) ELSE ns, n)
  ELSE [top |-> n, nodes |-> ns]

\* Whether rebalancing n asks a child to rise that is not there.
ChildMissing(ns, n) ==
  \/ LeansLeft(ns, n) /\ (\/ ns[n].left = 0
                          \/ /\ BalanceFactor(ns, ns[n].left) < 0
                             /\ ns[ns[n].left].right = 0)
  \/ LeansRight(ns, n) /\ (\/ ns[n].right = 0
                           \/ /\ BalanceFactor(ns, ns[n].right) > 0
                              /\ ns[ns[n].right].left = 0)

-----------------------------------------------------------------------------
(* Calls. *)

NoOp == [pc |-> "idle"]

Descending(key, strict, at, branch, kept) ==
  [pc |-> "descend", key |-> key, strict |-> strict, at |-> at,
   branch |-> branch, kept |-> kept]

Fixing(at, branch) == [pc |-> "fixup", at |-> at, branch |-> branch]
Looking(key, i)    == [pc |-> "search", key |-> key, at |-> i]

Init ==
  /\ hash = [nodes |-> <<>>, root |-> 0]
  /\ op = NoOp /\ ret = 0 /\ fault = "none"

Finish(result) == op' = NoOp /\ ret' = result

Defined == fault = "none" /\ UNCHANGED fault

Used == Len(hash.nodes)

\* What the insertion is at: the slot's index, 0 in an empty slot.
Here == Slot(hash, op.at)

\* "kept" is whether the branch has memory yet; init_ex() asks for some and
\* its answer is ignored.
BeginInsert(key, strict) ==
  /\ op.pc = "idle" /\ Defined /\ UNCHANGED hash
  /\ IF Used = IdxMax THEN Finish(0)
     ELSE /\ \E kept \in IF MayRefuse THEN BOOLEAN ELSE {TRUE} :
               op' = Descending(key, strict, TheRoot, <<>>, kept)
          /\ UNCHANGED ret

\* One level down.  The slot is not remembered when memory is refused.
Descend ==
  /\ op.pc = "descend" /\ Here # 0 /\ hash.nodes[Here].key # op.key
  /\ \E kept \in IF op.kept THEN {TRUE} ELSE BOOLEAN :
       op' = Descending(op.key, op.strict,
               RelaIndex(IF op.key > hash.nodes[Here].key THEN Right ELSE Left, Here),
               IF kept THEN Append(op.branch, op.at) ELSE op.branch, kept)
  /\ Defined /\ UNCHANGED <<hash, ret>>

DuplicateAnyway ==
  /\ op.pc = "descend" /\ Here # 0 /\ hash.nodes[Here].key = op.key
  /\ Finish(Here) /\ Defined /\ UNCHANGED hash

Duplicate ==
  /\ op.pc = "descend" /\ Here # 0 /\ hash.nodes[Here].key = op.key
  /\ Finish(IF op.strict THEN 0 ELSE Here)
  /\ Defined /\ UNCHANGED hash

NewNode(key) == [key |-> key, left |-> 0, right |-> 0, depth |-> 1]

PlaceOverLast ==
  /\ op.pc = "descend" /\ Here = 0
  /\ LET h == SetSlot([nodes |-> IF Used = 0 THEN <<NewNode(op.key)>>
                                 ELSE [hash.nodes EXCEPT ![Used] = NewNode(op.key)],
                       root |-> hash.root], op.at, IF Used = 0 THEN 1 ELSE Used)
     IN  hash' = h /\ op' = Fixing(Used, op.branch)
  /\ Defined /\ UNCHANGED ret

Place ==
  /\ op.pc = "descend" /\ Here = 0
  /\ LET i == Used + 1
         h == SetSlot([nodes |-> Append(hash.nodes, NewNode(op.key)), root |-> hash.root], op.at, i)
     IN  hash' = h /\ op' = Fixing(i, op.branch)
  /\ Defined /\ UNCHANGED ret

\* The array cannot have its first block: the loop ends where it stands.
PlaceRefused ==
  /\ op.pc = "descend" /\ Here = 0 /\ MayRefuse /\ Used = 0
  /\ op' = Fixing(op.at, op.branch)
  /\ Defined /\ UNCHANGED <<hash, ret>>

\* The array is full and its block is not grown: append_by_ptr() takes it to
\* have grown (see UVector) and writes behind it.
PlaceOverrun ==
  /\ op.pc = "descend" /\ Here = 0 /\ MayRefuse /\ Used > 0
  /\ fault = "none" /\ fault' = "overrun"
  /\ UNCHANGED <<hash, op, ret>>

FixedUp(h, slot, n) ==
  LET b == Rebalance(h.nodes, n)
  IN  SetSlot([nodes |-> UpdateDepth(b.nodes, b.top), root |-> h.root], slot, b.top)

\* One level up: rebalance the slot, then update the depth of what is in it.
FixUpAt(slot, rest) ==
  /\ op.pc = "fixup" /\ op.branch # <<>> /\ fault = "none"
  /\ LET n   == Slot(hash, slot)
         bad == IF n = 0 THEN "empty slot"
                ELSE IF ChildMissing(hash.nodes, n) THEN "child missing" ELSE "none"
     IN  fault' = bad /\ hash' = IF bad = "none" THEN FixedUp(hash, slot, n) ELSE hash
  /\ op' = Fixing(op.at, rest)
  /\ UNCHANGED ret

FixUpTopDown == FixUpAt(Head(op.branch), Tail(op.branch))

FixUp == FixUpAt(Last(op.branch), Front(op.branch))

EndInsert ==
  /\ op.pc = "fixup" /\ op.branch = <<>>
  /\ Finish(op.at) /\ Defined /\ UNCHANGED hash

BeginSearch(key) ==
  /\ op.pc = "idle" /\ op' = Looking(key, hash.root)
  /\ Defined /\ UNCHANGED <<hash, ret>>

LookFurther ==
  /\ op.pc = "search" /\ op.at # 0
  /\ LET node == hash.nodes[op.at]
     IN  /\ node.key # op.key
         /\ op' = Looking(op.key, IF op.key > node.key THEN node.right ELSE node.left)
  /\ Defined /\ UNCHANGED <<hash, ret>>

EndSearch ==
  /\ op.pc = "search"
  /\ op.at # 0 => hash.nodes[op.at].key = op.key
  /\ Finish(op.at) /\ Defined /\ UNCHANGED hash

Undefined == fault # "none" /\ UNCHANGED vars

Progress ==
  \/ Descend \/ Duplicate \/ Place \/ PlaceRefused \/ PlaceOverrun
  \/ FixUp \/ EndInsert \/ LookFurther \/ EndSearch

Next ==
  \/ \E k \in Keys, strict \in BOOLEAN : BeginInsert(k, strict)
  \/ \E k \in Keys : BeginSearch(k)
  \/ Progress \/ Undefined

Spec == Init /\ [][Next]_vars

-----------------------------------------------------------------------------
(* Properties. *)

Placed == 1 .. Used

\* TypeOK: every link and the root name a node or none, every node has a
\* depth, and the call in progress stands at a slot of the tree as it is
\* now (include/uhash).
TypeOK ==
  /\ hash.nodes \in Seq(Node(Used)) /\ Used <= IdxMax
  /\ hash.root \in 0 .. Used
  /\ \/ op = NoOp
     \/ op.pc = "search" /\ op.key \in Keys /\ op.at \in 0 .. Used
     \/ op.pc = "descend" /\ op.key \in Keys /\ op.at \in SlotsOf(Used) /\ op.branch \in Seq(SlotsOf(Used))
     \/ op.pc = "fixup" /\ op.branch \in Seq(SlotsOf(Used))

\* ChildrenAreThere: the depths, stale as they may be, never ask a child to
\* rise that does not exist (the node pointers in rebalance, rotate_left,
\* rotate_right and rotate are not checked, include/uhash/common.h:240-316).
ChildrenAreThere == fault # "child missing"

\* BranchStaysFilled: whatever is rotated below them, the slots still to be
\* fixed hold a node (update_depth does not check its pointer either).
BranchStaysFilled == fault # "empty slot"

\* IndicesStay: the index an insertion gave out names the same key ever
\* after, whatever is rotated (ufind.c keeps seen_t pointers by index).
IndicesStay ==
  [][\A i \in Placed : i <= Len(hash'.nodes) /\ hash'.nodes[i].key = hash.nodes[i].key]_vars
=============================================================================
