---------------------------- MODULE UHash_proofs ----------------------------
(***************************************************************************)
(* Proofs about UHash, for every set of integer keys and every index width.*)
(*                                                                         *)
(* The first part needs the type invariant alone: every link names a node  *)
(* or none and every node has a depth of one at least, so a stored depth   *)
(* of zero means that there is no child.  That is all the rotations rely   *)
(* on, and it survives depths that are stale.                              *)
(*                                                                         *)
(* The second part proves that the nodes form a search tree.  The array is *)
(* seen as two functions, from nodes to keys and from slots to the nodes   *)
(* in them, and every node gets a "span": the keys that a walk from the    *)
(* root would look for under it.  SearchTree relates the three without a   *)
(* word of paths or depths, which is what lets a rotation be checked slot  *)
(* by slot; the spans are a witness and no part of the program's state.    *)
(*                                                                         *)
(* The third part counts: a walk that leaves a node of a finite span       *)
(* behind at every level ends, where the key is.                           *)
(***************************************************************************)
EXTENDS MCUHash, SequenceTheorems, FiniteSetTheorems, WellFoundedInduction, TLAPS

Inv ==
  /\ TypeOK
  /\ fault \in {"none", "overrun", "empty slot"}
  /\ op.pc = "descend" => Used < IdxMax

\* An array of n nodes with sound links.
Sound(ns, n) == ns \in [1 .. n -> Node(n)]

\* Two arrays of nodes with the same keys in the same places.
SameKeys(a, b, n) == \A i \in 1 .. n : a[i].key = b[i].key

Put(ns, i, x) == [ns EXCEPT ![i] = x]

-----------------------------------------------------------------------------
(* Slots. *)

LEMMA Quotient ==
  ASSUME NEW b \in Nat \ {0}, NEW q \in Nat, NEW r \in Nat, r < b
  PROVE  (q * b + r) \div b = q /\ (q * b + r) % b = r
  BY Z3

LEMMA RelaIndexParts ==
  ASSUME NEW s \in {Left, Right, Root}, NEW i \in 0 .. IdxMax
  PROVE  Selector(RelaIndex(s, i)) = s /\ TruIndex(RelaIndex(s, i)) = i
  BY Quotient, IndexAssumption DEF Selector, TruIndex, RelaIndex, Left, Right, Root

LEMMA SlotParts ==
  ASSUME NEW n \in 0 .. IdxMax, NEW r \in SlotsOf(n)
  PROVE  \/ Selector(r) = Root
         \/ Selector(r) \in {Left, Right} /\ TruIndex(r) \in 1 .. n
<1>1. CASE r = TheRoot
  BY <1>1, RelaIndexParts, IndexAssumption DEF TheRoot
<1>2. CASE \E s \in {Left, Right}, i \in 1 .. n : r = RelaIndex(s, i)
  <2>1. PICK s \in {Left, Right}, i \in 1 .. n : r = RelaIndex(s, i)
    BY <1>2
  <2> QED BY <2>1, RelaIndexParts, IndexAssumption
<1> QED BY <1>1, <1>2 DEF SlotsOf

LEMMA SlotInRange ==
  ASSUME NEW h, NEW n \in 0 .. IdxMax, Sound(h.nodes, n), h.root \in 0 .. n,
         NEW r \in SlotsOf(n)
  PROVE  Slot(h, r) \in 0 .. n
<1>1. CASE Selector(r) = Root
  BY <1>1 DEF Slot
<1>2. CASE Selector(r) # Root /\ TruIndex(r) \in 1 .. n
  <2>1. h.nodes[TruIndex(r)] \in Node(n)
    BY <1>2 DEF Sound
  <2> QED BY <2>1, <1>2 DEF Slot, Node
<1> QED BY <1>1, <1>2, SlotParts

LEMMA SlotsGrow ==
  ASSUME NEW n \in Nat, NEW m \in Nat, n <= m
  PROVE  SlotsOf(n) \subseteq SlotsOf(m)
  BY DEF SlotsOf

-----------------------------------------------------------------------------
(* Links and depths. *)

LEMMA PutSound ==
  ASSUME NEW n \in Nat, NEW ns, Sound(ns, n), NEW i \in 1 .. n,
         NEW x \in Node(n), x.key = ns[i].key
  PROVE  /\ Sound(Put(ns, i, x), n) /\ SameKeys(ns, Put(ns, i, x), n)
         /\ Put(ns, i, x)[i] = x
  BY DEF Sound, SameKeys, Put

LEMMA NodeFields ==
  ASSUME NEW n \in Nat, NEW ns, Sound(ns, n), NEW i \in 1 .. n
  PROVE  /\ ns[i] \in Node(n)
         /\ ns[i].key \in Keys /\ ns[i].left \in 0 .. n /\ ns[i].right \in 0 .. n
         /\ ns[i].depth \in Nat \ {0}
<1>1. ns[i] \in Node(n)
  BY DEF Sound
<1> QED BY <1>1 DEF Node

LEMMA RelinkSound ==
  ASSUME NEW n \in Nat, NEW ns, Sound(ns, n), NEW i \in 1 .. n,
         NEW l \in 0 .. n, NEW r \in 0 .. n, NEW d \in Nat \ {0}
  PROVE  Sound(Relink(ns, i, l, r, d), n) /\ SameKeys(ns, Relink(ns, i, l, r, d), n)
<1> DEFINE x == [key |-> ns[i].key, left |-> l, right |-> r, depth |-> d]
<1>1. x \in Node(n) /\ x.key = ns[i].key
  BY NodeFields DEF Node
<1>2. Relink(ns, i, l, r, d) = Put(ns, i, x)
  BY DEF Relink, Put
<1> HIDE DEF x
<1> QED BY <1>1, <1>2, PutSound

LEMMA LinksSound ==
  ASSUME NEW n \in Nat, NEW ns, Sound(ns, n), NEW i \in 1 .. n, NEW to \in 0 .. n
  PROVE  /\ Sound(SetLeft(ns, i, to), n) /\ SameKeys(ns, SetLeft(ns, i, to), n)
         /\ Sound(SetRight(ns, i, to), n) /\ SameKeys(ns, SetRight(ns, i, to), n)
         /\ SetLeft(ns, i, to)[i].left = to /\ SetRight(ns, i, to)[i].right = to
<1> DEFINE x == [ns[i] EXCEPT !.left = to]
           y == [ns[i] EXCEPT !.right = to]
<1>1. x \in Node(n) /\ x.key = ns[i].key /\ x.left = to
  BY NodeFields DEF Node
<1>2. y \in Node(n) /\ y.key = ns[i].key /\ y.right = to
  BY NodeFields DEF Node
<1>3. SetLeft(ns, i, to) = Put(ns, i, x) /\ SetRight(ns, i, to) = Put(ns, i, y)
  BY DEF SetLeft, SetRight, Put
<1> HIDE DEF x, y
<1> QED BY <1>1, <1>2, <1>3, PutSound

LEMMA DepthPositive ==
  ASSUME NEW n \in Nat, NEW ns, Sound(ns, n), NEW i \in 0 .. n
  PROVE  Depth(ns, i) \in Nat /\ (Depth(ns, i) = 0 <=> i = 0)
  BY NodeFields DEF Depth

LEMMA UpdatedDepthPositive ==
  ASSUME NEW old \in Nat, NEW dl \in Nat, NEW dr \in Nat
  PROVE  UpdatedDepth(old, dl, dr) \in Nat \ {0}
  BY DEF UpdatedDepth

LEMMA UpdateDepthSound ==
  ASSUME NEW n \in Nat, NEW ns, Sound(ns, n), NEW i \in 1 .. n
  PROVE  Sound(UpdateDepth(ns, i), n) /\ SameKeys(ns, UpdateDepth(ns, i), n)
<1> DEFINE d == UpdatedDepth(ns[i].depth, Depth(ns, ns[i].left), Depth(ns, ns[i].right))
           x == [ns[i] EXCEPT !.depth = d]
<1>1. d \in Nat \ {0}
  BY NodeFields, DepthPositive, UpdatedDepthPositive
<1>2. UpdateDepth(ns, i) = Put(ns, i, x)
  BY DEF UpdateDepth, Put
<1> HIDE DEF d
<1>3. x \in Node(n) /\ x.key = ns[i].key
  BY <1>1, NodeFields DEF Node
<1> HIDE DEF x
<1> QED BY <1>2, <1>3, PutSound

-----------------------------------------------------------------------------
(* Rotations. *)

LEMMA RiseSound ==
  ASSUME NEW n \in Nat, NEW ns, Sound(ns, n), NEW down \in 1 .. n, NEW up \in 1 .. n
  PROVE  /\ Sound(RiseRight(ns, down, up), n) /\ SameKeys(ns, RiseRight(ns, down, up), n)
         /\ Sound(RiseLeft(ns, down, up), n) /\ SameKeys(ns, RiseLeft(ns, down, up), n)
<1>1. ASSUME NEW dn \in Nat \ {0}, NEW du \in Nat \ {0},
             NEW l \in 0 .. n, NEW r \in 0 .. n, NEW ll \in 0 .. n, NEW rr \in 0 .. n
      PROVE  /\ Sound(Relink(Relink(ns, down, l, r, dn), up, ll, rr, du), n)
             /\ SameKeys(ns, Relink(Relink(ns, down, l, r, dn), up, ll, rr, du), n)
  <2> DEFINE a == Relink(ns, down, l, r, dn)
  <2>1. Sound(a, n) /\ SameKeys(ns, a, n)
    BY RelinkSound
  <2> HIDE DEF a
  <2>2. Sound(Relink(a, up, ll, rr, du), n) /\ SameKeys(a, Relink(a, up, ll, rr, du), n)
    BY <2>1, RelinkSound
  <2>3. SameKeys(ns, Relink(a, up, ll, rr, du), n)
    BY <2>1, <2>2 DEF SameKeys
  <2> QED BY <2>2, <2>3 DEF a
<1>2. /\ ns[down].left \in 0 .. n /\ ns[down].right \in 0 .. n /\ ns[down].depth \in Nat
      /\ ns[up].left \in 0 .. n /\ ns[up].right \in 0 .. n /\ ns[up].depth \in Nat
  BY NodeFields
<1> DEFINE D(i) == Depth(ns, i)
           dnR == UpdatedDepth(ns[down].depth, D(ns[down].left), D(ns[up].left))
           duR == UpdatedDepth(ns[up].depth, dnR, D(ns[up].right))
           dnL == UpdatedDepth(ns[down].depth, D(ns[up].right), D(ns[down].right))
           duL == UpdatedDepth(ns[up].depth, D(ns[up].left), dnL)
<1>3. \A i \in 0 .. n : D(i) \in Nat
  BY DepthPositive
<1>4. dnR \in Nat \ {0} /\ dnL \in Nat \ {0}
  BY <1>2, <1>3, UpdatedDepthPositive
<1>5. duR \in Nat \ {0} /\ duL \in Nat \ {0}
  <2> HIDE DEF dnR, dnL, D
  <2> QED BY <1>2, <1>3, <1>4, UpdatedDepthPositive
<1>6. /\ RiseRight(ns, down, up) =
           Relink(Relink(ns, down, ns[down].left, ns[up].left, dnR), up, down, ns[up].right, duR)
      /\ RiseLeft(ns, down, up) =
           Relink(Relink(ns, down, ns[up].right, ns[down].right, dnL), up, ns[up].left, down, duL)
  BY DEF RiseRight, RiseLeft
<1> HIDE DEF dnR, dnL, duR, duL
<1>x. down \in 0 .. n /\ up \in 0 .. n
  OBVIOUS
<1> DEFINE a == Relink(Relink(ns, down, ns[down].left, ns[up].left, dnR), up, down, ns[up].right, duR)
           b == Relink(Relink(ns, down, ns[up].right, ns[down].right, dnL), up, ns[up].left, down, duL)
<1>7. Sound(a, n) /\ SameKeys(ns, a, n)
  BY <1>1, <1>2, <1>4, <1>5, <1>x, Zenon
<1>8. Sound(b, n) /\ SameKeys(ns, b, n)
  BY <1>1, <1>2, <1>4, <1>5, <1>x, Zenon
<1> HIDE DEF a, b
<1> QED BY <1>6, <1>7, <1>8 DEF a, b

LEMMA RotateSound ==
  ASSUME NEW n \in Nat, NEW ns, Sound(ns, n), NEW i \in 1 .. n
  PROVE  /\ ns[i].left # 0 /\ ns[ns[i].left].right # 0 =>
              /\ Sound(RotateLeft(ns, i), n) /\ SameKeys(ns, RotateLeft(ns, i), n)
              /\ RotateLeft(ns, i)[i].left # 0
         /\ ns[i].right # 0 /\ ns[ns[i].right].left # 0 =>
              /\ Sound(RotateRight(ns, i), n) /\ SameKeys(ns, RotateRight(ns, i), n)
              /\ RotateRight(ns, i)[i].right # 0
<1>1. ASSUME ns[i].left # 0, ns[ns[i].left].right # 0
      PROVE  /\ Sound(RotateLeft(ns, i), n) /\ SameKeys(ns, RotateLeft(ns, i), n)
             /\ RotateLeft(ns, i)[i].left # 0
  <2> DEFINE l == ns[i].left
             u == ns[l].right
             a == RiseRight(ns, l, u)
  <2>1. l \in 1 .. n
    BY <1>1, NodeFields
  <2>2. u \in 1 .. n
    BY <1>1, <2>1, NodeFields
  <2>3. RotateLeft(ns, i) = SetLeft(a, i, u)
    BY DEF RotateLeft
  <2> HIDE DEF l, u
  <2>4. Sound(a, n) /\ SameKeys(ns, a, n)
    BY <2>1, <2>2, RiseSound
  <2> HIDE DEF a
  <2>5. Sound(SetLeft(a, i, u), n) /\ SameKeys(a, SetLeft(a, i, u), n) /\ SetLeft(a, i, u)[i].left = u
    BY <2>2, <2>4, LinksSound
  <2> QED BY <2>2, <2>3, <2>4, <2>5 DEF SameKeys
<1>2. ASSUME ns[i].right # 0, ns[ns[i].right].left # 0
      PROVE  /\ Sound(RotateRight(ns, i), n) /\ SameKeys(ns, RotateRight(ns, i), n)
             /\ RotateRight(ns, i)[i].right # 0
  <2> DEFINE r == ns[i].right
             u == ns[r].left
             a == RiseLeft(ns, r, u)
  <2>1. r \in 1 .. n
    BY <1>2, NodeFields
  <2>2. u \in 1 .. n
    BY <1>2, <2>1, NodeFields
  <2>3. RotateRight(ns, i) = SetRight(a, i, u)
    BY DEF RotateRight
  <2> HIDE DEF r, u
  <2>4. Sound(a, n) /\ SameKeys(ns, a, n)
    BY <2>1, <2>2, RiseSound
  <2> HIDE DEF a
  <2>5. Sound(SetRight(a, i, u), n) /\ SameKeys(a, SetRight(a, i, u), n) /\ SetRight(a, i, u)[i].right = u
    BY <2>2, <2>4, LinksSound
  <2> QED BY <2>2, <2>3, <2>4, <2>5 DEF SameKeys
<1> QED BY <1>1, <1>2

\* Where a side is deeper, there is a child on that side.
LEMMA LeaningHasChild ==
  ASSUME NEW n \in Nat, NEW ns, Sound(ns, n), NEW i \in 0 .. n
  PROVE  /\ BalanceFactor(ns, i) > 0 => i # 0 /\ ns[i].left # 0
         /\ BalanceFactor(ns, i) < 0 => i # 0 /\ ns[i].right # 0
         /\ BalanceFactor(ns, i) \in Int
<1>1. CASE i = 0
  BY <1>1 DEF BalanceFactor
<1>2. CASE i # 0
  <2>1. ns[i].left \in 0 .. n /\ ns[i].right \in 0 .. n
    BY <1>2, NodeFields
  <2> DEFINE dl == Depth(ns, ns[i].left)
             dr == Depth(ns, ns[i].right)
  <2>2. dl \in Nat /\ dr \in Nat /\ (dl = 0 <=> ns[i].left = 0) /\ (dr = 0 <=> ns[i].right = 0)
    BY <2>1, DepthPositive
  <2>3. BalanceFactor(ns, i) = dl - dr
    BY <1>2 DEF BalanceFactor
  <2> HIDE DEF dl, dr
  <2> QED BY <1>2, <2>2, <2>3
<1> QED BY <1>1, <1>2

LEMMA NoChildMissing ==
  ASSUME NEW n \in Nat, NEW ns, Sound(ns, n), NEW i \in 1 .. n
  PROVE  ~ChildMissing(ns, i)
<1>1. ns[i].left \in 0 .. n /\ ns[i].right \in 0 .. n
  BY NodeFields
<1>2. LeansLeft(ns, i) => ns[i].left # 0
  BY LeaningHasChild DEF LeansLeft
<1>3. LeansRight(ns, i) => ns[i].right # 0
  BY LeaningHasChild DEF LeansRight
<1>4. BalanceFactor(ns, ns[i].left) < 0 => ns[ns[i].left].right # 0
  BY <1>1, LeaningHasChild
<1>5. BalanceFactor(ns, ns[i].right) > 0 => ns[ns[i].right].left # 0
  BY <1>1, LeaningHasChild
<1> QED BY <1>2, <1>3, <1>4, <1>5 DEF ChildMissing

LEMMA RebalanceSound ==
  ASSUME NEW n \in Nat, NEW ns, Sound(ns, n), NEW i \in 1 .. n
  PROVE  /\ Rebalance(ns, i).top \in 1 .. n
         /\ Sound(Rebalance(ns, i).nodes, n) /\ SameKeys(ns, Rebalance(ns, i).nodes, n)
<1> DEFINE Goal(b) == b.top \in 1 .. n /\ Sound(b.nodes, n) /\ SameKeys(ns, b.nodes, n)
<1>1. ASSUME NEW a, Sound(a, n), SameKeys(ns, a, n), a[i].left # 0
      PROVE  Goal(TurnRight(a, i))
  <2>1. a[i].left \in 1 .. n
    BY <1>1, NodeFields
  <2>2. Sound(RiseLeft(a, i, a[i].left), n) /\ SameKeys(a, RiseLeft(a, i, a[i].left), n)
    BY <1>1, <2>1, RiseSound
  <2>3. SameKeys(ns, RiseLeft(a, i, a[i].left), n)
    BY <1>1, <2>2 DEF SameKeys
  <2>4. TurnRight(a, i).top = a[i].left /\ TurnRight(a, i).nodes = RiseLeft(a, i, a[i].left)
    BY DEF TurnRight
  <2> QED BY <2>1, <2>2, <2>3, <2>4
<1>2. ASSUME NEW a, Sound(a, n), SameKeys(ns, a, n), a[i].right # 0
      PROVE  Goal(TurnLeft(a, i))
  <2>1. a[i].right \in 1 .. n
    BY <1>2, NodeFields
  <2>2. Sound(RiseRight(a, i, a[i].right), n) /\ SameKeys(a, RiseRight(a, i, a[i].right), n)
    BY <1>2, <2>1, RiseSound
  <2>3. SameKeys(ns, RiseRight(a, i, a[i].right), n)
    BY <1>2, <2>2 DEF SameKeys
  <2>4. TurnLeft(a, i).top = a[i].right /\ TurnLeft(a, i).nodes = RiseRight(a, i, a[i].right)
    BY DEF TurnLeft
  <2> QED BY <2>1, <2>2, <2>3, <2>4
<1>3. SameKeys(ns, ns, n)
  BY DEF SameKeys
<1>4. ~ChildMissing(ns, i)
  BY NoChildMissing
<1>5. CASE LeansLeft(ns, i)
  <2> DEFINE a == IF BalanceFactor(ns, ns[i].left) < 0 THEN RotateLeft(ns, i) ELSE ns
  <2>1. Sound(a, n) /\ SameKeys(ns, a, n) /\ a[i].left # 0
    BY <1>3, <1>4, <1>5, RotateSound DEF ChildMissing
  <2>2. Rebalance(ns, i) = TurnRight(a, i)
    BY <1>5 DEF Rebalance
  <2> HIDE DEF a, Goal
  <2>3. Goal(TurnRight(a, i))
    BY <1>1, <2>1
  <2> QED BY <2>2, <2>3 DEF Goal
<1>6. CASE ~LeansLeft(ns, i) /\ LeansRight(ns, i)
  <2> DEFINE a == IF BalanceFactor(ns, ns[i].right) > 0 THEN RotateRight(ns, i) ELSE ns
  <2>1. Sound(a, n) /\ SameKeys(ns, a, n) /\ a[i].right # 0
    BY <1>3, <1>4, <1>6, RotateSound DEF ChildMissing
  <2>2. Rebalance(ns, i) = TurnLeft(a, i)
    BY <1>6 DEF Rebalance
  <2> HIDE DEF a, Goal
  <2>3. Goal(TurnLeft(a, i))
    BY <1>2, <2>1
  <2> QED BY <2>2, <2>3 DEF Goal
<1>7. CASE ~LeansLeft(ns, i) /\ ~LeansRight(ns, i)
  BY <1>3, <1>7 DEF Rebalance
<1> QED BY <1>5, <1>6, <1>7

-----------------------------------------------------------------------------
(* Steps. *)

\* What the type invariant says of the tree.
LEMMA TreeSound ==
  ASSUME TypeOK
  PROVE  /\ Used \in 0 .. IdxMax /\ Sound(hash.nodes, Used) /\ hash.root \in 0 .. Used
         /\ hash.nodes \in Seq(Node(Used))
  BY IndexAssumption DEF TypeOK, Used, Sound

LEMMA SetSlotSound ==
  ASSUME NEW h, NEW n \in 0 .. IdxMax, Sound(h.nodes, n), h.root \in 0 .. n,
         NEW r \in SlotsOf(n), NEW to \in 0 .. n
  PROVE  /\ Sound(SetSlot(h, r, to).nodes, n) /\ SameKeys(h.nodes, SetSlot(h, r, to).nodes, n)
         /\ SetSlot(h, r, to).root \in 0 .. n
<1>1. CASE Selector(r) = Root
  BY <1>1 DEF SetSlot, SameKeys
<1>2. CASE Selector(r) = Left /\ TruIndex(r) \in 1 .. n
  BY <1>2, LinksSound DEF SetSlot, Left, Root
<1>3. CASE Selector(r) = Right /\ TruIndex(r) \in 1 .. n
  BY <1>3, LinksSound DEF SetSlot, Left, Right, Root
<1> QED BY <1>1, <1>2, <1>3, SlotParts

\* A sound array is the tree of the next state, with as many nodes.
LEMMA SoundIsSeq ==
  ASSUME NEW n \in Nat, NEW ns, Sound(ns, n)
  PROVE  ns \in Seq(Node(n)) /\ Len(ns) = n
  BY DEF Sound

LEMMA DescendTyped ==
  ASSUME Inv, op.pc = "descend"
  PROVE  /\ op.key \in Keys /\ op.at \in SlotsOf(Used) /\ op.branch \in Seq(SlotsOf(Used))
         /\ Used < IdxMax
<1>1. op # NoOp
  BY DEF NoOp
<1> QED BY <1>1 DEF Inv, TypeOK

LEMMA FixupTyped ==
  ASSUME Inv, op.pc = "fixup"
  PROVE  op.branch \in Seq(SlotsOf(Used))
<1>1. op # NoOp
  BY DEF NoOp
<1> QED BY <1>1 DEF Inv, TypeOK

LEMMA SearchTyped ==
  ASSUME Inv, op.pc = "search"
  PROVE  op.key \in Keys /\ op.at \in 0 .. Used
<1>1. op # NoOp
  BY DEF NoOp
<1> QED BY <1>1 DEF Inv, TypeOK

LEMMA InitInv == Init => Inv
  BY IndexAssumption DEF Init, Inv, TypeOK, Used, NoOp

LEMMA FixedUpSound ==
  ASSUME TypeOK, NEW slot \in SlotsOf(Used), Slot(hash, slot) # 0
  PROVE  LET h == FixedUp(hash, slot, Slot(hash, slot))
         IN  Sound(h.nodes, Used) /\ SameKeys(hash.nodes, h.nodes, Used) /\ h.root \in 0 .. Used
<1> DEFINE i == Slot(hash, slot)
           b == Rebalance(hash.nodes, i)
           g == [nodes |-> UpdateDepth(b.nodes, b.top), root |-> hash.root]
<1>1. i \in 1 .. Used
  BY TreeSound, SlotInRange
<1> HIDE DEF i
<1>2. b.top \in 1 .. Used /\ Sound(b.nodes, Used) /\ SameKeys(hash.nodes, b.nodes, Used)
  BY <1>1, TreeSound, RebalanceSound
<1> HIDE DEF b
<1>3. Sound(UpdateDepth(b.nodes, b.top), Used) /\ SameKeys(b.nodes, UpdateDepth(b.nodes, b.top), Used)
  BY <1>2, TreeSound, UpdateDepthSound
<1>4. g.nodes = UpdateDepth(b.nodes, b.top) /\ g.root = hash.root
  OBVIOUS
<1> HIDE DEF g
<1>5. /\ Sound(SetSlot(g, slot, b.top).nodes, Used) /\ SetSlot(g, slot, b.top).root \in 0 .. Used
      /\ SameKeys(g.nodes, SetSlot(g, slot, b.top).nodes, Used)
  BY <1>2, <1>3, <1>4, TreeSound, SetSlotSound
<1>6. SameKeys(hash.nodes, SetSlot(g, slot, b.top).nodes, Used)
  BY <1>2, <1>3, <1>4, <1>5 DEF SameKeys
<1>7. FixedUp(hash, slot, i) = SetSlot(g, slot, b.top)
  BY DEF FixedUp, g, b
<1> QED BY <1>5, <1>6, <1>7 DEF i

LEMMA PlaceSound ==
  ASSUME Inv, Place
  PROVE  /\ Used' = Used + 1 /\ Sound(hash'.nodes, Used + 1) /\ hash'.root \in 0 .. Used + 1
         /\ SameKeys(hash.nodes, hash'.nodes, Used)
<1> DEFINE n == Used + 1
           app == Append(hash.nodes, NewNode(op.key))
           g == [nodes |-> app, root |-> hash.root]
<1>1. /\ Used \in 0 .. IdxMax /\ hash.nodes \in Seq(Node(Used)) /\ hash.root \in 0 .. Used
      /\ Len(hash.nodes) = Used
  BY TreeSound DEF Inv, Used
<1>2. op.key \in Keys /\ op.at \in SlotsOf(Used)
  BY DescendTyped DEF Place
<1>3. n \in 0 .. IdxMax /\ n \in 1 .. n
  BY <1>1, DescendTyped, IndexAssumption DEF Place
<1>4. NewNode(op.key) \in Node(n)
  BY <1>2, <1>3 DEF NewNode, Node
<1>5. Node(Used) \subseteq Node(n)
  BY <1>1 DEF Node
<1>6. hash.nodes \in Seq(Node(n))
  BY <1>1, <1>5
<1>7. app \in Seq(Node(n)) /\ Len(app) = n /\ SameKeys(hash.nodes, app, Used)
  BY <1>1, <1>4, <1>6 DEF SameKeys
<1> HIDE DEF app
<1>8. g.nodes = app /\ g.root = hash.root
  OBVIOUS
<1>9. Sound(app, n)
  BY <1>7 DEF Sound
<1>10. op.at \in SlotsOf(n)
  BY <1>1, <1>2, SlotsGrow
<1>11. hash' = SetSlot(g, op.at, n)
  BY DEF Place, app
<1> HIDE DEF g, n
<1>12. /\ Sound(SetSlot(g, op.at, n).nodes, n) /\ SameKeys(g.nodes, SetSlot(g, op.at, n).nodes, n)
       /\ SetSlot(g, op.at, n).root \in 0 .. n
  <2>1. g.root \in 0 .. n /\ n \in 0 .. n
    BY <1>1, <1>3, <1>8 DEF n
  <2> QED BY <1>3, <1>8, <1>9, <1>10, <2>1, SetSlotSound
<1>13. SameKeys(hash.nodes, hash'.nodes, Used)
  BY <1>1, <1>7, <1>8, <1>11, <1>12 DEF SameKeys, n
<1>14. Used' = n
  BY <1>3, <1>11, <1>12, SoundIsSeq DEF Used
<1> QED BY <1>11, <1>12, <1>13, <1>14 DEF n

LEMMA StepInv == Inv /\ [Next]_vars => Inv'
<1> SUFFICES ASSUME Inv, [Next]_vars
             PROVE  Inv'
  OBVIOUS
<1> DEFINE n == Used
<1>a. /\ n \in 0 .. IdxMax /\ n \in Nat /\ Sound(hash.nodes, n) /\ hash.root \in 0 .. n
      /\ hash.nodes \in Seq(Node(n))
  <2>1. TypeOK
    BY DEF Inv
  <2>2. Used \in 0 .. IdxMax /\ Sound(hash.nodes, Used) /\ hash.root \in 0 .. Used
        /\ hash.nodes \in Seq(Node(Used))
    BY <2>1, TreeSound
  <2> QED BY <2>2, IndexAssumption
\* A step that leaves the tree alone has only the call to account for.
<1>b. ASSUME UNCHANGED hash, fault' \in {"none", "overrun", "empty slot"},
             \/ op' = NoOp
             \/ op'.pc = "search" /\ op'.key \in Keys /\ op'.at \in 0 .. n
             \/ /\ op'.pc = "descend" /\ op'.key \in Keys /\ op'.at \in SlotsOf(n)
                /\ op'.branch \in Seq(SlotsOf(n)) /\ n < IdxMax
             \/ op'.pc = "fixup" /\ op'.branch \in Seq(SlotsOf(n))
      PROVE  Inv'
  <2>1. Used' = n
    BY <1>b DEF Used
  <2>2. TypeOK'
    BY <1>a, <1>b, <2>1 DEF TypeOK, Inv
  <2>3. op'.pc = "descend" => Used' < IdxMax
    <3>1. op'.pc = "descend" => op' # NoOp
      BY DEF NoOp
    <3> QED BY <1>b, <2>1, <3>1
  <2> QED BY <1>b, <2>2, <2>3 DEF Inv
<1>1. CASE \E k \in Keys, strict \in BOOLEAN : BeginInsert(k, strict)
  <2>1. PICK k \in Keys, strict \in BOOLEAN : BeginInsert(k, strict)
    BY <1>1
  <2>2. CASE Used = IdxMax
    <3>1. op' = NoOp /\ UNCHANGED <<hash, fault>>
      BY <2>1, <2>2 DEF BeginInsert, Finish, Defined
    <3> QED BY <1>b, <3>1 DEF Inv
  <2>3. CASE Used # IdxMax
    <3>1. PICK kept \in BOOLEAN : op' = Descending(k, strict, TheRoot, <<>>, kept)
      BY <2>1, <2>3 DEF BeginInsert
    <3>2. /\ op'.pc = "descend" /\ op'.key \in Keys /\ op'.at \in SlotsOf(n)
          /\ op'.branch \in Seq(SlotsOf(n)) /\ n < IdxMax
      BY <1>a, <2>3, <3>1, IndexAssumption DEF Descending, SlotsOf
    <3>3. UNCHANGED <<hash, fault>>
      BY <2>1 DEF BeginInsert, Defined
    <3> QED BY <1>b, <3>2, <3>3 DEF Inv
  <2> QED BY <2>2, <2>3
<1>2. CASE \E k \in Keys : BeginSearch(k)
  <2>1. PICK k \in Keys : BeginSearch(k)
    BY <1>2
  <2>2. op' = Looking(k, hash.root) /\ UNCHANGED <<hash, fault>>
    BY <2>1 DEF BeginSearch, Defined
  <2>3. op'.pc = "search" /\ op'.key \in Keys /\ op'.at \in 0 .. n
    BY <1>a, <2>2 DEF Looking
  <2> QED BY <1>b, <2>2, <2>3 DEF Inv
<1>3. CASE Descend
  <2>0. op.pc = "descend" /\ Here # 0 /\ UNCHANGED <<hash, fault>>
    BY <1>3 DEF Descend, Defined
  <2> DEFINE rela == RelaIndex(IF op.key > hash.nodes[Here].key THEN Right ELSE Left, Here)
  <2>1. PICK kept \in BOOLEAN :
          op' = Descending(op.key, op.strict, rela,
                           IF kept THEN Append(op.branch, op.at) ELSE op.branch, kept)
    BY <1>3 DEF Descend
  <2>2. Here \in 1 .. n
    BY <1>a, <2>0, DescendTyped, SlotInRange DEF Here
  <2>3. rela \in SlotsOf(n)
    BY <2>2 DEF SlotsOf
  <2> HIDE DEF rela
  <2>4. (IF kept THEN Append(op.branch, op.at) ELSE op.branch) \in Seq(SlotsOf(n))
    BY <2>0, DescendTyped
  <2>5. /\ op'.pc = "descend" /\ op'.key \in Keys /\ op'.at \in SlotsOf(n)
        /\ op'.branch \in Seq(SlotsOf(n)) /\ n < IdxMax
    BY <2>0, <2>1, <2>3, <2>4, DescendTyped DEF Descending
  <2> QED BY <1>b, <2>0, <2>5 DEF Inv
<1>4. CASE Duplicate \/ EndInsert \/ EndSearch
  <2>1. op' = NoOp /\ UNCHANGED <<hash, fault>>
    BY <1>4 DEF Duplicate, EndInsert, EndSearch, Finish, Defined
  <2> QED BY <1>b, <2>1 DEF Inv
<1>5. CASE Place
  <2>1. /\ Used' = n + 1 /\ Sound(hash'.nodes, n + 1) /\ hash'.root \in 0 .. n + 1
    BY <1>5, PlaceSound
  <2>2. op.pc = "descend" /\ op' = Fixing(n + 1, op.branch) /\ UNCHANGED fault
    BY <1>5 DEF Place, Defined
  <2>3. op.branch \in Seq(SlotsOf(n)) /\ n < IdxMax
    BY <2>2, DescendTyped
  <2>4. SlotsOf(n) \subseteq SlotsOf(n + 1)
    BY <1>a, SlotsGrow
  <2>5. op'.pc = "fixup" /\ op'.branch \in Seq(SlotsOf(Used'))
    BY <2>1, <2>2, <2>3, <2>4 DEF Fixing
  <2>6. hash'.nodes \in Seq(Node(Used'))
    BY <1>a, <2>1, SoundIsSeq
  <2>7. Used' <= IdxMax
    BY <1>a, <2>1, <2>3, IndexAssumption
  <2>8. TypeOK'
    BY <2>1, <2>5, <2>6, <2>7 DEF TypeOK
  <2> QED BY <2>2, <2>5, <2>8 DEF Inv
<1>6. CASE PlaceRefused
  <2>1. op.pc = "descend" /\ op' = Fixing(op.at, op.branch) /\ UNCHANGED <<hash, fault>>
    BY <1>6 DEF PlaceRefused, Defined
  <2>2. op'.pc = "fixup" /\ op'.branch \in Seq(SlotsOf(n))
    BY <2>1, DescendTyped DEF Fixing
  <2> QED BY <1>b, <2>1, <2>2 DEF Inv
<1>7. CASE PlaceOverrun
  <2>1. op.pc = "descend" /\ UNCHANGED <<hash, op>> /\ fault' = "overrun"
    BY <1>7 DEF PlaceOverrun
  <2> QED BY <1>b, <2>1, DescendTyped
<1>8. CASE FixUp
  <2> DEFINE slot == Last(op.branch)
             i    == Slot(hash, slot)
  <2>1. /\ op.pc = "fixup" /\ op.branch # <<>> /\ op' = Fixing(op.at, Front(op.branch))
        /\ fault' = (IF i = 0 THEN "empty slot"
                     ELSE IF ChildMissing(hash.nodes, i) THEN "child missing" ELSE "none")
        /\ hash' = IF fault' = "none" THEN FixedUp(hash, slot, i) ELSE hash
    BY <1>8 DEF FixUp, FixUpAt
  <2>2. op.branch \in Seq(SlotsOf(n))
    BY <2>1, FixupTyped
  <2>3. slot \in SlotsOf(n) /\ Front(op.branch) \in Seq(SlotsOf(n))
    <3>1. Len(op.branch) \in Nat \ {0}
      BY <2>1, <2>2, EmptySeq
    <3> QED BY <2>2, <3>1 DEF Last, Front
  <2>4. op'.pc = "fixup" /\ op'.branch \in Seq(SlotsOf(n))
    BY <2>1, <2>3 DEF Fixing
  <2>5. i \in 0 .. n
    BY <1>a, <2>3, SlotInRange
  <2>6. CASE i = 0
    <3>1. fault' = "empty slot" /\ UNCHANGED hash
      BY <2>1, <2>6
    <3> QED BY <1>b, <2>4, <3>1
  <2>7. CASE i # 0
    <3>1. ~ChildMissing(hash.nodes, i)
      BY <1>a, <2>5, <2>7, NoChildMissing
    <3>2. fault' = "none" /\ hash' = FixedUp(hash, slot, i)
      BY <2>1, <2>7, <3>1
    <3>3. Sound(hash'.nodes, n) /\ hash'.root \in 0 .. n
      BY <2>3, <2>7, <3>2, FixedUpSound DEF Inv
    <3>4. hash'.nodes \in Seq(Node(n)) /\ Used' = n
      BY <1>a, <3>3, SoundIsSeq DEF Used
    <3>5. TypeOK'
      BY <1>a, <2>4, <3>3, <3>4, IndexAssumption DEF TypeOK
    <3> QED BY <2>4, <3>2, <3>5 DEF Inv
  <2> QED BY <2>6, <2>7
<1>9. CASE LookFurther
  <2>1. op.pc = "search" /\ op.at # 0 /\ UNCHANGED <<hash, fault>>
    BY <1>9 DEF LookFurther, Defined
  <2>2. op.key \in Keys /\ op.at \in 1 .. n
    BY <1>a, <2>1, SearchTyped
  <2>3. op' = Looking(op.key, IF op.key > hash.nodes[op.at].key THEN hash.nodes[op.at].right
                              ELSE hash.nodes[op.at].left)
    BY <1>9 DEF LookFurther
  <2>4. hash.nodes[op.at].left \in 0 .. n /\ hash.nodes[op.at].right \in 0 .. n
    BY <1>a, <2>2, NodeFields
  <2>5. op'.pc = "search" /\ op'.key \in Keys /\ op'.at \in 0 .. n
    BY <2>2, <2>3, <2>4 DEF Looking
  <2> QED BY <1>b, <2>1, <2>5 DEF Inv
<1>10. CASE Undefined \/ UNCHANGED vars
  <2>1. UNCHANGED <<hash, op, fault, ret>>
    BY <1>10 DEF Undefined, vars
  <2> QED BY <2>1 DEF Inv, TypeOK, Used
<1> QED
  BY <1>1, <1>2, <1>3, <1>4, <1>5, <1>6, <1>7, <1>8, <1>9, <1>10 DEF Next, Progress

\* In every reachable state all links, the root and the slots of the call in
\* progress name nodes, and no node has a depth below one.
THEOREM TypeCorrect == Spec => []TypeOK
<1>1. Inv => TypeOK
  BY DEF Inv
<1> QED BY InitInv, StepInv, <1>1, PTL DEF Spec

\* No rotation ever reaches for a child that is not there, however stale the
\* depths that ask for it.
THEOREM RotationsFindChildren == Spec => []ChildrenAreThere
<1>1. Inv => ChildrenAreThere
  BY DEF Inv, ChildrenAreThere
<1> QED BY InitInv, StepInv, <1>1, PTL DEF Spec

\* An index keeps naming the key it was given out for.
THEOREM IndicesAreStable == Spec => IndicesStay
<1>1. Inv /\ [Next]_vars =>
        [\A i \in Placed : i <= Len(hash'.nodes) /\ hash'.nodes[i].key = hash.nodes[i].key]_vars
  <2> SUFFICES ASSUME Inv, [Next]_vars, NEW i \in Placed
               PROVE  i <= Len(hash'.nodes) /\ hash'.nodes[i].key = hash.nodes[i].key
    BY DEF vars
  <2>1. Used \in 0 .. IdxMax /\ Sound(hash.nodes, Used) /\ i \in 1 .. Used
    BY TreeSound DEF Inv, Placed
  <2>2. CASE Place
    BY <2>1, <2>2, PlaceSound DEF SameKeys, Used
  <2>3. CASE FixUp
    <3> DEFINE slot == Last(op.branch)
    <3>1. op.pc = "fixup" /\ op.branch # <<>>
      BY <2>3 DEF FixUp, FixUpAt
    <3>2. slot \in SlotsOf(Used)
      BY <3>1, FixupTyped DEF Last
    <3>3. \/ hash' = hash
          \/ Slot(hash, slot) # 0 /\ hash' = FixedUp(hash, slot, Slot(hash, slot))
      BY <2>3 DEF FixUp, FixUpAt
    <3> HIDE DEF slot
    <3>4. CASE hash' = hash
      BY <2>1, <3>4 DEF Used
    <3>5. CASE Slot(hash, slot) # 0 /\ hash' = FixedUp(hash, slot, Slot(hash, slot))
      <4>1. Sound(hash'.nodes, Used) /\ SameKeys(hash.nodes, hash'.nodes, Used)
        BY <3>2, <3>5, FixedUpSound DEF Inv
      <4>2. Len(hash'.nodes) = Used
        BY <2>1, <4>1, SoundIsSeq
      <4> QED BY <2>1, <4>1, <4>2 DEF SameKeys
    <3> QED BY <3>3, <3>4, <3>5
  <2>4. CASE UNCHANGED hash
    BY <2>1, <2>4 DEF Used
  <2>5. Place \/ FixUp \/ UNCHANGED hash
    BY DEF Next, Progress, vars, BeginInsert, BeginSearch, Descend, Duplicate, PlaceRefused,
           PlaceOverrun, EndInsert, LookFurther, EndSearch, Undefined
  <2> QED BY <2>2, <2>3, <2>4, <2>5
<1> QED BY InitInv, StepInv, <1>1, PTL DEF Spec, IndicesStay

-----------------------------------------------------------------------------
(* Search trees, by keys, links and spans. *)

\* The two sides of a node, and what belongs on a side of key x.
Other(side) == IF side = Left THEN Right ELSE Left
Beyond(side, k, x) == IF side = Left THEN k < x ELSE x < k

\* The keys that belong in slot r, from the span of the node that has it.
Room(key, span, r) ==
  IF r = TheRoot THEN Keys
  ELSE {k \in span[TruIndex(r)] : Beyond(Selector(r), k, key[TruIndex(r)])}

\* A span holds its node's key, and has no gaps.
Spanned(n, key, span) ==
  /\ span \in [1 .. n -> SUBSET Keys]
  /\ \A i \in 1 .. n : key[i] \in span[i]
  /\ \A i \in 1 .. n : \A a, b \in span[i] : \A k \in Keys : a < k /\ k < b => k \in span[i]

\* The node in a slot spans the slot's room.
Hung(n, key, link, span) ==
  \A r \in SlotsOf(n) : link[r] # 0 => span[link[r]] = Room(key, span, r)

\* No node's key belongs in an empty slot.
Filled(n, key, link, span) ==
  \A r \in SlotsOf(n), j \in 1 .. n : key[j] \in Room(key, span, r) => link[r] # 0

\* No key belongs in two empty slots.
Apart(n, key, link, span) ==
  \A r, q \in SlotsOf(n) :
    r # q /\ link[r] = 0 /\ link[q] = 0 => Room(key, span, r) \cap Room(key, span, q) = {}

\* No two nodes are each under the other: there is no cycle of links.
OneWay(n, key, span) ==
  \A i, j \in 1 .. n : key[j] \in span[i] /\ key[i] \in span[j] => i = j

\* Every node is in one slot.
Once(n, link) ==
  /\ \A r, q \in SlotsOf(n) : link[r] = link[q] /\ link[r] # 0 => r = q
  /\ \A i \in 1 .. n : \E r \in SlotsOf(n) : link[r] = i

\* n nodes with these keys, linked as a search tree by these slots.
SearchTree(n, key, link, span) ==
  /\ n \in 0 .. IdxMax /\ key \in [1 .. n -> Keys] /\ link \in [SlotsOf(n) -> 0 .. n]
  /\ Spanned(n, key, span) /\ Hung(n, key, link, span) /\ Filled(n, key, link, span)
  /\ Apart(n, key, link, span) /\ OneWay(n, key, span) /\ Once(n, link)

\* The node that has slot r hangs somewhere under slot q.
Above(key, span, q, r) ==
  /\ r # TheRoot /\ key[TruIndex(r)] \in Room(key, span, q)
  /\ Room(key, span, r) \subseteq Room(key, span, q)

LEMMA SideSlots ==
  ASSUME NEW n \in 0 .. IdxMax, NEW s \in {Left, Right}, NEW i \in 1 .. n
  PROVE  /\ RelaIndex(s, i) \in SlotsOf(n) /\ RelaIndex(s, i) # TheRoot
         /\ Selector(RelaIndex(s, i)) = s /\ TruIndex(RelaIndex(s, i)) = i
<1>1. i \in 0 .. IdxMax /\ 0 \in 0 .. IdxMax
  BY IndexAssumption
<1>2. Selector(RelaIndex(s, i)) = s /\ TruIndex(RelaIndex(s, i)) = i
  BY <1>1, RelaIndexParts
<1>3. Selector(TheRoot) = Root
  BY <1>1, RelaIndexParts DEF TheRoot
<1>4. RelaIndex(s, i) \in SlotsOf(n)
  BY DEF SlotsOf
<1> QED BY <1>2, <1>3, <1>4 DEF Left, Right, Root

LEMMA SlotCases ==
  ASSUME NEW n \in 0 .. IdxMax, NEW r \in SlotsOf(n), r # TheRoot
  PROVE  /\ Selector(r) \in {Left, Right} /\ TruIndex(r) \in 1 .. n
         /\ r = RelaIndex(Selector(r), TruIndex(r))
<1>1. PICK s \in {Left, Right}, i \in 1 .. n : r = RelaIndex(s, i)
  BY DEF SlotsOf
<1> QED BY <1>1, SideSlots

LEMMA RootIsSlot == ASSUME NEW n \in Nat PROVE TheRoot \in SlotsOf(n)
  BY DEF SlotsOf

LEMMA Sides ==
  ASSUME NEW s \in {Left, Right}, NEW k \in Keys, NEW x \in Keys
  PROVE  /\ Other(s) \in {Left, Right} /\ Other(s) # s /\ Other(Other(s)) = s
         /\ ~Beyond(s, k, k)
         /\ Beyond(s, k, x) <=> Beyond(Other(s), x, k)
         /\ Beyond(s, k, x) \/ Beyond(Other(s), k, x) \/ k = x
         /\ ~(Beyond(s, k, x) /\ Beyond(Other(s), k, x))
         /\ \A y \in Keys : Beyond(s, k, x) /\ Beyond(s, x, y) => Beyond(s, k, y)
  BY IndexAssumption DEF Other, Beyond, Left, Right

LEMMA SideRoom ==
  ASSUME NEW n \in 0 .. IdxMax, NEW key, NEW span, NEW s \in {Left, Right}, NEW i \in 1 .. n
  PROVE  Room(key, span, RelaIndex(s, i)) = {k \in span[i] : Beyond(s, k, key[i])}
  BY SideSlots DEF Room

\* A rotation, seen from the links: the node in slot r gives way to its child
\* on the given side.
Turn(link, r, side) ==
  LET down == link[r]
      a    == RelaIndex(side, down)
      b    == RelaIndex(Other(side), link[a])
  IN  [link EXCEPT ![r] = link[a], ![a] = link[b], ![b] = down]

\* What the other slots can tell of a change at slot r and below.
Rehung(n, key, link, span, r, link2, span2) ==
  /\ SearchTree(n, key, link2, span2)
  /\ link2[r] # 0 /\ Room(key, span2, r) = Room(key, span, r)
  /\ \A q \in SlotsOf(n) : Above(key, span, q, r) =>
       link2[q] = link[q] /\ Room(key, span2, q) = Room(key, span, q)

\* What lies between two keys of a span is in it, to either side.
LEMMA SpanConvex ==
  ASSUME NEW n \in 0 .. IdxMax, NEW key, NEW span, Spanned(n, key, span), NEW i \in 1 .. n,
         NEW s \in {Left, Right}, NEW x \in span[i], NEW y \in span[i], NEW k \in Keys,
         Beyond(s, x, k), Beyond(s, k, y)
  PROVE  k \in span[i]
  BY DEF Spanned, Beyond

\* A node's own slots have room for less than the slot it is in.
LEMMA RoomAround ==
  ASSUME NEW n, NEW key, NEW link, NEW span, SearchTree(n, key, link, span),
         NEW r \in SlotsOf(n), link[r] # 0
  PROVE  /\ link[r] \in 1 .. n /\ span[link[r]] = Room(key, span, r)
         /\ key[link[r]] \in Room(key, span, r)
         /\ \A s \in {Left, Right} :
              /\ Room(key, span, RelaIndex(s, link[r])) \subseteq Room(key, span, r)
              /\ key[link[r]] \notin Room(key, span, RelaIndex(s, link[r]))
              /\ RelaIndex(s, link[r]) \in SlotsOf(n) /\ RelaIndex(s, link[r]) # r
<1>1. link[r] \in 1 .. n /\ span[link[r]] = Room(key, span, r) /\ n \in 0 .. IdxMax
  BY DEF SearchTree, Hung
<1>2. key[link[r]] \in Room(key, span, r) /\ key[link[r]] \in Keys
  BY <1>1 DEF SearchTree, Spanned
<1>3. ASSUME NEW s \in {Left, Right}
      PROVE  /\ Room(key, span, RelaIndex(s, link[r])) \subseteq Room(key, span, r)
             /\ key[link[r]] \notin Room(key, span, RelaIndex(s, link[r]))
  BY <1>1, <1>2, SideRoom, Sides
<1>4. ASSUME NEW s \in {Left, Right} PROVE RelaIndex(s, link[r]) \in SlotsOf(n)
  BY <1>1, SideSlots
<1> QED BY <1>1, <1>2, <1>3, <1>4

\* The slots above a slot are not among those a turn there moves.
LEMMA AboveDiffers ==
  ASSUME NEW n, NEW key, NEW link, NEW span, SearchTree(n, key, link, span),
         NEW r \in SlotsOf(n), link[r] # 0, NEW s \in {Left, Right}, NEW t \in {Left, Right},
         NEW q \in SlotsOf(n), Above(key, span, q, r)
  PROVE  /\ q # r /\ q # RelaIndex(s, link[r])
         /\ link[RelaIndex(s, link[r])] # 0 => q # RelaIndex(t, link[RelaIndex(s, link[r])])
<1>1. q # r
  <2>1. Selector(r) \in {Left, Right} /\ TruIndex(r) \in 1 .. n
    BY SlotCases DEF Above, SearchTree
  <2>2. key[TruIndex(r)] \in Keys
    BY <2>1 DEF SearchTree
  <2>3. key[TruIndex(r)] \notin Room(key, span, r)
    BY <2>1, <2>2, Sides DEF Room, Above
  <2> QED BY <2>3 DEF Above
<1> DEFINE a == RelaIndex(s, link[r])
<1>2. key[link[r]] \in Room(key, span, q) /\ key[link[r]] \notin Room(key, span, a) /\ a \in SlotsOf(n)
  BY RoomAround DEF Above
<1>3. ASSUME link[a] # 0 PROVE key[link[r]] \notin Room(key, span, RelaIndex(t, link[a]))
  <2> HIDE DEF a
  <2> QED BY <1>2, <1>3, RoomAround
<1> QED BY <1>1, <1>2, <1>3

\* A slot is above the slots of the node in it, and so is all above it.
LEMMA AboveChild ==
  ASSUME NEW n, NEW key, NEW link, NEW span, SearchTree(n, key, link, span),
         NEW r \in SlotsOf(n), link[r] # 0, NEW s \in {Left, Right}
  PROVE  /\ Above(key, span, r, RelaIndex(s, link[r]))
         /\ \A q \in SlotsOf(n) : Above(key, span, q, r) => Above(key, span, q, RelaIndex(s, link[r]))
<1>1. /\ link[r] \in 1 .. n /\ key[link[r]] \in Room(key, span, r)
      /\ Room(key, span, RelaIndex(s, link[r])) \subseteq Room(key, span, r)
  BY RoomAround
<1>2. RelaIndex(s, link[r]) # TheRoot /\ TruIndex(RelaIndex(s, link[r])) = link[r]
  BY <1>1, SideSlots DEF SearchTree
<1> QED BY <1>1, <1>2 DEF Above

\* The spans after that rotation.
Turned(key, link, span, r, side) ==
  LET down == link[r]
      up   == link[RelaIndex(side, down)]
  IN  [span EXCEPT ![up] = span[down],
                   ![down] = {k \in span[down] : Beyond(Other(side), k, key[up])}]

\* A rotation leaves a search tree, whatever it is asked for.
LEMMA TurnHolds ==
  ASSUME NEW n, NEW key, NEW link, NEW span, SearchTree(n, key, link, span),
         NEW r \in SlotsOf(n), NEW side \in {Left, Right}, link[r] # 0,
         link[RelaIndex(side, link[r])] # 0
  PROVE  /\ Rehung(n, key, link, span, r, Turn(link, r, side), Turned(key, link, span, r, side))
         /\ Turn(link, r, side)[r] = link[RelaIndex(side, link[r])]
         /\ RelaIndex(side, link[r]) # RelaIndex(Other(side), link[RelaIndex(side, link[r])])
<1> DEFINE down  == link[r]
           a     == RelaIndex(side, down)
           up    == link[a]
           b     == RelaIndex(Other(side), up)
           link2 == Turn(link, r, side)
           span2 == Turned(key, link, span, r, side)
           R(q)  == Room(key, span, q)
           S(q)  == Room(key, span2, q)
           below == {k \in span[down] : Beyond(Other(side), k, key[up])}
<1>0. /\ n \in 0 .. IdxMax /\ n \in Nat /\ key \in [1 .. n -> Keys] /\ link \in [SlotsOf(n) -> 0 .. n]
      /\ span \in [1 .. n -> SUBSET Keys] /\ Other(side) \in {Left, Right} /\ Other(side) # side
  BY IndexAssumption, Sides DEF SearchTree, Spanned, Other, Left, Right
<1>1. /\ down \in 1 .. n /\ span[down] = R(r) /\ key[down] \in span[down]
      /\ a \in SlotsOf(n) /\ a # r /\ key[down] \notin R(a) /\ R(a) \subseteq R(r)
  BY RoomAround
<1>2. /\ up \in 1 .. n /\ span[up] = R(a) /\ key[up] \in span[up]
      /\ b \in SlotsOf(n) /\ b # a /\ key[up] \notin R(b) /\ R(b) \subseteq R(a)
  <2> HIDE DEF a, down
  <2>1. link[a] # 0
    BY DEF a, down
  <2>2. /\ link[a] \in 1 .. n /\ span[link[a]] = Room(key, span, a)
        /\ key[link[a]] \in Room(key, span, a)
        /\ \A s \in {Left, Right} :
             /\ Room(key, span, RelaIndex(s, link[a])) \subseteq Room(key, span, a)
             /\ key[link[a]] \notin Room(key, span, RelaIndex(s, link[a]))
             /\ RelaIndex(s, link[a]) \in SlotsOf(n) /\ RelaIndex(s, link[a]) # a
    BY <1>1, <2>1, RoomAround
  <2> QED BY <1>0, <2>2
<1>3. b # r
  BY <1>1, <1>2
<1>4. up # down
  BY <1>1, <1>2
<1>5. /\ R(a) = {k \in span[down] : Beyond(side, k, key[down])}
      /\ R(b) = {k \in span[up] : Beyond(Other(side), k, key[up])}
  <2> HIDE DEF down, up
  <2> QED BY <1>0, <1>1, <1>2, SideRoom DEF a, b
<1>6. link2 = [link EXCEPT ![r] = up, ![a] = link[b], ![b] = down]
  BY DEF Turn
<1>7. span2 = [span EXCEPT ![up] = span[down], ![down] = below]
  BY DEF Turned
<1>8. key[down] \in Keys /\ key[up] \in Keys /\ span[down] \subseteq Keys /\ below \subseteq span[down]
  BY <1>0, <1>1, <1>2
<1>9. Beyond(side, key[up], key[down])
  BY <1>2, <1>5
<1> HIDE DEF a, b, up, down, link2, span2, R, S
<1>10. /\ link2 \in [SlotsOf(n) -> 0 .. n] /\ link2[r] = up /\ link2[a] = link[b] /\ link2[b] = down
       /\ \A q \in SlotsOf(n) : q \notin {r, a, b} => link2[q] = link[q]
  BY <1>0, <1>1, <1>2, <1>3, <1>6
<1>11. /\ span2 \in [1 .. n -> SUBSET Keys] /\ span2[up] = span[down] /\ span2[down] = below
       /\ \A i \in 1 .. n : i \notin {up, down} => span2[i] = span[i]
  BY <1>0, <1>1, <1>2, <1>4, <1>7, <1>8
\* The room of every slot but two stays what it was.
<1>12. S(b) = below /\ S(a) = R(b)
  <2>1. S(b) = {k \in span2[up] : Beyond(Other(side), k, key[up])}
    <3>1. n \in 0 .. IdxMax /\ up \in 1 .. n /\ Other(side) \in {Left, Right}
      BY <1>0, <1>2
    <3>2. Room(key, span2, RelaIndex(Other(side), up)) = {k \in span2[up] : Beyond(Other(side), k, key[up])}
      BY <3>1, SideSlots DEF Room
    <3> QED BY <3>2 DEF S, b
  <2>2. S(a) = {k \in span2[down] : Beyond(side, k, key[down])}
    <3>1. n \in 0 .. IdxMax /\ down \in 1 .. n
      BY <1>0, <1>1
    <3>2. Room(key, span2, RelaIndex(side, down)) = {k \in span2[down] : Beyond(side, k, key[down])}
      BY <3>1, SideSlots DEF Room
    <3> QED BY <3>2 DEF S, a
  <2>3. S(a) = {k \in below : Beyond(side, k, key[down])}
    BY <2>2, <1>11
  <2>4. R(b) = {k \in {k \in span[down] : Beyond(side, k, key[down])} : Beyond(Other(side), k, key[up])}
    BY <1>5, <1>2
  <2>5. S(a) = R(b)
    BY <2>3, <2>4
  <2> QED BY <2>1, <2>5, <1>11
<1>13. \A q \in SlotsOf(n) : q \notin {a, b} => S(q) = R(q)
  <2> SUFFICES ASSUME NEW q \in SlotsOf(n), q # a, q # b PROVE S(q) = R(q)
    OBVIOUS
  <2>1. CASE q = TheRoot
    BY <2>1 DEF S, R, Room
  <2>2. CASE q # TheRoot
    <3> DEFINE s == Selector(q)
               i == TruIndex(q)
    <3>1. s \in {Left, Right} /\ i \in 1 .. n /\ q = RelaIndex(s, i)
      BY <1>0, <2>2, SlotCases
    <3> HIDE DEF s, i
    <3>2. S(q) = {k \in span2[i] : Beyond(s, k, key[i])} /\ R(q) = {k \in span[i] : Beyond(s, k, key[i])}
      <4>1. n \in 0 .. IdxMax /\ s \in {Left, Right} /\ i \in 1 .. n
        BY <1>0, <3>1
      <4>2. Room(key, span2, RelaIndex(s, i)) = {k \in span2[i] : Beyond(s, k, key[i])}
        BY <4>1, SideRoom
      <4>3. Room(key, span, RelaIndex(s, i)) = {k \in span[i] : Beyond(s, k, key[i])}
        BY <4>1, SideRoom
      <4> QED BY <3>1, <4>2, <4>3 DEF S, R
    <3>3. CASE i = up
      <4>1. s = side
        BY <3>1, <3>3, <1>0 DEF b, Other, Left, Right
      <4>2. \A k \in span[down] : Beyond(side, k, key[up]) => k \in span[up]
        BY <1>2, <1>5, <1>8, <1>9, Sides
      <4>3. span[up] \subseteq span[down]
        BY <1>1, <1>2
      <4> QED BY <3>2, <3>3, <4>1, <4>2, <4>3, <1>11
    <3>4. CASE i = down
      <4>1. s = Other(side)
        BY <3>1, <3>4, <1>0 DEF a, Other, Left, Right
      <4>2. \A k \in span[down] : Beyond(Other(side), k, key[down]) => Beyond(Other(side), k, key[up])
        BY <1>0, <1>8, <1>9, Sides
      <4> QED BY <3>2, <3>4, <4>1, <4>2, <1>11
    <3>5. CASE i \notin {up, down}
      BY <3>1, <3>2, <3>5, <1>11
    <3> QED BY <3>3, <3>4, <3>5
  <2> QED BY <2>1, <2>2
<1>14. Spanned(n, key, span2)
  <2>1. \A i \in 1 .. n : key[i] \in span2[i]
    <3>1. key[up] \in span2[up]
      BY <1>1, <1>2, <1>11
    <3>2. key[down] \in span2[down]
      BY <1>1, <1>8, <1>9, <1>11, Sides
    <3> QED BY <3>1, <3>2, <1>11 DEF SearchTree, Spanned
  <2>2. ASSUME NEW i \in 1 .. n, NEW x \in span2[i], NEW y \in span2[i], NEW k \in Keys, x < k, k < y
        PROVE  k \in span2[i]
    <3>0. \A j \in 1 .. n : \A v, w \in span[j] : v < k /\ k < w => k \in span[j]
      BY DEF SearchTree, Spanned
    <3>1. CASE i = down
      <4>1. x \in span[down] /\ y \in span[down]
        BY <2>2, <3>1, <1>8, <1>11
      <4>2. k \in span[down]
        BY <2>2, <3>0, <4>1, <1>1
      <4>3. Beyond(Other(side), x, key[up]) /\ Beyond(Other(side), y, key[up])
        BY <2>2, <3>1, <1>11
      <4>4. x \in Int /\ y \in Int /\ k \in Int /\ key[up] \in Int
        BY <4>1, <1>8, IndexAssumption
      <4>5. Beyond(Other(side), k, key[up])
        BY <4>3, <4>4, <2>2 DEF Beyond
      <4> QED BY <3>1, <4>2, <4>5, <1>11
    <3>2. CASE i = up
      <4>1. x \in span[down] /\ y \in span[down]
        BY <3>2, <1>11
      <4> QED BY <2>2, <3>0, <3>2, <4>1, <1>1, <1>11
    <3>3. CASE i \notin {up, down}
      BY <2>2, <3>0, <3>3, <1>11
    <3> QED BY <3>1, <3>2, <3>3
  <2> QED BY <2>1, <2>2, <1>11 DEF Spanned
<1>o. /\ \A p, q \in SlotsOf(n) : link[p] = link[q] /\ link[p] # 0 => p = q
      /\ \A i \in 1 .. n : \E q \in SlotsOf(n) : link[q] = i
  BY DEF SearchTree, Once
<1>u. link[r] = down /\ link[a] = up /\ down # 0 /\ up # 0
  BY <1>1, <1>2 DEF down, up
<1>15. Hung(n, key, link2, span2)
  <2> SUFFICES ASSUME NEW q \in SlotsOf(n), link2[q] # 0 PROVE span2[link2[q]] = S(q)
    BY DEF Hung, S
  <2>0. \A p \in SlotsOf(n) : link[p] # 0 => span[link[p]] = R(p)
    BY DEF SearchTree, Hung, R
  <2>1. CASE q = r
    BY <2>1, <1>10, <1>11, <1>13, <1>1, <1>3
  <2>2. CASE q = b
    BY <2>2, <1>10, <1>11, <1>12
  <2>3. CASE q = a
    <3>1. link[b] # 0 /\ link[b] \notin {up, down} /\ link[b] \in 1 .. n
      BY <2>3, <1>0, <1>1, <1>2, <1>3, <1>10, <1>o, <1>u
    <3> QED BY <2>0, <2>3, <3>1, <1>2, <1>10, <1>11, <1>12
  <2>4. CASE q \notin {r, a, b}
    <3>1. link[q] # 0 /\ link[q] \notin {up, down} /\ link[q] \in 1 .. n
      BY <2>4, <1>0, <1>1, <1>10, <1>o, <1>u
    <3> QED BY <2>0, <2>4, <3>1, <1>10, <1>11, <1>13
  <2> QED BY <2>1, <2>2, <2>3, <2>4
\* Which slot's content each slot now has.
<1> DEFINE from(q) == IF q = r THEN a ELSE IF q = a THEN b ELSE IF q = b THEN r ELSE q
<1>16. /\ \A q \in SlotsOf(n) : from(q) \in SlotsOf(n) /\ link2[q] = link[from(q)]
       /\ \A p, q \in SlotsOf(n) : from(p) = from(q) => p = q
       /\ \A p \in SlotsOf(n) : \E q \in SlotsOf(n) : from(q) = p
  <2>1. ASSUME NEW q \in SlotsOf(n) PROVE from(q) \in SlotsOf(n) /\ link2[q] = link[from(q)]
    BY <1>1, <1>2, <1>3, <1>10, <1>u
  <2>2. ASSUME NEW p \in SlotsOf(n), NEW q \in SlotsOf(n), from(p) = from(q) PROVE p = q
    BY <2>2, <1>1, <1>2, <1>3
  <2>3. ASSUME NEW p \in SlotsOf(n) PROVE \E q \in SlotsOf(n) : from(q) = p
    BY <1>1, <1>2, <1>3
  <2> QED BY <2>1, <2>2, <2>3
<1> HIDE DEF from
<1>17. Once(n, link2)
  <2>1. ASSUME NEW p \in SlotsOf(n), NEW q \in SlotsOf(n), link2[p] = link2[q], link2[p] # 0 PROVE p = q
    BY <2>1, <1>16, <1>o
  <2>2. ASSUME NEW i \in 1 .. n PROVE \E q \in SlotsOf(n) : link2[q] = i
    BY <1>16, <1>o
  <2> QED BY <2>1, <2>2 DEF Once
<1>18. Filled(n, key, link2, span2)
  <2> SUFFICES ASSUME NEW q \in SlotsOf(n), NEW j \in 1 .. n, key[j] \in S(q) PROVE link2[q] # 0
    BY DEF Filled, S
  <2>0. \A p \in SlotsOf(n), i \in 1 .. n : key[i] \in R(p) => link[p] # 0
    BY DEF SearchTree, Filled, R
  <2>1. CASE q \in {r, b}
    BY <2>1, <1>10, <1>u
  <2>2. CASE q = a
    BY <2>0, <2>2, <1>2, <1>10, <1>12
  <2>3. CASE q \notin {r, a, b}
    BY <2>0, <2>3, <1>10, <1>13
  <2> QED BY <2>1, <2>2, <2>3
<1>19. Apart(n, key, link2, span2)
  <2> SUFFICES ASSUME NEW p \in SlotsOf(n), NEW q \in SlotsOf(n), p # q, link2[p] = 0, link2[q] = 0
               PROVE  S(p) \cap S(q) = {}
    BY DEF Apart, S
  <2>0. \A v, w \in SlotsOf(n) : v # w /\ link[v] = 0 /\ link[w] = 0 => R(v) \cap R(w) = {}
    BY DEF SearchTree, Apart, R
  <2>1. ASSUME NEW v \in SlotsOf(n), link2[v] = 0 PROVE S(v) = R(from(v)) /\ link[from(v)] = 0
    <3>1. v # r /\ v # b
      BY <2>1, <1>10, <1>u
    <3> QED BY <2>1, <3>1, <1>10, <1>12, <1>13, <1>16 DEF from
  <2>2. from(p) # from(q) /\ from(p) \in SlotsOf(n) /\ from(q) \in SlotsOf(n)
    BY <1>16
  <2> QED BY <2>0, <2>1, <2>2
<1>20. OneWay(n, key, span2)
  <2>0. \A i, j \in 1 .. n : key[j] \in span[i] /\ key[i] \in span[j] => i = j
    BY DEF SearchTree, OneWay
  <2>1. ASSUME NEW j \in 1 .. n, j # up, j # down, key[j] \in span[down], key[up] \in span[j]
        PROVE  FALSE
    <3>1. key[down] \notin span[j]
      BY <2>0, <2>1, <1>1
    <3>2. key[j] \in Keys /\ key[j] \in span[j]
      BY <1>0 DEF SearchTree, Spanned
    <3>3. ~Beyond(side, key[j], key[down])
      <4>1. SUFFICES ASSUME Beyond(side, key[j], key[down]) PROVE FALSE
        OBVIOUS
      <4>2. key[j] \in span[up]
        BY <2>1, <4>1, <1>2, <1>5
      <4> QED BY <2>0, <2>1, <4>2, <1>2
    <3>4. key[j] # key[down]
      BY <3>1, <3>2
    <3>5. Beyond(side, key[down], key[j])
      <4>1. Beyond(Other(side), key[j], key[down])
        BY <3>2, <3>3, <3>4, <1>8, Sides
      <4> QED BY <4>1, <3>2, <1>0, <1>8, Sides
    <3>6. Beyond(Other(side), key[j], key[down]) /\ Beyond(Other(side), key[down], key[up])
      BY <3>2, <3>5, <1>0, <1>8, <1>9, Sides
    <3>7. key[down] \in span[j]
      <4>1. Spanned(n, key, span)
        BY DEF SearchTree
      <4> QED BY <4>1, <3>2, <3>6, <2>1, <1>0, <1>8, SpanConvex
    <3> QED BY <3>1, <3>7
  <2>2. key[up] \notin span2[down]
    BY <1>0, <1>8, <1>11, Sides
  <2>3. ASSUME NEW i \in 1 .. n, NEW j \in 1 .. n, key[j] \in span2[i], key[i] \in span2[j], i # j
        PROVE  FALSE
    <3>1. CASE i = up
      <4>1. j # down
        BY <2>2, <2>3, <3>1
      <4>2. key[j] \in span[down] /\ key[up] \in span[j]
        BY <2>3, <3>1, <4>1, <1>11
      <4> QED BY <2>1, <2>3, <3>1, <4>1, <4>2
    <3>2. CASE j = up
      <4>1. i # down
        BY <2>2, <2>3, <3>2
      <4>2. key[i] \in span[down] /\ key[up] \in span[i]
        BY <2>3, <3>2, <4>1, <1>11
      <4> QED BY <2>1, <2>3, <3>2, <4>1, <4>2
    <3>3. CASE i # up /\ j # up
      <4>1. key[j] \in span[i] /\ key[i] \in span[j]
        BY <2>3, <3>3, <1>8, <1>11
      <4> QED BY <2>0, <2>3, <4>1
    <3> QED BY <3>1, <3>2, <3>3
  <2> QED BY <2>3 DEF OneWay
<1>21. SearchTree(n, key, link2, span2)
  BY <1>0, <1>10, <1>14, <1>15, <1>17, <1>18, <1>19, <1>20 DEF SearchTree
<1>22. ASSUME NEW q \in SlotsOf(n), Above(key, span, q, r)
       PROVE  link2[q] = link[q] /\ S(q) = R(q)
  <2>1. q # r /\ q # a /\ q # b
    BY <1>0, <1>22, <1>u, AboveDiffers DEF a, b, down, up
  <2> QED BY <2>1, <1>10, <1>13
<1>23. S(r) = R(r) /\ link2[r] = up /\ up # 0 /\ a # b
  BY <1>1, <1>2, <1>3, <1>10, <1>13
<1>24. Rehung(n, key, link, span, r, link2, span2)
  BY <1>21, <1>22, <1>23 DEF Rehung, S, R
<1> QED BY <1>23, <1>24 DEF link2, span2, up, a, b, down

\* What UHash keeps, as functions from slots and from nodes.
LinksOf(n, h) == [r \in SlotsOf(n) |-> Slot(h, r)]
Tree(ns, root) == [nodes |-> ns, root |-> root]
KeysOf(n, h)  == [i \in 1 .. n |-> h.nodes[i].key]

\* Rotating a child of the node in slot r changes nothing around r either.
LEMMA InnerTurn ==
  ASSUME NEW n, NEW key, NEW link, NEW span, SearchTree(n, key, link, span),
         NEW r \in SlotsOf(n), NEW s \in {Left, Right}, NEW side \in {Left, Right},
         link[r] # 0, link[RelaIndex(s, link[r])] # 0,
         link[RelaIndex(side, link[RelaIndex(s, link[r])])] # 0
  PROVE  /\ Rehung(n, key, link, span, r, Turn(link, RelaIndex(s, link[r]), side),
                   Turned(key, link, span, RelaIndex(s, link[r]), side))
         /\ Turn(link, RelaIndex(s, link[r]), side)[r] = link[r]
         /\ Turn(link, RelaIndex(s, link[r]), side)[RelaIndex(s, link[r])]
              = link[RelaIndex(side, link[RelaIndex(s, link[r])])]
<1> DEFINE q == RelaIndex(s, link[r])
           link2 == Turn(link, q, side)
           span2 == Turned(key, link, span, q, side)
<1>1. q \in SlotsOf(n)
  BY RoomAround
<1>2. /\ Above(key, span, r, q)
      /\ \A p \in SlotsOf(n) : Above(key, span, p, r) => Above(key, span, p, q)
  BY AboveChild
<1> HIDE DEF q
<1>3. link[q] # 0 /\ link[RelaIndex(side, link[q])] # 0
  BY DEF q
<1>4. Rehung(n, key, link, span, q, link2, span2) /\ link2[q] = link[RelaIndex(side, link[q])]
  BY <1>1, <1>3, TurnHolds
<1> HIDE DEF link2, span2
<1>5. Rehung(n, key, link, span, r, link2, span2) /\ link2[r] = link[r]
  BY <1>2, <1>4 DEF Rehung
<1> QED BY <1>4, <1>5 DEF q, link2, span2

\* Two changes below the same slot are one.
LEMMA RehungTwice ==
  ASSUME NEW n, NEW key, NEW link, NEW span, NEW link1, NEW span1, NEW link2, NEW span2,
         NEW r \in SlotsOf(n),
         Rehung(n, key, link, span, r, link1, span1),
         Rehung(n, key, link1, span1, r, link2, span2)
  PROVE  Rehung(n, key, link, span, r, link2, span2)
<1>1. ASSUME NEW q \in SlotsOf(n), Above(key, span, q, r) PROVE Above(key, span1, q, r)
  BY <1>1 DEF Rehung, Above
<1> QED BY <1>1 DEF Rehung

-----------------------------------------------------------------------------
(* The same in the array of nodes. *)

LEMMA SlotAt ==
  ASSUME NEW n \in 0 .. IdxMax, NEW h
  PROVE  /\ Slot(h, TheRoot) = h.root
         /\ \A i \in 1 .. n : /\ Slot(h, RelaIndex(Left, i)) = h.nodes[i].left
                              /\ Slot(h, RelaIndex(Right, i)) = h.nodes[i].right
<1>1. Selector(TheRoot) = Root
  BY RelaIndexParts, IndexAssumption DEF TheRoot
<1>2. ASSUME NEW i \in 1 .. n
      PROVE  /\ Slot(h, RelaIndex(Left, i)) = h.nodes[i].left
             /\ Slot(h, RelaIndex(Right, i)) = h.nodes[i].right
  BY SideSlots DEF Slot, Left, Right, Root
<1> QED BY <1>1, <1>2 DEF Slot

\* Two arrays with the same links.
LEMMA SameLinks ==
  ASSUME NEW n \in 0 .. IdxMax, NEW f, NEW g,
         f = [r \in SlotsOf(n) |-> f[r]], g = [r \in SlotsOf(n) |-> g[r]],
         f[TheRoot] = g[TheRoot],
         \A i \in 1 .. n : /\ f[RelaIndex(Left, i)] = g[RelaIndex(Left, i)]
                           /\ f[RelaIndex(Right, i)] = g[RelaIndex(Right, i)]
  PROVE  f = g
<1>1. ASSUME NEW r \in SlotsOf(n) PROVE f[r] = g[r]
  <2>1. CASE r = TheRoot
    BY <2>1
  <2>2. CASE r # TheRoot
    <3>1. Selector(r) \in {Left, Right} /\ TruIndex(r) \in 1 .. n
          /\ r = RelaIndex(Selector(r), TruIndex(r))
      BY <2>2, SlotCases
    <3> QED BY <3>1
  <2> QED BY <2>1, <2>2
<1> QED BY <1>1

LEMMA LinkValues ==
  ASSUME NEW n \in 0 .. IdxMax, NEW h
  PROVE  /\ LinksOf(n, h)[TheRoot] = h.root
         /\ \A i \in 1 .. n : /\ LinksOf(n, h)[RelaIndex(Left, i)] = h.nodes[i].left
                              /\ LinksOf(n, h)[RelaIndex(Right, i)] = h.nodes[i].right
<1>1. TheRoot \in SlotsOf(n) /\ \A i \in 1 .. n, s \in {Left, Right} : RelaIndex(s, i) \in SlotsOf(n)
  BY DEF SlotsOf
<1> QED BY <1>1, SlotAt DEF LinksOf

\* Slots of different nodes, or of different sides, differ.
LEMMA SlotsDiffer ==
  ASSUME NEW n \in 0 .. IdxMax, NEW s \in {Left, Right}, NEW t \in {Left, Right},
         NEW i \in 1 .. n, NEW j \in 1 .. n
  PROVE  /\ RelaIndex(s, i) = RelaIndex(t, j) => s = t /\ i = j
         /\ RelaIndex(s, i) # TheRoot
  BY SideSlots

LEMMA RiseFields ==
  ASSUME NEW n \in 0 .. IdxMax, NEW ns, Sound(ns, n), NEW down \in 1 .. n, NEW up \in 1 .. n, down # up
  PROVE  /\ RiseRight(ns, down, up)[down].left = ns[down].left
         /\ RiseRight(ns, down, up)[down].right = ns[up].left
         /\ RiseRight(ns, down, up)[up].left = down
         /\ RiseRight(ns, down, up)[up].right = ns[up].right
         /\ RiseLeft(ns, down, up)[down].right = ns[down].right
         /\ RiseLeft(ns, down, up)[down].left = ns[up].right
         /\ RiseLeft(ns, down, up)[up].right = down
         /\ RiseLeft(ns, down, up)[up].left = ns[up].left
         /\ \A i \in 1 .. n : i \notin {down, up} =>
              /\ RiseRight(ns, down, up)[i] = ns[i] /\ RiseLeft(ns, down, up)[i] = ns[i]
<1>1. ASSUME NEW d, NEW e, NEW l, NEW r, NEW ll, NEW rr
      PROVE  LET m == Relink(Relink(ns, down, l, r, d), up, ll, rr, e)
             IN  /\ m[down].left = l /\ m[down].right = r /\ m[up].left = ll /\ m[up].right = rr
                 /\ \A i \in 1 .. n : i \notin {down, up} => m[i] = ns[i]
  BY DEF Relink, Sound
<1> QED BY <1>1 DEF RiseRight, RiseLeft

LEMMA TreeFields == ASSUME NEW ns, NEW root PROVE Tree(ns, root).nodes = ns /\ Tree(ns, root).root = root
  BY DEF Tree

LEMMA TreeLinks ==
  ASSUME NEW n \in 0 .. IdxMax, NEW ns, NEW root
  PROVE  /\ LinksOf(n, Tree(ns, root))[TheRoot] = root
         /\ \A i \in 1 .. n : /\ LinksOf(n, Tree(ns, root))[RelaIndex(Left, i)] = ns[i].left
                              /\ LinksOf(n, Tree(ns, root))[RelaIndex(Right, i)] = ns[i].right
<1> DEFINE h == Tree(ns, root)
<1>1. h.nodes = ns /\ h.root = root
  BY TreeFields
<1> HIDE DEF h
<1>2. /\ LinksOf(n, h)[TheRoot] = h.root
      /\ \A i \in 1 .. n : /\ LinksOf(n, h)[RelaIndex(Left, i)] = h.nodes[i].left
                           /\ LinksOf(n, h)[RelaIndex(Right, i)] = h.nodes[i].right
  BY LinkValues
<1> QED BY <1>1, <1>2 DEF h

\* What RiseLeft and RiseRight do to the links.
LEMMA RiseLinks ==
  ASSUME NEW n \in 0 .. IdxMax, NEW ns, Sound(ns, n), NEW root,
         NEW down \in 1 .. n, NEW up \in 1 .. n, down # up,
         NEW link, link = LinksOf(n, Tree(ns, root))
  PROVE  /\ LinksOf(n, Tree(RiseRight(ns, down, up), root)) =
              Put(Put(link, RelaIndex(Right, down), link[RelaIndex(Left, up)]), RelaIndex(Left, up), down)
         /\ LinksOf(n, Tree(RiseLeft(ns, down, up), root)) =
              Put(Put(link, RelaIndex(Left, down), link[RelaIndex(Right, up)]), RelaIndex(Right, up), down)
<1> DEFINE f == LinksOf(n, Tree(RiseRight(ns, down, up), root))
           g == LinksOf(n, Tree(RiseLeft(ns, down, up), root))
           f2 == [[link EXCEPT ![RelaIndex(Right, down)] = link[RelaIndex(Left, up)]]
                    EXCEPT ![RelaIndex(Left, up)] = down]
           g2 == [[link EXCEPT ![RelaIndex(Left, down)] = link[RelaIndex(Right, up)]]
                    EXCEPT ![RelaIndex(Right, up)] = down]
<1>1. /\ link = [r \in SlotsOf(n) |-> link[r]]
      /\ f = [r \in SlotsOf(n) |-> f[r]]
      /\ g = [r \in SlotsOf(n) |-> g[r]]
  <2>1. \A h : LinksOf(n, h) = [r \in SlotsOf(n) |-> LinksOf(n, h)[r]]
    BY DEF LinksOf
  <2> QED BY <2>1
<1>2. /\ link[TheRoot] = root /\ f[TheRoot] = root /\ g[TheRoot] = root
      /\ \A i \in 1 .. n :
           /\ link[RelaIndex(Left, i)] = ns[i].left /\ link[RelaIndex(Right, i)] = ns[i].right
           /\ f[RelaIndex(Left, i)] = RiseRight(ns, down, up)[i].left
           /\ f[RelaIndex(Right, i)] = RiseRight(ns, down, up)[i].right
           /\ g[RelaIndex(Left, i)] = RiseLeft(ns, down, up)[i].left
           /\ g[RelaIndex(Right, i)] = RiseLeft(ns, down, up)[i].right
  BY TreeLinks
<1>3. \A s, t \in {Left, Right}, i, j \in 1 .. n :
        /\ RelaIndex(s, i) = RelaIndex(t, j) => s = t /\ i = j
        /\ RelaIndex(s, i) # TheRoot /\ RelaIndex(s, i) \in SlotsOf(n)
  BY SlotsDiffer, SideSlots
<1>4. TheRoot \in SlotsOf(n) /\ Left # Right
  BY DEF SlotsOf, Left, Right
<1> HIDE DEF f, g
<1>5. f = f2
  <2>1. f2 = [r \in SlotsOf(n) |-> f2[r]] /\ f2[TheRoot] = root
    BY <1>1, <1>2, <1>3, <1>4
  <2>2. ASSUME NEW i \in 1 .. n
        PROVE  /\ f2[RelaIndex(Left, i)] = IF i = up THEN down ELSE ns[i].left
               /\ f2[RelaIndex(Right, i)] = IF i = down THEN ns[up].left ELSE ns[i].right
    BY <1>1, <1>2, <1>3, <1>4
  <2>3. ASSUME NEW i \in 1 .. n
        PROVE  /\ f[RelaIndex(Left, i)] = IF i = up THEN down ELSE ns[i].left
               /\ f[RelaIndex(Right, i)] = IF i = down THEN ns[up].left ELSE ns[i].right
    BY <1>2, RiseFields
  <2>4. f[TheRoot] = f2[TheRoot]
    BY <1>2, <2>1
  <2> HIDE DEF f2
  <2> QED BY <1>1, <2>1, <2>2, <2>3, <2>4, SameLinks
<1>6. g = g2
  <2>1. g2 = [r \in SlotsOf(n) |-> g2[r]] /\ g2[TheRoot] = root
    BY <1>1, <1>2, <1>3, <1>4
  <2>2. ASSUME NEW i \in 1 .. n
        PROVE  /\ g2[RelaIndex(Right, i)] = IF i = up THEN down ELSE ns[i].right
               /\ g2[RelaIndex(Left, i)] = IF i = down THEN ns[up].right ELSE ns[i].left
    BY <1>1, <1>2, <1>3, <1>4
  <2>3. ASSUME NEW i \in 1 .. n
        PROVE  /\ g[RelaIndex(Right, i)] = IF i = up THEN down ELSE ns[i].right
               /\ g[RelaIndex(Left, i)] = IF i = down THEN ns[up].right ELSE ns[i].left
    BY <1>2, RiseFields
  <2>4. g[TheRoot] = g2[TheRoot]
    BY <1>2, <2>1
  <2> HIDE DEF g2
  <2> QED BY <1>1, <2>1, <2>2, <2>3, <2>4, SameLinks
<1> QED BY <1>5, <1>6 DEF f, g, f2, g2, Put

\* What setting a slot does to the links.
LEMMA SetSlotLinks ==
  ASSUME NEW n \in 0 .. IdxMax, NEW h, Sound(h.nodes, n), NEW r \in SlotsOf(n), NEW to \in 0 .. n
  PROVE  LinksOf(n, SetSlot(h, r, to)) = Put(LinksOf(n, h), r, to)
<1> DEFINE f == LinksOf(n, SetSlot(h, r, to))
           g == [LinksOf(n, h) EXCEPT ![r] = to]
<1>0. TheRoot \in SlotsOf(n) /\ Selector(TheRoot) = Root /\ Left # Right /\ Root \notin {Left, Right}
  BY RelaIndexParts, IndexAssumption DEF SlotsOf, TheRoot, Left, Right, Root
<1>1. f = [q \in SlotsOf(n) |-> f[q]] /\ g = [q \in SlotsOf(n) |-> g[q]]
  BY DEF LinksOf
<1>2. ASSUME NEW q \in SlotsOf(n) PROVE f[q] = g[q]
  <2>0. /\ f[q] = Slot(SetSlot(h, r, to), q) /\ g[q] = IF q = r THEN to ELSE Slot(h, q)
    BY DEF LinksOf
  <2>1. \A p \in SlotsOf(n) : p # TheRoot =>
          /\ Selector(p) \in {Left, Right} /\ TruIndex(p) \in 1 .. n
          /\ p = RelaIndex(Selector(p), TruIndex(p))
    BY SlotCases
  <2>2. CASE r = TheRoot
    BY <1>0, <2>0, <2>1, <2>2 DEF Slot, SetSlot
  <2>3. CASE r # TheRoot /\ Selector(r) = Left
    <3>1. SetSlot(h, r, to) = [nodes |-> SetLeft(h.nodes, TruIndex(r), to), root |-> h.root]
      BY <1>0, <2>3 DEF SetSlot
    <3>2. q # TheRoot /\ q # r /\ Selector(q) = Left => TruIndex(q) # TruIndex(r)
      BY <2>1, <2>3
    <3>3. /\ TruIndex(r) \in 1 .. n
          /\ \A i \in 1 .. n : /\ SetLeft(h.nodes, TruIndex(r), to)[i].right = h.nodes[i].right
                               /\ SetLeft(h.nodes, TruIndex(r), to)[i].left
                                    = IF i = TruIndex(r) THEN to ELSE h.nodes[i].left
      BY <2>1, <2>3 DEF SetLeft, Sound, Node
    <3> QED BY <1>0, <2>0, <2>1, <2>3, <3>1, <3>2, <3>3 DEF Slot
  <2>4. CASE r # TheRoot /\ Selector(r) = Right
    <3>1. SetSlot(h, r, to) = [nodes |-> SetRight(h.nodes, TruIndex(r), to), root |-> h.root]
      BY <1>0, <2>4 DEF SetSlot
    <3>2. q # TheRoot /\ q # r /\ Selector(q) = Right => TruIndex(q) # TruIndex(r)
      BY <2>1, <2>4
    <3>3. /\ TruIndex(r) \in 1 .. n
          /\ \A i \in 1 .. n : /\ SetRight(h.nodes, TruIndex(r), to)[i].left = h.nodes[i].left
                               /\ SetRight(h.nodes, TruIndex(r), to)[i].right
                                    = IF i = TruIndex(r) THEN to ELSE h.nodes[i].right
      BY <2>1, <2>4 DEF SetRight, Sound, Node
    <3> QED BY <1>0, <2>0, <2>1, <2>4, <3>1, <3>2, <3>3 DEF Slot
  <2> QED BY <2>1, <2>2, <2>3, <2>4
<1> HIDE DEF f, g
<1>3. f = g
  BY <1>1, <1>2
<1> QED BY <1>3 DEF f, g, Put

\* Depths are no links.
LEMMA DepthLinks ==
  ASSUME NEW n \in 0 .. IdxMax, NEW ns, Sound(ns, n), NEW i \in 1 .. n, NEW root
  PROVE  LinksOf(n, Tree(UpdateDepth(ns, i), root)) = LinksOf(n, Tree(ns, root))
<1>1. \A j \in 1 .. n : /\ UpdateDepth(ns, i)[j].left = ns[j].left
                        /\ UpdateDepth(ns, i)[j].right = ns[j].right
  BY DEF UpdateDepth, Sound, Node
<1>2. ASSUME NEW r \in SlotsOf(n)
      PROVE  Slot(Tree(UpdateDepth(ns, i), root), r) = Slot(Tree(ns, root), r)
  BY <1>1, SlotParts DEF Slot, Tree, Left, Right, Root
<1> QED BY <1>2 DEF LinksOf

\* A node's child on a side, and that child risen over it.
Child(ns, side, i) == IF side = Left THEN ns[i].left ELSE ns[i].right

Rise(ns, side, down, up) == IF side = Left THEN RiseLeft(ns, down, up) ELSE RiseRight(ns, down, up)

LEMMA SideRises ==
  ASSUME NEW n \in 0 .. IdxMax, NEW ns, Sound(ns, n), NEW root, NEW side \in {Left, Right},
         NEW down \in 1 .. n, NEW up \in 1 .. n, down # up,
         NEW link, link = LinksOf(n, Tree(ns, root))
  PROVE  /\ Sound(Rise(ns, side, down, up), n)
         /\ LinksOf(n, Tree(Rise(ns, side, down, up), root)) =
              Put(Put(link, RelaIndex(side, down), link[RelaIndex(Other(side), up)]),
                  RelaIndex(Other(side), up), down)
<1>1. CASE side = Left
  <2>1. Other(side) = Right /\ Rise(ns, side, down, up) = RiseLeft(ns, down, up)
    BY <1>1 DEF Other, Rise
  <2> QED BY <1>1, <2>1, RiseSound, RiseLinks
<1>2. CASE side = Right
  <2>1. Other(side) = Left /\ Rise(ns, side, down, up) = RiseRight(ns, down, up)
    BY <1>2 DEF Other, Rise, Left, Right
  <2> QED BY <1>2, <2>1, RiseSound, RiseLinks
<1> QED BY <1>1, <1>2

\* The turn at slot r, in the nodes and with the slot set.
LEMMA TurnLinks ==
  ASSUME NEW n, NEW ns, Sound(ns, n), NEW root, NEW key, NEW span, NEW link,
         link = LinksOf(n, Tree(ns, root)), SearchTree(n, key, link, span),
         NEW r \in SlotsOf(n), NEW side \in {Left, Right}, link[r] # 0,
         NEW up \in 1 .. n, up = Child(ns, side, link[r]),
         NEW ms, ms = Rise(ns, side, link[r], up)
  PROVE  /\ Rehung(n, key, link, span, r, Turn(link, r, side), Turned(key, link, span, r, side))
         /\ Sound(ms, n) /\ link[RelaIndex(side, link[r])] = up
         /\ Turn(link, r, side) = LinksOf(n, SetSlot(Tree(ms, root), r, up))
         /\ Turn(link, r, side) = LinksOf(n, SetSlot(Tree(UpdateDepth(ms, up), root), r, up))
<1> DEFINE i == link[r]
           a == RelaIndex(side, i)
           b == RelaIndex(Other(side), up)
           h == Tree(ms, root)
           g == Tree(UpdateDepth(ms, up), root)
<1>0. n \in 0 .. IdxMax /\ link \in [SlotsOf(n) -> 0 .. n] /\ i \in 1 .. n
  BY DEF SearchTree
<1>1. link[a] = up
  BY <1>0, TreeLinks DEF Child, Left, Right
<1>2. /\ Rehung(n, key, link, span, r, Turn(link, r, side), Turned(key, link, span, r, side))
      /\ a # b
  BY <1>1, TurnHolds
<1>3. /\ a \in SlotsOf(n) /\ a # r /\ key[i] \notin Room(key, span, a) /\ key[i] \in Room(key, span, r)
      /\ b \in SlotsOf(n) /\ Room(key, span, b) \subseteq Room(key, span, a)
      /\ key[up] \in Room(key, span, a)
  <2>1. /\ a \in SlotsOf(n) /\ a # r /\ key[i] \notin Room(key, span, a) /\ key[i] \in Room(key, span, r)
    BY RoomAround
  <2>2. Other(side) \in {Left, Right}
    BY DEF Other, Left, Right
  <2> HIDE DEF a
  <2>3. /\ key[link[a]] \in Room(key, span, a)
        /\ Room(key, span, RelaIndex(Other(side), link[a])) \subseteq Room(key, span, a)
        /\ RelaIndex(Other(side), link[a]) \in SlotsOf(n)
    BY <1>1, <2>1, <2>2, RoomAround
  <2> QED BY <1>1, <2>1, <2>3
<1>4. b # r /\ i # up
  BY <1>3
<1>5. Sound(ms, n) /\ LinksOf(n, h) = Put(Put(link, a, link[b]), b, i)
  BY <1>0, <1>4, SideRises
<1>6. Sound(UpdateDepth(ms, up), n) /\ LinksOf(n, g) = LinksOf(n, h)
  BY <1>0, <1>5, UpdateDepthSound, DepthLinks
<1>7. g.nodes = UpdateDepth(ms, up) /\ h.nodes = ms
  BY TreeFields
<1>8. Turn(link, r, side) = [link EXCEPT ![r] = up, ![a] = link[b], ![b] = i]
  BY <1>1 DEF Turn
<1> HIDE DEF g, h, a, b, i
<1>9. /\ LinksOf(n, SetSlot(g, r, up)) = Put(LinksOf(n, g), r, up)
      /\ LinksOf(n, SetSlot(h, r, up)) = Put(LinksOf(n, h), r, up)
  <2>1. up \in 0 .. n
    BY <1>0
  <2>2. Sound(g.nodes, n) /\ Sound(h.nodes, n)
    BY <1>5, <1>6, <1>7
  <2> QED BY <1>0, <2>1, <2>2, SetSlotLinks
<1>10. Put(Put(Put(link, a, link[b]), b, i), r, up) = [link EXCEPT ![r] = up, ![a] = link[b], ![b] = i]
  BY <1>0, <1>2, <1>3, <1>4 DEF Put
<1>11. Turn(link, r, side) = LinksOf(n, SetSlot(h, r, up)) /\ Turn(link, r, side) = LinksOf(n, SetSlot(g, r, up))
  BY <1>5, <1>6, <1>8, <1>9, <1>10
<1> QED BY <1>1, <1>2, <1>5, <1>11 DEF g, h, a, i

\* Whatever a rebalancing does at slot r, it leaves a search tree, and what
\* is above that slot as it was.
LEMMA FixUpKeepsTree ==
  ASSUME NEW n, NEW h, Sound(h.nodes, n), h.root \in 0 .. n, NEW key, NEW span, NEW link,
         link = LinksOf(n, h), SearchTree(n, key, link, span),
         NEW r \in SlotsOf(n), link[r] # 0
  PROVE  \E span2 : Rehung(n, key, link, span, r, LinksOf(n, FixedUp(h, r, link[r])), span2)
<1> DEFINE ns == h.nodes
           root == h.root
           i == link[r]
           Done(ms, top) == \E span2 :
             Rehung(n, key, link, span, r,
                    LinksOf(n, SetSlot(Tree(UpdateDepth(ms, top), root), r, top)), span2)
<1>0. n \in 0 .. IdxMax /\ n \in Nat /\ i \in 1 .. n /\ link \in [SlotsOf(n) -> 0 .. n]
  BY IndexAssumption DEF SearchTree
<1>1. link = LinksOf(n, Tree(ns, root))
  BY DEF LinksOf, Slot, Tree
<1>2. FixedUp(h, r, i) =
        SetSlot(Tree(UpdateDepth(Rebalance(ns, i).nodes, Rebalance(ns, i).top), root), r, Rebalance(ns, i).top)
  BY DEF FixedUp, Tree
<1>3. SUFFICES Done(Rebalance(ns, i).nodes, Rebalance(ns, i).top)
  BY <1>2
<1> HIDE DEF ns, root, i
<1>s. Sound(ns, n)
  BY DEF ns
<1>c. ~ChildMissing(ns, i)
  BY <1>0, <1>s, NoChildMissing
\* The turn that ends a rebalancing, from the nodes and links before it.
<1>4. ASSUME NEW side \in {Left, Right}, NEW ms, Sound(ms, n), Child(ms, side, i) # 0,
             NEW link1, link1 = LinksOf(n, Tree(ms, root)), link1[r] = i,
             NEW span1, Rehung(n, key, link, span, r, link1, span1)
      PROVE  Done(Rise(ms, side, i, Child(ms, side, i)), Child(ms, side, i))
  <2> DEFINE up == Child(ms, side, i)
             ms2 == Rise(ms, side, i, up)
             link2 == LinksOf(n, SetSlot(Tree(UpdateDepth(ms2, up), root), r, up))
             span2 == Turned(key, link1, span1, r, side)
  <2>1. up \in 1 .. n
    BY <1>0, <1>4, NodeFields DEF Child
  <2>2. SearchTree(n, key, link1, span1) /\ link1[r] # 0
    BY <1>4 DEF Rehung
  <2>3. up = Child(ms, side, link1[r]) /\ ms2 = Rise(ms, side, link1[r], up)
    BY <1>4
  <2> HIDE DEF up, ms2
  <2>4. /\ Rehung(n, key, link1, span1, r, Turn(link1, r, side), span2)
        /\ Turn(link1, r, side) = link2
    BY <1>4, <2>1, <2>2, <2>3, TurnLinks
  <2> HIDE DEF link2, span2
  <2>5. Rehung(n, key, link, span, r, link2, span2)
    BY <1>4, <2>4, RehungTwice
  <2>6. Done(ms2, up)
    BY <2>5 DEF link2
  <2> QED BY <2>6 DEF up, ms2
<1>5. Rehung(n, key, link, span, r, link, span)
  BY DEF Rehung
\* The turn of a child before it.
<1>6. ASSUME NEW s \in {Left, Right}, NEW side \in {Left, Right}, side = Other(s),
             Child(ns, s, i) # 0, Child(ns, side, Child(ns, s, i)) # 0,
             NEW ms, ms = SetSlot(Tree(Rise(ns, side, Child(ns, s, i), Child(ns, side, Child(ns, s, i))), root),
                                  RelaIndex(s, i), Child(ns, side, Child(ns, s, i))).nodes,
             SetSlot(Tree(Rise(ns, side, Child(ns, s, i), Child(ns, side, Child(ns, s, i))), root),
                                  RelaIndex(s, i), Child(ns, side, Child(ns, s, i))) = Tree(ms, root)
      PROVE  \E link1, span1 : /\ link1 = LinksOf(n, Tree(ms, root)) /\ link1[r] = i
                               /\ Rehung(n, key, link, span, r, link1, span1)
                               /\ Sound(ms, n) /\ Child(ms, s, i) # 0
  <2> DEFINE c == Child(ns, s, i)
             up == Child(ns, side, c)
             q == RelaIndex(s, i)
             us == Rise(ns, side, c, up)
             link1 == Turn(link, q, side)
             span1 == Turned(key, link, span, q, side)
  <2>1. c \in 1 .. n
    BY <1>0, <1>6, <1>s, NodeFields DEF Child
  <2> HIDE DEF c
  <2>2. up \in 1 .. n
    <3>1. up # 0
      BY <1>6 DEF c
    <3>2. ns[c].left \in 0 .. n /\ ns[c].right \in 0 .. n
      BY <1>0, <1>s, <2>1, NodeFields
    <3> QED BY <1>0, <3>1, <3>2 DEF Child
  <2>3. q \in SlotsOf(n) /\ link[q] = c
    <3>1. q \in SlotsOf(n)
      BY <1>0, SideSlots
    <3>2. /\ LinksOf(n, Tree(ns, root))[RelaIndex(Left, i)] = ns[i].left
          /\ LinksOf(n, Tree(ns, root))[RelaIndex(Right, i)] = ns[i].right
      BY <1>0, TreeLinks
    <3> QED BY <1>1, <3>1, <3>2 DEF Child, c, Left, Right
  <2>4. ms = SetSlot(Tree(us, root), q, up).nodes /\ SetSlot(Tree(us, root), q, up) = Tree(ms, root)
    BY <1>6 DEF c
  <2>5. link[q] # 0 /\ up = Child(ns, side, link[q]) /\ us = Rise(ns, side, link[q], up)
    BY <2>1, <2>3
  <2> HIDE DEF up, us, q
  <2>6. /\ Sound(us, n) /\ link[RelaIndex(side, link[q])] = up
        /\ link1 = LinksOf(n, SetSlot(Tree(us, root), q, up))
    BY <1>1, <1>s, <2>2, <2>3, <2>5, TurnLinks
  <2>7. /\ Rehung(n, key, link, span, r, link1, span1) /\ link1[r] = i
        /\ link1[q] = up
    <3>1. link[r] # 0 /\ q = RelaIndex(s, link[r])
      BY <1>0 DEF i, q
    <3>2. link[RelaIndex(s, link[r])] # 0 /\ link[RelaIndex(side, link[RelaIndex(s, link[r])])] # 0
      BY <2>2, <2>5, <2>6, <3>1
    <3>3. /\ Rehung(n, key, link, span, r, Turn(link, RelaIndex(s, link[r]), side),
                   Turned(key, link, span, RelaIndex(s, link[r]), side))
          /\ Turn(link, RelaIndex(s, link[r]), side)[r] = link[r]
          /\ Turn(link, RelaIndex(s, link[r]), side)[RelaIndex(s, link[r])]
               = link[RelaIndex(side, link[RelaIndex(s, link[r])])]
      BY <3>2, InnerTurn
    <3> QED BY <2>6, <3>1, <3>3 DEF i
  <2>8. link1 = LinksOf(n, Tree(ms, root))
    BY <2>4, <2>6
  <2>9. Sound(ms, n)
    <3>1. root \in 0 .. n /\ up \in 0 .. n
      BY <2>2 DEF root
    <3>2. Tree(us, root).nodes = us /\ Tree(us, root).root = root
      BY TreeFields
    <3> QED BY <1>0, <2>3, <2>4, <2>6, <3>1, <3>2, SetSlotSound
  <2>10. Child(ms, s, i) # 0
    <3>1. link1[q] = Child(ms, s, i)
      BY <1>0, <2>8, TreeLinks DEF q, Child, Left, Right
    <3> QED BY <2>2, <2>7, <3>1
  <2> HIDE DEF link1, span1
  <2> QED BY <2>7, <2>8, <2>9, <2>10
<1>7. CASE LeansLeft(ns, i)
  <2> DEFINE l == ns[i].left
  <2>0. l = Child(ns, Left, i) /\ l # 0 /\ Right = Other(Left) /\ Right # Left
    BY <1>7, <1>c DEF ChildMissing, Child, Other, Left, Right
  <2>1. CASE BalanceFactor(ns, l) < 0
    <3> DEFINE u == ns[l].right
               ms == RotateLeft(ns, i)
    <3>1. u = Child(ns, Right, l) /\ u # 0
      BY <1>7, <1>c, <2>0, <2>1 DEF ChildMissing, Child
    <3>2. SetSlot(Tree(Rise(ns, Right, l, u), root), RelaIndex(Left, i), u) = Tree(ms, root)
      BY <1>0, SideSlots DEF SetSlot, Tree, Rise, RotateLeft, Left, Right, Root
    <3>3. Tree(ms, root).nodes = ms
      BY TreeFields
    <3>4. Rebalance(ns, i) = TurnRight(ms, i)
      BY <1>7, <2>1 DEF Rebalance
    <3> HIDE DEF l, u, ms
    <3>5. PICK link1, span1 : /\ link1 = LinksOf(n, Tree(ms, root)) /\ link1[r] = i
                              /\ Rehung(n, key, link, span, r, link1, span1)
                              /\ Sound(ms, n) /\ Child(ms, Left, i) # 0
      BY <1>6, <2>0, <3>1, <3>2, <3>3
    <3>6. Done(Rise(ms, Left, i, Child(ms, Left, i)), Child(ms, Left, i))
      BY <1>4, <3>5
    <3>7. /\ Rebalance(ns, i).nodes = Rise(ms, Left, i, Child(ms, Left, i))
          /\ Rebalance(ns, i).top = Child(ms, Left, i)
      BY <3>4 DEF TurnRight, Rise, Child
    <3> QED BY <3>6, <3>7
  <2>2. CASE ~(BalanceFactor(ns, l) < 0)
    <3>1. Done(Rise(ns, Left, i, Child(ns, Left, i)), Child(ns, Left, i))
      BY <1>1, <1>4, <1>5, <1>s, <2>0 DEF i
    <3>2. /\ Rebalance(ns, i).nodes = Rise(ns, Left, i, Child(ns, Left, i))
          /\ Rebalance(ns, i).top = Child(ns, Left, i)
      BY <1>7, <2>2 DEF Rebalance, TurnRight, Rise, Child
    <3> QED BY <3>1, <3>2
  <2> QED BY <2>1, <2>2
<1>8. CASE ~LeansLeft(ns, i) /\ LeansRight(ns, i)
  <2> DEFINE l == ns[i].right
  <2>0. l = Child(ns, Right, i) /\ l # 0 /\ Left = Other(Right) /\ Right # Left
    BY <1>8, <1>c DEF ChildMissing, Child, Other, Left, Right
  <2>1. CASE BalanceFactor(ns, l) > 0
    <3> DEFINE u == ns[l].left
               ms == RotateRight(ns, i)
    <3>1. u = Child(ns, Left, l) /\ u # 0
      BY <1>8, <1>c, <2>0, <2>1 DEF ChildMissing, Child
    <3>2. SetSlot(Tree(Rise(ns, Left, l, u), root), RelaIndex(Right, i), u) = Tree(ms, root)
      BY <1>0, SideSlots DEF SetSlot, Tree, Rise, RotateRight, Left, Right, Root
    <3>3. Tree(ms, root).nodes = ms
      BY TreeFields
    <3>4. Rebalance(ns, i) = TurnLeft(ms, i)
      BY <1>8, <2>1 DEF Rebalance
    <3> HIDE DEF l, u, ms
    <3>5. PICK link1, span1 : /\ link1 = LinksOf(n, Tree(ms, root)) /\ link1[r] = i
                              /\ Rehung(n, key, link, span, r, link1, span1)
                              /\ Sound(ms, n) /\ Child(ms, Right, i) # 0
      BY <1>6, <2>0, <3>1, <3>2, <3>3
    <3>6. Done(Rise(ms, Right, i, Child(ms, Right, i)), Child(ms, Right, i))
      BY <1>4, <3>5
    <3>7. /\ Rebalance(ns, i).nodes = Rise(ms, Right, i, Child(ms, Right, i))
          /\ Rebalance(ns, i).top = Child(ms, Right, i)
      BY <2>0, <3>4 DEF TurnLeft, Rise, Child
    <3> QED BY <3>6, <3>7
  <2>2. CASE ~(BalanceFactor(ns, l) > 0)
    <3>1. Done(Rise(ns, Right, i, Child(ns, Right, i)), Child(ns, Right, i))
      BY <1>1, <1>4, <1>5, <1>s, <2>0 DEF i
    <3>2. /\ Rebalance(ns, i).nodes = Rise(ns, Right, i, Child(ns, Right, i))
          /\ Rebalance(ns, i).top = Child(ns, Right, i)
      BY <1>8, <2>0, <2>2 DEF Rebalance, TurnLeft, Rise, Child
    <3> QED BY <3>1, <3>2
  <2> QED BY <2>1, <2>2
<1>9. CASE ~LeansLeft(ns, i) /\ ~LeansRight(ns, i)
  <2>1. Rebalance(ns, i).nodes = ns /\ Rebalance(ns, i).top = i
    BY <1>9 DEF Rebalance
  <2>2. LinksOf(n, Tree(UpdateDepth(ns, i), root)) = link /\ Sound(UpdateDepth(ns, i), n)
    BY <1>0, <1>1, <1>s, DepthLinks, UpdateDepthSound
  <2> DEFINE g == Tree(UpdateDepth(ns, i), root)
  <2>3. g.nodes = UpdateDepth(ns, i)
    BY TreeFields
  <2> HIDE DEF g
  <2>4. LinksOf(n, SetSlot(g, r, i)) = Put(LinksOf(n, g), r, i)
    <3>1. i \in 0 .. n /\ Sound(g.nodes, n)
      BY <1>0, <2>2, <2>3
    <3> QED BY <1>0, <3>1, SetSlotLinks
  <2>5. Put(link, r, i) = link
    BY <1>0 DEF Put, i
  <2>6. LinksOf(n, SetSlot(g, r, i)) = link
    BY <2>2, <2>4, <2>5 DEF g
  <2> QED BY <1>5, <2>1, <2>6 DEF g
<1> QED BY <1>7, <1>8, <1>9

-----------------------------------------------------------------------------
(* Induction, over sets of naturals. *)

\* A set of naturals has a least element.
LEMMA LeastIn ==
  ASSUME NEW T \in SUBSET Nat, T # {}
  PROVE  \E m \in T : \A k \in T : m <= k
<1>1. \E m \in T : \A k \in T : <<k, m>> \notin OpToRel(<, Nat)
  BY NatLessThanWellFounded, WFMin, Zenon
<1>2. PICK m \in T : \A k \in T : <<k, m>> \notin OpToRel(<, Nat)
  BY <1>1
<1>3. ASSUME NEW k \in T, k < m PROVE FALSE
  <2>1. <<k, m>> \in Nat \X Nat /\ <<k, m>>[1] < <<k, m>>[2]
    BY <1>3
  <2>2. <<k, m>> \in OpToRel(<, Nat)
    BY <2>1 DEF OpToRel
  <2> QED BY <1>2, <2>2
<1> QED BY <1>3

\* Induction up to n, over a set.
LEMMA Upwards ==
  ASSUME NEW n \in Nat, NEW P \in SUBSET (0 .. n),
         0 \in P, \A m \in 0 .. n - 1 : m \in P => m + 1 \in P
  PROVE  P = 0 .. n
<1> DEFINE T == (0 .. n) \ P
<1>1. SUFFICES ASSUME T # {} PROVE FALSE
  OBVIOUS
<1>2. T \in SUBSET Nat
  OBVIOUS
<1>3. PICK m \in T : \A k \in T : m <= k
  <2> HIDE DEF T
  <2> QED BY <1>1, <1>2, LeastIn
<1>4. m # 0 /\ m - 1 \in P
  BY <1>3
<1> QED BY <1>3, <1>4

\* f is what n rounds of g make of s.
Rounds(f, n, S, s, g) ==
  /\ f \in [0 .. n -> S]
  /\ f[0] = s /\ \A m \in 1 .. n : f[m] = g[f[m - 1]]

\* A function can be iterated as often as one likes.
LEMMA Iterated ==
  ASSUME NEW S, NEW s \in S, NEW g \in [S -> S], NEW n \in Nat
  PROVE  \E f : Rounds(f, n, S, s, g)
<1> DEFINE Upto(f, k) == f[0] = s /\ \A m \in 1 .. k : f[m] = g[f[m - 1]]
           P == {k \in 0 .. n : \E f \in [0 .. k -> S] : Upto(f, k)}
<1>1. 0 \in P
  <2> DEFINE f == [k \in 0 .. 0 |-> s]
  <2>1. f \in [0 .. 0 -> S] /\ Upto(f, 0)
    OBVIOUS
  <2> HIDE DEF f, Upto
  <2>2. \E e \in [0 .. 0 -> S] : Upto(e, 0)
    BY <2>1
  <2> QED BY <2>2
<1>2. ASSUME NEW m \in 0 .. n - 1, m \in P PROVE m + 1 \in P
  <2>1. PICK f \in [0 .. m -> S] : Upto(f, m)
    BY <1>2
  <2> DEFINE e == [k \in 0 .. m + 1 |-> IF k = m + 1 THEN g[f[m]] ELSE f[k]]
  <2>2. e \in [0 .. m + 1 -> S] /\ Upto(e, m + 1)
    BY <2>1
  <2>3. m + 1 \in 0 .. n
    OBVIOUS
  <2> HIDE DEF e, Upto
  <2> QED BY <2>2, <2>3
<1>3. P \in SUBSET (0 .. n)
  OBVIOUS
<1>4. n \in P
  <2> HIDE DEF P
  <2> QED BY <1>1, <1>2, <1>3, Upwards
<1> QED BY <1>4 DEF Rounds

-----------------------------------------------------------------------------
(* A node comes to the tree. *)

\* How the keys and the links change when a node for key k comes to an empty
\* slot with room for it.
Grows(n, key, link, span, at, k, key2, link2) ==
  /\ n < IdxMax /\ at \in SlotsOf(n) /\ link[at] = 0 /\ k \in Room(key, span, at)
  /\ key2 \in [1 .. n + 1 -> Keys] /\ key2[n + 1] = k /\ \A j \in 1 .. n : key2[j] = key[j]
  /\ link2 \in [SlotsOf(n + 1) -> 0 .. n + 1] /\ link2[at] = n + 1
  /\ \A q \in SlotsOf(n) : q # at => link2[q] = link[q]
  /\ \A q \in SlotsOf(n + 1) \ SlotsOf(n) : link2[q] = 0

\* A new node in an empty slot whose room its key is in.
LEMMA PlaceKeepsTree ==
  ASSUME NEW n, NEW key, NEW link, NEW span, SearchTree(n, key, link, span),
         NEW at, NEW k, NEW key2, NEW link2, Grows(n, key, link, span, at, k, key2, link2)
  PROVE  \E span2 : /\ SearchTree(n + 1, key2, link2, span2)
                    /\ \A q \in SlotsOf(n) : Room(key2, span2, q) = Room(key, span, q)
<1> USE DEF Grows
<1> DEFINE n2    == n + 1
           R(q)  == Room(key, span, q)
           span2 == [i \in 1 .. n2 |-> IF i = n2 THEN R(at) ELSE span[i]]
           S(q)  == Room(key2, span2, q)
<1>0. /\ n \in 0 .. IdxMax /\ n \in Nat /\ n2 \in 1 .. IdxMax /\ n2 \in 0 .. IdxMax /\ n2 \in 1 .. n2 /\ key \in [1 .. n -> Keys]
      /\ link \in [SlotsOf(n) -> 0 .. n] /\ span \in [1 .. n -> SUBSET Keys]
      /\ SlotsOf(n) \subseteq SlotsOf(n2) /\ 1 .. n2 = (1 .. n) \cup {n2} /\ n2 \notin 1 .. n
  BY IndexAssumption, SlotsGrow DEF SearchTree, Spanned
<1>1. R(at) \subseteq Keys /\ k \in Keys
  <2>1. CASE at = TheRoot
    BY <2>1 DEF Room
  <2>2. CASE at # TheRoot
    BY <1>0, <2>2, SlotCases DEF Room
  <2> QED BY <2>1, <2>2
<1>2. span2 \in [1 .. n2 -> SUBSET Keys] /\ span2[n2] = R(at) /\ \A i \in 1 .. n : span2[i] = span[i]
  BY <1>0, <1>1
<1> HIDE DEF R, S, span2
\* No key is in the room of the empty slot.
<1>3. \A j \in 1 .. n : key[j] \notin R(at)
  BY DEF SearchTree, Filled, R
<1>4. \A q \in SlotsOf(n) : S(q) = R(q)
  <2> SUFFICES ASSUME NEW q \in SlotsOf(n) PROVE S(q) = R(q)
    OBVIOUS
  <2>1. CASE q = TheRoot
    BY <2>1 DEF S, R, Room
  <2>2. CASE q # TheRoot
    <3>1. TruIndex(q) \in 1 .. n
      BY <1>0, <2>2, SlotCases
    <3> QED BY <2>2, <3>1, <1>2 DEF S, R, Room
  <2> QED BY <2>1, <2>2
<1>5. \A q \in SlotsOf(n2) \ SlotsOf(n) : S(q) \subseteq R(at) /\ k \notin S(q)
  <2> SUFFICES ASSUME NEW q \in SlotsOf(n2), q \notin SlotsOf(n) PROVE S(q) \subseteq R(at) /\ k \notin S(q)
    OBVIOUS
  <2>1. q # TheRoot
    BY <1>0, RootIsSlot
  <2>2. /\ Selector(q) \in {Left, Right} /\ TruIndex(q) \in 1 .. n2
        /\ q = RelaIndex(Selector(q), TruIndex(q))
    BY <1>0, <2>1, SlotCases
  <2>3. TruIndex(q) = n2
    <3>1. TruIndex(q) \notin 1 .. n
      BY <1>0, <2>2, SideSlots
    <3> QED BY <1>0, <2>2, <3>1
  <2>4. S(q) = {x \in R(at) : Beyond(Selector(q), x, k)}
    BY <1>2, <2>1, <2>3 DEF S, Room
  <2> QED BY <1>1, <2>2, <2>4, Sides
<1>6. \A p, q \in SlotsOf(n2) \ SlotsOf(n) : p # q => S(p) \cap S(q) = {}
  <2> SUFFICES ASSUME NEW p \in SlotsOf(n2) \ SlotsOf(n), NEW q \in SlotsOf(n2) \ SlotsOf(n), p # q
               PROVE  S(p) \cap S(q) = {}
    OBVIOUS
  <2>1. ASSUME NEW v \in SlotsOf(n2) \ SlotsOf(n)
        PROVE  /\ Selector(v) \in {Left, Right} /\ v = RelaIndex(Selector(v), n2)
               /\ S(v) = {x \in R(at) : Beyond(Selector(v), x, k)}
    <3>1. v # TheRoot
      BY <1>0, RootIsSlot
    <3>2. /\ Selector(v) \in {Left, Right} /\ TruIndex(v) \in 1 .. n2
          /\ v = RelaIndex(Selector(v), TruIndex(v))
      BY <1>0, <3>1, SlotCases
    <3>3. TruIndex(v) = n2
      <4>1. TruIndex(v) \notin 1 .. n
        BY <1>0, <3>2, SideSlots
      <4> QED BY <1>0, <3>2, <4>1
    <3>4. S(v) = {x \in R(at) : Beyond(Selector(v), x, k)}
      BY <1>2, <3>1, <3>3 DEF S, Room
    <3> QED BY <3>2, <3>3, <3>4
  <2>2. Selector(q) = Other(Selector(p)) /\ Selector(p) \in {Left, Right}
    BY <2>1 DEF Other
  <2>3. ASSUME NEW x \in S(p), x \in S(q) PROVE FALSE
    <3>1. Beyond(Selector(p), x, k) /\ Beyond(Selector(q), x, k) /\ x \in Keys
      BY <2>1, <2>3, <1>1
    <3> QED BY <1>1, <2>2, <3>1, Sides
  <2> QED BY <2>3
<1>7. Spanned(n2, key2, span2)
  <2>1. \A i \in 1 .. n2 : key2[i] \in span2[i]
    BY <1>0, <1>2 DEF SearchTree, Spanned, R
  <2>2. ASSUME NEW i \in 1 .. n2, NEW x \in span2[i], NEW y \in span2[i], NEW z \in Keys, x < z, z < y
        PROVE  z \in span2[i]
    <3>0. \A j \in 1 .. n : \A v, w \in span[j] : v < z /\ z < w => z \in span[j]
      BY DEF SearchTree, Spanned
    <3>1. CASE i = n2 /\ at = TheRoot
      BY <1>2, <3>1 DEF R, Room
    <3>2. CASE i = n2 /\ at # TheRoot
      <4> DEFINE j == TruIndex(at)
                 s == Selector(at)
      <4>1. j \in 1 .. n /\ s \in {Left, Right}
        BY <1>0, <3>2, SlotCases
      <4>2. span2[i] = {v \in span[j] : Beyond(s, v, key[j])}
        BY <1>2, <3>2 DEF R, Room
      <4> HIDE DEF j, s
      <4>3. z \in span[j] /\ Beyond(s, x, key[j]) /\ Beyond(s, y, key[j])
        BY <2>2, <3>0, <4>1, <4>2
      <4>4. x \in Int /\ y \in Int /\ z \in Int /\ key[j] \in Int
        BY <1>0, <1>2, <4>1, IndexAssumption
      <4>5. Beyond(s, z, key[j])
        BY <2>2, <4>3, <4>4 DEF Beyond
      <4> QED BY <4>2, <4>3, <4>5
    <3>3. CASE i # n2
      BY <1>0, <1>2, <2>2, <3>0, <3>3
    <3> QED BY <3>1, <3>2, <3>3
  <2> QED BY <1>2, <2>1, <2>2 DEF Spanned
<1>8. Hung(n2, key2, link2, span2)
  <2> SUFFICES ASSUME NEW q \in SlotsOf(n2), link2[q] # 0 PROVE span2[link2[q]] = S(q)
    BY DEF Hung, S
  <2>1. q \in SlotsOf(n)
    OBVIOUS
  <2>2. CASE q = at
    BY <1>2, <1>4, <2>2
  <2>3. CASE q # at
    BY <1>0, <1>2, <1>4, <2>1, <2>3 DEF SearchTree, Hung, R
  <2> QED BY <2>2, <2>3
<1>a. \A p, q \in SlotsOf(n) : p # q /\ link[p] = 0 /\ link[q] = 0 => R(p) \cap R(q) = {}
  BY DEF SearchTree, Apart, R
<1>9. Filled(n2, key2, link2, span2)
  <2> SUFFICES ASSUME NEW q \in SlotsOf(n2), NEW j \in 1 .. n2, key2[j] \in S(q), link2[q] = 0 PROVE FALSE
    BY DEF Filled, S
  <2>1. q # at
    BY <1>0
  <2>2. CASE q \in SlotsOf(n)
    <3>1. link[q] = 0 /\ S(q) = R(q)
      BY <1>4, <2>1, <2>2
    <3>2. CASE j = n2
      BY <1>a, <2>1, <2>2, <3>1, <3>2 DEF R
    <3>3. CASE j # n2
      BY <1>0, <2>2, <3>1, <3>3 DEF SearchTree, Filled, R
    <3> QED BY <3>2, <3>3
  <2>3. CASE q \notin SlotsOf(n)
    BY <1>0, <1>3, <1>5, <2>3
  <2> QED BY <2>2, <2>3
<1>10. Apart(n2, key2, link2, span2)
  <2> SUFFICES ASSUME NEW p \in SlotsOf(n2), NEW q \in SlotsOf(n2), p # q, link2[p] = 0, link2[q] = 0
               PROVE  S(p) \cap S(q) = {}
    BY DEF Apart, S
  <2>1. p # at /\ q # at
    BY <1>0
  <2>2. CASE p \in SlotsOf(n) /\ q \in SlotsOf(n)
    BY <1>4, <1>a, <2>1, <2>2
  <2>3. CASE p \in SlotsOf(n) /\ q \notin SlotsOf(n)
    BY <1>4, <1>5, <1>a, <2>1, <2>3
  <2>4. CASE p \notin SlotsOf(n) /\ q \in SlotsOf(n)
    BY <1>4, <1>5, <1>a, <2>1, <2>4
  <2>5. CASE p \notin SlotsOf(n) /\ q \notin SlotsOf(n)
    BY <1>6, <2>5
  <2> QED BY <2>2, <2>3, <2>4, <2>5
<1>11. OneWay(n2, key2, span2)
  <2> SUFFICES ASSUME NEW i \in 1 .. n2, NEW j \in 1 .. n2, key2[j] \in span2[i], key2[i] \in span2[j], i # j
               PROVE  FALSE
    BY DEF OneWay
  <2>1. CASE i = n2
    BY <1>0, <1>2, <1>3, <2>1
  <2>2. CASE j = n2
    BY <1>0, <1>2, <1>3, <2>2
  <2>3. CASE i # n2 /\ j # n2
    BY <1>0, <1>2, <2>3 DEF SearchTree, OneWay
  <2> QED BY <2>1, <2>2, <2>3
<1>12. Once(n2, link2)
  <2>0. /\ \A p, q \in SlotsOf(n) : link[p] = link[q] /\ link[p] # 0 => p = q
        /\ \A i \in 1 .. n : \E q \in SlotsOf(n) : link[q] = i
    BY DEF SearchTree, Once
  <2>1. ASSUME NEW p \in SlotsOf(n2), NEW q \in SlotsOf(n2), link2[p] = link2[q], link2[p] # 0
        PROVE  p = q
    <3>1. p \in SlotsOf(n) /\ q \in SlotsOf(n)
      BY <2>1
    <3> QED BY <1>0, <2>0, <2>1, <3>1
  <2>2. ASSUME NEW i \in 1 .. n2 PROVE \E q \in SlotsOf(n2) : link2[q] = i
    <3>1. CASE i = n2
      BY <1>0, <3>1
    <3>2. CASE i # n2
      <4>1. PICK q \in SlotsOf(n) : link[q] = i
        BY <1>0, <2>0, <3>2
      <4> QED BY <1>0, <3>2, <4>1
    <3> QED BY <3>1, <3>2
  <2> QED BY <2>1, <2>2 DEF Once
<1>13. SearchTree(n2, key2, link2, span2)
  BY <1>0, <1>7, <1>8, <1>9, <1>10, <1>11, <1>12 DEF SearchTree
<1> QED BY <1>4, <1>13 DEF S, R

-----------------------------------------------------------------------------
(* The calls. *)

\* The slots still to be fixed up are filled, each one above those after it.
Path(key, link, span, b) ==
  \A m \in DOMAIN b :
    /\ link[b[m]] # 0
    /\ \A l \in DOMAIN b : m < l => Above(key, span, b[m], b[l])

\* The call in progress stands where its key belongs.
CallFits(n, key, link, span) ==
  /\ op.pc = "search" =>
       IF op.at = 0 THEN \A i \in 1 .. n : key[i] # op.key ELSE op.key \in span[op.at]
  /\ op.pc = "descend" =>
       /\ op.key \in Room(key, span, op.at) /\ Path(key, link, span, op.branch)
       /\ \A m \in DOMAIN op.branch : Above(key, span, op.branch[m], op.at)
  /\ op.pc = "fixup" => Path(key, link, span, op.branch)

\* The tree as it is now.
Keyed  == KeysOf(Used, hash)
Linked == LinksOf(Used, hash)

\* The inductive invariant.
TreeInv ==
  /\ Inv /\ fault # "empty slot"
  /\ \E span : SearchTree(Used, Keyed, Linked, span) /\ CallFits(Used, Keyed, Linked, span)

LEMMA TypedTree ==
  ASSUME Inv
  PROVE  /\ Used \in 0 .. IdxMax /\ Used \in Nat /\ Sound(hash.nodes, Used) /\ hash.root \in 0 .. Used
         /\ Keyed \in [1 .. Used -> Keys] /\ Linked \in [SlotsOf(Used) -> 0 .. Used]
         /\ \A i \in 1 .. Used : Keyed[i] = hash.nodes[i].key
         /\ \A r \in SlotsOf(Used) : Linked[r] = Slot(hash, r)
<1>1. Used \in 0 .. IdxMax /\ Used \in Nat /\ Sound(hash.nodes, Used) /\ hash.root \in 0 .. Used
  <2>1. TypeOK
    BY DEF Inv
  <2>2. Used \in 0 .. IdxMax /\ Sound(hash.nodes, Used) /\ hash.root \in 0 .. Used
    BY <2>1, TreeSound
  <2> QED BY <2>2, IndexAssumption
<1>2. \A i \in 1 .. Used : hash.nodes[i].key \in Keys
  BY <1>1, NodeFields
<1>3. \A r \in SlotsOf(Used) : Slot(hash, r) \in 0 .. Used
  BY <1>1, SlotInRange
<1> QED BY <1>1, <1>2, <1>3 DEF Keyed, Linked, KeysOf, LinksOf

LEMMA InitTree == Init => TreeInv
<1> SUFFICES ASSUME Init PROVE TreeInv
  OBVIOUS
<1>1. Inv /\ fault # "empty slot"
  BY InitInv DEF Init
<1>2. Used = 0 /\ op.pc = "idle" /\ hash.root = 0
  BY DEF Init, Used, NoOp
<1>3. SlotsOf(0) = {TheRoot}
  BY DEF SlotsOf
<1> DEFINE span == [i \in 1 .. 0 |-> {}]
<1>4. SearchTree(Used, Keyed, Linked, span)
  <2>1. /\ 0 \in 0 .. IdxMax /\ Keyed \in [1 .. 0 -> Keys] /\ Linked \in [SlotsOf(0) -> 0 .. 0]
    BY <1>1, <1>2, TypedTree
  <2>2. Spanned(0, Keyed, span)
    BY DEF Spanned
  <2>3. Linked[TheRoot] = 0
    BY <1>3, <2>1
  <2>4. Hung(0, Keyed, Linked, span) /\ Filled(0, Keyed, Linked, span)
        /\ Apart(0, Keyed, Linked, span) /\ OneWay(0, Keyed, span) /\ Once(0, Linked)
    BY <1>3, <2>3 DEF Hung, Filled, Apart, OneWay, Once
  <2> QED BY <1>2, <2>1, <2>2, <2>4 DEF SearchTree
<1>5. CallFits(Used, Keyed, Linked, span)
  BY <1>2 DEF CallFits
<1> QED BY <1>1, <1>4, <1>5 DEF TreeInv

\* The new node is where a walk would look for its key.
LEMMA PlaceTree ==
  ASSUME Inv, Place, NEW span, SearchTree(Used, Keyed, Linked, span), CallFits(Used, Keyed, Linked, span)
  PROVE  \E span2 : SearchTree(Used', Keyed', Linked', span2) /\ CallFits(Used, Keyed, Linked, span2)'
<1> DEFINE n == Used
           at == op.at
           app == Append(hash.nodes, NewNode(op.key))
           g == Tree(app, hash.root)
           f == LinksOf(n + 1, g)
<1>0. /\ n \in 0 .. IdxMax /\ n \in Nat /\ Sound(hash.nodes, n) /\ hash.root \in 0 .. n
      /\ hash.nodes \in Seq(Node(n)) /\ Len(hash.nodes) = n
      /\ \A i \in 1 .. n : Keyed[i] = hash.nodes[i].key
      /\ \A r \in SlotsOf(n) : Linked[r] = Slot(hash, r)
  BY TypedTree, TreeSound DEF Inv, Used
<1>1. op.pc = "descend" /\ Here = 0 /\ hash' = SetSlot(g, at, n + 1) /\ op' = Fixing(n + 1, op.branch)
  BY DEF Place, Tree
<1>2. op.key \in Keys /\ at \in SlotsOf(n) /\ op.branch \in Seq(SlotsOf(n)) /\ n < IdxMax
  BY <1>1, DescendTyped
<1>3. n + 1 \in 0 .. IdxMax /\ n + 1 \in 1 .. n + 1 /\ SlotsOf(n) \subseteq SlotsOf(n + 1)
  BY <1>0, <1>2, SlotsGrow, IndexAssumption
<1>4. Linked[at] = 0
  BY <1>0, <1>1, <1>2 DEF Here
<1>5. Inv' /\ Used' = n + 1
  BY PlaceSound, StepInv DEF Next, Progress
<1>6. /\ Keyed' \in [1 .. n + 1 -> Keys] /\ Linked' \in [SlotsOf(n + 1) -> 0 .. n + 1]
      /\ \A i \in 1 .. n + 1 : Keyed'[i] = hash'.nodes[i].key
      /\ \A r \in SlotsOf(n + 1) : Linked'[r] = Slot(hash', r)
  <2>1. (Inv => /\ Keyed \in [1 .. Used -> Keys] /\ Linked \in [SlotsOf(Used) -> 0 .. Used]
                /\ \A i \in 1 .. Used : Keyed[i] = hash.nodes[i].key
                /\ \A r \in SlotsOf(Used) : Linked[r] = Slot(hash, r))'
    BY TypedTree, PTL
  <2> QED BY <1>5, <2>1
<1>7. /\ Len(app) = n + 1 /\ app[n + 1] = NewNode(op.key) /\ \A i \in 1 .. n : app[i] = hash.nodes[i]
  BY <1>0
<1>8. NewNode(op.key) \in Node(n + 1)
  BY <1>2, <1>3 DEF NewNode, Node
<1>9. Sound(app, n + 1)
  <2>1. Node(n) \subseteq Node(n + 1)
    BY <1>0 DEF Node
  <2>2. \A i \in 1 .. n : hash.nodes[i] \in Node(n + 1)
    BY <1>0, <2>1
  <2>3. app = [i \in 1 .. n + 1 |-> app[i]]
    BY <1>0, <1>7
  <2>4. \A i \in 1 .. n + 1 : app[i] \in Node(n + 1)
    BY <1>0, <1>7, <1>8, <2>2
  <2> HIDE DEF app
  <2> QED BY <2>3, <2>4 DEF Sound
<1> HIDE DEF app
<1>10. g.nodes = app /\ g.root = hash.root
  BY TreeFields
<1>11. Linked' = Put(f, at, n + 1)
  <2>1. Linked' = LinksOf(n + 1, SetSlot(g, at, n + 1))
    BY <1>1, <1>5 DEF Linked
  <2>2. at \in SlotsOf(n + 1) /\ n + 1 \in 0 .. n + 1
    BY <1>2, <1>3
  <2> HIDE DEF g
  <2> QED BY <1>3, <1>9, <1>10, <2>1, <2>2, SetSlotLinks
<1>12. /\ \A q \in SlotsOf(n) : f[q] = Linked[q]
       /\ \A q \in SlotsOf(n + 1) \ SlotsOf(n) : f[q] = 0
  <2>0. \A q \in SlotsOf(n + 1) : f[q] = Slot(g, q)
    BY DEF LinksOf
  <2> HIDE DEF g, f
  <2>1. ASSUME NEW q \in SlotsOf(n) PROVE Slot(g, q) = Slot(hash, q)
    BY <1>0, <1>7, <1>10, SlotParts DEF Slot, Left, Right, Root
  <2>2. ASSUME NEW q \in SlotsOf(n + 1), q \notin SlotsOf(n) PROVE Slot(g, q) = 0
    <3>1. q # TheRoot
      BY <1>0, <2>2, RootIsSlot
    <3>2. /\ Selector(q) \in {Left, Right} /\ TruIndex(q) \in 1 .. n + 1
          /\ q = RelaIndex(Selector(q), TruIndex(q))
      BY <1>3, <3>1, SlotCases
    <3>3. TruIndex(q) = n + 1
      <4>1. TruIndex(q) \notin 1 .. n
        BY <1>0, <2>2, <3>2, SideSlots
      <4> QED BY <1>0, <3>2, <4>1
    <3> QED BY <1>7, <1>10, <3>2, <3>3 DEF Slot, NewNode, Left, Right, Root
  <2> QED BY <1>0, <1>3, <2>0, <2>1, <2>2
<1>13. /\ Linked'[at] = n + 1
       /\ \A q \in SlotsOf(n) : q # at => Linked'[q] = Linked[q]
       /\ \A q \in SlotsOf(n + 1) \ SlotsOf(n) : Linked'[q] = 0
  <2>1. f = [q \in SlotsOf(n + 1) |-> f[q]]
    BY DEF LinksOf
  <2> HIDE DEF f
  <2> QED BY <1>2, <1>3, <1>11, <1>12, <2>1 DEF Put
<1>14. /\ Keyed'[n + 1] = op.key /\ \A i \in 1 .. n : Keyed'[i] = Keyed[i]
  <2>1. SameKeys(app, hash'.nodes, n + 1)
    <3>1. g.root \in 0 .. n + 1 /\ n + 1 \in 0 .. n + 1 /\ at \in SlotsOf(n + 1)
      BY <1>0, <1>2, <1>3, <1>10
    <3> HIDE DEF g
    <3> QED BY <1>1, <1>3, <1>9, <1>10, <3>1, SetSlotSound
  <2> QED BY <1>0, <1>3, <1>6, <1>7, <2>1 DEF SameKeys, NewNode
<1>15. op.key \in Room(Keyed, span, at) /\ Path(Keyed, Linked, span, op.branch)
  BY <1>1 DEF CallFits
<1>16. PICK span2 : /\ SearchTree(n + 1, Keyed', Linked', span2)
                    /\ \A q \in SlotsOf(n) : Room(Keyed', span2, q) = Room(Keyed, span, q)
  <2> DEFINE key2  == Keyed'
             link2 == Linked'
             k     == op.key
  <2>1. /\ key2 \in [1 .. n + 1 -> Keys] /\ link2 \in [SlotsOf(n + 1) -> 0 .. n + 1]
        /\ key2[n + 1] = k /\ \A i \in 1 .. n : key2[i] = Keyed[i]
        /\ link2[at] = n + 1
        /\ \A q \in SlotsOf(n) : q # at => link2[q] = Linked[q]
        /\ \A q \in SlotsOf(n + 1) \ SlotsOf(n) : link2[q] = 0
        /\ k \in Room(Keyed, span, at)
    BY <1>6, <1>13, <1>14, <1>15
  <2> HIDE DEF n, at, key2, link2, k
  <2>2. SearchTree(n, Keyed, Linked, span)
    BY DEF n
  <2>3. \E span2 : /\ SearchTree(n + 1, key2, link2, span2)
                   /\ \A q \in SlotsOf(n) : Room(key2, span2, q) = Room(Keyed, span, q)
    <3>1. Grows(n, Keyed, Linked, span, at, k, key2, link2)
      BY <1>2, <1>4, <2>1 DEF Grows
    <3> QED BY <2>2, <3>1, PlaceKeepsTree
  <2> QED BY <2>3 DEF key2, link2
<1>17. Path(Keyed', Linked', span2, op.branch)
  <2> DEFINE b == op.branch
  <2>1. ASSUME NEW m \in DOMAIN b PROVE b[m] \in SlotsOf(n) /\ Linked'[b[m]] # 0
    <3>1. b[m] \in SlotsOf(n) /\ Linked[b[m]] # 0
      BY <1>2, <1>15 DEF Path
    <3> QED BY <1>4, <1>13, <3>1
  <2>2. ASSUME NEW m \in DOMAIN b, NEW l \in DOMAIN b, m < l PROVE Above(Keyed', span2, b[m], b[l])
    <3>1. Above(Keyed, span, b[m], b[l]) /\ b[m] \in SlotsOf(n) /\ b[l] \in SlotsOf(n)
      BY <1>15, <2>1, <2>2 DEF Path
    <3>2. TruIndex(b[l]) \in 1 .. n
      BY <1>0, <3>1, SlotCases DEF Above
    <3> QED BY <1>14, <1>16, <3>1, <3>2 DEF Above
  <2> QED BY <2>1, <2>2 DEF Path
<1>18. CallFits(Used, Keyed, Linked, span2)'
  <2>1. op'.pc = "fixup" /\ op'.branch = op.branch
    BY <1>1 DEF Fixing
  <2> QED BY <1>17, <2>1 DEF CallFits
<1> QED BY <1>5, <1>16, <1>18

\* The room where the walk for a key goes on below a node it is not at.
LEMMA RoomBelow ==
  ASSUME NEW n, NEW key, NEW link, NEW span, SearchTree(n, key, link, span),
         NEW i \in 1 .. n, NEW k \in span[i], k # key[i],
         NEW s, s = IF k > key[i] THEN Right ELSE Left
  PROVE  /\ s \in {Left, Right} /\ RelaIndex(s, i) \in SlotsOf(n)
         /\ k \in Room(key, span, RelaIndex(s, i))
         /\ Room(key, span, RelaIndex(s, i)) \subseteq span[i] \ {key[i]}
         /\ link[RelaIndex(s, i)] # 0 =>
              span[link[RelaIndex(s, i)]] = Room(key, span, RelaIndex(s, i))
         /\ link[RelaIndex(s, i)] = 0 => \A j \in 1 .. n : key[j] # k
<1>1. n \in 0 .. IdxMax /\ k \in Keys /\ key[i] \in Keys /\ span[i] \subseteq Keys
  BY DEF SearchTree, Spanned
<1>2. s \in {Left, Right} /\ Beyond(s, k, key[i])
  <2>1. k \in Int /\ key[i] \in Int
    BY <1>1, IndexAssumption
  <2> QED BY <2>1 DEF Beyond, Left, Right
<1>3. /\ RelaIndex(s, i) \in SlotsOf(n)
      /\ Room(key, span, RelaIndex(s, i)) = {x \in span[i] : Beyond(s, x, key[i])}
  BY <1>1, <1>2, SideSlots, SideRoom
<1>4. key[i] \notin Room(key, span, RelaIndex(s, i)) /\ k \in Room(key, span, RelaIndex(s, i))
  BY <1>1, <1>2, <1>3, Sides
<1> QED BY <1>2, <1>3, <1>4 DEF SearchTree, Hung, Filled

LEMMA StepTree == TreeInv /\ [Next]_vars => TreeInv'
<1> SUFFICES ASSUME TreeInv, [Next]_vars
             PROVE  TreeInv'
  OBVIOUS
<1> DEFINE n == Used
<1>0. Inv /\ Inv' /\ fault # "empty slot"
  BY StepInv DEF TreeInv
<1>s. PICK span : SearchTree(n, Keyed, Linked, span) /\ CallFits(n, Keyed, Linked, span)
  BY DEF TreeInv
<1>a. /\ n \in 0 .. IdxMax /\ n \in Nat /\ Sound(hash.nodes, n) /\ hash.root \in 0 .. n
      /\ Keyed \in [1 .. n -> Keys] /\ Linked \in [SlotsOf(n) -> 0 .. n]
      /\ \A i \in 1 .. n : Keyed[i] = hash.nodes[i].key
      /\ \A r \in SlotsOf(n) : Linked[r] = Slot(hash, r)
  BY <1>0, TypedTree
<1>r. /\ Linked[TheRoot] = hash.root /\ TheRoot \in SlotsOf(n)
      /\ \A i \in 1 .. n : /\ Linked[RelaIndex(Left, i)] = hash.nodes[i].left
                           /\ Linked[RelaIndex(Right, i)] = hash.nodes[i].right
                           /\ RelaIndex(Left, i) \in SlotsOf(n) /\ RelaIndex(Right, i) \in SlotsOf(n)
  BY <1>a, LinkValues, RootIsSlot, SideSlots DEF Linked
\* A step that leaves the tree alone has only the call to account for.
<1>b. ASSUME UNCHANGED hash, fault' # "empty slot",
             \/ op' = NoOp
             \/ /\ op'.pc = "search"
                /\ IF op'.at = 0 THEN \A i \in 1 .. n : Keyed[i] # op'.key ELSE op'.key \in span[op'.at]
             \/ /\ op'.pc = "descend"
                /\ op'.key \in Room(Keyed, span, op'.at) /\ Path(Keyed, Linked, span, op'.branch)
                /\ \A m \in DOMAIN op'.branch : Above(Keyed, span, op'.branch[m], op'.at)
             \/ op'.pc = "fixup" /\ Path(Keyed, Linked, span, op'.branch)
      PROVE  TreeInv'
  <2>1. Used' = n /\ Keyed' = Keyed /\ Linked' = Linked
    BY <1>b DEF Used, Keyed, Linked, KeysOf, LinksOf, Slot
  <2>2. CallFits(n, Keyed, Linked, span)'
    <3>1. op' = NoOp => op'.pc = "idle"
      BY DEF NoOp
    <3> QED BY <1>b, <2>1, <3>1 DEF CallFits
  <2> QED BY <1>0, <1>b, <1>s, <2>1, <2>2 DEF TreeInv
<1>1. CASE \E k \in Keys, strict \in BOOLEAN : BeginInsert(k, strict)
  <2>1. PICK k \in Keys, strict \in BOOLEAN : BeginInsert(k, strict)
    BY <1>1
  <2>2. UNCHANGED hash /\ fault' # "empty slot"
    BY <2>1 DEF BeginInsert, Defined
  <2>3. \/ op' = NoOp
        \/ \E kept : op' = Descending(k, strict, TheRoot, <<>>, kept)
    BY <2>1 DEF BeginInsert, Finish
  <2>4. CASE op' = NoOp
    BY <1>b, <2>2, <2>4
  <2>5. CASE \E kept : op' = Descending(k, strict, TheRoot, <<>>, kept)
    <3>1. op'.pc = "descend" /\ op'.key = k /\ op'.at = TheRoot /\ op'.branch = <<>>
      BY <2>5 DEF Descending
    <3>2. k \in Room(Keyed, span, TheRoot)
      BY DEF Room
    <3>3. Path(Keyed, Linked, span, <<>>) /\ DOMAIN <<>> = {}
      BY DEF Path
    <3>4. DOMAIN op'.branch = {}
      BY <3>1, <3>3
    <3>5. Path(Keyed, Linked, span, op'.branch)
      BY <3>1, <3>3
    <3> QED BY <1>b, <2>2, <3>1, <3>2, <3>4, <3>5
  <2> QED BY <2>3, <2>4, <2>5
<1>2. CASE \E k \in Keys : BeginSearch(k)
  <2>1. PICK k \in Keys : BeginSearch(k)
    BY <1>2
  <2>2. op' = Looking(k, hash.root) /\ UNCHANGED hash /\ fault' # "empty slot"
    BY <2>1 DEF BeginSearch, Defined
  <2>3. op'.pc = "search" /\ op'.key = k /\ op'.at = hash.root
    BY <2>2 DEF Looking
  <2>4. Room(Keyed, span, TheRoot) = Keys
    BY DEF Room
  <2>5. CASE hash.root = 0
    <3>1. \A i \in 1 .. n : Keyed[i] \notin Keys
      BY <1>r, <1>s, <2>4, <2>5 DEF SearchTree, Filled
    <3> QED BY <1>b, <2>2, <2>3, <2>5, <3>1
  <2>6. CASE hash.root # 0
    <3>1. span[hash.root] = Keys
      BY <1>r, <1>s, <2>4, <2>6 DEF SearchTree, Hung
    <3> QED BY <1>b, <2>2, <2>3, <2>6, <3>1
  <2> QED BY <2>5, <2>6
<1>3. CASE Descend
  <2>0. op.pc = "descend" /\ Here # 0 /\ hash.nodes[Here].key # op.key /\ UNCHANGED hash /\ fault' # "empty slot"
    BY <1>3 DEF Descend, Defined
  <2> DEFINE s == IF op.key > hash.nodes[Here].key THEN Right ELSE Left
             below == RelaIndex(s, Here)
  <2>1. PICK kept \in BOOLEAN :
          op' = Descending(op.key, op.strict, below,
                           IF kept THEN Append(op.branch, op.at) ELSE op.branch, kept)
    BY <1>3 DEF Descend
  <2>2. op.at \in SlotsOf(n) /\ op.branch \in Seq(SlotsOf(n)) /\ Linked[op.at] = Here
    BY <1>0, <1>a, <2>0, DescendTyped DEF Here
  <2>3. Here \in 1 .. n /\ span[Here] = Room(Keyed, span, op.at)
    <3>1. Linked[op.at] # 0
      BY <2>0, <2>2
    <3>2. Linked[op.at] \in 1 .. n /\ span[Linked[op.at]] = Room(Keyed, span, op.at)
      BY <1>s, <2>2, <3>1, RoomAround
    <3> QED BY <2>2, <3>2
  <2>4. /\ op.key \in Room(Keyed, span, op.at) /\ Path(Keyed, Linked, span, op.branch)
        /\ \A m \in DOMAIN op.branch : Above(Keyed, span, op.branch[m], op.at)
    BY <1>s, <2>0 DEF CallFits
  <2>5. s \in {Left, Right} /\ op.key \in Room(Keyed, span, below)
    <3>1. op.key \in span[Here] /\ op.key # Keyed[Here] /\ Keyed[Here] = hash.nodes[Here].key
      BY <1>a, <2>0, <2>3, <2>4
    <3> QED BY <1>s, <2>3, <3>1, RoomBelow
  <2>6. /\ Above(Keyed, span, op.at, below)
        /\ \A q \in SlotsOf(n) : Above(Keyed, span, q, op.at) => Above(Keyed, span, q, below)
    BY <1>s, <2>0, <2>2, <2>5, AboveChild
  <2> HIDE DEF s, below
  <2> DEFINE b2 == IF kept THEN Append(op.branch, op.at) ELSE op.branch
  <2>7. Path(Keyed, Linked, span, b2) /\ \A m \in DOMAIN b2 : Above(Keyed, span, b2[m], below)
    <3>1. CASE kept
      <4> DEFINE b == op.branch
      <4>1. /\ b2 = Append(b, op.at) /\ Len(b) \in Nat /\ DOMAIN b = 1 .. Len(b)
            /\ DOMAIN b2 = 1 .. Len(b) + 1 /\ b2[Len(b) + 1] = op.at
            /\ \A m \in 1 .. Len(b) : b2[m] = b[m] /\ b[m] \in SlotsOf(n)
        BY <2>2, <3>1
      <4>2. /\ \A m \in 1 .. Len(b) : Linked[b[m]] # 0 /\ Above(Keyed, span, b[m], op.at)
            /\ \A m, l \in 1 .. Len(b) : m < l => Above(Keyed, span, b[m], b[l])
        BY <2>4, <4>1 DEF Path
      <4> HIDE DEF b, b2
      <4>3. ASSUME NEW m \in DOMAIN b2 PROVE Linked[b2[m]] # 0 /\ Above(Keyed, span, b2[m], below)
        <5>1. CASE m = Len(b) + 1
          BY <2>0, <2>2, <2>6, <4>1, <5>1
        <5>2. CASE m \in 1 .. Len(b)
          BY <2>6, <4>1, <4>2, <5>2
        <5> QED BY <4>1, <5>1, <5>2
      <4>4. ASSUME NEW m \in DOMAIN b2, NEW l \in DOMAIN b2, m < l PROVE Above(Keyed, span, b2[m], b2[l])
        BY <4>1, <4>2, <4>4
      <4> QED BY <4>3, <4>4 DEF Path
    <3>2. CASE ~kept
      <4>1. b2 = op.branch /\ \A m \in DOMAIN op.branch : op.branch[m] \in SlotsOf(n)
        BY <2>2, <3>2
      <4> QED BY <2>4, <2>6, <4>1
    <3> QED BY <3>1, <3>2
  <2>8. op'.pc = "descend" /\ op'.key = op.key /\ op'.at = below /\ op'.branch = b2
    BY <2>1 DEF Descending
  <2> HIDE DEF b2
  <2> QED BY <1>b, <2>0, <2>5, <2>7, <2>8
<1>4. CASE Duplicate \/ EndInsert \/ EndSearch
  <2>1. op' = NoOp /\ UNCHANGED hash /\ fault' # "empty slot"
    BY <1>4 DEF Duplicate, EndInsert, EndSearch, Finish, Defined
  <2> QED BY <1>b, <2>1
<1>5. CASE Place
  <2>1. \E span2 : SearchTree(Used', Keyed', Linked', span2) /\ CallFits(Used, Keyed, Linked, span2)'
    BY <1>0, <1>5, <1>s, PlaceTree
  <2>2. fault' # "empty slot"
    BY <1>5 DEF Place, Defined
  <2> QED BY <1>0, <2>1, <2>2 DEF TreeInv
<1>6. CASE PlaceRefused
  <2>1. op.pc = "descend" /\ op' = Fixing(op.at, op.branch) /\ UNCHANGED hash /\ fault' # "empty slot"
    BY <1>6 DEF PlaceRefused, Defined
  <2>2. op'.pc = "fixup" /\ op'.branch = op.branch
    BY <2>1 DEF Fixing
  <2>3. Path(Keyed, Linked, span, op.branch)
    BY <1>s, <2>1 DEF CallFits
  <2> QED BY <1>b, <2>1, <2>2, <2>3
<1>7. CASE PlaceOverrun
  <2>1. op.pc = "descend" /\ UNCHANGED <<hash, op>> /\ fault' # "empty slot"
    BY <1>7 DEF PlaceOverrun
  <2>2. /\ op.key \in Room(Keyed, span, op.at) /\ Path(Keyed, Linked, span, op.branch)
        /\ \A m \in DOMAIN op.branch : Above(Keyed, span, op.branch[m], op.at)
    BY <1>s, <2>1 DEF CallFits
  <2> QED BY <1>b, <2>1, <2>2
<1>8. CASE FixUp
  <2> DEFINE slot == Last(op.branch)
             i    == Slot(hash, slot)
             rest == Front(op.branch)
  <2>1. /\ op.pc = "fixup" /\ op.branch # <<>> /\ op' = Fixing(op.at, rest)
        /\ fault' = (IF i = 0 THEN "empty slot"
                     ELSE IF ChildMissing(hash.nodes, i) THEN "child missing" ELSE "none")
        /\ hash' = IF fault' = "none" THEN FixedUp(hash, slot, i) ELSE hash
    BY <1>8 DEF FixUp, FixUpAt
  <2>2. op.branch \in Seq(SlotsOf(n)) /\ Len(op.branch) \in Nat \ {0} /\ DOMAIN op.branch = 1 .. Len(op.branch)
    <3>1. op.branch \in Seq(SlotsOf(n))
      BY <1>0, <2>1, FixupTyped
    <3>2. Len(op.branch) \in Nat /\ DOMAIN op.branch = 1 .. Len(op.branch)
      BY <3>1
    <3>3. Len(op.branch) # 0
      BY <2>1, <3>1, EmptySeq
    <3> QED BY <3>1, <3>2, <3>3
  <2>3. /\ slot = op.branch[Len(op.branch)] /\ slot \in SlotsOf(n)
        /\ DOMAIN rest = 1 .. Len(op.branch) - 1
        /\ \A m \in DOMAIN rest : rest[m] = op.branch[m] /\ m \in DOMAIN op.branch /\ rest[m] \in SlotsOf(n)
    BY <2>2 DEF Last, Front
  <2>4. Path(Keyed, Linked, span, op.branch)
    BY <1>s, <2>1 DEF CallFits
  <2> HIDE DEF slot, rest
  <2>5. i = Linked[slot] /\ i # 0 /\ \A m \in DOMAIN rest : Above(Keyed, span, rest[m], slot)
    <3>1. i = Linked[slot]
      BY <1>a, <2>3
    <3>2. Len(op.branch) \in DOMAIN op.branch
      BY <2>2
    <3>3. Linked[slot] # 0
      BY <2>3, <2>4, <3>2 DEF Path
    <3>4. \A m \in DOMAIN rest : m < Len(op.branch) /\ m \in DOMAIN op.branch /\ rest[m] = op.branch[m]
      BY <2>2, <2>3
    <3>5. \A m \in DOMAIN rest : Above(Keyed, span, rest[m], slot)
      BY <2>3, <2>4, <3>2, <3>4 DEF Path
    <3> QED BY <3>1, <3>3, <3>5
  <2> HIDE DEF i
  <2>6. Path(Keyed, Linked, span, rest)
    BY <2>3, <2>4 DEF Path
  <2>7. fault' = "none" /\ hash' = FixedUp(hash, slot, i)
    <3>1. i \in 1 .. n
      BY <1>a, <2>3, <2>5
    <3> QED BY <1>a, <2>1, <2>5, <3>1, NoChildMissing
  <2>8. /\ Sound(hash'.nodes, n) /\ SameKeys(hash.nodes, hash'.nodes, n)
    <3>1. Slot(hash, slot) = i /\ Slot(hash, slot) # 0
      BY <2>5 DEF i
    <3> QED BY <1>0, <2>3, <2>7, <3>1, FixedUpSound DEF Inv
  <2>9. Used' = n
    BY <1>a, <2>8, SoundIsSeq DEF Used
  <2>10. Keyed' = Keyed /\ Linked' = LinksOf(n, hash')
    BY <2>8, <2>9 DEF Keyed, Linked, KeysOf, SameKeys
  <2>11. PICK span2 : Rehung(n, Keyed, Linked, span, slot, Linked', span2)
    <3>1. \E span2 : Rehung(n, Keyed, Linked, span, slot, LinksOf(n, FixedUp(hash, slot, Linked[slot])), span2)
      BY <1>a, <1>s, <2>3, <2>5, FixUpKeepsTree DEF Linked
    <3> QED BY <2>5, <2>7, <2>10, <3>1
  <2>12. Path(Keyed, Linked', span2, rest)
    <3>1. ASSUME NEW m \in DOMAIN rest
          PROVE  Linked'[rest[m]] = Linked[rest[m]] /\ Room(Keyed, span2, rest[m]) = Room(Keyed, span, rest[m])
      BY <2>3, <2>5, <2>11 DEF Rehung
    <3> QED BY <2>6, <3>1 DEF Path, Above
  <2>13. op'.pc = "fixup" /\ op'.branch = rest
    BY <2>1 DEF Fixing
  <2>14. SearchTree(Used', Keyed', Linked', span2)
    BY <2>9, <2>10, <2>11 DEF Rehung
  <2>15. CallFits(Used, Keyed, Linked, span2)'
    BY <2>10, <2>12, <2>13 DEF CallFits
  <2> QED BY <1>0, <2>7, <2>14, <2>15 DEF TreeInv
<1>9. CASE LookFurther
  <2>1. op.pc = "search" /\ op.at # 0 /\ UNCHANGED hash /\ fault' # "empty slot" /\ hash.nodes[op.at].key # op.key
    BY <1>9 DEF LookFurther, Defined
  <2>2. op.at \in 1 .. n /\ op.key \in span[op.at]
    <3>1. op.at \in 0 .. n
      BY <1>0, <2>1, SearchTyped
    <3>2. op.key \in span[op.at]
      BY <1>s, <2>1 DEF CallFits
    <3>3. n \in Nat /\ op.at # 0
      BY <1>a, <2>1
    <3>4. op.at \in 1 .. n
      BY <3>1, <3>3
    <3> QED BY <3>2, <3>4
  <2> DEFINE s == IF op.key > Keyed[op.at] THEN Right ELSE Left
             q == RelaIndex(s, op.at)
  <2>3. op' = Looking(op.key, Linked[q])
    BY <1>9, <1>a, <1>r, <2>2 DEF LookFurther
  <2>4. op.key # Keyed[op.at]
    BY <1>a, <2>1, <2>2
  <2>5. /\ op.key \in Room(Keyed, span, q)
        /\ Linked[q] # 0 => span[Linked[q]] = Room(Keyed, span, q)
        /\ Linked[q] = 0 => \A j \in 1 .. n : Keyed[j] # op.key
    BY <1>s, <2>2, <2>4, RoomBelow
  <2>6. op'.pc = "search" /\ op'.key = op.key /\ op'.at = Linked[q]
    BY <2>3 DEF Looking
  <2> HIDE DEF q, s
  <2> QED BY <1>b, <2>1, <2>5, <2>6
<1>10. CASE Undefined \/ UNCHANGED vars
  <2>1. UNCHANGED <<hash, op, fault, ret>>
    BY <1>10 DEF Undefined, vars
  <2>2. UNCHANGED <<Used, Keyed, Linked>>
    BY <2>1 DEF Used, Keyed, Linked, KeysOf, LinksOf, Slot
  <2> QED BY <1>0, <1>s, <2>1, <2>2 DEF TreeInv, CallFits
<1> QED
  BY <1>1, <1>2, <1>3, <1>4, <1>5, <1>6, <1>7, <1>8, <1>9, <1>10 DEF Next, Progress

-----------------------------------------------------------------------------
(* Walks, level by level. *)

\* The walk that MCUHash defines, level by level.
LEMMA WalkSteps ==
  ASSUME Inv, NEW k
  PROVE  \E from \in [0 .. Used -> 0 .. Used] :
           /\ from[0] = hash.root /\ Walk(k) = from[Used]
           /\ \A m \in 1 .. Used : from[m] = Closer(k, from[m - 1])
<1> DEFINE n == Used
           g == [i \in 0 .. n |-> Closer(k, i)]
           Body(h) == [m \in 0 .. n |-> IF m = 0 THEN hash.root ELSE Closer(k, h[m - 1])]
           W == CHOOSE h : h = Body(h)
<1>1. n \in Nat /\ hash.root \in 0 .. n /\ Sound(hash.nodes, n)
  BY TypedTree
<1>2. \A i \in 0 .. n : Closer(k, i) \in 0 .. n
  BY <1>1, NodeFields DEF Closer
<1>3. g \in [0 .. n -> 0 .. n] /\ \A i \in 0 .. n : g[i] = Closer(k, i)
  BY <1>2
<1> HIDE DEF g
<1>4. PICK f \in [0 .. n -> 0 .. n] : f[0] = hash.root /\ \A m \in 1 .. n : f[m] = g[f[m - 1]]
  <2>1. hash.root \in 0 .. n /\ n \in Nat
    BY <1>1
  <2> HIDE DEF n
  <2>2. \E f : Rounds(f, n, 0 .. n, hash.root, g)
    BY <1>3, <2>1, Iterated
  <2> QED BY <2>2 DEF Rounds
<1>5. \A m \in 1 .. n : f[m] = Closer(k, f[m - 1])
  <2> SUFFICES ASSUME NEW m \in 1 .. n PROVE f[m] = Closer(k, f[m - 1])
    OBVIOUS
  <2>1. m - 1 \in 0 .. n
    BY <1>1
  <2>2. f[m - 1] \in 0 .. n
    BY <1>4, <2>1
  <2> QED BY <1>3, <1>4, <2>2
<1>6. f = Body(f)
  BY <1>1, <1>4, <1>5
<1>7. W = Body(W)
  <2> HIDE DEF Body
  <2> QED BY <1>6
<1>8. Walk(k) = W[n]
  BY DEF Walk
<1> HIDE DEF W
<1>9. W = [m \in 0 .. n |-> W[m]] /\ W[0] = hash.root /\ \A m \in 1 .. n : W[m] = Closer(k, W[m - 1])
  <2>1. W = [m \in 0 .. n |-> IF m = 0 THEN hash.root ELSE Closer(k, W[m - 1])]
    BY <1>7
  <2>2. 0 \in 0 .. n /\ 1 .. n \subseteq 0 .. n /\ \A m \in 1 .. n : m # 0
    BY <1>1
  <2> HIDE DEF n
  <2>3. W = [m \in 0 .. n |-> W[m]]
    BY <2>1, Zenon
  <2>4. W[0] = hash.root
    BY <2>1, <2>2
  <2>5. \A m \in 1 .. n : W[m] = Closer(k, W[m - 1])
    BY <2>1, <2>2
  <2> QED BY <2>3, <2>4, <2>5
<1>10. \A m \in 0 .. n : W[m] \in 0 .. n
  <2> DEFINE P == {m \in 0 .. n : W[m] \in 0 .. n}
  <2>1. 0 \in P
    BY <1>1, <1>9
  <2>2. \A m \in 0 .. n - 1 : m \in P => m + 1 \in P
    <3> SUFFICES ASSUME NEW m \in 0 .. n - 1, W[m] \in 0 .. n PROVE m + 1 \in 0 .. n /\ W[m + 1] \in 0 .. n
      OBVIOUS
    <3>1. m + 1 \in 1 .. n /\ (m + 1) - 1 = m
      BY <1>1
    <3>2. W[m + 1] = Closer(k, W[m])
      BY <1>9, <3>1
    <3> QED BY <1>2, <3>1, <3>2
  <2>3. P \in SUBSET (0 .. n)
    OBVIOUS
  <2>4. P = 0 .. n
    <3> HIDE DEF P, n
    <3> QED BY <1>1, <2>1, <2>2, <2>3, Upwards
  <2> QED BY <2>4
<1>11. W \in [0 .. n -> 0 .. n]
  BY <1>9, <1>10
<1> QED BY <1>8, <1>9, <1>11

\* The walk for a key in the tree ends at its node: each level that it is not
\* there yet leaves a node out of the span for good.
LEMMA WalkFinds ==
  ASSUME TreeInv, NEW i \in 1 .. Used
  PROVE  Walk(hash.nodes[i].key) = i
<1> DEFINE n == Used
           k == hash.nodes[i].key
<1>0. Inv
  BY DEF TreeInv
<1>1. /\ n \in Nat /\ hash.root \in 0 .. n /\ Linked[TheRoot] = hash.root /\ TheRoot \in SlotsOf(n)
      /\ \A j \in 1 .. n : Keyed[j] = hash.nodes[j].key
      /\ \A j \in 1 .. n : /\ Linked[RelaIndex(Left, j)] = hash.nodes[j].left
                           /\ Linked[RelaIndex(Right, j)] = hash.nodes[j].right
  BY <1>0, TypedTree, LinkValues, RootIsSlot DEF Linked
<1>2. PICK span : SearchTree(n, Keyed, Linked, span)
  BY DEF TreeInv
<1>3. PICK W \in [0 .. n -> 0 .. n] :
        /\ W[0] = hash.root /\ Walk(k) = W[n]
        /\ \A m \in 1 .. n : W[m] = Closer(k, W[m - 1])
  BY <1>0, WalkSteps
<1> DEFINE LeftIn(j) == {m \in 1 .. n : Keyed[m] \in span[j]}
           P == {m \in 0 .. n : /\ W[m] \in 1 .. n /\ k \in span[W[m]]
                                /\ W[m] = i \/ Cardinality(LeftIn(W[m])) <= n - m}
<1>4. k = Keyed[i]
  BY <1>1
<1> HIDE DEF k
<1>5. ASSUME NEW j PROVE /\ IsFiniteSet(LeftIn(j)) /\ Cardinality(LeftIn(j)) \in Nat
                         /\ Cardinality(LeftIn(j)) <= n
  <2>1. IsFiniteSet(1 .. n) /\ Cardinality(1 .. n) = n
    BY <1>1, FS_Interval
  <2>2. LeftIn(j) \in SUBSET (1 .. n)
    OBVIOUS
  <2> HIDE DEF LeftIn, n
  <2> QED BY <2>1, <2>2, FS_Subset, FS_CardinalityType
<1>6. 0 \in P
  <2>1. Keyed[i] \in Room(Keyed, span, TheRoot) /\ Room(Keyed, span, TheRoot) = Keys
    BY <1>2 DEF Room, SearchTree
  <2>2. hash.root # 0
    BY <1>1, <1>2, <2>1 DEF SearchTree, Filled
  <2>3. W[0] \in 1 .. n
    BY <1>1, <1>3, <2>2
  <2>4. span[W[0]] = Keys
    BY <1>1, <1>2, <1>3, <2>1, <2>2 DEF SearchTree, Hung
  <2> HIDE DEF LeftIn
  <2>5. Cardinality(LeftIn(W[0])) <= n - 0
    BY <1>1, <1>5
  <2> QED BY <1>1, <1>4, <2>1, <2>3, <2>4, <2>5
<1>7. \A m \in 0 .. n - 1 : m \in P => m + 1 \in P
  <2> SUFFICES ASSUME NEW m \in 0 .. n - 1, m \in P PROVE m + 1 \in P
    OBVIOUS
  <2> DEFINE j == W[m]
             c == W[m + 1]
  <2>1. m + 1 \in 1 .. n /\ m + 1 \in 0 .. n /\ (m + 1) - 1 = m
    BY <1>1
  <2>2. c = Closer(k, j) /\ j \in 1 .. n /\ k \in span[j]
    BY <1>3, <2>1
  <2>3. j = i \/ Cardinality(LeftIn(j)) <= n - m
    OBVIOUS
  <2>4. CASE j = i
    <3>1. hash.nodes[j].key = k
      BY <1>1, <1>4, <2>4
    <3>2. c = i
      BY <2>2, <2>4, <3>1 DEF Closer
    <3> HIDE DEF LeftIn
    <3> QED BY <2>1, <2>2, <2>4, <3>2
  <2>5. CASE j # i
    <3>1. Keyed[j] # k
      <4>1. Keyed[j] \in span[j] /\ Keyed[i] \in span[i]
        BY <1>2, <2>2 DEF SearchTree, Spanned
      <4> QED BY <1>2, <1>4, <2>2, <2>5, <4>1 DEF SearchTree, OneWay
    <3> DEFINE s == IF k > Keyed[j] THEN Right ELSE Left
               q == RelaIndex(s, j)
    <3>2. c = Linked[q]
      <4>0. j \in 1 .. n /\ n \in Nat
        BY <1>1, <2>2
      <4>1. hash.nodes[j].key = Keyed[j] /\ j # 0
        <5> HIDE DEF j, P, n, LeftIn
        <5>1. \A l \in 1 .. n : hash.nodes[l].key = Keyed[l]
          BY <1>1
        <5>2. j # 0
          BY <4>0
        <5> QED BY <4>0, <5>1, <5>2
      <4>2. c = IF k > Keyed[j] THEN hash.nodes[j].right ELSE hash.nodes[j].left
        BY <2>2, <3>1, <4>1 DEF Closer
      <4> QED BY <1>1, <2>2, <4>2
    <3>3. /\ k \in Room(Keyed, span, q) /\ Room(Keyed, span, q) \subseteq span[j] \ {Keyed[j]}
          /\ q \in SlotsOf(n)
          /\ Linked[q] # 0 => span[Linked[q]] = Room(Keyed, span, q)
          /\ Linked[q] = 0 => \A l \in 1 .. n : Keyed[l] # k
      BY <1>2, <2>2, <3>1, RoomBelow
    <3> HIDE DEF s, q
    <3>4. c \in 1 .. n /\ span[c] = Room(Keyed, span, q)
      <4>1. Linked[q] \in 0 .. n /\ Linked[q] # 0
        BY <1>2, <1>4, <3>3 DEF SearchTree
      <4> QED BY <1>1, <3>2, <3>3, <4>1
    <3>5. LeftIn(c) \subseteq LeftIn(j) \ {j} /\ j \in LeftIn(j)
      <4>1. Keyed[j] \in span[j]
        BY <1>2, <2>2 DEF SearchTree, Spanned
      <4> QED BY <2>2, <3>3, <3>4, <4>1
    <3>6. Cardinality(LeftIn(j)) <= n - m
      BY <2>3, <2>5
    <3> HIDE DEF LeftIn
    <3>7. Cardinality(LeftIn(j) \ {j}) = Cardinality(LeftIn(j)) - 1 /\ IsFiniteSet(LeftIn(j) \ {j})
      BY <1>5, <3>5, FS_RemoveElement
    <3>8. Cardinality(LeftIn(c)) <= Cardinality(LeftIn(j)) - 1
      BY <3>5, <3>7, FS_Subset
    <3>9. Cardinality(LeftIn(c)) <= n - (m + 1)
      <4>1. Cardinality(LeftIn(c)) \in Nat /\ Cardinality(LeftIn(j)) \in Nat
        BY <1>5
      <4> QED BY <1>1, <3>6, <3>8, <4>1
    <3> QED BY <2>1, <3>3, <3>4, <3>9
  <2> QED BY <2>4, <2>5
<1>8. P \in SUBSET (0 .. n)
  OBVIOUS
<1>9. n \in P
  <2> HIDE DEF P, n
  <2>1. P = 0 .. n
    BY <1>1, <1>6, <1>7, <1>8, Upwards
  <2> QED BY <1>1, <2>1
<1>10. W[n] = i
  <2>1. SUFFICES ASSUME W[n] # i PROVE FALSE
    OBVIOUS
  <2>2. Cardinality(LeftIn(W[n])) <= n - n
    BY <1>9, <2>1
  <2>3. i \in LeftIn(W[n])
    BY <1>4, <1>9
  <2> HIDE DEF LeftIn, P
  <2>4. Cardinality(LeftIn(W[n])) = 0
    BY <1>1, <1>5, <2>2
  <2> QED BY <1>5, <2>3, <2>4, FS_EmptySet
<1> QED BY <1>3, <1>10 DEF k

\* A search tree names each node once.
LEMMA HeldInTree ==
  ASSUME TreeInv
  PROVE  HeldOnce
<1> DEFINE held == {r \in SlotsOf(Used) : Slot(hash, r) # 0}
<1>0. Used \in Nat
  BY TypedTree DEF TreeInv
<1>1. /\ Linked \in [SlotsOf(Used) -> 0 .. Used]
      /\ \A r \in SlotsOf(Used) : Linked[r] = Slot(hash, r)
  BY TypedTree DEF TreeInv
<1>2. Once(Used, Linked)
  BY DEF TreeInv, SearchTree
<1>3. {Slot(hash, r) : r \in held} = 1 .. Used
  <2>1. ASSUME NEW r \in held PROVE Slot(hash, r) \in 1 .. Used
    BY <1>0, <1>1
  <2>2. ASSUME NEW i \in 1 .. Used PROVE \E r \in held : Slot(hash, r) = i
    <3>1. PICK r \in SlotsOf(Used) : Linked[r] = i
      BY <1>2 DEF Once
    <3>2. r \in held /\ Slot(hash, r) = i
      BY <1>0, <1>1, <3>1
    <3> QED BY <3>2
  <2> HIDE DEF held
  <2> QED BY <2>1, <2>2
<1>4. \A r, q \in held : Slot(hash, r) = Slot(hash, q) => r = q
  BY <1>1, <1>2 DEF Once
<1> QED BY <1>3, <1>4 DEF HeldOnce, Placed

\* Whatever was inserted, in whatever order, and whatever was refused, the
\* tree holds every key where a search finds it and every node once, and no
\* fixing up ever meets an empty slot.
THEOREM TreeIsSound == Spec => []TreeHolds
<1>1. TreeInv => TreeHolds
  BY WalkFinds, HeldInTree DEF TreeHolds, KeysAreFound, BranchStaysFilled, TreeInv, Placed
<1> QED BY InitTree, StepTree, <1>1, PTL DEF Spec

\* WithChildren as a function on sets of nodes, and where it stays.
LEMMA WithChildrenIn ==
  ASSUME NEW some, NEW M, some \subseteq M,
         \A j \in some : /\ hash.nodes[j].left # 0 => hash.nodes[j].left \in M
                         /\ hash.nodes[j].right # 0 => hash.nodes[j].right \in M
  PROVE  WithChildren(some) \subseteq M
<1> SUFFICES ASSUME NEW x \in WithChildren(some) PROVE x \in M
  OBVIOUS
<1>1. x \in some \/ (x # 0 /\ \E j \in some : x \in {hash.nodes[j].left, hash.nodes[j].right})
  BY DEF WithChildren
<1> QED BY <1>1

LEMMA ChildrenPlaced ==
  ASSUME Inv, NEW some \in SUBSET (1 .. Used)
  PROVE  WithChildren(some) \in SUBSET (1 .. Used)
<1>1. \A j \in 1 .. Used : hash.nodes[j].left \in 0 .. Used /\ hash.nodes[j].right \in 0 .. Used
  BY TypedTree, NodeFields
<1>2. Used \in Nat
  BY TypedTree
<1>3. \A j \in some : /\ hash.nodes[j].left # 0 => hash.nodes[j].left \in 1 .. Used
                      /\ hash.nodes[j].right # 0 => hash.nodes[j].right \in 1 .. Used
  BY <1>1, <1>2
<1> QED BY <1>3, WithChildrenIn

\* The nodes under a node, level by level.
LEMMA UnderSteps ==
  ASSUME Inv, NEW i \in 0 .. Used
  PROVE  \E from \in [0 .. Used -> SUBSET (1 .. Used)] :
           /\ from[0] = {i} \ {0} /\ Under(i) = from[Used]
           /\ \A m \in 1 .. Used : from[m] = WithChildren(from[m - 1])
<1> DEFINE n == Used
           S == SUBSET (1 .. n)
           top == {i} \ {0}
           g == [some \in S |-> WithChildren(some)]
           Body(h) == [m \in 0 .. n |-> IF m = 0 THEN top ELSE WithChildren(h[m - 1])]
           W == CHOOSE h : h = Body(h)
<1>1. n \in Nat /\ Sound(hash.nodes, n)
  BY TypedTree
<1>2. \A some \in S : WithChildren(some) \in S
  BY ChildrenPlaced
<1>3. top \in S
  BY <1>1
<1>4. g \in [S -> S] /\ \A some \in S : g[some] = WithChildren(some)
  BY <1>2
<1> HIDE DEF g, S, top
<1>5. PICK f : Rounds(f, n, S, top, g)
  <2> HIDE DEF n
  <2> QED BY <1>1, <1>3, <1>4, Iterated
<1>6. f = Body(f)
  <2>1. f \in [0 .. n -> S] /\ f[0] = top /\ \A m \in 1 .. n : f[m] = g[f[m - 1]]
    BY <1>5 DEF Rounds
  <2>2. ASSUME NEW m \in 1 .. n PROVE f[m] = WithChildren(f[m - 1])
    <3>1. m - 1 \in 0 .. n
      BY <1>1
    <3> QED BY <1>4, <2>1, <3>1
  <2> QED BY <1>1, <2>1, <2>2
<1>7. W = Body(W)
  <2> HIDE DEF Body
  <2> QED BY <1>6
<1>8. Under(i) = W[n]
  BY DEF Under, top
<1> HIDE DEF W
<1>9. W = [m \in 0 .. n |-> W[m]] /\ W[0] = top /\ \A m \in 1 .. n : W[m] = WithChildren(W[m - 1])
  <2>1. W = [m \in 0 .. n |-> IF m = 0 THEN top ELSE WithChildren(W[m - 1])]
    BY <1>7
  <2>2. 0 \in 0 .. n /\ 1 .. n \subseteq 0 .. n /\ \A m \in 1 .. n : m # 0
    BY <1>1
  <2> HIDE DEF n
  <2>3. W = [m \in 0 .. n |-> W[m]]
    BY <2>1, Zenon
  <2>4. W[0] = top
    BY <2>1, <2>2
  <2>5. \A m \in 1 .. n : W[m] = WithChildren(W[m - 1])
    BY <2>1, <2>2
  <2> QED BY <2>3, <2>4, <2>5
<1>10. \A m \in 0 .. n : W[m] \in S
  <2> DEFINE P == {m \in 0 .. n : W[m] \in S}
  <2>1. 0 \in P
    BY <1>1, <1>3, <1>9
  <2>2. \A m \in 0 .. n - 1 : m \in P => m + 1 \in P
    <3> SUFFICES ASSUME NEW m \in 0 .. n - 1, W[m] \in S PROVE m + 1 \in 0 .. n /\ W[m + 1] \in S
      OBVIOUS
    <3>1. m + 1 \in 1 .. n /\ (m + 1) - 1 = m
      BY <1>1
    <3>2. W[m + 1] = WithChildren(W[m])
      BY <1>9, <3>1
    <3> QED BY <1>2, <3>1, <3>2
  <2>3. P \in SUBSET (0 .. n)
    OBVIOUS
  <2>4. P = 0 .. n
    <3> HIDE DEF P, n
    <3> QED BY <1>1, <2>1, <2>2, <2>3, Upwards
  <2> QED BY <2>4
<1>11. W \in [0 .. n -> SUBSET (1 .. n)]
  BY <1>9, <1>10 DEF S
<1> QED BY <1>8, <1>9, <1>11 DEF top

\* What the nodes under i are all in, and that i is one of them.
LEMMA UnderWithin ==
  ASSUME Inv, NEW i \in 0 .. Used, NEW M, i # 0 => i \in M, \A some \in SUBSET M : WithChildren(some) \subseteq M
  PROVE  Under(i) \subseteq M /\ (i # 0 => i \in Under(i))
<1> DEFINE n == Used
<1>1. n \in Nat
  BY TypedTree
<1>2. PICK W \in [0 .. n -> SUBSET (1 .. n)] :
        /\ W[0] = {i} \ {0} /\ Under(i) = W[n]
        /\ \A m \in 1 .. n : W[m] = WithChildren(W[m - 1])
  BY UnderSteps
<1> DEFINE P == {m \in 0 .. n : W[m] \subseteq M /\ (i # 0 => i \in W[m])}
<1>3. 0 \in P
  BY <1>1, <1>2
<1>4. \A m \in 0 .. n - 1 : m \in P => m + 1 \in P
  <2> SUFFICES ASSUME NEW m \in 0 .. n - 1, m \in P PROVE m + 1 \in P
    OBVIOUS
  <2>1. m + 1 \in 1 .. n /\ (m + 1) - 1 = m /\ m + 1 \in 0 .. n
    BY <1>1
  <2>2. W[m + 1] = WithChildren(W[m])
    BY <1>2, <2>1
  <2>3. W[m] \subseteq WithChildren(W[m])
    BY DEF WithChildren
  <2>4. WithChildren(W[m]) \subseteq M
    OBVIOUS
  <2> QED BY <2>1, <2>2, <2>3, <2>4
<1>5. P \in SUBSET (0 .. n)
  OBVIOUS
<1>6. n \in P
  <2> HIDE DEF P, n
  <2>1. P = 0 .. n
    BY <1>1, <1>3, <1>4, <1>5, Upwards
  <2> QED BY <1>1, <2>1
<1> QED BY <1>2, <1>6

\* Nothing is under no node.
LEMMA UnderNone ==
  ASSUME Inv
  PROVE  Under(0) = {}
<1>1. 0 \in 0 .. Used
  BY TypedTree
<1> DEFINE M == {}
<1>2. \A some \in SUBSET M : WithChildren(some) \subseteq M
  BY WithChildrenIn
<1> HIDE DEF M
<1>3. Under(0) \subseteq M
  BY <1>1, <1>2, UnderWithin
<1> QED BY <1>3 DEF M

\* A node is not under its children.
LEMMA UnderChild ==
  ASSUME Inv, NEW span, SearchTree(Used, Keyed, Linked, span),
         NEW i \in 1 .. Used, NEW s \in {Left, Right}
  PROVE  i \in Under(i) /\ i \notin Under(Linked[RelaIndex(s, i)])
<1> DEFINE n == Used
           c == Linked[RelaIndex(s, i)]
           M == {m \in 1 .. n : span[m] \subseteq span[c]}
<1>0. /\ n \in 0 .. IdxMax /\ n \in Nat /\ Sound(hash.nodes, n)
      /\ Linked \in [SlotsOf(n) -> 0 .. n] /\ RelaIndex(s, i) \in SlotsOf(n)
  BY TypedTree, SideSlots
<1>1. i \in Under(i)
  <2>1. \A some \in SUBSET (1 .. n) : WithChildren(some) \subseteq 1 .. n
    BY ChildrenPlaced
  <2>2. i \in 0 .. Used /\ i # 0
    BY <1>0
  <2> QED BY <2>1, <2>2, UnderWithin
<1>3. ASSUME c # 0 PROVE i \notin Under(c)
  <2>1. c \in 1 .. n
    BY <1>0, <1>3
  <2>2. span[c] = Room(Keyed, span, RelaIndex(s, i))
    BY <1>0, <1>3 DEF SearchTree, Hung
  <2>3. Keyed[i] \in span[i] /\ Keyed[i] \notin span[c]
    <3>1. Keyed[i] \in Keys /\ Keyed[i] \in span[i]
      BY DEF SearchTree, Spanned
    <3> QED BY <1>0, <2>2, <3>1, SideRoom, Sides
  <2> HIDE DEF c
  <2>4. \A some \in SUBSET M : WithChildren(some) \subseteq M
    <3>1. ASSUME NEW j \in M, NEW t \in {Left, Right}, Linked[RelaIndex(t, j)] # 0
          PROVE  Linked[RelaIndex(t, j)] \in M
      <4>1. j \in 1 .. n /\ span[j] \subseteq span[c]
        OBVIOUS
      <4>2. RelaIndex(t, j) \in SlotsOf(n) /\ Room(Keyed, span, RelaIndex(t, j)) \subseteq span[j]
        BY <1>0, <4>1, SideSlots, SideRoom
      <4>3. Linked[RelaIndex(t, j)] \in 1 .. n /\ span[Linked[RelaIndex(t, j)]] = Room(Keyed, span, RelaIndex(t, j))
        BY <1>0, <3>1, <4>2 DEF SearchTree, Hung
      <4> QED BY <4>1, <4>2, <4>3
    <3>2. \A j \in 1 .. n : /\ Linked[RelaIndex(Left, j)] = hash.nodes[j].left
                            /\ Linked[RelaIndex(Right, j)] = hash.nodes[j].right
      BY <1>0, LinkValues DEF Linked
    <3>3. M \subseteq 1 .. n
      OBVIOUS
    <3> HIDE DEF M
    <3>4. \A j \in M : /\ hash.nodes[j].left # 0 => hash.nodes[j].left \in M
                       /\ hash.nodes[j].right # 0 => hash.nodes[j].right \in M
      BY <3>1, <3>2, <3>3
    <3> QED BY <3>4, WithChildrenIn
  <2>5. c \in M /\ c \in 0 .. n
    BY <1>0, <2>1
  <2>6. i \notin M
    BY <2>3
  <2> HIDE DEF M
  <2>7. Under(c) \subseteq M
    BY <2>4, <2>5, UnderWithin
  <2> QED BY <2>6, <2>7
<1>4. i \notin Under(c)
  BY <1>3, UnderNone
<1> QED BY <1>1, <1>4

\* No call goes round in circles: each level a search or an insertion walks
\* down leaves nodes behind that are not under it any more.
THEOREM CallsComeBack == Spec => CallsAdvance
<1>1. TreeInv /\ TreeInv' /\ [Next]_vars =>
        [op.pc # "idle" /\ op'.pc = op.pc => Under(Standing) = {} \/ Under(Standing') # Under(Standing)]_vars
  <2> SUFFICES ASSUME TreeInv, TreeInv', Next, op.pc # "idle", op'.pc = op.pc, Under(Standing) # {},
                      vars' # vars
               PROVE  Under(Standing') # Under(Standing)
    OBVIOUS
  <2>0. Inv
    BY DEF TreeInv
  <2>s. PICK span : SearchTree(Used, Keyed, Linked, span)
    BY DEF TreeInv
  <2>a. Standing # 0
    BY <2>0, UnderNone
  <2>r. \A i \in 1 .. Used : /\ Linked[RelaIndex(Left, i)] = hash.nodes[i].left
                             /\ Linked[RelaIndex(Right, i)] = hash.nodes[i].right
                             /\ RelaIndex(Left, i) \in SlotsOf(Used) /\ RelaIndex(Right, i) \in SlotsOf(Used)
    BY <2>0, TypedTree, LinkValues, SideSlots DEF Linked
  <2>1. CASE op.pc = "search"
    <3>1. LookFurther \/ EndSearch
      BY <2>1 DEF Next, Progress, BeginInsert, BeginSearch, Descend, Duplicate, Place, PlaceRefused,
                  PlaceOverrun, FixUp, FixUpAt, EndInsert, Undefined
    <3>2. ~EndSearch
      BY <2>1 DEF EndSearch, Finish, NoOp
    <3>3. Standing = op.at /\ op.at \in 1 .. Used /\ Standing' = op'.at
      <4>1. Standing = op.at /\ Standing' = op'.at
        BY <2>1 DEF Standing
      <4>2. op.at \in 0 .. Used
        BY <2>0, <2>1, SearchTyped
      <4> QED BY <2>0, <2>a, <4>1, <4>2, TypedTree
    <3> DEFINE s == IF op.key > hash.nodes[op.at].key THEN Right ELSE Left
    <3>4. op'.at = Linked[RelaIndex(s, op.at)]
      BY <2>r, <3>1, <3>2, <3>3 DEF LookFurther, Looking
    <3>5. s \in {Left, Right}
      OBVIOUS
    <3> HIDE DEF s
    <3> QED BY <2>0, <2>s, <3>3, <3>4, <3>5, UnderChild
  <2>2. CASE op.pc = "descend"
    <3>0. Standing = Here /\ Standing' = Here'
      BY <2>2 DEF Standing
    <3>1. Descend
      <4>1. Descend \/ Duplicate \/ Place \/ PlaceRefused \/ PlaceOverrun \/ Undefined
        BY <2>2 DEF Next, Progress, BeginInsert, BeginSearch, FixUp, FixUpAt, EndInsert, LookFurther, EndSearch
      <4>2. ~Duplicate
        BY <2>2 DEF Duplicate, Finish, NoOp
      <4>3. ~Place /\ ~PlaceRefused /\ ~PlaceOverrun
        BY <2>a, <3>0 DEF Place, PlaceRefused, PlaceOverrun
      <4> QED BY <4>1, <4>2, <4>3 DEF Undefined
    <3>2. op.at \in SlotsOf(Used) /\ Here \in 1 .. Used
      <4>1. op.at \in SlotsOf(Used)
        BY <2>0, <2>2, DescendTyped
      <4> QED BY <2>0, <2>a, <3>0, <4>1, TypedTree, SlotInRange DEF Here
    <3> DEFINE s == IF op.key > hash.nodes[Here].key THEN Right ELSE Left
    <3>3. op'.at = RelaIndex(s, Here) /\ hash' = hash
      BY <3>1 DEF Descend, Descending
    <3>4. s \in {Left, Right}
      OBVIOUS
    <3> HIDE DEF s
    <3>5. Here' = Linked[RelaIndex(s, Here)]
      <4>1. RelaIndex(s, Here) \in SlotsOf(Used)
        BY <2>r, <3>2, <3>4
      <4> QED BY <2>0, <3>3, <4>1, TypedTree DEF Here
    <3> QED BY <2>0, <2>s, <3>0, <3>2, <3>4, <3>5, UnderChild
  <2> QED BY <2>1, <2>2, <2>a DEF Standing
<1> QED BY InitTree, StepTree, <1>1, PTL DEF Spec, CallsAdvance

-----------------------------------------------------------------------------
(* The abstract map. *)

\* The abstract map: every key at its index, and as many of them as nodes.
LEMMA MapFacts ==
  ASSUME TreeInv
  PROVE  /\ Map = [k \in {Keyed[i] : i \in 1 .. Used} |-> Map[k]]
         /\ DOMAIN Map = {Keyed[i] : i \in 1 .. Used}
         /\ \A i \in 1 .. Used : Map[Keyed[i]] = i
         /\ Cardinality(DOMAIN Map) = Used
<1> DEFINE n == Used
           D == {Keyed[i] : i \in 1 .. n}
<1>0. /\ n \in Nat /\ \A i \in 1 .. n : Keyed[i] = hash.nodes[i].key
      /\ Keyed \in [1 .. n -> Keys]
  BY TypedTree DEF TreeInv
<1>1. PICK span : SearchTree(n, Keyed, Linked, span)
  BY DEF TreeInv
<1>2. \A i, j \in 1 .. n : Keyed[i] = Keyed[j] => i = j
  BY <1>1 DEF SearchTree, Spanned, OneWay
<1>3. {hash.nodes[i].key : i \in Placed} = D
  BY <1>0 DEF Placed
<1>4. Map = [k \in D |-> CHOOSE i \in Placed : hash.nodes[i].key = k]
  BY <1>3 DEF Map
<1> HIDE DEF n, D
<1>5. DOMAIN Map = D /\ Map = [k \in D |-> Map[k]]
  BY <1>4
<1>6. ASSUME NEW i \in 1 .. n PROVE Map[Keyed[i]] = i
  <2>1. Keyed[i] \in D
    BY DEF D
  <2>2. Map[Keyed[i]] = CHOOSE j \in Placed : hash.nodes[j].key = Keyed[i]
    BY <1>4, <2>1
  <2>3. i \in Placed /\ hash.nodes[i].key = Keyed[i]
    BY <1>0 DEF Placed, n
  <2>4. (CHOOSE j \in Placed : hash.nodes[j].key = Keyed[i]) \in Placed
        /\ hash.nodes[CHOOSE j \in Placed : hash.nodes[j].key = Keyed[i]].key = Keyed[i]
    BY <2>3
  <2>5. Map[Keyed[i]] \in 1 .. n /\ Keyed[Map[Keyed[i]]] = Keyed[i]
    BY <1>0, <2>2, <2>4 DEF Placed, n
  <2> QED BY <1>2, <2>5
<1>7. Cardinality(D) = n
  <2>1. Keyed \in Surjection(1 .. n, D) /\ Keyed \in Injection(1 .. n, D)
    <3>1. Keyed \in [1 .. n -> D]
      BY <1>0 DEF D
    <3>2. \A t \in D : \E s \in 1 .. n : Keyed[s] = t
      BY DEF D
    <3> QED BY <1>2, <3>1, <3>2 DEF Surjection, Injection, IsInjective
  <2>2. IsFiniteSet(1 .. n) /\ Cardinality(1 .. n) = n
    BY <1>0, FS_Interval
  <2> QED BY <2>1, <2>2, FS_Surjection
<1> QED BY <1>5, <1>6, <1>7 DEF D, n

\* It changes only with the keys.
LEMMA MapStays ==
  ASSUME TreeInv, TreeInv', Used' = Used, Keyed' = Keyed
  PROVE  Map' = Map
<1> DEFINE D == {Keyed[i] : i \in 1 .. Used}
<1>1. Map = [k \in D |-> Map[k]] /\ \A i \in 1 .. Used : Map[Keyed[i]] = i
  BY MapFacts
<1>2. (TreeInv => /\ Map = [k \in {Keyed[i] : i \in 1 .. Used} |-> Map[k]]
                  /\ \A i \in 1 .. Used : Map[Keyed[i]] = i)'
  BY MapFacts, PTL
<1>3. Map' = [k \in D |-> Map'[k]] /\ \A i \in 1 .. Used : Map'[Keyed[i]] = i
  BY <1>2
<1>4. \A k \in D : Map'[k] = Map[k]
  BY <1>1, <1>3
<1> QED BY <1>1, <1>3, <1>4

\* A new key comes after the others, and rotations move none.
LEMMA PlaceKeys ==
  ASSUME Inv, Place
  PROVE  /\ Used' = Used + 1 /\ Keyed'[Used + 1] = op.key
         /\ \A i \in 1 .. Used : Keyed'[i] = Keyed[i]
<1> DEFINE n == Used
           app == Append(hash.nodes, NewNode(op.key))
           g == Tree(app, hash.root)
<1>0. /\ n \in 0 .. IdxMax /\ n \in Nat /\ hash.root \in 0 .. n /\ Sound(hash.nodes, n)
      /\ hash.nodes \in Seq(Node(n)) /\ Len(hash.nodes) = n
      /\ \A i \in 1 .. n : Keyed[i] = hash.nodes[i].key
  BY TypedTree, TreeSound DEF Inv, Used
<1>1. op.pc = "descend" /\ hash' = SetSlot(g, op.at, n + 1)
  BY DEF Place, Tree
<1>2. op.key \in Keys /\ op.at \in SlotsOf(n) /\ n < IdxMax
  BY <1>1, DescendTyped
<1>3. n + 1 \in 0 .. IdxMax /\ n + 1 \in 1 .. n + 1 /\ op.at \in SlotsOf(n + 1)
  BY <1>0, <1>2, SlotsGrow, IndexAssumption
<1>4. Used' = n + 1
  BY PlaceSound
<1>5. Keyed' = [i \in 1 .. n + 1 |-> hash'.nodes[i].key]
  BY <1>4 DEF Keyed, KeysOf
<1>6. app[n + 1] = NewNode(op.key) /\ \A i \in 1 .. n : app[i] = hash.nodes[i]
  BY <1>0
<1>7. Selector(op.at) = Root \/ (Selector(op.at) \in {Left, Right} /\ TruIndex(op.at) \in 1 .. n + 1)
  BY <1>3, SlotParts
<1>8. app \in Seq(Node(n + 1)) /\ Len(app) = n + 1
  <2>1. NewNode(op.key) \in Node(n + 1) /\ Node(n) \subseteq Node(n + 1)
    BY <1>0, <1>2, <1>3 DEF NewNode, Node
  <2>2. hash.nodes \in Seq(Node(n + 1))
    BY <1>0, <2>1
  <2> QED BY <1>0, <2>1, <2>2
<1> HIDE DEF app
<1>9. Sound(app, n + 1)
  BY <1>8 DEF Sound
<1>10. g.nodes = app /\ g.root = hash.root
  BY TreeFields
<1> HIDE DEF g
<1>11. SameKeys(app, hash'.nodes, n + 1)
  <2>1. g.root \in 0 .. n + 1 /\ n + 1 \in 0 .. n + 1
    BY <1>0, <1>10
  <2> QED BY <1>1, <1>3, <1>9, <1>10, <2>1, SetSlotSound
<1> QED BY <1>0, <1>3, <1>4, <1>5, <1>6, <1>11 DEF SameKeys, NewNode

LEMMA FixUpKeys ==
  ASSUME Inv, FixUp
  PROVE  Used' = Used /\ Keyed' = Keyed
<1> DEFINE slot == Last(op.branch)
<1>1. op.pc = "fixup" /\ op.branch # <<>>
  BY DEF FixUp, FixUpAt
<1>2. slot \in SlotsOf(Used)
  BY <1>1, FixupTyped DEF Last
<1>3. \/ hash' = hash
      \/ Slot(hash, slot) # 0 /\ hash' = FixedUp(hash, slot, Slot(hash, slot))
  BY DEF FixUp, FixUpAt
<1> HIDE DEF slot
<1>4. CASE hash' = hash
  BY <1>4 DEF Used, Keyed, KeysOf
<1>5. CASE Slot(hash, slot) # 0 /\ hash' = FixedUp(hash, slot, Slot(hash, slot))
  <2>1. Sound(hash'.nodes, Used) /\ SameKeys(hash.nodes, hash'.nodes, Used)
    BY <1>2, <1>5, FixedUpSound DEF Inv
  <2>2. Used' = Used
    BY <2>1, SoundIsSeq, TypedTree DEF Used
  <2> QED BY <2>1, <2>2 DEF Keyed, KeysOf, SameKeys
<1> QED BY <1>3, <1>4, <1>5

\* The abstract map, step by step.
LEMMA GrownInit == Init => Grown!Init
<1> SUFFICES ASSUME Init PROVE Grown!Init
  OBVIOUS
<1>1. Used = 0 /\ op = NoOp /\ ret = 0
  BY DEF Init, Used
<1>2. TreeInv
  BY InitTree
<1>3. Map = [k \in {} |-> 0]
  <2>1. {Keyed[i] : i \in 1 .. Used} = {}
    BY <1>1
  <2> QED BY <1>2, <2>1, MapFacts
<1> QED BY <1>1, <1>3 DEF Grown!Init, Grown!NoCall, Served, NoOp

LEMMA GrownCard == \A S : Grown!Cardinality(S) = Cardinality(S)
  BY DEF Grown!Cardinality, Cardinality

LEMMA GrownStep ==
  TreeInv /\ TreeInv' /\ [Next]_vars => Grown!Next \/ (Map' = Map /\ Served' = Served)
<1> SUFFICES ASSUME TreeInv, TreeInv', [Next]_vars
             PROVE  Grown!Next \/ (Map' = Map /\ Served' = Served)
  OBVIOUS
<1> DEFINE n == Used
<1>0. Inv /\ Inv'
  BY DEF TreeInv
<1>a. /\ n \in 0 .. IdxMax /\ n \in Nat
      /\ \A i \in 1 .. n : Keyed[i] = hash.nodes[i].key
  BY <1>0, TypedTree
<1>m. /\ DOMAIN Map = {Keyed[i] : i \in 1 .. n} /\ \A i \in 1 .. n : Map[Keyed[i]] = i
      /\ Grown!Size = n
  BY MapFacts, GrownCard DEF Grown!Size
<1>s. PICK span : SearchTree(n, Keyed, Linked, span) /\ CallFits(n, Keyed, Linked, span)
  BY DEF TreeInv
<1>u. ASSUME UNCHANGED hash PROVE Map' = Map
  BY <1>u DEF Map, Placed, Used
<1>1. CASE \E k \in Keys, strict \in BOOLEAN : BeginInsert(k, strict)
  <2>1. PICK k \in Keys, strict \in BOOLEAN : BeginInsert(k, strict)
    BY <1>1
  <2>2. op.pc = "idle" /\ UNCHANGED hash
    BY <2>1 DEF BeginInsert
  <2>3. Served.kind = "none" /\ Map' = Map
    BY <1>u, <2>2 DEF Served
  <2>4. Served' = IF n = IdxMax THEN [kind |-> "none", result |-> 0]
                     ELSE [kind |-> "insert", key |-> k, strict |-> strict]
    <3>1. CASE n = IdxMax
      <4>1. op' = NoOp /\ ret' = 0
        BY <2>1, <3>1 DEF BeginInsert, Finish
      <4> QED BY <3>1, <4>1 DEF NoOp, Served
    <3>2. CASE n # IdxMax
      <4>1. op'.pc = "descend" /\ op'.key = k /\ op'.strict = strict
        <5>1. PICK kept : op' = Descending(k, strict, TheRoot, <<>>, kept)
          BY <2>1, <3>2 DEF BeginInsert
        <5> QED BY <5>1 DEF Descending
      <4> QED BY <3>2, <4>1 DEF Served
    <3> QED BY <3>1, <3>2
  <2>5. Grown!Call
    BY <1>m, <2>3, <2>4 DEF Grown!Call, Grown!Idle, Grown!NoCall, Grown!Inserting
  <2> QED BY <2>5 DEF Grown!Next
<1>2. CASE \E k \in Keys : BeginSearch(k)
  <2>1. PICK k \in Keys : BeginSearch(k)
    BY <1>2
  <2>2. op.pc = "idle" /\ UNCHANGED hash
    BY <2>1 DEF BeginSearch
  <2>3. Served.kind = "none" /\ Map' = Map
    BY <1>u, <2>2 DEF Served
  <2>4. Served' = [kind |-> "search", key |-> k]
    BY <2>1 DEF BeginSearch, Looking, Served
  <2>5. Grown!Call
    BY <2>3, <2>4 DEF Grown!Call, Grown!Idle, Grown!Searching
  <2> QED BY <2>5 DEF Grown!Next
<1>3. CASE Descend
  <2>1. Map' = Map
    BY <1>3, <1>u DEF Descend
  <2>2. op.pc = "descend" /\ op'.pc = "descend" /\ op'.key = op.key /\ op'.strict = op.strict
    BY <1>3 DEF Descend, Descending
  <2>3. Served' = Served
    BY <2>2 DEF Served
  <2> QED BY <2>1, <2>3
<1>4. CASE Duplicate
  <2>1. /\ op.pc = "descend" /\ Here # 0 /\ hash.nodes[Here].key = op.key /\ UNCHANGED hash
        /\ op' = NoOp /\ ret' = IF op.strict THEN 0 ELSE Here
    BY <1>4 DEF Duplicate, Finish
  <2>2. Here \in 1 .. n
    <3>1. Here \in 0 .. n
      BY <1>0, <2>1, DescendTyped, TypedTree, SlotInRange DEF Here
    <3> QED BY <1>a, <2>1, <3>1
  <2>3. op.key \in DOMAIN Map /\ Map[op.key] = Here
    BY <1>a, <1>m, <2>1, <2>2
  <2>4. Served = [kind |-> "insert", key |-> op.key, strict |-> op.strict]
    BY <2>1 DEF Served
  <2>5. Served' = [kind |-> "none", result |-> IF op.strict THEN 0 ELSE Here]
    BY <2>1 DEF Served, NoOp
  <2>6. Map' = Map
    BY <1>u, <2>1
  <2>7. Grown!Known
    BY <2>3, <2>4, <2>5, <2>6 DEF Grown!Known, Grown!NoCall
  <2> QED BY <2>7 DEF Grown!Next
<1>5. CASE Place
  <2>1. op.pc = "descend" /\ Here = 0 /\ op' = Fixing(n + 1, op.branch)
    BY <1>5 DEF Place
  <2>2. op.at \in SlotsOf(n) /\ Linked[op.at] = 0
    <3>1. op.at \in SlotsOf(n)
      BY <1>0, <2>1, DescendTyped
    <3> QED BY <1>0, <2>1, <3>1, TypedTree DEF Here
  <2>3. \A j \in 1 .. n : Keyed[j] # op.key
    BY <1>s, <2>1, <2>2 DEF CallFits, SearchTree, Filled
  <2>4. op.key \notin DOMAIN Map
    BY <1>m, <2>3
  <2>5. Used' = n + 1 /\ Keyed'[n + 1] = op.key /\ \A i \in 1 .. n : Keyed'[i] = Keyed[i]
    BY <1>0, <1>5, PlaceKeys
  <2>6. /\ Map' = [k \in {Keyed'[i] : i \in 1 .. n + 1} |-> Map'[k]]
        /\ \A i \in 1 .. n + 1 : Map'[Keyed'[i]] = i
    <3>1. (TreeInv => /\ Map = [k \in {Keyed[i] : i \in 1 .. Used} |-> Map[k]]
                      /\ \A i \in 1 .. Used : Map[Keyed[i]] = i)'
      BY MapFacts, PTL
    <3> QED BY <2>5, <3>1
  <2>7. {Keyed'[i] : i \in 1 .. n + 1} = DOMAIN Map \cup {op.key}
    <3>1. 1 .. n + 1 = (1 .. n) \cup {n + 1}
      BY <1>a
    <3> QED BY <1>m, <2>5, <3>1
  <2>8. \A k \in DOMAIN Map \cup {op.key} : Map'[k] = IF k = op.key THEN n + 1 ELSE Map[k]
    <3>1. n + 1 \in 1 .. n + 1 /\ 1 .. n \subseteq 1 .. n + 1
      BY <1>a
    <3>2. Map'[op.key] = n + 1
      BY <2>5, <2>6, <3>1
    <3>3. ASSUME NEW k \in DOMAIN Map PROVE Map'[k] = Map[k]
      <4>1. PICK i \in 1 .. n : k = Keyed[i]
        BY <1>m
      <4> QED BY <1>m, <2>5, <2>6, <3>1, <4>1
    <3> QED BY <2>4, <3>2, <3>3
  <2>9. Map' = [k \in DOMAIN Map \cup {op.key} |-> IF k = op.key THEN n + 1 ELSE Map[k]]
    <3>1. Map' = [k \in DOMAIN Map \cup {op.key} |-> Map'[k]]
      BY <2>6, <2>7
    <3> QED BY <2>8, <3>1
  <2>10. Served = [kind |-> "insert", key |-> op.key, strict |-> op.strict]
    BY <2>1 DEF Served
  <2>11. Served' = [kind |-> "leave", result |-> n + 1]
    BY <2>1 DEF Served, Fixing
  <2>12. Grown!Add
    BY <1>m, <2>4, <2>9, <2>10, <2>11 DEF Grown!Add, Grown!Leaving
  <2> QED BY <2>12 DEF Grown!Next
<1>6. CASE PlaceRefused
  <2>1. op.pc = "descend" /\ n = 0 /\ op' = Fixing(op.at, op.branch) /\ UNCHANGED hash
    BY <1>6 DEF PlaceRefused
  <2>2. op.at = TheRoot
    <3>1. op.at \in SlotsOf(0)
      BY <1>0, <2>1, DescendTyped
    <3> QED BY <3>1 DEF SlotsOf
  <2>3. Served = [kind |-> "insert", key |-> op.key, strict |-> op.strict]
    BY <2>1 DEF Served
  <2>4. Served' = [kind |-> "leave", result |-> TheRoot]
    BY <2>1, <2>2 DEF Served, Fixing
  <2>5. Map' = Map
    BY <1>u, <2>1
  <2>6. Grown!Refuse
    BY <1>m, <2>1, <2>3, <2>4, <2>5 DEF Grown!Refuse, Grown!Leaving
  <2> QED BY <2>6 DEF Grown!Next
<1>7. CASE PlaceOverrun
  <2>1. UNCHANGED <<hash, op>> /\ op.pc = "descend"
    BY <1>7 DEF PlaceOverrun
  <2>2. Served' = Served
    BY <2>1 DEF Served
  <2> QED BY <1>u, <2>1, <2>2
<1>8. CASE FixUp
  <2>1. op.pc = "fixup" /\ op'.pc = "fixup" /\ op'.at = op.at
    BY <1>8 DEF FixUp, FixUpAt, Fixing
  <2>2. Served' = Served
    BY <2>1 DEF Served
  <2>3. Used' = Used /\ Keyed' = Keyed
    BY <1>0, <1>8, FixUpKeys
  <2>4. Map' = Map
    BY <2>3, MapStays
  <2> QED BY <2>2, <2>4
<1>9. CASE EndInsert
  <2>1. op.pc = "fixup" /\ op' = NoOp /\ ret' = op.at /\ UNCHANGED hash
    BY <1>9 DEF EndInsert, Finish
  <2>2. Served = [kind |-> "leave", result |-> op.at] /\ Served' = [kind |-> "none", result |-> op.at]
    BY <2>1 DEF Served, NoOp
  <2>3. Grown!Leave
    BY <1>u, <2>1, <2>2 DEF Grown!Leave, Grown!NoCall
  <2> QED BY <2>3 DEF Grown!Next
<1>10. CASE LookFurther
  <2>1. op.pc = "search" /\ op'.pc = "search" /\ op'.key = op.key /\ UNCHANGED hash
    BY <1>10 DEF LookFurther, Looking
  <2>2. Served' = Served
    BY <2>1 DEF Served
  <2> QED BY <1>u, <2>1, <2>2
<1>11. CASE EndSearch
  <2>1. /\ op.pc = "search" /\ op' = NoOp /\ ret' = op.at /\ UNCHANGED hash
        /\ op.at # 0 => hash.nodes[op.at].key = op.key
    BY <1>11 DEF EndSearch, Finish
  <2>2. Served = [kind |-> "search", key |-> op.key] /\ Served' = [kind |-> "none", result |-> op.at]
    BY <2>1 DEF Served, NoOp
  <2>3. op.at = IF op.key \in DOMAIN Map THEN Map[op.key] ELSE 0
    <3>1. CASE op.at = 0
      <4>1. \A i \in 1 .. n : Keyed[i] # op.key
        BY <1>s, <2>1, <3>1 DEF CallFits
      <4> QED BY <1>m, <3>1, <4>1
    <3>2. CASE op.at # 0
      <4>1. op.at \in 0 .. n
        BY <1>0, <2>1, SearchTyped
      <4>2. op.at \in 1 .. n
        BY <1>a, <3>2, <4>1
      <4> QED BY <1>a, <1>m, <2>1, <3>2, <4>2
    <3> QED BY <3>1, <3>2
  <2>4. Grown!Search
    BY <1>u, <2>1, <2>2, <2>3 DEF Grown!Search, Grown!NoCall
  <2> QED BY <2>4 DEF Grown!Next
<1>12. CASE Undefined \/ UNCHANGED vars
  <2>1. UNCHANGED <<hash, op, ret>>
    BY <1>12 DEF Undefined, vars
  <2>2. Served' = Served
    BY <2>1 DEF Served
  <2> QED BY <1>u, <2>1, <2>2
<1> QED
  BY <1>1, <1>2, <1>3, <1>4, <1>5, <1>6, <1>7, <1>8, <1>9, <1>10, <1>11, <1>12 DEF Next, Progress

\* Searches and insertions answer as the abstract map does, for every set of
\* keys, every order of calls and every refusal of memory.
THEOREM HashIsGrowOnlyMap == Spec => IsGrowOnlyMap
<1>1. TreeInv /\ TreeInv' /\ [Next]_vars => [Grown!Next]_<<Map, Served>>
  BY GrownStep
<1> QED BY InitTree, StepTree, GrownInit, <1>1, PTL DEF Spec, IsGrowOnlyMap, Grown!Spec
=============================================================================
