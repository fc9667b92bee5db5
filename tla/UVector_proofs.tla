--------------------------- MODULE UVector_proofs ---------------------------
(***************************************************************************)
(* Proofs about UVector, CxxArray and UStr, for all widths, sizes and      *)
(* numbers of vectors, arrays and lists of strings.                        *)
(*                                                                         *)
(* FieldsInOrder is not inductive by itself: that growth makes room for    *)
(* one more item depends on the block length computed from "allocated"     *)
(* being the true one, which a truncation to int could spoil.  Exact says  *)
(* that it cannot while the vector is below idx_max.  An array may grow at *)
(* idx_max too: Decent says that its claim is exact also there, unless it  *)
(* was refused.                                                            *)
(*                                                                         *)
(* Of lists, Frame says what is so of every list, and Sound what is so of  *)
(* one whose blocks are its own and as long as it claims: where each       *)
(* string is, that it ends there, and that nothing but NULs follows the    *)
(* last.  TwinsAgree keeps the lists that share offsets apart from the     *)
(* others, and Progress follows a range that is being appended.            *)
(***************************************************************************)
EXTENDS MCUVector, WellFoundedInduction, FiniteSetTheorems, SequenceTheorems, TLAPS

Half(y) == 2 * y < IntSpan

\* The bytes a vector claims fit a whole number of blocks that an int can say.
Exact(w) ==
  w.allocated < IdxMax =>
    \E m \in Nat : ItemSize * w.allocated <= BlockSize * m /\ Half(BlockSize * m)

Good(w) ==
  /\ w \in Vector
  /\ w.used <= w.allocated /\ w.allocated <= IdxMax
  /\ ~w.denied => w.allocated <= Len(w.mem)
  /\ Exact(w)

Inv ==
  /\ vec \in [Vecs -> {w \in Vector : Good(w)}]
  /\ fault \in {"none", "overrun", "null copy"}

-----------------------------------------------------------------------------
(* Arithmetic. *)

LEMMA DivMod ==
  ASSUME NEW x \in Nat, NEW b \in Nat \ {0}
  PROVE  /\ x \div b \in Nat /\ x % b \in Nat /\ x % b < b
         /\ x = b * (x \div b) + (x % b)
  BY Z3

LEMMA MulMono ==
  ASSUME NEW b \in Nat, NEW x \in Nat, NEW y \in Nat, x <= y
  PROVE  b * x <= b * y /\ b * x \in Nat /\ b * y \in Nat
  BY Z3

LEMMA MulCancel ==
  ASSUME NEW b \in Nat \ {0}, NEW x \in Nat, NEW y \in Nat, b * x < b * y
  PROVE  x < y
<1>1. ~(y <= x)
  BY MulMono
<1> QED BY <1>1

LEMMA FromIntShape ==
  ASSUME NEW x \in Nat
  PROVE  /\ FromInt(x) \in Nat
         /\ \/ FromInt(x) >= SizeSpan - IntSpan
            \/ FromInt(x) = x % IntSpan /\ Half(FromInt(x))
<1>1. x % IntSpan \in Nat /\ x % IntSpan < IntSpan
  BY DivMod, WidthAssumption
<1> QED BY <1>1, WidthAssumption DEF FromInt, Half

\* What a multiple of BlockSize leaves when it wraps is one too.
LEMMA MultipleWraps ==
  ASSUME NEW m \in Nat
  PROVE  /\ BlockSize * m \in Nat
         /\ \E n \in Nat : (BlockSize * m) % IntSpan = BlockSize * n
<1> DEFINE x == BlockSize * m
           r == x % IntSpan
           j == IntSpan \div BlockSize
           q == x \div IntSpan
<1>0. BlockSize \in Nat \ {0} /\ IntSpan \in Nat \ {0} /\ x \in Nat
  BY WidthAssumption, MulMono
<1>1. j \in Nat /\ IntSpan = BlockSize * j
  BY <1>0, DivMod, GrowthAssumption
<1>2. q \in Nat /\ r \in Nat /\ x = IntSpan * q + r
  BY <1>0, DivMod
<1>3. j * q \in Nat /\ IntSpan * q = BlockSize * (j * q)
  <2>1. (BlockSize * j) * q = BlockSize * (j * q)
    BY <1>0, <1>1, <1>2, Z3
  <2> QED BY <2>1, <1>1, <1>2, MulMono
<1>4. r = BlockSize * (m - j * q)
  <2>1. BlockSize * (m - j * q) = BlockSize * m - BlockSize * (j * q)
    BY <1>0, <1>3, Z3
  <2> QED BY <2>1, <1>0, <1>2, <1>3
<1>5. m - j * q \in Nat
  <2>1. CASE m < j * q
    <3>1. BlockSize * m < BlockSize * (j * q)
      <4>1. BlockSize * (m + 1) <= BlockSize * (j * q)
        BY <2>1, <1>0, <1>3, MulMono
      <4>2. BlockSize * (m + 1) = BlockSize * m + BlockSize
        BY <1>0, Z3
      <4> QED BY <4>1, <4>2, <1>0, <1>3
    <3> QED BY <3>1, <1>0, <1>2, <1>3
  <2> QED BY <2>1, <1>3
<1> QED BY <1>0, <1>4, <1>5

\* A block length is exact, or so large that no vector can use all of it.
Shape(y) ==
  /\ y \in Nat
  /\ \/ y >= SizeSpan - IntSpan
     \/ Half(y) /\ \E m \in Nat : y = BlockSize * m

LEMMA RoundDown ==
  ASSUME NEW x \in Nat
  PROVE  /\ x \div BlockSize \in Nat /\ x % BlockSize \in Nat
         /\ x - (x % BlockSize) = BlockSize * (x \div BlockSize)
         /\ x - (x % BlockSize) \in Nat
         /\ BlockSize * (x \div BlockSize) + BlockSize
              = BlockSize * ((x \div BlockSize) + 1)
<1>1. BlockSize \in Nat \ {0}
  BY WidthAssumption
<1>2. /\ x \div BlockSize \in Nat /\ x % BlockSize \in Nat
      /\ x = BlockSize * (x \div BlockSize) + (x % BlockSize)
  BY <1>1, DivMod
<1>3. BlockSize * (x \div BlockSize) \in Nat
  BY <1>1, <1>2, MulMono
<1>4. \A k \in Nat : BlockSize * k + BlockSize = BlockSize * (k + 1)
  BY <1>1, Z3
<1> QED BY <1>2, <1>3, <1>4

LEMMA BlockAlignShape ==
  ASSUME NEW x \in Nat
  PROVE  Shape(BlockAlign(x))
<1>0. /\ BlockSize \in Nat \ {0} /\ SizeSpan \in Nat /\ IntSpan \in Nat \ {0}
      /\ SizeSpan - IntSpan \in Nat
  BY WidthAssumption
<1>1. CASE x = 0
  <2>1. BlockAlign(x) = BlockSize * 0 /\ Half(BlockAlign(x))
    BY <1>0, <1>1 DEF BlockAlign, Half
  <2> QED BY <2>1, <1>0, <1>1 DEF Shape, BlockAlign
<1>2. CASE x # 0
  <2> DEFINE q    == x \div BlockSize
             down == x - (x % BlockSize)
             up   == IF x = down THEN x ELSE down + BlockSize
             y    == IF up < SizeSpan THEN up ELSE down
  <2>1. q \in Nat /\ down = BlockSize * q /\ down + BlockSize = BlockSize * (q + 1)
    BY RoundDown
  <2>2. \E k \in Nat : y = BlockSize * k
    BY <2>1
  <2>3. PICK k \in Nat : y = BlockSize * k
    BY <2>2
  <2>4. y \in Nat /\ \E n \in Nat : y % IntSpan = BlockSize * n
    BY <2>3, MultipleWraps
  <2>5. BlockAlign(x) = FromInt(y)
    BY <1>2 DEF BlockAlign, RoundBy
  <2> HIDE DEF y
  <2> QED BY <2>4, <2>5, FromIntShape DEF Shape
<1> QED BY <1>1, <1>2

LEMMA WantReallocShape ==
  ASSUME NEW length \in Nat, NEW extend \in Nat
  PROVE  LET n == WantRealloc(length, extend)
         IN  n \in Nat /\ (n # 0 => Shape(n) /\ n >= length + extend)
<1>1. length + extend \in Nat
  OBVIOUS
<1>2. Shape(BlockAlign(length)) /\ Shape(BlockAlign(length + extend))
  BY <1>1, BlockAlignShape
<1> QED BY <1>1, <1>2 DEF WantRealloc, Shape

LEMMA ClaimFacts ==
  ASSUME NEW n \in Nat
  PROVE  /\ Claim(n) \in Nat /\ Claim(n) <= IdxMax
         /\ n \div ItemSize \in Nat /\ Claim(n) <= n \div ItemSize
         /\ Claim(n) < IdxMax => ItemSize * Claim(n) <= n
         /\ \A k \in Nat : k <= IdxMax /\ ItemSize * k <= n => k <= Claim(n)
<1>0. ItemSize \in Nat \ {0} /\ IdxMax \in Nat
  BY WidthAssumption
<1>1. /\ n \div ItemSize \in Nat /\ n % ItemSize \in Nat /\ n % ItemSize < ItemSize
      /\ n = ItemSize * (n \div ItemSize) + (n % ItemSize)
  BY <1>0, DivMod
<1>2. /\ Claim(n) \in Nat /\ Claim(n) <= IdxMax /\ Claim(n) <= n \div ItemSize
      /\ Claim(n) < IdxMax => Claim(n) = n \div ItemSize
      /\ Claim(n) = IdxMax \/ Claim(n) = n \div ItemSize
  BY <1>0, <1>1 DEF Claim
<1>3. ItemSize * (n \div ItemSize) \in Nat
  BY <1>0, <1>1, MulMono
<1>4. ASSUME NEW k \in Nat, k <= IdxMax, ItemSize * k <= n
      PROVE  k <= Claim(n)
  <2>1. CASE k > n \div ItemSize
    <3>1. ItemSize * ((n \div ItemSize) + 1) <= ItemSize * k
      BY <2>1, <1>0, <1>1, MulMono
    <3>2. ItemSize * ((n \div ItemSize) + 1) = ItemSize * (n \div ItemSize) + ItemSize
      BY <1>0, <1>1, Z3
    <3>3. ItemSize * k \in Nat
      BY <1>0, MulMono
    <3> QED BY <3>1, <3>2, <3>3, <1>0, <1>1, <1>3, <1>4
  <2> QED BY <2>1, <1>0, <1>1, <1>2, <1>4
<1> QED BY <1>1, <1>2, <1>3, <1>4

\* Below idx_max the rounding of the claimed bytes is exact.
LEMMA AlignExact ==
  ASSUME NEW x \in Nat, NEW m \in Nat, x <= BlockSize * m, Half(BlockSize * m)
  PROVE  /\ BlockAlign(x) \in Nat /\ x <= BlockAlign(x) /\ BlockAlign(x) <= BlockSize * m
         /\ \E k \in Nat : BlockAlign(x) = BlockSize * k
<1>0. /\ BlockSize \in Nat \ {0} /\ SizeSpan \in Nat /\ IntSpan \in Nat \ {0}
      /\ IntSpan <= SizeSpan /\ BlockSize * m \in Nat
  BY WidthAssumption, MulMono
<1>1. CASE x = 0
  <2>1. BlockAlign(x) = 0 /\ BlockSize * 0 = 0
    BY <1>0, <1>1 DEF BlockAlign
  <2> QED BY <2>1, <1>0, <1>1
<1>2. CASE x # 0
  <2> DEFINE q    == x \div BlockSize
             down == x - (x % BlockSize)
             up   == IF x = down THEN x ELSE down + BlockSize
  <2>1. /\ q \in Nat /\ x % BlockSize \in Nat /\ x % BlockSize < BlockSize
        /\ down = BlockSize * q /\ down \in Nat
        /\ down + BlockSize = BlockSize * (q + 1)
    BY RoundDown, DivMod, <1>0
  <2>2. up \in Nat /\ x <= up /\ \E k \in Nat : up = BlockSize * k
    <3>1. CASE x = down
      BY <3>1, <2>1
    <3>2. CASE x # down
      <4>1. up = down + BlockSize /\ q + 1 \in Nat /\ up = BlockSize * (q + 1)
        BY <3>2, <2>1
      <4>2. x = down + (x % BlockSize)
        BY <2>1
      <4>3. up \in Nat /\ x <= up
        BY <4>1, <4>2, <2>1, <1>0
      <4> HIDE DEF up
      <4> QED BY <4>1, <4>3
    <3> QED BY <3>1, <3>2
  <2>3. up <= BlockSize * m
    <3>1. CASE x = down
      BY <3>1
    <3>2. CASE x # down
      <4>1. BlockSize * q < BlockSize * m
        <5>1. down < x
          BY <3>2, <2>1
        <5> QED BY <5>1, <2>1, <1>0
      <4>2. q + 1 <= m
        BY <4>1, <2>1, <1>0, MulCancel
      <4>3. BlockSize * (q + 1) <= BlockSize * m
        BY <4>2, <2>1, <1>0, MulMono
      <4> QED BY <4>3, <3>2, <2>1
    <3> QED BY <3>1, <3>2
  <2>4. up < SizeSpan /\ Half(up)
    BY <2>2, <2>3, <1>0 DEF Half
  <2>5. BlockAlign(x) = FromInt(up)
    BY <1>2, <2>4 DEF BlockAlign, RoundBy
  <2>6. up % IntSpan = up
    <3>1. \A a \in Nat, b \in Nat \ {0} : a < b => a % b = a
      BY Z3
    <3> QED BY <3>1, <2>2, <2>4, <1>0 DEF Half
  <2>7. FromInt(up) = up
    BY <2>2, <2>4, <2>6, <1>0 DEF FromInt, Half
  <2> QED BY <2>2, <2>3, <2>5, <2>7
<1> QED BY <1>1, <1>2

-----------------------------------------------------------------------------
(* Growing. *)

LEMMA SameShape ==
  ASSUME NEW T, NEW s \in Seq(T), NEW f \in [DOMAIN s -> T]
  PROVE  f \in Seq(T) /\ Len(f) = Len(s)
<1>1. Len(s) \in Nat /\ DOMAIN s = 1 .. Len(s)
  OBVIOUS
<1> QED BY <1>1

LEMMA ExtendedFacts ==
  ASSUME NEW mem \in Seq(Items), NEW old \in Nat, NEW n \in Nat
  PROVE  /\ Extended(mem, old, n) \in Seq(Items)
         /\ Len(Extended(mem, old, n)) = n \div ItemSize
<1>1. n \div ItemSize \in Nat
  BY ClaimFacts
<1>2. Extended(mem, old, n) \in [1 .. n \div ItemSize -> Items]
  BY <1>1 DEF Extended, Items
<1> QED BY <1>1, <1>2

LEMMA BlankGood == Good(Blank)
<1>1. IdxMax \in Nat /\ ItemSize \in Nat /\ BlockSize \in Nat /\ IntSpan \in Nat \ {0} /\ IndexSpan \in Nat \ {0}
  BY WidthAssumption
<1>2. Exact(Blank)
  <2>1. ItemSize * 0 <= BlockSize * 0 /\ Half(BlockSize * 0)
    BY <1>1 DEF Half
  <2> QED BY <2>1 DEF Exact, Blank
<1>3. Blank \in Vector /\ Len(Blank.mem) = 0
  BY <1>1 DEF Blank, Vector, Indices
<1> QED BY <1>1, <1>2, <1>3 DEF Good, Blank

\* A block length the code arrived at keeps the claim it leads to exact.
LEMMA ClaimExact ==
  ASSUME NEW n \in Nat, Shape(n), NEW w, w.allocated = Claim(n)
  PROVE  Exact(w)
<1>0. /\ ItemSize \in Nat \ {0} /\ IdxMax \in Nat /\ BlockSize \in Nat
      /\ ItemSize * IdxMax \in Nat /\ ItemSize * IdxMax <= SizeSpan - IntSpan
      /\ SizeSpan - IntSpan \in Nat
  BY WidthAssumption, MulMono
<1>1. SUFFICES ASSUME Claim(n) < IdxMax
               PROVE  \E m \in Nat : /\ ItemSize * Claim(n) <= BlockSize * m
                                     /\ Half(BlockSize * m)
  BY DEF Exact
<1>2. Claim(n) \in Nat /\ ItemSize * Claim(n) <= n
  BY <1>1, ClaimFacts
<1>3. ~(n >= SizeSpan - IntSpan)
  <2>1. SUFFICES ASSUME n >= SizeSpan - IntSpan PROVE FALSE
    OBVIOUS
  <2>2. ItemSize * IdxMax <= n
    BY <2>1, <1>0
  <2>3. IdxMax <= Claim(n)
    BY <2>2, <1>0, ClaimFacts
  <2> QED BY <2>3, <1>0, <1>1, <1>2
<1> QED BY <1>2, <1>3 DEF Shape

\* Items that fit into "bytes" bytes, up to idx_max of them, are claimed.
HasRoomFor(w, bytes) ==
  \A k \in Nat : k <= IdxMax /\ ItemSize * k <= bytes => k <= w.allocated

LEMMA SameFields ==
  ASSUME NEW w, NEW ok, NEW r \in Same(w, ok)
  PROVE  r.vec = w /\ r.ok = ok
BY DEF Same

LEMMA GrowBytesGood ==
  ASSUME NEW w, Good(w), ~(w.allocated >= IdxMax), NEW bytes \in Nat,
         NEW r \in GrowBytes(w, bytes)
  PROVE  /\ Good(r.vec) /\ r.vec.used = w.used
         /\ w.allocated <= r.vec.allocated
         /\ r.ok => \/ /\ w.live /\ w.allocated > 0
                       /\ WantRealloc(BlockAlign(ItemSize * w.allocated), bytes) = 0
                    \/ HasRoomFor(r.vec, ItemSize * w.allocated + bytes)
<1> DEFINE old     == BlockAlign(ItemSize * w.allocated)
           new     == WantRealloc(old, bytes)
           granted == Granted(w, old, new)
           denied  == Denied(w, new)
<1>0. /\ w \in Vector /\ w.allocated \in Nat /\ w.used \in Nat /\ w.used <= w.allocated
      /\ w.mem \in Seq(Items) /\ IdxMax \in Nat /\ IndexSpan \in Nat /\ IdxMax < IndexSpan
      /\ ItemSize \in Nat \ {0} /\ BlockSize \in Nat
  BY WidthAssumption DEF Good, Vector, Indices
<1>1. ItemSize * w.allocated \in Nat
  BY <1>0, MulMono
<1>2. old \in Nat /\ ItemSize * w.allocated <= old
  <2>1. PICK m \in Nat : ItemSize * w.allocated <= BlockSize * m /\ Half(BlockSize * m)
    BY <1>0 DEF Good, Exact
  <2> QED BY <2>1, <1>1, AlignExact
<1>3. new \in Nat /\ (new # 0 => Shape(new) /\ new >= old + bytes)
  BY <1>2, WantReallocShape
<1>4. CASE new = 0
  <2>1. r.vec = w /\ (r.ok <=> w.live /\ w.allocated > 0)
    BY <1>4, SameFields DEF GrowBytes
  <2>2. r.vec = w /\ (r.ok => w.live /\ w.allocated > 0)
    BY <2>1
  <2> QED BY <2>2, <1>0, <1>4
<1>5. CASE new # 0
  <2> HIDE DEF old, new, granted, denied
  <2>1. /\ Claim(new) \in Nat /\ Claim(new) <= IdxMax /\ Claim(new) <= new \div ItemSize
        /\ \A k \in Nat : k <= IdxMax /\ ItemSize * k <= new => k <= Claim(new)
    BY <1>3, ClaimFacts
  <2>2. w.allocated <= Claim(new)
    BY <2>1, <1>0, <1>1, <1>2, <1>3, <1>5
  <2>3. /\ Extended(w.mem, old, new) \in Seq(Items)
        /\ Len(Extended(w.mem, old, new)) = new \div ItemSize
    BY <1>0, <1>2, <1>3, ExtendedFacts
  <2>4. Good(granted) /\ granted.used = w.used /\ granted.allocated = Claim(new)
    <3>1. granted \in Vector /\ granted.allocated = Claim(new) /\ granted.used = w.used
          /\ granted.mem = Extended(w.mem, old, new)
      BY <2>1, <2>3, <1>0 DEF Vector, Indices, Granted, granted
    <3>2. Exact(granted)
      BY <3>1, <1>3, <1>5, ClaimExact
    <3> QED BY <3>1, <3>2, <2>1, <2>2, <2>3, <1>0 DEF Good
  <2>5. Good(denied) /\ denied.used = w.used /\ denied.allocated = Claim(new)
    <3>1. denied \in Vector /\ denied.allocated = Claim(new) /\ denied.used = w.used
          /\ denied.denied
      BY <2>1, <1>0 DEF Vector, Indices, Denied, denied
    <3>2. Exact(denied)
      BY <3>1, <1>3, <1>5, ClaimExact
    <3> QED BY <3>1, <3>2, <2>1, <2>2, <1>0 DEF Good
  <2>6. \/ r \in Same(granted, TRUE)
        \/ r \in Same(denied, TRUE)
        \/ r \in Same(w, FALSE)
    BY <1>5 DEF GrowBytes, old, new, granted, denied
  <2>7. \A k \in Nat : k <= IdxMax /\ ItemSize * k <= ItemSize * w.allocated + bytes
                         => k <= Claim(new)
    <3>1. ASSUME NEW k \in Nat, k <= IdxMax, ItemSize * k <= ItemSize * w.allocated + bytes
          PROVE  k <= Claim(new)
      <4>1. ItemSize * k \in Nat
        BY <1>0, MulMono
      <4>2. ItemSize * k <= new
        BY <4>1, <3>1, <1>1, <1>2, <1>3, <1>5
      <4> QED BY <4>2, <3>1, <2>1
    <3> QED BY <3>1
  <2>71. HasRoomFor(granted, ItemSize * w.allocated + bytes)
         /\ HasRoomFor(denied, ItemSize * w.allocated + bytes)
    BY <2>4, <2>5, <2>7 DEF HasRoomFor
  <2>8. CASE r.vec = granted
    BY <2>8, <2>2, <2>4, <2>71
  <2>9. CASE r.vec = denied
    BY <2>9, <2>2, <2>5, <2>71
  <2>10. CASE r.vec = w /\ ~r.ok
    <3>1. w.allocated <= w.allocated
      BY <1>0
    <3> QED BY <3>1, <2>10, Zenon
  <2>11. r \in Same(granted, TRUE) => r.vec = granted
    BY SameFields
  <2>12. r \in Same(denied, TRUE) => r.vec = denied
    BY SameFields
  <2>13. r \in Same(w, FALSE) => r.vec = w /\ ~r.ok
    BY SameFields
  <2> QED BY <2>6, <2>8, <2>9, <2>10, <2>11, <2>12, <2>13
<1> QED BY <1>4, <1>5

LEMMA GrowByCountGood ==
  ASSUME NEW w, Good(w), NEW count \in Nat, NEW r \in GrowByCount(w, count)
  PROVE  Good(r.vec) /\ r.vec.used = w.used
<1>0. ItemSize * count \in Nat
  BY WidthAssumption, MulMono
<1>1. CASE r \in Same(w, FALSE)
  BY <1>1, SameFields
<1>2. CASE ~(w.allocated >= IdxMax) /\ r \in GrowBytes(w, ItemSize * count)
  BY <1>0, <1>2, GrowBytesGood
<1> QED BY <1>1, <1>2 DEF GrowByCount

LEMMA GrowByBytesGood ==
  ASSUME NEW w, Good(w), NEW bytes \in Nat, NEW r \in GrowByBytes(w, bytes)
  PROVE  Good(r.vec) /\ r.vec.used = w.used
<1>1. CASE r \in Same(w, FALSE)
  BY <1>1, SameFields
<1>2. CASE ~(w.allocated >= IdxMax) /\ r \in GrowBytes(w, bytes)
  BY <1>2, GrowBytesGood
<1> QED BY <1>1, <1>2 DEF GrowByBytes

\* grow_auto() that returns success has room for one more item.
LEMMA GrowAutoRoom ==
  ASSUME NEW w, Good(w), NEW r \in GrowAuto(w)
  PROVE  /\ Good(r.vec) /\ r.vec.used = w.used
         /\ r.ok => w.used < r.vec.allocated
<1>0. /\ w.allocated \in Nat /\ w.used \in Nat /\ w.used <= w.allocated /\ IdxMax \in Nat
      /\ ItemSize \in Nat \ {0} /\ BlockSize \in Nat \ {0} /\ Growth \in Nat \ {0}
      /\ IntSpan \in Nat \ {0} /\ SizeSpan \in Nat /\ IntSpan <= SizeSpan
      /\ ItemSize * w.allocated \in Nat /\ ItemSize <= Growth /\ 2 * Growth <= IntSpan
  <2>1. /\ w.allocated \in Nat /\ w.used \in Nat /\ w.used <= w.allocated
    BY WidthAssumption DEF Good, Vector, Indices
  <2>2. /\ IdxMax \in Nat
        /\ ItemSize \in Nat \ {0} /\ BlockSize \in Nat \ {0} /\ Growth \in Nat \ {0}
        /\ IntSpan \in Nat \ {0} /\ SizeSpan \in Nat
    BY WidthAssumption
  <2>3. IntSpan <= SizeSpan
    BY WidthAssumption
  <2>4. ItemSize * w.allocated \in Nat
    BY <2>1, <2>2, MulMono
  <2>5. ItemSize <= Growth /\ 2 * Growth <= IntSpan
    BY GrowthAssumption
  <2> QED BY <2>1, <2>2, <2>3, <2>4, <2>5, Zenon
<1>1. CASE w.used < w.allocated
  BY <1>0, <1>1, SameFields DEF GrowAuto
<1>2. CASE ~(w.used < w.allocated)
  <2>1. r \in GrowByBytes(w, Growth)
    BY <1>2 DEF GrowAuto
  <2>2. CASE r \in Same(w, FALSE)
    BY <2>2, SameFields, ZenonT(60)
  <2>3. CASE ~(w.allocated >= IdxMax) /\ r \in GrowBytes(w, Growth)
    <3> DEFINE old == BlockAlign(ItemSize * w.allocated)
               b   == old + Growth
    <3>1. PICK m \in Nat : ItemSize * w.allocated <= BlockSize * m /\ Half(BlockSize * m)
      BY <2>3, <1>0 DEF Good, Exact
    <3>2. /\ old \in Nat /\ ItemSize * w.allocated <= old
          /\ old <= BlockSize * m /\ BlockSize * m \in Nat
      BY <3>1, <1>0, AlignExact, MulMono
    <3>3. PICK k \in Nat : old = BlockSize * k
      BY <3>1, <1>0, AlignExact
    <3> HIDE DEF old
    <3>4. Half(old)
      BY <3>1, <3>2, <1>0 DEF Half
    <3>5. BlockAlign(old) = old
      <4>1. BlockAlign(old) \in Nat /\ old <= BlockAlign(old) /\ BlockAlign(old) <= BlockSize * k
        BY <3>2, <3>3, <3>4, AlignExact
      <4> QED BY <4>1, <3>2, <3>3
    <3>6. b \in Nat /\ b > 0 /\ b < IntSpan /\ b < SizeSpan
      BY <3>2, <3>4, <1>0 DEF Half
    <3>7. b % BlockSize = 0
      <4> DEFINE g == Growth \div BlockSize
      <4>1. g \in Nat /\ Growth = BlockSize * g
        BY <1>0, DivMod, GrowthAssumption
      <4>2. BlockSize * k + BlockSize * g = BlockSize * (k + g)
        BY <1>0, <4>1, Z3
      <4>3. b = BlockSize * (k + g) /\ k + g \in Nat
        BY <3>3, <4>1, <4>2
      <4>4. \A n \in Nat : (BlockSize * n) % BlockSize = 0
        <5>1. SUFFICES ASSUME NEW n \in Nat PROVE (BlockSize * n) % BlockSize = 0
          OBVIOUS
        <5> DEFINE x == BlockSize * n
                   q == x \div BlockSize
                   e == x % BlockSize
        <5>21. x \in Nat
          BY <1>0, MulMono
        <5> HIDE DEF x
        <5>2. x \in Nat /\ q \in Nat /\ e \in Nat /\ e < BlockSize /\ x = BlockSize * q + e
          BY <1>0, <5>21, DivMod
        <5>3. e = BlockSize * (n - q)
          <6>1. BlockSize * (n - q) = BlockSize * n - BlockSize * q
            BY <1>0, <5>2, Z3
          <6>2. BlockSize * q \in Nat
            BY <1>0, <5>2, MulMono
          <6> QED BY <6>1, <6>2, <5>2 DEF x
        <5>4. n <= q
          <6>1. CASE n - q >= 1
            <7>1. BlockSize * 1 <= BlockSize * (n - q)
              BY <6>1, <5>2, <1>0, MulMono
            <7> QED BY <7>1, <5>2, <5>3, <1>0
          <6> QED BY <6>1, <5>2
        <5>5. q <= n
          <6>1. CASE q - n >= 1
            <7>1. BlockSize * (n + 1) <= BlockSize * q
              BY <6>1, <5>2, <1>0, MulMono
            <7>2. BlockSize * (n + 1) = BlockSize * n + BlockSize
              BY <1>0, Z3
            <7>3. BlockSize * q \in Nat
              BY <1>0, <5>2, MulMono
            <7> QED BY <7>1, <7>2, <7>3, <5>2, <1>0 DEF x
          <6> QED BY <6>1, <5>2
        <5>6. n - q = 0
          BY <5>2, <5>4, <5>5
        <5>7. e = 0
          BY <5>3, <5>6, <1>0
        <5> QED BY <5>7 DEF x
      <4> QED BY <4>3, <4>4
    <3> HIDE DEF b
    <3>8. BlockAlign(b) >= b /\ BlockAlign(b) \in Nat
      <4>1. BlockAlign(b) = FromInt(b)
        BY <3>6, <3>7 DEF BlockAlign, RoundBy
      <4>2. b % IntSpan = b
        <5>1. \A x \in Nat, y \in Nat \ {0} : x < y => x % y = x
          BY Z3
        <5> QED BY <5>1, <3>6, <1>0
      <4>3. SizeSpan - IntSpan >= 0
        BY <1>0
      <4> QED BY <4>1, <4>2, <4>3, <3>6, <1>0 DEF FromInt
    <3>9. WantRealloc(old, Growth) # 0
      BY <3>2, <3>5, <3>6, <3>8, <1>0 DEF WantRealloc, b
    <3>10. /\ Good(r.vec) /\ r.vec.used = w.used
           /\ r.ok => HasRoomFor(r.vec, ItemSize * w.allocated + Growth)
      BY <2>3, <3>9, <1>0, GrowBytesGood DEF old
    <3>11. ItemSize * (w.allocated + 1) <= ItemSize * w.allocated + Growth
      <4>1. ItemSize * (w.allocated + 1) = ItemSize * w.allocated + ItemSize
        BY <1>0, Z3
      <4> QED BY <4>1, <1>0
    <3>12. r.ok => w.allocated + 1 <= r.vec.allocated
      BY <3>10, <3>11, <2>3, <1>0 DEF HasRoomFor
    <3>13. r.vec.allocated \in Nat
      BY <3>10 DEF Good, Vector, Indices
    <3> QED BY <3>10, <3>12, <3>13, <1>0
  <2> QED BY <2>1, <2>2, <2>3, <1>0 DEF GrowByBytes
<1> QED BY <1>1, <1>2

\* init_ex() that returns success has room for all the items asked for.
LEMMA InitExRoom ==
  ASSUME NEW size \in Nat, NEW r \in InitEx(size)
  PROVE  /\ Good(r.vec) /\ r.vec.used = 0
         /\ r.ok => size <= r.vec.allocated
<1> DEFINE count == IF size = 0 THEN 1 ELSE size
<1>0. /\ count \in Nat /\ ItemSize * count \in Nat /\ IdxMax \in Nat /\ ItemSize \in Nat
      /\ Blank.allocated = 0 /\ Blank.used = 0 /\ ItemSize * 0 = 0 /\ size <= count
  BY WidthAssumption, MulMono DEF Blank
<1>1. r \in GrowByCount(Blank, count)
  BY DEF InitEx
<1> HIDE DEF count
<1>2. Good(r.vec) /\ r.vec.used = 0
  BY <1>0, <1>1, GrowByCountGood, BlankGood
<1>3. CASE r \in Same(Blank, FALSE)
  BY <1>2, <1>3, SameFields
<1>4. CASE /\ ~(Blank.allocated >= IdxMax) /\ ~(Blank.allocated + count > IdxMax)
           /\ r \in GrowBytes(Blank, ItemSize * count)
  <2>1. r.ok => HasRoomFor(r.vec, ItemSize * Blank.allocated + ItemSize * count)
    <3>1. ~Blank.live
      BY DEF Blank
    <3> QED BY <3>1, <1>0, <1>4, GrowBytesGood, BlankGood
  <2>3. r.ok => count <= r.vec.allocated
    BY <2>1, <1>0, <1>4 DEF HasRoomFor
  <2>4. r.vec.allocated \in Nat
    BY <1>2 DEF Good, Vector, Indices
  <2> QED BY <1>0, <1>2, <2>3, <2>4
<1> QED BY <1>0, <1>1, <1>3, <1>4 DEF GrowByCount

-----------------------------------------------------------------------------
(* The actions. *)

LEMMA WithGood ==
  ASSUME NEW w, Good(w), NEW used \in Nat, used <= w.allocated,
         NEW f \in [DOMAIN w.mem -> Items]
  PROVE  Good(With(w, used, f))
<1>0. /\ w \in Vector /\ w.mem \in Seq(Items) /\ w.allocated \in Nat
      /\ w.allocated <= IdxMax /\ IdxMax < IndexSpan /\ IdxMax \in Nat /\ IndexSpan \in Nat
  BY WidthAssumption DEF Good, Vector, Indices
<1>1. f \in Seq(Items) /\ Len(f) = Len(w.mem)
  BY <1>0, SameShape
<1> QED BY <1>0, <1>1 DEF With, Good, Vector, Indices, Exact

LEMMA PutGood ==
  ASSUME NEW w, Good(w), NEW used \in Nat, used <= w.allocated, NEW index \in Nat,
         NEW x \in Items
  PROVE  Good(Put(w, used, index, x))
<1>1. w.mem \in Seq(Items)
  BY DEF Good, Vector
<1>2. [i \in DOMAIN w.mem |-> IF i = index + 1 THEN x ELSE w.mem[i]] \in [DOMAIN w.mem -> Items]
  BY <1>1
<1> QED BY <1>2, WithGood DEF Put

LEMMA CommitInv ==
  ASSUME Inv, NEW v \in Vecs, NEW w, Good(w), NEW bad \in {"none", "overrun", "null copy"},
         Commit(v, w, bad)
  PROVE  Inv'
BY DEF Inv, Commit, Good

THEOREM InvInductive == Inv /\ [Next]_vars => Inv'
<1> SUFFICES ASSUME Inv, [Next]_vars PROVE Inv'
  OBVIOUS
<1>0. ASSUME NEW v \in Vecs
      PROVE  /\ Good(vec[v]) /\ vec[v].used \in Nat /\ vec[v].mem \in Seq(Items)
             /\ vec[v].used <= vec[v].allocated /\ vec[v].allocated \in Nat
  <2>1. vec[v] \in Vector /\ Good(vec[v])
    BY <1>0 DEF Inv
  <2> QED BY <2>1 DEF Good, Vector, Indices
<1>01. \A w, n : Outside(w, n) \in {"none", "overrun", "null copy"}
  BY DEF Outside
<1>02. Indices \subseteq Nat
  BY DEF Indices
<1>1. ASSUME NEW v \in Vecs, NEW n \in Indices, InitVec(v, n)
      PROVE  Inv'
  BY <1>1, <1>02, InitExRoom, CommitInv DEF InitVec
<1>2. ASSUME NEW v \in Vecs, NEW n \in Indices, GrowVec(v, n)
      PROVE  Inv'
  <2>1. PICK r \in GrowByCount(vec[v], n) \cup GrowByBytes(vec[v], n) : Commit(v, r.vec, "none")
    BY <1>2 DEF GrowVec
  <2>2. Good(r.vec)
    BY <1>0, <1>02, GrowByCountGood, GrowByBytesGood
  <2> QED BY <2>1, <2>2, CommitInv
<1>3. ASSUME NEW v \in Vecs, NEW x \in Values \cup {Zero}, AppendTo(v, x)
      PROVE  Inv'
  <2>1. PICK r \in GrowAuto(vec[v]) :
          IF r.ok
          THEN Commit(v, Put(r.vec, r.vec.used + 1, r.vec.used, x), Outside(r.vec, r.vec.used + 1))
          ELSE Commit(v, r.vec, "none")
    BY <1>3 DEF AppendTo
  <2>2. Good(r.vec) /\ r.vec.used = vec[v].used /\ (r.ok => vec[v].used < r.vec.allocated)
    BY <1>0, GrowAutoRoom
  <2>3. r.vec.allocated \in Nat
    BY <2>2 DEF Good, Vector, Indices
  <2>4. CASE r.ok
    <3>1. r.vec.used + 1 \in Nat /\ r.vec.used + 1 <= r.vec.allocated
      BY <1>0, <2>2, <2>3, <2>4
    <3>2. Good(Put(r.vec, r.vec.used + 1, r.vec.used, x))
      <4>1. x \in Items /\ r.vec.used \in Nat
        BY <1>0, <2>2 DEF Items
      <4> QED BY <2>2, <3>1, <4>1, PutGood
    <3> QED BY <2>1, <2>4, <3>2, <1>01, CommitInv
  <2>5. CASE ~r.ok
    BY <2>1, <2>2, <2>5, CommitInv
  <2> QED BY <2>4, <2>5
<1>4. ASSUME NEW v \in Vecs, NEW x \in Values \cup {Zero}, NEW i \in Indices, SetAt(v, i, x)
      PROVE  Inv'
  <2>1. Good(Put(vec[v], vec[v].used, i, x))
    <3>1. x \in Items /\ i \in Nat
      BY <1>02 DEF Items
    <3> QED BY <1>0, <3>1, PutGood
  <2> QED BY <1>4, <2>1, <1>01, CommitInv DEF SetAt
<1>5. ASSUME NEW v \in Vecs, FreeVec(v)
      PROVE  Inv'
  BY <1>0, <1>01, <1>5, BlankGood, CommitInv DEF FreeVec
<1>6. ASSUME NEW w, Good(w), NEW s \in Vecs, NEW begin \in Nat, NEW count \in Nat,
             count <= w.allocated
      PROVE  Good(Copied(w, s, begin, count))
  <2> DEFINE f == [i \in DOMAIN w.mem |->
                     IF i <= count /\ begin + i <= Len(vec[s].mem)
                     THEN vec[s].mem[begin + i] ELSE w.mem[i]]
  <2>1. w.mem \in Seq(Items) /\ vec[s].mem \in Seq(Items)
    BY <1>0, <1>6 DEF Good, Vector
  <2>2. f \in [DOMAIN w.mem -> Items]
    BY <2>1
  <2> QED BY <1>6, <2>2, WithGood DEF Copied
<1>7. ASSUME NEW d \in Vecs, NEW s \in Vecs, DupTo(d, s)
      PROVE  Inv'
  <2>1. PICK r \in InitEx(vec[s].used) :
          IF r.ok
          THEN Commit(d, Copied(r.vec, s, 0, vec[s].used), Outside(vec[s], vec[s].used))
          ELSE Commit(d, r.vec, "none")
    BY <1>7 DEF DupTo
  <2>2. Good(r.vec) /\ (r.ok => vec[s].used <= r.vec.allocated)
    BY <1>0, InitExRoom
  <2>3. CASE r.ok
    BY <2>1, <2>2, <2>3, <1>0, <1>01, <1>6, CommitInv
  <2>4. CASE ~r.ok
    BY <2>1, <2>2, <2>4, CommitInv
  <2> QED BY <2>3, <2>4
<1>8. ASSUME NEW d \in Vecs, NEW s \in Vecs, NEW begin \in Indices, NEW count \in Indices,
             CopyRange(d, s, begin, count)
      PROVE  Inv'
  <2> DEFINE end == (begin + count) % IndexSpan
             n   == IF end > vec[s].used THEN vec[s].used - begin ELSE count
  <2>1. PICK r \in InitEx(n) :
          IF r.ok
          THEN Commit(d, Copied(r.vec, s, begin, n), Outside(vec[s], begin + n))
          ELSE Commit(d, r.vec, IF n = 0 THEN "none" ELSE "null copy")
    BY <1>8 DEF CopyRange
  <2>2. n \in Nat /\ begin \in Nat
    <3>1. begin < vec[s].used
      BY <1>8 DEF CopyRange
    <3>2. begin \in Nat /\ count \in Nat /\ vec[s].used \in Nat
      BY <1>0, <1>02
    <3> QED BY <3>1, <3>2
  <2> HIDE DEF n
  <2>3. Good(r.vec) /\ (r.ok => n <= r.vec.allocated)
    BY <2>2, InitExRoom
  <2>4. CASE r.ok
    BY <2>1, <2>2, <2>3, <2>4, <1>01, <1>6, CommitInv
  <2>5. CASE ~r.ok
    BY <2>1, <2>3, <2>5, CommitInv
  <2> QED BY <2>4, <2>5
<1>9. CASE UNCHANGED vars
  BY <1>9 DEF Inv, vars
<1> QED BY <1>1, <1>2, <1>3, <1>4, <1>5, <1>7, <1>8, <1>9 DEF Next, Undefined

\* The fields of every vector stay in order, for all sizes and widths: "used"
\* within "allocated", "allocated" within idx_max (uvector/common.h:143-236).
THEOREM FieldsStayInOrder == Spec => []FieldsInOrder
<1>1. Init => Inv
  BY BlankGood DEF Init, Inv, Good
<1>2. Inv => FieldsInOrder
  BY DEF Inv, Good, FieldsInOrder
<1> QED BY <1>1, <1>2, InvInductive, PTL DEF Spec

\* Room claimed is room held, unless realloc() refused to grow that vector
\* (misc/memfun.h:308-321, uvector/common.h:145-155).
THEOREM RoomStaysReal == Spec => []RoomIsReal
<1>1. Init => Inv
  BY BlankGood DEF Init, Inv, Good
<1>2. Inv => RoomIsReal
  BY DEF Inv, Good, RoomIsReal
<1> QED BY <1>1, <1>2, InvInductive, PTL DEF Spec

\* Every reachable state is well typed.
THEOREM TypeCorrect == Spec => []TypeOK
<1>1. Init => Inv
  BY BlankGood DEF Init, Inv, Good
<1>2. Inv => TypeOK
  BY DEF Inv, Good, TypeOK
<1> QED BY <1>1, <1>2, InvInductive, PTL DEF Spec

-----------------------------------------------------------------------------
(* Memory that is not theirs. *)

\* Success leaves a block: a vector without one claims nothing and counts
\* nothing.
Hollow(w) == ~w.live => w.used = 0 /\ w.allocated = 0

\* grow_by_bytes() of a vector without a block either makes one or fails.
LEMMA GrowBytesLive ==
  ASSUME NEW w, Hollow(w), NEW bytes, NEW r \in GrowBytes(w, bytes)
  PROVE  Hollow(r.vec) /\ (r.ok => r.vec.live)
<1> DEFINE old     == BlockAlign(ItemSize * w.allocated)
           new     == WantRealloc(old, bytes)
           granted == Granted(w, old, new)
           denied  == Denied(w, new)
<1>1. granted.live /\ (w.live => denied.live)
  BY DEF Granted, Denied
<1>2. \/ r \in Same(w, w.live /\ w.allocated > 0)
      \/ r \in Same(granted, TRUE)
      \/ w.live /\ r \in Same(denied, TRUE)
      \/ r \in Same(w, FALSE)
  <2> HIDE DEF granted, denied, old, new
  <2>1. r \in IF new = 0 THEN Same(w, w.live /\ w.allocated > 0)
             ELSE (IF new <= HeapMax THEN Same(granted, TRUE) ELSE {})
                  \cup (IF ~w.live \/ ReallocMayFail \/ new > HeapMax
                        THEN IF w.live THEN Same(denied, TRUE) ELSE Same(w, FALSE) ELSE {})
    BY DEF GrowBytes, granted, denied, old, new
  <2> QED BY <2>1, Zenon
<1> HIDE DEF granted, denied
<1>3. CASE r \in Same(w, w.live /\ w.allocated > 0)
  <2>1. r.vec = w /\ r.ok = (w.live /\ w.allocated > 0)
    BY <1>3 DEF Same
  <2> QED BY <2>1
<1>4. CASE r \in Same(granted, TRUE)
  <2>1. r.vec = granted
    BY <1>4, SameFields
  <2> QED BY <2>1, <1>1 DEF Hollow
<1>5. CASE w.live /\ r \in Same(denied, TRUE)
  <2>1. r.vec = denied
    BY <1>5, SameFields
  <2> QED BY <2>1, <1>1, <1>5 DEF Hollow
<1>6. CASE r \in Same(w, FALSE)
  BY <1>6, SameFields
<1> QED BY <1>2, <1>3, <1>4, <1>5, <1>6

LEMMA GrowLive ==
  ASSUME NEW w, Hollow(w), NEW n, NEW r \in GrowByCount(w, n) \cup GrowByBytes(w, n)
  PROVE  Hollow(r.vec) /\ (r.ok => r.vec.live)
<1>1. \/ r \in Same(w, FALSE)
      \/ r \in GrowBytes(w, ItemSize * n)
      \/ r \in GrowBytes(w, n)
  <2>1. CASE r \in GrowByCount(w, n)
    BY <2>1, Zenon DEF GrowByCount
  <2>2. CASE r \in GrowByBytes(w, n)
    BY <2>2, Zenon DEF GrowByBytes
  <2> QED BY <2>1, <2>2
<1>2. CASE r \in Same(w, FALSE)
  BY <1>2, SameFields
<1> QED BY <1>1, <1>2, GrowBytesLive

LEMMA GrowAutoLive ==
  ASSUME NEW w, Good(w), Hollow(w), NEW r \in GrowAuto(w)
  PROVE  Hollow(r.vec) /\ (r.ok => r.vec.live)
<1>1. CASE w.used < w.allocated
  <2>1. r.vec = w
    BY <1>1, SameFields DEF GrowAuto
  <2>2. w.live
    BY <1>1 DEF Hollow
  <2> QED BY <2>1, <2>2
<1>2. CASE ~(w.used < w.allocated)
  BY <1>2, GrowLive DEF GrowAuto
<1> QED BY <1>1, <1>2

LEMMA InitExLive ==
  ASSUME NEW size, NEW r \in InitEx(size)
  PROVE  Hollow(r.vec) /\ (r.ok => r.vec.live)
<1>1. Hollow(Blank)
  BY DEF Hollow, Blank
<1> QED BY <1>1, GrowLive DEF InitEx

\* Copies have the fields of what they are made of.
LEMMA WithFields ==
  ASSUME NEW w, NEW used, NEW f
  PROVE  /\ With(w, used, f).live = w.live /\ With(w, used, f).used = used
         /\ With(w, used, f).mem = f
         /\ With(w, used, f).allocated = w.allocated
         /\ With(w, used, f).denied = w.denied
BY DEF With

LEMMA PutFields ==
  ASSUME NEW w, NEW used, NEW index, NEW x
  PROVE  /\ Put(w, used, index, x).live = w.live /\ Put(w, used, index, x).used = used
         /\ Put(w, used, index, x).allocated = w.allocated
         /\ Put(w, used, index, x).denied = w.denied
BY WithFields DEF Put

LEMMA CopiedFields ==
  ASSUME NEW w, NEW s, NEW begin, NEW count
  PROVE  /\ Copied(w, s, begin, count).live = w.live
         /\ Copied(w, s, begin, count).used = count
BY WithFields DEF Copied

\* What is within the room a vector claims is within its block, or growing
\* that vector was refused.
LEMMA OutsideDenied ==
  ASSUME NEW w, Good(w), NEW n \in Nat, n <= w.allocated, Outside(w, n) = "overrun"
  PROVE  w.denied
<1>1. ~(n > Len(w.mem)) => w.denied
  BY DEF Outside
<1>2. Len(w.mem) \in Nat /\ w.allocated \in Nat
  BY DEF Good, Vector, Indices
<1> QED BY <1>1, <1>2 DEF Good

\* What one vector keeps of its items when it grows.
Kept(old, new) ==
  (old.allocated < new.allocated /\ ~new.denied)
    => \A i \in 1 .. old.used : new.mem[i] = old.mem[i]

LEMMA NoGrowthKeeps ==
  ASSUME NEW old, NEW new, old.allocated \in Nat, new.allocated = old.allocated
  PROVE  Kept(old, new)
BY DEF Kept

\* A block that grows holds what it held.
LEMMA GrowBytesKeeps ==
  ASSUME NEW w, Good(w), ~(w.allocated >= IdxMax), NEW bytes \in Nat,
         NEW r \in GrowBytes(w, bytes)
  PROVE  Kept(w, r.vec)
<1> DEFINE old     == BlockAlign(ItemSize * w.allocated)
           new     == WantRealloc(old, bytes)
           granted == Granted(w, old, new)
           denied  == Denied(w, new)
<1>0. /\ w.allocated \in Nat /\ w.used \in Nat /\ w.used <= w.allocated
      /\ w.mem \in Seq(Items) /\ Len(w.mem) \in Nat
      /\ ItemSize \in Nat \ {0} /\ BlockSize \in Nat /\ IdxMax \in Nat
      /\ ItemSize * w.allocated \in Nat
  <2>1. /\ w.allocated \in Nat /\ w.used \in Nat /\ w.used <= w.allocated
        /\ w.mem \in Seq(Items) /\ Len(w.mem) \in Nat
    BY DEF Good, Vector, Indices
  <2> QED BY <2>1, WidthAssumption, MulMono
<1>1. old \in Nat /\ ItemSize * w.allocated <= old
  <2>1. PICK m \in Nat : ItemSize * w.allocated <= BlockSize * m /\ Half(BlockSize * m)
    BY <1>0 DEF Good, Exact
  <2> QED BY <2>1, <1>0, AlignExact
<1>2. new \in Nat
  BY <1>1, WantReallocShape
<1>3. \/ r \in Same(granted, TRUE)
      \/ r \in Same(denied, TRUE)
      \/ \E ok : r \in Same(w, ok)
  <2> HIDE DEF granted, denied, old, new
  <2>1. r \in IF new = 0 THEN Same(w, w.live /\ w.allocated > 0)
             ELSE (IF new <= HeapMax THEN Same(granted, TRUE) ELSE {})
                  \cup (IF ~w.live \/ ReallocMayFail \/ new > HeapMax
                        THEN IF w.live THEN Same(denied, TRUE) ELSE Same(w, FALSE) ELSE {})
    BY DEF GrowBytes, granted, denied, old, new
  <2> QED BY <2>1, Zenon
<1>4. CASE r \in Same(granted, TRUE)
  <2>1. r.vec = granted
    BY <1>4, SameFields
  <2>2. /\ granted.allocated = Claim(new) /\ granted.mem = Extended(w.mem, old, new)
        /\ granted.denied = w.denied
    BY DEF Granted
  <2> HIDE DEF granted, old, new
  <2>3. Claim(new) \in Nat /\ Claim(new) <= new \div ItemSize /\ new \div ItemSize \in Nat
    BY <1>2, ClaimFacts
  <2>4. ASSUME w.allocated < Claim(new), ~w.denied, NEW i \in 1 .. w.used
        PROVE  Extended(w.mem, old, new)[i] = w.mem[i]
    <3>1. i \in 1 .. new \div ItemSize /\ i <= w.allocated /\ i \in Nat
      BY <2>3, <2>4, <1>0
    <3>2. i <= Len(w.mem)
      <4>1. w.allocated <= Len(w.mem)
        BY <2>4 DEF Good
      <4> QED BY <4>1, <3>1, <1>0
    <3>3. ~(i * ItemSize > old)
      <4>1. ItemSize * i <= ItemSize * w.allocated /\ ItemSize * i \in Nat
        BY <3>1, <1>0, MulMono
      <4>2. i * ItemSize = ItemSize * i
        BY <3>1, <1>0, Z3
      <4> QED BY <4>1, <4>2, <1>0, <1>1
    <3> QED BY <3>1, <3>2, <3>3 DEF Extended
  <2> QED BY <2>1, <2>2, <2>4 DEF Kept
<1>5. CASE r \in Same(denied, TRUE)
  <2>1. r.vec = denied
    BY <1>5, SameFields
  <2>2. denied.denied
    BY DEF Denied
  <2> QED BY <2>1, <2>2 DEF Kept
<1>6. CASE \E ok : r \in Same(w, ok)
  <2>1. r.vec = w
    BY <1>6, SameFields
  <2> QED BY <2>1, <1>0, NoGrowthKeeps
<1> QED BY <1>3, <1>4, <1>5, <1>6

LEMMA GrowKeeps ==
  ASSUME NEW w, Good(w), NEW n \in Nat, NEW r \in GrowByCount(w, n) \cup GrowByBytes(w, n)
  PROVE  Kept(w, r.vec)
<1>0. w.allocated \in Nat /\ ItemSize * n \in Nat
  <2>1. w.allocated \in Nat
    BY DEF Good, Vector, Indices
  <2> QED BY <2>1, WidthAssumption, MulMono
<1>1. \/ r \in Same(w, FALSE)
      \/ ~(w.allocated >= IdxMax) /\ r \in GrowBytes(w, ItemSize * n)
      \/ ~(w.allocated >= IdxMax) /\ r \in GrowBytes(w, n)
  <2>1. CASE r \in GrowByCount(w, n)
    BY <2>1, Zenon DEF GrowByCount
  <2>2. CASE r \in GrowByBytes(w, n)
    BY <2>2, Zenon DEF GrowByBytes
  <2> QED BY <2>1, <2>2
<1>2. CASE r \in Same(w, FALSE)
  <2>1. r.vec = w
    BY <1>2, SameFields
  <2> QED BY <2>1, <1>0, NoGrowthKeeps
<1> QED BY <1>0, <1>1, <1>2, GrowBytesKeeps

LEMMA GrowAutoKeeps ==
  ASSUME NEW w, Good(w), NEW r \in GrowAuto(w)
  PROVE  Kept(w, r.vec)
<1>0. w.allocated \in Nat /\ Growth \in Nat
  BY WidthAssumption DEF Good, Vector, Indices
<1>1. CASE w.used < w.allocated
  <2>1. r.vec = w
    BY <1>1, SameFields DEF GrowAuto
  <2> QED BY <2>1, <1>0, NoGrowthKeeps
<1>2. CASE ~(w.used < w.allocated)
  BY <1>0, <1>2, GrowKeeps DEF GrowAuto
<1> QED BY <1>1, <1>2

\* The item behind the last one is none of those kept.
LEMMA PutKeeps ==
  ASSUME NEW old, NEW w, Good(old), Good(w), Kept(old, w), NEW used, NEW x,
         w.used = old.used, ~w.denied => old.used <= Len(w.mem)
  PROVE  Kept(old, Put(w, used, w.used, x))
<1> DEFINE f == [i \in DOMAIN w.mem |-> IF i = w.used + 1 THEN x ELSE w.mem[i]]
<1>1. old.used \in Nat /\ w.mem \in Seq(Items)
  BY DEF Good, Vector, Indices
<1>2. Put(w, used, w.used, x).mem = f
  BY WithFields DEF Put
<1>3. ASSUME ~w.denied, NEW i \in 1 .. old.used
      PROVE  f[i] = w.mem[i]
  <2>1. i \in DOMAIN w.mem /\ i # w.used + 1
    BY <1>1, <1>3
  <2> QED BY <2>1
<1> HIDE DEF f
<1> QED BY <1>2, <1>3, PutFields DEF Kept

\* A vector without a block has nothing to keep.
LEMMA HollowKeeps ==
  ASSUME NEW old, Hollow(old), ~old.live, NEW new
  PROVE  Kept(old, new)
BY DEF Hollow, Kept

-----------------------------------------------------------------------------
(* What a step may do to vectors and to the memory around them. *)

Safe ==
  /\ \A v \in Vecs : Hollow(vec[v])
  /\ OverrunNeedsRefusal

\* A new record is a fit successor of vector v: a fault it comes with is
\* excused by it or by a vector that stays as it is.
Fit(v, w, bad) ==
  /\ Hollow(w) /\ Kept(vec[v], w)
  /\ bad = "overrun" => w.denied \/ \E u \in Vecs \ {v} : vec[u].denied

LEMMA CommitSafe ==
  ASSUME Inv, Safe, NEW v \in Vecs, NEW w, NEW bad, Commit(v, w, bad), Fit(v, w, bad)
  PROVE  Safe' /\ \A u \in Vecs : Kept(vec[u], vec'[u])
<1>1. vec' = [vec EXCEPT ![v] = w] /\ fault' = bad /\ DOMAIN vec = Vecs
  BY DEF Commit, Inv
<1>2. \A u \in Vecs : vec'[u] = IF u = v THEN w ELSE vec[u]
  BY <1>1
<1>3. \A u \in Vecs : Kept(vec[u], vec'[u])
  <2> SUFFICES ASSUME NEW u \in Vecs PROVE Kept(vec[u], vec'[u])
    OBVIOUS
  <2>1. vec[u].allocated \in Nat
    <3>1. vec[u] \in Vector
      BY DEF Inv
    <3> QED BY <3>1 DEF Vector, Indices
  <2>2. Kept(vec[u], vec[u])
    BY <2>1, NoGrowthKeeps
  <2>3. Kept(vec[v], w)
    BY DEF Fit
  <2> QED BY <1>2, <2>2, <2>3, Zenon
<1>4. \A u \in Vecs : Hollow(vec'[u])
  BY <1>2 DEF Fit, Safe
<1>5. OverrunNeedsRefusal'
  BY <1>1, <1>2 DEF Fit, OverrunNeedsRefusal
<1>6. Safe'
  BY <1>4, <1>5 DEF Safe, Hollow
<1> QED BY <1>3, <1>6

LEMMA BlankFits == Hollow(Blank) /\ \A old : old.allocated \in Nat => Kept(old, Blank)
<1>1. Hollow(Blank) /\ Blank.allocated = 0
  BY DEF Hollow, Blank
<1> QED BY <1>1 DEF Kept

LEMMA SafeStep ==
  Inv /\ Safe /\ [Next]_vars => Safe' /\ \A u \in Vecs : Kept(vec[u], vec'[u])
<1> DEFINE Goal == Safe' /\ \A u \in Vecs : Kept(vec[u], vec'[u])
<1> SUFFICES ASSUME Inv, Safe, [Next]_vars PROVE Goal
  OBVIOUS
<1>0. ASSUME NEW v \in Vecs
      PROVE  /\ Good(vec[v]) /\ Hollow(vec[v])
             /\ vec[v].used \in Nat /\ vec[v].allocated \in Nat
             /\ vec[v].used <= vec[v].allocated
  <2>1. vec[v] \in Vector /\ Good(vec[v]) /\ Hollow(vec[v])
    BY <1>0 DEF Inv, Safe
  <2> QED BY <2>1 DEF Good, Vector, Indices
<1>02. Indices \subseteq Nat /\ "none" # "overrun" /\ "null copy" # "overrun"
  BY DEF Indices
<1>c. ASSUME NEW v \in Vecs, NEW w, NEW bad, Commit(v, w, bad), Fit(v, w, bad)
      PROVE  Goal
  BY <1>c, CommitSafe
<1>f. ASSUME NEW v \in Vecs, NEW w, NEW bad, bad # "overrun", Hollow(w), Kept(vec[v], w)
      PROVE  Fit(v, w, bad)
  BY <1>f DEF Fit
<1> HIDE DEF Goal
<1>1. ASSUME NEW v \in Vecs, NEW n \in Indices, InitVec(v, n)
      PROVE  Goal
  <2>1. PICK r \in InitEx(n) : Commit(v, r.vec, "none")
    BY <1>1 DEF InitVec
  <2>2. Hollow(r.vec) /\ Kept(vec[v], r.vec)
    BY <1>0, <1>1, InitExLive, HollowKeeps DEF InitVec
  <2> QED BY <2>1, <2>2, <1>02, <1>c, <1>f
<1>2. ASSUME NEW v \in Vecs, NEW n \in Indices, GrowVec(v, n)
      PROVE  Goal
  <2>1. PICK r \in GrowByCount(vec[v], n) \cup GrowByBytes(vec[v], n) : Commit(v, r.vec, "none")
    BY <1>2 DEF GrowVec
  <2>2. Hollow(r.vec) /\ Kept(vec[v], r.vec)
    BY <1>0, <1>02, GrowLive, GrowKeeps
  <2> QED BY <2>1, <2>2, <1>02, <1>c, <1>f
<1>3. ASSUME NEW v \in Vecs, NEW x \in Values \cup {Zero}, AppendTo(v, x)
      PROVE  Goal
  <2>1. PICK r \in GrowAuto(vec[v]) :
          IF r.ok
          THEN Commit(v, Put(r.vec, r.vec.used + 1, r.vec.used, x), Outside(r.vec, r.vec.used + 1))
          ELSE Commit(v, r.vec, "none")
    BY <1>3 DEF AppendTo
  <2>2. /\ Good(r.vec) /\ r.vec.used = vec[v].used /\ (r.ok => vec[v].used < r.vec.allocated)
        /\ Hollow(r.vec) /\ (r.ok => r.vec.live) /\ Kept(vec[v], r.vec)
    BY <1>0, GrowAutoRoom, GrowAutoLive, GrowAutoKeeps
  <2>3. CASE r.ok
    <3> DEFINE w == Put(r.vec, r.vec.used + 1, r.vec.used, x)
    <3>1. /\ r.vec.used + 1 \in Nat /\ r.vec.used + 1 <= r.vec.allocated
          /\ r.vec.allocated \in Nat
      <4>1. r.vec.allocated \in Nat
        BY <2>2 DEF Good, Vector, Indices
      <4> QED BY <4>1, <1>0, <2>2, <2>3
    <3>2. w.live = r.vec.live /\ w.denied = r.vec.denied
      BY PutFields
    <3>3. ~r.vec.denied => vec[v].used <= Len(r.vec.mem)
      <4>1. Len(r.vec.mem) \in Nat
        BY <2>2 DEF Good, Vector
      <4> QED BY <4>1, <3>1, <2>2, <1>0 DEF Good
    <3>4. Kept(vec[v], w)
      BY <1>0, <2>2, <3>3, PutKeeps
    <3>5. Outside(r.vec, r.vec.used + 1) = "overrun" => w.denied
      BY <2>2, <3>1, <3>2, OutsideDenied
    <3>6. Hollow(w)
      BY <2>2, <2>3, <3>2 DEF Hollow
    <3> HIDE DEF w
    <3>7. Fit(v, w, Outside(r.vec, r.vec.used + 1))
      BY <3>4, <3>5, <3>6 DEF Fit
    <3>8. Commit(v, w, Outside(r.vec, r.vec.used + 1))
      BY <2>1, <2>3 DEF w
    <3> QED BY <3>7, <3>8, <1>c
  <2>4. CASE ~r.ok
    BY <2>1, <2>2, <2>4, <1>02, <1>c, <1>f
  <2> QED BY <2>3, <2>4
<1>4. ASSUME NEW v \in Vecs, NEW x \in Values \cup {Zero}, NEW i \in Indices, SetAt(v, i, x)
      PROVE  Goal
  <2> DEFINE w == Put(vec[v], vec[v].used, i, x)
  <2>1. /\ w.live = vec[v].live /\ w.used = vec[v].used
        /\ w.allocated = vec[v].allocated /\ w.denied = vec[v].denied
    BY PutFields
  <2>2. Commit(v, w, Outside(vec[v], i + 1)) /\ i < vec[v].used /\ i \in Nat
    BY <1>4, <1>02 DEF SetAt
  <2> HIDE DEF w
  <2>3. Hollow(w) /\ Kept(vec[v], w)
    <3>1. Hollow(w)
      BY <2>1, <1>0 DEF Hollow
    <3> QED BY <3>1, <2>1, <1>0, NoGrowthKeeps
  <2>4. i + 1 \in Nat /\ i + 1 <= vec[v].allocated
    BY <2>2, <1>0
  <2>5. Outside(vec[v], i + 1) = "overrun" => w.denied
    BY <2>1, <2>4, <1>0, OutsideDenied
  <2> QED BY <2>2, <2>3, <2>5, <1>c DEF Fit
<1>5. ASSUME NEW v \in Vecs, FreeVec(v)
      PROVE  Goal
  <2> DEFINE w == IF vec[v].used > Len(vec[v].mem) THEN vec[v] ELSE Blank
  <2>1. Commit(v, w, Outside(vec[v], vec[v].used))
    BY <1>5 DEF FreeVec
  <2>2. Hollow(w) /\ Kept(vec[v], w)
    BY <1>0, BlankFits, NoGrowthKeeps
  <2>3. Outside(vec[v], vec[v].used) = "overrun" => w.denied
    <3>1. Outside(vec[v], vec[v].used) = "overrun" => w = vec[v]
      BY <1>02 DEF Outside
    <3> QED BY <3>1, <1>0, OutsideDenied
  <2> HIDE DEF w
  <2> QED BY <2>1, <2>2, <2>3, <1>c DEF Fit
<1>6. ASSUME NEW r, Hollow(r.vec), r.ok => r.vec.live, r.ok, NEW d \in Vecs, ~vec[d].live,
             NEW s \in Vecs, d # s, NEW begin, NEW n, NEW m \in Nat, m <= vec[s].allocated,
             Commit(d, Copied(r.vec, s, begin, n), Outside(vec[s], m))
      PROVE  Goal
  <2> DEFINE w == Copied(r.vec, s, begin, n)
  <2>1. Hollow(w)
    BY <1>6, CopiedFields DEF Hollow
  <2> HIDE DEF w
  <2>2. Kept(vec[d], w)
    BY <1>0, <1>6, HollowKeeps
  <2>3. Outside(vec[s], m) = "overrun" => vec[s].denied
    BY <1>0, <1>6, OutsideDenied
  <2>4. Fit(d, w, Outside(vec[s], m))
    BY <2>1, <2>2, <2>3, <1>6 DEF Fit
  <2>5. Commit(d, w, Outside(vec[s], m))
    BY <1>6 DEF w
  <2> QED BY <2>4, <2>5, <1>c
<1>7. ASSUME NEW d \in Vecs, NEW s \in Vecs, DupTo(d, s)
      PROVE  Goal
  <2>1. PICK r \in InitEx(vec[s].used) :
          IF r.ok
          THEN Commit(d, Copied(r.vec, s, 0, vec[s].used), Outside(vec[s], vec[s].used))
          ELSE Commit(d, r.vec, "none")
    BY <1>7 DEF DupTo
  <2>2. Hollow(r.vec) /\ (r.ok => r.vec.live) /\ ~vec[d].live /\ d # s
    BY <1>7, InitExLive DEF DupTo
  <2>3. CASE r.ok
    BY <2>1, <2>2, <2>3, <1>0, <1>6
  <2>4. CASE ~r.ok
    BY <2>1, <2>2, <2>4, <1>0, <1>02, HollowKeeps, <1>c, <1>f
  <2> QED BY <2>3, <2>4
<1>8. ASSUME NEW d \in Vecs, NEW s \in Vecs, NEW begin \in Indices, NEW count \in Indices,
             CopyRange(d, s, begin, count)
      PROVE  Goal
  <2> DEFINE end == (begin + count) % IndexSpan
             n   == IF end > vec[s].used THEN vec[s].used - begin ELSE count
  <2>1. PICK r \in InitEx(n) :
          IF r.ok
          THEN Commit(d, Copied(r.vec, s, begin, n), Outside(vec[s], begin + n))
          ELSE Commit(d, r.vec, IF n = 0 THEN "none" ELSE "null copy")
    BY <1>8 DEF CopyRange
  <2>2. /\ begin < vec[s].used /\ begin \in Nat /\ count \in Nat
        /\ ~vec[d].live /\ d # s
    BY <1>8, <1>02 DEF CopyRange
  <2>3. n \in Nat
    BY <2>2, <1>0
  <2>4. Hollow(r.vec) /\ (r.ok => r.vec.live)
    BY <2>1, InitExLive
  <2>5. r.ok => n <= IdxMax
    <3> HIDE DEF n
    <3>1. Good(r.vec) /\ (r.ok => n <= r.vec.allocated)
      BY <2>3, InitExRoom
    <3>2. r.vec.allocated \in Nat /\ r.vec.allocated <= IdxMax /\ IdxMax \in Nat
      BY <3>1, WidthAssumption DEF Good, Vector, Indices
    <3> QED BY <3>1, <3>2, <2>3
  <2>6. r.ok => begin + n <= vec[s].allocated
    <3>1. CASE end > vec[s].used
      BY <3>1, <2>2, <1>0
    <3>2. CASE ~(end > vec[s].used) /\ r.ok
      <4>1. n = count
        BY <3>2
      <4>2. begin + count < IndexSpan /\ IndexSpan \in Nat \ {0}
        <5>1. vec[s].allocated <= IdxMax /\ IdxMax \in Nat /\ IndexSpan \in Nat \ {0}
          BY <1>0, WidthAssumption DEF Good
        <5>2. count <= IdxMax
          BY <4>1, <3>2, <2>5
        <5>3. begin + count < IdxMax + IdxMax
          <6> HIDE DEF n, end
          <6> QED BY <5>1, <5>2, <2>2, <1>0
        <5> QED BY <5>1, <5>3, <2>2, FenceAssumption
      <4>3. end = begin + count
        <5>1. \A x \in Nat, y \in Nat \ {0} : x < y => x % y = x
          BY Z3
        <5> QED BY <5>1, <4>2, <2>2
      <4> HIDE DEF n, end
      <4>4. end \in Nat
        BY <4>3, <2>2
      <4> QED BY <4>1, <4>3, <4>4, <3>2, <2>2, <1>0
    <3> QED BY <3>1, <3>2
  <2> HIDE DEF n
  <2>7. CASE r.ok
    <3>1. begin + n \in Nat
      BY <2>2, <2>3
    <3> QED BY <2>1, <2>2, <2>4, <2>6, <2>7, <3>1, <1>6
  <2>8. CASE ~r.ok
    <3>1. (IF n = 0 THEN "none" ELSE "null copy") # "overrun"
      BY <1>02
    <3>2. Kept(vec[d], r.vec)
      BY <2>2, <1>0, HollowKeeps
    <3> QED BY <2>1, <2>4, <2>8, <3>1, <3>2, <1>c, <1>f
  <2> QED BY <2>7, <2>8
<1>9. CASE UNCHANGED vars
  <2>1. vec' = vec /\ fault' = fault
    BY <1>9 DEF vars
  <2>2. \A u \in Vecs : Kept(vec[u], vec'[u])
    BY <2>1, <1>0, NoGrowthKeeps
  <2>3. Safe'
    BY <2>1 DEF Safe, Hollow, OverrunNeedsRefusal
  <2> QED BY <2>2, <2>3 DEF Goal
<1> QED BY <1>1, <1>2, <1>3, <1>4, <1>5, <1>7, <1>8, <1>9 DEF Next, Undefined

LEMMA InitSafe == Init => Inv /\ Safe
<1> SUFFICES ASSUME Init PROVE Inv /\ Safe
  OBVIOUS
<1>1. Inv
  BY BlankGood DEF Init, Inv, Good
<1>2. Safe
  BY BlankFits DEF Init, Safe, OverrunNeedsRefusal
<1> QED BY <1>1, <1>2

\* What init_ex() is refused leaves nothing but the fields it has cleared.
LEMMA InitExBlank ==
  ASSUME NEW size, NEW r \in InitEx(size), ~r.ok
  PROVE  r.vec = Blank
<1>1. ASSUME NEW bytes, NEW q \in GrowBytes(Blank, bytes), ~q.ok PROVE q.vec = Blank
  <2> DEFINE old == BlockAlign(ItemSize * Blank.allocated)
             new == WantRealloc(old, bytes)
  <2> HIDE DEF old, new
  <2>1. \/ q \in Same(Blank, Blank.live /\ Blank.allocated > 0)
        \/ q \in Same(Granted(Blank, old, new), TRUE)
        \/ q \in Same(Blank, FALSE)
    <3>1. ~Blank.live
      BY DEF Blank
    <3> QED BY <1>1, <3>1, Zenon DEF GrowBytes, old, new
  <2>2. q.vec = Blank \/ q.ok
    BY <2>1 DEF Same
  <2> QED BY <1>1, <2>2
<1>2. ASSUME NEW count, NEW q \in GrowByCount(Blank, count), ~q.ok PROVE q.vec = Blank
  <2>1. q \in Same(Blank, FALSE) \/ q \in GrowBytes(Blank, ItemSize * count)
    BY <1>2, Zenon DEF GrowByCount
  <2> QED BY <2>1, <1>1, <1>2 DEF Same
<1> QED BY <1>2 DEF InitEx

LEMMA UsedBeyond == \A x, y \in Indices : x < y => y > 0
<1>1. \A x, y \in Nat : x < y => y > 0
  OBVIOUS
<1>2. Indices \subseteq Nat
  BY DEF Indices
<1> QED BY <1>1, <1>2, Zenon

LEMMA NullCopyStep == Inv /\ NullCopyNeedsBlank /\ [Next]_vars => NullCopyNeedsBlank'
<1> DEFINE Goal == \E d, s \in Vecs : vec'[d] = Blank /\ vec'[s].used > 0
<1>0. (fault' = "null copy" => Goal) => NullCopyNeedsBlank'
  BY DEF NullCopyNeedsBlank
<1> HIDE DEF Goal
<1> SUFFICES ASSUME Inv, NullCopyNeedsBlank, [Next]_vars, fault' = "null copy" PROVE Goal
  BY <1>0
<1>u. CASE UNCHANGED vars
  BY <1>u DEF NullCopyNeedsBlank, vars, Goal
<1>a. \A w, n : Outside(w, n) # "null copy"
  BY DEF Outside
<1>b. ASSUME NEW v, NEW w, NEW bad, Commit(v, w, bad) PROVE bad = "null copy"
  BY <1>b DEF Commit
<1>c. \A v, w, n : ~Commit(v, w, "none") /\ ~Commit(v, w, Outside(vec[v], n))
  BY <1>a, <1>b
<1>1. ASSUME NEW v, NEW n, InitVec(v, n) \/ GrowVec(v, n) PROVE FALSE
  BY <1>1, <1>c, Zenon DEF InitVec, GrowVec
<1>2. ASSUME NEW v, NEW x, AppendTo(v, x) PROVE FALSE
  <2>1. PICK r \in GrowAuto(vec[v]) :
          \/ Commit(v, r.vec, "none")
          \/ Commit(v, Put(r.vec, r.vec.used + 1, r.vec.used, x), Outside(r.vec, r.vec.used + 1))
    BY <1>2, Zenon DEF AppendTo
  <2> QED BY <2>1, <1>a, <1>b, <1>c
<1>3. ASSUME NEW v, NEW x, NEW i, SetAt(v, i, x) \/ FreeVec(v) PROVE FALSE
  BY <1>3, <1>c, Zenon DEF SetAt, FreeVec
<1>4. ASSUME NEW v, NEW s, DupTo(v, s) PROVE FALSE
  <2>1. PICK r \in InitEx(vec[s].used) :
          \/ Commit(v, r.vec, "none")
          \/ Commit(v, Copied(r.vec, s, 0, vec[s].used), Outside(vec[s], vec[s].used))
    BY <1>4, Zenon DEF DupTo
  <2> QED BY <2>1, <1>a, <1>b
<1> SUFFICES ASSUME NEW d \in Vecs, NEW s \in Vecs, NEW b \in Indices, NEW n \in Indices,
                    CopyRange(d, s, b, n)
             PROVE  Goal
  BY <1>u, <1>1, <1>2, <1>3, <1>4, Zenon DEF Next, Undefined
<1>5. PICK r : (\E m : r \in InitEx(m)) /\ ~r.ok /\ Commit(d, r.vec, "null copy")
  BY <1>a, <1>b DEF CopyRange
<1>6. vec' = [vec EXCEPT ![d] = Blank] /\ d # s /\ b < vec[s].used
  BY <1>5, InitExBlank DEF Commit, CopyRange
<1>7. vec[s] \in Vector /\ DOMAIN vec = Vecs
  BY DEF Inv
<1>8. vec[s].used > 0
  BY <1>6, <1>7, UsedBeyond DEF Vector
<1>9. vec'[d] = Blank /\ vec'[s] = vec[s]
  BY <1>6, <1>7
<1> QED BY <1>8, <1>9 DEF Goal

\* A block is read or written past its end by append, set, free, dup and
\* copy_range only where realloc() has refused to grow a vector that still
\* lives (uvector/common.h:145-155, misc/memfun.h:295), wherever "begin + count"
\* wraps and whatever sizes are rounded or capped to.  What a copy_range() without
\* a block does, memcpy() to NULL (common.h:107), is met only where there are
\* items to copy, and leaves the vector it was to fill empty.
THEOREM OverrunsAreRefusals == Spec => [](OverrunNeedsRefusal /\ NullCopyNeedsBlank)
<1>1. Inv /\ Safe /\ [Next]_vars => Inv' /\ Safe'
  BY InvInductive, SafeStep
<1>2. Inv /\ Safe => OverrunNeedsRefusal
  BY DEF Safe
<1>3. Init => NullCopyNeedsBlank
  BY DEF Init, NullCopyNeedsBlank
<1> QED BY <1>1, <1>2, <1>3, NullCopyStep, InitSafe, PTL DEF Spec

\* A vector that grows, and may move, keeps the items it holds (memfun.h
\* realloc, uvector/common.h:145-236).
THEOREM GrowthLosesNothing == Spec => GrowthKeepsItems
<1>1. Inv /\ Safe /\ [Next]_vars => Inv' /\ Safe'
  BY InvInductive, SafeStep
<1>2. Inv /\ Safe /\ [Next]_vars =>
        [\A v \in Vecs :
           (vec[v].allocated < vec'[v].allocated /\ ~vec'[v].denied)
             => \A i \in 1 .. vec[v].used : vec'[v].mem[i] = vec[v].mem[i]]_vars
  BY SafeStep DEF Kept
<1> QED BY <1>1, <1>2, InitSafe, PTL DEF Spec, GrowthKeepsItems

-----------------------------------------------------------------------------
(* Induction, over sets of naturals. *)

\* A set of naturals has a least element.
LEMMA LeastIn ==
  ASSUME NEW T \in SUBSET Nat, T # {}
  PROVE  \E m \in T : \A k \in T : m <= k
<1>1. \E m \in T : \A k \in T : <<k, m>> \notin OpToRel(<, Nat)
  BY NatLessThanWellFounded, WFMin, Zenon
<1>2. PICK m \in T : \A k \in T : <<k, m>> \notin OpToRel(<, Nat)
  BY <1>1
<1>3. ASSUME NEW k \in T, k < m PROVE FALSE
  <2>1. <<k, m>> \in Nat \X Nat /\ <<k, m>>[1] < <<k, m>>[2]
    BY <1>3
  <2>2. <<k, m>> \in OpToRel(<, Nat)
    BY <2>1 DEF OpToRel
  <2> QED BY <1>2, <2>2
<1> QED BY <1>3

\* Induction up to n, over a set.
LEMMA Upwards ==
  ASSUME NEW n \in Nat, NEW P \in SUBSET (0 .. n),
         0 \in P, \A m \in 0 .. n - 1 : m \in P => m + 1 \in P
  PROVE  P = 0 .. n
<1> DEFINE T == (0 .. n) \ P
<1>1. SUFFICES ASSUME T # {} PROVE FALSE
  OBVIOUS
<1>2. T \in SUBSET Nat
  OBVIOUS
<1>3. PICK m \in T : \A k \in T : m <= k
  <2> HIDE DEF T
  <2> QED BY <1>1, <1>2, LeastIn
<1>4. m # 0 /\ m - 1 \in P
  BY <1>3
<1> QED BY <1>3, <1>4

\* f starts as a and goes on by the rounds of h.
Rounds(f, n, V, a, h) ==
  /\ f \in [0 .. n -> V] /\ f[0] = a
  /\ \A m \in 1 .. n : f[m] = h[<<m, f[m - 1]>>]

\* There is such a function.
LEMMA RoundsExist ==
  ASSUME NEW V, NEW a \in V, NEW n \in Nat, NEW h \in [(1 .. n) \X V -> V]
  PROVE  \E f : Rounds(f, n, V, a, h)
<1> DEFINE Upto(f, k) == f[0] = a /\ \A m \in 1 .. k : f[m] = h[<<m, f[m - 1]>>]
           P == {k \in 0 .. n : \E f \in [0 .. k -> V] : Upto(f, k)}
<1>1. 0 \in P
  <2> DEFINE f == [k \in 0 .. 0 |-> a]
  <2>1. f \in [0 .. 0 -> V] /\ Upto(f, 0)
    OBVIOUS
  <2> HIDE DEF f, Upto
  <2>2. \E e \in [0 .. 0 -> V] : Upto(e, 0)
    BY <2>1
  <2> QED BY <2>2
<1>2. ASSUME NEW m \in 0 .. n - 1, m \in P PROVE m + 1 \in P
  <2>1. PICK f \in [0 .. m -> V] : Upto(f, m)
    BY <1>2
  <2> DEFINE e == [k \in 0 .. m + 1 |-> IF k = m + 1 THEN h[<<m + 1, f[m]>>] ELSE f[k]]
  <2>0. m + 1 \in 1 .. n /\ m \in Nat /\ f[m] \in V
    OBVIOUS
  <2>2. h[<<m + 1, f[m]>>] \in V
    BY <2>0
  <2>3. e \in [0 .. m + 1 -> V]
    BY <2>0, <2>2
  <2>4. \A k \in 0 .. m : e[k] = f[k]
    BY <2>0
  <2>5. e[m + 1] = h[<<m + 1, f[m]>>]
    BY <2>0
  <2> HIDE DEF e
  <2>6. Upto(e, m + 1)
    <3>1. e[0] = a
      BY <2>1, <2>4
    <3>2. ASSUME NEW j \in 1 .. m + 1 PROVE e[j] = h[<<j, e[j - 1]>>]
      <4>1. CASE j = m + 1
        <5>1. e[j - 1] = f[m]
          BY <2>0, <2>4, <4>1
        <5> QED BY <2>5, <4>1, <5>1
      <4>2. CASE j \in 1 .. m
        <5>1. j - 1 \in 0 .. m /\ j \in 0 .. m
          BY <2>0, <4>2
        <5>2. f[j] = h[<<j, f[j - 1]>>]
          BY <2>1, <4>2
        <5> QED BY <2>4, <5>1, <5>2
      <4> QED BY <2>0, <4>1, <4>2
    <3> QED BY <3>1, <3>2
  <2> HIDE DEF Upto
  <2> QED BY <2>0, <2>3, <2>6
<1>3. P \in SUBSET (0 .. n)
  OBVIOUS
<1>4. n \in P
  <2> HIDE DEF P
  <2> QED BY <1>1, <1>2, <1>3, Upwards
<1> QED BY <1>4 DEF Rounds

\* A function that follows the rounds of h from a.
LEMMA RoundsFrom ==
  ASSUME NEW V, NEW a \in V, NEW n \in Nat, NEW h \in [(1 .. n) \X V -> V], NEW f,
         f = [m \in 0 .. n |-> f[m]], f[0] = a,
         \A m \in 1 .. n : f[m - 1] \in V => f[m] = h[<<m, f[m - 1]>>]
  PROVE  Rounds(f, n, V, a, h)
<1> DEFINE P == {m \in 0 .. n : f[m] \in V}
<1>1. 0 \in P
  OBVIOUS
<1>2. ASSUME NEW m \in 0 .. n - 1, m \in P PROVE m + 1 \in P
  <2>0. f[m] \in V
    BY <1>2
  <2>1. m + 1 \in 1 .. n /\ (m + 1) - 1 = m /\ m + 1 \in 0 .. n /\ f[m] \in V
    BY <2>0
  <2>2. f[m + 1] = h[<<m + 1, f[m]>>]
    BY <2>1
  <2>3. <<m + 1, f[m]>> \in (1 .. n) \X V
    BY <2>1
  <2>4. h[<<m + 1, f[m]>>] \in V
    BY <2>3
  <2> QED BY <2>1, <2>2, <2>4
<1>3. P \in SUBSET (0 .. n)
  OBVIOUS
<1>4. P = 0 .. n
  <2> HIDE DEF P
  <2> QED BY <1>1, <1>2, <1>3, Upwards
<1>5. \A m \in 0 .. n : f[m] \in V
  BY <1>4
<1>6. \A m \in 1 .. n : m - 1 \in 0 .. n
  OBVIOUS
<1> QED BY <1>5, <1>6 DEF Rounds

-----------------------------------------------------------------------------
(* The arrays of C++ (CxxArray). *)

\* The bytes an array claims can be said by an int, also at idx_max: no block
\* of that length is handed out otherwise.
Fits(w) == \E m \in Nat : ItemSize * w.allocated <= BlockSize * m /\ Half(BlockSize * m)

Within(w) ==
  /\ w.used <= w.allocated \/ Past(w)
  /\ w.allocated <= Len(w.mem)
  /\ Fits(w)

Decent(w) ==
  /\ w \in Vector
  /\ w.allocated <= IdxMax
  /\ ~w.denied => Within(w)

\* A step of growing: the items counted are the same, and an array that is
\* not denied growth was not denied any before and claims no less.
Grown(old, new) ==
  /\ Decent(new) /\ new.used = old.used
  /\ ~new.denied => ~old.denied /\ old.allocated <= new.allocated

LEMMA VectorFacts ==
  ASSUME NEW w \in Vector
  PROVE  /\ w.used \in Nat /\ w.allocated \in Nat /\ w.used < IndexSpan
         /\ w.mem \in Seq(Items) /\ Len(w.mem) \in Nat /\ w.denied \in BOOLEAN
         /\ IndexSpan \in Nat /\ IdxMax \in Nat /\ IdxMax < IndexSpan
<1>1. IndexSpan \in Nat /\ IdxMax \in Nat /\ IdxMax < IndexSpan
  BY WidthAssumption
<1> QED BY <1>1 DEF Vector, Indices

LEMMA SameGrown ==
  ASSUME NEW w, Decent(w)
  PROVE  Grown(w, w)
BY VectorFacts DEF Grown, Decent

LEMMA BlankDecent == Decent(Blank) /\ Blank.used = 0 /\ Blank.allocated = 0 /\ ~Blank.denied
<1>1. Good(Blank) /\ Blank.used = 0 /\ Blank.allocated = 0 /\ ~Blank.denied
  BY BlankGood DEF Blank
<1>2. Fits(Blank)
  <2>1. ItemSize * 0 <= BlockSize * 0 /\ Half(BlockSize * 0)
    BY WidthAssumption DEF Half
  <2> QED BY <1>1, <2>1 DEF Fits
<1> QED BY <1>1, <1>2 DEF Good, Decent, Within

LEMMA GrowBytesDecent ==
  ASSUME NEW w, Decent(w), NEW bytes \in Nat, NEW r \in GrowBytes(w, bytes)
  PROVE  Grown(w, r.vec)
<1> DEFINE old     == BlockAlign(ItemSize * w.allocated)
           new     == WantRealloc(old, bytes)
           granted == Granted(w, old, new)
           denied  == Denied(w, new)
<1>0. /\ w \in Vector /\ w.allocated \in Nat /\ w.used \in Nat /\ w.mem \in Seq(Items)
      /\ w.denied \in BOOLEAN
      /\ IdxMax \in Nat /\ IndexSpan \in Nat /\ IdxMax < IndexSpan
      /\ ItemSize \in Nat \ {0} /\ BlockSize \in Nat
      /\ ItemSize * w.allocated \in Nat
  <2>1. w \in Vector
    BY DEF Decent
  <2> QED BY <2>1, VectorFacts, WidthAssumption, MulMono
<1>1. old \in Nat /\ (~w.denied => ItemSize * w.allocated <= old)
  <2>1. old \in Nat
    BY <1>0, BlockAlignShape DEF Shape
  <2>2. ASSUME ~w.denied PROVE ItemSize * w.allocated <= old
    <3>1. PICK m \in Nat : ItemSize * w.allocated <= BlockSize * m /\ Half(BlockSize * m)
      BY <2>2 DEF Decent, Within, Fits
    <3> QED BY <3>1, <1>0, AlignExact
  <2> HIDE DEF old
  <2> QED BY <2>1, <2>2
<1>2. new \in Nat /\ (new # 0 => Shape(new) /\ new >= old + bytes)
  BY <1>1, WantReallocShape
<1>3. \/ new # 0 /\ new <= HeapMax /\ r \in Same(granted, TRUE)
      \/ r \in Same(denied, TRUE)
      \/ \E ok : r \in Same(w, ok)
  <2> HIDE DEF granted, denied, old, new
  <2>1. r \in IF new = 0 THEN Same(w, w.live /\ w.allocated > 0)
             ELSE (IF new <= HeapMax THEN Same(granted, TRUE) ELSE {})
                  \cup (IF ~w.live \/ ReallocMayFail \/ new > HeapMax
                        THEN IF w.live THEN Same(denied, TRUE) ELSE Same(w, FALSE) ELSE {})
    BY DEF GrowBytes, granted, denied, old, new
  <2> QED BY <2>1, Zenon
<1> HIDE DEF old, new
<1>4. Claim(new) \in Nat /\ Claim(new) <= IdxMax /\ new \div ItemSize \in Nat
      /\ Claim(new) <= new \div ItemSize
  BY <1>2, ClaimFacts
<1>5. CASE new # 0 /\ new <= HeapMax /\ r \in Same(granted, TRUE)
  <2>1. r.vec = granted
    BY <1>5, SameFields
  <2>2. /\ Extended(w.mem, old, new) \in Seq(Items)
        /\ Len(Extended(w.mem, old, new)) = new \div ItemSize
    BY <1>0, <1>1, <1>2, ExtendedFacts
  <2>3. /\ granted \in Vector /\ granted.allocated = Claim(new) /\ granted.used = w.used
        /\ granted.mem = Extended(w.mem, old, new) /\ granted.denied = w.denied
    BY <1>0, <1>4, <2>2 DEF Vector, Indices, Granted
  <2> HIDE DEF granted
  <2>4. ASSUME ~w.denied PROVE w.allocated <= Claim(new)
    <3>1. ItemSize * w.allocated <= new
      BY <2>4, <1>0, <1>1, <1>2, <1>5
    <3>2. w.allocated <= IdxMax
      BY DEF Decent
    <3> QED BY <3>1, <3>2, <1>0, <1>2, ClaimFacts
  <2>5. Fits(granted)
    <3>1. Half(new) /\ \E m \in Nat : new = BlockSize * m
      <4>1. HeapMax \in Nat /\ SizeSpan - IntSpan \in Nat
        BY WidthAssumption
      <4>2. ~(new >= SizeSpan - IntSpan)
        BY <1>2, <1>5, <4>1, HeapAssumption
      <4> QED BY <1>2, <1>5, <4>2 DEF Shape
    <3>2. ItemSize * Claim(new) <= new
      <4>1. ItemSize * Claim(new) <= ItemSize * (new \div ItemSize)
        BY <1>0, <1>4, MulMono
      <4>2. ItemSize * (new \div ItemSize) <= new
        <5>1. new = ItemSize * (new \div ItemSize) + (new % ItemSize) /\ new % ItemSize \in Nat
          BY <1>0, <1>2, DivMod
        <5>2. ItemSize * (new \div ItemSize) \in Nat
          BY <1>0, <1>4, MulMono
        <5> QED BY <5>1, <5>2, <1>2
      <4>3. ItemSize * (new \div ItemSize) \in Nat /\ ItemSize * Claim(new) \in Nat
        BY <1>0, <1>4, MulMono
      <4> QED BY <4>1, <4>2, <4>3, <1>2
    <3> QED BY <3>1, <3>2, <2>3 DEF Fits
  <2>6. ASSUME ~w.denied PROVE Within(granted)
    <3>1. granted.used <= granted.allocated \/ Past(granted)
      <4>1. w.used <= w.allocated \/ Past(w)
        BY <2>6 DEF Decent, Within
      <4> QED BY <4>1, <2>3, <2>4, <2>6, <1>0, <1>4 DEF Past
    <3> QED BY <3>1, <2>2, <2>3, <2>5, <1>4 DEF Within
  <2> QED BY <2>1, <2>3, <2>4, <2>6, <1>4 DEF Grown, Decent
<1>6. CASE r \in Same(denied, TRUE)
  <2>1. r.vec = denied
    BY <1>6, SameFields
  <2>2. /\ denied \in Vector /\ denied.allocated = Claim(new) /\ denied.used = w.used
        /\ denied.denied
    BY <1>0, <1>4 DEF Vector, Indices, Denied
  <2> QED BY <2>1, <2>2, <1>4 DEF Grown, Decent
<1>7. CASE \E ok : r \in Same(w, ok)
  <2>1. r.vec = w
    BY <1>7, SameFields
  <2> QED BY <2>1, SameGrown
<1> QED BY <1>3, <1>5, <1>6, <1>7

LEMMA DynGrowDecent ==
  ASSUME NEW w, Decent(w), NEW n \in Nat, NEW r \in GrowByCount(w, n) \cup DynGrowByBytes(w, n)
  PROVE  Grown(w, r.vec)
<1>0. ItemSize * n \in Nat
  BY WidthAssumption, MulMono
<1>1. \/ r \in Same(w, FALSE)
      \/ r \in GrowBytes(w, ItemSize * n)
      \/ r \in GrowBytes(w, n)
  <2>1. CASE r \in GrowByCount(w, n)
    BY <2>1, Zenon DEF GrowByCount
  <2>2. CASE r \in DynGrowByBytes(w, n)
    BY <2>2, Zenon DEF DynGrowByBytes
  <2> QED BY <2>1, <2>2
<1>2. CASE r \in Same(w, FALSE)
  <2>1. r.vec = w
    BY <1>2, SameFields
  <2> QED BY <2>1, SameGrown
<1> QED BY <1>0, <1>1, <1>2, GrowBytesDecent

\* Below idx_max an array that is not denied growth is a vector in order.
LEMMA DecentGood ==
  ASSUME NEW w, Decent(w), ~w.denied, ~Past(w)
  PROVE  Good(w)
<1>1. Exact(w)
  BY DEF Decent, Within, Fits, Exact
<1> QED BY <1>1 DEF Decent, Within, Good

\* The next item has room, or is past the limit.
LEMMA DynAutoRoom ==
  ASSUME NEW w, Decent(w), NEW r \in DynGrowAuto(w)
  PROVE  /\ Grown(w, r.vec)
         /\ r.ok /\ ~r.vec.denied => r.vec.used + 1 <= r.vec.allocated \/ r.vec.used + 1 > IdxMax
<1>0. w \in Vector /\ Growth \in Nat /\ w.used \in Nat /\ w.allocated \in Nat /\ IdxMax \in Nat
  BY VectorFacts, WidthAssumption DEF Decent
<1>1. CASE w.used < w.allocated
  <2>1. r.vec = w
    BY <1>1, SameFields DEF DynGrowAuto
  <2> QED BY <2>1, <1>0, <1>1, SameGrown
<1>2. CASE ~(w.used < w.allocated)
  <2>1. r \in DynGrowByBytes(w, Growth)
    BY <1>2 DEF DynGrowAuto
  <2>2. Grown(w, r.vec)
    BY <2>1, <1>0, DynGrowDecent
  <2>3. ASSUME r.ok, ~r.vec.denied, w.used + 1 <= IdxMax
        PROVE  w.used + 1 <= r.vec.allocated
    <3>1. ~w.denied /\ ~Past(w)
      BY <2>2, <2>3, <1>0 DEF Grown, Past
    <3>2. Good(w) /\ ~(w.allocated >= IdxMax)
      <4>1. w.used <= w.allocated
        BY <3>1 DEF Decent, Within
      <4> QED BY <4>1, <3>1, <1>0, <1>2, <2>3, DecentGood
    <3>3. r \in GrowAuto(w)
      <4>1. ~(IdxMax < w.allocated)
        BY <3>2, <1>0
      <4> QED BY <2>1, <4>1, <1>2, <3>2 DEF DynGrowByBytes, GrowAuto, GrowByBytes
    <3>4. w.used < r.vec.allocated
      BY <2>3, <3>2, <3>3, GrowAutoRoom
    <3>5. r.vec.allocated \in Nat
      BY <2>2, VectorFacts DEF Grown, Decent
    <3> QED BY <3>4, <3>5, <1>0
  <2>4. r.vec.used = w.used
    BY <2>2 DEF Grown
  <2> QED BY <2>2, <2>3, <2>4, <1>0
<1> QED BY <1>1, <1>2

LEMMA WithDecent ==
  ASSUME NEW w, Decent(w), NEW used \in Indices, NEW f \in [DOMAIN w.mem -> Items],
         ~w.denied => used <= w.allocated \/ used > IdxMax
  PROVE  Decent(With(w, used, f))
<1> DEFINE v == With(w, used, f)
<1>0. w \in Vector /\ w.mem \in Seq(Items)
  BY VectorFacts DEF Decent
<1>1. f \in Seq(Items) /\ Len(f) = Len(w.mem)
  BY <1>0, SameShape
<1>2. v.used = used /\ v.allocated = w.allocated /\ v.denied = w.denied /\ v.mem = f
  BY WithFields
<1>3. v \in Vector
  BY <1>0, <1>1 DEF With, Vector
<1> HIDE DEF v
<1>4. Fits(w) => Fits(v)
  BY <1>2 DEF Fits
<1>5. ~w.denied => Within(v)
  BY <1>0, <1>1, <1>2, <1>4 DEF Decent, Within, Past
<1>6. Decent(v)
  BY <1>2, <1>3, <1>5 DEF Decent
<1> QED BY <1>6 DEF v

LEMMA PutDecent ==
  ASSUME NEW w, Decent(w), NEW used \in Indices, NEW index, NEW x \in Items,
         ~w.denied => used <= w.allocated \/ used > IdxMax
  PROVE  Decent(Put(w, used, index, x))
<1>1. w.mem \in Seq(Items)
  BY VectorFacts DEF Decent
<1>2. [i \in DOMAIN w.mem |-> IF i = index + 1 THEN x ELSE w.mem[i]] \in [DOMAIN w.mem -> Items]
  BY <1>1
<1> QED BY <1>2, WithDecent DEF Put

Bads == {"none", "overrun"}

LEMMA DynAppendDecent ==
  ASSUME NEW w, Decent(w), NEW x \in Items, NEW a \in DynAppend(w, x)
  PROVE  Decent(a.arr) /\ a.ok \in BOOLEAN /\ a.bad \in Bads
<1>1. PICK r \in DynGrowAuto(w) :
        a = IF r.ok
            THEN [arr |-> Put(r.vec, (r.vec.used + 1) % IndexSpan, r.vec.used, x),
                  ok |-> ~IsInv(r.vec.used), bad |-> Outside(r.vec, r.vec.used + 1)]
            ELSE [arr |-> r.vec, ok |-> FALSE, bad |-> "none"]
  BY DEF DynAppend
<1>2. /\ Decent(r.vec)
      /\ r.ok /\ ~r.vec.denied => r.vec.used + 1 <= r.vec.allocated \/ r.vec.used + 1 > IdxMax
  BY DynAutoRoom DEF Grown
<1>3. /\ r.vec.used \in Nat /\ r.vec.allocated \in Nat /\ r.vec.used < IndexSpan
      /\ IndexSpan \in Nat /\ IdxMax \in Nat
  BY <1>2, VectorFacts DEF Decent
<1>4. CASE r.ok
  <2> DEFINE used == (r.vec.used + 1) % IndexSpan
  <2>1. \/ r.vec.used + 1 < IndexSpan /\ used = r.vec.used + 1
        \/ used = 0
    <3>1. /\ \A i \in Nat, j \in Nat \ {0} : i < j => i % j = i
          /\ \A j \in Nat \ {0} : j % j = 0
      BY Z3
    <3>2. r.vec.used + 1 < IndexSpan \/ r.vec.used + 1 = IndexSpan
      BY <1>3
    <3> QED BY <1>3, <3>1, <3>2
  <2> HIDE DEF used
  <2>2. used \in Indices
    BY <2>1, <1>3 DEF Indices
  <2>3. ~r.vec.denied => used <= r.vec.allocated \/ used > IdxMax
    BY <1>2, <1>3, <1>4, <2>1
  <2>4. Decent(Put(r.vec, used, r.vec.used, x))
    BY <1>2, <2>2, <2>3, PutDecent
  <2>5. a = [arr |-> Put(r.vec, used, r.vec.used, x),
             ok |-> ~IsInv(r.vec.used), bad |-> Outside(r.vec, r.vec.used + 1)]
    BY <1>1, <1>4 DEF used
  <2>6. Outside(r.vec, r.vec.used + 1) \in Bads /\ (~IsInv(r.vec.used)) \in BOOLEAN
    BY DEF Outside, Bads, IsInv
  <2> QED BY <2>4, <2>5, <2>6
<1>5. CASE ~r.ok
  BY <1>1, <1>2, <1>5 DEF Bads
<1> QED BY <1>4, <1>5

Fixed == [used : 0 .. Room, mem : [1 .. Room -> Items]]

LEMMA FixAppendFixed ==
  ASSUME Room \in Nat, NEW f \in Fixed, NEW x \in Items, NEW a \in FixAppend(f, x)
  PROVE  a.arr \in Fixed /\ a.ok \in BOOLEAN /\ a.bad \in Bads
<1>1. CASE f.used < Room
  <2>1. a = [arr |-> [used |-> f.used + 1, mem |-> [f.mem EXCEPT ![f.used + 1] = x]],
             ok |-> TRUE, bad |-> "none"]
    BY <1>1 DEF FixAppend
  <2>2. f.used \in 0 .. Room /\ f.mem \in [1 .. Room -> Items]
    BY DEF Fixed
  <2>3. f.used + 1 \in 0 .. Room /\ [f.mem EXCEPT ![f.used + 1] = x] \in [1 .. Room -> Items]
    BY <1>1, <2>2
  <2>4. a.arr = [used |-> f.used + 1, mem |-> [f.mem EXCEPT ![f.used + 1] = x]]
        /\ a.ok = TRUE /\ a.bad = "none"
    BY <2>1
  <2>5. a.arr \in Fixed
    BY <2>3, <2>4 DEF Fixed
  <2> QED BY <2>4, <2>5 DEF Bads
<1>2. CASE ~(f.used < Room)
  <2>1. a = [arr |-> f, ok |-> FALSE, bad |-> "none"]
    BY <1>2 DEF FixAppend
  <2> QED BY <2>1 DEF Bads
<1> QED BY <1>1, <1>2

\* What appending to an array in order may come to.
Kind(inplace) == IF inplace THEN Fixed ELSE {w \in Vector : Decent(w)}
Outs(inplace) == [arr : Kind(inplace), ok : BOOLEAN, bad : Bads, told : Nat]

LEMMA OneMoreIn ==
  ASSUME Room \in Nat, NEW inplace \in BOOLEAN, NEW o \in Outs(inplace), NEW x \in Items
  PROVE  OneMore(inplace, o, x) \subseteq Outs(inplace)
<1> SUFFICES ASSUME NEW e \in OneMore(inplace, o, x) PROVE e \in Outs(inplace)
  OBVIOUS
<1>0. o.arr \in Kind(inplace) /\ o.told \in Nat
  BY DEF Outs
<1>1. PICK a \in IF inplace THEN FixAppend(o.arr, x) ELSE DynAppend(o.arr, x) :
        e = [arr |-> a.arr, ok |-> a.ok, bad |-> a.bad, told |-> IF a.ok THEN o.told + 1 ELSE o.told]
  BY DEF OneMore
<1>2. a.arr \in Kind(inplace) /\ a.ok \in BOOLEAN /\ a.bad \in Bads
  <2>1. CASE inplace
    BY <1>0, <1>1, <2>1, FixAppendFixed DEF Kind
  <2>2. CASE ~inplace
    <3>1. Decent(o.arr) /\ a \in DynAppend(o.arr, x)
      BY <1>0, <1>1, <2>2 DEF Kind
    <3>2. Decent(a.arr) /\ a.ok \in BOOLEAN /\ a.bad \in Bads
      BY <3>1, DynAppendDecent
    <3> QED BY <2>2, <3>2 DEF Kind, Decent
  <2> QED BY <2>1, <2>2
<1> QED BY <1>0, <1>1, <1>2 DEF Outs

Further(inplace, outs, x) ==
  UNION {IF o.ok /\ o.bad = "none" THEN OneMore(inplace, o, x) ELSE {o} : o \in outs}

LEMMA FurtherIn ==
  ASSUME Room \in Nat, NEW inplace \in BOOLEAN, NEW outs \in SUBSET Outs(inplace), NEW x \in Items
  PROVE  Further(inplace, outs, x) \in SUBSET Outs(inplace)
<1> SUFFICES ASSUME NEW e \in Further(inplace, outs, x) PROVE e \in Outs(inplace)
  OBVIOUS
<1>1. PICK o \in outs : e \in IF o.ok /\ o.bad = "none" THEN OneMore(inplace, o, x) ELSE {o}
  BY DEF Further
<1>2. OneMore(inplace, o, x) \subseteq Outs(inplace)
  BY OneMoreIn
<1> QED BY <1>1, <1>2

Start(w) == {[arr |-> w, ok |-> TRUE, bad |-> "none", told |-> 0]}

\* after is what appending one item after the other comes to.
Appending(after, inplace, w, items) ==
  /\ after[0] = Start(w)
  /\ \A m \in 1 .. Len(items) : after[m] = Further(inplace, after[m - 1], items[m])
  /\ \A m \in 0 .. Len(items) : after[m] \in SUBSET Outs(inplace)

LEMMA AppendAllRounds ==
  ASSUME Room \in Nat, NEW inplace \in BOOLEAN, NEW w \in Kind(inplace), NEW items \in Seq(Items)
  PROVE  \E after : /\ Appending(after, inplace, w, items)
                   /\ AppendAll(inplace, w, items) = after[Len(items)]
<1> DEFINE n == Len(items)
           V == SUBSET Outs(inplace)
           a == Start(w)
           h == [x \in (1 .. n) \X V |-> Further(inplace, x[2], items[x[1]])]
           Body(f) == [m \in 0 .. n |->
                         IF m = 0 THEN a
                         ELSE UNION {IF o.ok /\ o.bad = "none" THEN OneMore(inplace, o, items[m]) ELSE {o}
                                     : o \in f[m - 1]}]
           W == CHOOSE f : f = Body(f)
<1>1. n \in Nat /\ \A m \in 1 .. n : items[m] \in Items
  OBVIOUS
<1>2. a \in V
  BY DEF Outs, Bads, Start
<1>3. /\ h \in [(1 .. n) \X V -> V]
      /\ \A m \in 1 .. n, v \in V : h[<<m, v>>] = Further(inplace, v, items[m])
  <2>1. \A m \in 1 .. n, v \in V : Further(inplace, v, items[m]) \in V
    BY <1>1, FurtherIn
  <2> HIDE DEF V, n
  <2> QED BY <2>1
<1>4. AppendAll(inplace, w, items) = W[n]
  BY DEF AppendAll, Start
<1>5. \A f : Body(f) = [m \in 0 .. n |-> IF m = 0 THEN a ELSE Further(inplace, f[m - 1], items[m])]
  BY DEF Further
<1> HIDE DEF n, V, a, h, Body
<1>6. PICK e : Rounds(e, n, V, a, h)
  BY <1>1, <1>2, <1>3, RoundsExist
<1>7. e = Body(e)
  <2>1. \A m \in 1 .. n : e[m] = Further(inplace, e[m - 1], items[m])
    <3> SUFFICES ASSUME NEW m \in 1 .. n
                 PROVE  e[m] = Further(inplace, e[m - 1], items[m])
      OBVIOUS
    <3>1. m - 1 \in 0 .. n
      BY <1>1
    <3>2. e[m - 1] \in V /\ e[m] = h[<<m, e[m - 1]>>]
      BY <1>6, <3>1 DEF Rounds
    <3> QED BY <1>3, <3>2
  <2>2. e \in [0 .. n -> V] /\ e[0] = a
    BY <1>6 DEF Rounds
  <2> DEFINE g == [m \in 0 .. n |-> IF m = 0 THEN a ELSE Further(inplace, e[m - 1], items[m])]
  <2>3. Body(e) = g
    BY <1>5
  <2>4. ASSUME NEW m \in 0 .. n PROVE e[m] = g[m]
    <3>1. m = 0 \/ m \in 1 .. n
      BY <1>1
    <3> QED BY <2>1, <2>2, <3>1
  <2>5. e = [m \in 0 .. n |-> e[m]] /\ g = [m \in 0 .. n |-> g[m]]
    BY <2>2
  <2> HIDE DEF g
  <2> QED BY <2>3, <2>4, <2>5
<1>8. W = Body(W)
  BY <1>7
<1> HIDE DEF W
<1>9. /\ W = [m \in 0 .. n |-> W[m]] /\ W[0] = a
      /\ \A m \in 1 .. n : W[m] = Further(inplace, W[m - 1], items[m])
  <2>1. W = [m \in 0 .. n |-> IF m = 0 THEN a ELSE Further(inplace, W[m - 1], items[m])]
    BY <1>5, <1>8
  <2>2. 0 \in 0 .. n /\ 1 .. n \subseteq 0 .. n /\ \A m \in 1 .. n : m # 0
    BY <1>1
  <2>3. W = [m \in 0 .. n |-> W[m]]
    BY <2>1, Zenon
  <2>4. W[0] = a
    BY <2>1, <2>2
  <2>5. \A m \in 1 .. n : W[m] = Further(inplace, W[m - 1], items[m])
    BY <2>1, <2>2
  <2> QED BY <2>3, <2>4, <2>5
<1>10. Rounds(W, n, V, a, h)
  <2>1. \A m \in 1 .. n : W[m - 1] \in V => W[m] = h[<<m, W[m - 1]>>]
    BY <1>3, <1>9
  <2> QED BY <1>1, <1>2, <1>3, <1>9, <2>1, RoundsFrom
<1>11. \A m \in 0 .. n : W[m] \in V
  BY <1>10 DEF Rounds
<1>12. Appending(W, inplace, w, items)
  BY <1>9, <1>11 DEF Appending, n, V, a
<1> QED BY <1>4, <1>12 DEF n

\* However many items are appended, what becomes of the array is in order.
LEMMA AppendAllIn ==
  ASSUME Room \in Nat, NEW inplace \in BOOLEAN, NEW w \in Kind(inplace), NEW items \in Seq(Items)
  PROVE  AppendAll(inplace, w, items) \subseteq Outs(inplace)
<1>1. PICK after : /\ Appending(after, inplace, w, items)
                   /\ AppendAll(inplace, w, items) = after[Len(items)]
  BY AppendAllRounds
<1>2. Len(items) \in 0 .. Len(items)
  OBVIOUS
<1> QED BY <1>1, <1>2 DEF Appending

-----------------------------------------------------------------------------
(* The steps of arrays. *)

ArrayInv ==
  /\ dyn \in [Arrays -> {w \in Vector : Decent(w)}]
  /\ fix \in Fixed

LEMMA BecomesInv ==
  ASSUME ArrayInv, NEW d \in Arrays, NEW w, Decent(w), NEW bad, Becomes(d, w, bad)
  PROVE  ArrayInv'
<1>1. w \in Vector
  BY DEF Decent
<1> QED BY <1>1 DEF ArrayInv, Becomes, Decent, Within, Fits, Past

LEMMA FixBecomesInv ==
  ASSUME ArrayInv, NEW f \in Fixed, FixBecomes(f)
  PROVE  ArrayInv'
BY DEF ArrayInv, FixBecomes

LEMMA MinOfTwo ==
  ASSUME NEW i \in Int, NEW j \in Int
  PROVE  Min({i, j}) = IF i <= j THEN i ELSE j
<1> DEFINE m == IF i <= j THEN i ELSE j
<1>1. m \in {i, j} /\ \A k \in {i, j} : m <= k
  OBVIOUS
<1>2. \A x \in {i, j} : (\A k \in {i, j} : x <= k) => x = m
  OBVIOUS
<1> QED BY <1>1, <1>2 DEF Min

\* What is taken of an array are items.
LEMMA RangeOfItems ==
  ASSUME NEW w \in Vector, Len(w.mem) >= w.used, NEW begin \in Nat, NEW count \in Nat
  PROVE  Range1(w, begin, count) \in Seq(Items)
<1> DEFINE wrapped == (begin + count) % IndexSpan
           end == Min({w.used, wrapped})
<1>0. w.used \in Nat /\ w.mem \in Seq(Items) /\ Len(w.mem) \in Nat /\ IndexSpan \in Nat \ {0}
  BY VectorFacts, WidthAssumption
<1>1. wrapped \in Nat
  BY <1>0, DivMod
<1> HIDE DEF wrapped
<1>2. end \in Nat /\ end <= Len(w.mem)
  BY <1>0, <1>1, MinOfTwo
<1> HIDE DEF end
<1>3. SubSeq(w.mem, begin + 1, end) \in Seq(Items)
  BY <1>0, <1>2
<1> QED BY <1>3 DEF Range1, wrapped, end

LEMMA ArrayInit == AInit => ArrayInv
<1> SUFFICES ASSUME AInit PROVE ArrayInv
  OBVIOUS
<1>1. Blank \in {w \in Vector : Decent(w)}
  BY BlankDecent DEF Decent
<1>2. EmptyFix \in Fixed
  BY RoomAssumption DEF EmptyFix, Fixed, Items
<1> QED BY <1>1, <1>2 DEF AInit, ArrayInv

LEMMA ArrayStep == ArrayInv /\ [ANext]_avars => ArrayInv'
<1> SUFFICES ASSUME ArrayInv, [ANext]_avars PROVE ArrayInv'
  OBVIOUS
<1>0. Room \in Nat /\ Room \in Int /\ Indices \subseteq Nat /\ Amounts \subseteq Nat /\ MaxItems \in Nat
  BY RoomAssumption DEF Indices
<1>01. ASSUME NEW d \in Arrays
       PROVE  /\ dyn[d] \in Vector /\ Decent(dyn[d])
              /\ dyn[d].used \in Indices /\ dyn[d].used \in Nat
              /\ dyn[d].mem \in Seq(Items) /\ Len(dyn[d].mem) \in Nat
  <2>1. dyn[d] \in Vector /\ Decent(dyn[d])
    BY <1>01 DEF ArrayInv
  <2> QED BY <2>1, VectorFacts DEF Vector
<1>02. \A x \in Values \cup {Zero} : x \in Items
  BY DEF Items
<1>03. fix \in Fixed
  BY DEF ArrayInv
<1>1. ASSUME NEW d \in Arrays, NEW x \in Values \cup {Zero}, AppendOne(d, x)
      PROVE  ArrayInv'
  <2>1. PICK r \in DynAppend(dyn[d], x) : Becomes(d, r.arr, r.bad)
    BY <1>1 DEF AppendOne
  <2>2. Decent(r.arr)
    BY <1>01, <1>02, DynAppendDecent
  <2> QED BY <2>1, <2>2, BecomesInv
<1>2. ASSUME NEW d \in Arrays, NEW n \in Amounts, Reserve(d, n)
      PROVE  ArrayInv'
  <2>1. PICK r \in GrowByCount(dyn[d], n) \cup DynGrowByBytes(dyn[d], n) : Becomes(d, r.vec, "none")
    BY <1>2 DEF Reserve
  <2>2. Decent(r.vec)
    BY <1>0, <1>01, DynGrowDecent DEF Grown
  <2> QED BY <2>1, <2>2, BecomesInv
<1>3. ASSUME NEW d \in Arrays, NEW i \in 0 .. MaxItems, SetOne(d, i, Zero)
      PROVE  ArrayInv'
  <2>1. Becomes(d, Put(dyn[d], dyn[d].used, i, Zero), Outside(dyn[d], i + 1))
    BY <1>3 DEF SetOne
  <2>2. ~dyn[d].denied => dyn[d].used <= dyn[d].allocated \/ dyn[d].used > IdxMax
    BY <1>01 DEF Decent, Within, Past
  <2>3. Decent(Put(dyn[d], dyn[d].used, i, Zero))
    BY <1>01, <1>02, <2>2, PutDecent
  <2> QED BY <2>1, <2>3, BecomesInv
<1>4. ASSUME NEW d \in Arrays, Release(d)
      PROVE  ArrayInv'
  <2>1. \E w \in {dyn[d], Blank} : Becomes(d, w, Outside(dyn[d], dyn[d].used))
    BY <1>4 DEF Release
  <2>2. \A w \in {dyn[d], Blank} : Decent(w)
    BY <1>01, BlankDecent
  <2> QED BY <2>1, <2>2, BecomesInv
<1>5. ASSUME NEW d \in Arrays, NEW s \in Arrays, CopyDyn(d, s)
      PROVE  ArrayInv'
  <2> DEFINE n == dyn[s].used
             f(r) == [i \in DOMAIN r.vec.mem |->
                        IF i <= n /\ i <= Len(dyn[s].mem) THEN dyn[s].mem[i] ELSE r.vec.mem[i]]
  <2>1. PICK r \in GrowByCount(Blank, n) :
          IF r.ok THEN Becomes(d, With(r.vec, n, f(r)), Outside(dyn[s], n))
          ELSE Becomes(d, r.vec, "none")
    BY <1>5 DEF CopyDyn
  <2>2. Decent(r.vec) /\ r.vec \in Vector
    BY <1>01, BlankDecent, DynGrowDecent DEF Grown, Decent
  <2>3. CASE r.ok
    <3>1. n # 0
      <4>1. n = 0 => r \in Same(Blank, FALSE)
        BY DEF GrowByCount
      <4> QED BY <4>1, <2>3, SameFields
    <3>2. r \in InitEx(n)
      BY <3>1 DEF InitEx
    <3>3. n <= r.vec.allocated
      BY <3>2, <2>3, <1>01, InitExRoom
    <3>4. f(r) \in [DOMAIN r.vec.mem -> Items]
      <4>1. r.vec.mem \in Seq(Items) /\ dyn[s].mem \in Seq(Items) /\ Len(dyn[s].mem) \in Nat
        BY <2>2, <1>01, VectorFacts
      <4>2. ASSUME NEW i \in DOMAIN r.vec.mem
            PROVE  (IF i <= n /\ i <= Len(dyn[s].mem) THEN dyn[s].mem[i] ELSE r.vec.mem[i]) \in Items
        <5>1. i \in Nat \ {0} /\ r.vec.mem[i] \in Items
          BY <4>1, <4>2
        <5>2. i <= Len(dyn[s].mem) => dyn[s].mem[i] \in Items
          BY <4>1, <5>1
        <5> QED BY <5>1, <5>2
      <4> QED BY <4>2
    <3> HIDE DEF n, f
    <3>5. n \in Indices
      BY <1>01 DEF n
    <3>6. Decent(With(r.vec, n, f(r)))
      BY <2>2, <3>3, <3>4, <3>5, WithDecent
    <3> QED BY <2>1, <2>3, <3>6, BecomesInv
  <2>4. CASE ~r.ok
    BY <2>1, <2>2, <2>4, BecomesInv
  <2> QED BY <2>3, <2>4
<1>04. Begins \subseteq Nat
  BY DEF Begins
<1>6. ASSUME NEW d \in Arrays, NEW s \in Arrays, NEW b \in Begins, NEW n \in Amounts,
             AppendRange(d, s, b, n)
      PROVE  ArrayInv'
  <2>1. PICK r \in AppendAll(FALSE, dyn[d], Range1(dyn[s], b, n)) : Becomes(d, r.arr, r.bad)
    BY <1>6 DEF AppendRange
  <2>2. Range1(dyn[s], b, n) \in Seq(Items)
    BY <1>0, <1>01, <1>04, <1>6, RangeOfItems DEF AppendRange
  <2>3. dyn[d] \in Kind(FALSE)
    BY <1>01 DEF Kind
  <2>4. r \in Outs(FALSE)
    BY <1>0, <2>1, <2>2, <2>3, AppendAllIn
  <2>5. Decent(r.arr)
    BY <2>4 DEF Outs, Kind
  <2> QED BY <2>1, <2>5, BecomesInv
<1>7. ASSUME NEW x \in Values, FixOne(x)
      PROVE  ArrayInv'
  <2>1. PICK r \in FixAppend(fix, x) : FixBecomes(r.arr)
    BY <1>7 DEF FixOne
  <2>2. r.arr \in Fixed
    BY <1>0, <1>02, <1>03, FixAppendFixed
  <2> QED BY <2>1, <2>2, FixBecomesInv
<1>8. ASSUME NEW i \in 0 .. Room, FixSet(i, Zero)
      PROVE  ArrayInv'
  <2> DEFINE f == [fix EXCEPT !.mem[i + 1] = Zero]
  <2>1. FixBecomes(f)
    BY <1>8 DEF FixSet
  <2>2. fix.mem \in [1 .. Room -> Items] /\ fix.used \in 0 .. Room
    BY <1>03 DEF Fixed
  <2>3. f = [used |-> fix.used, mem |-> [fix.mem EXCEPT ![i + 1] = Zero]]
    BY <1>03 DEF Fixed
  <2>4. [fix.mem EXCEPT ![i + 1] = Zero] \in [1 .. Room -> Items]
    BY <1>02, <2>2
  <2> HIDE DEF f
  <2>5. f \in Fixed
    BY <2>2, <2>3, <2>4 DEF Fixed
  <2> QED BY <2>1, <2>5, FixBecomesInv
<1>9. CASE FixFree
  <2>1. EmptyFix \in Fixed
    BY <1>0, <1>02 DEF EmptyFix, Fixed
  <2> QED BY <1>9, <2>1, FixBecomesInv DEF FixFree
<1>10. ASSUME NEW s \in Arrays, FixCopy(s)
       PROVE  ArrayInv'
  <2> DEFINE n == Min({Room, dyn[s].used})
             f == [i \in 1 .. Room |-> IF i <= n THEN dyn[s].mem[i] ELSE Zero]
  <2>1. FixBecomes([used |-> n, mem |-> f]) /\ Len(dyn[s].mem) >= dyn[s].used
    BY <1>10 DEF FixCopy
  <2>2. n \in 0 .. Room /\ n <= dyn[s].used
    <3>1. Room \in Nat /\ dyn[s].used \in Nat
      BY <1>0, <1>01
    <3>2. n \in {Room, dyn[s].used} /\ n <= Room /\ n <= dyn[s].used
      BY <3>1, MinOfTwo
    <3> HIDE DEF n
    <3> QED BY <3>1, <3>2
  <2> HIDE DEF n
  <2>3. f \in [1 .. Room -> Items]
    <3>1. ASSUME NEW i \in 1 .. Room, i <= n PROVE dyn[s].mem[i] \in Items
      <4>1. i \in 1 .. Len(dyn[s].mem)
        BY <1>0, <1>01, <2>1, <2>2, <3>1
      <4> QED BY <4>1, <1>01
    <3> QED BY <3>1, <1>02
  <2>4. [used |-> n, mem |-> f] \in Fixed
    BY <2>2, <2>3 DEF Fixed
  <2> QED BY <2>1, <2>4, FixBecomesInv
<1>11. ASSUME NEW s \in Arrays, NEW b \in Begins, NEW n \in Amounts, FixRange(s, b, n)
       PROVE  ArrayInv'
  <2>1. PICK r \in AppendAll(TRUE, fix, Range1(dyn[s], b, n)) : FixBecomes(r.arr)
    BY <1>11 DEF FixRange
  <2>2. Range1(dyn[s], b, n) \in Seq(Items)
    BY <1>0, <1>01, <1>04, <1>11, RangeOfItems DEF FixRange
  <2>3. fix \in Kind(TRUE)
    BY <1>03 DEF Kind
  <2>4. r \in Outs(TRUE)
    BY <1>0, <2>1, <2>2, <2>3, AppendAllIn
  <2>5. r.arr \in Fixed
    BY <2>4 DEF Outs, Kind
  <2> QED BY <2>1, <2>5, FixBecomesInv
<1>12. CASE UNCHANGED avars
  BY <1>12 DEF avars, ArrayInv
<1> QED BY <1>1, <1>2, <1>3, <1>4, <1>5, <1>6, <1>7, <1>8, <1>9, <1>10, <1>11, <1>12
        DEF ANext, Torn

\* Arrays of C++, those that grow and those in place, never count more items
\* than they claim room for, up to idx_max and until they are refused growth
\* (dynmem.hh:196-251, inplace.hh:163-222), for all sizes and widths.
THEOREM ArraysStayInOrder == ASpec => []ArraysInOrder
<1>1. ArrayInv => ArraysInOrder
  <2> SUFFICES ASSUME ArrayInv PROVE ArraysInOrder
    OBVIOUS
  <2>1. ASSUME NEW d \in Arrays
        PROVE  /\ dyn[d].allocated <= IdxMax
               /\ dyn[d].used <= dyn[d].allocated \/ Past(dyn[d]) \/ dyn[d].denied
    <3>1. Decent(dyn[d])
      BY <2>1 DEF ArrayInv
    <3> QED BY <3>1 DEF Decent, Within
  <2>2. fix.used <= Room
    BY RoomAssumption DEF ArrayInv, Fixed
  <2> QED BY <2>1, <2>2 DEF ArraysInOrder
<1> QED BY <1>1, ArrayInit, ArrayStep, PTL DEF ASpec

-----------------------------------------------------------------------------
(* What appending a range returns. *)

\* The items of the one are the first of the other, as far as n.
SameItems(new, old, n) ==
  n <= Len(new) /\ n <= Len(old) /\ \A i \in 1 .. n : new[i] = old[i]

\* Of growing: no success, no change; and the items stay.
LEMMA GrowBytesSpares ==
  ASSUME NEW w, Decent(w), ~Past(w), NEW bytes \in Nat, NEW r \in GrowBytes(w, bytes)
  PROVE  /\ ~r.ok => r.vec = w
         /\ ~r.vec.denied => SameItems(r.vec.mem, w.mem, w.used)
<1> DEFINE old     == BlockAlign(ItemSize * w.allocated)
           new     == WantRealloc(old, bytes)
           granted == Granted(w, old, new)
           denied  == Denied(w, new)
<1>0. /\ w \in Vector /\ w.allocated \in Nat /\ w.used \in Nat /\ w.mem \in Seq(Items)
      /\ Len(w.mem) \in Nat /\ ItemSize \in Nat \ {0} /\ BlockSize \in Nat
      /\ ItemSize * w.allocated \in Nat
  <2>1. w \in Vector
    BY DEF Decent
  <2> QED BY <2>1, VectorFacts, WidthAssumption, MulMono
<1>1. ASSUME ~w.denied PROVE SameItems(w.mem, w.mem, w.used) /\ w.used <= w.allocated
  BY <1>0, <1>1 DEF Decent, Within, SameItems
<1>2. old \in Nat
  BY <1>0, BlockAlignShape DEF Shape
<1>3. new \in Nat
  BY <1>2, WantReallocShape
<1>4. \/ r \in Same(granted, TRUE)
      \/ r \in Same(denied, TRUE)
      \/ \E ok : r \in Same(w, ok)
  <2> HIDE DEF granted, denied, old, new
  <2>1. r \in IF new = 0 THEN Same(w, w.live /\ w.allocated > 0)
             ELSE (IF new <= HeapMax THEN Same(granted, TRUE) ELSE {})
                  \cup (IF ~w.live \/ ReallocMayFail \/ new > HeapMax
                        THEN IF w.live THEN Same(denied, TRUE) ELSE Same(w, FALSE) ELSE {})
    BY DEF GrowBytes, granted, denied, old, new
  <2> QED BY <2>1, Zenon
<1>5. CASE r \in Same(granted, TRUE)
  <2>1. r.vec = granted /\ r.ok = TRUE
    BY <1>5, SameFields
  <2>2. granted.denied = w.denied /\ granted.mem = Extended(w.mem, old, new)
        /\ granted.allocated = Claim(new)
    BY DEF Granted
  <2>3. Grown(w, r.vec)
    BY GrowBytesDecent
  <2> HIDE DEF granted
  <2>4. ASSUME ~w.denied PROVE SameItems(granted.mem, w.mem, w.used)
    <3>1. w.used <= w.allocated /\ w.allocated <= Claim(new) /\ w.used <= Len(w.mem)
      BY <1>1, <2>1, <2>2, <2>3, <2>4 DEF Grown, SameItems
    <3>2. ItemSize * w.allocated <= old
      <4>1. PICK m \in Nat : ItemSize * w.allocated <= BlockSize * m /\ Half(BlockSize * m)
        BY <2>4 DEF Decent, Within, Fits
      <4> QED BY <4>1, <1>0, AlignExact
    <3> HIDE DEF old, new
    <3>3. Claim(new) \in Nat /\ Claim(new) <= new \div ItemSize /\ new \div ItemSize \in Nat
      BY <1>3, ClaimFacts
    <3>4. Len(Extended(w.mem, old, new)) = new \div ItemSize
      BY <1>0, <1>2, <1>3, ExtendedFacts
    <3>5. ASSUME NEW i \in 1 .. w.used
          PROVE  Extended(w.mem, old, new)[i] = w.mem[i]
      <4>1. i \in 1 .. new \div ItemSize /\ i <= w.allocated /\ i <= Len(w.mem) /\ i \in Nat
        BY <3>1, <3>3, <1>0
      <4>2. ~(i * ItemSize > old)
        <5>1. ItemSize * i <= ItemSize * w.allocated /\ ItemSize * i \in Nat
          BY <4>1, <1>0, MulMono
        <5>2. i * ItemSize = ItemSize * i
          BY <4>1, <1>0, Z3
        <5> QED BY <5>1, <5>2, <3>2, <1>0, <1>2
      <4> QED BY <4>1, <4>2 DEF Extended
    <3>6. w.used <= new \div ItemSize
      BY <3>1, <3>3, <1>0
    <3> QED BY <2>2, <3>1, <3>4, <3>5, <3>6 DEF SameItems
  <2> QED BY <2>1, <2>2, <2>4
<1>6. CASE r \in Same(denied, TRUE)
  <2>1. r.vec = denied /\ r.ok = TRUE
    BY <1>6, SameFields
  <2>2. denied.denied
    BY DEF Denied
  <2> QED BY <2>1, <2>2
<1>7. CASE \E ok : r \in Same(w, ok)
  <2>1. r.vec = w
    BY <1>7, SameFields
  <2> QED BY <2>1, <1>1
<1> QED BY <1>4, <1>5, <1>6, <1>7

LEMMA DynAutoSpares ==
  ASSUME NEW w, Decent(w), ~Past(w), NEW r \in DynGrowAuto(w)
  PROVE  /\ ~r.ok => r.vec = w
         /\ ~r.vec.denied => SameItems(r.vec.mem, w.mem, w.used)
<1>0. Growth \in Nat /\ w.used \in Nat /\ w.allocated \in Nat /\ Len(w.mem) \in Nat
  BY VectorFacts, WidthAssumption DEF Decent
<1>1. \/ \E ok : r \in Same(w, ok)
      \/ r \in GrowBytes(w, Growth)
  BY Zenon DEF DynGrowAuto, DynGrowByBytes
<1>2. CASE \E ok : r \in Same(w, ok)
  <2>1. r.vec = w
    BY <1>2, SameFields
  <2>2. ~w.denied => SameItems(w.mem, w.mem, w.used)
    BY <1>0 DEF Decent, Within, SameItems
  <2> QED BY <2>1, <2>2
<1> QED BY <1>0, <1>1, <1>2, GrowBytesSpares

\* An array of which nothing is said: it was refused growth or has passed its
\* limit.
Lost(inplace, arr) == ~inplace /\ (arr.denied \/ Past(arr))

\* What is told has been appended to w, and nothing else.
Told(w, items, m, o) ==
  /\ o.told <= Len(items) /\ (o.ok => o.told = m)
  /\ o.arr.used = w.used + o.told
  /\ o.arr.used <= Len(o.arr.mem)
  /\ SameItems(o.arr.mem, w.mem, w.used)
  /\ \A j \in 1 .. o.told : o.arr.mem[w.used + j] = items[j]

\* One item after another: those told so far, unless the array is lost; and
\* while it goes on an array is past its limit by one at most.
Faithful(inplace, w, items, m, o) ==
  /\ inplace => o.bad = "none"
  /\ o.ok /\ ~inplace => o.arr.used <= IdxMax + 1
  /\ o.bad = "none" /\ ~Lost(inplace, o.arr) => Told(w, items, m, o)

\* One item more behind the last.
LEMMA ToldOneMore ==
  ASSUME NEW w, w.used \in Nat, NEW items \in Seq(Items), NEW m \in 1 .. Len(items),
         NEW o, o.told \in Nat, o.arr.used \in Nat, o.ok, Told(w, items, m - 1, o),
         NEW e, e.told = o.told + 1, e.arr.used = o.arr.used + 1,
         e.arr.used <= Len(e.arr.mem), e.arr.mem[e.arr.used] = items[m],
         Len(e.arr.mem) \in Nat, Len(w.mem) \in Nat,
         SameItems(e.arr.mem, o.arr.mem, o.arr.used)
  PROVE  Told(w, items, m, e)
<1>0. \A i \in 1 .. o.arr.used : e.arr.mem[i] = o.arr.mem[i]
  BY DEF SameItems
<1>1. /\ o.told = m - 1 /\ o.arr.used = w.used + o.told /\ m \in Nat
      /\ w.used <= Len(w.mem) /\ \A i \in 1 .. w.used : o.arr.mem[i] = w.mem[i]
      /\ \A j \in 1 .. o.told : o.arr.mem[w.used + j] = items[j]
  BY DEF Told, SameItems
<1>2. e.told = m /\ e.arr.used = w.used + m /\ o.arr.used = w.used + (m - 1)
  BY <1>1
<1>3. \A i \in 1 .. w.used : e.arr.mem[i] = w.mem[i]
  <2> SUFFICES ASSUME NEW i \in 1 .. w.used PROVE e.arr.mem[i] = w.mem[i]
    OBVIOUS
  <2>1. i \in 1 .. o.arr.used
    BY <1>2
  <2> QED BY <1>0, <1>1, <2>1
<1>4. \A j \in 1 .. m : e.arr.mem[w.used + j] = items[j]
  <2> SUFFICES ASSUME NEW j \in 1 .. m PROVE e.arr.mem[w.used + j] = items[j]
    OBVIOUS
  <2>1. CASE j = m
    BY <1>2, <2>1
  <2>2. CASE j # m
    <3>1. j \in 1 .. o.told /\ w.used + j \in 1 .. o.arr.used
      BY <1>1, <1>2, <2>2
    <3> QED BY <1>0, <1>1, <3>1
  <2> QED BY <2>1, <2>2
<1>5. w.used <= Len(e.arr.mem)
  BY <1>2
<1>6. SameItems(e.arr.mem, w.mem, w.used)
  BY <1>1, <1>3, <1>5 DEF SameItems
<1>7. m <= Len(items)
  OBVIOUS
<1> QED BY <1>2, <1>4, <1>6, <1>7 DEF Told

LEMMA DynMoreFaithful ==
  ASSUME NEW w \in Vector, NEW items \in Seq(Items), NEW m \in 1 .. Len(items),
         NEW o \in Outs(FALSE), o.ok, o.bad = "none", Faithful(FALSE, w, items, m - 1, o),
         NEW e \in OneMore(FALSE, o, items[m])
  PROVE  Faithful(FALSE, w, items, m, e)
<1> DEFINE v == o.arr
           x == items[m]
<1>0. /\ Decent(v) /\ v \in Vector /\ v.used \in Nat /\ v.used < IndexSpan /\ x \in Items
      /\ IndexSpan \in Nat /\ IdxMax \in Nat \ {0} /\ IdxMax + 2 < IndexSpan
      /\ o.told \in Nat /\ w.used \in Nat /\ Len(w.mem) \in Nat /\ Len(v.mem) \in Nat
      /\ v.used <= IdxMax + 1 /\ m \in Nat /\ m # 0 /\ m <= Len(items)
  <2>1. Decent(v) /\ v \in Vector /\ x \in Items /\ o.told \in Nat /\ v.used <= IdxMax + 1
    BY DEF Outs, Kind, Faithful
  <2>2. IdxMax \in Nat \ {0} /\ IndexSpan \in Nat /\ IdxMax + 2 < IndexSpan
    BY WidthAssumption, FenceAssumption
  <2> QED BY <2>1, <2>2, VectorFacts
<1>1. PICK r \in DynGrowAuto(v) :
        e = LET a == IF r.ok
                     THEN [arr |-> Put(r.vec, (r.vec.used + 1) % IndexSpan, r.vec.used, x),
                           ok |-> ~IsInv(r.vec.used), bad |-> Outside(r.vec, r.vec.used + 1)]
                     ELSE [arr |-> r.vec, ok |-> FALSE, bad |-> "none"]
            IN  [arr |-> a.arr, ok |-> a.ok, bad |-> a.bad,
                 told |-> IF a.ok THEN o.told + 1 ELSE o.told]
  BY DEF OneMore, DynAppend
<1>2. Grown(v, r.vec)
  BY <1>0, DynAutoRoom
<1>3. r.vec.used = v.used /\ r.vec \in Vector /\ Decent(r.vec)
  BY <1>2 DEF Grown, Decent
<1>4. ASSUME ~Past(v), ~r.vec.denied PROVE SameItems(r.vec.mem, v.mem, v.used)
  BY <1>0, <1>4, DynAutoSpares
<1>5. CASE ~r.ok
  <2>1. e.arr = r.vec /\ e.ok = FALSE /\ e.told = o.told /\ e.bad = "none"
    BY <1>1, <1>5
  <2>2. ASSUME ~Lost(FALSE, e.arr) PROVE Told(w, items, m, e)
    <3>1. ~Past(v)
      BY <1>3, <2>1, <2>2 DEF Lost, Past
    <3>2. e.arr = v
      BY <1>0, <1>5, <2>1, <3>1, DynAutoSpares
    <3>3. Told(w, items, m - 1, o)
      BY <2>2, <3>2 DEF Faithful
    <3> QED BY <2>1, <3>2, <3>3 DEF Told
  <2> QED BY <2>1, <2>2 DEF Faithful
<1>6. CASE r.ok
  <2> DEFINE used == (v.used + 1) % IndexSpan
  <2>1. /\ e.arr = Put(r.vec, used, v.used, x) /\ e.bad = Outside(r.vec, v.used + 1)
        /\ e.ok = (~IsInv(v.used))
        /\ e.told = IF ~IsInv(v.used) THEN o.told + 1 ELSE o.told
    BY <1>1, <1>3, <1>6
  <2>2. used = v.used + 1
    <3>1. \A i \in Nat, j \in Nat \ {0} : i < j => i % j = i
      BY Z3
    <3>2. v.used + 1 < IndexSpan
      BY <1>0
    <3> QED BY <1>0, <3>1, <3>2
  <2> HIDE DEF used
  <2>3. /\ e.arr.used = used /\ e.arr.denied = r.vec.denied
        /\ e.arr.mem = [i \in DOMAIN r.vec.mem |-> IF i = v.used + 1 THEN x ELSE r.vec.mem[i]]
    BY <2>1, WithFields DEF Put
  <2>4. r.vec.mem \in Seq(Items) /\ Len(r.vec.mem) \in Nat
    BY <1>3, VectorFacts
  <2>5. Len(e.arr.mem) = Len(r.vec.mem)
        /\ \A i \in 1 .. Len(r.vec.mem) : e.arr.mem[i] = IF i = v.used + 1 THEN x ELSE r.vec.mem[i]
    BY <2>3, <2>4
  <2>6. e.ok => v.used <= IdxMax
    <3>1. e.ok => ~IsInv(v.used)
      BY <2>1, Zenon
    <3> QED BY <3>1, <1>0 DEF IsInv
  <2>7. ASSUME e.bad = "none", ~Lost(FALSE, e.arr) PROVE Told(w, items, m, e)
    <3>1. v.used + 1 <= IdxMax /\ ~r.vec.denied
      BY <2>2, <2>3, <2>7, <1>0 DEF Lost, Past
    <3>2. ~Past(v) /\ ~v.denied
      BY <3>1, <1>0, <1>2 DEF Past, Grown
    <3>3. Told(w, items, m - 1, o)
      BY <3>2 DEF Faithful, Lost
    <3>4. e.told = o.told + 1
      BY <2>1, <3>1, <1>0 DEF IsInv
    <3>5. v.used + 1 <= Len(r.vec.mem)
      BY <2>1, <2>4, <2>7, <1>0 DEF Outside
    <3>6. e.arr.mem[v.used + 1] = x
      BY <2>5, <3>5, <2>4, <1>0
    <3>7. SameItems(e.arr.mem, v.mem, v.used)
      <4>1. SameItems(r.vec.mem, v.mem, v.used)
        BY <1>4, <3>1, <3>2
      <4>2. v.used <= Len(v.mem) /\ \A i \in 1 .. v.used : r.vec.mem[i] = v.mem[i]
        BY <4>1 DEF SameItems
      <4>3. \A i \in 1 .. v.used : i \in 1 .. Len(r.vec.mem) /\ i # v.used + 1
        BY <3>5, <2>4, <1>0
      <4>4. \A i \in 1 .. v.used : e.arr.mem[i] = v.mem[i]
        BY <2>5, <4>2, <4>3
      <4>5. v.used <= Len(e.arr.mem)
        BY <2>4, <2>5, <3>5, <1>0
      <4> QED BY <4>2, <4>4, <4>5 DEF SameItems
    <3>8. e.arr.used = v.used + 1 /\ e.arr.used <= Len(e.arr.mem) /\ Len(e.arr.mem) \in Nat
      BY <2>2, <2>3, <2>4, <2>5, <3>5
    <3> HIDE DEF x
    <3>9. e.arr.mem[e.arr.used] = items[m]
      BY <3>6, <3>8 DEF x
    <3> QED BY <1>0, <3>3, <3>4, <3>7, <3>8, <3>9, ToldOneMore
  <2>8. e.ok => e.arr.used <= IdxMax + 1
    BY <2>2, <2>3, <2>6, <1>0
  <2> QED BY <2>7, <2>8 DEF Faithful
<1> QED BY <1>5, <1>6

LEMMA FixMoreFaithful ==
  ASSUME Room \in Nat, NEW w \in Fixed, NEW items \in Seq(Items), NEW m \in 1 .. Len(items),
         NEW o \in Outs(TRUE), o.ok, o.bad = "none", Faithful(TRUE, w, items, m - 1, o),
         NEW e \in OneMore(TRUE, o, items[m])
  PROVE  Faithful(TRUE, w, items, m, e)
<1> DEFINE v == o.arr
           x == items[m]
<1>0. /\ v \in Fixed /\ v.used \in 0 .. Room /\ v.mem \in [1 .. Room -> Items]
      /\ w.used \in Nat /\ w.mem \in [1 .. Room -> Items] /\ Len(w.mem) = Room
      /\ o.told \in Nat /\ m \in Nat /\ m # 0 /\ m <= Len(items)
  BY DEF Outs, Kind, Fixed
<1>1. Told(w, items, m - 1, o)
  BY DEF Faithful, Lost
<1>2. PICK a \in FixAppend(v, x) :
        e = [arr |-> a.arr, ok |-> a.ok, bad |-> a.bad,
             told |-> IF a.ok THEN o.told + 1 ELSE o.told]
  BY DEF OneMore
<1>3. CASE v.used < Room
  <2>1. a = [arr |-> [used |-> v.used + 1, mem |-> [v.mem EXCEPT ![v.used + 1] = x]],
             ok |-> TRUE, bad |-> "none"]
    BY <1>2, <1>3 DEF FixAppend
  <2>2. /\ e.arr.used = v.used + 1 /\ e.arr.mem = [v.mem EXCEPT ![v.used + 1] = x]
        /\ e.told = o.told + 1 /\ e.bad = "none"
    BY <1>2, <2>1
  <2>3. e.arr.mem = [i \in 1 .. Room |-> IF i = v.used + 1 THEN x ELSE v.mem[i]]
    BY <1>0, <2>2
  <2>4. /\ Len(e.arr.mem) = Room /\ Len(v.mem) = Room
        /\ \A i \in 1 .. Room : e.arr.mem[i] = IF i = v.used + 1 THEN x ELSE v.mem[i]
    BY <1>0, <2>3
  <2>5. SameItems(e.arr.mem, v.mem, v.used) /\ e.arr.mem[e.arr.used] = x
        /\ e.arr.used <= Len(e.arr.mem)
    BY <1>0, <1>3, <2>2, <2>4 DEF SameItems
  <2>6. v.used \in Nat /\ Len(e.arr.mem) \in Nat /\ Len(w.mem) \in Nat
    BY <1>0, <2>4
  <2> HIDE DEF x
  <2>7. e.arr.mem[e.arr.used] = items[m]
    BY <2>5 DEF x
  <2>8. Told(w, items, m, e)
    BY <1>0, <1>1, <2>2, <2>5, <2>6, <2>7, ToldOneMore
  <2> QED BY <2>2, <2>8 DEF Faithful
<1>4. CASE ~(v.used < Room)
  <2>1. a = [arr |-> v, ok |-> FALSE, bad |-> "none"]
    BY <1>2, <1>4 DEF FixAppend
  <2>2. e.arr = v /\ e.ok = FALSE /\ e.told = o.told /\ e.bad = "none"
    BY <1>2, <2>1
  <2>3. Told(w, items, m, e)
    BY <1>1, <2>2 DEF Told
  <2> QED BY <2>2, <2>3 DEF Faithful
<1> QED BY <1>3, <1>4

\* All of what a range comes to is faithful.
LEMMA AppendAllFaithful ==
  ASSUME Room \in Nat, NEW inplace \in BOOLEAN, NEW w \in Kind(inplace), NEW items \in Seq(Items),
         ~inplace => ~Past(w),
         NEW r \in AppendAll(inplace, w, items)
  PROVE  Faithful(inplace, w, items, Len(items), r)
<1> DEFINE n == Len(items)
           All(m, outs) == \A o \in outs : Faithful(inplace, w, items, m, o)
<1>1. PICK after : /\ Appending(after, inplace, w, items)
                   /\ AppendAll(inplace, w, items) = after[n]
  BY AppendAllRounds
<1> DEFINE P == {m \in 0 .. n : All(m, after[m])}
<1>2. 0 \in P
  <2> DEFINE o == [arr |-> w, ok |-> TRUE, bad |-> "none", told |-> 0]
  <2>1. after[0] = {o}
    BY <1>1 DEF Appending, Start
  <2>2. o.arr = w /\ o.ok = TRUE /\ o.told = 0 /\ o.bad = "none"
    OBVIOUS
  <2> HIDE DEF o
  <2>3. w.used \in Nat /\ Len(w.mem) \in Nat
    <3>1. CASE inplace
      BY <3>1 DEF Kind, Fixed
    <3>2. CASE ~inplace
      BY <3>2, VectorFacts DEF Kind
    <3> QED BY <3>1, <3>2
  <2>4. ASSUME ~Lost(inplace, w) PROVE w.used <= Len(w.mem)
    <3>1. CASE inplace
      <4>1. w.used \in 0 .. Room /\ w.mem \in [1 .. Room -> Items]
        BY <3>1 DEF Kind, Fixed
      <4>2. Len(w.mem) = Room
        BY <4>1
      <4> QED BY <4>1, <4>2
    <3>2. CASE ~inplace
      <4>1. w \in Vector /\ Decent(w) /\ ~w.denied /\ ~Past(w)
        BY <2>4, <3>2 DEF Kind, Lost
      <4>2. w.used <= w.allocated /\ w.allocated <= Len(w.mem) /\ w.allocated \in Nat
        BY <4>1, VectorFacts DEF Decent, Within
      <4> QED BY <4>2, <2>3
    <3> QED BY <3>1, <3>2
  <2>5. ASSUME ~Lost(inplace, o.arr) PROVE Told(w, items, 0, o)
    <3>1. SameItems(w.mem, w.mem, w.used)
      BY <2>2, <2>4, <2>5 DEF SameItems
    <3>2. 0 <= Len(items) /\ w.used = w.used + 0 /\ 1 .. 0 = {}
      BY <2>3
    <3> QED BY <2>2, <2>4, <2>5, <3>1, <3>2 DEF Told
  <2>6. ~inplace => o.arr.used <= IdxMax + 1
    <3>1. IdxMax \in Nat
      BY WidthAssumption
    <3> QED BY <2>2, <2>3, <3>1 DEF Past
  <2>7. Faithful(inplace, w, items, 0, o)
    BY <2>2, <2>5, <2>6 DEF Faithful
  <2>8. n \in Nat
    OBVIOUS
  <2> HIDE DEF n
  <2> QED BY <2>1, <2>7, <2>8
<1>3. ASSUME NEW m \in 0 .. n - 1, m \in P PROVE m + 1 \in P
  <2>1. m + 1 \in 1 .. n /\ (m + 1) - 1 = m /\ m \in 0 .. n /\ m + 1 \in 0 .. n
    OBVIOUS
  <2>2. after[m + 1] = Further(inplace, after[m], items[m + 1]) /\ after[m] \in SUBSET Outs(inplace)
    BY <1>1, <2>1 DEF Appending
  <2>3. ASSUME NEW e \in after[m + 1] PROVE Faithful(inplace, w, items, m + 1, e)
    <3>1. PICK o \in after[m] :
            e \in IF o.ok /\ o.bad = "none" THEN OneMore(inplace, o, items[m + 1]) ELSE {o}
      BY <2>2, <2>3 DEF Further
    <3>2. o \in Outs(inplace) /\ Faithful(inplace, w, items, m, o)
      BY <1>3, <2>2, <3>1
    <3>3. CASE ~(o.ok /\ o.bad = "none")
      <4>1. e = o
        BY <3>1, <3>3
      <4>2. o.bad = "none" => ~o.ok
        BY <3>3
      <4> QED BY <3>2, <4>1, <4>2 DEF Faithful, Told
    <3>4. CASE o.ok /\ o.bad = "none"
      <4>1. e \in OneMore(inplace, o, items[m + 1])
        BY <3>1, <3>4
      <4>2. CASE inplace
        <5>1. inplace = TRUE /\ w \in Fixed
          BY <4>2 DEF Kind
        <5> QED BY <2>1, <3>2, <3>4, <4>1, <5>1, FixMoreFaithful
      <4>3. CASE ~inplace
        <5>1. inplace = FALSE /\ w \in Vector
          BY <4>3 DEF Kind
        <5> QED BY <2>1, <3>2, <3>4, <4>1, <5>1, DynMoreFaithful
      <4> QED BY <4>2, <4>3
    <3> QED BY <3>3, <3>4
  <2> QED BY <2>1, <2>3
<1>4. P \in SUBSET (0 .. n) /\ n \in Nat
  OBVIOUS
<1>5. P = 0 .. n
  <2> HIDE DEF P, n
  <2> QED BY <1>2, <1>3, <1>4, Upwards
<1>6. n \in 0 .. n
  OBVIOUS
<1> QED BY <1>1, <1>5, <1>6

\* The first n items of two lists, and of a range of one.
SameRun(a, i, b, j, n) == \A k \in 1 .. n : a[i + k] = b[j + k]

Run(a, i, n) == SubSeq(a, i + 1, i + n)

LEMMA SameSubSeq ==
  ASSUME NEW a, NEW b, NEW i \in Nat, NEW j \in Nat, NEW n \in Nat, SameRun(a, i, b, j, n)
  PROVE  Run(a, i, n) = Run(b, j, n)
<1>1. SubSeq(a, i + 1, i + n) = [k \in 1 .. n |-> a[i + k]]
  OBVIOUS
<1>2. SubSeq(b, j + 1, j + n) = [k \in 1 .. n |-> b[j + k]]
  OBVIOUS
<1> QED BY <1>1, <1>2 DEF SameRun, Run

LEMMA RangePart ==
  ASSUME NEW mem, NEW begin \in Nat, NEW end \in Nat
  PROVE  LET items == SubSeq(mem, begin + 1, end)
         IN  /\ begin <= end => Len(items) = end - begin
             /\ ~(begin <= end) => Len(items) = 0
             /\ \A k \in 1 .. Len(items) : items[k] = mem[begin + k]
<1> DEFINE n == IF begin <= end THEN end - begin ELSE 0
<1>1. n \in Nat /\ 1 .. (1 + end - (begin + 1)) = 1 .. n
  OBVIOUS
<1>2. SubSeq(mem, begin + 1, end) = [k \in 1 .. n |-> mem[begin + k]]
  OBVIOUS
<1> DEFINE items == [k \in 1 .. n |-> mem[begin + k]]
<1>3. Len(items) = n
  BY <1>1
<1>4. \A k \in 1 .. n : items[k] = mem[begin + k]
  OBVIOUS
<1> HIDE DEF items
<1> QED BY <1>2, <1>3, <1>4 DEF items

LEMMA RangeIs ==
  ASSUME NEW w \in Vector, Len(w.mem) >= w.used, NEW begin \in Nat, begin <= w.used,
         NEW count \in Nat
  PROVE  LET items == Range1(w, begin, count)
         IN  /\ begin + Len(items) <= w.used /\ Len(items) \in Nat
             /\ \A k \in 1 .. Len(items) : items[k] = w.mem[begin + k]
<1> DEFINE wrapped == (begin + count) % IndexSpan
           end == Min({w.used, wrapped})
           items == SubSeq(w.mem, begin + 1, end)
<1>0. w.used \in Nat /\ w.mem \in Seq(Items) /\ Len(w.mem) \in Nat /\ IndexSpan \in Nat \ {0}
  BY VectorFacts, WidthAssumption
<1>1. wrapped \in Nat
  BY <1>0, DivMod
<1> HIDE DEF wrapped
<1>2. end \in Nat /\ end <= w.used
  BY <1>0, <1>1, MinOfTwo
<1> HIDE DEF end
<1>3. Range1(w, begin, count) = items
  BY DEF Range1, wrapped, end
<1>4. /\ begin <= end => Len(items) = end - begin
      /\ ~(begin <= end) => Len(items) = 0
      /\ \A k \in 1 .. Len(items) : items[k] = w.mem[begin + k]
  BY <1>0, <1>2, RangePart
<1> HIDE DEF items
<1>5. begin + Len(items) <= w.used /\ Len(items) \in Nat
  <2>1. CASE begin <= end
    BY <1>0, <1>2, <1>4, <2>1
  <2>2. CASE ~(begin <= end)
    BY <1>0, <1>2, <1>4, <2>2
  <2> QED BY <2>1, <2>2
<1> QED BY <1>3, <1>4, <1>5

\* What was told was taken of the source.
Drawn(sources, s, begin, count, old, r) ==
  /\ s \in sources /\ dyn[s] \in Vector /\ Len(dyn[s].mem) >= dyn[s].used
  /\ begin \in Nat /\ begin <= dyn[s].used /\ count \in Nat
  /\ old.used \in Nat /\ r.told \in Nat /\ told' = r.told
  /\ Told(old, Range1(dyn[s], begin, count), Len(Range1(dyn[s], begin, count)), r)

LEMMA TakenFrom ==
  ASSUME NEW sources, NEW s, NEW begin, NEW count, NEW old, NEW r,
         Drawn(sources, s, begin, count, old, r)
  PROVE  Taken(r.arr, old, sources) /\ r.arr.used = old.used + told'
<1> DEFINE new == r.arr
           n == r.told
           items == Range1(dyn[s], begin, count)
<1>01. /\ s \in sources /\ dyn[s] \in Vector /\ Len(dyn[s].mem) >= dyn[s].used
       /\ begin \in Nat /\ begin <= dyn[s].used /\ count \in Nat
       /\ old.used \in Nat /\ r.told \in Nat /\ told' = r.told
  BY DEF Drawn
<1>0. dyn[s].used \in Nat
  BY <1>01, VectorFacts
<1>1. /\ begin + Len(items) <= dyn[s].used /\ Len(items) \in Nat
      /\ \A k \in 1 .. Len(items) : items[k] = dyn[s].mem[begin + k]
  BY <1>01, RangeIs
<1>2. Told(old, items, Len(items), r)
  BY DEF Drawn
<1> HIDE DEF items
<1>3. /\ n <= Len(items) /\ new.used = old.used + n
      /\ \A i \in 1 .. old.used : new.mem[i] = old.mem[i]
      /\ \A k \in 1 .. n : new.mem[old.used + k] = items[k]
  BY <1>01, <1>2 DEF Told, SameItems
<1>4. SubSeq(new.mem, 1, old.used) = SubSeq(old.mem, 1, old.used)
  <2>1. SameRun(new.mem, 0, old.mem, 0, old.used)
    BY <1>01, <1>3 DEF SameRun
  <2>2. Run(new.mem, 0, old.used) = Run(old.mem, 0, old.used)
    BY <1>01, <2>1, SameSubSeq
  <2>3. 0 + 1 = 1 /\ 0 + old.used = old.used
    BY <1>01
  <2> HIDE DEF new
  <2>4. SubSeq(new.mem, 0 + 1, 0 + old.used) = SubSeq(old.mem, 0 + 1, 0 + old.used)
    BY <2>2 DEF Run
  <2> QED BY <2>3, <2>4, Zenon
<1>5. SubSeq(new.mem, old.used + 1, new.used) = SubSeq(dyn[s].mem, begin + 1, begin + n)
  <2>1. SameRun(new.mem, old.used, dyn[s].mem, begin, n)
    <3> SUFFICES ASSUME NEW k \in 1 .. n PROVE new.mem[old.used + k] = dyn[s].mem[begin + k]
      BY DEF SameRun
    <3>1. k \in 1 .. Len(items)
      BY <1>01, <1>1, <1>3
    <3> QED BY <1>1, <1>3, <3>1
  <2>2. n \in Nat /\ new.used = old.used + n
    BY <1>01, <1>3
  <2> HIDE DEF new, n
  <2>3. Run(new.mem, old.used, n) = Run(dyn[s].mem, begin, n)
    BY <1>01, <2>1, <2>2, SameSubSeq
  <2> QED BY <2>2, <2>3 DEF Run
<1>6. begin \in 0 .. dyn[s].used - told' /\ told' = n /\ told' = new.used - old.used
  BY <1>0, <1>01, <1>1, <1>3
<1> HIDE DEF new, n
<1>7. \E x \in sources : \E b \in 0 .. dyn[x].used - told' :
        SubSeq(new.mem, old.used + 1, new.used) = SubSeq(dyn[x].mem, b + 1, b + told')
  BY <1>01, <1>5, <1>6
<1> QED BY <1>3, <1>4, <1>6, <1>7 DEF Taken, new, n

\* What a step tells.
Tells ==
  (/\ told' # NoRange /\ torn' = "none"
   /\ \A d \in Arrays : ~dyn'[d].denied /\ ~Past(dyn[d]) /\ ~Past(dyn'[d])) =>
     /\ fix' # fix => Taken(fix', fix, Arrays)
     /\ \A d \in Arrays : dyn'[d] # dyn[d] => Taken(dyn'[d], dyn[d], Arrays \ {d})
     /\ dyn' = dyn /\ fix' = fix => told' = 0

LEMMA StepTells == ArrayInv /\ [ANext]_avars => [Tells]_avars
<1> SUFFICES ASSUME ArrayInv, ANext, avars' # avars,
                    told' # NoRange, torn' = "none",
                    \A d \in Arrays : ~dyn'[d].denied /\ ~Past(dyn[d]) /\ ~Past(dyn'[d])
             PROVE  /\ fix' # fix => Taken(fix', fix, Arrays)
                    /\ \A d \in Arrays : dyn'[d] # dyn[d] => Taken(dyn'[d], dyn[d], Arrays \ {d})
                    /\ dyn' = dyn /\ fix' = fix => told' = 0
  BY DEF Tells
<1>0. Room \in Nat /\ Amounts \subseteq Nat /\ Begins \subseteq Nat
  BY RoomAssumption DEF Indices, Begins
<1>01. ASSUME NEW d \in Arrays
       PROVE  /\ dyn[d] \in Vector /\ Decent(dyn[d])
              /\ dyn[d].used \in Nat /\ dyn[d].mem \in Seq(Items) /\ Len(dyn[d].mem) \in Nat
  <2>1. dyn[d] \in Vector /\ Decent(dyn[d])
    BY <1>01 DEF ArrayInv
  <2> QED BY <2>1, VectorFacts
<1>02. fix \in Fixed /\ fix.used \in Nat
  BY <1>0 DEF ArrayInv, Fixed
<1>1. \/ \E d, s \in Arrays, b \in Begins, n \in Amounts : AppendRange(d, s, b, n)
      \/ \E s \in Arrays, b \in Begins, n \in Amounts : FixRange(s, b, n)
  BY Zenon DEF ANext, AppendOne, Reserve, SetOne, Release, CopyDyn, FixOne, FixSet, FixFree,
               FixCopy, Torn
<1>2. ASSUME NEW d \in Arrays, NEW s \in Arrays, NEW b \in Begins, NEW n \in Amounts,
             AppendRange(d, s, b, n)
      PROVE  /\ fix' = fix /\ \A e \in Arrays \ {d} : dyn'[e] = dyn[e]
             /\ Taken(dyn'[d], dyn[d], Arrays \ {d}) /\ dyn'[d].used = dyn[d].used + told'
             /\ told' \in Nat
  <2> DEFINE items == Range1(dyn[s], b, n)
  <2>1. PICK r \in AppendAll(FALSE, dyn[d], items) : Becomes(d, r.arr, r.bad) /\ told' = r.told
    BY <1>2 DEF AppendRange
  <2>2. d # s /\ b < dyn[s].used /\ Len(dyn[s].mem) >= dyn[s].used /\ b \in Nat /\ n \in Nat
    BY <1>0, <1>2 DEF AppendRange
  <2>3. items \in Seq(Items)
    BY <1>01, <2>2, RangeOfItems
  <2>4. dyn[d] \in Kind(FALSE)
    BY <1>01 DEF Kind
  <2>5. r \in Outs(FALSE)
    BY <1>0, <2>1, <2>3, <2>4, AppendAllIn
  <2>6. Faithful(FALSE, dyn[d], items, Len(items), r)
    BY <1>0, <2>1, <2>3, <2>4, AppendAllFaithful
  <2>7. dyn'[d] = r.arr /\ r.bad = "none" /\ fix' = fix /\ \A e \in Arrays \ {d} : dyn'[e] = dyn[e]
    BY <2>1 DEF Becomes, ArrayInv
  <2>8. ~Lost(FALSE, r.arr)
    BY <2>7 DEF Lost
  <2>9. Told(dyn[d], items, Len(items), r)
    BY <2>6, <2>7, <2>8 DEF Faithful
  <2>10. r.told \in Nat /\ s \in Arrays \ {d} /\ b <= dyn[s].used
    BY <2>2, <2>5, <1>01 DEF Outs
  <2> DEFINE sources == Arrays \ {d}
             old == dyn[d]
  <2>11. /\ s \in sources /\ dyn[s] \in Vector
         /\ old.used \in Nat /\ told' = r.told
    BY <1>01, <2>1, <2>10
  <2>12. Drawn(sources, s, b, n, old, r)
    BY <2>2, <2>9, <2>10, <2>11 DEF Drawn
  <2> HIDE DEF sources, old
  <2>13. Taken(r.arr, old, sources) /\ r.arr.used = old.used + told'
    BY <2>12, TakenFrom
  <2> QED BY <2>1, <2>7, <2>10, <2>13 DEF sources, old
<1>3. ASSUME NEW s \in Arrays, NEW b \in Begins, NEW n \in Amounts, FixRange(s, b, n)
      PROVE  dyn' = dyn /\ Taken(fix', fix, Arrays) /\ fix'.used = fix.used + told' /\ told' \in Nat
  <2> DEFINE items == Range1(dyn[s], b, n)
  <2>1. PICK r \in AppendAll(TRUE, fix, items) : FixBecomes(r.arr) /\ told' = r.told
    BY <1>3 DEF FixRange
  <2>2. b <= dyn[s].used /\ Len(dyn[s].mem) >= dyn[s].used /\ b \in Nat /\ n \in Nat
    BY <1>0, <1>3 DEF FixRange
  <2>3. items \in Seq(Items)
    BY <1>01, <2>2, RangeOfItems
  <2>4. fix \in Kind(TRUE)
    BY <1>02 DEF Kind
  <2>5. r \in Outs(TRUE)
    BY <1>0, <2>1, <2>3, <2>4, AppendAllIn
  <2>6. Faithful(TRUE, fix, items, Len(items), r)
    BY <1>0, <2>1, <2>3, <2>4, AppendAllFaithful
  <2>7. fix' = r.arr /\ dyn' = dyn
    BY <2>1 DEF FixBecomes
  <2>8. Told(fix, items, Len(items), r)
    BY <2>6 DEF Faithful, Lost
  <2>9. /\ r.told \in Nat /\ dyn[s] \in Vector
        /\ fix.used \in Nat /\ told' = r.told
    BY <1>01, <1>02, <2>1, <2>5 DEF Outs
  <2>10. Drawn(Arrays, s, b, n, fix, r)
    BY <2>2, <2>8, <2>9 DEF Drawn
  <2>11. Taken(r.arr, fix, Arrays) /\ r.arr.used = fix.used + told'
    BY <2>10, TakenFrom
  <2> QED BY <2>7, <2>9, <2>11
<1>4. CASE \E d, s \in Arrays, b \in Begins, n \in Amounts : AppendRange(d, s, b, n)
  <2>1. PICK d \in Arrays : /\ fix' = fix /\ \A e \in Arrays \ {d} : dyn'[e] = dyn[e]
                            /\ Taken(dyn'[d], dyn[d], Arrays \ {d})
                            /\ dyn'[d].used = dyn[d].used + told' /\ told' \in Nat
    BY <1>2, <1>4
  <2>2. \A e \in Arrays : dyn'[e] # dyn[e] => Taken(dyn'[e], dyn[e], Arrays \ {e})
    BY <2>1
  <2>3. ASSUME dyn' = dyn PROVE told' = 0
    <3>1. dyn[d].used = dyn[d].used + told' /\ dyn[d].used \in Nat
      BY <1>01, <2>1, <2>3
    <3> QED BY <2>1, <3>1
  <2> QED BY <2>1, <2>2, <2>3
<1>5. CASE \E s \in Arrays, b \in Begins, n \in Amounts : FixRange(s, b, n)
  <2>1. /\ dyn' = dyn /\ Taken(fix', fix, Arrays) /\ fix'.used = fix.used + told'
        /\ told' \in Nat
    BY <1>3, <1>5
  <2>2. ASSUME fix' = fix PROVE told' = 0
    BY <1>02, <2>1, <2>2
  <2> QED BY <2>1, <2>2
<1> QED BY <1>1, <1>4, <1>5

\* What appending a range to an array returns is the number of the items of
\* the source it appended, in their order and after those that were there,
\* when the array fills up half way, the allocator refuses or an index wraps
\* (dynmem.hh append(), inplace.hh append()).
THEOREM RangesStayTold == ASpec => RangesAreTold
<1>1. ArrayInv /\ [ANext]_avars => [Tells]_avars
  BY StepTells
<1>2. [][Tells]_avars => RangesAreTold
  BY PTL DEF RangesAreTold, Tells
<1> QED BY <1>1, <1>2, ArrayInit, ArrayStep, PTL DEF ASpec

\* Vectors, arrays and lists in one behaviour, as the run has them: the steps
\* of the one leave the others alone.
LEMMA MCSpecImplies == MCSpec => Spec /\ ASpec
<1>1. MCInit => Init /\ AInit
  BY DEF MCInit
<1>2. [MCNext]_<<vars, OfStrings, avars>> => [Next]_vars
  BY DEF MCNext, vars, Init
<1>3. [MCNext]_<<vars, OfStrings, avars>> => [ANext]_avars
  BY DEF MCNext, avars
<1> QED BY <1>1, <1>2, <1>3, PTL DEF MCSpec, Spec, ASpec

\* No item is lost, moved or made up by growing, and a range is appended as
\* far as the call says (memfun.h realloc, dynmem.hh append(), inplace.hh
\* append()).
THEOREM NoItemIsLost == MCSpec => ItemsKept
  BY MCSpecImplies, GrowthLosesNothing, RangesStayTold DEF ItemsKept

-----------------------------------------------------------------------------
(* Lists of strings. *)

Bytes == Nat \cup {Junk}

Small(n) == 2 * (n + BlockSize) <= IntSpan

Clean(s) == s \in Seq(Bytes) /\ Small(Len(s)) /\ \A i \in 1 .. Len(s) : s[i] # 0

OffType ==
  [live : BOOLEAN, mem : Seq(Bytes), used : Nat, allocated : Nat, denied : BOOLEAN]

OffFrame(v) ==
  /\ v \in OffType
  /\ v.allocated <= OffMax
  /\ v.allocated < OffMax => /\ \E m \in Nat : Word * v.allocated = BlockSize * m
                             /\ Half(Word * v.allocated)
  /\ Len(v.mem) <= v.allocated \/ v.allocated = OffMax
  /\ v.live \/ v.allocated > 0 => Len(v.mem) > 0
  /\ ~v.denied => v.used <= v.allocated /\ v.allocated <= Len(v.mem)

\* Every offset is in the block and was put there.
Offsets(v) == v.used <= Len(v.mem) /\ \A i \in 1 .. v.used : v.mem[i] \in Nat

TextType ==
  [live : BOOLEAN, mem : Seq(Bytes), claimed : Nat, used : Nat, off : OffType,
   twins : SUBSET Strs, refused : BOOLEAN, slack : BOOLEAN,
   lost : {"no", "dangling", "overwritten"}, kept : Seq(Seq(Bytes))]

Frame(t) ==
  /\ t \in TextType
  /\ Small(Len(t.mem))
  /\ OffFrame(t.off)

\* String i is where its offset says.
Placed(t, i) ==
  LET o == t.off.mem[i]
  IN  /\ o \in Nat /\ o + Len(t.kept[i]) + 1 <= t.used
      /\ \A j \in 1 .. Len(t.kept[i]) : t.mem[o + j] = t.kept[i][j]
      /\ t.mem[o + Len(t.kept[i]) + 1] = 0

Sound(t) ==
  /\ t.claimed = Len(t.mem) /\ t.used <= Len(t.mem)
  /\ \E m \in Nat : t.claimed = BlockSize * m
  /\ \A i \in t.used + 1 .. Len(t.mem) : t.mem[i] = 0
  /\ Len(t.kept) = t.off.used
  /\ \A i \in 1 .. Len(t.kept) : Clean(t.kept[i]) /\ Placed(t, i)
  /\ t.off.used > 0 => t.off.mem[1] = 0
  /\ t.off.used = 0 => t.used = 0
  /\ t.off.used <= t.used
  /\ S!KernelSize(t.kept) <= S!FullSize(t)

Whole(t) == Frame(t) /\ (S!Trusted(t) => Sound(t))

TwinsAgree(x, y) ==
  y \in text[x].twins =>
    /\ x # y /\ x \in text[y].twins /\ Len(text[x].off.mem) > 0
    /\ text[x].off.mem = text[y].off.mem
    /\ \A z \in Strs : z \in text[x].twins => z = y \/ z \in text[y].twins

CallType ==
  [dst : Strs, src : Strs, begin : Nat, n : Nat, at : Nat, end : Nat,
   before : Seq(Seq(Bytes)), missed : BOOLEAN]

\* The range that RangeIsWhole is about: u grows by strings of t.
Regular(l, c, t, u) ==
  /\ S!Trusted(t) /\ S!Trusted(u) /\ ~c.missed
  /\ c.begin + c.n < OffSpan
  /\ l = "C" \/ c.begin + c.n <= t.off.used

OnCourse(c, t, u) ==
  /\ c.begin <= c.at /\ c.at <= c.end
  /\ c.end = IF c.begin + c.n <= t.off.used THEN c.begin + c.n ELSE t.off.used
  /\ u.kept = c.before \o SubSeq(t.kept, c.begin + 1, c.at)

Going(l, c, t, u) ==
  /\ c \in CallType /\ c.dst # c.src
  /\ c.begin < t.off.used
  /\ c.at < c.end => u.off.used + (c.end - c.at) <= MaxTexts
  /\ Regular(l, c, t, u) => OnCourse(c, t, u)

Progress == Going(lang, call, text[call.src], text[call.dst])

\* What the lists are while nothing has gone wrong.
ListsInv ==
  /\ \A x \in Strs : Whole(text[x]) /\ Offsets(text[x].off) /\ text[x].off.used <= MaxTexts
  /\ \A x, y \in Strs : TwinsAgree(x, y)
  /\ lang = "C" => \A x \in Strs : text[x].twins = {}

TextInv ==
  /\ lang \in {"C", "C++"}
  /\ DOMAIN text = Strs
  /\ broken = "none" => ListsInv /\ (call # S!NoCall => Progress)
  /\ broken # "none" => \E x \in Strs : ~S!Trusted(text[x])

-----------------------------------------------------------------------------

LEMMA TextConstants ==
  /\ Word \in Nat \ {0} /\ BlockSize \in Nat \ {0} /\ IntSpan \in Nat \ {0} /\ SizeSpan \in Nat
  /\ IntSpan <= SizeSpan /\ HeapMax \in Nat /\ HeapMax < SizeSpan - IntSpan
  /\ OffMax \in Nat \ {0} /\ OffSpan \in Nat /\ OffMax < OffSpan /\ IntSpan <= OffSpan
  /\ OffGrowth \in Nat \ {0} /\ Word <= OffGrowth /\ 2 * OffGrowth <= IntSpan
  /\ Word * OffMax \in Nat /\ Word * OffMax <= SizeSpan - IntSpan
  /\ MaxTexts \in Nat /\ MaxTexts <= OffMax
BY InstanceAssumption, WidthAssumption, HeapAssumption, MulMono
   DEF S!TextAssumption, S!Off!WidthAssumption, S!Off!GrowthAssumption

\* How the sizes divide each other.
LEMMA TextMultiples ==
  /\ \E k \in Nat : BlockSize = Word * k
  /\ \E k \in Nat : OffGrowth = BlockSize * k
  /\ \E k \in Nat : IntSpan = (2 * BlockSize) * k
<1>1. BlockSize % Word = 0 /\ OffGrowth % BlockSize = 0 /\ IntSpan % (2 * BlockSize) = 0
  BY InstanceAssumption DEF S!TextAssumption
<1>2. \A x \in Nat, b \in Nat \ {0} : x % b = 0 => \E k \in Nat : x = b * k
  <2>1. ASSUME NEW x \in Nat, NEW b \in Nat \ {0}, x % b = 0
        PROVE  \E k \in Nat : x = b * k
    <3>1. x \div b \in Nat /\ x = b * (x \div b) + (x % b)
      BY DivMod
    <3>2. b * (x \div b) \in Nat
      BY <3>1, MulMono
    <3> QED BY <2>1, <3>1, <3>2
  <2> QED BY <2>1
<1>3. 2 * BlockSize \in Nat \ {0}
  BY TextConstants
<1> QED BY <1>1, <1>2, <1>3, TextConstants

LEMMA HalfSmall ==
  ASSUME NEW y, \E m \in Nat : y = BlockSize * m, Half(y)
  PROVE  y \in Nat /\ Small(y)
<1>1. PICK m \in Nat : y = BlockSize * m
  OBVIOUS
<1>2. PICK k \in Nat : IntSpan = (2 * BlockSize) * k
  BY TextMultiples
<1>3. BlockSize \in Nat \ {0} /\ y \in Nat
  BY <1>1, TextConstants, MulMono
<1>4. (2 * BlockSize) * k = BlockSize * (2 * k) /\ 2 * (BlockSize * m) = BlockSize * (2 * m)
  BY <1>3, Z3
<1>5. BlockSize * (2 * m) < BlockSize * (2 * k)
  BY <1>1, <1>2, <1>4 DEF Half
<1>6. 2 * m < 2 * k
  BY <1>5, <1>3, MulCancel
<1>7. BlockSize * (2 * m + 2) <= BlockSize * (2 * k)
  <2>1. 2 * m + 2 <= 2 * k
    BY <1>6
  <2> QED BY <2>1, <1>3, MulMono
<1>8. BlockSize * (2 * m + 2) = BlockSize * (2 * m) + 2 * BlockSize
  BY <1>3, Z3
<1> QED BY <1>1, <1>2, <1>3, <1>4, <1>7, <1>8 DEF Small

\* roundbyl() to words and to blocks of what is a block short of the range of
\* an int: exact, or so large that no block has it.
RoundsTo(x, b, k) ==
  /\ b * k \in Nat /\ x <= b * k /\ b * k + BlockSize <= IntSpan
  /\ \A n \in Nat : x <= b * n => b * k <= b * n
  /\ RoundBy(x, b) = IF Half(b * k) THEN b * k ELSE SizeSpan - IntSpan + b * k

LEMMA RoundsUp ==
  ASSUME NEW b \in {Word, BlockSize}, NEW x \in Nat, x + BlockSize <= IntSpan
  PROVE  \E k \in Nat : RoundsTo(x, b, k)
<1> DEFINE q == x \div b
           down == x - (x % b)
<1>0. /\ b \in Nat \ {0} /\ IntSpan \in Nat \ {0} /\ SizeSpan \in Nat /\ IntSpan <= SizeSpan
      /\ BlockSize \in Nat \ {0}
  BY TextConstants
<1>1. /\ q \in Nat /\ x % b \in Nat /\ x % b < b /\ x = b * q + (x % b)
      /\ b * q \in Nat /\ b * (q + 1) \in Nat /\ b * (q + 1) = b * q + b
  <2>1. q \in Nat /\ x % b \in Nat /\ x % b < b /\ x = b * q + (x % b)
    BY <1>0, DivMod
  <2>2. b * (q + 1) = b * q + b
    BY <1>0, <2>1, Z3
  <2> HIDE DEF q
  <2> QED BY <2>1, <2>2, <1>0, MulMono
<1>2. down = b * q
  BY <1>1
<1> DEFINE k == IF x = down THEN q ELSE q + 1
<1>3. k \in Nat /\ b * k \in Nat /\ x <= b * k
  <2> HIDE DEF q, down
  <2> QED BY <1>0, <1>1, <1>2
<1>4. ASSUME NEW n \in Nat, x <= b * n PROVE b * k <= b * n
  <2>1. b * n \in Nat
    BY <1>0, MulMono
  <2>2. CASE x = down
    <3> HIDE DEF q, down
    <3> QED BY <2>2, <1>2, <1>4
  <2>3. CASE x # down
    <3>1. b * q < b * n
      <4> HIDE DEF q
      <4> QED BY <2>1, <2>3, <1>0, <1>1, <1>2, <1>4
    <3>2. q < n
      <4> HIDE DEF q
      <4> QED BY <3>1, <1>0, <1>1, MulCancel
    <3>3. b * (q + 1) <= b * n
      <4>1. q + 1 <= n
        <5> HIDE DEF q
        <5> QED BY <3>2, <1>1
      <4> HIDE DEF q
      <4> QED BY <4>1, <1>0, <1>1, MulMono
    <3> HIDE DEF q, down
    <3> QED BY <2>3, <3>3
  <2> QED BY <2>2, <2>3
<1>5. b * k + BlockSize <= IntSpan
  <2>1. \E n \in Nat : b * n = IntSpan - BlockSize
    <3>1. PICK j \in Nat : IntSpan = (2 * BlockSize) * j
      BY TextMultiples
    <3>2. j # 0
      BY <3>1, <1>0
    <3>3. 2 * j - 1 \in Nat /\ IntSpan - BlockSize = BlockSize * (2 * j - 1)
      <4>1. BlockSize * (2 * j - 1) = (2 * BlockSize) * j - BlockSize
        BY <1>0, Z3
      <4> QED BY <4>1, <3>1, <3>2
    <3>4. CASE b = BlockSize
      BY <3>3, <3>4
    <3>5. CASE b = Word
      <4>1. PICK w \in Nat : BlockSize = Word * w
        BY TextMultiples
      <4>2. \A n \in Nat : (Word * w) * n = Word * (w * n) /\ w * n \in Nat
        BY TextConstants, Z3
      <4> QED BY <3>3, <3>5, <4>1, <4>2
    <3> QED BY <3>4, <3>5
  <2>2. PICK n \in Nat : b * n = IntSpan - BlockSize
    BY <2>1
  <2>3. x <= b * n
    BY <2>2, <1>0
  <2>4. b * k <= b * n
    BY <2>3, <1>4
  <2> HIDE DEF k
  <2> QED BY <2>2, <2>4, <1>0, <1>3
<1>6. RoundBy(x, b) = FromInt(b * k)
  <2> DEFINE up == IF x = down THEN x ELSE down + b
  <2>1. up = b * k
    <3> HIDE DEF q, down
    <3> QED BY <1>1, <1>2
  <2>2. up < SizeSpan
    <3> HIDE DEF k, up
    <3> QED BY <2>1, <1>0, <1>3, <1>5
  <2>3. RoundBy(x, b) = FromInt(up)
    BY <2>2 DEF RoundBy
  <2> QED BY <2>1, <2>3
<1> HIDE DEF k
<1>7. (b * k) % IntSpan = b * k
  <2>1. \A i \in Nat, j \in Nat \ {0} : i < j => i % j = i
    BY Z3
  <2> QED BY <2>1, <1>0, <1>3, <1>5
<1>8. FromInt(b * k) = IF Half(b * k) THEN b * k ELSE SizeSpan - IntSpan + b * k
  <2> DEFINE z == b * k
  <2>1. z \in Nat /\ z % IntSpan = z
    BY <1>3, <1>7
  <2> HIDE DEF z
  <2>2. FromInt(z) = IF Half(z) THEN z ELSE SizeSpan - IntSpan + z
    BY <2>1, <1>0 DEF FromInt, Half
  <2> QED BY <2>2 DEF z
<1> QED BY <1>3, <1>4, <1>5, <1>6, <1>8 DEF RoundsTo

\* The arithmetic of the array of offsets is that of the vectors.
LEMMA SameArithmetic ==
  /\ \A x, b : S!Off!RoundBy(x, b) = RoundBy(x, b)
  /\ \A x : S!Off!BlockAlign(x) = BlockAlign(x)
  /\ \A x, n : S!Off!WantRealloc(x, n) = WantRealloc(x, n)
BY DEF S!Off!RoundBy, RoundBy, S!Off!FromInt, FromInt, S!Off!BlockAlign, BlockAlign,
       S!Off!WantRealloc, WantRealloc

\* A block that grows from a known length by less than an int can say.
LEMMA WantsExact ==
  ASSUME NEW m \in Nat, NEW n \in Nat \ {0},
         Half(BlockSize * m), BlockSize * m + n + BlockSize <= IntSpan
  PROVE  \E k \in Nat : /\ BlockSize * k \in Nat /\ BlockSize * m + n <= BlockSize * k
                        /\ \A j \in Nat : BlockSize * m + n <= BlockSize * j => BlockSize * k <= BlockSize * j
                        /\ WantRealloc(BlockSize * m, n) =
                             IF Half(BlockSize * k) THEN BlockSize * k ELSE SizeSpan - IntSpan + BlockSize * k
<1> DEFINE x == BlockSize * m
           b == x + n
<1>0. /\ BlockSize \in Nat \ {0} /\ IntSpan \in Nat \ {0} /\ SizeSpan \in Nat /\ IntSpan <= SizeSpan
      /\ x \in Nat /\ b \in Nat
  <2>1. x \in Nat
    BY TextConstants, MulMono
  <2> HIDE DEF x
  <2> QED BY <2>1, TextConstants
<1>1. BlockAlign(x) = x
  <2>1. x <= BlockAlign(x) /\ BlockAlign(x) <= x /\ BlockAlign(x) \in Nat
    BY <1>0, AlignExact
  <2> HIDE DEF x
  <2> QED BY <2>1, <1>0
<1>2. PICK k \in Nat : RoundsTo(b, BlockSize, k)
  <2>1. b + BlockSize <= IntSpan
    OBVIOUS
  <2> HIDE DEF b
  <2> QED BY <2>1, <1>0, RoundsUp
<1>3. BlockAlign(b) = IF Half(BlockSize * k) THEN BlockSize * k ELSE SizeSpan - IntSpan + BlockSize * k
  <2>1. b # 0
    <3> HIDE DEF x
    <3> QED BY <1>0
  <2> HIDE DEF b
  <2> QED BY <2>1, <1>2 DEF BlockAlign, RoundsTo
<1>4. WantRealloc(x, n) = BlockAlign(b)
  <2> DEFINE y == BlockAlign(b)
             z == BlockSize * k
  <2>1. z \in Nat /\ b <= z /\ z + BlockSize <= IntSpan /\ y = IF Half(z) THEN z ELSE SizeSpan - IntSpan + z
    BY <1>2, <1>3 DEF RoundsTo
  <2>2. ~(y < b) /\ ~(b >= SizeSpan)
    <3> HIDE DEF b, y, z
    <3> QED BY <2>1, <1>0
  <2>3. ~(n = 0 \/ x > BlockAlign(x) \/ BlockAlign(x) >= b)
    <3> HIDE DEF x
    <3> QED BY <1>0, <1>1
  <2> HIDE DEF x, y
  <2> QED BY <2>2, <2>3 DEF WantRealloc, y
<1> QED BY <1>2, <1>3, <1>4 DEF RoundsTo

-----------------------------------------------------------------------------
(* The array of offsets. *)

LEMMA OffFacts ==
  ASSUME NEW v, OffFrame(v)
  PROVE  /\ v \in OffType /\ v.mem \in Seq(Bytes) /\ Len(v.mem) \in Nat
         /\ DOMAIN v.mem = 1 .. Len(v.mem)
         /\ v.used \in Nat /\ v.allocated \in Nat
         /\ v.live \in BOOLEAN /\ v.denied \in BOOLEAN
<1>1. v \in OffType
  BY DEF OffFrame
<1>2. v.mem \in Seq(Bytes)
  BY <1>1 DEF OffType
<1> QED BY <1>1, <1>2 DEF OffType

LEMMA OffBlank == OffFrame(S!Off!Blank) /\ S!Off!Blank.used = 0 /\ S!Off!Blank.allocated = 0
<1>1. Word * 0 = BlockSize * 0 /\ Half(Word * 0)
  BY TextConstants DEF Half
<1>2. S!Off!Blank \in OffType /\ Len(S!Off!Blank.mem) = 0
  BY DEF S!Off!Blank, OffType
<1> QED BY <1>1, <1>2, TextConstants DEF OffFrame, S!Off!Blank

\* A block of n bytes has that many words in it.
LEMMA WordsIn ==
  ASSUME NEW k \in Nat
  PROVE  \E n \in Nat : BlockSize * k = Word * n /\ (BlockSize * k) \div Word = n
<1>1. PICK w \in Nat : BlockSize = Word * w
  BY TextMultiples
<1>2. (Word * w) * k = Word * (w * k) /\ w * k \in Nat
  BY TextConstants, Z3
<1>3. \A n \in Nat : (Word * n) \div Word = n
  BY TextConstants, Z3
<1> QED BY <1>1, <1>2, <1>3

LEMMA OffClaim ==
  ASSUME NEW y \in Nat
  PROVE  /\ S!Off!Claim(y) \in Nat /\ S!Off!Claim(y) <= OffMax
         /\ S!Off!Claim(y) < OffMax => S!Off!Claim(y) = y \div Word /\ ~(y >= SizeSpan - IntSpan)
         /\ S!Off!Claim(y) = OffMax \/ S!Off!Claim(y) = y \div Word
         /\ y \div Word \in Nat /\ S!Off!Claim(y) <= y \div Word
<1>1. /\ y \div Word \in Nat /\ y % Word \in Nat /\ y % Word < Word
      /\ y = Word * (y \div Word) + (y % Word)
  BY DivMod, TextConstants
<1>2. ASSUME y >= SizeSpan - IntSpan PROVE ~(y \div Word < OffMax)
  <2> DEFINE n == y \div Word
  <2>1. SUFFICES ASSUME n < OffMax PROVE FALSE
    OBVIOUS
  <2> HIDE DEF n
  <2>2. n \in Nat /\ Word * n \in Nat /\ Word * (n + 1) = Word * n + Word /\ Word * (n + 1) <= Word * OffMax
    <3>1. n \in Nat /\ n + 1 <= OffMax
      BY <1>1, <2>1, TextConstants DEF n
    <3>2. Word * (n + 1) = Word * n + Word
      BY <3>1, TextConstants, Z3
    <3> QED BY <3>1, <3>2, TextConstants, MulMono
  <2>3. y < Word * n + Word
    BY <1>1, <2>2, TextConstants DEF n
  <2>4. Word * OffMax \in Nat /\ Word * OffMax <= SizeSpan - IntSpan /\ SizeSpan - IntSpan \in Nat /\ Word \in Nat
    BY TextConstants
  <2> HIDE DEF n
  <2> QED BY <1>2, <2>2, <2>3, <2>4
<1> QED BY <1>1, <1>2, TextConstants DEF S!Off!Claim

\* The claim that a block length leads to is that of its words, or idx_max.
LEMMA OffClaimExact ==
  ASSUME NEW k \in Nat, NEW y, BlockSize * k \in Nat,
         y = IF Half(BlockSize * k) THEN BlockSize * k ELSE SizeSpan - IntSpan + BlockSize * k
  PROVE  /\ y \in Nat
         /\ S!Off!Claim(y) < OffMax =>
              /\ \E m \in Nat : Word * S!Off!Claim(y) = BlockSize * m
              /\ Half(Word * S!Off!Claim(y)) /\ Word * S!Off!Claim(y) = BlockSize * k
<1>1. y \in Nat /\ (y >= SizeSpan - IntSpan \/ (Half(BlockSize * k) /\ y = BlockSize * k))
  <2> DEFINE z == BlockSize * k
  <2>1. z \in Nat /\ y = IF Half(z) THEN z ELSE SizeSpan - IntSpan + z
    OBVIOUS
  <2> HIDE DEF z
  <2>2. y \in Nat /\ (y >= SizeSpan - IntSpan \/ (Half(z) /\ y = z))
    BY <2>1, TextConstants
  <2> QED BY <2>2 DEF z
<1>2. PICK n \in Nat : BlockSize * k = Word * n /\ (BlockSize * k) \div Word = n
  BY WordsIn
<1>3. ASSUME S!Off!Claim(y) < OffMax
      PROVE  S!Off!Claim(y) = n /\ Half(BlockSize * k)
  BY <1>1, <1>2, <1>3, OffClaim
<1> QED BY <1>1, <1>2, <1>3

\* What an array that grows becomes.
GrownOff(v, w) ==
  /\ OffFrame(w) /\ w.used = v.used /\ Len(w.mem) > Len(v.mem) /\ w.denied = v.denied
  /\ v.allocated < w.allocated
  /\ \A i \in 1 .. Len(v.mem) : w.mem[i] = v.mem[i]

DeniedOff(v, w) == OffFrame(w) /\ w.used = v.used /\ w.mem = v.mem /\ w.denied

LEMMA OffGrowBytes ==
  ASSUME NEW v, OffFrame(v), v.allocated < OffMax, NEW r \in S!Off!GrowBytes(v, OffGrowth)
  PROVE  \/ r.ok = TRUE /\ GrownOff(v, r.vec)
         \/ r.ok = TRUE /\ DeniedOff(v, r.vec)
         \/ r.ok = FALSE /\ r.vec = v
<1> DEFINE old == Word * v.allocated
           new == WantRealloc(old, OffGrowth)
           granted == S!Off!Granted(v, old, new)
           denied  == S!Off!Denied(v, new)
<1>0. /\ v \in OffType /\ v.allocated \in Nat /\ old \in Nat /\ Len(v.mem) \in Nat
      /\ v.mem \in Seq(Bytes) /\ v.used \in Nat
      /\ Len(v.mem) <= v.allocated
  <2>1. v \in OffType /\ v.allocated \in Nat /\ Len(v.mem) \in Nat /\ v.mem \in Seq(Bytes) /\ v.used \in Nat
    BY OffFacts
  <2>2. Len(v.mem) <= v.allocated
    BY <2>1, TextConstants DEF OffFrame
  <2> QED BY <2>1, <2>2, MulMono, TextConstants
<1>1. PICK m \in Nat : old = BlockSize * m /\ Half(BlockSize * m)
  BY DEF OffFrame
<1>2. PICK k \in Nat : /\ BlockSize * k \in Nat /\ old + OffGrowth = BlockSize * k
                       /\ new = IF Half(BlockSize * k) THEN BlockSize * k ELSE SizeSpan - IntSpan + BlockSize * k
  <2>1. PICK g \in Nat : OffGrowth = BlockSize * g
    BY TextMultiples
  <2>2. BlockSize * m + OffGrowth = BlockSize * (m + g) /\ m + g \in Nat
    BY <2>1, TextConstants, Z3
  <2>3. BlockSize * m + OffGrowth + BlockSize <= IntSpan
    <3>1. Small(old) /\ old \in Nat
      BY <1>1, HalfSmall
    <3> HIDE DEF old
    <3> QED BY <3>1, <1>1, TextConstants DEF Small
  <2>4. PICK k \in Nat : /\ BlockSize * k \in Nat /\ BlockSize * m + OffGrowth <= BlockSize * k
                         /\ \A j \in Nat : BlockSize * m + OffGrowth <= BlockSize * j => BlockSize * k <= BlockSize * j
                         /\ WantRealloc(BlockSize * m, OffGrowth) =
                              IF Half(BlockSize * k) THEN BlockSize * k ELSE SizeSpan - IntSpan + BlockSize * k
    BY <1>1, <2>3, WantsExact, TextConstants
  <2>5. BlockSize * k <= BlockSize * (m + g)
    <3>1. BlockSize * m + OffGrowth <= BlockSize * (m + g)
      BY <2>2, <1>0, <1>1, TextConstants
    <3> QED BY <3>1, <2>2, <2>4
  <2>6. BlockSize * k = BlockSize * m + OffGrowth
    <3>1. BlockSize * m \in Nat /\ OffGrowth \in Nat
      BY <1>0, <1>1, TextConstants
    <3> DEFINE y == BlockSize * k
               z == BlockSize * m
    <3>2. z \in Nat /\ y \in Nat /\ z + OffGrowth <= y /\ y <= z + OffGrowth
      BY <2>2, <2>4, <2>5, <3>1
    <3> HIDE DEF y, z
    <3>3. y = z + OffGrowth
      BY <3>1, <3>2
    <3> QED BY <3>3 DEF y, z
  <2> QED BY <1>1, <2>4, <2>6
<1>3. PICK n \in Nat : BlockSize * k = Word * n /\ (BlockSize * k) \div Word = n
  BY WordsIn
<1>4. v.allocated < n
  <2>1. old < BlockSize * k
    <3> HIDE DEF old
    <3> QED BY <1>0, <1>2, TextConstants
  <2> QED BY <2>1, <1>0, <1>3, TextConstants, MulCancel
<1>5. /\ new \in Nat /\ new # 0 /\ S!Off!Claim(new) \in Nat /\ S!Off!Claim(new) <= OffMax
      /\ S!Off!Claim(new) < OffMax => /\ \E j \in Nat : Word * S!Off!Claim(new) = BlockSize * j
                                      /\ Half(Word * S!Off!Claim(new))
      /\ S!Off!Claim(new) = OffMax \/ S!Off!Claim(new) = n
  <2>1. new \in Nat
    BY <1>2, OffClaimExact
  <2>2. new # 0
    <3> DEFINE z == BlockSize * k
    <3>1. z \in Nat /\ z > 0 /\ new = IF Half(z) THEN z ELSE SizeSpan - IntSpan + z
      <4> HIDE DEF old
      <4> QED BY <1>0, <1>2, TextConstants
    <3> HIDE DEF new, z
    <3> QED BY <3>1, TextConstants
  <2>3. S!Off!Claim(new) < OffMax => Word * S!Off!Claim(new) = Word * n
    BY <1>2, <1>3, OffClaimExact
  <2>4. \A x \in Nat, y \in Nat : Word * x = Word * y => x = y
    BY TextConstants, Z3
  <2> HIDE DEF new
  <2>5. S!Off!Claim(new) \in Nat /\ S!Off!Claim(new) <= OffMax
    BY <2>1, OffClaim
  <2>6. S!Off!Claim(new) = OffMax \/ S!Off!Claim(new) = n
    BY <2>3, <2>4, <2>5, TextConstants
  <2> QED BY <2>1, <2>2, <2>5, <2>6, <1>2, OffClaimExact DEF new
<1>6. /\ \/ new <= HeapMax /\ r = [vec |-> granted, ok |-> TRUE]
         \/ v.live /\ r = [vec |-> denied, ok |-> TRUE]
         \/ r = [vec |-> v, ok |-> FALSE]
  <2>1. S!Off!BlockAlign(Word * v.allocated) = old
    <3>1. old <= BlockAlign(old) /\ BlockAlign(old) <= old /\ BlockAlign(old) \in Nat
      BY <1>0, <1>1, AlignExact
    <3> HIDE DEF old
    <3>2. BlockAlign(old) = old
      BY <3>1, <1>0
    <3> QED BY <3>2, SameArithmetic DEF old
  <2>2. S!Off!WantRealloc(old, OffGrowth) = new
    BY SameArithmetic
  <2> HIDE DEF granted, denied, old, new
  <2>3. r \in (IF new <= HeapMax THEN S!Off!Same(granted, TRUE) ELSE {})
              \cup (IF ~v.live \/ ReallocMayFail \/ new > HeapMax
                    THEN IF v.live THEN S!Off!Same(denied, TRUE) ELSE S!Off!Same(v, FALSE) ELSE {})
    BY <1>5, <2>1, <2>2, Zenon DEF S!Off!GrowBytes, granted, denied, old
  <2> QED BY <2>3, Zenon DEF S!Off!Same
<1>7. CASE new <= HeapMax /\ r = [vec |-> granted, ok |-> TRUE]
  <2>1. new = BlockSize * k /\ new \div Word = n /\ new = Word * n
    <3> DEFINE z == BlockSize * k
    <3>1. z \in Nat /\ new = IF Half(z) THEN z ELSE SizeSpan - IntSpan + z
      BY <1>2
    <3> HIDE DEF new, z
    <3>2. new = z
      BY <1>7, <3>1, TextConstants
    <3> QED BY <3>2, <1>3 DEF z
  <2> HIDE DEF new
  <2> DEFINE mem == S!Off!Extended(v.mem, old, new)
  <2>2. granted = [live |-> TRUE, mem |-> mem, used |-> v.used,
                   allocated |-> S!Off!Claim(new), denied |-> v.denied]
    BY DEF S!Off!Granted
  <2>3. mem = [i \in 1 .. n |-> IF i * Word > old THEN 0 ELSE IF i <= Len(v.mem) THEN v.mem[i] ELSE Junk]
    BY <2>1 DEF S!Off!Extended
  <2>4. mem \in Seq(Bytes) /\ Len(mem) = n
    <3>1. \A i \in 1 .. Len(v.mem) : v.mem[i] \in Bytes
      BY <1>0
    <3>2. \A i \in 1 .. n : mem[i] \in Bytes
      <4> HIDE DEF old
      <4>1. 0 \in Bytes /\ Junk \in Bytes
        BY DEF Bytes
      <4>2. \A i \in 1 .. n : i <= Len(v.mem) => i \in 1 .. Len(v.mem)
        OBVIOUS
      <4> QED BY <2>3, <3>1, <4>1, <4>2
    <3>3. mem \in [1 .. n -> Bytes]
      BY <2>3, <3>2
    <3> HIDE DEF mem
    <3> QED BY <3>3
  <2>5. \A i \in 1 .. Len(v.mem) : mem[i] = v.mem[i]
    <3>1. ASSUME NEW i \in 1 .. Len(v.mem) PROVE mem[i] = v.mem[i]
      <4>3. i \in Nat /\ i <= v.allocated
        BY <1>0
      <4>1. ~(i * Word > old)
        <5>1. Word * i <= Word * v.allocated /\ i * Word = Word * i /\ Word * i \in Nat
          <6>1. i \in Nat /\ i * Word = Word * i
            BY TextConstants
          <6> QED BY <6>1, <4>3, <1>0, TextConstants, MulMono
        <5> DEFINE z == Word * i
        <5> HIDE DEF old
        <5>2. z <= old /\ z \in Nat /\ i * Word = z
          BY <5>1 DEF old
        <5> HIDE DEF z
        <5> QED BY <5>2, <1>0
      <4>2. i \in 1 .. n
        BY <1>0, <1>4
      <4> HIDE DEF old
      <4> QED BY <4>1, <4>2, <2>3
    <3> QED BY <3>1
  <2> HIDE DEF mem
  <2>6. /\ granted.live = TRUE /\ granted.mem = mem /\ granted.used = v.used
        /\ granted.allocated = S!Off!Claim(new) /\ granted.denied = v.denied
    BY <2>2
  <2>7. granted \in OffType
    <3>1. v.used \in Nat /\ v.denied \in BOOLEAN /\ S!Off!Claim(new) \in Nat
      BY OffFacts, <1>5
    <3> HIDE DEF granted
    <3> QED BY <2>2, <2>4, <3>1 DEF OffType
  <2>8. /\ v.allocated < S!Off!Claim(new)
        /\ Len(mem) <= S!Off!Claim(new) \/ S!Off!Claim(new) = OffMax
    BY <1>4, <1>5, <2>4
  <2>9. S!Off!Claim(new) <= n
    BY <1>5, <2>1, OffClaim
  <2>10. v.allocated < S!Off!Claim(new)
    BY <2>8
  <2> HIDE DEF granted
  <2>11. OffFrame(granted)
    <3>1. ~v.denied => v.used <= v.allocated
      BY DEF OffFrame
    <3>2. ~v.denied => v.used <= granted.allocated /\ granted.allocated <= Len(granted.mem)
      BY <3>1, <2>4, <2>6, <2>9, <2>10, <1>0, <1>5
    <3>3. Len(granted.mem) > 0
      BY <2>4, <2>6, <1>0, <1>4
    <3> QED BY <3>2, <3>3, <2>4, <2>6, <2>7, <2>8, <1>5 DEF OffFrame
  <2>12. GrownOff(v, granted)
    BY <2>4, <2>5, <2>6, <2>10, <2>11, <1>0, <1>4 DEF GrownOff
  <2> QED BY <2>12, <1>7
<1>8. CASE v.live /\ r = [vec |-> denied, ok |-> TRUE]
  <2> HIDE DEF new
  <2>1. denied = [live |-> v.live, mem |-> v.mem, used |-> v.used, allocated |-> S!Off!Claim(new), denied |-> TRUE]
    BY DEF S!Off!Denied
  <2>2. /\ denied.mem = v.mem /\ denied.used = v.used /\ denied.allocated = S!Off!Claim(new) /\ denied.denied = TRUE
    BY <2>1
  <2>3. denied \in OffType
    BY <2>1, <1>0, <1>5 DEF OffType
  <2> HIDE DEF denied
  <2>4. Len(v.mem) <= S!Off!Claim(new) \/ S!Off!Claim(new) = OffMax
    BY <1>0, <1>4, <1>5
  <2>5. OffFrame(denied)
    BY <1>8, <2>2, <2>3, <2>4, <1>5 DEF OffFrame
  <2> QED BY <2>2, <2>5, <1>8 DEF DeniedOff
<1>9. CASE r = [vec |-> v, ok |-> FALSE]
  BY <1>9
<1> QED BY <1>6, <1>7, <1>8, <1>9

LEMMA OffGrow ==
  ASSUME NEW v, OffFrame(v), v.used < OffMax, NEW r \in S!GrowOffsets(v)
  PROVE  \/ r.ok = TRUE /\ r.vec = v /\ v.used < v.allocated
         \/ r.ok = TRUE /\ v.allocated <= v.used /\ GrownOff(v, r.vec)
         \/ r.ok = TRUE /\ DeniedOff(v, r.vec)
         \/ r.ok = FALSE /\ r.vec = v
<1>0. v.used \in Nat /\ v.allocated \in Nat /\ v.allocated <= OffMax
  BY OffFacts DEF OffFrame
<1>1. CASE v.used < v.allocated
  <2>1. r \in S!Off!Same(v, TRUE)
    BY <1>1, Zenon DEF S!GrowOffsets, S!Off!GrowAuto
  <2> QED BY <2>1, <1>1 DEF S!Off!Same
<1>2. CASE ~(v.used < v.allocated)
  <2>1. v.allocated < OffMax /\ ~(v.allocated >= OffMax) /\ ~(OffMax < v.allocated) /\ OffGrowth # 0
        /\ v.allocated <= v.used
    BY <1>0, <1>2, TextConstants
  <2>2. r \in S!Off!GrowBytes(v, OffGrowth)
    BY <1>2, <2>1, Zenon DEF S!GrowOffsets, S!Off!GrowAuto, S!Off!GrowByBytes
  <2> QED BY <2>1, <2>2, OffGrowBytes
<1> QED BY <1>1, <1>2

LEMMA OffPut ==
  ASSUME NEW v, OffFrame(v), NEW used \in Nat, NEW x \in Bytes, NEW index \in Nat,
         ~v.denied => used <= v.allocated
  PROVE  LET w == S!Off!Put(v, used, index, x)
         IN  /\ OffFrame(w) /\ w.used = used /\ w.denied = v.denied /\ w.allocated = v.allocated
             /\ Len(w.mem) = Len(v.mem)
             /\ \A i \in 1 .. Len(v.mem) : w.mem[i] = IF i = index + 1 THEN x ELSE v.mem[i]
<1> DEFINE f == [i \in DOMAIN v.mem |-> IF i = index + 1 THEN x ELSE v.mem[i]]
           w == S!Off!Put(v, used, index, x)
<1>1. v \in OffType /\ v.mem \in Seq(Bytes) /\ v.allocated \in Nat /\ DOMAIN v.mem = 1 .. Len(v.mem)
  BY OffFacts
<1>2. f \in [DOMAIN v.mem -> Bytes]
  BY <1>1
<1>3. f \in Seq(Bytes) /\ Len(f) = Len(v.mem)
  BY <1>1, <1>2, SameShape
<1>4. w = [live |-> v.live, mem |-> f, used |-> used, allocated |-> v.allocated, denied |-> v.denied]
  BY DEF S!Off!Put, S!Off!With
<1>5. \A i \in 1 .. Len(v.mem) : f[i] = IF i = index + 1 THEN x ELSE v.mem[i]
  BY <1>1
<1> HIDE DEF f, w
<1>6. /\ w.live = v.live /\ w.mem = f /\ w.used = used /\ w.allocated = v.allocated
      /\ w.denied = v.denied
  BY <1>4
<1>7. w \in OffType
  <2>1. v.live \in BOOLEAN /\ v.denied \in BOOLEAN
    BY OffFacts
  <2> QED BY <2>1, <1>1, <1>3, <1>4 DEF OffType
<1>8. OffFrame(w)
  BY <1>3, <1>6, <1>7 DEF OffFrame
<1> QED BY <1>3, <1>5, <1>6, <1>8 DEF w

\* What appending an offset makes of the array.
OffAdded(v, w, x) ==
  /\ OffFrame(w) /\ w.used = v.used + 1 /\ Len(v.mem) <= Len(w.mem)
  /\ \A i \in 1 .. Len(v.mem) : i # w.used => w.mem[i] = v.mem[i]
  /\ w.used <= Len(w.mem) => w.mem[w.used] = x
  /\ ~w.denied => ~v.denied /\ w.used <= Len(w.mem)

LEMMA AddsOffset ==
  ASSUME NEW v, OffFrame(v), v.used < OffMax, NEW x \in Bytes, NEW a \in S!AddOffset(v, x)
  PROVE  /\ a.ok \in BOOLEAN /\ (a.ok => OffAdded(v, a.vec, x)) /\ (~a.ok => a.vec = v)
         /\ ~a.vec.denied => a.bad = "none"
         /\ a.ok /\ a.bad = "none" => a.vec.used <= Len(a.vec.mem)
<1>1. PICK r \in S!GrowOffsets(v) :
        a = IF r.ok
            THEN [vec |-> S!Off!Put(r.vec, r.vec.used + 1, r.vec.used, x), ok |-> r.vec.used <= OffMax,
                  bad |-> S!Off!Outside(r.vec, r.vec.used + 1)]
            ELSE [vec |-> r.vec, ok |-> FALSE, bad |-> "none"]
  BY DEF S!AddOffset
<1>0. /\ v.used \in Nat /\ v.allocated \in Nat /\ Len(v.mem) \in Nat
      /\ ~v.denied => v.used <= v.allocated /\ v.allocated <= Len(v.mem)
  BY OffFacts DEF OffFrame
<1>2. CASE r.ok = FALSE
  <2>1. r.vec = v
    BY <1>2, OffGrow
  <2> QED BY <2>1, <1>1, <1>2
<1>3. CASE r.ok = TRUE
  <2> DEFINE g == r.vec
             w == S!Off!Put(g, g.used + 1, g.used, x)
  <2>1. /\ OffFrame(g) /\ g.used = v.used /\ Len(v.mem) <= Len(g.mem)
        /\ ~g.denied => ~v.denied /\ g.used + 1 <= g.allocated
        /\ \A i \in 1 .. Len(v.mem) : g.mem[i] = v.mem[i]
    <3>1. CASE g = v /\ v.used < v.allocated
      BY <3>1, <1>0
    <3>2. CASE v.allocated <= v.used /\ GrownOff(v, g)
      <4>1. OffFrame(g) /\ g.used = v.used /\ g.denied = v.denied /\ Len(g.mem) > Len(v.mem)
            /\ v.allocated < g.allocated
            /\ \A i \in 1 .. Len(v.mem) : g.mem[i] = v.mem[i]
        BY <3>2 DEF GrownOff
      <4>2. g.allocated \in Nat /\ Len(g.mem) \in Nat
        BY <4>1, OffFacts
      <4>3. ~g.denied => ~v.denied /\ g.used + 1 <= g.allocated
        BY <4>1, <4>2, <1>0
      <4> HIDE DEF g
      <4> QED BY <4>1, <4>2, <4>3, <1>0
    <3>3. CASE DeniedOff(v, g)
      BY <3>3, <1>0 DEF DeniedOff
    <3> QED BY <3>1, <3>2, <3>3, <1>3, OffGrow
  <2>2. g.used + 1 \in Nat /\ g.used \in Nat /\ g.allocated \in Nat /\ Len(g.mem) \in Nat
    BY <2>1, <1>0, OffFacts
  <2> HIDE DEF g
  <2>3. /\ OffFrame(w) /\ w.used = g.used + 1 /\ w.denied = g.denied /\ Len(w.mem) = Len(g.mem)
        /\ \A i \in 1 .. Len(g.mem) : w.mem[i] = IF i = g.used + 1 THEN x ELSE g.mem[i]
    BY <2>1, <2>2, OffPut
  <2>4. a = [vec |-> w, ok |-> g.used <= OffMax, bad |-> S!Off!Outside(g, g.used + 1)]
    BY <1>1, <1>3 DEF g
  <2> HIDE DEF w
  <2>5. a.vec = w /\ a.ok = TRUE /\ a.bad = S!Off!Outside(g, g.used + 1)
    <3>1. g.used <= OffMax
      BY <2>1, <1>0, TextConstants
    <3> QED BY <2>4, <3>1
  <2>6. /\ w.used <= Len(w.mem) => a.bad = "none" /\ w.mem[w.used] = x
        /\ a.bad = "none" => w.used <= Len(w.mem)
    BY <2>2, <2>3, <2>5 DEF S!Off!Outside
  <2>7. ~w.denied => ~v.denied /\ w.used <= Len(w.mem)
    <3>1. SUFFICES ASSUME ~w.denied PROVE ~v.denied /\ w.used <= Len(w.mem)
      OBVIOUS
    <3>2. ~g.denied
      BY <2>3, <3>1
    <3>3. g.allocated <= Len(g.mem) /\ g.used + 1 <= g.allocated /\ ~v.denied
      BY <3>2, <2>1 DEF OffFrame
    <3> QED BY <2>2, <2>3, <3>3
  <2>8. ASSUME NEW i \in 1 .. Len(v.mem), i # w.used PROVE w.mem[i] = v.mem[i]
    <3>1. i \in 1 .. Len(v.mem) /\ i \in 1 .. Len(g.mem) /\ i # g.used + 1
      BY <1>0, <2>1, <2>2, <2>3, <2>8
    <3> QED BY <3>1, <2>1, <2>3
  <2>9. Len(v.mem) <= Len(w.mem) /\ w.used = v.used + 1
    BY <2>1, <2>3
  <2> QED BY <2>3, <2>5, <2>6, <2>7, <2>8, <2>9 DEF OffAdded
<1>4. r.ok \in BOOLEAN
  BY OffGrow
<1> QED BY <1>2, <1>3, <1>4

\* init_ex() of the offsets: all the room that was asked for, or none.
LEMMA OffInit ==
  ASSUME NEW n \in Nat, NEW r \in S!Off!InitEx(n), r.ok
  PROVE  /\ OffFrame(r.vec) /\ ~r.vec.denied /\ r.vec.used = 0
         /\ n <= r.vec.allocated /\ r.vec.allocated > 0
<1> DEFINE c == IF n = 0 THEN 1 ELSE n
           b == Word * c
           y == BlockAlign(b)
           granted == S!Off!Granted(S!Off!Blank, 0, y)
<1>0. c \in Nat /\ c > 0 /\ n <= c /\ b \in Nat
  <2>1. c \in Nat /\ c > 0 /\ n <= c
    OBVIOUS
  <2> HIDE DEF c
  <2> QED BY <2>1, TextConstants, MulMono
<1>00. b > 0
  <2>1. Word * 0 < Word * c \/ b = 0
    <3> HIDE DEF c
    <3> QED BY <1>0, TextConstants, MulMono
  <2>2. Word * 1 <= Word * c /\ Word * 1 = Word
    <3> HIDE DEF c
    <3> QED BY <1>0, TextConstants, MulMono
  <2> HIDE DEF c
  <2> QED BY <1>0, <2>2, TextConstants
<1>1. c <= OffMax /\ r \in S!Off!GrowBytes(S!Off!Blank, b)
  <2>1. r \in S!Off!GrowByCount(S!Off!Blank, c)
    BY DEF S!Off!InitEx
  <2>2. \A w, e : w \in S!Off!Same(e, FALSE) => ~w.ok
    BY DEF S!Off!Same
  <2>3. ~(c = 0 \/ c >= OffWFall \/ S!Off!Blank.allocated >= OffMax \/ S!Off!Blank.allocated + c > OffMax)
        /\ r \in S!Off!GrowBytes(S!Off!Blank, b)
    <3> HIDE DEF c
    <3> QED BY <2>1, <2>2, Zenon DEF S!Off!GrowByCount
  <2>4. S!Off!Blank.allocated = 0
    BY OffBlank
  <2>5. ~(c > OffMax)
    <3> HIDE DEF c
    <3>1. 0 + c = c
      BY <1>0
    <3> QED BY <2>3, <2>4, <3>1
  <2> HIDE DEF c
  <2> QED BY <2>3, <2>5, <1>0, TextConstants
<1>2. S!Off!WantRealloc(0, b) = y \/ S!Off!WantRealloc(0, b) = 0
  <2>1. WantRealloc(0, b) = 0 \/ WantRealloc(0, b) = y
    <3>1. 0 + b = b
      <4> HIDE DEF b
      <4> QED BY <1>0
    <3> HIDE DEF b, y
    <3> QED BY <3>1, Zenon DEF WantRealloc, y
  <2> QED BY <2>1, SameArithmetic
<1>3. WantRealloc(0, b) # 0 => y >= b
  <2>1. WantRealloc(0, b) # 0 => WantRealloc(0, b) >= 0 + b /\ WantRealloc(0, b) = y
    <3>1. S!Off!WantRealloc(0, b) = WantRealloc(0, b)
      BY SameArithmetic
    <3> HIDE DEF b, y
    <3> QED BY <1>0, <1>2, <3>1, WantReallocShape
  <2> HIDE DEF b, y
  <2> QED BY <2>1, <1>0
<1>4. /\ WantRealloc(0, b) # 0 /\ y <= HeapMax
      /\ r = [vec |-> granted, ok |-> TRUE]
  <2> DEFINE new == WantRealloc(0, b)
  <2>1. S!Off!BlockAlign(Word * S!Off!Blank.allocated) = 0
    <3>1. Word * S!Off!Blank.allocated = 0
      BY OffBlank, TextConstants
    <3> QED BY <3>1 DEF S!Off!BlockAlign
  <2>2. S!Off!WantRealloc(0, b) = new
    BY SameArithmetic
  <2>3. S!Off!Blank.live = FALSE
    BY DEF S!Off!Blank
  <2> HIDE DEF b, new
  <2>4. \/ new = 0 /\ r \in S!Off!Same(S!Off!Blank, S!Off!Blank.live /\ S!Off!Blank.allocated > 0)
        \/ new # 0 /\ new <= HeapMax /\ r \in S!Off!Same(S!Off!Granted(S!Off!Blank, 0, new), TRUE)
        \/ r \in S!Off!Same(S!Off!Blank, FALSE)
    BY <1>1, <2>1, <2>2, <2>3, Zenon DEF S!Off!GrowBytes
  <2>5. \A e, q : r \in S!Off!Same(e, q) => r = [vec |-> e, ok |-> q]
    BY DEF S!Off!Same
  <2>6. ~(r = [vec |-> S!Off!Blank, ok |-> FALSE])
    OBVIOUS
  <2>7. (S!Off!Blank.live /\ S!Off!Blank.allocated > 0) = FALSE
    BY <2>3
  <2>8. new # 0 /\ new <= HeapMax /\ r = [vec |-> S!Off!Granted(S!Off!Blank, 0, new), ok |-> TRUE]
    BY <2>4, <2>5, <2>6, <2>7, Zenon
  <2>9. new = y
    BY <1>2, <2>2, <2>8
  <2> QED BY <2>8, <2>9 DEF new
<1>5. PICK k \in Nat : y = BlockSize * k /\ y \in Nat /\ Half(y)
  <2>1. Shape(y)
    <3> HIDE DEF b
    <3> QED BY <1>0, BlockAlignShape
  <2> HIDE DEF y
  <2>2. ~(y >= SizeSpan - IntSpan)
    BY <1>4, <2>1, TextConstants DEF Shape
  <2> QED BY <2>1, <2>2 DEF Shape
<1>6. PICK m \in Nat : BlockSize * k = Word * m /\ (BlockSize * k) \div Word = m
  BY WordsIn
<1>7. c <= m
  <2>1. y >= b
    BY <1>3, <1>4
  <2>2. Word * c <= Word * m
    <3> HIDE DEF y, c
    <3> QED BY <1>5, <1>6, <2>1
  <2>3. \A p \in Nat, q \in Nat : Word * p <= Word * q => p <= q
    <3>1. ASSUME NEW p \in Nat, NEW q \in Nat, Word * p <= Word * q, q < p PROVE FALSE
      <4>1. Word * (q + 1) <= Word * p /\ Word * (q + 1) = Word * q + Word
        <5>1. q + 1 <= p
          BY <3>1
        <5>2. Word * (q + 1) = Word * q + Word
          BY TextConstants, Z3
        <5> QED BY <5>1, <5>2, TextConstants, MulMono
      <4>2. Word * q \in Nat /\ Word * p \in Nat /\ Word \in Nat /\ Word > 0
        BY TextConstants, MulMono
      <4> DEFINE u == Word * q
                 z == Word * p
      <4>3. z <= u /\ u + Word <= z /\ u \in Nat /\ z \in Nat /\ Word > 0 /\ Word \in Nat
        BY <3>1, <4>1, <4>2
      <4> HIDE DEF u, z
      <4> QED BY <4>3
    <3> QED BY <3>1
  <2> HIDE DEF c
  <2> QED BY <2>2, <2>3, <1>0
<1>8. /\ S!Off!Claim(y) \in Nat /\ S!Off!Claim(y) <= OffMax /\ S!Off!Claim(y) <= m
      /\ S!Off!Claim(y) < OffMax => S!Off!Claim(y) = m
      /\ S!Off!Claim(y) = OffMax \/ S!Off!Claim(y) = m
  <2> HIDE DEF y
  <2>1. y \div Word = m
    BY <1>5, <1>6
  <2> QED BY <2>1, <1>5, OffClaim
<1> DEFINE f == [i \in 1 .. m |-> 0]
<1>9. granted = [live |-> TRUE, mem |-> f, used |-> 0, allocated |-> S!Off!Claim(y), denied |-> FALSE]
  <2> HIDE DEF y
  <2>1. S!Off!Extended(S!Off!Blank.mem, 0, y) = f
    <3>1. y \div Word = m
      BY <1>5, <1>6
    <3>2. \A i \in 1 .. m : i * Word > 0
      <4>1. \A i \in Nat : i > 0 => i * Word > 0
        BY TextConstants, Z3
      <4> QED BY <4>1
    <3> QED BY <3>1, <3>2 DEF S!Off!Extended
  <2>2. S!Off!Blank.used = 0 /\ S!Off!Blank.denied = FALSE
    BY DEF S!Off!Blank
  <2> QED BY <2>1, <2>2 DEF S!Off!Granted
<1>10. f \in Seq(Bytes) /\ Len(f) = m
  <2>1. f \in [1 .. m -> Bytes]
    BY DEF Bytes
  <2> QED BY <2>1
<1> HIDE DEF f, y, granted, b, c
<1>11. /\ granted.live = TRUE /\ granted.mem = f /\ granted.used = 0
       /\ granted.allocated = S!Off!Claim(y) /\ granted.denied = FALSE
  BY <1>9
<1>12. granted \in OffType
  BY <1>8, <1>9, <1>10 DEF OffType
<1>13. Word * m = BlockSize * k /\ Half(Word * m)
  BY <1>5, <1>6
<1>14. OffFrame(granted)
  BY <1>0, <1>7, <1>8, <1>10, <1>11, <1>12, <1>13 DEF OffFrame
<1>15. c <= S!Off!Claim(y)
  BY <1>1, <1>7, <1>8
<1> QED BY <1>0, <1>4, <1>8, <1>11, <1>14, <1>15

-----------------------------------------------------------------------------
(* What the kernel counts. *)

OneMoreSize(strs, m, size) == size + Len(strs[m]) + 1 + Word

Summing(f, strs) ==
  /\ f[0] = 0
  /\ \A m \in 1 .. Len(strs) : f[m] = OneMoreSize(strs, m, f[m - 1])
  /\ \A m \in 0 .. Len(strs) : f[m] \in Nat

LEMMA KernelRounds ==
  ASSUME NEW strs \in Seq(Seq(Bytes))
  PROVE  \E f : Summing(f, strs) /\ S!KernelSize(strs) = f[Len(strs)]
<1> DEFINE n == Len(strs)
           h == [x \in (1 .. n) \X Nat |-> OneMoreSize(strs, x[1], x[2])]
           Body(f) == [m \in 0 .. n |-> IF m = 0 THEN 0 ELSE f[m - 1] + Len(strs[m]) + 1 + Word]
           W == CHOOSE f : f = Body(f)
<1>1. n \in Nat /\ \A m \in 1 .. n : strs[m] \in Seq(Bytes) /\ Len(strs[m]) \in Nat
  OBVIOUS
<1>2. 0 \in Nat
  OBVIOUS
<1>3. /\ h \in [(1 .. n) \X Nat -> Nat]
      /\ \A m \in 1 .. n, v \in Nat : h[<<m, v>>] = OneMoreSize(strs, m, v)
  <2>1. \A m \in 1 .. n, v \in Nat : OneMoreSize(strs, m, v) \in Nat
    <3>1. Word \in Nat
      BY TextConstants
    <3> QED BY <1>1, <3>1 DEF OneMoreSize
  <2> HIDE DEF n
  <2> QED BY <2>1
<1>4. S!KernelSize(strs) = W[n]
  BY DEF S!KernelSize
<1>5. \A f : Body(f) = [m \in 0 .. n |-> IF m = 0 THEN 0 ELSE OneMoreSize(strs, m, f[m - 1])]
  BY DEF OneMoreSize
<1> HIDE DEF n, h, Body
<1>6. PICK e : Rounds(e, n, Nat, 0, h)
  BY <1>1, <1>2, <1>3, RoundsExist
<1>7. e = Body(e)
  <2>1. \A m \in 1 .. n : e[m] = OneMoreSize(strs, m, e[m - 1])
    <3> SUFFICES ASSUME NEW m \in 1 .. n
                 PROVE  e[m] = OneMoreSize(strs, m, e[m - 1])
      OBVIOUS
    <3>1. m - 1 \in 0 .. n
      BY <1>1
    <3>2. e[m - 1] \in Nat /\ e[m] = h[<<m, e[m - 1]>>]
      BY <1>6, <3>1 DEF Rounds
    <3> QED BY <1>3, <3>2
  <2>2. e \in [0 .. n -> Nat] /\ e[0] = 0
    BY <1>6 DEF Rounds
  <2>3. \A m \in 0 .. n : e[m] = IF m = 0 THEN 0 ELSE OneMoreSize(strs, m, e[m - 1])
    <3>1. \A m \in 0 .. n : m = 0 \/ m \in 1 .. n
      BY <1>1
    <3> QED BY <2>1, <2>2, <3>1, Zenon
  <2>4. e = [m \in 0 .. n |-> IF m = 0 THEN 0 ELSE OneMoreSize(strs, m, e[m - 1])]
    BY <2>2, <2>3
  <2> QED BY <1>5, <2>4, Zenon
<1>8. W = Body(W)
  BY <1>7
<1> HIDE DEF W
<1>9. /\ W = [m \in 0 .. n |-> W[m]] /\ W[0] = 0
      /\ \A m \in 1 .. n : W[m] = OneMoreSize(strs, m, W[m - 1])
  <2>1. W = [m \in 0 .. n |-> IF m = 0 THEN 0 ELSE OneMoreSize(strs, m, W[m - 1])]
    BY <1>5, <1>8
  <2>2. 0 \in 0 .. n /\ 1 .. n \subseteq 0 .. n /\ \A m \in 1 .. n : m # 0
    BY <1>1
  <2>3. W = [m \in 0 .. n |-> W[m]]
    BY <2>1, Zenon
  <2>4. W[0] = 0
    BY <2>1, <2>2
  <2>5. \A m \in 1 .. n : W[m] = OneMoreSize(strs, m, W[m - 1])
    BY <2>1, <2>2
  <2> QED BY <2>3, <2>4, <2>5
<1>10. Rounds(W, n, Nat, 0, h)
  <2>1. \A m \in 1 .. n : W[m - 1] \in Nat => W[m] = h[<<m, W[m - 1]>>]
    BY <1>3, <1>9
  <2> QED BY <1>1, <1>2, <1>3, <1>9, <2>1, RoundsFrom
<1>11. \A m \in 0 .. n : W[m] \in Nat
  BY <1>10 DEF Rounds
<1>12. Summing(W, strs)
  BY <1>9, <1>11 DEF Summing, n
<1> QED BY <1>4, <1>12 DEF n

Begin(p, q, n) == \A m \in 1 .. n : p[m] = q[m]

\* Strings in common count for the same.
LEMMA KernelSame ==
  ASSUME NEW p, NEW q, NEW f, NEW g, Summing(f, p), Summing(g, q),
         NEW n \in Nat, n <= Len(p), n <= Len(q), Len(p) \in Nat, Len(q) \in Nat,
         Begin(p, q, n)
  PROVE  f[n] = g[n]
<1> DEFINE P == {m \in 0 .. n : f[m] = g[m]}
<1>1. 0 \in P
  BY DEF Summing
<1>2. ASSUME NEW m \in 0 .. n - 1, m \in P PROVE m + 1 \in P
  <2>1. m + 1 \in 1 .. Len(p) /\ m + 1 \in 1 .. Len(q) /\ m + 1 \in 1 .. n /\ (m + 1) - 1 = m /\ m + 1 \in 0 .. n
    OBVIOUS
  <2>2. f[m + 1] = OneMoreSize(p, m + 1, f[m]) /\ g[m + 1] = OneMoreSize(q, m + 1, g[m])
    BY <2>1 DEF Summing
  <2>3. f[m] = g[m] /\ p[m + 1] = q[m + 1]
    BY <1>2, <2>1 DEF Begin
  <2> QED BY <2>1, <2>2, <2>3 DEF OneMoreSize
<1>3. P = 0 .. n
  <2>1. P \in SUBSET (0 .. n)
    OBVIOUS
  <2> HIDE DEF P
  <2> QED BY <1>1, <1>2, <2>1, Upwards
<1> QED BY <1>3

LEMMA KernelEmpty == S!KernelSize(<<>>) = 0
<1>1. <<>> \in Seq(Seq(Bytes)) /\ Len(<<>>) = 0
  OBVIOUS
<1>2. PICK f : Summing(f, <<>>) /\ S!KernelSize(<<>>) = f[Len(<<>>)]
  BY <1>1, KernelRounds
<1> QED BY <1>1, <1>2 DEF Summing

LEMMA KernelAppend ==
  ASSUME NEW strs \in Seq(Seq(Bytes)), NEW s \in Seq(Bytes)
  PROVE  /\ S!KernelSize(strs) \in Nat
         /\ S!KernelSize(Append(strs, s)) = S!KernelSize(strs) + Len(s) + 1 + Word
<1> DEFINE more == Append(strs, s)
           n == Len(strs)
<1>1. /\ more \in Seq(Seq(Bytes)) /\ n \in Nat /\ Len(more) = n + 1
      /\ more[n + 1] = s /\ \A m \in 1 .. n : strs[m] = more[m]
  <2>1. /\ more \in Seq(Seq(Bytes)) /\ n \in Nat /\ Len(more) = n + 1 /\ more[n + 1] = s
    OBVIOUS
  <2>2. \A m \in 1 .. n : strs[m] = more[m]
    OBVIOUS
  <2> QED BY <2>1, <2>2
<1> HIDE DEF more
<1>2. PICK f : Summing(f, strs) /\ S!KernelSize(strs) = f[n]
  BY KernelRounds
<1>3. PICK g : Summing(g, more) /\ S!KernelSize(more) = g[n + 1]
  BY <1>1, KernelRounds
<1>4. f[n] = g[n]
  <2>1. n <= Len(more) /\ n <= Len(strs) /\ Len(more) \in Nat /\ Len(strs) \in Nat
    BY <1>1
  <2>2. Summing(f, strs) /\ Summing(g, more) /\ n \in Nat /\ Begin(strs, more, n)
    BY <1>1, <1>2, <1>3 DEF Begin
  <2> HIDE DEF n
  <2> QED BY <2>1, <2>2, KernelSame
<1>5. g[n + 1] = OneMoreSize(more, n + 1, g[n])
  <2>1. n + 1 \in 1 .. Len(more) /\ (n + 1) - 1 = n
    BY <1>1
  <2> HIDE DEF n
  <2> QED BY <1>3, <2>1 DEF Summing
<1>6. f[n] \in Nat
  <2>1. n \in 0 .. Len(strs)
    BY <1>1
  <2> QED BY <1>2, <2>1 DEF Summing
<1> QED BY <1>1, <1>2, <1>3, <1>4, <1>5, <1>6 DEF OneMoreSize, more

-----------------------------------------------------------------------------
(* Appending to a list. *)

LEMMA TextFacts ==
  ASSUME NEW t, t \in TextType
  PROVE  /\ t.live \in BOOLEAN /\ t.mem \in Seq(Bytes) /\ Len(t.mem) \in Nat
         /\ DOMAIN t.mem = 1 .. Len(t.mem)
         /\ t.claimed \in Nat /\ t.used \in Nat /\ t.off \in OffType /\ t.twins \subseteq Strs
         /\ t.refused \in BOOLEAN /\ t.slack \in BOOLEAN
         /\ t.lost \in {"no", "dangling", "overwritten"}
         /\ t.kept \in Seq(Seq(Bytes)) /\ Len(t.kept) \in Nat
<1>1. t.mem \in Seq(Bytes) /\ t.kept \in Seq(Seq(Bytes))
  BY DEF TextType
<1>2. Len(t.mem) \in Nat /\ DOMAIN t.mem = 1 .. Len(t.mem) /\ Len(t.kept) \in Nat
  BY <1>1
<1>3. /\ t.live \in BOOLEAN /\ t.claimed \in Nat /\ t.used \in Nat /\ t.off \in OffType
      /\ t.twins \subseteq Strs /\ t.refused \in BOOLEAN /\ t.slack \in BOOLEAN
      /\ t.lost \in {"no", "dangling", "overwritten"}
  BY DEF TextType
<1> QED BY <1>1, <1>2, <1>3

\* All but the block.
SameRest(t, g) ==
  /\ g.used = t.used /\ g.off = t.off /\ g.twins = t.twins /\ g.slack = t.slack
  /\ g.lost = t.lost /\ g.kept = t.kept

\* What realloc() hands out, with what was added cleared.
GrownText(t, g, old, new) ==
  /\ g.claimed = new /\ g.live = TRUE /\ g.refused = t.refused /\ Len(g.mem) = new
  /\ \A i \in 1 .. new : g.mem[i] = IF i > old THEN 0 ELSE IF i <= Len(t.mem) THEN t.mem[i] ELSE Junk

LEMMA ReallocIs ==
  ASSUME NEW t, t \in TextType, NEW n \in Nat, NEW g \in S!Realloc(t, n),
         NEW old, NEW new, old = BlockAlign(t.claimed), new = WantRealloc(old, n)
  PROVE  /\ g \in TextType /\ SameRest(t, g)
         /\ \/ new = 0 /\ g = t
            \/ new # 0 /\ new <= HeapMax /\ GrownText(t, g, old, new)
            \/ new # 0 /\ g.refused = TRUE /\ g.mem = t.mem
<1> DEFINE mem == [i \in 1 .. new |-> IF i > old THEN 0 ELSE IF i <= Len(t.mem) THEN t.mem[i] ELSE Junk]
           granted == [t EXCEPT !.live = TRUE, !.claimed = new, !.mem = mem]
           denied  == [t EXCEPT !.claimed = new, !.refused = TRUE]
<1>0. /\ old \in Nat /\ new \in Nat
  <2>1. old \in Nat
    BY TextFacts, BlockAlignShape DEF Shape
  <2> QED BY <2>1, WantReallocShape
<1>1. \/ new = 0 /\ g = t
      \/ new # 0 /\ new <= HeapMax /\ g = granted
      \/ new # 0 /\ g = denied
  <2>1. S!Off!BlockAlign(t.claimed) = old /\ S!Off!WantRealloc(old, n) = new
    BY SameArithmetic
  <2>2. granted = [t EXCEPT !.live = TRUE, !.claimed = new,
                     !.mem = [i \in 1 .. new |-> IF i > old THEN S!Nul
                                                 ELSE IF i <= Len(@) THEN @[i] ELSE Junk]]
    BY DEF S!Nul
  <2> HIDE DEF granted, mem, denied
  <2>3. g \in IF new = 0 THEN {t}
              ELSE (IF new <= HeapMax THEN {granted} ELSE {})
                   \cup (IF ~t.live \/ ReallocMayFail \/ new > HeapMax THEN {denied} ELSE {})
    BY <2>1, <2>2 DEF S!Realloc, denied
  <2> QED BY <2>3, Zenon
<1>2. CASE new = 0 /\ g = t
  BY <1>2 DEF SameRest
<1>3. CASE new # 0 /\ new <= HeapMax /\ g = granted
  <2>1. mem \in Seq(Bytes) /\ Len(mem) = new
    <3>1. \A i \in 1 .. Len(t.mem) : t.mem[i] \in Bytes
      BY TextFacts
    <3>2. \A i \in 1 .. new : mem[i] \in Bytes
      <4>1. 0 \in Bytes /\ Junk \in Bytes
        BY DEF Bytes
      <4>2. \A i \in 1 .. new : i <= Len(t.mem) => i \in 1 .. Len(t.mem)
        BY TextFacts
      <4> QED BY <3>1, <4>1, <4>2
    <3>3. mem \in [1 .. new -> Bytes]
      BY <3>2
    <3> HIDE DEF mem
    <3> QED BY <3>3, <1>0
  <2>2. \A i \in 1 .. new : mem[i] = IF i > old THEN 0 ELSE IF i <= Len(t.mem) THEN t.mem[i] ELSE Junk
    OBVIOUS
  <2> HIDE DEF mem
  <2>3. g \in TextType
    BY <2>1, <1>0, <1>3 DEF TextType
  <2>4. g.mem = mem /\ g.claimed = new /\ g.live = TRUE /\ g.refused = t.refused
    BY <1>3 DEF TextType
  <2>6. GrownText(t, g, old, new)
    BY <2>1, <2>2, <2>4 DEF GrownText
  <2>5. SameRest(t, g)
    BY <1>3 DEF TextType, SameRest
  <2> QED BY <1>3, <2>3, <2>5, <2>6
<1>4. CASE new # 0 /\ g = denied
  <2>1. g \in TextType
    BY <1>0, <1>4 DEF TextType
  <2>2. g.refused = TRUE /\ g.mem = t.mem
    BY <1>4 DEF TextType
  <2>3. SameRest(t, g)
    BY <1>4 DEF TextType, SameRest
  <2> QED BY <1>4, <2>1, <2>2, <2>3
<1> QED BY <1>1, <1>2, <1>3, <1>4

\* A list whose block grows, or is refused to, is otherwise what it was.
LEMMA ReallocFrame ==
  ASSUME NEW t, Frame(t), NEW n \in Nat, NEW g \in S!Realloc(t, n)
  PROVE  Frame(g) /\ SameRest(t, g) /\ (S!Trusted(g) => S!Trusted(t))
<1> DEFINE old == BlockAlign(t.claimed)
           new == WantRealloc(old, n)
<1>0. t \in TextType /\ Small(Len(t.mem)) /\ OffFrame(t.off)
  BY DEF Frame
<1>1. /\ g \in TextType /\ SameRest(t, g)
      /\ \/ new = 0 /\ g = t
         \/ new # 0 /\ new <= HeapMax /\ GrownText(t, g, old, new)
         \/ new # 0 /\ g.refused = TRUE /\ g.mem = t.mem
  <2> HIDE DEF old, new
  <2>1. old = BlockAlign(t.claimed) /\ new = WantRealloc(old, n)
    BY DEF old, new
  <2> QED BY <1>0, <2>1, ReallocIs
<1>2. ASSUME new # 0, new <= HeapMax PROVE Small(new)
  <2>1. old \in Nat
    BY <1>0, TextFacts, BlockAlignShape DEF Shape
  <2> HIDE DEF old
  <2>2. Shape(new)
    BY <2>1, <1>2, WantReallocShape
  <2> HIDE DEF new
  <2>3. Half(new) /\ \E m \in Nat : new = BlockSize * m
    BY <2>2, <1>2, TextConstants DEF Shape
  <2> QED BY <2>3, HalfSmall
<1> HIDE DEF new
<1>3. Small(Len(g.mem))
  BY <1>0, <1>1, <1>2 DEF GrownText
<1>4. S!Trusted(g) => S!Trusted(t)
  BY <1>1 DEF SameRest, GrownText, S!Trusted, S!Refused
<1> QED BY <1>0, <1>1, <1>3, <1>4 DEF Frame, SameRest

SameBytes(t, g, n) == \A j \in 1 .. n : g.mem[j] = t.mem[j]

LEMMA PlacedIn ==
  ASSUME NEW t, NEW g, NEW i, Placed(t, i), NEW n \in Nat, n = t.used, t.used <= g.used, g.used \in Nat,
         Len(t.kept[i]) \in Nat,
         g.off.mem[i] = t.off.mem[i], g.kept[i] = t.kept[i],
         SameBytes(t, g, n)
  PROVE  Placed(g, i)
<1> DEFINE o == t.off.mem[i]
<1>1. o \in Nat /\ o + Len(t.kept[i]) + 1 <= n
  BY DEF Placed
<1> HIDE DEF o
<1>2. ASSUME NEW j \in 1 .. Len(t.kept[i]) PROVE g.mem[o + j] = t.kept[i][j]
  <2>1. o + j \in 1 .. n
    BY <1>1
  <2>2. t.mem[o + j] = t.kept[i][j]
    BY DEF Placed, o
  <2> QED BY <2>1, <2>2 DEF SameBytes
<1>3. g.mem[o + Len(t.kept[i]) + 1] = 0
  <2>1. o + Len(t.kept[i]) + 1 \in 1 .. n
    BY <1>1
  <2>2. t.mem[o + Len(t.kept[i]) + 1] = 0
    BY DEF Placed, o
  <2> QED BY <2>1, <2>2 DEF SameBytes
<1>4. o + Len(t.kept[i]) + 1 <= g.used
  BY <1>1
<1> QED BY <1>1, <1>2, <1>3, <1>4 DEF Placed, o

\* A sound list whose block grows is sound, and there is room for what the
\* block was to grow by.
LEMMA ReallocSound ==
  ASSUME NEW t, Frame(t), Sound(t), NEW n \in Nat \ {0}, Small(n - 1),
         NEW g \in S!Realloc(t, n), S!Trusted(g)
  PROVE  /\ Sound(g) /\ g.live = TRUE
         /\ \E k \in Nat : Len(g.mem) = BlockSize * k /\ Half(BlockSize * k)
         /\ t.used + n <= Len(g.mem)
<1> DEFINE old == BlockAlign(t.claimed)
           new == WantRealloc(old, n)
<1>0. /\ t \in TextType /\ Small(Len(t.mem)) /\ OffFrame(t.off) /\ t.claimed = Len(t.mem)
      /\ t.used <= Len(t.mem) /\ Len(t.mem) \in Nat /\ t.used \in Nat
  BY TextFacts DEF Frame, Sound
<1>1. PICK m \in Nat : t.claimed = BlockSize * m
  BY DEF Sound
<1>2. Half(BlockSize * m) /\ old = BlockSize * m
  <2>1. BlockSize * m \in Nat /\ Small(BlockSize * m) /\ Half(BlockSize * m)
    <3> DEFINE z == BlockSize * m
    <3>1. z \in Nat /\ Small(z)
      BY <1>0, <1>1
    <3> HIDE DEF z
    <3>2. Half(z)
      BY <3>1, TextConstants DEF Small, Half
    <3> QED BY <3>1, <3>2 DEF z
  <2>2. BlockSize * m <= BlockAlign(BlockSize * m) /\ BlockAlign(BlockSize * m) <= BlockSize * m
        /\ BlockAlign(BlockSize * m) \in Nat
    BY <2>1, AlignExact
  <2>3. BlockAlign(BlockSize * m) = BlockSize * m
    BY <2>1, <2>2
  <2> QED BY <1>1, <2>1, <2>3
<1>3. PICK k \in Nat : /\ BlockSize * k \in Nat /\ BlockSize * m + n <= BlockSize * k
                       /\ new = IF Half(BlockSize * k) THEN BlockSize * k ELSE SizeSpan - IntSpan + BlockSize * k
  <2>1. BlockSize * m + n + BlockSize <= IntSpan
    <3> DEFINE z == BlockSize * m
    <3>1. z \in Nat /\ Small(z) /\ Small(n - 1)
      BY <1>0, <1>1
    <3> HIDE DEF z
    <3>2. z + n + BlockSize <= IntSpan
      BY <3>1, TextConstants DEF Small
    <3> QED BY <3>2 DEF z
  <2> HIDE DEF old
  <2> QED BY <1>2, <2>1, WantsExact
<1>4. g \in TextType /\ SameRest(t, g)
  <2> HIDE DEF old, new
  <2>1. old = BlockAlign(t.claimed) /\ new = WantRealloc(old, n) /\ n \in Nat
    BY DEF old, new
  <2> QED BY <1>0, <2>1, ReallocIs
<1>5. /\ new # 0 /\ new <= HeapMax /\ g.claimed = new /\ g.live = TRUE
      /\ Len(g.mem) = new
      /\ \A i \in 1 .. new : g.mem[i] = IF i > old THEN 0 ELSE IF i <= Len(t.mem) THEN t.mem[i] ELSE Junk
  <2>1. new # 0
    <3> DEFINE z == BlockSize * k
               y == BlockSize * m
    <3>1. z \in Nat /\ y \in Nat /\ y + n <= z /\ new = IF Half(z) THEN z ELSE SizeSpan - IntSpan + z
      BY <1>0, <1>1, <1>3
    <3> HIDE DEF z, y, new
    <3> QED BY <3>1, TextConstants
  <2>2. g.refused # TRUE
    BY DEF S!Trusted, S!Refused
  <2> HIDE DEF old, new
  <2>3. old = BlockAlign(t.claimed) /\ new = WantRealloc(old, n) /\ n \in Nat
    BY DEF old, new
  <2>4. new <= HeapMax /\ GrownText(t, g, old, new)
    BY <1>0, <2>1, <2>2, <2>3, ReallocIs
  <2> QED BY <2>1, <2>4 DEF GrownText
<1>6. new = BlockSize * k /\ Half(BlockSize * k)
  <2> DEFINE z == BlockSize * k
  <2>1. z \in Nat /\ new = IF Half(z) THEN z ELSE SizeSpan - IntSpan + z
    BY <1>3
  <2> HIDE DEF z, new
  <2>2. new = z /\ Half(z)
    BY <2>1, <1>5, TextConstants
  <2> QED BY <2>2 DEF z
<1>7. old = Len(t.mem) /\ old + n <= new /\ new \in Nat
  <2> HIDE DEF old, new
  <2> QED BY <1>0, <1>1, <1>2, <1>3, <1>6
<1> HIDE DEF old, new
<1>8. t.used + n <= Len(g.mem)
  BY <1>0, <1>5, <1>7
<1>9. Sound(g)
  <2>0. \A i \in 1 .. new : /\ i <= Len(t.mem) => g.mem[i] = t.mem[i]
                            /\ i > Len(t.mem) => g.mem[i] = 0
    BY <1>0, <1>5, <1>7
  <2>1. g.claimed = Len(g.mem) /\ g.used <= Len(g.mem) /\ \E j \in Nat : g.claimed = BlockSize * j
    BY <1>0, <1>4, <1>5, <1>6, <1>8 DEF SameRest
  <2>2. \A i \in g.used + 1 .. Len(g.mem) : g.mem[i] = 0
    <3>1. ASSUME NEW i \in g.used + 1 .. Len(g.mem) PROVE g.mem[i] = 0
      <4>1. i \in 1 .. new /\ g.used = t.used
        BY <1>0, <1>4, <1>5 DEF SameRest
      <4>2. CASE i <= Len(t.mem)
        <5>1. i \in t.used + 1 .. Len(t.mem)
          BY <1>0, <4>1, <4>2
        <5> QED BY <5>1, <4>1, <4>2, <2>0 DEF Sound
      <4>3. CASE i > Len(t.mem)
        BY <4>1, <4>3, <2>0
      <4> QED BY <1>0, <4>1, <4>2, <4>3
    <3> QED BY <3>1
  <2>3. ASSUME NEW i \in 1 .. Len(g.kept) PROVE Clean(g.kept[i]) /\ Placed(g, i)
    <3>1. i \in 1 .. Len(t.kept) /\ g.kept[i] = t.kept[i] /\ g.off.mem[i] = t.off.mem[i] /\ g.used = t.used
      BY <1>4 DEF SameRest
    <3>2. Clean(t.kept[i]) /\ Placed(t, i) /\ Len(t.kept[i]) \in Nat
      BY <3>1 DEF Sound, Clean
    <3>3. SameBytes(t, g, t.used)
      BY <1>0, <1>5, <1>7, <2>0 DEF SameBytes
    <3>5. t.used <= g.used /\ g.used \in Nat
      BY <1>0, <3>1
    <3>4. Placed(g, i)
      BY <1>0, <3>1, <3>2, <3>3, <3>5, PlacedIn
    <3> QED BY <3>1, <3>2, <3>4
  <2>4. /\ Len(g.kept) = g.off.used /\ (g.off.used > 0 => g.off.mem[1] = 0) /\ (g.off.used = 0 => g.used = 0)
        /\ g.off.used <= g.used
        /\ S!KernelSize(g.kept) <= S!FullSize(g)
    BY <1>4 DEF SameRest, Sound, S!FullSize, S!CountOf
  <2> QED BY <2>1, <2>2, <2>3, <2>4 DEF Sound
<1> QED BY <1>5, <1>6, <1>8, <1>9

SameOffsets(t, g) ==
  \A i \in 1 .. Len(t.off.mem) : i # t.off.used + 1 => g.off.mem[i] = t.off.mem[i]

\* What an append, whole or failed, does to all the rest of a list.
Grew(t, g, s, ok) ==
  /\ g.twins = t.twins /\ g.lost = t.lost
  /\ S!Trusted(g) => S!Trusted(t)
  /\ ok => g.kept = Append(t.kept, s) /\ g.off.used = t.off.used + 1
  /\ ~ok => g.kept = t.kept /\ g.off = t.off
  /\ SameOffsets(t, g) /\ Len(t.off.mem) <= Len(g.off.mem)

LEMMA BytesOf ==
  ASSUME NEW n \in Nat, NEW f \in [1 .. n -> Bytes]
  PROVE  f \in Seq(Bytes) /\ Len(f) = n
OBVIOUS

LEMMA WrittenIs ==
  ASSUME NEW t, t \in TextType, NEW off \in OffType, NEW s \in Seq(Bytes), NEW used \in Nat
  PROVE  LET g == S!Written(t, off, s, used)
         IN  /\ g \in TextType /\ g.off = off /\ g.used = used /\ g.kept = Append(t.kept, s)
             /\ g.claimed = t.claimed /\ g.twins = t.twins /\ g.lost = t.lost
             /\ g.slack = t.slack /\ g.refused = t.refused
             /\ Len(g.mem) = Len(t.mem)
             /\ \A i \in 1 .. Len(t.mem) :
                  g.mem[i] = IF t.used < i /\ i <= t.used + Len(s) THEN s[i - t.used] ELSE t.mem[i]
<1> DEFINE g == S!Written(t, off, s, used)
           mem == [i \in DOMAIN t.mem |-> IF i \in t.used + 1 .. t.used + Len(s) THEN s[i - t.used] ELSE t.mem[i]]
<1>0. t.mem \in Seq(Bytes) /\ Len(t.mem) \in Nat /\ DOMAIN t.mem = 1 .. Len(t.mem)
      /\ t.used \in Nat /\ t.kept \in Seq(Seq(Bytes)) /\ Len(s) \in Nat
  BY TextFacts
<1>1. g = [t EXCEPT !.off = off, !.used = used, !.kept = Append(t.kept, s), !.mem = mem]
  BY DEF TextType, S!Written
<1>2. mem \in Seq(Bytes) /\ Len(mem) = Len(t.mem)
  <2>1. ASSUME NEW i \in 1 .. Len(t.mem) PROVE mem[i] \in Bytes
    <3>1. CASE i \in t.used + 1 .. t.used + Len(s)
      <4>1. i - t.used \in 1 .. Len(s)
        BY <1>0, <3>1
      <4>2. s[i - t.used] \in Bytes
        BY <4>1
      <4> QED BY <1>0, <3>1, <4>2
    <3>2. CASE i \notin t.used + 1 .. t.used + Len(s)
      BY <1>0, <3>2
    <3> QED BY <3>1, <3>2
  <2>2. mem \in [1 .. Len(t.mem) -> Bytes]
    BY <1>0, <2>1
  <2> HIDE DEF mem
  <2> QED BY <2>2, <1>0, BytesOf
<1>3. \A i \in 1 .. Len(t.mem) :
        mem[i] = IF t.used < i /\ i <= t.used + Len(s) THEN s[i - t.used] ELSE t.mem[i]
  BY <1>0
<1> HIDE DEF mem, g
<1>4. Append(t.kept, s) \in Seq(Seq(Bytes))
  BY <1>0
<1>5. g \in TextType /\ g.mem = mem
  BY <1>1, <1>2, <1>4 DEF TextType
<1>6. /\ g.off = off /\ g.used = used /\ g.kept = Append(t.kept, s)
      /\ g.claimed = t.claimed /\ g.twins = t.twins /\ g.lost = t.lost
      /\ g.slack = t.slack /\ g.refused = t.refused
  BY <1>1 DEF TextType
<1> QED BY <1>2, <1>3, <1>5, <1>6 DEF g

\* The two outcomes of what is left to do.
StoreWith(t, s, used, a, r) ==
  /\ a.ok \in BOOLEAN /\ (a.ok => OffAdded(t.off, a.vec, t.used))
  /\ a.ok /\ a.bad = "none" => a.vec.used <= Len(a.vec.mem)
  /\ ~a.vec.denied => a.bad = "none"
  /\ \/ a.ok /\ r.ok = TRUE /\ r.text = S!Written(t, a.vec, s, used)
        /\ r.bad = IF a.bad = "none" THEN S!Overrun(t, s) ELSE a.bad
     \/ ~a.ok /\ r.ok = FALSE /\ r.text = t /\ r.bad = a.bad /\ a.vec = t.off

LEMMA StoredIs ==
  ASSUME NEW t, Frame(t), t.off.used < OffMax, NEW s, NEW used, NEW r \in S!Stored(t, s, used)
  PROVE  \E a : StoreWith(t, s, used, a, r)
<1>0. t \in TextType /\ OffFrame(t.off) /\ t.used \in Bytes
  BY TextFacts DEF Frame, Bytes
<1>1. PICK a \in S!AddOffset(t.off, t.used) :
        r = IF a.ok
            THEN [text |-> S!Written(t, a.vec, s, used), ok |-> TRUE,
                  bad |-> IF a.bad = "none" THEN S!Overrun(t, s) ELSE a.bad]
            ELSE [text |-> [t EXCEPT !.off = a.vec], ok |-> FALSE, bad |-> a.bad]
  BY DEF S!Stored
<1>2. a.ok \in BOOLEAN /\ (a.ok => OffAdded(t.off, a.vec, t.used)) /\ (~a.ok => a.vec = t.off)
      /\ (~a.vec.denied => a.bad = "none")
      /\ (a.ok /\ a.bad = "none" => a.vec.used <= Len(a.vec.mem))
  <2> DEFINE v == t.off
             x == t.used
  <2>1. OffFrame(v) /\ v.used < OffMax /\ x \in Bytes /\ a \in S!AddOffset(v, x)
    BY <1>0
  <2> HIDE DEF v, x
  <2>2. a.ok \in BOOLEAN /\ (a.ok => OffAdded(v, a.vec, x)) /\ (~a.ok => a.vec = v)
        /\ (~a.vec.denied => a.bad = "none")
        /\ (a.ok /\ a.bad = "none" => a.vec.used <= Len(a.vec.mem))
      /\ (a.ok /\ a.bad = "none" => a.vec.used <= Len(a.vec.mem))
    BY <2>1, AddsOffset
  <2> QED BY <2>2 DEF v, x
<1>3. CASE a.ok
  <2>1. r.ok = TRUE /\ r.text = S!Written(t, a.vec, s, used)
        /\ r.bad = IF a.bad = "none" THEN S!Overrun(t, s) ELSE a.bad
    BY <1>1, <1>3
  <2> QED BY <1>2, <1>3, <2>1 DEF StoreWith
<1>4. CASE ~a.ok
  <2>1. [t EXCEPT !.off = a.vec] = t
    BY <1>0, <1>2, <1>4 DEF TextType
  <2>2. r.ok = FALSE /\ r.text = t /\ r.bad = a.bad
    BY <1>1, <1>4, <2>1
  <2> QED BY <1>2, <1>4, <2>2 DEF StoreWith
<1> QED BY <1>2, <1>3, <1>4

LEMMA StoredFrame ==
  ASSUME NEW t, Frame(t), t.off.used < OffMax, NEW s \in Seq(Bytes), NEW used \in Nat,
         NEW r \in S!Stored(t, s, used)
  PROVE  /\ Frame(r.text) /\ r.ok \in BOOLEAN /\ Grew(t, r.text, s, r.ok)
         /\ Offsets(t.off) /\ r.bad = "none" => Offsets(r.text.off)
<1>0. t \in TextType /\ Small(Len(t.mem)) /\ OffFrame(t.off) /\ t.used \in Nat
  BY TextFacts DEF Frame
<1>1. PICK a : StoreWith(t, s, used, a, r)
  BY StoredIs
<1>2. CASE a.ok
  <2> DEFINE g == r.text
  <2>1. r.ok = TRUE /\ g = S!Written(t, a.vec, s, used) /\ OffAdded(t.off, a.vec, t.used) /\ OffFrame(a.vec)
    BY <1>1, <1>2 DEF OffAdded, StoreWith
  <2>2. a.vec \in OffType /\ a.vec.used = t.off.used + 1
    BY <2>1 DEF OffFrame, OffAdded
  <2> HIDE DEF g
  <2>3. /\ g \in TextType /\ g.off = a.vec /\ g.used = used /\ g.kept = Append(t.kept, s)
        /\ g.twins = t.twins /\ g.lost = t.lost
        /\ g.slack = t.slack /\ g.refused = t.refused
        /\ Len(g.mem) = Len(t.mem)
    BY <1>0, <2>1, <2>2, WrittenIs
  <2>4. Frame(g)
    BY <1>0, <2>1, <2>3 DEF Frame
  <2>5. S!Trusted(g) => S!Trusted(t)
    BY <2>1, <2>3 DEF S!Trusted, S!Refused, OffAdded
  <2>6. SameOffsets(t, g) /\ Len(t.off.mem) <= Len(g.off.mem)
    BY <2>1, <2>3 DEF SameOffsets, OffAdded
  <2>7. ASSUME Offsets(t.off), r.bad = "none" PROVE Offsets(g.off)
    <3>1. a.bad = "none"
      BY <1>1, <1>2, <2>7 DEF StoreWith
    <3>2. a.vec.used <= Len(a.vec.mem)
      BY <1>1, <1>2, <3>1 DEF StoreWith
    <3>3. t.off.used \in Nat
      BY <1>0, OffFacts
    <3>4. ASSUME NEW i \in 1 .. a.vec.used PROVE a.vec.mem[i] \in Nat
      <4>1. CASE i = a.vec.used
        BY <1>0, <2>1, <3>2, <4>1 DEF OffAdded
      <4>2. CASE i # a.vec.used
        <5>1. i \in 1 .. t.off.used
          BY <2>2, <3>3, <4>2
        <5>2. i \in 1 .. Len(t.off.mem) /\ t.off.mem[i] \in Nat
          <6>1. t.off.used <= Len(t.off.mem) /\ Len(t.off.mem) \in Nat
            BY <1>0, <2>7, OffFacts DEF Offsets
          <6> QED BY <2>7, <3>3, <5>1, <6>1 DEF Offsets
        <5> QED BY <2>1, <4>2, <5>1, <5>2 DEF OffAdded
      <4> QED BY <4>1, <4>2
    <3> QED BY <2>3, <3>2, <3>4 DEF Offsets
  <2> QED BY <2>1, <2>2, <2>3, <2>4, <2>5, <2>6, <2>7 DEF Grew, g
<1>3. CASE ~a.ok
  <2>1. r.ok = FALSE /\ r.text = t
    BY <1>1, <1>3 DEF StoreWith
  <2>2. Len(t.off.mem) <= Len(t.off.mem)
    BY <1>0, OffFacts
  <2> QED BY <1>0, <2>1, <2>2 DEF Grew, SameOffsets, Frame
<1>4. a.ok \in BOOLEAN
  BY <1>1 DEF StoreWith
<1> QED BY <1>2, <1>3, <1>4

\* With room for the string and its NUL, a sound list that can be trusted
\* afterwards is sound again.
LEMMA StoredSound ==
  ASSUME NEW t, Frame(t), Sound(t), t.off.used < OffMax, NEW s, Clean(s), NEW used \in Nat,
         t.used + Len(s) + 1 <= used, used <= Len(t.mem),
         NEW r \in S!Stored(t, s, used), S!Trusted(r.text)
  PROVE  Sound(r.text) /\ r.bad = "none"
<1>0. /\ t \in TextType /\ Small(Len(t.mem)) /\ OffFrame(t.off)
      /\ t.used \in Nat /\ Len(t.mem) \in Nat /\ t.kept \in Seq(Seq(Bytes)) /\ Len(t.kept) \in Nat
      /\ t.off.used \in Nat /\ t.off.used = Len(t.kept)
      /\ s \in Seq(Bytes) /\ Len(s) \in Nat
  BY TextFacts, OffFacts DEF Frame, Clean, Sound
<1>1. PICK a : StoreWith(t, s, used, a, r)
  BY StoredIs
<1>2. CASE ~a.ok
  <2>1. r.text = t /\ r.bad = a.bad /\ a.vec = t.off
    BY <1>1, <1>2 DEF StoreWith
  <2>2. a.bad = "none"
    BY <1>1, <2>1 DEF StoreWith, S!Trusted, S!Refused
  <2> QED BY <2>1, <2>2
<1>3. CASE a.ok
  <2> DEFINE g == r.text
             c == t.off.used
  <2>1. g = S!Written(t, a.vec, s, used) /\ OffAdded(t.off, a.vec, t.used) /\ OffFrame(a.vec)
    BY <1>1, <1>3 DEF OffAdded, StoreWith
  <2>2. a.vec \in OffType /\ a.vec.used = c + 1
    BY <2>1 DEF OffFrame, OffAdded
  <2> HIDE DEF g
  <2>3. /\ g \in TextType /\ g.off = a.vec /\ g.used = used /\ g.kept = Append(t.kept, s)
        /\ g.claimed = t.claimed
        /\ Len(g.mem) = Len(t.mem)
        /\ \A i \in 1 .. Len(t.mem) :
             g.mem[i] = IF t.used < i /\ i <= t.used + Len(s) THEN s[i - t.used] ELSE t.mem[i]
    BY <1>0, <2>1, <2>2, WrittenIs
  <2>4. ~a.vec.denied
    BY <2>3 DEF S!Trusted, S!Refused, g
  <2>5. /\ a.vec.mem[c + 1] = t.used
        /\ \A i \in 1 .. c : a.vec.mem[i] = t.off.mem[i]
    <3>1. ~t.off.denied
      BY <2>1, <2>4 DEF OffAdded
    <3>2. c <= Len(t.off.mem)
      BY <1>0, <3>1, OffFacts DEF OffFrame
    <3>3. Len(t.off.mem) \in Nat
      BY <1>0, OffFacts
    <3>4. \A i \in 1 .. c : i \in 1 .. Len(t.off.mem) /\ i # c + 1
      <4>1. c \in Nat
        BY <1>0
      <4> HIDE DEF c
      <4> QED BY <3>2, <3>3, <4>1
    <3> QED BY <2>1, <2>2, <2>4, <3>4 DEF OffAdded
  <2>6. r.bad = "none"
    <3>1. a.bad = "none"
      BY <1>1, <2>4 DEF StoreWith
    <3>2. S!Overrun(t, s) = "none"
      BY <1>0 DEF S!Overrun
    <3> QED BY <1>1, <1>3, <3>1, <3>2 DEF StoreWith
  <2>7. /\ Len(g.kept) = c + 1 /\ g.kept[c + 1] = s
        /\ \A i \in 1 .. c : g.kept[i] = t.kept[i]
    <3>1. Append(t.kept, s) \in Seq(Seq(Bytes)) /\ Len(Append(t.kept, s)) = Len(t.kept) + 1
          /\ Append(t.kept, s)[Len(t.kept) + 1] = s
          /\ \A i \in 1 .. Len(t.kept) : Append(t.kept, s)[i] = t.kept[i]
      BY <1>0
    <3> QED BY <1>0, <2>3, <3>1
  <2>8. \A i \in g.used + 1 .. Len(g.mem) : g.mem[i] = 0
    <3>1. ASSUME NEW i \in g.used + 1 .. Len(g.mem) PROVE g.mem[i] = 0
      <4>1. i \in 1 .. Len(t.mem) /\ i \in t.used + 1 .. Len(t.mem) /\ ~(i <= t.used + Len(s))
        BY <1>0, <2>3, <3>1
      <4>2. t.mem[i] = 0
        BY <4>1 DEF Sound
      <4> QED BY <2>3, <4>1, <4>2
    <3> QED BY <3>1
  <2>9. ASSUME NEW i \in 1 .. Len(g.kept) PROVE Clean(g.kept[i]) /\ Placed(g, i)
    <3>1. i \in 1 .. c + 1 /\ c \in Nat
      BY <1>0, <2>7
    <3>2. CASE i = c + 1
      <4>1. g.off.mem[i] = t.used /\ g.kept[i] = s
        BY <2>3, <2>5, <2>7, <3>2
      <4>2. ASSUME NEW j \in 1 .. Len(s) PROVE g.mem[t.used + j] = s[j]
        <5>1. t.used + j \in 1 .. Len(t.mem) /\ t.used < t.used + j /\ t.used + j <= t.used + Len(s)
              /\ (t.used + j) - t.used = j
          BY <1>0
        <5> QED BY <2>3, <5>1
      <4>3. g.mem[t.used + Len(s) + 1] = 0
        <5> DEFINE e == t.used + Len(s) + 1
        <5>1. e \in 1 .. Len(t.mem) /\ e \in t.used + 1 .. Len(t.mem) /\ ~(e <= t.used + Len(s))
          BY <1>0
        <5> HIDE DEF e
        <5>2. t.mem[e] = 0
          BY <5>1 DEF Sound
        <5>3. g.mem[e] = 0
          BY <2>3, <5>1, <5>2
        <5> QED BY <5>3 DEF e
      <4>4. t.used \in Nat /\ t.used + Len(s) + 1 <= g.used
        BY <1>0, <2>3
      <4>5. Placed(g, i)
        BY <4>1, <4>2, <4>3, <4>4 DEF Placed
      <4> QED BY <4>1, <4>5
    <3>3. CASE i \in 1 .. c
      <4>1. g.kept[i] = t.kept[i] /\ g.off.mem[i] = t.off.mem[i] /\ i \in 1 .. Len(t.kept)
        BY <1>0, <2>3, <2>5, <2>7, <3>3
      <4>2. Clean(t.kept[i]) /\ Placed(t, i)
        BY <4>1 DEF Sound
      <4>3. SameBytes(t, g, t.used)
        <5>1. ASSUME NEW j \in 1 .. t.used PROVE g.mem[j] = t.mem[j]
          <6>1. j \in 1 .. Len(t.mem) /\ ~(t.used < j)
            BY <1>0
          <6> QED BY <2>3, <6>1
        <5> QED BY <5>1 DEF SameBytes
      <4>4. t.used <= g.used /\ g.used \in Nat /\ Len(t.kept[i]) \in Nat
        BY <1>0, <2>3, <4>2 DEF Clean
      <4>5. Placed(g, i)
        BY <1>0, <4>1, <4>2, <4>3, <4>4, PlacedIn
      <4> QED BY <4>1, <4>2, <4>5
    <3> QED BY <3>1, <3>2, <3>3
  <2>10. g.off.mem[1] = 0
    <3>1. CASE c = 0
      <4>1. t.used = 0
        BY <3>1 DEF Sound
      <4> QED BY <2>3, <2>5, <3>1, <4>1
    <3>2. CASE c > 0
      <4>1. 1 \in 1 .. c
        BY <1>0, <3>2
      <4>2. t.off.mem[1] = 0
        BY <3>2 DEF Sound
      <4> QED BY <2>3, <2>5, <4>1, <4>2
    <3> QED BY <1>0, <3>1, <3>2
  <2>11. S!KernelSize(g.kept) <= S!FullSize(g)
    <3> DEFINE p == c * Word
               p1 == (c + 1) * Word
               size == S!KernelSize(t.kept)
    <3>1. p \in Nat /\ p1 = p + Word /\ Word \in Nat
      <4>1. Word \in Nat
        BY TextConstants
      <4>2. \A x, y \in Nat : x * y \in Nat /\ (x + 1) * y = x * y + y
        BY Z3
      <4> QED BY <1>0, <4>1, <4>2
    <3>2. size \in Nat /\ S!KernelSize(g.kept) = size + Len(s) + 1 + Word
      BY <1>0, <2>3, KernelAppend
    <3>3. size <= t.used + p
      BY DEF Sound, S!FullSize, S!CountOf
    <3> HIDE DEF p, p1, size
    <3>4. S!KernelSize(g.kept) <= used + p1
      BY <1>0, <3>1, <3>2, <3>3
    <3>5. S!FullSize(g) = used + p1
      BY <2>2, <2>3 DEF S!FullSize, S!CountOf, p1
    <3> QED BY <3>4, <3>5
  <2>12. /\ g.claimed = Len(g.mem) /\ g.used <= Len(g.mem) /\ \E m \in Nat : g.claimed = BlockSize * m
         /\ Len(g.kept) = g.off.used /\ ~(g.off.used = 0)
    BY <1>0, <2>2, <2>3, <2>7 DEF Sound
  <2>14. g.off.used <= g.used
    <3>1. c <= t.used
      BY DEF Sound
    <3> QED BY <1>0, <2>2, <2>3, <3>1
  <2>13. Sound(g)
    BY <2>8, <2>9, <2>10, <2>11, <2>12, <2>14 DEF Sound
  <2> QED BY <2>6, <2>13 DEF g
<1>4. a.ok \in BOOLEAN
  BY <1>1 DEF StoreWith
<1> QED BY <1>2, <1>3, <1>4

LEMMA RoundNat ==
  ASSUME NEW x \in Nat, NEW b \in Nat \ {0}
  PROVE  RoundBy(x, b) \in Nat
<1>0. IntSpan \in Nat \ {0} /\ SizeSpan \in Nat /\ IntSpan <= SizeSpan
  BY TextConstants
<1>1. ASSUME NEW y \in Nat PROVE FromInt(y) \in Nat
  BY <1>0 DEF FromInt
<1>2. /\ x \div b \in Nat /\ x % b \in Nat /\ x = b * (x \div b) + (x % b)
      /\ b * (x \div b) \in Nat
  <2>1. x \div b \in Nat /\ x % b \in Nat /\ x = b * (x \div b) + (x % b)
    BY DivMod
  <2> QED BY <2>1, MulMono
<1> DEFINE down == x - (x % b)
<1>3. down \in Nat /\ down + b \in Nat
  BY <1>2
<1> HIDE DEF down
<1>4. (IF (IF x = down THEN x ELSE down + b) < SizeSpan
       THEN (IF x = down THEN x ELSE down + b) ELSE down) \in Nat
  BY <1>3
<1> QED BY <1>1, <1>4 DEF RoundBy, down

\* How far a string reaches: no less than its bytes and its NUL take, and no
\* more than a block with room for them, unless that is more than there can be.
LEMMA StringReach ==
  ASSUME NEW p \in Nat, Small(p), NEW n \in Nat, Small(n)
  PROVE  LET used == S!Off!RoundBy((p + n + 1) % SizeSpan, Word)
         IN  /\ used \in Nat /\ p + n + 1 <= used
             /\ \A k \in Nat : p + n + 1 <= BlockSize * k /\ Half(BlockSize * k) => used <= BlockSize * k
<1> DEFINE x == p + n + 1
           used == S!Off!RoundBy(x % SizeSpan, Word)
<1>0. /\ BlockSize \in Nat \ {0} /\ Word \in Nat \ {0} /\ IntSpan \in Nat /\ SizeSpan \in Nat /\ IntSpan <= SizeSpan
  BY TextConstants
<1>1. x \in Nat /\ x + BlockSize <= IntSpan /\ x % SizeSpan = x
  <2>1. x \in Nat /\ x + BlockSize <= IntSpan
    BY <1>0 DEF Small
  <2> QED BY <2>1, <1>0
<1> HIDE DEF x
<1>2. used = RoundBy(x, Word)
  BY <1>1, SameArithmetic
<1>3. PICK j \in Nat : RoundsTo(x, Word, j)
  BY <1>1, RoundsUp
<1> DEFINE z == Word * j
<1>4. z \in Nat /\ x <= z /\ used = IF Half(z) THEN z ELSE SizeSpan - IntSpan + z
  BY <1>2, <1>3 DEF RoundsTo
<1>5. ASSUME NEW k \in Nat, x <= BlockSize * k, Half(BlockSize * k) PROVE used <= BlockSize * k
  <2>1. PICK i \in Nat : BlockSize * k = Word * i
    BY WordsIn
  <2> DEFINE y == Word * i
  <2>2. z <= y /\ x <= y /\ Half(y) /\ y \in Nat
    <3>1. y \in Nat
      BY <1>0, MulMono
    <3> QED BY <1>3, <1>5, <2>1, <3>1 DEF RoundsTo
  <2> HIDE DEF z, y, used
  <2>3. used <= y
    BY <1>0, <1>4, <2>2 DEF Half
  <2> QED BY <2>1, <2>3 DEF y
<1> HIDE DEF z, used
<1>6. used \in Nat /\ x <= used
  BY <1>0, <1>1, <1>4
<1> QED BY <1>5, <1>6 DEF x, used

LEMMA AddedReach ==
  ASSUME NEW t, t \in TextType, NEW s \in Seq(Bytes)
  PROVE  S!Off!RoundBy((t.used + Len(s) + 1) % SizeSpan, Word) \in Nat
<1> DEFINE x == (t.used + Len(s) + 1) % SizeSpan
<1>1. x \in Nat
  BY TextFacts, TextConstants
<1> HIDE DEF x
<1>2. S!Off!RoundBy(x, Word) = RoundBy(x, Word) /\ Word \in Nat \ {0}
  BY SameArithmetic, TextConstants
<1>3. S!Off!RoundBy(x, Word) \in Nat
  BY <1>1, <1>2, RoundNat
<1> QED BY <1>3 DEF x

LEMMA GrewOn ==
  ASSUME NEW t, NEW g, SameRest(t, g), S!Trusted(g) => S!Trusted(t), NEW h, NEW s, NEW ok, Grew(g, h, s, ok)
  PROVE  Grew(t, h, s, ok)
<1>1. g.off = t.off /\ g.twins = t.twins /\ g.lost = t.lost /\ g.kept = t.kept
  BY DEF SameRest
<1>2. SameOffsets(g, h) => SameOffsets(t, h)
  BY <1>1 DEF SameOffsets
<1> QED BY <1>1, <1>2 DEF Grew

\* A string that is appended: what the list was sound about, it is sound about.
LEMMA AddedWhole ==
  ASSUME NEW t, Whole(t), t.off.used < OffMax, NEW s, Clean(s), NEW r \in S!Added(t, s)
  PROVE  /\ Whole(r.text) /\ r.ok \in BOOLEAN /\ Grew(t, r.text, s, r.ok)
         /\ S!Trusted(r.text) => r.bad = "none"
         /\ Offsets(t.off) /\ r.bad = "none" => Offsets(r.text.off)
<1> DEFINE used == S!Off!RoundBy((t.used + Len(s) + 1) % SizeSpan, Word)
<1>0. /\ Frame(t) /\ t \in TextType /\ t.used \in Nat /\ t.claimed \in Nat /\ Len(t.mem) \in Nat
      /\ s \in Seq(Bytes) /\ Len(s) \in Nat /\ Small(Len(s)) /\ Small(Len(t.mem))
  BY TextFacts DEF Whole, Frame, Clean
<1>1. used \in Nat
  BY <1>0, AddedReach
<1>2. ASSUME Sound(t)
      PROVE  /\ t.used + Len(s) + 1 <= used
             /\ \A k \in Nat : t.used + Len(s) + 1 <= BlockSize * k /\ Half(BlockSize * k) => used <= BlockSize * k
  <2>1. Small(t.used)
    BY <1>0, <1>2, TextConstants DEF Sound, Small
  <2> QED BY <1>0, <2>1, StringReach
<1>3. \/ used <= t.claimed /\ r \in S!Stored(t, s, used)
      \/ /\ ~(used <= t.claimed)
         /\ \E g \in S!Realloc(t, Len(s) + 1) :
              \/ g.live /\ r \in S!Stored(g, s, used)
              \/ ~g.live /\ r = [text |-> g, ok |-> FALSE, bad |-> "none"]
  BY DEF S!Added
<1> HIDE DEF used
<1>4. CASE used <= t.claimed /\ r \in S!Stored(t, s, used)
  <2>1. /\ Frame(r.text) /\ r.ok \in BOOLEAN /\ Grew(t, r.text, s, r.ok)
        /\ Offsets(t.off) /\ r.bad = "none" => Offsets(r.text.off)
    BY <1>0, <1>1, <1>4, StoredFrame
  <2>2. ASSUME S!Trusted(r.text) PROVE Sound(r.text) /\ r.bad = "none"
    <3>1. Sound(t)
      BY <2>1, <2>2 DEF Whole, Grew
    <3>2. t.used + Len(s) + 1 <= used /\ used <= Len(t.mem)
      BY <1>2, <1>4, <3>1 DEF Sound
    <3> QED BY <1>0, <1>1, <1>4, <2>2, <3>1, <3>2, StoredSound
  <2> QED BY <2>1, <2>2 DEF Whole
<1>5. ASSUME NEW g \in S!Realloc(t, Len(s) + 1), ~(used <= t.claimed),
             \/ g.live /\ r \in S!Stored(g, s, used)
             \/ ~g.live /\ r = [text |-> g, ok |-> FALSE, bad |-> "none"]
      PROVE  /\ Whole(r.text) /\ r.ok \in BOOLEAN /\ Grew(t, r.text, s, r.ok)
             /\ S!Trusted(r.text) => r.bad = "none"
             /\ Offsets(t.off) /\ r.bad = "none" => Offsets(r.text.off)
  <2> DEFINE n == Len(s) + 1
  <2>1. n \in Nat \ {0} /\ n - 1 = Len(s) /\ Small(n - 1) /\ g \in S!Realloc(t, n)
    BY <1>0, <1>5
  <2> HIDE DEF n
  <2>2. Frame(g) /\ SameRest(t, g) /\ (S!Trusted(g) => S!Trusted(t))
    BY <1>0, <2>1, ReallocFrame
  <2>3. ASSUME S!Trusted(g)
        PROVE  /\ Sound(g) /\ t.used + n <= Len(g.mem) /\ Sound(t)
               /\ \E k \in Nat : Len(g.mem) = BlockSize * k /\ Half(BlockSize * k)
    <3>1. Sound(t)
      BY <2>2, <2>3 DEF Whole
    <3> QED BY <1>0, <2>1, <2>3, <3>1, ReallocSound
  <2>4. CASE g.live /\ r \in S!Stored(g, s, used)
    <3>0. g.off.used < OffMax /\ g.used = t.used
      BY <2>2 DEF SameRest
    <3>1. /\ Frame(r.text) /\ r.ok \in BOOLEAN /\ Grew(g, r.text, s, r.ok)
          /\ Offsets(g.off) /\ r.bad = "none" => Offsets(r.text.off)
      BY <1>0, <1>1, <2>2, <2>4, <3>0, StoredFrame
    <3>2. Grew(t, r.text, s, r.ok)
      BY <2>2, <3>1, GrewOn
    <3>3. ASSUME S!Trusted(r.text) PROVE Sound(r.text) /\ r.bad = "none"
      <4>1. S!Trusted(g)
        BY <3>1, <3>3 DEF Grew
      <4>2. Sound(g) /\ Sound(t)
        BY <2>3, <4>1
      <4>3. PICK k \in Nat : Len(g.mem) = BlockSize * k /\ Half(BlockSize * k)
        BY <2>3, <4>1
      <4>4. t.used + Len(s) + 1 <= BlockSize * k
        BY <1>0, <2>3, <4>1, <4>3 DEF n
      <4>5. t.used + Len(s) + 1 <= used /\ used <= BlockSize * k
        BY <1>2, <4>2, <4>3, <4>4
      <4>6. g.used + Len(s) + 1 <= used /\ used <= Len(g.mem)
        BY <3>0, <4>3, <4>5
      <4> QED BY <1>0, <1>1, <2>2, <2>4, <3>0, <3>3, <4>2, <4>6, StoredSound
    <3>4. g.off = t.off
      BY <2>2 DEF SameRest
    <3> QED BY <3>1, <3>2, <3>3, <3>4 DEF Whole
  <2>5. CASE ~g.live /\ r = [text |-> g, ok |-> FALSE, bad |-> "none"]
    <3>1. r.text = g /\ r.ok = FALSE /\ r.bad = "none"
      BY <2>5
    <3>2. Grew(t, g, s, FALSE) /\ g.off = t.off
      <4>1. g.off = t.off /\ Len(t.off.mem) <= Len(g.off.mem)
        BY <1>0, <2>2, OffFacts DEF SameRest, Frame
      <4> QED BY <2>2, <4>1 DEF Grew, SameRest, SameOffsets
    <3> QED BY <2>2, <2>3, <3>1, <3>2 DEF Whole
  <2> QED BY <1>5, <2>4, <2>5
<1> QED BY <1>3, <1>4, <1>5

-----------------------------------------------------------------------------
(* Copies of a list. *)

\* What a copy has of its own: its block, and its word for it.
CopiedText(t, off, g, room) ==
  /\ g.off = off /\ g.used = t.used /\ g.kept = t.kept /\ g.twins = t.twins /\ g.lost = t.lost
  /\ g.refused = S!Refused(t)
  /\ g.claimed = IF lang = "C" THEN t.claimed ELSE room
  /\ g.slack = (t.slack \/ (lang = "C" /\ t.claimed > room))
  /\ Len(g.mem) = room
  /\ \A i \in 1 .. room : g.mem[i] = IF i > t.used THEN 0 ELSE IF i <= Len(t.mem) THEN t.mem[i] ELSE Junk

LEMMA CopyIs ==
  ASSUME NEW t, t \in TextType, NEW off \in OffType, NEW room, room = BlockAlign(t.used)
  PROVE  S!CopyOf(t, off) \in TextType /\ CopiedText(t, off, S!CopyOf(t, off), room)
<1> DEFINE g == S!CopyOf(t, off)
           mem == [i \in 1 .. room |-> IF i > t.used THEN 0 ELSE IF i <= Len(t.mem) THEN t.mem[i] ELSE Junk]
           claimed == IF lang = "C" THEN t.claimed ELSE room
           slack == t.slack \/ (lang = "C" /\ t.claimed > room)
<1>0. /\ t.mem \in Seq(Bytes) /\ Len(t.mem) \in Nat /\ t.used \in Nat /\ t.claimed \in Nat
      /\ t.slack \in BOOLEAN /\ t.refused \in BOOLEAN /\ t.off.denied \in BOOLEAN
  BY TextFacts DEF OffType
<1>1. room \in Nat
  BY <1>0, BlockAlignShape DEF Shape
<1>2. g = [t EXCEPT !.live = TRUE, !.refused = S!Refused(t), !.off = off, !.mem = mem,
             !.claimed = claimed, !.slack = slack]
  <2>1. S!Off!BlockAlign(t.used) = room
    BY SameArithmetic
  <2>2. mem = [i \in 1 .. room |-> IF i > t.used THEN S!Nul ELSE IF i <= Len(t.mem) THEN t.mem[i] ELSE Junk]
    BY DEF S!Nul
  <2> HIDE DEF mem
  <2>3. g = [t EXCEPT !.live = TRUE, !.refused = S!Refused(t), !.off = off, !.mem = mem,
               !.claimed = IF lang = "C" THEN @ ELSE room,
               !.slack = @ \/ (lang = "C" /\ t.claimed > room)]
    BY <2>1, <2>2 DEF S!CopyOf, TextType
  <2> QED BY <2>3 DEF TextType
<1>3. mem \in Seq(Bytes) /\ Len(mem) = room
  <2>1. \A i \in 1 .. Len(t.mem) : t.mem[i] \in Bytes
    BY <1>0
  <2>2. \A i \in 1 .. room : mem[i] \in Bytes
    <3>1. 0 \in Bytes /\ Junk \in Bytes
      BY DEF Bytes
    <3>2. \A i \in 1 .. room : i <= Len(t.mem) => i \in 1 .. Len(t.mem)
      BY <1>0
    <3> QED BY <2>1, <3>1, <3>2
  <2>3. mem \in [1 .. room -> Bytes]
    BY <2>2
  <2> HIDE DEF mem
  <2> QED BY <2>3, <1>1, BytesOf
<1>4. \A i \in 1 .. room : mem[i] = IF i > t.used THEN 0 ELSE IF i <= Len(t.mem) THEN t.mem[i] ELSE Junk
  OBVIOUS
<1>5. claimed \in Nat /\ slack \in BOOLEAN /\ S!Refused(t) \in BOOLEAN
  BY <1>0, <1>1 DEF S!Refused
<1> HIDE DEF mem, claimed, slack
<1>6. g \in TextType
  BY <1>2, <1>3, <1>5 DEF TextType
<1>7. /\ g.off = off /\ g.used = t.used /\ g.kept = t.kept /\ g.twins = t.twins /\ g.lost = t.lost
      /\ g.refused = S!Refused(t) /\ g.claimed = claimed /\ g.slack = slack /\ g.mem = mem
  BY <1>2 DEF TextType
<1>8. CopiedText(t, off, g, room)
  BY <1>3, <1>4, <1>7 DEF CopiedText, claimed, slack
<1> QED BY <1>6, <1>8

LEMMA CopyWhole ==
  ASSUME NEW t, Whole(t), NEW off, OffFrame(off), off.used = t.off.used,
         S!Trusted(t) => \A i \in 1 .. t.off.used : off.mem[i] = t.off.mem[i],
         BlockAlign(t.used) <= HeapMax
  PROVE  LET g == S!CopyOf(t, off)
         IN  /\ Whole(g) /\ (S!Trusted(g) => S!Trusted(t))
             /\ g.off = off /\ g.kept = t.kept /\ g.twins = t.twins /\ g.lost = t.lost
<1> DEFINE g == S!CopyOf(t, off)
           room == BlockAlign(t.used)
<1>0. /\ t \in TextType /\ t.mem \in Seq(Bytes) /\ Len(t.mem) \in Nat /\ t.used \in Nat /\ t.claimed \in Nat
      /\ off \in OffType
  BY TextFacts DEF Whole, Frame, OffFrame
<1>1. Shape(room) /\ room <= HeapMax
  BY <1>0, BlockAlignShape
<1> HIDE DEF room
<1>2. g \in TextType /\ CopiedText(t, off, g, room)
  BY <1>0, CopyIs DEF room
<1> HIDE DEF g
<1>3. room \in Nat /\ Small(room)
  <2>1. Half(room) /\ \E m \in Nat : room = BlockSize * m
    BY <1>1, TextConstants DEF Shape
  <2> QED BY <2>1, HalfSmall
<1>4. Frame(g)
  BY <1>2, <1>3 DEF Frame, CopiedText
<1>5. S!Trusted(g) => S!Trusted(t)
  BY <1>0, <1>2 DEF S!Trusted, S!Refused, CopiedText
<1>6. ASSUME S!Trusted(g) PROVE Sound(g)
  <2>1. S!Trusted(t) /\ Sound(t) /\ ~(lang = "C" /\ t.claimed > room)
    BY <1>2, <1>5, <1>6 DEF Whole, S!Trusted, CopiedText
  <2>2. PICK m \in Nat : t.claimed = BlockSize * m
    BY <2>1 DEF Sound
  <2>3. /\ t.used <= room /\ room <= t.claimed /\ \E k \in Nat : room = BlockSize * k
    <3>1. t.used <= BlockSize * m /\ Half(BlockSize * m)
      <4> DEFINE z == BlockSize * m
      <4>1. z \in Nat /\ Small(z) /\ t.used <= z
        BY <1>0, <2>1, <2>2 DEF Sound, Whole, Frame
      <4> HIDE DEF z
      <4>2. Half(z)
        BY <4>1, TextConstants DEF Small, Half
      <4> QED BY <4>1, <4>2 DEF z
    <3>2. t.used <= BlockAlign(t.used) /\ BlockAlign(t.used) <= BlockSize * m
          /\ \E k \in Nat : BlockAlign(t.used) = BlockSize * k
      BY <1>0, <3>1, AlignExact
    <3> QED BY <2>2, <3>2 DEF room
  <2>4. g.claimed = room
    BY <1>0, <1>2, <1>3, <2>1, <2>3 DEF CopiedText
  <2>5. /\ g.claimed = Len(g.mem) /\ g.used <= Len(g.mem) /\ \E k \in Nat : g.claimed = BlockSize * k
        /\ g.used = t.used /\ Len(g.mem) = room
    BY <1>2, <2>3, <2>4 DEF CopiedText
  <2>6. \A i \in g.used + 1 .. Len(g.mem) : g.mem[i] = 0
    <3>1. ASSUME NEW i \in g.used + 1 .. Len(g.mem) PROVE g.mem[i] = 0
      <4>1. i \in 1 .. room /\ i > t.used
        BY <1>0, <1>3, <2>5, <3>1
      <4> QED BY <1>2, <4>1 DEF CopiedText
    <3> QED BY <3>1
  <2>7. SameBytes(t, g, t.used)
    <3>1. ASSUME NEW i \in 1 .. t.used PROVE g.mem[i] = t.mem[i]
      <4>1. i \in 1 .. room /\ ~(i > t.used) /\ i <= Len(t.mem)
        BY <1>0, <1>3, <2>1, <2>3, <3>1 DEF Sound
      <4> QED BY <1>2, <4>1 DEF CopiedText
    <3> QED BY <3>1 DEF SameBytes
  <2>8. t.off.used \in Nat /\ Len(t.kept) = t.off.used /\ g.kept = t.kept /\ g.off = off
        /\ \A i \in 1 .. t.off.used : off.mem[i] = t.off.mem[i]
    BY <1>2, <2>1, OffFacts DEF Sound, CopiedText, Whole, Frame
  <2>9. ASSUME NEW i \in 1 .. Len(g.kept) PROVE Clean(g.kept[i]) /\ Placed(g, i)
    <3>1. i \in 1 .. Len(t.kept) /\ g.kept[i] = t.kept[i] /\ g.off.mem[i] = t.off.mem[i]
      BY <2>8
    <3>2. Clean(t.kept[i]) /\ Placed(t, i) /\ Len(t.kept[i]) \in Nat
      BY <2>1, <3>1 DEF Sound, Clean
    <3>3. t.used <= g.used /\ g.used \in Nat
      BY <1>0, <2>5
    <3>4. Placed(g, i)
      BY <1>0, <3>1, <3>2, <3>3, <2>7, PlacedIn
    <3> QED BY <3>1, <3>2, <3>4
  <2>10. g.off.used > 0 => g.off.mem[1] = 0
    <3>1. SUFFICES ASSUME t.off.used > 0 PROVE off.mem[1] = 0
      BY <2>8
    <3>2. 1 \in 1 .. t.off.used
      BY <2>8, <3>1
    <3>3. t.off.mem[1] = 0
      BY <2>1, <3>1 DEF Sound
    <3> QED BY <2>8, <3>2, <3>3
  <2>11. /\ Len(g.kept) = g.off.used /\ (g.off.used = 0 => g.used = 0)
         /\ g.off.used <= g.used
         /\ S!KernelSize(g.kept) <= S!FullSize(g)
    BY <2>1, <2>5, <2>8 DEF Sound, S!FullSize, S!CountOf
  <2> QED BY <2>5, <2>6, <2>9, <2>10, <2>11 DEF Sound
<1>7. /\ g.off = off /\ g.kept = t.kept /\ g.twins = t.twins /\ g.lost = t.lost
  BY <1>2 DEF CopiedText
<1> QED BY <1>4, <1>5, <1>6, <1>7 DEF Whole, g

\* What a list holds does not hang on whom it shares offsets with.
LEMMA TwinsApart ==
  ASSUME NEW t, Whole(t), NEW w \in SUBSET Strs
  PROVE  LET g == [t EXCEPT !.twins = w]
         IN  /\ Whole(g) /\ (S!Trusted(g) <=> S!Trusted(t))
             /\ g.off = t.off /\ g.kept = t.kept /\ g.twins = w /\ g.lost = t.lost
<1> DEFINE g == [t EXCEPT !.twins = w]
<1>0. t \in TextType
  BY DEF Whole, Frame
<1>1. g \in TextType
  BY <1>0 DEF TextType
<1>2. /\ g.off = t.off /\ g.kept = t.kept /\ g.twins = w /\ g.lost = t.lost
      /\ g.mem = t.mem /\ g.used = t.used /\ g.claimed = t.claimed
      /\ g.refused = t.refused /\ g.slack = t.slack
  BY <1>0 DEF TextType
<1> HIDE DEF g
<1>3. S!Trusted(g) <=> S!Trusted(t)
  BY <1>2 DEF S!Trusted, S!Refused
<1>4. Frame(g)
  BY <1>1, <1>2 DEF Whole, Frame
<1>5. \A i : Placed(t, i) => Placed(g, i)
  BY <1>2 DEF Placed
<1>6. Sound(t) => Sound(g)
  BY <1>2, <1>5 DEF Sound, S!FullSize, S!CountOf
<1> QED BY <1>2, <1>3, <1>4, <1>6 DEF Whole, g

\* What becomes of the offsets of a list that is freed or appended to.
Shift(old, new) ==
  \/ Len(new.off.mem) # Len(old.off.mem)
  \/ new.off = old.off
  \/ new.off.used = old.off.used + 1 /\ SameOffsets(old, new)

\* A list that shared offsets with one that became "new".
LEMMA FollowWhole ==
  ASSUME NEW t, Whole(t), Offsets(t.off), NEW old, NEW new, OffFrame(new.off), Offsets(new.off),
         OffFrame(old.off), t.off.mem = old.off.mem, Shift(old, new)
  PROVE  LET g == S!Follow(t, old, new)
         IN  /\ Whole(g) /\ Offsets(g.off) /\ (S!Trusted(g) => S!Trusted(t))
             /\ g.kept = t.kept /\ g.off.used = t.off.used
             /\ Len(new.off.mem) = Len(old.off.mem) => g.twins = t.twins /\ g.off.mem = new.off.mem
             /\ Len(new.off.mem) # Len(old.off.mem) => g.twins = {}
<1> DEFINE g == S!Follow(t, old, new)
<1>0. /\ t \in TextType /\ OffFrame(t.off) /\ t.off \in OffType /\ t.off.used \in Nat
      /\ Len(t.off.mem) \in Nat /\ new.off.mem \in Seq(Bytes)
      /\ old.off.used \in Nat /\ new.off.used \in Nat
  BY OffFacts DEF Whole, Frame
<1>1. CASE Len(new.off.mem) # Len(old.off.mem)
  <2>1. g = [t EXCEPT !.lost = "dangling", !.twins = {}]
    BY <1>1 DEF S!Follow
  <2>2. g \in TextType
    BY <1>0, <2>1 DEF TextType
  <2>3. g.lost = "dangling" /\ g.twins = {} /\ g.off = t.off /\ g.kept = t.kept /\ g.mem = t.mem
    BY <1>0, <2>1 DEF TextType
  <2>4. ~S!Trusted(g)
    BY <2>3 DEF S!Trusted
  <2>5. Frame(g)
    BY <2>2, <2>3 DEF Whole, Frame
  <2> QED BY <1>1, <2>3, <2>4, <2>5 DEF Whole
<1>2. CASE Len(new.off.mem) = Len(old.off.mem)
  <2> DEFINE off == [t.off EXCEPT !.mem = new.off.mem]
             lost == IF S!CountOf(old) < S!CountOf(t) /\ new.off # old.off THEN "overwritten" ELSE t.lost
  <2>1. g = [t EXCEPT !.off = off, !.lost = lost]
    <3>1. g = [t EXCEPT !.off.mem = new.off.mem, !.lost = lost]
      BY <1>0, <1>2 DEF S!Follow, TextType
    <3> QED BY <1>0, <3>1 DEF TextType
  <2>2. /\ off \in OffType /\ off.mem = new.off.mem /\ off.used = t.off.used
        /\ off.allocated = t.off.allocated /\ off.live = t.off.live /\ off.denied = t.off.denied
    BY <1>0 DEF OffType
  <2>3. lost \in {"no", "dangling", "overwritten"}
    BY <1>0, TextFacts
  <2> HIDE DEF off, lost
  <2>4. OffFrame(off)
    <3>1. Len(off.mem) = Len(t.off.mem)
      BY <1>2, <2>2
    <3> QED BY <1>0, <2>2, <3>1 DEF OffFrame
  <2>5. g \in TextType
    BY <1>0, <2>1, <2>2, <2>3 DEF TextType
  <2>6. /\ g.off = off /\ g.lost = lost /\ g.kept = t.kept /\ g.mem = t.mem /\ g.used = t.used
        /\ g.twins = t.twins /\ g.claimed = t.claimed /\ g.refused = t.refused /\ g.slack = t.slack
    BY <1>0, <2>1 DEF TextType
  <2> HIDE DEF g
  <2>7. Frame(g)
    BY <2>4, <2>5, <2>6 DEF Whole, Frame
  <2>8. ASSUME NEW i \in 1 .. t.off.used, i # old.off.used + 1 \/ new.off = old.off
        PROVE  off.mem[i] = t.off.mem[i]
    <3>1. CASE new.off = old.off
      BY <2>2, <3>1
    <3>2. CASE new.off.used = old.off.used + 1 /\ SameOffsets(old, new) /\ i # old.off.used + 1
      <4>1. i \in 1 .. Len(old.off.mem)
        BY <1>0 DEF Offsets
      <4> QED BY <2>2, <3>2, <4>1 DEF SameOffsets
    <3> QED BY <1>2, <2>8, <3>1, <3>2 DEF Shift
  <2>9. Offsets(off)
    <3>1. off.used <= Len(off.mem)
      BY <1>2, <2>2 DEF Offsets
    <3>2. ASSUME NEW i \in 1 .. off.used PROVE off.mem[i] \in Nat
      <4>1. i \in 1 .. t.off.used
        BY <2>2
      <4>2. CASE i # old.off.used + 1 \/ new.off = old.off
        BY <2>8, <4>1, <4>2 DEF Offsets
      <4>3. CASE i = old.off.used + 1 /\ new.off # old.off
        <5>1. i \in 1 .. new.off.used
          BY <1>0, <1>2, <4>1, <4>3 DEF Shift
        <5> QED BY <2>2, <5>1 DEF Offsets
      <4> QED BY <4>2, <4>3
    <3> QED BY <3>1, <3>2 DEF Offsets
  <2>10. S!Trusted(g) => S!Trusted(t) /\ ~(S!CountOf(old) < S!CountOf(t) /\ new.off # old.off)
    BY <2>2, <2>6 DEF S!Trusted, S!Refused, lost
  <2>11. ASSUME S!Trusted(g) PROVE Sound(g)
    <3>1. Sound(t) /\ (new.off = old.off \/ t.off.used <= old.off.used)
      BY <1>0, <2>10, <2>11 DEF Whole, S!CountOf
    <3>2. \A i \in 1 .. t.off.used : off.mem[i] = t.off.mem[i]
      BY <1>0, <2>8, <3>1
    <3>3. ASSUME NEW i \in 1 .. Len(g.kept) PROVE Clean(g.kept[i]) /\ Placed(g, i)
      <4>1. i \in 1 .. Len(t.kept) /\ g.kept[i] = t.kept[i] /\ i \in 1 .. t.off.used
        BY <2>6, <3>1 DEF Sound
      <4>2. Clean(t.kept[i]) /\ Placed(t, i)
        BY <3>1, <4>1 DEF Sound
      <4>3. g.off.mem[i] = t.off.mem[i]
        BY <2>6, <3>2, <4>1
      <4>4. Placed(g, i)
        BY <2>6, <4>1, <4>2, <4>3 DEF Placed
      <4> QED BY <4>1, <4>2, <4>4
    <3>4. g.off.used > 0 => g.off.mem[1] = 0
      <4>1. SUFFICES ASSUME t.off.used > 0 PROVE off.mem[1] = 0
        BY <2>2, <2>6
      <4>2. 1 \in 1 .. t.off.used /\ t.off.mem[1] = 0
        BY <1>0, <3>1, <4>1 DEF Sound
      <4> QED BY <3>2, <4>2
    <3> QED BY <2>2, <2>6, <3>1, <3>3, <3>4 DEF Sound, S!FullSize, S!CountOf
  <2> QED BY <1>2, <2>2, <2>6, <2>7, <2>9, <2>10, <2>11 DEF Whole, g
<1> QED BY <1>1, <1>2

-----------------------------------------------------------------------------
(* Reading a string back. *)

LEMMA SameMin == \A T : S!Min(T) = Min(T)
BY DEF S!Min, Min

LEMMA LeastIs ==
  ASSUME NEW T \in SUBSET Nat, NEW m \in T, \A k \in T : m <= k
  PROVE  Min(T) = m
<1>1. \A x \in T : (\A k \in T : x <= k) => x = m
  OBVIOUS
<1> QED BY <1>1 DEF Min

\* The bytes between two places.
LEMMA Cut ==
  ASSUME NEW mem \in Seq(Bytes), NEW o \in Nat, NEW n \in Nat, o + n <= Len(mem)
  PROVE  /\ SubSeq(mem, o + 1, o + n) \in Seq(Bytes) /\ Len(SubSeq(mem, o + 1, o + n)) = n
         /\ \A k \in 1 .. n : SubSeq(mem, o + 1, o + n)[k] = mem[o + k]
<1>1. SubSeq(mem, o + 1, o + n) = [k \in 1 .. n |-> mem[o + k]]
  OBVIOUS
<1> DEFINE f == [k \in 1 .. n |-> mem[o + k]]
<1>2. \A k \in 1 .. n : mem[o + k] \in Bytes
  OBVIOUS
<1>3. f \in [1 .. n -> Bytes] /\ \A k \in 1 .. n : f[k] = mem[o + k]
  BY <1>2
<1> HIDE DEF f
<1>4. f \in Seq(Bytes) /\ Len(f) = n
  BY <1>3, BytesOf
<1> QED BY <1>1, <1>3, <1>4 DEF f

NulsFrom(t, offset) == {i \in offset + 1 .. Len(t.mem) : t.mem[i] = 0}

\* What is read from anywhere in a block has no NUL in it.
LEMMA TextAtClean ==
  ASSUME NEW t, t \in TextType, Small(Len(t.mem)), NEW offset \in Nat
  PROVE  Clean(S!TextAt(t, offset))
<1> DEFINE nuls == NulsFrom(t, offset)
           end == IF nuls = {} THEN Len(t.mem) ELSE Min(nuls) - 1
           s == SubSeq(t.mem, offset + 1, end)
<1>0. t.mem \in Seq(Bytes) /\ Len(t.mem) \in Nat
  BY TextFacts
<1>1. S!TextAt(t, offset) = s
  BY SameMin DEF S!TextAt, NulsFrom, S!Nul
<1>2. /\ end \in Int /\ end <= Len(t.mem)
      /\ nuls # {} => end >= offset
      /\ \A i \in offset + 1 .. end : t.mem[i] # 0
  <2>1. CASE nuls = {}
    <3>1. \A i \in offset + 1 .. Len(t.mem) : t.mem[i] # 0
      BY <2>1 DEF NulsFrom
    <3> QED BY <1>0, <2>1, <3>1
  <2>2. CASE nuls # {}
    <3>1. nuls \in SUBSET Nat
      BY DEF NulsFrom
    <3>2. PICK m \in nuls : \A k \in nuls : m <= k
      <4> HIDE DEF nuls
      <4> QED BY <2>2, <3>1, LeastIn
    <3>3. Min(nuls) = m
      <4> HIDE DEF nuls
      <4> QED BY <3>1, <3>2, LeastIs
    <3>4. m \in offset + 1 .. Len(t.mem) /\ end = m - 1
      BY <2>2, <3>2, <3>3 DEF NulsFrom
    <3>5. ASSUME NEW i \in offset + 1 .. end PROVE t.mem[i] # 0
      <4>1. i \in offset + 1 .. Len(t.mem) /\ ~(m <= i)
        BY <1>0, <3>4
      <4>2. i \notin nuls
        BY <3>2, <4>1
      <4> QED BY <4>1, <4>2 DEF NulsFrom
    <3> QED BY <1>0, <3>4, <3>5
  <2> QED BY <2>1, <2>2
<1> HIDE DEF end, nuls
<1>3. CASE offset <= end
  <2> DEFINE n == end - offset
  <2>1. n \in Nat /\ end = offset + n /\ offset + n <= Len(t.mem) /\ n <= Len(t.mem)
    BY <1>0, <1>2, <1>3
  <2> HIDE DEF n
  <2>2. s \in Seq(Bytes) /\ Len(s) = n /\ \A k \in 1 .. n : s[k] = t.mem[offset + k]
    BY <1>0, <2>1, Cut
  <2> HIDE DEF s
  <2>3. \A k \in 1 .. n : s[k] # 0
    <3>1. \A k \in 1 .. n : offset + k \in offset + 1 .. end
      BY <2>1
    <3> QED BY <1>2, <2>2, <3>1
  <2>4. Small(n)
    BY <1>0, <2>1, TextConstants DEF Small
  <2> QED BY <1>1, <2>2, <2>3, <2>4 DEF Clean
<1>4. CASE end < offset
  <2>1. s = <<>>
    BY <1>2, <1>4
  <2>2. Small(0)
    BY <1>0, TextConstants DEF Small
  <2>3. <<>> \in Seq(Bytes) /\ Len(<<>>) = 0 /\ \A i \in 1 .. 0 : <<>>[i] # 0
    OBVIOUS
  <2>4. Clean(<<>>)
    BY <2>2, <2>3 DEF Clean
  <2> QED BY <1>1, <2>1, <2>4
<1> QED BY <1>2, <1>3, <1>4

\* What was put there without a NUL in it, and ends in one, is read back.
LEMMA TextAtIs ==
  ASSUME NEW t, t \in TextType, NEW o \in Nat, NEW s, s \in Seq(Bytes), o + Len(s) + 1 <= Len(t.mem),
         \A j \in 1 .. Len(s) : t.mem[o + j] = s[j] /\ s[j] # 0,
         t.mem[o + Len(s) + 1] = 0
  PROVE  S!TextAt(t, o) = s /\ \E j \in o + 1 .. Len(t.mem) : t.mem[j] = 0
<1> DEFINE nuls == NulsFrom(t, o)
           n == Len(s)
           m == o + n + 1
<1>0. t.mem \in Seq(Bytes) /\ Len(t.mem) \in Nat /\ n \in Nat /\ m \in Nat /\ m <= Len(t.mem)
  BY TextFacts
<1>1. m \in nuls
  BY <1>0 DEF NulsFrom
<1>2. ASSUME NEW k \in nuls PROVE m <= k
  <2>1. SUFFICES ASSUME ~(m <= k) PROVE FALSE
    OBVIOUS
  <2>2. k \in o + 1 .. Len(t.mem) /\ t.mem[k] = 0
    BY DEF NulsFrom
  <2>3. k - o \in 1 .. n /\ o + (k - o) = k
    BY <1>0, <2>1, <2>2
  <2>4. t.mem[o + (k - o)] # 0
    BY <2>3
  <2> QED BY <2>2, <2>3, <2>4
<1>3. Min(nuls) = m
  <2>1. nuls \in SUBSET Nat
    BY DEF NulsFrom
  <2> HIDE DEF nuls, m
  <2> QED BY <1>1, <1>2, <2>1, LeastIs
<1>4. S!TextAt(t, o) = SubSeq(t.mem, o + 1, o + n)
  <2>1. S!TextAt(t, o) = SubSeq(t.mem, o + 1, IF nuls = {} THEN Len(t.mem) ELSE Min(nuls) - 1)
    BY SameMin DEF S!TextAt, NulsFrom, S!Nul
  <2>2. m - 1 = o + n /\ nuls # {}
    BY <1>0, <1>1
  <2> QED BY <1>3, <2>1, <2>2
<1> DEFINE u == SubSeq(t.mem, o + 1, o + n)
<1>5. u \in Seq(Bytes) /\ Len(u) = n /\ \A k \in 1 .. n : u[k] = t.mem[o + k]
  BY <1>0, Cut
<1> HIDE DEF u
<1>6. u = s
  BY <1>5
<1>7. m \in o + 1 .. Len(t.mem) /\ t.mem[m] = 0
  BY <1>0
<1> QED BY <1>4, <1>6, <1>7 DEF u

\* The offset that is read.
LEMMA OffsetRead ==
  ASSUME NEW t, Frame(t), NEW i \in Nat
  PROVE  /\ Offsets(t.off) => S!OffsetOf(t, i) \in Nat
         /\ S!OffsetOf(t, i) \in Bytes
         /\ Offsets(t.off) /\ i < t.off.used => S!OffsetOf(t, i) = t.off.mem[i + 1]
         /\ ~(i < t.off.used) => S!OffsetOf(t, i) = 0
<1>0. OffFrame(t.off) /\ t.off.used \in Nat /\ Len(t.off.mem) \in Nat /\ t.off.mem \in Seq(Bytes)
  BY OffFacts DEF Frame
<1>1. i < Len(t.off.mem) => t.off.mem[i + 1] \in Bytes
  BY <1>0
<1>2. i < t.off.used => i + 1 \in 1 .. t.off.used
  BY <1>0
<1> QED BY <1>0, <1>1, <1>2 DEF S!OffsetOf, Offsets, Bytes

LEMMA ReadClean ==
  ASSUME NEW t, Frame(t), Offsets(t.off), NEW i \in Nat
  PROVE  Clean(S!Get(t, i))
<1>1. S!OffsetOf(t, i) \in Nat
  BY OffsetRead
<1> QED BY <1>1, TextAtClean DEF S!Get, Frame

\* From a sound list each string is read back, and past the last one the first.
LEMMA ReadsBack ==
  ASSUME NEW t, Frame(t), Sound(t), Offsets(t.off), t.lost = "no", t.off.used > 0, NEW i \in Nat
  PROVE  /\ i < t.off.used => S!Get(t, i) = t.kept[i + 1]
         /\ S!Unended(t, i) = "none"
<1> DEFINE k == IF i < t.off.used THEN i + 1 ELSE 1
           o == S!OffsetOf(t, i)
<1>0. /\ t \in TextType /\ t.used \in Nat /\ Len(t.mem) \in Nat /\ t.off.used \in Nat
      /\ Len(t.kept) = t.off.used /\ t.used <= Len(t.mem)
  BY TextFacts, OffFacts DEF Frame, Sound
<1>1. k \in 1 .. Len(t.kept) /\ o = t.off.mem[k]
  <2>1. CASE i < t.off.used
    <3>1. k = i + 1 /\ k \in 1 .. Len(t.kept)
      BY <1>0, <2>1
    <3>2. o = t.off.mem[i + 1]
      BY <2>1, OffsetRead
    <3> QED BY <3>1, <3>2
  <2>2. CASE ~(i < t.off.used)
    <3>1. k = 1 /\ k \in 1 .. Len(t.kept) /\ t.off.mem[1] = 0
      BY <1>0, <2>2 DEF Sound
    <3>2. o = 0
      BY <2>2, OffsetRead
    <3> QED BY <3>1, <3>2
  <2> QED BY <2>1, <2>2
<1> HIDE DEF o, k
<1>2. Clean(t.kept[k]) /\ Placed(t, k)
  BY <1>1 DEF Sound
<1> DEFINE s == t.kept[k]
<1>3. /\ s \in Seq(Bytes) /\ Len(s) \in Nat /\ \A j \in 1 .. Len(s) : s[j] # 0
      /\ o \in Nat /\ o + Len(s) + 1 <= t.used
      /\ \A j \in 1 .. Len(s) : t.mem[o + j] = s[j]
      /\ t.mem[o + Len(s) + 1] = 0
  <2>1. /\ t.kept[k] \in Seq(Bytes) /\ Len(t.kept[k]) \in Nat
        /\ \A j \in 1 .. Len(t.kept[k]) : t.kept[k][j] # 0
    BY <1>2 DEF Clean
  <2>2. /\ o \in Nat /\ o + Len(t.kept[k]) + 1 <= t.used
        /\ \A j \in 1 .. Len(t.kept[k]) : t.mem[o + j] = t.kept[k][j]
        /\ t.mem[o + Len(t.kept[k]) + 1] = 0
    BY <1>1, <1>2 DEF Placed
  <2> QED BY <2>1, <2>2
<1>4. o + Len(s) + 1 <= Len(t.mem)
  <2> HIDE DEF s
  <2> QED BY <1>0, <1>3
<1> HIDE DEF s
<1>5. S!TextAt(t, o) = s /\ \E j \in o + 1 .. Len(t.mem) : t.mem[j] = 0
  BY <1>0, <1>3, <1>4, TextAtIs
<1>6. S!Unended(t, i) = "none"
  BY <1>5 DEF S!Unended, S!Nul, o
<1> QED BY <1>5, <1>6 DEF S!Get, o, k, s

-----------------------------------------------------------------------------
(* Lists that share offsets, and the bound on their strings. *)

LEMMA EmptyWhole ==
  /\ Whole(S!NoText) /\ Offsets(S!NoText.off) /\ S!NoText.twins = {} /\ Len(S!NoText.off.mem) = 0
  /\ S!NoText.off.used = 0 /\ S!NoText.lost = "no" /\ S!NoText.kept = <<>> /\ S!NoText \in TextType
<1> DEFINE t == S!NoText
<1>1. /\ t.live = FALSE /\ t.mem = <<>> /\ t.claimed = 0 /\ t.used = 0 /\ t.off = S!Off!Blank
      /\ t.twins = {} /\ t.refused = FALSE /\ t.slack = FALSE /\ t.lost = "no" /\ t.kept = <<>>
      /\ Len(<<>>) = 0
  BY DEF S!NoText
<1>2. OffFrame(S!Off!Blank) /\ S!Off!Blank.used = 0 /\ S!Off!Blank.allocated = 0
      /\ S!Off!Blank.mem = <<>> /\ S!Off!Blank \in OffType
  BY OffBlank DEF S!Off!Blank, OffFrame
<1>3. t \in TextType
  BY <1>2 DEF S!NoText, TextType
<1> HIDE DEF t
<1>4. Small(0)
  <2>1. \E m \in Nat : 0 = BlockSize * m
    BY TextConstants
  <2>2. Half(0)
    BY TextConstants DEF Half
  <2> QED BY <2>1, <2>2, HalfSmall
<1>5. Frame(t)
  BY <1>1, <1>2, <1>3, <1>4 DEF Frame
<1>6. Sound(t)
  <2>1. S!KernelSize(t.kept) <= S!FullSize(t)
    <3>1. 0 * Word = 0
      BY TextConstants
    <3>2. S!FullSize(t) = 0
      BY <1>1, <1>2, <3>1 DEF S!FullSize, S!CountOf
    <3> QED BY <1>1, <3>2, KernelEmpty
  <2>2. \E m \in Nat : t.claimed = BlockSize * m
    BY <1>1, TextConstants
  <2> QED BY <1>1, <1>2, <2>1, <2>2 DEF Sound
<1>7. Offsets(t.off)
  BY <1>1, <1>2 DEF Offsets
<1> QED BY <1>1, <1>2, <1>3, <1>5, <1>6, <1>7 DEF Whole, t

LEMMA TextInitial == S!SInit => TextInv
<1> SUFFICES ASSUME S!SInit PROVE TextInv
  OBVIOUS
<1>1. lang \in {"C", "C++"} /\ DOMAIN text = Strs /\ broken = "none" /\ call = S!NoCall
      /\ \A x \in Strs : text[x] = S!NoText
  <2>1. text = [x \in Strs |-> S!NoText]
    BY DEF S!SInit
  <2> QED BY <2>1 DEF S!SInit
<1>2. ListsInv
  <2> DEFINE e == S!NoText
  <2>1. Whole(e) /\ Offsets(e.off) /\ e.twins = {} /\ e.off.used = 0 /\ 0 <= MaxTexts
    BY EmptyWhole, TextConstants
  <2>2. \A x \in Strs : text[x] = e
    BY <1>1
  <2> HIDE DEF e
  <2> QED BY <2>1, <2>2 DEF ListsInv, TwinsAgree
<1> QED BY <1>1, <1>2 DEF TextInv

LEMMA SameCount == \A T : S!Cardinality(T) = Cardinality(T)
BY DEF S!Cardinality, Cardinality

LEMMA SameFinite == \A T : S!IsFiniteSet(T) <=> IsFiniteSet(T)
BY DEF S!IsFiniteSet, IsFiniteSet

LEMMA FirstOfNat ==
  ASSUME NEW u \in Nat
  PROVE  IsFiniteSet(0 .. u - 1) /\ Cardinality(0 .. u - 1) = u
<1> DEFINE b == u - 1
<1>1. 0 \in Int /\ b \in Int
  OBVIOUS
<1> HIDE DEF b
<1>2. IsFiniteSet(0 .. b) /\ Cardinality(0 .. b) = IF 0 > b THEN 0 ELSE b - 0 + 1
  BY <1>1, FS_Interval
<1>3. (IF 0 > b THEN 0 ELSE b - 0 + 1) = u
  BY DEF b
<1> QED BY <1>2, <1>3 DEF b

\* A bound on all leaves each the room it says.
LEMMA SpaceLeft ==
  ASSUME NEW X, IsFiniteSet(X), NEW max \in Nat, NEW f, NEW x \in X, f[x] \in Nat, f[x] <= max,
         NEW n \in Int, Cardinality({p \in X \X (0 .. max - 1) : p[2] < f[p[1]]}) + n <= max
  PROVE  f[x] + n <= max
<1> DEFINE u == f[x]
           P == {p \in X \X (0 .. max - 1) : p[2] < f[p[1]]}
           Q == {x} \X (0 .. u - 1)
<1>1. Cardinality(P) + n <= max
  OBVIOUS
<1>2. IsFiniteSet(P) /\ Cardinality(P) \in Nat
  <2>1. IsFiniteSet(0 .. max - 1)
    BY FS_Interval
  <2>2. IsFiniteSet(X \X (0 .. max - 1))
    BY <2>1, FS_Product
  <2>3. P \subseteq X \X (0 .. max - 1)
    OBVIOUS
  <2> HIDE DEF P
  <2>4. IsFiniteSet(P)
    BY <2>2, <2>3, FS_Subset
  <2> QED BY <2>4, FS_CardinalityType
<1>3. Q \subseteq P
  <2>1. ASSUME NEW q \in Q PROVE q \in P
    <3>1. PICK i \in 0 .. u - 1 : q = <<x, i>>
      OBVIOUS
    <3>2. i \in 0 .. max - 1 /\ i < u
      <4> HIDE DEF u
      <4>1. u \in Nat /\ u <= max
        BY DEF u
      <4> QED BY <4>1
    <3> QED BY <3>1, <3>2
  <2> QED BY <2>1
<1>4. Cardinality(Q) = u
  <2>1. IsFiniteSet({x}) /\ Cardinality({x}) = 1
    BY FS_Singleton
  <2>2. IsFiniteSet(0 .. u - 1) /\ Cardinality(0 .. u - 1) = u
    BY FirstOfNat
  <2>3. Cardinality({x} \X (0 .. u - 1)) = Cardinality({x}) * Cardinality(0 .. u - 1)
    BY <2>1, <2>2, FS_Product
  <2> HIDE DEF u
  <2>4. u \in Nat
    BY DEF u
  <2> QED BY <2>1, <2>2, <2>3, <2>4
<1>5. Cardinality(Q) <= Cardinality(P)
  <2> HIDE DEF P, Q
  <2> QED BY <1>2, <1>3, FS_Subset
<1> HIDE DEF P, Q
<1> QED BY <1>1, <1>2, <1>4, <1>5 DEF u

LEMMA RoomBound ==
  ASSUME NEW x \in Strs, text[x].off.used \in Nat, text[x].off.used <= MaxTexts,
         NEW n \in Int, S!RoomFor(n)
  PROVE  text[x].off.used + n <= MaxTexts
<1> DEFINE f == [y \in Strs |-> text[y].off.used]
           P == {p \in Strs \X (0 .. MaxTexts - 1) : p[2] < f[p[1]]}
<1>1. MaxTexts \in Nat /\ IsFiniteSet(Strs)
  <2>1. S!IsFiniteSet(Strs)
    BY InstanceAssumption DEF S!TextAssumption
  <2> QED BY <2>1, SameFinite, TextConstants
<1>2. Cardinality(P) + n <= MaxTexts
  <2>1. P = {p \in Strs \X (0 .. MaxTexts - 1) : p[2] < S!CountOf(text[p[1]])}
    BY DEF S!CountOf
  <2>2. S!Cardinality(P) + n <= MaxTexts
    BY <2>1 DEF S!RoomFor
  <2> HIDE DEF P
  <2> QED BY <2>2, SameCount
<1>3. f[x] = text[x].off.used
  OBVIOUS
<1> HIDE DEF f
<1>4. f[x] \in Nat /\ f[x] <= MaxTexts
  BY <1>3
<1>5. f[x] + n <= MaxTexts
  BY <1>1, <1>2, <1>4, SpaceLeft
<1> QED BY <1>3, <1>5

\* Twins of one list are twins of each other, and so they part.
LEMMA TwinsStep ==
  ASSUME NEW x \in Strs, \A a, b \in Strs : TwinsAgree(a, b),
         NEW moved \in BOOLEAN, NEW mem,
         \A y \in Strs : y = x \/ y \in text[x].twins =>
           /\ moved => text'[y].twins = {}
           /\ ~moved => text'[y].twins = text[y].twins /\ text'[y].off.mem = mem,
         \A y \in Strs : ~(y = x \/ y \in text[x].twins) => text'[y] = text[y],
         ~moved => Len(mem) = Len(text[x].off.mem),
         NEW a \in Strs, NEW b \in Strs
  PROVE  TwinsAgree(a, b)'
<1> DEFINE In(y) == y = x \/ y \in text[x].twins
<1>1. SUFFICES ASSUME b \in text'[a].twins
               PROVE  /\ a # b /\ a \in text'[b].twins /\ Len(text'[a].off.mem) > 0
                      /\ text'[a].off.mem = text'[b].off.mem
                      /\ \A z \in Strs : z \in text'[a].twins => z = b \/ z \in text'[b].twins
  BY DEF TwinsAgree
<1>2. ASSUME NEW p \in Strs, NEW q \in Strs, q \in text[p].twins
      PROVE  /\ p # q /\ p \in text[q].twins /\ Len(text[p].off.mem) > 0
             /\ text[p].off.mem = text[q].off.mem
             /\ \A z \in Strs : z \in text[p].twins => z = q \/ z \in text[q].twins
  BY <1>2 DEF TwinsAgree
<1>3. CASE In(a)
  <2>1. ~moved /\ text'[a].twins = text[a].twins /\ text'[a].off.mem = mem
    BY <1>1, <1>3
  <2>2. b \in text[a].twins
    BY <1>1, <2>1
  <2>3. In(b)
    <3>1. CASE a = x
      BY <2>2, <3>1
    <3>2. CASE a \in text[x].twins
      <4>1. x \in text[a].twins
        BY <1>2, <3>2
      <4>2. \A z \in Strs : z \in text[a].twins => z = x \/ z \in text[x].twins
        BY <1>2, <4>1
      <4> QED BY <2>2, <4>2
    <3> QED BY <1>3, <3>1, <3>2
  <2>4. text'[b].twins = text[b].twins /\ text'[b].off.mem = mem
    BY <2>1, <2>3
  <2>5. Len(mem) > 0
    <3>1. Len(text[x].off.mem) > 0
      BY <1>2, <1>3, <2>2
    <3> QED BY <2>1, <3>1
  <2> QED BY <1>2, <2>1, <2>2, <2>4, <2>5
<1>4. CASE ~In(a)
  <2>1. text'[a] = text[a] /\ b \in text[a].twins
    BY <1>1, <1>4
  <2>2. ~In(b)
    <3>1. a \in text[b].twins
      BY <1>2, <2>1
    <3>2. b # x
      BY <1>4, <3>1
    <3>3. ASSUME b \in text[x].twins PROVE FALSE
      <4>1. x \in text[b].twins
        BY <1>2, <3>3
      <4>2. \A z \in Strs : z \in text[b].twins => z = x \/ z \in text[x].twins
        BY <1>2, <4>1
      <4> QED BY <1>4, <3>1, <4>2
    <3> QED BY <3>2, <3>3
  <2>3. text'[b] = text[b]
    BY <2>2
  <2> QED BY <1>2, <2>1, <2>3
<1> QED BY <1>3, <1>4

LEMMA FollowKeeps ==
  ASSUME NEW t, t \in TextType, NEW old, NEW new
  PROVE  LET g == S!Follow(t, old, new)
         IN  /\ S!Trusted(g) => S!Trusted(t)
             /\ g.kept = t.kept /\ g.off.used = t.off.used
<1> DEFINE g == S!Follow(t, old, new)
           lost == IF S!CountOf(old) < S!CountOf(t) /\ new.off # old.off THEN "overwritten" ELSE t.lost
<1>1. CASE Len(new.off.mem) # Len(old.off.mem)
  <2>1. g = [t EXCEPT !.lost = "dangling", !.twins = {}]
    BY <1>1 DEF S!Follow
  <2>2. g.lost = "dangling" /\ g.off = t.off /\ g.kept = t.kept
    BY <2>1 DEF TextType
  <2> QED BY <2>2 DEF S!Trusted
<1>2. CASE Len(new.off.mem) = Len(old.off.mem)
  <2>1. g = [t EXCEPT !.off.mem = new.off.mem, !.lost = lost]
    BY <1>2 DEF S!Follow, TextType
  <2>2. lost = "no" => t.lost = "no"
    OBVIOUS
  <2> HIDE DEF lost
  <2>3. g.lost = lost /\ g.kept = t.kept /\ g.refused = t.refused /\ g.slack = t.slack
        /\ g.off = [t.off EXCEPT !.mem = new.off.mem]
    BY <2>1 DEF TextType
  <2> HIDE DEF g
  <2>4. g.off.used = t.off.used /\ g.off.denied = t.off.denied
    BY <2>3, TextFacts DEF OffType
  <2> QED BY <2>2, <2>3, <2>4 DEF S!Trusted, S!Refused, g
<1> QED BY <1>1, <1>2

\* What a call may make of list x and say of it.
MayBecome(x, t, bad) ==
  /\ Whole(t) /\ t.off.used <= MaxTexts
  /\ Len(text[x].off.mem) > 0 => Shift(text[x], t)
  /\ bad = "none" => Offsets(t.off)
  /\ Len(t.off.mem) = Len(text[x].off.mem) => t.twins = text[x].twins
  /\ lang = "C" => t.twins = {}
  /\ text[x].lost = "dangling" => ~S!Trusted(t)
  /\ bad # "none" => ~S!Trusted(t) \/ \E y \in Strs : y # x /\ ~S!Trusted(text[y])

\* The list in question and the others, after a call.
Became(x, t) ==
  /\ lang' = lang /\ DOMAIN text' = Strs
  /\ text'[x].kept = t.kept /\ text'[x].off = t.off
  /\ S!Trusted(text'[x]) <=> S!Trusted(t)
  /\ \A y \in Strs : y # x => /\ text'[y].kept = text[y].kept /\ text'[y].off.used = text[y].off.used
                              /\ S!Trusted(text'[y]) => S!Trusted(text[y])

LEMMA Settled ==
  ASSUME DOMAIN text = Strs, ListsInv, NEW x \in Strs, NEW t, NEW bad, MayBecome(x, t, bad),
         S!Settle(x, t, bad)
  PROVE  /\ Became(x, t)
         /\ broken' = "none" => ListsInv'
         /\ broken' # "none" => \E y \in Strs : ~S!Trusted(text'[y])
         /\ broken = "none"
<1> DEFINE moved == Len(t.off.mem) # Len(text[x].off.mem)
           In(y) == y = x \/ y \in text[x].twins
<1>0. /\ \A y \in Strs : Whole(text[y]) /\ Offsets(text[y].off) /\ text[y].off.used <= MaxTexts
                         /\ text[y] \in TextType
      /\ \A a, b \in Strs : TwinsAgree(a, b)
      /\ Whole(t) /\ t \in TextType /\ OffFrame(t.off)
  BY DEF ListsInv, MayBecome, Whole, Frame
<1>1. x \notin text[x].twins
  BY <1>0 DEF TwinsAgree
<1>2. /\ broken = "none" /\ lang' = lang
      /\ broken' = IF text[x].lost = "dangling" THEN "dangling" ELSE bad
      /\ DOMAIN text' = Strs
      /\ text'[x] = IF moved THEN [t EXCEPT !.twins = {}] ELSE t
      /\ \A y \in Strs : y \in text[x].twins => text'[y] = S!Follow(text[y], text[x], t)
      /\ \A y \in Strs : ~In(y) => text'[y] = text[y]
  <2>1. text' = [y \in Strs |->
          IF y \in text[x].twins THEN S!Follow(text[y], text[x], t)
          ELSE IF y = x /\ moved THEN [t EXCEPT !.twins = {}]
          ELSE IF y = x THEN t ELSE text[y]]
    BY DEF S!Settle
  <2>2. /\ broken = "none" /\ lang' = lang
        /\ broken' = IF text[x].lost = "dangling" THEN "dangling" ELSE bad
    BY DEF S!Settle
  <2> HIDE DEF moved
  <2> QED BY <1>1, <2>1, <2>2
<1>3. /\ Whole(text'[x]) /\ (S!Trusted(text'[x]) <=> S!Trusted(t))
      /\ text'[x].off = t.off /\ text'[x].kept = t.kept
      /\ moved => text'[x].twins = {}
      /\ ~moved => text'[x].twins = text[x].twins
  <2>1. CASE moved
    <3>1. text'[x] = [t EXCEPT !.twins = {}]
      BY <1>2, <2>1
    <3> DEFINE g == [t EXCEPT !.twins = {}]
    <3>2. {} \in SUBSET Strs /\ Whole(t)
      BY <1>0
    <3>3. /\ Whole(g) /\ (S!Trusted(g) <=> S!Trusted(t))
          /\ g.off = t.off /\ g.kept = t.kept /\ g.twins = {}
      BY ONLY <3>2, TwinsApart
    <3> HIDE DEF g, moved
    <3> QED BY <2>1, <3>1, <3>3 DEF g
  <2>2. CASE ~moved
    <3>1. text'[x] = t
      BY <1>2, <2>2
    <3> QED BY <1>0, <2>2, <3>1 DEF MayBecome
  <2> QED BY <2>1, <2>2
<1>4. ASSUME NEW y \in Strs, y # x
      PROVE  /\ text'[y].kept = text[y].kept /\ text'[y].off.used = text[y].off.used
             /\ S!Trusted(text'[y]) => S!Trusted(text[y])
  <2>1. CASE y \in text[x].twins
    <3>1. text'[y] = S!Follow(text[y], text[x], t)
      BY <1>2, <2>1
    <3> QED BY <1>0, <3>1, FollowKeeps
  <2>2. CASE ~In(y)
    BY <1>2, <2>2
  <2> QED BY <1>4, <2>1, <2>2
<1>5. Became(x, t)
  BY <1>2, <1>3, <1>4 DEF Became
<1>6. ASSUME broken' # "none" PROVE \E y \in Strs : ~S!Trusted(text'[y])
  <2>1. ~S!Trusted(t) \/ \E y \in Strs : y # x /\ ~S!Trusted(text[y])
    BY <1>2, <1>6 DEF MayBecome
  <2> QED BY <1>3, <1>4, <2>1
<1>7. ASSUME broken' = "none" PROVE ListsInv'
  <2>1. Offsets(t.off) /\ text[x].lost # "dangling"
    BY <1>2, <1>7 DEF MayBecome
  <2>2. ASSUME NEW y \in Strs, y \in text[x].twins
        PROVE  /\ Whole(text'[y]) /\ Offsets(text'[y].off)
               /\ text'[y].off.used = text[y].off.used
               /\ moved => text'[y].twins = {}
               /\ ~moved => text'[y].twins = text[y].twins /\ text'[y].off.mem = t.off.mem
    <3>1. text[y].off.mem = text[x].off.mem /\ Len(text[x].off.mem) > 0
      BY <1>0, <2>2 DEF TwinsAgree
    <3>2. OffFrame(text[x].off) /\ Shift(text[x], t) /\ Whole(text[y]) /\ Offsets(text[y].off)
      BY <1>0, <3>1 DEF Whole, Frame, MayBecome
    <3>3. text'[y] = S!Follow(text[y], text[x], t)
      BY <1>2, <2>2
    <3> QED BY <1>0, <2>1, <3>1, <3>2, <3>3, FollowWhole
  <2>3. ASSUME NEW y \in Strs PROVE Whole(text'[y]) /\ Offsets(text'[y].off) /\ text'[y].off.used <= MaxTexts
    <3>1. CASE y = x
      BY <1>3, <2>1, <3>1 DEF MayBecome
    <3>2. CASE y \in text[x].twins
      BY <1>0, <2>2, <3>2
    <3>3. CASE ~In(y)
      BY <1>0, <1>2, <3>3
    <3> QED BY <3>1, <3>2, <3>3
  <2>4. ASSUME NEW a \in Strs, NEW b \in Strs PROVE TwinsAgree(a, b)'
    <3> DEFINE mem == t.off.mem
    <3>1. \A y \in Strs : y = x \/ y \in text[x].twins =>
            /\ moved => text'[y].twins = {}
            /\ ~moved => text'[y].twins = text[y].twins /\ text'[y].off.mem = mem
      BY <1>3, <2>2
    <3>2. \A y \in Strs : ~(y = x \/ y \in text[x].twins) => text'[y] = text[y]
      BY <1>2
    <3>3. moved \in BOOLEAN /\ (~moved => Len(mem) = Len(text[x].off.mem))
      OBVIOUS
    <3> HIDE DEF moved, mem
    <3> QED BY <1>0, <3>1, <3>2, <3>3, TwinsStep
  <2>5. ASSUME lang' = "C", NEW y \in Strs PROVE text'[y].twins = {}
    <3>1. lang = "C" /\ text[y].twins = {} /\ text[x].twins = {} /\ t.twins = {}
      BY <1>2, <2>5 DEF ListsInv, MayBecome
    <3>2. CASE y = x
      BY <1>3, <3>1, <3>2
    <3>3. CASE y # x
      BY <1>2, <3>1, <3>3
    <3> QED BY <3>2, <3>3
  <2> QED BY <2>3, <2>4, <2>5 DEF ListsInv
<1> QED BY <1>2, <1>5, <1>6, <1>7

-----------------------------------------------------------------------------
(* Steps of the lists. *)

LEMMA AddedFits ==
  ASSUME ListsInv, NEW x \in Strs, text[x].off.used < MaxTexts, NEW s, Clean(s),
         NEW r \in S!Added(text[x], s), NEW bad, bad = r.bad \/ r.bad = "none",
         bad # "none" /\ r.bad = "none" => \E y \in Strs : y # x /\ ~S!Trusted(text[y])
  PROVE  MayBecome(x, r.text, bad) /\ r.ok \in BOOLEAN /\ Grew(text[x], r.text, s, r.ok)
<1> DEFINE t == text[x]
<1>0. /\ Whole(t) /\ Offsets(t.off) /\ t.off.used <= MaxTexts /\ t.off.used \in Nat
      /\ lang = "C" => t.twins = {}
  BY OffFacts DEF ListsInv, Whole, Frame
<1>1. t.off.used < OffMax
  BY <1>0, TextConstants
<1>2. /\ Whole(r.text) /\ r.ok \in BOOLEAN /\ Grew(t, r.text, s, r.ok)
      /\ S!Trusted(r.text) => r.bad = "none"
      /\ Offsets(t.off) /\ r.bad = "none" => Offsets(r.text.off)
  <2> HIDE DEF t
  <2>1. r \in S!Added(t, s)
    BY DEF t
  <2> QED BY <1>0, <1>1, <2>1, AddedWhole
<1>3. r.text.off.used <= MaxTexts /\ Shift(t, r.text)
  <2>1. CASE r.ok
    BY <1>0, <1>2, <2>1, TextConstants DEF Grew, Shift
  <2>2. CASE ~r.ok
    BY <1>0, <1>2, <2>2 DEF Grew, Shift
  <2> QED BY <1>2, <2>1, <2>2
<1>4. r.text.twins = t.twins /\ (t.lost = "dangling" => ~S!Trusted(r.text))
  BY <1>2 DEF Grew, S!Trusted
<1> QED BY <1>0, <1>2, <1>3, <1>4 DEF MayBecome

LEMMA StaysFits ==
  ASSUME ListsInv, NEW x \in Strs, NEW bad, bad # "none" => ~S!Trusted(text[x])
  PROVE  MayBecome(x, text[x], bad)
BY DEF ListsInv, MayBecome, Shift, S!Trusted

\* Nothing of a list that can be trusted is outside its blocks.
LEMMA Reads ==
  ASSUME ListsInv, NEW x \in Strs, S!Unreadable(text[x])
  PROVE  ~S!Trusted(text[x])
<1> DEFINE t == text[x]
<1>0. Whole(t) /\ Offsets(t.off)
  BY DEF ListsInv
<1>1. t.off.used \in Nat /\ Len(t.off.mem) \in Nat /\ t.used \in Nat /\ Len(t.mem) \in Nat
  BY <1>0, OffFacts, TextFacts DEF Whole, Frame
<1> QED BY <1>0, <1>1 DEF S!Unreadable, S!CountOf, Whole, Sound, Offsets

LEMMA FreedFits ==
  ASSUME ListsInv, NEW x \in Strs, text[x].lost # "dangling"
  PROVE  MayBecome(x, S!NoText, "none")
<1> DEFINE e == S!NoText
<1>1. /\ Whole(e) /\ Offsets(e.off) /\ e.twins = {} /\ Len(e.off.mem) = 0 /\ e.off.used = 0
      /\ 0 <= MaxTexts
  BY EmptyWhole, TextConstants
<1> HIDE DEF e
<1>2. Len(text[x].off.mem) = 0 => text[x].twins = {}
  <2>1. ASSUME NEW y \in text[x].twins PROVE Len(text[x].off.mem) > 0
    <3>1. y \in Strs
      BY TextFacts DEF ListsInv, Whole, Frame
    <3> QED BY <3>1 DEF ListsInv, TwinsAgree
  <2> QED BY <2>1
<1>3. Len(text[x].off.mem) > 0 => Shift(text[x], e)
  BY <1>1 DEF Shift
<1> QED BY <1>1, <1>2, <1>3 DEF MayBecome, e

\* What a call leaves when it leaves no range behind.
Leaves ==
  /\ lang' = lang /\ DOMAIN text' = Strs
  /\ broken' = "none" => ListsInv'
  /\ broken' # "none" => \E y \in Strs : ~S!Trusted(text'[y])

LEMMA AppendStep ==
  ASSUME DOMAIN text = Strs, ListsInv, NEW x \in Strs, NEW s \in Texts, S!AppendText(x, s)
  PROVE  Leaves
<1>1. Clean(s)
  <2>1. s \in Seq(Nat \ {0}) /\ 2 * (Len(s) + BlockSize) <= IntSpan
    BY InstanceAssumption DEF S!TextAssumption, S!Nul
  <2>2. s \in Seq(Bytes) /\ \A i \in 1 .. Len(s) : s[i] # 0
    BY <2>1 DEF Bytes
  <2> QED BY <2>1, <2>2 DEF Clean, Small
<1>2. text[x].off.used < MaxTexts
  <2>1. text[x].off.used \in Nat /\ text[x].off.used <= MaxTexts
    BY OffFacts DEF ListsInv, Whole, Frame
  <2>2. text[x].off.used + 1 <= MaxTexts
    BY <2>1, RoomBound DEF S!AppendText
  <2> QED BY <2>1, <2>2, TextConstants
<1>3. PICK r \in S!Added(text[x], s) : S!Settle(x, r.text, r.bad)
  BY DEF S!AppendText
<1>4. MayBecome(x, r.text, r.bad)
  BY <1>1, <1>2, AddedFits
<1> QED BY <1>3, <1>4, Settled DEF Leaves, Became

LEMMA FreeStep ==
  ASSUME DOMAIN text = Strs, ListsInv, NEW x \in Strs, S!FreeText(x)
  PROVE  Leaves
<1> DEFINE bad == \/ text[x].lost = "dangling"
                  \/ text[x].live /\ text[x].used > Len(text[x].mem)
                  \/ S!CountOf(text[x]) > Len(text[x].off.mem)
<1>1. CASE bad
  <2>1. ~S!Trusted(text[x])
    BY <1>1, Reads DEF S!Unreadable, S!Trusted
  <2>2. MayBecome(x, text[x], "overrun")
    BY <2>1, StaysFits
  <2>3. S!Settle(x, text[x], "overrun")
    BY <1>1 DEF S!FreeText
  <2> QED BY <2>2, <2>3, Settled DEF Leaves, Became
<1>2. CASE ~bad
  <2>1. MayBecome(x, S!NoText, "none")
    BY <1>2, FreedFits
  <2>2. S!Settle(x, S!NoText, "none")
    BY <1>2 DEF S!FreeText
  <2> QED BY <2>1, <2>2, Settled DEF Leaves, Became
<1> QED BY <1>1, <1>2

\* dup(): the offsets are written over in a new block.
LEMMA DupOffsets ==
  ASSUME NEW t, Frame(t), Offsets(t.off), NEW v, OffFrame(v), ~v.denied, t.off.used <= v.allocated
  PROVE  LET w == S!Off!With(v, t.off.used,
                    [i \in DOMAIN v.mem |-> IF i <= t.off.used THEN S!OffsetOf(t, i - 1) ELSE v.mem[i]])
         IN  OffFrame(w) /\ Offsets(w) /\ w.used = t.off.used
             /\ \A i \in 1 .. t.off.used : w.mem[i] = t.off.mem[i]
<1> DEFINE n == t.off.used
           f == [i \in DOMAIN v.mem |-> IF i <= n THEN S!OffsetOf(t, i - 1) ELSE v.mem[i]]
           w == S!Off!With(v, n, f)
<1>0. /\ v \in OffType /\ v.mem \in Seq(Bytes) /\ DOMAIN v.mem = 1 .. Len(v.mem) /\ Len(v.mem) \in Nat
      /\ n \in Nat /\ v.allocated \in Nat /\ v.live \in BOOLEAN /\ v.denied \in BOOLEAN
      /\ v.allocated <= Len(v.mem) /\ n <= Len(v.mem)
  <2>1. n \in Nat
    BY OffFacts DEF Frame
  <2>2. v.allocated <= Len(v.mem)
    BY DEF OffFrame
  <2> HIDE DEF n
  <2>3. n <= v.allocated
    BY DEF n
  <2> QED BY <2>1, <2>2, <2>3, OffFacts
<1>1. ASSUME NEW i \in 1 .. n PROVE f[i] = t.off.mem[i] /\ f[i] \in Nat
  <2>1. i \in DOMAIN v.mem /\ i - 1 \in Nat /\ i - 1 < t.off.used /\ (i - 1) + 1 = i
    BY <1>0
  <2>2. S!OffsetOf(t, i - 1) = t.off.mem[i]
    BY <2>1, OffsetRead
  <2>3. t.off.mem[i] \in Nat
    BY DEF Offsets
  <2> QED BY <2>1, <2>2, <2>3
<1>2. f \in [DOMAIN v.mem -> Bytes]
  <2>1. ASSUME NEW i \in DOMAIN v.mem PROVE f[i] \in Bytes
    <3>1. CASE i <= n
      <4>1. i \in 1 .. n
        BY <1>0, <3>1
      <4> QED BY <1>1, <4>1 DEF Bytes
    <3>2. CASE ~(i <= n)
      BY <1>0, <3>2
    <3> QED BY <3>1, <3>2
  <2> QED BY <2>1
<1> HIDE DEF f, n
<1>3. f \in Seq(Bytes) /\ Len(f) = Len(v.mem)
  BY <1>0, <1>2, SameShape
<1>4. w = [live |-> v.live, mem |-> f, used |-> n, allocated |-> v.allocated, denied |-> v.denied]
  BY DEF S!Off!With
<1>5. /\ w.live = v.live /\ w.mem = f /\ w.used = n /\ w.allocated = v.allocated
      /\ w.denied = v.denied
  BY <1>4
<1>6. w \in OffType
  BY <1>0, <1>3, <1>4 DEF OffType
<1> HIDE DEF w
<1>7. OffFrame(w)
  <2>1. n <= v.allocated
    BY DEF n
  <2> QED BY <1>3, <1>5, <1>6, <2>1 DEF OffFrame
<1>8. Offsets(w)
  BY <1>0, <1>1, <1>3, <1>5 DEF Offsets
<1> QED BY <1>1, <1>5, <1>7, <1>8 DEF w, f, n

LEMMA DupStep ==
  ASSUME DOMAIN text = Strs, ListsInv, NEW d \in Strs, NEW s \in Strs, S!DupText(d, s)
  PROVE  Leaves
<1> DEFINE t == text[s]
           off(v) == S!Off!With(v, t.off.used,
                       [i \in DOMAIN v.mem |-> IF i <= t.off.used THEN S!OffsetOf(t, i - 1) ELSE v.mem[i]])
           bad == IF S!Unreadable(t) THEN "overrun" ELSE "none"
<1>0. /\ lang = "C" /\ text[d] = S!NoText /\ d # s
      /\ Whole(t) /\ Frame(t) /\ Offsets(t.off) /\ t.off.used <= MaxTexts /\ t.off.used \in Nat /\ t.twins = {}
  <2>1. lang = "C" /\ text[d] = S!NoText /\ d # s
    BY DEF S!DupText
  <2>2. Whole(t) /\ Frame(t) /\ Offsets(t.off) /\ t.off.used <= MaxTexts /\ t.twins = {}
    BY <2>1 DEF ListsInv, Whole
  <2> QED BY <2>1, <2>2, OffFacts DEF Frame
<1>1. CASE S!Settle(d, S!NoText, "none")
  <2>1. text[d].lost # "dangling"
    BY <1>0, EmptyWhole
  <2> QED BY <1>1, <2>1, FreedFits, Settled DEF Leaves, Became
<1>2. ASSUME S!Off!BlockAlign(t.used) <= HeapMax, NEW r \in S!Off!InitEx(t.off.used), r.ok,
             S!Settle(d, S!CopyOf(t, off(r.vec)), bad)
      PROVE  Leaves
  <2> DEFINE w == off(r.vec)
             g == S!CopyOf(t, w)
  <2>1. OffFrame(r.vec) /\ ~r.vec.denied /\ t.off.used <= r.vec.allocated
    BY <1>0, <1>2, OffInit
  <2>2. /\ OffFrame(w) /\ Offsets(w) /\ w.used = t.off.used
        /\ \A i \in 1 .. t.off.used : w.mem[i] = t.off.mem[i]
    BY <1>0, <2>1, DupOffsets
  <2>3. BlockAlign(t.used) <= HeapMax
    BY <1>2, SameArithmetic
  <2>4. S!Settle(d, g, bad)
    BY <1>2
  <2> HIDE DEF w, t
  <2>5. /\ Whole(g) /\ (S!Trusted(g) => S!Trusted(t))
        /\ g.off = w /\ g.kept = t.kept /\ g.twins = t.twins /\ g.lost = t.lost
    BY <1>0, <2>2, <2>3, CopyWhole
  <2> HIDE DEF g
  <2>6. bad # "none" => \E y \in Strs : y # d /\ ~S!Trusted(text[y])
    BY <1>0, Reads DEF t
  <2> HIDE DEF bad
  <2>7. text[d].twins = {} /\ text[d].lost # "dangling" /\ Len(text[d].off.mem) = 0
    BY <1>0, EmptyWhole
  <2>8. MayBecome(d, g, bad)
    BY <1>0, <2>2, <2>5, <2>6, <2>7 DEF MayBecome
  <2> QED BY <2>4, <2>8, Settled DEF Leaves, Became
<1>3. \/ S!Settle(d, S!NoText, "none")
      \/ /\ S!Off!BlockAlign(t.used) <= HeapMax
         /\ \E r \in S!Off!InitEx(t.off.used) : r.ok /\ S!Settle(d, S!CopyOf(t, off(r.vec)), bad)
  BY DEF S!DupText, S!CountOf
<1> HIDE DEF t, off, bad
<1> QED BY <1>1, <1>2, <1>3

\* A list and its twins, and the copy that joins them.
TwinsAll == \A a, b \in Strs : TwinsAgree(a, b)

Joined(W, mem) ==
  \A y \in Strs : /\ y \in W => text'[y].twins = W \ {y} /\ text'[y].off.mem = mem
                  /\ y \notin W => text'[y] = text[y]

LEMMA TwinsJoin ==
  ASSUME TwinsAll, NEW s \in Strs, NEW d \in Strs, s # d,
         text[d].twins = {}, Len(text[s].off.mem) > 0, NEW W, W = text[s].twins \cup {s, d},
         Joined(W, text[s].off.mem), NEW a \in Strs, NEW b \in Strs
  PROVE  TwinsAgree(a, b)'
<1>1. SUFFICES ASSUME b \in text'[a].twins
               PROVE  /\ a # b /\ a \in text'[b].twins /\ Len(text'[a].off.mem) > 0
                      /\ text'[a].off.mem = text'[b].off.mem
                      /\ \A z \in Strs : z \in text'[a].twins => z = b \/ z \in text'[b].twins
  BY DEF TwinsAgree
<1>2. ASSUME NEW p \in Strs, NEW q \in Strs, q \in text[p].twins
      PROVE  /\ p # q /\ p \in text[q].twins /\ Len(text[p].off.mem) > 0
             /\ text[p].off.mem = text[q].off.mem
             /\ \A z \in Strs : z \in text[p].twins => z = q \/ z \in text[q].twins
  BY <1>2 DEF TwinsAgree, TwinsAll
<1>3. CASE a \in W
  <2>1. text'[a].twins = W \ {a} /\ text'[a].off.mem = text[s].off.mem
    BY <1>3 DEF Joined
  <2>2. b \in W /\ a # b
    BY <1>1, <2>1
  <2>3. text'[b].twins = W \ {b} /\ text'[b].off.mem = text[s].off.mem
    BY <2>2 DEF Joined
  <2> QED BY <1>3, <2>1, <2>2, <2>3
<1>4. CASE a \notin W
  <2>1. text'[a] = text[a] /\ b \in text[a].twins
    BY <1>1, <1>4 DEF Joined
  <2>2. a \in text[b].twins /\ b # d
    BY <1>2, <2>1
  <2>3. b # s
    BY <1>4, <2>2
  <2>4. ASSUME b \in text[s].twins PROVE FALSE
    <3>1. s \in text[b].twins
      BY <1>2, <2>4
    <3>2. \A z \in Strs : z \in text[b].twins => z = s \/ z \in text[s].twins
      BY <1>2, <3>1
    <3> QED BY <1>4, <2>2, <3>2
  <2>5. text'[b] = text[b]
    BY <2>2, <2>3, <2>4 DEF Joined
  <2> QED BY <1>2, <2>1, <2>5
<1> QED BY <1>3, <1>4

LEMMA CopyStep ==
  ASSUME DOMAIN text = Strs, ListsInv, NEW d \in Strs, NEW s \in Strs, S!CopyText(d, s)
  PROVE  Leaves
<1> DEFINE t == text[s]
           W == t.twins \cup {s, d}
           g == S!CopyOf(t, t.off)
<1>0. /\ lang = "C++" /\ text[d] = S!NoText /\ d # s /\ t.off.allocated > 0
      /\ BlockAlign(t.used) <= HeapMax /\ lang' = lang
      /\ broken' = IF t.lost = "dangling" THEN "dangling" ELSE IF S!Unreadable(t) THEN "overrun" ELSE "none"
      /\ text' = [y \in Strs |->
           IF y = d THEN [g EXCEPT !.twins = W \ {d}]
           ELSE IF y \in W THEN [text[y] EXCEPT !.twins = W \ {y}] ELSE text[y]]
  BY SameArithmetic DEF S!CopyText
<1>1. /\ \A y \in Strs : Whole(text[y]) /\ Offsets(text[y].off) /\ text[y].off.used <= MaxTexts
                         /\ text[y].twins \in SUBSET Strs
      /\ \A a, b \in Strs : TwinsAgree(a, b)
  BY TextFacts DEF ListsInv, Whole, Frame
<1>2. W \in SUBSET Strs
  BY <1>1
<1>3. /\ Whole(g) /\ (S!Trusted(g) => S!Trusted(t))
      /\ g.off = t.off /\ g.twins = t.twins /\ g.lost = t.lost
  <2> HIDE DEF t
  <2>1. Whole(t) /\ OffFrame(t.off) /\ BlockAlign(t.used) <= HeapMax
    BY <1>0, <1>1 DEF t, Whole, Frame
  <2>2. \A i \in 1 .. t.off.used : t.off.mem[i] = t.off.mem[i]
    OBVIOUS
  <2> QED BY <2>1, <2>2, CopyWhole
<1>4. Len(t.off.mem) > 0
  BY <1>0, <1>1 DEF Whole, Frame, OffFrame
<1> HIDE DEF g
<1>5. /\ text'[d] = [g EXCEPT !.twins = W \ {d}]
      /\ \A y \in Strs : y # d /\ y \in W => text'[y] = [text[y] EXCEPT !.twins = W \ {y}]
      /\ \A y \in Strs : y \notin W => text'[y] = text[y]
      /\ DOMAIN text' = Strs
  <2> HIDE DEF t, W
  <2>1. d \in W
    BY DEF W
  <2> QED BY <1>0, <2>1
<1>6. ASSUME NEW y \in Strs, y \in W
      PROVE  /\ Whole(text'[y]) /\ Offsets(text'[y].off) /\ text'[y].off.used <= MaxTexts
             /\ text'[y].twins = W \ {y} /\ text'[y].off.mem = t.off.mem
             /\ y # d => (S!Trusted(text'[y]) <=> S!Trusted(text[y]))
  <2> DEFINE w == W \ {y}
  <2>1. w \in SUBSET Strs
    BY <1>2
  <2>2. CASE y = d
    <3> HIDE DEF w, W
    <3>1. text'[y] = [g EXCEPT !.twins = w]
      BY <1>5, <2>2 DEF w
    <3>2. Whole(text'[y]) /\ text'[y].off = g.off /\ text'[y].twins = w
      BY <1>3, <2>1, <3>1, TwinsApart
    <3> QED BY <1>1, <1>3, <2>2, <3>2 DEF w
  <2>3. CASE y # d
    <3>1. text[y].off.mem = t.off.mem
      BY <1>1, <1>6, <2>3 DEF TwinsAgree
    <3> HIDE DEF w, W
    <3>2. text'[y] = [text[y] EXCEPT !.twins = w] /\ Whole(text[y])
      BY <1>1, <1>5, <1>6, <2>3 DEF w
    <3>3. /\ Whole(text'[y]) /\ text'[y].off = text[y].off /\ text'[y].twins = w
          /\ S!Trusted(text'[y]) <=> S!Trusted(text[y])
      BY <2>1, <3>2, TwinsApart
    <3> QED BY <1>1, <3>1, <3>3 DEF w
  <2> QED BY <2>2, <2>3
<1>7. ASSUME NEW y \in Strs
      PROVE Whole(text'[y]) /\ Offsets(text'[y].off) /\ text'[y].off.used <= MaxTexts
  BY <1>1, <1>5, <1>6
<1>8. ASSUME NEW a \in Strs, NEW b \in Strs PROVE TwinsAgree(a, b)'
  <2>1. text[d].twins = {}
    BY <1>0, EmptyWhole
  <2>2. Joined(W, text[s].off.mem)
    BY <1>5, <1>6 DEF Joined
  <2>3. W = text[s].twins \cup {s, d} /\ Len(text[s].off.mem) > 0
    BY <1>4
  <2>4. s # d /\ TwinsAll
    BY <1>0, <1>1 DEF TwinsAll
  <2> HIDE DEF t, W
  <2> QED BY ONLY <2>1, <2>2, <2>3, <2>4, s \in Strs, d \in Strs, a \in Strs, b \in Strs, TwinsJoin
<1>9. ListsInv'
  BY <1>0, <1>7, <1>8 DEF ListsInv
<1>10. ASSUME broken' # "none" PROVE \E y \in Strs : ~S!Trusted(text'[y])
  <2>1. t.lost = "dangling" \/ S!Unreadable(t)
    BY <1>0, <1>10
  <2>2. ~S!Trusted(t)
    BY <2>1, Reads DEF S!Trusted
  <2>3. s \in W /\ s # d
    BY <1>0
  <2> QED BY <1>6, <2>2, <2>3
<1> QED BY <1>0, <1>5, <1>9, <1>10 DEF Leaves

\* A range begins.
LEMMA BeginStep ==
  ASSUME DOMAIN text = Strs, ListsInv, lang \in {"C", "C++"}, NEW d \in Strs, NEW s \in Strs,
         NEW b \in 0 .. MaxTexts, NEW n \in RangeLengths, S!BeginRange(d, s, b, n)
  PROVE  lang' = lang /\ text' = text /\ broken' = "none" /\ broken = "none" /\ Progress'
<1> DEFINE t == text[s]
           u == text[d]
           e == S!RangeEnd(t, b, n)
           c == [dst |-> d, src |-> s, begin |-> b, n |-> n, at |-> b, end |-> e,
                 before |-> u.kept, missed |-> FALSE]
<1>1. /\ lang' = lang /\ text' = text /\ broken' = broken /\ broken = "none"
      /\ d # s /\ b < t.off.used /\ S!RoomFor(e - b) /\ call' = c
  BY DEF S!BeginRange, S!CountOf
<1>2. /\ Whole(t) /\ Whole(u) /\ t \in TextType /\ u \in TextType
      /\ u.off.used \in Nat /\ u.off.used <= MaxTexts
      /\ t.off.used \in Nat /\ t.used \in Nat /\ Len(t.mem) \in Nat /\ u.kept \in Seq(Seq(Bytes))
  BY TextFacts, OffFacts DEF ListsInv, Whole, Frame
<1>3. b \in Nat /\ n \in Nat /\ OffSpan \in Nat \ {0}
  <2>1. RangeLengths \subseteq 0 .. OffSpan - 1
    BY InstanceAssumption DEF S!TextAssumption
  <2> QED BY <2>1, TextConstants
<1> DEFINE whole == (b + n) % OffSpan
           part  == IF lang = "C" THEN t.off.used ELSE t.used % OffSpan
<1>4. whole \in Nat /\ part \in Nat
  BY <1>2, <1>3, DivMod
<1>5. e = IF whole <= part THEN whole ELSE part
  <2>1. e = Min({whole, part})
    BY SameMin DEF S!RangeEnd, S!CountOf
  <2> HIDE DEF e, whole, part
  <2> QED BY <1>4, <2>1, MinOfTwo
<1>6. e \in Nat
  <2> HIDE DEF e, whole, part
  <2> QED BY <1>4, <1>5
<1>7. u.off.used + (e - b) <= MaxTexts
  <2> HIDE DEF e
  <2>1. e - b \in Int
    BY <1>3, <1>6
  <2> QED BY <1>1, <1>2, <2>1, RoomBound
<1>8. ASSUME Regular(lang, c, t, u) PROVE OnCourse(c, t, u)
  <2>1. /\ S!Trusted(t) /\ b + n < OffSpan /\ (lang = "C" \/ b + n <= t.off.used)
    BY <1>8 DEF Regular
  <2>2. whole = b + n
    BY <1>3, <2>1
  <2>3. lang # "C" => b + n <= part
    <3>1. t.used <= Len(t.mem) /\ t.off.used <= t.used /\ Small(Len(t.mem))
      BY <1>2, <2>1 DEF Whole, Sound, Frame
    <3>2. t.used < OffSpan
      <4> HIDE DEF t
      <4> QED BY <1>2, <3>1, TextConstants DEF Small
    <3> HIDE DEF t
    <3>3. \A x, m \in Nat : x < m => x % m = x
      BY Z3
    <3>4. lang # "C" => part = t.used
      BY <1>2, <1>3, <3>2, <3>3
    <3> HIDE DEF part
    <3> QED BY <1>2, <1>3, <2>1, <3>1, <3>4
  <2>4. lang = "C" => part = t.off.used
    OBVIOUS
  <2> HIDE DEF whole, part, e
  <2>5. e = IF b + n <= t.off.used THEN b + n ELSE t.off.used
    BY <1>2, <1>3, <1>4, <1>5, <2>1, <2>2, <2>3, <2>4
  <2>6. b <= e
    BY <1>1, <1>2, <1>3, <2>5
  <2>7. u.kept = u.kept \o SubSeq(t.kept, b + 1, b)
    <3>1. SubSeq(t.kept, b + 1, b) = <<>>
      BY <1>2, <1>3, TextFacts
    <3> QED BY <1>2, <3>1
  <2> QED BY <1>3, <2>5, <2>6, <2>7 DEF OnCourse
<1>9. c \in CallType
  <2> HIDE DEF e
  <2> QED BY <1>2, <1>3, <1>6 DEF CallType
<1>10. Going(lang, c, t, u)
  <2> HIDE DEF t, u, e
  <2>1. c.dst = d /\ c.src = s /\ c.begin = b /\ c.end = e /\ c.at = b
    OBVIOUS
  <2> QED BY <1>1, <1>7, <1>8, <1>9, <2>1 DEF Going
<1> HIDE DEF c
<1>11. call'.src = s /\ call'.dst = d
  BY <1>1 DEF c
<1>12. Going(lang', call', text'[s], text'[d])
  BY <1>1, <1>10
<1> QED BY <1>1, <1>11, <1>12 DEF Progress

AppendsLast(p, q, e) == Append(p \o q, e) = p \o Append(q, e)

LEMMA AppendAfter ==
  ASSUME NEW T, NEW p \in Seq(T), NEW q \in Seq(T), NEW e \in T
  PROVE  AppendsLast(p, q, e)
<1>1. p \o q \in Seq(T) /\ <<e>> \in Seq(T)
  OBVIOUS
<1>2. Append(p \o q, e) = (p \o q) \o <<e>> /\ Append(q, e) = q \o <<e>>
  BY <1>1, AppendIsConcat
<1> QED BY <1>1, <1>2, ConcatAssociative DEF AppendsLast

\* One more of a sequence.
LEMMA MoreTaken ==
  ASSUME NEW before \in Seq(Seq(Bytes)), NEW kept \in Seq(Seq(Bytes)), NEW b \in Nat, NEW a \in Nat,
         b <= a, a < Len(kept)
  PROVE  Append(before \o SubSeq(kept, b + 1, a), kept[a + 1]) = before \o SubSeq(kept, b + 1, a + 1)
<1> DEFINE p == SubSeq(kept, b + 1, a)
           q == SubSeq(kept, b + 1, a + 1)
<1>1. p \in Seq(Seq(Bytes)) /\ kept[a + 1] \in Seq(Bytes)
  OBVIOUS
<1>2. q = Append(p, kept[a + 1])
  OBVIOUS
<1> HIDE DEF p, q
<1>3. Append(before \o p, kept[a + 1]) = before \o Append(p, kept[a + 1])
  <2> DEFINE T == Seq(Bytes)
             e == kept[a + 1]
  <2>1. before \in Seq(T) /\ p \in Seq(T) /\ e \in T
    BY <1>1
  <2> HIDE DEF T, e
  <2>2. AppendsLast(before, p, e)
    BY ONLY <2>1, AppendAfter
  <2> QED BY ONLY <2>2 DEF e, AppendsLast
<1> QED BY <1>2, <1>3 DEF p, q

\* What a string does to a range under way.
After(t, u, g, tt, uu) ==
  /\ tt.kept = t.kept /\ tt.off.used = t.off.used /\ (S!Trusted(tt) => S!Trusted(t))
  /\ uu.kept = g.kept /\ uu.off = g.off /\ (S!Trusted(uu) <=> S!Trusted(g))

CallAfter(l, c, ok) ==
  [c EXCEPT !.missed = @ \/ ~ok, !.at = IF ok \/ l = "C" THEN @ + 1 ELSE c.end]

LEMMA GoesOn ==
  ASSUME NEW l, NEW c, NEW t, NEW u, Going(l, c, t, u), c.at < c.end, NEW ok \in BOOLEAN,
         Whole(t), Whole(u), Offsets(t.off), NEW g, Grew(u, g, S!Get(t, c.at), ok),
         NEW tt, NEW uu, After(t, u, g, tt, uu)
  PROVE  Going(l, CallAfter(l, c, ok), tt, uu)
<1> DEFINE k == CallAfter(l, c, ok)
           at == IF ok \/ l = "C" THEN c.at + 1 ELSE c.end
<1>0. /\ c \in CallType /\ c.dst # c.src /\ c.begin < t.off.used
      /\ u.off.used + (c.end - c.at) <= MaxTexts
      /\ c.dst \in Strs /\ c.src \in Strs /\ c.begin \in Nat /\ c.n \in Nat /\ c.at \in Nat
      /\ c.end \in Nat /\ c.before \in Seq(Seq(Bytes)) /\ c.missed \in BOOLEAN
  BY DEF Going, CallType
<1>1. /\ Frame(t) /\ Frame(u) /\ t.off.used \in Nat /\ u.off.used \in Nat
      /\ t.kept \in Seq(Seq(Bytes)) /\ Len(t.kept) \in Nat
  BY TextFacts, OffFacts DEF Whole, Frame
<1>2. /\ k.dst = c.dst /\ k.src = c.src /\ k.begin = c.begin /\ k.n = c.n /\ k.end = c.end
      /\ k.before = c.before /\ k.missed = (c.missed \/ ~ok) /\ k.at = at
  BY <1>0 DEF CallAfter, CallType
<1>3. at \in Nat /\ c.at < at /\ at <= c.end /\ (ok => at = c.at + 1)
  BY <1>0
<1>4. k \in CallType
  <2>1. k = [c EXCEPT !.missed = @ \/ ~ok, !.at = at]
    BY <1>0 DEF CallAfter, CallType
  <2> HIDE DEF k, at
  <2> QED BY <1>0, <1>3, <2>1 DEF CallType
<1> HIDE DEF k, at
<1>5. tt.off.used = t.off.used /\ tt.kept = t.kept /\ (S!Trusted(tt) => S!Trusted(t))
      /\ uu.kept = g.kept /\ uu.off.used = g.off.used /\ (S!Trusted(uu) => S!Trusted(u))
  BY DEF After, Grew
<1>6. /\ ok => g.kept = Append(u.kept, S!Get(t, c.at)) /\ g.off.used = u.off.used + 1
      /\ ~ok => g.off.used = u.off.used
  BY DEF Grew
<1>7. k.at < k.end => uu.off.used + (k.end - k.at) <= MaxTexts
  <2>1. MaxTexts \in Nat
    BY TextConstants
  <2>2. uu.off.used <= u.off.used + 1 /\ uu.off.used \in Nat /\ (~ok => uu.off.used = u.off.used)
    BY <1>1, <1>5, <1>6
  <2>3. c.at + 1 <= at /\ k.at = at /\ k.end = c.end
    BY <1>0, <1>2, <1>3
  <2>4. \A m, n, a, b, e, M \in Nat :
          m + (e - a) <= M /\ n <= m + 1 /\ a + 1 <= b => n + (e - b) <= M
    OBVIOUS
  <2>5. uu.off.used + (c.end - at) <= MaxTexts
    BY <1>0, <1>1, <1>3, <2>1, <2>2, <2>3, <2>4
  <2> QED BY <2>3, <2>5
<1>8. ASSUME Regular(l, k, tt, uu) PROVE OnCourse(k, tt, uu)
  <2>1. /\ S!Trusted(t) /\ ok /\ Regular(l, c, t, u)
    BY <1>0, <1>2, <1>5, <1>8 DEF Regular
  <2>2. OnCourse(c, t, u)
    BY <2>1 DEF Going
  <2>3. /\ c.begin <= c.at /\ c.at < t.off.used
        /\ c.end = IF c.begin + c.n <= t.off.used THEN c.begin + c.n ELSE t.off.used
        /\ u.kept = c.before \o SubSeq(t.kept, c.begin + 1, c.at)
    BY <1>0, <1>1, <2>2 DEF OnCourse
  <2>4. Sound(t) /\ t.lost = "no" /\ Len(t.kept) = t.off.used
    BY <2>1 DEF Whole, Sound, S!Trusted
  <2>5. S!Get(t, c.at) = t.kept[c.at + 1]
    <3>1. t.off.used > 0 /\ c.at \in Nat /\ Frame(t) /\ Offsets(t.off)
      BY <1>0, <1>1, <2>3
    <3> QED BY <2>3, <2>4, <3>1, ReadsBack
  <2>6. g.kept = c.before \o SubSeq(t.kept, c.begin + 1, c.at + 1)
    <3>1. g.kept = Append(c.before \o SubSeq(t.kept, c.begin + 1, c.at), t.kept[c.at + 1])
      BY <1>6, <2>1, <2>3, <2>5
    <3>2. c.at < Len(t.kept)
      BY <2>3, <2>4
    <3> DEFINE b == c.begin
               a == c.at
               before == c.before
               kept == t.kept
    <3>4. /\ before \in Seq(Seq(Bytes)) /\ kept \in Seq(Seq(Bytes)) /\ b \in Nat /\ a \in Nat
          /\ b <= a /\ a < Len(kept)
      BY <1>0, <1>1, <2>3, <3>2
    <3> HIDE DEF a, b, before, kept
    <3>5. Append(before \o SubSeq(kept, b + 1, a), kept[a + 1]) = before \o SubSeq(kept, b + 1, a + 1)
      BY ONLY <3>4, MoreTaken
    <3> QED BY ONLY <3>1, <3>5 DEF a, b, before, kept
  <2>7. k.begin <= k.at /\ k.at <= k.end /\ k.at = c.at + 1
    BY <1>0, <1>2, <1>3, <2>1, <2>3
  <2> QED BY <1>2, <1>5, <2>3, <2>6, <2>7 DEF OnCourse
<1> QED BY <1>0, <1>2, <1>4, <1>5, <1>7, <1>8 DEF Going, k

\* One string of a range.
LEMMA NextStep ==
  ASSUME DOMAIN text = Strs, ListsInv, broken = "none" => Progress, S!AddNext
  PROVE  Leaves /\ Progress'
<1> DEFINE s == call.src
           d == call.dst
           t == text[s]
           u == text[d]
<1>1. PICK r \in S!Added(u, S!Get(t, call.at)) :
        /\ S!Settle(d, r.text, IF r.bad = "none" THEN S!Unended(t, call.at) ELSE r.bad)
        /\ call' = [call EXCEPT !.missed = @ \/ ~r.ok,
                      !.at = IF r.ok \/ lang = "C" THEN @ + 1 ELSE call.end]
  BY DEF S!AddNext
<1>2. call.at < call.end
  BY DEF S!AddNext
<1> DEFINE bad == IF r.bad = "none" THEN S!Unended(t, call.at) ELSE r.bad
<1>3. broken = "none" /\ Going(lang, call, t, u)
  BY <1>1 DEF S!Settle, Progress
<1>4. /\ call \in CallType /\ d \in Strs /\ s \in Strs /\ d # s /\ call.at \in Nat /\ call.end \in Nat
      /\ call.begin \in Nat /\ call.begin < t.off.used /\ u.off.used + (call.end - call.at) <= MaxTexts
  BY <1>2, <1>3 DEF Going, CallType
<1>5. /\ Whole(t) /\ Whole(u) /\ Offsets(t.off) /\ Frame(t) /\ t.off.used \in Nat /\ u.off.used \in Nat
  BY <1>4, OffFacts DEF ListsInv, Whole, Frame
<1>6. Clean(S!Get(t, call.at))
  BY <1>4, <1>5, ReadClean
<1>7. u.off.used < MaxTexts
  BY <1>2, <1>4, <1>5, TextConstants
<1>8. bad # "none" /\ r.bad = "none" => \E y \in Strs : y # d /\ ~S!Trusted(text[y])
  <2>1. SUFFICES ASSUME S!Trusted(t), r.bad = "none" PROVE bad = "none"
    BY <1>4
  <2>2. Sound(t) /\ t.lost = "no" /\ t.off.used > 0
    BY <1>4, <1>5, <2>1 DEF Whole, S!Trusted
  <2>3. S!Unended(t, call.at) = "none"
    BY <1>4, <1>5, <2>2, ReadsBack
  <2> QED BY <2>1, <2>3
<1>9. bad = r.bad \/ r.bad = "none"
  OBVIOUS
<1>10. S!Settle(d, r.text, bad)
  BY <1>1
<1> HIDE DEF bad
<1>11. MayBecome(d, r.text, bad) /\ r.ok \in BOOLEAN /\ Grew(u, r.text, S!Get(t, call.at), r.ok)
  BY <1>1, <1>4, <1>6, <1>7, <1>8, <1>9, AddedFits
<1>12. Leaves /\ Became(d, r.text)
  BY <1>4, <1>10, <1>11, Settled DEF Leaves, Became
<1>13. After(t, u, r.text, text'[s], text'[d]) /\ lang' = lang
  BY <1>4, <1>12 DEF Became, After
<1>14. Going(lang, CallAfter(lang, call, r.ok), text'[s], text'[d])
  BY <1>2, <1>3, <1>5, <1>11, <1>13, GoesOn
<1>15. call' = CallAfter(lang, call, r.ok)
  BY <1>1 DEF CallAfter
<1>16. call'.src = s /\ call'.dst = d
  BY <1>4, <1>15 DEF CallAfter, CallType
<1> QED BY <1>12, <1>13, <1>14, <1>15, <1>16 DEF Progress

\* Every step of the lists keeps what they are.
LEMMA TextStep ==
  ASSUME TextInv, [S!SNext]_S!svars
  PROVE  TextInv'
<1>0. /\ lang \in {"C", "C++"} /\ DOMAIN text = Strs
      /\ broken = "none" => ListsInv /\ (call # S!NoCall => Progress)
      /\ broken # "none" => \E x \in Strs : ~S!Trusted(text[x])
  BY DEF TextInv
<1>1. ASSUME Leaves, call' = S!NoCall \/ (broken' = "none" => Progress')
      PROVE  TextInv'
  BY <1>0, <1>1 DEF TextInv, Leaves
<1>2. ASSUME NEW x \in Strs, NEW s \in Texts, S!AppendText(x, s) PROVE TextInv'
  <2>1. broken = "none" /\ call' = S!NoCall
    BY <1>2 DEF S!AppendText, S!Settle
  <2> QED BY <1>0, <1>1, <1>2, <2>1, AppendStep
<1>3. ASSUME NEW x \in Strs, S!FreeText(x) PROVE TextInv'
  <2>1. broken = "none" /\ call' = S!NoCall
    BY <1>3 DEF S!FreeText, S!Settle
  <2> QED BY <1>0, <1>1, <1>3, <2>1, FreeStep
<1>4. ASSUME NEW d \in Strs, NEW s \in Strs, S!DupText(d, s) PROVE TextInv'
  <2>1. broken = "none" /\ call' = S!NoCall
    BY <1>4 DEF S!DupText, S!Settle
  <2> QED BY <1>0, <1>1, <1>4, <2>1, DupStep
<1>5. ASSUME NEW d \in Strs, NEW s \in Strs, S!CopyText(d, s) PROVE TextInv'
  <2>1. broken = "none" /\ call' = S!NoCall
    BY <1>5 DEF S!CopyText
  <2> QED BY <1>0, <1>1, <1>5, <2>1, CopyStep
<1>6. ASSUME NEW d \in Strs, NEW s \in Strs, NEW b \in 0 .. MaxTexts, NEW n \in RangeLengths,
             S!BeginRange(d, s, b, n)
      PROVE  TextInv'
  <2>1. broken = "none"
    BY <1>6 DEF S!BeginRange
  <2>2. lang' = lang /\ text' = text /\ broken' = "none" /\ Progress'
    BY <1>0, <1>6, <2>1, BeginStep
  <2>3. ListsInv'
    BY <1>0, <2>1, <2>2 DEF ListsInv, TwinsAgree
  <2> QED BY <1>0, <2>2, <2>3 DEF TextInv
<1>7. CASE S!AddNext
  <2>1. broken = "none" /\ call # S!NoCall
    BY <1>7 DEF S!AddNext, S!Settle
  <2> QED BY <1>0, <1>1, <1>7, <2>1, NextStep
<1>8. CASE S!EndRange
  <2>1. lang' = lang /\ text' = text /\ broken = "none" /\ broken' = broken /\ call' = S!NoCall
    BY <1>8 DEF S!EndRange
  <2>2. ListsInv'
    BY <1>0, <2>1 DEF ListsInv, TwinsAgree
  <2> QED BY <1>0, <2>1, <2>2 DEF TextInv
<1>9. CASE UNCHANGED S!svars
  <2>1. lang' = lang /\ text' = text /\ broken' = broken /\ call' = call
    BY <1>9 DEF S!svars
  <2>2. broken = "none" => ListsInv' /\ (call # S!NoCall => Progress')
    BY <1>0, <2>1 DEF ListsInv, TwinsAgree, Progress
  <2> QED BY <1>0, <2>1, <2>2 DEF TextInv
<1>10. CASE S!Shattered
  BY <1>9, <1>10 DEF S!Shattered
<1> QED BY <1>2, <1>3, <1>4, <1>5, <1>6, <1>7, <1>8, <1>9, <1>10 DEF S!SNext

\* A list that can be trusted is read back as it was made.
LEMMA Intact ==
  ASSUME TextInv
  PROVE  S!StringsIntact
<1> SUFFICES ASSUME broken = "none", NEW x \in Strs, S!Trusted(text[x])
             PROVE  /\ \A i \in DOMAIN text[x].kept :
                         S!PtrList(text[x])[i] = text[x].kept[i] /\ S!Unended(text[x], i - 1) = "none"
                    /\ S!CountOf(text[x]) = Len(text[x].kept)
  BY DEF S!StringsIntact
<1> DEFINE t == text[x]
<1>1. /\ Frame(t) /\ Sound(t) /\ Offsets(t.off) /\ t.lost = "no"
      /\ t.kept \in Seq(Seq(Bytes)) /\ t.off.used \in Nat
  BY TextFacts, OffFacts DEF TextInv, ListsInv, Whole, Frame, S!Trusted
<1> HIDE DEF t
<1>2. Len(t.kept) = t.off.used
  BY <1>1 DEF Sound
<1>3. ASSUME NEW i \in DOMAIN t.kept
      PROVE  S!PtrList(t)[i] = t.kept[i] /\ S!Unended(t, i - 1) = "none"
  <2>1. i \in 1 .. t.off.used /\ t.off.used > 0 /\ i - 1 \in Nat /\ i - 1 < t.off.used /\ (i - 1) + 1 = i
    BY <1>1, <1>2
  <2>2. S!Get(t, i - 1) = t.kept[i] /\ S!Unended(t, i - 1) = "none"
    BY <1>1, <2>1, ReadsBack
  <2> QED BY <2>1, <2>2 DEF S!PtrList, S!CountOf
<1> QED BY <1>2, <1>3 DEF S!CountOf, t

\* A range that is through is there whole.
LEMMA RangeThrough ==
  ASSUME TextInv
  PROVE  S!RangeIsWhole
<1> SUFFICES ASSUME broken = "none", call # S!NoCall, call.at >= call.end, ~call.missed,
                    call.begin + call.n < OffSpan,
                    lang = "C" \/ call.begin + call.n <= S!CountOf(text[call.src]),
                    S!Trusted(text[call.src]), S!Trusted(text[call.dst])
             PROVE  text[call.dst].kept = call.before \o
                      SubSeq(text[call.src].kept, call.begin + 1,
                             S!Min({call.begin + call.n, S!CountOf(text[call.src])}))
  BY DEF S!RangeIsWhole
<1> DEFINE c == call
           t == text[call.src]
           u == text[call.dst]
<1>1. ListsInv /\ Going(lang, c, t, u)
  BY DEF TextInv, Progress
<1>2. /\ c.src \in Strs /\ c.begin \in Nat /\ c.n \in Nat /\ c.at \in Nat /\ c.end \in Nat
      /\ OnCourse(c, t, u)
  BY <1>1 DEF Going, CallType, Regular, S!CountOf
<1>3. t.off.used \in Nat
  BY <1>1, <1>2, OffFacts DEF ListsInv, Whole, Frame
<1>4. c.at = IF c.begin + c.n <= t.off.used THEN c.begin + c.n ELSE t.off.used
  BY <1>2 DEF OnCourse
<1>5. S!Min({c.begin + c.n, S!CountOf(t)}) = c.at
  <2> HIDE DEF c, t
  <2>1. Min({c.begin + c.n, t.off.used}) = c.at
    BY <1>2, <1>3, <1>4, MinOfTwo
  <2> QED BY <2>1, SameMin DEF S!CountOf
<1>6. u.kept = c.before \o SubSeq(t.kept, c.begin + 1, c.at)
  BY <1>2 DEF OnCourse
<1> QED BY <1>5, <1>6

LEMMA TextHolds == TextInv => S!StringsHold /\ S!OverrunExcused
<1> SUFFICES ASSUME TextInv PROVE S!StringsHold /\ S!OverrunExcused
  OBVIOUS
<1>1. S!KernelCountsLess
  BY DEF TextInv, ListsInv, Whole, Sound, S!KernelCountsLess
<1>2. S!OverrunExcused
  BY DEF TextInv, S!OverrunExcused
<1> QED BY <1>1, <1>2, Intact, RangeThrough DEF S!StringsHold

LEMMA MCSpecOfStrings == MCSpec => S!SInit /\ [][S!SNext]_S!svars
<1>1. MCInit => S!SInit
  BY DEF MCInit
<1>2. [MCNext]_<<vars, OfStrings, avars>> => [S!SNext]_S!svars
  BY DEF MCNext, OfStrings, S!svars
<1> QED BY <1>1, <1>2, PTL DEF MCSpec

\* What a list of strings holds is what was put there, one by one or as a
\* range of another list, read back each with its NUL and where it was put,
\* after any appends, copies and moves and whatever the allocator refused, and
\* what xvp takes it to be long is never less than what the kernel counts
\* (str.hh, str.h, xvp.cc get_argv_fullsize).
THEOREM StringsStay == MCSpec => []StringsHold
<1>1. TextInv /\ [S!SNext]_S!svars => TextInv'
  BY TextStep
<1>2. TextInv => StringsHold
  BY TextHolds DEF StringsHold
<1> QED BY <1>1, <1>2, TextInitial, MCSpecOfStrings, PTL

-----------------------------------------------------------------------------
(* Where arrays touch memory that is not theirs. *)

Excused(w) == w.denied \/ Past(w)

\* What an array is in while it is not torn, beyond ArrayInv.
DynUsed == \A d \in Arrays : dyn[d].used <= MaxItems

LEMMA ArrayBound ==
  /\ MaxItems \in Nat /\ MaxItems < IndexSpan /\ IsFiniteSet(Arrays)
  /\ IndexSpan \in Nat /\ IdxMax \in Nat /\ IdxMax < IndexSpan
BY RoomAssumption, WidthAssumption DEF Indices

LEMMA DynRoomBound ==
  ASSUME ArrayInv, DynUsed, NEW d \in Arrays, NEW n \in Int, RoomFor(n)
  PROVE  dyn[d].used + n <= MaxItems /\ dyn[d].used \in Nat
<1> DEFINE f == [e \in Arrays |-> dyn[e].used]
           P == {p \in Arrays \X (0 .. MaxItems - 1) : p[2] < f[p[1]]}
<1>1. Cardinality(P) + n <= MaxItems
  <2>1. P = {p \in Arrays \X (0 .. MaxItems - 1) : p[2] < dyn[p[1]].used}
    OBVIOUS
  <2> HIDE DEF P
  <2> QED BY <2>1 DEF RoomFor
<1>2. f[d] = dyn[d].used /\ dyn[d].used \in Nat /\ dyn[d].used <= MaxItems
  <2>1. dyn[d] \in Vector
    BY DEF ArrayInv
  <2> QED BY <2>1, VectorFacts DEF DynUsed
<1> HIDE DEF f
<1>3. f[d] \in Nat /\ f[d] <= MaxItems
  BY <1>2
<1>4. f[d] + n <= MaxItems
  BY <1>1, <1>3, ArrayBound, SpaceLeft
<1> QED BY <1>2, <1>4

LEMMA GrownUsed ==
  ASSUME NEW w, Decent(w), NEW n \in Nat, NEW r \in GrowByCount(w, n) \cup DynGrowByBytes(w, n)
  PROVE  r.vec.used = w.used
BY DynGrowDecent DEF Grown

\* An item that is written outside leaves an array with an excuse.
LEMMA DynAppendCause ==
  ASSUME NEW w, Decent(w), w.used + 1 < IndexSpan, NEW x \in Items, NEW a \in DynAppend(w, x)
  PROVE  a.arr.used \in Nat /\ a.arr.used <= w.used + 1 /\ (a.bad # "none" => Excused(a.arr))
<1>1. PICK r \in DynGrowAuto(w) :
        a = IF r.ok
            THEN [arr |-> Put(r.vec, (r.vec.used + 1) % IndexSpan, r.vec.used, x),
                  ok |-> ~IsInv(r.vec.used), bad |-> Outside(r.vec, r.vec.used + 1)]
            ELSE [arr |-> r.vec, ok |-> FALSE, bad |-> "none"]
  BY DEF DynAppend
<1>2. /\ Decent(r.vec) /\ r.vec.used = w.used
      /\ r.ok /\ ~r.vec.denied => r.vec.used + 1 <= r.vec.allocated \/ r.vec.used + 1 > IdxMax
  BY DynAutoRoom DEF Grown
<1>3. /\ r.vec.used \in Nat /\ r.vec.allocated \in Nat /\ Len(r.vec.mem) \in Nat
      /\ IndexSpan \in Nat /\ IdxMax \in Nat
  BY <1>2, VectorFacts DEF Decent
<1>4. CASE r.ok
  <2> DEFINE used == (r.vec.used + 1) % IndexSpan
  <2>1. used = w.used + 1
    <3>1. \A i \in Nat, j \in Nat : i < j => i % j = i
      BY Z3
    <3> QED BY <1>2, <1>3, <3>1
  <2> HIDE DEF used
  <2>2. a.arr = Put(r.vec, used, r.vec.used, x) /\ a.bad = Outside(r.vec, r.vec.used + 1)
    BY <1>1, <1>4 DEF used
  <2>3. a.arr.used = used /\ a.arr.denied = r.vec.denied
    BY <2>2, PutFields
  <2>4. ASSUME a.bad # "none", ~a.arr.denied PROVE used > IdxMax
    <3>1. r.vec.used + 1 > Len(r.vec.mem)
      BY <2>2, <2>4 DEF Outside
    <3>2. r.vec.allocated <= Len(r.vec.mem)
      BY <1>2, <2>3, <2>4 DEF Decent, Within
    <3>3. r.vec.used + 1 > IdxMax
      BY <1>2, <1>3, <1>4, <2>3, <2>4, <3>1, <3>2
    <3> QED BY <1>2, <2>1, <3>3
  <2> QED BY <1>2, <1>3, <2>1, <2>3, <2>4 DEF Excused, Past
<1>5. CASE ~r.ok
  <2>1. a.arr = r.vec /\ a.bad = "none"
    BY <1>1, <1>5
  <2> QED BY <1>2, <1>3, <2>1
<1> QED BY <1>4, <1>5

\* So far, m items on.
Caused(w, m, o) ==
  /\ o.arr.used \in Nat /\ o.arr.used <= w.used + m
  /\ o.bad # "none" => Excused(o.arr)

LEMMA AppendAllCause ==
  ASSUME Room \in Nat, NEW w \in Kind(FALSE), NEW items \in Seq(Items),
         w.used + Len(items) < IndexSpan, NEW r \in AppendAll(FALSE, w, items)
  PROVE  Caused(w, Len(items), r)
<1> DEFINE n == Len(items)
           All(m, outs) == \A o \in outs : Caused(w, m, o)
<1>0. w \in Vector /\ w.used \in Nat /\ n \in Nat /\ IndexSpan \in Nat
  BY VectorFacts DEF Kind
<1>1. PICK after : /\ Appending(after, FALSE, w, items)
                   /\ AppendAll(FALSE, w, items) = after[n]
  BY AppendAllRounds
<1> DEFINE P == {m \in 0 .. n : All(m, after[m])}
<1>2. 0 \in P
  <2> DEFINE o == [arr |-> w, ok |-> TRUE, bad |-> "none", told |-> 0]
  <2>1. after[0] = {o}
    BY <1>1 DEF Appending, Start
  <2>2. o.arr = w /\ o.bad = "none"
    OBVIOUS
  <2> HIDE DEF o, n
  <2>3. Caused(w, 0, o)
    BY <1>0, <2>2 DEF Caused
  <2> QED BY <1>0, <2>1, <2>3
<1>3. ASSUME NEW m \in 0 .. n - 1, m \in P PROVE m + 1 \in P
  <2>1. m + 1 \in 1 .. n /\ (m + 1) - 1 = m /\ m \in 0 .. n /\ m + 1 \in 0 .. n /\ m \in Nat
    BY <1>0
  <2>2. after[m + 1] = Further(FALSE, after[m], items[m + 1]) /\ after[m] \in SUBSET Outs(FALSE)
    BY <1>1, <2>1 DEF Appending
  <2>3. ASSUME NEW e \in after[m + 1] PROVE Caused(w, m + 1, e)
    <3>1. PICK o \in after[m] :
            e \in IF o.ok /\ o.bad = "none" THEN OneMore(FALSE, o, items[m + 1]) ELSE {o}
      BY <2>2, <2>3 DEF Further
    <3>2. o \in Outs(FALSE) /\ Caused(w, m, o)
      BY <1>3, <2>2, <3>1
    <3>3. CASE ~(o.ok /\ o.bad = "none")
      <4>1. e = o
        BY <3>1, <3>3
      <4> QED BY <1>0, <2>1, <3>2, <4>1 DEF Caused
    <3>4. CASE o.ok /\ o.bad = "none"
      <4>1. PICK a \in DynAppend(o.arr, items[m + 1]) :
              e = [arr |-> a.arr, ok |-> a.ok, bad |-> a.bad, told |-> IF a.ok THEN o.told + 1 ELSE o.told]
        BY <3>1, <3>4 DEF OneMore
      <4>2. e.arr = a.arr /\ e.bad = a.bad
        BY <4>1
      <4>3. Decent(o.arr) /\ items[m + 1] \in Items
        BY <2>1, <3>2 DEF Outs, Kind
      <4>4. o.arr.used \in Nat /\ o.arr.used <= w.used + m /\ o.arr.used + 1 < IndexSpan
        <5>1. o.arr.used \in Nat /\ o.arr.used <= w.used + m
          BY <3>2 DEF Caused
        <5> HIDE DEF n
        <5>2. w.used + n < IndexSpan
          BY DEF n
        <5> QED BY <1>0, <2>1, <5>1, <5>2
      <4>5. a.arr.used \in Nat /\ a.arr.used <= o.arr.used + 1 /\ (a.bad # "none" => Excused(a.arr))
        BY <4>3, <4>4, DynAppendCause
      <4>6. a.arr.used <= w.used + (m + 1)
        <5>1. \A i, j, k, l \in Nat : i <= j + 1 /\ j <= k + l => i <= k + (l + 1)
          OBVIOUS
        <5> QED BY <1>0, <2>1, <4>4, <4>5, <5>1
      <4> QED BY <4>2, <4>5, <4>6 DEF Caused
    <3> QED BY <3>3, <3>4
  <2> QED BY <2>1, <2>3
<1>4. P \in SUBSET (0 .. n)
  OBVIOUS
<1>5. P = 0 .. n
  <2> HIDE DEF P, n
  <2> QED BY <1>0, <1>2, <1>3, <1>4, Upwards
<1>6. n \in 0 .. n
  BY <1>0
<1> QED BY <1>1, <1>5, <1>6

LEMMA BecomesTorn ==
  ASSUME ArrayInv, DynUsed, NEW d \in Arrays, NEW w, w.used <= MaxItems, NEW bad,
         bad # "none" => Excused(w) \/ \E e \in Arrays \ {d} : Excused(dyn[e]), Becomes(d, w, bad)
  PROVE  DynUsed' /\ TornNeedsLimit'
<1>1. dyn' = [dyn EXCEPT ![d] = w] /\ torn' = bad /\ DOMAIN dyn = Arrays
  BY DEF Becomes, ArrayInv
<1>2. dyn'[d] = w /\ \A e \in Arrays : e # d => dyn'[e] = dyn[e]
  BY <1>1
<1> QED BY <1>1, <1>2 DEF DynUsed, TornNeedsLimit, Excused

\* Items that are counted and not there have an excuse.
LEMMA MissingExcused ==
  ASSUME NEW w, Decent(w), NEW i \in Nat, i <= w.used, Outside(w, i) # "none"
  PROVE  Excused(w)
<1>1. w.used \in Nat /\ w.allocated \in Nat /\ Len(w.mem) \in Nat
  BY VectorFacts DEF Decent
<1>2. w.used > Len(w.mem)
  BY <1>1 DEF Outside
<1> QED BY <1>1, <1>2 DEF Excused, Decent, Within

LEMMA TornStep == ArrayInv /\ DynUsed /\ TornNeedsLimit /\ [ANext]_avars => DynUsed' /\ TornNeedsLimit'
<1> SUFFICES ASSUME ArrayInv, DynUsed, TornNeedsLimit, [ANext]_avars
             PROVE  DynUsed' /\ TornNeedsLimit'
  OBVIOUS
<1>0. Room \in Nat /\ Amounts \subseteq Nat /\ Begins \subseteq Nat /\ MaxItems \in Nat
  BY RoomAssumption DEF Indices, Begins
<1>01. ASSUME NEW d \in Arrays
       PROVE  /\ Decent(dyn[d]) /\ dyn[d].used \in Nat /\ dyn[d].used <= MaxItems
              /\ dyn[d].used < IndexSpan /\ dyn[d] \in Vector
  BY <1>01, VectorFacts DEF ArrayInv, DynUsed
<1>1. ASSUME NEW d \in Arrays, NEW x \in Values \cup {Zero}, AppendOne(d, x)
      PROVE  DynUsed' /\ TornNeedsLimit'
  <2>1. PICK r \in DynAppend(dyn[d], x) : Becomes(d, r.arr, r.bad)
    BY <1>1 DEF AppendOne
  <2>2. dyn[d].used + 1 <= MaxItems
    BY <1>1, DynRoomBound DEF AppendOne
  <2>3. dyn[d].used + 1 < IndexSpan /\ x \in Items
    BY <1>01, <2>2, ArrayBound DEF Items
  <2>4. r.arr.used \in Nat /\ r.arr.used <= dyn[d].used + 1 /\ (r.bad # "none" => Excused(r.arr))
    BY <1>01, <2>3, DynAppendCause
  <2>5. r.arr.used <= MaxItems
    BY <1>0, <1>01, <2>2, <2>4
  <2> QED BY <2>1, <2>4, <2>5, BecomesTorn
<1>2. ASSUME NEW d \in Arrays, NEW n \in Amounts, Reserve(d, n)
      PROVE  DynUsed' /\ TornNeedsLimit'
  <2>1. PICK r \in GrowByCount(dyn[d], n) \cup DynGrowByBytes(dyn[d], n) : Becomes(d, r.vec, "none")
    BY <1>2 DEF Reserve
  <2>2. r.vec.used <= MaxItems
    BY <1>0, <1>01, GrownUsed
  <2> QED BY <2>1, <2>2, BecomesTorn
<1>3. ASSUME NEW d \in Arrays, NEW i \in 0 .. MaxItems, SetOne(d, i, Zero)
      PROVE  DynUsed' /\ TornNeedsLimit'
  <2> DEFINE w == Put(dyn[d], dyn[d].used, i, Zero)
  <2>1. Becomes(d, w, Outside(dyn[d], i + 1)) /\ i + 1 <= dyn[d].used /\ i + 1 \in Nat
    BY <1>01, <1>3 DEF SetOne
  <2>2. w.used = dyn[d].used /\ w.denied = dyn[d].denied
    BY PutFields
  <2> HIDE DEF w
  <2>3. Outside(dyn[d], i + 1) # "none" => Excused(w)
    <3>1. Outside(dyn[d], i + 1) # "none" => Excused(dyn[d])
      BY <1>01, <2>1, MissingExcused
    <3> QED BY <2>2, <3>1 DEF Excused, Past
  <2>4. w.used <= MaxItems
    BY <1>01, <2>2
  <2> QED BY <2>1, <2>3, <2>4, BecomesTorn
<1>4. ASSUME NEW d \in Arrays, Release(d)
      PROVE  DynUsed' /\ TornNeedsLimit'
  <2>1. Becomes(d, IF dyn[d].used > Len(dyn[d].mem) THEN dyn[d] ELSE Blank, Outside(dyn[d], dyn[d].used))
    BY <1>4 DEF Release
  <2>2. CASE dyn[d].used > Len(dyn[d].mem)
    <3>1. Outside(dyn[d], dyn[d].used) # "none" => Excused(dyn[d])
      BY <1>01, MissingExcused
    <3> QED BY <1>01, <2>1, <2>2, <3>1, BecomesTorn
  <2>3. CASE ~(dyn[d].used > Len(dyn[d].mem))
    <3>1. Outside(dyn[d], dyn[d].used) = "none" /\ Blank.used <= MaxItems
      BY <1>0, <2>3 DEF Outside, Blank
    <3> QED BY <2>1, <2>3, <3>1, BecomesTorn
  <2> QED BY <2>2, <2>3
<1>5. ASSUME NEW d \in Arrays, NEW s \in Arrays, CopyDyn(d, s)
      PROVE  DynUsed' /\ TornNeedsLimit'
  <2> DEFINE n == dyn[s].used
             v(r) == With(r.vec, n, [i \in DOMAIN r.vec.mem |->
                        IF i <= n /\ i <= Len(dyn[s].mem) THEN dyn[s].mem[i] ELSE r.vec.mem[i]])
  <2>1. PICK r \in GrowByCount(Blank, n) :
          IF r.ok THEN Becomes(d, v(r), Outside(dyn[s], n)) ELSE Becomes(d, r.vec, "none")
    BY <1>5 DEF CopyDyn
  <2>2. d # s
    BY <1>5 DEF CopyDyn
  <2>3. CASE r.ok
    <3>1. v(r).used = n /\ n <= MaxItems
      BY <1>01, WithFields
    <3>2. Outside(dyn[s], n) # "none" => Excused(dyn[s])
      BY <1>01, MissingExcused
    <3>3. Becomes(d, v(r), Outside(dyn[s], n))
      BY <2>1, <2>3
    <3> HIDE DEF n, v
    <3> QED BY <2>2, <3>1, <3>2, <3>3, BecomesTorn
  <2>4. CASE ~r.ok
    <3>1. r.vec.used = Blank.used
      BY <1>01, BlankDecent, GrownUsed
    <3>2. r.vec.used <= MaxItems
      BY <1>0, <3>1, BlankDecent
    <3>3. Becomes(d, r.vec, "none")
      BY <2>1, <2>4
    <3> QED BY <3>2, <3>3, BecomesTorn
  <2> QED BY <2>3, <2>4
<1>6. ASSUME NEW d \in Arrays, NEW s \in Arrays, NEW b \in Begins, NEW n \in Amounts,
             AppendRange(d, s, b, n)
      PROVE  DynUsed' /\ TornNeedsLimit'
  <2> DEFINE items == Range1(dyn[s], b, n)
  <2>1. PICK r \in AppendAll(FALSE, dyn[d], items) : Becomes(d, r.arr, r.bad)
    BY <1>6 DEF AppendRange
  <2>2. items \in Seq(Items)
    BY <1>0, <1>01, <1>6, RangeOfItems DEF AppendRange
  <2>3. RoomFor(Len(items))
    BY <1>6 DEF AppendRange
  <2> HIDE DEF items
  <2>4. Len(items) \in Nat /\ dyn[d].used + Len(items) <= MaxItems
    BY <2>2, <2>3, DynRoomBound
  <2>5. dyn[d].used + Len(items) < IndexSpan
    BY <1>01, <2>4, ArrayBound
  <2>6. dyn[d] \in Kind(FALSE)
    BY <1>01 DEF Kind
  <2>7. Caused(dyn[d], Len(items), r)
    BY <1>0, <2>1, <2>2, <2>5, <2>6, AppendAllCause
  <2>8. r.arr.used <= MaxItems /\ (r.bad # "none" => Excused(r.arr))
    BY <1>0, <1>01, <2>4, <2>7 DEF Caused
  <2> QED BY <2>1, <2>8, BecomesTorn
<1>7. ASSUME dyn' = dyn, torn' = torn
      PROVE  DynUsed' /\ TornNeedsLimit'
  BY <1>7 DEF DynUsed, TornNeedsLimit, Past
<1>8. ASSUME NEW f, FixBecomes(f)
      PROVE  DynUsed' /\ TornNeedsLimit'
  BY <1>7, <1>8 DEF FixBecomes
<1>9. CASE \/ \E x \in Values : FixOne(x)
           \/ \E i \in 0 .. Room : FixSet(i, Zero)
           \/ FixFree
           \/ \E s \in Arrays : FixCopy(s)
           \/ \E s \in Arrays, b \in Begins, n \in Amounts : FixRange(s, b, n)
  <2>1. \E f : FixBecomes(f)
    BY <1>9, Zenon DEF FixOne, FixSet, FixFree, FixCopy, FixRange
  <2> QED BY <1>8, <2>1
<1>10. CASE Torn \/ UNCHANGED avars
  BY <1>7, <1>10 DEF Torn, avars
<1> QED BY <1>1, <1>2, <1>3, <1>4, <1>5, <1>6, <1>9, <1>10 DEF ANext

\* Memory an array does not own is touched only after its growth was refused
\* or it has passed idx_max (dynmem.hh grow_by_bytes).
THEOREM TearsNeedLimit == ASpec => []TornNeedsLimit
<1>1. AInit => DynUsed /\ TornNeedsLimit
  BY ArrayBound, BlankDecent DEF AInit, DynUsed, TornNeedsLimit
<1> QED BY <1>1, TornStep, ArrayInit, ArrayStep, PTL DEF ASpec

\* Blocks of vectors, arrays and lists are overrun only after a live block was
\* refused growth, at the limit of an index, or by way of a copy that the code
\* makes wrong (common.h, dynmem.hh:234, str.h:53, str.hh:91); and memcpy() is
\* given NULL only by a copy_range() left without a block while there are items
\* to copy (common.h:107).
THEOREM EveryOverrunHasCause == MCSpec => []OverrunsNeedCause
<1>1. TextInv /\ [S!SNext]_S!svars => TextInv'
  BY TextStep
<1>2. TextInv => S!OverrunExcused
  BY TextHolds
<1> QED BY <1>1, <1>2, TextInitial, MCSpecOfStrings, MCSpecImplies, OverrunsAreRefusals,
          TearsNeedLimit, PTL DEF OverrunsNeedCause
=============================================================================
