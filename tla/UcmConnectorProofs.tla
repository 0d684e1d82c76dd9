------------------------- MODULE UcmConnectorProofs -------------------------
(***************************************************************************)
(* For every deployment and workload, the connector gives every rank as    *)
(* many hashes as engine blocks (DispatchAligned), and a block leaves the  *)
(* tracker of inconsistent blocks only when all ranks have stored it       *)
(* (ClearedIsStored).                                                      *)
(***************************************************************************)
EXTENDS UcmConnector, FiniteSetTheorems, WellFoundedInduction, TLAPS

----------------------------------------------------------------------------
(* Numbers                                                                  *)

(* A set of numbers has a least one, and a greatest one if it is bounded.   *)
LEMMA LeastNat ==
  ASSUME NEW S, S \subseteq Nat, S # {}
  PROVE  \E x \in S : \A y \in S : x <= y
<1> DEFINE R == {p \in Nat \X Nat : p[1] < p[2]}
<1>1. IsWellFoundedOn(OpToRel(<, Nat), Nat)
  BY NatLessThanWellFounded
<1>2. OpToRel(<, Nat) = R
  BY DEF OpToRel
<1>3. IsWellFoundedOn(R, Nat)
  BY <1>1, <1>2
<1> HIDE DEF R
<1>4. PICK x \in S : \A y \in S : ~(<<y, x>> \in R)
  BY <1>3, WFMin
<1>5. ASSUME NEW y \in S  PROVE x <= y
  <2>1. x \in Nat /\ y \in Nat /\ <<y, x>> \notin R
    BY <1>4
  <2>2. y < x => <<y, x>> \in R
    BY <2>1 DEF R
  <2> QED BY <2>1, <2>2
<1> QED BY <1>5

LEMMA GreatestNat ==
  ASSUME NEW S, S \subseteq Nat, S # {}, NEW b \in Nat, \A x \in S : x <= b
  PROVE  \E x \in S : \A y \in S : x >= y
<1> DEFINE T == {n \in Nat : \E x \in S : n = b - x}
<1>1. T \subseteq Nat /\ T # {}
  <2>1. PICK x \in S : x \in Nat /\ x <= b
    OBVIOUS
  <2>2. b - x \in T
    BY <2>1
  <2> QED BY <2>2
<1>2. \A x \in S : b - x \in T
  OBVIOUS
<1>3. \A n \in T : \E x \in S : n = b - x
  OBVIOUS
<1> HIDE DEF T
<1>4. PICK n \in T : \A m \in T : n <= m
  BY <1>1, LeastNat
<1>5. PICK x \in S : n = b - x
  BY <1>3
<1>6. ASSUME NEW y \in S  PROVE x >= y
  <2>1. b - y \in T /\ n <= b - y /\ y \in Nat /\ x \in Nat
    BY <1>2, <1>4
  <2> QED BY <1>5, <2>1
<1> QED BY <1>6

LEMMA MinIs ==
  ASSUME NEW S, S \subseteq Nat, S # {}
  PROVE  Min(S) \in S
<1>1. \E x \in S : \A y \in S : x =< y
  BY LeastNat
<1> QED BY <1>1 DEF Min

LEMMA MaxIs ==
  ASSUME NEW S, S \subseteq Nat, S # {}, NEW b \in Nat, \A x \in S : x <= b
  PROVE  Max(S) \in S
<1>1. \E x \in S : \A y \in S : x >= y
  BY GreatestNat
<1> QED BY <1>1 DEF Max

LEMMA MinOfTwo ==
  ASSUME NEW a \in Int, NEW b \in Int
  PROVE  Min({a, b}) = IF a <= b THEN a ELSE b
<1>1. \E x \in {a, b} : \A y \in {a, b} : x =< y
  OBVIOUS
<1>2. Min({a, b}) \in {a, b} /\ Min({a, b}) =< a /\ Min({a, b}) =< b
  BY <1>1 DEF Min
<1> QED BY <1>2

LEMMA MaxOfTwo ==
  ASSUME NEW a \in Int, NEW b \in Int
  PROVE  Max({a, b}) = IF a <= b THEN b ELSE a
<1>1. \E x \in {a, b} : \A y \in {a, b} : x >= y
  OBVIOUS
<1>2. Max({a, b}) \in {a, b} /\ Max({a, b}) >= a /\ Max({a, b}) >= b
  BY <1>1 DEF Max
<1> QED BY <1>2

LEMMA MulIs ==
  ASSUME NEW x \in Int, NEW y \in Int, NEW b \in Nat, b >= 1
  PROVE  x <= y <=> x * b <= y * b
OBVIOUS

LEMMA DivIs ==
  ASSUME NEW a \in Nat, NEW b \in Nat, b >= 1
  PROVE  a \div b \in Nat /\ (a \div b) * b <= a /\ a < (a \div b) * b + b
OBVIOUS

LEMMA DivLe ==
  ASSUME NEW a \in Nat, NEW b \in Nat, b >= 1, NEW q \in Nat
  PROVE  q * b <= a <=> q <= a \div b
<1>1. PICK d \in Nat : d = a \div b /\ d * b <= a /\ a < d * b + b
  BY DivIs
<1>2. q <= d => q * b <= d * b
  BY MulIs
<1>3. ~(q <= d) => (d + 1) * b <= q * b
  BY MulIs
<1>4. (d + 1) * b = d * b + b
  OBVIOUS
<1>5. d * b \in Nat /\ q * b \in Nat
  OBVIOUS
<1> QED BY <1>1, <1>2, <1>3, <1>4, <1>5

LEMMA CeilIs ==
  ASSUME NEW a \in Nat, NEW b \in Nat, b >= 1, NEW q \in Nat
  PROVE  CeilDiv(a, b) \in Nat /\ CeilDiv(a, b) * b >= a /\ (q * b < a + b => q <= CeilDiv(a, b))
<1>1. PICK c \in Nat : c = a + b - 1
  OBVIOUS
<1>2. PICK d \in Nat : d = CeilDiv(a, b) /\ d = c \div b /\ c < d * b + b
  BY <1>1, DivIs DEF CeilDiv
<1>3. q * b <= c <=> q <= d
  BY <1>1, <1>2, DivLe
<1>4. q * b \in Nat /\ d * b \in Nat
  OBVIOUS
<1> QED BY <1>1, <1>2, <1>3, <1>4

----------------------------------------------------------------------------
(* Sequences                                                                *)

IsSeq(s) == Len(s) \in Nat /\ s = [i \in 1..Len(s) |-> s[i]]

Elems(s) == {s[i] : i \in 1..Len(s)}

LEMMA SeqInElems ==
  ASSUME NEW s, IsSeq(s)
  PROVE  s \in Seq(Elems(s))
<1>1. PICK n \in Nat : n = Len(s)
  BY DEF IsSeq
<1>2. \A i \in 1..n : s[i] \in Elems(s)
  BY <1>1 DEF Elems
<1>3. [i \in 1..n |-> s[i]] \in Seq(Elems(s))
  BY <1>2
<1> QED BY <1>1, <1>3 DEF IsSeq

LEMMA SeqIs ==
  ASSUME NEW S, NEW s \in Seq(S)
  PROVE  IsSeq(s)
BY DEF IsSeq

LEMMA CatIs ==
  ASSUME NEW s, NEW t, IsSeq(s), IsSeq(t)
  PROVE  IsSeq(s \o t) /\ Len(s \o t) = Len(s) + Len(t)
<1> DEFINE S == Elems(s)
<1>1. s \in Seq(S)
  BY SeqInElems
<1> DEFINE T == Elems(t)
<1>2. t \in Seq(T)
  BY SeqInElems
<1> HIDE DEF S, T
<1>3. s \in Seq(S \cup T) /\ t \in Seq(S \cup T)
  BY <1>1, <1>2
<1>4. s \o t \in Seq(S \cup T) /\ Len(s \o t) = Len(s) + Len(t)
  BY <1>3
<1> QED BY <1>4, SeqIs

(* The length of s[a:b].                                                    *)
SliceLen(l, a, b) == IF b <= l THEN (IF a <= b THEN b - a ELSE 0) ELSE (IF a <= l THEN l - a ELSE 0)

LEMMA SliceIs ==
  ASSUME NEW s, IsSeq(s), NEW a \in Nat, NEW b \in Nat
  PROVE  IsSeq(Slice(s, a, b)) /\ Len(Slice(s, a, b)) = SliceLen(Len(s), a, b)
<1> DEFINE S == Elems(s)
<1>1. s \in Seq(S)
  BY SeqInElems
<1> HIDE DEF S
<1>2. PICK l \in Nat : l = Len(s)
  BY <1>1
<1>3. PICK e \in Nat : e = (IF b <= l THEN b ELSE l) /\ e <= l
  OBVIOUS
<1>4. Slice(s, a, b) = SubSeq(s, a + 1, e)
  BY <1>2, <1>3, MinOfTwo DEF Slice
<1>5. SubSeq(s, a + 1, e) \in Seq(S) /\ Len(SubSeq(s, a + 1, e)) = IF a <= e THEN e - a ELSE 0
  BY <1>1, <1>2, <1>3
<1> QED BY <1>2, <1>3, <1>4, <1>5, SeqIs DEF SliceLen


----------------------------------------------------------------------------
(* What is dispatched                                                       *)

LEMMA MulAssoc ==
  ASSUME NEW k \in Int, NEW p \in Int, NEW h \in Int
  PROVE  (k * p) * h = k * (h * p)
OBVIOUS

LEMMA MulNat ==
  ASSUME NEW k \in Nat, NEW p \in Nat, p >= 1
  PROVE  k * p \in Nat /\ k * p >= k /\ p * k = k * p
<1>1. 1 <= p => 1 * k <= p * k
  BY MulIs
<1>2. k * p \in Nat /\ p * k = k * p /\ 1 * k = k
  OBVIOUS
<1>3. 1 * k <= p * k
  <2>1. CASE k >= 1
    BY <2>1, MulIs
  <2>2. CASE k = 0
    BY <2>2
  <2> QED BY <2>1, <2>2
<1> QED BY <1>2, <1>3

LEMMA MulMinus ==
  ASSUME NEW e \in Int, NEW s \in Int, NEW p \in Int
  PROVE  e * p - s * p = p * (e - s) /\ (s + 1) * p = s * p + p
OBVIOUS

LEMMA MulSucc ==
  ASSUME NEW s \in Nat, NEW p \in Nat
  PROVE  (s + 1) * p = s * p + p
OBVIOUS

LEMMA DiffNat ==
  ASSUME NEW s \in Nat, NEW e \in Nat, s <= e
  PROVE  e - s \in Nat
OBVIOUS

(* The blocks of d tokens have all their hashes among those of t >= d.      *)
LEMMA FullBlocks ==
  ASSUME NEW h \in Nat, NEW p \in Nat, h >= 1, p >= 1, NEW d \in Nat, NEW t \in Nat, d <= t,
         NEW b \in Nat, b = h * p, b >= 1
  PROVE  (d \div b) * p <= t \div h
<1>1. PICK k \in Nat : k = d \div b
  BY DivIs
<1>2. k * b <= d
  BY <1>1, DivIs
<1>3. PICK x \in Nat : x = k * p
  BY MulNat
<1>4. x * h = k * b
  BY <1>3, MulAssoc
<1>5. x * h <= t
  BY <1>2, <1>4
<1>6. x <= t \div h
  BY <1>5, DivLe
<1> QED BY <1>1, <1>3, <1>6

LEMMA Tokens ==
  ASSUME NEW c, c.hbs \in Nat, c.hbs >= 1, c.cp \in Nat, c.cp >= 1
  PROVE  BlockTokens(c) \in Nat /\ BlockTokens(c) >= 1 /\ BlockTokens(c) = c.hbs * c.cp
<1>1. PICK h \in Nat, p \in Nat : h = c.hbs /\ p = c.cp /\ h >= 1 /\ p >= 1
  OBVIOUS
<1>2. h * p \in Nat /\ h * p >= h
  BY <1>1, MulNat
<1>3. h * p \in Nat /\ h * p >= 1
  BY <1>1, <1>2
<1> QED BY <1>1, <1>3 DEF BlockTokens

LEMMA LoadAligned ==
  ASSUME NEW c, c.cp \in Nat, c.cp >= 1, NEW m, NEW ids, NEW n, NEW new, NEW load,
         m.hbm \in Nat, m.total \in Nat, m.hbm <= m.total, IsSeq(ids), IsSeq(new),
         m.total * c.cp <= Len(ids), load => m.total <= Len(new),
         NEW d, d = DispatchMeta(c, m, ids, n, new, load)
  PROVE  Len(d.load.ids) = c.cp * Len(d.load.vb)
<1>1. PICK p \in Nat, h \in Nat, t \in Nat : p = c.cp /\ p >= 1 /\ h = m.hbm /\ t = m.total /\ h <= t
  OBVIOUS
<1>2. d.load = IF load THEN [ids |-> Slice(ids, h * p, t * p), vb |-> Slice(new, h, t)]
               ELSE [ids |-> <<>>, vb |-> <<>>]
  BY <1>1 DEF DispatchMeta
<1>3. CASE load
  <2>1. PICK x \in Nat, y \in Nat : x = h * p /\ y = t * p
    BY <1>1, MulNat
  <2>2. x <= y
    BY <1>1, <2>1, MulIs
  <2>3. y - x = p * (t - h)
    BY <2>1, MulMinus
  <2>4. PICK l \in Nat, k \in Nat : l = Len(ids) /\ k = Len(new)
    BY DEF IsSeq
  <2>5. y <= l /\ t <= k
    BY <1>1, <1>3, <2>1, <2>4
  <2>6. Len(Slice(ids, x, y)) = SliceLen(l, x, y)
    BY <2>4, SliceIs
  <2>7. Len(Slice(new, h, t)) = SliceLen(k, h, t)
    BY <2>4, SliceIs
  <2>8. SliceLen(l, x, y) = y - x
    BY <2>2, <2>5 DEF SliceLen
  <2>9. SliceLen(k, h, t) = t - h
    BY <1>1, <2>5 DEF SliceLen
  <2>10. d.load.ids = Slice(ids, x, y) /\ d.load.vb = Slice(new, h, t)
    BY <1>2, <1>3, <2>1
  <2> QED BY <1>1, <2>3, <2>6, <2>7, <2>8, <2>9, <2>10
<1>4. CASE ~load
  <2>1. d.load.ids = <<>> /\ d.load.vb = <<>>
    BY <1>2, <1>4
  <2>2. Len(<<>>) = 0 /\ p * 0 = 0
    OBVIOUS
  <2> QED BY <1>1, <2>1, <2>2
<1> QED BY <1>3, <1>4

(* The lengths of what is dumped of blocks s to e, of l hashes and a blocks.*)
Fits(p, t, k, n, a, b, l) ==
  \/ k + n <= t /\ k + n <= a * b
  \/ \E q \in Nat : l = q * p /\ q <= a /\ n <= b
Dumps(p, h, t, k, n, a, b, l, s, e) ==
  /\ b = h * p /\ l = t \div h /\ s = k \div b /\ e = (k + n) \div b
  /\ k < t /\ Fits(p, t, k, n, a, b, l)
Lengths(p, t, k, n, x, y) ==
  /\ k + n <= t => x = p * y
  /\ ~(k + n <= t) => x = p * SliceLen(y, 0, x)

LEMMA DumpLengths ==
  ASSUME NEW p \in Nat, NEW h \in Nat, p >= 1, h >= 1, NEW t \in Nat, NEW k \in Nat, NEW n \in Nat,
         NEW a \in Nat, NEW b \in Nat, b >= 1, NEW l, NEW s, NEW e, Dumps(p, h, t, k, n, a, b, l, s, e)
  PROVE  /\ s \in Nat /\ e \in Nat /\ s * p \in Nat /\ e * p \in Nat /\ l \in Nat
         /\ SliceLen(l, s * p, e * p) \in Nat /\ SliceLen(a, s, e) \in Nat
         /\ Lengths(p, t, k, n, SliceLen(l, s * p, e * p), SliceLen(a, s, e))
<1> USE DEF Dumps
<1>1. s \in Nat /\ s * b <= k /\ k < s * b + b
  BY DivIs
<1>2. e \in Nat /\ e * b <= k + n /\ k + n < e * b + b
  <2>1. PICK z \in Nat : z = k + n
    OBVIOUS
  <2> QED BY <2>1, DivIs
<1>3. l \in Nat
  BY DivIs
<1>4. PICK x \in Nat, y \in Nat : x = s * p /\ y = e * p
  BY <1>1, <1>2, MulNat
<1>5. PICK u \in Nat, v \in Nat : u = s * b /\ v = e * b
  BY <1>1, <1>2, MulNat
<1>6. s <= e
  <2>1. PICK z \in Nat : z = k + n
    OBVIOUS
  <2>2. s * b <= z
    BY <1>1, <1>5, <2>1
  <2> QED BY <1>1, <2>1, <2>2, DivLe
<1>7. x <= y /\ y - x = p * (e - s)
  <2>1. x <= y
    BY <1>1, <1>2, <1>4, <1>6, MulIs
  <2>2. y - x = p * (e - s)
    BY <1>1, <1>2, <1>4, MulMinus
  <2> QED BY <2>1, <2>2
<1>a. s \in Nat /\ e \in Nat
  BY <1>1, <1>2
<1>8. x <= l
  <2>1. k <= t
    OBVIOUS
  <2>2. (k \div b) * p <= t \div h
    BY <2>1, FullBlocks
  <2> QED BY <1>4, <2>2
<1>9. k + n <= t => y <= l
  <2> SUFFICES ASSUME k + n <= t  PROVE y <= l
    OBVIOUS
  <2>1. PICK z \in Nat : z = k + n
    OBVIOUS
  <2> QED BY <1>4, <2>1, FullBlocks
<1>10. SliceLen(l, x, y) = IF y <= l THEN y - x ELSE l - x
  BY <1>3, <1>7, <1>8 DEF SliceLen
<1>11. SliceLen(l, x, y) \in Nat /\ SliceLen(a, s, e) \in Nat
  BY <1>1, <1>2, <1>3, <1>4 DEF SliceLen
<1>12. CASE k + n <= t /\ k + n <= a * b
  <2>1. e <= a
    <3>1. PICK w \in Nat : w = a * b
      BY MulNat
    <3>2. e * b <= a * b
      BY <1>2, <1>5, <1>12, <3>1
    <3> QED BY <1>2, <3>2, MulIs
  <2>2. SliceLen(a, s, e) = e - s
    BY <1>1, <1>2, <1>6, <2>1 DEF SliceLen
  <2> QED BY <1>a, <1>3, <1>4, <1>7, <1>9, <1>10, <1>11, <1>12, <2>2 DEF Lengths
<1>13. ASSUME NEW q \in Nat, l = q * p, q <= a, n <= b
       PROVE  /\ k + n <= t => SliceLen(l, x, y) = p * SliceLen(a, s, e)
              /\ ~(k + n <= t) => SliceLen(l, x, y) = p * SliceLen(SliceLen(a, s, e), 0, SliceLen(l, x, y))
  <2>1. s <= q
    BY <1>1, <1>4, <1>8, <1>13, MulIs
  <2>2. e <= q <=> y <= l
    BY <1>2, <1>4, <1>13, MulIs
  <2>3. CASE e <= q
    <3>1. PICK z \in Nat : z = e - s
      BY <1>a, <1>6, DiffNat, Zenon
    <3>2. SliceLen(l, x, y) = p * z
      BY <1>7, <1>10, <2>2, <2>3, <3>1
    <3>3. SliceLen(a, s, e) = z
      BY <1>1, <1>2, <1>6, <1>13, <2>3, <3>1 DEF SliceLen
    <3>4. PICK w \in Nat : w = p * z /\ z <= w
      BY MulNat
    <3>5. SliceLen(z, 0, w) = z
      BY <3>4 DEF SliceLen
    <3> QED BY <3>2, <3>3, <3>4, <3>5
  <2>4. CASE ~(e <= q)
    <3>1. s = q
      <4> SUFFICES ASSUME s + 1 <= q  PROVE FALSE
        BY <1>1, <2>1
      <4>1. (s + 1) * b <= q * b
        BY <1>1, MulIs
      <4>2. (q + 1) * b <= e * b
        BY <1>2, <2>4, MulIs
      <4>3. (s + 1) * b = s * b + b
        BY <1>a, MulSucc, Zenon
      <4>4. (q + 1) * b = q * b + b
        BY MulMinus
      <4>5. PICK w \in Nat : w = q * b
        BY MulNat
      <4> QED BY <1>1, <1>2, <1>5, <1>13, <4>1, <4>2, <4>3, <4>4, <4>5
    <3>2. SliceLen(l, x, y) = 0
      BY <1>3, <1>4, <1>10, <1>13, <2>2, <2>4, <3>1
    <3>3. ~(k + n <= t)
      BY <1>9, <2>2, <2>4
    <3>4. SliceLen(SliceLen(a, s, e), 0, 0) = 0
      BY <1>11 DEF SliceLen
    <3>5. p * 0 = 0
      OBVIOUS
    <3> QED BY <3>2, <3>3, <3>4, <3>5
  <2> QED BY <2>3, <2>4
<1> QED BY <1>1, <1>2, <1>3, <1>4, <1>11, <1>12, <1>13 DEF Fits, Lengths

(* A dump is aligned when all of its hashes and blocks are there, or when   *)
(* hashes come in whole blocks and no step adds more than a block.          *)
LEMMA DumpAligned ==
  ASSUME NEW c, c.hbs \in Nat, c.hbs >= 1, c.cp \in Nat, c.cp >= 1,
         NEW m, NEW ids, NEW n \in Nat, NEW new, NEW load,
         m.done \in Nat, m.ntok \in Nat, IsSeq(ids), IsSeq(new), IsSeq(m.vblocks),
         Len(ids) = m.ntok \div c.hbs,
         NEW a, a = Len(m.vblocks) + Len(new),
         m.done < m.ntok => Fits(c.cp, m.ntok, m.done, n, a, BlockTokens(c), Len(ids)),
         NEW d, d = DispatchMeta(c, m, ids, n, new, load)
  PROVE  Len(d.dump.ids) = c.cp * Len(d.dump.vb)
<1>1. PICK p \in Nat, h \in Nat, t \in Nat, k \in Nat :
        p = c.cp /\ h = c.hbs /\ t = m.ntok /\ k = m.done /\ p >= 1 /\ h >= 1
  OBVIOUS
<1>2. PICK b \in Nat : b = BlockTokens(c) /\ b >= 1 /\ b = h * p
  BY <1>1, Tokens
<1>3. PICK l, s, e : l = Len(ids) /\ l = t \div h /\ s = k \div b /\ e = (k + n) \div b
  BY <1>1
<1> DEFINE all == m.vblocks \o new
           out == Slice(ids, s * p, e * p)
           from == Slice(all, s, e)
<1>4. IsSeq(all) /\ Len(all) = a /\ a \in Nat
  BY CatIs DEF IsSeq
<1>5. /\ k < t => d.dump.ids = out /\ d.dump.vb = IF k + n > t THEN Slice(from, 0, Len(out)) ELSE from
      /\ ~(k < t) => d.dump.ids = <<>> /\ d.dump.vb = <<>>
  BY <1>1, <1>2, <1>3 DEF DispatchMeta
<1> HIDE DEF all, out, from
<1>6. CASE ~(k < t)
  <2>1. Len(<<>>) = 0 /\ p * 0 = 0
    OBVIOUS
  <2> QED BY <1>1, <1>5, <1>6, <2>1
<1>7. CASE k < t
  <2>1. Fits(p, t, k, n, a, b, l)
    BY <1>1, <1>2, <1>3, <1>7
  <2>2. /\ s \in Nat /\ e \in Nat /\ s * p \in Nat /\ e * p \in Nat /\ l \in Nat
        /\ SliceLen(l, s * p, e * p) \in Nat /\ SliceLen(a, s, e) \in Nat
        /\ Lengths(p, t, k, n, SliceLen(l, s * p, e * p), SliceLen(a, s, e))
    <3>1. Dumps(p, h, t, k, n, a, b, l, s, e)
      BY <1>2, <1>3, <1>7, <2>1 DEF Dumps
    <3>2. p >= 1 /\ h >= 1 /\ a \in Nat /\ b >= 1
      BY <1>1, <1>2, <1>4
    <3> QED BY <3>1, <3>2, DumpLengths, ZenonT(60)
  <2>3. PICK x \in Nat, y \in Nat : x = s * p /\ y = e * p
    BY <2>2
  <2>4. s \in Nat /\ e \in Nat /\ out = Slice(ids, x, y)
    BY <2>2, <2>3 DEF out
  <2>5. PICK u \in Nat, v \in Nat : u = SliceLen(l, x, y) /\ v = SliceLen(a, s, e) /\ Lengths(p, t, k, n, u, v)
    BY <2>2, <2>3
  <2>6. Len(out) = u
    <3>1. Len(Slice(ids, x, y)) = SliceLen(Len(ids), x, y)
      BY SliceIs
    <3> QED BY <1>3, <2>4, <2>5, <3>1
  <2>7. Len(from) = v /\ IsSeq(from)
    <3>1. IsSeq(Slice(all, s, e)) /\ Len(Slice(all, s, e)) = SliceLen(Len(all), s, e)
      BY <1>4, <2>4, SliceIs, ZenonT(30)
    <3> QED BY <1>4, <2>5, <3>1 DEF from
  <2>8. Len(Slice(from, 0, u)) = SliceLen(v, 0, u)
    <3>1. Len(Slice(from, 0, u)) = SliceLen(Len(from), 0, u)
      BY <2>7, SliceIs
    <3> QED BY <2>7, <3>1
  <2>9. (k + n <= t => u = p * v) /\ (~(k + n <= t) => u = p * SliceLen(v, 0, u)) /\ (k + n > t <=> ~(k + n <= t))
    BY <2>5 DEF Lengths
  <2> QED BY <1>1, <1>5, <1>7, <2>6, <2>7, <2>8, <2>9
<1> QED BY <1>6, <1>7

----------------------------------------------------------------------------
(* The invariant                                                            *)

MShape(m) == /\ "vblocks" \in DOMAIN m /\ "done" \in DOMAIN m /\ "total" \in DOMAIN m
             /\ "hbm" \in DOMAIN m /\ "ntok" \in DOMAIN m /\ "nids" \in DOMAIN m
PShape(p) == /\ "n" \in DOMAIN p /\ "vb" \in DOMAIN p /\ "load" \in DOMAIN p /\ "new" \in DOMAIN p
             /\ "pre" \in DOMAIN p /\ "fin" \in DOMAIN p

ReqTyped(r) ==
  /\ ntok[r] \in Nat /\ ntok[r] >= 1 /\ ntok[r] <= cfg.max[r]
  /\ ncomp[r] \in Nat /\ IsSeq(blocks[r]) /\ (ncached[r] = Unset \/ ncached[r] \in Nat)
  /\ status[r] = "running" => ncached[r] \in Nat
Typed ==
  /\ cfg \in Setups
  /\ DOMAIN status = Requests /\ DOMAIN ntok = Requests /\ DOMAIN ncomp = Requests
  /\ DOMAIN ncached = Requests /\ DOMAIN blocks = Requests
  /\ \A r \in Requests : ReqTyped(r)
  /\ PShape(plan) /\ DOMAIN plan.vb = InPlan /\ InPlan \subseteq Requests
  /\ plan.load \subseteq InPlan /\ DOMAIN meta \subseteq Requests
  /\ \A r \in InPlan : status[r] = "running" /\ plan.n[r] \in Nat /\ IsSeq(plan.vb[r])
  /\ \A r \in told : r \in Requests => status[r] \notin {"running", "waiting"}

(* The numbers of a RequestMeta belong to the tokens it was made for.       *)
MetaOf(r, m) ==
  /\ MShape(m) /\ m.hbm \in Nat /\ m.total \in Nat /\ m.ntok \in Nat /\ m.nids \in Nat /\ m.done \in Nat
  /\ IsSeq(m.vblocks) /\ m.hbm <= m.total /\ m.total * cfg.cp <= m.nids
  /\ m.nids = m.ntok \div cfg.hbs /\ cfg.threshold <= m.ntok /\ m.ntok <= ntok[r]
Metas == \A r \in DOMAIN meta : MetaOf(r, meta[r])

(* The blocks given to a request hold its tokens; those it loads are there. *)
PlannedOf(r) ==
  /\ ncomp[r] + plan.n[r] <= ntok[r] /\ ncomp[r] + plan.n[r] <= Len(blocks[r]) * BS
  /\ r \in DOMAIN meta /\ r \in plan.load => meta[r].total <= Len(plan.vb[r])
Planned == phase = "sched" => \A r \in InPlan : PlannedOf(r)

(* The connector knows all blocks of a running request.                     *)
Coming(r) == IF phase = "sched" /\ r \in InPlan THEN Len(plan.vb[r]) ELSE 0
Covered == \A r \in DOMAIN meta : status[r] = "running" => Len(blocks[r]) <= Len(meta[r].vblocks) + Coming(r)

(* Where affected requests lose their metadata, what was dispatched of a    *)
(* request is what was computed, or its hashes come in whole blocks and at  *)
(* most one block is not computed.                                          *)
Whole(m) == \E q \in Nat : m.nids = q * cfg.cp
Stale(r, m) == \E q \in Nat : m.nids = q * cfg.cp /\ q <= Len(blocks[r]) /\ ntok[r] <= ncomp[r] + BS
PopOf(r, m) ==
  cfg.recovery = "pop" /\ m.done < m.ntok =>
    /\ m.ntok = ntok[r] \/ Whole(m)
    /\ status[r] = "running" => (m.done = ncomp[r] /\ m.ntok = ntok[r]) \/ Stale(r, m)
Popped == \A r \in DOMAIN meta : PopOf(r, meta[r])

JobOf(r) ==
  /\ r \in DOMAIN meta
  /\ Len(job[r].load.ids) = cfg.cp * Len(job[r].load.vb)
  /\ InStep(r) => Len(job[r].dump.ids) = cfg.cp * Len(job[r].dump.vb)
Jobs == \A r \in DOMAIN job : JobOf(r)
Phases == phase = "sched" => DOMAIN job = {}

MetaInv == Typed /\ Metas /\ Planned /\ Covered /\ Popped /\ Jobs /\ Phases

----------------------------------------------------------------------------
(* Sizes, hits and hashes                                                   *)

LEMMA Sizes ==
  ASSUME cfg \in Setups
  PROVE  /\ cfg.hbs \in Nat /\ cfg.hbs >= 1 /\ cfg.cp \in Nat /\ cfg.cp >= 1 /\ cfg.spec \in Nat
         /\ cfg.threshold \in Int /\ cfg.chunks \subseteq Nat /\ cfg.vblocks \in Nat
         /\ BS \in Nat /\ BS >= 1 /\ BS = cfg.hbs * cfg.cp
         /\ RecomputeTokens(cfg) \in Nat /\ RecomputeTokens(cfg) <= BS
<1>1. /\ cfg.hbs \in Nat /\ cfg.hbs >= 1 /\ cfg.cp \in Nat /\ cfg.cp >= 1 /\ cfg.spec \in Nat
      /\ cfg.threshold \in Int /\ cfg.chunks \subseteq Nat /\ cfg.vblocks \in Nat
      /\ RecomputeTokens(cfg) <= BlockTokens(cfg)
  BY SetupAssumption
<1>2. BlockTokens(cfg) \in Nat /\ BlockTokens(cfg) >= 1 /\ BlockTokens(cfg) = cfg.hbs * cfg.cp
  BY <1>1, Tokens
<1>3. RecomputeTokens(cfg) \in Nat
  BY <1>1 DEF RecomputeTokens
<1> QED BY <1>1, <1>2, <1>3 DEF BS

LEMMA Prompts ==
  ASSUME cfg \in Setups, NEW r \in Requests
  PROVE  /\ cfg.prompt[r] \in Nat /\ cfg.prompt[r] >= 1 /\ cfg.max[r] \in Nat /\ cfg.prompt[r] <= cfg.max[r]
         /\ IsSeq(cfg.chain[r]) /\ NumHashes(cfg, cfg.max[r]) <= Len(cfg.chain[r])
BY SetupAssumption DEF Requests, IsSeq

(* The hashes of n tokens of a request.                                     *)
LEMMA HashesIs ==
  ASSUME cfg \in Setups, NEW r \in Requests, NEW n \in Nat, n <= cfg.max[r],
         NEW l, l = NumHashes(cfg, n)
  PROVE  /\ l \in Nat /\ l * cfg.hbs <= n
         /\ IsSeq(SubSeq(cfg.chain[r], 1, l)) /\ Len(SubSeq(cfg.chain[r], 1, l)) = l
<1>1. PICK h \in Nat, x \in Nat : h = cfg.hbs /\ h >= 1 /\ x = cfg.max[r] /\ n <= x
  BY Sizes, Prompts
<1>2. l \in Nat /\ l * h <= n
  BY <1>1, DivIs DEF NumHashes
<1>3. PICK y \in Nat : y = l * h
  BY <1>2
<1>4. l <= x \div h
  <2>1. l * h <= x
    BY <1>1, <1>2, <1>3
  <2> QED BY <1>1, <1>2, <2>1, DivLe
<1>5. PICK k \in Nat : k = Len(cfg.chain[r]) /\ x \div h <= k
  BY <1>1, Prompts DEF NumHashes, IsSeq
<1>6. x \div h \in Nat
  BY <1>1, DivIs
<1>7. l <= k
  BY <1>2, <1>4, <1>5, <1>6
<1> DEFINE S == Elems(cfg.chain[r])
<1>8. cfg.chain[r] \in Seq(S)
  BY Prompts, SeqInElems
<1> HIDE DEF S
<1>9. SubSeq(cfg.chain[r], 1, l) \in Seq(S) /\ Len(SubSeq(cfg.chain[r], 1, l)) = l
  BY <1>2, <1>5, <1>7, <1>8
<1> QED BY <1>1, <1>2, <1>9, SeqIs

(* lookup_on_prefix finds at most what it is asked for.                     *)
LEMMA LookupIs ==
  ASSUME NEW mk, NEW ids, IsSeq(ids), NEW pr
  PROVE  LookupOnPrefix(mk, ids, pr) \in Nat /\ LookupOnPrefix(mk, ids, pr) <= Len(ids)
<1>1. PICK l \in Nat : l = Len(ids)
  BY DEF IsSeq
<1>2. PICK v : v = ValidPrefix(mk, ids)
  OBVIOUS
<1>3. Len(v) \in Nat /\ Len(v) <= l
  <2>1. CASE \E i \in 1..l : ids[i] \in mk
    <3> DEFINE M == {i \in 1..l : ids[i] \in mk}
    <3>1. M \subseteq Nat /\ M # {} /\ M \subseteq 1..l
      BY <2>1
    <3> HIDE DEF M
    <3>2. PICK k \in 1..l : k = Min(M)
      BY <3>1, MinIs
    <3>3. v = SubSeq(ids, 1, k - 1)
      BY <1>1, <1>2, <2>1, <3>2 DEF ValidPrefix, M
    <3>4. ids \in Seq(Elems(ids))
      BY SeqInElems
    <3>5. Len(SubSeq(ids, 1, k - 1)) = k - 1
      BY <1>1, <3>2, <3>4
    <3> QED BY <3>2, <3>3, <3>5
  <2>2. CASE ~\E i \in 1..l : ids[i] \in mk
    BY <1>1, <1>2, <2>2 DEF ValidPrefix
  <2> QED BY <2>1, <2>2
<1> DEFINE F == {n \in 0..Len(v) : \A i \in 1..n : v[i] \in pr}
<1>4. F \subseteq Nat /\ F \subseteq 0..Len(v) /\ 0 \in F
  BY <1>3
<1>5. LookupOnPrefix(mk, ids, pr) = Max(F)
  BY <1>2 DEF LookupOnPrefix
<1> HIDE DEF F
<1>6. Max(F) \in F
  <2>1. F # {} /\ \A x \in F : x <= Len(v)
    BY <1>3, <1>4
  <2> QED BY <1>3, <1>4, <2>1, MaxIs
<1>7. PICK y \in Nat : y = Len(v) /\ y <= l
  BY <1>3
<1>8. Max(F) \in 0..y
  BY <1>4, <1>6, <1>7
<1>9. PICK z \in 0..y : z = Max(F)
  BY <1>8
<1> QED BY <1>1, <1>5, <1>7, <1>9

(* Blocks that are taken from the free ones.                                *)
LEMMA LowestIs ==
  ASSUME NEW S, IsFiniteSet(S), NEW n \in Nat, n <= Cardinality(S)
  PROVE  IsSeq(Lowest(S, n)) /\ Len(Lowest(S, n)) = n
<1>1. PICK c \in Nat : c = Cardinality(S)
  BY FS_CardinalityType
<1>2. PICK t : t = Sorted(S)
  OBVIOUS
<1>3. IsSeq(t) /\ Len(t) = c
  <2> DEFINE g(i) == CHOOSE x \in S : Cardinality({y \in S : y < x}) = i - 1
             G == {g(i) : i \in 1..c}
  <2>1. t = [i \in 1..c |-> g(i)]
    BY <1>1, <1>2 DEF Sorted
  <2>2. \A i \in 1..c : g(i) \in G
    OBVIOUS
  <2> HIDE DEF g, G
  <2>3. [i \in 1..c |-> g(i)] \in Seq(G)
    BY <2>2
  <2>4. Len(t) = c /\ t \in Seq(G)
    BY <2>1, <2>3
  <2> QED BY <2>4, SeqIs
<1>4. t \in Seq(Elems(t))
  BY <1>3, SeqInElems
<1>5. SubSeq(t, 1, n) \in Seq(Elems(t)) /\ Len(SubSeq(t, 1, n)) = n
  BY <1>1, <1>3, <1>4
<1> QED BY <1>2, <1>5, SeqIs DEF Lowest

LEMMA FreeFinite ==
  ASSUME cfg \in Setups, NEW S, S \subseteq VBlocks
  PROVE  IsFiniteSet(S)
<1>1. PICK n \in Int : n = cfg.vblocks
  BY Sizes
<1>2. IsFiniteSet(1..n)
  BY FS_Interval
<1>3. IsFiniteSet(VBlocks)
  BY <1>1, <1>2 DEF VBlocks
<1> QED BY <1>3, FS_Subset

(* The engine's own prefix cache holds less than all tokens.                *)
LEMMA LocalIs ==
  ASSUME Typed, NEW r \in Requests
  PROVE  LocalHit(r) \in Nat /\ LocalHit(r) * BS < ntok[r]
<1>1. PICK b \in Nat, t \in Nat : b = BS /\ b >= 1 /\ t = ntok[r] /\ t >= 1
  BY Sizes DEF Typed, ReqTyped
<1>2. PICK u \in Nat : u = t - 1
  BY <1>1
<1>3. PICK k \in Nat : k = (ntok[r] - 1) \div BS /\ k = u \div b
  BY <1>1, <1>2, DivIs
<1>4. LocalHit(r) \in 0..k
  <2> DEFINE F == {n \in 0..k : \A i \in 1..n : Local(r, i) # {}}
  <2>1. CASE cfg.apc
    <3>1. LocalHit(r) = Max(F)
      BY <1>3, <2>1 DEF LocalHit
    <3>2. F \subseteq Nat /\ F \subseteq 0..k /\ 0 \in F
      OBVIOUS
    <3> HIDE DEF F
    <3>3. F # {} /\ \A x \in F : x <= k
      BY <3>2
    <3>4. Max(F) \in F
      BY <3>2, <3>3, MaxIs
    <3> QED BY <3>1, <3>2, <3>4
  <2>2. CASE ~cfg.apc
    <3>1. LocalHit(r) = 0
      BY <2>2 DEF LocalHit
    <3>2. 0 \in 0..k
      BY <1>3
    <3> QED BY <3>1, <3>2
  <2> QED BY <2>1, <2>2
<1>5. LocalHit(r) \in Nat /\ LocalHit(r) <= k
  BY <1>3, <1>4
<1>6. PICK q \in Nat : q = LocalHit(r) /\ q <= u \div b
  BY <1>3, <1>5
<1>7. q * b <= u
  BY <1>1, <1>6, DivLe
<1>8. PICK z \in Nat : z = q * b
  BY <1>1, MulNat, Zenon
<1>9. z < t
  BY <1>1, <1>2, <1>7, <1>8
<1> QED BY <1>1, <1>6, <1>8, <1>9

(* What a hit is worth: the engine starts behind its own blocks, before the *)
(* end, and the first tokens it is given reach the last block that is hit.  *)
LEMMA HitIs ==
  ASSUME cfg \in Setups, NEW n \in Nat, NEW hbm \in Nat, NEW ext \in Nat, (hbm + ext) * BS <= n,
         NEW x, x = HitTokens(cfg, n, hbm, ext)
  PROVE  /\ x \in Nat /\ hbm * BS + x <= n /\ (hbm + ext) * BS <= hbm * BS + x + BS
<1>1. PICK b \in Nat, k \in Nat : b = BS /\ b = BlockTokens(cfg) /\ k = RecomputeTokens(cfg) /\ k <= b
  BY Sizes DEF BS
<1>2. PICK u \in Nat, v \in Nat : u = hbm * b /\ v = ext * b
  <2>1. b >= 1
    BY <1>1, Sizes
  <2>2. hbm * b \in Nat /\ ext * b \in Nat
    BY <2>1, MulNat, Zenon
  <2> QED BY <2>2, Zenon
<1>3. (hbm + ext) * b = u + v
  BY <1>2
<1>4. PICK own \in Nat : own = n - (hbm + ext) * b
  BY <1>1, <1>2, <1>3
<1>5. PICK def \in Nat : def = Max({0, k - own}) /\ def <= k
  <2>1. Max({0, k - own}) = IF 0 <= k - own THEN k - own ELSE 0
    BY <1>1, <1>4, MaxOfTwo
  <2> QED BY <1>1, <1>4, <2>1
<1>6. x = Max({0, v - def})
  BY <1>1, <1>2, <1>4, <1>5 DEF HitTokens
<1>7. x = IF 0 <= v - def THEN v - def ELSE 0
  BY <1>2, <1>5, <1>6, MaxOfTwo
<1>8. x \in Nat /\ u + x <= n /\ u + v <= u + x + b
  BY <1>1, <1>2, <1>3, <1>4, <1>5, <1>7
<1> QED BY <1>1, <1>2, <1>3, <1>8

(* A function with one more value.                                          *)
LEMMA WithIs ==
  ASSUME NEW f, NEW r, NEW x
  PROVE  /\ DOMAIN With(f, r, x) = DOMAIN f \union {r} /\ With(f, r, x)[r] = x
         /\ \A q \in DOMAIN f : q # r => With(f, r, x)[q] = f[q]
BY DEF With

(* What a dispatch leaves in the metadata.                                  *)
After(e, m, n, new) ==
  /\ MShape(e) /\ e.hbm = m.hbm /\ e.total = m.total /\ e.ntok = m.ntok /\ e.nids = m.nids
  /\ e.vblocks = m.vblocks \o new /\ (m.done < m.ntok => e.done = m.done + n)
  /\ (~(m.done < m.ntok) => e.done = m.done)
LEMMA DispatchIs ==
  ASSUME NEW c, NEW m, MShape(m), NEW ids, NEW n, NEW new, NEW load
  PROVE  After(DispatchMeta(c, m, ids, n, new, load).meta, m, n, new)
<1>0. PICK e : e = DispatchMeta(c, m, ids, n, new, load).meta
  OBVIOUS
<1>1. e = [m EXCEPT !.vblocks = m.vblocks \o new,
                    !.done = IF m.done < m.ntok THEN @ + n ELSE @]
  BY <1>0 DEF DispatchMeta
<1> QED BY <1>0, <1>1 DEF MShape, After

core == <<cfg, phase, engine, plan, told, meta, job>>

(* What the worker roles, the forward and the store do leaves it alone.     *)
LEMMA Quiet ==
  ASSUME MetaInv, UNCHANGED core
  PROVE  MetaInv'
<1>1. Typed'
  BY DEF MetaInv, core, engine, Typed, ReqTyped, PShape, InPlan, Requests, IsSeq
<1>2. Metas' /\ Phases'
  BY DEF MetaInv, core, engine, Metas, MetaOf, Phases
<1>3. Planned' /\ Covered'
  BY DEF MetaInv, core, engine, Planned, PlannedOf, Covered, Coming, InPlan, BS
<1>4. Popped' /\ Jobs'
  BY DEF MetaInv, core, engine, Popped, PopOf, Whole, Stale, Jobs, JobOf, InStep, BS
<1> QED BY <1>1, <1>2, <1>3, <1>4 DEF MetaInv

LEMMA WorkSteps ==
  ASSUME MetaInv, NEW k \in Ranks, WorkerStep(k) \/ Settle(k)
  PROVE  MetaInv'
<1>1. CASE HandlePreemptions(k)
  BY <1>1, Quiet DEF HandlePreemptions, core, engine, link, srole
<1>2. CASE LoadKv(k)
  BY <1>2, Quiet DEF LoadKv, core, engine, link, srole
<1>3. CASE SaveKvLayer(k)
  BY <1>3, Quiet DEF SaveKvLayer, core, engine, link, srole
<1>4. CASE WaitForSave(k)
  BY <1>4, Quiet DEF WaitForSave, core, engine, link, srole
<1>5. CASE GetFinished(k)
  BY <1>5, Quiet DEF GetFinished, core, engine, link, srole
<1>6. CASE Settle(k)
  <2>1. PICK i \in DOMAIN pend[k] : DumpLand(k, i) \/ DumpFail(k, i)
    BY <1>6 DEF Settle
  <2>2. CASE DumpLand(k, i)
    BY <2>2, Quiet DEF DumpLand, core, engine, link, srole
  <2>3. CASE DumpFail(k, i)
    BY <2>3, Quiet DEF DumpFail, core, engine, link, srole
  <2> QED BY <2>1, <2>2, <2>3
<1> QED BY <1>1, <1>2, <1>3, <1>4, <1>5, <1>6 DEF WorkerStep

LEMMA OtherSteps ==
  ASSUME MetaInv, Forward \/ Idle \/ (\E x \in DOMAIN store : Gc(x)) \/ UNCHANGED vars
  PROVE  MetaInv'
<1>1. CASE Forward
  BY <1>1, Quiet DEF Forward, core, engine, link, srole
<1>2. CASE \E x \in DOMAIN store : Gc(x)
  BY <1>2, Quiet DEF Gc, core, engine, link, srole
<1>3. CASE Idle \/ UNCHANGED vars
  BY <1>3, Quiet DEF Idle, vars, core, engine, link, srole
<1> QED BY <1>1, <1>2, <1>3

----------------------------------------------------------------------------
(* build_connector_meta                                                     *)

Known == InPlan \intersect DOMAIN meta
D(r) == DispatchMeta(cfg, meta[r], SubSeq(cfg.chain[r], 1, meta[r].nids), plan.n[r], plan.vb[r], r \in plan.load)

LEMMA BuildIs ==
  ASSUME BuildConnectorMeta
  PROVE  /\ phase = "sched" /\ phase' = "work" /\ cfg' = cfg /\ status' = status /\ ntok' = ntok
         /\ ncached' = ncached /\ blocks' = blocks /\ told' = {} /\ plan' = [plan EXCEPT !.fin = told]
         /\ DOMAIN job' = Known
         /\ \A r \in Known : job'[r].load = D(r).load /\ job'[r].dump = D(r).dump
         /\ DOMAIN meta' = DOMAIN meta \ told
         /\ \A r \in DOMAIN meta \ told : meta'[r] = IF r \in Known THEN D(r).meta ELSE meta[r]
         /\ ncomp' = [r \in Requests |-> IF r \in InPlan THEN ncomp[r] + plan.n[r] ELSE ncomp[r]]
BY DEF BuildConnectorMeta, Known, D

(* One request of the step.                                                 *)
LEMMA DispatchOne ==
  ASSUME MetaInv, phase = "sched", NEW r \in Known
  PROVE  /\ r \in Requests /\ r \in InPlan /\ r \in DOMAIN meta /\ r \notin told /\ status[r] = "running"
         /\ plan.n[r] \in Nat /\ IsSeq(plan.vb[r]) /\ ncomp[r] \in Nat
         /\ MShape(D(r).meta) /\ D(r).meta.hbm = meta[r].hbm /\ D(r).meta.total = meta[r].total
         /\ D(r).meta.ntok = meta[r].ntok /\ D(r).meta.nids = meta[r].nids
         /\ IsSeq(D(r).meta.vblocks) /\ Len(D(r).meta.vblocks) = Len(meta[r].vblocks) + Len(plan.vb[r])
         /\ (meta[r].done < meta[r].ntok => D(r).meta.done = meta[r].done + plan.n[r])
         /\ (~(meta[r].done < meta[r].ntok) => D(r).meta.done = meta[r].done)
         /\ Len(D(r).load.ids) = cfg.cp * Len(D(r).load.vb)
         /\ Len(blocks[r]) \in Nat /\ Len(blocks[r]) <= Len(meta[r].vblocks) + Len(plan.vb[r])
<1>1. /\ r \in Requests /\ r \in InPlan /\ r \in DOMAIN meta /\ status[r] = "running" /\ cfg \in Setups
      /\ plan.n[r] \in Nat /\ IsSeq(plan.vb[r]) /\ ncomp[r] \in Nat /\ ntok[r] \in Nat /\ ntok[r] <= cfg.max[r]
      /\ IsSeq(blocks[r])
  BY DEF MetaInv, Typed, ReqTyped, Known
<1>2. r \notin told
  BY <1>1 DEF MetaInv, Typed
<1>3. MetaOf(r, meta[r]) /\ PlannedOf(r)
  BY <1>1 DEF MetaInv, Metas, Planned
<1>4. Len(blocks[r]) \in Nat /\ Len(blocks[r]) <= Len(meta[r].vblocks) + Len(plan.vb[r])
  BY <1>1 DEF MetaInv, Covered, Coming, IsSeq
<1> DEFINE m == meta[r]
           ids == SubSeq(cfg.chain[r], 1, m.nids)
<1>5. MShape(m) /\ IsSeq(m.vblocks) /\ m.hbm \in Nat /\ m.total \in Nat /\ m.hbm <= m.total
  BY <1>3 DEF MetaOf
<1>6. IsSeq(ids) /\ Len(ids) = m.nids
  <2>1. m.ntok \in Nat /\ m.ntok <= cfg.max[r] /\ m.nids = NumHashes(cfg, m.ntok)
    <3>1. PICK x \in Nat, y \in Nat, z \in Nat : x = m.ntok /\ y = ntok[r] /\ z = cfg.max[r] /\ x <= y /\ y <= z
      BY <1>1, <1>3, Prompts DEF MetaOf
    <3> QED BY <1>3, <3>1 DEF MetaOf, NumHashes
  <2> QED BY <1>1, <2>1, HashesIs
<1> HIDE DEF ids
<1>7. D(r) = DispatchMeta(cfg, m, ids, plan.n[r], plan.vb[r], r \in plan.load)
  BY DEF D, ids
<1>8. Len(D(r).load.ids) = cfg.cp * Len(D(r).load.vb)
  <2>1. cfg.cp \in Nat /\ cfg.cp >= 1
    BY <1>1, Sizes
  <2>2. m.total * cfg.cp <= Len(ids) /\ (r \in plan.load => m.total <= Len(plan.vb[r]))
    BY <1>1, <1>3, <1>6 DEF MetaOf, PlannedOf
  <2> HIDE DEF m
  <2> QED BY <1>1, <1>5, <1>6, <1>7, <2>1, <2>2, LoadAligned, ZenonT(60)
<1>9. /\ MShape(D(r).meta) /\ D(r).meta.hbm = m.hbm /\ D(r).meta.total = m.total
      /\ D(r).meta.ntok = m.ntok /\ D(r).meta.nids = m.nids /\ D(r).meta.vblocks = m.vblocks \o plan.vb[r]
      /\ (m.done < m.ntok => D(r).meta.done = m.done + plan.n[r])
      /\ (~(m.done < m.ntok) => D(r).meta.done = m.done)
  <2> HIDE DEF m
  <2>1. D(r).meta = DispatchMeta(cfg, m, ids, plan.n[r], plan.vb[r], r \in plan.load).meta
    BY <1>7
  <2>2. After(D(r).meta, m, plan.n[r], plan.vb[r])
    BY <1>5, <2>1, DispatchIs
  <2> QED BY <2>2 DEF After
<1>10. IsSeq(D(r).meta.vblocks) /\ Len(D(r).meta.vblocks) = Len(m.vblocks) + Len(plan.vb[r])
  <2> HIDE DEF m
  <2> QED BY <1>1, <1>5, <1>9, CatIs
<1> QED BY <1>1, <1>2, <1>4, <1>8, <1>9, <1>10

DumpReady(c, m, ids, n, new, a) ==
  /\ c.hbs \in Nat /\ c.hbs >= 1 /\ c.cp \in Nat /\ c.cp >= 1 /\ n \in Nat
  /\ m.done \in Nat /\ m.ntok \in Nat /\ IsSeq(ids) /\ IsSeq(new) /\ IsSeq(m.vblocks)
  /\ Len(ids) = m.ntok \div c.hbs /\ a = Len(m.vblocks) + Len(new)
  /\ m.done < m.ntok => Fits(c.cp, m.ntok, m.done, n, a, BlockTokens(c), Len(ids))

LEMMA DumpReadyIs ==
  ASSUME NEW c, NEW m, NEW ids, NEW n, NEW new, NEW a, NEW load, DumpReady(c, m, ids, n, new, a)
  PROVE  LET d == DispatchMeta(c, m, ids, n, new, load)
         IN  Len(d.dump.ids) = c.cp * Len(d.dump.vb)
<1>1. PICK d : d = DispatchMeta(c, m, ids, n, new, load)
  OBVIOUS
<1>2. n \in Nat
  BY DEF DumpReady
<1>3. Len(d.dump.ids) = c.cp * Len(d.dump.vb)
  BY <1>1, <1>2, DumpAligned DEF DumpReady
<1> QED BY <1>1, <1>3

(* A dump fits when it is not ahead of the engine, or when it is stale.     *)
LEMMA FitsIf ==
  ASSUME NEW n \in Nat, NEW c \in Nat, NEW k \in Nat, NEW t \in Nat, NEW w \in Nat, NEW b \in Nat,
         NEW a \in Nat, NEW g \in Nat, NEW l, NEW p, b >= 1, c + n <= w, c + n <= g * b, g <= a,
         \/ k + n <= t /\ k <= c
         \/ \E q \in Nat : l = q * p /\ q <= g /\ w <= c + b
  PROVE  Fits(p, t, k, n, a, b, l)
<1>1. g * b <= a * b
  BY MulIs
<1>2. g * b \in Nat /\ a * b \in Nat
  BY MulNat
<1>3. PICK u \in Nat, v \in Nat : u = g * b /\ v = a * b
  BY <1>2
<1>4. c + n <= v
  BY <1>1, <1>3
<1>5. CASE k + n <= t /\ k <= c
  <2>1. k + n <= t /\ k + n <= v
    BY <1>4, <1>5
  <2> QED BY <1>3, <2>1 DEF Fits
<1>6. CASE \E q \in Nat : l = q * p /\ q <= g /\ w <= c + b
  <2>1. PICK q \in Nat : l = q * p /\ q <= g /\ w <= c + b
    BY <1>6
  <2>2. PICK z : z = q * p
    OBVIOUS
  <2>3. q <= a /\ n <= b
    <3>1. q <= g /\ w <= c + b
      BY <2>1
    <3> QED BY <3>1
  <2> QED BY <2>1, <2>3 DEF Fits
<1> QED BY <1>5, <1>6

LEMMA DispatchTwo ==
  ASSUME MetaInv, phase = "sched", NEW r \in Known,
         \/ cfg.recovery = "pop"
         \/ D(r).meta.done <= ncomp[r] + plan.n[r] /\ D(r).meta.done <= meta[r].ntok
  PROVE  Len(D(r).dump.ids) = cfg.cp * Len(D(r).dump.vb)
<1>1. /\ r \in Requests /\ r \in InPlan /\ r \in DOMAIN meta /\ status[r] = "running"
      /\ IsSeq(plan.vb[r]) /\ Len(blocks[r]) \in Nat
      /\ Len(blocks[r]) <= Len(meta[r].vblocks) + Len(plan.vb[r])
      /\ (meta[r].done < meta[r].ntok => D(r).meta.done = meta[r].done + plan.n[r])
  BY DispatchOne
<1>2. MetaOf(r, meta[r]) /\ PlannedOf(r) /\ PopOf(r, meta[r]) /\ cfg \in Setups /\ ntok[r] <= cfg.max[r]
  BY <1>1 DEF MetaInv, Metas, Planned, Popped, Typed, ReqTyped
<1> DEFINE m == meta[r]
           ids == SubSeq(cfg.chain[r], 1, m.nids)
<1>3. PICK n \in Nat, c \in Nat, k \in Nat, t \in Nat, w \in Nat, b \in Nat, a \in Nat, g \in Nat, l \in Nat :
        /\ n = plan.n[r] /\ c = ncomp[r] /\ k = m.done /\ t = m.ntok /\ w = ntok[r] /\ b = BS
        /\ a = Len(m.vblocks) + Len(plan.vb[r]) /\ g = Len(blocks[r]) /\ l = m.nids
  <2>1. plan.n[r] \in Nat /\ ncomp[r] \in Nat /\ ntok[r] \in Nat
    BY <1>1, DispatchOne DEF MetaInv, Typed, ReqTyped
  <2>2. m.done \in Nat /\ m.ntok \in Nat /\ m.nids \in Nat
    BY <1>2 DEF MetaOf
  <2>3. BS \in Nat
    BY <1>2, Sizes
  <2>4. Len(m.vblocks) \in Nat /\ Len(plan.vb[r]) \in Nat
    BY <1>1, <1>2 DEF MetaOf, IsSeq
  <2> HIDE DEF m
  <2>5. \A x \in Nat, y \in Nat : x + y \in Nat
    OBVIOUS
  <2>6. Len(m.vblocks) + Len(plan.vb[r]) \in Nat
    BY <2>4, <2>5, Zenon
  <2> QED BY <1>1, <2>1, <2>2, <2>3, <2>6, Zenon
<1>4. t <= w /\ c + n <= w /\ c + n <= g * b /\ g <= a /\ l = t \div cfg.hbs /\ t <= cfg.max[r]
  <2>1. t <= w /\ c + n <= w /\ c + n <= g * b /\ g <= a /\ l = t \div cfg.hbs
    BY <1>1, <1>2, <1>3 DEF MetaOf, PlannedOf
  <2>2. PICK x \in Nat : x = cfg.max[r] /\ w <= x
    BY <1>1, <1>2, <1>3, Prompts
  <2>3. t <= cfg.max[r]
    <3>1. t <= w
      BY <2>1
    <3> QED BY <2>2, <3>1
  <2> QED BY <2>1, <2>3
<1>5. IsSeq(ids) /\ Len(ids) = l
  <2>1. l = NumHashes(cfg, t)
    BY <1>4 DEF NumHashes
  <2>2. IsSeq(SubSeq(cfg.chain[r], 1, l)) /\ Len(SubSeq(cfg.chain[r], 1, l)) = l
    BY <1>1, <1>2, <1>3, <1>4, <2>1, HashesIs
  <2> QED BY <1>3, <2>2
<1>6. b >= 1 /\ b = BlockTokens(cfg) /\ cfg.cp \in Nat /\ cfg.cp >= 1 /\ cfg.hbs \in Nat /\ cfg.hbs >= 1
  BY <1>2, <1>3, Sizes DEF BS
<1>7. k < t => Fits(cfg.cp, t, k, n, a, b, l)
  <2> SUFFICES ASSUME k < t  PROVE Fits(cfg.cp, t, k, n, a, b, l)
    OBVIOUS
  <2>1. (k + n <= t /\ k <= c) \/ (\E q \in Nat : l = q * cfg.cp /\ q <= g /\ w <= c + b)
    <3>1. CASE cfg.recovery = "pop"
      <4>1. (k = c /\ t = w) \/ Stale(r, m)
        BY <1>1, <1>2, <1>3, <3>1 DEF PopOf
      <4>2. CASE k = c /\ t = w
        <5>1. c + n <= w
          BY <1>4
        <5> QED BY <1>3, <4>2, <5>1
      <4>3. CASE Stale(r, m)
        BY <1>3, <4>3 DEF Stale
      <4> QED BY <4>1, <4>2, <4>3
    <3>2. CASE D(r).meta.done <= ncomp[r] + plan.n[r] /\ D(r).meta.done <= meta[r].ntok
      <4>1. D(r).meta.done = k + n
        BY <1>1, <1>3
      <4>2. k + n <= c + n /\ k + n <= t
        BY <1>3, <3>2, <4>1
      <4> QED BY <4>2
    <3> QED BY <3>1, <3>2
  <2>2. b >= 1 /\ c + n <= w /\ c + n <= g * b /\ g <= a
    BY <1>4, <1>6
  <2> QED BY <2>1, <2>2, FitsIf
<1> HIDE DEF ids
<1>8. D(r) = DispatchMeta(cfg, m, ids, n, plan.vb[r], r \in plan.load)
  BY <1>3 DEF D, ids
<1>9. IsSeq(m.vblocks)
  BY <1>2 DEF MetaOf
<1> HIDE DEF m
<1>10. /\ m.done \in Nat /\ m.ntok \in Nat /\ Len(ids) = m.ntok \div cfg.hbs
       /\ (m.done < m.ntok => Fits(cfg.cp, m.ntok, m.done, n, a, BlockTokens(cfg), Len(ids)))
  BY <1>3, <1>4, <1>5, <1>6, <1>7
<1>11. a = Len(m.vblocks) + Len(plan.vb[r]) /\ IsSeq(ids) /\ IsSeq(plan.vb[r])
  BY <1>1, <1>3, <1>5
<1>12. DumpReady(cfg, m, ids, n, plan.vb[r], a)
  BY <1>6, <1>9, <1>10, <1>11 DEF DumpReady
<1> QED BY <1>8, <1>12, DumpReadyIs, Zenon

LEMMA BuildSteps ==
  ASSUME MetaInv, BuildConnectorMeta
  PROVE  MetaInv'
<1>1. /\ phase = "sched" /\ phase' = "work" /\ cfg' = cfg /\ status' = status /\ ntok' = ntok
      /\ ncached' = ncached /\ blocks' = blocks /\ told' = {} /\ plan' = [plan EXCEPT !.fin = told]
      /\ DOMAIN job' = Known /\ DOMAIN meta' = DOMAIN meta \ told
  BY BuildIs
<1>2. \A r \in Known : job'[r].load = D(r).load /\ job'[r].dump = D(r).dump
  BY BuildIs
<1>3. \A r \in DOMAIN meta' : meta'[r] = IF r \in Known THEN D(r).meta ELSE meta[r]
  BY <1>1, BuildIs
<1>4. /\ DOMAIN ncomp' = Requests
      /\ \A r \in Requests : r \in InPlan => ncomp'[r] = ncomp[r] + plan.n[r]
      /\ \A r \in Requests : r \notin InPlan => ncomp'[r] = ncomp[r]
  BY BuildIs
<1>5. /\ PShape(plan') /\ plan'.n = plan.n /\ plan'.vb = plan.vb /\ plan'.load = plan.load
      /\ InPlan' = InPlan /\ Requests' = Requests
  BY <1>1 DEF MetaInv, Typed, PShape, InPlan, Requests
<1>6. Typed'
  <2>1. \A r \in Requests : ncomp'[r] \in Nat
    <3> TAKE r \in Requests
    <3>1. ncomp[r] \in Nat /\ (r \in InPlan => plan.n[r] \in Nat)
      BY DEF MetaInv, Typed, ReqTyped
    <3> QED BY <1>4, <3>1
  <2>2. \A r \in Requests : ReqTyped(r)'
    BY <1>1, <2>1 DEF MetaInv, Typed, ReqTyped
  <2> QED BY <1>1, <1>4, <1>5, <2>2 DEF MetaInv, Typed
<1>7. Metas'
  <2> SUFFICES ASSUME NEW r \in DOMAIN meta'  PROVE MetaOf(r, meta[r])'
    BY DEF Metas
  <2>1. r \in DOMAIN meta /\ MetaOf(r, meta[r])
    BY <1>1 DEF MetaInv, Metas
  <2>2. CASE r \notin Known
    BY <1>1, <1>3, <2>1, <2>2 DEF MetaOf
  <2>3. CASE r \in Known
    <3>1. /\ MShape(D(r).meta) /\ D(r).meta.hbm = meta[r].hbm /\ D(r).meta.total = meta[r].total
          /\ D(r).meta.ntok = meta[r].ntok /\ D(r).meta.nids = meta[r].nids /\ IsSeq(D(r).meta.vblocks)
      BY <1>1, <2>3, DispatchOne
    <3>2. D(r).meta.done \in Nat
      <4>1. PICK x \in Nat, y \in Nat : x = meta[r].done /\ y = plan.n[r]
        BY <1>1, <2>1, <2>3, DispatchOne DEF MetaOf
      <4>2. D(r).meta.done = x \/ D(r).meta.done = x + y
        BY <1>1, <2>3, <4>1, DispatchOne
      <4> QED BY <4>2
    <3>3. meta'[r] = D(r).meta
      BY <1>3, <2>3
    <3> QED BY <1>1, <2>1, <3>1, <3>2, <3>3 DEF MetaOf
  <2> QED BY <2>2, <2>3
<1>8. Planned'
  BY <1>1 DEF Planned
<1>9. Covered'
  <2> SUFFICES ASSUME NEW r \in DOMAIN meta', status[r] = "running"
               PROVE  Len(blocks[r]) <= Len(meta'[r].vblocks) + 0
    BY <1>1 DEF Covered, Coming
  <2>1. r \in DOMAIN meta /\ Len(blocks[r]) <= Len(meta[r].vblocks) + Coming(r)
    BY <1>1 DEF MetaInv, Covered
  <2>2. Len(meta[r].vblocks) \in Nat /\ Len(blocks[r]) \in Nat
    BY <2>1 DEF MetaInv, Metas, MetaOf, Typed, ReqTyped, IsSeq
  <2>3. CASE r \notin Known
    BY <1>1, <1>3, <2>1, <2>2, <2>3 DEF Coming, Known
  <2>4. CASE r \in Known
    <3>1. /\ Len(D(r).meta.vblocks) = Len(meta[r].vblocks) + Len(plan.vb[r])
          /\ Len(blocks[r]) <= Len(meta[r].vblocks) + Len(plan.vb[r]) /\ Len(plan.vb[r]) \in Nat
      BY <1>1, <2>4, DispatchOne DEF IsSeq
    <3>2. PICK x \in Nat, y \in Nat, z \in Nat :
            x = Len(meta[r].vblocks) /\ y = Len(plan.vb[r]) /\ z = Len(blocks[r])
      BY <2>2, <3>1
    <3>3. meta'[r] = D(r).meta
      BY <1>3, <2>4
    <3>4. Len(meta'[r].vblocks) = x + y /\ z <= x + y
      BY <3>1, <3>2, <3>3
    <3>5. PICK v \in Nat : v = x + y /\ z <= v + 0
      BY <3>4
    <3> QED BY <3>2, <3>4, <3>5, Zenon
  <2> QED BY <2>3, <2>4
<1>10. Popped'
  <2> SUFFICES ASSUME NEW r \in DOMAIN meta'  PROVE PopOf(r, meta[r])'
    BY DEF Popped
  <2>1. r \in DOMAIN meta /\ r \in Requests /\ PopOf(r, meta[r]) /\ MetaOf(r, meta[r])
    BY <1>1 DEF MetaInv, Popped, Typed, Metas
  <2>2. CASE r \notin Known
    <3>1. r \notin InPlan /\ meta'[r] = meta[r] /\ ncomp'[r] = ncomp[r]
      BY <1>3, <1>4, <2>1, <2>2 DEF Known
    <3> QED BY <1>1, <2>1, <3>1 DEF PopOf, Whole, Stale, BS
  <2>3. CASE r \in Known
    <3>1. PICK n \in Nat, c \in Nat, k \in Nat, t \in Nat, w \in Nat, b \in Nat :
            n = plan.n[r] /\ c = ncomp[r] /\ k = meta[r].done /\ t = meta[r].ntok /\ w = ntok[r] /\ b = BS
      BY <1>1, <2>1, <2>3, DispatchOne, Sizes DEF MetaOf, MetaInv, Typed, ReqTyped
    <3>2. ncomp'[r] = c + n /\ status[r] = "running"
      BY <1>1, <1>4, <2>1, <2>3, <3>1, DispatchOne
    <3>3. meta'[r] = D(r).meta /\ meta'[r].ntok = t /\ meta'[r].nids = meta[r].nids
      BY <1>1, <1>3, <2>3, <3>1, DispatchOne
    <3>4. (k < t => meta'[r].done = k + n) /\ (~(k < t) => meta'[r].done = k)
      BY <1>1, <2>3, <3>1, <3>3, DispatchOne
    <3> SUFFICES ASSUME cfg.recovery = "pop", meta'[r].done < t
                 PROVE  /\ t = w \/ \E q \in Nat : meta[r].nids = q * cfg.cp
                        /\ \/ meta'[r].done = c + n /\ t = w
                           \/ \E q \in Nat : meta[r].nids = q * cfg.cp /\ q <= Len(blocks[r]) /\ w <= c + n + b
      BY <1>1, <3>1, <3>2, <3>3 DEF PopOf, Whole, Stale, BS
    <3>5. k < t
      BY <3>1, <3>4
    <3>6. /\ t = w \/ \E q \in Nat : meta[r].nids = q * cfg.cp
          /\ (k = c /\ t = w) \/ \E q \in Nat : meta[r].nids = q * cfg.cp /\ q <= Len(blocks[r]) /\ w <= c + b
      BY <2>1, <3>1, <3>2, <3>5 DEF PopOf, Whole, Stale
    <3>7. CASE k = c /\ t = w
      BY <3>1, <3>4, <3>5, <3>7
    <3>8. CASE \E q \in Nat : meta[r].nids = q * cfg.cp /\ q <= Len(blocks[r]) /\ w <= c + b
      <4>1. PICK q \in Nat : meta[r].nids = q * cfg.cp /\ q <= Len(blocks[r]) /\ w <= c + b
        BY <3>8
      <4>2. w <= c + n + b
        BY <3>1, <4>1
      <4> QED BY <4>1, <4>2, Zenon
    <3> QED BY <3>6, <3>7, <3>8
  <2> QED BY <2>2, <2>3
<1>11. Jobs'
  <2> SUFFICES ASSUME NEW r \in DOMAIN job'  PROVE JobOf(r)'
    BY DEF Jobs
  <2>1. r \in Known /\ r \in DOMAIN meta /\ r \notin told /\ r \in InPlan /\ r \in Requests
    BY <1>1, DispatchOne
  <2>2. r \in DOMAIN meta' /\ Len(job'[r].load.ids) = cfg.cp * Len(job'[r].load.vb)
    BY <1>1, <1>2, <2>1, DispatchOne
  <2>3. ASSUME InStep(r)'  PROVE Len(job'[r].dump.ids) = cfg.cp * Len(job'[r].dump.vb)
    <3>1. meta'[r] = D(r).meta /\ ncomp'[r] = ncomp[r] + plan.n[r] /\ D(r).meta.ntok = meta[r].ntok
      BY <1>1, <1>3, <1>4, <2>1, <2>2, DispatchOne
    <3>2. \/ cfg.recovery = "pop"
          \/ D(r).meta.done <= ncomp[r] + plan.n[r] /\ D(r).meta.done <= meta[r].ntok
      BY <1>1, <2>3, <3>1 DEF InStep
    <3> QED BY <1>1, <1>2, <2>1, <3>2, DispatchTwo
  <2> QED BY <1>1, <2>2, <2>3 DEF JobOf
<1>12. Phases'
  BY <1>1 DEF Phases
<1> QED BY <1>6, <1>7, <1>8, <1>9, <1>10, <1>11, <1>12 DEF MetaInv

----------------------------------------------------------------------------
(* update_from_output                                                       *)

Bad  == UNION {rep[k].inv : k \in Ranks}
Full == {r \in InPlan \ Affected(Bad) : ncomp[r] = ntok[r]}
Over == {r \in Full : ntok[r] = cfg.max[r]}
Kept == {r \in Over : Delayed(r)}
Gone(r) == r \in AllSent \/ r \in Over \ Kept

LEMMA UpdateIs ==
  ASSUME UpdateFromOutput
  PROVE  /\ phase = "work" /\ phase' = "sched" /\ cfg' = cfg /\ ncached' = ncached
         /\ plan' = NoPlan /\ job' = <<>> /\ told' = told \union Over
         /\ ncomp' = Scanned(Bad).comp
         /\ ntok' = [r \in Requests |-> IF r \in Full \ Over THEN ntok[r] + 1 ELSE ntok[r]]
         /\ status' = [r \in Requests |-> IF Gone(r) THEN "done" ELSE IF r \in Kept THEN "held" ELSE status[r]]
         /\ blocks' = [r \in Requests |-> IF Gone(r) THEN <<>> ELSE blocks[r]]
         /\ \E w : meta' = Rescheduled(Affected(Bad), w)
<1>1. /\ phase = "work" /\ phase' = "sched" /\ cfg' = cfg /\ ncached' = ncached
      /\ plan' = NoPlan /\ job' = <<>>
  BY DEF UpdateFromOutput
<1>2. Scanned(Bad).hit = Affected(Bad)
  BY DEF Scanned
<1>3. ncomp' = Scanned(Bad).comp
  BY DEF UpdateFromOutput, Bad
<1>4. told' = told \union Over
  BY <1>2 DEF UpdateFromOutput, Bad, Full, Over
<1>5. ntok' = [r \in Requests |-> IF r \in Full \ Over THEN ntok[r] + 1 ELSE ntok[r]]
  BY <1>2 DEF UpdateFromOutput, Bad, Full, Over
<1>6. status' = [r \in Requests |-> IF Gone(r) THEN "done" ELSE IF r \in Kept THEN "held" ELSE status[r]]
  BY <1>2 DEF UpdateFromOutput, Bad, Full, Over, Kept, Gone
<1>7. blocks' = [r \in Requests |-> IF Gone(r) THEN <<>> ELSE blocks[r]]
  BY <1>2 DEF UpdateFromOutput, Bad, Full, Over, Kept, Gone
<1>8. \E w : meta' = Rescheduled(Affected(Bad), w)
  BY <1>2 DEF UpdateFromOutput, Bad
<1> QED BY <1>1, <1>3, <1>4, <1>5, <1>6, <1>7, <1>8

(* A request that is computed again starts at a token.                      *)
LEMMA ScannedIs ==
  ASSUME MetaInv, NEW inv, NEW r \in Requests
  PROVE  /\ DOMAIN Scanned(inv).comp = Requests /\ Scanned(inv).comp[r] \in Nat
         /\ (r \notin Affected(inv) => Scanned(inv).comp[r] = ncomp[r])
<1>1. DOMAIN Scanned(inv).comp = Requests /\ (r \notin Affected(inv) => Scanned(inv).comp[r] = ncomp[r])
  BY DEF Scanned
<1>2. ncomp[r] \in Nat /\ (status[r] = "running" => ncached[r] \in Nat)
  BY DEF MetaInv, Typed, ReqTyped
<1>3. CASE r \notin Affected(inv)
  BY <1>1, <1>2, <1>3
<1>4. CASE r \in Affected(inv) /\ Recomputed(r, inv) = {}
  BY <1>2, <1>4 DEF Scanned, Affected
<1>5. CASE r \in Affected(inv) /\ Recomputed(r, inv) # {}
  <2>1. Recomputed(r, inv) \subseteq Nat \ {0}
    <3> SUFFICES ASSUME NEW i \in Recomputed(r, inv)  PROVE i \in Nat \ {0}
      OBVIOUS
    <3>1. i \in InvalidIn(r, inv)
      BY DEF Recomputed
    <3>2. PICK e : e = Min({CeilDiv(ncached[r], BS), Len(blocks[r])})
      OBVIOUS
    <3>3. i \in 1..e
      BY <3>1, <3>2 DEF InvalidIn, Scannable
    <3>4. i \in Int /\ 1 <= i
      BY <3>3
    <3> QED BY <3>4
  <2>2. PICK i \in Nat : i = Min(Recomputed(r, inv)) /\ i >= 1
    BY <1>5, <2>1, MinIs
  <2>3. PICK j \in Nat : j = i - 1
    BY <2>2
  <2>4. j * BS \in Nat
    BY Sizes, MulNat DEF MetaInv, Typed
  <2>5. Scanned(inv).comp[r] = (i - 1) * BS
    BY <1>5, <2>2 DEF Scanned
  <2>6. Scanned(inv).comp[r] \in Nat
    BY <2>3, <2>4, <2>5, Zenon
  <2> QED BY <1>1, <1>5, <2>6
<1> QED BY <1>1, <1>3, <1>4, <1>5

(* The metadata that a step leaves.                                         *)
LEMMA RescheduledIs ==
  ASSUME MetaInv, NEW hit, NEW w, NEW e, e = Rescheduled(hit, w)
  PROVE  /\ DOMAIN e \subseteq DOMAIN meta
         /\ (cfg.recovery = "pop" => \A r \in DOMAIN e : r \notin hit /\ e[r] = meta[r])
         /\ \A r \in DOMAIN e : MetaOf(r, e[r]) /\ e[r].vblocks = meta[r].vblocks
<1>1. CASE cfg.recovery = "pop"
  BY <1>1 DEF MetaInv, Metas, Rescheduled
<1>2. CASE cfg.recovery # "pop"
  <2>1. e = Recovered(w)
    BY <1>2 DEF Rescheduled
  <2>2. DOMAIN e \subseteq DOMAIN meta
    BY <2>1 DEF Recovered
  <2> SUFFICES ASSUME NEW r \in DOMAIN e  PROVE MetaOf(r, e[r]) /\ e[r].vblocks = meta[r].vblocks
    BY <1>2, <2>2
  <2>3. r \in DOMAIN meta /\ MetaOf(r, meta[r])
    BY <2>2 DEF MetaInv, Metas
  <2>4. CASE r \notin w.loadFailed
    BY <2>1, <2>3, <2>4 DEF Recovered
  <2>5. CASE r \in w.loadFailed
    <3>1. e[r] = [meta[r] EXCEPT !.total = meta[r].hbm, !.done = meta[r].hbm * BS]
      BY <2>1, <2>5 DEF Recovered
    <3>2. meta[r].hbm * BS \in Nat /\ meta[r].hbm * cfg.cp <= meta[r].nids
      <4>1. PICK h \in Nat, t \in Nat, b \in Nat, p \in Nat, n \in Nat :
              h = meta[r].hbm /\ t = meta[r].total /\ b = BS /\ p = cfg.cp /\ n = meta[r].nids /\ b >= 1 /\ p >= 1
        BY <2>3, Sizes DEF MetaOf, MetaInv, Typed
      <4>2. h <= t /\ t * p <= n
        BY <2>3, <4>1 DEF MetaOf
      <4>3. h * p <= t * p /\ h * p \in Nat /\ t * p \in Nat /\ h * b \in Nat
        BY <4>1, <4>2, MulIs, MulNat
      <4>4. PICK x \in Nat, y \in Nat : x = h * p /\ y = t * p
        BY <4>3
      <4>5. h * p <= n
        BY <4>2, <4>3, <4>4
      <4> QED BY <4>1, <4>3, <4>5
    <3>3. /\ MShape(e[r]) /\ e[r].hbm = meta[r].hbm /\ e[r].total = meta[r].hbm /\ e[r].ntok = meta[r].ntok
          /\ e[r].nids = meta[r].nids /\ e[r].vblocks = meta[r].vblocks /\ e[r].done = meta[r].hbm * BS
      BY <2>3, <3>1 DEF MetaOf, MShape
    <3> QED BY <2>3, <3>2, <3>3 DEF MetaOf
  <2> QED BY <2>4, <2>5
<1> QED BY <1>1, <1>2

LEMMA UpdateSteps ==
  ASSUME MetaInv, UpdateFromOutput
  PROVE  MetaInv'
<1>1. /\ phase = "work" /\ phase' = "sched" /\ cfg' = cfg /\ ncached' = ncached
      /\ plan' = NoPlan /\ job' = <<>> /\ told' = told \union Over /\ ncomp' = Scanned(Bad).comp
  BY UpdateIs
<1>2. /\ DOMAIN ntok' = Requests
      /\ \A r \in Requests : ntok'[r] = IF r \in Full \ Over THEN ntok[r] + 1 ELSE ntok[r]
  BY UpdateIs
<1>3. /\ DOMAIN status' = Requests /\ DOMAIN blocks' = Requests
      /\ \A r \in Requests : /\ status'[r] = IF Gone(r) THEN "done" ELSE IF r \in Kept THEN "held" ELSE status[r]
                             /\ blocks'[r] = IF Gone(r) THEN <<>> ELSE blocks[r]
  BY UpdateIs
<1>4. PICK w : meta' = Rescheduled(Affected(Bad), w)
  BY UpdateIs
<1>5. /\ DOMAIN meta' \subseteq DOMAIN meta
      /\ (cfg.recovery = "pop" => \A r \in DOMAIN meta' : r \notin Affected(Bad) /\ meta'[r] = meta[r])
      /\ \A r \in DOMAIN meta' : MetaOf(r, meta'[r]) /\ meta'[r].vblocks = meta[r].vblocks
  BY <1>4, RescheduledIs
<1>6. PShape(plan') /\ InPlan' = {} /\ DOMAIN plan'.vb = {} /\ plan'.load = {} /\ DOMAIN job' = {} /\ Requests' = Requests
  BY <1>1 DEF NoPlan, PShape, InPlan, Requests
<1>7. \A r \in Requests : ntok[r] \in Nat /\ ncomp[r] \in Nat /\ ntok[r] <= cfg.max[r] /\ ntok[r] >= 1 /\ cfg.max[r] \in Nat
  BY Prompts DEF MetaInv, Typed, ReqTyped
<1>8. \A r \in Requests : /\ ntok'[r] \in Nat /\ ntok'[r] >= ntok[r] /\ ntok'[r] <= cfg.max[r]
  <2> TAKE r \in Requests
  <2>1. r \in Full \ Over => ntok[r] # cfg.max[r]
    BY DEF Over
  <2> QED BY <1>2, <1>7, <2>1
<1>9. \A r \in Requests : status'[r] = "running" => status[r] = "running" /\ blocks'[r] = blocks[r]
  BY <1>3
<1>10. Typed'
  <2>1. \A r \in Requests : ReqTyped(r)'
    <3> TAKE r \in Requests
    <3>1. ncomp'[r] \in Nat
      BY <1>1, ScannedIs
    <3>2. IsSeq(blocks'[r])
      <4>1. IsSeq(<<>>) /\ IsSeq(blocks[r])
        BY DEF IsSeq, MetaInv, Typed, ReqTyped
      <4> QED BY <1>3, <4>1
    <3>3. ReqTyped(r)
      BY DEF MetaInv, Typed
    <3>4. ntok'[r] >= 1
      <4>1. ntok[r] \in Nat /\ ntok[r] >= 1 /\ ntok'[r] \in Nat /\ ntok'[r] >= ntok[r]
        BY <1>7, <1>8
      <4> QED BY <4>1
    <3> QED BY <1>1, <1>8, <1>9, <3>1, <3>2, <3>3, <3>4 DEF ReqTyped
  <2>2. DOMAIN ncomp' = Requests
    <3>1. CASE Requests = {}
      BY <1>1, <3>1 DEF Scanned
    <3>2. CASE Requests # {}
      BY <1>1, <3>2, ScannedIs
    <3> QED BY <3>1, <3>2
  <2>3. \A r \in told' : r \in Requests => status'[r] \notin {"running", "waiting"}
    <3> TAKE r \in told'
    <3>1. CASE r \in told
      BY <1>3, <3>1 DEF MetaInv, Typed
    <3>2. CASE r \in Over
      BY <1>3, <3>2 DEF Gone
    <3> QED BY <1>1, <3>1, <3>2
  <2>4. cfg' \in Setups /\ DOMAIN ncached' = Requests /\ DOMAIN meta' \subseteq Requests
    BY <1>1, <1>5 DEF MetaInv, Typed
  <2> QED BY <1>2, <1>3, <1>6, <2>1, <2>2, <2>3, <2>4 DEF Typed
<1>11. Metas'
  <2> SUFFICES ASSUME NEW r \in DOMAIN meta'  PROVE MetaOf(r, meta[r])'
    BY DEF Metas
  <2>1. r \in Requests /\ MetaOf(r, meta'[r])
    BY <1>5 DEF MetaInv, Typed
  <2>2. meta'[r].ntok <= ntok'[r]
    <3>1. meta'[r].ntok \in Nat /\ meta'[r].ntok <= ntok[r]
      BY <2>1 DEF MetaOf
    <3>2. ntok[r] \in Nat /\ ntok'[r] \in Nat /\ ntok[r] <= ntok'[r]
      BY <1>7, <1>8, <2>1
    <3> QED BY <3>1, <3>2
  <2> QED BY <1>1, <2>1, <2>2 DEF MetaOf
<1>12. Planned'
  BY <1>6 DEF Planned
<1>13. Covered'
  <2> SUFFICES ASSUME NEW r \in DOMAIN meta', status'[r] = "running"
               PROVE  Len(blocks'[r]) <= Len(meta'[r].vblocks) + 0
    BY <1>6 DEF Covered, Coming
  <2>1. r \in DOMAIN meta /\ r \in Requests /\ meta'[r].vblocks = meta[r].vblocks
    BY <1>5 DEF MetaInv, Typed
  <2>2. status[r] = "running" /\ blocks'[r] = blocks[r]
    BY <1>9, <2>1
  <2>3. Len(blocks[r]) <= Len(meta[r].vblocks) + 0
    BY <1>1, <2>1, <2>2 DEF MetaInv, Covered, Coming
  <2> QED BY <2>1, <2>2, <2>3
<1>14. Popped'
  <2> SUFFICES ASSUME NEW r \in DOMAIN meta', cfg.recovery = "pop"  PROVE PopOf(r, meta[r])'
    BY <1>1 DEF Popped, PopOf
  <2>1. /\ r \in DOMAIN meta /\ r \in Requests /\ meta'[r] = meta[r] /\ PopOf(r, meta[r]) /\ r \notin Affected(Bad)
        /\ MetaOf(r, meta[r])
    BY <1>5 DEF MetaInv, Popped, Typed, Metas
  <2>2. ncomp'[r] = ncomp[r]
    BY <1>1, <2>1, ScannedIs
  <2>3. CASE r \notin Full \ Over
    BY <1>1, <1>2, <1>9, <2>1, <2>2, <2>3 DEF PopOf, Whole, Stale, BS
  <2>4. CASE r \in Full \ Over
    <3>1. PICK c \in Nat, k \in Nat, t \in Nat, v \in Nat, b \in Nat :
            /\ c = ncomp[r] /\ k = meta[r].done /\ t = meta[r].ntok /\ v = ntok[r] /\ b = BS /\ b >= 1
      BY <1>7, <2>1, Sizes DEF MetaOf, MetaInv, Typed
    <3>2. status[r] = "running" /\ c = v /\ ntok'[r] = v + 1
      BY <1>2, <2>1, <2>4, <3>1 DEF Full, MetaInv, Typed
    <3>3. CASE ~(k < t)
      BY <2>1, <3>1, <3>3 DEF PopOf
    <3>4. CASE k < t
      <4>1. (k = c /\ t = v) \/ Stale(r, meta[r])
        BY <2>1, <3>1, <3>2, <3>4 DEF PopOf
      <4>2. ~(k = c /\ t = v)
        BY <3>1, <3>2, <3>4
      <4>3. PICK q \in Nat : meta[r].nids = q * cfg.cp /\ q <= Len(blocks[r])
        BY <4>1, <4>2 DEF Stale
      <4>4. v + 1 <= c + b
        BY <3>1, <3>2
      <4>5. Whole(meta[r])'
        BY <1>1, <2>1, <4>3, Zenon DEF Whole
      <4>6. status'[r] = "running" => Stale(r, meta[r])'
        BY <1>1, <1>9, <2>1, <2>2, <3>1, <3>2, <4>3, <4>4 DEF Stale, BS
      <4> QED BY <4>5, <4>6 DEF PopOf
    <3> QED BY <3>3, <3>4
  <2> QED BY <2>3, <2>4
<1>15. Jobs' /\ Phases'
  BY <1>6 DEF Jobs, Phases
<1> QED BY <1>10, <1>11, <1>12, <1>13, <1>14, <1>15 DEF MetaInv

----------------------------------------------------------------------------
(* The engine's scheduler                                                   *)

LEMMA InitHolds == Init => MetaInv
<1> SUFFICES ASSUME Init  PROVE MetaInv
  OBVIOUS
<1>1. /\ cfg \in Setups /\ ntok = cfg.prompt /\ plan = NoPlan /\ meta = <<>> /\ job = <<>> /\ told = {}
      /\ status = [r \in Requests |-> "waiting"] /\ ncomp = [r \in Requests |-> 0]
      /\ ncached = [r \in Requests |-> Unset] /\ blocks = [r \in Requests |-> <<>>]
  BY DEF Init
<1>2. PShape(plan) /\ InPlan = {} /\ DOMAIN plan.vb = {} /\ plan.load = {} /\ DOMAIN job = {} /\ DOMAIN meta = {}
  BY <1>1 DEF NoPlan, PShape, InPlan
<1>3. \A r \in Requests : ReqTyped(r)
  <2> TAKE r \in Requests
  <2>1. IsSeq(<<>>)
    BY DEF IsSeq
  <2> QED BY <1>1, <2>1, Prompts DEF ReqTyped
<1>4. DOMAIN ntok = Requests
  BY <1>1 DEF Requests
<1>5. Typed
  BY <1>1, <1>2, <1>3, <1>4 DEF Typed
<1> QED BY <1>2, <1>5 DEF MetaInv, Metas, Planned, Covered, Popped, Jobs, Phases

LEMMA PreemptSteps ==
  ASSUME MetaInv, NEW r \in Requests, Preempt(r)
  PROVE  MetaInv'
<1>1. /\ phase = "sched" /\ r \notin InPlan /\ status' = [status EXCEPT ![r] = "waiting"]
      /\ blocks' = [blocks EXCEPT ![r] = <<>>] /\ ncomp' = [ncomp EXCEPT ![r] = 0]
      /\ plan' = [plan EXCEPT !.pre = @ \union {r}]
      /\ cfg' = cfg /\ phase' = phase /\ ntok' = ntok /\ ncached' = ncached /\ told' = told
      /\ meta' = meta /\ job' = job /\ status[r] = "running"
  BY DEF Preempt, link, srole
<1>2. /\ PShape(plan') /\ plan'.n = plan.n /\ plan'.vb = plan.vb /\ plan'.load = plan.load
      /\ InPlan' = InPlan /\ Requests' = Requests
  BY <1>1 DEF MetaInv, Typed, PShape, InPlan, Requests
<1>3. /\ DOMAIN status' = Requests /\ DOMAIN blocks' = Requests /\ DOMAIN ncomp' = Requests
      /\ status'[r] = "waiting" /\ blocks'[r] = <<>> /\ ncomp'[r] = 0
      /\ \A q \in Requests : q # r => status'[q] = status[q] /\ blocks'[q] = blocks[q] /\ ncomp'[q] = ncomp[q]
  BY <1>1 DEF MetaInv, Typed
<1>4. Typed'
  <2>1. \A q \in Requests : ReqTyped(q)'
    <3> TAKE q \in Requests
    <3>1. IsSeq(<<>>) /\ ReqTyped(q)
      BY DEF IsSeq, MetaInv, Typed
    <3> QED BY <1>1, <1>3, <3>1 DEF ReqTyped
  <2> QED BY <1>1, <1>2, <1>3, <2>1 DEF MetaInv, Typed
<1>5. Metas'
  BY <1>1 DEF MetaInv, Metas, MetaOf
<1>6. Planned'
  BY <1>1, <1>2, <1>3 DEF MetaInv, Planned, PlannedOf, BS, Typed
<1>7. Covered'
  BY <1>1, <1>2, <1>3 DEF MetaInv, Covered, Coming, Typed
<1>8. Popped'
  BY <1>1, <1>3 DEF MetaInv, Popped, PopOf, Whole, Stale, Typed, BS
<1>9. Jobs' /\ Phases'
  BY <1>1 DEF MetaInv, Jobs, Phases
<1> QED BY <1>4, <1>5, <1>6, <1>7, <1>8, <1>9 DEF MetaInv

LEMMA AbortSteps ==
  ASSUME MetaInv, NEW r \in Requests, Abort(r)
  PROVE  MetaInv'
<1>1. /\ phase = "sched" /\ plan = NoPlan /\ cfg' = cfg /\ phase' = phase /\ ntok' = ntok /\ ncomp' = ncomp
      /\ ncached' = ncached /\ plan' = plan /\ meta' = meta /\ job' = job /\ told' = told \union {r}
      /\ status' = [q \in Requests |-> IF q \notin {r} THEN status[q] ELSE IF Delayed(q) THEN "held" ELSE "done"]
      /\ (blocks' = blocks \/ blocks' = [blocks EXCEPT ![r] = <<>>])
  BY DEF Abort, Ended
<1>2. InPlan = {} /\ InPlan' = {} /\ Requests' = Requests
  BY <1>1 DEF NoPlan, InPlan, Requests
<1>3. /\ DOMAIN status' = Requests /\ DOMAIN blocks' = Requests
      /\ status'[r] \notin {"running", "waiting"} /\ blocks'[r] \in {<<>>, blocks[r]}
      /\ \A q \in Requests : q # r => status'[q] = status[q] /\ blocks'[q] = blocks[q]
  BY <1>1 DEF MetaInv, Typed
<1>4. Typed'
  <2>1. \A q \in Requests : ReqTyped(q)'
    <3> TAKE q \in Requests
    <3>1. IsSeq(<<>>) /\ ReqTyped(q)
      BY DEF IsSeq, MetaInv, Typed
    <3>2. IsSeq(blocks'[q])
      BY <1>3, <3>1 DEF ReqTyped
    <3> QED BY <1>1, <1>3, <3>1, <3>2 DEF ReqTyped
  <2>2. PShape(plan') /\ DOMAIN plan'.vb = InPlan' /\ plan'.load \subseteq InPlan'
    BY <1>1, <1>2 DEF MetaInv, Typed
  <2>3. \A q \in told' : q \in Requests => status'[q] \notin {"running", "waiting"}
    BY <1>1, <1>3 DEF MetaInv, Typed
  <2>4. DOMAIN ntok' = Requests /\ DOMAIN ncomp' = Requests /\ DOMAIN ncached' = Requests /\ cfg' \in Setups
        /\ DOMAIN meta' \subseteq Requests
    BY <1>1 DEF MetaInv, Typed
  <2> QED BY <1>2, <1>3, <2>1, <2>2, <2>3, <2>4 DEF Typed
<1>5. Metas'
  BY <1>1 DEF MetaInv, Metas, MetaOf
<1>6. Planned'
  BY <1>2 DEF Planned
<1>7. Covered'
  BY <1>1, <1>2, <1>3 DEF MetaInv, Covered, Coming, Typed
<1>8. Popped'
  BY <1>1, <1>3 DEF MetaInv, Popped, PopOf, Whole, Stale, Typed, BS
<1>9. Jobs' /\ Phases'
  BY <1>1 DEF MetaInv, Jobs, Phases
<1> QED BY <1>4, <1>5, <1>6, <1>7, <1>8, <1>9 DEF MetaInv

(* A chunk is part of the rest.                                             *)
LEMMA ChunkIs ==
  ASSUME cfg \in Setups, NEW rest \in Int, NEW n \in Chunks(rest)
  PROVE  n \in Nat /\ 0 < n /\ n <= rest
<1>1. cfg.chunks \subseteq Nat
  BY Sizes
<1> QED BY <1>1 DEF Chunks

(* The blocks of the first n tokens, some of which are there already.       *)
LEMMA RoomIs ==
  ASSUME cfg \in Setups, NEW S, S \subseteq VBlocks, NEW k \in Nat, Cardinality(S) >= k
  PROVE  IsSeq(Lowest(S, k)) /\ Len(Lowest(S, k)) = k
<1>1. IsFiniteSet(S)
  BY FreeFinite
<1>2. PICK c \in Nat : c = Cardinality(S)
  BY <1>1, FS_CardinalityType
<1>3. k <= Cardinality(S)
  BY <1>2
<1> QED BY <1>1, <1>3, LowestIs

(* A request enters the plan.                                               *)
Entered(f, g, r, n, vb) ==
  /\ DOMAIN f = InPlan \union {r} /\ DOMAIN g = InPlan \union {r} /\ f[r] = n /\ g[r] = vb
  /\ \A q \in InPlan : q # r /\ f[q] = plan.n[q] /\ g[q] = plan.vb[q]

LEMMA PlanIs ==
  ASSUME Typed, NEW r, r \notin InPlan, NEW n, NEW vb
  PROVE  Entered(With(plan.n, r, n), With(plan.vb, r, vb), r, n, vb)
<1>1. DOMAIN plan.n = InPlan /\ DOMAIN plan.vb = InPlan
  BY DEF Typed, InPlan
<1>2. PICK f, g : f = With(plan.n, r, n) /\ g = With(plan.vb, r, vb)
  OBVIOUS
<1>3. DOMAIN f = InPlan \union {r} /\ f[r] = n /\ \A q \in InPlan : q # r => f[q] = plan.n[q]
  BY <1>1, <1>2 DEF With
<1>4. DOMAIN g = InPlan \union {r} /\ g[r] = vb /\ \A q \in InPlan : q # r => g[q] = plan.vb[q]
  BY <1>1, <1>2 DEF With
<1>5. Entered(f, g, r, n, vb)
  BY <1>3, <1>4 DEF Entered
<1> QED BY <1>2, <1>5

(* Blocks for a tokens end behind them.                                     *)
LEMMA EnoughIs ==
  ASSUME NEW a \in Nat, NEW b \in Nat, b >= 1, NEW g \in Nat, CeilDiv(a, b) <= g
  PROVE  a <= g * b
<1>1. CeilDiv(a, b) \in Nat /\ CeilDiv(a, b) * b >= a
  BY CeilIs, Zenon
<1>2. PICK e \in Nat : e = CeilDiv(a, b) /\ e * b >= a
  BY <1>1
<1>3. e * b <= g * b
  BY <1>2, MulIs
<1>4. e * b \in Nat /\ g * b \in Nat
  BY MulNat
<1>5. PICK x \in Nat, y \in Nat : x = e * b /\ y = g * b
  BY <1>4
<1> QED BY <1>2, <1>3, <1>5

LEMMA ContinueIs ==
  ASSUME MetaInv, NEW r \in Requests, Continue(r)
  PROVE  \E n \in Nat : \E new :
           /\ IsSeq(new) /\ ncomp[r] + n <= ntok[r]
           /\ ncomp[r] + n <= (Len(blocks[r]) + Len(new)) * BS
           /\ blocks' = [blocks EXCEPT ![r] = @ \o new]
           /\ plan'.n = With(plan.n, r, n) /\ plan'.vb = With(plan.vb, r, new)
           /\ plan'.load = plan.load /\ PShape(plan')
<1>1. /\ cfg \in Setups /\ ntok[r] \in Nat /\ ncomp[r] \in Nat /\ IsSeq(blocks[r]) /\ PShape(plan)
  BY DEF MetaInv, Typed, ReqTyped
<1>2. PICK t \in Nat, c \in Nat, b \in Nat, l \in Nat :
         t = ntok[r] /\ c = ncomp[r] /\ b = BS /\ b >= 1 /\ l = Len(blocks[r])
  BY <1>1, Sizes DEF IsSeq
<1>3. PICK n \in Chunks(ntok[r] - ncomp[r]) :
         LET need == Max({0, CeilDiv(ncomp[r] + n, BS) - Len(blocks[r])})
             new  == Lowest(Free, need)
         IN /\ Cardinality(Free) >= need
            /\ blocks' = [blocks EXCEPT ![r] = @ \o new]
            /\ plan' = [plan EXCEPT !.n = With(@, r, n), !.vb = With(@, r, new),
                                    !.new = @ \union ToSet(new)]
  BY DEF Continue
<1>4. n \in Nat /\ 0 < n /\ n <= t - c
  <2>1. t - c \in Int /\ n \in Chunks(t - c)
    BY <1>2, <1>3
  <2> QED BY <1>1, <2>1, ChunkIs
<1>5. PICK a \in Nat : a = c + n
  BY <1>4
<1>6. PICK e \in Nat : e = CeilDiv(a, b)
  BY <1>2, CeilIs
<1>7. PICK need \in Nat : need = Max({0, CeilDiv(ncomp[r] + n, BS) - Len(blocks[r])}) /\ e <= l + need
  <2>1. CeilDiv(ncomp[r] + n, BS) - Len(blocks[r]) = e - l
    BY <1>2, <1>5, <1>6
  <2>2. e - l \in Int
    OBVIOUS
  <2>3. Max({0, e - l}) = IF 0 <= e - l THEN e - l ELSE 0
    BY <2>2, MaxOfTwo
  <2>4. PICK x \in Nat : x = Max({0, e - l}) /\ e <= l + x
    BY <2>3
  <2> QED BY <2>1, <2>4
<1>8. PICK new : new = Lowest(Free, need)
  OBVIOUS
<1>9. /\ Cardinality(Free) >= need /\ blocks' = [blocks EXCEPT ![r] = @ \o new]
      /\ plan' = [plan EXCEPT !.n = With(@, r, n), !.vb = With(@, r, new), !.new = @ \union ToSet(new)]
  BY <1>3, <1>7, <1>8
<1>10. IsSeq(new) /\ Len(new) = need
  <2>1. Free \subseteq VBlocks
    BY DEF Free
  <2> QED BY <1>1, <1>8, <1>9, <2>1, RoomIs
<1>11. a <= (l + need) * b
  <2>1. PICK g \in Nat : g = l + need
    OBVIOUS
  <2>2. CeilDiv(a, b) <= g
    BY <1>6, <1>7, <2>1
  <2> QED BY <1>2, <2>1, <2>2, EnoughIs
<1>12. /\ plan'.n = With(plan.n, r, n) /\ plan'.vb = With(plan.vb, r, new)
       /\ plan'.load = plan.load /\ PShape(plan')
  BY <1>1, <1>9 DEF PShape
<1>13. ncomp[r] + n <= ntok[r]
  BY <1>2, <1>4
<1>14. ncomp[r] + n <= (Len(blocks[r]) + Len(new)) * BS
  BY <1>2, <1>5, <1>10, <1>11, Zenon
<1>15. blocks' = [blocks EXCEPT ![r] = @ \o new]
  BY <1>9
<1> n \in Nat
  BY <1>4
<1> WITNESS n \in Nat
<1> WITNESS new
<1> QED BY <1>10, <1>12, <1>13, <1>14, <1>15

LEMMA ContinueSteps ==
  ASSUME MetaInv, NEW r \in Requests, Continue(r)
  PROVE  MetaInv'
<1>1. /\ phase = "sched" /\ status[r] = "running" /\ r \notin InPlan /\ cfg' = cfg /\ phase' = phase
      /\ status' = status /\ ntok' = ntok /\ ncomp' = ncomp /\ ncached' = ncached /\ told' = told
      /\ meta' = meta /\ job' = job
  BY DEF Continue, link, srole
<1>2. PICK n \in Nat : \E new :
        /\ IsSeq(new) /\ ncomp[r] + n <= ntok[r] /\ ncomp[r] + n <= (Len(blocks[r]) + Len(new)) * BS
        /\ blocks' = [blocks EXCEPT ![r] = @ \o new]
        /\ plan'.n = With(plan.n, r, n) /\ plan'.vb = With(plan.vb, r, new)
        /\ plan'.load = plan.load /\ PShape(plan')
  BY ContinueIs
<1>3. PICK new :
        /\ IsSeq(new) /\ ncomp[r] + n <= ntok[r] /\ ncomp[r] + n <= (Len(blocks[r]) + Len(new)) * BS
        /\ blocks' = [blocks EXCEPT ![r] = @ \o new]
        /\ plan'.n = With(plan.n, r, n) /\ plan'.vb = With(plan.vb, r, new)
        /\ plan'.load = plan.load /\ PShape(plan')
  BY <1>2
<1>4. Typed
  BY DEF MetaInv
<1>5. /\ InPlan' = InPlan \union {r} /\ DOMAIN plan'.vb = InPlan' /\ plan'.n[r] = n /\ plan'.vb[r] = new
      /\ \A q \in InPlan : q # r /\ plan'.n[q] = plan.n[q] /\ plan'.vb[q] = plan.vb[q]
  <2>1. Entered(plan'.n, plan'.vb, r, n, new)
    BY <1>1, <1>3, <1>4, PlanIs
  <2> QED BY <2>1 DEF Entered, InPlan
<1>6. /\ DOMAIN blocks' = Requests /\ IsSeq(blocks'[r]) /\ Len(blocks'[r]) = Len(blocks[r]) + Len(new)
      /\ \A q \in Requests : q # r => blocks'[q] = blocks[q]
  <2>1. DOMAIN blocks = Requests /\ IsSeq(blocks[r])
    BY <1>4 DEF Typed, ReqTyped
  <2>2. blocks'[r] = blocks[r] \o new
    BY <1>3, <2>1
  <2>3. IsSeq(blocks'[r]) /\ Len(blocks'[r]) = Len(blocks[r]) + Len(new)
    BY <1>3, <2>1, <2>2, CatIs
  <2> QED BY <1>3, <2>1, <2>3
<1>7. Requests' = Requests
  BY <1>1 DEF Requests
<1>8. PICK x \in Nat, y \in Nat : x = Len(blocks[r]) /\ y = Len(new)
  BY <1>3, <1>4 DEF Typed, ReqTyped, IsSeq
<1>9. Typed'
  <2>1. \A q \in Requests : ReqTyped(q)'
    BY <1>1, <1>4, <1>6 DEF Typed, ReqTyped
  <2>2. \A q \in InPlan' : status'[q] = "running" /\ plan'.n[q] \in Nat /\ IsSeq(plan'.vb[q])
    BY <1>1, <1>3, <1>4, <1>5 DEF Typed
  <2> QED BY <1>1, <1>3, <1>4, <1>5, <1>6, <1>7, <2>1, <2>2 DEF Typed
<1>10. Metas'
  BY <1>1 DEF MetaInv, Metas, MetaOf
<1>11. Planned'
  <2> SUFFICES ASSUME NEW q \in InPlan'  PROVE PlannedOf(q)'
    BY DEF Planned
  <2>1. CASE q = r
    <3>1. (ncomp[r] + plan.n[r] <= ntok[r])' /\ (ncomp[r] + plan.n[r] <= Len(blocks[r]) * BS)'
      BY <1>1, <1>3, <1>5, <1>6 DEF BS
    <3>2. r \in plan.load => r \in InPlan
      BY <1>4 DEF Typed
    <3> QED BY <1>1, <1>3, <2>1, <3>1, <3>2 DEF PlannedOf
  <2>2. CASE q # r
    <3>1. q \in InPlan /\ q \in Requests /\ PlannedOf(q)
      BY <1>1, <1>4, <1>5, <2>2 DEF MetaInv, Planned, Typed
    <3> QED BY <1>1, <1>3, <1>5, <1>6, <2>2, <3>1 DEF PlannedOf, BS
  <2> QED BY <2>1, <2>2
<1>12. Covered'
  <2> SUFFICES ASSUME NEW q \in DOMAIN meta, status[q] = "running"
               PROVE  Len(blocks'[q]) <= Len(meta[q].vblocks) + (IF q \in InPlan' THEN Len(plan'.vb[q]) ELSE 0)
    BY <1>1 DEF Covered, Coming
  <2>1. q \in Requests /\ Len(blocks[q]) <= Len(meta[q].vblocks) + (IF q \in InPlan THEN Len(plan.vb[q]) ELSE 0)
    BY <1>1, <1>4 DEF MetaInv, Covered, Coming, Typed
  <2>2. CASE q # r
    BY <1>5, <1>6, <2>1, <2>2
  <2>3. CASE q = r
    <3>1. PICK z \in Nat : z = Len(meta[r].vblocks)
      BY <2>3 DEF MetaInv, Metas, MetaOf, IsSeq
    <3>2. x <= z
      BY <1>1, <1>8, <2>1, <2>3, <3>1
    <3>3. Len(blocks'[r]) = x + y /\ Len(plan'.vb[r]) = y /\ r \in InPlan'
      BY <1>5, <1>6, <1>8
    <3>4. x + y <= z + y
      BY <3>2
    <3> QED BY <2>3, <3>1, <3>3, <3>4, Zenon
  <2> QED BY <2>2, <2>3
<1>13. Popped'
  <2> SUFFICES ASSUME NEW q \in DOMAIN meta  PROVE PopOf(q, meta[q])'
    BY <1>1 DEF Popped
  <2>1. q \in Requests /\ PopOf(q, meta[q])
    BY <1>4 DEF MetaInv, Popped, Typed
  <2>2. CASE q # r
    BY <1>1, <1>6, <2>1, <2>2 DEF PopOf, Whole, Stale, BS
  <2>3. CASE q = r
    <3>1. Stale(r, meta[r]) => Stale(r, meta[r])'
      <4> SUFFICES ASSUME Stale(r, meta[r])  PROVE Stale(r, meta[r])'
        OBVIOUS
      <4>1. PICK k \in Nat : meta[r].nids = k * cfg.cp /\ k <= Len(blocks[r]) /\ ntok[r] <= ncomp[r] + BS
        BY DEF Stale
      <4>2. k <= Len(blocks'[r])
        <5>1. k <= x
          BY <1>8, <4>1
        <5>2. k <= x + y
          BY <5>1
        <5> QED BY <1>6, <1>8, <5>2, Zenon
      <4> QED BY <1>1, <4>1, <4>2, Zenon DEF Stale, BS
    <3> QED BY <1>1, <2>1, <2>3, <3>1 DEF PopOf, Whole
  <2> QED BY <2>2, <2>3
<1>14. Jobs' /\ Phases'
  BY <1>1 DEF MetaInv, Jobs, Phases
<1> QED BY <1>9, <1>10, <1>11, <1>12, <1>13, <1>14 DEF MetaInv

(* What the store adds to the local blocks of a request of n tokens.        *)
LEMMA ExtIs ==
  ASSUME cfg \in Setups, NEW n \in Nat, NEW h \in Nat, NEW found \in Nat, NEW l \in Nat, l = NumHashes(cfg, n),
         NEW g \in Nat, g = h * cfg.cp, g + found <= l, NEW ext, ext = found \div cfg.cp
  PROVE  ext \in Nat /\ (h + ext) * cfg.cp <= l /\ (h + ext) * BS <= n
<1>1. PICK p \in Nat, s \in Nat, b \in Nat : p = cfg.cp /\ s = cfg.hbs /\ b = BS /\ p >= 1 /\ s >= 1 /\ b >= 1 /\ b = s * p
  BY Sizes
<1>2. ext \in Nat /\ ext * p <= found
  BY <1>1, DivIs
<1>3. PICK e \in Nat, k \in Nat : e = ext * p /\ k = h + ext
  BY <1>1, <1>2, MulNat
<1>4. k * p = g + e
  BY <1>1, <1>3
<1>5. k * p <= l
  <2>1. g + e <= l
    BY <1>2, <1>3
  <2> QED BY <1>4, <2>1, Zenon
<1>6. l * s <= n
  BY <1>1, DivIs DEF NumHashes
<1>7. k * b <= n
  <2>1. (k * p) * s = k * (s * p)
    BY <1>1, <1>3, MulAssoc
  <2>2. PICK y \in Nat : y = k * p /\ y <= l
    BY <1>4, <1>5
  <2>3. y * s <= l * s
    BY <1>1, <2>2, MulIs
  <2>4. PICK u \in Nat, v \in Nat : u = y * s /\ v = l * s
    BY <1>1, <2>2, MulNat, Zenon
  <2>5. u <= n
    BY <1>6, <2>3, <2>4
  <2>6. k * b = u
    BY <1>1, <2>1, <2>2, <2>4, Zenon
  <2> QED BY <2>5, <2>6, Zenon
<1> QED BY <1>1, <1>2, <1>3, <1>5, <1>7

Skips(r, h, start) ==
  /\ cfg.threshold > ntok[r] \/ NumHashes(cfg, ntok[r]) <= h * cfg.cp
  /\ start = h * BS /\ meta' = meta
Looks(r, h, ext, start) ==
  /\ cfg.threshold <= ntok[r] /\ ext \in Nat /\ (h + ext) * cfg.cp <= NumHashes(cfg, ntok[r])
  /\ (h + ext) * BS <= ntok[r]
  /\ start = h * BS + HitTokens(cfg, ntok[r], h, ext)
  /\ meta' = With(meta, r, NewMeta(cfg, ntok[r], h, ext))

(* get_num_new_matched_tokens of an admitted request.                       *)
LEMMA MatchedIs ==
  ASSUME MetaInv, NEW r \in Requests, NEW h \in Nat, NEW mk, NEW pr, NEW found, NEW hit, NEW start,
         \/ found = 0
         \/ found = LookupOnPrefix(mk, Slice(Ids(r), h * cfg.cp, Len(Ids(r))), pr),
         hit = Matched(r, h, found), start = h * BS + hit.tokens, meta' = hit.meta
  PROVE  Skips(r, h, start) \/ \E ext : Looks(r, h, ext, start)
<1>1. PICK t \in Nat, l \in Nat, g \in Nat : /\ t = ntok[r] /\ l = NumHashes(cfg, ntok[r]) /\ g = h * cfg.cp
                                             /\ t <= cfg.max[r] /\ cfg \in Setups
  <2>1. ntok[r] \in Nat /\ ntok[r] <= cfg.max[r] /\ cfg \in Setups
    BY DEF MetaInv, Typed, ReqTyped
  <2>2. NumHashes(cfg, ntok[r]) \in Nat
    BY <2>1, HashesIs
  <2>3. h * cfg.cp \in Nat
    BY <2>1, Sizes, MulNat
  <2> QED BY <2>1, <2>2, <2>3, Zenon
<1>2. CASE cfg.threshold > ntok[r] \/ NumHashes(cfg, ntok[r]) <= h * cfg.cp
  <2>1. hit.tokens = 0 /\ hit.meta = meta
    BY <1>2 DEF Matched
  <2>2. h * BS + 0 = h * BS
    <3>1. PICK x \in Nat : x = h * BS
      BY <1>1, Sizes, MulNat
    <3> QED BY <3>1
  <2> QED BY <1>2, <2>1, <2>2 DEF Skips
<1>3. CASE ~(cfg.threshold > ntok[r] \/ NumHashes(cfg, ntok[r]) <= h * cfg.cp)
  <2>1. cfg.threshold <= ntok[r] /\ g < l
    <3>1. PICK th \in Int : th = cfg.threshold
      BY <1>1, Sizes
    <3>2. ~(th > t) /\ ~(l <= g)
      BY <1>1, <1>3, <3>1, Zenon
    <3>3. th <= t /\ g < l
      BY <3>2
    <3> QED BY <1>1, <3>1, <3>3, Zenon
  <2> DEFINE ext == found \div cfg.cp
  <2>2. hit.tokens = HitTokens(cfg, ntok[r], h, ext) /\ hit.meta = With(meta, r, NewMeta(cfg, ntok[r], h, ext))
    BY <1>3 DEF Matched
  <2> HIDE DEF ext
  <2>3. found \in Nat /\ g + found <= l
    <3>1. CASE found = 0
      BY <2>1, <3>1
    <3>2. CASE found = LookupOnPrefix(mk, Slice(Ids(r), h * cfg.cp, Len(Ids(r))), pr)
      <4>1. IsSeq(Ids(r)) /\ Len(Ids(r)) = l
        BY <1>1, HashesIs DEF Ids
      <4>2. IsSeq(Slice(Ids(r), g, l)) /\ Len(Slice(Ids(r), g, l)) = SliceLen(l, g, l)
        BY <4>1, SliceIs
      <4>3. SliceLen(l, g, l) = l - g
        BY <2>1 DEF SliceLen
      <4>4. found = LookupOnPrefix(mk, Slice(Ids(r), g, l), pr)
        BY <1>1, <3>2, <4>1
      <4>5. found \in Nat /\ found <= l - g
        BY <4>2, <4>3, <4>4, LookupIs
      <4> QED BY <2>1, <4>5
    <3> QED BY <3>1, <3>2
  <2>4. ext \in Nat /\ (h + ext) * cfg.cp <= l /\ (h + ext) * BS <= t
    BY <1>1, <2>3, ExtIs DEF ext
  <2>5. Looks(r, h, ext, start)
    BY <1>1, <2>1, <2>2, <2>4, Zenon DEF Looks
  <2> QED BY <2>5
<1> QED BY <1>2, <1>3

(* An admitted request: its blocks hold the tokens up to the end of its     *)
(* chunk and no more.                                                       *)
Granted(r, h, start, n, vb) ==
  /\ IsSeq(vb) /\ 0 < n /\ start + n <= ntok[r] /\ h * BS <= start /\ h * BS < ntok[r]
  /\ Len(vb) = CeilDiv(start + n, BS) /\ h <= Len(vb)
  /\ blocks' = [blocks EXCEPT ![r] = vb]
  /\ plan'.n = With(plan.n, r, n) /\ plan'.vb = With(plan.vb, r, vb)
  /\ plan'.load = plan.load \union {r} /\ PShape(plan')
  /\ ncomp' = [ncomp EXCEPT ![r] = start]
  /\ ncached' = [ncached EXCEPT ![r] = IF @ = Unset THEN start ELSE @]

LEMMA StartIs ==
  ASSUME MetaInv, NEW r \in Requests, NEW h \in Nat, h * BS < ntok[r], NEW start,
         Skips(r, h, start) \/ \E ext : Looks(r, h, ext, start)
  PROVE  start \in Nat /\ h * BS <= start
<1>1. PICK t \in Nat, x \in Nat : t = ntok[r] /\ x = h * BS /\ cfg \in Setups
  <2>1. ntok[r] \in Nat /\ cfg \in Setups
    BY DEF MetaInv, Typed, ReqTyped
  <2>2. h * BS \in Nat
    BY <2>1, Sizes, MulNat
  <2> QED BY <2>1, <2>2, Zenon
<1>2. CASE Skips(r, h, start)
  <2>1. start = x
    BY <1>1, <1>2, Zenon DEF Skips
  <2> QED BY <1>1, <2>1
<1>3. CASE \E ext : Looks(r, h, ext, start)
  <2>1. PICK ext : Looks(r, h, ext, start)
    BY <1>3
  <2>2. ext \in Nat /\ (h + ext) * BS <= t /\ start = x + HitTokens(cfg, t, h, ext)
    BY <1>1, <2>1, Zenon DEF Looks
  <2>3. HitTokens(cfg, t, h, ext) \in Nat
    BY <1>1, <2>2, HitIs
  <2>4. PICK y \in Nat : y = HitTokens(cfg, t, h, ext) /\ start = x + y
    BY <2>2, <2>3
  <2>5. start \in Nat /\ x <= start
    BY <2>4
  <2> QED BY <1>1, <2>5
<1> QED BY <1>2, <1>3

Admitted(r, h, own, ids, lost) ==
  LET found == IF lost = 1 THEN 0
               ELSE LookupOnPrefix(IF cfg.cm THEN marks ELSE {}, ids, Present)
      hit   == Matched(r, h, found)
      start == h * BS + hit.tokens
      room  == Free \ ToSet(own)
  IN \E n \in Chunks(ntok[r] - start) :
       LET need == CeilDiv(start + n, BS) - h
           new  == Lowest(room, need)
       IN /\ Cardinality(room) >= need
          /\ blocks' = [blocks EXCEPT ![r] = own \o new]
          /\ plan' = [plan EXCEPT !.n = With(@, r, n), !.load = @ \union {r},
                                  !.vb = With(@, r, own \o new),
                                  !.new = @ \union ToSet(new)]
          /\ meta' = hit.meta
          /\ ncomp' = [ncomp EXCEPT ![r] = start]
          /\ ncached' = [ncached EXCEPT ![r] = IF @ = Unset THEN start ELSE @]
          /\ Spend(lost)

LEMMA AdmitIs ==
  ASSUME MetaInv, NEW r \in Requests, Admit(r)
  PROVE  \E h \in Nat : \E start \in Nat : \E n \in Nat : \E vb :
            /\ Granted(r, h, start, n, vb)
            /\ Skips(r, h, start) \/ \E ext : Looks(r, h, ext, start)
<1>1. cfg \in Setups /\ ntok[r] \in Nat /\ PShape(plan) /\ Typed
  BY DEF MetaInv, Typed, ReqTyped
<1>2. PICK h \in Nat : h = LocalHit(r) /\ h * BS < ntok[r]
  BY <1>1, LocalIs
<1>3. PICK own, ids : own = [i \in 1..h |-> Min(Local(r, i))] /\ ids = Slice(Ids(r), h * cfg.cp, Len(Ids(r)))
  OBVIOUS
<1>4. PICK lost \in {0} \union (IF Faulty("lookup") THEN {1} ELSE {}) : Admitted(r, h, own, ids, lost)
  <2>1. \E lost \in {0} \union (IF Faulty("lookup") THEN {1} ELSE {}) :
          Admitted(r, LocalHit(r), [i \in 1..LocalHit(r) |-> Min(Local(r, i))],
                   Slice(Ids(r), LocalHit(r) * cfg.cp, Len(Ids(r))), lost)
    BY Zenon DEF Admit, Admitted
  <2> QED BY <1>2, <1>3, <2>1
<1>5. PICK mk : mk = IF cfg.cm THEN marks ELSE {}
  OBVIOUS
<1>6. PICK found : found = IF lost = 1 THEN 0 ELSE LookupOnPrefix(mk, ids, Present)
  OBVIOUS
<1>7. PICK hit, start, room : hit = Matched(r, h, found) /\ start = h * BS + hit.tokens /\ room = Free \ ToSet(own)
  OBVIOUS
<1>8. PICK n \in Chunks(ntok[r] - start) :
        /\ Cardinality(room) >= CeilDiv(start + n, BS) - h
        /\ blocks' = [blocks EXCEPT ![r] = own \o Lowest(room, CeilDiv(start + n, BS) - h)]
        /\ plan' = [plan EXCEPT !.n = With(@, r, n), !.load = @ \union {r},
                                !.vb = With(@, r, own \o Lowest(room, CeilDiv(start + n, BS) - h)),
                                !.new = @ \union ToSet(Lowest(room, CeilDiv(start + n, BS) - h))]
        /\ meta' = hit.meta
        /\ ncomp' = [ncomp EXCEPT ![r] = start]
        /\ ncached' = [ncached EXCEPT ![r] = IF @ = Unset THEN start ELSE @]
  BY <1>4, <1>5, <1>6, <1>7 DEF Admitted
<1>9. Skips(r, h, start) \/ \E ext : Looks(r, h, ext, start)
  <2>1. \/ found = 0
        \/ found = LookupOnPrefix(mk, Slice(Ids(r), h * cfg.cp, Len(Ids(r))), Present)
    BY <1>3, <1>6
  <2>2. meta' = hit.meta /\ hit = Matched(r, h, found) /\ start = h * BS + hit.tokens
    BY <1>7, <1>8
  <2> QED BY <2>1, <2>2, MatchedIs
<1>10. start \in Nat /\ h * BS <= start
  BY <1>2, <1>9, StartIs
<1>11. n \in Nat /\ 0 < n /\ start + n <= ntok[r]
  <2>1. PICK t \in Nat : t = ntok[r]
    BY <1>1
  <2>2. t - start \in Int /\ n \in Chunks(t - start)
    BY <1>8, <1>10, <2>1
  <2>3. n \in Nat /\ 0 < n /\ n <= t - start
    BY <1>1, <2>2, ChunkIs
  <2> QED BY <1>10, <2>1, <2>3
<1>12. PICK a \in Nat, b \in Nat, e \in Nat : a = start + n /\ b = BS /\ b >= 1 /\ e = CeilDiv(start + n, BS) /\ h <= e
  <2>1. PICK a \in Nat, b \in Nat : a = start + n /\ b = BS /\ b >= 1
    <3>1. BS \in Nat /\ BS >= 1
      BY <1>1, Sizes
    <3>2. start + n \in Nat
      <4>1. start \in Nat /\ n \in Nat
        BY <1>10, <1>11
      <4> QED BY <4>1
    <3> QED BY <3>1, <3>2, Zenon
  <2>2. CeilDiv(a, b) \in Nat /\ (h * b < a + b => h <= CeilDiv(a, b))
    BY <2>1, CeilIs, Zenon
  <2>3. h * b < a + b
    <3>1. PICK x \in Nat : x = h * b /\ x <= start
      BY <1>10, <2>1, MulNat
    <3>2. x < a + b
      BY <1>10, <1>11, <2>1, <3>1
    <3> QED BY <3>1, <3>2, Zenon
  <2> QED BY <2>1, <2>2, <2>3
<1>13. PICK need \in Nat : need = e - h
  BY <1>12
<1>14. PICK new, vb : new = Lowest(room, need) /\ vb = own \o new
  OBVIOUS
<1>15. IsSeq(new) /\ Len(new) = need
  <2>1. room \subseteq VBlocks
    BY <1>7 DEF Free
  <2>2. Cardinality(room) >= need
    BY <1>8, <1>12, <1>13
  <2> QED BY <1>1, <1>14, <2>1, <2>2, RoomIs
<1>16. IsSeq(own) /\ Len(own) = h
  <2> DEFINE g(i) == Min(Local(r, i))
             G == {g(i) : i \in 1..h}
  <2>1. own = [i \in 1..h |-> g(i)]
    BY <1>3
  <2>2. \A i \in 1..h : g(i) \in G
    OBVIOUS
  <2> HIDE DEF g, G
  <2>3. [i \in 1..h |-> g(i)] \in Seq(G)
    BY <2>2
  <2>4. Len(own) = h /\ own \in Seq(G)
    BY <2>1, <2>3
  <2> QED BY <2>4, SeqIs
<1>17. IsSeq(vb) /\ Len(vb) = e
  <2>1. IsSeq(vb) /\ Len(vb) = Len(own) + Len(new)
    BY <1>14, <1>15, <1>16, CatIs
  <2> QED BY <1>12, <1>13, <1>15, <1>16, <2>1
<1>18. /\ blocks' = [blocks EXCEPT ![r] = vb]
       /\ plan' = [plan EXCEPT !.n = With(@, r, n), !.load = @ \union {r}, !.vb = With(@, r, vb),
                               !.new = @ \union ToSet(new)]
       /\ ncomp' = [ncomp EXCEPT ![r] = start]
       /\ ncached' = [ncached EXCEPT ![r] = IF @ = Unset THEN start ELSE @]
  BY <1>8, <1>12, <1>13, <1>14
<1>19. /\ plan'.n = With(plan.n, r, n) /\ plan'.vb = With(plan.vb, r, vb)
       /\ plan'.load = plan.load \union {r} /\ PShape(plan')
  BY <1>1, <1>18 DEF PShape
<1>20. Granted(r, h, start, n, vb)
  <2>1. Len(vb) = CeilDiv(start + n, BS) /\ h <= Len(vb)
    BY <1>12, <1>17
  <2> QED BY <1>2, <1>10, <1>11, <1>17, <1>18, <1>19, <2>1, Zenon DEF Granted
<1> QED BY <1>9, <1>10, <1>11, <1>20, Zenon

(* The numbers of an admitted request's metadata, new or earlier.           *)
Fresh(r, m, start, vb) == MetaOf(r, m) /\ m.done = start /\ m.ntok = ntok[r] /\ m.total <= Len(vb)

LEMMA AdmitMeta ==
  ASSUME MetaInv, NEW r \in Requests, NEW h \in Nat, NEW start \in Nat, NEW n \in Nat, NEW vb,
         Granted(r, h, start, n, vb), NEW ext, Looks(r, h, ext, start)
  PROVE  Fresh(r, NewMeta(cfg, ntok[r], h, ext), start, vb)
<1>0. PICK m : m = NewMeta(cfg, ntok[r], h, ext)
  OBVIOUS
<1>1. PICK t \in Nat, b \in Nat, c \in Nat : t = ntok[r] /\ b = BS /\ b >= 1 /\ c = cfg.cp /\ cfg \in Setups /\ t <= cfg.max[r]
  BY Sizes DEF MetaInv, Typed, ReqTyped
<1>2. ext \in Nat /\ (h + ext) * c <= NumHashes(cfg, t) /\ (h + ext) * b <= t /\ cfg.threshold <= t
  BY <1>1, Zenon DEF Looks
<1>3. PICK k \in Nat : k = h + ext /\ h <= k
  BY <1>2
<1>4. /\ m.hbm = h /\ m.total = k /\ m.ntok = t /\ m.nids = NumHashes(cfg, t) /\ m.vblocks = <<>>
      /\ m.done = h * BlockTokens(cfg) + HitTokens(cfg, t, h, ext) /\ MShape(m)
  BY <1>0, <1>1, <1>3 DEF NewMeta, MShape
<1>5. m.done = start
  BY <1>1, <1>4, Zenon DEF Looks, BS
<1>6. IsSeq(<<>>) /\ NumHashes(cfg, t) \in Nat /\ NumHashes(cfg, t) = t \div cfg.hbs
  BY <1>1, HashesIs DEF IsSeq, NumHashes
<1>7. MetaOf(r, m)
  <2>1. k * c <= NumHashes(cfg, t)
    BY <1>2, <1>3
  <2>2. t <= t
    OBVIOUS
  <2> QED BY <1>1, <1>2, <1>3, <1>4, <1>5, <1>6, <2>1, <2>2, Zenon DEF MetaOf
<1>8. k <= Len(vb)
  <2>1. PICK x \in Nat, y \in Nat : x = h * b /\ y = HitTokens(cfg, t, h, ext) /\ k * b <= x + y + b
    <3>1. HitTokens(cfg, t, h, ext) \in Nat /\ (h + ext) * BS <= h * BS + HitTokens(cfg, t, h, ext) + BS
      BY <1>1, <1>2, HitIs
    <3>2. h * b \in Nat
      BY <1>1, MulNat
    <3> QED BY <1>1, <1>3, <3>1, <3>2, Zenon
  <2>2. start = x + y
    BY <1>1, <2>1, Zenon DEF Looks
  <2>3. PICK a \in Nat : a = start + n /\ 0 < n /\ Len(vb) = CeilDiv(a, b)
    <3>1. \A i \in Nat, j \in Nat : i + j \in Nat
      OBVIOUS
    <3>2. start + n \in Nat
      BY <3>1, Zenon
    <3>3. 0 < n /\ Len(vb) = CeilDiv(start + n, b)
      BY <1>1, Zenon DEF Granted
    <3> QED BY <3>2, <3>3, Zenon
  <2>4. PICK z \in Nat : z = k * b
    BY <1>1, MulNat
  <2>5. z < a + b
    <3>1. z <= x + y + b
      BY <2>1, <2>4, Zenon
    <3>2. a = x + y + n /\ 0 < n
      BY <2>2, <2>3, Zenon
    <3> QED BY <3>1, <3>2
  <2>6. k * b < a + b => k <= CeilDiv(a, b)
    BY <1>1, CeilIs, Zenon
  <2> QED BY <2>3, <2>4, <2>5, <2>6, Zenon
<1>9. Fresh(r, m, start, vb)
  BY <1>1, <1>4, <1>5, <1>7, <1>8 DEF Fresh
<1> QED BY <1>0, <1>9

LEMMA SkipMeta ==
  ASSUME MetaInv, NEW r \in Requests, NEW h \in Nat, NEW start \in Nat, NEW n \in Nat, NEW vb,
         Granted(r, h, start, n, vb), Skips(r, h, start), r \in DOMAIN meta, NEW m, m = meta[r]
  PROVE  /\ m.total <= Len(vb)
         /\ m.ntok = ntok[r] \/ Whole(m) => \E q \in Nat : m.nids = q * cfg.cp /\ q <= Len(vb)
         /\ ntok[r] <= start + BS
<1>1. PICK t \in Nat, b \in Nat, c \in Nat, s \in Nat : /\ t = ntok[r] /\ b = BS /\ b >= 1 /\ c = cfg.cp /\ c >= 1 /\ s = cfg.hbs
                                                        /\ s >= 1 /\ b = s * c /\ cfg \in Setups
  BY Sizes DEF MetaInv, Typed, ReqTyped
<1>2. MetaOf(r, m)
  BY DEF MetaInv, Metas
<1>3. PICK u \in Nat, k \in Nat, i \in Nat : u = m.ntok /\ k = m.total /\ i = m.nids
  BY <1>2 DEF MetaOf
<1>4. u <= t /\ k * c <= i /\ i = u \div s /\ cfg.threshold <= u
  BY <1>1, <1>2, <1>3, Zenon DEF MetaOf
<1>5. ~(cfg.threshold > ntok[r])
  <2>1. PICK th \in Int : th = cfg.threshold
    BY <1>1, Sizes
  <2>2. ~(th > t)
    BY <1>4, <2>1
  <2> QED BY <1>1, <2>1, <2>2
<1>6. PICK l \in Nat : l = t \div s /\ l = NumHashes(cfg, ntok[r])
  BY <1>1, DivIs DEF NumHashes
<1>7. l <= h * c
  BY <1>1, <1>5, <1>6, Zenon DEF Skips
<1>8. i <= l
  <2>1. i * s <= u
    BY <1>1, <1>3, <1>4, DivIs
  <2>2. PICK y \in Nat : y = i * s
    BY <1>1, MulNat
  <2>3. i * s <= t
    BY <1>3, <1>4, <2>1, <2>2
  <2> QED BY <1>1, <1>6, <2>3, DivLe
<1>9. PICK g \in Nat : g = h * c
  BY <1>1, MulNat
<1>10. PICK v \in Nat : v = Len(vb) /\ h <= v
  BY DEF Granted, IsSeq
<1>11. k <= v
  <2>1. PICK x \in Nat : x = k * c
    BY <1>1, MulNat
  <2>2. x <= g
    BY <1>4, <1>7, <1>8, <1>9, <2>1
  <2>3. k <= h
    BY <1>1, <1>9, <2>1, <2>2, MulIs
  <2> QED BY <1>10, <2>3
<1>12. PICK w \in Nat : w = h * b /\ w < t /\ start = w
  <2>1. h * b \in Nat
    BY <1>1, MulNat
  <2> QED BY <1>1, <2>1, Zenon DEF Granted, Skips
<1>13. g * s = w
  BY <1>1, <1>9, <1>12, MulAssoc
<1>14. t <= start + b
  <2>1. t < l * s + s
    BY <1>1, <1>6, DivIs
  <2>2. l * s <= g * s
    BY <1>1, <1>7, <1>9, MulIs
  <2>3. PICK x \in Nat : x = l * s
    BY <1>1, MulNat
  <2>4. s <= b
    BY <1>1, MulNat
  <2> QED BY <1>12, <1>13, <2>1, <2>2, <2>3, <2>4
<1>15. ASSUME m.ntok = ntok[r] \/ Whole(m)  PROVE \E q \in Nat : m.nids = q * cfg.cp /\ q <= Len(vb)
  <2>1. CASE Whole(m)
    <3>1. PICK q \in Nat : i = q * c
      BY <1>1, <1>3, <2>1 DEF Whole
    <3>2. q <= h
      <4>1. q * c <= h * c
        BY <1>7, <1>8, <1>9, <3>1
      <4> QED BY <1>1, <4>1, MulIs
    <3>3. q <= v
      BY <1>10, <3>2
    <3> QED BY <1>1, <1>3, <1>10, <3>1, <3>3, Zenon
  <2>2. CASE m.ntok = ntok[r]
    <3>1. g <= t \div s
      <4>1. g * s <= t
        BY <1>12, <1>13
      <4> QED BY <1>1, <1>9, <4>1, DivLe
    <3>2. i = g
      <4>1. i = l
        BY <1>1, <1>3, <1>4, <1>6, <2>2
      <4> QED BY <1>6, <1>7, <1>9, <3>1, <4>1
    <3> QED BY <1>1, <1>3, <1>9, <1>10, <3>2, Zenon
  <2> QED BY <1>15, <2>1, <2>2
<1> QED BY <1>1, <1>3, <1>10, <1>11, <1>14, <1>15

LEMMA AdmitSteps ==
  ASSUME MetaInv, NEW r \in Requests, Admit(r)
  PROVE  MetaInv'
<1>1. /\ phase = "sched" /\ status[r] = "waiting" /\ r \notin InPlan /\ cfg' = cfg /\ phase' = phase
      /\ status' = [status EXCEPT ![r] = "running"] /\ ntok' = ntok /\ told' = told /\ job' = job
  BY DEF Admit, link
<1>a. PICK h \in Nat, start \in Nat, n \in Nat : \E vb :
        /\ Granted(r, h, start, n, vb)
        /\ Skips(r, h, start) \/ \E ext : Looks(r, h, ext, start)
  BY AdmitIs, Zenon
<1>2. PICK vb :
        /\ Granted(r, h, start, n, vb)
        /\ Skips(r, h, start) \/ \E ext : Looks(r, h, ext, start)
  BY <1>a, Zenon
<1>3. /\ IsSeq(vb) /\ start + n <= ntok[r] /\ Len(vb) = CeilDiv(start + n, BS)
      /\ blocks' = [blocks EXCEPT ![r] = vb] /\ PShape(plan')
      /\ plan'.n = With(plan.n, r, n) /\ plan'.vb = With(plan.vb, r, vb) /\ plan'.load = plan.load \union {r}
      /\ ncomp' = [ncomp EXCEPT ![r] = start] /\ ncached' = [ncached EXCEPT ![r] = IF @ = Unset THEN start ELSE @]
  BY <1>2, Zenon DEF Granted
<1>4. Typed
  BY DEF MetaInv
<1>5. /\ InPlan' = InPlan \union {r} /\ DOMAIN plan'.vb = InPlan' /\ plan'.n[r] = n /\ plan'.vb[r] = vb
      /\ \A q \in InPlan : q # r /\ plan'.n[q] = plan.n[q] /\ plan'.vb[q] = plan.vb[q]
  <2>1. Entered(plan'.n, plan'.vb, r, n, vb)
    BY <1>1, <1>3, <1>4, PlanIs
  <2> QED BY <2>1 DEF Entered, InPlan
<1>6. /\ DOMAIN blocks' = Requests /\ blocks'[r] = vb /\ DOMAIN status' = Requests /\ status'[r] = "running"
      /\ DOMAIN ncomp' = Requests /\ ncomp'[r] = start /\ DOMAIN ncached' = Requests
      /\ ncached'[r] = IF ncached[r] = Unset THEN start ELSE ncached[r]
      /\ \A q \in Requests : q # r => /\ blocks'[q] = blocks[q] /\ status'[q] = status[q]
                                      /\ ncomp'[q] = ncomp[q] /\ ncached'[q] = ncached[q]
  BY <1>1, <1>3, <1>4 DEF Typed
<1>7. Requests' = Requests /\ BS' = BS /\ cfg \in Setups
  BY <1>1, <1>4 DEF Requests, BS, Typed
<1>8. /\ DOMAIN meta' \subseteq DOMAIN meta \union {r} /\ \A q \in DOMAIN meta' : q # r => q \in DOMAIN meta /\ meta'[q] = meta[q]
  <2>1. CASE Skips(r, h, start)
    BY <2>1 DEF Skips
  <2>2. CASE \E ext : Looks(r, h, ext, start)
    <3>1. PICK m : meta' = With(meta, r, m)
      BY <2>2 DEF Looks
    <3> QED BY <3>1 DEF With
  <2> QED BY <1>2, <2>1, <2>2
<1>9. ASSUME r \in DOMAIN meta'
      PROVE  /\ MetaOf(r, meta'[r]) /\ meta'[r].total <= Len(vb)
             /\ cfg.recovery = "pop" /\ meta'[r].done < meta'[r].ntok =>
                  \/ meta'[r].done = start /\ meta'[r].ntok = ntok[r]
                  \/ /\ \E q \in Nat : meta'[r].nids = q * cfg.cp /\ q <= Len(vb)
                     /\ ntok[r] <= start + BS
  <2>1. CASE Skips(r, h, start)
    <3>1. meta' = meta /\ r \in DOMAIN meta
      BY <1>9, <2>1 DEF Skips
    <3>2. MetaOf(r, meta[r]) /\ PopOf(r, meta[r])
      BY <3>1 DEF MetaInv, Metas, Popped
    <3>3. /\ meta[r].total <= Len(vb) /\ ntok[r] <= start + BS
          /\ meta[r].ntok = ntok[r] \/ Whole(meta[r]) => \E q \in Nat : meta[r].nids = q * cfg.cp /\ q <= Len(vb)
      BY <1>2, <2>1, <3>1, SkipMeta
    <3>4. cfg.recovery = "pop" /\ meta[r].done < meta[r].ntok => meta[r].ntok = ntok[r] \/ Whole(meta[r])
      BY <3>2 DEF PopOf
    <3> QED BY <3>1, <3>2, <3>3, <3>4, Zenon
  <2>2. CASE \E ext : Looks(r, h, ext, start)
    <3>1. PICK ext : Looks(r, h, ext, start)
      BY <2>2
    <3>2. PICK m : m = NewMeta(cfg, ntok[r], h, ext)
      OBVIOUS
    <3>3. meta'[r] = m
      <4>1. meta' = With(meta, r, m)
        BY <3>1, <3>2, Zenon DEF Looks
      <4> QED BY <4>1 DEF With
    <3>4. MetaOf(r, m) /\ m.done = start /\ m.ntok = ntok[r] /\ m.total <= Len(vb)
      <4>1. Fresh(r, NewMeta(cfg, ntok[r], h, ext), start, vb)
        BY <1>2, <3>1, AdmitMeta
      <4> QED BY <3>2, <4>1 DEF Fresh
    <3> QED BY <3>3, <3>4, Zenon
  <2> QED BY <1>2, <2>1, <2>2
<1>10. Typed'
  <2>1. \A q \in Requests : ReqTyped(q)'
    BY <1>1, <1>3, <1>4, <1>6 DEF Typed, ReqTyped
  <2>2. \A q \in InPlan' : status'[q] = "running" /\ plan'.n[q] \in Nat /\ IsSeq(plan'.vb[q])
    BY <1>3, <1>4, <1>5, <1>6 DEF Typed
  <2>3. \A q \in told' : q \in Requests => status'[q] \notin {"running", "waiting"}
    BY <1>1, <1>4, <1>6 DEF Typed
  <2>4. InPlan' \subseteq Requests /\ plan'.load \subseteq InPlan' /\ DOMAIN meta' \subseteq Requests /\ DOMAIN ntok' = Requests
    BY <1>1, <1>3, <1>4, <1>5, <1>8 DEF Typed
  <2> QED BY <1>1, <1>3, <1>5, <1>6, <1>7, <2>1, <2>2, <2>3, <2>4 DEF Typed
<1>11. Metas'
  <2> SUFFICES ASSUME NEW q \in DOMAIN meta'  PROVE MetaOf(q, meta[q])'
    BY DEF Metas
  <2>1. MetaOf(q, meta'[q])
    BY <1>8, <1>9 DEF MetaInv, Metas
  <2> QED BY <1>1, <2>1 DEF MetaOf
<1>12. Planned'
  <2> SUFFICES ASSUME NEW q \in InPlan'  PROVE PlannedOf(q)'
    BY DEF Planned
  <2>1. CASE q = r
    <3>1. PICK a \in Nat, b \in Nat, v \in Nat : a = start + n /\ b = BS /\ b >= 1 /\ v = Len(vb)
      <4>1. start + n \in Nat
        OBVIOUS
      <4>2. BS \in Nat /\ BS >= 1 /\ Len(vb) \in Nat
        BY <1>3, <1>7, Sizes DEF IsSeq
      <4> QED BY <4>1, <4>2, Zenon
    <3>2. CeilDiv(a, b) <= v
      <4>1. v = CeilDiv(a, b)
        BY <1>3, <3>1
      <4>2. v <= v
        OBVIOUS
      <4> QED BY <4>1, <4>2, Zenon
    <3>3. a <= v * b
      BY <3>1, <3>2, EnoughIs
    <3>4. (ncomp[r] + plan.n[r] <= ntok[r])' /\ (ncomp[r] + plan.n[r] <= Len(blocks[r]) * BS)'
      BY <1>1, <1>3, <1>5, <1>6, <1>7, <3>1, <3>3, Zenon
    <3>5. (r \in DOMAIN meta => meta[r].total <= Len(plan.vb[r]))'
      BY <1>5, <1>9
    <3> QED BY <2>1, <3>4, <3>5 DEF PlannedOf
  <2>2. CASE q # r
    <3>1. q \in InPlan /\ q \in Requests /\ PlannedOf(q)
      BY <1>1, <1>4, <1>5, <2>2 DEF MetaInv, Planned, Typed
    <3> QED BY <1>1, <1>3, <1>5, <1>6, <1>7, <1>8, <2>2, <3>1 DEF PlannedOf
  <2> QED BY <2>1, <2>2
<1>13. Covered'
  <2> SUFFICES ASSUME NEW q \in DOMAIN meta', status'[q] = "running"
               PROVE  Len(blocks'[q]) <= Len(meta'[q].vblocks) + (IF q \in InPlan' THEN Len(plan'.vb[q]) ELSE 0)
    BY <1>1 DEF Covered, Coming
  <2>1. CASE q # r
    <3>1. /\ q \in Requests /\ q \in DOMAIN meta /\ meta'[q] = meta[q] /\ status[q] = "running"
          /\ Len(blocks[q]) <= Len(meta[q].vblocks) + (IF q \in InPlan THEN Len(plan.vb[q]) ELSE 0)
      BY <1>1, <1>4, <1>6, <1>8, <2>1 DEF MetaInv, Covered, Coming, Typed
    <3> QED BY <1>5, <1>6, <2>1, <3>1
  <2>2. CASE q = r
    <3>1. PICK x \in Nat, y \in Nat : x = Len(vb) /\ y = Len(meta'[r].vblocks)
      BY <1>3, <1>9, <2>2 DEF MetaOf, IsSeq
    <3>2. x <= y + x
      OBVIOUS
    <3>3. r \in InPlan' /\ plan'.vb[r] = vb /\ blocks'[r] = vb
      BY <1>5, <1>6
    <3> QED BY <2>2, <3>1, <3>2, <3>3, Zenon
  <2> QED BY <2>1, <2>2
<1>14. Popped'
  <2> SUFFICES ASSUME NEW q \in DOMAIN meta'  PROVE PopOf(q, meta[q])'
    BY DEF Popped
  <2>1. CASE q # r
    <3>1. q \in Requests /\ q \in DOMAIN meta /\ meta'[q] = meta[q] /\ PopOf(q, meta[q])
      BY <1>4, <1>8, <2>1 DEF MetaInv, Popped, Typed
    <3> QED BY <1>1, <1>6, <1>7, <2>1, <3>1 DEF PopOf, Whole, Stale
  <2>2. CASE q = r
    BY <1>1, <1>6, <1>7, <1>9, <2>2 DEF PopOf, Whole, Stale
  <2> QED BY <2>1, <2>2
<1>15. Jobs' /\ Phases'
  BY <1>1 DEF MetaInv, Jobs, Phases
<1> QED BY <1>10, <1>11, <1>12, <1>13, <1>14, <1>15 DEF MetaInv

----------------------------------------------------------------------------

LEMMA MetaInvNext == MetaInv /\ [Next]_vars => MetaInv'
<1> SUFFICES ASSUME MetaInv, [Next]_vars  PROVE MetaInv'
  OBVIOUS
<1>1. CASE SchedNext
  <2>1. PICK r \in Requests : Admit(r) \/ Continue(r) \/ Preempt(r) \/ Abort(r)
    BY <1>1 DEF SchedNext
  <2> QED BY <2>1, AdmitSteps, ContinueSteps, PreemptSteps, AbortSteps
<1>2. CASE BuildConnectorMeta
  BY <1>2, BuildSteps
<1>3. CASE \E k \in Ranks : WorkerStep(k) \/ Settle(k)
  BY <1>3, WorkSteps
<1>4. CASE UpdateFromOutput
  BY <1>4, UpdateSteps
<1>5. CASE Forward \/ Idle \/ (\E x \in DOMAIN store : Gc(x)) \/ UNCHANGED vars
  BY <1>5, OtherSteps
<1> QED BY <1>1, <1>2, <1>3, <1>4, <1>5 DEF Next

(* The invariant implies the property: a meta covers no more than the       *)
(* hashes of its tokens, and those come from the tokens of the request.     *)
LEMMA MetaInvAligned == MetaInv => DispatchAligned
<1> SUFFICES ASSUME MetaInv  PROVE DispatchAligned
  OBVIOUS
<1>1. \A r \in DOMAIN job : /\ Len(job[r].load.ids) = cfg.cp * Len(job[r].load.vb)
                            /\ InStep(r) => Len(job[r].dump.ids) = cfg.cp * Len(job[r].dump.vb)
  BY DEF MetaInv, Jobs, JobOf
<1>2. ASSUME NEW r \in DOMAIN meta
      PROVE  /\ 0 <= meta[r].hbm /\ meta[r].hbm <= meta[r].total
             /\ meta[r].total * cfg.cp <= meta[r].nids /\ meta[r].nids * cfg.hbs <= ntok[r]
  <2>1. MetaOf(r, meta[r]) /\ r \in Requests
    BY DEF MetaInv, Metas, Typed
  <2>2. PICK t \in Nat, u \in Nat, i \in Nat, s \in Nat : /\ t = ntok[r] /\ u = meta[r].ntok /\ i = meta[r].nids
                                                          /\ s = cfg.hbs /\ s >= 1
    BY <2>1, Sizes DEF MetaOf, MetaInv, Typed, ReqTyped
  <2>3. u <= t /\ i = u \div s
    BY <2>1, <2>2, Zenon DEF MetaOf
  <2>4. i * s <= u
    BY <2>2, <2>3, DivIs
  <2>5. PICK y \in Nat : y = i * s
    BY <2>2, MulNat
  <2>6. i * s <= t
    BY <2>2, <2>3, <2>4, <2>5
  <2>7. meta[r].hbm \in Nat /\ meta[r].hbm <= meta[r].total /\ meta[r].total * cfg.cp <= meta[r].nids
    BY <2>1, Zenon DEF MetaOf
  <2>8. 0 <= meta[r].hbm
    BY <2>7
  <2> QED BY <2>2, <2>6, <2>7, <2>8, Zenon
<1> QED BY <1>1, <1>2 DEF DispatchAligned

(* For every deployment, workload and number of requests: each rank is      *)
(* given as many hashes as engine blocks, for loads always and for dumps    *)
(* unless token_processed ran ahead of the engine, whatever requests are    *)
(* admitted, resumed, preempted, aborted, recovered or looked up again, and *)
(* a RequestMeta never reaches beyond the hashes and tokens of its request  *)
(* (_generate_dispatch_meta, get_num_new_matched_tokens).                   *)
THEOREM DispatchHolds == Spec => []DispatchAligned
<1>1. Init /\ [][Next]_vars => []MetaInv
  BY InitHolds, MetaInvNext, PTL
<1>2. MetaInv => DispatchAligned
  BY MetaInvAligned
<1> QED BY <1>1, <1>2, PTL DEF Spec

----------------------------------------------------------------------------
(* Where a block is that a rank dumps                                       *)

(* The blocks there are; where every layer of one is stored for rank k.     *)
Blocks == AllBlocks(cfg)
Stored(k, b) == \A l \in Layers : KeyOf(k, b, l) \in DOMAIN store

(* A task that carries block b of request r, one of them that flies with    *)
(* layer l, and one that failed, known to the account or not yet.           *)
Carries(t, r, b) == r \in DOMAIN t.ctx /\ b \in t.ctx[r]
Flies(p, r, b, l) ==
  \E i \in DOMAIN p : p[i].st = "flying" /\ p[i].layer = l /\ Carries(p[i], r, b)
Missed(p, a, r, b) ==
  \/ b \in a.failed[r]
  \/ \E i \in DOMAIN p : p[i].st = "fail" /\ Carries(p[i], r, b)

(* A rank dumps b in this step; layer l has still to be visited.            *)
InDump(k, r, b) ==
  /\ cfg.lw /\ cfg.cm /\ DumpsAt(k) /\ r \in Dumping(k)
  /\ b \in ToSet(RankIds(cfg, job[r].dump.ids, k))
Ahead(k, l) ==
  \/ wpc[k] \in {"load", "fwd", "save"} /\ \E p \in pos[k]..Len(Visits) : Visits[p] = l
  \/ wpc[k] = "wait" /\ Defers(l)

(* A block that a rank dumps or has dumped is lost, or each of its layers   *)
(* is stored, on its way, or still to come.                                 *)
Concerned(k, r, b) ==
  \/ b \in acct[k].dumped[r]
  \/ InDump(k, r, b) /\ wpc[k] \in {"load", "fwd", "save", "wait"}
Secure(k, r, b, l) ==
  \/ KeyOf(k, b, l) \in DOMAIN store
  \/ Flies(pend[k], r, b, l)
  \/ InDump(k, r, b) /\ Ahead(k, l)
AccountOf(k, r, b) ==
  Missed(pend[k], acct[k], r, b) \/ \A l \in Layers : Secure(k, r, b, l)
Accounted(k) == \A r \in Requests : \A b : Concerned(k, r, b) => AccountOf(k, r, b)

(* What a rank confirms, or is about to, it has stored.                     *)
Confirmed(k) ==
  /\ \A b \in acct[k].succeeded : Stored(k, b)
  /\ wpc[k] = "out" => \A b \in rep[k].meta.succeeded : Stored(k, b)

(* The dumps of a predictor's layer wait for the end of the forward.        *)
Postponed(k) ==
  /\ deferred[k] => DumpsAt(k)
  /\ wpc[k] = "wait" /\ cfg.lw /\ cfg.mtp /\ DumpsAt(k) /\ Dumping(k) # {} => deferred[k]

(* A task writes all the blocks it carries.                                 *)
TaskOf(t) ==
  /\ "reqs" \in DOMAIN t /\ "ctx" \in DOMAIN t /\ "layer" \in DOMAIN t /\ "st" \in DOMAIN t
  /\ "cells" \in DOMAIN t /\ "taint" \in DOMAIN t
  /\ DOMAIN t.ctx \subseteq t.reqs /\ t.st \in {"flying", "ok", "fail"}
  /\ \A r \in DOMAIN t.ctx : \A b \in t.ctx[r] : \E x \in t.cells : x[1] = b
TasksOf(p) == IsFiniteSet(DOMAIN p) /\ \A i \in DOMAIN p : TaskOf(p[i])

AShape(a) ==
  /\ "dumped" \in DOMAIN a /\ "failed" \in DOMAIN a /\ "succeeded" \in DOMAIN a
  /\ "missBlocks" \in DOMAIN a /\ "missReqs" \in DOMAIN a /\ "loadFailed" \in DOMAIN a
  /\ DOMAIN a.dumped = Requests /\ DOMAIN a.failed = Requests
  /\ a.missBlocks \subseteq Blocks
RankOf(k) ==
  /\ phase = "sched" => wpc[k] = "idle"
  /\ pos[k] \in 1..Len(Visits) /\ TasksOf(pend[k]) /\ AShape(acct[k])
  /\ wpc[k] = "out" => rep[k].meta.missBlocks \subseteq Blocks
Worksheets ==
  \A r \in DOMAIN job : /\ r \in Requests /\ r \in InPlan
                        /\ IsSeq(job[r].dump.ids)
                        /\ IsSeq(job[r].load.ids) /\ ToSet(job[r].load.ids) \subseteq Blocks
RankTyped ==
  /\ DOMAIN pend = Ranks /\ DOMAIN acct = Ranks /\ DOMAIN wpc = Ranks /\ DOMAIN pos = Ranks
  /\ DOMAIN deferred = Ranks /\ DOMAIN rep = Ranks
  /\ DOMAIN wasync = Ranks /\ \A k \in Ranks : wasync[k] \subseteq Requests
RankInv == RankTyped /\ Worksheets /\ marks \subseteq Blocks /\ \A k \in Ranks : RankOf(k)
StoreOf(k) == Accounted(k) /\ Confirmed(k) /\ Postponed(k)
ClearInv == RankInv /\ ("gc" \notin cfg.faults => \A k \in Ranks : StoreOf(k))

(* What was lost stays lost and what flies keeps flying.                    *)
Keeps(p, a, q, c) ==
  \A r \in Requests : \A b : /\ Missed(p, a, r, b) => Missed(q, c, r, b)
                             /\ \A l : Flies(p, r, b, l) => Flies(q, r, b, l)

(* Only the events and the failures of an account change.                   *)
SameDumps(a, c) ==
  AShape(c) /\ c.dumped = a.dumped /\ c.succeeded = a.succeeded

(* The blocks of ctx come to those of f.                                    *)
Grown(f, ctx, g) ==
  \A r \in Requests : g[r] = IF r \in DOMAIN ctx THEN f[r] \union ctx[r] ELSE f[r]

LEMMA DumpFailedIs ==
  ASSUME NEW a, AShape(a), NEW ctx, NEW c, c = DumpFailed(a, ctx)
  PROVE  SameDumps(a, c) /\ Grown(a.failed, ctx, c.failed)
<1>1. c = [a EXCEPT !.failed = [r \in Requests |-> IF r \in DOMAIN ctx THEN a.failed[r] \union ctx[r]
                                                   ELSE a.failed[r]]]
  BY DEF DumpFailed, AShape
<1> QED BY <1>1 DEF AShape, SameDumps, Grown

(* _wait_pending_dump_task: the failures of tasks that leave the list go to *)
(* the account.                                                             *)
LEMMA WaitedIs ==
  ASSUME NEW a, AShape(a), NEW tasks, NEW c, c = Waited(tasks, a)
  PROVE  /\ SameDumps(a, c)
         /\ \A r \in Requests : \A b : b \in a.failed[r] => b \in c.failed[r]
         /\ \A r \in Requests : \A b : \A t \in tasks : t.st = "fail" /\ Carries(t, r, b) => b \in c.failed[r]
<1> DEFINE lost(r) == UNION {t.ctx[r] : t \in {t \in tasks : t.st = "fail" /\ r \in DOMAIN t.ctx}}
<1>1. PICK x : x = [r \in Requests |-> lost(r)]
  OBVIOUS
<1>2. c = DumpFailed(a, x)
  BY <1>1 DEF Waited, AShape
<1>3. DOMAIN x = Requests /\ \A r \in Requests : x[r] = lost(r)
  BY <1>1
<1>4. \A r \in Requests : \A b : \A t \in tasks : t.st = "fail" /\ Carries(t, r, b) => b \in lost(r)
  BY DEF Carries
<1> HIDE DEF lost
<1>5. SameDumps(a, c) /\ Grown(a.failed, x, c.failed)
  BY <1>2, DumpFailedIs
<1>6. \A r \in Requests : c.failed[r] = a.failed[r] \union x[r]
  BY <1>3, <1>5 DEF Grown
<1> QED BY <1>3, <1>4, <1>5, <1>6

LEMMA WithoutIs ==
  ASSUME NEW p, NEW gone, NEW q, q = Without(p, gone), TasksOf(p)
  PROVE  /\ TasksOf(q) /\ \A i \in DOMAIN q : i \in DOMAIN p /\ q[i] = p[i]
         /\ \A i \in DOMAIN p : p[i] \notin gone => i \in DOMAIN q
         /\ \A i \in DOMAIN q : p[i] \notin gone
<1>1. /\ \A i \in DOMAIN q : i \in DOMAIN p /\ q[i] = p[i] /\ p[i] \notin gone
      /\ \A i \in DOMAIN p : p[i] \notin gone => i \in DOMAIN q
  BY DEF Without
<1>2. IsFiniteSet(DOMAIN q)
  BY <1>1, FS_Subset DEF TasksOf
<1> QED BY <1>1, <1>2 DEF TasksOf

(* Settled tasks leave the list.                                            *)
LEMMA CollectIs ==
  ASSUME NEW p, NEW a, NEW gone, NEW q, NEW c, TasksOf(p), AShape(a), gone \subseteq ToSet(p),
         \A t \in gone : Settled(t), q = Without(p, gone), c = Waited(gone, a)
  PROVE  Keeps(p, a, q, c) /\ SameDumps(a, c) /\ TasksOf(q)
<1>1. /\ TasksOf(q) /\ \A i \in DOMAIN q : i \in DOMAIN p /\ q[i] = p[i]
      /\ \A i \in DOMAIN p : p[i] \notin gone => i \in DOMAIN q
  BY WithoutIs
<1>2. /\ SameDumps(a, c)
      /\ \A r \in Requests : \A b : b \in a.failed[r] => b \in c.failed[r]
      /\ \A r \in Requests : \A b : \A t \in gone : t.st = "fail" /\ Carries(t, r, b) => b \in c.failed[r]
  BY WaitedIs
<1>3. ASSUME NEW r \in Requests, NEW b, Missed(p, a, r, b)  PROVE Missed(q, c, r, b)
  <2>1. CASE b \in a.failed[r]
    BY <1>2, <2>1 DEF Missed
  <2>2. CASE \E i \in DOMAIN p : p[i].st = "fail" /\ Carries(p[i], r, b)
    <3>1. PICK i \in DOMAIN p : p[i].st = "fail" /\ Carries(p[i], r, b)
      BY <2>2
    <3>2. CASE p[i] \in gone
      BY <1>2, <3>1, <3>2 DEF Missed
    <3>3. CASE p[i] \notin gone
      BY <1>1, <3>1, <3>3 DEF Missed
    <3> QED BY <3>2, <3>3
  <2> QED BY <1>3, <2>1, <2>2 DEF Missed
<1>4. ASSUME NEW r \in Requests, NEW b, NEW l, Flies(p, r, b, l)  PROVE Flies(q, r, b, l)
  <2>1. PICK i \in DOMAIN p : p[i].st = "flying" /\ p[i].layer = l /\ Carries(p[i], r, b)
    BY <1>4 DEF Flies
  <2>2. p[i] \notin gone
    BY <2>1 DEF Settled
  <2> QED BY <1>1, <2>1, <2>2 DEF Flies
<1> QED BY <1>1, <1>2, <1>3, <1>4 DEF Keeps

(* A task gets a slot of its own.                                           *)
LEMMA AddedIs ==
  ASSUME NEW p, TasksOf(p), NEW t, TaskOf(t), NEW q, q = Added(p, t)
  PROVE  /\ TasksOf(q) /\ \A i \in DOMAIN p : i \in DOMAIN q /\ q[i] = p[i]
         /\ \E i \in DOMAIN q : q[i] = t
<1>1. PICK n \in Nat : n = Cardinality(DOMAIN p)
  BY FS_CardinalityType DEF TasksOf
<1>2. ~(1..n + 1 \subseteq DOMAIN p)
  <2>1. IsFiniteSet(1..n + 1) /\ Cardinality(1..n + 1) = n + 1
    BY FS_Interval
  <2> SUFFICES ASSUME 1..n + 1 \subseteq DOMAIN p  PROVE FALSE
    OBVIOUS
  <2>2. Cardinality(1..n + 1) <= Cardinality(DOMAIN p)
    BY FS_Subset DEF TasksOf
  <2> QED BY <1>1, <2>1, <2>2
<1>3. PICK S : S = (1..n + 1) \ DOMAIN p
  OBVIOUS
<1>4. S \subseteq Nat /\ S # {}
  BY <1>2, <1>3
<1>5. Slot(p) \in S
  BY <1>1, <1>3, <1>4, MinIs DEF Slot
<1>6. PICK i : i = Slot(p) /\ i \notin DOMAIN p
  BY <1>3, <1>5
<1>7. DOMAIN q = DOMAIN p \union {i} /\ q[i] = t /\ \A j \in DOMAIN p : q[j] = p[j]
  <2>1. q = With(p, i, t)
    BY <1>6 DEF Added
  <2>2. q = [j \in DOMAIN p \union {i} |-> IF j = i THEN t ELSE p[j]]
    BY <2>1 DEF With
  <2> QED BY <1>6, <2>2
<1>8. IsFiniteSet(DOMAIN q)
  BY <1>7, FS_AddElement DEF TasksOf
<1> QED BY <1>7, <1>8 DEF TasksOf

(* A dumping request, its blocks for a rank, and the (hash, block) pairs.   *)
LEMMA PairsIs ==
  ASSUME RankInv, cfg \in Setups, NEW k \in Ranks, NEW r \in DOMAIN job,
         NEW ids, ids = RankIds(cfg, job[r].dump.ids, k), Len(ids) = Len(job[r].dump.vb)
  PROVE  \A b \in ToSet(ids) : \E x \in Pairs(cfg, job[r].dump, k) : x[1] = b
<1> SUFFICES ASSUME NEW b \in ToSet(ids)  PROVE \E x \in Pairs(cfg, job[r].dump, k) : x[1] = b
  OBVIOUS
<1>1. PICK n \in Int : DOMAIN ids = 1..n /\ (n \in Nat => Len(ids) = n)
  <2>1. CASE cfg.cp = 1
    <3>1. ids = job[r].dump.ids
      BY <2>1 DEF RankIds
    <3>2. IsSeq(ids)
      BY <3>1 DEF RankInv, Worksheets
    <3>3. Len(ids) \in Nat /\ DOMAIN ids = 1..Len(ids)
      BY <3>2 DEF IsSeq
    <3> QED BY <3>3
  <2>2. CASE cfg.cp # 1
    <3>1. PICK l \in Nat, c \in Nat : l = Len(job[r].dump.ids) /\ c = cfg.cp /\ c >= 1
      BY Sizes DEF RankInv, Worksheets, IsSeq
    <3>2. k \in Int
      BY SetupAssumption DEF Ranks
    <3>3. PICK n \in Int : n = (l - k + c - 1) \div c
      BY <3>1, <3>2
    <3>4. PICK g : g = [i \in 1..n |-> job[r].dump.ids[(i - 1) * cfg.cp + k + 1]]
      OBVIOUS
    <3>5. ids = g
      BY <2>2, <3>1, <3>3, <3>4 DEF RankIds
    <3>6. DOMAIN g = 1..n
      BY <3>4
    <3>7. n \in Nat => Len(g) = n
      BY <3>6
    <3> QED BY <3>5, <3>6, <3>7
  <2> QED BY <2>1, <2>2
<1>2. PICK i \in 1..n : b = ids[i]
  BY <1>1 DEF ToSet
<1>3. n \in Nat /\ Len(ids) = n /\ Len(job[r].dump.vb) = n
  BY <1>1, <1>2
<1>4. Min({Len(ids), Len(job[r].dump.vb)}) = n
  BY <1>3, MinOfTwo
<1>5. <<ids[i], job[r].dump.vb[i]>> \in Pairs(cfg, job[r].dump, k)
  BY <1>2, <1>4 DEF Pairs
<1> QED BY <1>2, <1>5

Context(k) == [r \in (IF cfg.cm THEN Dumping(k) ELSE {}) |-> ToSet(RankIds(cfg, job[r].dump.ids, k))]

LEMMA DumpSubmittedIs ==
  ASSUME NEW a, AShape(a), NEW ctx, NEW c, c = DumpSubmitted(a, ctx)
  PROVE  /\ AShape(c) /\ c.failed = a.failed /\ c.succeeded = a.succeeded
         /\ Grown(a.dumped, ctx, c.dumped)
<1>1. c = [a EXCEPT !.dumped = [r \in Requests |-> IF r \in DOMAIN ctx THEN a.dumped[r] \union ctx[r]
                                                   ELSE a.dumped[r]]]
  BY DEF DumpSubmitted, AShape
<1> QED BY <1>1 DEF AShape, Grown

(* What a submission leaves: tasks q and account c.  A block that is new on *)
(* the account flies or is lost, and so is, layer by layer, each block of   *)
(* the step.                                                                *)
Launched(k, l, a, q, c) ==
  /\ TasksOf(q) /\ AShape(c) /\ c.succeeded = a.succeeded
  /\ \A r \in Requests : \A b :
       /\ b \in c.dumped[r] =>
            b \in a.dumped[r] \/ (/\ cfg.cm /\ r \in Dumping(k) /\ b \in ToSet(RankIds(cfg, job[r].dump.ids, k))
                                  /\ Missed(q, c, r, b) \/ Flies(q, r, b, l))
       /\ InDump(k, r, b) => Missed(q, c, r, b) \/ Flies(q, r, b, l)

LEMMA SubmittedIs ==
  ASSUME RankInv, cfg \in Setups, NEW k \in Ranks, NEW l, NEW a, NEW p, NEW no, AShape(a), TasksOf(p),
         NEW q, NEW c, q = Submitted(k, l, a, p, no).pend, c = Submitted(k, l, a, p, no).acct
  PROVE  Keeps(p, a, q, c) /\ Launched(k, l, a, q, c)
<1> DEFINE reqs == Dumping(k)
<1>1. PICK ctx : ctx = Context(k)
  OBVIOUS
<1>2. /\ DOMAIN ctx = IF cfg.cm THEN reqs ELSE {}
      /\ \A r \in DOMAIN ctx : ctx[r] = ToSet(RankIds(cfg, job[r].dump.ids, k))
  BY <1>1 DEF Context
<1>3. DOMAIN ctx \subseteq reqs /\ reqs \subseteq DOMAIN job /\ reqs \subseteq Requests
  BY <1>2 DEF Dumping, RankInv, Worksheets
<1>4. PICK d : d = DumpSubmitted(a, ctx)
  OBVIOUS
<1>5. /\ AShape(d) /\ d.failed = a.failed /\ d.succeeded = a.succeeded
      /\ Grown(a.dumped, ctx, d.dumped)
  BY <1>4, DumpSubmittedIs
<1>6. CASE reqs = {} \/ (~cfg.lw /\ \A r \in reqs : job[r].dump.vb = <<>>)
  <2>1. q = p /\ c = a
    BY <1>6 DEF Submitted
  <2>2. \A r \in Requests : \A b : ~InDump(k, r, b)
    BY <1>6 DEF InDump
  <2> QED BY <2>1, <2>2 DEF Keeps, Launched
<1>7. CASE ~(reqs = {} \/ (~cfg.lw /\ \A r \in reqs : job[r].dump.vb = <<>>)) /\ (no \/ Misfit(k))
  <2>1. q = p /\ c = DumpFailed(d, ctx)
    BY <1>1, <1>4, <1>7 DEF Submitted, Context
  <2>2. SameDumps(d, c) /\ Grown(d.failed, ctx, c.failed)
    BY <1>5, <2>1, DumpFailedIs
  <2>3. Keeps(p, a, q, c)
    BY <1>5, <2>1, <2>2 DEF Keeps, Missed, Grown
  <2>4. \A r \in Requests : \A b : r \in DOMAIN ctx /\ b \in ctx[r] => Missed(q, c, r, b)
    BY <2>2 DEF Missed, Grown
  <2>5. \A r \in Requests : \A b : b \in c.dumped[r] => b \in a.dumped[r] \/ (r \in DOMAIN ctx /\ b \in ctx[r])
    BY <1>5, <2>2 DEF SameDumps, Grown
  <2>6. \A r \in Requests : \A b : InDump(k, r, b) => r \in DOMAIN ctx /\ b \in ctx[r]
    BY <1>2 DEF InDump
  <2>7. \A r \in DOMAIN ctx : cfg.cm /\ r \in Dumping(k)
    BY <1>2
  <2>8. TasksOf(q) /\ AShape(c) /\ c.succeeded = a.succeeded
    BY <1>5, <2>1, <2>2 DEF SameDumps
  <2> QED BY <1>2, <2>3, <2>4, <2>5, <2>6, <2>7, <2>8 DEF Launched
<1>8. CASE ~(reqs = {} \/ (~cfg.lw /\ \A r \in reqs : job[r].dump.vb = <<>>)) /\ ~(no \/ Misfit(k))
  <2>1. PICK t : t = [reqs |-> reqs, ctx |-> ctx, layer |-> l, st |-> "flying",
                      cells |-> UNION {Pairs(cfg, job[r].dump, k) : r \in reqs},
                      taint |-> \E j \in Ranks : wfail[j] # {}]
    OBVIOUS
  <2>2. q = Added(p, t) /\ c = d
    BY <1>1, <1>4, <1>8, <2>1 DEF Submitted, Context
  <2>3. TaskOf(t) /\ t.st = "flying" /\ t.layer = l /\ t.ctx = ctx
    <3>1. /\ DOMAIN t = {"reqs", "ctx", "layer", "st", "cells", "taint"}
          /\ t.reqs = reqs /\ t.ctx = ctx /\ t.st = "flying" /\ t.layer = l
          /\ t.cells = UNION {Pairs(cfg, job[r].dump, k) : r \in reqs}
      BY <2>1
    <3>2. ASSUME NEW r \in DOMAIN ctx, NEW b \in ctx[r]  PROVE \E x \in t.cells : x[1] = b
      <4>1. r \in DOMAIN job /\ r \in reqs /\ Len(RankIds(cfg, job[r].dump.ids, k)) = Len(job[r].dump.vb)
        BY <1>3, <1>8 DEF Misfit
      <4>2. b \in ToSet(RankIds(cfg, job[r].dump.ids, k))
        BY <1>2
      <4>3. \E x \in Pairs(cfg, job[r].dump, k) : x[1] = b
        BY <4>1, <4>2, PairsIs
      <4> QED BY <3>1, <4>1, <4>3
    <3> QED BY <1>3, <3>1, <3>2 DEF TaskOf
  <2>4. /\ TasksOf(q) /\ \A i \in DOMAIN p : i \in DOMAIN q /\ q[i] = p[i]
        /\ \E i \in DOMAIN q : q[i] = t
    BY <2>2, <2>3, AddedIs
  <2>5. Keeps(p, a, q, c)
    BY <1>5, <2>2, <2>4 DEF Keeps, Missed, Flies
  <2>6. \A r \in Requests : \A b : r \in DOMAIN ctx /\ b \in ctx[r] => Flies(q, r, b, l)
    BY <2>3, <2>4 DEF Flies, Carries
  <2>7. \A r \in Requests : \A b : b \in c.dumped[r] => b \in a.dumped[r] \/ (r \in DOMAIN ctx /\ b \in ctx[r])
    BY <1>5, <2>2 DEF Grown
  <2>8. \A r \in Requests : \A b : InDump(k, r, b) => r \in DOMAIN ctx /\ b \in ctx[r]
    BY <1>2 DEF InDump
  <2>9. \A r \in DOMAIN ctx : cfg.cm /\ r \in Dumping(k)
    BY <1>2
  <2> QED BY <1>2, <1>5, <2>2, <2>4, <2>5, <2>6, <2>7, <2>8, <2>9 DEF Launched
<1> QED BY <1>6, <1>7, <1>8

----------------------------------------------------------------------------
(* A step of a rank                                                         *)

LEMMA Fixed ==
  ASSUME cfg' = cfg
  PROVE  /\ Layers' = Layers /\ Visits' = Visits /\ Requests' = Requests /\ Ranks' = Ranks /\ Blocks' = Blocks
         /\ \A k : DumpsAt(k)' <=> DumpsAt(k)
         /\ \A l : Defers(l)' <=> Defers(l)
         /\ \A k, b, l : KeyOf(k, b, l)' = KeyOf(k, b, l)
BY DEF Layers, Visits, Requests, Ranks, Blocks, DumpsAt, Defers, IsMtpLayer, KeyOf

LEMMA FixedJob ==
  ASSUME cfg' = cfg, job' = job
  PROVE  /\ \A k : Dumping(k)' = Dumping(k)
         /\ \A k, r, b : InDump(k, r, b)' <=> InDump(k, r, b)
<1>1. \A k : Dumping(k)' = Dumping(k)
  BY DEF Dumping
<1> QED BY <1>1, Fixed DEF InDump

(* What a step has to show of one block.                                    *)
LEMMA Carried ==
  ASSUME cfg' = cfg, job' = job, DOMAIN store \subseteq DOMAIN store', NEW k \in Ranks, NEW r \in Requests, NEW b,
         Keeps(pend[k], acct[k], pend'[k], acct'[k]), AccountOf(k, r, b),
         \/ Missed(pend'[k], acct'[k], r, b)
         \/ \A l \in Layers : InDump(k, r, b) /\ Ahead(k, l) => Secure(k, r, b, l)'
  PROVE  AccountOf(k, r, b)'
<1>1. CASE Missed(pend[k], acct[k], r, b) \/ Missed(pend'[k], acct'[k], r, b)
  <2>1. Missed(pend'[k], acct'[k], r, b)
    BY <1>1 DEF Keeps
  <2> QED BY <2>1 DEF AccountOf, Missed, Carries
<1>2. CASE /\ \A l \in Layers : Secure(k, r, b, l)
           /\ \A l \in Layers : InDump(k, r, b) /\ Ahead(k, l) => Secure(k, r, b, l)'
  <2> SUFFICES ASSUME NEW l \in Layers  PROVE Secure(k, r, b, l)'
    <3>1. Layers' = Layers
      BY Fixed
    <3> QED BY <3>1 DEF AccountOf
  <2>1. CASE KeyOf(k, b, l) \in DOMAIN store
    <3>1. KeyOf(k, b, l)' \in DOMAIN store'
      BY <2>1, Fixed
    <3> QED BY <3>1 DEF Secure
  <2>2. CASE Flies(pend[k], r, b, l)
    <3>1. Flies(pend'[k], r, b, l)
      BY <2>2 DEF Keeps
    <3> QED BY <3>1 DEF Secure, Flies, Carries
  <2> QED BY <1>2, <2>1, <2>2 DEF Secure
<1> QED BY <1>1, <1>2 DEF AccountOf

(* A rank that a step leaves alone.                                         *)
Same(k) ==
  /\ pend'[k] = pend[k] /\ acct'[k] = acct[k] /\ wpc'[k] = wpc[k] /\ pos'[k] = pos[k]
  /\ deferred'[k] = deferred[k] /\ rep'[k] = rep[k]

LEMMA KeepsSame ==
  ASSUME NEW p, NEW a  PROVE Keeps(p, a, p, a)
BY DEF Keeps

LEMMA SameRank ==
  ASSUME NEW k \in Ranks, RankOf(k), UNCHANGED <<cfg, phase>>, Same(k)
  PROVE  RankOf(k)'
<1>1. cfg' = cfg /\ phase' = phase
  OBVIOUS
<1>2. AShape(acct[k])' /\ TasksOf(pend[k])'
  BY <1>1, Fixed DEF RankOf, Same, AShape, TasksOf, TaskOf
<1> QED BY <1>1, <1>2, Fixed DEF RankOf, Same

LEMMA SameStore ==
  ASSUME NEW k \in Ranks, StoreOf(k), UNCHANGED <<cfg, job>>, Same(k), DOMAIN store \subseteq DOMAIN store'
  PROVE  StoreOf(k)'
<1>1. cfg' = cfg /\ job' = job
  OBVIOUS
<1>2. Accounted(k)'
  <2> SUFFICES ASSUME NEW r \in Requests, NEW b, Concerned(k, r, b)'  PROVE AccountOf(k, r, b)'
    BY <1>1, Fixed DEF Accounted
  <2>1. Concerned(k, r, b)
    BY <1>1, FixedJob DEF Concerned, Same
  <2>2. AccountOf(k, r, b)
    BY <2>1 DEF StoreOf, Accounted
  <2>3. Keeps(pend[k], acct[k], pend'[k], acct'[k])
    BY KeepsSame DEF Same
  <2>4. \A l \in Layers : InDump(k, r, b) /\ Ahead(k, l) => Secure(k, r, b, l)'
    <3> SUFFICES ASSUME NEW l \in Layers, InDump(k, r, b), Ahead(k, l)  PROVE InDump(k, r, b)' /\ Ahead(k, l)'
      BY DEF Secure
    <3> QED BY <1>1, Fixed, FixedJob DEF Ahead, Same
  <2> QED BY <1>1, <2>2, <2>3, <2>4, Carried
<1>3. \A b : Stored(k, b) => Stored(k, b)'
  BY <1>1, Fixed DEF Stored
<1>4. Confirmed(k)'
  BY <1>3 DEF StoreOf, Confirmed, Same
<1>5. Postponed(k)'
  BY <1>1, Fixed, FixedJob DEF StoreOf, Postponed, Same
<1> QED BY <1>2, <1>4, <1>5 DEF StoreOf

(* A worker step leaves the other ranks alone, and the store only grows.    *)
Aside(k) ==
  /\ cfg' = cfg /\ phase' = phase /\ job' = job /\ plan' = plan /\ marks' = marks
  /\ DOMAIN store \subseteq DOMAIN store' /\ RankTyped'
  /\ \A j \in Ranks : j # k => Same(j)

LEMMA LandedIs ==
  ASSUME NEW k, NEW t, NEW cells
  PROVE  /\ DOMAIN store \subseteq DOMAIN Landed(k, t, cells)
         /\ \A x \in cells : KeyOf(k, x[1], t.layer) \in DOMAIN Landed(k, t, cells)
BY DEF Landed

LEMMA AsideIs ==
  ASSUME RankTyped, Worksheets, NEW k \in Ranks, WorkerStep(k) \/ Settle(k)
  PROVE  Aside(k)
<1>1. CASE HandlePreemptions(k)
  BY <1>1, Fixed DEF HandlePreemptions, Goto, RankTyped, Aside, Same, srole
<1>2. CASE LoadKv(k)
  BY <1>2, Fixed DEF LoadKv, Goto, RankTyped, Aside, Same, srole
<1>3. CASE SaveKvLayer(k)
  BY <1>3, Fixed DEF SaveKvLayer, Goto, RankTyped, Aside, Same, srole
<1>4. CASE WaitForSave(k)
  <2>1. Remembered(k) \subseteq Requests
    BY DEF Remembered, Dumping, Worksheets
  <2>2. wasync' = [wasync EXCEPT ![k] = @ \union Remembered(k)]
    BY <1>4 DEF WaitForSave
  <2>3. DOMAIN wasync' = Ranks /\ \A j \in Ranks : wasync'[j] \subseteq Requests
    BY <2>1, <2>2 DEF RankTyped
  <2> QED BY <1>4, <2>3, Fixed DEF WaitForSave, Goto, RankTyped, Aside, Same, srole
<1>5. CASE GetFinished(k)
  <2>1. DOMAIN wasync' = Ranks /\ \A j \in Ranks : wasync'[j] \subseteq Requests
    BY <1>5 DEF GetFinished, RankTyped
  <2> QED BY <1>5, <2>1, Fixed DEF GetFinished, Goto, RankTyped, Aside, Same, srole
<1>6. CASE Settle(k)
  <2>1. PICK i \in DOMAIN pend[k] : DumpLand(k, i) \/ DumpFail(k, i)
    BY <1>6 DEF Settle
  <2>2. DOMAIN store \subseteq DOMAIN store'
    BY <2>1, LandedIs DEF DumpLand, DumpFail
  <2>3. CASE DumpLand(k, i)
    BY <2>2, <2>3, Fixed DEF DumpLand, RankTyped, Aside, Same, srole
  <2>4. CASE DumpFail(k, i)
    BY <2>2, <2>4, Fixed DEF DumpFail, RankTyped, Aside, Same, srole
  <2> QED BY <2>1, <2>3, <2>4
<1> QED BY <1>1, <1>2, <1>3, <1>4, <1>5, <1>6 DEF WorkerStep

LEMMA WorksheetsStay ==
  ASSUME Worksheets, cfg' = cfg, job' = job, InPlan \subseteq InPlan'  PROVE Worksheets'
BY Fixed DEF Worksheets, IsSeq, ToSet

LEMMA AsideRank ==
  ASSUME RankInv, NEW k \in Ranks, Aside(k), RankOf(k)'
  PROVE  RankInv'
<1>1. /\ cfg' = cfg /\ phase' = phase /\ job' = job /\ plan' = plan /\ marks' = marks
      /\ RankTyped' /\ \A j \in Ranks : j # k => Same(j)
  BY DEF Aside
<1>2. Worksheets'
  BY <1>1, WorksheetsStay DEF RankInv, InPlan
<1>3. ASSUME NEW j \in Ranks  PROVE RankOf(j)'
  BY <1>1, SameRank DEF RankInv
<1>4. Ranks' = Ranks /\ Blocks' = Blocks
  BY <1>1, Fixed
<1> QED BY <1>1, <1>2, <1>3, <1>4 DEF RankInv

LEMMA AsideStore ==
  ASSUME \A j \in Ranks : StoreOf(j), NEW k \in Ranks, Aside(k), StoreOf(k)'
  PROVE  (\A j \in Ranks : StoreOf(j))'
<1>1. /\ cfg' = cfg /\ job' = job /\ DOMAIN store \subseteq DOMAIN store'
      /\ \A j \in Ranks : j # k => Same(j)
  BY DEF Aside
<1>2. ASSUME NEW j \in Ranks  PROVE StoreOf(j)'
  BY <1>1, SameStore
<1>3. Ranks' = Ranks
  BY <1>1, Fixed
<1> QED BY <1>2, <1>3

(* What the steps share: confirmations that are not reported in this step.  *)
LEMMA ConfirmedStays ==
  ASSUME NEW k \in Ranks, Aside(k), Confirmed(k), acct'[k].succeeded = acct[k].succeeded,
         wpc'[k] = "out" => wpc[k] = "out" /\ rep'[k] = rep[k]
  PROVE  Confirmed(k)'
<1>1. \A b : Stored(k, b) => Stored(k, b)'
  BY Fixed DEF Stored, Aside
<1> QED BY <1>1 DEF Confirmed

LEMMA ShapeStays ==
  ASSUME cfg' = cfg, NEW k, AShape(acct'[k]), TasksOf(pend'[k])
  PROVE  AShape(acct[k])' /\ TasksOf(pend[k])'
BY Fixed DEF AShape, TasksOf, TaskOf

(* The layers of a forward.                                                 *)
LEMMA VisitsIs ==
  ASSUME cfg \in Setups
  PROVE  /\ Len(Visits) \in Nat /\ Len(Visits) >= 1
         /\ \A l \in Layers : \E p \in 1..Len(Visits) : Visits[p] = l
         /\ cfg.mtp => Visits[Len(Visits)] = cfg.layers - 1
         /\ cfg.layers \in Nat
<1>1. PICK n \in Nat : n = cfg.layers /\ n >= 1
  BY SetupAssumption
<1>2. PICK s : s = [i \in 1..n |-> i - 1]
  OBVIOUS
<1>3. s \in Seq(Int) /\ Len(s) = n /\ \A i \in 1..n : s[i] = i - 1
  BY <1>1, <1>2
<1>4. PICK t \in Seq(Int) : t = (IF cfg.mtp THEN <<n - 1>> ELSE <<>>)
  <2>1. <<n - 1>> \in Seq(Int) /\ <<>> \in Seq(Int)
    BY <1>1
  <2>2. (IF cfg.mtp THEN <<n - 1>> ELSE <<>>) \in Seq(Int)
    <3>1. CASE cfg.mtp
      BY <2>1, <3>1, Zenon
    <3>2. CASE ~cfg.mtp
      BY <2>1, <3>2, Zenon
    <3> QED BY <3>1, <3>2
  <2> QED BY <2>2, Zenon
<1>5. Visits = s \o t
  BY <1>1, <1>2, <1>4 DEF Visits
<1>6. PICK m \in Nat : m = Len(t) /\ (cfg.mtp => m = 1 /\ t[1] = n - 1)
  <2>1. PICK m \in Nat : m = Len(t)
    BY <1>4
  <2>2. ASSUME cfg.mtp  PROVE m = 1 /\ t[1] = n - 1
    <3>1. t = <<n - 1>>
      BY <1>4, <2>2, Zenon
    <3> QED BY <2>1, <3>1
  <2> QED BY <2>1, <2>2
<1>7. /\ Len(Visits) = n + m /\ \A i \in 1..n : Visits[i] = i - 1
      /\ \A i \in 1..m : Visits[n + i] = t[i]
  BY <1>3, <1>4, <1>5, <1>6
<1>8. ASSUME NEW l \in Layers  PROVE \E p \in 1..Len(Visits) : Visits[p] = l
  <2>1. l \in Int /\ 0 <= l /\ l <= n - 1
    BY <1>1, <1>8 DEF Layers
  <2>2. l + 1 \in 1..n /\ l + 1 \in 1..n + m
    BY <1>1, <1>6, <2>1
  <2>3. Visits[l + 1] = (l + 1) - 1
    BY <1>7, <2>2
  <2>4. Visits[l + 1] = l
    BY <2>1, <2>3
  <2> QED BY <1>7, <2>2, <2>4
<1>9. ASSUME cfg.mtp  PROVE Visits[Len(Visits)] = cfg.layers - 1
  <2>1. m = 1 /\ t[1] = n - 1
    BY <1>6, <1>9
  <2>2. Visits[n + 1] = n - 1 /\ Len(Visits) = n + 1
    BY <1>7, <2>1
  <2> QED BY <1>1, <2>2
<1> QED BY <1>1, <1>6, <1>7, <1>8, <1>9

(* handle_preemptions                                                       *)
LEMMA HandleStep ==
  ASSUME RankInv, cfg \in Setups, NEW k \in Ranks, Aside(k), HandlePreemptions(k)
  PROVE  RankOf(k)' /\ (StoreOf(k) => StoreOf(k)')
<1>1. RankTyped /\ RankOf(k) /\ Worksheets
  BY DEF RankInv
<1>2. PICK gone : gone = Flushed(k, plan.pre)
  OBVIOUS
<1>3. /\ wpc[k] = "begin" /\ (\A t \in gone : Settled(t))
      /\ pend'[k] = Without(pend[k], gone) /\ acct'[k] = Waited(gone, acct[k]) /\ pos'[k] = 1
      /\ wpc'[k] = (IF InPlan = {} THEN "wait" ELSE "load") /\ deferred' = deferred
      /\ cfg' = cfg /\ job' = job /\ phase' = phase
  BY <1>1, <1>2 DEF HandlePreemptions, Goto, RankTyped, Aside, srole
<1>4. Keeps(pend[k], acct[k], pend'[k], acct'[k]) /\ SameDumps(acct[k], acct'[k]) /\ TasksOf(pend'[k])
  <2>1. gone \subseteq ToSet(pend[k])
    BY <1>2 DEF Flushed
  <2> QED BY <1>1, <1>3, <2>1, CollectIs DEF RankOf
<1>5. RankOf(k)'
  <2>1. phase' # "sched"
    BY <1>1, <1>3 DEF RankOf
  <2>2. pos'[k] \in 1..Len(Visits)'
    <3>1. Len(Visits) \in Nat /\ Len(Visits) >= 1 /\ Visits' = Visits
      BY <1>3, VisitsIs, Fixed
    <3> QED BY <1>3, <3>1
  <2>3. AShape(acct[k])' /\ TasksOf(pend[k])'
    BY <1>3, <1>4, ShapeStays DEF SameDumps
  <2> QED BY <1>3, <2>1, <2>2, <2>3 DEF RankOf
<1>6. ASSUME StoreOf(k)  PROVE StoreOf(k)'
  <2>1. Accounted(k)'
    <3> SUFFICES ASSUME NEW r \in Requests, NEW b, Concerned(k, r, b)'  PROVE AccountOf(k, r, b)'
      BY <1>3, Fixed DEF Accounted
    <3>1. CASE b \in acct[k].dumped[r]
      <4>1. AccountOf(k, r, b)
        BY <1>6, <3>1 DEF StoreOf, Accounted, Concerned
      <4>2. \A l \in Layers : ~Ahead(k, l)
        BY <1>3 DEF Ahead
      <4> QED BY <1>3, <1>4, <4>1, <4>2, Carried DEF Aside
    <3>2. CASE b \notin acct[k].dumped[r]
      <4>1. InDump(k, r, b)
        BY <1>3, <1>4, <3>2, FixedJob DEF Concerned, SameDumps
      <4>2. r \in InPlan
        BY <1>1, <4>1 DEF InDump, Dumping, Worksheets
      <4>3. wpc'[k] = "load"
        BY <1>3, <4>2
      <4>4. \A l \in Layers : Ahead(k, l)'
        BY <1>3, <4>3, VisitsIs, Fixed DEF Ahead
      <4> QED BY <1>3, <4>1, <4>4, Fixed, FixedJob DEF AccountOf, Secure
    <3> QED BY <3>1, <3>2
  <2>2. Confirmed(k)'
    BY <1>3, <1>4, <1>6, ConfirmedStays DEF StoreOf, SameDumps
  <2>3. Postponed(k)'
    <3>1. CASE wpc'[k] = "wait"
      <4>1. InPlan = {}
        BY <1>3, <3>1
      <4>2. Dumping(k) = {}
        BY <1>1, <4>1 DEF Dumping, Worksheets
      <4> QED BY <1>3, <1>6, <4>2, Fixed, FixedJob DEF Postponed, StoreOf
    <3>2. CASE wpc'[k] # "wait"
      BY <1>3, <1>6, <3>2, Fixed DEF Postponed, StoreOf
    <3> QED BY <3>1, <3>2
  <2> QED BY <2>1, <2>2, <2>3 DEF StoreOf
<1> QED BY <1>5, <1>6

(* start_load_kv and wait_for_layer_load                                    *)
LEMMA LoadFailedIs ==
  ASSUME NEW a, AShape(a), NEW f, NEW g, NEW bs, bs \subseteq Blocks, NEW c, c = LoadFailed(a, f, g, bs)
  PROVE  SameDumps(a, c) /\ c.failed = a.failed
<1>1. c = [a EXCEPT !.loadFailed = @ \union f, !.missReqs = @ \union g, !.missBlocks = @ \union bs]
  BY DEF LoadFailed
<1> QED BY <1>1 DEF AShape, SameDumps

LEMMA LoadStep ==
  ASSUME RankInv, cfg \in Setups, NEW k \in Ranks, Aside(k), LoadKv(k)
  PROVE  RankOf(k)' /\ (StoreOf(k) => StoreOf(k)')
<1>1. RankTyped /\ RankOf(k) /\ Worksheets
  BY DEF RankInv
<1>2. /\ wpc[k] = "load" /\ wpc'[k] = "fwd" /\ pos' = pos /\ pend' = pend /\ deferred' = deferred
      /\ cfg' = cfg /\ job' = job /\ phase' = phase
  BY <1>1 DEF LoadKv, Goto, RankTyped, Aside, srole
<1>3. SameDumps(acct[k], acct'[k]) /\ acct'[k].failed = acct[k].failed
  <2>1. PICK failed, broken : /\ failed \subseteq DOMAIN job
                              /\ acct'[k] = LoadFailed(acct[k], failed, failed \ broken,
                                                UNION {ToSet(job[r].load.ids) : r \in failed \ broken})
    <3>1. Loading(k) \subseteq DOMAIN job
      BY DEF Loading, Asked
    <3>2. PICK absent : absent = {r \in Loading(k) : \E x \in Pairs(cfg, job[r].load, k) :
                                      KeyOf(k, x[1], Visits[pos[k]]) \notin DOMAIN store}
      OBVIOUS
    <3>3. PICK broken \in SUBSET Loading(k) :
            acct'[k] = LoadFailed(acct[k], absent \union broken, (absent \union broken) \ broken,
                          UNION {ToSet(job[r].load.ids) : r \in (absent \union broken) \ broken})
      BY <1>1, <3>2 DEF LoadKv, RankTyped
    <3>4. absent \union broken \subseteq DOMAIN job
      BY <3>1, <3>2
    <3> QED BY <3>3, <3>4
  <2>2. UNION {ToSet(job[r].load.ids) : r \in failed \ broken} \subseteq Blocks
    BY <1>1, <2>1 DEF Worksheets
  <2> QED BY <1>1, <2>1, <2>2, LoadFailedIs DEF RankOf
<1>4. RankOf(k)'
  <2>1. phase' # "sched"
    BY <1>1, <1>2 DEF RankOf
  <2>2. AShape(acct[k])' /\ TasksOf(pend[k])'
    BY <1>1, <1>2, <1>3, ShapeStays DEF SameDumps, RankOf
  <2> QED BY <1>1, <1>2, <2>1, <2>2, Fixed DEF RankOf
<1>5. ASSUME StoreOf(k)  PROVE StoreOf(k)'
  <2>1. Keeps(pend[k], acct[k], pend'[k], acct'[k])
    BY <1>2, <1>3 DEF Keeps, Missed
  <2>2. Accounted(k)'
    <3> SUFFICES ASSUME NEW r \in Requests, NEW b, Concerned(k, r, b)'  PROVE AccountOf(k, r, b)'
      BY <1>2, Fixed DEF Accounted
    <3>1. Concerned(k, r, b)
      BY <1>2, <1>3, FixedJob DEF Concerned, SameDumps
    <3>2. AccountOf(k, r, b)
      BY <1>5, <3>1 DEF StoreOf, Accounted
    <3>3. \A l \in Layers : InDump(k, r, b) /\ Ahead(k, l) => Secure(k, r, b, l)'
      BY <1>2, Fixed, FixedJob DEF Ahead, Secure
    <3> QED BY <1>2, <2>1, <3>2, <3>3, Carried DEF Aside
  <2>3. Confirmed(k)'
    BY <1>2, <1>3, <1>5, ConfirmedStays DEF StoreOf, SameDumps
  <2>4. Postponed(k)'
    BY <1>2, <1>5, Fixed DEF Postponed, StoreOf
  <2> QED BY <2>2, <2>3, <2>4 DEF StoreOf
<1> QED BY <1>4, <1>5

(* save_kv_layer                                                            *)
LEMMA SaveIs ==
  ASSUME RankTyped, NEW k \in Ranks, SaveKvLayer(k)
  PROVE  /\ wpc[k] = "save" /\ cfg' = cfg /\ job' = job /\ phase' = phase /\ rep' = rep
         /\ \/ /\ cfg.lw /\ DumpsAt(k) /\ ~Defers(Visits[pos[k]]) /\ deferred'[k] = deferred[k]
               /\ \E no : /\ acct'[k] = Submitted(k, Visits[pos[k]], acct[k], pend[k], no).acct
                          /\ pend'[k] = Submitted(k, Visits[pos[k]], acct[k], pend[k], no).pend
            \/ /\ ~(cfg.lw /\ DumpsAt(k) /\ ~Defers(Visits[pos[k]]))
               /\ deferred'[k] = (deferred[k] \/ (cfg.lw /\ DumpsAt(k) /\ Dumping(k) # {}))
               /\ acct'[k] = acct[k] /\ pend'[k] = pend[k]
         /\ \/ pos[k] < Len(Visits) /\ wpc'[k] = "load" /\ pos'[k] = pos[k] + 1
            \/ ~(pos[k] < Len(Visits)) /\ wpc'[k] = "wait" /\ pos'[k] = pos[k]
<1>1. wpc[k] = "save" /\ cfg' = cfg /\ job' = job /\ phase' = phase /\ rep' = rep
  BY DEF SaveKvLayer, srole
<1>2. \/ pos[k] < Len(Visits) /\ wpc'[k] = "load" /\ pos'[k] = pos[k] + 1
      \/ ~(pos[k] < Len(Visits)) /\ wpc'[k] = "wait" /\ pos'[k] = pos[k]
  BY DEF SaveKvLayer, Goto, RankTyped
<1>3. \/ /\ cfg.lw /\ DumpsAt(k) /\ ~Defers(Visits[pos[k]]) /\ deferred' = deferred
         /\ \E no : /\ acct'[k] = Submitted(k, Visits[pos[k]], acct[k], pend[k], no).acct
                    /\ pend'[k] = Submitted(k, Visits[pos[k]], acct[k], pend[k], no).pend
      \/ /\ ~(cfg.lw /\ DumpsAt(k) /\ ~Defers(Visits[pos[k]]))
         /\ deferred' = [deferred EXCEPT ![k] = deferred[k] \/ (cfg.lw /\ DumpsAt(k) /\ Dumping(k) # {})]
         /\ acct'[k] = acct[k] /\ pend'[k] = pend[k]
  BY DEF SaveKvLayer, RankTyped
<1>4. deferred' = [deferred EXCEPT ![k] = deferred[k] \/ (cfg.lw /\ DumpsAt(k) /\ Dumping(k) # {})] =>
        deferred'[k] = (deferred[k] \/ (cfg.lw /\ DumpsAt(k) /\ Dumping(k) # {}))
  BY Zenon DEF RankTyped
<1> QED BY <1>1, <1>2, <1>3, <1>4, Zenon

(* After a layer was submitted or put off, the others are still ahead.      *)
LEMMA NextVisit ==
  ASSUME cfg \in Setups, cfg' = cfg, NEW k \in Ranks, pos[k] \in 1..Len(Visits), wpc[k] = "save",
         \/ pos[k] < Len(Visits) /\ wpc'[k] = "load" /\ pos'[k] = pos[k] + 1
         \/ ~(pos[k] < Len(Visits)) /\ wpc'[k] = "wait" /\ pos'[k] = pos[k],
         NEW l \in Layers, Ahead(k, l)
  PROVE  Ahead(k, l)' \/ (Visits[pos[k]] = l /\ ~Defers(l))
<1>1. PICK n \in Nat, q \in Nat : n = Len(Visits) /\ q = pos[k] /\ 1 <= q /\ q <= n
  BY VisitsIs
<1>2. PICK p \in q..n : Visits[p] = l
  BY <1>1 DEF Ahead
<1>3. Visits' = Visits /\ (Defers(l)' <=> Defers(l))
  BY Fixed
<1>4. CASE p # q
  <2>1. q < n /\ p \in (q + 1)..n
    BY <1>1, <1>2, <1>4
  <2>2. wpc'[k] = "load" /\ pos'[k] = q + 1
    BY <1>1, <2>1
  <2> QED BY <1>1, <1>2, <1>3, <2>1, <2>2 DEF Ahead
<1>5. CASE p = q /\ ~Defers(l)
  BY <1>1, <1>2, <1>5
<1>6. CASE p = q /\ Defers(l)
  <2>1. cfg.mtp /\ l = cfg.layers - 1
    BY <1>6 DEF Defers, IsMtpLayer
  <2>2. Visits[n] = l
    BY <1>1, <2>1, VisitsIs
  <2>3. CASE q < n
    <3>1. n \in (q + 1)..n /\ wpc'[k] = "load" /\ pos'[k] = q + 1
      BY <1>1, <2>3
    <3> QED BY <1>1, <1>3, <2>2, <3>1 DEF Ahead
  <2>4. CASE ~(q < n)
    BY <1>1, <1>3, <1>6, <2>4 DEF Ahead
  <2> QED BY <2>3, <2>4
<1> QED BY <1>4, <1>5, <1>6

(* What a step of the account does to a rank between its hooks.             *)
LEMMA SaveStep ==
  ASSUME RankInv, cfg \in Setups, NEW k \in Ranks, Aside(k), SaveKvLayer(k)
  PROVE  RankOf(k)' /\ (StoreOf(k) => StoreOf(k)')
<1> DEFINE l == Visits[pos[k]]
           direct == cfg.lw /\ DumpsAt(k) /\ ~Defers(l)
<1>1. RankTyped /\ RankOf(k) /\ Worksheets
  BY DEF RankInv
<1>2. wpc[k] = "save" /\ cfg' = cfg /\ job' = job /\ phase' = phase /\ rep' = rep
  BY <1>1, SaveIs
<1>3. \/ pos[k] < Len(Visits) /\ wpc'[k] = "load" /\ pos'[k] = pos[k] + 1
      \/ ~(pos[k] < Len(Visits)) /\ wpc'[k] = "wait" /\ pos'[k] = pos[k]
  BY <1>1, SaveIs
<1>4. /\ Keeps(pend[k], acct[k], pend'[k], acct'[k])
      /\ TasksOf(pend'[k]) /\ AShape(acct'[k]) /\ acct'[k].succeeded = acct[k].succeeded
      /\ \A r \in Requests : \A b : b \in acct'[k].dumped[r] => b \in acct[k].dumped[r] \/ InDump(k, r, b)
      /\ \A r \in Requests : \A b : direct /\ InDump(k, r, b) =>
           Missed(pend'[k], acct'[k], r, b) \/ Flies(pend'[k], r, b, l)
  <2>1. CASE direct
    <3>1. PICK no : /\ acct'[k] = Submitted(k, l, acct[k], pend[k], no).acct
                    /\ pend'[k] = Submitted(k, l, acct[k], pend[k], no).pend
      BY <1>1, <2>1, SaveIs
    <3>2. Keeps(pend[k], acct[k], pend'[k], acct'[k]) /\ Launched(k, l, acct[k], pend'[k], acct'[k])
      <4> HIDE DEF l
      <4> QED BY <1>1, <3>1, SubmittedIs DEF RankOf
    <3> HIDE DEF l
    <3>3. cfg.lw /\ DumpsAt(k)
      BY <2>1
    <3>4. \A r \in Requests : \A b : b \in acct'[k].dumped[r] => b \in acct[k].dumped[r] \/ InDump(k, r, b)
      BY <3>2, <3>3 DEF Launched, InDump
    <3> QED BY <3>2, <3>4 DEF Launched
  <2>2. CASE ~direct
    <3>1. acct'[k] = acct[k] /\ pend'[k] = pend[k]
      BY <1>1, <2>2, SaveIs
    <3> HIDE DEF l
    <3> QED BY <1>1, <2>2, <3>1, KeepsSame DEF RankOf
  <2> QED BY <2>1, <2>2
<1>5. pos[k] \in 1..Len(Visits) /\ pos'[k] \in 1..Len(Visits)'
  <2>1. PICK n \in Nat, q \in Nat : n = Len(Visits) /\ q = pos[k] /\ 1 <= q /\ q <= n
    BY <1>1, VisitsIs DEF RankOf
  <2>2. q < n => q + 1 \in 1..n
    OBVIOUS
  <2> QED BY <1>2, <1>3, <2>1, <2>2, Fixed
<1>6. RankOf(k)'
  <2>1. phase' # "sched"
    BY <1>1, <1>2 DEF RankOf
  <2>2. AShape(acct[k])' /\ TasksOf(pend[k])'
    BY <1>2, <1>4, ShapeStays
  <2> QED BY <1>3, <1>5, <2>1, <2>2 DEF RankOf
<1>7. ASSUME StoreOf(k)  PROVE StoreOf(k)'
  <2>1. Accounted(k)'
    <3> SUFFICES ASSUME NEW r \in Requests, NEW b, Concerned(k, r, b)'  PROVE AccountOf(k, r, b)'
      BY <1>2, Fixed DEF Accounted
    <3>1. Concerned(k, r, b)
      BY <1>2, <1>4, FixedJob DEF Concerned
    <3>2. AccountOf(k, r, b)
      BY <1>7, <3>1 DEF StoreOf, Accounted
    <3>3. ASSUME ~Missed(pend'[k], acct'[k], r, b), NEW m \in Layers, InDump(k, r, b), Ahead(k, m)
          PROVE  Secure(k, r, b, m)'
      <4>1. Ahead(k, m)' \/ (l = m /\ ~Defers(m))
        BY <1>2, <1>3, <1>5, <3>3, NextVisit
      <4>2. CASE Ahead(k, m)'
        BY <1>2, <3>3, <4>2, FixedJob DEF Secure
      <4>3. CASE l = m /\ ~Defers(m)
        <5>1. direct
          BY <3>3, <4>3 DEF InDump
        <5>2. Flies(pend'[k], r, b, m)
          BY <1>4, <3>3, <4>3, <5>1
        <5> QED BY <5>2 DEF Secure, Flies, Carries
      <4> QED BY <4>1, <4>2, <4>3
    <3> QED BY <1>2, <1>4, <3>2, <3>3, Carried DEF Aside
  <2>2. Confirmed(k)'
    BY <1>2, <1>3, <1>4, <1>7, ConfirmedStays DEF StoreOf
  <2>3. Postponed(k)'
    <3>1. CASE direct
      <4>1. deferred'[k] = deferred[k]
        BY <1>1, <3>1, SaveIs
      <4>2. ASSUME wpc'[k] = "wait", cfg.mtp  PROVE FALSE
        <5>1. PICK n \in Nat, q \in Nat : n = Len(Visits) /\ q = pos[k] /\ 1 <= q /\ q <= n
          BY <1>5, VisitsIs
        <5>2. ~(q < n)
          BY <1>3, <4>2, <5>1
        <5>3. q = n
          BY <5>1, <5>2
        <5>4. l = cfg.layers - 1
          BY <4>2, <5>1, <5>3, VisitsIs
        <5>5. Defers(l)
          BY <4>2, <5>4 DEF Defers, IsMtpLayer
        <5> QED BY <3>1, <5>5
      <4> HIDE DEF direct
      <4> QED BY <1>2, <1>7, <4>1, <4>2, Fixed DEF Postponed, StoreOf
    <3>2. CASE ~direct
      <4>1. deferred'[k] = (deferred[k] \/ (cfg.lw /\ DumpsAt(k) /\ Dumping(k) # {}))
        BY <1>1, <3>2, SaveIs
      <4> HIDE DEF direct
      <4>2. (DumpsAt(k)' <=> DumpsAt(k)) /\ Dumping(k)' = Dumping(k)
        BY <1>2, Fixed, FixedJob
      <4> QED BY <1>2, <1>7, <4>1, <4>2, Zenon DEF Postponed, StoreOf
    <3> QED BY <3>1, <3>2
  <2> QED BY <2>1, <2>2, <2>3 DEF StoreOf
<1> QED BY <1>6, <1>7

(* wait_for_save                                                            *)
LEMMA WaitStep ==
  ASSUME RankInv, cfg \in Setups, NEW k \in Ranks, Aside(k), WaitForSave(k)
  PROVE  RankOf(k)' /\ (StoreOf(k) => StoreOf(k)')
<1> DEFINE l == cfg.layers - 1
<1>1. RankTyped /\ RankOf(k) /\ Worksheets
  BY DEF RankInv
<1>2. PICK gone : gone = {t \in ToSet(pend[k]) : Settled(t)}
  OBVIOUS
<1>3. PICK a, p : a = Waited(gone, acct[k]) /\ p = Without(pend[k], gone)
  OBVIOUS
<1>4. /\ wpc[k] = "wait" /\ wpc'[k] = "fin" /\ deferred'[k] = FALSE /\ rep' = rep /\ pos' = pos
      /\ cfg' = cfg /\ job' = job /\ phase' = phase
  BY <1>1 DEF WaitForSave, Goto, RankTyped, srole
<1>5. \/ /\ SubmitsLate(k)
         /\ \E no : /\ acct'[k] = Submitted(k, l, a, p, no).acct
                    /\ pend'[k] = Submitted(k, l, a, p, no).pend
      \/ ~SubmitsLate(k) /\ acct'[k] = a /\ pend'[k] = p
  <2>1. \E no : LET done == IF SubmitsLate(k) THEN Submitted(k, l, a, p, no) ELSE [acct |-> a, pend |-> p]
                IN  acct'[k] = done.acct /\ pend'[k] = done.pend
    BY <1>1, <1>2, <1>3 DEF WaitForSave, RankTyped
  <2> QED BY <2>1
<1> HIDE DEF l
<1>6. Keeps(pend[k], acct[k], p, a) /\ SameDumps(acct[k], a) /\ TasksOf(p)
  <2>1. gone \subseteq ToSet(pend[k]) /\ \A t \in gone : Settled(t)
    BY <1>2
  <2> QED BY <1>1, <1>3, <2>1, CollectIs DEF RankOf
<1>7. /\ Keeps(pend[k], acct[k], pend'[k], acct'[k])
      /\ TasksOf(pend'[k]) /\ AShape(acct'[k]) /\ acct'[k].succeeded = acct[k].succeeded
  <2>1. Keeps(p, a, pend'[k], acct'[k]) /\ TasksOf(pend'[k]) /\ AShape(acct'[k]) /\ acct'[k].succeeded = a.succeeded
    <3>1. CASE SubmitsLate(k)
      <4>1. PICK no : /\ acct'[k] = Submitted(k, l, a, p, no).acct
                      /\ pend'[k] = Submitted(k, l, a, p, no).pend
        BY <1>5, <3>1
      <4>2. Keeps(p, a, pend'[k], acct'[k]) /\ Launched(k, l, a, pend'[k], acct'[k])
        BY <1>6, <4>1, SubmittedIs DEF SameDumps
      <4> QED BY <4>2 DEF Launched
    <3>2. CASE ~SubmitsLate(k)
      BY <1>5, <1>6, <3>2, KeepsSame DEF SameDumps
    <3> QED BY <3>1, <3>2
  <2>2. Keeps(pend[k], acct[k], pend'[k], acct'[k])
    BY <1>6, <2>1 DEF Keeps
  <2> QED BY <1>6, <2>1, <2>2 DEF SameDumps
<1>8. SubmitsLate(k) => Launched(k, l, a, pend'[k], acct'[k])
  <2> SUFFICES ASSUME SubmitsLate(k)  PROVE Launched(k, l, a, pend'[k], acct'[k])
    OBVIOUS
  <2>1. PICK no : /\ acct'[k] = Submitted(k, l, a, p, no).acct
                  /\ pend'[k] = Submitted(k, l, a, p, no).pend
    BY <1>5
  <2> QED BY <1>6, <2>1, SubmittedIs DEF SameDumps
<1>9. RankOf(k)'
  <2>1. phase' # "sched"
    BY <1>1, <1>4 DEF RankOf
  <2>2. AShape(acct[k])' /\ TasksOf(pend[k])'
    BY <1>4, <1>7, ShapeStays
  <2> QED BY <1>1, <1>4, <2>1, <2>2, Fixed DEF RankOf
<1>10. ASSUME StoreOf(k)  PROVE StoreOf(k)'
  <2>1. Accounted(k)'
    <3> SUFFICES ASSUME NEW r \in Requests, NEW b, Concerned(k, r, b)'  PROVE AccountOf(k, r, b)'
      BY <1>4, Fixed DEF Accounted
    <3>1. b \in acct'[k].dumped[r]
      BY <1>4 DEF Concerned
    <3>2. CASE ~cfg.lw /\ b \notin acct[k].dumped[r]
      <4>1. b \notin a.dumped[r]
        BY <1>6, <3>2 DEF SameDumps
      <4>2. SubmitsLate(k)
        BY <1>5, <3>1, <4>1
      <4>3. Missed(pend'[k], acct'[k], r, b) \/ Flies(pend'[k], r, b, l)
        BY <1>8, <3>1, <4>1, <4>2 DEF Launched
      <4>4. \A m \in Layers : m = l
        <5>1. cfg.layers = 1
          BY <3>2, SetupAssumption
        <5>2. l = 0 /\ \A m \in 0..0 : m = 0
          BY <5>1 DEF l
        <5> QED BY <5>1, <5>2 DEF Layers
      <4> QED BY <1>4, <4>3, <4>4, Fixed DEF AccountOf, Secure, Missed, Flies, Carries
    <3>3. CASE cfg.lw \/ b \in acct[k].dumped[r]
      <4>1. Concerned(k, r, b)
        <5>1. CASE b \in acct[k].dumped[r]
          BY <5>1 DEF Concerned
        <5>2. CASE b \notin acct[k].dumped[r]
          <6>1. b \notin a.dumped[r] /\ cfg.lw
            BY <1>6, <3>3, <5>2 DEF SameDumps
          <6>2. SubmitsLate(k)
            BY <1>5, <3>1, <6>1
          <6>3. DumpsAt(k)
            BY <1>10, <6>1, <6>2 DEF SubmitsLate, StoreOf, Postponed
          <6>4. cfg.cm /\ r \in Dumping(k) /\ b \in ToSet(RankIds(cfg, job[r].dump.ids, k))
            BY <1>8, <3>1, <6>1, <6>2 DEF Launched
          <6> QED BY <1>4, <6>1, <6>3, <6>4 DEF Concerned, InDump
        <5> QED BY <5>1, <5>2
      <4>2. AccountOf(k, r, b)
        BY <1>10, <4>1 DEF StoreOf, Accounted
      <4>3. ASSUME ~Missed(pend'[k], acct'[k], r, b), NEW m \in Layers, InDump(k, r, b), Ahead(k, m)
            PROVE  Secure(k, r, b, m)'
        <5>1. cfg.mtp /\ m = l /\ cfg.lw /\ DumpsAt(k) /\ Dumping(k) # {}
          BY <1>4, <4>3 DEF Ahead, Defers, IsMtpLayer, InDump, l
        <5>2. SubmitsLate(k)
          BY <1>4, <1>10, <5>1 DEF SubmitsLate, StoreOf, Postponed
        <5>3. Flies(pend'[k], r, b, m)
          BY <1>8, <4>3, <5>1, <5>2 DEF Launched
        <5> QED BY <5>3 DEF Secure, Flies, Carries
      <4> QED BY <1>4, <1>7, <4>2, <4>3, Carried DEF Aside
    <3> QED BY <3>2, <3>3
  <2>2. Confirmed(k)'
    BY <1>4, <1>7, <1>10, ConfirmedStays DEF StoreOf
  <2>3. Postponed(k)'
    BY <1>4 DEF Postponed
  <2> QED BY <2>1, <2>2, <2>3 DEF StoreOf
<1> QED BY <1>9, <1>10

(* get_finished                                                             *)
Finished(a, fin, c) ==
  /\ AShape(c)
  /\ \A r \in Requests : /\ r \in fin => c.dumped[r] = {}
                         /\ r \notin fin => c.dumped[r] = a.dumped[r] /\ c.failed[r] = a.failed[r]
  /\ \A b \in c.succeeded : b \in a.succeeded \/ \E r \in fin : b \in a.dumped[r] \ a.failed[r]

LEMMA FinishDumpIs ==
  ASSUME NEW a, AShape(a), NEW fin, NEW c, c = FinishDump(a, fin)
  PROVE  Finished(a, fin, c)
<1> DEFINE new == UNION {a.dumped[r] \ a.failed[r] : r \in fin}
<1>1. c = [a EXCEPT !.succeeded = @ \union new,
                    !.dumped = [r \in Requests |-> IF r \in fin THEN {} ELSE a.dumped[r]],
                    !.failed = [r \in Requests |-> IF r \in fin THEN {} ELSE a.failed[r]]]
  BY DEF FinishDump, AShape
<1>2. \A b \in new : \E r \in fin : b \in a.dumped[r] \ a.failed[r]
  OBVIOUS
<1> HIDE DEF new
<1>3. c.succeeded = a.succeeded \union new /\ AShape(c)
  BY <1>1 DEF AShape
<1>4. \A r \in Requests : /\ r \in fin => c.dumped[r] = {}
                          /\ r \notin fin => c.dumped[r] = a.dumped[r] /\ c.failed[r] = a.failed[r]
  BY <1>1 DEF AShape
<1> QED BY <1>2, <1>3, <1>4 DEF Finished

LEMMA ReportedIs ==
  ASSUME NEW a, AShape(a), NEW c, c = Reported(a)
  PROVE  AShape(c) /\ c.dumped = a.dumped /\ c.failed = a.failed /\ c.succeeded = {}
<1>1. c = [a EXCEPT !.loadFailed = {}, !.missReqs = {}, !.missBlocks = {}, !.succeeded = {}]
  BY DEF Reported
<1> QED BY <1>1 DEF AShape

LEMMA FinishStep ==
  ASSUME RankInv, cfg \in Setups, NEW k \in Ranks, Aside(k), GetFinished(k)
  PROVE  RankOf(k)' /\ (StoreOf(k) => StoreOf(k)')
<1>1. RankTyped /\ RankOf(k) /\ Worksheets
  BY DEF RankInv
<1>2. PICK fin : fin = plan.fin \intersect wasync[k]
  OBVIOUS
<1>3. PICK gone : gone = Flushed(k, fin)
  OBVIOUS
<1>4. PICK a : a = Waited(gone, acct[k])
  OBVIOUS
<1>5. PICK c : c = FinishDump(a, fin)
  OBVIOUS
<1>6. /\ wpc[k] = "fin" /\ (\A t \in gone : Settled(t)) /\ wpc'[k] = "out" /\ deferred' = deferred /\ pos' = pos
      /\ cfg' = cfg /\ job' = job /\ phase' = phase
      /\ pend'[k] = Without(pend[k], gone) /\ acct'[k] = Reported(c) /\ rep'[k] = Report(k, fin, c)
  BY <1>1, <1>2, <1>3, <1>4, <1>5 DEF GetFinished, Goto, RankTyped, srole
<1>7. Keeps(pend[k], acct[k], pend'[k], a) /\ SameDumps(acct[k], a) /\ TasksOf(pend'[k])
  <2>1. gone \subseteq ToSet(pend[k])
    BY <1>3 DEF Flushed
  <2> QED BY <1>1, <1>4, <1>6, <2>1, CollectIs DEF RankOf
<1>8. Finished(a, fin, c)
  BY <1>5, <1>7, FinishDumpIs DEF SameDumps
<1>9. AShape(acct'[k]) /\ acct'[k].dumped = c.dumped /\ acct'[k].failed = c.failed /\ acct'[k].succeeded = {}
  BY <1>6, <1>8, ReportedIs DEF Finished
<1>10. /\ rep'[k].meta.missBlocks \subseteq Blocks
       /\ rep'[k].meta.succeeded \subseteq c.succeeded
  <2>1. PICK x : x = WorkerMeta(c, cfg.cm)
    OBVIOUS
  <2>2. x.missBlocks = (IF cfg.cm THEN c.missBlocks ELSE {}) /\ x.succeeded = (IF cfg.cm THEN c.succeeded ELSE {})
    BY <2>1 DEF WorkerMeta
  <2>3. rep'[k].meta = x
    BY <1>6, <2>1 DEF Report
  <2> QED BY <1>8, <2>2, <2>3 DEF Finished, AShape
<1>11. RankOf(k)'
  <2>1. phase' # "sched"
    BY <1>1, <1>6 DEF RankOf
  <2>2. AShape(acct[k])' /\ TasksOf(pend[k])'
    BY <1>6, <1>7, <1>9, ShapeStays
  <2> QED BY <1>1, <1>6, <1>10, <2>1, <2>2, Fixed DEF RankOf
<1>12. ASSUME StoreOf(k)  PROVE StoreOf(k)'
  <2>1. \A r : \A b : \A l : ~(InDump(k, r, b) /\ Ahead(k, l))
    BY <1>6 DEF Ahead
  <2>2. Accounted(k)'
    <3> SUFFICES ASSUME NEW r \in Requests, NEW b, Concerned(k, r, b)'  PROVE AccountOf(k, r, b)'
      BY <1>6, Fixed DEF Accounted
    <3>1. b \in acct'[k].dumped[r]
      BY <1>6 DEF Concerned
    <3>2. r \notin fin /\ c.dumped[r] = a.dumped[r] /\ c.failed[r] = a.failed[r]
      BY <1>8, <1>9, <3>1 DEF Finished
    <3>3. Concerned(k, r, b)
      BY <1>7, <1>9, <3>1, <3>2 DEF Concerned, SameDumps
    <3>4. AccountOf(k, r, b)
      BY <1>12, <3>3 DEF StoreOf, Accounted
    <3>5. CASE Missed(pend[k], acct[k], r, b)
      <4>1. Missed(pend'[k], a, r, b)
        BY <1>7, <3>5 DEF Keeps
      <4>2. Missed(pend'[k], acct'[k], r, b)
        BY <1>9, <3>2, <4>1 DEF Missed
      <4> QED BY <4>2 DEF AccountOf, Missed, Carries
    <3>6. CASE \A l \in Layers : Secure(k, r, b, l)
      <4> SUFFICES ASSUME NEW l \in Layers  PROVE Secure(k, r, b, l)'
        BY <1>6, Fixed DEF AccountOf
      <4>1. KeyOf(k, b, l) \in DOMAIN store \/ Flies(pend[k], r, b, l)
        BY <2>1, <3>6 DEF Secure
      <4>2. KeyOf(k, b, l)' \in DOMAIN store' \/ Flies(pend'[k], r, b, l)
        BY <1>6, <1>7, <4>1, Fixed DEF Keeps, Aside
      <4> QED BY <4>2 DEF Secure, Flies, Carries
    <3> QED BY <3>4, <3>5, <3>6 DEF AccountOf
  <2>3. Confirmed(k)'
    <3>1. ASSUME NEW b \in c.succeeded  PROVE Stored(k, b)
      <4>1. b \in acct[k].succeeded \/ \E r \in fin : b \in a.dumped[r] \ a.failed[r]
        BY <1>7, <1>8 DEF Finished, SameDumps
      <4>2. CASE b \in acct[k].succeeded
        BY <1>12, <4>2 DEF StoreOf, Confirmed
      <4>3. CASE \E r \in fin : b \in a.dumped[r] \ a.failed[r]
        <5>1. PICK r \in fin : b \in a.dumped[r] \ a.failed[r]
          BY <4>3
        <5>2. r \in Requests
          BY <1>1, <1>2 DEF RankTyped
        <5>3. AccountOf(k, r, b)
          BY <1>7, <1>12, <5>1, <5>2 DEF SameDumps, StoreOf, Accounted, Concerned
        <5>4. ASSUME NEW i \in DOMAIN pend'[k]  PROVE ~Carries(pend'[k][i], r, b)
          <6>1. i \in DOMAIN pend[k] /\ pend'[k][i] = pend[k][i] /\ pend[k][i] \notin gone
            BY <1>1, <1>6, WithoutIs DEF RankOf
          <6>2. pend[k][i] \in ToSet(pend[k])
            BY <6>1 DEF ToSet
          <6>3. pend[k][i].reqs \intersect fin = {}
            BY <1>3, <6>1, <6>2 DEF Flushed
          <6>4. TaskOf(pend[k][i])
            BY <1>1, <6>1 DEF RankOf, TasksOf
          <6> QED BY <6>1, <6>3, <6>4 DEF TaskOf, Carries
        <5>5. ~Missed(pend[k], acct[k], r, b)
          <6>1. ~Missed(pend'[k], a, r, b)
            BY <5>1, <5>4 DEF Missed
          <6> QED BY <1>7, <5>2, <6>1 DEF Keeps
        <5>6. ASSUME NEW l \in Layers  PROVE KeyOf(k, b, l) \in DOMAIN store
          <6>1. ~Flies(pend[k], r, b, l)
            <7>1. ~Flies(pend'[k], r, b, l)
              BY <5>4 DEF Flies
            <7> QED BY <1>7, <5>2, <7>1 DEF Keeps
          <6>2. Secure(k, r, b, l)
            BY <5>3, <5>5 DEF AccountOf
          <6> QED BY <2>1, <6>1, <6>2 DEF Secure
        <5> QED BY <5>6 DEF Stored
      <4> QED BY <4>1, <4>2, <4>3
    <3>2. \A b : Stored(k, b) => Stored(k, b)'
      BY <1>6, Fixed DEF Stored, Aside
    <3> QED BY <1>9, <1>10, <3>1, <3>2 DEF Confirmed
  <2>4. Postponed(k)'
    BY <1>6, <1>12, Fixed DEF Postponed, StoreOf
  <2> QED BY <2>2, <2>3, <2>4 DEF StoreOf
<1> QED BY <1>11, <1>12

(* Dumps land or fail.                                                      *)
LEMMA SettleStep ==
  ASSUME RankInv, NEW k \in Ranks, Aside(k), Settle(k)
  PROVE  RankOf(k)' /\ (StoreOf(k) => StoreOf(k)')
<1>1. RankTyped /\ RankOf(k) /\ TasksOf(pend[k])
  BY DEF RankInv, RankOf
<1>2. PICK i \in DOMAIN pend[k], st \in {"ok", "fail"} :
        /\ pend' = [pend EXCEPT ![k][i].st = st] /\ pend[k][i].st = "flying"
        /\ st = "ok" => store' = Landed(k, pend[k][i], pend[k][i].cells)
  <2>1. PICK i \in DOMAIN pend[k] : DumpLand(k, i) \/ DumpFail(k, i)
    BY DEF Settle
  <2>2. CASE DumpLand(k, i)
    BY <2>2 DEF DumpLand, Settled
  <2>3. CASE DumpFail(k, i)
    BY <2>3 DEF DumpFail, Settled
  <2> QED BY <2>1, <2>2, <2>3
<1>3. PICK t, u, p : t = pend[k][i] /\ u = [t EXCEPT !.st = st] /\ p = [pend[k] EXCEPT ![i] = u]
  OBVIOUS
<1>4. pend'[k] = p
  BY <1>1, <1>2, <1>3 DEF RankTyped
<1>5. /\ TaskOf(t) /\ TaskOf(u) /\ u.st = st /\ u.ctx = t.ctx /\ u.layer = t.layer
  <2>1. TaskOf(t)
    BY <1>1, <1>3 DEF TasksOf
  <2> QED BY <1>2, <1>3, <2>1 DEF TaskOf
<1>6. DOMAIN p = DOMAIN pend[k] /\ p[i] = u /\ \A j \in DOMAIN p : j # i => p[j] = pend[k][j]
  BY <1>3
<1>7. TasksOf(p)
  BY <1>1, <1>5, <1>6 DEF TasksOf
<1>8. /\ cfg' = cfg /\ job' = job /\ phase' = phase /\ wpc' = wpc /\ pos' = pos /\ acct' = acct /\ rep' = rep
      /\ deferred' = deferred /\ DOMAIN store \subseteq DOMAIN store'
  <2>1. PICK j \in DOMAIN pend[k] : DumpLand(k, j) \/ DumpFail(k, j)
    BY DEF Settle
  <2> QED BY <2>1 DEF DumpLand, DumpFail, Aside, srole
<1>9. RankOf(k)'
  <2>1. AShape(acct[k])' /\ TasksOf(pend[k])'
    BY <1>1, <1>4, <1>7, <1>8, ShapeStays DEF RankOf
  <2> QED BY <1>1, <1>8, <2>1, Fixed DEF RankOf
<1>10. ASSUME StoreOf(k)  PROVE StoreOf(k)'
  <2>1. \A r \in Requests : \A b : Missed(pend[k], acct[k], r, b) => Missed(p, acct[k], r, b)
    <3> SUFFICES ASSUME NEW r \in Requests, NEW b, Missed(pend[k], acct[k], r, b)  PROVE Missed(p, acct[k], r, b)
      OBVIOUS
    <3>1. CASE \E j \in DOMAIN pend[k] : pend[k][j].st = "fail" /\ Carries(pend[k][j], r, b)
      <4>1. PICK j \in DOMAIN pend[k] : pend[k][j].st = "fail" /\ Carries(pend[k][j], r, b)
        BY <3>1
      <4>2. j # i
        BY <1>2, <4>1
      <4> QED BY <1>6, <4>1, <4>2 DEF Missed
    <3> QED BY <3>1 DEF Missed
  <2>2. ASSUME NEW r \in Requests, NEW b, NEW l, Flies(pend[k], r, b, l)
        PROVE  Flies(p, r, b, l) \/ (i \in DOMAIN pend[k] /\ t.layer = l /\ Carries(t, r, b))
    <3>1. PICK j \in DOMAIN pend[k] : pend[k][j].st = "flying" /\ pend[k][j].layer = l /\ Carries(pend[k][j], r, b)
      BY <2>2 DEF Flies
    <3>2. CASE j = i
      BY <1>3, <3>1, <3>2
    <3>3. CASE j # i
      BY <1>6, <3>1, <3>3 DEF Flies
    <3> QED BY <3>2, <3>3
  <2>3. Accounted(k)'
    <3> SUFFICES ASSUME NEW r \in Requests, NEW b, Concerned(k, r, b)'  PROVE AccountOf(k, r, b)'
      BY <1>8, Fixed DEF Accounted
    <3>1. Concerned(k, r, b)
      BY <1>8, FixedJob DEF Concerned
    <3>2. AccountOf(k, r, b)
      BY <1>10, <3>1 DEF StoreOf, Accounted
    <3>3. CASE Missed(p, acct[k], r, b)
      BY <1>4, <1>8, <3>3 DEF AccountOf, Missed, Carries
    <3>4. CASE ~Missed(p, acct[k], r, b)
      <4> SUFFICES ASSUME NEW l \in Layers  PROVE Secure(k, r, b, l)'
        BY <1>8, Fixed DEF AccountOf
      <4>1. Secure(k, r, b, l)
        BY <2>1, <3>2, <3>4 DEF AccountOf
      <4>2. CASE KeyOf(k, b, l) \in DOMAIN store
        <5>1. KeyOf(k, b, l)' \in DOMAIN store'
          BY <1>8, <4>2, Fixed
        <5> QED BY <5>1 DEF Secure
      <4>3. CASE InDump(k, r, b) /\ Ahead(k, l)
        <5>1. InDump(k, r, b)' /\ Ahead(k, l)'
          BY <1>8, <4>3, Fixed, FixedJob DEF Ahead
        <5> QED BY <5>1 DEF Secure
      <4>4. CASE Flies(p, r, b, l)
        BY <1>4, <4>4 DEF Secure, Flies, Carries
      <4>5. CASE t.layer = l /\ Carries(t, r, b)
        <5>1. st # "fail"
          <6>1. u.st = "fail" /\ Carries(u, r, b) => Missed(p, acct[k], r, b)
            BY <1>6 DEF Missed
          <6> QED BY <1>5, <3>4, <4>5, <6>1 DEF Carries
        <5>2. store' = Landed(k, t, t.cells)
          BY <1>2, <1>3, <5>1
        <5>3. PICK x \in t.cells : x[1] = b
          BY <1>5, <4>5 DEF TaskOf, Carries
        <5>4. KeyOf(k, b, l) \in DOMAIN store'
          BY <4>5, <5>2, <5>3, LandedIs
        <5>5. KeyOf(k, b, l)' \in DOMAIN store'
          BY <1>8, <5>4, Fixed
        <5> QED BY <5>5 DEF Secure
      <4> QED BY <2>2, <4>1, <4>2, <4>3, <4>4, <4>5 DEF Secure
    <3> QED BY <3>3, <3>4
  <2>4. Confirmed(k)'
    BY <1>8, <1>10, ConfirmedStays DEF StoreOf
  <2>5. Postponed(k)'
    BY <1>8, <1>10, Fixed, FixedJob DEF Postponed, StoreOf
  <2> QED BY <2>3, <2>4, <2>5 DEF StoreOf
<1> QED BY <1>9, <1>10

LEMMA WorkerClear ==
  ASSUME RankInv, cfg \in Setups, NEW k \in Ranks, WorkerStep(k) \/ Settle(k)
  PROVE  RankInv' /\ ((\A j \in Ranks : StoreOf(j)) => (\A j \in Ranks : StoreOf(j))')
<1>1. Aside(k)
  BY AsideIs DEF RankInv
<1>2. RankOf(k)' /\ (StoreOf(k) => StoreOf(k)')
  BY <1>1, HandleStep, LoadStep, SaveStep, WaitStep, FinishStep, SettleStep DEF WorkerStep
<1>3. RankInv'
  BY <1>1, <1>2, AsideRank
<1>4. ASSUME \A j \in Ranks : StoreOf(j)  PROVE (\A j \in Ranks : StoreOf(j))'
  BY <1>1, <1>2, <1>4, AsideStore
<1> QED BY <1>3, <1>4

(* The forward moves all ranks on.                                          *)
LEMMA ForwardClear ==
  ASSUME RankInv, Forward
  PROVE  RankInv' /\ ((\A j \in Ranks : StoreOf(j)) => (\A j \in Ranks : StoreOf(j))')
<1>1. /\ cfg' = cfg /\ phase' = phase /\ job' = job /\ plan' = plan /\ marks' = marks /\ store' = store
      /\ pend' = pend /\ acct' = acct /\ pos' = pos /\ deferred' = deferred /\ rep' = rep /\ wasync' = wasync
      /\ \A k \in Ranks : wpc[k] = "fwd" /\ wpc'[k] = "save"
      /\ DOMAIN wpc' = Ranks
  BY DEF Forward, srole
<1>2. Ranks' = Ranks /\ Blocks' = Blocks /\ Requests' = Requests
  BY <1>1, Fixed
<1>3. RankTyped' /\ Worksheets'
  <2>1. RankTyped'
    BY <1>1, <1>2 DEF RankInv, RankTyped
  <2>2. Worksheets'
    BY <1>1, WorksheetsStay DEF RankInv, InPlan
  <2> QED BY <2>1, <2>2
<1>4. ASSUME NEW k \in Ranks  PROVE RankOf(k)'
  <2>1. RankOf(k)
    BY DEF RankInv
  <2>2. AShape(acct[k])' /\ TasksOf(pend[k])'
    BY <1>1, <2>1, ShapeStays DEF RankOf
  <2> QED BY <1>1, <2>1, <2>2, Fixed DEF RankOf
<1>5. ASSUME NEW k \in Ranks, StoreOf(k)  PROVE StoreOf(k)'
  <2>1. Accounted(k)'
    <3> SUFFICES ASSUME NEW r \in Requests, NEW b, Concerned(k, r, b)'  PROVE AccountOf(k, r, b)'
      BY <1>2 DEF Accounted
    <3>1. Concerned(k, r, b)
      BY <1>1, FixedJob DEF Concerned
    <3>2. AccountOf(k, r, b)
      BY <1>5, <3>1 DEF StoreOf, Accounted
    <3>3. \A l \in Layers : InDump(k, r, b) /\ Ahead(k, l) => Secure(k, r, b, l)'
      BY <1>1, Fixed, FixedJob DEF Ahead, Secure
    <3>4. Keeps(pend[k], acct[k], pend'[k], acct'[k])
      BY <1>1, KeepsSame
    <3> QED BY <1>1, <3>2, <3>3, <3>4, Carried
  <2>2. Confirmed(k)'
    BY <1>1, <1>5, Fixed DEF StoreOf, Confirmed, Stored
  <2>3. Postponed(k)'
    BY <1>1, <1>5, Fixed DEF StoreOf, Postponed
  <2> QED BY <2>1, <2>2, <2>3 DEF StoreOf
<1> QED BY <1>1, <1>2, <1>3, <1>4, <1>5 DEF RankInv

(* build_connector_meta: hashes of a request's own blocks.                  *)
LEMMA ToSetIs ==
  ASSUME NEW s, IsSeq(s), NEW S, ToSet(s) \subseteq S
  PROVE  s \in Seq(S)
<1>1. PICK n \in Nat : n = Len(s)
  BY DEF IsSeq
<1>2. s = [i \in 1..n |-> s[i]]
  BY <1>1, Zenon DEF IsSeq
<1>3. \A i \in 1..n : s[i] \in S
  BY <1>2 DEF ToSet
<1>4. [i \in 1..n |-> s[i]] \in Seq(S)
  BY <1>3
<1> QED BY <1>2, <1>4, Zenon

LEMMA SliceWithin ==
  ASSUME NEW S, NEW s \in Seq(S), NEW a \in Nat, NEW b \in Nat
  PROVE  ToSet(Slice(s, a, b)) \subseteq S
<1>1. PICK l \in Nat : l = Len(s)
  OBVIOUS
<1>2. PICK e \in Nat : e = (IF b <= l THEN b ELSE l) /\ e <= l
  OBVIOUS
<1>3. Slice(s, a, b) = SubSeq(s, a + 1, e)
  BY <1>1, <1>2, MinOfTwo DEF Slice
<1>4. SubSeq(s, a + 1, e) \in Seq(S)
  BY <1>1, <1>2
<1>5. PICK t \in Seq(S) : t = Slice(s, a, b)
  BY <1>3, <1>4
<1>6. DOMAIN t = 1..Len(t) /\ \A i \in 1..Len(t) : t[i] \in S
  OBVIOUS
<1> QED BY <1>5, <1>6 DEF ToSet

(* What build_connector_meta hands to the ranks for a request.              *)
Sheet(x) == IsSeq(x.dump.ids) /\ IsSeq(x.load.ids) /\ ToSet(x.load.ids) \subseteq Blocks

LEMMA SheetIs ==
  ASSUME MetaInv, phase = "sched", NEW r \in Known
  PROVE  Sheet(D(r))
<1>1. r \in Requests /\ r \in DOMAIN meta /\ plan.n[r] \in Nat
  BY DispatchOne
<1>2. MetaOf(r, meta[r]) /\ cfg \in Setups /\ ntok[r] \in Nat /\ ntok[r] <= cfg.max[r]
  BY <1>1 DEF MetaInv, Metas, Typed, ReqTyped
<1> DEFINE m == meta[r]
           ids == SubSeq(cfg.chain[r], 1, m.nids)
<1>3. IsSeq(ids) /\ ids \in Seq(Blocks)
  <2>1. m.ntok \in Nat /\ m.ntok <= cfg.max[r] /\ m.nids = NumHashes(cfg, m.ntok)
    <3>1. PICK x \in Nat, y \in Nat, z \in Nat : x = m.ntok /\ y = ntok[r] /\ z = cfg.max[r] /\ x <= y /\ y <= z
      BY <1>1, <1>2, Prompts DEF MetaOf
    <3> QED BY <1>2, <3>1 DEF MetaOf, NumHashes
  <2>2. IsSeq(ids) /\ Len(ids) = m.nids /\ m.nids \in Nat
    BY <1>1, <1>2, <2>1, HashesIs
  <2>3. cfg.chain[r] \in Seq(Blocks)
    <3>1. ToSet(cfg.chain[r]) \subseteq Blocks
      BY <1>1 DEF Blocks, AllBlocks, Requests
    <3> QED BY <1>1, <1>2, <3>1, Prompts, ToSetIs
  <2>4. m.nids <= Len(cfg.chain[r])
    <3>1. PICK q \in Nat, w \in Nat, h \in Nat : q = m.ntok /\ w = cfg.max[r] /\ h = cfg.hbs /\ h >= 1 /\ q <= w
      BY <1>1, <1>2, <2>1, Prompts, Sizes
    <3>2. PICK c \in Nat : c = Len(cfg.chain[r])
      BY <2>3
    <3>3. PICK i \in Nat, j \in Nat : i = q \div h /\ j = w \div h /\ i * h <= q
      BY <3>1, DivIs
    <3>4. i * h <= w
      <4>1. PICK y \in Nat : y = i * h
        BY <3>1, MulNat
      <4> QED BY <3>1, <3>3, <4>1
    <3>5. i <= j
      BY <3>1, <3>3, <3>4, DivLe
    <3>6. j <= c
      BY <1>1, <1>2, <3>1, <3>2, <3>3, Prompts DEF NumHashes
    <3> QED BY <2>1, <3>1, <3>2, <3>3, <3>5, <3>6 DEF NumHashes
  <2>5. ids \in Seq(Blocks)
    <3>1. PICK x \in Nat, y \in Nat : x = m.nids /\ y = Len(cfg.chain[r]) /\ x <= y
      BY <2>2, <2>3, <2>4
    <3> QED BY <2>3, <3>1
  <2> QED BY <2>2, <2>5
<1> HIDE DEF ids
<1>4. PICK d : d = DispatchMeta(cfg, m, ids, plan.n[r], plan.vb[r], r \in plan.load)
  OBVIOUS
<1>5. PICK p \in Nat, h \in Nat, t \in Nat, k \in Nat, n \in Nat, b \in Nat :
        /\ p = cfg.cp /\ h = m.hbm /\ t = m.total /\ k = m.done /\ n = plan.n[r] /\ b = BlockTokens(cfg) /\ b >= 1
  <2>1. m.hbm \in Nat /\ m.total \in Nat /\ m.done \in Nat
    BY <1>2 DEF MetaOf
  <2>2. cfg.cp \in Nat /\ BlockTokens(cfg) \in Nat /\ BlockTokens(cfg) >= 1
    BY <1>2, Sizes DEF BS
  <2> HIDE DEF m
  <2> QED BY <1>1, <2>1, <2>2
<1>6. PICK s \in Nat, e \in Nat : s = k \div b /\ e = (k + n) \div b
  <2>1. k + n \in Nat /\ b \in Nat /\ b >= 1
    BY <1>5
  <2>2. k \div b \in Nat /\ (k + n) \div b \in Nat
    BY <2>1, DivIs
  <2> QED BY <2>2
<1>7. PICK w \in Nat, x \in Nat, y \in Nat, z \in Nat : w = h * p /\ x = t * p /\ y = s * p /\ z = e * p
  <2>1. h * p \in Nat /\ t * p \in Nat /\ s * p \in Nat /\ e * p \in Nat
    BY MulNat
  <2> QED BY <2>1, Zenon
<1>8. /\ d.load.ids = (IF r \in plan.load THEN Slice(ids, w, x) ELSE <<>>)
      /\ d.dump.ids = (IF k < m.ntok THEN Slice(ids, y, z) ELSE <<>>)
  <2>1. d.load = (IF r \in plan.load THEN [ids |-> Slice(ids, w, x), vb |-> Slice(plan.vb[r], h, t)]
                  ELSE [ids |-> <<>>, vb |-> <<>>])
    BY <1>4, <1>5, <1>7 DEF DispatchMeta
  <2>2. d.dump.ids = (IF k < m.ntok THEN Slice(ids, y, z) ELSE <<>>)
    BY <1>4, <1>5, <1>6, <1>7 DEF DispatchMeta
  <2> QED BY <2>1, <2>2
<1>9. IsSeq(<<>>) /\ ToSet(<<>>) = {}
  BY DEF IsSeq, ToSet
<1>10. IsSeq(Slice(ids, w, x)) /\ IsSeq(Slice(ids, y, z)) /\ ToSet(Slice(ids, w, x)) \subseteq Blocks
  BY <1>3, SliceIs, SliceWithin
<1>11. D(r) = d
  BY <1>4 DEF D, ids
<1>12. IsSeq(d.dump.ids)
  BY <1>8, <1>9, <1>10, Zenon
<1>13. IsSeq(d.load.ids) /\ ToSet(d.load.ids) \subseteq Blocks
  <2>1. CASE r \in plan.load
    BY <1>8, <1>10, <2>1, Zenon
  <2>2. CASE r \notin plan.load
    <3>1. d.load.ids = <<>>
      BY <1>8, <2>2, Zenon
    <3> QED BY <1>9, <3>1
  <2> QED BY <2>1, <2>2
<1> QED BY <1>11, <1>12, <1>13 DEF Sheet

LEMMA BuildClear ==
  ASSUME MetaInv, RankInv, BuildConnectorMeta
  PROVE  RankInv' /\ ((\A j \in Ranks : StoreOf(j)) => (\A j \in Ranks : StoreOf(j))')
<1>1. /\ phase = "sched" /\ phase' = "work" /\ cfg' = cfg /\ marks' = marks /\ store' = store
      /\ pend' = pend /\ acct' = acct /\ pos' = pos /\ deferred' = deferred /\ rep' = rep /\ wasync' = wasync
      /\ DOMAIN wpc' = Ranks /\ \A k \in Ranks : wpc'[k] = "begin"
  BY DEF BuildConnectorMeta
<1>2. /\ DOMAIN job' = Known /\ plan' = [plan EXCEPT !.fin = told]
      /\ \A r \in Known : job'[r].load = D(r).load /\ job'[r].dump = D(r).dump
  BY BuildIs
<1>3. Ranks' = Ranks /\ Blocks' = Blocks /\ Requests' = Requests /\ InPlan' = InPlan
  <2>1. plan'.n = plan.n
    BY <1>2 DEF MetaInv, Typed, PShape
  <2> QED BY <1>1, <2>1, Fixed DEF InPlan
<1>4. RankTyped'
  BY <1>1, <1>3 DEF RankInv, RankTyped
<1>5. Worksheets'
  <2> SUFFICES ASSUME NEW r \in DOMAIN job'
               PROVE  /\ r \in Requests /\ r \in InPlan
                      /\ IsSeq(job'[r].dump.ids)
                      /\ IsSeq(job'[r].load.ids) /\ ToSet(job'[r].load.ids) \subseteq Blocks
    BY <1>3 DEF Worksheets, IsSeq, ToSet
  <2>1. r \in Known
    BY <1>2
  <2>2. r \in Requests /\ r \in InPlan
    BY <1>1, <2>1, DispatchOne
  <2>3. Sheet(D(r))
    BY <1>1, <2>1, SheetIs
  <2> QED BY <1>2, <2>1, <2>2, <2>3 DEF Sheet
<1>6. ASSUME NEW k \in Ranks  PROVE RankOf(k)'
  <2>1. RankOf(k)
    BY DEF RankInv
  <2>2. AShape(acct[k])' /\ TasksOf(pend[k])'
    BY <1>1, <2>1, ShapeStays DEF RankOf
  <2> QED BY <1>1, <2>1, <2>2, Fixed DEF RankOf
<1>7. ASSUME NEW k \in Ranks, StoreOf(k)  PROVE StoreOf(k)'
  <2>1. wpc[k] = "idle"
    BY <1>1 DEF RankInv, RankOf
  <2>2. Accounted(k)'
    <3> SUFFICES ASSUME NEW r \in Requests, NEW b, Concerned(k, r, b)'  PROVE AccountOf(k, r, b)'
      BY <1>3 DEF Accounted
    <3>1. b \in acct[k].dumped[r]
      BY <1>1 DEF Concerned
    <3>2. AccountOf(k, r, b)
      BY <1>7, <3>1 DEF StoreOf, Accounted, Concerned
    <3>3. CASE Missed(pend[k], acct[k], r, b)
      BY <1>1, <3>3 DEF AccountOf, Missed, Carries
    <3>4. CASE \A l \in Layers : Secure(k, r, b, l)
      <4>1. \A l \in Layers : KeyOf(k, b, l) \in DOMAIN store \/ Flies(pend[k], r, b, l)
        BY <2>1, <3>4 DEF Secure, Ahead
      <4> QED BY <1>1, <4>1, Fixed DEF AccountOf, Secure, Flies, Carries
    <3> QED BY <3>2, <3>3, <3>4 DEF AccountOf
  <2>3. Confirmed(k)'
    BY <1>1, <1>7, Fixed DEF StoreOf, Confirmed, Stored
  <2>4. Postponed(k)'
    BY <1>1, <1>7, Fixed DEF StoreOf, Postponed
  <2> QED BY <2>2, <2>3, <2>4 DEF StoreOf
<1> QED BY <1>1, <1>3, <1>4, <1>5, <1>6, <1>7 DEF RankInv

----------------------------------------------------------------------------
(* The tracker                                                              *)

(* What is cleared when nothing had to make room was confirmed.             *)
LEMMA MarkedIs ==
  ASSUME NEW old, IsFiniteSet(old), NEW new, IsFiniteSet(new), NEW limit \in Nat,
         NEW m \in MarkMissing(old, new, limit)
  PROVE  /\ m \subseteq old \union new
         /\ Cardinality(m) < limit => m = old \union new
<1>1. PICK all : all = old \union new
  OBVIOUS
<1>2. IsFiniteSet(all)
  BY <1>1, FS_Union
<1>3. PICK n \in Nat : n = Cardinality(all)
  BY <1>2, FS_CardinalityType
<1>4. PICK d \in Nat : d = (IF n > limit THEN n - limit ELSE 0)
  <2>1. (IF n > limit THEN n - limit ELSE 0) \in Nat
    BY <1>3
  <2> QED BY <2>1, Zenon
<1>5. PICK gone \in kSubset(d, all) : m = all \ gone
  BY <1>1, <1>3, <1>4 DEF MarkMissing
<1>6. gone \subseteq all /\ Cardinality(gone) = d
  BY <1>5 DEF kSubset
<1>7. IsFiniteSet(gone)
  BY <1>2, <1>6, FS_Subset
<1>8. ASSUME Cardinality(m) < limit  PROVE m = all
  <2>1. Cardinality(m) = Cardinality(all) - Cardinality(all \cap gone)
    BY <1>2, <1>5, FS_Difference
  <2>2. all \cap gone = gone
    BY <1>6
  <2>3. Cardinality(m) = n - d
    BY <1>3, <1>6, <2>1, <2>2
  <2>4. d = 0
    BY <1>4, <1>8, <2>3
  <2>5. gone = {}
    BY <1>6, <1>7, <2>4, FS_EmptySet
  <2> QED BY <1>5, <2>5
<1> QED BY <1>1, <1>5, <1>8

(* The metadata of all ranks together.                                      *)
LEMMA AggregateIs ==
  ASSUME NEW metas, NEW mla, NEW w, w = Aggregate(metas, mla)
  PROVE  /\ w.missBlocks = UNION {m.missBlocks : m \in metas}
         /\ \A b \in w.succeeded : /\ \E m \in metas : b \in m.succeeded
                                   /\ ~mla => \A m \in metas : b \in m.succeeded
<1> DEFINE any == UNION {m.succeeded : m \in metas}
<1>1. /\ w.missBlocks = UNION {m.missBlocks : m \in metas}
      /\ w.succeeded = IF mla THEN any ELSE {b \in any : \A m \in metas : b \in m.succeeded}
  BY DEF Aggregate
<1>2. \A b \in any : \E m \in metas : b \in m.succeeded
  OBVIOUS
<1> HIDE DEF any
<1> QED BY <1>1, <1>2

(* update_from_output                                                       *)
Told == Aggregate({rep[k].meta : k \in Ranks}, cfg.mla)

LEMMA UpdateClearIs ==
  ASSUME UpdateFromOutput
  PROVE  /\ phase = "work" /\ phase' = "sched" /\ cfg' = cfg /\ job' = <<>> /\ store' = store
         /\ pend' = pend /\ acct' = acct /\ pos' = pos /\ deferred' = deferred /\ wasync' = wasync
         /\ DOMAIN rep' = Ranks /\ DOMAIN wpc' = Ranks
         /\ \A k \in Ranks : wpc[k] = "out" /\ wpc'[k] = "idle"
         /\ marks' = marks \/ marks' \in ApplyWorkerMeta(marks, Told, cfg.limit)
<1>1. /\ phase = "work" /\ phase' = "sched" /\ cfg' = cfg /\ job' = <<>> /\ store' = store
      /\ pend' = pend /\ acct' = acct /\ pos' = pos /\ deferred' = deferred /\ wasync' = wasync
      /\ DOMAIN rep' = Ranks /\ DOMAIN wpc' = Ranks
      /\ \A k \in Ranks : wpc[k] = "out" /\ wpc'[k] = "idle"
  BY DEF UpdateFromOutput
<1>2. marks' \in (IF cfg.cm /\ cfg.recovery = "meta" THEN ApplyWorkerMeta(marks, Told, cfg.limit) ELSE {marks})
  BY DEF UpdateFromOutput, Told
<1> QED BY <1>1, <1>2

LEMMA FewBlocks ==
  ASSUME cfg \in Setups, NEW S, S \subseteq Blocks
  PROVE  IsFiniteSet(S)
<1>1. IsFiniteSet(Blocks)
  BY SetupAssumption DEF Blocks
<1> QED BY <1>1, FS_Subset

(* What the tracker does with what it is told.                              *)
LEMMA ClearedIs ==
  ASSUME RankInv, cfg \in Setups, UpdateFromOutput
  PROVE  /\ marks' \subseteq Blocks
         /\ Cardinality(marks') < cfg.limit => \A b \in marks \ marks' : b \in Told.succeeded
<1>1. marks \subseteq Blocks
  BY DEF RankInv
<1>2. CASE marks' = marks
  BY <1>1, <1>2
<1>3. CASE marks' \in ApplyWorkerMeta(marks, Told, cfg.limit)
  <2>1. PICK old, new : old = marks \ Told.succeeded /\ new = Told.missBlocks
    OBVIOUS
  <2>2. marks' \in MarkMissing(old, new, cfg.limit)
    BY <1>3, <2>1 DEF ApplyWorkerMeta
  <2>3. new \subseteq Blocks
    <3>1. new = UNION {m.missBlocks : m \in {rep[k].meta : k \in Ranks}}
      BY <2>1, AggregateIs DEF Told
    <3>2. \A k \in Ranks : rep[k].meta.missBlocks \subseteq Blocks
      BY UpdateClearIs DEF RankInv, RankOf
    <3> QED BY <3>1, <3>2
  <2>4. old \subseteq Blocks /\ old \subseteq marks
    BY <1>1, <2>1
  <2>5. IsFiniteSet(old) /\ IsFiniteSet(new)
    BY <2>3, <2>4, FewBlocks
  <2>6. cfg.limit \in Nat
    BY SetupAssumption
  <2>7. /\ marks' \subseteq old \union new
        /\ Cardinality(marks') < cfg.limit => marks' = old \union new
    BY <2>2, <2>5, <2>6, MarkedIs
  <2>8. marks' \subseteq Blocks
    BY <2>3, <2>4, <2>7
  <2>9. ASSUME Cardinality(marks') < cfg.limit, NEW b \in marks \ marks'  PROVE b \in Told.succeeded
    BY <2>1, <2>7, <2>9
  <2> QED BY <2>8, <2>9
<1> QED BY <1>2, <1>3, UpdateClearIs

(* What all ranks confirmed, or one of those that share the keys, is stored *)
(* for every rank.                                                          *)
LEMMA ToldIsStored ==
  ASSUME \A k \in Ranks : StoreOf(k), \A k \in Ranks : wpc[k] = "out", NEW b \in Told.succeeded, NEW k \in Ranks
  PROVE  Stored(k, b)
<1>1. \A j \in Ranks : b \in rep[j].meta.succeeded => Stored(j, b)
  BY DEF StoreOf, Confirmed
<1>2. /\ \E m \in {rep[j].meta : j \in Ranks} : b \in m.succeeded
      /\ ~cfg.mla => \A m \in {rep[j].meta : j \in Ranks} : b \in m.succeeded
  BY AggregateIs DEF Told
<1>3. CASE ~cfg.mla
  BY <1>1, <1>2, <1>3
<1>4. CASE cfg.mla
  <2>1. PICK j \in Ranks : Stored(j, b)
    BY <1>1, <1>2
  <2>2. \A l : KeyOf(k, b, l) = KeyOf(j, b, l)
    BY <1>4 DEF KeyOf
  <2> QED BY <2>1, <2>2 DEF Stored
<1> QED BY <1>3, <1>4

LEMMA UpdateClear ==
  ASSUME RankInv, cfg \in Setups, UpdateFromOutput
  PROVE  RankInv' /\ ((\A j \in Ranks : StoreOf(j)) => (\A j \in Ranks : StoreOf(j))')
<1>1. /\ phase = "work" /\ phase' = "sched" /\ cfg' = cfg /\ job' = <<>> /\ store' = store
      /\ pend' = pend /\ acct' = acct /\ pos' = pos /\ deferred' = deferred /\ wasync' = wasync
      /\ DOMAIN rep' = Ranks /\ DOMAIN wpc' = Ranks
      /\ \A k \in Ranks : wpc[k] = "out" /\ wpc'[k] = "idle"
  BY UpdateClearIs
<1>2. Ranks' = Ranks /\ Blocks' = Blocks /\ Requests' = Requests
  BY <1>1, Fixed
<1>3. RankTyped' /\ Worksheets'
  <2>1. RankTyped'
    BY <1>1, <1>2 DEF RankInv, RankTyped
  <2>2. Worksheets'
    BY <1>1 DEF Worksheets
  <2> QED BY <2>1, <2>2
<1>4. marks' \subseteq Blocks
  BY ClearedIs
<1>5. ASSUME NEW k \in Ranks  PROVE RankOf(k)'
  <2>1. RankOf(k)
    BY DEF RankInv
  <2>2. AShape(acct[k])' /\ TasksOf(pend[k])'
    BY <1>1, <2>1, ShapeStays DEF RankOf
  <2> QED BY <1>1, <2>1, <2>2, Fixed DEF RankOf
<1>6. ASSUME NEW k \in Ranks, StoreOf(k)  PROVE StoreOf(k)'
  <2>1. Accounted(k)'
    <3> SUFFICES ASSUME NEW r \in Requests, NEW b, Concerned(k, r, b)'  PROVE AccountOf(k, r, b)'
      BY <1>2 DEF Accounted
    <3>1. b \in acct[k].dumped[r]
      BY <1>1 DEF Concerned
    <3>2. AccountOf(k, r, b)
      BY <1>6, <3>1 DEF StoreOf, Accounted, Concerned
    <3>3. CASE Missed(pend[k], acct[k], r, b)
      BY <1>1, <3>3 DEF AccountOf, Missed, Carries
    <3>4. CASE \A l \in Layers : Secure(k, r, b, l)
      <4>1. \A l \in Layers : KeyOf(k, b, l) \in DOMAIN store \/ Flies(pend[k], r, b, l)
        BY <1>1, <3>4 DEF Secure, Ahead
      <4> QED BY <1>1, <4>1, Fixed DEF AccountOf, Secure, Flies, Carries
    <3> QED BY <3>2, <3>3, <3>4 DEF AccountOf
  <2>2. Confirmed(k)'
    BY <1>1, <1>6, Fixed DEF StoreOf, Confirmed, Stored
  <2>3. Postponed(k)'
    BY <1>1, <1>6, Fixed DEF StoreOf, Postponed
  <2> QED BY <2>1, <2>2, <2>3 DEF StoreOf
<1> QED BY <1>2, <1>3, <1>4, <1>5, <1>6 DEF RankInv

(* The scheduler, the engine and an idle step leave the ranks alone.        *)
LEMMA RanksRest ==
  ASSUME RankInv, Phases, UNCHANGED <<cfg, wrole, marks>>, phase' = phase, job' = job,
         phase # "sched" => plan' = plan
  PROVE  RankInv' /\ (DOMAIN store \subseteq DOMAIN store' =>
                        ((\A j \in Ranks : StoreOf(j)) => (\A j \in Ranks : StoreOf(j))'))
<1>1. /\ cfg' = cfg /\ pend' = pend /\ acct' = acct /\ pos' = pos /\ deferred' = deferred /\ wasync' = wasync
      /\ wpc' = wpc /\ rep' = rep /\ marks' = marks
  BY DEF wrole
<1>2. Ranks' = Ranks /\ Blocks' = Blocks /\ Requests' = Requests
  BY <1>1, Fixed
<1>3. RankTyped'
  BY <1>1, <1>2 DEF RankInv, RankTyped
<1>4. Worksheets'
  <2>1. CASE phase = "sched"
    <3>1. DOMAIN job' = {}
      BY <2>1 DEF Phases
    <3> QED BY <3>1 DEF Worksheets
  <2>2. CASE phase # "sched"
    BY <1>1, <2>2, WorksheetsStay DEF RankInv, InPlan
  <2> QED BY <2>1, <2>2
<1>5. \A k \in Ranks : Same(k)
  BY <1>1 DEF Same
<1>6. ASSUME NEW k \in Ranks  PROVE RankOf(k)'
  BY <1>1, <1>5, SameRank DEF RankInv
<1>7. ASSUME DOMAIN store \subseteq DOMAIN store', NEW k \in Ranks, StoreOf(k)  PROVE StoreOf(k)'
  BY <1>1, <1>5, <1>7, SameStore
<1> QED BY <1>1, <1>2, <1>3, <1>4, <1>6, <1>7 DEF RankInv

LEMMA InitClear == Init => ClearInv
<1> SUFFICES ASSUME Init  PROVE ClearInv
  OBVIOUS
<1>1. /\ cfg \in Setups /\ phase = "sched" /\ marks = {} /\ job = <<>>
      /\ wpc = [k \in Ranks |-> "idle"] /\ pos = [k \in Ranks |-> 1]
      /\ wasync = [k \in Ranks |-> {}] /\ deferred = [k \in Ranks |-> FALSE]
      /\ pend = [k \in Ranks |-> <<>>] /\ acct = [k \in Ranks |-> NewAccount(Requests)]
      /\ rep = [k \in Ranks |-> <<>>]
  BY DEF Init
<1>2. RankTyped /\ Worksheets
  BY <1>1 DEF RankTyped, Worksheets
<1>3. PICK a : a = NewAccount(Requests)
  OBVIOUS
<1>4. /\ AShape(a) /\ a.succeeded = {} /\ \A r \in Requests : a.dumped[r] = {}
  BY <1>3 DEF NewAccount, AShape
<1>5. TasksOf(<<>>)
  <2>1. DOMAIN <<>> = {}
    OBVIOUS
  <2> QED BY <2>1, FS_EmptySet DEF TasksOf
<1>6. 1 \in 1..Len(Visits)
  <2>1. PICK n \in Nat : n = Len(Visits) /\ n >= 1
    BY <1>1, VisitsIs
  <2> QED BY <2>1
<1>7. \A k \in Ranks : /\ wpc[k] = "idle" /\ pos[k] = 1 /\ pend[k] = <<>> /\ acct[k] = a
                       /\ deferred[k] = FALSE
  BY <1>1, <1>3
<1>8. \A k \in Ranks : RankOf(k)
  BY <1>4, <1>5, <1>6, <1>7 DEF RankOf
<1>9. \A k \in Ranks : StoreOf(k)
  BY <1>4, <1>7 DEF StoreOf, Accounted, Concerned, Confirmed, Postponed
<1> QED BY <1>1, <1>2, <1>8, <1>9 DEF ClearInv, RankInv

LEMMA ClearInvNext == MetaInv /\ ClearInv /\ [Next]_vars => ClearInv'
<1> SUFFICES ASSUME MetaInv, ClearInv, [Next]_vars  PROVE ClearInv'
  OBVIOUS
<1>1. RankInv /\ cfg \in Setups /\ Phases /\ ("gc" \notin cfg.faults => \A j \in Ranks : StoreOf(j))
  BY DEF ClearInv, MetaInv, Typed
<1> SUFFICES /\ cfg' = cfg /\ RankInv'
             /\ "gc" \notin cfg.faults => ((\A j \in Ranks : StoreOf(j)) => (\A j \in Ranks : StoreOf(j))')
  BY <1>1 DEF ClearInv
<1>2. CASE SchedNext
  <2>1. PICK r \in Requests : Admit(r) \/ Continue(r) \/ Preempt(r) \/ Abort(r)
    BY <1>2 DEF SchedNext
  <2>2. UNCHANGED <<cfg, wrole, marks, phase, job, store>> /\ phase = "sched"
    BY <2>1 DEF Admit, Continue, Preempt, Abort, srole
  <2> QED BY <1>1, <2>2, RanksRest
<1>3. CASE BuildConnectorMeta
  <2>1. cfg' = cfg
    BY <1>3 DEF BuildConnectorMeta
  <2> QED BY <1>1, <1>3, <2>1, BuildClear
<1>4. CASE \E k \in Ranks : WorkerStep(k) \/ Settle(k)
  <2>1. PICK k \in Ranks : WorkerStep(k) \/ Settle(k)
    BY <1>4
  <2>2. cfg' = cfg
    BY <1>1, <2>1, AsideIs DEF Aside, RankInv
  <2> QED BY <1>1, <2>1, <2>2, WorkerClear
<1>5. CASE Forward
  <2>1. cfg' = cfg
    BY <1>5 DEF Forward
  <2> QED BY <1>1, <1>5, <2>1, ForwardClear
<1>6. CASE \E x \in DOMAIN store : Gc(x)
  <2>1. "gc" \in cfg.faults
    BY <1>6 DEF Gc, Faulty
  <2>2. UNCHANGED <<cfg, wrole, marks, phase, job, plan>>
    BY <1>6 DEF Gc, srole
  <2> QED BY <1>1, <2>1, <2>2, RanksRest
<1>7. CASE UpdateFromOutput
  <2>1. cfg' = cfg
    BY <1>7 DEF UpdateFromOutput
  <2> QED BY <1>1, <1>7, <2>1, UpdateClear
<1>8. CASE Idle \/ UNCHANGED vars
  <2>1. UNCHANGED <<cfg, wrole, marks, phase, job, plan, store>>
    BY <1>8 DEF Idle, vars, srole
  <2> QED BY <1>1, <2>1, RanksRest
<1> QED BY <1>2, <1>3, <1>4, <1>5, <1>6, <1>7, <1>8 DEF Next

(* Only the tracker's own step clears marks.                                *)
LEMMA ClearedStep ==
  ASSUME MetaInv, ClearInv, [Next]_vars, "gc" \notin cfg.faults, Cardinality(marks') < cfg.limit
  PROVE  \A b \in marks \ marks' : \A k \in Ranks, l \in Layers : KeyOf(k, b, l) \in DOMAIN store
<1>1. RankInv /\ cfg \in Setups /\ \A j \in Ranks : StoreOf(j)
  BY DEF ClearInv, MetaInv, Typed
<1>2. CASE UpdateFromOutput
  <2>1. \A b \in marks \ marks' : b \in Told.succeeded
    BY <1>1, <1>2, ClearedIs
  <2>2. \A k \in Ranks : wpc[k] = "out"
    BY <1>2, UpdateClearIs
  <2>3. \A b \in marks \ marks' : \A k \in Ranks : Stored(k, b)
    BY <1>1, <2>1, <2>2, ToldIsStored
  <2> QED BY <2>3 DEF Stored
<1>3. CASE ~UpdateFromOutput
  <2>1. marks' = marks
    <3>1. CASE SchedNext
      BY <3>1 DEF SchedNext, Admit, Continue, Preempt, Abort, srole
    <3>2. CASE BuildConnectorMeta
      BY <3>2 DEF BuildConnectorMeta
    <3>3. CASE \E k \in Ranks : WorkerStep(k) \/ Settle(k)
      BY <1>1, <3>3, AsideIs DEF Aside, RankInv
    <3>4. CASE Forward \/ \E x \in DOMAIN store : Gc(x)
      BY <3>4 DEF Forward, Gc, srole
    <3>5. CASE Idle \/ UNCHANGED vars
      BY <3>5 DEF Idle, vars, srole
    <3> QED BY <1>3, <3>1, <3>2, <3>3, <3>4, <3>5 DEF Next
  <2> QED BY <2>1
<1> QED BY <1>2, <1>3

(* For every number of ranks, requests, layers and dumps, whatever of them  *)
(* fails in which order: a block that leaves the tracker of inconsistent    *)
(* blocks (apply_worker_meta) is stored by every rank in every layer, unless*)
(* the store removes blocks or the full tracker pushes it out.              *)
THEOREM ClearedHolds == Spec => ClearedIsStored
<1>1. Init /\ [][Next]_vars => [](MetaInv /\ ClearInv)
  BY InitHolds, MetaInvNext, InitClear, ClearInvNext, PTL
<1>2. MetaInv /\ ClearInv /\ [Next]_vars =>
        [("gc" \notin cfg.faults /\ Cardinality(marks') < cfg.limit) =>
           \A b \in marks \ marks' : \A k \in Ranks, l \in Layers : KeyOf(k, b, l) \in DOMAIN store]_vars
  BY ClearedStep
<1> QED BY <1>1, <1>2, PTL DEF Spec, ClearedIsStored
=============================================================================
