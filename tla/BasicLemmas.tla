---------------------------- MODULE BasicLemmas ----------------------------
(***************************************************************************)
(* Facts that the proofs share: least and greatest elements, products and  *)
(* quotients, and what pieces of a byte stream make together.              *)
(***************************************************************************)
EXTENDS Integers, Sequences, FiniteSetsExt, SequenceTheorems, WellFoundedInduction, TLAPS

------------------------------------------------------------------------------
(* Numbers *)

\* A nonempty set of natural numbers has a least one.
LEMMA NatMin ==
    ASSUME NEW S \in SUBSET Nat, S # {}
    PROVE  \E x \in S : \A y \in S : x <= y
<1> DEFINE R == {ss \in Nat \X Nat : ss[1] < ss[2]}
<1>1. IsWellFoundedOn(R, Nat)
  BY NatLessThanWellFounded DEF OpToRel
<1>2. \E x \in S : \A y \in S : ~(<<y, x>> \in R)
  BY <1>1, WFMin
<1>3. PICK x \in S : \A y \in S : ~(<<y, x>> \in R)
  BY <1>2
<1>4. ASSUME NEW y \in S PROVE x <= y
  <2>1. ~(y < x)
    <3>1. <<y, x>> \in Nat \X Nat /\ <<y, x>>[1] = y /\ <<y, x>>[2] = x
      OBVIOUS
    <3> QED  BY <1>3, <3>1
  <2> QED  BY <2>1
<1> QED  BY <1>4

\* So FiniteSetsExt's Min is that one.
LEMMA MinOfNats ==
    ASSUME NEW S \in SUBSET Nat, S # {}
    PROVE  Min(S) \in S /\ \A y \in S : Min(S) <= y
  BY NatMin DEF Min

\* The smaller of two.
LEMMA MinOfTwo ==
    ASSUME NEW i \in Nat, NEW j \in Nat
    PROVE  Min({i, j}) = IF i <= j THEN i ELSE j
  BY DEF Min

\* A nonempty set of numbers up to a bound has a greatest one.
LEMMA MaxOfBounded ==
    ASSUME NEW n \in Nat, NEW S \in SUBSET (0 .. n), S # {}
    PROVE  Max(S) \in S /\ \A y \in S : y <= Max(S)
<1> DEFINE T == {n - y : y \in S}
<1>1. T \in SUBSET Nat /\ T # {}
  <2>1. \A y \in S : n - y \in Nat
    OBVIOUS
  <2> QED  BY <2>1
<1>2. PICK x \in T : \A y \in T : x <= y
  BY <1>1, NatMin
<1>3. PICK z \in S : x = n - z
  BY <1>2
<1>4. \A y \in S : y <= z
  BY <1>2, <1>3
<1> QED  BY <1>4 DEF Max

\* Quotient and remainder.
LEMMA DivMod ==
    ASSUME NEW a \in Nat, NEW b \in Nat \ {0}
    PROVE  /\ a \div b \in Nat /\ a % b \in 0 .. b - 1
           /\ a = (a \div b) * b + (a % b)
           /\ (a \div b) * b <= a /\ a < (a \div b) * b + b
<1>1. a \div b \in Nat
  OBVIOUS
<1>2. a % b \in 0 .. b - 1
  OBVIOUS
<1>3. a = (a \div b) * b + (a % b)
  OBVIOUS
<1>4. (a \div b) * b <= a /\ a < (a \div b) * b + b
  OBVIOUS
<1> QED  BY <1>1, <1>2, <1>3, <1>4

\* A quotient is known by its bounds.
LEMMA DivUnique ==
    ASSUME NEW a \in Nat, NEW b \in Nat \ {0}, NEW q \in Nat, NEW r \in 0 .. b - 1,
           a = q * b + r
    PROVE  a \div b = q /\ a % b = r
  OBVIOUS

\* Multiples keep the order.
LEMMA MultMono ==
    ASSUME NEW x \in Int, NEW y \in Int, NEW b \in Nat, x <= y
    PROVE  x * b <= y * b
  OBVIOUS

\* And tell it.
LEMMA MultCancel ==
    ASSUME NEW x \in Int, NEW y \in Int, NEW b \in Nat \ {0}, x * b < y * b
    PROVE  x < y
  OBVIOUS

\* The next multiple.
LEMMA MultNext ==
    ASSUME NEW x \in Int, NEW b \in Int
    PROVE  (x + 1) * b = x * b + b
  OBVIOUS

------------------------------------------------------------------------------
(* Pieces of a byte stream.  What they make is a relation, stated with the    *)
(* places of the cuts, so that nothing in it is recursive.                    *)

\* cut[k] bytes of w are in the first k of the pieces ps.
Cuts(w, ps, cut) ==
    /\ cut \in [0 .. Len(ps) -> 0 .. Len(w)]
    /\ cut[0] = 0 /\ cut[Len(ps)] = Len(w)
    /\ \A i, j \in 0 .. Len(ps) : i <= j => cut[i] <= cut[j]
    /\ \A k \in 1 .. Len(ps) :
          /\ cut[k] = cut[k - 1] + Len(ps[k])
          /\ \A j \in 1 .. Len(ps[k]) : w[cut[k - 1] + j] = ps[k][j]

\* Opaque forms of s \in Seq(B) and s \o t, for the provers.
Over(B, s) == s \in Seq(B)
Cat(s, t)  == s \o t

\* w is what the pieces ps make.
Joins(w, ps) == \E cut : Cuts(w, ps, cut)

------------------------------------------------------------------------------
\* Concatenation is associative.
LEMMA Assoc ==
    \A B, s, t, u : Over(B, s) /\ Over(B, t) /\ Over(B, u)
                      => Cat(Cat(s, t), u) = Cat(s, Cat(t, u))
<1> SUFFICES ASSUME NEW B, NEW s \in Seq(B), NEW t \in Seq(B), NEW u \in Seq(B)
             PROVE  (s \o t) \o u = s \o (t \o u)
  BY DEF Over, Cat
<1> QED  BY ConcatAssociative

\* Concatenation stays over the same set, and nothing adds nothing.
LEMMA OverConcat ==
    \A B, s, t : Over(B, s) /\ Over(B, t) => Over(B, Cat(s, t)) /\ Cat(s, <<>>) = s
<1> SUFFICES ASSUME NEW B, NEW s \in Seq(B), NEW t \in Seq(B)
             PROVE  s \o t \in Seq(B) /\ s \o <<>> = s
  BY DEF Over, Cat
<1> QED  BY ConcatProperties, ConcatEmptySeq

\* No pieces make nothing, and nothing else.
LEMMA JoinsNone ==
    ASSUME NEW B
    PROVE  /\ Joins(<<>>, <<>>)
           /\ \A w \in Seq(B) : Joins(w, <<>>) => w = <<>>
<1>1. Joins(<<>>, <<>>)
  <2> DEFINE cut == [k \in 0 .. 0 |-> 0]
  <2>1. Cuts(<<>>, <<>>, cut)
    <3>1. Len(<<>>) = 0
      OBVIOUS
    <3> QED  BY <3>1 DEF Cuts
  <2> QED  BY <2>1 DEF Joins
<1>2. ASSUME NEW w \in Seq(B), Joins(w, <<>>) PROVE w = <<>>
  <2>1. PICK cut : Cuts(w, <<>>, cut)
    BY <1>2 DEF Joins
  <2>2. Len(w) = 0
    BY <2>1 DEF Cuts
  <2> QED  BY <2>2, EmptySeq
<1> QED  BY <1>1, <1>2

\* One piece makes itself.
LEMMA JoinsOne ==
    ASSUME NEW B, NEW x \in Seq(B)
    PROVE  Joins(x, <<x>>)
<1> DEFINE cut == [k \in 0 .. 1 |-> IF k = 0 THEN 0 ELSE Len(x)]
<1>1. Len(x) \in Nat /\ Len(<<x>>) = 1 /\ <<x>>[1] = x
  OBVIOUS
<1>2. cut \in [0 .. 1 -> 0 .. Len(x)] /\ cut[0] = 0 /\ cut[1] = Len(x)
  BY <1>1
<1> HIDE DEF cut
<1>3. \A i, j \in 0 .. 1 : i <= j => cut[i] <= cut[j]
  BY <1>1, <1>2
<1>4. ASSUME NEW k \in 1 .. 1
      PROVE  /\ cut[k] = cut[k - 1] + Len(<<x>>[k])
             /\ \A j \in 1 .. Len(<<x>>[k]) : x[cut[k - 1] + j] = <<x>>[k][j]
  <2>1. k = 1 /\ k - 1 = 0
    OBVIOUS
  <2> QED  BY <1>1, <1>2, <2>1
<1>5. Cuts(x, <<x>>, cut)
  BY <1>1, <1>2, <1>3, <1>4 DEF Cuts
<1> QED  BY <1>5 DEF Joins

\* What two lists of pieces make.
LEMMA JoinsConcat ==
    ASSUME NEW B, NEW v \in Seq(B), NEW w \in Seq(B),
           NEW ps \in Seq(Seq(B)), NEW qs \in Seq(Seq(B)), Joins(v, ps), Joins(w, qs)
    PROVE  Joins(v \o w, ps \o qs)
<1> DEFINE p == Len(ps)
           q == Len(qs)
           V == Len(v)
           W == Len(w)
           x == v \o w
           rs == ps \o qs
<1>1. p \in Nat /\ q \in Nat /\ V \in Nat /\ W \in Nat
  OBVIOUS
<1>2. /\ x \in Seq(B) /\ Len(x) = V + W
      /\ \A i \in 1 .. V + W : x[i] = IF i <= V THEN v[i] ELSE w[i - V]
  BY ConcatProperties
<1>3. /\ rs \in Seq(Seq(B)) /\ Len(rs) = p + q
      /\ \A i \in 1 .. p + q : rs[i] = IF i <= p THEN ps[i] ELSE qs[i - p]
  BY ConcatProperties
<1>4. PICK c : Cuts(v, ps, c)
  BY DEF Joins
<1>5. PICK d : Cuts(w, qs, d)
  BY DEF Joins
<1>6. /\ c \in [0 .. p -> 0 .. V] /\ c[0] = 0 /\ c[p] = V
      /\ \A i, j \in 0 .. p : i <= j => c[i] <= c[j]
  BY <1>4 DEF Cuts
<1>7. /\ d \in [0 .. q -> 0 .. W] /\ d[0] = 0 /\ d[q] = W
      /\ \A i, j \in 0 .. q : i <= j => d[i] <= d[j]
  BY <1>5 DEF Cuts
<1>8. \A k \in 1 .. p : /\ c[k] = c[k - 1] + Len(ps[k])
                        /\ \A j \in 1 .. Len(ps[k]) : v[c[k - 1] + j] = ps[k][j]
  BY <1>4 DEF Cuts
<1>9. \A k \in 1 .. q : /\ d[k] = d[k - 1] + Len(qs[k])
                        /\ \A j \in 1 .. Len(qs[k]) : w[d[k - 1] + j] = qs[k][j]
  BY <1>5 DEF Cuts
<1>10. /\ \A k \in 1 .. p : Len(ps[k]) \in Nat
       /\ \A k \in 1 .. q : Len(qs[k]) \in Nat
  <2>1. \A k \in 1 .. p : ps[k] \in Seq(B)
    BY ElementOfSeq
  <2>2. \A k \in 1 .. q : qs[k] \in Seq(B)
    BY ElementOfSeq
  <2> QED  BY <2>1, <2>2
<1> DEFINE cut == [k \in 0 .. p + q |-> IF k <= p THEN c[k] ELSE V + d[k - p]]
<1> HIDE DEF p, q, V, W, x, rs
<1>11. /\ \A k \in 0 .. p : c[k] \in 0 .. V
       /\ \A k \in 0 .. q : d[k] \in 0 .. W
  BY <1>6, <1>7
<1>12. cut \in [0 .. p + q -> 0 .. V + W]
  <2>1. ASSUME NEW k \in 0 .. p + q PROVE cut[k] \in 0 .. V + W
    <3>1. CASE k <= p
      BY <1>1, <1>11, <3>1
    <3>2. CASE ~(k <= p)
      <4>1. k - p \in 0 .. q
        BY <1>1, <3>2
      <4> QED  BY <1>1, <1>11, <3>2, <4>1
    <3> QED  BY <3>1, <3>2
  <2> QED  BY <2>1
<1>13. cut[0] = 0 /\ cut[p + q] = V + W
  <2>1. cut[0] = 0
    BY <1>1, <1>6
  <2>2. CASE q = 0
    BY <1>1, <1>6, <1>7, <2>1, <2>2
  <2>3. CASE q > 0
    <3>1. p + q \in 0 .. p + q /\ ~(p + q <= p) /\ (p + q) - p = q
      BY <1>1, <2>3
    <3>2. cut[p + q] = V + d[q]
      BY <3>1
    <3> QED  BY <1>7, <2>1, <3>2
  <2> QED  BY <1>1, <2>1, <2>2, <2>3
<1>14. ASSUME NEW i \in 0 .. p + q, NEW j \in 0 .. p + q, i <= j
       PROVE  cut[i] <= cut[j]
  <2>1. CASE j <= p
    <3>1. i \in 0 .. p /\ j \in 0 .. p /\ i <= p
      BY <1>1, <1>14, <2>1
    <3>2. c[i] <= c[j]
      BY <1>6, <1>14, <3>1
    <3> QED  BY <2>1, <3>1, <3>2
  <2>2. CASE ~(j <= p) /\ i <= p
    <3>1. j - p \in 0 .. q
      BY <1>1, <2>2
    <3> QED  BY <1>1, <1>11, <2>2, <3>1
  <2>3. CASE ~(j <= p) /\ ~(i <= p)
    <3>1. j - p \in 0 .. q /\ i - p \in 0 .. q /\ i - p <= j - p
      BY <1>1, <1>14, <2>3
    <3>2. d[i - p] <= d[j - p] /\ d[i - p] \in Nat /\ d[j - p] \in Nat
      BY <1>7, <1>11, <3>1
    <3>3. cut[i] = V + d[i - p] /\ cut[j] = V + d[j - p]
      BY <2>3
    <3> QED  BY <1>1, <3>2, <3>3
  <2> QED  BY <2>1, <2>2, <2>3
<1>15. ASSUME NEW k \in 1 .. p + q
       PROVE  /\ cut[k] = cut[k - 1] + Len(rs[k])
              /\ \A j \in 1 .. Len(rs[k]) : x[cut[k - 1] + j] = rs[k][j]
  <2>1. CASE k <= p
    <3>1. k \in 1 .. p /\ k - 1 \in 0 .. p /\ k - 1 \in 0 .. p + q /\ k \in 0 .. p /\ k \in 0 .. p + q
      BY <1>1, <2>1
    <3>2. rs[k] = ps[k] /\ cut[k] = c[k] /\ cut[k - 1] = c[k - 1]
      BY <1>1, <1>3, <2>1, <3>1
    <3>3. c[k] = c[k - 1] + Len(ps[k]) /\ Len(ps[k]) \in Nat
          /\ c[k - 1] \in 0 .. V /\ c[k] \in 0 .. V
      BY <1>8, <1>10, <1>11, <3>1
    <3>4. ASSUME NEW j \in 1 .. Len(ps[k]) PROVE x[c[k - 1] + j] = ps[k][j]
      <4>1. v[c[k - 1] + j] = ps[k][j]
        BY <1>8, <3>1
      <4>2. c[k - 1] + j \in 1 .. V + W /\ c[k - 1] + j <= V
        <5> DEFINE a == c[k - 1]
                   b == Len(ps[k])
        <5>1. j \in Nat /\ j >= 1 /\ j <= b
          BY <3>3
        <5>2. a \in Nat /\ b \in Nat /\ a + b <= V
          BY <1>1, <3>3
        <5> HIDE DEF a, b, cut
        <5>3. a + j \in 1 .. V + W /\ a + j <= V
          BY <1>1, <5>1, <5>2
        <5> QED  BY <5>3 DEF a
      <4> QED  BY <1>2, <4>1, <4>2
    <3> QED  BY <3>2, <3>3, <3>4
  <2>2. CASE ~(k <= p)
    <3> DEFINE l == k - p
    <3>1. l \in 1 .. q /\ l - 1 \in 0 .. q /\ k - 1 \in 0 .. p + q /\ k \in 0 .. p + q
          /\ l \in 0 .. q /\ (k - 1) - p = l - 1
      BY <1>1, <2>2
    <3>2. rs[k] = qs[l] /\ cut[k] = V + d[l]
      BY <1>3, <2>2, <3>1
    <3>3. cut[k - 1] = V + d[l - 1]
      <4>1. CASE k - 1 <= p
        <5>1. k - 1 = p /\ l - 1 = 0
          BY <1>1, <2>2, <4>1
        <5> QED  BY <1>1, <1>6, <1>7, <3>1, <5>1
      <4>2. CASE ~(k - 1 <= p)
        BY <3>1, <4>2
      <4> QED  BY <4>1, <4>2
    <3> HIDE DEF l, cut
    <3>4. d[l] = d[l - 1] + Len(qs[l]) /\ Len(qs[l]) \in Nat
          /\ d[l - 1] \in 0 .. W /\ d[l] \in 0 .. W
      BY <1>9, <1>10, <1>11, <3>1
    <3>5. ASSUME NEW j \in 1 .. Len(qs[l]) PROVE x[(V + d[l - 1]) + j] = qs[l][j]
      <4>1. w[d[l - 1] + j] = qs[l][j]
        BY <1>9, <3>1
      <4>2. (V + d[l - 1]) + j \in 1 .. V + W /\ ~((V + d[l - 1]) + j <= V)
            /\ ((V + d[l - 1]) + j) - V = d[l - 1] + j
        <5> PICK a, b, e, y, z :
               a = d[l - 1] /\ b = d[l] /\ e = Len(qs[l]) /\ y = V /\ z = W
          OBVIOUS
        <5>1. /\ b = a + e /\ e \in Nat /\ a \in 0 .. z /\ b \in 0 .. z
              /\ j \in 1 .. e /\ y \in Nat /\ z \in Nat
          BY <1>1, <3>4
        <5>2. (y + a) + j \in 1 .. y + z /\ ~((y + a) + j <= y) /\ ((y + a) + j) - y = a + j
          BY ONLY <5>1
        <5> QED  BY <5>2
      <4> QED  BY <1>2, <4>1, <4>2
    <3>6. cut[k] = cut[k - 1] + Len(rs[k])
      <4> PICK a, b, e, y, z :
             a = d[l - 1] /\ b = d[l] /\ e = Len(qs[l]) /\ y = V /\ z = W
        OBVIOUS
      <4>1. b = a + e /\ e \in Nat /\ a \in 0 .. z /\ y \in Nat /\ z \in Nat
        BY <1>1, <3>4
      <4>2. y + b = (y + a) + e
        BY ONLY <4>1
      <4> QED  BY <3>2, <3>3, <4>2
    <3> QED  BY <3>2, <3>3, <3>5, <3>6
  <2> QED  BY <2>1, <2>2
<1> HIDE DEF cut
<1>16. Cuts(x, rs, cut)
  BY <1>2, <1>3, <1>12, <1>13, <1>14, <1>15 DEF Cuts
<1> QED  BY <1>16 DEF Joins, x, rs

\* A part of a sequence.
LEMMA PartOf ==
    ASSUME NEW B, NEW w \in Seq(B), NEW m \in 0 .. Len(w), NEW n \in m .. Len(w)
    PROVE  /\ SubSeq(w, m + 1, n) \in Seq(B) /\ Len(SubSeq(w, m + 1, n)) = n - m
           /\ \A i \in 1 .. n - m : SubSeq(w, m + 1, n)[i] = w[m + i]
<1>1. Len(w) \in Nat /\ m \in Nat /\ n \in Nat /\ m <= n /\ n <= Len(w)
  OBVIOUS
<1>2. ASSUME NEW i \in m + 1 .. n PROVE w[i] \in B
  <2>1. i \in 1 .. Len(w)
    BY <1>1
  <2> QED  BY <2>1, ElementOfSeq
<1>3. m + 1 \in Int /\ n \in Int
  BY <1>1
<1>4. /\ SubSeq(w, m + 1, n) \in Seq(B)
      /\ Len(SubSeq(w, m + 1, n)) = IF m + 1 <= n THEN n - (m + 1) + 1 ELSE 0
      /\ \A i \in 1 .. n - (m + 1) + 1 : SubSeq(w, m + 1, n)[i] = w[(m + 1) + i - 1]
  BY <1>2, <1>3, SubSeqProperties
<1>5. Len(SubSeq(w, m + 1, n)) = n - m
  BY <1>1, <1>4
<1>6. ASSUME NEW i \in 1 .. n - m PROVE SubSeq(w, m + 1, n)[i] = w[m + i]
  <2>1. i \in 1 .. n - (m + 1) + 1 /\ (m + 1) + i - 1 = m + i
    BY <1>1
  <2> QED  BY <1>4, <2>1
<1> QED  BY <1>4, <1>5, <1>6

\* The first n pieces and the others.
LEMMA JoinsSplit ==
    ASSUME NEW B, NEW w \in Seq(B), NEW ps \in Seq(Seq(B)), Joins(w, ps),
           NEW n \in 0 .. Len(ps)
    PROVE  \E u, v \in Seq(B) : /\ w = u \o v
                                /\ Joins(u, SubSeq(ps, 1, n))
                                /\ Joins(v, SubSeq(ps, n + 1, Len(ps)))
<1>1. PICK c : Cuts(w, ps, c)
  BY DEF Joins
<1> DEFINE p == Len(ps)
           W == Len(w)
           m == c[n]
           u == SubSeq(w, 1, m)
           v == SubSeq(w, m + 1, W)
           us == SubSeq(ps, 1, n)
           vs == SubSeq(ps, n + 1, p)
<1>2. p \in Nat /\ W \in Nat /\ n \in Nat /\ n <= p
  OBVIOUS
<1>3. /\ c \in [0 .. p -> 0 .. W] /\ c[0] = 0 /\ c[p] = W
      /\ \A i, j \in 0 .. p : i <= j => c[i] <= c[j]
  BY <1>1 DEF Cuts
<1>4. \A k \in 1 .. p : /\ c[k] = c[k - 1] + Len(ps[k])
                        /\ \A j \in 1 .. Len(ps[k]) : w[c[k - 1] + j] = ps[k][j]
  BY <1>1 DEF Cuts
<1>5. \A k \in 1 .. p : Len(ps[k]) \in Nat
  <2>1. \A k \in 1 .. p : ps[k] \in Seq(B)
    BY ElementOfSeq
  <2> QED  BY <2>1
<1>6. m \in 0 .. W /\ \A k \in 0 .. p : c[k] \in 0 .. W
  BY <1>2, <1>3
<1>7. u \in Seq(B) /\ Len(u) = m /\ \A i \in 1 .. m : u[i] = w[i]
  <2>1. 0 \in 0 .. Len(w) /\ m \in 0 .. Len(w) /\ 0 + 1 = 1 /\ m - 0 = m
    BY <1>2, <1>6
  <2>2. /\ u \in Seq(B) /\ Len(u) = m
        /\ \A i \in 1 .. m : u[i] = w[0 + i]
    <3> HIDE DEF m
    <3> QED  BY <2>1, PartOf
  <2>3. \A i \in 1 .. m : 0 + i = i
    BY <1>6
  <2> QED  BY <2>2, <2>3
<1>8. v \in Seq(B) /\ Len(v) = W - m /\ \A i \in 1 .. W - m : v[i] = w[m + i]
  <2>1. m \in 0 .. Len(w) /\ W \in m .. Len(w)
    BY <1>2, <1>6
  <2> HIDE DEF m
  <2> QED  BY <2>1, PartOf
<1>9. Len(us) = n /\ \A i \in 1 .. n : us[i] = ps[i]
  <2>1. 0 \in 0 .. Len(ps) /\ 0 + 1 = 1 /\ n - 0 = n
    BY <1>2
  <2>2. Len(us) = n /\ \A i \in 1 .. n : us[i] = ps[0 + i]
    BY <2>1, PartOf
  <2>3. \A i \in 1 .. n : 0 + i = i
    OBVIOUS
  <2> QED  BY <2>2, <2>3
<1>10. Len(vs) = p - n /\ \A i \in 1 .. p - n : vs[i] = ps[n + i]
  <2>1. p \in n .. Len(ps) /\ ps \in Seq(Seq(B)) /\ n \in 0 .. Len(ps)
    BY <1>2
  <2> HIDE DEF p
  <2>2. /\ Len(SubSeq(ps, n + 1, p)) = p - n
        /\ \A i \in 1 .. p - n : SubSeq(ps, n + 1, p)[i] = ps[n + i]
    BY ONLY <2>1, PartOf
  <2> QED  BY <2>2
<1>11. w = u \o v
  <2>1. 1 \in 1 .. Len(w) + 1 /\ m \in 1 - 1 .. Len(w) /\ Len(w) \in m .. Len(w)
    BY <1>2, <1>6
  <2>2. u \o v = SubSeq(w, 1, Len(w))
    <3> HIDE DEF m
    <3> QED  BY <2>1, ConcatAdjacentSubSeq
  <2> QED  BY <2>2, SubSeqFull
<1> DEFINE cu == [k \in 0 .. n |-> c[k]]
           cv == [k \in 0 .. p - n |-> c[n + k] - m]
<1> HIDE DEF u, v, us, vs, p, W
<1>12. Cuts(u, us, cu)
  <2>1. cu \in [0 .. n -> 0 .. m]
    <3>1. ASSUME NEW k \in 0 .. n PROVE c[k] \in 0 .. m
      <4>1. k \in 0 .. p /\ n \in 0 .. p /\ k <= n
        BY <1>2
      <4>2. c[k] <= c[n] /\ c[k] \in 0 .. W
        BY <1>3, <1>6, <4>1
      <4> QED  BY <1>6, <4>2
    <3> QED  BY <3>1
  <2>2. cu[0] = 0 /\ cu[n] = m
    BY <1>2, <1>3
  <2>3. ASSUME NEW i \in 0 .. n, NEW j \in 0 .. n, i <= j PROVE cu[i] <= cu[j]
    <3>1. i \in 0 .. p /\ j \in 0 .. p
      BY <1>2
    <3> QED  BY <1>3, <2>3, <3>1
  <2>4. ASSUME NEW k \in 1 .. n
        PROVE  /\ cu[k] = cu[k - 1] + Len(us[k])
               /\ \A j \in 1 .. Len(us[k]) : u[cu[k - 1] + j] = us[k][j]
    <3>1. k \in 1 .. p /\ k \in 0 .. n /\ k - 1 \in 0 .. n /\ k - 1 \in 0 .. p /\ k \in 0 .. p
      BY <1>2
    <3>2. us[k] = ps[k] /\ cu[k] = c[k] /\ cu[k - 1] = c[k - 1]
      BY <1>9, <3>1
    <3> HIDE DEF cu
    <3>3. c[k] = c[k - 1] + Len(ps[k]) /\ Len(ps[k]) \in Nat /\ c[k - 1] \in 0 .. W
          /\ c[k] <= m
      <4>1. n \in 0 .. p /\ k <= n
        BY <1>2
      <4>2. c[k] <= c[n]
        BY <1>3, <3>1, <4>1
      <4> QED  BY <1>4, <1>5, <1>6, <3>1, <4>2
    <3> HIDE DEF m
    <3>4. ASSUME NEW j \in 1 .. Len(ps[k]) PROVE u[c[k - 1] + j] = ps[k][j]
      <4>1. w[c[k - 1] + j] = ps[k][j]
        BY <1>4, <3>1
      <4> DEFINE a == c[k - 1]
                 l == Len(ps[k])
      <4>2. a \in Nat /\ l \in Nat /\ a + l <= m /\ m \in Nat /\ j \in 1 .. l
        BY <1>2, <1>6, <3>3
      <4> HIDE DEF a, l
      <4>3. a + j \in 1 .. m
        BY <4>2
      <4> QED  BY <1>7, <4>1, <4>3 DEF a
    <3> QED  BY <3>2, <3>3, <3>4
  <2> HIDE DEF cu
  <2> QED  BY <1>7, <1>9, <2>1, <2>2, <2>3, <2>4 DEF Cuts
<1>13. Cuts(v, vs, cv)
  <2>0. ASSUME NEW k \in 0 .. p - n
        PROVE  n + k \in 0 .. p /\ c[n + k] \in m .. W /\ cv[k] = c[n + k] - m
    <3>1. n + k \in 0 .. p /\ n \in 0 .. p /\ n <= n + k
      BY <1>2
    <3>2. c[n] <= c[n + k] /\ c[n + k] \in 0 .. W
      BY <1>3, <1>6, <3>1
    <3> QED  BY <1>2, <1>6, <3>1, <3>2
  <2>1. cv \in [0 .. p - n -> 0 .. W - m]
    <3>1. ASSUME NEW k \in 0 .. p - n PROVE c[n + k] - m \in 0 .. W - m
      <4>1. c[n + k] \in m .. W
        BY <2>0
      <4>2. m \in Nat
        BY <1>2, <1>6
      <4> HIDE DEF m
      <4> QED  BY <1>2, <4>1, <4>2
    <3> QED  BY <3>1
  <2>2. cv[0] = 0 /\ cv[p - n] = W - m
    <3>1. 0 \in 0 .. p - n /\ p - n \in 0 .. p - n /\ n + 0 = n /\ n + (p - n) = p
      BY <1>2
    <3>2. m \in Nat
      BY <1>2, <1>6
    <3> QED  BY <1>3, <3>1, <3>2
  <2>3. ASSUME NEW i \in 0 .. p - n, NEW j \in 0 .. p - n, i <= j PROVE cv[i] <= cv[j]
    <3>1. n + i \in 0 .. p /\ n + j \in 0 .. p /\ n + i <= n + j
      BY <1>2, <2>0, <2>3
    <3>2. c[n + i] <= c[n + j] /\ c[n + i] \in 0 .. W /\ c[n + j] \in 0 .. W /\ m \in 0 .. W
      BY <1>3, <1>6, <3>1
    <3>3. cv[i] = c[n + i] - m /\ cv[j] = c[n + j] - m
      BY <2>0
    <3> HIDE DEF cv, m
    <3> QED  BY <1>2, <3>2, <3>3
  <2>4. ASSUME NEW k \in 1 .. p - n
        PROVE  /\ cv[k] = cv[k - 1] + Len(vs[k])
               /\ \A j \in 1 .. Len(vs[k]) : v[cv[k - 1] + j] = vs[k][j]
    <3>1. n + k \in 1 .. p /\ k \in 0 .. p - n /\ k - 1 \in 0 .. p - n
          /\ n + (k - 1) = (n + k) - 1
      BY <1>2
    <3> DEFINE i == n + k
    <3>2. vs[k] = ps[i] /\ cv[k] = c[i] - m /\ cv[k - 1] = c[i - 1] - m
      BY <1>10, <2>0, <3>1
    <3>3. c[i] \in m .. W /\ c[i - 1] \in m .. W /\ m \in 0 .. W
      BY <1>6, <2>0, <3>1
    <3> HIDE DEF i, cv, m
    <3>4. c[i] = c[i - 1] + Len(ps[i]) /\ Len(ps[i]) \in Nat
      BY <1>4, <1>5, <3>1 DEF i
    <3> DEFINE a == c[i - 1]
               b == c[i]
               l == Len(ps[i])
    <3>5. a \in Nat /\ b \in Nat /\ l \in Nat /\ b = a + l /\ m \in Nat /\ m <= a /\ b <= W
      BY <1>2, <3>3, <3>4
    <3>6. ASSUME NEW j \in 1 .. l PROVE v[(a - m) + j] = ps[i][j]
      <4>1. w[a + j] = ps[i][j]
        BY <1>4, <3>1 DEF i
      <4> HIDE DEF a, b, l
      <4>2. (a - m) + j \in 1 .. W - m /\ m + ((a - m) + j) = a + j
        BY <1>2, <3>5
      <4> QED  BY <1>8, <4>1, <4>2
    <3>7. cv[k] = b - m /\ cv[k - 1] = a - m /\ vs[k] = ps[i] /\ Len(vs[k]) = l
      BY <3>2
    <3> HIDE DEF a, b, l
    <3>8. b - m = (a - m) + l
      BY <3>5
    <3> QED  BY <3>6, <3>7, <3>8
  <2> HIDE DEF cv, m
  <2> QED  BY <1>8, <1>10, <2>1, <2>2, <2>3, <2>4 DEF Cuts
<1>14. Joins(u, us) /\ Joins(v, vs)
  BY <1>12, <1>13 DEF Joins
<1> QED  BY <1>7, <1>8, <1>11, <1>14 DEF us, vs, p

\* u and v make w, u from the pieces us and v from vs.
Parted(B, w, us, vs) ==
    \E u, v \in Seq(B) : w = u \o v /\ Joins(u, us) /\ Joins(v, vs)

\* The same, with names for the two parts.
LEMMA JoinsParted ==
    ASSUME NEW B, NEW w \in Seq(B), NEW ps \in Seq(Seq(B)), Joins(w, ps),
           NEW n \in 0 .. Len(ps), NEW us, us = SubSeq(ps, 1, n),
           NEW vs, vs = SubSeq(ps, n + 1, Len(ps))
    PROVE  Parted(B, w, us, vs)
BY JoinsSplit DEF Parted

\* One more piece.
LEMMA JoinsAppend ==
    ASSUME NEW B, NEW w \in Seq(B), NEW ps \in Seq(Seq(B)), NEW x \in Seq(B), Joins(w, ps)
    PROVE  Joins(w \o x, Append(ps, x))
<1>1. Joins(x, <<x>>) /\ <<x>> \in Seq(Seq(B)) /\ Append(ps, x) = ps \o <<x>>
  BY JoinsOne, AppendIsConcat
<1> QED  BY <1>1, JoinsConcat

\* One piece is what it makes.
LEMMA OneJoins ==
    ASSUME NEW B, NEW w \in Seq(B), NEW x \in Seq(B), Joins(w, <<x>>)
    PROVE  w = x
<1>1. Len(<<x>>) = 1 /\ <<x>>[1] = x /\ Len(x) \in Nat
  OBVIOUS
<1>2. PICK c : Cuts(w, <<x>>, c)
  BY DEF Joins
<1>3. /\ c[0] = 0 /\ c[1] = Len(w) /\ c[1] = c[1 - 1] + Len(x)
      /\ \A j \in 1 .. Len(x) : w[c[1 - 1] + j] = x[j]
  BY <1>1, <1>2 DEF Cuts
<1>4. Len(w) = Len(x) /\ \A j \in 1 .. Len(x) : w[j] = x[j]
  BY <1>1, <1>3
<1> QED  BY <1>4, SeqEqual

\* A part of one.
LEMMA PartOfOne ==
    ASSUME NEW S, NEW s \in Seq(S), NEW n \in 1 .. Len(s)
    PROVE  SubSeq(s, n, n) = <<s[n]>>
<1>1. Len(s) \in Nat
  OBVIOUS
<1>2. n \in n .. Len(s) /\ n \in Int /\ n + 1 \in Int /\ n < n + 1
  BY <1>1
<1>3. SubSeq(s, n, n) = <<s[n]>> \o SubSeq(s, n + 1, n)
  BY <1>2, SubSeqRecursiveFirst
<1>4. SubSeq(s, n + 1, n) = <<>>
  BY <1>2, SubSeqEmpty
<1>5. s[n] \in S
  BY ElementOfSeq
<1>6. <<s[n]>> \in Seq(S)
  BY <1>5
<1>7. <<s[n]>> \o <<>> = <<s[n]>>
  BY <1>6, ConcatEmptySeq
<1> QED  BY <1>3, <1>4, <1>7

\* The first piece and the others.
LEMMA JoinsHead ==
    ASSUME NEW B, NEW w \in Seq(B), NEW ps \in Seq(Seq(B)), Joins(w, ps), Len(ps) > 0
    PROVE  /\ Head(ps) \in Seq(B) /\ Tail(ps) \in Seq(Seq(B))
           /\ \E v \in Seq(B) : w = Head(ps) \o v /\ Joins(v, Tail(ps))
<1>1. ps # <<>>
  BY EmptySeq
<1>2. Head(ps) \in Seq(B) /\ Tail(ps) \in Seq(Seq(B)) /\ Tail(ps) = SubSeq(ps, 2, Len(ps))
  BY <1>1, HeadTailProperties, TailIsSubSeq
<1>3. Head(ps) = ps[1]
  OBVIOUS
<1>4. 1 \in 0 .. Len(ps) /\ 1 + 1 = 2 /\ 1 \in 1 .. Len(ps)
  OBVIOUS
<1>5. PICK u \in Seq(B), v \in Seq(B) :
         w = u \o v /\ Joins(u, SubSeq(ps, 1, 1)) /\ Joins(v, SubSeq(ps, 1 + 1, Len(ps)))
  <2> PICK us, vs : us = SubSeq(ps, 1, 1) /\ vs = SubSeq(ps, 1 + 1, Len(ps))
    OBVIOUS
  <2>1. Parted(B, w, us, vs)
    BY <1>4, JoinsParted
  <2> QED  BY <2>1 DEF Parted
<1>6. SubSeq(ps, 1, 1) = <<Head(ps)>>
  BY <1>3, <1>4, PartOfOne
<1>7. u = Head(ps)
  <2>1. Joins(u, <<Head(ps)>>)
    BY <1>5, <1>6
  <2> QED  BY <1>2, <2>1, OneJoins, Zenon
<1> QED  BY <1>2, <1>4, <1>5, <1>7

\* A sequence with one more element.
AppendFacts(S, s, e) ==
    /\ Append(s, e) \in Seq(S)
    /\ Len(Append(s, e)) = Len(s) + 1
    /\ \A i \in 1 .. Len(s) : Append(s, e)[i] = s[i]
    /\ Append(s, e)[Len(s) + 1] = e

\* What Append returns, as one opaque fact.
LEMMA Appended ==
    ASSUME NEW S, NEW s, NEW e, s \in Seq(S) /\ e \in S
    PROVE  AppendFacts(S, s, e)
<1>1. s \in Seq(S)
  OBVIOUS
<1>2. e \in S
  OBVIOUS
<1>3. Append(s, e) \in Seq(S)
  BY <1>1, <1>2
<1>4. Len(Append(s, e)) = Len(s) + 1
  BY <1>1, <1>2
<1>5. \A i \in 1 .. Len(s) : Append(s, e)[i] = s[i]
  BY <1>1, <1>2
<1>6. Append(s, e)[Len(s) + 1] = e
  BY <1>1, <1>2
<1> QED  BY <1>3, <1>4, <1>5, <1>6 DEF AppendFacts

\* The last piece grows.
LEMMA JoinsGrow ==
    ASSUME NEW B, NEW w \in Seq(B), NEW ps \in Seq(Seq(B)), NEW x \in Seq(B), Joins(w, ps),
           Len(ps) > 0
    PROVE  Joins(w \o x, [ps EXCEPT ![Len(ps)] = @ \o x])
<1> DEFINE n == Len(ps)
           fs == SubSeq(ps, 1, n - 1)
           l == ps[n]
           qs == [ps EXCEPT ![n] = l \o x]
<1>1. n \in Nat \ {0} /\ n - 1 \in 0 .. n /\ (n - 1) + 1 = n /\ n \in 1 .. n
  OBVIOUS
<1>2. PICK u \in Seq(B), v \in Seq(B) :
         w = u \o v /\ Joins(u, fs) /\ Joins(v, SubSeq(ps, (n - 1) + 1, n))
  <2> PICK k, us, vs : k = n - 1 /\ us = fs /\ vs = SubSeq(ps, (n - 1) + 1, n)
    OBVIOUS
  <2>1. k \in 0 .. Len(ps) /\ us = SubSeq(ps, 1, k) /\ vs = SubSeq(ps, k + 1, Len(ps))
    BY <1>1
  <2>2. Parted(B, w, us, vs)
    BY ONLY <2>1, w \in Seq(B), ps \in Seq(Seq(B)), Joins(w, ps), JoinsParted
  <2> QED  BY <2>2 DEF Parted
<1>3. l \in Seq(B)
  BY <1>1, ElementOfSeq
<1>4. SubSeq(ps, (n - 1) + 1, n) = <<l>>
  BY <1>1, PartOfOne
<1>5. v = l
  <2>1. Joins(v, <<l>>)
    BY <1>2, <1>4
  <2> QED  BY <1>3, <2>1, OneJoins, Zenon
<1>6. l \o x \in Seq(B) /\ (u \o l) \o x = u \o (l \o x)
  <2> HIDE DEF l, n, fs, qs
  <2>1. l \o x \in Seq(B)
    BY <1>3, ConcatProperties
  <2>2. Over(B, u) /\ Over(B, l) /\ Over(B, x)
    BY <1>3 DEF Over
  <2>3. Cat(Cat(u, l), x) = Cat(u, Cat(l, x))
    BY ONLY <2>2, Assoc
  <2> QED  BY <2>1, <2>3 DEF Cat
<1>7. fs \in Seq(Seq(B)) /\ Len(fs) = n - 1 /\ \A i \in 1 .. n - 1 : fs[i] = ps[i]
  <2> PICK k : k = n - 1
    OBVIOUS
  <2>1. /\ ps \in Seq(Seq(B)) /\ 0 \in 0 .. Len(ps) /\ k \in 0 .. Len(ps)
        /\ 0 + 1 = 1 /\ k - 0 = k /\ \A i \in 1 .. k : 0 + i = i
    BY <1>1
  <2>2. /\ SubSeq(ps, 0 + 1, k) \in Seq(Seq(B)) /\ Len(SubSeq(ps, 0 + 1, k)) = k - 0
        /\ \A i \in 1 .. k - 0 : SubSeq(ps, 0 + 1, k)[i] = ps[0 + i]
    BY ONLY <2>1, PartOf
  <2> QED  BY <2>1, <2>2
<1>8. Joins(u \o (l \o x), Append(fs, l \o x))
  BY <1>2, <1>6, <1>7, JoinsAppend
<1>9. qs = Append(fs, l \o x)
  <2>1. /\ qs \in Seq(Seq(B)) /\ Len(qs) = n
        /\ \A j \in 1 .. n : qs[j] = IF j = n THEN l \o x ELSE ps[j]
    BY <1>1, <1>6, ExceptSeq
  <2> DEFINE rs == Append(fs, l \o x)
  <2>2. /\ rs \in Seq(Seq(B)) /\ Len(rs) = (n - 1) + 1
        /\ \A i \in 1 .. n - 1 : rs[i] = fs[i]
        /\ rs[(n - 1) + 1] = l \o x
    <3> PICK e \in Seq(B) : e = l \o x
      BY <1>6
    <3> PICK as \in Seq(Seq(B)) : as = fs
      BY <1>7
    <3>2. /\ Append(as, e) \in Seq(Seq(B)) /\ Len(Append(as, e)) = Len(as) + 1
          /\ \A i \in 1 .. Len(as) : Append(as, e)[i] = as[i]
          /\ Append(as, e)[Len(as) + 1] = e
      <4>1. as \in Seq(Seq(B)) /\ e \in Seq(B)
        OBVIOUS
      <4>2. AppendFacts(Seq(B), as, e)
        BY ONLY <4>1, Appended, Zenon
      <4> QED  BY <4>2 DEF AppendFacts
    <3>3. Len(as) = n - 1
      BY <1>7
    <3> QED  BY <3>2, <3>3
  <2> HIDE DEF rs, qs, n
  <2>3. ASSUME NEW i \in 1 .. n PROVE qs[i] = rs[i]
    <3>1. CASE i = n
      BY <1>1, <2>1, <2>2, <3>1
    <3>2. CASE i # n
      <4>1. i \in 1 .. n - 1
        BY <1>1, <3>2
      <4> QED  BY <1>7, <2>1, <2>2, <3>2, <4>1
    <3> QED  BY <3>1, <3>2
  <2>4. Len(qs) = Len(rs)
    BY <1>1, <2>1, <2>2
  <2>5. qs = rs
    BY <2>1, <2>2, <2>3, <2>4, SeqEqual
  <2> QED  BY <2>5 DEF rs
<1> QED  BY <1>2, <1>5, <1>6, <1>8, <1>9

\* Two ways to cut the same bytes in two, the first cut not before the second.
LEMMA PrefixCancel ==
    ASSUME NEW B, NEW a \in Seq(B), NEW b \in Seq(B), NEW c \in Seq(B), NEW d \in Seq(B),
           a \o b = c \o d, Len(c) <= Len(a)
    PROVE  /\ SubSeq(a, 1, Len(c)) = c
           /\ SubSeq(a, Len(c) + 1, Len(a)) \o b = d
<1> DEFINE n == Len(c)
           m == Len(a)
           f == SubSeq(a, 1, n)
           g == SubSeq(a, n + 1, m)
<1>1. n \in Nat /\ m \in Nat /\ n <= m
  OBVIOUS
<1>2. f \in Seq(B) /\ Len(f) = n /\ \A i \in 1 .. n : f[i] = a[i]
  <2>1. 0 \in 0 .. m /\ n \in 0 .. m /\ 0 + 1 = 1 /\ n - 0 = n
    BY <1>1
  <2>2. f \in Seq(B) /\ Len(f) = n /\ \A i \in 1 .. n : f[i] = a[0 + i]
    BY <2>1, PartOf
  <2>3. \A i \in 1 .. n : 0 + i = i
    BY <1>1
  <2> QED  BY <2>2, <2>3
<1>3. g \in Seq(B) /\ a = f \o g
  <2>1. n \in 0 .. m /\ m \in n .. m /\ 1 \in 1 .. m + 1 /\ n \in 1 - 1 .. m
    BY <1>1
  <2>2. g \in Seq(B)
    BY <2>1, PartOf
  <2>3. f \o g = SubSeq(a, 1, m)
    BY <2>1, ConcatAdjacentSubSeq
  <2> QED  BY <2>2, <2>3, SubSeqFull
<1>4. \A i \in 1 .. n : f[i] = c[i]
  <2> SUFFICES ASSUME NEW i \in 1 .. n PROVE f[i] = c[i]
    OBVIOUS
  <2>1. Len(b) \in Nat /\ Len(d) \in Nat
    OBVIOUS
  <2>2. i \in 1 .. m + Len(b) /\ i <= m /\ i \in 1 .. n + Len(d) /\ i <= n
    BY <1>1, <2>1
  <2>3. (a \o b)[i] = a[i]
    BY <2>2, ConcatProperties
  <2>4. (c \o d)[i] = c[i]
    BY <2>2, ConcatProperties
  <2> QED  BY <1>2, <2>3, <2>4
<1>5. f = c
  BY <1>2, <1>4, SeqEqual
<1>6. c \o (g \o b) = c \o d
  <2> HIDE DEF f, g
  <2>1. Over(B, c) /\ Over(B, g) /\ Over(B, b)
    BY <1>3 DEF Over
  <2>2. Cat(Cat(c, g), b) = Cat(c, Cat(g, b))
    BY ONLY <2>1, Assoc
  <2> QED  BY <1>3, <1>5, <2>2 DEF Cat
<1>7. g \o b \in Seq(B)
  BY <1>3, ConcatProperties
<1>8. g \o b = d
  <2> PICK e \in Seq(B) : e = g \o b
    BY <1>7
  <2>1. c \o e = c \o d
    BY <1>6
  <2>2. e = d
    BY ONLY <2>1, c \in Seq(B), d \in Seq(B), e \in Seq(B), ConcatSimplifications
  <2> QED  BY <2>2
<1> QED  BY <1>5, <1>8
==============================================================================
