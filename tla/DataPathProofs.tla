--------------------------- MODULE DataPathProofs ---------------------------
(***************************************************************************)
(* The proofs about DataPath, for files, chunks, streams, pieces and       *)
(* segments of any size: the inductive invariant and the safety properties *)
(* it implies.                                                             *)
(*                                                                         *)
(* The heart of it is one equation per stream, NoByteLost: wherever the    *)
(* stream is cut, what lies in the receiver's buffer, on its way, in the   *)
(* queue and in the task that holds the mutex is, in this order, the       *)
(* frames not yet handed up.                                               *)
(***************************************************************************)
EXTENDS DataPathProperties, BasicLemmas, FiniteSetTheorems

------------------------------------------------------------------------------
(* The stream of one direction: the frames not yet handed up are what lies in *)
(* the receiver's buffer, in the segments on their way, in the queue and in   *)
(* the part of the last frame that its task has still to send.                *)

StreamOK(B, buf, segs, queue, ahead, rest) ==
    \E w, s, q \in Seq(B) :
       /\ Joins(w, ahead) /\ Joins(s, segs) /\ Joins(q, queue)
       /\ w = Cat(buf, Cat(s, Cat(q, rest)))

\* A task takes the mutex: its frame is ahead, and all of it is to be sent.
LEMMA StreamLock ==
    ASSUME NEW B, NEW buf \in Seq(B), NEW segs \in Seq(Seq(B)),
           NEW queue \in Seq(Seq(B)), NEW ahead \in Seq(Seq(B)), NEW x \in Seq(B),
           StreamOK(B, buf, segs, queue, ahead, <<>>)
    PROVE  StreamOK(B, buf, segs, queue, Append(ahead, x), x)
<1>1. PICK w \in Seq(B), s \in Seq(B), q \in Seq(B) :
         /\ Joins(w, ahead) /\ Joins(s, segs) /\ Joins(q, queue)
         /\ w = Cat(buf, Cat(s, Cat(q, <<>>)))
  BY DEF StreamOK
<1>2. Over(B, buf) /\ Over(B, s) /\ Over(B, q) /\ Over(B, x) /\ Over(B, w)
  BY DEF Over
<1>3. Cat(w, x) = Cat(buf, Cat(s, Cat(q, x)))
  <2>1. w = Cat(buf, Cat(s, q))
    BY ONLY <1>1, <1>2, OverConcat
  <2>2. Over(B, Cat(s, q))
    BY ONLY <1>2, OverConcat
  <2>3. Cat(Cat(buf, Cat(s, q)), x) = Cat(buf, Cat(Cat(s, q), x))
    BY ONLY <1>2, <2>2, Assoc
  <2>4. Cat(Cat(s, q), x) = Cat(s, Cat(q, x))
    BY ONLY <1>2, Assoc
  <2> QED  BY ONLY <2>1, <2>3, <2>4
<1>4. Cat(w, x) \in Seq(B)
  BY ConcatProperties DEF Cat
<1>5. Joins(Cat(w, x), Append(ahead, x))
  BY <1>1, JoinsAppend DEF Cat
<1> QED  BY <1>1, <1>3, <1>4, <1>5 DEF StreamOK

\* ikcp_send puts the first part of the rest into the queue.
LEMMA StreamSend ==
    ASSUME NEW B, NEW buf \in Seq(B), NEW segs \in Seq(Seq(B)),
           NEW queue \in Seq(Seq(B)), NEW ahead \in Seq(Seq(B)),
           NEW x \in Seq(B), NEW rest \in Seq(B), NEW queue2,
           StreamOK(B, buf, segs, queue, ahead, Cat(x, rest)),
           \A q \in Seq(B) : Joins(q, queue) => Joins(Cat(q, x), queue2)
    PROVE  StreamOK(B, buf, segs, queue2, ahead, rest)
<1>1. PICK w \in Seq(B), s \in Seq(B), q \in Seq(B) :
         /\ Joins(w, ahead) /\ Joins(s, segs) /\ Joins(q, queue)
         /\ w = Cat(buf, Cat(s, Cat(q, Cat(x, rest))))
  BY DEF StreamOK
<1>2. Over(B, q) /\ Over(B, x) /\ Over(B, rest)
  BY DEF Over
<1>3. Cat(Cat(q, x), rest) = Cat(q, Cat(x, rest))
  BY ONLY <1>2, Assoc
<1>4. Cat(q, x) \in Seq(B)
  BY ConcatProperties DEF Cat
<1>5. Joins(Cat(q, x), queue2)
  BY <1>1
<1>6. w = Cat(buf, Cat(s, Cat(Cat(q, x), rest)))
  BY ONLY <1>1, <1>3
<1> QED  BY <1>1, <1>4, <1>5, <1>6 DEF StreamOK

\* ikcp_flush moves the first segments of the queue.
LEMMA StreamFlush ==
    ASSUME NEW B, NEW buf \in Seq(B), NEW segs \in Seq(Seq(B)),
           NEW queue \in Seq(Seq(B)), NEW ahead \in Seq(Seq(B)), NEW rest \in Seq(B),
           NEW n \in 0 .. Len(queue),
           StreamOK(B, buf, segs, queue, ahead, rest)
    PROVE  /\ StreamOK(B, buf, segs \o SubSeq(queue, 1, n),
                       SubSeq(queue, n + 1, Len(queue)), ahead, rest)
           /\ segs \o SubSeq(queue, 1, n) \in Seq(Seq(B))
           /\ SubSeq(queue, n + 1, Len(queue)) \in Seq(Seq(B))
<1> DEFINE f == SubSeq(queue, 1, n)
           g == SubSeq(queue, n + 1, Len(queue))
<1>1. PICK w \in Seq(B), s \in Seq(B), q \in Seq(B) :
         /\ Joins(w, ahead) /\ Joins(s, segs) /\ Joins(q, queue)
         /\ w = Cat(buf, Cat(s, Cat(q, rest)))
  BY DEF StreamOK
<1>2. PICK u \in Seq(B), v \in Seq(B) : q = u \o v /\ Joins(u, f) /\ Joins(v, g)
  <2> PICK a, b : a = f /\ b = g
    OBVIOUS
  <2>1. Parted(B, q, a, b)
    BY <1>1, JoinsParted
  <2> QED  BY <2>1 DEF Parted
<1>3. f \in Seq(Seq(B)) /\ g \in Seq(Seq(B))
  <2>1. 0 \in 0 .. Len(queue) /\ n \in 0 .. Len(queue) /\ 0 + 1 = 1
        /\ Len(queue) \in n .. Len(queue)
    OBVIOUS
  <2> QED  BY <2>1, PartOf
<1> HIDE DEF f, g
<1>4. segs \o f \in Seq(Seq(B))
  BY <1>3, ConcatProperties
<1>5. Joins(Cat(s, u), segs \o f)
  BY <1>1, <1>2, <1>3, JoinsConcat DEF Cat
<1>6. Over(B, s) /\ Over(B, u) /\ Over(B, v) /\ Over(B, rest)
  BY DEF Over
<1>7. Cat(s, Cat(q, rest)) = Cat(Cat(s, u), Cat(v, rest))
  <2>1. Over(B, Cat(v, rest))
    BY ONLY <1>6, OverConcat
  <2>2. Cat(Cat(u, v), rest) = Cat(u, Cat(v, rest))
    BY ONLY <1>6, Assoc
  <2>3. Cat(s, Cat(u, Cat(v, rest))) = Cat(Cat(s, u), Cat(v, rest))
    BY ONLY <1>6, <2>1, Assoc
  <2>4. q = Cat(u, v)
    BY <1>2 DEF Cat
  <2> QED  BY ONLY <2>2, <2>3, <2>4
<1>8. w = Cat(buf, Cat(Cat(s, u), Cat(v, rest)))
  BY ONLY <1>1, <1>7
<1>9. Cat(s, u) \in Seq(B)
  BY ConcatProperties DEF Cat
<1>10. StreamOK(B, buf, segs \o f, g, ahead, rest)
  BY <1>1, <1>2, <1>5, <1>8, <1>9 DEF StreamOK
<1> QED  BY <1>3, <1>4, <1>10 DEF f, g

\* ikcp_recv moves a segment to the buffer.
LEMMA StreamRead ==
    ASSUME NEW B, NEW buf \in Seq(B), NEW segs \in Seq(Seq(B)),
           NEW queue \in Seq(Seq(B)), NEW ahead \in Seq(Seq(B)), NEW rest \in Seq(B),
           Len(segs) > 0,
           StreamOK(B, buf, segs, queue, ahead, rest)
    PROVE  /\ StreamOK(B, buf \o Head(segs), Tail(segs), queue, ahead, rest)
           /\ buf \o Head(segs) \in Seq(B) /\ Tail(segs) \in Seq(Seq(B))
<1> DEFINE h == Head(segs)
           t == Tail(segs)
<1>1. PICK w \in Seq(B), s \in Seq(B), q \in Seq(B) :
         /\ Joins(w, ahead) /\ Joins(s, segs) /\ Joins(q, queue)
         /\ w = Cat(buf, Cat(s, Cat(q, rest)))
  BY DEF StreamOK
<1>2. h \in Seq(B) /\ t \in Seq(Seq(B)) /\ \E v \in Seq(B) : s = h \o v /\ Joins(v, t)
  BY <1>1, JoinsHead
<1> HIDE DEF h, t
<1>3. PICK v \in Seq(B) : s = h \o v /\ Joins(v, t)
  BY <1>2
<1>4. Over(B, buf) /\ Over(B, h) /\ Over(B, v) /\ Over(B, q) /\ Over(B, rest)
  BY <1>2 DEF Over
<1>5. w = Cat(Cat(buf, h), Cat(v, Cat(q, rest)))
  <2>1. Over(B, Cat(q, rest))
    BY ONLY <1>4, OverConcat
  <2>2. Over(B, Cat(v, Cat(q, rest)))
    BY ONLY <1>4, <2>1, OverConcat
  <2>3. Cat(Cat(h, v), Cat(q, rest)) = Cat(h, Cat(v, Cat(q, rest)))
    BY ONLY <1>4, <2>1, Assoc
  <2>4. Cat(Cat(buf, h), Cat(v, Cat(q, rest))) = Cat(buf, Cat(h, Cat(v, Cat(q, rest))))
    BY ONLY <1>4, <2>2, Assoc
  <2>5. s = Cat(h, v)
    BY <1>3 DEF Cat
  <2> QED  BY ONLY <1>1, <2>3, <2>4, <2>5
<1>6. buf \o h \in Seq(B)
  BY <1>2, ConcatProperties
<1>7. StreamOK(B, Cat(buf, h), t, queue, ahead, rest)
  BY <1>1, <1>3, <1>5 DEF StreamOK
<1> QED  BY <1>2, <1>6, <1>7 DEF h, t, Cat

\* What is in the buffer is the beginning of the first frame ahead.
LEMMA StreamFirst ==
    ASSUME NEW B, NEW buf \in Seq(B), NEW segs \in Seq(Seq(B)),
           NEW queue \in Seq(Seq(B)), NEW ahead \in Seq(Seq(B)), NEW rest \in Seq(B),
           Len(buf) > 0,
           StreamOK(B, buf, segs, queue, ahead, rest)
    PROVE  /\ Len(ahead) > 0
           /\ \A i \in 1 .. Len(buf) : i <= Len(Head(ahead)) => buf[i] = Head(ahead)[i]
<1>1. PICK w \in Seq(B), s \in Seq(B), q \in Seq(B) :
         /\ Joins(w, ahead) /\ Joins(s, segs) /\ Joins(q, queue)
         /\ w = Cat(buf, Cat(s, Cat(q, rest)))
  BY DEF StreamOK
<1>2. PICK z \in Seq(B) : z = Cat(s, Cat(q, rest))
  <2>1. Cat(q, rest) \in Seq(B)
    BY ConcatProperties DEF Cat
  <2> HIDE DEF Cat
  <2>2. PICK y \in Seq(B) : y = Cat(q, rest)
    BY <2>1
  <2>3. Cat(s, y) \in Seq(B)
    BY ConcatProperties DEF Cat
  <2> QED  BY <2>2, <2>3
<1>3. w = buf \o z
  BY ONLY <1>1, <1>2 DEF Cat
<1>4. /\ Len(w) = Len(buf) + Len(z)
      /\ \A i \in 1 .. Len(buf) + Len(z) : w[i] = IF i <= Len(buf) THEN buf[i] ELSE z[i - Len(buf)]
  BY <1>3, ConcatProperties
<1>5. Len(buf) \in Nat /\ Len(z) \in Nat /\ Len(ahead) \in Nat
  OBVIOUS
<1>6. Len(ahead) > 0
  <2> SUFFICES ASSUME Len(ahead) = 0 PROVE FALSE
    BY <1>5
  <2>1. ahead = <<>>
    BY EmptySeq
  <2>2. w = <<>>
    BY <1>1, <2>1, JoinsNone
  <2>3. Len(w) = 0
    BY <2>2
  <2>4. Len(buf) + Len(z) = 0
    BY ONLY <1>4, <2>3
  <2>5. Len(buf) > 0
    OBVIOUS
  <2> QED  BY ONLY <1>5, <2>4, <2>5
<1> DEFINE h == Head(ahead)
           t == Tail(ahead)
<1>7. h \in Seq(B) /\ \E v \in Seq(B) : w = h \o v /\ Joins(v, t)
  BY <1>1, <1>6, JoinsHead
<1> HIDE DEF h, t
<1>8. PICK v \in Seq(B) : w = h \o v /\ Joins(v, t)
  BY <1>7
<1>9. \A i \in 1 .. Len(h) + Len(v) : w[i] = IF i <= Len(h) THEN h[i] ELSE v[i - Len(h)]
  BY <1>7, <1>8, ConcatProperties
<1>10. ASSUME NEW i \in 1 .. Len(buf), i <= Len(h) PROVE buf[i] = h[i]
  <2>1. Len(h) \in Nat /\ Len(v) \in Nat
    BY <1>7
  <2>2. i \in 1 .. Len(buf) + Len(z) /\ i \in 1 .. Len(h) + Len(v) /\ i <= Len(buf)
    BY <1>5, <1>10, <2>1
  <2> QED  BY <1>4, <1>9, <1>10, <2>2
<1> QED  BY <1>6, <1>10 DEF h

\* The first frame ahead is cut off the buffer that holds it.
LEMMA StreamHandUp ==
    ASSUME NEW B, NEW buf \in Seq(B), NEW segs \in Seq(Seq(B)),
           NEW queue \in Seq(Seq(B)), NEW ahead \in Seq(Seq(B)), NEW rest \in Seq(B),
           Len(ahead) > 0, Len(Head(ahead)) <= Len(buf),
           StreamOK(B, buf, segs, queue, ahead, rest)
    PROVE  /\ SubSeq(buf, 1, Len(Head(ahead))) = Head(ahead)
           /\ StreamOK(B, SubSeq(buf, Len(Head(ahead)) + 1, Len(buf)), segs, queue,
                       Tail(ahead), rest)
<1> DEFINE h == Head(ahead)
           t == Tail(ahead)
<1>1. PICK w \in Seq(B), s \in Seq(B), q \in Seq(B) :
         /\ Joins(w, ahead) /\ Joins(s, segs) /\ Joins(q, queue)
         /\ w = Cat(buf, Cat(s, Cat(q, rest)))
  BY DEF StreamOK
<1>2. PICK z \in Seq(B) : z = Cat(s, Cat(q, rest))
  <2>1. Cat(q, rest) \in Seq(B)
    BY ConcatProperties DEF Cat
  <2> HIDE DEF Cat
  <2>2. PICK y \in Seq(B) : y = Cat(q, rest)
    BY <2>1
  <2>3. Cat(s, y) \in Seq(B)
    BY ConcatProperties DEF Cat
  <2> QED  BY <2>2, <2>3
<1>3. w = buf \o z
  BY ONLY <1>1, <1>2 DEF Cat
<1>4. h \in Seq(B) /\ \E v \in Seq(B) : w = h \o v /\ Joins(v, t)
  BY <1>1, JoinsHead
<1>5. Len(h) <= Len(buf)
  OBVIOUS
<1> HIDE DEF h, t
<1>6. PICK v \in Seq(B) : w = h \o v /\ Joins(v, t)
  BY <1>4
<1>7. buf \o z = h \o v
  BY ONLY <1>3, <1>6
<1>8. SubSeq(buf, 1, Len(h)) = h /\ SubSeq(buf, Len(h) + 1, Len(buf)) \o z = v
  BY <1>4, <1>5, <1>7, PrefixCancel
<1>9. v = Cat(SubSeq(buf, Len(h) + 1, Len(buf)), Cat(s, Cat(q, rest)))
  BY ONLY <1>2, <1>8 DEF Cat
<1>10. StreamOK(B, SubSeq(buf, Len(h) + 1, Len(buf)), segs, queue, t, rest)
  BY <1>1, <1>6, <1>9 DEF StreamOK
<1> QED  BY <1>8, <1>10 DEF h, t

------------------------------------------------------------------------------
(* ikcp_send *)

\* A quotient that is rounded up.
LEMMA CeilDivBounds ==
    ASSUME NEW n \in Nat, NEW k \in Nat \ {0}
    PROVE  /\ CeilDiv(n, k) \in Nat /\ n <= CeilDiv(n, k) * k
           /\ CeilDiv(n, k) * k < n + k
<1> DEFINE a == n + k - 1
<1>1. a \in Nat
  OBVIOUS
<1>2. a \div k \in Nat /\ (a \div k) * k <= a /\ a < (a \div k) * k + k
  BY <1>1, DivMod
<1>3. CeilDiv(n, k) = a \div k
  BY DEF CeilDiv
<1> DEFINE d == a \div k
           p == d * k
<1>4. d \in Nat /\ p \in Nat /\ p <= n + k - 1 /\ n + k - 1 < p + k
  BY <1>2
<1> HIDE DEF d, p, a
<1>5. n <= p /\ p < n + k
  BY <1>4
<1> QED  BY <1>3, <1>4, <1>5 DEF d, p

\* It grows with the number.
LEMMA CeilDivMono ==
    ASSUME NEW m \in Nat, NEW n \in Nat, m <= n, NEW k \in Nat \ {0}
    PROVE  CeilDiv(m, k) <= CeilDiv(n, k)
<1> DEFINE c == CeilDiv(m, k)
           d == CeilDiv(n, k)
<1>1. c \in Nat /\ c * k < m + k
  BY CeilDivBounds
<1>2. d \in Nat /\ n <= d * k
  BY CeilDivBounds
<1> HIDE DEF c, d
<1>3. c * k < (d + 1) * k
  <2>1. (d + 1) * k = d * k + k
    BY <1>2
  <2> DEFINE x == c * k
             y == d * k
  <2>2. x \in Nat /\ y \in Nat /\ x < m + k /\ n <= y
    BY <1>1, <1>2
  <2> HIDE DEF x, y
  <2>3. x < y + k
    BY <2>2
  <2> QED  BY <2>1, <2>3 DEF x, y
<1>4. c < d + 1
  BY <1>1, <1>2, <1>3, MultCancel
<1>5. c <= d
  BY <1>1, <1>2, <1>4
<1> QED  BY <1>5 DEF c, d

\* Fragments cuts data into pieces of at most mss bytes, and loses none.
LEMMA FragmentsJoin ==
    ASSUME NEW B, NEW data \in Seq(B)
    PROVE  /\ Fragments(data) \in Seq(Seq(B))
           /\ \A k \in 1 .. Len(Fragments(data)) : Len(Fragments(data)[k]) <= mss
           /\ Joins(data, Fragments(data))
<1> DEFINE L == Len(data)
           F == CeilDiv(L, mss)
           fs == Fragments(data)
           cut == [k \in 0 .. F |-> IF k * mss <= L THEN k * mss ELSE L]
<1>1. mss \in Nat \ {0} /\ L \in Nat
  BY DataPathAssumption
<1>2. F \in Nat /\ L <= F * mss /\ F * mss < L + mss
  BY <1>1, CeilDivBounds
<1> HIDE DEF F, L
<1>3. ASSUME NEW k \in 0 .. F
      PROVE  /\ cut[k] \in 0 .. L /\ cut[k] = IF k * mss <= L THEN k * mss ELSE L
             /\ cut[k] = Min({k * mss, L})
  <2>1. k * mss \in Nat /\ k \in Nat
    BY <1>1, <1>2
  <2>2. cut[k] = IF k * mss <= L THEN k * mss ELSE L
    OBVIOUS
  <2>3. Min({k * mss, L}) = IF k * mss <= L THEN k * mss ELSE L
    BY <1>1, <2>1, MinOfTwo
  <2> DEFINE x == k * mss
             y == cut[k]
  <2>4. x \in Nat /\ y = IF x <= L THEN x ELSE L
    BY <2>1, <2>2
  <2> HIDE DEF x, y
  <2>5. y \in 0 .. L
    BY <1>1, <2>4
  <2> QED  BY <2>2, <2>3, <2>5 DEF y
<1>4. cut \in [0 .. F -> 0 .. L]
  BY <1>3
<1> HIDE DEF cut
<1>5. cut[0] = 0 /\ cut[F] = L
  <2>1. cut[0] = 0
    <3>1. 0 \in 0 .. F /\ 0 * mss = 0
      BY <1>1, <1>2
    <3>2. cut[0] = IF 0 * mss <= L THEN 0 * mss ELSE L
      BY ONLY <1>3, <3>1
    <3>3. cut[0] = IF 0 <= L THEN 0 ELSE L
      BY ONLY <3>1, <3>2
    <3> QED  BY ONLY <1>1, <3>3
  <2>2. cut[F] = L
    <3>1. F \in 0 .. F /\ F * mss \in Nat
      BY <1>1, <1>2
    <3>2. cut[F] = IF F * mss <= L THEN F * mss ELSE L
      BY <1>3, <3>1
    <3> QED  BY <1>1, <1>2, <3>1, <3>2
  <2> QED  BY <2>1, <2>2
<1>6. ASSUME NEW i \in 0 .. F, NEW j \in 0 .. F, i <= j PROVE cut[i] <= cut[j]
  <2> DEFINE x == i * mss
             y == j * mss
  <2>1. i \in Int /\ j \in Int /\ mss \in Nat
    BY <1>1, <1>2
  <2>2. x <= y
    BY <1>6, <2>1, MultMono
  <2>3. cut[i] = IF x <= L THEN x ELSE L
    BY <1>3
  <2>4. cut[j] = IF y <= L THEN y ELSE L
    BY <1>3
  <2>5. x \in Int /\ y \in Int
    BY <2>1
  <2> HIDE DEF x, y
  <2> QED  BY <1>1, <2>2, <2>3, <2>4, <2>5
<1>7. ASSUME NEW k \in 1 .. F
      PROVE  /\ k - 1 \in 0 .. F /\ k \in 0 .. F
             /\ cut[k - 1] = (k - 1) * mss
             /\ cut[k] <= cut[k - 1] + mss
             /\ cut[k - 1] \in 0 .. L /\ cut[k] \in cut[k - 1] .. L
  <2>1. k \in Nat /\ k - 1 \in 0 .. F /\ k \in 0 .. F /\ k - 1 <= k /\ k <= F
    BY <1>2
  <2> DEFINE x == (k - 1) * mss
             y == k * mss
             z == F * mss
  <2>2. x \in Nat /\ y \in Nat /\ z \in Nat
    BY <1>1, <1>2, <2>1
  <2>3. y = x + mss
    BY <1>1, <2>1
  <2>4. y <= z
    BY <1>1, <1>2, <2>1, MultMono
  <2>5. z < L + mss
    BY <1>2
  <2>6. cut[k - 1] = IF x <= L THEN x ELSE L
    BY <1>3, <2>1
  <2>7. cut[k] = IF y <= L THEN y ELSE L
    BY <1>3, <2>1
  <2> HIDE DEF x, y, z
  <2>8. x < L
    BY <1>1, <2>2, <2>3, <2>4, <2>5
  <2>9. cut[k - 1] = x /\ cut[k] <= x + mss /\ cut[k - 1] \in 0 .. L /\ cut[k] \in x .. L
    BY <1>1, <2>2, <2>3, <2>6, <2>7, <2>8
  <2>10. cut[k] <= cut[k - 1] + mss /\ cut[k] \in cut[k - 1] .. L
    BY ONLY <2>9
  <2>11. cut[k - 1] = (k - 1) * mss
    BY ONLY <2>9 DEF x
  <2> QED  BY ONLY <2>1, <2>9, <2>10, <2>11
<1>8. ASSUME NEW k \in 1 .. F
      PROVE  /\ fs[k] = SubSeq(data, cut[k - 1] + 1, cut[k])
             /\ fs[k] \in Seq(B) /\ Len(fs[k]) = cut[k] - cut[k - 1]
             /\ \A i \in 1 .. cut[k] - cut[k - 1] : fs[k][i] = data[cut[k - 1] + i]
  <2>1. fs[k] = SubSeq(data, (k - 1) * mss + 1, Min({k * mss, Len(data)}))
    BY DEF Fragments, F, L
  <2>2. fs[k] = SubSeq(data, cut[k - 1] + 1, cut[k])
    BY <1>3, <1>7, <2>1 DEF L
  <2>3. cut[k - 1] \in 0 .. Len(data) /\ cut[k] \in cut[k - 1] .. Len(data)
    BY <1>7 DEF L
  <2> PICK a, b, s : a = cut[k - 1] /\ b = cut[k] /\ s = fs[k]
    OBVIOUS
  <2> HIDE DEF fs, cut
  <2>4. a \in 0 .. Len(data) /\ b \in a .. Len(data) /\ s = SubSeq(data, a + 1, b)
    BY <2>2, <2>3
  <2>5. s \in Seq(B) /\ Len(s) = b - a /\ \A i \in 1 .. b - a : s[i] = data[a + i]
    BY ONLY <2>4, data \in Seq(B), PartOf
  <2> QED  BY <2>2, <2>5
<1>9. fs = [k \in 1 .. F |-> fs[k]]
  BY DEF Fragments, F, L
<1> HIDE DEF fs
<1>10. fs \in Seq(Seq(B)) /\ Len(fs) = F
  <2>1. fs \in [1 .. F -> Seq(B)]
    BY <1>8, <1>9
  <2>2. fs \in Seq(Seq(B))
    BY <1>2, <2>1, SeqDef
  <2>3. Len(fs) = F
    BY <1>2, <2>1
  <2> QED  BY <2>2, <2>3
<1>11. \A k \in 1 .. F : Len(fs[k]) <= mss
  <2> SUFFICES ASSUME NEW k \in 1 .. F PROVE Len(fs[k]) <= mss
    OBVIOUS
  <2> DEFINE x == cut[k - 1]
             y == cut[k]
  <2>1. Len(fs[k]) = y - x /\ y <= x + mss /\ x \in 0 .. L /\ y \in x .. L
    BY <1>7, <1>8
  <2> HIDE DEF x, y
  <2> QED  BY <1>1, <2>1
<1>12. ASSUME NEW k \in 1 .. F
       PROVE  /\ cut[k] = cut[k - 1] + Len(fs[k])
              /\ \A j \in 1 .. Len(fs[k]) : data[cut[k - 1] + j] = fs[k][j]
  <2> DEFINE x == cut[k - 1]
             y == cut[k]
  <2>1. x \in 0 .. L /\ y \in x .. L /\ Len(fs[k]) = y - x
        /\ \A i \in 1 .. y - x : fs[k][i] = data[x + i]
    BY <1>7, <1>8
  <2> HIDE DEF x, y
  <2>2. y = x + Len(fs[k]) /\ \A j \in 1 .. Len(fs[k]) : data[x + j] = fs[k][j]
    BY <1>1, <2>1
  <2> QED  BY <2>2 DEF x, y
<1>13. Cuts(data, fs, cut)
  BY <1>4, <1>5, <1>6, <1>10, <1>12 DEF Cuts, L
<1>14. Joins(data, fs)
  BY <1>13 DEF Joins
<1> QED  BY <1>10, <1>11, <1>14 DEF fs

\* The last segment of the queue is filled first.
LEMMA FillsLast ==
    ASSUME NEW B, NEW queue \in Seq(Seq(B)), NEW data \in Seq(B),
           \A k \in 1 .. Len(queue) : Len(queue[k]) <= mss
    PROVE  LET n      == Fills(queue, data)
               filled == IF n = 0 THEN queue
                         ELSE [queue EXCEPT ![Len(queue)] = @ \o SubSeq(data, 1, n)]
           IN  /\ n \in 0 .. Len(data) /\ filled \in Seq(Seq(B))
               /\ \A k \in 1 .. Len(filled) : Len(filled[k]) <= mss
               /\ \A q \in Seq(B) : Joins(q, queue) => Joins(Cat(q, SubSeq(data, 1, n)), filled)
<1> DEFINE n == Fills(queue, data)
           x == SubSeq(data, 1, n)
           filled == IF n = 0 THEN queue
                     ELSE [queue EXCEPT ![Len(queue)] = @ \o x]
           D == Len(data)
           Q == Len(queue)
           l == queue[Q]
<1>1. D \in Nat /\ Q \in Nat /\ mss \in Nat
  BY DataPathAssumption
<1>2. CASE n = 0
  <2>1. x = <<>> /\ filled = queue
    <3>1. x = SubSeq(data, 1, 0)
      BY <1>2
    <3> QED  BY <1>2, <3>1, SubSeqEmpty
  <2>2. n \in 0 .. D
    BY <1>1, <1>2
  <2> HIDE DEF n, x, filled
  <2>3. ASSUME NEW q \in Seq(B), Joins(q, queue) PROVE Joins(Cat(q, x), filled)
    <3>1. q \o <<>> = q
      BY ConcatEmptySeq
    <3>2. Cat(q, x) = q
      BY <2>1, <3>1 DEF Cat
    <3> QED  BY <2>1, <2>3, <3>2
  <2> QED  BY <2>1, <2>2, <2>3 DEF n, x, filled
<1>3. CASE n # 0
  <2>1. queue # <<>> /\ n = Min({D, mss - Len(Last(queue))})
    BY <1>3 DEF Fills
  <2>2. Q > 0 /\ Q \in 1 .. Q
    BY <1>1, <2>1, EmptySeq
  <2>3. l \in Seq(B) /\ Last(queue) = l
    BY <2>2, ElementOfSeq DEF Last
  <2>4. Len(l) \in Nat /\ Len(l) <= mss
    BY <2>2, <2>3
  <2> DEFINE r == mss - Len(l)
  <2>5. r \in Nat /\ Len(l) + r = mss
    BY <1>1, <2>4
  <2>6. n = Min({D, r})
    BY <2>1, <2>3
  <2> HIDE DEF r, n
  <2>7. n \in 0 .. D /\ n <= r
    <3>1. n = IF D <= r THEN D ELSE r
      BY <1>1, <2>5, <2>6, MinOfTwo
    <3> QED  BY <1>1, <2>5, <3>1
  <2>8. x \in Seq(B) /\ Len(x) = n
    <3>1. 0 \in 0 .. D /\ n \in 0 .. D /\ 0 + 1 = 1 /\ n - 0 = n
      BY <1>1, <2>7
    <3> QED  BY <3>1, PartOf
  <2>9. filled = [queue EXCEPT ![Q] = @ \o x]
    BY <1>3
  <2>10. filled = [queue EXCEPT ![Q] = l \o x]
    BY <2>9
  <2> HIDE DEF x, filled
  <2>11. l \o x \in Seq(B) /\ Len(l \o x) = Len(l) + n
    BY <2>3, <2>8, ConcatProperties
  <2>12. Len(l \o x) <= mss
    <3> DEFINE y == Len(l \o x)
    <3>1. y = Len(l) + n
      BY <2>11
    <3> HIDE DEF y
    <3>2. y <= mss
      BY <1>1, <2>4, <2>5, <2>7, <3>1
    <3> QED  BY <3>2 DEF y
  <2>13. /\ filled \in Seq(Seq(B)) /\ Len(filled) = Q
         /\ \A j \in 1 .. Q : filled[j] = IF j = Q THEN l \o x ELSE queue[j]
    BY <2>2, <2>10, <2>11, ExceptSeq
  <2>14. \A j \in 1 .. Len(filled) : Len(filled[j]) <= mss
    <3> SUFFICES ASSUME NEW j \in 1 .. Q PROVE Len(filled[j]) <= mss
      BY <2>13
    <3>1. CASE j = Q
      <4>1. filled[j] = l \o x
        BY <2>13, <3>1
      <4> QED  BY ONLY <2>12, <4>1
    <3>2. CASE j # Q
      <4>1. filled[j] = queue[j]
        BY <2>13, <3>2
      <4>2. Len(queue[j]) <= mss
        OBVIOUS
      <4> QED  BY ONLY <4>1, <4>2
    <3> QED  BY <3>1, <3>2
  <2>15. ASSUME NEW q \in Seq(B), Joins(q, queue) PROVE Joins(Cat(q, x), filled)
    BY <2>2, <2>8, <2>9, <2>15, JoinsGrow DEF Cat
  <2> QED  BY <2>7, <2>13, <2>14, <2>15 DEF n, x, filled
<1> QED  BY <1>2, <1>3

\* What sendChunk gives to ikcp_send is never refused, and is queued whole: it
\* is short enough for the window, "128 KB max per ikcp_send".
LEMMA SendWhole ==
    ASSUME NEW B, NEW queue \in Seq(Seq(B)), NEW data \in Seq(B),
           \A k \in 1 .. Len(queue) : Len(queue[k]) <= mss,
           Len(data) <= max_send_size
    PROVE  LET r == ikcp_send(queue, data)
           IN  /\ r.error = FALSE /\ r.queue \in Seq(Seq(B))
               /\ \A k \in 1 .. Len(r.queue) : Len(r.queue[k]) <= mss
               /\ \A q \in Seq(B) : Joins(q, queue) => Joins(Cat(q, data), r.queue)
<1> DEFINE n == Fills(queue, data)
           x == SubSeq(data, 1, n)
           filled == IF n = 0 THEN queue
                     ELSE [queue EXCEPT ![Len(queue)] = @ \o x]
           rest == SubSeq(data, n + 1, Len(data))
           fits == CeilDiv(Len(rest), mss) < IKCP_WND_RCV
           fs == Fragments(rest)
           r == ikcp_send(queue, data)
<1>1. /\ n \in 0 .. Len(data) /\ filled \in Seq(Seq(B))
      /\ \A k \in 1 .. Len(filled) : Len(filled[k]) <= mss
      /\ \A q \in Seq(B) : Joins(q, queue) => Joins(Cat(q, x), filled)
  BY FillsLast
<1>2. /\ r.queue = (IF fits THEN filled \o fs ELSE filled)
      /\ r.error = (~fits /\ n = 0)
  BY DEF ikcp_send
<1> HIDE DEF n, filled, fs, r
<1>3. x \in Seq(B) /\ rest \in Seq(B) /\ Len(rest) = Len(data) - n /\ data = x \o rest
  <2>1. /\ 0 \in 0 .. Len(data) /\ n \in 0 .. Len(data) /\ 0 + 1 = 1
        /\ Len(data) \in n .. Len(data) /\ 1 \in 1 .. Len(data) + 1
        /\ n \in 1 - 1 .. Len(data)
    BY <1>1
  <2>2. x \in Seq(B)
    BY <2>1, PartOf
  <2>3. rest \in Seq(B) /\ Len(rest) = Len(data) - n
    BY <2>1, PartOf
  <2>4. x \o rest = SubSeq(data, 1, Len(data))
    BY <2>1, ConcatAdjacentSubSeq
  <2> QED  BY <2>2, <2>3, <2>4, SubSeqFull
<1> HIDE DEF x, rest
<1>4. fits
  <2> DEFINE a == Len(rest)
             D == Len(data)
  <2>1. D \in Nat /\ D <= max_send_size /\ a = D - n /\ n \in 0 .. D
    BY <1>1, <1>3
  <2>2. max_send_size \in Nat /\ mss \in Nat \ {0} /\ IKCP_WND_RCV \in Nat
        /\ CeilDiv(max_send_size, mss) < IKCP_WND_RCV
    BY DataPathAssumption
  <2> HIDE DEF a, D
  <2>3. a \in Nat /\ a <= max_send_size
    BY <2>1, <2>2
  <2>4. CeilDiv(a, mss) <= CeilDiv(max_send_size, mss)
    BY <2>2, <2>3, CeilDivMono
  <2>5. CeilDiv(a, mss) \in Nat /\ CeilDiv(max_send_size, mss) \in Nat
    BY <2>2, <2>3, CeilDivBounds
  <2>6. CeilDiv(a, mss) < IKCP_WND_RCV
    BY <2>2, <2>4, <2>5
  <2> QED  BY <2>6 DEF a
<1>5. r.queue = filled \o fs /\ r.error = FALSE
  BY <1>2, <1>4
<1>6. /\ fs \in Seq(Seq(B)) /\ \A k \in 1 .. Len(fs) : Len(fs[k]) <= mss
      /\ Joins(rest, fs)
  BY <1>3, FragmentsJoin DEF fs
<1>7. /\ r.queue \in Seq(Seq(B)) /\ Len(r.queue) = Len(filled) + Len(fs)
      /\ \A i \in 1 .. Len(filled) + Len(fs) :
            r.queue[i] = IF i <= Len(filled) THEN filled[i] ELSE fs[i - Len(filled)]
  BY <1>1, <1>5, <1>6, ConcatProperties
<1>8. \A k \in 1 .. Len(r.queue) : Len(r.queue[k]) <= mss
  <2> SUFFICES ASSUME NEW k \in 1 .. Len(filled) + Len(fs) PROVE Len(r.queue[k]) <= mss
    BY <1>7
  <2> DEFINE a == Len(filled)
             b == Len(fs)
  <2>1. a \in Nat /\ b \in Nat
    BY <1>1, <1>6
  <2>2. CASE k <= a
    <3>1. k \in 1 .. a
      BY <2>1, <2>2
    <3>2. Len(filled[k]) <= mss
      BY <1>1, <3>1
    <3>3. r.queue[k] = filled[k]
      BY <1>7, <2>2
    <3> QED  BY ONLY <3>2, <3>3
  <2>3. CASE ~(k <= a)
    <3>1. k - a \in 1 .. b
      BY <2>1, <2>3
    <3>2. Len(fs[k - a]) <= mss
      BY <1>6, <3>1
    <3>3. r.queue[k] = fs[k - a]
      BY <1>7, <2>3
    <3> QED  BY ONLY <3>2, <3>3
  <2> QED  BY <2>2, <2>3
<1>9. ASSUME NEW q \in Seq(B), Joins(q, queue) PROVE Joins(Cat(q, data), r.queue)
  <2>1. Joins(Cat(q, x), filled)
    BY <1>1, <1>9
  <2>2. Over(B, q) /\ Over(B, x) /\ Over(B, rest)
    BY <1>3 DEF Over
  <2>3. Cat(q, data) = Cat(Cat(q, x), rest)
    <3>1. Cat(Cat(q, x), rest) = Cat(q, Cat(x, rest))
      BY ONLY <2>2, Assoc
    <3>2. data = Cat(x, rest)
      BY <1>3 DEF Cat
    <3> QED  BY ONLY <3>1, <3>2
  <2>4. PICK y \in Seq(B) : y = Cat(q, x)
    <3>1. Over(B, Cat(q, x))
      BY ONLY <2>2, OverConcat
    <3> QED  BY ONLY <3>1 DEF Over
  <2>5. Joins(y, filled)
    BY ONLY <2>1, <2>4
  <2>6. Joins(y \o rest, filled \o fs)
    BY <1>1, <1>3, <1>6, <2>5, JoinsConcat
  <2> QED  BY ONLY <1>5, <2>3, <2>4, <2>6 DEF Cat
<1> QED  BY <1>5, <1>7, <1>8, <1>9 DEF r

------------------------------------------------------------------------------
(* Chunks and their messages *)

\* A chunk's size, its bytes' places in the file, and the messages it can become.
Size(c)     == Min({ChunkSize, Len(file_view) - c * ChunkSize})
Region(c)   == c * ChunkSize + 1 .. c * ChunkSize + Size(c)
Messages(c) == {ChunkMessage(Slice(file_view, c), strategy, size, Key) :
                   size \in CompressedSizes(Size(c), strategy)}

\* A byte of a frame.
Byte == Nat \X Nat \X Nat

\* What never changes about the two files.
FileInv ==
    /\ file_view \in Seq(Nat) /\ Len(file_view) \in Nat \ {0}
    /\ write_view \in Seq(Nat) /\ Len(write_view) = Len(file_view)
    /\ strategy \in {"NONE", "LZ4"}

\* Chunks are numbered from 0, and each begins before the end of the file.
LEMMA ChunkBegins ==
    ASSUME FileInv
    PROVE  /\ TotalChunks(Len(file_view)) \in Nat
           /\ Chunks = 0 .. TotalChunks(Len(file_view)) - 1
           /\ \A c \in Chunks : c \in Nat /\ c * ChunkSize \in Nat
                                  /\ c * ChunkSize < Len(file_view)
<1> DEFINE n == Len(file_view)
           t == TotalChunks(n)
<1>1. n \in Nat \ {0} /\ ChunkSize \in Nat \ {0}
  BY CodecAssumption DEF FileInv
<1>2. t \in Nat /\ n <= t * ChunkSize /\ t * ChunkSize < n + ChunkSize
  BY <1>1, CeilDivBounds DEF TotalChunks
<1>3. Chunks = 0 .. t - 1
  BY DEF Chunks, ChunkIds
<1> HIDE DEF n, t
<1>4. ASSUME NEW c \in 0 .. t - 1
      PROVE  c \in Nat /\ c * ChunkSize \in Nat /\ c * ChunkSize < n
  <2>1. c \in Nat /\ c \in Int /\ c + 1 <= t
    BY <1>2
  <2> DEFINE x == c * ChunkSize
             y == (c + 1) * ChunkSize
             z == t * ChunkSize
  <2>2. x \in Nat /\ y \in Nat /\ z \in Nat
    BY <1>1, <1>2, <2>1
  <2>3. y = x + ChunkSize
    BY <1>1, <2>1
  <2>4. y <= z
    BY <1>1, <1>2, <2>1, MultMono
  <2>5. z < n + ChunkSize
    BY <1>2
  <2> HIDE DEF x, y, z
  <2>6. x < n
    BY <1>1, <2>2, <2>3, <2>4, <2>5
  <2> QED  BY <2>1, <2>2, <2>6 DEF x
<1> QED  BY <1>2, <1>3, <1>4 DEF n, t

\* No chunk is empty, larger than ChunkSize, or beyond the end of the file.
LEMMA SizeBounds ==
    ASSUME FileInv, NEW c \in Chunks
    PROVE  /\ Size(c) \in 1 .. ChunkSize
           /\ c * ChunkSize + Size(c) <= Len(file_view)
           /\ Size(c) = ChunkSize \/ c * ChunkSize + Size(c) = Len(file_view)
<1> DEFINE n == Len(file_view)
           x == c * ChunkSize
           r == n - x
<1>1. n \in Nat \ {0} /\ ChunkSize \in Nat \ {0}
  BY CodecAssumption DEF FileInv
<1>2. x \in Nat /\ x < n
  BY ChunkBegins
<1> HIDE DEF n, x
<1>3. r \in Nat \ {0} /\ x + r = n
  BY <1>1, <1>2
<1>4. Size(c) = Min({ChunkSize, r})
  BY DEF Size, n, x
<1> HIDE DEF r
<1>5. Size(c) = IF ChunkSize <= r THEN ChunkSize ELSE r
  BY <1>1, <1>3, <1>4, MinOfTwo
<1>6. Size(c) \in 1 .. ChunkSize /\ x + Size(c) <= n /\ (Size(c) = ChunkSize \/ x + Size(c) = n)
  BY <1>1, <1>2, <1>3, <1>5
<1> QED  BY <1>6 DEF x, n

\* What is in a message.
LEMMA MessageFacts ==
    ASSUME FileInv, NEW c \in Chunks, NEW m \in Messages(c)
    PROVE  /\ m.chunk_id = c /\ m.original_size = Size(c)
           /\ m.compressed_size \in 1 .. ChunkSize + LzSlack + TagSize
           /\ m.compress_stra = strategy
           /\ m.payload.plain.strategy = strategy
           /\ m.payload.plain.data
                = SubSeq(file_view, c * ChunkSize + 1, c * ChunkSize + Size(c))
           /\ m.crc32 = Checksum(m.payload.plain.data)
           /\ m.payload.key = Key /\ m.payload.iv = c /\ m.payload.size >= TagSize
<1>1. PICK size \in CompressedSizes(Size(c), strategy) :
         m = ChunkMessage(Slice(file_view, c), strategy, size, Key)
  BY DEF Messages
<1> DEFINE S == Slice(file_view, c)
           d == SubSeq(file_view, c * ChunkSize + 1, c * ChunkSize + Size(c))
<1>2. S.id = c /\ S.payloadSize = Size(c) /\ S.data = d /\ S.crc32 = Checksum(d)
  BY DEF Slice, Size
<1> HIDE DEF S, d
<1>3. /\ m.chunk_id = c /\ m.original_size = Size(c) /\ m.compress_stra = strategy
      /\ m.payload.plain.strategy = strategy /\ m.payload.plain.data = d
      /\ m.crc32 = Checksum(d) /\ m.payload.key = Key /\ m.payload.iv = c
      /\ m.payload.size = size + TagSize /\ m.compressed_size = size + TagSize
  BY <1>1, <1>2 DEF ChunkMessage, Encrypt, Compress, S
<1>4. {ChunkSize, BitsPerByte} \subseteq Nat \ {0} /\ {LzSlack, TagSize} \subseteq Nat
  BY CodecAssumption
<1>5. size \in 1 .. ChunkSize + LzSlack
  <2>1. Size(c) \in 1 .. ChunkSize
    BY SizeBounds
  <2>2. size = Size(c) \/ size \in 1 .. Size(c) + LzSlack
    BY DEF CompressedSizes
  <2> QED  BY <1>4, <2>1, <2>2
<1>6. m.compressed_size \in 1 .. ChunkSize + LzSlack + TagSize /\ m.payload.size >= TagSize
  BY <1>3, <1>4, <1>5
<1> QED  BY <1>3, <1>6 DEF d

------------------------------------------------------------------------------
(* Frames *)

\* Dividing twice is dividing by the product.
LEMMA DivDiv ==
    ASSUME NEW n \in Nat, NEW v \in Nat \ {0}, NEW w \in Nat \ {0}
    PROVE  n \div (v * w) = (n \div v) \div w
<1> DEFINE a == n \div v
           r == n % v
           b == a \div w
           t == a % w
<1>1. a \in Nat /\ r \in 0 .. v - 1 /\ n = a * v + r
  BY DivMod
<1>2. b \in Nat /\ t \in 0 .. w - 1 /\ a = b * w + t
  BY <1>1, DivMod
<1> HIDE DEF a, r, b, t
<1>3. n = b * (v * w) + (t * v + r)
  <2>1. (b * w + t) * v = b * (v * w) + t * v
    BY <1>2
  <2> QED  BY <1>1, <1>2, <2>1
<1>4. v * w \in Nat \ {0} /\ t * v + r \in 0 .. v * w - 1
  <2>1. t \in Int /\ t + 1 \in Int /\ t + 1 <= w /\ t \in Nat
    BY <1>2
  <2>2. (t + 1) * v <= w * v
    BY <2>1, MultMono
  <2> DEFINE x == t * v
             y == v * w
  <2>3. (t + 1) * v = x + v /\ w * v = y /\ x \in Nat /\ y \in Nat
    BY <2>1
  <2> HIDE DEF x, y
  <2>4. y # 0 /\ x + r \in 0 .. y - 1
    BY <1>1, <2>2, <2>3
  <2> QED  BY <2>3, <2>4 DEF x, y
<1> DEFINE p == v * w
           u == t * v + r
<1>5. p \in Nat \ {0} /\ u \in 0 .. p - 1 /\ n = b * p + u
  BY <1>3, <1>4
<1> HIDE DEF p, u
<1>6. n \div p = b
  BY <1>2, <1>5, DivUnique
<1> QED  BY <1>6 DEF p, b, a

\* Four digits tell a number that four digits can tell.
LEMMA Digits ==
    ASSUME NEW n \in Nat, n < ByteValues * ByteValues * ByteValues * ByteValues
    PROVE  LengthByte(n, 1) * PlaceValue[1] + LengthByte(n, 2) * PlaceValue[2]
             + LengthByte(n, 3) * PlaceValue[3] + LengthByte(n, 4) * PlaceValue[4] = n
<1> DEFINE v == ByteValues
           a == n \div v
           b == a \div v
           d == b \div v
<1>1. v \in Nat \ {0}
  BY DataPathAssumption
<1>2. a \in Nat /\ n = a * v + (n % v) /\ n % v \in 0 .. v - 1
  BY <1>1, DivMod
<1>3. b \in Nat /\ a = b * v + (a % v) /\ a % v \in 0 .. v - 1
  BY <1>1, <1>2, DivMod
<1>4. d \in Nat /\ b = d * v + (b % v) /\ b % v \in 0 .. v - 1
  BY <1>1, <1>3, DivMod
<1>5. v * v \in Nat \ {0}
  BY <1>1
<1>6. n \div (v * v) = b
  BY <1>1, DivDiv
<1>7. n \div (v * v * v) = d
  <2> DEFINE u == v * v
  <2>1. u \in Nat \ {0} /\ n \div u = b
    BY <1>5, <1>6
  <2> HIDE DEF u, b, v
  <2>2. n \div (u * v) = (n \div u) \div v
    BY <1>1, <2>1, DivDiv
  <2> QED  BY <2>1, <2>2 DEF u
<1>8. /\ PlaceValue[1] = 1 /\ PlaceValue[2] = v
      /\ PlaceValue[3] = v * v /\ PlaceValue[4] = v * v * v
  BY DEF PlaceValue
<1>9. n \div 1 = n
  OBVIOUS
<1>10. /\ LengthByte(n, 1) = n % v /\ LengthByte(n, 2) = a % v
       /\ LengthByte(n, 3) = b % v /\ LengthByte(n, 4) = d % v
  BY <1>6, <1>7, <1>8, <1>9 DEF LengthByte
<1> DEFINE e == n % v
           f == a % v
           g == b % v
           w == v * v
           y == v * v * v
<1>11. /\ v \in Nat \ {0} /\ e \in Nat /\ f \in Nat /\ g \in Nat
       /\ a \in Nat /\ b \in Nat /\ d \in Nat
       /\ n = a * v + e /\ a = b * v + f /\ b = d * v + g
       /\ n < v * v * v * v
  BY <1>1, <1>2, <1>3, <1>4
<1> HIDE DEF v, a, b, d, e, f, g
<1>12. n = d * (v * v * v) + g * (v * v) + f * v + e
  <2>1. n = (b * v + f) * v + e
    BY ONLY <1>11
  <2>2. (b * v + f) * v = b * (v * v) + f * v
    BY ONLY <1>11
  <2>3. (d * v + g) * (v * v) = d * (v * v * v) + g * (v * v)
    BY ONLY <1>11
  <2>4. b * (v * v) = (d * v + g) * (v * v)
    BY ONLY <1>11
  <2>5. d * (v * v * v) \in Int /\ g * (v * v) \in Int /\ f * v \in Int /\ b * (v * v) \in Int
    BY ONLY <1>11
  <2> QED  BY ONLY <1>11, <2>1, <2>2, <2>3, <2>4, <2>5
<1>13. d < v
  <2> DEFINE z == v * v * v
  <2>1. z \in Nat \ {0} /\ v * v * v * v = v * z
    BY ONLY <1>11
  <2>2. g * (v * v) \in Nat /\ f * v \in Nat
    BY ONLY <1>11
  <2>3. d * z \in Nat
    BY ONLY <1>11, <2>1
  <2>4. d * z < v * z
    BY ONLY <1>11, <1>12, <2>1, <2>2, <2>3
  <2> HIDE DEF z
  <2>5. d \in Int /\ v \in Int
    BY ONLY <1>11
  <2> QED  BY <2>1, <2>4, <2>5, MultCancel
<1>14. d % v = d
  BY ONLY <1>11, <1>13
<1>15. /\ LengthByte(n, 1) = e /\ LengthByte(n, 2) = f
       /\ LengthByte(n, 3) = g /\ LengthByte(n, 4) = d
  BY ONLY <1>10, <1>14 DEF e, f, g
<1>16. e * 1 + f * v + g * (v * v) + d * (v * v * v) = n
  <2> DEFINE x1 == f * v
             x2 == g * (v * v)
             x3 == d * (v * v * v)
  <2>1. x1 \in Nat /\ x2 \in Nat /\ x3 \in Nat /\ e * 1 = e
    BY ONLY <1>11
  <2>2. n = x3 + x2 + x1 + e
    BY ONLY <1>12
  <2> HIDE DEF x1, x2, x3
  <2>3. e + x1 + x2 + x3 = n
    BY ONLY <1>11, <2>1, <2>2
  <2> QED  BY ONLY <2>1, <2>3 DEF x1, x2, x3
<1> QED  BY ONLY <1>8, <1>15, <1>16

\* A frame is four bytes from which its length can be read, and the message.
LEMMA FrameFacts ==
    ASSUME NEW c \in Nat, BodySize(c) \in Nat,
           BodySize(c) < ByteValues * ByteValues * ByteValues * ByteValues
    PROVE  /\ Body(c) \in Seq(Byte) /\ Len(Body(c)) = BodySize(c)
           /\ Frame(c) \in Seq(Byte) /\ Len(Frame(c)) = 4 + BodySize(c)
           /\ SubSeq(Frame(c), 5, 4 + BodySize(c)) = Body(c)
           /\ \A buffer : (\A i \in 1 .. 4 : buffer[i] = Frame(c)[i])
                            => frameLength(buffer) = BodySize(c)
<1> DEFINE n == BodySize(c)
           b == Body(c)
           h == [i \in 1 .. 4 |-> <<c, 0, LengthByte(n, i)>>]
           f == Frame(c)
<1>1. b \in Seq(Byte) /\ Len(b) = n
  <2>1. \A i \in 1 .. n : <<c, i, 1>> \in Byte
    BY DEF Byte
  <2>2. b = [i \in 1 .. n |-> <<c, i, 1>>]
    BY DEF Body
  <2> HIDE DEF b, n
  <2>3. b \in [1 .. n -> Byte]
    BY <2>1, <2>2
  <2>4. n \in Nat
    BY DEF n
  <2>5. b \in Seq(Byte)
    BY <2>3, <2>4, SeqDef
  <2> QED  BY <2>3, <2>4, <2>5
<1>2. \A i \in 1 .. 4 : LengthByte(n, i) \in Nat
  <2> SUFFICES ASSUME NEW i \in 1 .. 4 PROVE LengthByte(n, i) \in Nat
    OBVIOUS
  <2>1. ByteValues \in Nat \ {0} /\ n \in Nat
    BY DataPathAssumption
  <2> DEFINE v == ByteValues
  <2>2. v * v \in Nat \ {0} /\ v * v * v \in Nat \ {0}
    BY <2>1
  <2>3. PlaceValue[i] \in Nat \ {0}
    <3>1. i \in {1, 2, 3, 4}
      OBVIOUS
    <3>2. PlaceValue[1] = 1 /\ PlaceValue[2] = v /\ PlaceValue[3] = v * v
          /\ PlaceValue[4] = v * v * v
      BY DEF PlaceValue
    <3> QED  BY <2>1, <2>2, <3>1, <3>2
  <2> DEFINE w == PlaceValue[i]
             x == n \div w
  <2>4. x \in Nat
    BY <2>1, <2>3
  <2> HIDE DEF x, v, w, n
  <2>5. x % ByteValues \in Nat
    BY <2>1, <2>4
  <2> QED  BY <2>5 DEF LengthByte, x, w
<1>3. h \in Seq(Byte) /\ Len(h) = 4
  <2>1. \A i \in 1 .. 4 : <<c, 0, LengthByte(n, i)>> \in Byte
    BY <1>2 DEF Byte
  <2> HIDE DEF n
  <2>2. h \in [1 .. 4 -> Byte]
    BY <2>1
  <2> HIDE DEF h
  <2>3. h \in Seq(Byte)
    BY <2>2, SeqDef
  <2> QED  BY <2>2, <2>3
<1>4. \A i \in 1 .. 4 : h[i] = <<c, 0, LengthByte(n, i)>>
  OBVIOUS
<1>5. f = h \o b
  BY DEF Frame
<1>6. n \in Nat /\ n < ByteValues * ByteValues * ByteValues * ByteValues
  OBVIOUS
<1> HIDE DEF f, h, b, n
<1>7. /\ f \in Seq(Byte) /\ Len(f) = 4 + n
      /\ \A i \in 1 .. 4 + n : f[i] = IF i <= 4 THEN h[i] ELSE b[i - 4]
  <2>1. /\ h \o b \in Seq(Byte) /\ Len(h \o b) = Len(h) + Len(b)
        /\ \A i \in 1 .. Len(h) + Len(b) :
              (h \o b)[i] = IF i <= Len(h) THEN h[i] ELSE b[i - Len(h)]
    BY <1>1, <1>3, ConcatProperties, Zenon
  <2>2. Len(h) = 4 /\ Len(b) = n
    BY <1>1, <1>3
  <2> QED  BY ONLY <1>5, <2>1, <2>2
<1>8. SubSeq(f, 5, 4 + n) = b
  <2> DEFINE g == SubSeq(f, 4 + 1, 4 + n)
  <2>1. 4 \in 0 .. Len(f) /\ 4 + n \in 4 .. Len(f)
    BY <1>6, <1>7
  <2>2. g \in Seq(Byte) /\ Len(g) = (4 + n) - 4 /\ \A i \in 1 .. (4 + n) - 4 : g[i] = f[4 + i]
    BY <1>7, <2>1, PartOf
  <2>3. (4 + n) - 4 = n /\ 4 + 1 = 5
    BY <1>6
  <2>4. g = SubSeq(f, 5, 4 + n)
    BY <2>3
  <2> HIDE DEF g
  <2>5. ASSUME NEW i \in 1 .. n PROVE g[i] = b[i]
    <3>1. 4 + i \in 1 .. 4 + n /\ ~(4 + i <= 4) /\ (4 + i) - 4 = i
      BY <1>6
    <3>2. f[4 + i] = b[i]
      BY <1>7, <3>1
    <3> QED  BY <2>2, <2>3, <3>2
  <2>6. g = b
    BY <1>1, <2>2, <2>3, <2>5, SeqEqual
  <2> QED  BY <2>4, <2>6
<1>9. ASSUME NEW buffer, \A i \in 1 .. 4 : buffer[i] = f[i] PROVE frameLength(buffer) = n
  <2>1. \A i \in 1 .. 4 : buffer[i] = <<c, 0, LengthByte(n, i)>>
    <3> SUFFICES ASSUME NEW i \in 1 .. 4 PROVE buffer[i] = <<c, 0, LengthByte(n, i)>>
      OBVIOUS
    <3>1. i \in 1 .. 4 + n /\ i <= 4
      BY <1>6
    <3> QED  BY <1>4, <1>7, <1>9, <3>1
  <2>2. /\ buffer[1][3] = LengthByte(n, 1) /\ buffer[2][3] = LengthByte(n, 2)
        /\ buffer[3][3] = LengthByte(n, 3) /\ buffer[4][3] = LengthByte(n, 4)
    BY <2>1
  <2>3. LengthByte(n, 1) * PlaceValue[1] + LengthByte(n, 2) * PlaceValue[2]
          + LengthByte(n, 3) * PlaceValue[3] + LengthByte(n, 4) * PlaceValue[4] = n
    BY <1>6, Digits
  <2> QED  BY <2>2, <2>3 DEF frameLength
<1> QED  BY <1>1, <1>7, <1>8, <1>9 DEF f, b, n

\* The two ends agree on a frame for as long as its message is the same.
LEMMA FrameSame ==
    ASSUME NEW c, frame'[c] = frame[c]
    PROVE  Frame(c)' = Frame(c) /\ Body(c)' = Body(c)
<1>1. BodySize(c)' = BodySize(c)
  BY DEF BodySize
<1>2. Body(c)' = Body(c)
  BY <1>1 DEF Body
<1>3. Frame(c)' = Frame(c)
  BY <1>1, <1>2 DEF Frame
<1> QED  BY <1>2, <1>3

------------------------------------------------------------------------------
(* The invariant of the sending side and of the streams *)

Tasks == {"queued", "encoded", "sending", "flush", "pushed", "counted", "done"}

\* A task that has not taken the mutex has sent nothing; one that holds it holds
\* it alone; one that is done with its frame has sent all of it.
TaskOK(c) ==
    /\ task[c] # "queued" => frame[c] \in Messages(c)
    /\ task[c] \in {"queued", "encoded"} => sent[c] = 0
    /\ task[c] = "sending" => sent[c] <= Len(Frame(c))
    /\ task[c] \in {"flush", "pushed", "counted", "done"} => sent[c] = Len(Frame(c))
    /\ task[c] \in {"sending", "flush"} => kcpMutex[StreamOf(c)] = {c}

TaskInv ==
    /\ task \in [Chunks -> Tasks] /\ sent \in [Chunks -> Nat]
    /\ DOMAIN frame = Chunks
    /\ \A c \in Chunks : TaskOK(c)

LinkTypes ==
    /\ kcpMutex \in [Streams -> SUBSET Chunks]
    /\ snd_queue \in [Streams -> Seq(Seq(Byte))]
    /\ segments \in [Streams -> Seq(Seq(Byte))]
    /\ stream_buffer \in [Streams -> Seq(Byte)]
    /\ pushed \in [Streams -> Seq(Chunks)]
    /\ handed \in [Streams -> Seq(Seq(Byte))]

\* The chunk whose task took the mutex last.
LastPushed(st) == pushed[st][Len(pushed[st])]

Unsent(c) == SubSeq(Frame(c), sent[c] + 1, Len(Frame(c)))

\* The frames whose messages have not been handed up.
Ahead(st) ==
    [i \in 1 .. Len(pushed[st]) - Len(handed[st]) |->
       Frame(pushed[st][Len(handed[st]) + i])]

\* What the holder of the mutex has still to give to ikcp_send.
Rest(st) == IF kcpMutex[st] = {} THEN <<>> ELSE Unsent(LastPushed(st))

SegmentsFit(st) == \A k \in 1 .. Len(snd_queue[st]) : Len(snd_queue[st][k]) <= mss

\* A chunk's task takes the mutex of its own stream, once.
PushedOnce(st) ==
    /\ \A i \in 1 .. Len(pushed[st]) :
          /\ StreamOf(pushed[st][i]) = st
          /\ task[pushed[st][i]] \in {"sending", "flush", "pushed", "counted", "done"}
    /\ \A i, j \in 1 .. Len(pushed[st]) : pushed[st][i] = pushed[st][j] => i = j

\* Whoever holds the mutex is the last who took it.
HolderIsLast(st) ==
    kcpMutex[st] # {} =>
       /\ Len(pushed[st]) > 0 /\ kcpMutex[st] = {LastPushed(st)}
       /\ task[LastPushed(st)] \in {"sending", "flush"}

\* What was handed up is the messages of the chunks pushed first.
HandedInOrder(st) ==
    /\ Len(handed[st]) <= Len(pushed[st])
    /\ \A i \in 1 .. Len(handed[st]) : handed[st][i] = Body(pushed[st][i])

\* Every byte of the frames ahead is in exactly one place, in order.
NoByteLost(st) ==
    StreamOK(Byte, stream_buffer[st], segments[st], snd_queue[st], Ahead(st), Rest(st))

StreamInv(st) ==
    /\ SegmentsFit(st) /\ PushedOnce(st) /\ HolderIsLast(st) /\ HandedInOrder(st)
    /\ NoByteLost(st)

\* All that the streams need.
LinkInv ==
    /\ FileInv /\ TaskInv /\ LinkTypes
    /\ \A st \in Streams : StreamInv(st)

\* The frame of an encoded chunk.
LEMMA Known ==
    ASSUME FileInv, NEW c \in Chunks, frame[c] \in Messages(c)
    PROVE  /\ c \in Nat
           /\ BodySize(c) \in Nat \ {0}
           /\ Body(c) \in Seq(Byte) /\ Len(Body(c)) = BodySize(c)
           /\ Frame(c) \in Seq(Byte) /\ Len(Frame(c)) = 4 + BodySize(c)
           /\ SubSeq(Frame(c), 5, 4 + BodySize(c)) = Body(c)
           /\ \A buffer : (\A i \in 1 .. 4 : buffer[i] = Frame(c)[i])
                            => frameLength(buffer) = BodySize(c)
<1>1. c \in Nat
  BY ChunkBegins
<1>2. frame[c].compressed_size \in 1 .. ChunkSize + LzSlack + TagSize
  BY MessageFacts
<1>3. /\ HeaderSize \in Nat /\ ChunkSize \in Nat /\ LzSlack \in Nat /\ TagSize \in Nat
      /\ HeaderSize + ChunkSize + LzSlack + TagSize
            < ByteValues * ByteValues * ByteValues * ByteValues
      /\ ByteValues * ByteValues * ByteValues * ByteValues \in Nat
  <2>1. HeaderSize \in Nat /\ ByteValues \in Nat /\ ChunkSize \in Nat
        /\ LzSlack \in Nat /\ TagSize \in Nat
    BY DataPathAssumption, CodecAssumption
  <2>2. ByteValues * ByteValues * ByteValues * ByteValues \in Nat
    BY <2>1
  <2> QED  BY <2>1, <2>2, DataPathAssumption
<1>4. BodySize(c) \in Nat \ {0}
      /\ BodySize(c) < ByteValues * ByteValues * ByteValues * ByteValues
  <2> DEFINE v == ByteValues * ByteValues * ByteValues * ByteValues
             k == frame[c].compressed_size
  <2>1. BodySize(c) = HeaderSize + k
    BY DEF BodySize
  <2> HIDE DEF v, k
  <2>2. k \in 1 .. ChunkSize + LzSlack + TagSize /\ v \in Nat
        /\ HeaderSize + ChunkSize + LzSlack + TagSize < v
    BY <1>2, <1>3 DEF v, k
  <2>3. HeaderSize + k \in Nat \ {0} /\ HeaderSize + k < v
    BY <1>3, <2>2
  <2> QED  BY <2>1, <2>3 DEF v
<1> QED  BY <1>1, <1>4, FrameFacts

\* A chunk has a stream.
LEMMA StreamOfChunk ==
    ASSUME FileInv, NEW c \in Chunks
    PROVE  StreamOf(c) \in Streams
<1>1. c \in Nat /\ NumStreams \in Nat \ {0}
  BY ChunkBegins, DataPathAssumption
<1> QED  BY <1>1 DEF StreamOf, Streams

\* What has been pushed has a frame.
LEMMA PushedKnown ==
    ASSUME LinkInv, NEW st \in Streams, NEW i \in 1 .. Len(pushed[st])
    PROVE  /\ pushed[st][i] \in Chunks /\ StreamOf(pushed[st][i]) = st
           /\ task[pushed[st][i]] \in {"sending", "flush", "pushed", "counted", "done"}
           /\ frame[pushed[st][i]] \in Messages(pushed[st][i])
           /\ Frame(pushed[st][i]) \in Seq(Byte) /\ Body(pushed[st][i]) \in Seq(Byte)
<1> DEFINE c == pushed[st][i]
<1>1. pushed[st] \in Seq(Chunks)
  BY DEF LinkInv, LinkTypes
<1>2. c \in Chunks
  BY <1>1, ElementOfSeq
<1>3. StreamOf(c) = st /\ task[c] \in {"sending", "flush", "pushed", "counted", "done"}
  BY DEF LinkInv, StreamInv, PushedOnce
<1> HIDE DEF c
<1>4. frame[c] \in Messages(c)
  BY <1>2, <1>3 DEF LinkInv, TaskInv, TaskOK
<1>5. Frame(c) \in Seq(Byte) /\ Body(c) \in Seq(Byte)
  BY <1>2, <1>4, Known DEF LinkInv
<1> QED  BY <1>2, <1>3, <1>4, <1>5 DEF c

\* The frames ahead are frames.
LEMMA AheadFacts ==
    ASSUME LinkInv, NEW st \in Streams
    PROVE  /\ Len(pushed[st]) \in Nat /\ Len(handed[st]) \in Nat
           /\ Len(pushed[st]) - Len(handed[st]) \in Nat
           /\ Ahead(st) \in Seq(Seq(Byte))
           /\ Len(Ahead(st)) = Len(pushed[st]) - Len(handed[st])
           /\ \A i \in 1 .. Len(pushed[st]) - Len(handed[st]) :
                 /\ Len(handed[st]) + i \in 1 .. Len(pushed[st])
                 /\ Ahead(st)[i] = Frame(pushed[st][Len(handed[st]) + i])
<1> DEFINE p == Len(pushed[st])
           h == Len(handed[st])
           A == Ahead(st)
<1>1. p \in Nat /\ h \in Nat /\ h <= p
  <2>1. pushed[st] \in Seq(Chunks) /\ handed[st] \in Seq(Seq(Byte))
    BY DEF LinkInv, LinkTypes
  <2> QED  BY <2>1 DEF LinkInv, StreamInv, HandedInOrder
<1>2. A = [i \in 1 .. p - h |-> Frame(pushed[st][h + i])]
  BY DEF Ahead
<1> HIDE DEF p, h, A
<1>3. p - h \in Nat /\ \A i \in 1 .. p - h : h + i \in 1 .. p
  BY <1>1
<1>4. ASSUME NEW i \in 1 .. p - h PROVE Frame(pushed[st][h + i]) \in Seq(Byte)
  <2>1. h + i \in 1 .. p
    BY <1>3
  <2> QED  BY <2>1, PushedKnown DEF p
<1>5. A \in [1 .. p - h -> Seq(Byte)]
  BY <1>2, <1>4
<1>6. A \in Seq(Seq(Byte))
  <2> PICK k, a : k = p - h /\ a = A
    OBVIOUS
  <2>1. k \in Nat /\ a \in [1 .. k -> Seq(Byte)]
    BY <1>3, <1>5
  <2>2. a \in Seq(Seq(Byte))
    BY ONLY <2>1, SeqDef
  <2> QED  BY <2>2
<1>7. Len(A) = p - h
  BY <1>3, <1>5
<1> QED  BY <1>1, <1>2, <1>3, <1>6, <1>7 DEF A, p, h

\* The rest is a part of a frame.
LEMMA RestFacts ==
    ASSUME LinkInv, NEW st \in Streams
    PROVE  Rest(st) \in Seq(Byte)
<1>1. CASE kcpMutex[st] = {}
  <2>1. <<>> \in Seq(Byte)
    BY EmptySeq
  <2> QED  BY <1>1, <2>1 DEF Rest
<1>2. CASE kcpMutex[st] # {}
  <2> DEFINE c == LastPushed(st)
  <2>1. Len(pushed[st]) > 0 /\ task[c] \in {"sending", "flush"}
    BY <1>2 DEF LinkInv, StreamInv, HolderIsLast
  <2>2. Len(pushed[st]) \in 1 .. Len(pushed[st])
    BY <2>1, AheadFacts
  <2>3. c \in Chunks /\ Frame(c) \in Seq(Byte)
    BY <2>2, PushedKnown DEF LastPushed
  <2> HIDE DEF c
  <2>4. sent[c] \in Nat /\ sent[c] <= Len(Frame(c)) /\ Len(Frame(c)) \in Nat
    <3>1. Len(Frame(c)) \in Nat
      BY <2>3
    <3>2. sent[c] \in Nat
      BY <2>3 DEF LinkInv, TaskInv, TaskOK
    <3>3. (task[c] = "sending" => sent[c] <= Len(Frame(c)))
          /\ (task[c] = "flush" => sent[c] = Len(Frame(c)))
      BY <2>3 DEF LinkInv, TaskInv, TaskOK
    <3> QED  BY <2>1, <3>1, <3>2, <3>3
  <2>5. sent[c] \in 0 .. Len(Frame(c)) /\ Len(Frame(c)) \in sent[c] .. Len(Frame(c))
    BY <2>4
  <2>6. Unsent(c) \in Seq(Byte)
    BY <2>3, <2>5, PartOf DEF Unsent
  <2>7. Rest(st) = Unsent(c)
    BY <1>2 DEF Rest, c
  <2> QED  BY <2>6, <2>7
<1> QED  BY <1>1, <1>2

\* The frames ahead stay ahead.
LEMMA AheadSame ==
    ASSUME LinkInv, NEW st \in Streams,
           pushed'[st] = pushed[st], handed'[st] = handed[st],
           \A i \in 1 .. Len(pushed[st]) : frame'[pushed[st][i]] = frame[pushed[st][i]]
    PROVE  Ahead(st)' = Ahead(st)
<1> DEFINE p == Len(pushed[st])
           h == Len(handed[st])
<1>1. Ahead(st)' = [i \in 1 .. p - h |-> Frame(pushed[st][h + i])']
  BY DEF Ahead
<1>2. ASSUME NEW i \in 1 .. p - h PROVE Frame(pushed[st][h + i])' = Frame(pushed[st][h + i])
  <2> DEFINE c == pushed[st][h + i]
  <2>1. h + i \in 1 .. p
    BY AheadFacts
  <2>2. pushed'[st][h + i] = pushed[st][h + i]
    OBVIOUS
  <2>3. frame'[c] = frame[c]
    BY <2>1
  <2> QED  BY <2>2, <2>3 DEF Frame, Body, BodySize
<1>3. Ahead(st) = [i \in 1 .. p - h |-> Frame(pushed[st][h + i])]
  BY DEF Ahead
<1> QED  BY <1>1, <1>2, <1>3

\* A step that leaves a stream and its pushed chunks alone.
LEMMA StreamSame ==
    ASSUME LinkInv, NEW st \in Streams,
           kcpMutex'[st] = kcpMutex[st], snd_queue'[st] = snd_queue[st],
           segments'[st] = segments[st], stream_buffer'[st] = stream_buffer[st],
           pushed'[st] = pushed[st], handed'[st] = handed[st],
           \A i \in 1 .. Len(pushed[st]) :
              /\ frame'[pushed[st][i]] = frame[pushed[st][i]]
              /\ sent'[pushed[st][i]] = sent[pushed[st][i]]
              /\ task'[pushed[st][i]] = task[pushed[st][i]]
    PROVE  StreamInv(st)'
<1>1. Ahead(st)' = Ahead(st)
  BY AheadSame
<1>2. Len(pushed[st]) \in Nat /\ Len(handed[st]) \in Nat
  BY AheadFacts
<1>3. StreamInv(st)
  BY DEF LinkInv
<1>4. LastPushed(st)' = LastPushed(st)
  BY DEF LastPushed
<1>5. Len(pushed[st]) > 0 => Len(pushed[st]) \in 1 .. Len(pushed[st])
  BY <1>2
<1>6. Rest(st)' = Rest(st)
  <2>1. CASE kcpMutex[st] = {}
    BY <2>1 DEF Rest
  <2>2. CASE kcpMutex[st] # {}
    <3>1. Len(pushed[st]) > 0
      BY <1>3, <2>2 DEF StreamInv, HolderIsLast
    <3>2. PICK c : c = LastPushed(st) /\ c = LastPushed(st)'
      BY <1>4
    <3>3. frame'[c] = frame[c] /\ sent'[c] = sent[c]
      BY <1>5, <3>1, <3>2 DEF LastPushed
    <3>4. Frame(c)' = Frame(c)
      BY <3>3, FrameSame
    <3>5. Unsent(c)' = Unsent(c)
      BY <3>3, <3>4 DEF Unsent
    <3>6. Rest(st)' = Unsent(c)'
      BY <2>2, <3>2 DEF Rest, Unsent, Frame, Body, BodySize
    <3>7. Rest(st) = Unsent(c)
      BY <2>2, <3>2 DEF Rest
    <3> QED  BY <3>5, <3>6, <3>7
  <2> QED  BY <2>1, <2>2
<1>7. SegmentsFit(st)'
  BY <1>3 DEF StreamInv, SegmentsFit
<1>8. PushedOnce(st)'
  BY <1>3 DEF StreamInv, PushedOnce, StreamOf
<1>9. HolderIsLast(st)'
  BY <1>3, <1>4, <1>5 DEF StreamInv, HolderIsLast, LastPushed
<1>10. HandedInOrder(st)'
  <2>1. HandedInOrder(st)
    BY <1>3 DEF StreamInv
  <2>2. ASSUME NEW i \in 1 .. Len(handed[st]) PROVE handed'[st][i] = Body(pushed[st][i])'
    <3>1. i \in 1 .. Len(pushed[st])
      BY <1>2, <2>1 DEF HandedInOrder
    <3>2. Body(pushed[st][i])' = Body(pushed[st][i])
      BY <3>1 DEF Body, BodySize
    <3> QED  BY <2>1, <3>2 DEF HandedInOrder
  <2> QED  BY <2>1, <2>2 DEF HandedInOrder
<1>11. NoByteLost(st)'
  BY <1>1, <1>3, <1>6 DEF StreamInv, NoByteLost
<1> QED  BY <1>7, <1>8, <1>9, <1>10, <1>11 DEF StreamInv

------------------------------------------------------------------------------
(* The sender's steps *)

\* The files are as they were.
LEMMA FilesSame ==
    ASSUME FileInv, UNCHANGED <<file_view, strategy>>, write_view' = write_view
    PROVE  FileInv' /\ Chunks' = Chunks /\ \A d : Messages(d)' = Messages(d)
<1>1. FileInv'
  BY DEF FileInv
<1>2. Chunks' = Chunks
  BY DEF Chunks
<1>3. ASSUME NEW d PROVE Messages(d)' = Messages(d)
  BY DEF Messages, Size
<1> QED  BY <1>1, <1>2, <1>3

\* A task that the step is not about.
LEMMA TaskSame ==
    ASSUME LinkInv, UNCHANGED <<file_view, strategy>>, write_view' = write_view,
           NEW d \in Chunks, task'[d] = task[d], sent'[d] = sent[d], frame'[d] = frame[d],
           task[d] \in {"sending", "flush"} =>
              kcpMutex'[StreamOf(d)] = kcpMutex[StreamOf(d)]
    PROVE  TaskOK(d)'
<1>1. TaskOK(d)
  BY DEF LinkInv, TaskInv
<1>2. Frame(d)' = Frame(d)
  BY FrameSame
<1>3. Messages(d)' = Messages(d)
  BY FilesSame DEF LinkInv
<1> QED  BY <1>1, <1>2, <1>3 DEF TaskOK, StreamOf

\* A chunk is encoded: no stream knows of it.
LEMMA EncodeStep ==
    ASSUME LinkInv, NEW c \in Chunks, Encode(c)
    PROVE  LinkInv'
<1>1. /\ task[c] = "queued" /\ task' = [task EXCEPT ![c] = "encoded"]
      /\ UNCHANGED <<file_view, strategy>> /\ write_view' = write_view /\ sent' = sent
      /\ kcpMutex' = kcpMutex /\ snd_queue' = snd_queue /\ segments' = segments
      /\ pushed' = pushed /\ stream_buffer' = stream_buffer /\ handed' = handed
  BY DEF Encode, linkVars, fileVars
<1>2. PICK m \in Messages(c) : frame' = [frame EXCEPT ![c] = m]
  <2>1. Slice(file_view, c).payloadSize = Size(c)
    BY DEF Slice, Size
  <2> QED  BY <2>1 DEF Encode, Messages
<1>3. FileInv' /\ Chunks' = Chunks /\ Messages(c)' = Messages(c)
  BY <1>1, FilesSame DEF LinkInv
<1>4. /\ task \in [Chunks -> Tasks] /\ sent \in [Chunks -> Nat] /\ DOMAIN frame = Chunks
  BY DEF LinkInv, TaskInv
<1>5. /\ task' \in [Chunks -> Tasks] /\ task'[c] = "encoded" /\ DOMAIN frame' = Chunks
      /\ frame'[c] = m
      /\ \A d \in Chunks : d # c => task'[d] = task[d] /\ frame'[d] = frame[d]
  BY <1>1, <1>2, <1>4 DEF Tasks
<1>6. ASSUME NEW d \in Chunks PROVE TaskOK(d)'
  <2>1. CASE d # c
    BY <1>1, <1>5, <2>1, TaskSame
  <2>2. CASE d = c
    <3>1. sent'[c] = 0
      BY <1>1 DEF LinkInv, TaskInv, TaskOK
    <3> QED  BY <1>3, <1>5, <2>2, <3>1 DEF TaskOK
  <2> QED  BY <2>1, <2>2
<1>7. TaskInv'
  BY <1>1, <1>3, <1>4, <1>5, <1>6 DEF TaskInv
<1>8. LinkTypes'
  BY <1>1, <1>3 DEF LinkInv, LinkTypes
<1>9. ASSUME NEW st \in Streams PROVE StreamInv(st)'
  <2>1. ASSUME NEW i \in 1 .. Len(pushed[st])
        PROVE  /\ frame'[pushed[st][i]] = frame[pushed[st][i]]
               /\ sent'[pushed[st][i]] = sent[pushed[st][i]]
               /\ task'[pushed[st][i]] = task[pushed[st][i]]
    <3>1. /\ pushed[st][i] \in Chunks
          /\ task[pushed[st][i]] \in {"sending", "flush", "pushed", "counted", "done"}
      BY PushedKnown
    <3>2. pushed[st][i] # c
      BY <1>1, <3>1
    <3> QED  BY <1>1, <1>5, <3>1, <3>2
  <2> QED  BY <1>1, <2>1, StreamSame
<1> QED  BY <1>3, <1>7, <1>8, <1>9 DEF LinkInv

\* The streams that a task does not use.
LEMMA OtherStream ==
    ASSUME LinkInv, NEW c \in Chunks, NEW r \in Streams, r # StreamOf(c),
           kcpMutex'[r] = kcpMutex[r], snd_queue'[r] = snd_queue[r],
           segments'[r] = segments[r], stream_buffer'[r] = stream_buffer[r],
           pushed'[r] = pushed[r], handed'[r] = handed[r], frame' = frame,
           \A d \in Chunks : d # c => task'[d] = task[d] /\ sent'[d] = sent[d]
    PROVE  StreamInv(r)'
<1>1. ASSUME NEW i \in 1 .. Len(pushed[r])
      PROVE  /\ frame'[pushed[r][i]] = frame[pushed[r][i]]
             /\ sent'[pushed[r][i]] = sent[pushed[r][i]]
             /\ task'[pushed[r][i]] = task[pushed[r][i]]
  <2>1. pushed[r][i] \in Chunks /\ StreamOf(pushed[r][i]) = r
    BY PushedKnown
  <2>2. pushed[r][i] # c
    BY <2>1
  <2> QED  BY <2>1, <2>2
<1> QED  BY <1>1, StreamSame

\* What lies at a place of a stream after a step.
LEMMA FrameAt ==
    ASSUME NEW st, NEW i, NEW c, frame'[c] = frame[c], pushed'[st][i] = c
    PROVE  Frame(pushed[st][i])' = Frame(c) /\ Body(pushed[st][i])' = Body(c)
<1>1. BodySize(pushed[st][i])' = BodySize(c)
  BY DEF BodySize
<1>2. Body(pushed[st][i])' = Body(c)
  BY <1>1 DEF Body
<1>3. Frame(pushed[st][i])' = Frame(c)
  BY <1>1, <1>2 DEF Frame
<1> QED  BY <1>2, <1>3

\* The mutex is taken: the frame goes to the end of the stream.
LEMMA LockStep ==
    ASSUME LinkInv, NEW c \in Chunks, Lock(c)
    PROVE  LinkInv'
<1> DEFINE st == StreamOf(c)
<1> PICK p, h : p = Len(pushed[st]) /\ h = Len(handed[st])
  OBVIOUS
<1>1. st \in Streams
  BY StreamOfChunk DEF LinkInv
<1>2. /\ task[c] = "encoded" /\ kcpMutex[st] = {}
      /\ kcpMutex' = [kcpMutex EXCEPT ![st] = {c}]
      /\ task' = [task EXCEPT ![c] = "sending"]
      /\ pushed' = [pushed EXCEPT ![st] = Append(pushed[st], c)]
      /\ UNCHANGED <<file_view, strategy>> /\ write_view' = write_view
      /\ frame' = frame /\ sent' = sent /\ snd_queue' = snd_queue /\ segments' = segments
      /\ stream_buffer' = stream_buffer /\ handed' = handed
  BY DEF Lock, fileVars
<1> HIDE DEF st
<1>3. FileInv' /\ Chunks' = Chunks
  BY <1>2, FilesSame DEF LinkInv
<1>4. /\ task \in [Chunks -> Tasks] /\ sent \in [Chunks -> Nat] /\ DOMAIN frame = Chunks
      /\ kcpMutex \in [Streams -> SUBSET Chunks] /\ pushed \in [Streams -> Seq(Chunks)]
  BY DEF LinkInv, TaskInv, LinkTypes
<1>5. /\ task' \in [Chunks -> Tasks] /\ task'[c] = "sending"
      /\ \A d \in Chunks : d # c => task'[d] = task[d]
  BY <1>2, <1>4 DEF Tasks
<1>6. /\ kcpMutex' \in [Streams -> SUBSET Chunks] /\ kcpMutex'[st] = {c}
      /\ \A r \in Streams : r # st => kcpMutex'[r] = kcpMutex[r]
  BY <1>1, <1>2, <1>4
<1>7. pushed[st] \in Seq(Chunks)
  BY <1>1, <1>4
<1>8. /\ Append(pushed[st], c) \in Seq(Chunks) /\ Len(Append(pushed[st], c)) = p + 1
      /\ \A i \in 1 .. p : Append(pushed[st], c)[i] = pushed[st][i]
      /\ Append(pushed[st], c)[p + 1] = c
  BY <1>7, AppendProperties
<1>9. /\ pushed' \in [Streams -> Seq(Chunks)] /\ pushed'[st] = Append(pushed[st], c)
      /\ \A r \in Streams : r # st => pushed'[r] = pushed[r]
  BY <1>1, <1>2, <1>4, <1>8
<1>10. frame[c] \in Messages(c) /\ sent[c] = 0
  BY <1>2 DEF LinkInv, TaskInv, TaskOK
<1>11. Frame(c) \in Seq(Byte) /\ Len(Frame(c)) \in Nat /\ Frame(c)' = Frame(c)
  <2>1. Frame(c) \in Seq(Byte)
    BY <1>10, Known DEF LinkInv
  <2> QED  BY <1>2, <2>1, FrameSame
<1>12. TaskInv'
  <2>1. ASSUME NEW d \in Chunks PROVE TaskOK(d)'
    <3>1. CASE d # c
      <4>1. task[d] \in {"sending", "flush"} => kcpMutex'[StreamOf(d)] = kcpMutex[StreamOf(d)]
        <5> SUFFICES ASSUME task[d] \in {"sending", "flush"}
                     PROVE  kcpMutex'[StreamOf(d)] = kcpMutex[StreamOf(d)]
          OBVIOUS
        <5>1. kcpMutex[StreamOf(d)] = {d} /\ StreamOf(d) \in Streams
          BY StreamOfChunk DEF LinkInv, TaskInv, TaskOK
        <5>2. StreamOf(d) # st
          BY <1>2, <5>1
        <5> QED  BY <1>6, <5>1, <5>2
      <4> QED  BY <1>2, <1>5, <3>1, <4>1, TaskSame
    <3>2. CASE d = c
      <4>1. Messages(c)' = Messages(c)
        BY <1>2, FilesSame DEF LinkInv
      <4>2. sent'[c] <= Len(Frame(c)')
        BY <1>2, <1>10, <1>11
      <4> QED  BY <1>2, <1>5, <1>6, <1>10, <3>2, <4>1, <4>2 DEF TaskOK, StreamOf, st
    <3> QED  BY <3>1, <3>2
  <2> QED  BY <1>2, <1>3, <1>4, <1>5, <2>1 DEF TaskInv
<1>13. LinkTypes'
  BY <1>2, <1>3, <1>6, <1>9 DEF LinkInv, LinkTypes
<1>14. ASSUME NEW r \in Streams, r # st PROVE StreamInv(r)'
  BY <1>2, <1>5, <1>6, <1>9, <1>14, OtherStream DEF st
<1>15. StreamInv(st)'
  <2>1. StreamInv(st)
    BY <1>1 DEF LinkInv
  <2>2. p \in Nat /\ h \in Nat /\ p - h \in Nat /\ Ahead(st) \in Seq(Seq(Byte))
        /\ Len(Ahead(st)) = p - h
    BY <1>1, AheadFacts
  <2>3. h <= p /\ p + 1 \in Nat /\ p + 1 > 0
    BY <2>2
  <2>4. Len(pushed[st])' = p + 1 /\ Len(handed[st])' = h
    <3>1. st' = st
      BY <1>2 DEF st, StreamOf
    <3> QED  BY <1>2, <1>8, <1>9, <3>1
  <2>5. /\ \A i \in 1 .. p : pushed'[st][i] = pushed[st][i]
        /\ pushed'[st][p + 1] = c
    BY <1>8, <1>9
  <2> PICK s : s = st
    OBVIOUS
  <2>6. s \in Streams /\ Len(pushed'[s]) = p + 1 /\ pushed'[s] = Append(pushed[s], c)
        /\ handed'[s] = handed[s] /\ Len(handed[s]) = h /\ Len(pushed[s]) = p
        /\ kcpMutex[s] = {} /\ kcpMutex'[s] = {c}
    BY <1>1, <1>2, <1>6, <1>8, <1>9
  <2>7. SegmentsFit(s)'
    BY <1>2, <2>1 DEF StreamInv, SegmentsFit
  <2>8. PushedOnce(s)'
    <3>1. ASSUME NEW i \in 1 .. p + 1
          PROVE  /\ StreamOf(pushed'[s][i]) = s
                 /\ task'[pushed'[s][i]] \in {"sending", "flush", "pushed", "counted", "done"}
      <4>1. CASE i = p + 1
        BY <1>5, <2>5, <4>1 DEF st
      <4>2. CASE i # p + 1
        <5>1. i \in 1 .. p
          BY <2>2, <4>2
        <5>2. pushed[st][i] \in Chunks /\ StreamOf(pushed[st][i]) = st
              /\ task[pushed[st][i]] \in {"sending", "flush", "pushed", "counted", "done"}
          BY <1>1, <5>1, PushedKnown
        <5>3. pushed[st][i] # c
          BY <1>2, <5>2
        <5> QED  BY <1>5, <2>5, <5>1, <5>2, <5>3
      <4> QED  BY <4>1, <4>2
    <3>2. ASSUME NEW i \in 1 .. p + 1, NEW j \in 1 .. p + 1, pushed'[s][i] = pushed'[s][j]
          PROVE  i = j
      <4>1. ASSUME NEW k \in 1 .. p PROVE pushed[st][k] # c
        <5>1. task[pushed[st][k]] \in {"sending", "flush", "pushed", "counted", "done"}
          BY <1>1, PushedKnown
        <5> QED  BY <1>2, <5>1
      <4>2. \A k \in 1 .. p + 1 : k = p + 1 \/ k \in 1 .. p
        BY <2>2
      <4>3. \A k, l \in 1 .. p : pushed[st][k] = pushed[st][l] => k = l
        BY <2>1 DEF StreamInv, PushedOnce
      <4> QED  BY <2>5, <3>2, <4>1, <4>2, <4>3
    <3> QED  BY <2>6, <3>1, <3>2 DEF PushedOnce, StreamOf
  <2>9. LastPushed(s)' = c
    BY <2>5, <2>6 DEF LastPushed
  <2>10. HolderIsLast(s)'
    BY <1>5, <2>3, <2>6, <2>9 DEF HolderIsLast
  <2>11. HandedInOrder(s)'
    <3>1. ASSUME NEW i \in 1 .. h PROVE handed'[s][i] = Body(pushed[s][i])'
      <4>1. i \in 1 .. p
        BY <2>2
      <4>2. pushed'[s][i] = pushed[s][i]
        BY <2>5, <4>1
      <4>3. handed[s][i] = Body(pushed[s][i])
        BY <2>1, <2>6 DEF StreamInv, HandedInOrder
      <4> QED  BY <1>2, <4>2, <4>3 DEF Body, BodySize
    <3>2. h <= p + 1
      BY <2>2
    <3> QED  BY <2>6, <3>1, <3>2 DEF HandedInOrder
  <2>12. Ahead(s)' = Append(Ahead(s), Frame(c))
    <3> DEFINE A == Ahead(s)
               n == p - h
               B == Append(A, Frame(c))
    <3>1. A \in Seq(Seq(Byte)) /\ Len(A) = n /\ n \in Nat
          /\ \A i \in 1 .. n : h + i \in 1 .. p /\ A[i] = Frame(pushed[s][h + i])
      BY <2>6, AheadFacts
    <3>2. Ahead(s)' = [i \in 1 .. (p + 1) - h |-> Frame(pushed[s][h + i])']
      BY <2>6 DEF Ahead
    <3>3. (p + 1) - h = n + 1 /\ h + (n + 1) = p + 1
      BY <2>2
    <3>9. PICK f \in Seq(Byte) : f = Frame(c)
      BY <1>11
    <3> HIDE DEF A, n
    <3>4. /\ B \in Seq(Seq(Byte)) /\ Len(B) = n + 1
          /\ \A i \in 1 .. n : B[i] = A[i]
          /\ B[n + 1] = Frame(c)
      <4>1. /\ Append(A, f) \in Seq(Seq(Byte)) /\ Len(Append(A, f)) = Len(A) + 1
            /\ \A i \in 1 .. Len(A) : Append(A, f)[i] = A[i]
            /\ Append(A, f)[Len(A) + 1] = f
        BY <3>1, AppendProperties
      <4> QED  BY ONLY <3>1, <3>9, <4>1
    <3> HIDE DEF B
    <3>5. ASSUME NEW i \in 1 .. n + 1 PROVE Frame(pushed[s][h + i])' = B[i]
      <4>1. CASE i = n + 1
        <5>1. pushed'[s][h + i] = c
          BY <2>5, <3>3, <4>1
        <5>2. Frame(pushed[s][h + i])' = Frame(c)
          <6>1. frame'[c] = frame[c]
            BY <1>2
          <6> QED  BY ONLY <5>1, <6>1, FrameAt, Zenon
        <5> QED  BY <3>4, <4>1, <5>2
      <4>2. CASE i # n + 1
        <5>1. i \in 1 .. n
          BY <3>1, <4>2
        <5>2. pushed'[s][h + i] = pushed[s][h + i]
          BY <2>5, <3>1, <5>1
        <5>3. PICK d : d = pushed[s][h + i]
          OBVIOUS
        <5>4. Frame(pushed[s][h + i])' = Frame(d)
          <6>1. frame'[d] = frame[d] /\ pushed'[s][h + i] = d
            BY <1>2, <5>2, <5>3
          <6> QED  BY ONLY <6>1, FrameAt, Zenon
        <5>5. A[i] = Frame(d)
          BY <3>1, <5>1, <5>3
        <5> QED  BY <3>4, <5>1, <5>4, <5>5
      <4> QED  BY <4>1, <4>2
    <3>6. B = [i \in 1 .. n + 1 |-> B[i]]
      BY <3>1, <3>4
    <3>7. Ahead(s)' = [i \in 1 .. n + 1 |-> Frame(pushed[s][h + i])']
      BY <3>2, <3>3
    <3>8. Ahead(s)' = B
      BY <3>5, <3>6, <3>7
    <3> QED  BY <3>8 DEF B, A
  <2>13. Rest(s)' = Frame(c)
    <3>1. Rest(s)' = Unsent(c)'
      BY <2>6, <2>9 DEF Rest, Unsent, Frame, Body, BodySize
    <3>2. Unsent(c)' = SubSeq(Frame(c), 0 + 1, Len(Frame(c)))
      BY <1>2, <1>10, <1>11 DEF Unsent
    <3>3. SubSeq(Frame(c), 1, Len(Frame(c))) = Frame(c)
      BY <1>11, SubSeqFull
    <3> QED  BY <3>1, <3>2, <3>3
  <2>14. NoByteLost(s)'
    <3>1. StreamOK(Byte, stream_buffer[s], segments[s], snd_queue[s], Ahead(s), <<>>)
      BY <2>1, <2>6 DEF StreamInv, NoByteLost, Rest
    <3>2. /\ stream_buffer[s] \in Seq(Byte) /\ segments[s] \in Seq(Seq(Byte))
          /\ snd_queue[s] \in Seq(Seq(Byte))
      BY <2>6 DEF LinkInv, LinkTypes
    <3>3. StreamOK(Byte, stream_buffer[s], segments[s], snd_queue[s],
                   Append(Ahead(s), Frame(c)), Frame(c))
      BY <1>11, <2>2, <3>1, <3>2, StreamLock
    <3> QED  BY <1>2, <2>12, <2>13, <3>3 DEF NoByteLost
  <2>15. StreamInv(s)'
    BY <2>7, <2>8, <2>10, <2>11, <2>14 DEF StreamInv
  <2>16. st' = st
    BY DEF st, StreamOf
  <2> QED  BY <2>15, <2>16
<1>16. \A r \in Streams : StreamInv(r)'
  BY <1>14, <1>15
<1> QED  BY <1>3, <1>12, <1>13, <1>16 DEF LinkInv

\* A step after which the same chunks are pushed and handed up.
LEMMA StreamKept ==
    ASSUME LinkInv, NEW st \in Streams,
           pushed'[st] = pushed[st], handed'[st] = handed[st], frame' = frame,
           \A i \in 1 .. Len(pushed[st]) :
              task'[pushed[st][i]] \in {"sending", "flush", "pushed", "counted", "done"}
    PROVE  /\ PushedOnce(st)' /\ HandedInOrder(st)'
           /\ Ahead(st)' = Ahead(st) /\ LastPushed(st)' = LastPushed(st)
<1>1. Ahead(st)' = Ahead(st)
  BY AheadSame
<1>2. Len(pushed[st]) \in Nat /\ Len(handed[st]) \in Nat
  BY AheadFacts
<1>3. StreamInv(st)
  BY DEF LinkInv
<1>4. LastPushed(st)' = LastPushed(st)
  BY DEF LastPushed
<1>5. PushedOnce(st)'
  BY <1>3 DEF StreamInv, PushedOnce, StreamOf
<1>6. HandedInOrder(st)'
  <2>1. HandedInOrder(st)
    BY <1>3 DEF StreamInv
  <2>2. ASSUME NEW i \in 1 .. Len(handed[st]) PROVE handed'[st][i] = Body(pushed[st][i])'
    <3>1. i \in 1 .. Len(pushed[st])
      BY <1>2, <2>1 DEF HandedInOrder
    <3>2. Body(pushed[st][i])' = Body(pushed[st][i])
      BY <3>1 DEF Body, BodySize
    <3> QED  BY <2>1, <3>2 DEF HandedInOrder
  <2> QED  BY <2>1, <2>2 DEF HandedInOrder
<1> QED  BY <1>1, <1>4, <1>5, <1>6

\* The holder of the mutex.
LEMMA HolderFacts ==
    ASSUME LinkInv, NEW c \in Chunks, task[c] \in {"sending", "flush"}
    PROVE  /\ StreamOf(c) \in Streams /\ kcpMutex[StreamOf(c)] = {c}
           /\ Len(pushed[StreamOf(c)]) \in 1 .. Len(pushed[StreamOf(c)])
           /\ LastPushed(StreamOf(c)) = c /\ Rest(StreamOf(c)) = Unsent(c)
           /\ Frame(c) \in Seq(Byte) /\ Len(Frame(c)) \in Nat
           /\ sent[c] \in 0 .. Len(Frame(c))
           /\ \A d \in Chunks : d # c /\ task[d] \in {"sending", "flush"}
                                  => StreamOf(d) # StreamOf(c)
<1> DEFINE st == StreamOf(c)
<1>1. st \in Streams
  BY StreamOfChunk DEF LinkInv
<1>2. TaskOK(c) /\ sent[c] \in Nat
  BY DEF LinkInv, TaskInv
<1>3. kcpMutex[st] = {c} /\ frame[c] \in Messages(c)
  BY <1>2 DEF TaskOK
<1>4. Len(pushed[st]) > 0 /\ kcpMutex[st] = {LastPushed(st)}
  BY <1>1, <1>3 DEF LinkInv, StreamInv, HolderIsLast
<1>5. LastPushed(st) = c
  BY <1>3, <1>4
<1>6. Rest(st) = Unsent(c)
  BY <1>3, <1>5 DEF Rest
<1>7. Frame(c) \in Seq(Byte)
  BY <1>3, Known DEF LinkInv
<1>8. Len(Frame(c)) \in Nat
  BY <1>7
<1>9. sent[c] \in 0 .. Len(Frame(c))
  BY <1>2, <1>8 DEF TaskOK
<1>10. Len(pushed[st]) \in 1 .. Len(pushed[st])
  BY <1>1, <1>4, AheadFacts
<1>11. ASSUME NEW d \in Chunks, d # c, task[d] \in {"sending", "flush"}
       PROVE  StreamOf(d) # StreamOf(c)
  <2>1. kcpMutex[StreamOf(d)] = {d}
    BY <1>11 DEF LinkInv, TaskInv, TaskOK
  <2> QED  BY <1>3, <1>11, <2>1
<1> QED  BY <1>1, <1>3, <1>5, <1>6, <1>7, <1>8, <1>9, <1>10, <1>11

\* The next piece of a frame, and what is left after it.
LEMMA PieceFacts ==
    ASSUME LinkInv, NEW c \in Chunks, task[c] = "sending"
    PROVE  /\ Piece(c) \in Seq(Byte) /\ Len(Piece(c)) \in Nat
           /\ Len(Piece(c)) <= max_send_size
           /\ sent[c] + Len(Piece(c)) \in 0 .. Len(Frame(c))
           /\ SubSeq(Frame(c), sent[c] + Len(Piece(c)) + 1, Len(Frame(c))) \in Seq(Byte)
           /\ Unsent(c) = Cat(Piece(c), SubSeq(Frame(c), sent[c] + Len(Piece(c)) + 1, Len(Frame(c))))
<1> DEFINE f == Frame(c)
           L == Len(f)
           n == sent[c]
           e == Min({n + max_send_size, L})
<1>1. f \in Seq(Byte) /\ L \in Nat /\ n \in 0 .. L
  BY HolderFacts
<1>2. max_send_size \in Nat
  BY DataPathAssumption
<1>3. Piece(c) = SubSeq(f, n + 1, e)
  BY DEF Piece
<1> HIDE DEF f, n
<1>4. e \in n .. L /\ e <= n + max_send_size
  <2> DEFINE a == n + max_send_size
  <2>1. a \in Nat /\ a >= n
    BY <1>1, <1>2
  <2>2. e = IF a <= L THEN a ELSE L
    BY <1>1, <2>1, MinOfTwo
  <2> HIDE DEF a, e, L
  <2>3. e \in n .. L /\ e <= a
    BY <1>1, <2>1, <2>2
  <2> QED  BY <2>3 DEF a
<1> HIDE DEF e
<1>5. SubSeq(f, n + 1, e) \in Seq(Byte) /\ Len(SubSeq(f, n + 1, e)) = e - n
  BY <1>1, <1>4, PartOf
<1> DEFINE k == Len(Piece(c))
<1>6. k = e - n
  BY <1>3, <1>5
<1> HIDE DEF k, L
<1>7. k \in Nat /\ k <= max_send_size /\ n + k = e /\ e \in 0 .. L
      /\ n + 1 \in 1 .. L + 1 /\ e \in (n + 1) - 1 .. L /\ L \in e .. L
  BY <1>1, <1>2, <1>4, <1>6
<1>8. SubSeq(f, e + 1, L) \in Seq(Byte)
  BY <1>1, <1>7, PartOf DEF L
<1>9. SubSeq(f, n + 1, e) \o SubSeq(f, e + 1, L) = SubSeq(f, n + 1, L)
  BY <1>1, <1>7, ConcatAdjacentSubSeq DEF L
<1>10. Unsent(c) = Cat(Piece(c), SubSeq(f, e + 1, L))
  BY <1>3, <1>9 DEF Unsent, Cat, f, n, L
<1>11. Piece(c) \in Seq(Byte)
  BY <1>3, <1>5
<1>12. k \in Nat /\ k <= max_send_size /\ n + k \in 0 .. L
       /\ SubSeq(f, n + k + 1, L) \in Seq(Byte)
       /\ Unsent(c) = Cat(Piece(c), SubSeq(f, n + k + 1, L))
  BY ONLY <1>7, <1>8, <1>10
<1> QED  BY <1>11, <1>12 DEF k, n, L, f

\* A piece is given to ikcp_send: it leaves the rest and joins the queue.
LEMMA SendPieceStep ==
    ASSUME LinkInv, NEW c \in Chunks, SendPiece(c)
    PROVE  LinkInv'
<1> PICK st : st = StreamOf(c)
  OBVIOUS
<1> PICK x : x = Piece(c)
  OBVIOUS
<1> PICK k : k = Len(Piece(c))
  OBVIOUS
<1> PICK r : r = ikcp_send(snd_queue[st], x)
  OBVIOUS
<1> PICK f : f = Frame(c)
  OBVIOUS
<1> PICK n : n = sent[c]
  OBVIOUS
<1>1. /\ task[c] = "sending"
      /\ snd_queue' = [snd_queue EXCEPT ![st] = r.queue]
      /\ sent' = [sent EXCEPT ![c] = IF r.error THEN sent[c] ELSE sent[c] + k]
      /\ task' = [task EXCEPT ![c] =
            IF r.error \/ sent'[c] = Len(f) THEN "flush" ELSE "sending"]
      /\ UNCHANGED <<file_view, strategy>> /\ write_view' = write_view
      /\ frame' = frame /\ kcpMutex' = kcpMutex /\ segments' = segments
      /\ pushed' = pushed /\ stream_buffer' = stream_buffer /\ handed' = handed
  BY DEF SendPiece, fileVars
<1>2. /\ st \in Streams /\ kcpMutex[st] = {c} /\ LastPushed(st) = c /\ Rest(st) = Unsent(c)
      /\ f \in Seq(Byte) /\ Len(f) \in Nat
      /\ Len(pushed[st]) \in 1 .. Len(pushed[st])
      /\ \A d \in Chunks : d # c /\ task[d] \in {"sending", "flush"} => StreamOf(d) # st
  BY <1>1, HolderFacts
<1>3. /\ x \in Seq(Byte) /\ k \in Nat /\ k <= max_send_size /\ n + k \in 0 .. Len(f)
      /\ SubSeq(f, n + k + 1, Len(f)) \in Seq(Byte)
      /\ Unsent(c) = Cat(x, SubSeq(f, n + k + 1, Len(f)))
  BY <1>1, PieceFacts
<1>4. /\ snd_queue \in [Streams -> Seq(Seq(Byte))] /\ snd_queue[st] \in Seq(Seq(Byte))
      /\ task \in [Chunks -> Tasks] /\ sent \in [Chunks -> Nat] /\ DOMAIN frame = Chunks
  BY <1>2 DEF LinkInv, LinkTypes, TaskInv
<1>5. /\ r.error = FALSE /\ r.queue \in Seq(Seq(Byte))
      /\ \A j \in 1 .. Len(r.queue) : Len(r.queue[j]) <= mss
      /\ \A q \in Seq(Byte) : Joins(q, snd_queue[st]) => Joins(Cat(q, x), r.queue)
  <2>1. \A j \in 1 .. Len(snd_queue[st]) : Len(snd_queue[st][j]) <= mss
    BY <1>2 DEF LinkInv, StreamInv, SegmentsFit
  <2>2. Len(x) <= max_send_size
    BY <1>3
  <2> QED  BY <1>3, <1>4, <2>1, <2>2, SendWhole
<1>6. /\ sent' \in [Chunks -> Nat] /\ sent'[c] = n + k
      /\ \A d \in Chunks : d # c => sent'[d] = sent[d]
  <2>1. sent[c] + k \in Nat
    BY <1>3, <1>4
  <2>2. sent' = [sent EXCEPT ![c] = sent[c] + k]
    BY <1>1, <1>5
  <2> QED  BY <1>4, <2>1, <2>2
<1>7. /\ task' \in [Chunks -> Tasks]
      /\ task'[c] = IF n + k = Len(f) THEN "flush" ELSE "sending"
      /\ \A d \in Chunks : d # c => task'[d] = task[d]
  BY <1>1, <1>4, <1>5, <1>6 DEF Tasks
<1>8. /\ snd_queue' \in [Streams -> Seq(Seq(Byte))] /\ snd_queue'[st] = r.queue
      /\ \A s \in Streams : s # st => snd_queue'[s] = snd_queue[s]
  BY <1>1, <1>2, <1>4, <1>5
<1>9. FileInv' /\ Chunks' = Chunks /\ Messages(c)' = Messages(c)
  BY <1>1, FilesSame DEF LinkInv
<1>10. Frame(c)' = f
  BY <1>1, FrameSame
<1>11. TaskInv'
  <2>1. ASSUME NEW d \in Chunks PROVE TaskOK(d)'
    <3>1. CASE d # c
      BY <1>1, <1>6, <1>7, <3>1, TaskSame
    <3>2. CASE d = c
      <4>1. task'[c] # "queued" => frame'[c] \in Messages(c)'
        BY <1>1, <1>9 DEF LinkInv, TaskInv, TaskOK
      <4>2. task'[c] = "sending" => sent'[c] <= Len(f)
        BY <1>2, <1>3, <1>6
      <4>3. task'[c] \in {"flush", "pushed", "counted", "done"} => sent'[c] = Len(f)
        BY <1>6, <1>7
      <4>4. task'[c] \in {"sending", "flush"} /\ kcpMutex'[st] = {c}
        BY <1>1, <1>2, <1>7
      <4> QED  BY <1>10, <3>2, <4>1, <4>2, <4>3, <4>4 DEF TaskOK, StreamOf
    <3> QED  BY <3>1, <3>2
  <2> QED  BY <1>1, <1>4, <1>6, <1>7, <1>9, <2>1 DEF TaskInv
<1>12. LinkTypes'
  BY <1>1, <1>8, <1>9 DEF LinkInv, LinkTypes
<1>13. ASSUME NEW s \in Streams, s # st PROVE StreamInv(s)'
  BY <1>1, <1>6, <1>7, <1>8, <1>13, OtherStream
<1>14. StreamInv(st)'
  <2>1. ASSUME NEW i \in 1 .. Len(pushed[st])
        PROVE  task'[pushed[st][i]] \in {"sending", "flush", "pushed", "counted", "done"}
    <3>1. /\ pushed[st][i] \in Chunks
          /\ task[pushed[st][i]] \in {"sending", "flush", "pushed", "counted", "done"}
      BY <1>2, PushedKnown
    <3> QED  BY <1>7, <3>1
  <2>2. /\ PushedOnce(st)' /\ HandedInOrder(st)'
        /\ Ahead(st)' = Ahead(st) /\ LastPushed(st)' = c
    BY <1>1, <1>2, <2>1, StreamKept
  <2>3. SegmentsFit(st)'
    BY <1>5, <1>8 DEF SegmentsFit
  <2>4. HolderIsLast(st)'
    <3>1. Len(pushed'[st]) > 0
      BY <1>1, <1>2
    <3> QED  BY <1>1, <1>2, <1>7, <2>2, <3>1 DEF HolderIsLast
  <2>5. Rest(st)' = SubSeq(f, n + k + 1, Len(f))
    <3>1. Rest(st)' = Unsent(c)'
      BY <1>1, <1>2, <2>2 DEF Rest, Unsent, Frame, Body, BodySize
    <3>2. Unsent(c)' = SubSeq(f, (n + k) + 1, Len(f))
      BY <1>6, <1>10 DEF Unsent
    <3> QED  BY <3>1, <3>2
  <2>6. NoByteLost(st)'
    <3> PICK rest \in Seq(Byte) : rest = SubSeq(f, n + k + 1, Len(f))
      BY <1>3
    <3>1. StreamOK(Byte, stream_buffer[st], segments[st], snd_queue[st], Ahead(st), Cat(x, rest))
      BY <1>2, <1>3 DEF LinkInv, StreamInv, NoByteLost
    <3>2. /\ stream_buffer[st] \in Seq(Byte) /\ segments[st] \in Seq(Seq(Byte))
          /\ snd_queue[st] \in Seq(Seq(Byte)) /\ Ahead(st) \in Seq(Seq(Byte))
      BY <1>2, AheadFacts DEF LinkInv, LinkTypes
    <3>3. StreamOK(Byte, stream_buffer[st], segments[st], r.queue, Ahead(st), rest)
      BY <1>3, <1>5, <3>1, <3>2, StreamSend
    <3> QED  BY <1>1, <1>8, <2>2, <2>5, <3>3 DEF NoByteLost
  <2> QED  BY <2>2, <2>3, <2>4, <2>6 DEF StreamInv
<1>15. \A s \in Streams : StreamInv(s)'
  BY <1>13, <1>14
<1> QED  BY <1>9, <1>11, <1>12, <1>15 DEF LinkInv

\* A flush, when there is no rest: segments move from the queue to the window.
LEMMA FlushStream ==
    ASSUME LinkInv, NEW st \in Streams, NEW n \in 0 .. Len(snd_queue[st]), Flush(st, n),
           UNCHANGED <<pushed, handed, frame, stream_buffer>>,
           Rest(st) = <<>>, kcpMutex'[st] = {},
           \A i \in 1 .. Len(pushed[st]) :
              task'[pushed[st][i]] \in {"sending", "flush", "pushed", "counted", "done"}
    PROVE  /\ StreamInv(st)'
           /\ snd_queue' \in [Streams -> Seq(Seq(Byte))]
           /\ segments' \in [Streams -> Seq(Seq(Byte))]
           /\ \A s \in Streams : s # st =>
                 snd_queue'[s] = snd_queue[s] /\ segments'[s] = segments[s]
<1> PICK queue, segs : queue = snd_queue[st] /\ segs = segments[st]
  OBVIOUS
<1> PICK g, h : g = SubSeq(queue, n + 1, Len(queue)) /\ h = segs \o SubSeq(queue, 1, n)
  OBVIOUS
<1>1. /\ snd_queue \in [Streams -> Seq(Seq(Byte))] /\ queue \in Seq(Seq(Byte))
      /\ segments \in [Streams -> Seq(Seq(Byte))] /\ segs \in Seq(Seq(Byte))
      /\ stream_buffer[st] \in Seq(Byte)
  BY DEF LinkInv, LinkTypes
<1>2. /\ snd_queue' = [snd_queue EXCEPT ![st] = g]
      /\ segments' = [segments EXCEPT ![st] = h]
  BY DEF Flush
<1>3. Ahead(st) \in Seq(Seq(Byte)) /\ <<>> \in Seq(Byte)
  BY AheadFacts, EmptySeq
<1>4. StreamOK(Byte, stream_buffer[st], segs, queue, Ahead(st), <<>>)
  BY DEF LinkInv, StreamInv, NoByteLost
<1>5. /\ StreamOK(Byte, stream_buffer[st], h, g, Ahead(st), <<>>)
      /\ h \in Seq(Seq(Byte)) /\ g \in Seq(Seq(Byte))
  BY <1>1, <1>3, <1>4, StreamFlush
<1>6. /\ snd_queue' \in [Streams -> Seq(Seq(Byte))] /\ snd_queue'[st] = g
      /\ \A s \in Streams : s # st => snd_queue'[s] = snd_queue[s]
  BY <1>1, <1>2, <1>5
<1>7. /\ segments' \in [Streams -> Seq(Seq(Byte))] /\ segments'[st] = h
      /\ \A s \in Streams : s # st => segments'[s] = segments[s]
  BY <1>1, <1>2, <1>5
<1>8. /\ PushedOnce(st)' /\ HandedInOrder(st)' /\ Ahead(st)' = Ahead(st)
  BY StreamKept
<1>9. SegmentsFit(st)'
  <2>1. Len(queue) \in Nat /\ n \in 0 .. Len(queue) /\ Len(queue) \in n .. Len(queue)
    BY <1>1
  <2>2. Len(g) = Len(queue) - n /\ \A i \in 1 .. Len(queue) - n : g[i] = queue[n + i]
    BY <1>1, <2>1, PartOf
  <2>3. \A j \in 1 .. Len(queue) : Len(queue[j]) <= mss
    BY DEF LinkInv, StreamInv, SegmentsFit
  <2>4. ASSUME NEW i \in 1 .. Len(g) PROVE Len(g[i]) <= mss
    <3>1. i \in 1 .. Len(queue) - n /\ n + i \in 1 .. Len(queue)
      BY <2>1, <2>2
    <3> QED  BY <2>2, <2>3, <3>1
  <2> QED  BY <1>6, <2>4 DEF SegmentsFit
<1>10. HolderIsLast(st)'
  BY DEF HolderIsLast
<1>11. Rest(st)' = <<>>
  BY DEF Rest
<1>12. NoByteLost(st)'
  BY <1>5, <1>6, <1>7, <1>8, <1>11 DEF NoByteLost
<1> QED  BY <1>6, <1>7, <1>8, <1>9, <1>10, <1>12 DEF StreamInv

\* The mutex is given back: the whole frame has been sent.
LEMMA UnlockStep ==
    ASSUME LinkInv, NEW c \in Chunks, Unlock(c)
    PROVE  LinkInv'
<1> PICK st : st = StreamOf(c)
  OBVIOUS
<1>1. /\ task[c] = "flush"
      /\ kcpMutex' = [kcpMutex EXCEPT ![st] = kcpMutex[st] \ {c}]
      /\ task' = [task EXCEPT ![c] = "pushed"]
      /\ UNCHANGED <<file_view, strategy>> /\ write_view' = write_view
      /\ frame' = frame /\ sent' = sent /\ pushed' = pushed
      /\ stream_buffer' = stream_buffer /\ handed' = handed
  BY DEF Unlock, fileVars
<1>2. PICK n \in 0 .. Len(snd_queue[st]) : Flush(st, n)
  BY DEF Unlock
<1>3. /\ st \in Streams /\ kcpMutex[st] = {c} /\ Rest(st) = Unsent(c)
      /\ Frame(c) \in Seq(Byte) /\ Len(Frame(c)) \in Nat
      /\ \A d \in Chunks : d # c /\ task[d] \in {"sending", "flush"} => StreamOf(d) # st
  BY <1>1, HolderFacts
<1>4. /\ task \in [Chunks -> Tasks] /\ sent \in [Chunks -> Nat] /\ DOMAIN frame = Chunks
      /\ kcpMutex \in [Streams -> SUBSET Chunks]
  BY DEF LinkInv, LinkTypes, TaskInv
<1>5. /\ task' \in [Chunks -> Tasks] /\ task'[c] = "pushed"
      /\ \A d \in Chunks : d # c => task'[d] = task[d]
  BY <1>1, <1>4 DEF Tasks
<1>6. /\ kcpMutex' \in [Streams -> SUBSET Chunks] /\ kcpMutex'[st] = {}
      /\ \A s \in Streams : s # st => kcpMutex'[s] = kcpMutex[s]
  <2>1. kcpMutex[st] \ {c} = {}
    BY <1>3
  <2> QED  BY <1>1, <1>3, <1>4, <2>1
<1>7. FileInv' /\ Chunks' = Chunks /\ Messages(c)' = Messages(c)
  BY <1>1, FilesSame DEF LinkInv
<1>8. Rest(st) = <<>>
  <2>1. sent[c] = Len(Frame(c))
    BY <1>1 DEF LinkInv, TaskInv, TaskOK
  <2>2. Len(Frame(c)) < sent[c] + 1 /\ Len(Frame(c)) \in Int /\ sent[c] + 1 \in Int
    BY <1>3, <2>1
  <2> PICK a, b : a = sent[c] + 1 /\ b = Len(Frame(c))
    OBVIOUS
  <2>3. SubSeq(Frame(c), a, b) = <<>>
    BY <2>2, SubSeqEmpty
  <2> QED  BY <1>3, <2>3 DEF Unsent
<1>9. ASSUME NEW i \in 1 .. Len(pushed[st])
      PROVE  task'[pushed[st][i]] \in {"sending", "flush", "pushed", "counted", "done"}
  <2>1. /\ pushed[st][i] \in Chunks
        /\ task[pushed[st][i]] \in {"sending", "flush", "pushed", "counted", "done"}
    BY <1>3, PushedKnown
  <2> QED  BY <1>5, <2>1
<1>10. /\ StreamInv(st)'
       /\ snd_queue' \in [Streams -> Seq(Seq(Byte))]
       /\ segments' \in [Streams -> Seq(Seq(Byte))]
       /\ \A s \in Streams : s # st => snd_queue'[s] = snd_queue[s] /\ segments'[s] = segments[s]
  BY <1>1, <1>2, <1>3, <1>6, <1>8, <1>9, FlushStream
<1>11. TaskInv'
  <2>1. ASSUME NEW d \in Chunks PROVE TaskOK(d)'
    <3>1. CASE d # c
      <4>1. task[d] \in {"sending", "flush"} => kcpMutex'[StreamOf(d)] = kcpMutex[StreamOf(d)]
        <5>1. StreamOf(d) \in Streams
          BY StreamOfChunk DEF LinkInv
        <5> QED  BY <1>3, <1>6, <3>1, <5>1
      <4> QED  BY <1>1, <1>5, <3>1, <4>1, TaskSame
    <3>2. CASE d = c
      <4>1. frame'[c] \in Messages(c)'
        BY <1>1, <1>7 DEF LinkInv, TaskInv, TaskOK
      <4>2. sent'[c] = Len(Frame(c)')
        <5>1. sent[c] = Len(Frame(c)) /\ Frame(c)' = Frame(c)
          BY <1>1, FrameSame DEF LinkInv, TaskInv, TaskOK
        <5> QED  BY <1>1, <5>1
      <4> QED  BY <1>5, <3>2, <4>1, <4>2 DEF TaskOK
    <3> QED  BY <3>1, <3>2
  <2> QED  BY <1>1, <1>4, <1>5, <1>7, <2>1 DEF TaskInv
<1>12. LinkTypes'
  BY <1>1, <1>6, <1>7, <1>10 DEF LinkInv, LinkTypes
<1>13. ASSUME NEW s \in Streams, s # st PROVE StreamInv(s)'
  BY <1>1, <1>5, <1>6, <1>10, <1>13, OtherStream
<1>14. \A s \in Streams : StreamInv(s)'
  BY <1>10, <1>13
<1> QED  BY <1>7, <1>11, <1>12, <1>14 DEF LinkInv

\* A task that is done with its frame counts it: no stream notices.
LEMMA CountStep ==
    ASSUME LinkInv, NEW c \in Chunks, CountSent(c) \/ AddBytes(c)
    PROVE  LinkInv'
<1>1. /\ task[c] \in {"pushed", "counted"}
      /\ task' = [task EXCEPT ![c] = "counted"] \/ task' = [task EXCEPT ![c] = "done"]
      /\ UNCHANGED <<file_view, strategy>> /\ write_view' = write_view
      /\ frame' = frame /\ sent' = sent /\ kcpMutex' = kcpMutex /\ pushed' = pushed
      /\ snd_queue' = snd_queue /\ segments' = segments
      /\ stream_buffer' = stream_buffer /\ handed' = handed
  BY DEF CountSent, AddBytes, linkVars, fileVars
<1>2. task \in [Chunks -> Tasks] /\ sent \in [Chunks -> Nat] /\ DOMAIN frame = Chunks
  BY DEF LinkInv, TaskInv
<1>3. /\ task' \in [Chunks -> Tasks] /\ task'[c] \in {"counted", "done"}
      /\ \A d \in Chunks : d # c => task'[d] = task[d]
  BY <1>1, <1>2 DEF Tasks
<1>4. FileInv' /\ Chunks' = Chunks /\ \A d : Messages(d)' = Messages(d)
  BY <1>1, FilesSame DEF LinkInv
<1>5. TaskInv'
  <2>1. ASSUME NEW d \in Chunks PROVE TaskOK(d)'
    <3>1. CASE d # c
      BY <1>1, <1>3, <3>1, TaskSame
    <3>2. CASE d = c
      <4>1. frame'[c] \in Messages(c)' /\ sent[c] = Len(Frame(c)) /\ Frame(c)' = Frame(c)
        BY <1>1, <1>4, FrameSame DEF LinkInv, TaskInv, TaskOK
      <4>2. sent'[c] = Len(Frame(c)')
        BY <1>1, <4>1
      <4> QED  BY <1>3, <3>2, <4>1, <4>2 DEF TaskOK
    <3> QED  BY <3>1, <3>2
  <2> QED  BY <1>1, <1>2, <1>3, <1>4, <2>1 DEF TaskInv
<1>6. LinkTypes'
  BY <1>1, <1>4 DEF LinkInv, LinkTypes
<1>7. ASSUME NEW st \in Streams PROVE StreamInv(st)'
  <2>1. ASSUME NEW i \in 1 .. Len(pushed[st])
        PROVE  task'[pushed[st][i]] \in {"sending", "flush", "pushed", "counted", "done"}
    <3>1. /\ pushed[st][i] \in Chunks
          /\ task[pushed[st][i]] \in {"sending", "flush", "pushed", "counted", "done"}
      BY PushedKnown
    <3> QED  BY <1>3, <3>1
  <2>2. /\ PushedOnce(st)' /\ HandedInOrder(st)'
        /\ Ahead(st)' = Ahead(st) /\ LastPushed(st)' = LastPushed(st)
    BY <1>1, <2>1, StreamKept
  <2>3. StreamInv(st)
    BY DEF LinkInv
  <2>4. SegmentsFit(st)'
    BY <1>1, <2>3 DEF StreamInv, SegmentsFit
  <2>5. HolderIsLast(st)'
    <3> SUFFICES ASSUME kcpMutex[st] # {}
                 PROVE  /\ Len(pushed[st]) > 0 /\ kcpMutex[st] = {LastPushed(st)}
                        /\ task'[LastPushed(st)] \in {"sending", "flush"}
      BY <1>1, <2>2 DEF HolderIsLast
    <3>1. /\ Len(pushed[st]) > 0 /\ kcpMutex[st] = {LastPushed(st)}
          /\ task[LastPushed(st)] \in {"sending", "flush"}
      BY <2>3 DEF StreamInv, HolderIsLast
    <3>2. LastPushed(st) \in Chunks
      BY <3>1 DEF LinkInv, LinkTypes
    <3> QED  BY <1>1, <1>3, <3>1, <3>2
  <2>6. Rest(st)' = Rest(st)
    <3> PICK l : l = LastPushed(st)
      OBVIOUS
    <3>1. Frame(l)' = Frame(l)
      BY <1>1, FrameSame
    <3>2. Unsent(l)' = Unsent(l)
      BY <1>1, <3>1 DEF Unsent
    <3>3. Unsent(LastPushed(st))' = Unsent(l)'
      BY <2>2 DEF Unsent, Frame, Body, BodySize
    <3> QED  BY <1>1, <3>2, <3>3 DEF Rest
  <2>7. NoByteLost(st)'
    BY <1>1, <2>2, <2>3, <2>6 DEF StreamInv, NoByteLost
  <2> QED  BY <2>2, <2>4, <2>5, <2>7 DEF StreamInv
<1> QED  BY <1>4, <1>5, <1>6, <1>7 DEF LinkInv

\* What a step of an io thread leaves alone.
LEMMA IoKeeps ==
    ASSUME LinkInv, UNCHANGED <<file_view, strategy, taskVars, kcpMutex, pushed, fileVars>>
    PROVE  /\ FileInv' /\ TaskInv' /\ Chunks' = Chunks
           /\ task' = task /\ sent' = sent /\ frame' = frame
           /\ \A st \in Streams : \A i \in 1 .. Len(pushed[st]) :
                 /\ frame'[pushed[st][i]] = frame[pushed[st][i]]
                 /\ sent'[pushed[st][i]] = sent[pushed[st][i]]
                 /\ task'[pushed[st][i]] = task[pushed[st][i]]
                 /\ task'[pushed[st][i]] \in {"sending", "flush", "pushed", "counted", "done"}
<1>1. /\ UNCHANGED <<file_view, strategy>> /\ write_view' = write_view /\ kcpMutex' = kcpMutex
      /\ task' = task /\ sent' = sent /\ frame' = frame
  BY DEF taskVars, fileVars
<1>2. FileInv' /\ Chunks' = Chunks
  BY <1>1, FilesSame DEF LinkInv
<1>3. ASSUME NEW d \in Chunks PROVE TaskOK(d)'
  BY <1>1, TaskSame
<1>4. TaskInv'
  BY <1>1, <1>2, <1>3 DEF LinkInv, TaskInv
<1>5. ASSUME NEW st \in Streams, NEW i \in 1 .. Len(pushed[st])
      PROVE  task[pushed[st][i]] \in {"sending", "flush", "pushed", "counted", "done"}
  BY PushedKnown
<1> QED  BY <1>1, <1>2, <1>4, <1>5

\* The sender's io thread flushes.
LEMMA IoFlushStep ==
    ASSUME LinkInv, NEW st \in Streams, IoFlush(st)
    PROVE  LinkInv'
<1>1. /\ kcpMutex[st] = {} /\ kcpMutex' = kcpMutex /\ pushed' = pushed /\ handed' = handed
      /\ stream_buffer' = stream_buffer
      /\ UNCHANGED <<file_view, strategy, taskVars, kcpMutex, pushed, fileVars>>
  BY DEF IoFlush
<1>2. PICK n \in 1 .. Len(snd_queue[st]) : Flush(st, n)
  BY DEF IoFlush
<1>3. n \in 0 .. Len(snd_queue[st])
  OBVIOUS
<1>4. /\ FileInv' /\ TaskInv' /\ Chunks' = Chunks
      /\ task' = task /\ sent' = sent /\ frame' = frame
      /\ \A s \in Streams : \A i \in 1 .. Len(pushed[s]) :
            /\ frame'[pushed[s][i]] = frame[pushed[s][i]]
            /\ sent'[pushed[s][i]] = sent[pushed[s][i]]
            /\ task'[pushed[s][i]] = task[pushed[s][i]]
            /\ task'[pushed[s][i]] \in {"sending", "flush", "pushed", "counted", "done"}
  BY <1>1, IoKeeps
<1>5. Rest(st) = <<>>
  BY <1>1 DEF Rest
<1>6. /\ StreamInv(st)'
      /\ snd_queue' \in [Streams -> Seq(Seq(Byte))]
      /\ segments' \in [Streams -> Seq(Seq(Byte))]
      /\ \A s \in Streams : s # st => snd_queue'[s] = snd_queue[s] /\ segments'[s] = segments[s]
  BY <1>1, <1>2, <1>3, <1>4, <1>5, FlushStream
<1>7. ASSUME NEW s \in Streams, s # st PROVE StreamInv(s)'
  BY <1>1, <1>4, <1>6, <1>7, StreamSame
<1>8. LinkTypes'
  BY <1>1, <1>4, <1>6 DEF LinkInv, LinkTypes
<1>9. \A s \in Streams : StreamInv(s)'
  BY <1>6, <1>7
<1> QED  BY <1>4, <1>8, <1>9 DEF LinkInv

------------------------------------------------------------------------------
(* The receiver's io thread *)

\* A segment is read: its bytes go to the end of the buffer.
LEMMA ReadStep ==
    ASSUME LinkInv, NEW st \in Streams, ReadSegment(st)
    PROVE  LinkInv'
<1> PICK buf, segs, queue :
       buf = stream_buffer[st] /\ segs = segments[st] /\ queue = snd_queue[st]
  OBVIOUS
<1>1. /\ segs # <<>>
      /\ stream_buffer' = [stream_buffer EXCEPT ![st] = buf \o Head(segs)]
      /\ segments' = [segments EXCEPT ![st] = Tail(segs)]
      /\ kcpMutex' = kcpMutex /\ pushed' = pushed /\ handed' = handed /\ snd_queue' = snd_queue
      /\ UNCHANGED <<file_view, strategy, taskVars, kcpMutex, pushed, fileVars>>
  BY DEF ReadSegment
<1>2. /\ FileInv' /\ TaskInv' /\ Chunks' = Chunks
      /\ task' = task /\ sent' = sent /\ frame' = frame
      /\ \A s \in Streams : \A i \in 1 .. Len(pushed[s]) :
            /\ frame'[pushed[s][i]] = frame[pushed[s][i]]
            /\ sent'[pushed[s][i]] = sent[pushed[s][i]]
            /\ task'[pushed[s][i]] = task[pushed[s][i]]
            /\ task'[pushed[s][i]] \in {"sending", "flush", "pushed", "counted", "done"}
  BY <1>1, IoKeeps
<1>3. /\ segments \in [Streams -> Seq(Seq(Byte))] /\ segs \in Seq(Seq(Byte))
      /\ stream_buffer \in [Streams -> Seq(Byte)] /\ buf \in Seq(Byte)
      /\ queue \in Seq(Seq(Byte))
  BY DEF LinkInv, LinkTypes
<1>4. Len(segs) > 0
  <2>1. Len(segs) \in Nat \ {0}
    BY <1>1, <1>3, EmptySeq
  <2> QED  BY <2>1
<1>5. Ahead(st) \in Seq(Seq(Byte)) /\ Rest(st) \in Seq(Byte)
  BY AheadFacts, RestFacts
<1>6. StreamOK(Byte, buf, segs, queue, Ahead(st), Rest(st))
  BY DEF LinkInv, StreamInv, NoByteLost
<1> PICK b2, s2 : b2 = buf \o Head(segs) /\ s2 = Tail(segs)
  OBVIOUS
<1>7. /\ StreamOK(Byte, b2, s2, queue, Ahead(st), Rest(st))
      /\ b2 \in Seq(Byte) /\ s2 \in Seq(Seq(Byte))
  BY <1>3, <1>4, <1>5, <1>6, StreamRead
<1>8. /\ stream_buffer' \in [Streams -> Seq(Byte)] /\ stream_buffer'[st] = b2
      /\ \A s \in Streams : s # st => stream_buffer'[s] = stream_buffer[s]
  BY <1>1, <1>3, <1>7
<1>9. /\ segments' \in [Streams -> Seq(Seq(Byte))] /\ segments'[st] = s2
      /\ \A s \in Streams : s # st => segments'[s] = segments[s]
  BY <1>1, <1>3, <1>7
<1>10. ASSUME NEW s \in Streams, s # st PROVE StreamInv(s)'
  BY <1>1, <1>2, <1>8, <1>9, <1>10, StreamSame
<1>11. LinkTypes'
  BY <1>1, <1>2, <1>8, <1>9 DEF LinkInv, LinkTypes
<1>12. StreamInv(st)'
  <2>1. /\ PushedOnce(st)' /\ HandedInOrder(st)'
        /\ Ahead(st)' = Ahead(st) /\ LastPushed(st)' = LastPushed(st)
    BY <1>1, <1>2, StreamKept
  <2>2. StreamInv(st)
    BY DEF LinkInv
  <2>3. SegmentsFit(st)' /\ HolderIsLast(st)'
    BY <1>1, <1>2, <2>2 DEF StreamInv, SegmentsFit, HolderIsLast, LastPushed
  <2>4. Rest(st)' = Rest(st)
    BY <1>1, <1>2 DEF Rest, Unsent, LastPushed, Frame, Body, BodySize
  <2>5. NoByteLost(st)'
    BY <1>1, <1>7, <1>8, <1>9, <2>1, <2>4 DEF NoByteLost
  <2> QED  BY <2>1, <2>3, <2>5 DEF StreamInv
<1>13. \A s \in Streams : StreamInv(s)'
  BY <1>10, <1>12
<1> QED  BY <1>2, <1>11, <1>13 DEF LinkInv

\* The bytes cut off the buffer are the message of the next pushed chunk.
LEMMA HandUpFacts ==
    ASSUME LinkInv, NEW st \in Streams, HoldsFrame(stream_buffer[st])
    PROVE  /\ Len(handed[st]) + 1 \in 1 .. Len(pushed[st])
           /\ SubSeq(stream_buffer[st], 5, 4 + frameLength(stream_buffer[st]))
                = Body(pushed[st][Len(handed[st]) + 1])
           /\ AfterFrame(stream_buffer[st]) \in Seq(Byte)
           /\ StreamOK(Byte, AfterFrame(stream_buffer[st]), segments[st], snd_queue[st],
                       Tail(Ahead(st)), Rest(st))
<1> PICK buf, segs, queue, A, R :
       /\ buf = stream_buffer[st] /\ segs = segments[st] /\ queue = snd_queue[st]
       /\ A = Ahead(st) /\ R = Rest(st)
  OBVIOUS
<1> PICK p, h : p = Len(pushed[st]) /\ h = Len(handed[st])
  OBVIOUS
<1>1. /\ segs \in Seq(Seq(Byte)) /\ buf \in Seq(Byte) /\ queue \in Seq(Seq(Byte))
  BY DEF LinkInv, LinkTypes
<1>2. /\ p \in Nat /\ h \in Nat /\ p - h \in Nat /\ A \in Seq(Seq(Byte)) /\ Len(A) = p - h
      /\ \A i \in 1 .. p - h : h + i \in 1 .. p /\ A[i] = Frame(pushed[st][h + i])
  BY AheadFacts
<1>3. R \in Seq(Byte)
  BY RestFacts
<1>4. StreamOK(Byte, buf, segs, queue, A, R)
  BY DEF LinkInv, StreamInv, NoByteLost
<1>5. Len(buf) \in Nat /\ Len(buf) >= 4 /\ Len(buf) >= 4 + frameLength(buf)
  BY <1>1 DEF HoldsFrame
<1>6. Len(buf) > 0
  BY <1>5
<1>7. /\ Len(A) > 0
      /\ \A i \in 1 .. Len(buf) : i <= Len(Head(A)) => buf[i] = Head(A)[i]
  <2>1. A \in Seq(Seq(Byte))
    BY <1>2
  <2> QED  BY ONLY <1>1, <1>3, <1>4, <1>6, <2>1, StreamFirst
<1>8. 1 \in 1 .. p - h /\ h + 1 \in 1 .. p
  <2> PICK l : l = Len(A)
    OBVIOUS
  <2>1. p \in Nat /\ h \in Nat /\ l = p - h /\ l > 0
    BY <1>2, <1>7
  <2> QED  BY ONLY <2>1
<1> PICK c : c = pushed[st][h + 1]
  OBVIOUS
<1> PICK f : f = Frame(c)
  OBVIOUS
<1>9. Head(A) = f
  <2>1. A[1] = f
    BY <1>2, <1>8
  <2>2. A # <<>>
    BY <1>2, <1>8
  <2>3. Head(A) = A[1]
    BY <1>2, <2>2
  <2> QED  BY <2>1, <2>3
<1>10. c \in Chunks /\ frame[c] \in Messages(c)
  BY <1>8, PushedKnown
<1> PICK n : n = BodySize(c)
  OBVIOUS
<1>11. /\ n \in Nat /\ f \in Seq(Byte) /\ Len(f) = 4 + n
       /\ Body(c) \in Seq(Byte) /\ SubSeq(f, 5, 4 + n) = Body(c)
       /\ \A buffer : (\A i \in 1 .. 4 : buffer[i] = f[i]) => frameLength(buffer) = n
  BY <1>10, Known DEF LinkInv
<1>12. frameLength(buf) = n
  <2>1. ASSUME NEW i \in 1 .. 4 PROVE buf[i] = f[i]
    <3>1. i \in 1 .. Len(buf) /\ i <= Len(f)
      BY <1>5, <1>11
    <3> QED  BY <1>7, <1>9, <3>1
  <2> QED  BY <1>11, <2>1
<1>13. Len(Head(A)) = 4 + n /\ Len(Head(A)) <= Len(buf)
  BY <1>5, <1>9, <1>11, <1>12
<1>14. /\ SubSeq(buf, 1, Len(Head(A))) = Head(A)
       /\ StreamOK(Byte, SubSeq(buf, Len(Head(A)) + 1, Len(buf)), segs, queue, Tail(A), R)
  <2>1. A \in Seq(Seq(Byte)) /\ Len(A) > 0 /\ Len(Head(A)) <= Len(buf)
    BY ONLY <1>2, <1>7, <1>13
  <2> QED  BY ONLY <1>1, <1>3, <1>4, <2>1, StreamHandUp
<1>15. /\ SubSeq(buf, 1, 4 + n) = f
       /\ StreamOK(Byte, SubSeq(buf, (4 + n) + 1, Len(buf)), segs, queue, Tail(A), R)
  BY ONLY <1>9, <1>13, <1>14
<1>16. /\ 4 + n \in 0 .. Len(buf) /\ Len(buf) \in 4 + n .. Len(buf) /\ (4 + n) + 1 = 5 + n
       /\ 4 \in 0 .. Len(buf) /\ 4 + n \in 4 .. Len(buf) /\ (4 + n) - 4 = n
       /\ 0 \in 0 .. Len(buf) /\ 4 + n \in 0 .. Len(buf) /\ (4 + n) - 0 = 4 + n
       /\ 4 \in 0 .. Len(f) /\ 4 + n \in 4 .. Len(f) /\ 4 + 1 = 5 /\ 0 + 1 = 1
  <2> PICK a, b : a = Len(buf) /\ b = Len(f)
    OBVIOUS
  <2>1. a \in Nat /\ n \in Nat /\ b = 4 + n /\ 4 + n <= a
    BY <1>1, <1>9, <1>11, <1>13
  <2> QED  BY <2>1
<1>17. AfterFrame(buf) \in Seq(Byte) /\ AfterFrame(buf) = SubSeq(buf, (4 + n) + 1, Len(buf))
  <2> PICK k, l : k = 4 + n /\ l = Len(buf)
    OBVIOUS
  <2>2. buf \in Seq(Byte) /\ k \in 0 .. Len(buf) /\ l \in k .. Len(buf)
    BY <1>1, <1>16
  <2>3. SubSeq(buf, k + 1, l) \in Seq(Byte)
    BY ONLY <2>2, PartOf
  <2>1. SubSeq(buf, (4 + n) + 1, Len(buf)) \in Seq(Byte)
    BY <2>3
  <2> QED  BY <1>12, <1>16, <2>1 DEF AfterFrame
<1>18. SubSeq(buf, 5, 4 + n) = Body(c)
  <2> PICK d : d = SubSeq(buf, 4 + 1, 4 + n)
    OBVIOUS
  <2> PICK e : e = SubSeq(f, 4 + 1, 4 + n)
    OBVIOUS
  <2>1. d \in Seq(Byte) /\ Len(d) = (4 + n) - 4 /\ \A i \in 1 .. (4 + n) - 4 : d[i] = buf[4 + i]
    <3> PICK k : k = 4 + n
      OBVIOUS
    <3>1. buf \in Seq(Byte) /\ 4 \in 0 .. Len(buf) /\ k \in 4 .. Len(buf)
      BY <1>1, <1>16
    <3>2. /\ SubSeq(buf, 4 + 1, k) \in Seq(Byte) /\ Len(SubSeq(buf, 4 + 1, k)) = k - 4
          /\ \A i \in 1 .. k - 4 : SubSeq(buf, 4 + 1, k)[i] = buf[4 + i]
      BY ONLY <3>1, PartOf
    <3> QED  BY <3>2
  <2>2. e \in Seq(Byte) /\ Len(e) = (4 + n) - 4 /\ \A i \in 1 .. (4 + n) - 4 : e[i] = f[4 + i]
    <3>1. f \in Seq(Byte) /\ 4 \in 0 .. Len(f) /\ 4 + n \in 4 .. Len(f)
      BY ONLY <1>11, <1>16
    <3>2. /\ SubSeq(f, 4 + 1, 4 + n) \in Seq(Byte)
          /\ Len(SubSeq(f, 4 + 1, 4 + n)) = (4 + n) - 4
          /\ \A i \in 1 .. (4 + n) - 4 : SubSeq(f, 4 + 1, 4 + n)[i] = f[4 + i]
      BY ONLY <3>1, PartOf
    <3> QED  BY <3>2
  <2>3. \A i \in 1 .. (4 + n) - 0 : SubSeq(buf, 0 + 1, 4 + n)[i] = buf[0 + i]
    <3> PICK k : k = 4 + n
      OBVIOUS
    <3>1. buf \in Seq(Byte) /\ 0 \in 0 .. Len(buf) /\ k \in 0 .. Len(buf)
      BY <1>1, <1>16
    <3>2. \A i \in 1 .. k - 0 : SubSeq(buf, 0 + 1, k)[i] = buf[0 + i]
      BY ONLY <3>1, PartOf
    <3> QED  BY <3>2
  <2>4. ASSUME NEW i \in 1 .. n PROVE d[i] = e[i]
    <3>1. 4 + i \in 1 .. 4 + n /\ 0 + (4 + i) = 4 + i /\ (4 + n) - 0 = 4 + n /\ 0 + 1 = 1
      <4>1. n \in Nat
        BY <1>11
      <4> QED  BY ONLY <4>1, i \in 1 .. n
    <3>2. SubSeq(buf, 1, 4 + n)[4 + i] = buf[4 + i]
      BY ONLY <2>3, <3>1
    <3>3. f[4 + i] = buf[4 + i]
      BY ONLY <1>15, <3>2
    <3>4. d[i] = buf[4 + i] /\ e[i] = f[4 + i]
      BY <1>16, <2>1, <2>2
    <3> QED  BY ONLY <3>3, <3>4
  <2>5. Len(d) = Len(e) /\ \A i \in 1 .. Len(d) : d[i] = e[i]
    <3>1. Len(d) = n /\ Len(e) = n
      BY ONLY <1>16, <2>1, <2>2
    <3> QED  BY ONLY <2>4, <3>1
  <2>6. d = e
    BY ONLY <2>1, <2>2, <2>5, SeqEqual
  <2> QED  BY <1>11, <1>16, <2>6
<1>19. SubSeq(buf, 5, 4 + frameLength(buf)) = Body(c)
  BY <1>12, <1>18
<1> QED  BY <1>8, <1>15, <1>17, <1>19

\* A frame is cut off and its message handed up.
LEMMA HandUpStep ==
    ASSUME LinkInv, NEW st \in Streams, HandUp(st)
    PROVE  LinkInv'
<1> PICK buf : buf = stream_buffer[st]
  OBVIOUS
<1> PICK data : data = SubSeq(buf, 5, 4 + frameLength(buf))
  OBVIOUS
<1> PICK p, h : p = Len(pushed[st]) /\ h = Len(handed[st])
  OBVIOUS
<1> PICK c : c = pushed[st][h + 1]
  OBVIOUS
<1>1. /\ HoldsFrame(buf)
      /\ handed' = [handed EXCEPT ![st] = Append(handed[st], data)]
      /\ stream_buffer' = [stream_buffer EXCEPT ![st] = AfterFrame(buf)]
      /\ UNCHANGED <<file_view, strategy, taskVars, kcpMutex, pushed, fileVars>>
      /\ kcpMutex' = kcpMutex /\ pushed' = pushed /\ snd_queue' = snd_queue
      /\ segments' = segments
  BY DEF HandUp, linkVars
<1>2. /\ FileInv' /\ TaskInv' /\ Chunks' = Chunks
      /\ task' = task /\ sent' = sent /\ frame' = frame
      /\ \A s \in Streams : \A i \in 1 .. Len(pushed[s]) :
            /\ frame'[pushed[s][i]] = frame[pushed[s][i]]
            /\ sent'[pushed[s][i]] = sent[pushed[s][i]]
            /\ task'[pushed[s][i]] = task[pushed[s][i]]
            /\ task'[pushed[s][i]] \in {"sending", "flush", "pushed", "counted", "done"}
  BY <1>1, IoKeeps
<1>3. /\ h + 1 \in 1 .. p /\ data = Body(c) /\ AfterFrame(buf) \in Seq(Byte)
      /\ StreamOK(Byte, AfterFrame(buf), segments[st], snd_queue[st], Tail(Ahead(st)), Rest(st))
  BY <1>1, HandUpFacts
<1>4. c \in Chunks /\ Body(c) \in Seq(Byte)
  BY <1>3, PushedKnown
<1>5. /\ handed \in [Streams -> Seq(Seq(Byte))] /\ handed[st] \in Seq(Seq(Byte))
      /\ stream_buffer \in [Streams -> Seq(Byte)]
  BY DEF LinkInv, LinkTypes
<1>6. /\ Append(handed[st], data) \in Seq(Seq(Byte)) /\ Len(Append(handed[st], data)) = h + 1
      /\ \A i \in 1 .. h : Append(handed[st], data)[i] = handed[st][i]
      /\ Append(handed[st], data)[h + 1] = data
  <2> PICK d \in Seq(Byte) : d = data
    BY <1>3, <1>4
  <2>1. /\ Append(handed[st], d) \in Seq(Seq(Byte))
        /\ Len(Append(handed[st], d)) = Len(handed[st]) + 1
        /\ \A i \in 1 .. Len(handed[st]) : Append(handed[st], d)[i] = handed[st][i]
        /\ Append(handed[st], d)[Len(handed[st]) + 1] = d
    BY <1>5, AppendProperties
  <2> QED  BY <2>1
<1>7. /\ handed' \in [Streams -> Seq(Seq(Byte))] /\ handed'[st] = Append(handed[st], data)
      /\ \A s \in Streams : s # st => handed'[s] = handed[s]
  BY <1>1, <1>5, <1>6
<1>8. /\ stream_buffer' \in [Streams -> Seq(Byte)] /\ stream_buffer'[st] = AfterFrame(buf)
      /\ \A s \in Streams : s # st => stream_buffer'[s] = stream_buffer[s]
  BY <1>1, <1>3, <1>5
<1>9. ASSUME NEW s \in Streams, s # st PROVE StreamInv(s)'
  BY <1>1, <1>2, <1>7, <1>8, <1>9, StreamSame
<1>10. LinkTypes'
  BY <1>1, <1>2, <1>7, <1>8 DEF LinkInv, LinkTypes
<1>11. StreamInv(st)'
  <2>1. StreamInv(st)
    BY DEF LinkInv
  <2>2. SegmentsFit(st)' /\ HolderIsLast(st)' /\ PushedOnce(st)'
    BY <1>1, <1>2, <2>1 DEF StreamInv, SegmentsFit, HolderIsLast, LastPushed, PushedOnce, StreamOf
  <2>3. Rest(st)' = Rest(st)
    BY <1>1, <1>2 DEF Rest, Unsent, LastPushed, Frame, Body, BodySize
  <2> PICK A : A = Ahead(st)
    OBVIOUS
  <2>4. /\ p \in Nat /\ h \in Nat /\ p - h \in Nat
        /\ A \in Seq(Seq(Byte)) /\ Len(A) = p - h
        /\ \A i \in 1 .. p - h : h + i \in 1 .. p /\ A[i] = Frame(pushed[st][h + i])
    BY AheadFacts
  <2>5. HandedInOrder(st)'
    <3>1. h + 1 <= p
      BY <1>3, <2>4
    <3>2. ASSUME NEW i \in 1 .. h + 1 PROVE handed'[st][i] = Body(pushed[st][i])'
      <4> PICK d : d = pushed[st][i]
        OBVIOUS
      <4>1. frame'[d] = frame[d] /\ pushed'[st][i] = d
        BY <1>1, <1>2
      <4>2. Body(pushed[st][i])' = Body(d)
        BY <4>1, FrameAt, Zenon
      <4>3. CASE i = h + 1
        BY <1>3, <1>6, <1>7, <4>2, <4>3
      <4>4. CASE i # h + 1
        <5>1. i \in 1 .. h
          BY <2>4, <4>4
        <5>2. handed[st][i] = Body(d)
          BY <2>1, <5>1 DEF StreamInv, HandedInOrder
        <5> QED  BY <1>6, <1>7, <4>2, <5>1, <5>2
      <4> QED  BY <4>3, <4>4
    <3>3. Len(handed'[st]) = h + 1 /\ Len(pushed'[st]) = p
      BY <1>1, <1>6, <1>7
    <3> QED  BY <3>1, <3>2, <3>3 DEF HandedInOrder
  <2>6. Ahead(st)' = Tail(A)
    <3> PICK n : n = p - (h + 1)
      OBVIOUS
    <3>1. n \in Nat /\ p - h = n + 1 /\ \A i \in 1 .. n : h + 1 + i = h + (i + 1) /\ i + 1 \in 1 .. n + 1
      <4>1. h + 1 \in 1 .. p /\ p \in Nat /\ h \in Nat /\ n = p - (h + 1)
        BY <1>3, <2>4
      <4> QED  BY ONLY <4>1
    <3>2. A # <<>>
      BY <2>4, <3>1
    <3>3. /\ Tail(A) \in Seq(Seq(Byte)) /\ Len(Tail(A)) = Len(A) - 1
          /\ \A i \in 1 .. Len(Tail(A)) : Tail(A)[i] = A[i + 1]
      BY <2>4, <3>2, HeadTailProperties
    <3>4. Len(Tail(A)) = n
      BY <2>4, <3>1, <3>3
    <3> PICK T : T = Tail(A)
      OBVIOUS
    <3>5. Ahead(st)' = [i \in 1 .. n |-> Frame(pushed[st][h + 1 + i])']
      BY <1>1, <1>6, <1>7 DEF Ahead
    <3>6. ASSUME NEW i \in 1 .. n PROVE Frame(pushed[st][h + 1 + i])' = T[i]
      <4> PICK d : d = pushed[st][h + 1 + i]
        OBVIOUS
      <4>1. frame'[d] = frame[d] /\ pushed'[st][h + 1 + i] = d
        BY <1>1, <1>2
      <4>2. Frame(pushed[st][h + 1 + i])' = Frame(d)
        BY ONLY <4>1, FrameAt, Zenon
      <4>3. A[i + 1] = Frame(pushed[st][h + (i + 1)]) /\ h + 1 + i = h + (i + 1)
        BY <2>4, <3>1
      <4>4. A[i + 1] = Frame(d)
        BY <4>3
      <4>5. T[i] = A[i + 1]
        BY <3>3, <3>4
      <4> QED  BY <4>2, <4>4, <4>5
    <3>7. T = [i \in 1 .. n |-> T[i]]
      <4>1. T \in Seq(Seq(Byte)) /\ Len(T) = n
        BY <3>3, <3>4
      <4> QED  BY ONLY <4>1
    <3>8. Ahead(st)' = T
      BY <3>5, <3>6, <3>7
    <3> QED  BY <3>8
  <2>7. NoByteLost(st)'
    BY <1>1, <1>3, <1>8, <2>3, <2>6 DEF NoByteLost
  <2> QED  BY <2>2, <2>5, <2>7 DEF StreamInv
<1>12. \A s \in Streams : StreamInv(s)'
  BY <1>9, <1>11
<1> QED  BY <1>2, <1>10, <1>12 DEF LinkInv

------------------------------------------------------------------------------
(* The receiver's file *)

Completed == {c \in Chunks : completedChunks[c]}

\* The bytes of the file that are in the chunks of a set.
BytesIn(S) == {i \in 1 .. Len(file_view) : \E c \in S : i \in Region(c)}

\* handleRecv has been given the message of c.
HandedUp(c) ==
    \E i \in 1 .. Len(handed[StreamOf(c)]) : pushed[StreamOf(c)][i] = c

\* A message is processed once, because it is handed up once, and what is
\* completed has been copied and counted.
RecvInv ==
    /\ completedChunks \in [Chunks -> BOOLEAN] /\ toProcess \subseteq Chunks
    /\ \A c \in toProcess : ~completedChunks[c]
    /\ \A c \in toProcess : HandedUp(c)
    /\ \A c \in Completed : HandedUp(c)
    /\ \A c \in Completed : \A i \in Region(c) : write_view[i] = file_view[i]
    /\ chunks_recv_ = Cardinality(Completed)
    /\ trans_complete_ => Completed = Chunks

\* The tasks that have added to chunks_sent_, and those that have added their
\* bytes as well.
Counted  == {c \in Chunks : task[c] \in {"counted", "done"}}
Reported == {c \in Chunks : task[c] = "done"}

ShownOK ==
    /\ shown \in Nat
    /\ shown * Len(file_view) <= 100 * Cardinality(BytesIn(Given))

\* The sender's counters are exact, and what is shown is not ahead of them.
ShowInv ==
    /\ chunks_sent_ = Cardinality(Counted)
    /\ bytes_transferred_ = Cardinality(BytesIn(Reported))
    /\ ShownOK

IndInv == LinkInv /\ RecvInv /\ ShowInv

\* The regions of the chunks lie in the file, apart from each other.
LEMMA RegionFacts ==
    ASSUME FileInv, NEW c \in Chunks
    PROVE  /\ Region(c) \subseteq 1 .. Len(file_view)
           /\ IsFiniteSet(Region(c)) /\ Cardinality(Region(c)) = Size(c)
           /\ \A d \in Chunks : d # c => Region(c) \cap Region(d) = {}
<1>1. Len(file_view) \in Nat /\ ChunkSize \in Nat \ {0}
  BY CodecAssumption DEF FileInv
<1>2. ASSUME NEW d \in Chunks
      PROVE  /\ d \in Nat /\ d * ChunkSize \in Nat /\ Size(d) \in 1 .. ChunkSize
             /\ d * ChunkSize + Size(d) <= Len(file_view)
             /\ Region(d) = d * ChunkSize + 1 .. d * ChunkSize + Size(d)
  BY ChunkBegins, SizeBounds DEF Region
<1> PICK x, n, z : x = c * ChunkSize /\ n = Len(file_view) /\ z = Size(c)
  OBVIOUS
<1>3. /\ c \in Nat /\ x \in Nat /\ n \in Nat /\ z \in 1 .. ChunkSize /\ x + z <= n
      /\ Region(c) = x + 1 .. x + z
  BY <1>1, <1>2
<1>4. x + 1 .. x + z \subseteq 1 .. n
  BY ONLY <1>1, <1>3
<1>5. IsFiniteSet(x + 1 .. x + z) /\ Cardinality(x + 1 .. x + z) = z
  <2> PICK a, b : a = x + 1 /\ b = x + z
    OBVIOUS
  <2>1. a \in Int /\ b \in Int /\ ~(a > b) /\ b - a + 1 = z
    <3>1. x \in Nat /\ z \in Nat /\ z >= 1 /\ a = x + 1 /\ b = x + z
      BY <1>1, <1>3
    <3> QED  BY ONLY <3>1
  <2>2. IsFiniteSet(a .. b) /\ Cardinality(a .. b) = IF a > b THEN 0 ELSE b - a + 1
    BY <2>1, FS_Interval
  <2> QED  BY <2>1, <2>2
<1>6. ASSUME NEW d \in Chunks, d # c, NEW i \in Region(c), i \in Region(d) PROVE FALSE
  <2> PICK y, w : y = d * ChunkSize /\ w = Size(d)
    OBVIOUS
  <2>1. d \in Nat /\ y \in Nat /\ w \in 1 .. ChunkSize /\ i \in y + 1 .. y + w
    BY <1>2, <1>6
  <2>2. i \in x + 1 .. x + z
    BY <1>3
  <2>3. CASE c < d
    <3>1. c + 1 <= d /\ c + 1 \in Int /\ d \in Int /\ ChunkSize \in Nat
      BY <1>1, <1>3, <2>1, <2>3
    <3>2. (c + 1) * ChunkSize <= d * ChunkSize
      BY ONLY <3>1, MultMono
    <3>3. (c + 1) * ChunkSize = c * ChunkSize + ChunkSize
      BY <1>1, <1>3
    <3>4. x + ChunkSize <= y
      BY <3>2, <3>3
    <3> QED  BY ONLY <1>1, <1>3, <2>1, <2>2, <3>4
  <2>4. CASE d < c
    <3>1. d + 1 <= c /\ d + 1 \in Int /\ c \in Int /\ ChunkSize \in Nat
      BY <1>1, <1>3, <2>1, <2>4
    <3>2. (d + 1) * ChunkSize <= c * ChunkSize
      BY ONLY <3>1, MultMono
    <3>3. (d + 1) * ChunkSize = d * ChunkSize + ChunkSize
      BY <1>1, <2>1
    <3>4. y + ChunkSize <= x
      BY <3>2, <3>3
    <3> QED  BY ONLY <1>1, <1>3, <2>1, <2>2, <3>4
  <2> QED  BY <1>3, <1>6, <2>1, <2>3, <2>4
<1> QED  BY <1>3, <1>4, <1>5, <1>6

\* Every byte of the file is in the region of a chunk.
LEMMA RegionsCover ==
    ASSUME FileInv, NEW i \in 1 .. Len(file_view)
    PROVE  \E c \in Chunks : i \in Region(c)
<1> PICK n, t : n = Len(file_view) /\ t = TotalChunks(Len(file_view))
  OBVIOUS
<1> PICK c, r : c = (i - 1) \div ChunkSize /\ r = (i - 1) % ChunkSize
  OBVIOUS
<1>1. n \in Nat \ {0} /\ ChunkSize \in Nat \ {0}
  BY CodecAssumption DEF FileInv
<1>2. t \in Nat /\ n <= t * ChunkSize
  BY <1>1, CeilDivBounds DEF TotalChunks
<1>3. i - 1 \in Nat /\ i \in Nat /\ i <= n
  BY <1>1
<1>4. c \in Nat /\ r \in 0 .. ChunkSize - 1 /\ i - 1 = c * ChunkSize + r
  BY <1>1, <1>3, DivMod
<1> PICK x, z : x = c * ChunkSize /\ z = t * ChunkSize
  OBVIOUS
<1>5. x \in Nat /\ z \in Nat /\ i = x + r + 1
  BY <1>1, <1>2, <1>3, <1>4
<1>6. c < t
  <2>1. x < z
    BY <1>1, <1>2, <1>3, <1>4, <1>5
  <2>2. c * ChunkSize < t * ChunkSize /\ c \in Int /\ t \in Int
    BY <1>2, <1>4, <2>1
  <2> QED  BY ONLY <1>1, <2>2, MultCancel
<1>7. c \in Chunks
  <2>1. c \in 0 .. t - 1
    BY <1>2, <1>4, <1>6
  <2> QED  BY <2>1, ChunkBegins
<1>8. i \in Region(c)
  <2> PICK w : w = Size(c)
    OBVIOUS
  <2>1. w \in 1 .. ChunkSize /\ x + w <= n /\ (w = ChunkSize \/ x + w = n)
    BY <1>7, SizeBounds
  <2>2. i \in x + 1 .. x + w
    BY ONLY <1>1, <1>3, <1>4, <1>5, <2>1
  <2> QED  BY <2>2 DEF Region
<1> QED  BY <1>7, <1>8

\* The region as the properties write it.
LEMMA RegionIs ==
    ASSUME FileInv, NEW c \in Chunks
    PROVE  Region(c) = BytesOf(c)
<1> PICK x, n, z : x = c * ChunkSize /\ n = Len(file_view) /\ z = Size(c)
  OBVIOUS
<1>1. n \in Nat /\ ChunkSize \in Nat \ {0}
  BY CodecAssumption DEF FileInv
<1>2. c \in Nat /\ x \in Nat
  BY ChunkBegins
<1>3. z \in 1 .. ChunkSize /\ x + z <= n /\ (z = ChunkSize \/ x + z = n)
  BY SizeBounds
<1>4. (c + 1) * ChunkSize = x + ChunkSize
  BY <1>1, <1>2
<1> PICK y : y = x + ChunkSize
  OBVIOUS
<1>5. y \in Nat
  BY <1>1, <1>2
<1>6. Min({y, n}) = IF y <= n THEN y ELSE n
  BY <1>1, <1>5, MinOfTwo
<1>7. Min({y, n}) = x + z
  BY <1>1, <1>2, <1>3, <1>6
<1> QED  BY <1>4, <1>7 DEF Region, BytesOf

\* A message that is to be processed is of a chunk with a frame.
LEMMA ToProcessKnown ==
    ASSUME LinkInv, RecvInv, NEW c \in toProcess
    PROVE  c \in Chunks /\ frame[c] \in Messages(c)
<1>1. c \in Chunks /\ HandedUp(c)
  BY DEF RecvInv
<1> PICK st : st = StreamOf(c)
  OBVIOUS
<1>2. st \in Streams
  BY <1>1, StreamOfChunk DEF LinkInv
<1>3. PICK i \in 1 .. Len(handed[st]) : pushed[st][i] = c
  BY <1>1 DEF HandedUp
<1>4. i \in 1 .. Len(pushed[st])
  BY <1>2, AheadFacts
<1> QED  BY <1>1, <1>2, <1>3, <1>4, PushedKnown

\* processChunk finds nothing wrong with a message, and copies its chunk.
LEMMA ProcessGoesThrough ==
    ASSUME FileInv, NEW c \in Chunks, NEW m \in Messages(c)
    PROVE  /\ Writes(m, Len(write_view), Key)
           /\ Verifies(m, Written(m, write_view))
           /\ m.chunk_id = c
           /\ Written(m, write_view) \in Seq(Nat)
           /\ Len(Written(m, write_view)) = Len(write_view)
           /\ \A i \in 1 .. Len(write_view) :
                 Written(m, write_view)[i]
                   = IF i \in Region(c) THEN file_view[i] ELSE write_view[i]
<1> PICK x, n, z, W, d :
       /\ x = c * ChunkSize /\ n = Len(file_view) /\ z = Size(c)
       /\ W = Written(m, write_view)
       /\ d = m.payload.plain.data
  OBVIOUS
<1>1. /\ m.chunk_id = c /\ m.original_size = z /\ m.compress_stra = strategy
      /\ m.payload.plain.strategy = strategy /\ d = SubSeq(file_view, x + 1, x + z)
      /\ m.crc32 = Checksum(d) /\ m.payload.key = Key /\ m.payload.iv = c
      /\ m.payload.size >= TagSize
  BY MessageFacts
<1>2. Offset(m) = x
  BY <1>1 DEF Offset
<1>3. /\ n \in Nat /\ file_view \in Seq(Nat) /\ write_view \in Seq(Nat) /\ Len(write_view) = n
      /\ ChunkSize \in Nat
  BY CodecAssumption DEF FileInv
<1>4. x \in Nat /\ z \in 1 .. ChunkSize /\ x + z <= n
  BY ChunkBegins, SizeBounds
<1>5. z \in Nat /\ x \in 0 .. n /\ x + z \in x .. n /\ (x + z) - x = z
  BY ONLY <1>3, <1>4
<1>6. d \in Seq(Nat) /\ Len(d) = z /\ \A i \in 1 .. z : d[i] = file_view[x + i]
  <2> PICK f, y : f = file_view /\ y = x + z
    OBVIOUS
  <2>1. f \in Seq(Nat) /\ x \in 0 .. Len(f) /\ y \in x .. Len(f) /\ y - x = z
    BY <1>3, <1>5
  <2>2. /\ SubSeq(f, x + 1, y) \in Seq(Nat) /\ Len(SubSeq(f, x + 1, y)) = y - x
        /\ \A i \in 1 .. y - x : SubSeq(f, x + 1, y)[i] = f[x + i]
    BY ONLY <2>1, PartOf
  <2>3. d = SubSeq(f, x + 1, y)
    BY <1>1
  <2> QED  BY <2>1, <2>2, <2>3
<1>7. Writes(m, Len(write_view), Key)
  <2>1. x + z <= Len(write_view) /\ Len(d) <= z
    BY ONLY <1>3, <1>4, <1>5, <1>6
  <2> QED  BY <1>1, <1>2, <2>1 DEF Writes, Decrypts, Decompresses
<1>8. DOMAIN write_view = 1 .. n
  BY ONLY <1>3
<1>9. W = [i \in 1 .. n |-> IF i - x \in 1 .. z THEN d[i - x] ELSE write_view[i]]
  BY <1>2, <1>6, <1>8 DEF Written
<1>10. ASSUME NEW i \in 1 .. n
       PROVE  W[i] = IF i \in Region(c) THEN file_view[i] ELSE write_view[i]
  <2>1. i - x \in 1 .. z <=> i \in x + 1 .. x + z
    BY ONLY <1>3, <1>5
  <2>2. Region(c) = x + 1 .. x + z
    BY DEF Region
  <2>3. CASE i - x \in 1 .. z
    <3>1. x + (i - x) = i
      BY ONLY <1>3, <1>4
    <3>2. d[i - x] = file_view[i]
      BY ONLY <1>6, <2>3, <3>1
    <3> QED  BY ONLY <1>9, <2>1, <2>2, <2>3, <3>2
  <2>4. CASE ~(i - x \in 1 .. z)
    BY ONLY <1>9, <2>1, <2>2, <2>4
  <2> QED  BY <2>3, <2>4
<1>11. W \in Seq(Nat) /\ Len(W) = n
  <2>1. ASSUME NEW i \in 1 .. n PROVE W[i] \in Nat
    <3>1. file_view[i] \in Nat /\ write_view[i] \in Nat
      BY <1>3, ElementOfSeq
    <3> QED  BY <1>10, <3>1
  <2>2. W \in [1 .. n -> Nat]
    BY ONLY <1>9, <2>1
  <2>3. W \in Seq(Nat)
    BY <1>3, <2>2, SeqDef
  <2> QED  BY ONLY <1>3, <2>2, <2>3
<1>12. SubSeq(W, x + 1, x + z) = d
  <2> PICK g : g = SubSeq(W, x + 1, x + z)
    OBVIOUS
  <2> PICK y : y = x + z
    OBVIOUS
  <2>1. W \in Seq(Nat) /\ x \in 0 .. Len(W) /\ y \in x .. Len(W) /\ y - x = z
    BY <1>5, <1>11
  <2>2. /\ SubSeq(W, x + 1, y) \in Seq(Nat) /\ Len(SubSeq(W, x + 1, y)) = y - x
        /\ \A i \in 1 .. y - x : SubSeq(W, x + 1, y)[i] = W[x + i]
    BY ONLY <2>1, PartOf
  <2>3. g \in Seq(Nat) /\ Len(g) = z /\ \A i \in 1 .. z : g[i] = W[x + i]
    BY <2>1, <2>2
  <2>4. ASSUME NEW i \in 1 .. z PROVE g[i] = d[i]
    <3>1. x + i \in 1 .. n /\ (x + i) - x = i
      BY ONLY <1>3, <1>4, <1>5
    <3>2. W[x + i] = d[i]
      BY ONLY <1>9, <3>1
    <3> QED  BY <2>3, <3>2
  <2>5. g = d
    BY ONLY <1>6, <2>3, <2>4, SeqEqual
  <2> QED  BY <2>5
<1>13. Verifies(m, W)
  BY <1>1, <1>2, <1>12 DEF Verifies
<1> QED  BY <1>1, <1>3, <1>7, <1>10, <1>11, <1>13

\* What is counted is finite.
LEMMA Counts ==
    ASSUME FileInv
    PROVE  /\ IsFiniteSet(Chunks) /\ Cardinality(Chunks) = TotalChunks(Len(file_view))
           /\ IsFiniteSet(1 .. Len(file_view)) /\ Cardinality(1 .. Len(file_view)) = Len(file_view)
           /\ IsFiniteSet(Completed) /\ Cardinality(Completed) \in Nat
           /\ Cardinality(Completed) = Cardinality(Chunks) => Completed = Chunks
<1> PICK n, t : n = Len(file_view) /\ t = TotalChunks(Len(file_view))
  OBVIOUS
<1>1. n \in Nat /\ t \in Nat /\ Chunks = 0 .. t - 1
  BY ChunkBegins DEF FileInv
<1>2. IsFiniteSet(Chunks) /\ Cardinality(Chunks) = t
  <2> PICK u : u = t - 1
    OBVIOUS
  <2>1. 0 \in Int /\ u \in Int /\ (0 > u => t = 0) /\ u - 0 + 1 = t
    BY <1>1
  <2>2. IsFiniteSet(0 .. u) /\ Cardinality(0 .. u) = IF 0 > u THEN 0 ELSE u - 0 + 1
    BY <2>1, FS_Interval
  <2> QED  BY <1>1, <2>1, <2>2
<1>3. IsFiniteSet(1 .. n) /\ Cardinality(1 .. n) = n
  <2>1. 1 \in Int /\ n \in Int /\ (1 > n => n = 0) /\ n - 1 + 1 = n
    BY <1>1
  <2>2. IsFiniteSet(1 .. n) /\ Cardinality(1 .. n) = IF 1 > n THEN 0 ELSE n - 1 + 1
    BY ONLY <2>1, FS_Interval
  <2> QED  BY ONLY <2>1, <2>2
<1>4. Completed \in SUBSET Chunks
  BY DEF Completed
<1>5. IsFiniteSet(Completed) /\ (Cardinality(Chunks) = Cardinality(Completed) => Chunks = Completed)
  BY <1>2, <1>4, FS_Subset
<1>6. Cardinality(Completed) \in Nat
  BY <1>5, FS_CardinalityType
<1> QED  BY <1>2, <1>3, <1>5, <1>6

\* So are the bytes of some chunks; there are more of them in more chunks.
LEMMA ByteCounts ==
    ASSUME FileInv, NEW T \in SUBSET Chunks, NEW S \in SUBSET T
    PROVE  /\ IsFiniteSet(BytesIn(S)) /\ Cardinality(BytesIn(S)) \in Nat
           /\ IsFiniteSet(BytesIn(T)) /\ Cardinality(BytesIn(T)) \in Nat
           /\ Cardinality(BytesIn(S)) <= Cardinality(BytesIn(T))
<1>1. IsFiniteSet(1 .. Len(file_view))
  BY Counts
<1>2. BytesIn(T) \in SUBSET (1 .. Len(file_view)) /\ BytesIn(S) \in SUBSET BytesIn(T)
  BY DEF BytesIn
<1>3. IsFiniteSet(BytesIn(T))
  BY <1>1, <1>2, FS_Subset
<1>4. IsFiniteSet(BytesIn(S)) /\ Cardinality(BytesIn(S)) <= Cardinality(BytesIn(T))
  BY <1>2, <1>3, FS_Subset
<1>5. Cardinality(BytesIn(S)) \in Nat /\ Cardinality(BytesIn(T)) \in Nat
  BY <1>3, <1>4, FS_CardinalityType
<1> QED  BY <1>3, <1>4, <1>5

\* All of the file's are in all of the chunks.
LEMMA AllBytes ==
    ASSUME FileInv
    PROVE  BytesIn(Chunks) = 1 .. Len(file_view)
  BY RegionsCover DEF BytesIn

\* One more chunk adds its own bytes.
LEMMA BytesAdded ==
    ASSUME FileInv, NEW S \in SUBSET Chunks, NEW c \in Chunks, c \notin S
    PROVE  /\ Cardinality(BytesIn(S \cup {c})) = Cardinality(BytesIn(S)) + Size(c)
           /\ Cardinality(BytesIn(S)) \in Nat /\ Size(c) \in Nat
<1>1. /\ Region(c) \subseteq 1 .. Len(file_view)
      /\ IsFiniteSet(Region(c)) /\ Cardinality(Region(c)) = Size(c)
      /\ \A d \in Chunks : d # c => Region(c) \cap Region(d) = {}
  BY RegionFacts
<1>2. BytesIn(S \cup {c}) = BytesIn(S) \cup Region(c)
  BY <1>1 DEF BytesIn
<1>3. BytesIn(S) \cap Region(c) = {}
  BY <1>1 DEF BytesIn
<1>4. IsFiniteSet(BytesIn(S)) /\ Cardinality(BytesIn(S)) \in Nat
  BY ByteCounts
<1>5. Cardinality(BytesIn(S) \cup Region(c))
         = Cardinality(BytesIn(S)) + Cardinality(Region(c)) - Cardinality(BytesIn(S) \cap Region(c))
  BY <1>1, <1>4, FS_Union
<1>6. Cardinality(BytesIn(S) \cap Region(c)) = 0
  BY <1>3, FS_EmptySet
<1>7. Size(c) \in Nat
  BY SizeBounds, CodecAssumption
<1> PICK a, b : a = Cardinality(BytesIn(S)) /\ b = Size(c)
  OBVIOUS
<1>8. a \in Nat /\ b \in Nat /\ Cardinality(BytesIn(S \cup {c})) = a + b - 0
  BY <1>1, <1>2, <1>4, <1>5, <1>6, <1>7
<1>9. Cardinality(BytesIn(S \cup {c})) = a + b
  BY ONLY <1>8
<1> QED  BY <1>4, <1>7, <1>9

\* What processChunk does with a message that is to be processed.
LEMMA ProcessWrites ==
    ASSUME LinkInv, RecvInv, NEW c, ProcessChunk(c)
    PROVE  /\ c \in Chunks /\ c \notin Completed
           /\ toProcess' = toProcess \ {c}
           /\ write_view' \in Seq(Nat) /\ Len(write_view') = Len(write_view)
           /\ \A i \in 1 .. Len(write_view) :
                 write_view'[i] = IF i \in Region(c) THEN file_view[i] ELSE write_view[i]
           /\ completedChunks' = [completedChunks EXCEPT ![c] = TRUE]
           /\ chunks_recv_' = chunks_recv_ + 1
           /\ trans_complete_' => trans_complete_ \/ chunks_recv_' = Cardinality(Chunks)
           /\ UNCHANGED <<file_view, strategy, taskVars, linkVars, stream_buffer, handed>>
<1>1. c \in toProcess
  BY DEF ProcessChunk
<1> PICK m, W : m = frame[c] /\ W = Written(frame[c], write_view)
  OBVIOUS
<1>2. c \in Chunks /\ m \in Messages(c)
  BY <1>1, ToProcessKnown
<1>3. FileInv
  BY DEF LinkInv
<1>4. /\ Writes(m, Len(write_view), Key) /\ Verifies(m, W)
      /\ m.chunk_id = c
      /\ W \in Seq(Nat) /\ Len(W) = Len(write_view)
      /\ \A i \in 1 .. Len(write_view) :
            W[i] = IF i \in Region(c) THEN file_view[i] ELSE write_view[i]
  BY <1>2, <1>3, ProcessGoesThrough
<1>5. /\ toProcess' = toProcess \ {c}
      /\ write_view' = IF Writes(m, Len(write_view), Key) THEN W ELSE write_view
      /\ completedChunks' = [completedChunks EXCEPT ![m.chunk_id] =
            completedChunks[m.chunk_id] \/ (Writes(m, Len(write_view), Key) /\ Verifies(m, W))]
      /\ chunks_recv_' = chunks_recv_
            + (IF Writes(m, Len(write_view), Key) /\ Verifies(m, W) THEN 1 ELSE 0)
      /\ trans_complete_' =
            (\/ trans_complete_
             \/ Writes(m, Len(write_view), Key) /\ Verifies(m, W)
                  /\ chunks_recv_' = Cardinality(Chunks))
      /\ UNCHANGED <<file_view, strategy, taskVars, linkVars, stream_buffer, handed>>
  BY DEF ProcessChunk
<1>6. write_view' = W
  BY ONLY <1>4, <1>5
<1>7. completedChunks' = [completedChunks EXCEPT ![c] = TRUE]
  <2>1. (completedChunks[c] \/ (Writes(m, Len(write_view), Key) /\ Verifies(m, W))) = TRUE
    BY <1>4
  <2> QED  BY <1>4, <1>5, <2>1
<1>8. chunks_recv_' = chunks_recv_ + 1
  BY ONLY <1>4, <1>5
<1>9. trans_complete_' => trans_complete_ \/ chunks_recv_' = Cardinality(Chunks)
  BY ONLY <1>5
<1>10. c \notin Completed
  BY <1>1 DEF RecvInv, Completed
<1> QED  BY <1>2, <1>4, <1>5, <1>6, <1>7, <1>8, <1>9, <1>10

\* The streams do not notice.
LEMMA ProcessStep ==
    ASSUME LinkInv, RecvInv, NEW c, ProcessChunk(c)
    PROVE  LinkInv'
<1>1. /\ write_view' \in Seq(Nat) /\ Len(write_view') = Len(write_view)
      /\ file_view' = file_view /\ strategy' = strategy
      /\ task' = task /\ sent' = sent /\ frame' = frame
      /\ kcpMutex' = kcpMutex /\ snd_queue' = snd_queue /\ segments' = segments
      /\ pushed' = pushed /\ stream_buffer' = stream_buffer /\ handed' = handed
  BY ProcessWrites DEF taskVars, linkVars
<1>2. FileInv'
  BY <1>1 DEF LinkInv, FileInv
<1>3. Chunks' = Chunks /\ \A d : Messages(d)' = Messages(d)
  BY <1>1 DEF Chunks, Messages, Size
<1>4. ASSUME NEW d \in Chunks PROVE TaskOK(d)'
  <2>1. TaskOK(d)
    BY DEF LinkInv, TaskInv
  <2>2. Frame(d)' = Frame(d)
    BY <1>1, FrameSame
  <2> QED  BY <1>1, <1>3, <2>1, <2>2 DEF TaskOK, StreamOf
<1>5. TaskInv'
  BY <1>1, <1>3, <1>4 DEF LinkInv, TaskInv
<1>6. LinkTypes'
  BY <1>1, <1>3 DEF LinkInv, LinkTypes
<1>7. ASSUME NEW st \in Streams PROVE StreamInv(st)'
  BY <1>1, StreamSame
<1> QED  BY <1>2, <1>5, <1>6, <1>7 DEF LinkInv

\* And one more chunk is completed, copied and counted.
LEMMA ProcessRecv ==
    ASSUME LinkInv, RecvInv, NEW c, ProcessChunk(c)
    PROVE  RecvInv'
<1>1. /\ c \in Chunks /\ c \notin Completed
      /\ toProcess' = toProcess \ {c}
      /\ \A i \in 1 .. Len(write_view) :
            write_view'[i] = IF i \in Region(c) THEN file_view[i] ELSE write_view[i]
      /\ completedChunks' = [completedChunks EXCEPT ![c] = TRUE]
      /\ chunks_recv_' = chunks_recv_ + 1
      /\ trans_complete_' => trans_complete_ \/ chunks_recv_' = Cardinality(Chunks)
      /\ file_view' = file_view /\ pushed' = pushed /\ handed' = handed
  BY ProcessWrites DEF linkVars
<1>2. FileInv /\ Len(write_view) = Len(file_view)
  BY DEF LinkInv, FileInv
<1>3. /\ completedChunks \in [Chunks -> BOOLEAN] /\ toProcess \subseteq Chunks
      /\ \A d \in toProcess : ~completedChunks[d]
      /\ \A d \in toProcess : HandedUp(d)
      /\ \A d \in Completed : HandedUp(d)
      /\ \A d \in Completed : \A i \in Region(d) : write_view[i] = file_view[i]
      /\ chunks_recv_ = Cardinality(Completed)
      /\ trans_complete_ => Completed = Chunks
  BY DEF RecvInv
<1>4. Chunks' = Chunks /\ Cardinality(Chunks)' = Cardinality(Chunks)
  BY <1>1 DEF Chunks
<1>5. \A d : Region(d)' = Region(d) /\ HandedUp(d)' = HandedUp(d)
  BY <1>1 DEF Region, Size, HandedUp, StreamOf
<1>6. /\ completedChunks' \in [Chunks -> BOOLEAN] /\ completedChunks'[c] = TRUE
      /\ \A d \in Chunks : d # c => completedChunks'[d] = completedChunks[d]
  BY <1>1, <1>3
<1>7. Completed' = Completed \cup {c}
  BY <1>1, <1>4, <1>6 DEF Completed
<1>8. HandedUp(c)
  BY <1>3 DEF ProcessChunk
<1>9. ASSUME NEW d \in Completed', NEW i \in Region(d)' PROVE write_view'[i] = file_view'[i]
  <2>1. d \in Chunks /\ i \in Region(d)
    BY <1>1, <1>5, <1>7 DEF Completed
  <2>2. i \in 1 .. Len(write_view)
    BY <1>2, <2>1, RegionFacts
  <2>3. d = c \/ write_view[i] = file_view[i]
    BY <1>3, <1>7, <2>1
  <2> QED  BY <1>1, <2>1, <2>2, <2>3
<1>10. chunks_recv_' = Cardinality(Completed')
  <2>1. IsFiniteSet(Completed)
    BY <1>2, Counts
  <2>2. Cardinality(Completed \cup {c}) = Cardinality(Completed) + 1
    BY <1>1, <2>1, FS_AddElement
  <2> QED  BY <1>1, <1>3, <1>7, <2>2
<1>11. trans_complete_' => Completed' = Chunks'
  <2>1. ASSUME trans_complete_ PROVE FALSE
    BY <1>1, <1>3, <2>1
  <2>2. ASSUME chunks_recv_' = Cardinality(Chunks) PROVE Completed' = Chunks'
    <3>1. Completed' \in SUBSET Chunks /\ IsFiniteSet(Chunks)
      BY <1>1, <1>2, <1>7, Counts DEF Completed
    <3>2. Cardinality(Chunks) = Cardinality(Completed')
      BY <1>10, <2>2
    <3>3. Chunks = Completed'
      BY <3>1, <3>2, FS_Subset
    <3> QED  BY <1>4, <3>3
  <2> QED  BY <1>1, <2>1, <2>2
<1>12. /\ toProcess' \subseteq Chunks /\ \A d \in toProcess' : ~completedChunks'[d] /\ HandedUp(d)'
  BY <1>1, <1>3, <1>5, <1>6
<1>13. \A d \in Completed' : HandedUp(d)'
  BY <1>3, <1>5, <1>7, <1>8
<1> QED  BY <1>4, <1>6, <1>9, <1>10, <1>11, <1>12, <1>13 DEF RecvInv

\* A step that hands nothing up and processes nothing.
LEMMA RecvKept ==
    ASSUME RecvInv, UNCHANGED <<file_view, toProcess, fileVars>>, handed' = handed,
           \A st \in Streams : \A i \in 1 .. Len(handed[st]) : pushed'[st][i] = pushed[st][i],
           FileInv
    PROVE  RecvInv'
<1>1. /\ file_view' = file_view /\ toProcess' = toProcess /\ write_view' = write_view
      /\ completedChunks' = completedChunks
      /\ chunks_recv_' = chunks_recv_ /\ trans_complete_' = trans_complete_
  BY DEF fileVars
<1>2. Chunks' = Chunks /\ \A d : Region(d)' = Region(d)
  BY <1>1 DEF Chunks, Region, Size
<1>3. Completed' = Completed
  BY <1>1, <1>2 DEF Completed
<1>4. ASSUME NEW d \in Chunks, HandedUp(d) PROVE HandedUp(d)'
  <2> PICK st : st = StreamOf(d)
    OBVIOUS
  <2>1. st \in Streams /\ StreamOf(d)' = st
    BY StreamOfChunk DEF StreamOf
  <2>2. PICK i \in 1 .. Len(handed[st]) : pushed[st][i] = d
    BY <1>4 DEF HandedUp
  <2>3. i \in 1 .. Len(handed'[st]) /\ pushed'[st][i] = d
    BY <2>1, <2>2
  <2> QED  BY <2>1, <2>3 DEF HandedUp
<1>5. Completed \subseteq Chunks /\ toProcess \subseteq Chunks
  BY DEF Completed, RecvInv
<1> QED  BY <1>1, <1>2, <1>3, <1>4, <1>5 DEF RecvInv

\* The sender and the io threads leave the receiver's file alone.
LEMMA OthersRecv ==
    ASSUME LinkInv, RecvInv,
           \/ \E c \in Chunks : Task(c)
           \/ \E st \in Streams : IoFlush(st) \/ ReadSegment(st)
    PROVE  RecvInv'
<1>1. UNCHANGED <<file_view, toProcess, fileVars>> /\ handed' = handed
  BY DEF Task, Encode, Lock, SendPiece, Unlock, CountSent, AddBytes, IoFlush, ReadSegment
<1>2. ASSUME NEW s \in Streams, NEW i \in 1 .. Len(handed[s]) PROVE pushed'[s][i] = pushed[s][i]
  <2>1. CASE \E c \in Chunks : Lock(c)
    <3>1. PICK c \in Chunks : Lock(c)
      BY <2>1
    <3> PICK st, q : st = StreamOf(c) /\ q = pushed[st]
      OBVIOUS
    <3>2. pushed' = [pushed EXCEPT ![st] = Append(q, c)]
      BY <3>1 DEF Lock
    <3>3. pushed \in [Streams -> Seq(Chunks)]
      BY DEF LinkInv, LinkTypes
    <3>4. CASE s # st
      BY <3>2, <3>3, <3>4
    <3>5. CASE s = st
      <4>1. q \in Seq(Chunks) /\ pushed'[s] = Append(q, c)
        BY <3>2, <3>3, <3>5
      <4>2. i \in 1 .. Len(q)
        <5> PICK a, b : a = Len(pushed[s]) /\ b = Len(handed[s])
          OBVIOUS
        <5>1. a \in Nat /\ b \in Nat /\ a - b \in Nat
          BY AheadFacts
        <5>2. i \in 1 .. a
          BY <5>1
        <5> QED  BY <3>5, <5>2
      <4>3. Append(q, c)[i] = q[i]
        BY ONLY <4>1, <4>2, c \in Chunks, AppendProperties
      <4> QED  BY <3>5, <4>1, <4>3
    <3> QED  BY <3>4, <3>5
  <2>2. CASE ~\E c \in Chunks : Lock(c)
    BY <2>2 DEF Task, Encode, SendPiece, Unlock, CountSent, AddBytes, IoFlush, ReadSegment, linkVars
  <2> QED  BY <2>1, <2>2
<1>3. FileInv
  BY DEF LinkInv
<1> QED  BY <1>1, <1>2, <1>3, RecvKept

\* The bytes of a message tell whose it is.
LEMMA BodyTells ==
    ASSUME FileInv, NEW c \in Chunks, NEW d \in Chunks,
           frame[c] \in Messages(c), frame[d] \in Messages(d), Body(c) = Body(d)
    PROVE  c = d
<1>1. BodySize(c) \in Nat \ {0} /\ BodySize(d) \in Nat \ {0}
  BY Known
<1>2. 1 \in 1 .. BodySize(c) /\ 1 \in 1 .. BodySize(d)
  BY <1>1
<1>3. Body(c)[1] = <<c, 1, 1>> /\ Body(d)[1] = <<d, 1, 1>>
  BY <1>2 DEF Body
<1>4. <<c, 1, 1>> = <<d, 1, 1>>
  BY <1>3
<1> QED  BY ONLY <1>4

\* A message that is handed up is new, and gets one task.
LEMMA HandUpRecv ==
    ASSUME LinkInv, RecvInv, NEW st \in Streams, HandUp(st)
    PROVE  RecvInv'
<1> PICK h, data, c : /\ h = Len(handed[st]) /\ c = pushed[st][h + 1]
                      /\ data = SubSeq(stream_buffer[st], 5, 4 + frameLength(stream_buffer[st]))
  OBVIOUS
<1>1. /\ HoldsFrame(stream_buffer[st])
      /\ handed' = [handed EXCEPT ![st] = Append(handed[st], data)]
      /\ toProcess' = toProcess \cup {d \in Encoded : data = Body(d)}
      /\ file_view' = file_view /\ pushed' = pushed /\ write_view' = write_view
      /\ completedChunks' = completedChunks
      /\ chunks_recv_' = chunks_recv_ /\ trans_complete_' = trans_complete_
  BY DEF HandUp, linkVars, fileVars
<1>2. h + 1 \in 1 .. Len(pushed[st]) /\ data = Body(c)
  BY <1>1, HandUpFacts
<1>3. /\ c \in Chunks /\ StreamOf(c) = st /\ frame[c] \in Messages(c) /\ data \in Seq(Byte)
      /\ task[c] \in {"sending", "flush", "pushed", "counted", "done"}
  BY <1>2, PushedKnown
<1>4. FileInv /\ h \in Nat
  BY AheadFacts DEF LinkInv
<1>5. {d \in Encoded : data = Body(d)} = {c}
  <2>1. c \in Encoded
    BY <1>3 DEF Encoded
  <2>2. ASSUME NEW d \in Encoded, data = Body(d) PROVE d = c
    <3>1. d \in Chunks /\ frame[d] \in Messages(d)
      BY DEF Encoded, LinkInv, TaskInv, TaskOK
    <3>2. Body(c) = Body(d)
      BY <1>2, <2>2
    <3> QED  BY <1>3, <1>4, <3>1, <3>2, BodyTells
  <2> QED  BY <1>2, <2>1, <2>2
<1>6. ~HandedUp(c)
  <2> SUFFICES ASSUME HandedUp(c) PROVE FALSE
    OBVIOUS
  <2>1. PICK i \in 1 .. h : pushed[st][i] = c
    BY <1>3 DEF HandedUp
  <2>2. \A k, j \in 1 .. Len(pushed[st]) : pushed[st][k] = pushed[st][j] => k = j
    BY DEF LinkInv, StreamInv, PushedOnce
  <2>3. i \in 1 .. Len(pushed[st])
    <3> PICK a : a = Len(pushed[st])
      OBVIOUS
    <3>1. a \in Nat /\ h + 1 \in 1 .. a /\ h \in Nat
      BY <1>2, <1>4, AheadFacts
    <3> QED  BY <3>1
  <2>4. i = h + 1
    BY <1>2, <2>1, <2>2, <2>3
  <2> QED  BY <1>4, <2>4
<1>7. /\ handed \in [Streams -> Seq(Seq(Byte))] /\ handed[st] \in Seq(Seq(Byte))
  BY DEF LinkInv, LinkTypes
<1>8. Len(Append(handed[st], data)) = h + 1
  <2> PICK e \in Seq(Byte) : e = data
    BY <1>3
  <2>1. Len(Append(handed[st], e)) = Len(handed[st]) + 1
    BY <1>7, AppendProperties
  <2> QED  BY <2>1
<1>9. Len(handed'[st]) = h + 1 /\ \A s \in Streams : s # st => handed'[s] = handed[s]
  BY <1>1, <1>7, <1>8
<1>10. HandedUp(c)'
  <2>1. h + 1 \in 1 .. h + 1 /\ pushed'[st][h + 1] = c /\ StreamOf(c)' = st
    BY <1>1, <1>3, <1>4 DEF StreamOf
  <2> QED  BY <1>9, <2>1 DEF HandedUp
<1>11. ASSUME NEW d \in Chunks, HandedUp(d) PROVE HandedUp(d)'
  <2> PICK s : s = StreamOf(d)
    OBVIOUS
  <2>1. s \in Streams /\ StreamOf(d)' = s
    BY <1>4, StreamOfChunk DEF StreamOf
  <2>2. PICK i \in 1 .. Len(handed[s]) : pushed[s][i] = d
    BY <1>11 DEF HandedUp
  <2>3. i \in 1 .. Len(handed'[s])
    <3>1. CASE s # st
      BY <1>9, <2>1, <2>2, <3>1
    <3>2. CASE s = st
      <4>1. i \in 1 .. h /\ Len(handed'[s]) = h + 1
        BY <1>9, <2>2, <3>2
      <4>2. i \in 1 .. h + 1
        BY ONLY <1>4, <4>1
      <4> QED  BY <4>1, <4>2
    <3> QED  BY <3>1, <3>2
  <2> QED  BY <1>1, <2>1, <2>2, <2>3 DEF HandedUp
<1>12. Chunks' = Chunks /\ \A d : Region(d)' = Region(d)
  BY <1>1 DEF Chunks, Region, Size
<1>13. Completed' = Completed /\ Completed \subseteq Chunks
  BY <1>1, <1>12 DEF Completed
<1>14. toProcess' = toProcess \cup {c}
  BY <1>1, <1>5
<1>15. completedChunks \in [Chunks -> BOOLEAN] /\ ~completedChunks[c]
  BY <1>3, <1>6 DEF RecvInv, Completed
<1>16. /\ toProcess' \subseteq Chunks
       /\ \A d \in toProcess' : ~completedChunks'[d] /\ HandedUp(d)'
  BY <1>1, <1>3, <1>10, <1>11, <1>14, <1>15 DEF RecvInv
<1>17. \A d \in Completed' : HandedUp(d)'
  BY <1>11, <1>13 DEF RecvInv
<1> QED  BY <1>1, <1>12, <1>13, <1>16, <1>17 DEF RecvInv

------------------------------------------------------------------------------
(* The sender's progress *)

\* A frame that is counted is a frame that KCP has taken.
LEMMA GivenKnown ==
    ASSUME LinkInv
    PROVE  Given \subseteq Chunks /\ Counted \subseteq Given /\ Reported \subseteq Counted
<1>1. \A c \in Counted : sent[c] = Len(Frame(c)) /\ task[c] # "queued"
  BY DEF Counted, LinkInv, TaskInv, TaskOK
<1> QED  BY <1>1 DEF Given, Encoded, Counted, Reported

\* What KCP has taken stays taken.
LEMMA GivenSame ==
    ASSUME file_view' = file_view, frame' = frame, sent' = sent,
           \A c \in Chunks : task[c] # "queued" => task'[c] # "queued"
    PROVE  Given \subseteq Given'
<1>1. Chunks' = Chunks
  BY DEF Chunks
<1>2. ASSUME NEW c \in Given PROVE c \in Given'
  <2>1. c \in Chunks /\ task[c] # "queued" /\ sent[c] = Len(Frame(c))
    BY DEF Given, Encoded
  <2>2. Frame(c)' = Frame(c)
    BY FrameSame
  <2>3. sent'[c] = Len(Frame(c)')
    BY <2>1, <2>2
  <2> QED  BY <1>1, <2>1, <2>3 DEF Given, Encoded
<1> QED  BY <1>2

\* Also while frames are made and sent.
LEMMA GivenGrows ==
    ASSUME LinkInv, NEW c \in Chunks, Encode(c) \/ SendPiece(c)
    PROVE  Given \subseteq Given'
<1>1. task \in [Chunks -> Tasks] /\ sent \in [Chunks -> Nat] /\ DOMAIN frame = Chunks
  BY DEF LinkInv, TaskInv
<1>2. Chunks' = Chunks
  BY DEF Encode, SendPiece, Chunks
<1>3. ASSUME NEW d \in Given, frame'[d] = frame[d], sent'[d] = sent[d], task'[d] # "queued"
      PROVE  d \in Given'
  <2>1. d \in Chunks /\ sent[d] = Len(Frame(d))
    BY DEF Given, Encoded
  <2>2. Frame(d)' = Frame(d)
    BY <1>3, FrameSame
  <2>3. sent'[d] = Len(Frame(d)')
    BY <1>3, <2>1, <2>2
  <2> QED  BY <1>2, <1>3, <2>1, <2>3 DEF Given, Encoded
<1>4. ASSUME NEW d \in Given, Encode(c) PROVE d \in Given'
  <2>1. d \in Chunks /\ task[d] # "queued"
    BY DEF Given, Encoded
  <2>2. /\ d # c /\ sent' = sent /\ task' = [task EXCEPT ![c] = "encoded"]
        /\ \E m : frame' = [frame EXCEPT ![c] = m]
    BY <1>4, <2>1 DEF Encode
  <2>3. frame'[d] = frame[d] /\ sent'[d] = sent[d] /\ task'[d] # "queued"
    BY <1>1, <2>1, <2>2
  <2> QED  BY <1>3, <2>3
<1>5. ASSUME NEW d \in Given, SendPiece(c) PROVE d \in Given'
  <2>1. d \in Chunks /\ task[d] # "queued" /\ sent[d] = Len(Frame(d))
    BY DEF Given, Encoded
  <2> PICK k : k = Len(Piece(c))
    OBVIOUS
  <2>2. /\ task[c] = "sending" /\ frame' = frame
        /\ \E e : sent' = [sent EXCEPT ![c] = IF e THEN sent[c] ELSE sent[c] + k]
        /\ \E w \in {"flush", "sending"} : task' = [task EXCEPT ![c] = w]
    BY <1>5 DEF SendPiece
  <2>3. task'[d] # "queued"
    BY <1>1, <2>1, <2>2
  <2>4. sent'[d] = sent[d]
    <3>1. CASE d # c
      BY <1>1, <2>1, <2>2, <3>1
    <3>2. CASE d = c
      <4>1. k \in Nat /\ sent[c] + k \in 0 .. Len(Frame(c)) /\ sent[c] \in Nat
        BY <1>1, <2>2, PieceFacts
      <4>2. sent[c] + k = sent[c]
        BY <2>1, <3>2, <4>1
      <4> QED  BY <1>1, <2>1, <2>2, <3>2, <4>2
    <3> QED  BY <3>1, <3>2
  <2> QED  BY <1>3, <2>2, <2>3, <2>4
<1> QED  BY <1>4, <1>5

\* What was shown stays true.
LEMMA ShownKept ==
    ASSUME LinkInv, ShownOK, file_view' = file_view, shown' = shown, Given \subseteq Given'
    PROVE  ShownOK'
<1> PICK G, S, n : G = Given' /\ S = Given /\ n = Len(file_view)
  OBVIOUS
<1>1. FileInv /\ n \in Nat
  BY DEF LinkInv, FileInv
<1>2. Chunks' = Chunks /\ \A d : Region(d)' = Region(d)
  BY DEF Chunks, Region, Size
<1>3. G \in SUBSET Chunks /\ S \in SUBSET G
  BY <1>2 DEF Given, Encoded
<1>4. BytesIn(Given)' = BytesIn(G)
  BY <1>2 DEF BytesIn
<1> PICK a, b : a = Cardinality(BytesIn(S)) /\ b = Cardinality(BytesIn(G))
  OBVIOUS
<1>5. a \in Nat /\ b \in Nat /\ a <= b
  BY <1>1, <1>3, ByteCounts
<1>6. shown \in Nat /\ shown * n <= 100 * a
  BY DEF ShownOK
<1>7. shown * n <= 100 * b
  <2> PICK z : z = shown * n
    OBVIOUS
  <2>1. z \in Nat /\ z <= 100 * a
    BY <1>1, <1>6
  <2> QED  BY ONLY <1>5, <2>1, z = shown * n
<1> QED  BY <1>4, <1>6, <1>7 DEF ShownOK

\* A step that counts and shows nothing.
LEMMA ShowKept ==
    ASSUME LinkInv, ShowInv, file_view' = file_view, UNCHANGED showVars,
           Given \subseteq Given', Counted' = Counted, Reported' = Reported
    PROVE  ShowInv'
<1>1. chunks_sent_' = chunks_sent_ /\ bytes_transferred_' = bytes_transferred_ /\ shown' = shown
  BY DEF showVars
<1>2. \A d : Region(d)' = Region(d)
  BY DEF Region, Size
<1>3. BytesIn(Reported)' = BytesIn(Reported)
  BY <1>2 DEF BytesIn
<1>4. ShownOK'
  BY <1>1, ShownKept DEF ShowInv
<1> QED  BY <1>1, <1>3, <1>4 DEF ShowInv

\* The steps before a task counts, and those of the io threads and the receiver.
LEMMA OthersShow ==
    ASSUME LinkInv, ShowInv,
           \/ \E c \in Chunks : \/ Encode(c) \/ Lock(c) \/ SendPiece(c) \/ Unlock(c)
                              \/ ProcessChunk(c)
           \/ \E st \in Streams : IoFlush(st) \/ ReadSegment(st) \/ HandUp(st)
    PROVE  ShowInv'
<1>1. file_view' = file_view /\ UNCHANGED showVars
  BY DEF Encode, Lock, SendPiece, Unlock, ProcessChunk, IoFlush, ReadSegment, HandUp
<1>2. task \in [Chunks -> Tasks]
  BY DEF LinkInv, TaskInv
<1>3. \/ task' = task
      \/ \E c \in Chunks : /\ task[c] \in {"queued", "encoded", "sending", "flush"}
                           /\ \E w \in {"encoded", "sending", "flush", "pushed"} :
                                 task' = [task EXCEPT ![c] = w]
  BY DEF Encode, Lock, SendPiece, Unlock, ProcessChunk, IoFlush, ReadSegment, HandUp, taskVars
<1>4. Chunks' = Chunks
  BY <1>1 DEF Chunks
<1>5. /\ \A d \in Chunks : task[d] # "queued" => task'[d] # "queued"
      /\ \A d \in Chunks : task'[d] \in {"counted", "done"} <=> task[d] \in {"counted", "done"}
      /\ \A d \in Chunks : task'[d] = "done" <=> task[d] = "done"
  BY <1>2, <1>3
<1>6. Counted' = Counted /\ Reported' = Reported
  BY <1>4, <1>5 DEF Counted, Reported
<1>7. Given \subseteq Given'
  <2>1. CASE \E c \in Chunks : Encode(c) \/ SendPiece(c)
    BY <2>1, GivenGrows
  <2>2. CASE ~\E c \in Chunks : Encode(c) \/ SendPiece(c)
    <3>1. frame' = frame /\ sent' = sent
      BY <2>2 DEF Lock, Unlock, ProcessChunk, IoFlush, ReadSegment, HandUp, taskVars
    <3> QED  BY <1>1, <1>5, <3>1, GivenSame
  <2> QED  BY <2>1, <2>2
<1> QED  BY <1>1, <1>6, <1>7, ShowKept

\* A task counts its chunk, and later its bytes.
LEMMA CountShow ==
    ASSUME LinkInv, ShowInv, NEW c \in Chunks, CountSent(c) \/ AddBytes(c)
    PROVE  ShowInv'
<1>1. /\ file_view' = file_view /\ shown' = shown /\ frame' = frame /\ sent' = sent
      /\ \/ /\ task[c] = "pushed" /\ task' = [task EXCEPT ![c] = "counted"]
            /\ chunks_sent_' = chunks_sent_ + 1 /\ bytes_transferred_' = bytes_transferred_
         \/ /\ task[c] = "counted" /\ task' = [task EXCEPT ![c] = "done"]
            /\ chunks_sent_' = chunks_sent_
            /\ bytes_transferred_' = bytes_transferred_ + Added(c)
  BY DEF CountSent, AddBytes
<1>2. task \in [Chunks -> Tasks] /\ FileInv
  BY DEF LinkInv, TaskInv
<1>3. Chunks' = Chunks /\ \A d : Region(d)' = Region(d)
  BY <1>1 DEF Chunks, Region, Size
<1>4. \A d \in Chunks : task[d] # "queued" => task'[d] # "queued"
  BY <1>1, <1>2
<1>5. ShownOK'
  BY <1>1, <1>4, GivenSame, ShownKept DEF ShowInv
<1>6. Reported \in SUBSET Chunks /\ Counted \in SUBSET Chunks /\ IsFiniteSet(Counted)
  <2>1. Reported \in SUBSET Chunks /\ Counted \in SUBSET Chunks
    BY DEF Reported, Counted
  <2> QED  BY <1>2, <2>1, Counts, FS_Subset
<1>7. ASSUME NEW S, S = Reported' PROVE BytesIn(Reported)' = BytesIn(S)
  BY <1>1, <1>3, <1>7 DEF BytesIn
<1>8. CASE task[c] = "pushed"
  <2>1. /\ task' = [task EXCEPT ![c] = "counted"] /\ chunks_sent_' = chunks_sent_ + 1
        /\ bytes_transferred_' = bytes_transferred_
    BY <1>1, <1>8
  <2>2. Counted' = Counted \cup {c} /\ c \notin Counted /\ Reported' = Reported
    BY <1>2, <1>3, <1>8, <2>1 DEF Counted, Reported
  <2>3. Cardinality(Counted \cup {c}) = Cardinality(Counted) + 1
    BY <1>6, <2>2, FS_AddElement
  <2>4. BytesIn(Reported)' = BytesIn(Reported)
    BY <1>7, <2>2
  <2> QED  BY <1>5, <2>1, <2>2, <2>3, <2>4 DEF ShowInv
<1>9. CASE task[c] = "counted"
  <2>1. /\ task' = [task EXCEPT ![c] = "done"] /\ chunks_sent_' = chunks_sent_
        /\ bytes_transferred_' = bytes_transferred_ + Added(c)
    BY <1>1, <1>9
  <2>2. Counted' = Counted /\ c \notin Reported /\ Reported' = Reported \cup {c}
    BY <1>2, <1>3, <1>9, <2>1 DEF Counted, Reported
  <2>3. Cardinality(BytesIn(Reported \cup {c})) = Cardinality(BytesIn(Reported)) + Size(c)
    BY <1>2, <1>6, <2>2, BytesAdded
  <2>4. Added(c) = Size(c)
    BY DEF Added, Slice, Size
  <2>5. BytesIn(Reported)' = BytesIn(Reported \cup {c})
    BY <1>7, <2>2
  <2> QED  BY <1>5, <2>1, <2>2, <2>3, <2>4, <2>5 DEF ShowInv
<1> QED  BY <1>1, <1>8, <1>9

\* The thread in sendFile shows the bytes that are counted, and 100 when all
\* chunks are.
LEMMA SendFileShow ==
    ASSUME LinkInv, ShowInv, SendFile
    PROVE  ShowInv'
<1>1. /\ file_view' = file_view /\ task' = task /\ frame' = frame /\ sent' = sent
      /\ chunks_sent_' = chunks_sent_ /\ bytes_transferred_' = bytes_transferred_
  BY DEF SendFile, Show, ShowDone, SendFileReturns, taskVars
<1>2. FileInv
  BY DEF LinkInv
<1>3. Chunks' = Chunks /\ \A d : Region(d)' = Region(d) /\ Frame(d)' = Frame(d)
  BY <1>1, FrameSame DEF Chunks, Region, Size
<1>4. Counted' = Counted /\ Reported' = Reported /\ Given' = Given
  BY <1>1, <1>3 DEF Counted, Reported, Given, Encoded
<1>5. BytesIn(Reported)' = BytesIn(Reported) /\ BytesIn(Given)' = BytesIn(Given)
  BY <1>1, <1>3, <1>4 DEF BytesIn
<1>6. Given \in SUBSET Chunks /\ Counted \in SUBSET Given /\ Reported \in SUBSET Given
  BY GivenKnown
<1> PICK n, a, b : /\ n = Len(file_view) /\ a = Cardinality(BytesIn(Reported))
                   /\ b = Cardinality(BytesIn(Given))
  OBVIOUS
<1>7. n \in Nat \ {0} /\ a \in Nat /\ b \in Nat /\ a <= b
  BY <1>2, <1>6, ByteCounts DEF FileInv
<1>8. shown' \in Nat /\ shown' * n <= 100 * b
  <2>1. CASE Show
    <3> PICK x, q : x = a * 100 /\ q = x \div n
      OBVIOUS
    <3>1. shown' = q
      BY <1>7, <2>1 DEF Show, ShowInv, get_progress_per
    <3>2. x \in Nat /\ x <= 100 * b
      BY ONLY <1>7, x = a * 100
    <3>3. q \in Nat /\ q * n <= x
      BY <1>7, <3>2, DivMod
    <3> PICK y : y = q * n
      OBVIOUS
    <3>4. y \in Nat /\ y <= x
      <4>1. q \in Nat /\ n \in Nat /\ y = q * n
        BY <1>7, <3>3
      <4>2. y \in Nat
        BY ONLY <4>1
      <4> QED  BY <3>3, <4>2
    <3>5. y <= 100 * b
      BY ONLY <1>7, <3>2, <3>4
    <3> QED  BY <3>1, <3>3, <3>5
  <2>2. CASE ShowDone
    <3>1. shown' = 100 /\ ~(chunks_sent_ < Cardinality(Chunks))
      BY <2>2 DEF ShowDone
    <3>2. /\ IsFiniteSet(Chunks) /\ Cardinality(Chunks) \in Nat
          /\ Cardinality(1 .. n) = n
      BY <1>2, Counts, FS_CardinalityType
    <3>3. Counted \in SUBSET Chunks
      BY <1>6
    <3>4. /\ IsFiniteSet(Counted) /\ Cardinality(Counted) <= Cardinality(Chunks)
          /\ (Cardinality(Chunks) = Cardinality(Counted) => Chunks = Counted)
      BY <3>2, <3>3, FS_Subset
    <3>5. Cardinality(Counted) \in Nat /\ chunks_sent_ = Cardinality(Counted)
      BY <3>4, FS_CardinalityType DEF ShowInv
    <3>6. Chunks = Counted
      BY <3>1, <3>2, <3>4, <3>5
    <3>7. Given = Chunks
      BY <1>6, <3>6
    <3>8. b = n
      BY <1>2, <3>2, <3>7, AllBytes
    <3> QED  BY <1>7, <3>1, <3>8
  <2>3. CASE SendFileReturns
    BY <2>3 DEF SendFileReturns, ShowInv, ShownOK
  <2> QED  BY <2>1, <2>2, <2>3 DEF SendFile
<1>9. ShownOK'
  BY <1>1, <1>5, <1>8 DEF ShownOK
<1> QED  BY <1>1, <1>4, <1>5, <1>9 DEF ShowInv

\* A step that does nothing to the files and the streams.
LEMMA NothingMoves ==
    ASSUME LinkInv, RecvInv,
           UNCHANGED <<file_view, strategy, taskVars, linkVars, stream_buffer, handed,
                       toProcess, fileVars>>
    PROVE  LinkInv' /\ RecvInv'
<1>1. /\ UNCHANGED <<file_view, strategy, taskVars, kcpMutex, pushed, fileVars>>
      /\ kcpMutex' = kcpMutex /\ snd_queue' = snd_queue /\ segments' = segments
      /\ pushed' = pushed /\ stream_buffer' = stream_buffer /\ handed' = handed
      /\ toProcess' = toProcess
  BY DEF linkVars
<1>2. /\ FileInv' /\ TaskInv' /\ Chunks' = Chunks
      /\ task' = task /\ sent' = sent /\ frame' = frame
  BY <1>1, IoKeeps
<1>3. LinkTypes'
  BY <1>1, <1>2 DEF LinkInv, LinkTypes
<1>4. ASSUME NEW st \in Streams PROVE StreamInv(st)'
  BY <1>1, <1>2, StreamSame
<1>5. LinkInv'
  BY <1>2, <1>3, <1>4 DEF LinkInv
<1>6. RecvInv'
  BY <1>1, RecvKept DEF LinkInv
<1> QED  BY <1>5, <1>6

------------------------------------------------------------------------------
(* The invariant *)

\* Nothing has been sent yet.
LEMMA InitLink ==
    ASSUME Init
    PROVE  LinkInv
<1>1. PICK size \in FileSizes : file_view = [i \in 1 .. size |-> i]
  BY DEF Init
<1>2. size \in Nat \ {0}
  BY DataPathAssumption
<1>3. file_view \in Seq(Nat) /\ Len(file_view) = size /\ DOMAIN file_view = 1 .. size
  <2> PICK f : f = [i \in 1 .. size |-> i]
    OBVIOUS
  <2>1. f \in [1 .. size -> Nat] /\ size \in Nat
    BY ONLY <1>2, f = [i \in 1 .. size |-> i]
  <2>2. f \in Seq(Nat)
    BY <2>1, SeqDef
  <2>3. Len(f) = size /\ DOMAIN f = 1 .. size
    BY ONLY <2>1, <2>2
  <2> QED  BY <1>1, <2>2, <2>3
<1>4. write_view \in Seq(Nat) /\ Len(write_view) = size
  <2> PICK f : f = [i \in 1 .. size |-> 0]
    OBVIOUS
  <2>1. f \in [1 .. size -> Nat] /\ size \in Nat
    BY ONLY <1>2, f = [i \in 1 .. size |-> 0]
  <2>2. f \in Seq(Nat)
    BY <2>1, SeqDef
  <2>3. Len(f) = size
    BY ONLY <2>1, <2>2
  <2>4. write_view = f
    BY <1>3 DEF Init, Hole
  <2> QED  BY <2>2, <2>3, <2>4
<1>5. strategy \in {"NONE", "LZ4"}
  BY DEF Init, Strategies
<1>6. FileInv
  BY <1>2, <1>3, <1>4, <1>5 DEF FileInv
<1>7. TaskInv
  BY DEF Init, TaskInv, TaskOK, Tasks
<1>8. <<>> \in Seq(Byte) /\ <<>> \in Seq(Seq(Byte)) /\ <<>> \in Seq(Chunks) /\ Len(<<>>) = 0
  OBVIOUS
<1>9. LinkTypes
  BY <1>8 DEF Init, LinkTypes
<1>10. ASSUME NEW st \in Streams PROVE StreamInv(st)
  <2>1. /\ kcpMutex[st] = {} /\ snd_queue[st] = <<>> /\ segments[st] = <<>>
        /\ stream_buffer[st] = <<>> /\ pushed[st] = <<>> /\ handed[st] = <<>>
    BY DEF Init
  <2>2. SegmentsFit(st) /\ PushedOnce(st) /\ HolderIsLast(st) /\ HandedInOrder(st)
    BY <1>8, <2>1 DEF SegmentsFit, PushedOnce, HolderIsLast, HandedInOrder
  <2>3. Ahead(st) = <<>>
    <3>1. Ahead(st) = [i \in 1 .. 0 |-> Frame(pushed[st][Len(handed[st]) + i])]
      BY <1>8, <2>1 DEF Ahead
    <3> QED  BY <3>1
  <2>4. Rest(st) = <<>>
    BY <2>1 DEF Rest
  <2>5. Joins(<<>>, <<>>)
    BY JoinsNone
  <2>6. <<>> = Cat(<<>>, Cat(<<>>, Cat(<<>>, <<>>)))
    BY <1>8, ConcatEmptySeq DEF Cat
  <2>7. NoByteLost(st)
    BY <1>8, <2>1, <2>3, <2>4, <2>5, <2>6 DEF NoByteLost, StreamOK
  <2> QED  BY <2>2, <2>7 DEF StreamInv
<1> QED  BY <1>6, <1>7, <1>9, <1>10 DEF LinkInv

\* And nothing received.
LEMMA InitRecv ==
    ASSUME Init
    PROVE  RecvInv
<1>1. FileInv
  BY InitLink DEF LinkInv
<1>2. /\ completedChunks \in [Chunks -> BOOLEAN] /\ \A c \in Chunks : ~completedChunks[c]
      /\ toProcess = {} /\ chunks_recv_ = 0
      /\ trans_complete_ = FALSE
  BY DEF Init
<1>3. Completed = {}
  BY <1>2 DEF Completed
<1>4. Cardinality(Completed) = 0
  BY <1>3, FS_EmptySet
<1> QED  BY <1>2, <1>3, <1>4 DEF RecvInv

\* Nor shown.
LEMMA InitShow ==
    ASSUME Init
    PROVE  ShowInv
<1>1. LinkInv /\ FileInv
  BY InitLink DEF LinkInv
<1>2. /\ chunks_sent_ = 0 /\ bytes_transferred_ = 0 /\ shown = 0
      /\ \A c \in Chunks : task[c] = "queued"
  BY DEF Init
<1>3. Counted = {} /\ Reported = {}
  BY <1>2 DEF Counted, Reported
<1>4. BytesIn(Reported) = {}
  BY <1>3 DEF BytesIn
<1>5. Cardinality(Counted) = 0 /\ Cardinality(BytesIn(Reported)) = 0
  BY <1>3, <1>4, FS_EmptySet
<1>6. ShownOK
  <2>1. Given \in SUBSET Chunks
    BY <1>1, GivenKnown
  <2>2. Cardinality(BytesIn(Given)) \in Nat /\ Len(file_view) \in Nat
    BY <1>1, <2>1, ByteCounts DEF FileInv
  <2> QED  BY <1>2, <2>2 DEF ShownOK
<1> QED  BY <1>2, <1>5, <1>6 DEF ShowInv

\* Every step keeps the invariant.
LEMMA StepKeeps ==
    ASSUME IndInv, [Next]_vars
    PROVE  IndInv'
<1>1. LinkInv /\ RecvInv /\ ShowInv
  BY DEF IndInv
<1>2. ASSUME NEW c \in Chunks, Task(c) PROVE IndInv'
  <2>1. LinkInv'
    BY <1>1, <1>2, EncodeStep, LockStep, SendPieceStep, UnlockStep, CountStep DEF Task
  <2>2. RecvInv'
    BY <1>1, <1>2, OthersRecv
  <2>3. ShowInv'
    BY <1>1, <1>2, OthersShow, CountShow DEF Task
  <2> QED  BY <2>1, <2>2, <2>3 DEF IndInv
<1>3. ASSUME NEW c \in Chunks, ProcessChunk(c) PROVE IndInv'
  BY <1>1, <1>3, ProcessStep, ProcessRecv, OthersShow DEF IndInv
<1>4. ASSUME NEW st \in Streams, IoFlush(st) PROVE IndInv'
  BY <1>1, <1>4, IoFlushStep, OthersRecv, OthersShow DEF IndInv
<1>5. ASSUME NEW st \in Streams, ReadSegment(st) PROVE IndInv'
  BY <1>1, <1>5, ReadStep, OthersRecv, OthersShow DEF IndInv
<1>6. ASSUME NEW st \in Streams, HandUp(st) PROVE IndInv'
  BY <1>1, <1>6, HandUpStep, HandUpRecv, OthersShow DEF IndInv
<1>7. ASSUME SendFile PROVE IndInv'
  <2>1. UNCHANGED <<file_view, strategy, taskVars, linkVars, stream_buffer, handed,
                    toProcess, fileVars>>
    BY <1>7 DEF SendFile, Show, ShowDone, SendFileReturns
  <2>2. LinkInv' /\ RecvInv'
    BY <1>1, <2>1, NothingMoves
  <2>3. ShowInv'
    BY <1>1, <1>7, SendFileShow
  <2> QED  BY <2>2, <2>3 DEF IndInv
<1>8. CASE UNCHANGED vars
  <2>1. UNCHANGED <<file_view, strategy, taskVars, linkVars, stream_buffer, handed,
                    toProcess, fileVars>> /\ UNCHANGED showVars
    BY <1>8 DEF vars
  <2>2. LinkInv' /\ RecvInv'
    BY <1>1, <2>1, NothingMoves
  <2>3. task' = task /\ frame' = frame /\ sent' = sent /\ file_view' = file_view
    BY <2>1 DEF taskVars
  <2>4. Counted' = Counted /\ Reported' = Reported
    BY <2>3 DEF Counted, Reported, Chunks
  <2>5. Given \subseteq Given'
    BY <2>3, GivenSame
  <2>6. ShowInv'
    BY <1>1, <2>1, <2>3, <2>4, <2>5, ShowKept
  <2> QED  BY <2>2, <2>6 DEF IndInv
<1> QED  BY <1>2, <1>3, <1>4, <1>5, <1>6, <1>7, <1>8 DEF Next, IoRecv

\* The inductive invariant holds whatever the threads of both ends do, and
\* wherever sendChunk, ikcp_send and the flushes cut a stream.
THEOREM DataPathInvariance == Spec => []IndInv
<1>1. Init => IndInv
  BY InitLink, InitRecv, InitShow DEF IndInv
<1>2. IndInv /\ [Next]_vars => IndInv'
  BY StepKeeps
<1> QED  BY <1>1, <1>2, PTL DEF Spec

------------------------------------------------------------------------------
(* What follows from it *)

\* A file all of whose chunks are completed is the sender's.
LEMMA CompletedIsWhole ==
    ASSUME LinkInv, RecvInv, Completed = Chunks
    PROVE  write_view = file_view
<1>1. /\ file_view \in Seq(Nat) /\ write_view \in Seq(Nat)
      /\ Len(write_view) = Len(file_view) /\ FileInv
  BY DEF LinkInv, FileInv
<1>2. ASSUME NEW i \in 1 .. Len(write_view) PROVE write_view[i] = file_view[i]
  <2>1. PICK c \in Chunks : i \in Region(c)
    BY <1>1, RegionsCover
  <2> QED  BY <2>1 DEF RecvInv
<1> QED  BY <1>1, <1>2, SeqEqual

\* handleRecv is given the messages whole, once and in the order in which their
\* tasks took the mutex in sendChunk.
THEOREM MessagesArriveWhole == Spec => []FramesIntact
<1>1. ASSUME IndInv PROVE FramesIntact
  <2>1. ASSUME NEW st \in Streams
        PROVE  /\ Len(handed[st]) <= Len(pushed[st])
               /\ \A i \in DOMAIN handed[st] : handed[st][i] = Body(pushed[st][i])
    <3>1. HandedInOrder(st) /\ handed[st] \in Seq(Seq(Byte))
      BY <1>1 DEF IndInv, LinkInv, StreamInv, LinkTypes
    <3>2. DOMAIN handed[st] = 1 .. Len(handed[st])
      BY <3>1
    <3> QED  BY <3>1, <3>2 DEF HandedInOrder
  <2> QED  BY <2>1 DEF FramesIntact
<1> QED  BY <1>1, DataPathInvariance, PTL

\* When processChunk has set a chunk's bit, the chunk's bytes are the sender's.
THEOREM ChunksAreCopied == Spec => []CompletedIsCopied
<1>1. ASSUME IndInv PROVE CompletedIsCopied
  <2>1. FileInv /\ RecvInv
    BY <1>1 DEF IndInv, LinkInv
  <2>2. ASSUME NEW c \in Chunks, completedChunks[c],
               NEW i \in BytesOf(c)
        PROVE  write_view[i] = file_view[i]
    <3>1. i \in Region(c)
      BY <2>1, RegionIs
    <3>2. c \in Completed
      BY <2>2 DEF Completed
    <3> QED  BY <2>1, <3>1, <3>2 DEF RecvInv
  <2> QED  BY <2>2 DEF CompletedIsCopied
<1> QED  BY <1>1, DataPathInvariance, PTL

\* When recvFile may return, the file is the sender's to the last byte.
THEOREM CompleteFileIsWhole == Spec => []CompleteIsWhole
<1>1. ASSUME IndInv PROVE CompleteIsWhole
  <2>1. LinkInv /\ RecvInv /\ FileInv
    BY <1>1 DEF IndInv, LinkInv
  <2>2. ASSUME trans_complete_ PROVE write_view = file_view
    <3>1. Completed = Chunks
      BY <2>1, <2>2 DEF RecvInv
    <3> QED  BY <2>1, <3>1, CompletedIsWhole
  <2> QED  BY <2>2 DEF CompleteIsWhole
<1> QED  BY <1>1, DataPathInvariance, PTL

\* The percentage that sendFile shows is never ahead of the part of the file
\* that sendChunk has given to KCP.
THEOREM ProgressIsHonest == Spec => []ProgressHonest
<1>1. ASSUME IndInv PROVE ProgressHonest
  <2>1. LinkInv /\ FileInv /\ ShownOK
    BY <1>1 DEF IndInv, LinkInv, ShowInv
  <2>2. Given \in SUBSET Chunks
    BY <2>1, GivenKnown
  <2>3. \A c \in Given : BytesOf(c) = Region(c) /\ Region(c) \subseteq 1 .. Len(file_view)
    BY <2>1, <2>2, RegionIs, RegionFacts
  <2>4. UNION {BytesOf(c) : c \in Given} = BytesIn(Given)
    BY <2>3 DEF BytesIn
  <2> QED  BY <2>1, <2>4 DEF ProgressHonest, ShownOK
<1> QED  BY <1>1, DataPathInvariance, PTL

\* A chunk's bit has a place in the packed field.
LEMMA BitHasPlace ==
    ASSUME NEW t \in Nat, NEW i \in 0 .. t - 1
    PROVE  i \div BitsPerByte \in 0 .. PackedBytes(t) - 1
<1> PICK q, u : q = i \div BitsPerByte /\ u = PackedBytes(t)
  OBVIOUS
<1>1. BitsPerByte \in Nat \ {0} /\ i \in Nat /\ i < t
  BY CodecAssumption
<1>2. u \in Nat /\ t <= u * BitsPerByte
  BY <1>1, CeilDivBounds DEF PackedBytes
<1>3. q \in Nat /\ q * BitsPerByte <= i
  BY <1>1, DivMod
<1>4. q \in Int /\ u \in Int /\ q * BitsPerByte < u * BitsPerByte
  <2> PICK x, y : x = q * BitsPerByte /\ y = u * BitsPerByte
    OBVIOUS
  <2>1. x \in Nat /\ y \in Nat /\ x <= i /\ t <= y
    BY <1>1, <1>2, <1>3
  <2>2. x < y
    BY ONLY <1>1, <2>1, t \in Nat
  <2> QED  BY <1>2, <1>3, <2>2
<1>5. q < u
  BY ONLY <1>1, <1>4, MultCancel
<1> QED  BY <1>2, <1>3, <1>5

\* Two chunks have different bits.
LEMMA BitsDiffer ==
    ASSUME NEW i \in Nat, NEW j \in Nat, i \div BitsPerByte = j \div BitsPerByte,
           i % BitsPerByte = j % BitsPerByte
    PROVE  i = j
<1>1. BitsPerByte \in Nat \ {0}
  BY CodecAssumption
<1>2. i = (i \div BitsPerByte) * BitsPerByte + (i % BitsPerByte)
  BY <1>1, DivMod
<1>3. j = (j \div BitsPerByte) * BitsPerByte + (j % BitsPerByte)
  BY <1>1, DivMod
<1> QED  BY <1>2, <1>3

\* The answer to a repeated handshake names exactly the completed chunks.
THEOREM BitfieldIsFaithful == Spec => []BitfieldFaithful
<1>1. ASSUME IndInv PROVE BitfieldFaithful
  <2>1. RecvInv /\ FileInv
    BY <1>1 DEF IndInv, LinkInv
  <2> PICK f, t, P : /\ f = completedChunks /\ t = TotalChunks(Len(file_view))
                     /\ P = pack_bitfield(completedChunks)
    OBVIOUS
  <2>2. t \in Nat /\ Chunks = 0 .. t - 1 /\ Cardinality(Chunks) = t
    BY <2>1, ChunkBegins, Counts
  <2>3. f \in [0 .. t - 1 -> BOOLEAN] /\ DOMAIN f = 0 .. t - 1
    BY <2>1, <2>2 DEF RecvInv
  <2>4. P = [b \in 0 .. PackedBytes(t) - 1 |->
               {i % BitsPerByte : i \in {j \in 0 .. t - 1 : j \div BitsPerByte = b /\ f[j]}}]
    BY <2>2, <2>3 DEF pack_bitfield
  <2>5. ASSUME NEW i \in 0 .. t - 1
        PROVE  /\ i \div BitsPerByte \in DOMAIN P
               /\ f[i] <=> i % BitsPerByte \in P[i \div BitsPerByte]
    <3> PICK q, r : q = i \div BitsPerByte /\ r = i % BitsPerByte
      OBVIOUS
    <3>1. q \in 0 .. PackedBytes(t) - 1
      BY <2>2, BitHasPlace
    <3>2. q \in DOMAIN P /\ P[q] = {k % BitsPerByte : k \in {j \in 0 .. t - 1 :
                                                              j \div BitsPerByte = q /\ f[j]}}
      BY <2>4, <3>1
    <3>3. f[i] => r \in P[q]
      BY <3>2
    <3>4. ASSUME r \in P[q] PROVE f[i]
      <4>1. PICK k \in 0 .. t - 1 : k \div BitsPerByte = q /\ f[k] /\ k % BitsPerByte = r
        BY <3>2, <3>4
      <4>2. k \in Nat /\ i \in Nat
        BY <2>2
      <4>3. k = i
        BY <4>1, <4>2, BitsDiffer
      <4> QED  BY <4>1, <4>3
    <3> QED  BY <3>2, <3>3, <3>4
  <2>6. unpack_bitfield(P, t)
          = [i \in 0 .. t - 1 |-> i % BitsPerByte \in P[i \div BitsPerByte]]
    BY DEF unpack_bitfield
  <2>7. ASSUME NEW i \in 0 .. t - 1 PROVE unpack_bitfield(P, t)[i] = f[i]
    <3>1. f[i] \in BOOLEAN
      BY <2>3
    <3>2. unpack_bitfield(P, t)[i] = (i % BitsPerByte \in P[i \div BitsPerByte])
      BY <2>6
    <3> QED  BY <2>5, <3>1, <3>2
  <2>8. DOMAIN unpack_bitfield(P, t) = 0 .. t - 1
    BY <2>6
  <2> PICK g : g = unpack_bitfield(P, t)
    OBVIOUS
  <2>9. g = [i \in 0 .. t - 1 |-> g[i]]
    BY <2>6
  <2>10. f = [i \in 0 .. t - 1 |-> f[i]]
    BY <2>3
  <2>11. g = f
    BY <2>7, <2>9, <2>10
  <2> QED  BY <2>2, <2>5, <2>11 DEF BitfieldFaithful
<1> QED  BY <1>1, DataPathInvariance, PTL
=============================================================================
