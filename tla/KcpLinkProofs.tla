--------------------------- MODULE KcpLinkProofs ---------------------------
(***************************************************************************)
(* Proofs about KcpLink, for all windows, numbers of messages, losses and  *)
(* repetitions: the inductive invariant, the safety properties it implies  *)
(* and the refinement of ReliableStream.                                   *)
(*                                                                         *)
(* A critical section changes one endpoint, in several steps.  The parts   *)
(* of the invariant are therefore predicates on an endpoint k, its peer r  *)
(* and what is on its way, which every operator of Kcp preserves.          *)
(***************************************************************************)
EXTENDS KcpLinkProperties, BasicLemmas, FiniteSetTheorems, SequenceTheorems, TLAPS

------------------------------------------------------------------------------
(* The invariant *)

Stored == [sn : Nat, data : Nat]

EndType ==
    [snd_queue : Seq(Nat), snd_buf : SUBSET Stored, snd_una : Nat, snd_nxt : Nat,
     rmt_wnd : Nat, rcv_queue : Seq(Nat), rcv_buf : SUBSET Stored, rcv_nxt : Nat,
     acklist : SUBSET Nat, probe : SUBSET {"tell"}, probing : BOOLEAN,
     updated : BOOLEAN]

DatagramType ==
    [cmd : {"ack", "wask", "wins"}, sn : Nat, una : Nat, wnd : Nat]
    \cup [cmd : {"push"}, sn : Nat, una : Nat, wnd : Nat, data : Nat]

\* q holds the messages after the first c.
Run(q, c) == \A i \in 1 .. Len(q) : q[i] = c + i

\* n messages were sent: those below snd_nxt have left snd_queue, the others
\* wait in it in order.
Sending(k, n) ==
    /\ n = k.snd_nxt + Len(k.snd_queue)
    /\ Run(k.snd_queue, k.snd_nxt)
    /\ \A s \in k.snd_buf : s.sn < k.snd_nxt /\ s.data = s.sn + 1

\* c messages were handed up: rcv_queue holds those that follow, up to rcv_nxt,
\* and rcv_buf some of the rcv_wnd after that.
Receiving(k, c) ==
    /\ k.rcv_nxt = c + Len(k.rcv_queue)
    /\ Len(k.rcv_queue) <= rcv_wnd
    /\ Run(k.rcv_queue, c)
    /\ \A s \in k.rcv_buf :
          s.sn >= k.rcv_nxt /\ s.sn < k.rcv_nxt + rcv_wnd /\ s.data = s.sn + 1

\* r holds the segment sn of its peer, or has handed it up.
Held(r, sn) == sn < r.rcv_nxt \/ sn \in Sns(r.rcv_buf)

\* k's segments at its peer r: r has none that k has not sent, acknowledges only
\* what it holds, and holds all that k has forgotten.
Paired(k, r) ==
    /\ r.rcv_nxt <= k.snd_nxt
    /\ \A s \in r.rcv_buf : s.sn < k.snd_nxt
    /\ \A sn \in r.acklist : Held(r, sn)
    /\ \A sn \in 0 .. k.snd_nxt - 1 : sn \in Sns(k.snd_buf) \/ Held(r, sn)

\* The datagrams ms are from k: what they say was true when they were sent and
\* cannot become false.
From(k, ms) ==
    \A m \in ms :
       /\ m \in DatagramType
       /\ m.una <= k.rcv_nxt
       /\ m.cmd = "ack" => Held(k, m.sn)
       /\ m.cmd = "push" => m.sn < k.snd_nxt /\ m.data = m.sn + 1

\* Endpoint k with its peer r, when n messages were sent and c handed up, and the
\* datagrams ms are on their way to r.
EndOK(k, r, n, c, ms) ==
    /\ k \in EndType
    /\ Sending(k, n) /\ Receiving(k, c)
    /\ Paired(k, r) /\ Paired(r, k)
    /\ From(k, ms)

IndInv ==
    /\ kcp \in [Ends -> EndType]
    /\ net \in [Ends -> SUBSET DatagramType]
    /\ sent \in [Ends -> Nat]
    /\ read \in [Ends -> Seq(Nat)]
    /\ \A e \in Ends :
          /\ EndOK(kcp[e], kcp[Peer(e)], sent[e], Len(read[e]), net[Peer(e)])
          /\ read[e] = [i \in 1 .. Len(read[e]) |-> i]

------------------------------------------------------------------------------
(* Types *)

\* The fields of an endpoint, and those of the window.
LEMMA EndFields ==
    ASSUME NEW k \in EndType
    PROVE  /\ k.snd_queue \in Seq(Nat) /\ Len(k.snd_queue) \in Nat
           /\ k.rcv_queue \in Seq(Nat) /\ Len(k.rcv_queue) \in Nat
           /\ k.snd_buf \in SUBSET Stored /\ k.rcv_buf \in SUBSET Stored
           /\ k.snd_una \in Nat /\ k.snd_nxt \in Nat /\ k.rmt_wnd \in Nat
           /\ k.rcv_nxt \in Nat /\ k.acklist \in SUBSET Nat
           /\ k.probe \in SUBSET {"tell"}
           /\ snd_wnd \in Nat /\ rcv_wnd \in Nat /\ rcv_wnd > 0
<1>1. k.snd_queue \in Seq(Nat) /\ k.rcv_queue \in Seq(Nat)
  BY DEF EndType
<1>2. Len(k.snd_queue) \in Nat /\ Len(k.rcv_queue) \in Nat
  BY <1>1
<1>3. k.snd_buf \in SUBSET Stored /\ k.rcv_buf \in SUBSET Stored
      /\ k.snd_una \in Nat /\ k.snd_nxt \in Nat /\ k.rmt_wnd \in Nat
      /\ k.rcv_nxt \in Nat /\ k.acklist \in SUBSET Nat
      /\ k.probe \in SUBSET {"tell"}
  BY DEF EndType
<1> QED  BY <1>1, <1>2, <1>3, KcpAssumption

------------------------------------------------------------------------------
(* Runs of messages *)

\* Two runs that follow one another are one.
LEMMA RunConcat ==
    ASSUME NEW c \in Nat, NEW s \in Seq(Nat), NEW t \in Seq(Nat),
           Run(s, c), Run(t, c + Len(s))
    PROVE  s \o t \in Seq(Nat) /\ Len(s \o t) = Len(s) + Len(t) /\ Run(s \o t, c)
<1>1. /\ s \o t \in Seq(Nat) /\ Len(s \o t) = Len(s) + Len(t)
      /\ Len(s) \in Nat /\ Len(t) \in Nat
      /\ \A i \in 1 .. Len(s) + Len(t) :
            (s \o t)[i] = IF i <= Len(s) THEN s[i] ELSE t[i - Len(s)]
  BY ConcatProperties
<1>2. ASSUME NEW i \in 1 .. Len(s) + Len(t) PROVE (s \o t)[i] = c + i
  <2>1. CASE i <= Len(s)
    <3>1. s[i] = c + i
      BY <1>1, <2>1 DEF Run
    <3> QED  BY <1>1, <2>1, <3>1
  <2>2. CASE ~(i <= Len(s))
    <3>1. i - Len(s) \in 1 .. Len(t)
      BY <1>1, <2>2
    <3>2. t[i - Len(s)] = (c + Len(s)) + (i - Len(s))
      BY <3>1 DEF Run
    <3>3. (s \o t)[i] = t[i - Len(s)]
      BY <1>1, <2>2
    <3> QED  BY <1>1, <3>2, <3>3
  <2> QED  BY <2>1, <2>2
<1> QED  BY <1>1, <1>2 DEF Run

\* The next message extends a run.
LEMMA RunAppend ==
    ASSUME NEW c \in Nat, NEW s \in Seq(Nat), Run(s, c)
    PROVE  LET x == Append(s, c + Len(s) + 1)
           IN  x \in Seq(Nat) /\ Len(x) = Len(s) + 1 /\ Run(x, c)
<1> DEFINE x == Append(s, c + Len(s) + 1)
<1>1. Len(s) \in Nat
  OBVIOUS
<1>2. c + Len(s) + 1 \in Nat
  BY <1>1
<1>3. x \in Seq(Nat) /\ Len(x) = Len(s) + 1
      /\ (\A i \in 1 .. Len(s) : x[i] = s[i]) /\ x[Len(s) + 1] = c + Len(s) + 1
  BY <1>2, AppendProperties
<1> HIDE DEF x
<1>4. ASSUME NEW i \in 1 .. Len(s) + 1 PROVE x[i] = c + i
  <2>1. CASE i = Len(s) + 1
    BY <1>1, <1>3, <2>1
  <2>2. CASE i \in 1 .. Len(s)
    BY <1>3, <2>2 DEF Run
  <2> QED  BY <1>1, <2>1, <2>2
<1>5. Run(x, c)
  BY <1>3, <1>4 DEF Run
<1> QED  BY <1>3, <1>5 DEF x

\* What is left of a run when its first n messages are taken away, and what
\* they were.
LEMMA RunRest ==
    ASSUME NEW c \in Nat, NEW s \in Seq(Nat), Run(s, c), NEW n \in 0 .. Len(s)
    PROVE  LET x == SubSeq(s, n + 1, Len(s))
           IN  x \in Seq(Nat) /\ Len(x) = Len(s) - n /\ Run(x, c + n)
<1> DEFINE x == SubSeq(s, n + 1, Len(s))
<1>1. Len(s) \in Nat /\ n \in Nat
  OBVIOUS
<1>2. x \in Seq(Nat) /\ Len(x) = Len(s) - n
      /\ \A i \in 1 .. Len(s) - n : x[i] = s[n + i]
  <2>1. n + 1 \in 1 .. Len(s) + 1 /\ Len(s) \in n .. Len(s)
    BY <1>1
  <2>2. x = [i \in 1 .. Len(s) - n |-> s[n + i]]
    BY <1>1
  <2>3. \A i \in 1 .. Len(s) - n : s[n + i] \in Nat
    BY <1>1, ElementOfSeq
  <2> QED  BY <1>1, <2>2, <2>3
<1> HIDE DEF x
<1>3. ASSUME NEW i \in 1 .. Len(s) - n PROVE x[i] = (c + n) + i
  <2>1. n + i \in 1 .. Len(s)
    BY <1>1
  <2>2. s[n + i] = c + (n + i)
    BY <2>1 DEF Run
  <2> QED  BY <1>1, <1>2, <2>2
<1>4. Run(x, c + n)
  BY <1>2, <1>3 DEF Run
<1> QED  BY <1>2, <1>4 DEF x

\* The first message of a run, and what follows it.
LEMMA RunTail ==
    ASSUME NEW c \in Nat, NEW s \in Seq(Nat), Run(s, c), s # <<>>
    PROVE  /\ Head(s) = c + 1
           /\ Tail(s) \in Seq(Nat) /\ Len(Tail(s)) = Len(s) - 1 /\ Run(Tail(s), c + 1)
<1>1. Len(s) \in Nat /\ Len(s) > 0 /\ Head(s) = s[1]
  BY EmptySeq
<1>2. Tail(s) \in Seq(Nat) /\ Len(Tail(s)) = Len(s) - 1
      /\ \A i \in 1 .. Len(s) - 1 : Tail(s)[i] = s[i + 1]
  BY HeadTailProperties
<1>3. Head(s) = c + 1
  BY <1>1 DEF Run
<1>4. ASSUME NEW i \in 1 .. Len(s) - 1 PROVE Tail(s)[i] = (c + 1) + i
  <2>1. i + 1 \in 1 .. Len(s)
    BY <1>1
  <2>2. s[i + 1] = c + (i + 1)
    BY <2>1 DEF Run
  <2> QED  BY <1>2, <2>2
<1>5. Run(Tail(s), c + 1)
  BY <1>2, <1>4 DEF Run
<1> QED  BY <1>2, <1>3, <1>5

------------------------------------------------------------------------------
(* Receiving *)

\* k1 differs from k only in what it has received, and has forgotten nothing.
Moved(k, k1) ==
    /\ k1 \in EndType
    /\ k1.snd_queue = k.snd_queue /\ k1.snd_buf = k.snd_buf
    /\ k1.snd_nxt = k.snd_nxt /\ k1.acklist = k.acklist
    /\ k.rcv_nxt <= k1.rcv_nxt
    /\ k1.rcv_buf \subseteq k.rcv_buf
    /\ \A sn \in Nat : Held(k, sn) => Held(k1, sn)
    /\ \A b \in Nat : k.rcv_nxt <= b /\ (\A s \in k.rcv_buf : s.sn < b)
                         => k1.rcv_nxt <= b

\* How many segments are next in line, and that they are all there.
LEMMA AvailableBound ==
    ASSUME NEW k \in EndType, Len(k.rcv_queue) <= rcv_wnd
    PROVE  /\ Available(k) \in 0 .. rcv_wnd - Len(k.rcv_queue)
           /\ k.rcv_nxt .. k.rcv_nxt + Available(k) - 1 \subseteq Sns(k.rcv_buf)
<1> DEFINE S == {n \in 0 .. rcv_wnd - Len(k.rcv_queue) :
                   k.rcv_nxt .. k.rcv_nxt + n - 1 \subseteq Sns(k.rcv_buf)}
<1>1. k.rcv_nxt \in Nat /\ Len(k.rcv_queue) \in Nat /\ rcv_wnd \in Nat
  BY EndFields
<1>2. rcv_wnd - Len(k.rcv_queue) \in Nat
  BY <1>1
<1>3. 0 \in S
  <2>1. k.rcv_nxt .. k.rcv_nxt + 0 - 1 = {}
    BY <1>1
  <2> QED  BY <1>2, <2>1
<1>4. Max(S) \in S
  BY <1>2, <1>3, MaxOfBounded
<1> QED  BY <1>4 DEF Available

\* The segments that follow one another in rcv_buf are those that follow the
\* messages in rcv_queue.
LEMMA MoveReceives ==
    ASSUME NEW k \in EndType, NEW c \in Nat, Receiving(k, c)
    PROVE  Receiving(MoveAvailable(k), c) /\ Moved(k, MoveAvailable(k))
<1> DEFINE n == Available(k)
           DataOf(sn) == (CHOOSE s \in k.rcv_buf : s.sn = sn).data
           F == [i \in 1 .. n |-> DataOf(k.rcv_nxt + i - 1)]
           k1 == MoveAvailable(k)
<1>1. n \in Nat /\ n <= rcv_wnd - Len(k.rcv_queue)
      /\ k.rcv_nxt .. k.rcv_nxt + n - 1 \subseteq Sns(k.rcv_buf)
  <2>1. Len(k.rcv_queue) <= rcv_wnd
    BY DEF Receiving
  <2>2. n \in 0 .. rcv_wnd - Len(k.rcv_queue)
        /\ k.rcv_nxt .. k.rcv_nxt + n - 1 \subseteq Sns(k.rcv_buf)
    BY <2>1, AvailableBound
  <2>3. Len(k.rcv_queue) \in Nat /\ rcv_wnd \in Nat
    BY EndFields
  <2> QED  BY <2>2, <2>3
<1>2. k.rcv_nxt \in Nat /\ k.rcv_queue \in Seq(Nat) /\ k.rcv_buf \in SUBSET Stored
      /\ Len(k.rcv_queue) \in Nat /\ rcv_wnd \in Nat
  BY EndFields
<1> HIDE DEF n
<1>3. \A i \in 1 .. n : DataOf(k.rcv_nxt + i - 1) = k.rcv_nxt + i
  <2> SUFFICES ASSUME NEW i \in 1 .. n PROVE DataOf(k.rcv_nxt + i - 1) = k.rcv_nxt + i
    OBVIOUS
  <2>1. k.rcv_nxt + i - 1 \in k.rcv_nxt .. k.rcv_nxt + n - 1
    BY <1>1, <1>2
  <2>2. \E s \in k.rcv_buf : s.sn = k.rcv_nxt + i - 1
    BY <1>1, <2>1 DEF Sns
  <2>3. PICK s \in k.rcv_buf :
           /\ s.sn = k.rcv_nxt + i - 1
           /\ s = CHOOSE t \in k.rcv_buf : t.sn = k.rcv_nxt + i - 1
    BY <2>2
  <2>4. s.data = s.sn + 1
    BY DEF Receiving
  <2> QED  BY <1>2, <2>3, <2>4
<1>4. F \in Seq(Nat) /\ Len(F) = n /\ \A i \in 1 .. n : F[i] = k.rcv_nxt + i
  <2>1. F \in [1 .. n -> Nat]
    BY <1>2, <1>3
  <2> QED  BY <1>1, <1>3, <2>1
<1> HIDE DEF F, DataOf
<1> DEFINE Q == k.rcv_queue \o F
           B == {s \in k.rcv_buf : s.sn >= k.rcv_nxt + n}
           x == k.rcv_nxt + n
<1>5. Q \in Seq(Nat) /\ Len(Q) = Len(k.rcv_queue) + n /\ Run(Q, c)
  <2>1. Run(k.rcv_queue, c) /\ k.rcv_nxt = c + Len(k.rcv_queue)
    BY DEF Receiving
  <2>2. Run(F, k.rcv_nxt)
    BY <1>4 DEF Run
  <2> QED  BY <1>2, <1>4, <2>1, <2>2, RunConcat
<1>6. /\ k1 = [k EXCEPT !.rcv_queue = Q, !.rcv_buf = B, !.rcv_nxt = x]
      /\ B \in SUBSET Stored /\ x \in Nat
  <2>1. k1 = [k EXCEPT !.rcv_queue = Q, !.rcv_buf = B, !.rcv_nxt = x]
    BY DEF MoveAvailable, F, DataOf, n
  <2>2. B \in SUBSET Stored /\ x \in Nat
    BY <1>1, <1>2
  <2> QED  BY <2>1, <2>2
<1> HIDE DEF k1, Q, B, x
<1>7. /\ k1 \in EndType
      /\ k1.rcv_queue = Q /\ k1.rcv_buf = B /\ k1.rcv_nxt = x
      /\ k1.snd_queue = k.snd_queue /\ k1.snd_buf = k.snd_buf
      /\ k1.snd_nxt = k.snd_nxt /\ k1.acklist = k.acklist
  <2>1. Q \in Seq(Nat)
    BY <1>5
  <2> QED  BY <1>6, <2>1 DEF EndType
<1> USE DEF B, x
<1>8. Receiving(k1, c)
  <2>1. x = c + Len(Q) /\ Len(Q) <= rcv_wnd
    <3>1. k.rcv_nxt = c + Len(k.rcv_queue)
      BY DEF Receiving
    <3> QED  BY <1>1, <1>2, <1>5, <3>1
  <2>2. \A s \in B : s.sn >= x /\ s.sn < x + rcv_wnd /\ s.data = s.sn + 1
    BY <1>1, <1>2 DEF Receiving, Stored
  <2> QED  BY <1>5, <1>7, <2>1, <2>2 DEF Receiving
<1>9. Moved(k, k1)
  <2>1. \A sn \in Nat : Held(k, sn) => Held(k1, sn)
    BY <1>1, <1>2, <1>7 DEF Held, Sns
  <2>2. ASSUME NEW b \in Nat, k.rcv_nxt <= b, \A s \in k.rcv_buf : s.sn < b
        PROVE  k1.rcv_nxt <= b
    <3>1. CASE n = 0
      BY <1>2, <1>7, <2>2, <3>1
    <3>2. CASE n > 0
      <4>1. k.rcv_nxt + n - 1 \in k.rcv_nxt .. k.rcv_nxt + n - 1
        BY <1>1, <1>2, <3>2
      <4>2. PICK s \in k.rcv_buf : s.sn = k.rcv_nxt + n - 1
        BY <1>1, <4>1 DEF Sns
      <4> QED  BY <1>1, <1>2, <1>7, <2>2, <4>2
    <3> QED  BY <1>1, <3>1, <3>2
  <2>3. k.rcv_nxt <= k1.rcv_nxt /\ k1.rcv_buf \subseteq k.rcv_buf
    BY <1>1, <1>2, <1>7
  <2> QED  BY <1>7, <2>1, <2>2, <2>3 DEF Moved
<1> QED  BY <1>8, <1>9 DEF k1

------------------------------------------------------------------------------
(* One endpoint next to a peer that stands still *)

PairOK(k, r, n, c) ==
    /\ k \in EndType
    /\ Sending(k, n) /\ Receiving(k, c)
    /\ Paired(k, r) /\ Paired(r, k)

\* What datagrams say of k is true of k1.
Grows(k, k1) ==
    /\ k.rcv_nxt <= k1.rcv_nxt
    /\ k.snd_nxt <= k1.snd_nxt
    /\ \A sn \in Nat : Held(k, sn) => Held(k1, sn)

\* k1 is k but for segments in snd_buf that r holds, acknowledgements of
\* segments that k holds, and fields the invariant says nothing about.
Settled(k, k1, r) ==
    /\ k1 \in EndType
    /\ k1.snd_queue = k.snd_queue /\ k1.snd_nxt = k.snd_nxt
    /\ k1.rcv_queue = k.rcv_queue /\ k1.rcv_buf = k.rcv_buf /\ k1.rcv_nxt = k.rcv_nxt
    /\ k1.snd_buf \subseteq k.snd_buf
    /\ \A s \in k.snd_buf : s \in k1.snd_buf \/ Held(r, s.sn)
    /\ \A sn \in k1.acklist : sn \in k.acklist \/ Held(k, sn)

\* Growing is transitive.
LEMMA GrowsTrans ==
    ASSUME NEW k \in EndType, NEW k1 \in EndType, NEW k2 \in EndType,
           Grows(k, k1), Grows(k1, k2)
    PROVE  Grows(k, k2)
<1>1. /\ k.rcv_nxt \in Nat /\ k1.rcv_nxt \in Nat /\ k2.rcv_nxt \in Nat
      /\ k.snd_nxt \in Nat /\ k1.snd_nxt \in Nat /\ k2.snd_nxt \in Nat
  BY EndFields
<1> QED  BY <1>1 DEF Grows

\* What remains true of k's datagrams.
LEMMA FromGrows ==
    ASSUME NEW k \in EndType, NEW k1 \in EndType, Grows(k, k1), NEW ms, From(k, ms)
    PROVE  From(k1, ms)
<1> SUFFICES ASSUME NEW m \in ms
             PROVE  /\ m \in DatagramType
                    /\ m.una <= k1.rcv_nxt
                    /\ m.cmd = "ack" => Held(k1, m.sn)
                    /\ m.cmd = "push" => m.sn < k1.snd_nxt /\ m.data = m.sn + 1
  BY DEF From
<1>1. /\ k.rcv_nxt \in Nat /\ k1.rcv_nxt \in Nat
      /\ k.snd_nxt \in Nat /\ k1.snd_nxt \in Nat
  BY EndFields
<1>2. /\ m \in DatagramType
      /\ m.una <= k.rcv_nxt
      /\ m.cmd = "ack" => Held(k, m.sn)
      /\ m.cmd = "push" => m.sn < k.snd_nxt /\ m.data = m.sn + 1
  BY DEF From
<1>3. m.una \in Nat /\ m.sn \in Nat
  BY <1>2 DEF DatagramType
<1> HIDE DEF Held
<1> QED  BY <1>1, <1>2, <1>3 DEF Grows

\* Settling keeps the pair in order.
LEMMA SettledOK ==
    ASSUME NEW k, NEW k1, NEW r \in EndType, NEW n \in Nat, NEW c \in Nat,
           PairOK(k, r, n, c), Settled(k, k1, r)
    PROVE  PairOK(k1, r, n, c) /\ Grows(k, k1)
<1>1. k \in EndType /\ k1 \in EndType
  BY DEF PairOK, Settled
<1>2. \A sn : Held(k, sn) <=> Held(k1, sn)
  BY DEF Settled, Held
<1>3. Sending(k1, n) /\ Receiving(k1, c)
  BY DEF PairOK, Settled, Sending, Receiving
<1>4. Paired(k1, r)
  BY DEF PairOK, Settled, Paired, Sns
<1>5. Paired(r, k1)
  <2> HIDE DEF Held
  <2> QED  BY <1>2 DEF PairOK, Settled, Paired
<1>6. Grows(k, k1)
  <2>1. k.rcv_nxt \in Nat /\ k.snd_nxt \in Nat
    BY <1>1, EndFields
  <2> QED  BY <1>2, <2>1 DEF Settled, Grows
<1> QED  BY <1>1, <1>3, <1>4, <1>5, <1>6 DEF PairOK

\* Moving received data keeps it in order.
LEMMA MoveOK ==
    ASSUME NEW k, NEW r \in EndType, NEW n \in Nat, NEW c \in Nat, PairOK(k, r, n, c)
    PROVE  PairOK(MoveAvailable(k), r, n, c) /\ Grows(k, MoveAvailable(k))
<1> DEFINE k1 == MoveAvailable(k)
<1>1. k \in EndType /\ Receiving(k, c)
  BY DEF PairOK
<1>2. Receiving(k1, c) /\ Moved(k, k1)
  BY <1>1, MoveReceives
<1> HIDE DEF k1
<1>3. k1 \in EndType
  BY <1>2 DEF Moved
<1>4. Sending(k1, n)
  BY <1>2 DEF PairOK, Sending, Moved
<1>5. Paired(k1, r)
  BY <1>2 DEF PairOK, Paired, Moved
<1>6. Paired(r, k1)
  <2>1. r.snd_nxt \in Nat /\ k.acklist \in SUBSET Nat
    BY <1>1, EndFields
  <2>2. k1.rcv_nxt <= r.snd_nxt
    BY <1>2, <2>1 DEF PairOK, Paired, Moved
  <2>3. \A s \in k1.rcv_buf : s.sn < r.snd_nxt
    BY <1>2 DEF PairOK, Paired, Moved
  <2>4. \A sn \in k1.acklist : Held(k1, sn)
    BY <1>2, <2>1 DEF PairOK, Paired, Moved
  <2>5. \A sn \in 0 .. r.snd_nxt - 1 : sn \in Sns(r.snd_buf) \/ Held(k1, sn)
    BY <1>2, <2>1 DEF PairOK, Paired, Moved
  <2> QED  BY <2>2, <2>3, <2>4, <2>5 DEF Paired
<1>7. Grows(k, k1)
  <2>1. k.snd_nxt \in Nat
    BY <1>1, EndFields
  <2> QED  BY <1>2, <2>1 DEF Moved, Grows
<1> QED  BY <1>2, <1>3, <1>4, <1>5, <1>6, <1>7 DEF PairOK, k1

------------------------------------------------------------------------------
(* The operations *)

\* ikcp_send
LEMMA SendOK ==
    ASSUME NEW k, NEW r \in EndType, NEW n \in Nat, NEW c \in Nat, PairOK(k, r, n, c)
    PROVE  LET k1 == ikcp_send(k, n + 1)
           IN  PairOK(k1, r, n + 1, c) /\ Grows(k, k1)
<1> DEFINE k1 == ikcp_send(k, n + 1)
           q == Append(k.snd_queue, n + 1)
<1>1. k \in EndType /\ k.snd_queue \in Seq(Nat) /\ Len(k.snd_queue) \in Nat
      /\ k.snd_nxt \in Nat /\ k.rcv_nxt \in Nat
  BY EndFields DEF PairOK
<1>2. n = k.snd_nxt + Len(k.snd_queue) /\ Run(k.snd_queue, k.snd_nxt)
  BY DEF PairOK, Sending
<1>3. q \in Seq(Nat) /\ Len(q) = Len(k.snd_queue) + 1 /\ Run(q, k.snd_nxt)
  BY <1>1, <1>2, RunAppend
<1>4. k1 = [k EXCEPT !.snd_queue = q]
  BY DEF ikcp_send
<1> HIDE DEF k1, q
<1>5. /\ k1 \in EndType
      /\ k1.snd_queue = q /\ k1.snd_nxt = k.snd_nxt /\ k1.snd_buf = k.snd_buf
      /\ k1.rcv_queue = k.rcv_queue /\ k1.rcv_buf = k.rcv_buf /\ k1.rcv_nxt = k.rcv_nxt
      /\ k1.acklist = k.acklist
  <2>1. q \in Seq(Nat)
    BY <1>3
  <2> QED  BY <1>1, <1>4, <2>1 DEF EndType
<1>6. Sending(k1, n + 1)
  <2>1. \A s \in k1.snd_buf : s.sn < k1.snd_nxt /\ s.data = s.sn + 1
    BY <1>5 DEF PairOK, Sending
  <2>2. n + 1 = k1.snd_nxt + Len(q)
    BY <1>1, <1>2, <1>3, <1>5
  <2> QED  BY <1>3, <1>5, <2>1, <2>2 DEF Sending
<1>7. \A sn : Held(k, sn) <=> Held(k1, sn)
  BY <1>5 DEF Held
<1>8. Receiving(k1, c) /\ Paired(k1, r)
  BY <1>5 DEF PairOK, Receiving, Paired
<1>9. Paired(r, k1)
  BY <1>5, <1>7 DEF PairOK, Paired
<1>10. Grows(k, k1)
  BY <1>1, <1>5, <1>7 DEF Grows
<1> QED  BY <1>5, <1>6, <1>8, <1>9, <1>10 DEF PairOK, k1

\* ikcp_update
LEMMA UpdateOK ==
    ASSUME NEW k, NEW r \in EndType, NEW n \in Nat, NEW c \in Nat, PairOK(k, r, n, c)
    PROVE  PairOK(ikcp_update(k), r, n, c) /\ Grows(k, ikcp_update(k))
<1>1. k \in EndType
  BY DEF PairOK
<1>2. Settled(k, ikcp_update(k), r)
  BY <1>1 DEF ikcp_update, Settled, EndType
<1> QED  BY <1>2, SettledOK

\* Being told to announce the window.
LEMMA TellOK ==
    ASSUME NEW k, NEW r \in EndType, NEW n \in Nat, NEW c \in Nat, PairOK(k, r, n, c)
    PROVE  LET k1 == [k EXCEPT !.probe = @ \cup {"tell"}]
           IN  PairOK(k1, r, n, c) /\ Grows(k, k1)
<1> DEFINE p == k.probe \cup {"tell"}
           k1 == [k EXCEPT !.probe = p]
<1>1. k \in EndType
  BY DEF PairOK
<1>2. p \in SUBSET {"tell"}
  BY <1>1, EndFields
<1> HIDE DEF p
<1>3. Settled(k, k1, r)
  BY <1>1, <1>2 DEF Settled, EndType
<1>4. PairOK(k1, r, n, c) /\ Grows(k, k1)
  BY <1>3, SettledOK
<1> QED  BY <1>4 DEF p

\* ikcp_recv
LEMMA RecvOK ==
    ASSUME NEW k, NEW r \in EndType, NEW n \in Nat, NEW c \in Nat, PairOK(k, r, n, c),
           k.rcv_queue # <<>>
    PROVE  /\ Head(k.rcv_queue) = c + 1
           /\ PairOK(ikcp_recv(k), r, n, c + 1) /\ Grows(k, ikcp_recv(k))
<1> DEFINE q == Tail(k.rcv_queue)
           k1 == [k EXCEPT !.rcv_queue = q]
           k2 == MoveAvailable(k1)
<1>1. k \in EndType /\ k.rcv_queue \in Seq(Nat) /\ Len(k.rcv_queue) \in Nat
      /\ k.snd_nxt \in Nat /\ k.rcv_nxt \in Nat /\ rcv_wnd \in Nat
  BY EndFields DEF PairOK
<1>2. k.rcv_nxt = c + Len(k.rcv_queue) /\ Len(k.rcv_queue) <= rcv_wnd
      /\ Run(k.rcv_queue, c)
  BY DEF PairOK, Receiving
<1>3. Head(k.rcv_queue) = c + 1 /\ q \in Seq(Nat) /\ Len(q) = Len(k.rcv_queue) - 1
      /\ Run(q, c + 1)
  BY <1>1, <1>2, RunTail
<1> HIDE DEF q
<1>4. /\ k1 \in EndType
      /\ k1.snd_queue = k.snd_queue /\ k1.snd_nxt = k.snd_nxt /\ k1.snd_buf = k.snd_buf
      /\ k1.rcv_queue = q /\ k1.rcv_buf = k.rcv_buf /\ k1.rcv_nxt = k.rcv_nxt
      /\ k1.acklist = k.acklist
  <2>1. q \in Seq(Nat)
    BY <1>3
  <2> QED  BY <1>1, <2>1 DEF EndType
<1> HIDE DEF k1
<1>5. Receiving(k1, c + 1)
  <2>1. \A s \in k1.rcv_buf :
           s.sn >= k1.rcv_nxt /\ s.sn < k1.rcv_nxt + rcv_wnd /\ s.data = s.sn + 1
    BY <1>4 DEF PairOK, Receiving
  <2>2. Len(q) = Len(k.rcv_queue) - 1
    BY <1>3
  <2> DEFINE L == Len(k.rcv_queue)
  <2> HIDE DEF L
  <2>3. k.rcv_nxt = (c + 1) + Len(q) /\ Len(q) <= rcv_wnd
    <3>1. L \in Nat /\ L <= rcv_wnd /\ k.rcv_nxt = c + L /\ Len(q) = L - 1
      BY <1>1, <1>2, <2>2 DEF L
    <3> QED  BY <1>1, <3>1
  <2> QED  BY <1>3, <1>4, <2>1, <2>3 DEF Receiving
<1>6. \A sn : Held(k, sn) <=> Held(k1, sn)
  BY <1>4 DEF Held
<1>7. Sending(k1, n) /\ Paired(k1, r)
  BY <1>4 DEF PairOK, Sending, Paired
<1>8. Paired(r, k1)
  BY <1>4, <1>6 DEF PairOK, Paired
<1>9. Grows(k, k1)
  BY <1>1, <1>4, <1>6 DEF Grows
<1>10. PairOK(k1, r, n, c + 1)
  BY <1>4, <1>5, <1>7, <1>8 DEF PairOK
<1>11. PairOK(k2, r, n, c + 1) /\ Grows(k1, k2)
  BY <1>10, MoveOK
<1> DEFINE k3 == [k2 EXCEPT !.probe = @ \cup {"tell"}]
<1> HIDE DEF k2
<1>12. PairOK(k3, r, n, c + 1) /\ Grows(k2, k3)
  <2>1. c + 1 \in Nat
    OBVIOUS
  <2> QED  BY <1>11, <2>1, TellOK, Zenon
<1> HIDE DEF k3
<1>13. k2 \in EndType /\ k3 \in EndType
  BY <1>11, <1>12 DEF PairOK
<1>14. Grows(k, k2)
  BY <1>1, <1>4, <1>9, <1>11, <1>13, GrowsTrans
<1>15. Grows(k, k3)
  BY <1>1, <1>12, <1>13, <1>14, GrowsTrans
<1>16. ikcp_recv(k) = k2 \/ ikcp_recv(k) = k3
  BY DEF ikcp_recv, k1, k2, k3, q
<1> QED  BY <1>3, <1>11, <1>12, <1>14, <1>15, <1>16

\* ikcp_shrink_buf
LEMMA ShrinkOK ==
    ASSUME NEW k, NEW r \in EndType, NEW n \in Nat, NEW c \in Nat, PairOK(k, r, n, c)
    PROVE  PairOK(ikcp_shrink_buf(k), r, n, c) /\ Grows(k, ikcp_shrink_buf(k))
<1> DEFINE u == IF k.snd_buf = {} THEN k.snd_nxt ELSE Min(Sns(k.snd_buf))
<1>1. k \in EndType /\ k.snd_buf \in SUBSET Stored /\ k.snd_nxt \in Nat
  BY EndFields DEF PairOK
<1>2. u \in Nat
  <2>1. CASE k.snd_buf = {}
    BY <1>1, <2>1
  <2>2. CASE k.snd_buf # {}
    <3>1. Sns(k.snd_buf) \in SUBSET Nat /\ Sns(k.snd_buf) # {}
      BY <1>1, <2>2 DEF Sns, Stored
    <3>2. Min(Sns(k.snd_buf)) \in Nat
      BY <3>1, MinOfNats
    <3> QED  BY <2>2, <3>2
  <2> QED  BY <2>1, <2>2
<1>3. ikcp_shrink_buf(k) = [k EXCEPT !.snd_una = u]
  BY DEF ikcp_shrink_buf
<1> HIDE DEF u
<1>4. Settled(k, ikcp_shrink_buf(k), r)
  BY <1>1, <1>2, <1>3 DEF Settled, EndType
<1> QED  BY <1>4, SettledOK

\* The segments that go are those that r holds.
LEMMA DropOK ==
    ASSUME NEW k, NEW r \in EndType, NEW n \in Nat, NEW c \in Nat, PairOK(k, r, n, c),
           NEW w \in Nat, NEW b \in SUBSET k.snd_buf,
           \A s \in k.snd_buf : s \in b \/ Held(r, s.sn),
           NEW k1, k1 = [[k EXCEPT !.rmt_wnd = w] EXCEPT !.snd_buf = b]
    PROVE  PairOK(k1, r, n, c) /\ Grows(k, k1)
<1>1. k \in EndType /\ k.snd_buf \in SUBSET Stored
  BY EndFields DEF PairOK
<1>2. b \in SUBSET Stored
  BY <1>1
<1>3. /\ k1 \in EndType
      /\ k1.snd_queue = k.snd_queue /\ k1.snd_nxt = k.snd_nxt
      /\ k1.rcv_queue = k.rcv_queue /\ k1.rcv_buf = k.rcv_buf /\ k1.rcv_nxt = k.rcv_nxt
      /\ k1.snd_buf = b /\ k1.acklist = k.acklist
  BY <1>1, <1>2 DEF EndType
<1>4. Settled(k, k1, r)
  BY <1>3 DEF Settled
<1> QED  BY <1>4, SettledOK

\* The window and una of any segment from r: ikcp_parse_una, ikcp_shrink_buf.
LEMMA HeardOK ==
    ASSUME NEW k, NEW r \in EndType, NEW n \in Nat, NEW c \in Nat, PairOK(k, r, n, c),
           NEW w \in Nat, NEW una \in Nat, una <= r.rcv_nxt
    PROVE  LET k1 == ikcp_shrink_buf(ikcp_parse_una([k EXCEPT !.rmt_wnd = w], una))
           IN  PairOK(k1, r, n, c) /\ Grows(k, k1)
<1> DEFINE b == {s \in k.snd_buf : s.sn >= una}
           k1 == ikcp_parse_una([k EXCEPT !.rmt_wnd = w], una)
           k2 == ikcp_shrink_buf(k1)
<1>1. k \in EndType /\ k.snd_buf \in SUBSET Stored /\ r.rcv_nxt \in Nat
  BY EndFields DEF PairOK
<1>2. \A s \in k.snd_buf : s \in b \/ Held(r, s.sn)
  <2>1. \A s \in k.snd_buf : s.sn \in Nat
    BY <1>1 DEF Stored
  <2> QED  BY <1>1, <2>1 DEF Held
<1>3. k1 = [[k EXCEPT !.rmt_wnd = w] EXCEPT !.snd_buf = b]
  <2>1. [k EXCEPT !.rmt_wnd = w].snd_buf = k.snd_buf
    BY <1>1 DEF EndType
  <2> QED  BY <2>1 DEF ikcp_parse_una
<1>4. b \in SUBSET k.snd_buf
  OBVIOUS
<1> HIDE DEF k1, b
<1>5. PairOK(k1, r, n, c) /\ Grows(k, k1)
  BY <1>2, <1>3, <1>4, DropOK, Zenon
<1>6. PairOK(k2, r, n, c) /\ Grows(k1, k2)
  BY <1>5, ShrinkOK
<1> HIDE DEF k2
<1>7. k1 \in EndType /\ k2 \in EndType
  BY <1>5, <1>6 DEF PairOK
<1>8. Grows(k, k2)
  BY <1>1, <1>5, <1>6, <1>7, GrowsTrans
<1> QED  BY <1>6, <1>8 DEF k1, k2

\* An acknowledgement of a segment that r holds: ikcp_parse_ack, ikcp_shrink_buf.
LEMMA AckOK ==
    ASSUME NEW k, NEW r \in EndType, NEW n \in Nat, NEW c \in Nat, PairOK(k, r, n, c),
           NEW sn \in Nat, Held(r, sn)
    PROVE  LET k1 == ikcp_shrink_buf(ikcp_parse_ack(k, sn))
           IN  PairOK(k1, r, n, c) /\ Grows(k, k1)
<1> DEFINE b == {s \in k.snd_buf : s.sn # sn}
           k1 == ikcp_parse_ack(k, sn)
           k2 == ikcp_shrink_buf(k1)
<1>1. k \in EndType /\ k.snd_buf \in SUBSET Stored
  BY EndFields DEF PairOK
<1>2. PairOK(k1, r, n, c) /\ Grows(k, k1)
  <2>1. k1 = k \/ k1 = [k EXCEPT !.snd_buf = b]
    BY DEF ikcp_parse_ack
  <2>2. b \in SUBSET k.snd_buf /\ b \in SUBSET Stored
        /\ \A s \in k.snd_buf : s \in b \/ Held(r, s.sn)
    BY <1>1
  <2> HIDE DEF k1, b
  <2>3. /\ k1 \in EndType
        /\ k1.snd_queue = k.snd_queue /\ k1.snd_nxt = k.snd_nxt
        /\ k1.rcv_queue = k.rcv_queue /\ k1.rcv_buf = k.rcv_buf
        /\ k1.rcv_nxt = k.rcv_nxt
        /\ k1.snd_buf \in {k.snd_buf, b} /\ k1.acklist = k.acklist
    BY <1>1, <2>1, <2>2 DEF EndType
  <2>4. Settled(k, k1, r)
    BY <2>2, <2>3 DEF Settled
  <2> QED  BY <2>4, SettledOK
<1> HIDE DEF k1
<1>3. PairOK(k2, r, n, c) /\ Grows(k1, k2)
  BY <1>2, ShrinkOK
<1> HIDE DEF k2
<1>4. k1 \in EndType /\ k2 \in EndType
  BY <1>2, <1>3 DEF PairOK
<1>5. Grows(k, k2)
  BY <1>1, <1>2, <1>3, <1>4, GrowsTrans
<1> QED  BY <1>3, <1>5 DEF k1, k2

\* ikcp_ack_push, for a segment that is here.
LEMMA AckPushOK ==
    ASSUME NEW k, NEW r \in EndType, NEW n \in Nat, NEW c \in Nat, PairOK(k, r, n, c),
           NEW sn \in Nat, Held(k, sn)
    PROVE  PairOK(ikcp_ack_push(k, sn), r, n, c) /\ Grows(k, ikcp_ack_push(k, sn))
<1> DEFINE a == k.acklist \cup {sn}
<1>1. k \in EndType /\ a \in SUBSET Nat
  BY EndFields DEF PairOK
<1>2. ikcp_ack_push(k, sn) = [k EXCEPT !.acklist = a]
  BY DEF ikcp_ack_push
<1>3. \A x \in a : x \in k.acklist \/ Held(k, x)
  OBVIOUS
<1> HIDE DEF a
<1>4. Settled(k, ikcp_ack_push(k, sn), r)
  BY <1>1, <1>2, <1>3 DEF Settled, EndType
<1> QED  BY <1>4, SettledOK

\* k with a new segment, which is acknowledged.
Keeping(k, s) == [k EXCEPT !.acklist = @ \cup {s.sn}, !.rcv_buf = @ \cup {s}]

\* A new segment within the window joins rcv_buf and is acknowledged.
LEMMA KeepOK ==
    ASSUME NEW k, NEW r \in EndType, NEW n \in Nat, NEW c \in Nat, PairOK(k, r, n, c),
           NEW s \in Stored, s.data = s.sn + 1, s.sn < r.snd_nxt,
           s.sn >= k.rcv_nxt, s.sn < k.rcv_nxt + rcv_wnd,
           NEW k1, k1 = Keeping(k, s)
    PROVE  PairOK(k1, r, n, c) /\ Grows(k, k1)
<1> DEFINE a == k.acklist \cup {s.sn}
           b == k.rcv_buf \cup {s}
<1>1. k \in EndType /\ a \in SUBSET Nat /\ b \in SUBSET Stored
      /\ k.rcv_nxt \in Nat /\ k.snd_nxt \in Nat /\ s.sn \in Nat
  BY EndFields DEF PairOK, Stored
<1>2. k1 = [k EXCEPT !.acklist = a, !.rcv_buf = b]
  BY DEF Keeping
<1> HIDE DEF a, b
<1>3. /\ k1 \in EndType
      /\ k1.snd_queue = k.snd_queue /\ k1.snd_nxt = k.snd_nxt /\ k1.snd_buf = k.snd_buf
      /\ k1.rcv_queue = k.rcv_queue /\ k1.rcv_buf = b /\ k1.rcv_nxt = k.rcv_nxt
      /\ k1.acklist = a
  BY <1>1, <1>2 DEF EndType
<1>4. \A sn : Held(k1, sn) <=> Held(k, sn) \/ sn = s.sn
  BY <1>3 DEF Held, Sns, b
<1>5. Sending(k1, n) /\ Paired(k1, r)
  BY <1>3 DEF PairOK, Sending, Paired
<1>6. Receiving(k1, c)
  BY <1>3 DEF PairOK, Receiving, b
<1>7. Paired(r, k1)
  <2> HIDE DEF Held
  <2>1. k1.rcv_nxt <= r.snd_nxt
        /\ \A sn \in 0 .. r.snd_nxt - 1 : sn \in Sns(r.snd_buf) \/ Held(k1, sn)
    BY <1>3, <1>4 DEF PairOK, Paired
  <2>2. \A t \in k1.rcv_buf : t.sn < r.snd_nxt
    BY <1>3 DEF PairOK, Paired, b
  <2>3. \A sn \in k1.acklist : Held(k1, sn)
    BY <1>3, <1>4 DEF PairOK, Paired, a
  <2> QED  BY <2>1, <2>2, <2>3 DEF Paired
<1>8. Grows(k, k1)
  BY <1>1, <1>3, <1>4 DEF Grows
<1> QED  BY <1>3, <1>5, <1>6, <1>7, <1>8 DEF PairOK

\* ikcp_ack_push and ikcp_parse_data
LEMMA PushOK ==
    ASSUME NEW k, NEW r \in EndType, NEW n \in Nat, NEW c \in Nat, PairOK(k, r, n, c),
           NEW m, m.sn \in Nat, m.data = m.sn + 1, m.sn < r.snd_nxt
    PROVE  PairOK(InputPush(k, m), r, n, c) /\ Grows(k, InputPush(k, m))
<1> DEFINE k1 == ikcp_ack_push(k, m.sn)
           s == [sn |-> m.sn, data |-> m.data]
           k2 == [k1 EXCEPT !.rcv_buf = @ \cup {s}]
<1>1. k \in EndType /\ k.rcv_nxt \in Nat /\ k.snd_nxt \in Nat /\ rcv_wnd \in Nat
  BY EndFields DEF PairOK
<1>2. k1.rcv_nxt = k.rcv_nxt /\ k1.rcv_buf = k.rcv_buf /\ k1 = [k EXCEPT !.acklist = @ \cup {m.sn}]
  BY <1>1 DEF ikcp_ack_push, EndType
<1>3. CASE m.sn >= k.rcv_nxt + rcv_wnd
  <2>1. InputPush(k, m) = k
    BY <1>3 DEF InputPush
  <2>2. Grows(k, k)
    BY <1>1 DEF Grows
  <2> QED  BY <2>1, <2>2
<1>4. CASE m.sn < k.rcv_nxt
  <2>1. ~(m.sn >= k.rcv_nxt + rcv_wnd)
    BY <1>1, <1>4
  <2>2. InputPush(k, m) = k1
    BY <1>4, <2>1 DEF InputPush
  <2>3. Held(k, m.sn)
    BY <1>4 DEF Held
  <2> QED  BY <2>2, <2>3, AckPushOK
<1>5. CASE ~(m.sn >= k.rcv_nxt + rcv_wnd) /\ ~(m.sn < k.rcv_nxt)
  <2>1. InputPush(k, m) = ikcp_parse_data(k1, m)
    BY <1>5 DEF InputPush
  <2>2. CASE m.sn \in Sns(k.rcv_buf)
    <3>1. InputPush(k, m) = MoveAvailable(k1)
      BY <1>2, <1>5, <2>1, <2>2 DEF ikcp_parse_data
    <3>2. PairOK(k1, r, n, c) /\ Grows(k, k1)
      BY <2>2, AckPushOK DEF Held
    <3> HIDE DEF k1
    <3>3. PairOK(MoveAvailable(k1), r, n, c) /\ Grows(k1, MoveAvailable(k1))
      BY <3>2, MoveOK
    <3>4. k1 \in EndType /\ MoveAvailable(k1) \in EndType
      BY <3>2, <3>3 DEF PairOK
    <3>5. Grows(k, MoveAvailable(k1))
      BY <1>1, <3>2, <3>3, <3>4, GrowsTrans
    <3> QED  BY <3>1, <3>3, <3>5
  <2>3. CASE m.sn \notin Sns(k.rcv_buf)
    <3>1. InputPush(k, m) = MoveAvailable(k2)
      BY <1>2, <1>5, <2>1, <2>3 DEF ikcp_parse_data
    <3>2. s \in Stored /\ s.data = s.sn + 1 /\ s.sn = m.sn
      BY DEF Stored
    <3>3. k2 = Keeping(k, s)
      BY <1>1, <1>2, <3>2 DEF EndType, Keeping
    <3> HIDE DEF s, k2
    <3>4. PairOK(k2, r, n, c) /\ Grows(k, k2)
      <4>1. s.sn < r.snd_nxt /\ s.sn >= k.rcv_nxt /\ s.sn < k.rcv_nxt + rcv_wnd
        BY <1>1, <1>5, <3>2
      <4> QED  BY <3>2, <3>3, <4>1, KeepOK
    <3>5. PairOK(MoveAvailable(k2), r, n, c) /\ Grows(k2, MoveAvailable(k2))
      BY <3>4, MoveOK
    <3>6. k2 \in EndType /\ MoveAvailable(k2) \in EndType
      BY <3>4, <3>5 DEF PairOK
    <3>7. Grows(k, MoveAvailable(k2))
      BY <1>1, <3>4, <3>5, <3>6, GrowsTrans
    <3> QED  BY <3>1, <3>5, <3>7
  <2> QED  BY <2>2, <2>3
<1> QED  BY <1>3, <1>4, <1>5

\* ikcp_input of a datagram from r
LEMMA InputOK ==
    ASSUME NEW k, NEW r \in EndType, NEW n \in Nat, NEW c \in Nat, PairOK(k, r, n, c),
           NEW ms, From(r, ms), NEW m \in ms
    PROVE  PairOK(ikcp_input(k, m), r, n, c) /\ Grows(k, ikcp_input(k, m))
<1> DEFINE h == ikcp_shrink_buf(ikcp_parse_una([k EXCEPT !.rmt_wnd = m.wnd], m.una))
           i == ikcp_input(k, m)
<1>1. /\ m \in DatagramType
      /\ m.una <= r.rcv_nxt
      /\ m.cmd = "ack" => Held(r, m.sn)
      /\ m.cmd = "push" => m.sn < r.snd_nxt /\ m.data = m.sn + 1
  BY DEF From
<1>2. m.una \in Nat /\ m.sn \in Nat /\ m.wnd \in Nat
      /\ m.cmd \in {"ack", "push", "wask", "wins"}
  BY <1>1 DEF DatagramType
<1>3. PairOK(h, r, n, c) /\ Grows(k, h)
  BY <1>1, <1>2, HeardOK
<1>4. i = CASE m.cmd = "ack"  -> ikcp_shrink_buf(ikcp_parse_ack(h, m.sn))
            [] m.cmd = "push" -> InputPush(h, m)
            [] m.cmd = "wask" -> [h EXCEPT !.probe = @ \cup {"tell"}]
            [] m.cmd = "wins" -> h
  BY DEF ikcp_input
<1> HIDE DEF h, i
<1>5. k \in EndType /\ h \in EndType
  BY <1>3 DEF PairOK
<1>6. PairOK(i, r, n, c) /\ Grows(h, i)
  <2>1. CASE m.cmd = "ack"
    <3>1. i = ikcp_shrink_buf(ikcp_parse_ack(h, m.sn))
      BY <1>4, <2>1
    <3> QED  BY <1>1, <1>2, <1>3, <2>1, <3>1, AckOK
  <2>2. CASE m.cmd = "push"
    <3>1. i = InputPush(h, m)
      BY <1>4, <2>2
    <3> QED  BY <1>1, <1>2, <1>3, <2>2, <3>1, PushOK
  <2>3. CASE m.cmd = "wask"
    <3>1. i = [h EXCEPT !.probe = @ \cup {"tell"}]
      BY <1>4, <2>3
    <3> QED  BY <1>3, <3>1, TellOK, Zenon
  <2>4. CASE m.cmd = "wins"
    <3>1. i = h
      BY <1>4, <2>4
    <3>2. h.rcv_nxt \in Nat /\ h.snd_nxt \in Nat
      BY <1>5, EndFields
    <3>3. Grows(h, h)
      BY <3>2 DEF Grows
    <3> QED  BY <1>3, <3>1, <3>3
  <2> QED  BY <1>2, <2>1, <2>2, <2>3, <2>4
<1>7. i \in EndType
  BY <1>6 DEF PairOK
<1>8. Grows(k, i)
  BY <1>3, <1>5, <1>6, <1>7, GrowsTrans
<1> QED  BY <1>6, <1>8 DEF i

------------------------------------------------------------------------------
(* Flush *)

\* A flush takes no more from snd_queue than there is.
LEMMA RoomBound ==
    ASSUME NEW k \in EndType
    PROVE  Room(k) \in 0 .. Len(k.snd_queue)
<1> DEFINE cwnd == Min({snd_wnd, k.rmt_wnd})
           room == k.snd_una + cwnd - k.snd_nxt
           fits == IF room > 0 THEN room ELSE 0
<1>1. snd_wnd \in Nat /\ k.rmt_wnd \in Nat /\ k.snd_una \in Nat /\ k.snd_nxt \in Nat
      /\ Len(k.snd_queue) \in Nat
  BY EndFields
<1>2. cwnd \in Nat
  BY <1>1, MinOfTwo
<1> HIDE DEF cwnd
<1>3. fits \in Nat
  BY <1>1, <1>2
<1> HIDE DEF fits
<1>4. Room(k) = Min({Len(k.snd_queue), fits})
  BY DEF Room, fits, cwnd
<1> QED  BY <1>1, <1>3, <1>4, MinOfTwo

\* The fresh segments are the next messages, numbered from snd_nxt.
LEMMA FreshSegments ==
    ASSUME NEW k, NEW n \in Nat, k \in EndType, Sending(k, n)
    PROVE  /\ Fresh(k) \in SUBSET Stored
           /\ \A s \in Fresh(k) : s.sn \in k.snd_nxt .. k.snd_nxt + Room(k) - 1
                                 /\ s.data = s.sn + 1
           /\ k.snd_nxt .. k.snd_nxt + Room(k) - 1 \subseteq Sns(Fresh(k))
<1>1. k.snd_nxt \in Nat /\ Len(k.snd_queue) \in Nat /\ Run(k.snd_queue, k.snd_nxt)
  BY EndFields DEF Sending
<1> DEFINE x == Room(k)
           S(i) == [sn |-> k.snd_nxt + i - 1, data |-> k.snd_queue[i]]
<1>2. x \in Nat /\ x <= Len(k.snd_queue)
  BY <1>1, RoomBound
<1>3. Fresh(k) = {S(i) : i \in 1 .. x}
  BY DEF Fresh
<1> HIDE DEF x
<1>4. ASSUME NEW i \in 1 .. x
      PROVE  S(i) \in Stored /\ S(i).sn = k.snd_nxt + i - 1
             /\ S(i).sn \in k.snd_nxt .. k.snd_nxt + x - 1 /\ S(i).data = S(i).sn + 1
  <2>1. i \in 1 .. Len(k.snd_queue)
    BY <1>1, <1>2
  <2>2. k.snd_queue[i] = k.snd_nxt + i
    BY <1>1, <2>1 DEF Run
  <2> QED  BY <1>1, <1>2, <2>2 DEF Stored
<1>5. ASSUME NEW sn \in k.snd_nxt .. k.snd_nxt + x - 1
      PROVE  sn \in Sns(Fresh(k))
  <2>1. sn - k.snd_nxt + 1 \in 1 .. x
    BY <1>1, <1>2
  <2>2. S(sn - k.snd_nxt + 1).sn = sn
    BY <1>1
  <2> HIDE DEF S
  <2> QED  BY <1>3, <2>1, <2>2 DEF Sns
<1> HIDE DEF S
<1> QED  BY <1>3, <1>4, <1>5 DEF x

\* ikcp_flush
LEMMA FlushOK ==
    ASSUME NEW k, NEW r \in EndType, NEW n \in Nat, NEW c \in Nat, PairOK(k, r, n, c)
    PROVE  PairOK(ikcp_flush(k), r, n, c) /\ Grows(k, ikcp_flush(k))
<1>1. k \in EndType /\ Sending(k, n) /\ Receiving(k, c)
  BY DEF PairOK
<1>2. /\ k.snd_nxt \in Nat /\ k.rcv_nxt \in Nat
      /\ k.snd_queue \in Seq(Nat) /\ Len(k.snd_queue) \in Nat
      /\ k.snd_buf \in SUBSET Stored
  BY <1>1, EndFields
<1>3. CASE ~k.updated
  BY <1>2, <1>3 DEF ikcp_flush, Grows
<1>4. CASE k.updated
  <2> DEFINE x == Room(k)
             q == SubSeq(k.snd_queue, x + 1, Len(k.snd_queue))
             b == k.snd_buf \cup Fresh(k)
             y == k.snd_nxt + x
             p == k.rmt_wnd = 0
             k1 == ikcp_flush(k)
  <2>1. x \in 0 .. Len(k.snd_queue)
    BY <1>1, RoomBound
  <2>2. n = k.snd_nxt + Len(k.snd_queue) /\ Run(k.snd_queue, k.snd_nxt)
    BY <1>1 DEF Sending
  <2>3. k1 = [k EXCEPT !.acklist = {}, !.probe = {}, !.probing = p,
                       !.snd_queue = q, !.snd_buf = b, !.snd_nxt = y]
    BY <1>4 DEF ikcp_flush
  <2> HIDE DEF x, k1
  <2>4. q \in Seq(Nat) /\ Len(q) = Len(k.snd_queue) - x /\ Run(q, y)
    BY <1>2, <2>1, <2>2, RunRest
  <2>5. b \in SUBSET Stored /\ y \in Nat /\ k.snd_nxt <= y
    BY <1>1, <1>2, <2>1, FreshSegments
  <2>6. p \in BOOLEAN
    OBVIOUS
  <2> HIDE DEF q, b, y, p
  <2>7. /\ k1 \in EndType
        /\ k1.snd_queue = q /\ k1.snd_nxt = y /\ k1.snd_buf = b
        /\ k1.rcv_queue = k.rcv_queue /\ k1.rcv_buf = k.rcv_buf
        /\ k1.rcv_nxt = k.rcv_nxt /\ k1.acklist = {}
    <3>1. q \in Seq(Nat)
      BY <2>4
    <3> QED  BY <1>1, <2>3, <2>5, <2>6, <3>1 DEF EndType
  <2>8. \A s \in b : s.sn < y /\ s.data = s.sn + 1
    <3>1. \A s \in k.snd_buf : s.sn \in Nat /\ s.sn < k.snd_nxt /\ s.data = s.sn + 1
      BY <1>1, <1>2 DEF Sending, Stored
    <3>2. \A s \in Fresh(k) : s.sn \in k.snd_nxt .. k.snd_nxt + x - 1
                               /\ s.data = s.sn + 1
      BY <1>1, FreshSegments DEF x
    <3> QED  BY <1>2, <2>1, <2>5, <3>1, <3>2 DEF b, y
  <2>9. Sending(k1, n)
    <3>1. n = y + Len(q)
      BY <1>2, <2>1, <2>2, <2>4 DEF y
    <3> QED  BY <2>4, <2>7, <2>8, <3>1 DEF Sending
  <2>10. \A sn : Held(k1, sn) <=> Held(k, sn)
    BY <2>7 DEF Held
  <2>11. Receiving(k1, c)
    BY <1>1, <2>7 DEF Receiving
  <2>12. Paired(k1, r)
    <3>1. r.rcv_nxt \in Nat /\ r.rcv_buf \in SUBSET Stored
      BY EndFields
    <3>2. r.rcv_nxt <= k1.snd_nxt
      BY <1>2, <2>5, <2>7, <3>1 DEF PairOK, Paired
    <3>3. \A s \in r.rcv_buf : s.sn < k1.snd_nxt
      BY <1>2, <2>5, <2>7, <3>1 DEF PairOK, Paired, Stored
    <3>4. ASSUME NEW sn \in 0 .. k1.snd_nxt - 1
          PROVE  sn \in Sns(k1.snd_buf) \/ Held(r, sn)
      <4>1. CASE sn < k.snd_nxt
        <5>1. sn \in 0 .. k.snd_nxt - 1
          BY <1>2, <2>5, <2>7, <4>1
        <5>2. sn \in Sns(k.snd_buf) \/ Held(r, sn)
          BY <5>1 DEF PairOK, Paired
        <5> QED  BY <2>7, <5>2 DEF Sns, b
      <4>2. CASE ~(sn < k.snd_nxt)
        <5>1. sn \in k.snd_nxt .. k.snd_nxt + x - 1
          BY <1>2, <2>1, <2>7, <4>2 DEF y
        <5>2. sn \in Sns(Fresh(k))
          BY <1>1, <5>1, FreshSegments DEF x
        <5> QED  BY <2>7, <5>2 DEF Sns, b
      <4> QED  BY <4>1, <4>2
    <3>5. \A sn \in r.acklist : Held(r, sn)
      BY DEF PairOK, Paired
    <3> QED  BY <3>2, <3>3, <3>4, <3>5 DEF Paired
  <2>13. Paired(r, k1)
    BY <2>7, <2>10 DEF PairOK, Paired
  <2>14. Grows(k, k1)
    BY <1>2, <2>5, <2>7, <2>10 DEF Grows
  <2> QED  BY <2>7, <2>9, <2>11, <2>12, <2>13, <2>14 DEF PairOK, k1
<1> QED  BY <1>3, <1>4

\* What a flush sends is true of the flushed endpoint.
LEMMA FlushOutFrom ==
    ASSUME NEW k, NEW r \in EndType, NEW n \in Nat, NEW c \in Nat, PairOK(k, r, n, c),
           NEW due, NEW elapsed
    PROVE  From(ikcp_flush(k), FlushOut(k, due, elapsed))
<1> DEFINE k1 == ikcp_flush(k)
           w == ikcp_wnd_unused(k)
           G == {t \in k.snd_buf : t.sn \in due} \cup Fresh(k)
<1>1. PairOK(k1, r, n, c) /\ Grows(k, k1)
  BY FlushOK
<1>2. k \in EndType /\ k1 \in EndType /\ Sending(k1, n)
  BY <1>1 DEF PairOK
<1>3. /\ k.rcv_nxt \in Nat /\ k1.rcv_nxt \in Nat /\ k1.snd_buf \in SUBSET Stored
      /\ Len(k.rcv_queue) \in Nat /\ rcv_wnd \in Nat /\ k.acklist \in SUBSET Nat
  BY <1>2, EndFields
<1>4. w \in Nat
  BY <1>3 DEF ikcp_wnd_unused
<1>5. CASE ~k.updated
  BY <1>5 DEF FlushOut, From
<1>6. CASE k.updated
  <2>1. G \in SUBSET k1.snd_buf
    <3>1. k1.snd_buf = k.snd_buf \cup Fresh(k)
      BY <1>2, <1>6 DEF ikcp_flush, EndType
    <3> QED  BY <3>1
  <2> SUFFICES ASSUME NEW m \in FlushOut(k, due, elapsed)
               PROVE  /\ m \in DatagramType
                      /\ m.una <= k1.rcv_nxt
                      /\ m.cmd = "ack" => Held(k1, m.sn)
                      /\ m.cmd = "push" => m.sn < k1.snd_nxt /\ m.data = m.sn + 1
    BY DEF From
  <2>2. \/ \E sn \in k.acklist : m = [Segment(k, "ack") EXCEPT !.sn = sn]
        \/ m = Segment(k, "wask") \/ m = Segment(k, "wins")
        \/ \E s \in G : m = Push(k, s)
    BY <1>6 DEF FlushOut
  <2> HIDE DEF k1, G, w
  <2>3. k.rcv_nxt <= k1.rcv_nxt
    BY <1>1 DEF Grows
  <2>4. CASE \E sn \in k.acklist : m = [Segment(k, "ack") EXCEPT !.sn = sn]
    <3>1. PICK sn \in k.acklist : m = [Segment(k, "ack") EXCEPT !.sn = sn]
      BY <2>4
    <3>2. m = [cmd |-> "ack", sn |-> sn, una |-> k.rcv_nxt, wnd |-> w]
      BY <3>1 DEF Segment, w
    <3>3. sn \in Nat /\ Held(k1, sn)
      BY <1>1, <1>3 DEF PairOK, Paired, Grows
    <3> QED  BY <1>3, <1>4, <2>3, <3>2, <3>3 DEF DatagramType
  <2>5. CASE m = Segment(k, "wask") \/ m = Segment(k, "wins")
    <3>1. \E d \in {"wask", "wins"} :
             m = [cmd |-> d, sn |-> 0, una |-> k.rcv_nxt, wnd |-> w]
      BY <2>5 DEF Segment, w
    <3> QED  BY <1>3, <1>4, <2>3, <3>1 DEF DatagramType
  <2>6. CASE \E s \in G : m = Push(k, s)
    <3>1. PICK s \in G : m = Push(k, s)
      BY <2>6
    <3>2. m = [cmd |-> "push", sn |-> s.sn, una |-> k.rcv_nxt, wnd |-> w,
               data |-> s.data]
      BY <3>1 DEF Push, w
    <3>3. s.sn \in Nat /\ s.data \in Nat
      BY <1>3, <2>1 DEF Stored
    <3>4. s.sn < k1.snd_nxt /\ s.data = s.sn + 1
      BY <1>2, <2>1 DEF Sending
    <3> QED  BY <1>3, <1>4, <2>3, <3>2, <3>3, <3>4 DEF DatagramType
  <2> QED  BY <2>2, <2>4, <2>5, <2>6
<1> QED  BY <1>5, <1>6

------------------------------------------------------------------------------
(* The link *)

\* The two ends.
LEMMA Peers ==
    ASSUME NEW e \in Ends
    PROVE  Peer(e) \in Ends /\ Peer(e) # e /\ Peer(Peer(e)) = e
           /\ \A d \in Ends : d = e \/ d = Peer(e)
  BY DEF Ends, Peer

\* What the invariant says of an end and of its peer.
LEMMA BothEnds ==
    ASSUME IndInv, NEW e \in Ends
    PROVE  /\ PairOK(kcp[e], kcp[Peer(e)], sent[e], Len(read[e]))
           /\ PairOK(kcp[Peer(e)], kcp[e], sent[Peer(e)], Len(read[Peer(e)]))
           /\ From(kcp[e], net[Peer(e)]) /\ From(kcp[Peer(e)], net[e])
           /\ kcp[e] \in EndType /\ kcp[Peer(e)] \in EndType
           /\ sent[e] \in Nat /\ sent[Peer(e)] \in Nat
           /\ read[e] \in Seq(Nat) /\ Len(read[e]) \in Nat
<1>1. Peer(e) \in Ends /\ Peer(Peer(e)) = e
  BY Peers
<1>2. EndOK(kcp[e], kcp[Peer(e)], sent[e], Len(read[e]), net[Peer(e)])
  BY DEF IndInv
<1>3. EndOK(kcp[Peer(e)], kcp[e], sent[Peer(e)], Len(read[Peer(e)]), net[e])
  BY <1>1 DEF IndInv
<1>4. sent[e] \in Nat /\ sent[Peer(e)] \in Nat /\ read[e] \in Seq(Nat)
  BY <1>1 DEF IndInv
<1>5. Len(read[e]) \in Nat
  BY <1>4
<1> QED  BY <1>2, <1>3, <1>4, <1>5 DEF EndOK, PairOK

\* A step of end e that leaves it as k2, with rest on its way to e and more on its
\* way to its peer.
LEMMA EndStep ==
    ASSUME IndInv, NEW e \in Ends, NEW k2, NEW rest, NEW out,
           NEW n \in Nat, NEW s \in Seq(Nat),
           PairOK(k2, kcp[Peer(e)], n, Len(s)), Grows(kcp[e], k2),
           rest \subseteq net[e], From(k2, out),
           s = [i \in 1 .. Len(s) |-> i],
           kcp' = [kcp EXCEPT ![e] = k2],
           net' = [net EXCEPT ![e] = rest, ![Peer(e)] = @ \cup out],
           sent' = [sent EXCEPT ![e] = n],
           read' = [read EXCEPT ![e] = s]
    PROVE  IndInv'
<1> DEFINE d == Peer(e)
<1>1. d \in Ends /\ d # e /\ Peer(d) = e /\ \A x \in Ends : x = e \/ x = d
  BY Peers
<1>2. /\ PairOK(kcp[d], kcp[e], sent[d], Len(read[d]))
      /\ From(kcp[e], net[d]) /\ From(kcp[d], net[e])
      /\ kcp[e] \in EndType /\ kcp[d] \in EndType
  BY BothEnds
<1>3. k2 \in EndType
  BY DEF PairOK
<1> HIDE DEF d
<1>4. /\ kcp \in [Ends -> EndType] /\ net \in [Ends -> SUBSET DatagramType]
      /\ sent \in [Ends -> Nat] /\ read \in [Ends -> Seq(Nat)]
      /\ read[d] = [i \in 1 .. Len(read[d]) |-> i]
  BY <1>1 DEF IndInv
<1>5. out \in SUBSET DatagramType
  BY DEF From
<1>6. /\ kcp' \in [Ends -> EndType] /\ kcp'[e] = k2 /\ kcp'[d] = kcp[d]
      /\ sent' \in [Ends -> Nat] /\ sent'[e] = n /\ sent'[d] = sent[d]
      /\ read' \in [Ends -> Seq(Nat)] /\ read'[e] = s /\ read'[d] = read[d]
  BY <1>1, <1>3, <1>4
<1>7. net' \in [Ends -> SUBSET DatagramType] /\ net'[e] = rest /\ net'[d] = net[d] \cup out
  BY <1>1, <1>4, <1>5 DEF d
<1>8. From(k2, net[d] \cup out)
  <2>1. From(k2, net[d])
    BY <1>2, <1>3, FromGrows
  <2> QED  BY <2>1 DEF From
<1>9. EndOK(k2, kcp[d], n, Len(s), net[d] \cup out)
  BY <1>8 DEF EndOK, PairOK, d
<1>10. EndOK(kcp[d], k2, sent[d], Len(read[d]), rest)
  <2>1. From(kcp[d], rest)
    BY <1>2 DEF From
  <2> QED  BY <1>2, <2>1 DEF EndOK, PairOK, d
<1>11. EndOK(kcp'[e], kcp'[d], sent'[e], Len(read'[e]), net'[d])
       /\ read'[e] = [i \in 1 .. Len(read'[e]) |-> i]
  BY <1>6, <1>7, <1>9
<1>12. EndOK(kcp'[d], kcp'[e], sent'[d], Len(read'[d]), net'[e])
       /\ read'[d] = [i \in 1 .. Len(read'[d]) |-> i]
  BY <1>4, <1>6, <1>7, <1>10
<1>13. \A x \in Ends : EndOK(kcp'[x], kcp'[Peer(x)], sent'[x], Len(read'[x]), net'[Peer(x)])
                       /\ read'[x] = [i \in 1 .. Len(read'[x]) |-> i]
  BY <1>1, <1>11, <1>12 DEF d
<1> QED  BY <1>6, <1>7, <1>13 DEF IndInv

\* The end of a critical section that made k of the endpoint, when n messages are
\* sent then.
LEMMA FlushStep ==
    ASSUME IndInv, NEW e \in Ends, NEW k, NEW rest, NEW n \in Nat,
           PairOK(k, kcp[Peer(e)], n, Len(read[e])), Grows(kcp[e], k),
           rest \subseteq net[e], Flush(e, k, rest),
           sent' = [sent EXCEPT ![e] = n], read' = read
    PROVE  IndInv'
<1>1. /\ kcp[e] \in EndType /\ kcp[Peer(e)] \in EndType
      /\ read[e] \in Seq(Nat) /\ Len(read[e]) \in Nat
  BY BothEnds
<1>2. PICK due \in SUBSET Sns(k.snd_buf), elapsed \in BOOLEAN :
         FlushDue(e, k, rest, due, elapsed)
  BY DEF Flush
<1> DEFINE k2 == ikcp_flush(k)
           out == FlushOut(k, due, elapsed)
<1>3. kcp' = [kcp EXCEPT ![e] = k2]
      /\ net' = [net EXCEPT ![e] = rest, ![Peer(e)] = @ \cup out]
  BY <1>2 DEF FlushDue
<1>4. PairOK(k2, kcp[Peer(e)], n, Len(read[e])) /\ Grows(k, k2)
  BY <1>1, FlushOK
<1>5. From(k2, out)
  BY <1>1, FlushOutFrom
<1> HIDE DEF k2, out
<1>6. k \in EndType /\ k2 \in EndType
  BY <1>4 DEF PairOK
<1>7. Grows(kcp[e], k2)
  BY <1>1, <1>4, <1>6, GrowsTrans
<1>8. read' = [read EXCEPT ![e] = read[e]] /\ read[e] = [i \in 1 .. Len(read[e]) |-> i]
  BY DEF IndInv
<1> QED  BY <1>1, <1>3, <1>4, <1>5, <1>7, <1>8, EndStep

\* The first state.
LEMMA InvInit == Init => IndInv
<1> SUFFICES ASSUME Init PROVE IndInv
  OBVIOUS
<1>1. kcp = [e \in Ends |-> ikcp_create] /\ net = [e \in Ends |-> {}]
      /\ sent = [e \in Ends |-> 0] /\ read = [e \in Ends |-> <<>>]
  BY DEF Init
<1> DEFINE k == ikcp_create
<1>2. IKCP_WND_RCV \in Nat /\ rcv_wnd \in Nat
  BY KcpAssumption
<1>3. k \in EndType
  BY <1>2 DEF ikcp_create, EndType
<1>4. /\ k.snd_queue = <<>> /\ k.rcv_queue = <<>> /\ k.snd_buf = {} /\ k.rcv_buf = {}
      /\ k.snd_nxt = 0 /\ k.rcv_nxt = 0 /\ k.acklist = {}
  BY DEF ikcp_create
<1> HIDE DEF k
<1>5. Len(<<>>) = 0 /\ <<>> \in Seq(Nat)
  OBVIOUS
<1>6. Sending(k, 0) /\ Receiving(k, 0)
  BY <1>2, <1>4, <1>5 DEF Sending, Receiving, Run
<1>7. Paired(k, k)
  BY <1>4 DEF Paired
<1>8. EndOK(k, k, 0, 0, {})
  BY <1>3, <1>6, <1>7 DEF EndOK, From
<1>9. ASSUME NEW e \in Ends
      PROVE  /\ EndOK(kcp[e], kcp[Peer(e)], sent[e], Len(read[e]), net[Peer(e)])
             /\ read[e] = [i \in 1 .. Len(read[e]) |-> i]
  <2>1. Peer(e) \in Ends
    BY Peers
  <2>2. kcp[e] = k /\ kcp[Peer(e)] = k /\ sent[e] = 0 /\ read[e] = <<>>
        /\ net[Peer(e)] = {}
    BY <1>1, <2>1 DEF k
  <2>3. <<>> = [i \in 1 .. 0 |-> i]
    OBVIOUS
  <2> QED  BY <1>5, <1>8, <2>2, <2>3
<1>10. kcp \in [Ends -> EndType] /\ net \in [Ends -> SUBSET DatagramType]
       /\ sent \in [Ends -> Nat] /\ read \in [Ends -> Seq(Nat)]
  BY <1>1, <1>3, <1>5 DEF k
<1> QED  BY <1>9, <1>10 DEF IndInv

\* Every step.
LEMMA InvNext == IndInv /\ [Next]_vars => IndInv'
<1> SUFFICES ASSUME IndInv, [Next]_vars PROVE IndInv'
  OBVIOUS
<1>1. ASSUME NEW e \in Ends, SendChunk(e) PROVE IndInv'
  <2> DEFINE k == ikcp_send(kcp[e], sent[e] + 1)
  <2>1. /\ PairOK(kcp[e], kcp[Peer(e)], sent[e], Len(read[e])) /\ kcp[Peer(e)] \in EndType
        /\ sent[e] \in Nat /\ Len(read[e]) \in Nat
    BY BothEnds
  <2>2. PairOK(k, kcp[Peer(e)], sent[e] + 1, Len(read[e])) /\ Grows(kcp[e], k)
    BY <2>1, SendOK
  <2>3. Flush(e, k, net[e]) /\ sent' = [sent EXCEPT ![e] = sent[e] + 1] /\ read' = read
    BY <1>1 DEF SendChunk
  <2>4. sent[e] + 1 \in Nat /\ net[e] \subseteq net[e]
    BY <2>1
  <2> HIDE DEF k
  <2> QED  BY <2>2, <2>3, <2>4, FlushStep
<1>2. ASSUME NEW e \in Ends, Update(e) PROVE IndInv'
  <2> DEFINE k == ikcp_update(kcp[e])
  <2>1. /\ PairOK(kcp[e], kcp[Peer(e)], sent[e], Len(read[e])) /\ kcp[Peer(e)] \in EndType
        /\ sent[e] \in Nat /\ Len(read[e]) \in Nat
    BY BothEnds
  <2>2. PairOK(k, kcp[Peer(e)], sent[e], Len(read[e])) /\ Grows(kcp[e], k)
    BY <2>1, UpdateOK
  <2>3. Flush(e, k, net[e]) /\ sent' = sent /\ read' = read
    BY <1>2 DEF Update
  <2>4. sent' = [sent EXCEPT ![e] = sent[e]] /\ net[e] \subseteq net[e]
    BY <2>3 DEF IndInv
  <2> HIDE DEF k
  <2> QED  BY <2>1, <2>2, <2>3, <2>4, FlushStep
<1>3. ASSUME NEW e \in Ends, NEW m \in net[e], Input(e, m) \/ InputAndRepeat(e, m)
      PROVE  IndInv'
  <2> DEFINE k == ikcp_input(kcp[e], m)
  <2>1. /\ PairOK(kcp[e], kcp[Peer(e)], sent[e], Len(read[e])) /\ kcp[Peer(e)] \in EndType
        /\ sent[e] \in Nat /\ Len(read[e]) \in Nat /\ From(kcp[Peer(e)], net[e])
    BY BothEnds
  <2>2. PairOK(k, kcp[Peer(e)], sent[e], Len(read[e])) /\ Grows(kcp[e], k)
    BY <2>1, InputOK
  <2>3. sent' = sent /\ read' = read
        /\ (Flush(e, k, net[e] \ {m}) \/ Flush(e, k, net[e]))
    BY <1>3 DEF Input, InputAndRepeat
  <2>4. sent' = [sent EXCEPT ![e] = sent[e]] /\ net[e] \subseteq net[e]
        /\ net[e] \ {m} \subseteq net[e]
    BY <2>3 DEF IndInv
  <2> HIDE DEF k
  <2>5. CASE Flush(e, k, net[e] \ {m})
    BY <2>1, <2>2, <2>3, <2>4, <2>5, FlushStep
  <2>6. CASE Flush(e, k, net[e])
    BY <2>1, <2>2, <2>3, <2>4, <2>6, FlushStep
  <2> QED  BY <2>3, <2>5, <2>6
<1>4. ASSUME NEW e \in Ends, Recv(e) PROVE IndInv'
  <2> DEFINE k2 == ikcp_recv(kcp[e])
             s == Append(read[e], Head(kcp[e].rcv_queue))
             c == Len(read[e])
  <2>1. /\ PairOK(kcp[e], kcp[Peer(e)], sent[e], c)
        /\ kcp[Peer(e)] \in EndType /\ kcp[e] \in EndType
        /\ sent[e] \in Nat /\ c \in Nat /\ read[e] \in Seq(Nat)
    BY BothEnds
  <2>2. Head(kcp[e].rcv_queue) = c + 1
        /\ PairOK(k2, kcp[Peer(e)], sent[e], c + 1) /\ Grows(kcp[e], k2)
    BY <1>4, <2>1, RecvOK DEF Recv
  <2>3. s \in Seq(Nat) /\ Len(s) = c + 1 /\ s = [i \in 1 .. Len(s) |-> i]
    <3>1. c + 1 \in Nat /\ s = Append(read[e], c + 1)
      BY <2>1, <2>2
    <3>2. /\ s \in Seq(Nat) /\ Len(s) = c + 1 /\ s[c + 1] = c + 1
          /\ \A i \in 1 .. c : s[i] = read[e][i]
      BY <2>1, <3>1, AppendProperties
    <3> HIDE DEF s
    <3>3. \A i \in 1 .. c : read[e][i] = i
      BY DEF IndInv
    <3> HIDE DEF c
    <3>4. \A i \in 1 .. c + 1 : s[i] = i
      BY <2>1, <3>2, <3>3
    <3>5. s = [i \in 1 .. Len(s) |-> s[i]]
      BY <3>2
    <3> QED  BY <3>2, <3>4, <3>5
  <2>4. /\ kcp' = [kcp EXCEPT ![e] = k2]
        /\ read' = [read EXCEPT ![e] = s]
        /\ sent' = [sent EXCEPT ![e] = sent[e]]
        /\ net' = [net EXCEPT ![e] = net[e], ![Peer(e)] = @ \cup {}]
    <3>1. /\ kcp' = [kcp EXCEPT ![e] = k2] /\ read' = [read EXCEPT ![e] = s]
          /\ sent' = sent /\ net' = net
      BY <1>4 DEF Recv
    <3>2. sent' = [sent EXCEPT ![e] = sent[e]]
      BY <3>1 DEF IndInv
    <3>3. net' = [net EXCEPT ![e] = net[e], ![Peer(e)] = @ \cup {}]
      <4>1. Peer(e) \in Ends /\ Peer(e) # e
        BY Peers
      <4> QED  BY <3>1, <4>1 DEF IndInv
    <3> QED  BY <3>1, <3>2, <3>3
  <2>5. From(k2, {}) /\ net[e] \subseteq net[e]
    BY DEF From
  <2> HIDE DEF k2, s
  <2>6. PairOK(k2, kcp[Peer(e)], sent[e], Len(s))
    BY <2>2, <2>3
  <2> QED  BY <2>1, <2>2, <2>3, <2>4, <2>5, <2>6, EndStep
<1>5. ASSUME NEW e \in Ends, NEW m \in net[e], Lose(e, m) PROVE IndInv'
  <2>1. /\ PairOK(kcp[e], kcp[Peer(e)], sent[e], Len(read[e])) /\ kcp[e] \in EndType
        /\ sent[e] \in Nat /\ read[e] \in Seq(Nat)
    BY BothEnds
  <2>2. kcp[e].rcv_nxt \in Nat /\ kcp[e].snd_nxt \in Nat
    BY <2>1, EndFields
  <2>3. Grows(kcp[e], kcp[e]) /\ From(kcp[e], {})
    BY <2>2 DEF Grows, From
  <2>4. /\ kcp' = [kcp EXCEPT ![e] = kcp[e]]
        /\ read' = [read EXCEPT ![e] = read[e]]
        /\ sent' = [sent EXCEPT ![e] = sent[e]]
        /\ net' = [net EXCEPT ![e] = net[e] \ {m}, ![Peer(e)] = @ \cup {}]
    <3>1. /\ kcp' = kcp /\ read' = read /\ sent' = sent
          /\ net' = [net EXCEPT ![e] = net[e] \ {m}]
      BY <1>5 DEF Lose
    <3>2. /\ kcp' = [kcp EXCEPT ![e] = kcp[e]]
          /\ read' = [read EXCEPT ![e] = read[e]]
          /\ sent' = [sent EXCEPT ![e] = sent[e]]
      BY <3>1 DEF IndInv
    <3>3. net' = [net EXCEPT ![e] = net[e] \ {m}, ![Peer(e)] = @ \cup {}]
      <4>1. Peer(e) \in Ends /\ Peer(e) # e
        BY Peers
      <4> QED  BY <3>1, <4>1 DEF IndInv
    <3> QED  BY <3>2, <3>3
  <2>5. read[e] = [i \in 1 .. Len(read[e]) |-> i] /\ net[e] \ {m} \subseteq net[e]
    BY DEF IndInv
  <2> QED  BY <2>1, <2>3, <2>4, <2>5, EndStep
<1>6. CASE UNCHANGED vars
  BY <1>6 DEF vars, IndInv
<1> QED  BY <1>1, <1>2, <1>3, <1>4, <1>5, <1>6 DEF Next

------------------------------------------------------------------------------
(* The theorems *)

\* The inductive invariant of the link.
THEOREM KcpInvariance == Spec => []IndInv
  BY InvInit, InvNext, PTL DEF Spec

\* A set of segments with different numbers below x + w, and none below x, has at
\* most w members.
LEMMA BufferBound ==
    ASSUME NEW x \in Nat, NEW w \in Nat, NEW b \in SUBSET Stored,
           \A s \in b : s.sn >= x /\ s.sn < x + w /\ s.data = s.sn + 1
    PROVE  Cardinality(b) <= w
<1> DEFINE T == x .. x + w - 1
           f == [s \in b |-> s.sn]
<1>1. IsFiniteSet(T) /\ Cardinality(T) = w
  <2>1. IsFiniteSet(T) /\ Cardinality(T) = IF x > x + w - 1 THEN 0 ELSE (x + w - 1) - x + 1
    BY FS_Interval
  <2> QED  BY <2>1
<1>2. \A s \in b : s.sn \in T /\ s = [sn |-> s.sn, data |-> s.sn + 1]
  BY DEF Stored
<1> HIDE DEF T
<1>3. f \in [b -> T]
  BY <1>2
<1>4. \A s \in b, t \in b : f[s] = f[t] => s = t
  BY <1>2
<1>5. f \in Injection(b, T)
  BY <1>3, <1>4 DEF Injection, IsInjective
<1>6. Cardinality(b) <= Cardinality(T)
  BY <1>1, <1>5, FS_Injection
<1> QED  BY <1>1, <1>6

\* No peer, however old the window it works with, fills rcv_queue or rcv_buf beyond
\* the window: the bounds in ikcp_parse_data and in the loop that moves data.
THEOREM WindowHolds == Spec => []WindowBounded
<1>1. IndInv => WindowBounded
  <2> SUFFICES ASSUME IndInv, NEW e \in Ends
               PROVE  /\ Len(kcp[e].rcv_queue) <= rcv_wnd
                      /\ Cardinality(kcp[e].rcv_buf) <= rcv_wnd
    BY DEF WindowBounded
  <2>1. kcp[e] \in EndType /\ Receiving(kcp[e], Len(read[e]))
    BY BothEnds DEF PairOK
  <2>2. kcp[e].rcv_nxt \in Nat /\ kcp[e].rcv_buf \in SUBSET Stored /\ rcv_wnd \in Nat
    BY <2>1, EndFields
  <2>3. Len(kcp[e].rcv_queue) <= rcv_wnd
        /\ \A s \in kcp[e].rcv_buf :
              /\ s.sn >= kcp[e].rcv_nxt /\ s.sn < kcp[e].rcv_nxt + rcv_wnd
              /\ s.data = s.sn + 1
    BY <2>1 DEF Receiving
  <2> QED  BY <2>2, <2>3, BufferBound
<1> QED  BY <1>1, KcpInvariance, PTL

\* A segment leaves snd_buf only when the peer holds it: ikcp_parse_ack and
\* ikcp_parse_una act on what was true when the datagram was sent, and that
\* stays true.
THEOREM NothingForgotten == Spec => []AckedIsHeld
<1>1. IndInv => AckedIsHeld
  <2> SUFFICES ASSUME IndInv, NEW e \in Ends, NEW sn \in 0 .. kcp[e].snd_nxt - 1
               PROVE  \/ sn \in Sns(kcp[e].snd_buf)
                      \/ sn \in Sns(kcp[Peer(e)].rcv_buf)
                      \/ sn < kcp[Peer(e)].rcv_nxt
    BY DEF AckedIsHeld
  <2>1. Paired(kcp[e], kcp[Peer(e)])
    BY BothEnds DEF PairOK
  <2> QED  BY <2>1 DEF Paired, Held
<1> QED  BY <1>1, KcpInvariance, PTL

\* What each step does to the stream from a to b: a message is sent, the next one
\* is read, or nothing.
LEMMA StreamStep ==
    ASSUME IndInv, [Next]_vars
    PROVE  \/ /\ sent["a"] < MaxSend["a"] /\ sent'["a"] = sent["a"] + 1
              /\ read'["b"] = read["b"]
           \/ /\ Len(read["b"]) < sent["a"]
              /\ read'["b"] = Append(read["b"], Len(read["b"]) + 1)
              /\ sent'["a"] = sent["a"]
           \/ sent'["a"] = sent["a"] /\ read'["b"] = read["b"]
<1>0. "a" \in Ends /\ "b" \in Ends /\ Peer("b") = "a"
      /\ sent \in [Ends -> Nat] /\ read \in [Ends -> Seq(Nat)]
  BY DEF IndInv, Ends, Peer
<1>1. ASSUME NEW e \in Ends, SendChunk(e)
      PROVE  /\ read' = read
             /\ \/ sent["a"] < MaxSend["a"] /\ sent'["a"] = sent["a"] + 1
                \/ sent'["a"] = sent["a"]
  BY <1>0, <1>1 DEF SendChunk
<1>2. ASSUME NEW e \in Ends, Recv(e)
      PROVE  /\ sent' = sent
             /\ \/ read'["b"] = read["b"]
                \/ /\ Len(read["b"]) < sent["a"]
                   /\ read'["b"] = Append(read["b"], Len(read["b"]) + 1)
  <2> DEFINE k == kcp["b"]
             a == kcp["a"]
             c == Len(read["b"])
  <2>1. sent' = sent /\ read' = [read EXCEPT ![e] = Append(@, Head(kcp[e].rcv_queue))]
        /\ kcp[e].rcv_queue # <<>>
    BY <1>2 DEF Recv
  <2>2. CASE e # "b"
    BY <1>0, <2>1, <2>2
  <2>3. CASE e = "b"
    <3>1. /\ PairOK(k, a, sent["b"], c) /\ PairOK(a, k, sent["a"], Len(read["a"]))
          /\ k \in EndType /\ a \in EndType /\ sent["a"] \in Nat /\ sent["b"] \in Nat
          /\ c \in Nat
      BY <1>0, BothEnds
    <3>2. k.rcv_queue # <<>>
      BY <2>1, <2>3
    <3>3. Head(k.rcv_queue) = c + 1
      BY <3>1, <3>2, RecvOK
    <3>4. read'["b"] = Append(read["b"], c + 1)
      BY <1>0, <2>1, <2>3, <3>3
    <3>5. /\ k.rcv_nxt \in Nat /\ a.snd_nxt \in Nat /\ Len(a.snd_queue) \in Nat
          /\ Len(k.rcv_queue) \in Nat
      BY <3>1, EndFields
    <3>6. Len(k.rcv_queue) > 0
      <4>1. k.rcv_queue \in Seq(Nat)
        BY <3>1, EndFields
      <4> QED  BY <3>2, <3>5, <4>1, EmptySeq
    <3>7. k.rcv_nxt = c + Len(k.rcv_queue)
      BY <3>1 DEF PairOK, Receiving
    <3>8. k.rcv_nxt <= a.snd_nxt /\ sent["a"] = a.snd_nxt + Len(a.snd_queue)
      BY <3>1 DEF PairOK, Paired, Sending
    <3> HIDE DEF k, a, c
    <3>9. c < sent["a"]
      BY <3>1, <3>5, <3>6, <3>7, <3>8
    <3> QED  BY <2>1, <3>4, <3>9 DEF c
  <2> QED  BY <2>2, <2>3
<1>3. ASSUME NEW e \in Ends,
             Update(e) \/ \E m \in net[e] : Input(e, m) \/ InputAndRepeat(e, m) \/ Lose(e, m)
      PROVE  sent' = sent /\ read' = read
  BY <1>3 DEF Update, Input, InputAndRepeat, Lose
<1>4. CASE UNCHANGED vars
  BY <1>4 DEF vars
<1> QED  BY <1>1, <1>2, <1>3, <1>4 DEF Next

\* Over a network that loses, repeats and reorders datagrams, KCP implements a
\* stream from which every message is read once, in the order of sending.
THEOREM StreamRefinement == Spec => ImplementsStream
<1>1. Init => Stream!Init
  BY DEF Init, Stream!Init, Ends
<1>2. IndInv /\ [Next]_vars => [Stream!Next]_(Stream!vars)
  <2> SUFFICES ASSUME IndInv, [Next]_vars
               PROVE  Stream!Next \/ UNCHANGED Stream!vars
    OBVIOUS
  <2> QED
    BY StreamStep DEF Stream!Next, Stream!Send, Stream!Read, Stream!vars
<1> QED
  BY <1>1, <1>2, KcpInvariance, PTL DEF Spec, ImplementsStream, Stream!Spec
=============================================================================
