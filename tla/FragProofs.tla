----------------------------- MODULE FragProofs -----------------------------
(***************************************************************************)
(* The pieces of WriteFirst carry the payload and hide the server name,    *)
(* for every input of a length that readFirstRecord can return, and        *)
(* sniSplitOffset finds the middle of the name of every ClientHello.  The  *)
(* walk over the extensions is a recursive function, which is reasoned     *)
(* about by the least-number principle: it exists (Recursion), it stays in *)
(* the block (WalkBounds), and it reaches the first server name extension  *)
(* that is whole (WalkOfHello).                                            *)
(***************************************************************************)
EXTENDS Frag, SequenceTheorems, NaturalsInduction, WellFoundedInduction, TLAPS

(* The length field of a record: two bytes hold what it counts.            *)
LEMMA Length16 ==
  ASSUME NEW n \in Nat, n < 65536
  PROVE  /\ 256 * ((n \div 256) % 256) + (n % 256) = n
         /\ (n \div 256) % 256 \in 0 .. 255 /\ n % 256 \in 0 .. 255
OBVIOUS

(* The two slices of a cut are not empty and join.                         *)
LEMMA Slices ==
  ASSUME NEW S, NEW b \in Seq(S), NEW n \in 1 .. Len(b) - 1
  PROVE  /\ Upto(b, n) \in Seq(S) /\ Len(Upto(b, n)) = n
         /\ From(b, n) \in Seq(S) /\ Len(From(b, n)) = Len(b) - n
         /\ Upto(b, n) \o From(b, n) = b
BY DEF Upto, From

(* Whatever the offset is, Cut gives the whole or two slices.              *)
LEMMA CutSlices ==
  ASSUME NEW b, NEW n
  PROVE  \/ Cut(b, n) = <<b>>
         \/ /\ n \in 1 .. Len(b) - 1
            /\ Cut(b, n) = <<Upto(b, n), From(b, n)>>
BY DEF Cut

(* A record that makeRecord puts together has the version of the one it    *)
(* comes from, the length of its payload, and the payload.                 *)
LEMMA RecordOfPayload ==
  ASSUME NEW b \in Seq(Byte), Len(b) >= 5, At(b, 0) = 22,
         NEW p \in Seq(Byte), Len(p) > 0, Len(p) < 65536,
         NEW r, r = MakeRecord(b, p)
  PROVE  /\ Len(r) > RecordHeader
         /\ SubSeq(r, 1, 3) = SubSeq(b, 1, 3)
         /\ Word(r, 3) = Len(r) - RecordHeader
         /\ From(r, RecordHeader) = p
<1> DEFINE u == (Len(p) \div 256) % 256
           v == Len(p) % 256
<1>0. Len(p) \in Nat
  OBVIOUS
<1>1. 256 * u + v = Len(p)
  BY <1>0, Length16
<1>2. b[1] = 22 /\ b[1] \in Byte /\ b[2] \in Byte /\ b[3] \in Byte
  BY DEF At
<1>3. u \in Byte /\ v \in Byte
  <2>1. u \in 0 .. 255 /\ v \in 0 .. 255
    <3> DEFINE L == Len(p)
    <3>1. L \in Nat
      BY <1>0
    <3> HIDE DEF L
    <3>2. (L \div 256) % 256 \in 0 .. 255 /\ L % 256 \in 0 .. 255
      BY <3>1
    <3> QED
      BY <3>2 DEF L
  <2> QED
    BY <2>1 DEF Byte
<1> HIDE DEF u, v
<1>4. r = <<22, b[2], b[3], u, v>> \o p
  BY DEF MakeRecord, At, u, v
<1>5. 22 \in Byte
  BY <1>2
<1>6. Len(r) = Len(p) + 5 /\ r[4] = u /\ r[5] = v
  BY <1>2, <1>3, <1>4, <1>5
<1>7. SubSeq(r, 1, 3) = SubSeq(b, 1, 3)
  <2>1. r \in Seq(Byte) /\ r[1] = 22 /\ r[2] = b[2] /\ r[3] = b[3]
    BY <1>2, <1>3, <1>4, <1>5
  <2>2. /\ SubSeq(r, 1, 3) \in Seq(Byte) /\ Len(SubSeq(r, 1, 3)) = 3
        /\ \A i \in 1 .. 3 : SubSeq(r, 1, 3)[i] = r[i]
    BY <2>1, <1>0, <1>6
  <2>3. /\ SubSeq(b, 1, 3) \in Seq(Byte) /\ Len(SubSeq(b, 1, 3)) = 3
        /\ \A i \in 1 .. 3 : SubSeq(b, 1, 3)[i] = b[i]
    OBVIOUS
  <2>4. \A i \in 1 .. 3 : r[i] = b[i]
    BY <2>1, <1>2
  <2> QED
    BY <2>2, <2>3, <2>4, SeqEqual
<1>8. From(r, RecordHeader) = p
  BY <1>2, <1>3, <1>4, <1>5 DEF From, RecordHeader
<1> QED
  BY <1>0, <1>1, <1>6, <1>7, <1>8 DEF Word, At, RecordHeader

-----------------------------------------------------------------------------
(* Induction.  A set of naturals that is not empty has a least element,    *)
(* and a function whose equation refers only to larger arguments, up to a  *)
(* bound, exists.                                                          *)
LEMMA Least ==
  ASSUME NEW T, T \subseteq Nat, T # {}
  PROVE  \E n \in T : \A m \in T : n <= m
<1> DEFINE R == OpToRel(<, Nat)
<1>1. IsWellFoundedOn(R, Nat)
  BY NatLessThanWellFounded
<1>2. \A x, y \in Nat : y < x => <<y, x>> \in R
  BY DEF OpToRel
<1> HIDE DEF R
<1>3. \E x \in T : \A y \in T : ~(<<y, x>> \in R)
  BY ONLY <1>1, T \subseteq Nat, T # {}, WFMin
<1>4. PICK x \in T : \A y \in T : ~(<<y, x>> \in R)
  BY ONLY <1>3
<1>5. ASSUME NEW m \in T PROVE x <= m
  <2>1. m \in Nat /\ x \in Nat
    OBVIOUS
  <2>2. ~(m < x)
    BY <1>2, <1>4, <2>1
  <2> QED
    BY <2>1, <2>2
<1> QED
  BY <1>5

Solves(w, L, stop, val, next) ==
  w = [off \in 0 .. L |-> IF off \in stop THEN val[off] ELSE w[next[off]]]

LEMMA Recursion ==
  ASSUME NEW L \in Nat, NEW stop, NEW val, NEW next,
         \A off \in 0 .. L : off \notin stop => next[off] \in off + 1 .. L
  PROVE  \E w : Solves(w, L, stop, val, next)
<1> DEFINE Good(w, k) == \A off \in 0 .. L : off >= L + 1 - k =>
              w[off] = IF off \in stop THEN val[off] ELSE w[next[off]]
           T == {k \in 0 .. L + 1 : ~\E w : Good(w, k)}
<1>1. T = {}
  <2> SUFFICES ASSUME T # {} PROVE FALSE
    OBVIOUS
  <2>1. PICK k \in T : \A m \in T : k <= m
    <3>1. T \subseteq Nat
      OBVIOUS
    <3> HIDE DEF T
    <3> QED
      BY <3>1, Least
  <2>2. k # 0
    <3>1. Good(<< >>, 0)
      OBVIOUS
    <3> QED
      BY <3>1, <2>1
  <2>3. k \in 1 .. L + 1
    BY <2>2
  <2>4. PICK w : Good(w, k - 1)
    <3>1. k - 1 \notin T
      <4> HIDE DEF T
      <4> QED
        BY <2>1, <2>3
    <3> QED
      BY <3>1, <2>3
  <2> DEFINE n == L + 1 - k
             v == [off \in 0 .. L |->
                     IF off = n
                     THEN IF n \in stop THEN val[n] ELSE w[next[n]]
                     ELSE w[off]]
  <2>5. n \in 0 .. L
    BY <2>3
  <2>6. ASSUME NEW off \in 0 .. L, off >= n
        PROVE  v[off] = IF off \in stop THEN val[off] ELSE v[next[off]]
    <3>1. off \notin stop => v[next[off]] = w[next[off]]
      <4> SUFFICES ASSUME off \notin stop PROVE v[next[off]] = w[next[off]]
        OBVIOUS
      <4>1. PICK x : x = next[off] /\ x \in off + 1 .. L
        OBVIOUS
      <4>2. x \in 0 .. L /\ x # n
        <5> HIDE DEF n
        <5> QED
          BY ONLY <2>5, <2>6, <4>1
      <4>3. v[x] = w[x]
        <5> HIDE DEF n
        <5> QED
          BY ONLY <4>2 DEF v
      <4> QED
        BY <4>1, <4>3
    <3>2. CASE off = n
      BY <3>1, <3>2
    <3>3. CASE off # n
      <4>1. off >= L + 1 - (k - 1)
        BY <2>3, <2>6, <3>3
      <4>2. w[off] = IF off \in stop THEN val[off] ELSE w[next[off]]
        BY <2>4, <4>1
      <4>3. v[off] = w[off]
        BY <3>3
      <4> QED
        BY <3>1, <4>2, <4>3
    <3> QED
      BY <3>2, <3>3
  <2>7. Good(v, k)
    <3> HIDE DEF v
    <3> QED
      BY <2>6
  <2> HIDE DEF Good
  <2> QED
    BY <2>1, <2>7
<1>2. L + 1 \notin T /\ L + 1 \in 0 .. L + 1
  <2> HIDE DEF T
  <2> QED
    BY <1>1
<1>3. PICK w : Good(w, L + 1)
  BY <1>2
<1>4. \A off \in 0 .. L : w[off] = IF off \in stop THEN val[off] ELSE w[next[off]]
  BY <1>3
<1> DEFINE v == [off \in 0 .. L |-> w[off]]
<1>5. ASSUME NEW off \in 0 .. L
      PROVE  v[off] = IF off \in stop THEN val[off] ELSE v[next[off]]
  BY <1>4
<1>6. v = [off \in 0 .. L |-> v[off]]
  OBVIOUS
<1> HIDE DEF v
<1>7. v = [off \in 0 .. L |-> IF off \in stop THEN val[off] ELSE v[next[off]]]
  BY <1>5, <1>6
<1> QED
  BY <1>7 DEF Solves

-----------------------------------------------------------------------------
(* The parser. *)

LEMMA WordRange ==
  ASSUME NEW b \in Seq(Byte), NEW i \in Nat, i + 1 < Len(b)
  PROVE  Word(b, i) \in Nat /\ Word(b, i) < 65536
<1>1. PICK x \in Byte, y \in Byte : b[i + 1] = x /\ b[i + 2] = y
  OBVIOUS
<1>2. Word(b, i) = 256 * x + y
  BY <1>1 DEF Word, At
<1>3. 256 * x + y \in Nat /\ 256 * x + y < 65536
  BY DEF Byte
<1> QED
  BY <1>2, <1>3

(* Where the name is cut in two is after its first byte and inside it.     *)
LEMMA InNameRange ==
  ASSUME NEW sn \in Seq(Byte)
  PROVE  InName(sn) = 0 \/ InName(sn) \in 5 .. Len(sn) - 1
<1>1. CASE Len(sn) < 5
  BY <1>1 DEF InName
<1>2. CASE Len(sn) >= 5
  <2> DEFINE n == Word(sn, 3)
  <2>1. n \in Nat
    BY <1>2, WordRange
  <2>2. InName(sn) = IF Len(sn) < 5 \/ 5 + n > Len(sn) \/ n = 0 THEN 0
                     ELSE 5 + n \div 2
    BY DEF InName
  <2> HIDE DEF n
  <2>3. n # 0 => n \div 2 \in Nat /\ n \div 2 < n
    BY <2>1
  <2> QED
    BY <1>2, <2>1, <2>2, <2>3
<1> QED
  BY <1>1, <1>2

(* One turn of the walk over the extensions.                               *)
Next4(p, off) == off + 4 + Word(p, off + 2)
Ends(p, off) == off + 4 > Len(p) \/ Next4(p, off) > Len(p) \/ Word(p, off) = 0
Outcome(p, base, off) ==
  IF off + 4 > Len(p) \/ Next4(p, off) > Len(p) THEN 0
  ELSE LET n == InName(SubSeq(p, off + 4 + 1, Next4(p, off)))
       IN  IF n = 0 THEN 0 ELSE base + (off + 4) + n

(* The recursive function of WalkExtensions has the equation it is defined *)
(* by.                                                                     *)
LEMMA WalkEquation ==
  ASSUME NEW p \in Seq(Byte), NEW base
  PROVE  \E w :
           /\ WalkExtensions(p, base) = w[0]
           /\ \A off \in 0 .. Len(p) :
                w[off] = IF Ends(p, off) THEN Outcome(p, base, off)
                         ELSE w[Next4(p, off)]
<1> DEFINE Turn(w, off) ==
             IF off + 4 > Len(p) THEN 0
             ELSE LET body == off + 4
                      next == body + Word(p, off + 2)
                  IN  IF next > Len(p) THEN 0
                      ELSE IF Word(p, off) = 0
                      THEN LET n == InName(SubSeq(p, body + 1, next))
                           IN  IF n = 0 THEN 0 ELSE base + body + n
                      ELSE w[next]
           F(w) == [off \in 0 .. Len(p) |-> Turn(w, off)]
           walk == CHOOSE w : w = F(w)
<1>1. \A w, off : Turn(w, off) = IF Ends(p, off) THEN Outcome(p, base, off)
                                 ELSE w[Next4(p, off)]
  BY DEF Ends, Outcome, Next4
<1>2. WalkExtensions(p, base) = walk[0]
  BY DEF WalkExtensions
<1>3. \E w : w = F(w)
  <2> DEFINE L == Len(p)
             stop == {off \in 0 .. L : Ends(p, off)}
             val == [off \in 0 .. L |-> Outcome(p, base, off)]
             next == [off \in 0 .. L |-> Next4(p, off)]
  <2>1. \A off \in 0 .. L : off \notin stop => next[off] \in off + 1 .. L
    <3> SUFFICES ASSUME NEW off \in 0 .. L, ~Ends(p, off)
                 PROVE  Next4(p, off) \in off + 1 .. L
      OBVIOUS
    <3>1. Word(p, off + 2) \in Nat
      BY WordRange DEF Ends
    <3> QED
      BY <3>1 DEF Ends, Next4
  <2>2. L \in Nat
    OBVIOUS
  <2>3. \E w : Solves(w, L, stop, val, next)
    <3> HIDE DEF L, stop, val, next
    <3> QED
      BY ONLY <2>1, <2>2, Recursion
  <2>4. PICK w : w = [off \in 0 .. L |-> IF off \in stop THEN val[off] ELSE w[next[off]]]
    BY <2>3 DEF Solves
  <2>5. \A off \in 0 .. L : (IF off \in stop THEN val[off] ELSE w[next[off]]) = Turn(w, off)
    <3> HIDE DEF Turn
    <3> QED
      BY <1>1
  <2> HIDE DEF Turn, stop, val, next
  <2> QED
    BY <2>4, <2>5
<1>4. walk = F(walk)
  <2> HIDE DEF F
  <2> QED
    BY <1>3
<1> HIDE DEF walk, Turn
<1>5. \A off \in 0 .. Len(p) : walk[off] = Turn(walk, off)
  BY <1>4
<1> QED
  BY <1>1, <1>2, <1>5

LEMMA NextRange ==
  ASSUME NEW p \in Seq(Byte), NEW off \in Nat, off + 4 <= Len(p)
  PROVE  Next4(p, off) \in Nat /\ Next4(p, off) >= off + 4
<1>1. Word(p, off + 2) \in Nat
  BY WordRange
<1> QED
  BY <1>1 DEF Next4

(* A turn that ends the walk gives an offset into p, or nothing.           *)
LEMMA OutcomeRange ==
  ASSUME NEW p \in Seq(Byte), NEW base \in Nat, NEW off \in Nat
  PROVE  \/ Outcome(p, base, off) = 0
         \/ Outcome(p, base, off) \in base .. base + Len(p) - 1
<1>1. CASE off + 4 > Len(p) \/ Next4(p, off) > Len(p)
  BY <1>1 DEF Outcome
<1>2. CASE off + 4 <= Len(p) /\ ~(Next4(p, off) > Len(p))
  <2> DEFINE next == Next4(p, off)
             sn == SubSeq(p, off + 4 + 1, next)
             n == InName(sn)
  <2>1. next \in Nat /\ next >= off + 4 /\ next <= Len(p)
    BY <1>2, NextRange
  <2>2. Outcome(p, base, off) = IF n = 0 THEN 0 ELSE base + (off + 4) + n
    BY <1>2 DEF Outcome
  <2> HIDE DEF next
  <2>3. sn \in Seq(Byte) /\ Len(sn) = next - (off + 4)
    BY <1>2, <2>1
  <2> HIDE DEF sn
  <2>4. n = 0 \/ n \in 5 .. Len(sn) - 1
    BY <2>3, InNameRange
  <2> HIDE DEF n
  <2> QED
    BY <2>1, <2>2, <2>3, <2>4
<1> QED
  BY <1>1, <1>2

LEMMA WalkBounds ==
  ASSUME NEW p \in Seq(Byte), NEW base \in Nat
  PROVE  \/ WalkExtensions(p, base) = 0
         \/ WalkExtensions(p, base) \in base .. base + Len(p) - 1
<1> DEFINE L == Len(p)
<1>1. PICK w : /\ WalkExtensions(p, base) = w[0]
               /\ \A off \in 0 .. L :
                    w[off] = IF Ends(p, off) THEN Outcome(p, base, off)
                             ELSE w[Next4(p, off)]
  BY WalkEquation
<1> DEFINE Good(off) == w[off] = 0 \/ w[off] \in base .. base + L - 1
           T == {k \in 0 .. L : ~Good(L - k)}
<1>2. L \in Nat
  OBVIOUS
<1>3. T = {}
  <2> SUFFICES ASSUME T # {} PROVE FALSE
    OBVIOUS
  <2>1. PICK k \in T : \A m \in T : k <= m
    <3>1. T \subseteq Nat
      OBVIOUS
    <3> HIDE DEF T
    <3> QED
      BY <3>1, Least
  <2> DEFINE off == L - k
  <2>2. off \in 0 .. L /\ ~Good(off)
    BY <1>2, <2>1
  <2>3. ~Ends(p, off)
    <3> SUFFICES ASSUME Ends(p, off) PROVE Good(off)
      BY <2>2
    <3>1. w[off] = Outcome(p, base, off)
      BY <1>1, <2>2
    <3> HIDE DEF off
    <3> QED
      BY <2>2, <3>1, OutcomeRange
  <2> DEFINE next == Next4(p, off)
  <2>4. next \in off + 1 .. L
    <3>1. off + 4 <= L /\ ~(next > L)
      BY <1>2, <2>2, <2>3 DEF Ends
    <3>2. off \in Nat
      BY <2>2
    <3> HIDE DEF off
    <3> QED
      BY <1>2, <3>1, <3>2, NextRange
  <2>5. w[off] = w[next]
    BY <1>1, <2>2, <2>3
  <2> HIDE DEF next
  <2>6. L - next \in T
    <3>1. ~Good(next)
      BY <2>2, <2>5
    <3>2. L - next \in 0 .. L /\ L - (L - next) = next
      BY <1>2, <2>2, <2>4
    <3> QED
      BY <3>1, <3>2
  <2>7. L - next < k
    BY <1>2, <2>1, <2>2, <2>4
  <2>8. k <= L - next
    <3> HIDE DEF T
    <3> QED
      BY <2>1, <2>6
  <2> QED
    BY <1>2, <2>1, <2>4, <2>7, <2>8
<1>4. Good(0)
  <2>1. L \in 0 .. L /\ L - L = 0 /\ L \notin T
    <3> HIDE DEF T
    <3> QED
      BY <1>2, <1>3
  <2> QED
    BY <2>1
<1> QED
  BY <1>1, <1>4

(* Skipping a vector goes forward, and past the end when it does not fit.  *)
LEMMA SkipRange ==
  ASSUME NEW b \in Seq(Byte), NEW i \in Nat
  PROVE  /\ SkipVec8(b, i) \in Nat /\ SkipVec16(b, i) \in Nat
         /\ SkipVec8(b, i) > i \/ SkipVec8(b, i) > Len(b)
         /\ SkipVec16(b, i) > i \/ SkipVec16(b, i) > Len(b)
<1>1. SkipVec8(b, i) \in Nat /\ (SkipVec8(b, i) > i \/ SkipVec8(b, i) > Len(b))
  <2>1. i + 1 <= Len(b) => b[i + 1] \in Nat
    <3>1. i + 1 <= Len(b) => b[i + 1] \in Byte
      OBVIOUS
    <3>2. \A x \in Byte : x \in Nat
      BY DEF Byte
    <3> QED
      BY <3>1, <3>2
  <2> QED
    BY <2>1 DEF SkipVec8, At
<1>2. SkipVec16(b, i) \in Nat /\ (SkipVec16(b, i) > i \/ SkipVec16(b, i) > Len(b))
  <2>1. i + 2 <= Len(b) => Word(b, i) \in Nat
    BY WordRange
  <2> QED
    BY <2>1 DEF SkipVec16
<1> QED
  BY <1>1, <1>2

LEMMA CappedRange ==
  ASSUME NEW b \in Seq(Byte), NEW n \in Nat
  PROVE  Capped(b, n) \in Seq(Byte) /\ Len(Capped(b, n)) <= Len(b)
BY DEF Capped, Upto

LEMMA FromRange ==
  ASSUME NEW b \in Seq(Byte), NEW n \in Nat, n <= Len(b)
  PROVE  From(b, n) \in Seq(Byte) /\ Len(From(b, n)) = Len(b) - n
BY DEF From

(* sniSplitOffset, of any bytes.                                           *)
LEMMA OffsetRange ==
  ASSUME NEW b \in Seq(Byte)
  PROVE  SniSplitOffset(b) \in {0} \cup (43 .. Len(b) - 1)
<1> DEFINE rec == Capped(From(b, RecordHeader), Word(b, 3))
           sid == HandshakeHeader + Fixed
           ext == SkipVec8(rec, SkipVec16(rec, SkipVec8(rec, sid)))
           none == \/ Len(b) < RecordHeader \/ At(b, 0) # 22
                   \/ Len(rec) < sid \/ At(rec, 0) # 1
                   \/ ext + 2 > Len(rec)
           p == Capped(From(rec, ext + 2), Word(rec, ext))
<1>1. SniSplitOffset(b) = IF none THEN 0
                          ELSE WalkExtensions(p, RecordHeader + ext + 2)
  BY DEF SniSplitOffset
<1>2. CASE none
  <2> HIDE DEF none
  <2> QED
    BY <1>1, <1>2
<1>3. CASE ~none
  <2>1. Len(b) >= 5 /\ sid = 38 /\ RecordHeader = 5
    BY <1>3 DEF RecordHeader, HandshakeHeader, Fixed
  <2>2. Word(b, 3) \in Nat
    BY <2>1, WordRange
  <2>3. rec \in Seq(Byte) /\ Len(rec) <= Len(b) - 5
    <3>1. From(b, 5) \in Seq(Byte) /\ Len(From(b, 5)) = Len(b) - 5
      BY <2>1, FromRange
    <3> QED
      BY <2>1, <2>2, <3>1, CappedRange
  <2>4. ext + 2 <= Len(rec) /\ ext \in Nat /\ ext > 38
    <3> DEFINE e1 == SkipVec8(rec, sid)
               e2 == SkipVec16(rec, e1)
    <3>1. ext = SkipVec8(rec, e2)
      OBVIOUS
    <3>2. ~(ext + 2 > Len(rec))
      BY <1>3
    <3> HIDE DEF rec
    <3>3. e1 \in Nat /\ (e1 > 38 \/ e1 > Len(rec))
      BY <2>1, <2>3, SkipRange
    <3> HIDE DEF e1
    <3>4. e2 \in Nat /\ (e2 > e1 \/ e2 > Len(rec))
      BY <2>3, <3>3, SkipRange
    <3> HIDE DEF e2
    <3>5. ext \in Nat /\ (ext > e2 \/ ext > Len(rec))
      BY <2>3, <3>1, <3>4, SkipRange
    <3> HIDE DEF ext
    <3> QED
      BY <2>3, <3>2, <3>3, <3>4, <3>5
  <2> HIDE DEF rec, ext
  <2>5. p \in Seq(Byte) /\ Len(p) <= Len(rec) - (ext + 2)
    <3>1. Word(rec, ext) \in Nat
      BY <2>3, <2>4, WordRange
    <3>2. /\ From(rec, ext + 2) \in Seq(Byte)
          /\ Len(From(rec, ext + 2)) = Len(rec) - (ext + 2)
      BY <2>3, <2>4, FromRange
    <3> QED
      BY <3>1, <3>2, CappedRange
  <2> DEFINE base == RecordHeader + ext + 2
  <2>6. base \in Nat /\ base = ext + 7
    BY <2>1, <2>4
  <2>7. SniSplitOffset(b) = WalkExtensions(p, base)
    BY <1>1, <1>3
  <2> HIDE DEF p, base
  <2>8. \/ WalkExtensions(p, base) = 0
        \/ WalkExtensions(p, base) \in base .. base + Len(p) - 1
    BY <2>5, <2>6, WalkBounds
  <2> QED
    BY <2>3, <2>4, <2>5, <2>6, <2>7, <2>8
<1> QED
  BY <1>2, <1>3

-----------------------------------------------------------------------------
(* The walk over the extensions of a ClientHello. *)

LEMMA ExtsGrow ==
  ASSUME NEW h, NEW exts \in Seq(Nat), IsClientHello(h, exts),
         NEW i \in 1 .. Len(exts), NEW j \in i .. Len(exts)
  PROVE  exts[i] <= exts[j]
<1> DEFINE T == {k \in i .. Len(exts) : exts[k] < exts[i]}
<1>1. \A k \in 1 .. Len(exts) - 1 : exts[k] + 4 <= exts[k + 1]
  BY DEF IsClientHello
<1>2. T = {}
  <2> SUFFICES ASSUME T # {} PROVE FALSE
    OBVIOUS
  <2>1. PICK k \in T : \A m \in T : k <= m
    <3>1. T \subseteq Nat
      OBVIOUS
    <3> HIDE DEF T
    <3> QED
      BY <3>1, Least
  <2>2. k \in i + 1 .. Len(exts)
    OBVIOUS
  <2>3. k - 1 \notin T
    <3> HIDE DEF T
    <3> QED
      BY <2>1, <2>2
  <2>4. exts[k - 1] >= exts[i]
    BY <2>2, <2>3
  <2>5. exts[k - 1] + 4 <= exts[k]
    <3>1. k - 1 \in 1 .. Len(exts) - 1 /\ (k - 1) + 1 = k
      BY <2>2
    <3> QED
      BY <1>1, <3>1
  <2>6. exts[k] \in Nat /\ exts[k - 1] \in Nat /\ exts[i] \in Nat
    <3>1. Len(exts) \in Nat /\ i \in 1 .. Len(exts)
      OBVIOUS
    <3>2. k \in 1 .. Len(exts) /\ k - 1 \in 1 .. Len(exts)
      BY ONLY <2>2, <3>1
    <3>3. \A x \in 1 .. Len(exts) : exts[x] \in Nat
      OBVIOUS
    <3> QED
      BY ONLY <3>1, <3>2, <3>3
  <2>7. exts[k] < exts[i]
    BY <2>1
  <2> QED
    BY ONLY SMTT(20), <2>4, <2>5, <2>6, <2>7
<1>3. j \notin T
  <2> HIDE DEF T
  <2> QED
    BY <1>2
<1> QED
  BY <1>3

(* The part p of a hello h, from its byte at B.                            *)
IsPart(p, h, B) == B + Len(p) <= Len(h) /\ \A k \in 1 .. Len(p) : p[k] = h[B + k]

LEMMA WordOfPart ==
  ASSUME NEW h \in Seq(Byte), NEW p \in Seq(Byte), NEW B \in Nat, IsPart(p, h, B),
         NEW off \in Nat, off + 1 < Len(p)
  PROVE  Word(p, off) = Word(h, B + off)
<1>1. p[off + 1] = h[B + (off + 1)] /\ p[off + 2] = h[B + (off + 2)]
  BY DEF IsPart
<1>2. B + (off + 1) = (B + off) + 1 /\ B + (off + 2) = (B + off) + 1 + 1
  OBVIOUS
<1> QED
  BY <1>1, <1>2 DEF Word, At

(* A turn of the walk at an extension of the hello, which begins at e and  *)
(* ends at f.  When it is whole in p the turn goes to the next one, or     *)
(* finds the middle of the name there; when it is cut short, nothing.      *)
IsExtension(h, e, f) ==
  /\ f >= e + 4 /\ f = e + 4 + Word(h, e + 2)
  /\ IsServerName(h, e) => f >= e + 9 /\ f = e + 9 + NameLen(h, e)

TurnFinds(h, p, B, base, off, e, f) ==
  /\ f > B + Len(p) => Ends(p, off) /\ Outcome(p, base, off) = 0
  /\ f <= B + Len(p) =>
       /\ Ends(p, off) <=> IsServerName(h, e)
       /\ Next4(p, off) = f - B
       /\ IsServerName(h, e) =>
            Outcome(p, base, off) =
              IF NameLen(h, e) = 0 THEN 0
              ELSE base + off + 9 + NameLen(h, e) \div 2

LEMMA TurnOfHello ==
  ASSUME NEW h \in Seq(Byte), NEW p \in Seq(Byte), NEW B \in Nat, IsPart(p, h, B),
         NEW base \in Nat, NEW off \in Nat, NEW e \in Nat, e = B + off,
         NEW f \in Nat, IsExtension(h, e, f)
  PROVE  TurnFinds(h, p, B, base, off, e, f)
<1> DEFINE L == Len(p)
<1>0. /\ L \in Nat /\ L = Len(p)
      /\ f >= e + 4 /\ f = e + 4 + Word(h, e + 2)
      /\ IsServerName(h, e) => f >= e + 9 /\ f = e + 9 + NameLen(h, e)
  BY DEF IsExtension
<1> HIDE DEF L
<1> USE <1>0
<1>1. off + 4 <= L => Next4(p, off) = f - B /\ Word(p, off) = Word(h, e)
  <2> SUFFICES ASSUME off + 4 <= L
               PROVE  Next4(p, off) = f - B /\ Word(p, off) = Word(h, e)
    OBVIOUS
  <2>1. off + 2 \in Nat /\ off + 1 < Len(p) /\ (off + 2) + 1 < Len(p)
    BY ONLY off \in Nat, L \in Nat, L = Len(p), off + 4 <= L
  <2>2. Word(p, off) = Word(h, B + off)
    BY ONLY <2>1, h \in Seq(Byte), p \in Seq(Byte), B \in Nat, off \in Nat,
       IsPart(p, h, B), WordOfPart
  <2>3. Word(p, off + 2) = Word(h, B + (off + 2))
    BY ONLY <2>1, h \in Seq(Byte), p \in Seq(Byte), B \in Nat, off \in Nat,
       IsPart(p, h, B), WordOfPart
  <2>4. B + (off + 2) = e + 2
    OBVIOUS
  <2>5. Next4(p, off) = off + 4 + Word(h, e + 2)
    BY <2>3, <2>4 DEF Next4
  <2>6. Word(h, e + 2) \in Nat
    <3>1. Word(p, off + 2) \in Nat
      BY <2>1, WordRange
    <3> QED
      BY <2>3, <2>4, <3>1
  <2> HIDE DEF IsServerName
  <2> QED
    BY <2>2, <2>5, <2>6
<1>2. ASSUME f > B + L PROVE Ends(p, off) /\ Outcome(p, base, off) = 0
  <2>1. off + 4 > Len(p) \/ Next4(p, off) > Len(p)
    BY <1>1, <1>2
  <2> QED
    BY <2>1 DEF Ends, Outcome
<1>3. ASSUME f <= B + L
      PROVE  /\ off + 4 <= L /\ Next4(p, off) = f - B
             /\ ~(off + 4 > Len(p)) /\ ~(Next4(p, off) > Len(p))
             /\ Word(p, off) = Word(h, e)
  BY <1>1, <1>3
<1>4. ASSUME f <= B + L PROVE Ends(p, off) <=> IsServerName(h, e)
  BY <1>3, <1>4 DEF Ends, IsServerName
<1>5. ASSUME f <= B + L, IsServerName(h, e)
      PROVE  Outcome(p, base, off) = IF NameLen(h, e) = 0 THEN 0
                                     ELSE base + off + 9 + NameLen(h, e) \div 2
  <2> DEFINE n == NameLen(h, e)
             next == Next4(p, off)
             sn == SubSeq(p, off + 4 + 1, next)
  <2>1. f >= e + 9 /\ f = e + 9 + n /\ next = f - B
    BY <1>3, <1>5
  <2>2. off + 9 <= L
    BY <1>5, <2>1
  <2>3. off + 7 \in Nat /\ (off + 7) + 1 < Len(p)
    BY ONLY off \in Nat, L \in Nat, L = Len(p), <2>2
  <2>4. Word(p, off + 7) = n /\ n \in Nat
    <3>1. Word(p, off + 7) = Word(h, B + (off + 7))
      <4>1. PICK m : m = off + 7
        OBVIOUS
      <4>2. m \in Nat /\ m + 1 < Len(p)
        BY ONLY <2>3, <4>1
      <4>3. Word(p, m) = Word(h, B + m)
        BY ONLY <4>2, h \in Seq(Byte), p \in Seq(Byte), B \in Nat, IsPart(p, h, B),
           WordOfPart
      <4> QED
        BY ONLY <4>1, <4>3
    <3>2. B + (off + 7) = e + 7
      OBVIOUS
    <3>3. Word(p, off + 7) \in Nat
      BY <2>3, WordRange
    <3> QED
      BY <3>1, <3>2, <3>3 DEF NameLen
  <2> HIDE DEF n, next
  <2>5. next = off + 9 + n /\ next <= L
    BY <1>5, <2>1, <2>4
  <2>6. sn \in Seq(Byte) /\ Len(sn) = 5 + n /\ sn[4] = p[off + 8] /\ sn[5] = p[off + 9]
    <3>1. off + 4 + 1 \in 1 .. L + 1 /\ next \in off + 4 .. L
      BY <2>2, <2>4, <2>5
    <3>2. next - (off + 4 + 1) + 1 = 5 + n
      BY <2>4, <2>5
    <3>3. sn \in Seq(Byte) /\ Len(sn) = next - (off + 4 + 1) + 1
          /\ \A k \in 1 .. next - (off + 4 + 1) + 1 : sn[k] = p[off + 4 + 1 + k - 1]
      BY <3>1, SubSeqProperties
    <3>4. 4 \in 1 .. 5 + n /\ 5 \in 1 .. 5 + n
      BY <2>4
    <3>5. off + 4 + 1 + 4 - 1 = off + 8 /\ off + 4 + 1 + 5 - 1 = off + 9
      OBVIOUS
    <3> QED
      BY ONLY <3>2, <3>3, <3>4, <3>5
  <2> HIDE DEF sn
  <2>7. Word(sn, 3) = n
    <3>1. Word(sn, 3) = 256 * sn[4] + sn[5]
      BY DEF Word, At
    <3>2. Word(p, off + 7) = 256 * p[(off + 7) + 1] + p[(off + 7) + 1 + 1]
      BY DEF Word, At
    <3>3. (off + 7) + 1 = off + 8 /\ (off + 7) + 1 + 1 = off + 9
      OBVIOUS
    <3> QED
      BY ONLY <2>4, <2>6, <3>1, <3>2, <3>3
  <2>8. InName(sn) = IF n = 0 THEN 0 ELSE 5 + n \div 2
    <3>1. ~(Len(sn) < 5) /\ ~(5 + n > Len(sn))
      BY ONLY <2>4, <2>6
    <3> QED
      BY ONLY <2>7, <3>1 DEF InName
  <2>9. Outcome(p, base, off) = IF InName(sn) = 0 THEN 0 ELSE base + (off + 4) + InName(sn)
    BY <1>3, <1>5 DEF Outcome, sn, next
  <2>10. n \div 2 \in Nat
    BY <2>4
  <2>11. Outcome(p, base, off) = IF n = 0 THEN 0 ELSE base + off + 9 + n \div 2
    BY <2>4, <2>8, <2>9, <2>10
  <2> QED
    BY <2>11 DEF n
<1> QED
  BY <1>2, <1>3, <1>4, <1>5 DEF TurnFinds

(* The walk finds the name that is whole in the part of the hello that is  *)
(* there, and nothing when none is.                                        *)
NameThere(h, exts, n) ==
  {i \in 1 .. Len(exts) - 1 : IsServerName(h, exts[i]) /\ exts[i + 1] <= n}

LEMMA WalkOfHello ==
  ASSUME NEW h \in Seq(Byte), NEW exts \in Seq(Nat), IsClientHello(h, exts),
         NEW p \in Seq(Byte), IsPart(p, h, exts[1]), NEW base \in Nat,
         NEW n, n = exts[1] + Len(p)
  PROVE  /\ NameThere(h, exts, n) = {} => WalkExtensions(p, base) = 0
         /\ \A i \in NameThere(h, exts, n) :
              WalkExtensions(p, base) =
                IF NameLen(h, exts[i]) = 0 THEN 0
                ELSE base + (exts[i] - exts[1]) + 9 + NameLen(h, exts[i]) \div 2
<1> DEFINE B == exts[1]
           L == Len(p)
           last == Len(exts)
           Found(i) == IF NameLen(h, exts[i]) = 0 THEN 0
                       ELSE base + (exts[i] - B) + 9 + NameLen(h, exts[i]) \div 2
<1>1. /\ last \in Nat /\ last > 0 /\ L \in Nat /\ B \in Nat /\ n \in Nat /\ n = B + L
      /\ exts[last] = Len(h) /\ n <= Len(h)
      /\ \A i \in 1 .. last : exts[i] \in Nat
  <2>1. last > 0 /\ exts[last] = Len(h)
    BY DEF IsClientHello
  <2>2. n <= Len(h)
    BY DEF IsPart
  <2> QED
    BY <2>1, <2>2
<1>2. \A i \in 1 .. last - 1 :
        /\ exts[i] + 4 <= exts[i + 1]
        /\ exts[i + 1] = exts[i] + 4 + Word(h, exts[i] + 2)
        /\ IsServerName(h, exts[i]) =>
              /\ exts[i] + 9 <= exts[i + 1]
              /\ exts[i + 1] = exts[i] + 9 + NameLen(h, exts[i])
  BY DEF IsClientHello
<1>3. \A i, j \in 1 .. last - 1 :
        IsServerName(h, exts[i]) /\ IsServerName(h, exts[j]) => i = j
  BY DEF IsClientHello
<1>4. \A i \in 1 .. last : \A j \in i .. last : exts[i] <= exts[j]
  BY ExtsGrow
<1>5. PICK w : /\ WalkExtensions(p, base) = w[0]
               /\ \A off \in 0 .. L :
                    w[off] = IF Ends(p, off) THEN Outcome(p, base, off)
                             ELSE w[Next4(p, off)]
  BY WalkEquation
<1>6. ASSUME NEW i \in 1 .. last - 1, NEW off \in 0 .. L, off = exts[i] - B
      PROVE  /\ exts[i + 1] > n => w[off] = 0
             /\ exts[i + 1] <= n =>
                  w[off] = IF IsServerName(h, exts[i]) THEN Found(i)
                           ELSE w[exts[i + 1] - B]
  <2> DEFINE e == exts[i]
             f == exts[i + 1]
  <2>2. i \in 1 .. last /\ i + 1 \in 1 .. last
    BY <1>1
  <2>3. e \in Nat /\ f \in Nat /\ e = B + off /\ off \in Nat
    BY SMTT(20), <1>1, <1>6, <2>2
  <2>4. w[off] = IF Ends(p, off) THEN Outcome(p, base, off) ELSE w[Next4(p, off)]
    BY <1>5, <1>6
  <2>5. Found(i) = IF NameLen(h, e) = 0 THEN 0 ELSE base + off + 9 + NameLen(h, e) \div 2
    BY <1>6
  <2>6. IsPart(p, h, B) /\ L = Len(p)
    OBVIOUS
  <2>1. IsExtension(h, e, f)
    BY <1>1, <1>2, <2>3 DEF IsExtension
  <2> HIDE DEF B, L, e, f, Found
  <2>7. /\ f > B + L => Ends(p, off) /\ Outcome(p, base, off) = 0
        /\ f <= B + L =>
             /\ Ends(p, off) <=> IsServerName(h, e)
             /\ Next4(p, off) = f - B
             /\ IsServerName(h, e) =>
                  Outcome(p, base, off) =
                    IF NameLen(h, e) = 0 THEN 0
                    ELSE base + off + 9 + NameLen(h, e) \div 2
    <3>1. h \in Seq(Byte) /\ p \in Seq(Byte) /\ base \in Nat
      OBVIOUS
    <3>2. B \in Nat /\ L \in Nat
      BY <1>1
    <3>3. off \in Nat /\ e \in Nat /\ f \in Nat
      BY <2>3
    <3>4. e = B + off /\ L = Len(p) /\ IsPart(p, h, B)
      BY <2>3, <2>6
    <3>5. TurnFinds(h, p, B, base, off, e, f)
      BY ONLY <2>1, <3>1, <3>2, <3>3, <3>4, TurnOfHello
    <3> QED
      BY <3>4, <3>5 DEF TurnFinds
  <2>8. f > n => w[off] = 0
    BY <1>1, <2>4, <2>7
  <2>9. f <= n => w[off] = IF IsServerName(h, e) THEN Found(i) ELSE w[f - B]
    BY <1>1, <2>4, <2>5, <2>7
  <2> QED
    BY <2>8, <2>9 DEF e, f
<1> DEFINE T == {i \in 1 .. last : \/ i = last \/ exts[i + 1] > n
                                   \/ IsServerName(h, exts[i])}
<1>7. PICK a \in T : \A m \in T : a <= m
  <2>1. T \subseteq Nat /\ last \in T
    BY <1>1
  <2>2. T # {}
    BY <2>1
  <2> HIDE DEF T
  <2> QED
    BY <2>1, <2>2, Least
<1>8. a \in 1 .. last /\ a \in T
  <2>1. T \subseteq 1 .. last
    OBVIOUS
  <2> HIDE DEF T
  <2> QED
    BY <1>7, <2>1
<1>9. ASSUME NEW i \in 1 .. a - 1
      PROVE  i \in 1 .. last - 1 /\ exts[i + 1] <= n /\ ~IsServerName(h, exts[i])
  <2>1. i \in 1 .. last - 1
    BY <1>1, <1>8
  <2>2. i \notin T
    <3> HIDE DEF T
    <3> QED
      BY <1>7, <1>8, <2>1
  <2>3. i + 1 \in 1 .. last /\ exts[i + 1] \in Nat
    BY <1>1, <2>1
  <2>4. i \in 1 .. last /\ i # last /\ n \in Nat
    BY <1>1, <2>1
  <2>5. ~(exts[i + 1] > n) /\ ~IsServerName(h, exts[i])
    BY ONLY <2>2, <2>4
  <2> QED
    BY ONLY <2>1, <2>3, <2>4, <2>5
<1> DEFINE Reached(i) == exts[i] <= n /\ w[exts[i] - B] = w[0]
           U == {i \in 1 .. a : ~Reached(i)}
<1>10. U = {}
  <2> SUFFICES ASSUME U # {} PROVE FALSE
    OBVIOUS
  <2>1. PICK k \in U : \A m \in U : k <= m
    <3>1. U \subseteq Nat
      BY <1>1, <1>8
    <3> HIDE DEF U
    <3> QED
      BY <3>1, Least
  <2>2. k \in 1 .. a /\ ~Reached(k)
    BY <2>1
  <2>3. k # 1
    <3>1. Reached(1)
      BY SMTT(20), <1>1
    <3> QED
      BY <2>2, <3>1
  <2> DEFINE j == k - 1
  <2>4. j \in 1 .. a - 1 /\ j + 1 = k /\ j \in 1 .. a
    BY <1>1, <1>8, <2>2, <2>3
  <2>5. j \notin U
    <3>1. \A m \in U : k <= m
      BY <2>1
    <3>2. ~(k <= j)
      BY <2>2
    <3> HIDE DEF U
    <3> QED
      BY <3>1, <3>2
  <2>6. Reached(j)
    BY <2>4, <2>5
  <2>7. j \in 1 .. last - 1 /\ exts[k] <= n /\ ~IsServerName(h, exts[j])
    BY <1>9, <2>4
  <2> HIDE DEF j
  <2>8. exts[j] \in Nat /\ B <= exts[j] /\ exts[j] <= n
    <3>1. 1 \in 1 .. last /\ j \in 1 .. last
      <4>1. last \in Nat /\ last > 0 /\ j \in 1 .. last - 1
        BY <1>1, <2>7
      <4> HIDE DEF last
      <4> QED
        BY ONLY <4>1
    <3>2. exts[1] <= exts[j]
      BY <1>4, <3>1
    <3> QED
      BY <1>1, <2>6, <3>1, <3>2
  <2>9. exts[j] - B \in 0 .. L
    <3>1. PICK e : e = exts[j]
      OBVIOUS
    <3>2. B \in Nat /\ L \in Nat /\ n = B + L
      BY <1>1
    <3>3. e \in Nat /\ B <= e /\ e <= n
      BY <2>8, <3>1
    <3> HIDE DEF B, L
    <3>4. e - B \in 0 .. L
      BY ONLY <3>2, <3>3
    <3> QED
      BY ONLY <3>1, <3>4
  <2>10. w[exts[j] - B] = w[exts[k] - B]
    BY <1>6, <2>4, <2>7, <2>9
  <2> QED
    BY <2>2, <2>6, <2>7, <2>10
<1>11. Reached(a)
  <2>1. a \in 1 .. a
    BY <1>1, <1>8
  <2>2. a \notin U
    BY <1>10
  <2> QED
    BY <2>1, <2>2
<1> DEFINE off == exts[a] - B
<1>12. off \in 0 .. L /\ w[off] = w[0] /\ exts[a] \in Nat
  <2>1. 1 \in 1 .. last /\ a \in 1 .. last
    BY <1>1, <1>8
  <2>2. exts[1] <= exts[a] /\ exts[a] \in Nat
    BY <1>1, <1>4, <2>1
  <2>3. B \in Nat /\ L \in Nat /\ n = B + L /\ B <= exts[a]
    BY <1>1, <2>2
  <2>4. exts[a] <= n /\ w[off] = w[0]
    BY <1>11
  <2>5. off = exts[a] - B
    OBVIOUS
  <2> HIDE DEF B, L, off
  <2>6. off \in 0 .. L
    BY ONLY <2>2, <2>3, <2>4, <2>5
  <2> QED
    BY <2>2, <2>4, <2>6
<1> HIDE DEF off
<1>13. ASSUME NEW i \in NameThere(h, exts, n)
       PROVE  /\ a = i /\ a \in 1 .. last - 1 /\ exts[a + 1] <= n
              /\ IsServerName(h, exts[a])
  <2>1. i \in 1 .. last - 1 /\ IsServerName(h, exts[i]) /\ exts[i + 1] <= n
    BY DEF NameThere
  <2>2. i \in T
    BY <1>1, <2>1
  <2>3. a <= i
    <3> HIDE DEF T
    <3> QED
      BY <1>7, <2>2
  <2>4. a \in 1 .. last - 1 /\ a + 1 \in 1 .. last /\ i + 1 \in a + 1 .. last
    BY <1>1, <1>8, <2>1, <2>3
  <2>5. exts[a + 1] <= exts[i + 1]
    BY <1>4, <2>4
  <2>6. exts[a + 1] \in Nat /\ exts[i + 1] \in Nat
    BY SMTT(20), <1>1, <2>4
  <2>7. exts[a + 1] <= n
    <3>1. n \in Nat
      BY <1>1
    <3> QED
      BY ONLY SMTT(20), <2>1, <2>5, <2>6, <3>1
  <2>8. IsServerName(h, exts[a])
    <3>1. a = last \/ exts[a + 1] > n \/ IsServerName(h, exts[a])
      BY <1>8
    <3>2. a # last
      BY <1>1, <2>4
    <3> QED
      BY SMTT(20), <1>1, <2>6, <2>7, <3>1, <3>2
  <2> QED
    BY <1>3, <2>1, <2>4, <2>7, <2>8
<1>14. ASSUME NEW i \in NameThere(h, exts, n)
       PROVE  WalkExtensions(p, base) = Found(i)
  <2> HIDE DEF Found, T, U
  <2>1. w[off] = Found(a)
    BY <1>6, <1>12, <1>13 DEF off
  <2> QED
    BY <1>5, <1>12, <1>13, <2>1
<1>15. ASSUME NameThere(h, exts, n) = {}
       PROVE  WalkExtensions(p, base) = 0
  <2>1. CASE a = last
    <3>1. off = L
      BY <1>1, <1>11, <1>12, <2>1 DEF off
    <3>2. off + 4 > Len(p)
      BY <1>1, <3>1
    <3>3. w[off] = 0
      BY <1>5, <1>12, <3>2 DEF Ends, Outcome
    <3> QED
      BY <1>5, <1>12, <3>3
  <2>2. CASE a # last
    <3>1. a \in 1 .. last - 1 /\ a + 1 \in 1 .. last /\ exts[a + 1] \in Nat
      BY <1>1, <1>8, <2>2
    <3>2. a \notin NameThere(h, exts, n)
      BY <1>15
    <3>3. exts[a + 1] > n \/ IsServerName(h, exts[a])
      BY <1>8, <2>2
    <3>4. exts[a + 1] > n
      BY <1>1, <3>1, <3>2, <3>3 DEF NameThere
    <3>5. w[off] = 0
      BY <1>6, <1>12, <3>1, <3>4 DEF off
    <3> QED
      BY <1>5, <1>12, <3>5
  <2> QED
    BY <2>1, <2>2
<1> QED
  BY <1>14, <1>15

-----------------------------------------------------------------------------
(* sniSplitOffset of the beginning of a ClientHello. *)

(* Skipping a vector of the hello goes to the next field, or past the end  *)
(* of the part that is there.                                              *)
Reach(rec, next) == IF next <= Len(rec) THEN next ELSE Len(rec) + 1

LEMMA SkipOfPart ==
  ASSUME NEW h \in Seq(Byte), NEW rec \in Seq(Byte), IsPart(rec, h, 0),
         NEW i \in Nat, NEW s, s = Reach(rec, i)
  PROVE  /\ i < Len(h) => SkipVec8(rec, s) = Reach(rec, i + 1 + At(h, i))
         /\ i + 1 < Len(h) => SkipVec16(rec, s) = Reach(rec, i + 2 + Word(h, i))
<1> DEFINE L == Len(rec)
<1>1. L \in Nat /\ L = Len(rec)
  OBVIOUS
<1>2. i + 1 <= L => At(rec, i) = At(h, i)
  BY DEF IsPart, At
<1>3. i + 2 <= L => Word(rec, i) = Word(h, i)
  <2> SUFFICES ASSUME i + 2 <= L PROVE Word(rec, i) = Word(h, i)
    OBVIOUS
  <2>1. i + 1 < Len(rec)
    BY <1>1
  <2>2. Word(rec, i) = Word(h, 0 + i)
    BY ONLY <2>1, h \in Seq(Byte), rec \in Seq(Byte), i \in Nat, IsPart(rec, h, 0),
       WordOfPart
  <2> QED
    BY <2>2
<1>4. ASSUME i < Len(h) PROVE At(h, i) \in Nat
  <2>1. h[i + 1] \in Byte
    BY <1>4
  <2>2. \A x \in Byte : x \in Nat
    BY DEF Byte
  <2> QED
    BY <2>1, <2>2 DEF At
<1>5. i + 1 < Len(h) => Word(h, i) \in Nat
  BY WordRange
<1> HIDE DEF L
<1>6. ASSUME i < Len(h) PROVE SkipVec8(rec, s) = Reach(rec, i + 1 + At(h, i))
  BY <1>1, <1>2, <1>4, <1>6 DEF SkipVec8, Reach
<1>7. ASSUME i + 1 < Len(h) PROVE SkipVec16(rec, s) = Reach(rec, i + 2 + Word(h, i))
  BY <1>1, <1>3, <1>5, <1>7 DEF SkipVec16, Reach
<1> QED
  BY <1>6, <1>7

LEMMA OffsetOfHello ==
  ASSUME NEW b \in Seq(Byte), Len(b) >= 5, NEW h \in Seq(Byte), NEW exts \in Seq(Nat),
         IsClientHello(h, exts), Begins(b, h), NEW n, n = Len(b) - RecordHeader
  PROVE  /\ NameThere(h, exts, n) = {} => SniSplitOffset(b) = 0
         /\ \A i \in NameThere(h, exts, n) :
              SniSplitOffset(b) =
                IF NameLen(h, exts[i]) = 0 THEN 0
                ELSE RecordHeader + exts[i] + 9 + NameLen(h, exts[i]) \div 2
<1> DEFINE rec == Capped(From(b, RecordHeader), Word(b, 3))
           sid == HandshakeHeader + Fixed
           ext == SkipVec8(rec, SkipVec16(rec, SkipVec8(rec, sid)))
           none == \/ Len(b) < RecordHeader \/ At(b, 0) # 22
                   \/ Len(rec) < sid \/ At(rec, 0) # 1
                   \/ ext + 2 > Len(rec)
           p == Capped(From(rec, ext + 2), Word(rec, ext))
           suites == sid + 1 + At(h, sid)
           methods == suites + 2 + Word(h, suites)
           block == methods + 1 + At(h, methods)
<1>1. SniSplitOffset(b) = IF none THEN 0
                          ELSE WalkExtensions(p, RecordHeader + ext + 2)
  BY DEF SniSplitOffset
<1>2. /\ sid < Len(h) /\ suites + 1 < Len(h)
      /\ methods < Len(h) /\ block + 1 < Len(h)
      /\ At(h, 0) = 1
      /\ Word(h, block) = Len(h) - block - 2
      /\ Len(exts) > 0 /\ exts[1] = block + 2
  BY DEF IsClientHello
<1>3. sid = 38 /\ RecordHeader = 5 /\ Len(h) \in Nat /\ n \in Nat /\ n = Len(b) - 5
  BY DEF RecordHeader, HandshakeHeader, Fixed
<1> HIDE DEF sid
<1>4. suites \in Nat /\ suites > 38 /\ methods \in Nat /\ block \in Nat
      /\ methods > suites /\ block > methods
  <2>0. \A x \in Byte : x \in Nat
    BY DEF Byte
  <2>1. At(h, sid) \in Nat
    <3>1. h[sid + 1] \in Byte
      BY <1>2, <1>3
    <3> QED
      BY <2>0, <3>1 DEF At
  <2>2. suites \in Nat /\ suites > 38
    BY <1>3, <2>1
  <2> HIDE DEF suites
  <2>3. Word(h, suites) \in Nat
    BY <1>2, <2>2, WordRange
  <2>4. methods \in Nat /\ methods > suites
    BY <2>2, <2>3
  <2> HIDE DEF methods
  <2>5. At(h, methods) \in Nat
    <3>1. h[methods + 1] \in Byte
      BY <1>2, <2>4
    <3> QED
      BY <2>0, <3>1 DEF At
  <2> QED
    BY <2>2, <2>4, <2>5
<1>5. /\ rec \in Seq(Byte) /\ Len(rec) = n /\ n <= Len(h)
      /\ IsPart(rec, h, 0) /\ At(b, 0) = 22
  <2>1. /\ At(b, 0) = 22 /\ n <= Word(b, 3) /\ n <= Len(h)
        /\ From(b, RecordHeader) = Upto(h, n)
    BY DEF Begins
  <2>2. From(b, RecordHeader) \in Seq(Byte) /\ Len(From(b, RecordHeader)) = n
    BY <1>3, FromRange
  <2>3. Word(b, 3) \in Nat
    BY <1>3, WordRange
  <2>4. rec = From(b, RecordHeader)
    BY <1>3, <2>1, <2>2, <2>3 DEF Capped
  <2>5. rec = SubSeq(h, 1, n)
    BY <2>1, <2>4 DEF Upto
  <2>6. \A k \in 1 .. n : rec[k] = h[k]
    BY <1>3, <2>1, <2>5
  <2>7. Len(rec) = n /\ rec \in Seq(Byte)
    BY <2>2, <2>4
  <2> HIDE DEF rec
  <2>8. IsPart(rec, h, 0)
    BY <1>3, <2>1, <2>6, <2>7 DEF IsPart
  <2> QED
    BY <2>1, <2>7, <2>8
<1> HIDE DEF rec, suites, methods, block
<1>6. Len(rec) >= sid => ext = Reach(rec, block)
  <2> SUFFICES ASSUME n >= 38 PROVE ext = Reach(rec, block)
    BY <1>3, <1>5
  <2>0. rec \in Seq(Byte) /\ IsPart(rec, h, 0)
    BY <1>5
  <2>1. sid \in Nat /\ sid < Len(h) /\ sid = Reach(rec, sid)
    BY <1>2, <1>3, <1>5 DEF Reach
  <2>2. SkipVec8(rec, sid) = Reach(rec, suites)
    <3>1. SkipVec8(rec, sid) = Reach(rec, sid + 1 + At(h, sid))
      BY ONLY <2>0, <2>1, h \in Seq(Byte), SkipOfPart
    <3> QED
      BY <3>1 DEF suites
  <2>3. suites \in Nat /\ suites + 1 < Len(h)
    BY <1>2, <1>4
  <2>4. SkipVec16(rec, Reach(rec, suites)) = Reach(rec, methods)
    <3>1. SkipVec16(rec, Reach(rec, suites)) = Reach(rec, suites + 2 + Word(h, suites))
      BY ONLY <2>0, <2>3, h \in Seq(Byte), SkipOfPart
    <3> QED
      BY <3>1 DEF methods
  <2>5. methods \in Nat /\ methods < Len(h)
    BY <1>2, <1>4
  <2>6. SkipVec8(rec, Reach(rec, methods)) = Reach(rec, block)
    <3>1. SkipVec8(rec, Reach(rec, methods)) = Reach(rec, methods + 1 + At(h, methods))
      BY ONLY <2>0, <2>5, h \in Seq(Byte), SkipOfPart
    <3> QED
      BY <3>1 DEF block
  <2> QED
    BY <2>2, <2>4, <2>6
<1> HIDE DEF ext, p
<1>7. CASE n < block + 2
  <2>1. none
    <3>1. CASE Len(rec) < sid
      BY <3>1
    <3>2. CASE Len(rec) >= sid
      <4>1. ext = Reach(rec, block)
        BY <1>6, <3>2
      <4>2. ext + 2 > Len(rec)
        BY <1>3, <1>4, <1>5, <1>7, <4>1 DEF Reach
      <4> QED
        BY <4>2
    <3> QED
      BY <1>3, <1>5, <3>1, <3>2
  <2>2. NameThere(h, exts, n) = {}
    <3> SUFFICES ASSUME NEW i \in NameThere(h, exts, n) PROVE FALSE
      OBVIOUS
    <3>1. i \in 1 .. Len(exts) - 1 /\ exts[i + 1] <= n
      BY DEF NameThere
    <3>2. Len(exts) \in Nat /\ Len(exts) > 0
      BY <1>2
    <3>3. 1 \in 1 .. Len(exts) /\ i + 1 \in 1 .. Len(exts) /\ i + 1 \in 1 .. Len(exts)
      BY ONLY <3>1, <3>2
    <3>4. exts[1] <= exts[i + 1]
      BY <3>3, ExtsGrow
    <3>5. exts[i + 1] \in Nat
      BY <3>3
    <3> QED
      <4>1. exts[1] = block + 2 /\ block \in Nat /\ n \in Nat
        BY <1>2, <1>3, <1>4
      <4> QED
        BY ONLY <1>7, <3>1, <3>4, <3>5, <4>1
  <2> QED
    BY <1>1, <2>1, <2>2
<1>8. CASE n >= block + 2
  <2>1. Len(rec) >= sid /\ ext = block /\ ext + 2 <= Len(rec)
    <3>1. Len(rec) >= sid
      BY <1>3, <1>4, <1>5, <1>8
    <3>2. block <= Len(rec)
      BY <1>3, <1>4, <1>5, <1>8
    <3> QED
      BY <1>3, <1>4, <1>5, <1>6, <1>8, <3>1, <3>2 DEF Reach
  <2>2. At(rec, 0) = 1
    <3>1. 1 <= Len(rec)
      BY <1>3, <1>5, <2>1
    <3> QED
      BY <1>2, <1>5, <3>1 DEF At, IsPart
  <2>3. ~none
    <3>1. ~(Len(b) < RecordHeader)
      BY <1>3
    <3>2. ~(Len(rec) < sid)
      BY <1>3, <1>5, <2>1
    <3>3. ~(ext + 2 > Len(rec))
      BY <1>4, <1>5, <2>1
    <3> QED
      BY <1>5, <2>2, <3>1, <3>2, <3>3
  <2>4. Word(rec, ext) = Len(h) - block - 2
    <3>1. block + 1 < Len(rec)
      BY <1>3, <1>4, <1>5, <1>8
    <3>2. rec \in Seq(Byte) /\ IsPart(rec, h, 0) /\ block \in Nat
      BY <1>4, <1>5
    <3>3. Word(rec, block) = Word(h, 0 + block)
      BY ONLY <3>1, <3>2, h \in Seq(Byte), WordOfPart
    <3>4. 0 + block = block
      BY <1>4
    <3> QED
      BY <1>2, <2>1, <3>3, <3>4
  <2> DEFINE B == exts[1]
  <2>5. B \in Nat /\ B = ext + 2 /\ B <= n
    BY <1>2, <1>4, <1>8, <2>1
  <2>6. /\ From(rec, B) \in Seq(Byte) /\ Len(From(rec, B)) = n - B
        /\ \A k \in 1 .. n - B : From(rec, B)[k] = rec[B + k]
    <3>1. rec \in Seq(Byte) /\ Len(rec) = n /\ n \in Nat
      BY <1>3, <1>5
    <3> HIDE DEF B
    <3>2. B + 1 \in 1 .. Len(rec) + 1 /\ n \in B + 1 - 1 .. Len(rec)
      BY <2>5, <3>1
    <3>3. From(rec, B) = SubSeq(rec, B + 1, n)
      BY <3>1 DEF From
    <3>4. /\ SubSeq(rec, B + 1, n) \in Seq(Byte)
          /\ Len(SubSeq(rec, B + 1, n)) = n - (B + 1) + 1
          /\ \A k \in 1 .. n - (B + 1) + 1 :
               SubSeq(rec, B + 1, n)[k] = rec[B + 1 + k - 1]
      BY <3>1, <3>2, SubSeqProperties
    <3>5. n - (B + 1) + 1 = n - B /\ \A k \in 1 .. n - B : B + 1 + k - 1 = B + k
      BY <2>5, <3>1
    <3> QED
      BY <3>3, <3>4, <3>5
  <2>7. p = From(rec, B)
    <3>1. p = Capped(From(rec, B), Len(h) - block - 2)
      BY <2>4, <2>5 DEF p
    <3>2. ~(Len(h) - block - 2 < Len(From(rec, B)))
      BY <1>3, <1>4, <1>5, <2>1, <2>5, <2>6
    <3> QED
      BY <3>1, <3>2 DEF Capped
  <2> HIDE DEF B
  <2>8. p \in Seq(Byte) /\ Len(p) = n - B /\ IsPart(p, h, B)
    <3>1. \A k \in 1 .. n - B : rec[B + k] = h[B + k]
      <4> SUFFICES ASSUME NEW k \in 1 .. n - B PROVE rec[B + k] = h[B + k]
        OBVIOUS
      <4>1. B + k \in 1 .. Len(rec)
        BY <1>3, <1>5, <2>5
      <4> QED
        BY <1>5, <4>1 DEF IsPart
    <3>2. B + (n - B) <= Len(h)
      BY <1>3, <1>5, <2>5
    <3> QED
      BY <2>6, <2>7, <3>1, <3>2 DEF IsPart
  <2>9. n = B + Len(p) /\ RecordHeader + ext + 2 \in Nat
    BY <1>3, <1>4, <2>1, <2>5, <2>8
  <2>10. SniSplitOffset(b) = WalkExtensions(p, RecordHeader + ext + 2)
    BY <1>1, <2>3
  <2>11. /\ NameThere(h, exts, n) = {} => WalkExtensions(p, RecordHeader + ext + 2) = 0
         /\ \A i \in NameThere(h, exts, n) :
              WalkExtensions(p, RecordHeader + ext + 2) =
                IF NameLen(h, exts[i]) = 0 THEN 0
                ELSE RecordHeader + ext + 2 + (exts[i] - B) + 9
                       + NameLen(h, exts[i]) \div 2
    BY <2>8, <2>9, WalkOfHello DEF B
  <2>12. ASSUME NEW i \in NameThere(h, exts, n)
         PROVE  RecordHeader + ext + 2 + (exts[i] - B) + 9 = RecordHeader + exts[i] + 9
    <3>1. i \in 1 .. Len(exts)
      BY DEF NameThere
    <3>2. exts[i] \in Nat
      BY <3>1
    <3> QED
      BY <1>3, <1>4, <2>1, <2>5, <3>2
  <2> QED
    BY <2>10, <2>11, <2>12
<1> QED
  BY <1>3, <1>4, <1>7, <1>8
-----------------------------------------------------------------------------
(* The pieces. *)

LEMMA SplitPieces ==
  ASSUME NEW b
  PROVE  \/ Split(b) = <<b>>
         \/ \E n \in 1 .. Len(b) - 1 : Split(b) = <<Upto(b, n), From(b, n)>>
<1> DEFINE off == IF SniSplitOffset(b) \in 1 .. Len(b) - 1 THEN SniSplitOffset(b)
                  ELSE FallbackOffset(Len(b))
<1>1. Split(b) = Cut(b, off)
  BY DEF Split
<1> HIDE DEF off
<1> QED
  BY <1>1, CutSlices

LEMMA TLSRecordsPieces ==
  ASSUME NEW b
  PROVE  LET payload == From(b, RecordHeader) IN
         \/ TLSRecords(b) = <<b>>
         \/ \E n \in 1 .. Len(payload) - 1 :
               /\ At(b, 0) = 22
               /\ TLSRecords(b) = <<MakeRecord(b, Upto(payload, n)),
                                    MakeRecord(b, From(payload, n))>>
<1> DEFINE payload == From(b, RecordHeader)
           inside == SniSplitOffset(b) - RecordHeader
           sp == IF inside \in 1 .. Len(payload) - 1 THEN inside
                 ELSE Len(payload) \div 2
           parts == Cut(payload, sp)
<1>1. TLSRecords(b) = IF Len(b) < 6 \/ At(b, 0) # 22 \/ Len(parts) = 1
                      THEN <<b>>
                      ELSE <<MakeRecord(b, parts[1]), MakeRecord(b, parts[2])>>
  BY DEF TLSRecords
<1>2. \/ parts = <<payload>>
      \/ /\ sp \in 1 .. Len(payload) - 1
         /\ parts = <<Upto(payload, sp), From(payload, sp)>>
  BY CutSlices
<1> HIDE DEF parts, sp, payload
<1>3. CASE parts = <<payload>>
  BY <1>1, <1>3
<1>4. CASE /\ sp \in 1 .. Len(payload) - 1
           /\ parts = <<Upto(payload, sp), From(payload, sp)>>
  <2>1. parts[1] = Upto(payload, sp) /\ parts[2] = From(payload, sp) /\ Len(parts) = 2
    BY <1>4
  <2>2. CASE Len(b) < 6 \/ At(b, 0) # 22
    BY <1>1, <2>2
  <2>3. CASE ~(Len(b) < 6 \/ At(b, 0) # 22)
    <3>1. /\ At(b, 0) = 22
          /\ TLSRecords(b) = <<MakeRecord(b, Upto(payload, sp)),
                               MakeRecord(b, From(payload, sp))>>
      BY <1>1, <2>1, <2>3
    <3> QED
      BY <1>4, <3>1 DEF payload
  <2> QED
    BY <2>2, <2>3
<1> QED
  BY <1>2, <1>3, <1>4

(* The pieces of a payload are whole, or two that join to it, or two       *)
(* records that carry it: PayloadPreserved of what WriteFirst will write.  *)
LEMMA PiecesPreserve ==
  ASSUME input \in Inputs, pc = "ok", out = Pieces
  PROVE  PayloadPreserved
<1>1. data \in Seq(Byte) /\ Len(data) >= 5 /\ Len(data) <= 16389
  BY FragAssumption DEF Input, data, MaxTLSRecord
<1> HIDE DEF data
<1>2. CASE Pieces = <<data>>
  BY <1>2 DEF PayloadPreserved
<1>3. CASE strategy = "split"
  <2>1. CASE \E n \in 1 .. Len(data) - 1 : Pieces = <<Upto(data, n), From(data, n)>>
    <3> PICK n \in 1 .. Len(data) - 1 : Pieces = <<Upto(data, n), From(data, n)>>
      BY <2>1
    <3>1. out[1] = Upto(data, n) /\ out[2] = From(data, n) /\ Len(out) = 2
      OBVIOUS
    <3>2. out[1] # << >> /\ out[2] # << >> /\ out[1] \o out[2] = data
      <4>1. /\ Len(Upto(data, n)) = n /\ Len(From(data, n)) = Len(data) - n
            /\ Upto(data, n) \o From(data, n) = data
        <5>1. data \in Seq(Byte)
          BY <1>1
        <5>2. ASSUME NEW b \in Seq(Byte), NEW m \in 1 .. Len(b) - 1
              PROVE  /\ Len(Upto(b, m)) = m /\ Len(From(b, m)) = Len(b) - m
                     /\ Upto(b, m) \o From(b, m) = b
          BY Slices
        <5> QED
          BY <5>1, <5>2
      <4>2. Len(data) \in Nat /\ n \in Nat /\ n > 0 /\ Len(data) - n > 0
        BY <1>1
      <4>3. Upto(data, n) # << >> /\ From(data, n) # << >>
        <5>1. Len(<< >>) = 0
          BY EmptySeq, Zenon
        <5> QED
          BY <4>1, <4>2, <5>1
      <4> QED
        BY <3>1, <4>1, <4>3, Zenon
    <3>3. strategy # "tls-record" /\ Len(out) # 1
      BY <3>1, <1>3
    <3> QED
      BY <3>2, <3>3, Zenon DEF PayloadPreserved
  <2> QED
    BY <2>1, <1>2, <1>3, SplitPieces DEF Pieces
<1>4. CASE strategy = "tls-record"
  <2> DEFINE payload == From(data, RecordHeader)
  <2>1. CASE \E n \in 1 .. Len(payload) - 1 :
               /\ At(data, 0) = 22
               /\ Pieces = <<MakeRecord(data, Upto(payload, n)),
                             MakeRecord(data, From(payload, n))>>
    <3> PICK n \in 1 .. Len(payload) - 1 :
               /\ At(data, 0) = 22
               /\ Pieces = <<MakeRecord(data, Upto(payload, n)),
                             MakeRecord(data, From(payload, n))>>
      BY <2>1
    <3>1. payload \in Seq(Byte) /\ Len(payload) = Len(data) - 5
      BY <1>1 DEF From, RecordHeader
    <3> HIDE DEF payload
    <3>2. /\ Upto(payload, n) \in Seq(Byte) /\ Len(Upto(payload, n)) = n
          /\ From(payload, n) \in Seq(Byte)
          /\ Len(From(payload, n)) = Len(payload) - n
          /\ Upto(payload, n) \o From(payload, n) = payload
      BY <3>1, Slices
    <3>3. /\ out[1] = MakeRecord(data, Upto(payload, n))
          /\ out[2] = MakeRecord(data, From(payload, n))
          /\ Len(out) = 2
      OBVIOUS
    <3>4. /\ Len(Upto(payload, n)) > 0 /\ Len(Upto(payload, n)) < 65536
          /\ Len(From(payload, n)) > 0 /\ Len(From(payload, n)) < 65536
      BY <1>1, <3>1, <3>2
    <3> DEFINE Payloads == {q \in Seq(Byte) : Len(q) > 0 /\ Len(q) < 65536}
    <3>5. ASSUME NEW q \in Payloads
          PROVE  IsRecord(MakeRecord(data, q)) /\ From(MakeRecord(data, q), RecordHeader) = q
      <4>1. data \in Seq(Byte)
        BY <1>1
      <4>2. Len(data) >= 5 /\ At(data, 0) = 22
        BY <1>1
      <4> DEFINE r == MakeRecord(data, q)
      <4>3. /\ Len(r) > RecordHeader
            /\ SubSeq(r, 1, 3) = SubSeq(data, 1, 3)
            /\ Word(r, 3) = Len(r) - RecordHeader
            /\ From(r, RecordHeader) = q
        BY <4>1, <4>2, RecordOfPayload
      <4> QED
        BY <4>3 DEF IsRecord
    <3>6. /\ IsRecord(out[1]) /\ From(out[1], RecordHeader) = Upto(payload, n)
          /\ IsRecord(out[2]) /\ From(out[2], RecordHeader) = From(payload, n)
      <4>1. Upto(payload, n) \in Payloads /\ From(payload, n) \in Payloads
        BY <3>2, <3>4
      <4> HIDE DEF Payloads
      <4>2. /\ IsRecord(MakeRecord(data, Upto(payload, n)))
            /\ From(MakeRecord(data, Upto(payload, n)), RecordHeader) = Upto(payload, n)
        BY <4>1, <3>5, Zenon
      <4>3. /\ IsRecord(MakeRecord(data, From(payload, n)))
            /\ From(MakeRecord(data, From(payload, n)), RecordHeader) = From(payload, n)
        BY <4>1, <3>5, Zenon
      <4> QED
        BY <4>2, <4>3, <3>3, Zenon
    <3> QED
      BY <1>4, <3>2, <3>3, <3>6 DEF PayloadPreserved, payload
  <2> QED
    BY <2>1, <1>2, <1>4, TLSRecordsPieces DEF Pieces
<1> QED
  BY <1>2, <1>3, <1>4 DEF Pieces

LEMMA PiecesLength ==
  Len(Pieces) \in {1, 2} /\ (Len(Pieces) = 1 => Pieces = <<Pieces[1]>>)
                         /\ (Len(Pieces) = 2 => Pieces = <<Pieces[1], Pieces[2]>>)
<1>1. CASE Pieces = <<data>>
  BY <1>1
<1>2. CASE strategy = "split"
  BY <1>1, <1>2, SplitPieces DEF Pieces
<1>3. CASE strategy = "tls-record"
  BY <1>1, <1>3, TLSRecordsPieces DEF Pieces
<1> QED
  BY <1>1, <1>2, <1>3 DEF Pieces

-----------------------------------------------------------------------------
(* Where the name is, and that the parser finds its middle. *)

LEMMA HostOf ==
  ASSUME NEW in \in Inputs
  PROVE  /\ in.data \in Seq(Byte) /\ Len(in.data) \in Nat /\ Len(in.data) >= 5
         /\ Host(in).first \in Nat /\ Host(in).len \in Nat
         /\ Host(in).len > 0 =>
              /\ in.hello # << >> /\ Host(in).first >= 14
              /\ Host(in).first + Host(in).len <= Len(in.data)
         /\ in.hello # << >> =>
              SniSplitOffset(in.data) =
                IF Host(in).len = 0 THEN 0 ELSE Host(in).first + Host(in).len \div 2
<1> DEFINE b == in.data
           h == in.hello
           exts == in.exts
           n == Len(b) - RecordHeader
<1>1. /\ b \in Seq(Byte) /\ h \in Seq(Byte) /\ exts \in Seq(Nat)
      /\ Len(b) \in Nat /\ Len(b) >= 5
  BY FragAssumption DEF Input
<1>2. IF h = << >> THEN exts = << >> ELSE IsClientHello(h, exts) /\ Begins(b, h)
  BY HelloAssumption
<1>3. RecordHeader = 5 /\ n \in Nat
  BY <1>1 DEF RecordHeader
<1>4. Host(in) = IF Whole(in) = {} THEN [first |-> 0, len |-> 0]
                 ELSE LET i == CHOOSE i \in Whole(in) : TRUE
                      IN  [first |-> RecordHeader + exts[i] + 9,
                           len |-> NameLen(h, exts[i])]
  BY DEF Host
<1>5. CASE h = << >>
  <2>1. exts = << >>
    BY <1>2, <1>5
  <2>2. Len(exts) = 0
    BY <2>1
  <2>3. Whole(in) = {}
    BY <2>2 DEF Whole
  <2> QED
    BY <1>1, <1>4, <1>5, <2>3
<1>6. CASE h # << >>
  <2>1. IsClientHello(h, exts) /\ Begins(b, h)
    BY <1>2, <1>6
  <2>2. Whole(in) = NameThere(h, exts, n)
    <3>1. ASSUME NEW i \in 1 .. Len(exts) - 1
          PROVE  RecordHeader + exts[i + 1] <= Len(b) <=> exts[i + 1] <= n
      <4>1. i + 1 \in 1 .. Len(exts)
        BY <1>1
      <4>2. exts[i + 1] \in Nat
        BY <1>1, <4>1
      <4> QED
        BY SMTT(20), <1>1, <1>3, <4>2
    <3> QED
      BY <3>1 DEF Whole, NameThere
  <2> HIDE DEF n
  <2>3. /\ NameThere(h, exts, n) = {} => SniSplitOffset(b) = 0
        /\ \A i \in NameThere(h, exts, n) :
              SniSplitOffset(b) =
                IF NameLen(h, exts[i]) = 0 THEN 0
                ELSE RecordHeader + exts[i] + 9 + NameLen(h, exts[i]) \div 2
    <3>1. n = Len(b) - RecordHeader
      BY DEF n
    <3> HIDE DEF b, h, exts
    <3> QED
      BY ONLY <1>1, <2>1, <3>1, OffsetOfHello
  <2>4. CASE Whole(in) = {}
    BY <1>1, <1>4, <1>6, <2>2, <2>3, <2>4
  <2>5. CASE Whole(in) # {}
    <3>1. PICK i : i = (CHOOSE x \in Whole(in) : TRUE)
      OBVIOUS
    <3>2. i \in Whole(in)
      BY <2>5, <3>1
    <3>3. i \in 1 .. Len(exts) - 1 /\ IsServerName(h, exts[i]) /\ exts[i + 1] <= n
      BY <2>2, <3>2 DEF NameThere
    <3>4. i \in 1 .. Len(exts) /\ i + 1 \in 1 .. Len(exts)
      BY SMTT(20), <1>1, <3>3
    <3>5. exts[i] \in Nat /\ exts[i + 1] \in Nat
      BY <1>1, <3>4
    <3>6. exts[i] + 9 <= exts[i + 1] /\ exts[i + 1] = exts[i] + 9 + NameLen(h, exts[i])
      BY <2>1, <3>3 DEF IsClientHello
    <3>7. NameLen(h, exts[i]) \in Nat
      <4>1. exts[i + 1] <= Len(h)
        <5>1. exts[i + 1] <= exts[Len(exts)]
          <6>1. Len(exts) \in i + 1 .. Len(exts)
            BY <1>1, <3>4
          <6> QED
            BY <1>1, <2>1, <3>4, <6>1, ExtsGrow
        <5> QED
          BY <2>1, <5>1 DEF IsClientHello
      <4>2. (exts[i] + 7) + 1 < Len(h) /\ exts[i] + 7 \in Nat
        <5>1. Len(h) \in Nat
          BY <1>1
        <5> DEFINE e == exts[i]
                   f == exts[i + 1]
                   l == Len(h)
        <5>2. e \in Nat /\ f \in Nat /\ l \in Nat /\ e + 9 <= f /\ f <= l
          BY <3>5, <3>6, <4>1, <5>1
        <5> HIDE DEF e, f, l
        <5>3. (e + 7) + 1 < l /\ e + 7 \in Nat
          BY ONLY <5>2
        <5> QED
          BY ONLY <5>3 DEF e, l
      <4> QED
        BY <1>1, <4>2, WordRange DEF NameLen
    <3>8. Host(in).first = RecordHeader + exts[i] + 9 /\ Host(in).len = NameLen(h, exts[i])
      BY <1>4, <2>5, <3>1
    <3>9. SniSplitOffset(b) =
            IF NameLen(h, exts[i]) = 0 THEN 0
            ELSE RecordHeader + exts[i] + 9 + NameLen(h, exts[i]) \div 2
      BY <2>2, <2>3, <3>2
    <3>10. n = Len(b) - 5
      BY <1>3 DEF n
    <3>11. RecordHeader + exts[i] + 9 + NameLen(h, exts[i]) <= Len(b)
      <4> DEFINE e == exts[i]
                 f == exts[i + 1]
                 l == NameLen(h, exts[i])
                 m == Len(b)
      <4>1. /\ e \in Nat /\ f \in Nat /\ l \in Nat /\ m \in Nat
            /\ f <= n /\ n = m - 5 /\ f = e + 9 + l
        BY <1>1, <3>3, <3>5, <3>6, <3>7, <3>10
      <4> HIDE DEF e, f, l, m
      <4>2. 5 + e + 9 + l <= m
        BY ONLY <4>1
      <4> QED
        BY <1>3, <4>2 DEF e, l, m
    <3>12. RecordHeader + exts[i] + 9 \in Nat /\ RecordHeader + exts[i] + 9 >= 14
      BY <1>3, <3>5
    <3> QED
      BY <1>1, <1>6, <3>7, <3>8, <3>9, <3>11, <3>12
  <2> QED
    BY <2>4, <2>5
<1> QED
  BY <1>5, <1>6

-----------------------------------------------------------------------------
(* What does not reach from the first byte of the name to its last holds   *)
(* no name that occurs once.                                               *)
Short(c, d, first, len) ==
  /\ c \in Seq(Byte)
  /\ \E a \in Nat : IsPart(c, d, a) /\ (a > first \/ a + Len(c) < first + len)

LEMMA ShortHoldsNone ==
  ASSUME NEW d \in Seq(Byte), NEW first \in Nat, NEW len \in Nat, first + len <= Len(d),
         \A k \in 0 .. Len(d) - len :
            Slice(d, k, len) = Slice(d, first, len) => k = first,
         NEW c, Short(c, d, first, len)
  PROVE  ~Holds(c, Slice(d, first, len))
<1> DEFINE name == Slice(d, first, len)
<1> SUFFICES ASSUME Holds(c, name) PROVE FALSE
  OBVIOUS
<1>1. c \in Seq(Byte) /\ Len(c) \in Nat /\ Len(d) \in Nat
  BY DEF Short
<1>2. PICK a \in Nat : IsPart(c, d, a) /\ (a > first \/ a + Len(c) < first + len)
  BY DEF Short
<1>3. a + Len(c) <= Len(d) /\ \A k \in 1 .. Len(c) : c[k] = d[a + k]
  BY <1>2 DEF IsPart
<1>4. ASSUME NEW e \in Seq(Byte), NEW k \in Nat, k + len <= Len(e)
      PROVE  /\ Slice(e, k, len) \in Seq(Byte) /\ Len(Slice(e, k, len)) = len
             /\ \A i \in 1 .. len : Slice(e, k, len)[i] = e[k + i]
  <2>1. \A i \in k + 1 .. k + len : e[i] \in Byte
    BY <1>4
  <2>2. k + 1 \in Int /\ k + len \in Int
    OBVIOUS
  <2>3. /\ SubSeq(e, k + 1, k + len) \in Seq(Byte)
        /\ Len(SubSeq(e, k + 1, k + len)) =
             IF k + 1 <= k + len THEN k + len - (k + 1) + 1 ELSE 0
        /\ \A i \in 1 .. k + len - (k + 1) + 1 :
             SubSeq(e, k + 1, k + len)[i] = e[k + 1 + i - 1]
    BY ONLY SMTT(20), <2>1, <2>2, SubSeqProperties
  <2>4. k + len - (k + 1) + 1 = len /\ \A i \in 1 .. len : k + 1 + i - 1 = k + i
    OBVIOUS
  <2>5. (IF k + 1 <= k + len THEN len ELSE 0) = len
    OBVIOUS
  <2> QED
    BY <2>3, <2>4, <2>5 DEF Slice
<1>5. Len(name) = len
  BY <1>4
<1>6. PICK k \in 0 .. Len(c) - len : Slice(c, k, len) = name
  BY <1>5 DEF Holds
<1>7. k \in Nat /\ k + len <= Len(c) /\ a + k \in Nat /\ (a + k) + len <= Len(d)
  BY <1>1, <1>3, <1>6
<1>8. Slice(d, a + k, len) = name
  <2>1. ASSUME NEW i \in 1 .. len PROVE Slice(d, a + k, len)[i] = Slice(c, k, len)[i]
    <3>1. Slice(d, a + k, len)[i] = d[(a + k) + i] /\ Slice(c, k, len)[i] = c[k + i]
      BY <1>1, <1>4, <1>7
    <3>2. k + i \in 1 .. Len(c) /\ a + (k + i) = (a + k) + i
      BY <1>1, <1>7
    <3> QED
      BY <1>3, <3>1, <3>2
  <2>2. /\ Slice(d, a + k, len) \in Seq(Byte) /\ Len(Slice(d, a + k, len)) = len
        /\ Slice(c, k, len) \in Seq(Byte) /\ Len(Slice(c, k, len)) = len
    BY <1>1, <1>4, <1>7
  <2>3. Slice(d, a + k, len) = Slice(c, k, len)
    BY <2>1, <2>2, SeqEqual
  <2> QED
    BY <1>6, <2>3
<1>9. a + k = first
  <2>1. a + k \in 0 .. Len(d) - len
    BY <1>1, <1>7
  <2> QED
    BY <1>8, <2>1
<1> QED
  BY <1>1, <1>2, <1>7, <1>9

LEMMA FromElements ==
  ASSUME NEW S, NEW c \in Seq(S), NEW n \in 0 .. Len(c)
  PROVE  /\ From(c, n) \in Seq(S) /\ Len(From(c, n)) = Len(c) - n
         /\ \A k \in 1 .. Len(c) - n : From(c, n)[k] = c[n + k]
<1> DEFINE L == Len(c)
<1>1. L \in Nat /\ n \in 0 .. L /\ \A k \in 1 .. L : c[k] \in S
  OBVIOUS
<1> HIDE DEF L
<1>2. /\ SubSeq(c, n + 1, L) \in Seq(S)
      /\ Len(SubSeq(c, n + 1, L)) = IF n + 1 <= L THEN L - (n + 1) + 1 ELSE 0
      /\ \A k \in 1 .. L - (n + 1) + 1 : SubSeq(c, n + 1, L)[k] = c[n + 1 + k - 1]
  <2>1. n + 1 \in Int /\ L \in Int /\ \A k \in n + 1 .. L : c[k] \in S
    BY <1>1
  <2> QED
    BY ONLY <2>1, SubSeqProperties
<1>3. /\ L - (n + 1) + 1 = L - n /\ \A k \in 1 .. L - n : n + 1 + k - 1 = n + k
      /\ (IF n + 1 <= L THEN L - n ELSE 0) = L - n
  BY ONLY <1>1
<1> QED
  BY <1>2, <1>3 DEF From, L

(* A part of a part, and the slices of a cut, are parts.                   *)
LEMMA PartOfPart ==
  ASSUME NEW d \in Seq(Byte), NEW c \in Seq(Byte), NEW a \in Nat, IsPart(c, d, a),
         NEW n \in 0 .. Len(c)
  PROVE  /\ Upto(c, n) \in Seq(Byte) /\ Len(Upto(c, n)) = n /\ IsPart(Upto(c, n), d, a)
         /\ From(c, n) \in Seq(Byte) /\ Len(From(c, n)) = Len(c) - n
         /\ IsPart(From(c, n), d, a + n)
<1> DEFINE L == Len(c)
<1>1. L \in Nat /\ L = Len(c) /\ n \in 0 .. L /\ a + L <= Len(d)
      /\ \A k \in 1 .. L : c[k] = d[a + k] /\ c[k] \in Byte
  BY DEF IsPart
<1> HIDE DEF L
<1>2. /\ Upto(c, n) \in Seq(Byte) /\ Len(Upto(c, n)) = n
      /\ \A k \in 1 .. n : Upto(c, n)[k] = c[k]
  BY <1>1 DEF Upto
<1>3. IsPart(Upto(c, n), d, a)
  BY <1>1, <1>2 DEF IsPart
<1>4. /\ From(c, n) \in Seq(Byte) /\ Len(From(c, n)) = L - n
      /\ \A k \in 1 .. L - n : From(c, n)[k] = c[n + k]
  BY ONLY c \in Seq(Byte), n \in 0 .. Len(c), FromElements DEF L
<1>5. IsPart(From(c, n), d, a + n)
  <2>1. (a + n) + (L - n) <= Len(d)
    BY <1>1
  <2>2. ASSUME NEW k \in 1 .. L - n PROVE From(c, n)[k] = d[(a + n) + k]
    <3>1. n + k \in 1 .. L /\ a + (n + k) = (a + n) + k
      BY <1>1
    <3> QED
      BY <1>1, <1>4, <3>1
  <2> QED
    BY <1>4, <2>1, <2>2 DEF IsPart
<1> QED
  BY <1>1, <1>2, <1>3, <1>4, <1>5

(* Both pieces of a payload whose name is in it are short, and so is what  *)
(* a write that fails has sent of one.                                     *)
Hidden(s) == Short(Carried(s), data, host.first, host.len)

LEMMA HiddenPiece ==
  ASSUME data \in Seq(Byte), host.first \in Nat, host.len \in Nat, host.len > 0,
         NEW s, NEW q \in Seq(Byte), Len(q) > 0, Carried(s) = q,
         Carried(Upto(s, Len(s) - 1)) = Upto(q, Len(q) - 1), Carried(<< >>) = << >>,
         NEW a \in Nat, IsPart(q, data, a),
         a > host.first \/ a + Len(q) < host.first + host.len
  PROVE  Hidden(s) /\ \A part \in Partial(s) : Hidden(part)
<1> DEFINE d == data
           first == host.first
           len == host.len
           L == Len(q)
<1>1. /\ d \in Seq(Byte) /\ first \in Nat /\ len \in Nat /\ len > 0
      /\ L \in Nat /\ L > 0 /\ IsPart(q, d, a)
      /\ (a > first \/ a + L < first + len)
  OBVIOUS
<1> HIDE DEF d, first, len
<1>2. Short(q, d, first, len)
  BY <1>1 DEF Short
<1> DEFINE m == L - 1
<1>3. Upto(q, m) \in Seq(Byte) /\ Len(Upto(q, m)) = m /\ IsPart(Upto(q, m), d, a)
  <2>1. m \in 0 .. Len(q)
    BY <1>1
  <2> HIDE DEF m
  <2> QED
    BY ONLY <1>1, <2>1, q \in Seq(Byte), a \in Nat, PartOfPart
<1>4. Short(Upto(q, m), d, first, len)
  <2>1. a > first \/ a + m < first + len
    BY <1>1
  <2> QED
    BY <1>3, <2>1 DEF Short
<1>5. Short(<< >>, d, first, len)
  <2>1. << >> \in Seq(Byte) /\ Len(<< >>) = 0 /\ Len(d) \in Nat
    BY <1>1
  <2>2. 0 + 0 <= Len(d)
    BY <2>1
  <2>3. IsPart(<< >>, d, 0)
    BY <2>1, <2>2 DEF IsPart
  <2>4. 0 + 0 < first + len
    BY <1>1
  <2> QED
    BY <2>1, <2>3, <2>4 DEF Short
<1>6. Hidden(s)
  BY <1>2 DEF Hidden, d, first, len
<1>7. Hidden(Upto(s, Len(s) - 1)) /\ Hidden(<< >>)
  BY <1>4, <1>5 DEF Hidden, d, first, len
<1> QED
  BY <1>6, <1>7 DEF Partial

(* From behind the header of a record all but its last byte.               *)
LEMMA RecordCarries ==
  ASSUME NEW b \in Seq(Byte), Len(b) >= 5, At(b, 0) = 22,
         NEW p \in Seq(Byte), Len(p) > 0, Len(p) < 65536,
         NEW r, r = MakeRecord(b, p)
  PROVE  /\ From(r, RecordHeader) = p
         /\ From(Upto(r, Len(r) - 1), RecordHeader) = Upto(p, Len(p) - 1)
<1> DEFINE u == (Len(p) \div 256) % 256
           v == Len(p) % 256
           head == <<22, b[2], b[3], u, v>>
<1>1. From(r, RecordHeader) = p
  BY RecordOfPayload
<1>2. \A x \in Byte : x \in Nat
  BY DEF Byte
<1>3. b[2] \in Nat /\ b[3] \in Nat
  BY <1>2
<1>4. u \in Nat /\ v \in Nat /\ Len(p) \in Nat
  <2>1. Len(p) \in Nat
    OBVIOUS
  <2> DEFINE l == Len(p)
  <2>2. l \in Nat /\ l < 65536
    OBVIOUS
  <2> HIDE DEF l
  <2>3. (l \div 256) % 256 \in 0 .. 255 /\ l % 256 \in 0 .. 255
    BY <2>2, Length16
  <2> QED
    BY <2>1, <2>3 DEF l
<1>5. r = head \o p
  BY DEF MakeRecord, At
<1> HIDE DEF u, v
<1>6. head \in Seq(Nat) /\ Len(head) = 5
  BY <1>3, <1>4
<1>7. p \in Seq(Nat)
  <2>1. \A k \in 1 .. Len(p) : p[k] \in Nat
    BY <1>2
  <2> QED
    BY <2>1
<1> HIDE DEF head
<1> DEFINE L == Len(p)
<1>8. L \in Nat /\ L > 0 /\ L = Len(p)
  BY <1>4
<1>9. /\ r \in Seq(Nat) /\ Len(r) = L + 5
      /\ \A k \in 1 .. L : r[5 + k] = p[k]
  <2>1. /\ Len(r) = 5 + L
        /\ \A i \in 1 .. 5 + L : r[i] = IF i <= 5 THEN head[i] ELSE p[i - 5]
    <3>1. /\ Len(head \o p) = Len(head) + Len(p)
          /\ \A i \in 1 .. Len(head) + Len(p) : (head \o p)[i] =
               IF i <= Len(head) THEN head[i] ELSE p[i - Len(head)]
      BY ONLY <1>6, <1>7, ConcatProperties
    <3> QED
      BY <1>5, <1>6, <1>8, <3>1
  <2>2. r \in Seq(Nat)
    BY <1>5, <1>6, <1>7
  <2>3. ASSUME NEW k \in 1 .. L PROVE r[5 + k] = p[k]
    <3>1. 5 + k \in 1 .. 5 + L /\ ~(5 + k <= 5) /\ (5 + k) - 5 = k
      BY <1>8
    <3> QED
      BY <2>1, <3>1
  <2> QED
    BY <1>8, <2>1, <2>2, <2>3
<1> HIDE DEF L
<1> DEFINE t == Upto(r, Len(r) - 1)
<1>10. /\ t \in Seq(Nat) /\ Len(t) = L + 4
       /\ \A k \in 1 .. L + 4 : t[k] = r[k]
  BY <1>8, <1>9 DEF Upto
<1> HIDE DEF t
<1>11. /\ From(t, 5) \in Seq(Nat) /\ Len(From(t, 5)) = L - 1
       /\ \A k \in 1 .. L - 1 : From(t, 5)[k] = t[5 + k]
  <2>1. t \in Seq(Nat) /\ 5 \in 0 .. Len(t) /\ Len(t) - 5 = L - 1
    BY <1>8, <1>10
  <2>2. /\ From(t, 5) \in Seq(Nat) /\ Len(From(t, 5)) = Len(t) - 5
        /\ \A k \in 1 .. Len(t) - 5 : From(t, 5)[k] = t[5 + k]
    BY ONLY <2>1, FromElements
  <2> QED
    BY <2>1, <2>2
<1>12. /\ Upto(p, L - 1) \in Seq(Nat) /\ Len(Upto(p, L - 1)) = L - 1
       /\ \A k \in 1 .. L - 1 : Upto(p, L - 1)[k] = p[k]
  BY <1>7, <1>8 DEF Upto
<1>13. ASSUME NEW k \in 1 .. L - 1
       PROVE  From(t, 5)[k] = Upto(p, L - 1)[k]
  <2>1. 5 + k \in 1 .. L + 4 /\ k \in 1 .. L
    BY <1>8
  <2>2. From(t, 5)[k] = t[5 + k]
    BY <1>11
  <2>3. t[5 + k] = r[5 + k] /\ r[5 + k] = p[k]
    BY SMTT(20), <1>9, <1>10, <2>1
  <2>4. Upto(p, L - 1)[k] = p[k]
    BY <1>12
  <2> QED
    BY <2>2, <2>3, <2>4
<1>14. From(t, 5) = Upto(p, L - 1)
  <2> DEFINE x == From(t, 5)
             y == Upto(p, L - 1)
  <2>1. /\ x \in Seq(Nat) /\ y \in Seq(Nat) /\ Len(x) = Len(y)
        /\ \A k \in 1 .. Len(x) : x[k] = y[k]
    <3>1. /\ x \in Seq(Nat) /\ y \in Seq(Nat) /\ Len(x) = L - 1 /\ Len(y) = L - 1
          /\ \A k \in 1 .. L - 1 : x[k] = y[k]
      BY <1>11, <1>12, <1>13
    <3> HIDE DEF x, y
    <3> QED
      BY <3>1
  <2> HIDE DEF x, y
  <2>2. x = y
    BY ONLY <2>1, SeqEqual
  <2> QED
    BY <2>2 DEF x, y
<1> QED
  BY <1>1, <1>8, <1>14 DEF t, RecordHeader

LEMMA BothAreHidden ==
  ASSUME input \in Inputs, strategy \in {"split", "tls-record"}, host.len >= 2
  PROVE  /\ Len(Pieces) = 2
         /\ \A i \in {1, 2} :
              Hidden(Pieces[i]) /\ \A part \in Partial(Pieces[i]) : Hidden(part)
<1> DEFINE off == host.first + host.len \div 2
<1>1. /\ data \in Seq(Byte) /\ Len(data) \in Nat /\ host.first \in Nat /\ host.len \in Nat
      /\ host.first >= 14 /\ host.first + host.len <= Len(data)
      /\ SniSplitOffset(data) = off /\ input.hello # << >>
      /\ Len(data) <= 16389
  <2>1. input.data = data /\ Host(input) = host
    BY DEF data, host
  <2>2. Len(data) <= 16389
    BY FragAssumption, <2>1 DEF MaxTLSRecord
  <2> HIDE DEF off
  <2>3. /\ data \in Seq(Byte) /\ Len(data) \in Nat /\ Len(data) >= 5
        /\ host.first \in Nat /\ host.len \in Nat
        /\ host.len > 0 =>
              /\ input.hello # << >> /\ host.first >= 14
              /\ host.first + host.len <= Len(data)
        /\ input.hello # << >> =>
              SniSplitOffset(data) =
                IF host.len = 0 THEN 0 ELSE host.first + host.len \div 2
    BY <2>1, HostOf
  <2>4. host.len > 0
    BY <2>3
  <2>5. ~(host.len = 0)
    BY <2>3, <2>4
  <2> QED
    BY <2>2, <2>3, <2>4, <2>5 DEF off
<1>2. At(data, 0) = 22
  BY HelloAssumption, <1>1 DEF Begins, data
<1> HIDE DEF data, host, Host
<1>3. /\ off \in Nat /\ off > host.first /\ off < host.first + host.len
      /\ off \in 1 .. Len(data) - 1 /\ off - 5 \in Nat /\ off - 5 > 0
      /\ off < Len(data) /\ Len(data) >= 6
  <2> DEFINE f == host.first
             l == host.len
             n == Len(data)
  <2>1. f \in Nat /\ l \in Nat /\ n \in Nat /\ l >= 2 /\ f >= 14 /\ f + l <= n
    BY <1>1
  <2> HIDE DEF f, l, n
  <2>2. f + l \div 2 > f /\ f + l \div 2 < f + l
    BY ONLY <2>1
  <2>3. off = f + l \div 2
    BY DEF f, l
  <2> HIDE DEF off
  <2>4. /\ off \in Nat /\ off > f /\ off < f + l /\ off \in 1 .. n - 1
        /\ off - 5 \in Nat /\ off - 5 > 0 /\ off < n /\ n >= 6
    BY ONLY <2>1, <2>2, <2>3
  <2> QED
    BY <2>4 DEF f, l, n
<1> HIDE DEF off
<1>4. IsPart(data, data, 0)
  BY <1>1 DEF IsPart
<1>5. CASE strategy = "split"
  <2> DEFINE first == Upto(data, off)
             second == From(data, off)
  <2>1. Pieces = <<first, second>>
    BY <1>1, <1>3, <1>5 DEF Pieces, Split, Cut
  <2>2. /\ first \in Seq(Byte) /\ Len(first) = off /\ IsPart(first, data, 0)
        /\ second \in Seq(Byte) /\ Len(second) = Len(data) - off
        /\ IsPart(second, data, 0 + off)
    <3>1. off \in 0 .. Len(data)
      BY <1>1, <1>3
    <3> QED
      BY ONLY <1>1, <1>4, <3>1, PartOfPart
  <2>3. \A x : Carried(x) = x
    BY <1>5 DEF Carried
  <2> HIDE DEF first, second
  <2>4. Hidden(first) /\ \A part \in Partial(first) : Hidden(part)
    <3>1. Len(first) > 0 /\ 0 + Len(first) < host.first + host.len /\ host.len > 0
      BY <1>1, <1>3, <2>2
    <3>2. /\ Carried(first) = first /\ Carried(<< >>) = << >>
          /\ Carried(Upto(first, Len(first) - 1)) = Upto(first, Len(first) - 1)
      BY <2>3
    <3> QED
      BY <1>1, <2>2, <3>1, <3>2, HiddenPiece
  <2>5. Hidden(second) /\ \A part \in Partial(second) : Hidden(part)
    <3>1. Len(second) > 0 /\ off > host.first /\ host.len > 0 /\ 0 + off = off
      BY <1>1, <1>3, <2>2
    <3>2. /\ Carried(second) = second /\ Carried(<< >>) = << >>
          /\ Carried(Upto(second, Len(second) - 1)) = Upto(second, Len(second) - 1)
      BY <2>3
    <3>3. IsPart(second, data, off) /\ off \in Nat
      BY <1>3, <2>2, <3>1
    <3> QED
      BY <1>1, <2>2, <3>1, <3>2, <3>3, HiddenPiece
  <2> QED
    BY <2>1, <2>4, <2>5
<1>6. CASE strategy = "tls-record"
  <2> DEFINE payload == From(data, 5)
             cut == off - 5
             p == Upto(payload, cut)
             q == From(payload, cut)
             first == MakeRecord(data, p)
             second == MakeRecord(data, q)
  <2>1. /\ payload \in Seq(Byte) /\ Len(payload) = Len(data) - 5
        /\ IsPart(payload, data, 5)
    <3>1. 5 \in 0 .. Len(data) /\ 0 + 5 = 5
      BY <1>1, <1>3
    <3>2. /\ From(data, 5) \in Seq(Byte) /\ Len(From(data, 5)) = Len(data) - 5
          /\ IsPart(From(data, 5), data, 0 + 5)
      BY ONLY <1>1, <1>4, <3>1, PartOfPart
    <3> QED
      BY <3>1, <3>2
  <2> HIDE DEF payload
  <2>2. cut \in 1 .. Len(payload) - 1 /\ cut \in 0 .. Len(payload) /\ 5 + cut = off
    BY <1>1, <1>3, <2>1
  <2>3. Pieces = <<first, second>>
    <3>1. SniSplitOffset(data) - RecordHeader = cut
      BY <1>1 DEF RecordHeader
    <3>2. From(data, RecordHeader) = payload
      BY DEF RecordHeader, payload
    <3>3. ~(Len(data) < 6 \/ At(data, 0) # 22)
      BY <1>1, <1>2, <1>3
    <3> HIDE DEF cut
    <3>4. Cut(payload, cut) = <<p, q>>
      BY <2>2 DEF Cut
    <3> HIDE DEF p, q
    <3>5. /\ Len(Cut(payload, cut)) # 1
          /\ Cut(payload, cut)[1] = p /\ Cut(payload, cut)[2] = q
      BY <3>4
    <3>6. TLSRecords(data) = <<first, second>>
      BY <2>2, <3>1, <3>2, <3>3, <3>5 DEF TLSRecords
    <3> QED
      BY <1>6, <3>6 DEF Pieces
  <2> HIDE DEF cut
  <2>4. /\ p \in Seq(Byte) /\ Len(p) = cut /\ IsPart(p, data, 5)
        /\ q \in Seq(Byte) /\ Len(q) = Len(payload) - cut /\ IsPart(q, data, off)
    <3>1. /\ Upto(payload, cut) \in Seq(Byte) /\ Len(Upto(payload, cut)) = cut
          /\ IsPart(Upto(payload, cut), data, 5)
          /\ From(payload, cut) \in Seq(Byte)
          /\ Len(From(payload, cut)) = Len(payload) - cut
          /\ IsPart(From(payload, cut), data, 5 + cut)
      <4>1. 5 \in Nat
        OBVIOUS
      <4> QED
        BY ONLY SMTT(20), <1>1, <2>1, <2>2, <4>1, PartOfPart
    <3> QED
      BY <2>2, <3>1
  <2> HIDE DEF p, q
  <2>5. /\ Len(p) > 0 /\ Len(p) < 65536 /\ Len(q) > 0 /\ Len(q) < 65536
        /\ 5 + Len(p) < host.first + host.len /\ off > host.first /\ host.len > 0
    <3> DEFINE f == host.first
               l == host.len
               n == Len(data)
    <3>1. /\ f \in Nat /\ l \in Nat /\ n \in Nat /\ n <= 16389
          /\ off > f /\ off < f + l /\ off < n /\ off - 5 > 0 /\ off \in Nat
      BY <1>1, <1>3
    <3>2. Len(payload) = n - 5 /\ Len(p) = cut /\ Len(q) = Len(payload) - cut
      BY <2>1, <2>4
    <3>3. cut = off - 5
      BY DEF cut
    <3> HIDE DEF f, l, n
    <3>4. /\ cut > 0 /\ cut < 65536 /\ (n - 5) - cut > 0 /\ (n - 5) - cut < 65536
          /\ 5 + cut < f + l /\ off > f /\ l > 0
      BY ONLY <3>1, <3>3
    <3> QED
      BY <3>2, <3>4 DEF f, l
  <2>6. Carried(<< >>) = << >>
    <3>1. From(<< >>, RecordHeader) = << >>
      BY DEF From, RecordHeader
    <3> QED
      BY <1>6, <3>1 DEF Carried
  <2>7. \A x : Carried(x) = From(x, RecordHeader)
    BY <1>6 DEF Carried
  <2>8. Len(data) >= 5
    BY <1>1, <1>3
  <2>9. Hidden(first) /\ \A part \in Partial(first) : Hidden(part)
    <3> HIDE DEF first
    <3>1. first = MakeRecord(data, p)
      BY DEF first
    <3>2. /\ From(first, RecordHeader) = p
          /\ From(Upto(first, Len(first) - 1), RecordHeader) = Upto(p, Len(p) - 1)
      BY ONLY SMTT(20), <1>1, <1>2, <2>4, <2>5, <2>8, <3>1, RecordCarries
    <3>3. /\ Carried(first) = p
          /\ Carried(Upto(first, Len(first) - 1)) = Upto(p, Len(p) - 1)
      BY <2>7, <3>2
    <3> QED
      BY <1>1, <2>4, <2>5, <2>6, <3>3, HiddenPiece
  <2>10. Hidden(second) /\ \A part \in Partial(second) : Hidden(part)
    <3> HIDE DEF second
    <3>1. second = MakeRecord(data, q)
      BY DEF second
    <3>2. /\ From(second, RecordHeader) = q
          /\ From(Upto(second, Len(second) - 1), RecordHeader) = Upto(q, Len(q) - 1)
      BY ONLY <1>1, <1>2, <2>4, <2>5, <2>8, <3>1, RecordCarries
    <3>3. /\ Carried(second) = q
          /\ Carried(Upto(second, Len(second) - 1)) = Upto(q, Len(q) - 1)
      BY <2>7, <3>2
    <3>4. /\ off \in Nat /\ IsPart(q, data, off)
          /\ off > host.first \/ off + Len(q) < host.first + host.len
      BY <1>3, <2>4, <2>5
    <3>5. /\ data \in Seq(Byte) /\ host.first \in Nat /\ host.len \in Nat
          /\ host.len > 0 /\ q \in Seq(Byte) /\ Len(q) > 0
      BY <1>1, <2>4, <2>5
    <3> QED
      BY ONLY <2>6, <3>3, <3>4, <3>5, HiddenPiece
  <2> HIDE DEF first, second
  <2> QED
    BY <2>3, <2>9, <2>10
<1> QED
  BY <1>5, <1>6

-----------------------------------------------------------------------------
(* The theorems. *)

LEMMA AppendSecond == ASSUME NEW x, NEW y PROVE Append(<<x>>, y) = <<x, y>>
<1> DEFINE S == {x, y}
<1>1. <<x>> \in Seq(S) /\ y \in S /\ Len(<<x>>) = 1 /\ <<x>>[1] = x
  OBVIOUS
<1>2. <<x, y>> \in Seq(S) /\ Len(<<x, y>>) = 2 /\ <<x, y>>[1] = x /\ <<x, y>>[2] = y
  OBVIOUS
<1> HIDE DEF S
<1>3. PICK s : s = <<x>>
  OBVIOUS
<1>4. /\ Append(s, y) \in Seq(S) /\ Len(Append(s, y)) = Len(s) + 1
      /\ \A i \in 1 .. Len(s) : Append(s, y)[i] = s[i]
      /\ Append(s, y)[Len(s) + 1] = y
  BY <1>1, <1>3, AppendProperties
<1>5. /\ Append(s, y) \in Seq(S) /\ Len(Append(s, y)) = 2
      /\ Append(s, y)[1] = x /\ Append(s, y)[2] = y
  BY <1>1, <1>3, <1>4
<1>6. Append(s, y) = <<x, y>>
  <2> DEFINE t == Append(s, y)
             u == <<x, y>>
  <2>1. /\ t \in Seq(S) /\ u \in Seq(S) /\ Len(t) = 2 /\ Len(u) = 2
        /\ t[1] = u[1] /\ t[2] = u[2]
    BY <1>2, <1>5
  <2> HIDE DEF t, u
  <2>2. Len(t) = Len(u) /\ \A i \in 1 .. Len(t) : t[i] = u[i]
    BY <2>1
  <2>3. t = u
    BY ONLY <2>1, <2>2, SeqEqual
  <2> QED
    BY <2>3 DEF t, u
<1> QED
  BY <1>3, <1>6

LEMMA InitIInv == Init => IInv
BY DEF Init, IInv

LEMMA NextIInv == IInv /\ [Next]_vars => IInv'
<1> SUFFICES ASSUME IInv, [Next]_vars PROVE IInv'
  OBVIOUS
<1>1. Pieces' = Pieces /\ input' = input
  BY DEF Next, WriteFirst, FirstFails, WriteSecond, SecondFails, vars, Pieces, data
<1> USE DEF IInv
<1>2. CASE WriteFirst
  BY <1>1, <1>2, PiecesLength DEF WriteFirst
<1>3. CASE FirstFails
  BY <1>1, <1>3 DEF FirstFails
<1>4. CASE WriteSecond
  <2>1. Len(Pieces) = 2 /\ out = <<Pieces[1]>> /\ pc' = "ok"
        /\ out' = Append(out, Pieces[2]) /\ strategy' = strategy
    BY <1>4 DEF WriteSecond
  <2>2. out' = <<Pieces[1], Pieces[2]>>
    BY <2>1, AppendSecond
  <2>3. out' = Pieces'
    BY <1>1, <2>1, <2>2, PiecesLength
  <2> QED
    BY <1>1, <2>1, <2>3
<1>5. CASE SecondFails
  <2>1. Len(Pieces) = 2 /\ out = <<Pieces[1]>> /\ pc' = "failed" /\ strategy' = strategy
    BY <1>5 DEF SecondFails
  <2>2. PICK part \in Partial(Pieces[2]) : out' = Append(out, part)
    BY <1>5 DEF SecondFails
  <2>3. out' = <<Pieces[1], part>>
    BY <2>1, <2>2, AppendSecond
  <2>4. Partial(Pieces[2])' = Partial(Pieces[2])
    BY <1>1 DEF Partial
  <2>5. \E x \in Partial(Pieces'[2]) : out' = <<Pieces'[1], x>>
    BY <1>1, <2>3
  <2> QED
    BY <1>1, <2>1, <2>5
<1>6. CASE UNCHANGED vars
  BY <1>1, <1>6 DEF vars
<1> QED
  BY <1>2, <1>3, <1>4, <1>5, <1>6 DEF Next

(* Upstream's TLS layer is given the payload of the client unchanged, for  *)
(* every first payload and every strategy: correct lengths and versions of *)
(* the two records, or two segments that join (frag.go:10-15, 71-112).     *)
THEOREM PayloadPreservedHolds == Spec => []PayloadPreserved
<1>1. IInv => PayloadPreserved
  BY PiecesPreserve DEF IInv, PayloadPreserved
<1> QED
  BY <1>1, InitIInv, NextIInv, PTL DEF Spec

(* The parser finds the middle of the server name of every ClientHello     *)
(* that is in the data as a whole, however many extensions precede it and  *)
(* wherever the data is cut short, finds nothing when the name is not      *)
(* whole, and of any other bytes returns no offset in the headers or       *)
(* outside of the data (clienthello.go:20-90).                             *)
THEOREM FindsNameHolds == Spec => []FindsName
<1>1. IInv => FindsName
  <2> SUFFICES ASSUME IInv PROVE FindsName
    OBVIOUS
  <2>1. input \in Inputs
    BY DEF IInv
  <2>2. InBounds
    <3>1. input.data \in Seq(Byte)
      BY <2>1, HostOf
    <3>2. SniSplitOffset(data) \in {0} \cup (43 .. Len(data) - 1)
      BY <3>1, OffsetRange DEF data
    <3>3. RecordHeader + HandshakeHeader + Fixed = 43
      BY DEF RecordHeader, HandshakeHeader, Fixed
    <3> QED
      BY <3>2, <3>3 DEF InBounds
  <2>3. input.hello # << >> =>
          SniSplitOffset(data) =
            IF host.len = 0 THEN 0 ELSE host.first + host.len \div 2
    BY <2>1, HostOf DEF data, host
  <2> QED
    BY <2>2, <2>3 DEF FindsName
<1> QED
  BY <1>1, InitIInv, NextIInv, PTL DEF Spec

(* Whatever was written, and whichever write failed midway, no segment and *)
(* no record carries the whole name (frag.go:1-15, 41-112).                *)
THEOREM HidesNameHolds == Spec => []HidesName
<1>1. IInv => HidesName
  <2> SUFFICES ASSUME IInv, strategy # "none", host.len >= 2, NameIsOnce,
                      NEW i \in DOMAIN out
               PROVE  ~Holds(Carried(out[i]), Name)
    BY DEF HidesName
  <2>1. input \in Inputs /\ strategy \in {"split", "tls-record"}
    BY FragAssumption DEF IInv
  <2>2. /\ Len(Pieces) = 2
        /\ Hidden(Pieces[1]) /\ \A part \in Partial(Pieces[1]) : Hidden(part)
        /\ Hidden(Pieces[2]) /\ \A part \in Partial(Pieces[2]) : Hidden(part)
    BY <2>1, BothAreHidden
  <2>3. Pieces = <<Pieces[1], Pieces[2]>>
    BY <2>2, PiecesLength
  <2>4. Hidden(out[i])
    <3>1. CASE pc = "first"
      BY <3>1 DEF IInv
    <3>2. CASE pc = "second"
      BY <2>2, <3>2 DEF IInv
    <3>3. CASE pc = "ok"
      BY <2>2, <2>3, <3>3 DEF IInv
    <3>4. CASE pc = "failed"
      BY <2>2, <3>4 DEF IInv
    <3> QED
      BY <3>1, <3>2, <3>3, <3>4 DEF IInv
  <2>5. /\ data \in Seq(Byte) /\ host.first \in Nat /\ host.len \in Nat
        /\ host.len > 0 => host.first + host.len <= Len(data)
    BY <2>1, HostOf DEF data, host
  <2>6. host.first + host.len <= Len(data)
    BY <2>5
  <2>7. \A k \in 0 .. Len(data) - host.len :
           Slice(data, k, host.len) = Slice(data, host.first, host.len) => k = host.first
    BY DEF NameIsOnce, Name
  <2>8. Short(Carried(out[i]), data, host.first, host.len)
    BY <2>4 DEF Hidden
  <2> QED
    BY ONLY <2>5, <2>6, <2>7, <2>8, ShortHoldsNone DEF Name
<1> QED
  BY <1>1, InitIInv, NextIInv, PTL DEF Spec
=============================================================================
