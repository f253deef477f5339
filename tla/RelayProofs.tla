---------------------------- MODULE RelayProofs ----------------------------
(***************************************************************************)
(* What Relay promises for streams of any length and records of any size:  *)
(* upstream is given the bytes of the client in order and complete, the    *)
(* first record whole, and a tunnel that has got past it is never closed   *)
(* for want of time.                                                       *)
(***************************************************************************)
EXTENDS Relay, SequenceTheorems, TLAPS

(* A range of bytes is a sequence, and consecutive ranges join.            *)
LEMMA BytesType ==
  ASSUME NEW i \in Nat, NEW j \in Nat, i <= j, j <= MaxStream
  PROVE  /\ Bytes(i, j) \in Seq(1 .. MaxStream)
         /\ Len(Bytes(i, j)) = j - i
         /\ \A n \in 1 .. j - i : Bytes(i, j)[n] = i + n
<1>1. \A n \in 1 .. j - i : i + n \in 1 .. MaxStream
  BY RelayAssumption
<1>2. j - i \in Nat
  OBVIOUS
<1> QED
  BY <1>1, <1>2 DEF Bytes

LEMMA PrefixType ==
  ASSUME NEW j \in Nat, j <= MaxStream
  PROVE  /\ Bytes(0, j) \in Seq(1 .. MaxStream)
         /\ Len(Bytes(0, j)) = j
         /\ \A n \in 1 .. j : Bytes(0, j)[n] = n
<1> DEFINE i == 0
<1>1. i \in Nat /\ i <= j
  OBVIOUS
<1> HIDE DEF i
<1>2. /\ Bytes(i, j) \in Seq(1 .. MaxStream) /\ Len(Bytes(i, j)) = j - i
      /\ \A n \in 1 .. j - i : Bytes(i, j)[n] = i + n
  BY <1>1, BytesType
<1>3. j - 0 = j /\ \A n \in 1 .. j : 0 + n = n
  OBVIOUS
<1> QED
  BY <1>2, <1>3 DEF i

LEMMA Join ==
  ASSUME NEW S, NEW a \in Seq(S), NEW b \in Seq(S), NEW c \in Seq(S),
         Len(c) = Len(a) + Len(b),
         \A n \in 1 .. Len(a) : c[n] = a[n],
         \A n \in 1 .. Len(b) : c[Len(a) + n] = b[n]
  PROVE  a \o b = c
<1>1. Len(a) \in Nat /\ Len(b) \in Nat
  OBVIOUS
<1>2. a \o b \in Seq(S) /\ Len(a \o b) = Len(c)
  OBVIOUS
<1>3. ASSUME NEW n \in 1 .. Len(c) PROVE (a \o b)[n] = c[n]
  <2>1. CASE n <= Len(a)
    BY <2>1, <1>1
  <2>2. CASE n > Len(a)
    <3>1. n - Len(a) \in 1 .. Len(b) /\ Len(a) + (n - Len(a)) = n
      BY <2>2, <1>1
    <3>2. c[n] = b[n - Len(a)]
      BY <3>1
    <3> QED
      BY <2>2, <3>1, <3>2, <1>1
  <2> QED
    BY <2>1, <2>2, <1>1
<1> QED
  BY <1>2, <1>3, SeqEqual

LEMMA BytesJoin ==
  ASSUME NEW i \in Nat, NEW j \in Nat, i <= j, j <= MaxStream
  PROVE  Bytes(0, i) \o Bytes(i, j) = Bytes(0, j)
<1>1. i <= MaxStream
  BY RelayAssumption
<1>2. /\ Bytes(0, i) \in Seq(1 .. MaxStream) /\ Len(Bytes(0, i)) = i
      /\ \A n \in 1 .. i : Bytes(0, i)[n] = n
  BY <1>1, PrefixType
<1>3. /\ Bytes(i, j) \in Seq(1 .. MaxStream) /\ Len(Bytes(i, j)) = j - i
      /\ \A n \in 1 .. j - i : Bytes(i, j)[n] = i + n
  BY BytesType
<1>4. /\ Bytes(0, j) \in Seq(1 .. MaxStream) /\ Len(Bytes(0, j)) = j
      /\ \A n \in 1 .. j : Bytes(0, j)[n] = n
  BY PrefixType
<1>5. Len(Bytes(0, j)) = Len(Bytes(0, i)) + Len(Bytes(i, j))
  BY <1>2, <1>3, <1>4
<1>6. \A n \in 1 .. Len(Bytes(0, i)) : Bytes(0, j)[n] = Bytes(0, i)[n]
  BY <1>2, <1>4
<1>7. ASSUME NEW n \in 1 .. Len(Bytes(i, j))
      PROVE  Bytes(0, j)[Len(Bytes(0, i)) + n] = Bytes(i, j)[n]
  <2>1. Bytes(i, j)[n] = i + n
    BY <1>3
  <2>2. i + n \in 1 .. j
    BY <1>3
  <2>3. Bytes(0, j)[i + n] = i + n
    BY <2>2, <1>4
  <2> QED
    BY <2>1, <2>3, <1>2
<1> QED
  BY <1>2, <1>3, <1>4, <1>5, <1>6, <1>7, Join, Zenon

LEMMA NoBytes == Bytes(0, 0) = << >>
BY DEF Bytes

LEMMA InitIInv == Init => IInv
<1> SUFFICES ASSUME Init PROVE IInv
  OBVIOUS
<1> USE RelayAssumption DEF Init
<1>1. TypeOK
  <2>1. out \in Seq(1 .. MaxStream)
    BY EmptySeq
  <2>2. hello \in [tls : BOOLEAN, len : 0 .. MaxTLSRecord + 1]
    OBVIOUS
  <2>3. total \in 0 .. MaxStream /\ sent \in 0 .. total
    OBVIOUS
  <2>4. rd \in 0 .. sent /\ got \in 0 .. rd /\ reply \in 0 .. MaxReply /\ back \in 0 .. reply
    OBVIOUS
  <2> QED
    BY <2>1, <2>2, <2>3, <2>4, Zenon DEF TypeOK
<1>2. DataInv
  BY NoBytes DEF DataInv
<1> QED
  BY <1>1, <1>2, NoBytes DEF IInv, InOrder, WholeRecord, EndInv,
       IdleTunnelStays, Header

(* The client and upstream. *)
LEMMA EndsStep ==
  ASSUME IInv, Ends
  PROVE  IInv'
<1> USE RelayAssumption DEF IInv, client, upstream, reading, deadline
<1>1. CASE ClientSends
  BY <1>1 DEF ClientSends, TypeOK, DataInv, InOrder, WholeRecord, EndInv,
       IdleTunnelStays, ClientDone
<1>2. CASE ClientDies
  BY <1>2 DEF ClientDies, TypeOK, DataInv, InOrder, WholeRecord, EndInv,
       IdleTunnelStays, ClientDone
<1>3. CASE UpstreamSends
  BY <1>3 DEF UpstreamSends, TypeOK, DataInv, InOrder, WholeRecord, EndInv,
       IdleTunnelStays, ClientDone
<1>4. CASE UpstreamEnds
  BY <1>4 DEF UpstreamEnds, TypeOK, DataInv, InOrder, WholeRecord, EndInv,
       IdleTunnelStays, ClientDone
<1> QED
  BY <1>1, <1>2, <1>3, <1>4 DEF Ends

(* The first record. *)
LEMMA ReadStep ==
  ASSUME IInv, Arm \/ HeaderRead \/ HeaderFails \/ BodyRead \/ BodyFails
  PROVE  IInv'
<1> USE RelayAssumption DEF IInv, client, upstream, reading, deadline, Header,
       Short, ReadFails, Disarm
<1>1. CASE HeaderRead
  <2>1. TypeOK'
    <3>1. /\ pc' \in {"body", "write", "end"}
          /\ armed' \in BOOLEAN /\ late' \in BOOLEAN /\ rerr' \in BOOLEAN
      BY <1>1 DEF HeaderRead, TypeOK
    <3>2. sent \in Nat /\ rd' \in 0 .. sent /\ got' \in 0 .. rd'
      BY <1>1 DEF HeaderRead, TypeOK, DataInv
    <3>3. UNCHANGED <<hello, total, sent, out, cut, reply, back, done, broken, open>>
      BY <1>1 DEF HeaderRead
    <3> QED
      BY <3>1, <3>2, <3>3 DEF TypeOK
  <2>2. DataInv' /\ InOrder' /\ WholeRecord'
    BY <1>1 DEF HeaderRead, TypeOK, DataInv, InOrder, WholeRecord
  <2>3. EndInv' /\ IdleTunnelStays'
    BY <1>1 DEF HeaderRead, TypeOK, EndInv, IdleTunnelStays, ClientDone
  <2> QED
    BY <2>1, <2>2, <2>3
<1>2. CASE HeaderFails
  <2>1. TypeOK'
    <3>1. /\ pc' \in {"body", "write", "end"}
          /\ armed' \in BOOLEAN /\ late' \in BOOLEAN /\ rerr' \in BOOLEAN
      BY <1>2 DEF HeaderFails, TypeOK
    <3>2. sent \in Nat /\ rd' \in 0 .. sent /\ got' \in 0 .. rd'
      BY <1>2 DEF HeaderFails, TypeOK, DataInv
    <3>3. UNCHANGED <<hello, total, sent, out, cut, reply, back, done, broken, open>>
      BY <1>2 DEF HeaderFails
    <3> QED
      BY <3>1, <3>2, <3>3 DEF TypeOK
  <2>2. DataInv' /\ InOrder' /\ WholeRecord'
    BY <1>2 DEF HeaderFails, TypeOK, DataInv, InOrder, WholeRecord
  <2>3. EndInv' /\ IdleTunnelStays'
    BY <1>2 DEF HeaderFails, TypeOK, EndInv, IdleTunnelStays, ClientDone
  <2> QED
    BY <2>1, <2>2, <2>3
<1>3. CASE BodyRead
  <2>1. TypeOK'
    <3>1. /\ pc' \in {"body", "write", "end"}
          /\ armed' \in BOOLEAN /\ late' \in BOOLEAN /\ rerr' \in BOOLEAN
      BY <1>3 DEF BodyRead, TypeOK
    <3>2. sent \in Nat /\ rd' \in 0 .. sent /\ got' \in 0 .. rd'
      BY <1>3 DEF BodyRead, TypeOK, DataInv
    <3>3. UNCHANGED <<hello, total, sent, out, cut, reply, back, done, broken, open>>
      BY <1>3 DEF BodyRead
    <3> QED
      BY <3>1, <3>2, <3>3 DEF TypeOK
  <2>2. DataInv' /\ InOrder' /\ WholeRecord'
    BY <1>3 DEF BodyRead, TypeOK, DataInv, InOrder, WholeRecord
  <2>3. EndInv' /\ IdleTunnelStays'
    BY <1>3 DEF BodyRead, TypeOK, EndInv, IdleTunnelStays, ClientDone
  <2> QED
    BY <2>1, <2>2, <2>3
<1>4. CASE BodyFails
  <2>1. TypeOK'
    <3>1. /\ pc' \in {"body", "write", "end"}
          /\ armed' \in BOOLEAN /\ late' \in BOOLEAN /\ rerr' \in BOOLEAN
      BY <1>4 DEF BodyFails, TypeOK
    <3>2. sent \in Nat /\ rd' \in 0 .. sent /\ got' \in 0 .. rd'
      BY <1>4 DEF BodyFails, TypeOK, DataInv
    <3>3. UNCHANGED <<hello, total, sent, out, cut, reply, back, done, broken, open>>
      BY <1>4 DEF BodyFails
    <3> QED
      BY <3>1, <3>2, <3>3 DEF TypeOK
  <2>2. DataInv' /\ InOrder' /\ WholeRecord'
    BY <1>4 DEF BodyFails, TypeOK, DataInv, InOrder, WholeRecord
  <2>3. EndInv' /\ IdleTunnelStays'
    BY <1>4 DEF BodyFails, TypeOK, EndInv, IdleTunnelStays, ClientDone
  <2> QED
    BY <2>1, <2>2, <2>3
<1>5. CASE Arm
  BY <1>5 DEF Arm, TypeOK, DataInv, InOrder, WholeRecord, EndInv,
       IdleTunnelStays, ClientDone
<1> QED
  BY <1>1, <1>2, <1>3, <1>4, <1>5

(* The writes to upstream. *)
LEMMA WriteStep ==
  ASSUME IInv, Write \/ WriteRest \/ WriteFails \/ Copy \/ CopyEnds \/ CloseBoth
  PROVE  IInv'
<1> USE RelayAssumption DEF IInv, client, upstream, reading, deadline, Header
<1>1. CASE Write
  <2> PICK n \in 1 .. got :
        /\ out' = Bytes(0, n)
        /\ pc' = IF n < got THEN "rest" ELSE AfterFirst
    BY <1>1 DEF Write
  <2>1. out' \in Seq(1 .. MaxStream) /\ Len(out') = n
    BY PrefixType DEF TypeOK
  <2>2. TypeOK'
    BY <1>1, <2>1 DEF Write, TypeOK, AfterFirst
  <2>3. DataInv'
    BY <1>1, <2>1 DEF Write, TypeOK, DataInv, AfterFirst
  <2>4. InOrder' /\ WholeRecord' /\ EndInv' /\ IdleTunnelStays'
    BY <1>1, <2>1 DEF Write, TypeOK, DataInv, InOrder, WholeRecord, EndInv,
       IdleTunnelStays, ClientDone, AfterFirst
  <2> QED
    BY <2>2, <2>3, <2>4
<1>2. CASE WriteRest
  <2>1. out' = Bytes(0, got)
    <3>1. Len(out) \in Nat /\ got \in Nat /\ Len(out) <= got /\ got <= MaxStream
      BY <1>2 DEF WriteRest, TypeOK, DataInv
    <3>2. out' = Bytes(0, Len(out)) \o Bytes(Len(out), got)
      BY <1>2 DEF WriteRest, DataInv
    <3> QED
      BY <3>1, <3>2, BytesJoin
  <2>2. out' \in Seq(1 .. MaxStream) /\ Len(out') = got
    BY <2>1, PrefixType DEF TypeOK
  <2>3. TypeOK'
    BY <1>2, <2>2 DEF WriteRest, TypeOK, AfterFirst
  <2>4. DataInv'
    BY <1>2, <2>1, <2>2 DEF WriteRest, TypeOK, DataInv, AfterFirst
  <2>5. InOrder' /\ WholeRecord' /\ EndInv' /\ IdleTunnelStays'
    BY <1>2, <2>1, <2>2
       DEF WriteRest, TypeOK, DataInv, InOrder, WholeRecord, EndInv,
       IdleTunnelStays, ClientDone, AfterFirst
  <2> QED
    BY <2>3, <2>4, <2>5
<1>3. CASE WriteFails
  BY <1>3 DEF WriteFails, TypeOK, DataInv, InOrder, WholeRecord, EndInv,
       IdleTunnelStays, ClientDone
<1>4. CASE Copy
  <2> PICK n \in rd + 1 .. sent : rd' = n /\ out' = out \o Bytes(rd, n)
    BY <1>4 DEF Copy
  <2>1. out' = Bytes(0, n)
    <3>1. rd \in Nat /\ n \in Nat /\ rd <= n /\ n <= MaxStream
      BY <1>4 DEF TypeOK
    <3>2. out' = Bytes(0, rd) \o Bytes(rd, n)
      BY <1>4 DEF Copy, DataInv
    <3> QED
      BY <3>1, <3>2, BytesJoin
  <2>2. out' \in Seq(1 .. MaxStream) /\ Len(out') = n
    BY <2>1, PrefixType DEF TypeOK
  <2>3. TypeOK'
    BY <1>4, <2>2 DEF Copy, TypeOK
  <2>4. DataInv'
    BY <1>4, <2>1, <2>2 DEF Copy, TypeOK, DataInv
  <2>5. InOrder' /\ WholeRecord' /\ EndInv' /\ IdleTunnelStays'
    BY <1>4, <2>1, <2>2 DEF Copy, TypeOK, DataInv, InOrder, WholeRecord,
       EndInv, IdleTunnelStays, ClientDone
  <2> QED
    BY <2>3, <2>4, <2>5
<1>5. CASE CopyEnds
  BY <1>5 DEF CopyEnds, ReadFails, TypeOK, DataInv, InOrder, WholeRecord,
       EndInv, IdleTunnelStays, ClientDone
<1>6. CASE CloseBoth
  BY <1>6 DEF CloseBoth, TypeOK, DataInv, InOrder, WholeRecord, EndInv,
       IdleTunnelStays, ClientDone
<1> QED
  BY <1>1, <1>2, <1>3, <1>4, <1>5, <1>6

LEMMA NextIInv == IInv /\ [Next]_vars => IInv'
<1> SUFFICES ASSUME IInv, [Next]_vars PROVE IInv'
  OBVIOUS
<1> USE RelayAssumption DEF IInv, client, upstream, reading, deadline
<1>1. CASE Ends
  BY <1>1, EndsStep
<1>2. CASE Arm \/ HeaderRead \/ HeaderFails \/ BodyRead \/ BodyFails
  BY <1>2, ReadStep
<1>3. CASE Write \/ WriteRest \/ WriteFails \/ Copy \/ CopyEnds \/ CloseBoth
  BY <1>3, WriteStep
<1>4. CASE CopyBack
  BY <1>4 DEF CopyBack, TypeOK, DataInv, InOrder, WholeRecord, EndInv,
       IdleTunnelStays, ClientDone
<1>5. CASE BackEnds
  <2>1. TypeOK'
    BY <1>5 DEF BackEnds, TypeOK, DataInv
  <2>2. DataInv' /\ InOrder' /\ WholeRecord'
    BY <1>5 DEF BackEnds, TypeOK, DataInv, InOrder, WholeRecord
  <2>3. EndInv' /\ IdleTunnelStays'
    BY <1>5 DEF BackEnds, TypeOK, EndInv, IdleTunnelStays, ClientDone
  <2> QED
    BY <2>1, <2>2, <2>3
<1>6. CASE Expire
  BY <1>6 DEF Expire, TypeOK, DataInv, InOrder, WholeRecord, EndInv,
       IdleTunnelStays, ClientDone
<1>7. CASE UNCHANGED vars
  BY <1>7 DEF vars, TypeOK, DataInv, InOrder, WholeRecord, EndInv,
       IdleTunnelStays, ClientDone
<1> QED
  BY <1>1, <1>2, <1>3, <1>4, <1>5, <1>6, <1>7 DEF Next, ToUpstream, ToClient

LEMMA Invariance == Spec => []IInv
BY InitIInv, NextIInv, PTL DEF Spec

(* Positions stay within what was sent, and what goes to upstream consists *)
(* of bytes of the client (proxy.go:59-89).                                *)
THEOREM TypeCorrect == Spec => []TypeOK
<1>1. IInv => TypeOK
  BY DEF IInv
<1> QED
  BY <1>1, Invariance, PTL

(* Whatever the pieces in which the client sends, and wherever it or       *)
(* upstream stops, upstream is given a prefix of the client's stream, and  *)
(* all that was read when no write failed (proxy.go:69-83).                *)
THEOREM InOrderHolds == Spec => []InOrder
<1>1. IInv => InOrder
  BY DEF IInv
<1> QED
  BY <1>1, Invariance, PTL

(* The first record of a client that completes it is handed over whole,    *)
(* for every length up to maxTLSRecord (proxy.go:65-67, 117-119).          *)
THEOREM WholeRecordHolds == Spec => []WholeRecord
<1>1. IInv => WholeRecord
  BY DEF IInv
<1> QED
  BY <1>1, Invariance, PTL

(* A tunnel whose first record was read is closed only because the client  *)
(* has nothing more to send, or is dead, or upstream has ended: for no     *)
(* length of a pause (proxy.go:68-70, 80-88).                              *)
THEOREM IdleTunnelStaysHolds == Spec => []IdleTunnelStays
<1>1. IInv => IdleTunnelStays
  BY DEF IInv
<1> QED
  BY <1>1, Invariance, PTL
=============================================================================
