-------------------------------- MODULE Frag --------------------------------
(***************************************************************************)
(* internal/frag: the first payload of a client, usually a TLS             *)
(* ClientHello, is written to upstream in two pieces so that no piece      *)
(* holds the whole server name: as two segments (split) or as two TLS      *)
(* records (tls-record).  The parser that finds the name must cope with    *)
(* whatever a client sends.                                                *)
(*                                                                         *)
(* Offsets count from 0 as in the source.  The pair (offset, ok) of        *)
(* sniSplitOffset is one number here, 0 for "not found": both callers      *)
(* treat an offset of 0 as they treat ok = false.  The delay between the   *)
(* writes changes nothing and is left out.                                 *)
(***************************************************************************)
EXTENDS Integers, Sequences

CONSTANTS
    Inputs,         \* what may be given to WriteFirst, and for the properties
                    \* the ClientHello that it begins
    Strategies      \* config.FragStrategy

Byte == 0 .. 255

(* hello is the message that the client sends, and exts the offsets in it  *)
(* where its extensions begin, with that of its end; both are empty when   *)
(* the data is anything but the beginning of a ClientHello.                *)
Input == [data : Seq(Byte), hello : Seq(Byte), exts : Seq(Nat)]

MaxTLSRecord == 16384   \* maxTLSRecord of internal/proxy, which calls WriteFirst

VARIABLES
    input,      \* one of Inputs
    strategy,
    pc,         \* "first", "second", "ok" or "failed"
    out         \* the segments upstream received

vars == <<input, strategy, pc, out>>

data == input.data

Init ==
    /\ input \in Inputs
    /\ strategy \in Strategies
    /\ pc = "first"
    /\ out = << >>

-----------------------------------------------------------------------------
(* Slices. *)

At(b, i) == b[i + 1]
Word(b, i) == 256 * At(b, i) + At(b, i + 1)
Upto(b, n) == SubSeq(b, 1, n)
From(b, n) == SubSeq(b, n + 1, Len(b))
Capped(b, n) == IF n < Len(b) THEN Upto(b, n) ELSE b

(* The offset after the vector that starts at i, past the end of b when it *)
(* does not fit: every later one then does not fit either.                 *)
SkipVec8(b, i) ==
    IF i + 1 <= Len(b) /\ i + 1 + At(b, i) <= Len(b)
    THEN i + 1 + At(b, i)
    ELSE Len(b) + 1

SkipVec16(b, i) ==
    IF i + 2 <= Len(b) /\ i + 2 + Word(b, i) <= Len(b)
    THEN i + 2 + Word(b, i)
    ELSE Len(b) + 1

-----------------------------------------------------------------------------
(* The layout of a ClientHello (clienthello.go:11-19).  Its extensions are *)
(* the last of it; there is at most one server name extension, with one    *)
(* name.                                                                   *)
RecordHeader == 5
HandshakeHeader == 4
Fixed == 34         \* client_version and random

IsServerName(h, off) == Word(h, off) = 0
NameLen(h, off) == Word(h, off + 7)

IsClientHello(h, exts) ==
    LET sessionId == HandshakeHeader + Fixed
        suites == sessionId + 1 + At(h, sessionId)
        methods == suites + 2 + Word(h, suites)
        block == methods + 1 + At(h, methods)
        last == Len(exts)
    IN  /\ sessionId < Len(h) /\ suites + 1 < Len(h)
        /\ methods < Len(h) /\ block + 1 < Len(h)
        /\ At(h, 0) = 1
        /\ Word(h, block) = Len(h) - block - 2
        /\ last > 0 /\ exts[1] = block + 2 /\ exts[last] = Len(h)
        /\ \A i \in 1 .. last - 1 :
              /\ exts[i] + 4 <= exts[i + 1]
              /\ exts[i + 1] = exts[i] + 4 + Word(h, exts[i] + 2)
              /\ IsServerName(h, exts[i]) =>
                    /\ exts[i] + 9 <= exts[i + 1]
                    /\ exts[i + 1] = exts[i] + 9 + NameLen(h, exts[i])
        /\ \A i, j \in 1 .. last - 1 :
              IsServerName(h, exts[i]) /\ IsServerName(h, exts[j]) => i = j

(* A record that was read, of a stream that may end before it does.        *)
Begins(b, h) ==
    /\ At(b, 0) = 22
    /\ Len(b) - RecordHeader <= Word(b, 3)
    /\ Len(b) - RecordHeader <= Len(h)
    /\ From(b, RecordHeader) = Upto(h, Len(b) - RecordHeader)

ASSUME FragAssumption ==
    /\ Strategies \subseteq {"none", "split", "tls-record"}
    /\ \A in \in Inputs :
          /\ in \in Input
          /\ Len(in.data) >= 5 /\ Len(in.data) <= 5 + MaxTLSRecord

ASSUME HelloAssumption ==
    \A in \in Inputs :
       IF in.hello = << >> THEN in.exts = << >>
       ELSE IsClientHello(in.hello, in.exts) /\ Begins(in.data, in.hello)

(* Where the server name is in the data, of length 0 unless it is there as *)
(* a whole.                                                                *)
Whole(in) ==
    {i \in 1 .. Len(in.exts) - 1 :
       /\ IsServerName(in.hello, in.exts[i])
       /\ RecordHeader + in.exts[i + 1] <= Len(in.data)}

Host(in) ==
    IF Whole(in) = {} THEN [first |-> 0, len |-> 0]
    ELSE LET i == CHOOSE i \in Whole(in) : TRUE
         IN  [first |-> RecordHeader + in.exts[i] + 9,
              len |-> NameLen(in.hello, in.exts[i])]

host == Host(input)

-----------------------------------------------------------------------------
(* sniSplitOffset. *)

(* Mutated: the end of the name is not compared with its extension. *)
InName_Unchecked(sn) ==
    LET nameLen == Word(sn, 3)
    IN  IF Len(sn) < 5 \/ nameLen = 0
        THEN 0
        ELSE 5 + nameLen \div 2

(* Where to cut the body of a server_name extension, 0 for nowhere. *)
InName(sn) ==
    LET nameLen == Word(sn, 3)
    IN  IF Len(sn) < 5 \/ 5 + nameLen > Len(sn) \/ nameLen = 0
        THEN 0
        ELSE 5 + nameLen \div 2

(* The walk over the extensions p, which begin at base. *)
WalkExtensions(p, base) ==
    LET walk[off \in 0 .. Len(p)] ==
          IF off + 4 > Len(p) THEN 0
          ELSE LET body == off + 4
                   next == body + Word(p, off + 2)
               IN  IF next > Len(p) THEN 0
                   ELSE IF Word(p, off) = 0
                   THEN LET n == InName(SubSeq(p, body + 1, next))
                        IN  IF n = 0 THEN 0 ELSE base + body + n
                   ELSE walk[next]
    IN  walk[0]

(* Mutated: the length of the extension block is left out of the base. *)
SniSplitOffset_BaseOff(b) ==
    LET rec == Capped(From(b, RecordHeader), Word(b, 3))
        sid == HandshakeHeader + Fixed
        ext == SkipVec8(rec, SkipVec16(rec, SkipVec8(rec, sid)))
    IN  IF \/ Len(b) < RecordHeader \/ At(b, 0) # 22
           \/ Len(rec) < sid \/ At(rec, 0) # 1
           \/ ext + 2 > Len(rec)
        THEN 0
        ELSE WalkExtensions(Capped(From(rec, ext + 2), Word(rec, ext)),
                            RecordHeader + ext)

SniSplitOffset(b) ==
    LET rec == Capped(From(b, RecordHeader), Word(b, 3))
        sid == HandshakeHeader + Fixed
        ext == SkipVec8(rec, SkipVec16(rec, SkipVec8(rec, sid)))
    IN  IF \/ Len(b) < RecordHeader \/ At(b, 0) # 22
           \/ Len(rec) < sid \/ At(rec, 0) # 1
           \/ ext + 2 > Len(rec)
        THEN 0
        ELSE WalkExtensions(Capped(From(rec, ext + 2), Word(rec, ext)),
                            RecordHeader + ext + 2)

-----------------------------------------------------------------------------
(* The writes. *)

FallbackOffset(n) ==
    IF n > 6 THEN 6 ELSE IF n > 1 THEN 1 ELSE 0

(* Both pieces, or the whole when n is not inside b. *)
Cut(b, n) ==
    IF n \in 1 .. Len(b) - 1 THEN <<Upto(b, n), From(b, n)>> ELSE <<b>>

Split(b) ==
    LET off == SniSplitOffset(b)
    IN  Cut(b, IF off \in 1 .. Len(b) - 1 THEN off
               ELSE FallbackOffset(Len(b)))

(* Mutated: both records keep the length of the one they come from. *)
MakeRecord_OldLength(b, payload) == Upto(b, RecordHeader) \o payload

MakeRecord(b, payload) ==
    <<22, At(b, 1), At(b, 2),
      (Len(payload) \div 256) % 256, Len(payload) % 256>> \o payload

(* Mutated: the offset into the record is used as one into the payload. *)
TLSRecords_NoHeader(b) ==
    LET payload == From(b, RecordHeader)
        inside == SniSplitOffset(b)
        sp == IF inside \in 1 .. Len(payload) - 1 THEN inside
              ELSE Len(payload) \div 2
        parts == Cut(payload, sp)
    IN  IF Len(b) < 6 \/ At(b, 0) # 22 \/ Len(parts) = 1
        THEN <<b>>
        ELSE <<MakeRecord(b, parts[1]), MakeRecord(b, parts[2])>>

TLSRecords(b) ==
    LET payload == From(b, RecordHeader)
        inside == SniSplitOffset(b) - RecordHeader
        sp == IF inside \in 1 .. Len(payload) - 1 THEN inside
              ELSE Len(payload) \div 2
        parts == Cut(payload, sp)
    IN  IF Len(b) < 6 \/ At(b, 0) # 22 \/ Len(parts) = 1
        THEN <<b>>
        ELSE <<MakeRecord(b, parts[1]), MakeRecord(b, parts[2])>>

Pieces ==
    CASE strategy = "split" -> Split(data)
      [] strategy = "tls-record" -> TLSRecords(data)
      [] OTHER -> <<data>>

(* A write that fails may have sent a part: none of it, or all but a byte. *)
Partial(piece) == {<< >>, Upto(piece, Len(piece) - 1)}

WriteFirst ==
    /\ pc = "first"
    /\ out' = <<Pieces[1]>>
    /\ pc' = IF Len(Pieces) = 1 THEN "ok" ELSE "second"
    /\ UNCHANGED <<input, strategy>>

FirstFails ==
    /\ pc = "first"
    /\ \E part \in Partial(Pieces[1]) : out' = <<part>>
    /\ pc' = "failed"
    /\ UNCHANGED <<input, strategy>>

WriteSecond ==
    /\ pc = "second"
    /\ out' = Append(out, Pieces[2])
    /\ pc' = "ok"
    /\ UNCHANGED <<input, strategy>>

SecondFails ==
    /\ pc = "second"
    /\ \E part \in Partial(Pieces[2]) : out' = Append(out, part)
    /\ pc' = "failed"
    /\ UNCHANGED <<input, strategy>>

Next == WriteFirst \/ FirstFails \/ WriteSecond \/ SecondFails

Spec == Init /\ [][Next]_vars

-----------------------------------------------------------------------------
(* Upstream's TLS layer sees the bytes of the client: the segments put     *)
(* together are the data, or they are two complete records of the same     *)
(* version that carry its payload (frag.go:10-15,71-73).                   *)
IsRecord(s) ==
    /\ Len(s) > RecordHeader
    /\ SubSeq(s, 1, 3) = SubSeq(data, 1, 3)
    /\ Word(s, 3) = Len(s) - RecordHeader

PayloadPreserved ==
    pc = "ok" =>
      IF strategy = "tls-record" /\ Len(out) = 2
      THEN /\ IsRecord(out[1]) /\ IsRecord(out[2])
           /\ From(out[1], RecordHeader) \o From(out[2], RecordHeader)
                = From(data, RecordHeader)
      ELSE IF Len(out) = 1 THEN out[1] = data
      ELSE out[1] # << >> /\ out[2] # << >> /\ out[1] \o out[2] = data

(* No segment carries the whole server name of a ClientHello that has one  *)
(* of two bytes or more, whole in the data and nowhere else in it, however *)
(* the data is cut short and whichever write fails (frag.go:1-15,          *)
(* clienthello.go:5-9).  What a record carries comes after its header.     *)
Slice(b, first, len) == SubSeq(b, first + 1, first + len)
Name == Slice(data, host.first, host.len)
Holds(s, name) == \E k \in 0 .. Len(s) - Len(name) : Slice(s, k, Len(name)) = name

NameIsOnce ==
    \A k \in 0 .. Len(data) - host.len :
       Slice(data, k, host.len) = Name => k = host.first

Carried(s) == IF strategy = "tls-record" THEN From(s, RecordHeader) ELSE s

HidesName ==
    strategy # "none" /\ host.len >= 2 /\ NameIsOnce =>
      \A i \in DOMAIN out : ~Holds(Carried(out[i]), Name)

(* The parser agrees with the layout of a ClientHello: it finds the middle *)
(* of the name if one is there, and finds nothing else.  Of data that is   *)
(* anything else it reads no length out of its bounds, and an offset that  *)
(* it returns is behind the headers and inside the data                    *)
(* (clienthello.go:5-19,20-90).                                            *)
InBounds ==
    SniSplitOffset(data) \in
      {0} \cup (RecordHeader + HandshakeHeader + Fixed .. Len(data) - 1)

FindsName ==
    /\ InBounds
    /\ input.hello # << >> =>
         SniSplitOffset(data) =
           IF host.len = 0 THEN 0 ELSE host.first + host.len \div 2

(* What was written of the pieces at each step; a write that failed is the *)
(* last one.                                                               *)
IInv ==
    /\ input \in Inputs /\ strategy \in Strategies
    /\ pc \in {"first", "second", "ok", "failed"}
    /\ pc = "first" => out = << >>
    /\ pc = "second" => Len(Pieces) = 2 /\ out = <<Pieces[1]>>
    /\ pc = "ok" => out = Pieces
    /\ pc = "failed" =>
         \/ \E part \in Partial(Pieces[1]) : out = <<part>>
         \/ /\ Len(Pieces) = 2
            /\ \E part \in Partial(Pieces[2]) : out = <<Pieces[1], part>>
=============================================================================
