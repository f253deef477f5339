------------------------------- MODULE MCFrag -------------------------------
(***************************************************************************)
(* Inputs for Frag: ClientHellos put together from the layout of RFC 8446, *)
(* cut short anywhere, spread over two records, or with a byte overwritten *)
(* and then read as readFirstRecord reads them.                            *)
(***************************************************************************)
EXTENDS Frag, FiniteSetsExt, SequencesExt

Len16(n) == <<n \div 256, n % 256>>
Zeros(n) == [i \in 1 .. n |-> 0]
Letters(n) == [i \in 1 .. n |-> 96 + i]
Vec8(s) == <<Len(s)>> \o s
Vec16(s) == Len16(Len(s)) \o s

(* vecs: the lengths of session id, cipher suites, compression methods.    *)
(* Extensions: [type, len] is the length of a name for type 0 and that of  *)
(* a zeroed body for another.                                              *)
Extension(e) ==
    IF e.type = 0
    THEN <<0, 0>> \o Vec16(Vec16(<<0>> \o Vec16(Letters(e.len))))
    ELSE Len16(e.type) \o Vec16(Zeros(e.len))

Hellos ==
    [vecs : {<<0, 2, 1>>, <<2, 0, 0>>},
     exts : {<< >>} \cup
       {<<[type |-> 0, len |-> n]>> : n \in 0 .. 4} \cup
       {<<[type |-> 10, len |-> k], [type |-> 0, len |-> n]>> :
           k \in {0, 3}, n \in {2, 3}} \cup
       {<<[type |-> 0, len |-> 3], [type |-> 256, len |-> 1]>>,
        <<[type |-> 10, len |-> 0]>>}]

Before(h) ==
    <<3, 3>> \o Zeros(32) \o Vec8(Zeros(h.vecs[1])) \o Vec16(Zeros(h.vecs[2]))
      \o Vec8(Zeros(h.vecs[3]))

Extensions(h, n) == FlattenSeq([i \in 1 .. n |-> Extension(h.exts[i])])

Message(h) ==
    <<1, 0>> \o Vec16(Before(h) \o Vec16(Extensions(h, Len(h.exts))))

Exts(h) ==
    [i \in 1 .. Len(h.exts) + 1 |->
       4 + Len(Before(h)) + 2 + Len(Extensions(h, i - 1))]

Messages == {[hello |-> Message(h), exts |-> Exts(h)] : h \in Hellos}

Stream(hello) == <<22, 3, 1>> \o Vec16(hello)

(* readFirstRecord, of a stream that ends. *)
FirstRecord(s) ==
    LET n == Word(s, 3)
    IN  IF At(s, 0) # 22 \/ n = 0 \/ n > 16384 THEN Upto(s, 5)
        ELSE Capped(s, 5 + n)

Given(s, m) == [data |-> FirstRecord(s), hello |-> m.hello, exts |-> m.exts]

(* Cut short after n bytes. *)
CutShort(s, m) == {Given(Upto(s, n), m) : n \in 5 .. Len(s)}

(* The handshake continues in a second record. *)
Spread(m) ==
    {Given(<<22, 3, 1>> \o Len16(n) \o m.hello, m) : n \in 1 .. Len(m.hello)}

(* A byte outside of the random. *)
Overwritten(s) ==
    {[data |-> FirstRecord([s EXCEPT ![i] = v]), hello |-> << >>, exts |-> << >>] :
        i \in DOMAIN s \ (12 .. 43), v \in {0, 1, 5, 255}}

MCInputs ==
    UNION {CutShort(Stream(m.hello), m) \cup Spread(m)
             \cup Overwritten(Stream(m.hello)) : m \in Messages}
=============================================================================
