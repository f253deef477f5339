------------------------------- MODULE Relay -------------------------------
(***************************************************************************)
(* What flows through relay of internal/proxy/proxy.go: the bytes of the   *)
(* client, of which the first TLS record is collected whole and handed to  *)
(* frag.WriteFirst and the rest copied, and those of upstream, which are   *)
(* copied back.  The client sends its bytes in pieces of any size, may     *)
(* stop at any of them, and may be slow.  Nobody closes the proxy.         *)
(*                                                                         *)
(* Bytes are their positions in the stream.  Of their values only those    *)
(* count that readFirstRecord looks at: whether the header announces a     *)
(* handshake, and of what length.  WriteFirst writes the data it is given  *)
(* in one piece or two (Frag says where it cuts).                          *)
(***************************************************************************)
EXTENDS Integers, Sequences

CONSTANTS
    MaxTLSRecord,   \* maxTLSRecord
    MaxStream,      \* bound on the bytes a client sends
    MaxReply        \* bound on the pieces upstream sends

ASSUME RelayAssumption ==
    /\ MaxTLSRecord \in Nat \ {0}
    /\ MaxStream \in Nat /\ MaxReply \in Nat

VARIABLES
    hello,      \* what the header of the stream says
    total,      \* bytes the client will have sent in the end
    sent,       \* bytes it has sent
    pc,         \* where the client->upstream goroutine is
    got,        \* bytes readFirstRecord has returned
    rerr,       \* its error
    rd,         \* bytes read from the client
    out,        \* bytes written to upstream
    cut,        \* a write to upstream has failed
    reply,      \* pieces upstream has sent
    back,       \* pieces the client was given
    done,       \* upstream has closed its side
    broken,     \* the client takes no more
    open,       \* neither closeBoth has run
    armed,      \* a read deadline is set on the client's connection
    late        \* it has passed

client == <<hello, total, sent>>
upstream == <<reply, done>>
reading == <<got, rerr, rd>>
deadline == <<armed, late>>
vars == <<client, pc, reading, out, cut, upstream, back, broken, open,
          deadline>>

Header == 5

TypeOK ==
    /\ hello \in [tls : BOOLEAN, len : 0 .. MaxTLSRecord + 1]
    /\ total \in 0 .. MaxStream
    /\ sent \in 0 .. total
    /\ pc \in {"arm", "header", "body", "write", "rest", "copy", "end", "done"}
    /\ rd \in 0 .. sent
    /\ got \in 0 .. rd
    /\ out \in Seq(1 .. MaxStream)
    /\ rerr \in BOOLEAN /\ cut \in BOOLEAN
    /\ done \in BOOLEAN /\ broken \in BOOLEAN /\ open \in BOOLEAN
    /\ armed \in BOOLEAN /\ late \in BOOLEAN
    /\ reply \in 0 .. MaxReply
    /\ back \in 0 .. reply

Init ==
    /\ hello \in [tls : BOOLEAN, len : 0 .. MaxTLSRecord + 1]
    /\ total \in 0 .. MaxStream
    /\ sent = 0
    /\ pc = "arm"
    /\ got = 0 /\ rd = 0
    /\ out = << >>
    /\ rerr = FALSE /\ cut = FALSE
    /\ reply = 0 /\ back = 0
    /\ done = FALSE /\ broken = FALSE
    /\ open = TRUE
    /\ armed = FALSE /\ late = FALSE

(* The bytes after the i-th up to the j-th. *)
Bytes(i, j) == [n \in 1 .. j - i |-> i + n]

ClientDone == sent = total

-----------------------------------------------------------------------------
(* The two ends. *)

ClientSends ==
    /\ \E n \in sent + 1 .. total : sent' = n
    /\ UNCHANGED <<hello, total, pc, reading, out, cut, upstream, back,
                   broken, open, deadline>>

(* The client dies: what it has not sent it will never send, and what was  *)
(* not read may be lost with the connection.                               *)
ClientDies ==
    /\ open /\ ~broken
    /\ broken' = TRUE
    /\ sent' \in rd .. sent
    /\ total' = sent'
    /\ UNCHANGED <<hello, pc, reading, out, cut, upstream, back, open,
                   deadline>>

UpstreamSends ==
    /\ open /\ ~done
    /\ reply < MaxReply
    /\ reply' = reply + 1
    /\ UNCHANGED <<client, pc, reading, out, cut, back, done, broken, open,
                   deadline>>

(* An orderly end, or a reset that loses what was not read. *)
UpstreamEnds ==
    /\ open /\ ~done
    /\ done' = TRUE
    /\ reply' \in back .. reply
    /\ UNCHANGED <<client, pc, reading, out, cut, back, broken, open,
                   deadline>>

-----------------------------------------------------------------------------
(* readFirstRecord, under a deadline.                                      *)

(* Mutated: no deadline is set. *)
Arm_Not ==
    /\ pc = "arm"
    /\ pc' = "header"
    /\ UNCHANGED <<client, reading, out, cut, upstream, back, broken, open,
                   deadline>>

Arm ==
    /\ pc = "arm"
    /\ pc' = "header"
    /\ armed' = TRUE
    /\ UNCHANGED <<client, reading, out, cut, upstream, back, broken, open,
                   late>>

Expire ==
    /\ armed /\ ~late
    /\ late' = TRUE
    /\ UNCHANGED <<client, pc, reading, out, cut, upstream, back, broken, open,
                   armed>>

(* Mutated: the deadline of the first record stays. *)
Disarm_Not == UNCHANGED deadline

(* readFirstRecord has returned. *)
Disarm == armed' = FALSE /\ UNCHANGED late

(* A read fails after n bytes: the client is done or dead, the socket was  *)
(* closed, or the deadline is over.  (What was buffered before may still   *)
(* be read then.)                                                          *)
ReadFails(n) == (ClientDone /\ n = sent) \/ ~open \/ (armed /\ late)

HeaderRead ==
    /\ pc = "header"
    /\ sent >= Header
    /\ rd' = Header
    /\ IF hello.tls /\ hello.len \in 1 .. MaxTLSRecord
       THEN pc' = "body" /\ UNCHANGED <<got, deadline>>
       ELSE pc' = "write" /\ got' = Header /\ Disarm
    /\ UNCHANGED <<client, rerr, out, cut, upstream, back, broken, open>>

(* A read that stops short of n bytes. *)
Short(n) ==
    /\ rd' \in rd .. sent /\ rd' < n
    /\ ReadFails(rd')
    /\ rerr' = TRUE
    /\ Disarm

(* Fewer bytes than a header are read, and dropped. *)
HeaderFails ==
    /\ pc = "header"
    /\ Short(Header)
    /\ pc' = "end"
    /\ UNCHANGED <<client, got, out, cut, upstream, back, broken, open>>

(* Mutated: one read of the body, whatever it returns. *)
BodyRead_Short ==
    /\ pc = "body"
    /\ rd' \in rd + 1 .. sent /\ rd' <= Header + hello.len
    /\ got' = rd'
    /\ pc' = "write"
    /\ Disarm
    /\ UNCHANGED <<client, rerr, out, cut, upstream, back, broken, open>>

BodyRead ==
    /\ pc = "body"
    /\ sent >= Header + hello.len
    /\ rd' = Header + hello.len
    /\ got' = rd'
    /\ pc' = "write"
    /\ Disarm
    /\ UNCHANGED <<client, rerr, out, cut, upstream, back, broken, open>>

(* Mutated: the part of the body that was read is dropped. *)
BodyFails_Drops ==
    /\ pc = "body"
    /\ Short(Header + hello.len)
    /\ got' = Header
    /\ pc' = "write"
    /\ UNCHANGED <<client, out, cut, upstream, back, broken, open>>

(* Mutated: the buffer is returned whole, with what was not read. *)
BodyFails_Padded ==
    /\ pc = "body"
    /\ Short(Header + hello.len)
    /\ got' = Header + hello.len
    /\ pc' = "write"
    /\ UNCHANGED <<client, out, cut, upstream, back, broken, open>>

BodyFails ==
    /\ pc = "body"
    /\ Short(Header + hello.len)
    /\ got' = rd'
    /\ pc' = "write"
    /\ UNCHANGED <<client, out, cut, upstream, back, broken, open>>

-----------------------------------------------------------------------------
(* WriteFirst, in one write or two, and the copy of the rest. *)

AfterFirst == IF rerr THEN "end" ELSE "copy"

Write ==
    /\ pc = "write" /\ open
    /\ \E n \in 1 .. got :
          /\ out' = Bytes(0, n)
          /\ pc' = IF n < got THEN "rest" ELSE AfterFirst
    /\ UNCHANGED <<client, reading, cut, upstream, back, broken, open,
                   deadline>>

WriteRest ==
    /\ pc = "rest" /\ open
    /\ out' = out \o Bytes(Len(out), got)
    /\ pc' = AfterFirst
    /\ UNCHANGED <<client, reading, cut, upstream, back, broken, open,
                   deadline>>

(* A write fails, on an upstream that is gone or that we have closed; the  *)
(* copy writes what it has read.                                           *)
WriteFails ==
    /\ pc \in {"write", "rest", "copy"}
    /\ done \/ ~open
    /\ IF pc = "copy" THEN rd' \in rd + 1 .. sent ELSE UNCHANGED rd
    /\ cut' = TRUE
    /\ pc' = "end"
    /\ UNCHANGED <<client, got, rerr, out, upstream, back, broken, open,
                   deadline>>

Copy ==
    /\ pc = "copy" /\ open
    /\ \E n \in rd + 1 .. sent : rd' = n /\ out' = out \o Bytes(rd, n)
    /\ UNCHANGED <<client, pc, got, rerr, cut, upstream, back, broken, open,
                   deadline>>

(* Mutated: closing does not reach the connection the copy reads. *)
CopyEnds_NotWoken ==
    /\ pc = "copy"
    /\ rd = sent /\ ClientDone
    /\ pc' = "end"
    /\ UNCHANGED <<client, reading, out, cut, upstream, back, broken, open,
                   deadline>>

CopyEnds ==
    /\ pc = "copy"
    /\ ReadFails(rd)
    /\ pc' = "end"
    /\ UNCHANGED <<client, reading, out, cut, upstream, back, broken, open,
                   deadline>>

(* The deferred closeBoth. *)
CloseBoth ==
    /\ pc = "end"
    /\ pc' = "done"
    /\ open' = FALSE
    /\ UNCHANGED <<client, reading, out, cut, upstream, back, broken,
                   deadline>>

-----------------------------------------------------------------------------
(* upstream->client, in the handler.                                       *)

CopyBack ==
    /\ open /\ ~broken
    /\ back < reply
    /\ back' = back + 1
    /\ UNCHANGED <<client, pc, reading, out, cut, upstream, broken, open,
                   deadline>>

BackEnds ==
    /\ open
    /\ \/ done /\ back = reply
       \/ broken /\ back < reply
    /\ open' = FALSE
    /\ UNCHANGED <<client, pc, reading, out, cut, upstream, back, broken,
                   deadline>>

Ends == ClientSends \/ ClientDies \/ UpstreamSends \/ UpstreamEnds

ToUpstream ==
    \/ Arm \/ HeaderRead \/ HeaderFails \/ BodyRead \/ BodyFails
    \/ Write \/ WriteRest \/ WriteFails
    \/ Copy \/ CopyEnds
    \/ CloseBoth

ToClient == CopyBack \/ BackEnds

Next == Ends \/ Expire \/ ToUpstream \/ ToClient

Spec == Init /\ [][Next]_vars

(* The goroutines run, and a deadline that is set passes, but nobody       *)
(* obliges the client or upstream to send or to end.                       *)
FairSpec ==
    Spec /\ WF_vars(Expire) /\ WF_vars(ToUpstream) /\ WF_vars(ToClient)

-----------------------------------------------------------------------------
(* Upstream receives the bytes of the client in order, none twice and none *)
(* left out, however they arrive and whatever is cut.  When the direction  *)
(* has ended and no write has failed, it has been given all that was read, *)
(* an unfinished record included; fewer bytes than a header are another    *)
(* matter (proxy.go:69-83).                                                *)
InOrder ==
    /\ out = Bytes(0, Len(out))
    /\ pc \in {"end", "done"} /\ ~cut /\ rd >= Header => Len(out) = rd

(* A first record that the client completes in time is handed to           *)
(* WriteFirst whole, in however many pieces it comes (proxy.go:65-67,      *)
(* 101-103).                                                               *)
WholeRecord ==
    /\ pc \in {"write", "rest", "copy"}
    /\ ~rerr
    /\ hello.tls /\ hello.len \in 1 .. MaxTLSRecord
    => got = Header + hello.len

(* Only the first record is under a deadline: a tunnel that has got past   *)
(* it is closed because one of its ends is, and never for having been idle *)
(* (proxy.go:68-70).                                                       *)
IdleTunnelStays == ~open /\ ~rerr => ClientDone \/ broken \/ done

(* A client that stalls before its first record is complete does not hold  *)
(* the goroutine (proxy.go:66-68).                                         *)
FirstReadEnds == []<>(pc \notin {"arm", "header", "body"})

(* The one that ends first takes the other direction with it               *)
(* (proxy.go:60-64,88).                                                    *)
BothEnd == ~open ~> pc = "done"

(* What upstream has been given at each step of the goroutine, and what    *)
(* has been read of the first record.                                      *)
DataInv ==
    /\ out = Bytes(0, Len(out)) /\ Len(out) <= rd
    /\ pc \in {"arm", "header"} => out = << >> /\ rd = 0 /\ ~rerr
    /\ pc = "body" => /\ out = << >> /\ rd = Header /\ ~rerr
                      /\ hello.tls /\ hello.len \in 1 .. MaxTLSRecord
    /\ pc \in {"write", "rest"} => got = rd /\ rd >= Header
    /\ pc = "rest" => Len(out) < got
    /\ pc = "copy" => Len(out) = rd /\ rd >= Header

(* Why the tunnel was closed, or is about to be: by time only while the    *)
(* deadline is set.                                                        *)
EndInv ==
    /\ armed => pc \in {"header", "body"}
    /\ pc = "end" => rerr \/ ClientDone \/ done \/ ~open

IInv == TypeOK /\ DataInv /\ InOrder /\ WholeRecord /\ EndInv /\ IdleTunnelStays
=============================================================================
