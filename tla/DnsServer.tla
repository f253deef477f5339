------------------------------ MODULE DnsServer ------------------------------
(***************************************************************************)
(* internal/dnssrv with the exchange of internal/doh: one server, which is *)
(* a dns.Server over UDP and one over TCP, the handlers of the queries     *)
(* they take, and the two calls of Shutdown that may meet: its owner's and *)
(* the one that ListenAndServe makes itself.                               *)
(*                                                                         *)
(* A dns.Server that is shut down takes no more queries, and returns when  *)
(* the handlers of those it has taken are done.  Shutdown waits for that,  *)
(* but only once: called on a server that is not up, or has been shut down *)
(* already, it is an error at once.  Nothing here ends by itself when the  *)
(* process does; the module of the process sees to that.                   *)
(***************************************************************************)
EXTENDS Integers

CONSTANTS
    Queries,        \* queries that clients send
    Proto,          \* the protocol of each
    IdOf,           \* and its Id, which clients choose
    Ids,            \* the Ids there are
    MaxFails,       \* bound on sockets that cannot be bound, or fail later
    None

Protocols == {"udp", "tcp"}
Failed == "SERVFAIL"

ASSUME DnsAssumption ==
    /\ Proto \in [Queries -> Protocols]
    /\ IdOf \in [Queries -> Ids]
    /\ MaxFails \in Nat
    /\ None \notin Ids /\ Failed \notin Ids /\ None # Failed

VARIABLES
    las,        \* where ListenAndServe is
    sock,       \* the two servers
    first,      \* what the first of them has returned
    st,         \* where the handler of each query is
    reply,      \* the message that it has written: its Id and its code
    fails       \* failures that may still happen

handlers == <<st, reply>>
dnsVars == <<las, sock, first, handlers, fails>>

InFlight(q) == st[q] = "exchange"

DnsTypeOK ==
    /\ las \in {"off", "bindUDP", "bindTCP", "serve", "udp", "udpWait", "tcp",
                "tcpWait", "returned"}
    /\ sock \in [Protocols -> {"none", "bound", "active", "stopping", "failing",
                               "ended", "failed"}]
    /\ first \in {"none", "nil", "failed"}
    /\ st \in [Queries -> {"none", "exchange", "answered"}]
    /\ reply \in [Queries -> (Ids \X {"NOERROR", Failed}) \cup {None}]
    /\ fails \in 0 .. MaxFails

DnsInit ==
    /\ las = "off"
    /\ sock = [p \in Protocols |-> "none"]
    /\ first = "none"
    /\ st = [q \in Queries |-> "none"]
    /\ reply = [q \in Queries |-> None]
    /\ fails = MaxFails

Fails == fails > 0 /\ fails' = fails - 1

-----------------------------------------------------------------------------
(* The handler.  A query that the server has not taken is lost, as is one  *)
(* that comes when nobody listens: clients try again.                      *)

Receive(q) ==
    /\ st[q] = "none" /\ sock[Proto[q]] = "active"
    /\ st' = [st EXCEPT ![q] = "exchange"]
    /\ UNCHANGED <<las, sock, first, reply, fails>>

(* Exchange over HTTP.  Nothing makes the Id of the answer the query's:    *)
(* RFC 8484 has clients send zero, and caches answer with what they hold.  *)
(* It fails for a message that cannot be packed, for want of a connection  *)
(* or of an answer in time, at another status than 200, and at a body that *)
(* is cut short or is no DNS message.                                      *)
Exchange == Ids \cup {Failed}

(* Mutated: the answer goes out under the Id that the DoH server gave it. *)
Message_ItsId(q, r) ==
    IF r = Failed THEN <<IdOf[q], Failed>> ELSE <<r, "NOERROR">>

Message(q, r) ==
    IF r = Failed THEN <<IdOf[q], Failed>> ELSE <<IdOf[q], "NOERROR">>

Handle(q) ==
    /\ st[q] = "exchange"
    /\ \E r \in Exchange : reply' = [reply EXCEPT ![q] = Message(q, r)]
    /\ st' = [st EXCEPT ![q] = "answered"]
    /\ UNCHANGED <<las, sock, first, fails>>

-----------------------------------------------------------------------------
(* The two servers. *)

Activate(p) ==
    /\ las \notin {"off", "bindUDP", "bindTCP"}
    /\ sock[p] = "bound"
    /\ sock' = [sock EXCEPT ![p] = "active"]
    /\ UNCHANGED <<las, first, handlers, fails>>

ReadFails(p) ==
    /\ sock[p] = "active" /\ Fails
    /\ sock' = [sock EXCEPT ![p] = "failing"]
    /\ UNCHANGED <<las, first, handlers>>

ServerReturns(p) ==
    /\ sock[p] \in {"stopping", "failing"}
    /\ \A q \in Queries : Proto[q] = p => ~InFlight(q)
    /\ sock' = [sock EXCEPT ![p] = IF @ = "failing" THEN "failed" ELSE "ended"]
    /\ UNCHANGED <<las, first, handlers, fails>>

(* Shutdown of one of them, as a call and a wait that not every call needs. *)
Stops(p) ==
    sock' = [sock EXCEPT ![p] = IF @ = "active" THEN "stopping" ELSE @]

Waits(p) == sock[p] \in {"active", "failing"}
Returned(p) == sock[p] \in {"ended", "failed"}

-----------------------------------------------------------------------------
(* ListenAndServe. *)

BindUDP ==
    /\ las = "bindUDP"
    /\ \/ las' = "bindTCP" /\ sock' = [sock EXCEPT !["udp"] = "bound"]
          /\ UNCHANGED <<first, fails>>
       \/ las' = "returned" /\ first' = "failed" /\ Fails
          /\ UNCHANGED sock
    /\ UNCHANGED handlers

BindTCP ==
    /\ las = "bindTCP"
    /\ \/ las' = "serve" /\ sock' = [sock EXCEPT !["tcp"] = "bound"]
          /\ UNCHANGED <<first, fails>>
       \/ las' = "returned" /\ sock' = [sock EXCEPT !["udp"] = "none"]
          /\ first' = "failed" /\ Fails
    /\ UNCHANGED handlers

(* Mutated: it waits for both servers. *)
FirstExit_Both ==
    /\ las = "serve"
    /\ \A p \in Protocols : Returned(p)
    /\ first' = IF \E p \in Protocols : sock[p] = "failed" THEN "failed" ELSE "nil"
    /\ las' = "udp"
    /\ UNCHANGED <<sock, handlers, fails>>

FirstExit ==
    /\ las = "serve"
    /\ \E p \in Protocols :
          /\ Returned(p)
          /\ first' = IF sock[p] = "failed" THEN "failed" ELSE "nil"
    /\ las' = "udp"
    /\ UNCHANGED <<sock, handlers, fails>>

OwnShutdown(p) ==
    /\ las = p
    /\ Stops(p)
    /\ las' = IF Waits(p) THEN IF p = "udp" THEN "udpWait" ELSE "tcpWait"
              ELSE IF p = "udp" THEN "tcp" ELSE "returned"
    /\ UNCHANGED <<first, handlers, fails>>

OwnWait ==
    /\ \/ las = "udpWait" /\ Returned("udp") /\ las' = "tcp"
       \/ las = "tcpWait" /\ Returned("tcp") /\ las' = "returned"
    /\ UNCHANGED <<sock, first, handlers, fails>>

-----------------------------------------------------------------------------
ListenAndServe ==
    \/ BindUDP \/ BindTCP \/ FirstExit
    \/ \E p \in Protocols : OwnShutdown(p)
    \/ OwnWait

(* A query that was taken is answered under its own Id, with what the DoH  *)
(* server said or with SERVFAIL (server.go:34-48).                         *)
AnsweredOwn(q) ==
    /\ st[q] = "answered"
    /\ reply[q] \in {<<IdOf[q], "NOERROR">>, <<IdOf[q], Failed>>}
=============================================================================
