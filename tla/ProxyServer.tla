---------------------------- MODULE ProxyServer ----------------------------
(***************************************************************************)
(* internal/proxy: the accept loop, the connection tracker, the handlers   *)
(* and Close of HTTPProxy and SOCKSProxy, which differ only in how a       *)
(* handler talks to its client.  One proxy, a set of client connections    *)
(* and a set of concurrent calls of Close.                                 *)
(*                                                                         *)
(* A connection is seen through the calls that block on it: which of them  *)
(* return, and which can never return, once either end is closed.  What    *)
(* flows through it is in Relay and Frag.                                  *)
(***************************************************************************)
EXTENDS Integers, FiniteSets

CONSTANTS
    Conns,      \* client connections
    Closers,    \* calls of Close
    Kinds       \* requests each client makes, of "connect", "plain" and "socks"

ASSUME ProxyAssumption ==
    /\ IsFiniteSet(Conns)
    /\ Kinds \in [Conns -> SUBSET {"connect", "plain", "socks"}]

VARIABLES
    ln,         \* the listening socket: "open" or "closed"
    adopted,    \* p.ln is set
    closed,     \* p.closed
    closing,    \* track.closing
    conns,      \* track.conns
    wg,         \* track.wg
    srv,        \* where Serve is
    cur,        \* the connection Serve has accepted last
    cpc,        \* where each Close is
    h,          \* where the handler of each connection is
    g,          \* where relay's client->upstream goroutine is
    kind,       \* the request the handler is serving
    client,     \* the client's socket, at our end
    upstream,   \* the upstream socket, at our end
    left,       \* the client went away
    ended       \* the upstream server ended the connection

server == <<ln, adopted, closed, srv, cur>>
track == <<closing, conns, wg>>
socks == <<client, upstream, left, ended>>
handler == <<h, g, kind>>
vars == <<server, track, cpc, handler, socks>>

Handling == {"request", "dial", "reply", "relay", "forward", "await",
             "respond", "again", "finish"}

TypeOK ==
    /\ ln \in {"open", "closed"}
    /\ adopted \in BOOLEAN /\ closed \in BOOLEAN /\ closing \in BOOLEAN
    /\ conns \subseteq Conns
    /\ wg \in Nat
    /\ srv \in {"idle", "accept", "add", "reject", "returned"}
    /\ cur \in Conns
    /\ cpc \in [Closers -> {"idle", "closeAll", "wait", "drained", "timeout"}]
    /\ h \in [Conns -> {"none", "done"} \cup Handling]
    /\ g \in [Conns -> {"off", "first", "write", "copy", "end"}]
    /\ kind \in [Conns -> {"connect", "plain", "socks"}]
    /\ client \in [Conns -> {"none", "queued", "open", "closed"}]
    /\ upstream \in [Conns -> {"none", "open", "closed"}]
    /\ left \in [Conns -> BOOLEAN]
    /\ ended \in [Conns -> BOOLEAN]

Init ==
    /\ ln = "open"
    /\ adopted = FALSE /\ closed = FALSE /\ closing = FALSE
    /\ conns = {}
    /\ wg = 0
    /\ srv = "idle"
    /\ cur \in Conns
    /\ cpc = [k \in Closers |-> "idle"]
    /\ h = [c \in Conns |-> "none"]
    /\ g = [c \in Conns |-> "off"]
    /\ kind = [c \in Conns |-> "plain"]
    /\ client = [c \in Conns |-> "none"]
    /\ upstream = [c \in Conns |-> "none"]
    /\ left = [c \in Conns |-> FALSE]
    /\ ended = [c \in Conns |-> FALSE]

-----------------------------------------------------------------------------
(* The other ends. *)

Connect(c) ==
    /\ client[c] = "none" /\ ln = "open"
    /\ client' = [client EXCEPT ![c] = "queued"]
    /\ UNCHANGED <<server, track, cpc, handler, upstream, left, ended>>

Leave(c) ==
    /\ client[c] = "open" /\ ~left[c]
    /\ left' = [left EXCEPT ![c] = TRUE]
    /\ UNCHANGED <<server, track, cpc, handler, client, upstream, ended>>

UpstreamEnds(c) ==
    /\ upstream[c] = "open" /\ ~ended[c]
    /\ ended' = [ended EXCEPT ![c] = TRUE]
    /\ UNCHANGED <<server, track, cpc, handler, client, upstream, left>>

-----------------------------------------------------------------------------
(* Serve.  Closing the listener resets what waits in its backlog.          *)

CloseListener ==
    /\ ln' = "closed"
    /\ client' = [c \in Conns |-> IF client[c] = "queued" THEN "closed"
                                  ELSE client[c]]

ServeClosed ==
    /\ srv = "idle"
    /\ closed
    /\ srv' = "returned"
    /\ CloseListener
    /\ UNCHANGED <<adopted, closed, cur, track, cpc, handler, upstream, left,
                   ended>>

Adopt ==
    /\ srv = "idle"
    /\ ~closed
    /\ adopted' = TRUE
    /\ srv' = "accept"
    /\ UNCHANGED <<ln, closed, cur, track, cpc, handler, socks>>

Accept(c) ==
    /\ srv = "accept"
    /\ ln = "open" /\ client[c] = "queued"
    /\ client' = [client EXCEPT ![c] = "open"]
    /\ cur' = c
    /\ srv' = "add"
    /\ UNCHANGED <<ln, adopted, closed, track, cpc, handler, upstream, left,
                   ended>>

(* Any error of Accept ends Serve: the listener was closed, or the system  *)
(* is out of descriptors, in which case nobody closes it.                  *)
AcceptFails ==
    /\ srv = "accept"
    /\ srv' = "returned"
    /\ UNCHANGED <<ln, adopted, closed, cur, track, cpc, handler, socks>>

(* Mutated: add does not count the handler. *)
AddOK_NotCounted ==
    /\ srv = "add"
    /\ ~closing
    /\ conns' = conns \cup {cur}
    /\ h' = [h EXCEPT ![cur] = "request"]
    /\ srv' = "accept"
    /\ UNCHANGED <<ln, adopted, closed, cur, closing, wg, cpc, g, kind, socks>>

(* Mutated: the closing flag is not looked at. *)
AddOK_Always ==
    /\ srv = "add"
    /\ conns' = conns \cup {cur}
    /\ wg' = wg + 1
    /\ h' = [h EXCEPT ![cur] = "request"]
    /\ srv' = "accept"
    /\ UNCHANGED <<ln, adopted, closed, cur, closing, cpc, g, kind, socks>>

(* track.add accepts the connection, and its handler is started. *)
AddOK ==
    /\ srv = "add"
    /\ ~closing
    /\ conns' = conns \cup {cur}
    /\ wg' = wg + 1
    /\ h' = [h EXCEPT ![cur] = "request"]
    /\ srv' = "accept"
    /\ UNCHANGED <<ln, adopted, closed, cur, closing, cpc, g, kind, socks>>

(* track.add refuses it; Serve closes it after the lock is released. *)
AddRefused ==
    /\ srv = "add"
    /\ closing
    /\ srv' = "reject"
    /\ UNCHANGED <<ln, adopted, closed, cur, track, cpc, handler, socks>>

Reject ==
    /\ srv = "reject"
    /\ client' = [client EXCEPT ![cur] = "closed"]
    /\ srv' = "accept"
    /\ UNCHANGED <<ln, adopted, closed, cur, track, cpc, handler, upstream,
                   left, ended>>

-----------------------------------------------------------------------------
(* Close. *)

(* Mutated: Close does not remember that it was called. *)
CloseLn_Forgets(k) ==
    /\ cpc[k] = "idle"
    /\ cpc' = [cpc EXCEPT ![k] = "closeAll"]
    /\ IF adopted THEN CloseListener ELSE UNCHANGED <<ln, client>>
    /\ UNCHANGED <<adopted, closed, srv, cur, track, handler, upstream, left,
                   ended>>

CloseLn(k) ==
    /\ cpc[k] = "idle"
    /\ cpc' = [cpc EXCEPT ![k] = "closeAll"]
    /\ closed' = TRUE
    /\ IF adopted THEN CloseListener ELSE UNCHANGED <<ln, client>>
    /\ UNCHANGED <<adopted, srv, cur, track, handler, upstream, left, ended>>

CloseAll(k) ==
    /\ cpc[k] = "closeAll"
    /\ cpc' = [cpc EXCEPT ![k] = "wait"]
    /\ closing' = TRUE
    /\ client' = [c \in Conns |-> IF c \in conns THEN "closed" ELSE client[c]]
    /\ UNCHANGED <<server, conns, wg, handler, upstream, left, ended>>

(* track.wait: the WaitGroup is at zero, or drainTimeout is over. *)
Drained(k) ==
    /\ cpc[k] = "wait"
    /\ wg = 0
    /\ cpc' = [cpc EXCEPT ![k] = "drained"]
    /\ UNCHANGED <<server, track, handler, socks>>

DrainTimeout(k) ==
    /\ cpc[k] = "wait"
    /\ cpc' = [cpc EXCEPT ![k] = "timeout"]
    /\ UNCHANGED <<server, track, handler, socks>>

-----------------------------------------------------------------------------
(* A handler, up to the tunnel.                                            *)

Move(c, s) == h' = [h EXCEPT ![c] = s]

Shut(f, c) ==
    [f EXCEPT ![c] = IF f[c] = "open" THEN "closed" ELSE f[c]]

(* The handler closes both its ends and is about to return. *)
EndHandler(c) ==
    /\ Move(c, "finish")
    /\ client' = Shut(client, c)
    /\ upstream' = Shut(upstream, c)

(* A request is read: the first one, from an open socket, or a further one *)
(* of a kept-alive client, which may have been buffered before the socket  *)
(* was closed.  handlePlain serves whatever follows as plain.              *)
Request(c, kd) ==
    /\ \/ h[c] = "request" /\ client[c] = "open" /\ kind' = [kind EXCEPT ![c] = kd]
       \/ h[c] = "again" /\ UNCHANGED kind
    /\ Move(c, "dial")
    /\ UNCHANGED <<server, track, cpc, g, socks>>

(* Garbage, a missing host, an unsupported command, or no more bytes. *)
BadRequest(c) ==
    /\ h[c] \in {"request", "again"}
    /\ EndHandler(c)
    /\ UNCHANGED <<server, track, cpc, g, kind, left, ended>>

(* dialUpstream, which its context bounds. *)
Dialed(c) ==
    /\ h[c] = "dial"
    /\ upstream' = [upstream EXCEPT ![c] = "open"]
    /\ ended' = [ended EXCEPT ![c] = FALSE]
    /\ Move(c, IF kind[c] = "plain" THEN "forward" ELSE "reply")
    /\ UNCHANGED <<server, track, cpc, g, kind, client, left>>

DialFails(c) ==
    /\ h[c] = "dial"
    /\ EndHandler(c)
    /\ UNCHANGED <<server, track, cpc, g, kind, left, ended>>

(* The success reply.  handleConnect gives up when it cannot be written,   *)
(* the SOCKS handler does not look.                                        *)
Replied(c) ==
    /\ h[c] = "reply"
    /\ client[c] = "open" \/ kind[c] = "socks"
    /\ Move(c, "relay")
    /\ g' = [g EXCEPT ![c] = "first"]
    /\ UNCHANGED <<server, track, cpc, kind, socks>>

(* Mutated: a failed reply closes the client only. *)
ReplyFails_LeaksUpstream(c) ==
    /\ h[c] = "reply" /\ kind[c] = "connect"
    /\ client[c] = "closed" \/ left[c]
    /\ Move(c, "finish")
    /\ client' = Shut(client, c)
    /\ UNCHANGED <<server, track, cpc, g, kind, upstream, left, ended>>

ReplyFails(c) ==
    /\ h[c] = "reply" /\ kind[c] = "connect"
    /\ client[c] = "closed" \/ left[c]
    /\ EndHandler(c)
    /\ UNCHANGED <<server, track, cpc, g, kind, left, ended>>

-----------------------------------------------------------------------------
(* relay: the upstream->client copy runs in the handler, the other         *)
(* direction in a goroutine, and the first of them to end closes both      *)
(* connections.                                                            *)

(* io.Copy(client, upstream) ends when reading upstream ends ... *)
CopyEnds(c) ==
    /\ h[c] = "relay"
    /\ upstream[c] = "closed" \/ ended[c]
    /\ EndHandler(c)
    /\ UNCHANGED <<server, track, cpc, g, kind, left, ended>>

(* ... or when upstream sends something that the client cannot take.       *)
CopyWriteFails(c) ==
    /\ h[c] = "relay"
    /\ client[c] = "closed" \/ left[c]
    /\ EndHandler(c)
    /\ UNCHANGED <<server, track, cpc, g, kind, left, ended>>

(* readFirstRecord has bytes for WriteFirst ... *)
FirstRecord(c) ==
    /\ g[c] = "first"
    /\ g' = [g EXCEPT ![c] = "write"]
    /\ UNCHANGED <<server, track, cpc, h, kind, socks>>

(* ... or none, because the client is gone, closed or too slow.            *)
NoFirstRecord(c) ==
    /\ g[c] = "first"
    /\ g' = [g EXCEPT ![c] = "end"]
    /\ UNCHANGED <<server, track, cpc, h, kind, socks>>

(* Upstream takes the bytes; a first record cut short ends the direction.  *)
WriteUpstream(c) ==
    /\ g[c] = "write" /\ upstream[c] = "open"
    /\ \E s \in {"copy", "end"} : g' = [g EXCEPT ![c] = s]
    /\ UNCHANGED <<server, track, cpc, h, kind, socks>>

WriteUpstreamFails(c) ==
    /\ g[c] = "write"
    /\ upstream[c] = "closed" \/ ended[c]
    /\ g' = [g EXCEPT ![c] = "end"]
    /\ UNCHANGED <<server, track, cpc, h, kind, socks>>

ReadClient(c) ==
    /\ g[c] = "copy" /\ client[c] = "open"
    /\ g' = [g EXCEPT ![c] = "write"]
    /\ UNCHANGED <<server, track, cpc, h, kind, socks>>

ReadClientEnds(c) ==
    /\ g[c] = "copy"
    /\ client[c] = "closed" \/ left[c]
    /\ g' = [g EXCEPT ![c] = "end"]
    /\ UNCHANGED <<server, track, cpc, h, kind, socks>>

(* Mutated: closeBoth of the goroutine forgets the upstream. *)
CloseBoth_ClientOnly(c) ==
    /\ g[c] = "end"
    /\ g' = [g EXCEPT ![c] = "off"]
    /\ client' = Shut(client, c)
    /\ UNCHANGED <<server, track, cpc, h, kind, upstream, left, ended>>

(* The deferred closeBoth of the goroutine. *)
CloseBoth(c) ==
    /\ g[c] = "end"
    /\ g' = [g EXCEPT ![c] = "off"]
    /\ client' = Shut(client, c)
    /\ upstream' = Shut(upstream, c)
    /\ UNCHANGED <<server, track, cpc, h, kind, left, ended>>

-----------------------------------------------------------------------------
(* handlePlain.  It reads from upstream without a deadline.                *)

Forward(c) ==
    /\ h[c] = "forward"
    /\ Move(c, "await")
    /\ UNCHANGED <<server, track, cpc, g, kind, socks>>

(* The request's body ends early, or upstream is gone. *)
ForwardFails(c) ==
    /\ h[c] = "forward"
    /\ client[c] = "closed" \/ left[c] \/ ended[c]
    /\ EndHandler(c)
    /\ UNCHANGED <<server, track, cpc, g, kind, left, ended>>

ResponseRead(c) ==
    /\ h[c] = "await"
    /\ Move(c, "respond")
    /\ UNCHANGED <<server, track, cpc, g, kind, socks>>

NoResponse(c) ==
    /\ h[c] = "await"
    /\ ended[c]
    /\ EndHandler(c)
    /\ UNCHANGED <<server, track, cpc, g, kind, left, ended>>

(* The response is copied to the client and upstream is closed; the client *)
(* connection is kept for another request.                                 *)
KeepAlive(c) ==
    /\ h[c] = "respond"
    /\ client[c] = "open"
    /\ Move(c, "again")
    /\ upstream' = Shut(upstream, c)
    /\ UNCHANGED <<server, track, cpc, g, kind, client, left, ended>>

(* It is not: one end asked to close, or the response could not be copied. *)
(* The body is read from upstream, and what is left of it is drained,      *)
(* without a deadline: nothing obliges this to end while upstream is there.*)
LastResponse(c) ==
    /\ h[c] = "respond"
    /\ EndHandler(c)
    /\ UNCHANGED <<server, track, cpc, g, kind, left, ended>>

-----------------------------------------------------------------------------
(* The deferred track.remove, as the handler's goroutine ends. *)
Remove(c) ==
    /\ h[c] = "finish"
    /\ Move(c, "done")
    /\ IF c \in conns THEN conns' = conns \ {c} /\ wg' = wg - 1
       ELSE UNCHANGED <<conns, wg>>
    /\ UNCHANGED <<server, closing, cpc, g, kind, socks>>

Serve ==
    \/ ServeClosed \/ Adopt
    \/ \E c \in Conns : Accept(c)
    \/ AcceptFails
    \/ AddOK \/ AddRefused \/ Reject

Close(k) == CloseLn(k) \/ CloseAll(k) \/ Drained(k) \/ DrainTimeout(k)

Environment(c) == Connect(c) \/ Leave(c) \/ UpstreamEnds(c)

Handle(c) ==
    \/ \E kd \in Kinds[c] : Request(c, kd)
    \/ BadRequest(c)
    \/ Dialed(c) \/ DialFails(c)
    \/ Replied(c) \/ ReplyFails(c)
    \/ Forward(c) \/ ForwardFails(c)
    \/ ResponseRead(c) \/ NoResponse(c)
    \/ KeepAlive(c) \/ LastResponse(c)
    \/ Remove(c)

Relay(c) ==
    \/ CopyEnds(c) \/ CopyWriteFails(c)
    \/ FirstRecord(c) \/ NoFirstRecord(c)
    \/ WriteUpstream(c) \/ WriteUpstreamFails(c)
    \/ ReadClient(c) \/ ReadClientEnds(c)
    \/ CloseBoth(c)

Next ==
    \/ Serve
    \/ \E k \in Closers : Close(k)
    \/ \E c \in Conns : Environment(c) \/ Handle(c) \/ Relay(c)

Spec == Init /\ [][Next]_vars

(* What happens without anybody's help: goroutines run, reads and writes   *)
(* of a socket closed at this end fail, so do those of an upstream that is *)
(* gone, and dialing and the first record are bounded by cfg.Timeout.      *)
(* Nothing obliges clients to send or to read, or upstream to read, to     *)
(* answer or to end what it has begun to answer.                           *)
Fairness ==
    /\ WF_vars(ServeClosed) /\ WF_vars(Adopt)
    /\ WF_vars(AddOK) /\ WF_vars(AddRefused) /\ WF_vars(Reject)
    /\ WF_vars(ln = "closed" /\ AcceptFails)
    /\ \A k \in Closers :
          WF_vars(CloseAll(k)) /\ WF_vars(Drained(k) \/ DrainTimeout(k))
    /\ \A c \in Conns :
          /\ WF_vars(client[c] # "open" /\ BadRequest(c))
          /\ WF_vars(Dialed(c) \/ DialFails(c))
          /\ WF_vars(Replied(c) \/ ReplyFails(c))
          /\ WF_vars(client[c] # "open" /\ CopyEnds(c))
          /\ WF_vars(FirstRecord(c) \/ NoFirstRecord(c))
          /\ WF_vars(upstream[c] = "closed" /\ WriteUpstreamFails(c))
          /\ WF_vars(ReadClientEnds(c))
          /\ WF_vars(CloseBoth(c))
          /\ WF_vars(ended[c] /\ ForwardFails(c))
          /\ WF_vars(NoResponse(c))
          /\ WF_vars(client[c] # "open" /\ ended[c] /\ LastResponse(c))
          /\ WF_vars(Remove(c))

FairSpec == Spec /\ Fairness

-----------------------------------------------------------------------------
(* The WaitGroup that Close waits on counts exactly the running handlers,  *)
(* and so never goes below zero, whichever way handlers end and however    *)
(* accepting and closing interleave (proxy.go:138-161).                    *)
CountsHandlers ==
    /\ conns = {c \in Conns : h[c] \in Handling}
    /\ wg = Cardinality(conns)

(* The accept-vs-Close window: once closeAll has run, every connection     *)
(* that is being served has had its client socket closed, including one    *)
(* accepted just before, so none outlives the proxy unnoticed              *)
(* (proxy.go:135-149, http.go:61-64).                                      *)
NoDoomedConnServed ==
    closing => \A c \in Conns : h[c] \in Handling => client[c] = "closed"

(* A handler that has returned, on whichever of its paths, leaves neither  *)
(* socket open (http.go:93-204, socks5.go:93-154, proxy.go:59-89).         *)
NoSocketLeaks ==
    \A c \in Conns : h[c] \in {"finish", "done"} =>
       client[c] = "closed" /\ upstream[c] # "open"

(* A Close that drained within its timeout leaves nothing behind: no       *)
(* handler runs, now or later, and both ends of every connection ever      *)
(* served are closed (http.go:72-91).                                      *)
DrainedIsQuiet ==
    (\E k \in Closers : cpc[k] = "drained") =>
       /\ wg = 0
       /\ \A c \in Conns : h[c] # "none" =>
             h[c] = "done" /\ client[c] = "closed" /\ upstream[c] # "open"

(* Nobody adds to the WaitGroup once somebody waits on it, which is what   *)
(* sync.WaitGroup requires of its users (proxy.go:138-150,177-186).        *)
NoAddDuringWait ==
    [][(\E k \in Closers : cpc[k] = "wait") => wg' <= wg]_vars

(* What these rest on.  A connection that is queued has no handler, the    *)
(* one Serve holds has none yet and no tunnel either, and Close waits only *)
(* after closeAll.                                                         *)
AcceptInv ==
    /\ \A c \in Conns : client[c] \in {"none", "queued"} => h[c] = "none"
    /\ \A c \in Conns : h[c] = "none" => g[c] = "off"
    /\ srv = "add" => h[cur] = "none" /\ client[cur] = "open"

CloseInv ==
    \A k \in Closers :
       /\ cpc[k] \in {"wait", "drained", "timeout"} => closing
       /\ cpc[k] = "drained" => wg = 0

IInv ==
    /\ TypeOK /\ CountsHandlers /\ NoDoomedConnServed /\ NoSocketLeaks
    /\ AcceptInv /\ CloseInv

(* Close, called at whatever moment before, while or after Serve adopts    *)
(* the listener, gets the port released (http.go:32-34,43-56).             *)
ListenerReleased ==
    \A k \in Closers : cpc[k] # "idle" ~> ln = "closed"

(* A handler that blocks in a read from upstream, or a write to it, that   *)
(* has no deadline.  In a tunnel the goroutine writes it; the handler reads *)
(* there too, and ends when the goroutine has closed both ends.            *)
AwaitsUpstream(c) ==
    /\ ~ended[c] /\ upstream[c] = "open"
    /\ \/ h[c] \in {"forward", "await", "respond"}
       \/ h[c] = "relay" /\ g[c] = "write"

(* Closing the client side alone ends every connection: its handler        *)
(* returns and both of its sockets are closed.  All that a handler can be  *)
(* left with is an upstream that neither moves nor goes away, for ever     *)
(* (proxy.go:61,175-176, http.go:86-87,186-192).                           *)
TunnelsEnd ==
    \A c \in Conns :
       \/ closing /\ h[c] \in Handling ~> h[c] = "done" /\ upstream[c] # "open"
       \/ <>[]AwaitsUpstream(c)
=============================================================================
