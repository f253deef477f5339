--------------------------------- MODULE Cli ---------------------------------
(***************************************************************************)
(* cmd/psdns: the process that psdns resolve, proxy and run are.  Each     *)
(* server runs in a goroutine and reports its end to the one channel that  *)
(* main reads once; a goroutine waits for a signal, stops the servers one  *)
(* after the other and exits.  Whoever gets there first ends the process,  *)
(* and with it everybody else.                                             *)
(*                                                                         *)
(* The DNS server is that of DnsServer.  A proxy is its listener, the      *)
(* tunnel of a client, and the parts of its Close that the process may end *)
(* between; what Close waits for ends by itself or with drainTimeout       *)
(* (ProxyServer).                                                          *)
(***************************************************************************)
EXTENDS DnsServer

CONSTANTS Modes     \* subset of {"resolve", "proxy", "run"}

ASSUME CliAssumption == Modes \subseteq {"resolve", "proxy", "run"}

VARIABLES
    mode,       \* the subcommand
    main,       \* where main is
    code,       \* the exit code
    sig,        \* whether signal.Notify was called, and the signal is here
    stop,       \* what onSignal stops, or is about to
    step,       \* where in the Close of a proxy, or the Shutdown of a server
    serve,      \* the goroutine of each proxy
    closed,     \* p.closed
    tunnel      \* a tunnel through each proxy

proxies == <<serve, closed, tunnel>>
process == <<mode, main, code, sig, stop, step>>
vars == <<dnsVars, process, proxies>>

Proxies == {"http", "socks"}

CliTypeOK ==
    /\ mode \in Modes
    /\ main \in {"flags", "serving", "exited"}
    /\ code \in {"none", "zero", "one", "killed"}
    /\ sig \in {"default", "caught", "got"}
    /\ stop \in {"idle", "udp", "tcp", "http", "socks", "end"}
    /\ step \in {"call", "wait", "drain"}
    /\ serve \in [Proxies -> {"off", "begin", "serving", "returned", "failed"}]
    /\ closed \in [Proxies -> BOOLEAN]
    /\ tunnel \in [Proxies -> {"none", "open"}]

TypeOK == DnsTypeOK /\ CliTypeOK

Init ==
    /\ DnsInit
    /\ mode \in Modes
    /\ main = "flags" /\ code = "none"
    /\ sig = "default"
    /\ stop = "idle" /\ step = "call"
    /\ serve = [k \in Proxies |-> "off"]
    /\ closed = [k \in Proxies |-> FALSE]
    /\ tunnel = [k \in Proxies |-> "none"]

Exit(c) == main' = "exited" /\ code' = c

-----------------------------------------------------------------------------
(* main, which reads flags and builds the servers.                         *)

(* An unknown flag, strategy or delay, or a DoH URL that is none. *)
Refuse ==
    /\ main = "flags"
    /\ Exit("one")
    /\ UNCHANGED <<dnsVars, proxies, mode, sig, stop, step>>

Launch ==
    /\ main = "flags"
    /\ main' = "serving"
    /\ las' = IF mode = "proxy" THEN "off" ELSE "bindUDP"
    /\ serve' = [k \in Proxies |-> IF mode = "resolve" THEN "off" ELSE "begin"]
    /\ UNCHANGED <<sock, first, handlers, fails, closed, tunnel, mode, code, sig, stop, step>>

(* Mutated: main waits for all of the servers. *)
Ended_All ==
    /\ mode # "proxy" => las = "returned"
    /\ mode # "resolve" => \A k \in Proxies : serve[k] \in {"returned", "failed"}

(* A server has reported its end. *)
Ended ==
    \/ las = "returned"
    \/ \E k \in Proxies : serve[k] \in {"returned", "failed"}

(* runResolve returns when its only server was shut down; all else is      *)
(* fatal.                                                                  *)
MainReturns ==
    /\ main = "serving"
    /\ Ended
    /\ Exit(IF mode = "resolve" /\ first = "nil" THEN "zero" ELSE "one")
    /\ UNCHANGED <<dnsVars, proxies, mode, sig, stop, step>>

-----------------------------------------------------------------------------
(* The goroutine of a proxy. *)

(* ListenAndServe up to the accept loop: no port, or a Close was there     *)
(* before.                                                                 *)
Listen(k) ==
    /\ serve[k] = "begin"
    /\ \/ serve' = [serve EXCEPT ![k] = "failed"] /\ Fails
       \/ serve' = [serve EXCEPT ![k] = IF closed[k] THEN "returned" ELSE "serving"]
          /\ UNCHANGED fails
    /\ UNCHANGED <<las, sock, first, handlers, process, closed, tunnel>>

Accept(k) ==
    /\ serve[k] = "serving" /\ tunnel[k] = "none"
    /\ tunnel' = [tunnel EXCEPT ![k] = "open"]
    /\ UNCHANGED <<dnsVars, process, serve, closed>>

TunnelEnds(k) ==
    /\ tunnel[k] = "open"
    /\ tunnel' = [tunnel EXCEPT ![k] = "none"]
    /\ UNCHANGED <<dnsVars, process, serve, closed>>

AcceptFails(k) ==
    /\ serve[k] = "serving" /\ Fails
    /\ serve' = [serve EXCEPT ![k] = "failed"]
    /\ UNCHANGED <<las, sock, first, handlers, process, closed, tunnel>>

-----------------------------------------------------------------------------
(* onSignal. *)

(* Mutated: the DNS server is stopped last. *)
After_DnsLast(s) ==
    CASE s = "idle" -> IF mode = "resolve" THEN "udp" ELSE "http"
      [] s = "http" -> "socks"
      [] s = "socks" -> IF mode = "run" THEN "udp" ELSE "end"
      [] s = "udp" -> "tcp"
      [] OTHER -> "end"

(* What is stopped after s: the servers in the order of the subcommand. *)
After(s) ==
    CASE s = "idle" -> IF mode = "proxy" THEN "http" ELSE "udp"
      [] s = "udp" -> "tcp"
      [] s = "tcp" -> IF mode = "run" THEN "http" ELSE "end"
      [] s = "http" -> "socks"
      [] OTHER -> "end"

Notify ==
    /\ main = "serving" /\ sig = "default"
    /\ sig' = "caught"
    /\ UNCHANGED <<dnsVars, proxies, mode, main, code, stop, step>>

(* A signal before that ends the process, and one after the first is lost. *)
Signal ==
    /\ \/ sig = "default" /\ Exit("killed") /\ UNCHANGED <<sig, stop>>
       \/ sig = "caught" /\ sig' = "got" /\ UNCHANGED <<main, code>>
          /\ stop' = After("idle")
    /\ UNCHANGED <<dnsVars, proxies, mode, step>>

Shutdown(p) ==
    /\ stop = p /\ step = "call"
    /\ Stops(p)
    /\ IF Waits(p) THEN step' = "wait" /\ UNCHANGED stop
       ELSE stop' = After(p) /\ UNCHANGED step
    /\ UNCHANGED <<las, first, handlers, fails, proxies, mode, main, code, sig>>

ShutdownWait(p) ==
    /\ stop = p /\ step = "wait"
    /\ Returned(p)
    /\ stop' = After(p) /\ step' = "call"
    /\ UNCHANGED <<dnsVars, proxies, mode, main, code, sig>>

(* The accept loop ends with its listener. *)
CloseListener(k) ==
    /\ stop = k /\ step = "call"
    /\ step' = "wait"
    /\ closed' = [closed EXCEPT ![k] = TRUE]
    /\ serve' = [serve EXCEPT ![k] = IF @ = "serving" THEN "returned" ELSE @]
    /\ UNCHANGED <<dnsVars, tunnel, mode, main, code, sig, stop>>

CloseAll(k) ==
    /\ stop = k /\ step = "wait"
    /\ step' = "drain"
    /\ tunnel' = [tunnel EXCEPT ![k] = "none"]
    /\ UNCHANGED <<dnsVars, serve, closed, mode, main, code, sig, stop>>

Drain(k) ==
    /\ stop = k /\ step = "drain"
    /\ stop' = After(k) /\ step' = "call"
    /\ UNCHANGED <<dnsVars, proxies, mode, main, code, sig>>

StopReturns ==
    /\ stop = "end"
    /\ Exit("zero")
    /\ UNCHANGED <<dnsVars, proxies, mode, sig, stop, step>>

-----------------------------------------------------------------------------
OnSignal ==
    \/ \E p \in Protocols : Shutdown(p) \/ ShutdownWait(p)
    \/ \E k \in Proxies : CloseListener(k) \/ CloseAll(k) \/ Drain(k)
    \/ StopReturns

Dns(A) == A /\ UNCHANGED <<process, proxies>>

Running == main # "exited"

Next ==
    /\ Running
    /\ \/ Refuse \/ Launch \/ MainReturns
       \/ Notify \/ Signal \/ OnSignal
       \/ \E k \in Proxies : Listen(k) \/ Accept(k) \/ TunnelEnds(k) \/ AcceptFails(k)
       \/ Dns(ListenAndServe)
       \/ \E p \in Protocols :
             Dns(Activate(p)) \/ Dns(ReadFails(p)) \/ Dns(ServerReturns(p))
       \/ \E q \in Queries : Dns(Receive(q)) \/ Dns(Handle(q))

Spec == Init /\ [][Next]_vars

(* Goroutines run for as long as the process does, and Exchange ends in    *)
(* time.  Nobody has to send queries or signals, and no server to fail.    *)
Fairness ==
    /\ WF_vars(Running /\ Launch)
    /\ WF_vars(Running /\ MainReturns)
    /\ WF_vars(Running /\ Notify)
    /\ WF_vars(Running /\ OnSignal)
    /\ WF_vars(Running /\ Dns(ListenAndServe))
    /\ \A k \in Proxies : WF_vars(Running /\ Listen(k))
    /\ \A p \in Protocols :
          /\ WF_vars(Running /\ Dns(Activate(p)))
          /\ WF_vars(Running /\ Dns(ServerReturns(p)))
    /\ \A q \in Queries : WF_vars(Running /\ Dns(Handle(q)))

FairSpec == Spec /\ Fairness
-----------------------------------------------------------------------------
(* The process does not go on with some of its servers: once one of them   *)
(* has returned, for whatever reason, or a signal has come, it ends        *)
(* (main.go:180-186,207-214,218-225; server.go:68-73).                     *)
EndsAsAWhole ==
    Ended \/ (\E p \in Protocols : Returned(p)) \/ sig = "got" ~> ~Running

(* Every query that was taken is answered, under its own Id, with what the *)
(* DoH server says or with SERVFAIL, unless the process ends before        *)
(* (server.go:34-48).                                                      *)
QueriesAnswered ==
    \A q \in Queries : InFlight(q) ~> AnsweredOwn(q) \/ ~Running

NothingFailed == fails = MaxFails

(* What UDPDrained rests on.  Servers are active only once both are bound, *)
(* and have not returned while they have a query in flight; one is stopped *)
(* only after a signal, when main is past its flags; and as long as        *)
(* onSignal is not beyond the DNS server over UDP, which comes first, no   *)
(* server that main waits for has returned, except after that one.         *)
BindInv ==
    /\ main = "flags" => las = "off"
    /\ las \in {"off", "bindUDP", "bindTCP"} =>
          \A p \in Protocols : sock[p] \in {"none", "bound"}

FlightInv ==
    \A q \in Queries : InFlight(q) => sock[Proto[q]] \in {"active", "stopping", "failing"}

SigInv ==
    /\ stop # "idle" => sig = "got"
    /\ sig # "default" => main # "flags"

Unstopped(p) == sock[p] \in {"none", "bound", "active"}

FirstInv ==
    NothingFailed /\ stop \in {"idle", "udp"} =>
       /\ \A k \in Proxies : ~closed[k] /\ serve[k] \in {"off", "begin", "serving"}
       /\ Unstopped("tcp") \/ sock["udp"] = "ended"
       /\ Unstopped("udp") \/ (stop = "udp" /\ sock["udp"] \in {"stopping", "ended"})
       /\ stop = "udp" /\ step = "call" => Unstopped("udp")
       /\ las \in {"off", "bindUDP", "bindTCP", "serve"} \/ sock["udp"] = "ended"
       /\ stop = "udp" => Running \/ sock["udp"] = "ended"

IInv == TypeOK /\ BindInv /\ FlightInv /\ SigInv /\ FirstInv

(* A signal does not cut short the queries over UDP: when the server is    *)
(* told to stop while it answers one, the process is there until it has,   *)
(* unless another server fails (main.go:211; server.go:77-84).             *)
UDPDrained ==
    \A q \in Queries :
       Proto[q] = "udp" =>
          [](stop = "udp" /\ InFlight(q) =>
               [](~Running /\ NothingFailed => ~InFlight(q)))

(* http.go:72-74, "so in-flight CONNECT tunnels end with a clean FIN       *)
(* instead of dying abruptly with the process"; main.go:217, "runs stop,   *)
(* then exits".                                                            *)
TunnelsClosedAtExit ==
    sig = "got" /\ ~Running /\ NothingFailed =>
       \A k \in Proxies : tunnel[k] # "open"
=============================================================================
