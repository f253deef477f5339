----------------------------- MODULE Supervisor -----------------------------
(***************************************************************************)
(* internal/supervisor and internal/dnssrv: the supervisor starts a fresh  *)
(* set of one-shot servers on every Start and closes it on Stop, while a   *)
(* goroutine per server binds, serves and reports its end.  The goroutines *)
(* of an old set may still be on their way when the next set starts.       *)
(*                                                                         *)
(* A proxy is its Serve as seen by Close (ProxyServer has the rest); the   *)
(* DNS server is the two dns.Servers it runs, over UDP and TCP.  A call of *)
(* the supervisor holds s.mu from end to end; Stop is split at the points  *)
(* where the goroutines can move in between.                               *)
(***************************************************************************)
EXTENDS UiConfig

CONSTANTS
    Settings,       \* what the user interface sends
    Modes,          \* subset of {"proxy", "resolve", "run"}
    Proxies,        \* {"http", "socks"}, or one of them
    MaxStarts,      \* bound on successful calls of Start
    MaxFails        \* bound on servers that fail while they serve

ASSUME SupervisorAssumption ==
    /\ Modes \subseteq {"proxy", "resolve", "run"}
    /\ Proxies \subseteq {"http", "socks"}
    /\ MaxStarts \in Nat /\ MaxFails \in Nat

ASSUME SettingsAssumption ==
    \A u \in Settings, f \in Durations : u[f] \in DurationField

VARIABLES
    cfg,        \* s.cfg
    live,       \* the configuration that the set was built with
    mode,       \* s.mode
    running,    \* s.running
    stopping,   \* s.stopping
    stop,       \* the server that Stop, which holds s.mu, closes next
    set,        \* number of the current set of servers
    serve,      \* the goroutine of each proxy: where it is
    closed,     \* p.closed of each proxy
    ln,         \* the listener of each proxy
    dns,        \* the goroutine of each DNS server: where it is
    sock,       \* its two dns.Servers
    result,     \* how the serve of each server has ended
    up, err,    \* Listener.Up and Listener.Err
    fails

control == <<mode, running, stopping, stop, set>>
proxies == <<serve, closed, ln>>
servers == <<dns, sock>>
status == <<up, err>>
vars == <<cfg, live, control, proxies, servers, result, status, fails>>

Kinds == Proxies \cup {"dns"}
Protocols == {"udp", "tcp"}
Sets == 1 .. MaxStarts

Has(m, k) == IF k = "dns" THEN m \in {"resolve", "run"} ELSE m \in {"proxy", "run"}

Configs == {Default} \cup {ToConfig(u) : u \in Settings}

TypeOK ==
    /\ cfg \in Configs /\ live \in Configs
    /\ mode \in Modes \cup {"none"}
    /\ running \in BOOLEAN /\ stopping \in BOOLEAN
    /\ mode = "none" <=> ~running
    /\ stop \in {"idle", "http", "socks", "udp", "tcp", "end"}
    /\ set \in 0 .. MaxStarts
    /\ serve \in [Sets -> [Proxies -> {"none", "begin", "serving", "returned", "done"}]]
    /\ closed \in [Sets -> [Proxies -> BOOLEAN]]
    /\ ln \in [Sets -> [Proxies -> {"none", "asked", "other", "closed"}]]
    /\ dns \in [Sets -> {"none", "udp", "tcp", "serve", "shutUDP", "shutTCP",
                         "returned", "done"}]
    /\ sock \in [Sets -> [Protocols -> {"none", "bound", "active", "ended", "failed"}]]
    /\ result \in [Sets -> [Kinds -> {"none", "nil", "closed", "failed"}]]
    /\ up \in [Sets -> [Kinds -> BOOLEAN]]
    /\ err \in [Sets -> [Kinds -> BOOLEAN]]
    /\ fails \in 0 .. MaxFails

Init ==
    /\ cfg = Default
    /\ live = cfg
    /\ mode = "none"
    /\ running = FALSE /\ stopping = FALSE
    /\ stop = "idle"
    /\ set = 0
    /\ serve = [i \in Sets |-> [k \in Proxies |-> "none"]]
    /\ closed = [i \in Sets |-> [k \in Proxies |-> FALSE]]
    /\ ln = [i \in Sets |-> [k \in Proxies |-> "none"]]
    /\ dns = [i \in Sets |-> "none"]
    /\ sock = [i \in Sets |-> [k \in Protocols |-> "none"]]
    /\ result = [i \in Sets |-> [k \in Kinds |-> "none"]]
    /\ up = [i \in Sets |-> [k \in Kinds |-> FALSE]]
    /\ err = [i \in Sets |-> [k \in Kinds |-> FALSE]]
    /\ fails = MaxFails

Locked == stop # "idle"

-----------------------------------------------------------------------------
(* The calls of the supervisor.  Those that return an error change         *)
(* nothing.                                                                *)

(* The address that is asked for, or an alternate one, or no address can   *)
(* be bound; another program may hold any of them, and so may a proxy of   *)
(* an old set.                                                             *)
Bindable(k) ==
    IF \E i \in Sets : ln[i][k] = "asked" THEN {"other", "none"}
    ELSE {"asked", "other", "none"}

Start(m) ==
    /\ ~Locked /\ ~running
    /\ NewClient(cfg)
    /\ set < MaxStarts
    /\ set' = set + 1
    /\ stopping' = FALSE
    /\ running' = TRUE
    /\ mode' = m
    /\ live' = cfg
    /\ \E got \in [Proxies -> {"asked", "other", "none"}] :
          /\ \A k \in Proxies : got[k] \in IF Has(m, k) THEN Bindable(k) ELSE {"none"}
          /\ ln' = [ln EXCEPT ![set'] = got]
          /\ serve' = [serve EXCEPT ![set'] =
                         [k \in Proxies |-> IF got[k] = "none" THEN "none" ELSE "begin"]]
          /\ up' = [up EXCEPT ![set'] =
                      [k \in Kinds |-> Has(m, k) /\ (k \in Proxies => got[k] # "none")]]
          /\ err' = [err EXCEPT ![set'] =
                       [k \in Kinds |-> k \in Proxies /\ Has(m, k) /\ got[k] = "none"]]
    /\ dns' = [dns EXCEPT ![set'] = IF Has(m, "dns") THEN "udp" ELSE "none"]
    /\ UNCHANGED <<cfg, stop, closed, sock, result, fails>>

(* Mutated: the configuration may change while servers run. *)
Store_Always(c) == cfg' = c

Store(c) == ~running /\ cfg' = c

(* The application, which checks the settings first. *)
SetConfig(u) ==
    /\ ~Locked
    /\ Accepts(u)
    /\ Store(ToConfig(u))
    /\ UNCHANGED <<live, control, proxies, servers, result, status, fails>>

Stop ==
    /\ ~Locked /\ running
    /\ stopping' = TRUE
    /\ stop' = "http"
    /\ UNCHANGED <<cfg, live, mode, running, set, proxies, servers, result,
                   status, fails>>

(* Mutated: Close of a proxy that has not adopted its listener is lost. *)
CloseProxy_Lost(k) ==
    /\ stop = k
    /\ stop' = IF k = "http" THEN "socks" ELSE "udp"
    /\ IF k \in Proxies /\ Has(mode, k) /\ serve[set][k] # "begin"
       THEN /\ closed' = [closed EXCEPT ![set][k] = TRUE]
            /\ ln' = [ln EXCEPT ![set][k] = IF @ = "none" THEN @ ELSE "closed"]
       ELSE UNCHANGED <<closed, ln>>
    /\ UNCHANGED <<cfg, live, mode, running, stopping, set, serve, servers,
                   result, status, fails>>

(* Close of a proxy; a listener that Serve has not adopted stays open.     *)
CloseProxy(k) ==
    /\ stop = k
    /\ stop' = IF k = "http" THEN "socks" ELSE "udp"
    /\ IF k \in Proxies /\ Has(mode, k)
       THEN /\ closed' = [closed EXCEPT ![set][k] = TRUE]
            /\ ln' = [ln EXCEPT ![set][k] =
                        IF serve[set][k] \in {"none", "begin"} THEN @ ELSE "closed"]
       ELSE UNCHANGED <<closed, ln>>
    /\ UNCHANGED <<cfg, live, mode, running, stopping, set, serve, servers,
                   result, status, fails>>

(* Shutdown of a dns.Server does nothing unless it has been activated.     *)
Shut(i, p) ==
    sock' = IF sock[i][p] = "active" THEN [sock EXCEPT ![i][p] = "ended"] ELSE sock

ShutdownDNS(p) ==
    /\ stop = p
    /\ stop' = IF p = "udp" THEN "tcp" ELSE "end"
    /\ Shut(set, p)
    /\ UNCHANGED <<cfg, live, mode, running, stopping, set, proxies, dns,
                   result, status, fails>>

StopReturns ==
    /\ stop = "end"
    /\ stop' = "idle"
    /\ running' = FALSE
    /\ mode' = "none"
    /\ UNCHANGED <<cfg, live, stopping, set, proxies, servers, result, status,
                   fails>>

-----------------------------------------------------------------------------
(* The goroutine of a proxy. *)

Adopt(i, k) ==
    /\ serve[i][k] = "begin"
    /\ ~closed[i][k]
    /\ serve' = [serve EXCEPT ![i][k] = "serving"]
    /\ UNCHANGED <<cfg, live, control, closed, ln, servers, result, status, fails>>

ServeClosed(i, k) ==
    /\ serve[i][k] = "begin"
    /\ closed[i][k]
    /\ serve' = [serve EXCEPT ![i][k] = "returned"]
    /\ ln' = [ln EXCEPT ![i][k] = "closed"]
    /\ result' = [result EXCEPT ![i][k] = "closed"]
    /\ UNCHANGED <<cfg, live, control, closed, servers, status, fails>>

ListenerClosed(i, k) ==
    /\ serve[i][k] = "serving" /\ ln[i][k] = "closed"
    /\ serve' = [serve EXCEPT ![i][k] = "returned"]
    /\ result' = [result EXCEPT ![i][k] = "closed"]
    /\ UNCHANGED <<cfg, live, control, closed, ln, servers, status, fails>>

(* Another error of Accept; the listener stays open. *)
AcceptFails(i, k) ==
    /\ serve[i][k] = "serving" /\ ln[i][k] # "closed"
    /\ fails > 0 /\ fails' = fails - 1
    /\ serve' = [serve EXCEPT ![i][k] = "returned"]
    /\ result' = [result EXCEPT ![i][k] = "failed"]
    /\ UNCHANGED <<cfg, live, control, closed, ln, servers, status>>

(* Mutated: the entry of the current set is updated, not the server's own. *)
Report_Current(i, k) ==
    /\ up' = [up EXCEPT ![set][k] = FALSE]
    /\ err' = [err EXCEPT ![set][k] = err[set][k] \/ (result[i][k] = "failed" /\ ~stopping)]

(* Mutated: every end is an error. *)
Report_All(i, k) ==
    /\ up' = [up EXCEPT ![i][k] = FALSE]
    /\ err' = [err EXCEPT ![i][k] = TRUE]

(* The goroutine of any server notes its end, unless it was asked for it.  *)
Report(i, k) ==
    /\ up' = [up EXCEPT ![i][k] = FALSE]
    /\ err' = [err EXCEPT ![i][k] = err[i][k] \/ (result[i][k] = "failed" /\ ~stopping)]

ServeReturns(i, k) ==
    /\ serve[i][k] = "returned"
    /\ ~Locked
    /\ serve' = [serve EXCEPT ![i][k] = "done"]
    /\ Report(i, k)
    /\ UNCHANGED <<cfg, live, control, closed, ln, servers, result, fails>>

-----------------------------------------------------------------------------
(* The goroutine of a DNS server. *)

Open(i, p) == sock[i][p] \in {"bound", "active"}

BindUDP(i) ==
    /\ dns[i] = "udp"
    /\ \/ /\ \A j \in Sets : ~Open(j, "udp")
          /\ sock' = [sock EXCEPT ![i]["udp"] = "bound"]
          /\ dns' = [dns EXCEPT ![i] = "tcp"]
          /\ UNCHANGED result
       \/ /\ dns' = [dns EXCEPT ![i] = "returned"]
          /\ result' = [result EXCEPT ![i]["dns"] = "failed"]
          /\ UNCHANGED sock
    /\ UNCHANGED <<cfg, live, control, proxies, status, fails>>

(* Mutated: the UDP socket is left open when TCP cannot be bound. *)
BindTCP_KeepsUDP(i) ==
    /\ dns[i] = "tcp"
    /\ \/ /\ \A j \in Sets : ~Open(j, "tcp")
          /\ sock' = [sock EXCEPT ![i]["tcp"] = "bound"]
          /\ dns' = [dns EXCEPT ![i] = "serve"]
          /\ UNCHANGED result
       \/ /\ dns' = [dns EXCEPT ![i] = "returned"]
          /\ result' = [result EXCEPT ![i]["dns"] = "failed"]
          /\ UNCHANGED sock
    /\ UNCHANGED <<cfg, live, control, proxies, status, fails>>

BindTCP(i) ==
    /\ dns[i] = "tcp"
    /\ \/ /\ \A j \in Sets : ~Open(j, "tcp")
          /\ sock' = [sock EXCEPT ![i]["tcp"] = "bound"]
          /\ dns' = [dns EXCEPT ![i] = "serve"]
          /\ UNCHANGED result
       \/ /\ sock' = [sock EXCEPT ![i]["udp"] = "ended"]
          /\ dns' = [dns EXCEPT ![i] = "returned"]
          /\ result' = [result EXCEPT ![i]["dns"] = "failed"]
    /\ UNCHANGED <<cfg, live, control, proxies, status, fails>>

(* ActivateAndServe, in a goroutine of its own that ListenAndServe starts  *)
(* once both sockets are bound.                                            *)
Activate(i, p) ==
    /\ dns[i] \in {"serve", "shutUDP", "shutTCP", "returned", "done"}
    /\ sock[i][p] = "bound"
    /\ sock' = [sock EXCEPT ![i][p] = "active"]
    /\ UNCHANGED <<cfg, live, control, proxies, dns, result, status, fails>>

DNSFails(i, p) ==
    /\ sock[i][p] = "active"
    /\ fails > 0 /\ fails' = fails - 1
    /\ sock' = [sock EXCEPT ![i][p] = "failed"]
    /\ UNCHANGED <<cfg, live, control, proxies, dns, result, status>>

(* Mutated: the other server is not shut down. *)
FirstExit_OtherRuns(i) ==
    /\ dns[i] = "serve"
    /\ \E p \in Protocols :
          /\ sock[i][p] \in {"ended", "failed"}
          /\ result' = [result EXCEPT ![i]["dns"] =
                          IF sock[i][p] = "failed" THEN "failed" ELSE "nil"]
    /\ dns' = [dns EXCEPT ![i] = "returned"]
    /\ UNCHANGED <<cfg, live, control, proxies, sock, status, fails>>

(* The first server to exit sends its result, and both are shut down.      *)
FirstExit(i) ==
    /\ dns[i] = "serve"
    /\ \E p \in Protocols :
          /\ sock[i][p] \in {"ended", "failed"}
          /\ result' = [result EXCEPT ![i]["dns"] =
                          IF sock[i][p] = "failed" THEN "failed" ELSE "nil"]
    /\ dns' = [dns EXCEPT ![i] = "shutUDP"]
    /\ UNCHANGED <<cfg, live, control, proxies, sock, status, fails>>

ShutOther(i) ==
    /\ \/ dns[i] = "shutUDP" /\ Shut(i, "udp") /\ dns' = [dns EXCEPT ![i] = "shutTCP"]
       \/ dns[i] = "shutTCP" /\ Shut(i, "tcp") /\ dns' = [dns EXCEPT ![i] = "returned"]
    /\ UNCHANGED <<cfg, live, control, proxies, result, status, fails>>

DNSReturns(i) ==
    /\ dns[i] = "returned"
    /\ ~Locked
    /\ dns' = [dns EXCEPT ![i] = "done"]
    /\ Report(i, "dns")
    /\ UNCHANGED <<cfg, live, control, proxies, sock, result, fails>>

-----------------------------------------------------------------------------
RunStop ==
    \/ CloseProxy("http") \/ CloseProxy("socks")
    \/ \E p \in Protocols : ShutdownDNS(p)
    \/ StopReturns

RunProxy(i, k) ==
    Adopt(i, k) \/ ServeClosed(i, k) \/ ListenerClosed(i, k) \/ ServeReturns(i, k)

RunDNS(i) ==
    BindUDP(i) \/ BindTCP(i) \/ FirstExit(i) \/ ShutOther(i) \/ DNSReturns(i)

Next ==
    \/ \E m \in Modes : Start(m)
    \/ \E u \in Settings : SetConfig(u)
    \/ Stop \/ RunStop
    \/ \E i \in Sets :
          \/ \E k \in Proxies : RunProxy(i, k) \/ AcceptFails(i, k)
          \/ RunDNS(i)
          \/ \E p \in Protocols : Activate(i, p) \/ DNSFails(i, p)

Spec == Init /\ [][Next]_vars

(* Goroutines run and a call that holds the mutex goes on.  Nobody has to  *)
(* start or stop anything.                                                 *)
Fairness ==
    /\ WF_vars(RunStop)
    /\ \A i \in Sets :
          /\ \A k \in Proxies : WF_vars(RunProxy(i, k))
          /\ WF_vars(RunDNS(i))
          /\ \A p \in Protocols : WF_vars(Activate(i, p))

FairSpec == Spec /\ Fairness

-----------------------------------------------------------------------------
(* The servers that run were built with the configuration that is shown,   *)
(* which the user may also send back as it is: it is accepted, and means   *)
(* the same (supervisor.go:202-203, uiconfig.go:39-53).                    *)
ShownIsLive ==
    running => /\ Accepts(FromConfig(cfg))
               /\ ToConfig(FromConfig(cfg)) = live

(* While running, a proxy is shown as up exactly until its serve has       *)
(* ended: a late goroutine of an old set does not disturb the status of    *)
(* the new one (supervisor.go:120-127,180-193).                            *)
StatusIsOfThisSet ==
    running => \A k \in Proxies :
       up[set][k] <=> serve[set][k] \in {"begin", "serving", "returned"}

(* Only the proxies of the current set accept connections, even when Stop  *)
(* came before the goroutine of a proxy (supervisor.go:48-49,163-168).     *)
OnlyThisSetAccepts ==
    \A i \in Sets, k \in Proxies :
       serve[i][k] = "serving" /\ ln[i][k] # "closed" => i = set /\ running

(* When one of the two sockets of the DNS server cannot be bound, the      *)
(* other is not left open (server.go:50-53).                               *)
BindFailureLeavesNothing ==
    \A i \in Sets :
       dns[i] \in {"returned", "done"} /\ sock[i]["tcp"] = "none" =>
          ~Open(i, "udp")

(* What was asked to stop is not shown as failed (supervisor.go:45,97,     *)
(* 123).                                                                   *)
StopIsNoFailure ==
    [][\A k \in Kinds : set' = set /\ set # 0 /\ err'[set][k] /\ ~err[set][k] =>
          running /\ (k \in Proxies => ~closed[set][k])]_vars

(* What ShownIsLive rests on: the configuration is the default or was      *)
(* accepted, and stays while servers run that were built with it.          *)
ConfigInv ==
    /\ cfg = Default \/ \E u \in Settings : Accepts(u) /\ cfg = ToConfig(u)
    /\ running => cfg = live

(* What those of the servers rest on.  A set that was not started has done *)
(* nothing; a call that holds the mutex is a Stop; a proxy that Stop has   *)
(* dealt with, in this set or in one before, accepts nothing; and a DNS    *)
(* server has bound the sockets that its goroutine has come to.            *)
Stopped(i) == i < set \/ (i = set /\ ~running)

Past(k) == stop \in {"udp", "tcp", "end"} \/ (k = "http" /\ stop = "socks")

FreshInv ==
    \A i \in Sets : i > set =>
       /\ dns[i] = "none"
       /\ \A k \in Proxies : serve[i][k] = "none" /\ ~closed[i][k]

StopInv ==
    /\ Locked => running /\ stopping
    /\ running => set # 0
    /\ set # 0 /\ ~running => stopping
    /\ \A i \in Sets, k \in Proxies : i = set /\ closed[i][k] => stopping
    /\ \A i \in Sets, k \in Proxies :
          i = set /\ running /\ serve[i][k] # "none" => Has(mode, k)

ClosedInv ==
    \A i \in Sets, k \in Proxies :
       Stopped(i) \/ (i = set /\ Past(k)) =>
          /\ serve[i][k] = "begin" => closed[i][k]
          /\ serve[i][k] = "serving" => ln[i][k] = "closed"

DnsInv ==
    \A i \in Sets :
       /\ dns[i] \in {"none", "udp"} =>
             sock[i]["udp"] = "none" /\ sock[i]["tcp"] = "none"
       /\ dns[i] = "tcp" => sock[i]["udp"] = "bound" /\ sock[i]["tcp"] = "none"
       /\ dns[i] \in {"serve", "shutUDP", "shutTCP"} =>
             sock[i]["udp"] # "none" /\ sock[i]["tcp"] # "none"
       /\ dns[i] \in {"returned", "done"} /\ sock[i]["tcp"] = "none" =>
             sock[i]["udp"] \in {"none", "ended"}

IInv ==
    /\ TypeOK /\ FreshInv /\ StopInv /\ ClosedInv /\ DnsInv
    /\ StatusIsOfThisSet

(* After Stop the ports of the proxies are released, whatever their        *)
(* goroutines had got to (supervisor.go:154-168).                          *)
ProxyPortsReleased ==
    \A i \in Sets, k \in Proxies :
       Stopped(i) ~> ln[i][k] \in {"none", "closed"}

(* Once both DNS servers run, the first one to exit takes the other with   *)
(* it (server.go:53-54).                                                   *)
FirstExitStopsBoth ==
    \A i \in Sets :
       []((\A p \in Protocols : sock[i][p] = "active") =>
            []((\E p \in Protocols : sock[i][p] # "active") =>
                 <>(\A p \in Protocols : ~Open(i, p))))

(* supervisor.go:154, "Stop tears down all running servers": after a Stop  *)
(* nothing serves any more, unless there is another Start.                 *)
StopTearsDownAll ==
    set = 1 /\ ~running ~>
       \/ running
       \/ /\ \A k \in Proxies : ln[1][k] \in {"none", "closed"}
          /\ \A p \in Protocols : ~Open(1, p)
=============================================================================
