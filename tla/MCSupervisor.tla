--------------------------- MODULE MCSupervisor ---------------------------
(***************************************************************************)
(* The user may send nothing, which means the defaults, or settings of all *)
(* fields, of which the delay is at its limit and the timeout, which has   *)
(* none, below zero, or the same with a field that is refused.             *)
(***************************************************************************)
EXTENDS Supervisor

NothingGiven == [[f \in Fields |-> Empty] EXCEPT !.setSystemProxy = TRUE]

Text(sign, min, sec, ms) == [sign |-> sign, min |-> min, sec |-> sec, ms |-> ms]

AllGiven ==
    [dohUrl |-> [scheme |-> "http"],
     dohBootstrap |-> [host |-> "ip"],
     dnsListen |-> "dns2", proxyListen |-> "http2", socksListen |-> "socks2",
     frag |-> "tls-record", fragDelay |-> Text(1, 0, 0, 5000),
     timeout |-> Text(-1, 0, 61, 500),
     setSystemProxy |-> FALSE]

Wrong ==
    {[AllGiven EXCEPT !.frag = "magic"],
     [AllGiven EXCEPT !.fragDelay = Text(1, 0, 5, 1)],
     [AllGiven EXCEPT !.fragDelay = Text(-1, 0, 0, 1)],
     [AllGiven EXCEPT !.timeout = Malformed],
     [AllGiven EXCEPT !.fragDelay = Malformed],
     [AllGiven EXCEPT !.proxyListen = Malformed],
     [AllGiven EXCEPT !.dohBootstrap.host = "name"],
     [AllGiven EXCEPT !.dohUrl = Malformed],
     [AllGiven EXCEPT !.dohUrl.scheme = "ftp"]}

MCSettings == {NothingGiven, AllGiven} \cup Wrong
=============================================================================
