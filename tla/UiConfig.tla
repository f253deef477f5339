------------------------------ MODULE UiConfig ------------------------------
(***************************************************************************)
(* internal/uiconfig and internal/config, with the checks of doh.New: how  *)
(* the settings that the user interface sends become the configuration of  *)
(* the servers, and how it is shown.                                       *)
(*                                                                         *)
(* A text is Empty, Malformed when it does not parse, or its parts: a URL  *)
(* its scheme, a duration its sign, minutes, seconds and milliseconds, of  *)
(* which there may be any number in what a user writes.  A duration itself *)
(* is a number of milliseconds.  Of a bootstrap address it counts whether  *)
(* its host is an IP or a name.  The addresses to listen on are good or    *)
(* Malformed; the warning about port 53 is left out.                       *)
(***************************************************************************)
EXTENDS Integers

CONSTANTS Empty, Malformed

Strategies == {"none", "split", "tls-record"}
MaxFragDelay == 5000

Default ==
    [dohUrl |-> [scheme |-> "https"],
     dohBootstrap |-> Empty,
     dnsListen |-> "dns", proxyListen |-> "http", socksListen |-> "socks",
     frag |-> "split",
     fragDelay |-> 0,
     timeout |-> 10000,
     setSystemProxy |-> TRUE]

Fields == DOMAIN Default

-----------------------------------------------------------------------------
(* doh.New: does it accept the configuration?  It takes a bootstrap        *)
(* address as it is.                                                       *)
NewClient(c) == c.dohUrl # Malformed /\ c.dohUrl.scheme \in {"http", "https"}

-----------------------------------------------------------------------------
(* ToConfig: the configuration, and whether it is accepted.                *)

Durations == {"fragDelay", "timeout"}

DurationText == [sign : {-1, 1}, min : Nat, sec : Nat, ms : Nat]
DurationField == {Empty, Malformed} \cup DurationText

(* The two marks are neither a text that parses nor a default.             *)
ASSUME UiConfigAssumption ==
    /\ Empty \notin DurationText /\ Malformed \notin DurationText
    /\ \A f \in Fields : Default[f] # Malformed
Addresses == {"dnsListen", "proxyListen", "socksListen"}

ParseDuration(t) == t.sign * (60000 * t.min + 1000 * t.sec + t.ms)

(* What is not given keeps its default, except for the bootstrap address.  *)
ToConfig(u) ==
    [f \in Fields |->
       IF u[f] = Empty /\ f # "dohBootstrap" THEN Default[f]
       ELSE IF f \in Durations /\ u[f] # Malformed THEN ParseDuration(u[f])
       ELSE u[f]]

Accepts(u) ==
    LET c == ToConfig(u)
    IN  /\ c.frag \in Strategies
        /\ \A f \in Durations \cup Addresses : c[f] # Malformed
        /\ 0 <= c.fragDelay /\ c.fragDelay <= MaxFragDelay
        /\ c.dohBootstrap # Empty => c.dohBootstrap.host = "ip"
        /\ NewClient(c)

-----------------------------------------------------------------------------
(* FromConfig. *)

(* Mutated: the milliseconds are not shown. *)
DurationString_Seconds(d) ==
    LET n == IF d < 0 THEN -d ELSE d
    IN  [sign |-> IF d < 0 THEN -1 ELSE 1,
         min |-> n \div 60000, sec |-> (n % 60000) \div 1000, ms |-> 0]

(* Duration.String: what it writes has less than a minute of seconds, and  *)
(* less than a second of milliseconds.                                     *)
DurationString(d) ==
    LET n == IF d < 0 THEN -d ELSE d
    IN  [sign |-> IF d < 0 THEN -1 ELSE 1,
         min |-> n \div 60000, sec |-> (n % 60000) \div 1000, ms |-> n % 1000]

FromConfig(c) ==
    [f \in Fields |-> IF f \in Durations THEN DurationString(c[f]) ELSE c[f]]
=============================================================================
