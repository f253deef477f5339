-------------------------- MODULE ResolveContract --------------------------
(***************************************************************************)
(* What Resolver.Resolve promises to its callers, without saying how.      *)
(*                                                                         *)
(* Upstream lookups produce outcomes: the addresses of a name, good until  *)
(* some time, or a failure, which is never good for later.  A call returns *)
(* an outcome for the name it asked for that was either produced after the *)
(* call was made or still good when it was made; or it returns nothing     *)
(* because its own context is done.                                        *)
(***************************************************************************)
EXTENDS Integers

CONSTANTS Callers, Names, Keys, KeyOf, Addrs, MaxTTL

VARIABLES clock, phase, name, asked, expired, outcomes, result

cvars == <<clock, phase, name, asked, expired, outcomes, result>>

(* A call that was not made yet asks for an arbitrary name. *)
SomeName == CHOOSE n \in Names : TRUE

CInit ==
    /\ clock = 0
    /\ phase = [c \in Callers |-> "idle"]
    /\ name = [c \in Callers |-> SomeName]
    /\ asked = [c \in Callers |-> 0]
    /\ expired = [c \in Callers |-> FALSE]
    /\ outcomes = {}
    /\ result = [c \in Callers |-> {}]

CTick ==
    /\ clock' = clock + 1
    /\ UNCHANGED <<phase, name, asked, expired, outcomes, result>>

CExpire(c) ==
    /\ expired' = [expired EXCEPT ![c] = TRUE]
    /\ UNCHANGED <<clock, phase, name, asked, outcomes, result>>

Ask(c, n) ==
    /\ phase[c] = "idle"
    /\ phase' = [phase EXCEPT ![c] = "asking"]
    /\ name' = [name EXCEPT ![c] = n]
    /\ asked' = [asked EXCEPT ![c] = clock]
    /\ UNCHANGED <<clock, expired, outcomes, result>>

(* An IP literal needs no lookup. *)
AskLiteral(c, a) ==
    /\ phase[c] = "idle"
    /\ phase' = [phase EXCEPT ![c] = "returned"]
    /\ result' = [result EXCEPT ![c] = {a}]
    /\ UNCHANGED <<clock, name, asked, expired, outcomes>>

(* A lookup ends at the present time.  Addresses are good for at most      *)
(* MaxTTL from now on, a failure (no addresses) for no time at all.        *)
Produce(k, S, e) ==
    /\ e <= clock + MaxTTL
    /\ S = {} => e = 0
    /\ outcomes' = outcomes \cup
          {[key |-> k, ips |-> S, at |-> clock, expires |-> e]}
    /\ UNCHANGED <<clock, phase, name, asked, expired, result>>

(* The outcomes a caller may be given. *)
Usable(c) ==
    {o \in outcomes : /\ o.key = KeyOf[name[c]]
                      /\ o.at >= asked[c] \/ o.expires > asked[c]}

Deliver(c, S) ==
    /\ phase[c] = "asking"
    /\ phase' = [phase EXCEPT ![c] = "returned"]
    /\ result' = [result EXCEPT ![c] = S]
    /\ UNCHANGED <<clock, name, asked, expired, outcomes>>

Return(c) == \E o \in Usable(c) : Deliver(c, o.ips)

Abandon(c) == expired[c] /\ Deliver(c, {})

CNext ==
    \/ CTick
    \/ \E c \in Callers :
          \/ CExpire(c)
          \/ \E n \in Names : Ask(c, n)
          \/ \E a \in Addrs : AskLiteral(c, a)
          \/ Return(c)
          \/ Abandon(c)
    \/ \E k \in Keys, S \in SUBSET Addrs, e \in 0 .. clock + MaxTTL :
          Produce(k, S, e)

CSpec == CInit /\ [][CNext]_cvars
=============================================================================
