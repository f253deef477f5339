------------------------------ MODULE Resolver ------------------------------
(***************************************************************************)
(* internal/resolver/resolver.go: a TTL cache of host names in front of    *)
(* DoH, with concurrent misses of one name collapsed into one lookup.      *)
(*                                                                         *)
(* A caller is one invocation of Resolve, made by one connection handler   *)
(* of a proxy with a context of its own.  r.mu makes each critical section *)
(* one step; everything between two sections interleaves.  Addresses are   *)
(* opaque, and so are names: KeyOf[n] is the lower-case spelling of n.     *)
(***************************************************************************)
EXTENDS Integers, FiniteSets

CONSTANTS
    Callers,          \* invocations of Resolve
    Names,            \* host names as callers spell them
    Asks,             \* those that each invocation may ask for
    Keys,             \* their lower-case spellings
    KeyOf,            \* strings.ToLower
    Addrs,            \* IP addresses, which are also the IP literals
    TTLs,             \* TTLs an upstream answer may carry
    MinTTL, MaxTTL,   \* the clamp on a cached TTL
    MaxCacheEntries,
    MaxClock          \* bound on the clock, for model checking

ASSUME ResolverAssumption ==
    /\ IsFiniteSet(Callers)
    /\ Names # {}
    /\ Asks \in [Callers -> SUBSET Names]
    /\ KeyOf \in [Names -> Keys]
    /\ TTLs \subseteq Nat
    /\ MinTTL \in Nat /\ MaxTTL \in Nat /\ MinTTL <= MaxTTL
    /\ MaxCacheEntries \in Nat \ {0}
    /\ MaxClock \in Nat

VARIABLES
    clock,      \* time.Now
    pc,         \* where each invocation is in Resolve
    name,       \* its host argument
    now,        \* its local now, read before the lock is taken
    expired,    \* ctx.Done of its context is closed
    look,       \* its lookup, when it leads one
    follows,    \* the leader whose in-flight call it joined
    call,       \* ips and err of the inflightCall it published as a leader
    done,       \* call.done of that inflightCall is closed
    result,     \* what it returned
    cache,      \* key -> [ips, expires], for the keys cached
    inflight,   \* key -> leader, for the keys being looked up
    outcomes    \* auxiliary: what every lookup produced, and when

mutex == <<cache, inflight>>
vars == <<clock, pc, name, now, expired, look, follows, call, done, result,
          cache, inflight, outcomes>>

QTypes == {"A", "AAAA"}
NoTTL == -1                       \* haveTTL is false

(* What Resolve and lookup hand back.  An error comes without addresses    *)
(* and addresses without an error, so no addresses is a failure, of        *)
(* whatever kind.                                                          *)
Failure == {}

Lookup == [pend : SUBSET QTypes,  \* queries wg.Wait still waits for
           ips : SUBSET Addrs,
           ttl : {NoTTL} \cup TTLs]

NewLookup == [pend |-> QTypes, ips |-> {}, ttl |-> NoTTL]

Key(c) == KeyOf[name[c]]

SomeName == CHOOSE n \in Names : TRUE

Init ==
    /\ clock = 0
    /\ pc = [c \in Callers |-> "idle"]
    /\ name = [c \in Callers |-> SomeName]
    /\ now = [c \in Callers |-> 0]
    /\ expired = [c \in Callers |-> FALSE]
    /\ look = [c \in Callers |-> NewLookup]
    /\ follows = [c \in Callers |-> c]
    /\ call = [c \in Callers |-> Failure]
    /\ done = [c \in Callers |-> FALSE]
    /\ result = [c \in Callers |-> Failure]
    /\ cache = << >>
    /\ inflight = << >>
    /\ outcomes = {}

-----------------------------------------------------------------------------
(* The environment: time passes, and the context of a waiting caller times *)
(* out or is cancelled.  Elsewhere in Resolve a done context shows only as *)
(* a failed query.                                                         *)

Tick ==
    /\ clock < MaxClock
    /\ clock' = clock + 1
    /\ UNCHANGED <<pc, name, now, expired, look, follows, call, done, result,
                   mutex, outcomes>>

Expire(c) ==
    /\ pc[c] = "wait"
    /\ ~expired[c]
    /\ expired' = [expired EXCEPT ![c] = TRUE]
    /\ UNCHANGED <<clock, pc, name, now, look, follows, call, done, result,
                   mutex, outcomes>>

-----------------------------------------------------------------------------
(* Resolve. *)

(* An IP literal is returned unchanged. *)
ResolveLiteral(c, a) ==
    /\ pc[c] = "idle"
    /\ pc' = [pc EXCEPT ![c] = "returned"]
    /\ result' = [result EXCEPT ![c] = {a}]
    /\ UNCHANGED <<clock, name, now, expired, look, follows, call, done,
                   mutex, outcomes>>

(* The key is computed and the clock is read; the lock is not held yet.    *)
Begin(c, n) ==
    /\ pc[c] = "idle"
    /\ pc' = [pc EXCEPT ![c] = "enter"]
    /\ name' = [name EXCEPT ![c] = n]
    /\ now' = [now EXCEPT ![c] = clock]
    /\ UNCHANGED <<clock, expired, look, follows, call, done, result, mutex,
                   outcomes>>

Finish(c, r) ==
    /\ pc' = [pc EXCEPT ![c] = "returned"]
    /\ result' = [result EXCEPT ![c] = r]

(* Mutated: any cached entry is a hit. *)
Fresh_NoExpiry(c) == Key(c) \in DOMAIN cache

Fresh(c) == Key(c) \in DOMAIN cache /\ now[c] < cache[Key(c)].expires

Hit(c) ==
    /\ pc[c] = "enter"
    /\ Fresh(c)
    /\ Finish(c, cache[Key(c)].ips)
    /\ UNCHANGED <<clock, name, now, expired, look, follows, call, done,
                   mutex, outcomes>>

Join(c) ==
    /\ pc[c] = "enter"
    /\ ~Fresh(c)
    /\ Key(c) \in DOMAIN inflight
    /\ pc' = [pc EXCEPT ![c] = "wait"]
    /\ follows' = [follows EXCEPT ![c] = inflight[Key(c)]]
    /\ UNCHANGED <<clock, name, now, expired, look, call, done, result,
                   mutex, outcomes>>

(* Mutated: the in-flight map is not consulted. *)
Lead_NoSharing(c) ==
    /\ pc[c] = "enter"
    /\ ~Fresh(c)
    /\ pc' = [pc EXCEPT ![c] = "lookup"]
    /\ look' = [look EXCEPT ![c] = NewLookup]
    /\ inflight' = [k \in DOMAIN inflight \cup {Key(c)} |->
                       IF k = Key(c) THEN c ELSE inflight[k]]
    /\ UNCHANGED <<clock, name, now, expired, follows, call, done, result,
                   cache, outcomes>>

(* The in-flight call is published before the lock is released.  lookup    *)
(* then starts both queries.                                               *)
Lead(c) ==
    /\ pc[c] = "enter"
    /\ ~Fresh(c)
    /\ Key(c) \notin DOMAIN inflight
    /\ pc' = [pc EXCEPT ![c] = "lookup"]
    /\ look' = [look EXCEPT ![c] = NewLookup]
    /\ inflight' = [k \in DOMAIN inflight \cup {Key(c)} |->
                       IF k = Key(c) THEN c ELSE inflight[k]]
    /\ UNCHANGED <<clock, name, now, expired, follows, call, done, result,
                   cache, outcomes>>

(* One of the two queries of lookup ends with the addresses S, none of     *)
(* which has a TTL below t.  A response without addresses and an error     *)
(* leave nothing behind but that, and only when the other query brings no  *)
(* address either do they matter.                                          *)
Answer(c, q, S, t) ==
    /\ pc[c] = "lookup"
    /\ q \in look[c].pend
    /\ look' = [look EXCEPT ![c] =
          [pend |-> @.pend \ {q},
           ips |-> @.ips \cup S,
           ttl |-> IF S # {} /\ (@.ttl = NoTTL \/ t < @.ttl) THEN t
                   ELSE @.ttl]]
    /\ UNCHANGED <<clock, pc, name, now, expired, follows, call, done, result,
                   mutex, outcomes>>

Clamp(t) == IF t < MinTTL THEN MinTTL ELSE IF t > MaxTTL THEN MaxTTL ELSE t

(* storeLocked.  A full cache first loses the entries expired at time t    *)
(* and then, while it is still full, the soonest to expire: Evicted(t, E)  *)
(* says that E is a set of keys that go, for one of the orders in which Go *)
(* may iterate over the map.                                               *)
Dead(t) ==
    IF Cardinality(DOMAIN cache) >= MaxCacheEntries
    THEN {k \in DOMAIN cache : t >= cache[k].expires} ELSE {}

Evicted(t, E) ==
    LET live == DOMAIN cache \ Dead(t) IN
    /\ Dead(t) \subseteq E /\ E \subseteq DOMAIN cache
    /\ \A k \in E \ Dead(t), j \in DOMAIN cache \ E :
          cache[k].expires <= cache[j].expires
    /\ IF Cardinality(live) >= MaxCacheEntries
       THEN Cardinality(DOMAIN cache \ E) = MaxCacheEntries - 1
       ELSE E = Dead(t)

(* Mutated: nothing is evicted. *)
StoreLocked_Unbounded(k, e, t) ==
    cache' = [j \in DOMAIN cache \cup {k} |-> IF j = k THEN e ELSE cache[j]]

StoreLocked(k, e, t) ==
    \E E \in SUBSET DOMAIN cache :
       /\ Evicted(t, E)
       /\ cache' = [j \in (DOMAIN cache \ E) \cup {k} |->
                       IF j = k THEN e ELSE cache[j]]

(* Mutated: the in-flight call is forgotten only after a success. *)
Store_LeakOnError(c) ==
    LET ips == look[c].ips
        expires == now[c] + Clamp(look[c].ttl)
    IN
    /\ pc[c] = "lookup"
    /\ look[c].pend = {}
    /\ pc' = [pc EXCEPT ![c] = "publish"]
    /\ IF ips # Failure
       THEN /\ StoreLocked(Key(c), [ips |-> ips, expires |-> expires], now[c])
            /\ inflight' = [k \in DOMAIN inflight \ {Key(c)} |-> inflight[k]]
       ELSE UNCHANGED mutex
    /\ outcomes' = outcomes \cup
          {[key |-> Key(c), ips |-> ips, at |-> clock,
            expires |-> IF ips # Failure THEN expires ELSE 0]}
    /\ UNCHANGED <<clock, name, now, expired, look, follows, call, done,
                   result>>

(* The leader takes the lock again with its lookup done.  The expiry is    *)
(* counted from its now, read before the lookup.                           *)
Store(c) ==
    LET ips == look[c].ips
        expires == now[c] + Clamp(look[c].ttl)
    IN
    /\ pc[c] = "lookup"
    /\ look[c].pend = {}
    /\ pc' = [pc EXCEPT ![c] = "publish"]
    /\ IF ips # Failure
       THEN StoreLocked(Key(c), [ips |-> ips, expires |-> expires], now[c])
       ELSE UNCHANGED cache
    /\ inflight' = [k \in DOMAIN inflight \ {Key(c)} |-> inflight[k]]
    /\ outcomes' = outcomes \cup
          {[key |-> Key(c), ips |-> ips, at |-> clock,
            expires |-> IF ips # Failure THEN expires ELSE 0]}
    /\ UNCHANGED <<clock, name, now, expired, look, follows, call, done,
                   result>>

(* Mutated: done is closed before the answer is written. *)
Publish_CloseFirst(c) ==
    /\ pc[c] = "publish"
    /\ pc' = [pc EXCEPT ![c] = "close"]
    /\ done' = [done EXCEPT ![c] = TRUE]
    /\ UNCHANGED <<clock, name, now, expired, look, follows, call, result,
                   mutex, outcomes>>

(* call.ips, call.err = ips, err, after the lock is released. *)
Publish(c) ==
    /\ pc[c] = "publish"
    /\ pc' = [pc EXCEPT ![c] = "close"]
    /\ call' = [call EXCEPT ![c] = look[c].ips]
    /\ UNCHANGED <<clock, name, now, expired, look, follows, done, result,
                   mutex, outcomes>>

(* Mutated: an error returns early, past close. *)
CloseDone_OnlyOnSuccess(c) ==
    /\ pc[c] = "close"
    /\ done' = [done EXCEPT ![c] = look[c].ips # Failure]
    /\ Finish(c, look[c].ips)
    /\ UNCHANGED <<clock, name, now, expired, look, follows, call, mutex,
                   outcomes>>

(* close(call.done), and the leader returns. *)
CloseDone(c) ==
    /\ pc[c] = "close"
    /\ done' = [done EXCEPT ![c] = TRUE]
    /\ Finish(c, look[c].ips)
    /\ UNCHANGED <<clock, name, now, expired, look, follows, call, mutex,
                   outcomes>>

(* The two cases of a follower's select. *)
Wake(c) ==
    /\ pc[c] = "wait"
    /\ done[follows[c]]
    /\ Finish(c, call[follows[c]])
    /\ UNCHANGED <<clock, name, now, expired, look, follows, call, done,
                   mutex, outcomes>>

GiveUp(c) ==
    /\ pc[c] = "wait"
    /\ expired[c]
    /\ Finish(c, Failure)
    /\ UNCHANGED <<clock, name, now, expired, look, follows, call, done,
                   mutex, outcomes>>

-----------------------------------------------------------------------------
Query(c, q) == \E S \in SUBSET Addrs, t \in TTLs : Answer(c, q, S, t)

(* What the goroutine of c does by itself once it is in Resolve. *)
Run(c) ==
    \/ Hit(c) \/ Join(c) \/ Lead(c)
    \/ Store(c) \/ Publish(c) \/ CloseDone(c)
    \/ Wake(c)

Next ==
    \/ Tick
    \/ \E c \in Callers :
          \/ Expire(c)
          \/ \E a \in Addrs : ResolveLiteral(c, a)
          \/ \E n \in Asks[c] : Begin(c, n)
          \/ \E q \in QTypes : Query(c, q)
          \/ Run(c)
          \/ GiveUp(c)

Spec == Init /\ [][Next]_vars

(* The scheduler runs every goroutine that can run, and every DoH query    *)
(* ends: doh.New gives its http.Client the configured timeout.  No context *)
(* is assumed to expire and no clock to advance.                           *)
Fairness ==
    \A c \in Callers : /\ WF_vars(Run(c))
                       /\ \A q \in QTypes : WF_vars(Query(c, q))

FairSpec == Spec /\ Fairness

-----------------------------------------------------------------------------
(* Types of all variables, with the shape of the cache and of the in-flight *)
(* map.                                                                     *)
TypeOK ==
    /\ clock \in Nat
    /\ pc \in [Callers -> {"idle", "enter", "lookup", "publish", "close",
                           "wait", "returned"}]
    /\ name \in [Callers -> Names]
    /\ now \in [Callers -> Nat]
    /\ expired \in [Callers -> BOOLEAN]
    /\ look \in [Callers -> Lookup]
    /\ follows \in [Callers -> Callers]
    /\ call \in [Callers -> SUBSET Addrs]
    /\ done \in [Callers -> BOOLEAN]
    /\ result \in [Callers -> SUBSET Addrs]
    /\ DOMAIN cache \subseteq Keys
    /\ cache \in [DOMAIN cache -> [ips : SUBSET Addrs, expires : Nat]]
    /\ DOMAIN inflight \subseteq Keys
    /\ inflight \in [DOMAIN inflight -> Callers]
    /\ outcomes \subseteq
          [key : Keys, ips : SUBSET Addrs, at : Nat, expires : Nat]

(* Concurrent misses of one name, however its callers spell it, cost one   *)
(* upstream lookup: no two lookups of a key ever run at the same time, and *)
(* the in-flight map names exactly the running ones, so no later caller    *)
(* can join a call that nobody is going to finish (resolver.go:72-101).    *)
SingleFlight ==
    /\ \A c, d \in Callers :
          pc[c] = "lookup" /\ pc[d] = "lookup" /\ Key(c) = Key(d) => c = d
    /\ \A k \in DOMAIN inflight :
          pc[inflight[k]] = "lookup" /\ Key(inflight[k]) = k
    /\ \A c \in Callers : pc[c] = "lookup" => Key(c) \in DOMAIN inflight

(* The map never holds more than maxCacheEntries names, whatever leaders   *)
(* store concurrently and however stale their clocks (resolver.go:105-129).*)
CacheBounded == Cardinality(DOMAIN cache) <= MaxCacheEntries

(* A follower that is woken finds the leader's answer already written, and *)
(* it is an answer for the follower's own name (resolver.go:75-77,100-101).*)
FollowerGetsAnswer ==
    \A c \in Callers : pc[c] = "wait" /\ done[follows[c]] =>
       /\ call[follows[c]] = look[follows[c]].ips
       /\ Key(follows[c]) = Key(c)

(* A store drops an entry that is still good at the leader's time only     *)
(* when the cache was full of other names that were all still good: an     *)
(* expired entry, the key's own old one included, is always dropped first  *)
(* (resolver.go:105-107).  It rests on single flight: nobody else can have *)
(* refreshed the leader's key since it found it missing.                   *)
EvictsLiveOnlyWhenFull ==
    [][\A k \in DOMAIN cache \ DOMAIN cache', c \in Callers :
          (pc[c] = "lookup" /\ pc'[c] = "publish"
             /\ cache[k].expires > now[c]) =>
          /\ Cardinality(DOMAIN cache \ {Key(c)}) = MaxCacheEntries
          /\ \A j \in DOMAIN cache : cache[j].expires > now[c]]_vars

(* The resolver keeps what ResolveContract promises: never an outcome that *)
(* had expired before the call was made, never one for another name, never *)
(* a failure from before the call (failures are not cached), and an empty  *)
(* hand only to a caller whose own context is done.                        *)
Contract ==
    INSTANCE ResolveContract WITH
       phase <- [c \in Callers |->
                   IF pc[c] \in {"idle", "returned"} THEN pc[c] ELSE "asking"],
       asked <- now

ContractSpec == Contract!CSpec

(* Every invocation returns, even one whose context never expires: the     *)
(* leader always closes done, on the error path too (resolver.go:88-101).  *)
EveryCallReturns ==
    \A c \in Callers : pc[c] # "idle" ~> pc[c] = "returned"
-----------------------------------------------------------------------------
(* What single flight, the followers and the contract rest on: an          *)
(* inductive invariant.                                                    *)

(* A closed done means a written answer.  *)
AnswerInv ==
    \A c \in Callers :
       /\ pc[c] = "close" => call[c] = look[c].ips
       /\ done[c] => call[c] = look[c].ips /\ pc[c] = "returned"

(* A follower waits for a leader of its own key. *)
FollowInv ==
    \A c \in Callers : pc[c] = "wait" =>
       /\ pc[follows[c]] \in {"lookup", "publish", "close", "returned"}
       /\ Key(follows[c]) = Key(c)

(* Some lookup of k ended with the addresses S at time t or later. *)
Produced(k, S, t) ==
    \E o \in outcomes : o.key = k /\ o.ips = S /\ o.at >= t

(* Everything a caller may be given was produced by a lookup of its key:   *)
(* the cache, the answer a leader holds, and the one its followers will    *)
(* read, produced after they asked.                                        *)
OutcomeInv ==
    /\ \A c \in Callers : now[c] <= clock
    /\ \A k \in DOMAIN cache : \E o \in outcomes :
          o.key = k /\ o.ips = cache[k].ips /\ o.expires = cache[k].expires
    /\ \A c \in Callers : pc[c] \in {"publish", "close"} =>
          Produced(Key(c), look[c].ips, now[c])
    /\ \A c \in Callers :
          pc[c] = "wait" /\ pc[follows[c]] # "lookup" =>
             Produced(Key(c), look[follows[c]].ips, now[c])

(* A leader's key is missing or expired until the leader has stored it:    *)
(* EvictsLiveOnlyWhenFull rests on this.                                   *)
LeaderInv ==
    \A c \in Callers : pc[c] = "lookup" /\ Key(c) \in DOMAIN cache =>
       now[c] >= cache[Key(c)].expires

IInv == TypeOK /\ SingleFlight /\ AnswerInv /\ FollowInv /\ OutcomeInv
=============================================================================
