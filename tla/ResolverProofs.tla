--------------------------- MODULE ResolverProofs ---------------------------
(* Theorems about Resolver, for any number of callers, names and entries.  *)
EXTENDS Resolver, FiniteSetTheorems, TLAPS

-----------------------------------------------------------------------------
(* The clamp keeps a TTL between its bounds. *)
LEMMA ClampBounds ==
    ASSUME NEW t \in Nat \cup {NoTTL}
    PROVE  Clamp(t) \in Nat /\ MinTTL <= Clamp(t) /\ Clamp(t) <= MaxTTL
BY ResolverAssumption DEF Clamp, NoTTL

(* What storeLocked leaves in the cache: the new entry and old ones. *)
LEMMA StoreLockedDomain ==
    ASSUME NEW k, NEW e, NEW t, StoreLocked(k, e, t)
    PROVE  /\ \E E \in SUBSET DOMAIN cache :
                 DOMAIN cache' = (DOMAIN cache \ E) \cup {k}
           /\ cache'[k] = e
           /\ \A j \in DOMAIN cache' : j # k =>
                 j \in DOMAIN cache /\ cache'[j] = cache[j]
BY Zenon DEF StoreLocked

(* The type invariant is inductive. *)
LEMMA InitTypeOK == Init => TypeOK
BY ResolverAssumption DEF Init, TypeOK, SomeName, NewLookup, Lookup, Failure, NoTTL, QTypes

LEMMA NextTypeOK == TypeOK /\ [Next]_vars => TypeOK'
<1> SUFFICES ASSUME TypeOK, [Next]_vars PROVE TypeOK'
  OBVIOUS
<1> USE DEF TypeOK
<1>1. CASE Tick
  BY <1>1 DEF Tick, mutex
<1>2. ASSUME NEW c \in Callers, Expire(c) PROVE TypeOK'
  BY <1>2 DEF Expire, mutex
<1>3. ASSUME NEW c \in Callers, NEW a \in Addrs, ResolveLiteral(c, a) PROVE TypeOK'
  BY <1>3 DEF ResolveLiteral, mutex
<1>4. ASSUME NEW c \in Callers, NEW n \in Names, Begin(c, n) PROVE TypeOK'
  BY <1>4 DEF Begin, mutex
<1>5. ASSUME NEW c \in Callers, NEW q \in QTypes, Query(c, q) PROVE TypeOK'
  <2>1. PICK S \in SUBSET Addrs, t \in TTLs : Answer(c, q, S, t)
    BY <1>5 DEF Query
  <2>2. look' \in [Callers -> Lookup]
    BY <2>1 DEF Answer, Lookup
  <2> QED
    BY <2>1, <2>2 DEF Answer, mutex
<1>6. ASSUME NEW c \in Callers, Hit(c) PROVE TypeOK'
  BY <1>6 DEF Hit, Fresh, Finish, mutex
<1>7. ASSUME NEW c \in Callers, Join(c) PROVE TypeOK'
  BY <1>7 DEF Join, mutex
<1>8. ASSUME NEW c \in Callers, Lead(c) PROVE TypeOK'
  <2>1. Key(c) \in Keys
    BY ResolverAssumption DEF Key
  <2>2. NewLookup \in Lookup
    BY DEF NewLookup, Lookup
  <2> QED
    BY <1>8, <2>1, <2>2 DEF Lead
<1>9. ASSUME NEW c \in Callers, Store(c) PROVE TypeOK'
  <2>1. Key(c) \in Keys
    BY ResolverAssumption DEF Key
  <2> DEFINE e == now[c] + Clamp(look[c].ttl)
  <2>2. e \in Nat /\ look[c].ips \in SUBSET Addrs
    <3>1. look[c].ttl \in Nat \cup {NoTTL} /\ look[c].ips \in SUBSET Addrs
      BY ResolverAssumption DEF Lookup
    <3> QED
      BY <3>1, ClampBounds
  <2>3. /\ DOMAIN cache' \subseteq Keys
        /\ cache' \in [DOMAIN cache' -> [ips : SUBSET Addrs, expires : Nat]]
    <3>1. CASE look[c].ips = Failure
      BY <3>1, <1>9 DEF Store
    <3>2. CASE look[c].ips # Failure
      <4> DEFINE r == [ips |-> look[c].ips, expires |-> e]
      <4>1. StoreLocked(Key(c), r, now[c])
        BY <3>2, <1>9 DEF Store
      <4>2. r \in [ips : SUBSET Addrs, expires : Nat]
        BY <2>2
      <4> HIDE DEF r
      <4>3. PICK E \in SUBSET DOMAIN cache :
               cache' = [j \in (DOMAIN cache \ E) \cup {Key(c)} |->
                            IF j = Key(c) THEN r ELSE cache[j]]
        BY <4>1 DEF StoreLocked
      <4> QED
        BY <4>2, <4>3, <2>1
    <3> QED
      BY <3>1, <3>2
  <2>4. /\ DOMAIN inflight' \subseteq Keys
        /\ inflight' \in [DOMAIN inflight' -> Callers]
    BY <1>9 DEF Store
  <2>5. outcomes' \subseteq
           [key : Keys, ips : SUBSET Addrs, at : Nat, expires : Nat]
    BY <1>9, <2>1, <2>2 DEF Store
  <2> QED
    BY <1>9, <2>3, <2>4, <2>5 DEF Store
<1>10. ASSUME NEW c \in Callers, Publish(c) PROVE TypeOK'
  BY <1>10 DEF Publish, Lookup, mutex
<1>11. ASSUME NEW c \in Callers, CloseDone(c) PROVE TypeOK'
  BY <1>11 DEF CloseDone, Finish, Lookup, mutex
<1>12. ASSUME NEW c \in Callers, Wake(c) PROVE TypeOK'
  BY <1>12 DEF Wake, Finish, mutex
<1>13. ASSUME NEW c \in Callers, GiveUp(c) PROVE TypeOK'
  BY <1>13 DEF GiveUp, Finish, Failure, mutex
<1>14. CASE UNCHANGED vars
  BY <1>14 DEF vars, mutex
<1> QED
  BY <1>1, <1>2, <1>3, <1>4, <1>5, <1>6, <1>7, <1>8, <1>9, <1>10, <1>11,
     <1>12, <1>13, <1>14, ResolverAssumption DEF Next, Run

(* Every reachable state is well typed. *)
THEOREM TypeCorrect == Spec => []TypeOK
<1> QED
  BY InitTypeOK, NextTypeOK, PTL DEF Spec

-----------------------------------------------------------------------------
LEMMA InitIInv == Init => IInv
BY InitTypeOK DEF Init, IInv, SingleFlight, AnswerInv, FollowInv, OutcomeInv

LEMMA NextIInv == IInv /\ [Next]_vars => IInv'
<1> SUFFICES ASSUME IInv, [Next]_vars PROVE IInv'
  OBVIOUS
<1>0. TypeOK /\ TypeOK'
  BY NextTypeOK DEF IInv
<1> DEFINE J == SingleFlight /\ AnswerInv /\ FollowInv /\ OutcomeInv
<1>a. J
  BY DEF IInv
<1> SUFFICES J'
  BY <1>0 DEF IInv
<1> USE <1>0, <1>a DEF TypeOK, mutex, Key
<1>1. CASE Tick
  BY <1>1 DEF Tick, SingleFlight, AnswerInv, FollowInv, OutcomeInv, Produced
<1>2. ASSUME NEW c \in Callers, Expire(c) PROVE J'
  <2>1. SingleFlight'
    BY <1>2 DEF Expire, SingleFlight
  <2>2. AnswerInv'
    BY <1>2 DEF Expire, AnswerInv
  <2>3. FollowInv'
    BY <1>2 DEF Expire, FollowInv, SingleFlight
  <2>4. OutcomeInv'
    BY <1>2 DEF Expire, OutcomeInv, FollowInv, SingleFlight, Produced
  <2> QED
    BY <2>1, <2>2, <2>3, <2>4
<1>3. ASSUME NEW c \in Callers, NEW a \in Addrs, ResolveLiteral(c, a) PROVE J'
  <2>1. SingleFlight'
    BY <1>3 DEF ResolveLiteral, SingleFlight
  <2>2. AnswerInv'
    BY <1>3 DEF ResolveLiteral, AnswerInv
  <2>3. FollowInv'
    BY <1>3 DEF ResolveLiteral, FollowInv, SingleFlight
  <2>4. OutcomeInv'
    BY <1>3 DEF ResolveLiteral, OutcomeInv, FollowInv, SingleFlight, Produced
  <2> QED
    BY <2>1, <2>2, <2>3, <2>4
<1>4. ASSUME NEW c \in Callers, NEW n \in Names, Begin(c, n) PROVE J'
  <2>1. SingleFlight'
    BY <1>4 DEF Begin, SingleFlight
  <2>2. AnswerInv'
    BY <1>4 DEF Begin, AnswerInv
  <2>3. FollowInv'
    BY <1>4 DEF Begin, FollowInv, SingleFlight
  <2>4. /\ \A d \in Callers : pc'[d] = IF d = c THEN "enter" ELSE pc[d]
        /\ \A d \in Callers \ {c} : name'[d] = name[d] /\ now'[d] = now[d]
        /\ now'[c] = clock
        /\ UNCHANGED <<clock, look, follows, cache, outcomes>>
    BY <1>4 DEF Begin
  <2>5. \A d \in Callers : pc[d] = "wait" => follows[d] # c
    BY <1>4 DEF Begin, FollowInv
  <2>6. \A k, S, t : Produced(k, S, t)' <=> Produced(k, S, t)
    BY <2>4 DEF Produced
  <2>7. \A d \in Callers : (pc[d] \in {"publish", "close"})' =>
           Produced(Key(d), look[d].ips, now[d])'
    BY <2>4, <2>6 DEF OutcomeInv
  <2>8. \A d \in Callers : (pc[d] = "wait" /\ pc[follows[d]] # "lookup")' =>
           Produced(Key(d), look[follows[d]].ips, now[d])'
    BY <2>4, <2>5, <2>6 DEF OutcomeInv
  <2>9. OutcomeInv'
    BY <2>4, <2>7, <2>8 DEF OutcomeInv
  <2> QED
    BY <2>1, <2>2, <2>3, <2>9
<1>5. ASSUME NEW c \in Callers, NEW q \in QTypes, Query(c, q) PROVE J'
  <2>0. PICK S \in SUBSET Addrs, t \in TTLs : Answer(c, q, S, t)
    BY <1>5 DEF Query
  <2>1. SingleFlight'
    BY <2>0 DEF Answer, SingleFlight
  <2>2. AnswerInv'
    BY <2>0 DEF Answer, AnswerInv
  <2>3. FollowInv'
    BY <2>0 DEF Answer, FollowInv
  <2>4. OutcomeInv'
    BY <2>0 DEF Answer, OutcomeInv, Produced
  <2> QED
    BY <2>1, <2>2, <2>3, <2>4
<1>6. ASSUME NEW c \in Callers, Hit(c) PROVE J'
  <2>1. SingleFlight'
    BY <1>6 DEF Hit, Finish, SingleFlight
  <2>2. AnswerInv'
    BY <1>6 DEF Hit, Finish, AnswerInv
  <2>3. FollowInv'
    BY <1>6 DEF Hit, Finish, FollowInv, SingleFlight
  <2>4. OutcomeInv'
    BY <1>6 DEF Hit, Finish, OutcomeInv, FollowInv, SingleFlight, Produced
  <2> QED
    BY <2>1, <2>2, <2>3, <2>4
<1>7. ASSUME NEW c \in Callers, Join(c) PROVE J'
  <2>1. SingleFlight'
    BY <1>7 DEF Join, SingleFlight
  <2>2. AnswerInv'
    BY <1>7 DEF Join, AnswerInv
  <2>3. FollowInv'
    BY <1>7 DEF Join, FollowInv, SingleFlight
  <2>4. OutcomeInv'
    BY <1>7 DEF Join, OutcomeInv, FollowInv, SingleFlight, Produced
  <2> QED
    BY <2>1, <2>2, <2>3, <2>4
<1>8. ASSUME NEW c \in Callers, Lead(c) PROVE J'
  <2>1. SingleFlight'
    BY <1>8 DEF Lead, SingleFlight
  <2>2. AnswerInv'
    BY <1>8 DEF Lead, AnswerInv
  <2>3. FollowInv'
    BY <1>8 DEF Lead, FollowInv, SingleFlight
  <2>4. OutcomeInv'
    BY <1>8 DEF Lead, OutcomeInv, FollowInv, SingleFlight, Produced
  <2> QED
    BY <2>1, <2>2, <2>3, <2>4
<1>9. ASSUME NEW c \in Callers, Store(c) PROVE J'
  <2> DEFINE e == now[c] + Clamp(look[c].ttl)
             o == [key |-> Key(c), ips |-> look[c].ips, at |-> clock,
                   expires |-> IF look[c].ips # Failure THEN e ELSE 0]
  <2>1. SingleFlight'
    BY <1>9 DEF Store, SingleFlight
  <2>2. AnswerInv'
    BY <1>9 DEF Store, AnswerInv
  <2>3. FollowInv'
    BY <1>9 DEF Store, FollowInv
  <2>4. outcomes' = outcomes \cup {o}
    BY <1>9 DEF Store
  <2>5. \A k \in DOMAIN cache' : \E x \in outcomes' :
           x.key = k /\ x.ips = cache'[k].ips /\ x.expires = cache'[k].expires
    <3>1. CASE look[c].ips = Failure
      BY <1>9, <2>4, <3>1 DEF Store, OutcomeInv
    <3>2. CASE look[c].ips # Failure
      <4> DEFINE r == [ips |-> look[c].ips, expires |-> e]
      <4>1. StoreLocked(Key(c), r, now[c])
        BY <3>2, <1>9 DEF Store
      <4>2. /\ cache'[Key(c)] = r
            /\ \A j \in DOMAIN cache' : j # Key(c) =>
                  j \in DOMAIN cache /\ cache'[j] = cache[j]
        BY <4>1, StoreLockedDomain
      <4>3. o \in outcomes' /\ o.key = Key(c) /\ o.ips = r.ips
            /\ o.expires = r.expires
        BY <2>4, <3>2
      <4> HIDE DEF r, o
      <4> SUFFICES ASSUME NEW k \in DOMAIN cache'
                   PROVE  \E x \in outcomes' : /\ x.key = k
                                               /\ x.ips = cache'[k].ips
                                               /\ x.expires = cache'[k].expires
        OBVIOUS
      <4>4. CASE k = Key(c)
        BY <4>2, <4>3, <4>4
      <4>5. CASE k # Key(c)
        BY <4>2, <4>5, <2>4 DEF OutcomeInv
      <4> QED
        BY <4>4, <4>5
    <3> QED
      BY <3>1, <3>2
  <2>6. /\ pc' = [pc EXCEPT ![c] = "publish"]
        /\ UNCHANGED <<clock, name, now, look, follows>>
    BY <1>9 DEF Store
  <2>7. o.key = Key(c) /\ o.ips = look[c].ips /\ o.at = clock
    OBVIOUS
  <2>8. \A k, S, t : Produced(k, S, t) => Produced(k, S, t)'
    BY <2>4 DEF Produced
  <2> HIDE DEF o
  <2>9. \A t \in Nat : t <= clock => Produced(Key(c), look[c].ips, t)'
    <3>1. o \in outcomes' /\ Key(c)' = Key(c) /\ look'[c].ips = look[c].ips
      BY <2>4, <2>6
    <3> QED
      BY <3>1, <2>7 DEF Produced
  <2>10. \A d \in Callers : (pc[d] \in {"publish", "close"})' =>
            Produced(Key(d), look[d].ips, now[d])'
    BY <2>6, <2>8, <2>9 DEF OutcomeInv
  <2>11. \A d \in Callers : (pc[d] = "wait" /\ pc[follows[d]] # "lookup")' =>
            Produced(Key(d), look[follows[d]].ips, now[d])'
    BY <2>6, <2>8, <2>9 DEF OutcomeInv, FollowInv
  <2>12. OutcomeInv'
    BY <2>5, <2>6, <2>10, <2>11 DEF OutcomeInv
  <2> QED
    BY <2>1, <2>2, <2>3, <2>12
<1>10. ASSUME NEW c \in Callers, Publish(c) PROVE J'
  <2>1. SingleFlight'
    BY <1>10 DEF Publish, SingleFlight
  <2>2. AnswerInv'
    BY <1>10 DEF Publish, AnswerInv
  <2>3. FollowInv'
    BY <1>10 DEF Publish, FollowInv, SingleFlight
  <2>4. OutcomeInv'
    BY <1>10 DEF Publish, OutcomeInv, FollowInv, SingleFlight, Produced
  <2> QED
    BY <2>1, <2>2, <2>3, <2>4
<1>11. ASSUME NEW c \in Callers, CloseDone(c) PROVE J'
  <2>1. SingleFlight'
    BY <1>11 DEF CloseDone, Finish, SingleFlight
  <2>2. AnswerInv'
    BY <1>11 DEF CloseDone, Finish, AnswerInv
  <2>3. FollowInv'
    BY <1>11 DEF CloseDone, Finish, FollowInv, SingleFlight
  <2>4. OutcomeInv'
    BY <1>11 DEF CloseDone, Finish, OutcomeInv, FollowInv, SingleFlight, Produced
  <2> QED
    BY <2>1, <2>2, <2>3, <2>4
<1>12. ASSUME NEW c \in Callers, Wake(c) PROVE J'
  <2>1. SingleFlight'
    BY <1>12 DEF Wake, Finish, SingleFlight
  <2>2. AnswerInv'
    BY <1>12 DEF Wake, Finish, AnswerInv
  <2>3. FollowInv'
    BY <1>12 DEF Wake, Finish, FollowInv, SingleFlight
  <2>4. OutcomeInv'
    BY <1>12 DEF Wake, Finish, OutcomeInv, FollowInv, SingleFlight, Produced
  <2> QED
    BY <2>1, <2>2, <2>3, <2>4
<1>13. ASSUME NEW c \in Callers, GiveUp(c) PROVE J'
  <2>1. SingleFlight'
    BY <1>13 DEF GiveUp, Finish, SingleFlight
  <2>2. AnswerInv'
    BY <1>13 DEF GiveUp, Finish, AnswerInv
  <2>3. FollowInv'
    BY <1>13 DEF GiveUp, Finish, FollowInv, SingleFlight
  <2>4. OutcomeInv'
    BY <1>13 DEF GiveUp, Finish, OutcomeInv, FollowInv, SingleFlight, Produced
  <2> QED
    BY <2>1, <2>2, <2>3, <2>4
<1>14. CASE UNCHANGED vars
  BY <1>14 DEF vars, SingleFlight, AnswerInv, FollowInv, OutcomeInv, Produced
<1> QED
  BY <1>1, <1>2, <1>3, <1>4, <1>5, <1>6, <1>7, <1>8, <1>9, <1>10, <1>11,
     <1>12, <1>13, <1>14, ResolverAssumption DEF Next, Run

(* Single flight, for any number of callers and names. *)
THEOREM SingleFlightHolds == Spec => []SingleFlight
<1>1. IInv => SingleFlight
  BY DEF IInv
<1> QED
  BY <1>1, InitIInv, NextIInv, PTL DEF Spec

(* A woken follower always reads a complete answer for its own name. *)
THEOREM FollowerGetsAnswerHolds == Spec => []FollowerGetsAnswer
<1>1. IInv => FollowerGetsAnswer
  BY DEF IInv, FollowerGetsAnswer, AnswerInv, FollowInv, TypeOK
<1> QED
  BY <1>1, InitIInv, NextIInv, PTL DEF Spec

-----------------------------------------------------------------------------
(* Eviction makes room: whatever storeLocked drops, one entry fits. *)
LEMMA EvictedLeavesRoom ==
    ASSUME IsFiniteSet(DOMAIN cache), CacheBounded,
           NEW t, NEW E \in SUBSET DOMAIN cache, Evicted(t, E)
    PROVE  Cardinality(DOMAIN cache \ E) <= MaxCacheEntries - 1
<1> DEFINE live == DOMAIN cache \ Dead(t)
<1>1. IsFiniteSet(live) /\ Cardinality(live) \in Nat
  BY FS_Subset, FS_CardinalityType
<1>2. CASE Cardinality(live) >= MaxCacheEntries
  BY <1>2, ResolverAssumption DEF Evicted
<1>3. CASE ~(Cardinality(live) >= MaxCacheEntries)
  <2>1. E = Dead(t)
    BY <1>3 DEF Evicted
  <2> QED
    BY <1>1, <1>3, <2>1, ResolverAssumption
<1> QED
  BY <1>2, <1>3

(* storeLocked keeps the map finite and within its cap. *)
LEMMA StoreLockedBounded ==
    ASSUME IsFiniteSet(DOMAIN cache), CacheBounded,
           NEW k, NEW e, NEW t, StoreLocked(k, e, t)
    PROVE  IsFiniteSet(DOMAIN cache') /\ CacheBounded'
<1>1. PICK E \in SUBSET DOMAIN cache :
         /\ Evicted(t, E)
         /\ cache' = [j \in (DOMAIN cache \ E) \cup {k} |->
                         IF j = k THEN e ELSE cache[j]]
  BY Zenon DEF StoreLocked
<1> DEFINE D == DOMAIN cache \ E
<1>2. DOMAIN cache' = D \cup {k}
  BY <1>1
<1>3. IsFiniteSet(D) /\ Cardinality(D) \in Nat
  BY FS_Subset, FS_CardinalityType
<1>4. Cardinality(D) <= MaxCacheEntries - 1
  BY <1>1, EvictedLeavesRoom
<1>5. /\ IsFiniteSet(D \cup {k})
      /\ Cardinality(D \cup {k}) = IF k \in D THEN Cardinality(D)
                                   ELSE Cardinality(D) + 1
  BY <1>3, FS_AddElement
<1>6. Cardinality(D \cup {k}) <= MaxCacheEntries
  BY <1>3, <1>4, <1>5, ResolverAssumption
<1> QED
  BY <1>2, <1>5, <1>6 DEF CacheBounded

(* Only Store touches the cache. *)
LEMMA CacheStep ==
    ASSUME [Next]_vars
    PROVE  \/ UNCHANGED cache
           \/ \E c \in Callers : \E e :
                 StoreLocked(Key(c), e, now[c])
<1>1. ASSUME NEW c \in Callers, Store(c)
      PROVE  \/ UNCHANGED cache
             \/ \E e : StoreLocked(Key(c), e, now[c])
  BY <1>1 DEF Store
<1> QED
  BY <1>1 DEF Next, Run, vars, mutex, Tick, Expire, ResolveLiteral, Begin,
     Query, Answer, Hit, Join, Lead, Publish, CloseDone, Wake, GiveUp

LEMMA CacheBoundedInv == Spec => [](IsFiniteSet(DOMAIN cache) /\ CacheBounded)
<1> DEFINE B == IsFiniteSet(DOMAIN cache) /\ CacheBounded
<1>1. Init => B
  <2> SUFFICES ASSUME Init PROVE B
    OBVIOUS
  <2>1. DOMAIN cache = {}
    BY DEF Init
  <2> QED
    BY <2>1, FS_EmptySet, ResolverAssumption DEF CacheBounded
<1>2. B /\ [Next]_vars => B'
  <2> SUFFICES ASSUME B, [Next]_vars PROVE B'
    OBVIOUS
  <2>1. CASE UNCHANGED cache
    BY <2>1 DEF CacheBounded
  <2>2. ASSUME NEW c \in Callers, NEW e, StoreLocked(Key(c), e, now[c])
        PROVE  B'
    BY <2>2, StoreLockedBounded
  <2> QED
    BY <2>1, <2>2, CacheStep
<1> QED
  BY <1>1, <1>2, PTL DEF Spec

(* The cap holds whatever the number of callers, names and entries. *)
THEOREM CacheBoundedHolds == Spec => []CacheBounded
BY CacheBoundedInv, PTL

-----------------------------------------------------------------------------
(* Eviction spares the entries that are still good. *)

(* A step that is neither Lead nor Store leaves the cache alone, makes     *)
(* nobody a leader, and ends no lookup.                                    *)
LEMMA OtherSteps ==
    ASSUME TypeOK, [Next]_vars,
           \A c \in Callers : ~Lead(c) /\ ~Store(c)
    PROVE  /\ UNCHANGED cache
           /\ \A d \in Callers :
                 /\ pc'[d] = "lookup" =>
                       pc[d] = "lookup" /\ name'[d] = name[d] /\ now'[d] = now[d]
                 /\ ~(pc[d] = "lookup" /\ pc'[d] = "publish")
<1> DEFINE Quiet ==
        /\ UNCHANGED cache
        /\ \A d \in Callers :
              /\ pc'[d] = "lookup" =>
                    pc[d] = "lookup" /\ name'[d] = name[d] /\ now'[d] = now[d]
              /\ ~(pc[d] = "lookup" /\ pc'[d] = "publish")
<1> SUFFICES Quiet
  OBVIOUS
<1> USE DEF TypeOK, mutex, Finish
<1>1. CASE Tick
  BY <1>1 DEF Tick
<1>2. ASSUME NEW c \in Callers, Expire(c) PROVE Quiet
  BY <1>2 DEF Expire
<1>3. ASSUME NEW c \in Callers, NEW a \in Addrs, ResolveLiteral(c, a) PROVE Quiet
  BY <1>3 DEF ResolveLiteral
<1>4. ASSUME NEW c \in Callers, NEW n \in Names, Begin(c, n) PROVE Quiet
  BY <1>4 DEF Begin
<1>5. ASSUME NEW c \in Callers, NEW q \in QTypes, Query(c, q) PROVE Quiet
  BY <1>5 DEF Query, Answer
<1>6. ASSUME NEW c \in Callers, Hit(c) PROVE Quiet
  BY <1>6 DEF Hit
<1>7. ASSUME NEW c \in Callers, Join(c) PROVE Quiet
  BY <1>7 DEF Join
<1>8. ASSUME NEW c \in Callers, Publish(c) PROVE Quiet
  BY <1>8 DEF Publish
<1>9. ASSUME NEW c \in Callers, CloseDone(c) PROVE Quiet
  BY <1>9 DEF CloseDone
<1>10. ASSUME NEW c \in Callers, Wake(c) PROVE Quiet
  BY <1>10 DEF Wake
<1>11. ASSUME NEW c \in Callers, GiveUp(c) PROVE Quiet
  BY <1>11 DEF GiveUp
<1>12. CASE UNCHANGED vars
  BY <1>12 DEF vars
<1> HIDE DEF Quiet
<1> QED
  BY <1>1, <1>2, <1>3, <1>4, <1>5, <1>6, <1>7, <1>8, <1>9, <1>10, <1>11,
     <1>12, ResolverAssumption DEF Next, Run

(* Two leaders have different keys, so what one stores is not the other's; *)
(* and an entry that is kept keeps its expiry.                             *)
LEMMA NextLeaderInv == IInv /\ LeaderInv /\ [Next]_vars => LeaderInv'
<1> SUFFICES ASSUME IInv, LeaderInv, [Next]_vars,
                    NEW d \in Callers, (pc[d] = "lookup")',
                    (Key(d) \in DOMAIN cache)'
             PROVE  (now[d] >= cache[Key(d)].expires)'
  BY DEF LeaderInv
<1>0. TypeOK /\ TypeOK' /\ SingleFlight
  BY NextTypeOK DEF IInv
<1>1. ASSUME NEW c \in Callers, Lead(c)
      PROVE  (now[d] >= cache[Key(d)].expires)'
  <2>1. UNCHANGED <<cache, name, now>> /\ (d = c \/ pc[d] = "lookup")
    BY <1>0, <1>1 DEF Lead, TypeOK
  <2>2. CASE d = c
    <3>1. ~Fresh(d) /\ Key(d) \in DOMAIN cache
      BY <1>1, <2>1, <2>2 DEF Lead, Key
    <3>2. now[d] \in Nat /\ cache[Key(d)].expires \in Nat
      BY <1>0, <3>1 DEF TypeOK
    <3> QED
      BY <2>1, <3>1, <3>2 DEF Fresh, Key
  <2>3. CASE pc[d] = "lookup"
    BY <2>1, <2>3 DEF LeaderInv, Key
  <2> QED
    BY <2>1, <2>2, <2>3
<1>2. ASSUME NEW c \in Callers, Store(c)
      PROVE  (now[d] >= cache[Key(d)].expires)'
  <2>1. UNCHANGED <<name, now>> /\ pc[c] = "lookup" /\ pc[d] = "lookup" /\ d # c
    BY <1>0, <1>2 DEF Store, TypeOK
  <2>2. Key(d) # Key(c)
    BY <1>0, <2>1 DEF SingleFlight
  <2>3. /\ Key(d) \in DOMAIN cache
        /\ cache'[Key(d)] = cache[Key(d)]
    <3>1. CASE UNCHANGED cache
      BY <2>1, <3>1 DEF Key
    <3>2. ASSUME NEW e, StoreLocked(Key(c), e, now[c])
          PROVE  /\ Key(d) \in DOMAIN cache
                 /\ cache'[Key(d)] = cache[Key(d)]
      BY <2>1, <2>2, <3>2, StoreLockedDomain DEF Key
    <3> QED
      BY <1>2, <3>1, <3>2 DEF Store
  <2> QED
    BY <2>1, <2>3 DEF LeaderInv, Key
<1>3. CASE \A c \in Callers : ~Lead(c) /\ ~Store(c)
  BY <1>0, <1>3, OtherSteps DEF LeaderInv, Key
<1> QED
  BY <1>1, <1>2, <1>3

(* What storeLocked drops, when something good is among it.                *)
LEMMA EvictedLive ==
    ASSUME IsFiniteSet(DOMAIN cache), CacheBounded, NEW t,
           NEW E \in SUBSET DOMAIN cache, Evicted(t, E), NEW k \in E \ Dead(t)
    PROVE  Dead(t) = {} /\ Cardinality(DOMAIN cache) = MaxCacheEntries
<1> DEFINE live == DOMAIN cache \ Dead(t)
<1>1. Cardinality(live) >= MaxCacheEntries
  BY DEF Evicted
<1>2. /\ IsFiniteSet(live) /\ Cardinality(live) \in Nat
      /\ Cardinality(DOMAIN cache) \in Nat
      /\ Cardinality(live) <= Cardinality(DOMAIN cache)
      /\ Cardinality(live) = Cardinality(DOMAIN cache) => live = DOMAIN cache
  BY FS_Subset, FS_CardinalityType
<1>3. Cardinality(live) = Cardinality(DOMAIN cache)
      /\ Cardinality(DOMAIN cache) = MaxCacheEntries
  BY <1>1, <1>2, ResolverAssumption DEF CacheBounded
<1>4. Dead(t) \subseteq DOMAIN cache
  BY DEF Dead
<1> QED
  BY <1>2, <1>3, <1>4

(* Nothing good is lost while something expired could go instead, for any  *)
(* cap and however stale the clocks of the leaders are                     *)
(* (resolver.go:105-129).                                                  *)
THEOREM EvictsLiveOnlyWhenFullHolds == Spec => EvictsLiveOnlyWhenFull
<1> DEFINE B == IsFiniteSet(DOMAIN cache) /\ CacheBounded
           A == \A k \in DOMAIN cache \ DOMAIN cache', c \in Callers :
                  (pc[c] = "lookup" /\ pc'[c] = "publish"
                     /\ cache[k].expires > now[c]) =>
                  /\ Cardinality(DOMAIN cache \ {Key(c)}) = MaxCacheEntries
                  /\ \A j \in DOMAIN cache : cache[j].expires > now[c]
<1>1. Init => LeaderInv
  BY DEF Init, LeaderInv
<1>2. IInv /\ LeaderInv /\ B /\ [Next]_vars => [A]_vars
  <2> SUFFICES ASSUME IInv, LeaderInv, B, [Next]_vars,
                      NEW k \in DOMAIN cache \ DOMAIN cache', NEW c \in Callers,
                      pc[c] = "lookup", pc'[c] = "publish",
                      cache[k].expires > now[c]
               PROVE  /\ Cardinality(DOMAIN cache \ {Key(c)}) = MaxCacheEntries
                      /\ \A j \in DOMAIN cache : cache[j].expires > now[c]
    OBVIOUS
  <2>0. TypeOK
    BY DEF IInv
  <2>1. Store(c)
    <3>1. CASE \A d \in Callers : ~Lead(d) /\ ~Store(d)
      BY <2>0, <3>1, OtherSteps
    <3>2. ASSUME NEW d \in Callers, Lead(d) PROVE FALSE
      BY <2>0, <3>2 DEF Lead, TypeOK
    <3>3. ASSUME NEW d \in Callers, Store(d) PROVE d = c
      BY <2>0, <3>3 DEF Store, TypeOK
    <3> QED
      BY <3>1, <3>2, <3>3
  <2>2. PICK e : StoreLocked(Key(c), e, now[c])
    BY <2>1 DEF Store
  <2>3. PICK E \in SUBSET DOMAIN cache :
          /\ Evicted(now[c], E)
          /\ cache' = [j \in (DOMAIN cache \ E) \cup {Key(c)} |->
                          IF j = Key(c) THEN e ELSE cache[j]]
    BY <2>2, Zenon DEF StoreLocked
  <2>4. k \in E
    BY <2>3
  <2>5. now[c] \in Nat /\ \A j \in DOMAIN cache : cache[j].expires \in Nat
    BY <2>0 DEF TypeOK
  <2>6. k \notin Dead(now[c])
    BY <2>5 DEF Dead
  <2>7. Dead(now[c]) = {} /\ Cardinality(DOMAIN cache) = MaxCacheEntries
    BY <2>3, <2>4, <2>6, EvictedLive
  <2>8. \A j \in DOMAIN cache : cache[j].expires > now[c]
    <3>1. Cardinality(DOMAIN cache) >= MaxCacheEntries
      BY <2>7, ResolverAssumption
    <3> QED
      BY <2>5, <2>7, <3>1 DEF Dead
  <2>9. Key(c) \notin DOMAIN cache
    BY <2>5, <2>8 DEF LeaderInv
  <2>10. DOMAIN cache \ {Key(c)} = DOMAIN cache
    BY <2>9
  <2> QED
    BY <2>7, <2>8, <2>10
<1> HIDE DEF B
<1>3. Spec => []B
  BY CacheBoundedInv DEF B
<1> QED
  BY <1>1, <1>2, <1>3, InitIInv, NextIInv, NextLeaderInv, PTL
     DEF Spec, EvictsLiveOnlyWhenFull

-----------------------------------------------------------------------------
(* Every step of the resolver is a step of its contract, or a stutter. *)
USE DEF Contract!cvars

LEMMA ContractInit == Init => Contract!CInit
BY DEF Init, Contract!CInit, SomeName, Contract!SomeName, Failure

(* An answer produced for a caller's key after it asked may be delivered. *)
LEMMA ProducedUsable ==
    ASSUME TypeOK, NEW c \in Callers, NEW S, Produced(Key(c), S, now[c])
    PROVE  \E o \in Contract!Usable(c) : o.ips = S
BY DEF Produced, Contract!Usable, Key

(* A caller that returns S is one the contract delivers S to. *)
LEMMA FinishDelivers ==
    ASSUME TypeOK, NEW c \in Callers, NEW S, Finish(c, S),
           pc[c] \notin {"idle", "returned"},
           UNCHANGED <<clock, name, now, expired, outcomes>>
    PROVE  Contract!Deliver(c, S)
BY DEF Finish, Contract!Deliver, TypeOK

LEMMA DeliverReturns ==
    ASSUME NEW c \in Callers, NEW S, Contract!Deliver(c, S),
           \E o \in Contract!Usable(c) : o.ips = S
    PROVE  Contract!CNext
<1>1. Contract!Return(c)
  BY DEF Contract!Return
<1> QED
  BY <1>1 DEF Contract!CNext

LEMMA ContractStep == IInv /\ [Next]_vars => [Contract!CNext]_(Contract!cvars)
<1> SUFFICES ASSUME IInv, [Next]_vars PROVE [Contract!CNext]_(Contract!cvars)
  OBVIOUS
<1> DEFINE ph == [c \in Callers |->
                    IF pc[c] \in {"idle", "returned"} THEN pc[c] ELSE "asking"]
<1>0. TypeOK
  BY DEF IInv
<1>C. ASSUME ph' = ph,
             UNCHANGED <<clock, name, now, expired, outcomes, result>>
      PROVE  UNCHANGED Contract!cvars
  BY <1>C
<1>1. CASE Tick
  BY <1>1 DEF Tick, mutex, Contract!CTick, Contract!CNext
<1>2. ASSUME NEW c \in Callers, Expire(c) PROVE Contract!CNext
  BY <1>2 DEF Expire, mutex, Contract!CExpire, Contract!CNext
<1>3. ASSUME NEW c \in Callers, NEW a \in Addrs, ResolveLiteral(c, a)
      PROVE  Contract!CNext
  <2>1. Contract!AskLiteral(c, a)
    BY <1>3, <1>0 DEF ResolveLiteral, Contract!AskLiteral, TypeOK
  <2> QED
    BY <2>1 DEF Contract!CNext
<1>4. ASSUME NEW c \in Callers, NEW n \in Names, Begin(c, n)
      PROVE  Contract!CNext
  <2>1. Contract!Ask(c, n)
    BY <1>4, <1>0 DEF Begin, Contract!Ask, TypeOK
  <2> QED
    BY <2>1 DEF Contract!CNext
<1>5. ASSUME NEW c \in Callers, NEW q \in QTypes, Query(c, q)
      PROVE  UNCHANGED Contract!cvars
  BY <1>5 DEF Query, Answer, mutex
<1>6. ASSUME NEW c \in Callers, Hit(c) PROVE Contract!CNext
  <2>0. PICK S : S = cache[Key(c)].ips
    OBVIOUS
  <2>1. Contract!Deliver(c, S)
    BY <1>6, <1>0, <2>0, FinishDelivers DEF Hit, Finish, mutex
  <2>2. \E o \in Contract!Usable(c) : o.ips = S
    BY <1>6, <2>0 DEF Hit, Fresh, IInv, OutcomeInv, Contract!Usable, Key
  <2> QED
    BY <2>1, <2>2, DeliverReturns
<1>7. ASSUME NEW c \in Callers, Join(c) PROVE UNCHANGED Contract!cvars
  BY <1>7, <1>0, <1>C DEF Join, mutex, TypeOK
<1>8. ASSUME NEW c \in Callers, Lead(c) PROVE UNCHANGED Contract!cvars
  BY <1>8, <1>0, <1>C DEF Lead, TypeOK
<1>9. ASSUME NEW c \in Callers, Store(c) PROVE Contract!CNext
  <2> DEFINE e == IF look[c].ips # Failure
                  THEN now[c] + Clamp(look[c].ttl) ELSE 0
  <2>1. Key(c) \in Keys /\ look[c].ips \in SUBSET Addrs
    BY <1>0, ResolverAssumption DEF TypeOK, Key, Lookup
  <2>2. e \in 0 .. clock + MaxTTL
    <3>1. look[c].ttl \in Nat \cup {NoTTL}
      BY <1>0, ResolverAssumption DEF TypeOK, Lookup
    <3>2. now[c] \in Nat /\ clock \in Nat /\ now[c] <= clock
      BY <1>0 DEF TypeOK, IInv, OutcomeInv
    <3>3. Clamp(look[c].ttl) \in Nat /\ Clamp(look[c].ttl) <= MaxTTL
      BY <3>1, ClampBounds
    <3> QED
      BY <3>2, <3>3, ResolverAssumption
  <2>3. Contract!Produce(Key(c), look[c].ips, e)
    <3>1. /\ outcomes' = outcomes \cup {[key |-> Key(c), ips |-> look[c].ips,
                                         at |-> clock, expires |-> e]}
          /\ ph' = ph
          /\ UNCHANGED <<clock, name, now, expired, result>>
      BY <1>9, <1>0 DEF Store, TypeOK
    <3>2. e <= clock + MaxTTL
      BY <2>2
    <3> QED
      BY <3>1, <3>2 DEF Contract!Produce, Failure
  <2> QED
    BY <2>1, <2>2, <2>3 DEF Contract!CNext
<1>10. ASSUME NEW c \in Callers, Publish(c) PROVE UNCHANGED Contract!cvars
  BY <1>10, <1>0, <1>C DEF Publish, mutex, TypeOK
<1>11. ASSUME NEW c \in Callers, CloseDone(c) PROVE Contract!CNext
  <2>0. PICK S : S = look[c].ips
    OBVIOUS
  <2>1. Contract!Deliver(c, S)
    BY <1>11, <1>0, <2>0, FinishDelivers DEF CloseDone, Finish, mutex
  <2>2. Produced(Key(c), S, now[c])
    BY <1>11, <2>0 DEF CloseDone, IInv, OutcomeInv
  <2> QED
    BY <2>1, <2>2, <1>0, DeliverReturns, ProducedUsable
<1>12. ASSUME NEW c \in Callers, Wake(c) PROVE Contract!CNext
  <2>0. PICK S : S = call[follows[c]]
    OBVIOUS
  <2>1. Contract!Deliver(c, S)
    BY <1>12, <1>0, <2>0, FinishDelivers DEF Wake, Finish, mutex
  <2>2. Produced(Key(c), S, now[c])
    <3>1. /\ S = look[follows[c]].ips
          /\ pc[follows[c]] = "returned" /\ pc[c] = "wait"
      BY <1>12, <1>0, <2>0 DEF Wake, IInv, AnswerInv, TypeOK
    <3> QED
      BY <3>1 DEF IInv, OutcomeInv
  <2> QED
    BY <2>1, <2>2, <1>0, DeliverReturns, ProducedUsable
<1>13. ASSUME NEW c \in Callers, GiveUp(c) PROVE Contract!CNext
  <2>1. Contract!Deliver(c, Failure)
    BY <1>13, <1>0, FinishDelivers DEF GiveUp, mutex
  <2> QED
    BY <2>1, <1>13 DEF GiveUp, Failure, Contract!Abandon, Contract!CNext
<1>14. CASE UNCHANGED vars
  BY <1>14 DEF vars, mutex
<1> QED
  BY <1>1, <1>2, <1>3, <1>4, <1>5, <1>6, <1>7, <1>8, <1>9, <1>10, <1>11,
     <1>12, <1>13, <1>14, ResolverAssumption DEF Next, Run

(* The resolver implements its contract: no caller is ever given an answer *)
(* for another name, one that had expired before it asked, or a failure    *)
(* that is older than its call.                                            *)
THEOREM ContractHolds == Spec => ContractSpec
<1> QED
  BY InitIInv, NextIInv, ContractInit, ContractStep, PTL
     DEF Spec, ContractSpec, Contract!CSpec
=============================================================================
