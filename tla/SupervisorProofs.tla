-------------------------- MODULE SupervisorProofs --------------------------
(***************************************************************************)
(* What Supervisor promises for any number of successive sets of servers   *)
(* and any number of failures: a set that was stopped accepts nothing any  *)
(* more and leaves the status of the next one alone, and a DNS server that *)
(* could not bind both of its sockets leaves none open.  And, for whatever *)
(* settings a user sends, what runs is what is shown.                      *)
(***************************************************************************)
EXTENDS Supervisor, TLAPS

LEMMA InitIInv == Init => IInv
<1> SUFFICES ASSUME Init PROVE IInv
  OBVIOUS
<1> USE SupervisorAssumption DEF Init
<1>1. TypeOK
  <2>1. cfg \in Configs /\ live \in Configs
    BY DEF Configs
  <2>2. /\ serve \in [Sets -> [Proxies -> {"none", "begin", "serving", "returned", "done"}]]
        /\ closed \in [Sets -> [Proxies -> BOOLEAN]]
        /\ ln \in [Sets -> [Proxies -> {"none", "asked", "other", "closed"}]]
    OBVIOUS
  <2>3. /\ sock \in [Sets -> [Protocols -> {"none", "bound", "active", "ended", "failed"}]]
        /\ result \in [Sets -> [Kinds -> {"none", "nil", "closed", "failed"}]]
    OBVIOUS
  <2>4. up \in [Sets -> [Kinds -> BOOLEAN]] /\ err \in [Sets -> [Kinds -> BOOLEAN]]
    OBVIOUS
  <2>5. dns \in [Sets -> {"none", "udp", "tcp", "serve", "shutUDP", "shutTCP",
                          "returned", "done"}]
    OBVIOUS
  <2>6. /\ mode = "none" /\ running = FALSE /\ stopping = FALSE /\ stop = "idle"
        /\ set \in 0 .. MaxStarts /\ fails \in 0 .. MaxFails
    OBVIOUS
  <2> QED
    BY ONLY <2>1, <2>2, <2>3, <2>4, <2>5, <2>6 DEF TypeOK
<1>2. FreshInv /\ DnsInv /\ StatusIsOfThisSet
  BY DEF FreshInv, DnsInv, StatusIsOfThisSet, Sets, Protocols
<1>3. StopInv
  BY DEF StopInv, Locked, Sets
<1>4. ClosedInv
  BY DEF ClosedInv, Stopped, Past, Sets
<1> QED
  BY <1>1, <1>2, <1>3, <1>4 DEF IInv

(* The calls of the supervisor. *)
LEMMA CallStep ==
  ASSUME IInv, (\E m \in Modes : Start(m)) \/ (\E u \in Settings : SetConfig(u)) \/ Stop \/ RunStop
  PROVE  IInv'
<1> USE SupervisorAssumption DEF IInv, TypeOK, Kinds, Protocols, Sets, control,
   proxies, servers, status
<1>1. ASSUME NEW m \in Modes, Start(m) PROVE IInv'
  <2>1. TypeOK'
    <3>1. PICK got \in [Proxies -> {"asked", "other", "none"}] :
            /\ ln' = [ln EXCEPT ![set'] = got]
            /\ serve' = [serve EXCEPT ![set'] =
                           [k \in Proxies |-> IF got[k] = "none" THEN "none" ELSE "begin"]]
            /\ up' = [up EXCEPT ![set'] =
                        [k \in Kinds |-> Has(m, k) /\ (k \in Proxies => got[k] # "none")]]
            /\ err' = [err EXCEPT ![set'] =
                         [k \in Kinds |-> k \in Proxies /\ Has(m, k) /\ got[k] = "none"]]
      BY <1>1 DEF Start
    <3>2. set' \in Sets /\ set' \in 0 .. MaxStarts
      BY <1>1 DEF Start
    <3>3. ln' \in [Sets -> [Proxies -> {"none", "asked", "other", "closed"}]]
      BY <3>1, <3>2
    <3>4. serve' \in [Sets -> [Proxies -> {"none", "begin", "serving", "returned", "done"}]]
      BY <3>1, <3>2
    <3>5. up' \in [Sets -> [Kinds -> BOOLEAN]]
      <4>1. [k \in Kinds |-> Has(m, k) /\ (k \in Proxies => got[k] # "none")] \in [Kinds -> BOOLEAN]
        BY DEF Has
      <4> QED
        BY <3>1, <3>2, <4>1
    <3>6. err' \in [Sets -> [Kinds -> BOOLEAN]]
      <4>1. [k \in Kinds |-> k \in Proxies /\ Has(m, k) /\ got[k] = "none"] \in [Kinds -> BOOLEAN]
        BY DEF Has
      <4> QED
        BY <3>1, <3>2, <4>1
    <3> QED
      BY <1>1, <3>2, <3>3, <3>4, <3>5, <3>6 DEF TypeOK, Start, Locked
  <2>2. FreshInv'
    BY <1>1 DEF FreshInv, Start, Has, Locked, Stopped, Bindable
  <2>3. StopInv'
    <3>1. PICK got \in [Proxies -> {"asked", "other", "none"}] :
            /\ \A k \in Proxies : got[k] \in IF Has(m, k) THEN Bindable(k) ELSE {"none"}
            /\ serve' = [serve EXCEPT ![set'] =
                           [k \in Proxies |-> IF got[k] = "none" THEN "none" ELSE "begin"]]
      BY <1>1 DEF Start
    <3>2. set' = set + 1 /\ set' \in Sets /\ closed' = closed /\ mode' = m
      BY <1>1 DEF Start
    <3>3. \A k \in Proxies : ~closed'[set'][k]
      BY <3>2 DEF FreshInv
    <3>4. \A k \in Proxies : serve'[set'][k] # "none" => Has(mode', k)
      BY <3>1, <3>2
    <3> QED
      BY <1>1, <3>2, <3>3, <3>4 DEF StopInv, Start, Locked
  <2>4. ClosedInv'
    BY <1>1 DEF ClosedInv, Stopped, Past, Start, Has, Locked, Stopped, Bindable
  <2>5. DnsInv'
    <3>1. set' \in Sets /\ set' > set /\ sock' = sock
      BY <1>1 DEF Start
    <3>2. \A i \in Sets : i # set' => dns'[i] = dns[i]
      BY <1>1 DEF Start
    <3>3. dns'[set'] \in {"none", "udp"} /\ dns[set'] = "none"
      BY <1>1, <3>1 DEF Start, FreshInv
    <3> QED
      BY <3>1, <3>2, <3>3 DEF DnsInv
  <2>6. StatusIsOfThisSet'
    <3>1. PICK got \in [Proxies -> {"asked", "other", "none"}] :
            /\ \A k \in Proxies : got[k] \in IF Has(m, k) THEN Bindable(k) ELSE {"none"}
            /\ serve' = [serve EXCEPT ![set'] =
                           [k \in Proxies |-> IF got[k] = "none" THEN "none" ELSE "begin"]]
            /\ up' = [up EXCEPT ![set'] =
                        [k \in Kinds |-> Has(m, k) /\ (k \in Proxies => got[k] # "none")]]
      BY <1>1 DEF Start
    <3>2. set' \in Sets
      BY <1>1 DEF Start
    <3>3. ASSUME NEW k \in Proxies
          PROVE  up'[set'][k] <=> serve'[set'][k] \in {"begin", "serving", "returned"}
      <4>1. up'[set'][k] = (Has(m, k) /\ got[k] # "none")
        BY <3>1, <3>2
      <4>2. serve'[set'][k] = IF got[k] = "none" THEN "none" ELSE "begin"
        BY <3>1, <3>2
      <4>3. got[k] # "none" => Has(m, k)
        BY <3>1
      <4> QED
        BY <4>1, <4>2, <4>3
    <3> QED
      BY <3>3 DEF StatusIsOfThisSet
  <2> QED
    BY <2>1, <2>2, <2>3, <2>4, <2>5, <2>6
<1>2. ASSUME NEW u \in Settings, SetConfig(u) PROVE IInv'
  <2>1. TypeOK'
    BY <1>2 DEF TypeOK, SetConfig, Store, Configs
  <2>2. FreshInv'
    BY <1>2 DEF FreshInv, SetConfig, Store, Configs
  <2>3. StopInv'
    BY <1>2 DEF StopInv, Locked, SetConfig, Store, Configs
  <2>4. ClosedInv'
    BY <1>2 DEF ClosedInv, Stopped, Past, SetConfig, Store, Configs
  <2>5. DnsInv'
    BY <1>2 DEF DnsInv, SetConfig, Store, Configs
  <2>6. StatusIsOfThisSet'
    BY <1>2 DEF StatusIsOfThisSet, SetConfig, Store, Configs
  <2> QED
    BY <2>1, <2>2, <2>3, <2>4, <2>5, <2>6
<1>3. CASE Stop
  <2>1. TypeOK'
    BY <1>3 DEF TypeOK, Stop, Locked
  <2>2. FreshInv'
    BY <1>3 DEF FreshInv, Stop, Locked
  <2>3. StopInv'
    BY <1>3 DEF StopInv, Locked, Stop, Locked
  <2>4. ClosedInv'
    BY <1>3 DEF ClosedInv, Stopped, Past, Stop, Locked
  <2>5. DnsInv'
    BY <1>3 DEF DnsInv, Stop, Locked
  <2>6. StatusIsOfThisSet'
    BY <1>3 DEF StatusIsOfThisSet, Stop, Locked
  <2> QED
    BY <2>1, <2>2, <2>3, <2>4, <2>5, <2>6
<1>4. ASSUME NEW k \in {"http", "socks"}, CloseProxy(k) PROVE IInv'
  <2>1. TypeOK'
    <3>1. set \in Sets
      BY <1>4 DEF CloseProxy, StopInv, Locked
    <3>2. CASE k \in Proxies /\ Has(mode, k)
      <4>1. closed' = [closed EXCEPT ![set][k] = TRUE]
        BY <1>4, <3>2 DEF CloseProxy
      <4>2. ln' = [ln EXCEPT ![set][k] = IF serve[set][k] \in {"none", "begin"} THEN ln[set][k]
                                         ELSE "closed"]
        BY <1>4, <3>2, <3>1 DEF CloseProxy
      <4>3. closed' \in [Sets -> [Proxies -> BOOLEAN]]
        BY <3>1, <3>2, <4>1
      <4>4. ln' \in [Sets -> [Proxies -> {"none", "asked", "other", "closed"}]]
        <5>1. CASE serve[set][k] \in {"none", "begin"}
          <6>1. ln' = [ln EXCEPT ![set][k] = ln[set][k]]
            BY <4>2, <5>1
          <6>2. ln[set][k] \in {"none", "asked", "other", "closed"}
            BY <3>1, <3>2
          <6> QED
            BY <3>1, <3>2, <6>1, <6>2
        <5>2. CASE serve[set][k] \notin {"none", "begin"}
          <6>1. ln' = [ln EXCEPT ![set][k] = "closed"]
            BY <4>2, <5>2
          <6> QED
            BY <3>1, <3>2, <6>1
        <5> QED
          BY <5>1, <5>2
      <4> QED
        BY <1>4, <4>3, <4>4 DEF CloseProxy
    <3>3. CASE ~(k \in Proxies /\ Has(mode, k))
      BY <1>4, <3>3 DEF CloseProxy
    <3> QED
      BY <3>2, <3>3
  <2>2. FreshInv'
    BY <1>4 DEF FreshInv, CloseProxy, Has, Locked
  <2>3. StopInv'
    BY <1>4 DEF StopInv, Locked, CloseProxy, Has, Locked
  <2>4. ClosedInv'
    <3>1. set \in Sets /\ running
      BY <1>4 DEF CloseProxy, StopInv, Locked
    <3>2. serve' = serve /\ set' = set /\ running' = running
      BY <1>4 DEF CloseProxy
    <3>3. ASSUME NEW i \in Sets, NEW j \in Proxies,
    Stopped(i)' \/ (i = set /\ Past(j)')
          PROVE  /\ serve[i][j] = "begin" => closed'[i][j]
                 /\ serve[i][j] = "serving" => ln'[i][j] = "closed"
      <4>1. CASE i = set /\ j = k
        BY <1>4, <3>1, <4>1 DEF CloseProxy, StopInv
      <4>2. CASE ~(i = set /\ j = k)
        <5>1. closed'[i][j] = closed[i][j] /\ ln'[i][j] = ln[i][j]
          BY <1>4, <3>1, <4>2 DEF CloseProxy
        <5>2. Stopped(i) \/ (i = set /\ Past(j))
          BY <1>4, <3>1, <3>2, <3>3, <4>2 DEF CloseProxy, Stopped, Past
        <5> QED
          BY <5>1, <5>2 DEF ClosedInv
      <4> QED
        BY <4>1, <4>2
    <3> QED
      BY <3>2, <3>3 DEF ClosedInv
  <2>5. DnsInv'
    BY <1>4 DEF DnsInv, CloseProxy, Has, Locked
  <2>6. StatusIsOfThisSet'
    BY <1>4 DEF StatusIsOfThisSet, CloseProxy, Has, Locked
  <2> QED
    BY <2>1, <2>2, <2>3, <2>4, <2>5, <2>6
<1>5. ASSUME NEW p \in Protocols, ShutdownDNS(p) PROVE IInv'
  <2>1. TypeOK'
    BY <1>5 DEF TypeOK, ShutdownDNS, Shut, Locked
  <2>2. FreshInv'
    BY <1>5 DEF FreshInv, ShutdownDNS, Shut, Locked
  <2>3. StopInv'
    BY <1>5 DEF StopInv, Locked, ShutdownDNS, Shut, Locked
  <2>4. ClosedInv'
    BY <1>5 DEF ClosedInv, Stopped, Past, ShutdownDNS, Shut, Locked
  <2>5. DnsInv'
    BY <1>5 DEF DnsInv, ShutdownDNS, Shut, Locked
  <2>6. StatusIsOfThisSet'
    BY <1>5 DEF StatusIsOfThisSet, ShutdownDNS, Shut, Locked
  <2> QED
    BY <2>1, <2>2, <2>3, <2>4, <2>5, <2>6
<1>6. CASE StopReturns
  <2>1. TypeOK'
    BY <1>6 DEF TypeOK, StopReturns, Locked
  <2>2. FreshInv'
    BY <1>6 DEF FreshInv, StopReturns, Locked
  <2>3. StopInv'
    BY <1>6 DEF StopInv, Locked, StopReturns, Locked
  <2>4. ClosedInv'
    BY <1>6 DEF ClosedInv, Stopped, Past, StopReturns, Locked
  <2>5. DnsInv'
    BY <1>6 DEF DnsInv, StopReturns, Locked
  <2>6. StatusIsOfThisSet'
    BY <1>6 DEF StatusIsOfThisSet, StopReturns, Locked
  <2> QED
    BY <2>1, <2>2, <2>3, <2>4, <2>5, <2>6
<1> QED
  BY <1>1, <1>2, <1>3, <1>4, <1>5, <1>6 DEF RunStop

(* The goroutine of a proxy. *)
LEMMA ProxyStep ==
  ASSUME IInv, NEW i \in Sets, NEW k \in Proxies, RunProxy(i, k) \/ AcceptFails(i, k)
  PROVE  IInv'
<1> USE SupervisorAssumption DEF IInv, TypeOK, Kinds, Protocols, Sets, control,
   proxies, servers, status
<1>1. CASE Adopt(i, k)
  <2>1. TypeOK'
    BY <1>1 DEF TypeOK, Adopt
  <2>2. FreshInv'
    BY <1>1 DEF FreshInv, Adopt
  <2>3. StopInv'
    BY <1>1 DEF StopInv, Locked, Adopt
  <2>4. ClosedInv'
    <3>1. /\ closed' = closed /\ ln' = ln
          /\ set' = set /\ running' = running /\ stop' = stop
      BY <1>1 DEF Adopt
    <3>2. ASSUME NEW j \in Sets, NEW l \in Proxies,
    Stopped(j) \/ (j = set /\ Past(l))
          PROVE  /\ serve'[j][l] = "begin" => closed[j][l]
                 /\ serve'[j][l] = "serving" => ln[j][l] = "closed"
      <4>1. ~(j = i /\ l = k)
        BY <1>1, <3>2 DEF Adopt, ClosedInv
      <4>2. serve'[j][l] = serve[j][l]
        BY <1>1, <4>1 DEF Adopt
      <4> QED
        BY <3>2, <4>2 DEF ClosedInv
    <3> QED
      BY <3>1, <3>2 DEF ClosedInv, Stopped, Past
  <2>5. DnsInv'
    BY <1>1 DEF DnsInv, Adopt
  <2>6. StatusIsOfThisSet'
    BY <1>1 DEF StatusIsOfThisSet, Adopt
  <2> QED
    BY <2>1, <2>2, <2>3, <2>4, <2>5, <2>6
<1>2. CASE ServeClosed(i, k)
  <2>1. TypeOK'
    BY <1>2 DEF TypeOK, ServeClosed
  <2>2. FreshInv'
    BY <1>2 DEF FreshInv, ServeClosed
  <2>3. StopInv'
    BY <1>2 DEF StopInv, Locked, ServeClosed
  <2>4. ClosedInv'
    BY <1>2 DEF ClosedInv, Stopped, Past, ServeClosed
  <2>5. DnsInv'
    BY <1>2 DEF DnsInv, ServeClosed
  <2>6. StatusIsOfThisSet'
    BY <1>2 DEF StatusIsOfThisSet, ServeClosed
  <2> QED
    BY <2>1, <2>2, <2>3, <2>4, <2>5, <2>6
<1>3. CASE ListenerClosed(i, k)
  <2>1. TypeOK'
    BY <1>3 DEF TypeOK, ListenerClosed
  <2>2. FreshInv'
    BY <1>3 DEF FreshInv, ListenerClosed
  <2>3. StopInv'
    BY <1>3 DEF StopInv, Locked, ListenerClosed
  <2>4. ClosedInv'
    BY <1>3 DEF ClosedInv, Stopped, Past, ListenerClosed
  <2>5. DnsInv'
    BY <1>3 DEF DnsInv, ListenerClosed
  <2>6. StatusIsOfThisSet'
    BY <1>3 DEF StatusIsOfThisSet, ListenerClosed
  <2> QED
    BY <2>1, <2>2, <2>3, <2>4, <2>5, <2>6
<1>4. CASE ServeReturns(i, k)
  <2>1. TypeOK'
    BY <1>4 DEF TypeOK, ServeReturns, Report, Locked
  <2>2. FreshInv'
    BY <1>4 DEF FreshInv, ServeReturns, Report, Locked
  <2>3. StopInv'
    BY <1>4 DEF StopInv, Locked, ServeReturns, Report, Locked
  <2>4. ClosedInv'
    BY <1>4 DEF ClosedInv, Stopped, Past, ServeReturns, Report, Locked
  <2>5. DnsInv'
    BY <1>4 DEF DnsInv, ServeReturns, Report, Locked
  <2>6. StatusIsOfThisSet'
    BY <1>4 DEF StatusIsOfThisSet, ServeReturns, Report, Locked
  <2> QED
    BY <2>1, <2>2, <2>3, <2>4, <2>5, <2>6
<1>5. CASE AcceptFails(i, k)
  <2>1. TypeOK'
    <3>1. \E v \in {"nil", "closed", "failed"} : result' = [result EXCEPT ![i][k] = v]
      BY <1>5 DEF AcceptFails
    <3>2. result' \in [Sets -> [Kinds -> {"none", "nil", "closed", "failed"}]]
      <4>1. ASSUME NEW v \in {"nil", "closed", "failed"}, result' = [result EXCEPT ![i][k] = v]
            PROVE  result' \in [Sets -> [Kinds -> {"none", "nil", "closed", "failed"}]]
        BY <4>1
      <4> QED
        BY <3>1, <4>1
    <3>3. serve' = [serve EXCEPT ![i][k] = "returned"]
      BY <1>5 DEF AcceptFails
    <3>4. serve' \in [Sets -> [Proxies -> {"none", "begin", "serving", "returned", "done"}]]
      <4>1. ASSUME serve' = [serve EXCEPT ![i][k] = "returned"]
            PROVE  serve' \in [Sets -> [Proxies -> {"none", "begin", "serving", "returned", "done"}]]
        BY <4>1
      <4> QED
        BY <3>3, <4>1
    <3>5. fails' \in 0 .. MaxFails
      BY <1>5 DEF AcceptFails
    <3> QED
      BY <1>5, <3>2, <3>4, <3>5 DEF TypeOK, AcceptFails
  <2>2. FreshInv'
    BY <1>5 DEF FreshInv, AcceptFails
  <2>3. StopInv'
    BY <1>5 DEF StopInv, Locked, AcceptFails
  <2>4. ClosedInv'
    BY <1>5 DEF ClosedInv, Stopped, Past, AcceptFails
  <2>5. DnsInv'
    BY <1>5 DEF DnsInv, AcceptFails
  <2>6. StatusIsOfThisSet'
    BY <1>5 DEF StatusIsOfThisSet, AcceptFails
  <2> QED
    BY <2>1, <2>2, <2>3, <2>4, <2>5, <2>6
<1> QED
  BY <1>1, <1>2, <1>3, <1>4, <1>5 DEF RunProxy

(* The goroutine of a DNS server. *)
LEMMA DNSStep ==
  ASSUME IInv, NEW i \in Sets, RunDNS(i)
  PROVE  IInv'
<1> USE SupervisorAssumption DEF IInv, TypeOK, Kinds, Protocols, Sets, control,
   proxies, servers, status
<1>1. CASE BindUDP(i)
  <2>1. TypeOK'
    <3>1. result' = result \/ \E v \in {"nil", "closed", "failed"} : result' = [result EXCEPT ![i]["dns"] = v]
      BY <1>1 DEF BindUDP
    <3>2. result' \in [Sets -> [Kinds -> {"none", "nil", "closed", "failed"}]]
      <4>1. ASSUME NEW v \in {"nil", "closed", "failed"}, result' = [result EXCEPT ![i]["dns"] = v]
            PROVE  result' \in [Sets -> [Kinds -> {"none", "nil", "closed", "failed"}]]
        BY <4>1
      <4> QED
        BY <3>1, <4>1
    <3>3. sock' = sock \/ \E p \in Protocols, v \in {"bound", "active", "ended", "failed"} : sock' = [sock EXCEPT ![i][p] = v]
      BY <1>1 DEF BindUDP
    <3>4. sock' \in [Sets -> [Protocols -> {"none", "bound", "active", "ended", "failed"}]]
      <4>1. ASSUME NEW p \in Protocols, NEW v \in {"bound", "active", "ended", "failed"}, sock' = [sock EXCEPT ![i][p] = v]
            PROVE  sock' \in [Sets -> [Protocols -> {"none", "bound", "active", "ended", "failed"}]]
        BY <4>1
      <4> QED
        BY <3>3, <4>1
    <3> QED
      BY <1>1, <3>2, <3>4 DEF TypeOK, BindUDP
  <2>2. FreshInv'
    BY <1>1 DEF FreshInv, BindUDP
  <2>3. StopInv'
    BY <1>1 DEF StopInv, Locked, BindUDP
  <2>4. ClosedInv'
    BY <1>1 DEF ClosedInv, Stopped, Past, BindUDP
  <2>5. DnsInv'
    BY <1>1 DEF DnsInv, BindUDP
  <2>6. StatusIsOfThisSet'
    BY <1>1 DEF StatusIsOfThisSet, BindUDP
  <2> QED
    BY <2>1, <2>2, <2>3, <2>4, <2>5, <2>6
<1>2. CASE BindTCP(i)
  <2>1. TypeOK'
    <3>1. result' = result \/ \E v \in {"nil", "closed", "failed"} : result' = [result EXCEPT ![i]["dns"] = v]
      BY <1>2 DEF BindTCP
    <3>2. result' \in [Sets -> [Kinds -> {"none", "nil", "closed", "failed"}]]
      <4>1. ASSUME NEW v \in {"nil", "closed", "failed"}, result' = [result EXCEPT ![i]["dns"] = v]
            PROVE  result' \in [Sets -> [Kinds -> {"none", "nil", "closed", "failed"}]]
        BY <4>1
      <4> QED
        BY <3>1, <4>1
    <3>3. \E p \in Protocols, v \in {"bound", "active", "ended", "failed"} : sock' = [sock EXCEPT ![i][p] = v]
      BY <1>2 DEF BindTCP
    <3>4. sock' \in [Sets -> [Protocols -> {"none", "bound", "active", "ended", "failed"}]]
      <4>1. ASSUME NEW p \in Protocols, NEW v \in {"bound", "active", "ended", "failed"}, sock' = [sock EXCEPT ![i][p] = v]
            PROVE  sock' \in [Sets -> [Protocols -> {"none", "bound", "active", "ended", "failed"}]]
        BY <4>1
      <4> QED
        BY <3>3, <4>1
    <3> QED
      BY <1>2, <3>2, <3>4 DEF TypeOK, BindTCP
  <2>2. FreshInv'
    BY <1>2 DEF FreshInv, BindTCP
  <2>3. StopInv'
    BY <1>2 DEF StopInv, Locked, BindTCP
  <2>4. ClosedInv'
    BY <1>2 DEF ClosedInv, Stopped, Past, BindTCP
  <2>5. DnsInv'
    BY <1>2 DEF DnsInv, BindTCP
  <2>6. StatusIsOfThisSet'
    BY <1>2 DEF StatusIsOfThisSet, BindTCP
  <2> QED
    BY <2>1, <2>2, <2>3, <2>4, <2>5, <2>6
<1>3. CASE FirstExit(i)
  <2>1. TypeOK'
    <3>1. \E v \in {"nil", "closed", "failed"} : result' = [result EXCEPT ![i]["dns"] = v]
      BY <1>3 DEF FirstExit
    <3>2. result' \in [Sets -> [Kinds -> {"none", "nil", "closed", "failed"}]]
      <4>1. ASSUME NEW v \in {"nil", "closed", "failed"}, result' = [result EXCEPT ![i]["dns"] = v]
            PROVE  result' \in [Sets -> [Kinds -> {"none", "nil", "closed", "failed"}]]
        BY <4>1
      <4> QED
        BY <3>1, <4>1
    <3> QED
      BY <1>3, <3>2 DEF TypeOK, FirstExit
  <2>2. FreshInv'
    BY <1>3 DEF FreshInv, FirstExit
  <2>3. StopInv'
    BY <1>3 DEF StopInv, Locked, FirstExit
  <2>4. ClosedInv'
    BY <1>3 DEF ClosedInv, Stopped, Past, FirstExit
  <2>5. DnsInv'
    BY <1>3 DEF DnsInv, FirstExit
  <2>6. StatusIsOfThisSet'
    BY <1>3 DEF StatusIsOfThisSet, FirstExit
  <2> QED
    BY <2>1, <2>2, <2>3, <2>4, <2>5, <2>6
<1>4. CASE ShutOther(i)
  <2>1. TypeOK'
    <3>1. sock' = sock \/ \E p \in Protocols, v \in {"bound", "active", "ended", "failed"} : sock' = [sock EXCEPT ![i][p] = v]
      BY <1>4 DEF ShutOther, Shut
    <3>2. sock' \in [Sets -> [Protocols -> {"none", "bound", "active", "ended", "failed"}]]
      <4>1. ASSUME NEW p \in Protocols, NEW v \in {"bound", "active", "ended", "failed"}, sock' = [sock EXCEPT ![i][p] = v]
            PROVE  sock' \in [Sets -> [Protocols -> {"none", "bound", "active", "ended", "failed"}]]
        BY <4>1
      <4> QED
        BY <3>1, <4>1
    <3> QED
      BY <1>4, <3>2 DEF TypeOK, ShutOther, Shut
  <2>2. FreshInv'
    BY <1>4 DEF FreshInv, ShutOther, Shut
  <2>3. StopInv'
    BY <1>4 DEF StopInv, Locked, ShutOther, Shut
  <2>4. ClosedInv'
    BY <1>4 DEF ClosedInv, Stopped, Past, ShutOther, Shut
  <2>5. DnsInv'
    <3>1. PICK p \in Protocols : Shut(i, p)
      BY <1>4 DEF ShutOther
    <3>2. /\ dns[i] \in {"shutUDP", "shutTCP"} /\ dns'[i] \in {"shutTCP", "returned"}
          /\ \A j \in Sets : j # i => dns'[j] = dns[j]
      BY <1>4 DEF ShutOther
    <3>3. \A j \in Sets, q \in Protocols :
             sock'[j][q] = IF j = i /\ q = p /\ sock[j][q] = "active" THEN "ended" ELSE sock[j][q]
      BY <3>1 DEF Shut
    <3>4. ASSUME NEW j \in Sets
          PROVE  sock'[j]["tcp"] # "none" <=> sock[j]["tcp"] # "none"
      BY <3>3
    <3>5. ASSUME NEW j \in Sets, j # i
          PROVE  sock'[j] = sock[j]
      BY <3>1, <3>5 DEF Shut
    <3>6. sock'[i]["udp"] # "none" /\ sock'[i]["tcp"] # "none"
      BY <3>2, <3>3 DEF DnsInv
    <3> QED
      BY <3>2, <3>5, <3>6 DEF DnsInv
  <2>6. StatusIsOfThisSet'
    BY <1>4 DEF StatusIsOfThisSet, ShutOther, Shut
  <2> QED
    BY <2>1, <2>2, <2>3, <2>4, <2>5, <2>6
<1>5. CASE DNSReturns(i)
  <2>1. TypeOK'
    BY <1>5 DEF TypeOK, DNSReturns, Report, Locked
  <2>2. FreshInv'
    BY <1>5 DEF FreshInv, DNSReturns, Report, Locked
  <2>3. StopInv'
    BY <1>5 DEF StopInv, Locked, DNSReturns, Report, Locked
  <2>4. ClosedInv'
    BY <1>5 DEF ClosedInv, Stopped, Past, DNSReturns, Report, Locked
  <2>5. DnsInv'
    BY <1>5 DEF DnsInv, DNSReturns, Report, Locked
  <2>6. StatusIsOfThisSet'
    BY <1>5 DEF StatusIsOfThisSet, DNSReturns, Report, Locked
  <2> QED
    BY <2>1, <2>2, <2>3, <2>4, <2>5, <2>6
<1> QED
  BY <1>1, <1>2, <1>3, <1>4, <1>5 DEF RunDNS

(* The two servers of a DNS server. *)
LEMMA SocketStep ==
  ASSUME IInv, NEW i \in Sets, NEW p \in Protocols, Activate(i, p) \/ DNSFails(i, p)
  PROVE  IInv'
<1> USE SupervisorAssumption DEF IInv, TypeOK, Kinds, Protocols, Sets, control,
   proxies, servers, status
<1>1. CASE Activate(i, p)
  <2>1. TypeOK'
    BY <1>1 DEF TypeOK, Activate
  <2>2. FreshInv'
    BY <1>1 DEF FreshInv, Activate
  <2>3. StopInv'
    BY <1>1 DEF StopInv, Locked, Activate
  <2>4. ClosedInv'
    BY <1>1 DEF ClosedInv, Stopped, Past, Activate
  <2>5. DnsInv'
    BY <1>1 DEF DnsInv, Activate
  <2>6. StatusIsOfThisSet'
    BY <1>1 DEF StatusIsOfThisSet, Activate
  <2> QED
    BY <2>1, <2>2, <2>3, <2>4, <2>5, <2>6
<1>2. CASE DNSFails(i, p)
  <2>1. TypeOK'
    <3>1. \E v \in {"bound", "active", "ended", "failed"} : sock' = [sock EXCEPT ![i][p] = v]
      BY <1>2 DEF DNSFails
    <3>2. sock' \in [Sets -> [Protocols -> {"none", "bound", "active", "ended", "failed"}]]
      <4>1. ASSUME NEW v \in {"bound", "active", "ended", "failed"}, sock' = [sock EXCEPT ![i][p] = v]
            PROVE  sock' \in [Sets -> [Protocols -> {"none", "bound", "active", "ended", "failed"}]]
        BY <4>1
      <4> QED
        BY <3>1, <4>1
    <3>3. fails' \in 0 .. MaxFails
      BY <1>2 DEF DNSFails
    <3> QED
      BY <1>2, <3>2, <3>3 DEF TypeOK, DNSFails
  <2>2. FreshInv'
    BY <1>2 DEF FreshInv, DNSFails
  <2>3. StopInv'
    BY <1>2 DEF StopInv, Locked, DNSFails
  <2>4. ClosedInv'
    BY <1>2 DEF ClosedInv, Stopped, Past, DNSFails
  <2>5. DnsInv'
    BY <1>2 DEF DnsInv, DNSFails
  <2>6. StatusIsOfThisSet'
    BY <1>2 DEF StatusIsOfThisSet, DNSFails
  <2> QED
    BY <2>1, <2>2, <2>3, <2>4, <2>5, <2>6
<1> QED
  BY <1>1, <1>2 DEF Activate

LEMMA NextIInv == IInv /\ [Next]_vars => IInv'
<1> SUFFICES ASSUME IInv, [Next]_vars PROVE IInv'
  OBVIOUS
<1>1. CASE UNCHANGED vars
  BY <1>1 DEF vars, IInv, TypeOK, FreshInv, StopInv, Locked, ClosedInv, Stopped,
     Past, DnsInv,
     StatusIsOfThisSet, control, proxies, servers, status
<1> QED
  BY <1>1, CallStep, ProxyStep, DNSStep, SocketStep DEF Next

(* Type correctness of the supervisor and its goroutines                   *)
(* (supervisor.go:20-55).                                                  *)
THEOREM TypeCorrect == Spec => []TypeOK
<1>1. IInv => TypeOK
  BY SupervisorAssumption DEF IInv
<1> QED
  BY <1>1, InitIInv, NextIInv, PTL DEF Spec

(* However many old sets have goroutines on their way, none of them        *)
(* disturbs the status of the present one (supervisor.go:120-127,180-193). *)
THEOREM StatusIsOfThisSetHolds == Spec => []StatusIsOfThisSet
<1>1. IInv => StatusIsOfThisSet
  BY SupervisorAssumption DEF IInv
<1> QED
  BY <1>1, InitIInv, NextIInv, PTL DEF Spec

(* Of all sets ever started only the present one accepts connections       *)
(* (supervisor.go:48-49,163-168).                                          *)
THEOREM OnlyThisSetAcceptsHolds == Spec => []OnlyThisSetAccepts
<1>1. IInv => OnlyThisSetAccepts
  BY SupervisorAssumption DEF IInv, TypeOK, ClosedInv, FreshInv, Stopped,
     OnlyThisSetAccepts, Sets
<1> QED
  BY <1>1, InitIInv, NextIInv, PTL DEF Spec

(* A DNS server that could not bind both sockets leaves none open, in any  *)
(* set (server.go:50-53).                                                  *)
THEOREM BindFailureLeavesNothingHolds == Spec => []BindFailureLeavesNothing
<1>1. IInv => BindFailureLeavesNothing
  BY SupervisorAssumption DEF IInv, DnsInv, BindFailureLeavesNothing, Open
<1> QED
  BY <1>1, InitIInv, NextIInv, PTL DEF Spec

(* Only a report of a server sets an error, and not once a Stop has begun. *)
LEMMA ReportStep ==
  ASSUME IInv, [Next]_vars, set' = set, set # 0,
         NEW k \in Kinds, err'[set][k], ~err[set][k]
  PROVE  ~stopping
<1> USE SupervisorAssumption DEF IInv, TypeOK, Kinds, Protocols, Sets, control,
   proxies, servers, status
<1>1. err' # err
  OBVIOUS
<1>2. ASSUME NEW m \in Modes, Start(m) PROVE FALSE
  BY <1>2 DEF Start
<1>3. ASSUME NEW i \in Sets, NEW j \in Kinds, Report(i, j) PROVE ~stopping
  <2>1. err' = [err EXCEPT ![i][j] = err[i][j] \/ (result[i][j] = "failed" /\ ~stopping)]
    BY <1>3 DEF Report
  <2>2. set \in Sets
    OBVIOUS
  <2>3. CASE i = set /\ j = k
    BY <2>1, <2>2, <2>3
  <2>4. CASE ~(i = set /\ j = k)
    BY <2>1, <2>2, <2>4
  <2> QED
    BY <2>3, <2>4
<1>4. \/ \E m \in Modes : Start(m)
      \/ \E i \in Sets, j \in Kinds : Report(i, j)
      \/ err' = err
  BY DEF Next, vars, SetConfig, Stop, RunStop, CloseProxy, ShutdownDNS,
     StopReturns, RunProxy,
     Adopt, ServeClosed, ListenerClosed, ServeReturns, AcceptFails, RunDNS,
     BindUDP, BindTCP,
     FirstExit, ShutOther, DNSReturns, Activate, DNSFails
<1> QED
  BY <1>1, <1>2, <1>3, <1>4

(* A server that was asked to stop is never shown as failed, whatever its  *)
(* goroutine reports and when (supervisor.go:45,97,123).                   *)
THEOREM StopIsNoFailureHolds == Spec => StopIsNoFailure
<1>1. ASSUME IInv, [Next]_vars, set' = set, set # 0,
             NEW k \in Kinds, err'[set][k], ~err[set][k]
      PROVE  running /\ (k \in Proxies => ~closed[set][k])
  <2>1. ~stopping
    BY <1>1, ReportStep
  <2> QED
    BY <1>1, <2>1 DEF IInv, StopInv, TypeOK, Sets
<1>2. IInv /\ [Next]_vars =>
        [\A k \in Kinds : set' = set /\ set # 0 /\ err'[set][k] /\ ~err[set][k] =>
           running /\ (k \in Proxies => ~closed[set][k])]_vars
  BY <1>1
<1> QED
  BY <1>2, InitIInv, NextIInv, PTL DEF Spec, StopIsNoFailure

-----------------------------------------------------------------------------
(* The configuration. *)

(* A number of milliseconds is the minutes, seconds and milliseconds that  *)
(* Duration.String writes of it.                                           *)
LEMMA DurationDigits ==
  ASSUME NEW n \in Nat
  PROVE  /\ n \div 60000 \in Nat /\ (n % 60000) \div 1000 \in Nat /\ n % 1000 \in Nat
         /\ (60000 * (n \div 60000)) + (1000 * ((n % 60000) \div 1000)) + (n % 1000) = n
<1> DEFINE q == n \div 60000
           r == n % 60000
<1>1. q \in Nat /\ r \in Nat /\ n = (60000 * q) + r
  OBVIOUS
<1>2. n % 1000 = r % 1000
  BY <1>1
<1> HIDE DEF q, r
<1>3. r \div 1000 \in Nat /\ r % 1000 \in Nat /\ r = (1000 * (r \div 1000)) + (r % 1000)
  BY <1>1
<1> QED
  BY <1>1, <1>2, <1>3 DEF q, r

(* What Duration.String writes parses, and as the same duration.           *)
LEMMA ParseOfString ==
  ASSUME NEW d \in Int
  PROVE  /\ DurationString(d) \in DurationText
         /\ ParseDuration(DurationString(d)) = d
<1> DEFINE n == IF d < 0 THEN -d ELSE d
           s == IF d < 0 THEN -1 ELSE 1
<1>1. n \in Nat /\ s \in {-1, 1} /\ s * n = d
  OBVIOUS
<1>2. DurationString(d) = [sign |-> s, min |-> n \div 60000,
                           sec |-> (n % 60000) \div 1000, ms |-> n % 1000]
  BY DEF DurationString
<1> HIDE DEF n, s
<1>3. DurationString(d) \in DurationText
  BY <1>1, <1>2, DurationDigits DEF DurationText
<1>4. (60000 * (n \div 60000)) + (1000 * ((n % 60000) \div 1000)) + (n % 1000) = n
  BY <1>1, DurationDigits
<1>5. ParseDuration(DurationString(d))
        = s * ((60000 * (n \div 60000)) + (1000 * ((n % 60000) \div 1000)) + (n % 1000))
  BY <1>2 DEF ParseDuration
<1> QED
  BY <1>1, <1>3, <1>4, <1>5

(* Any text of a duration is a whole number of milliseconds.               *)
LEMMA ParseIsInt ==
  ASSUME NEW t \in DurationText
  PROVE  ParseDuration(t) \in Int
<1>1. t.sign \in Int /\ t.min \in Int /\ t.sec \in Int /\ t.ms \in Int
  BY DEF DurationText
<1>2. ASSUME NEW a \in Int, NEW b \in Int, NEW c \in Int, NEW s \in {-1, 1}
      PROVE  s * (60000 * a + 1000 * b + c) \in Int
  BY <1>2
<1>3. t.sign \in {-1, 1}
  BY DEF DurationText
<1> QED
  BY <1>1, <1>2, <1>3 DEF ParseDuration

(* A configuration that the program may hold.                              *)
Held(c) == c = Default \/ \E u \in Settings : Accepts(u) /\ c = ToConfig(u)

LEMMA HeldDomain ==
  ASSUME NEW c, Held(c)
  PROVE  /\ c = [f \in Fields |-> c[f]]
         /\ \A f \in Fields : c[f] = Empty /\ f # "dohBootstrap" =>
               c[f] = Default[f] \/ f \in Durations
<1>1. CASE c = Default
  BY <1>1 DEF Default, Fields
<1>2. ASSUME NEW u \in Settings, c = ToConfig(u)
      PROVE  /\ c = [f \in Fields |-> c[f]]
             /\ \A f \in Fields : c[f] = Empty /\ f # "dohBootstrap" =>
                   c[f] = Default[f] \/ f \in Durations
  <2> DEFINE val(f) == IF u[f] = Empty /\ f # "dohBootstrap" THEN Default[f]
                       ELSE IF f \in Durations /\ u[f] # Malformed
                       THEN ParseDuration(u[f]) ELSE u[f]
  <2>1. c = [f \in Fields |-> val(f)]
    BY <1>2 DEF ToConfig
  <2>2. \A f \in Fields : val(f) = Empty /\ f # "dohBootstrap" => val(f) = Default[f] \/ f \in Durations
    OBVIOUS
  <2> HIDE DEF val
  <2>3. \A f \in Fields : c[f] = val(f)
    BY <2>1
  <2> QED
    BY <2>1, <2>2, <2>3
<1> QED
  BY <1>1, <1>2 DEF Held

(* Its durations are numbers of milliseconds.                              *)
LEMMA HeldDurations ==
  ASSUME NEW c, Held(c), NEW f \in Durations
  PROVE  f \in Fields /\ c[f] \in Int
<1>1. f \in Fields
  BY DEF Durations, Fields, Default
<1>2. CASE c = Default
  <2>1. f = "fragDelay" \/ f = "timeout"
    BY DEF Durations
  <2>2. Default["fragDelay"] \in Int
    BY DEF Default
  <2>3. Default["timeout"] \in Int
    BY DEF Default
  <2> QED
    BY <1>1, <1>2, <2>1, <2>2, <2>3
<1>3. ASSUME NEW u \in Settings, Accepts(u), c = ToConfig(u)
      PROVE  c[f] \in Int
  <2>1. c[f] # Malformed
    BY <1>3 DEF Accepts
  <2>2. c[f] = IF u[f] = Empty /\ f # "dohBootstrap" THEN Default[f]
               ELSE IF f \in Durations /\ u[f] # Malformed THEN ParseDuration(u[f])
               ELSE u[f]
    BY <1>1, <1>3 DEF ToConfig
  <2>3. u[f] \in {Empty, Malformed} \cup DurationText
    BY SettingsAssumption DEF DurationField
  <2>4. f # "dohBootstrap" /\ Default[f] \in Int
    BY DEF Durations, Default
  <2> QED
    BY <2>1, <2>2, <2>3, <2>4, ParseIsInt
<1> QED
  BY <1>1, <1>2, <1>3 DEF Held

(* Shown and sent back, it is what it was.                                 *)
LEMMA RoundTrip ==
  ASSUME NEW c, Held(c)
  PROVE  ToConfig(FromConfig(c)) = c
<1> DEFINE u == FromConfig(c)
<1>1. u = [f \in Fields |-> IF f \in Durations THEN DurationString(c[f]) ELSE c[f]]
  BY DEF FromConfig
<1>2. ToConfig(u) = [f \in Fields |->
        IF u[f] = Empty /\ f # "dohBootstrap" THEN Default[f]
        ELSE IF f \in Durations /\ u[f] # Malformed THEN ParseDuration(u[f])
        ELSE u[f]]
  BY DEF ToConfig
<1>3. ASSUME NEW f \in Fields PROVE ToConfig(u)[f] = c[f]
  <2>1. CASE f \in Durations
    <3>1. c[f] \in Int
      BY <2>1, HeldDurations
    <3>2. u[f] \in DurationText /\ ParseDuration(u[f]) = c[f]
      BY <1>1, <2>1, <3>1, ParseOfString
    <3>3. u[f] # Empty /\ u[f] # Malformed
      BY <3>2, UiConfigAssumption
    <3> QED
      BY <1>2, <2>1, <3>2, <3>3
  <2>2. CASE f \notin Durations
    <3>1. u[f] = c[f]
      BY <1>1, <2>2
    <3>2. c[f] = Empty /\ f # "dohBootstrap" => c[f] = Default[f]
      BY <2>2, HeldDomain
    <3> QED
      BY <1>2, <2>2, <3>1, <3>2
  <2> QED
    BY <2>1, <2>2
<1> HIDE DEF u
<1>4. c = [f \in Fields |-> c[f]]
  BY HeldDomain
<1>5. ToConfig(u) = [f \in Fields |-> ToConfig(u)[f]]
  BY <1>2
<1>6. [f \in Fields |-> ToConfig(u)[f]] = [f \in Fields |-> c[f]]
  BY <1>3
<1>7. ToConfig(u) = c
  BY <1>4, <1>5, <1>6
<1> QED
  BY <1>7 DEF u

(* What Accepts checks holds of it, whether it was accepted or is Default. *)
LEMMA HeldIsAcceptable ==
  ASSUME NEW c, Held(c)
  PROVE  /\ c.frag \in Strategies
         /\ \A f \in Durations \cup Addresses : c[f] # Malformed
         /\ 0 <= c.fragDelay /\ c.fragDelay <= MaxFragDelay
         /\ c.dohBootstrap # Empty => c.dohBootstrap.host = "ip"
         /\ NewClient(c)
<1>1. CASE c = Default
  <2>1. \A f \in Durations \cup Addresses : f \in Fields
    BY DEF Durations, Addresses, Fields, Default
  <2>2. \A f \in Durations \cup Addresses : Default[f] # Malformed
    BY <2>1, UiConfigAssumption
  <2>3. Default.dohUrl # Malformed /\ Default.dohUrl.scheme = "https"
    <3>1. "dohUrl" \in Fields
      BY DEF Fields, Default
    <3>2. Default["dohUrl"] # Malformed
      BY <3>1, UiConfigAssumption
    <3> QED
      BY <3>2 DEF Default
  <2>4. /\ Default.frag = "split" /\ Default.fragDelay = 0
        /\ Default.dohBootstrap = Empty
    BY DEF Default
  <2> QED
    BY <1>1, <2>2, <2>3, <2>4 DEF Strategies, MaxFragDelay, NewClient
<1>2. ASSUME NEW u \in Settings, Accepts(u), c = ToConfig(u)
      PROVE  /\ c.frag \in Strategies
             /\ \A f \in Durations \cup Addresses : c[f] # Malformed
             /\ 0 <= c.fragDelay /\ c.fragDelay <= MaxFragDelay
             /\ c.dohBootstrap # Empty => c.dohBootstrap.host = "ip"
             /\ NewClient(c)
  BY <1>2 DEF Accepts
<1> QED
  BY <1>1, <1>2 DEF Held

-----------------------------------------------------------------------------
LEMMA InitConfigInv == Init => ConfigInv
BY DEF Init, ConfigInv

LEMMA NextConfigInv ==
  ASSUME ConfigInv, [Next]_vars
  PROVE  ConfigInv'
<1> USE DEF ConfigInv, control
<1>1. ASSUME NEW m \in Modes, Start(m) PROVE ConfigInv'
  BY <1>1 DEF Start
<1>2. ASSUME NEW u \in Settings, SetConfig(u) PROVE ConfigInv'
  BY <1>2 DEF SetConfig, Store
<1>3. CASE Stop \/ RunStop
  BY <1>3 DEF Stop, RunStop, CloseProxy, ShutdownDNS, StopReturns
<1>4. ASSUME NEW i \in Sets, NEW k \in Proxies, RunProxy(i, k) \/ AcceptFails(i, k)
      PROVE  ConfigInv'
  BY <1>4 DEF RunProxy, Adopt, ServeClosed, ListenerClosed, ServeReturns, AcceptFails
<1>5. ASSUME NEW i \in Sets, RunDNS(i) PROVE ConfigInv'
  BY <1>5 DEF RunDNS, BindUDP, BindTCP, FirstExit, ShutOther, DNSReturns
<1>6. ASSUME NEW i \in Sets, NEW p \in Protocols, Activate(i, p) \/ DNSFails(i, p)
      PROVE  ConfigInv'
  BY <1>6 DEF Activate, DNSFails
<1>7. CASE UNCHANGED vars
  BY <1>7 DEF vars
<1> QED
  BY <1>1, <1>2, <1>3, <1>4, <1>5, <1>6, <1>7 DEF Next

(* Whatever was saved and however often it was started and stopped, the    *)
(* running servers have the configuration that is shown, which can be sent *)
(* back unchanged (supervisor.go:202-203, uiconfig.go:39-53).              *)
THEOREM ShownIsLiveHolds == Spec => []ShownIsLive
<1>1. ConfigInv => ShownIsLive
  <2> SUFFICES ASSUME ConfigInv, running PROVE ShownIsLive
    BY DEF ShownIsLive
  <2>1. Held(cfg) /\ cfg = live
    BY DEF ConfigInv, Held
  <2>2. ToConfig(FromConfig(cfg)) = cfg
    BY <2>1, RoundTrip
  <2>3. Accepts(FromConfig(cfg))
    BY <2>1, <2>2, HeldIsAcceptable DEF Accepts
  <2> QED
    BY <2>1, <2>2, <2>3 DEF ShownIsLive
<1> QED
  BY <1>1, InitConfigInv, NextConfigInv, PTL DEF Spec
=============================================================================
