------------------------------ MODULE CliProofs ------------------------------
(***************************************************************************)
(* What Cli promises for any number of queries and of failures: it is well *)
(* typed, and a signal does not cut short the queries over UDP.            *)
(***************************************************************************)
EXTENDS Cli, TLAPS

LEMMA InitIInv == Init => IInv
<1> SUFFICES ASSUME Init PROVE IInv
  OBVIOUS
<1> USE CliAssumption, DnsAssumption DEF Init, DnsInit, Protocols, Proxies
<1>1. TypeOK
  BY DEF TypeOK, DnsTypeOK, CliTypeOK
<1>2. BindInv /\ FlightInv /\ SigInv /\ FirstInv
  BY DEF BindInv, FlightInv, InFlight, SigInv, FirstInv, Unstopped, NothingFailed
<1> QED
  BY <1>1, <1>2 DEF IInv

(* main. *)
LEMMA MainStep ==
  ASSUME IInv, Refuse \/ Launch \/ MainReturns
  PROVE  IInv'
<1> USE CliAssumption, DnsAssumption DEF IInv, TypeOK, DnsTypeOK, CliTypeOK,
   Protocols, Proxies,
   dnsVars, handlers, process, proxies
<1>1. CASE Refuse
  <2>1. TypeOK'
    BY <1>1 DEF TypeOK, DnsTypeOK, CliTypeOK, Exchange, Failed, Refuse, Exit
  <2>2. BindInv'
    BY <1>1 DEF BindInv, Refuse, Exit
  <2>3. FlightInv'
    BY <1>1 DEF BindInv, FlightInv, InFlight, Refuse, Exit
  <2>4. SigInv'
    BY <1>1 DEF SigInv, Refuse, Exit
  <2>5. FirstInv'
    BY <1>1 DEF BindInv, SigInv, FirstInv, Unstopped, NothingFailed, Running,
       Ended, Refuse, Exit
  <2> QED
    BY <2>1, <2>2, <2>3, <2>4, <2>5
<1>2. CASE Launch
  <2>1. TypeOK'
    BY <1>2 DEF TypeOK, DnsTypeOK, CliTypeOK, Exchange, Failed, Launch
  <2>2. BindInv'
    BY <1>2 DEF BindInv, Launch
  <2>3. FlightInv'
    BY <1>2 DEF BindInv, FlightInv, InFlight, Launch
  <2>4. SigInv'
    BY <1>2 DEF SigInv, Launch
  <2>5. FirstInv'
    BY <1>2 DEF BindInv, SigInv, FirstInv, Unstopped, NothingFailed, Running,
       Ended, Launch
  <2> QED
    BY <2>1, <2>2, <2>3, <2>4, <2>5
<1>3. CASE MainReturns
  <2>1. TypeOK'
    BY <1>3 DEF TypeOK, DnsTypeOK, CliTypeOK, Exchange, Failed, MainReturns, Exit
  <2>2. BindInv'
    BY <1>3 DEF BindInv, MainReturns, Exit
  <2>3. FlightInv'
    BY <1>3 DEF BindInv, FlightInv, InFlight, MainReturns, Exit
  <2>4. SigInv'
    BY <1>3 DEF SigInv, MainReturns, Exit
  <2>5. FirstInv'
    BY <1>3 DEF BindInv, SigInv, FirstInv, Unstopped, NothingFailed, Running,
       Ended, MainReturns, Exit
  <2> QED
    BY <2>1, <2>2, <2>3, <2>4, <2>5
<1> QED
  BY <1>1, <1>2, <1>3

(* The goroutine of a proxy. *)
LEMMA ProxyStep ==
  ASSUME IInv, NEW k \in Proxies, Listen(k) \/ Accept(k) \/ TunnelEnds(k) \/ AcceptFails(k)
  PROVE  IInv'
<1> USE CliAssumption, DnsAssumption DEF IInv, TypeOK, DnsTypeOK, CliTypeOK,
   Protocols, Proxies,
   dnsVars, handlers, process, proxies
<1>1. CASE Listen(k)
  <2>1. TypeOK'
    BY <1>1 DEF TypeOK, DnsTypeOK, CliTypeOK, Exchange, Failed, Listen, Fails
  <2>2. BindInv'
    BY <1>1 DEF BindInv, Listen, Fails
  <2>3. FlightInv'
    BY <1>1 DEF BindInv, FlightInv, InFlight, Listen, Fails
  <2>4. SigInv'
    BY <1>1 DEF SigInv, Listen, Fails
  <2>5. FirstInv'
    BY <1>1 DEF BindInv, SigInv, FirstInv, Unstopped, NothingFailed, Running,
       Ended, Listen, Fails
  <2> QED
    BY <2>1, <2>2, <2>3, <2>4, <2>5
<1>2. CASE Accept(k)
  <2>1. TypeOK'
    BY <1>2 DEF TypeOK, DnsTypeOK, CliTypeOK, Exchange, Failed, Accept
  <2>2. BindInv'
    BY <1>2 DEF BindInv, Accept
  <2>3. FlightInv'
    BY <1>2 DEF BindInv, FlightInv, InFlight, Accept
  <2>4. SigInv'
    BY <1>2 DEF SigInv, Accept
  <2>5. FirstInv'
    BY <1>2 DEF BindInv, SigInv, FirstInv, Unstopped, NothingFailed, Running,
       Ended, Accept
  <2> QED
    BY <2>1, <2>2, <2>3, <2>4, <2>5
<1>3. CASE TunnelEnds(k)
  <2>1. TypeOK'
    BY <1>3 DEF TypeOK, DnsTypeOK, CliTypeOK, Exchange, Failed, TunnelEnds
  <2>2. BindInv'
    BY <1>3 DEF BindInv, TunnelEnds
  <2>3. FlightInv'
    BY <1>3 DEF BindInv, FlightInv, InFlight, TunnelEnds
  <2>4. SigInv'
    BY <1>3 DEF SigInv, TunnelEnds
  <2>5. FirstInv'
    BY <1>3 DEF BindInv, SigInv, FirstInv, Unstopped, NothingFailed, Running,
       Ended, TunnelEnds
  <2> QED
    BY <2>1, <2>2, <2>3, <2>4, <2>5
<1>4. CASE AcceptFails(k)
  <2>1. TypeOK'
    BY <1>4 DEF TypeOK, DnsTypeOK, CliTypeOK, Exchange, Failed, AcceptFails, Fails
  <2>2. BindInv'
    BY <1>4 DEF BindInv, AcceptFails, Fails
  <2>3. FlightInv'
    BY <1>4 DEF BindInv, FlightInv, InFlight, AcceptFails, Fails
  <2>4. SigInv'
    BY <1>4 DEF SigInv, AcceptFails, Fails
  <2>5. FirstInv'
    BY <1>4 DEF BindInv, SigInv, FirstInv, Unstopped, NothingFailed, Running,
       Ended, AcceptFails, Fails
  <2> QED
    BY <2>1, <2>2, <2>3, <2>4, <2>5
<1> QED
  BY <1>1, <1>2, <1>3, <1>4

(* The signal and what it stops. *)
LEMMA SignalStep ==
  ASSUME IInv, Running, Notify \/ Signal \/ OnSignal
  PROVE  IInv'
<1> USE CliAssumption, DnsAssumption DEF IInv, TypeOK, DnsTypeOK, CliTypeOK,
   Protocols, Proxies,
   dnsVars, handlers, process, proxies
<1>1. CASE Notify
  <2>1. TypeOK'
    BY <1>1 DEF TypeOK, DnsTypeOK, CliTypeOK, Exchange, Failed, Notify
  <2>2. BindInv'
    BY <1>1 DEF BindInv, Notify
  <2>3. FlightInv'
    BY <1>1 DEF BindInv, FlightInv, InFlight, Notify
  <2>4. SigInv'
    BY <1>1 DEF SigInv, Notify
  <2>5. FirstInv'
    BY <1>1 DEF BindInv, SigInv, FirstInv, Unstopped, NothingFailed, Running,
       Ended, Notify
  <2> QED
    BY <2>1, <2>2, <2>3, <2>4, <2>5
<1>2. CASE Signal
  <2>1. TypeOK'
    BY <1>2 DEF TypeOK, DnsTypeOK, CliTypeOK, Exchange, Failed, Signal, Exit, After
  <2>2. BindInv'
    BY <1>2 DEF BindInv, Signal, Exit, After
  <2>3. FlightInv'
    BY <1>2 DEF BindInv, FlightInv, InFlight, Signal, Exit, After
  <2>4. SigInv'
    BY <1>2 DEF SigInv, Signal, Exit, After
  <2>5. FirstInv'
    BY <1>2 DEF BindInv, SigInv, FirstInv, Unstopped, NothingFailed, Running,
       Ended, Signal, Exit, After
  <2> QED
    BY <2>1, <2>2, <2>3, <2>4, <2>5
<1>3. ASSUME NEW p \in Protocols, Shutdown(p) PROVE IInv'
  <2>1. TypeOK'
    BY <1>3 DEF TypeOK, DnsTypeOK, CliTypeOK, Exchange, Failed, Shutdown, Stops,
       Waits, After
  <2>2. BindInv'
    BY <1>3 DEF BindInv, Shutdown, Stops, Waits, After
  <2>3. FlightInv'
    BY <1>3 DEF BindInv, FlightInv, InFlight, Shutdown, Stops, Waits, After
  <2>4. SigInv'
    BY <1>3 DEF SigInv, Shutdown, Stops, Waits, After
  <2>5. FirstInv'
    BY <1>3 DEF BindInv, SigInv, FirstInv, Unstopped, NothingFailed, Running,
       Ended, Shutdown, Stops, Waits, After
  <2> QED
    BY <2>1, <2>2, <2>3, <2>4, <2>5
<1>4. ASSUME NEW p \in Protocols, ShutdownWait(p) PROVE IInv'
  <2>1. TypeOK'
    BY <1>4 DEF TypeOK, DnsTypeOK, CliTypeOK, Exchange, Failed, ShutdownWait,
       Returned, After
  <2>2. BindInv'
    BY <1>4 DEF BindInv, ShutdownWait, Returned, After
  <2>3. FlightInv'
    BY <1>4 DEF BindInv, FlightInv, InFlight, ShutdownWait, Returned, After
  <2>4. SigInv'
    BY <1>4 DEF SigInv, ShutdownWait, Returned, After
  <2>5. FirstInv'
    BY <1>4 DEF BindInv, SigInv, FirstInv, Unstopped, NothingFailed, Running,
       Ended, ShutdownWait, Returned, After
  <2> QED
    BY <2>1, <2>2, <2>3, <2>4, <2>5
<1>5. ASSUME NEW k \in Proxies, CloseListener(k) PROVE IInv'
  <2>1. TypeOK'
    BY <1>5 DEF TypeOK, DnsTypeOK, CliTypeOK, Exchange, Failed, CloseListener
  <2>2. BindInv'
    BY <1>5 DEF BindInv, CloseListener
  <2>3. FlightInv'
    BY <1>5 DEF BindInv, FlightInv, InFlight, CloseListener
  <2>4. SigInv'
    BY <1>5 DEF SigInv, CloseListener
  <2>5. FirstInv'
    BY <1>5 DEF BindInv, SigInv, FirstInv, Unstopped, NothingFailed, Running,
       Ended, CloseListener
  <2> QED
    BY <2>1, <2>2, <2>3, <2>4, <2>5
<1>6. ASSUME NEW k \in Proxies, CloseAll(k) PROVE IInv'
  <2>1. TypeOK'
    BY <1>6 DEF TypeOK, DnsTypeOK, CliTypeOK, Exchange, Failed, CloseAll
  <2>2. BindInv'
    BY <1>6 DEF BindInv, CloseAll
  <2>3. FlightInv'
    BY <1>6 DEF BindInv, FlightInv, InFlight, CloseAll
  <2>4. SigInv'
    BY <1>6 DEF SigInv, CloseAll
  <2>5. FirstInv'
    BY <1>6 DEF BindInv, SigInv, FirstInv, Unstopped, NothingFailed, Running,
       Ended, CloseAll
  <2> QED
    BY <2>1, <2>2, <2>3, <2>4, <2>5
<1>7. ASSUME NEW k \in Proxies, Drain(k) PROVE IInv'
  <2>1. TypeOK'
    BY <1>7 DEF TypeOK, DnsTypeOK, CliTypeOK, Exchange, Failed, Drain, After
  <2>2. BindInv'
    BY <1>7 DEF BindInv, Drain, After
  <2>3. FlightInv'
    BY <1>7 DEF BindInv, FlightInv, InFlight, Drain, After
  <2>4. SigInv'
    BY <1>7 DEF SigInv, Drain, After
  <2>5. FirstInv'
    BY <1>7 DEF BindInv, SigInv, FirstInv, Unstopped, NothingFailed, Running,
       Ended, Drain, After
  <2> QED
    BY <2>1, <2>2, <2>3, <2>4, <2>5
<1>8. CASE StopReturns
  <2>1. TypeOK'
    BY <1>8 DEF TypeOK, DnsTypeOK, CliTypeOK, Exchange, Failed, StopReturns, Exit
  <2>2. BindInv'
    BY <1>8 DEF BindInv, StopReturns, Exit
  <2>3. FlightInv'
    BY <1>8 DEF BindInv, FlightInv, InFlight, StopReturns, Exit
  <2>4. SigInv'
    BY <1>8 DEF SigInv, StopReturns, Exit
  <2>5. FirstInv'
    BY <1>8 DEF BindInv, SigInv, FirstInv, Unstopped, NothingFailed, Running,
       Ended, StopReturns, Exit
  <2> QED
    BY <2>1, <2>2, <2>3, <2>4, <2>5
<1> QED
  BY <1>1, <1>2, <1>3, <1>4, <1>5, <1>6, <1>7, <1>8 DEF OnSignal

(* ListenAndServe of the DNS server. *)
LEMMA ListenStep ==
  ASSUME IInv, Dns(ListenAndServe)
  PROVE  IInv'
<1> USE CliAssumption, DnsAssumption DEF IInv, TypeOK, DnsTypeOK, CliTypeOK,
   Protocols, Proxies,
   dnsVars, handlers, process, proxies
<1>0. UNCHANGED <<process, proxies>>
  BY DEF Dns
<1>1. CASE BindUDP
  <2>1. TypeOK'
    BY <1>0, <1>1 DEF TypeOK, DnsTypeOK, CliTypeOK, Exchange, Failed, BindUDP, Fails
  <2>2. BindInv'
    BY <1>0, <1>1 DEF BindInv, BindUDP, Fails
  <2>3. FlightInv'
    BY <1>0, <1>1 DEF BindInv, FlightInv, InFlight, BindUDP, Fails
  <2>4. SigInv'
    BY <1>0, <1>1 DEF SigInv, BindUDP, Fails
  <2>5. FirstInv'
    BY <1>0, <1>1 DEF BindInv, SigInv, FirstInv, Unstopped, NothingFailed, Running,
       Ended, BindUDP, Fails
  <2> QED
    BY <2>1, <2>2, <2>3, <2>4, <2>5
<1>2. CASE BindTCP
  <2>1. TypeOK'
    BY <1>0, <1>2 DEF TypeOK, DnsTypeOK, CliTypeOK, Exchange, Failed, BindTCP, Fails
  <2>2. BindInv'
    BY <1>0, <1>2 DEF BindInv, BindTCP, Fails
  <2>3. FlightInv'
    BY <1>0, <1>2 DEF BindInv, FlightInv, InFlight, BindTCP, Fails
  <2>4. SigInv'
    BY <1>0, <1>2 DEF SigInv, BindTCP, Fails
  <2>5. FirstInv'
    BY <1>0, <1>2 DEF BindInv, SigInv, FirstInv, Unstopped, NothingFailed, Running,
       Ended, BindTCP, Fails
  <2> QED
    BY <2>1, <2>2, <2>3, <2>4, <2>5
<1>3. CASE FirstExit
  <2>1. TypeOK'
    BY <1>0, <1>3 DEF TypeOK, DnsTypeOK, CliTypeOK, Exchange, Failed, FirstExit,
       Returned
  <2>2. BindInv'
    BY <1>0, <1>3 DEF BindInv, FirstExit, Returned
  <2>3. FlightInv'
    BY <1>0, <1>3 DEF BindInv, FlightInv, InFlight, FirstExit, Returned
  <2>4. SigInv'
    BY <1>0, <1>3 DEF SigInv, FirstExit, Returned
  <2>5. FirstInv'
    BY <1>0, <1>3 DEF BindInv, SigInv, FirstInv, Unstopped, NothingFailed, Running,
       Ended, FirstExit, Returned
  <2> QED
    BY <2>1, <2>2, <2>3, <2>4, <2>5
<1>4. ASSUME NEW p \in Protocols, OwnShutdown(p) PROVE IInv'
  <2>1. TypeOK'
    BY <1>0, <1>4 DEF TypeOK, DnsTypeOK, CliTypeOK, Exchange, Failed, OwnShutdown,
       Stops, Waits
  <2>2. BindInv'
    BY <1>0, <1>4 DEF BindInv, OwnShutdown, Stops, Waits
  <2>3. FlightInv'
    BY <1>0, <1>4 DEF BindInv, FlightInv, InFlight, OwnShutdown, Stops, Waits
  <2>4. SigInv'
    BY <1>0, <1>4 DEF SigInv, OwnShutdown, Stops, Waits
  <2>5. FirstInv'
    BY <1>0, <1>4 DEF BindInv, SigInv, FirstInv, Unstopped, NothingFailed, Running,
       Ended, OwnShutdown, Stops, Waits
  <2> QED
    BY <2>1, <2>2, <2>3, <2>4, <2>5
<1>5. CASE OwnWait
  <2>1. TypeOK'
    BY <1>0, <1>5 DEF TypeOK, DnsTypeOK, CliTypeOK, Exchange, Failed, OwnWait,
       Returned
  <2>2. BindInv'
    BY <1>0, <1>5 DEF BindInv, OwnWait, Returned
  <2>3. FlightInv'
    BY <1>0, <1>5 DEF BindInv, FlightInv, InFlight, OwnWait, Returned
  <2>4. SigInv'
    BY <1>0, <1>5 DEF SigInv, OwnWait, Returned
  <2>5. FirstInv'
    BY <1>0, <1>5 DEF BindInv, SigInv, FirstInv, Unstopped, NothingFailed, Running,
       Ended, OwnWait, Returned
  <2> QED
    BY <2>1, <2>2, <2>3, <2>4, <2>5
<1> QED
  BY <1>1, <1>2, <1>3, <1>4, <1>5 DEF ListenAndServe, Dns

(* Its two servers. *)
LEMMA ServerStep ==
  ASSUME IInv, NEW p \in Protocols, Dns(Activate(p)) \/ Dns(ReadFails(p)) \/ Dns(ServerReturns(p))
  PROVE  IInv'
<1> USE CliAssumption, DnsAssumption DEF IInv, TypeOK, DnsTypeOK, CliTypeOK,
   Protocols, Proxies,
   dnsVars, handlers, process, proxies
<1>0. UNCHANGED <<process, proxies>>
  BY DEF Dns
<1>1. CASE Activate(p)
  <2>1. TypeOK'
    BY <1>0, <1>1 DEF TypeOK, DnsTypeOK, CliTypeOK, Exchange, Failed, Activate
  <2>2. BindInv'
    BY <1>0, <1>1 DEF BindInv, Activate
  <2>3. FlightInv'
    BY <1>0, <1>1 DEF BindInv, FlightInv, InFlight, Activate
  <2>4. SigInv'
    BY <1>0, <1>1 DEF SigInv, Activate
  <2>5. FirstInv'
    BY <1>0, <1>1 DEF BindInv, SigInv, FirstInv, Unstopped, NothingFailed, Running,
       Ended, Activate
  <2> QED
    BY <2>1, <2>2, <2>3, <2>4, <2>5
<1>2. CASE ReadFails(p)
  <2>1. TypeOK'
    BY <1>0, <1>2 DEF TypeOK, DnsTypeOK, CliTypeOK, Exchange, Failed, ReadFails,
       Fails
  <2>2. BindInv'
    BY <1>0, <1>2 DEF BindInv, ReadFails, Fails
  <2>3. FlightInv'
    BY <1>0, <1>2 DEF BindInv, FlightInv, InFlight, ReadFails, Fails
  <2>4. SigInv'
    BY <1>0, <1>2 DEF SigInv, ReadFails, Fails
  <2>5. FirstInv'
    BY <1>0, <1>2 DEF BindInv, SigInv, FirstInv, Unstopped, NothingFailed, Running,
       Ended, ReadFails, Fails
  <2> QED
    BY <2>1, <2>2, <2>3, <2>4, <2>5
<1>3. CASE ServerReturns(p)
  <2>1. TypeOK'
    BY <1>0, <1>3 DEF TypeOK, DnsTypeOK, CliTypeOK, Exchange, Failed, ServerReturns
  <2>2. BindInv'
    BY <1>0, <1>3 DEF BindInv, ServerReturns
  <2>3. FlightInv'
    BY <1>0, <1>3 DEF BindInv, FlightInv, InFlight, ServerReturns
  <2>4. SigInv'
    BY <1>0, <1>3 DEF SigInv, ServerReturns
  <2>5. FirstInv'
    BY <1>0, <1>3 DEF BindInv, SigInv, FirstInv, Unstopped, NothingFailed, Running,
       Ended, ServerReturns
  <2> QED
    BY <2>1, <2>2, <2>3, <2>4, <2>5
<1> QED
  BY <1>1, <1>2, <1>3 DEF Dns

(* Its queries. *)
LEMMA QueryStep ==
  ASSUME IInv, NEW q \in Queries, Dns(Receive(q)) \/ Dns(Handle(q))
  PROVE  IInv'
<1> USE CliAssumption, DnsAssumption DEF IInv, TypeOK, DnsTypeOK, CliTypeOK,
   Protocols, Proxies,
   dnsVars, handlers, process, proxies
<1>0. UNCHANGED <<process, proxies>>
  BY DEF Dns
<1>1. CASE Receive(q)
  <2>1. TypeOK'
    BY <1>0, <1>1 DEF TypeOK, DnsTypeOK, CliTypeOK, Exchange, Failed, Receive
  <2>2. BindInv'
    BY <1>0, <1>1 DEF BindInv, Receive
  <2>3. FlightInv'
    BY <1>0, <1>1 DEF BindInv, FlightInv, InFlight, Receive
  <2>4. SigInv'
    BY <1>0, <1>1 DEF SigInv, Receive
  <2>5. FirstInv'
    BY <1>0, <1>1 DEF BindInv, SigInv, FirstInv, Unstopped, NothingFailed, Running,
       Ended, Receive
  <2> QED
    BY <2>1, <2>2, <2>3, <2>4, <2>5
<1>2. CASE Handle(q)
  <2>1. TypeOK'
    BY <1>0, <1>2 DEF TypeOK, DnsTypeOK, CliTypeOK, Exchange, Failed, Handle,
       Exchange, Message
  <2>2. BindInv'
    BY <1>0, <1>2 DEF BindInv, Handle, Exchange, Message
  <2>3. FlightInv'
    BY <1>0, <1>2 DEF BindInv, FlightInv, InFlight, Handle, Exchange, Message
  <2>4. SigInv'
    BY <1>0, <1>2 DEF SigInv, Handle, Exchange, Message
  <2>5. FirstInv'
    BY <1>0, <1>2 DEF BindInv, SigInv, FirstInv, Unstopped, NothingFailed, Running,
       Ended, Handle, Exchange, Message
  <2> QED
    BY <2>1, <2>2, <2>3, <2>4, <2>5
<1> QED
  BY <1>1, <1>2 DEF Dns

LEMMA NextIInv == IInv /\ [Next]_vars => IInv'
<1> SUFFICES ASSUME IInv, [Next]_vars PROVE IInv'
  OBVIOUS
<1>1. CASE UNCHANGED vars
  BY <1>1 DEF vars, dnsVars, handlers, process, proxies, IInv, TypeOK, DnsTypeOK,
     CliTypeOK,
     BindInv, FlightInv, InFlight, SigInv, FirstInv, Unstopped, NothingFailed,
     Running
<1> QED
  BY <1>1, MainStep, ProxyStep, SignalStep, ListenStep, ServerStep,
     QueryStep DEF Next

(* Type correctness of the process and its servers (main.go:147-225).      *)
THEOREM TypeCorrect == Spec => []TypeOK
<1>1. IInv => TypeOK
  BY DEF IInv
<1> QED
  BY <1>1, InitIInv, NextIInv, PTL DEF Spec

(* Once the DNS server over UDP is told to stop while it has q in flight,  *)
(* the process waits for q, or q is answered, or some server has failed.   *)
Drains(q) ==
    \/ fails # MaxFails
    \/ st[q] = "answered"
    \/ stop = "udp" /\ st[q] = "exchange" /\ main = "serving"

LEMMA DrainStep ==
  ASSUME IInv, NEW q \in Queries, Proto[q] = "udp", Drains(q), [Next]_vars
  PROVE  Drains(q)'
<1> USE CliAssumption, DnsAssumption DEF IInv, TypeOK, DnsTypeOK, CliTypeOK,
   Protocols, Proxies,
   dnsVars, handlers, process, proxies
<1>1. CASE fails # MaxFails
  <2>1. fails' = fails \/ fails' = fails - 1
    BY DEF Next, vars, Refuse, Launch, MainReturns, Notify, Signal, OnSignal,
       Listen, Accept,
       TunnelEnds, AcceptFails, Shutdown, ShutdownWait, CloseListener, CloseAll,
       Drain,
       StopReturns, Dns, ListenAndServe, BindUDP, BindTCP, FirstExit, OwnShutdown,
       OwnWait,
       Activate, ReadFails, ServerReturns, Receive, Handle, Fails
  <2> QED
    BY <1>1, <2>1 DEF Drains
<1>2. CASE st[q] = "answered"
  <2>1. st'[q] = "answered"
    BY <1>2 DEF Next, vars, Refuse, Launch, MainReturns, Notify, Signal, OnSignal,
       Listen,
       Accept, TunnelEnds, AcceptFails, Shutdown, ShutdownWait, CloseListener,
       CloseAll, Drain,
       StopReturns, Dns, ListenAndServe, BindUDP, BindTCP, FirstExit, OwnShutdown,
       OwnWait,
       Activate, ReadFails, ServerReturns, Receive, Handle, Fails
  <2> QED
    BY <2>1 DEF Drains
<1>3. CASE /\ fails = MaxFails /\ stop = "udp"
           /\ st[q] = "exchange" /\ main = "serving"
  <2>1. /\ sock["udp"] \in {"active", "stopping", "failing"}
        /\ sig = "got"
    BY <1>3 DEF FlightInv, InFlight, SigInv
  <2>2. /\ \A k \in Proxies : serve[k] \in {"off", "begin", "serving"}
        /\ las \in {"off", "bindUDP", "bindTCP", "serve"}
        /\ step = "call" => sock["udp"] = "active"
    BY <1>3, <2>1 DEF FirstInv, Unstopped, NothingFailed
  <2>3. ~Ended
    BY <2>2 DEF Ended
  <2>4. UNCHANGED <<main, stop>>
    <3>1. CASE Refuse \/ Launch \/ MainReturns \/ Notify \/ Signal \/ StopReturns
      BY <1>3, <2>1, <2>3, <3>1 DEF Refuse, Launch, MainReturns, Notify, Signal,
         StopReturns
    <3>2. CASE \E p \in Protocols : Shutdown(p) \/ ShutdownWait(p)
      BY <1>3, <2>1, <2>2, <3>2 DEF Shutdown, ShutdownWait, Waits, Returned
    <3>3. CASE \E k \in Proxies : CloseListener(k) \/ CloseAll(k) \/ Drain(k)
      BY <1>3, <3>3 DEF CloseListener, CloseAll, Drain
    <3>4. CASE UNCHANGED process
      BY <3>4
    <3> QED
      BY <3>1, <3>2, <3>3, <3>4 DEF Next, vars, OnSignal, Dns, Listen, Accept,
         TunnelEnds,
         AcceptFails
  <2>5. st'[q] \in {"exchange", "answered"}
    BY <1>3 DEF Next, vars, Refuse, Launch, MainReturns, Notify, Signal, OnSignal,
       Listen,
       Accept, TunnelEnds, AcceptFails, Shutdown, ShutdownWait, CloseListener,
       CloseAll, Drain,
       StopReturns, Dns, ListenAndServe, BindUDP, BindTCP, FirstExit, OwnShutdown,
       OwnWait,
       Activate, ReadFails, ServerReturns, Receive, Handle, Fails
  <2> QED
    BY <1>3, <2>4, <2>5 DEF Drains
<1> QED
  BY <1>1, <1>2, <1>3 DEF Drains

(* A signal does not cut short a query over UDP, whatever other queries    *)
(* there are (main.go:211; server.go:77-84).                               *)
THEOREM UDPDrainedHolds == Spec => UDPDrained
<1> SUFFICES ASSUME NEW q \in Queries, Proto[q] = "udp"
             PROVE  Spec => [](stop = "udp" /\ InFlight(q) =>
                                 [](~Running /\ NothingFailed => ~InFlight(q)))
  BY DEF UDPDrained
<1>1. IInv /\ stop = "udp" /\ InFlight(q) => Drains(q)
  BY DEF IInv, FlightInv, FirstInv, SigInv, NothingFailed, InFlight, Drains,
     TypeOK, CliTypeOK,
     Running
<1>2. IInv /\ Drains(q) /\ [Next]_vars => Drains(q)'
  BY DrainStep
<1>3. Drains(q) => (~Running /\ NothingFailed => ~InFlight(q))
  BY DEF Drains, Running, NothingFailed, InFlight
<1> QED
  BY <1>1, <1>2, <1>3, InitIInv, NextIInv, PTL DEF Spec
=============================================================================
