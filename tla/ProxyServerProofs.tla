------------------------ MODULE ProxyServerProofs ------------------------
(* Theorems about ProxyServer, for any number of connections and of        *)
(* concurrent calls of Close.                                              *)
EXTENDS ProxyServer, FiniteSetTheorems, TLAPS

USE DEF server, track, socks, handler

LEMMA ConnsFinite ==
    ASSUME IInv
    PROVE  IsFiniteSet(conns) /\ Cardinality(conns) \in Nat
BY ProxyAssumption, FS_Subset, FS_CardinalityType DEF IInv, TypeOK

LEMMA InitIInv == Init => IInv
<1> SUFFICES ASSUME Init PROVE IInv
  OBVIOUS
<1>1. CountsHandlers
  BY FS_EmptySet DEF Init, CountsHandlers, Handling
<1> QED
  BY <1>1 DEF Init, IInv, TypeOK, NoDoomedConnServed, NoSocketLeaks,
     AcceptInv, CloseInv, Handling

(* The steps that neither start nor end a handler keep the count: the set  *)
(* of connections being handled stays the same.                            *)
LEMMA CountKept ==
    ASSUME CountsHandlers, UNCHANGED <<conns, wg>>,
           \A c \in Conns : (h[c] \in Handling)' <=> h[c] \in Handling
    PROVE  CountsHandlers'
BY DEF CountsHandlers

-----------------------------------------------------------------------------
LEMMA EnvironmentStep ==
    ASSUME IInv, NEW c \in Conns, Environment(c) PROVE IInv'
<1> USE DEF IInv, TypeOK
<1>1. ASSUME Connect(c) PROVE IInv'
  <2>1. TypeOK'
    BY <1>1 DEF Connect, Handling
  <2>2. CountsHandlers'
    BY <1>1, CountKept DEF Connect, Handling
  <2>3. NoDoomedConnServed' /\ NoSocketLeaks'
    BY <1>1 DEF Connect, Handling, NoDoomedConnServed, NoSocketLeaks, AcceptInv
  <2>4. AcceptInv' /\ CloseInv'
    BY <1>1 DEF Connect, Handling, AcceptInv, CloseInv
  <2> QED
    BY <2>1, <2>2, <2>3, <2>4 DEF IInv
<1>2. ASSUME Leave(c) PROVE IInv'
  <2>1. TypeOK'
    BY <1>2 DEF Leave, Handling
  <2>2. CountsHandlers'
    BY <1>2, CountKept DEF Leave, Handling
  <2>3. NoDoomedConnServed' /\ NoSocketLeaks'
    BY <1>2 DEF Leave, Handling, NoDoomedConnServed, NoSocketLeaks, AcceptInv
  <2>4. AcceptInv' /\ CloseInv'
    BY <1>2 DEF Leave, Handling, AcceptInv, CloseInv
  <2> QED
    BY <2>1, <2>2, <2>3, <2>4 DEF IInv
<1>3. ASSUME UpstreamEnds(c) PROVE IInv'
  <2>1. TypeOK'
    BY <1>3 DEF UpstreamEnds, Handling
  <2>2. CountsHandlers'
    BY <1>3, CountKept DEF UpstreamEnds, Handling
  <2>3. NoDoomedConnServed' /\ NoSocketLeaks'
    BY <1>3 DEF UpstreamEnds, Handling, NoDoomedConnServed, NoSocketLeaks, AcceptInv
  <2>4. AcceptInv' /\ CloseInv'
    BY <1>3 DEF UpstreamEnds, Handling, AcceptInv, CloseInv
  <2> QED
    BY <2>1, <2>2, <2>3, <2>4 DEF IInv
<1> QED
  BY <1>1, <1>2, <1>3 DEF Environment

LEMMA HandleStep ==
    ASSUME IInv, NEW c \in Conns, Handle(c) PROVE IInv'
<1> USE DEF IInv, TypeOK
<1>1. ASSUME NEW kd \in Kinds[c], Request(c, kd) PROVE IInv'
  <2>0. kd \in {"connect", "plain", "socks"}
    BY ProxyAssumption
  <2>1. TypeOK'
    BY <1>1, <2>0 DEF Request, Move, Handling
  <2>2. CountsHandlers'
    BY <1>1, CountKept DEF Request, Move, Handling
  <2>3. NoDoomedConnServed' /\ NoSocketLeaks'
    BY <1>1 DEF Request, Move, Handling, NoDoomedConnServed, NoSocketLeaks, AcceptInv
  <2>4. AcceptInv' /\ CloseInv'
    BY <1>1 DEF Request, Move, Handling, AcceptInv, CloseInv
  <2> QED
    BY <2>1, <2>2, <2>3, <2>4 DEF IInv
<1>2. ASSUME BadRequest(c) PROVE IInv'
  <2>1. TypeOK'
    BY <1>2 DEF BadRequest, EndHandler, Move, Shut, Handling
  <2>2. CountsHandlers'
    BY <1>2, CountKept DEF BadRequest, EndHandler, Move, Shut, Handling
  <2>3. NoDoomedConnServed' /\ NoSocketLeaks'
    BY <1>2 DEF BadRequest, EndHandler, Move, Shut, Handling, NoDoomedConnServed, NoSocketLeaks, AcceptInv
  <2>4. AcceptInv' /\ CloseInv'
    BY <1>2 DEF BadRequest, EndHandler, Move, Shut, Handling, AcceptInv, CloseInv
  <2> QED
    BY <2>1, <2>2, <2>3, <2>4 DEF IInv
<1>3. ASSUME Dialed(c) PROVE IInv'
  <2>1. TypeOK'
    BY <1>3 DEF Dialed, Move, Handling
  <2>2. CountsHandlers'
    BY <1>3, CountKept DEF Dialed, Move, Handling
  <2>3. NoDoomedConnServed' /\ NoSocketLeaks'
    BY <1>3 DEF Dialed, Move, Handling, NoDoomedConnServed, NoSocketLeaks, AcceptInv
  <2>4. AcceptInv' /\ CloseInv'
    BY <1>3 DEF Dialed, Move, Handling, AcceptInv, CloseInv
  <2> QED
    BY <2>1, <2>2, <2>3, <2>4 DEF IInv
<1>4. ASSUME DialFails(c) PROVE IInv'
  <2>1. TypeOK'
    BY <1>4 DEF DialFails, EndHandler, Move, Shut, Handling
  <2>2. CountsHandlers'
    BY <1>4, CountKept DEF DialFails, EndHandler, Move, Shut, Handling
  <2>3. NoDoomedConnServed' /\ NoSocketLeaks'
    BY <1>4 DEF DialFails, EndHandler, Move, Shut, Handling, NoDoomedConnServed, NoSocketLeaks, AcceptInv
  <2>4. AcceptInv' /\ CloseInv'
    BY <1>4 DEF DialFails, EndHandler, Move, Shut, Handling, AcceptInv, CloseInv
  <2> QED
    BY <2>1, <2>2, <2>3, <2>4 DEF IInv
<1>5. ASSUME Replied(c) PROVE IInv'
  <2>1. TypeOK'
    BY <1>5 DEF Replied, Move, Handling
  <2>2. CountsHandlers'
    BY <1>5, CountKept DEF Replied, Move, Handling
  <2>3. NoDoomedConnServed' /\ NoSocketLeaks'
    BY <1>5 DEF Replied, Move, Handling, NoDoomedConnServed, NoSocketLeaks, AcceptInv
  <2>4. AcceptInv' /\ CloseInv'
    BY <1>5 DEF Replied, Move, Handling, AcceptInv, CloseInv
  <2> QED
    BY <2>1, <2>2, <2>3, <2>4 DEF IInv
<1>6. ASSUME ReplyFails(c) PROVE IInv'
  <2>1. TypeOK'
    BY <1>6 DEF ReplyFails, EndHandler, Move, Shut, Handling
  <2>2. CountsHandlers'
    BY <1>6, CountKept DEF ReplyFails, EndHandler, Move, Shut, Handling
  <2>3. NoDoomedConnServed' /\ NoSocketLeaks'
    BY <1>6 DEF ReplyFails, EndHandler, Move, Shut, Handling, NoDoomedConnServed, NoSocketLeaks, AcceptInv
  <2>4. AcceptInv' /\ CloseInv'
    BY <1>6 DEF ReplyFails, EndHandler, Move, Shut, Handling, AcceptInv, CloseInv
  <2> QED
    BY <2>1, <2>2, <2>3, <2>4 DEF IInv
<1>7. ASSUME Forward(c) PROVE IInv'
  <2>1. TypeOK'
    BY <1>7 DEF Forward, Move, Handling
  <2>2. CountsHandlers'
    BY <1>7, CountKept DEF Forward, Move, Handling
  <2>3. NoDoomedConnServed' /\ NoSocketLeaks'
    BY <1>7 DEF Forward, Move, Handling, NoDoomedConnServed, NoSocketLeaks, AcceptInv
  <2>4. AcceptInv' /\ CloseInv'
    BY <1>7 DEF Forward, Move, Handling, AcceptInv, CloseInv
  <2> QED
    BY <2>1, <2>2, <2>3, <2>4 DEF IInv
<1>8. ASSUME ForwardFails(c) PROVE IInv'
  <2>1. TypeOK'
    BY <1>8 DEF ForwardFails, EndHandler, Move, Shut, Handling
  <2>2. CountsHandlers'
    BY <1>8, CountKept DEF ForwardFails, EndHandler, Move, Shut, Handling
  <2>3. NoDoomedConnServed' /\ NoSocketLeaks'
    BY <1>8 DEF ForwardFails, EndHandler, Move, Shut, Handling, NoDoomedConnServed, NoSocketLeaks, AcceptInv
  <2>4. AcceptInv' /\ CloseInv'
    BY <1>8 DEF ForwardFails, EndHandler, Move, Shut, Handling, AcceptInv, CloseInv
  <2> QED
    BY <2>1, <2>2, <2>3, <2>4 DEF IInv
<1>9. ASSUME ResponseRead(c) PROVE IInv'
  <2>1. TypeOK'
    BY <1>9 DEF ResponseRead, Move, Handling
  <2>2. CountsHandlers'
    BY <1>9, CountKept DEF ResponseRead, Move, Handling
  <2>3. NoDoomedConnServed' /\ NoSocketLeaks'
    BY <1>9 DEF ResponseRead, Move, Handling, NoDoomedConnServed, NoSocketLeaks, AcceptInv
  <2>4. AcceptInv' /\ CloseInv'
    BY <1>9 DEF ResponseRead, Move, Handling, AcceptInv, CloseInv
  <2> QED
    BY <2>1, <2>2, <2>3, <2>4 DEF IInv
<1>10. ASSUME NoResponse(c) PROVE IInv'
  <2>1. TypeOK'
    BY <1>10 DEF NoResponse, EndHandler, Move, Shut, Handling
  <2>2. CountsHandlers'
    BY <1>10, CountKept DEF NoResponse, EndHandler, Move, Shut, Handling
  <2>3. NoDoomedConnServed' /\ NoSocketLeaks'
    BY <1>10 DEF NoResponse, EndHandler, Move, Shut, Handling, NoDoomedConnServed, NoSocketLeaks, AcceptInv
  <2>4. AcceptInv' /\ CloseInv'
    BY <1>10 DEF NoResponse, EndHandler, Move, Shut, Handling, AcceptInv, CloseInv
  <2> QED
    BY <2>1, <2>2, <2>3, <2>4 DEF IInv
<1>11. ASSUME KeepAlive(c) PROVE IInv'
  <2>1. TypeOK'
    BY <1>11 DEF KeepAlive, Move, Shut, Handling
  <2>2. CountsHandlers'
    BY <1>11, CountKept DEF KeepAlive, Move, Shut, Handling
  <2>3. NoDoomedConnServed' /\ NoSocketLeaks'
    BY <1>11 DEF KeepAlive, Move, Shut, Handling, NoDoomedConnServed, NoSocketLeaks, AcceptInv
  <2>4. AcceptInv' /\ CloseInv'
    BY <1>11 DEF KeepAlive, Move, Shut, Handling, AcceptInv, CloseInv
  <2> QED
    BY <2>1, <2>2, <2>3, <2>4 DEF IInv
<1>12. ASSUME LastResponse(c) PROVE IInv'
  <2>1. TypeOK'
    BY <1>12 DEF LastResponse, EndHandler, Move, Shut, Handling
  <2>2. CountsHandlers'
    BY <1>12, CountKept DEF LastResponse, EndHandler, Move, Shut, Handling
  <2>3. NoDoomedConnServed' /\ NoSocketLeaks'
    BY <1>12 DEF LastResponse, EndHandler, Move, Shut, Handling, NoDoomedConnServed, NoSocketLeaks, AcceptInv
  <2>4. AcceptInv' /\ CloseInv'
    BY <1>12 DEF LastResponse, EndHandler, Move, Shut, Handling, AcceptInv, CloseInv
  <2> QED
    BY <2>1, <2>2, <2>3, <2>4 DEF IInv
<1>13. ASSUME Remove(c) PROVE IInv'
  <2>1. conns' = conns \ {c} /\ wg' = wg - 1 /\ c \in conns
    BY <1>13 DEF Remove, CountsHandlers, Handling
  <2>2. Cardinality(conns \ {c}) = Cardinality(conns) - 1 /\ wg > 0
    <3>1. /\ IsFiniteSet(conns \ {c})
          /\ Cardinality(conns \ {c}) = Cardinality(conns) - 1
      BY <2>1, ConnsFinite, FS_RemoveElement
    <3>2. Cardinality(conns \ {c}) \in Nat
      BY <3>1, FS_CardinalityType
    <3> QED
      BY <3>1, <3>2, ConnsFinite DEF CountsHandlers
  <2>3. CountsHandlers'
    BY <1>13, <2>1, <2>2 DEF Remove, Move, CountsHandlers, Handling
  <2>4. TypeOK'
    BY <1>13, <2>1, <2>2 DEF Remove, Move, Handling
  <2>5. NoDoomedConnServed' /\ NoSocketLeaks'
    BY <1>13 DEF Remove, Move, Handling, NoDoomedConnServed, NoSocketLeaks
  <2>6. AcceptInv' /\ CloseInv'
    BY <1>13, <2>1, <2>2 DEF Remove, Move, Handling, AcceptInv, CloseInv
  <2> QED
    BY <2>3, <2>4, <2>5, <2>6 DEF IInv
<1> QED
  BY <1>1, <1>2, <1>3, <1>4, <1>5, <1>6, <1>7, <1>8, <1>9, <1>10, <1>11, <1>12, <1>13 DEF Handle

LEMMA RelayStep ==
    ASSUME IInv, NEW c \in Conns, Relay(c) PROVE IInv'
<1> USE DEF IInv, TypeOK
<1>1. ASSUME CopyEnds(c) PROVE IInv'
  <2>1. TypeOK'
    BY <1>1 DEF CopyEnds, EndHandler, Move, Shut, Handling
  <2>2. CountsHandlers'
    BY <1>1, CountKept DEF CopyEnds, EndHandler, Move, Shut, Handling
  <2>3. NoDoomedConnServed' /\ NoSocketLeaks'
    BY <1>1 DEF CopyEnds, EndHandler, Move, Shut, Handling, NoDoomedConnServed, NoSocketLeaks, AcceptInv
  <2>4. AcceptInv' /\ CloseInv'
    BY <1>1 DEF CopyEnds, EndHandler, Move, Shut, Handling, AcceptInv, CloseInv
  <2> QED
    BY <2>1, <2>2, <2>3, <2>4 DEF IInv
<1>2. ASSUME CopyWriteFails(c) PROVE IInv'
  <2>1. TypeOK'
    BY <1>2 DEF CopyWriteFails, EndHandler, Move, Shut, Handling
  <2>2. CountsHandlers'
    BY <1>2, CountKept DEF CopyWriteFails, EndHandler, Move, Shut, Handling
  <2>3. NoDoomedConnServed' /\ NoSocketLeaks'
    BY <1>2 DEF CopyWriteFails, EndHandler, Move, Shut, Handling, NoDoomedConnServed, NoSocketLeaks, AcceptInv
  <2>4. AcceptInv' /\ CloseInv'
    BY <1>2 DEF CopyWriteFails, EndHandler, Move, Shut, Handling, AcceptInv, CloseInv
  <2> QED
    BY <2>1, <2>2, <2>3, <2>4 DEF IInv
<1>3. ASSUME FirstRecord(c) PROVE IInv'
  <2>1. TypeOK'
    BY <1>3 DEF FirstRecord, Handling
  <2>2. CountsHandlers'
    BY <1>3, CountKept DEF FirstRecord, Handling
  <2>3. NoDoomedConnServed' /\ NoSocketLeaks'
    BY <1>3 DEF FirstRecord, Handling, NoDoomedConnServed, NoSocketLeaks, AcceptInv
  <2>4. AcceptInv' /\ CloseInv'
    BY <1>3 DEF FirstRecord, Handling, AcceptInv, CloseInv
  <2> QED
    BY <2>1, <2>2, <2>3, <2>4 DEF IInv
<1>4. ASSUME NoFirstRecord(c) PROVE IInv'
  <2>1. TypeOK'
    BY <1>4 DEF NoFirstRecord, Handling
  <2>2. CountsHandlers'
    BY <1>4, CountKept DEF NoFirstRecord, Handling
  <2>3. NoDoomedConnServed' /\ NoSocketLeaks'
    BY <1>4 DEF NoFirstRecord, Handling, NoDoomedConnServed, NoSocketLeaks, AcceptInv
  <2>4. AcceptInv' /\ CloseInv'
    BY <1>4 DEF NoFirstRecord, Handling, AcceptInv, CloseInv
  <2> QED
    BY <2>1, <2>2, <2>3, <2>4 DEF IInv
<1>5. ASSUME WriteUpstream(c) PROVE IInv'
  <2>1. TypeOK'
    BY <1>5 DEF WriteUpstream, Handling
  <2>2. CountsHandlers'
    BY <1>5, CountKept DEF WriteUpstream, Handling
  <2>3. NoDoomedConnServed' /\ NoSocketLeaks'
    BY <1>5 DEF WriteUpstream, Handling, NoDoomedConnServed, NoSocketLeaks, AcceptInv
  <2>4. AcceptInv' /\ CloseInv'
    BY <1>5 DEF WriteUpstream, Handling, AcceptInv, CloseInv
  <2> QED
    BY <2>1, <2>2, <2>3, <2>4 DEF IInv
<1>6. ASSUME WriteUpstreamFails(c) PROVE IInv'
  <2>1. TypeOK'
    BY <1>6 DEF WriteUpstreamFails, Handling
  <2>2. CountsHandlers'
    BY <1>6, CountKept DEF WriteUpstreamFails, Handling
  <2>3. NoDoomedConnServed' /\ NoSocketLeaks'
    BY <1>6 DEF WriteUpstreamFails, Handling, NoDoomedConnServed, NoSocketLeaks, AcceptInv
  <2>4. AcceptInv' /\ CloseInv'
    BY <1>6 DEF WriteUpstreamFails, Handling, AcceptInv, CloseInv
  <2> QED
    BY <2>1, <2>2, <2>3, <2>4 DEF IInv
<1>7. ASSUME ReadClient(c) PROVE IInv'
  <2>1. TypeOK'
    BY <1>7 DEF ReadClient, Handling
  <2>2. CountsHandlers'
    BY <1>7, CountKept DEF ReadClient, Handling
  <2>3. NoDoomedConnServed' /\ NoSocketLeaks'
    BY <1>7 DEF ReadClient, Handling, NoDoomedConnServed, NoSocketLeaks, AcceptInv
  <2>4. AcceptInv' /\ CloseInv'
    BY <1>7 DEF ReadClient, Handling, AcceptInv, CloseInv
  <2> QED
    BY <2>1, <2>2, <2>3, <2>4 DEF IInv
<1>8. ASSUME ReadClientEnds(c) PROVE IInv'
  <2>1. TypeOK'
    BY <1>8 DEF ReadClientEnds, Handling
  <2>2. CountsHandlers'
    BY <1>8, CountKept DEF ReadClientEnds, Handling
  <2>3. NoDoomedConnServed' /\ NoSocketLeaks'
    BY <1>8 DEF ReadClientEnds, Handling, NoDoomedConnServed, NoSocketLeaks, AcceptInv
  <2>4. AcceptInv' /\ CloseInv'
    BY <1>8 DEF ReadClientEnds, Handling, AcceptInv, CloseInv
  <2> QED
    BY <2>1, <2>2, <2>3, <2>4 DEF IInv
<1>9. ASSUME CloseBoth(c) PROVE IInv'
  <2>1. TypeOK'
    BY <1>9 DEF CloseBoth, Shut, Handling
  <2>2. CountsHandlers'
    BY <1>9, CountKept DEF CloseBoth, Shut, Handling
  <2>3. NoDoomedConnServed' /\ NoSocketLeaks'
    BY <1>9 DEF CloseBoth, Shut, Handling, NoDoomedConnServed, NoSocketLeaks, AcceptInv
  <2>4. AcceptInv' /\ CloseInv'
    BY <1>9 DEF CloseBoth, Shut, Handling, AcceptInv, CloseInv
  <2> QED
    BY <2>1, <2>2, <2>3, <2>4 DEF IInv
<1> QED
  BY <1>1, <1>2, <1>3, <1>4, <1>5, <1>6, <1>7, <1>8, <1>9 DEF Relay

LEMMA ServeStep ==
    ASSUME IInv, Serve PROVE IInv'
<1> USE DEF IInv, TypeOK
<1>1. ASSUME ServeClosed PROVE IInv'
  <2>1. TypeOK'
    BY <1>1 DEF ServeClosed, CloseListener, Handling
  <2>2. CountsHandlers'
    BY <1>1, CountKept DEF ServeClosed, CloseListener, Handling
  <2>3. NoDoomedConnServed' /\ NoSocketLeaks'
    BY <1>1 DEF ServeClosed, CloseListener, Handling, NoDoomedConnServed, NoSocketLeaks, AcceptInv
  <2>4. AcceptInv' /\ CloseInv'
    BY <1>1 DEF ServeClosed, CloseListener, Handling, AcceptInv, CloseInv
  <2> QED
    BY <2>1, <2>2, <2>3, <2>4 DEF IInv
<1>2. ASSUME Adopt PROVE IInv'
  <2>1. TypeOK'
    BY <1>2 DEF Adopt, Handling
  <2>2. CountsHandlers'
    BY <1>2, CountKept DEF Adopt, Handling
  <2>3. NoDoomedConnServed' /\ NoSocketLeaks'
    BY <1>2 DEF Adopt, Handling, NoDoomedConnServed, NoSocketLeaks, AcceptInv
  <2>4. AcceptInv' /\ CloseInv'
    BY <1>2 DEF Adopt, Handling, AcceptInv, CloseInv
  <2> QED
    BY <2>1, <2>2, <2>3, <2>4 DEF IInv
<1>3. ASSUME NEW c \in Conns, Accept(c) PROVE IInv'
  <2>1. TypeOK'
    BY <1>3 DEF Accept, Handling
  <2>2. CountsHandlers'
    BY <1>3, CountKept DEF Accept, Handling
  <2>3. NoDoomedConnServed' /\ NoSocketLeaks'
    BY <1>3 DEF Accept, Handling, NoDoomedConnServed, NoSocketLeaks, AcceptInv
  <2>4. AcceptInv' /\ CloseInv'
    BY <1>3 DEF Accept, Handling, AcceptInv, CloseInv
  <2> QED
    BY <2>1, <2>2, <2>3, <2>4 DEF IInv
<1>4. ASSUME AcceptFails PROVE IInv'
  <2>1. TypeOK'
    BY <1>4 DEF AcceptFails, Handling
  <2>2. CountsHandlers'
    BY <1>4, CountKept DEF AcceptFails, Handling
  <2>3. NoDoomedConnServed' /\ NoSocketLeaks'
    BY <1>4 DEF AcceptFails, Handling, NoDoomedConnServed, NoSocketLeaks, AcceptInv
  <2>4. AcceptInv' /\ CloseInv'
    BY <1>4 DEF AcceptFails, Handling, AcceptInv, CloseInv
  <2> QED
    BY <2>1, <2>2, <2>3, <2>4 DEF IInv
<1>5. ASSUME AddRefused PROVE IInv'
  <2>1. TypeOK'
    BY <1>5 DEF AddRefused, Handling
  <2>2. CountsHandlers'
    BY <1>5, CountKept DEF AddRefused, Handling
  <2>3. NoDoomedConnServed' /\ NoSocketLeaks'
    BY <1>5 DEF AddRefused, Handling, NoDoomedConnServed, NoSocketLeaks, AcceptInv
  <2>4. AcceptInv' /\ CloseInv'
    BY <1>5 DEF AddRefused, Handling, AcceptInv, CloseInv
  <2> QED
    BY <2>1, <2>2, <2>3, <2>4 DEF IInv
<1>6. ASSUME Reject PROVE IInv'
  <2>1. TypeOK'
    BY <1>6 DEF Reject, Handling
  <2>2. CountsHandlers'
    BY <1>6, CountKept DEF Reject, Handling
  <2>3. NoDoomedConnServed' /\ NoSocketLeaks'
    BY <1>6 DEF Reject, Handling, NoDoomedConnServed, NoSocketLeaks, AcceptInv
  <2>4. AcceptInv' /\ CloseInv'
    BY <1>6 DEF Reject, Handling, AcceptInv, CloseInv
  <2> QED
    BY <2>1, <2>2, <2>3, <2>4 DEF IInv
<1>7. ASSUME AddOK PROVE IInv'
  <2>1. cur \notin conns /\ conns' = conns \cup {cur} /\ wg' = wg + 1
    BY <1>7 DEF AddOK, CountsHandlers, AcceptInv, Handling
  <2>2. Cardinality(conns \cup {cur}) = Cardinality(conns) + 1
    BY <2>1, ConnsFinite, FS_AddElement
  <2>3. CountsHandlers'
    BY <1>7, <2>1, <2>2 DEF AddOK, CountsHandlers, Handling
  <2>4. TypeOK'
    BY <1>7 DEF AddOK, Handling
  <2>5. NoDoomedConnServed' /\ NoSocketLeaks'
    BY <1>7 DEF AddOK, Handling, NoDoomedConnServed, NoSocketLeaks
  <2>6. AcceptInv' /\ CloseInv'
    BY <1>7 DEF AddOK, Handling, AcceptInv, CloseInv
  <2> QED
    BY <2>3, <2>4, <2>5, <2>6 DEF IInv
<1> QED
  BY <1>1, <1>2, <1>3, <1>4, <1>5, <1>6, <1>7 DEF Serve

LEMMA CloseStep ==
    ASSUME IInv, NEW k \in Closers, Close(k) PROVE IInv'
<1> USE DEF IInv, TypeOK
<1>1. ASSUME CloseLn(k) PROVE IInv'
  <2>1. TypeOK'
    BY <1>1 DEF CloseLn, CloseListener, Handling
  <2>2. CountsHandlers'
    BY <1>1, CountKept DEF CloseLn, CloseListener, Handling
  <2>3. NoDoomedConnServed' /\ NoSocketLeaks'
    BY <1>1 DEF CloseLn, CloseListener, Handling, NoDoomedConnServed, NoSocketLeaks, AcceptInv
  <2>4. AcceptInv' /\ CloseInv'
    BY <1>1 DEF CloseLn, CloseListener, Handling, AcceptInv, CloseInv
  <2> QED
    BY <2>1, <2>2, <2>3, <2>4 DEF IInv
<1>2. ASSUME CloseAll(k) PROVE IInv'
  <2>1. TypeOK'
    BY <1>2 DEF CloseAll, CountsHandlers, Handling
  <2>2. CountsHandlers'
    BY <1>2, CountKept DEF CloseAll, CountsHandlers, Handling
  <2>3. NoDoomedConnServed' /\ NoSocketLeaks'
    BY <1>2 DEF CloseAll, CountsHandlers, Handling, NoDoomedConnServed, NoSocketLeaks, AcceptInv
  <2>4. AcceptInv' /\ CloseInv'
    BY <1>2 DEF CloseAll, CountsHandlers, Handling, AcceptInv, CloseInv
  <2> QED
    BY <2>1, <2>2, <2>3, <2>4 DEF IInv
<1>3. ASSUME Drained(k) PROVE IInv'
  <2>1. TypeOK'
    BY <1>3 DEF Drained, Handling
  <2>2. CountsHandlers'
    BY <1>3, CountKept DEF Drained, Handling
  <2>3. NoDoomedConnServed' /\ NoSocketLeaks'
    BY <1>3 DEF Drained, Handling, NoDoomedConnServed, NoSocketLeaks, AcceptInv
  <2>4. AcceptInv' /\ CloseInv'
    BY <1>3 DEF Drained, Handling, AcceptInv, CloseInv
  <2> QED
    BY <2>1, <2>2, <2>3, <2>4 DEF IInv
<1>4. ASSUME DrainTimeout(k) PROVE IInv'
  <2>1. TypeOK'
    BY <1>4 DEF DrainTimeout, Handling
  <2>2. CountsHandlers'
    BY <1>4, CountKept DEF DrainTimeout, Handling
  <2>3. NoDoomedConnServed' /\ NoSocketLeaks'
    BY <1>4 DEF DrainTimeout, Handling, NoDoomedConnServed, NoSocketLeaks, AcceptInv
  <2>4. AcceptInv' /\ CloseInv'
    BY <1>4 DEF DrainTimeout, Handling, AcceptInv, CloseInv
  <2> QED
    BY <2>1, <2>2, <2>3, <2>4 DEF IInv
<1> QED
  BY <1>1, <1>2, <1>3, <1>4 DEF Close

LEMMA NextIInv == IInv /\ [Next]_vars => IInv'
<1> SUFFICES ASSUME IInv, [Next]_vars PROVE IInv'
  OBVIOUS
<1>1. CASE UNCHANGED vars
  BY <1>1 DEF vars, IInv, TypeOK, CountsHandlers, NoDoomedConnServed,
     NoSocketLeaks, AcceptInv, CloseInv
<1> QED
  BY <1>1, ServeStep, CloseStep, EnvironmentStep, HandleStep, RelayStep
     DEF Next

-----------------------------------------------------------------------------
(* The proxy's state is well typed; the WaitGroup never goes negative.     *)
THEOREM TypeCorrect == Spec => []TypeOK
<1>1. IInv => TypeOK
  BY DEF IInv
<1> QED
  BY <1>1, InitIInv, NextIInv, PTL DEF Spec

(* The WaitGroup counts the running handlers. *)
THEOREM CountsHandlersHolds == Spec => []CountsHandlers
<1>1. IInv => CountsHandlers
  BY DEF IInv
<1> QED
  BY <1>1, InitIInv, NextIInv, PTL DEF Spec

(* Every connection served after closeAll has had its client closed. *)
THEOREM NoDoomedConnServedHolds == Spec => []NoDoomedConnServed
<1>1. IInv => NoDoomedConnServed
  BY DEF IInv
<1> QED
  BY <1>1, InitIInv, NextIInv, PTL DEF Spec

(* No handler path leaves a socket open. *)
THEOREM NoSocketLeaksHolds == Spec => []NoSocketLeaks
<1>1. IInv => NoSocketLeaks
  BY DEF IInv
<1> QED
  BY <1>1, InitIInv, NextIInv, PTL DEF Spec

(* A Close that drained leaves nothing behind, for good. *)
THEOREM DrainedIsQuietHolds == Spec => []DrainedIsQuiet
<1>1. IInv => DrainedIsQuiet
  <2> SUFFICES ASSUME IInv, NEW k \in Closers, cpc[k] = "drained"
               PROVE  /\ wg = 0
                      /\ \A c \in Conns : h[c] # "none" =>
                            /\ h[c] = "done"
                            /\ client[c] = "closed"
                            /\ upstream[c] # "open"
    BY DEF DrainedIsQuiet
  <2>1. wg = 0
    BY DEF IInv, CloseInv
  <2>2. conns = {}
    BY <2>1, ConnsFinite, FS_EmptySet DEF IInv, CountsHandlers
  <2>3. \A c \in Conns : h[c] \notin Handling
    BY <2>2 DEF IInv, CountsHandlers
  <2> QED
    BY <2>1, <2>3 DEF IInv, TypeOK, NoSocketLeaks
<1> QED
  BY <1>1, InitIInv, NextIInv, PTL DEF Spec

(* The WaitGroup is never added to while somebody waits on it. *)
THEOREM NoAddDuringWaitHolds == Spec => NoAddDuringWait
<1> DEFINE A == (\E k \in Closers : cpc[k] = "wait") => wg' <= wg
<1>1. IInv /\ [Next]_vars => [A]_vars
  <2> SUFFICES ASSUME IInv, [Next]_vars, NEW k \in Closers, cpc[k] = "wait"
               PROVE  wg' <= wg
    OBVIOUS
  <2>1. closing /\ wg \in Nat
    BY DEF IInv, CloseInv, TypeOK
  <2>2. ~AddOK
    BY <2>1 DEF AddOK
  <2>3. ASSUME NEW c \in Conns, Remove(c) PROVE wg' <= wg
    BY <2>1, <2>3 DEF Remove
  <2>4. wg' = wg \/ \E c \in Conns : Remove(c)
    BY <2>2 DEF Next, vars, Serve, ServeClosed, Adopt, Accept, AcceptFails,
       AddRefused, Reject, Close, CloseLn, CloseAll, Drained, DrainTimeout,
       Environment, Connect, Leave, UpstreamEnds, Handle, Request,
       BadRequest, Dialed, DialFails, Replied, ReplyFails, Forward,
       ForwardFails, ResponseRead, NoResponse, KeepAlive, LastResponse,
       Relay, CopyEnds, CopyWriteFails, FirstRecord, NoFirstRecord,
       WriteUpstream, WriteUpstreamFails, ReadClient, ReadClientEnds,
       CloseBoth
  <2> QED
    BY <2>1, <2>3, <2>4
<1> QED
  BY <1>1, InitIInv, NextIInv, PTL DEF Spec, NoAddDuringWait
=============================================================================
