------------------------- MODULE AgentClientProofs -------------------------
(***************************************************************************)
(* Safety of AgentClient for any set of connections.  The argument: one    *)
(* goroutine supervises the connection and every step keeps the duty,      *)
(* drops it or hands it on (DutyStep).  That makes the bodies of           *)
(* forceReconnect exclusive, from which the latch reconnecting             *)
(* (LatchInv) and the life of the stop channel (StopInv) follow.           *)
(***************************************************************************)
EXTENDS AgentClient, TLAPS

\* Which sets the named goroutines belong to.
LEMMA ProcFacts ==
  /\ Main \in Proc /\ Signal \in Proc /\ Reconnector \in Proc
  /\ \A k \in ConnId : OnConnected(k) \in Callers /\ Heartbeat(k) \in Callers
  /\ Connectors \subseteq Proc /\ Callers \subseteq Proc
BY DEF Proc, Connectors, Callers, OnConnecteds, Heartbeats

\* Goroutines with different names are different.
LEMMA ProcDistinct ==
  /\ Main # Reconnector /\ Main # Signal /\ Signal # Reconnector
  /\ Main \notin Callers /\ Signal \notin Callers /\ Reconnector \notin Callers
  /\ \A k : /\ OnConnected(k) \notin Connectors /\ OnConnected(k) # Signal
            /\ OnConnected(k) # Heartbeat(k)
BY DEF Main, Signal, Reconnector, OnConnected, Heartbeat, Callers, OnConnecteds,
       Heartbeats, Connectors

\* The locations the steps name are locations.
LEMMA Locations ==
  /\ "check" \in PC /\ "dial" \in PC /\ "setWs" \in PC /\ "setConn" \in PC
  /\ "backoff" \in PC /\ "call" \in PC /\ "await" \in PC /\ "spawn" \in PC
  /\ "start" \in PC /\ "select" \in PC /\ "enter" \in PC /\ "closeStop" \in PC
  /\ "renewStop" \in PC /\ "closeConn" \in PC /\ "closeRpc" \in PC /\ "cancel" \in PC
  /\ "renewCtx" \in PC /\ "idle" \in PC /\ "mark" \in PC /\ "closeHeartbeat" \in PC
  /\ "cancelCtx" \in PC /\ "shutRpc" \in PC /\ "none" \in PC /\ "returned" \in PC
  /\ "rejected" \in PC /\ "waiting" \in PC /\ "done" \in PC /\ "skipped" \in PC
  /\ "gaveUp" \in PC
BY DEF PC, ConnectPC, CallPC, ReconnectPC, ShutdownPC, RestPC

-----------------------------------------------------------------------------
(* Types.                                                                  *)

\* The initial state is well typed.
LEMMA TypeInit == Init => TypeOK
<1> SUFFICES ASSUME Init PROVE TypeOK
  OBVIOUS
<1>1. pc \in [Proc -> PC]
  BY DEF Init, PC, ConnectPC, CallPC, ReconnectPC, ShutdownPC, RestPC
<1>2. /\ using \in [Proc -> ConnId \cup {NoConn}]
      /\ reply \in [Proc -> {"none", "ok", "error"}]
      /\ waitCtx \in [Proc -> Nat] /\ waitStop \in [Proc -> Nat]
  BY DEF Init
<1>3. link \in [ConnId -> LinkState] /\ reader \in [ConnId -> ReaderState]
  BY DEF Init, LinkState, ReaderState
<1>4. /\ ctx \in Nat /\ cancelled \in SUBSET Nat /\ heartbeatStop \in Nat
      /\ closedStop \in SUBSET Nat /\ {conn, wsConn, rpcConn} \subseteq ConnId \cup {NoConn}
      /\ {rpcCancelled, reconnecting, isShutdown, gracefulShutdown} \subseteq BOOLEAN
      /\ exit \in ExitState
  BY DEF Init, ExitState
<1> QED BY <1>1, <1>2, <1>3, <1>4 DEF TypeOK

\* Every step of every goroutine, and of the network, keeps the types.
LEMMA TypeStep == TypeOK /\ [Next]_vars => TypeOK'
<1> SUFFICES ASSUME TypeOK, [Next]_vars PROVE TypeOK'
  OBVIOUS
<1> USE ProcFacts, Locations DEF TypeOK, Goto, locals, ctxVars, stopVars, rpcVars,
        linkVars, flags, ExitState
<1>1. ASSUME NEW p \in Connectors, ConnectStep(p) PROVE TypeOK'
  <2>1. CASE CheckShutdown(p)
    BY <2>1 DEF CheckShutdown, ConnectReturns, ExitsWith
  <2>2. CASE DialSucceeds(p)
    <3>1. (CHOOSE j \in Unused : TRUE) \in ConnId
      BY <2>2 DEF DialSucceeds, Unused
    <3> QED BY <2>2, <3>1 DEF DialSucceeds, LinkState
  <2>3. CASE DialRejected(p)
    BY <2>3 DEF DialRejected, ConnectReturns, ExitsWith
  <2>4. CASE DialFails(p)
    BY <2>4 DEF DialFails
  <2>5. CASE BackoffEnds(p)
    BY <2>5 DEF BackoffEnds
  <2>6. CASE BackoffCancelled(p)
    BY <2>6 DEF BackoffCancelled, ConnectReturns, ExitsWith
  <2>7. CASE SetWsConn(p)
    BY <2>7 DEF SetWsConn
  <2>8. CASE SetRpcConn(p)
    BY <2>8 DEF SetRpcConn, LinkState, ReaderState
  <2> HIDE DEF TypeOK
  <2> QED BY <1>1, <2>1, <2>2, <2>3, <2>4, <2>5, <2>6, <2>7, <2>8 DEF ConnectStep
<1>2. ASSUME NEW p \in Callers, CallStep(p) PROVE TypeOK'
  <2>1. CASE CallUnsent(p)
    BY <2>1 DEF CallUnsent, CallFailed
  <2>4. CASE CallSent(p)
    BY <2>4 DEF CallSent
  <2>2. CASE CallSucceeds(p)
    BY <2>2 DEF CallSucceeds, CallOver
  <2>3. CASE CallFails(p)
    BY <2>3 DEF CallFails, CallOver, CallFailed
  <2> HIDE DEF TypeOK
  <2> QED BY <1>2, <2>1, <2>2, <2>3, <2>4 DEF CallStep
<1>3. ASSUME NEW p \in Callers, ReconnectStep(p) PROVE TypeOK'
  <2>1. CASE EnterReconnect(p)
    BY <2>1 DEF EnterReconnect
  <2>2. CASE StopMonitor(p)
    BY <2>2 DEF StopMonitor, CloseHeartbeatStop
  <2>7. CASE RenewStop(p)
    BY <2>7 DEF RenewStop
  <2>3. CASE CloseConn(p)
    BY <2>3 DEF CloseConn, CloseSocket, LinkState
  <2>4. CASE CloseRpc(p)
    BY <2>4 DEF CloseRpc, CloseRpcClient, CloseSocket, CloseJsonrpc, LinkState
  <2>5. CASE CancelContext(p)
    BY <2>5 DEF CancelContext
  <2>6. CASE RenewContext(p)
    BY <2>6 DEF RenewContext
  <2> HIDE DEF TypeOK
  <2> QED BY <1>3, <2>1, <2>2, <2>3, <2>4, <2>5, <2>6, <2>7 DEF ReconnectStep
<1>4. ASSUME NEW k \in ConnId, StartHeartbeat(k) \/ EnterSelect(k) \/ Tick(k) \/ HeartbeatStops(k)
      PROVE TypeOK'
  <2>1. CASE StartHeartbeat(k)
    BY <2>1 DEF StartHeartbeat
  <2>2. CASE EnterSelect(k)
    BY <2>2 DEF EnterSelect
  <2>3. CASE Tick(k)
    BY <2>3 DEF Tick
  <2>4. CASE HeartbeatStops(k)
    BY <2>4 DEF HeartbeatStops
  <2> HIDE DEF TypeOK
  <2> QED BY <1>4, <2>1, <2>2, <2>3, <2>4
<1>5. ASSUME NEW k \in ConnId, ReaderStep(k) \/ LinkLost(k) \/ RequestArrives(k) PROVE TypeOK'
  <2>1. CASE ReaderEnds(k)
    BY <2>1 DEF ReaderEnds, LinkState, ReaderState
  <2>2. CASE HandlerReturns(k)
    BY <2>2 DEF HandlerReturns, ReaderState
  <2>3. CASE LinkLost(k)
    BY <2>3 DEF LinkLost, LinkState
  <2>4. CASE RequestArrives(k)
    BY <2>4 DEF RequestArrives, ReaderState
  <2> HIDE DEF TypeOK
  <2> QED BY <1>5, <2>1, <2>2, <2>3, <2>4 DEF ReaderStep
<1>6. CASE SignalStep \/ ReceiveSignal
  <2>1. CASE MarkShutdown
    BY <2>1 DEF MarkShutdown
  <2>2. CASE ReceiveSignal
    BY <2>2 DEF ReceiveSignal
  <2>3. CASE ShutdownStopsMonitor
    BY <2>3 DEF ShutdownStopsMonitor, CloseHeartbeatStop
  <2>4. CASE ShutdownCancels
    BY <2>4 DEF ShutdownCancels
  <2>5. CASE ShutdownClosesRpc
    BY <2>5 DEF ShutdownClosesRpc, CloseRpcClient, CloseSocket, CloseJsonrpc, LinkState
  <2> HIDE DEF TypeOK
  <2> QED BY <1>6, <2>1, <2>2, <2>3, <2>4, <2>5 DEF SignalStep
<1>7. CASE RunWaits \/ RunReturns
  <2>1. CASE RunWaits
    BY <2>1 DEF RunWaits
  <2>2. CASE RunReturns
    BY <2>2 DEF RunReturns, ExitsWith
  <2> HIDE DEF TypeOK
  <2> QED BY <1>7, <2>1, <2>2
<1>8. CASE ReconnectorEnds
  BY <1>8 DEF ReconnectorEnds
<1>9. ASSUME NEW p \in Callers, NEW r \in {"ok", "error"}, Answered(p, r) PROVE TypeOK'
  BY <1>9 DEF Answered
<1>10. CASE UNCHANGED vars
  BY <1>10 DEF vars
<1> HIDE DEF TypeOK
<1> QED
  BY <1>1, <1>2, <1>3, <1>4, <1>5, <1>6, <1>7, <1>8, <1>9, <1>10
  DEF Next, MainStep, ReconnectorStep, OnConnectedStep, HeartbeatStep, Environment, Connectors

\* Every reachable state is well typed.
THEOREM TypeCorrect == Spec => []TypeOK
BY TypeInit, TypeStep, PTL DEF Spec

-----------------------------------------------------------------------------
(* One duty: what a step may do to the control locations.                  *)

\* Goroutine p goes on, without taking up the duty it did not have.
Moves(p) == \E l \in PC : Goto(p, l) /\ (Supervises(p) \/ l \notin SupervisorPC)

\* Goroutine p lays the duty down and q takes it up.
HandsTo(p, q) ==
  \E l \in PC \ SupervisorPC, m \in PC :
    Supervises(p) /\ p # q /\ pc' = [pc EXCEPT ![p] = l, ![q] = m]

\* A goroutine that goes on does not make a second supervisor.
LEMMA MovesKeepsDuty ==
  ASSUME TypeOK, AtMostOneSupervisor, NEW p \in Proc, Moves(p)
  PROVE  AtMostOneSupervisor'
BY DEF TypeOK, Moves, Goto, AtMostOneSupervisor, Supervises

\* Nor does one that lays the duty down and starts another goroutine.
LEMMA HandsToKeepsDuty ==
  ASSUME TypeOK, AtMostOneSupervisor, NEW p \in Proc, NEW q, HandsTo(p, q)
  PROVE  AtMostOneSupervisor'
BY DEF TypeOK, HandsTo, AtMostOneSupervisor, Supervises

\* Every step of the program is one of these, or leaves the duties as they are.
LEMMA DutyStep == TypeOK /\ AtMostOneSupervisor /\ [Next]_vars => AtMostOneSupervisor'
<1> SUFFICES ASSUME TypeOK, AtMostOneSupervisor, [Next]_vars PROVE AtMostOneSupervisor'
  OBVIOUS
<1> USE ProcFacts, ProcDistinct
<1>0. ASSUME UNCHANGED pc PROVE AtMostOneSupervisor'
  BY <1>0 DEF AtMostOneSupervisor, Supervises
<1>m. ASSUME NEW p \in Proc, Moves(p) PROVE AtMostOneSupervisor'
  BY <1>m, MovesKeepsDuty
<1>h. ASSUME NEW p \in Proc, NEW q, HandsTo(p, q) PROVE AtMostOneSupervisor'
  BY <1>h, HandsToKeepsDuty
<1>1. ASSUME NEW p \in Connectors, ConnectStep(p) PROVE AtMostOneSupervisor'
  <2> USE DEF Supervises, SupervisorPC, PC, ConnectPC, CallPC, ReconnectPC, ShutdownPC, RestPC
  <2>1. CASE SetRpcConn(p)
    <3> DEFINE q == OnConnected(using[p])
    <3>1. p # q
      OBVIOUS
    <3>2. pc[p] = "setConn" /\ pc' = [pc EXCEPT ![p] = "returned", ![q] = "call"]
      BY <2>1 DEF SetRpcConn
    <3>3. HandsTo(p, q)
      BY <3>1, <3>2 DEF HandsTo
    <3> QED BY <3>3, <1>h
  <2>2. CASE CheckShutdown(p)
    <3> Moves(p) BY <2>2 DEF CheckShutdown, ConnectReturns, Goto, Moves
    <3> QED BY <1>m
  <2>3. CASE DialSucceeds(p) \/ DialFails(p) \/ BackoffEnds(p) \/ SetWsConn(p)
    <3> Moves(p) BY <2>3 DEF DialSucceeds, DialFails, BackoffEnds, SetWsConn, Goto, Moves
    <3> QED BY <1>m
  <2>4. CASE DialRejected(p) \/ BackoffCancelled(p)
    <3> Moves(p) BY <2>4 DEF DialRejected, BackoffCancelled, ConnectReturns, Goto, Moves
    <3> QED BY <1>m
  <2> QED BY <1>1, <2>1, <2>2, <2>3, <2>4 DEF ConnectStep
<1>2. ASSUME NEW p \in Callers, CallStep(p) PROVE AtMostOneSupervisor'
  <2> Moves(p)
    BY <1>2 DEF CallStep, CallUnsent, CallSent, CallSucceeds, CallFails, CallFailed, Goto, Moves,
       Supervises, SupervisorPC, PC, ConnectPC, CallPC, ReconnectPC, ShutdownPC, RestPC
  <2> QED BY <1>m
<1>3. ASSUME NEW p \in Callers, ReconnectStep(p) PROVE AtMostOneSupervisor'
  <2> USE DEF Supervises, SupervisorPC, PC, ConnectPC, CallPC, ReconnectPC, ShutdownPC, RestPC
  <2>1. CASE RenewContext(p)
    <3> HandsTo(p, Reconnector)
      BY <2>1 DEF RenewContext, HandsTo
    <3> QED BY <1>h
  <2>2. CASE StopMonitor(p)
    <3> UNCHANGED pc \/ Moves(p) BY <2>2 DEF StopMonitor, CloseHeartbeatStop, Goto, Moves
    <3> QED BY <1>0, <1>m
  <2>3. CASE EnterReconnect(p)
    <3> Moves(p) BY <2>3 DEF EnterReconnect, Goto, Moves
    <3> QED BY <1>m
  <2>4. CASE RenewStop(p) \/ CloseConn(p) \/ CloseRpc(p) \/ CancelContext(p)
    <3> Moves(p) BY <2>4 DEF RenewStop, CloseConn, CloseRpc, CancelContext, Goto, Moves
    <3> QED BY <1>m
  <2> QED BY <1>3, <2>1, <2>2, <2>3, <2>4 DEF ReconnectStep
<1>4. ASSUME NEW k \in ConnId, StartHeartbeat(k) PROVE AtMostOneSupervisor'
  <2> HandsTo(OnConnected(k), Heartbeat(k))
    BY <1>4 DEF StartHeartbeat, HandsTo, Supervises, SupervisorPC, PC, ConnectPC, CallPC,
       ReconnectPC, ShutdownPC, RestPC
  <2> QED BY <1>h
<1>5. ASSUME NEW k \in ConnId, EnterSelect(k) \/ Tick(k) \/ HeartbeatStops(k)
      PROVE AtMostOneSupervisor'
  <2> Moves(Heartbeat(k))
    BY <1>5 DEF EnterSelect, Tick, HeartbeatStops, Goto, Moves, Supervises, SupervisorPC, PC,
       ConnectPC, CallPC, ReconnectPC, ShutdownPC, RestPC
  <2> QED BY <1>m
<1>6. CASE SignalStep \/ ReceiveSignal
  <2> UNCHANGED pc \/ Moves(Signal)
    BY <1>6 DEF SignalStep, ReceiveSignal, MarkShutdown, ShutdownStopsMonitor, CloseHeartbeatStop,
       ShutdownCancels, ShutdownClosesRpc, Goto, Moves, SupervisorPC, PC, ConnectPC, CallPC,
       ReconnectPC, ShutdownPC, RestPC
  <2> QED BY <1>0, <1>m
<1>7. CASE RunWaits \/ RunReturns \/ ReconnectorEnds
  <2> Moves(Main) \/ Moves(Reconnector)
    BY <1>7 DEF RunWaits, RunReturns, ReconnectorEnds, Goto, Moves, SupervisorPC, PC, ConnectPC,
       CallPC, ReconnectPC, ShutdownPC, RestPC
  <2> QED BY <1>m
<1>8. ASSUME NEW k \in ConnId, ReaderStep(k) \/ LinkLost(k) \/ RequestArrives(k)
      PROVE AtMostOneSupervisor'
  BY <1>0, <1>8 DEF ReaderStep, ReaderEnds, HandlerReturns, LinkLost, RequestArrives
<1>9. ASSUME NEW p \in Callers, NEW r \in {"ok", "error"}, Answered(p, r)
      PROVE AtMostOneSupervisor'
  BY <1>0, <1>9 DEF Answered
<1>10. CASE UNCHANGED vars
  BY <1>0, <1>10 DEF vars
<1> QED
  BY <1>1, <1>2, <1>3, <1>4, <1>5, <1>6, <1>7, <1>8, <1>9, <1>10
  DEF Next, MainStep, ReconnectorStep, OnConnectedStep, HeartbeatStep, Environment, Connectors

\* At first only Main supervises.
LEMMA DutyInit == Init => AtMostOneSupervisor
BY DEF Init, AtMostOneSupervisor, Supervises, SupervisorPC, ConnectPC, CallPC, ReconnectPC

\* Never do two goroutines connect, register, monitor or reconnect.
THEOREM OneSupervisor == Spec => []AtMostOneSupervisor
<1>1. Init => TypeOK /\ AtMostOneSupervisor
  BY TypeInit, DutyInit
<1>2. TypeOK /\ AtMostOneSupervisor /\ [Next]_vars => (TypeOK /\ AtMostOneSupervisor)'
  BY TypeStep, DutyStep
<1> QED BY <1>1, <1>2, PTL DEF Spec

-----------------------------------------------------------------------------
(* The latch reconnecting is held from the moment forceReconnect passes    *)
(* its check until the goroutine it starts has ended.                      *)

LatchInv ==
  /\ pc[Reconnector] \in ConnectPC \cup {"returned", "rejected", "idle", "gaveUp"}
  /\ pc[Reconnector] \notin {"idle", "gaveUp"} => reconnecting
  /\ \A p \in Callers : pc[p] \in ReconnectPC =>
       reconnecting /\ pc[Reconnector] \in {"idle", "gaveUp"}

\* The flag reconnecting is set before the body of forceReconnect and cleared when its
\* goroutine has ended.
LEMMA LatchStep ==
  TypeOK /\ AtMostOneSupervisor /\ LatchInv /\ [Next]_vars => LatchInv'
<1> SUFFICES ASSUME TypeOK, AtMostOneSupervisor, LatchInv, [Next]_vars PROVE LatchInv'
  OBVIOUS
<1> USE ProcFacts, ProcDistinct DEF LatchInv, Goto, flags, ConnectPC, ReconnectPC
<1> pc \in [Proc -> PC]
  BY DEF TypeOK
<1>1. ASSUME NEW p \in Connectors, ConnectStep(p) PROVE LatchInv'
  <2>1. CASE SetRpcConn(p)
    <3> DEFINE q == OnConnected(using[p])
    <3>1. pc[p] = "setConn" /\ pc' = [pc EXCEPT ![p] = "returned", ![q] = "call"]
      BY <2>1 DEF SetRpcConn
    <3>2. UNCHANGED reconnecting /\ q \notin Connectors
      BY <2>1 DEF SetRpcConn
    <3>3. CASE p = Main
      BY <3>1, <3>2, <3>3 DEF Connectors
    <3>4. CASE p = Reconnector
      BY <3>1, <3>2, <3>4 DEF Connectors
    <3> QED BY <3>3, <3>4 DEF Connectors
  <2>2. CASE CheckShutdown(p)
    BY <2>2 DEF CheckShutdown, ConnectReturns
  <2>3. CASE DialSucceeds(p)
    BY <2>3 DEF DialSucceeds
  <2>4. CASE DialRejected(p)
    BY <2>4 DEF DialRejected, ConnectReturns
  <2>5. CASE BackoffCancelled(p)
    BY <2>5 DEF BackoffCancelled, ConnectReturns
  <2>6. CASE DialFails(p)
    BY <2>6 DEF DialFails
  <2>7. CASE BackoffEnds(p)
    BY <2>7 DEF BackoffEnds
  <2>8. CASE SetWsConn(p)
    BY <2>8 DEF SetWsConn
  <2> QED BY <1>1, <2>1, <2>2, <2>3, <2>4, <2>5, <2>6, <2>7, <2>8 DEF ConnectStep
<1>2. ASSUME NEW p \in Callers, CallStep(p) PROVE LatchInv'
  <2>1. CASE CallUnsent(p)
    BY <2>1 DEF CallUnsent, CallFailed
  <2>2. CASE CallSent(p)
    BY <2>2 DEF CallSent
  <2>3. CASE CallSucceeds(p)
    BY <2>3 DEF CallSucceeds
  <2>4. CASE CallFails(p)
    BY <2>4 DEF CallFails, CallFailed
  <2> QED BY <1>2, <2>1, <2>2, <2>3, <2>4 DEF CallStep
<1>3. ASSUME NEW p \in Callers, ReconnectStep(p) PROVE LatchInv'
  <2>1. CASE EnterReconnect(p)
    BY <2>1 DEF EnterReconnect
  <2>2. CASE StopMonitor(p)
    BY <2>2 DEF StopMonitor, CloseHeartbeatStop
  <2>3. CASE RenewStop(p)
    BY <2>3 DEF RenewStop
  <2>4. CASE CloseConn(p)
    BY <2>4 DEF CloseConn
  <2>5. CASE CloseRpc(p)
    BY <2>5 DEF CloseRpc
  <2>6. CASE CancelContext(p)
    BY <2>6 DEF CancelContext
  <2>7. CASE RenewContext(p)
    <3>1. \A q \in Callers : q # p => pc[q] \notin ReconnectPC
      BY <2>7 DEF RenewContext, AtMostOneSupervisor, Supervises, SupervisorPC
    <3> QED BY <2>7, <3>1 DEF RenewContext
  <2> QED BY <1>3, <2>1, <2>2, <2>3, <2>4, <2>5, <2>6, <2>7 DEF ReconnectStep
<1>4. ASSUME NEW k \in ConnId, StartHeartbeat(k) \/ EnterSelect(k) \/ Tick(k) \/ HeartbeatStops(k)
      PROVE LatchInv'
  <2>1. CASE StartHeartbeat(k)
    BY <2>1 DEF StartHeartbeat
  <2>2. CASE EnterSelect(k)
    BY <2>2 DEF EnterSelect
  <2>3. CASE Tick(k)
    BY <2>3 DEF Tick
  <2>4. CASE HeartbeatStops(k)
    BY <2>4 DEF HeartbeatStops
  <2> QED BY <1>4, <2>1, <2>2, <2>3, <2>4
<1>6. CASE SignalStep \/ ReceiveSignal
  <2> UNCHANGED reconnecting /\ \A q \in Proc \ {Signal} : pc'[q] = pc[q]
    BY <1>6 DEF SignalStep, ReceiveSignal, MarkShutdown, ShutdownStopsMonitor,
       CloseHeartbeatStop, ShutdownCancels, ShutdownClosesRpc
  <2> QED OBVIOUS
<1>7. CASE RunWaits \/ RunReturns
  BY <1>7 DEF RunWaits, RunReturns
<1>8. CASE ReconnectorEnds
  BY <1>8 DEF ReconnectorEnds
<1>9. ASSUME NEW k \in ConnId, ReaderStep(k) \/ LinkLost(k) \/ RequestArrives(k) PROVE LatchInv'
  BY <1>9 DEF ReaderStep, ReaderEnds, HandlerReturns, LinkLost, RequestArrives
<1>10. ASSUME NEW p \in Callers, NEW r \in {"ok", "error"}, Answered(p, r) PROVE LatchInv'
  BY <1>10 DEF Answered
<1>11. CASE UNCHANGED vars
  BY <1>11 DEF vars
<1> QED
  BY <1>1, <1>2, <1>3, <1>4, <1>6, <1>7, <1>8, <1>9, <1>10, <1>11
  DEF Next, MainStep, ReconnectorStep, OnConnectedStep, HeartbeatStep, Environment, Connectors

\* At first nobody reconnects.
LEMMA LatchInit == Init => LatchInv
BY ProcFacts, ProcDistinct DEF Init, LatchInv, ConnectPC, ReconnectPC

\* forceReconnect never starts its goroutine while the previous one still runs.
THEOREM ReconnectorsDoNotOverlap == Spec => []NoReconnectorOverlap
<1> DEFINE Inv == TypeOK /\ AtMostOneSupervisor /\ LatchInv
<1>1. Init => Inv
  BY TypeInit, DutyInit, LatchInit
<1>2. Inv /\ [Next]_vars => Inv'
  BY TypeStep, DutyStep, LatchStep
<1>3. Inv => NoReconnectorOverlap
  BY DEF LatchInv, NoReconnectorOverlap
<1> QED BY <1>1, <1>2, <1>3, PTL DEF Spec

-----------------------------------------------------------------------------
(* The stop channel in c.heartbeatStop is open, except between the two     *)
(* assignments of forceReconnect and once Shutdown has begun.              *)

StopInv ==
  /\ exit = "panic" => isShutdown
  /\ \A c \in closedStop : c <= heartbeatStop
  /\ heartbeatStop \in closedStop =>
       isShutdown \/ \E p \in Callers : pc[p] = "renewStop"
  /\ pc[Signal] = "closeHeartbeat" => isShutdown

\* A stop channel is closed by its forceReconnect or by Shutdown, and replaced at once by
\* the former.
LEMMA StopStep ==
  TypeOK /\ AtMostOneSupervisor /\ StopInv /\ [Next]_vars => StopInv'
<1> SUFFICES ASSUME TypeOK, AtMostOneSupervisor, StopInv, [Next]_vars PROVE StopInv'
  OBVIOUS
<1> USE ProcFacts, ProcDistinct DEF StopInv, Goto
<1> /\ pc \in [Proc -> PC] /\ heartbeatStop \in Nat /\ closedStop \in SUBSET Nat
  BY DEF TypeOK
<1>0. ASSUME UNCHANGED <<exit, isShutdown, heartbeatStop, closedStop>>,
             pc'[Signal] = pc[Signal],
             \A p \in Callers : pc[p] = "renewStop" => pc'[p] = "renewStop"
      PROVE StopInv'
  BY <1>0
<1>1. ASSUME NEW p \in Connectors, ConnectStep(p) PROVE StopInv'
  <2> USE DEF stopVars, flags
  <2>1. CASE SetRpcConn(p)
    <3> DEFINE q == OnConnected(using[p])
    <3>1. pc[p] = "setConn" /\ pc' = [pc EXCEPT ![p] = "returned", ![q] = "call"]
      BY <2>1 DEF SetRpcConn
    <3>2. \A r \in Callers : pc[r] # "renewStop"
      BY <3>1 DEF AtMostOneSupervisor, Supervises, SupervisorPC, ConnectPC, ReconnectPC
    <3>3. UNCHANGED <<exit, isShutdown, heartbeatStop, closedStop>>
      BY <2>1 DEF SetRpcConn
    <3> QED BY <3>1, <3>2, <3>3, <1>0
  <2>2. CASE CheckShutdown(p) \/ DialRejected(p) \/ BackoffCancelled(p)
    <3>1. /\ exit' = "panic" => exit = "panic"
          /\ UNCHANGED <<isShutdown, heartbeatStop, closedStop>>
      BY <2>2 DEF CheckShutdown, DialRejected, BackoffCancelled, ConnectReturns, ExitsWith
    <3>2. \A q \in Proc \ {p} : pc'[q] = pc[q]
      BY <2>2 DEF CheckShutdown, DialRejected, BackoffCancelled, ConnectReturns
    <3> QED BY <3>1, <3>2 DEF Connectors
  <2>3. CASE DialSucceeds(p) \/ DialFails(p) \/ BackoffEnds(p) \/ SetWsConn(p)
    <3>1. UNCHANGED <<exit, isShutdown, heartbeatStop, closedStop>>
      BY <2>3 DEF DialSucceeds, DialFails, BackoffEnds, SetWsConn
    <3>2. \A q \in Proc \ {p} : pc'[q] = pc[q]
      BY <2>3 DEF DialSucceeds, DialFails, BackoffEnds, SetWsConn
    <3> QED BY <3>1, <3>2, <1>0 DEF Connectors
  <2> QED BY <1>1, <2>1, <2>2, <2>3 DEF ConnectStep
<1>2. ASSUME NEW p \in Callers, CallStep(p) PROVE StopInv'
  <2>1. UNCHANGED <<exit, isShutdown, heartbeatStop, closedStop>>
    BY <1>2 DEF CallStep, CallUnsent, CallSent, CallSucceeds, CallFails, stopVars, flags
  <2>2. pc[p] # "renewStop" /\ \A q \in Proc \ {p} : pc'[q] = pc[q]
    BY <1>2 DEF CallStep, CallUnsent, CallSent, CallSucceeds, CallFails, CallFailed
  <2> QED BY <2>1, <2>2, <1>0
<1>3. ASSUME NEW p \in Callers, ReconnectStep(p) PROVE StopInv'
  <2> USE DEF stopVars, flags
  <2>1. CASE StopMonitor(p)
    <3>1. \A q \in Callers : pc[q] # "renewStop"
      BY <2>1 DEF StopMonitor, AtMostOneSupervisor, Supervises, SupervisorPC, ReconnectPC
    <3>2. CASE heartbeatStop \in closedStop
      BY <2>1, <3>1, <3>2 DEF StopMonitor, CloseHeartbeatStop
    <3>3. CASE heartbeatStop \notin closedStop
      <4>1. /\ closedStop' = closedStop \cup {heartbeatStop} /\ pc'[p] = "renewStop"
            /\ UNCHANGED <<exit, isShutdown, heartbeatStop>> /\ pc'[Signal] = pc[Signal]
        BY <2>1, <3>3 DEF StopMonitor, CloseHeartbeatStop
      <4> QED BY <4>1
    <3> QED BY <3>2, <3>3
  <2>2. CASE RenewStop(p)
    BY <2>2 DEF RenewStop
  <2>3. CASE EnterReconnect(p) \/ CloseConn(p) \/ CloseRpc(p) \/ CancelContext(p)
    <3>1. UNCHANGED <<exit, isShutdown, heartbeatStop, closedStop>>
      BY <2>3 DEF EnterReconnect, CloseConn, CloseRpc, CancelContext
    <3>2. pc[p] # "renewStop" /\ \A q \in Proc \ {p} : pc'[q] = pc[q]
      BY <2>3 DEF EnterReconnect, CloseConn, CloseRpc, CancelContext
    <3> QED BY <3>1, <3>2, <1>0
  <2>4. CASE RenewContext(p)
    <3>1. /\ UNCHANGED <<exit, isShutdown, heartbeatStop, closedStop>>
          /\ pc[p] # "renewStop" /\ \A q \in Proc \ {p, Reconnector} : pc'[q] = pc[q]
      BY <2>4 DEF RenewContext
    <3> QED BY <3>1, <1>0
  <2> QED BY <1>3, <2>1, <2>2, <2>3, <2>4 DEF ReconnectStep
<1>4. ASSUME NEW k \in ConnId, StartHeartbeat(k) PROVE StopInv'
  <2>1. \A q \in Callers : pc[q] # "renewStop"
    BY <1>4 DEF StartHeartbeat, AtMostOneSupervisor, Supervises, SupervisorPC, CallPC, ReconnectPC
  <2>2. UNCHANGED <<exit, isShutdown, heartbeatStop, closedStop>> /\ pc'[Signal] = pc[Signal]
    BY <1>4 DEF StartHeartbeat, stopVars, flags
  <2> QED BY <2>1, <2>2, <1>0
<1>5. ASSUME NEW k \in ConnId, EnterSelect(k) \/ Tick(k) \/ HeartbeatStops(k) PROVE StopInv'
  <2>1. UNCHANGED <<exit, isShutdown, heartbeatStop, closedStop>>
    BY <1>5 DEF EnterSelect, Tick, HeartbeatStops, stopVars, flags
  <2>2. pc[Heartbeat(k)] # "renewStop" /\ \A q \in Proc \ {Heartbeat(k)} : pc'[q] = pc[q]
    BY <1>5 DEF EnterSelect, Tick, HeartbeatStops
  <2> QED BY <2>1, <2>2, <1>0
<1>6. CASE SignalStep \/ ReceiveSignal
  <2> USE DEF stopVars, flags
  <2>1. CASE ShutdownStopsMonitor
    <3>1. isShutdown' /\ pc[Signal] = "closeHeartbeat"
      BY <2>1 DEF ShutdownStopsMonitor
    <3>2. heartbeatStop' = heartbeatStop
          /\ (closedStop' = closedStop \/ closedStop' = closedStop \cup {heartbeatStop})
      BY <2>1 DEF ShutdownStopsMonitor, CloseHeartbeatStop
    <3>3. \A c \in closedStop' : c <= heartbeatStop'
      <4>1. heartbeatStop <= heartbeatStop
        OBVIOUS
      <4> QED BY <3>2, <4>1
    <3> QED BY <3>1, <3>3
  <2>2. CASE MarkShutdown
    BY <2>2 DEF MarkShutdown
  <2>3. CASE ReceiveSignal \/ ShutdownCancels \/ ShutdownClosesRpc
    BY <2>3 DEF ReceiveSignal, ShutdownCancels, ShutdownClosesRpc
  <2> QED BY <1>6, <2>1, <2>2, <2>3 DEF SignalStep
<1>7. CASE RunWaits \/ RunReturns \/ ReconnectorEnds
  <2>1. (exit' = "panic" => exit = "panic") /\ UNCHANGED <<isShutdown, heartbeatStop, closedStop>>
    BY <1>7 DEF RunWaits, RunReturns, ReconnectorEnds, ExitsWith, stopVars, flags
  <2>2. \A q \in Proc \ {Main, Reconnector} : pc'[q] = pc[q]
    BY <1>7 DEF RunWaits, RunReturns, ReconnectorEnds
  <2> QED BY <2>1, <2>2
<1>8. ASSUME NEW k \in ConnId, ReaderStep(k) \/ LinkLost(k) \/ RequestArrives(k) PROVE StopInv'
  BY <1>8, <1>0 DEF ReaderStep, ReaderEnds, HandlerReturns, LinkLost, RequestArrives, stopVars, flags
<1>9. ASSUME NEW p \in Callers, NEW r \in {"ok", "error"}, Answered(p, r) PROVE StopInv'
  BY <1>9, <1>0 DEF Answered, stopVars, flags
<1>10. CASE UNCHANGED vars
  BY <1>10, <1>0 DEF vars, stopVars, flags
<1> QED
  BY <1>1, <1>2, <1>3, <1>4, <1>5, <1>6, <1>7, <1>8, <1>9, <1>10
  DEF Next, MainStep, ReconnectorStep, OnConnectedStep, HeartbeatStep, Environment, Connectors

\* At first no stop channel is closed.
LEMMA StopInit == Init => StopInv
BY ProcFacts, ProcDistinct DEF Init, StopInv

\* However often the client reconnects, it closes each stop channel once: only a
\* Shutdown can make it panic.
THEOREM PanicNeedsShutdown == Spec => []PanicOnlyInShutdown
<1> DEFINE Inv == TypeOK /\ AtMostOneSupervisor /\ StopInv
<1>1. Init => Inv
  BY TypeInit, DutyInit, StopInit
<1>2. Inv /\ [Next]_vars => Inv'
  BY TypeStep, DutyStep, StopStep
<1>3. Inv => PanicOnlyInShutdown
  BY DEF StopInv, PanicOnlyInShutdown
<1> QED BY <1>1, <1>2, <1>3, PTL DEF Spec
=============================================================================
