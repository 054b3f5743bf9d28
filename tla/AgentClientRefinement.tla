----------------------- MODULE AgentClientRefinement -----------------------
(***************************************************************************)
(* AgentClient implements Supervision, for any set of connections.  At     *)
(* most one goroutine is at one of the places that make up a phase, so a   *)
(* step that moves it, or hands its duty on, determines the phase before   *)
(* and after (GoesOn, HandsOver, PhaseFacts).  What the guards of the      *)
(* abstract steps ask beyond that is in four more parts of the invariant:  *)
(* which connection is live (LinkInv), which goroutine belongs to which    *)
(* round (RoundInv), that a monitor selects on what is current (SelectInv) *)
(* and who has cancelled the current context (CancelInv).                  *)
(***************************************************************************)
EXTENDS AgentClientProofs

LinkInv ==
  /\ \A k \in ConnId : link[k] \in {"dialled", "open"} => k = conn
  /\ \A p \in Connectors : pc[p] \in {"check", "dial", "backoff"} => conn = NoConn
  /\ \A p \in Callers : pc[p] \in {"closeRpc", "cancel", "renewCtx"} => conn = NoConn
  /\ \A p \in Connectors : pc[p] \in {"setWs", "setConn"} => using[p] \in ConnId

\* Main connects in the first round only, the reconnector in later ones.
RoundInv ==
  /\ isShutdown \/ pc[Signal] # "idle" => gracefulShutdown
  /\ pc[Main] \in ConnectPC => ctx = 0
  /\ pc[Reconnector] # "idle" => ctx > 0
  /\ pc[Main] = "waiting" => waitCtx[Main] <= ctx
  /\ \A p \in Connectors : pc[p] = "backoff" => waitCtx[p] = ctx

SelectInv ==
  \A k \in ConnId : pc[Heartbeat(k)] = "select" =>
    waitCtx[Heartbeat(k)] = ctx /\ waitStop[Heartbeat(k)] = heartbeatStop

CancelInv ==
  /\ \A c \in cancelled : c <= ctx
  /\ pc[Signal] \notin {"idle", "mark"} => isShutdown
  /\ ctx \in cancelled => isShutdown \/ \E p \in Callers : pc[p] = "renewCtx"

IInv ==
  /\ TypeOK /\ AtMostOneSupervisor /\ LatchInv /\ StopInv
  /\ LinkInv /\ RoundInv /\ SelectInv /\ CancelInv

-----------------------------------------------------------------------------
(* The invariant.                                                          *)

\* Closing makes no connection usable, and that of a WebSocket makes it unusable.
LEMMA SocketCloses ==
  ASSUME NEW l \in [ConnId -> LinkState], NEW j
  PROVE  /\ CloseSocket(l, j) \in [ConnId -> LinkState]
         /\ CloseJsonrpc(l, j) \in [ConnId -> LinkState]
         /\ \A k \in ConnId :
              /\ CloseSocket(l, j)[k] \in {"dialled", "open"} =>
                   k # j /\ CloseSocket(l, j)[k] = l[k]
              /\ CloseJsonrpc(l, j)[k] \in {"dialled", "open"} =>
                   CloseJsonrpc(l, j)[k] = l[k]
BY DEF CloseSocket, CloseJsonrpc, LinkState

\* The only live connection is the one in Client.conn, and none is left when the next is
\* dialled.
LEMMA LinkStep == TypeOK /\ AtMostOneSupervisor /\ LinkInv /\ [Next]_vars => LinkInv'
<1> SUFFICES ASSUME TypeOK, AtMostOneSupervisor, LinkInv, [Next]_vars PROVE LinkInv'
  OBVIOUS
<1> USE ProcFacts, ProcDistinct DEF LinkInv, Goto, locals, ctxVars, stopVars, rpcVars, linkVars,
       flags
<1> /\ pc \in [Proc -> PC] /\ waitCtx \in [Proc -> Nat] /\ waitStop \in [Proc -> Nat]
    /\ ctx \in Nat /\ cancelled \in SUBSET Nat /\ heartbeatStop \in Nat
    /\ using \in [Proc -> ConnId \cup {NoConn}] /\ link \in [ConnId -> LinkState]
  BY DEF TypeOK
<1>1. ASSUME NEW p \in Connectors, ConnectStep(p) PROVE LinkInv'
  <2>1. CASE DialSucceeds(p)
    <3>1. conn = NoConn /\ \A k \in ConnId : link[k] \notin {"dialled", "open"}
      BY <2>1, NoConnAssumption DEF DialSucceeds
    <3>2. /\ \A q \in Connectors : q # p => pc[q] \notin {"check", "dial", "backoff"}
          /\ \A q \in Callers : pc[q] \notin {"closeRpc", "cancel", "renewCtx"}
      BY <2>1 DEF DialSucceeds, AtMostOneSupervisor, Supervises, SupervisorPC, ConnectPC,
         ReconnectPC
    <3>3. /\ pc' = [pc EXCEPT ![p] = "setWs"] /\ conn' \in ConnId
          /\ link' = [link EXCEPT ![conn'] = "dialled"]
          /\ using' = [using EXCEPT ![p] = conn']
      BY <2>1 DEF DialSucceeds, Unused
    <3> QED BY <3>1, <3>2, <3>3
  <2>2. CASE CheckShutdown(p) \/ DialRejected(p) \/ DialFails(p)
    BY <2>2 DEF CheckShutdown, ConnectReturns, ExitsWith, DialRejected, DialFails
  <2>3. CASE BackoffEnds(p) \/ BackoffCancelled(p) \/ SetWsConn(p)
    BY <2>3 DEF BackoffEnds, BackoffCancelled, ConnectReturns, ExitsWith, SetWsConn
  <2>4. CASE SetRpcConn(p)
    BY <2>4 DEF SetRpcConn
  <2> QED BY <1>1, <2>1, <2>2, <2>3, <2>4 DEF ConnectStep
<1>2. ASSUME NEW p \in Callers, CallStep(p) PROVE LinkInv'
  <2>1. CASE CallUnsent(p) \/ CallSent(p) \/ CallSucceeds(p)
    BY <2>1 DEF CallUnsent, CallFailed, CallSent, CallSucceeds, CallOver
  <2>2. CASE CallFails(p)
    BY <2>2 DEF CallFails, CallOver, CallFailed
  <2> QED BY <1>2, <2>1, <2>2 DEF CallStep
<1>3. ASSUME NEW p \in Callers, ReconnectStep(p) PROVE LinkInv'
  <2>1. CASE CloseConn(p)
    <3>1. conn' = NoConn /\ link' = CloseSocket(link, conn)
          /\ UNCHANGED using /\ pc' = [pc EXCEPT ![p] = "closeRpc"]
      BY <2>1 DEF CloseConn
    <3>2. \A k \in ConnId : link'[k] \notin {"dialled", "open"}
      BY <3>1, SocketCloses
    <3> QED BY <3>1, <3>2
  <2>2. CASE CloseRpc(p)
    <3>1. \A k \in ConnId : link'[k] \in {"dialled", "open"} => link'[k] = link[k]
      BY <2>2, SocketCloses DEF CloseRpc, CloseRpcClient
    <3>2. UNCHANGED <<conn, using>> /\ pc[p] = "closeRpc" /\ pc' = [pc EXCEPT ![p] = "cancel"]
      BY <2>2 DEF CloseRpc
    <3> QED BY <2>2, <3>1, <3>2
  <2>3. CASE EnterReconnect(p) \/ StopMonitor(p) \/ RenewStop(p)
    BY <2>3 DEF EnterReconnect, StopMonitor, CloseHeartbeatStop, RenewStop
  <2>4. CASE CancelContext(p) \/ RenewContext(p)
    BY <2>4 DEF CancelContext, RenewContext
  <2> QED BY <1>3, <2>1, <2>2, <2>3, <2>4 DEF ReconnectStep
<1>4. ASSUME NEW k \in ConnId, StartHeartbeat(k) \/ EnterSelect(k) \/ Tick(k) \/ HeartbeatStops(k)
      PROVE LinkInv'
  <2>1. CASE StartHeartbeat(k) \/ EnterSelect(k) \/ Tick(k)
    BY <2>1 DEF StartHeartbeat, EnterSelect, Tick
  <2>2. CASE HeartbeatStops(k)
    BY <2>2 DEF HeartbeatStops
  <2> QED BY <1>4, <2>1, <2>2
<1>5. CASE SignalStep \/ ReceiveSignal
  <2>1. CASE ShutdownClosesRpc
    <3>1. \A k \in ConnId : link'[k] \in {"dialled", "open"} => link'[k] = link[k]
      BY <2>1, SocketCloses DEF ShutdownClosesRpc, CloseRpcClient
    <3>2. UNCHANGED <<conn, using>> /\ pc' = [pc EXCEPT ![Signal] = "done"]
      BY <2>1 DEF ShutdownClosesRpc
    <3> QED BY <2>1, <3>1, <3>2
  <2>2. CASE ReceiveSignal \/ MarkShutdown \/ ShutdownStopsMonitor
    BY <2>2 DEF ReceiveSignal, MarkShutdown, ShutdownStopsMonitor, CloseHeartbeatStop
  <2>3. CASE ShutdownCancels
    BY <2>3 DEF ShutdownCancels
  <2> QED BY <1>5, <2>1, <2>2, <2>3 DEF SignalStep
<1>6. CASE RunWaits \/ RunReturns \/ ReconnectorEnds
  <2>1. CASE RunWaits \/ RunReturns \/ ReconnectorEnds
    BY <2>1 DEF RunWaits, RunReturns, ExitsWith, ReconnectorEnds
  <2> QED BY <1>6, <2>1
<1>7. ASSUME NEW k \in ConnId, ReaderStep(k) \/ LinkLost(k) \/ RequestArrives(k)
      PROVE LinkInv'
  <2>1. CASE ReaderEnds(k) \/ HandlerReturns(k) \/ LinkLost(k)
    BY <2>1 DEF ReaderEnds, HandlerReturns, LinkLost
  <2>2. CASE RequestArrives(k)
    BY <2>2 DEF RequestArrives
  <2> QED BY <1>7, <2>1, <2>2 DEF ReaderStep
<1>8. ASSUME NEW p \in Callers, NEW r \in {"ok", "error"}, Answered(p, r) PROVE LinkInv'
  BY <1>8 DEF Answered
<1>9. CASE UNCHANGED vars
  BY <1>9 DEF vars
<1> QED
  BY <1>1, <1>2, <1>3, <1>4, <1>5, <1>6, <1>7, <1>8, <1>9
  DEF Next, MainStep, ReconnectorStep, OnConnectedStep, HeartbeatStep, Environment, Connectors

\* The contexts number the rounds; who connects or waits belongs to the one of its kind.
LEMMA RoundStep == TypeOK /\ AtMostOneSupervisor /\ RoundInv /\ [Next]_vars => RoundInv'
<1> SUFFICES ASSUME TypeOK, AtMostOneSupervisor, RoundInv, [Next]_vars PROVE RoundInv'
  OBVIOUS
<1> USE ProcFacts, ProcDistinct DEF RoundInv, ConnectPC, Goto, locals, ctxVars, stopVars,
       rpcVars, linkVars, flags
<1> /\ pc \in [Proc -> PC] /\ waitCtx \in [Proc -> Nat] /\ waitStop \in [Proc -> Nat]
    /\ ctx \in Nat /\ cancelled \in SUBSET Nat /\ heartbeatStop \in Nat
    /\ using \in [Proc -> ConnId \cup {NoConn}] /\ link \in [ConnId -> LinkState]
  BY DEF TypeOK
<1>1. ASSUME NEW p \in Connectors, ConnectStep(p) PROVE RoundInv'
  <2>1. CASE SetRpcConn(p)
    <3> DEFINE q == OnConnected(using[p])
    <3>1. pc[p] = "setConn" /\ pc' = [pc EXCEPT ![p] = "returned", ![q] = "call"]
      BY <2>1 DEF SetRpcConn
    <3>2. UNCHANGED <<ctx, waitCtx, isShutdown, gracefulShutdown>>
          /\ q \notin Connectors /\ q # Signal
      BY <2>1 DEF SetRpcConn
    <3>3. /\ pc'[Signal] = pc[Signal]
          /\ \A r \in Connectors : pc'[r] = pc[r] \/ (r = p /\ pc'[r] = "returned")
      BY <3>1, <3>2 DEF Connectors
    <3>4. Main \in Connectors /\ Reconnector \in Connectors
      BY DEF Connectors
    <3>5. \A r \in Connectors : pc'[r] \in ConnectPC \cup {"waiting", "idle"} => pc'[r] = pc[r]
      BY <3>3 DEF ConnectPC
    <3> HIDE DEF Connectors, ConnectPC, q
    <3>6. pc[Reconnector] = "idle" => pc'[Reconnector] = "idle"
      BY <3>1, <3>3, <3>4
    <3> QED BY <3>2, <3>3, <3>4, <3>5, <3>6 DEF ConnectPC
  <2>2. CASE CheckShutdown(p) \/ DialSucceeds(p) \/ DialRejected(p)
    BY <2>2 DEF CheckShutdown, ConnectReturns, ExitsWith, DialSucceeds, DialRejected
  <2>3. CASE DialFails(p) \/ BackoffEnds(p) \/ BackoffCancelled(p)
    BY <2>3 DEF DialFails, BackoffEnds, BackoffCancelled, ConnectReturns, ExitsWith
  <2>4. CASE SetWsConn(p)
    BY <2>4 DEF SetWsConn
  <2> QED BY <1>1, <2>1, <2>2, <2>3, <2>4 DEF ConnectStep
<1>2. ASSUME NEW p \in Callers, CallStep(p) PROVE RoundInv'
  <2>1. CASE CallUnsent(p) \/ CallSent(p) \/ CallSucceeds(p)
    BY <2>1 DEF CallUnsent, CallFailed, CallSent, CallSucceeds, CallOver
  <2>2. CASE CallFails(p)
    BY <2>2 DEF CallFails, CallOver, CallFailed
  <2> QED BY <1>2, <2>1, <2>2 DEF CallStep
<1>3. ASSUME NEW p \in Callers, ReconnectStep(p) PROVE RoundInv'
  <2>1. CASE RenewContext(p)
    <3>1. \A q \in Connectors : pc[q] \notin ConnectPC
      BY <2>1 DEF RenewContext, AtMostOneSupervisor, Supervises, SupervisorPC,
         ReconnectPC, Connectors
    <3>2. /\ ctx' = ctx + 1 /\ pc' = [pc EXCEPT ![p] = "done", ![Reconnector] = "check"]
          /\ UNCHANGED <<waitCtx, isShutdown, gracefulShutdown>>
      BY <2>1 DEF RenewContext
    <3>3. pc'[Main] = pc[Main] /\ pc'[Signal] = pc[Signal] /\ pc'[Reconnector] = "check"
      BY <3>2
    <3> QED BY <3>1, <3>2, <3>3 DEF Connectors
  <2>2. CASE EnterReconnect(p) \/ StopMonitor(p) \/ RenewStop(p)
    BY <2>2 DEF EnterReconnect, StopMonitor, CloseHeartbeatStop, RenewStop
  <2>3. CASE CloseConn(p) \/ CloseRpc(p) \/ CancelContext(p)
    BY <2>3 DEF CloseConn, CloseRpc, CloseRpcClient, CancelContext
  <2> QED BY <1>3, <2>1, <2>2, <2>3 DEF ReconnectStep
<1>4. ASSUME NEW k \in ConnId, StartHeartbeat(k) \/ EnterSelect(k) \/ Tick(k) \/ HeartbeatStops(k)
      PROVE RoundInv'
  <2>1. CASE StartHeartbeat(k) \/ EnterSelect(k) \/ Tick(k)
    BY <2>1 DEF StartHeartbeat, EnterSelect, Tick
  <2>2. CASE HeartbeatStops(k)
    BY <2>2 DEF HeartbeatStops
  <2> QED BY <1>4, <2>1, <2>2
<1>5. CASE SignalStep \/ ReceiveSignal
  <2>1. CASE ReceiveSignal \/ MarkShutdown \/ ShutdownStopsMonitor
    BY <2>1 DEF ReceiveSignal, MarkShutdown, ShutdownStopsMonitor, CloseHeartbeatStop
  <2>2. CASE ShutdownCancels \/ ShutdownClosesRpc
    BY <2>2 DEF ShutdownCancels, ShutdownClosesRpc, CloseRpcClient
  <2> QED BY <1>5, <2>1, <2>2 DEF SignalStep
<1>6. CASE RunWaits \/ RunReturns \/ ReconnectorEnds
  <2>1. CASE RunWaits \/ RunReturns \/ ReconnectorEnds
    BY <2>1 DEF RunWaits, RunReturns, ExitsWith, ReconnectorEnds
  <2> QED BY <1>6, <2>1
<1>7. ASSUME NEW k \in ConnId, ReaderStep(k) \/ LinkLost(k) \/ RequestArrives(k)
      PROVE RoundInv'
  <2>1. CASE ReaderEnds(k) \/ HandlerReturns(k) \/ LinkLost(k)
    BY <2>1 DEF ReaderEnds, HandlerReturns, LinkLost
  <2>2. CASE RequestArrives(k)
    BY <2>2 DEF RequestArrives
  <2> QED BY <1>7, <2>1, <2>2 DEF ReaderStep
<1>8. ASSUME NEW p \in Callers, NEW r \in {"ok", "error"}, Answered(p, r) PROVE RoundInv'
  BY <1>8 DEF Answered
<1>9. CASE UNCHANGED vars
  BY <1>9 DEF vars
<1> QED
  BY <1>1, <1>2, <1>3, <1>4, <1>5, <1>6, <1>7, <1>8, <1>9
  DEF Next, MainStep, ReconnectorStep, OnConnectedStep, HeartbeatStep, Environment, Connectors

\* Neither the stop channel nor the context is replaced under a monitor's select.
LEMMA SelectStep == TypeOK /\ AtMostOneSupervisor /\ SelectInv /\ [Next]_vars => SelectInv'
<1> SUFFICES ASSUME TypeOK, AtMostOneSupervisor, SelectInv, [Next]_vars PROVE SelectInv'
  OBVIOUS
<1> USE ProcFacts, ProcDistinct DEF SelectInv, Goto, locals, ctxVars, stopVars, rpcVars,
       linkVars, flags
<1> /\ pc \in [Proc -> PC] /\ waitCtx \in [Proc -> Nat] /\ waitStop \in [Proc -> Nat]
    /\ ctx \in Nat /\ cancelled \in SUBSET Nat /\ heartbeatStop \in Nat
    /\ using \in [Proc -> ConnId \cup {NoConn}] /\ link \in [ConnId -> LinkState]
  BY DEF TypeOK
<1>1. ASSUME NEW p \in Connectors, ConnectStep(p) PROVE SelectInv'
  <2>1. CASE CheckShutdown(p) \/ DialSucceeds(p) \/ DialRejected(p)
    BY <2>1 DEF CheckShutdown, ConnectReturns, ExitsWith, DialSucceeds, DialRejected
  <2>2. CASE DialFails(p) \/ BackoffEnds(p) \/ BackoffCancelled(p)
    BY <2>2 DEF DialFails, BackoffEnds, BackoffCancelled, ConnectReturns, ExitsWith
  <2>3. CASE SetWsConn(p) \/ SetRpcConn(p)
    BY <2>3 DEF SetWsConn, SetRpcConn
  <2> QED BY <1>1, <2>1, <2>2, <2>3 DEF ConnectStep
<1>2. ASSUME NEW p \in Callers, CallStep(p) PROVE SelectInv'
  <2>1. CASE CallUnsent(p) \/ CallSent(p) \/ CallSucceeds(p)
    BY <2>1 DEF CallUnsent, CallFailed, CallSent, CallSucceeds, CallOver
  <2>2. CASE CallFails(p)
    BY <2>2 DEF CallFails, CallOver, CallFailed
  <2> QED BY <1>2, <2>1, <2>2 DEF CallStep
<1>3. ASSUME NEW p \in Callers, ReconnectStep(p) PROVE SelectInv'
  <2>1. CASE RenewStop(p)
    <3>1. \A k \in ConnId : pc[Heartbeat(k)] # "select"
      BY <2>1 DEF RenewStop, AtMostOneSupervisor, Supervises, SupervisorPC, ReconnectPC, CallPC
    <3>2. \A k \in ConnId : pc'[Heartbeat(k)] # "select"
      BY <2>1, <3>1 DEF RenewStop
    <3> QED BY <3>2
  <2>2. CASE RenewContext(p)
    <3>1. \A k \in ConnId : pc[Heartbeat(k)] # "select"
      BY <2>2 DEF RenewContext, AtMostOneSupervisor, Supervises, SupervisorPC, ReconnectPC, CallPC
    <3>2. \A k \in ConnId : pc'[Heartbeat(k)] # "select"
      BY <2>2, <3>1 DEF RenewContext
    <3> QED BY <3>2
  <2>3. CASE EnterReconnect(p) \/ StopMonitor(p) \/ CloseConn(p)
    BY <2>3 DEF EnterReconnect, StopMonitor, CloseHeartbeatStop, CloseConn
  <2>4. CASE CloseRpc(p) \/ CancelContext(p)
    BY <2>4 DEF CloseRpc, CloseRpcClient, CancelContext
  <2> QED BY <1>3, <2>1, <2>2, <2>3, <2>4 DEF ReconnectStep
<1>4. ASSUME NEW k \in ConnId, StartHeartbeat(k) \/ EnterSelect(k) \/ Tick(k) \/ HeartbeatStops(k)
      PROVE SelectInv'
  <2>1. CASE StartHeartbeat(k) \/ EnterSelect(k) \/ Tick(k)
    BY <2>1 DEF StartHeartbeat, EnterSelect, Tick
  <2>2. CASE HeartbeatStops(k)
    BY <2>2 DEF HeartbeatStops
  <2> QED BY <1>4, <2>1, <2>2
<1>5. CASE SignalStep \/ ReceiveSignal
  <2>1. CASE ReceiveSignal \/ MarkShutdown \/ ShutdownStopsMonitor
    BY <2>1 DEF ReceiveSignal, MarkShutdown, ShutdownStopsMonitor, CloseHeartbeatStop
  <2>2. CASE ShutdownCancels \/ ShutdownClosesRpc
    BY <2>2 DEF ShutdownCancels, ShutdownClosesRpc, CloseRpcClient
  <2> QED BY <1>5, <2>1, <2>2 DEF SignalStep
<1>6. CASE RunWaits \/ RunReturns \/ ReconnectorEnds
  <2>1. CASE RunWaits \/ RunReturns \/ ReconnectorEnds
    BY <2>1 DEF RunWaits, RunReturns, ExitsWith, ReconnectorEnds
  <2> QED BY <1>6, <2>1
<1>7. ASSUME NEW k \in ConnId, ReaderStep(k) \/ LinkLost(k) \/ RequestArrives(k)
      PROVE SelectInv'
  <2>1. CASE ReaderEnds(k) \/ HandlerReturns(k) \/ LinkLost(k)
    BY <2>1 DEF ReaderEnds, HandlerReturns, LinkLost
  <2>2. CASE RequestArrives(k)
    BY <2>2 DEF RequestArrives
  <2> QED BY <1>7, <2>1, <2>2 DEF ReaderStep
<1>8. ASSUME NEW p \in Callers, NEW r \in {"ok", "error"}, Answered(p, r) PROVE SelectInv'
  BY <1>8 DEF Answered
<1>9. CASE UNCHANGED vars
  BY <1>9 DEF vars
<1> QED
  BY <1>1, <1>2, <1>3, <1>4, <1>5, <1>6, <1>7, <1>8, <1>9
  DEF Next, MainStep, ReconnectorStep, OnConnectedStep, HeartbeatStep, Environment, Connectors

\* The current context is cancelled only in forceReconnect, about to replace it, and in
\* Shutdown.
LEMMA CancelStep == TypeOK /\ AtMostOneSupervisor /\ CancelInv /\ [Next]_vars => CancelInv'
<1> SUFFICES ASSUME TypeOK, AtMostOneSupervisor, CancelInv, [Next]_vars PROVE CancelInv'
  OBVIOUS
<1> USE ProcFacts, ProcDistinct DEF CancelInv, Goto, locals, ctxVars, stopVars, rpcVars,
       linkVars, flags
<1> /\ pc \in [Proc -> PC] /\ waitCtx \in [Proc -> Nat] /\ waitStop \in [Proc -> Nat]
    /\ ctx \in Nat /\ cancelled \in SUBSET Nat /\ heartbeatStop \in Nat
    /\ using \in [Proc -> ConnId \cup {NoConn}] /\ link \in [ConnId -> LinkState]
  BY DEF TypeOK
<1>1. ASSUME NEW p \in Connectors, ConnectStep(p) PROVE CancelInv'
  <2>1. CASE SetRpcConn(p)
    <3>1. \A q \in Callers : pc[q] # "renewCtx"
      BY <2>1 DEF SetRpcConn, AtMostOneSupervisor, Supervises, SupervisorPC,
         ReconnectPC, ConnectPC, CallPC
    <3>2. UNCHANGED <<ctx, cancelled, isShutdown>> /\ pc'[Signal] = pc[Signal]
      BY <2>1 DEF SetRpcConn, Connectors
    <3> QED BY <3>1, <3>2
  <2>2. CASE CheckShutdown(p)
    BY <2>2 DEF CheckShutdown, ConnectReturns, ExitsWith
  <2>3. CASE DialSucceeds(p)
    BY <2>3 DEF DialSucceeds
  <2>4. CASE DialRejected(p)
    BY <2>4 DEF DialRejected, ConnectReturns, ExitsWith
  <2>5. CASE DialFails(p)
    BY <2>5 DEF DialFails
  <2>6. CASE BackoffEnds(p)
    BY <2>6 DEF BackoffEnds
  <2>7. CASE BackoffCancelled(p)
    BY <2>7 DEF BackoffCancelled, ConnectReturns, ExitsWith
  <2>8. CASE SetWsConn(p)
    BY <2>8 DEF SetWsConn
  <2> QED BY <1>1, <2>1, <2>2, <2>3, <2>4, <2>5, <2>6, <2>7, <2>8 DEF ConnectStep
<1>2. ASSUME NEW p \in Callers, CallStep(p) PROVE CancelInv'
  <2>1. CASE CallUnsent(p)
    BY <2>1 DEF CallUnsent, CallFailed
  <2>2. CASE CallSent(p)
    BY <2>2 DEF CallSent
  <2>3. CASE CallSucceeds(p)
    BY <2>3 DEF CallSucceeds, CallOver
  <2>4. CASE CallFails(p)
    BY <2>4 DEF CallFails, CallOver, CallFailed
  <2> QED BY <1>2, <2>1, <2>2, <2>3, <2>4 DEF CallStep
<1>3. ASSUME NEW p \in Callers, ReconnectStep(p) PROVE CancelInv'
  <2>1. CASE EnterReconnect(p)
    BY <2>1 DEF EnterReconnect
  <2>2. CASE StopMonitor(p)
    BY <2>2 DEF StopMonitor, CloseHeartbeatStop
  <2>3. CASE RenewStop(p)
    BY <2>3 DEF RenewStop
  <2>4. CASE CloseConn(p)
    BY <2>4 DEF CloseConn
  <2>5. CASE CloseRpc(p)
    BY <2>5 DEF CloseRpc, CloseRpcClient
  <2>6. CASE CancelContext(p)
    BY <2>6 DEF CancelContext
  <2>7. CASE RenewContext(p)
    BY <2>7 DEF RenewContext
  <2> QED BY <1>3, <2>1, <2>2, <2>3, <2>4, <2>5, <2>6, <2>7 DEF ReconnectStep
<1>4. ASSUME NEW k \in ConnId, StartHeartbeat(k) \/ EnterSelect(k) \/ Tick(k) \/ HeartbeatStops(k)
      PROVE CancelInv'
  <2>1. CASE StartHeartbeat(k)
    <3>1. \A q \in Callers : pc[q] # "renewCtx"
      BY <2>1 DEF StartHeartbeat, AtMostOneSupervisor, Supervises, SupervisorPC,
         ReconnectPC, ConnectPC, CallPC
    <3>2. UNCHANGED <<ctx, cancelled, isShutdown>> /\ pc'[Signal] = pc[Signal]
      BY <2>1 DEF StartHeartbeat, Connectors
    <3> QED BY <3>1, <3>2
  <2>2. CASE EnterSelect(k)
    BY <2>2 DEF EnterSelect
  <2>3. CASE Tick(k)
    BY <2>3 DEF Tick
  <2>4. CASE HeartbeatStops(k)
    BY <2>4 DEF HeartbeatStops
  <2> QED BY <1>4, <2>1, <2>2, <2>3, <2>4
<1>5. CASE SignalStep \/ ReceiveSignal
  <2>1. CASE ShutdownCancels
    <3>1. isShutdown' /\ ctx' = ctx /\ cancelled' = cancelled \cup {ctx}
      BY <2>1 DEF ShutdownCancels
    <3> QED BY <3>1
  <2>2. CASE ReceiveSignal
    BY <2>2 DEF ReceiveSignal
  <2>3. CASE MarkShutdown
    BY <2>3 DEF MarkShutdown
  <2>4. CASE ShutdownStopsMonitor
    BY <2>4 DEF ShutdownStopsMonitor, CloseHeartbeatStop
  <2>5. CASE ShutdownClosesRpc
    BY <2>5 DEF ShutdownClosesRpc, CloseRpcClient
  <2> QED BY <1>5, <2>1, <2>2, <2>3, <2>4, <2>5 DEF SignalStep
<1>6. CASE RunWaits \/ RunReturns \/ ReconnectorEnds
  <2>1. CASE RunWaits
    BY <2>1 DEF RunWaits
  <2>2. CASE RunReturns
    BY <2>2 DEF RunReturns, ExitsWith
  <2>3. CASE ReconnectorEnds
    BY <2>3 DEF ReconnectorEnds
  <2> QED BY <1>6, <2>1, <2>2, <2>3
<1>7. ASSUME NEW k \in ConnId, ReaderStep(k) \/ LinkLost(k) \/ RequestArrives(k)
      PROVE CancelInv'
  <2>1. CASE ReaderEnds(k)
    BY <2>1 DEF ReaderEnds
  <2>2. CASE HandlerReturns(k)
    BY <2>2 DEF HandlerReturns
  <2>3. CASE LinkLost(k)
    BY <2>3 DEF LinkLost
  <2>4. CASE RequestArrives(k)
    BY <2>4 DEF RequestArrives
  <2> QED BY <1>7, <2>1, <2>2, <2>3, <2>4 DEF ReaderStep
<1>8. ASSUME NEW p \in Callers, NEW r \in {"ok", "error"}, Answered(p, r) PROVE CancelInv'
  BY <1>8 DEF Answered
<1>9. CASE UNCHANGED vars
  BY <1>9 DEF vars
<1> QED
  BY <1>1, <1>2, <1>3, <1>4, <1>5, <1>6, <1>7, <1>8, <1>9
  DEF Next, MainStep, ReconnectorStep, OnConnectedStep, HeartbeatStep, Environment, Connectors

\* At first there is no connection, one round and no cancellation.
LEMMA ContextInit == Init => LinkInv /\ RoundInv /\ SelectInv /\ CancelInv
<1> USE ProcFacts, ProcDistinct
<1>1. ASSUME Init PROVE LinkInv /\ RoundInv
  BY <1>1 DEF Init, LinkInv, RoundInv, Connectors
<1>2. ASSUME Init PROVE SelectInv /\ CancelInv
  BY <1>2 DEF Init, SelectInv, CancelInv
<1> QED BY <1>1, <1>2

\* The whole invariant is inductive.
LEMMA Inductive == Spec => []IInv
<1>1. Init => IInv
  BY TypeInit, DutyInit, LatchInit, StopInit, ContextInit DEF IInv
<1>2. IInv /\ [Next]_vars => IInv'
  BY TypeStep, DutyStep, LatchStep, StopStep, LinkStep, RoundStep, SelectStep, CancelStep DEF IInv
<1> QED BY <1>1, <1>2, PTL DEF Spec

\* forceReconnect closes the old connection, wherever it is stored, before the next is
\* dialled: no two connections are usable at a time.
THEOREM OneLiveLink == Spec => []AtMostOneLiveLink
<1>1. IInv => AtMostOneLiveLink
  BY DEF IInv, LinkInv, AtMostOneLiveLink
<1> QED BY <1>1, Inductive, PTL

-----------------------------------------------------------------------------
(* When a failure may be dropped.                                          *)

\* The latch is held by a goroutine that will clear it; and one that was rejected leaves
\* nobody to look after a connection.
WindowInv ==
  /\ reconnecting => \/ pc[Reconnector] \notin {"idle", "gaveUp"}
                     \/ \E p \in Callers : pc[p] \in ReconnectPC
  /\ pc[Reconnector] = "rejected" => \A p \in Proc : pc[p] \notin SupervisorPC

\* Both are kept: the latch passes from forceReconnect to its goroutine, and only a
\* goroutine that supervises makes another one supervise.
LEMMA WindowStep ==
  TypeOK /\ AtMostOneSupervisor /\ LatchInv /\ WindowInv /\ [Next]_vars => WindowInv'
<1> SUFFICES ASSUME TypeOK, AtMostOneSupervisor, LatchInv, WindowInv, [Next]_vars
             PROVE  WindowInv'
  OBVIOUS
<1> USE ProcFacts, ProcDistinct DEF WindowInv, Goto, flags
<1> pc \in [Proc -> PC]
  BY DEF TypeOK
<1>a. ASSUME NEW p \in Proc, pc[p] \in SupervisorPC
      PROVE  /\ pc[Reconnector] # "rejected"
             /\ \A q \in Proc : q # p => pc[q] \notin SupervisorPC
  BY <1>a DEF AtMostOneSupervisor, Supervises
<1>b. /\ ConnectPC \cup ReconnectPC \cup CallPC = SupervisorPC
      /\ {"returned", "rejected", "idle", "gaveUp", "done", "skipped", "none", "waiting"}
           \cap SupervisorPC = {}
  BY DEF SupervisorPC, ConnectPC, ReconnectPC, CallPC
<1>1. ASSUME NEW p \in Connectors, ConnectStep(p) PROVE WindowInv'
  <2> p \in {Main, Reconnector} /\ p \in Proc /\ p \notin Callers
    BY DEF Connectors
  <2>1. pc[p] \in ConnectPC /\ UNCHANGED reconnecting
    BY <1>1 DEF ConnectStep, CheckShutdown, DialSucceeds, DialRejected, DialFails, BackoffEnds,
       BackoffCancelled, SetWsConn, SetRpcConn, ConnectPC
  <2>2. \/ \E l \in ConnectPC \cup {"returned", "rejected", "done"} :
             pc' = [pc EXCEPT ![p] = l] /\ (l = "done" => p = Main) /\ (l = "rejected" => p = Reconnector)
        \/ \E k : pc' = [pc EXCEPT ![p] = "returned", ![OnConnected(k)] = "call"]
    <3>1. CASE CheckShutdown(p) BY <3>1 DEF CheckShutdown, ConnectReturns, ConnectPC
    <3>2. CASE DialSucceeds(p) \/ DialFails(p) BY <3>2 DEF DialSucceeds, DialFails, ConnectPC
    <3>3. CASE DialRejected(p) BY <3>3 DEF DialRejected, ConnectReturns
    <3>4. CASE BackoffCancelled(p) BY <3>4 DEF BackoffCancelled, ConnectReturns
    <3>5. CASE BackoffEnds(p) \/ SetWsConn(p) BY <3>5 DEF BackoffEnds, SetWsConn, ConnectPC
    <3>6. CASE SetRpcConn(p) BY <3>6 DEF SetRpcConn
    <3> QED BY <1>1, <3>1, <3>2, <3>3, <3>4, <3>5, <3>6 DEF ConnectStep
  <2>3. pc[Reconnector] # "rejected" /\ \A q \in Proc : q # p => pc[q] \notin SupervisorPC
    BY <1>a, <1>b, <2>1
  <2>4. \A q \in Callers : pc[q] \notin ReconnectPC
    BY <2>3, <1>b
  <2> QED BY <1>b, <2>1, <2>2, <2>3, <2>4
<1>2. ASSUME NEW p \in Callers, CallStep(p) PROVE WindowInv'
  <2>1. pc[p] \in CallPC /\ UNCHANGED reconnecting
        /\ \E l \in CallPC : pc' = [pc EXCEPT ![p] = l]
    BY <1>2 DEF CallStep, CallUnsent, CallSent, CallSucceeds, CallFails, CallFailed, CallPC
  <2>2. pc[Reconnector] # "rejected" /\ pc[p] \notin ReconnectPC
    BY <1>a, <1>b, <2>1 DEF CallPC, ReconnectPC
  <2> QED BY <2>1, <2>2
<1>3. ASSUME NEW p \in Callers, ReconnectStep(p) PROVE WindowInv'
  <2>1. CASE EnterReconnect(p)
    <3>1. pc[Reconnector] # "rejected" /\ pc[p] \notin ReconnectPC
      BY <2>1, <1>a, <1>b DEF EnterReconnect, CallPC, ReconnectPC
    <3> QED BY <2>1, <3>1 DEF EnterReconnect, ReconnectPC
  <2>2. CASE RenewContext(p)
    <3>1. pc' = [pc EXCEPT ![p] = "done", ![Reconnector] = "check"]
      BY <2>2 DEF RenewContext
    <3> QED BY <3>1
  <2>3. CASE StopMonitor(p) \/ RenewStop(p) \/ CloseConn(p) \/ CloseRpc(p) \/ CancelContext(p)
    <3>1. pc[p] \in ReconnectPC /\ UNCHANGED reconnecting
          /\ (UNCHANGED pc \/ \E l \in ReconnectPC : pc' = [pc EXCEPT ![p] = l])
      BY <2>3 DEF StopMonitor, CloseHeartbeatStop, RenewStop, CloseConn, CloseRpc, CancelContext,
         ReconnectPC
    <3>2. pc[Reconnector] # "rejected"
      BY <3>1, <1>a, <1>b
    <3> QED BY <3>1, <3>2
  <2> QED BY <1>3, <2>1, <2>2, <2>3 DEF ReconnectStep
<1>4. ASSUME NEW k \in ConnId, StartHeartbeat(k) \/ EnterSelect(k) \/ Tick(k) \/ HeartbeatStops(k)
      PROVE WindowInv'
  <2>1. PICK p \in Callers : pc[p] \in CallPC
    BY <1>4 DEF StartHeartbeat, EnterSelect, Tick, HeartbeatStops, CallPC
  <2>2. pc[Reconnector] # "rejected" /\ \A q \in Callers : pc[q] \notin ReconnectPC
    BY <2>1, <1>a, <1>b DEF CallPC, ReconnectPC
  <2>3. UNCHANGED reconnecting /\ pc'[Reconnector] = pc[Reconnector]
    BY <1>4 DEF StartHeartbeat, EnterSelect, Tick, HeartbeatStops
  <2> QED BY <2>2, <2>3
<1>5. CASE SignalStep \/ ReceiveSignal
  <2>1. UNCHANGED reconnecting
        /\ (UNCHANGED pc \/ \E l \in {"mark", "closeHeartbeat", "cancelCtx", "shutRpc", "done"} :
              pc' = [pc EXCEPT ![Signal] = l])
    BY <1>5 DEF SignalStep, ReceiveSignal, MarkShutdown, ShutdownStopsMonitor,
       CloseHeartbeatStop, ShutdownCancels, ShutdownClosesRpc
  <2>2. {"mark", "closeHeartbeat", "cancelCtx", "shutRpc", "done"} \cap SupervisorPC = {}
    BY DEF SupervisorPC, ConnectPC, ReconnectPC, CallPC
  <2> QED BY <2>1, <2>2
<1>6. CASE RunWaits \/ RunReturns
  <2>1. UNCHANGED reconnecting
        /\ \E l \in {"waiting", "done"} : pc' = [pc EXCEPT ![Main] = l]
    BY <1>6 DEF RunWaits, RunReturns
  <2> QED BY <2>1, <1>b
<1>7. CASE ReconnectorEnds
  BY <1>7 DEF ReconnectorEnds
<1>8. ASSUME UNCHANGED <<pc, reconnecting>> PROVE WindowInv'
  BY <1>8
<1>9. ASSUME NEW k \in ConnId, ReaderStep(k) \/ LinkLost(k) \/ RequestArrives(k) PROVE WindowInv'
  BY <1>8, <1>9 DEF ReaderStep, ReaderEnds, HandlerReturns, LinkLost, RequestArrives
<1>10. ASSUME NEW p \in Callers, NEW r \in {"ok", "error"}, Answered(p, r) PROVE WindowInv'
  BY <1>8, <1>10 DEF Answered
<1>11. CASE UNCHANGED vars
  BY <1>8, <1>11 DEF vars
<1> QED
  BY <1>1, <1>2, <1>3, <1>4, <1>5, <1>6, <1>7, <1>9, <1>10, <1>11
  DEF Next, MainStep, ReconnectorStep, OnConnectedStep, HeartbeatStep, Environment, Connectors

\* At first the latch is not set.
LEMMA WindowInit == Init => WindowInv
BY ProcFacts, ProcDistinct DEF Init, WindowInv

\* A failure that forceReconnect drops falls between the end of connect and the moment
\* the goroutine that ran it clears the flag.
THEOREM DropsAreInTheWindow == Spec => DropsOnlyInTheWindow
<1> DEFINE A == \A p \in Callers :
                  pc[p] = "enter" /\ pc'[p] = "skipped" => pc[Reconnector] = "returned"
<1>1. Spec => []WindowInv
  <2>1. IInv /\ WindowInv /\ [Next]_vars => WindowInv'
    BY WindowStep DEF IInv
  <2> QED BY WindowInit, Inductive, <2>1, PTL DEF Spec
<1>2. IInv /\ WindowInv /\ [Next]_vars => [A]_vars
  <2> SUFFICES ASSUME IInv, WindowInv, Next, NEW p \in Callers,
                      pc[p] = "enter", pc'[p] = "skipped"
               PROVE  pc[Reconnector] = "returned"
    OBVIOUS
  <2>1. reconnecting
    <3> USE ProcFacts, ProcDistinct DEF Goto
    <3> pc \in [Proc -> PC]
      BY DEF IInv, TypeOK
    <3>1. ASSUME NEW q \in Connectors, ConnectStep(q) PROVE FALSE
      <4>1. q # p /\ pc[q] # "enter"
        BY <3>1 DEF Connectors, ConnectStep, CheckShutdown, DialSucceeds, DialRejected, DialFails,
           BackoffEnds, BackoffCancelled, SetWsConn, SetRpcConn
      <4>2. pc'[p] \in {pc[p], "call"}
        BY <3>1, <4>1 DEF ConnectStep, CheckShutdown, ConnectReturns, DialSucceeds, DialRejected,
           DialFails, BackoffEnds, BackoffCancelled, SetWsConn, SetRpcConn
      <4> QED BY <4>2
    <3>2. ASSUME NEW q \in Callers, CallStep(q) PROVE FALSE
      BY <3>2 DEF CallStep, CallUnsent, CallSent, CallSucceeds, CallFails, CallFailed
    <3>3. ASSUME NEW q \in Callers, ReconnectStep(q) PROVE reconnecting
      BY <3>3 DEF ReconnectStep, EnterReconnect, StopMonitor, CloseHeartbeatStop, RenewStop,
         CloseConn, CloseRpc, CancelContext, RenewContext
    <3>4. ASSUME NEW k \in ConnId, StartHeartbeat(k) \/ EnterSelect(k) \/ Tick(k) \/ HeartbeatStops(k)
          PROVE FALSE
      BY <3>4 DEF StartHeartbeat, EnterSelect, Tick, HeartbeatStops
    <3>5. CASE SignalStep \/ ReceiveSignal
      BY <3>5 DEF SignalStep, ReceiveSignal, MarkShutdown, ShutdownStopsMonitor,
         CloseHeartbeatStop, ShutdownCancels, ShutdownClosesRpc
    <3>6. CASE RunWaits \/ RunReturns \/ ReconnectorEnds
      BY <3>6 DEF RunWaits, RunReturns, ReconnectorEnds
    <3>7. ASSUME NEW k \in ConnId, ReaderStep(k) \/ LinkLost(k) \/ RequestArrives(k) PROVE FALSE
      BY <3>7 DEF ReaderStep, ReaderEnds, HandlerReturns, LinkLost, RequestArrives
    <3>8. ASSUME NEW q \in Callers, NEW r \in {"ok", "error"}, Answered(q, r) PROVE FALSE
      BY <3>8 DEF Answered
    <3> QED
      BY <3>1, <3>2, <3>3, <3>4, <3>5, <3>6, <3>7, <3>8
      DEF Next, MainStep, ReconnectorStep, OnConnectedStep, HeartbeatStep, Environment, Connectors
  <2>2. \A q \in Proc : pc[q] \in SupervisorPC => q = p
    BY ProcFacts DEF IInv, AtMostOneSupervisor, Supervises, SupervisorPC, CallPC
  <2>3. p \in Proc /\ p # Reconnector /\ pc[p] \notin ReconnectPC /\ pc[p] \in SupervisorPC
    BY ProcFacts, ProcDistinct DEF SupervisorPC, CallPC, ReconnectPC
  <2> QED
    BY <2>1, <2>2, <2>3, ProcFacts DEF IInv, LatchInv, WindowInv, SupervisorPC, ReconnectPC
<1> QED BY <1>1, <1>2, Inductive, PTL DEF Spec, DropsOnlyInTheWindow

-----------------------------------------------------------------------------
(* Phases.                                                                 *)

\* Phase, of other control locations.
PhaseOf(f) ==
  CASE \E p \in Connectors : f[p] \in ConnectPC     -> "connecting"
    [] \E p \in OnConnecteds : f[p] \in CallPC      -> "registering"
    [] \E p \in Heartbeats : f[p] \in CallPC        -> "monitoring"
    [] \E p \in Callers : f[p] \in ReconnectPC      -> "reconnecting"
    [] OTHER                                        -> "none"

\* No goroutine but p supervises.
Sole(f, p) == \A q \in Proc : f[q] \in SupervisorPC => q = p

\* The round Run watches, -1 before it does.
Watch == IF pc[Main] = "waiting" THEN waitCtx[Main] ELSE -1

\* The places, and the goroutines, of different phases are different.
LEMMA PlacesDistinct ==
  /\ \A l \in ConnectPC : l \notin CallPC /\ l \notin ReconnectPC
  /\ \A l \in CallPC : l \notin ConnectPC /\ l \notin ReconnectPC
  /\ \A l \in ReconnectPC : l \notin ConnectPC /\ l \notin CallPC
  /\ \A p \in Connectors : p \notin OnConnecteds /\ p \notin Heartbeats
  /\ \A p \in OnConnecteds : p \notin Connectors /\ p \notin Heartbeats
  /\ \A p \in Heartbeats : p \notin Connectors /\ p \notin OnConnecteds
  /\ Callers = OnConnecteds \cup Heartbeats
<1>1. /\ \A l \in ConnectPC : l \notin CallPC /\ l \notin ReconnectPC
      /\ \A l \in CallPC : l \notin ConnectPC /\ l \notin ReconnectPC
      /\ \A l \in ReconnectPC : l \notin ConnectPC /\ l \notin CallPC
  BY DEF ConnectPC, CallPC, ReconnectPC
<1>2. /\ \A p \in Connectors : p \notin OnConnecteds /\ p \notin Heartbeats
      /\ \A p \in OnConnecteds : p \notin Connectors /\ p \notin Heartbeats
      /\ \A p \in Heartbeats : p \notin Connectors /\ p \notin OnConnecteds
  BY DEF Connectors, OnConnecteds, Heartbeats, Main, Reconnector, OnConnected, Heartbeat
<1> QED BY <1>1, <1>2 DEF Callers

\* The place of the only goroutine that can supervise determines the phase.
LEMMA PhaseFacts ==
  ASSUME NEW f, NEW p, Sole(f, p)
  PROVE  /\ p \in Connectors /\ f[p] \in ConnectPC => PhaseOf(f) = "connecting"
         /\ p \in OnConnecteds /\ f[p] \in CallPC => PhaseOf(f) = "registering"
         /\ p \in Heartbeats /\ f[p] \in CallPC => PhaseOf(f) = "monitoring"
         /\ p \in Callers /\ f[p] \in ReconnectPC => PhaseOf(f) = "reconnecting"
         /\ f[p] \notin SupervisorPC => PhaseOf(f) = "none"
<1>1. \A q \in Connectors \cup OnConnecteds \cup Heartbeats \cup Callers :
        f[q] \in ConnectPC \cup CallPC \cup ReconnectPC => q = p
  BY DEF Sole, Proc, SupervisorPC, Callers
<1> QED BY <1>1, PlacesDistinct DEF PhaseOf, SupervisorPC

\* What the two phases in which the agent looks for a connection say of the goroutines.
LEMMA PhaseTells ==
  ASSUME NEW f
  PROVE  /\ PhaseOf(f) = "connecting" => \E p \in Connectors : f[p] \in ConnectPC
         /\ PhaseOf(f) = "reconnecting" => \E p \in Callers : f[p] \in ReconnectPC
BY DEF PhaseOf

\* The goroutines that do not supervise have no part in the phase.
LEMMA PhaseSame ==
  ASSUME NEW f, NEW g,
         \A q \in Proc : f[q] \in SupervisorPC \/ g[q] \in SupervisorPC => g[q] = f[q]
  PROVE  PhaseOf(g) = PhaseOf(f)
<1>1. \A q \in Connectors \cup OnConnecteds \cup Heartbeats \cup Callers :
        /\ f[q] \in ConnectPC <=> g[q] \in ConnectPC
        /\ f[q] \in CallPC <=> g[q] \in CallPC
        /\ f[q] \in ReconnectPC <=> g[q] \in ReconnectPC
  BY DEF Proc, SupervisorPC, Callers
<1> QED BY <1>1 DEF PhaseOf

\* A supervisor that moves stays the only one that may supervise.
LEMMA GoesOn ==
  ASSUME TypeOK, AtMostOneSupervisor, NEW p \in Proc, NEW l, Goto(p, l), Supervises(p)
  PROVE  Sole(pc, p) /\ Sole(pc', p) /\ pc'[p] = l
BY DEF TypeOK, AtMostOneSupervisor, Goto, Supervises, Sole

\* One that starts another goroutine and rests leaves that one the only one.
LEMMA HandsOver ==
  ASSUME TypeOK, AtMostOneSupervisor, NEW p \in Proc, NEW q \in Proc, Supervises(p),
         pc'[p] \notin SupervisorPC, \A r \in Proc \ {p, q} : pc'[r] = pc[r]
  PROVE  Sole(pc, p) /\ Sole(pc', q)
BY DEF TypeOK, AtMostOneSupervisor, Supervises, Sole

\* The phase stays when a goroutine that does not supervise goes on.
LEMMA Rests ==
  ASSUME TypeOK, NEW p \in Proc, NEW l, Goto(p, l), ~Supervises(p), l \notin SupervisorPC
  PROVE  Phase' = Phase
<1>1. \A q \in Proc : pc[q] \in SupervisorPC \/ pc'[q] \in SupervisorPC => pc'[q] = pc[q]
  BY DEF TypeOK, Goto, Supervises
<1>2. Phase = PhaseOf(pc) /\ Phase' = PhaseOf(pc')
  BY DEF Phase, PhaseOf
<1> QED BY <1>1, <1>2, PhaseSame

-----------------------------------------------------------------------------
(* Steps.                                                                  *)

\* The phase is a function of the control locations.
LEMMA PhaseDef == Phase = PhaseOf(pc) /\ Phase' = PhaseOf(pc')
BY DEF Phase, PhaseOf

Refined == [Duty!Next]_(Duty!duty)

\* A step that keeps what Supervision sees is none of its steps.
LEMMA Stutters ==
  ASSUME Phase' = Phase, Watch' = Watch, UNCHANGED <<ctx, reconnecting, gracefulShutdown, exit>>
  PROVE  Refined
BY DEF Refined, Duty!duty, Watch, Running

\* A connect that fails ends the process, or drops the duty while the latch is set.
LEMMA ConnectReturnsRefined ==
  ASSUME IInv, NEW p \in Connectors, pc[p] \in ConnectPC, Running,
         NEW err \in {"error", "auth"}, ConnectReturns(p, err),
         UNCHANGED <<ctx, reconnecting, gracefulShutdown, waitCtx>>
  PROVE  Refined
<1> USE ProcFacts, ProcDistinct
<1>1. Supervises(p) /\ p \in Proc
  BY DEF Supervises, SupervisorPC, Connectors
<1>2. PICK l \in {"done", "rejected", "returned"} : Goto(p, l)
  BY DEF ConnectReturns
<1>3. Phase = "connecting" /\ Phase' = "none"
  <2>1. Sole(pc, p) /\ Sole(pc', p) /\ pc'[p] = l
    BY <1>1, <1>2, GoesOn DEF IInv
  <2>2. l \notin SupervisorPC
    BY DEF SupervisorPC, ConnectPC, CallPC, ReconnectPC
  <2> QED BY <2>1, <2>2, PhaseFacts, PhaseDef
<1>4. Watch' = Watch
  <2>1. pc[Main] # "waiting" \/ p # Main
    BY DEF ConnectPC
  <2>2. pc'[Main] # "waiting" \/ p # Main
    BY <1>2 DEF Goto, IInv, TypeOK
  <2>3. p # Main => pc'[Main] = pc[Main]
    BY <1>2 DEF Goto, IInv, TypeOK
  <2> QED BY <2>1, <2>2, <2>3 DEF Watch
<1>5. CASE p = Main
  <2>1. ctx = 0
    BY <1>5 DEF IInv, RoundInv
  <2>2. Running /\ ~Running'
    BY <1>5 DEF ConnectReturns, ExitsWith, Running
  <2>3. Duty!Stopped
    BY <1>3, <1>4, <2>1, <2>2 DEF Duty!Stopped, Watch
  <2> QED BY <2>2, <2>3 DEF Refined, Duty!Next
<1>6. CASE p = Reconnector
  <2>1. reconnecting
    BY <1>6 DEF IInv, LatchInv, ConnectPC
  <2>2. Running /\ Running'
    BY <1>6 DEF ConnectReturns, Running
  <2>3. Duty!Dropped
    BY <1>3, <1>4, <2>1, <2>2 DEF Duty!Dropped, Duty!HandOn, Watch
  <2> QED BY <2>2, <2>3 DEF Refined, Duty!Next
<1> QED BY <1>5, <1>6 DEF Connectors

\* connect keeps connecting, or hands on to the callback of the new connection.
LEMMA ConnectRefined == ASSUME IInv, NEW p \in Connectors, ConnectStep(p) PROVE Refined
<1> USE ProcFacts, ProcDistinct
<1> USE DEF locals, ctxVars, flags
<1>1. pc[p] \in ConnectPC /\ Running /\ UNCHANGED <<ctx, reconnecting, gracefulShutdown>>
  BY DEF ConnectStep, CheckShutdown, DialSucceeds, DialRejected, DialFails, BackoffEnds,
     BackoffCancelled, SetWsConn, SetRpcConn, ConnectPC
<1>2. Supervises(p) /\ p \in Proc
  BY <1>1 DEF Supervises, SupervisorPC, Connectors
<1>3. ASSUME NEW l \in ConnectPC, Goto(p, l), UNCHANGED exit,
             waitCtx' = waitCtx \/ waitCtx' = [waitCtx EXCEPT ![p] = ctx]
      PROVE  Refined
  <2>1. Sole(pc, p) /\ Sole(pc', p) /\ pc'[p] = l
    BY <1>2, <1>3, GoesOn DEF IInv
  <2>2. Phase' = Phase
    BY <1>1, <2>1, PhaseFacts, PhaseDef
  <2>3. pc[p] # "waiting" /\ pc'[p] # "waiting"
    BY <1>1, <2>1 DEF ConnectPC
  <2>4. p # Main => pc'[Main] = pc[Main] /\ waitCtx'[Main] = waitCtx[Main]
    BY <1>3 DEF Goto, IInv, TypeOK
  <2>5. Watch' = Watch
    BY <2>3, <2>4 DEF Watch
  <2> QED BY <1>1, <1>3, <2>2, <2>5, Stutters
<1>4. CASE CheckShutdown(p)
  <2>1. CASE isShutdown /\ ConnectReturns(p, "error")
    BY <1>1, <1>4, <2>1, ConnectReturnsRefined DEF CheckShutdown
  <2>2. CASE Goto(p, "dial") /\ UNCHANGED exit
    BY <1>3, <1>4, <2>2 DEF CheckShutdown, ConnectPC
  <2> QED BY <1>4, <2>1, <2>2 DEF CheckShutdown
<1>5. CASE DialSucceeds(p)
  BY <1>3, <1>5 DEF DialSucceeds, ConnectPC
<1>6. CASE DialRejected(p)
  BY <1>1, <1>6, ConnectReturnsRefined DEF DialRejected
<1>7. CASE DialFails(p)
  BY <1>3, <1>7 DEF DialFails, ConnectPC
<1>8. CASE BackoffEnds(p)
  BY <1>3, <1>8 DEF BackoffEnds, ConnectPC
<1>9. CASE BackoffCancelled(p)
  <2>1. ctx \in cancelled
    BY <1>9 DEF BackoffCancelled, IInv, RoundInv
  <2>2. ConnectReturns(p, "error") /\ UNCHANGED waitCtx
    BY <1>9, <2>1 DEF BackoffCancelled
  <2> QED BY <1>1, <2>2, ConnectReturnsRefined
<1>10. CASE SetWsConn(p)
  BY <1>3, <1>10 DEF SetWsConn, ConnectPC
<1>11. CASE SetRpcConn(p)
  <2> DEFINE k == using[p]
             q == OnConnected(k)
  <2>1. /\ pc' = [pc EXCEPT ![p] = "returned", ![q] = "call"]
        /\ UNCHANGED <<waitCtx, exit>>
    BY <1>11 DEF SetRpcConn
  <2>2. k \in ConnId
    BY <1>11 DEF SetRpcConn, IInv, LinkInv
  <2>3. q \in OnConnecteds /\ q \in Proc /\ p # q /\ q # Main
    BY <2>2 DEF OnConnecteds
  <2> HIDE DEF q
  <2>4. Sole(pc, p) /\ Sole(pc', q) /\ pc'[q] = "call"
    <3>1. "returned" \notin SupervisorPC
      BY DEF SupervisorPC, ConnectPC, CallPC, ReconnectPC
    <3>2. pc'[p] = "returned" /\ pc'[q] = "call" /\ \A r \in Proc \ {p, q} : pc'[r] = pc[r]
      BY <1>2, <2>1, <2>3 DEF IInv, TypeOK
    <3> QED BY <1>2, <2>3, <3>1, <3>2, HandsOver DEF IInv
  <2>5. Phase = "connecting" /\ Phase' = "registering"
    BY <1>1, <2>3, <2>4, PhaseFacts, PhaseDef DEF CallPC
  <2>6. Watch' = Watch
    <3>1. pc[Main] # "waiting" \/ p # Main
      BY <1>1 DEF ConnectPC
    <3>2. pc'[Main] = IF p = Main THEN "returned" ELSE pc[Main]
      BY <2>1, <2>3 DEF IInv, TypeOK
    <3> QED BY <2>1, <3>1, <3>2 DEF Watch
  <2>7. Duty!Connected
    BY <1>1, <2>1, <2>5, <2>6 DEF Duty!Connected, Duty!HandOn, Watch, Running
  <2> QED BY <1>1, <2>7 DEF Refined, Duty!Next
<1> QED BY <1>4, <1>5, <1>6, <1>7, <1>8, <1>9, <1>10, <1>11 DEF ConnectStep

\* A caller that goes on within a call, or within forceReconnect, stays in its phase.
LEMMA KeepsPhase ==
  ASSUME IInv, NEW p \in Callers, NEW l, Goto(p, l), Running,
         UNCHANGED <<ctx, reconnecting, gracefulShutdown, exit>>, waitCtx'[Main] = waitCtx[Main],
         (pc[p] \in CallPC /\ l \in CallPC) \/ (pc[p] \in ReconnectPC /\ l \in ReconnectPC)
  PROVE  Refined
<1>1. Supervises(p) /\ p \in Proc /\ p # Main
  BY ProcFacts, ProcDistinct DEF Supervises, SupervisorPC
<1>2. Sole(pc, p) /\ Sole(pc', p) /\ pc'[p] = l
  BY <1>1, GoesOn DEF IInv
<1>3. Phase' = Phase
  BY <1>2, PhaseFacts, PhaseDef, PlacesDistinct
<1>4. pc'[Main] = pc[Main]
  BY <1>1, ProcFacts DEF Goto, IInv, TypeOK
<1> QED BY <1>3, <1>4, Stutters DEF Watch

\* One that ends while the latch is set, or after a signal, drops the duty.
LEMMA Drops ==
  ASSUME IInv, NEW p \in Callers, NEW l, Goto(p, l), Running, pc[p] \in CallPC,
         l \notin SupervisorPC, reconnecting \/ gracefulShutdown,
         UNCHANGED <<ctx, reconnecting, gracefulShutdown, exit, waitCtx>>
  PROVE  Refined
<1>1. Supervises(p) /\ p \in Proc /\ p # Main
  BY ProcFacts, ProcDistinct DEF Supervises, SupervisorPC
<1>2. Sole(pc, p) /\ Sole(pc', p) /\ pc'[p] = l
  BY <1>1, GoesOn DEF IInv
<1>3. Phase \in {"registering", "monitoring"} /\ Phase' = "none"
  BY <1>2, PhaseFacts, PhaseDef, PlacesDistinct
<1>4. Watch' = Watch
  BY <1>1, ProcFacts DEF Goto, IInv, TypeOK, Watch
<1>5. Duty!Dropped
  BY <1>3, <1>4 DEF Duty!Dropped, Duty!HandOn, Watch, Running
<1> QED BY <1>5 DEF Refined, Duty!Next

\* Calls are within the phase of their callers.
LEMMA CallRefined == ASSUME IInv, NEW p \in Callers, CallStep(p) PROVE Refined
<1> USE DEF ctxVars, flags, locals
<1>1. /\ pc[p] \in CallPC /\ Running
      /\ UNCHANGED <<ctx, reconnecting, gracefulShutdown, exit, waitCtx>>
  BY DEF CallStep, CallUnsent, CallSent, CallSucceeds, CallFails, CallPC
<1>2. PICK l \in CallPC : Goto(p, l)
  BY DEF CallStep, CallUnsent, CallSent, CallSucceeds, CallFails, CallFailed, CallPC
<1>3. waitCtx'[Main] = waitCtx[Main]
  BY <1>1
<1> HIDE DEF ctxVars, flags, locals
<1> QED BY <1>1, <1>2, <1>3, KeepsPhase

\* forceReconnect begins by dropping the duty or setting the latch, and ends in a new round.
LEMMA ReconnectRefined == ASSUME IInv, NEW p \in Callers, ReconnectStep(p) PROVE Refined
<1> USE DEF ctxVars, flags, locals
<1>1. p \in Proc /\ p # Main /\ p # Reconnector
  BY ProcFacts, ProcDistinct
<1>2. CASE EnterReconnect(p)
  <2>1. /\ Running /\ pc[p] = "enter" /\ pc[p] \in CallPC
        /\ UNCHANGED <<ctx, gracefulShutdown, exit, waitCtx>>
    BY <1>2 DEF EnterReconnect, CallPC
  <2>2. CASE reconnecting /\ Goto(p, "skipped") /\ UNCHANGED reconnecting
    <3>1. "skipped" \notin SupervisorPC
      BY DEF SupervisorPC, ConnectPC, CallPC, ReconnectPC
    <3> QED BY <2>1, <2>2, <3>1, Drops
  <2>3. CASE ~reconnecting /\ Goto(p, "closeStop") /\ reconnecting' = TRUE
    <3>1. Sole(pc, p) /\ Sole(pc', p) /\ pc'[p] = "closeStop"
      BY <1>1, <2>1, <2>3, GoesOn DEF Supervises, SupervisorPC, IInv
    <3>2. Phase \in {"registering", "monitoring"} /\ Phase' = "reconnecting"
      BY <2>1, <3>1, PhaseFacts, PhaseDef, PlacesDistinct DEF ReconnectPC
    <3>3. Watch' = Watch
      BY <1>1, <2>1, <2>3, ProcFacts DEF Goto, IInv, TypeOK, Watch
    <3>4. ~reconnecting /\ reconnecting' = TRUE
      BY <2>3
    <3>5. Duty!Failed
      BY <2>1, <3>2, <3>3, <3>4 DEF Duty!Failed, Duty!HandOn, Watch, Running
    <3> QED BY <2>1, <3>5 DEF Refined, Duty!Next
  <2> QED BY <1>2, <2>2, <2>3 DEF EnterReconnect
<1>3. CASE StopMonitor(p)
  <2>1. /\ Running /\ pc[p] = "closeStop" /\ pc[p] \in ReconnectPC /\ "renewStop" \in ReconnectPC
        /\ UNCHANGED <<ctx, reconnecting, gracefulShutdown, waitCtx>>
    BY <1>3 DEF StopMonitor, ReconnectPC
  <2>2. CASE heartbeatStop \in closedStop
    <3>1. \A q \in Callers : pc[q] # "renewStop"
      BY <2>1, ProcFacts DEF IInv, AtMostOneSupervisor, Supervises, SupervisorPC, ReconnectPC
    <3>2. gracefulShutdown
      BY <2>2, <3>1 DEF IInv, StopInv, RoundInv
    <3>3. exit' = "panic" /\ UNCHANGED pc
      BY <1>3, <2>2 DEF StopMonitor, CloseHeartbeatStop
    <3>4. Phase' = Phase /\ Watch' = Watch
      BY <2>1, <3>3 DEF Phase, Watch
    <3>5. Duty!Stopped
      BY <2>1, <3>2, <3>3, <3>4 DEF Duty!Stopped, Watch, Running
    <3> QED BY <2>1, <3>5 DEF Refined, Duty!Next
  <2>3. CASE heartbeatStop \notin closedStop
    <3>1. Goto(p, "renewStop") /\ UNCHANGED exit
      BY <1>3, <2>3 DEF StopMonitor, CloseHeartbeatStop
    <3> QED BY <2>1, <3>1, KeepsPhase
  <2> QED BY <2>2, <2>3
<1>4. CASE RenewStop(p) \/ CloseConn(p) \/ CloseRpc(p) \/ CancelContext(p)
  <2>1. /\ Running /\ pc[p] \in ReconnectPC
        /\ UNCHANGED <<ctx, reconnecting, gracefulShutdown, exit, waitCtx>>
    BY <1>4 DEF RenewStop, CloseConn, CloseRpc, CancelContext, ReconnectPC
  <2>2. \E l \in ReconnectPC : Goto(p, l)
    BY <1>4 DEF RenewStop, CloseConn, CloseRpc, CancelContext, ReconnectPC
  <2> QED BY <2>1, <2>2, KeepsPhase
<1>5. CASE RenewContext(p)
  <2>1. /\ Running /\ pc[p] = "renewCtx" /\ ctx' = ctx + 1
        /\ pc' = [pc EXCEPT ![p] = "done", ![Reconnector] = "check"]
        /\ UNCHANGED <<reconnecting, gracefulShutdown, exit, waitCtx>>
    BY <1>5 DEF RenewContext
  <2>2. Sole(pc, p) /\ Sole(pc', Reconnector) /\ pc'[Reconnector] = "check"
    <3>1. "done" \notin SupervisorPC /\ Supervises(p)
      BY <2>1 DEF Supervises, SupervisorPC, ConnectPC, CallPC, ReconnectPC
    <3>2. TypeOK /\ AtMostOneSupervisor /\ Reconnector \in Proc
      BY ProcFacts DEF IInv
    <3>3. /\ pc'[p] = "done" /\ pc'[Reconnector] = "check"
          /\ \A r \in Proc \ {p, Reconnector} : pc'[r] = pc[r]
      BY <1>1, <2>1, <3>2 DEF TypeOK
    <3> QED BY <1>1, <3>1, <3>2, <3>3, HandsOver
  <2>3. Phase = "reconnecting" /\ Phase' = "connecting"
    BY <2>1, <2>2, PhaseFacts, PhaseDef DEF Connectors, ReconnectPC, ConnectPC
  <2>4. pc'[Main] = pc[Main]
    BY <1>1, <2>1, ProcFacts, ProcDistinct DEF IInv, TypeOK
  <2>5. Duty!Redial
    BY <2>1, <2>3, <2>4 DEF Duty!Redial, Duty!HandOn, Running
  <2> QED BY <2>1, <2>5 DEF Refined, Duty!Next
<1> QED BY <1>2, <1>3, <1>4, <1>5 DEF ReconnectStep

\* A monitor's select ends without a tick only after Shutdown has marked the client.
LEMMA SelectIsCurrent ==
  ASSUME IInv, NEW k \in ConnId, HeartbeatStops(k)
  PROVE  isShutdown
<1>1. pc[Heartbeat(k)] = "select" /\ Heartbeat(k) \in Callers
  BY ProcFacts DEF HeartbeatStops
<1>2. heartbeatStop \in closedStop \/ ctx \in cancelled
  BY <1>1 DEF HeartbeatStops, IInv, SelectInv
<1>3. \A q \in Callers : pc[q] \notin ReconnectPC
  BY <1>1, ProcFacts, PlacesDistinct
  DEF IInv, AtMostOneSupervisor, Supervises, SupervisorPC, CallPC, ReconnectPC
<1> QED BY <1>2, <1>3 DEF IInv, StopInv, CancelInv, ReconnectPC

\* The callback hands on to the monitor, which drops the duty only after a signal.
LEMMA MonitorRefined ==
  ASSUME IInv, NEW k \in ConnId,
         StartHeartbeat(k) \/ EnterSelect(k) \/ Tick(k) \/ HeartbeatStops(k)
  PROVE  Refined
<1> USE ProcFacts, ProcDistinct DEF ctxVars, flags, locals
<1>1. Running /\ UNCHANGED <<ctx, reconnecting, gracefulShutdown, exit>>
  BY DEF StartHeartbeat, EnterSelect, Tick, HeartbeatStops
<1>2. CASE StartHeartbeat(k)
  <2>1. /\ pc[OnConnected(k)] = "spawn" /\ UNCHANGED waitCtx
        /\ pc' = [pc EXCEPT ![OnConnected(k)] = "done", ![Heartbeat(k)] = "start"]
    BY <1>2 DEF StartHeartbeat
  <2>2. Sole(pc, OnConnected(k)) /\ Sole(pc', Heartbeat(k)) /\ pc'[Heartbeat(k)] = "start"
    <3>1. "done" \notin SupervisorPC /\ Supervises(OnConnected(k))
      BY <2>1 DEF Supervises, SupervisorPC, ConnectPC, CallPC, ReconnectPC
    <3>2. /\ TypeOK /\ AtMostOneSupervisor /\ OnConnected(k) \in Proc /\ Heartbeat(k) \in Proc
          /\ OnConnected(k) # Heartbeat(k)
      BY DEF IInv
    <3>3. /\ pc'[OnConnected(k)] = "done" /\ pc'[Heartbeat(k)] = "start"
          /\ \A r \in Proc \ {OnConnected(k), Heartbeat(k)} : pc'[r] = pc[r]
      BY <2>1, <3>2 DEF TypeOK
    <3> QED BY <3>1, <3>2, <3>3, HandsOver
  <2>3. Phase = "registering" /\ Phase' = "monitoring"
    <3>1. /\ OnConnected(k) \in OnConnecteds /\ pc[OnConnected(k)] \in CallPC
          /\ Heartbeat(k) \in Heartbeats /\ pc'[Heartbeat(k)] \in CallPC
      BY <2>1, <2>2 DEF OnConnecteds, Heartbeats, CallPC
    <3> QED BY <2>2, <3>1, PhaseFacts, PhaseDef
  <2>4. pc'[Main] = pc[Main]
    BY <2>1 DEF IInv, TypeOK
  <2>5. Duty!Registered
    BY <1>1, <2>1, <2>3, <2>4 DEF Duty!Registered, Duty!HandOn, Running
  <2> QED BY <1>1, <2>5 DEF Refined, Duty!Next
<1>3. CASE EnterSelect(k)
  <2>1. /\ Goto(Heartbeat(k), "select") /\ pc[Heartbeat(k)] = "start"
        /\ waitCtx'[Main] = waitCtx[Main]
    BY <1>3 DEF EnterSelect, IInv, TypeOK
  <2>2. pc[Heartbeat(k)] \in CallPC /\ "select" \in CallPC /\ Heartbeat(k) \in Callers
    BY <2>1 DEF CallPC
  <2> QED BY <1>1, <2>1, <2>2, KeepsPhase
<1>4. CASE Tick(k)
  <2>1. Goto(Heartbeat(k), "call") /\ pc[Heartbeat(k)] = "select" /\ waitCtx'[Main] = waitCtx[Main]
    BY <1>4 DEF Tick
  <2>2. pc[Heartbeat(k)] \in CallPC /\ "call" \in CallPC /\ Heartbeat(k) \in Callers
    BY <2>1 DEF CallPC
  <2> QED BY <1>1, <2>1, <2>2, KeepsPhase
<1>5. CASE HeartbeatStops(k)
  <2>1. gracefulShutdown
    BY <1>5, SelectIsCurrent DEF IInv, RoundInv
  <2>2. "done" \notin SupervisorPC
    BY DEF SupervisorPC, ConnectPC, CallPC, ReconnectPC
  <2>3. Goto(Heartbeat(k), "done") /\ pc[Heartbeat(k)] = "select" /\ UNCHANGED waitCtx
    BY <1>5 DEF HeartbeatStops
  <2> QED BY <1>1, <2>1, <2>2, <2>3, Drops DEF CallPC
<1> QED BY <1>2, <1>3, <1>4, <1>5

\* Shutdown has no part in the duty, unless its close of the stop channel panics.
LEMMA SignalRefined == ASSUME IInv, SignalStep \/ ReceiveSignal PROVE Refined
<1> USE ProcFacts, ProcDistinct DEF ctxVars, flags, locals
<1>1. Running /\ UNCHANGED <<ctx, reconnecting, waitCtx>>
  BY DEF SignalStep, ReceiveSignal, MarkShutdown, ShutdownStopsMonitor, ShutdownCancels,
     ShutdownClosesRpc
<1>2. Phase' = Phase /\ Watch' = Watch
  <2>1. \/ UNCHANGED pc
        \/ \E l \in ShutdownPC \cup {"done"} : Goto(Signal, l) /\ pc[Signal] \in ShutdownPC
    BY DEF SignalStep, ReceiveSignal, MarkShutdown, ShutdownStopsMonitor, CloseHeartbeatStop,
       ShutdownCancels, ShutdownClosesRpc, ShutdownPC
  <2>2. \A l \in ShutdownPC \cup {"done"} : l \notin SupervisorPC
    BY DEF ShutdownPC, SupervisorPC, ConnectPC, CallPC, ReconnectPC
  <2>3. CASE UNCHANGED pc
    BY <1>1, <2>3 DEF Phase, Watch
  <2>4. CASE ~UNCHANGED pc
    <3>1. PICK l \in ShutdownPC \cup {"done"} : Goto(Signal, l) /\ pc[Signal] \in ShutdownPC
      BY <2>1, <2>4
    <3>2. Phase' = Phase
      BY <2>2, <3>1, Rests DEF IInv, Supervises
    <3>3. pc'[Main] = pc[Main]
      BY <3>1 DEF Goto, IInv, TypeOK
    <3> QED BY <1>1, <3>2, <3>3 DEF Watch
  <2> QED BY <2>3, <2>4
<1>3. CASE ReceiveSignal
  <2>1. gracefulShutdown' = TRUE /\ UNCHANGED exit
    BY <1>3 DEF ReceiveSignal
  <2>2. Duty!Signalled
    BY <1>1, <1>2, <2>1 DEF Duty!Signalled, Watch, Running
  <2> QED BY <1>1, <2>2 DEF Refined, Duty!Next
<1>4. CASE MarkShutdown \/ ShutdownCancels \/ ShutdownClosesRpc
  <2>1. UNCHANGED <<gracefulShutdown, exit>>
    BY <1>4 DEF MarkShutdown, ShutdownCancels, ShutdownClosesRpc
  <2> QED BY <1>1, <1>2, <2>1, Stutters
<1>5. CASE ShutdownStopsMonitor
  <2>1. UNCHANGED gracefulShutdown /\ (UNCHANGED exit \/ exit' = "panic")
    BY <1>5 DEF ShutdownStopsMonitor, CloseHeartbeatStop
  <2>2. CASE exit' = "panic"
    <3>1. gracefulShutdown
      BY <1>5 DEF ShutdownStopsMonitor, IInv, RoundInv
    <3>2. Duty!Stopped
      BY <1>1, <1>2, <2>1, <2>2, <3>1 DEF Duty!Stopped, Watch, Running
    <3> QED BY <1>1, <3>2 DEF Refined, Duty!Next
  <2>3. CASE UNCHANGED exit
    BY <1>1, <1>2, <2>1, <2>3, Stutters
  <2> QED BY <2>1, <2>2, <2>3
<1> QED BY <1>3, <1>4, <1>5 DEF SignalStep

\* Run watches its round and ends with it; the reconnector clears the latch.
LEMMA RunRefined == ASSUME IInv, RunWaits \/ RunReturns \/ ReconnectorEnds PROVE Refined
<1> USE ProcFacts, ProcDistinct DEF ctxVars, flags, locals
<1> DEFINE R == RestPC \cup {"idle"}
<1>1. /\ Running /\ UNCHANGED <<ctx, gracefulShutdown>>
      /\ ctx \in Nat /\ waitCtx \in [Proc -> Nat] /\ pc \in [Proc -> PC]
  BY DEF RunWaits, RunReturns, ReconnectorEnds, IInv, TypeOK
<1>2. Phase' = Phase
  <2>1. \E p \in {Main, Reconnector}, l \in R : Goto(p, l) /\ pc[p] \in R
    BY DEF RunWaits, RunReturns, ReconnectorEnds, RestPC
  <2>2. \A l \in R : l \notin SupervisorPC
    BY DEF RestPC, SupervisorPC, ConnectPC, CallPC, ReconnectPC
  <2> QED BY <2>1, <2>2, Rests DEF IInv, Supervises
<1>3. CASE RunWaits
  <2>1. pc[Main] = "returned" /\ waitCtx' = [waitCtx EXCEPT ![Main] = ctx] /\ Goto(Main, "waiting")
        /\ UNCHANGED <<reconnecting, exit>>
    BY <1>3 DEF RunWaits
  <2>2. Watch = -1 /\ Watch' = ctx
    BY <1>1, <2>1 DEF Watch, Goto
  <2>3. ctx > 0 \/ Phase # "connecting"
    BY <1>1, <2>1, PhaseDef, PhaseTells DEF IInv, RoundInv, Connectors, ConnectPC
  <2>4. Duty!Watched
    BY <1>1, <1>2, <2>1, <2>2, <2>3 DEF Duty!Watched, Duty!Nobody, Watch, Running
  <2> QED BY <1>1, <2>4 DEF Refined, Duty!Next
<1>4. CASE RunReturns
  <2>1. /\ pc[Main] = "waiting" /\ waitCtx[Main] \in cancelled /\ Goto(Main, "done")
        /\ exit' # "running" /\ UNCHANGED reconnecting
    BY <1>4 DEF RunReturns, ExitsWith
  <2>2. Watch = waitCtx[Main] /\ Watch' = -1
    BY <1>1, <2>1 DEF Watch, Goto
  <2>3. Watch < ctx \/ Phase = "reconnecting" \/ gracefulShutdown
    <3>1. waitCtx[Main] <= ctx
      BY <2>1 DEF IInv, RoundInv
    <3>2. CASE \E p \in Callers : pc[p] = "renewCtx"
      <4>1. PICK p \in Callers : pc[p] = "renewCtx"
        BY <3>2
      <4>2. Sole(pc, p) /\ pc[p] \in ReconnectPC
        BY <4>1 DEF IInv, AtMostOneSupervisor, Supervises, SupervisorPC, ReconnectPC, Sole
      <4> QED BY <4>2, PhaseFacts, PhaseDef
    <3>3. CASE ~\E p \in Callers : pc[p] = "renewCtx"
      BY <1>1, <2>1, <2>2, <3>1, <3>3 DEF IInv, CancelInv, RoundInv
    <3> QED BY <3>2, <3>3
  <2>4. Duty!Stopped
    BY <1>1, <1>2, <2>1, <2>2, <2>3
    DEF Duty!Stopped, Duty!WatchIsOver, Duty!Nobody, Watch, Running
  <2> QED BY <1>1, <2>4 DEF Refined, Duty!Next
<1>5. CASE ReconnectorEnds
  <2>1. /\ pc[Reconnector] \in {"returned", "rejected"} /\ reconnecting' = FALSE
        /\ UNCHANGED <<exit, waitCtx>> /\ \E l \in {"idle", "gaveUp"} : Goto(Reconnector, l)
    BY <1>5 DEF ReconnectorEnds
  <2>2. Watch' = Watch
    BY <1>1, <2>1 DEF Watch, Goto
  <2>3. reconnecting
    BY <2>1 DEF IInv, LatchInv
  <2>4. Phase \notin {"connecting", "reconnecting"}
    <3>1. pc[Main] \notin ConnectPC
      BY <1>1, <2>1 DEF IInv, RoundInv
    <3>2. pc[Reconnector] \notin ConnectPC
      BY <2>1 DEF ConnectPC
    <3>3. \A p \in Callers : pc[p] \notin ReconnectPC
      BY <2>1 DEF IInv, LatchInv
    <3> QED BY <3>1, <3>2, <3>3, PhaseDef, PhaseTells DEF Connectors
  <2>5. Duty!Settled
    BY <1>1, <1>2, <2>1, <2>2, <2>3, <2>4 DEF Duty!Settled, Watch, Running
  <2> QED BY <1>1, <2>5 DEF Refined, Duty!Next
<1> QED BY <1>3, <1>4, <1>5

\* Every step is one of Supervision, or none.
LEMMA StepRefined == IInv /\ [Next]_vars => Refined
<1> SUFFICES ASSUME IInv, [Next]_vars PROVE Refined
  OBVIOUS
<1>1. ASSUME NEW k \in ConnId, ReaderStep(k) \/ LinkLost(k) \/ RequestArrives(k) PROVE Refined
  <2> UNCHANGED <<pc, waitCtx, ctx, reconnecting, gracefulShutdown, exit>>
    BY <1>1 DEF ReaderStep, ReaderEnds, HandlerReturns, LinkLost, RequestArrives, locals, ctxVars,
       flags
  <2> QED BY Stutters DEF Phase, Watch
<1>2. ASSUME NEW p \in Callers, NEW r \in {"ok", "error"}, Answered(p, r) PROVE Refined
  <2> UNCHANGED <<pc, waitCtx, ctx, reconnecting, gracefulShutdown, exit>>
    BY <1>2 DEF Answered, ctxVars, flags
  <2> QED BY Stutters DEF Phase, Watch
<1>3. CASE UNCHANGED vars
  <2> UNCHANGED <<pc, waitCtx, ctx, reconnecting, gracefulShutdown, exit>>
    BY <1>3 DEF vars, locals, ctxVars, flags
  <2> QED BY Stutters DEF Phase, Watch
<1> QED
  BY <1>1, <1>2, <1>3, ConnectRefined, CallRefined, ReconnectRefined, MonitorRefined,
     SignalRefined, RunRefined, ProcFacts
  DEF Next, MainStep, ReconnectorStep, OnConnectedStep, HeartbeatStep, Environment, Connectors

-----------------------------------------------------------------------------
(* Results.                                                                *)

\* However many reconnections there were, no monitor is stopped by another's.
THEOREM MonitorsStopForShutdown == Spec => NoSilentHeartbeatStop
<1> DEFINE A == \A k \in ConnId : HeartbeatStops(k) => isShutdown
<1>1. IInv => A
  BY SelectIsCurrent
<1>2. [Next]_vars /\ IInv => [A]_vars
  BY <1>1
<1> QED BY <1>2, Inductive, PTL DEF Spec, NoSilentHeartbeatStop

\* The initial state is that of Supervision.
LEMMA InitRefined == Init => Duty!Init
<1> SUFFICES ASSUME Init PROVE Duty!Init
  OBVIOUS
<1>1. Phase = "connecting"
  <2>1. Sole(pc, Main) /\ pc[Main] \in ConnectPC
    BY ProcFacts, ProcDistinct
    DEF Init, Sole, SupervisorPC, ConnectPC, CallPC, ReconnectPC
  <2> QED BY <2>1, PhaseFacts, PhaseDef DEF Connectors
<1>2. /\ pc[Main] # "waiting" /\ ctx = 0 /\ Running
      /\ reconnecting = FALSE /\ gracefulShutdown = FALSE
  BY ProcFacts DEF Init, Running
<1> QED BY <1>1, <1>2 DEF Duty!Init, Duty!Nobody

\* Whatever the goroutines, callbacks and flags do, it is one duty handed on in a fixed
\* order, dropped only while the latch is set or after a signal.
THEOREM ImplementsSupervision == Spec => HandsOnOneDuty
<1>1. IInv /\ [Next]_vars => [Duty!Next]_(Duty!duty)
  BY StepRefined DEF Refined
<1> QED BY <1>1, InitRefined, Inductive, PTL DEF Spec, HandsOnOneDuty, Duty!Spec
=============================================================================
