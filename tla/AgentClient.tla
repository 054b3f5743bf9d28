---------------------------- MODULE AgentClient ----------------------------
(***************************************************************************)
(* The connection life cycle of the agent daemon: internal/client/client.go*)
(* on top of internal/rpc/rpc.go, run by the main and signal goroutines of *)
(* cmd/start/handler.go.                                                   *)
(*                                                                         *)
(* Goroutines are processes with a control location pc[p]:                 *)
(*   Main            Run, which connects and then waits on the context;    *)
(*   Signal          the goroutine that calls Shutdown;                    *)
(*   Reconnector     the goroutine forceReconnect starts (the module shows *)
(*                   that there is never more than one: see                *)
(*                   NoReconnectorOverlap);                                *)
(*   OnConnected(k)  the callback started for connection k;                *)
(*   Heartbeat(k)    the heartbeat monitor OnConnected(k) starts.          *)
(* link[k] and reader[k] are the WebSocket k with the jsonrpc2 connection  *)
(* over it.  Contexts and stop channels are numbered by their creation; a  *)
(* context is done when it is in cancelled, a stop channel when it is in   *)
(* closedStop.  Every access of a shared field of Client is a step of its  *)
(* own, so the unsynchronised accesses of c.ctx and c.heartbeatStop        *)
(* interleave as they do in the program (both are one word in effect).     *)
(* The delay between attempts is in module Backoff; here a wait may end at *)
(* any time.                                                               *)
(***************************************************************************)
EXTENDS Integers, FiniteSets

CONSTANTS
  ConnId,   \* the WebSocket connections the agent may open (bounds the model)
  NoConn    \* a nil connection

ASSUME NoConnAssumption == NoConn \notin ConnId

VARIABLES
  pc,               \* control location of each goroutine
  using,            \* the connection a goroutine has dialled or calls over
  reply,            \* what the pending call of a goroutine was answered
  waitCtx,          \* the context whose Done channel a goroutine selects on
  waitStop,         \* the stop channel a goroutine selects on
  ctx,              \* Client.ctx and Client.cancel
  cancelled,        \* the contexts that have been cancelled
  heartbeatStop,    \* Client.heartbeatStop
  closedStop,       \* the stop channels that have been closed
  conn,             \* Client.conn
  wsConn,           \* rpc.Client.wsConn
  rpcConn,          \* rpc.Client.conn
  rpcCancelled,     \* rpc.Client.ctx is done
  link,             \* state of each connection
  reader,           \* the read loop of each jsonrpc2 connection
  reconnecting,     \* Client.reconnecting
  isShutdown,       \* Client.isShutdown
  gracefulShutdown, \* the flag of runStart
  exit              \* how the process ended, "running" until it does

locals   == <<using, reply, waitCtx, waitStop>>
ctxVars  == <<ctx, cancelled>>
stopVars == <<heartbeatStop, closedStop>>
rpcVars  == <<wsConn, rpcConn, rpcCancelled>>
linkVars == <<link, reader>>
flags    == <<reconnecting, isShutdown, gracefulShutdown>>
vars     == <<pc, locals, ctxVars, stopVars, conn, rpcVars, linkVars, flags, exit>>

-----------------------------------------------------------------------------
Main           == <<"main", NoConn>>
Signal         == <<"signal", NoConn>>
Reconnector    == <<"reconnector", NoConn>>
OnConnected(k) == <<"onConnected", k>>
Heartbeat(k)   == <<"heartbeat", k>>

OnConnecteds == {OnConnected(k) : k \in ConnId}
Heartbeats   == {Heartbeat(k) : k \in ConnId}
Connectors   == {Main, Reconnector}
Callers      == OnConnecteds \cup Heartbeats
Proc         == Connectors \cup {Signal} \cup Callers

\* Where a goroutine is inside connect, inside onConnected or the monitor,
\* and inside the body of forceReconnect.
ConnectPC   == {"check", "dial", "setWs", "setConn", "backoff"}
CallPC      == {"call", "await", "spawn", "start", "select", "enter"}
ReconnectPC == {"closeStop", "renewStop", "closeConn", "closeRpc", "cancel", "renewCtx"}
ShutdownPC  == {"idle", "mark", "closeHeartbeat", "cancelCtx", "shutRpc"}
RestPC      == {"none", "returned", "rejected", "waiting", "done", "skipped", "gaveUp"}
PC          == ConnectPC \cup CallPC \cup ReconnectPC \cup ShutdownPC \cup RestPC

Running == exit = "running"

Goto(p, l) == pc' = [pc EXCEPT ![p] = l]

\* Mutation: runStart reports the shutdown as a status of its own.
ExitsWithShutdown(err) == exit' = IF gracefulShutdown THEN "shutdown" ELSE err

\* runStart turns the error of Run into success once a signal was received.
ExitsWith(err) == exit' = IF gracefulShutdown THEN "ok" ELSE err

Init ==
  /\ pc = [p \in Proc |-> IF p = Main THEN "check"
                          ELSE IF p \in {Signal, Reconnector} THEN "idle" ELSE "none"]
  /\ using = [p \in Proc |-> NoConn]
  /\ reply = [p \in Proc |-> "none"]
  /\ waitCtx = [p \in Proc |-> 0] /\ waitStop = [p \in Proc |-> 0]
  /\ ctx = 0 /\ cancelled = {}
  /\ heartbeatStop = 0 /\ closedStop = {}
  /\ conn = NoConn /\ wsConn = NoConn /\ rpcConn = NoConn /\ rpcCancelled = FALSE
  /\ link = [k \in ConnId |-> "unused"] /\ reader = [k \in ConnId |-> "none"]
  /\ reconnecting = FALSE /\ isShutdown = FALSE /\ gracefulShutdown = FALSE
  /\ exit = "running"

-----------------------------------------------------------------------------
(* Run and connect, by Main and by Reconnector.                            *)

\* connect returns: Run returns a non-nil error at once, the reconnector logs it.
ConnectReturns(p, err) ==
  IF p = Main /\ err # "nil"
  THEN Goto(p, "done") /\ ExitsWith(err)
  ELSE /\ Goto(p, IF p = Reconnector /\ err = "auth" THEN "rejected" ELSE "returned")
       /\ UNCHANGED exit

\* Mutation: connect does not look at isShutdown.
CheckNothing(p) ==
  /\ Running /\ pc[p] = "check"
  /\ Goto(p, "dial")
  /\ UNCHANGED <<locals, ctxVars, stopVars, conn, rpcVars, linkVars, flags, exit>>

\* The head of connect's loop: give up if the client is shut down.
CheckShutdown(p) ==
  /\ Running /\ pc[p] = "check"
  /\ \/ isShutdown /\ ConnectReturns(p, "error")
     \/ ~isShutdown /\ Goto(p, "dial") /\ UNCHANGED exit
  /\ UNCHANGED <<locals, ctxVars, stopVars, conn, rpcVars, linkVars, flags>>

Unused == {k \in ConnId : link[k] = "unused"}

\* connectOnce gets a WebSocket and stores it.
DialSucceeds(p) ==
  LET k == CHOOSE j \in Unused : TRUE IN
  /\ Running /\ pc[p] = "dial"
  /\ Unused # {}
  /\ link' = [link EXCEPT ![k] = "dialled"]
  /\ conn' = k
  /\ using' = [using EXCEPT ![p] = k]
  /\ Goto(p, "setWs")
  /\ UNCHANGED <<reply, waitCtx, waitStop, ctxVars, stopVars, rpcVars, reader, flags, exit>>

\* connectOnce fails: 401 and 403 end connect, anything else waits and retries.
DialRejected(p) ==
  /\ Running /\ pc[p] = "dial"
  /\ ConnectReturns(p, "auth")
  /\ UNCHANGED <<locals, ctxVars, stopVars, conn, rpcVars, linkVars, flags>>

DialFails(p) ==
  /\ Running /\ pc[p] = "dial"
  /\ waitCtx' = [waitCtx EXCEPT ![p] = ctx]
  /\ Goto(p, "backoff")
  /\ UNCHANGED <<using, reply, waitStop, ctxVars, stopVars, conn, rpcVars, linkVars, flags, exit>>

BackoffEnds(p) ==
  /\ Running /\ pc[p] = "backoff"
  /\ Goto(p, "check")
  /\ UNCHANGED <<locals, ctxVars, stopVars, conn, rpcVars, linkVars, flags, exit>>

\* The context awaited is done; the error returned is that of the current one.
BackoffCancelled(p) ==
  /\ Running /\ pc[p] = "backoff"
  /\ waitCtx[p] \in cancelled
  /\ ConnectReturns(p, IF ctx \in cancelled THEN "error" ELSE "nil")
  /\ UNCHANGED <<locals, ctxVars, stopVars, conn, rpcVars, linkVars, flags>>

\* ConnectWebSocketWithContext stores the socket ...
SetWsConn(p) ==
  /\ Running /\ pc[p] = "setWs"
  /\ wsConn' = using[p]
  /\ Goto(p, "setConn")
  /\ UNCHANGED <<locals, ctxVars, stopVars, conn, rpcConn, rpcCancelled, linkVars, flags, exit>>

\* ... then starts the jsonrpc2 connection, whose reader runs at once, stores it
\* and starts the callback.  The socket may have been closed in between.
SetRpcConn(p) ==
  LET k == using[p] IN
  /\ Running /\ pc[p] = "setConn"
  /\ link' = [link EXCEPT ![k] = IF @ = "dialled" THEN "open" ELSE @]
  /\ reader' = [reader EXCEPT ![k] = "reading"]
  /\ rpcConn' = k
  /\ using' = [using EXCEPT ![p] = NoConn]
  /\ pc' = [pc EXCEPT ![p] = "returned", ![OnConnected(k)] = "call"]
  /\ UNCHANGED <<reply, waitCtx, waitStop, ctxVars, stopVars, conn, wsConn, rpcCancelled,
                 flags, exit>>

\* connect has reset the backoff and Run evaluates c.ctx to wait on it.
RunWaits ==
  /\ Running /\ pc[Main] = "returned"
  /\ waitCtx' = [waitCtx EXCEPT ![Main] = ctx]
  /\ Goto(Main, "waiting")
  /\ UNCHANGED <<using, reply, waitStop, ctxVars, stopVars, conn, rpcVars, linkVars, flags, exit>>

\* Run returns the error of the context that is current by now, nil if it is live.
RunReturns ==
  /\ Running /\ pc[Main] = "waiting"
  /\ waitCtx[Main] \in cancelled
  /\ IF ctx \in cancelled THEN ExitsWith("error") ELSE exit' = "ok"
  /\ Goto(Main, "done")
  /\ UNCHANGED <<locals, ctxVars, stopVars, conn, rpcVars, linkVars, flags>>

\* Mutation: the reconnector connects again after an authentication error.
ReconnectorRetries ==
  /\ Running /\ pc[Reconnector] \in {"returned", "rejected"}
  /\ reconnecting' = (pc[Reconnector] = "rejected")
  /\ Goto(Reconnector, IF pc[Reconnector] = "rejected" THEN "check" ELSE "idle")
  /\ UNCHANGED <<locals, ctxVars, stopVars, conn, rpcVars, linkVars, isShutdown,
                 gracefulShutdown, exit>>

\* Mutation: the flag is cleared only when connect has failed.
ReconnectorEndsLatched ==
  /\ Running /\ pc[Reconnector] \in {"returned", "rejected"}
  /\ reconnecting' = (pc[Reconnector] = "returned")
  /\ Goto(Reconnector, IF pc[Reconnector] = "rejected" THEN "gaveUp" ELSE "idle")
  /\ UNCHANGED <<locals, ctxVars, stopVars, conn, rpcVars, linkVars, isShutdown,
                 gracefulShutdown, exit>>

\* The reconnector's deferred function.
ReconnectorEnds ==
  /\ Running /\ pc[Reconnector] \in {"returned", "rejected"}
  /\ reconnecting' = FALSE
  /\ Goto(Reconnector, IF pc[Reconnector] = "rejected" THEN "gaveUp" ELSE "idle")
  /\ UNCHANGED <<locals, ctxVars, stopVars, conn, rpcVars, linkVars, isShutdown,
                 gracefulShutdown, exit>>

-----------------------------------------------------------------------------
(* rpc.Client.Call, by onConnected and by the heartbeat monitor.           *)

\* Mutation: a failed heartbeat is ignored.
CallFailedIgnored(p) == Goto(p, IF p \in Heartbeats THEN "start" ELSE "enter")

CallFailed(p) == Goto(p, "enter")

\* Call without a connection, over a closed one, or with a failing write fails.
CallUnsent(p) ==
  /\ Running /\ pc[p] = "call"
  /\ \/ rpcConn = NoConn
     \/ rpcConn # NoConn /\ link[rpcConn] # "open"
  /\ CallFailed(p)
  /\ UNCHANGED <<locals, ctxVars, stopVars, conn, rpcVars, linkVars, flags, exit>>

\* A write over a socket the peer has dropped may still succeed.
CallSent(p) ==
  /\ Running /\ pc[p] = "call"
  /\ rpcConn # NoConn /\ link[rpcConn] \in {"open", "broken"}
  /\ using' = [using EXCEPT ![p] = rpcConn]
  /\ Goto(p, "await")
  /\ UNCHANGED <<reply, waitCtx, waitStop, ctxVars, stopVars, conn, rpcVars, linkVars, flags, exit>>

\* The server answers and the reader, free, completes the call.
Answered(p, r) ==
  /\ Running /\ pc[p] = "await" /\ reply[p] = "none"
  /\ link[using[p]] = "open" /\ reader[using[p]] = "reading"
  /\ reply' = [reply EXCEPT ![p] = r]
  /\ UNCHANGED <<pc, using, waitCtx, waitStop, ctxVars, stopVars, conn, rpcVars, linkVars, flags, exit>>

CallOver(p) ==
  /\ using' = [using EXCEPT ![p] = NoConn]
  /\ reply' = [reply EXCEPT ![p] = "none"]

\* The monitor goes back to its select, onConnected to starting the monitor.
CallSucceeds(p) ==
  /\ Running /\ pc[p] = "await" /\ reply[p] = "ok"
  /\ CallOver(p)
  /\ Goto(p, IF p \in Heartbeats THEN "start" ELSE "spawn")
  /\ UNCHANGED <<waitCtx, waitStop, ctxVars, stopVars, conn, rpcVars, linkVars, flags, exit>>

\* An error answer, the end of the connection, or rpc.Client.ctx being done: the
\* select in Call takes either branch when the answer is there as well.
CallFails(p) ==
  /\ Running /\ pc[p] = "await"
  /\ \/ reply[p] = "error"
     \/ reply[p] = "none" /\ link[using[p]] = "closed"
     \/ rpcCancelled
  /\ CallOver(p)
  /\ CallFailed(p)
  /\ UNCHANGED <<waitCtx, waitStop, ctxVars, stopVars, conn, rpcVars, linkVars, flags, exit>>

-----------------------------------------------------------------------------
(* The heartbeat monitor.                                                  *)

\* onConnected starts it and ends: nobody receives from Client.connected.
StartHeartbeat(k) ==
  /\ Running /\ pc[OnConnected(k)] = "spawn"
  /\ pc' = [pc EXCEPT ![OnConnected(k)] = "done", ![Heartbeat(k)] = "start"]
  /\ UNCHANGED <<locals, ctxVars, stopVars, conn, rpcVars, linkVars, flags, exit>>

\* Each iteration evaluates c.heartbeatStop and c.ctx anew.
EnterSelect(k) ==
  LET p == Heartbeat(k) IN
  /\ Running /\ pc[p] = "start"
  /\ waitStop' = [waitStop EXCEPT ![p] = heartbeatStop]
  /\ waitCtx' = [waitCtx EXCEPT ![p] = ctx]
  /\ Goto(p, "select")
  /\ UNCHANGED <<using, reply, ctxVars, stopVars, conn, rpcVars, linkVars, flags, exit>>

Tick(k) ==
  /\ Running /\ pc[Heartbeat(k)] = "select"
  /\ Goto(Heartbeat(k), "call")
  /\ UNCHANGED <<locals, ctxVars, stopVars, conn, rpcVars, linkVars, flags, exit>>

HeartbeatStops(k) ==
  LET p == Heartbeat(k) IN
  /\ Running /\ pc[p] = "select"
  /\ waitStop[p] \in closedStop \/ waitCtx[p] \in cancelled
  /\ Goto(p, "done")
  /\ UNCHANGED <<locals, ctxVars, stopVars, conn, rpcVars, linkVars, flags, exit>>

-----------------------------------------------------------------------------
(* Closing sockets and connections.                                        *)

\* Close of the WebSocket itself: the reader finds out later.
CloseSocket(l, k) == IF k \in ConnId /\ l[k] \in {"dialled", "open"}
                     THEN [l EXCEPT ![k] = "broken"] ELSE l

\* Close of the jsonrpc2 connection: pending and later calls fail.
CloseJsonrpc(l, k) == IF k \in ConnId THEN [l EXCEPT ![k] = "closed"] ELSE l

\* rpc.Client.Close, which also cancels the one context its calls ever use.
CloseRpcClient ==
  /\ rpcCancelled' = TRUE
  /\ link' = CloseSocket(CloseJsonrpc(link, rpcConn), wsConn)
  /\ rpcConn' = NoConn /\ wsConn' = NoConn

\* close(c.heartbeatStop); closing a closed channel panics and ends the process.
CloseHeartbeatStop(p, next) ==
  IF heartbeatStop \in closedStop
  THEN exit' = "panic" /\ UNCHANGED <<pc, closedStop>>
  ELSE /\ closedStop' = closedStop \cup {heartbeatStop}
       /\ Goto(p, next)
       /\ UNCHANGED exit

-----------------------------------------------------------------------------
(* forceReconnect, by the goroutine whose call failed.                     *)

\* Mutations: the flag is not looked at; the goroutine is started before the
\* old connection is torn down.
EnterReconnectAlways(p) ==
  /\ Running /\ pc[p] = "enter"
  /\ Goto(p, "closeStop") /\ reconnecting' = TRUE
  /\ UNCHANGED <<locals, ctxVars, stopVars, conn, rpcVars, linkVars, isShutdown,
                 gracefulShutdown, exit>>
EnterReconnectEarly(p) ==
  /\ Running /\ pc[p] = "enter"
  /\ ~reconnecting /\ reconnecting' = TRUE
  /\ pc' = [pc EXCEPT ![p] = "closeStop", ![Reconnector] = "check"]
  /\ UNCHANGED <<locals, ctxVars, stopVars, conn, rpcVars, linkVars, isShutdown,
                 gracefulShutdown, exit>>

\* Under reconnectMu: skip if a reconnection is in progress.
EnterReconnect(p) ==
  /\ Running /\ pc[p] = "enter"
  /\ \/ reconnecting /\ Goto(p, "skipped") /\ UNCHANGED reconnecting
     \/ ~reconnecting /\ Goto(p, "closeStop") /\ reconnecting' = TRUE
  /\ UNCHANGED <<locals, ctxVars, stopVars, conn, rpcVars, linkVars, isShutdown,
                 gracefulShutdown, exit>>

StopMonitor(p) ==
  /\ Running /\ pc[p] = "closeStop"
  /\ CloseHeartbeatStop(p, "renewStop")
  /\ UNCHANGED <<locals, ctxVars, heartbeatStop, conn, rpcVars, linkVars, flags>>

\* Mutation: the closed stop channel is kept.
RenewStopKeeps(p) ==
  /\ Running /\ pc[p] = "renewStop"
  /\ Goto(p, "closeConn")
  /\ UNCHANGED <<locals, stopVars, ctxVars, conn, rpcVars, linkVars, flags, exit>>

RenewStop(p) ==
  /\ Running /\ pc[p] = "renewStop"
  /\ heartbeatStop' = heartbeatStop + 1
  /\ Goto(p, "closeConn")
  /\ UNCHANGED <<locals, ctxVars, closedStop, conn, rpcVars, linkVars, flags, exit>>

CloseConn(p) ==
  /\ Running /\ pc[p] = "closeConn"
  /\ link' = CloseSocket(link, conn)
  /\ conn' = NoConn
  /\ Goto(p, "closeRpc")
  /\ UNCHANGED <<locals, ctxVars, stopVars, rpcVars, reader, flags, exit>>

CloseRpc(p) ==
  /\ Running /\ pc[p] = "closeRpc"
  /\ CloseRpcClient
  /\ Goto(p, "cancel")
  /\ UNCHANGED <<locals, ctxVars, stopVars, conn, reader, flags, exit>>

CancelContext(p) ==
  /\ Running /\ pc[p] = "cancel"
  /\ cancelled' = cancelled \cup {ctx}
  /\ Goto(p, "renewCtx")
  /\ UNCHANGED <<locals, ctx, stopVars, conn, rpcVars, linkVars, flags, exit>>

\* Mutations: the caller goes on after forceReconnect; the context stays cancelled.
RenewContextGoesOn(p) ==
  /\ Running /\ pc[p] = "renewCtx"
  /\ ctx' = ctx + 1
  /\ pc' = [pc EXCEPT ![p] = IF p \in Heartbeats THEN "start" ELSE "spawn", ![Reconnector] = "check"]
  /\ UNCHANGED <<locals, cancelled, stopVars, conn, rpcVars, linkVars, flags, exit>>
RenewContextKeeps(p) ==
  /\ Running /\ pc[p] = "renewCtx"
  /\ pc' = [pc EXCEPT ![p] = "done", ![Reconnector] = "check"]
  /\ UNCHANGED <<locals, ctxVars, stopVars, conn, rpcVars, linkVars, flags, exit>>

\* The new context; then the reconnector starts and the caller returns for good.
RenewContext(p) ==
  /\ Running /\ pc[p] = "renewCtx"
  /\ ctx' = ctx + 1
  /\ pc' = [pc EXCEPT ![p] = "done", ![Reconnector] = "check"]
  /\ UNCHANGED <<locals, cancelled, stopVars, conn, rpcVars, linkVars, flags, exit>>

-----------------------------------------------------------------------------
(* SIGINT or SIGTERM: the signal goroutine receives one and calls Shutdown.*)

ReceiveSignal ==
  /\ Running /\ pc[Signal] = "idle"
  /\ gracefulShutdown' = TRUE
  /\ Goto(Signal, "mark")
  /\ UNCHANGED <<locals, ctxVars, stopVars, conn, rpcVars, linkVars, reconnecting, isShutdown, exit>>

MarkShutdown ==
  /\ Running /\ pc[Signal] = "mark"
  /\ isShutdown' = TRUE
  /\ Goto(Signal, "closeHeartbeat")
  /\ UNCHANGED <<locals, ctxVars, stopVars, conn, rpcVars, linkVars, reconnecting,
                 gracefulShutdown, exit>>

ShutdownStopsMonitor ==
  /\ Running /\ pc[Signal] = "closeHeartbeat"
  /\ CloseHeartbeatStop(Signal, "cancelCtx")
  /\ UNCHANGED <<locals, ctxVars, heartbeatStop, conn, rpcVars, linkVars, flags>>

\* Mutation: Shutdown forgets the context.
ShutdownCancelsNothing ==
  /\ Running /\ pc[Signal] = "cancelCtx"
  /\ Goto(Signal, "shutRpc")
  /\ UNCHANGED <<locals, ctxVars, stopVars, conn, rpcVars, linkVars, flags, exit>>

ShutdownCancels ==
  /\ Running /\ pc[Signal] = "cancelCtx"
  /\ cancelled' = cancelled \cup {ctx}
  /\ Goto(Signal, "shutRpc")
  /\ UNCHANGED <<locals, ctx, stopVars, conn, rpcVars, linkVars, flags, exit>>

ShutdownClosesRpc ==
  /\ Running /\ pc[Signal] = "shutRpc"
  /\ CloseRpcClient
  /\ Goto(Signal, "done")
  /\ UNCHANGED <<locals, ctxVars, stopVars, conn, reader, flags, exit>>

-----------------------------------------------------------------------------
(* The network and the read loop, which runs request handlers itself.      *)

LinkLost(k) ==
  /\ Running /\ link[k] \in {"dialled", "open"}
  /\ link' = [link EXCEPT ![k] = "broken"]
  /\ UNCHANGED <<pc, locals, ctxVars, stopVars, conn, rpcVars, reader, flags, exit>>

\* A read fails: the jsonrpc2 connection closes and fails its pending calls.
ReaderEnds(k) ==
  /\ Running /\ reader[k] = "reading" /\ link[k] \in {"broken", "closed"}
  /\ reader' = [reader EXCEPT ![k] = "ended"]
  /\ link' = [link EXCEPT ![k] = "closed"]
  /\ UNCHANGED <<pc, locals, ctxVars, stopVars, conn, rpcVars, flags, exit>>

RequestArrives(k) ==
  /\ Running /\ reader[k] = "reading" /\ link[k] = "open"
  /\ reader' = [reader EXCEPT ![k] = "handling"]
  /\ UNCHANGED <<pc, locals, ctxVars, stopVars, conn, rpcVars, link, flags, exit>>

HandlerReturns(k) ==
  /\ Running /\ reader[k] = "handling"
  /\ reader' = [reader EXCEPT ![k] = "reading"]
  /\ UNCHANGED <<pc, locals, ctxVars, stopVars, conn, rpcVars, link, flags, exit>>

-----------------------------------------------------------------------------
(* One step of each goroutine.                                             *)

ConnectStep(p) ==
  \/ CheckShutdown(p) \/ DialSucceeds(p) \/ DialRejected(p) \/ DialFails(p)
  \/ BackoffEnds(p) \/ BackoffCancelled(p) \/ SetWsConn(p) \/ SetRpcConn(p)

MainStep == ConnectStep(Main) \/ RunWaits \/ RunReturns

ReconnectorStep == ConnectStep(Reconnector) \/ ReconnectorEnds

CallStep(p) == CallUnsent(p) \/ CallSent(p) \/ CallSucceeds(p) \/ CallFails(p)

ReconnectStep(p) ==
  \/ EnterReconnect(p) \/ StopMonitor(p) \/ RenewStop(p) \/ CloseConn(p)
  \/ CloseRpc(p) \/ CancelContext(p) \/ RenewContext(p)

OnConnectedStep(k) ==
  CallStep(OnConnected(k)) \/ ReconnectStep(OnConnected(k)) \/ StartHeartbeat(k)

HeartbeatStep(k) ==
  \/ CallStep(Heartbeat(k)) \/ ReconnectStep(Heartbeat(k))
  \/ EnterSelect(k) \/ Tick(k) \/ HeartbeatStops(k)

ReaderStep(k) == ReaderEnds(k) \/ HandlerReturns(k)

SignalStep ==
  MarkShutdown \/ ShutdownStopsMonitor \/ ShutdownCancels \/ ShutdownClosesRpc

\* What the network, the server and the operator may do, and need not.
Environment ==
  \/ \E p \in Callers, r \in {"ok", "error"} : Answered(p, r)
  \/ \E k \in ConnId : LinkLost(k) \/ RequestArrives(k)
  \/ ReceiveSignal

Next ==
  \/ MainStep \/ ReconnectorStep \/ SignalStep
  \/ \E k \in ConnId : OnConnectedStep(k) \/ HeartbeatStep(k) \/ ReaderStep(k)
  \/ Environment

Spec == Init /\ [][Next]_vars

\* Every goroutine runs on while it can.  Nothing is assumed of the network, the
\* server or the operator, except that a dial ends (the dialer's handshake has a
\* timeout) and that a provisioning script returns.
Fairness ==
  /\ WF_vars(MainStep) /\ WF_vars(ReconnectorStep) /\ WF_vars(SignalStep)
  /\ \A k \in ConnId :
       WF_vars(OnConnectedStep(k)) /\ WF_vars(HeartbeatStep(k)) /\ WF_vars(ReaderStep(k))

FairSpec == Spec /\ Fairness
-----------------------------------------------------------------------------
(* Properties.                                                             *)

LinkState   == {"unused", "dialled", "open", "broken", "closed"}
ReaderState == {"none", "reading", "handling", "ended"}
ExitState   == {"running", "ok", "error", "auth", "panic"}

\* Every variable has its type.
TypeOK ==
  /\ pc \in [Proc -> PC]
  /\ using \in [Proc -> ConnId \cup {NoConn}]
  /\ reply \in [Proc -> {"none", "ok", "error"}]
  /\ waitCtx \in [Proc -> Nat] /\ waitStop \in [Proc -> Nat]
  /\ ctx \in Nat /\ cancelled \in SUBSET Nat
  /\ heartbeatStop \in Nat /\ closedStop \in SUBSET Nat
  /\ {conn, wsConn, rpcConn} \subseteq ConnId \cup {NoConn}
  /\ link \in [ConnId -> LinkState] /\ reader \in [ConnId -> ReaderState]
  /\ {rpcCancelled, reconnecting, isShutdown, gracefulShutdown} \subseteq BOOLEAN
  /\ exit \in ExitState

\* A goroutine looks after the connection while it makes one, registers it,
\* monitors it, or tears it down to make the next one.
SupervisorPC == ConnectPC \cup CallPC \cup ReconnectPC
Supervises(p) == pc[p] \in SupervisorPC

\* The goroutines hand the connection over to one another: connect to the
\* callback, the callback to its monitor, either to forceReconnect's goroutine.
\* There are never two of them at it, so no two connections are made at a time,
\* no two monitors run, and no two goroutines are inside forceReconnect.
AtMostOneSupervisor ==
  \A p, q \in Proc : Supervises(p) /\ Supervises(q) => p = q

\* forceReconnect starts its goroutine only when the previous one has ended: the
\* flag reconnecting covers the body of forceReconnect and the whole goroutine.
NoReconnectorOverlap ==
  \A p \in Callers : pc[p] \in ReconnectPC => pc[Reconnector] \in {"idle", "gaveUp"}

\* close(c.heartbeatStop) in forceReconnect closes a live channel each time: the
\* process panics on it only if Shutdown closes the same channel.
PanicOnlyInShutdown == exit = "panic" => isShutdown

\* The agent never holds two usable connections: forceReconnect closes the old
\* one, wherever it is stored, before the next is dialled.
AtMostOneLiveLink ==
  \A j, k \in ConnId : link[j] \in {"dialled", "open"} /\ link[k] \in {"dialled", "open"} => j = k

\* A monitor stops without a failed heartbeat only because of Shutdown: the
\* channel and the context it selects on are never the ones another
\* forceReconnect retires.
NoSilentHeartbeatStop ==
  [][\A k \in ConnId : HeartbeatStops(k) => isShutdown]_vars

\* After Shutdown has marked the client, connection attempts die out: whatever
\* was being dialled, no goroutine stays in connect.
QuietAfterShutdown ==
  isShutdown ~> [](Running => \A p \in Connectors : pc[p] \notin ConnectPC)

\* The callback or the monitor of connection k is at its work, or its failure has been
\* dropped by forceReconnect.
Watches(k) == {pc[OnConnected(k)], pc[Heartbeat(k)]} \cap CallPC # {}
Dropped(k) == "skipped" \in {pc[OnConnected(k)], pc[Heartbeat(k)]}

\* Whoever looks after a connection that is closed finds out, however its last call went,
\* and a new round is begun: unless forceReconnect drops the failure, or a shutdown or
\* the end of the process is quicker.
LossNoticed ==
  \A k \in ConnId, c \in 0 .. Cardinality(ConnId) :
    (Watches(k) /\ link[k] = "closed" /\ ctx = c)
      ~> (ctx > c \/ Dropped(k) \/ isShutdown \/ ~Running)

\* forceReconnect drops a failure only while the reconnector that has made this very
\* connection has yet to clear its flag; a goroutine that is still connecting, that gave
\* up or that has ended never costs a failure its reconnection.
DropsOnlyInTheWindow ==
  [][\A p \in Callers :
       pc[p] = "enter" /\ pc'[p] = "skipped" => pc[Reconnector] = "returned"]_vars

\* A signal ends the process as long as no reconnection has replaced the context.
ShutdownBeforeReconnectExits ==
  (isShutdown /\ ctx = 0) ~> (~Running \/ ctx # 0)

-----------------------------------------------------------------------------
(* The duty of looking after the connection, as Supervision describes it.  *)

Phase ==
  CASE \E p \in Connectors : pc[p] \in ConnectPC     -> "connecting"
    [] \E p \in OnConnecteds : pc[p] \in CallPC      -> "registering"
    [] \E p \in Heartbeats : pc[p] \in CallPC        -> "monitoring"
    [] \E p \in Callers : pc[p] \in ReconnectPC      -> "reconnecting"
    [] OTHER                                         -> "none"

Duty == INSTANCE Supervision WITH
  phase <- Phase, round <- ctx, latched <- reconnecting,
  watched <- IF pc[Main] = "waiting" THEN waitCtx[Main] ELSE -1,
  signalled <- gracefulShutdown, running <- Running

\* The goroutines, callbacks and flags implement the one duty of Supervision.
HandsOnOneDuty == Duty!Spec

-----------------------------------------------------------------------------
(* What the documentation says and the code does not do.                   *)

\* README: automatic reconnection for connection failures.  So the process ends
\* only on a signal or an authentication error.
SurvivesConnectionLoss ==
  exit \in {"ok", "error"} => gracefulShutdown

\* README: graceful shutdown on SIGINT and SIGTERM.  So it does not panic ...
ShutdownDoesNotPanic == exit # "panic"

\* ... and ends.
ShutdownExits == gracefulShutdown ~> ~Running

\* client.go: an authentication failure should cause immediate exit.
AuthFailureExits == pc[Reconnector] = "rejected" ~> ~Running

\* README, --tunnel-timeout: the tunnel has a timeout.  So no call over it waits forever.
EveryCallEnds == \A p \in Callers : pc[p] = "await" ~> (pc[p] # "await" \/ ~Running)

\* client.go: a failed setClientId is logged as "triggering reconnection".  So it
\* is not the end of all supervision.
FailedCallReconnects ==
  \A p \in Callers : pc[p] = "enter" ~> (~Running \/ \E q \in Connectors : Supervises(q))
=============================================================================
