------------------------------ MODULE Service ------------------------------
(***************************************************************************)
(* The agent as a service: systemd runs the process and starts it again    *)
(* when it ends, the process looks after the connection as Supervision     *)
(* says (which AgentClient implements), and connect waits as Backoff says. *)
(* The unit file is that of src/internal/osplugins/linux.go; nixos.go      *)
(* gives the same numbers.                                                 *)
(*                                                                         *)
(* Time is counted in the unit of Backoff.  What the program does at once  *)
(* takes no time: Elapse waits for all of it.  A call over a lost link     *)
(* fails at once in the callback, and at some later heartbeat in the       *)
(* monitor.  The operator may stop the service and does not start it again.*)
(***************************************************************************)
EXTENDS Backoff

CONSTANTS
  StartLimitInterval, StartLimitBurst, RestartSec,  \* the unit file
  Lives,      \* the steps in which time passes over a connection
  MaxRounds   \* connections a process may lose (bounds the model)

ASSUME ServiceAssumption ==
  /\ {StartLimitInterval, StartLimitBurst, RestartSec} \subseteq Nat \ {0}
  /\ Lives \subseteq Nat \ {0} /\ MaxRounds \in Nat

VARIABLES
  phase, round, latched, watched, signalled, running,  \* the process: see Supervision
  opened,     \* goroutines whose connect has its socket and has not returned
  unit,       \* the service, for systemd
  timer,      \* how long connect or systemd still waits
  age,        \* how long ago systemd's counting of the starts began
  starts,     \* the starts counted
  good,       \* whether the server accepts the agent, answers and keeps its link
  lost,       \* whether the link is lost
  waited,     \* how long the server has been good, and the agent not turned to it
  quiet,      \* how long ago a dial failed last
  answers,    \* dials answered since the counting began
  lived       \* how long processes ran since the counting began

duty        == <<phase, round, latched, watched, signalled, running>>
agent       == <<duty, opened>>
limit       == <<age, starts>>
server      == <<good, lost>>
observed    == <<waited, quiet, answers, lived>>
serviceVars == <<vars, agent, unit, timer, limit, server, observed>>

Process == INSTANCE Supervision

AtMost(n, max) == IF n > max THEN max ELSE n

\* A start: New makes a backoff of its own.
Started ==
  /\ phase' = "connecting" /\ round' = 0 /\ latched' = FALSE
  /\ watched' = Process!Nobody /\ running' = TRUE /\ opened' = {}
  /\ count' = 0 /\ delay' = 0 /\ unit' = "active"

ServiceInit ==
  /\ Init /\ Process!Init /\ opened = {}
  /\ unit = "active" /\ timer = 0 /\ age = 0 /\ starts = 1
  /\ good \in BOOLEAN /\ lost = FALSE
  /\ waited = 0 /\ quiet = StartDuration /\ answers = 0 /\ lived = 0

\* Mutation: systemd does not pause before the restart.
EndsWithoutPause ==
  /\ running /\ Process!Stopped /\ phase' = "none" /\ lost' = FALSE /\ opened' = {}
  /\ timer' = 0 /\ unit' = IF signalled THEN "stopped" ELSE "restarting"

\* The process ends.  Restart=always and RestartSec, unless it was asked to.
Ends ==
  /\ running /\ Process!Stopped /\ phase' = "none" /\ lost' = FALSE /\ opened' = {}
  /\ IF signalled THEN unit' = "stopped" /\ timer' = 0
     ELSE unit' = "restarting" /\ timer' = RestartSec

-----------------------------------------------------------------------------
(* connect.                                                                *)

Dials == running /\ phase = "connecting" /\ timer = 0

Connector == IF round = 0 THEN "main" ELSE "reconnector"

Answers == answers' = AtMost(answers + 1, StartLimitBurst)

\* A socket opens, at any server; that it is registered comes later.
Accepted ==
  /\ Dials /\ Process!Connected
  /\ opened' = opened \cup {Connector}
  /\ Answers
  /\ UNCHANGED <<vars, unit, timer, limit, server, waited, quiet, lived>>

\* connect resets the backoff and returns.
ConnectReturns(g) ==
  /\ running /\ g \in opened /\ opened' = opened \ {g}
  /\ Reset
  /\ UNCHANGED <<duty, unit, timer, limit, server, observed>>

\* Mutation: a process that gets no socket ends.
DialFailsEnds ==
  /\ Dials /\ ~good /\ round = 0 /\ Ends /\ quiet' = 0
  /\ UNCHANGED <<vars, limit, good, waited, answers, lived>>

\* No socket: connect waits.
DialFails ==
  /\ Dials /\ ~good
  /\ NextDelay /\ timer' = delay' /\ quiet' = 0
  /\ UNCHANGED <<agent, unit, limit, server, waited, answers, lived>>

\* 401 or 403: Run returns it and the process ends; the reconnector gives up.
DialRejected ==
  /\ Dials /\ ~good
  /\ \/ round = 0 /\ Ends
     \/ round > 0 /\ Process!Dropped /\ UNCHANGED <<unit, timer, lost, opened>>
  /\ quiet' = 0 /\ Answers
  /\ UNCHANGED <<vars, limit, good, waited, lived>>

-----------------------------------------------------------------------------
(* The calls over a connection, and what follows a failed one.             *)

Calm == UNCHANGED <<vars, opened, unit, timer, limit, quiet, answers, lived>>

\* The callback's call is answered and the monitor takes over.
Registers ==
  /\ ~lost /\ running /\ Process!Registered /\ waited' = 0
  /\ Calm /\ UNCHANGED server

\* The link is lost, or the server answers with errors.
Loses ==
  /\ running /\ phase \in {"registering", "monitoring"} /\ ~good /\ ~lost /\ round < MaxRounds
  /\ lost' = TRUE
  /\ Calm /\ UNCHANGED <<duty, good, waited>>

\* Mutation: the monitor takes no notice of a failed heartbeat.
CallFailsUnheeded ==
  /\ lost /\ running /\ phase = "registering"
  /\ \/ Process!Failed /\ lost' = FALSE
     \/ Process!Dropped /\ UNCHANGED lost
  /\ Calm /\ UNCHANGED <<good, waited>>

\* forceReconnect, which may be skipped while the latch is set.
CallFails ==
  /\ lost /\ running
  /\ \/ Process!Failed /\ lost' = FALSE
     \/ Process!Dropped /\ UNCHANGED lost
  /\ Calm /\ UNCHANGED <<good, waited>>

Redials == running /\ Process!Redial /\ Calm /\ UNCHANGED <<server, waited>>

\* The reconnector's deferred function, after its connect has returned.
Settles ==
  /\ "reconnector" \notin opened /\ running /\ Process!Settled
  /\ Calm /\ UNCHANGED <<server, waited>>

\* Run waits on the context, after its connect has returned ...
Watches ==
  /\ "main" \notin opened /\ running /\ Process!Watched
  /\ Calm /\ UNCHANGED <<server, waited>>

\* ... and returns when it is cancelled.
RunReturns ==
  /\ Process!WatchIsOver /\ Ends
  /\ UNCHANGED <<vars, limit, good, waited, quiet, answers, lived>>

-----------------------------------------------------------------------------
(* systemd.                                                                *)

\* systemctl stop: SIGTERM, or no further start.
StopService ==
  /\ \/ running /\ ~signalled /\ Process!Signalled /\ UNCHANGED <<unit, timer>>
     \/ unit = "restarting" /\ unit' = "stopped" /\ timer' = 0 /\ UNCHANGED duty
  /\ waited' = 0
  /\ UNCHANGED <<vars, opened, limit, server, quiet, answers, lived>>

\* A process that does not end by the signal is killed.
Terminates ==
  /\ signalled /\ Ends
  /\ UNCHANGED <<vars, limit, good, waited, quiet, answers, lived>>

\* Mutation: the unit file sets no limit.
SystemdStartsAlways ==
  /\ unit = "restarting" /\ timer = 0 /\ Started
  /\ starts' = starts + 1
  /\ UNCHANGED <<saturates, signalled, timer, age, server, waited, quiet, answers, lived>>

\* A start within the interval counts; the first one after it begins a new count.
\* Beyond the burst the unit fails and is not started again.
SystemdStarts ==
  /\ unit = "restarting" /\ timer = 0
  /\ \/ /\ age > StartLimitInterval
        /\ age' = 0 /\ starts' = 1 /\ answers' = 0 /\ lived' = 0
        /\ Started
     \/ /\ age <= StartLimitInterval /\ starts < StartLimitBurst
        /\ starts' = starts + 1 /\ UNCHANGED <<age, answers, lived>>
        /\ Started
     \/ /\ age <= StartLimitInterval /\ starts = StartLimitBurst
        /\ unit' = "failed" /\ UNCHANGED <<limit, agent, count, delay, answers, lived>>
  /\ UNCHANGED <<saturates, signalled, timer, server, waited, quiet>>

-----------------------------------------------------------------------------
(* The server, and time.                                                   *)

ServerTurns ==
  /\ good' = ~good /\ waited' = 0
  /\ UNCHANGED <<vars, agent, unit, timer, limit, lost, quiet, answers, lived>>

\* Nothing is left that the goroutines do at once.
Idle ==
  /\ opened = {} /\ ~(latched /\ phase # "connecting") /\ ~Process!WatchIsOver
  /\ watched # Process!Nobody \/ (phase = "connecting" /\ round = 0)

\* How long the program or systemd waits for what comes next.
Waits ==
  IF unit \in {"failed", "stopped"} \/ (running /\ ~Idle) THEN {}
  ELSE IF unit = "restarting" \/ (running /\ phase = "connecting") THEN {timer} \ {0}
  ELSE IF phase = "registering" /\ (good \/ lost) THEN {}
  ELSE Lives

\* The server may have become good at the beginning of the wait.
Elapse ==
  \E d \in Waits :
    /\ timer' = IF timer > 0 THEN timer - d ELSE 0
    /\ age' = AtMost(age + d, StartLimitInterval + 1)
    /\ quiet' = AtMost(quiet + d, StartDuration)
    /\ lived' = IF running THEN AtMost(lived + d, StartLimitInterval + 1) ELSE lived
    /\ good' \in BOOLEAN /\ (good => good')
    /\ waited' = IF good' /\ timer > 0 THEN waited + d ELSE 0
    /\ UNCHANGED <<vars, agent, unit, starts, lost, answers>>

-----------------------------------------------------------------------------
AgentStep ==
  \/ Accepted \/ DialFails \/ DialRejected
  \/ \E g \in {"main", "reconnector"} : ConnectReturns(g)
  \/ Registers \/ CallFails \/ Redials \/ Settles \/ Watches \/ RunReturns \/ Terminates

ServiceNext == AgentStep \/ SystemdStarts \/ Elapse \/ Loses \/ ServerTurns \/ StopService

\* The goroutines and systemd run on, and time passes; nothing is assumed of the server.
ServiceSpec ==
  /\ ServiceInit /\ [][ServiceNext]_serviceVars
  /\ WF_serviceVars(AgentStep) /\ WF_serviceVars(SystemdStarts) /\ WF_serviceVars(Elapse)
-----------------------------------------------------------------------------
(* Properties.                                                             *)

\* Every variable has its type.
ServiceTypeOK ==
  /\ TypeOK
  /\ phase \in Process!Phases /\ round \in 0..MaxRounds /\ watched \in -1..MaxRounds
  /\ {latched, signalled, running, good, lost} \subseteq BOOLEAN
  /\ opened \subseteq {"main", "reconnector"}
  /\ unit \in {"active", "restarting", "stopped", "failed"} /\ running = (unit = "active")
  /\ timer \in Nat /\ waited \in Nat /\ quiet \in 0..StartDuration
  /\ age \in 0..StartLimitInterval + 1 /\ lived \in 0..StartLimitInterval + 1
  /\ starts \in 1..StartLimitBurst /\ answers \in 0..StartLimitBurst

\* An outage alone never makes systemd give up: in the interval before, the server has
\* opened a socket for, or rejected, every process that systemd counted.
GivesUpOnlyWhenAnswered == unit = "failed" => answers = StartLimitBurst

\* Nor do connections that last: when systemd gives up, the processes it counted ran for
\* no longer than the interval leaves beside the pauses between them.
GivesUpOnShortLives ==
  unit = "failed" => lived + StartLimitBurst * RestartSec <= StartLimitInterval

\* Once the server is good again, the agent that looks for it is registered within the
\* longest wait there is, however long the outage and however the last process ended.
RecoversInTime == waited <= MaxDuration \/ waited <= RestartSec

\* A failed dial is followed by another one no sooner than the start duration less its
\* jitter, by whatever process.
FailedDialsAreSpaced ==
  [][Accepted \/ DialFails \/ DialRejected => 4 * quiet >= 3 * StartDuration]_serviceVars

\* With a server that stays good the agent ends up monitoring a live link for good, unless
\* systemd has given up or the supervision was dropped.
ReachesServer ==
  <>[]good => \/ <>[](running /\ phase = "monitoring" /\ ~lost)
              \/ <>[](unit \in {"failed", "stopped"})
              \/ <>[](running /\ phase = "none")

-----------------------------------------------------------------------------
(* What the documentation says and the code does not do.                   *)

\* README: automatic reconnection with exponential backoff for connection failures.  So
\* the backoff of a process starts anew only when the agent has been registered ...
BackoffOutlivesSockets == [][running /\ running' /\ count' < count => phase = "monitoring"]_serviceVars

\* ... and the machine is not left without an agent.
NeverGivesUp == unit # "failed"
=============================================================================
