---------------------------- MODULE ServiceProofs ---------------------------
(***************************************************************************)
(* When systemd gives the agent up and how soon the agent recovers, for    *)
(* all durations, limits and numbers of connections lost.                  *)
(*                                                                         *)
(* Each property has an invariant that says the same of the time before:   *)
(* how far the answers, the interval, the wait and the pause have got.     *)
(***************************************************************************)
EXTENDS Service, BackoffProofs

\* What a process may be doing: a connection is lost only while there is one to lose or
\* the supervision is dropped, and it is connect or systemd that waits.
Doing ==
  /\ ~running => phase = "none" /\ opened = {} /\ ~lost
  /\ lost => phase \in {"registering", "monitoring", "none"} /\ round < MaxRounds
  /\ phase = "reconnecting" => round < MaxRounds
  /\ timer > 0 => unit = "restarting" \/ (running /\ phase = "connecting")

\* The running process has had an answer.
Answered == phase # "connecting" \/ round > 0

\* All processes counted were answered, but for the last one as long as it is dialling.
AnsweredInv ==
  /\ running /\ watched # Process!Nobody => Answered
  /\ answers >= starts - 1
  /\ unit = "restarting" \/ (running /\ Answered) => answers >= starts
  /\ GivesUpOnlyWhenAnswered

\* The pauses that are over, and the part that is over of the one there is.
Pauses == (starts - 1) * RestartSec
Paused == IF unit = "restarting" THEN RestartSec - timer ELSE 0

\* Lives and pauses have taken no more than the time there was.
LivesInv ==
  /\ unit = "restarting" => timer <= RestartSec
  /\ age > StartLimitInterval \/ lived + Pauses + Paused <= age
  /\ GivesUpOnShortLives

\* The agent waits once after the server has become good, and is then let in.
WaitInv ==
  /\ ~good => waited = 0
  /\ waited > 0 => /\ ~lost
                   /\ running => phase \in {"connecting", "registering"} /\ ~Process!WatchIsOver
  /\ waited + timer <= MaxDuration \/ waited + timer <= RestartSec

ServiceInv == ServiceTypeOK /\ Doing /\ AnsweredInv /\ LivesInv /\ WaitInv

\* What remains of a wait makes up for the time since the last failed dial.
Spaced ==
  unit = "restarting" \/ (running /\ phase # "none")
    => 4 * (quiet + timer) >= 3 * StartDuration

-----------------------------------------------------------------------------
\* A wait has the bounds of Backoff.
LEMMA WaitRange ==
  ASSUME TypeOK, NextDelay
  PROVE  delay' \in Nat /\ 4 * delay' >= 3 * StartDuration /\ delay' <= MaxDuration
<1>1. count' \in 1 .. MaxCount /\ saturates \in BOOLEAN
  BY CountAssumption DEF NextDelay, TypeOK
<1> QED BY <1>1, DelayRange DEF NextDelay

\* What waits is over when time has passed: a wait is not looked at before it ends.
LEMMA WholeWait ==
  ASSUME ServiceTypeOK, Doing, NEW d \in Waits
  PROVE  d \in Nat /\ (timer > 0 \/ unit = "restarting" => d = timer)
<1>1. timer > 0 => /\ unit = "restarting" \/ (running /\ phase = "connecting")
                   /\ ~(unit \in {"failed", "stopped"} \/ (running /\ ~Idle))
  BY DEF ServiceTypeOK, Doing, Waits
<1> QED BY <1>1, ServiceAssumption DEF ServiceTypeOK, Waits

\* A step keeps to what the process may be doing.
LEMMA DoingStep ==
  ASSUME ServiceTypeOK, Doing, ServiceNext
  PROVE  Doing'
<1> USE DurationAssumption, ServiceAssumption DEF vars, duty, agent, limit, server,
       observed, ServiceTypeOK, TypeOK, Doing
<1>1. CASE Accepted
  BY <1>1 DEF Accepted, Dials, Connector, Answers, AtMost, Process!Connected,
     Process!HandOn
<1>2. CASE DialFails
  BY <1>2 DEF DialFails, Dials, NextDelay
<1>3. CASE DialRejected
  BY <1>3 DEF DialRejected, Dials, Answers, AtMost, Ends, Process!Stopped,
     Process!Dropped, Process!HandOn
<1>4. ASSUME NEW g \in {"main", "reconnector"}, ConnectReturns(g) PROVE Doing'
  BY <1>4 DEF ConnectReturns, Reset
<1>5. CASE Registers
  BY <1>5 DEF Registers, Calm, Process!Registered, Process!HandOn
<1>6. CASE CallFails
  BY <1>6 DEF CallFails, Calm, Process!Failed, Process!Dropped, Process!HandOn
<1>7. CASE Redials
  BY <1>7 DEF Redials, Calm, Process!Redial, Process!HandOn
<1>8. CASE Settles
  BY <1>8 DEF Settles, Calm, Process!Settled
<1>9. CASE Watches
  BY <1>9 DEF Watches, Calm, Process!Watched
<1>10. CASE RunReturns
  BY <1>10 DEF RunReturns, Ends, Process!Stopped
<1>11. CASE Terminates
  BY <1>11 DEF Terminates, Ends, Process!Stopped
<1>12. CASE SystemdStarts
  <2>1. ~running /\ ~lost /\ timer' = 0 /\ lost' = lost
    BY <1>12 DEF SystemdStarts, server, ServiceTypeOK, Doing
  <2>2. CASE Started
    BY <2>1, <2>2 DEF Started, Doing
  <2>3. CASE UNCHANGED agent
    BY <2>1, <2>3 DEF agent, duty, Doing
  <2> QED BY <1>12, <2>2, <2>3 DEF SystemdStarts
<1>13. CASE Elapse
  BY <1>13 DEF Elapse, Waits, Idle, AtMost
<1>14. CASE Loses
  BY <1>14 DEF Loses, Calm
<1>15. CASE ServerTurns
  BY <1>15 DEF ServerTurns
<1>16. CASE StopService
  BY <1>16 DEF StopService, Process!Signalled
<1> QED BY <1>1, <1>2, <1>3, <1>4, <1>5, <1>6, <1>7, <1>8, <1>9, <1>10, <1>11, <1>12,
     <1>13, <1>14, <1>15, <1>16 DEF ServiceNext, AgentStep

\* A start counts one more process, and only an answered one makes room for it.
LEMMA AnsweredStep ==
  ASSUME ServiceInv, ServiceNext
  PROVE  AnsweredInv'
<1> USE ServiceAssumption DEF vars, duty, agent, limit, server, observed, ServiceInv,
       ServiceTypeOK, Doing, AnsweredInv, Answered, GivesUpOnlyWhenAnswered,
       Process!WatchIsOver, Process!Nobody
<1>1. CASE Accepted
  BY <1>1 DEF Accepted, Dials, Connector, Answers, AtMost, Process!Connected,
     Process!HandOn
<1>2. CASE DialFails
  BY <1>2 DEF DialFails, Dials, NextDelay
<1>3. CASE DialRejected
  BY <1>3 DEF DialRejected, Dials, Answers, AtMost, Ends, Process!Stopped,
     Process!Dropped, Process!HandOn
<1>4. ASSUME NEW g \in {"main", "reconnector"}, ConnectReturns(g) PROVE AnsweredInv'
  BY <1>4 DEF ConnectReturns, Reset
<1>5. CASE Registers
  BY <1>5 DEF Registers, Calm, Process!Registered, Process!HandOn
<1>6. CASE CallFails
  BY <1>6 DEF CallFails, Calm, Process!Failed, Process!Dropped, Process!HandOn
<1>7. CASE Redials
  BY <1>7 DEF Redials, Calm, Process!Redial, Process!HandOn
<1>8. CASE Settles
  BY <1>8 DEF Settles, Calm, Process!Settled
<1>9. CASE Watches
  BY <1>9 DEF Watches, Calm, Process!Watched
<1>10. CASE RunReturns
  BY <1>10 DEF RunReturns, Ends, Process!Stopped
<1>11. CASE Terminates
  BY <1>11 DEF Terminates, Ends, Process!Stopped
<1>12. CASE SystemdStarts
  BY <1>12 DEF SystemdStarts, Started
<1>13. CASE Elapse
  BY <1>13 DEF Elapse, Waits, Idle, AtMost
<1>14. CASE Loses
  BY <1>14 DEF Loses, Calm
<1>15. CASE ServerTurns
  BY <1>15 DEF ServerTurns
<1>16. CASE StopService
  BY <1>16 DEF StopService, Process!Signalled
<1> QED BY <1>1, <1>2, <1>3, <1>4, <1>5, <1>6, <1>7, <1>8, <1>9, <1>10, <1>11, <1>12,
     <1>13, <1>14, <1>15, <1>16 DEF ServiceNext, AgentStep

\* Time adds to a life or to a pause what it adds to the interval.
LEMMA LivesStep ==
  ASSUME ServiceInv, ServiceNext
  PROVE  LivesInv'
<1> USE ServiceAssumption DEF vars, duty, agent, limit, server, observed, ServiceInv,
       ServiceTypeOK, Doing, LivesInv, Pauses, Paused, GivesUpOnShortLives
<1>1. CASE Accepted
  BY <1>1 DEF Accepted, Dials, Connector, Answers, AtMost, Process!Connected,
     Process!HandOn
<1>2. CASE DialFails
  BY <1>2 DEF DialFails, Dials, NextDelay
<1>3. CASE DialRejected
  BY <1>3 DEF DialRejected, Dials, Answers, AtMost, Ends, Process!Stopped,
     Process!Dropped, Process!HandOn
<1>4. ASSUME NEW g \in {"main", "reconnector"}, ConnectReturns(g) PROVE LivesInv'
  BY <1>4 DEF ConnectReturns, Reset
<1>5. CASE Registers
  BY <1>5 DEF Registers, Calm, Process!Registered, Process!HandOn
<1>6. CASE CallFails
  BY <1>6 DEF CallFails, Calm, Process!Failed, Process!Dropped, Process!HandOn
<1>7. CASE Redials
  BY <1>7 DEF Redials, Calm, Process!Redial, Process!HandOn
<1>8. CASE Settles
  BY <1>8 DEF Settles, Calm, Process!Settled
<1>9. CASE Watches
  BY <1>9 DEF Watches, Calm, Process!Watched
<1>10. CASE RunReturns
  BY <1>10 DEF RunReturns, Ends, Process!Stopped
<1>11. CASE Terminates
  BY <1>11 DEF Terminates, Ends, Process!Stopped
<1>12. CASE SystemdStarts
  BY <1>12 DEF SystemdStarts, Started
<1>13. CASE Elapse
  <2>1. PICK d \in Waits : /\ timer' = IF timer > 0 THEN timer - d ELSE 0
                           /\ age' = AtMost(age + d, StartLimitInterval + 1)
                           /\ lived' = IF running THEN AtMost(lived + d, StartLimitInterval + 1)
                                       ELSE lived
                           /\ UNCHANGED <<unit, running, starts>>
    BY <1>13 DEF Elapse, agent, duty
  <2>2. d \in Nat /\ (unit = "restarting" => d = timer) /\ unit # "failed"
    BY WholeWait DEF Waits, ServiceInv
  <2>3. PICK p \in Int : Pauses = p /\ Pauses' = p
    BY <2>1 DEF Pauses, ServiceInv, ServiceTypeOK
  <2> USE DEF AtMost, Paused, ServiceInv, ServiceTypeOK, LivesInv
  <2>4. (unit = "restarting" => timer <= RestartSec)'
    BY <2>1, <2>2
  <2>5. (age > StartLimitInterval \/ lived + Pauses + Paused <= age)'
    <3>1. age' = IF age + d > StartLimitInterval + 1 THEN StartLimitInterval + 1 ELSE age + d
      BY <2>1
    <3>2. PICK l \in Nat : lived' = l /\ l <= lived + d /\ (~running => l = lived)
      BY <2>1, <2>2
    <3>3. CASE unit = "restarting"
      <4>0. timer' = 0 /\ unit' = unit /\ timer = d /\ RestartSec \in Nat
        BY <2>1, <2>2, <3>3
      <4>1. Paused' = RestartSec
        BY <3>3, <4>0
      <4>2. Paused = RestartSec - d
        BY <3>3, <4>0
      <4>3. ~running
        BY <3>3
      <4> QED BY <2>2, <2>3, <3>1, <3>2, <4>0, <4>1, <4>2, <4>3
    <3>4. CASE unit # "restarting"
      <4>1. Paused' = 0 /\ Paused = 0
        BY <2>1, <3>4
      <4> QED BY <2>2, <2>3, <3>1, <3>2, <4>1
    <3> QED BY <3>3, <3>4
  <2> QED BY <2>1, <2>2, <2>4, <2>5 DEF GivesUpOnShortLives
<1>14. CASE Loses
  BY <1>14 DEF Loses, Calm
<1>15. CASE ServerTurns
  BY <1>15 DEF ServerTurns
<1>16. CASE StopService
  BY <1>16 DEF StopService, Process!Signalled
<1> QED BY <1>1, <1>2, <1>3, <1>4, <1>5, <1>6, <1>7, <1>8, <1>9, <1>10, <1>11, <1>12,
     <1>13, <1>14, <1>15, <1>16 DEF ServiceNext, AgentStep

\* Only a wait that had begun before the server became good stands in the way.
LEMMA WaitStep ==
  ASSUME ServiceInv, ServiceNext
  PROVE  WaitInv'
<1> USE ServiceAssumption, DurationAssumption DEF vars, duty, agent, limit, server,
       observed, ServiceInv, ServiceTypeOK, Doing, WaitInv, Process!WatchIsOver,
       Process!Nobody
<1>1. CASE Accepted
  BY <1>1 DEF Accepted, Dials, Connector, Answers, AtMost, Process!Connected,
     Process!HandOn
<1>2. CASE DialFails
  <2>1. delay' \in Nat /\ delay' <= MaxDuration
    BY <1>2, WaitRange DEF DialFails, ServiceInv, ServiceTypeOK
  <2>2. waited' = 0
    BY <1>2 DEF DialFails, ServiceInv, WaitInv
  <2>3. PICK t \in Nat : timer' = t /\ t <= MaxDuration
    BY <1>2, <2>1 DEF DialFails
  <2> QED BY <2>2, <2>3 DEF WaitInv
<1>3. CASE DialRejected
  BY <1>3 DEF DialRejected, Dials, Answers, AtMost, Ends, Process!Stopped,
     Process!Dropped, Process!HandOn
<1>4. ASSUME NEW g \in {"main", "reconnector"}, ConnectReturns(g) PROVE WaitInv'
  BY <1>4 DEF ConnectReturns, Reset
<1>5. CASE Registers
  BY <1>5 DEF Registers, Calm, Process!Registered, Process!HandOn
<1>6. CASE CallFails
  BY <1>6 DEF CallFails, Calm, Process!Failed, Process!Dropped, Process!HandOn
<1>7. CASE Redials
  BY <1>7 DEF Redials, Calm, Process!Redial, Process!HandOn
<1>8. CASE Settles
  BY <1>8 DEF Settles, Calm, Process!Settled
<1>9. CASE Watches
  BY <1>9 DEF Watches, Calm, Process!Watched
<1>10. CASE RunReturns
  BY <1>10 DEF RunReturns, Ends, Process!Stopped
<1>11. CASE Terminates
  BY <1>11 DEF Terminates, Ends, Process!Stopped
<1>12. CASE SystemdStarts
  BY <1>12 DEF SystemdStarts, Started
<1>13. CASE Elapse
  <2>1. PICK d \in Waits : /\ timer' = IF timer > 0 THEN timer - d ELSE 0
                           /\ good' \in BOOLEAN /\ (good => good')
                           /\ waited' = IF good' /\ timer > 0 THEN waited + d ELSE 0
                           /\ UNCHANGED <<phase, round, watched, running, unit, lost>>
    BY <1>13 DEF Elapse, agent, duty
  <2>2. ASSUME timer > 0
        PROVE  /\ d = timer /\ ~lost
               /\ running => phase = "connecting" /\ ~Process!WatchIsOver
    <3>1. /\ (unit = "restarting" /\ ~running) \/ (running /\ phase = "connecting")
          /\ running => unit = "active"
          /\ ~lost
      BY <2>2 DEF ServiceInv, ServiceTypeOK, Doing
    <3>2. ASSUME running, ~Idle PROVE FALSE
      <4>1. Waits = {}
        BY <3>2 DEF Waits
      <4> QED BY <4>1
    <3>3. d = timer
      BY <2>2, WholeWait DEF ServiceInv
    <3> QED BY <3>1, <3>2, <3>3 DEF Idle
  <2> QED BY <2>1, <2>2 DEF ServiceInv, ServiceTypeOK, WaitInv, Process!WatchIsOver
<1>14. CASE Loses
  BY <1>14 DEF Loses, Calm
<1>15. CASE ServerTurns
  BY <1>15 DEF ServerTurns
<1>16. CASE StopService
  BY <1>16 DEF StopService, Process!Signalled
<1> QED BY <1>1, <1>2, <1>3, <1>4, <1>5, <1>6, <1>7, <1>8, <1>9, <1>10, <1>11, <1>12,
     <1>13, <1>14, <1>15, <1>16 DEF ServiceNext, AgentStep

\* Which values the flags and sets have, and which the numbers.
Flags ==
  /\ phase \in Process!Phases /\ opened \subseteq {"main", "reconnector"}
  /\ latched \in BOOLEAN /\ signalled \in BOOLEAN /\ running \in BOOLEAN
  /\ good \in BOOLEAN /\ lost \in BOOLEAN
  /\ unit \in {"active", "restarting", "stopped", "failed"} /\ running = (unit = "active")
Numbers ==
  /\ round \in 0 .. MaxRounds /\ watched \in -1 .. MaxRounds
  /\ timer \in Nat /\ waited \in Nat /\ quiet \in 0 .. StartDuration
  /\ age \in 0 .. StartLimitInterval + 1 /\ lived \in 0 .. StartLimitInterval + 1
  /\ starts \in 1 .. StartLimitBurst /\ answers \in 0 .. StartLimitBurst

LEMMA TypeParts == ServiceTypeOK <=> TypeOK /\ Flags /\ Numbers
BY DEF ServiceTypeOK, Flags, Numbers

\* A step keeps the values of the flags and sets ...
LEMMA FlagsStep ==
  ASSUME Flags, Doing, ServiceNext
  PROVE  Flags'
<1> USE DEF vars, duty, agent, limit, server, observed, Flags, Doing, Process!Phases
<1>1. CASE Accepted
  BY <1>1 DEF Accepted, Dials, Connector, Answers, AtMost, Process!Connected,
     Process!HandOn
<1>2. CASE DialFails
  BY <1>2 DEF DialFails, Dials, NextDelay
<1>3. CASE DialRejected
  BY <1>3 DEF DialRejected, Dials, Answers, AtMost, Ends, Process!Stopped,
     Process!Dropped, Process!HandOn
<1>4. ASSUME NEW g \in {"main", "reconnector"}, ConnectReturns(g) PROVE Flags'
  BY <1>4 DEF ConnectReturns, Reset
<1>5. CASE Registers
  BY <1>5 DEF Registers, Calm, Process!Registered, Process!HandOn
<1>6. CASE CallFails
  BY <1>6 DEF CallFails, Calm, Process!Failed, Process!Dropped, Process!HandOn
<1>7. CASE Redials
  BY <1>7 DEF Redials, Calm, Process!Redial, Process!HandOn
<1>8. CASE Settles
  BY <1>8 DEF Settles, Calm, Process!Settled
<1>9. CASE Watches
  BY <1>9 DEF Watches, Calm, Process!Watched
<1>10. CASE RunReturns
  BY <1>10 DEF RunReturns, Ends, Process!Stopped
<1>11. CASE Terminates
  BY <1>11 DEF Terminates, Ends, Process!Stopped
<1>12. CASE SystemdStarts
  BY <1>12 DEF SystemdStarts, Started
<1>13. CASE Elapse
  BY <1>13 DEF Elapse, Waits, Idle, AtMost
<1>14. CASE Loses
  BY <1>14 DEF Loses, Calm
<1>15. CASE ServerTurns
  BY <1>15 DEF ServerTurns
<1>16. CASE StopService
  BY <1>16 DEF StopService, Process!Signalled
<1> QED BY <1>1, <1>2, <1>3, <1>4, <1>5, <1>6, <1>7, <1>8, <1>9, <1>10, <1>11, <1>12,
     <1>13, <1>14, <1>15, <1>16 DEF ServiceNext, AgentStep

\* ... those of the numbers ...
LEMMA NumbersStep ==
  ASSUME TypeOK, Flags, Numbers, Doing, ServiceNext
  PROVE  Numbers'
<1> USE ServiceAssumption, DurationAssumption DEF vars, duty, agent, limit, server,
       observed, Flags, Numbers, TypeOK, Doing, Process!Nobody
<1>1. CASE Accepted
  BY <1>1 DEF Accepted, Dials, Connector, Answers, AtMost, Process!Connected,
     Process!HandOn
<1>2. CASE DialFails
  <2>1. timer' \in Nat
    BY <1>2, WaitRange DEF DialFails
  <2> QED BY <1>2, <2>1 DEF DialFails, agent, duty, limit, Numbers
<1>3. CASE DialRejected
  BY <1>3 DEF DialRejected, Dials, Answers, AtMost, Ends, Process!Stopped,
     Process!Dropped, Process!HandOn
<1>4. ASSUME NEW g \in {"main", "reconnector"}, ConnectReturns(g) PROVE Numbers'
  BY <1>4 DEF ConnectReturns, Reset
<1>5. CASE Registers
  BY <1>5 DEF Registers, Calm, Process!Registered, Process!HandOn
<1>6. CASE CallFails
  BY <1>6 DEF CallFails, Calm, Process!Failed, Process!Dropped, Process!HandOn
<1>7. CASE Redials
  BY <1>7 DEF Redials, Calm, Process!Redial, Process!HandOn
<1>8. CASE Settles
  BY <1>8 DEF Settles, Calm, Process!Settled
<1>9. CASE Watches
  BY <1>9 DEF Watches, Calm, Process!Watched
<1>10. CASE RunReturns
  BY <1>10 DEF RunReturns, Ends, Process!Stopped
<1>11. CASE Terminates
  BY <1>11 DEF Terminates, Ends, Process!Stopped
<1>12. CASE SystemdStarts
  BY <1>12 DEF SystemdStarts, Started
<1>13. CASE Elapse
  <2>1. PICK d \in Waits :
          /\ timer' = IF timer > 0 THEN timer - d ELSE 0
          /\ age' = AtMost(age + d, StartLimitInterval + 1)
          /\ quiet' = AtMost(quiet + d, StartDuration)
          /\ lived' = IF running THEN AtMost(lived + d, StartLimitInterval + 1) ELSE lived
          /\ waited' = IF good' /\ timer > 0 THEN waited + d ELSE 0
          /\ UNCHANGED <<round, watched, starts, answers>>
    BY <1>13 DEF Elapse, agent, duty
  <2>2. ServiceTypeOK /\ d \in Nat /\ (timer > 0 => d = timer)
    BY TypeParts, WholeWait
  <2> QED BY <2>1, <2>2 DEF Numbers, AtMost
<1>14. CASE Loses
  BY <1>14 DEF Loses, Calm
<1>15. CASE ServerTurns
  BY <1>15 DEF ServerTurns
<1>16. CASE StopService
  BY <1>16 DEF StopService, Process!Signalled
<1> QED BY <1>1, <1>2, <1>3, <1>4, <1>5, <1>6, <1>7, <1>8, <1>9, <1>10, <1>11, <1>12,
     <1>13, <1>14, <1>15, <1>16 DEF ServiceNext, AgentStep

\* ... and those of the backoff.
LEMMA BackoffStep ==
  ASSUME ServiceTypeOK, ServiceNext
  PROVE  TypeOK'
<1> USE ServiceAssumption, DurationAssumption, CountAssumption DEF vars, duty, agent,
       limit, server, observed, ServiceTypeOK, TypeOK
<1>1. CASE Accepted
  BY <1>1 DEF Accepted, Dials, Connector, Answers, AtMost, Process!Connected,
     Process!HandOn
<1>2. CASE DialFails
  <2>1. delay' \in Nat /\ delay' <= MaxDuration /\ NextDelay
    BY <1>2, WaitRange DEF DialFails, ServiceTypeOK
  <2> QED BY <2>1 DEF NextDelay, ServiceTypeOK, TypeOK
<1>3. CASE DialRejected
  BY <1>3 DEF DialRejected, Dials, Answers, AtMost, Ends, Process!Stopped,
     Process!Dropped, Process!HandOn
<1>4. ASSUME NEW g \in {"main", "reconnector"}, ConnectReturns(g) PROVE TypeOK'
  BY <1>4 DEF ConnectReturns, Reset
<1>5. CASE Registers
  BY <1>5 DEF Registers, Calm, Process!Registered, Process!HandOn
<1>6. CASE CallFails
  BY <1>6 DEF CallFails, Calm, Process!Failed, Process!Dropped, Process!HandOn
<1>7. CASE Redials
  BY <1>7 DEF Redials, Calm, Process!Redial, Process!HandOn
<1>8. CASE Settles
  BY <1>8 DEF Settles, Calm, Process!Settled
<1>9. CASE Watches
  BY <1>9 DEF Watches, Calm, Process!Watched
<1>10. CASE RunReturns
  BY <1>10 DEF RunReturns, Ends, Process!Stopped
<1>11. CASE Terminates
  BY <1>11 DEF Terminates, Ends, Process!Stopped
<1>12. CASE SystemdStarts
  BY <1>12 DEF SystemdStarts, Started
<1>13. CASE Elapse
  BY <1>13 DEF Elapse, Waits, Idle, AtMost
<1>14. CASE Loses
  BY <1>14 DEF Loses, Calm
<1>15. CASE ServerTurns
  BY <1>15 DEF ServerTurns
<1>16. CASE StopService
  BY <1>16 DEF StopService, Process!Signalled
<1> QED BY <1>1, <1>2, <1>3, <1>4, <1>5, <1>6, <1>7, <1>8, <1>9, <1>10, <1>11, <1>12,
     <1>13, <1>14, <1>15, <1>16 DEF ServiceNext, AgentStep

\* A failed dial is followed by a wait or a pause that is long enough.
LEMMA SpacedStep ==
  ASSUME ServiceInv, Spaced, 4 * RestartSec >= 3 * StartDuration, ServiceNext
  PROVE  Spaced'
<1> USE ServiceAssumption, DurationAssumption DEF vars, duty, agent, limit, server,
       observed, ServiceInv, ServiceTypeOK, Doing, Spaced
<1>1. CASE Accepted
  BY <1>1 DEF Accepted, Dials, Connector, Answers, AtMost, Process!Connected,
     Process!HandOn
<1>2. CASE DialFails
  <2>1. 4 * delay' >= 3 * StartDuration /\ delay' \in Nat
    BY <1>2, WaitRange DEF DialFails, ServiceInv, ServiceTypeOK
  <2>2. PICK t \in Nat : timer' = t /\ 4 * t >= 3 * StartDuration
    BY <1>2, <2>1 DEF DialFails
  <2>3. quiet' = 0
    BY <1>2 DEF DialFails
  <2> QED BY <2>2, <2>3 DEF Spaced
<1>3. CASE DialRejected
  BY <1>3 DEF DialRejected, Dials, Answers, AtMost, Ends, Process!Stopped,
     Process!Dropped, Process!HandOn
<1>4. ASSUME NEW g \in {"main", "reconnector"}, ConnectReturns(g) PROVE Spaced'
  BY <1>4 DEF ConnectReturns, Reset
<1>5. CASE Registers
  BY <1>5 DEF Registers, Calm, Process!Registered, Process!HandOn
<1>6. CASE CallFails
  BY <1>6 DEF CallFails, Calm, Process!Failed, Process!Dropped, Process!HandOn
<1>7. CASE Redials
  BY <1>7 DEF Redials, Calm, Process!Redial, Process!HandOn
<1>8. CASE Settles
  BY <1>8 DEF Settles, Calm, Process!Settled
<1>9. CASE Watches
  BY <1>9 DEF Watches, Calm, Process!Watched
<1>10. CASE RunReturns
  BY <1>10 DEF RunReturns, Ends, Process!Stopped
<1>11. CASE Terminates
  BY <1>11 DEF Terminates, Ends, Process!Stopped
<1>12. CASE SystemdStarts
  BY <1>12 DEF SystemdStarts, Started
<1>13. CASE Elapse
  <2>1. PICK d \in Waits : /\ timer' = IF timer > 0 THEN timer - d ELSE 0
                           /\ quiet' = AtMost(quiet + d, StartDuration)
                           /\ UNCHANGED <<unit, running, phase>>
    BY <1>13 DEF Elapse, agent, duty
  <2>2. d \in Nat /\ (timer > 0 => d = timer)
    BY WholeWait DEF ServiceInv
  <2> QED BY <2>1, <2>2 DEF Spaced, ServiceInv, ServiceTypeOK, AtMost
<1>14. CASE Loses
  BY <1>14 DEF Loses, Calm
<1>15. CASE ServerTurns
  BY <1>15 DEF ServerTurns
<1>16. CASE StopService
  BY <1>16 DEF StopService, Process!Signalled
<1> QED BY <1>1, <1>2, <1>3, <1>4, <1>5, <1>6, <1>7, <1>8, <1>9, <1>10, <1>11, <1>12,
     <1>13, <1>14, <1>15, <1>16 DEF ServiceNext, AgentStep

-----------------------------------------------------------------------------
\* The initial state satisfies the invariant ...
LEMMA ServiceStarts == ServiceInit => ServiceInv /\ Spaced
<1> SUFFICES ASSUME ServiceInit PROVE ServiceInv /\ Spaced
  OBVIOUS
<1> USE ServiceAssumption, DurationAssumption, CountAssumption 
       DEF ServiceInit, Init, Process!Init
<1>1. ServiceTypeOK
  <2>1. TypeOK
    BY DEF TypeOK
  <2>2. Flags
    BY DEF Flags, Process!Phases
  <2>3. Numbers
    BY DEF Numbers, Process!Nobody
  <2> QED BY <2>1, <2>2, <2>3, TypeParts
<1>2. Doing /\ Spaced
  BY DEF Doing, Spaced
<1>3. AnsweredInv /\ WaitInv
  BY DEF AnsweredInv, Answered, GivesUpOnlyWhenAnswered, WaitInv, Process!Nobody
<1>4. LivesInv
  BY DEF LivesInv, Pauses, Paused, GivesUpOnShortLives
<1> QED BY <1>1, <1>2, <1>3, <1>4 DEF ServiceInv

\* ... and every step keeps it.
LEMMA ServiceStep == ServiceInv /\ [ServiceNext]_serviceVars => ServiceInv'
<1>1. ASSUME ServiceInv, ServiceNext PROVE ServiceInv'
  <2>1. TypeOK /\ Flags /\ Numbers /\ Doing /\ ServiceTypeOK
    BY <1>1, TypeParts DEF ServiceInv
  <2>2. ServiceTypeOK'
    <3>1. TypeOK' /\ Flags' /\ Numbers'
      BY <1>1, <2>1, BackoffStep, FlagsStep, NumbersStep
    <3> QED BY <3>1 DEF ServiceTypeOK, Flags, Numbers
  <2> QED BY <1>1, <2>1, <2>2, DoingStep, AnsweredStep, LivesStep, WaitStep DEF ServiceInv
<1>2. ASSUME ServiceInv, UNCHANGED serviceVars PROVE ServiceInv'
  <2> USE <1>2 DEF serviceVars, vars, agent, duty, limit, server, observed
  <2>1. ServiceTypeOK' /\ Doing'
    BY DEF ServiceInv, ServiceTypeOK, TypeOK, Doing, Process!Phases
  <2>2. AnsweredInv' /\ WaitInv'
    BY DEF ServiceInv, AnsweredInv, Answered, GivesUpOnlyWhenAnswered, WaitInv,
           Process!Nobody, Process!WatchIsOver
  <2>3. LivesInv'
    BY DEF ServiceInv, LivesInv, Pauses, Paused, GivesUpOnShortLives
  <2> QED BY <2>1, <2>2, <2>3 DEF ServiceInv
<1> QED BY <1>1, <1>2

LEMMA ServiceCorrect == ServiceSpec => []ServiceInv
BY ServiceStarts, ServiceStep, PTL DEF ServiceSpec

-----------------------------------------------------------------------------
\* Every variable has its type.
THEOREM ServiceTypeCorrect == ServiceSpec => []ServiceTypeOK
<1>1. ServiceInv => ServiceTypeOK
  BY DEF ServiceInv
<1> QED BY <1>1, ServiceCorrect, PTL

\* For any interval, burst and pause: systemd gives the agent up only after the server has
\* answered as many processes in the interval as the burst allows, never for an outage.
THEOREM OutageIsSurvived == ServiceSpec => []GivesUpOnlyWhenAnswered
<1>1. ServiceInv => GivesUpOnlyWhenAnswered
  BY DEF ServiceInv, AnsweredInv
<1> QED BY <1>1, ServiceCorrect, PTL

\* And only if those processes lived no longer than the interval leaves.
THEOREM LongLivesAreForgiven == ServiceSpec => []GivesUpOnShortLives
<1>1. ServiceInv => GivesUpOnShortLives
  BY DEF ServiceInv, LivesInv
<1> QED BY <1>1, ServiceCorrect, PTL

\* A server that is good again waits for the agent no longer than the longest wait.
THEOREM RecoveryInTime == ServiceSpec => []RecoversInTime
<1>1. ServiceInv => RecoversInTime
  <2> SUFFICES ASSUME ServiceInv PROVE RecoversInTime
    OBVIOUS
  <2>1. /\ timer \in Nat /\ waited \in Nat
        /\ waited + timer <= MaxDuration \/ waited + timer <= RestartSec
    BY DEF ServiceInv, ServiceTypeOK, WaitInv
  <2> QED BY <2>1, ServiceAssumption, DurationAssumption DEF RecoversInTime
<1> QED BY <1>1, ServiceCorrect, PTL

\* If the pause of systemd is no shorter than the shortest wait of connect, no dial
\* follows a failed one sooner than that, restarts included.
THEOREM FailedDialsSpaced ==
  ASSUME 4 * RestartSec >= 3 * StartDuration
  PROVE  ServiceSpec => FailedDialsAreSpaced
<1> DEFINE A == Accepted \/ DialFails \/ DialRejected => 4 * quiet >= 3 * StartDuration
           Inv == ServiceInv /\ Spaced
<1>1. ServiceInit => Inv
  BY ServiceStarts
<1>2. Inv /\ [ServiceNext]_serviceVars => Inv'
  <2>1. ASSUME Inv, UNCHANGED serviceVars PROVE Spaced'
    BY <2>1 DEF Spaced, serviceVars, agent, duty, observed
  <2> QED BY <2>1, ServiceStep, SpacedStep
<1>3. Inv => A
  BY DEF Accepted, DialFails, DialRejected, Dials, Spaced, ServiceInv, ServiceTypeOK
<1>4. Inv /\ [ServiceNext]_serviceVars => [A]_serviceVars
  BY <1>3
<1> QED BY <1>1, <1>2, <1>4, PTL DEF ServiceSpec, FailedDialsAreSpaced
=============================================================================
