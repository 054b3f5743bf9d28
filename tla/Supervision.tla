---------------------------- MODULE Supervision ----------------------------
(***************************************************************************)
(* What the client promises about who looks after its connection, without  *)
(* goroutines: one duty that is handed on in a fixed order,                *)
(*                                                                         *)
(*   connecting -> registering -> monitoring -> reconnecting -> connecting *)
(*                      |______________________^                           *)
(*                                                                         *)
(* counting the rounds.  A failed call is answered by a new round, or, as  *)
(* long as the latch of the last reconnection is set, by nothing: the duty *)
(* is dropped, and nothing in the agent picks it up again.  The process    *)
(* watches one round and ends with it.                                     *)
(***************************************************************************)
EXTENDS Integers

VARIABLES
  phase, round,
  latched,    \* the reconnection that began this round has not been cleared
  watched,    \* the round the process waits on, or Nobody's
  signalled,  \* the operator has asked for the end
  running

duty == <<phase, round, latched, watched, signalled, running>>

Phases == {"connecting", "registering", "monitoring", "reconnecting", "none"}
Nobody == -1

Init ==
  /\ phase = "connecting" /\ round = 0 /\ latched = FALSE
  /\ watched = Nobody /\ signalled = FALSE /\ running = TRUE

HandOn(from, to) == phase \in from /\ phase' = to /\ UNCHANGED <<watched, signalled, running>>

Connected  == HandOn({"connecting"}, "registering") /\ UNCHANGED <<round, latched>>
Registered == HandOn({"registering"}, "monitoring") /\ UNCHANGED <<round, latched>>

\* A call fails: the next round is prepared ...
Failed ==
  /\ HandOn({"registering", "monitoring"}, "reconnecting") /\ UNCHANGED round
  /\ ~latched /\ latched' = TRUE

\* ... and begun.
Redial == HandOn({"reconnecting"}, "connecting") /\ round' = round + 1 /\ UNCHANGED latched

\* A call fails in vain, the server rejects the agent, or a shutdown stops everything.
Dropped ==
  /\ HandOn({"connecting", "registering", "monitoring"}, "none") /\ UNCHANGED <<round, latched>>
  /\ latched \/ signalled

Settled ==
  /\ latched /\ latched' = FALSE /\ phase \notin {"connecting", "reconnecting"}
  /\ UNCHANGED <<phase, round, watched, signalled, running>>

Watched ==
  /\ watched = Nobody /\ watched' = round
  /\ round > 0 \/ phase # "connecting"
  /\ UNCHANGED <<phase, round, latched, signalled, running>>

Signalled == signalled' = TRUE /\ UNCHANGED <<phase, round, latched, watched, running>>

\* The round watched is over or about to be.
WatchIsOver == watched # Nobody /\ (watched < round \/ phase = "reconnecting")

\* The process ends: rejected at its first connection, with the round it watches, or
\* because it was asked to.
Stopped ==
  /\ signalled \/ WatchIsOver \/ (phase = "connecting" /\ round = 0)
  /\ running' = FALSE /\ phase' \in {phase, "none"} /\ watched' \in {watched, Nobody}
  /\ UNCHANGED <<round, latched, signalled>>

Next ==
  /\ running
  /\ \/ Connected \/ Registered \/ Failed \/ Redial \/ Dropped
     \/ Settled \/ Watched \/ Signalled \/ Stopped

Spec == Init /\ [][Next]_duty
=============================================================================
