---------------------------- MODULE SessionKill ----------------------------
(***************************************************************************)
(* provisionSession: src/scripts/provision_session.go, which ends every    *)
(* process of a user, while the user goes on working.                      *)
(*                                                                         *)
(* The script tries systemctl on the user's slice, lists the processes     *)
(* (pgrep), signals them twice (pkill) and looks again.  Between any two   *)
(* of these steps the user's processes may fork or end and, as long as an  *)
(* authorized key is installed, the user may log in.  The revocation of    *)
(* that key by the other scripts (see module Provisioning) is one step     *)
(* here.                                                                   *)
(***************************************************************************)
EXTENDS Naturals, FiniteSets

CONSTANTS
  Pid,       \* the processes the user ever has (bounds the model)
  Stuck,     \* those that SIGKILL does not end: uninterruptible ones
  Failures   \* which commands may fail: "lookup", "pgrep", "pkill"

ASSUME SessionAssumption ==
  Stuck \subseteq Pid /\ Failures \subseteq {"lookup", "pgrep", "pkill"}

VARIABLES
  alive,      \* the processes of the user
  past,       \* those that have ended; a PID is not used again
  pc,         \* where the script is
  result,     \* what the script reported last
  keyed,      \* whether a key of the user is installed
  before,     \* the processes when the script began
  keyedThen   \* whether a key was installed when the script began

vars == <<alive, past, pc, result, keyed, before, keyedThen>>

userVars   == <<alive, past>>
recordVars == <<keyed, before, keyedThen>>

\* "none": no process found; "all": all are gone; "signalled": some may be left.
Succeeded == {"none", "all", "signalled"}
PC        == {"rest", "slice", "lookup", "list", "term", "kill", "verify"}

Init ==
  /\ alive \in SUBSET Pid /\ past = {}
  /\ pc = "rest" /\ result = "nothing"
  /\ keyed = TRUE /\ before = {} /\ keyedThen = TRUE

Ends(gone) == alive' = alive \ gone /\ past' = past \cup gone

Reports(r) == pc' = "rest" /\ result' = r

-----------------------------------------------------------------------------
\* A request arrives.  A grant, or an invalid name, is refused.
Begin ==
  /\ pc = "rest"
  /\ pc' = "slice" /\ result' = "nothing"
  /\ before' = alive /\ keyedThen' = keyed
  /\ UNCHANGED <<userVars, keyed>>

Refused ==
  /\ pc = "rest" /\ result' = "failed"
  /\ UNCHANGED <<userVars, pc, recordVars>>

\* systemctl kill sends SIGTERM to the slice if there is one by that name, and
\* some of its processes end.  The outcome only shows in the message.
KillSlice ==
  /\ pc = "slice" /\ pc' = "lookup"
  /\ \/ UNCHANGED userVars
     \/ \E gone \in SUBSET (alive \ Stuck) : Ends(gone)
  /\ UNCHANGED <<result, recordVars>>

\* Mutation: a failing lookup is reported, and the script goes on.
LookupUserGoesOn ==
  /\ pc = "lookup" /\ pc' = "list"
  /\ \/ UNCHANGED result
     \/ "lookup" \in Failures /\ result' = "failed"
  /\ UNCHANGED <<userVars, recordVars>>

LookupUser ==
  /\ pc = "lookup"
  /\ \/ pc' = "list" /\ UNCHANGED result
     \/ "lookup" \in Failures /\ Reports("failed")
  /\ UNCHANGED <<userVars, recordVars>>

\* Mutation: any error of pgrep is taken for an empty list.
ListProcessesLeniently ==
  /\ pc = "list"
  /\ \/ alive = {} /\ Reports("none")
     \/ alive # {} /\ pc' = "term" /\ UNCHANGED result
     \/ "pgrep" \in Failures /\ Reports("none")
  /\ UNCHANGED <<userVars, recordVars>>

\* pgrep exits with 1 when it finds nothing, which is success whatever systemctl did.
ListProcesses ==
  /\ pc = "list"
  /\ \/ alive = {} /\ Reports("none")
     \/ alive # {} /\ pc' = "term" /\ UNCHANGED result
     \/ "pgrep" \in Failures /\ Reports("failed")
  /\ UNCHANGED <<userVars, recordVars>>

\* pkill -TERM; whatever comes of it, the script goes on.
SendTerm ==
  /\ pc = "term" /\ pc' = "kill"
  /\ \/ \E gone \in SUBSET (alive \ Stuck) : Ends(gone)
     \/ "pkill" \in Failures /\ UNCHANGED userVars
  /\ UNCHANGED <<result, recordVars>>

\* pkill -KILL ends every process but the stuck ones.
SendKill ==
  /\ pc = "kill" /\ pc' = "verify"
  /\ \/ Ends(alive \ Stuck)
     \/ "pkill" \in Failures /\ UNCHANGED userVars
  /\ UNCHANGED <<result, recordVars>>

\* Mutations: the second pgrep is not believed, or starts all over again.
VerifyNothing ==
  /\ pc = "verify" /\ Reports("all")
  /\ UNCHANGED <<userVars, recordVars>>

VerifyRetries ==
  /\ pc = "verify"
  /\ \/ alive = {} /\ Reports("all")
     \/ alive # {} /\ pc' = "list" /\ UNCHANGED result
  /\ UNCHANGED <<userVars, recordVars>>

\* Whatever pgrep answers the second time, the script succeeds.
Verify ==
  /\ pc = "verify"
  /\ \/ alive = {} /\ Reports("all")
     \/ alive # {} /\ Reports("signalled")
     \/ "pgrep" \in Failures /\ Reports("signalled")
  /\ UNCHANGED <<userVars, recordVars>>

-----------------------------------------------------------------------------
(* The user and the backend.                                               *)

Fresh == Pid \ (alive \cup past)

\* A login needs a key; any other process is the child of one.
Starts(p) ==
  /\ p \in Fresh /\ (keyed \/ alive # {})
  /\ alive' = alive \cup {p}
  /\ UNCHANGED <<past, pc, result, recordVars>>

Exits(p) ==
  /\ p \in alive /\ Ends({p})
  /\ UNCHANGED <<pc, result, recordVars>>

\* The backend has the key revoked.
KeyRevoked ==
  /\ keyed /\ keyed' = FALSE
  /\ UNCHANGED <<userVars, pc, result, before, keyedThen>>

ScriptStep ==
  KillSlice \/ LookupUser \/ ListProcesses \/ SendTerm \/ SendKill \/ Verify

Next ==
  \/ Begin \/ Refused \/ ScriptStep
  \/ \E p \in Pid : Starts(p) \/ Exits(p)
  \/ KeyRevoked

Spec == Init /\ [][Next]_vars

\* The script goes on; time.Sleep and the commands end.
FairSpec == Spec /\ WF_vars(ScriptStep)
-----------------------------------------------------------------------------
(* Properties.                                                             *)

\* Every variable has its type, and a script that runs has not answered.
TypeOK ==
  /\ alive \subseteq Pid /\ past \subseteq Pid /\ alive \cap past = {}
  /\ pc \in PC /\ result \in Succeeded \cup {"nothing", "failed"}
  /\ pc # "rest" => result = "nothing"
  /\ before \subseteq Pid
  /\ {keyed, keyedThen} \subseteq BOOLEAN

\* A report that no process was found, or that all are gone, is true of every
\* process the user had when the script began, whatever was started meanwhile.
OldProcessesAreGone == result \in {"none", "all"} => before \cap alive = {}

\* If the key was revoked before the script began, such a report is final: the user
\* has no process left and gets none.
LockoutIsFinal == result \in {"none", "all"} /\ ~keyedThen => alive = {}

\* A request is answered, however fast the user starts processes.
ScriptEnds == pc # "rest" ~> pc = "rest"

-----------------------------------------------------------------------------
(* What the documentation says and the code does not do.                   *)

\* EXAMPLE: provisionSession finds and kills all processes of the user.  So none of
\* those it found is left after a success.
SuccessMeansKilled == result \in Succeeded => before \cap alive = {}

\* EXAMPLE: terminating the sessions, then revoking the key, locks the user out
\* completely.
LockedOut == result \in {"none", "all"} /\ ~keyed => alive = {}
=============================================================================
