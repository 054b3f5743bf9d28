------------------------- MODULE SessionKillProofs -------------------------
(***************************************************************************)
(* What a report of provisionSession is worth, for any set of processes,   *)
(* any stuck ones and any failing commands.  A PID is not used again, so   *)
(* the processes of the beginning can only get fewer; and a key that is    *)
(* revoked stays revoked, so without a process and a key none can start.   *)
(***************************************************************************)
EXTENDS SessionKill, TLAPS

\* The processes of the beginning are alive or have ended, and no key comes back.
Remembered ==
  /\ before \subseteq alive \cup past
  /\ ~keyedThen => ~keyed

ReportInv == TypeOK /\ Remembered /\ OldProcessesAreGone /\ LockoutIsFinal

-----------------------------------------------------------------------------
(* What the steps have in common.                                          *)

\* The processes only get fewer, and nothing is reported.
LEMMA EndingKeepsInv ==
  ASSUME ReportInv, NEW gone \in SUBSET alive, Ends(gone), pc' \in PC,
         pc' # "rest" => result' = "nothing", result' \in {result, "nothing"},
         UNCHANGED recordVars
  PROVE  ReportInv'
<1>1. alive' \subseteq alive /\ before' = before /\ keyed' = keyed /\ keyedThen' = keyedThen
  BY DEF Ends, recordVars
<1>2. TypeOK'
  BY <1>1 DEF ReportInv, TypeOK, Ends
<1>3. Remembered'
  BY <1>1 DEF ReportInv, Remembered, Ends
<1>4. OldProcessesAreGone' /\ LockoutIsFinal'
  BY <1>1 DEF ReportInv, OldProcessesAreGone, LockoutIsFinal
<1> QED BY <1>2, <1>3, <1>4 DEF ReportInv

\* The processes stay, and what is reported is that none is left, or less.
LEMMA ReportKeepsInv ==
  ASSUME ReportInv, UNCHANGED <<userVars, recordVars>>,
         pc' \in PC, result' \in Succeeded \cup {"nothing", "failed"},
         pc' # "rest" => result' = "nothing",
         result' \in {"none", "all"} => alive = {}
  PROVE  ReportInv'
BY DEF ReportInv, TypeOK, Remembered, OldProcessesAreGone, LockoutIsFinal,
       userVars, recordVars

\* The initial state satisfies the invariant.
LEMMA ReportInit == Init => ReportInv
BY DEF Init, ReportInv, TypeOK, Remembered, OldProcessesAreGone,
       LockoutIsFinal, PC, Succeeded

-----------------------------------------------------------------------------
\* Every step of the script, of the user and of the backend keeps the invariant.
LEMMA ReportStep == ReportInv /\ [Next]_vars => ReportInv'
<1> SUFFICES ASSUME ReportInv, [Next]_vars PROVE ReportInv'
  OBVIOUS
<1>t. TypeOK
  BY DEF ReportInv
<1>1. CASE Begin
  BY <1>1 DEF Begin, ReportInv, TypeOK, Remembered, OldProcessesAreGone,
              LockoutIsFinal, PC, Succeeded, userVars
<1>2. CASE Refused
  BY <1>2, <1>t, ReportKeepsInv DEF Refused, TypeOK, userVars, recordVars, PC, Succeeded
<1>3. CASE KillSlice
  <2>1. ASSUME NEW gone \in SUBSET (alive \ Stuck), Ends(gone) PROVE ReportInv'
    BY <1>3, <1>t, <2>1, EndingKeepsInv DEF KillSlice, TypeOK, PC
  <2>2. CASE UNCHANGED userVars
    BY <1>3, <1>t, <2>2, ReportKeepsInv DEF KillSlice, TypeOK, PC, Succeeded
  <2> QED BY <1>3, <2>1, <2>2 DEF KillSlice
<1>4. CASE LookupUser
  BY <1>4, <1>t, ReportKeepsInv DEF LookupUser, Reports, TypeOK, PC, Succeeded
<1>5. CASE ListProcesses
  BY <1>5, <1>t, ReportKeepsInv DEF ListProcesses, Reports, TypeOK, PC, Succeeded
<1>6. CASE SendTerm
  <2>1. ASSUME NEW gone \in SUBSET (alive \ Stuck), Ends(gone) PROVE ReportInv'
    BY <1>6, <1>t, <2>1, EndingKeepsInv DEF SendTerm, TypeOK, PC
  <2>2. CASE UNCHANGED userVars
    BY <1>6, <1>t, <2>2, ReportKeepsInv DEF SendTerm, TypeOK, PC, Succeeded
  <2> QED BY <1>6, <2>1, <2>2 DEF SendTerm
<1>7. CASE SendKill
  <2>1. CASE Ends(alive \ Stuck)
    BY <1>7, <1>t, <2>1, EndingKeepsInv DEF SendKill, TypeOK, PC
  <2>2. CASE UNCHANGED userVars
    BY <1>7, <1>t, <2>2, ReportKeepsInv DEF SendKill, TypeOK, PC, Succeeded
  <2> QED BY <1>7, <2>1, <2>2 DEF SendKill
<1>8. CASE Verify
  BY <1>8, <1>t, ReportKeepsInv DEF Verify, Reports, TypeOK, PC, Succeeded
<1>9. ASSUME NEW p \in Pid, Starts(p) PROVE ReportInv'
  BY <1>9 DEF Starts, Fresh, ReportInv, TypeOK, Remembered, OldProcessesAreGone, LockoutIsFinal,
     recordVars, Succeeded
<1>10. ASSUME NEW p \in Pid, Exits(p) PROVE ReportInv'
  BY <1>10, <1>t, EndingKeepsInv DEF Exits, TypeOK, recordVars
<1>11. CASE KeyRevoked
  BY <1>11 DEF KeyRevoked, ReportInv, TypeOK, Remembered, OldProcessesAreGone, LockoutIsFinal,
     userVars
<1>12. CASE UNCHANGED vars
  BY <1>12 DEF vars, ReportInv, TypeOK, Remembered, OldProcessesAreGone, LockoutIsFinal
<1> QED
  BY <1>1, <1>2, <1>3, <1>4, <1>5, <1>6, <1>7, <1>8, <1>9, <1>10, <1>11, <1>12
  DEF Next, ScriptStep

\* The invariant holds throughout.
LEMMA ReportCorrect == Spec => []ReportInv
BY ReportInit, ReportStep, PTL DEF Spec

-----------------------------------------------------------------------------
\* Every variable has its type, and a script that runs has not answered.
THEOREM SessionTypeCorrect == Spec => []TypeOK
<1>1. ReportInv => TypeOK
  BY DEF ReportInv
<1> QED BY <1>1, ReportCorrect, PTL

\* "No process" and "all gone" are true of every process of the beginning.
THEOREM ReportsAreTrue == Spec => []OldProcessesAreGone
<1>1. ReportInv => OldProcessesAreGone
  BY DEF ReportInv
<1> QED BY <1>1, ReportCorrect, PTL

\* Once the key was revoked before the script, such a report stays true for ever.
THEOREM LockoutHolds == Spec => []LockoutIsFinal
<1>1. ReportInv => LockoutIsFinal
  BY DEF ReportInv
<1> QED BY <1>1, ReportCorrect, PTL
=============================================================================
