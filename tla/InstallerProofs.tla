-------------------------- MODULE InstallerProofs --------------------------
(***************************************************************************)
(* Safety of Installer for any number of directories, keys and hosts, both *)
(* plugins and all failures.  The argument: at each of its steps register  *)
(* has established what its success is to mean (StepInv); while files are  *)
(* written whole and no key is overwritten, the key files are a pair and   *)
(* the configured host is known by it (PairInv); and an uninstall that has *)
(* met no failure has established what it reports so far (RemovalInv).     *)
(***************************************************************************)
EXTENDS Installer, TLAPS

\* The bounds are positive numbers.
LEMMA Bounds ==
  /\ LinuxDirs \in Nat \ {0} /\ NixOSDirs \in Nat \ {0}
  /\ MaxKeys \in Nat \ {0} /\ MaxHosts \in Nat \ {0}
BY InstallerAssumption

\* The plugin, which never changes, has directories.
LEMMA DirsFact == Dirs \in Nat \ {0} /\ (plugin' = plugin => Dirs' = Dirs)
BY Bounds DEF Dirs

\* The number of a directory is none of the marks for a file that is not whole.
LEMMA Numbered == \A d \in 1..Dirs : d # None /\ d # Torn
BY DirsFact DEF None, Torn

\* Nor are they the same.
LEMMA Marks == None # Torn
BY DEF None, Torn

\* What is appended comes last, and the rest stays in its place.
LEMMA Appended ==
  ASSUME NEW S, NEW s \in Seq(S), NEW e \in S
  PROVE  LET t == Append(s, e) IN
         /\ t \in Seq(S) /\ t # <<>> /\ Len(t) = Len(s) + 1 /\ t[Len(t)] = e
         /\ \A i \in 1..Len(s) : t[i] = s[i]
OBVIOUS

\* Every place of a sequence holds an element.
LEMMA Element == ASSUME NEW S, NEW s \in Seq(S), NEW i \in 1..Len(s) PROVE s[i] \in S
OBVIOUS

-----------------------------------------------------------------------------
(* Types.                                                                  *)

\* A fresh machine is well typed.
LEMMA TypeInit == Init => TypeOK
<1> SUFFICES ASSUME Init PROVE MachineTypeOK /\ CommandTypeOK
  BY DEF TypeOK
<1>1. MachineTypeOK
  <2>1. plugin \in Plugins /\ binary \in [1..Dirs -> {"none", "partial", "whole"}]
    BY DEF Init, LoadPlugins
  <2>2. backend \in Seq(1..MaxKeys) /\ Len(backend) <= MaxHosts /\ made \in 0..MaxKeys
    BY Bounds DEF Init
  <2>3. private = None /\ public = None /\ unit = None /\ built = None /\ config = None
    BY DEF Init
  <2>4. active \in {"inactive", "running", "pausing"} /\ {enabled, missed} \subseteq BOOLEAN
    BY DEF Init
  <2>5. private \in {Torn, None} \cup 1..MaxKeys /\ public \in {Torn, None} \cup 1..MaxKeys
        /\ unit \in {Torn, None} \cup 1..Dirs /\ built \in {Torn, None} \cup 1..Dirs
        /\ config \in {Torn, None} \cup 1..MaxHosts
    BY <2>3
  <2> QED BY <2>1, <2>2, <2>4, <2>5 DEF MachineTypeOK
<1>2. CommandTypeOK
  <2>1. op = "none" /\ pc \in Steps /\ result \in Results
    BY DEF Init, Steps, Results
  <2>2. dest \in 1..Dirs
    BY DirsFact DEF Init
  <2>3. {troubled, sound} \subseteq BOOLEAN
    BY DEF Init
  <2> QED BY <2>1, <2>2, <2>3 DEF CommandTypeOK
<1> QED BY <1>1, <1>2

\* The last host has a number.
LEMMA LastHost ==
  TypeOK => Len(backend) \in Nat /\ (backend # <<>> => Len(backend) \in 1..Len(backend))
BY DEF TypeOK, MachineTypeOK

\* The backend has keys.
LEMMA KeyOfHost == ASSUME TypeOK, NEW h \in 1..Len(backend) PROVE backend[h] \in 1..MaxKeys
<1>1. backend \in Seq(1..MaxKeys)
  BY DEF TypeOK, MachineTypeOK
<1> QED BY <1>1, Element

\* A number is none of the marks.
LEMMA Unmarked == \A n \in Nat : \A i \in 1..n : i # None /\ i # Torn
BY DEF None, Torn

\* A program that stops half way leaves a machine that is not sound.
LEMMA HalfWayFact == HalfWay => ~sound'
BY DEF HalfWay

\* A new key has a number.
LEMMA NewKey == TypeOK /\ SavePrivate => made' \in 1..MaxKeys /\ made' # None
BY Bounds DEF TypeOK, MachineTypeOK, SavePrivate, None

\* A registration adds the public key as the last one.
LEMMA NewHost ==
  TypeOK /\ SendRegistrationRequest /\ Sendable =>
    /\ backend' \in Seq(1..MaxKeys) /\ Len(backend') <= MaxHosts
    /\ backend' # <<>> /\ backend'[Len(backend')] = public
    /\ Len(backend) \in Nat /\ Len(backend') = Len(backend) + 1
    /\ \A i \in 1..Len(backend) : backend'[i] = backend[i]
<1> SUFFICES ASSUME TypeOK, SendRegistrationRequest, Sendable
             PROVE  /\ backend' \in Seq(1..MaxKeys) /\ Len(backend') <= MaxHosts
                    /\ backend' # <<>> /\ backend'[Len(backend')] = public
                    /\ Len(backend) \in Nat /\ Len(backend') = Len(backend) + 1
                    /\ \A i \in 1..Len(backend) : backend'[i] = backend[i]
  OBVIOUS
<1>1. backend' = Append(backend, public) /\ Len(backend) < MaxHosts
  BY DEF SendRegistrationRequest
<1>2. public \in 1..MaxKeys /\ backend \in Seq(1..MaxKeys) /\ Len(backend) \in Nat
  BY DEF Sendable, TypeOK, MachineTypeOK, None, Torn
<1> QED BY <1>1, <1>2, Appended, Bounds

\* Every command keeps the machine's types ...
LEMMA MachineStep == TypeOK /\ [Next]_vars => MachineTypeOK'
<1> SUFFICES ASSUME TypeOK, [Next]_vars PROVE MachineTypeOK'
  OBVIOUS
<1> USE DirsFact DEF machine, keys, service, host, TypeOK, MachineTypeOK, CommandTypeOK, None,
      Torn
<1>1. CASE Register
  BY <1>1 DEF Register, Runs
<1>2. CASE InstallBinary
  BY <1>2 DEF InstallBinary, At, Goto, CopyFails, HalfWay, NextDirectory
<1>3. CASE SetupDirectories
  BY <1>3 DEF SetupDirectories, At, Goto
<1>4. CASE FindKeys
  BY <1>4 DEF FindKeys, At, Goto, Ends, Stops
<1>5. CASE CreateSystemdService
  BY <1>5 DEF CreateSystemdService, WritesUnit, At, Goto, HalfWay, Stops
<1>6. CASE InstallModule
  BY <1>6 DEF InstallModule, WritesUnit, At, Goto, HalfWay, Stops
<1>7. CASE SendRegistrationRequest
  <2>1. CASE ~Sendable /\ Ends("failed")
    BY <1>7, <2>1 DEF SendRegistrationRequest, Ends, Stops, At
  <2>2. CASE Sendable
    BY <1>7, <2>2, NewHost DEF SendRegistrationRequest, At, Goto, Ends, Stops
  <2> QED BY <1>7, <2>1, <2>2 DEF SendRegistrationRequest
<1>8. CASE SaveConfiguration
  BY <1>8 DEF SaveConfiguration, At, Goto, HalfWay, Stops
<1>9. CASE Registered
  BY <1>9 DEF Registered, At, Ends, Stops
<1>10. CASE Keygen
  BY <1>10 DEF Keygen, Runs
<1>11. CASE SavePrivate
  <2>1. made' \in 0..MaxKeys /\ made' \in 1..MaxKeys
    BY <1>11, NewKey
  <2> QED BY <1>11, <2>1 DEF SavePrivate, At, Goto, HalfWay, Stops
<1>12. CASE SavePublic
  BY <1>12 DEF SavePublic, At, Goto, HalfWay, Ends, Stops
<1>13. CASE Uninstall
  BY <1>13 DEF Uninstall, Runs
<1>14. CASE StopService
  BY <1>14 DEF StopService, Removing, At, After, Works, Warns
<1>15. CASE DisableService
  BY <1>15 DEF DisableService, Removing, At, After, Works, Warns
<1>16. CASE RemoveUnit
  BY <1>16 DEF RemoveUnit, RemovesUnit, Removing, At, After, Works, Warns
<1>17. CASE RemoveDirs
  BY <1>17 DEF RemoveDirs, Removing, At, After, Works, Warns, HalfWay
<1>18. CASE RemoveBinary
  BY <1>18 DEF RemoveBinary, Removing, At, After, Works, Warns
<1>19. CASE RemoveModule
  BY <1>19 DEF RemoveModule, RemovesUnit, Removing, At, After, Works, Warns
<1>20. CASE StartService
  BY <1>20 DEF StartService, Started, Between, MayStart, Loads
<1>21. CASE EnableService
  BY <1>21 DEF EnableService, Between
<1>22. CASE Rebuild
  BY <1>22 DEF Rebuild, Started, Between, MayStart, Loads
<1>23. CASE AgentEnds \/ AgentRestarts \/ StaysDown
  <2>1. Between /\ UNCHANGED <<unit, built, enabled>>
        /\ active' \in {"inactive", "running", "pausing"}
    BY <1>23 DEF AgentEnds, AgentRestarts, StaysDown
  <2> QED BY <2>1 DEF Between
<1>24. CASE Status
  BY <1>24 DEF Status, Loads, KeysThere
<1>25. CASE CommandFails
  BY <1>25 DEF CommandFails
<1>26. CASE Dies
  BY <1>26 DEF Dies
<1>27. CASE UNCHANGED vars
  BY <1>27 DEF vars
<1> QED
  BY <1>1, <1>2, <1>3, <1>4, <1>5, <1>6, <1>7, <1>8, <1>9, <1>10, <1>11, <1>12, <1>13,
      <1>14, <1>15, <1>16, <1>17, <1>18, <1>19, <1>20, <1>21, <1>22, <1>23, <1>24, <1>25, <1>26,
      <1>27 DEF Next

\* ... and those of the command.
LEMMA CommandStep == TypeOK /\ [Next]_vars => CommandTypeOK'
<1> SUFFICES ASSUME TypeOK, [Next]_vars
             PROVE  CommandTypeOK'
  OBVIOUS
<1> USE DirsFact DEF machine, keys, service, host, TypeOK, CommandTypeOK, MachineTypeOK, Steps,
      Results
<1>1. CASE Register
  <2>1. dest' \in 1..Dirs'
    BY <1>1 DEF Register, Runs
  <2> QED BY <1>1, <2>1 DEF Register, Runs
<1>2. CASE InstallBinary
  <2>1. dest' \in 1..Dirs'
    BY <1>2 DEF InstallBinary, At, Goto, CopyFails, NextDirectory
  <2> QED BY <1>2, <2>1 DEF InstallBinary, At, Goto, CopyFails, HalfWay, NextDirectory
<1>3. CASE SetupDirectories
  BY <1>3 DEF SetupDirectories, At, Goto
<1>4. CASE FindKeys
  BY <1>4 DEF FindKeys, At, Goto, Ends, Stops
<1>5. CASE CreateSystemdService
  BY <1>5 DEF CreateSystemdService, WritesUnit, At, Goto, HalfWay, Stops
<1>6. CASE InstallModule
  BY <1>6 DEF InstallModule, WritesUnit, At, Goto, HalfWay, Stops
<1>7. CASE SendRegistrationRequest
  BY <1>7 DEF SendRegistrationRequest, At, Goto, Ends, Stops, Sendable
<1>8. CASE SaveConfiguration
  BY <1>8 DEF SaveConfiguration, At, Goto, HalfWay, Stops
<1>9. CASE Registered
  BY <1>9 DEF Registered, At, Ends, Stops
<1>10. CASE Keygen
  <2>1. CASE Runs("keygen", "private")
    <3>1. dest' \in 1..Dirs'
      BY <2>1 DEF Runs
    <3> QED BY <1>10, <2>1, <3>1 DEF Keygen, Runs
  <2>2. CASE ~Runs("keygen", "private")
    BY <1>10, <2>2 DEF Keygen
  <2> QED BY <2>1, <2>2
<1>11. CASE SavePrivate
  BY <1>11 DEF SavePrivate, At, Goto, HalfWay, Stops
<1>12. CASE SavePublic
  BY <1>12 DEF SavePublic, At, Goto, HalfWay, Ends, Stops
<1>13. CASE Uninstall
  <2>1. dest' \in 1..Dirs'
    BY <1>13 DEF Uninstall, Runs
  <2> QED BY <1>13, <2>1 DEF Uninstall, Runs
<1>14. CASE StopService
  BY <1>14 DEF StopService, Removing, At, After, Works, Warns
<1>15. CASE DisableService
  BY <1>15 DEF DisableService, Removing, At, After, Works, Warns
<1>16. CASE RemoveUnit
  BY <1>16 DEF RemoveUnit, RemovesUnit, Removing, At, After, Works, Warns
<1>17. CASE RemoveDirs
  BY <1>17 DEF RemoveDirs, Removing, At, After, Works, Warns, HalfWay
<1>18. CASE RemoveBinary
  BY <1>18 DEF RemoveBinary, Removing, At, After, Works, Warns
<1>19. CASE RemoveModule
  BY <1>19 DEF RemoveModule, RemovesUnit, Removing, At, After, Works, Warns
<1>20. CASE StartService
  BY <1>20 DEF StartService, Started, Between, MayStart, Loads
<1>21. CASE EnableService
  BY <1>21 DEF EnableService, Between
<1>22. CASE Rebuild
  BY <1>22 DEF Rebuild, Started, Between, MayStart, Loads
<1>23. CASE AgentEnds \/ AgentRestarts \/ StaysDown
  <2>1. Between
    BY <1>23 DEF AgentEnds, AgentRestarts, StaysDown
  <2> QED BY <2>1 DEF Between
<1>24. CASE Status
  BY <1>24 DEF Status, Loads, KeysThere
<1>25. CASE CommandFails
  BY <1>25 DEF CommandFails
<1>26. CASE Dies
  BY <1>26 DEF Dies
<1>27. CASE UNCHANGED vars
  BY <1>27 DEF vars
<1> QED
  BY <1>1, <1>2, <1>3, <1>4, <1>5, <1>6, <1>7, <1>8, <1>9, <1>10, <1>11, <1>12, <1>13,
      <1>14, <1>15, <1>16, <1>17, <1>18, <1>19, <1>20, <1>21, <1>22, <1>23, <1>24, <1>25, <1>26,
      <1>27 DEF Next

\* Every reachable state is well typed.
THEOREM InstallerTypeCorrect == Spec => []TypeOK
<1>1. TypeOK /\ [Next]_vars => TypeOK'
  BY MachineStep, CommandStep DEF TypeOK
<1> QED BY <1>1, TypeInit, PTL DEF Spec

-----------------------------------------------------------------------------
(* What register, keygen and uninstall have established at each step.      *)

RegisterPC == {"binary", "dirs", "keys", "service", "request", "save", "mode"}
KeygenPC   == {"private", "public"}
RemovalPC  == {"stop", "disable", "remove unit", "remove dirs", "remove binary", "remove module"}

StepInv ==
  /\ pc # "rest" => result = "nothing"
  /\ pc \in RegisterPC => op = "register"
  /\ pc \in KeygenPC => op \in {"register", "keygen"}
  /\ pc \in RemovalPC => op = "uninstall"
  /\ op = "register" /\ pc \notin {"rest", "binary"} => binary[dest] # "none"
  /\ pc \in {"request", "save", "mode"} => unit = dest
  /\ pc = "public" => private = made /\ made # None
  /\ pc \in {"service", "request", "save", "mode"} => private # None /\ public # None
  /\ pc \in {"save", "mode"} => backend # <<>> /\ backend[Len(backend)] = public
  /\ pc = "mode" => config = Len(backend)

\* A step is taken only after the ones before it.
LEMMA StepStep == TypeOK /\ StepInv /\ [Next]_vars => StepInv'
<1> SUFFICES ASSUME TypeOK, StepInv, [Next]_vars
             PROVE  StepInv'
  OBVIOUS
<1> USE DEF machine, keys, service, host, StepInv, RegisterPC, KeygenPC, RemovalPC
<1>1. CASE Register
  BY <1>1 DEF Register, Runs
<1>2. CASE InstallBinary
  <2>1. dest \in 1..Dirs /\ binary \in [1..Dirs -> {"none", "partial", "whole"}]
    BY DEF TypeOK, MachineTypeOK, CommandTypeOK
  <2> QED BY <1>2, <2>1 DEF InstallBinary, At, Goto, CopyFails, HalfWay, NextDirectory
<1>3. CASE SetupDirectories
  BY <1>3 DEF SetupDirectories, At, Goto
<1>4. CASE FindKeys
  BY <1>4 DEF FindKeys, At, Goto, Ends, Stops
<1>5. CASE CreateSystemdService
  BY <1>5 DEF CreateSystemdService, WritesUnit, At, Goto, HalfWay, Stops
<1>6. CASE InstallModule
  BY <1>6 DEF InstallModule, WritesUnit, At, Goto, HalfWay, Stops
<1>7. CASE SendRegistrationRequest
  <2>1. CASE ~Sendable /\ Ends("failed")
    BY <1>7, <2>1 DEF SendRegistrationRequest, Ends, Stops, At
  <2>2. CASE Sendable
    BY <1>7, <2>2, NewHost DEF SendRegistrationRequest, At, Goto, Ends, Stops
  <2> QED BY <1>7, <2>1, <2>2 DEF SendRegistrationRequest
<1>8. CASE SaveConfiguration
  BY <1>8 DEF SaveConfiguration, At, Goto, HalfWay, Stops
<1>9. CASE Registered
  BY <1>9 DEF Registered, At, Ends, Stops
<1>10. CASE Keygen
  BY <1>10 DEF Keygen, Runs
<1>11. CASE SavePrivate
  <2>1. made' # None
    BY <1>11, NewKey
  <2> QED BY <1>11, <2>1 DEF SavePrivate, At, Goto, HalfWay, Stops
<1>12. CASE SavePublic
  <2>1. made # None /\ Torn # None
    BY <1>12 DEF SavePublic, At, Torn, None
  <2> QED BY <1>12, <2>1 DEF SavePublic, At, Goto, HalfWay, Ends, Stops
<1>13. CASE Uninstall
  BY <1>13 DEF Uninstall, Runs
<1>14. CASE StopService
  BY <1>14 DEF StopService, Removing, At, After, Works, Warns
<1>15. CASE DisableService
  BY <1>15 DEF DisableService, Removing, At, After, Works, Warns
<1>16. CASE RemoveUnit
  BY <1>16 DEF RemoveUnit, RemovesUnit, Removing, At, After, Works, Warns
<1>17. CASE RemoveDirs
  BY <1>17 DEF RemoveDirs, Removing, At, After, Works, Warns, HalfWay
<1>18. CASE RemoveBinary
  BY <1>18 DEF RemoveBinary, Removing, At, After, Works, Warns
<1>19. CASE RemoveModule
  BY <1>19 DEF RemoveModule, RemovesUnit, Removing, At, After, Works, Warns
<1>20. CASE StartService
  BY <1>20 DEF StartService, Started, Between, MayStart, Loads
<1>21. CASE EnableService
  BY <1>21 DEF EnableService, Between
<1>22. CASE Rebuild
  BY <1>22 DEF Rebuild, Started, Between, MayStart, Loads
<1>23. CASE AgentEnds \/ AgentRestarts \/ StaysDown
  BY <1>23 DEF AgentEnds, AgentRestarts, StaysDown, Between
<1>24. CASE Status
  BY <1>24 DEF Status, Loads, KeysThere
<1>25. CASE CommandFails
  BY <1>25 DEF CommandFails
<1>26. CASE Dies
  BY <1>26 DEF Dies
<1>27. CASE UNCHANGED vars
  BY <1>27 DEF vars
<1> QED
  BY <1>1, <1>2, <1>3, <1>4, <1>5, <1>6, <1>7, <1>8, <1>9, <1>10, <1>11, <1>12, <1>13,
      <1>14, <1>15, <1>16, <1>17, <1>18, <1>19, <1>20, <1>21, <1>22, <1>23, <1>24, <1>25, <1>26,
      <1>27 DEF Next

-----------------------------------------------------------------------------
(* While no file is written by halves and no key overwritten.              *)

WholeInv ==
  sound =>
    /\ private # Torn /\ public # Torn /\ config # Torn /\ unit # Torn
    /\ \A d \in 1..Dirs : binary[d] # "partial"

\* A file is whole, unless a program has stopped half way.
LEMMA WholeStep == TypeOK /\ WholeInv /\ [Next]_vars => WholeInv'
<1> SUFFICES ASSUME TypeOK, WholeInv, [Next]_vars, sound'
             PROVE  WholeInv'
  BY DEF WholeInv
<1> USE DirsFact, Marks DEF machine, keys, service, host, WholeInv
<1>1. CASE Register \/ Uninstall
  BY <1>1 DEF Register, Runs, Uninstall
<1>2. CASE InstallBinary
  <2>1. dest \in 1..Dirs /\ binary \in [1..Dirs -> {"none", "partial", "whole"}]
    BY DEF TypeOK, MachineTypeOK, CommandTypeOK
  <2> QED BY <1>2, <2>1, HalfWayFact DEF InstallBinary, At, Goto, CopyFails, NextDirectory
<1>3. CASE SetupDirectories \/ FindKeys \/ Registered
  BY <1>3 DEF SetupDirectories, At, Goto, FindKeys, Ends, Stops, Registered
<1>4. CASE CreateSystemdService
  <2>1. dest # Torn
    BY Numbered DEF TypeOK, CommandTypeOK
  <2> QED BY <1>4, <2>1, HalfWayFact DEF CreateSystemdService, WritesUnit, At, Goto, HalfWay, Stops
<1>5. CASE InstallModule
  <2>1. dest # Torn
    BY Numbered DEF TypeOK, CommandTypeOK
  <2> QED BY <1>5, <2>1, HalfWayFact DEF InstallModule, WritesUnit, At, Goto, HalfWay, Stops
<1>6. CASE SendRegistrationRequest
  BY <1>6 DEF SendRegistrationRequest, At, Goto, Ends, Stops, Sendable
<1>7. CASE SaveConfiguration
  <2>1. Len(backend) # Torn
    BY DEF TypeOK, MachineTypeOK, Torn
  <2>2. sound /\ config' = Len(backend)
    BY <1>7, HalfWayFact DEF SaveConfiguration, Goto
  <2>3. UNCHANGED <<binary, keys, service, plugin>>
    BY <1>7 DEF SaveConfiguration
  <2> QED BY <2>1, <2>2, <2>3
<1>8. CASE Keygen
  BY <1>8 DEF Keygen, Runs
<1>9. CASE SavePrivate
  <2>1. made' # Torn
    BY <1>9, NewKey DEF Torn
  <2>2. sound /\ private' = made'
    BY <1>9, HalfWayFact DEF SavePrivate, Goto
  <2>3. UNCHANGED <<binary, public, unit, plugin, config>>
    BY <1>9 DEF SavePrivate
  <2> QED BY <2>1, <2>2, <2>3
<1>10. CASE SavePublic
  <2>1. made # Torn
    BY DEF TypeOK, MachineTypeOK, Torn
  <2>2. sound /\ public' = made
    BY <1>10, HalfWayFact DEF SavePublic, Goto, Ends
  <2>3. UNCHANGED <<binary, private, unit, plugin, config>>
    BY <1>10 DEF SavePublic
  <2> QED BY <2>1, <2>2, <2>3
<1>11. CASE StopService
  BY <1>11 DEF StopService, Removing, At, Works, Warns
<1>12. CASE DisableService
  BY <1>12 DEF DisableService, Removing, At, Works, Warns
<1>13. CASE RemoveUnit
  BY <1>13 DEF RemoveUnit, RemovesUnit, Removing, At, Works, Warns
<1>14. CASE RemoveDirs
  <2>1. sound /\ config' \in {config, None} /\ private' \in {private, None}
        /\ public' \in {public, None}
    BY <1>14, HalfWayFact DEF RemoveDirs, Works, Warns
  <2>2. UNCHANGED <<binary, unit, plugin>>
    BY <1>14 DEF RemoveDirs
  <2> QED BY <2>1, <2>2
<1>15. CASE RemoveBinary
  <2>1. binary \in [1..Dirs -> {"none", "partial", "whole"}]
    BY DEF TypeOK, MachineTypeOK
  <2>2. \A d \in 1..Dirs : binary'[d] \in {binary[d], "none"}
    BY <1>15, <2>1 DEF RemoveBinary
  <2>3. sound /\ UNCHANGED <<plugin, private, public, config, unit>>
    BY <1>15 DEF RemoveBinary, Works, Warns
  <2> QED BY <2>2, <2>3
<1>16. CASE RemoveModule
  BY <1>16 DEF RemoveModule, RemovesUnit, Removing, At, Works, Warns
<1>17. CASE StartService \/ EnableService \/ AgentEnds \/ AgentRestarts \/ StaysDown
  BY <1>17 DEF StartService, Started, Between, MayStart, Loads, EnableService, AgentEnds,
     AgentRestarts, StaysDown
<1>18. CASE Rebuild
  BY <1>18 DEF Rebuild, Started, Between, MayStart, Loads
<1>19. CASE CommandFails \/ Dies \/ Status
  BY <1>19 DEF CommandFails, Dies, Status, Loads, KeysThere
<1>20. CASE UNCHANGED vars
  BY <1>20 DEF vars
<1> QED
  BY <1>1, <1>2, <1>3, <1>4, <1>5, <1>6, <1>7, <1>8, <1>9, <1>10, <1>11, <1>12, <1>13,
      <1>14, <1>15, <1>16, <1>17, <1>18, <1>19, <1>20 DEF Next

PairInv ==
  sound =>
    /\ public \in {None, private}
    /\ pc = "private" => private = None
    /\ pc = "public" => public = None
    /\ config # None => config \in 1..Len(backend) /\ public # None /\ backend[config] = public

\* The key files are a pair, and a configured host is known by it.
LEMMA PairStep == TypeOK /\ StepInv /\ PairInv /\ [Next]_vars => PairInv'
<1> SUFFICES ASSUME TypeOK, StepInv, PairInv, [Next]_vars, sound'
             PROVE  PairInv'
  BY DEF PairInv
<1> USE DEF machine, keys, service, host, StepInv, KeygenPC, PairInv
<1>1. CASE Register \/ Uninstall
  BY <1>1 DEF Register, Runs, Uninstall
<1>2. CASE InstallBinary
  BY <1>2, HalfWayFact DEF InstallBinary, At, Goto, CopyFails, NextDirectory
<1>3. CASE SetupDirectories \/ FindKeys \/ Registered
  BY <1>3 DEF SetupDirectories, At, Goto, FindKeys, Ends, Stops, Registered
<1>4. CASE CreateSystemdService
  BY <1>4, HalfWayFact DEF CreateSystemdService, WritesUnit, At, Goto, Stops
<1>5. CASE InstallModule
  BY <1>5, HalfWayFact DEF InstallModule, WritesUnit, At, Goto, Stops
<1>6. CASE SendRegistrationRequest
  <2>1. CASE Sendable
    <3>1. Len(backend) \in Nat /\ Len(backend') = Len(backend) + 1
      BY <1>6, <2>1, NewHost
    <3>2. \A i \in 1..Len(backend) : i \in 1..Len(backend') /\ backend'[i] = backend[i]
      BY <1>6, <2>1, <3>1, NewHost
    <3>3. pc' \notin KeygenPC /\ UNCHANGED <<private, public, config>> /\ sound
      BY <1>6 DEF SendRegistrationRequest, At, Goto, Ends, Stops
    <3> QED BY <3>2, <3>3
  <2>2. CASE ~Sendable
    BY <1>6, <2>2 DEF SendRegistrationRequest, At, Ends, Stops
  <2> QED BY <2>1, <2>2
<1>7. CASE SaveConfiguration
  <2>1. Len(backend) \in Nat /\ (backend # <<>> => Len(backend) \in 1..Len(backend))
    BY LastHost
  <2> QED BY <1>7, <2>1 DEF SaveConfiguration, At, Goto, HalfWay, Stops
<1>8. CASE Keygen
  BY <1>8 DEF Keygen, Runs
<1>9. CASE SavePrivate
  BY <1>9, HalfWayFact DEF SavePrivate, At, Goto, Stops
<1>10. CASE SavePublic
  BY <1>10, HalfWayFact DEF SavePublic, At, Goto, Ends, Stops
<1>11. CASE StopService
  BY <1>11 DEF StopService, Removing, At, After, Works, Warns
<1>12. CASE DisableService
  BY <1>12 DEF DisableService, Removing, At, After, Works, Warns
<1>13. CASE RemoveUnit
  BY <1>13 DEF RemoveUnit, RemovesUnit, Removing, At, After, Works, Warns
<1>14. CASE RemoveDirs
  BY <1>14, HalfWayFact DEF RemoveDirs, Removing, At, After, Works, Warns
<1>15. CASE RemoveBinary
  BY <1>15 DEF RemoveBinary, Removing, At, After, Works, Warns
<1>16. CASE RemoveModule
  BY <1>16 DEF RemoveModule, RemovesUnit, Removing, At, After, Works, Warns
<1>17. CASE StartService \/ EnableService \/ AgentEnds \/ AgentRestarts \/ StaysDown
  BY <1>17 DEF StartService, Started, Between, MayStart, Loads, EnableService, AgentEnds,
     AgentRestarts, StaysDown
<1>18. CASE Rebuild
  BY <1>18 DEF Rebuild, Started, Between, MayStart, Loads
<1>19. CASE CommandFails \/ Dies \/ Status
  BY <1>19 DEF CommandFails, Dies, Status, Loads, KeysThere
<1>20. CASE UNCHANGED vars
  BY <1>20 DEF vars
<1> QED
  BY <1>1, <1>2, <1>3, <1>4, <1>5, <1>6, <1>7, <1>8, <1>9, <1>10, <1>11, <1>12, <1>13,
      <1>14, <1>15, <1>16, <1>17, <1>18, <1>19, <1>20 DEF Next

-----------------------------------------------------------------------------
(* What an uninstall without failures has removed at each step, and what   *)
(* the success of a command means as long as nothing else runs.            *)

RemovalInv ==
  /\ pc \in {"disable", "remove unit"} => plugin # "nixos"
  /\ pc = "remove module" => plugin = "nixos"
  /\ ~troubled /\ pc \in RemovalPC \ {"stop"} /\ active # "inactive" => missed
  /\ ~troubled /\ pc \in {"remove dirs", "remove binary"} /\ plugin # "nixos" => unit = None
  /\ ~troubled /\ pc \in {"remove binary", "remove module"} =>
       config = None /\ private = None /\ public = None

\* An uninstall goes through its steps in the order of the plugin.
LEMMA RemovalStep == StepInv /\ RemovalInv /\ [Next]_vars => RemovalInv'
<1> SUFFICES ASSUME StepInv, RemovalInv, [Next]_vars
             PROVE  RemovalInv'
  OBVIOUS
<1> USE DEF machine, keys, service, host, StepInv, RemovalInv, RegisterPC, KeygenPC, RemovalPC
<1>1. CASE Register \/ Uninstall
  BY <1>1 DEF Register, Runs, Uninstall
<1>2. CASE InstallBinary
  BY <1>2 DEF InstallBinary, At, Goto, CopyFails, HalfWay, NextDirectory
<1>3. CASE SetupDirectories \/ FindKeys \/ Registered
  BY <1>3 DEF SetupDirectories, At, Goto, FindKeys, Ends, Stops, Registered
<1>4. CASE CreateSystemdService
  BY <1>4 DEF CreateSystemdService, WritesUnit, At, Goto, HalfWay, Stops
<1>5. CASE InstallModule
  BY <1>5 DEF InstallModule, WritesUnit, At, Goto, HalfWay, Stops
<1>6. CASE SendRegistrationRequest
  BY <1>6 DEF SendRegistrationRequest, At, Goto, Ends, Stops, Sendable
<1>7. CASE SaveConfiguration
  BY <1>7 DEF SaveConfiguration, At, Goto, HalfWay, Stops
<1>8. CASE Keygen
  BY <1>8 DEF Keygen, Runs
<1>9. CASE SavePrivate
  BY <1>9 DEF SavePrivate, At, Goto, HalfWay, Stops
<1>10. CASE SavePublic
  BY <1>10 DEF SavePublic, At, Goto, HalfWay, Ends, Stops
<1>11. CASE StopService
  <2>1. ~troubled' /\ active' # "inactive" => missed'
    BY <1>11 DEF StopService, Works, Warns
  <2>2. pc = "stop" /\ UNCHANGED <<plugin, unit, config, private, public>> /\ op = "uninstall"
        /\ pc' = After("stop") /\ (result' = result \/ pc' = "rest")
    BY <1>11 DEF StopService, Removing, At
  <2> QED BY <2>1, <2>2 DEF After
<1>12. CASE DisableService
  BY <1>12 DEF DisableService, Removing, At, After, Works, Warns
<1>13. CASE RemoveUnit
  BY <1>13 DEF RemoveUnit, RemovesUnit, Removing, At, After, Works, Warns
<1>14. CASE RemoveDirs
  BY <1>14 DEF RemoveDirs, Removing, At, After, Works, Warns, HalfWay
<1>15. CASE RemoveBinary
  BY <1>15 DEF RemoveBinary, Removing, At, After, Works, Warns
<1>16. CASE RemoveModule
  BY <1>16 DEF RemoveModule, RemovesUnit, Removing, At, After, Works, Warns
<1>17. CASE StartService \/ EnableService \/ AgentEnds \/ AgentRestarts \/ StaysDown
  BY <1>17 DEF StartService, Started, Between, MayStart, Loads, EnableService, AgentEnds,
     AgentRestarts, StaysDown
<1>18. CASE Rebuild
  BY <1>18 DEF Rebuild, Started, Between, MayStart, Loads
<1>19. CASE CommandFails \/ Dies \/ Status
  BY <1>19 DEF CommandFails, Dies, Status, Loads, KeysThere
<1>20. CASE UNCHANGED vars
  BY <1>20 DEF vars
<1> QED
  BY <1>1, <1>2, <1>3, <1>4, <1>5, <1>6, <1>7, <1>8, <1>9, <1>10, <1>11, <1>12, <1>13,
      <1>14, <1>15, <1>16, <1>17, <1>18, <1>19, <1>20 DEF Next

\* An uninstall ends with all of it removed, and no start undoes that.
LEMMA CleanStep ==
  StepInv /\ RemovalInv /\ CleanUninstall /\ [Next]_vars => CleanUninstall'
<1> SUFFICES ASSUME StepInv, RemovalInv, CleanUninstall, [Next]_vars
             PROVE  CleanUninstall'
  OBVIOUS
<1> USE DEF machine, keys, service, host, StepInv, RemovalInv, RegisterPC, KeygenPC, RemovalPC,
      CleanUninstall
<1>1. CASE Register \/ Uninstall
  BY <1>1 DEF Register, Runs, Uninstall
<1>2. CASE InstallBinary
  BY <1>2 DEF InstallBinary, At, Goto, CopyFails, HalfWay, NextDirectory
<1>3. CASE SetupDirectories \/ FindKeys \/ Registered
  BY <1>3 DEF SetupDirectories, At, Goto, FindKeys, Ends, Stops, Registered
<1>4. CASE CreateSystemdService
  BY <1>4 DEF CreateSystemdService, WritesUnit, At, Goto, HalfWay, Stops
<1>5. CASE InstallModule
  BY <1>5 DEF InstallModule, WritesUnit, At, Goto, HalfWay, Stops
<1>6. CASE SendRegistrationRequest
  BY <1>6 DEF SendRegistrationRequest, At, Goto, Ends, Stops, Sendable
<1>7. CASE SaveConfiguration
  BY <1>7 DEF SaveConfiguration, At, Goto, HalfWay, Stops
<1>8. CASE Keygen
  BY <1>8 DEF Keygen, Runs
<1>9. CASE SavePrivate
  BY <1>9 DEF SavePrivate, At, Goto, HalfWay, Stops
<1>10. CASE SavePublic
  BY <1>10 DEF SavePublic, At, Goto, HalfWay, Ends, Stops
<1>11. CASE StopService
  BY <1>11 DEF StopService, Removing, At, After, Works, Warns
<1>12. CASE DisableService
  BY <1>12 DEF DisableService, Removing, At, After, Works, Warns
<1>13. CASE RemoveUnit
  BY <1>13 DEF RemoveUnit, RemovesUnit, Removing, At, After, Works, Warns
<1>14. CASE RemoveDirs
  BY <1>14 DEF RemoveDirs, Removing, At, After, Works, Warns, HalfWay
<1>15. CASE RemoveBinary
  <2>1. ~troubled' => ~troubled
    BY <1>15 DEF RemoveBinary, Works, Warns
  <2>3. UNCHANGED <<active, missed, plugin, unit, config, private, public>>
    BY <1>15 DEF RemoveBinary
  <2>2. pc = "remove binary" /\ pc' = After("remove binary")
        /\ result' = IF pc' = "rest" THEN "uninstalled" ELSE result
    BY <1>15 DEF RemoveBinary, Removing, At
  <2> QED BY <2>1, <2>2, <2>3 DEF After
<1>16. CASE RemoveModule
  BY <1>16 DEF RemoveModule, RemovesUnit, Removing, At, After, Works, Warns
<1>17. CASE StartService \/ EnableService \/ AgentEnds \/ AgentRestarts \/ StaysDown
  BY <1>17 DEF StartService, Started, Between, MayStart, Loads, EnableService, AgentEnds,
     AgentRestarts, StaysDown
<1>18. CASE Rebuild
  BY <1>18 DEF Rebuild, Started, Between, MayStart, Loads
<1>19. CASE CommandFails \/ Dies \/ Status
  BY <1>19 DEF CommandFails, Dies, Status, Loads, KeysThere
<1>20. CASE UNCHANGED vars
  BY <1>20 DEF vars
<1> QED
  BY <1>1, <1>2, <1>3, <1>4, <1>5, <1>6, <1>7, <1>8, <1>9, <1>10, <1>11, <1>12, <1>13,
      <1>14, <1>15, <1>16, <1>17, <1>18, <1>19, <1>20 DEF Next

\* A success of register means what its last steps have established.
LEMMA RegisteredStep ==
  TypeOK /\ StepInv /\ SuccessIsRegistered /\ [Next]_vars => SuccessIsRegistered'
<1> SUFFICES ASSUME TypeOK, StepInv, SuccessIsRegistered, [Next]_vars
             PROVE  SuccessIsRegistered'
  OBVIOUS
<1> USE DEF machine, keys, service, host, StepInv, RegisterPC, KeygenPC, RemovalPC,
      SuccessIsRegistered
<1>1. CASE Register \/ Uninstall
  BY <1>1 DEF Register, Runs, Uninstall
<1>2. CASE InstallBinary
  BY <1>2 DEF InstallBinary, At, Goto, CopyFails, HalfWay, NextDirectory
<1>3. CASE SetupDirectories \/ FindKeys
  BY <1>3 DEF SetupDirectories, At, Goto, FindKeys, Ends, Stops
<1>4. CASE CreateSystemdService
  BY <1>4 DEF CreateSystemdService, WritesUnit, At, Goto, HalfWay, Stops
<1>5. CASE InstallModule
  BY <1>5 DEF InstallModule, WritesUnit, At, Goto, HalfWay, Stops
<1>6. CASE SendRegistrationRequest
  BY <1>6 DEF SendRegistrationRequest, At, Goto, Ends, Stops, Sendable
<1>7. CASE SaveConfiguration
  BY <1>7 DEF SaveConfiguration, At, Goto, HalfWay, Stops
<1>8. CASE Registered
  <2>1. dest # None /\ dest # Torn
    BY Numbered DEF TypeOK, CommandTypeOK
  <2>2. backend # <<>> => Len(backend) \in 1..Len(backend)
    BY LastHost
  <2> QED BY <1>8, <2>1, <2>2 DEF Registered, At, Ends, Stops
<1>9. CASE Keygen
  BY <1>9 DEF Keygen, Runs
<1>10. CASE SavePrivate
  BY <1>10 DEF SavePrivate, At, Goto, HalfWay, Stops
<1>11. CASE SavePublic
  BY <1>11 DEF SavePublic, At, Goto, HalfWay, Ends, Stops
<1>12. CASE StopService
  BY <1>12 DEF StopService, Removing, At, After, Works, Warns
<1>13. CASE DisableService
  BY <1>13 DEF DisableService, Removing, At, After, Works, Warns
<1>14. CASE RemoveUnit
  BY <1>14 DEF RemoveUnit, RemovesUnit, Removing, At, After, Works, Warns
<1>15. CASE RemoveDirs
  BY <1>15 DEF RemoveDirs, Removing, At, After, Works, Warns, HalfWay
<1>16. CASE RemoveBinary
  BY <1>16 DEF RemoveBinary, Removing, At, After, Works, Warns
<1>17. CASE RemoveModule
  BY <1>17 DEF RemoveModule, RemovesUnit, Removing, At, After, Works, Warns
<1>18. CASE StartService \/ EnableService \/ AgentEnds \/ AgentRestarts \/ StaysDown
  BY <1>18 DEF StartService, Started, Between, MayStart, Loads, EnableService, AgentEnds,
     AgentRestarts, StaysDown
<1>19. CASE Rebuild
  BY <1>19 DEF Rebuild, Started, Between, MayStart, Loads
<1>20. CASE CommandFails \/ Dies \/ Status
  BY <1>20 DEF CommandFails, Dies, Status, Loads, KeysThere
<1>21. CASE UNCHANGED vars
  BY <1>21 DEF vars
<1> QED
  BY <1>1, <1>2, <1>3, <1>4, <1>5, <1>6, <1>7, <1>8, <1>9, <1>10, <1>11, <1>12, <1>13,
      <1>14, <1>15, <1>16, <1>17, <1>18, <1>19, <1>20, <1>21 DEF Next

-----------------------------------------------------------------------------
IInv == /\ TypeOK /\ StepInv /\ WholeInv /\ PairInv /\ RemovalInv
        /\ CleanUninstall /\ SuccessIsRegistered

\* The whole invariant is inductive.
LEMMA Inductive == Spec => []IInv
<1>1. Init => IInv
  <2> SUFFICES ASSUME Init PROVE IInv
    OBVIOUS
  <2>1. TypeOK
    BY TypeInit
  <2>2. StepInv /\ RemovalInv
    BY DEF Init, StepInv, RemovalInv, RegisterPC, KeygenPC, RemovalPC
  <2>3. WholeInv /\ PairInv
    BY Marks DEF Init, WholeInv, PairInv
  <2>4. CleanUninstall /\ SuccessIsRegistered
    BY DEF Init, CleanUninstall, SuccessIsRegistered
  <2> QED BY <2>1, <2>2, <2>3, <2>4 DEF IInv
<1>2. IInv /\ [Next]_vars => IInv'
  BY MachineStep, CommandStep, StepStep, WholeStep, PairStep, RemovalStep, CleanStep,
     RegisteredStep DEF IInv, TypeOK
<1> QED BY <1>1, <1>2, PTL DEF Spec

\* After any commands and failures: while files are whole and no key is overwritten, an
\* agent that can start is known to the backend by its private key.
THEOREM RunnableIsKnown == Spec => []RunnableAgentIsKnown
<1>1. IInv => RunnableAgentIsKnown
  BY DEF IInv, PairInv, RunnableAgentIsKnown, Startable, Ready, Valid, Loadable
<1> QED BY <1>1, Inductive, PTL

\* ... and a success of register leaves all that an agent needs to start.
THEOREM RegisteredIsRunnable == Spec => []SuccessIsRunnable
<1>1. IInv => SuccessIsRunnable
  <2> SUFFICES ASSUME IInv, sound, result = "registered" PROVE Ready(unit)
    BY DEF SuccessIsRunnable
  <2>1. /\ unit # None /\ unit # Torn /\ binary[unit] # "none" /\ private # None
        /\ config \in 1..Len(backend) /\ backend[config] = public
    BY DEF IInv, SuccessIsRegistered
  <2>2. unit \in 1..Dirs /\ binary[unit] = "whole"
    BY <2>1 DEF IInv, TypeOK, MachineTypeOK, WholeInv
  <2>3. public \in 1..MaxKeys
    BY <2>1, KeyOfHost DEF IInv
  <2>4. config # None /\ config # Torn
    BY <2>1, LastHost, Unmarked DEF IInv
  <2>5. public # None /\ public # Torn
    BY <2>3, Bounds, Unmarked
  <2>6. private # Torn
    BY DEF IInv, WholeInv
  <2> QED BY <2>1, <2>2, <2>4, <2>5, <2>6 DEF Ready, Valid, Loadable
<1> QED BY <1>1, Inductive, PTL

\* Whatever was torn or overwritten, a success of register means that the backend has the
\* public key for the configured host.
THEOREM RegisteredIsRegistered == Spec => []SuccessIsRegistered
<1>1. IInv => SuccessIsRegistered
  BY DEF IInv
<1> QED BY <1>1, Inductive, PTL

\* With either plugin an uninstall without a reported failure leaves nothing an agent could
\* be started from, and one runs after it only if the stop was skipped.
THEOREM UninstallIsClean == Spec => []CleanUninstall
<1>1. IInv => CleanUninstall
  BY DEF IInv
<1> QED BY <1>1, Inductive, PTL
=============================================================================
