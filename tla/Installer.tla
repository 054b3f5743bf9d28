----------------------------- MODULE Installer -----------------------------
(***************************************************************************)
(* What the operator's commands do to one machine: register                *)
(* (src/cmd/register/handler.go), keygen (src/cmd/keygen,                  *)
(* src/internal/jwt), status (src/cmd/status), uninstall                   *)
(* (src/cmd/uninstall) with the Linux or the NixOS plugin                  *)
(* (src/internal/osplugins), and what the operator does between them and   *)
(* systemd at any time.  A command runs other programs one after the other *)
(* and undoes nothing: it may be stopped, or a program may fail, between   *)
(* any two of them, and the operator then runs the next command on what is *)
(* left.                                                                   *)
(***************************************************************************)
EXTENDS Integers, Sequences

CONSTANTS
  LinuxDirs,  \* number of the Linux plugin's install directories, tried in order
  NixOSDirs,  \* ... of the NixOS plugin's
  Plugins,    \* the plugins of the machines to look at
  MaxKeys,    \* key pairs ever generated (bounds the model)
  MaxHosts,   \* registrations the backend ever accepts (bounds the model)
  Forced,     \* whether the operator uses keygen --force
  Failures    \* "command": a program fails, having done nothing;
              \* "partial": ... half way; "death": the command is stopped

ASSUME InstallerAssumption ==
  /\ {LinuxDirs, NixOSDirs, MaxKeys, MaxHosts} \subseteq Nat \ {0}
  /\ Plugins \subseteq {"linux", "nixos"}
  /\ Forced \in BOOLEAN /\ Failures \subseteq {"command", "partial", "death"}

VARIABLES
  plugin,    \* the plugin of this machine: Detect finds the same every time
  binary,    \* per install directory: the program there
  private,   \* which key the private file holds: None, Torn, or its number
  public,    \* the same for the public file
  made,      \* key pairs generated so far
  unit,      \* the directory the unit file (Linux) or the module file (NixOS)
             \* starts the program from, None or Torn
  built,     \* on NixOS: the directory the current system starts it from, or None
  enabled,   \* on Linux: whether the link for the boot is there
  active,    \* the service: "inactive", "running", or "pausing" until systemd restarts it
  missed,    \* whether the last uninstall did not stop one that was not inactive
  config,    \* the host the configuration is for, None or Torn
  backend,   \* the key of each host the backend has registered
  op, pc,    \* the command that runs and where it is
  dest,      \* register's destPath
  result,    \* what the last command reported
  troubled,  \* whether a failure has been reported in this command
  sound      \* no program has ever stopped half way, no key been overwritten by force

keys    == <<private, public, made>>
service == <<unit, built, enabled, active, missed>>
host    == <<plugin, config, backend>>
machine == <<binary, keys, service, host>>
vars    == <<machine, op, pc, dest, result, troubled, sound>>

None == 0
Torn == -1

Results == {"nothing", "failed", "refused", "registered", "generated",
            "uninstalled", "healthy", "unhealthy"}
Steps   == {"rest", "binary", "dirs", "keys", "private", "public", "service",
            "request", "save", "mode", "stop", "disable", "remove unit",
            "remove dirs", "remove binary", "remove module"}

\* LoadPlugins: NixOS where Detect finds it, Linux everywhere else.
LoadPlugins == plugin \in Plugins

Dirs == IF plugin = "nixos" THEN NixOSDirs ELSE LinuxDirs

Init ==
  /\ LoadPlugins
  /\ binary = [d \in 1..Dirs |-> "none"]
  /\ private = None /\ public = None /\ made = 0
  /\ unit = None /\ built = None /\ enabled = FALSE
  /\ active = "inactive" /\ missed = FALSE
  /\ config = None /\ backend = <<>>
  /\ op = "none" /\ pc = "rest" /\ dest = 1 /\ result = "nothing" /\ troubled = FALSE
  /\ sound = TRUE

-----------------------------------------------------------------------------
(* How a command goes on and ends.                                         *)

At(step)   == pc = step /\ UNCHANGED op
Goto(step) == pc' = step /\ UNCHANGED <<dest, result, troubled, sound>>
Stops(r)   == pc' = "rest" /\ result' = r /\ UNCHANGED <<dest, troubled>>
Ends(r)    == Stops(r) /\ UNCHANGED sound
HalfWay    == "partial" \in Failures /\ sound' = FALSE

Runs(command, step) ==
  /\ pc = "rest" /\ op' = command /\ pc' = step
  /\ dest' = 1 /\ result' = "nothing" /\ troubled' = FALSE
  /\ UNCHANGED machine

\* register and keygen stop at the first program that fails.
CommandFails ==
  /\ "command" \in Failures /\ pc \notin {"rest", "binary"} /\ op # "uninstall"
  /\ UNCHANGED <<machine, op, dest, sound>>
  /\ pc' = "rest" /\ result' = "failed" /\ troubled' = TRUE

\* The process ends, or the machine does.
Dies ==
  /\ "death" \in Failures /\ pc # "rest"
  /\ pc' = "rest" /\ UNCHANGED <<machine, op, dest, result, troubled, sound>>

-----------------------------------------------------------------------------
(* register.                                                               *)

Register == Runs("register", "binary") /\ UNCHANGED sound

\* Either cp fails or the chmod after it.
CopyFails ==
  /\ troubled' = TRUE
  /\ \/ "command" \in Failures /\ UNCHANGED <<binary, sound>>
     \/ "command" \in Failures /\ binary' = [binary EXCEPT ![dest] = "whole"] /\ UNCHANGED sound
     \/ HalfWay /\ binary' = [binary EXCEPT ![dest] = "partial"]

NextDirectory == dest' = dest + 1 /\ UNCHANGED <<pc, result>>

\* Mutation: there is always one directory more.
InstallBinaryBeyond ==
  /\ At("binary")
  /\ UNCHANGED <<keys, service, host>>
  /\ \/ binary[dest] # "none" /\ Goto("dirs") /\ UNCHANGED binary
     \/ /\ binary[dest] = "none" /\ Goto("dirs")
        /\ binary' = [binary EXCEPT ![dest] = "whole"]
     \/ binary[dest] = "none" /\ CopyFails /\ NextDirectory

\* A directory that has a program is taken, and the program is not looked at;
\* otherwise it is copied, and the next directory is tried if that fails.
InstallBinary ==
  /\ At("binary")
  /\ UNCHANGED <<keys, service, host>>
  /\ \/ binary[dest] # "none" /\ Goto("dirs") /\ UNCHANGED binary
     \/ /\ binary[dest] = "none" /\ Goto("dirs")
        /\ binary' = [binary EXCEPT ![dest] = "whole"]
     \/ binary[dest] = "none" /\ CopyFails /\ dest < Dirs /\ NextDirectory
     \/ /\ binary[dest] = "none" /\ CopyFails /\ dest = Dirs
        /\ pc' = "rest" /\ result' = "failed" /\ UNCHANGED dest

\* mkdir, chown and chmod of the configuration and key directories, which repeating
\* does not change.
SetupDirectories == At("dirs") /\ Goto("keys") /\ UNCHANGED machine

\* Both files exist, whatever they hold; or the installed program is run to generate
\* them, and refuses if there is a private one.
FindKeys ==
  /\ At("keys") /\ UNCHANGED machine
  /\ \/ private # None /\ public # None /\ Goto("service")
     \/ private # None /\ public = None /\ Ends("failed")
     \/ private = None /\ binary[dest] = "whole" /\ Goto("private")
     \/ private = None /\ binary[dest] # "whole" /\ Ends("failed")

WritesUnit ==
  /\ At("service")
  /\ \/ unit' = dest /\ Goto("request")
     \/ HalfWay /\ unit' = Torn /\ Stops("failed")
  /\ UNCHANGED <<binary, keys, built, enabled, active, missed, host>>

\* Mutation: the unit file names the first directory.
CreateServiceForFirst ==
  /\ plugin = "linux" /\ At("service") /\ unit' = 1 /\ Goto("request")
  /\ UNCHANGED <<binary, keys, built, enabled, active, missed, host>>

\* Linux: the unit file is moved into place.
CreateSystemdService == plugin = "linux" /\ WritesUnit

\* NixOS: the module file is copied to where the operator may import it from.
InstallModule == plugin = "nixos" /\ WritesUnit

\* GetJWKPublicKey reads the file and parses it.
Sendable == public \notin {None, Torn}

\* The public file is read and sent; the backend makes a new host of it.  The answer
\* may be lost.
SendRegistrationRequest ==
  /\ At("request")
  /\ \/ ~Sendable /\ Ends("failed") /\ UNCHANGED backend
     \/ /\ Sendable /\ Len(backend) < MaxHosts
        /\ backend' = Append(backend, public)
        /\ \/ Goto("save")
           \/ "command" \in Failures /\ Ends("failed")
  /\ UNCHANGED <<plugin, binary, keys, service, config>>

\* Mutation: a configuration that exists is kept.
SaveConfigurationOnce ==
  /\ At("save") /\ Goto("mode")
  /\ config' = IF config = None THEN Len(backend) ELSE config
  /\ UNCHANGED <<plugin, binary, keys, service, backend>>

SaveConfiguration ==
  /\ At("save")
  /\ \/ config' = Len(backend) /\ Goto("mode")
     \/ HalfWay /\ config' = Torn /\ Stops("failed")
  /\ UNCHANGED <<plugin, binary, keys, service, backend>>

\* chmod, and the end.
Registered == At("mode") /\ Ends("registered") /\ UNCHANGED machine

-----------------------------------------------------------------------------
(* keygen, by the operator or by register.                                 *)

\* Mutation: keys that exist are overwritten.
KeygenAnyway == Runs("keygen", "private") /\ UNCHANGED sound

Keygen ==
  \/ private = None /\ Runs("keygen", "private") /\ UNCHANGED sound
  \/ private # None /\ Forced /\ Runs("keygen", "private") /\ sound' = FALSE
  \/ /\ pc = "rest" /\ private # None
     /\ op' = "keygen" /\ result' = "refused" /\ troubled' = FALSE
     /\ UNCHANGED <<machine, pc, dest, sound>>

SavePrivate ==
  /\ At("private") /\ made < MaxKeys /\ made' = made + 1
  /\ \/ private' = made' /\ Goto("public")
     \/ HalfWay /\ private' = Torn /\ Stops("failed")
  /\ UNCHANGED <<binary, public, service, host>>

SavePublic ==
  /\ At("public")
  /\ \/ public' = made /\ op = "register" /\ Goto("service")
     \/ public' = made /\ op = "keygen" /\ Ends("generated")
     \/ HalfWay /\ public' = Torn /\ Stops("failed")
  /\ UNCHANGED <<binary, private, made, service, host>>

-----------------------------------------------------------------------------
(* uninstall, once confirmed: a failure is a warning, and the next step follows. *)

Uninstall == Runs("uninstall", "stop") /\ UNCHANGED sound

\* Linux: UninstallService removes the unit file, then CleanupInstallation the rest.
\* NixOS: UninstallService only stops, and CleanupInstallation removes the module file
\* last.
After(step) ==
  IF plugin = "nixos"
  THEN CASE step = "stop"          -> "remove dirs"
         [] step = "remove dirs"   -> "remove binary"
         [] step = "remove binary" -> "remove module"
         [] OTHER                  -> "rest"
  ELSE CASE step = "stop"          -> "disable"
         [] step = "disable"       -> "remove unit"
         [] step = "remove unit"   -> "remove dirs"
         [] step = "remove dirs"   -> "remove binary"
         [] OTHER                  -> "rest"

Removing(step) ==
  /\ At(step) /\ pc' = After(step) /\ UNCHANGED dest
  /\ result' = IF pc' = "rest" THEN "uninstalled" ELSE result
Works == UNCHANGED <<troubled, sound>>
Warns == "command" \in Failures /\ troubled' = TRUE /\ UNCHANGED sound

\* A service that is-active does not find is not stopped: also in the restart pause, or
\* when is-active itself fails.
StopService ==
  /\ Removing("stop")
  /\ \/ active = "running" /\ active' = "inactive" /\ missed' = FALSE /\ Works
     \/ active = "running" /\ UNCHANGED active /\ missed' = FALSE /\ Warns
     \/ /\ active # "running" \/ "command" \in Failures
        /\ UNCHANGED active /\ missed' = (active # "inactive") /\ Works
  /\ UNCHANGED <<binary, keys, unit, built, enabled, host>>

\* A service that is-enabled denies is not disabled: it does without a unit file, or
\* when it fails itself.
DisableService ==
  /\ Removing("disable")
  /\ \/ /\ unit = None \/ ~enabled \/ "command" \in Failures
        /\ UNCHANGED enabled /\ Works
     \/ unit # None /\ enabled /\ enabled' = FALSE /\ Works
     \/ unit # None /\ enabled /\ UNCHANGED enabled /\ Warns
  /\ UNCHANGED <<binary, keys, unit, built, active, missed, host>>

RemovesUnit ==
  /\ \/ unit' = None /\ Works
     \/ unit # None /\ UNCHANGED unit /\ Warns
  /\ UNCHANGED <<binary, keys, built, enabled, active, missed, host>>

RemoveUnit   == Removing("remove unit") /\ RemovesUnit
RemoveModule == Removing("remove module") /\ RemovesUnit

\* Mutation: nothing is removed where there is no configuration.
RemoveDirsIfConfigured ==
  /\ Removing("remove dirs") /\ Works
  /\ \/ config # None /\ config' = None /\ private' = None /\ public' = None
     \/ config = None /\ UNCHANGED <<config, private, public>>
  /\ UNCHANGED <<plugin, binary, made, service, backend>>

\* rm -rf of the configuration directory, with the keys in it.
RemoveDirs ==
  /\ Removing("remove dirs")
  /\ \/ config' = None /\ private' = None /\ public' = None /\ Works
     \/ UNCHANGED <<config, private, public>> /\ Warns
     \/ /\ HalfWay /\ troubled' = TRUE
        /\ config' \in {config, None}
        /\ private' \in {private, None} /\ public' \in {public, None}
  /\ UNCHANGED <<plugin, binary, made, service, backend>>

\* Only the first program found is removed.
RemoveBinary ==
  /\ Removing("remove binary")
  /\ LET found == {d \in 1..Dirs : binary[d] # "none"}
     IN  \/ found = {} /\ UNCHANGED binary /\ Works
         \/ \E d \in found :
              /\ \A e \in found : d <= e
              /\ \/ binary' = [binary EXCEPT ![d] = "none"] /\ Works
                 \/ UNCHANGED binary /\ Warns
  /\ UNCHANGED <<keys, service, host>>

-----------------------------------------------------------------------------
(* What the agent needs to start, and what starts and ends it.             *)

\* LoadWithOverrides reads a configuration: the defaults may complete one that was cut
\* off.  One that is whole is valid.
Loads == config # None
Valid == config \notin {None, Torn}

\* LoadKey reads both files.
Loadable == private \notin {None, Torn} /\ public \notin {None, Torn}

\* All that an agent started from directory d needs.
Ready(d)  == d \notin {None, Torn} /\ binary[d] = "whole" /\ Valid /\ Loadable
Installed == IF plugin = "nixos" THEN built ELSE unit
Startable == Ready(Installed)
MayStart  ==
  Installed \notin {None, Torn} /\ binary[Installed] = "whole" /\ Loads /\ Loadable

Between == UNCHANGED <<binary, keys, missed, host, op, pc, dest, result, troubled, sound>>

\* What becomes of a service that is started: an agent that cannot start ends, and
\* systemd restarts it after a pause.
Started == active' = IF MayStart' THEN "running" ELSE "pausing"

\* systemctl start by the operator.
StartService ==
  /\ pc = "rest" /\ active = "inactive" /\ Installed \notin {None, Torn}
  /\ UNCHANGED <<unit, built, enabled>> /\ Between /\ Started

\* systemctl enable by the operator; on NixOS the system's own files are read-only.
EnableService ==
  /\ pc = "rest" /\ plugin = "linux" /\ unit # None /\ ~enabled
  /\ enabled' = TRUE /\ UNCHANGED <<unit, built, active>> /\ Between

\* nixos-rebuild switch by the operator, with the module imported or not.
Rebuild ==
  /\ pc = "rest" /\ plugin = "nixos" /\ Between /\ UNCHANGED <<unit, enabled>>
  /\ built' \in {unit, None} \ {Torn} /\ built' # built
  /\ \/ built' = None /\ active' = "inactive"
     \/ built' # None /\ Started

\* The agent ends at any time, also while a command runs, ...
AgentEnds ==
  /\ active = "running" /\ Installed # None
  /\ active' = "pausing" /\ UNCHANGED <<unit, built, enabled>> /\ Between

\* ... and systemd starts it again with what is there then, ...
AgentRestarts ==
  /\ active = "pausing" /\ MayStart
  /\ active' = "running" /\ UNCHANGED <<unit, built, enabled>> /\ Between

\* systemd has the service and starts it at boot.
UnitThere == IF plugin = "nixos" THEN built # None ELSE unit # None /\ enabled

\* ... or gives up after too many starts; or the agent ends and systemd no longer has
\* the service; or the machine boots without it.
StaysDown ==
  /\ \/ active = "pausing"
     \/ active = "running" /\ ~(MayStart /\ UnitThere)
  /\ active' = "inactive" /\ UNCHANGED <<unit, built, enabled>> /\ Between

-----------------------------------------------------------------------------
(* status.                                                                 *)

\* What it finds right: the configuration is valid, both key files are there, systemd
\* has the service and runs it, and there is a program in a directory but the last,
\* which is on no default path.
ProgramSeen == \E d \in 1..Dirs : d < Dirs /\ binary[d] # "none"
KeysThere   == private # None /\ public # None

Status ==
  /\ pc = "rest" /\ op' = "status" /\ troubled' = FALSE
  /\ \/ /\ Loads /\ KeysThere /\ UnitThere /\ active = "running"
        /\ ProgramSeen /\ result' = "healthy"
     \/ /\ ~(Valid /\ KeysThere /\ UnitThere /\ active = "running" /\ ProgramSeen)
        /\ result' = "unhealthy"
  /\ UNCHANGED <<machine, pc, dest, sound>>

Next ==
  \/ Register \/ InstallBinary \/ SetupDirectories \/ FindKeys
  \/ CreateSystemdService \/ InstallModule
  \/ SendRegistrationRequest \/ SaveConfiguration \/ Registered
  \/ Keygen \/ SavePrivate \/ SavePublic
  \/ Uninstall \/ StopService \/ DisableService \/ RemoveUnit \/ RemoveDirs
  \/ RemoveBinary \/ RemoveModule
  \/ StartService \/ EnableService \/ Rebuild
  \/ AgentEnds \/ AgentRestarts \/ StaysDown \/ Status
  \/ CommandFails \/ Dies

Spec == Init /\ [][Next]_vars
-----------------------------------------------------------------------------
(* Properties.                                                             *)

\* The types of the machine's variables ...
MachineTypeOK ==
  /\ plugin \in Plugins /\ binary \in [1..Dirs -> {"none", "partial", "whole"}]
  /\ private \in {Torn, None} \cup 1..MaxKeys /\ public \in {Torn, None} \cup 1..MaxKeys
  /\ made \in 0..MaxKeys
  /\ unit \in {Torn, None} \cup 1..Dirs /\ built \in {Torn, None} \cup 1..Dirs
  /\ active \in {"inactive", "running", "pausing"} /\ {enabled, missed} \subseteq BOOLEAN
  /\ config \in {Torn, None} \cup 1..MaxHosts
  /\ backend \in Seq(1..MaxKeys) /\ Len(backend) <= MaxHosts

\* ... and of the command's.
CommandTypeOK ==
  /\ op \in {"none", "register", "keygen", "uninstall", "status"} /\ pc \in Steps
  /\ dest \in 1..Dirs /\ result \in Results /\ {troubled, sound} \subseteq BOOLEAN

\* Every variable has its type.
TypeOK == MachineTypeOK /\ CommandTypeOK

\* While no key has been overwritten by force and no file written by halves, an agent
\* that can start is one the backend knows, under the configured host, by its private
\* key: after any number of commands that were stopped or whose programs failed.
RunnableAgentIsKnown == sound /\ Startable => backend[config] = private

\* While files are written whole, a success of register leaves an agent that can start:
\* on Linux at once, on NixOS once the system is rebuilt with the module.
SuccessIsRunnable == sound /\ result = "registered" => Ready(unit)

\* Whatever failed before, and however, a success of register means that the unit
\* file, the configuration and the keys are there, and that the configured host is the
\* one the backend has the public key for.
SuccessIsRegistered ==
  result = "registered" =>
    /\ unit \notin {None, Torn} /\ binary[unit] # "none" /\ private # None
    /\ config \in 1..Len(backend) /\ backend[config] = public

\* An uninstall that reported no failure leaves no unit or module file, no configuration
\* and no key, whatever state the commands before it left; and an agent runs after it
\* only if the stop was skipped, because the service was in its restart pause or is-active
\* failed: no other start undoes it, also not on a NixOS that was not rebuilt.
CleanUninstall ==
  result = "uninstalled" /\ ~troubled =>
    /\ unit = None /\ config = None /\ private = None /\ public = None
    /\ active = "running" => missed

-----------------------------------------------------------------------------
(* What the programs say and do not do.                                    *)

\* keygen refuses only because there are keys, and start says to use keygen if there
\* are none that it can load.  So a refusal means that there are.
RefusedMeansKeys == result = "refused" => Loadable

\* A success of register says that the agent is registered and can be started.
InstalledIsRunnable == result = "registered" => Ready(unit)

\* A success of uninstall says that the agent is removed completely.
UninstalledIsGone ==
  result = "uninstalled" =>
    active # "running" /\ unit = None /\ config = None /\ \A d \in 1..Dirs : binary[d] = "none"

\* uninstall says that it stops the service, and that the agent is removed completely.
UninstalledIsStopped == result = "uninstalled" /\ ~troubled => active # "running"

\* uninstall says that it disables the service: a later register is not started at boot.
UninstalledIsDisabled == result = "uninstalled" /\ ~troubled => ~enabled

\* status says that it validates the installation: an agent it calls healthy could be
\* started again, and the backend knows it.
HealthyIsSound ==
  [][Status /\ result' = "healthy" => Startable /\ backend[config] = private]_vars
=============================================================================
