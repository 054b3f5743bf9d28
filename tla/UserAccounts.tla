---------------------------- MODULE UserAccounts ---------------------------
(***************************************************************************)
(* provisionUser: src/scripts/provision_user.go and, behind the plugin,    *)
(* src/internal/osplugins/userutil.go.                                     *)
(*                                                                         *)
(* Workers run the script at the same time for the reasons given in module *)
(* Provisioning, and nothing locks the user database between the look at   *)
(* it and the commands that change it: two lookups of the name, a scan for *)
(* a free UID that asks for one UID at a time, groupadd, useradd and, when *)
(* either fails, adduser.  The commands lock the database themselves and   *)
(* refuse what is taken.  A worker may die between two steps.              *)
(***************************************************************************)
EXTENDS Naturals, FiniteSets

CONSTANTS
  Workers,
  Names, ValidNames,   \* user names; those isValidUsername lets through
  MinUID, MaxUID,
  OldUsers, OldGroups, \* accounts and groups that are there before
  Commands,            \* which of "useradd" (with groupadd) and "adduser" there are
  Failures             \* what may happen: "command" (one fails), "death" (of a worker)

User  == [name : Names, uid : Nat, gid : Nat]
Group == [name : Names, gid : Nat]

ASSUME UserAssumption ==
  /\ ValidNames \subseteq Names
  /\ MinUID \in Nat /\ MaxUID \in Nat /\ MinUID <= MaxUID
  /\ OldUsers \subseteq User /\ OldGroups \subseteq Group
  /\ Commands \subseteq {"useradd", "adduser"} /\ Failures \subseteq {"command", "death"}

VARIABLES
  users, groups,  \* /etc/passwd and /etc/group
  pc,             \* where each worker is
  job,            \* the name each worker is asked to provision, and the action
  uid,            \* newUID of each worker
  faulty          \* the workers one of whose commands failed of itself in this request

vars == <<users, groups, pc, job, uid, faulty>>

NoJob   == [name |-> "none", action |-> "none"]
Resting == {"idle", "succeeded", "failed"}
PC      == Resting \cup {"lookup", "lookupAgain", "scan", "groupadd", "useradd", "adduser"}

Goto(w, l) == pc' = [pc EXCEPT ![w] = l]

HasUser(n)  == \E u \in users : u.name = n
HasUid(i)   == \E u \in users : u.uid = i
HasGroup(n) == \E g \in groups : g.name = n
HasGid(i)   == \E g \in groups : g.gid = i

Init ==
  /\ users = OldUsers /\ groups = OldGroups
  /\ pc = [w \in Workers |-> "idle"]
  /\ job = [w \in Workers |-> NoJob]
  /\ uid = [w \in Workers |-> MinUID]
  /\ faulty = {}

-----------------------------------------------------------------------------
\* ProvisionUser: an invalid name fails; a revocation succeeds and does nothing.
Begin(w, n, action) ==
  /\ pc[w] \in Resting
  /\ job' = [job EXCEPT ![w] = [name |-> n, action |-> action]]
  /\ Goto(w, IF n \notin ValidNames THEN "failed"
             ELSE IF action = "revoke" THEN "succeeded" ELSE "lookup")
  /\ faulty' = faulty \ {w}
  /\ UNCHANGED <<users, groups, uid>>

\* ensureUserExists looks the user up, then CreateUser of the plugin does.
Lookup(w) ==
  /\ pc[w] = "lookup"
  /\ Goto(w, IF HasUser(job[w].name) THEN "succeeded" ELSE "lookupAgain")
  /\ UNCHANGED <<users, groups, job, uid, faulty>>

LookupAgain(w) ==
  /\ pc[w] = "lookupAgain"
  /\ Goto(w, IF HasUser(job[w].name) THEN "succeeded" ELSE "scan")
  /\ uid' = [uid EXCEPT ![w] = MinUID]
  /\ UNCHANGED <<users, groups, job, faulty>>

\* Mutations: the scan stops one UID early, or one late.
ScanEndsEarly(w) ==
  /\ pc[w] = "scan"
  /\ \/ uid[w] = MaxUID /\ Goto(w, "failed") /\ UNCHANGED uid
     \/ uid[w] < MaxUID /\ HasUid(uid[w]) /\ uid' = [uid EXCEPT ![w] = @ + 1] /\ UNCHANGED pc
     \/ uid[w] < MaxUID /\ ~HasUid(uid[w]) /\ Goto(w, "groupadd") /\ UNCHANGED uid
  /\ UNCHANGED <<users, groups, job, faulty>>
ScanEndsLate(w) ==
  /\ pc[w] = "scan"
  /\ \/ HasUid(uid[w]) /\ uid' = [uid EXCEPT ![w] = @ + 1] /\ UNCHANGED pc
     \/ ~HasUid(uid[w]) /\ Goto(w, "groupadd") /\ UNCHANGED uid
  /\ UNCHANGED <<users, groups, job, faulty>>

\* findNextAvailableUID: one turn of its loop, or its error at the end.
Scan(w) ==
  /\ pc[w] = "scan"
  /\ \/ uid[w] > MaxUID /\ Goto(w, "failed") /\ UNCHANGED uid
     \/ uid[w] <= MaxUID /\ HasUid(uid[w]) /\ uid' = [uid EXCEPT ![w] = @ + 1] /\ UNCHANGED pc
     \/ uid[w] <= MaxUID /\ ~HasUid(uid[w]) /\ Goto(w, "groupadd") /\ UNCHANGED uid
  /\ UNCHANGED <<users, groups, job, faulty>>

\* groupadd refuses a name or a GID that is taken.
CanAddGroup(w) ==
  "useradd" \in Commands /\ ~HasGroup(job[w].name) /\ ~HasGid(uid[w])

\* Mutation: the error of groupadd is not looked at.
GroupAddAnyway(w) ==
  /\ pc[w] = "groupadd"
  /\ groups' = groups \cup
       IF CanAddGroup(w) THEN {[name |-> job[w].name, gid |-> uid[w]]} ELSE {}
  /\ Goto(w, IF "useradd" \in Commands THEN "useradd" ELSE "adduser")
  /\ UNCHANGED <<users, job, uid, faulty>>

GroupAdd(w) ==
  /\ pc[w] = "groupadd"
  /\ \/ /\ CanAddGroup(w)
        /\ groups' = groups \cup {[name |-> job[w].name, gid |-> uid[w]]}
        /\ Goto(w, "useradd")
     \/ ~CanAddGroup(w) /\ Goto(w, "adduser") /\ UNCHANGED groups
  /\ UNCHANGED <<users, job, uid, faulty>>

\* useradd refuses a name or a UID that is taken, and a group that is not there.
CanAddUser(w) == ~HasUser(job[w].name) /\ ~HasUid(uid[w]) /\ HasGid(uid[w])

UserAdd(w) ==
  /\ pc[w] = "useradd"
  /\ \/ /\ CanAddUser(w)
        /\ users' = users \cup {[name |-> job[w].name, uid |-> uid[w], gid |-> uid[w]]}
        /\ Goto(w, "succeeded")
     \/ ~CanAddUser(w) /\ Goto(w, "adduser") /\ UNCHANGED users
  /\ UNCHANGED <<groups, job, uid, faulty>>

\* adduser makes the group as well, and refuses whatever is taken.
CanAddBoth(w) ==
  /\ "adduser" \in Commands
  /\ ~HasUser(job[w].name) /\ ~HasUid(uid[w]) /\ ~HasGroup(job[w].name) /\ ~HasGid(uid[w])

\* Mutation: the error of adduser is not looked at.
AddUserAnyway(w) ==
  /\ pc[w] = "adduser"
  /\ Goto(w, "succeeded")
  /\ UNCHANGED <<users, groups, job, uid, faulty>>

AddUser(w) ==
  /\ pc[w] = "adduser"
  /\ \/ /\ CanAddBoth(w)
        /\ users' = users \cup {[name |-> job[w].name, uid |-> uid[w], gid |-> uid[w]]}
        /\ groups' = groups \cup {[name |-> job[w].name, gid |-> uid[w]]}
        /\ Goto(w, "succeeded")
     \/ ~CanAddBoth(w) /\ Goto(w, "failed") /\ UNCHANGED <<users, groups>>
  /\ UNCHANGED <<job, uid, faulty>>

\* A command fails of itself and changes nothing.
CommandFails(w) ==
  /\ "command" \in Failures
  /\ pc[w] \in {"groupadd", "useradd", "adduser"}
  /\ Goto(w, IF pc[w] = "adduser" THEN "failed" ELSE "adduser")
  /\ faulty' = faulty \cup {w}
  /\ UNCHANGED <<users, groups, job, uid>>

\* useradd or adduser fails when the account is made already: its home directory cannot be.
CommandEndsBadly(w) ==
  /\ "command" \in Failures
  /\ \/ /\ pc[w] = "useradd" /\ CanAddUser(w)
        /\ Goto(w, "adduser") /\ UNCHANGED groups
     \/ /\ pc[w] = "adduser" /\ CanAddBoth(w)
        /\ groups' = groups \cup {[name |-> job[w].name, gid |-> uid[w]]}
        /\ Goto(w, "failed")
  /\ users' = users \cup {[name |-> job[w].name, uid |-> uid[w], gid |-> uid[w]]}
  /\ faulty' = faulty \cup {w}
  /\ UNCHANGED <<job, uid>>

\* The process of the worker ends.
Dies(w) ==
  /\ "death" \in Failures
  /\ pc[w] \notin Resting
  /\ Goto(w, "idle")
  /\ UNCHANGED <<users, groups, job, uid, faulty>>

Next ==
  \E w \in Workers :
    \/ \E n \in Names, action \in {"grant", "revoke"} : Begin(w, n, action)
    \/ Lookup(w) \/ LookupAgain(w) \/ Scan(w) \/ GroupAdd(w) \/ UserAdd(w) \/ AddUser(w)
    \/ CommandFails(w) \/ CommandEndsBadly(w) \/ Dies(w)

Spec == Init /\ [][Next]_vars
-----------------------------------------------------------------------------
(* Properties.                                                             *)

\* Every variable has its type.  The scan goes no further than one past the range.
TypeOK ==
  /\ users \in SUBSET User /\ groups \in SUBSET Group
  /\ pc \in [Workers -> PC]
  /\ job \in [Workers -> [name : Names, action : {"grant", "revoke"}] \cup {NoJob}]
  /\ uid \in [Workers -> MinUID .. MaxUID + 1] /\ faulty \subseteq Workers

\* The accounts the script has made.
Made == users \ OldUsers

\* However scripts interleave, fail and die, an account the script has made lies in
\* the range, shares its UID with no other, and has as its primary group the one
\* that carries its own name: nobody ends up in the group of another.
AccountsAreTheirOwn ==
  \A u \in Made :
    /\ u.uid \in MinUID .. MaxUID
    /\ [name |-> u.name, gid |-> u.gid] \in groups
    /\ \A g \in groups : g.gid = u.gid => g.name = u.name
    /\ \A v \in users : v.uid = u.uid \/ v.name = u.name => v = u

\* A grant that reports success leaves the user there, whoever made it.
GrantedUserExists ==
  \A w \in Workers : pc[w] = "succeeded" /\ job[w].action = "grant" => HasUser(job[w].name)

\* However scripts interleave, a request none of whose commands failed of itself
\* fails only if the name is invalid, the range is full, or a group is in the way: one
\* left over from an earlier attempt, one another script has made, or one whose GID the
\* scan never looked at.
FailsForAReason ==
  \A w \in Workers : pc[w] = "failed" /\ w \notin faulty =>
    \/ job[w].name \notin ValidNames
    \/ \A i \in MinUID .. MaxUID : HasUid(i)
    \/ HasGroup(job[w].name)
    \/ HasGid(uid[w])

-----------------------------------------------------------------------------
(* What the documentation says and the code does not do.                   *)

\* scripts/README: a grant finds the next available UID and creates the account.
\* So the UID found is free for the account and for its group.
FoundUidIsAvailable ==
  \A w \in Workers : pc[w] = "groupadd" => ~HasUid(uid[w]) /\ ~HasGid(uid[w])
=============================================================================
