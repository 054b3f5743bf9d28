------------------------- MODULE UserAccountsProofs ------------------------
(***************************************************************************)
(* What provisionUser makes, for any number of workers, any accounts that  *)
(* are there before, and whatever fails.  The scan and the commands are    *)
(* far apart, so what holds is not that the UID found is free, but that    *)
(* the commands refuse what is taken and that a worker behind its groupadd *)
(* owns the group of its UID, which nobody can make a second time.         *)
(***************************************************************************)
EXTENDS UserAccounts, TLAPS

\* A worker that has something to do knows for whom.
JobsNamed == \A w \in Workers : pc[w] # "idle" => job[w].name \in Names

\* The UID of a worker behind its scan lies in the range.
ScannedInRange ==
  \A w \in Workers :
    pc[w] \in {"groupadd", "useradd", "adduser"} => uid[w] \in MinUID .. MaxUID

\* The group under a GID carries this name and no other.
OwnsGroup(n, i) ==
  /\ [name |-> n, gid |-> i] \in groups
  /\ \A g \in groups : g.gid = i => g.name = n

\* A worker behind its groupadd owns the group of its UID.
GroupedOwnsGroup ==
  \A w \in Workers : pc[w] = "useradd" => OwnsGroup(job[w].name, uid[w])

AccountInv ==
  /\ TypeOK /\ JobsNamed /\ ScannedInRange /\ GroupedOwnsGroup
  /\ AccountsAreTheirOwn /\ GrantedUserExists

-----------------------------------------------------------------------------
\* The initial state satisfies the invariant: nothing is made yet.
LEMMA AccountInit == Init => AccountInv
<1> SUFFICES ASSUME Init PROVE AccountInv
  OBVIOUS
<1> USE UserAssumption DEF Init
<1>1. TypeOK
  BY DEF TypeOK, PC, Resting, NoJob
<1>2. /\ JobsNamed /\ ScannedInRange /\ GroupedOwnsGroup
      /\ AccountsAreTheirOwn /\ GrantedUserExists
  BY DEF JobsNamed, ScannedInRange, GroupedOwnsGroup, AccountsAreTheirOwn,
         GrantedUserExists, Made
<1> QED BY <1>1, <1>2 DEF AccountInv

\* A worker goes on, the database stays: the new place of the worker decides.
LEMMA GoingOnKeepsInv ==
  ASSUME AccountInv, UserAssumption, NEW w \in Workers, NEW l \in PC, Goto(w, l),
         UNCHANGED <<users, groups, job>>, faulty' \subseteq Workers,
         \E i \in MinUID .. MaxUID + 1 : uid' = [uid EXCEPT ![w] = i],
         l \in {"groupadd", "adduser"} => uid'[w] \in MinUID .. MaxUID,
         l # "useradd", pc[w] # "idle",
         l = "succeeded" /\ job[w].action = "grant" => HasUser(job[w].name)
  PROVE  AccountInv'
<1>1. TypeOK'
  BY DEF AccountInv, TypeOK, Goto
<1>2. JobsNamed' /\ ScannedInRange' /\ GroupedOwnsGroup' /\ GrantedUserExists'
  BY DEF AccountInv, TypeOK, JobsNamed, ScannedInRange, GroupedOwnsGroup, OwnsGroup,
         GrantedUserExists, HasUser, Goto
<1>3. AccountsAreTheirOwn'
  BY DEF AccountInv, AccountsAreTheirOwn, Made
<1> QED BY <1>1, <1>2, <1>3 DEF AccountInv

\* A worker's command has changed the database: the others are where they were.
LEMMA OthersStay ==
  ASSUME TypeOK, NEW w \in Workers, NEW l \in PC, Goto(w, l), UNCHANGED <<job, uid>>,
         NEW v \in Workers
  PROVE  /\ job'[v] = job[v] /\ uid'[v] = uid[v]
         /\ v # w => pc'[v] = pc[v]
         /\ pc'[w] = l
BY DEF TypeOK, Goto

\* A new account with a name and a UID nobody had keeps the invariant, if it gets the
\* group of its name, found there or made with it under a GID nobody had.
LEMMA NewUserKeepsInv ==
  ASSUME AccountInv, UserAssumption, NEW w \in Workers, pc[w] \in {"useradd", "adduser"},
         ~HasUser(job[w].name), ~HasUid(uid[w]),
         \/ OwnsGroup(job[w].name, uid[w]) /\ UNCHANGED groups
         \/ /\ ~HasGid(uid[w])
            /\ groups' = groups \cup {[name |-> job[w].name, gid |-> uid[w]]},
         users' = users \cup {[name |-> job[w].name, uid |-> uid[w], gid |-> uid[w]]},
         NEW l \in {"succeeded", "adduser", "failed"}, Goto(w, l),
         UNCHANGED <<job, uid>>, faulty' \subseteq Workers
  PROVE  AccountInv'
<1> DEFINE u == [name |-> job[w].name, uid |-> uid[w], gid |-> uid[w]]
           g == [name |-> job[w].name, gid |-> uid[w]]
<1>1. uid[w] \in MinUID .. MaxUID /\ u \in User /\ g \in Group /\ l \in PC
  BY DEF AccountInv, JobsNamed, ScannedInRange, User, Group, UserAssumption, PC, Resting
<1>2. groups \subseteq groups' /\ groups' \subseteq groups \cup {g}
  OBVIOUS
<1>3. TypeOK'
  BY <1>1, <1>2 DEF AccountInv, TypeOK, Goto
<1>4. ASSUME NEW n, NEW i, OwnsGroup(n, i) PROVE OwnsGroup(n, i)'
  BY <1>4 DEF OwnsGroup, HasGid
<1>5. OwnsGroup(u.name, u.gid)'
  BY DEF OwnsGroup, HasGid
<1>6. JobsNamed' /\ ScannedInRange' /\ GroupedOwnsGroup'
  BY <1>1, <1>4, OthersStay DEF AccountInv, JobsNamed, ScannedInRange, GroupedOwnsGroup
<1>7. GrantedUserExists'
  BY <1>1, OthersStay DEF AccountInv, GrantedUserExists, HasUser
<1>8. AccountsAreTheirOwn'
  <2> SUFFICES ASSUME NEW x \in users' \ OldUsers
               PROVE  /\ x.uid \in MinUID .. MaxUID
                      /\ OwnsGroup(x.name, x.gid)'
                      /\ \A v \in users' : v.uid = x.uid \/ v.name = x.name => v = x
    BY DEF AccountsAreTheirOwn, Made, OwnsGroup
  <2>1. CASE x = u
    BY <1>1, <1>5, <2>1 DEF HasUser, HasUid
  <2>2. CASE x \in Made
    <3>1. x.uid \in MinUID .. MaxUID /\ OwnsGroup(x.name, x.gid)
      BY <2>2 DEF AccountInv, AccountsAreTheirOwn, OwnsGroup
    <3>2. \A v \in users : v.uid = x.uid \/ v.name = x.name => v = x
      BY <2>2 DEF AccountInv, AccountsAreTheirOwn
    <3>3. x.uid # u.uid /\ x.name # u.name
      BY <2>2 DEF Made, HasUser, HasUid
    <3> QED BY <1>4, <3>1, <3>2, <3>3
  <2> QED BY <2>1, <2>2 DEF Made
<1> QED BY <1>3, <1>6, <1>7, <1>8 DEF AccountInv

\* Every step of every worker keeps the invariant.
LEMMA AccountStep == AccountInv /\ [Next]_vars => AccountInv'
<1> SUFFICES ASSUME AccountInv, [Next]_vars PROVE AccountInv'
  OBVIOUS
<1> USE UserAssumption
<1>t. /\ TypeOK /\ JobsNamed /\ ScannedInRange /\ GroupedOwnsGroup
      /\ AccountsAreTheirOwn /\ GrantedUserExists
  BY DEF AccountInv
<1>w. ASSUME NEW w \in Workers
      PROVE  /\ uid[w] \in MinUID .. MaxUID + 1 /\ uid = [uid EXCEPT ![w] = uid[w]]
             /\ MinUID \in MinUID .. MaxUID + 1
             /\ uid[w] <= MaxUID => /\ uid[w] \in MinUID .. MaxUID
                                   /\ uid[w] + 1 \in MinUID .. MaxUID + 1
  BY <1>t DEF TypeOK
<1>1. ASSUME NEW w \in Workers, NEW n \in Names, NEW action \in {"grant", "revoke"},
             Begin(w, n, action)
      PROVE  AccountInv'
  <2>1. TypeOK'
    BY <1>t, <1>1 DEF Begin, TypeOK, PC, Resting, Goto
  <2>2. JobsNamed' /\ ScannedInRange' /\ GroupedOwnsGroup'
    BY <1>t, <1>1 DEF Begin, TypeOK, JobsNamed, ScannedInRange, GroupedOwnsGroup,
                      OwnsGroup, Goto
  <2>3. AccountsAreTheirOwn' /\ GrantedUserExists'
    BY <1>t, <1>1 DEF Begin, TypeOK, AccountsAreTheirOwn, GrantedUserExists, HasUser,
                      Made, Goto
  <2> QED BY <2>1, <2>2, <2>3 DEF AccountInv
<1>2. ASSUME NEW w \in Workers, Lookup(w) \/ LookupAgain(w) PROVE AccountInv'
  <2>1. CASE Lookup(w)
    BY <1>t, <1>w, <2>1, GoingOnKeepsInv DEF Lookup, PC, Resting, TypeOK
  <2>2. CASE LookupAgain(w)
    <3>1. uid'[w] = MinUID
      BY <1>t, <2>2 DEF LookupAgain, TypeOK
    <3> QED BY <1>t, <1>w, <2>2, <3>1, GoingOnKeepsInv DEF LookupAgain, PC, Resting, TypeOK
  <2> QED BY <1>2, <2>1, <2>2
<1>3. ASSUME NEW w \in Workers, Scan(w) PROVE AccountInv'
  <2>1. CASE uid[w] > MaxUID /\ Goto(w, "failed") /\ UNCHANGED uid
    BY <1>3, <1>t, <1>w, <2>1, GoingOnKeepsInv DEF Scan, PC, Resting, TypeOK
  <2>2. CASE uid[w] <= MaxUID /\ HasUid(uid[w]) /\ uid' = [uid EXCEPT ![w] = @ + 1] /\ UNCHANGED pc
    <3>1. Goto(w, "scan")
      BY <1>3, <1>t, <2>2 DEF Scan, Goto, TypeOK
    <3> QED BY <1>3, <1>t, <1>w, <2>2, <3>1, GoingOnKeepsInv DEF Scan, PC, Resting, TypeOK
  <2>3. CASE uid[w] <= MaxUID /\ ~HasUid(uid[w]) /\ Goto(w, "groupadd") /\ UNCHANGED uid
    BY <1>3, <1>t, <1>w, <2>3, GoingOnKeepsInv DEF Scan, PC, Resting, TypeOK
  <2> QED BY <1>3, <2>1, <2>2, <2>3 DEF Scan
<1>4. ASSUME NEW w \in Workers, GroupAdd(w) PROVE AccountInv'
  <2> DEFINE g == [name |-> job[w].name, gid |-> uid[w]]
  <2>1. CASE ~CanAddGroup(w) /\ Goto(w, "adduser") /\ UNCHANGED groups
    BY <1>4, <1>t, <1>w, <2>1, GoingOnKeepsInv DEF GroupAdd, PC, Resting, TypeOK, ScannedInRange
  <2>2. CASE CanAddGroup(w) /\ groups' = groups \cup {g} /\ Goto(w, "useradd")
    <3>1. UNCHANGED <<users, job, uid, faulty>> /\ pc[w] = "groupadd" /\ "useradd" \in PC
      BY <1>4 DEF GroupAdd, PC
    <3>2. g \in Group /\ uid[w] \in MinUID .. MaxUID /\ ~HasGid(g.gid)
      BY <1>t, <2>2, <3>1 DEF CanAddGroup, JobsNamed, ScannedInRange, Group
    <3>3. TypeOK'
      BY <1>t, <2>2, <3>1, <3>2 DEF TypeOK, Goto
    <3>4. ASSUME NEW n, NEW i, OwnsGroup(n, i) PROVE OwnsGroup(n, i)'
      BY <2>2, <3>2, <3>4 DEF OwnsGroup, HasGid
    <3>5. OwnsGroup(job[w].name, uid[w])'
      BY <2>2, <3>1, <3>2 DEF OwnsGroup, HasGid
    <3>6. JobsNamed' /\ ScannedInRange' /\ GrantedUserExists'
      BY <1>t, <2>2, <3>1, <3>2, OthersStay
      DEF JobsNamed, ScannedInRange, GrantedUserExists, HasUser
    <3>7. GroupedOwnsGroup'
      BY <1>t, <2>2, <3>1, <3>4, <3>5, OthersStay DEF GroupedOwnsGroup
    <3>8. AccountsAreTheirOwn'
      <4>1. Made' = Made /\ \A u \in Made : OwnsGroup(u.name, u.gid)
        BY <1>t, <3>1 DEF AccountsAreTheirOwn, Made, OwnsGroup
      <4>2. \A u \in Made : OwnsGroup(u.name, u.gid)'
        BY <4>1, <3>4
      <4> QED BY <1>t, <3>1, <4>1, <4>2 DEF AccountsAreTheirOwn, OwnsGroup
    <3> QED BY <3>3, <3>6, <3>7, <3>8 DEF AccountInv
  <2> QED BY <1>4, <2>1, <2>2 DEF GroupAdd
<1>5. ASSUME NEW w \in Workers, UserAdd(w) PROVE AccountInv'
  <2> DEFINE u == [name |-> job[w].name, uid |-> uid[w], gid |-> uid[w]]
  <2>1. CASE ~CanAddUser(w) /\ Goto(w, "adduser") /\ UNCHANGED users
    BY <1>5, <1>t, <1>w, <2>1, GoingOnKeepsInv DEF UserAdd, PC, Resting, TypeOK, ScannedInRange
  <2>2. CASE CanAddUser(w) /\ users' = users \cup {u} /\ Goto(w, "succeeded")
    <3>1. UNCHANGED groups /\ OwnsGroup(u.name, u.gid)
      BY <1>5, <1>t DEF UserAdd, GroupedOwnsGroup
    <3> QED BY <1>5, <1>t, <2>2, <3>1, NewUserKeepsInv
            DEF UserAdd, CanAddUser, OwnsGroup, TypeOK
  <2> QED BY <1>5, <2>1, <2>2 DEF UserAdd
<1>6. ASSUME NEW w \in Workers, AddUser(w) PROVE AccountInv'
  <2> DEFINE u == [name |-> job[w].name, uid |-> uid[w], gid |-> uid[w]]
  <2>1. CASE ~CanAddBoth(w) /\ Goto(w, "failed") /\ UNCHANGED <<users, groups>>
    BY <1>6, <1>t, <1>w, <2>1, GoingOnKeepsInv DEF AddUser, PC, Resting, TypeOK
  <2>2. CASE /\ CanAddBoth(w) /\ users' = users \cup {u} /\ Goto(w, "succeeded")
             /\ groups' = groups \cup {[name |-> job[w].name, gid |-> uid[w]]}
    BY <1>6, <1>t, <2>2, NewUserKeepsInv DEF AddUser, CanAddBoth, TypeOK
  <2> QED BY <1>6, <2>1, <2>2 DEF AddUser
<1>7. ASSUME NEW w \in Workers, CommandFails(w) \/ CommandEndsBadly(w) \/ Dies(w)
      PROVE  AccountInv'
  <2> DEFINE u == [name |-> job[w].name, uid |-> uid[w], gid |-> uid[w]]
  <2>1. CASE CommandFails(w)
    BY <1>t, <1>w, <2>1, GoingOnKeepsInv DEF CommandFails, PC, Resting, TypeOK, ScannedInRange
  <2>2. CASE Dies(w)
    BY <1>t, <1>w, <2>2, GoingOnKeepsInv DEF Dies, PC, Resting, TypeOK
  <2>3. CASE /\ CommandEndsBadly(w) /\ pc[w] = "useradd" /\ CanAddUser(w)
             /\ Goto(w, "adduser") /\ UNCHANGED groups
    <3>1. OwnsGroup(u.name, u.gid) /\ faulty' \subseteq Workers
      BY <1>t, <2>3 DEF CommandEndsBadly, GroupedOwnsGroup, TypeOK
    <3> QED BY <1>t, <2>3, <3>1, NewUserKeepsInv
            DEF CommandEndsBadly, CanAddUser, OwnsGroup
  <2>4. CASE /\ CommandEndsBadly(w) /\ pc[w] = "adduser" /\ CanAddBoth(w) /\ Goto(w, "failed")
             /\ groups' = groups \cup {[name |-> job[w].name, gid |-> uid[w]]}
    <3>1. faulty' \subseteq Workers
      BY <1>t, <2>4 DEF CommandEndsBadly, TypeOK
    <3> QED BY <1>t, <2>4, <3>1, NewUserKeepsInv DEF CommandEndsBadly, CanAddBoth
  <2> QED BY <1>7, <2>1, <2>2, <2>3, <2>4 DEF CommandEndsBadly
<1>8. CASE UNCHANGED vars
  BY <1>t, <1>8 DEF vars, AccountInv, TypeOK, JobsNamed, ScannedInRange, GroupedOwnsGroup,
     OwnsGroup, AccountsAreTheirOwn, GrantedUserExists, HasUser, Made
<1> QED
  BY <1>1, <1>2, <1>3, <1>4, <1>5, <1>6, <1>7, <1>8 DEF Next

\* The invariant holds throughout.
LEMMA AccountCorrect == Spec => []AccountInv
BY AccountInit, AccountStep, PTL DEF Spec

-----------------------------------------------------------------------------
\* Every variable has its type; the scan goes no further than one past the range.
THEOREM AccountsTypeCorrect == Spec => []TypeOK
<1>1. AccountInv => TypeOK
  BY DEF AccountInv
<1> QED BY <1>1, AccountCorrect, PTL

\* However scripts interleave, fail and die, accounts share no name, UID or group.
THEOREM AccountsAreSeparate == Spec => []AccountsAreTheirOwn
<1>1. AccountInv => AccountsAreTheirOwn
  BY DEF AccountInv
<1> QED BY <1>1, AccountCorrect, PTL

\* A grant that reports success leaves the user there.
THEOREM SuccessMeansUser == Spec => []GrantedUserExists
<1>1. AccountInv => GrantedUserExists
  BY DEF AccountInv
<1> QED BY <1>1, AccountCorrect, PTL
-----------------------------------------------------------------------------
(* Why a request fails.  Accounts and groups only come, an account with    *)
(* the group of its name under its UID.  So what the lookup has not found, *)
(* or the scan has found free, is taken later only together with a group   *)
(* that is in the way.                                                     *)

\* The places between the second lookup and the answer, and those behind the scan.
Scanned    == {"groupadd", "useradd", "adduser"}
InTheWay(w) == HasGroup(job[w].name) \/ HasGid(uid[w])

Reasoned(w) ==
  /\ pc[w] \in {"scan"} \cup Scanned =>
       /\ \A i \in MinUID .. MaxUID : i < uid[w] => HasUid(i)
       /\ HasUser(job[w].name) => HasGroup(job[w].name)
  /\ pc[w] \in Scanned /\ HasUid(uid[w]) => HasGid(uid[w])
  /\ pc[w] = "adduser" /\ w \notin faulty /\ "useradd" \in Commands => InTheWay(w)
  /\ pc[w] = "failed" /\ w \notin faulty =>
       \/ job[w].name \notin ValidNames
       \/ \A i \in MinUID .. MaxUID : HasUid(i)
       \/ InTheWay(w)

\* The database grows, and an account comes with its group.
Grows ==
  /\ users \subseteq users' /\ groups \subseteq groups'
  /\ \A u \in users' \ users :
       u.uid = u.gid /\ \E g \in groups' : g.name = u.name /\ g.gid = u.gid

\* No step does anything else to it.
LEMMA DatabaseGrows == AccountInv /\ [Next]_vars => Grows
<1> SUFFICES ASSUME AccountInv, [Next]_vars PROVE Grows
  OBVIOUS
<1>0. ASSUME UNCHANGED users, groups \subseteq groups' PROVE Grows
  BY <1>0 DEF Grows
<1>1. ASSUME NEW w \in Workers,
             \/ \E n \in Names, action \in {"grant", "revoke"} : Begin(w, n, action)
             \/ Lookup(w) \/ LookupAgain(w) \/ Scan(w) \/ GroupAdd(w)
             \/ CommandFails(w) \/ Dies(w)
      PROVE  Grows
  BY <1>0, <1>1 DEF Begin, Lookup, LookupAgain, Scan, GroupAdd, CommandFails, Dies
<1>2. ASSUME NEW w \in Workers, pc[w] = "useradd", UserAdd(w) \/ CommandEndsBadly(w) PROVE Grows
  <2>1. [name |-> job[w].name, gid |-> uid[w]] \in groups
    BY <1>2 DEF AccountInv, GroupedOwnsGroup, OwnsGroup
  <2> QED BY <1>2, <2>1 DEF UserAdd, CommandEndsBadly, Grows
<1>3. ASSUME NEW w \in Workers, pc[w] = "adduser", AddUser(w) \/ CommandEndsBadly(w) PROVE Grows
  <2> DEFINE g == [name |-> job[w].name, gid |-> uid[w]]
  <2>1. CASE UNCHANGED <<users, groups>>
    BY <1>0, <2>1
  <2>2. CASE /\ users' = users \cup {[name |-> g.name, uid |-> g.gid, gid |-> g.gid]}
             /\ groups' = groups \cup {g}
    <3>1. g \in groups'
      BY <2>2
    <3> HIDE DEF g
    <3> QED BY <2>2, <3>1 DEF Grows
  <2> QED BY <1>3, <2>1, <2>2 DEF AddUser, CommandEndsBadly
<1>4. CASE UNCHANGED vars
  BY <1>0, <1>4 DEF vars
<1> QED BY <1>1, <1>2, <1>3, <1>4 DEF Next, UserAdd, AddUser, CommandEndsBadly

\* What is taken stays taken, and what is taken anew has its group.
LEMMA TakenStays ==
  ASSUME Grows
  PROVE  /\ \A n : HasUser(n) => HasUser(n)'
         /\ \A n : HasGroup(n) => HasGroup(n)'
         /\ \A i : HasUid(i) => HasUid(i)'
         /\ \A i : HasGid(i) => HasGid(i)'
         /\ \A n : HasUser(n)' /\ ~HasUser(n) => HasGroup(n)'
         /\ \A i : HasUid(i)' /\ ~HasUid(i) => HasGid(i)'
BY DEF Grows, HasUser, HasGroup, HasUid, HasGid

\* So a worker that stays where it is keeps its reasons.
LEMMA StayingReasoned ==
  ASSUME Grows, NEW v \in Workers, Reasoned(v),
         pc'[v] = pc[v], job'[v] = job[v], uid'[v] = uid[v], v \in faulty' <=> v \in faulty
  PROVE  Reasoned(v)'
<1>1. InTheWay(v) => InTheWay(v)'
  BY TakenStays DEF InTheWay
<1> QED BY <1>1, TakenStays DEF Reasoned, Scanned

\* And one that takes a step has them where it arrives, if any command is there at all.
LEMMA MovingReasoned ==
  ASSUME AccountInv, Commands # {}, NEW w \in Workers, Reasoned(w), Grows,
         \/ \E n \in Names, action \in {"grant", "revoke"} : Begin(w, n, action)
         \/ Lookup(w) \/ LookupAgain(w) \/ Scan(w) \/ GroupAdd(w) \/ UserAdd(w)
         \/ AddUser(w) \/ CommandFails(w) \/ CommandEndsBadly(w) \/ Dies(w)
  PROVE  Reasoned(w)'
<1> USE UserAssumption DEF Goto, Scanned
<1>t. /\ pc \in [Workers -> PC] /\ uid \in [Workers -> MinUID .. MaxUID + 1]
      /\ MinUID \in Nat /\ MaxUID \in Nat /\ DOMAIN job = Workers
  BY DEF AccountInv, TypeOK
<1>1. ASSUME NEW n \in Names, NEW action \in {"grant", "revoke"}, Begin(w, n, action)
      PROVE  Reasoned(w)'
  <2>1. /\ job'[w].name = n /\ pc'[w] \in {"failed", "succeeded", "lookup"}
        /\ pc'[w] = "failed" => n \notin ValidNames
    BY <1>t, <1>1 DEF Begin
  <2> QED BY <2>1 DEF Reasoned
<1>2. CASE Lookup(w) \/ Dies(w)
  <2>1. pc'[w] \in {"succeeded", "lookupAgain", "idle"}
    BY <1>t, <1>2 DEF Lookup, Dies
  <2> QED BY <2>1 DEF Reasoned
<1>3. CASE LookupAgain(w)
  <2>1. /\ uid'[w] = MinUID /\ pc'[w] \in {"succeeded", "scan"}
        /\ pc'[w] = "scan" => ~HasUser(job[w].name) /\ UNCHANGED <<users, job>>
    BY <1>t, <1>3 DEF LookupAgain
  <2>2. pc'[w] = "scan" => ~HasUser(job[w].name)'
    BY <2>1 DEF HasUser
  <2> QED BY <2>1, <2>2 DEF Reasoned
<1>4. CASE Scan(w)
  <2>1. UNCHANGED <<users, groups, job, faulty>> /\ pc[w] = "scan"
    BY <1>4 DEF Scan
  <2>2. /\ \A i \in MinUID .. MaxUID : i < uid[w] => HasUid(i)
        /\ HasUser(job[w].name) => HasGroup(job[w].name)
    BY <2>1 DEF Reasoned
  <2>3. CASE uid[w] > MaxUID /\ Goto(w, "failed") /\ UNCHANGED uid
    <3>1. pc'[w] = "failed" /\ \A i \in MinUID .. MaxUID : HasUid(i)
      BY <1>t, <2>2, <2>3
    <3> QED BY <2>1, <3>1 DEF Reasoned, HasUid
  <2>4. CASE uid[w] <= MaxUID /\ HasUid(uid[w]) /\ uid' = [uid EXCEPT ![w] = @ + 1] /\ UNCHANGED pc
    <3>1. uid'[w] = uid[w] + 1 /\ pc'[w] = "scan"
      BY <1>t, <2>1, <2>4
    <3>2. \A i \in MinUID .. MaxUID : i < uid'[w] => HasUid(i)
      BY <1>t, <2>2, <2>4, <3>1
    <3> QED BY <2>1, <2>2, <3>1, <3>2 DEF Reasoned, HasUid, HasUser, HasGroup
  <2>5. CASE uid[w] <= MaxUID /\ ~HasUid(uid[w]) /\ Goto(w, "groupadd") /\ UNCHANGED uid
    <3>1. pc'[w] = "groupadd"
      BY <1>t, <2>5
    <3> QED BY <2>1, <2>2, <2>5, <3>1 DEF Reasoned, HasUid, HasUser, HasGroup
  <2> QED BY <1>4, <2>3, <2>4, <2>5 DEF Scan
<1>5. CASE GroupAdd(w)
  <2>1. UNCHANGED <<users, job, uid, faulty>> /\ pc[w] = "groupadd"
        /\ pc'[w] \in {"useradd", "adduser"}
    BY <1>t, <1>5 DEF GroupAdd
  <2>2. pc'[w] = "adduser" /\ "useradd" \in Commands => InTheWay(w)'
    BY <1>t, <1>5 DEF GroupAdd, CanAddGroup, InTheWay, HasGroup, HasGid
  <2> QED BY <2>1, <2>2, TakenStays DEF Reasoned
<1>6. CASE UserAdd(w)
  <2>1. UNCHANGED <<groups, job, uid, faulty>> /\ pc[w] = "useradd"
        /\ pc'[w] \in {"succeeded", "adduser"}
    BY <1>t, <1>6 DEF UserAdd
  <2>2. InTheWay(w)'
    BY <2>1 DEF InTheWay, HasGroup, AccountInv, GroupedOwnsGroup, OwnsGroup
  <2> QED BY <2>1, <2>2, TakenStays DEF Reasoned
<1>7. CASE AddUser(w)
  <2>1. UNCHANGED <<job, uid, faulty>> /\ pc[w] = "adduser" /\ pc'[w] \in {"succeeded", "failed"}
    BY <1>t, <1>7 DEF AddUser
  <2>2. pc'[w] = "failed" => ~CanAddBoth(w) /\ UNCHANGED <<users, groups>>
    BY <1>t, <1>7 DEF AddUser
  <2>3. ~CanAddBoth(w) /\ w \notin faulty => InTheWay(w)
    BY <2>1 DEF CanAddBoth, InTheWay, Reasoned
  <2>4. pc'[w] = "failed" /\ w \notin faulty => InTheWay(w)'
    BY <2>1, <2>2, <2>3 DEF InTheWay, HasGroup, HasGid
  <2> QED BY <2>1, <2>4 DEF Reasoned
<1>8. CASE CommandFails(w)
  <2>1. /\ UNCHANGED <<users, groups, job, uid>> /\ w \in faulty' /\ pc[w] \in Scanned
        /\ pc'[w] \in {"failed", "adduser"}
    BY <1>t, <1>8 DEF CommandFails
  <2> QED BY <2>1, TakenStays DEF Reasoned
<1>9. CASE CommandEndsBadly(w)
  <2>1. /\ UNCHANGED <<job, uid>> /\ w \in faulty' /\ pc[w] \in Scanned
        /\ pc'[w] \in {"failed", "adduser"}
    BY <1>t, <1>9 DEF CommandEndsBadly
  <2> QED BY <2>1, TakenStays DEF Reasoned
<1> QED BY <1>1, <1>2, <1>3, <1>4, <1>5, <1>6, <1>7, <1>8, <1>9

\* However scripts interleave, a request that fails without a failed command has a name
\* that is invalid, a range that is full or a group in its way, if there is any command
\* to make accounts with.
THEOREM FailuresHaveReasons ==
  ASSUME Commands # {}
  PROVE  Spec => []FailsForAReason
<1> DEFINE Inv == AccountInv /\ \A w \in Workers : Reasoned(w)
<1>1. Init => Inv
  <2> SUFFICES ASSUME Init PROVE \A w \in Workers : Reasoned(w)
    BY AccountInit
  <2> QED BY DEF Init, Reasoned, Scanned
<1>2. Inv /\ [Next]_vars => Inv'
  <2> SUFFICES ASSUME Inv, [Next]_vars PROVE Inv'
    OBVIOUS
  <2>1. AccountInv' /\ Grows
    BY AccountStep, DatabaseGrows
  <2>2. ASSUME NEW v \in Workers PROVE Reasoned(v)'
    <3>1. CASE UNCHANGED vars
      BY <2>1, <3>1, StayingReasoned DEF vars
    <3>2. ASSUME NEW w \in Workers,
                 \/ \E n \in Names, action \in {"grant", "revoke"} : Begin(w, n, action)
                 \/ Lookup(w) \/ LookupAgain(w) \/ Scan(w) \/ GroupAdd(w) \/ UserAdd(w)
                 \/ AddUser(w) \/ CommandFails(w) \/ CommandEndsBadly(w) \/ Dies(w)
          PROVE  Reasoned(v)'
      <4>1. CASE v = w
        BY <2>1, <3>2, <4>1, MovingReasoned
      <4>2. CASE v # w
        <5>1. /\ pc'[v] = pc[v] /\ job'[v] = job[v] /\ uid'[v] = uid[v]
              /\ v \in faulty' <=> v \in faulty
          BY <3>2, <4>2 DEF AccountInv, TypeOK, Goto, Begin, Lookup, LookupAgain, Scan,
             GroupAdd, UserAdd, AddUser, CommandFails, CommandEndsBadly, Dies
        <5> QED BY <2>1, <5>1, StayingReasoned
      <4> QED BY <4>1, <4>2
    <3> QED BY <3>1, <3>2 DEF Next
  <2> QED BY <2>1, <2>2
<1>3. Inv => FailsForAReason
  BY DEF Reasoned, InTheWay, FailsForAReason
<1> QED BY <1>1, <1>2, <1>3, PTL DEF Spec
=============================================================================
