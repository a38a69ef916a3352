------------------------------ MODULE AclProofs ------------------------------
(***************************************************************************)
(* The access check, for every set of groups, ACLs and weights and every   *)
(* number of changes made while it runs.                                   *)
(***************************************************************************)
EXTENDS Acl, TLAPS

\* What the steps that are not the administrators' leave alone.
LEMMA ChecksKeep ==
  ASSUME Check \/ Hook \/ HookTimesOut \/ ChildExits
  PROVE  UNCHANGED <<db, now, changes, past>>
BY DEF Check, Hook, ReadUserGroups, ReadUserJoin, ReadUserACLs, ReadHostGroups, ReadHostJoin,
   ReadHostACLs, ReadFails, CheckACLs, HookNotStarted, HookStarts, HookReturn, HookForks,
   HookExits, HookTimesOut, ChildExits

LEMMA FirstIsAction ==
  ASSUME NEW A \in SUBSET Acls, NEW content \in [Acls -> Contents]
  PROVE  First(A, content) \subseteq Actions
BY AclAssumption DEF First, Contents

LEMMA ContentExists ==
  ASSUME NEW a \in Acls, DBs # {} PROVE NoContent \in Contents
<1>1. PICK d \in DBs : TRUE
  OBVIOUS
<1>2. d.content[a] \in Contents
  BY <1>1 DEF DBs
<1> QED BY <1>2 DEF NoContent

\* A command of an administrator leaves a database behind.
LEMMA AdministratorsType ==
  ASSUME db \in DBs, Administrators
  PROVE  changes < MaxChanges /\ \E d \in DBs : Change(d)
<1>1. ASSUME NEW G \in SUBSET UserGroups, UserUpdate(G) PROVE \E d \in DBs : Change(d)
  <2>1. [db EXCEPT !.inUG = G] \in DBs
    BY DEF DBs
  <2> QED BY <1>1, <2>1 DEF UserUpdate
<1>2. ASSUME NEW G \in SUBSET HostGroups, HostUpdate(G) PROVE \E d \in DBs : Change(d)
  <2>1. [db EXCEPT !.inHG = G] \in DBs
    BY DEF DBs
  <2> QED BY <1>2, <2>1 DEF HostUpdate
<1>3. ASSUME NEW A \in SUBSET Acls, AclRm(A) PROVE \E d \in DBs : Change(d)
  <2>0. NoContent \in Contents
    BY <1>3, ContentExists DEF AclRm
  <2>1. [db EXCEPT !.acls = @ \ A,
                   !.content = [a \in Acls |-> IF a \in A THEN NoContent ELSE @[a]]] \in DBs
    BY <2>0 DEF DBs
  <2> QED BY <1>3, <2>1 DEF AclRm
<1>4. ASSUME NEW a \in Acls, NEW x \in Contents, NEW G \in SUBSET UserGroups,
             NEW H \in SUBSET HostGroups, AclCreate(a, x, G, H)
      PROVE \E d \in DBs : Change(d)
  <2>1. [db EXCEPT !.acls = @ \cup {a}, !.content[a] = x, 
                   !.ug[a] = @ \cup G, !.hg[a] = @ \cup H] \in DBs
    BY DEF DBs
  <2> QED BY <1>4, <2>1 DEF AclCreate
<1>5. ASSUME NEW A \in SUBSET Acls, NEW x \in Updates,
             NEW Gin \in SUBSET UserGroups, NEW Gout \in SUBSET UserGroups,
             NEW Hin \in SUBSET HostGroups, NEW Hout \in SUBSET HostGroups,
             AclUpdate(A, x, Gin, Gout, Hin, Hout)
      PROVE \E d \in DBs : Change(d)
  <2> DEFINE content == [a \in Acls |-> IF a \in A THEN Updated(db.content[a], x)
                                        ELSE db.content[a]]
             ug == [a \in Acls |-> IF a \in A THEN (db.ug[a] \cup Gin) \ Gout ELSE db.ug[a]]
             hg == [a \in Acls |-> IF a \in A THEN (db.hg[a] \cup Hin) \ Hout ELSE db.hg[a]]
  <2>1. content \in [Acls -> Contents]
    <3>1. \A c \in Contents : Updated(c, x) \in Contents
      BY DEF Contents, Updates, Updated
    <3> QED BY <3>1 DEF DBs
  <2>2. ug \in [Acls -> SUBSET UserGroups] /\ hg \in [Acls -> SUBSET HostGroups]
    BY DEF DBs
  <2>3. [db EXCEPT !.content = content, !.ug = ug, !.hg = hg] \in DBs
    BY <2>1, <2>2 DEF DBs
  <2> QED BY <1>5, <2>3 DEF AclUpdate
<1> QED BY <1>1, <1>2, <1>3, <1>4, <1>5 DEF Administrators

\* The types of the database, the clock and the verdict.
WorldType ==
    /\ db \in DBs /\ past \subseteq DBs
    /\ now \in 0 .. MaxTime /\ at \in 0 .. now
    /\ changes \in 0 .. MaxChanges
    /\ base \in Actions /\ verdict \in Actions

LEMMA TypeParts == TypeOK <=> WorldType /\ pc \in PC /\ ReadType /\ HookType
BY DEF TypeOK, WorldType

LEMMA ChangeType ==
  ASSUME TypeOK, NEW d \in DBs, Change(d), changes < MaxChanges
  PROVE  TypeOK'
<1>1. WorldType'
  BY AclAssumption DEF TypeOK, WorldType, Change
<1>2. pc' \in PC /\ ReadType' /\ HookType'
  BY DEF TypeOK, Change, ReadType, readVars, HookType, hookVars
<1> QED BY <1>1, <1>2 DEF TypeOK, WorldType

LEMMA CheckType ==
  ASSUME TypeOK, Check
  PROVE  TypeOK'
<1> USE DEF TypeOK, PC
<1>1. CASE ReadUserGroups
  <2>1. ReadType' /\ HookType'
    BY <1>1 DEF ReadUserGroups, ReadType, HookType, hookVars, DBs
  <2> QED BY <1>1, <2>1 DEF ReadUserGroups
<1>2. CASE ReadUserJoin \/ ReadUserACLs
  <2>1. JoinOfUser(db, userIn) \subseteq Acls /\ db.content \in [Acls -> Contents]
    BY DEF JoinOfUser, DBs
  <2>2. ReadType' /\ HookType'
    BY <1>2, <2>1 DEF ReadUserJoin, ReadUserACLs, ReadType, HookType, hookVars
  <2> QED BY <1>2, <2>2 DEF ReadUserJoin, ReadUserACLs
<1>3. CASE ReadHostGroups
  <2>1. ReadType' /\ HookType'
    BY <1>3 DEF ReadHostGroups, ReadType, HookType, hookVars, DBs
  <2> QED BY <1>3, <2>1 DEF ReadHostGroups
<1>4. CASE ReadHostJoin \/ ReadHostACLs
  <2>1. JoinOfHost(db, hostIn) \subseteq Acls
    BY DEF JoinOfHost
  <2>2. ReadType' /\ HookType'
    BY <1>4, <2>1 DEF ReadHostJoin, ReadHostACLs, ReadType, HookType, hookVars
  <2> QED BY <1>4, <2>2 DEF ReadHostJoin, ReadHostACLs
<1>5. CASE CheckACLs
  <2>1. base' \in Actions
    <3>1. First({a \in Shared(userAcls, hostAcls) : Active(userRead[a].window, now)}, userRead)
            \subseteq Actions
      BY FirstIsAction DEF ReadType, Shared
    <3> QED BY <1>5, <3>1 DEF CheckACLs
  <2>2. verdict' \in Actions /\ pc' \in PC /\ at' = now
    BY <1>5, <2>1 DEF CheckACLs
  <2>3. ReadType' /\ HookType'
    BY <1>5 DEF CheckACLs, ReadType, readVars, HookType, hookVars
  <2> QED BY <1>5, <2>1, <2>2, <2>3 DEF CheckACLs
<1>6. CASE HookNotStarted \/ HookStarts \/ HookReturn
  <2>1. verdict' \in Actions /\ pc' \in PC
    BY <1>6, AclAssumption DEF HookNotStarted, HookStarts, HookReturn, Answered
  <2>2. ReadType' /\ UNCHANGED <<base, at>>
    BY <1>6 DEF HookNotStarted, HookStarts, HookReturn, ReadType, readVars
  <2>3. HookType'
    BY <1>6 DEF HookNotStarted, HookStarts, HookReturn, HookType, hookVars
  <2> QED BY <2>1, <2>2, <2>3, ChecksKeep
<1>7. CASE ReadFails
  <2>1. ReadType' /\ HookType'
    BY <1>7 DEF ReadFails, Reading, ReadType, readVars, HookType, hookVars
  <2> QED BY <1>7, <2>1 DEF ReadFails
<1> QED BY <1>1, <1>2, <1>3, <1>4, <1>5, <1>6, <1>7 DEF Check

LEMMA HookStepType ==
  ASSUME TypeOK, Hook \/ HookTimesOut \/ ChildExits
  PROVE  TypeOK'
<1>1. UNCHANGED <<pc, base, at, verdict, readVars>>
  BY DEF Hook, HookForks, HookExits, HookTimesOut, ChildExits
<1>2. ReadType'
  BY <1>1 DEF TypeOK, ReadType, readVars
<1>3. HookType'
  BY DEF TypeOK, HookType, Hook, HookForks, HookExits, HookTimesOut, ChildExits
<1> QED BY <1>1, <1>2, <1>3, ChecksKeep DEF TypeOK

LEMMA TypeStep ==
  ASSUME TypeOK, [Next]_vars
  PROVE  TypeOK'
<1>1. CASE Administrators
  BY <1>1, AdministratorsType, ChangeType DEF TypeOK
<1>2. CASE Tick
  <2>1. now' \in 0 .. MaxTime /\ at' \in 0 .. now'
    BY <1>2, AclAssumption DEF TypeOK, Tick
  <2>2. ReadType' /\ HookType'
    BY <1>2 DEF TypeOK, Tick, ReadType, readVars, HookType, hookVars
  <2> QED BY <1>2, <2>1, <2>2 DEF TypeOK, Tick
<1>3. CASE UNCHANGED vars
  BY <1>3 DEF TypeOK, ReadType, HookType, vars
<1> QED BY <1>1, <1>2, <1>3, CheckType, HookStepType DEF Next

LEMMA InitType == Init => TypeOK
<1> SUFFICES ASSUME Init PROVE TypeOK
  OBVIOUS
<1>1. WorldType /\ pc \in PC
  BY AclAssumption DEF Init, WorldType, PC
<1>2. ReadType
  BY DEF Init, ReadType, DBs
<1>3. HookType
  BY DEF Init, HookType
<1> QED BY <1>1, <1>2, <1>3, TypeParts

\* Every variable keeps its type.
THEOREM TypeCorrect == Spec => []TypeOK
BY InitType, TypeStep, PTL DEF Spec

-----------------------------------------------------------------------------
(* Where what was read came from                                             *)

\* What each query found was in a database of the check.
UserGroupsSeen == \A g \in userIn : \E d \in past : g \in d.inUG
UserJoinSeen == \A a \in userAcls : \E g \in userIn : \E d \in past : g \in d.ug[a]
RowsSeen == \A a \in userAcls : \E d \in past : a \in d.acls /\ userRead[a] = d.content[a]
HostGroupsSeen == \A h \in hostIn : \E d \in past : h \in d.inHG
HostJoinSeen == \A a \in hostAcls : \E h \in hostIn : \E d \in past : h \in d.hg[a]

\* An action of allow is that of an ACL read from both sides, and none of them that
\* is in force weighs less.
Speaks(a, t) ==
    /\ userRead[a].action = "allow" /\ Active(userRead[a].window, t)
    /\ \A b \in userAcls \cap hostAcls :
          Active(userRead[b].window, t) => userRead[a].weight <= userRead[b].weight
Granted == base = "allow" => \E a \in userAcls \cap hostAcls : Speaks(a, at)

ReadInv ==
    /\ db \in past
    /\ UserGroupsSeen
    /\ pc \notin {"userGroups", "userJoin", "failed"} => UserJoinSeen
    /\ pc \notin {"userGroups", "userJoin", "userACLs", "failed"} => RowsSeen
    /\ HostGroupsSeen
    /\ pc \in {"hostACLs", "check", "hook", "done"} => HostJoinSeen
    /\ pc \in {"hook", "done"} => Granted

\* An ACL may speak first only if it is in the list and nothing in it weighs less;
\* "deny" if there is none.
LEMMA FirstFromList ==
  ASSUME NEW A, NEW content, "allow" \in First(A, content)
  PROVE  \E a \in A : /\ content[a].action = "allow"
                      /\ \A b \in A : content[a].weight <= content[b].weight
BY DEF First

\* A step keeps what was read true if it keeps what was read, for the history
\* of databases only grows.
LEMMA ReadsStay ==
  ASSUME past \subseteq past', UNCHANGED <<readVars, base, at>>
  PROVE  /\ UserGroupsSeen => UserGroupsSeen'
         /\ UserJoinSeen => UserJoinSeen'
         /\ RowsSeen => RowsSeen'
         /\ HostGroupsSeen => HostGroupsSeen'
         /\ HostJoinSeen => HostJoinSeen'
         /\ Granted => Granted'
<1> USE DEF readVars
<1>1. UserGroupsSeen => UserGroupsSeen'
  BY DEF UserGroupsSeen
<1>2. UserJoinSeen => UserJoinSeen'
  BY DEF UserJoinSeen
<1>3. RowsSeen => RowsSeen'
  BY DEF RowsSeen
<1>4. HostGroupsSeen => HostGroupsSeen'
  BY DEF HostGroupsSeen
<1>5. HostJoinSeen => HostJoinSeen'
  BY DEF HostJoinSeen
<1>6. Granted => Granted'
  BY DEF Granted, Speaks, Active
<1> QED BY <1>1, <1>2, <1>3, <1>4, <1>5, <1>6

LEMMA AdministratorsChange ==
  ASSUME Administrators
  PROVE  past \subseteq past' /\ db' \in past' /\ UNCHANGED <<pc, readVars, base, at>>
<1>1. ASSUME NEW d, Change(d)
      PROVE  past \subseteq past' /\ db' \in past' /\ UNCHANGED <<pc, readVars, base, at>>
  BY <1>1 DEF Change
<1>2. ASSUME NEW G, UserUpdate(G) \/ HostUpdate(G)
      PROVE  past \subseteq past' /\ db' \in past' /\ UNCHANGED <<pc, readVars, base, at>>
  BY <1>1, <1>2 DEF UserUpdate, HostUpdate
<1>3. ASSUME NEW A, AclRm(A)
      PROVE  past \subseteq past' /\ db' \in past' /\ UNCHANGED <<pc, readVars, base, at>>
  BY <1>1, <1>3 DEF AclRm
<1>4. ASSUME NEW a, NEW x, NEW G, NEW H, AclCreate(a, x, G, H)
      PROVE  past \subseteq past' /\ db' \in past' /\ UNCHANGED <<pc, readVars, base, at>>
  BY <1>1, <1>4 DEF AclCreate
<1>5. ASSUME NEW A, NEW x, NEW Gin, NEW Gout, NEW Hin, NEW Hout,
             AclUpdate(A, x, Gin, Gout, Hin, Hout)
      PROVE  past \subseteq past' /\ db' \in past' /\ UNCHANGED <<pc, readVars, base, at>>
  BY <1>1, <1>5 DEF AclUpdate
<1> QED BY <1>2, <1>3, <1>4, <1>5 DEF Administrators

LEMMA ReadInvInit == Init => ReadInv
BY DEF Init, ReadInv, UserGroupsSeen, HostGroupsSeen

LEMMA ReadInvStep ==
  ASSUME ReadInv, [Next]_vars
  PROVE  ReadInv'
<1> USE DEF ReadInv
<1>1. CASE ReadUserGroups
  <2>1. UserGroupsSeen'
    BY <1>1 DEF ReadUserGroups, UserGroupsSeen
  <2>2. HostGroupsSeen' /\ db' \in past'
    BY <1>1 DEF ReadUserGroups, HostGroupsSeen
  <2> QED BY <1>1, <2>1, <2>2 DEF ReadUserGroups
<1>2. CASE ReadUserJoin
  <2>1. UserJoinSeen'
    BY <1>2 DEF ReadUserJoin, UserJoinSeen, JoinOfUser
  <2>2. UserGroupsSeen' /\ HostGroupsSeen' /\ db' \in past'
    BY <1>2 DEF ReadUserJoin, UserGroupsSeen, HostGroupsSeen
  <2> QED BY <1>2, <2>1, <2>2 DEF ReadUserJoin
<1>3. CASE ReadUserACLs
  <2>1. RowsSeen'
    BY <1>3 DEF ReadUserACLs, RowsSeen
  <2>2. UserJoinSeen'
    BY <1>3 DEF ReadUserACLs, UserJoinSeen
  <2>3. UserGroupsSeen' /\ HostGroupsSeen' /\ db' \in past'
    BY <1>3 DEF ReadUserACLs, UserGroupsSeen, HostGroupsSeen
  <2> QED BY <1>3, <2>1, <2>2, <2>3 DEF ReadUserACLs
<1>4. CASE ReadHostGroups \/ ReadHostJoin \/ ReadHostACLs
  <2>1. UNCHANGED <<db, past, userIn, userAcls, userRead>>
    BY <1>4 DEF ReadHostGroups, ReadHostJoin, ReadHostACLs
  <2>2. UserGroupsSeen' /\ UserJoinSeen' /\ RowsSeen' /\ db' \in past'
    <3>1. UserGroupsSeen /\ UserJoinSeen /\ RowsSeen
      BY <1>4 DEF ReadHostGroups, ReadHostJoin, ReadHostACLs
    <3> QED BY <2>1, <3>1 DEF UserGroupsSeen, UserJoinSeen, RowsSeen
  <2>3. HostGroupsSeen'
    BY <1>4 DEF ReadHostGroups, ReadHostJoin, ReadHostACLs, HostGroupsSeen
  <2>4. HostJoinSeen' \/ pc' = "hostJoin"
    BY <1>4 DEF ReadHostGroups, ReadHostJoin, ReadHostACLs, HostJoinSeen, JoinOfHost
  <2>5. pc' \in {"hostJoin", "hostACLs", "check"}
    BY <1>4 DEF ReadHostGroups, ReadHostJoin, ReadHostACLs
  <2> QED BY <2>2, <2>3, <2>4, <2>5
<1>5. CASE CheckACLs
  <2>1. UserGroupsSeen' /\ UserJoinSeen' /\ RowsSeen' /\ db' \in past'
    BY <1>5 DEF CheckACLs, readVars, UserGroupsSeen, UserJoinSeen, RowsSeen
  <2>2. HostGroupsSeen' /\ HostJoinSeen'
    BY <1>5 DEF CheckACLs, readVars, HostGroupsSeen, HostJoinSeen
  <2>3. Granted'
    <3> SUFFICES ASSUME base' = "allow"
                 PROVE  \E a \in userAcls \cap hostAcls : Speaks(a, now)
      BY <1>5 DEF Granted, Speaks, CheckACLs, readVars, Active
    <3> DEFINE A == {a \in Shared(userAcls, hostAcls) : Active(userRead[a].window, now)}
    <3>1. "allow" \in First(A, userRead)
      BY <1>5 DEF CheckACLs
    <3>2. PICK a \in A : /\ userRead[a].action = "allow"
                         /\ \A b \in A : userRead[a].weight <= userRead[b].weight
      BY ONLY <3>1, FirstFromList
    <3>3. \A b \in userAcls \cap hostAcls : Active(userRead[b].window, now) => b \in A
      BY DEF Shared
    <3> QED BY <3>2, <3>3 DEF Shared, Speaks
  <2>4. pc' \in {"hook", "done"}
    BY <1>5 DEF CheckACLs
  <2> QED BY <2>1, <2>2, <2>3, <2>4
<1>6. CASE ReadFails \/ HookNotStarted \/ HookStarts \/ HookReturn \/ Hook \/ HookTimesOut
           \/ ChildExits
  <2>1. UNCHANGED <<db, past, readVars, base, at>>
    BY <1>6 DEF ReadFails, HookNotStarted, HookStarts, HookReturn, Hook, HookForks, HookExits,
                HookTimesOut, ChildExits
  <2>2. pc' \in {pc, "failed"} \/ (pc = "hook" /\ pc' = "done")
    BY <1>6 DEF ReadFails, HookNotStarted, HookStarts, HookReturn, Hook, HookForks, HookExits,
                HookTimesOut, ChildExits
  <2>3. CASE pc' \in {pc, "failed"}
    BY <2>1, <2>3, ReadsStay
  <2>4. CASE pc = "hook" /\ pc' = "done"
    BY <2>1, <2>4, ReadsStay
  <2> QED BY <2>2, <2>3, <2>4
<1>7. CASE Administrators
  <2>1. past \subseteq past' /\ db' \in past' /\ UNCHANGED <<pc, readVars, base, at>>
    BY <1>7, AdministratorsChange
  <2> QED BY <2>1, ReadsStay
<1>8. CASE Tick \/ UNCHANGED vars
  <2>1. UNCHANGED <<db, past, pc, readVars, base, at>>
    BY <1>8 DEF Tick, vars, readVars
  <2> QED BY <2>1, ReadsStay
<1> QED BY <1>1, <1>2, <1>3, <1>4, <1>5, <1>6, <1>7, <1>8 DEF Next, Check

LEMMA ReadInvGrants == TypeOK /\ ReadInv => GrantHasCause
<1> SUFFICES ASSUME TypeOK, ReadInv, pc \in {"hook", "done"}, base = "allow"
             PROVE  GrantHasCause
  BY DEF GrantHasCause
<1>1. PICK a \in userAcls \cap hostAcls :
        userRead[a].action = "allow" /\ Active(userRead[a].window, at)
  BY DEF ReadInv, Granted, Speaks
<1>2. \E d \in past : /\ a \in d.acls /\ d.content[a].action = "allow"
                      /\ Active(d.content[a].window, at)
  BY <1>1 DEF ReadInv, RowsSeen
<1>3. \E g \in userIn : (\E d \in past : g \in d.inUG) /\ (\E d \in past : g \in d.ug[a])
  BY <1>1 DEF ReadInv, UserGroupsSeen, UserJoinSeen
<1>4. \E h \in hostIn : (\E d \in past : h \in d.inHG) /\ (\E d \in past : h \in d.hg[a])
  BY <1>1 DEF ReadInv, HostGroupsSeen, HostJoinSeen
<1>5. a \in Acls /\ userIn \subseteq UserGroups /\ hostIn \subseteq HostGroups
  BY <1>1 DEF TypeOK, ReadType
<1> QED BY <1>2, <1>3, <1>4, <1>5 DEF GrantHasCause

\* An access the ACLs grant has its cause in what was stored during the check,
\* however many commands ran in between.
THEOREM GrantsCaused == Spec => []GrantHasCause
<1>1. Init => TypeOK /\ ReadInv
  BY InitType, ReadInvInit
<1>2. TypeOK /\ ReadInv /\ [Next]_vars => (TypeOK /\ ReadInv)'
  BY TypeStep, ReadInvStep
<1> QED BY <1>1, <1>2, ReadInvGrants, PTL DEF Spec

-----------------------------------------------------------------------------
(* What no command touches                                                   *)

Stands(a, gr, ho) ==
    \A d \in past : a \in d.acls /\ gr \in d.inUG \cap d.ug[a] /\ ho \in d.inHG \cap d.hg[a]

\* An ACL that stands is in everything that was read.
StandInv ==
    \A a \in Acls, gr \in UserGroups, ho \in HostGroups : Stands(a, gr, ho) =>
        /\ pc \notin {"userGroups", "failed"} => gr \in userIn
        /\ pc \notin {"userGroups", "userJoin", "failed"} => a \in userAcls
        /\ pc \in {"hostJoin", "hostACLs", "check", "hook", "done"} => ho \in hostIn
        /\ pc \in {"hostACLs", "check", "hook", "done"} => a \in hostAcls

\* The action of the check is one of what was read, and nothing that was read and
\* in force weighs less.
Lightest ==
    \A a \in userAcls \cap hostAcls : Active(userRead[a].window, at) =>
        \E b \in userAcls : /\ userRead[b].action = base
                            /\ userRead[b].weight <= userRead[a].weight

RuleInv == StandInv /\ (pc \in {"hook", "done"} => Lightest)

LEMMA RuleInvInit == Init => RuleInv
BY DEF Init, RuleInv, StandInv

\* The history only grows: what stands now stood before.
LEMMA StoodBefore ==
  ASSUME past \subseteq past', NEW a, NEW gr, NEW ho, Stands(a, gr, ho)'
  PROVE  Stands(a, gr, ho)
BY DEF Stands

LEMMA RuleStays ==
  ASSUME RuleInv, past \subseteq past', UNCHANGED <<readVars, base, at>>,
         pc' \in {pc, "failed"} \/ (pc = "hook" /\ pc' = "done")
  PROVE  RuleInv'
<1>1. StandInv'
  <2> SUFFICES ASSUME NEW a \in Acls, NEW gr \in UserGroups, NEW ho \in HostGroups,
                      Stands(a, gr, ho)'
               PROVE  /\ pc' \notin {"userGroups", "failed"} => gr \in userIn'
                      /\ pc' \notin {"userGroups", "userJoin", "failed"} => a \in userAcls'
                      /\ pc' \in {"hostJoin", "hostACLs", "check", "hook", "done"} => ho \in hostIn'
                      /\ pc' \in {"hostACLs", "check", "hook", "done"} => a \in hostAcls'
    BY DEF StandInv
  <2>1. Stands(a, gr, ho)
    BY StoodBefore
  <2> QED BY <2>1 DEF RuleInv, StandInv, readVars
<1>2. pc' \in {"hook", "done"} => Lightest'
  BY DEF RuleInv, Lightest, Active, readVars
<1> QED BY <1>1, <1>2 DEF RuleInv

LEMMA RuleRead ==
  ASSUME TypeOK, RuleInv, db \in past,
         ReadUserGroups \/ ReadUserJoin \/ ReadUserACLs
           \/ ReadHostGroups \/ ReadHostJoin \/ ReadHostACLs
  PROVE  RuleInv'
<1>1. past' = past /\ pc' \notin {"hook", "done"}
  BY DEF ReadUserGroups, ReadUserJoin, ReadUserACLs, ReadHostGroups, ReadHostJoin, ReadHostACLs
<1> SUFFICES ASSUME NEW a \in Acls, NEW gr \in UserGroups, NEW ho \in HostGroups,
                    Stands(a, gr, ho)'
             PROVE  /\ pc' \notin {"userGroups", "failed"} => gr \in userIn'
                    /\ pc' \notin {"userGroups", "userJoin", "failed"} => a \in userAcls'
                    /\ pc' \in {"hostJoin", "hostACLs", "check", "hook", "done"} => ho \in hostIn'
                    /\ pc' \in {"hostACLs", "check", "hook", "done"} => a \in hostAcls'
  BY <1>1 DEF RuleInv, StandInv
<1>2. Stands(a, gr, ho)
  BY <1>1, StoodBefore
<1>3. a \in db.acls /\ gr \in db.inUG \cap db.ug[a] /\ ho \in db.inHG \cap db.hg[a]
  BY <1>2 DEF Stands
<1>4. /\ pc \notin {"userGroups", "failed"} => gr \in userIn
      /\ pc \notin {"userGroups", "userJoin", "failed"} => a \in userAcls
      /\ pc \in {"hostJoin", "hostACLs"} => ho \in hostIn
      /\ pc = "hostACLs" => a \in hostAcls
  BY <1>2 DEF RuleInv, StandInv
<1>5. CASE ReadUserGroups \/ ReadUserJoin \/ ReadUserACLs
  BY <1>3, <1>4, <1>5 DEF ReadUserGroups, ReadUserJoin, JoinOfUser, ReadUserACLs
<1>6. CASE ReadHostGroups \/ ReadHostJoin \/ ReadHostACLs
  BY <1>3, <1>4, <1>6 DEF ReadHostGroups, ReadHostJoin, JoinOfHost, ReadHostACLs
<1> QED BY <1>5, <1>6

\* An ACL in the list is not outweighed by the first one.
LEMMA FirstIsLightest ==
  ASSUME NEW A, NEW content, NEW a \in A, NEW v \in First(A, content)
  PROVE  \E b \in A : content[b].action = v /\ content[b].weight <= content[a].weight
BY DEF First

LEMMA RuleStep ==
  ASSUME TypeOK, ReadInv, RuleInv, [Next]_vars
  PROVE  RuleInv'
<1>1. CASE ReadUserGroups \/ ReadUserJoin \/ ReadUserACLs
             \/ ReadHostGroups \/ ReadHostJoin \/ ReadHostACLs
  BY <1>1, RuleRead DEF ReadInv
<1>2. CASE CheckACLs
  <2>1. pc = "check" /\ UNCHANGED <<past, userIn, userAcls, userRead, hostIn, hostAcls>>
        /\ at' = now /\ pc' \in {"hook", "done"}
    BY <1>2 DEF CheckACLs, readVars
  <2>2. StandInv'
    BY <2>1 DEF RuleInv, StandInv, Stands
  <2>3. ASSUME NEW a \in userAcls \cap hostAcls, Active(userRead[a].window, now)
        PROVE  \E b \in userAcls : /\ userRead[b].action = base'
                                   /\ userRead[b].weight <= userRead[a].weight
    <3> DEFINE A == {b \in Shared(userAcls, hostAcls) : Active(userRead[b].window, now)}
    <3>1. a \in A /\ A \subseteq userAcls
      BY <2>3 DEF Shared
    <3>2. base' \in First(A, userRead)
      BY <1>2 DEF CheckACLs
    <3> HIDE DEF A
    <3> QED BY <3>1, <3>2, FirstIsLightest
  <2>4. Lightest'
    BY <2>1, <2>3 DEF Lightest, Active
  <2> QED BY <2>2, <2>4 DEF RuleInv
<1>3. CASE ReadFails \/ HookNotStarted \/ HookStarts \/ HookReturn \/ Hook \/ HookTimesOut
           \/ ChildExits
  <2>1. UNCHANGED <<past, readVars, base, at>>
    BY <1>3 DEF ReadFails, HookNotStarted, HookStarts, HookReturn, Hook, HookForks, HookExits,
                HookTimesOut, ChildExits
  <2>2. pc' \in {pc, "failed"} \/ (pc = "hook" /\ pc' = "done")
    BY <1>3 DEF ReadFails, HookNotStarted, HookStarts, HookReturn, Hook, HookForks, HookExits,
                HookTimesOut, ChildExits
  <2> QED BY <2>1, <2>2, RuleStays
<1>4. CASE Administrators
  BY <1>4, AdministratorsChange, RuleStays
<1>5. CASE Tick \/ UNCHANGED vars
  <2>1. UNCHANGED <<past, pc, readVars, base, at>>
    BY <1>5 DEF Tick, vars, readVars
  <2> QED BY <2>1, RuleStays
<1> QED BY <1>1, <1>2, <1>3, <1>4, <1>5 DEF Next, Check

LEMMA RuleHolds == TypeOK /\ ReadInv /\ RuleInv => StandingRuleHolds
<1> SUFFICES ASSUME TypeOK, ReadInv, RuleInv, pc \in {"hook", "done"},
                    NEW a \in Acls, NEW v \in Actions, Standing(a),
                    \A d \in past : d.content[a].action = v,
                    \A d, e \in past : \A b \in d.acls :
                        d.content[b].action # v => e.content[a].weight < d.content[b].weight
             PROVE  base = v
  BY DEF StandingRuleHolds
<1>1. PICK gr \in UserGroups, ho \in HostGroups : Stands(a, gr, ho)
  BY DEF Standing, Stands
<1>2. a \in userAcls \cap hostAcls
  BY <1>1 DEF RuleInv, StandInv
<1>3. PICK e \in past : userRead[a] = e.content[a]
  BY <1>2 DEF ReadInv, RowsSeen
<1>4. Active(userRead[a].window, at)
  BY <1>3 DEF Standing
<1>5. PICK b \in userAcls : userRead[b].action = base /\ userRead[b].weight <= userRead[a].weight
  BY <1>2, <1>4 DEF RuleInv, Lightest
<1>6. PICK d \in past : b \in d.acls /\ userRead[b] = d.content[b]
  BY <1>5 DEF ReadInv, RowsSeen
<1>7. d.content[b].weight \in Nat /\ e.content[a].weight \in Nat
  BY <1>6, AclAssumption DEF TypeOK, ReadType, DBs, Contents
<1> QED BY <1>3, <1>5, <1>6, <1>7

\* No command hides a rule that it does not touch: for any number of them, and of
\* ACLs and groups.
THEOREM StandingRuleKept == Spec => []StandingRuleHolds
<1>1. Init => TypeOK /\ ReadInv /\ RuleInv
  BY InitType, ReadInvInit, RuleInvInit
<1>2. TypeOK /\ ReadInv /\ RuleInv /\ [Next]_vars => (TypeOK /\ ReadInv /\ RuleInv)'
  BY TypeStep, ReadInvStep, RuleStep
<1> QED BY <1>1, <1>2, RuleHolds, PTL DEF Spec

-----------------------------------------------------------------------------
(* Commands that all take, or all give                                       *)

\* What objects in the most generous database stands in all of them.
LEMMA ObjectionStands ==
  ASSUME TypeOK, NEW d \in past, \A e \in past : AtLeastAsGenerous(d, e),
         NEW b \in Objecting(d)
  PROVE  /\ \E gr \in UserGroups, ho \in HostGroups : Stands(b, gr, ho)
         /\ \A e \in past : /\ e.content[b].action # "allow" /\ Active(e.content[b].window, at)
                            /\ e.content[b].weight <= d.content[b].weight
<1>1. d \in DBs
  BY DEF TypeOK
<1>2. PICK gr \in d.inUG \cap d.ug[b], ho \in d.inHG \cap d.hg[b] : TRUE
  BY DEF Objecting, Applying
<1>3. gr \in UserGroups /\ ho \in HostGroups
  BY <1>1, <1>2 DEF DBs
<1>4. ASSUME NEW e \in past
      PROVE  /\ b \in e.acls /\ gr \in e.inUG \cap e.ug[b] /\ ho \in e.inHG \cap e.hg[b]
             /\ e.content[b].action # "allow" /\ Active(e.content[b].window, at)
             /\ e.content[b].weight <= d.content[b].weight
  <2>1. AtLeastAsGenerous(d, e)
    OBVIOUS
  <2>2. /\ b \in InForce(e) \ Allowing(e) /\ e.content[b].weight <= d.content[b].weight
        /\ gr \in e.inUG \cap e.ug[b] /\ ho \in e.inHG \cap e.hg[b]
    BY <1>2, <2>1 DEF AtLeastAsGenerous
  <2> QED BY <2>2 DEF InForce, Allowing
<1>5. Stands(b, gr, ho)
  BY <1>4 DEF Stands
<1> QED BY <1>3, <1>4, <1>5

LEMMA GrantInMostGenerous ==
  ASSUME TypeOK, ReadInv, RuleInv, pc \in {"hook", "done"}, base = "allow",
         NEW d \in past, \A e \in past : AtLeastAsGenerous(d, e)
  PROVE  \E a \in Allowing(d) \cap Applying(d) :
            \A b \in Objecting(d) : d.content[a].weight <= d.content[b].weight
<1>1. PICK a \in userAcls \cap hostAcls : Speaks(a, at)
  BY DEF ReadInv, Granted
<1>2. PICK e \in past : a \in e.acls /\ userRead[a] = e.content[a]
  BY <1>1 DEF ReadInv, RowsSeen
<1>3. a \in Allowing(e)
  BY <1>1, <1>2 DEF Speaks, Allowing, InForce
<1>4. a \in Allowing(d) /\ d.content[a].weight <= e.content[a].weight
  BY <1>3 DEF AtLeastAsGenerous
\* It reached the user and the host by links that this database has.
<1>5. a \in Applying(d)
  <2>1. PICK gr \in userIn, f1 \in past, f2 \in past : gr \in f1.inUG /\ gr \in f2.ug[a]
    BY <1>1 DEF ReadInv, UserGroupsSeen, UserJoinSeen
  <2>2. PICK ho \in hostIn, h1 \in past, h2 \in past : ho \in h1.inHG /\ ho \in h2.hg[a]
    BY <1>1 DEF ReadInv, HostGroupsSeen, HostJoinSeen
  <2>3. gr \in d.inUG \cap d.ug[a] /\ ho \in d.inHG \cap d.hg[a]
    BY <1>4, <2>1, <2>2 DEF AtLeastAsGenerous
  <2> QED BY <1>4, <2>3 DEF Applying, Allowing
<1>6. ASSUME NEW b \in Objecting(d) PROVE d.content[a].weight <= d.content[b].weight
  <2>0. b \in Acls /\ a \in Acls
    BY <1>1 DEF Objecting, Applying, InForce, TypeOK, ReadType, DBs
  <2>1. PICK gr \in UserGroups, ho \in HostGroups : Stands(b, gr, ho)
    BY ObjectionStands
  <2>2. b \in userAcls \cap hostAcls
    BY <2>0, <2>1 DEF RuleInv, StandInv
  <2>3. PICK f \in past : userRead[b] = f.content[b]
    BY <2>2 DEF ReadInv, RowsSeen
  <2>4. Active(f.content[b].window, at) /\ f.content[b].weight <= d.content[b].weight
    BY ObjectionStands
  <2>5. userRead[a].weight <= userRead[b].weight
    BY <1>1, <2>2, <2>3, <2>4 DEF Speaks
  <2>6. /\ d.content[a].weight \in Nat /\ e.content[a].weight \in Nat
        /\ d.content[b].weight \in Nat /\ f.content[b].weight \in Nat
    <3>1. d \in DBs /\ e \in DBs /\ f \in DBs
      BY DEF TypeOK
    <3> QED BY <2>0, <3>1, AclAssumption DEF DBs, Contents
  <2> QED BY <1>2, <1>4, <2>3, <2>4, <2>5, <2>6
<1> QED BY <1>4, <1>5, <1>6

\* Beside commands that only take rights, or only give them, a check grants nothing
\* that the most generous database did not: for any number of commands, each of
\* which may write any of the tables, and of ACLs and groups.
THEOREM RevokingIsSafe == Spec => []RevokingNeverGrants
<1>1. Init => TypeOK /\ ReadInv /\ RuleInv
  BY InitType, ReadInvInit, RuleInvInit
<1>2. TypeOK /\ ReadInv /\ RuleInv /\ [Next]_vars => (TypeOK /\ ReadInv /\ RuleInv)'
  BY TypeStep, ReadInvStep, RuleStep
<1>3. TypeOK /\ ReadInv /\ RuleInv => RevokingNeverGrants
  BY GrantInMostGenerous DEF RevokingNeverGrants
<1> QED BY <1>1, <1>2, <1>3, PTL DEF Spec

-----------------------------------------------------------------------------
(* The hook                                                                  *)

\* No command touches the hook of the check.
LEMMA AdministratorsKeepHook == ASSUME Administrators PROVE UNCHANGED hookVars
<1>1. ASSUME NEW d, Change(d) PROVE UNCHANGED hookVars
  BY <1>1 DEF Change
<1>2. ASSUME NEW G, UserUpdate(G) \/ HostUpdate(G) PROVE UNCHANGED hookVars
  BY <1>1, <1>2 DEF UserUpdate, HostUpdate
<1>3. ASSUME NEW A, AclRm(A) PROVE UNCHANGED hookVars
  BY <1>1, <1>3 DEF AclRm
<1>4. ASSUME NEW a, NEW x, NEW G, NEW H, AclCreate(a, x, G, H) PROVE UNCHANGED hookVars
  BY <1>1, <1>4 DEF AclCreate
<1>5. ASSUME NEW A, NEW x, NEW Gin, NEW Gout, NEW Hin, NEW Hout,
             AclUpdate(A, x, Gin, Gout, Hin, Hout)
      PROVE  UNCHANGED hookVars
  BY <1>1, <1>5 DEF AclUpdate
<1> QED BY <1>2, <1>3, <1>4, <1>5 DEF Administrators

\* Once the deadline is over the hook has ended and starts no child: what the check
\* may still wait for is a child that was there before.  The rest of HookEnds is the
\* fairness of the runtime and of those children.
THEOREM DeadlineBinds ==
    Spec => /\ [](timedOut => hook \in {"ended", "killed"})
            /\ [][timedOut /\ child' => child]_vars
<1> DEFINE I == HookType /\ (timedOut => hook \in {"ended", "killed"})
           A == timedOut /\ child' => child
<1>1. Init => I
  BY DEF Init, HookType
<1>2. ASSUME I, HookType', [Next]_vars PROVE I' /\ A
  <2>1. CASE Check
    <3>1. UNCHANGED <<timedOut, child>>
      BY <2>1 DEF Check, ReadUserGroups, ReadUserJoin, ReadUserACLs, ReadHostGroups,
         ReadHostJoin, ReadHostACLs, ReadFails, CheckACLs, HookNotStarted, HookStarts,
         HookReturn, hookVars
    <3>2. hook' = hook \/ hook = "none"
      BY <2>1 DEF Check, ReadUserGroups, ReadUserJoin, ReadUserACLs, ReadHostGroups,
         ReadHostJoin, ReadHostACLs, ReadFails, CheckACLs, HookNotStarted, HookStarts,
         HookReturn, hookVars
    <3> QED BY <1>2, <3>1, <3>2
  <2>2. CASE Hook \/ HookTimesOut \/ ChildExits
    BY <1>2, <2>2 DEF Hook, HookForks, HookExits, HookTimesOut, ChildExits, HookType
  <2>3. CASE Administrators
    <3>1. UNCHANGED hookVars
      BY <2>3, AdministratorsKeepHook
    <3> QED BY <1>2, <3>1 DEF hookVars
  <2>4. CASE Tick \/ UNCHANGED vars
    BY <1>2, <2>4 DEF Tick, vars, hookVars
  <2> QED BY <1>2, <2>1, <2>2, <2>3, <2>4 DEF Next
<1>3. TypeOK => HookType
  BY DEF TypeOK
<1>4. I /\ HookType' /\ [Next]_vars => I' /\ [A]_vars
  BY <1>2
<1>5. I => (timedOut => hook \in {"ended", "killed"})
  OBVIOUS
<1> QED BY <1>1, <1>3, <1>4, <1>5, TypeCorrect, PTL DEF Spec
=============================================================================
