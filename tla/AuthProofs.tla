----------------------------- MODULE AuthProofs -----------------------------
(***************************************************************************)
(* Identity, for every number of connections, users, keys and tokens:      *)
(* whoever changes the tables in between, and whichever queries fail.      *)
(***************************************************************************)
EXTENDS Auth, TLAPS

LEMMA Constants ==
    /\ Nobody \notin Users
    /\ 1 \in Users
    /\ NoToken \notin Tokens /\ SeedToken \in Tokens /\ NoKey \notin Keys
BY AuthAssumption DEF Nobody, Users

LEMMA HistoryStep == TypeOK /\ DBType' /\ History => HistoryType'
<1> SUFFICES ASSUME TypeOK, DBType', History PROVE HistoryType'
  OBVIOUS
<1>1. ASSUME NEW k PROVE HoldersOf(k)' \subseteq Users
  <2>1. \A q \in rows' : q.user \in Users
    BY DEF DBType, Rows
  <2> QED BY <2>1 DEF HoldersOf
<1>2. ASSUME NEW t PROVE InvitedBy(t)' \subseteq Users
  BY DEF DBType, InvitedBy, Invited
<1>3. ASSUME NEW c, NEW before \in SUBSET Users, NEW now \in SUBSET Users
      PROVE Since(c, before, now) \in SUBSET Users
  BY DEF Since
<1>4. held' \in [Conns -> SUBSET Users]
  <2>1. ASSUME NEW c \in Conns PROVE HoldersOf(key[c])' \in SUBSET Users
    <3>1. HoldersOf(key[c])' = {r.user : r \in {q \in rows' : q.key = key'[c]}}
      BY DEF HoldersOf
    <3>2. \A q \in rows' : q.user \in Users
      BY DEF DBType, Rows
    <3> QED BY <3>1, <3>2
  <2>2. ASSUME NEW c \in Conns PROVE Since(c, held[c], HoldersOf(key[c])') \in SUBSET Users
    BY <2>1, <1>3 DEF TypeOK, HistoryType
  <2> QED BY <2>2 DEF History
<1>5. invited' \in [Conns -> SUBSET Users]
  <2>1. ASSUME NEW c \in Conns PROVE InvitedBy(given[c])' \in SUBSET Users
    BY DEF DBType, InvitedBy, Invited
  <2>2. ASSUME NEW c \in Conns PROVE Since(c, invited[c], InvitedBy(given[c])') \in SUBSET Users
    BY <2>1, <1>3 DEF TypeOK, HistoryType
  <2> QED BY <2>2 DEF History
<1>6. ranked' \in [Conns -> SUBSET Users]
  <2>1. ASSUME NEW c \in Conns PROVE Since(c, ranked[c], admins') \in SUBSET Users
    BY <1>3 DEF TypeOK, HistoryType, DBType
  <2> QED BY <2>1 DEF History
<1> QED BY <1>4, <1>5, <1>6 DEF HistoryType

LEMMA AddRowType ==
  ASSUME DBType, NEW k \in Keys, NEW u \in Users, AddRow(k, u)
  PROVE  rows' \subseteq Rows /\ nextRow' \in 1 .. MaxRows + 1
<1>1. nextRow \in 1 .. MaxRows /\ MaxRows \in Nat
  BY AuthAssumption DEF AddRow, DBType
<1>2. [id |-> nextRow, key |-> k, user |-> u] \in Rows
  BY <1>1 DEF Rows
<1> QED BY <1>1, <1>2 DEF AddRow, NewId, DBType

\* Which steps leave the database alone, and which the connections.
Reads(c) ==
    \/ \E n \in Kinds, k \in Keys, t \in Tokens \cup {NoToken} : Connect(c, n, k, t)
    \/ PasswordAuth(c)
    \/ FindKey(c) \/ FindKeyFails(c)
    \/ FindUser(c) \/ FindUserFails(c)
    \/ FindRoles(c) \/ FindRolesFails(c)
    \/ FindToken(c) \/ FindTokenFails(c)
    \/ CreateKeyFails(c)
    \/ ClearToken(c)
    \/ OpenShell(c) \/ NoShell(c) \/ Exit(c)

LEMMA StepKinds ==
    Step <=> \E c \in Conns : Reads(c) \/ CreateKey(c) \/ Shell(c)
BY DEF Step, Handler, Reads

LEMMA ReadsKeep == ASSUME NEW c, Reads(c) PROVE UNCHANGED dbVars
<1>1. ASSUME Leave(c) PROVE UNCHANGED dbVars
  BY <1>1 DEF Leave
<1> QED
  BY <1>1 DEF Reads, Connect, PasswordAuth, FindKey, FindKeyFails, FindUser, FindUserFails,
     FindRoles, FindRolesFails, FindToken, FindTokenFails, CreateKeyFails, ClearToken,
     OpenShell, NoShell, Exit

LEMMA ShellKeeps ==
  ASSUME NEW c, Shell(c)
  PROVE  pc[c] = "shell" /\ UNCHANGED <<pc, actxVars>>
BY DEF Shell, UserRm, RemoveInvite, AssignRole, UnassignRole, InviteUser, SetToken,
   UserkeyFind, UserkeyCreate, UserkeyEnds, UserkeyRm, Command, Begin, AtPrompt

\* The keys a command adds, and what that does to the table of users.
LEMMA AddingType ==
  ASSUME TypeOK, NEW c \in Conns,
         \/ \E u \in Users : UserkeyFind(c, u)
         \/ \E k \in Keys : UserkeyCreate(c, k)
         \/ UserkeyEnds(c)
  PROVE  /\ adding' \in [Conns -> Found] /\ users' \subseteq Users
         /\ token' \in [Users -> Tokens \cup {NoToken}]
         /\ rows' \subseteq Rows /\ nextRow' \in 1 .. MaxRows + 1
<1> USE DEF TypeOK, DBType
<1>1. ASSUME NEW u \in Users, UserkeyFind(c, u) PROVE adding' \in [Conns -> Found]
  <2>1. [id |-> u, token |-> token[u]] \in Found
    BY DEF Found
  <2> QED BY <1>1, <2>1 DEF UserkeyFind
<1>2. ASSUME NEW k \in Keys, UserkeyCreate(c, k)
      PROVE  /\ users' \subseteq Users /\ token' \in [Users -> Tokens \cup {NoToken}]
             /\ rows' \subseteq Rows /\ nextRow' \in 1 .. MaxRows + 1
  <2>1. adding[c].id \in Users /\ adding[c].token \in Tokens \cup {NoToken}
    BY <1>2 DEF UserkeyCreate, Found
  <2>2. rows' \subseteq Rows /\ nextRow' \in 1 .. MaxRows + 1
    BY <1>2, <2>1, AddRowType DEF UserkeyCreate
  <2>3. users' \subseteq Users /\ token' \in [Users -> Tokens \cup {NoToken}]
    BY <1>2, <2>1 DEF UserkeyCreate, SavesUser
  <2> QED BY <2>2, <2>3
<1>3. UserkeyEnds(c) => adding' \in [Conns -> Found]
  <2>1. NotFound \in Found
    BY DEF NotFound, Found
  <2> QED BY <2>1 DEF UserkeyEnds
<1> QED BY <1>1, <1>2, <1>3 DEF UserkeyFind, UserkeyCreate, UserkeyEnds

LEMMA DBTypeStep ==
  ASSUME TypeOK, Step
  PROVE  DBType'
<1>1. PICK c \in Conns : Reads(c) \/ CreateKey(c) \/ Shell(c)
  BY StepKinds
<1>2. CASE Reads(c)
  BY <1>2, ReadsKeep DEF TypeOK, DBType, dbVars
<1>3. CASE CreateKey(c)
  <2>1. key[c] \in Keys /\ user[c] \in Users
    BY <1>3, Constants DEF TypeOK, ConnType, UserType, CreateKey
  <2>2. AddRow(key[c], user[c])
    BY <1>3 DEF CreateKey
  <2>3. rows' \subseteq Rows /\ nextRow' \in 1 .. MaxRows + 1
    BY <2>1, <2>2, AddRowType DEF TypeOK
  <2> QED BY <1>3, <2>3 DEF CreateKey, TypeOK, DBType
<1>4. CASE Shell(c)
  <2>0. commands' \in 0 .. MaxCommands
    <3>1. \/ commands < MaxCommands /\ commands' = commands + 1
          \/ commands' = commands
      BY <1>4 DEF Shell, UserRm, RemoveInvite, AssignRole, UnassignRole, InviteUser, SetToken,
         UserkeyFind, UserkeyCreate, UserkeyEnds, UserkeyRm, Command, Begin
    <3> QED BY <3>1, AuthAssumption DEF TypeOK, DBType
  <2>1. ASSUME NEW u \in Users, UserRm(c, u) \/ AssignRole(c, u) \/ UnassignRole(c, u)
        PROVE DBType'
    BY <2>0, <2>1 DEF UserRm, AssignRole, UnassignRole, Command, TypeOK, DBType
  <2>2. ASSUME NEW u \in Users, RemoveInvite(c, u) PROVE DBType'
    BY <2>0, <2>2 DEF RemoveInvite, Command, TypeOK, DBType
  <2>3. ASSUME NEW u \in Users, NEW t \in Tokens, InviteUser(c, u, t) \/ SetToken(c, u, t)
        PROVE DBType'
    BY <2>0, <2>3 DEF InviteUser, SetToken, Command, TypeOK, DBType
  <2>4. ASSUME \/ \E u \in Users : UserkeyFind(c, u)
               \/ \E k \in Keys : UserkeyCreate(c, k)
               \/ UserkeyEnds(c)
        PROVE  DBType'
    <3>1. admins' = admins
      BY <2>4 DEF UserkeyFind, UserkeyCreate, UserkeyEnds
    <3> QED BY <2>0, <2>4, <3>1, AddingType DEF TypeOK, DBType
  <2>5. ASSUME NEW r \in rows, UserkeyRm(c, r) PROVE DBType'
    BY <2>0, <2>5 DEF UserkeyRm, Command, TypeOK, DBType
  <2> QED BY <1>4, <2>1, <2>2, <2>3, <2>4, <2>5 DEF Shell
<1> QED BY <1>1, <1>2, <1>3, <1>4

\* Leaving a slot is the end of several steps.
LEMMA LeaveType ==
  ASSUME ConnType, UserType, NEW c \in Conns, Leave(c)
  PROVE  ConnType' /\ UserType'
<1>1. ConnType'
  BY DEF Leave, Goto, ConnType, Kinds, PC
<1>2. UserType'
  BY DEF Leave, Goto, ConnType, UserType
<1> QED BY <1>1, <1>2

LEMMA ConnTypeStep ==
  ASSUME TypeOK, Step
  PROVE  ConnType' /\ UserType'
<1>1. PICK c \in Conns : Reads(c) \/ CreateKey(c) \/ Shell(c)
  BY StepKinds
<1>2. CASE Shell(c)
  BY <1>2, ShellKeeps DEF TypeOK, ConnType, UserType, actxVars
<1>3. ASSUME NEW n \in Kinds, NEW k \in Keys, NEW t \in Tokens \cup {NoToken}, Connect(c, n, k, t)
      PROVE ConnType' /\ UserType'
  <2>1. ConnType'
    BY <1>3, Constants DEF Connect, Goto, TypeOK, ConnType, PC
  <2>2. UserType'
    BY <1>3 DEF Connect, Goto, TypeOK, ConnType, UserType
  <2> QED BY <2>1, <2>2
<1>4. CASE PasswordAuth(c) \/ NoShell(c) \/ Exit(c)
  BY <1>4, LeaveType DEF PasswordAuth, NoShell, Exit, TypeOK
<1>5. CASE FindKey(c)
  <2>1. \A r \in rows : r.user \in Users
    BY DEF TypeOK, DBType, Rows
  <2>2. ConnType'
    BY <1>5 DEF FindKey, Goto, TypeOK, ConnType, PC
  <2>3. UserType'
    BY <1>5, <2>1, Constants DEF FindKey, FirstRow, Goto, TypeOK, ConnType, UserType
  <2> QED BY <2>2, <2>3
<1>6. CASE FindKeyFails(c)
  <2>1. ConnType'
    BY <1>6 DEF FindKeyFails, Goto, TypeOK, ConnType, PC
  <2>2. UserType'
    BY <1>6 DEF FindKeyFails, Goto, TypeOK, ConnType, UserType
  <2> QED BY <2>1, <2>2
<1>7. CASE FindUser(c)
  <2>1. ConnType'
    BY <1>7 DEF FindUser, Goto, TypeOK, ConnType, PC
  <2>2. UserType'
    BY <1>7, Constants DEF FindUser, Goto, TypeOK, ConnType, DBType, UserType
  <2> QED BY <2>1, <2>2
<1>8. CASE FindUserFails(c) \/ FindRoles(c) \/ FindRolesFails(c) \/ FindTokenFails(c)
  <2>1. /\ pc[c] # "idle" /\ pc' = [pc EXCEPT ![c] = "accepted"]
        /\ UNCHANGED <<kind, key, given, owner, user, welcomed>>
    BY <1>8 DEF FindUserFails, FindRoles, FindRolesFails, FindTokenFails, Goto
  <2>2. asAdmin' \subseteq Conns /\ err' \subseteq Conns
    BY <1>8 DEF FindUserFails, FindRoles, FindRolesFails, FindTokenFails, InviteErr, TypeOK, ConnType
  <2>3. ConnType'
    BY <2>1, <2>2 DEF TypeOK, ConnType, PC
  <2>4. UserType'
    BY <2>1 DEF TypeOK, ConnType, UserType
  <2> QED BY <2>3, <2>4
<1>9. CASE FindToken(c)
  <2>1. ConnType'
    BY <1>9 DEF FindToken, Goto, TypeOK, ConnType, PC
  <2>2. UserType'
    BY <1>9, Constants DEF FindToken, Goto, TypeOK, ConnType, DBType, UserType
  <2> QED BY <2>1, <2>2
<1>10. CASE CreateKey(c) \/ CreateKeyFails(c)
  <2>1. /\ pc[c] = "createKey" /\ pc' = [pc EXCEPT ![c] = "clearToken"]
        /\ owner' = [owner EXCEPT ![c] = user[c]]
        /\ UNCHANGED <<kind, key, given, user, asAdmin, err, welcomed>>
    BY <1>10 DEF CreateKey, CreateKeyFails, Goto
  <2>2. ConnType'
    BY <2>1 DEF TypeOK, ConnType, PC
  <2>3. UserType'
    BY <2>1 DEF TypeOK, ConnType, UserType
  <2> QED BY <2>2, <2>3
<1>11. CASE ClearToken(c)
  <2>1. ConnType'
    BY <1>11 DEF ClearToken, Goto, TypeOK, ConnType, PC
  <2>2. UserType'
    BY <1>11 DEF ClearToken, Goto, TypeOK, ConnType, UserType
  <2> QED BY <2>1, <2>2
<1>12. CASE OpenShell(c)
  <2>1. ConnType'
    BY <1>12 DEF OpenShell, actxVars, Goto, TypeOK, ConnType, PC
  <2>2. UserType'
    BY <1>12 DEF OpenShell, GetsShell, actxVars, Goto, TypeOK, ConnType, UserType
  <2> QED BY <2>1, <2>2
<1> QED
  BY <1>1, <1>2, <1>3, <1>4, <1>5, <1>6, <1>7, <1>8, <1>9, <1>10, <1>11, <1>12 DEF Reads

LEMMA InitType == Init => TypeOK
<1> SUFFICES ASSUME Init PROVE TypeOK
  OBVIOUS
<1>1. DBType
  BY Constants, AuthAssumption DEF Init, DBType, Found, NotFound
<1>2. ConnType
  BY DEF Init, ConnType, PC, Kinds
<1>3. UserType
  BY DEF Init, UserType
<1>4. HistoryType
  BY DEF Init, HistoryType
<1> QED BY <1>1, <1>2, <1>3, <1>4 DEF TypeOK

LEMMA TypeStep == TypeOK /\ [Next]_vars => TypeOK'
<1> SUFFICES ASSUME TypeOK, [Next]_vars PROVE TypeOK'
  OBVIOUS
<1>1. CASE Next
  <2>1. DBType' /\ ConnType' /\ UserType'
    BY <1>1, DBTypeStep, ConnTypeStep DEF Next
  <2>2. HistoryType'
    BY <1>1, <2>1, HistoryStep DEF Next
  <2> QED BY <2>1, <2>2 DEF TypeOK
<1>2. CASE UNCHANGED vars
  BY <1>2 DEF vars, TypeOK, DBType, ConnType, UserType, HistoryType
<1> QED BY <1>1, <1>2

\* The states of the handlers, the tables and what they say of each other have
\* the types the code gives them, and no step is taken with a user it lacks.
THEOREM TypeCorrect == Spec => []TypeOK
BY InitType, TypeStep, PTL DEF Spec

-----------------------------------------------------------------------------
\* What a handler has read was true while it ran, and a slot nobody uses
\* stands for nobody.
IdInv ==
    \A c \in Conns :
        /\ pc[c] = "idle" => user[c] = Nobody /\ c \notin asAdmin /\ c \notin welcomed
        /\ pc[c] = "findUser" => owner[c] \in held[c]
        /\ user[c] # Nobody => user[c] \in held[c] \cup invited[c]

\* The roles are those of the login: administrators of any moment of the
\* handler are on record until it is done.
RankInv ==
    \A c \in Conns :
        /\ pc[c] \notin {"idle", "accepted", "shell"} => admins \subseteq ranked[c]
        /\ c \in asAdmin => pc[c] \in {"accepted", "shell"} /\ user[c] \in ranked[c]

\* A new row comes behind the rows there are.
IdsInv == \A r \in rows : r.id < nextRow

\* The key of a connection that redeemed an invite is stored: if no query fails.
StoredInv ==
    \A c \in Conns :
        /\ pc[c] = "clearToken" => user[c] \in held[c]
        /\ c \in welcomed => pc[c] \in {"accepted", "shell"} /\ user[c] \in held[c]

\* Keys are added by a shell that found its user as an administrator.
AddInv == \A c \in Conns : adding[c] # NotFound => pc[c] = "shell" /\ c \in asAdmin

IInv == TypeOK /\ IdInv /\ RankInv /\ IdsInv /\ AddInv

-----------------------------------------------------------------------------
\* History only grows, until the slot is free again.
LEMMA HistoryGrows ==
  ASSUME TypeOK, TypeOK', History, NEW d \in Conns, pc'[d] # "idle"
  PROVE  /\ held[d] \subseteq held'[d]
         /\ invited[d] \subseteq invited'[d]
         /\ ranked[d] \subseteq ranked'[d]
         /\ pc'[d] \notin {"accepted", "shell"} =>
               /\ HoldersOf(key[d])' \subseteq held'[d]
               /\ InvitedBy(given[d])' \subseteq invited'[d]
               /\ admins' \subseteq ranked'[d]
<1>1. \A before, now : before \subseteq Since(d, before, now)
  BY DEF Since
<1>2. pc'[d] \notin {"accepted", "shell"} => \A before, now : now \subseteq Since(d, before, now)
  BY DEF Since
<1>3. /\ held'[d] = Since(d, held[d], HoldersOf(key[d])')
      /\ invited'[d] = Since(d, invited[d], InvitedBy(given[d])')
      /\ ranked'[d] = Since(d, ranked[d], admins')
  BY DEF History
<1> QED BY <1>1, <1>2, <1>3

\* What a step of c leaves alone of another connection d.
LEMMA OthersKeep ==
  ASSUME TypeOK, NEW c \in Conns, Reads(c) \/ CreateKey(c) \/ Shell(c),
         NEW d \in Conns, d # c
  PROVE  /\ pc'[d] = pc[d] /\ owner'[d] = owner[d] /\ user'[d] = user[d]
         /\ d \in asAdmin' <=> d \in asAdmin
         /\ d \in welcomed' <=> d \in welcomed
<1> USE DEF TypeOK, ConnType, UserType
<1>1. CASE Shell(c)
  BY <1>1, ShellKeeps DEF actxVars
<1>2. CASE CreateKey(c)
  BY <1>2 DEF CreateKey, Goto
<1>3. CASE \E n \in Kinds, k \in Keys, t \in Tokens \cup {NoToken} : Connect(c, n, k, t)
  BY <1>3 DEF Connect, Goto
<1>4. CASE PasswordAuth(c) \/ NoShell(c) \/ Exit(c)
  BY <1>4 DEF PasswordAuth, NoShell, Exit, Leave, Goto
<1>5. CASE FindKey(c) \/ FindKeyFails(c) \/ FindUserFails(c) \/ FindRolesFails(c)
  BY <1>5 DEF FindKey, FindKeyFails, FindUserFails, FindRolesFails, Goto
<1>6. CASE FindUser(c) \/ FindRoles(c) \/ FindToken(c) \/ FindTokenFails(c)
  BY <1>6 DEF FindUser, FindRoles, FindToken, FindTokenFails, Goto
<1>7. CASE CreateKeyFails(c) \/ ClearToken(c) \/ OpenShell(c)
  BY <1>7 DEF CreateKeyFails, ClearToken, OpenShell, actxVars, Goto
<1> QED BY <1>1, <1>2, <1>3, <1>4, <1>5, <1>6, <1>7 DEF Reads

LEMMA IdStep ==
  ASSUME TypeOK, TypeOK', IdInv, Next
  PROVE  IdInv'
<1> DEFINE P(d) == /\ pc[d] = "idle" => user[d] = Nobody /\ d \notin asAdmin /\ d \notin welcomed
                   /\ pc[d] = "findUser" => owner[d] \in held[d]
                   /\ user[d] # Nobody => user[d] \in held[d] \cup invited[d]
<1> SUFFICES ASSUME NEW d \in Conns PROVE P(d)'
  BY DEF IdInv
<1>0. P(d) /\ History
  BY DEF IdInv, Next
<1>1. PICK c \in Conns : Reads(c) \/ CreateKey(c) \/ Shell(c)
  BY StepKinds DEF Next
<1>g. pc'[d] # "idle" =>
        /\ held[d] \subseteq held'[d] /\ invited[d] \subseteq invited'[d]
        /\ pc'[d] \notin {"accepted", "shell"} =>
              /\ HoldersOf(key[d])' \subseteq held'[d]
              /\ InvitedBy(given[d])' \subseteq invited'[d]
  BY <1>0, HistoryGrows
<1> HIDE DEF P
<1>k. ASSUME pc'[d] # "idle", pc'[d] # "findUser", user'[d] = user[d] PROVE P(d)'
  BY <1>k, <1>0, <1>g DEF P
<1>2. CASE d # c
  BY <1>0, <1>1, <1>2, <1>g, OthersKeep DEF P
<1>3. CASE d = c
  <2> USE <1>3 DEF TypeOK, ConnType, UserType
  <2>1. CASE Shell(c)
    BY <2>1, <1>0, <1>k, ShellKeeps DEF actxVars
  <2>2. CASE \/ \E n \in Kinds, k \in Keys, t \in Tokens \cup {NoToken} : Connect(c, n, k, t)
             \/ FindKeyFails(c) \/ FindUserFails(c) \/ FindRoles(c) \/ FindRolesFails(c)
             \/ FindTokenFails(c) \/ CreateKey(c) \/ CreateKeyFails(c) \/ ClearToken(c)
             \/ OpenShell(c)
    <3>1. pc'[d] # "idle" /\ pc'[d] # "findUser" /\ user'[d] = user[d]
      BY <2>2 DEF Connect, FindKeyFails, FindUserFails, FindRoles, FindRolesFails, FindTokenFails,
         CreateKey, CreateKeyFails, ClearToken, OpenShell, actxVars, Goto
    <3> QED BY <3>1, <1>k
  <2>3. CASE PasswordAuth(c) \/ NoShell(c) \/ Exit(c)
    BY <2>3 DEF PasswordAuth, NoShell, Exit, Leave, Goto, P
  <2>4. CASE FindKey(c)
    <3>1. pc'[d] = "findUser" /\ user'[d] = user[d] /\ key' = key /\ rows' = rows
      BY <2>4 DEF FindKey, Goto, dbVars
    <3>2. PICK r \in rows : r.key = key[d] /\ owner'[d] = r.user
      BY <2>4 DEF FindKey, FirstRow
    <3>3. r.user \in HoldersOf(key[d])'
      BY <3>1, <3>2 DEF HoldersOf
    <3> QED BY <3>1, <3>2, <3>3, <1>0, <1>g DEF P
  <2>5. CASE FindUser(c)
    <3>1. pc[d] = "findUser" /\ pc'[d] = "findRoles" /\ user'[d] = owner[d]
      BY <2>5 DEF FindUser, Goto
    <3> QED BY <3>1, <1>0, <1>g DEF P
  <2>6. CASE FindToken(c)
    <3>1. pc'[d] = "createKey" /\ UNCHANGED <<given, users, token>>
      BY <2>6 DEF FindToken, Goto, dbVars
    <3>2. user'[d] \in Invited(given[d]) /\ given[d] # NoToken
      BY <2>6 DEF FindToken, FirstInvited, MayLookUp
    <3>3. user'[d] \in InvitedBy(given[d])'
      BY <3>1, <3>2 DEF InvitedBy, Invited
    <3> QED BY <3>1, <3>3, <1>g DEF P
  <2> QED BY <1>1, <2>1, <2>2, <2>3, <2>4, <2>5, <2>6 DEF Reads
<1> QED BY <1>2, <1>3

LEMMA RankStep ==
  ASSUME TypeOK, TypeOK', IdInv, RankInv, Next
  PROVE  RankInv'
<1> DEFINE P(d) == /\ pc[d] \notin {"idle", "accepted", "shell"} => admins \subseteq ranked[d]
                   /\ d \in asAdmin => pc[d] \in {"accepted", "shell"} /\ user[d] \in ranked[d]
<1> SUFFICES ASSUME NEW d \in Conns PROVE P(d)'
  BY DEF RankInv
<1>0. P(d) /\ History /\ (pc[d] = "idle" => d \notin asAdmin)
  BY DEF RankInv, IdInv, Next
<1>1. PICK c \in Conns : Reads(c) \/ CreateKey(c) \/ Shell(c)
  BY StepKinds DEF Next
<1>g. pc'[d] # "idle" =>
        /\ ranked[d] \subseteq ranked'[d]
        /\ pc'[d] \notin {"accepted", "shell"} => admins' \subseteq ranked'[d]
  BY <1>0, HistoryGrows
<1> HIDE DEF P
<1>k. ASSUME pc'[d] # "idle", d \notin asAdmin' PROVE P(d)'
  BY <1>k, <1>g DEF P
<1>h. ASSUME pc'[d] \in {"accepted", "shell"}, pc[d] \in {"accepted", "shell"},
             d \in asAdmin' => d \in asAdmin, user'[d] = user[d]
      PROVE P(d)'
  BY <1>h, <1>0, <1>g DEF P
<1>2. CASE d # c
  BY <1>0, <1>1, <1>2, <1>g, OthersKeep DEF P
<1>3. CASE d = c
  <2> USE <1>3 DEF TypeOK, ConnType, UserType
  <2>1. CASE Shell(c)
    BY <2>1, <1>h, ShellKeeps DEF actxVars
  <2>2. CASE \/ \E n \in Kinds, k \in Keys, t \in Tokens \cup {NoToken} : Connect(c, n, k, t)
             \/ FindKey(c) \/ FindKeyFails(c) \/ FindUser(c) \/ FindUserFails(c)
             \/ FindRolesFails(c) \/ FindToken(c) \/ FindTokenFails(c)
             \/ CreateKey(c) \/ CreateKeyFails(c) \/ ClearToken(c)
    <3>1. pc'[d] # "idle" /\ asAdmin' = asAdmin /\ pc[d] \notin {"accepted", "shell"}
      BY <2>2 DEF Connect, FindKey, FindKeyFails, FindUser, FindUserFails, FindRolesFails,
         FindToken, FindTokenFails, CreateKey, CreateKeyFails, ClearToken, Goto
    <3> QED BY <3>1, <1>0, <1>k DEF P
  <2>3. CASE PasswordAuth(c) \/ NoShell(c) \/ Exit(c)
    BY <2>3 DEF PasswordAuth, NoShell, Exit, Leave, Goto, P
  <2>4. CASE FindRoles(c)
    <3>1. pc[d] = "findRoles" /\ pc'[d] = "accepted" /\ user'[d] = user[d]
      BY <2>4 DEF FindRoles, Goto
    <3>2. d \in asAdmin' => d \in asAdmin \/ user[d] \in admins
      BY <2>4 DEF FindRoles
    <3> QED BY <3>1, <3>2, <1>0, <1>g DEF P
  <2>5. CASE OpenShell(c)
    <3>1. pc[d] = "accepted" /\ pc'[d] = "shell" /\ user'[d] = user[d] /\ asAdmin' = asAdmin
      BY <2>5 DEF OpenShell, actxVars, Goto
    <3> QED BY <3>1, <1>h
  <2> QED BY <1>1, <2>1, <2>2, <2>3, <2>4, <2>5 DEF Reads
<1> QED BY <1>2, <1>3

LEMMA AddStep ==
  ASSUME TypeOK, AddInv, Next
  PROVE  AddInv'
<1> SUFFICES ASSUME NEW d \in Conns, adding'[d] # NotFound
             PROVE  pc'[d] = "shell" /\ d \in asAdmin'
  BY DEF AddInv
<1>1. PICK c \in Conns : Reads(c) \/ CreateKey(c) \/ Shell(c)
  BY StepKinds DEF Next
<1>2. CASE Reads(c) \/ CreateKey(c)
  <2>1. adding' = adding
    BY <1>2, ReadsKeep DEF CreateKey, dbVars
  <2>2. pc[d] = "shell" /\ d \in asAdmin /\ adding[d] # NotFound
    BY <2>1 DEF AddInv
  <2>3. CASE d # c
    BY <1>1, <2>2, <2>3, OthersKeep
  <2>4. CASE d = c
    BY <1>2, <2>2, <2>4 DEF Reads, Connect, PasswordAuth, FindKey, FindKeyFails, FindUser,
       FindUserFails, FindRoles, FindRolesFails, FindToken, FindTokenFails, CreateKey,
       CreateKeyFails, ClearToken, OpenShell, NoShell, Exit, AtPrompt
  <2> QED BY <2>3, <2>4
<1>3. CASE Shell(c)
  <2>1. UNCHANGED <<pc, asAdmin>>
    BY <1>3, ShellKeeps DEF actxVars
  <2>2. \/ adding' = adding
        \/ Begin(c) /\ \E f : adding' = [adding EXCEPT ![c] = f]
        \/ adding' = [adding EXCEPT ![c] = NotFound]
    BY <1>3 DEF Shell, UserRm, RemoveInvite, AssignRole, UnassignRole, InviteUser, SetToken,
       UserkeyFind, UserkeyCreate, UserkeyEnds, UserkeyRm, Command
  <2>3. adding[d] # NotFound => pc[d] = "shell" /\ d \in asAdmin
    BY DEF AddInv
  <2>4. Begin(c) => pc[c] = "shell" /\ c \in asAdmin
    BY DEF Begin, AtPrompt, CheckRoles
  <2>5. adding \in [Conns -> Found]
    BY DEF TypeOK, DBType
  <2> QED BY <2>1, <2>2, <2>3, <2>4, <2>5
<1> QED BY <1>1, <1>2, <1>3

\* What a shell changes, an administrator of its login changes.
LEMMA ShellOfAdmin ==
  ASSUME AddInv, NEW c \in Conns, Shell(c)
  PROVE  c \in asAdmin
<1>1. Begin(c) \/ adding[c].id # Nobody
  BY DEF Shell, UserRm, RemoveInvite, AssignRole, UnassignRole, InviteUser, SetToken,
     UserkeyFind, UserkeyCreate, UserkeyEnds, UserkeyRm, Command
<1>2. adding[c].id # Nobody => c \in asAdmin
  BY DEF AddInv, NotFound
<1> QED BY <1>1, <1>2 DEF Begin, CheckRoles

\* The rows of a step: those there were, with one more or one less.
LEMMA RowsStep ==
  ASSUME DBType, Step
  PROVE  \/ rows' \subseteq rows /\ nextRow' = nextRow
         \/ /\ nextRow' = nextRow + 1
            /\ \E k, u : rows' = rows \cup {[id |-> nextRow, key |-> k, user |-> u]}
<1>1. PICK c \in Conns : Reads(c) \/ CreateKey(c) \/ Shell(c)
  BY StepKinds
<1>2. CASE Reads(c)
  BY <1>2, ReadsKeep DEF dbVars
<1>3. CASE CreateKey(c)
  BY <1>3 DEF CreateKey, AddRow, NewId
<1>4. CASE Shell(c)
  BY <1>4 DEF Shell, UserRm, RemoveInvite, AssignRole, UnassignRole, InviteUser, SetToken,
     UserkeyFind, UserkeyCreate, UserkeyEnds, UserkeyRm, AddRow, NewId
<1> QED BY <1>1, <1>2, <1>3, <1>4

LEMMA IdsStep ==
  ASSUME TypeOK, IdsInv, Next
  PROVE  IdsInv'
<1>1. DBType /\ Step /\ nextRow \in Nat /\ \A r \in rows : r.id \in Nat
  BY DEF TypeOK, DBType, Rows, Next
<1>2. CASE rows' \subseteq rows /\ nextRow' = nextRow
  BY <1>2 DEF IdsInv
<1>3. ASSUME nextRow' = nextRow + 1, NEW k, NEW u,
             rows' = rows \cup {[id |-> nextRow, key |-> k, user |-> u]}
      PROVE IdsInv'
  BY <1>1, <1>3 DEF IdsInv
<1> QED BY <1>1, <1>2, <1>3, RowsStep

LEMMA InitInv == Init => IInv /\ StoredInv
<1> SUFFICES ASSUME Init PROVE IInv /\ StoredInv
  OBVIOUS
<1>1. IdInv /\ RankInv /\ IdsInv /\ StoredInv /\ AddInv
  BY DEF Init, IdInv, RankInv, IdsInv, StoredInv, AddInv
<1> QED BY <1>1, InitType DEF IInv

LEMMA InvStep == IInv /\ [Next]_vars => IInv'
<1> SUFFICES ASSUME IInv, [Next]_vars PROVE IInv'
  OBVIOUS
<1>0. TypeOK' /\ TypeOK /\ IdInv /\ RankInv /\ IdsInv /\ AddInv
  BY TypeStep DEF IInv
<1>1. CASE Next
  BY <1>0, <1>1, IdStep, RankStep, IdsStep, AddStep DEF IInv
<1>2. CASE UNCHANGED vars
  BY <1>0, <1>2 DEF vars, IInv, IdInv, RankInv, IdsInv, AddInv
<1> QED BY <1>1, <1>2

LEMMA Inductive == Spec => []IInv
BY InitInv, InvStep, PTL DEF Spec

\* For every number of connections, keys, tokens and users: a connection acts as
\* a user whose key, or invite, its own was while it was authenticated.
THEOREM Vouched == Spec => []IdentityVouched
<1>1. IInv => IdentityVouched
  BY DEF IInv, IdInv, IdentityVouched
<1> QED BY <1>1, Inductive, PTL

-----------------------------------------------------------------------------
\* Users, tokens, roles and the rows that go change only under a connection
\* whose user was an administrator when it logged in.
THEOREM CommandedByAdmins == Spec => AdminsCommand
<1> DEFINE ByAdmin == \E c \in Conns : pc[c] = "shell" /\ user[c] \in ranked[c]
<1>1. IInv /\ [Next]_vars => [TablesChange => ByAdmin]_vars
  <2> SUFFICES ASSUME IInv, Next, TablesChange PROVE ByAdmin
    BY DEF vars, TablesChange
  <2>1. PICK c \in Conns : Reads(c) \/ CreateKey(c) \/ Shell(c)
    BY StepKinds DEF Next
  <2>2. CASE Reads(c)
    BY <2>2, ReadsKeep DEF TablesChange, dbVars
  <2>3. CASE CreateKey(c)
    BY <2>3 DEF CreateKey, AddRow, TablesChange
  <2>4. CASE Shell(c)
    BY <2>4, ShellKeeps, ShellOfAdmin DEF IInv, RankInv
  <2> QED BY <2>1, <2>2, <2>3, <2>4
<1> QED BY <1>1, Inductive, PTL DEF Spec, AdminsCommand

\* The first row of a key stays first while it exists.
LEMMA FirstStays ==
  ASSUME IInv, Next, NEW r \in rows, FirstRow(r, r.key), r \in rows'
  PROVE  FirstRow(r, r.key)'
<1>1. DBType /\ Step /\ IdsInv /\ r.id < nextRow /\ r.id \in Nat /\ nextRow \in Nat
  BY DEF IInv, TypeOK, DBType, IdsInv, Rows, Next
<1> SUFFICES ASSUME NEW q \in rows', q.key = r.key PROVE r.id <= q.id
  BY DEF FirstRow
<1>2. CASE q \in rows
  BY <1>2 DEF FirstRow
<1>3. CASE q \notin rows
  <2>1. q.id = nextRow
    BY <1>1, <1>3, RowsStep
  <2> QED BY <1>1, <2>1
<1> QED BY <1>2, <1>3

\* A key stays its owner's for as long as the owner's row exists, whatever
\* invites and administrators add.
THEOREM OwnersStay == Spec => OwnerStays
<1> DEFINE Stays == \A r \in rows : FirstRow(r, r.key) /\ r \in rows' => FirstRow(r, r.key)'
<1>1. IInv /\ [Next]_vars => [Stays]_vars
  <2> SUFFICES ASSUME IInv, Next PROVE Stays
    OBVIOUS
  <2> QED BY FirstStays
<1> QED BY <1>1, Inductive, PTL DEF Spec, OwnerStays

-----------------------------------------------------------------------------
LEMMA StoredStep ==
  ASSUME ~ QueriesFail, IInv, IInv', StoredInv, [Next]_vars
  PROVE  StoredInv'
<1> DEFINE P(d) == /\ pc[d] = "clearToken" => user[d] \in held[d]
                   /\ d \in welcomed => pc[d] \in {"accepted", "shell"} /\ user[d] \in held[d]
<1>u. CASE UNCHANGED vars
  BY <1>u DEF vars, StoredInv
<1> SUFFICES ASSUME Next, NEW d \in Conns PROVE P(d)'
  BY <1>u DEF StoredInv
<1>0. P(d) /\ History /\ TypeOK /\ TypeOK' /\ (pc[d] = "idle" => d \notin welcomed)
  BY DEF IInv, IdInv, StoredInv, Next
<1>1. PICK c \in Conns : Reads(c) \/ CreateKey(c) \/ Shell(c)
  BY StepKinds DEF Next
<1>g. pc'[d] # "idle" =>
        /\ held[d] \subseteq held'[d]
        /\ pc'[d] \notin {"accepted", "shell"} => HoldersOf(key[d])' \subseteq held'[d]
  BY <1>0, HistoryGrows
<1> HIDE DEF P
<1>k. ASSUME pc'[d] # "clearToken", d \notin welcomed' PROVE P(d)'
  BY <1>k DEF P
<1>h. ASSUME pc'[d] \in {"accepted", "shell"}, pc[d] \in {"accepted", "shell"},
             d \in welcomed' => d \in welcomed, user'[d] = user[d]
      PROVE P(d)'
  BY <1>h, <1>0, <1>g DEF P
<1>2. CASE d # c
  BY <1>0, <1>1, <1>2, <1>g, OthersKeep DEF P, TypeOK, ConnType, PC
<1>3. CASE d = c
  <2> USE <1>0, <1>3 DEF TypeOK, ConnType, UserType
  <2>1. CASE Shell(c)
    BY <2>1, <1>h, ShellKeeps DEF actxVars
  <2>2. CASE \/ \E n \in Kinds, k \in Keys, t \in Tokens \cup {NoToken} : Connect(c, n, k, t)
             \/ FindKey(c) \/ FindKeyFails(c) \/ FindUser(c) \/ FindUserFails(c)
             \/ FindRoles(c) \/ FindRolesFails(c) \/ FindToken(c) \/ FindTokenFails(c)
    <3>1. pc'[d] # "clearToken" /\ welcomed' = welcomed /\ pc[d] \notin {"accepted", "shell"}
      BY <2>2 DEF Connect, FindKey, FindKeyFails, FindUser, FindUserFails, FindRoles,
         FindRolesFails, FindToken, FindTokenFails, Goto
    <3> QED BY <3>1, <1>k DEF P
  <2>3. CASE PasswordAuth(c) \/ NoShell(c) \/ Exit(c)
    BY <2>3, <1>k DEF PasswordAuth, NoShell, Exit, Leave, Goto
  <2>4. CASE CreateKeyFails(c)
    BY <2>4 DEF CreateKeyFails
  <2>5. CASE CreateKey(c)
    <3>1. /\ pc[d] = "createKey" /\ pc'[d] = "clearToken"
          /\ user'[d] = user[d] /\ key' = key /\ welcomed' = welcomed
      BY <2>5 DEF CreateKey, Goto
    <3>2. [id |-> nextRow, key |-> key[d], user |-> user[d]] \in rows'
      BY <2>5 DEF CreateKey, AddRow, NewId
    <3>3. user[d] \in HoldersOf(key[d])'
      BY <3>1, <3>2 DEF HoldersOf
    <3> QED BY <3>1, <3>3, <1>g DEF P
  <2>6. CASE ClearToken(c)
    <3>1. pc[d] = "clearToken" /\ pc'[d] = "accepted" /\ user'[d] = user[d]
      BY <2>6 DEF ClearToken, Goto
    <3> QED BY <3>1, <1>g DEF P
  <2>7. CASE OpenShell(c)
    <3>1. /\ pc[d] = "accepted" /\ pc'[d] = "shell"
          /\ user'[d] = user[d] /\ welcomed' = welcomed
      BY <2>7 DEF OpenShell, actxVars, Goto
    <3> QED BY <3>1, <1>h
  <2> QED BY <1>1, <2>1, <2>2, <2>3, <2>4, <2>5, <2>6, <2>7 DEF Reads
<1> QED BY <1>2, <1>3

\* If no query fails, a connection that is welcomed has its key stored.
THEOREM WelcomeTrue == ASSUME ~ QueriesFail PROVE Spec => []WelcomeIsTrue
<1>1. IInv /\ IInv' /\ StoredInv /\ [Next]_vars => StoredInv'
  BY StoredStep
<1>2. IInv /\ StoredInv => WelcomeIsTrue
  BY DEF IInv, TypeOK, ConnType, StoredInv, WelcomeIsTrue
<1> QED BY <1>1, <1>2, InitInv, Inductive, PTL DEF Spec
=============================================================================
