--------------------------- MODULE AdminTxProofs ---------------------------
(***************************************************************************)
(* The shell's commands for every number of commands, rows and groups.     *)
(* CtlInv: where a command is in its statements, and who may hold the      *)
(* lock.  TraceInv: whose marks are in the database, and in what the       *)
(* holder of the lock sees.  WorkInv: what the holder sees is the database *)
(* with the work of its rows so far, which makes its commit one step of    *)
(* AtomicCommands.                                                         *)
(***************************************************************************)
EXTENDS AdminTx, TLAPS

Vals  == [Ids -> [Fields -> Marks]]
Links == [Ids -> [Groups -> Marks \cup {Nobody}]]

CtlInv ==
    \A c \in Cmds :
        /\ pc[c] \in {"fields", "behind", "assign"} => at[c] \in todo[c]
        /\ result[c] = "none" <=> pc[c] # "end"
        /\ pc[c] \in {"row", "fields", "behind", "assign"} => req[c].kind = "update"
        /\ pc[c] \in {"start", "insert"} => writer # c
        /\ writer = c /\ pc[c] = "end" => table = "hosts" /\ req[c].bad /\ req[c].fields # {}
        /\ table = "acls" /\ req[c].bad => pc[c] \notin {"fields", "behind", "assign"} /\ writer # c
        /\ table = "hosts" /\ req[c].bad => pc[c] # "assign" /\ (writer = c => req[c].fields # {})

-----------------------------------------------------------------------------
(* Types                                                                     *)

LEMMA Requested ==
    ASSUME TypeOK, NEW c \in Cmds
    PROVE  /\ req[c].kind \in Kinds /\ req[c].ids \subseteq Ids /\ req[c].names \subseteq Ids
           /\ req[c].fields \subseteq Fields /\ req[c].assign \subseteq Groups
           /\ req[c].unassign \subseteq Groups /\ req[c].bad \in BOOLEAN
<1>1. req[c] \in AllRequests
  BY AdminTxAssumption DEF TypeOK
<1> QED BY <1>1 DEF AllRequests

LEMMA UpdatedType ==
    ASSUME TypeOK, NEW d \in DBs, NEW r \in Ids, NEW c \in Cmds
    PROVE  Updated(d, r, c) \in DBs
<1> DEFINE v == [f \in Fields |-> IF f \in req[c].fields THEN c ELSE d.val[r][f]]
<1>1. v \in [Fields -> Marks] /\ d.val \in Vals
  BY DEF DBs, Marks, Vals
<1>2. [d EXCEPT !.val[r] = v] \in DBs
  <2> HIDE DEF v
  <2> QED BY <1>1 DEF DBs, Vals
<1>3. [d EXCEPT !.val[r] = [f \in Fields |-> IF f \in req[c].fields THEN c ELSE @[f]]]
          = [d EXCEPT !.val[r] = v]
  OBVIOUS
<1> QED BY <1>2, <1>3 DEF Updated

LEMMA LinkedType ==
    ASSUME TypeOK, NEW d \in DBs, NEW r \in Ids, NEW c \in Cmds
    PROVE  Linked(d, r, c) \in DBs
<1> DEFINE v == [g \in Groups |->
                    IF g \in found[c].out THEN Nobody
                    ELSE IF g \in found[c].in /\ d.link[r][g] = Nobody THEN c ELSE d.link[r][g]]
           G == d.groups \cup found[c].in
<1>1. v \in [Groups -> Marks \cup {Nobody}] /\ d.link \in Links
  BY DEF DBs, Marks, Links
<1>2. G \in SUBSET Groups
  BY DEF TypeOK, DBs
<1>3. [d EXCEPT !.groups = G, !.link[r] = v] \in DBs
  <2> HIDE DEF v, G
  <2> QED BY <1>1, <1>2 DEF DBs, Links
<1>4. Linked(d, r, c) = [d EXCEPT !.groups = G, !.link[r] = v]
  BY DEF Linked
<1> QED BY <1>3, <1>4

LEMMA ViewType == ASSUME TypeOK, NEW c \in Cmds PROVE View(c) \in DBs
BY DEF TypeOK, View

DbType ==
    /\ db \in DBs /\ own \in DBs /\ writer \in Cmds \cup {Nobody}
    /\ writer = Nobody => own = db
CmdType ==
    /\ pc \in [Cmds -> {"start", "insert", "row", "fields", "behind", "assign", "end"}]
    /\ result \in [Cmds -> {"none", "ok", "err", "gone"}]
    /\ picked \in [Cmds -> SUBSET Ids]
    /\ todo \in [Cmds -> SUBSET Ids] /\ \A c \in Cmds : todo[c] \subseteq picked[c]
    /\ at \in [Cmds -> Ids \cup {Nobody}]
    /\ found \in [Cmds -> [in : SUBSET Groups, out : SUBSET Groups]]

LEMMA TypeParts ==
    /\ TypeOK => DbType /\ CmdType
    /\ DbType' /\ CmdType' /\ TypeOK /\ UNCHANGED <<table, req>> => TypeOK'
BY DEF TypeOK, DbType, CmdType

LEMMA EndType ==
    ASSUME CmdType, NEW c \in Cmds, NEW r \in {"ok", "err"}, End(c, r)
    PROVE  CmdType'
BY DEF CmdType, End, Goto, NoneFound

LEMMA RollbackType ==
    ASSUME TypeOK, NEW c \in Cmds, Rollback(c), UNCHANGED <<table, req>>
    PROVE  TypeOK'
<1>1. CmdType'
  BY TypeParts, EndType DEF Rollback
<1>2. DbType'
  BY DEF Rollback, DbType, TypeOK
<1> QED BY <1>1, <1>2, TypeParts

LEMMA RowDoneType ==
    ASSUME CmdType, NEW c \in Cmds, RowDone(c), UNCHANGED <<result, picked>>
    PROVE  CmdType'
BY DEF CmdType, RowDone, Goto, NoneFound

LEMMA NoneFree == Nobody \notin Cmds
BY AdminTxAssumption DEF Marks

LEMMA TypeStep == TypeOK /\ CtlInv /\ [Next]_vars => TypeOK'
<1> SUFFICES ASSUME TypeOK, CtlInv, [Next]_vars PROVE TypeOK'
  OBVIOUS
<1>d. DbType /\ CmdType
  BY TypeParts
<1>1. ASSUME NEW c \in Cmds, Find(c) PROVE TypeOK'
  <2>1. DbType'
    BY <1>1, <1>d DEF Find, DbType
  <2>2. ByIdentifiers(req[c], db) \in SUBSET Ids
    BY <1>d, Requested DEF ByIdentifiers, DbType, DBs
  <2>3. CASE OneName(c, ByIdentifiers(req[c], db))
    BY <1>1, <1>d, <2>1, <2>3, EndType, TypeParts DEF Find
  <2>4. CASE ~ OneName(c, ByIdentifiers(req[c], db))
    <3> DEFINE S == ByIdentifiers(req[c], db)
    <3>1. /\ picked' = [picked EXCEPT ![c] = S] /\ todo' = [todo EXCEPT ![c] = S]
          /\ pc' = [pc EXCEPT ![c] = "row"] /\ UNCHANGED <<result, at, found>>
      BY <1>1, <2>4 DEF Find, Goto
    <3> HIDE DEF S
    <3>2. CmdType'
      BY <1>d, <2>2, <3>1 DEF CmdType, S
    <3> QED BY <1>1, <2>1, <3>2, TypeParts DEF Find
  <2> QED BY <2>3, <2>4
<1>2. ASSUME NEW c \in Cmds, NextRow(c) PROVE TypeOK'
  <2>1. DbType'
    BY <1>2, <1>d DEF NextRow, DbType
  <2>2. CmdType'
    <3>1. CASE End(c, "err")
      BY <1>d, <3>1, EndType
    <3>2. ASSUME NEW r \in todo[c], at' = [at EXCEPT ![c] = r], Goto(c, "fields"),
                 UNCHANGED <<result, picked, todo, found>>
          PROVE  CmdType'
      BY <1>d, <3>2 DEF CmdType, Goto
    <3> QED BY <1>2, <3>1, <3>2 DEF NextRow
  <2> QED BY <1>2, <2>1, <2>2, TypeParts DEF NextRow
<1>3. ASSUME NEW c \in Cmds, UpdateFields(c) PROVE TypeOK'
  <2>1. CmdType'
    BY <1>3, <1>d DEF UpdateFields, CmdType, Goto
  <2>2. at[c] \in Ids
    BY <1>3, <1>d DEF UpdateFields, CtlInv, CmdType
  <2>3. Updated(View(c), at[c], c) \in DBs
    BY <2>2, ViewType, UpdatedType
  <2>4. DbType'
    BY <1>3, <1>d, <2>3, NoneFree DEF UpdateFields, Write, DbType
  <2> QED BY <1>3, <2>1, <2>4, TypeParts DEF UpdateFields
<1>4. ASSUME NEW c \in Cmds, BadArgument(c) PROVE TypeOK'
  <2>1. CmdType'
    BY <1>4, <1>d, EndType DEF BadArgument
  <2> QED BY <1>4, <1>d, <2>1, TypeParts DEF BadArgument, DbType
<1>5. ASSUME NEW c \in Cmds, NoGroups(c) PROVE TypeOK'
  <2>1. CmdType'
    BY <1>5, <1>d, RowDoneType DEF NoGroups
  <2> QED BY <1>5, <1>d, <2>1, TypeParts DEF NoGroups, DbType
<1>6. ASSUME NEW c \in Cmds, LookUp(c) PROVE TypeOK'
  <2> DEFINE w == [in |-> req[c].assign \cap db.groups, out |-> req[c].unassign \cap db.groups]
  <2>1. w \in [in : SUBSET Groups, out : SUBSET Groups]
    BY Requested
  <2>2. found' = [found EXCEPT ![c] = w] /\ pc' = [pc EXCEPT ![c] = "assign"]
        /\ UNCHANGED <<table, req, db, own, writer, result, picked, todo, at>>
    BY <1>6 DEF LookUp, Goto
  <2> HIDE DEF w
  <2>3. CmdType'
    BY <1>d, <2>1, <2>2 DEF CmdType
  <2> QED BY <1>d, <2>2, <2>3, TypeParts DEF DbType
<1>7. ASSUME NEW c \in Cmds, Assign(c) PROVE TypeOK'
  <2>1. CmdType'
    BY <1>7, <1>d, RowDoneType DEF Assign
  <2>2. at[c] \in Ids
    BY <1>7, <1>d DEF Assign, CtlInv, CmdType
  <2>3. Linked(View(c), at[c], c) \in DBs
    BY <2>2, ViewType, LinkedType
  <2>4. DbType'
    BY <1>7, <1>d, <2>3, NoneFree DEF Assign, Write, DbType
  <2> QED BY <1>7, <2>1, <2>4, TypeParts DEF Assign
<1>8. ASSUME NEW c \in Cmds, Commit(c) PROVE TypeOK'
  <2>1. CmdType'
    BY <1>8, <1>d, EndType DEF Commit
  <2> QED BY <1>8, <1>d, <2>1, TypeParts DEF Commit, DbType
<1>9. ASSUME NEW c \in Cmds, Refused(c) \/ StatementFails(c) \/ Locked(c) PROVE TypeOK'
  BY <1>9, RollbackType DEF Refused, StatementFails, Locked
<1>10. ASSUME NEW c \in Cmds, FindGroups(c) PROVE TypeOK'
  <2>1. Asked(c) \in SUBSET Groups
    BY Requested DEF Asked
  <2>2. CmdType'
    <3>1. CASE End(c, "err")
      BY <1>d, <3>1, EndType
    <3>2. CASE /\ found' = [found EXCEPT ![c].in = Asked(c)] /\ Goto(c, "insert")
               /\ UNCHANGED <<result, picked, todo, at>>
      BY <1>d, <2>1, <3>2 DEF CmdType, Goto
    <3> QED BY <1>10, <3>1, <3>2 DEF FindGroups
  <2> QED BY <1>10, <1>d, <2>2, TypeParts DEF FindGroups, DbType
<1>11. ASSUME NEW c \in Cmds, Insert(c) PROVE TypeOK'
  <2> PICK r \in Fresh(db.rows) :
          db' = [rows |-> db.rows \cup {r}, val |-> [db.val EXCEPT ![r] = [f \in Fields |-> c]],
                 groups |-> db.groups \cup found[c].in,
                 link |-> [db.link EXCEPT ![r] = [g \in Groups |->
                     IF g \in found[c].in /\ @[g] = Nobody THEN c ELSE @[g]]]]
    BY <1>11 DEF Insert
  <2>1. /\ db.rows \subseteq Ids /\ db.val \in Vals /\ db.groups \subseteq Groups /\ db.link \in Links
        /\ r \in Ids /\ found[c].in \subseteq Groups
    BY <1>d DEF DbType, CmdType, DBs, Vals, Links, Fresh
  <2> DEFINE v == [f \in Fields |-> c]
             l == [g \in Groups |->
                      IF g \in found[c].in /\ db.link[r][g] = Nobody THEN c ELSE db.link[r][g]]
  <2>2. v \in [Fields -> Marks] /\ l \in [Groups -> Marks \cup {Nobody}]
    BY <2>1 DEF Marks, Links
  <2>3. db' = [rows |-> db.rows \cup {r}, val |-> [db.val EXCEPT ![r] = v],
               groups |-> db.groups \cup found[c].in, link |-> [db.link EXCEPT ![r] = l]]
    OBVIOUS
  <2>4. db' \in DBs
    <3> HIDE DEF v, l
    <3>1. [db.val EXCEPT ![r] = v] \in Vals /\ [db.link EXCEPT ![r] = l] \in Links
      BY <2>1, <2>2 DEF Vals, Links
    <3> QED BY <2>1, <2>3, <3>1 DEF DBs, Vals, Links
  <2>5. CmdType'
    BY <1>11, <1>d, EndType DEF Insert
  <2> QED BY <1>11, <1>d, <2>4, <2>5, TypeParts DEF Insert, DbType
<1>12. ASSUME NEW c \in Cmds, Remove(c) PROVE TypeOK'
  <2> DEFINE S == ByIdentifiers(req[c], db)
             V == [r \in Ids |-> IF r \in S THEN [f \in Fields |-> Old] ELSE db.val[r]]
  <2>1. db' = [db EXCEPT !.rows = @ \ S, !.val = V]
    BY <1>12 DEF Remove
  <2>2. V \in Vals
    BY <1>d DEF DbType, DBs, Vals, Marks
  <2>3. db' \in DBs
    <3> HIDE DEF V, S
    <3> QED BY <1>d, <2>1, <2>2 DEF DbType, DBs, Vals
  <2>4. CmdType'
    BY <1>12, <1>d, EndType DEF Remove
  <2> QED BY <1>12, <1>d, <2>3, <2>4, TypeParts DEF Remove, DbType
<1>13. ASSUME NEW c \in Cmds, RemoveGroup(c) PROVE TypeOK'
  <2>1. db' \in DBs
    BY <1>13, <1>d DEF RemoveGroup, DbType, DBs
  <2>2. CmdType'
    BY <1>13, <1>d, EndType DEF RemoveGroup
  <2> QED BY <1>13, <1>d, <2>1, <2>2, TypeParts DEF RemoveGroup, DbType
<1>14. CASE Stop
  <2>1. CmdType'
    BY <1>14, <1>d DEF Stop, CmdType, NoneFound
  <2> QED BY <1>14, <1>d, <2>1, TypeParts DEF Stop, DbType
<1>15. CASE UNCHANGED vars
  BY <1>15 DEF vars, TypeOK
<1> QED BY <1>1, <1>2, <1>3, <1>4, <1>5, <1>6, <1>7, <1>8, <1>9, <1>10, <1>11, <1>12, <1>13,
           <1>14, <1>15 DEF Next, Step

-----------------------------------------------------------------------------
(* Where commands are, and who holds the lock                                *)

\* The part of CtlInv that is about c.
Ctl(c) ==
    /\ pc[c] \in {"fields", "behind", "assign"} => at[c] \in todo[c]
    /\ result[c] = "none" <=> pc[c] # "end"
    /\ pc[c] \in {"row", "fields", "behind", "assign"} => req[c].kind = "update"
    /\ pc[c] \in {"start", "insert"} => writer # c
    /\ writer = c /\ pc[c] = "end" => table = "hosts" /\ req[c].bad /\ req[c].fields # {}
    /\ table = "acls" /\ req[c].bad => pc[c] \notin {"fields", "behind", "assign"} /\ writer # c
    /\ table = "hosts" /\ req[c].bad => pc[c] # "assign" /\ (writer = c => req[c].fields # {})

LEMMA InitCtl == Init => CtlInv
BY NoneFree DEF Init, CtlInv

\* The others go on as they were.
LEMMA CtlOthers ==
    ASSUME CtlInv, NEW c \in Cmds, Ctl(c)', UNCHANGED <<table, req>>, writer' \in {writer, c, Nobody},
           \A d \in Cmds \ {c} : /\ pc'[d] = pc[d] /\ result'[d] = result[d]
                                 /\ at'[d] = at[d] /\ todo'[d] = todo[d]
    PROVE  CtlInv'
<1>1. ASSUME NEW d \in Cmds \ {c} PROVE Ctl(d)'
  <2>1. Ctl(d) /\ d # Nobody /\ d # c
    BY NoneFree DEF CtlInv, Ctl
  <2> QED BY <2>1 DEF Ctl
<1>2. \A d \in Cmds : Ctl(d)'
  BY <1>1
<1> QED BY <1>2 DEF CtlInv, Ctl

LEMMA EndCtl ==
    ASSUME TypeOK, CtlInv, NEW c \in Cmds, NEW r \in {"ok", "err"}, End(c, r),
           UNCHANGED <<table, req>>, writer' \in {writer, Nobody},
           writer' = c => table = "hosts" /\ req[c].bad /\ req[c].fields # {}
    PROVE  CtlInv'
<1>1. /\ pc'[c] = "end" /\ result'[c] = r
      /\ \A d \in Cmds \ {c} : /\ pc'[d] = pc[d] /\ result'[d] = result[d]
                               /\ at'[d] = at[d] /\ todo'[d] = todo[d]
  BY DEF End, Goto, TypeOK
<1>2. Ctl(c)'
  BY <1>1, NoneFree DEF Ctl
<1> QED BY <1>1, <1>2, CtlOthers

LEMMA CtlStep == TypeOK /\ CtlInv /\ [Next]_vars => CtlInv'
<1> SUFFICES ASSUME TypeOK, CtlInv, [Next]_vars PROVE CtlInv'
  OBVIOUS
<1> USE NoneFree
<1>0. ASSUME NEW c \in Cmds PROVE Ctl(c)
  BY DEF CtlInv, Ctl
<1>1. ASSUME NEW c \in Cmds, Find(c) PROVE CtlInv'
  <2>1. CASE End(c, "err")
    BY <1>0, <1>1, <2>1, EndCtl DEF Find, Ctl
  <2>2. CASE Goto(c, "row") /\ UNCHANGED <<result, at>>
             /\ \A d \in Cmds \ {c} : todo'[d] = todo[d]
    <3>1. Ctl(c)' /\ \A d \in Cmds \ {c} : pc'[d] = pc[d]
      BY <1>0, <1>1, <2>2 DEF Find, Goto, Ctl, TypeOK
    <3> QED BY <1>1, <2>2, <3>1, CtlOthers DEF Find
  <2> QED BY <1>1, <2>1, <2>2 DEF Find, TypeOK
<1>2. ASSUME NEW c \in Cmds, NextRow(c) PROVE CtlInv'
  <2>1. CASE table = "acls" /\ req[c].bad
    <3>1. writer # c
      BY <1>0, <2>1 DEF Ctl
    <3> QED BY <1>2, <2>1, <3>1, EndCtl DEF NextRow
  <2>2. CASE ~ (table = "acls" /\ req[c].bad)
    <3>1. Ctl(c)' /\ \A d \in Cmds \ {c} : pc'[d] = pc[d] /\ at'[d] = at[d]
      BY <1>0, <1>2, <2>2 DEF NextRow, Goto, Ctl, TypeOK
    <3> QED BY <1>2, <2>2, <3>1, CtlOthers DEF NextRow
  <2> QED BY <2>1, <2>2
<1>3. ASSUME NEW c \in Cmds, UpdateFields(c) PROVE CtlInv'
  <2>1. writer' \in {writer, c} /\ (writer' = c => writer = c \/ HasUpdate(c))
    BY <1>3 DEF UpdateFields, Write
  <2>2. /\ pc[c] = "fields" /\ pc' = [pc EXCEPT ![c] = "behind"]
        /\ UNCHANGED <<table, req, result, todo, at>>
    BY <1>3 DEF UpdateFields, Goto
  <2>3. Ctl(c)'
    BY <1>0, <2>1, <2>2 DEF Ctl, TypeOK, HasUpdate
  <2>4. \A d \in Cmds \ {c} : pc'[d] = pc[d]
    BY <2>2 DEF TypeOK
  <2> QED BY <2>1, <2>2, <2>3, <2>4, CtlOthers
<1>4. ASSUME NEW c \in Cmds, BadArgument(c) PROVE CtlInv'
  BY <1>0, <1>4, EndCtl DEF BadArgument, Ctl
<1>5. ASSUME NEW c \in Cmds, RowDone(c), pc[c] \in {"behind", "assign"}, writer' \in {writer, c},
             table = "hosts" => ~ req[c].bad, UNCHANGED <<table, req, result>>
      PROVE  CtlInv'
  <2>1. \A d \in Cmds \ {c} : pc'[d] = pc[d] /\ at'[d] = at[d] /\ todo'[d] = todo[d]
    BY <1>5 DEF RowDone, Goto, TypeOK
  <2>2. Ctl(c)'
    BY <1>0, <1>5 DEF RowDone, Goto, Ctl, TypeOK
  <2> QED BY <1>5, <2>1, <2>2, CtlOthers
<1>6. ASSUME NEW c \in Cmds, NoGroups(c) PROVE CtlInv'
  BY <1>5, <1>6 DEF NoGroups
<1>7. ASSUME NEW c \in Cmds, LookUp(c) PROVE CtlInv'
  <2>1. Ctl(c)' /\ \A d \in Cmds \ {c} : pc'[d] = pc[d]
    BY <1>0, <1>7 DEF LookUp, Goto, Ctl, TypeOK
  <2> QED BY <1>7, <2>1, CtlOthers DEF LookUp
<1>8. ASSUME NEW c \in Cmds, Assign(c) PROVE CtlInv'
  BY <1>0, <1>5, <1>8 DEF Assign, Write, Ctl
<1>9. ASSUME NEW c \in Cmds, Commit(c) PROVE CtlInv'
  BY <1>9, EndCtl DEF Commit
<1>10. ASSUME NEW c \in Cmds, Rollback(c), UNCHANGED <<table, req>> PROVE CtlInv'
  BY <1>10, EndCtl DEF Rollback
<1>11. ASSUME NEW c \in Cmds, Refused(c) \/ StatementFails(c) \/ Locked(c) PROVE CtlInv'
  BY <1>10, <1>11 DEF Refused, StatementFails, Locked
<1>12. ASSUME NEW c \in Cmds, FindGroups(c) PROVE CtlInv'
  <2>1. CASE End(c, "err")
    BY <1>0, <1>12, <2>1, EndCtl DEF FindGroups, Ctl
  <2>2. CASE Goto(c, "insert") /\ UNCHANGED <<result, todo, at>>
    <3>1. Ctl(c)' /\ \A d \in Cmds \ {c} : pc'[d] = pc[d]
      BY <1>0, <1>12, <2>2 DEF FindGroups, Goto, Ctl, TypeOK
    <3> QED BY <1>12, <2>2, <3>1, CtlOthers DEF FindGroups
  <2> QED BY <1>12, <2>1, <2>2 DEF FindGroups
<1>13. ASSUME NEW c \in Cmds, Insert(c) \/ Remove(c) \/ RemoveGroup(c) PROVE CtlInv'
  BY <1>13, EndCtl DEF Insert, Remove, RemoveGroup
<1>14. CASE Stop
  <2>1. ASSUME NEW c \in Cmds PROVE Ctl(c)'
    BY <1>0, <1>14 DEF Stop, Ctl, TypeOK
  <2> QED BY <2>1 DEF CtlInv, Ctl
<1>15. CASE UNCHANGED vars
  BY <1>15 DEF vars, CtlInv
<1> QED BY <1>1, <1>2, <1>3, <1>4, <1>6, <1>7, <1>8, <1>9, <1>11, <1>12, <1>13,
           <1>14, <1>15 DEF Next, Step

LEMMA InitType == Init => TypeOK
<1> SUFFICES ASSUME Init PROVE TypeOK
  OBVIOUS
<1> PICK R \in SUBSET FirstRows, L \in SUBSET Groups :
          db = [rows |-> R, val |-> [r \in Ids |-> [f \in Fields |-> Old]], groups |-> Groups,
                link |-> [r \in Ids |-> [g \in Groups |-> IF r \in R /\ g \in L THEN Old ELSE Nobody]]]
  BY DEF Init
<1>1. db \in DBs
  BY AdminTxAssumption DEF DBs, Marks
<1>2. CmdType
  BY DEF Init, CmdType, NoneFound
<1> QED BY <1>1, <1>2 DEF Init, TypeOK, CmdType

LEMMA Control == Spec => [](TypeOK /\ CtlInv)
<1>1. TypeOK /\ CtlInv /\ [Next]_vars => (TypeOK /\ CtlInv)'
  BY TypeStep, CtlStep
<1> QED BY <1>1, InitType, InitCtl, PTL DEF Spec

\* All variables keep their types, what the holder of the lock sees is a database,
\* and without a holder it is the database.
THEOREM TypeCorrect == Spec => []TypeOK
BY Control, PTL

\* A command that is over holds the lock only after a bad argument of host update
\* behind its first write.
THEOREM LockHeldByLeaks == Spec => []OnlyLeaksHold
<1>1. TypeOK /\ CtlInv => OnlyLeaksHold
  BY DEF CtlInv, OnlyLeaksHold, TypeOK
<1> QED BY <1>1, Control, PTL

-----------------------------------------------------------------------------
(* All or nothing                                                            *)

\* Whose marks there are.
Trace(d) ==
    {c \in Cmds : \/ \E r \in Ids, f \in Fields : d.val[r][f] = c
                  \/ \E r \in Ids, g \in Groups : d.link[r][g] = c}

TraceInv ==
    \A c \in Cmds :
        /\ result[c] # "ok" => c \notin Trace(db)
        /\ result[c] # "ok" /\ writer # c => c \notin Trace(own)

LEMMA UpdatedTrace ==
    ASSUME NEW d \in DBs, NEW r \in Ids, NEW c \in Cmds
    PROVE  Trace(Updated(d, r, c)) \subseteq Trace(d) \cup {c}
<1>1. d.val \in Vals
  BY DEF DBs, Vals
<1>2. CASE r \notin d.rows
  BY <1>2 DEF Updated
<1>3. CASE r \in d.rows
  <2> DEFINE u == Updated(d, r, c)
  <2>1. /\ u.link = d.link
        /\ \A n \in Ids : u.val[n] = IF n = r
                                     THEN [f \in Fields |-> IF f \in req[c].fields THEN c ELSE d.val[n][f]]
                                     ELSE d.val[n]
    BY <1>1, <1>3 DEF Updated, DBs, Vals
  <2>2. \A n \in Ids, f \in Fields : u.val[n][f] \in {d.val[n][f], c}
    BY <2>1
  <2> HIDE DEF u
  <2>3. Trace(u) \subseteq Trace(d) \cup {c}
    BY <2>1, <2>2 DEF Trace
  <2> QED BY <2>3 DEF u
<1> QED BY <1>2, <1>3

LEMMA LinkedTrace ==
    ASSUME NEW d \in DBs, NEW r \in Ids, NEW c \in Cmds
    PROVE  Trace(Linked(d, r, c)) \subseteq Trace(d) \cup {c}
<1> DEFINE u == Linked(d, r, c)
<1>1. /\ u.val = d.val
      /\ \A n \in Ids : u.link[n] = IF n = r
                                    THEN [g \in Groups |->
                                            IF g \in found[c].out THEN Nobody
                                            ELSE IF g \in found[c].in /\ d.link[n][g] = Nobody THEN c
                                            ELSE d.link[n][g]]
                                    ELSE d.link[n]
  BY DEF Linked, DBs
<1>2. \A n \in Ids, g \in Groups : u.link[n][g] \in {d.link[n][g], c, Nobody}
  BY <1>1
<1> HIDE DEF u
<1>3. Trace(u) \subseteq Trace(d) \cup {c}
  BY <1>1, <1>2, NoneFree DEF Trace
<1> QED BY <1>3 DEF u

LEMMA InitTrace == Init => TraceInv
<1> SUFFICES ASSUME Init PROVE TraceInv
  OBVIOUS
<1> PICK R \in SUBSET FirstRows, L \in SUBSET Groups :
          db = [rows |-> R, val |-> [r \in Ids |-> [f \in Fields |-> Old]], groups |-> Groups,
                link |-> [r \in Ids |-> [g \in Groups |-> IF r \in R /\ g \in L THEN Old ELSE Nobody]]]
  BY DEF Init
<1>1. Trace(db) = {}
  BY AdminTxAssumption, NoneFree DEF Trace
<1> QED BY <1>1 DEF Init, TraceInv

\* A statement of c that waits for nobody, in its transaction.
LEMMA WriteTrace ==
    ASSUME TypeOK, TraceInv, NEW c \in Cmds, NEW d, CanWrite(c), Write(c, d),
           Trace(d) \subseteq Trace(View(c)) \cup {c}, UNCHANGED result
    PROVE  TraceInv'
<1>1. own' = d /\ writer' = c /\ db' = db
  BY DEF Write
<1>2. ASSUME NEW e \in Cmds, result[e] # "ok", e # c PROVE e \notin Trace(View(c))
  BY <1>2, NoneFree DEF TraceInv, View, CanWrite
<1> QED BY <1>1, <1>2 DEF TraceInv

\* Nobody but c ends, and c with an error: its marks are not in the database, and in
\* what it sees only as long as it holds the lock.
LEMMA EndTrace ==
    ASSUME TypeOK, CtlInv, TraceInv, NEW c \in Cmds, pc[c] # "end", End(c, "err"),
           \/ UNCHANGED <<db, own, writer>>
           \/ db' = db /\ own' = db /\ writer' = Nobody
    PROVE  TraceInv'
<1>1. result[c] # "ok" /\ \A e \in Cmds : result'[e] = IF e = c THEN "err" ELSE result[e]
  BY DEF End, TypeOK, CtlInv
<1> QED BY <1>1 DEF TraceInv

LEMMA RollbackTrace ==
    ASSUME TypeOK, CtlInv, TraceInv, NEW c \in Cmds, pc[c] # "end", Rollback(c)
    PROVE  TraceInv'
BY EndTrace DEF Rollback

\* A statement that is a transaction of its own.
LEMMA AloneTrace ==
    ASSUME TypeOK, TraceInv, NEW c \in Cmds, End(c, "ok"), own' = db',
           Trace(db') \subseteq Trace(db) \cup {c}
    PROVE  TraceInv'
<1>1. \A e \in Cmds : result'[e] = IF e = c THEN "ok" ELSE result[e]
  BY DEF End, TypeOK
<1> QED BY <1>1 DEF TraceInv

LEMMA TraceStep == TypeOK /\ CtlInv /\ TraceInv /\ [Next]_vars => TraceInv'
<1> SUFFICES ASSUME TypeOK, CtlInv, TraceInv, [Next]_vars PROVE TraceInv'
  OBVIOUS
<1>0. /\ db \in DBs /\ own \in DBs
      /\ \A c \in Cmds : pc[c] \in {"fields", "behind", "assign"} => at[c] \in Ids
  BY DEF TypeOK, CtlInv
<1>1. ASSUME UNCHANGED <<db, own, writer, result>> PROVE TraceInv'
  BY <1>1 DEF TraceInv
<1>2. ASSUME NEW c \in Cmds, Find(c) \/ NextRow(c) \/ FindGroups(c) PROVE TraceInv'
  <2>1. pc[c] # "end" /\ UNCHANGED <<db, own, writer>> /\ (End(c, "err") \/ UNCHANGED result)
    BY <1>2 DEF Find, NextRow, FindGroups
  <2> QED BY <1>1, <2>1, EndTrace
<1>3. ASSUME NEW c \in Cmds, UpdateFields(c) PROVE TraceInv'
  <2>1. Trace(Updated(View(c), at[c], c)) \subseteq Trace(View(c)) \cup {c}
    BY <1>0, <1>3, ViewType, UpdatedTrace DEF UpdateFields
  <2> QED BY <1>1, <1>3, <2>1, WriteTrace DEF UpdateFields
<1>4. ASSUME NEW c \in Cmds, BadArgument(c) PROVE TraceInv'
  BY <1>4, EndTrace DEF BadArgument
<1>5. ASSUME NEW c \in Cmds, NoGroups(c) \/ LookUp(c) PROVE TraceInv'
  BY <1>1, <1>5 DEF NoGroups, LookUp
<1>6. ASSUME NEW c \in Cmds, Assign(c) PROVE TraceInv'
  <2>1. Trace(Linked(View(c), at[c], c)) \subseteq Trace(View(c)) \cup {c}
    BY <1>0, <1>6, ViewType, LinkedTrace DEF Assign
  <2> QED BY <1>6, <2>1, WriteTrace DEF Assign
<1>7. ASSUME NEW c \in Cmds, Commit(c) PROVE TraceInv'
  <2>1. \A e \in Cmds : result'[e] = IF e = c THEN "ok" ELSE result[e]
    BY <1>7 DEF Commit, End, TypeOK
  <2>2. CASE writer = c
    <3>1. db' = own /\ own' = own /\ writer' = Nobody
      BY <1>7, <2>2 DEF Commit
    <3> QED BY <2>1, <2>2, <3>1 DEF TraceInv
  <2>3. CASE writer # c
    <3>1. UNCHANGED <<db, own, writer>>
      BY <1>7, <2>3 DEF Commit
    <3> QED BY <2>1, <3>1 DEF TraceInv
  <2> QED BY <2>2, <2>3
<1>8. ASSUME NEW c \in Cmds, Refused(c) \/ StatementFails(c) \/ Locked(c) PROVE TraceInv'
  <2>1. pc[c] # "end" /\ Rollback(c)
    BY <1>8 DEF Refused, StatementFails, Locked, AtWrite
  <2> QED BY <2>1, RollbackTrace
<1>9. ASSUME NEW c \in Cmds, Insert(c) PROVE TraceInv'
  <2> PICK r \in Fresh(db.rows) :
          db' = [rows |-> db.rows \cup {r}, val |-> [db.val EXCEPT ![r] = [f \in Fields |-> c]],
                 groups |-> db.groups \cup found[c].in,
                 link |-> [db.link EXCEPT ![r] = [g \in Groups |->
                     IF g \in found[c].in /\ @[g] = Nobody THEN c ELSE @[g]]]]
    BY <1>9 DEF Insert
  <2>1. r \in Ids /\ db.val \in Vals /\ db.link \in Links
    BY <1>0 DEF Fresh, DBs, Vals, Links
  <2>2. \A n \in Ids : /\ \A f \in Fields : db'.val[n][f] \in {db.val[n][f], c}
                       /\ \A g \in Groups : db'.link[n][g] \in {db.link[n][g], c}
    BY <2>1 DEF Vals, Links
  <2>3. Trace(db') \subseteq Trace(db) \cup {c}
    BY <2>2 DEF Trace
  <2> QED BY <1>9, <2>3, AloneTrace DEF Insert
<1>10. ASSUME NEW c \in Cmds, Remove(c) PROVE TraceInv'
  <2> DEFINE S == ByIdentifiers(req[c], db)
  <2>1. db'.link = db.link
        /\ db'.val = [r \in Ids |-> IF r \in S THEN [f \in Fields |-> Old] ELSE db.val[r]]
    BY <1>0, <1>10 DEF Remove, DBs
  <2>2. \A n \in Ids, f \in Fields : db'.val[n][f] \in {db.val[n][f], Old}
    <3> HIDE DEF S
    <3> QED BY <2>1
  <2>3. Trace(db') \subseteq Trace(db)
    BY <2>1, <2>2, AdminTxAssumption DEF Trace
  <2> QED BY <1>10, <2>3, AloneTrace DEF Remove
<1>11. ASSUME NEW c \in Cmds, RemoveGroup(c) PROVE TraceInv'
  <2>1. db'.val = db.val /\ db'.link = db.link
    BY <1>0, <1>11 DEF RemoveGroup, DBs
  <2>2. Trace(db') = Trace(db)
    BY <2>1 DEF Trace
  <2> QED BY <1>11, <2>2, AloneTrace DEF RemoveGroup
<1>12. CASE Stop
  <2>1. db' = db /\ own' = db
        /\ \A e \in Cmds : result'[e] \in {result[e], "gone"} /\ (result[e] = "ok" => result'[e] = "ok")
    BY <1>12 DEF Stop, CtlInv, TypeOK
  <2> QED BY <2>1 DEF TraceInv
<1>13. CASE UNCHANGED vars
  BY <1>1, <1>13 DEF vars
<1> QED BY <1>2, <1>3, <1>4, <1>5, <1>6, <1>7, <1>8, <1>9, <1>10, <1>11, <1>12, <1>13 DEF Next, Step

\* Of a command that has not succeeded there is nothing in the database.
THEOREM AllOrNothing == Spec => []FailedLeavesNoTrace
<1>1. TraceInv => FailedLeavesNoTrace
  BY DEF TraceInv, FailedLeavesNoTrace, Trace
<1>2. TypeOK /\ CtlInv /\ TraceInv /\ [Next]_vars => TraceInv'
  BY TraceStep
<1> QED BY <1>1, <1>2, InitTrace, Control, PTL DEF Spec

-----------------------------------------------------------------------------
(* The work of a command                                                     *)

\* The rows c has done, and those whose fields it has written.
RowsOf(c)   == picked[c] \ todo[c]
FieldsOf(c) == RowsOf(c) \cup IF pc[c] \in {"behind", "assign"} THEN {at[c]} ELSE {}

\* d with the fields of the rows F and the links of G and H.
Worked(d, c, F, G, H) ==
    [rows   |-> d.rows,
     val    |-> [r \in Ids |-> [f \in Fields |->
                    IF r \in F \cap d.rows /\ f \in req[c].fields THEN c ELSE d.val[r][f]]],
     groups |-> d.groups \cup UNION {G[r] : r \in Ids},
     link   |-> [r \in Ids |-> [g \in Groups |->
                    IF g \in H[r] THEN Nobody
                    ELSE IF g \in G[r] /\ d.link[r][g] = Nobody THEN c
                    ELSE d.link[r][g]]]]

\* The groups every row gets and loses, as long as nobody else writes.
In(c)  == IF table = "groups" THEN {} ELSE req[c].assign \cap db.groups
Out(c) == IF table = "groups" THEN {} ELSE req[c].unassign \cap db.groups

Gains(c)  == [Ids -> SUBSET req[c].assign]
Losses(c) == [Ids -> SUBSET req[c].unassign]

Work(c, G, H) ==
    /\ own = Worked(db, c, FieldsOf(c), G, H)
    /\ \A r \in Ids \ RowsOf(c) : G[r] = {} /\ H[r] = {}
    /\ HasUpdate(c) => \A r \in RowsOf(c) : G[r] = In(c) /\ H[r] = Out(c)

Working == {"row", "fields", "behind", "assign"}

WorkOf(c) ==
    /\ found[c].in \subseteq req[c].assign /\ found[c].out \subseteq req[c].unassign
    /\ pc[c] \in Working => IF writer = c
                            THEN \E G \in Gains(c), H \in Losses(c) : Work(c, G, H)
                            ELSE FieldsOf(c) = {} \/ ~ HasUpdate(c)
    /\ pc[c] = "assign" /\ HasUpdate(c) => found[c] = [in |-> In(c), out |-> Out(c)]
    /\ pc[c] = "insert" => req[c].kind = "create"

WorkInv == \A c \in Cmds : WorkOf(c)

\* Nothing done, nothing changed.
LEMMA WorkedNone ==
    ASSUME NEW d \in DBs, NEW c \in Cmds, NEW F, F = {} \/ req[c].fields = {}
    PROVE  Worked(d, c, F, [r \in Ids |-> {}], [r \in Ids |-> {}]) = d
<1> DEFINE w == Worked(d, c, F, [r \in Ids |-> {}], [r \in Ids |-> {}])
<1>1. w.rows = d.rows /\ w.groups = d.groups
  BY DEF Worked
<1>2. w.val = d.val /\ w.link = d.link
  BY DEF Worked, DBs
<1>3. d = [rows |-> d.rows, val |-> d.val, groups |-> d.groups, link |-> d.link]
  BY DEF DBs
<1>4. w = [rows |-> w.rows, val |-> w.val, groups |-> w.groups, link |-> w.link]
  BY DEF Worked
<1> QED BY <1>1, <1>2, <1>3, <1>4

\* The fields of one more row.
LEMMA UpdatedWorked ==
    ASSUME NEW d \in DBs, NEW c \in Cmds, NEW F, NEW r \in Ids, NEW G \in Gains(c), NEW H \in Losses(c)
    PROVE  Updated(Worked(d, c, F, G, H), r, c) = Worked(d, c, F \cup {r}, G, H)
<1> DEFINE w == Worked(d, c, F, G, H)
           u == Updated(w, r, c)
           x == Worked(d, c, F \cup {r}, G, H)
<1>1. CASE r \notin d.rows
  <2>1. u = w
    BY <1>1 DEF Updated, Worked
  <2>2. w.val = x.val
    BY <1>1 DEF Worked
  <2> QED BY <2>1, <2>2 DEF Worked
<1>2. CASE r \in d.rows
  <2>1. /\ u = [rows |-> w.rows, val |-> u.val, groups |-> w.groups, link |-> w.link]
        /\ u.val = [n \in Ids |-> IF n = r
                                  THEN [f \in Fields |-> IF f \in req[c].fields THEN c ELSE w.val[r][f]]
                                  ELSE w.val[n]]
    BY <1>2 DEF Updated, Worked
  <2>2. w.val = [n \in Ids |-> [f \in Fields |->
                    IF n \in F \cap d.rows /\ f \in req[c].fields THEN c ELSE d.val[n][f]]]
    BY DEF Worked
  <2>3. x.val = [n \in Ids |-> [f \in Fields |->
                    IF n \in (F \cup {r}) \cap d.rows /\ f \in req[c].fields THEN c ELSE d.val[n][f]]]
    BY DEF Worked
  <2>4. u.val = x.val
    <3> HIDE DEF u, w, x
    <3>1. ASSUME NEW n \in Ids PROVE u.val[n] = x.val[n]
      <4>1. w.val[n] = [f \in Fields |->
                IF n \in F \cap d.rows /\ f \in req[c].fields THEN c ELSE d.val[n][f]]
        BY ONLY <2>2, n \in Ids
      <4>2. x.val[n] = [f \in Fields |->
                IF n \in (F \cup {r}) \cap d.rows /\ f \in req[c].fields THEN c ELSE d.val[n][f]]
        BY ONLY <2>3, n \in Ids
      <4>3. CASE n = r
        <5>1. u.val[n] = [f \in Fields |-> IF f \in req[c].fields THEN c ELSE w.val[n][f]]
          BY ONLY <2>1, <4>3, n \in Ids
        <5>2. \A f \in Fields : f \notin req[c].fields => w.val[n][f] = d.val[n][f]
          BY ONLY <4>1
        <5>3. x.val[n] = [f \in Fields |-> IF f \in req[c].fields THEN c ELSE d.val[n][f]]
          BY ONLY <4>2, <4>3, <1>2
        <5> QED BY ONLY <5>1, <5>2, <5>3
      <4>4. CASE n # r
        <5>1. u.val[n] = w.val[n]
          BY ONLY <2>1, <4>4, n \in Ids
        <5> QED BY ONLY <5>1, <4>1, <4>2, <4>4
      <4> QED BY <4>3, <4>4
    <3>2. /\ u.val = [n \in Ids |-> u.val[n]]
          /\ x.val = [n \in Ids |-> x.val[n]]
      BY ONLY <2>1, <2>3
    <3> QED BY ONLY <3>1, <3>2
  <2>5. x = [rows |-> w.rows, val |-> x.val, groups |-> w.groups, link |-> w.link]
    BY DEF Worked
  <2> QED BY <2>1, <2>4, <2>5
<1> QED BY <1>1, <1>2

\* The links of one more row.
LEMMA LinkedWorked ==
    ASSUME NEW d \in DBs, NEW c \in Cmds, NEW F, NEW r \in Ids, NEW G \in Gains(c), NEW H \in Losses(c),
           G[r] = {}, H[r] = {}
    PROVE  Linked(Worked(d, c, F, G, H), r, c)
               = Worked(d, c, F, [G EXCEPT ![r] = found[c].in], [H EXCEPT ![r] = found[c].out])
<1> DEFINE w  == Worked(d, c, F, G, H)
           u  == Linked(w, r, c)
           GG == [G EXCEPT ![r] = found[c].in]
           HH == [H EXCEPT ![r] = found[c].out]
           x  == Worked(d, c, F, GG, HH)
<1>0. /\ \A n \in Ids : GG[n] = IF n = r THEN found[c].in ELSE G[n]
      /\ \A n \in Ids : HH[n] = IF n = r THEN found[c].out ELSE H[n]
  BY DEF Gains, Losses
<1>1. /\ u = [rows |-> w.rows, val |-> w.val, groups |-> w.groups \cup found[c].in, link |-> u.link]
      /\ u.link = [n \in Ids |-> IF n = r
                                 THEN [g \in Groups |->
                                          IF g \in found[c].out THEN Nobody
                                          ELSE IF g \in found[c].in /\ w.link[r][g] = Nobody THEN c
                                          ELSE w.link[r][g]]
                                 ELSE w.link[n]]
  <2>1. w = [rows |-> w.rows, val |-> w.val, groups |-> w.groups, link |-> w.link]
        /\ w.link = [n \in Ids |-> w.link[n]]
    BY DEF Worked
  <2> DEFINE v == [g \in Groups |->
                      IF g \in found[c].out THEN Nobody
                      ELSE IF g \in found[c].in /\ w.link[r][g] = Nobody THEN c
                      ELSE w.link[r][g]]
  <2>2. u = [w EXCEPT !.groups = w.groups \cup found[c].in, !.link[r] = v]
    BY DEF Linked
  <2> HIDE DEF w, u, v
  <2>3. u = [rows |-> w.rows, val |-> w.val, groups |-> w.groups \cup found[c].in,
             link |-> [w.link EXCEPT ![r] = v]]
    BY <2>1, <2>2
  <2>4. u.link = [n \in Ids |-> IF n = r THEN v ELSE w.link[n]]
    BY <2>1, <2>3
  <2> QED BY <2>3, <2>4 DEF v
<1>2. w.link = [n \in Ids |-> [g \in Groups |->
                   IF g \in H[n] THEN Nobody
                   ELSE IF g \in G[n] /\ d.link[n][g] = Nobody THEN c ELSE d.link[n][g]]]
  BY DEF Worked
<1>3. /\ x = [rows |-> w.rows, val |-> w.val, groups |-> x.groups, link |-> x.link]
      /\ x.groups = d.groups \cup UNION {GG[n] : n \in Ids}
      /\ w.groups = d.groups \cup UNION {G[n] : n \in Ids}
      /\ x.link = [n \in Ids |-> [g \in Groups |->
                      IF g \in HH[n] THEN Nobody
                      ELSE IF g \in GG[n] /\ d.link[n][g] = Nobody THEN c ELSE d.link[n][g]]]
  BY DEF Worked
<1> HIDE DEF w, u, x, GG, HH
<1>4. UNION {GG[n] : n \in Ids} = (UNION {G[n] : n \in Ids}) \cup found[c].in
  BY <1>0
<1>5. u.link = x.link
  <2>1. ASSUME NEW n \in Ids PROVE u.link[n] = x.link[n]
    <3>1. w.link[n] = [g \in Groups |->
                         IF g \in H[n] THEN Nobody
                         ELSE IF g \in G[n] /\ d.link[n][g] = Nobody THEN c
                         ELSE d.link[n][g]]
      BY ONLY <1>2, n \in Ids
    <3>2. x.link[n] = [g \in Groups |->
                         IF g \in HH[n] THEN Nobody
                         ELSE IF g \in GG[n] /\ d.link[n][g] = Nobody THEN c
                         ELSE d.link[n][g]]
      BY ONLY <1>3, n \in Ids
    <3>3. CASE n = r
      <4>1. u.link[n] = [g \in Groups |->
                           IF g \in found[c].out THEN Nobody
                           ELSE IF g \in found[c].in /\ w.link[n][g] = Nobody THEN c
                           ELSE w.link[n][g]]
        BY ONLY <1>1, <3>3, n \in Ids
      <4>2. \A g \in Groups : w.link[n][g] = d.link[n][g]
        BY ONLY <3>1, <3>3, G[r] = {}, H[r] = {}
      <4>3. GG[n] = found[c].in /\ HH[n] = found[c].out
        BY ONLY <1>0, <3>3, n \in Ids
      <4> QED BY ONLY <3>2, <4>1, <4>2, <4>3
    <3>4. CASE n # r
      <4>1. GG[n] = G[n] /\ HH[n] = H[n]
        BY ONLY <1>0, <3>4, n \in Ids
      <4>2. u.link[n] = w.link[n]
        BY ONLY <1>1, <3>4, n \in Ids
      <4> QED BY ONLY <3>1, <3>2, <4>1, <4>2
    <3> QED BY <3>3, <3>4
  <2>2. /\ DOMAIN u.link = Ids /\ u.link = [n \in Ids |-> u.link[n]]
        /\ DOMAIN x.link = Ids /\ x.link = [n \in Ids |-> x.link[n]]
    BY ONLY <1>1, <1>3
  <2> QED BY ONLY <2>1, <2>2
<1>6. u = x
  BY <1>1, <1>3, <1>4, <1>5
<1> QED BY <1>6 DEF u, x, w, GG, HH

\* Lock or not, what c sees is the database with its work.
LEMMA Seen ==
    ASSUME TypeOK, NEW c \in Cmds, WorkOf(c), pc[c] \in Working
    PROVE  \E G \in Gains(c), H \in Losses(c) :
               /\ View(c) = Worked(db, c, FieldsOf(c), G, H)
               /\ \A r \in Ids \ RowsOf(c) : G[r] = {} /\ H[r] = {}
               /\ HasUpdate(c) => \A r \in RowsOf(c) : G[r] = In(c) /\ H[r] = Out(c)
<1>1. CASE writer = c
  BY <1>1 DEF WorkOf, Work, View
<1>2. CASE writer # c
  <2> DEFINE N == [r \in Ids |-> {}]
  <2>1. N \in Gains(c) /\ N \in Losses(c) /\ \A r \in Ids : N[r] = {}
    BY DEF Gains, Losses
  <2>2. FieldsOf(c) = {} \/ ~ HasUpdate(c)
    BY <1>2 DEF WorkOf
  <2>3. db = Worked(db, c, FieldsOf(c), N, N)
    BY <2>2, WorkedNone DEF HasUpdate, TypeOK
  <2>4. HasUpdate(c) => \A r \in RowsOf(c) : N[r] = In(c) /\ N[r] = Out(c)
    BY <2>2 DEF FieldsOf
  <2> HIDE DEF N
  <2> QED BY <1>2, <2>1, <2>3, <2>4 DEF View
<1> QED BY <1>1, <1>2

\* The others' work stays what it is: nobody writes the database or takes the lock
\* while one of them holds it.
LEMMA WorkOthers ==
    ASSUME TypeOK, CtlInv, WorkInv, NEW c \in Cmds, WorkOf(c)', UNCHANGED <<table, req>>,
           writer' \in {writer, c, Nobody},
           writer \in Cmds \ {c} => UNCHANGED <<db, own, writer>>,
           \A d \in Cmds \ {c} : /\ pc'[d] = pc[d] /\ picked'[d] = picked[d] /\ todo'[d] = todo[d]
                                 /\ at'[d] = at[d] /\ found'[d] = found[d]
    PROVE  WorkInv'
<1>1. ASSUME NEW d \in Cmds \ {c} PROVE WorkOf(d)'
  <2>0. WorkOf(d) /\ d # Nobody
    BY NoneFree DEF WorkInv
  <2>1. /\ RowsOf(d)' = RowsOf(d) /\ FieldsOf(d)' = FieldsOf(d) /\ HasUpdate(d)' = HasUpdate(d)
        /\ Gains(d)' = Gains(d) /\ Losses(d)' = Losses(d)
    BY DEF RowsOf, FieldsOf, HasUpdate, Gains, Losses
  <2>2. CASE writer = d
    <3>1. UNCHANGED <<db, own, writer>>
      BY <2>2
    <3>2. In(d)' = In(d) /\ Out(d)' = Out(d)
      BY <3>1 DEF In, Out
    <3>3. ASSUME NEW G \in Gains(d), NEW H \in Losses(d), Work(d, G, H) PROVE Work(d, G, H)'
      BY <2>1, <3>1, <3>2, <3>3 DEF Work, Worked
    <3> QED BY <2>0, <2>1, <2>2, <3>1, <3>2, <3>3 DEF WorkOf
  <2>3. CASE writer # d
    <3>1. writer' # d
      BY <2>0, <2>3
    <3>2. pc[d] = "assign" /\ HasUpdate(d) => FALSE
      BY <2>0, <2>3 DEF WorkOf, Working, FieldsOf
    <3> QED BY <2>0, <2>1, <2>3, <3>1, <3>2 DEF WorkOf
  <2> QED BY <2>2, <2>3
<1> QED BY <1>1 DEF WorkInv

LEMMA EndWork ==
    ASSUME TypeOK, CtlInv, WorkInv, NEW c \in Cmds, NEW r \in {"ok", "err"}, End(c, r),
           UNCHANGED <<table, req>>, writer' \in {writer, Nobody},
           writer \in Cmds \ {c} => UNCHANGED <<db, own, writer>>
    PROVE  WorkInv'
<1>1. /\ pc'[c] = "end" /\ found'[c] = NoneFound
      /\ \A d \in Cmds \ {c} : /\ pc'[d] = pc[d] /\ picked'[d] = picked[d] /\ todo'[d] = todo[d]
                               /\ at'[d] = at[d] /\ found'[d] = found[d]
  BY DEF End, Goto, TypeOK
<1>2. WorkOf(c)'
  BY <1>1 DEF WorkOf, NoneFound, Working
<1> QED BY <1>1, <1>2, WorkOthers

\* A step of c that changes neither what it sees nor its work.
LEMMA KeepsWork ==
    ASSUME TypeOK, NEW c \in Cmds, WorkOf(c), UNCHANGED <<table, req, db, own, writer>>,
           pc[c] \in Working, pc'[c] \in Working,
           RowsOf(c)' = RowsOf(c), FieldsOf(c)' = FieldsOf(c),
           found'[c].in \subseteq req[c].assign, found'[c].out \subseteq req[c].unassign,
           pc'[c] = "assign" /\ HasUpdate(c) => found'[c] = [in |-> In(c), out |-> Out(c)]
    PROVE  WorkOf(c)'
<1>1. /\ HasUpdate(c)' = HasUpdate(c) /\ In(c)' = In(c) /\ Out(c)' = Out(c)
      /\ Gains(c)' = Gains(c) /\ Losses(c)' = Losses(c)
  BY DEF HasUpdate, In, Out, Gains, Losses
<1>2. ASSUME NEW G \in Gains(c), NEW H \in Losses(c), Work(c, G, H) PROVE Work(c, G, H)'
  BY <1>1, <1>2 DEF Work, Worked
<1>3. writer = c => \E G \in Gains(c), H \in Losses(c) : Work(c, G, H)'
  BY <1>2 DEF WorkOf
<1>4. writer # c => FieldsOf(c) = {} \/ ~ HasUpdate(c)
  BY DEF WorkOf
<1> QED BY <1>1, <1>3, <1>4 DEF WorkOf, Working

LEMMA FindWork ==
    ASSUME TypeOK, CtlInv, WorkInv, NEW c \in Cmds, Find(c) \/ NextRow(c) \/ FindGroups(c) \/ LookUp(c)
    PROVE  WorkInv'
<1> USE NoneFree
<1>0. WorkOf(c) /\ Ctl(c)
  BY DEF WorkInv, CtlInv, Ctl
<1>1. CASE Find(c)
  <2>1. CASE End(c, "err")
    BY <1>1, <2>1, EndWork DEF Find
  <2>2. CASE /\ picked' = [picked EXCEPT ![c] = ByIdentifiers(req[c], db)]
             /\ todo' = [todo EXCEPT ![c] = ByIdentifiers(req[c], db)]
             /\ Goto(c, "row")
             /\ UNCHANGED <<result, at, found>>
    <3>1. /\ pc'[c] = "row" /\ found'[c] = found[c] /\ picked'[c] = todo'[c]
          /\ \A d \in Cmds \ {c} : /\ pc'[d] = pc[d] /\ picked'[d] = picked[d] /\ todo'[d] = todo[d]
                                   /\ at'[d] = at[d] /\ found'[d] = found[d]
          /\ UNCHANGED <<table, req, db, own, writer>>
      BY <1>1, <2>2 DEF Find, Goto, TypeOK
    <3>2. FieldsOf(c)' = {} /\ writer' # c
      BY <1>0, <1>1, <3>1 DEF FieldsOf, RowsOf, Ctl, Find
    <3>3. WorkOf(c)'
      BY <1>0, <3>1, <3>2 DEF WorkOf
    <3> QED BY <3>1, <3>3, WorkOthers
  <2> QED BY <1>1, <2>1, <2>2 DEF Find
<1>2. CASE NextRow(c)
  <2>1. CASE End(c, "err")
    BY <1>2, <2>1, EndWork DEF NextRow
  <2>2. CASE /\ \E r \in todo[c] : at' = [at EXCEPT ![c] = r]
             /\ Goto(c, "fields")
             /\ UNCHANGED <<result, picked, todo, found>>
    <3>1. /\ pc[c] = "row" /\ pc'[c] = "fields" /\ found'[c] = found[c]
          /\ picked'[c] = picked[c] /\ todo'[c] = todo[c]
          /\ \A d \in Cmds \ {c} : /\ pc'[d] = pc[d] /\ picked'[d] = picked[d] /\ todo'[d] = todo[d]
                                   /\ at'[d] = at[d] /\ found'[d] = found[d]
          /\ UNCHANGED <<table, req, db, own, writer>>
      BY <1>2, <2>2 DEF NextRow, Goto, TypeOK
    <3>2. RowsOf(c)' = RowsOf(c) /\ FieldsOf(c)' = FieldsOf(c)
      BY <3>1 DEF FieldsOf, RowsOf
    <3>3. WorkOf(c)'
      BY <1>0, <3>1, <3>2, KeepsWork DEF WorkOf, Working
    <3> QED BY <3>1, <3>3, WorkOthers
  <2> QED BY <1>2, <2>1, <2>2 DEF NextRow
<1>3. CASE FindGroups(c)
  <2>1. CASE End(c, "err")
    BY <1>3, <2>1, EndWork DEF FindGroups
  <2>2. CASE /\ found' = [found EXCEPT ![c].in = Asked(c)]
             /\ Goto(c, "insert")
             /\ UNCHANGED <<result, picked, todo, at>>
    <3>1. /\ pc'[c] = "insert" /\ found'[c].in = Asked(c) /\ found'[c].out = found[c].out
          /\ \A d \in Cmds \ {c} : /\ pc'[d] = pc[d] /\ picked'[d] = picked[d] /\ todo'[d] = todo[d]
                                   /\ at'[d] = at[d] /\ found'[d] = found[d]
          /\ UNCHANGED <<table, req, db, own, writer>>
      BY <1>3, <2>2 DEF FindGroups, Goto, TypeOK
    <3>2. WorkOf(c)'
      BY <1>0, <1>3, <3>1 DEF WorkOf, Working, Asked, FindGroups
    <3> QED BY <3>1, <3>2, WorkOthers
  <2> QED BY <1>3, <2>1, <2>2 DEF FindGroups
<1>4. CASE LookUp(c)
  <2> DEFINE w == [in |-> req[c].assign \cap db.groups, out |-> req[c].unassign \cap db.groups]
  <2>1. found' = [found EXCEPT ![c] = w]
    BY <1>4 DEF LookUp
  <2>2. w.in \subseteq req[c].assign /\ w.out \subseteq req[c].unassign /\ w = [in |-> In(c), out |-> Out(c)]
    BY <1>4 DEF LookUp, In, Out
  <2> HIDE DEF w
  <2>3. /\ pc[c] = "behind" /\ pc'[c] = "assign" /\ found'[c] = w
        /\ picked'[c] = picked[c] /\ todo'[c] = todo[c] /\ at'[c] = at[c]
        /\ \A d \in Cmds \ {c} : /\ pc'[d] = pc[d] /\ picked'[d] = picked[d] /\ todo'[d] = todo[d]
                                 /\ at'[d] = at[d] /\ found'[d] = found[d]
        /\ UNCHANGED <<table, req, db, own, writer>>
    BY <1>4, <2>1 DEF LookUp, Goto, TypeOK
  <2>4. RowsOf(c)' = RowsOf(c) /\ FieldsOf(c)' = FieldsOf(c)
    BY <2>3 DEF FieldsOf, RowsOf
  <2>5. WorkOf(c)'
    BY <1>0, <2>2, <2>3, <2>4, KeepsWork DEF Working
  <2> QED BY <2>3, <2>5, WorkOthers
<1> QED BY <1>1, <1>2, <1>3, <1>4

LEMMA FieldsWork ==
    ASSUME TypeOK, CtlInv, WorkInv, NEW c \in Cmds, UpdateFields(c)
    PROVE  WorkInv'
<1>0. /\ WorkOf(c) /\ pc[c] = "fields" /\ pc[c] \in Working /\ at[c] \in Ids
      /\ db \in DBs /\ pc'[c] = "behind" /\ pc'[c] \in Working
      /\ UNCHANGED <<table, req, db, result, picked, todo, at, found>>
  BY DEF WorkInv, CtlInv, UpdateFields, Goto, Write, Working, TypeOK
<1>1. \A d \in Cmds \ {c} : pc'[d] = pc[d]
  BY DEF UpdateFields, Goto, TypeOK
<1>2. RowsOf(c)' = RowsOf(c) /\ FieldsOf(c)' = FieldsOf(c) \cup {at[c]}
  BY <1>0 DEF RowsOf, FieldsOf
<1>3. /\ HasUpdate(c)' = HasUpdate(c) /\ In(c)' = In(c) /\ Out(c)' = Out(c)
      /\ Gains(c)' = Gains(c) /\ Losses(c)' = Losses(c)
  BY <1>0 DEF HasUpdate, In, Out, Gains, Losses
<1> PICK G \in Gains(c), H \in Losses(c) :
        /\ View(c) = Worked(db, c, FieldsOf(c), G, H)
        /\ \A r \in Ids \ RowsOf(c) : G[r] = {} /\ H[r] = {}
        /\ HasUpdate(c) => \A r \in RowsOf(c) : G[r] = In(c) /\ H[r] = Out(c)
  BY <1>0, Seen
<1>4. Worked(db, c, FieldsOf(c) \cup {at[c]}, G, H)'
          = Worked(db, c, FieldsOf(c) \cup {at[c]}, G, H)
  BY <1>0, <1>2 DEF Worked
<1>5. WorkOf(c)'
  <2>1. CASE HasUpdate(c)
    <3>1. own' = Worked(db, c, FieldsOf(c) \cup {at[c]}, G, H) /\ writer' = c
      BY <1>0, <2>1, UpdatedWorked DEF UpdateFields, Write
    <3>2. Work(c, G, H)'
      BY <1>0, <1>2, <1>3, <3>1 DEF Work, Worked
    <3>3. \E GG \in Gains(c)', HH \in Losses(c)' : Work(c, GG, HH)'
      BY <1>3, <3>2
    <3> QED BY <1>0, <1>3, <3>1, <3>3 DEF WorkOf
  <2>2. CASE ~ HasUpdate(c)
    <3>1. UNCHANGED <<own, writer>>
      BY <2>2 DEF UpdateFields
    <3>2. CASE writer = c
      <4>1. own' = Worked(db, c, FieldsOf(c) \cup {at[c]}, G, H)
        BY <2>2, <3>1, <3>2 DEF View, Worked, HasUpdate
      <4>2. Work(c, G, H)'
        BY <1>0, <1>2, <1>3, <4>1 DEF Work, Worked
      <4>3. \E GG \in Gains(c)', HH \in Losses(c)' : Work(c, GG, HH)'
        BY <1>3, <4>2
      <4> QED BY <1>0, <1>3, <3>1, <3>2, <4>3 DEF WorkOf
    <3>3. CASE writer # c
      BY <1>0, <1>3, <2>2, <3>1, <3>3 DEF WorkOf
    <3> QED BY <3>2, <3>3
  <2> QED BY <2>1, <2>2
<1>6. writer' \in {writer, c} /\ (writer \in Cmds \ {c} => UNCHANGED <<db, own, writer>>)
  BY NoneFree DEF UpdateFields, Write, CanWrite
<1> QED BY <1>0, <1>1, <1>5, <1>6, WorkOthers

LEMMA RowDoneFrame ==
    ASSUME TypeOK, CtlInv, NEW c \in Cmds, RowDone(c), pc[c] \in {"behind", "assign"}, UNCHANGED picked
    PROVE  /\ at[c] \in Ids /\ at[c] \notin RowsOf(c)
           /\ pc'[c] = "row" /\ found'[c] = NoneFound
           /\ RowsOf(c)' = RowsOf(c) \cup {at[c]} /\ FieldsOf(c)' = FieldsOf(c)
           /\ \A d \in Cmds \ {c} : /\ pc'[d] = pc[d] /\ picked'[d] = picked[d] /\ todo'[d] = todo[d]
                                    /\ at'[d] = at[d] /\ found'[d] = found[d]
<1>1. at[c] \in todo[c] /\ todo[c] \subseteq picked[c] /\ picked[c] \subseteq Ids
  BY DEF CtlInv, TypeOK
<1>2. /\ pc'[c] = "row" /\ found'[c] = NoneFound /\ todo'[c] = todo[c] \ {at[c]}
      /\ \A d \in Cmds \ {c} : /\ pc'[d] = pc[d] /\ picked'[d] = picked[d] /\ todo'[d] = todo[d]
                               /\ at'[d] = at[d] /\ found'[d] = found[d]
  BY DEF RowDone, Goto, TypeOK
<1> QED BY <1>1, <1>2 DEF RowsOf, FieldsOf

LEMMA RowWork ==
    ASSUME TypeOK, CtlInv, WorkInv, NEW c \in Cmds, NoGroups(c) \/ Assign(c)
    PROVE  WorkInv'
<1>0. /\ WorkOf(c) /\ pc[c] \in {"behind", "assign"} /\ pc[c] \in Working /\ db \in DBs
      /\ RowDone(c) /\ UNCHANGED <<table, req, db, result, picked>>
  BY DEF WorkInv, NoGroups, Assign, Write, Working, TypeOK
<1>1. /\ at[c] \in Ids /\ at[c] \notin RowsOf(c)
      /\ pc'[c] = "row" /\ found'[c] = NoneFound
      /\ RowsOf(c)' = RowsOf(c) \cup {at[c]} /\ FieldsOf(c)' = FieldsOf(c)
      /\ \A d \in Cmds \ {c} : /\ pc'[d] = pc[d] /\ picked'[d] = picked[d] /\ todo'[d] = todo[d]
                               /\ at'[d] = at[d] /\ found'[d] = found[d]
  BY <1>0, RowDoneFrame
<1>2. /\ HasUpdate(c)' = HasUpdate(c) /\ In(c)' = In(c) /\ Out(c)' = Out(c)
      /\ Gains(c)' = Gains(c) /\ Losses(c)' = Losses(c)
  BY <1>0 DEF HasUpdate, In, Out, Gains, Losses
<1>3. at[c] \in FieldsOf(c)
  BY <1>0 DEF FieldsOf
<1> PICK G \in Gains(c), H \in Losses(c) :
        /\ View(c) = Worked(db, c, FieldsOf(c), G, H)
        /\ \A r \in Ids \ RowsOf(c) : G[r] = {} /\ H[r] = {}
        /\ HasUpdate(c) => \A r \in RowsOf(c) : G[r] = In(c) /\ H[r] = Out(c)
  BY <1>0, Seen
<1>4. WorkOf(c)'
  <2>1. CASE NoGroups(c) /\ writer = c
    <3>1. table = "groups" /\ UNCHANGED <<own, writer>>
      BY <2>1 DEF NoGroups
    <3>2. In(c) = {} /\ Out(c) = {} /\ own = Worked(db, c, FieldsOf(c), G, H)
      BY <2>1, <3>1 DEF In, Out, View
    <3>3. Work(c, G, H)'
      BY <1>0, <1>1, <1>2, <3>1, <3>2 DEF Work, Worked
    <3>4. \E GG \in Gains(c)', HH \in Losses(c)' : Work(c, GG, HH)'
      BY <1>2, <3>3
    <3> QED BY <1>1, <2>1, <3>1, <3>4 DEF WorkOf, NoneFound
  <2>2. CASE NoGroups(c) /\ writer # c
    <3>1. UNCHANGED writer /\ ~ HasUpdate(c)
      BY <1>0, <1>3, <2>2 DEF NoGroups, WorkOf
    <3> QED BY <1>1, <1>2, <2>2, <3>1 DEF WorkOf, NoneFound
  <2>3. CASE Assign(c)
    <3> DEFINE GG == [G EXCEPT ![at[c]] = found[c].in]
               HH == [H EXCEPT ![at[c]] = found[c].out]
    <3>1. own' = Worked(db, c, FieldsOf(c), GG, HH) /\ writer' = c
      BY <1>0, <1>1, <2>3, LinkedWorked DEF Assign, Write
    <3>2. /\ \A r \in Ids : GG[r] = IF r = at[c] THEN found[c].in ELSE G[r]
          /\ \A r \in Ids : HH[r] = IF r = at[c] THEN found[c].out ELSE H[r]
      BY DEF Gains, Losses
    <3>3. GG \in Gains(c) /\ HH \in Losses(c)
      <4>1. found[c].in \in SUBSET req[c].assign /\ found[c].out \in SUBSET req[c].unassign
        BY <1>0 DEF WorkOf
      <4> QED BY <4>1, <1>1 DEF Gains, Losses
    <3>4. HasUpdate(c) => found[c].in = In(c) /\ found[c].out = Out(c)
      BY <1>0, <2>3 DEF WorkOf, Assign
    <3>5. RowsOf(c) \subseteq Ids
      BY DEF RowsOf, TypeOK
    <3> HIDE DEF GG, HH
    <3> PICK X \in Gains(c), Y \in Losses(c) :
            /\ own' = Worked(db, c, FieldsOf(c), X, Y)
            /\ \A r \in Ids : X[r] = IF r = at[c] THEN found[c].in ELSE G[r]
            /\ \A r \in Ids : Y[r] = IF r = at[c] THEN found[c].out ELSE H[r]
      BY <3>1, <3>2, <3>3
    <3>6. Work(c, X, Y)'
      <4>1. own' = Worked(db, c, FieldsOf(c), X, Y)'
        BY <1>0, <1>1, <3>5 DEF Worked
      <4>2. \A r \in Ids \ RowsOf(c)' : X[r] = {} /\ Y[r] = {}
        BY <1>1, <3>5
      <4>3. HasUpdate(c) => \A r \in RowsOf(c)' : X[r] = In(c) /\ Y[r] = Out(c)
        BY <1>1, <3>4, <3>5
      <4> QED BY <1>2, <4>1, <4>2, <4>3 DEF Work
    <3>7. \E V \in Gains(c)', W \in Losses(c)' : Work(c, V, W)'
      BY <1>2, <3>6
    <3> QED BY <1>1, <3>1, <3>7 DEF WorkOf, NoneFound
  <2> QED BY <2>1, <2>2, <2>3
<1>5. writer' \in {writer, c} /\ (writer \in Cmds \ {c} => UNCHANGED <<db, own, writer>>)
  BY NoneFree DEF NoGroups, Assign, Write, CanWrite
<1> QED BY <1>0, <1>1, <1>4, <1>5, WorkOthers

LEMMA WorkStep == TypeOK /\ CtlInv /\ WorkInv /\ [Next]_vars => WorkInv'
<1> SUFFICES ASSUME TypeOK, CtlInv, WorkInv, [Next]_vars PROVE WorkInv'
  OBVIOUS
<1> USE NoneFree
<1>1. ASSUME NEW c \in Cmds, BadArgument(c) \/ Commit(c) PROVE WorkInv'
  BY <1>1, EndWork DEF BadArgument, Commit
<1>2. ASSUME NEW c \in Cmds, Refused(c) \/ StatementFails(c) \/ Locked(c) PROVE WorkInv'
  <2>1. End(c, "err") /\ UNCHANGED <<table, req>> /\ writer' \in {writer, Nobody}
        /\ (writer \in Cmds \ {c} => UNCHANGED <<db, own, writer>>)
    BY <1>2 DEF Refused, StatementFails, Locked, Rollback
  <2> QED BY <2>1, EndWork
<1>3. ASSUME NEW c \in Cmds, Insert(c) \/ Remove(c) \/ RemoveGroup(c) PROVE WorkInv'
  <2>1. End(c, "ok") /\ UNCHANGED <<table, req, writer>> /\ writer = Nobody
    BY <1>3 DEF Insert, Remove, RemoveGroup
  <2> QED BY <2>1, EndWork
<1>4. CASE Stop
  <2>1. ASSUME NEW c \in Cmds PROVE WorkOf(c)'
    <3>1. writer' # c /\ pc'[c] \notin Working \cup {"insert"}
      BY <1>4 DEF Stop, Working, TypeOK
    <3>2. found'[c] \in {found[c], NoneFound} /\ UNCHANGED req /\ WorkOf(c)
      BY <1>4, <2>1 DEF Stop, WorkInv, TypeOK
    <3> QED BY <3>1, <3>2 DEF WorkOf, NoneFound, Working
  <2> QED BY <2>1 DEF WorkInv
<1>5. CASE UNCHANGED vars
  <2>1. ASSUME NEW c \in Cmds PROVE WorkOf(c)'
    <3>1. /\ HasUpdate(c)' = HasUpdate(c) /\ In(c)' = In(c) /\ Out(c)' = Out(c)
          /\ RowsOf(c)' = RowsOf(c) /\ FieldsOf(c)' = FieldsOf(c)
          /\ Gains(c)' = Gains(c) /\ Losses(c)' = Losses(c)
      BY <1>5 DEF vars, RowsOf, FieldsOf, HasUpdate, In, Out, Gains, Losses
    <3>2. ASSUME NEW G \in Gains(c), NEW H \in Losses(c), Work(c, G, H) PROVE Work(c, G, H)'
      BY <1>5, <3>1, <3>2 DEF vars, Work, Worked
    <3> QED BY <1>5, <3>1, <3>2 DEF vars, WorkOf, WorkInv
  <2> QED BY <2>1 DEF WorkInv
<1> QED BY <1>1, <1>2, <1>3, <1>4, <1>5, FindWork, FieldsWork, RowWork DEF Next, Step

LEMMA InitWork == Init => WorkInv
BY DEF Init, WorkInv, WorkOf, Working, NoneFound

-----------------------------------------------------------------------------
(* A command is one step                                                     *)

LEMMA WorkedEffect ==
    ASSUME NEW d \in DBs, NEW c \in Cmds, NEW S \in SUBSET Ids, NEW G, NEW H,
           \A r \in Ids \ S : G[r] = {} /\ H[r] = {}
    PROVE  Worked(d, c, S, G, H)
               = Atomic!Effect(d, c, S, [r \in S |-> G[r]], [r \in S |-> H[r]])
<1> DEFINE w == Worked(d, c, S, G, H)
           GG == [r \in S |-> G[r]]
           HH == [r \in S |-> H[r]]
           e == Atomic!Effect(d, c, S, GG, HH)
<1>1. w.rows = e.rows /\ w.val = e.val
  BY DEF Worked, Atomic!Effect
<1>2. /\ w.groups = d.groups \cup UNION {G[r] : r \in Ids}
      /\ e.groups = d.groups \cup UNION {GG[r] : r \in S}
  BY DEF Worked, Atomic!Effect
<1>3. UNION {G[r] : r \in Ids} = UNION {GG[r] : r \in S}
  OBVIOUS
<1>4. /\ w.link = [r \in Ids |-> [g \in Groups |->
                      IF g \in H[r] THEN Nobody
                      ELSE IF g \in G[r] /\ d.link[r][g] = Nobody THEN c ELSE d.link[r][g]]]
      /\ e.link = [r \in Ids |-> [g \in Groups |->
                      IF r \in S /\ g \in HH[r] THEN Nobody
                      ELSE IF r \in S /\ g \in GG[r] /\ d.link[r][g] = Nobody THEN c
                      ELSE d.link[r][g]]]
  BY DEF Worked, Atomic!Effect
<1>5. \A r \in Ids, g \in Groups : /\ g \in H[r] <=> r \in S /\ g \in HH[r]
                                   /\ g \in G[r] <=> r \in S /\ g \in GG[r]
  OBVIOUS
<1>6. /\ w = [rows |-> w.rows, val |-> w.val, groups |-> w.groups, link |-> w.link]
      /\ e = [rows |-> e.rows, val |-> e.val, groups |-> e.groups, link |-> e.link]
  BY DEF Worked, Atomic!Effect
<1> HIDE DEF w, e, GG, HH
<1>7. w.link = e.link
  BY <1>4, <1>5
<1>8. w = e
  BY <1>1, <1>2, <1>3, <1>6, <1>7
<1> QED BY <1>8 DEF w, e, GG, HH

\* What a commit makes of the database.
LEMMA CommitDoes ==
    ASSUME TypeOK, CtlInv, WorkInv, NEW c \in Cmds, Commit(c)
    PROVE  \E G \in Gains(c), H \in Losses(c) :
               /\ db' = Atomic!Effect(db, c, picked[c], [r \in picked[c] |-> G[r]],
                                                        [r \in picked[c] |-> H[r]])
               /\ HasUpdate(c) => \A r \in picked[c] : G[r] = In(c) /\ H[r] = Out(c)
<1>1. /\ WorkOf(c) /\ pc[c] = "row" /\ pc[c] \in Working
      /\ RowsOf(c) = picked[c] /\ FieldsOf(c) = picked[c] /\ picked[c] \in SUBSET Ids /\ db \in DBs
  BY DEF Commit, WorkInv, Working, RowsOf, FieldsOf, TypeOK
<1>2. db' = View(c)
  BY DEF Commit, View
<1> PICK G \in Gains(c), H \in Losses(c) :
        /\ View(c) = Worked(db, c, picked[c], G, H)
        /\ \A r \in Ids \ picked[c] : G[r] = {} /\ H[r] = {}
        /\ HasUpdate(c) => \A r \in picked[c] : G[r] = In(c) /\ H[r] = Out(c)
  BY <1>1, Seen
<1>3. db' = Atomic!Effect(db, c, picked[c], [r \in picked[c] |-> G[r]], [r \in picked[c] |-> H[r]])
  BY <1>1, <1>2, WorkedEffect
<1> QED BY <1>3

\* Every row of an update that writes first gets and loses the same groups.
THEOREM RowsTreatedAlike == Spec => RowsAlike
<1> DEFINE A == \A c \in Cmds :
                    req[c].kind = "update" /\ HasUpdate(c) /\ result[c] = "none" /\ result'[c] = "ok"
                        => Alike(c)
<1>1. TypeOK /\ CtlInv /\ WorkInv /\ [Next]_vars => [A]_vars
  <2> SUFFICES ASSUME TypeOK, CtlInv, WorkInv, [Next]_vars, NEW c \in Cmds,
                      req[c].kind = "update", HasUpdate(c), result[c] = "none", result'[c] = "ok"
               PROVE  Alike(c)
    OBVIOUS
  <2>1. ASSUME NEW d \in Cmds, Step(d) \/ StatementFails(d) PROVE Commit(c)
    <3>1. result' # result
      OBVIOUS
    <3>2. ~ End(d, "err")
      BY DEF End, TypeOK
    <3>3. ASSUME End(d, "ok") PROVE c = d
      BY <3>3 DEF End, TypeOK
    <3>4. CASE Find(d) \/ NextRow(d) \/ BadArgument(d) \/ FindGroups(d)
      BY <3>1, <3>2, <3>4 DEF Find, NextRow, BadArgument, FindGroups
    <3>5. CASE UpdateFields(d) \/ NoGroups(d) \/ LookUp(d) \/ Assign(d)
      BY <3>1, <3>5 DEF UpdateFields, NoGroups, LookUp, Assign
    <3>6. CASE Refused(d) \/ Locked(d) \/ StatementFails(d)
      BY <3>2, <3>6 DEF Refused, Locked, StatementFails, Rollback
    <3>7. CASE Insert(d) \/ Remove(d) \/ RemoveGroup(d)
      BY <3>3, <3>7 DEF Insert, Remove, RemoveGroup, WorkInv, WorkOf
    <3>8. CASE Commit(d)
      BY <3>3, <3>8 DEF Commit
    <3> QED BY <2>1, <3>4, <3>5, <3>6, <3>7, <3>8 DEF Step
  <2>2. ~ Stop /\ ~ UNCHANGED vars
    <3>1. result' # result
      OBVIOUS
    <3> QED BY <3>1 DEF Stop, vars
  <2>3. Commit(c)
    BY <2>1, <2>2 DEF Next
  <2>4. PICK G \in Gains(c), H \in Losses(c) :
            /\ db' = Atomic!Effect(db, c, picked[c], [r \in picked[c] |-> G[r]],
                                                     [r \in picked[c] |-> H[r]])
            /\ \A r \in picked[c] : G[r] = In(c) /\ H[r] = Out(c)
    BY <2>3, CommitDoes
  <2>5. db' = Atomic!Effect(db, c, picked[c], [r \in picked[c] |-> In(c)], [r \in picked[c] |-> Out(c)])
    <3>1. /\ [r \in picked[c] |-> G[r]] = [r \in picked[c] |-> In(c)]
          /\ [r \in picked[c] |-> H[r]] = [r \in picked[c] |-> Out(c)]
      BY <2>4
    <3> QED BY <2>4, <3>1
  <2>6. In(c) \in SUBSET req[c].assign /\ Out(c) \in SUBSET req[c].unassign
    BY DEF In, Out
  <2> QED BY <2>5, <2>6 DEF Alike
<1>2. TypeOK /\ CtlInv /\ WorkInv /\ [Next]_vars => WorkInv'
  BY WorkStep
<1> QED BY <1>1, <1>2, InitWork, Control, PTL DEF Spec, RowsAlike

\* A command of the abstract shell.
LEMMA DoneBy ==
    ASSUME TypeOK, CtlInv, NEW c \in Cmds, pc[c] # "end", NEW r \in {"ok", "err"}, End(c, r)
    PROVE  /\ c \notin Done
           /\ Done' = IF r = "ok" THEN Done \cup {c} ELSE Done
BY DEF End, Done, TypeOK, CtlInv

\* The commands of this module, step by step, are those of AtomicCommands: one that
\* succeeds takes effect at once, when it commits, and all else changes nothing.
THEOREM CommandsAreAtomic == Spec => AtomicSpec
<1>1. Init => Atomic!Init
  BY DEF Init, Atomic!Init, Done
<1>2. TypeOK /\ CtlInv /\ WorkInv /\ [Next]_vars => [Atomic!Next]_(Atomic!vars)
  <2> SUFFICES ASSUME TypeOK, CtlInv, WorkInv, [Next]_vars PROVE [Atomic!Next]_(Atomic!vars)
    OBVIOUS
  <2>1. ASSUME UNCHANGED <<req, db, Done>> PROVE UNCHANGED Atomic!vars
    BY <2>1 DEF Atomic!vars
  <2>2. ASSUME NEW c \in Cmds, Find(c) \/ NextRow(c) \/ FindGroups(c) \/ BadArgument(c)
        PROVE  UNCHANGED <<req, db, Done>>
    <3>1. pc[c] # "end" /\ UNCHANGED <<req, db>> /\ (End(c, "err") \/ UNCHANGED result)
      BY <2>2 DEF Find, NextRow, FindGroups, BadArgument
    <3> QED BY <3>1, DoneBy DEF Done
  <2>3. ASSUME NEW c \in Cmds, UpdateFields(c) \/ NoGroups(c) \/ LookUp(c) \/ Assign(c)
        PROVE  UNCHANGED <<req, db, Done>>
    BY <2>3 DEF UpdateFields, NoGroups, LookUp, Assign, Write, Done
  <2>4. ASSUME NEW c \in Cmds, Refused(c) \/ StatementFails(c) \/ Locked(c)
        PROVE  UNCHANGED <<req, db, Done>>
    <3>1. pc[c] # "end" /\ End(c, "err") /\ UNCHANGED <<req, db>>
      BY <2>4 DEF Refused, StatementFails, Locked, AtWrite, Rollback
    <3> QED BY <3>1, DoneBy
  <2>5. ASSUME NEW c \in Cmds, Commit(c) PROVE Atomic!Do(c)
    <3>1. /\ req[c].kind = "update" /\ UNCHANGED req /\ c \notin Done /\ Done' = Done \cup {c}
      BY <2>5, DoneBy DEF Commit, CtlInv
    <3>2. Atomic!Update(c)
      <4> PICK G \in Gains(c), H \in Losses(c) :
              db' = Atomic!Effect(db, c, picked[c], [r \in picked[c] |-> G[r]], [r \in picked[c] |-> H[r]])
        BY <2>5, CommitDoes
      <4>1. /\ picked[c] \in SUBSET Ids
            /\ [r \in picked[c] |-> G[r]] \in [picked[c] -> SUBSET req[c].assign]
            /\ [r \in picked[c] |-> H[r]] \in [picked[c] -> SUBSET req[c].unassign]
        BY DEF TypeOK, Gains, Losses
      <4> QED BY <4>1 DEF Atomic!Update
    <3> QED BY <3>1, <3>2 DEF Atomic!Do
  <2>6. ASSUME NEW c \in Cmds, Insert(c) PROVE Atomic!Do(c)
    <3>1. /\ req[c].kind = "create" /\ UNCHANGED req /\ c \notin Done /\ Done' = Done \cup {c}
      BY <2>6, DoneBy DEF Insert, WorkInv, WorkOf
    <3>2. Atomic!Create(c)
      <4> PICK r \in Fresh(db.rows) :
              db' = [rows |-> db.rows \cup {r}, val |-> [db.val EXCEPT ![r] = [f \in Fields |-> c]],
                     groups |-> db.groups \cup found[c].in,
                     link |-> [db.link EXCEPT ![r] = [g \in Groups |->
                         IF g \in found[c].in /\ @[g] = Nobody THEN c ELSE @[g]]]]
        BY <2>6 DEF Insert
      <4>1. r \in Ids \ db.rows
        <5>1. r \in Nat /\ \A n \in db.rows : n < r
          BY AdminTxAssumption DEF Fresh
        <5> QED BY <5>1 DEF Fresh
      <4>2. found[c].in \in SUBSET req[c].assign
        BY DEF WorkInv, WorkOf
      <4> QED BY <4>1, <4>2 DEF Atomic!Create
    <3> QED BY <2>6, <3>1, <3>2 DEF Atomic!Do
  <2>7. ASSUME NEW c \in Cmds, Remove(c) PROVE Atomic!Do(c)
    <3>1. /\ req[c].kind = "rm" /\ UNCHANGED req /\ c \notin Done /\ Done' = Done \cup {c}
      BY <2>7, DoneBy DEF Remove
    <3>2. ByIdentifiers(req[c], db) \in SUBSET Ids
      BY Requested DEF ByIdentifiers, TypeOK, DBs
    <3>3. Atomic!Remove
      BY <2>7, <3>2 DEF Remove, Atomic!Remove
    <3> QED BY <3>1, <3>3 DEF Atomic!Do
  <2>8. ASSUME NEW c \in Cmds, RemoveGroup(c) PROVE Atomic!Do(c)
    <3>1. /\ req[c].kind = "rmGroup" /\ UNCHANGED req /\ c \notin Done /\ Done' = Done \cup {c}
      BY <2>8, DoneBy DEF RemoveGroup
    <3>2. Atomic!RemoveGroup(c)
      BY <2>8 DEF RemoveGroup, Atomic!RemoveGroup
    <3> QED BY <3>1, <3>2 DEF Atomic!Do
  <2>9. CASE Stop
    BY <2>9 DEF Stop, Atomic!vars, Done, CtlInv, TypeOK
  <2>10. CASE UNCHANGED vars
    BY <2>10 DEF vars, Atomic!vars, Done
  <2> QED BY <2>1, <2>2, <2>3, <2>4, <2>5, <2>6, <2>7, <2>8, <2>9, <2>10
          DEF Next, Step, Atomic!Next
<1>3. TypeOK /\ CtlInv /\ WorkInv /\ [Next]_vars => WorkInv'
  BY WorkStep
<1> QED BY <1>1, <1>2, <1>3, InitWork, Control, PTL DEF Spec, AtomicSpec, Atomic!Spec

-----------------------------------------------------------------------------
\* What a lock that was not given back does: until the server stops nothing is
\* written any more, by whatever command; every one that comes to a write fails.
THEOREM LeakBlocks ==
    Spec => [][writer # Nobody /\ pc[writer] = "end" =>
                  Stop \/ (UNCHANGED <<writer, db, own>> /\ Done' \ Done \subseteq
                              {c \in Cmds : req[c].kind = "update" /\ todo[c] = {}})]_vars
<1> DEFINE Idle == {c \in Cmds : req[c].kind = "update" /\ todo[c] = {}}
           A == writer # Nobody /\ pc[writer] = "end" =>
                    Stop \/ (UNCHANGED <<writer, db, own>> /\ Done' \ Done \subseteq Idle)
<1>1. ASSUME TypeOK, CtlInv, [Next]_vars, writer # Nobody, pc[writer] = "end", ~ Stop
      PROVE  UNCHANGED <<writer, db, own>> /\ Done' \ Done \subseteq Idle
  <2>1. CASE UNCHANGED vars
    BY <2>1 DEF vars, Done
  <2>2. ASSUME NEW c \in Cmds, pc[c] # "end", Step(c) \/ StatementFails(c)
        PROVE  UNCHANGED <<writer, db, own>> /\ Done' \ Done \subseteq Idle
    <3>1. writer # c /\ ~ CanWrite(c)
      BY <1>1, <2>2 DEF CanWrite
    <3>2. CASE Find(c) \/ NextRow(c) \/ BadArgument(c) \/ FindGroups(c)
      <4>1. Done' \subseteq Done /\ UNCHANGED <<writer, db, own>>
        BY <1>1, <3>2 DEF Find, NextRow, BadArgument, FindGroups, End, Done, TypeOK
      <4> QED BY <4>1
    <3>3. CASE NoGroups(c) \/ LookUp(c) \/ UpdateFields(c) \/ Assign(c)
      BY <3>1, <3>3 DEF NoGroups, LookUp, UpdateFields, Assign, Done
    <3>4. CASE Refused(c) \/ StatementFails(c) \/ Locked(c)
      <4>1. Rollback(c)
        BY <3>4 DEF Refused, StatementFails, Locked
      <4>2. Done' \subseteq Done
        BY <1>1, <4>1 DEF Rollback, End, Done, TypeOK
      <4> QED BY <3>1, <4>1, <4>2 DEF Rollback
    <3>5. CASE Commit(c)
      <4>1. c \in Idle
        BY <1>1, <3>5 DEF Commit, CtlInv
      <4>2. Done' \subseteq Done \cup {c}
        BY <1>1, <3>5 DEF Commit, End, Done, TypeOK
      <4> QED BY <3>1, <3>5, <4>1, <4>2 DEF Commit
    <3>6. CASE Insert(c) \/ Remove(c) \/ RemoveGroup(c)
      BY <1>1, <3>6 DEF Insert, Remove, RemoveGroup
    <3> QED BY <2>2, <3>2, <3>3, <3>4, <3>5, <3>6 DEF Step
  <2>3. ASSUME NEW c \in Cmds, pc[c] = "end" PROVE ~ (Step(c) \/ StatementFails(c))
    BY <2>3
       DEF Step, StatementFails, Find, NextRow, UpdateFields, BadArgument, NoGroups, LookUp,
           Assign, Refused, Commit, FindGroups, Insert, Remove, RemoveGroup, Locked, AtWrite
  <2> QED BY <1>1, <2>1, <2>2, <2>3 DEF Next
<1>2. TypeOK /\ CtlInv /\ [Next]_vars => [A]_vars
  BY <1>1
<1> QED BY <1>2, Control, PTL DEF Spec
=============================================================================
