------------------------------ MODULE AdminTx -------------------------------
(***************************************************************************)
(* The writing commands of the shell (pkg/bastion/shell.go) on one table   *)
(* and the join table to its groups: create, update and rm of ACLs, hosts, *)
(* users and groups, each a command of another administrator.  An update   *)
(* finds its rows, begins a transaction, and works on one row after the    *)
(* other: fields, checks, look-ups that go round the transaction, groups.  *)
(* sqlite, the default: the first write of a transaction takes the lock of *)
(* the database, which others wait for and then fail; readers see what is  *)
(* committed.  A server that stops takes its transactions with it.         *)
(***************************************************************************)
EXTENDS Integers, FiniteSets

CONSTANTS
    Cmds,      \* the commands, each given once
    Ids,       \* the IDs of rows (bound)
    FirstRows, \* those that may be there at first
    Groups,
    Requests,  \* what a command may be given
    Nobody, Old

Kinds  == {"update", "create", "rm", "rmGroup"}
Fields == {"name", "comment"}
Tables == {"acls", "hosts", "users", "groups"}
Marks  == Cmds \cup {Old}

AllRequests ==
    [kind : Kinds, ids : SUBSET Ids, names : SUBSET Ids, fields : SUBSET Fields,
     assign : SUBSET Groups, unassign : SUBSET Groups, bad : BOOLEAN]

ASSUME AdminTxAssumption ==
    /\ Ids \subseteq Nat /\ FirstRows \subseteq Ids /\ Nobody \notin Ids
    /\ Requests \subseteq AllRequests
    /\ Nobody \notin Marks /\ Old \notin Cmds

\* A field or link holds who wrote it.
DBs == [rows : SUBSET Ids, val : [Ids -> [Fields -> Marks]],
        groups : SUBSET Groups, link : [Ids -> [Groups -> Marks \cup {Nobody}]]]

VARIABLES
    table,   \* the table the commands are about
    req,     \* [Cmds -> Requests]
    db,      \* what is committed
    own,     \* what the transaction that holds the lock sees
    writer,  \* who holds it
    pc, result,
    picked,  \* the rows the command found at its beginning
    todo,    \* those it has not done
    at,      \* the row it is at
    found    \* the groups it has looked up for the row it is at

vars == <<table, req, db, own, writer, pc, result, picked, todo, at, found>>

NoneFound == [in |-> {}, out |-> {}]

TypeOK ==
    /\ table \in Tables /\ req \in [Cmds -> Requests]
    /\ db \in DBs /\ own \in DBs
    /\ writer \in Cmds \cup {Nobody}
    /\ writer = Nobody => own = db
    /\ pc \in [Cmds -> {"start", "insert", "row", "fields", "behind", "assign", "end"}]
    /\ result \in [Cmds -> {"none", "ok", "err", "gone"}]
    /\ picked \in [Cmds -> SUBSET Ids]
    /\ todo \in [Cmds -> SUBSET Ids] /\ \A c \in Cmds : todo[c] \subseteq picked[c]
    /\ at \in [Cmds -> Ids \cup {Nobody}]
    /\ found \in [Cmds -> [in : SUBSET Groups, out : SUBSET Groups]]

\* Some rows, all groups, some links.
Init ==
    /\ table \in Tables /\ req \in [Cmds -> Requests]
    /\ \E R \in SUBSET FirstRows, L \in SUBSET Groups :
          db = [rows |-> R, val |-> [r \in Ids |-> [f \in Fields |-> Old]], groups |-> Groups,
                link |-> [r \in Ids |-> [g \in Groups |-> IF r \in R /\ g \in L THEN Old ELSE Nobody]]]
    /\ own = db /\ writer = Nobody
    /\ pc = [c \in Cmds |-> "start"] /\ result = [c \in Cmds |-> "none"]
    /\ picked = [c \in Cmds |-> {}] /\ todo = [c \in Cmds |-> {}]
    /\ at = [c \in Cmds |-> Nobody] /\ found = [c \in Cmds |-> NoneFound]

-----------------------------------------------------------------------------
(* Rows and transactions                                                     *)

NameOf(d, r) == d.val[r]["name"]

\* GenericNameOrID; ACLsByIdentifiers takes IDs only.  UsersByIdentifiers drops
\* the query it builds for IDs and names together, and looks for all of them
\* among the names.
ByIdentifiers(q, d) ==
    LET byName == {r \in q.names \cap d.rows : NameOf(d, r) = Old}
        byId   == q.ids \cap d.rows
    IN CASE table = "acls" -> byId
         [] table = "users" /\ byId # {} /\ q.names # {} -> byName
         [] OTHER -> byId \cup byName

\* The ID sqlite gives to the next row.
Fresh(R) ==
    {n \in Ids : /\ \A r \in R : r < n
                 /\ \A m \in Ids : (\A r \in R : r < m) => n <= m}

View(c) == IF writer = c THEN own ELSE db

\* (mutant: a write waits for nobody)
NoLock(c) == TRUE
CanWrite(c) == writer \in {Nobody, c}

\* A statement in the transaction of c (mutant: through db instead of tx).
WriteThrough(c, d) == own' = d /\ writer' = c /\ db' = d
Write(c, d) == own' = d /\ writer' = c /\ UNCHANGED db

Goto(c, l) == pc' = [pc EXCEPT ![c] = l]

End(c, r) ==
    /\ Goto(c, "end")
    /\ result' = [result EXCEPT ![c] = r]
    /\ picked' = [picked EXCEPT ![c] = {}] /\ todo' = [todo EXCEPT ![c] = {}]
    /\ at' = [at EXCEPT ![c] = Nobody] /\ found' = [found EXCEPT ![c] = NoneFound]

\* tx.Rollback() and the error (mutant: the error only).
ErrorOnly(c) == End(c, "err") /\ UNCHANGED <<db, own, writer>>
Rollback(c) ==
    /\ End(c, "err")
    /\ IF writer = c THEN own' = db /\ writer' = Nobody ELSE UNCHANGED <<own, writer>>
    /\ UNCHANGED db

-----------------------------------------------------------------------------
(* acl update, host update, user update, hostgroup update, usergroup update  *)

OneName(c, S) == "name" \in req[c].fields /\ Cardinality(S) > 1 /\ table \in {"hosts", "groups"}

\* The rows, through db; "cannot set --name when editing multiple".
Find(c) ==
    /\ pc[c] = "start" /\ req[c].kind = "update"
    /\ LET S == ByIdentifiers(req[c], db)
       IN IF OneName(c, S)
          THEN End(c, "err")
          ELSE /\ picked' = [picked EXCEPT ![c] = S] /\ todo' = [todo EXCEPT ![c] = S]
               /\ Goto(c, "row")
               /\ UNCHANGED <<result, at, found>>
    /\ UNCHANGED <<table, req, db, own, writer>>

\* The next row, in no order; the dates of acl update, whose error returns with the
\* transaction open.
NextRow(c) ==
    /\ pc[c] = "row" /\ todo[c] # {}
    /\ IF table = "acls" /\ req[c].bad
       THEN End(c, "err")
       ELSE /\ \E r \in todo[c] : at' = [at EXCEPT ![c] = r]
            /\ Goto(c, "fields")
            /\ UNCHANGED <<result, picked, todo, found>>
    /\ UNCHANGED <<table, req, db, own, writer>>

RowDone(c) ==
    /\ todo' = [todo EXCEPT ![c] = @ \ {at[c]}]
    /\ at' = [at EXCEPT ![c] = Nobody] /\ found' = [found EXCEPT ![c] = NoneFound]
    /\ Goto(c, "row")

\* UPDATE ... WHERE id = ?: a row that is gone stays gone (mutant: Save, which
\* writes the whole row, and inserts it if it is not there).
Saved(d, r, c) ==
    [d EXCEPT !.rows = @ \cup {r},
              !.val[r] = [f \in Fields |-> IF f \in req[c].fields THEN c ELSE @[f]]]
Updated(d, r, c) ==
    IF r \in d.rows
    THEN [d EXCEPT !.val[r] = [f \in Fields |-> IF f \in req[c].fields THEN c ELSE @[f]]]
    ELSE d

\* The unique index on the name.
NameTaken(d, r, c) ==
    table # "acls" /\ "name" \in req[c].fields /\ \E o \in d.rows \ {r} : NameOf(d, o) = c

\* One UPDATE per field that is given; acl update always has one.
HasUpdate(c) == req[c].fields # {} \/ table = "acls"

UpdateFields(c) ==
    /\ pc[c] = "fields"
    /\ IF HasUpdate(c)
       THEN /\ CanWrite(c) /\ ~ NameTaken(View(c), at[c], c)
            /\ Write(c, Updated(View(c), at[c], c))
       ELSE UNCHANGED <<db, own, writer>>
    /\ Goto(c, "behind")
    /\ UNCHANGED <<table, req, result, picked, todo, at, found>>

\* host update: a logging mode that is none, or --unset-hop, whose look-up fails,
\* return with the transaction open.
BadArgument(c) ==
    /\ pc[c] = "behind" /\ table = "hosts" /\ req[c].bad
    /\ End(c, "err")
    /\ UNCHANGED <<table, req, db, own, writer>>

\* Groups have no associations to update.
NoGroups(c) ==
    /\ pc[c] = "behind" /\ table = "groups"
    /\ RowDone(c)
    /\ UNCHANGED <<table, req, db, own, writer, result, picked>>

\* The groups to append and to delete, through db; those that are not there are
\* passed over.
LookUp(c) ==
    /\ pc[c] = "behind" /\ table # "groups" /\ ~ (table = "hosts" /\ req[c].bad)
    /\ found' = [found EXCEPT ![c] = [in  |-> req[c].assign \cap db.groups,
                                      out |-> req[c].unassign \cap db.groups]]
    /\ Goto(c, "assign")
    /\ UNCHANGED <<table, req, db, own, writer, result, picked, todo, at>>

\* Association.Append inserts the groups themselves and the links, each unless it
\* is there; Delete deletes links.
Linked(d, r, c) ==
    [d EXCEPT !.groups = @ \cup found[c].in,
              !.link[r] = [g \in Groups |->
                  IF g \in found[c].out THEN Nobody
                  ELSE IF g \in found[c].in /\ @[g] = Nobody THEN c ELSE @[g]]]

Assign(c) ==
    /\ pc[c] = "assign" /\ CanWrite(c)
    /\ Write(c, Linked(View(c), at[c], c))
    /\ RowDone(c)
    /\ UNCHANGED <<table, req, result, picked>>

Commit(c) ==
    /\ pc[c] = "row" /\ todo[c] = {}
    /\ End(c, "ok")
    /\ IF writer = c THEN db' = own /\ writer' = Nobody ELSE UNCHANGED <<db, writer>>
    /\ UNCHANGED <<table, req, own>>

\* The name is another row's.
Refused(c) ==
    /\ pc[c] = "fields" /\ HasUpdate(c) /\ CanWrite(c)
    /\ NameTaken(View(c), at[c], c)
    /\ Rollback(c)
    /\ UNCHANGED <<table, req>>

\* A statement, a look-up or the commit fails.
StatementFails(c) ==
    /\ pc[c] # "end" /\ (pc[c] = "row" => todo[c] = {})
    /\ Rollback(c)
    /\ UNCHANGED <<table, req>>

-----------------------------------------------------------------------------
(* create and rm: one statement, which sqlite makes a transaction            *)

Asked(c) == IF table = "groups" THEN {} ELSE req[c].assign \cap db.groups

FindGroups(c) ==
    /\ pc[c] = "start" /\ req[c].kind = "create"
    /\ IF req[c].bad \/ (table = "acls" /\ Asked(c) = {})
       THEN End(c, "err")
       ELSE /\ found' = [found EXCEPT ![c].in = Asked(c)]
            /\ Goto(c, "insert")
            /\ UNCHANGED <<result, picked, todo, at>>
    /\ UNCHANGED <<table, req, db, own, writer>>

\* An ID that was given before brings its links with it.
Insert(c) ==
    /\ pc[c] = "insert" /\ writer = Nobody
    /\ \E r \in Fresh(db.rows) :
          db' = [rows |-> db.rows \cup {r}, val |-> [db.val EXCEPT ![r] = [f \in Fields |-> c]],
                 groups |-> db.groups \cup found[c].in,
                 link |-> [db.link EXCEPT ![r] = [g \in Groups |->
                     IF g \in found[c].in /\ @[g] = Nobody THEN c ELSE @[g]]]]
    /\ own' = db'
    /\ End(c, "ok")
    /\ UNCHANGED <<table, req, writer>>

\* The rows of the join tables stay.
Remove(c) ==
    /\ pc[c] = "start" /\ req[c].kind = "rm" /\ writer = Nobody
    /\ LET S == ByIdentifiers(req[c], db)
       IN db' = [db EXCEPT !.rows = @ \ S,
                           !.val = [r \in Ids |-> IF r \in S THEN [f \in Fields |-> Old] ELSE @[r]]]
    /\ own' = db'
    /\ End(c, "ok")
    /\ UNCHANGED <<table, req, writer>>

RemoveGroup(c) ==
    /\ pc[c] = "start" /\ req[c].kind = "rmGroup" /\ writer = Nobody
    /\ db' = [db EXCEPT !.groups = @ \ req[c].assign]
    /\ own' = db'
    /\ End(c, "ok")
    /\ UNCHANGED <<table, req, writer>>

-----------------------------------------------------------------------------
\* Where the next statement of c is a write.
AtWrite(c) ==
    \/ pc[c] = "fields" /\ HasUpdate(c)
    \/ pc[c] \in {"assign", "insert"}
    \/ pc[c] = "start" /\ req[c].kind \in {"rm", "rmGroup"}

\* "database is locked", after the time the driver waits for the lock (mutant: it
\* waits for ever).
WaitForEver(c) == FALSE /\ UNCHANGED vars
Locked(c) ==
    /\ AtWrite(c) /\ ~ CanWrite(c)
    /\ Rollback(c)
    /\ UNCHANGED <<table, req>>

\* The server stops.
Stop ==
    /\ \E c \in Cmds : pc[c] \notin {"start", "end"} \/ writer = c
    /\ own' = db /\ writer' = Nobody
    /\ LET S == {c \in Cmds : pc[c] \notin {"start", "end"}}
       IN /\ pc' = [c \in Cmds |-> IF c \in S THEN "end" ELSE pc[c]]
          /\ result' = [c \in Cmds |-> IF c \in S THEN "gone" ELSE result[c]]
          /\ picked' = [c \in Cmds |-> IF c \in S THEN {} ELSE picked[c]]
          /\ todo' = [c \in Cmds |-> IF c \in S THEN {} ELSE todo[c]]
          /\ at' = [c \in Cmds |-> IF c \in S THEN Nobody ELSE at[c]]
          /\ found' = [c \in Cmds |-> IF c \in S THEN NoneFound ELSE found[c]]
    /\ UNCHANGED <<table, req, db>>

Step(c) ==
    \/ Find(c) \/ NextRow(c) \/ UpdateFields(c) \/ BadArgument(c) \/ NoGroups(c)
    \/ LookUp(c) \/ Assign(c) \/ Refused(c) \/ Commit(c)
    \/ FindGroups(c) \/ Insert(c) \/ Remove(c) \/ RemoveGroup(c)
    \/ Locked(c)

Next == Stop \/ \E c \in Cmds : Step(c) \/ StatementFails(c)

Spec == Init /\ [][Next]_vars

\* Every shell is a goroutine, and the driver waits for a lock for a time only.
FairSpec == Spec /\ \A c \in Cmds : WF_vars(Step(c))

-----------------------------------------------------------------------------
(* Properties                                                                *)

\* All or nothing: of a command that failed, was cut off by a stop, or is still at
\* work, no field and no link is in the database, whichever of its rows and
\* statements it had come to.
FailedLeavesNoTrace ==
    \A c \in Cmds : result[c] # "ok" =>
        \A r \in Ids : (\A f \in Fields : db.val[r][f] # c) /\ (\A g \in Groups : db.link[r][g] # c)

\* A command that returns has given its transaction back, except after an argument
\* that host update finds to be bad behind its first write.
OnlyLeaksHold ==
    writer # Nobody /\ pc[writer] = "end" =>
        table = "hosts" /\ req[writer].bad /\ req[writer].fields # {}

\* The commands, whatever their steps and failures, are those of AtomicCommands.
Done == {c \in Cmds : result[c] = "ok"}
Atomic == INSTANCE AtomicCommands WITH done <- Done
AtomicSpec == Atomic!Spec

\* An update whose first statement is a write does the same to all of its rows: the
\* groups cannot change between the look-ups for one row and for the next, though
\* these look past the transaction.
Alike(c) ==
    \E G \in SUBSET req[c].assign, H \in SUBSET req[c].unassign :
        db' = Atomic!Effect(db, c, picked[c], [r \in picked[c] |-> G], [r \in picked[c] |-> H])
RowsAlike ==
    [][\A c \in Cmds :
          req[c].kind = "update" /\ HasUpdate(c) /\ result[c] = "none" /\ result'[c] = "ok"
              => Alike(c)]_vars

\* Every command comes to an end, whoever holds the lock.
CommandsEnd == \A c \in Cmds : pc[c] # "start" ~> pc[c] = "end"
=============================================================================
