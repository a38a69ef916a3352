------------------------------- MODULE DbInit -------------------------------
(***************************************************************************)
(* DBInit (pkg/bastion/dbinit.go): what a server does to the database      *)
(* before it accepts connections.  gormigrate runs each of 32 migrations   *)
(* and records it, in two statements without a transaction; then a row of  *)
(* every kind sshportal needs is created if there is none.  The server may *)
(* stop between any two statements and is started again; it is the only    *)
(* one on its database.                                                    *)
(***************************************************************************)
EXTENDS Integers, Sequences

CONSTANTS
    Rows,        \* the rows of a table that a migration of data goes through
    MaxCrashes,  \* bound: stops, failing queries included
    MaxCommands  \* bound: commands of administrators

ASSUME DbInitAssumption == MaxCrashes \in Nat /\ MaxCommands \in Nat

Last == 32
Migrations == 1 .. Last

\* AutoMigrate of a table: adds what is not there, so that it may run again.
FirstTables == 1 .. 8
RoleTables == {15, 16, 19}
LaterTables == {21, 22, 23, 25, 26, 28, 29, 30, 32}
Tables == FirstTables \cup RoleTables \cup LaterTables

\* An index is dropped and created.
Indexes == 9 .. 14

\* A row of user_roles: admin, listhosts.  Names of roles are not unique.
AdminRole == 17
ListHostsRole == 20
Roles == {AdminRole, ListHostsRole}

\* The rows of a table, one after the other: is_admin becomes a role, Key becomes
\* AuthorizedKey, a zero StoppedAt becomes none.
IsAdmin == 18
AuthorizedKeys == 24
StoppedAts == 27
Loops == {IsAdmin, AuthorizedKeys, StoppedAts}

\* All rows of hosts in one statement: Logging becomes "everything".
Logging == 31
Data == Loops \cup {Logging}

\* (mutant: the ACL before its groups)
AclFirst == <<"key", "acl", "hostGroup", "userGroup", "user", "hostKey">>

\* The rows that are created if there is none of their kind, in this order.
Seeds == <<"key", "hostGroup", "userGroup", "acl", "user", "hostKey">>
Seed == {Seeds[k] : k \in DOMAIN Seeds}

\* The default groups a row is to be linked to.
Groups == {"hostGroup", "userGroup"}
Linked == {"acl", "user"}
Needs == [x \in Seed |-> IF x = "acl" THEN Groups
                         ELSE IF x = "user" THEN {"userGroup"} ELSE {}]

VARIABLES
    ran,      \* the migrations table
    built,    \* migrations of tables that had their effect
    dropped,  \* indexes that were dropped and not created
    roles,    \* [Roles -> Nat] how many rows of that name there are
    row,      \* [Data \X Rows -> RowState]
    seeds,    \* the kinds of Seed of which there is a row
    pc,       \* where the server is
    at,       \* the migration it is at
    todo,     \* the rows a loop has read and not written
    seed,     \* the kind of Seed it is at
    found,    \* the default groups it has looked up and found
    crashes, commands,
    links,    \* history: the default groups the last row of a kind was created with
    failed,   \* history: the default groups whose look-up failed
    served    \* history: this version has been up

tableVars == <<ran, built, dropped, roles, row, seeds>>
serverVars == <<pc, at, todo, seed, found, failed>>
linkVars == <<links, found, failed>>
vars == <<ran, built, dropped, roles, row, seeds, pc, at, todo, seed, found,
          crashes, commands, links, failed, served>>

\* none: there is no such row; old: as an earlier version wrote it; migrated;
\* chosen: as an administrator set it since.
RowState == {"none", "old", "migrated", "chosen"}

PC == {"down", "ran", "migrate", "createIndex", "loop", "record", "count", "find",
       "create", "close", "up"}

TypeOK ==
    /\ ran \subseteq Migrations /\ built \subseteq Tables /\ dropped \subseteq Indexes
    /\ roles \in [Roles -> Nat]
    /\ row \in [Data \X Rows -> RowState]
    /\ seeds \subseteq Seed
    /\ pc \in PC
    /\ at \in Migrations
    /\ todo \subseteq Rows
    /\ seed \in DOMAIN Seeds
    /\ found \subseteq Groups /\ failed \subseteq Groups
    /\ links \in [Linked -> SUBSET Groups]
    /\ crashes \in 0 .. MaxCrashes /\ commands \in 0 .. MaxCommands
    /\ served \in BOOLEAN

\* A database without a table, or what the version with k migrations left.
Init ==
    /\ \E k \in 0 .. Last :
        /\ ran = 1 .. k
        /\ built = Tables \cap 1 .. k
        /\ roles = [m \in Roles |-> IF m <= k THEN 1 ELSE 0]
        /\ row = [x \in Data \X Rows |-> IF k = 0 THEN "none"
                                         ELSE IF x[1] <= k THEN "migrated" ELSE "old"]
        /\ seeds \in SUBSET Seed
        /\ k = 0 => seeds = {}
        /\ served = (k = Last)
    /\ dropped = {}
    /\ pc = "down" /\ at = 1 /\ todo = {} /\ seed = 1
    /\ found = {} /\ failed = {} /\ links = [x \in Linked |-> {}]
    /\ crashes = 0 /\ commands = 0

-----------------------------------------------------------------------------
Goto(l) == pc' = l

\* What the server was doing is lost with it.
Stop ==
    /\ Goto("down")
    /\ at' = 1
    /\ todo' = {}
    /\ seed' = 1
    /\ found' = {} /\ failed' = {}

Start ==
    /\ pc = "down"
    /\ Goto("ran")
    /\ UNCHANGED <<tableVars, at, todo, seed, linkVars, crashes, commands, served>>

Crash ==
    /\ pc # "down"
    /\ crashes < MaxCrashes
    /\ crashes' = crashes + 1
    /\ Stop
    /\ UNCHANGED <<tableVars, commands, links, served>>

\* The next migration; after the last, the rows.
NextMigration ==
    IF at = Last THEN Goto("count") /\ UNCHANGED at
    ELSE Goto("ran") /\ at' = at + 1

\* gormigrate asks for each migration whether it is recorded (mutant: those of
\* data run at every start).
RanUnlessData(m) == m \in ran \ Data
Ran(m) == m \in ran

AlreadyRan ==
    /\ pc = "ran" /\ Ran(at)
    /\ NextMigration
    /\ UNCHANGED <<tableVars, todo, seed, linkVars, crashes, commands, served>>

NotYetRan ==
    /\ pc = "ran" /\ ~ Ran(at)
    /\ Goto("migrate")
    /\ UNCHANGED <<tableVars, at, todo, seed, linkVars, crashes, commands, served>>

\* insertMigration
Record ==
    /\ pc = "record"
    /\ ran' = ran \cup {at}
    /\ NextMigration
    /\ UNCHANGED <<built, dropped, roles, row, seeds, todo, seed, linkVars, crashes, commands, served>>

-----------------------------------------------------------------------------
(* The migrations                                                            *)

BuildTable ==
    /\ pc = "migrate" /\ at \in Tables
    /\ built' = built \cup {at}
    /\ Goto("record")
    /\ UNCHANGED <<ran, dropped, roles, row, seeds, at, todo, seed, linkVars, crashes, commands, served>>

DropIndex ==
    /\ pc = "migrate" /\ at \in Indexes
    /\ at \notin dropped
    /\ dropped' = dropped \cup {at}
    /\ Goto("createIndex")
    /\ UNCHANGED <<ran, built, roles, row, seeds, at, todo, seed, linkVars, crashes, commands, served>>

\* There is no such index: a server that was stopped had just dropped it.
DropIndexFails ==
    /\ pc = "migrate" /\ at \in Indexes
    /\ at \in dropped
    /\ Stop
    /\ UNCHANGED <<tableVars, crashes, commands, links, served>>

\* (mutant: recorded first)
CreateIndexLater ==
    /\ pc = "createIndex"
    /\ Goto("record")
    /\ UNCHANGED <<tableVars, at, todo, seed, linkVars, crashes, commands, served>>

CreateIndex ==
    /\ pc = "createIndex"
    /\ dropped' = dropped \ {at}
    /\ Goto("record")
    /\ UNCHANGED <<ran, built, roles, row, seeds, at, todo, seed, linkVars, crashes, commands, served>>

CreateRole ==
    /\ pc = "migrate" /\ at \in Roles
    /\ roles' = [roles EXCEPT ![at] = @ + 1]
    /\ Goto("record")
    /\ UNCHANGED <<ran, built, dropped, row, seeds, at, todo, seed, linkVars, crashes, commands, served>>

\* The rows a loop goes through: the users with is_admin and the keys, migrated
\* or not; the sessions whose StoppedAt is zero.
ToMigrate(m) ==
    {r \in Rows : row[<<m, r>>] # "none" /\ (m = StoppedAts => row[<<m, r>>] = "old")}

\* (mutant: the role is asked for as if it were unique)
ReadRowsOfOneRole ==
    /\ pc = "migrate" /\ at \in Loops
    /\ at = IsAdmin => roles[AdminRole] = 1
    /\ todo' = ToMigrate(at)
    /\ Goto("loop")
    /\ UNCHANGED <<tableVars, at, seed, linkVars, crashes, commands, served>>

\* The first of the role's rows is taken.  The keys are those an earlier version
\* stored, so that they can be parsed.
ReadRows ==
    /\ pc = "migrate" /\ at \in Loops
    /\ at = IsAdmin => roles[AdminRole] > 0
    /\ todo' = ToMigrate(at)
    /\ Goto("loop")
    /\ UNCHANGED <<tableVars, at, seed, linkVars, crashes, commands, served>>

WriteRow(r) ==
    /\ pc = "loop" /\ r \in todo
    /\ row' = [row EXCEPT ![<<at, r>>] = "migrated"]
    /\ todo' = todo \ {r}
    /\ UNCHANGED <<ran, built, dropped, roles, seeds, pc, at, seed, linkVars, crashes, commands, served>>

LoopEnds ==
    /\ pc = "loop" /\ todo = {}
    /\ Goto("record")
    /\ UNCHANGED <<tableVars, at, todo, seed, linkVars, crashes, commands, served>>

SetLogging ==
    /\ pc = "migrate" /\ at = Logging
    /\ row' = [x \in Data \X Rows |->
                 IF x[1] = Logging /\ row[x] # "none" THEN "migrated" ELSE row[x]]
    /\ Goto("record")
    /\ UNCHANGED <<ran, built, dropped, roles, seeds, at, todo, seed, linkVars, crashes, commands, served>>

-----------------------------------------------------------------------------
(* The rows sshportal needs, and the end                                     *)

\* For the first user the group is looked up before the users are counted.
NextSeed ==
    IF seed = Len(Seeds) THEN Goto("close") /\ UNCHANGED seed
    ELSE /\ Goto(IF Seeds[seed + 1] = "user" THEN "find" ELSE "count")
         /\ seed' = seed + 1

CountSome ==
    /\ pc = "count" /\ Seeds[seed] \in seeds
    /\ NextSeed
    /\ UNCHANGED <<tableVars, at, todo, linkVars, crashes, commands, served>>

\* For the default ACL they are looked up behind the count.
CountNone ==
    /\ pc = "count" /\ Seeds[seed] \notin seeds
    /\ Goto(IF Seeds[seed] = "acl" THEN "find" ELSE "create")
    /\ UNCHANGED <<tableVars, at, todo, seed, linkVars, crashes, commands, served>>

\* The queries for the groups F fail.  Their errors are dropped, and a group that
\* was not found is one without ID and name.
FindGroups(F) ==
    /\ pc = "find" /\ F \subseteq Needs[Seeds[seed]]
    /\ IF F = {} THEN UNCHANGED crashes
       ELSE crashes < MaxCrashes /\ crashes' = crashes + 1
    /\ found' = (Needs[Seeds[seed]] \ F) \cap seeds
    /\ failed' = F
    /\ Goto(IF Seeds[seed] = "acl" THEN "create" ELSE "count")
    /\ UNCHANGED <<tableVars, at, todo, seed, links, commands, served>>

\* One transaction with its join tables.  A group that was not found is created
\* with the row, without a name, and linked.
CreateSeed ==
    /\ pc = "create"
    /\ seeds' = seeds \cup {Seeds[seed]}
    /\ links' = [x \in Linked |-> IF x = Seeds[seed] THEN found ELSE links[x]]
    /\ NextSeed
    /\ UNCHANGED <<ran, built, dropped, roles, row, at, todo, found, failed,
                   crashes, commands, served>>

\* The unclosed connections (module Sessions), and the server listens.
Close ==
    /\ pc = "close"
    /\ Goto("up")
    /\ served' = TRUE
    /\ UNCHANGED <<tableVars, at, todo, seed, linkVars, crashes, commands>>

-----------------------------------------------------------------------------
(* The shell, once the server is up                                          *)

Command ==
    /\ pc = "up"
    /\ commands < MaxCommands
    /\ commands' = commands + 1
    /\ UNCHANGED <<ran, built, dropped, roles, serverVars, links, crashes, served>>

\* user update --unassign-role, host update --logging
Choose(m, r) ==
    /\ Command
    /\ m \in {IsAdmin, Logging} /\ row[<<m, r>>] # "none"
    /\ row' = [row EXCEPT ![<<m, r>>] = "chosen"]
    /\ UNCHANGED seeds

\* The last row of a kind, or the one of that name, is removed: key rm, hostgroup rm,
\* usergroup rm, acl rm, user rm.
Remove(x) ==
    /\ Command
    /\ x \in seeds
    /\ seeds' = seeds \ {x}
    /\ UNCHANGED row

-----------------------------------------------------------------------------
DBInit ==
    \/ Start
    \/ AlreadyRan \/ NotYetRan \/ Record
    \/ BuildTable
    \/ DropIndex \/ DropIndexFails \/ CreateIndex
    \/ CreateRole
    \/ ReadRows \/ (\E r \in Rows : WriteRow(r)) \/ LoopEnds \/ SetLogging
    \/ CountSome \/ CountNone \/ (\E F \in SUBSET Groups : FindGroups(F)) \/ CreateSeed
    \/ Close

Shell ==
    \/ \E m \in Data, r \in Rows : Choose(m, r)
    \/ \E x \in Seed : Remove(x)

Next == DBInit \/ Crash \/ Shell

Spec == Init /\ [][Next]_vars

\* The server is started again when it has stopped, and goes on.
FairSpec == Spec /\ WF_vars(DBInit)

-----------------------------------------------------------------------------
(* Properties                                                                *)

\* However often it was stopped on the way, the server is up for the first time
\* with a complete database: every table and index, both roles, no row
\* as an older version wrote it, and a row of every kind it needs.
UpIsComplete ==
    [][served' /\ ~ served =>
        /\ ran' = Migrations /\ built' = Tables /\ dropped' = {}
        /\ \A m \in Roles : roles'[m] > 0
        /\ \A x \in Data \X Rows : row'[x] # "old"
        /\ seeds' = Seed]_vars

\* What an administrator chose after an upgrade is not undone by a later start:
\* a role that was taken from a user, the logging mode of a host.
ChosenStays == [][\A x \in Data \X Rows : row[x] = "chosen" => row'[x] = "chosen"]_vars

\* The default ACL and the first user are created with links to default groups
\* that are there, to each whose look-up did not fail: the order of the rows, stops
\* and groups that were removed take no link away.
SeedsHaveGroups ==
    [][\A x \in Linked : x \in seeds' \ seeds =>
          Needs[x] \ failed \subseteq links'[x] /\ links'[x] \subseteq seeds]_vars

\* The server that was stopped is up again some time, unless the stop came between
\* the drop of an index and its creation.
Starts == pc = "down" ~> pc = "up" \/ dropped # {}
=============================================================================
