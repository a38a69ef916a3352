---------------------------- MODULE DbInitProofs ----------------------------
(***************************************************************************)
(* What a server finds when it is up, for tables of any number of rows and *)
(* however often it was stopped on the way.                                *)
(***************************************************************************)
EXTENDS DbInit, TLAPS

\* What migration m is there for.
Effect(m) ==
    /\ m \in Tables => m \in built
    /\ m \in Indexes => m \notin dropped
    /\ m \in Roles => roles[m] > 0
    /\ m \in Data => \A r \in Rows : row[<<m, r>>] # "old"

\* A migration is recorded behind its effect, and nothing undoes it.
RanInv ==
    /\ \A m \in ran : Effect(m)
    /\ pc = "record" => Effect(at)

\* Those before the one the server is at are recorded, it is not; later all are.
AtInv ==
    /\ pc = "down" => at = 1
    /\ pc \in {"ran", "migrate", "createIndex", "loop", "record"} => 1 .. (at - 1) \subseteq ran
    /\ pc \in {"migrate", "createIndex", "loop", "record"} => at \notin ran
    /\ pc \in {"count", "find", "create", "close", "up"} => ran = Migrations
    /\ pc = "createIndex" => at \in Indexes

\* What is still to be written is in the hands of the loop.
LoopInv ==
    pc = "loop" => at \in Loops /\ \A r \in Rows : row[<<at, r>>] = "old" => r \in todo

\* The kinds before the one the server is at are there.
SeedInv ==
    /\ pc \in {"down", "ran", "migrate", "createIndex", "loop", "record"} => seed = 1
    /\ pc \in {"count", "find", "create"} => \A k \in 1 .. (seed - 1) : Seeds[k] \in seeds
    /\ pc = "close" => seeds = Seed

\* Of the groups a row needs, the server has found those whose look-up did not fail.
FoundFor(x) == Needs[x] \ failed \subseteq found /\ found \subseteq seeds
FoundInv ==
    /\ pc = "find" => Seeds[seed] \in Linked
    /\ pc = "count" /\ Seeds[seed] = "user" => FoundFor("user")
    /\ pc = "create" /\ Seeds[seed] \in Linked => FoundFor(Seeds[seed])

\* Administrators choose once all migrations are recorded.
ChosenInv == \A x \in Data \X Rows : row[x] = "chosen" => ran = Migrations

IInv == TypeOK /\ RanInv /\ AtInv /\ LoopInv /\ SeedInv /\ FoundInv /\ ChosenInv

-----------------------------------------------------------------------------
LEMMA SeedsFacts ==
    /\ DOMAIN Seeds = 1 .. 6 /\ Len(Seeds) = 6
    /\ \A k \in 1 .. 6 : Seeds[k] \in Seed
    /\ \A x \in Seed : \E k \in 1 .. 6 : x = Seeds[k]
    /\ Seeds[2] = "hostGroup" /\ Seeds[3] = "userGroup"
    /\ \A k \in 1 .. 6 : Seeds[k] = "acl" => k = 4
    /\ \A k \in 1 .. 6 : Seeds[k] = "user" => k = 5
    /\ Linked \subseteq Seed
<1>1. DOMAIN Seeds = 1 .. 6 /\ Len(Seeds) = 6
  BY DEF Seeds
<1>2. Seed = {Seeds[k] : k \in 1 .. 6}
  BY <1>1 DEF Seed
<1>3. /\ Seeds[1] = "key" /\ Seeds[2] = "hostGroup" /\ Seeds[3] = "userGroup"
      /\ Seeds[4] = "acl" /\ Seeds[5] = "user" /\ Seeds[6] = "hostKey"
  BY DEF Seeds
<1>4. Seeds[4] \in Seed /\ Seeds[5] \in Seed
  BY <1>2
<1> QED BY <1>1, <1>2, <1>3, <1>4 DEF Linked

\* The rows linked to groups come behind the groups.
LEMMA NeedsFacts ==
    /\ \A x \in Seed : Needs[x] \subseteq Groups
    /\ \A k \in 1 .. 6 : Seeds[k] \in Linked =>
          \A g \in Needs[Seeds[k]] : \E i \in 1 .. (k - 1) : Seeds[i] = g
<1>1. /\ \A x \in Linked : Needs[x] \subseteq {Seeds[2], Seeds[3]}
      /\ \A x \in Seed : Needs[x] \subseteq Groups
  BY SeedsFacts DEF Needs, Linked, Groups
<1>2. \A k \in 1 .. 6 : Seeds[k] \in Linked => 2 \in 1 .. (k - 1) /\ 3 \in 1 .. (k - 1)
  BY SeedsFacts DEF Linked
<1> QED BY <1>1, <1>2

LEMMA KindFacts ==
    /\ Tables \subseteq Migrations /\ Indexes \subseteq Migrations
    /\ Roles \subseteq Migrations /\ Data \subseteq Migrations
    /\ Loops \subseteq Data /\ Logging \in Data
    /\ Indexes \cap (Tables \cup Roles \cup Data) = {}
    /\ Loops \cap (Tables \cup Roles \cup {Logging}) = {}
    /\ Tables \cap (Roles \cup Data) = {} /\ Roles \cap Data = {} /\ Logging \notin Indexes
    /\ Migrations = Tables \cup Indexes \cup Roles \cup Data
BY DEF Tables, FirstTables, RoleTables, LaterTables, Indexes, Roles, AdminRole,
       ListHostsRole, Data, Loops, IsAdmin, AuthorizedKeys, StoppedAts, Logging,
       Migrations, Last

-----------------------------------------------------------------------------
LEMMA InitType == Init => TypeOK
<1> SUFFICES ASSUME Init PROVE TypeOK
  OBVIOUS
<1> PICK k \in 0 .. Last :
        /\ ran = 1 .. k
        /\ built = Tables \cap 1 .. k
        /\ roles = [m \in Roles |-> IF m <= k THEN 1 ELSE 0]
        /\ row = [x \in Data \X Rows |-> IF k = 0 THEN "none"
                                         ELSE IF x[1] <= k THEN "migrated" ELSE "old"]
        /\ seeds \in SUBSET Seed
        /\ served = (k = Last)
  BY DEF Init
<1>1. ran \subseteq Migrations /\ built \subseteq Tables /\ at \in Migrations
  BY DEF Init, Migrations, Last
<1>2. roles \in [Roles -> Nat] /\ row \in [Data \X Rows -> RowState]
  BY DEF RowState
<1>3. seed \in DOMAIN Seeds /\ pc \in PC /\ todo \subseteq Rows /\ dropped \subseteq Indexes
  BY SeedsFacts DEF Init, PC
<1>4. crashes \in 0 .. MaxCrashes /\ commands \in 0 .. MaxCommands
  BY DbInitAssumption DEF Init
<1>5. found \subseteq Groups /\ failed \subseteq Groups /\ links \in [Linked -> SUBSET Groups]
  BY DEF Init
<1> QED BY <1>1, <1>2, <1>3, <1>4, <1>5 DEF TypeOK

LEMMA TypeStep == TypeOK /\ [Next]_vars => TypeOK'
<1> SUFFICES ASSUME TypeOK, [Next]_vars PROVE TypeOK'
  OBVIOUS
<1> USE DEF TypeOK, PC, RowState, Goto, tableVars, serverVars, linkVars
<1>m. \A m \in Migrations : m # Last => m + 1 \in Migrations
  BY DEF Migrations, Last
<1>o. 1 \in Migrations
  BY DEF Migrations, Last
<1>s. /\ 1 \in DOMAIN Seeds
      /\ \A k \in DOMAIN Seeds : k # Len(Seeds) => k + 1 \in DOMAIN Seeds
      /\ \A k \in DOMAIN Seeds : Seeds[k] \in Seed
  BY SeedsFacts
<1>1. CASE Start \/ NotYetRan \/ DropIndexFails \/ LoopEnds \/ CountNone \/ Close
  BY <1>1, <1>o, <1>s
     DEF Start, NotYetRan, DropIndexFails, Stop, LoopEnds, CountNone, Close
<1>2. CASE Crash
  <2>1. crashes' \in 0 .. MaxCrashes
    BY <1>2, DbInitAssumption DEF Crash
  <2> QED BY <1>2, <1>o, <1>s, <2>1 DEF Crash, Stop
<1>3. CASE AlreadyRan \/ Record
  BY <1>3, <1>m DEF AlreadyRan, Record, NextMigration
<1>4. CASE BuildTable \/ DropIndex \/ CreateIndex
  BY <1>4 DEF BuildTable, DropIndex, CreateIndex
<1>5. CASE CreateRole
  BY <1>5 DEF CreateRole
<1>6. CASE ReadRows
  BY <1>6 DEF ReadRows, ToMigrate
<1>7. ASSUME NEW r \in Rows, WriteRow(r) PROVE TypeOK'
  BY <1>7 DEF WriteRow
<1>8. CASE SetLogging
  <2>1. row' \in [Data \X Rows -> RowState]
    BY <1>8 DEF SetLogging
  <2> QED BY <1>8, <2>1 DEF SetLogging
<1>9. CASE CountSome \/ CreateSeed
  <2>1. links' \in [Linked -> SUBSET Groups]
    BY <1>9 DEF CountSome, CreateSeed
  <2> QED BY <1>9, <1>s, <2>1 DEF CountSome, CreateSeed, NextSeed
<1>14. ASSUME NEW F \in SUBSET Groups, FindGroups(F) PROVE TypeOK'
  <2>1. crashes' \in 0 .. MaxCrashes
    BY <1>14, DbInitAssumption DEF FindGroups
  <2>2. found' \subseteq Groups
    <3>1. F \subseteq Needs[Seeds[seed]] /\ found' = (Needs[Seeds[seed]] \ F) \cap seeds
      BY <1>14 DEF FindGroups
    <3>2. Needs[Seeds[seed]] \subseteq Groups
      BY <1>s, NeedsFacts
    <3> QED BY <3>1, <3>2
  <2> QED BY <1>14, <2>1, <2>2 DEF FindGroups
<1>10. ASSUME Command PROVE commands' \in 0 .. MaxCommands
  BY <1>10, DbInitAssumption DEF Command
<1>11. ASSUME NEW m \in Data, NEW r \in Rows, Choose(m, r) PROVE TypeOK'
  BY <1>10, <1>11 DEF Choose, Command
<1>12. ASSUME NEW x \in Seed, Remove(x) PROVE TypeOK'
  BY <1>10, <1>12 DEF Remove, Command
<1>13. CASE UNCHANGED vars
  BY <1>13 DEF vars
<1> QED
  BY <1>1, <1>2, <1>3, <1>4, <1>5, <1>6, <1>7, <1>8, <1>9, <1>11, <1>12, <1>13,
     <1>14
     DEF Next, DBInit, Shell

\* The tables and the server stay well-typed, for any number of rows and stops.
THEOREM TypeCorrect == Spec => []TypeOK
BY InitType, TypeStep, PTL DEF Spec

-----------------------------------------------------------------------------
LEMMA InitInv == Init => IInv
<1> SUFFICES ASSUME Init PROVE IInv
  OBVIOUS
<1> PICK k \in 0 .. Last :
        /\ ran = 1 .. k
        /\ built = Tables \cap 1 .. k
        /\ roles = [m \in Roles |-> IF m <= k THEN 1 ELSE 0]
        /\ row = [x \in Data \X Rows |-> IF k = 0 THEN "none"
                                         ELSE IF x[1] <= k THEN "migrated" ELSE "old"]
  BY DEF Init
<1>1. RanInv
  <2>1. \A m \in ran, r \in Rows : m \in Data => row[<<m, r>>] # "old"
    OBVIOUS
  <2>2. pc # "record" /\ dropped = {}
    BY DEF Init
  <2>3. ASSUME NEW m \in ran PROVE Effect(m)
    <3>1. m \in Int /\ m >= 1 /\ m <= k
      OBVIOUS
    <3>2. m \in Tables => m \in built
      OBVIOUS
    <3>3. m \in Roles => roles[m] > 0
      BY <3>1
    <3>4. \A r \in Rows : m \in Data => row[<<m, r>>] # "old"
      BY <2>1
    <3> QED BY <2>2, <3>2, <3>3, <3>4 DEF Effect
  <2> QED BY <2>2, <2>3 DEF RanInv
<1>2. ChosenInv
  BY DEF ChosenInv
<1> QED BY <1>1, <1>2, InitType DEF Init, IInv, AtInv, LoopInv, SeedInv, FoundInv

\* What is recorded has its effect.
LEMMA RanStep == IInv /\ [Next]_vars => RanInv'
<1> SUFFICES ASSUME IInv, [Next]_vars PROVE RanInv'
  OBVIOUS
<1> USE KindFacts DEF RanInv, Effect, Goto
<1>t. TypeOK /\ RanInv /\ AtInv /\ LoopInv /\ ChosenInv
  BY DEF IInv
<1>1. CASE Start \/ NotYetRan \/ DropIndexFails \/ AlreadyRan \/ ReadRows \/ Crash
  BY <1>t, <1>1 DEF Start, NotYetRan, DropIndexFails, AlreadyRan, NextMigration, ReadRows,
                    Crash, Stop, tableVars
<1>2. CASE CountNone \/ CountSome \/ CreateSeed \/ Close \/ \E F \in SUBSET Groups : FindGroups(F)
  BY <1>t, <1>2 DEF CountNone, CountSome, CreateSeed, NextSeed, Close, FindGroups, tableVars
<1>3. CASE Record
  BY <1>t, <1>3 DEF Record, NextMigration
<1>4. CASE BuildTable
  BY <1>t, <1>4 DEF BuildTable
<1>5. CASE DropIndex
  BY <1>t, <1>5 DEF DropIndex, AtInv
<1>6. CASE CreateIndex
  BY <1>t, <1>6 DEF CreateIndex, AtInv, TypeOK
<1>7. CASE CreateRole
  <2>1. \A m \in Roles : roles[m] \in Nat
    BY <1>t DEF TypeOK
  <2>2. \A m \in Roles : roles'[m] = IF m = at THEN roles[m] + 1 ELSE roles[m]
    BY <1>t, <1>7 DEF CreateRole, TypeOK
  <2> QED BY <1>t, <1>7, <2>1, <2>2 DEF CreateRole
<1>8. ASSUME NEW r \in Rows, WriteRow(r) PROVE RanInv'
  <2>1. \A x \in Data \X Rows : row'[x] = "old" => row[x] = "old"
    BY <1>t, <1>8 DEF WriteRow, TypeOK
  <2>2. UNCHANGED <<ran, built, dropped, roles>> /\ pc' = "loop"
    BY <1>8 DEF WriteRow
  <2> QED BY <1>t, <2>1, <2>2
<1>9. CASE LoopEnds
  BY <1>t, <1>9 DEF LoopEnds, LoopInv, tableVars
<1>10. CASE SetLogging
  <2>1. \A x \in Data \X Rows : row'[x] = "old" => row[x] = "old" /\ x[1] # Logging
    BY <1>t, <1>10 DEF SetLogging, TypeOK
  <2>2. \A r \in Rows : row'[<<at, r>>] # "old"
    BY <1>10, <2>1 DEF SetLogging
  <2>3. at = Logging /\ UNCHANGED <<ran, built, dropped, roles, at>>
    BY <1>10 DEF SetLogging
  <2> QED BY <1>t, <2>1, <2>2, <2>3
<1>11. ASSUME NEW m \in Data, NEW r \in Rows, Choose(m, r) PROVE RanInv'
  <2>1. \A x \in Data \X Rows : row'[x] = "old" => row[x] = "old"
    BY <1>t, <1>11 DEF Choose, TypeOK
  <2>2. UNCHANGED <<ran, built, dropped, roles>> /\ pc' = "up"
    BY <1>11 DEF Choose, Command, serverVars
  <2> QED BY <1>t, <2>1, <2>2
<1>12. ASSUME NEW x \in Seed, Remove(x) PROVE RanInv'
  BY <1>t, <1>12 DEF Remove, Command, serverVars
<1>13. CASE UNCHANGED vars
  BY <1>t, <1>13 DEF vars
<1> QED
  BY <1>1, <1>2, <1>3, <1>4, <1>5, <1>6, <1>7, <1>8, <1>9, <1>10, <1>11, <1>12, <1>13
     DEF Next, DBInit, Shell

\* The server goes through the migrations in order.
LEMMA AtStep == IInv /\ [Next]_vars => AtInv'
<1> SUFFICES ASSUME IInv, [Next]_vars PROVE AtInv'
  OBVIOUS
<1> USE DEF AtInv, Goto
<1>t. TypeOK /\ AtInv /\ at \in 1 .. 32 /\ Last = 32 /\ Migrations = 1 .. 32
  BY DEF IInv, TypeOK, Migrations, Last
<1>1. CASE Start \/ NotYetRan \/ BuildTable \/ DropIndex \/ CreateIndex \/ CreateRole
           \/ ReadRows \/ LoopEnds \/ SetLogging
  BY <1>t, <1>1, KindFacts
     DEF Start, NotYetRan, Ran, BuildTable, DropIndex, CreateIndex, CreateRole, ReadRows,
         LoopEnds, SetLogging, tableVars
<1>2. CASE DropIndexFails \/ Crash
  BY <1>t, <1>2 DEF DropIndexFails, Crash, Stop, tableVars
<1>3. CASE AlreadyRan \/ Record
  <2>1. ran \subseteq ran' /\ at \in ran' /\ ran' \subseteq 1 .. 32 /\ 1 .. (at - 1) \subseteq ran
    BY <1>t, <1>3 DEF AlreadyRan, Ran, Record, tableVars, TypeOK, IInv
  <2>2. 1 .. at \subseteq ran'
    BY <1>t, <2>1
  <2>3. CASE at = Last
    BY <1>t, <1>3, <2>1, <2>2, <2>3 DEF AlreadyRan, Record, NextMigration
  <2>4. CASE at # Last
    BY <1>t, <1>3, <2>1, <2>2, <2>4 DEF AlreadyRan, Record, NextMigration
  <2> QED BY <2>3, <2>4
<1>4. ASSUME NEW r \in Rows, WriteRow(r) PROVE AtInv'
  BY <1>t, <1>4 DEF WriteRow
<1>5. CASE CountNone \/ CountSome \/ CreateSeed \/ Close \/ \E F \in SUBSET Groups : FindGroups(F)
  BY <1>t, <1>5 DEF CountNone, CountSome, CreateSeed, NextSeed, Close, FindGroups, tableVars
<1>6. ASSUME NEW m \in Data, NEW r \in Rows, Choose(m, r) PROVE AtInv'
  BY <1>t, <1>6 DEF Choose, Command, serverVars
<1>7. ASSUME NEW x \in Seed, Remove(x) PROVE AtInv'
  BY <1>t, <1>7 DEF Remove, Command, serverVars
<1>8. CASE UNCHANGED vars
  BY <1>t, <1>8 DEF vars
<1> QED
  BY <1>1, <1>2, <1>3, <1>4, <1>5, <1>6, <1>7, <1>8 DEF Next, DBInit, Shell

LEMMA LoopStep == IInv /\ [Next]_vars => LoopInv'
<1> SUFFICES ASSUME IInv, [Next]_vars PROVE LoopInv'
  OBVIOUS
<1> USE DEF LoopInv, Goto
<1>t. TypeOK /\ LoopInv
  BY DEF IInv
<1>1. CASE Start \/ NotYetRan \/ DropIndexFails \/ AlreadyRan \/ LoopEnds \/ Crash
  BY <1>t, <1>1 DEF Start, NotYetRan, DropIndexFails, AlreadyRan, NextMigration, LoopEnds,
                    Crash, Stop, tableVars
<1>2. CASE CountNone \/ CountSome \/ CreateSeed \/ Close \/ \E F \in SUBSET Groups : FindGroups(F)
  BY <1>t, <1>2 DEF CountNone, CountSome, CreateSeed, NextSeed, Close, FindGroups, tableVars
<1>3. CASE Record \/ BuildTable \/ DropIndex \/ CreateIndex \/ CreateRole \/ SetLogging
  BY <1>t, <1>3 DEF Record, NextMigration, BuildTable, DropIndex, CreateIndex, CreateRole,
                    SetLogging
<1>4. CASE ReadRows
  BY <1>t, <1>4 DEF ReadRows, ToMigrate, tableVars
<1>5. ASSUME NEW r \in Rows, WriteRow(r) PROVE LoopInv'
  <2>1. at \in Loops /\ at \in Data /\ pc = "loop" /\ at' = at
    BY <1>t, <1>5, KindFacts DEF WriteRow
  <2>2. \A s \in Rows : row'[<<at, s>>] = IF s = r THEN "migrated" ELSE row[<<at, s>>]
    BY <1>t, <1>5, <2>1 DEF WriteRow, TypeOK
  <2> QED BY <1>t, <1>5, <2>1, <2>2 DEF WriteRow
<1>6. ASSUME NEW m \in Data, NEW r \in Rows, Choose(m, r) PROVE LoopInv'
  BY <1>6 DEF Choose, Command, serverVars
<1>7. ASSUME NEW x \in Seed, Remove(x) PROVE LoopInv'
  BY <1>7 DEF Remove, Command, serverVars
<1>8. CASE UNCHANGED vars
  BY <1>t, <1>8 DEF vars
<1> QED
  BY <1>1, <1>2, <1>3, <1>4, <1>5, <1>6, <1>7, <1>8 DEF Next, DBInit, Shell

LEMMA SeedStep == IInv /\ [Next]_vars => SeedInv'
<1> SUFFICES ASSUME IInv, [Next]_vars PROVE SeedInv'
  OBVIOUS
<1> USE DEF SeedInv, Goto
<1>t. TypeOK /\ SeedInv /\ AtInv /\ seed \in 1 .. 6 /\ Len(Seeds) = 6
  BY SeedsFacts DEF IInv, TypeOK
<1>1. CASE Start \/ NotYetRan \/ BuildTable \/ DropIndex \/ CreateIndex \/ CreateRole
           \/ ReadRows \/ LoopEnds \/ SetLogging
  BY <1>t, <1>1
     DEF Start, NotYetRan, BuildTable, DropIndex, CreateIndex, CreateRole, ReadRows,
         LoopEnds, SetLogging, tableVars
<1>2. CASE DropIndexFails \/ Crash
  BY <1>t, <1>2 DEF DropIndexFails, Crash, Stop, tableVars
<1>3. CASE AlreadyRan \/ Record
  <2>1. pc' \in {"ran", "count"} /\ seed' = 1
    BY <1>t, <1>3 DEF AlreadyRan, Record, NextMigration
  <2> QED BY <2>1
<1>4. CASE CountSome \/ CreateSeed
  <2>1. seeds \subseteq seeds' /\ Seeds[seed] \in seeds' /\ seeds' \subseteq Seed
    BY <1>t, <1>4, SeedsFacts DEF CountSome, CreateSeed, tableVars, TypeOK
  <2>2. \A k \in 1 .. seed : Seeds[k] \in seeds'
    BY <1>t, <1>4, <2>1 DEF CountSome, CreateSeed
  <2>3. CASE seed = 6
    <3>1. \A k \in 1 .. 6 : Seeds[k] \in seeds'
      BY <2>2, <2>3
    <3>2. seeds' = Seed
      BY <2>1, <3>1, SeedsFacts
    <3> QED BY <1>t, <1>4, <2>3, <3>2 DEF CountSome, CreateSeed, NextSeed
  <2>4. CASE seed # 6
    BY <1>t, <1>4, <2>2, <2>4 DEF CountSome, CreateSeed, NextSeed
  <2> QED BY <2>3, <2>4
<1>5. CASE CountNone \/ Close \/ \E F \in SUBSET Groups : FindGroups(F)
  BY <1>t, <1>5 DEF CountNone, Close, FindGroups, tableVars
<1>6. ASSUME NEW r \in Rows, WriteRow(r) PROVE SeedInv'
  BY <1>t, <1>6 DEF WriteRow
<1>7. ASSUME NEW m \in Data, NEW r \in Rows, Choose(m, r) PROVE SeedInv'
  BY <1>7 DEF Choose, Command, serverVars
<1>8. ASSUME NEW x \in Seed, Remove(x) PROVE SeedInv'
  BY <1>8 DEF Remove, Command, serverVars
<1>9. CASE UNCHANGED vars
  BY <1>t, <1>9 DEF vars
<1> QED
  BY <1>1, <1>2, <1>3, <1>4, <1>5, <1>6, <1>7, <1>8, <1>9 DEF Next, DBInit, Shell

LEMMA FoundStep == IInv /\ [Next]_vars => FoundInv'
<1> SUFFICES ASSUME IInv, [Next]_vars PROVE FoundInv'
  OBVIOUS
<1> USE DEF FoundInv, Goto
<1>t. TypeOK /\ SeedInv /\ FoundInv /\ seed \in 1 .. 6 /\ Len(Seeds) = 6
  BY SeedsFacts DEF IInv, TypeOK
<1>1. CASE Start \/ NotYetRan \/ BuildTable \/ DropIndex \/ CreateIndex \/ CreateRole
           \/ ReadRows \/ LoopEnds \/ SetLogging \/ DropIndexFails \/ Crash \/ Close
  BY <1>1
     DEF Start, NotYetRan, BuildTable, DropIndex, CreateIndex, CreateRole, ReadRows,
         LoopEnds, SetLogging, DropIndexFails, Crash, Stop, Close
<1>2. CASE AlreadyRan \/ Record
  <2>1. pc' \in {"ran", "count"} /\ seed' = 1
    BY <1>t, <1>2 DEF AlreadyRan, Record, NextMigration, SeedInv
  <2>2. Seeds[seed'] # "user"
    BY <2>1, SeedsFacts
  <2> QED BY <2>1, <2>2
<1>3. CASE CountSome \/ CreateSeed
  <2>1. CASE seed = 6
    BY <1>t, <1>3, <2>1 DEF CountSome, CreateSeed, NextSeed
  <2>2. CASE seed # 6
    <3>1. /\ seed' = seed + 1 /\ pc' \in {"find", "count"}
          /\ pc' = "find" <=> Seeds[seed'] = "user"
      BY <1>t, <1>3, <2>2 DEF CountSome, CreateSeed, NextSeed
    <3> QED BY <3>1 DEF Linked
  <2> QED BY <2>1, <2>2
\* The next step asks for what was found with the same groups there.
<1>4. CASE CountNone
  <2>1. UNCHANGED <<seed, seeds, found, failed>>
    BY <1>4 DEF CountNone, tableVars, linkVars
  <2>2. pc = "count" /\ pc' = IF Seeds[seed] = "acl" THEN "find" ELSE "create"
    BY <1>4 DEF CountNone
  <2>3. Seeds[seed] = "user" => FoundFor("user")'
    BY <1>t, <2>1, <2>2 DEF FoundFor
  <2> QED BY <2>1, <2>2, <2>3 DEF Linked
<1>5. ASSUME NEW F \in SUBSET Groups, FindGroups(F) PROVE FoundInv'
  <2>1. pc = "find" /\ Seeds[seed] \in Linked
    BY <1>t, <1>5 DEF FindGroups
  <2>2. Needs[Seeds[seed]] \subseteq seeds
    BY <1>t, <2>1, NeedsFacts DEF SeedInv
  <2>3. /\ found' = (Needs[Seeds[seed]] \ F) \cap seeds /\ failed' = F
        /\ UNCHANGED <<seed, seeds>>
        /\ pc' = IF Seeds[seed] = "acl" THEN "create" ELSE "count"
    BY <1>5 DEF FindGroups, tableVars
  <2>4. FoundFor(Seeds[seed])'
    BY <2>2, <2>3 DEF FoundFor
  <2> QED BY <2>1, <2>3, <2>4 DEF Linked
<1>6. ASSUME NEW r \in Rows, WriteRow(r) PROVE FoundInv'
  BY <1>6 DEF WriteRow
<1>7. ASSUME NEW m \in Data, NEW r \in Rows, Choose(m, r) PROVE FoundInv'
  BY <1>7 DEF Choose, Command, serverVars
<1>8. ASSUME NEW x \in Seed, Remove(x) PROVE FoundInv'
  BY <1>8 DEF Remove, Command, serverVars
<1>9. CASE UNCHANGED vars
  BY <1>t, <1>9 DEF FoundFor, vars
<1> QED
  BY <1>1, <1>2, <1>3, <1>4, <1>5, <1>6, <1>7, <1>8, <1>9 DEF Next, DBInit, Shell

LEMMA ChosenStep == IInv /\ TypeOK' /\ [Next]_vars => ChosenInv'
<1> SUFFICES ASSUME IInv, TypeOK', [Next]_vars PROVE ChosenInv'
  OBVIOUS
<1> USE DEF ChosenInv, Goto
<1>t. TypeOK /\ ChosenInv /\ AtInv /\ ran \subseteq Migrations /\ ran' \subseteq Migrations
  BY DEF IInv, TypeOK
<1>1. CASE Start \/ NotYetRan \/ AlreadyRan \/ DropIndexFails \/ ReadRows \/ LoopEnds
           \/ Crash \/ CountSome \/ CountNone \/ Close
           \/ \E F \in SUBSET Groups : FindGroups(F)
  BY <1>t, <1>1 DEF Start, NotYetRan, AlreadyRan, DropIndexFails, ReadRows, LoopEnds,
                    Crash, CountSome, CountNone, Close, FindGroups, tableVars
<1>2. CASE BuildTable \/ DropIndex \/ CreateIndex \/ CreateRole \/ CreateSeed
  BY <1>t, <1>2 DEF BuildTable, DropIndex, CreateIndex, CreateRole, CreateSeed
<1>3. CASE Record
  BY <1>t, <1>3 DEF Record
<1>4. ASSUME NEW r \in Rows, WriteRow(r) PROVE ChosenInv'
  <2>1. \A x \in Data \X Rows : row'[x] = "chosen" => row[x] = "chosen"
    BY <1>t, <1>4 DEF WriteRow, TypeOK
  <2> QED BY <1>t, <1>4, <2>1 DEF WriteRow
<1>5. CASE SetLogging
  <2>1. \A x \in Data \X Rows : row'[x] = "chosen" => row[x] = "chosen"
    BY <1>t, <1>5 DEF SetLogging, TypeOK
  <2> QED BY <1>t, <1>5, <2>1 DEF SetLogging
<1>6. ASSUME NEW m \in Data, NEW r \in Rows, Choose(m, r) PROVE ChosenInv'
  BY <1>t, <1>6 DEF Choose, Command, AtInv
<1>7. ASSUME NEW x \in Seed, Remove(x) PROVE ChosenInv'
  BY <1>t, <1>7 DEF Remove, Command
<1>8. CASE UNCHANGED vars
  BY <1>t, <1>8 DEF vars
<1> QED
  BY <1>1, <1>2, <1>3, <1>4, <1>5, <1>6, <1>7, <1>8 DEF Next, DBInit, Shell

THEOREM Inductive == Spec => []IInv
<1>1. IInv /\ [Next]_vars => IInv'
  BY TypeStep, RanStep, AtStep, LoopStep, SeedStep, FoundStep, ChosenStep DEF IInv
<1> QED BY <1>1, InitInv, PTL DEF Spec

-----------------------------------------------------------------------------
\* Whatever version it found and wherever it was stopped, a server that is up
\* for the first time has a complete database.
THEOREM CompleteWhenUp == Spec => UpIsComplete
<1> DEFINE A == served' /\ ~ served =>
                  /\ ran' = Migrations /\ built' = Tables /\ dropped' = {}
                  /\ \A m \in Roles : roles'[m] > 0
                  /\ \A x \in Data \X Rows : row'[x] # "old"
                  /\ seeds' = Seed
<1>1. ASSUME IInv, [Next]_vars, served', ~ served PROVE Close
  BY <1>1 DEF Next, DBInit, Shell, Start, AlreadyRan, NotYetRan, Record, BuildTable,
              DropIndex, DropIndexFails, CreateIndex, CreateRole, ReadRows, WriteRow,
              LoopEnds, SetLogging, CountSome, CountNone, FindGroups, CreateSeed, Crash, Choose,
              Remove, Command, vars
<1>2. ASSUME IInv, Close PROVE A
  <2>1. ran = Migrations /\ seeds = Seed /\ \A m \in Migrations : Effect(m)
    BY <1>2 DEF Close, IInv, AtInv, SeedInv, RanInv
  <2>2. built = Tables /\ dropped = {}
    BY <1>2, <2>1, KindFacts DEF IInv, TypeOK, Effect
  <2>3. (\A m \in Roles : roles[m] > 0) /\ \A x \in Data \X Rows : row[x] # "old"
    BY <2>1, KindFacts DEF Effect
  <2>4. UNCHANGED tableVars
    BY <1>2 DEF Close
  <2> QED BY <2>1, <2>2, <2>3, <2>4 DEF tableVars
<1>3. IInv /\ [Next]_vars => [A]_vars
  BY <1>1, <1>2
<1> QED BY <1>3, Inductive, PTL DEF Spec, UpIsComplete

\* What an administrator chose is not undone by a later start.
THEOREM ChosenKept == Spec => ChosenStays
<1> DEFINE A == \A x \in Data \X Rows : row[x] = "chosen" => row'[x] = "chosen"
<1>1. ASSUME IInv, [Next]_vars PROVE A
  <2> USE DEF Command
  <2>t. TypeOK /\ AtInv /\ ChosenInv /\ at \in Migrations
    BY <1>1 DEF IInv, TypeOK
  <2>1. CASE \/ Start \/ NotYetRan \/ AlreadyRan \/ DropIndexFails \/ ReadRows \/ LoopEnds
             \/ Crash \/ CountSome \/ CountNone \/ Close
             \/ \E F \in SUBSET Groups : FindGroups(F)
    BY <2>1 DEF Start, NotYetRan, AlreadyRan, DropIndexFails, ReadRows, LoopEnds,
                Crash, CountSome, CountNone, Close, FindGroups, tableVars
  <2>2. CASE \/ Record \/ BuildTable \/ DropIndex \/ CreateIndex \/ CreateRole \/ CreateSeed
             \/ \E x \in Seed : Remove(x)
    BY <2>2 DEF Record, BuildTable, DropIndex, CreateIndex, CreateRole, CreateSeed, Remove
  <2>3. CASE SetLogging \/ \E r \in Rows : WriteRow(r)
    <3>1. ran # Migrations
      BY <2>t, <2>3 DEF SetLogging, WriteRow, AtInv
    <3> QED BY <2>t, <3>1 DEF ChosenInv
  <2>4. ASSUME NEW m \in Data, NEW r \in Rows, Choose(m, r) PROVE A
    BY <2>t, <2>4 DEF Choose, TypeOK
  <2>5. CASE UNCHANGED vars
    BY <2>5 DEF vars
  <2> QED BY <1>1, <2>1, <2>2, <2>3, <2>4, <2>5 DEF Next, DBInit, Shell
<1>2. IInv /\ [Next]_vars => [A]_vars
  BY <1>1
<1> QED BY <1>2, Inductive, PTL DEF Spec, ChosenStays

\* The default ACL and the first user get every default group whose look-up did not
\* fail: after any number of stops and of groups removed before a start.
THEOREM SeedsLinked == Spec => SeedsHaveGroups
<1> DEFINE A == \A x \in Linked : x \in seeds' \ seeds =>
                   Needs[x] \ failed \subseteq links'[x] /\ links'[x] \subseteq seeds
<1>1. ASSUME IInv, [Next]_vars PROVE A
  <2>1. CASE CreateSeed
    <3> SUFFICES ASSUME NEW x \in Linked, x \in seeds' \ seeds
                 PROVE  Needs[x] \ failed \subseteq links'[x] /\ links'[x] \subseteq seeds
      OBVIOUS
    <3>1. pc = "create" /\ x = Seeds[seed] /\ links'[x] = found
      BY <2>1 DEF CreateSeed
    <3>2. FoundFor(x)
      BY <1>1, <3>1 DEF IInv, FoundInv
    <3> QED BY <3>1, <3>2 DEF FoundFor
  <2>2. CASE ~ CreateSeed
    <3>1. seeds' \subseteq seeds
      BY <1>1, <2>2
         DEF Next, DBInit, Shell, Start, AlreadyRan, NotYetRan, Record, BuildTable,
             DropIndex, DropIndexFails, CreateIndex, CreateRole, ReadRows, WriteRow,
             LoopEnds, SetLogging, CountSome, CountNone, FindGroups, Close, Crash, Choose, Remove,
             Command, tableVars, vars
    <3> QED BY <3>1
  <2> QED BY <2>1, <2>2
<1>2. IInv /\ [Next]_vars => [A]_vars
  BY <1>1
<1> QED BY <1>2, Inductive, PTL DEF Spec, SeedsHaveGroups

-----------------------------------------------------------------------------
(* The two halves of Starts that need no fairness                            *)

\* What a migration of data needs is there when the server comes to it: no start
\* fails for want of the role admin.
THEOREM RoleThere == Spec => [](pc = "migrate" /\ at = IsAdmin => roles[AdminRole] > 0)
<1>1. ASSUME IInv, pc = "migrate", at = IsAdmin PROVE roles[AdminRole] > 0
  <2>1. AdminRole \in 1 .. (at - 1) /\ AdminRole \in Roles
    BY <1>1 DEF IsAdmin, AdminRole, Roles
  <2>2. AdminRole \in ran
    BY <1>1, <2>1 DEF IInv, AtInv
  <2> QED BY <1>1, <2>1, <2>2 DEF IInv, RanInv, Effect
<1>2. IInv => (pc = "migrate" /\ at = IsAdmin => roles[AdminRole] > 0)
  BY <1>1
<1> QED BY <1>2, Inductive, PTL

\* An index is dropped by the migration whose turn it is.
DropInv == \A m \in dropped : 1 .. (m - 1) \subseteq ran

LEMMA DropStep == IInv /\ DropInv /\ [Next]_vars => DropInv'
<1> SUFFICES ASSUME IInv, DropInv, [Next]_vars PROVE DropInv'
  OBVIOUS
<1>1. ran \subseteq ran'
  BY DEF Next, DBInit, Shell, Start, AlreadyRan, NotYetRan, Record, BuildTable,
         DropIndex, DropIndexFails, CreateIndex, CreateRole, ReadRows, WriteRow,
         LoopEnds, SetLogging, CountSome, CountNone, FindGroups, CreateSeed, Close, Crash, Choose,
         Remove, Command, tableVars, vars
<1>2. CASE DropIndex
  <2>1. 1 .. (at - 1) \subseteq ran /\ dropped' = dropped \cup {at}
    BY <1>2 DEF DropIndex, IInv, AtInv
  <2> QED BY <1>1, <2>1 DEF DropInv
<1>3. CASE ~ DropIndex
  <2>1. dropped' \subseteq dropped
    BY <1>3
       DEF Next, DBInit, Shell, Start, AlreadyRan, NotYetRan, Record, BuildTable,
           DropIndexFails, CreateIndex, CreateRole, ReadRows, WriteRow, LoopEnds,
           SetLogging, CountSome, CountNone, FindGroups, CreateSeed, Close, Crash, Choose,
           Remove, Command, tableVars, vars
  <2> QED BY <1>1, <2>1 DEF DropInv
<1> QED BY <1>2, <1>3

\* A stop between the drop of an index and its creation is final: whatever comes
\* behind it, starts and stops, the index stays away and the server is not up again.
THEOREM DropIsFinal ==
    Spec => [][dropped # {} /\ pc # "createIndex" => dropped' = dropped /\ pc' # "up"]_vars
<1> DEFINE A == dropped # {} /\ pc # "createIndex" => dropped' = dropped /\ pc' # "up"
<1>1. ASSUME IInv, DropInv, [Next]_vars, NEW m \in dropped, pc # "createIndex"
      PROVE  dropped' = dropped /\ pc' # "up"
  <2>1. m \in Indexes /\ m \in Migrations /\ m \notin ran /\ at \in Migrations
    BY <1>1, KindFacts DEF IInv, TypeOK, RanInv, Effect
  <2>2. pc \notin {"close", "up"}
    BY <1>1, <2>1 DEF IInv, AtInv
  <2>3. ~ DropIndex
    <3>1. SUFFICES ASSUME DropIndex PROVE FALSE
      OBVIOUS
    <3>2. at \notin ran /\ at # m /\ 1 .. (at - 1) \subseteq ran
      BY <1>1, <3>1 DEF DropIndex, IInv, AtInv
    <3>3. at \in 1 .. (m - 1) \/ m \in 1 .. (at - 1)
      BY <2>1, <3>2 DEF Migrations, Last
    <3> QED BY <1>1, <2>1, <3>2, <3>3 DEF DropInv
  <2>4. dropped' = dropped
    BY <1>1, <2>2, <2>3
       DEF Next, DBInit, Shell, Start, AlreadyRan, NotYetRan, Record, BuildTable,
           DropIndexFails, CreateIndex, CreateRole, ReadRows, WriteRow, LoopEnds,
           SetLogging, CountSome, CountNone, FindGroups, CreateSeed, Close, Crash, Choose,
           Remove, Command, tableVars, vars
  <2>5. pc' # "up"
    BY <1>1, <2>2
       DEF Next, DBInit, Shell, Start, AlreadyRan, NotYetRan, Record, NextMigration,
           BuildTable, DropIndex, DropIndexFails, Stop, CreateIndex, CreateRole, ReadRows,
           WriteRow, LoopEnds, SetLogging, CountSome, CountNone, FindGroups, CreateSeed, NextSeed,
           Close, Crash, Choose, Remove, Command, Goto, vars
  <2> QED BY <2>4, <2>5
<1>2. IInv /\ DropInv /\ [Next]_vars => [A]_vars
  BY <1>1
<1>3. Init => DropInv
  BY DEF Init, DropInv
<1> QED BY <1>2, <1>3, DropStep, Inductive, PTL DEF Spec
=============================================================================
