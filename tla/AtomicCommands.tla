--------------------------- MODULE AtomicCommands ---------------------------
(***************************************************************************)
(* What an administrator at the shell may rely on: a command takes effect  *)
(* as a whole, once, or not at all.  No transactions, locks or failures.   *)
(***************************************************************************)
CONSTANTS Cmds, Ids, Groups, Fields, Nobody, Old

VARIABLES
    req,    \* [Cmds -> requests] what each command was given
    db,     \* the tables
    done    \* the commands that have taken effect

vars == <<req, db, done>>

\* Every row of S in the table gets the fields, every row of S the groups G[r]
\* and loses H[r].  A group is saved with the link to it.
Effect(d, c, S, G, H) ==
    [rows   |-> d.rows,
     val    |-> [r \in Ids |-> [f \in Fields |->
                    IF r \in S \cap d.rows /\ f \in req[c].fields THEN c ELSE d.val[r][f]]],
     groups |-> d.groups \cup UNION {G[r] : r \in S},
     link   |-> [r \in Ids |-> [g \in Groups |->
                    IF r \in S /\ g \in H[r] THEN Nobody
                    ELSE IF r \in S /\ g \in G[r] /\ d.link[r][g] = Nobody THEN c
                    ELSE d.link[r][g]]]]

Update(c) ==
    \E S \in SUBSET Ids :
    \E G \in [S -> SUBSET req[c].assign], H \in [S -> SUBSET req[c].unassign] :
        db' = Effect(db, c, S, G, H)

\* One new row, with some of the groups asked for.
Create(c) ==
    \E r \in Ids \ db.rows, G \in SUBSET req[c].assign :
        db' = [rows   |-> db.rows \cup {r},
               val    |-> [db.val EXCEPT ![r] = [f \in Fields |-> c]],
               groups |-> db.groups \cup G,
               link   |-> [db.link EXCEPT ![r] = [g \in Groups |->
                              IF g \in G /\ db.link[r][g] = Nobody THEN c ELSE db.link[r][g]]]]

Remove ==
    \E S \in SUBSET Ids :
        db' = [db EXCEPT !.rows = @ \ S,
                         !.val = [r \in Ids |-> IF r \in S THEN [f \in Fields |-> Old] ELSE @[r]]]

RemoveGroup(c) == db' = [db EXCEPT !.groups = @ \ req[c].assign]

Do(c) ==
    /\ c \notin done
    /\ done' = done \cup {c}
    /\ CASE req[c].kind = "update"  -> Update(c)
         [] req[c].kind = "create"  -> Create(c)
         [] req[c].kind = "rm"      -> Remove
         [] req[c].kind = "rmGroup" -> RemoveGroup(c)
    /\ UNCHANGED req

Init == done = {}

Next == \E c \in Cmds : Do(c)

Spec == Init /\ [][Next]_vars
=============================================================================
