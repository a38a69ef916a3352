-------------------------------- MODULE Acl ---------------------------------
(***************************************************************************)
(* One access check: bastionClientConfig (pkg/bastion/ssh.go) reads the    *)
(* user with groups and ACLs, then the host with groups and ACLs;          *)
(* checkACLs (pkg/bastion/acl.go) takes the ACLs both have, and its hook,  *)
(* an external command, has the last word.  A Preload takes a query of the *)
(* join table and one of the rows it names, without a transaction, and     *)
(* administrators change groups and ACLs in between.                       *)
(***************************************************************************)
EXTENDS Integers

CONSTANTS
    UserGroups, HostGroups,
    Acls,        \* the IDs of ACLs
    Actions,     \* ACL.Action: acl create takes allow and deny, acl update any word
    Weights,     \* ACL.Weight
    Windows,     \* <<inception, expiration>>, both exclusive
    MaxTime,     \* bound: the clock
    MaxChanges,  \* bound: commands of administrators during the check
    HookCmd,     \* whether there is an acl-check-cmd
    Keep         \* a field acl update is not given

ASSUME AclAssumption ==
    /\ {"allow", "deny"} \subseteq Actions /\ Keep \notin Actions \cup Windows
    /\ Weights \subseteq Nat /\ Windows \subseteq Int \X Int
    /\ MaxTime \in Nat /\ MaxChanges \in Nat
    /\ HookCmd \in BOOLEAN

Contents == [action : Actions, weight : Weights, window : Windows]

\* The groups of the user and of the host the check is about (a row of the join
\* table and of the group), the acls table, and its join tables user_group_acls
\* and host_group_acls, which may name ACLs that are gone.
DBs == [inUG : SUBSET UserGroups, inHG : SUBSET HostGroups,
        acls : SUBSET Acls, content : [Acls -> Contents],
        ug : [Acls -> SUBSET UserGroups], hg : [Acls -> SUBSET HostGroups]]

\* An ACL that is not there has no row.
NoContent == CHOOSE x \in Contents : TRUE

VARIABLES
    db, now, changes,
    pc,       \* where the check is
    userIn,   \* tmpUser.Groups
    userAcls, \* the IDs in tmpUser.Groups[...].ACLs
    userRead, \* [Acls -> Contents] what they were read with
    hostIn,   \* tmpHost.Groups
    hostAcls, \* the IDs in tmpHost.Groups[...].ACLs
    base,     \* the action before the hook
    at,       \* currentTime of checkACLs
    verdict,  \* what checkACLs returns
    hook,     \* the external command
    said,     \* its output, once it has ended
    child,    \* whether a child of it holds its standard output
    timedOut, \* ctx.Err() == context.DeadlineExceeded
    past      \* history: the databases since the check began

readVars == <<userIn, userAcls, userRead, hostIn, hostAcls>>
hookVars == <<hook, said, child, timedOut>>
vars == <<db, now, changes, pc, userIn, userAcls, userRead, hostIn, hostAcls,
          base, at, verdict, hook, said, child, timedOut, past>>

PC == {"userGroups", "userJoin", "userACLs", "hostGroups", "hostJoin", "hostACLs",
       "check", "hook", "done", "failed"}
Reading == PC \ {"check", "hook", "done", "failed"}
Over == pc \in {"done", "failed"}

ReadType ==
    /\ userIn \subseteq UserGroups /\ hostIn \subseteq HostGroups
    /\ userAcls \subseteq Acls /\ hostAcls \subseteq Acls
    /\ userRead \in [Acls -> Contents]

HookType ==
    /\ hook \in {"none", "running", "ended", "killed"}
    /\ said \in {"allow", "deny", "junk", "error"}
    /\ child \in BOOLEAN /\ timedOut \in BOOLEAN
    /\ pc = "hook" => HookCmd
    /\ hook # "none" => HookCmd /\ pc \in {"hook", "done"}

TypeOK ==
    /\ db \in DBs /\ past \subseteq DBs
    /\ now \in 0 .. MaxTime /\ at \in 0 .. now
    /\ changes \in 0 .. MaxChanges
    /\ pc \in PC
    /\ base \in Actions /\ verdict \in Actions
    /\ ReadType
    /\ HookType

Init ==
    /\ db \in DBs
    /\ \A a \in Acls \ db.acls : db.content[a] = NoContent
    /\ now = 0 /\ at = 0 /\ changes = 0
    /\ pc = "userGroups"
    /\ userIn = {} /\ userAcls = {} /\ userRead = db.content
    /\ hostIn = {} /\ hostAcls = {}
    /\ base = "deny" /\ verdict = "deny"
    /\ hook = "none" /\ said = "error" /\ child = FALSE /\ timedOut = FALSE
    /\ past = {db}

-----------------------------------------------------------------------------
(* The check                                                                 *)

\* The rows of the join tables for a set of groups.
JoinOfUser(d, G) == {a \in Acls : d.ug[a] \cap G # {}}
JoinOfHost(d, G) == {a \in Acls : d.hg[a] \cap G # {}}

\* Preload("Groups") of the user.
ReadUserGroups ==
    /\ pc = "userGroups"
    /\ userIn' = db.inUG
    /\ pc' = "userJoin"
    /\ UNCHANGED <<db, now, changes, userAcls, userRead, hostIn, hostAcls,
                   base, at, verdict, hookVars, past>>

\* Preload("Groups.ACLs") of the user: the join table, then the rows.
ReadUserJoin ==
    /\ pc = "userJoin"
    /\ userAcls' = JoinOfUser(db, userIn)
    /\ pc' = "userACLs"
    /\ UNCHANGED <<db, now, changes, userIn, userRead, hostIn, hostAcls,
                   base, at, verdict, hookVars, past>>

\* (mutant: every row of the table)
ReadAllACLs ==
    /\ pc = "userACLs"
    /\ userAcls' = db.acls
    /\ userRead' = db.content
    /\ pc' = "hostGroups"
    /\ UNCHANGED <<db, now, changes, userIn, hostIn, hostAcls, base, at, verdict, hookVars, past>>

ReadUserACLs ==
    /\ pc = "userACLs"
    /\ userAcls' = userAcls \cap db.acls
    /\ userRead' = db.content
    /\ pc' = "hostGroups"
    /\ UNCHANGED <<db, now, changes, userIn, hostIn, hostAcls, base, at, verdict, hookVars, past>>

\* The same for the host.
ReadHostGroups ==
    /\ pc = "hostGroups"
    /\ hostIn' = db.inHG
    /\ pc' = "hostJoin"
    /\ UNCHANGED <<db, now, changes, userIn, userAcls, userRead, hostAcls,
                   base, at, verdict, hookVars, past>>

ReadHostJoin ==
    /\ pc = "hostJoin"
    /\ hostAcls' = JoinOfHost(db, hostIn)
    /\ pc' = "hostACLs"
    /\ UNCHANGED <<db, now, changes, userIn, userAcls, userRead, hostIn,
                   base, at, verdict, hookVars, past>>

\* checkACLs uses the IDs of these rows and nothing else of them.
ReadHostACLs ==
    /\ pc = "hostACLs"
    /\ hostAcls' = hostAcls \cap db.acls
    /\ pc' = "check"
    /\ UNCHANGED <<db, now, changes, userIn, userAcls, userRead, hostIn,
                   base, at, verdict, hookVars, past>>

\* A query fails, the user or the host being gone or not: nobody is let in.
ReadFails ==
    /\ pc \in Reading
    /\ pc' = "failed"
    /\ UNCHANGED <<db, now, changes, readVars, base, at, verdict, hookVars, past>>

\* currentTime.After(Inception) && currentTime.Before(Expiration)
Active(window, t) == window[1] < t /\ t < window[2]

\* The actions the sorted list may begin with: those of the lowest weight; ties
\* come in the order in which the map was ranged over (mutant: sorted downwards).
Heaviest(A, content) ==
    IF A = {} THEN {"deny"}
    ELSE {content[a].action :
             a \in {b \in A : \A o \in A : content[b].weight >= content[o].weight}}
First(A, content) ==
    IF A = {} THEN {"deny"}
    ELSE {content[a].action :
             a \in {b \in A : \A o \in A : content[b].weight <= content[o].weight}}

\* (mutant: an ACL of either side)
AnySide(U, H) == U \cup H
Shared(U, H) == U \cap H

CheckACLs ==
    /\ pc = "check"
    /\ at' = now
    /\ base' \in First({a \in Shared(userAcls, hostAcls) : Active(userRead[a].window, now)},
                       userRead)
    /\ IF HookCmd
       THEN pc' = "hook" /\ UNCHANGED verdict
       ELSE pc' = "done" /\ verdict' = base'
    /\ UNCHANGED <<db, now, changes, readVars, hookVars, past>>

-----------------------------------------------------------------------------
(* The hook: exec.CommandContext(ctx, aclCheckCmd, args...).Output()          *)

\* It cannot be started: the action computed before stays.
HookNotStarted ==
    /\ pc = "hook" /\ hook = "none"
    /\ pc' = "done" /\ verdict' = base
    /\ UNCHANGED <<db, now, changes, readVars, base, at, hookVars, past>>

HookStarts ==
    /\ pc = "hook" /\ hook = "none"
    /\ hook' = "running"
    /\ UNCHANGED <<db, now, changes, pc, readVars, base, at, verdict, said, child, timedOut, past>>

\* A script that runs a command gives it its standard output.
HookForks ==
    /\ hook = "running"
    /\ child' = TRUE
    /\ UNCHANGED <<db, now, changes, pc, readVars, base, at, verdict, hook, said, timedOut, past>>

HookExits(x) ==
    /\ hook = "running"
    /\ hook' = "ended" /\ said' = x
    /\ UNCHANGED <<db, now, changes, pc, readVars, base, at, verdict, child, timedOut, past>>

\* (mutant: the deadline is noted and the command left to run)
HookOverdue ==
    /\ pc = "hook" /\ hook # "none" /\ ~ timedOut
    /\ timedOut' = TRUE
    /\ UNCHANGED <<db, now, changes, pc, readVars, base, at, verdict, hook, said, child, past>>

\* ACLHookTimeout is over: the command is killed, its children are not.
HookTimesOut ==
    /\ pc = "hook" /\ hook # "none" /\ ~ timedOut
    /\ timedOut' = TRUE
    /\ hook' = IF hook = "running" THEN "killed" ELSE hook
    /\ UNCHANGED <<db, now, changes, pc, readVars, base, at, verdict, said, child, past>>

ChildExits ==
    /\ child
    /\ child' = FALSE
    /\ UNCHANGED <<db, now, changes, pc, readVars, base, at, verdict, hook, said, timedOut, past>>

\* Output returns when the command has ended and nobody can write to the pipe.
\* An error, the deadline and a wrong output leave the action as it was.
Answered == hook = "ended" /\ ~ timedOut /\ said \in {"allow", "deny"}

HookReturn ==
    /\ pc = "hook"
    /\ hook \in {"ended", "killed"} /\ ~ child
    /\ verdict' = IF Answered THEN said ELSE base
    /\ pc' = "done"
    /\ UNCHANGED <<db, now, changes, readVars, base, at, hookVars, past>>

-----------------------------------------------------------------------------
(* Administrators, each command a transaction, and the clock                 *)

\* A command that changes nothing is none to the check.
Change(d) ==
    /\ db' = d /\ db' # db
    /\ past' = past \cup {db'}
    /\ changes' = changes + 1
    /\ UNCHANGED <<now, pc, readVars, base, at, verdict, hookVars>>

\* user update, host update; a group that is removed, or created under the ID of
\* one that was, changes who is in it the same way.
UserUpdate(G) == Change([db EXCEPT !.inUG = G])
HostUpdate(G) == Change([db EXCEPT !.inHG = G])

\* An ACL has a user group and a host group or, ignored by the check, a pattern.
\* The ID may be that of one that was removed (sqlite), whose groups it gets.
AclCreate(a, x, G, H) ==
    /\ a \notin db.acls /\ G # {}
    /\ x.action \in {"allow", "deny"}
    /\ Change([db EXCEPT !.acls = @ \cup {a}, !.content[a] = x,
                         !.ug[a] = @ \cup G, !.hg[a] = @ \cup H])

\* Unscoped().Delete deletes the rows; nothing deletes those of the join tables.
AclRm(A) ==
    /\ A # {} /\ A \subseteq db.acls
    /\ Change([db EXCEPT !.acls = @ \ A,
                         !.content = [a \in Acls |-> IF a \in A THEN NoContent ELSE @[a]]])

\* Updates writes the fields that are not empty: a weight of 0 stays what it was.
Updates == [action : Actions \cup {Keep}, weight : Weights \cup {0}, window : Windows \cup {Keep}]

Updated(c, x) ==
    [action |-> IF x.action = Keep THEN c.action ELSE x.action,
     weight |-> IF x.weight = 0 THEN c.weight ELSE x.weight,
     window |-> IF x.window = Keep THEN c.window ELSE x.window]

\* One command may set the fields, and link and unlink groups of both kinds.
AclUpdate(A, x, Gin, Gout, Hin, Hout) ==
    /\ A # {} /\ A \subseteq db.acls
    /\ Gin \cap Gout = {} /\ Hin \cap Hout = {}   \* given both, the group goes
    /\ Change([db EXCEPT
                !.content = [a \in Acls |-> IF a \in A THEN Updated(@[a], x) ELSE @[a]],
                !.ug = [a \in Acls |-> IF a \in A THEN (@[a] \cup Gin) \ Gout ELSE @[a]],
                !.hg = [a \in Acls |-> IF a \in A THEN (@[a] \cup Hin) \ Hout ELSE @[a]]])

Tick ==
    /\ now < MaxTime /\ ~ Over
    /\ now' = now + 1
    /\ UNCHANGED <<db, changes, pc, readVars, base, at, verdict, hookVars, past>>

-----------------------------------------------------------------------------
Check ==
    \/ ReadUserGroups \/ ReadUserJoin \/ ReadUserACLs
    \/ ReadHostGroups \/ ReadHostJoin \/ ReadHostACLs
    \/ ReadFails
    \/ CheckACLs
    \/ HookNotStarted \/ HookStarts \/ HookReturn

Hook == HookForks \/ \E x \in {"allow", "deny", "junk", "error"} : HookExits(x)

Administrators ==
    /\ changes < MaxChanges /\ ~ Over
    /\ \/ \E G \in SUBSET UserGroups : UserUpdate(G)
       \/ \E G \in SUBSET HostGroups : HostUpdate(G)
       \/ \E a \in Acls, x \in Contents, G \in SUBSET UserGroups, H \in SUBSET HostGroups :
               AclCreate(a, x, G, H)
       \/ \E A \in SUBSET Acls :
           \/ AclRm(A)
           \/ \E x \in Updates, Gin, Gout \in SUBSET UserGroups, Hin, Hout \in SUBSET HostGroups :
               AclUpdate(A, x, Gin, Gout, Hin, Hout)

Next == Check \/ Hook \/ HookTimesOut \/ ChildExits \/ Administrators \/ Tick

Spec == Init /\ [][Next]_vars

\* Go runs the check and fires its timer.  A hook may never end; its children do.
FairSpec == Spec /\ WF_vars(Check) /\ WF_vars(HookTimesOut) /\ WF_vars(ChildExits)

-----------------------------------------------------------------------------
(* Properties                                                                *)

\* The ACLs of a database that allow, and those that object where they apply.
InForce(d) == {a \in d.acls : Active(d.content[a].window, at)}
Allowing(d) == {a \in InForce(d) : d.content[a].action = "allow"}
Applying(d) == {a \in InForce(d) : d.inUG \cap d.ug[a] # {} /\ d.inHG \cap d.hg[a] # {}}
Objecting(d) == {a \in Applying(d) : d.content[a].action # "allow"}

\* What grants in database e is in d as well, with no less reach and no more
\* weight, and what objects in d still does in e.
AtLeastAsGenerous(d, e) ==
    /\ e.inUG \subseteq d.inUG /\ e.inHG \subseteq d.inHG
    /\ \A a \in Allowing(e) : a \in Allowing(d) /\ d.content[a].weight <= e.content[a].weight
    /\ \A a \in Allowing(d) : e.ug[a] \subseteq d.ug[a] /\ e.hg[a] \subseteq d.hg[a]
    /\ \A b \in Objecting(d) : /\ b \in InForce(e) \ Allowing(e)
                               /\ e.content[b].weight <= d.content[b].weight
                               /\ d.inUG \cap d.ug[b] \subseteq e.inUG \cap e.ug[b]
                               /\ d.inHG \cap d.hg[b] \subseteq e.inHG \cap e.hg[b]

\* Six reads may mix two databases into a verdict that neither has.  They cannot
\* when the commands beside the check only take rights, or only give them: if one
\* database of the check is as generous as all the others, access is granted only
\* if the ACLs grant it in that one.
RevokingNeverGrants ==
    pc \in {"hook", "done"} /\ base = "allow" =>
        \A d \in past :
            (\A e \in past : AtLeastAsGenerous(d, e)) =>
                \E a \in Allowing(d) \cap Applying(d) :
                    \A b \in Objecting(d) : d.content[a].weight <= d.content[b].weight

\* Whatever changes during the check, access is granted by an ACL only: one whose
\* row allowed at the time of the check, that was given to a group the user was
\* in and to a group the host was in; each at some moment since it began.
GrantHasCause ==
    pc \in {"hook", "done"} /\ base = "allow" =>
        \E a \in Acls :
            /\ \E d \in past : /\ a \in d.acls /\ d.content[a].action = "allow"
                               /\ Active(d.content[a].window, at)
            /\ \E g \in UserGroups : (\E d \in past : g \in d.inUG) /\ (\E d \in past : g \in d.ug[a])
            /\ \E h \in HostGroups : (\E d \in past : h \in d.inHG) /\ (\E d \in past : h \in d.hg[a])

\* The pieces cannot lose a rule: an ACL that is there, in force and linked on both
\* sides in every database of the check decides it if whatever has another action
\* weighs more in all of them, and whatever else the administrators change.
Standing(a) ==
    \E g \in UserGroups, h \in HostGroups : \A d \in past :
        /\ a \in d.acls /\ Active(d.content[a].window, at)
        /\ g \in d.inUG \cap d.ug[a] /\ h \in d.inHG \cap d.hg[a]
StandingRuleHolds ==
    pc \in {"hook", "done"} =>
        \A a \in Acls, v \in Actions :
            /\ Standing(a) /\ \A d \in past : d.content[a].action = v
            /\ \A d, e \in past : \A b \in d.acls :
                  d.content[b].action # v => e.content[a].weight < d.content[b].weight
            => base = v

\* "ACLHookTimeout is timeout for external ACL hook execution": a check that
\* started its hook comes to an end, once the children that hold the hook's
\* output have; the timeout alone does not end it.
HookEnds == pc = "hook" ~> pc = "done"
=============================================================================
