-------------------------------- MODULE Auth --------------------------------
(***************************************************************************)
(* Who a connection is.  PublicKeyAuthHandler (pkg/bastion/ssh.go) accepts *)
(* every key and looks up whose it is, or redeems an invite with it;       *)
(* PasswordAuthHandler lets the healthcheck in; ChannelHandler and         *)
(* ShellHandler act on what they found, and the shell of an administrator  *)
(* (pkg/bastion/shell.go) changes users, keys, tokens and roles meanwhile. *)
(* Every query is a step of its own: no transaction holds them together.   *)
(***************************************************************************)
EXTENDS Integers

CONSTANTS
    Conns,      \* connections
    Keys,       \* public keys of clients
    Tokens,     \* invite tokens, random or chosen by an administrator
    NoToken,    \* the empty token: a user nobody can be invited as
    NoKey,      \* a slot without a connection
    SeedToken,  \* the token of the administrator that DBInit creates
    MaxUsers,   \* bound: users
    MaxRows,    \* bound: user_keys rows ever created
    MaxCommands, \* bound: commands of administrators
    QueriesFail \* whether the database may refuse a query

ASSUME AuthAssumption ==
    /\ SeedToken \in Tokens /\ NoToken \notin Tokens /\ NoKey \notin Keys
    /\ MaxUsers \in Nat \ {0} /\ MaxRows \in Nat /\ MaxCommands \in Nat
    /\ QueriesFail \in BOOLEAN

Users == 1 .. MaxUsers      \* User.ID, in the order of creation
Nobody == 0                 \* the ID of a User that was never read
Rows == [id : 1 .. MaxRows, key : Keys, user : Users]

\* What the client logged in as.  "shell" is the name admin; the user's own
\* name behaves like admin if the key is that user's and like a host if not.
\* "other" is the name of a host, or healthcheck.
Kinds == {"shell", "invite", "other"}

\* A user as a command read it.
Found == [id : Users \cup {Nobody}, token : Tokens \cup {NoToken}]
NotFound == [id |-> Nobody, token |-> NoToken]

VARIABLES
    users,      \* the users that exist
    token,      \* [Users -> Tokens \cup {NoToken}] User.InviteToken
    admins,     \* users with the role admin
    rows,       \* the user_keys table
    nextRow,    \* the ID of its next row
    commands,   \* how many commands were run
    adding,     \* [Conns -> Found] the user a `userkey create` adds keys to
    pc,         \* [Conns -> PC]
    kind,       \* [Conns -> Kinds] authContext.userType()
    key,        \* [Conns -> Keys \cup {NoKey}] the key the client offers
    given,      \* [Conns -> Tokens \cup {NoToken}] the token after "invite:"
    owner,      \* [Conns -> Users \cup {Nobody}] actx.userKey.UserID
    user,       \* [Conns -> Users \cup {Nobody}] actx.user.ID
    asAdmin,    \* connections whose actx.user.Roles holds admin
    err,        \* connections with an actx.err
    welcomed,   \* connections with an actx.message
    held,       \* history: users that held the key while the handler ran
    invited,    \* history: users that held the token while it ran
    ranked      \* history: administrators while it ran

dbVars == <<users, token, admins, rows, nextRow, commands, adding>>
actxVars == <<kind, key, given, owner, user, asAdmin, err, welcomed>>
vars == <<users, token, admins, rows, nextRow, commands, adding, pc, kind, key, given,
          owner, user, asAdmin, err, welcomed, held, invited, ranked>>

\* The handlers stand before the query of that name, or are past them.
PC == {"idle", "findKey", "findUser", "findRoles", "findToken", "createKey",
       "clearToken", "accepted", "shell"}

DBType ==
    /\ users \subseteq Users /\ admins \subseteq Users
    /\ token \in [Users -> Tokens \cup {NoToken}]
    /\ rows \subseteq Rows
    /\ nextRow \in 1 .. MaxRows + 1
    /\ commands \in 0 .. MaxCommands
    /\ adding \in [Conns -> Found]

ConnType ==
    /\ pc \in [Conns -> PC]
    /\ kind \in [Conns -> Kinds]
    /\ key \in [Conns -> Keys \cup {NoKey}]
    /\ \A c \in Conns : key[c] = NoKey => pc[c] = "idle"
    /\ given \in [Conns -> Tokens \cup {NoToken}]
    /\ asAdmin \subseteq Conns /\ err \subseteq Conns /\ welcomed \subseteq Conns

UserType ==
    /\ owner \in [Conns -> Users \cup {Nobody}]
    /\ user \in [Conns -> Users \cup {Nobody}]
    /\ \A c \in Conns : pc[c] = "findUser" => owner[c] # Nobody
    /\ \A c \in Conns :
          pc[c] \in {"findRoles", "createKey", "clearToken", "shell"} => user[c] # Nobody

HistoryType ==
    /\ held \in [Conns -> SUBSET Users]
    /\ invited \in [Conns -> SUBSET Users]
    /\ ranked \in [Conns -> SUBSET Users]

TypeOK == DBType /\ ConnType /\ UserType /\ HistoryType

\* What DBInit leaves on an empty database: one user, invited, no key.
Init ==
    /\ users = {1}
    /\ token = [u \in Users |-> IF u = 1 THEN SeedToken ELSE NoToken]
    /\ admins = {1}
    /\ rows = {} /\ nextRow = 1 /\ commands = 0
    /\ adding = [c \in Conns |-> NotFound]
    /\ pc = [c \in Conns |-> "idle"]
    /\ kind = [c \in Conns |-> "other"]
    /\ key = [c \in Conns |-> NoKey]
    /\ given = [c \in Conns |-> NoToken]
    /\ owner = [c \in Conns |-> Nobody]
    /\ user = [c \in Conns |-> Nobody]
    /\ asAdmin = {} /\ err = {} /\ welcomed = {}
    /\ held = [c \in Conns |-> {}]
    /\ invited = [c \in Conns |-> {}]
    /\ ranked = [c \in Conns |-> {}]

-----------------------------------------------------------------------------
(* Queries.  First orders by primary key.                                    *)

\* (mutant: Last)
LastRow(r, k) ==
    /\ r \in rows /\ r.key = k
    /\ \A q \in rows : q.key = k => r.id >= q.id

\* db.Where("authorized_key = ?", k).First
FirstRow(r, k) ==
    /\ r \in rows /\ r.key = k
    /\ \A q \in rows : q.key = k => r.id <= q.id

\* The invited users of that token.  An empty token must not be looked up: it
\* is what every user without an invite has.
Invited(t) == {u \in users : token[u] = t}

FirstInvited(u, t) == u \in Invited(t) /\ \A v \in Invited(t) : u <= v

-----------------------------------------------------------------------------
(* The handlers                                                              *)

Goto(c, l) == pc' = [pc EXCEPT ![c] = l]

\* A new connection, in a slot that is free.
Connect(c, n, k, t) ==
    /\ pc[c] = "idle"
    /\ t # NoToken => n = "invite"
    /\ Goto(c, "findKey")
    /\ kind' = [kind EXCEPT ![c] = n]
    /\ key' = [key EXCEPT ![c] = k]
    /\ given' = [given EXCEPT ![c] = t]
    /\ UNCHANGED <<dbVars, owner, user, asAdmin, err, welcomed>>

\* The connection is over, and its authContext with it.
Leave(c) ==
    /\ Goto(c, "idle")
    /\ kind' = [kind EXCEPT ![c] = "other"]
    /\ key' = [key EXCEPT ![c] = NoKey]
    /\ given' = [given EXCEPT ![c] = NoToken]
    /\ owner' = [owner EXCEPT ![c] = Nobody]
    /\ user' = [user EXCEPT ![c] = Nobody]
    /\ asAdmin' = asAdmin \ {c}
    /\ err' = err \ {c}
    /\ welcomed' = welcomed \ {c}
    /\ UNCHANGED <<dbVars>>

\* PasswordAuthHandler: only the healthcheck, whatever the password; it is
\* answered "OK", and nobody else is let in.
PasswordAuth(c) ==
    /\ pc[c] = "findKey"
    /\ Leave(c)

\* The key is somebody's.
FindKey(c) ==
    /\ pc[c] = "findKey"
    /\ \E r \in rows : FirstRow(r, key[c]) /\ owner' = [owner EXCEPT ![c] = r.user]
    /\ Goto(c, "findUser")
    /\ UNCHANGED <<dbVars, kind, key, given, user, asAdmin, err, welcomed>>

\* The key is nobody's, or the database did not say: the error is dropped.
\* What follows is an invite, or the fallback "unknown ssh key".
FindKeyFails(c) ==
    /\ pc[c] = "findKey"
    /\ QueriesFail \/ ~ \E r \in rows : r.key = key[c]
    /\ Goto(c, IF kind[c] = "invite" THEN "findToken" ELSE "accepted")
    /\ err' = IF kind[c] = "invite" THEN err ELSE err \cup {c}
    /\ UNCHANGED <<dbVars, kind, key, given, owner, user, asAdmin, welcomed>>

\* A known key needs no invite.
InviteErr(c) == IF kind[c] = "invite" THEN err \cup {c} ELSE err

FindUser(c) ==
    /\ pc[c] = "findUser"
    /\ owner[c] \in users
    /\ user' = [user EXCEPT ![c] = owner[c]]
    /\ Goto(c, "findRoles")
    /\ UNCHANGED <<dbVars, kind, key, given, owner, asAdmin, err, welcomed>>

\* The user of the key is gone, or the query failed: actx.user stays zero and
\* the connection is accepted all the same.
FindUserFails(c) ==
    /\ pc[c] = "findUser"
    /\ QueriesFail \/ owner[c] \notin users
    /\ err' = InviteErr(c)
    /\ Goto(c, "accepted")
    /\ UNCHANGED <<dbVars, kind, key, given, owner, user, asAdmin, welcomed>>

\* Preload("Roles"), a query of its own; the roles are not read again.
FindRoles(c) ==
    /\ pc[c] = "findRoles"
    /\ asAdmin' = IF user[c] \in admins THEN asAdmin \cup {c} ELSE asAdmin
    /\ err' = InviteErr(c)
    /\ Goto(c, "accepted")
    /\ UNCHANGED <<dbVars, kind, key, given, owner, user, welcomed>>

FindRolesFails(c) ==
    /\ pc[c] = "findRoles"
    /\ QueriesFail
    /\ err' = InviteErr(c)
    /\ Goto(c, "accepted")
    /\ UNCHANGED <<dbVars, kind, key, given, owner, user, asAdmin, welcomed>>

\* (mutant: an empty token is looked up)
MayLookUpAny(t) == t = t
MayLookUp(t) == t # NoToken

FindToken(c) ==
    /\ pc[c] = "findToken"
    /\ MayLookUp(given[c])
    /\ \E u \in users : FirstInvited(u, given[c]) /\ user' = [user EXCEPT ![c] = u]
    /\ Goto(c, "createKey")
    /\ UNCHANGED <<dbVars, kind, key, given, owner, asAdmin, err, welcomed>>

\* "your token is invalid or expired"
FindTokenFails(c) ==
    /\ pc[c] = "findToken"
    /\ QueriesFail \/ ~ MayLookUp(given[c]) \/ Invited(given[c]) = {}
    /\ err' = err \cup {c}
    /\ Goto(c, "accepted")
    /\ UNCHANGED <<dbVars, kind, key, given, owner, user, asAdmin, welcomed>>

\* The ID of a new row.
NewId == nextRow

AddRow(k, u) ==
    /\ nextRow <= MaxRows
    /\ rows' = rows \cup {[id |-> NewId, key |-> k, user |-> u]}
    /\ nextRow' = nextRow + 1

\* db.Create(&actx.userKey)
CreateKey(c) ==
    /\ pc[c] = "createKey"
    /\ AddRow(key[c], user[c])
    /\ Goto(c, "clearToken")
    /\ owner' = [owner EXCEPT ![c] = user[c]]
    /\ UNCHANGED <<users, token, admins, commands, adding, kind, key, given, user,
                   asAdmin, err, welcomed>>

\* ... and its error is not looked at.
CreateKeyFails(c) ==
    /\ pc[c] = "createKey"
    /\ QueriesFail
    /\ Goto(c, "clearToken")
    /\ owner' = [owner EXCEPT ![c] = user[c]]
    /\ UNCHANGED <<dbVars, kind, key, given, user, asAdmin, err, welcomed>>

\* Updates(&actx.user) with InviteToken = "": a struct update writes the fields
\* that are not empty, so that the row keeps the token it has.
ClearToken(c) ==
    /\ pc[c] = "clearToken"
    /\ welcomed' = welcomed \cup {c}
    /\ Goto(c, "accepted")
    /\ UNCHANGED <<dbVars, kind, key, given, owner, user, asAdmin, err>>

\* ChannelHandler refuses a connection of nobody; ShellHandler ends one with an
\* error; what is left under the name of the user, or admin, gets the shell.
GetsShell(c) == kind[c] = "shell" /\ user[c] # Nobody /\ c \notin err

OpenShell(c) ==
    /\ pc[c] = "accepted"
    /\ GetsShell(c)
    /\ Goto(c, "shell")
    /\ UNCHANGED <<dbVars, actxVars>>

\* An invite and the healthcheck end with their message, the refused with an
\* error, and a host is dialed (module Channel).
NoShell(c) ==
    /\ pc[c] = "accepted"
    /\ ~ GetsShell(c)
    /\ Leave(c)

\* A shell runs one command after the other.
AtPrompt(c) == pc[c] = "shell" /\ adding[c] = NotFound

Exit(c) ==
    /\ AtPrompt(c)
    /\ Leave(c)

-----------------------------------------------------------------------------
(* The shell of an administrator; CheckRoles asks the roles of the login.    *)

\* (mutant: a command that does not check)
CheckNothing(c) == TRUE
CheckRoles(c) == c \in asAdmin

Begin(c) ==
    /\ AtPrompt(c) /\ CheckRoles(c)
    /\ commands < MaxCommands
    /\ commands' = commands + 1
    /\ UNCHANGED <<pc, actxVars>>

Command(c) == Begin(c) /\ UNCHANGED adding

\* user invite: a random token is none that is in use, and an ID may be one
\* that was removed (sqlite takes the largest and adds one).
InviteUser(c, u, t) ==
    /\ Command(c)
    /\ u \notin users
    /\ \A v \in users : token[v] # t
    /\ users' = users \cup {u}
    /\ token' = [token EXCEPT ![u] = t]
    /\ UNCHANGED <<admins, rows, nextRow>>

\* user rm deletes the row; the keys of the user stay.
UserRm(c, u) ==
    /\ Command(c)
    /\ u \in users
    /\ users' = users \ {u}
    /\ UNCHANGED <<token, admins, rows, nextRow>>

\* user update --invite_token
SetToken(c, u, t) ==
    /\ Command(c)
    /\ u \in users
    /\ token' = [token EXCEPT ![u] = t]
    /\ UNCHANGED <<users, admins, rows, nextRow>>

\* user update --remove_invite
RemoveInvite(c, u) ==
    /\ Command(c)
    /\ u \in users
    /\ token' = [token EXCEPT ![u] = NoToken]
    /\ UNCHANGED <<users, admins, rows, nextRow>>

\* user update --assign-role admin, --unassign-role admin
AssignRole(c, u) ==
    /\ Command(c)
    /\ u \in users
    /\ admins' = admins \cup {u}
    /\ UNCHANGED <<users, token, rows, nextRow>>

UnassignRole(c, u) ==
    /\ Command(c)
    /\ u \in users
    /\ admins' = admins \ {u}
    /\ UNCHANGED <<users, token, rows, nextRow>>

\* userkey create finds the user and waits for keys ...
UserkeyFind(c, u) ==
    /\ Begin(c)
    /\ u \in users
    /\ adding' = [adding EXCEPT ![c] = [id |-> u, token |-> token[u]]]
    /\ UNCHANGED <<users, token, admins, rows, nextRow>>

\* ... of which each becomes a row, nested in which is the user: one that was removed
\* meanwhile is inserted again as it was read, unless its ID or its name is taken.
SavesUser(f) ==
    \/ /\ f.id \notin users
       /\ users' = users \cup {f.id}
       /\ token' = [token EXCEPT ![f.id] = f.token]
    \/ (f.id \in users \/ users # {}) /\ UNCHANGED <<users, token>>

\* Nothing asks whether another user has the key.
UserkeyCreate(c, k) ==
    /\ pc[c] = "shell" /\ adding[c].id # Nobody
    /\ AddRow(k, adding[c].id)
    /\ SavesUser(adding[c])
    /\ UNCHANGED <<admins, commands, adding, pc, actxVars>>

\* A blank line, the end of the input, no key, or a row the database refused.
UserkeyEnds(c) ==
    /\ pc[c] = "shell" /\ adding[c].id # Nobody
    /\ adding' = [adding EXCEPT ![c] = NotFound]
    /\ UNCHANGED <<users, token, admins, rows, nextRow, commands, pc, actxVars>>

UserkeyRm(c, r) ==
    /\ Command(c)
    /\ r \in rows
    /\ rows' = rows \ {r}
    /\ UNCHANGED <<users, token, admins, nextRow>>

-----------------------------------------------------------------------------
Handler(c) ==
    \/ PasswordAuth(c)
    \/ FindKey(c) \/ FindKeyFails(c)
    \/ FindUser(c) \/ FindUserFails(c)
    \/ FindRoles(c) \/ FindRolesFails(c)
    \/ FindToken(c) \/ FindTokenFails(c)
    \/ CreateKey(c) \/ CreateKeyFails(c)
    \/ ClearToken(c)
    \/ OpenShell(c) \/ NoShell(c) \/ Exit(c)

Shell(c) ==
    \/ \E u \in Users :
        \/ UserRm(c, u)
        \/ RemoveInvite(c, u)
        \/ AssignRole(c, u) \/ UnassignRole(c, u)
        \/ \E t \in Tokens : InviteUser(c, u, t) \/ SetToken(c, u, t)
        \/ UserkeyFind(c, u)
    \/ \E k \in Keys : UserkeyCreate(c, k)
    \/ UserkeyEnds(c)
    \/ \E r \in rows : UserkeyRm(c, r)

Step ==
    \E c \in Conns :
        \/ \E n \in Kinds, k \in Keys, t \in Tokens \cup {NoToken} : Connect(c, n, k, t)
        \/ Handler(c)
        \/ Shell(c)

\* What was true at some moment while the handler ran.
HoldersOf(k) == {r.user : r \in {q \in rows : q.key = k}}
InvitedBy(t) == IF t = NoToken THEN {} ELSE Invited(t)

Since(c, before, now) ==
    CASE pc'[c] = "idle" -> {}
      [] pc'[c] \in {"accepted", "shell"} -> before
      [] OTHER -> before \cup now

History ==
    /\ held' = [c \in Conns |-> Since(c, held[c], HoldersOf(key[c])')]
    /\ invited' = [c \in Conns |-> Since(c, invited[c], InvitedBy(given[c])')]
    /\ ranked' = [c \in Conns |-> Since(c, ranked[c], admins')]

Next == Step /\ History

Spec == Init /\ [][Next]_vars

-----------------------------------------------------------------------------
(* Properties                                                                *)

\* A connection acts as a user only if its key was that user's, or its invite
\* token that user's, at some moment while the handler ran: whatever
\* administrators change between its queries, and whichever of them fail
\* (PublicKeyAuthHandler; an empty token invites nobody).
IdentityVouched ==
    \A c \in Conns : user[c] # Nobody => user[c] \in held[c] \cup invited[c]

\* A connection that is told "Your key is now associated with the user" has a
\* key that was, at some moment, associated with that user, if no query fails.
WelcomeIsTrue == \A c \in welcomed : user[c] \in held[c]

\* Users, tokens and roles change only at the hand of a connection whose user
\* was an administrator when it logged in; so do the rows that go, and those that
\* come other than by the invite of the user they are for (CheckRoles of every
\* command, with roles cached at login).
TablesChange == <<users, token, admins>>' # <<users, token, admins>> \/ ~ (rows \subseteq rows')

AdminsCommand ==
    [][TablesChange => \E c \in Conns : pc[c] = "shell" /\ user[c] \in ranked[c]]_vars

\* A key that is somebody's stays that user's for as long as its row exists,
\* whatever rows invites and administrators add for it: the handler takes the
\* first (PublicKeyAuthHandler, userkey create).
OwnerStays == [][\A r \in rows : FirstRow(r, r.key) /\ r \in rows' => FirstRow(r, r.key)']_vars
=============================================================================
