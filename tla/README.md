# sshportal in TLA+

sshportal is an SSH bastion: clients connect to it under the name of a target
host, it authenticates them by key against its database, checks ACLs, dials the
target (through other hosts where a hop is configured) and relays the channel.
Under an administrator's name the same port serves a command shell that manages
the database.  This directory holds TLA+ models of that code, the TLC runs that
check them, and TLAPS proofs.

## Inventory

| part | source | state | operations | what makes it hard | what makes it correct |
|---|---|---|---|---|---|
| channel relay | `session.go` `pipe` | two channels, four goroutines, the one-slot Go channels `errch` and `quit`, four flags | copy, forward a request, report, select, close | order of quit messages, requests that race a close, blocked senders | nothing is cut short, EOF after data, no goroutine left, it ends |
| channel handling | `ssh.go` `ChannelHandler`, `session.go` `multiChannelHandler` | the chain of hops, the open clients, the client's channel | route, look up, clear with the ACLs, dial each hop, open, refuse | the database changes between queries, every step can fail, the client leaves | only cleared hosts are dialed, the chain leads to the target, every request is answered, every failure closes |
| session records | `ssh.go` 158-188, `dbinit.go` 673-677 | rows of `sessions` | create, final update, close at start | crashes, several servers, lost updates | a live session is active, a closed one stays closed, none is active for ever |
| authentication | `ssh.go` 241-370, `shell.go` user, userkey | users, keys, invite tokens, roles, the `authContext` of a connection | look up a key, redeem an invite, the healthcheck password, the shell for administrators | several connections and administrators between the queries of one handler, dropped errors, struct updates that skip empty fields | a connection is only whom a key or token vouched for, only administrators command, a key stays its user's |
| host key discovery | `ssh.go` 62-74 | `Host.HostKey` | trust on first use, compare | concurrent first connections that read the row before either writes it | a stored key is not replaced by a connection |
| ACL evaluation | `acl.go`, `ssh.go` 220-229 | groups, ACLs, time windows, the hook | intersect, sort by weight, ask the hook | six queries, ties, hook failures and timeouts | what is taken away grants nothing, access has a cause, a rule that stands is not lost, a check with a hook ends |
| migrations and seeds | `dbinit.go` | schema, `migrations` table, default rows | 32 migrations, seeds | a stop between effect and record, two servers | a server that is up has a complete database, a later start undoes nothing |
| shell | `shell.go` | every table, one transaction per command | create, update, rm, backup, restore, invite | returns without rollback, roles cached at login | all or nothing, admins only |
| encryption at rest, backup | `crypto.go`, `shell.go` 376-625 | `PrivKey`, the backup file | encrypt on create and restore, decrypt on use and backup | paths that do one of the two too often, a backup of many queries, rows nested in rows | no key is sealed twice, none is clear unasked, a restore brings back what was there |
| tunnel log | `logtunnel.go` | a file two goroutines write to | header, host, data | interleaved writes | frames stay whole |
| telnet, healthcheck, command line | `telnet.go`, `healthcheck.go`, `main.go` | little | line splitting, retry | - | - |

The parts meet in three places: `ChannelHandler` reads what the shell of
another connection writes (no transaction spans its queries); the relay runs
in the goroutine `ChannelHandler` starts and its return ends the session's
row; and `DBInit` of any starting server writes the rows of all servers.

## Modules

| module | what it is |
|---|---|
| `Relay` | what the client and the host may rely on: the abstract specification of a relay |
| `Pipe` | `pipe()`: every goroutine is a program counter, every channel operation a step; it implements `Relay` |
| `PipeProofs` | its inductive invariant, the invariants of the runs, the refinement, that nobody is stuck, and a measure that every step makes smaller |
| `Channel` | `ChannelHandler` and `multiChannelHandler` for one channel request |
| `MCChannel` | the symmetry of the hosts for TLC |
| `ChannelProofs` | all of its invariants |
| `SessionLedger` | what a reader of the sessions table may rely on: the abstract specification |
| `Sessions` | the table as servers write it; for one server it implements `SessionLedger` |
| `SessionsProofs` | type correctness, the invariants and the refinement |
| `Auth`, `MCAuth` | who a connection is: the public key and password handlers, the way into the shell, and the commands that change users, keys, tokens and roles |
| `AuthProofs` | who vouches for a connection, who commands, whose a key stays |
| `Acl`, `MCAcl` | one access check with its hook, while administrators change groups and ACLs |
| `AclProofs` | type correctness, the cause of every granted access, that a rule nobody touches is not lost, that nothing is granted beside commands that only take (or only give) but what the most generous database grants, what the hook's deadline binds |
| `DbInit` | `DBInit` of one server that may stop anywhere |
| `DbInitProofs` | type correctness, the properties of the run but `Starts`, and two facts about `Starts` that need no fairness |
| `AtomicCommands` | what an administrator may rely on: a command happens as a whole or not at all |
| `AdminTx`, `MCAdminTx` | the commands that write ACLs, hosts, users and groups, with their transactions and the lock of the database; it implements `AtomicCommands` |
| `AdminTxProofs` | type correctness, the invariants, the refinement, and what a lock does that was not given back |
| `Vault`, `MCVault` | private keys and the keys of hosts: sealing, backup, restore, trust on first use |
| `VaultProofs` | all of its properties |

The modules that touch the same code divide it: `Channel` takes the verdict of
`bastionClientConfig` as given, `Acl` looks into it; `Channel` leaves a relay at
`PipeReturns`, `Pipe` is that relay; the commands that change what `Channel`, `Acl` and
`Auth` read are one step there and the steps of `AdminTx` here, which `AtomicSpec` shows
to come to the same.

### Relay and Pipe

`Relay` has no goroutines, messages or flags.  A side's peer sends, asks, finishes and
leaves; until it ends, the relay gives and passes what the other side sent, in order;
tells a peer that is still there of an end only behind all the data (`TellsEnd`); closes
a side only when the other peer has left and nothing is owed (`Closes`); ends well only
when each peer has everything or left by itself (`EndsWell`); and fails before anything
was relayed or behind a close (`Fails`).  The mapping is by name: `given` is `got`,
`passed` is `reqGot`, `gone` is `peerClosed`, `shut` is `sentClose`, `eof` is `sentEOF`.
Standard error is not in it, because `pipe` does not relay it, and neither is what
`pipe_truncates` refutes: a peer that stays may miss data when the relay fails.

In `Pipe`, `lch` is the channel to the client, `rch` the one to the host.  A chunk of data
is a unit: `sent[s]` were received from the peer of `s`, `read[s]` of them taken
by `io.Copy`, `got[s]` written to `s`; `reqSent`, `reqRead`, `reqGot` count
requests the same way.  `copier[s]` and `fwd[s]` are where the goroutines of side
`s` are; a goroutine stands between its `Read` and its `Write`, between
`SendRequest` and its reply, and before each send on `errch` or `quit`, and any
other may run there.  `seen` is the set of quit messages received: the four
booleans of the code.  `select` picks either ready channel.

The semantics of the two channels is that of `golang.org/x/crypto/ssh` as `pipe`
uses it: after `Close` was sent every write and request fails with EOF; after
`CloseWrite` data writes fail; the peer's close is answered with ours, ends the
request channel once it is drained, and leaves received data readable; data and
extended data share one receive window, which only reads give back.  `io.Copy`
reads the main stream only.  The type of the channel and the logging mode choose
which wrapper the copies go through, which changes what is logged and not what is
relayed; only the failure to open the log file is kept (`OpenLogFails`).

### Channel

One request from `route` to `done`.  The database is `hosts`, `hop` and `allowed`
(the verdict of `bastionClientConfig` for this user: an authentication method, the
two rows, the ACLs), and `Change` lets administrators alter any of them between
two steps.  `everAllowed` and `everHop` remember what was true at some moment since
the request: the code reads at different moments, so that is what it can promise.
Each query, dial and open may fail.  `cur` and `curHop` are `currentHost` and the
`HopID` it was read with.

The code asks gorm for `Association("HopID")`, a column, where `Hop` is the
relation.  The gorm version of `go.mod` answers that with an error, so that the
step `LookUpHopFails` is the one a deployment sees; `LookUpHop`, the one the code
was written for, is kept beside it because gorm is not part of the repository.

The answer to a client whose address does not resolve (`ssh.go` 93) is not
distinguished: an address of an accepted TCP connection always does.

### SessionLedger and Sessions

A row has a status, a message and perhaps a `StoppedAt`.  A server is down, in
`DBInit`, or up; it accepts connections only when up.  `Crash` ends a server with
its goroutines wherever they are.  `Updates` of a struct writes only fields that
are not empty, which is why the message of a session that ends with a nil error
keeps what another server wrote (`ErrMsgAfter`), and why `CloseUnclosed` leaves
`StoppedAt` alone.  `SessionLedger` has neither servers nor crashes: `Start`,
`End`, `Close`.

### Auth

`users`, `token`, `admins` and `rows` are the tables; a row of `user_keys` is its ID,
its key and its user.  `pc[c]` stands before the query the handler of connection `c`
does next (`FindKey`, `FindUser`, `FindRoles`, `FindToken`, `CreateKey`,
`ClearToken`), and everything of other connections may come between.  `owner[c]` and
`user[c]` are `actx.userKey.UserID` and `actx.user.ID`, `asAdmin` the roles the login
read, `err` and `welcomed` the two messages.  With `QueriesFail` any query may fail;
the handler drops those errors, so a failed query looks like one without a row.
The commands are those of a shell whose login had the role, for as long as it is
open.  IDs of users are those sqlite gives: a removed user's may be given again.
`userkey create` finds its user (`UserkeyFind`), waits for keys to be pasted and writes a
row for each (`UserkeyCreate`) until it ends (`UserkeyEnds`); the row holds the user as it
was found, and gorm inserts it again if it is gone (`SavesUser`) unless its ID or its name
has another owner by then.  `adding` is that user, for as long as the command runs.

Names are not state.  A login under a user's own name is the shell if the key is
that user's and a host if not, so it is `shell` or `other` from the start.  Names
and emails that `ClearToken` writes back with the user are left out; the token it
does not write back is the point (an update of a struct skips empty fields).
`held`, `invited` and `ranked` are history: who had the key, the token, the role
while the handler ran.

### Acl

`db` is what the check depends on: the groups of the one user and the one host,
the ACLs, and the two join tables, whose rows stay when `acl rm` removes an ACL.
Each `Preload` is a query of a join table and one of the rows (`ReadUserGroups`,
`ReadUserJoin`, `ReadUserACLs`, and the same for the host), with `Change` between
any two.  `CheckACLs` intersects, drops what has expired and sorts by weight; ties
come in the order of a Go map.  `past` remembers the databases of the check.
`AclUpdate` writes what `acl update` does in its one transaction: fields, groups that are
linked and groups that are unlinked, of both kinds and for several ACLs.

A check that reads half of such a command may grant what neither database grants, as it
may with two commands, so that no property says that a verdict is that of one moment.
What the six queries cannot do is proved for all commands: they grant for no reason that
never was (`GrantHasCause`), lose no rule that stands (`StandingRuleHolds`), and make
nothing of commands that all take rights, or all give them, but what the most generous of
the databases grants (`RevokingNeverGrants`): a right that is being taken away in several
places is not granted because the check saw some of them.

The hook is a process: it may not start, print anything, fork, hang, be killed at
the deadline.  `cmd.Output()` returns when the process has ended and nobody
holds its standard output (`child`), which is how `os/exec` behaves.  A host pattern
is stored with an ACL and never looked at, in the code as in the model.

### DbInit

A migration is a number; its kind says what it does: `BuildTable` (`AutoMigrate`
adds what is missing), `DropIndex` and `CreateIndex`, `CreateRole`, a loop over rows
(`ReadRows`, `WriteRow`, `LoopEnds`) or one update of all hosts (`SetLogging`).
gormigrate asks for its record before (`AlreadyRan`, `NotYetRan`) and writes it
behind (`Record`), without a transaction by default.  Then six kinds of rows are
counted and created (`CountSome`, `CountNone`, `CreateSeed`).  `Crash` may come
anywhere; it stands for a query that fails as well, since `DBInit` returns its error
and the process ends.  The three look-ups of default groups (597, 599, 615) are the
exception, their errors are dropped: in `FindGroups` any of them may fail, or find no row,
and the ACL or the user is created without that link (in the code with a link to a group
without a name, which gorm inserts).  `links` is what the rows were linked to, `failed`
which look-ups failed; failures are counted with the stops.  `Init` is an empty database or what any earlier version left,
with any of the six kinds of rows.  A row is as an older version wrote it, migrated,
or chosen since by an administrator.  That `AutoMigrate` of the first migrations
creates the indexes the later ones drop is taken from gorm.

### AtomicCommands and AdminTx

`table` is what the commands are about: ACLs, hosts, users or groups (host groups and
user groups have the same code); `db` is what is committed, `own` what the transaction
of `writer` sees.  Each update is `Find` (through `db`, before `Begin`), then for each
row its fields, what host update checks behind them, the look-ups of groups (through
`db`, for every row again) and the associations; then `Commit`.  A field or a link holds
the command that wrote it, which is how the properties tell whose work is there.  What
the code does to several fields is one step, because the first of them takes the lock.

The lock is that of sqlite, the default: a transaction is begun deferred, so that the
first write takes it; a second writer waits and then fails with "database is locked"
(`Locked`); readers see what is committed.  A statement, a look-up or a commit may fail
(`StatementFails`), a name may be taken (`Refused`), the server may stop (`Stop`).
`BadArgument` is the early return of host update on a logging mode that is none
(`shell.go` 1018) and on `--unset-hop` (1031), behind its first writes and without a
`Rollback`; acl update returns so on a date (294), before its first write.

`UsersByIdentifiers` drops the query it builds when IDs and names are given together
(`dbmodels.go` 367) and looks for all of them among names and emails: `ByIdentifiers`.
`AtomicCommands` leaves open which rows a command is about, and which of the groups it
names are there; it says that the rest happens at one point.

### Vault

A key is a secret and how often its text is sealed; the server has the AES key or not,
and may be restarted with the other.  `Decrypt` opens what is sealed and leaves the rest
(`safeDecrypt` tells by the base64 of the text, and PEM is none).  A host is its key's
ID and the host key it showed.  `config backup` is four queries here: the keys, the
hosts nested in them, the hosts, the keys nested in those; every other command may run
between two.  `config restore` is one transaction: the tables are emptied, hosts are
created with their nested keys as the file has them, then the keys that are not there
yet, recoded, with the hosts nested in them.  `moments` remembers the tables from the
first query of a backup to its last, `open` the keys somebody asked to have in clear.

A connection reads the host once (`Read`) and is judged by what it read when the host
answers (`Dial`), with any command between; the same host may have been read by another
connection, removed, restored or replaced by a host with its ID.  A first connection
stores the key it saw with an update of the host it had read (`ssh.go` 66), whose nested
key was decrypted in place (213).  gorm saves that key first: if it is there nothing
happens, if it was removed meanwhile it is inserted as it is in memory (`PutBack`, and
`returned` remembers it); then it writes the row, the link to the key included as it was
read (`Known`).  Which of the two branches of `Store` a removed key takes depends on
whether a new key has its name, and names are not state.  `NoKeyPanic` is what
a host does whose key was removed: with an AES key set, `SSHKeyDecrypt` takes its nil key
and the server stops.

That a row which is nested in one that is created or updated is inserted if neither its ID
nor its name is there, and left alone otherwise, is what gorm v1.22.5 does, the version of
`go.mod`; gorm is not in the repository.  `Auth` takes the same for `userkey create`.

Names, passwords of hosts, host groups and the other tables of a backup are left out,
and the hosts nested in its groups and sessions with them.  `host update --key` finds the
key and links it in one step.

## Runs

| run | question | result |
|---|---|---|
| `pipe` | does any order of events cut a stream, reorder EOF and data, or leave a goroutine after a nil return, and does `pipe` implement `Relay`? | no; it does: 3.8 million states |
| `pipe_ends` | does `pipe` return when the connections are gone? | when both are, with fair goroutines only; when one is, if the peers read, answer requests, and answer a close |
| `pipe_truncates` | does a client that stays get all output? | no: see findings |
| `sessions_one` | does the table of one server tell the truth, is every row it shows as active being served, and does it implement `SessionLedger`? | yes, but for rows whose last update was lost |
| `sessions_shared` | is "was halted" true with two servers? | no: see findings |
| `channel` | is only what was cleared dialed, in the right order, on record, is a host dialed twice only in a cycle, is the channel closed if no host was reached, and is the client answered? | yes, but for the hop lookup: 5.1 million states |
| `auth` | can a connection be taken for a user nobody vouched for, command without having been an administrator, or take over a key, with changes and failures between the queries? | no: 3.8 million states |
| `acl` | with one command anywhere in the check, of any kind and on any of the tables it writes: can a command that takes rights lead to a grant, has an access a cause, and does a rule that nobody touches decide while nothing against it weighs less? | it cannot; yes, and yes: 1.2 million states |
| `acl_hook` | does a check with a hook end? | yes, when the children of the hook do |
| `dbinit` | does a server that stops anywhere on its way come up with a complete database, does a later start undo what was chosen, and are the first ACL and user linked to their groups? | complete, nothing undone, and linked to each group whose look-up did not fail; it comes up unless it stopped between the drop of an index and its creation |
| `admin_tx` | with two commands, failures, early returns and stops: is each done as a whole or not at all, are its rows treated alike, is the lock given back, does it end? | yes, but that a bad argument of host update keeps the lock: 420 thousand states |
| `vault` | can a key be sealed twice or be in the clear unasked, can a restore bring back what was never there, can a host get a key that no first connection saw? | no, but that a key which was removed while its host was dialed comes back in the clear: 6.1 million states |

No run checks `TypeOK`, nor that of `Sessions` `LiveIsActive`: these are proved for every
value of the constants, and the second follows from `LedgerSpec`.

### Bounds

`Pipe`: two chunks and one request per peer, one chunk of standard error, a window
of one.  Two chunks are enough for a chunk in the copier's hands and one behind it;
one request is enough to be in each of the forwarder's nine positions when anything
else happens; the proofs cover every number.  The liveness run uses one chunk and no
standard error.  `Channel`: three hosts (a target behind two hops), one change by an
administrator at any point, chains of at most four configurations.  `Sessions`: three
connections and two stops, one or two servers.  `Auth`: two connections, keys,
tokens, users and rows and three commands, enough for an administrator to come in,
give a key or a token to a second user and change it while that user's handler runs;
the proofs cover every number.  `Acl`: two ACLs with two weights and a window that
ends during the check, one group on each side, and one command, which may change both
ACLs with their fields and groups of both sides.  Two databases are enough for a check to
mix them in every way its six reads allow; `AclProofs` has no bound on the commands, the
groups or the ACLs.  The hook run has one ACL and no
command.  `DbInit`: all 32 migrations, two rows a table, two stops, one command;
two stops let one come while the leftovers of another are repaired, and a look-up fail beside one.
`AdminTx`: two commands out of the twelve requests of `MCAdminTx`, on each of the four
tables, with up to two rows at first, two groups, and IDs for the rows two creates add.
Two commands are what it takes for one to write while the other reads or waits; requests
of two rows let one row be done when the second fails.  `Vault`: two keys, two hosts, two
connections and five commands, restarts included: a create, a backup, a change, a
restore and one more, or a backup with changes between its queries and its restore.
`AdminTxProofs` and `VaultProofs` have none of these bounds.

Deadlock is not checked where the system stops by itself: a returned `pipe`, a
handler that is done, sessions that are all over, a check with its verdict, a server
that is up with nobody at its shell, commands that are done.  `auth` and `vault` end with
their bounds.

### Fairness

Go's scheduler runs every ready goroutine, which is `RunFairness` of `Pipe` and the
update in `Sessions`.  `PeerFairness` is an assumption about the two peers and the
premise of `HangUpEnds`: a host that stops reading keeps its `io.Copy`, and so the
session, for as long as its connection lives.  `Acl`'s `FairSpec` runs the check, lets
the deadline come (`context.WithTimeout` sends the kill), and lets the children of the
hook end; the hook itself may hang.  `AdminTx`'s `FairSpec` runs every command: a shell is
a goroutine, and the driver waits for the lock for a time only; nothing is asked of
failures, of stops, or of the command that holds the lock.  `Sessions` and `DbInit` assume that a stopped
server is started again, as a service manager does.

## Proofs

`PipeProofs`.  None of `Pipe`'s properties is inductive.  `IInv` adds, per side: what
the copier has read is what it delivered up to the chunk it holds, and once it has
quit it has delivered everything or the other side is closed (`CopyInv`); the same
for requests (`FwdInv`); a quit message seen or in flight belongs to a goroutine that
is done (`SeenInv`); and a side is closed because its peer hung up or behind a
complete stream (`CloseInv`).  The step that carries the argument is
`SelectQuitStep`.  From `IInv` follow `OrderlyClose`, `EOFAfterData`,
`NilMeansDelivered` and `NilMeansAllQuit` for every value of the constants.

With `PlainInv` (an error is about a side that is closed, nothing is relayed before the
goroutines are there, a return closes both sides) every step of `Pipe` is a step of
`Relay` or leaves what the peers see alone (`RelayKept`): the deliveries are `Gives` and
`Passes`, the branches of `SelectQuit` are `Closes` and `EndsWell`.

Liveness is out of the prover's reach, the two facts it rests on are not.  `DoneInv` says
that a goroutine that is done has told so, and that `pipe` has drawn the consequences of
what it was told; it gives `NobodyStuck`: when a peer has closed, and `pipe` has not returned,
a goroutine can run or the peer that is still there owes a read, an answer or a close;
when both have closed, a goroutine can run.  `Left` adds up what is unread, what is in
the hands of the goroutines and on the one-slot channels, and where `main` stands; it is
a natural number, and every step but those of a peer that is still there makes it smaller
(`StepsCount`).  So of `BothClosedEnds` only this is not proved: that a goroutine that can
run does.  `HangUpEnds` depends besides on the peer that stays, whose steps `Left` does not count.

`SessionsProofs`.  `RowInv` holds with any number of servers and gives
`EndedIsStopped`.  `ClosedInv` adds that a session that is over on a server that is up is
closed, and gives `ActiveIsServed`; this is the part of `GoneIsClosed` that needs no
fairness, and it holds with any number of servers as well.  `SingleInv` needs that there
is one (`Single`): then a row that is active during `DBInit` belongs to no live session.  It gives `LiveIsActive`,
`HaltedIsTrue` and `ClosedIsFinal`, and with it every step of `Sessions` is a step of
`SessionLedger` or leaves its variables alone (`LedgerKept`).

`AuthProofs`.  `IdInv`: what a handler has read was so while it ran, step by step
through the history variables, which gives `IdentityVouched`.  `RankInv`: who may
command had the role during the login (`AdminsCommand`).  `IdsInv`: a new row comes
behind the old ones, so the first row of a key stays the first (`OwnerStays`).
`StoredInv` holds where no query fails and gives `WelcomeIsTrue`: a key that is
reported as associated was.  `AddInv`: a command that adds keys was begun by an
administrator's login, which is why what it brings back counts as commanded.  The number of connections, users, keys and commands is
arbitrary.

`AclProofs`.  `ReadInv` relates what the check holds to the databases it has seen: each
group, row of a join table and row of an ACL was in one of them.  With it an ACL that
grants has its three causes (`GrantHasCause`), for any number of commands, groups and
ACLs, torn reads included.  `RuleInv` is the other direction: what stood in every database
of the check is in everything the check has read, and the action it took is one of those
nothing it read weighs less than; so a rule nobody touches is not lost
(`StandingRuleHolds`), with any number of commands.  `DeadlineBinds`: behind the deadline
the hook has ended and no child is started, so that `HookEnds` depends on the children
that were there.  For `RevokingNeverGrants` both directions meet: the ACL that granted is
one of the most generous database, since each of its pieces was in some database and that
one has them all; what objects there stood in every database (`ObjectionStands`), so that
the check has read it and weighed it (`GrantInMostGenerous`).

`ChannelProofs`.  `ChainInv`: the chain so far is made of hops there were and hosts the
user was let into, and the host the handler is at continues it; the part of a chain
between two occurrences of a host is then a cycle of hops (`TwiceOnlyInCycle`).
`StageInv`: what is open, recorded and answered at each program counter.  The number of
hosts and changes and the length of the chain are arbitrary.

`AdminTxProofs`.  `CtlInv`: where a command may stand, and who may hold the lock; it gives
`OnlyLeaksHold`.  `TraceInv`: whose marks are in `db`, and that in `own` there are those of
the writer besides; it gives `FailedLeavesNoTrace`.  `WorkInv` says what the writer sees:
the database with the fields and links of the rows it has done, and, if its first
statement was a write, with the same groups for each of them, because nobody else can
have changed the groups since.  A commit is then one step of `AtomicCommands`
(`CommandsAreAtomic`) and the same for every row (`RowsTreatedAlike`).  `LeakBlocks` says
what the exception of `OnlyLeaksHold` costs: while the lock is held by a command that has
returned, `db` stays as it is until the server stops, and the only commands that still end
well are updates with no row left to write.

`VaultProofs`.  `KeysInv`: every text, in the tables and in both parts of a file, is sealed
at most once, and clear only on request or as a connection brought it back; each of the
ways a key is written preserves it, the update of a host among them (`StoreTables`).
`SeenInv`: a key of a host, wherever it is stored or was read, was shown by a connection
that had found none.  `FileInv`: each part of a backup was in the tables at one of its
moments, and what was there at all of them is in the file.

`DbInitProofs`.  `RanInv`: a recorded migration has its effect; it is the reason why the
record must come second.  `AtInv`: the migrations before the current one are recorded
and the current one is not.  `LoopInv`: a row in its old form is still in the hands of
the loop.  `SeedInv`: the rows before the current kind are there.  `FoundInv`: what
the server holds for the row it is about to create are the default groups it needs, but
those whose look-up failed; they are there because they come before, whether this start
created them or another did.  `ChosenInv`: nobody
chooses before all migrations are recorded.  Together they give `UpIsComplete`,
`ChosenStays` and `SeedsHaveGroups` for tables of any size and any number of stops.  Two
more theorems are about `Starts`: `RoleThere`, that no start fails for want of the role
that the migration of the administrators asks for, and `DropIsFinal`, that the exception
`Starts` makes is needed: once the server has stopped between the drop of an index and its
creation, no later start is up.

The proofs use the constants' assumptions only (`PipeAssumption`,
`SessionsAssumption`, `AuthAssumption`, `AclAssumption`, `DbInitAssumption`,
`ChannelAssumption`, `AdminTxAssumption`, `VaultAssumption`), and `Single`, or
that no query fails, where a theorem names it.

Left to TLC: liveness, which is out of the prover's reach (`BothClosedEnds`, `HangUpEnds`,
`GoneIsClosed`, `HookEnds`, `Starts`, `CommandsEnd`).  What of them needs no fairness is
proved where it could be stated: `NobodyStuck` and `StepsCount` for the first two,
`ActiveServed`, `DeadlineBinds`, `RoleThere`, `DropIsFinal` and `LeakBlocks` for the others.

## Findings

`PROJECT.json` quotes the lines.  A request that races the host's close truncates
output (`pipe_truncates`); a starting server closes the sessions of the others and says
they were halted (`sessions_shared`).

The models show more, for which there is no run:

- the host's standard error is received, takes up the window, and is never copied
  (`session.go` 161), where `session.go` 67 says that everything is piped;
- a redeemed invite token can be redeemed again, since the update of a struct does not
  write the empty token (`ssh.go` 355), where `ssh.go` 353 says it is usable once;
- a failing hop lookup (`ssh.go` 147) leaves the client without an answer, and with
  the gorm of `go.mod` it always fails;
- a failure behind the first dial (`session.go` 43, 61) leaves the client's channel
  open;
- a cycle of hops keeps the loop of `ChannelHandler` running (`ssh.go` 127);
- a key that an administrator adds for one user while an invite is redeemed with it is
  added for the invited user too (`ssh.go` 351), where `ssh.go` 333 says that invites
  are for new keys;
- the error of that insert is dropped, and the client is welcomed all the same;
- a user who is removed while an administrator pastes keys for it is there again with the
  first of them, with the invite token it had (`shell.go` 2085);
- an access check that runs beside one `acl update` which gives and takes, or beside two
  commands, may grant what the ACLs granted at no moment (`ssh.go` 220-227);
- a child of the hook outlives the hook's deadline and holds the check (`acl.go` 101);
- a stop between the drop of an index and its creation makes every later start fail
  (`dbinit.go` 162; `DropIsFinal` proves it);
- a failed look-up of a default group leaves the first ACL or the first user with a link to
  a group without a name, and since the row is there no later start links it to the
  default group (`dbinit.go` 597, 599, 615);
- the account for "no admin" (`dbinit.go` 617) is created when there is no user;
- a host update that returns on a bad logging mode behind a write keeps the lock of the
  database until the server stops, and every other command that writes fails
  (`shell.go` 1018; the exception of `OnlyLeaksHold`, and `LeakBlocks` proves it);
- `user update 1 bob` finds `bob` and not the user 1 (`dbmodels.go` 367);
- an update without fields whose first look-up comes before its first write may give its
  rows different groups (the condition of `RowsAlike`);
- a group that is removed between its look-up and its append is there again
  (`shell.go` 1062);
- the links of a removed ACL, host, user or group stay, and the next row with its ID has
  them (`shell.go` 256); so do the hosts linked to a removed key, which take the next
  key with its ID;
- a host whose key was removed stops a server with an AES key when it is dialed
  (`ssh.go` 213), as `key create` with a bad type does (`shell.go` 1322);
- `key import` stores the key in clear (`shell.go` 1391), as the seeds do; the next backup
  and restore seal it, if no host is linked to it;
- a key that is removed between the reading of a host and its first connection comes back,
  in the clear also on a server with an AES key (`ssh.go` 66, 213), and a
  `host update --key` in between is undone by the same update;
- the keys nested in hosts leave in a `--decrypt` backup as they are stored, and come back
  so, without the recoding (`shell.go` 542);
- a host removed between two queries of a backup comes back with its key
  (`shell.go` 583).

## Plan

1. Done: `Pipe`, `Sessions`, `Channel`, `Auth`, `Acl`, `DbInit`, `AdminTx`, `Vault` and their
   proofs; every invariant and action property of the runs is proved, and so are the three
   refinements (`Relay`, `SessionLedger`, `AtomicCommands`).
2. Two servers that start on one database, in `DbInit`; `config restore` in `Sessions`.
3. `TunnelLog`; host URLs and the telnet line splitter as operators against a reference
   definition.

## Not modelled

- Listings, inspections and `ls` of the shell, events, healthcheck, test server and command
  line: they write nothing that the code reads back.
- Host URLs, validators, the ciphers and key formats: string functions without state.  So
  what `safeDecrypt` makes of a clear password that happens to be base64 is not in `Vault`,
  nor are passwords at all, which `host create` stores and `Passwd()` takes only for a
  host without URL.
- A second AES key: `Vault` knows one, or none.  What was sealed with another stays closed.
- The tunnel log and recordings: written, never read.
- The other tables of a backup: that roles nobody has are lost, that sessions and events are
  replaced with the rest, and that a failing encryption returns from the restore without a
  `Rollback` (`shell.go` 539, 580), is visible in the code and not in a module.
- Databases other than sqlite where they differ: row locks of MySQL and PostgreSQL would let
  more commands run side by side than `AdminTx` does.
