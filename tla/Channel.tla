------------------------------ MODULE Channel -------------------------------
(***************************************************************************)
(* One channel request of a client: ChannelHandler (pkg/bastion/ssh.go)    *)
(* routes it, builds the chain of hops to the target host and records the  *)
(* session; multiChannelHandler (pkg/bastion/session.go) then dials the    *)
(* chain and hands the two ends to pipe, which module Pipe models.         *)
(*                                                                         *)
(* Administrators change hosts, hops and ACLs between any two queries of   *)
(* the handler, the client may leave at any point, and any query, dial or  *)
(* channel open may fail.                                                  *)
(***************************************************************************)
EXTENDS Integers, Sequences, FiniteSets

CONSTANTS
    Hosts,      \* the hosts that may exist
    NoHost,     \* a nil *dbmodels.Host, or a HopID of 0
    MaxChanges, \* bound: changes the administrators make
    MaxChain    \* bound: hops the handler follows

ASSUME ChannelAssumption ==
    /\ NoHost \notin Hosts
    /\ MaxChanges \in Nat
    /\ MaxChain \in Nat

ChanTypes == {"session", "direct-tcpip", "other"}
UserTypes == {"healthcheck", "shell", "invite", "bastion"}
Schemes   == {"ssh", "telnet", "other"}

VARIABLES
    chanType,    \* newChan.ChannelType()
    userType,    \* actx.userType()
    known,       \* actx.user.ID # 0
    target,      \* the host actx.inputUsername names
    scheme,      \* its Scheme(); those of the hops are not looked at
    hosts,       \* the hosts in the database
    hop,         \* [Hosts -> Hosts \cup {NoHost}] their HopID
    allowed,     \* the hosts bastionClientConfig lets the user into now
    everAllowed, \* ... and at some point since the request came in
    everHop,     \* the hops <<host, its hop>> there were since then
    changes,     \* changes made by the administrators
    connected,   \* the client's connection is up
    chan,        \* the client's channel
    pc,          \* the handler: ChannelHandler, then the goroutine
    cur, curHop, \* currentHost and its HopID, as they were read
    configs,     \* sessionConfigs: the hosts to dial, first hop first
    dialed,      \* how many of them are dialed: clients[1..dialed] are open
    row,         \* the status of the session's row
    result       \* what multiChannelHandler returned

inputVars == <<chanType, userType, known, target, scheme>>
dbVars    == <<hosts, hop, allowed, everAllowed, everHop, changes>>
chainVars == <<cur, curHop, configs>>
vars == <<chanType, userType, known, target, scheme, hosts, hop, allowed,
          everAllowed, everHop, changes, connected, chan, pc, cur, curHop,
          configs, dialed, row, result>>

PCs == {"route", "lookup", "config", "hop", "create", "accept", "dial",
        "open", "pipe", "return", "update", "done"}

TypeOK ==
    /\ chanType \in ChanTypes /\ userType \in UserTypes /\ known \in BOOLEAN
    /\ target \in Hosts /\ hosts \subseteq Hosts
    /\ hop \in [Hosts -> Hosts \cup {NoHost}] /\ scheme \in Schemes
    /\ allowed \subseteq everAllowed /\ everAllowed \subseteq Hosts
    /\ everHop \subseteq Hosts \X Hosts
    /\ changes \in 0..MaxChanges /\ connected \in BOOLEAN
    /\ chan \in {"pending", "open", "closed", "rejected", "shell"}
    /\ pc \in PCs
    /\ cur \in Hosts \cup {NoHost} /\ curHop \in Hosts \cup {NoHost}
    /\ configs \in Seq(Hosts) /\ dialed \in 0..Len(configs)
    /\ row \in {"none", "active", "closed"}
    /\ result \in {"none", "nil", "err"}

Hops(hopOf) == {p \in Hosts \X Hosts : hopOf[p[1]] = p[2]}

Init ==
    /\ chanType \in ChanTypes /\ userType \in UserTypes /\ known \in BOOLEAN
    /\ target \in Hosts
    /\ hosts \in SUBSET Hosts /\ hop \in [Hosts -> Hosts \cup {NoHost}]
    /\ scheme \in Schemes
    /\ allowed \in SUBSET Hosts
    /\ everAllowed = allowed /\ everHop = Hops(hop) /\ changes = 0
    /\ connected = TRUE /\ chan = "pending" /\ pc = "route"
    /\ cur = NoHost /\ curHop = NoHost /\ configs = << >> /\ dialed = 0
    /\ row = "none" /\ result = "none"

-----------------------------------------------------------------------------
(* The administrators (shell.go: host create, rm, update; acl and group    *)
(* commands) and the client.                                               *)

\* What they change once the handler is done is not followed.
Change ==
    /\ pc # "done"
    /\ changes < MaxChanges /\ changes' = changes + 1
    /\ \/ /\ \E h \in Hosts : hosts' \in {hosts \cup {h}, hosts \ {h}}
          /\ UNCHANGED <<hop, allowed>>
       \/ /\ \E h \in hosts, to \in hosts \cup {NoHost} :
                hop' = [hop EXCEPT ![h] = to]
          /\ UNCHANGED <<hosts, allowed>>
       \/ /\ \E h \in Hosts : allowed' \in {allowed \cup {h}, allowed \ {h}}
          /\ UNCHANGED <<hosts, hop>>
    /\ everAllowed' = everAllowed \cup allowed'
    /\ everHop' = everHop \cup Hops(hop')
    /\ UNCHANGED <<inputVars, connected, chan, pc, chainVars, dialed, row, result>>

ClientLeaves ==
    /\ connected /\ pc # "done"
    /\ connected' = FALSE /\ chan' = "closed"
    /\ UNCHANGED <<inputVars, dbVars, pc, chainVars, dialed, row, result>>

-----------------------------------------------------------------------------
(* ChannelHandler                                                          *)

Goto(l) == pc' = l

\* newChan.Accept(), the error on the channel, ch.Close() (mutant: the handler
\* only returns).
RefuseSilently ==
    /\ Goto("done")
    /\ UNCHANGED <<chan, chainVars, dialed, row, result>>
Refuse ==
    /\ chan' = "closed"
    /\ Goto("done")
    /\ UNCHANGED <<chainVars, dialed, row, result>>

\* newChan.Reject().
Reject ==
    /\ chan' = IF connected THEN "rejected" ELSE chan
    /\ Goto("done")
    /\ UNCHANGED <<chainVars, dialed, row, result>>

\* DefaultChannelHandler: the built-in shell, or a telnet client behind it.
ToShell ==
    /\ chan' = IF connected THEN "shell" ELSE chan
    /\ Goto("done")
    /\ UNCHANGED <<chainVars, dialed, row, result>>

Denied == ~known /\ userType # "healthcheck"

Route ==
    /\ pc = "route"
    /\ \/ chanType = "other" /\ Reject
       \/ chanType # "other" /\ Denied /\ Refuse
       \/ chanType # "other" /\ ~Denied /\ userType # "bastion" /\ ToShell
       \/ /\ chanType # "other" /\ ~Denied /\ userType = "bastion"
          /\ Goto("lookup")
          /\ UNCHANGED <<chan, chainVars, dialed, row, result>>
    /\ UNCHANGED <<inputVars, dbVars, connected>>

\* dbmodels.HostByName: a failing query looks like a missing host.
HostByName(h) == {NoHost} \cup (hosts \cap {h})

\* The host the handler works on from now on, as it is in the database.
Read(h) ==
    /\ cur' = h
    /\ curHop' = IF h = NoHost THEN NoHost ELSE hop[h]

LookUp ==
    /\ pc = "lookup"
    /\ \E h \in HostByName(target) :
          \/ h = NoHost /\ Refuse
          \/ h # NoHost /\ scheme = "other" /\ Refuse
          \/ h # NoHost /\ scheme = "telnet" /\ ToShell
          \/ /\ h # NoHost /\ scheme = "ssh"
             /\ Read(h)
             /\ Goto("config")
             /\ UNCHANGED <<chan, configs, dialed, row, result>>
    /\ UNCHANGED <<inputVars, dbVars, connected>>

\* bastionClientConfig lets the user into h: it reads the user and the host
\* again and asks the ACLs (mutant: for the target only).
ClearedTarget(h) == h \in allowed \/ h # target
Cleared(h) == h \in allowed

\* The hosts are dialed in the order opposite to the one they are found in
\* (mutant: in that order).
WithLast(h, cs) == Append(cs, h)
WithHop(h, cs) == <<h>> \o cs

Config ==
    /\ pc = "config" /\ Len(configs) < MaxChain
    /\ \/ Refuse
       \/ /\ Cleared(cur)
          /\ configs' = WithHop(cur, configs)
          /\ Goto(IF curHop = NoHost THEN "create" ELSE "hop")
          /\ UNCHANGED <<chan, cur, curHop, dialed, row, result>>
    /\ UNCHANGED <<inputVars, dbVars, connected>>

\* Association("HopID").Find, then HostByName on the name found.  An error of
\* the first ends the handler; of the second, the loop (mutant: it goes on with
\* the host it has).
LookUpHopFails ==
    /\ pc = "hop"
    /\ Goto("done")
    /\ UNCHANGED <<inputVars, dbVars, connected, chan, chainVars, dialed, row, result>>

StayOnError ==
    /\ pc = "hop"
    /\ \E h \in HostByName(curHop) : Read(IF h = NoHost THEN cur ELSE h) /\ Goto("config")
    /\ UNCHANGED <<inputVars, dbVars, connected, chan, configs, dialed, row, result>>
LookUpHop ==
    /\ pc = "hop"
    /\ \E h \in HostByName(curHop) :
          /\ Read(h)
          /\ Goto(IF h = NoHost THEN "create" ELSE "config")
    /\ UNCHANGED <<inputVars, dbVars, connected, chan, configs, dialed, row, result>>

\* The row, then the goroutine.
Create ==
    /\ pc = "create"
    /\ \/ Refuse
       \/ /\ row' = "active"
          /\ Goto("accept")
          /\ UNCHANGED <<chan, chainVars, dialed, result>>
    /\ UNCHANGED <<inputVars, dbVars, connected>>

-----------------------------------------------------------------------------
(* multiChannelHandler                                                     *)

Return(r) == Goto("return") /\ result' = r

Accept ==
    /\ pc = "accept"
    /\ IF connected
         THEN chan' = "open" /\ Goto("dial") /\ UNCHANGED result
         ELSE Return("nil") /\ UNCHANGED chan
    /\ UNCHANGED <<inputVars, dbVars, connected, chainVars, dialed, row>>

\* One more hop.
Dial ==
    /\ pc = "dial" /\ dialed < Len(configs)
    /\ dialed' = dialed + 1
    /\ Goto(IF dialed' = Len(configs) THEN "open" ELSE "dial")
    /\ UNCHANGED <<inputVars, dbVars, connected, chan, chainVars, row, result>>

\* gossh.Dial: "lch.Close() // fix #56" (mutant: without that fix).
FirstDialLeavesOpen ==
    /\ pc = "dial" /\ dialed = 0
    /\ Return("err")
    /\ UNCHANGED <<inputVars, dbVars, connected, chan, chainVars, dialed, row>>
FirstDialFails ==
    /\ pc = "dial" /\ dialed = 0
    /\ chan' = "closed"
    /\ Return("err")
    /\ UNCHANGED <<inputVars, dbVars, connected, chainVars, dialed, row>>

\* lastClient.Dial, gossh.NewClientConn: the inner err returns at once.
LaterDialFails ==
    /\ pc = "dial" /\ dialed > 0
    /\ Return("err")
    /\ UNCHANGED <<inputVars, dbVars, connected, chan, chainVars, dialed, row>>

\* The extra data of direct-tcpip does not parse, or the host refuses.
OpenChannelFails ==
    /\ pc = "open"
    /\ Return("err")
    /\ UNCHANGED <<inputVars, dbVars, connected, chan, chainVars, dialed, row>>

OpenChannel ==
    /\ pc = "open"
    /\ Goto("pipe")
    /\ UNCHANGED <<inputVars, dbVars, connected, chan, chainVars, dialed, row, result>>

\* pipe returns, having closed lch.
PipeReturns ==
    /\ pc = "pipe"
    /\ chan' = "closed"
    /\ \E r \in {"nil", "err"} : Return(r)
    /\ UNCHANGED <<inputVars, dbVars, connected, chainVars, dialed, row>>

\* The deferred client.Close() of every hop (mutant: the deferred calls are
\* left to the end of the goroutine).
KeepClients ==
    /\ pc = "return"
    /\ Goto("update")
    /\ UNCHANGED <<inputVars, dbVars, connected, chan, chainVars, dialed, row, result>>
CloseClients ==
    /\ pc = "return"
    /\ dialed' = 0
    /\ Goto("update")
    /\ UNCHANGED <<inputVars, dbVars, connected, chan, chainVars, row, result>>

\* The last update of the row; nobody looks at its error.
Update ==
    /\ pc = "update"
    /\ row' \in {"active", "closed"}
    /\ Goto("done")
    /\ UNCHANGED <<inputVars, dbVars, connected, chan, chainVars, dialed, result>>

Handler ==
    \/ Route \/ LookUp \/ Config \/ LookUpHopFails \/ LookUpHop \/ Create
    \/ Accept \/ Dial \/ FirstDialFails \/ LaterDialFails
    \/ OpenChannelFails \/ OpenChannel \/ PipeReturns \/ CloseClients \/ Update

Next == Handler \/ Change \/ ClientLeaves

Spec == Init /\ [][Next]_vars

-----------------------------------------------------------------------------
(* Properties                                                              *)

Dialed == {configs[k] : k \in 1..dialed}

\* No hop of the chain is dialed that the user was not allowed into at some
\* point since the request, the intermediate ones included.
OnlyAllowedDialed == Dialed \subseteq everAllowed

\* The chain ends at the host asked for, and each of its hosts was the hop of
\* the next one at some point since the request, whatever was changed meanwhile.
ChainLeadsToTarget ==
    dialed > 0 =>
        /\ configs[Len(configs)] = target
        /\ \A k \in 1..Len(configs) - 1 : <<configs[k + 1], configs[k]>> \in everHop

\* The loop over the hops goes round only where the hops do: a host is twice in the
\* chain only if, since the request, there were hops from it that lead back to it.
HopCycle(h) == \E C \in SUBSET Hosts : h \in C /\ \A x \in C : \E y \in C : <<x, y>> \in everHop
TwiceMeansCycle ==
    \A i, j \in 1..Len(configs) : i < j /\ configs[i] = configs[j] => HopCycle(configs[i])

\* A connection to a host is open only under an active row: the row is written
\* before the first dial and closed after the last connection.
DialedIsRecorded == dialed > 0 => row = "active"

\* A client whose channel is left open by a handler that returns had its way at least
\* to the first host: no failure before that, nor any end of pipe, leaves it waiting.
OpenMeansReached ==
    pc = "return" /\ connected /\ chan = "open" => dialed > 0 /\ result = "err"

\* Only a failing hop lookup leaves a client that is still there without any
\* answer to its request.
Answered == pc = "done" /\ connected /\ chan = "pending" => cur # NoHost /\ curHop # NoHost
=============================================================================
