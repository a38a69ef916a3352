-------------------------------- MODULE Pipe --------------------------------
(***************************************************************************)
(* pkg/bastion/session.go, pipe(): one proxied channel.  "lch" is the      *)
(* channel to the client, "rch" the channel to the target host.  Four      *)
(* goroutines (two io.Copy loops, two request forwarders) report to the    *)
(* loop at the end of pipe over the one-slot Go channels errch and quit.   *)
(*                                                                         *)
(* The channels themselves are golang.org/x/crypto/ssh (not in src/): what *)
(* a Read, a Write, a CloseWrite, a Close or a SendRequest does, and when  *)
(* it fails, is modelled from how pipe uses them.  A chunk of output or a  *)
(* request is a unit counted by its position; what it holds never matters. *)
(***************************************************************************)
EXTENDS Integers, FiniteSets

CONSTANTS
    MaxData,      \* bound: chunks of data a peer ever sends on its channel
    MaxStderr,    \* bound: chunks of standard error the host ever sends
    MaxReqs,      \* bound: channel requests a peer ever sends
    Window,       \* chunks of a peer our side may hold unread
    LoggingMode   \* sessConfig.LoggingMode: "disabled", "input", "everything"

ASSUME PipeAssumption ==
    /\ MaxData \in Nat
    /\ MaxStderr \in Nat
    /\ MaxReqs \in Nat
    /\ Window \in Nat \ {0}
    /\ LoggingMode \in {"disabled", "input", "everything"}

Sides == {"lch", "rch"}
Other(s) == IF s = "lch" THEN "rch" ELSE "lch"
\* What the forwarder of side s sends to quit when its range loop ends.
Reqs(s) == IF s = "lch" THEN "lreqs" ELSE "rreqs"
Messages == {"lch", "rch", "lreqs", "rreqs"}

VARIABLES
    sent,       \* [Sides -> Nat] chunks received from the peer of s
    read,       \* [Sides -> Nat] of those, the chunks io.Copy has read
    got,        \* [Sides -> Nat] chunks written to s, delivered to its peer
    stderr,     \* [Sides -> Nat] extended-data chunks received on s
    reqSent,    \* [Sides -> Nat] requests received from the peer of s
    reqRead,    \* [Sides -> Nat] of those, taken by the forwarder
    reqGot,     \* [Sides -> Nat] requests delivered to the peer of s
    peerEOF,    \* sides whose peer sent EOF (or closed)
    peerClosed, \* sides whose peer closed, or whose connection is gone
    hungUp,     \* ... and did so before pipe closed: not a mere answer
    sentEOF,    \* sides on which CloseWrite was called
    sentClose,  \* sides on which Close was sent
    copier,     \* [Sides -> CopierPC] the io.Copy goroutine reading s
    fwd,        \* [Sides -> ForwarderPC] the goroutine ranging over s's requests
    wantReply,  \* sides whose forwarder holds a request with WantReply
    errch,      \* BOOLEAN: the one slot of errch is taken
    quit,       \* the message in the one slot of quit, or "none"
    main,       \* the goroutine that called pipe
    seen,       \* lchEOF, rchEOF, lchClosed, rchClosed, as quit messages
    result      \* what pipe returned

wireVars == <<sent, stderr, reqSent, peerEOF, peerClosed, hungUp>>
copyVars == <<read, copier>>
fwdVars  == <<reqRead, reqGot, fwd, wantReply>>
mainVars == <<main, seen, result>>
vars == <<sent, read, got, stderr, reqSent, reqRead, reqGot, peerEOF,
          peerClosed, hungUp, sentEOF, sentClose, copier, fwd, wantReply,
          errch, quit, main, seen, result>>

CopierPC    == {"off", "read", "write", "quit", "done"}
ForwarderPC == {"off", "range", "send", "await", "err", "reply", "err2",
                "quit", "done"}

CountType ==
    /\ sent \in [Sides -> Nat]    /\ read \in [Sides -> Nat]
    /\ got \in [Sides -> Nat]     /\ stderr \in [Sides -> Nat]
    /\ reqSent \in [Sides -> Nat] /\ reqRead \in [Sides -> Nat]
    /\ reqGot \in [Sides -> Nat]
ChannelType ==
    /\ peerEOF \subseteq Sides   /\ peerClosed \subseteq Sides
    /\ hungUp \subseteq Sides    /\ sentEOF \subseteq Sides
    /\ sentClose \subseteq Sides /\ wantReply \subseteq Sides
ControlType ==
    /\ copier \in [Sides -> CopierPC]
    /\ fwd \in [Sides -> ForwarderPC]
    /\ errch \in BOOLEAN
    /\ quit \in Messages \cup {"none"}
    /\ main \in {"opening", "looping", "returned"}
    /\ seen \subseteq Messages
    /\ result \in {"none", "nil", "err"}
TypeOK == CountType /\ ChannelType /\ ControlType

Zero == [s \in Sides |-> 0]

Init ==
    /\ sent = Zero /\ read = Zero /\ got = Zero /\ stderr = Zero
    /\ reqSent = Zero /\ reqRead = Zero /\ reqGot = Zero
    /\ peerEOF = {} /\ peerClosed = {} /\ hungUp = {}
    /\ sentEOF = {} /\ sentClose = {} /\ wantReply = {}
    /\ copier = [s \in Sides |-> "off"]
    /\ fwd = [s \in Sides |-> "off"]
    /\ errch = FALSE /\ quit = "none"
    /\ main = "opening" /\ seen = {} /\ result = "none"

-----------------------------------------------------------------------------
(* The peers: the client on lch, the target host on rch.                   *)

\* Data and extended data share the receive window of the channel, and only
\* what io.Copy reads is given back to the peer.
HasWindow(s) == (sent[s] - read[s]) + stderr[s] < Window

PeerSendsData(s) ==
    /\ s \notin peerEOF /\ sent[s] < MaxData /\ HasWindow(s)
    /\ sent' = [sent EXCEPT ![s] = @ + 1]
    /\ UNCHANGED <<stderr, reqSent, peerEOF, peerClosed, hungUp>>

\* Only the host has a standard error stream to send.
PeerSendsStderr(s) ==
    /\ s = "rch" /\ s \notin peerEOF /\ stderr[s] < MaxStderr /\ HasWindow(s)
    /\ stderr' = [stderr EXCEPT ![s] = @ + 1]
    /\ UNCHANGED <<sent, reqSent, peerEOF, peerClosed, hungUp>>

PeerSendsRequest(s) ==
    /\ s \notin peerClosed /\ reqSent[s] < MaxReqs
    /\ reqSent' = [reqSent EXCEPT ![s] = @ + 1]
    /\ UNCHANGED <<sent, stderr, peerEOF, peerClosed, hungUp>>

PeerSendsEOF(s) ==
    /\ s \notin peerEOF
    /\ peerEOF' = peerEOF \cup {s}
    /\ UNCHANGED <<sent, stderr, reqSent, peerClosed, hungUp>>

\* The peer's close, which our side answers with its own, or the end of the
\* peer's connection.  What was received before stays readable.
PeerCloses(s) ==
    /\ s \notin peerClosed
    /\ peerEOF' = peerEOF \cup {s}
    /\ peerClosed' = peerClosed \cup {s}
    /\ hungUp' = IF s \in sentClose THEN hungUp ELSE hungUp \cup {s}
    /\ sentClose' = sentClose \cup {s}
    /\ UNCHANGED <<sent, stderr, reqSent>>

Peer(s) ==
    /\ \/ /\ \/ PeerSendsData(s) \/ PeerSendsStderr(s)
             \/ PeerSendsRequest(s) \/ PeerSendsEOF(s)
          /\ UNCHANGED sentClose
       \/ PeerCloses(s)
    /\ UNCHANGED <<got, sentEOF, errch, quit, copyVars, fwdVars, mainVars>>

-----------------------------------------------------------------------------
(* io.Copy(Other(s), s), then quit <- s.                                   *)

CopyReads(s) ==
    /\ copier[s] = "read" /\ read[s] < sent[s]
    /\ read' = [read EXCEPT ![s] = @ + 1]
    /\ copier' = [copier EXCEPT ![s] = "write"]
    /\ UNCHANGED got

CopyReadsEOF(s) ==
    /\ copier[s] = "read" /\ read[s] = sent[s] /\ s \in peerEOF
    /\ copier' = [copier EXCEPT ![s] = "quit"]
    /\ UNCHANGED <<read, got>>

\* Delivered once the peer of the other side gives window for it.
CopyWrites(s) ==
    /\ copier[s] = "write"
    /\ Other(s) \notin sentEOF /\ Other(s) \notin sentClose
    /\ got' = [got EXCEPT ![Other(s)] = @ + 1]
    /\ copier' = [copier EXCEPT ![s] = "read"]
    /\ UNCHANGED read

CopyWriteFails(s) ==
    /\ copier[s] = "write"
    /\ Other(s) \in sentEOF \/ Other(s) \in sentClose
    /\ copier' = [copier EXCEPT ![s] = "quit"]
    /\ UNCHANGED <<read, got>>

CopyQuits(s) ==
    /\ copier[s] = "quit" /\ quit = "none"
    /\ quit' = s
    /\ copier' = [copier EXCEPT ![s] = "done"]
    /\ UNCHANGED <<read, got>>

\* The steps that do not wait for a peer to take the data.
CopierRuns(s) ==
    /\ \/ /\ CopyReads(s) \/ CopyReadsEOF(s) \/ CopyWriteFails(s)
          /\ UNCHANGED quit
       \/ CopyQuits(s)
    /\ UNCHANGED <<wireVars, sentEOF, sentClose, errch, fwdVars, mainVars>>

CopierDelivers(s) ==
    /\ CopyWrites(s)
    /\ UNCHANGED <<wireVars, sentEOF, sentClose, errch, quit, fwdVars, mainVars>>

-----------------------------------------------------------------------------
(* for req := range reqs: forward the request, answer it, report errors.   *)

FwdTo(s, pc) == fwd' = [fwd EXCEPT ![s] = pc]

ForwarderTakes(s) ==
    /\ fwd[s] = "range" /\ reqRead[s] < reqSent[s]
    /\ reqRead' = [reqRead EXCEPT ![s] = @ + 1]
    /\ wantReply' \in {wantReply, wantReply \cup {s}}
    /\ FwdTo(s, "send")
    /\ UNCHANGED <<reqGot, errch, quit>>

\* The range loop ends when the request channel is closed and drained.
ForwarderRangeEnds(s) ==
    /\ fwd[s] = "range" /\ reqRead[s] = reqSent[s] /\ s \in peerClosed
    /\ FwdTo(s, "quit")
    /\ UNCHANGED <<reqRead, reqGot, wantReply, errch, quit>>

\* SendRequest fails once Close was sent.
ForwarderSends(s) ==
    /\ fwd[s] = "send"
    /\ IF Other(s) \in sentClose
         THEN FwdTo(s, "err") /\ UNCHANGED reqGot
         ELSE /\ reqGot' = [reqGot EXCEPT ![Other(s)] = @ + 1]
              /\ FwdTo(s, IF s \in wantReply THEN "await" ELSE "reply")
    /\ UNCHANGED <<reqRead, wantReply, errch, quit>>

PeerReplies(s) ==
    /\ fwd[s] = "await" /\ Other(s) \notin peerClosed
    /\ FwdTo(s, "reply")
    /\ UNCHANGED <<reqRead, reqGot, wantReply, errch, quit>>

ForwarderAwaitFails(s) ==
    /\ fwd[s] = "await" /\ Other(s) \in peerClosed
    /\ FwdTo(s, "err")
    /\ UNCHANGED <<reqRead, reqGot, wantReply, errch, quit>>

\* The forwarder gives up on the first error and tells nobody.
ForwarderGivesUp(s) ==
    /\ fwd[s] = "err"
    /\ FwdTo(s, "done")
    /\ UNCHANGED <<reqRead, reqGot, wantReply, errch, quit>>

ForwarderReportsSend(s) ==
    /\ fwd[s] = "err" /\ ~errch
    /\ errch' = TRUE
    /\ FwdTo(s, "reply")
    /\ UNCHANGED <<reqRead, reqGot, wantReply, quit>>

\* Reply does nothing without WantReply, and fails once Close was sent on s.
ForwarderReplies(s) ==
    /\ fwd[s] = "reply"
    /\ FwdTo(s, IF s \in wantReply /\ s \in sentClose THEN "err2" ELSE "range")
    /\ wantReply' = wantReply \ {s}
    /\ UNCHANGED <<reqRead, reqGot, errch, quit>>

ForwarderReportsReply(s) ==
    /\ fwd[s] = "err2" /\ ~errch
    /\ errch' = TRUE
    /\ FwdTo(s, "range")
    /\ UNCHANGED <<reqRead, reqGot, wantReply, quit>>

ForwarderQuits(s) ==
    /\ fwd[s] = "quit" /\ quit = "none"
    /\ quit' = Reqs(s)
    /\ FwdTo(s, "done")
    /\ UNCHANGED <<reqRead, reqGot, wantReply, errch>>

\* The steps that do not wait for a peer's answer.
ForwarderRuns(s) ==
    /\ \/ ForwarderTakes(s)       \/ ForwarderRangeEnds(s)
       \/ ForwarderSends(s)       \/ ForwarderAwaitFails(s)
       \/ ForwarderReportsSend(s) \/ ForwarderReplies(s)
       \/ ForwarderReportsReply(s) \/ ForwarderQuits(s)
    /\ UNCHANGED <<wireVars, got, sentEOF, sentClose, copyVars, mainVars>>

ForwarderAnswered(s) ==
    /\ PeerReplies(s)
    /\ UNCHANGED <<wireVars, got, sentEOF, sentClose, copyVars, mainVars>>

-----------------------------------------------------------------------------
(* pipe itself: open the log file, start the goroutines, select.           *)

\* The deferred lch.Close() and rch.Close() of a return.
Return(r) ==
    /\ main' = "returned" /\ result' = r
    /\ sentClose' = Sides

OpenLogFails ==
    /\ main = "opening" /\ LoggingMode # "disabled"
    /\ Return("err")
    /\ UNCHANGED <<wireVars, got, sentEOF, errch, quit, copyVars, fwdVars, seen>>

StartGoroutines ==
    /\ main = "opening"
    /\ main' = "looping"
    /\ copier' = [s \in Sides |-> "read"]
    /\ fwd' = [s \in Sides |-> "range"]
    /\ UNCHANGED <<wireVars, read, got, reqRead, reqGot, wantReply, sentEOF,
                   sentClose, errch, quit, seen, result>>

SelectErr ==
    /\ main = "looping" /\ errch
    /\ errch' = FALSE
    /\ Return("err")
    /\ UNCHANGED <<wireVars, got, sentEOF, quit, copyVars, fwdVars, seen>>

\* The side whose output pipe ends with CloseWrite on receiving q from quit
\* (mutant: already when the other side has no more requests).
CloseWriteOnForwarderQuit(q) == {s \in Sides : q = Reqs(Other(s))}
CloseWriteOn(q) == {s \in Sides : q = Other(s)}

\* The sides pipe closes once the flags are as in S: the other side is at
\* its end, and this one is not (mutants: without waiting for the other
\* side's data; never).
CloseBeforeEOF(S) == {s \in Sides : Reqs(Other(s)) \in S /\ Reqs(s) \notin S}
CloseNever(S) == {}
CloseOn(S) ==
    {s \in Sides : {Other(s), Reqs(Other(s))} \subseteq S /\ Reqs(s) \notin S}

\* pipe returns nil when all four flags are set (mutant: when both request
\* channels are closed).
EndsWithRequests(S) == {"lreqs", "rreqs"} \subseteq S
Ends(S) == S = Messages

SelectQuit ==
    /\ main = "looping" /\ quit # "none"
    /\ quit' = "none"
    /\ seen' = seen \cup {quit}
    /\ sentEOF' = sentEOF \cup CloseWriteOn(quit)
    /\ IF Ends(seen')
         THEN Return("nil")
         ELSE /\ sentClose' = sentClose \cup CloseOn(seen')
              /\ UNCHANGED <<main, result>>
    /\ UNCHANGED <<wireVars, got, errch, copyVars, fwdVars>>

Main == OpenLogFails \/ StartGoroutines \/ SelectErr \/ SelectQuit

Next ==
    \/ \E s \in Sides :
          \/ Peer(s)
          \/ CopierRuns(s) \/ CopierDelivers(s)
          \/ ForwarderRuns(s) \/ ForwarderAnswered(s)
    \/ Main

Spec == Init /\ [][Next]_vars

\* The goroutines run; nothing is asked of the peers.
RunFairness ==
    /\ WF_vars(Main)
    /\ \A s \in Sides : WF_vars(CopierRuns(s)) /\ WF_vars(ForwarderRuns(s))

\* The peers take the data sent to them, answer the requests that want an
\* answer, and answer a close with a close.
AnswersClose(s) == s \in sentClose /\ Peer(s) /\ s \in peerClosed'
PeerFairness ==
    \A s \in Sides : /\ WF_vars(CopierDelivers(s))
                     /\ WF_vars(ForwarderAnswered(s))
                     /\ WF_vars(AnswersClose(s))

RunSpec == Spec /\ RunFairness

-----------------------------------------------------------------------------
(* Properties                                                              *)

\* Everything the other side's peer sent has reached the peer of s.
Delivered(s) == got[s] = sent[Other(s)] /\ reqGot[s] = reqSent[Other(s)]

\* While pipe runs it closes a side whose peer is still there only when that
\* peer has received all the other side will ever send, data and requests:
\* neither order of the quit messages cuts a stream short.
OrderlyClose ==
    \A s \in Sides :
        main = "looping" /\ s \in sentClose /\ s \notin peerClosed
            => Other(s) \in peerClosed /\ Delivered(s)

\* A peer that is still there is told EOF only after the last byte for it.
EOFAfterData ==
    \A s \in Sides :
        main = "looping" /\ s \in sentEOF /\ s \notin peerClosed
            => Other(s) \in peerEOF /\ got[s] = sent[Other(s)]

\* When pipe returns nil, a peer that did not itself hang up has received the
\* whole output and every request of the other, its exit status included.
NilMeansDelivered ==
    result = "nil" => \A s \in Sides : s \in hungUp \/ Delivered(s)

\* A nil return leaves no goroutine behind on the one-slot channels, which
\* nobody reads any more.
NilMeansAllQuit ==
    result = "nil" =>
        /\ quit = "none"
        /\ \A s \in Sides : copier[s] = "done" /\ fwd[s] = "done"

\* pipe returns once both connections are gone, whatever the peers did with
\* the data and the requests that were on their way.
BothClosedEnds ==
    peerClosed = Sides ~> main = "returned"

\* With peers that keep reading and answering, one of them hanging up is
\* enough for pipe to return.
HangUpEnds ==
    PeerFairness => (peerClosed # {} ~> main = "returned")

\* The relay keeps the promise of Relay: whatever order its goroutines run in, what
\* the two peers see of it, step by step, is what Relay allows.
Promise == INSTANCE Relay WITH
    given <- got, asked <- reqSent, passed <- reqGot, finished <- peerEOF,
    gone <- peerClosed, left <- hungUp, eof <- sentEOF, shut <- sentClose
RelaySpec == Promise!Spec

\* "pipe everything" (session.go:67): once the relay was started and the host
\* has ended the session, a client that did not hang up has received all that
\* the host sent.
OutputNotTruncated ==
    main = "returned" /\ copier["rch"] # "off" /\ "rch" \in hungUp
        => "lch" \in hungUp \/ Delivered("lch")
=============================================================================
