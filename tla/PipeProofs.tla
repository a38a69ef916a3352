----------------------------- MODULE PipeProofs -----------------------------
(***************************************************************************)
(* Pipe's safety properties for every number of chunks and requests and    *)
(* every window.  The inductive invariant IInv follows each stream through *)
(* the goroutine that carries it: what io.Copy has read is what it wrote,  *)
(* up to the chunk in its hands, unless the side it writes to is closed;   *)
(* and pipe closes a side early only behind a finished stream.             *)
(***************************************************************************)
EXTENDS Pipe, TLAPS

\* The copier of s against what it has delivered to the other side.
CopyInv(s) ==
    /\ read[s] <= sent[s]
    /\ copier[s] \in {"off", "read"} => got[Other(s)] = read[s]
    /\ copier[s] = "write" => got[Other(s)] + 1 = read[s]
    /\ copier[s] \in {"quit", "done"} =>
          \/ s \in peerEOF /\ read[s] = sent[s] /\ got[Other(s)] = sent[s]
          \/ Other(s) \in sentClose

\* The forwarder of s against the requests it has delivered.
FwdInv(s) ==
    /\ reqRead[s] <= reqSent[s]
    /\ fwd[s] \in {"quit", "done"} => s \in peerClosed /\ reqRead[s] = reqSent[s]
    /\ \/ Other(s) \in sentClose
       \/ reqGot[Other(s)] + (IF fwd[s] = "send" THEN 1 ELSE 0) = reqRead[s]

\* What pipe knows of s is true of its goroutines.
SeenInv(s) ==
    /\ s \in seen \/ quit = s => copier[s] = "done"
    /\ Reqs(s) \in seen \/ quit = Reqs(s) => fwd[s] = "done"
    /\ Other(s) \in sentEOF => s \in seen

\* A side is closed because its peer hung up, or behind a finished stream.
CloseInv(s) ==
    /\ s \in hungUp => s \in peerClosed
    /\ s \in peerClosed => s \in peerEOF /\ s \in sentClose
    /\ main = "opening" /\ s \in sentClose => s \in hungUp
    /\ main = "looping" /\ s \in sentClose /\ s \notin hungUp =>
          {Other(s), Reqs(Other(s))} \subseteq seen /\ Delivered(s)

MainInv ==
    /\ quit \notin seen
    /\ main = "opening" =>
          /\ seen = {} /\ quit = "none"
          /\ \A s \in Sides : copier[s] = "off" /\ fwd[s] = "off"
    /\ main # "opening" /\ result # "err" =>
          \A s \in Sides : copier[s] # "off" /\ fwd[s] # "off"
    /\ main # "returned" <=> result = "none"
    /\ result = "nil" =>
          /\ seen = Messages
          /\ \A s \in Sides : s \in hungUp \/ Delivered(s)

SideInv(s) == CopyInv(s) /\ FwdInv(s) /\ SeenInv(s) /\ CloseInv(s)
IInv == TypeOK /\ MainInv /\ \A s \in Sides : SideInv(s)

-----------------------------------------------------------------------------
\* The two sides, their messages and how they are told apart.
LEMMA SideFacts ==
    /\ Sides = {"lch", "rch"}
    /\ Messages = {"lch", "rch", "lreqs", "rreqs"}
    /\ \A s \in Sides :
          /\ Other(s) \in Sides /\ Other(s) # s /\ Other(Other(s)) = s
          /\ Reqs(s) \in Messages /\ Reqs(s) \notin Sides /\ s \in Messages
          /\ Reqs(s) # Reqs(Other(s))
          /\ "none" \notin Messages
BY DEF Sides, Other, Reqs, Messages

LEMMA TypeStep == TypeOK /\ [Next]_vars => TypeOK'
<1> SUFFICES ASSUME TypeOK, [Next]_vars PROVE TypeOK'
  OBVIOUS
<1>0. CountType /\ ChannelType /\ ControlType
  BY DEF TypeOK
<1>1. ASSUME NEW s \in Sides, Peer(s) PROVE TypeOK'
  <2> USE DEF Peer, PeerSendsData, PeerSendsStderr, PeerSendsRequest,
      PeerSendsEOF, PeerCloses, copyVars, fwdVars, mainVars
  <2>1. CountType'
    BY <1>0, <1>1 DEF CountType
  <2>2. ChannelType'
    BY <1>0, <1>1 DEF ChannelType
  <2>3. ControlType'
    BY <1>0, <1>1 DEF ControlType
  <2> QED BY <2>1, <2>2, <2>3 DEF TypeOK
<1>2. ASSUME NEW s \in Sides, CopierRuns(s) \/ CopierDelivers(s)
      PROVE TypeOK'
  <2> USE DEF CopierRuns, CopierDelivers, CopyReads, CopyReadsEOF,
     CopyWrites, CopyWriteFails, CopyQuits, wireVars, fwdVars, mainVars
  <2>1. CountType'
    BY <1>0, <1>2, SideFacts DEF CountType
  <2>2. ChannelType'
    BY <1>0, <1>2 DEF ChannelType
  <2>3. UNCHANGED <<fwd, errch, main, seen, result>>
    BY <1>2
  <2>4. \E pc \in CopierPC : copier' = [copier EXCEPT ![s] = pc]
    BY <1>2 DEF CopierPC
  <2>5. quit' \in {quit, s}
    BY <1>2
  <2>6. ControlType'
    BY ONLY <1>0, <2>3, <2>4, <2>5, SideFacts, s \in Sides DEF ControlType
  <2> QED BY <2>1, <2>2, <2>6 DEF TypeOK
<1>3. ASSUME NEW s \in Sides, ForwarderRuns(s) \/ ForwarderAnswered(s)
      PROVE TypeOK'
  <2> USE DEF ForwarderRuns, ForwarderAnswered, ForwarderTakes,
      ForwarderSends, ForwarderReplies, ForwarderQuits,
      ForwarderReportsSend, ForwarderReportsReply, ForwarderRangeEnds,
      ForwarderAwaitFails, PeerReplies, FwdTo, wireVars, copyVars, mainVars
  <2>1. CountType'
    BY <1>0, <1>3, SideFacts DEF CountType
  <2>2. ChannelType'
    BY <1>0, <1>3 DEF ChannelType
  <2>3. UNCHANGED <<copier, main, seen, result>>
    BY <1>3
  <2>4. \E pc \in ForwarderPC : fwd' = [fwd EXCEPT ![s] = pc]
    BY <1>3 DEF ForwarderPC
  <2>5. quit' \in {quit, Reqs(s)}
    BY <1>3
  <2>6. errch' \in BOOLEAN
    BY <1>0, <1>3 DEF ControlType
  <2>7. ControlType'
    BY ONLY <1>0, <2>3, <2>4, <2>5, <2>6, SideFacts, s \in Sides DEF ControlType
  <2> QED BY <2>1, <2>2, <2>7 DEF TypeOK
<1>4. ASSUME Main PROVE TypeOK'
  <2> USE DEF wireVars, copyVars, fwdVars, Return
  <2>1. CASE OpenLogFails \/ SelectErr
    BY <1>0, <2>1 DEF OpenLogFails, SelectErr, TypeOK, CountType, ChannelType,
       ControlType
  <2>2. CASE StartGoroutines
    BY <1>0, <2>2 DEF StartGoroutines, TypeOK, CountType, ChannelType,
       ControlType, CopierPC, ForwarderPC
  <2>3. CASE SelectQuit
    <3>1. CountType' /\ UNCHANGED <<copier, fwd, errch>>
      BY <1>0, <2>3 DEF SelectQuit, CountType
    <3>2. ChannelType'
      BY <1>0, <2>3 DEF SelectQuit, ChannelType, CloseOn, CloseWriteOn
    <3>3. quit' = "none" /\ seen' = seen \cup {quit} /\ quit # "none"
      BY <2>3 DEF SelectQuit
    <3>4. main' \in {main, "returned"} /\ result' \in {result, "nil"}
      BY <2>3 DEF SelectQuit
    <3>5. ControlType'
      BY ONLY <1>0, <3>1, <3>3, <3>4 DEF ControlType
    <3> QED BY <3>1, <3>2, <3>5 DEF TypeOK
  <2> QED BY <1>4, <2>1, <2>2, <2>3 DEF Main
<1>5. CASE UNCHANGED vars
  BY <1>5 DEF TypeOK, CountType, ChannelType, ControlType, vars
<1> QED BY <1>1, <1>2, <1>3, <1>4, <1>5 DEF Next

LEMMA InitType == Init => TypeOK
<1> SUFFICES ASSUME Init PROVE TypeOK
  OBVIOUS
<1>1. CountType
  BY DEF Init, CountType, Zero
<1>2. ChannelType
  BY DEF Init, ChannelType
<1>3. ControlType
  BY DEF Init, ControlType, CopierPC, ForwarderPC
<1> QED BY <1>1, <1>2, <1>3 DEF TypeOK

\* pipe's state stays well-typed whatever the peers do.
THEOREM TypeCorrect == Spec => []TypeOK
BY InitType, TypeStep, PTL DEF Spec

-----------------------------------------------------------------------------
LEMMA InitIInv == Init => IInv
<1> SUFFICES ASSUME Init PROVE IInv
  OBVIOUS
<1>1. TypeOK
  BY InitType
<1>2. MainInv
  BY DEF Init, MainInv
<1>3. ASSUME NEW s \in Sides PROVE SideInv(s)
  BY SideFacts DEF Init, Zero, SideInv, CopyInv, FwdInv, SeenInv, CloseInv
<1> QED BY <1>1, <1>2, <1>3 DEF IInv

LEMMA PeerStep ==
    ASSUME IInv, NEW s \in Sides, Peer(s)
    PROVE  MainInv' /\ \A t \in Sides : SideInv(t)'
<1> USE DEF Peer, PeerSendsData, PeerSendsStderr, PeerSendsRequest,
    PeerSendsEOF, PeerCloses, copyVars, fwdVars, mainVars
<1>0. /\ CountType /\ ChannelType /\ ControlType /\ MainInv
      /\ \A t \in Sides : CopyInv(t) /\ FwdInv(t) /\ SeenInv(t) /\ CloseInv(t)
  BY DEF IInv, TypeOK, SideInv
<1>1. ASSUME NEW t \in Sides PROVE CopyInv(t)'
  BY <1>0, SideFacts DEF CountType, ChannelType, CopyInv, CloseInv
<1>2. ASSUME NEW t \in Sides PROVE FwdInv(t)'
  BY <1>0, SideFacts DEF CountType, ChannelType, FwdInv, CloseInv
<1>3. ASSUME NEW t \in Sides PROVE SeenInv(t)'
  BY <1>0 DEF SeenInv
<1>4. ASSUME NEW t \in Sides PROVE CloseInv(t)'
  BY <1>0, SideFacts
     DEF CountType, ChannelType, CloseInv, SeenInv, CopyInv, FwdInv, Delivered
<1>5. MainInv'
  BY <1>0, SideFacts
     DEF CountType, ChannelType, MainInv, CloseInv, SeenInv, CopyInv, FwdInv,
         Delivered
<1> QED BY <1>1, <1>2, <1>3, <1>4, <1>5 DEF SideInv

LEMMA CopierStep ==
    ASSUME IInv, NEW s \in Sides, CopierRuns(s) \/ CopierDelivers(s)
    PROVE  MainInv' /\ \A t \in Sides : SideInv(t)'
<1> USE DEF CopierRuns, CopierDelivers, CopyReads, CopyReadsEOF, CopyWrites,
    CopyWriteFails, CopyQuits, wireVars, fwdVars, mainVars
<1>0. /\ CountType /\ ChannelType /\ ControlType /\ MainInv
      /\ \A t \in Sides : CopyInv(t) /\ FwdInv(t) /\ SeenInv(t) /\ CloseInv(t)
  BY DEF IInv, TypeOK, SideInv
<1>1. ASSUME NEW t \in Sides PROVE CopyInv(t)'
  BY <1>0, SideFacts DEF CountType, ControlType, CopyInv, SeenInv
<1>2. ASSUME NEW t \in Sides PROVE FwdInv(t)'
  BY <1>0 DEF FwdInv
<1>3. ASSUME NEW t \in Sides PROVE SeenInv(t)'
  BY <1>0, SideFacts DEF ControlType, SeenInv
<1>4. ASSUME NEW t \in Sides PROVE CloseInv(t)'
  BY <1>0, SideFacts DEF CountType, ControlType, CloseInv, SeenInv, Delivered
<1>5. MainInv'
  BY <1>0, SideFacts
     DEF CountType, ControlType, MainInv, SeenInv, Delivered
<1> QED BY <1>1, <1>2, <1>3, <1>4, <1>5 DEF SideInv

LEMMA ForwarderStep ==
    ASSUME IInv, NEW s \in Sides, ForwarderRuns(s) \/ ForwarderAnswered(s)
    PROVE  MainInv' /\ \A t \in Sides : SideInv(t)'
<1> USE DEF ForwarderRuns, ForwarderAnswered, ForwarderTakes, ForwarderSends,
    ForwarderReplies, ForwarderQuits, ForwarderReportsSend,
    ForwarderReportsReply, ForwarderRangeEnds, ForwarderAwaitFails,
    PeerReplies, FwdTo, wireVars, copyVars, mainVars
<1>0. /\ CountType /\ ChannelType /\ ControlType /\ MainInv
      /\ \A t \in Sides : CopyInv(t) /\ FwdInv(t) /\ SeenInv(t) /\ CloseInv(t)
  BY DEF IInv, TypeOK, SideInv
<1>1. ASSUME NEW t \in Sides PROVE CopyInv(t)'
  BY <1>0 DEF CopyInv
<1>2. ASSUME NEW t \in Sides PROVE FwdInv(t)'
  BY <1>0, SideFacts DEF CountType, ControlType, FwdInv
<1>3. ASSUME NEW t \in Sides PROVE SeenInv(t)'
  BY <1>0, SideFacts DEF ControlType, SeenInv
<1>4. ASSUME NEW t \in Sides PROVE CloseInv(t)'
  BY <1>0, SideFacts DEF CountType, ControlType, CloseInv, SeenInv, Delivered
<1>5. MainInv'
  BY <1>0, SideFacts DEF CountType, ControlType, MainInv, SeenInv, Delivered
<1> QED BY <1>1, <1>2, <1>3, <1>4, <1>5 DEF SideInv

\* The returns: everything that depends on main = "looping" is discharged.
LEMMA ReturnErrStep ==
    ASSUME IInv, OpenLogFails \/ SelectErr
    PROVE  MainInv' /\ \A t \in Sides : SideInv(t)'
<1> USE DEF OpenLogFails, SelectErr, Return, wireVars, copyVars, fwdVars
<1>0. /\ CountType /\ ChannelType /\ ControlType /\ MainInv
      /\ \A t \in Sides : CopyInv(t) /\ FwdInv(t) /\ SeenInv(t) /\ CloseInv(t)
  BY DEF IInv, TypeOK, SideInv
<1>1. ASSUME NEW t \in Sides PROVE CopyInv(t)' /\ FwdInv(t)'
  BY <1>0, SideFacts DEF CopyInv, FwdInv
<1>2. ASSUME NEW t \in Sides PROVE SeenInv(t)' /\ CloseInv(t)'
  BY <1>0 DEF SeenInv, CloseInv
<1>3. MainInv'
  BY <1>0 DEF MainInv
<1> QED BY <1>1, <1>2, <1>3 DEF SideInv

LEMMA StartStep ==
    ASSUME IInv, StartGoroutines
    PROVE  MainInv' /\ \A t \in Sides : SideInv(t)'
<1> USE DEF StartGoroutines, wireVars
<1>0. /\ CountType /\ ChannelType /\ ControlType /\ MainInv
      /\ \A t \in Sides : CopyInv(t) /\ FwdInv(t) /\ SeenInv(t) /\ CloseInv(t)
  BY DEF IInv, TypeOK, SideInv
<1>1. ASSUME NEW t \in Sides PROVE CopyInv(t)' /\ FwdInv(t)'
  BY <1>0, SideFacts DEF CountType, CopyInv, FwdInv, MainInv
<1>2. ASSUME NEW t \in Sides PROVE SeenInv(t)' /\ CloseInv(t)'
  BY <1>0, SideFacts DEF SeenInv, CloseInv, MainInv
<1>3. MainInv'
  BY <1>0 DEF MainInv
<1> QED BY <1>1, <1>2, <1>3 DEF SideInv

\* The heart of the loop: a side is closed only behind a finished stream, so
\* that the stream was delivered unless the side's own peer has hung up.
LEMMA SelectQuitStep ==
    ASSUME IInv, SelectQuit
    PROVE  MainInv' /\ \A t \in Sides : SideInv(t)'
<1> USE DEF SelectQuit, wireVars, copyVars, fwdVars
<1>0. /\ CountType /\ ChannelType /\ ControlType /\ MainInv
      /\ \A t \in Sides : CopyInv(t) /\ FwdInv(t) /\ SeenInv(t) /\ CloseInv(t)
  BY DEF IInv, TypeOK, SideInv
<1>1. /\ quit \in Messages /\ seen \subseteq Messages
      /\ seen' = seen \cup {quit} /\ quit' = "none"
  BY <1>0 DEF ControlType
<1>2. sentClose \subseteq sentClose' /\ sentClose' \subseteq Sides
  BY <1>0 DEF ChannelType, Return, CloseOn
<1>3. ASSUME NEW t \in Sides PROVE CopyInv(t)' /\ FwdInv(t)'
  BY <1>0, <1>2, SideFacts DEF CopyInv, FwdInv
<1>4. ASSUME NEW t \in Sides PROVE SeenInv(t)'
  BY <1>0, <1>1, SideFacts DEF SeenInv, CloseWriteOn
<1>5. ASSUME NEW t \in Sides, t \notin sentClose,
             {Other(t), Reqs(Other(t))} \subseteq seen'
      PROVE  Delivered(t)'
  <2>1. copier[Other(t)] = "done" /\ fwd[Other(t)] = "done"
    BY <1>0, <1>1, <1>5, SideFacts DEF SeenInv
  <2>2. got[t] = sent[Other(t)]
    BY <1>0, <1>5, <2>1, SideFacts DEF CopyInv
  <2>3. reqGot[t] = reqSent[Other(t)]
    BY <1>0, <1>5, <2>1, SideFacts DEF FwdInv, CountType
  <2> QED BY <2>2, <2>3 DEF Delivered
<1>6. ASSUME NEW t \in Sides, t \in sentClose, t \notin hungUp,
             main = "looping"
      PROVE  {Other(t), Reqs(Other(t))} \subseteq seen' /\ Delivered(t)'
  BY <1>0, <1>1, <1>6 DEF CloseInv, Delivered
<1>7. ASSUME NEW t \in Sides PROVE CloseInv(t)'
  BY <1>0, <1>1, <1>2, <1>5, <1>6, SideFacts DEF CloseInv, CloseOn, Return
<1>8. MainInv'
  <2>1. CASE Ends(seen')
    <3>1. seen' = Messages /\ main' = "returned" /\ result' = "nil"
      BY <2>1 DEF Ends, Return
    <3>2. ASSUME NEW t \in Sides PROVE t \in hungUp' \/ Delivered(t)'
      BY <1>0, <1>5, <1>6, <3>1, SideFacts
    <3> QED BY <1>0, <1>1, <3>1, <3>2, SideFacts DEF MainInv
  <2>2. CASE ~Ends(seen')
    <3>1. main' = "looping" /\ result' = result /\ result = "none"
      BY <1>0, <2>2 DEF MainInv
    <3> QED BY <1>0, <1>1, <3>1, SideFacts DEF MainInv
  <2> QED BY <2>1, <2>2
<1> QED BY <1>3, <1>4, <1>7, <1>8 DEF SideInv

LEMMA StepIInv == IInv /\ [Next]_vars => IInv'
<1> SUFFICES ASSUME IInv, [Next]_vars PROVE IInv'
  OBVIOUS
<1>1. TypeOK'
  BY TypeStep DEF IInv
<1>2. CASE UNCHANGED vars
  BY <1>1, <1>2
     DEF vars, IInv, MainInv, SideInv, CopyInv, FwdInv, SeenInv, CloseInv,
         Delivered
<1>3. CASE Next
  <2>1. MainInv' /\ \A t \in Sides : SideInv(t)'
    BY <1>3, PeerStep, CopierStep, ForwarderStep, ReturnErrStep, StartStep,
       SelectQuitStep
       DEF Next, Main
  <2> QED BY <1>1, <2>1 DEF IInv
<1> QED BY <1>2, <1>3

\* The inductive invariant holds in every reachable state.
THEOREM Inductive == Spec => []IInv
BY InitIInv, StepIInv, PTL DEF Spec

-----------------------------------------------------------------------------
LEMMA IInvOrderlyClose == IInv => OrderlyClose
<1> SUFFICES ASSUME IInv, NEW s \in Sides, main = "looping",
                    s \in sentClose, s \notin peerClosed
             PROVE  Other(s) \in peerClosed /\ Delivered(s)
  BY DEF OrderlyClose
<1>1. {Other(s), Reqs(Other(s))} \subseteq seen /\ Delivered(s)
  BY DEF IInv, SideInv, CloseInv
<1>2. fwd[Other(s)] = "done"
  BY <1>1, SideFacts DEF IInv, SideInv, SeenInv
<1> QED BY <1>1, <1>2, SideFacts DEF IInv, SideInv, FwdInv

LEMMA IInvEOFAfterData == IInv => EOFAfterData
<1> SUFFICES ASSUME IInv, NEW s \in Sides, main = "looping",
                    s \in sentEOF, s \notin peerClosed
             PROVE  Other(s) \in peerEOF /\ got[s] = sent[Other(s)]
  BY DEF EOFAfterData
<1>1. copier[Other(s)] = "done"
  BY SideFacts DEF IInv, SideInv, SeenInv
<1>2. CASE s \notin sentClose
  BY <1>1, <1>2, SideFacts DEF IInv, SideInv, CopyInv
<1>3. CASE s \in sentClose
  BY <1>3, IInvOrderlyClose, SideFacts
     DEF IInv, SideInv, CloseInv, OrderlyClose, Delivered
<1> QED BY <1>2, <1>3

\* While pipe runs, a side is closed under a peer that is still there only
\* behind a stream delivered to the end, for any number of chunks and requests.
THEOREM ClosesInOrder == Spec => []OrderlyClose
BY Inductive, IInvOrderlyClose, PTL

\* No peer that is still there is told EOF before the last byte for it.
THEOREM DataBeforeEOF == Spec => []EOFAfterData
BY Inductive, IInvEOFAfterData, PTL

\* A nil result means each peer that did not hang up has everything.
THEOREM NilDelivers == Spec => []NilMeansDelivered
<1>1. IInv => NilMeansDelivered
  BY DEF IInv, MainInv, NilMeansDelivered
<1> QED BY <1>1, Inductive, PTL

\* A nil result leaves no goroutine blocked on quit or errch.
THEOREM NilQuits == Spec => []NilMeansAllQuit
<1>1. IInv => NilMeansAllQuit
  BY SideFacts
     DEF IInv, TypeOK, ControlType, MainInv, SideInv, SeenInv, NilMeansAllQuit
<1> QED BY <1>1, Inductive, PTL

-----------------------------------------------------------------------------
(* Pipe implements Relay.                                                  *)

\* An error is about a side that is closed, nothing is relayed before the
\* goroutines are there, and a return closes both sides.
PlainInv ==
    /\ main = "returned" => sentClose = Sides
    /\ errch => sentClose # {}
    /\ \A s \in Sides : fwd[s] \in {"err", "err2"} => sentClose # {}
    /\ main = "opening" => \A s \in Sides : got[s] = 0 /\ reqGot[s] = 0

LEMMA InitPlain == Init => PlainInv
BY DEF Init, PlainInv, Zero

LEMMA PlainStep == IInv /\ PlainInv /\ [Next]_vars => PlainInv'
<1> SUFFICES ASSUME IInv, PlainInv, [Next]_vars PROVE PlainInv'
  OBVIOUS
<1>0. /\ fwd \in [Sides -> ForwarderPC] /\ MainInv /\ sentClose \subseteq Sides
      /\ \A t \in Sides : t \in peerClosed => t \in sentClose
  BY DEF IInv, TypeOK, ControlType, ChannelType, SideInv, CloseInv
<1>1. ASSUME NEW s \in Sides, Peer(s) PROVE PlainInv'
  <2>1. /\ UNCHANGED <<errch, fwd, main, got, reqGot>>
        /\ sentClose' \in {sentClose, sentClose \cup {s}}
    BY <1>1 DEF Peer, PeerCloses, fwdVars, mainVars
  <2> QED BY <2>1 DEF PlainInv
<1>2. ASSUME NEW s \in Sides, CopierRuns(s) PROVE PlainInv'
  <2>1. UNCHANGED <<errch, fwd, main, reqGot, sentClose, got>>
    BY <1>2 DEF CopierRuns, CopyReads, CopyReadsEOF, CopyWriteFails, CopyQuits,
       fwdVars, mainVars
  <2> QED BY <2>1 DEF PlainInv
<1>3. ASSUME NEW s \in Sides, CopierDelivers(s) PROVE PlainInv'
  <2>1. UNCHANGED <<errch, fwd, main, reqGot, sentClose>> /\ main # "opening"
    BY <1>0, <1>3 DEF CopierDelivers, CopyWrites, fwdVars, mainVars, MainInv
  <2> QED BY <2>1 DEF PlainInv
<1>4. ASSUME NEW s \in Sides, ForwarderRuns(s) \/ ForwarderAnswered(s)
      PROVE  PlainInv'
  <2>1. UNCHANGED <<main, sentClose>> /\ main # "opening"
    BY <1>0, <1>4
       DEF ForwarderRuns, ForwarderAnswered, ForwarderTakes, ForwarderRangeEnds,
           ForwarderSends, ForwarderAwaitFails, ForwarderReportsSend,
           ForwarderReplies, ForwarderReportsReply, ForwarderQuits, PeerReplies,
           mainVars, MainInv
  <2>2. \A t \in Sides \ {s} : fwd'[t] = fwd[t]
    BY <1>0, <1>4
       DEF ForwarderRuns, ForwarderAnswered, ForwarderTakes, ForwarderRangeEnds,
           ForwarderSends, ForwarderAwaitFails, ForwarderReportsSend,
           ForwarderReplies, ForwarderReportsReply, ForwarderQuits, PeerReplies,
           FwdTo
  <2>3. (errch' => sentClose # {}) /\ (fwd'[s] \in {"err", "err2"} => sentClose # {})
    <3>1. CASE ForwarderTakes(s) \/ ForwarderRangeEnds(s) \/ ForwarderQuits(s)
               \/ PeerReplies(s)
      BY <1>0, <3>1 DEF ForwarderTakes, ForwarderRangeEnds, ForwarderQuits,
         PeerReplies, FwdTo, PlainInv
    <3>2. CASE ForwarderReportsSend(s) \/ ForwarderReportsReply(s)
      BY <1>0, <3>2 DEF ForwarderReportsSend, ForwarderReportsReply, FwdTo, PlainInv
    <3>3. CASE ForwarderSends(s) \/ ForwarderAwaitFails(s) \/ ForwarderReplies(s)
      BY <1>0, <3>3, SideFacts DEF ForwarderSends, ForwarderAwaitFails,
         ForwarderReplies, FwdTo, PlainInv
    <3> QED BY <1>4, <3>1, <3>2, <3>3 DEF ForwarderRuns, ForwarderAnswered
  <2> QED BY <2>1, <2>2, <2>3 DEF PlainInv
<1>5. CASE OpenLogFails \/ SelectErr
  BY <1>5 DEF OpenLogFails, SelectErr, Return, fwdVars, PlainInv, Sides
<1>6. CASE StartGoroutines
  BY <1>6 DEF StartGoroutines, PlainInv
<1>7. CASE SelectQuit
  <2>1. UNCHANGED <<errch, fwd>> /\ main # "opening" /\ main' # "opening"
    BY <1>7 DEF SelectQuit, fwdVars, Return
  <2>2. /\ sentClose # {} => sentClose' # {}
        /\ main' = "returned" => sentClose' = Sides
    BY <1>7 DEF SelectQuit, Return, Sides
  <2> QED BY <2>1, <2>2 DEF PlainInv
<1>8. CASE UNCHANGED vars
  BY <1>8 DEF vars, PlainInv
<1> QED BY <1>1, <1>2, <1>3, <1>4, <1>5, <1>6, <1>7, <1>8 DEF Next, Main

RelayVars == <<sent, got, reqSent, reqGot, peerEOF, peerClosed, hungUp, sentEOF,
               sentClose, result>>

\* The peers of Pipe are those of Relay; standard error is not seen there.
LEMMA PeerPromise ==
    ASSUME TypeOK, NEW s \in Sides, Peer(s)
    PROVE  Promise!Next \/ UNCHANGED RelayVars
<1> USE DEF Promise!Next, Promise!relayVars
<1>0. UNCHANGED <<got, reqGot, sentEOF, result>>
  BY DEF Peer, fwdVars, mainVars
<1>1. CASE PeerSendsData(s) /\ UNCHANGED sentClose
  BY <1>0, <1>1 DEF PeerSendsData, Promise!Sends
<1>2. CASE PeerSendsStderr(s) /\ UNCHANGED sentClose
  BY <1>0, <1>2 DEF PeerSendsStderr, RelayVars
<1>3. CASE PeerSendsRequest(s) /\ UNCHANGED sentClose
  BY <1>0, <1>3 DEF PeerSendsRequest, Promise!Asks
<1>4. CASE PeerSendsEOF(s) /\ UNCHANGED sentClose
  BY <1>0, <1>4 DEF PeerSendsEOF, Promise!Finishes
<1>5. CASE PeerCloses(s)
  BY <1>0, <1>5 DEF PeerCloses, Promise!Leaves
<1> QED BY <1>1, <1>2, <1>3, <1>4, <1>5 DEF Peer

\* What a goroutine delivers was sent and not delivered yet.
LEMMA CopierPromise ==
    ASSUME IInv, PlainInv, NEW s \in Sides, CopierRuns(s) \/ CopierDelivers(s)
    PROVE  Promise!Next \/ UNCHANGED RelayVars
<1>1. CASE CopierRuns(s)
  BY <1>1 DEF CopierRuns, CopyReads, CopyReadsEOF, CopyWriteFails, CopyQuits,
     wireVars, fwdVars, mainVars, RelayVars
<1>2. CASE CopierDelivers(s)
  <2>1. /\ copier[s] = "write" /\ got' = [got EXCEPT ![Other(s)] = @ + 1]
        /\ Other(s) \notin sentEOF \cup sentClose
        /\ UNCHANGED <<sent, reqSent, reqGot, peerEOF, peerClosed, hungUp, sentEOF,
                       sentClose, result>>
    BY <1>2 DEF CopierDelivers, CopyWrites, wireVars, fwdVars, mainVars
  <2>2. got[Other(s)] + 1 = read[s] /\ read[s] <= sent[s]
    BY <2>1 DEF IInv, SideInv, CopyInv
  <2>3. got[Other(s)] < sent[Other(Other(s))]
    BY <2>2, SideFacts DEF IInv, TypeOK, CountType
  <2>4. result = "none"
    BY <2>1, SideFacts DEF IInv, MainInv, PlainInv
  <2> QED BY <2>1, <2>3, <2>4, SideFacts
         DEF Promise!Next, Promise!Gives, Promise!peerVars
<1> QED BY <1>1, <1>2

\* A request is passed while pipe runs, behind all earlier ones.
LEMMA ForwarderPromise ==
    ASSUME IInv, PlainInv, NEW s \in Sides, ForwarderRuns(s) \/ ForwarderAnswered(s)
    PROVE  Promise!Next \/ UNCHANGED RelayVars
<1>0. UNCHANGED <<sent, got, reqSent, peerEOF, peerClosed, hungUp, sentEOF,
                  sentClose, result>>
  BY DEF ForwarderRuns, ForwarderAnswered, wireVars, copyVars, mainVars
<1>1. CASE UNCHANGED reqGot
  BY <1>0, <1>1 DEF RelayVars
<1>2. CASE ~ UNCHANGED reqGot
  <2>1. /\ fwd[s] = "send" /\ Other(s) \notin sentClose
        /\ reqGot' = [reqGot EXCEPT ![Other(s)] = @ + 1]
    BY <1>2
       DEF ForwarderRuns, ForwarderAnswered, ForwarderTakes, ForwarderRangeEnds,
           ForwarderSends, ForwarderAwaitFails, ForwarderReportsSend,
           ForwarderReplies, ForwarderReportsReply, ForwarderQuits, PeerReplies
  <2>2. reqGot[Other(s)] + 1 = reqRead[s] /\ reqRead[s] <= reqSent[s]
    BY <2>1 DEF IInv, SideInv, FwdInv
  <2>3. reqGot[Other(s)] < reqSent[Other(Other(s))]
    BY <2>2, SideFacts DEF IInv, TypeOK, CountType
  <2>4. result = "none"
    BY <2>1, SideFacts DEF IInv, MainInv, PlainInv
  <2> QED BY <1>0, <2>1, <2>3, <2>4, SideFacts
         DEF Promise!Next, Promise!Passes, Promise!peerVars
<1> QED BY <1>1, <1>2

LEMMA ErrPromise ==
    ASSUME IInv, PlainInv, OpenLogFails \/ SelectErr
    PROVE  Promise!Next
<1>1. /\ main # "returned" /\ result' = "err" /\ sentClose' = Sides
      /\ UNCHANGED <<sent, got, reqSent, reqGot, peerEOF, peerClosed, hungUp, sentEOF>>
  BY DEF OpenLogFails, SelectErr, Return, wireVars, fwdVars
<1>2. sentClose # {} \/ \A s \in Sides : got[s] = 0 /\ reqGot[s] = 0
  BY DEF PlainInv, OpenLogFails, SelectErr
<1>3. result = "none"
  BY <1>1 DEF IInv, MainInv
<1> QED BY <1>1, <1>2, <1>3 DEF Promise!Next, Promise!Fails, Promise!peerVars

\* Receiving a quit message ends streams that are complete, and nothing else.
LEMMA QuitPromise ==
    ASSUME IInv, SelectQuit
    PROVE  Promise!Next
<1>0. /\ UNCHANGED <<sent, got, reqSent, reqGot, peerEOF, peerClosed, hungUp>>
      /\ result = "none" /\ main = "looping"
      /\ sentClose \subseteq Sides /\ sentEOF \subseteq Sides
  BY DEF SelectQuit, wireVars, copyVars, fwdVars, IInv, MainInv, TypeOK, ChannelType
<1>1. /\ quit \in Messages /\ seen' = seen \cup {quit}
      /\ sentEOF' = sentEOF \cup CloseWriteOn(quit)
  BY DEF SelectQuit, IInv, TypeOK, ControlType
<1>2. ASSUME NEW t \in Sides, {Other(t), Reqs(Other(t))} \subseteq seen'
      PROVE  /\ copier[Other(t)] = "done" /\ fwd[Other(t)] = "done"
             /\ Other(t) \in peerClosed
  BY <1>1, <1>2, SideFacts DEF IInv, SideInv, SeenInv, FwdInv
<1>3. ASSUME NEW t \in Sides, t \notin sentClose,
             {Other(t), Reqs(Other(t))} \subseteq seen'
      PROVE  Delivered(t)
  BY <1>2, <1>3, SideFacts DEF IInv, TypeOK, CountType, SideInv, CopyInv, FwdInv,
     Delivered
<1>4. ASSUME NEW t \in CloseWriteOn(quit)
      PROVE  t \in Sides /\ (t \in peerClosed \/ (Other(t) \in peerEOF /\ got[t] = sent[Other(t)]))
  <2>1. t \in Sides /\ quit = Other(t)
    BY <1>4 DEF CloseWriteOn
  <2>2. copier[Other(t)] = "done"
    BY <2>1, SideFacts DEF IInv, SideInv, SeenInv
  <2>3. CASE t \in sentClose
    <3>1. CASE t \in hungUp
      BY <2>1, <3>1 DEF IInv, SideInv, CloseInv
    <3>2. CASE t \notin hungUp
      <4>1. {Other(t), Reqs(Other(t))} \subseteq seen /\ Delivered(t)
        BY <1>0, <2>1, <2>3, <3>2 DEF IInv, SideInv, CloseInv
      <4> QED BY <1>1, <1>2, <2>1, <4>1, SideFacts
             DEF IInv, SideInv, CloseInv, Delivered
    <3> QED BY <3>1, <3>2
  <2>4. CASE t \notin sentClose
    BY <2>1, <2>2, <2>4, SideFacts DEF IInv, SideInv, CopyInv
  <2> QED BY <2>1, <2>3, <2>4
<1>5. Promise!TellsEnd
  BY <1>0, <1>1, <1>4 DEF Promise!TellsEnd, Promise!AllData
<1>6. CASE Ends(seen')
  <2>1. /\ seen' = Messages /\ result' = "nil" /\ sentClose' = Sides
    BY <1>6 DEF SelectQuit, Ends, Return
  <2>2. ASSUME NEW t \in Sides PROVE t \in hungUp \/ Delivered(t)
    <3>1. {Other(t), Reqs(Other(t))} \subseteq seen'
      BY <2>1, SideFacts
    <3> QED BY <1>0, <1>3, <3>1 DEF IInv, SideInv, CloseInv
  <2> QED BY <1>0, <1>5, <2>1, <2>2
         DEF Promise!Next, Promise!EndsWell, Promise!peerVars, Promise!Whole,
             Promise!AllData, Delivered
<1>7. CASE ~ Ends(seen')
  <2>1. sentClose' = sentClose \cup CloseOn(seen') /\ result' = result
    BY <1>7 DEF SelectQuit
  <2>2. \A t \in CloseOn(seen') : t \in Sides /\ {Other(t), Reqs(Other(t))} \subseteq seen'
    BY DEF CloseOn
  <2>3. \A t \in sentClose' \ sentClose : Other(t) \in peerClosed /\ Delivered(t)
    BY <1>2, <1>3, <2>1, <2>2
  <2> QED BY <1>0, <1>5, <2>1, <2>2, <2>3
         DEF Promise!Next, Promise!Closes, Promise!peerVars, Promise!Whole,
             Promise!AllData, Delivered
<1> QED BY <1>6, <1>7

\* pipe is a Relay: for any number of chunks and requests, and any window, what the
\* client and the host see of it is what Relay allows, step by step.
THEOREM RelayKept == Spec => RelaySpec
<1>1. Init => Promise!Init
  BY DEF Init, Zero, Promise!Init
<1>2. IInv /\ PlainInv /\ [Next]_vars => [Promise!Next]_(Promise!vars)
  <2> SUFFICES ASSUME IInv, PlainInv, [Next]_vars
               PROVE  Promise!Next \/ UNCHANGED RelayVars
    BY DEF Promise!vars, RelayVars
  <2>1. ASSUME NEW s \in Sides, Peer(s) PROVE Promise!Next \/ UNCHANGED RelayVars
    BY <2>1, PeerPromise DEF IInv
  <2>2. ASSUME NEW s \in Sides, CopierRuns(s) \/ CopierDelivers(s)
        PROVE  Promise!Next \/ UNCHANGED RelayVars
    BY <2>2, CopierPromise
  <2>3. ASSUME NEW s \in Sides, ForwarderRuns(s) \/ ForwarderAnswered(s)
        PROVE  Promise!Next \/ UNCHANGED RelayVars
    BY <2>3, ForwarderPromise
  <2>4. CASE OpenLogFails \/ SelectErr
    BY <2>4, ErrPromise
  <2>5. CASE StartGoroutines
    BY <2>5 DEF StartGoroutines, RelayVars, wireVars
  <2>6. CASE SelectQuit
    BY <2>6, QuitPromise
  <2>7. CASE UNCHANGED vars
    BY <2>7 DEF vars, RelayVars
  <2> QED BY <2>1, <2>2, <2>3, <2>4, <2>5, <2>6, <2>7 DEF Next, Main
<1> QED BY <1>1, <1>2, InitPlain, PlainStep, Inductive, PTL
       DEF Spec, RelaySpec, Promise!Spec

-----------------------------------------------------------------------------
(* Why pipe ends: what the liveness runs check, without the fairness.       *)

\* The guards of the goroutines' steps.
MainReady ==
    \/ main = "opening"
    \/ main = "looping" /\ (errch \/ quit # "none")
CopierReady(s) ==
    \/ copier[s] = "read" /\ (read[s] < sent[s] \/ s \in peerEOF)
    \/ copier[s] = "write" /\ Other(s) \in sentEOF \cup sentClose
    \/ copier[s] = "quit" /\ quit = "none"
ForwarderReady(s) ==
    \/ fwd[s] = "range" /\ (reqRead[s] < reqSent[s] \/ s \in peerClosed)
    \/ fwd[s] \in {"send", "reply"}
    \/ fwd[s] = "await" /\ Other(s) \in peerClosed
    \/ fwd[s] \in {"err", "err2"} /\ ~ errch
    \/ fwd[s] = "quit" /\ quit = "none"

\* What is due from the peer of s: to take data, to answer a request or a close.
PeerDue(s) ==
    \/ copier[Other(s)] = "write" /\ s \notin sentEOF \cup sentClose
    \/ fwd[Other(s)] = "await" /\ s \notin peerClosed
    \/ s \in sentClose \ peerClosed

Ready ==
    \/ MainReady
    \/ \E s \in Sides : CopierReady(s) \/ ForwarderReady(s) \/ (PeerDue(s) /\ s \notin peerClosed)

NeverStuck == peerClosed # {} /\ main # "returned" => Ready

\* A goroutine that is done has told so, and pipe has drawn the consequences of
\* what it was told.
DoneInv ==
    /\ main = "looping" => seen # Messages
    /\ \A s \in Sides :
          /\ copier[s] = "done" => s \in seen \/ quit = s
          /\ fwd[s] = "done" => Reqs(s) \in seen \/ quit = Reqs(s)
          /\ main = "looping" /\ {Other(s), Reqs(Other(s))} \subseteq seen
                => Reqs(s) \in seen \/ s \in sentClose

LEMMA InitDone == Init => DoneInv
BY DEF Init, DoneInv

LEMMA DoneStep == IInv /\ DoneInv /\ [Next]_vars => DoneInv'
<1> SUFFICES ASSUME IInv, DoneInv, [Next]_vars PROVE DoneInv'
  OBVIOUS
<1>0. /\ fwd \in [Sides -> ForwarderPC] /\ copier \in [Sides -> CopierPC]
      /\ quit \in Messages \cup {"none"} /\ MainInv
  BY DEF IInv, TypeOK, ControlType
<1>1. ASSUME NEW s \in Sides, Peer(s) PROVE DoneInv'
  <2>1. /\ UNCHANGED <<quit, copier, fwd, main, seen>>
        /\ sentClose' \in {sentClose, sentClose \cup {s}}
    BY <1>1 DEF Peer, PeerCloses, copyVars, fwdVars, mainVars
  <2> QED BY <2>1 DEF DoneInv
<1>2. ASSUME NEW s \in Sides, CopierRuns(s) \/ CopierDelivers(s) PROVE DoneInv'
  <2>1. UNCHANGED <<fwd, main, seen, sentClose>>
    BY <1>2 DEF CopierRuns, CopierDelivers, fwdVars, mainVars
  <2>2. \/ quit' = quit /\ copier'[s] # "done"
        \/ quit' = s /\ quit = "none"
    BY <1>0, <1>2 DEF CopierRuns, CopierDelivers, CopyReads, CopyReadsEOF,
       CopyWriteFails, CopyWrites, CopyQuits
  <2>3. \A t \in Sides \ {s} : copier'[t] = copier[t]
    BY <1>0, <1>2 DEF CopierRuns, CopierDelivers, CopyReads, CopyReadsEOF,
       CopyWriteFails, CopyWrites, CopyQuits
  <2> QED BY <2>1, <2>2, <2>3, SideFacts DEF DoneInv
<1>3. ASSUME NEW s \in Sides, ForwarderRuns(s) \/ ForwarderAnswered(s) PROVE DoneInv'
  <2>1. UNCHANGED <<copier, main, seen, sentClose>>
    BY <1>3 DEF ForwarderRuns, ForwarderAnswered, copyVars, mainVars
  <2>2. \/ quit' = quit /\ fwd'[s] # "done"
        \/ quit' = Reqs(s) /\ quit = "none"
    BY <1>0, <1>3
       DEF ForwarderRuns, ForwarderAnswered, ForwarderTakes, ForwarderRangeEnds,
           ForwarderSends, ForwarderAwaitFails, ForwarderReportsSend,
           ForwarderReplies, ForwarderReportsReply, ForwarderQuits, PeerReplies,
           FwdTo
  <2>3. \A t \in Sides \ {s} : fwd'[t] = fwd[t]
    BY <1>0, <1>3
       DEF ForwarderRuns, ForwarderAnswered, ForwarderTakes, ForwarderRangeEnds,
           ForwarderSends, ForwarderAwaitFails, ForwarderReportsSend,
           ForwarderReplies, ForwarderReportsReply, ForwarderQuits, PeerReplies,
           FwdTo
  <2> QED BY <2>1, <2>2, <2>3, SideFacts DEF DoneInv
<1>4. CASE OpenLogFails \/ SelectErr
  BY <1>4 DEF OpenLogFails, SelectErr, Return, copyVars, fwdVars, DoneInv
<1>5. CASE StartGoroutines
  BY <1>0, <1>5, SideFacts DEF StartGoroutines, MainInv, DoneInv
<1>6. CASE SelectQuit
  <2>1. /\ UNCHANGED <<copier, fwd>> /\ quit' = "none" /\ seen' = seen \cup {quit}
        /\ main' = "looping" => /\ ~ Ends(seen')
                                /\ sentClose' = sentClose \cup CloseOn(seen')
    BY <1>6 DEF SelectQuit, Return, copyVars, fwdVars
  <2>2. ASSUME NEW s \in Sides, main' = "looping",
               {Other(s), Reqs(Other(s))} \subseteq seen', Reqs(s) \notin seen'
        PROVE  s \in sentClose'
    BY <2>1, <2>2 DEF CloseOn
  <2> QED BY <2>1, <2>2 DEF DoneInv, Ends
<1>7. CASE UNCHANGED vars
  BY <1>7 DEF vars, DoneInv
<1> QED BY <1>1, <1>2, <1>3, <1>4, <1>5, <1>6, <1>7 DEF Next, Main

\* What can be waited for when pipe has not returned.
LEMMA StuckSide ==
    ASSUME IInv, DoneInv, ~ Ready, main = "looping", NEW s \in Sides
    PROVE  /\ copier[s] = "done" => s \in seen
           /\ fwd[s] = "done" => Reqs(s) \in seen
           /\ s \in peerEOF => copier[s] = "done"
           /\ s \in peerClosed => fwd[s] = "done"
           /\ Other(s) \in sentClose => Other(s) \in peerClosed
<1>0. /\ fwd \in [Sides -> ForwarderPC] /\ copier \in [Sides -> CopierPC]
      /\ copier[s] # "off" /\ fwd[s] # "off" /\ Other(s) \in Sides
      /\ read[s] \in Nat /\ sent[s] \in Nat /\ reqRead[s] \in Nat /\ reqSent[s] \in Nat
      /\ Other(s) \in peerClosed => Other(s) \in sentClose
  BY SideFacts DEF IInv, TypeOK, ControlType, CountType, MainInv, SideInv, CloseInv
<1>1. quit = "none" /\ ~ errch
  BY DEF Ready, MainReady
<1>2. Other(s) \in sentClose => Other(s) \in peerClosed
  BY <1>0 DEF Ready, PeerDue
<1>3. s \in peerEOF => copier[s] = "done"
  <2>1. copier[s] # "quit" /\ (s \in peerEOF => copier[s] # "read")
    BY <1>1 DEF Ready, CopierReady
  <2>2. copier[s] = "write" => Other(s) \notin sentEOF \cup sentClose
    BY DEF Ready, CopierReady
  <2>3. copier[s] # "write"
    BY <1>0, <2>2, SideFacts DEF Ready, PeerDue
  <2> QED BY <1>0, <2>1, <2>3 DEF CopierPC
<1>4. s \in peerClosed => fwd[s] = "done"
  <2>1. fwd[s] \notin {"send", "reply", "err", "err2", "quit"}
        /\ (s \in peerClosed => fwd[s] # "range")
    BY <1>1 DEF Ready, ForwarderReady
  <2>2. fwd[s] # "await"
    BY <1>0, SideFacts DEF Ready, ForwarderReady, PeerDue
  <2> QED BY <1>0, <2>1, <2>2 DEF ForwarderPC
<1>5. (copier[s] = "done" => s \in seen) /\ (fwd[s] = "done" => Reqs(s) \in seen)
  BY <1>1, SideFacts DEF DoneInv
<1> QED BY <1>2, <1>3, <1>4, <1>5

\* Once a peer has closed, and until pipe returns, a goroutine can run or something
\* is due from the peer that is still there; when both have closed, a goroutine can
\* run.  So pipe waits for nobody who owes it nothing.
THEOREM NobodyStuck == Spec => []NeverStuck
<1>1. IInv /\ DoneInv => NeverStuck
  <2> SUFFICES ASSUME IInv, DoneInv, NEW s \in peerClosed, main # "returned", ~ Ready
               PROVE  FALSE
    BY DEF NeverStuck
  <2>1. /\ main = "looping" /\ s \in Sides /\ s \in peerEOF
    BY DEF IInv, TypeOK, ControlType, ChannelType, Ready, MainReady, SideInv, CloseInv
  <2>2. s \in seen /\ Reqs(s) \in seen
    BY <2>1, StuckSide
  <2> DEFINE o == Other(s)
  <2>3. o \in Sides /\ Other(o) = s
    BY <2>1, SideFacts
  <2>4. Reqs(o) \in seen \/ o \in sentClose
    BY <2>1, <2>2, <2>3 DEF DoneInv
  <2>5. o \in sentClose => o \in peerClosed
    BY <2>1, StuckSide
  <2>6. Reqs(o) \in seen => o \in peerClosed
    BY <2>3, SideFacts DEF IInv, SideInv, SeenInv, FwdInv
  <2>7. o \in peerClosed /\ o \in peerEOF
    BY <2>3, <2>4, <2>5, <2>6 DEF IInv, SideInv, CloseInv
  <2>8. o \in seen /\ Reqs(o) \in seen
    BY <2>1, <2>3, <2>7, StuckSide
  <2>9. seen = Messages
    BY <2>1, <2>2, <2>8, SideFacts DEF IInv, TypeOK, ControlType, Reqs, Other
  <2> QED BY <2>1, <2>9 DEF DoneInv
<1> QED BY <1>1, InitDone, DoneStep, Inductive, PTL DEF Spec

\* The steps left to pipe and its goroutines for what has been received: a chunk
\* or a request weighs more than the steps it takes its goroutine, a goroutine that
\* reports more than the message it leaves.
CopierLeft(pc) ==
    CASE pc = "done" -> 0 [] pc = "quit" -> 2 [] pc = "write" -> 4 [] OTHER -> 3
ForwarderLeft(pc) ==
    CASE pc = "done"  -> 0 [] pc = "quit" -> 2 [] pc = "err2"  -> 5
      [] pc = "reply" -> 6 [] pc = "err"  -> 8 [] pc = "await" -> 9
      [] pc = "send"  -> 10 [] OTHER -> 3
SideLeft(s) ==
    (2 * (sent[s] - read[s]) + CopierLeft(copier[s]))
    + (8 * (reqSent[s] - reqRead[s]) + ForwarderLeft(fwd[s]))
MainLeft == CASE main = "opening" -> 2 [] main = "looping" -> 1 [] OTHER -> 0
SlotsLeft == (IF errch THEN 1 ELSE 0) + (IF quit = "none" THEN 0 ELSE 1)
Left == (MainLeft + SlotsLeft) + (SideLeft("lch") + SideLeft("rch"))

LEMMA LeftIsNat ==
    ASSUME IInv
    PROVE  /\ MainLeft \in Nat /\ SlotsLeft \in Nat
           /\ \A s \in Sides : SideLeft(s) \in Nat
           /\ Left \in Nat
<1>1. ASSUME NEW s \in Sides PROVE SideLeft(s) \in Nat
  <2>1. /\ read[s] \in Nat /\ sent[s] \in Nat /\ reqRead[s] \in Nat /\ reqSent[s] \in Nat
        /\ read[s] <= sent[s] /\ reqRead[s] <= reqSent[s]
    BY DEF IInv, TypeOK, CountType, SideInv, CopyInv, FwdInv
  <2>2. CopierLeft(copier[s]) \in Nat /\ ForwarderLeft(fwd[s]) \in Nat
    BY DEF CopierLeft, ForwarderLeft
  <2> QED BY <2>1, <2>2 DEF SideLeft
<1>2. MainLeft \in Nat /\ SlotsLeft \in Nat
  BY DEF MainLeft, SlotsLeft
<1> QED BY <1>1, <1>2 DEF Left, Sides

\* What a goroutine of side s takes and leaves in the slots adds up to less.
LEMMA SideCounts ==
    ASSUME IInv, IInv', NEW s \in Sides, main' = main,
           SideLeft(Other(s))' = SideLeft(Other(s)),
           SlotsLeft' + SideLeft(s)' < SlotsLeft + SideLeft(s)
    PROVE  Left' < Left
<1>1. MainLeft' = MainLeft
  BY DEF MainLeft
<1>2. MainLeft \in Nat /\ SlotsLeft \in Nat /\ SideLeft(s) \in Nat /\ SideLeft(Other(s)) \in Nat
  BY LeftIsNat, SideFacts
<1>3. SlotsLeft' \in Nat
  BY DEF SlotsLeft
<1>4. SideLeft(s)' \in Int
  <2>1. /\ read[s]' \in Nat /\ sent[s]' \in Nat /\ reqRead[s]' \in Nat /\ reqSent[s]' \in Nat
    BY DEF IInv, TypeOK, CountType
  <2>2. CopierLeft(copier'[s]) \in Nat /\ ForwarderLeft(fwd'[s]) \in Nat
    BY DEF CopierLeft, ForwarderLeft
  <2> QED BY <2>1, <2>2 DEF SideLeft
<1>5. SideLeft("lch") + SideLeft("rch") = SideLeft(s) + SideLeft(Other(s))
  BY <1>2 DEF Sides, Other
<1>6. (SideLeft("lch") + SideLeft("rch"))' = SideLeft(s)' + SideLeft(Other(s))'
  <2>1. SideLeft(Other(s))' \in Int
    BY <1>2
  <2> QED BY <1>4, <2>1 DEF Sides, Other
<1> QED BY <1>1, <1>2, <1>3, <1>4, <1>5, <1>6 DEF Left

LEMMA CopierCounts ==
    ASSUME IInv, IInv', NEW s \in Sides, CopierRuns(s) \/ CopierDelivers(s)
    PROVE  Left' < Left
<1>0. /\ copier \in [Sides -> CopierPC] /\ read \in [Sides -> Nat]
      /\ quit \in Messages \cup {"none"} /\ s \in Messages /\ "none" \notin Messages
      /\ sent[s] \in Nat /\ read[s] \in Nat /\ reqSent[s] \in Nat /\ reqRead[s] \in Nat
      /\ Other(s) \in Sides /\ Other(s) # s
  BY SideFacts DEF IInv, TypeOK, ControlType, CountType, Messages
<1>1. /\ UNCHANGED <<sent, reqSent, reqRead, fwd, main, errch>>
  BY DEF CopierRuns, CopierDelivers, wireVars, fwdVars, mainVars
<1>2. copier'[Other(s)] = copier[Other(s)] /\ read'[Other(s)] = read[Other(s)]
  BY <1>0 DEF CopierRuns, CopierDelivers, CopyReads, CopyReadsEOF,
     CopyWriteFails, CopyWrites, CopyQuits
<1>3. SideLeft(Other(s))' = SideLeft(Other(s))
  BY <1>1, <1>2 DEF SideLeft
<1>4. \/ quit' = quit /\ read'[s] = read[s] + 1 /\ copier[s] = "read" /\ copier'[s] = "write"
      \/ quit' = quit /\ read'[s] = read[s] /\ copier[s] = "read" /\ copier'[s] = "quit"
      \/ quit' = quit /\ read'[s] = read[s] /\ copier[s] = "write" /\ copier'[s] \in {"read", "quit"}
      \/ /\ quit = "none" /\ quit' # "none" /\ read'[s] = read[s]
         /\ copier[s] = "quit" /\ copier'[s] = "done"
  BY <1>0 DEF CopierRuns, CopierDelivers, CopyReads, CopyReadsEOF,
     CopyWriteFails, CopyWrites, CopyQuits
<1> DEFINE F == 8 * (reqSent[s] - reqRead[s]) + ForwarderLeft(fwd[s])
<1>5. F \in Int /\ SideLeft(s) = (2 * (sent[s] - read[s]) + CopierLeft(copier[s])) + F
      /\ SideLeft(s)' = (2 * (sent[s] - read'[s]) + CopierLeft(copier'[s])) + F
  BY <1>0, <1>1 DEF SideLeft, ForwarderLeft
<1> HIDE DEF F
<1>6. SlotsLeft' + SideLeft(s)' < SlotsLeft + SideLeft(s)
  <2>1. CASE quit' = quit
    <3>1. SlotsLeft' = SlotsLeft /\ SlotsLeft \in Int
      BY <1>1, <2>1 DEF SlotsLeft
    <3>2. 2 * (sent[s] - read'[s]) + CopierLeft(copier'[s])
            < 2 * (sent[s] - read[s]) + CopierLeft(copier[s])
      BY <1>0, <1>4, <2>1 DEF CopierLeft
    <3>3. read'[s] \in Nat /\ CopierLeft(copier'[s]) \in Nat /\ CopierLeft(copier[s]) \in Nat
      BY <1>0, <1>4 DEF CopierLeft
    <3> QED BY <1>0, <1>5, <3>1, <3>2, <3>3
  <2>2. CASE quit = "none" /\ quit' # "none"
    <3>1. SlotsLeft' = SlotsLeft + 1 /\ SlotsLeft \in Int
      BY <1>1, <2>2 DEF SlotsLeft
    <3>2. read'[s] = read[s] /\ CopierLeft(copier[s]) = 2 /\ CopierLeft(copier'[s]) = 0
      BY <1>4, <2>2 DEF CopierLeft
    <3> QED BY <1>0, <1>5, <3>1, <3>2
  <2> QED BY <1>4, <2>1, <2>2
<1> QED BY <1>1, <1>3, <1>6, SideCounts

LEMMA ForwarderCounts ==
    ASSUME IInv, IInv', NEW s \in Sides, ForwarderRuns(s) \/ ForwarderAnswered(s)
    PROVE  Left' < Left
<1>0. /\ fwd \in [Sides -> ForwarderPC] /\ reqRead \in [Sides -> Nat]
      /\ quit \in Messages \cup {"none"} /\ Reqs(s) \in Messages /\ "none" \notin Messages
      /\ sent[s] \in Nat /\ read[s] \in Nat /\ reqSent[s] \in Nat /\ reqRead[s] \in Nat
      /\ Other(s) \in Sides /\ Other(s) # s /\ errch \in BOOLEAN
  BY SideFacts DEF IInv, TypeOK, ControlType, CountType, Messages
<1>1. UNCHANGED <<sent, reqSent, read, copier, main>>
  BY DEF ForwarderRuns, ForwarderAnswered, wireVars, copyVars, mainVars
<1>2. fwd'[Other(s)] = fwd[Other(s)] /\ reqRead'[Other(s)] = reqRead[Other(s)]
  BY <1>0
     DEF ForwarderRuns, ForwarderAnswered, ForwarderTakes, ForwarderRangeEnds,
         ForwarderSends, ForwarderAwaitFails, ForwarderReportsSend,
         ForwarderReplies, ForwarderReportsReply, ForwarderQuits, PeerReplies, FwdTo
<1>3. SideLeft(Other(s))' = SideLeft(Other(s))
  BY <1>1, <1>2 DEF SideLeft
<1> DEFINE C == 2 * (sent[s] - read[s]) + CopierLeft(copier[s])
           Open == reqSent[s] - reqRead[s]
           Silent == UNCHANGED <<errch, quit>>
           Tells == \/ ~ errch /\ errch' /\ quit' = quit
                    \/ quit = "none" /\ quit' # "none" /\ errch' = errch
<1>4. \/ Silent /\ reqRead'[s] = reqRead[s] + 1 /\ fwd[s] = "range" /\ fwd'[s] = "send"
      \/ /\ Silent /\ reqRead'[s] = reqRead[s]
         /\ \/ fwd[s] = "range" /\ fwd'[s] = "quit"
            \/ fwd[s] = "send"  /\ fwd'[s] \in {"err", "await", "reply"}
            \/ fwd[s] = "await" /\ fwd'[s] \in {"err", "reply"}
            \/ fwd[s] = "reply" /\ fwd'[s] \in {"err2", "range"}
      \/ /\ Tells /\ reqRead'[s] = reqRead[s]
         /\ \/ fwd[s] = "err"  /\ fwd'[s] = "reply"
            \/ fwd[s] = "err2" /\ fwd'[s] = "range"
            \/ fwd[s] = "quit" /\ fwd'[s] = "done"
  <2>1. CASE ForwarderTakes(s)
    BY <1>0, <2>1 DEF ForwarderTakes, FwdTo
  <2>2. CASE ForwarderRangeEnds(s) \/ ForwarderSends(s) \/ ForwarderReplies(s)
    BY <1>0, <2>2 DEF ForwarderRangeEnds, ForwarderSends, ForwarderReplies, FwdTo
  <2>3. CASE PeerReplies(s) \/ ForwarderAwaitFails(s)
    BY <1>0, <2>3 DEF PeerReplies, ForwarderAwaitFails, FwdTo
  <2>4. CASE ForwarderReportsSend(s) \/ ForwarderReportsReply(s) \/ ForwarderQuits(s)
    BY <1>0, <2>4 DEF ForwarderReportsSend, ForwarderReportsReply, ForwarderQuits, FwdTo
  <2> QED BY <2>1, <2>2, <2>3, <2>4 DEF ForwarderRuns, ForwarderAnswered
<1>5. /\ C \in Int /\ Open \in Int /\ Open' \in Int
      /\ SideLeft(s) = C + (8 * Open + ForwarderLeft(fwd[s]))
      /\ SideLeft(s)' = C + (8 * Open' + ForwarderLeft(fwd'[s]))
  BY <1>0, <1>1, <1>4 DEF SideLeft, CopierLeft
<1>6. \/ Open' = Open /\ reqRead'[s] = reqRead[s]
      \/ Open' = Open - 1 /\ reqRead'[s] = reqRead[s] + 1
  BY <1>0, <1>1, <1>4
<1> HIDE DEF C, Open
<1>7. SlotsLeft' + SideLeft(s)' < SlotsLeft + SideLeft(s)
  <2>1. CASE Silent
    <3>1. SlotsLeft' = SlotsLeft /\ SlotsLeft \in Int
      BY <2>1 DEF SlotsLeft
    <3>2. /\ ForwarderLeft(fwd[s]) \in Nat /\ ForwarderLeft(fwd'[s]) \in Nat
          /\ 8 * Open' + ForwarderLeft(fwd'[s]) < 8 * Open + ForwarderLeft(fwd[s])
      BY <1>0, <1>4, <1>5, <1>6, <2>1 DEF ForwarderLeft
    <3> QED BY <1>5, <3>1, <3>2
  <2>2. CASE Tells
    <3>1. SlotsLeft' = SlotsLeft + 1 /\ SlotsLeft \in Int
      BY <1>0, <2>2 DEF SlotsLeft
    <3>2. /\ ForwarderLeft(fwd[s]) \in Nat /\ ForwarderLeft(fwd'[s]) \in Nat
          /\ ForwarderLeft(fwd'[s]) + 1 < ForwarderLeft(fwd[s]) /\ Open' = Open
      BY <1>0, <1>4, <1>5, <1>6, <2>2 DEF ForwarderLeft
    <3> QED BY <1>5, <3>1, <3>2
  <2> QED BY <1>4, <2>1, <2>2
<1> QED BY <1>1, <1>3, <1>7, SideCounts

LEMMA MainCounts == ASSUME IInv, IInv', Main PROVE Left' < Left
<1>1. UNCHANGED <<sent, read, reqSent, reqRead>>
  BY DEF Main, OpenLogFails, StartGoroutines, SelectErr, SelectQuit, wireVars,
     copyVars, fwdVars
<1>2. MainLeft \in Nat /\ MainLeft' \in Nat /\ SlotsLeft \in Nat /\ SlotsLeft' \in Nat
  BY DEF MainLeft, SlotsLeft
<1>3. \A s \in Sides : SideLeft(s)' = SideLeft(s)
  <2>1. CASE StartGoroutines
    <3>1. main = "opening" /\ \A s \in Sides : copier[s] = "off" /\ fwd[s] = "off"
      BY <2>1 DEF IInv, MainInv, StartGoroutines
    <3>2. \A s \in Sides : copier'[s] = "read" /\ fwd'[s] = "range"
      BY <2>1 DEF StartGoroutines
    <3> QED BY <1>1, <3>1, <3>2 DEF SideLeft, CopierLeft, ForwarderLeft
  <2>2. CASE OpenLogFails \/ SelectErr \/ SelectQuit
    <3>1. UNCHANGED <<copier, fwd>>
      BY <2>2 DEF OpenLogFails, SelectErr, SelectQuit, copyVars, fwdVars
    <3> QED BY <1>1, <3>1 DEF SideLeft
  <2> QED BY <2>1, <2>2 DEF Main
<1>4. MainLeft' + SlotsLeft' < MainLeft + SlotsLeft
  <2>1. CASE OpenLogFails \/ StartGoroutines
    BY <2>1 DEF OpenLogFails, StartGoroutines, Return, MainLeft, SlotsLeft
  <2>2. CASE SelectErr
    BY <2>2 DEF SelectErr, Return, MainLeft, SlotsLeft
  <2>3. CASE SelectQuit
    BY <2>3 DEF SelectQuit, Return, MainLeft, SlotsLeft
  <2> QED BY <2>1, <2>2, <2>3 DEF Main
<1>5. /\ SideLeft("lch")' = SideLeft("lch") /\ SideLeft("rch")' = SideLeft("rch")
      /\ SideLeft("lch") \in Nat /\ SideLeft("rch") \in Nat
  BY <1>3, LeftIsNat DEF Sides
<1>6. Left' = (MainLeft' + SlotsLeft') + (SideLeft("lch") + SideLeft("rch"))
  BY <1>5 DEF Left
<1>7. MainLeft + SlotsLeft \in Nat
  BY <1>2
<1>8. MainLeft' + SlotsLeft' \in Nat
  BY DEF MainLeft, SlotsLeft
<1>9. SideLeft("lch") + SideLeft("rch") \in Nat
  BY <1>5
<1> QED BY <1>4, <1>6, <1>7, <1>8, <1>9 DEF Left

\* Every step, but those of a peer that has not closed yet, brings pipe and its
\* goroutines nearer to their end.  So once both peers have closed, pipe returns after
\* at most Left more steps of any kind: by NobodyStuck one of them can be taken until
\* then, and no order of them goes on for ever.
THEOREM StepsCount ==
    Spec => [][Left' < Left \/ \E s \in Sides \ peerClosed : Peer(s)]_vars
<1>1. ASSUME IInv, IInv', Next
      PROVE  Left' < Left \/ \E s \in Sides \ peerClosed : Peer(s)
  <2>1. ASSUME NEW s \in Sides, Peer(s) PROVE s \notin peerClosed
    <3>1. s \in peerClosed => s \in peerEOF
      BY <1>1 DEF IInv, SideInv, CloseInv
    <3> QED BY <2>1, <3>1 DEF Peer, PeerSendsData, PeerSendsStderr,
           PeerSendsRequest, PeerSendsEOF, PeerCloses
  <2> QED BY <1>1, <2>1, CopierCounts, ForwarderCounts, MainCounts DEF Next
<1>2. IInv /\ IInv' /\ [Next]_vars
        => [Left' < Left \/ \E s \in Sides \ peerClosed : Peer(s)]_vars
  BY <1>1
<1>3. Spec => []IInv
  BY Inductive
<1> QED BY <1>2, <1>3, PTL DEF Spec

=============================================================================
