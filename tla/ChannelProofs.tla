--------------------------- MODULE ChannelProofs ----------------------------
(***************************************************************************)
(* The channel handler for every set of hosts and any number of changes.   *)
(* ChainInv: the chain so far is made of hops there were and hosts the     *)
(* user was let into, and the host the handler is at continues it.         *)
(* StageInv: what is open, recorded and answered where the handler is.     *)
(***************************************************************************)
EXTENDS Channel, TLAPS

Edge(a, b) == <<a, b>> \in everHop

DbInv == Hops(hop) \subseteq everHop

ChainInv ==
    /\ \A k \in 1..Len(configs) : configs[k] \in everAllowed
    /\ \A k \in 1..Len(configs) - 1 : Edge(configs[k + 1], configs[k])
    /\ Len(configs) > 0 => configs[Len(configs)] = target
    /\ pc \in {"config", "hop"} => cur \in Hosts /\ (curHop # NoHost => Edge(cur, curHop))
    /\ pc = "config" => IF Len(configs) = 0 THEN cur = target ELSE Edge(configs[1], cur)
    /\ pc = "hop" => Len(configs) > 0 /\ cur = configs[1] /\ curHop # NoHost
    /\ pc \in {"route", "lookup"} => Len(configs) = 0

Dialing == {"dial", "open", "pipe", "return"}

StageInv ==
    /\ dialed > 0 => pc \in Dialing
    /\ pc \in Dialing \cup {"accept", "update"} => row = "active"
    /\ connected /\ chan = "pending" =>
          \/ pc \in {"route", "lookup", "config", "hop", "create", "accept"}
          \/ pc = "done" /\ cur # NoHost /\ curHop # NoHost
    /\ pc = "open" => dialed > 0
    /\ pc = "return" /\ connected /\ chan = "open" => dialed > 0 /\ result = "err"

IInv == TypeOK /\ DbInv /\ ChainInv /\ StageInv

-----------------------------------------------------------------------------
LEMMA Lengths == TypeOK => Len(configs) \in Nat /\ dialed \in Nat /\ configs \in Seq(Hosts)
BY DEF TypeOK

LEMMA Prepended ==
    ASSUME NEW h \in Hosts, NEW cs \in Seq(Hosts)
    PROVE  /\ WithHop(h, cs) \in Seq(Hosts) /\ Len(WithHop(h, cs)) = Len(cs) + 1
           /\ WithHop(h, cs)[1] = h
           /\ \A k \in 1..Len(cs) : WithHop(h, cs)[k + 1] = cs[k]
BY DEF WithHop

LEMMA InitInv == Init => IInv
<1> SUFFICES ASSUME Init PROVE IInv
  OBVIOUS
<1>1. /\ configs = << >> /\ Len(configs) = 0 /\ configs \in Seq(Hosts) /\ dialed \in 0..Len(configs)
      /\ changes \in 0..MaxChanges
  BY ChannelAssumption DEF Init
<1>2. TypeOK
  BY <1>1 DEF Init, TypeOK, ChanTypes, UserTypes, Schemes, PCs, Hops
<1> QED BY <1>1, <1>2 DEF Init, IInv, DbInv, ChainInv, StageInv, Dialing

-----------------------------------------------------------------------------
(* The administrators and the client                                         *)

LEMMA ChangeInv == IInv /\ Change => IInv'
<1> SUFFICES ASSUME IInv, Change PROVE IInv'
  OBVIOUS
<1> USE DEF IInv
<1>0. UNCHANGED <<inputVars, connected, chan, pc, chainVars, dialed, row, result>>
  BY DEF Change
<1>1. hosts' \subseteq Hosts /\ hop' \in [Hosts -> Hosts \cup {NoHost}] /\ allowed' \subseteq Hosts
  BY DEF Change, TypeOK
<1>2. /\ everAllowed' = everAllowed \cup allowed' /\ everHop' = everHop \cup Hops(hop')
      /\ changes' \in 0..MaxChanges
  BY ChannelAssumption DEF Change, TypeOK
<1>3. TypeOK'
  BY <1>0, <1>1, <1>2 DEF TypeOK, inputVars, chainVars, Hops
<1>4. DbInv'
  BY <1>2 DEF DbInv
<1>5. ChainInv'
  BY <1>0, <1>2 DEF ChainInv, Edge, inputVars, chainVars
<1>6. StageInv'
  BY <1>0 DEF StageInv, chainVars
<1> QED BY <1>3, <1>4, <1>5, <1>6

LEMMA LeaveInv == IInv /\ ClientLeaves => IInv'
<1> SUFFICES ASSUME IInv, ClientLeaves PROVE IInv'
  OBVIOUS
<1>1. /\ UNCHANGED <<inputVars, dbVars, pc, chainVars, dialed, row, result>>
      /\ connected' = FALSE /\ chan' = "closed"
  BY DEF ClientLeaves
<1>2. TypeOK'
  BY <1>1 DEF IInv, TypeOK, inputVars, dbVars, chainVars
<1>3. DbInv' /\ ChainInv'
  BY <1>1 DEF IInv, DbInv, ChainInv, Edge, inputVars, dbVars, chainVars
<1>4. StageInv'
  BY <1>1 DEF IInv, StageInv
<1> QED BY <1>2, <1>3, <1>4 DEF IInv

-----------------------------------------------------------------------------
(* The handler                                                               *)

\* What the handler never touches.
LEMMA HandlerFrame == Handler => UNCHANGED <<inputVars, dbVars, connected>>
BY DEF Handler, Route, LookUp, Config, LookUpHopFails, LookUpHop, Create, Accept, Dial, FirstDialFails,
       LaterDialFails, OpenChannelFails, OpenChannel, PipeReturns, CloseClients, Update

\* A step of the handler that leaves the chain as it is, and goes on to where
\* nothing is asked of the host it is at.
LEMMA SameChain ==
    ASSUME IInv, UNCHANGED <<inputVars, dbVars, connected, chainVars>>,
           pc' \in PCs \ {"route", "lookup", "config", "hop"},
           chan' \in {"pending", "open", "closed", "rejected", "shell"},
           dialed' \in 0..Len(configs), row' \in {"none", "active", "closed"},
           result' \in {"none", "nil", "err"}, StageInv'
    PROVE  IInv'
<1>1. TypeOK'
  BY DEF IInv, TypeOK, inputVars, dbVars, chainVars
<1>2. DbInv' /\ ChainInv'
  BY DEF IInv, DbInv, ChainInv, Edge, inputVars, dbVars, chainVars
<1> QED BY <1>1, <1>2 DEF IInv

\* A request that is answered at once.
LEMMA AnswerInv ==
    ASSUME IInv, UNCHANGED <<inputVars, dbVars, connected>>, Refuse \/ Reject \/ ToShell,
           pc \notin Dialing
    PROVE  IInv'
<1>1. pc' = "done" /\ UNCHANGED <<chainVars, dialed, row, result>>
      /\ chan' \in {"closed", "rejected", "shell", chan}
      /\ (connected => chan' # "pending")
  BY DEF Refuse, Reject, ToShell, Goto
<1>2. StageInv'
  BY <1>1 DEF IInv, StageInv, Dialing, TypeOK
<1>3. pc' \in PCs \ {"route", "lookup", "config", "hop"}
  BY <1>1 DEF PCs
<1> QED BY <1>1, <1>2, <1>3, SameChain DEF IInv, TypeOK, chainVars

LEMMA ReadType ==
    ASSUME TypeOK, DbInv, NEW h \in Hosts, Read(h), UNCHANGED <<everHop, hop>>
    PROVE  cur' = h /\ curHop' \in Hosts \cup {NoHost} /\ (curHop' # NoHost => Edge(h, curHop'))
BY ChannelAssumption DEF TypeOK, DbInv, Read, Edge, Hops

LEMMA RouteInv == IInv /\ Route => IInv'
<1> SUFFICES ASSUME IInv, Route PROVE IInv'
  OBVIOUS
<1>1. CASE Refuse \/ Reject \/ ToShell
  BY <1>1, AnswerInv DEF Route, Dialing
<1>2. CASE pc' = "lookup" /\ UNCHANGED <<chan, chainVars, dialed, row, result>>
  BY <1>2 DEF Route, IInv, TypeOK, PCs, DbInv, ChainInv, StageInv, Dialing, Edge, inputVars, dbVars, chainVars
<1> QED BY <1>1, <1>2 DEF Route, Goto

LEMMA LookUpInv == IInv /\ LookUp => IInv'
<1> SUFFICES ASSUME IInv, LookUp PROVE IInv'
  OBVIOUS
<1>1. CASE Refuse \/ ToShell
  BY <1>1, AnswerInv DEF LookUp, Dialing
<1>2. CASE ~ (Refuse \/ ToShell)
  <2>0. UNCHANGED <<inputVars, dbVars, connected>> /\ pc = "lookup"
    BY DEF LookUp
  <2>1. /\ target \in Hosts /\ Read(target) /\ pc' = "config"
        /\ UNCHANGED <<chan, configs, dialed, row, result>>
    BY <1>2 DEF LookUp, HostByName, Goto, IInv, TypeOK
  <2>2. cur' = target /\ curHop' \in Hosts \cup {NoHost} /\ (curHop' # NoHost => Edge(target, curHop'))
    BY <2>0, <2>1, ReadType DEF IInv, dbVars
  <2>3. TypeOK'
    BY <2>0, <2>1, <2>2 DEF IInv, TypeOK, PCs, inputVars, dbVars
  <2>4. DbInv' /\ ChainInv'
    BY <2>0, <2>1, <2>2 DEF IInv, DbInv, ChainInv, Edge, inputVars, dbVars
  <2>5. StageInv'
    BY <2>0, <2>1 DEF IInv, StageInv, Dialing
  <2> QED BY <2>3, <2>4, <2>5 DEF IInv
<1> QED BY <1>1, <1>2

LEMMA ConfigInv == IInv /\ Config => IInv'
<1> SUFFICES ASSUME IInv, Config PROVE IInv'
  OBVIOUS
<1>1. CASE Refuse
  BY <1>1, AnswerInv DEF Config, Dialing
<1>2. CASE ~ Refuse
  <2>0. /\ UNCHANGED <<inputVars, dbVars, connected>> /\ pc = "config" /\ cur \in Hosts
        /\ configs \in Seq(Hosts) /\ Len(configs) \in Nat
        /\ everAllowed' = everAllowed /\ everHop' = everHop /\ target' = target
    BY DEF Config, IInv, ChainInv, TypeOK, dbVars, inputVars
  <2>1. /\ cur \in allowed /\ configs' = WithHop(cur, configs)
        /\ pc' = IF curHop = NoHost THEN "create" ELSE "hop"
        /\ UNCHANGED <<chan, cur, curHop, dialed, row, result>>
    BY <1>2 DEF Config, Cleared, Goto
  <2>2. /\ configs' \in Seq(Hosts) /\ Len(configs') = Len(configs) + 1 /\ configs'[1] = cur
        /\ \A k \in 1..Len(configs) : configs'[k + 1] = configs[k]
    <3>1. cur \in Hosts /\ configs \in Seq(Hosts) /\ configs' = WithHop(cur, configs)
      BY <2>0, <2>1
    <3>2. /\ WithHop(cur, configs) \in Seq(Hosts)
          /\ Len(WithHop(cur, configs)) = Len(configs) + 1
          /\ WithHop(cur, configs)[1] = cur
          /\ \A k \in 1..Len(configs) : WithHop(cur, configs)[k + 1] = configs[k]
      BY ONLY <3>1, Prepended
    <3> HIDE DEF WithHop
    <3> QED BY ONLY <3>1, <3>2
  <2>3. TypeOK'
    <3>1. dialed' \in 0..Len(configs')
      BY <2>1, <2>2, <2>0 DEF IInv, TypeOK
    <3>2. pc' \in PCs
      BY <2>1 DEF PCs
    <3> QED BY <2>0, <2>1, <2>2, <3>1, <3>2 DEF IInv, TypeOK, inputVars, dbVars
  <2>4. ASSUME NEW k \in 1..Len(configs') PROVE configs'[k] \in everAllowed
    <3>1. CASE k = 1
      BY <2>1, <2>2, <3>1 DEF IInv, TypeOK
    <3>2. CASE k # 1
      <4>1. k - 1 \in 1..Len(configs) /\ k = (k - 1) + 1
        BY <2>0, <2>2, <3>2
      <4>2. configs'[k] = configs[k - 1]
        BY <2>2, <4>1
      <4> QED BY <4>1, <4>2 DEF IInv, ChainInv
    <3> QED BY <3>1, <3>2
  <2>5. ASSUME NEW k \in 1..Len(configs') - 1 PROVE Edge(configs'[k + 1], configs'[k])
    <3>1. k \in 1..Len(configs) /\ configs'[k + 1] = configs[k]
      BY <2>0, <2>2
    <3>2. CASE k = 1
      BY <2>0, <2>2, <3>1, <3>2 DEF IInv, ChainInv
    <3>3. CASE k # 1
      <4>1. k - 1 \in 1..Len(configs) - 1 /\ (k - 1) + 1 = k
        BY <2>0, <3>1, <3>3
      <4>2. configs'[k] = configs[k - 1] /\ Edge(configs[k], configs[k - 1])
        BY <2>2, <4>1 DEF IInv, ChainInv
      <4> QED BY <3>1, <4>2
    <3> QED BY <3>2, <3>3
  <2>6. configs'[Len(configs')] = target
    <3>1. CASE Len(configs) = 0
      BY <2>0, <2>2, <3>1 DEF IInv, ChainInv
    <3>2. CASE Len(configs) # 0
      BY <2>0, <2>2, <3>2 DEF IInv, ChainInv
    <3> QED BY <3>1, <3>2
  <2>7. DbInv' /\ ChainInv'
    BY <2>0, <2>1, <2>2, <2>4, <2>5, <2>6 DEF IInv, DbInv, ChainInv, Edge, dbVars
  <2>8. StageInv'
    BY <2>0, <2>1 DEF IInv, StageInv, Dialing
  <2> QED BY <2>3, <2>7, <2>8 DEF IInv
<1> QED BY <1>1, <1>2

LEMMA LookUpHopInv == IInv /\ LookUpHop => IInv'
<1> SUFFICES ASSUME IInv, LookUpHop PROVE IInv'
  OBVIOUS
<1>0. /\ UNCHANGED <<inputVars, dbVars, connected>> /\ pc = "hop" /\ Len(configs) \in Nat
      /\ UNCHANGED <<chan, configs, dialed, row, result>>
  BY DEF LookUpHop, IInv, TypeOK
<1> PICK h \in HostByName(curHop) : Read(h) /\ pc' = IF h = NoHost THEN "create" ELSE "config"
  BY DEF LookUpHop, Goto
<1>1. CASE h = NoHost
  BY <1>0, <1>1 DEF Read, IInv, TypeOK, PCs, DbInv, ChainInv, StageInv, Dialing, Edge, inputVars, dbVars
<1>2. CASE h # NoHost
  <2>1. h = curHop /\ h \in Hosts /\ Edge(configs[1], h)
    BY <1>0, <1>2 DEF HostByName, IInv, TypeOK, ChainInv
  <2>2. cur' = h /\ curHop' \in Hosts \cup {NoHost} /\ (curHop' # NoHost => Edge(h, curHop'))
    BY <1>0, <2>1, ReadType DEF IInv, dbVars
  <2>3. TypeOK'
    BY <1>0, <1>2, <2>1, <2>2 DEF IInv, TypeOK, PCs, inputVars, dbVars
  <2>4. DbInv' /\ ChainInv'
    BY <1>0, <1>2, <2>1, <2>2 DEF IInv, DbInv, ChainInv, Edge, inputVars, dbVars
  <2>5. StageInv'
    BY <1>0, <1>2 DEF IInv, StageInv, Dialing
  <2> QED BY <2>3, <2>4, <2>5 DEF IInv
<1> QED BY <1>1, <1>2

\* From the row on, the chain stays what it is.
LEMMA LaterInv ==
    ASSUME IInv, Handler, ~ (Route \/ LookUp \/ Config \/ LookUpHop)
    PROVE  IInv'
<1> USE DEF IInv, TypeOK, PCs, Goto, Return
<1>0. UNCHANGED <<inputVars, dbVars, connected>> /\ Len(configs) \in Nat /\ dialed \in Nat
  BY HandlerFrame
<1>1. CASE LookUpHopFails
  <2>1. StageInv'
    BY <1>0, <1>1, ChannelAssumption DEF LookUpHopFails, StageInv, ChainInv, Dialing, chainVars
  <2> QED BY <1>0, <1>1, <2>1, SameChain DEF LookUpHopFails
<1>2. CASE Create
  <2>1. CASE Refuse
    BY <1>0, <1>2, <2>1, AnswerInv DEF Create, Dialing
  <2>2. CASE ~ Refuse
    <3>1. StageInv'
      BY <1>0, <1>2, <2>2 DEF Create, StageInv, Dialing
    <3> QED BY <1>0, <1>2, <2>2, <3>1, SameChain DEF Create
  <2> QED BY <2>1, <2>2
<1>3. CASE Accept
  <2>1. StageInv'
    BY <1>0, <1>3 DEF Accept, StageInv, Dialing
  <2> QED BY <1>0, <1>3, <2>1, SameChain DEF Accept
<1>4. CASE Dial
  <2>1. StageInv'
    BY <1>0, <1>4 DEF Dial, StageInv, Dialing
  <2>2. dialed' \in 0..Len(configs)
    BY <1>0, <1>4 DEF Dial
  <2> QED BY <1>0, <1>4, <2>1, <2>2, SameChain DEF Dial
<1>5. CASE FirstDialFails \/ LaterDialFails \/ OpenChannelFails \/ OpenChannel \/ PipeReturns
  <2>1. StageInv'
    BY <1>0, <1>5 DEF FirstDialFails, LaterDialFails, OpenChannelFails, OpenChannel, PipeReturns,
                      StageInv, Dialing
  <2> QED BY <1>0, <1>5, <2>1, SameChain
          DEF FirstDialFails, LaterDialFails, OpenChannelFails, OpenChannel, PipeReturns
<1>6. CASE CloseClients \/ Update
  <2>1. StageInv'
    BY <1>0, <1>6 DEF CloseClients, Update, StageInv, Dialing
  <2>2. dialed' \in 0..Len(configs)
    BY <1>0, <1>6 DEF CloseClients, Update
  <2> QED BY <1>0, <1>6, <2>1, <2>2, SameChain DEF CloseClients, Update
<1> QED BY <1>1, <1>2, <1>3, <1>4, <1>5, <1>6 DEF Handler

LEMMA NextInv == IInv /\ [Next]_vars => IInv'
<1> SUFFICES ASSUME IInv, [Next]_vars PROVE IInv'
  OBVIOUS
<1>1. CASE UNCHANGED vars
  BY <1>1 DEF vars, IInv, TypeOK, DbInv, ChainInv, StageInv, Edge
<1>2. CASE Handler
  BY <1>2, RouteInv, LookUpInv, ConfigInv, LookUpHopInv, LaterInv
<1> QED BY <1>1, <1>2, ChangeInv, LeaveInv DEF Next

LEMMA Invariant == Spec => []IInv
BY InitInv, NextInv, PTL DEF Spec

-----------------------------------------------------------------------------

\* Every variable keeps its type, the number of open connections its bound.
THEOREM TypeCorrect == Spec => []TypeOK
<1>1. IInv => TypeOK
  BY DEF IInv
<1> QED BY <1>1, Invariant, PTL

\* Nobody gets through a hop the user was never allowed into.
THEOREM DialedWereAllowed == Spec => []OnlyAllowedDialed
<1>1. IInv => OnlyAllowedDialed
  <2> SUFFICES ASSUME IInv PROVE OnlyAllowedDialed
    OBVIOUS
  <2>1. ASSUME NEW k \in 1..dialed PROVE configs[k] \in everAllowed
    <3>1. k \in 1..Len(configs)
      BY Lengths DEF IInv, TypeOK
    <3> QED BY <3>1 DEF IInv, ChainInv
  <2> QED BY <2>1 DEF OnlyAllowedDialed, Dialed
<1> QED BY <1>1, Invariant, PTL

\* The chain that is dialed is made of hops and ends at the host asked for.
THEOREM DialedLeadsToTarget == Spec => []ChainLeadsToTarget
<1>1. IInv => ChainLeadsToTarget
  <2> SUFFICES ASSUME IInv, dialed > 0
               PROVE  /\ configs[Len(configs)] = target
                      /\ \A k \in 1..Len(configs) - 1 : <<configs[k + 1], configs[k]>> \in everHop
    BY DEF ChainLeadsToTarget
  <2>1. Len(configs) > 0
    BY Lengths DEF IInv, TypeOK
  <2> QED BY <2>1 DEF IInv, ChainInv, Edge
<1> QED BY <1>1, Invariant, PTL

\* The loop over the hops repeats a host only if hops lead back to it.
THEOREM TwiceOnlyInCycle == Spec => []TwiceMeansCycle
<1>1. IInv => TwiceMeansCycle
  <2> SUFFICES ASSUME IInv, NEW i \in 1..Len(configs), NEW j \in 1..Len(configs), i < j,
                      configs[i] = configs[j]
               PROVE  HopCycle(configs[i])
    BY DEF TwiceMeansCycle
  <2> DEFINE C == {configs[k] : k \in i..j - 1}
  <2>0. Len(configs) \in Nat /\ configs \in Seq(Hosts) /\ i \in Nat /\ j \in Nat
    BY Lengths DEF IInv
  <2>1. C \subseteq Hosts
    BY <2>0
  <2>2. configs[i] \in C
    BY <2>0
  <2>3. ASSUME NEW k \in i..j - 1 PROVE \E y \in C : <<configs[k], y>> \in everHop
    <3> DEFINE m == IF k = i THEN j ELSE k
    <3>1. m - 1 \in 1..Len(configs) - 1 /\ m - 1 \in i..j - 1 /\ (m - 1) + 1 = m /\ configs[m] = configs[k]
      BY <2>0
    <3>2. Edge(configs[m], configs[m - 1])
      <4> HIDE DEF m
      <4> QED BY <3>1 DEF IInv, ChainInv
    <3> QED BY <3>1, <3>2 DEF Edge
  <2>4. \A x \in C : \E y \in C : <<x, y>> \in everHop
    BY <2>3
  <2> QED BY <2>1, <2>2, <2>4 DEF HopCycle
<1> QED BY <1>1, Invariant, PTL

\* What is dialed is on record.
THEOREM DialedUnderRow == Spec => []DialedIsRecorded
<1>1. IInv => DialedIsRecorded
  BY DEF IInv, StageInv, DialedIsRecorded
<1> QED BY <1>1, Invariant, PTL

\* Only behind the first host is a channel left open.
THEOREM LeftOpenBehindFirstHost == Spec => []OpenMeansReached
<1>1. IInv => OpenMeansReached
  BY DEF IInv, StageInv, OpenMeansReached
<1> QED BY <1>1, Invariant, PTL

\* A client that stays gets an answer, unless the look-up of a hop fails.
THEOREM RequestsAnswered == Spec => []Answered
<1>1. IInv => Answered
  BY DEF IInv, StageInv, Answered
<1> QED BY <1>1, Invariant, PTL
=============================================================================
