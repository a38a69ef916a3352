--------------------------- MODULE SessionsProofs ---------------------------
(***************************************************************************)
(* The sessions table of a single server, for every number of connections  *)
(* and stops, and what is left of it when servers share the database.      *)
(***************************************************************************)
EXTENDS Sessions, TLAPS

\* One server on the database: the deployment with the built-in sqlite file.
Single == \A i, j \in Instances : i = j

LEMMA TypeStep == TypeOK /\ [Next]_vars => TypeOK'
<1> SUFFICES ASSUME TypeOK, [Next]_vars PROVE TypeOK'
  OBVIOUS
<1> USE DEF TypeOK, ConnPC, connVars, rowVars
<1>1. ASSUME NEW i \in Instances, Boot(i) PROVE TypeOK'
  BY <1>1 DEF Boot
<1>2. ASSUME NEW i \in Instances, CloseUnclosed(i) PROVE TypeOK'
  BY <1>2 DEF CloseUnclosed
<1>3. ASSUME NEW i \in Instances, Crash(i) PROVE TypeOK'
  <2>1. crashes' \in 0..MaxCrashes
    BY <1>3, SessionsAssumption DEF Crash
  <2>2. pc' \in [Conns -> ConnPC] /\ up' \in [Instances -> {"down", "init", "up"}]
    BY <1>3 DEF Crash
  <2> QED BY <1>3, <2>1, <2>2 DEF Crash
<1>4. ASSUME NEW c \in Conns, Open(c) PROVE TypeOK'
  BY <1>4 DEF Open
<1>5. ASSUME NEW c \in Conns, Finish(c) PROVE TypeOK'
  BY <1>5 DEF Finish
<1>6. ASSUME NEW c \in Conns, Update(c) PROVE TypeOK'
  BY <1>6 DEF Update, ErrMsgAfter
<1>7. ASSUME NEW c \in Conns, UpdateLost(c) PROVE TypeOK'
  BY <1>7 DEF UpdateLost
<1>8. CASE UNCHANGED vars
  BY <1>8 DEF vars
<1> QED BY <1>1, <1>2, <1>3, <1>4, <1>5, <1>6, <1>7, <1>8 DEF Next

LEMMA InitType == Init => TypeOK
<1> SUFFICES ASSUME Init PROVE TypeOK
  OBVIOUS
<1>1. /\ up \in [Instances -> {"down", "init", "up"}]
      /\ pc \in [Conns -> ConnPC]
      /\ outcome \in [Conns -> {"nil", "err"}]
  BY DEF Init, ConnPC
<1>2. /\ status \in [Conns -> {"none", "active", "closed"}]
      /\ errMsg \in [Conns -> {"empty", "err", "halted"}]
      /\ crashes \in 0..MaxCrashes
  BY SessionsAssumption DEF Init
<1> QED BY <1>1, <1>2 DEF Init, TypeOK

THEOREM TypeCorrect == Spec => []TypeOK
BY InitType, TypeStep, PTL DEF Spec

-----------------------------------------------------------------------------
\* The part of the invariant that holds with any number of servers.
RowInv ==
    \A c \in Conns :
        /\ pc[c] = "idle" => status[c] = "none" /\ errMsg[c] = "empty"
        /\ Live(c) => up[at[c]] = "up"
        /\ pc[c] # "idle" /\ status[c] = "none" => pc[c] = "done"
        /\ status[c] = "none" => errMsg[c] = "empty"
        /\ c \in lost => pc[c] = "done"
        /\ pc[c] = "done" /\ status[c] # "none" /\ c \notin lost
              => status[c] = "closed" /\ c \in stopped

\* The part that needs the server to be alone: an active row under DBInit
\* belongs to nobody any more.
SingleInv ==
    \A c \in Conns :
        /\ Live(c) => status[c] = "active"
        /\ errMsg[c] = "halted" => pc[c] = "gone" \/ c \in lost

IInv == TypeOK /\ RowInv /\ SingleInv

LEMMA InitRow == Init => RowInv /\ SingleInv
BY DEF Init, RowInv, SingleInv, Live

LEMMA RowStep == TypeOK /\ RowInv /\ [Next]_vars => RowInv'
<1> SUFFICES ASSUME TypeOK, RowInv, [Next]_vars PROVE RowInv'
  OBVIOUS
<1> USE DEF ConnPC, Live, connVars, rowVars
<1>t. /\ up \in [Instances -> {"down", "init", "up"}]
      /\ pc \in [Conns -> ConnPC] /\ at \in [Conns -> Instances]
      /\ status \in [Conns -> {"none", "active", "closed"}]
      /\ errMsg \in [Conns -> {"empty", "err", "halted"}]
  BY DEF TypeOK
<1>1. ASSUME NEW i \in Instances, Boot(i) PROVE RowInv'
  BY <1>t, <1>1 DEF Boot, RowInv
<1>2. ASSUME NEW i \in Instances, CloseUnclosed(i) PROVE RowInv'
  BY <1>t, <1>2 DEF CloseUnclosed, Unclosed, RowInv
<1>3. ASSUME NEW i \in Instances, Crash(i) PROVE RowInv'
  BY <1>t, <1>3 DEF Crash, RowInv
<1>4. ASSUME NEW c \in Conns, Open(c) PROVE RowInv'
  BY <1>t, <1>4 DEF Open, RowInv
<1>5. ASSUME NEW c \in Conns, Finish(c) PROVE RowInv'
  BY <1>t, <1>5 DEF Finish, RowInv
<1>6. ASSUME NEW c \in Conns, Update(c) PROVE RowInv'
  BY <1>t, <1>6 DEF Update, RowInv
<1>7. ASSUME NEW c \in Conns, UpdateLost(c) PROVE RowInv'
  BY <1>t, <1>7 DEF UpdateLost, RowInv
<1>8. CASE UNCHANGED vars
  BY <1>8 DEF vars, RowInv
<1> QED BY <1>1, <1>2, <1>3, <1>4, <1>5, <1>6, <1>7, <1>8 DEF Next

LEMMA SingleStep ==
    ASSUME Single, IInv, [Next]_vars
    PROVE  SingleInv'
<1> USE DEF IInv, TypeOK, ConnPC, SingleInv, Live, connVars, rowVars
<1>1. ASSUME NEW i \in Instances, Boot(i) PROVE SingleInv'
  BY <1>1 DEF Boot
<1>2. ASSUME NEW i \in Instances, CloseUnclosed(i) PROVE SingleInv'
  <2>1. ASSUME NEW c \in Conns PROVE ~Live(c)
    <3>1. at[c] = i /\ up[i] = "init"
      BY <1>2 DEF CloseUnclosed, Single
    <3> QED BY <3>1 DEF RowInv
  <2>2. ASSUME NEW c \in Unclosed PROVE pc[c] = "gone" \/ c \in lost
    BY <2>1, <2>2 DEF Unclosed, RowInv
  <2> QED BY <1>2, <2>1, <2>2 DEF CloseUnclosed
<1>3. ASSUME NEW i \in Instances, Crash(i) PROVE SingleInv'
  BY <1>3 DEF Crash
<1>4. ASSUME NEW c \in Conns, Open(c) PROVE SingleInv'
  BY <1>4 DEF Open, RowInv
<1>5. ASSUME NEW c \in Conns, Finish(c) PROVE SingleInv'
  BY <1>5 DEF Finish
<1>6. ASSUME NEW c \in Conns, Update(c) PROVE SingleInv'
  BY <1>6 DEF Update, ErrMsgAfter
<1>7. ASSUME NEW c \in Conns, UpdateLost(c) PROVE SingleInv'
  BY <1>7 DEF UpdateLost
<1>8. CASE UNCHANGED vars
  BY <1>8 DEF vars
<1> QED BY <1>1, <1>2, <1>3, <1>4, <1>5, <1>6, <1>7, <1>8 DEF Next

THEOREM RowInductive == Spec => []RowInv
BY InitType, TypeStep, InitRow, RowStep, PTL DEF Spec

\* With one server, the invariant is inductive.
LEMMA Inductive == ASSUME Single PROVE Spec => []IInv
<1>1. IInv /\ [Next]_vars => IInv'
  BY TypeStep, RowStep, SingleStep DEF IInv
<1>2. Init => IInv
  BY InitType, InitRow DEF IInv
<1> QED BY <1>1, <1>2, PTL DEF Spec

\* However many servers share the database and stop, a connection that ended
\* under its own server has a closed row with its StoppedAt.
THEOREM EndedStops == Spec => []EndedIsStopped
<1>1. RowInv => EndedIsStopped
  BY DEF RowInv, EndedIsStopped
<1> QED BY <1>1, RowInductive, PTL

\* A server that is up has closed the rows of the connections it was stopped under:
\* they are not its own any more when it stops, and not active when it listens.
ClosedInv == \A c \in Conns : pc[c] = "gone" /\ up[at[c]] = "up" => status[c] = "closed"

LEMMA ClosedStep == TypeOK /\ RowInv /\ ClosedInv /\ [Next]_vars => ClosedInv'
<1> SUFFICES ASSUME TypeOK, RowInv, ClosedInv, [Next]_vars PROVE ClosedInv'
  OBVIOUS
<1> USE DEF ConnPC, Live, connVars, rowVars
<1>t. /\ up \in [Instances -> {"down", "init", "up"}]
      /\ pc \in [Conns -> ConnPC] /\ at \in [Conns -> Instances]
      /\ status \in [Conns -> {"none", "active", "closed"}]
  BY DEF TypeOK
<1>1. ASSUME NEW i \in Instances, Boot(i) PROVE ClosedInv'
  BY <1>t, <1>1 DEF Boot, ClosedInv
<1>2. ASSUME NEW i \in Instances, CloseUnclosed(i) PROVE ClosedInv'
  <2>1. \A c \in Conns : pc[c] = "gone" => status'[c] = "closed"
    BY <1>t, <1>2 DEF CloseUnclosed, Unclosed, RowInv
  <2> QED BY <1>2, <2>1 DEF CloseUnclosed, ClosedInv
<1>3. ASSUME NEW i \in Instances, Crash(i) PROVE ClosedInv'
  <2>1. \A c \in Conns : pc'[c] = "gone" /\ up'[at'[c]] = "up" => pc[c] = "gone" /\ up[at[c]] = "up"
    BY <1>t, <1>3 DEF Crash
  <2> QED BY <1>3, <2>1 DEF Crash, ClosedInv
<1>4. ASSUME NEW c \in Conns, Open(c) \/ Finish(c) \/ Update(c) \/ UpdateLost(c)
      PROVE  ClosedInv'
  <2>1. /\ UNCHANGED <<up, at>> /\ pc[c] # "gone" /\ pc'[c] # "gone"
        /\ \A d \in Conns \ {c} : pc'[d] = pc[d] /\ status'[d] = status[d]
    BY <1>t, <1>4 DEF Open, Finish, Update, UpdateLost
  <2> QED BY <2>1 DEF ClosedInv
<1>5. CASE UNCHANGED vars
  BY <1>5 DEF vars, ClosedInv
<1> QED BY <1>1, <1>2, <1>3, <1>4, <1>5 DEF Next

\* However many servers share the database: what a server that is up shows as active
\* of its own connections is served, but for the updates the database refused.
THEOREM ActiveServed == Spec => []ActiveIsServed
<1>1. Init => ClosedInv
  BY DEF Init, ClosedInv
<1>2. TypeOK /\ RowInv /\ ClosedInv => ActiveIsServed
  <2> SUFFICES ASSUME TypeOK, RowInv, ClosedInv, NEW c \in Conns,
                      status[c] = "active", up[at[c]] = "up", c \notin lost
               PROVE  Live(c)
    BY DEF ActiveIsServed
  <2>1. pc[c] \notin {"idle", "done", "gone"}
    BY DEF RowInv, ClosedInv
  <2> QED BY <2>1 DEF TypeOK, ConnPC, Live
<1> QED BY <1>1, <1>2, ClosedStep, RowInductive, TypeCorrect, PTL DEF Spec

\* One server never loses sight of a connection it serves.
THEOREM LiveStaysActive == ASSUME Single PROVE Spec => []LiveIsActive
<1>1. IInv => LiveIsActive
  BY DEF IInv, SingleInv, LiveIsActive
<1> QED BY <1>1, Inductive, PTL

\* One server writes "was halted" only where that is what happened.
THEOREM HaltedHalted == ASSUME Single PROVE Spec => []HaltedIsTrue
<1>1. IInv => HaltedIsTrue
  BY DEF IInv, SingleInv, HaltedIsTrue
<1> QED BY <1>1, Inductive, PTL

-----------------------------------------------------------------------------
\* What an abstract End or Close does to the mapped variables, and when a step
\* leaves them alone.
LEMMA LedgerStep ==
    ASSUME IInv, SingleInv', [Next]_vars, Single
    PROVE  [Ledger!Next]_(Ledger!vars)
<1> USE DEF ConnPC, Live, connVars, rowVars
<1>t. /\ up \in [Instances -> {"down", "init", "up"}]
      /\ pc \in [Conns -> ConnPC] /\ at \in [Conns -> Instances]
      /\ status \in [Conns -> {"none", "active", "closed"}]
      /\ RowInv /\ SingleInv
  BY DEF IInv, TypeOK
<1>1. ASSUME NEW i \in Instances, Boot(i) PROVE UNCHANGED Ledger!vars
  BY <1>1 DEF Boot, Over, Ledger!vars
<1>2. ASSUME NEW i \in Instances, CloseUnclosed(i)
      PROVE  Ledger!Close(Unclosed)
  <2>1. Unclosed \subseteq Over
    <3>1. ASSUME NEW c \in Conns PROVE ~Live(c)
      BY <1>t, <1>2 DEF CloseUnclosed, Single, RowInv
    <3> QED BY <1>t, <3>1 DEF Unclosed, Over, RowInv
  <2>2. Over' = Over
    BY <1>t, <1>2 DEF CloseUnclosed, Unclosed, Over
  <2> QED BY <1>2, <2>1, <2>2 DEF CloseUnclosed, Unclosed, Ledger!Close
<1>3. ASSUME NEW i \in Instances, Crash(i)
      PROVE  \E S \in SUBSET Conns : Ledger!End(S)
  <2> DEFINE S == {c \in Conns : at[c] = i /\ Live(c)}
  <2>1. \A c \in S : status[c] = "active"
    BY <1>t DEF SingleInv
  <2>2. Over' = Over \cup S
    BY <1>t, <1>3, <2>1 DEF Crash, Over
  <2>3. Ledger!End(S)
    BY <1>3, <2>1, <2>2 DEF Crash, Ledger!End
  <2> QED BY <2>3
<1>4. ASSUME NEW c \in Conns, Open(c)
      PROVE  Ledger!Start(c) \/ UNCHANGED Ledger!vars
  BY <1>t, <1>4 DEF Open, Over, RowInv, Ledger!Start, Ledger!vars
<1>5. ASSUME NEW c \in Conns, Finish(c)
      PROVE  Ledger!End({c})
  <2>1. Over' = Over \cup {c} /\ status[c] = "active"
    BY <1>t, <1>5 DEF Finish, Over, SingleInv
  <2> QED BY <1>5, <2>1 DEF Finish, Ledger!End
<1>6. ASSUME NEW c \in Conns, Update(c)
      PROVE  Ledger!Close({c})
  <2>1. Over' = Over /\ c \in Over /\ status[c] = "active"
    BY <1>t, <1>6 DEF Update, Over, SingleInv
  <2>2. status' = [d \in Conns |-> IF d \in {c} THEN "closed" ELSE status[d]]
    BY <1>t, <1>6 DEF Update
  <2> QED BY <2>1, <2>2 DEF Ledger!Close
<1>7. ASSUME NEW c \in Conns, UpdateLost(c) PROVE UNCHANGED Ledger!vars
  BY <1>t, <1>7 DEF UpdateLost, Over, Ledger!vars
<1>8. CASE UNCHANGED vars
  BY <1>8 DEF vars, Over, Ledger!vars
<1>9. Unclosed \in SUBSET Conns
  BY DEF Unclosed
<1> QED
  BY <1>1, <1>2, <1>3, <1>4, <1>5, <1>6, <1>7, <1>8, <1>9
     DEF Next, Ledger!Next

\* The sessions table of one server implements the promise of SessionLedger.
THEOREM LedgerKept == ASSUME Single PROVE Spec => LedgerSpec
<1>1. Init => Ledger!Init
  BY DEF Init, Ledger!Init, Over
<1>2. IInv /\ SingleInv' /\ [Next]_vars => [Ledger!Next]_(Ledger!vars)
  BY LedgerStep
<1>3. IInv' => SingleInv'
  BY DEF IInv
<1> QED BY <1>1, <1>2, <1>3, Inductive, PTL DEF Spec, LedgerSpec, Ledger!Spec

\* One server never rewrites a closed session.
THEOREM ClosedStays == ASSUME Single PROVE Spec => ClosedIsFinal
<1> DEFINE A == \A c \in Conns : status[c] = "closed" =>
                    status'[c] = "closed" /\ errMsg'[c] = errMsg[c]
<1>1. ASSUME IInv, [Next]_vars PROVE [A]_vars
  <2> USE DEF ConnPC, Live, connVars, rowVars
  <2>t. /\ pc \in [Conns -> ConnPC] /\ RowInv /\ SingleInv
        /\ status \in [Conns -> {"none", "active", "closed"}]
        /\ errMsg \in [Conns -> {"empty", "err", "halted"}]
    BY <1>1 DEF IInv, TypeOK
  <2>1. ASSUME NEW i \in Instances, Boot(i) \/ CloseUnclosed(i) \/ Crash(i)
        PROVE  A
    BY <2>t, <2>1 DEF Boot, CloseUnclosed, Unclosed, Crash
  <2>2. ASSUME NEW c \in Conns, Open(c) \/ Finish(c) \/ Update(c) \/ UpdateLost(c)
        PROVE  A
    BY <2>t, <2>2 DEF Open, Finish, Update, UpdateLost, RowInv, SingleInv
  <2>3. CASE UNCHANGED vars
    BY <2>3
  <2> QED BY <1>1, <2>1, <2>2, <2>3 DEF Next
<1> QED BY <1>1, Inductive, PTL DEF Spec, ClosedIsFinal
=============================================================================
