------------------------------ MODULE Sessions ------------------------------
(***************************************************************************)
(* The sessions table: one row per connection to a target host.            *)
(* ChannelHandler (pkg/bastion/ssh.go) creates the row as active, serves   *)
(* the connection in a goroutine, and updates the row when                 *)
(* multiChannelHandler has returned.  What is still active when sshportal  *)
(* starts is closed by the last step of DBInit (pkg/bastion/dbinit.go).    *)
(* Instances share one database; each may stop at any point and be started *)
(* again.                                                                  *)
(***************************************************************************)
EXTENDS Integers

CONSTANTS
    Instances,   \* the sshportal servers on the database
    Conns,       \* the connections to target hosts
    MaxCrashes   \* bound: times an instance stops

ASSUME SessionsAssumption == MaxCrashes \in Nat

VARIABLES
    up,        \* [Instances -> {"down", "init", "up"}]
    pc,        \* [Conns -> ConnPC] the goroutine serving the connection
    at,        \* [Conns -> Instances] where it runs
    outcome,   \* [Conns -> {"nil", "err"}] what multiChannelHandler returned
    status,    \* [Conns -> {"none", "active", "closed"}] Session.Status
    errMsg,    \* [Conns -> {"empty", "err", "halted"}] Session.ErrMsg
    stopped,   \* connections whose row has a StoppedAt
    lost,      \* connections whose last update the database refused
    crashes    \* how often an instance has stopped

rowVars  == <<status, errMsg, stopped>>
connVars == <<pc, at, outcome, lost>>
vars == <<up, pc, at, outcome, status, errMsg, stopped, lost, crashes>>

\* "gone": its instance stopped under it
ConnPC == {"idle", "serving", "ending", "done", "gone"}

TypeOK ==
    /\ up \in [Instances -> {"down", "init", "up"}]
    /\ pc \in [Conns -> ConnPC]
    /\ at \in [Conns -> Instances]
    /\ outcome \in [Conns -> {"nil", "err"}]
    /\ status \in [Conns -> {"none", "active", "closed"}]
    /\ errMsg \in [Conns -> {"empty", "err", "halted"}]
    /\ stopped \subseteq Conns
    /\ lost \subseteq Conns
    /\ crashes \in 0..MaxCrashes

Init ==
    /\ up = [i \in Instances |-> "down"]
    /\ pc = [c \in Conns |-> "idle"]
    /\ at \in [Conns -> Instances]
    /\ outcome = [c \in Conns |-> "nil"]
    /\ status = [c \in Conns |-> "none"]
    /\ errMsg = [c \in Conns |-> "empty"]
    /\ stopped = {} /\ lost = {} /\ crashes = 0

Live(c) == pc[c] \in {"serving", "ending"}

-----------------------------------------------------------------------------
Boot(i) ==
    /\ up[i] = "down"
    /\ up' = [up EXCEPT ![i] = "init"]
    /\ UNCHANGED <<connVars, rowVars, crashes>>

\* The rows DBInit takes for sessions of a stopped server (mutant: it looks
\* for a StoppedAt, which those rows do not have).
UnclosedStopped == {c \in Conns : status[c] = "active" /\ c \in stopped}
Unclosed == {c \in Conns : status[c] = "active"}

\* "close unclosed connections": one UPDATE, and then the server listens.
\* Updates(&Session{...}) writes the two fields that are set: StoppedAt stays.
CloseUnclosed(i) ==
    /\ up[i] = "init"
    /\ up' = [up EXCEPT ![i] = "up"]
    /\ status' = [c \in Conns |-> IF c \in Unclosed THEN "closed" ELSE status[c]]
    /\ errMsg' = [c \in Conns |-> IF c \in Unclosed THEN "halted" ELSE errMsg[c]]
    /\ UNCHANGED <<connVars, stopped, crashes>>

\* actx.db.Create(&sess), then the goroutine; without a row nothing is dialed
\* (mutant: the server listens before DBInit is over).
OpenEarly(c) ==
    /\ pc[c] = "idle" /\ up[at[c]] # "down"
    /\ status' = [status EXCEPT ![c] = "active"]
    /\ pc' = [pc EXCEPT ![c] = "serving"]
    /\ UNCHANGED <<up, at, outcome, lost, errMsg, stopped, crashes>>
Open(c) ==
    /\ pc[c] = "idle" /\ up[at[c]] = "up"
    /\ \/ /\ status' = [status EXCEPT ![c] = "active"]
          /\ pc' = [pc EXCEPT ![c] = "serving"]
       \/ /\ pc' = [pc EXCEPT ![c] = "done"]
          /\ UNCHANGED status
    /\ UNCHANGED <<up, at, outcome, lost, errMsg, stopped, crashes>>

\* multiChannelHandler returns.
Finish(c) ==
    /\ pc[c] = "serving"
    /\ \E r \in {"nil", "err"} : outcome' = [outcome EXCEPT ![c] = r]
    /\ pc' = [pc EXCEPT ![c] = "ending"]
    /\ UNCHANGED <<up, at, lost, rowVars, crashes>>

\* What db.Model(&sess).Updates(&sessUpdate) leaves in ErrMsg: a struct's zero
\* fields are not written, so that the "" of a nil outcome changes nothing.
ErrMsgAfter(c) == IF outcome[c] = "nil" THEN errMsg[c] ELSE "err"

\* The final update (mutant: without StoppedAt).
UpdateWithoutStop(c) ==
    /\ pc[c] = "ending"
    /\ pc' = [pc EXCEPT ![c] = "done"]
    /\ status' = [status EXCEPT ![c] = "closed"]
    /\ errMsg' = [errMsg EXCEPT ![c] = ErrMsgAfter(c)]
    /\ UNCHANGED <<up, at, outcome, lost, stopped, crashes>>
Update(c) ==
    /\ pc[c] = "ending"
    /\ pc' = [pc EXCEPT ![c] = "done"]
    /\ status' = [status EXCEPT ![c] = "closed"]
    /\ errMsg' = [errMsg EXCEPT ![c] = ErrMsgAfter(c)]
    /\ stopped' = stopped \cup {c}
    /\ UNCHANGED <<up, at, outcome, lost, crashes>>

\* Its error is not looked at: the row stays as it is.
UpdateLost(c) ==
    /\ pc[c] = "ending"
    /\ pc' = [pc EXCEPT ![c] = "done"]
    /\ lost' = lost \cup {c}
    /\ UNCHANGED <<up, at, outcome, rowVars, crashes>>

\* The process ends, with the goroutines it runs.
Crash(i) ==
    /\ up[i] # "down" /\ crashes < MaxCrashes
    /\ up' = [up EXCEPT ![i] = "down"]
    /\ pc' = [c \in Conns |-> IF at[c] = i /\ Live(c) THEN "gone" ELSE pc[c]]
    /\ crashes' = crashes + 1
    /\ UNCHANGED <<at, outcome, lost, rowVars>>

Next ==
    \/ \E i \in Instances : Boot(i) \/ CloseUnclosed(i) \/ Crash(i)
    \/ \E c \in Conns : Open(c) \/ Finish(c) \/ Update(c) \/ UpdateLost(c)

Spec == Init /\ [][Next]_vars

\* A stopped server is started again, a started one finishes DBInit, and a
\* goroutine whose connection is over gets to its update.
Fairness ==
    /\ \A i \in Instances : WF_vars(Boot(i)) /\ WF_vars(CloseUnclosed(i))
    /\ \A c \in Conns : WF_vars(Update(c) \/ UpdateLost(c))

FairSpec == Spec /\ Fairness

-----------------------------------------------------------------------------
(* Properties                                                              *)

\* `session ls --active` misses no connection that is being served: nothing
\* closes its row under it.
LiveIsActive == \A c \in Conns : Live(c) => status[c] = "active"

\* `session ls --active` does not show a connection of a server that is up unless
\* it is being served, or its last update was lost; with any number of servers.
ActiveIsServed ==
    \A c \in Conns : status[c] = "active" /\ up[at[c]] = "up" => Live(c) \/ c \in lost

\* "sshportal was halted while the connection was still active"
\* (dbinit.go:676) is written only on sessions for which that is so, or whose
\* own last update was lost.
HaltedIsTrue ==
    \A c \in Conns : errMsg[c] = "halted" => pc[c] = "gone" \/ c \in lost

\* A connection that ended under its own instance has a closed row with its
\* StoppedAt, however many servers start in between.
EndedIsStopped ==
    \A c \in Conns :
        pc[c] = "done" /\ status[c] # "none" /\ c \notin lost
            => status[c] = "closed" /\ c \in stopped

\* The history of a closed session is not rewritten.
ClosedIsFinal ==
    [][\A c \in Conns : status[c] = "closed" =>
          status'[c] = "closed" /\ errMsg'[c] = errMsg[c]]_vars

\* No session of a stopped server stays active for ever.
GoneIsClosed == \A c \in Conns : pc[c] = "gone" ~> status[c] = "closed"

Over == {c \in Conns : pc[c] \in {"ending", "done", "gone"} /\ status[c] # "none"}

\* The table keeps the promise of SessionLedger.
Ledger == INSTANCE SessionLedger WITH record <- status, over <- Over
LedgerSpec == Ledger!Spec
=============================================================================
