---------------------------- MODULE SessionLedger ----------------------------
(***************************************************************************)
(* What the sessions table promises to whoever reads it, without instances,*)
(* crashes or database errors: a session is recorded before it starts,     *)
(* stays active until it is over, and once closed stays closed.            *)
(***************************************************************************)
CONSTANT Conns    \* the connections ever opened to target hosts

VARIABLES
    record,   \* [Conns -> {"none", "active", "closed"}]
    over      \* connections that were recorded and have ended

vars == <<record, over>>

Init ==
    /\ record = [c \in Conns |-> "none"]
    /\ over = {}

Start(c) ==
    /\ record[c] = "none"
    /\ record' = [record EXCEPT ![c] = "active"]
    /\ UNCHANGED over

\* Several connections end at once when the program that serves them stops.
End(S) ==
    /\ \A c \in S : record[c] = "active"
    /\ over' = over \cup S
    /\ UNCHANGED record

\* Closing may be late, never early.
Close(S) ==
    /\ S \subseteq over
    /\ \A c \in S : record[c] = "active"
    /\ record' = [c \in Conns |-> IF c \in S THEN "closed" ELSE record[c]]
    /\ UNCHANGED over

Next ==
    \/ \E c \in Conns : Start(c)
    \/ \E S \in SUBSET Conns : End(S) \/ Close(S)

Spec == Init /\ [][Next]_vars
=============================================================================
