----------------------------- MODULE MCAdminTx ------------------------------
(* What the commands are given: up to two rows, one group to append, one to  *)
(* delete, and the two identifiers of a row.                                 *)
EXTENDS AdminTx

CONSTANTS g1, g2

Plain == [kind |-> "update", ids |-> {}, names |-> {}, fields |-> {},
          assign |-> {}, unassign |-> {}, bad |-> FALSE]

SomeRequests ==
    {[Plain EXCEPT !.ids = {1, 2}, !.fields = F, !.assign = {g1}, !.bad = b] :
        F \in {{}, {"comment"}, {"name"}}, b \in BOOLEAN}
    \cup {[Plain EXCEPT !.ids = {1}, !.names = {2}, !.fields = {"comment"}, !.unassign = {g1}],
          [Plain EXCEPT !.names = {1}, !.fields = {"name"}],
          [Plain EXCEPT !.ids = {2}, !.assign = {g2}, !.unassign = {g1}],
          [Plain EXCEPT !.kind = "create", !.assign = {g1, g2}],
          [Plain EXCEPT !.kind = "create", !.assign = {g1}, !.bad = TRUE],
          [Plain EXCEPT !.kind = "rm", !.ids = {1}, !.names = {2}],
          [Plain EXCEPT !.kind = "rmGroup", !.assign = {g1}]}
=============================================================================
