------------------------------ MODULE TabLoads ------------------------------
(***************************************************************************)
(* What the shell promises about page loads, tab by tab and without        *)
(* threads, ids or channels: a tab shows the page it last asked for, or    *)
(* nothing; asking again takes the old page away and withdraws the old     *)
(* request; closing a tab withdraws everything.                            *)
(***************************************************************************)
CONSTANTS Tabs, Pages, BlankPage, Nothing

VARIABLES
  wanted,    \* the page a tab is waiting for
  shown      \* the page a tab shows

Init ==
  /\ wanted = [t \in Tabs |-> Nothing]
  /\ shown = [t \in Tabs |-> Nothing]

Ask(t, p) ==
  /\ p # BlankPage
  /\ wanted' = [wanted EXCEPT ![t] = p]
  /\ shown' = [shown EXCEPT ![t] = Nothing]

AskBlank(t) ==
  /\ wanted' = [wanted EXCEPT ![t] = Nothing]
  /\ shown' = [shown EXCEPT ![t] = BlankPage]

Deliver(t) ==
  /\ wanted[t] # Nothing
  /\ wanted' = [wanted EXCEPT ![t] = Nothing]
  /\ shown' = [shown EXCEPT ![t] = wanted[t]]

GiveUp(t) ==
  /\ wanted[t] # Nothing
  /\ wanted' = [wanted EXCEPT ![t] = Nothing]
  /\ UNCHANGED shown

Close(t) ==
  /\ wanted' = [wanted EXCEPT ![t] = Nothing]
  /\ shown' = [shown EXCEPT ![t] = Nothing]

Next ==
  \E t \in Tabs :
    \/ \E p \in Pages : Ask(t, p)
    \/ AskBlank(t)
    \/ Deliver(t)
    \/ GiveUp(t)
    \/ Close(t)

Spec == Init /\ [][Next]_<<wanted, shown>>
=============================================================================
