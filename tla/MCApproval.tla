----------------------------- MODULE MCApproval -----------------------------
(***************************************************************************)
(* Three calls; two reads under one root, a command that needs the network, *)
(* an edit in the workspace.  A request can be repeated by two calls, beside *)
(* another one for the same root, or for a need of another kind.            *)
(***************************************************************************)
EXTENDS Approval, TLC

CONSTANTS c1, c2, c3, read1, read2, fetch, edit

MCNeeds ==
  (read1 :> "root") @@ (read2 :> "root") @@ (fetch :> "network") @@ (edit :> Workspace)

MCInit ==
  /\ Init
  /\ <<action[c1], action[c2], action[c3]>> \in
       {<<read1, read1, read2>>, <<fetch, fetch, read1>>, <<edit, edit, fetch>>}

MCSpec == MCInit /\ [][Next]_vars /\ Fairness
=============================================================================
