-------------------------- MODULE MCPickdownPlayback --------------------------
(* Four nodes: a and b with the same two measures, c with the second of    *)
(* them alone, d with the first.  The pickdowns of a and c are as long as a *)
(* pickdown can be, b and d have none.  Every node leads to every          *)
(* other and to itself, and has a vertical output to every node, the        *)
(* incompatible ones too.                                                   *)
EXTENDS PickdownPlayback

CONSTANTS a, b, c, d, twoFour, fiveFour

MCLength   == [s \in Signatures |-> IF s = twoFour THEN 2 ELSE 5]
MCMeasures == [n \in Nodes |-> CASE n \in {a, b} -> <<twoFour, fiveFour>>
                                 [] n = c -> <<fiveFour>> [] n = d -> <<twoFour>>]
MCStarts ==
  [n \in Nodes |->
    LET start[i \in 1..Len(MCMeasures[n])] ==
          IF i = 1 THEN 0 ELSE start[i - 1] + MCLength[MCMeasures[n][i - 1]]
    IN  start]
MCPickdown == [n \in Nodes |-> IF n \in {a, c} THEN 4 ELSE 0]
MCEdges    == Nodes \X Nodes
=============================================================================
