---------------------------- MODULE MCLinkCenter ----------------------------
(***************************************************************************)
(* Two small centers.  In "pairs" the servers register and create the      *)
(* branch n1 and come and go; in "logs" they write logs of two nodes, the  *)
(* service of n2 beginning with the one of n1, while a user searches and   *)
(* removes files.                                                          *)
(***************************************************************************)
EXTENDS LinkCenter

CONSTANTS n1, n2, MaxPairs

VARIABLE part

Services == n1 :> <<1>> @@ n2 :> <<1, 2>>

\* The records each part sends.
Sends(r) ==
    CASE part = "pairs" -> \/ Len(handled') <= MaxPairs /\ r.op \notin {"Log", "End"}
                              /\ (r.node = n1 => r.type \notin {Head_, Fork})
                              /\ (r.node = n2 => r.type = Fork)
      [] part = "logs" -> \/ r.op \in {"Log", "End", "Offline"}
                          \/ r.op = "Create" /\ r.type = Head_ /\ r.key.time = 1

Init == CenterInit /\ part \in {"pairs", "logs"}

Next ==
    /\ CenterNext
    /\ handled' # handled => Sends(Last(handled'))
    /\ part = "pairs" => query' = query
    /\ UNCHANGED part

mcVars == <<centerVars, part>>

Spec == Init /\ [][Next]_mcVars /\ CenterFairness

=============================================================================
