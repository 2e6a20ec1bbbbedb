---------------------------- MODULE MCStreamJobs ----------------------------
(* StreamJobs on small instances: two visitors, each in a partition of its own. *)
EXTENDS StreamJobs, TLC

CONSTANTS v1, v2, p1, p2

MCVisitors == {v1, v2}

MCHome == v1 :> p1 @@ v2 :> p2

MCShapes == {[type |-> "page_view", load |-> TRUE, agent |-> {"Bot", "Mobile"}],
             [type |-> "scroll", load |-> FALSE, agent |-> {"Bot"}]}
=============================================================================
