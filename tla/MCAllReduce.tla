---------------------------- MODULE MCAllReduce ----------------------------
(* Two and four ranks, with and without peer access and NVLink. *)
EXTENDS AllReduce

Reduce(size, graph) == [op |-> "reduce", size |-> size, half |-> TRUE, graph |-> graph]
Other(op, size) == [op |-> op, size |-> size, half |-> TRUE, graph |-> "none"]

Group(world, p2p, linked, prefer, graphInput, plan) ==
    [world |-> world, p2p |-> p2p, linked |-> linked, prefer |-> prefer,
     graphInput |-> graphInput, plan |-> plan]

Pairs ==
    {Group(2, FALSE, FALSE, "auto", "auto",
           <<Reduce(1, "none"), Reduce(4, "full"), Reduce(2, "none")>>),
     Group(2, TRUE, FALSE, "auto", "auto",
           <<Reduce(2, "full"), Reduce(3, "piecewise"), Other("gather", 2), Reduce(2, "piecewise")>>),
     Group(2, TRUE, TRUE, "shm", "staging",
           <<Other("scatter", 2), Reduce(4, "full"),
             [Reduce(5, "none") EXCEPT !.half = FALSE], Reduce(2, "full")>>)}

Butterflies ==
    {Group(4, FALSE, FALSE, "auto", "auto", <<Reduce(4, "none"), Reduce(2, "none")>>),
     Group(4, TRUE, TRUE, "auto", "auto", <<Other("gather", 2), Reduce(3, "full")>>)}

MCSetups == Pairs \cup Butterflies
=============================================================================
