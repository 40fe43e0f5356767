------------------------------- MODULE MCAgent -------------------------------
(* Agent for TLC: two pods, two nodes.                                     *)
EXTENDS Agent

CONSTANTS p1, p2

MCPods  == {p1, p2}
MCNodes == {"here", "there"}

S(node, match, range) == [node |-> node, match |-> match, range |-> range]

MCSpecs == {S("here", TRUE, "ok"), S("here", TRUE, "bad"), S("here", FALSE, "ok"),
            S("there", TRUE, "ok"), S(NoNode, TRUE, "ok")}

H(file, node, labels) ==
    [file |-> file, node |-> node, labels |-> labels, v2 |-> TRUE,
     creds |-> {"container", "host"}, newPod |-> TRUE]

\* As deployed by the chart, with NewPod implemented.
Deployed == H("good", NodeNameAuto, "valid")

\* And everything that may be different.
MCHosts == { Deployed, H("good", "here", "none"), H("good", NodeNameAuto, "invalid"),
             H("bad", NodeNameAuto, "valid"), H("none", NoNode, "none"),
             [Deployed EXCEPT !.v2 = FALSE], [Deployed EXCEPT !.newPod = FALSE],
             [Deployed EXCEPT !.creds = {"container"}],
             [Deployed EXCEPT !.creds = {"host"}] }

\* Without cgroup v2, as committed.
CgroupV1 == {[Deployed EXCEPT !.v2 = FALSE, !.newPod = FALSE]}
=============================================================================
