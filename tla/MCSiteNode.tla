----------------------------- MODULE MCSiteNode -----------------------------
(* Small instances of SiteNode.                                            *)
EXTENDS SiteNode, TLC

CONSTANTS n1, n2, self, h1, h2

Hdr(n, i, p) == [id |-> n, inst |-> i, phase |-> p]

\* A seed restarts and then routes, a node that is no seed joins.
MCHeaders == {Hdr(n1, 1, Booting), Hdr(n1, 2, Routing), Hdr(n2, 1, Joining)}

\* A seed finishes its own join: one instance, two phases.
MCSeedJoins == {Hdr(n1, 1, Joining), Hdr(n1, 1, Routing)}
=============================================================================
