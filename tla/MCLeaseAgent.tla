---------------------------- MODULE MCLeaseAgent ----------------------------
(* Small instances of LeaseAgent.                                          *)
EXTENDS LeaseAgent, TLC

CONSTANTS s1, s2, s3, a1, a2, p1, p2, h1, h2, c1

\* Two sessions are with the same remote address; the pings are over one of them.
MCAddrOf == [s \in Sessions |-> IF s = s3 THEN a2 ELSE a1]
MCSessionOf == [p \in Pingers |-> s1]

\* The sessions of one address and a ping, a PingLoop, or sessions of two addresses.
MCTogether == SUBSET {s1, s2, p1} \cup SUBSET {s1, p2} \cup SUBSET {s1, s3}
MCOnePing  == SUBSET {s1, p1}
=============================================================================
