---------------------------- MODULE MCConnection ----------------------------
(* A small instance of Connection and of the specification it implements.  *)
EXTENDS Connection, TLC

CONSTANTS r1, r2, p1, m1, m2, c1

\* The transport init message takes id 1, so the first call gets 2, or 3 after a
\* ping, and the second call the next one.  Both messages answer id 2.
MCReplies  == m1 :> 2 @@ m2 :> 2
MCOneReply == m1 :> 2
MCNoPreset == [r \in Requests |-> NoId]

\* Two calls and an answer that comes twice, m1 first, or a call and a ping.
MCTogether == {S \in SUBSET {r1, r2, m1, m2} : m2 \in S => m1 \in S} \cup SUBSET {r2, p1}
MCWithPing == SUBSET {r1, p1, m1}
=============================================================================
