------------------------------ MODULE Proxied -------------------------------
(***************************************************************************)
(* A naming client that reaches its gateway through a piper: Naming and    *)
(* Piper over the two streams they share, with the gateway as environment. *)
(* The gateway reads requests, accepts or refuses each in any order, sends *)
(* notifications once it accepted the client, and may leave.               *)
(*                                                                         *)
(* Writes do not block: what is on its way is bounded by the calls and     *)
(* notifications there are, each made once.                                *)
(***************************************************************************)
EXTENDS Piper, Naming

CONSTANT NoId

VARIABLES
    heard,   \* requests the gateway has read
    posted   \* messages it has sent, each once

gatewayVars == <<heard, posted>>
vars == <<streamVars, tunnelVars, piperVars, namingVars, gatewayVars>>

Messages == {OK(q[1], q[2]) : q \in Requests} \cup {Refusal(q[1], q[2]) : q \in Requests}
                \cup {Note(n) : n \in Notes}
RelatesTo == [m \in Messages |-> IF m.type = "note" THEN NoId ELSE <<m.of, m.nr>>]

TypeOK ==
    /\ PiperTypeOK /\ NamingTypeOK
    /\ heard \subseteq Requests /\ posted \subseteq Messages

Init ==
    /\ StreamInit /\ TunnelInit /\ PiperStart /\ NamingInit
    /\ heard = {} /\ posted = {}

-----------------------------------------------------------------------------
GatewayReads ==
    /\ NextFrame("gateway")
    /\ LET m == NextMessage("gateway")
       IN  heard' = IF m.type = "req" THEN heard \cup {<<m.of, m.nr>>} ELSE heard
    /\ UNCHANGED <<tunnelVars, piperVars, namingVars, posted>>

GatewaySends(m) ==
    /\ m \notin posted
    /\ WriteFrame("gateway", m)
    /\ posted' = posted \cup {m}
    /\ UNCHANGED <<tunnelVars, piperVars, namingVars, heard>>

GatewayAnswers(q) ==
    /\ q \in heard
    /\ OK(q[1], q[2]) \notin posted /\ Refusal(q[1], q[2]) \notin posted
    /\ GatewaySends(OK(q[1], q[2])) \/ GatewaySends(Refusal(q[1], q[2]))

GatewayNotifies(n) ==
    /\ \E c \in Registers : OK(c, 1) \in posted
    /\ GatewaySends(Note(n))

GatewayLeaves ==
    /\ dialed /\ "gateway" \notin shut
    /\ Shut({"gateway"})
    /\ UNCHANGED <<tunnelVars, piperVars, namingVars, gatewayVars>>

Gateway == GatewayReads \/ \E q \in Requests : GatewayAnswers(q)

-----------------------------------------------------------------------------
Client(A) == Alive /\ A /\ UNCHANGED <<piperVars, gatewayVars>>
Pipe(A)   == A /\ UNCHANGED <<namingVars, gatewayVars>>

Listens(e) == IF e = "client" THEN Alive /\ ClientListens ELSE PiperListens(e)

Misreads ==
    /\ \E e \in Sides \cup {"client"} : Listens(e) /\ Misread(e)
    /\ UNCHANGED <<piperVars, namingVars, gatewayVars>>

Next ==
    \/ Client(Connect) \/ Client(Wait) \/ Client(Closes)
    \/ \E c \in Calls : Client(UserCalls(c)) \/ Client(Call(c)) \/ Client(Expires(c))
    \/ Pipe(Handle) \/ \E e \in Sides : Pipe(Copy(e))
    \/ Gateway \/ GatewayLeaves \/ \E n \in Notes : GatewayNotifies(n)
    \/ Misreads

\* Goroutines that can run do, and a connected gateway reads and answers.
\* Nothing obliges the user to call, to give up or to close, nor the gateway to
\* notify or to leave.
Fairness ==
    /\ WF_vars(Client(Connect)) /\ WF_vars(Client(Wait))
    /\ \A c \in Calls : WF_vars(Client(Call(c)))
    /\ WF_vars(Pipe(Handle)) /\ \A e \in Sides : WF_vars(Pipe(Copy(e)))
    /\ WF_vars(GatewayReads) /\ \A q \in Requests : WF_vars(GatewayAnswers(q))

Spec     == Init /\ [][Next]_vars
FairSpec == Spec /\ Fairness

-----------------------------------------------------------------------------
(* Properties.                                                             *)

\* A registration succeeded, or a query has a result, only if the gateway
\* accepted every request of it (naming.go:300-328, :369-387).
OkMeansAccepted ==
    \A c \in Calls : outcome[c] = "ok" => \A k \in 1 .. Steps(c) : OK(c, k) \in posted

\* A reader loses the boundary between frames only where two goroutines wrote
\* frames at once (frame.go:112-117): never through the handshake, in which
\* framed and bare records follow each other (tls.go:56-99), nor beyond the
\* piper, which writes whole frames.
FramesAreWhole == garbled \subseteq overlaps \ {"up", "gateway"}

\* When handle has returned, no copy loop that started is left with an open
\* connection to read, and the upstream connection is open only if the pipe
\* never started (piper.go:36, :57-68, :97-98).
OnlyFailedSetupLeaks ==
    handler = "done" => /\ "down" \in shut
                        /\ dialed /\ "up" \notin shut => \A e \in Sides : copier[e] = "off"

\* Once any side is gone, handle and the copies it started end (piper.go:35-73,
\* :95-109), and every call of the client returns: requestReply has no context
\* of its own (naming.go:179), so nothing but the end of the connection can
\* release it.  A context that expired may have blocked the client's read loop.
Settled(c) == stage[c] \in {"idle", "done"}
PipeEnds ==
    shut # {} ~>
        /\ handler = "done" /\ \A e \in Sides : copier[e] \in {"off", "ended"}
        /\ \/ \A c \in Calls : Settled(c)
           \/ ~Alive \/ \E c \in Calls : outcome[c] = "expired"

\* A callback may call on its own client: its call returns although the
\* notification came through the same read loop (naming.go:170), unless frames
\* of the client were torn.
CallbacksComplete ==
    \A c \in Callbacks :
        stage[c] = "spawned" ~>
            stage[c] = "done" \/ ~Alive \/ overlaps # {}

\* Through the piper, the handshake and the callbacks, the client's requests
\* still behave as CallSpec says.
Status(q) ==
    LET c == q[1]  k == q[2]
    IN  CASE k > step[c] -> "idle"
          [] answer[q] # NoMsg -> "answered"
          [] answer[q] = NoMsg /\ k = step[c] /\ stage[c] \in {"ready", "half"} -> "started"
          [] answer[q] = NoMsg /\ k = step[c] /\ stage[c] = "waiting" -> "sent"
          [] OTHER -> "failed"
OnItsWay ==
    {hand, carry["up"]} \cup UNION {{wire[e][i].msg : i \in DOMAIN wire[e]} : e \in {"up", "client"}}
CallsThrough == INSTANCE CallSpec WITH
    Ids <- Requests, status <- [q \in Requests |-> Status(q)],
    callId <- [q \in Requests |-> IF q[2] > step[q[1]] THEN NoId ELSE q],
    available <- OnItsWay \cap Messages
PiperKeepsCalls == CallsThrough!Spec
=============================================================================
