------------------------------- MODULE Naming -------------------------------
(***************************************************************************)
(* naming/naming.go: NamingClient over one transport.Client (transport/    *)
(* client.go), the "client" end.  RegisterFilter makes two requests in a   *)
(* row, GetApplicationList one.  onMessage answers a notification in the   *)
(* read loop and runs the user's callback in a goroutine of its own; what  *)
(* the callback does here is to make a call on the same client.            *)
(*                                                                         *)
(* The request table is what module Connection shows it to be: an entry    *)
(* from Begin to the end of the call, taken out by the answer, by the      *)
(* caller when it gives up, or by Close.  Ping is RegisterFilter with one  *)
(* request and is left out.                                                *)
(***************************************************************************)
EXTENDS Tunnel

CONSTANTS
    Registers,     \* calls of RegisterFilter
    Queries,       \* calls of GetApplicationList
    Expiring,      \* calls whose context may expire
    Notes,         \* notifications
    CallbackOf     \* CallbackOf[n]: the call that OnServiceNotification(n) makes

\* requestReply, under RegisterFilter, passes context.TODO() on.
ASSUME ExpiringAssumption == Expiring \subseteq Queries

VARIABLES
    reader,   \* where Wait stands
    hand,     \* the message it deals with
    stage,    \* where each call stands
    step,     \* requests each call has begun
    outcome,  \* what each call returned
    answer,   \* answer[q]: the message that answered request q
    asked     \* requests written

namingVars == <<reader, hand, stage, step, outcome, answer, asked>>

Calls     == Registers \cup Queries
Callbacks == {CallbackOf[n] : n \in Notes}
Steps(c)  == IF c \in Registers THEN 2 ELSE 1
Requests  == UNION {{c} \X (1 .. Steps(c)) : c \in Calls}

\* One call is one invocation, so two notifications make two calls.
ASSUME CallbackAssumption ==
    /\ CallbackOf \in [Notes -> Calls]
    /\ \A m, n \in Notes : CallbackOf[m] = CallbackOf[n] => m = n

Req(c, k) == Message("req", c, k)
Ack(n)    == Message("ack", n, 0)
OK(c, k)      == Message("ok", c, k)
Refusal(c, k) == Message("refused", c, k)   \* ClientOperationFailure
Note(n)       == Message("note", n, 0)      \* ServiceNotificationRequest

NamingTypeOK ==
    /\ reader \in {"tapping", "failed", "reading", "feeding", "ack", "ackHalf", "exited"}
    /\ stage \in [Calls -> {"idle", "spawned", "next", "ready", "half", "waiting", "done"}]
    /\ \A c \in Calls : step[c] \in 0 .. Steps(c)
    /\ outcome \in [Calls -> {"none", "ok", "refused", "panic", "failed", "expired"}]
    /\ asked \subseteq Requests

NamingInit ==
    /\ reader = "tapping" /\ hand = NoMsg
    /\ stage = [c \in Calls |-> "idle"]
    /\ step = [c \in Calls |-> 0]
    /\ outcome = [c \in Calls |-> "none"]
    /\ answer = [q \in Requests |-> NoMsg]
    /\ asked = {}

\* A nil dereference in GetApplicationList ends the process.
Alive == \A c \in Calls : outcome[c] # "panic"

callVars == <<stage, step, outcome, answer, asked>>
readVars == <<reader, hand>>

-----------------------------------------------------------------------------
(* Connect.                                                                *)

TapClient ==
    /\ reader = "tapping"
    /\ Handshake("client")
    /\ UNCHANGED namingVars

Greet ==
    /\ reader = "tapping" /\ Tapped("client")
    /\ reader' = "reading"
    /\ WriteFrame("client", Greeting("client"))
    /\ UNCHANGED <<tunnelVars, hand, callVars>>

ConnectFails ==
    /\ reader = "tapping"
    /\ IF Tapped("client") THEN Broken("client") ELSE Receives("client") /\ ReadFails("client")
    /\ reader' = "failed"
    /\ UNCHANGED <<streamVars, tunnelVars, hand, callVars>>

-----------------------------------------------------------------------------
(* A call: RequestReply for each of its requests.                          *)

Moves(c, to) == stage' = [stage EXCEPT ![c] = to]
Returns(c, how) == Moves(c, "done") /\ outcome' = [outcome EXCEPT ![c] = how]

Begin(c) ==
    /\ reader \notin {"tapping", "failed"}
    /\ Moves(c, "ready")
    /\ step' = [step EXCEPT ![c] = @ + 1]
    /\ UNCHANGED <<streamVars, tunnelVars, readVars, outcome, answer, asked>>

UserCalls(c) == stage[c] = "idle" /\ c \notin Callbacks /\ Begin(c)
GoesOn(c)    == stage[c] \in {"spawned", "next"} /\ Begin(c)

SendsHeader(c) ==
    /\ stage[c] = "ready"
    /\ WriteHeader("client", Req(c, step[c]))
    /\ Moves(c, "half")
    /\ UNCHANGED <<tunnelVars, readVars, step, outcome, answer, asked>>

SendsBody(c) ==
    /\ stage[c] = "half"
    /\ WriteBody("client", Req(c, step[c]))
    /\ Moves(c, "waiting")
    /\ asked' = asked \cup {<<c, step[c]>>}
    /\ UNCHANGED <<tunnelVars, readVars, step, outcome, answer>>

SendFails(c) ==
    /\ stage[c] \in {"ready", "half"}
    /\ WriteFails("client", Req(c, step[c]))
    /\ Returns(c, "failed")
    /\ UNCHANGED <<tunnelVars, readVars, step, answer, asked>>

\* Headers.RelatesTo.  Mutant: an answer goes to any call that waits.
AnyCaller(m, c) == TRUE
Relates(m, c)   == m.of = c /\ m.nr = step[c]

Fed(c) == reader = "feeding" /\ Relates(hand, c)

\* requestTable.Close releases the calls whose entry it finds.
Cancelled(c) ==
    /\ stage[c] = "waiting" /\ ~Fed(c)
    /\ "client" \in shut
    /\ Returns(c, "failed")
    /\ UNCHANGED <<streamVars, tunnelVars, readVars, step, answer, asked>>

Expires(c) ==
    /\ c \in Expiring /\ stage[c] = "waiting"
    /\ Returns(c, "expired")
    /\ UNCHANGED <<streamVars, tunnelVars, readVars, step, answer, asked>>

-----------------------------------------------------------------------------
(* Wait, with onMessage as its message callback.                           *)

\* Mutant: onMessage calls OnServiceNotification without go, in the read loop.
AfterCallbacks == \A c \in Callbacks : stage[c] \in {"idle", "done"}
LoopIsFree     == TRUE

ReadsMessage ==
    /\ reader = "reading" /\ LoopIsFree
    /\ NextFrame("client")
    /\ UNCHANGED <<tunnelVars, callVars>>

Awaited(m) ==
    m.type \in {"ok", "refused"} /\ \E c \in Calls : Relates(m, c) /\ stage[c] = "waiting"

ReadsReply ==
    /\ ReadsMessage
    /\ Awaited(NextMessage("client"))
    /\ reader' = "feeding" /\ hand' = NextMessage("client")

ReadsNote ==
    /\ ReadsMessage
    /\ NextMessage("client").type = "note"
    /\ reader' = "ack" /\ hand' = NextMessage("client")

\* The peer's greeting, and answers that come too late.
ReadsOther ==
    /\ ReadsMessage
    /\ NextMessage("client").type # "note" /\ ~Awaited(NextMessage("client"))
    /\ UNCHANGED readVars

\* What the caller makes of an answer.  GetApplicationList does not look for
\* ClientOperationFailure: the error code is read as ResultKind, and ResultList,
\* which is then nil, is used.  Mutant: RegisterFilter does not look for it.
Unchecked(c, m) == "ok"
Verdict(c, m)   == IF m.type = "ok" THEN "ok" ELSE IF c \in Queries THEN "panic" ELSE "refused"

Feeds(c) ==
    /\ Fed(c) /\ stage[c] = "waiting"
    /\ reader' = "reading" /\ hand' = NoMsg
    /\ answer' = [answer EXCEPT ![<<c, step[c]>>] = hand]
    /\ IF Verdict(c, hand) = "ok" /\ step[c] < Steps(c)
       THEN Moves(c, "next") /\ UNCHANGED outcome
       ELSE Returns(c, Verdict(c, hand))
    /\ Shut(IF Verdict(c, hand) = "panic" THEN {"client"} ELSE {})
    /\ UNCHANGED <<tunnelVars, step, asked>>

SendsAckHeader ==
    /\ reader = "ack"
    /\ WriteHeader("client", Ack(hand.of))
    /\ reader' = "ackHalf"
    /\ UNCHANGED <<tunnelVars, hand, callVars>>

\* The error of SendOneWay is ignored.
EndsAck ==
    /\ \/ reader = "ackHalf" /\ WriteBody("client", Ack(hand.of))
       \/ reader \in {"ack", "ackHalf"} /\ WriteFails("client", Ack(hand.of))
    /\ reader' = "reading" /\ hand' = NoMsg
    /\ Moves(CallbackOf[hand.of], "spawned")
    /\ UNCHANGED <<tunnelVars, step, outcome, answer, asked>>

LeavesLoop ==
    /\ reader = "reading" /\ ReadFails("client")
    /\ reader' = "exited"
    /\ Shut({"client"})
    /\ UNCHANGED <<tunnelVars, hand, callVars>>

\* The user closes the connection, or its process ends.
Closes ==
    /\ "client" \notin shut
    /\ Shut({"client"})
    /\ UNCHANGED <<tunnelVars, namingVars>>

ClientListens == reader \in {"tapping", "reading"}

Connect == TapClient \/ Greet \/ ConnectFails
Call(c) == GoesOn(c) \/ SendsHeader(c) \/ SendsBody(c) \/ SendFails(c) \/ Cancelled(c)
Wait    == \/ ReadsReply \/ ReadsNote \/ ReadsOther \/ LeavesLoop
           \/ SendsAckHeader \/ EndsAck \/ \E c \in Calls : Feeds(c)
=============================================================================
