------------------------------ MODULE CallSpec ------------------------------
(***************************************************************************)
(* What Conn.RequestReply promises (transport/conn.go:24-32), with nothing *)
(* of how it is done: a call is answered at most once, by a message its    *)
(* peer sent in reply to its id after the request was written, and a       *)
(* message answers at most one call.  Any call may fail instead.           *)
(***************************************************************************)
EXTENDS Naturals

CONSTANTS Requests, Messages, RelatesTo, Ids, NoMsg, NoId

VARIABLES
    status,     \* of each call
    callId,     \* the id its message carries
    asked,      \* ids the peer has received
    posted,     \* messages the peer has sent
    available,  \* those nobody has received
    answer      \* what each call returned

vars == <<status, callId, asked, posted, available, answer>>

TypeOK ==
    /\ status \in [Requests -> {"idle", "started", "sent", "answered", "failed"}]
    /\ callId \in [Requests -> Ids \cup {NoId}]
    /\ asked \subseteq Ids
    /\ posted \subseteq Messages
    /\ available \subseteq Messages
    /\ answer \in [Requests -> Messages \cup {NoMsg}]

Init ==
    /\ status = [r \in Requests |-> "idle"]
    /\ callId = [r \in Requests |-> NoId]
    /\ asked = {} /\ posted = {} /\ available = {}
    /\ answer = [r \in Requests |-> NoMsg]

Start(r) ==
    /\ status[r] = "idle"
    /\ status' = [status EXCEPT ![r] = "started"]
    /\ \E i \in Ids : callId' = [callId EXCEPT ![r] = i]
    /\ UNCHANGED <<asked, posted, available, answer>>

Send(r) ==
    /\ status[r] = "started"
    /\ status' = [status EXCEPT ![r] = "sent"]
    /\ asked' = asked \cup {callId[r]}
    /\ UNCHANGED <<callId, posted, available, answer>>

PeerSends(m) ==
    /\ m \notin posted
    /\ RelatesTo[m] \in asked \cup {NoId}
    /\ posted' = posted \cup {m}
    /\ available' = available \cup {m}
    /\ UNCHANGED <<status, callId, asked, answer>>

Answer(r, m) ==
    /\ status[r] = "sent"
    /\ m \in available
    /\ RelatesTo[m] = callId[r]
    /\ status' = [status EXCEPT ![r] = "answered"]
    /\ answer' = [answer EXCEPT ![r] = m]
    /\ available' = available \ {m}
    /\ UNCHANGED <<callId, asked, posted>>

Fail(r) ==
    /\ status[r] \in {"started", "sent"}
    /\ status' = [status EXCEPT ![r] = "failed"]
    /\ UNCHANGED <<callId, asked, posted, available, answer>>

\* Messages go to the message callback, or are lost with the connection.
Lose(S) ==
    /\ S # {} /\ S \subseteq available
    /\ available' = available \ S
    /\ UNCHANGED <<status, callId, asked, posted, answer>>

Next ==
    \/ \E r \in Requests : \/ Start(r) \/ Send(r) \/ Fail(r)
                           \/ \E m \in Messages : Answer(r, m)
    \/ \E m \in Messages : PeerSends(m)
    \/ \E S \in SUBSET Messages : Lose(S)

Spec == Init /\ [][Next]_vars

-----------------------------------------------------------------------------
\* No message answers two calls, and none that answered is still to be had.
OneAnswerOneCall ==
    /\ \A r, s \in Requests : answer[r] # NoMsg /\ answer[r] = answer[s] => r = s
    /\ \A r \in Requests : answer[r] # NoMsg =>
           answer[r] \in posted /\ answer[r] \notin available

\* A call is answered only after its own request was sent.
AnswerWasAsked ==
    \A r \in Requests : answer[r] # NoMsg =>
        callId[r] \in asked /\ RelatesTo[answer[r]] = callId[r]
=============================================================================
