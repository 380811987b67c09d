----------------------------- MODULE Connection -----------------------------
(***************************************************************************)
(* One transport connection (transport/conn.go): the request table and the *)
(* heartbeat, driven by the read loop of Wait, by the callers of           *)
(* RequestReply and Ping, and by any number of goroutines that call Close. *)
(* RequestTable and Heartbeat supply the steps of those two parts; this    *)
(* module says which goroutine takes them and when.                        *)
(*                                                                         *)
(* The peer is the environment: it answers requests it received, in any    *)
(* order, sends messages of its own, echoes heartbeats, rejects the        *)
(* connection or leaves.  A member of Messages is one sending: a peer that *)
(* answers twice sends two messages that relate to one id.  The two        *)
(* directions of the stream keep their order: inbox is what is left to     *)
(* read of ours.                                                           *)
(*                                                                         *)
(* A frame is written in one step.  The code writes it in two without a    *)
(* lock (frame.go:112-117), so frames of two goroutines may mix; to this   *)
(* end such a frame is one the peer never answers, or after which it       *)
(* leaves, and the peer may do either at any time.                         *)
(***************************************************************************)
EXTENDS Naturals, Sequences

CONSTANTS
    Requests, Pingers, Messages, RelatesTo, PresetId, IdSpace,
    NoReq, NoMsg, NoId, NoPinger,
    Cancellable,      \* calls of RequestReply whose context may expire
    PingCancellable,  \* pingers whose context may expire
    Reader,           \* the goroutine running Wait
    Closers,          \* other goroutines that call Close
    RangeCloser,      \* the name the request table gives to its closer
    Together,         \* bound: the sets of calls, pings and messages that have begun
    MaxTick,          \* bound: pings sent
    MaxInbox          \* bound: unread frames

VARIABLES
    msgIdx, table, idOf, closedCh, pc, outcome, got, hand, carry,
    closing, due, visited,                       \* RequestTable
    clock, pinglock, stage, tick, verdict, hbRequests, handlers, cancelled,
    netClosed, pingClosed, crashed,              \* Heartbeat
    reader,    \* where Wait stands
    inbox,     \* frames the peer sent and Wait has not read
    sentIds,   \* ids of the requests written to the network
    posted,    \* messages the peer has sent (bound: each once)
    fatalerr,  \* the peer rejected the connection
    peerGone,  \* the peer closed its end
    closer,    \* where each caller of Close stands
    once       \* closeOnce: "new", "running", "done"

tableVars == <<msgIdx, table, idOf, closedCh, pc, outcome, got, hand, carry, closing, due, visited>>
pingVars  == <<clock, pinglock, stage, tick, verdict, hbRequests, handlers, cancelled, pingClosed, crashed>>
peerVars  == <<sentIds, posted, peerGone>>
closeVars == <<closer, once>>
vars == <<tableVars, pingVars, netClosed, reader, inbox, peerVars, fatalerr, closeVars>>

Frame(kind, body) == [kind |-> kind, body |-> body]
Ticks == 1 .. MaxTick
hbReplies == {t \in Ticks : \E i \in DOMAIN inbox : inbox[i] = Frame("heartbeat", t)}

RT == INSTANCE RequestTable WITH Feeders <- {Reader}, Closer <- RangeCloser
HB == INSTANCE Heartbeat WITH Cancellable <- PingCancellable,
                              requests <- hbRequests, replies <- hbReplies

\* Ids are uint32 values; goroutines, calls and sentinels have their own names.
ASSUME IdAssumption   == /\ IdSpace \in Nat \ {0}
                         /\ RelatesTo \in [Messages -> RT!Ids \cup {NoId}]
                         /\ PresetId \in [Requests -> RT!Ids \cup {NoId}]
ASSUME NameAssumption == /\ Reader \notin Requests \cup {RangeCloser}
                         /\ RangeCloser \notin Requests
                         /\ NoReq \notin Requests /\ NoMsg \notin Messages
                         /\ NoId \notin RT!Ids /\ NoPinger \notin Pingers
                         /\ Cancellable \subseteq Requests
                         /\ PingCancellable \subseteq Pingers
ASSUME BoundAssumption == /\ MaxTick \in Nat /\ MaxInbox \in Nat
                          /\ Together \subseteq SUBSET (Requests \cup Pingers \cup Messages)

TypeOK ==
    /\ RT!TypeOK
    /\ HB!TypeOK
    /\ reader \in {"tapping", "reading", "feeding", "callback", "closing", "exited"}
    /\ Len(inbox) <= MaxInbox
    /\ sentIds \subseteq RT!Ids
    /\ posted \subseteq Messages
    /\ fatalerr \in BOOLEAN /\ peerGone \in BOOLEAN
    /\ closer \in [Closers \cup {Reader} -> {"idle", "atOnce", "inside", "closed"}]
    /\ once \in {"new", "running", "done"}

Init ==
    /\ RT!Init
    /\ inbox = <<>>
    /\ HB!Init
    /\ reader = "tapping"
    /\ sentIds = {} /\ posted = {}
    /\ fatalerr = FALSE /\ peerGone = FALSE
    /\ closer = [c \in Closers \cup {Reader} |-> "idle"]
    /\ once = "new"

\* tapClientConn and tapAcceptedConn send the transport init message, which
\* takes an id, before anybody else has the connection.
SendTransportInit ==
    /\ reader = "tapping"
    /\ reader' = "reading"
    /\ RT!NewMessage
    /\ UNCHANGED <<pingVars, netClosed, inbox, peerVars, fatalerr, closeVars>>

Usable == ~crashed /\ reader # "tapping"

\* What has begun or was sent.
Begun == {r \in Requests : pc[r] # "idle"} \cup {p \in Pingers : stage[p] # "idle"}
             \cup posted
MayAct(a) == Begun \cup {a} \in Together

-----------------------------------------------------------------------------
(* RequestReply.                                                           *)

\* SendOneWay fails on a closed network, or once fatalerr is seen.  fatalerr
\* is read without a lock, so a sender may also miss it.
SendMayFail == netClosed \/ fatalerr \/ peerGone

RequestStarts(r) ==
    /\ Usable /\ MayAct(r)
    /\ RT!Put(r)
    /\ UNCHANGED <<pingVars, netClosed, reader, inbox, peerVars, fatalerr, closeVars>>

\* Mutant: a write whose error is lost, as in tls.go:88.
AlwaysWritable == TRUE
Writable       == ~netClosed

RequestSent(r) ==
    /\ ~crashed
    /\ Writable
    /\ RT!SendOk(r)
    /\ sentIds' = sentIds \cup {idOf[r]}
    /\ UNCHANGED <<pingVars, netClosed, reader, inbox, posted, peerGone, fatalerr, closeVars>>

RequestNotSent(r) ==
    /\ ~crashed
    /\ SendMayFail
    /\ RT!SendErr(r)
    /\ UNCHANGED <<pingVars, netClosed, reader, inbox, peerVars, fatalerr, closeVars>>

RequestEnds(r) ==
    /\ ~crashed
    /\ RT!CtxDone(r) \/ RT!Cancelled(r) \/ RT!PendingLookup(r) \/ RT!PendingClose(r)
    /\ UNCHANGED <<pingVars, netClosed, reader, inbox, peerVars, fatalerr, closeVars>>

-----------------------------------------------------------------------------
(* Ping.                                                                   *)

PingCalled(p) ==
    /\ Usable /\ MayAct(p)
    /\ UNCHANGED <<tableVars, reader, inbox, peerVars, fatalerr, closeVars>>
    /\ HB!Call(p)

\* newMessage gives the heartbeat request an id of the common counter.
PingLocks(p) ==
    /\ UNCHANGED <<reader, inbox, peerVars, fatalerr, closeVars>>
    /\ HB!Lock(p)
    /\ RT!NewMessage

PingSent(p) ==
    /\ UNCHANGED <<tableVars, reader, inbox, peerVars, fatalerr, closeVars>>
    /\ HB!Send(p)

PingNotSent(p) ==
    /\ SendMayFail
    /\ UNCHANGED <<tableVars, reader, inbox, peerVars, fatalerr, closeVars>>
    /\ HB!SendFails(p)

PingEnds(p) ==
    /\ UNCHANGED <<tableVars, reader, inbox, peerVars, fatalerr, closeVars>>
    /\ HB!CtxDone(p) \/ HB!ReceiveClosed(p) \/ \E t \in Ticks : HB!Receive(p, t)

HandlerPanics ==
    /\ UNCHANGED <<tableVars, reader, inbox, peerVars, fatalerr, closeVars>>
    /\ HB!HandlerPanics

-----------------------------------------------------------------------------
(* Wait: one frame at a time, by kind.                                     *)

Reads(kind) ==
    /\ ~crashed
    /\ reader = "reading"
    /\ ~netClosed
    /\ inbox # <<>>
    /\ Head(inbox).kind = kind
    /\ inbox' = Tail(inbox)

ReadHeartbeat ==
    /\ Reads("heartbeat")
    /\ UNCHANGED <<tableVars, reader, peerVars, fatalerr, closeVars>>
    /\ HB!Handle(Head(inbox).body)

ReadReply ==
    /\ Reads("message")
    /\ RT!Feed(Reader, Head(inbox).body)
    /\ reader' = "feeding"
    /\ UNCHANGED <<pingVars, netClosed, peerVars, fatalerr, closeVars>>

ReplyTaken ==
    /\ ~crashed
    /\ reader = "feeding"
    /\ RT!Deliver(Reader)
    /\ reader' = "reading"
    /\ UNCHANGED <<pingVars, netClosed, inbox, peerVars, fatalerr, closeVars>>

\* Feed returned false: the message callback runs inside the read loop.
ReadOther ==
    /\ Reads("message")
    /\ ~RT!Matches(Head(inbox).body)
    /\ reader' = "callback"
    /\ UNCHANGED <<tableVars, pingVars, netClosed, peerVars, fatalerr, closeVars>>

CallbackReturns ==
    /\ ~crashed
    /\ reader = "callback"
    /\ reader' = "reading"
    /\ UNCHANGED <<tableVars, pingVars, netClosed, inbox, peerVars, fatalerr, closeVars>>

\* ConnectionAuth with an error code.
ReadRejection ==
    /\ Reads("rejection")
    /\ fatalerr' = TRUE
    /\ reader' = "closing"
    /\ UNCHANGED <<tableVars, pingVars, netClosed, peerVars, closeVars>>

\* Mutant: the loop goes on after a read error.
ReadAgain  == "reading"
LeavesLoop == "closing"

ReadFails ==
    /\ ~crashed
    /\ reader = "reading"
    /\ netClosed \/ (peerGone /\ inbox = <<>>)
    /\ reader' = LeavesLoop
    /\ UNCHANGED <<tableVars, pingVars, netClosed, inbox, peerVars, fatalerr, closeVars>>

-----------------------------------------------------------------------------
(* Close, by a user or by Wait on its way out.  (After a rejection Wait     *)
(* calls it twice; the second call finds everything done.)                 *)

CloseConn(c) ==
    /\ Usable
    /\ closer[c] = "idle"
    /\ c = Reader => reader = "closing"
    /\ closer' = [closer EXCEPT ![c] = "atOnce"]
    /\ \/ inbox' = <<>> /\ HB!CloseNet
       \/ netClosed /\ UNCHANGED <<inbox, pingVars, netClosed>>
    /\ UNCHANGED <<tableVars, reader, peerVars, fatalerr, once>>

\* closeOnce.Do: the first caller runs the function, the others wait for it.
EnterOnce(c) ==
    /\ ~crashed
    /\ closer[c] = "atOnce"
    /\ once = "new"
    /\ once' = "running"
    /\ closer' = [closer EXCEPT ![c] = "inside"]
    /\ UNCHANGED <<tableVars, pingVars, netClosed, reader, inbox, peerVars, fatalerr>>

ClosePings ==
    /\ once = "running"
    /\ UNCHANGED <<tableVars, reader, inbox, peerVars, fatalerr, closeVars>>
    /\ HB!ClosePingCh

CloseTable ==
    /\ ~crashed
    /\ once = "running" /\ pingClosed
    /\ RT!RangeBegin \/ RT!RangeClose \/ \E i \in RT!Ids : RT!RangeVisit(i)
    /\ UNCHANGED <<pingVars, netClosed, reader, inbox, peerVars, fatalerr, closeVars>>

OnceDone ==
    /\ ~crashed
    /\ once = "running"
    /\ RT!RangeEnd
    /\ once' = "done"
    /\ UNCHANGED <<pingVars, netClosed, reader, inbox, peerVars, fatalerr, closer>>

CloseReturns(c) ==
    /\ ~crashed
    /\ closer[c] \in {"atOnce", "inside"}
    /\ once = "done"
    /\ closer' = [closer EXCEPT ![c] = "closed"]
    /\ reader' = IF c = Reader THEN "exited" ELSE reader
    /\ UNCHANGED <<tableVars, pingVars, netClosed, inbox, peerVars, fatalerr, once>>

-----------------------------------------------------------------------------
(* The peer.                                                               *)

PeerCanSend == ~crashed /\ ~netClosed /\ ~peerGone /\ Len(inbox) < MaxInbox

PeerSends(m) ==
    /\ PeerCanSend
    /\ m \notin posted /\ MayAct(m)
    /\ RelatesTo[m] \in sentIds \cup {NoId}
    /\ posted' = posted \cup {m}
    /\ inbox' = Append(inbox, Frame("message", m))
    /\ UNCHANGED <<tableVars, pingVars, netClosed, reader, sentIds, peerGone, fatalerr, closeVars>>

PeerEchoes(t) ==
    /\ PeerCanSend
    /\ inbox' = Append(inbox, Frame("heartbeat", t))
    /\ UNCHANGED <<tableVars, reader, peerVars, fatalerr, closeVars>>
    /\ HB!Echo(t)

PeerRejects ==
    /\ PeerCanSend
    /\ ~fatalerr /\ \A i \in DOMAIN inbox : inbox[i].kind # "rejection"
    /\ inbox' = Append(inbox, Frame("rejection", NoMsg))
    /\ UNCHANGED <<tableVars, pingVars, netClosed, reader, peerVars, fatalerr, closeVars>>

PeerLeaves ==
    /\ ~crashed /\ ~peerGone
    /\ peerGone' = TRUE
    /\ UNCHANGED <<tableVars, pingVars, netClosed, reader, inbox, sentIds, posted, fatalerr, closeVars>>

-----------------------------------------------------------------------------
Request(r) == RequestStarts(r) \/ RequestSent(r) \/ RequestNotSent(r) \/ RequestEnds(r)
Ping(p)    == PingCalled(p) \/ PingLocks(p) \/ PingSent(p) \/ PingNotSent(p) \/ PingEnds(p)
Read       == ReadHeartbeat \/ ReadReply \/ ReadOther \/ ReadRejection \/ ReadFails
Close(c)   == CloseConn(c) \/ EnterOnce(c) \/ CloseReturns(c)
OnceBody   == ClosePings \/ CloseTable \/ OnceDone
Peer       == PeerRejects \/ PeerLeaves \/ (\E m \in Messages : PeerSends(m))
                  \/ \E t \in Ticks : PeerEchoes(t)

Next ==
    \/ SendTransportInit
    \/ \E r \in Requests : Request(r)
    \/ \E p \in Pingers : Ping(p)
    \/ HandlerPanics
    \/ Read \/ ReplyTaken \/ CallbackReturns
    \/ \E c \in Closers \cup {Reader} : Close(c)
    \/ OnceBody
    \/ Peer

\* Goroutines that can run do, the message callback returns, and a peer that
\* is connected answers heartbeats.  Nothing obliges anybody to start a call,
\* expire, answer a request, reject, leave or call Close; only Wait, once it
\* fails, always closes.
Fairness ==
    /\ WF_vars(SendTransportInit)
    /\ \A r \in Requests :
        /\ WF_vars(RequestSent(r) \/ RequestNotSent(r))
        /\ WF_vars(~crashed /\ pc[r] # "waiting" /\ RequestEnds(r))
        /\ WF_vars(RequestEnds(r) /\ outcome'[r] = "cancelled")
    /\ \A p \in Pingers :
        /\ SF_vars(PingLocks(p))
        /\ WF_vars(PingSent(p) \/ PingNotSent(p))
        /\ WF_vars(PingEnds(p) /\ verdict'[p] # "ctx")
    /\ \A t \in Ticks : WF_vars(PeerEchoes(t))
    /\ WF_vars(HandlerPanics)
    /\ WF_vars(Read) /\ WF_vars(ReplyTaken) /\ WF_vars(CallbackReturns)
    /\ WF_vars(CloseConn(Reader)) /\ WF_vars(OnceBody)
    /\ \A c \in Closers \cup {Reader} : WF_vars(EnterOnce(c) \/ CloseReturns(c))

Spec     == Init /\ [][Next]_vars
FairSpec == Spec /\ Fairness

-----------------------------------------------------------------------------
(* Properties.                                                             *)

\* The calls of a connection behave as CallSpec says.
CallStatus(r) ==
    CASE pc[r] = "idle" -> "idle"
      [] pc[r] = "sending" -> "started"
      [] pc[r] = "waiting" -> "sent"
      [] OTHER -> IF outcome[r] = "reply" THEN "answered" ELSE "failed"
Unread == {m \in Messages : \/ carry[Reader] = m
                            \/ \E i \in DOMAIN inbox : inbox[i] = Frame("message", m)}
Calls == INSTANCE CallSpec WITH
             Ids <- RT!Ids, status <- [r \in Requests |-> CallStatus(r)], callId <- idOf,
             asked <- sentIds, available <- Unread, answer <- got
ImplementsCalls == Calls!Spec

\* Once Close has run to its end no call waits for something that cannot come:
\* conn.Close stops the writes before requestTable.Close visits the table
\* (conn.go:132-137), so a call the Range missed fails in SendOneWay instead.
NoLateWaiter ==
    once = "done" => \A r \in Requests :
        pc[r] = "waiting" => r \in closedCh \/ hand[Reader] = r \/ RT!SharesId(r)

\* The read loop is left holding an answer nobody will take only when the
\* context of that call expired between Feed's lookup and its send
\* (requesttable.go:71-74 against :37), or its id was shared.
OnlyCancellationWedgesWait ==
    \A r \in Requests :
        hand[Reader] = r /\ pc[r] \in {"waitClose", "replyClose", "done"} =>
            outcome[r] = "ctx" \/ RT!SharesId(r)

\* After Close every call returns, whenever it was made (client_test.go:276-309),
\* unless the process died meanwhile.
CloseEndsCalls ==
    \A r \in Requests :
        (netClosed /\ pc[r] # "idle") ~> (pc[r] = "done" \/ crashed)

\* Wait returns once the connection is closed or rejected or the peer left,
\* unless some context expired before (conn.go:246-285).
ContextExpired == \E r \in Requests : outcome[r] = "ctx"
WaitReturns ==
    (netClosed \/ peerGone \/ fatalerr)
        ~> (reader = "exited" \/ crashed \/ ContextExpired)

\* What the tests expect: after a cancelled request a ping on the same
\* connection is answered (client_test.go:402-445).
PingReturnsWhileOpen ==
    \A p \in Pingers :
        stage[p] = "waiting" ~> (stage[p] = "done" \/ crashed \/ netClosed \/ peerGone)
=============================================================================
