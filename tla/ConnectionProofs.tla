-------------------------- MODULE ConnectionProofs --------------------------
(***************************************************************************)
(* Theorems about Connection: it takes only the steps its request table    *)
(* and its heartbeat allow, so what is proved of those two holds here; and *)
(* the properties of Wait, Close and RequestReply together, for any number *)
(* of calls, pings, closers and messages.                                  *)
(***************************************************************************)
EXTENDS Connection, TLAPS

\* The theorems about the two parts, for the goroutines of a connection.
RTP == INSTANCE RequestTableProofs WITH Feeders <- {Reader}, Closer <- RangeCloser
HBP == INSTANCE HeartbeatProofs WITH Cancellable <- PingCancellable,
                                     requests <- hbRequests, replies <- hbReplies

-----------------------------------------------------------------------------
(* The inductive invariant.                                                *)

Frames == {Frame("message", m) : m \in Messages} \cup {Frame("heartbeat", t) : t \in Ticks}
              \cup {Frame("rejection", NoMsg)}

Elems(s) == {s[i] : i \in DOMAIN s}
Once(s)  == \A i, j \in DOMAIN s : s[i] = s[j] => i = j

\* No frame is unread twice, and the message Wait is delivering is read.
InboxOnce ==
    /\ inbox \in Seq(Frames)
    /\ Once(inbox)
    /\ Unread \subseteq posted
    /\ Frame("message", carry[Reader]) \notin Elems(inbox)

\* Wait carries a message exactly while it holds the entry it is for.
CarryHeld == hand[Reader] = NoReq <=> carry[Reader] = NoMsg

\* The ids the peer knows are those of requests that were written, and what it
\* sends relates to them.
AskedFor ==
    /\ \A i \in sentIds : \E s \in Requests : /\ idOf[s] = i
                                              /\ pc[s] \notin {"idle", "sending"}
                                              /\ outcome[s] # "sendErr"
    /\ \A m \in Unread : RelatesTo[m] \in sentIds \cup {NoId}

\* A call that stopped waiting knows why.
Decided ==
    \A r \in Requests :
        /\ pc[r] \in {"waitClose", "replyClose", "done"} => outcome[r] # "none"
        /\ outcome[r] = "cancelled" => r \in closedCh

\* Close takes its steps in order, on a network that is closed.
CloseOrder ==
    /\ pingClosed => netClosed
    /\ closing # "no" => netClosed
    /\ closing = "no" => visited = {}
    /\ closing = "over" => due \subseteq visited /\ hand[RangeCloser] = NoReq
    /\ once = "done" => closing = "over"

\* The Range still has before it the entry of every call that waits, as none
\* could begin to wait since the network was closed.
StillDue ==
    \A r \in Requests :
        closing # "no" /\ pc[r] = "waiting" /\ table[idOf[r]] = r
            => idOf[r] \in due \ visited

IInv ==
    /\ RT!IndInv /\ HB!IndInv /\ TypeOK
    /\ InboxOnce /\ CarryHeld /\ AskedFor /\ Decided /\ CloseOrder /\ StillDue

-----------------------------------------------------------------------------
(* The unread frames.                                                      *)

\* Reading takes one frame out, and the others stay as they were.
LEMMA TailTakesOut ==
    ASSUME NEW S, NEW s \in Seq(S), s # <<>>, Once(s)
    PROVE  /\ Head(s) \in S /\ Head(s) \in Elems(s)
           /\ Tail(s) \in Seq(S) /\ Len(Tail(s)) = Len(s) - 1
           /\ Once(Tail(s))
           /\ Elems(Tail(s)) = Elems(s) \ {Head(s)}
<1> DEFINE t == Tail(s)
<1>1. /\ Len(s) \in Nat /\ Len(s) > 0
      /\ DOMAIN s = 1 .. Len(s)
      /\ t \in Seq(S) /\ Len(t) = Len(s) - 1
      /\ DOMAIN t = 1 .. (Len(s) - 1)
      /\ \A i \in 1 .. (Len(s) - 1) : t[i] = s[i + 1]
      /\ Head(s) = s[1] /\ s[1] \in S
  OBVIOUS
<1> HIDE DEF t
<1>2. Head(s) \in Elems(s)
  BY <1>1 DEF Elems
<1>3. Once(t)
  <2> SUFFICES ASSUME NEW i \in DOMAIN t, NEW j \in DOMAIN t, t[i] = t[j] PROVE i = j
    BY DEF Once
  <2>1. i + 1 \in DOMAIN s /\ j + 1 \in DOMAIN s /\ s[i + 1] = s[j + 1]
    BY <1>1
  <2>2. i + 1 = j + 1
    BY <2>1 DEF Once
  <2> QED BY <1>1, <2>2
<1>4. ASSUME NEW f \in Elems(t) PROVE f \in Elems(s) /\ f # Head(s)
  <2>1. PICK i \in DOMAIN t : f = t[i]
    BY <1>4 DEF Elems
  <2>2. i + 1 \in DOMAIN s /\ 1 \in DOMAIN s /\ i + 1 # 1 /\ f = s[i + 1]
    BY <1>1, <2>1
  <2> QED BY <1>1, <2>2 DEF Elems, Once
<1>5. ASSUME NEW f \in Elems(s), f # Head(s) PROVE f \in Elems(t)
  <2>1. PICK i \in DOMAIN s : f = s[i]
    BY <1>5 DEF Elems
  <2>2. i # 1
    BY <1>1, <1>5, <2>1
  <2>3. i - 1 \in DOMAIN t /\ t[i - 1] = f
    BY <1>1, <2>1, <2>2
  <2> QED BY <2>3 DEF Elems
<1>6. Elems(t) = Elems(s) \ {Head(s)}
  BY <1>4, <1>5
<1> QED BY <1>1, <1>2, <1>3, <1>6 DEF t

\* The peer's next frame goes behind those on their way.
LEMMA AppendAdds ==
    ASSUME NEW S, NEW s \in Seq(S), NEW f \in S, f \notin Elems(s), Once(s)
    PROVE  /\ Append(s, f) \in Seq(S) /\ Len(Append(s, f)) = Len(s) + 1
           /\ Once(Append(s, f))
           /\ Elems(Append(s, f)) = Elems(s) \cup {f}
<1> DEFINE t == Append(s, f)
<1>1. /\ Len(s) \in Nat /\ DOMAIN s = 1 .. Len(s)
      /\ t \in Seq(S) /\ Len(t) = Len(s) + 1
      /\ DOMAIN t = 1 .. (Len(s) + 1)
      /\ \A i \in 1 .. Len(s) : t[i] = s[i]
      /\ t[Len(s) + 1] = f
  OBVIOUS
<1> HIDE DEF t
<1>2. \A i \in DOMAIN t : i = Len(s) + 1 \/ (i \in DOMAIN s /\ t[i] = s[i])
  BY <1>1
<1>3. \A i \in DOMAIN s : s[i] # f
  BY DEF Elems
<1>4. Once(t)
  <2> SUFFICES ASSUME NEW i \in DOMAIN t, NEW j \in DOMAIN t, t[i] = t[j] PROVE i = j
    BY DEF Once
  <2> QED BY <1>1, <1>2, <1>3 DEF Once
<1>5. ASSUME NEW g \in Elems(t) PROVE g \in Elems(s) \cup {f}
  BY <1>1, <1>2, <1>5 DEF Elems
<1>6. ASSUME NEW g \in Elems(s) \cup {f} PROVE g \in Elems(t)
  <2>1. CASE g = f
    BY <1>1, <2>1 DEF Elems
  <2>2. CASE g \in Elems(s)
    <3>1. PICK i \in DOMAIN s : g = s[i]
      BY <2>2 DEF Elems
    <3>2. i \in DOMAIN t /\ g = t[i]
      BY <1>1, <3>1
    <3> QED BY <3>2 DEF Elems
  <2> QED BY <1>6, <2>1, <2>2
<1>7. Elems(t) = Elems(s) \cup {f}
  BY <1>5, <1>6
<1> QED BY <1>1, <1>4, <1>7 DEF t

\* Frames are told apart by kind and by what they carry.
LEMMA FramesDiffer ==
    /\ \A k, b, l, c : Frame(k, b) = Frame(l, c) <=> k = l /\ b = c
    /\ \A k, b : Frame(k, b).kind = k /\ Frame(k, b).body = b
  BY DEF Frame

\* A frame of a kind carries what belongs to that kind.
LEMMA FrameIs ==
    ASSUME NEW f \in Frames
    PROVE  /\ f = Frame(f.kind, f.body)
           /\ f.kind = "message" => f.body \in Messages
           /\ f.kind = "heartbeat" => f.body \in Ticks
           /\ f.kind = "rejection" => f = Frame("rejection", NoMsg)
<1>1. CASE \E m \in Messages : f = Frame("message", m)
  BY <1>1 DEF Frame
<1>2. CASE \E t \in Ticks : f = Frame("heartbeat", t)
  BY <1>2 DEF Frame
<1>3. CASE f = Frame("rejection", NoMsg)
  BY <1>3 DEF Frame
<1> QED BY <1>1, <1>2, <1>3 DEF Frames

\* What is unread, and what echoes are on their way, is what the frames say.
LEMMA UnreadIs ==
    /\ Unread = {m \in Messages : carry[Reader] = m \/ Frame("message", m) \in Elems(inbox)}
    /\ hbReplies = {t \in Ticks : Frame("heartbeat", t) \in Elems(inbox)}
  BY DEF Unread, hbReplies, Elems

\* The same after a step.
LEMMA UnreadIsAfter ==
    /\ Unread' = {m \in Messages : carry'[Reader] = m \/ Frame("message", m) \in Elems(inbox')}
    /\ hbReplies' = {t \in Ticks : Frame("heartbeat", t) \in Elems(inbox')}
  BY DEF Unread, hbReplies, Elems

\* What a step may do to the frames that are on their way.
Reading(f)  == /\ f = Head(inbox) /\ f \in Elems(inbox) /\ f \in Frames /\ f = Frame(f.kind, f.body)
               /\ inbox' \in Seq(Frames) /\ Once(inbox') /\ Len(inbox') <= MaxInbox
               /\ Elems(inbox') = Elems(inbox) \ {f}
Arriving(f) == /\ f \in Frames /\ f \notin Elems(inbox)
               /\ inbox' \in Seq(Frames) /\ Once(inbox') /\ Len(inbox') <= MaxInbox
               /\ Elems(inbox') = Elems(inbox) \cup {f}

LEMMA ReadsTakesOut ==
    ASSUME TypeOK, InboxOnce, NEW k, Reads(k)
    PROVE  Reading(Head(inbox)) /\ Head(inbox).kind = k
<1>1. inbox \in Seq(Frames) /\ inbox # <<>> /\ Once(inbox) /\ inbox' = Tail(inbox)
      /\ Head(inbox).kind = k /\ Len(inbox) <= MaxInbox
  BY DEF Reads, InboxOnce, TypeOK
<1>2. Head(inbox) \in Frames /\ Len(inbox) \in Nat
  BY <1>1
<1>3. Len(Tail(inbox)) = Len(inbox) - 1
  BY ONLY <1>1, TailTakesOut
<1>4. Len(Tail(inbox)) <= MaxInbox
  BY <1>1, <1>2, <1>3, BoundAssumption
<1>5. /\ Head(inbox) \in Elems(inbox) /\ Tail(inbox) \in Seq(Frames) /\ Once(Tail(inbox))
      /\ Elems(Tail(inbox)) = Elems(inbox) \ {Head(inbox)}
  BY ONLY <1>1, TailTakesOut
<1>6. Head(inbox) = Frame(Head(inbox).kind, Head(inbox).body)
  BY ONLY <1>2, FrameIs
<1> QED BY ONLY <1>1, <1>2, <1>4, <1>5, <1>6, Zenon DEF Reading

LEMMA AppendArrives ==
    ASSUME TypeOK, InboxOnce, PeerCanSend, NEW f \in Frames, f \notin Elems(inbox),
           inbox' = Append(inbox, f)
    PROVE  Arriving(f)
<1>1. inbox \in Seq(Frames) /\ Once(inbox) /\ Len(inbox) < MaxInbox
  BY DEF InboxOnce, PeerCanSend
<1>2. /\ Append(inbox, f) \in Seq(Frames) /\ Len(Append(inbox, f)) = Len(inbox) + 1
      /\ Once(Append(inbox, f)) /\ Elems(Append(inbox, f)) = Elems(inbox) \cup {f}
  BY ONLY <1>1, AppendAdds, f \in Frames, f \notin Elems(inbox)
<1>3. Len(Append(inbox, f)) <= MaxInbox
  <2>1. Len(inbox) \in Nat
    BY <1>1
  <2>2. Len(Append(inbox, f)) = Len(inbox) + 1
    BY <1>2
  <2> QED BY ONLY <1>1, <2>1, <2>2, BoundAssumption
<1> QED BY ONLY <1>2, <1>3, f \in Frames, f \notin Elems(inbox), inbox' = Append(inbox, f), Zenon DEF Arriving

-----------------------------------------------------------------------------
(* The parts.                                                              *)

\* What the goroutines of a connection do to the table: a request is written
\* only to an open network, and the table is closed after the ping channel.
TableAct ==
    \/ UNCHANGED RT!vars
    \/ RT!NewMessage
    \/ \E r \in Requests : \/ RT!Put(r) \/ RT!SendErr(r) \/ RT!CtxDone(r) \/ RT!Cancelled(r)
                           \/ RT!PendingLookup(r) \/ RT!PendingClose(r)
                           \/ RT!SendOk(r) /\ ~netClosed
    \/ RT!Deliver(Reader)
    \/ \E m \in Messages : RT!Feed(Reader, m)
    \/ pingClosed /\ (RT!RangeBegin \/ RT!RangeClose \/ \E i \in RT!Ids : RT!RangeVisit(i))
    \/ RT!RangeEnd

LEMMA TableActs == TypeOK /\ InboxOnce /\ [Next]_vars => TableAct
<1> SUFFICES ASSUME TypeOK, InboxOnce, [Next]_vars PROVE TableAct
  OBVIOUS
<1>1. UNCHANGED tableVars => TableAct
  BY DEF tableVars, RT!vars, RT!callVars, RT!rangeVars, TableAct
<1>2. CASE SendTransportInit
  BY <1>2 DEF SendTransportInit, TableAct
<1>3. ASSUME NEW r \in Requests, Request(r) PROVE TableAct
  BY <1>3 DEF Request, RequestStarts, RequestSent, Writable, RequestNotSent, RequestEnds, TableAct
<1>4. ASSUME NEW p \in Pingers, Ping(p) PROVE TableAct
  <2>1. RT!NewMessage => TableAct
    BY DEF TableAct
  <2> QED BY <1>4, <1>1, <2>1 DEF Ping, PingCalled, PingLocks, PingSent, PingNotSent, PingEnds
<1>5. CASE HandlerPanics \/ CallbackReturns \/ Peer
  BY <1>5, <1>1 DEF HandlerPanics, CallbackReturns, Peer, PeerRejects, PeerLeaves, PeerSends, PeerEchoes
<1>6. CASE Read
  <2>1. CASE ReadReply
    <3>1. Head(inbox) \in Frames /\ Head(inbox).kind = "message"
      BY <2>1, ReadsTakesOut DEF ReadReply, Reading
    <3>2. Head(inbox).body \in Messages
      BY <3>1, FrameIs
    <3> QED BY <2>1, <3>2 DEF ReadReply, TableAct
  <2> QED BY <1>6, <1>1, <2>1 DEF Read, ReadHeartbeat, ReadOther, ReadRejection, ReadFails
<1>7. CASE ReplyTaken
  BY <1>7 DEF ReplyTaken, TableAct
<1>8. ASSUME NEW c \in Closers \cup {Reader}, Close(c) PROVE TableAct
  BY <1>8, <1>1 DEF Close, CloseConn, EnterOnce, CloseReturns
<1>9. CASE OnceBody
  <2>1. CASE ClosePings
    BY <2>1, <1>1 DEF ClosePings
  <2>2. CASE CloseTable
    BY <2>2 DEF CloseTable, TableAct
  <2>3. CASE OnceDone
    BY <2>3 DEF OnceDone, TableAct
  <2> QED BY <1>9, <2>1, <2>2, <2>3 DEF OnceBody
<1>10. CASE UNCHANGED vars
  BY <1>10, <1>1 DEF vars
<1> QED
  BY <1>2, <1>3, <1>4, <1>5, <1>6, <1>7, <1>8, <1>9, <1>10 DEF Next

\* Whoever acts, the table sees one of its own steps or none.
LEMMA TableStep == TypeOK /\ InboxOnce /\ [Next]_vars => [RT!Next]_RT!vars
<1> SUFFICES ASSUME TableAct PROVE [RT!Next]_RT!vars
  BY TableActs
<1>1. ASSUME NEW r \in Requests, RT!Call(r) PROVE RT!Next
  BY <1>1 DEF RT!Next
<1>2. RT!Deliver(Reader) => RT!Next
  BY DEF RT!Next
<1>3. ASSUME NEW m \in Messages, RT!Feed(Reader, m) PROVE RT!Next
  BY <1>3 DEF RT!Next
<1>4. RT!NewMessage \/ RT!CloseTable => RT!Next
  BY DEF RT!Next
<1> QED BY <1>1, <1>2, <1>3, <1>4 DEF TableAct, RT!Call, RT!CloseTable

\* The peer may reject the connection by a frame.
LEMMA RejectionIs == Frame("rejection", NoMsg) \in Frames
  BY DEF Frames

\* hbReplies does not change with a frame that is no heartbeat.
LEMMA NoEcho ==
    /\ \A f : Reading(f) /\ f.kind # "heartbeat" => hbReplies' = hbReplies
    /\ \A f : Arriving(f) /\ f.kind # "heartbeat" => hbReplies' = hbReplies
    /\ \A t \in Ticks : Reading(Frame("heartbeat", t)) => hbReplies' = hbReplies \ {t}
    /\ \A t \in Ticks : Arriving(Frame("heartbeat", t)) => hbReplies' = hbReplies \cup {t}
<1>1. ASSUME NEW f, Reading(f), f.kind # "heartbeat" PROVE hbReplies' = hbReplies
  BY <1>1, UnreadIs, UnreadIsAfter, FramesDiffer DEF Reading
<1>2. ASSUME NEW f, Arriving(f), f.kind # "heartbeat" PROVE hbReplies' = hbReplies
  BY <1>2, UnreadIs, UnreadIsAfter, FramesDiffer DEF Arriving
<1>3. ASSUME NEW t \in Ticks, Reading(Frame("heartbeat", t)) PROVE hbReplies' = hbReplies \ {t}
  BY <1>3, UnreadIs, UnreadIsAfter, FramesDiffer DEF Reading
<1>4. ASSUME NEW t \in Ticks, Arriving(Frame("heartbeat", t)) PROVE hbReplies' = hbReplies \cup {t}
  BY <1>4, UnreadIs, UnreadIsAfter, FramesDiffer DEF Arriving
<1> QED BY <1>1, <1>2, <1>3, <1>4

\* The head of the inbox is read, of its kind.
LEMMA ReadingKind ==
    ASSUME TypeOK, InboxOnce, NEW k, Reads(k)
    PROVE  \E f \in Frames : Reading(f) /\ f = Frame(k, f.body) /\ f.kind = k /\ f.body = Head(inbox).body
  BY ReadsTakesOut, Zenon DEF Reading

\* Whoever acts, the heartbeat sees one of its own steps or none.
LEMMA HeartbeatStep ==
    TypeOK /\ InboxOnce /\ HB!IndInv /\ [Next]_vars => [HB!Next]_HB!vars
<1> SUFFICES ASSUME TypeOK, InboxOnce, HB!IndInv, [Next]_vars PROVE [HB!Next]_HB!vars
  OBVIOUS
<1>1. inbox' = inbox => hbReplies' = hbReplies
  BY UnreadIs, UnreadIsAfter
<1>2. UNCHANGED <<pingVars, netClosed>> /\ hbReplies' = hbReplies => UNCHANGED HB!vars
  BY DEF pingVars, HB!vars, HB!pingVars, HB!wireVars, HB!closeVars
<1>3. ASSUME NEW p \in Pingers, HB!Ping(p) PROVE HB!Next
  BY <1>3 DEF HB!Next
<1>4. ASSUME NEW t \in Ticks, HB!Handle(t) \/ HB!Echo(t) PROVE HB!Next
  BY <1>4 DEF HB!Next, HB!Ticks, Ticks
<1>5. HB!HandlerPanics \/ HB!CloseNet \/ HB!ClosePingCh => HB!Next
  BY DEF HB!Next
<1>6. CASE SendTransportInit
  BY <1>6, <1>1, <1>2 DEF SendTransportInit
<1>7. ASSUME NEW r \in Requests, Request(r) PROVE [HB!Next]_HB!vars
  BY <1>7, <1>1, <1>2 DEF Request, RequestStarts, RequestSent, RequestNotSent, RequestEnds
<1>8. ASSUME NEW p \in Pingers, Ping(p) PROVE [HB!Next]_HB!vars
  BY <1>8, <1>3 DEF Ping, PingCalled, PingLocks, PingSent, PingNotSent, PingEnds, HB!Ping, HB!Ticks, Ticks
<1>9. CASE HandlerPanics
  BY <1>9, <1>5 DEF HandlerPanics
<1>10. CASE Read
  <2>1. CASE ReadHeartbeat
    <3>1. Head(inbox).body \in Ticks
      BY <2>1, ReadingKind, FrameIs DEF ReadHeartbeat
    <3> QED BY <2>1, <3>1, <1>4 DEF ReadHeartbeat
  <2>2. CASE ReadReply \/ ReadOther \/ ReadRejection
    <3>1. \E f : Reading(f) /\ f.kind # "heartbeat"
      BY <2>2, ReadingKind DEF ReadReply, ReadOther, ReadRejection
    <3>2. hbReplies' = hbReplies
      BY <3>1, NoEcho
    <3> QED BY <2>2, <3>2, <1>2 DEF ReadReply, ReadOther, ReadRejection
  <2>3. CASE ReadFails
    BY <2>3, <1>1, <1>2 DEF ReadFails
  <2> QED BY <1>10, <2>1, <2>2, <2>3 DEF Read
<1>11. CASE ReplyTaken \/ CallbackReturns
  BY <1>11, <1>1, <1>2 DEF ReplyTaken, CallbackReturns
<1>12. ASSUME NEW c \in Closers \cup {Reader}, Close(c) PROVE [HB!Next]_HB!vars
  BY <1>12, <1>1, <1>2, <1>5 DEF Close, CloseConn, EnterOnce, CloseReturns
<1>13. CASE OnceBody
  BY <1>13, <1>1, <1>2, <1>5 DEF OnceBody, ClosePings, CloseTable, OnceDone
<1>14. CASE Peer
  <2>1. ASSUME NEW m \in Messages, PeerSends(m) PROVE [HB!Next]_HB!vars
    <3>1. Frame("message", m) \in Frames /\ Frame("message", m) \notin Elems(inbox)
      BY <2>1, UnreadIs DEF PeerSends, Frames, InboxOnce
    <3>2. Arriving(Frame("message", m))
      BY <2>1, <3>1, AppendArrives DEF PeerSends
    <3>3. hbReplies' = hbReplies
      BY <3>2, NoEcho, FramesDiffer
    <3> QED BY <2>1, <3>3, <1>2 DEF PeerSends
  <2>2. ASSUME NEW t \in Ticks, PeerEchoes(t) PROVE [HB!Next]_HB!vars
    BY <2>2, <1>4 DEF PeerEchoes
  <2>3. CASE PeerRejects
    <3>1. Frame("rejection", NoMsg) \notin Elems(inbox)
      BY <2>3, FramesDiffer DEF PeerRejects, Elems
    <3>2. Arriving(Frame("rejection", NoMsg))
      BY <2>3, <3>1, AppendArrives, RejectionIs DEF PeerRejects
    <3>3. hbReplies' = hbReplies
      BY <3>2, NoEcho, FramesDiffer
    <3> QED BY <2>3, <3>3, <1>2 DEF PeerRejects
  <2>4. CASE PeerLeaves
    BY <2>4, <1>1, <1>2 DEF PeerLeaves
  <2> QED BY <1>14, <2>1, <2>2, <2>3, <2>4 DEF Peer
<1>15. CASE UNCHANGED vars
  BY <1>15, <1>1, <1>2 DEF vars
<1> QED
  BY <1>6, <1>7, <1>8, <1>9, <1>10, <1>11, <1>12, <1>13, <1>14, <1>15 DEF Next

-----------------------------------------------------------------------------
(* What is proved of the parts, said of the connection's own instances.    *)

\* RequestTableProofs is instantiated as RTP, Connection's table as RT: the
\* two name the same formulas.
LEMMA SameTable ==
    /\ RT!IndInv <=> RTP!IndInv
    /\ RT!Init <=> RTP!Init
    /\ RT!Next <=> RTP!Next
    /\ RT!vars = RTP!vars
<1>1. RT!IndInv <=> RTP!IndInv
  BY Zenon DEF RT!IndInv, RT!TypeOK, RT!NamedIds, RT!FiledById, RT!HandKnown, RT!OutcomeStage,
       RT!LastCloseRemoved, RT!ClosedWhy, RT!SingleOwner, RT!RightReply, RT!NoOrphan,
       RT!CancelledOnlyByClose, RT!NoLeak, RT!Pending, RT!SharesId, RT!HeldBy, RT!Ids,
       RT!Actors, RT!Stages, RT!Outcomes, RT!InClose,
       RTP!IndInv, RTP!TypeOK, RTP!NamedIds, RTP!FiledById, RTP!HandKnown, RTP!OutcomeStage,
       RTP!LastCloseRemoved, RTP!ClosedWhy, RTP!SingleOwner, RTP!RightReply, RTP!NoOrphan,
       RTP!CancelledOnlyByClose, RTP!NoLeak, RTP!Pending, RTP!SharesId, RTP!HeldBy, RTP!Ids,
       RTP!Actors, RTP!Stages, RTP!Outcomes, RTP!InClose
<1>2. RT!Next <=> RTP!Next
  BY Zenon DEF RT!Next, RT!NewMessage, RT!Call, RT!Put, RT!SendOk, RT!SendErr, RT!CtxDone,
       RT!Cancelled, RT!PendingLookup, RT!PendingClose, RT!CloseTable, RT!RangeBegin,
       RT!RangeClose, RT!RangeEnd, RT!RangeVisit, RT!Deliver, RT!Feed, RT!Leave, RT!AfterClose,
       RT!InClose, RT!Matches, RT!Key, RT!LoadAndDelete, RT!CloseChannel, RT!TakeOut,
       RT!FilledId, RT!Next1, RT!DeferredClose, RT!Ids, RT!callVars, RT!rangeVars,
       RTP!Next, RTP!NewMessage, RTP!Call, RTP!Put, RTP!SendOk, RTP!SendErr, RTP!CtxDone,
       RTP!Cancelled, RTP!PendingLookup, RTP!PendingClose, RTP!CloseTable, RTP!RangeBegin,
       RTP!RangeClose, RTP!RangeEnd, RTP!RangeVisit, RTP!Deliver, RTP!Feed, RTP!Leave,
       RTP!AfterClose, RTP!InClose, RTP!Matches, RTP!Key, RTP!LoadAndDelete,
       RTP!CloseChannel, RTP!TakeOut, RTP!FilledId, RTP!Next1, RTP!DeferredClose, RTP!Ids,
       RTP!callVars, RTP!rangeVars
<1>3. RT!Init <=> RTP!Init
  BY Zenon DEF RT!Init, RTP!Init, RT!Ids, RTP!Ids, RT!Actors, RTP!Actors
<1>4. RT!vars = RTP!vars
  BY Zenon DEF RT!vars, RTP!vars, RT!callVars, RTP!callVars, RT!rangeVars, RTP!rangeVars
<1> QED BY <1>1, <1>2, <1>3, <1>4

\* And after a step.
LEMMA SameTableAfter == (RT!IndInv <=> RTP!IndInv)' /\ (RT!vars = RTP!vars)'
  BY SameTable, PTL

\* The goroutines and ids of a connection meet the assumptions on the table's.
LEMMA TableAssumptions ==
    /\ IdSpace \in Nat \ {0}
    /\ Requests \cap {Reader} = {} /\ RangeCloser \notin Requests \cup {Reader}
    /\ RelatesTo \in [Messages -> RTP!Ids \cup {NoId}]
    /\ PresetId \in [Requests -> RTP!Ids \cup {NoId}]
    /\ Cancellable \subseteq Requests
    /\ NoReq \notin Requests /\ NoMsg \notin Messages /\ NoId \notin RTP!Ids
<1>1. RTP!Ids = RT!Ids
  BY DEF RT!Ids, RTP!Ids
<1> QED BY <1>1, IdAssumption, NameAssumption

LEMMA TableKept == RT!IndInv /\ [RT!Next]_RT!vars => RT!IndInv'
<1>1. RTP!IndInv /\ [RTP!Next]_RTP!vars => RTP!IndInv'
  BY ONLY RTP!IndStep, TableAssumptions DEF RTP!IndStep
<1> QED BY <1>1, SameTable, SameTableAfter

LEMMA TableStarts == RT!Init => RT!IndInv
<1>1. RTP!Init => RTP!IndInv
  BY ONLY RTP!IndInit, TableAssumptions DEF RTP!IndInit
<1> QED BY <1>1, SameTable

LEMMA SameHeartbeat ==
    /\ HB!IndInv <=> HBP!IndInv
    /\ HB!Init <=> HBP!Init
    /\ HB!Next <=> HBP!Next
    /\ HB!vars = HBP!vars
<1>1. HB!IndInv <=> HBP!IndInv
  BY Zenon DEF HB!IndInv, HB!TypeOK, HB!LockHeld, HB!TickOrder, HB!StrayHasCause,
       HB!FalseAlarmHasCause, HB!OkUsesOwnAnswer, HB!Outstanding, HB!Strays, HB!Waiting, HB!Ticks,
       HBP!IndInv, HBP!TypeOK, HBP!LockHeld, HBP!TickOrder, HBP!StrayHasCause,
       HBP!FalseAlarmHasCause, HBP!OkUsesOwnAnswer, HBP!Outstanding, HBP!Strays, HBP!Waiting,
       HBP!Ticks
<1>2. HB!Next <=> HBP!Next
  BY Zenon DEF HB!Next, HB!Ping, HB!Call, HB!Lock, HB!Send, HB!SendFails, HB!CtxDone,
       HB!ReceiveClosed, HB!Receive, HB!Return, HB!Echo, HB!Handle, HB!HandlerPanics,
       HB!CloseNet, HB!ClosePingCh, HB!MutexFree, HB!NewTime, HB!Released, HB!Verdict,
       HB!Ticks, HB!pingVars, HB!wireVars, HB!closeVars,
       HBP!Next, HBP!Ping, HBP!Call, HBP!Lock, HBP!Send, HBP!SendFails, HBP!CtxDone,
       HBP!ReceiveClosed, HBP!Receive, HBP!Return, HBP!Echo, HBP!Handle, HBP!HandlerPanics,
       HBP!CloseNet, HBP!ClosePingCh, HBP!MutexFree, HBP!NewTime, HBP!Released, HBP!Verdict,
       HBP!Ticks, HBP!pingVars, HBP!wireVars, HBP!closeVars
<1>3. HB!Init <=> HBP!Init
  BY Zenon DEF HB!Init, HBP!Init
<1>4. HB!vars = HBP!vars
  BY Zenon DEF HB!vars, HBP!vars, HB!pingVars, HBP!pingVars, HB!wireVars, HBP!wireVars,
       HB!closeVars, HBP!closeVars
<1> QED BY <1>1, <1>2, <1>3, <1>4

LEMMA SameHeartbeatAfter == (HB!IndInv <=> HBP!IndInv)' /\ (HB!vars = HBP!vars)'
  BY SameHeartbeat, PTL

\* So do its pings.
LEMMA HeartbeatAssumptions ==
    MaxTick \in Nat /\ NoPinger \notin Pingers /\ PingCancellable \subseteq Pingers
  BY NameAssumption, BoundAssumption

LEMMA HeartbeatKept == HB!IndInv /\ [HB!Next]_HB!vars => HB!IndInv'
<1>1. HBP!IndInv /\ [HBP!Next]_HBP!vars => HBP!IndInv'
  BY ONLY HBP!IndStep, HeartbeatAssumptions DEF HBP!IndStep
<1> QED BY <1>1, SameHeartbeat, SameHeartbeatAfter

LEMMA HeartbeatStarts == HB!Init => HB!IndInv
<1>1. HBP!Init => HBP!IndInv
  BY ONLY HBP!IndInit, HeartbeatAssumptions DEF HBP!IndInit
<1> QED BY <1>1, SameHeartbeat

-----------------------------------------------------------------------------
(* The inductive step, one lemma per conjunct of IInv.                     *)

\* Feed and Deliver fill and empty hand and carry of the read loop together.
LEMMA CarryHeldStep == RT!IndInv /\ CarryHeld /\ TableAct => CarryHeld'
<1> SUFFICES ASSUME RT!IndInv, CarryHeld, TableAct PROVE CarryHeld'
  OBVIOUS
<1>1. RT!TypeOK /\ RT!HandKnown
  BY DEF RT!IndInv
<1> USE <1>1, NameAssumption DEF CarryHeld, RT!TypeOK, RT!Actors, RT!callVars, RT!rangeVars
<1>2. UNCHANGED <<hand, carry>> => CarryHeld'
  OBVIOUS
<1>3. ASSUME NEW r \in Requests, RT!PendingLookup(r) \/ RT!PendingClose(r) PROVE CarryHeld'
  BY <1>3 DEF RT!PendingLookup, RT!PendingClose, RT!LoadAndDelete, RT!CloseChannel
<1>4. CASE RT!Deliver(Reader)
  BY <1>4 DEF RT!Deliver
<1>5. ASSUME NEW m \in Messages, RT!Feed(Reader, m) PROVE CarryHeld'
  BY <1>5 DEF RT!Feed, RT!LoadAndDelete, RT!Matches
<1>6. CASE RT!RangeClose \/ \E i \in RT!Ids : RT!RangeVisit(i)
  BY <1>6 DEF RT!RangeClose, RT!RangeVisit, RT!TakeOut, RT!LoadAndDelete, RT!CloseChannel
<1> QED
  BY <1>2, <1>3, <1>4, <1>5, <1>6
     DEF TableAct, RT!vars, RT!NewMessage, RT!Put, RT!SendOk, RT!SendErr, RT!CtxDone, RT!Cancelled,
         RT!Leave, RT!RangeBegin, RT!RangeEnd

\* The step that ends a wait says why.
LEMMA DecidedStep == RT!IndInv /\ Decided /\ TableAct => Decided'
<1> SUFFICES ASSUME RT!IndInv, Decided, TableAct PROVE Decided'
  OBVIOUS
<1>1. RT!TypeOK /\ RT!OutcomeStage /\ RT!HandKnown
  BY DEF RT!IndInv
<1> USE <1>1 DEF Decided, RT!TypeOK, RT!OutcomeStage, RT!callVars, RT!rangeVars, RT!Stages
<1>2. UNCHANGED <<pc, outcome, closedCh>> => Decided'
  OBVIOUS
<1>3. ASSUME NEW r \in Requests, RT!PendingLookup(r) \/ RT!PendingClose(r) PROVE Decided'
  BY <1>3 DEF RT!PendingLookup, RT!PendingClose, RT!LoadAndDelete, RT!CloseChannel, RT!InClose, RT!AfterClose
<1>4. CASE RT!Deliver(Reader)
  BY <1>4 DEF RT!Deliver, RT!Leave
<1>5. ASSUME NEW r \in Requests,
             RT!Put(r) \/ RT!SendErr(r) \/ RT!SendOk(r) \/ RT!CtxDone(r) \/ RT!Cancelled(r)
      PROVE  Decided'
  BY <1>5 DEF RT!Put, RT!SendErr, RT!SendOk, RT!CtxDone, RT!Cancelled, RT!Leave, RT!DeferredClose
<1>6. CASE RT!RangeClose
  BY <1>6 DEF RT!RangeClose, RT!CloseChannel
<1> QED
  BY <1>2, <1>3, <1>4, <1>5, <1>6
     DEF TableAct, RT!vars, RT!NewMessage, RT!Feed, RT!RangeVisit, RT!RangeBegin, RT!RangeEnd

\* After the network is closed no call begins to wait, and the Range takes out
\* the entry of every key it visits.
LEMMA StillDueStep ==
    RT!IndInv /\ RT!IndInv' /\ CloseOrder /\ StillDue /\ TableAct => StillDue'
<1> SUFFICES ASSUME RT!IndInv, RT!IndInv', CloseOrder, StillDue, TableAct PROVE StillDue'
  OBVIOUS
<1>1. /\ RT!TypeOK /\ RT!NamedIds /\ RT!FiledById
      /\ RT!TypeOK' /\ RT!NamedIds'
  BY DEF RT!IndInv
<1> USE <1>1, NameAssumption
        DEF StillDue, CloseOrder, RT!TypeOK, RT!NamedIds, RT!callVars, RT!rangeVars, RT!Stages
<1>2. UNCHANGED <<pc, idOf, table, closing, due, visited>> => StillDue'
  OBVIOUS
<1>3. ASSUME NEW r \in Requests, RT!PendingLookup(r) \/ RT!PendingClose(r) PROVE StillDue'
  <2>1. CASE RT!PendingLookup(r)
    BY <2>1 DEF RT!PendingLookup, RT!LoadAndDelete, RT!InClose, RT!AfterClose
  <2>2. CASE RT!PendingClose(r)
    BY <2>2 DEF RT!PendingClose, RT!CloseChannel, RT!InClose, RT!AfterClose
  <2> QED BY <1>3, <2>1, <2>2
<1>4. CASE RT!Deliver(Reader)
  BY <1>4 DEF RT!Deliver, RT!Leave
<1>5. ASSUME NEW r \in Requests, RT!SendErr(r) \/ RT!CtxDone(r) \/ RT!Cancelled(r)
      PROVE  StillDue'
  BY <1>5 DEF RT!SendErr, RT!CtxDone, RT!Cancelled, RT!Leave, RT!DeferredClose
<1>6. ASSUME NEW r \in Requests, RT!SendOk(r), ~netClosed PROVE StillDue'
  BY <1>6 DEF RT!SendOk, RT!Leave
<1>7. ASSUME NEW r \in Requests, RT!Put(r) PROVE StillDue'
  BY <1>7 DEF RT!Put
<1>8. ASSUME NEW m \in Messages, RT!Feed(Reader, m) PROVE StillDue'
  BY <1>8 DEF RT!Feed, RT!LoadAndDelete
<1>9. ASSUME NEW i \in RT!Ids, RT!RangeVisit(i) PROVE StillDue'
  BY <1>9 DEF RT!RangeVisit, RT!TakeOut, RT!LoadAndDelete
<1>10. CASE RT!RangeBegin
  BY <1>10 DEF RT!RangeBegin
<1> QED
  BY <1>2, <1>3, <1>4, <1>5, <1>6, <1>7, <1>8, <1>9, <1>10
     DEF TableAct, RT!vars, RT!NewMessage, RT!RangeEnd, RT!RangeClose

\* The network is closed before the ping channel, and neither opens again.
LEMMA NetStaysClosed ==
    [HB!Next]_HB!vars => (netClosed => netClosed') /\ (pingClosed' => pingClosed \/ netClosed)
  BY DEF HB!Next, HB!Ping, HB!Call, HB!Lock, HB!Send, HB!SendFails, HB!CtxDone,
         HB!ReceiveClosed, HB!Receive, HB!Return, HB!Echo, HB!Handle, HB!HandlerPanics,
         HB!CloseNet, HB!ClosePingCh, HB!vars, HB!closeVars

\* closeOnce is done by the caller that ran the Range to its end.
LEMMA OnceIsDoneAtEnd == [Next]_vars => once' = once \/ once' = "running" \/ RT!RangeEnd
<1> SUFFICES ASSUME [Next]_vars PROVE once' = once \/ once' = "running" \/ RT!RangeEnd
  OBVIOUS
<1> USE DEF closeVars
<1>1. CASE SendTransportInit
  BY <1>1 DEF SendTransportInit
<1>2. ASSUME NEW r \in Requests, Request(r) PROVE once' = once
  BY <1>2 DEF Request, RequestStarts, RequestSent, RequestNotSent, RequestEnds
<1>3. ASSUME NEW p \in Pingers, Ping(p) PROVE once' = once
  BY <1>3 DEF Ping, PingCalled, PingLocks, PingSent, PingNotSent, PingEnds
<1>4. CASE HandlerPanics \/ CallbackReturns \/ ReplyTaken \/ Peer
  BY <1>4 DEF HandlerPanics, CallbackReturns, ReplyTaken, Peer, PeerRejects, PeerLeaves,
              PeerSends, PeerEchoes
<1>5. CASE Read
  BY <1>5 DEF Read, ReadHeartbeat, ReadReply, ReadOther, ReadRejection, ReadFails
<1>6. ASSUME NEW c \in Closers \cup {Reader}, Close(c) PROVE once' = once \/ once' = "running"
  BY <1>6 DEF Close, CloseConn, EnterOnce, CloseReturns
<1>7. CASE OnceBody
  BY <1>7 DEF OnceBody, ClosePings, CloseTable, OnceDone
<1>8. CASE UNCHANGED vars
  BY <1>8 DEF vars
<1> QED BY <1>1, <1>2, <1>3, <1>4, <1>5, <1>6, <1>7, <1>8 DEF Next

\* pingCh, then the Range, then the end of closeOnce.
LEMMA CloseOrderStep ==
    /\ RT!IndInv /\ CloseOrder /\ TableAct /\ [HB!Next]_HB!vars
    /\ once' = once \/ once' = "running" \/ RT!RangeEnd
    => CloseOrder'
<1> SUFFICES ASSUME RT!IndInv, CloseOrder, TableAct, [HB!Next]_HB!vars,
                    once' = once \/ once' = "running" \/ RT!RangeEnd
             PROVE  CloseOrder'
  OBVIOUS
<1>1. RT!TypeOK
  BY DEF RT!IndInv
<1>2. (netClosed => netClosed') /\ (pingClosed' => netClosed')
  BY NetStaysClosed DEF CloseOrder
<1> USE <1>1, NameAssumption DEF CloseOrder, RT!TypeOK, RT!Actors, RT!callVars, RT!rangeVars
<1>3. /\ closing' # "no" => netClosed'
      /\ closing' = "no" => visited' = {}
      /\ closing' = "over" => due' \subseteq visited' /\ hand'[RangeCloser] = NoReq
      /\ closing = "over" => closing' = "over"
  <2> DEFINE Kept == /\ closing' # "no" => netClosed'
                     /\ closing' = "no" => visited' = {}
                     /\ closing' = "over" => due' \subseteq visited' /\ hand'[RangeCloser] = NoReq
                     /\ closing = "over" => closing' = "over"
  <2>1. UNCHANGED <<hand, closing, due, visited>> => Kept
    BY <1>2
  <2>2. ASSUME NEW r \in Requests, RT!PendingLookup(r) \/ RT!PendingClose(r) PROVE Kept
    BY <2>2, <1>2 DEF RT!PendingLookup, RT!PendingClose, RT!LoadAndDelete, RT!CloseChannel
  <2>3. CASE RT!Deliver(Reader)
    BY <2>3, <1>2 DEF RT!Deliver, RT!Leave
  <2>4. ASSUME NEW m \in Messages, RT!Feed(Reader, m) PROVE Kept
    BY <2>4, <1>2 DEF RT!Feed, RT!LoadAndDelete
  <2>5. ASSUME NEW i \in RT!Ids, RT!RangeVisit(i) PROVE Kept
    BY <2>5, <1>2 DEF RT!RangeVisit, RT!TakeOut, RT!LoadAndDelete
  <2>6. CASE pingClosed /\ RT!RangeBegin
    BY <2>6, <1>2 DEF RT!RangeBegin
  <2>7. CASE RT!RangeClose \/ RT!RangeEnd
    BY <2>7, <1>2 DEF RT!RangeClose, RT!RangeEnd, RT!CloseChannel
  <2>8. Kept
    BY <2>1, <2>2, <2>3, <2>4, <2>5, <2>6, <2>7
       DEF TableAct, RT!vars, RT!NewMessage, RT!Put, RT!SendOk, RT!SendErr, RT!CtxDone,
           RT!Cancelled, RT!Leave
  <2> QED BY <2>8
<1>4. once' = "done" => closing' = "over"
  BY <1>3 DEF RT!RangeEnd
<1> QED BY <1>2, <1>3, <1>4

-----------------------------------------------------------------------------
(* What a step does to the messages on their way.                          *)

Quiet == UNCHANGED <<inbox, posted, carry>>
Takes(f)   == Reading(f) /\ posted' = posted
Brings(f)  == Arriving(f) /\ carry' = carry

Flow ==
    \/ Quiet
    \/ \E f \in Frames : f.kind # "message" /\ Takes(f) /\ carry' = carry
    \/ \E m \in Messages : Takes(Frame("message", m)) /\ (carry' = carry \/ RT!Feed(Reader, m))
    \/ UNCHANGED <<inbox, posted>> /\ RT!Deliver(Reader)
    \/ UNCHANGED <<posted, carry>> /\ inbox' = <<>>
    \/ \E f \in Frames : f.kind # "message" /\ Brings(f) /\ posted' = posted
    \/ \E m \in Messages : /\ Brings(Frame("message", m))
                           /\ m \notin posted /\ RelatesTo[m] \in sentIds \cup {NoId}
                           /\ posted' = posted \cup {m}

LEMMA Flows == TypeOK /\ InboxOnce /\ HB!IndInv /\ [Next]_vars => Flow
<1> SUFFICES ASSUME TypeOK, InboxOnce, HB!IndInv, [Next]_vars PROVE Flow
  OBVIOUS
<1> USE DEF peerVars
<1>1. Quiet => Flow
  BY DEF Flow
<1>2. tableVars' = tableVars => carry' = carry
  BY DEF tableVars
<1>3. CASE SendTransportInit
  BY <1>3, <1>1 DEF SendTransportInit, RT!NewMessage, Quiet
<1>4. ASSUME NEW r \in Requests, Request(r) PROVE Flow
  BY <1>4, <1>1
     DEF Request, RequestStarts, RequestSent, RequestNotSent, RequestEnds, RT!Put, RT!SendOk,
         RT!SendErr, RT!CtxDone, RT!Cancelled, RT!PendingLookup, RT!PendingClose, Quiet
<1>5. ASSUME NEW p \in Pingers, Ping(p) PROVE Flow
  BY <1>5, <1>1, <1>2
     DEF Ping, PingCalled, PingLocks, PingSent, PingNotSent, PingEnds, RT!NewMessage, Quiet
<1>6. CASE HandlerPanics \/ CallbackReturns
  BY <1>6, <1>1, <1>2 DEF HandlerPanics, CallbackReturns, Quiet
<1>7. CASE Read
  <2>1. CASE ReadHeartbeat
    <3>1. \E f \in Frames : Reading(f) /\ f.kind = "heartbeat"
      BY <2>1, ReadingKind DEF ReadHeartbeat
    <3> QED BY <2>1, <3>1, <1>2 DEF ReadHeartbeat, Flow, Takes
  <2>2. CASE ReadRejection
    <3>1. \E f \in Frames : Reading(f) /\ f.kind = "rejection"
      BY <2>2, ReadingKind DEF ReadRejection
    <3> QED BY <2>2, <3>1, <1>2 DEF ReadRejection, Flow, Takes
  <2>3. CASE ReadReply \/ ReadOther
    <3>1. PICK f \in Frames : Reading(f) /\ f = Frame("message", f.body) /\ f.kind = "message"
                              /\ f.body = Head(inbox).body
      BY <2>3, ReadingKind DEF ReadReply, ReadOther
    <3>2. f.body \in Messages /\ Reading(Frame("message", f.body))
      BY <3>1, FrameIs
    <3>3. posted' = posted /\ (carry' = carry \/ RT!Feed(Reader, f.body))
      BY <2>3, <3>1, <1>2 DEF ReadReply, ReadOther
    <3> QED BY <3>2, <3>3 DEF Flow, Takes
  <2>4. CASE ReadFails
    BY <2>4, <1>1, <1>2 DEF ReadFails, Quiet
  <2> QED BY <1>7, <2>1, <2>2, <2>3, <2>4 DEF Read
<1>8. CASE ReplyTaken
  BY <1>8 DEF ReplyTaken, Flow
<1>9. ASSUME NEW c \in Closers \cup {Reader}, Close(c) PROVE Flow
  <2>1. CASE CloseConn(c)
    BY <2>1, <1>1, <1>2 DEF CloseConn, Quiet, Flow
  <2>2. CASE EnterOnce(c) \/ CloseReturns(c)
    BY <2>2, <1>1, <1>2 DEF EnterOnce, CloseReturns, Quiet
  <2> QED BY <1>9, <2>1, <2>2 DEF Close
<1>10. CASE OnceBody
  BY <1>10, <1>1, <1>2
     DEF OnceBody, ClosePings, CloseTable, OnceDone, RT!RangeBegin, RT!RangeClose, RT!RangeVisit,
         RT!RangeEnd, Quiet
<1>11. CASE Peer
  <2>1. ASSUME NEW m \in Messages, PeerSends(m) PROVE Flow
    <3>1. Frame("message", m) \in Frames /\ Frame("message", m) \notin Elems(inbox)
      BY <2>1, UnreadIs DEF PeerSends, Frames, InboxOnce
    <3>2. Arriving(Frame("message", m))
      BY <2>1, <3>1, AppendArrives DEF PeerSends
    <3> QED BY <2>1, <3>2, <1>2 DEF PeerSends, Flow, Brings
  <2>2. ASSUME NEW t \in Ticks, PeerEchoes(t) PROVE Flow
    <3>1. Frame("heartbeat", t) \in Frames /\ Frame("heartbeat", t).kind # "message"
      BY FramesDiffer DEF Frames
    <3>2. t \in hbRequests /\ hbRequests \cap hbReplies = {}
      BY <2>2 DEF PeerEchoes, HB!Echo, HB!IndInv, HB!TickOrder
    <3>3. Frame("heartbeat", t) \notin Elems(inbox)
      BY <3>2, UnreadIs
    <3>4. Arriving(Frame("heartbeat", t))
      BY <2>2, <3>1, <3>3, AppendArrives DEF PeerEchoes
    <3> QED BY <2>2, <3>1, <3>4, <1>2 DEF PeerEchoes, Flow, Brings
  <2>3. CASE PeerRejects
    <3>1. Frame("rejection", NoMsg) \notin Elems(inbox)
      BY <2>3, FramesDiffer DEF PeerRejects, Elems
    <3>2. Arriving(Frame("rejection", NoMsg))
      BY <2>3, <3>1, AppendArrives, RejectionIs DEF PeerRejects
    <3>3. Frame("rejection", NoMsg).kind # "message"
      BY FramesDiffer
    <3> QED BY <2>3, <3>2, <3>3, RejectionIs, <1>2 DEF PeerRejects, Flow, Brings
  <2>4. CASE PeerLeaves
    BY <2>4, <1>1, <1>2 DEF PeerLeaves, Quiet
  <2> QED BY <1>11, <2>1, <2>2, <2>3, <2>4 DEF Peer
<1>12. CASE UNCHANGED vars
  BY <1>12, <1>1, <1>2 DEF vars, Quiet
<1> QED
  BY <1>3, <1>4, <1>5, <1>6, <1>7, <1>8, <1>9, <1>10, <1>11, <1>12 DEF Next

\* What each of those does to the messages nobody has received.
UnreadFlow ==
    \/ UNCHANGED <<Unread, posted>>
    \/ \E m \in Messages : /\ m \notin posted /\ RelatesTo[m] \in sentIds \cup {NoId}
                           /\ posted' = posted \cup {m} /\ Unread' = Unread \cup {m}
    \/ posted' = posted /\ Unread' \subseteq Unread

\* Reading a reply moves it into the read loop's hands, and delivering it takes
\* it out of them.
LEMMA UnreadMoves ==
    RT!IndInv /\ InboxOnce /\ CarryHeld =>
        /\ Quiet => Unread' = Unread
        /\ \A f : Reading(f) /\ f.kind # "message" /\ carry' = carry => Unread' = Unread
        /\ \A f : Arriving(f) /\ f.kind # "message" /\ carry' = carry => Unread' = Unread
        /\ \A m \in Messages : Reading(Frame("message", m)) /\ carry' = carry
                                   => Unread' = Unread \ {m}
        /\ \A m \in Messages : Reading(Frame("message", m)) /\ RT!Feed(Reader, m)
                                   => Unread' = Unread
        /\ \A m \in Messages : Arriving(Frame("message", m)) /\ carry' = carry
                                   => Unread' = Unread \cup {m}
        /\ inbox' = inbox /\ RT!Deliver(Reader) => Unread' = Unread \ {carry[Reader]}
        /\ inbox' = <<>> /\ carry' = carry => Unread' \subseteq Unread
<1> SUFFICES ASSUME RT!IndInv, InboxOnce, CarryHeld
             PROVE  /\ Quiet => Unread' = Unread
                    /\ \A f : Reading(f) /\ f.kind # "message" /\ carry' = carry => Unread' = Unread
                    /\ \A f : Arriving(f) /\ f.kind # "message" /\ carry' = carry => Unread' = Unread
                    /\ \A m \in Messages : Reading(Frame("message", m)) /\ carry' = carry
                                               => Unread' = Unread \ {m}
                    /\ \A m \in Messages : Reading(Frame("message", m)) /\ RT!Feed(Reader, m)
                                               => Unread' = Unread
                    /\ \A m \in Messages : Arriving(Frame("message", m)) /\ carry' = carry
                                               => Unread' = Unread \cup {m}
                    /\ inbox' = inbox /\ RT!Deliver(Reader) => Unread' = Unread \ {carry[Reader]}
                    /\ inbox' = <<>> /\ carry' = carry => Unread' \subseteq Unread
  OBVIOUS
<1> USE UnreadIs, UnreadIsAfter, FramesDiffer, NameAssumption
<1>1. RT!TypeOK
  BY DEF RT!IndInv
<1>2. Quiet => Unread' = Unread
  BY DEF Quiet
<1>3. ASSUME NEW f, Reading(f), f.kind # "message", carry' = carry PROVE Unread' = Unread
  BY <1>3 DEF Reading
<1>4. ASSUME NEW f, Arriving(f), f.kind # "message", carry' = carry PROVE Unread' = Unread
  BY <1>4 DEF Arriving
<1>5. ASSUME NEW m \in Messages, Reading(Frame("message", m)), carry' = carry
      PROVE  Unread' = Unread \ {m}
  BY <1>5 DEF Reading, InboxOnce
<1>6. ASSUME NEW m \in Messages, Reading(Frame("message", m)), RT!Feed(Reader, m)
      PROVE  Unread' = Unread
  <2>1. carry[Reader] = NoMsg /\ carry'[Reader] = m
    BY <1>1, <1>6 DEF RT!Feed, CarryHeld, RT!TypeOK
  <2> QED BY <1>6, <2>1 DEF Reading
<1>7. ASSUME NEW m \in Messages, Arriving(Frame("message", m)), carry' = carry
      PROVE  Unread' = Unread \cup {m}
  BY <1>7 DEF Arriving
<1>8. ASSUME inbox' = inbox, RT!Deliver(Reader) PROVE Unread' = Unread \ {carry[Reader]}
  <2>1. carry'[Reader] = NoMsg
    BY <1>1, <1>8 DEF RT!Deliver, RT!TypeOK
  <2> QED BY <1>8, <2>1 DEF InboxOnce
<1>9. ASSUME inbox' = <<>>, carry' = carry PROVE Unread' \subseteq Unread
  BY <1>9 DEF Elems
<1> QED BY <1>2, <1>3, <1>4, <1>5, <1>6, <1>7, <1>8, <1>9

LEMMA UnreadFlows == RT!IndInv /\ InboxOnce /\ CarryHeld /\ Flow => UnreadFlow
  BY UnreadMoves, Zenon DEF Flow, UnreadFlow, Takes, Brings, Quiet

\* No frame is doubled, and what the read loop carries it has read.
LEMMA InboxOnceStep == RT!IndInv /\ InboxOnce /\ CarryHeld /\ Flow => InboxOnce'
<1> SUFFICES ASSUME RT!IndInv, InboxOnce, CarryHeld, Flow PROVE InboxOnce'
  OBVIOUS
<1>1. RT!TypeOK
  BY DEF RT!IndInv
<1>2. Unread' \subseteq posted'
  BY UnreadFlows DEF UnreadFlow, InboxOnce
<1>3. /\ inbox' \in Seq(Frames)
      /\ Once(inbox')
      /\ Frame("message", carry'[Reader]) \notin Elems(inbox')
  <2> DEFINE Fine == /\ inbox' \in Seq(Frames)
                     /\ Once(inbox')
                     /\ Frame("message", carry'[Reader]) \notin Elems(inbox')
  <2>1. ASSUME Quiet PROVE Fine
    BY <2>1 DEF Quiet, InboxOnce, Once
  <2>2. ASSUME NEW f \in Frames, Takes(f), carry' = carry PROVE Fine
    BY <2>2 DEF Takes, Reading, InboxOnce
  <2>3. ASSUME NEW m \in Messages, Takes(Frame("message", m)), RT!Feed(Reader, m) PROVE Fine
    <3>1. carry'[Reader] = m
      BY <1>1, <2>3 DEF RT!Feed, RT!TypeOK
    <3> QED BY <2>3, <3>1 DEF Takes, Reading
  <2>4. ASSUME UNCHANGED <<inbox, posted>> /\ RT!Deliver(Reader) PROVE Fine
    <3>1. carry'[Reader] = NoMsg
      BY <1>1, <2>4 DEF RT!Deliver, RT!TypeOK
    <3>2. \A f \in Frames : f # Frame("message", NoMsg)
      BY FramesDiffer, NameAssumption DEF Frames
    <3>3. \A f \in Elems(inbox) : f \in Frames
      BY DEF Elems, InboxOnce
    <3> QED BY <2>4, <3>1, <3>2, <3>3 DEF InboxOnce, Once
  <2>5. ASSUME UNCHANGED <<posted, carry>> /\ inbox' = <<>> PROVE Fine
    BY <2>5 DEF Elems, Once
  <2>6. ASSUME NEW f \in Frames, Brings(f), f # Frame("message", carry[Reader]) PROVE Fine
    BY <2>6 DEF Brings, Arriving, InboxOnce
  <2>7. ASSUME NEW m \in Messages, m \notin posted, Brings(Frame("message", m)) PROVE Fine
    <3>1. m # carry[Reader]
      BY <2>7, UnreadIs DEF InboxOnce
    <3> QED BY <2>6, <2>7, <3>1, FramesDiffer DEF Brings, Arriving
  <2>8. ASSUME NEW f \in Frames, f.kind # "message", Brings(f) PROVE Fine
    BY <2>6, <2>8, FramesDiffer
  <2>9. \A m \in Messages : Frame("message", m) \in Frames
    BY DEF Frames
  <2> HIDE DEF Fine
  <2>10. ASSUME NEW m \in Messages, Takes(Frame("message", m)), carry' = carry PROVE Fine
    BY <2>2, <2>9, <2>10
  <2>11. Fine
    BY <2>1, <2>2, <2>3, <2>4, <2>5, <2>7, <2>8, <2>10, Zenon DEF Flow
  <2> QED BY <2>11 DEF Fine
<1> QED BY <1>2, <1>3 DEF InboxOnce

\* An id becomes known to the peer with the request that bears it.
LEMMA SentIdsGrow ==
    [Next]_vars => \/ sentIds' = sentIds
                   \/ \E r \in Requests : RT!SendOk(r) /\ sentIds' = sentIds \cup {idOf[r]}
<1> SUFFICES ASSUME [Next]_vars
             PROVE  \/ sentIds' = sentIds
                    \/ \E r \in Requests : RT!SendOk(r) /\ sentIds' = sentIds \cup {idOf[r]}
  OBVIOUS
<1> USE DEF peerVars
<1>1. CASE SendTransportInit
  BY <1>1 DEF SendTransportInit
<1>2. ASSUME NEW r \in Requests, Request(r)
      PROVE  \/ sentIds' = sentIds
             \/ RT!SendOk(r) /\ sentIds' = sentIds \cup {idOf[r]}
  BY <1>2 DEF Request, RequestStarts, RequestSent, RequestNotSent, RequestEnds
<1>3. ASSUME NEW p \in Pingers, Ping(p) PROVE sentIds' = sentIds
  BY <1>3 DEF Ping, PingCalled, PingLocks, PingSent, PingNotSent, PingEnds
<1>4. CASE HandlerPanics \/ CallbackReturns \/ ReplyTaken \/ Peer
  BY <1>4 DEF HandlerPanics, CallbackReturns, ReplyTaken, Peer, PeerRejects, PeerLeaves,
              PeerSends, PeerEchoes
<1>5. CASE Read
  BY <1>5 DEF Read, ReadHeartbeat, ReadReply, ReadOther, ReadRejection, ReadFails
<1>6. ASSUME NEW c \in Closers \cup {Reader}, Close(c) PROVE sentIds' = sentIds
  BY <1>6 DEF Close, CloseConn, EnterOnce, CloseReturns
<1>7. CASE OnceBody
  BY <1>7 DEF OnceBody, ClosePings, CloseTable, OnceDone
<1>8. CASE UNCHANGED vars
  BY <1>8 DEF vars
<1> QED BY <1>1, <1>2, <1>3, <1>4, <1>5, <1>6, <1>7, <1>8 DEF Next

\* A request that was written stays one, under its id.
Written(s)   == pc[s] \notin {"idle", "sending"} /\ outcome[s] # "sendErr"

LEMMA WrittenStays ==
    ASSUME RT!IndInv, TableAct, NEW s \in Requests, Written(s)
    PROVE  Written(s)' /\ idOf'[s] = idOf[s]
<1>1. RT!TypeOK
  BY DEF RT!IndInv
<1> USE <1>1 DEF Written, RT!TypeOK, RT!Stages, RT!callVars, RT!rangeVars
<1>2. UNCHANGED <<pc, outcome, idOf>> => Written(s)' /\ idOf'[s] = idOf[s]
  OBVIOUS
<1>3. ASSUME NEW r \in Requests, RT!PendingLookup(r) \/ RT!PendingClose(r)
      PROVE  Written(s)' /\ idOf'[s] = idOf[s]
  BY <1>3 DEF RT!PendingLookup, RT!PendingClose, RT!InClose, RT!AfterClose
<1>4. CASE RT!Deliver(Reader)
  BY <1>4 DEF RT!Deliver, RT!Leave
<1>5. ASSUME NEW r \in Requests,
             RT!SendErr(r) \/ RT!CtxDone(r) \/ RT!Cancelled(r) \/ RT!SendOk(r)
      PROVE  Written(s)' /\ idOf'[s] = idOf[s]
  BY <1>5 DEF RT!SendErr, RT!CtxDone, RT!Cancelled, RT!SendOk, RT!Leave, RT!DeferredClose
<1>6. ASSUME NEW r \in Requests, RT!Put(r) PROVE Written(s)' /\ idOf'[s] = idOf[s]
  BY <1>6 DEF RT!Put
<1> QED
  BY <1>2, <1>3, <1>4, <1>5, <1>6
     DEF TableAct, RT!vars, RT!NewMessage, RT!Feed, RT!RangeVisit, RT!RangeBegin, RT!RangeEnd,
         RT!RangeClose

\* The peer relates to ids it has received, and it keeps them.
LEMMA AskedForStep ==
    RT!IndInv /\ AskedFor /\ TableAct /\ UnreadFlow
    /\ (\/ sentIds' = sentIds
        \/ \E r \in Requests : RT!SendOk(r) /\ sentIds' = sentIds \cup {idOf[r]})
    => AskedFor'
<1> SUFFICES ASSUME RT!IndInv, AskedFor, TableAct, UnreadFlow,
                    \/ sentIds' = sentIds
                    \/ \E r \in Requests : RT!SendOk(r) /\ sentIds' = sentIds \cup {idOf[r]}
             PROVE  AskedFor'
  OBVIOUS
<1>1. sentIds \subseteq sentIds'
  OBVIOUS
<1>2. \A m \in Unread' : RelatesTo[m] \in sentIds' \cup {NoId}
  BY <1>1 DEF UnreadFlow, AskedFor
<1>3. ASSUME NEW i \in sentIds' PROVE \E s \in Requests : idOf'[s] = i /\ Written(s)'
  <2>1. CASE i \in sentIds
    <3>1. PICK s \in Requests : idOf[s] = i /\ Written(s)
      BY <2>1 DEF AskedFor, Written
    <3> QED BY <3>1, WrittenStays
  <2>2. ASSUME NEW r \in Requests, RT!SendOk(r), i = idOf[r]
        PROVE  idOf'[r] = i /\ Written(r)'
    BY <2>2 DEF RT!SendOk, RT!Leave, RT!IndInv, RT!TypeOK, Written
  <2> QED BY <1>3, <2>1, <2>2
<1> QED BY <1>2, <1>3 DEF AskedFor, Written

\* No step breaks the types of what the connection adds to its parts.
LEMMA TypeStep ==
    IInv /\ RT!IndInv' /\ HB!IndInv' /\ Flow /\ [Next]_vars => TypeOK'
<1> SUFFICES ASSUME IInv, RT!IndInv', HB!IndInv', Flow, [Next]_vars PROVE TypeOK'
  OBVIOUS
<1>1. RT!TypeOK' /\ HB!TypeOK'
  BY DEF RT!IndInv, HB!IndInv
<1>2. Len(inbox') <= MaxInbox
  <2>1. Len(inbox) <= MaxInbox
    BY DEF IInv, TypeOK
  <2>2. inbox' = <<>> => Len(inbox') <= MaxInbox
    BY BoundAssumption
  <2> QED BY <2>1, <2>2 DEF Flow, Quiet, Takes, Brings, Reading, Arriving
<1>3. posted' \subseteq Messages
  BY DEF Flow, Quiet, Takes, Brings, IInv, TypeOK
<1>4. sentIds' \subseteq RT!Ids
  <2>1. ASSUME NEW r \in Requests, RT!SendOk(r) PROVE idOf[r] \in RT!Ids
    BY <2>1 DEF RT!SendOk, RT!Leave, IInv, RT!IndInv, RT!NamedIds, RT!TypeOK
  <2> QED BY <2>1, SentIdsGrow DEF IInv, TypeOK
<1>5. /\ reader' \in {"tapping", "reading", "feeding", "callback", "closing", "exited"}
      /\ fatalerr' \in BOOLEAN /\ peerGone' \in BOOLEAN
      /\ closer' \in [Closers \cup {Reader} -> {"idle", "atOnce", "inside", "closed"}]
      /\ once' \in {"new", "running", "done"}
  <2> USE DEF TypeOK, peerVars, closeVars
  <2>0. TypeOK
    BY DEF IInv
  <2> DEFINE Fine ==
        /\ reader' \in {"tapping", "reading", "feeding", "callback", "closing", "exited"}
        /\ fatalerr' \in BOOLEAN /\ peerGone' \in BOOLEAN
        /\ closer' \in [Closers \cup {Reader} -> {"idle", "atOnce", "inside", "closed"}]
        /\ once' \in {"new", "running", "done"}
  <2>1. UNCHANGED <<reader, fatalerr, peerGone, closer, once>> => Fine
    BY <2>0
  <2>2. ASSUME SendTransportInit \/ CallbackReturns \/ ReplyTaken PROVE Fine
    BY <2>0, <2>2 DEF SendTransportInit, CallbackReturns, ReplyTaken
  <2>3. ASSUME Read PROVE Fine
    BY <2>0, <2>3, <2>1
       DEF Read, ReadHeartbeat, ReadReply, ReadOther, ReadRejection, ReadFails, LeavesLoop
  <2>4. ASSUME NEW c \in Closers \cup {Reader}, Close(c) PROVE Fine
    BY <2>0, <2>4 DEF Close, CloseConn, EnterOnce, CloseReturns
  <2>5. ASSUME OnceBody PROVE Fine
    BY <2>0, <2>5 DEF OnceBody, ClosePings, CloseTable, OnceDone
  <2>6. ASSUME Peer PROVE Fine
    BY <2>0, <2>6, <2>1 DEF Peer, PeerRejects, PeerLeaves, PeerSends, PeerEchoes
  <2>7. ASSUME NEW r \in Requests, Request(r) PROVE Fine
    BY <2>7, <2>1 DEF Request, RequestStarts, RequestSent, RequestNotSent, RequestEnds
  <2>8. ASSUME NEW p \in Pingers, Ping(p) PROVE Fine
    BY <2>8, <2>1 DEF Ping, PingCalled, PingLocks, PingSent, PingNotSent, PingEnds
  <2>9. ASSUME HandlerPanics PROVE Fine
    BY <2>9, <2>1 DEF HandlerPanics
  <2>10. ASSUME UNCHANGED vars PROVE Fine
    BY <2>10, <2>1 DEF vars
  <2> HIDE DEF Fine, TypeOK, peerVars, closeVars
  <2>11. Fine
    BY <2>2, <2>3, <2>4, <2>5, <2>6, <2>7, <2>8, <2>9, <2>10, Zenon DEF Next
  <2> QED BY <2>11 DEF Fine
<1> QED BY <1>1, <1>2, <1>3, <1>4, <1>5 DEF TypeOK

LEMMA Starts == Init => IInv
<1> SUFFICES ASSUME Init PROVE IInv
  OBVIOUS
<1>1. RT!IndInv /\ HB!IndInv
  BY TableStarts, HeartbeatStarts DEF Init
<1>2. RT!TypeOK /\ HB!TypeOK
  BY <1>1 DEF RT!IndInv, HB!IndInv
<1>3. inbox = <<>> /\ inbox \in Seq(Frames) /\ Len(inbox) = 0 /\ Elems(inbox) = {}
  BY DEF Init, Elems
<1>4. /\ carry[Reader] = NoMsg /\ hand[Reader] = NoReq /\ closing = "no" /\ visited = {}
      /\ \A r \in Requests : pc[r] = "idle" /\ outcome[r] = "none"
  BY DEF Init, RT!Init, RT!Actors
<1>5. Unread = {}
  BY <1>3, <1>4, UnreadIs, NameAssumption
<1>6. TypeOK
  <2>1. closer \in [Closers \cup {Reader} -> {"idle", "atOnce", "inside", "closed"}]
    BY DEF Init
  <2>2. /\ reader = "tapping" /\ once = "new" /\ fatalerr = FALSE /\ peerGone = FALSE
        /\ sentIds = {} /\ posted = {}
    BY DEF Init
  <2>3. Len(inbox) <= MaxInbox
    BY <1>3, BoundAssumption
  <2> QED BY <1>2, <2>1, <2>2, <2>3 DEF TypeOK
<1>7. InboxOnce
  BY <1>3, <1>5 DEF InboxOnce, Once, Init
<1>8. CarryHeld /\ Decided /\ AskedFor /\ StillDue
  BY <1>4, <1>5 DEF CarryHeld, Decided, AskedFor, StillDue, Init
<1>9. CloseOrder
  BY <1>4 DEF CloseOrder, Init, HB!Init
<1> QED BY <1>1, <1>6, <1>7, <1>8, <1>9 DEF IInv

LEMMA Steps == IInv /\ [Next]_vars => IInv'
<1> SUFFICES ASSUME IInv, [Next]_vars PROVE IInv'
  OBVIOUS
<1>1. /\ RT!IndInv /\ HB!IndInv /\ TypeOK
      /\ InboxOnce /\ CarryHeld /\ AskedFor /\ Decided /\ CloseOrder /\ StillDue
  BY DEF IInv
<1>2. /\ TableAct /\ [RT!Next]_RT!vars /\ [HB!Next]_HB!vars
      /\ Flow
  BY <1>1, TableActs, TableStep, HeartbeatStep, Flows
<1>3. RT!IndInv' /\ HB!IndInv' /\ UnreadFlow
  BY <1>1, <1>2, TableKept, HeartbeatKept, UnreadFlows
<1>4. TypeOK'
  BY <1>2, <1>3, TypeStep
<1>5. InboxOnce' /\ CarryHeld' /\ Decided' /\ StillDue'
  BY <1>1, <1>2, <1>3, InboxOnceStep, CarryHeldStep, DecidedStep, StillDueStep
<1>6. AskedFor'
  BY <1>1, <1>2, <1>3, AskedForStep, SentIdsGrow
<1>7. CloseOrder'
  BY <1>1, <1>2, CloseOrderStep, OnceIsDoneAtEnd
<1> QED BY <1>3, <1>4, <1>5, <1>6, <1>7 DEF IInv

-----------------------------------------------------------------------------
(* The theorems.                                                           *)

\* The invariant holds in every behaviour of a connection, for any calls, pings
\* and unread frames (conn.go).
THEOREM Invariance == Spec => []IInv
  BY Starts, Steps, PTL DEF Spec

\* Every variable of a connection keeps its type in every behaviour.
THEOREM TypeCorrect == Spec => []TypeOK
  BY Invariance, PTL DEF IInv

\* The goroutines of a connection use its request table as RequestTable says,
\* so every theorem of RequestTableProofs holds of it (conn.go:291-316, :246-285).
THEOREM TableIsRespected == Spec => RT!Spec
<1>1. Init => RT!Init
  BY DEF Init
<1>2. IInv /\ [Next]_vars => [RT!Next]_RT!vars
  BY TableStep DEF IInv
<1> QED BY <1>1, <1>2, Invariance, PTL DEF Spec, RT!Spec

\* They use the heartbeat as Heartbeat says: the stream that carries messages,
\* rejections and echoes in one order delivers each echo once (conn.go:153-198).
THEOREM HeartbeatIsRespected == Spec => HB!Spec
<1>1. Init => HB!Init
  BY DEF Init
<1>2. IInv /\ [Next]_vars => [HB!Next]_HB!vars
  BY HeartbeatStep DEF IInv
<1> QED BY <1>1, <1>2, Invariance, PTL DEF Spec, HB!Spec

\* After Close has run to its end no call waits for what cannot come: the
\* entries the Range could miss are of calls whose write fails (conn.go:132-137).
THEOREM CloseLeavesNoWaiter == Spec => []NoLateWaiter
<1> SUFFICES ASSUME IInv PROVE NoLateWaiter
  BY Invariance, PTL
<1> SUFFICES ASSUME once = "done", NEW r \in Requests, pc[r] = "waiting", ~RT!SharesId(r)
             PROVE  r \in closedCh \/ hand[Reader] = r
  BY DEF NoLateWaiter
<1>1. /\ RT!TypeOK /\ RT!HandKnown /\ RT!NoOrphan /\ RT!NamedIds
      /\ CloseOrder /\ StillDue
  BY DEF IInv, RT!IndInv
<1>2. closing = "over" /\ due \subseteq visited /\ hand[RangeCloser] = NoReq
  BY <1>1 DEF CloseOrder
<1>3. table[idOf[r]] # r
  BY <1>1, <1>2 DEF StillDue
<1>4. ASSUME NEW s \in Requests, hand[s] = r PROVE FALSE
  <2>1. hand[s] # NoReq
    BY <1>4, NameAssumption
  <2>2. RT!InClose(s) /\ idOf[r] = idOf[s]
    BY <1>1, <1>4, <2>1 DEF RT!HandKnown
  <2>3. s # r
    BY <2>2 DEF RT!InClose
  <2> QED BY <2>2, <2>3 DEF RT!SharesId
<1>5. r \in closedCh \/ \E a \in Requests \cup {Reader} \cup {RangeCloser} : hand[a] = r
  BY <1>1, <1>3 DEF RT!NoOrphan, RT!HeldBy, RT!Actors
<1>6. hand[RangeCloser] # r
  BY <1>2, NameAssumption
<1> QED BY <1>4, <1>5, <1>6

\* Wait is stuck with an answer nobody takes only when the context of that call
\* expired between Feed's lookup and its send, or its id was shared
\* (requesttable.go:71-74 against :37).
THEOREM OnlyExpiryWedges == Spec => []OnlyCancellationWedgesWait
<1> SUFFICES ASSUME IInv PROVE OnlyCancellationWedgesWait
  BY Invariance, PTL
<1> SUFFICES ASSUME NEW r \in Requests, hand[Reader] = r, ~RT!SharesId(r),
                    pc[r] \in {"waitClose", "replyClose", "done"}
             PROVE  outcome[r] = "ctx"
  BY DEF OnlyCancellationWedgesWait
<1>1. /\ RT!TypeOK /\ RT!HandKnown /\ RT!SingleOwner
      /\ AskedFor /\ Decided
  BY DEF IInv, RT!IndInv
<1>2. hand[Reader] # NoReq /\ Reader \in RT!Actors
  BY NameAssumption DEF RT!Actors
<1>3. /\ carry[Reader] \in Messages
      /\ RelatesTo[carry[Reader]] = idOf[r]
      /\ idOf[r] \in RT!Ids
  BY <1>1, <1>2, NameAssumption DEF RT!HandKnown, RT!TypeOK
<1>4. carry[Reader] \in Unread
  BY <1>3 DEF Unread
<1>5. idOf[r] \in sentIds
  BY <1>1, <1>3, <1>4, NameAssumption DEF AskedFor
<1>6. PICK s \in Requests : idOf[s] = idOf[r] /\ outcome[s] # "sendErr"
  BY <1>1, <1>5 DEF AskedFor
<1>7. outcome[r] # "sendErr"
  BY <1>6 DEF RT!SharesId
<1>8. outcome[r] # "none"
  BY <1>1 DEF Decided
<1>9. outcome[r] # "reply" /\ outcome[r] # "cancelled"
  BY <1>1, <1>2 DEF RT!SingleOwner, RT!HeldBy, Decided
<1> QED BY <1>1, <1>7, <1>8, <1>9 DEF RT!TypeOK, RT!Outcomes

-----------------------------------------------------------------------------
(* RequestReply behaves as CallSpec says.                                  *)

Status == [r \in Requests |-> CallStatus(r)]

\* The abstract steps, on the variables Calls maps them to.
\* A call begins.
LEMMA AbstractStart ==
    ASSUME NEW r \in Requests, Status[r] = "idle", Status' = [Status EXCEPT ![r] = "started"],
           \E i \in RT!Ids : idOf' = [idOf EXCEPT ![r] = i],
           UNCHANGED <<sentIds, posted, Unread, got>>
    PROVE  Calls!Next
<1>1. Calls!Start(r)
  BY Zenon DEF Calls!Start, Status
<1> QED BY <1>1, Zenon DEF Calls!Next

\* Its request is written.
LEMMA AbstractSend ==
    ASSUME NEW r \in Requests, Status[r] = "started",
           Status' = [Status EXCEPT ![r] = "sent"],
           sentIds' = sentIds \cup {idOf[r]},
           UNCHANGED <<idOf, posted, Unread, got>>
    PROVE  Calls!Next
<1>1. Calls!Send(r)
  BY Zenon DEF Calls!Send, Status
<1> QED BY <1>1, Zenon DEF Calls!Next

\* It fails.
LEMMA AbstractFail ==
    ASSUME NEW r \in Requests, Status[r] \in {"started", "sent"},
           Status' = [Status EXCEPT ![r] = "failed"],
           UNCHANGED <<idOf, sentIds, posted, Unread, got>>
    PROVE  Calls!Next
<1>1. Calls!Fail(r)
  BY Zenon DEF Calls!Fail, Status
<1> QED BY <1>1, Zenon DEF Calls!Next

\* It is answered.
LEMMA AbstractAnswer ==
    ASSUME NEW r \in Requests, NEW m \in Messages, Status[r] = "sent",
           m \in Unread, RelatesTo[m] = idOf[r],
           Status' = [Status EXCEPT ![r] = "answered"],
           got' = [got EXCEPT ![r] = m], Unread' = Unread \ {m},
           UNCHANGED <<idOf, sentIds, posted>>
    PROVE  Calls!Next
<1>1. Calls!Answer(r, m)
  BY Zenon DEF Calls!Answer, Status
<1> QED BY <1>1, Zenon DEF Calls!Next

\* What the peer sends, and what is lost, is what CallSpec allows.
LEMMA UnreadImplements ==
    ASSUME UnreadFlow, UNCHANGED <<Status, idOf, sentIds, got>>
    PROVE  [Calls!Next]_Calls!vars
<1>1. CASE UNCHANGED <<Unread, posted>>
  BY <1>1, Zenon DEF Calls!vars, Status
<1>2. ASSUME NEW m \in Messages, m \notin posted, RelatesTo[m] \in sentIds \cup {NoId},
             posted' = posted \cup {m}, Unread' = Unread \cup {m}
      PROVE  Calls!Next
  <2>1. Calls!PeerSends(m)
    BY <1>2, Zenon DEF Calls!PeerSends, Status
  <2> QED BY <2>1, Zenon DEF Calls!Next
<1>3. ASSUME posted' = posted, Unread' \subseteq Unread, Unread' # Unread
      PROVE  Calls!Next
  <2> DEFINE S == Unread \ Unread'
  <2>1. S # {} /\ S \subseteq Unread /\ Unread' = Unread \ S /\ S \subseteq Messages
    BY <1>3 DEF Unread
  <2> HIDE DEF S
  <2>2. Calls!Lose(S)
    BY <1>3, <2>1, Zenon DEF Calls!Lose, Status
  <2>3. S \in SUBSET Messages
    BY <2>1
  <2> QED BY <2>2, <2>3, Zenon DEF Calls!Next
<1> QED BY <1>1, <1>2, <1>3 DEF UnreadFlow

\* What CallSpec sees of where a call stands.
Standing ==
    \A r \in Requests :
        /\ pc[r] = "idle" => CallStatus(r) = "idle"
        /\ pc[r] = "sending" => CallStatus(r) = "started"
        /\ pc[r] = "waiting" => CallStatus(r) = "sent"
        /\ pc[r] \notin {"idle", "sending", "waiting"} =>
               CallStatus(r) = IF outcome[r] = "reply" THEN "answered" ELSE "failed"

LEMMA Stands == Standing
  BY DEF Standing, CallStatus

LEMMA StandsAfter == Standing'
  BY Stands, PTL

\* A step of one call moves its standing and nobody else's.
LEMMA OneMoves ==
    ASSUME NEW r \in Requests, NEW x, CallStatus(r)' = x,
           \A s \in Requests \ {r} : CallStatus(s)' = CallStatus(s)
    PROVE  Status' = [Status EXCEPT ![r] = x]
  BY Zenon DEF Status

\* Calls that do not move keep their standing.
LEMMA NoneMoves ==
    ASSUME \A s \in Requests : CallStatus(s)' = CallStatus(s)
    PROVE  Status' = Status
  BY DEF Status

\* The others keep theirs as they keep pc and outcome.
LEMMA OthersStay ==
    ASSUME NEW s \in Requests, pc'[s] = pc[s], outcome'[s] = outcome[s]
    PROVE  CallStatus(s)' = CallStatus(s)
  BY DEF CallStatus

\* Everything but RequestReply and the delivery of a reply leaves the calls alone.
LEMMA RestIsStill ==
    [Next]_vars => \/ \E r \in Requests : Request(r)
                   \/ ReplyTaken
                   \/ UNCHANGED <<pc, outcome, idOf, got, sentIds>>
<1> SUFFICES ASSUME [Next]_vars
             PROVE  \/ \E r \in Requests : Request(r)
                    \/ ReplyTaken
                    \/ UNCHANGED <<pc, outcome, idOf, got, sentIds>>
  OBVIOUS
<1> DEFINE Still == UNCHANGED <<pc, outcome, idOf, got, sentIds>>
<1> USE DEF peerVars, RT!callVars
<1>1. tableVars' = tableVars /\ sentIds' = sentIds => Still
  BY DEF tableVars
<1>2. ASSUME SendTransportInit PROVE Still
  BY <1>2 DEF SendTransportInit, RT!NewMessage
<1>3. ASSUME NEW p \in Pingers, Ping(p) PROVE Still
  BY <1>3, <1>1 DEF Ping, PingCalled, PingLocks, PingSent, PingNotSent, PingEnds, RT!NewMessage
<1>4. ASSUME HandlerPanics \/ CallbackReturns \/ Peer PROVE Still
  BY <1>4, <1>1 DEF HandlerPanics, CallbackReturns, Peer, PeerRejects, PeerLeaves,
                    PeerSends, PeerEchoes
<1>5. ASSUME Read PROVE Still
  BY <1>5, <1>1 DEF Read, ReadHeartbeat, ReadReply, ReadOther, ReadRejection, ReadFails, RT!Feed
<1>6. ASSUME NEW c \in Closers \cup {Reader}, Close(c) PROVE Still
  BY <1>6, <1>1 DEF Close, CloseConn, EnterOnce, CloseReturns
<1>7. ASSUME OnceBody PROVE Still
  BY <1>7, <1>1 DEF OnceBody, ClosePings, CloseTable, OnceDone, RT!RangeBegin, RT!RangeClose,
                    RT!RangeVisit, RT!RangeEnd
<1>8. ASSUME UNCHANGED vars PROVE Still
  BY <1>8, <1>1 DEF vars
<1> QED BY <1>2, <1>3, <1>4, <1>5, <1>6, <1>7, <1>8 DEF Next

\* A step of RequestReply: the call starts, is sent, fails, or closes up.
LEMMA RequestImplements ==
    ASSUME IInv, NEW r \in Requests, Request(r)
    PROVE  [Calls!Next]_Calls!vars
<1>1. /\ RT!IndInv /\ RT!TypeOK /\ RT!OutcomeStage /\ InboxOnce /\ CarryHeld
  BY DEF IInv, RT!IndInv
<1>2. Status[r] = CallStatus(r) /\ Standing /\ Standing'
  BY Stands, StandsAfter DEF Status
<1>3. UNCHANGED <<inbox, carry, posted, got>>
  BY DEF Request, RequestStarts, RequestSent, RequestNotSent, RequestEnds, RT!Put, RT!SendOk,
         RT!SendErr, RT!CtxDone, RT!Cancelled, RT!PendingLookup, RT!PendingClose, peerVars
<1>4. UNCHANGED <<posted, Unread, got>>
  BY <1>1, <1>3, UnreadMoves DEF Quiet
<1> USE <1>1 DEF RT!TypeOK, RT!callVars, RT!rangeVars
<1>5. CASE RequestStarts(r)
  <2>1. /\ pc[r] = "idle" /\ pc'[r] = "sending" /\ outcome' = outcome /\ sentIds' = sentIds
        /\ \A s \in Requests \ {r} : pc'[s] = pc[s]
        /\ idOf' = [idOf EXCEPT ![r] = RT!FilledId(r)]
    BY <1>5 DEF RequestStarts, RT!Put, peerVars
  <2>2. RT!FilledId(r) \in RT!Ids
    BY IdAssumption DEF RT!FilledId, RT!Next1, RT!Ids
  <2>3. Status' = [Status EXCEPT ![r] = "started"]
    BY <1>2, <2>1, OneMoves, OthersStay DEF Standing
  <2>4. Status[r] = "idle"
    BY <1>2, <2>1 DEF Standing
  <2>5. \E i \in RT!Ids : idOf' = [idOf EXCEPT ![r] = i]
    BY <2>1, <2>2
  <2> QED BY ONLY <1>4, <2>1, <2>3, <2>4, <2>5, AbstractStart, r \in Requests
<1>6. CASE RequestSent(r)
  <2>1. /\ pc[r] = "sending" /\ pc'[r] = "waiting" /\ sentIds' = sentIds \cup {idOf[r]}
        /\ \A s \in Requests \ {r} : pc'[s] = pc[s] /\ outcome'[s] = outcome[s]
        /\ idOf' = idOf
    BY <1>6 DEF RequestSent, RT!SendOk, RT!Leave
  <2>2. Status' = [Status EXCEPT ![r] = "sent"]
    BY <1>2, <2>1, OneMoves, OthersStay DEF Standing
  <2>3. Status[r] = "started"
    BY <1>2, <2>1 DEF Standing
  <2> QED BY ONLY <1>4, <2>1, <2>2, <2>3, AbstractSend, r \in Requests
<1>7. CASE RequestNotSent(r) \/ (RequestEnds(r) /\ (RT!CtxDone(r) \/ RT!Cancelled(r)))
  <2>1. /\ pc[r] \in {"sending", "waiting"} /\ pc'[r] \in {"waitClose", "replyClose"}
        /\ outcome'[r] # "reply"
        /\ \A s \in Requests \ {r} : pc'[s] = pc[s] /\ outcome'[s] = outcome[s]
        /\ idOf' = idOf /\ sentIds' = sentIds
    BY <1>7 DEF RequestNotSent, RequestEnds, RT!SendErr, RT!CtxDone, RT!Cancelled, RT!Leave,
                RT!DeferredClose, peerVars
  <2>2. Status' = [Status EXCEPT ![r] = "failed"]
    BY <1>2, <2>1, OneMoves, OthersStay DEF Standing
  <2>3. Status[r] \in {"started", "sent"}
    BY <1>2, <2>1 DEF Standing
  <2> QED BY ONLY <1>4, <2>1, <2>2, <2>3, AbstractFail, r \in Requests
<1>8. CASE RequestEnds(r) /\ (RT!PendingLookup(r) \/ RT!PendingClose(r))
  <2>1. /\ pc[r] \in {"waitClose", "replyClose"} /\ pc'[r] \in {"waitClose", "replyClose", "done"}
        /\ outcome' = outcome
        /\ \A s \in Requests \ {r} : pc'[s] = pc[s]
        /\ idOf' = idOf /\ sentIds' = sentIds
    BY <1>8 DEF RequestEnds, RT!PendingLookup, RT!PendingClose, RT!InClose, RT!AfterClose, peerVars
  <2>2. Status' = Status
    BY <1>2, <2>1, NoneMoves, OthersStay DEF Standing
  <2>3. UnreadFlow
    BY <1>4 DEF UnreadFlow
  <2> QED BY ONLY <1>4, <2>1, <2>2, <2>3, UnreadImplements
<1> QED BY <1>5, <1>6, <1>7, <1>8 DEF Request, RequestEnds

\* The send of Feed meets the receive of the call it looked up: an answer.
LEMMA ReplyImplements ==
    ASSUME IInv, ReplyTaken
    PROVE  Calls!Next
<1>1. /\ RT!IndInv /\ RT!TypeOK /\ RT!HandKnown /\ InboxOnce /\ CarryHeld
  BY DEF IInv, RT!IndInv
<1> DEFINE r == hand[Reader]
           m == carry[Reader]
<1>2. r \in Requests /\ m \in Messages /\ RelatesTo[m] = idOf[r] /\ m \in Unread
  BY <1>1, NameAssumption
     DEF ReplyTaken, RT!Deliver, RT!TypeOK, RT!HandKnown, RT!Actors, Unread
<1>3. /\ pc[r] = "waiting" /\ pc'[r] = "waitClose" /\ outcome'[r] = "reply"
      /\ \A s \in Requests \ {r} : pc'[s] = pc[s] /\ outcome'[s] = outcome[s]
      /\ got' = [got EXCEPT ![r] = m]
      /\ UNCHANGED <<idOf, sentIds, posted, inbox>>
  BY <1>1, <1>2 DEF ReplyTaken, RT!Deliver, RT!Leave, RT!TypeOK, peerVars
<1>4. Unread' = Unread \ {m}
  BY <1>1, <1>3, UnreadMoves DEF ReplyTaken
<1> HIDE DEF r, m
<1>5. Status[r] = CallStatus(r) /\ Standing /\ Standing'
  BY <1>2, Stands, StandsAfter DEF Status
<1>6. Status[r] = "sent" /\ Status' = [Status EXCEPT ![r] = "answered"]
  BY <1>2, <1>3, <1>5, OneMoves, OthersStay DEF Standing
<1> QED BY ONLY <1>2, <1>3, <1>4, <1>6, AbstractAnswer

LEMMA StepsImplement == IInv /\ [Next]_vars => [Calls!Next]_Calls!vars
<1> SUFFICES ASSUME IInv, [Next]_vars PROVE [Calls!Next]_Calls!vars
  OBVIOUS
<1>1. ASSUME UNCHANGED <<pc, outcome, idOf, got, sentIds>> PROVE [Calls!Next]_Calls!vars
  <2>1. UnreadFlow
    BY Flows, UnreadFlows DEF IInv
  <2>2. Status' = Status
    BY <1>1, NoneMoves, OthersStay
  <2> QED BY ONLY <1>1, <2>1, <2>2, UnreadImplements
<1> QED BY <1>1, RestIsStill, RequestImplements, ReplyImplements

LEMMA StartImplements == Init => Calls!Init
<1> SUFFICES ASSUME Init PROVE Calls!Init
  OBVIOUS
<1>1. Unread = {}
  BY NameAssumption DEF Init, RT!Init, Unread
<1>2. Status = [r \in Requests |-> "idle"]
  BY Stands DEF Standing, Status, Init, RT!Init
<1>3. idOf = [r \in Requests |-> NoId] /\ sentIds = {} /\ posted = {}
      /\ got = [r \in Requests |-> NoMsg]
  BY DEF Init, RT!Init
<1> QED BY <1>1, <1>2, <1>3, Zenon DEF Calls!Init, Status

\* Whatever the peer, Close, expiring contexts and pings do meanwhile, a call is
\* answered at most once, by a message the peer sent in reply to its id after the
\* request was written, and a message answers at most one call (conn.go:24-32).
THEOREM ConnectionImplementsCalls == Spec => ImplementsCalls
  BY Invariance, StepsImplement, StartImplements, PTL DEF Spec, ImplementsCalls, Calls!Spec

-----------------------------------------------------------------------------
(* What follows from CallSpec.                                             *)

\* The invariant of CallSpec, said of the connection that implements it.
CallsInv ==
    /\ idOf \in [Requests -> RT!Ids \cup {NoId}] /\ Unread \subseteq posted
    /\ got \in [Requests -> Messages \cup {NoMsg}]
    /\ \A r \in Requests : /\ Status[r] = "sent" => idOf[r] \in sentIds
                           /\ got[r] # NoMsg => Status[r] = "answered"
    /\ Calls!OneAnswerOneCall /\ Calls!AnswerWasAsked

LEMMA CallsKept ==
    /\ CallsInv /\ [Calls!Next]_Calls!vars => CallsInv'
<1> SUFFICES ASSUME CallsInv, [Calls!Next]_Calls!vars PROVE CallsInv'
  OBVIOUS
<1>1. \A r \in Requests : Status[r] = CallStatus(r) /\ Status'[r] = CallStatus(r)'
  BY DEF Status
<1>2. [q \in Requests |-> CallStatus(q)] = Status /\ [q \in Requests |-> CallStatus(q)]' = Status'
  BY DEF Status
<1> USE NameAssumption DEF CallsInv, Calls!OneAnswerOneCall, Calls!AnswerWasAsked
<1>3. ASSUME NEW r \in Requests, Calls!Start(r) PROVE CallsInv'
  BY <1>2, <1>3 DEF Calls!Start
<1>4. ASSUME NEW r \in Requests, Calls!Send(r) PROVE CallsInv'
  <2>1. /\ Status' = [Status EXCEPT ![r] = "sent"] /\ sentIds' = sentIds \cup {idOf[r]}
        /\ idOf' = idOf /\ posted' = posted /\ Unread' = Unread /\ got' = got
        /\ Status[r] = "started"
    BY <1>2, <1>4 DEF Calls!Send
  <2>2. \A s \in Requests : s # r => Status'[s] = Status[s]
    BY <2>1
  <2>3. got[r] = NoMsg
    BY <2>1
  <2>4. idOf[r] \in sentIds' /\ sentIds \subseteq sentIds'
    BY <2>1, Zenon
  <2>5. \A s \in Requests : Status'[s] = "sent" => idOf[s] \in sentIds'
    BY <2>2, <2>4, Zenon
  <2>6. \A s \in Requests : got[s] # NoMsg => Status'[s] = "answered"
    BY <2>2, <2>3
  <2>7. \A s \in Requests : got[s] # NoMsg =>
            idOf[s] \in sentIds' /\ RelatesTo[got[s]] = idOf[s]
    BY <2>4
  <2> QED BY <2>1, <2>5, <2>6, <2>7
<1>5. ASSUME NEW r \in Requests, Calls!Fail(r) PROVE CallsInv'
  BY <1>2, <1>5 DEF Calls!Fail
<1>6. ASSUME NEW r \in Requests, NEW m \in Messages, Calls!Answer(r, m) PROVE CallsInv'
  BY <1>2, <1>6 DEF Calls!Answer
<1>7. ASSUME NEW m \in Messages, Calls!PeerSends(m) PROVE CallsInv'
  BY <1>2, <1>7 DEF Calls!PeerSends
<1>8. ASSUME NEW S \in SUBSET Messages, Calls!Lose(S) PROVE CallsInv'
  BY <1>2, <1>8 DEF Calls!Lose
<1>9. CASE UNCHANGED Calls!vars
  BY <1>2, <1>9 DEF Calls!vars
<1> QED BY <1>3, <1>4, <1>5, <1>6, <1>7, <1>8, <1>9 DEF Calls!Next

LEMMA CallsInit == Calls!Init => CallsInv
<1> SUFFICES ASSUME Calls!Init PROVE CallsInv
  OBVIOUS
<1>1. [q \in Requests |-> CallStatus(q)] = Status
  BY DEF Status
<1>2. /\ Status = [r \in Requests |-> "idle"] /\ idOf = [r \in Requests |-> NoId]
      /\ sentIds = {} /\ posted = {} /\ Unread = {} /\ got = [r \in Requests |-> NoMsg]
  BY <1>1 DEF Calls!Init
<1> QED BY <1>2 DEF CallsInv, Calls!OneAnswerOneCall, Calls!AnswerWasAsked

\* Of one connection, in the code's own variables: no message answers two calls,
\* none that answered one is still to be had, and a call is answered only by a
\* message that relates to an id the call itself wrote (conn.go:24-32).
THEOREM AnswersAreOwned == Spec => [](Calls!OneAnswerOneCall /\ Calls!AnswerWasAsked)
<1>1. CallsInv => Calls!OneAnswerOneCall /\ Calls!AnswerWasAsked
  BY DEF CallsInv
<1> QED BY <1>1, CallsInit, CallsKept, ConnectionImplementsCalls, PTL
        DEF ImplementsCalls, Calls!Spec
=============================================================================
