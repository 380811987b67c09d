---------------------------- MODULE RequestTable ----------------------------
(***************************************************************************)
(* transport/requesttable.go and its user connection.RequestReply: the     *)
(* table that pairs a reply with the goroutine waiting for it.             *)
(*                                                                         *)
(* Goroutines act on the table concurrently: one per call of RequestReply  *)
(* (Requests), those that deliver incoming messages with Feed (Feeders:    *)
(* the single read loop of a connection, one goroutine per message in a    *)
(* federation.SiteNode), and the one inside RequestTable.Close (Closer).   *)
(* A PendingRequest is created once by each call, so the entry of call r   *)
(* is named r. One operation on the sync.Map or on a channel is one step.  *)
(***************************************************************************)
EXTENDS Naturals

CONSTANTS
    Requests,     \* calls of RequestReply
    Feeders,      \* goroutines that call Feed
    Closer,       \* the goroutine inside RequestTable.Close
    Messages,     \* incoming messages
    RelatesTo,    \* RelatesTo[m]: the header of message m, NoId when empty
    PresetId,     \* PresetId[r]: the Id the caller already put in its message
    Cancellable,  \* calls whose context may be cancelled
    IdSpace,      \* messageIdx is a uint32: 2^32 in the code
    NoReq, NoMsg, NoId

Ids    == 0 .. IdSpace - 1
Actors == Requests \cup Feeders \cup {Closer}

ASSUME IdSpaceAssumption == IdSpace \in Nat \ {0}
ASSUME ActorsAssumption  == /\ Requests \cap Feeders = {}
                            /\ Closer \notin Requests \cup Feeders
ASSUME SentinelAssumption == /\ NoReq \notin Requests
                             /\ NoMsg \notin Messages
                             /\ NoId \notin Ids
ASSUME HeaderAssumption   == /\ RelatesTo \in [Messages -> Ids \cup {NoId}]
                             /\ PresetId \in [Requests -> Ids \cup {NoId}]
                             /\ Cancellable \subseteq Requests

VARIABLES
    msgIdx,    \* messageFactory.messageIdx
    table,     \* RequestTable.table: the entry stored under each id
    idOf,      \* PendingRequest.id
    closedCh,  \* the entries whose channel has been closed
    pc,        \* where each call of RequestReply stands
    outcome,   \* what it is going to return
    got,       \* the reply it returns
    hand,      \* the entry an actor removed with LoadAndDelete and still owns
    carry,     \* the message a feeder is sending to that entry's channel
    closing,   \* RequestTable.Close: "no", "ranging", "over"
    due,       \* keys present when its Range began
    visited    \* keys its Range has visited

callVars  == <<msgIdx, idOf, pc, outcome, got>>
rangeVars == <<closing, due, visited>>
vars      == <<callVars, table, closedCh, hand, carry, rangeVars>>

Stages   == {"idle", "sending", "waiting", "waitClose", "replyClose", "done"}
Outcomes == {"none", "reply", "cancelled", "ctx", "sendErr"}

TypeOK ==
    /\ msgIdx \in Ids
    /\ table \in [Ids -> Requests \cup {NoReq}]
    /\ idOf \in [Requests -> Ids \cup {NoId}]
    /\ closedCh \subseteq Requests
    /\ pc \in [Requests -> Stages]
    /\ outcome \in [Requests -> Outcomes]
    /\ got \in [Requests -> Messages \cup {NoMsg}]
    /\ hand \in [Actors -> Requests \cup {NoReq}]
    /\ carry \in [Feeders -> Messages \cup {NoMsg}]
    /\ closing \in {"no", "ranging", "over"}
    /\ due \subseteq Ids
    /\ visited \subseteq Ids

Init ==
    /\ msgIdx = 0
    /\ table = [i \in Ids |-> NoReq]
    /\ idOf = [r \in Requests |-> NoId]
    /\ closedCh = {}
    /\ pc = [r \in Requests |-> "idle"]
    /\ outcome = [r \in Requests |-> "none"]
    /\ got = [r \in Requests |-> NoMsg]
    /\ hand = [a \in Actors |-> NoReq]
    /\ carry = [f \in Feeders |-> NoMsg]
    /\ closing = "no"
    /\ due = {}
    /\ visited = {}

-----------------------------------------------------------------------------
(* Message ids.  Next() is an atomic add on a uint32, so it wraps.          *)

Next1(i) == (i + 1) % IdSpace

\* Any other message built by the same factory consumes an id too.
NewMessage ==
    /\ msgIdx' = Next1(msgIdx)
    /\ UNCHANGED <<idOf, pc, outcome, got, table, closedCh, hand, carry, rangeVars>>

\* The id fillMessageId leaves in the message: the preset one, or a new one.
FilledId(r) == IF PresetId[r] # NoId THEN PresetId[r] ELSE Next1(msgIdx)

-----------------------------------------------------------------------------
(* The table.                                                              *)

\* Mutant: Load instead of LoadAndDelete.
LoadOnly(a, i) ==
    /\ hand' = [hand EXCEPT ![a] = table[i]]
    /\ UNCHANGED table

\* sync.Map.LoadAndDelete: the caller owns what it found, if anything.
LoadAndDelete(a, i) ==
    /\ hand' = [hand EXCEPT ![a] = table[i]]
    /\ table' = [table EXCEPT ![i] = NoReq]

\* close.Do(close(ch)) on the entry the actor removed.
CloseChannel(a) ==
    /\ hand[a] # NoReq
    /\ closedCh' = closedCh \cup {hand[a]}
    /\ hand' = [hand EXCEPT ![a] = NoReq]

-----------------------------------------------------------------------------
(* One call of RequestReply.                                               *)

\* fillMessageId, then Put: Store overwrites whatever the id named before.
Put(r) ==
    /\ pc[r] = "idle"
    /\ msgIdx' = IF PresetId[r] # NoId THEN msgIdx ELSE Next1(msgIdx)
    /\ idOf' = [idOf EXCEPT ![r] = FilledId(r)]
    /\ table' = [table EXCEPT ![FilledId(r)] = r]
    /\ pc' = [pc EXCEPT ![r] = "sending"]
    /\ UNCHANGED <<outcome, got, closedCh, hand, carry, rangeVars>>

Leave(r, from, to, why) ==
    /\ pc[r] = from
    /\ pc' = [pc EXCEPT ![r] = to]
    /\ outcome' = [outcome EXCEPT ![r] = why]
    /\ UNCHANGED <<msgIdx, idOf, table, closedCh, rangeVars>>

SendOk(r) ==
    /\ Leave(r, "sending", "waiting", "none")
    /\ UNCHANGED <<got, hand, carry>>

\* Mutant: RequestReply without its deferred pr.Close.
Returned      == "done"
DeferredClose == "replyClose"

\* SendOneWay failed: Wait is never called, only the deferred pr.Close runs.
SendErr(r) ==
    /\ Leave(r, "sending", DeferredClose, "sendErr")
    /\ UNCHANGED <<got, hand, carry>>

CtxDone(r) ==
    /\ r \in Cancellable
    /\ Leave(r, "waiting", "waitClose", "ctx")
    /\ UNCHANGED <<got, hand, carry>>

\* A receive on a closed channel yields nil.
Cancelled(r) ==
    /\ r \in closedCh
    /\ Leave(r, "waiting", "waitClose", "cancelled")
    /\ UNCHANGED <<got, hand, carry>>

\* The two deferred Close calls: Wait's own, then RequestReply's.
AfterClose(stage) == IF stage = "waitClose" THEN "replyClose" ELSE "done"
InClose(r) == pc[r] \in {"waitClose", "replyClose"}

\* PendingRequest.Close removes the entry it finds UNDER ITS ID.
PendingLookup(r) ==
    /\ InClose(r)
    /\ hand[r] = NoReq
    /\ LoadAndDelete(r, idOf[r])
    /\ pc' = [pc EXCEPT ![r] =
                IF table[idOf[r]] = NoReq THEN AfterClose(pc[r]) ELSE pc[r]]
    /\ UNCHANGED <<msgIdx, idOf, outcome, got, closedCh, carry, rangeVars>>

PendingClose(r) ==
    /\ InClose(r)
    /\ CloseChannel(r)
    /\ pc' = [pc EXCEPT ![r] = AfterClose(pc[r])]
    /\ UNCHANGED <<msgIdx, idOf, outcome, got, table, carry, rangeVars>>

-----------------------------------------------------------------------------
(* Feed.                                                                   *)

\* Mutant: the message's own Id, which may be anybody's.
OwnId(m) == IF \E i \in Ids : table[i] # NoReq
            THEN CHOOSE i \in Ids : table[i] # NoReq ELSE NoId
Key(m)   == RelatesTo[m]

\* Feed returns false, and changes nothing, exactly when this is false.
Matches(m) == Key(m) # NoId /\ table[Key(m)] # NoReq

Feed(f, m) ==
    /\ hand[f] = NoReq
    /\ Matches(m)
    /\ LoadAndDelete(f, Key(m))
    /\ carry' = [carry EXCEPT ![f] = m]
    /\ UNCHANGED <<callVars, closedCh, rangeVars>>

\* Mutant: a feeder that gives up closes the channel.
DeliverGivesUp(f) ==
    /\ CloseChannel(f)
    /\ carry' = [carry EXCEPT ![f] = NoMsg]
    /\ UNCHANGED <<callVars, table, rangeVars>>

\* The unbuffered send of line 74 meets the receive of line 39.
Deliver(f) ==
    /\ hand[f] # NoReq
    /\ Leave(hand[f], "waiting", "waitClose", "reply")
    /\ got' = [got EXCEPT ![hand[f]] = carry[f]]
    /\ hand' = [hand EXCEPT ![f] = NoReq]
    /\ carry' = [carry EXCEPT ![f] = NoMsg]

-----------------------------------------------------------------------------
(* RequestTable.Close: sync.Map.Range visits every key present when it     *)
(* begins, may visit one stored meanwhile, and visits no key twice.        *)

RangeBegin ==
    /\ closing = "no"
    /\ closing' = "ranging"
    /\ due' = {i \in Ids : table[i] # NoReq}
    /\ UNCHANGED <<callVars, table, closedCh, hand, carry, visited>>

\* Mutant: the Range deletes the key instead of closing its entry.
Forget(i)  == table' = [table EXCEPT ![i] = NoReq] /\ UNCHANGED hand
TakeOut(i) == LoadAndDelete(Closer, i)

RangeVisit(i) ==
    /\ closing = "ranging"
    /\ hand[Closer] = NoReq
    /\ i \notin visited
    /\ i \in due \/ table[i] # NoReq
    /\ visited' = visited \cup {i}
    /\ TakeOut(i)
    /\ UNCHANGED <<callVars, closedCh, carry, closing, due>>

RangeClose ==
    /\ closing = "ranging"
    /\ CloseChannel(Closer)
    /\ UNCHANGED <<callVars, table, carry, rangeVars>>

RangeEnd ==
    /\ closing = "ranging"
    /\ hand[Closer] = NoReq
    /\ due \subseteq visited
    /\ closing' = "over"
    /\ UNCHANGED <<callVars, table, closedCh, hand, carry, due, visited>>

-----------------------------------------------------------------------------
Call(r) ==
    \/ Put(r) \/ SendOk(r) \/ SendErr(r) \/ CtxDone(r) \/ Cancelled(r)
    \/ PendingLookup(r) \/ PendingClose(r)

CloseTable ==
    \/ RangeBegin \/ RangeClose \/ RangeEnd
    \/ \E i \in Ids : RangeVisit(i)

Next ==
    \/ NewMessage
    \/ \E r \in Requests : Call(r)
    \/ \E f \in Feeders : Deliver(f) \/ \E m \in Messages : Feed(f, m)
    \/ CloseTable

Spec == Init /\ [][Next]_vars

-----------------------------------------------------------------------------
(* Properties.                                                             *)

Pending(r)   == \E i \in Ids : table[i] = r
HeldBy(a, r) == hand[a] = r
SharesId(r)  == \E s \in Requests \ {r} : idOf[s] = idOf[r]

\* An entry has one owner: the table, or the one goroutine that removed it,
\* and nobody once its channel is closed.  This is what LoadAndDelete is for
\* (requesttable.go:21 and :71): Feed never sends on a closed channel, two
\* replies never reach one caller, and no channel is closed twice.
SingleOwner ==
    /\ \A i, j \in Ids : table[i] # NoReq /\ table[i] = table[j] => i = j
    /\ \A a, b \in Actors : hand[a] # NoReq /\ hand[a] = hand[b] => a = b
    /\ \A a \in Actors : hand[a] # NoReq => ~Pending(hand[a])
    /\ \A r \in closedCh : ~Pending(r) /\ \A a \in Actors : ~HeldBy(a, r)
    /\ \A r \in Requests : outcome[r] = "reply" =>
          r \notin closedCh /\ ~Pending(r) /\ \A a \in Actors : ~HeldBy(a, r)

\* A caller is only ever given a message that relates to the id it sent, even
\* when ids wrap or are reused (requesttable.go:69-74 against :57-64).
RightReply ==
    \A r \in Requests :
        outcome[r] = "reply" => /\ got[r] # NoMsg
                                /\ RelatesTo[got[r]] = idOf[r]

\* A caller that still waits can still be answered or cancelled: its entry is
\* in the table, in some goroutine's hands, or closed.  The one exception is a
\* call whose id another call uses too: Store overwrites (requesttable.go:64).
NoOrphan ==
    \A r \in Requests : pc[r] \in {"sending", "waiting"} =>
        \/ table[idOf[r]] = r
        \/ \E a \in Actors : HeldBy(a, r)
        \/ r \in closedCh
        \/ SharesId(r)

\* "operation cancelled" reaches a caller only when the table was closed, or
\* when another call with the same id closed the wrong entry (line 21 looks up
\* by id, line 26 closes what it found).
CancelledOnlyByClose ==
    \A r \in Requests : outcome[r] = "cancelled" => closing # "no" \/ SharesId(r)

\* No slot of the table refers to the entry of a call that returned, whichever
\* way it returned and whoever else used its id meanwhile: the deferred Close of
\* conn.go:299 and requesttable.go:35 between them always find it.
NoLeak ==
    \A r \in Requests : pc[r] = "done" => ~Pending(r)

-----------------------------------------------------------------------------
(* The inductive invariant the properties rest on.                         *)

\* A call has an id from its Put on.
NamedIds == \A r \in Requests : pc[r] = "idle" <=> idOf[r] = NoId

\* Entries are filed under their own id.
FiledById == \A i \in Ids : table[i] # NoReq => idOf[table[i]] = i

\* What an actor holds is what its own step looked up.
HandKnown ==
    /\ \A a \in Actors : hand[a] # NoReq => idOf[hand[a]] # NoId
    /\ \A f \in Feeders :
          hand[f] # NoReq => /\ carry[f] # NoMsg
                             /\ RelatesTo[carry[f]] = idOf[hand[f]]
    /\ \A r \in Requests :
          hand[r] # NoReq => InClose(r) /\ idOf[hand[r]] = idOf[r]
    /\ hand[Closer] # NoReq => closing # "no"

\* Only a close of the table, or of a call with the same id, closes a channel
\* that is still waited for.
ClosedWhy ==
    \A r \in closedCh : /\ idOf[r] # NoId
                        /\ pc[r] \in {"sending", "waiting"} =>
                              closing # "no" \/ SharesId(r)

\* A call knows its outcome from the moment it stops waiting.
OutcomeStage ==
    \A r \in Requests :
        outcome[r] # "none" => pc[r] \in {"waitClose", "replyClose", "done"}

\* The last Close of a call removes its entry before it closes the channel.
LastCloseRemoved ==
    \A r \in Requests : pc[r] = "replyClose" /\ hand[r] # NoReq => ~Pending(r)

IndInv ==
    /\ TypeOK /\ NamedIds /\ FiledById /\ HandKnown
    /\ OutcomeStage /\ LastCloseRemoved /\ ClosedWhy
    /\ SingleOwner /\ RightReply /\ NoOrphan /\ CancelledOnlyByClose /\ NoLeak

=============================================================================
