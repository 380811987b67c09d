------------------------- MODULE RequestTableProofs -------------------------
(* Theorems about RequestTable: its safety properties for any number of    *)
(* calls, feeders and messages, any id space and any reuse of ids.         *)
EXTENDS RequestTable, TLAPS

\* fillMessageId leaves a valid id in every message (message.go:96-104).
LEMMA FilledIdInIds ==
    ASSUME TypeOK
    PROVE  Next1(msgIdx) \in Ids /\ \A r \in Requests : FilledId(r) \in Ids
  BY IdSpaceAssumption, HeaderAssumption DEF TypeOK, FilledId, Next1, Ids

\* Types, and that a call is idle exactly as long as it has no id.
TypeInv == TypeOK /\ NamedIds

\* Under the type invariant every lookup of PendingRequest.Close uses an id.
LEMMA LookupById ==
    ASSUME TypeInv, NEW r \in Requests, pc[r] # "idle"
    PROVE  idOf[r] \in Ids /\ table[idOf[r]] \in Requests \cup {NoReq}
  BY DEF TypeInv, TypeOK, NamedIds

\* No step of the table, its callers or its feeders breaks the types.
LEMMA TypeStep == TypeInv /\ [Next]_vars => TypeInv'
<1> SUFFICES ASSUME TypeInv, [Next]_vars PROVE TypeInv'
  OBVIOUS
<1> USE DEF TypeInv, TypeOK, NamedIds, Actors, Stages, Outcomes
<1>1. CASE NewMessage
  BY <1>1, FilledIdInIds DEF NewMessage, rangeVars
<1>2. ASSUME NEW r \in Requests, Call(r) PROVE TypeInv'
  <2>1. CASE Put(r)
    BY <2>1, FilledIdInIds, SentinelAssumption DEF Put, rangeVars
  <2>2. CASE SendOk(r) \/ SendErr(r) \/ CtxDone(r) \/ Cancelled(r)
    BY <2>2 DEF SendOk, SendErr, DeferredClose, CtxDone, Cancelled, Leave, rangeVars
  <2>3. CASE PendingLookup(r)
    BY <2>3, LookupById DEF PendingLookup, LoadAndDelete, AfterClose, InClose, rangeVars
  <2>4. CASE PendingClose(r)
    BY <2>4 DEF PendingClose, CloseChannel, AfterClose, InClose, rangeVars
  <2> QED BY <1>2, <2>1, <2>2, <2>3, <2>4 DEF Call
<1>3. ASSUME NEW f \in Feeders, Deliver(f) PROVE TypeInv'
  BY <1>3 DEF Deliver, Leave, rangeVars
<1>4. ASSUME NEW f \in Feeders, NEW m \in Messages, Feed(f, m) PROVE TypeInv'
  <2>1. RelatesTo[m] \in Ids
    BY <1>4, HeaderAssumption DEF Feed, Matches, Key
  <2> QED BY <1>4, <2>1 DEF Feed, Key, LoadAndDelete, callVars, rangeVars
<1>5. CASE RangeBegin
  BY <1>5 DEF RangeBegin, callVars
<1>6. ASSUME NEW i \in Ids, RangeVisit(i) PROVE TypeInv'
  BY <1>6 DEF RangeVisit, TakeOut, LoadAndDelete, callVars
<1>7. CASE RangeClose
  BY <1>7 DEF RangeClose, CloseChannel, callVars, rangeVars
<1>8. CASE RangeEnd
  BY <1>8 DEF RangeEnd, callVars
<1>9. CASE UNCHANGED vars
  BY <1>9 DEF vars, callVars, rangeVars
<1> QED BY <1>1, <1>2, <1>3, <1>4, <1>5, <1>6, <1>7, <1>8, <1>9 DEF Next, CloseTable

LEMMA TypeInit == Init => TypeInv
  BY IdSpaceAssumption, SentinelAssumption
     DEF Init, TypeInv, TypeOK, NamedIds, Ids, Actors, Stages, Outcomes

\* Every variable of the table keeps its type in every behaviour.
THEOREM TypeCorrect == Spec => []TypeOK
<1>1. Spec => []TypeInv
  BY TypeInit, TypeStep, PTL DEF Spec
<1> QED BY <1>1, PTL DEF TypeInv

-----------------------------------------------------------------------------
(* The inductive step, one lemma per conjunct of IndInv.                   *)

USE DEF Actors, Stages, Outcomes, callVars, rangeVars

\* Put stores each entry under the id it took; nothing else stores.
LEMMA FiledByIdStep == IndInv /\ [Next]_vars => FiledById'
<1> SUFFICES ASSUME IndInv, [Next]_vars PROVE FiledById'
  OBVIOUS
<1> USE DEF IndInv, TypeOK, NamedIds, FiledById
<1>1. ASSUME NEW r \in Requests, Put(r) PROVE FiledById'
  BY <1>1, FilledIdInIds, SentinelAssumption DEF Put
<1>2. ASSUME NEW r \in Requests, PendingLookup(r) PROVE FiledById'
  BY <1>2 DEF PendingLookup, LoadAndDelete
<1>3. ASSUME NEW f \in Feeders, NEW m \in Messages, Feed(f, m) PROVE FiledById'
  BY <1>3 DEF Feed, Key, LoadAndDelete
<1>4. ASSUME NEW i \in Ids, RangeVisit(i) PROVE FiledById'
  BY <1>4 DEF RangeVisit, TakeOut, LoadAndDelete
<1>5. UNCHANGED <<table, idOf>> => FiledById'
  OBVIOUS
<1> QED BY <1>1, <1>2, <1>3, <1>4, <1>5
        DEF Next, vars, Call, CloseTable, NewMessage, SendOk, SendErr, CtxDone, Cancelled,
            Leave, PendingClose, Deliver, RangeBegin, RangeClose, RangeEnd

\* Each actor's hand is filled by its own lookup and emptied by its next step.
LEMMA HandKnownStep == IndInv /\ [Next]_vars => HandKnown'
<1> SUFFICES ASSUME IndInv, [Next]_vars PROVE HandKnown'
  OBVIOUS
<1> USE ActorsAssumption, SentinelAssumption, HeaderAssumption
    DEF IndInv, TypeOK, NamedIds, FiledById, HandKnown, InClose
<1>1. CASE NewMessage
  BY <1>1 DEF NewMessage
<1>2. ASSUME NEW r \in Requests, Call(r) PROVE HandKnown'
  <2>1. CASE Put(r)
    BY <2>1, FilledIdInIds DEF Put
  <2>2. CASE SendOk(r) \/ SendErr(r) \/ CtxDone(r) \/ Cancelled(r)
    BY <2>2 DEF SendOk, SendErr, DeferredClose, CtxDone, Cancelled, Leave
  <2>3. CASE PendingLookup(r)
    BY <2>3, LookupById DEF PendingLookup, LoadAndDelete, AfterClose, TypeInv
  <2>4. CASE PendingClose(r)
    BY <2>4 DEF PendingClose, CloseChannel, AfterClose
  <2> QED BY <1>2, <2>1, <2>2, <2>3, <2>4 DEF Call
<1>3. ASSUME NEW f \in Feeders, Deliver(f) PROVE HandKnown'
  BY <1>3 DEF Deliver, Leave
<1>4. ASSUME NEW f \in Feeders, NEW m \in Messages, Feed(f, m) PROVE HandKnown'
  BY <1>4 DEF Feed, Key, LoadAndDelete, Matches
<1>5. CASE RangeBegin
  BY <1>5 DEF RangeBegin
<1>6. ASSUME NEW i \in Ids, RangeVisit(i) PROVE HandKnown'
  BY <1>6 DEF RangeVisit, TakeOut, LoadAndDelete
<1>7. CASE RangeClose
  BY <1>7 DEF RangeClose, CloseChannel
<1>8. CASE RangeEnd
  BY <1>8 DEF RangeEnd
<1>9. CASE UNCHANGED vars
  BY <1>9 DEF vars
<1> QED BY <1>1, <1>2, <1>3, <1>4, <1>5, <1>6, <1>7, <1>8, <1>9 DEF Next, CloseTable

\* An outcome is set only by the step that leaves the wait.
LEMMA OutcomeStageStep == IndInv /\ [Next]_vars => OutcomeStage'
<1> SUFFICES ASSUME IndInv, [Next]_vars PROVE OutcomeStage'
  OBVIOUS
<1> USE DEF IndInv, TypeOK, OutcomeStage
<1>1. CASE NewMessage
  BY <1>1 DEF NewMessage
<1>2. ASSUME NEW r \in Requests, Call(r) PROVE OutcomeStage'
  <2>1. CASE Put(r)
    BY <2>1 DEF Put
  <2>2. CASE SendOk(r) \/ SendErr(r) \/ CtxDone(r) \/ Cancelled(r)
    BY <2>2 DEF SendOk, SendErr, DeferredClose, CtxDone, Cancelled, Leave
  <2>3. CASE PendingLookup(r)
    BY <2>3 DEF PendingLookup, LoadAndDelete, AfterClose, InClose
  <2>4. CASE PendingClose(r)
    BY <2>4 DEF PendingClose, CloseChannel, AfterClose, InClose
  <2> QED BY <1>2, <2>1, <2>2, <2>3, <2>4 DEF Call
<1>3. ASSUME NEW f \in Feeders, Deliver(f) PROVE OutcomeStage'
  BY <1>3 DEF Deliver, Leave
<1>4. ASSUME NEW f \in Feeders, NEW m \in Messages, Feed(f, m) PROVE OutcomeStage'
  BY <1>4 DEF Feed, Key, LoadAndDelete, Matches
<1>5. CASE RangeBegin
  BY <1>5 DEF RangeBegin
<1>6. ASSUME NEW i \in Ids, RangeVisit(i) PROVE OutcomeStage'
  BY <1>6 DEF RangeVisit, TakeOut, LoadAndDelete
<1>7. CASE RangeClose
  BY <1>7 DEF RangeClose, CloseChannel
<1>8. CASE RangeEnd
  BY <1>8 DEF RangeEnd
<1>9. CASE UNCHANGED vars
  BY <1>9 DEF vars
<1> QED BY <1>1, <1>2, <1>3, <1>4, <1>5, <1>6, <1>7, <1>8, <1>9 DEF Next, CloseTable

\* The message a feeder carries was looked up by the id of the entry it holds.
LEMMA RightReplyStep == IndInv /\ [Next]_vars => RightReply'
<1> SUFFICES ASSUME IndInv, [Next]_vars PROVE RightReply'
  OBVIOUS
<1> USE DEF IndInv, TypeOK, NamedIds, OutcomeStage, HandKnown, RightReply
<1>1. CASE NewMessage
  BY <1>1 DEF NewMessage
<1>2. ASSUME NEW r \in Requests, Call(r) PROVE RightReply'
  <2>1. CASE Put(r)
    BY <2>1 DEF Put
  <2>2. CASE SendOk(r) \/ SendErr(r) \/ CtxDone(r) \/ Cancelled(r)
    BY <2>2 DEF SendOk, SendErr, DeferredClose, CtxDone, Cancelled, Leave
  <2>3. CASE PendingLookup(r)
    BY <2>3 DEF PendingLookup, LoadAndDelete, AfterClose, InClose
  <2>4. CASE PendingClose(r)
    BY <2>4 DEF PendingClose, CloseChannel, AfterClose, InClose
  <2> QED BY <1>2, <2>1, <2>2, <2>3, <2>4 DEF Call
<1>3. ASSUME NEW f \in Feeders, Deliver(f) PROVE RightReply'
  BY <1>3 DEF Deliver, Leave
<1>4. ASSUME NEW f \in Feeders, NEW m \in Messages, Feed(f, m) PROVE RightReply'
  BY <1>4 DEF Feed, Key, LoadAndDelete, Matches
<1>5. CASE RangeBegin
  BY <1>5 DEF RangeBegin
<1>6. ASSUME NEW i \in Ids, RangeVisit(i) PROVE RightReply'
  BY <1>6 DEF RangeVisit, TakeOut, LoadAndDelete
<1>7. CASE RangeClose
  BY <1>7 DEF RangeClose, CloseChannel
<1>8. CASE RangeEnd
  BY <1>8 DEF RangeEnd
<1>9. CASE UNCHANGED vars
  BY <1>9 DEF vars
<1> QED BY <1>1, <1>2, <1>3, <1>4, <1>5, <1>6, <1>7, <1>8, <1>9 DEF Next, CloseTable

\* Whoever looks up its own id leaves nothing of its own under it.
LEMMA LastCloseRemovedStep == IndInv /\ [Next]_vars => LastCloseRemoved'
<1> SUFFICES ASSUME IndInv, [Next]_vars PROVE LastCloseRemoved'
  OBVIOUS
<1> USE ActorsAssumption, SentinelAssumption
    DEF IndInv, TypeOK, NamedIds, FiledById, HandKnown, LastCloseRemoved, Pending, InClose
<1>1. CASE NewMessage
  BY <1>1 DEF NewMessage
<1>2. ASSUME NEW r \in Requests, Call(r) PROVE LastCloseRemoved'
  <2>1. CASE Put(r)
    BY <2>1, FilledIdInIds DEF Put
  <2>2. CASE SendOk(r) \/ SendErr(r) \/ CtxDone(r) \/ Cancelled(r)
    BY <2>2 DEF SendOk, SendErr, DeferredClose, CtxDone, Cancelled, Leave
  <2>3. CASE PendingLookup(r)
    BY <2>3, LookupById DEF TypeInv, PendingLookup, LoadAndDelete, AfterClose, InClose
  <2>4. CASE PendingClose(r)
    BY <2>4 DEF PendingClose, CloseChannel, AfterClose, InClose
  <2> QED BY <1>2, <2>1, <2>2, <2>3, <2>4 DEF Call
<1>3. ASSUME NEW f \in Feeders, Deliver(f) PROVE LastCloseRemoved'
  BY <1>3 DEF Deliver, Leave
<1>4. ASSUME NEW f \in Feeders, NEW m \in Messages, Feed(f, m) PROVE LastCloseRemoved'
  BY <1>4 DEF Feed, Key, LoadAndDelete, Matches
<1>5. CASE RangeBegin
  BY <1>5 DEF RangeBegin
<1>6. ASSUME NEW i \in Ids, RangeVisit(i) PROVE LastCloseRemoved'
  BY <1>6 DEF RangeVisit, TakeOut, LoadAndDelete
<1>7. CASE RangeClose
  BY <1>7 DEF RangeClose, CloseChannel
<1>8. CASE RangeEnd
  BY <1>8 DEF RangeEnd
<1>9. CASE UNCHANGED vars
  BY <1>9 DEF vars
<1> QED BY <1>1, <1>2, <1>3, <1>4, <1>5, <1>6, <1>7, <1>8, <1>9 DEF Next, CloseTable

\* The last Close of a call either finds its entry or finds it gone.
LEMMA NoLeakStep == IndInv /\ [Next]_vars => NoLeak'
<1> SUFFICES ASSUME IndInv, [Next]_vars PROVE NoLeak'
  OBVIOUS
<1> USE SentinelAssumption
    DEF IndInv, TypeOK, NamedIds, FiledById, HandKnown, LastCloseRemoved, NoLeak, Pending
<1>1. CASE NewMessage
  BY <1>1 DEF NewMessage
<1>2. ASSUME NEW r \in Requests, Call(r) PROVE NoLeak'
  <2>1. CASE Put(r)
    BY <2>1, FilledIdInIds DEF Put
  <2>2. CASE SendOk(r) \/ SendErr(r) \/ CtxDone(r) \/ Cancelled(r)
    BY <2>2 DEF SendOk, SendErr, DeferredClose, CtxDone, Cancelled, Leave
  <2>3. CASE PendingLookup(r)
    BY <2>3, LookupById DEF TypeInv, PendingLookup, LoadAndDelete, AfterClose, InClose
  <2>4. CASE PendingClose(r)
    BY <2>4 DEF PendingClose, CloseChannel, AfterClose, InClose
  <2> QED BY <1>2, <2>1, <2>2, <2>3, <2>4 DEF Call
<1>3. ASSUME NEW f \in Feeders, Deliver(f) PROVE NoLeak'
  BY <1>3 DEF Deliver, Leave
<1>4. ASSUME NEW f \in Feeders, NEW m \in Messages, Feed(f, m) PROVE NoLeak'
  BY <1>4 DEF Feed, Key, LoadAndDelete, Matches
<1>5. CASE RangeBegin
  BY <1>5 DEF RangeBegin
<1>6. ASSUME NEW i \in Ids, RangeVisit(i) PROVE NoLeak'
  BY <1>6 DEF RangeVisit, TakeOut, LoadAndDelete
<1>7. CASE RangeClose
  BY <1>7 DEF RangeClose, CloseChannel
<1>8. CASE RangeEnd
  BY <1>8 DEF RangeEnd
<1>9. CASE UNCHANGED vars
  BY <1>9 DEF vars
<1> QED BY <1>1, <1>2, <1>3, <1>4, <1>5, <1>6, <1>7, <1>8, <1>9 DEF Next, CloseTable

\* A call closes only the channel it found under its own id.
LEMMA ClosedWhyStep == IndInv /\ [Next]_vars => ClosedWhy'
<1> SUFFICES ASSUME IndInv, [Next]_vars PROVE ClosedWhy'
  OBVIOUS
<1> USE SentinelAssumption
    DEF IndInv, TypeOK, NamedIds, FiledById, HandKnown, ClosedWhy, SharesId
<1>1. CASE NewMessage
  BY <1>1 DEF NewMessage
<1>2. ASSUME NEW r \in Requests, Call(r) PROVE ClosedWhy'
  <2>1. CASE Put(r)
    BY <2>1, FilledIdInIds DEF Put
  <2>2. CASE SendOk(r) \/ SendErr(r) \/ CtxDone(r) \/ Cancelled(r)
    BY <2>2 DEF SendOk, SendErr, DeferredClose, CtxDone, Cancelled, Leave
  <2>3. CASE PendingLookup(r)
    BY <2>3, LookupById DEF TypeInv, PendingLookup, LoadAndDelete, AfterClose, InClose
  <2>4. CASE PendingClose(r)
    BY <2>4 DEF PendingClose, CloseChannel, AfterClose, InClose
  <2> QED BY <1>2, <2>1, <2>2, <2>3, <2>4 DEF Call
<1>3. ASSUME NEW f \in Feeders, Deliver(f) PROVE ClosedWhy'
  BY <1>3 DEF Deliver, Leave
<1>4. ASSUME NEW f \in Feeders, NEW m \in Messages, Feed(f, m) PROVE ClosedWhy'
  BY <1>4 DEF Feed, Key, LoadAndDelete, Matches
<1>5. CASE RangeBegin
  BY <1>5 DEF RangeBegin
<1>6. ASSUME NEW i \in Ids, RangeVisit(i) PROVE ClosedWhy'
  BY <1>6 DEF RangeVisit, TakeOut, LoadAndDelete
<1>7. CASE RangeClose
  BY <1>7 DEF RangeClose, CloseChannel
<1>8. CASE RangeEnd
  BY <1>8 DEF RangeEnd
<1>9. CASE UNCHANGED vars
  BY <1>9 DEF vars
<1> QED BY <1>1, <1>2, <1>3, <1>4, <1>5, <1>6, <1>7, <1>8, <1>9 DEF Next, CloseTable

\* A caller sees a closed channel only for the reasons of ClosedWhy.
LEMMA CancelledStep == IndInv /\ [Next]_vars => CancelledOnlyByClose'
<1> SUFFICES ASSUME IndInv, [Next]_vars PROVE CancelledOnlyByClose'
  OBVIOUS
<1> USE SentinelAssumption
    DEF IndInv, TypeOK, NamedIds, OutcomeStage, ClosedWhy, CancelledOnlyByClose, SharesId
<1>1. CASE NewMessage
  BY <1>1 DEF NewMessage
<1>2. ASSUME NEW r \in Requests, Call(r) PROVE CancelledOnlyByClose'
  <2>1. CASE Put(r)
    BY <2>1, FilledIdInIds DEF Put
  <2>2. CASE SendOk(r) \/ SendErr(r) \/ CtxDone(r) \/ Cancelled(r)
    BY <2>2 DEF SendOk, SendErr, DeferredClose, CtxDone, Cancelled, Leave
  <2>3. CASE PendingLookup(r)
    BY <2>3 DEF PendingLookup, LoadAndDelete, AfterClose, InClose
  <2>4. CASE PendingClose(r)
    BY <2>4 DEF PendingClose, CloseChannel, AfterClose, InClose
  <2> QED BY <1>2, <2>1, <2>2, <2>3, <2>4 DEF Call
<1>3. ASSUME NEW f \in Feeders, Deliver(f) PROVE CancelledOnlyByClose'
  BY <1>3 DEF Deliver, Leave
<1>4. ASSUME NEW f \in Feeders, NEW m \in Messages, Feed(f, m) PROVE CancelledOnlyByClose'
  BY <1>4 DEF Feed, Key, LoadAndDelete, Matches
<1>5. CASE RangeBegin
  BY <1>5 DEF RangeBegin
<1>6. ASSUME NEW i \in Ids, RangeVisit(i) PROVE CancelledOnlyByClose'
  BY <1>6 DEF RangeVisit, TakeOut, LoadAndDelete
<1>7. CASE RangeClose
  BY <1>7 DEF RangeClose, CloseChannel
<1>8. CASE RangeEnd
  BY <1>8 DEF RangeEnd
<1>9. CASE UNCHANGED vars
  BY <1>9 DEF vars
<1> QED BY <1>1, <1>2, <1>3, <1>4, <1>5, <1>6, <1>7, <1>8, <1>9 DEF Next, CloseTable

\* LoadAndDelete moves an entry from the table into one hand, in one step.
LEMMA SingleOwnerStep == IndInv /\ [Next]_vars => SingleOwner'
<1> SUFFICES ASSUME IndInv, [Next]_vars PROVE SingleOwner'
  OBVIOUS
<1> USE ActorsAssumption, SentinelAssumption
    DEF IndInv, TypeOK, NamedIds, FiledById, HandKnown, ClosedWhy, OutcomeStage, SingleOwner, Pending, HeldBy
<1>1. CASE NewMessage
  BY <1>1 DEF NewMessage
<1>2. ASSUME NEW r \in Requests, Call(r) PROVE SingleOwner'
  <2>1. CASE Put(r)
    BY <2>1, FilledIdInIds DEF Put
  <2>2. CASE SendOk(r) \/ SendErr(r) \/ CtxDone(r) \/ Cancelled(r)
    BY <2>2 DEF SendOk, SendErr, DeferredClose, CtxDone, Cancelled, Leave
  <2>3. CASE PendingLookup(r)
    BY <2>3, LookupById DEF TypeInv, PendingLookup, LoadAndDelete, AfterClose, InClose
  <2>4. CASE PendingClose(r)
    BY <2>4 DEF PendingClose, CloseChannel, AfterClose, InClose
  <2> QED BY <1>2, <2>1, <2>2, <2>3, <2>4 DEF Call
<1>3. ASSUME NEW f \in Feeders, Deliver(f) PROVE SingleOwner'
  BY <1>3 DEF Deliver, Leave
<1>4. ASSUME NEW f \in Feeders, NEW m \in Messages, Feed(f, m) PROVE SingleOwner'
  BY <1>4, HeaderAssumption DEF Feed, Key, LoadAndDelete, Matches
<1>5. CASE RangeBegin
  BY <1>5 DEF RangeBegin
<1>6. ASSUME NEW i \in Ids, RangeVisit(i) PROVE SingleOwner'
  BY <1>6 DEF RangeVisit, TakeOut, LoadAndDelete
<1>7. CASE RangeClose
  BY <1>7 DEF RangeClose, CloseChannel
<1>8. CASE RangeEnd
  BY <1>8 DEF RangeEnd
<1>9. CASE UNCHANGED vars
  BY <1>9 DEF vars
<1> QED BY <1>1, <1>2, <1>3, <1>4, <1>5, <1>6, <1>7, <1>8, <1>9 DEF Next, CloseTable

\* An entry leaves the table only into a hand, by overwriting, or for good.
LEMMA NoOrphanStep == IndInv /\ [Next]_vars => NoOrphan'
<1> SUFFICES ASSUME IndInv, [Next]_vars PROVE NoOrphan'
  OBVIOUS
<1> USE ActorsAssumption, SentinelAssumption
    DEF IndInv, TypeOK, NamedIds, FiledById, HandKnown, SingleOwner, NoOrphan, Pending, HeldBy, SharesId
<1>1. CASE NewMessage
  BY <1>1 DEF NewMessage
<1>2. ASSUME NEW r \in Requests, Call(r) PROVE NoOrphan'
  <2>1. CASE Put(r)
    BY <2>1, FilledIdInIds DEF Put
  <2>2. CASE SendOk(r) \/ SendErr(r) \/ CtxDone(r) \/ Cancelled(r)
    BY <2>2 DEF SendOk, SendErr, DeferredClose, CtxDone, Cancelled, Leave
  <2>3. CASE PendingLookup(r)
    BY <2>3, LookupById DEF TypeInv, PendingLookup, LoadAndDelete, AfterClose, InClose
  <2>4. CASE PendingClose(r)
    BY <2>4 DEF PendingClose, CloseChannel, AfterClose, InClose
  <2> QED BY <1>2, <2>1, <2>2, <2>3, <2>4 DEF Call
<1>3. ASSUME NEW f \in Feeders, Deliver(f) PROVE NoOrphan'
  BY <1>3 DEF Deliver, Leave
<1>4. ASSUME NEW f \in Feeders, NEW m \in Messages, Feed(f, m) PROVE NoOrphan'
  BY <1>4, HeaderAssumption DEF Feed, Key, LoadAndDelete, Matches
<1>5. CASE RangeBegin
  BY <1>5 DEF RangeBegin
<1>6. ASSUME NEW i \in Ids, RangeVisit(i) PROVE NoOrphan'
  BY <1>6 DEF RangeVisit, TakeOut, LoadAndDelete
<1>7. CASE RangeClose
  BY <1>7 DEF RangeClose, CloseChannel
<1>8. CASE RangeEnd
  BY <1>8 DEF RangeEnd
<1>9. CASE UNCHANGED vars
  BY <1>9 DEF vars
<1> QED BY <1>1, <1>2, <1>3, <1>4, <1>5, <1>6, <1>7, <1>8, <1>9 DEF Next, CloseTable

LEMMA IndInit == Init => IndInv
  BY TypeInit, SentinelAssumption
     DEF Init, IndInv, TypeInv, NamedIds, FiledById, HandKnown, OutcomeStage, LastCloseRemoved,
         ClosedWhy, SingleOwner, RightReply, NoOrphan, CancelledOnlyByClose, NoLeak,
         Pending, HeldBy

LEMMA IndStep == IndInv /\ [Next]_vars => IndInv'
  BY TypeStep, FiledByIdStep, HandKnownStep, OutcomeStageStep, RightReplyStep,
     LastCloseRemovedStep, NoLeakStep, ClosedWhyStep, CancelledStep, SingleOwnerStep,
     NoOrphanStep
     DEF IndInv, TypeInv

LEMMA Inductive == Spec => []IndInv
  BY IndInit, IndStep, PTL DEF Spec

-----------------------------------------------------------------------------
(* The theorems.                                                           *)

\* Whatever the interleaving of callers, feeders and Close, an entry has one
\* owner, so no feeder sends on a closed channel and no channel is closed twice.
THEOREM EntriesHaveOneOwner == Spec => []SingleOwner
  BY Inductive, PTL DEF IndInv

\* A caller is only given a message that relates to its own id.
THEOREM RepliesAreCorrelated == Spec => []RightReply
  BY Inductive, PTL DEF IndInv

\* A waiting caller can still be answered or cancelled unless its id is shared.
THEOREM WaitersAreReachable == Spec => []NoOrphan
  BY Inductive, PTL DEF IndInv

\* "operation cancelled" means that the table was closed or the id is shared.
THEOREM CancellationHasACause == Spec => []CancelledOnlyByClose
  BY Inductive, PTL DEF IndInv

\* A call that returned has left no entry in the table.
THEOREM ReturnedCallsLeaveNothing == Spec => []NoLeak
  BY Inductive, PTL DEF IndInv
=============================================================================
