-------------------------- MODULE LeaseAgentProofs --------------------------
(* Theorems about LeaseAgent, for any agent, sessions and goroutines.      *)
EXTENDS LeaseAgent, TLAPS

USE DEF estVars, pingVars, stateVars, closeVars, AllClosers, MaybeSession, Closing,
        Stored, HasTimeout, CurrentCh, Finished

-----------------------------------------------------------------------------
(* The inductive step, one lemma per conjunct of IndInv.                   *)

\* No step breaks the types.
LEMMA TypeStep == IndInv /\ [Next]_vars => TypeOK'
<1> SUFFICES ASSUME IndInv, [Next]_vars PROVE TypeOK'
  OBVIOUS
<1> USE LeaseAssumption DEF IndInv, TypeOK, TargetsAreOpen
<1>1. ASSUME NEW s \in Sessions, Dial(s) \/ Store(s) \/ Stalls(s) PROVE TypeOK'
  <2>1. CASE Dial(s)
    BY <2>1 DEF Dial
  <2>2. CASE Store(s)
    BY <2>2 DEF Store
  <2>3. CASE Stalls(s)
    BY <2>3 DEF Stalls
  <2> QED BY <1>1, <2>1, <2>2, <2>3
<1>2. ASSUME NEW p \in Pingers, Ping(p) PROVE TypeOK'
  <2>1. CASE CallPing(p) \/ WritePing(p) \/ WriteFails(p)
    BY <2>1 DEF CallPing, WritePing, WriteFails
  <2>2. CASE TakeCh(p)
    BY <2>2 DEF TakeCh
  <2>3. CASE Released(p)
    BY <2>3 DEF Released, ChClosed, EndWait
  <2>4. CASE CtxDone(p)
    BY <2>4 DEF CtxDone, EndWait
  <2>5. CASE LoopCancelled(p) \/ LoopEnds(p)
    BY <2>5 DEF LoopCancelled, LoopEnds
  <2> QED BY <1>2, <2>1, <2>2, <2>3, <2>4, <2>5 DEF Ping
<1>3. ASSUME NEW h \in Handlers, OnPong(h) \/ \E a \in Addrs : LoadSession(h, a) PROVE TypeOK'
  <2>1. CASE OnPong(h)
    BY <2>1 DEF OnPong, Broadcast
  <2>2. ASSUME NEW a \in Addrs, LoadSession(h, a) PROVE TypeOK'
    BY <2>2 DEF LoadSession
  <2> QED BY <1>3, <2>1, <2>2
<1>4. ASSUME NEW c \in AllClosers, CloseSession(c) PROVE TypeOK'
  <2>1. CASE DeleteEntry(c)
    BY <2>1 DEF DeleteEntry
  <2>2. CASE AlreadyClosed(c)
    BY <2>2 DEF AlreadyClosed
  <2>3. CASE MarkClosed(c)
    BY <2>3 DEF MarkClosed
  <2>4. CASE UnlockPings(c)
    BY <2>4 DEF UnlockPings, LastBroadcast, Broadcast
  <2> QED BY <1>4, <2>1, <2>2, <2>3, <2>4 DEF CloseSession
<1>5. ASSUME NEW c \in AllClosers, NEW s \in Sessions, UserCloses(c, s) PROVE TypeOK'
  BY <1>5 DEF UserCloses
<1>6. CASE AgentCloses \/ AgentClosed
  BY <1>6 DEF AgentCloses, AgentClosed, ClosedDialer
<1>7. ASSUME NEW a \in Addrs, AgentVisits(a) PROVE TypeOK'
  BY <1>7 DEF AgentVisits, RangeGoesOn
<1>8. CASE UNCHANGED vars
  BY <1>8 DEF vars
<1> QED BY <1>1, <1>2, <1>3, <1>4, <1>5, <1>6, <1>7, <1>8 DEF Next

\* Only Store adds to the map, and it adds an open session under its address.
LEMMA EntriesStep == IndInv /\ [Next]_vars => EntriesAreOpen'
<1> SUFFICES ASSUME IndInv, [Next]_vars PROVE EntriesAreOpen'
  OBVIOUS
<1> USE LeaseAssumption DEF IndInv, TypeOK, EntriesAreOpen, TargetsAreOpen
<1>1. ASSUME NEW s \in Sessions, Dial(s) \/ Store(s) \/ Stalls(s) PROVE EntriesAreOpen'
  <2>1. CASE Dial(s)
    BY <2>1 DEF Dial
  <2>2. CASE Store(s)
    BY <2>2 DEF Store
  <2>3. CASE Stalls(s)
    BY <2>3 DEF Stalls
  <2> QED BY <1>1, <2>1, <2>2, <2>3
<1>2. ASSUME NEW p \in Pingers, Ping(p) PROVE EntriesAreOpen'
  <2>1. CASE CallPing(p) \/ WritePing(p) \/ WriteFails(p)
    BY <2>1 DEF CallPing, WritePing, WriteFails
  <2>2. CASE TakeCh(p)
    BY <2>2 DEF TakeCh
  <2>3. CASE Released(p)
    BY <2>3 DEF Released, ChClosed, EndWait
  <2>4. CASE CtxDone(p)
    BY <2>4 DEF CtxDone, EndWait
  <2>5. CASE LoopCancelled(p) \/ LoopEnds(p)
    BY <2>5 DEF LoopCancelled, LoopEnds
  <2> QED BY <1>2, <2>1, <2>2, <2>3, <2>4, <2>5 DEF Ping
<1>3. ASSUME NEW h \in Handlers, OnPong(h) \/ \E a \in Addrs : LoadSession(h, a) PROVE EntriesAreOpen'
  <2>1. CASE OnPong(h)
    BY <2>1 DEF OnPong, Broadcast
  <2>2. ASSUME NEW a \in Addrs, LoadSession(h, a) PROVE EntriesAreOpen'
    BY <2>2 DEF LoadSession
  <2> QED BY <1>3, <2>1, <2>2
<1>4. ASSUME NEW c \in AllClosers, CloseSession(c) PROVE EntriesAreOpen'
  <2>1. CASE DeleteEntry(c)
    BY <2>1 DEF DeleteEntry
  <2>2. CASE AlreadyClosed(c)
    BY <2>2 DEF AlreadyClosed
  <2>3. CASE MarkClosed(c)
    BY <2>3 DEF MarkClosed
  <2>4. CASE UnlockPings(c)
    BY <2>4 DEF UnlockPings, LastBroadcast, Broadcast
  <2> QED BY <1>4, <2>1, <2>2, <2>3, <2>4 DEF CloseSession
<1>5. ASSUME NEW c \in AllClosers, NEW s \in Sessions, UserCloses(c, s) PROVE EntriesAreOpen'
  BY <1>5 DEF UserCloses
<1>6. CASE AgentCloses \/ AgentClosed
  BY <1>6 DEF AgentCloses, AgentClosed, ClosedDialer
<1>7. ASSUME NEW a \in Addrs, AgentVisits(a) PROVE EntriesAreOpen'
  BY <1>7 DEF AgentVisits, RangeGoesOn
<1>8. CASE UNCHANGED vars
  BY <1>8 DEF vars
<1> QED BY <1>1, <1>2, <1>3, <1>4, <1>5, <1>6, <1>7, <1>8 DEF Next

\* Whoever closes a session has it from the map or from Establish.
LEMMA TargetsStep == IndInv /\ [Next]_vars => TargetsAreOpen'
<1> SUFFICES ASSUME IndInv, [Next]_vars PROVE TargetsAreOpen'
  OBVIOUS
<1> USE LeaseAssumption DEF IndInv, TypeOK, EntriesAreOpen, TargetsAreOpen
<1>1. ASSUME NEW s \in Sessions, Dial(s) \/ Store(s) \/ Stalls(s) PROVE TargetsAreOpen'
  <2>1. CASE Dial(s)
    BY <2>1 DEF Dial
  <2>2. CASE Store(s)
    BY <2>2 DEF Store
  <2>3. CASE Stalls(s)
    BY <2>3 DEF Stalls
  <2> QED BY <1>1, <2>1, <2>2, <2>3
<1>2. ASSUME NEW p \in Pingers, Ping(p) PROVE TargetsAreOpen'
  <2>1. CASE CallPing(p) \/ WritePing(p) \/ WriteFails(p)
    BY <2>1 DEF CallPing, WritePing, WriteFails
  <2>2. CASE TakeCh(p)
    BY <2>2 DEF TakeCh
  <2>3. CASE Released(p)
    BY <2>3 DEF Released, ChClosed, EndWait
  <2>4. CASE CtxDone(p)
    BY <2>4 DEF CtxDone, EndWait
  <2>5. CASE LoopCancelled(p) \/ LoopEnds(p)
    BY <2>5 DEF LoopCancelled, LoopEnds
  <2> QED BY <1>2, <2>1, <2>2, <2>3, <2>4, <2>5 DEF Ping
<1>3. ASSUME NEW h \in Handlers, OnPong(h) \/ \E a \in Addrs : LoadSession(h, a) PROVE TargetsAreOpen'
  <2>1. CASE OnPong(h)
    BY <2>1 DEF OnPong, Broadcast
  <2>2. ASSUME NEW a \in Addrs, LoadSession(h, a) PROVE TargetsAreOpen'
    BY <2>2 DEF LoadSession
  <2> QED BY <1>3, <2>1, <2>2
<1>4. ASSUME NEW c \in AllClosers, CloseSession(c) PROVE TargetsAreOpen'
  <2>1. CASE DeleteEntry(c)
    BY <2>1 DEF DeleteEntry
  <2>2. CASE AlreadyClosed(c)
    BY <2>2 DEF AlreadyClosed
  <2>3. CASE MarkClosed(c)
    BY <2>3 DEF MarkClosed
  <2>4. CASE UnlockPings(c)
    BY <2>4 DEF UnlockPings, LastBroadcast, Broadcast
  <2> QED BY <1>4, <2>1, <2>2, <2>3, <2>4 DEF CloseSession
<1>5. ASSUME NEW c \in AllClosers, NEW s \in Sessions, UserCloses(c, s) PROVE TargetsAreOpen'
  BY <1>5 DEF UserCloses
<1>6. CASE AgentCloses \/ AgentClosed
  BY <1>6 DEF AgentCloses, AgentClosed, ClosedDialer
<1>7. ASSUME NEW a \in Addrs, AgentVisits(a) PROVE TargetsAreOpen'
  BY <1>7 DEF AgentVisits, RangeGoesOn
<1>8. CASE UNCHANGED vars
  BY <1>8 DEF vars
<1> QED BY <1>1, <1>2, <1>3, <1>4, <1>5, <1>6, <1>7, <1>8 DEF Next

\* A broadcast that is no pong is that of a session just closed.
LEMMA GenStep == IndInv /\ [Next]_vars => GenCountsPongs'
<1> SUFFICES ASSUME IndInv, [Next]_vars PROVE GenCountsPongs'
  OBVIOUS
<1> USE LeaseAssumption DEF IndInv, TypeOK, TargetsAreOpen, GenCountsPongs
<1>1. ASSUME NEW s \in Sessions, Dial(s) \/ Store(s) \/ Stalls(s) PROVE GenCountsPongs'
  <2>1. CASE Dial(s)
    BY <2>1 DEF Dial
  <2>2. CASE Store(s)
    BY <2>2 DEF Store
  <2>3. CASE Stalls(s)
    BY <2>3 DEF Stalls
  <2> QED BY <1>1, <2>1, <2>2, <2>3
<1>2. ASSUME NEW p \in Pingers, Ping(p) PROVE GenCountsPongs'
  <2>1. CASE CallPing(p) \/ WritePing(p) \/ WriteFails(p)
    BY <2>1 DEF CallPing, WritePing, WriteFails
  <2>2. CASE TakeCh(p)
    BY <2>2 DEF TakeCh
  <2>3. CASE Released(p)
    BY <2>3 DEF Released, ChClosed, EndWait
  <2>4. CASE CtxDone(p)
    BY <2>4 DEF CtxDone, EndWait
  <2>5. CASE LoopCancelled(p) \/ LoopEnds(p)
    BY <2>5 DEF LoopCancelled, LoopEnds
  <2> QED BY <1>2, <2>1, <2>2, <2>3, <2>4, <2>5 DEF Ping
<1>3. ASSUME NEW h \in Handlers, OnPong(h) \/ \E a \in Addrs : LoadSession(h, a) PROVE GenCountsPongs'
  <2>1. CASE OnPong(h)
    BY <2>1 DEF OnPong, Broadcast
  <2>2. ASSUME NEW a \in Addrs, LoadSession(h, a) PROVE GenCountsPongs'
    BY <2>2 DEF LoadSession
  <2> QED BY <1>3, <2>1, <2>2
<1>4. ASSUME NEW c \in AllClosers, CloseSession(c) PROVE GenCountsPongs'
  <2>1. CASE DeleteEntry(c)
    BY <2>1 DEF DeleteEntry
  <2>2. CASE AlreadyClosed(c)
    BY <2>2 DEF AlreadyClosed
  <2>3. CASE MarkClosed(c)
    BY <2>3 DEF MarkClosed
  <2>4. CASE UnlockPings(c)
    BY <2>4 DEF UnlockPings, LastBroadcast, Broadcast
  <2> QED BY <1>4, <2>1, <2>2, <2>3, <2>4 DEF CloseSession
<1>5. ASSUME NEW c \in AllClosers, NEW s \in Sessions, UserCloses(c, s) PROVE GenCountsPongs'
  BY <1>5 DEF UserCloses
<1>6. CASE AgentCloses \/ AgentClosed
  BY <1>6 DEF AgentCloses, AgentClosed, ClosedDialer
<1>7. ASSUME NEW a \in Addrs, AgentVisits(a) PROVE GenCountsPongs'
  BY <1>7 DEF AgentVisits, RangeGoesOn
<1>8. CASE UNCHANGED vars
  BY <1>8 DEF vars
<1> QED BY <1>1, <1>2, <1>3, <1>4, <1>5, <1>6, <1>7, <1>8 DEF Next

\* Pongs only grow, and while the session is open the channel number keeps up with them.
LEMMA ChStep == IndInv /\ [Next]_vars => ChIsRecent'
<1> SUFFICES ASSUME IndInv, [Next]_vars PROVE ChIsRecent'
  OBVIOUS
<1> USE LeaseAssumption DEF IndInv, TypeOK, TargetsAreOpen, GenCountsPongs, ChIsRecent
<1>1. ASSUME NEW s \in Sessions, Dial(s) \/ Store(s) \/ Stalls(s) PROVE ChIsRecent'
  <2>1. CASE Dial(s)
    BY <2>1 DEF Dial
  <2>2. CASE Store(s)
    BY <2>2 DEF Store
  <2>3. CASE Stalls(s)
    BY <2>3 DEF Stalls
  <2> QED BY <1>1, <2>1, <2>2, <2>3
<1>2. ASSUME NEW p \in Pingers, Ping(p) PROVE ChIsRecent'
  <2>1. CASE CallPing(p) \/ WritePing(p) \/ WriteFails(p)
    BY <2>1 DEF CallPing, WritePing, WriteFails
  <2>2. CASE TakeCh(p)
    BY <2>2 DEF TakeCh
  <2>3. CASE Released(p)
    BY <2>3 DEF Released, ChClosed, EndWait
  <2>4. CASE CtxDone(p)
    BY <2>4 DEF CtxDone, EndWait
  <2>5. CASE LoopCancelled(p) \/ LoopEnds(p)
    BY <2>5 DEF LoopCancelled, LoopEnds
  <2> QED BY <1>2, <2>1, <2>2, <2>3, <2>4, <2>5 DEF Ping
<1>3. ASSUME NEW h \in Handlers, OnPong(h) \/ \E a \in Addrs : LoadSession(h, a) PROVE ChIsRecent'
  <2>1. CASE OnPong(h)
    BY <2>1 DEF OnPong, Broadcast
  <2>2. ASSUME NEW a \in Addrs, LoadSession(h, a) PROVE ChIsRecent'
    BY <2>2 DEF LoadSession
  <2> QED BY <1>3, <2>1, <2>2
<1>4. ASSUME NEW c \in AllClosers, CloseSession(c) PROVE ChIsRecent'
  <2>1. CASE DeleteEntry(c)
    BY <2>1 DEF DeleteEntry
  <2>2. CASE AlreadyClosed(c)
    BY <2>2 DEF AlreadyClosed
  <2>3. CASE MarkClosed(c)
    BY <2>3 DEF MarkClosed
  <2>4. CASE UnlockPings(c)
    BY <2>4 DEF UnlockPings, LastBroadcast, Broadcast
  <2> QED BY <1>4, <2>1, <2>2, <2>3, <2>4 DEF CloseSession
<1>5. ASSUME NEW c \in AllClosers, NEW s \in Sessions, UserCloses(c, s) PROVE ChIsRecent'
  BY <1>5 DEF UserCloses
<1>6. CASE AgentCloses \/ AgentClosed
  BY <1>6 DEF AgentCloses, AgentClosed, ClosedDialer
<1>7. ASSUME NEW a \in Addrs, AgentVisits(a) PROVE ChIsRecent'
  BY <1>7 DEF AgentVisits, RangeGoesOn
<1>8. CASE UNCHANGED vars
  BY <1>8 DEF vars
<1> QED BY <1>1, <1>2, <1>3, <1>4, <1>5, <1>6, <1>7, <1>8 DEF Next

\* Agent.Close replaces the dialer before it ranges and nothing restores it.
LEMMA DialerStep == IndInv /\ [Next]_vars => DialerFollowsClose'
<1> SUFFICES ASSUME IndInv, [Next]_vars PROVE DialerFollowsClose'
  OBVIOUS
<1> USE LeaseAssumption DEF IndInv, TypeOK, DialerFollowsClose
<1>1. ASSUME NEW s \in Sessions, Dial(s) \/ Store(s) \/ Stalls(s) PROVE DialerFollowsClose'
  <2>1. CASE Dial(s)
    BY <2>1 DEF Dial
  <2>2. CASE Store(s)
    BY <2>2 DEF Store
  <2>3. CASE Stalls(s)
    BY <2>3 DEF Stalls
  <2> QED BY <1>1, <2>1, <2>2, <2>3
<1>2. ASSUME NEW p \in Pingers, Ping(p) PROVE DialerFollowsClose'
  <2>1. CASE CallPing(p) \/ WritePing(p) \/ WriteFails(p)
    BY <2>1 DEF CallPing, WritePing, WriteFails
  <2>2. CASE TakeCh(p)
    BY <2>2 DEF TakeCh
  <2>3. CASE Released(p)
    BY <2>3 DEF Released, ChClosed, EndWait
  <2>4. CASE CtxDone(p)
    BY <2>4 DEF CtxDone, EndWait
  <2>5. CASE LoopCancelled(p) \/ LoopEnds(p)
    BY <2>5 DEF LoopCancelled, LoopEnds
  <2> QED BY <1>2, <2>1, <2>2, <2>3, <2>4, <2>5 DEF Ping
<1>3. ASSUME NEW h \in Handlers, OnPong(h) \/ \E a \in Addrs : LoadSession(h, a) PROVE DialerFollowsClose'
  <2>1. CASE OnPong(h)
    BY <2>1 DEF OnPong, Broadcast
  <2>2. ASSUME NEW a \in Addrs, LoadSession(h, a) PROVE DialerFollowsClose'
    BY <2>2 DEF LoadSession
  <2> QED BY <1>3, <2>1, <2>2
<1>4. ASSUME NEW c \in AllClosers, CloseSession(c) PROVE DialerFollowsClose'
  <2>1. CASE DeleteEntry(c)
    BY <2>1 DEF DeleteEntry
  <2>2. CASE AlreadyClosed(c)
    BY <2>2 DEF AlreadyClosed
  <2>3. CASE MarkClosed(c)
    BY <2>3 DEF MarkClosed
  <2>4. CASE UnlockPings(c)
    BY <2>4 DEF UnlockPings, LastBroadcast, Broadcast
  <2> QED BY <1>4, <2>1, <2>2, <2>3, <2>4 DEF CloseSession
<1>5. ASSUME NEW c \in AllClosers, NEW s \in Sessions, UserCloses(c, s) PROVE DialerFollowsClose'
  BY <1>5 DEF UserCloses
<1>6. CASE AgentCloses \/ AgentClosed
  BY <1>6 DEF AgentCloses, AgentClosed, ClosedDialer
<1>7. ASSUME NEW a \in Addrs, AgentVisits(a) PROVE DialerFollowsClose'
  BY <1>7 DEF AgentVisits, RangeGoesOn
<1>8. CASE UNCHANGED vars
  BY <1>8 DEF vars
<1> QED BY <1>1, <1>2, <1>3, <1>4, <1>5, <1>6, <1>7, <1>8 DEF Next

\* The Range deletes what it finds under an address, so what is there later came later.
LEMMA VisitedStep == IndInv /\ [Next]_vars => VisitedEntriesAreLate'
<1> SUFFICES ASSUME IndInv, [Next]_vars PROVE VisitedEntriesAreLate'
  OBVIOUS
<1> USE LeaseAssumption DEF IndInv, TypeOK, EntriesAreOpen, TargetsAreOpen, VisitedEntriesAreLate, Visited
<1>1. ASSUME NEW s \in Sessions, Dial(s) \/ Store(s) \/ Stalls(s) PROVE VisitedEntriesAreLate'
  <2>1. CASE Dial(s)
    BY <2>1 DEF Dial
  <2>2. CASE Store(s)
    BY <2>2 DEF Store
  <2>3. CASE Stalls(s)
    BY <2>3 DEF Stalls
  <2> QED BY <1>1, <2>1, <2>2, <2>3
<1>2. ASSUME NEW p \in Pingers, Ping(p) PROVE VisitedEntriesAreLate'
  <2>1. CASE CallPing(p) \/ WritePing(p) \/ WriteFails(p)
    BY <2>1 DEF CallPing, WritePing, WriteFails
  <2>2. CASE TakeCh(p)
    BY <2>2 DEF TakeCh
  <2>3. CASE Released(p)
    BY <2>3 DEF Released, ChClosed, EndWait
  <2>4. CASE CtxDone(p)
    BY <2>4 DEF CtxDone, EndWait
  <2>5. CASE LoopCancelled(p) \/ LoopEnds(p)
    BY <2>5 DEF LoopCancelled, LoopEnds
  <2> QED BY <1>2, <2>1, <2>2, <2>3, <2>4, <2>5 DEF Ping
<1>3. ASSUME NEW h \in Handlers, OnPong(h) \/ \E a \in Addrs : LoadSession(h, a) PROVE VisitedEntriesAreLate'
  <2>1. CASE OnPong(h)
    BY <2>1 DEF OnPong, Broadcast
  <2>2. ASSUME NEW a \in Addrs, LoadSession(h, a) PROVE VisitedEntriesAreLate'
    BY <2>2 DEF LoadSession
  <2> QED BY <1>3, <2>1, <2>2
<1>4. ASSUME NEW c \in AllClosers, CloseSession(c) PROVE VisitedEntriesAreLate'
  <2>1. CASE DeleteEntry(c)
    BY <2>1 DEF DeleteEntry
  <2>2. CASE AlreadyClosed(c)
    BY <2>2 DEF AlreadyClosed
  <2>3. CASE MarkClosed(c)
    BY <2>3 DEF MarkClosed
  <2>4. CASE UnlockPings(c)
    BY <2>4 DEF UnlockPings, LastBroadcast, Broadcast
  <2> QED BY <1>4, <2>1, <2>2, <2>3, <2>4 DEF CloseSession
<1>5. ASSUME NEW c \in AllClosers, NEW s \in Sessions, UserCloses(c, s) PROVE VisitedEntriesAreLate'
  BY <1>5 DEF UserCloses
<1>6. CASE AgentCloses \/ AgentClosed
  BY <1>6 DEF AgentCloses, AgentClosed, ClosedDialer
<1>7. ASSUME NEW a \in Addrs, AgentVisits(a) PROVE VisitedEntriesAreLate'
  BY <1>7 DEF AgentVisits, RangeGoesOn
<1>8. CASE UNCHANGED vars
  BY <1>8 DEF vars
<1> QED BY <1>1, <1>2, <1>3, <1>4, <1>5, <1>6, <1>7, <1>8 DEF Next

\* Agent.Close takes no session once its Range is over.
LEMMA RangeStep == IndInv /\ [Next]_vars => RangeIsDone'
<1> SUFFICES ASSUME IndInv, [Next]_vars PROVE RangeIsDone'
  OBVIOUS
<1> USE LeaseAssumption DEF IndInv, TypeOK, RangeIsDone
<1>1. ASSUME NEW s \in Sessions, Dial(s) \/ Store(s) \/ Stalls(s) PROVE RangeIsDone'
  <2>1. CASE Dial(s)
    BY <2>1 DEF Dial
  <2>2. CASE Store(s)
    BY <2>2 DEF Store
  <2>3. CASE Stalls(s)
    BY <2>3 DEF Stalls
  <2> QED BY <1>1, <2>1, <2>2, <2>3
<1>2. ASSUME NEW p \in Pingers, Ping(p) PROVE RangeIsDone'
  <2>1. CASE CallPing(p) \/ WritePing(p) \/ WriteFails(p)
    BY <2>1 DEF CallPing, WritePing, WriteFails
  <2>2. CASE TakeCh(p)
    BY <2>2 DEF TakeCh
  <2>3. CASE Released(p)
    BY <2>3 DEF Released, ChClosed, EndWait
  <2>4. CASE CtxDone(p)
    BY <2>4 DEF CtxDone, EndWait
  <2>5. CASE LoopCancelled(p) \/ LoopEnds(p)
    BY <2>5 DEF LoopCancelled, LoopEnds
  <2> QED BY <1>2, <2>1, <2>2, <2>3, <2>4, <2>5 DEF Ping
<1>3. ASSUME NEW h \in Handlers, OnPong(h) \/ \E a \in Addrs : LoadSession(h, a) PROVE RangeIsDone'
  <2>1. CASE OnPong(h)
    BY <2>1 DEF OnPong, Broadcast
  <2>2. ASSUME NEW a \in Addrs, LoadSession(h, a) PROVE RangeIsDone'
    BY <2>2 DEF LoadSession
  <2> QED BY <1>3, <2>1, <2>2
<1>4. ASSUME NEW c \in AllClosers, CloseSession(c) PROVE RangeIsDone'
  <2>1. CASE DeleteEntry(c)
    BY <2>1 DEF DeleteEntry
  <2>2. CASE AlreadyClosed(c)
    BY <2>2 DEF AlreadyClosed
  <2>3. CASE MarkClosed(c)
    BY <2>3 DEF MarkClosed
  <2>4. CASE UnlockPings(c)
    BY <2>4 DEF UnlockPings, LastBroadcast, Broadcast
  <2> QED BY <1>4, <2>1, <2>2, <2>3, <2>4 DEF CloseSession
<1>5. ASSUME NEW c \in AllClosers, NEW s \in Sessions, UserCloses(c, s) PROVE RangeIsDone'
  BY <1>5 DEF UserCloses
<1>6. CASE AgentCloses \/ AgentClosed
  BY <1>6 DEF AgentCloses, AgentClosed, ClosedDialer
<1>7. ASSUME NEW a \in Addrs, AgentVisits(a) PROVE RangeIsDone'
  BY <1>7 DEF AgentVisits, RangeGoesOn
<1>8. CASE UNCHANGED vars
  BY <1>8 DEF vars
<1> QED BY <1>1, <1>2, <1>3, <1>4, <1>5, <1>6, <1>7, <1>8 DEF Next

\* An open session leaves the map only by being closed or replaced.
LEMMA RegisteredStep == IndInv /\ [Next]_vars => OpenSessionIsRegistered'
<1> SUFFICES ASSUME IndInv, [Next]_vars PROVE OpenSessionIsRegistered'
  OBVIOUS
<1> USE LeaseAssumption DEF IndInv, TypeOK, EntriesAreOpen, TargetsAreOpen, OpenSessionIsRegistered, BeingClosed, Displaced
<1>1. ASSUME NEW s \in Sessions, Dial(s) \/ Store(s) \/ Stalls(s) PROVE OpenSessionIsRegistered'
  <2>1. CASE Dial(s)
    BY <2>1 DEF Dial
  <2>2. CASE Store(s)
    BY <2>2 DEF Store
  <2>3. CASE Stalls(s)
    BY <2>3 DEF Stalls
  <2> QED BY <1>1, <2>1, <2>2, <2>3
<1>2. ASSUME NEW p \in Pingers, Ping(p) PROVE OpenSessionIsRegistered'
  <2>1. CASE CallPing(p) \/ WritePing(p) \/ WriteFails(p)
    BY <2>1, SMTT(60) DEF CallPing, WritePing, WriteFails
  <2>2. CASE TakeCh(p)
    BY <2>2, SMTT(60) DEF TakeCh
  <2>3. CASE Released(p)
    BY <2>3, SMTT(60) DEF Released, ChClosed, EndWait
  <2>4. CASE CtxDone(p)
    BY <2>4, SMTT(60) DEF CtxDone, EndWait
  <2>5. CASE LoopCancelled(p) \/ LoopEnds(p)
    BY <2>5, SMTT(60) DEF LoopCancelled, LoopEnds
  <2> QED BY <1>2, <2>1, <2>2, <2>3, <2>4, <2>5 DEF Ping
<1>3. ASSUME NEW h \in Handlers, OnPong(h) \/ \E a \in Addrs : LoadSession(h, a) PROVE OpenSessionIsRegistered'
  <2>1. CASE OnPong(h)
    BY <2>1 DEF OnPong, Broadcast
  <2>2. ASSUME NEW a \in Addrs, LoadSession(h, a) PROVE OpenSessionIsRegistered'
    BY <2>2 DEF LoadSession
  <2> QED BY <1>3, <2>1, <2>2
<1>4. ASSUME NEW c \in AllClosers, CloseSession(c) PROVE OpenSessionIsRegistered'
  <2>1. CASE DeleteEntry(c)
    BY <2>1, SMTT(60) DEF DeleteEntry
  <2>2. CASE AlreadyClosed(c)
    BY <2>2, SMTT(60) DEF AlreadyClosed
  <2>3. CASE MarkClosed(c)
    BY <2>3, SMTT(60) DEF MarkClosed
  <2>4. CASE UnlockPings(c)
    BY <2>4, SMTT(60) DEF UnlockPings, LastBroadcast, Broadcast
  <2> QED BY <1>4, <2>1, <2>2, <2>3, <2>4 DEF CloseSession
<1>5. ASSUME NEW c \in AllClosers, NEW s \in Sessions, UserCloses(c, s) PROVE OpenSessionIsRegistered'
  BY <1>5, SMTT(60) DEF UserCloses
<1>6. CASE AgentCloses \/ AgentClosed
  BY <1>6, SMTT(60) DEF AgentCloses, AgentClosed, ClosedDialer
<1>7. ASSUME NEW a \in Addrs, AgentVisits(a) PROVE OpenSessionIsRegistered'
  BY <1>7 DEF AgentVisits, RangeGoesOn
<1>8. CASE UNCHANGED vars
  BY <1>8 DEF vars
<1> QED BY <1>1, <1>2, <1>3, <1>4, <1>5, <1>6, <1>7, <1>8 DEF Next

\* The channel a ping waited on was closed by a later pong, or by Close.
LEMMA OkStep == IndInv /\ [Next]_vars => OkNeedsPong'
<1> SUFFICES ASSUME IndInv, [Next]_vars PROVE OkNeedsPong'
  OBVIOUS
<1> USE LeaseAssumption DEF IndInv, TypeOK, TargetsAreOpen, GenCountsPongs, ChIsRecent, OkNeedsPong
<1>1. ASSUME NEW s \in Sessions, Dial(s) \/ Store(s) \/ Stalls(s) PROVE OkNeedsPong'
  <2>1. CASE Dial(s)
    BY <2>1 DEF Dial
  <2>2. CASE Store(s)
    BY <2>2 DEF Store
  <2>3. CASE Stalls(s)
    BY <2>3 DEF Stalls
  <2> QED BY <1>1, <2>1, <2>2, <2>3
<1>2. ASSUME NEW p \in Pingers, Ping(p) PROVE OkNeedsPong'
  <2>1. CASE CallPing(p) \/ WritePing(p) \/ WriteFails(p)
    <3>1. CASE CallPing(p)
      BY <3>1 DEF CallPing
    <3>2. CASE WritePing(p)
      <4>1. verdict' = verdict /\ pongs' = pongs /\ closed' = closed /\ stage[p] = "writing"
        BY <3>2 DEF WritePing
      <4>2. sentAt' = [sentAt EXCEPT ![p] = pongs[SessionOf[p]]]
        BY <3>2 DEF WritePing
      <4>3. verdict[p] = "none"
        BY <4>1
      <4> QED BY <4>1, <4>2, <4>3
    <3>3. CASE WriteFails(p)
      BY <3>3 DEF WriteFails
    <3> QED BY <2>1, <3>1, <3>2, <3>3
  <2>2. CASE TakeCh(p)
    BY <2>2 DEF TakeCh
  <2>3. CASE Released(p)
    BY <2>3 DEF Released, ChClosed, EndWait
  <2>4. CASE CtxDone(p)
    BY <2>4 DEF CtxDone, EndWait
  <2>5. CASE LoopCancelled(p) \/ LoopEnds(p)
    BY <2>5 DEF LoopCancelled, LoopEnds
  <2> QED BY <1>2, <2>1, <2>2, <2>3, <2>4, <2>5 DEF Ping
<1>3. ASSUME NEW h \in Handlers, OnPong(h) \/ \E a \in Addrs : LoadSession(h, a) PROVE OkNeedsPong'
  <2>1. CASE OnPong(h)
    BY <2>1 DEF OnPong, Broadcast
  <2>2. ASSUME NEW a \in Addrs, LoadSession(h, a) PROVE OkNeedsPong'
    BY <2>2 DEF LoadSession
  <2> QED BY <1>3, <2>1, <2>2
<1>4. ASSUME NEW c \in AllClosers, CloseSession(c) PROVE OkNeedsPong'
  <2>1. CASE DeleteEntry(c)
    BY <2>1 DEF DeleteEntry
  <2>2. CASE AlreadyClosed(c)
    BY <2>2 DEF AlreadyClosed
  <2>3. CASE MarkClosed(c)
    BY <2>3 DEF MarkClosed
  <2>4. CASE UnlockPings(c)
    BY <2>4 DEF UnlockPings, LastBroadcast, Broadcast
  <2> QED BY <1>4, <2>1, <2>2, <2>3, <2>4 DEF CloseSession
<1>5. ASSUME NEW c \in AllClosers, NEW s \in Sessions, UserCloses(c, s) PROVE OkNeedsPong'
  BY <1>5 DEF UserCloses
<1>6. CASE AgentCloses \/ AgentClosed
  BY <1>6 DEF AgentCloses, AgentClosed, ClosedDialer
<1>7. ASSUME NEW a \in Addrs, AgentVisits(a) PROVE OkNeedsPong'
  BY <1>7 DEF AgentVisits, RangeGoesOn
<1>8. CASE UNCHANGED vars
  BY <1>8 DEF vars
<1> QED BY <1>1, <1>2, <1>3, <1>4, <1>5, <1>6, <1>7, <1>8 DEF Next

-----------------------------------------------------------------------------
(* The theorems.                                                           *)

\* IndInv holds of every reachable state.
THEOREM Inductive == Spec => []IndInv
<1>1. Init => IndInv
  BY LeaseAssumption DEF Init, IndInv, TypeOK, EntriesAreOpen, TargetsAreOpen, GenCountsPongs,
     ChIsRecent, DialerFollowsClose, VisitedEntriesAreLate, Visited, RangeIsDone,
     OpenSessionIsRegistered, OkNeedsPong
<1>2. IndInv /\ [Next]_vars => IndInv'
  BY TypeStep, EntriesStep, TargetsStep, GenStep, ChStep, DialerStep, VisitedStep, RangeStep,
     RegisteredStep, OkStep DEF IndInv
<1> QED BY <1>1, <1>2, PTL DEF Spec

\* The variables keep their types.
THEOREM TypeCorrect == Spec => []TypeOK
<1>1. IndInv => TypeOK
  BY DEF IndInv
<1> QED BY <1>1, Inductive, PTL

\* A session leaves the agent's map only when it is closed or replaced
\* (agent.go:117, 244).
THEOREM OpenSessionsStay == Spec => []OpenSessionIsRegistered
<1>1. IndInv => OpenSessionIsRegistered
  BY DEF IndInv
<1> QED BY <1>1, Inductive, PTL

\* When Agent.Close has returned every session is closed, or somebody is
\* closing it, but those stored after its Range began or displaced by another
\* of their address (agent.go:143-149).
THEOREM AgentCloseReachesAll == Spec => []AgentCloseReaches
<1>1. IndInv => AgentCloseReaches
  <2> SUFFICES ASSUME IndInv, ranging = "over", NEW s \in Sessions \ late, est[s] = "open"
               PROVE s \in closed \/ BeingClosed(s) \/ Displaced(s)
    BY DEF AgentCloseReaches
  <2>1. AddrOf[s] \in Addrs /\ Visited(AddrOf[s])
    BY LeaseAssumption DEF IndInv, RangeIsDone, Visited
  <2>2. sessions[AddrOf[s]] # s
    BY <2>1, LeaseAssumption DEF IndInv, VisitedEntriesAreLate
  <2> QED BY <2>2 DEF IndInv, OpenSessionIsRegistered
<1> QED BY <1>1, Inductive, PTL

\* A ping that succeeds saw a pong later than its write, or its session
\* closed (agent.go:293-318).
THEOREM PingsNeedPongs == Spec => []OkNeedsPong
<1>1. IndInv => OkNeedsPong
  BY DEF IndInv
<1> QED BY <1>1, Inductive, PTL

\* Nothing is dialed once Agent.Close has replaced the dialer (agent.go:141).
THEOREM ClosedAgentsDoNotDial == Spec => NoDialAfterClose
<1> DEFINE Fresh == \A s \in Sessions : est[s] = "none" /\ est'[s] = "dialed" => ranging = "no"
<1>1. IndInv /\ [Next]_vars => [Fresh]_vars
  <2> SUFFICES ASSUME IndInv, Next, NEW s \in Sessions, est[s] = "none", est'[s] = "dialed"
               PROVE ranging = "no"
    BY DEF vars
  <2>1. PICK t \in Sessions : Dial(t) \/ Store(t) \/ Stalls(t)
    <3>1. CASE \E p \in Pingers : Ping(p)
      BY <3>1 DEF Ping, CallPing, WritePing, WriteFails, TakeCh, Released, CtxDone, EndWait,
         LoopCancelled, LoopEnds
    <3>2. CASE \E h \in Handlers : OnPong(h) \/ \E a \in Addrs : LoadSession(h, a)
      BY <3>2 DEF OnPong, LoadSession
    <3>3. CASE \E c \in AllClosers : CloseSession(c) \/ \E u \in Sessions : UserCloses(c, u)
      BY <3>3 DEF CloseSession, DeleteEntry, AlreadyClosed, MarkClosed, UnlockPings, UserCloses
    <3>4. CASE AgentCloses \/ AgentClosed \/ \E a \in Addrs : AgentVisits(a)
      BY <3>4 DEF AgentCloses, AgentClosed, AgentVisits
    <3> QED BY <3>1, <3>2, <3>3, <3>4 DEF Next
  <2>2. CASE Dial(t)
    BY <2>2 DEF Dial, IndInv, TypeOK, DialerFollowsClose
  <2>3. CASE Store(t)
    BY <2>3 DEF Store, IndInv, TypeOK
  <2>4. CASE Stalls(t)
    BY <2>4 DEF Stalls
  <2> QED BY <2>1, <2>2, <2>3, <2>4
<1> QED BY <1>1, Inductive, PTL DEF Spec, NoDialAfterClose
=============================================================================
