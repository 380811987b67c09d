--------------------------- MODULE ConnPoolProofs ---------------------------
(* Theorems about ConnPool, for any senders and any number of dials.       *)
EXTENDS ConnPool, TLAPS

USE DEF connVars, Actors, Conns

-----------------------------------------------------------------------------
(* The inductive step, one lemma per conjunct of IndInv.                   *)

\* No step breaks the types.
LEMMA TypeStep == IndInv /\ [Next]_vars => TypeOK'
<1> SUFFICES ASSUME IndInv, [Next]_vars PROVE TypeOK'
  OBVIOUS
<1> USE PoolAssumption DEF IndInv, TypeOK, Allocated
<1>1. ASSUME NEW s \in Senders, GetConn(s) PROVE TypeOK'
  <2>1. CASE LoadConn(s)
    BY <2>1 DEF LoadConn, Goto
  <2>2. CASE StoreConn(s)
    BY <2>2 DEF StoreConn, Absent, Goto
  <2>3. CASE ReturnConn(s)
    BY <2>3 DEF ReturnConn, Settled, Goto
  <2>4. CASE BeginDial(s)
    BY <2>4 DEF BeginDial, Goto
  <2>5. CASE DialOk(s)
    BY <2>5 DEF DialOk, Goto
  <2>6. CASE DialFails(s)
    BY <2>6 DEF DialFails, ThenClose, Goto
  <2>7. CASE SetConn(s)
    BY <2>7 DEF SetConn, Goto
  <2>8. CASE FailureDone(s)
    BY <2>8 DEF FailureDone, Goto
  <2> QED BY <1>1, <2>1, <2>2, <2>3, <2>4, <2>5, <2>6, <2>7, <2>8 DEF GetConn
<1>2. ASSUME NEW c \in Conns, PeerLeaves(c) \/ FeedBlocks(c) \/ WaitReturns(c) PROVE TypeOK'
  <2>1. CASE PeerLeaves(c)
    BY <2>1 DEF PeerLeaves
  <2>2. CASE FeedBlocks(c)
    BY <2>2 DEF FeedBlocks
  <2>3. CASE WaitReturns(c)
    BY <2>3 DEF WaitReturns, WaitEnd
  <2> QED BY <1>2, <2>1, <2>2, <2>3
<1>3. ASSUME NEW a \in Actors, Close(a) PROVE TypeOK'
  <2>1. CASE TakeOut(a)
    BY <2>1 DEF TakeOut, TakenOut
  <2>2. CASE CloseVictim(a)
    BY <2>2 DEF CloseVictim
  <2> QED BY <1>3, <2>1, <2>2 DEF Close
<1>4. CASE NodeCloses
  BY <1>4 DEF NodeCloses
<1>5. CASE UNCHANGED vars
  BY <1>5 DEF vars
<1> QED BY <1>1, <1>2, <1>3, <1>4, <1>5 DEF Next

\* Nothing refers to a cachedConn that is not stored yet.
LEMMA AllocatedStep == IndInv /\ [Next]_vars => Allocated'
<1> SUFFICES ASSUME IndInv, [Next]_vars PROVE Allocated'
  OBVIOUS
<1> USE PoolAssumption DEF IndInv, TypeOK, Allocated
<1>1. ASSUME NEW s \in Senders, GetConn(s) PROVE Allocated'
  <2>1. CASE LoadConn(s)
    BY <2>1 DEF LoadConn, Goto
  <2>2. CASE StoreConn(s)
    BY <2>2 DEF StoreConn, Absent, Goto
  <2>3. CASE ReturnConn(s)
    BY <2>3 DEF ReturnConn, Settled, Goto
  <2>4. CASE BeginDial(s)
    BY <2>4 DEF BeginDial, Goto
  <2>5. CASE DialOk(s)
    BY <2>5 DEF DialOk, Goto
  <2>6. CASE DialFails(s)
    BY <2>6 DEF DialFails, ThenClose, Goto
  <2>7. CASE SetConn(s)
    BY <2>7 DEF SetConn, Goto
  <2>8. CASE FailureDone(s)
    BY <2>8 DEF FailureDone, Goto
  <2> QED BY <1>1, <2>1, <2>2, <2>3, <2>4, <2>5, <2>6, <2>7, <2>8 DEF GetConn
<1>2. ASSUME NEW c \in Conns, PeerLeaves(c) \/ FeedBlocks(c) \/ WaitReturns(c) PROVE Allocated'
  <2>1. CASE PeerLeaves(c)
    BY <2>1 DEF PeerLeaves
  <2>2. CASE FeedBlocks(c)
    BY <2>2 DEF FeedBlocks
  <2>3. CASE WaitReturns(c)
    BY <2>3 DEF WaitReturns, WaitEnd
  <2> QED BY <1>2, <2>1, <2>2, <2>3
<1>3. ASSUME NEW a \in Actors, Close(a) PROVE Allocated'
  <2>1. CASE TakeOut(a)
    BY <2>1 DEF TakeOut, TakenOut
  <2>2. CASE CloseVictim(a)
    BY <2>2 DEF CloseVictim
  <2> QED BY <1>3, <2>1, <2>2 DEF Close
<1>4. CASE NodeCloses
  BY <1>4 DEF NodeCloses
<1>5. CASE UNCHANGED vars
  BY <1>5 DEF vars
<1> QED BY <1>1, <1>2, <1>3, <1>4, <1>5 DEF Next

\* One sender dials for a cachedConn.
LEMMA DialerStep == IndInv /\ [Next]_vars => DialerIsAlone'
<1> SUFFICES ASSUME IndInv, [Next]_vars PROVE DialerIsAlone'
  OBVIOUS
<1> USE PoolAssumption DEF IndInv, TypeOK, Allocated, Dials, DialerIsAlone
<1>1. ASSUME NEW s \in Senders, GetConn(s) PROVE DialerIsAlone'
  <2>1. CASE LoadConn(s)
    BY <2>1 DEF LoadConn, Goto
  <2>2. CASE StoreConn(s)
    BY <2>2 DEF StoreConn, Absent, Goto
  <2>3. CASE ReturnConn(s)
    BY <2>3 DEF ReturnConn, Settled, Goto
  <2>4. CASE BeginDial(s)
    BY <2>4 DEF BeginDial, Goto
  <2>5. CASE DialOk(s)
    BY <2>5 DEF DialOk, Goto
  <2>6. CASE DialFails(s)
    BY <2>6 DEF DialFails, ThenClose, Goto
  <2>7. CASE SetConn(s)
    BY <2>7 DEF SetConn, Goto
  <2>8. CASE FailureDone(s)
    BY <2>8 DEF FailureDone, Goto
  <2> QED BY <1>1, <2>1, <2>2, <2>3, <2>4, <2>5, <2>6, <2>7, <2>8 DEF GetConn
<1>2. ASSUME NEW c \in Conns, PeerLeaves(c) \/ FeedBlocks(c) \/ WaitReturns(c) PROVE DialerIsAlone'
  <2>1. CASE PeerLeaves(c)
    BY <2>1 DEF PeerLeaves
  <2>2. CASE FeedBlocks(c)
    BY <2>2 DEF FeedBlocks
  <2>3. CASE WaitReturns(c)
    BY <2>3 DEF WaitReturns, WaitEnd
  <2> QED BY <1>2, <2>1, <2>2, <2>3
<1>3. ASSUME NEW a \in Actors, Close(a) PROVE DialerIsAlone'
  <2>1. CASE TakeOut(a)
    BY <2>1 DEF TakeOut, TakenOut
  <2>2. CASE CloseVictim(a)
    BY <2>2 DEF CloseVictim
  <2> QED BY <1>3, <2>1, <2>2 DEF Close
<1>4. CASE NodeCloses
  BY <1>4 DEF NodeCloses
<1>5. CASE UNCHANGED vars
  BY <1>5 DEF vars
<1> QED BY <1>1, <1>2, <1>3, <1>4, <1>5 DEF Next

\* The connection is not read or closed before its dial ends.
LEMMA DialStateStep == IndInv /\ [Next]_vars => DialState'
<1> SUFFICES ASSUME IndInv, [Next]_vars PROVE DialState'
  OBVIOUS
<1> USE PoolAssumption DEF IndInv, TypeOK, Allocated, Dials, DialerIsAlone, DialState
<1>1. ASSUME NEW s \in Senders, GetConn(s) PROVE DialState'
  <2>1. CASE LoadConn(s)
    BY <2>1 DEF LoadConn, Goto
  <2>2. CASE StoreConn(s)
    BY <2>2 DEF StoreConn, Absent, Goto
  <2>3. CASE ReturnConn(s)
    BY <2>3 DEF ReturnConn, Settled, Goto
  <2>4. CASE BeginDial(s)
    BY <2>4 DEF BeginDial, Goto
  <2>5. CASE DialOk(s)
    BY <2>5 DEF DialOk, Goto
  <2>6. CASE DialFails(s)
    BY <2>6 DEF DialFails, ThenClose, Goto
  <2>7. CASE SetConn(s)
    BY <2>7 DEF SetConn, Goto
  <2>8. CASE FailureDone(s)
    BY <2>8 DEF FailureDone, Goto
  <2> QED BY <1>1, <2>1, <2>2, <2>3, <2>4, <2>5, <2>6, <2>7, <2>8 DEF GetConn
<1>2. ASSUME NEW c \in Conns, PeerLeaves(c) \/ FeedBlocks(c) \/ WaitReturns(c) PROVE DialState'
  <2>1. CASE PeerLeaves(c)
    BY <2>1 DEF PeerLeaves
  <2>2. CASE FeedBlocks(c)
    BY <2>2 DEF FeedBlocks
  <2>3. CASE WaitReturns(c)
    BY <2>3 DEF WaitReturns, WaitEnd
  <2> QED BY <1>2, <2>1, <2>2, <2>3
<1>3. ASSUME NEW a \in Actors, Close(a) PROVE DialState'
  <2>1. CASE TakeOut(a)
    BY <2>1 DEF TakeOut, TakenOut
  <2>2. CASE CloseVictim(a)
    BY <2>2 DEF CloseVictim
  <2> QED BY <1>3, <2>1, <2>2 DEF Close
<1>4. CASE NodeCloses
  BY <1>4 DEF NodeCloses
<1>5. CASE UNCHANGED vars
  BY <1>5 DEF vars
<1> QED BY <1>1, <1>2, <1>3, <1>4, <1>5 DEF Next

\* A Once that is done left a connection or an error.
LEMMA SettledStep == IndInv /\ [Next]_vars => SettledConns'
<1> SUFFICES ASSUME IndInv, [Next]_vars PROVE SettledConns'
  OBVIOUS
<1> USE PoolAssumption DEF IndInv, TypeOK, Allocated, Dials, DialerIsAlone, DialState, Settled, SettledConns
<1>1. ASSUME NEW s \in Senders, GetConn(s) PROVE SettledConns'
  <2>1. CASE LoadConn(s)
    BY <2>1 DEF LoadConn, Goto
  <2>2. CASE StoreConn(s)
    BY <2>2 DEF StoreConn, Absent, Goto
  <2>3. CASE ReturnConn(s)
    BY <2>3 DEF ReturnConn, Settled, Goto
  <2>4. CASE BeginDial(s)
    BY <2>4 DEF BeginDial, Goto
  <2>5. CASE DialOk(s)
    BY <2>5 DEF DialOk, Goto
  <2>6. CASE DialFails(s)
    BY <2>6 DEF DialFails, ThenClose, Goto
  <2>7. CASE SetConn(s)
    BY <2>7 DEF SetConn, Goto
  <2>8. CASE FailureDone(s)
    BY <2>8 DEF FailureDone, Goto
  <2> QED BY <1>1, <2>1, <2>2, <2>3, <2>4, <2>5, <2>6, <2>7, <2>8 DEF GetConn
<1>2. ASSUME NEW c \in Conns, PeerLeaves(c) \/ FeedBlocks(c) \/ WaitReturns(c) PROVE SettledConns'
  <2>1. CASE PeerLeaves(c)
    BY <2>1 DEF PeerLeaves
  <2>2. CASE FeedBlocks(c)
    BY <2>2 DEF FeedBlocks
  <2>3. CASE WaitReturns(c)
    BY <2>3 DEF WaitReturns, WaitEnd
  <2> QED BY <1>2, <2>1, <2>2, <2>3
<1>3. ASSUME NEW a \in Actors, Close(a) PROVE SettledConns'
  <2>1. CASE TakeOut(a)
    BY <2>1 DEF TakeOut, TakenOut
  <2>2. CASE CloseVictim(a)
    BY <2>2 DEF CloseVictim
  <2> QED BY <1>3, <2>1, <2>2 DEF Close
<1>4. CASE NodeCloses
  BY <1>4 DEF NodeCloses
<1>5. CASE UNCHANGED vars
  BY <1>5 DEF vars
<1> QED BY <1>1, <1>2, <1>3, <1>4, <1>5 DEF Next

\* Before SiteNode.Close a cachedConn is taken out only by itself.
LEMMA PooledStep == IndInv /\ [Next]_vars => PooledUntilClosed'
<1> SUFFICES ASSUME IndInv, [Next]_vars PROVE PooledUntilClosed'
  OBVIOUS
<1> USE PoolAssumption DEF IndInv, TypeOK, Allocated, Dials, DialState, PooledUntilClosed, PooledIsAlive
<1>1. ASSUME NEW s \in Senders, GetConn(s) PROVE PooledUntilClosed'
  <2>1. CASE LoadConn(s)
    BY <2>1 DEF LoadConn, Goto
  <2>2. CASE StoreConn(s)
    BY <2>2 DEF StoreConn, Absent, Goto
  <2>3. CASE ReturnConn(s)
    BY <2>3 DEF ReturnConn, Settled, Goto
  <2>4. CASE BeginDial(s)
    BY <2>4 DEF BeginDial, Goto
  <2>5. CASE DialOk(s)
    BY <2>5 DEF DialOk, Goto
  <2>6. CASE DialFails(s)
    BY <2>6 DEF DialFails, ThenClose, Goto
  <2>7. CASE SetConn(s)
    BY <2>7 DEF SetConn, Goto
  <2>8. CASE FailureDone(s)
    BY <2>8 DEF FailureDone, Goto
  <2> QED BY <1>1, <2>1, <2>2, <2>3, <2>4, <2>5, <2>6, <2>7, <2>8 DEF GetConn
<1>2. ASSUME NEW c \in Conns, PeerLeaves(c) \/ FeedBlocks(c) \/ WaitReturns(c) PROVE PooledUntilClosed'
  <2>1. CASE PeerLeaves(c)
    BY <2>1 DEF PeerLeaves
  <2>2. CASE FeedBlocks(c)
    BY <2>2 DEF FeedBlocks
  <2>3. CASE WaitReturns(c)
    BY <2>3 DEF WaitReturns, WaitEnd
  <2> QED BY <1>2, <2>1, <2>2, <2>3
<1>3. ASSUME NEW a \in Actors, Close(a) PROVE PooledUntilClosed'
  <2>1. CASE TakeOut(a)
    BY <2>1 DEF TakeOut, TakenOut
  <2>2. CASE CloseVictim(a)
    BY <2>2 DEF CloseVictim
  <2> QED BY <1>3, <2>1, <2>2 DEF Close
<1>4. CASE NodeCloses
  BY <1>4 DEF NodeCloses
<1>5. CASE UNCHANGED vars
  BY <1>5 DEF vars
<1> QED BY <1>1, <1>2, <1>3, <1>4, <1>5 DEF Next

\* What is being closed was taken out before.
LEMMA AliveStep == IndInv /\ [Next]_vars => PooledIsAlive'
<1> SUFFICES ASSUME IndInv, [Next]_vars PROVE PooledIsAlive'
  OBVIOUS
<1> USE PoolAssumption DEF IndInv, TypeOK, Allocated, DialerIsAlone, DialState, Dials, PooledUntilClosed, PooledIsAlive
<1>1. ASSUME NEW s \in Senders, GetConn(s) PROVE PooledIsAlive'
  <2>1. CASE LoadConn(s)
    BY <2>1 DEF LoadConn, Goto
  <2>2. CASE StoreConn(s)
    BY <2>2 DEF StoreConn, Absent, Goto
  <2>3. CASE ReturnConn(s)
    BY <2>3 DEF ReturnConn, Settled, Goto
  <2>4. CASE BeginDial(s)
    BY <2>4 DEF BeginDial, Goto
  <2>5. CASE DialOk(s)
    BY <2>5 DEF DialOk, Goto
  <2>6. CASE DialFails(s)
    BY <2>6 DEF DialFails, ThenClose, Goto
  <2>7. CASE SetConn(s)
    BY <2>7 DEF SetConn, Goto
  <2>8. CASE FailureDone(s)
    BY <2>8 DEF FailureDone, Goto
  <2> QED BY <1>1, <2>1, <2>2, <2>3, <2>4, <2>5, <2>6, <2>7, <2>8 DEF GetConn
<1>2. ASSUME NEW c \in Conns, PeerLeaves(c) \/ FeedBlocks(c) \/ WaitReturns(c) PROVE PooledIsAlive'
  <2>1. CASE PeerLeaves(c)
    BY <2>1 DEF PeerLeaves
  <2>2. CASE FeedBlocks(c)
    BY <2>2 DEF FeedBlocks
  <2>3. CASE WaitReturns(c)
    BY <2>3 DEF WaitReturns, WaitEnd
  <2> QED BY <1>2, <2>1, <2>2, <2>3
<1>3. ASSUME NEW a \in Actors, Close(a) PROVE PooledIsAlive'
  <2>1. CASE TakeOut(a)
    BY <2>1 DEF TakeOut, TakenOut
  <2>2. CASE CloseVictim(a)
    BY <2>2 DEF CloseVictim
  <2> QED BY <1>3, <2>1, <2>2 DEF Close
<1>4. CASE NodeCloses
  BY <1>4 DEF NodeCloses
<1>5. CASE UNCHANGED vars
  BY <1>5 DEF vars
<1> QED BY <1>1, <1>2, <1>3, <1>4, <1>5 DEF Next

\* A returned sender has a connection or an error.
LEMMA ConnStep == IndInv /\ [Next]_vars => ConnOrError'
<1> SUFFICES ASSUME IndInv, [Next]_vars PROVE ConnOrError'
  OBVIOUS
<1> USE PoolAssumption DEF IndInv, TypeOK, Allocated, DialState, Settled, SettledConns, ConnOrError
<1>1. ASSUME NEW s \in Senders, GetConn(s) PROVE ConnOrError'
  <2>1. CASE LoadConn(s)
    BY <2>1 DEF LoadConn, Goto
  <2>2. CASE StoreConn(s)
    BY <2>2 DEF StoreConn, Absent, Goto
  <2>3. CASE ReturnConn(s)
    BY <2>3 DEF ReturnConn, Settled, Goto
  <2>4. CASE BeginDial(s)
    BY <2>4 DEF BeginDial, Goto
  <2>5. CASE DialOk(s)
    BY <2>5 DEF DialOk, Goto
  <2>6. CASE DialFails(s)
    BY <2>6 DEF DialFails, ThenClose, Goto
  <2>7. CASE SetConn(s)
    BY <2>7 DEF SetConn, Goto
  <2>8. CASE FailureDone(s)
    BY <2>8 DEF FailureDone, Goto
  <2> QED BY <1>1, <2>1, <2>2, <2>3, <2>4, <2>5, <2>6, <2>7, <2>8 DEF GetConn
<1>2. ASSUME NEW c \in Conns, PeerLeaves(c) \/ FeedBlocks(c) \/ WaitReturns(c) PROVE ConnOrError'
  <2>1. CASE PeerLeaves(c)
    BY <2>1 DEF PeerLeaves
  <2>2. CASE FeedBlocks(c)
    BY <2>2 DEF FeedBlocks
  <2>3. CASE WaitReturns(c)
    BY <2>3 DEF WaitReturns, WaitEnd
  <2> QED BY <1>2, <2>1, <2>2, <2>3
<1>3. ASSUME NEW a \in Actors, Close(a) PROVE ConnOrError'
  <2>1. CASE TakeOut(a)
    BY <2>1 DEF TakeOut, TakenOut
  <2>2. CASE CloseVictim(a)
    BY <2>2 DEF CloseVictim
  <2> QED BY <1>3, <2>1, <2>2 DEF Close
<1>4. CASE NodeCloses
  BY <1>4 DEF NodeCloses
<1>5. CASE UNCHANGED vars
  BY <1>5 DEF vars
<1> QED BY <1>1, <1>2, <1>3, <1>4, <1>5 DEF Next

\* A reading goroutine takes out its own cachedConn until SiteNode.Close.
LEMMA OthersStep == IndInv /\ [Next]_vars => OnlyNodeClosesOthers'
<1> SUFFICES ASSUME IndInv, [Next]_vars PROVE OnlyNodeClosesOthers'
  OBVIOUS
<1> USE PoolAssumption DEF IndInv, TypeOK, Allocated, DialState, PooledUntilClosed, OnlyNodeClosesOthers
<1>1. ASSUME NEW s \in Senders, GetConn(s) PROVE OnlyNodeClosesOthers'
  <2>1. CASE LoadConn(s)
    BY <2>1 DEF LoadConn, Goto
  <2>2. CASE StoreConn(s)
    BY <2>2 DEF StoreConn, Absent, Goto
  <2>3. CASE ReturnConn(s)
    BY <2>3 DEF ReturnConn, Settled, Goto
  <2>4. CASE BeginDial(s)
    BY <2>4 DEF BeginDial, Goto
  <2>5. CASE DialOk(s)
    BY <2>5 DEF DialOk, Goto
  <2>6. CASE DialFails(s)
    BY <2>6 DEF DialFails, ThenClose, Goto
  <2>7. CASE SetConn(s)
    BY <2>7 DEF SetConn, Goto
  <2>8. CASE FailureDone(s)
    BY <2>8 DEF FailureDone, Goto
  <2> QED BY <1>1, <2>1, <2>2, <2>3, <2>4, <2>5, <2>6, <2>7, <2>8 DEF GetConn
<1>2. ASSUME NEW c \in Conns, PeerLeaves(c) \/ FeedBlocks(c) \/ WaitReturns(c) PROVE OnlyNodeClosesOthers'
  <2>1. CASE PeerLeaves(c)
    BY <2>1 DEF PeerLeaves
  <2>2. CASE FeedBlocks(c)
    BY <2>2 DEF FeedBlocks
  <2>3. CASE WaitReturns(c)
    BY <2>3 DEF WaitReturns, WaitEnd
  <2> QED BY <1>2, <2>1, <2>2, <2>3
<1>3. ASSUME NEW a \in Actors, Close(a) PROVE OnlyNodeClosesOthers'
  <2>1. CASE TakeOut(a)
    BY <2>1 DEF TakeOut, TakenOut
  <2>2. CASE CloseVictim(a)
    BY <2>2 DEF CloseVictim
  <2> QED BY <1>3, <2>1, <2>2 DEF Close
<1>4. CASE NodeCloses
  BY <1>4 DEF NodeCloses
<1>5. CASE UNCHANGED vars
  BY <1>5 DEF vars
<1> QED BY <1>1, <1>2, <1>3, <1>4, <1>5 DEF Next

-----------------------------------------------------------------------------
(* The theorems.                                                           *)

\* IndInv holds of every reachable state.
THEOREM Inductive == Spec => []IndInv
<1>1. Init => IndInv
  <2> SUFFICES ASSUME Init PROVE IndInv
    OBVIOUS
  <2> USE PoolAssumption
  <2>1. TypeOK /\ Allocated
    BY DEF Init, TypeOK, Allocated
  <2>2. DialerIsAlone /\ DialState /\ SettledConns
    BY DEF Init, DialerIsAlone, DialState, SettledConns, Settled, Dials
  <2>3. PooledUntilClosed /\ PooledIsAlive /\ ConnOrError /\ OnlyNodeClosesOthers
    BY DEF Init, PooledUntilClosed, PooledIsAlive, ConnOrError, OnlyNodeClosesOthers
  <2> QED BY <2>1, <2>2, <2>3 DEF IndInv
<1>2. IndInv /\ [Next]_vars => IndInv'
  BY TypeStep, AllocatedStep, DialerStep, DialStateStep, SettledStep, PooledStep,
     AliveStep, ConnStep, OthersStep DEF IndInv
<1> QED BY <1>1, <1>2, PTL DEF Spec

\* The variables keep their types.
THEOREM TypeCorrect == Spec => []TypeOK
<1>1. IndInv => TypeOK
  BY DEF IndInv
<1> QED BY <1>1, Inductive, PTL

\* getConn returns a connection or an error, whoever dialed
\* (sitenode_sender.go:23-48, 73).
THEOREM SendersGetConnOrError == Spec => []ConnOrError
<1>1. IndInv => ConnOrError
  BY DEF IndInv
<1> QED BY <1>1, Inductive, PTL

\* A cachedConn that closed itself is not in the pool (sitenode_sender.go:51).
THEOREM ClosedConnsLeaveThePool == Spec => []PooledIsAlive
<1>1. IndInv => PooledIsAlive
  BY DEF IndInv
<1> QED BY <1>1, Inductive, PTL

\* Until SiteNode.Close no connection is closed in place of another
\* (sitenode_sender.go:51).
THEOREM SuccessorsAreLeftAlone == Spec => []OnlyNodeClosesOthers
<1>1. IndInv => OnlyNodeClosesOthers
  BY DEF IndInv
<1> QED BY <1>1, Inductive, PTL
=============================================================================
