--------------------------- MODULE HeartbeatProofs --------------------------
(* Theorems about Heartbeat, for any number of pingers and pings.          *)
EXTENDS Heartbeat, TLAPS, FiniteSetTheorems

USE DEF pingVars, wireVars, closeVars, Ticks, MutexFree, NewTime, Released, Verdict

\* No step of a ping, its handlers, its peer or Close breaks the types.
LEMMA TypeStep == TypeOK /\ LockHeld /\ [Next]_vars => TypeOK'
<1> SUFFICES ASSUME TypeOK, LockHeld, [Next]_vars PROVE TypeOK'
  OBVIOUS
<1> USE TickAssumption, PingerAssumption DEF TypeOK, LockHeld
<1>1. ASSUME NEW p \in Pingers, Ping(p) PROVE TypeOK'
  <2>1. CASE Call(p)
    BY <2>1 DEF Call
  <2>2. CASE Lock(p)
    <3>1. clock + 1 \in Ticks /\ clock + 1 \in 0 .. MaxTick
      BY <2>2 DEF Lock
    <3> QED BY <2>2, <3>1 DEF Lock
  <2>3. CASE Send(p)
    <3>1. tick[p] \in Ticks
      BY <2>3 DEF Send
    <3> QED BY <2>3, <3>1 DEF Send
  <2>4. CASE SendFails(p) \/ ReceiveClosed(p)
    BY <2>4 DEF SendFails, ReceiveClosed, Return
  <2>5. CASE CtxDone(p)
    <3>1. tick[p] \in Ticks
      BY <2>5 DEF CtxDone, Return
    <3> QED BY <2>5, <3>1 DEF CtxDone, Return
  <2>6. ASSUME NEW t \in Ticks, Receive(p, t) PROVE TypeOK'
    BY <2>6 DEF Receive, Return
  <2> QED BY <1>1, <2>1, <2>2, <2>3, <2>4, <2>5, <2>6 DEF Ping
<1>2. ASSUME NEW t \in Ticks, Echo(t) \/ Handle(t) PROVE TypeOK'
  BY <1>2 DEF Echo, Handle
<1>3. CASE HandlerPanics \/ CloseNet \/ ClosePingCh
  BY <1>3 DEF HandlerPanics, CloseNet, ClosePingCh
<1>4. CASE UNCHANGED vars
  BY <1>4 DEF vars
<1> QED BY <1>1, <1>2, <1>3, <1>4 DEF Next

-----------------------------------------------------------------------------
(* The inductive step, one lemma per conjunct of IndInv.                   *)

\* The mutex is taken only when free and released only by its holder.
LEMMA LockHeldStep == IndInv /\ [Next]_vars => LockHeld'
<1> SUFFICES ASSUME IndInv, [Next]_vars PROVE LockHeld'
  OBVIOUS
<1> USE TickAssumption, PingerAssumption
    DEF IndInv, TypeOK, LockHeld
<1>1. ASSUME NEW p \in Pingers, Ping(p) PROVE LockHeld'
  <2>1. CASE Call(p)
    BY <2>1 DEF Call
  <2>2. CASE Lock(p)
    BY <2>2 DEF Lock
  <2>3. CASE Send(p)
    BY <2>3 DEF Send
  <2>4. CASE SendFails(p) \/ ReceiveClosed(p)
    BY <2>4 DEF SendFails, ReceiveClosed, Return
  <2>5. CASE CtxDone(p)
    BY <2>5 DEF CtxDone, Return
  <2>6. ASSUME NEW t \in Ticks, Receive(p, t) PROVE LockHeld'
    BY <2>6 DEF Receive, Return
  <2> QED BY <1>1, <2>1, <2>2, <2>3, <2>4, <2>5, <2>6 DEF Ping
<1>2. ASSUME NEW t \in Ticks, Echo(t) \/ Handle(t) PROVE LockHeld'
  BY <1>2 DEF Echo, Handle
<1>3. CASE HandlerPanics \/ CloseNet \/ ClosePingCh
  BY <1>3 DEF HandlerPanics, CloseNet, ClosePingCh
<1>4. CASE UNCHANGED vars
  BY <1>4 DEF vars
<1> QED BY <1>1, <1>2, <1>3, <1>4 DEF Next

\* Each tick is new when it is taken and in one place while it travels.
LEMMA TickOrderStep == IndInv /\ [Next]_vars => TickOrder'
<1> SUFFICES ASSUME IndInv, [Next]_vars PROVE TickOrder'
  OBVIOUS
<1> USE TickAssumption, PingerAssumption
    DEF IndInv, TypeOK, LockHeld, TickOrder, Outstanding
<1>1. ASSUME NEW p \in Pingers, Ping(p) PROVE TickOrder'
  <2>1. CASE Call(p)
    BY <2>1 DEF Call
  <2>2. CASE Lock(p)
    BY <2>2 DEF Lock
  <2>3. CASE Send(p)
    <3>1. tick[p] \in Ticks /\ tick[p] = clock /\ tick[p] \notin Outstanding
      BY <2>3 DEF Send
    <3>2. \A q \in Pingers : stage'[q] # "sending"
      BY <2>3 DEF Send
    <3>3. /\ requests' = requests \cup {tick[p]}
          /\ UNCHANGED <<replies, handlers, cancelled, clock, tick, verdict>>
          /\ \A q \in Pingers : stage'[q] = "done" <=> stage[q] = "done"
      BY <2>3 DEF Send
    <3> QED BY <3>1, <3>2, <3>3
  <2>4. CASE SendFails(p) \/ ReceiveClosed(p)
    <3>1. /\ UNCHANGED <<clock, tick, requests, replies, handlers, cancelled>>
          /\ \A q \in Pingers : stage'[q] = IF q = p THEN "done" ELSE stage[q]
          /\ \A q \in Pingers : q # p => verdict'[q] = verdict[q]
      BY <2>4 DEF SendFails, ReceiveClosed, Return
    <3> QED BY <3>1
  <2>5. CASE CtxDone(p)
    BY <2>5 DEF CtxDone, Return
  <2>6. ASSUME NEW t \in Ticks, Receive(p, t) PROVE TickOrder'
    BY <2>6 DEF Receive, Return
  <2> QED BY <1>1, <2>1, <2>2, <2>3, <2>4, <2>5, <2>6 DEF Ping
<1>2. ASSUME NEW t \in Ticks, Echo(t) \/ Handle(t) PROVE TickOrder'
  <2>1. CASE Echo(t)
    BY <1>2, <2>1 DEF Echo
  <2>2. CASE Handle(t)
    BY <1>2, <2>2 DEF Handle
  <2> QED BY <1>2, <2>1, <2>2
<1>3. CASE HandlerPanics \/ CloseNet \/ ClosePingCh
  <2>1. CASE HandlerPanics
    BY <2>1 DEF HandlerPanics
  <2>2. CASE CloseNet
    BY <2>2 DEF CloseNet
  <2>3. CASE ClosePingCh
    BY <2>3 DEF ClosePingCh
  <2> QED BY <1>3, <2>1, <2>2, <2>3
<1>4. CASE UNCHANGED vars
  BY <1>4 DEF vars
<1> QED BY <1>1, <1>2, <1>3, <1>4 DEF Next

\* A ping leaves its answer behind only when it is cancelled, when Close ends
\* it, or when it takes an answer that was already a stray.
LEMMA StrayHasCauseStep == IndInv /\ [Next]_vars => StrayHasCause'
<1> SUFFICES ASSUME IndInv, [Next]_vars PROVE StrayHasCause'
  OBVIOUS
<1> USE TickAssumption, PingerAssumption
    DEF IndInv, TypeOK, LockHeld, TickOrder, StrayHasCause, Strays, Waiting, Outstanding
<1>1. ASSUME NEW p \in Pingers, Ping(p) PROVE StrayHasCause'
  <2>1. CASE Call(p)
    BY <2>1 DEF Call
  <2>2. CASE Lock(p)
    BY <2>2 DEF Lock
  <2>3. CASE Send(p)
    BY <2>3 DEF Send
  <2>4. CASE SendFails(p) \/ ReceiveClosed(p)
    BY <2>4 DEF SendFails, ReceiveClosed, Return
  <2>5. CASE CtxDone(p)
    BY <2>5 DEF CtxDone, Return
  <2>6. ASSUME NEW t \in Ticks, Receive(p, t) PROVE StrayHasCause'
    BY <2>6 DEF Receive, Return
  <2> QED BY <1>1, <2>1, <2>2, <2>3, <2>4, <2>5, <2>6 DEF Ping
<1>2. ASSUME NEW t \in Ticks, Echo(t) \/ Handle(t) PROVE StrayHasCause'
  <2>1. Outstanding' = Outstanding /\ UNCHANGED <<pingVars, closeVars>>
    BY <1>2 DEF Echo, Handle
  <2>2. Strays' = Strays
    BY <2>1
  <2> QED BY <2>1, <2>2
<1>3. CASE HandlerPanics \/ CloseNet \/ ClosePingCh
  BY <1>3 DEF HandlerPanics, CloseNet, ClosePingCh
<1>4. CASE UNCHANGED vars
  BY <1>4 DEF vars
<1> QED BY <1>1, <1>2, <1>3, <1>4 DEF Next

\* The wrong tick a ping receives is an older stray.
LEMMA FalseAlarmStep == IndInv /\ [Next]_vars => FalseAlarmHasCause'
<1> SUFFICES ASSUME IndInv, [Next]_vars PROVE FalseAlarmHasCause'
  OBVIOUS
<1> USE TickAssumption, PingerAssumption
    DEF IndInv, TypeOK, LockHeld, TickOrder, StrayHasCause, Strays, Waiting, Outstanding, FalseAlarmHasCause
<1>1. ASSUME NEW p \in Pingers, Ping(p) PROVE FalseAlarmHasCause'
  <2>1. CASE Call(p)
    BY <2>1 DEF Call
  <2>2. CASE Lock(p)
    BY <2>2 DEF Lock
  <2>3. CASE Send(p)
    BY <2>3 DEF Send
  <2>4. CASE SendFails(p) \/ ReceiveClosed(p)
    BY <2>4 DEF SendFails, ReceiveClosed, Return
  <2>5. CASE CtxDone(p)
    BY <2>5 DEF CtxDone, Return
  <2>6. ASSUME NEW t \in Ticks, Receive(p, t) PROVE FalseAlarmHasCause'
    BY <2>6 DEF Receive, Return
  <2> QED BY <1>1, <2>1, <2>2, <2>3, <2>4, <2>5, <2>6 DEF Ping
<1>2. ASSUME NEW t \in Ticks, Echo(t) \/ Handle(t) PROVE FalseAlarmHasCause'
  BY <1>2 DEF Echo, Handle
<1>3. CASE HandlerPanics \/ CloseNet \/ ClosePingCh
  BY <1>3 DEF HandlerPanics, CloseNet, ClosePingCh
<1>4. CASE UNCHANGED vars
  BY <1>4 DEF vars
<1> QED BY <1>1, <1>2, <1>3, <1>4 DEF Next

\* The tick a successful ping received is nowhere else, and stays so.
LEMMA OkStep == IndInv /\ [Next]_vars => OkUsesOwnAnswer'
<1> SUFFICES ASSUME IndInv, [Next]_vars PROVE OkUsesOwnAnswer'
  OBVIOUS
<1> USE TickAssumption, PingerAssumption
    DEF IndInv, TypeOK, LockHeld, TickOrder, OkUsesOwnAnswer, Outstanding
<1>1. ASSUME NEW p \in Pingers, Ping(p) PROVE OkUsesOwnAnswer'
  <2>1. CASE Call(p)
    BY <2>1 DEF Call
  <2>2. CASE Lock(p)
    BY <2>2 DEF Lock
  <2>3. CASE Send(p)
    BY <2>3 DEF Send
  <2>4. CASE SendFails(p) \/ ReceiveClosed(p)
    BY <2>4 DEF SendFails, ReceiveClosed, Return
  <2>5. CASE CtxDone(p)
    BY <2>5 DEF CtxDone, Return
  <2>6. ASSUME NEW t \in Ticks, Receive(p, t) PROVE OkUsesOwnAnswer'
    BY <2>6 DEF Receive, Return
  <2> QED BY <1>1, <2>1, <2>2, <2>3, <2>4, <2>5, <2>6 DEF Ping
<1>2. ASSUME NEW t \in Ticks, Echo(t) \/ Handle(t) PROVE OkUsesOwnAnswer'
  BY <1>2 DEF Echo, Handle
<1>3. CASE HandlerPanics \/ CloseNet \/ ClosePingCh
  BY <1>3 DEF HandlerPanics, CloseNet, ClosePingCh
<1>4. CASE UNCHANGED vars
  BY <1>4 DEF vars
<1> QED BY <1>1, <1>2, <1>3, <1>4 DEF Next

LEMMA IndInit == Init => IndInv
<1> SUFFICES ASSUME Init PROVE IndInv
  OBVIOUS
<1> USE TickAssumption, PingerAssumption DEF Init
<1>1. TypeOK
  <2>1. 0 \in 0 .. MaxTick
    OBVIOUS
  <2> QED BY <2>1 DEF TypeOK
<1>2. LockHeld /\ FalseAlarmHasCause /\ OkUsesOwnAnswer
  BY DEF LockHeld, FalseAlarmHasCause, OkUsesOwnAnswer
<1>3. TickOrder
  BY DEF TickOrder, Outstanding
<1>4. StrayHasCause
  BY DEF StrayHasCause, Strays, Outstanding
<1> QED BY <1>1, <1>2, <1>3, <1>4 DEF IndInv

LEMMA IndStep == IndInv /\ [Next]_vars => IndInv'
  BY TypeStep, LockHeldStep, TickOrderStep, StrayHasCauseStep, FalseAlarmStep, OkStep DEF IndInv

LEMMA Inductive == Spec => []IndInv
  BY IndInit, IndStep, PTL DEF Spec

-----------------------------------------------------------------------------
(* How many answers nobody waits for.                                      *)

\* Whether Close has already added the stray of the ping it found waiting.
Interrupted == pingClosed /\ \A p \in Pingers : stage[p] # "waiting"

\* Strays and cancelled pings are finite, so they can be counted.
LEMMA Countable ==
    ASSUME NEW S \in SUBSET Ticks
    PROVE  IsFiniteSet(S) /\ Cardinality(S) \in Nat
<1>1. IsFiniteSet(Ticks)
  BY FS_Interval, TickAssumption
<1> QED BY <1>1, FS_Subset, FS_CardinalityType, Zenon

\* One more element raises a count by at most one, and by one when it is new.
LEMMA OneMore ==
    ASSUME NEW S \in SUBSET Ticks, NEW T \in SUBSET Ticks, NEW t \in Ticks, T \subseteq S \cup {t}
    PROVE  /\ Cardinality(T) <= Cardinality(S) + 1
           /\ t \notin S => Cardinality(S \cup {t}) = Cardinality(S) + 1
<1>1. IsFiniteSet(S) /\ IsFiniteSet(T) /\ Cardinality(S) \in Nat /\ Cardinality(T) \in Nat
  BY Countable
<1>2. /\ IsFiniteSet(S \cup {t})
      /\ Cardinality(S \cup {t}) = IF t \in S THEN Cardinality(S) ELSE Cardinality(S) + 1
  BY <1>1, FS_AddElement
<1>3. Cardinality(T) <= Cardinality(S \cup {t})
  BY <1>2, FS_Subset
<1> QED BY <1>1, <1>2, <1>3

\* Swapping one element for another does not raise a count.
LEMMA Swapped ==
    ASSUME NEW S \in SUBSET Ticks, NEW T \in SUBSET Ticks, NEW s \in S, NEW t \in Ticks,
           T \subseteq (S \ {s}) \cup {t}
    PROVE  Cardinality(T) <= Cardinality(S)
<1>1. IsFiniteSet(S) /\ Cardinality(S) \in Nat
  BY Countable
<1>2. Cardinality(S \ {s}) = Cardinality(S) - 1
  BY <1>1, FS_RemoveElement
<1>3. Cardinality(T) <= Cardinality(S \ {s}) + 1
  <2>1. S \ {s} \in SUBSET Ticks
    OBVIOUS
  <2> QED BY <2>1, OneMore
<1> QED BY <1>1, <1>2, <1>3

\* A smaller set counts less.
LEMMA Fewer ==
    ASSUME NEW S \in SUBSET Ticks, NEW T \in SUBSET S
    PROVE  Cardinality(T) <= Cardinality(S)
  BY Countable, FS_Subset

\* A tick is cancelled once, and new ticks are beyond every cancelled one.
LEMMA GivenUpStep == IndInv /\ GivenUpOnce /\ [Next]_vars => GivenUpOnce'
<1> SUFFICES ASSUME IndInv, GivenUpOnce, [Next]_vars PROVE GivenUpOnce'
  OBVIOUS
<1> USE TickAssumption, PingerAssumption
    DEF IndInv, TypeOK, LockHeld, TickOrder, GivenUpOnce
<1>1. ASSUME NEW p \in Pingers, Ping(p) PROVE GivenUpOnce'
  <2>1. CASE Call(p)
    BY <2>1 DEF Call
  <2>2. CASE Lock(p)
    <3>1. clock + 1 \notin cancelled
      OBVIOUS
    <3> QED BY <2>2, <3>1 DEF Lock
  <2>3. CASE Send(p)
    BY <2>3 DEF Send
  <2>4. CASE SendFails(p) \/ ReceiveClosed(p)
    BY <2>4 DEF SendFails, ReceiveClosed, Return
  <2>5. CASE CtxDone(p)
    BY <2>5 DEF CtxDone, Return
  <2>6. ASSUME NEW t \in Ticks, Receive(p, t) PROVE GivenUpOnce'
    BY <2>6 DEF Receive, Return
  <2> QED BY <1>1, <2>1, <2>2, <2>3, <2>4, <2>5, <2>6 DEF Ping
<1>2. ASSUME NEW t \in Ticks, Echo(t) \/ Handle(t) PROVE GivenUpOnce'
  BY <1>2 DEF Echo, Handle
<1>3. CASE HandlerPanics \/ CloseNet \/ ClosePingCh
  BY <1>3 DEF HandlerPanics, CloseNet, ClosePingCh
<1>4. CASE UNCHANGED vars
  BY <1>4 DEF vars
<1> QED BY <1>1, <1>2, <1>3, <1>4 DEF Next

\* Each step that leaves an answer behind is a cancelled ping, swaps it for
\* another stray, or is the single ping Close interrupts.
LEMMA CountStep == CountInv /\ [Next]_vars => StraysCounted'
<1> SUFFICES ASSUME CountInv, [Next]_vars PROVE StraysCounted'
  OBVIOUS
<1> USE TickAssumption, PingerAssumption
<1> DEFINE Extra == IF Interrupted THEN 1 ELSE 0
<1>1. TypeOK /\ LockHeld /\ TickOrder /\ GivenUpOnce
  BY DEF CountInv, IndInv
<1>2. Cardinality(Strays) <= Cardinality(cancelled) + Extra
  BY DEF CountInv, StraysCounted, Interrupted
<1>3. TypeOK'
  BY <1>1, TypeStep
<1>4. /\ Strays \in SUBSET Ticks /\ cancelled \in SUBSET Ticks
      /\ Strays' \in SUBSET Ticks /\ cancelled' \in SUBSET Ticks
  BY <1>1, <1>3 DEF TypeOK, Strays, Outstanding
<1>5. /\ Cardinality(Strays) \in Nat /\ Cardinality(cancelled) \in Nat
      /\ Cardinality(Strays') \in Nat /\ Cardinality(cancelled') \in Nat
  BY <1>4, Countable
<1>6. SUFFICES Cardinality(Strays') <= Cardinality(cancelled') + Extra'
  BY DEF StraysCounted, Interrupted
<1> HIDE DEF Extra
<1>7. Extra \in {0, 1} /\ Extra' \in {0, 1}
  BY DEF Extra
<1>8. ASSUME Strays' \subseteq Strays, cancelled' = cancelled, Interrupted => Interrupted'
      PROVE  Cardinality(Strays') <= Cardinality(cancelled') + Extra'
  <2>1. Cardinality(Strays') <= Cardinality(Strays)
    BY <1>4, <1>8, Fewer
  <2>2. Extra <= Extra'
    BY <1>8 DEF Extra
  <2> QED BY <1>2, <1>5, <1>7, <1>8, <2>1, <2>2
<1>9. ASSUME NEW p \in Pingers, Ping(p)
      PROVE  Cardinality(Strays') <= Cardinality(cancelled') + Extra'
  <2> USE <1>1 DEF TypeOK, LockHeld
  <2>1. CASE Call(p) \/ Lock(p) \/ SendFails(p)
    <3>1. /\ UNCHANGED <<requests, replies, handlers, cancelled, pingClosed>>
          /\ \A q \in Pingers : stage'[q] = "waiting" <=> stage[q] = "waiting"
          /\ \A q \in Pingers : stage[q] = "waiting" => pinglock' = pinglock /\ tick'[q] = tick[q]
      BY <2>1 DEF Call, Lock, SendFails, Return
    <3>2. Strays' \subseteq Strays
      BY <3>1 DEF Strays, Outstanding, Waiting
    <3>3. Interrupted => Interrupted'
      BY <3>1 DEF Interrupted
    <3> QED BY <3>1, <3>2, <3>3, <1>8
  <2>2. CASE Send(p)
    <3>1. /\ requests' = requests \cup {tick[p]} /\ stage'[p] = "waiting"
          /\ UNCHANGED <<replies, handlers, cancelled, pingClosed, netClosed, pinglock, tick>>
          /\ ~netClosed /\ pinglock = p
          /\ \A q \in Pingers : q # p => stage[q] # "waiting"
      BY <2>2 DEF Send
    <3>2. Strays' \subseteq Strays
      BY <3>1, <2>2 DEF Strays, Outstanding, Waiting
    <3>3. ~Interrupted
      BY <3>1 DEF Interrupted, GivenUpOnce
    <3> QED BY <3>1, <3>2, <3>3, <1>8
  <2>3. CASE CtxDone(p)
    <3>1. /\ stage[p] = "waiting" /\ cancelled' = cancelled \cup {tick[p]}
          /\ UNCHANGED <<requests, replies, handlers, pingClosed, tick>>
          /\ \A q \in Pingers : stage'[q] # "waiting"
      BY <2>3 DEF CtxDone, Return
    <3>2. tick[p] \in Ticks /\ tick[p] \notin cancelled
      BY <3>1 DEF GivenUpOnce
    <3>3. Strays' \subseteq Strays \cup {tick[p]}
      BY <3>1 DEF Strays, Outstanding, Waiting
    <3>4. Cardinality(Strays') <= Cardinality(Strays) + 1
      BY <3>2, <3>3, <1>4, OneMore
    <3>5. Cardinality(cancelled') = Cardinality(cancelled) + 1
      BY <3>1, <3>2, <1>4, OneMore
    <3>6. Extra = 0
      BY <3>1 DEF Extra, Interrupted
    <3> QED BY <3>4, <3>5, <3>6, <1>2, <1>5, <1>7
  <2>4. CASE ReceiveClosed(p)
    <3>1. /\ stage[p] = "waiting" /\ pingClosed
          /\ UNCHANGED <<requests, replies, handlers, cancelled, pingClosed, tick>>
          /\ \A q \in Pingers : stage'[q] # "waiting"
      BY <2>4 DEF ReceiveClosed, Return, closeVars
    <3>2. tick[p] \in Ticks
      BY <3>1
    <3>3. Strays' \subseteq Strays \cup {tick[p]}
      BY <3>1 DEF Strays, Outstanding, Waiting
    <3>4. Cardinality(Strays') <= Cardinality(Strays) + 1
      BY <3>2, <3>3, <1>4, OneMore
    <3>5. Extra = 0 /\ Extra' = 1
      BY <3>1 DEF Extra, Interrupted
    <3> QED BY <3>1, <3>4, <3>5, <1>2, <1>5
  <2>5. ASSUME NEW t \in Ticks, Receive(p, t)
        PROVE  Cardinality(Strays') <= Cardinality(cancelled') + Extra'
    <3>1. /\ stage[p] = "waiting" /\ pinglock = p /\ t \in handlers
          /\ handlers' = handlers \ {t}
          /\ UNCHANGED <<requests, replies, cancelled, pingClosed, tick>>
          /\ \A q \in Pingers : stage'[q] # "waiting"
          /\ \A q \in Pingers : q # p => stage[q] # "waiting"
          /\ ~pingClosed
      BY <2>5 DEF Receive, Return
    <3>2. t \notin requests \cup replies
      BY <3>1 DEF TickOrder
    <3>3. ~Interrupted
      BY <3>1 DEF Interrupted
    <3>4. CASE t = tick[p]
      <4>1. Strays' \subseteq Strays
        BY <3>1, <3>2, <3>4 DEF Strays, Outstanding, Waiting
      <4> QED BY <4>1, <3>1, <3>3, <1>8
    <3>5. CASE t # tick[p]
      <4>1. t \in Strays
        BY <3>1, <3>5 DEF Strays, Outstanding, Waiting
      <4>2. Strays' \subseteq (Strays \ {t}) \cup {tick[p]}
        BY <3>1, <3>2 DEF Strays, Outstanding, Waiting
      <4>3. tick[p] \in Ticks
        BY <3>1
      <4>4. Cardinality(Strays') <= Cardinality(Strays)
        BY <4>1, <4>2, <4>3, <1>4, Swapped
      <4>5. Extra = 0
        BY <3>3 DEF Extra
      <4> QED BY <4>4, <4>5, <3>1, <1>2, <1>5, <1>7
    <3> QED BY <3>4, <3>5
  <2> QED BY <1>9, <2>1, <2>2, <2>3, <2>4, <2>5 DEF Ping
<1>10. ASSUME NEW t \in Ticks, Echo(t) \/ Handle(t)
       PROVE  Cardinality(Strays') <= Cardinality(cancelled') + Extra'
  <2>1. Outstanding' = Outstanding /\ UNCHANGED <<pingVars, closeVars>>
    BY <1>10 DEF Echo, Handle, Outstanding
  <2>2. Strays' \subseteq Strays
    BY <2>1 DEF Strays, Waiting
  <2>3. cancelled' = cancelled /\ (Interrupted => Interrupted')
    BY <2>1 DEF Interrupted
  <2> QED BY <2>2, <2>3, <1>8
<1>11. CASE HandlerPanics \/ CloseNet \/ ClosePingCh \/ UNCHANGED vars
  <2>1. Outstanding' \subseteq Outstanding /\ UNCHANGED pingVars /\ (pingClosed => pingClosed')
    BY <1>11 DEF HandlerPanics, CloseNet, ClosePingCh, vars, Outstanding
  <2>2. Strays' \subseteq Strays
    BY <2>1 DEF Strays, Waiting
  <2>3. cancelled' = cancelled /\ (Interrupted => Interrupted')
    BY <2>1 DEF Interrupted
  <2> QED BY <2>2, <2>3, <1>8
<1> QED BY <1>9, <1>10, <1>11 DEF Next

LEMMA CountInit == Init => CountInv
<1> SUFFICES ASSUME Init PROVE CountInv
  OBVIOUS
<1>1. GivenUpOnce
  BY DEF Init, GivenUpOnce
<1>2. Strays = {} /\ cancelled = {}
  BY DEF Init, Strays, Outstanding
<1>3. StraysCounted
  BY <1>2, FS_EmptySet DEF Init, StraysCounted
<1> QED BY <1>1, <1>3, IndInit DEF CountInv

LEMMA CountInductive == Spec => []CountInv
<1>1. CountInv /\ [Next]_vars => CountInv'
  BY CountStep, GivenUpStep, TypeStep, LockHeldStep, TickOrderStep, StrayHasCauseStep,
     FalseAlarmStep, OkStep DEF CountInv, IndInv
<1> QED BY CountInit, <1>1, PTL DEF Spec

-----------------------------------------------------------------------------
(* The theorems.                                                           *)

\* Every variable of the heartbeat keeps its type in every behaviour.
THEOREM TypeCorrect == Spec => []TypeOK
  BY Inductive, PTL DEF IndInv

\* "out of order" always goes back to an earlier ping that was given up, or to
\* Close: pings that are all waited for never disturb one another.
THEOREM FalseAlarmsAreExplained == Spec => []FalseAlarmHasCause
  BY Inductive, PTL DEF IndInv

\* A ping that succeeds leaves nothing behind.
THEOREM SuccessIsClean == Spec => []OkUsesOwnAnswer
  BY Inductive, PTL DEF IndInv

\* However many pings are given up, each leaves at most one goroutine blocked
\* on pingCh, and Close at most one more.
THEOREM StraysAreBounded == Spec => []StrayBound
<1>1. CountInv => StrayBound
  <2> SUFFICES ASSUME CountInv PROVE StrayBound
    OBVIOUS
  <2>1. Strays \in SUBSET Ticks /\ cancelled \in SUBSET Ticks
    BY DEF CountInv, IndInv, TypeOK, Strays, Outstanding
  <2>2. Cardinality(Strays) \in Nat /\ Cardinality(cancelled) \in Nat
    BY <2>1, Countable
  <2> QED BY <2>2 DEF CountInv, StraysCounted, StrayBound
<1> QED BY CountInductive, <1>1, PTL
=============================================================================
