--------------------------- MODULE SiteNodeProofs ---------------------------
(* Theorems about SiteNode, for any partners, headers and handlers.        *)
EXTENDS SiteNode, TLAPS

USE DEF phaseVars, handVars, bootVars, discVars,
        Booting, Joining, Inserting, Routing, Shutdown, NodePhase

-----------------------------------------------------------------------------
(* The inductive step, one lemma per conjunct of IndInv.                   *)

\* No step breaks the types.
LEMMA TypeStep == IndInv /\ [Next]_vars => TypeOK'
<1> SUFFICES ASSUME IndInv, [Next]_vars PROVE TypeOK'
  OBVIOUS
<1> USE NodeAssumption DEF IndInv, TypeOK, HeadersKept
<1>1. ASSUME NEW h \in Handlers, NEW x \in Headers, Look(h, x) PROVE TypeOK'
  <2>1. header' \in [Handlers -> Header \cup {NoInfo}]
    BY <1>1 DEF Look
  <2>2. old' \in [Handlers -> Info \cup {NoInfo}]
    <3>1. x.id \in NodeIds
      BY DEF Header
    <3> QED BY <1>1, <3>1 DEF Look
  <2>3. stage' \in [Handlers -> {"idle", "looked", "stored", "changing", "locking",
                                "locked", "set", "closed", "panic"}]
    BY <1>1 DEF Look
  <2> QED BY <1>1, <2>1, <2>2, <2>3 DEF Look
<1>2. ASSUME NEW h \in Handlers, Handle(h) PROVE TypeOK'
  <2>1. CASE NotNewer(h)
    BY <2>1 DEF NotNewer, Ends
  <2>2. CASE StorePartner(h)
    BY <2>2 DEF StorePartner, Info, Header
  <2>3. CASE PartnerChanged(h)
    BY <2>3 DEF PartnerChanged, Ends
  <2>4. CASE NeedsChange(h)
    BY <2>4 DEF NeedsChange, Ends
  <2>5. CASE Lock(h)
    BY <2>5 DEF Lock, LockFree
  <2>6. CASE SetPhase(h)
    BY <2>6 DEF SetPhase, NewPhase
  <2>7. CASE CloseChan(h)
    BY <2>7 DEF CloseChan
  <2>8. CASE RenewChan(h)
    <3>1. chan' \in Nat
      BY <2>8 DEF RenewChan
    <3>2. stage' \in [Handlers -> {"idle", "looked", "stored", "changing", "locking",
                                  "locked", "set", "closed", "panic"}]
      BY <2>8 DEF RenewChan, Ends
    <3>3. header' \in [Handlers -> Header \cup {NoInfo}] /\ old' \in [Handlers -> Info \cup {NoInfo}]
      BY <2>8 DEF RenewChan, Ends
    <3> QED BY <2>8, <3>1, <3>2, <3>3 DEF RenewChan
  <2> QED BY <1>2, <2>1, <2>2, <2>3, <2>4, <2>5, <2>6, <2>7, <2>8 DEF Handle, ChangePhase
<1>3. CASE Bootstrap \/ CtxExpires
  BY <1>3 DEF Bootstrap, BootStarts, BootSelects, BootWakes, BootTimesOut, BootGivesUp, CtxExpires
<1>4. CASE Discover
  <2>1. CASE DiscoverStarts
    BY <1>4, <2>1 DEF DiscoverStarts, Instances
  <2>2. CASE DiscoverRound
    <3>1. ASSUME NEW n \in FoundNodes PROVE parteners[n].inst \in Instances
      BY <3>1 DEF FoundNodes, News, Info
    <3>2. round' \in 0 .. Round
      BY <2>2 DEF DiscoverRound, Counted
    <3> QED BY <2>2, <3>1, <3>2 DEF DiscoverRound
  <2> QED BY <1>4, <2>1, <2>2 DEF Discover
<1>5. CASE UNCHANGED vars
  BY <1>5 DEF vars
<1> QED BY <1>1, <1>2, <1>3, <1>4, <1>5 DEF Next

\* A handler keeps its header until it is done with it.
LEMMA HeadersStep == IndInv /\ [Next]_vars => HeadersKept'
<1> SUFFICES ASSUME IndInv, [Next]_vars PROVE HeadersKept'
  OBVIOUS
<1> USE NodeAssumption DEF IndInv, TypeOK, HeadersKept
<1>1. ASSUME NEW h \in Handlers, NEW x \in Headers, Look(h, x) PROVE HeadersKept'
  BY <1>1 DEF Look
<1>2. ASSUME NEW h \in Handlers, Handle(h) PROVE HeadersKept'
  <2>1. CASE NotNewer(h)
    BY <2>1 DEF NotNewer, Ends
  <2>2. CASE StorePartner(h)
    BY <2>2 DEF StorePartner
  <2>3. CASE PartnerChanged(h)
    BY <2>3 DEF PartnerChanged, Ends
  <2>4. CASE NeedsChange(h)
    BY <2>4 DEF NeedsChange, Ends
  <2>5. CASE Lock(h)
    BY <2>5 DEF Lock, LockFree
  <2>6. CASE SetPhase(h)
    BY <2>6 DEF SetPhase, NewPhase
  <2>7. CASE CloseChan(h)
    BY <2>7 DEF CloseChan
  <2>8. CASE RenewChan(h)
    BY <2>8 DEF RenewChan, Ends
  <2> QED BY <1>2, <2>1, <2>2, <2>3, <2>4, <2>5, <2>6, <2>7, <2>8 DEF Handle, ChangePhase
<1>3. CASE Bootstrap \/ CtxExpires
  BY <1>3 DEF Bootstrap, BootStarts, BootSelects, BootWakes, BootTimesOut, BootGivesUp, CtxExpires
<1>4. CASE Discover
  BY <1>4 DEF Discover, DiscoverStarts, DiscoverRound
<1>5. CASE UNCHANGED vars
  BY <1>5 DEF vars
<1> QED BY <1>1, <1>2, <1>3, <1>4, <1>5 DEF Next

\* Only the holder of phaseLock is between Lock and RenewChan.
LEMMA LockStep == IndInv /\ [Next]_vars => PhaseLockHeld'
<1> SUFFICES ASSUME IndInv, [Next]_vars PROVE PhaseLockHeld'
  OBVIOUS
<1> USE NodeAssumption DEF IndInv, TypeOK, HoldsLock, PhaseLockHeld, ChClosedByHolder
<1>1. ASSUME NEW h \in Handlers, NEW x \in Headers, Look(h, x) PROVE PhaseLockHeld'
  BY <1>1 DEF Look
<1>2. ASSUME NEW h \in Handlers, Handle(h) PROVE PhaseLockHeld'
  <2>1. CASE NotNewer(h)
    BY <2>1 DEF NotNewer, Ends
  <2>2. CASE StorePartner(h)
    BY <2>2 DEF StorePartner
  <2>3. CASE PartnerChanged(h)
    BY <2>3 DEF PartnerChanged, Ends
  <2>4. CASE NeedsChange(h)
    BY <2>4 DEF NeedsChange, Ends
  <2>5. CASE Lock(h)
    BY <2>5 DEF Lock, LockFree
  <2>6. CASE SetPhase(h)
    BY <2>6 DEF SetPhase, NewPhase
  <2>7. CASE CloseChan(h)
    BY <2>7 DEF CloseChan
  <2>8. CASE RenewChan(h)
    BY <2>8 DEF RenewChan, Ends
  <2> QED BY <1>2, <2>1, <2>2, <2>3, <2>4, <2>5, <2>6, <2>7, <2>8 DEF Handle, ChangePhase
<1>3. CASE Bootstrap \/ CtxExpires
  BY <1>3 DEF Bootstrap, BootStarts, BootSelects, BootWakes, BootTimesOut, BootGivesUp, CtxExpires
<1>4. CASE Discover
  BY <1>4 DEF Discover, DiscoverStarts, DiscoverRound
<1>5. CASE UNCHANGED vars
  BY <1>5 DEF vars
<1> QED BY <1>1, <1>2, <1>3, <1>4, <1>5 DEF Next

\* The channel is closed only while its closer holds the lock.
LEMMA ClosedStep == IndInv /\ [Next]_vars => ChClosedByHolder'
<1> SUFFICES ASSUME IndInv, [Next]_vars PROVE ChClosedByHolder'
  OBVIOUS
<1> USE NodeAssumption DEF IndInv, TypeOK, HoldsLock, PhaseLockHeld, ChClosedByHolder
<1>1. ASSUME NEW h \in Handlers, NEW x \in Headers, Look(h, x) PROVE ChClosedByHolder'
  BY <1>1 DEF Look
<1>2. ASSUME NEW h \in Handlers, Handle(h) PROVE ChClosedByHolder'
  <2>1. CASE NotNewer(h)
    BY <2>1 DEF NotNewer, Ends
  <2>2. CASE StorePartner(h)
    BY <2>2 DEF StorePartner
  <2>3. CASE PartnerChanged(h)
    BY <2>3 DEF PartnerChanged, Ends
  <2>4. CASE NeedsChange(h)
    BY <2>4 DEF NeedsChange, Ends
  <2>5. CASE Lock(h)
    BY <2>5 DEF Lock, LockFree
  <2>6. CASE SetPhase(h)
    BY <2>6 DEF SetPhase, NewPhase
  <2>7. CASE CloseChan(h)
    BY <2>7 DEF CloseChan
  <2>8. CASE RenewChan(h)
    BY <2>8 DEF RenewChan, Ends
  <2> QED BY <1>2, <2>1, <2>2, <2>3, <2>4, <2>5, <2>6, <2>7, <2>8 DEF Handle, ChangePhase
<1>3. CASE Bootstrap \/ CtxExpires
  BY <1>3 DEF Bootstrap, BootStarts, BootSelects, BootWakes, BootTimesOut, BootGivesUp, CtxExpires
<1>4. CASE Discover
  BY <1>4 DEF Discover, DiscoverStarts, DiscoverRound
<1>5. CASE UNCHANGED vars
  BY <1>5 DEF vars
<1> QED BY <1>1, <1>2, <1>3, <1>4, <1>5 DEF Next

\* The phase is set before the channel is closed.
LEMMA WokenStep == IndInv /\ [Next]_vars => WokenSeesJoining'
<1> SUFFICES ASSUME IndInv, [Next]_vars PROVE WokenSeesJoining'
  OBVIOUS
<1> USE NodeAssumption DEF IndInv, TypeOK, PhaseLockHeld, WokenSeesJoining
<1>1. ASSUME NEW h \in Handlers, NEW x \in Headers, Look(h, x) PROVE WokenSeesJoining'
  BY <1>1 DEF Look
<1>2. ASSUME NEW h \in Handlers, Handle(h) PROVE WokenSeesJoining'
  <2>1. CASE NotNewer(h)
    BY <2>1 DEF NotNewer, Ends
  <2>2. CASE StorePartner(h)
    BY <2>2 DEF StorePartner
  <2>3. CASE PartnerChanged(h)
    BY <2>3 DEF PartnerChanged, Ends
  <2>4. CASE NeedsChange(h)
    BY <2>4 DEF NeedsChange, Ends
  <2>5. CASE Lock(h)
    BY <2>5 DEF Lock, LockFree
  <2>6. CASE SetPhase(h)
    BY <2>6 DEF SetPhase, NewPhase
  <2>7. CASE CloseChan(h)
    BY <2>7 DEF CloseChan
  <2>8. CASE RenewChan(h)
    BY <2>8 DEF RenewChan, Ends
  <2> QED BY <1>2, <2>1, <2>2, <2>3, <2>4, <2>5, <2>6, <2>7, <2>8 DEF Handle, ChangePhase
<1>3. CASE Bootstrap \/ CtxExpires
  BY <1>3 DEF Bootstrap, BootStarts, BootSelects, BootWakes, BootTimesOut, BootGivesUp, CtxExpires
<1>4. CASE Discover
  BY <1>4 DEF Discover, DiscoverStarts, DiscoverRound
<1>5. CASE UNCHANGED vars
  BY <1>5 DEF vars
<1> QED BY <1>1, <1>2, <1>3, <1>4, <1>5 DEF Next

\* Whoever stores a Routing partner goes on to leave Booting.
LEMMA RoutingStep == IndInv /\ [Next]_vars => RoutingPartnerStartsJoin'
<1> SUFFICES ASSUME IndInv, [Next]_vars PROVE RoutingPartnerStartsJoin'
  OBVIOUS
<1> USE NodeAssumption DEF IndInv, TypeOK, HeadersKept, Header, Info, WillJoin, RoutingPartnerStartsJoin
<1>1. ASSUME NEW h \in Handlers, NEW x \in Headers, Look(h, x) PROVE RoutingPartnerStartsJoin'
  BY <1>1 DEF Look
<1>2. ASSUME NEW h \in Handlers, Handle(h) PROVE RoutingPartnerStartsJoin'
  <2>1. CASE NotNewer(h)
    BY <2>1 DEF NotNewer, Ends
  <2>2. CASE StorePartner(h)
    BY <2>2 DEF StorePartner
  <2>3. CASE PartnerChanged(h)
    <3>1. CASE header[h].phase = Routing /\ phase = Booting
      BY <2>3, <3>1 DEF PartnerChanged, HeardRouting
    <3>2. CASE phase # Booting
      BY <2>3, <3>2 DEF PartnerChanged
    <3>3. CASE header[h].phase # Routing
      BY <2>3, <3>3 DEF PartnerChanged, HeardRouting, Ends
    <3> QED BY <3>1, <3>2, <3>3
  <2>4. CASE NeedsChange(h)
    BY <2>4 DEF NeedsChange, Ends
  <2>5. CASE Lock(h)
    BY <2>5 DEF Lock, LockFree
  <2>6. CASE SetPhase(h)
    BY <2>6 DEF SetPhase, NewPhase
  <2>7. CASE CloseChan(h)
    BY <2>7 DEF CloseChan
  <2>8. CASE RenewChan(h)
    BY <2>8 DEF RenewChan, Ends
  <2> QED BY <1>2, <2>1, <2>2, <2>3, <2>4, <2>5, <2>6, <2>7, <2>8 DEF Handle, ChangePhase
<1>3. CASE Bootstrap \/ CtxExpires
  BY <1>3 DEF Bootstrap, BootStarts, BootSelects, BootWakes, BootTimesOut, BootGivesUp, CtxExpires
<1>4. CASE Discover
  BY <1>4 DEF Discover, DiscoverStarts, DiscoverRound
<1>5. CASE UNCHANGED vars
  BY <1>5 DEF vars
<1> QED BY <1>1, <1>2, <1>3, <1>4, <1>5 DEF Next

-----------------------------------------------------------------------------
(* The theorems.                                                           *)

\* IndInv holds of every reachable state.
THEOREM Inductive == Spec => []IndInv
<1>1. Init => IndInv
  <2> SUFFICES ASSUME Init PROVE IndInv
    OBVIOUS
  <2>1. [inst |-> 0, phase |-> Booting] \in Info
    BY NodeAssumption DEF Info, Instances
  <2>2. TypeOK
    <3>1. parteners \in [NodeIds -> Info \cup {NoInfo}]
      BY <2>1 DEF Init
    <3>2. discovered \in [NodeIds -> Instances \cup {NoInfo}] /\ round \in 0 .. Round
      BY NodeAssumption DEF Init
    <3>3. stage \in [Handlers -> {"idle"}] /\ header \in [Handlers -> {NoInfo}]
          /\ old \in [Handlers -> {NoInfo}]
      BY DEF Init
    <3> QED BY <3>1, <3>2, <3>3 DEF Init, TypeOK
  <2>3. PhaseLockHeld /\ ChClosedByHolder /\ HeadersKept /\ WokenSeesJoining
    BY NodeAssumption DEF Init, PhaseLockHeld, HoldsLock, ChClosedByHolder, HeadersKept,
       WokenSeesJoining
  <2>4. RoutingPartnerStartsJoin
    BY DEF Init, RoutingPartnerStartsJoin
  <2> QED BY <2>2, <2>3, <2>4 DEF IndInv
<1>2. IndInv /\ [Next]_vars => IndInv'
  BY TypeStep, HeadersStep, LockStep, ClosedStep, WokenStep, RoutingStep DEF IndInv
<1> QED BY <1>1, <1>2, PTL DEF Spec

\* The variables keep their types.
THEOREM TypeCorrect == Spec => []TypeOK
<1>1. IndInv => TypeOK
  BY DEF IndInv
<1> QED BY <1>1, Inductive, PTL

\* A partner stored as Routing makes the node leave Booting, however message
\* handlers interleave (sitenode_parteners.go:22-27).
THEOREM RoutingPartnersAreHeeded == Spec => []RoutingPartnerStartsJoin
<1>1. IndInv => RoutingPartnerStartsJoin
  BY DEF IndInv
<1> QED BY <1>1, Inductive, PTL

\* The close of phaseChanged is seen only together with the new phase
\* (sitenode.go:106-108).
THEOREM WakersSeeThePhase == Spec => []WokenSeesJoining
<1>1. IndInv => WokenSeesJoining
  BY DEF IndInv
<1> QED BY <1>1, Inductive, PTL
=============================================================================
