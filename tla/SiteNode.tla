------------------------------ MODULE SiteNode ------------------------------
(***************************************************************************)
(* federation/sitenode.go, _boot.go, _parteners.go: what a federation node *)
(* knows of its partners, the phase it is in, and the goroutines around    *)
(* them: one per message being handled (the transport server starts one    *)
(* for each, every client connection reads in its own), the caller of      *)
(* Bootstrap and the caller of Discover.                                   *)
(*                                                                         *)
(* A partner header is data of the model: which node it is of, the         *)
(* instance that node claims and the phase it claims to be in.  The        *)
(* channel phaseChanged is numbered: chan is its generation.               *)
(***************************************************************************)
EXTENDS Naturals

CONSTANTS
    NodeIds, Self, Seeds,
    MaxInstance,   \* bound: instance numbers partners claim
    Headers,       \* the partner headers that may arrive
    Handlers,      \* goroutines in onMessage
    Round,         \* Discover ends after Round + 1 rounds without news, 5 in the code
    NoInfo, NoHandler

Booting == 0   Joining == 1   Inserting == 2   Routing == 3   Shutdown == 4
NodePhase == {Booting, Joining, Inserting, Routing, Shutdown}

Instances == 0 .. MaxInstance
Info      == [inst : Instances, phase : NodePhase]
Header    == [id : NodeIds, inst : Instances, phase : NodePhase]

ASSUME NodeAssumption ==
    /\ MaxInstance \in Nat /\ Round \in Nat
    /\ Self \in NodeIds /\ Seeds \subseteq NodeIds /\ Seeds # {}
    /\ Headers \subseteq Header
    /\ NoInfo \notin Info \cup Header /\ NoHandler \notin Handlers

VARIABLES
    parteners,   \* SiteNode.parteners
    phase,       \* SiteNode.phase
    phaseLock,   \* the handler that holds it
    chan,        \* SiteNode.phaseChanged
    chClosed,    \* that channel is closed and not yet replaced
    stage,       \* each handler: where it stands in updatePartnerNode
    header, old, \* the header it handles, the entry it found for it
    boot,        \* the caller of Bootstrap
    bootCh,      \* the channel its select took
    ctxDone,     \* its context is done
    disc,        \* the caller of Discover
    discovered,  \* its map
    round        \* rounds it still makes without news

phaseVars == <<phase, phaseLock, chan, chClosed>>
handVars  == <<stage, header, old>>
bootVars  == <<boot, bootCh, ctxDone>>
discVars  == <<disc, discovered, round>>
vars == <<parteners, phaseVars, handVars, bootVars, discVars>>

TypeOK ==
    /\ parteners \in [NodeIds -> Info \cup {NoInfo}]
    /\ phase \in NodePhase /\ phaseLock \in Handlers \cup {NoHandler}
    /\ chan \in Nat /\ chClosed \in BOOLEAN
    /\ stage \in [Handlers -> {"idle", "looked", "stored", "changing", "locking",
                               "locked", "set", "closed", "panic"}]
    /\ header \in [Handlers -> Header \cup {NoInfo}]
    /\ old \in [Handlers -> Info \cup {NoInfo}]
    /\ boot \in {"none", "pinging", "waiting", "ok", "ctx"}
    /\ bootCh \in Nat /\ ctxDone \in BOOLEAN
    /\ disc \in {"none", "pinging", "done"}
    /\ discovered \in [NodeIds -> Instances \cup {NoInfo}]
    /\ round \in 0 .. Round

Init ==
    /\ parteners = [n \in NodeIds |-> IF n \in Seeds THEN [inst |-> 0, phase |-> Booting]
                                                     ELSE NoInfo]
    /\ phase = Booting /\ phaseLock = NoHandler
    /\ chan = 0 /\ chClosed = FALSE
    /\ stage = [h \in Handlers |-> "idle"]
    /\ header = [h \in Handlers |-> NoInfo]
    /\ old = [h \in Handlers |-> NoInfo]
    /\ boot = "none" /\ bootCh = 0 /\ ctxDone = FALSE
    /\ disc = "none" /\ discovered = [n \in NodeIds |-> NoInfo] /\ round = Round

-----------------------------------------------------------------------------
(* updatePartnerNode, called by onMessage for each header of a message.    *)

\* The entry is read under one lock and replaced under another.
Look(h, x) ==
    /\ stage[h] = "idle"
    /\ stage' = [stage EXCEPT ![h] = "looked"]
    /\ header' = [header EXCEPT ![h] = x]
    /\ old' = [old EXCEPT ![h] = parteners[x.id]]
    /\ UNCHANGED <<parteners, phaseVars, bootVars, discVars>>

Newer(h)   == old[h] # NoInfo => old[h].inst < header[h].inst

\* The handler is done with this header.
Ends(h) ==
    /\ stage' = [stage EXCEPT ![h] = "idle"]
    /\ header' = [header EXCEPT ![h] = NoInfo]
    /\ old' = [old EXCEPT ![h] = NoInfo]

NotNewer(h) ==
    /\ stage[h] = "looked" /\ ~ Newer(h)
    /\ Ends(h)
    /\ UNCHANGED <<parteners, phaseVars, bootVars, discVars>>

StorePartner(h) ==
    /\ stage[h] = "looked" /\ Newer(h)
    /\ parteners' = [parteners EXCEPT ![header[h].id] =
                        [inst |-> header[h].inst, phase |-> header[h].phase]]
    /\ stage' = [stage EXCEPT ![h] = "stored"]
    /\ old' = [old EXCEPT ![h] = NoInfo]
    /\ UNCHANGED <<phaseVars, header, bootVars, discVars>>

-----------------------------------------------------------------------------
(* onPartnerChanged and changePhase.                                       *)

\* Mutant: the node joins when it hears of a joining partner.
HeardJoining(h) == header[h].phase = Joining
HeardRouting(h) == header[h].phase = Routing

\* s.phase is read without phaseLock, here and in NeedsChange.
PartnerChanged(h) ==
    /\ stage[h] = "stored"
    /\ IF HeardRouting(h) /\ phase = Booting
       THEN stage' = [stage EXCEPT ![h] = "changing"] /\ UNCHANGED <<header, old>>
       ELSE Ends(h)
    /\ UNCHANGED <<parteners, phaseVars, bootVars, discVars>>

NeedsChange(h) ==
    /\ stage[h] = "changing"
    /\ IF phase = Joining
       THEN Ends(h)
       ELSE stage' = [stage EXCEPT ![h] = "locking"] /\ UNCHANGED <<header, old>>
    /\ UNCHANGED <<parteners, phaseVars, bootVars, discVars>>

\* Mutant: changePhase without phaseLock.
Unlocked(h) == UNCHANGED phaseLock
LockFree(h) == phaseLock = NoHandler /\ phaseLock' = h

Lock(h) ==
    /\ stage[h] = "locking"
    /\ LockFree(h)
    /\ stage' = [stage EXCEPT ![h] = "locked"]
    /\ UNCHANGED <<parteners, phase, chan, chClosed, header, old, bootVars, discVars>>

\* Mutant: the channel is closed, the phase stays.
OldPhase == phase
NewPhase == Joining

SetPhase(h) ==
    /\ stage[h] = "locked"
    /\ phase' = NewPhase
    /\ stage' = [stage EXCEPT ![h] = "set"]
    /\ UNCHANGED <<parteners, phaseLock, chan, chClosed, header, old, bootVars, discVars>>

\* Closing a closed channel panics.
CloseChan(h) ==
    /\ stage[h] = "set"
    /\ chClosed' = TRUE
    /\ stage' = [stage EXCEPT ![h] = IF chClosed THEN "panic" ELSE "closed"]
    /\ UNCHANGED <<parteners, phase, phaseLock, chan, header, old, bootVars, discVars>>

RenewChan(h) ==
    /\ stage[h] = "closed"
    /\ chan' = chan + 1
    /\ chClosed' = FALSE
    /\ phaseLock' = NoHandler
    /\ Ends(h)
    /\ UNCHANGED <<parteners, phase, bootVars, discVars>>

-----------------------------------------------------------------------------
(* Bootstrap.  Its vote pings only cause headers to arrive.                *)

BootStarts ==
    /\ boot = "none"
    /\ boot' = IF phase >= Joining THEN "ok" ELSE "pinging"
    /\ UNCHANGED <<parteners, phaseVars, handVars, bootCh, ctxDone, discVars>>

\* After the vote pings, whose dials have no deadline: that a dial ends is assumed.
\* What they bring are headers, which may be looked at any time.
BootSelects ==
    /\ boot = "pinging"
    /\ boot' = "waiting"
    /\ bootCh' = chan
    /\ UNCHANGED <<parteners, phaseVars, handVars, ctxDone, discVars>>

BootWakes ==
    /\ boot = "waiting"
    /\ bootCh < chan \/ chClosed
    /\ boot' = IF phase >= Joining THEN "ok" ELSE "pinging"
    /\ UNCHANGED <<parteners, phaseVars, handVars, bootCh, ctxDone, discVars>>

BootTimesOut ==
    /\ boot = "waiting"
    /\ boot' = "pinging"
    /\ UNCHANGED <<parteners, phaseVars, handVars, bootCh, ctxDone, discVars>>

CtxExpires ==
    /\ ~ ctxDone
    /\ ctxDone' = TRUE
    /\ UNCHANGED <<parteners, phaseVars, handVars, boot, bootCh, discVars>>

\* Mutant: the select without its ctx.Done() case.
NoCtxCase == FALSE
CtxCase   == ctxDone

BootGivesUp ==
    /\ boot = "waiting" /\ CtxCase
    /\ boot' = "ctx"
    /\ UNCHANGED <<parteners, phaseVars, handVars, bootCh, ctxDone, discVars>>

-----------------------------------------------------------------------------
(* Discover.                                                               *)

DiscoverStarts ==
    /\ disc = "none"
    /\ disc' = "pinging"
    /\ discovered' = [n \in NodeIds |-> IF n \in Seeds THEN 0 ELSE NoInfo]
    /\ UNCHANGED <<parteners, phaseVars, handVars, bootVars, round>>

\* A node it has no entry for counts as instance 0.
InstanceOf(n) == IF discovered[n] = NoInfo THEN 0 ELSE discovered[n]

News(n) == parteners[n] # NoInfo /\ parteners[n].inst > InstanceOf(n)

\* Mutant: rounds without news are not counted.
Uncounted == round
Counted   == round - 1

FoundNodes == {n \in NodeIds \ {Self} : News(n)}

\* One round: the table is read under its lock, after the pings and the sleep.
DiscoverRound ==
    /\ disc = "pinging"
    /\ discovered' = [n \in NodeIds |-> IF n \in FoundNodes THEN parteners[n].inst
                                                            ELSE discovered[n]]
    /\ IF FoundNodes # {}
       THEN UNCHANGED <<round, disc>>
       ELSE IF round = 0 THEN disc' = "done" /\ UNCHANGED round
                         ELSE round' = Counted /\ UNCHANGED disc
    /\ UNCHANGED <<parteners, phaseVars, handVars, bootVars>>

-----------------------------------------------------------------------------
ChangePhase(h) == Lock(h) \/ SetPhase(h) \/ CloseChan(h) \/ RenewChan(h)
Handle(h) ==
    \/ NotNewer(h) \/ StorePartner(h) \/ PartnerChanged(h) \/ NeedsChange(h) \/ ChangePhase(h)
Bootstrap == BootStarts \/ BootSelects \/ BootWakes \/ BootTimesOut \/ BootGivesUp
Discover  == DiscoverStarts \/ DiscoverRound

Next ==
    \/ \E h \in Handlers : Handle(h) \/ \E x \in Headers : Look(h, x)
    \/ Bootstrap \/ CtxExpires
    \/ Discover

\* Goroutines that can run do.  Bootstrap's select picks at random among the
\* cases that are ready, so ctx.Done(), once ready, is picked in the end.
Fairness ==
    /\ \A h \in Handlers : WF_vars(Handle(h))
    /\ WF_vars(BootStarts) /\ WF_vars(BootSelects) /\ SF_vars(BootGivesUp)
    /\ WF_vars(DiscoverRound)

Spec     == Init /\ [][Next]_vars
FairSpec == Spec /\ Fairness

-----------------------------------------------------------------------------
(* Properties.                                                             *)

\* A handler that has seen Routing and has yet to change the phase.
WillJoin(h) ==
    \/ stage[h] = "stored" /\ header[h].phase = Routing
    \/ stage[h] \in {"changing", "locking", "locked"}

\* The table holds a partner in phase Routing only if the node has left Booting
\* or some handler is about to make it leave, however the handlers of two
\* messages interleave (sitenode_parteners.go:22-27, sitenode.go:111-116).
RoutingPartnerStartsJoin ==
    (\E n \in NodeIds : parteners[n] # NoInfo /\ parteners[n].phase = Routing)
        => phase # Booting \/ \E h \in Handlers : WillJoin(h)

\* Whoever is woken by phaseChanged reads the new phase, although it reads it
\* without the lock: otherwise Bootstrap would go back to sleep on a channel
\* nobody closes (sitenode.go:106-108).
WokenSeesJoining == chClosed \/ chan > 0 => phase = Joining

\* changePhase runs under its lock, so no channel is closed twice.
HoldsLock(h) == stage[h] \in {"locked", "set", "closed"}

PhaseLockHeld ==
    \A h \in Handlers :
        /\ HoldsLock(h) <=> phaseLock = h
        /\ stage[h] # "panic"
        /\ stage[h] \in {"set", "closed"} => phase = Joining

ChClosedByHolder == chClosed => phaseLock # NoHandler /\ stage[phaseLock] = "closed"

HeadersKept ==
    \A h \in Handlers :
        /\ stage[h] \in {"looked", "stored"} => header[h] \in Header
        /\ stage[h] \in {"changing", "locking", "locked"} => header[h] \in Header

\* The inductive invariant: the properties above and what they rest on.
IndInv ==
    /\ TypeOK /\ PhaseLockHeld /\ ChClosedByHolder /\ HeadersKept
    /\ WokenSeesJoining /\ RoutingPartnerStartsJoin

\* Bootstrap returns once its context is done.
CtxEndsBootstrap == (ctxDone /\ boot # "none") ~> boot \in {"ok", "ctx"}

\* Discover returns although the table changes under it: instances only grow in
\* its own map, and rounds without news are counted.
DiscoverEnds == disc = "pinging" ~> disc = "done"

\* What the code says of itself: "found at least 1 R node, start join"
\* (sitenode.go:112).
RoutingHeardStartsJoin ==
    [][\A h \in Handlers :
        header[h] # NoInfo /\ header'[h] = NoInfo /\ header[h].phase = Routing
            => phase # Booting]_vars
=============================================================================
