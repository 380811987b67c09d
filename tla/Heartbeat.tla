------------------------------ MODULE Heartbeat -----------------------------
(***************************************************************************)
(* connection.Ping and connection.handleTransportMessage                   *)
(* (transport/conn.go): a ping holds pinglock, writes a HeartbeatRequest   *)
(* that carries the time, and waits on the unbuffered channel pingCh.  The *)
(* read loop starts one goroutine per HeartbeatResponse, which blocks in   *)
(* its send on pingCh until some ping receives, or panics when Close has   *)
(* closed the channel.                                                     *)
(***************************************************************************)
EXTENDS Naturals, FiniteSets

CONSTANTS
    Pingers,      \* goroutines that call Ping, one call at a time
    Cancellable,  \* those whose context may be cancelled
    MaxTick,      \* bound: how many pings the model sends
    NoPinger

ASSUME TickAssumption   == MaxTick \in Nat
ASSUME PingerAssumption == NoPinger \notin Pingers /\ Cancellable \subseteq Pingers

VARIABLES
    clock,       \* time.Now().UnixNano() of the latest ping
    pinglock,    \* who holds the mutex
    stage,       \* where each pinger stands
    tick,        \* b.HeartbeatTimeTick of its latest ping
    verdict,     \* how its latest ping ended
    requests,    \* ticks of HeartbeatRequests on their way to the peer
    replies,     \* ticks of HeartbeatResponses on their way back
    handlers,    \* ticks of the goroutines blocked on pingCh
    cancelled,   \* ticks of the pings their context ended
    netClosed,   \* conn.Close was called
    pingClosed,  \* pingCh is closed
    crashed      \* a handler sent on the closed channel: the process is gone

pingVars  == <<pinglock, stage, tick, verdict, cancelled>>
wireVars  == <<requests, replies, handlers>>
closeVars == <<netClosed, pingClosed>>
vars == <<clock, pingVars, wireVars, closeVars, crashed>>

Ticks == 1 .. MaxTick

TypeOK ==
    /\ clock \in 0 .. MaxTick
    /\ pinglock \in Pingers \cup {NoPinger}
    /\ stage \in [Pingers -> {"idle", "locking", "sending", "waiting", "done"}]
    /\ tick \in [Pingers -> 0 .. MaxTick]
    /\ verdict \in [Pingers -> {"none", "ok", "outOfOrder", "ctx", "sendErr"}]
    /\ requests \subseteq Ticks
    /\ replies \subseteq Ticks
    /\ handlers \subseteq Ticks
    /\ cancelled \subseteq Ticks
    /\ netClosed \in BOOLEAN
    /\ pingClosed \in BOOLEAN
    /\ crashed \in BOOLEAN

Init ==
    /\ clock = 0
    /\ pinglock = NoPinger
    /\ stage = [p \in Pingers |-> "idle"]
    /\ tick = [p \in Pingers |-> 0]
    /\ verdict = [p \in Pingers |-> "none"]
    /\ requests = {} /\ replies = {} /\ handlers = {} /\ cancelled = {}
    /\ netClosed = FALSE /\ pingClosed = FALSE /\ crashed = FALSE

-----------------------------------------------------------------------------
(* Ping.                                                                   *)

Call(p) ==
    /\ ~crashed
    /\ stage[p] \in {"idle", "done"}
    /\ stage' = [stage EXCEPT ![p] = "locking"]
    /\ verdict' = [verdict EXCEPT ![p] = "none"]
    /\ UNCHANGED <<clock, pinglock, tick, cancelled, wireVars, closeVars, crashed>>

\* Mutant: no mutex.
Unguarded == TRUE
MutexFree == pinglock = NoPinger

NewTime == clock + 1

\* The clock is read under the lock; no two pings read the same time.
Lock(p) ==
    /\ ~crashed
    /\ stage[p] = "locking"
    /\ MutexFree
    /\ clock < MaxTick
    /\ pinglock' = p
    /\ clock' = clock + 1
    /\ tick' = [tick EXCEPT ![p] = NewTime]
    /\ stage' = [stage EXCEPT ![p] = "sending"]
    /\ UNCHANGED <<verdict, cancelled, wireVars, closeVars, crashed>>

Send(p) ==
    /\ ~crashed
    /\ stage[p] = "sending"
    /\ ~netClosed
    /\ stage' = [stage EXCEPT ![p] = "waiting"]
    /\ requests' = requests \cup {tick[p]}
    /\ UNCHANGED <<clock, pinglock, tick, verdict, cancelled, replies, handlers, closeVars, crashed>>

\* Mutant: a return without the deferred Unlock.
Kept     == pinglock
Released == NoPinger

\* Every return releases the mutex.
Return(p, from, why) ==
    /\ ~crashed
    /\ stage[p] = from
    /\ stage' = [stage EXCEPT ![p] = "done"]
    /\ verdict' = [verdict EXCEPT ![p] = why]
    /\ pinglock' = Released
    /\ UNCHANGED <<clock, tick, requests, replies, closeVars, crashed>>

SendFails(p) ==
    /\ Return(p, "sending", "sendErr")
    /\ UNCHANGED <<cancelled, handlers>>

\* The answer of this ping is now nobody's.
CtxDone(p) ==
    /\ p \in Cancellable
    /\ Return(p, "waiting", "ctx")
    /\ cancelled' = cancelled \cup {tick[p]}
    /\ UNCHANGED handlers

\* Mutant: the tick is not compared.
AnyTick(p, t) == "ok"
Verdict(p, t) == IF t = tick[p] THEN "ok" ELSE "outOfOrder"

\* The send of line 196 meets the receive of line 167: ANY blocked handler.
Receive(p, t) ==
    /\ t \in handlers
    /\ ~pingClosed
    /\ Return(p, "waiting", Verdict(p, t))
    /\ handlers' = handlers \ {t}
    /\ UNCHANGED cancelled

\* A closed channel yields 0, which is no tick.
ReceiveClosed(p) ==
    /\ pingClosed
    /\ Return(p, "waiting", "outOfOrder")
    /\ UNCHANGED <<cancelled, handlers>>

-----------------------------------------------------------------------------
(* The peer runs the same handler and echoes each request once; frames     *)
(* and goroutines may overtake one another, so nothing keeps their order.  *)

Echo(t) ==
    /\ ~crashed
    /\ t \in requests
    /\ requests' = requests \ {t}
    /\ replies' = replies \cup {t}
    /\ UNCHANGED <<clock, pingVars, handlers, closeVars, crashed>>

\* Wait reads the response and starts handleTransportMessage.
Handle(t) ==
    /\ ~crashed
    /\ t \in replies
    /\ replies' = replies \ {t}
    /\ handlers' = handlers \cup {t}
    /\ UNCHANGED <<clock, pingVars, requests, closeVars, crashed>>

\* A send on a closed channel panics, and nothing recovers it.
HandlerPanics ==
    /\ ~crashed
    /\ pingClosed
    /\ handlers # {}
    /\ crashed' = TRUE
    /\ UNCHANGED <<clock, pingVars, wireVars, closeVars>>

-----------------------------------------------------------------------------
(* Close: the network first, which ends the read loop, then the channel.   *)

CloseNet ==
    /\ ~crashed
    /\ ~netClosed
    /\ netClosed' = TRUE
    /\ requests' = {} /\ replies' = {}
    /\ UNCHANGED <<clock, pingVars, handlers, pingClosed, crashed>>

ClosePingCh ==
    /\ ~crashed
    /\ netClosed /\ ~pingClosed
    /\ pingClosed' = TRUE
    /\ UNCHANGED <<clock, pingVars, wireVars, netClosed, crashed>>

-----------------------------------------------------------------------------
Ping(p) ==
    \/ Call(p) \/ Lock(p) \/ Send(p) \/ SendFails(p) \/ CtxDone(p)
    \/ ReceiveClosed(p) \/ \E t \in Ticks : Receive(p, t)

Next ==
    \/ \E p \in Pingers : Ping(p)
    \/ \E t \in Ticks : Echo(t) \/ Handle(t)
    \/ HandlerPanics
    \/ CloseNet \/ ClosePingCh

\* Goroutines that can run do; sync.Mutex hands the lock over after at most
\* 1ms of starvation, hence the strong fairness of Lock; the peer answers.
Fairness ==
    /\ \A p \in Pingers :
        /\ SF_vars(Lock(p))
        /\ WF_vars(Send(p) \/ SendFails(p))
        /\ WF_vars(ReceiveClosed(p) \/ \E t \in Ticks : Receive(p, t))
    /\ \A t \in Ticks : WF_vars(Echo(t)) /\ WF_vars(Handle(t))
    /\ WF_vars(HandlerPanics)
    /\ WF_vars(ClosePingCh)

Spec     == Init /\ [][Next]_vars
FairSpec == Spec /\ Fairness

-----------------------------------------------------------------------------
(* Properties.                                                             *)

Waiting(p)  == pinglock = p /\ stage[p] = "waiting"
Outstanding == requests \cup replies \cup handlers

\* Answers on their way that no ping waits for.
Strays == {t \in Outstanding : \A p \in Pingers : Waiting(p) => tick[p] # t}

\* Each ping that was given up leaves at most one answer nobody takes, so at
\* most that many goroutines stay blocked on pingCh, and a false alarm only
\* swaps one stray answer for another; Close may add the one it interrupts
\* (conn.go:164-172 against :196).
StrayBound ==
    Cardinality(Strays) <= Cardinality(cancelled) + (IF pingClosed THEN 1 ELSE 0)

\* "heartbeak time tick out of order" (conn.go:169) is only ever reported when
\* an earlier ping was given up by its context, or after Close.
FalseAlarmHasCause ==
    \A p \in Pingers :
        verdict[p] = "outOfOrder" => pingClosed \/ \E t \in cancelled : t < tick[p]

\* A ping that succeeded has used up its own answer: nothing of it is left to
\* disturb a later ping (conn.go:167-171).
OkUsesOwnAnswer ==
    \A p \in Pingers : verdict[p] = "ok" => tick[p] \notin Outstanding

\* Every call of Ping returns while the peer answers, unless the process died.
PingReturns ==
    \A p \in Pingers :
        stage[p] = "locking" ~> (stage[p] = "done" \/ crashed \/ clock = MaxTick)

(* What the tests expect of Ping.                                          *)

\* A Ping called after Close returns with an error (client_test.go:296-302).
PingAfterCloseReturns ==
    \A p \in Pingers :
        (stage[p] = "sending" /\ pingClosed) ~> (stage[p] = "done")

-----------------------------------------------------------------------------
(* What FalseAlarmHasCause and OkUsesOwnAnswer rest on.                    *)

\* pinglock admits one pinger at a time between its Lock and its return.
LockHeld ==
    \A p \in Pingers : stage[p] \in {"sending", "waiting"} =>
        /\ pinglock = p
        /\ tick[p] = clock
        /\ clock > 0

\* Ticks are handed out once and answered by nobody before they are sent.
TickOrder ==
    /\ \A p \in Pingers : /\ tick[p] <= clock
                          /\ stage[p] = "sending" => tick[p] \notin Outstanding
    /\ \A p, q \in Pingers : tick[p] = tick[q] => p = q \/ tick[p] = 0
    /\ \A t \in Outstanding \cup cancelled : t <= clock
    /\ \A t \in handlers : t \notin requests \cup replies
    /\ requests \cap replies = {}
    /\ \A p \in Pingers : verdict[p] # "none" => stage[p] = "done"

\* An answer no ping waits for was left behind by a cancelled ping.
StrayHasCause ==
    \A t \in Strays : pingClosed \/ \E c \in cancelled : c <= t

IndInv ==
    /\ TypeOK /\ LockHeld /\ TickOrder /\ StrayHasCause
    /\ FalseAlarmHasCause /\ OkUsesOwnAnswer

(* What StrayBound rests on.                                               *)

\* A ping is given up at most once, and no ping is sent once Close began.
GivenUpOnce ==
    /\ pingClosed => netClosed
    /\ \A p \in Pingers : stage[p] \in {"sending", "waiting"} => tick[p] \notin cancelled

\* The one stray Close may add is that of the ping it finds waiting: as long
\* as that ping waits, its answer is nobody's stray.
StraysCounted ==
    Cardinality(Strays) <= Cardinality(cancelled) +
        (IF pingClosed /\ \A p \in Pingers : stage[p] # "waiting" THEN 1 ELSE 0)

CountInv == IndInv /\ GivenUpOnce /\ StraysCounted
=============================================================================
