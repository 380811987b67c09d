----------------------------- MODULE LeaseAgent -----------------------------
(***************************************************************************)
(* lease/agent.go: an agent, the sessions it established, the goroutines   *)
(* that ping over them, the handlers of incoming connections and the       *)
(* goroutines that close a session or the agent.                           *)
(*                                                                         *)
(* A session broadcasts a pong by closing its channel pingCh and making a  *)
(* new one.  Channels are numbered: gen[s] is the current pingCh of s and  *)
(* the ones before it are closed.                                          *)
(***************************************************************************)
EXTENDS Naturals

CONSTANTS
    Sessions, Addrs,
    AddrOf,       \* AddrOf[s]: the address given to the Establish of s
    Pingers,
    SessionOf,    \* SessionOf[p]: the session p pings
    Loopers,      \* those that run PingLoop, whose pings always time out
    Handlers,     \* goroutines in handleIncoming
    Closers,      \* goroutines that close one session each
    AgentCloser,  \* the goroutine in Agent.Close
    MaxGen,       \* bound: broadcasts per session
    Together,     \* bound: the sets of sessions and pingers that have begun
    NoSession

ASSUME LeaseAssumption ==
    /\ AddrOf \in [Sessions -> Addrs] /\ SessionOf \in [Pingers -> Sessions]
    /\ Loopers \subseteq Pingers /\ MaxGen \in Nat
    /\ NoSession \notin Sessions /\ AgentCloser \notin Closers
    /\ Together \subseteq SUBSET (Sessions \cup Pingers)

VARIABLES
    sessions,   \* Agent.sessions
    est,        \* where the Establish of each session stands
    late,       \* sessions stored after the Range of Agent.Close began
    dialer,     \* Agent.dial: "open" or closedDialer
    closed,     \* leaseSession.closed
    netClosed,  \* sessions whose conn is closed
    stalled,    \* sessions whose peer takes no more bytes, ever
    gen,        \* leaseSession.pingCh
    pongs,      \* pongs each session has processed
    stage, ch,  \* each pinger: where it stands, the channel it took
    sentAt,     \* pongs processed when its ping was written
    verdict,    \* how its last ping ended
    loopDone,   \* loopers whose own context is done
    handling,   \* the session a handler has loaded
    closer,     \* where each closer stands
    target,     \* the session it is closing
    objLock,    \* sessions whose objLock a closer holds
    ranging,    \* Agent.Close: "no", "ranging", "over"
    due         \* addresses its Range has still to visit

estVars   == <<est, dialer, late>>
pingVars  == <<stage, ch, sentAt, verdict, loopDone>>
stateVars == <<closed, netClosed, stalled, gen, pongs>>
closeVars == <<closer, target, objLock, ranging, due>>
vars == <<sessions, estVars, pingVars, stateVars, handling, closeVars>>

AllClosers == Closers \cup {AgentCloser}
MaybeSession == Sessions \cup {NoSession}

TypeOK ==
    /\ sessions \in [Addrs -> MaybeSession]
    /\ est \in [Sessions -> {"none", "dialed", "open", "failed"}]
    /\ dialer \in {"open", "closed"} /\ late \subseteq Sessions
    /\ closed \subseteq Sessions /\ netClosed \subseteq Sessions
    /\ stalled \subseteq Sessions /\ objLock \subseteq Sessions
    /\ gen \in [Sessions -> Nat] /\ pongs \in [Sessions -> Nat]
    /\ stage \in [Pingers -> {"idle", "writing", "written", "waiting", "done", "ended"}]
    /\ ch \in [Pingers -> Nat] /\ sentAt \in [Pingers -> Nat]
    /\ verdict \in [Pingers -> {"none", "ok", "err"}]
    /\ loopDone \subseteq Loopers
    /\ handling \in [Handlers -> MaybeSession]
    /\ closer \in [AllClosers -> {"idle", "delete", "lock", "marked", "done"}]
    /\ target \in [AllClosers -> MaybeSession]
    /\ ranging \in {"no", "ranging", "over"}
    /\ due \subseteq Addrs

Init ==
    /\ sessions = [a \in Addrs |-> NoSession]
    /\ est = [s \in Sessions |-> "none"]
    /\ dialer = "open" /\ late = {}
    /\ closed = {} /\ netClosed = {} /\ stalled = {} /\ objLock = {}
    /\ gen = [s \in Sessions |-> 0] /\ pongs = [s \in Sessions |-> 0]
    /\ stage = [p \in Pingers |-> "idle"]
    /\ ch = [p \in Pingers |-> 0] /\ sentAt = [p \in Pingers |-> 0]
    /\ verdict = [p \in Pingers |-> "none"]
    /\ loopDone = {}
    /\ handling = [h \in Handlers |-> NoSession]
    /\ closer = [c \in AllClosers |-> "idle"]
    /\ target = [c \in AllClosers |-> NoSession]
    /\ ranging = "no" /\ due = {}

-----------------------------------------------------------------------------
(* Establish: reconnect dials, then the session is stored.                 *)

\* What has begun.
Begun == {s \in Sessions : est[s] # "none"} \cup {p \in Pingers : stage[p] # "idle"}
MayAct(a) == Begun \cup {a} \in Together

ClosedDialer == "closed"

Dial(s) ==
    /\ est[s] = "none" /\ MayAct(s)
    /\ \/ dialer = "open" /\ est' = [est EXCEPT ![s] = "dialed"]
       \/ est' = [est EXCEPT ![s] = "failed"]
    /\ UNCHANGED <<sessions, dialer, late, pingVars, stateVars, handling, closeVars>>

\* Mutant: Establish returns the session without storing it.
NotStored(s) == sessions
\* Store replaces the session that had the address before.
Stored(s) == [sessions EXCEPT ![AddrOf[s]] = s]

Store(s) ==
    /\ est[s] = "dialed"
    /\ est' = [est EXCEPT ![s] = "open"]
    /\ sessions' = Stored(s)
    /\ late' = IF ranging = "no" THEN late ELSE late \cup {s}
    /\ UNCHANGED <<dialer, pingVars, stateVars, handling, closeVars>>

-----------------------------------------------------------------------------
(* Ping and PingLoop.                                                      *)

\* A looper whose timer has fired pings again, even if its context is done too.
CallPing(p) ==
    /\ est[SessionOf[p]] = "open" /\ MayAct(p)
    /\ stage[p] = "idle" \/ (stage[p] = "done" /\ p \in Loopers)
    /\ stage' = [stage EXCEPT ![p] = "writing"]
    /\ verdict' = [verdict EXCEPT ![p] = "none"]
    /\ UNCHANGED <<sessions, estVars, ch, sentAt, loopDone, stateVars, handling, closeVars>>

\* A peer that is slow only delays WritePing.  One that is silent keeps the write,
\* which looks at no context: the first write of a TLS session waits for the
\* peer's part of the handshake, and any write may find the socket full.
Stalls(s) ==
    /\ \E p \in Pingers : stage[p] = "writing" /\ SessionOf[p] = s
    /\ stalled' = stalled \cup {s}
    /\ UNCHANGED <<sessions, estVars, pingVars, closed, netClosed, gen, pongs, handling, closeVars>>

WritePing(p) ==
    /\ stage[p] = "writing"
    /\ SessionOf[p] \notin netClosed \cup stalled
    /\ stage' = [stage EXCEPT ![p] = "written"]
    /\ sentAt' = [sentAt EXCEPT ![p] = pongs[SessionOf[p]]]
    /\ UNCHANGED <<sessions, estVars, ch, verdict, loopDone, stateVars, handling, closeVars>>

\* Also sets connected to FALSE, which nothing reads after Establish.
WriteFails(p) ==
    /\ stage[p] = "writing"
    /\ stage' = [stage EXCEPT ![p] = "done"]
    /\ verdict' = [verdict EXCEPT ![p] = "err"]
    /\ UNCHANGED <<sessions, estVars, ch, sentAt, loopDone, stateVars, handling, closeVars>>

\* Mutant: the first channel of the session, as if it was never replaced.
FirstCh(p) == 0
CurrentCh(p) == gen[SessionOf[p]]

\* pingCh is read only after the ping was written.
TakeCh(p) ==
    /\ stage[p] = "written"
    /\ ch' = [ch EXCEPT ![p] = CurrentCh(p)]
    /\ stage' = [stage EXCEPT ![p] = "waiting"]
    /\ UNCHANGED <<sessions, estVars, sentAt, verdict, loopDone, stateVars, handling, closeVars>>

ChClosed(p) == ch[p] < gen[SessionOf[p]]

EndWait(p, why) ==
    /\ stage[p] = "waiting"
    /\ stage' = [stage EXCEPT ![p] = "done"]
    /\ verdict' = [verdict EXCEPT ![p] = why]
    /\ ch' = [ch EXCEPT ![p] = 0]
    /\ UNCHANGED <<sessions, estVars, sentAt, loopDone, stateVars, handling, closeVars>>

Released(p) == ChClosed(p) /\ EndWait(p, "ok")

\* Mutant: PingLoop pings with a context that never ends.
NoTimeout(p) == FALSE
\* A looper's ping has a timeout of its own; any other may have none.
HasTimeout(p) == p \in Loopers

CtxDone(p) == HasTimeout(p) /\ EndWait(p, "err")

LoopCancelled(p) ==
    /\ p \in Loopers \ loopDone
    /\ loopDone' = loopDone \cup {p}
    /\ UNCHANGED <<sessions, estVars, stage, ch, sentAt, verdict, stateVars, handling, closeVars>>

LoopEnds(p) ==
    /\ p \in loopDone
    /\ stage[p] = "done"
    /\ stage' = [stage EXCEPT ![p] = "ended"]
    /\ UNCHANGED <<sessions, estVars, ch, sentAt, verdict, loopDone, stateVars, handling, closeVars>>

-----------------------------------------------------------------------------
(* handleIncoming: a pong names the address its sender listens on.         *)

LoadSession(h, a) ==
    /\ handling[h] = NoSession
    /\ sessions[a] # NoSession
    /\ handling' = [handling EXCEPT ![h] = sessions[a]]
    /\ UNCHANGED <<sessions, estVars, pingVars, stateVars, closeVars>>

Broadcast(s) == gen' = [gen EXCEPT ![s] = @ + 1]

OnPong(h) ==
    LET s == handling[h] IN
    /\ s # NoSession
    /\ gen[s] < MaxGen
    /\ Broadcast(s)
    /\ pongs' = [pongs EXCEPT ![s] = @ + 1]
    /\ handling' = [handling EXCEPT ![h] = NoSession]
    /\ UNCHANGED <<sessions, estVars, pingVars, closed, netClosed, stalled, closeVars>>

-----------------------------------------------------------------------------
(* leaseSession.Close, by a closer c.                                      *)

UserCloses(c, s) ==
    /\ c \in Closers /\ closer[c] = "idle" /\ est[s] = "open"
    /\ closer' = [closer EXCEPT ![c] = "delete"]
    /\ target' = [target EXCEPT ![c] = s]
    /\ UNCHANGED <<sessions, estVars, pingVars, stateVars, handling, objLock, ranging, due>>

\* Deletes whatever session has the address, even when s is closed already.
DeleteEntry(c) ==
    /\ closer[c] = "delete"
    /\ sessions' = [sessions EXCEPT ![AddrOf[target[c]]] = NoSession]
    /\ closer' = [closer EXCEPT ![c] = "lock"]
    /\ UNCHANGED <<estVars, pingVars, stateVars, handling, target, objLock, ranging, due>>

Finished(c) == IF c = AgentCloser THEN "idle" ELSE "done"

AlreadyClosed(c) ==
    /\ closer[c] = "lock" /\ target[c] \notin objLock /\ target[c] \in closed
    /\ closer' = [closer EXCEPT ![c] = Finished(c)]
    /\ UNCHANGED <<sessions, estVars, pingVars, stateVars, handling, target, objLock, ranging, due>>

MarkClosed(c) ==
    /\ closer[c] = "lock" /\ target[c] \notin objLock \cup closed
    /\ closed' = closed \cup {target[c]}
    /\ netClosed' = netClosed \cup {target[c]}
    /\ objLock' = objLock \cup {target[c]}
    /\ closer' = [closer EXCEPT ![c] = "marked"]
    /\ UNCHANGED <<sessions, estVars, pingVars, stalled, gen, pongs, handling, target, ranging, due>>

\* Mutant: Close without boardcastPong.
NoBroadcast(s) == UNCHANGED gen
LastBroadcast(s) == Broadcast(s)

UnlockPings(c) ==
    /\ closer[c] = "marked"
    /\ LastBroadcast(target[c])
    /\ objLock' = objLock \ {target[c]}
    /\ closer' = [closer EXCEPT ![c] = Finished(c)]
    /\ UNCHANGED <<sessions, estVars, pingVars, closed, netClosed, stalled, pongs, handling, target, ranging, due>>

-----------------------------------------------------------------------------
(* Agent.Close: no more dials, then every session that is stored.          *)

\* Range visits what is stored when it begins, and may visit what is stored later.
AgentCloses ==
    /\ ranging = "no"
    /\ ranging' = "ranging"
    /\ dialer' = ClosedDialer
    /\ \E extra \in SUBSET Addrs : due' = extra \cup {a \in Addrs : sessions[a] # NoSession}
    /\ UNCHANGED <<sessions, est, late, pingVars, stateVars, handling, closer, target, objLock>>

\* Mutant: the function given to Range returns false.
RangeStops(a) == {}
RangeGoesOn(a) == due \ {a}

AgentVisits(a) ==
    /\ ranging = "ranging" /\ closer[AgentCloser] = "idle"
    /\ a \in due
    /\ due' = RangeGoesOn(a)
    /\ IF sessions[a] = NoSession
       THEN UNCHANGED <<closer, target>>
       ELSE /\ closer' = [closer EXCEPT ![AgentCloser] = "delete"]
            /\ target' = [target EXCEPT ![AgentCloser] = sessions[a]]
    /\ UNCHANGED <<sessions, estVars, pingVars, stateVars, handling, objLock, ranging>>

AgentClosed ==
    /\ ranging = "ranging" /\ closer[AgentCloser] = "idle" /\ due = {}
    /\ ranging' = "over"
    /\ UNCHANGED <<sessions, estVars, pingVars, stateVars, handling, closer, target, objLock, due>>

-----------------------------------------------------------------------------
Ping(p) ==
    \/ CallPing(p) \/ WritePing(p) \/ WriteFails(p) \/ TakeCh(p) \/ Released(p) \/ CtxDone(p)
    \/ LoopCancelled(p) \/ LoopEnds(p)

CloseSession(c) ==
    \/ DeleteEntry(c) \/ AlreadyClosed(c) \/ MarkClosed(c) \/ UnlockPings(c)

Next ==
    \/ \E s \in Sessions : Dial(s) \/ Store(s) \/ Stalls(s)
    \/ \E p \in Pingers : Ping(p)
    \/ \E h \in Handlers : OnPong(h) \/ \E a \in Addrs : LoadSession(h, a)
    \/ \E c \in AllClosers : CloseSession(c) \/ \E s \in Sessions : UserCloses(c, s)
    \/ AgentCloses \/ AgentClosed \/ \E a \in Addrs : AgentVisits(a)

\* Goroutines that can run do, and PingLoop's timeouts expire.  A write ends
\* unless the peer is silent, and fails once the conn is closed.  Pongs need not
\* arrive, and nobody is obliged to ping or close.  A looper whose context is
\* done cannot choose its timer for ever: a select picks at random.
Fairness ==
    /\ \A p \in Pingers :
        /\ WF_vars(WritePing(p) \/ (SessionOf[p] \in netClosed /\ WriteFails(p)))
        /\ WF_vars(TakeCh(p)) /\ WF_vars(Released(p)) /\ WF_vars(CtxDone(p))
        /\ SF_vars(LoopEnds(p))
    /\ \A c \in AllClosers : WF_vars(CloseSession(c))
    /\ WF_vars(AgentClosed \/ \E a \in Addrs : AgentVisits(a))

Spec     == Init /\ [][Next]_vars
FairSpec == Spec /\ Fairness

-----------------------------------------------------------------------------
(* Properties.                                                             *)

Closing(c) == closer[c] \in {"delete", "lock", "marked"}
BeingClosed(s) == \E c \in AllClosers : Closing(c) /\ target[c] = s

\* Another session of the address of s has, or has had, its place in the map.
Displaced(s) ==
    \E t \in Sessions \ {s} :
        /\ AddrOf[t] = AddrOf[s] /\ est[t] = "open"
        /\ sessions[AddrOf[s]] = t \/ t \in closed \/ BeingClosed(t)

\* A session nobody closes keeps receiving pongs: it stays in the agent's map
\* until another session of its address is stored or closed, since Store and
\* Delete go by address only (agent.go:117 and :244).
OpenSessionIsRegistered ==
    \A s \in Sessions :
        est[s] = "open" => \/ sessions[AddrOf[s]] = s
                           \/ s \in closed \/ BeingClosed(s) \/ Displaced(s)

\* When Agent.Close returns it has closed every session, or somebody is at it,
\* but those stored after its Range began or displaced (agent.go:143-149).
AgentCloseReaches ==
    ranging = "over" =>
        \A s \in Sessions \ late :
            est[s] = "open" => s \in closed \/ BeingClosed(s) \/ Displaced(s)

\* Ping succeeds only when a pong arrived after it was written, or because its
\* session was closed: an earlier pong never answers it (agent.go:293-318).
OkNeedsPong ==
    \A p \in Pingers :
        verdict[p] = "ok" => \/ pongs[SessionOf[p]] > sentAt[p]
                             \/ SessionOf[p] \in closed

\* What the map holds and what is being closed was established.
EntriesAreOpen ==
    \A a \in Addrs : sessions[a] # NoSession =>
        AddrOf[sessions[a]] = a /\ est[sessions[a]] = "open"

TargetsAreOpen ==
    \A c \in AllClosers : Closing(c) =>
        /\ target[c] \in Sessions /\ est[target[c]] = "open"
        /\ closer[c] = "marked" => target[c] \in closed

\* Until a session is closed only pongs replace its channel.
GenCountsPongs == \A s \in Sessions \ closed : gen[s] = pongs[s]

\* A ping has no verdict before its write, and waits on a channel no older.
ChIsRecent ==
    \A p \in Pingers :
        /\ stage[p] = "writing" => verdict[p] = "none"
        /\ stage[p] \in {"written", "waiting"} => sentAt[p] <= pongs[SessionOf[p]]
        /\ stage[p] = "waiting" => sentAt[p] <= ch[p] \/ SessionOf[p] \in closed

\* Behind the Range of Agent.Close the map holds only what was stored since.
Visited(a) ==
    /\ ranging # "no" /\ a \notin due
    /\ ~(closer[AgentCloser] = "delete" /\ AddrOf[target[AgentCloser]] = a)
VisitedEntriesAreLate ==
    \A a \in Addrs : Visited(a) => sessions[a] \in late \cup {NoSession}

\* Agent.Close itself closes sessions only within its Range.
RangeIsDone == ranging = "over" => due = {} /\ closer[AgentCloser] = "idle"

DialerFollowsClose == ranging # "no" => dialer = "closed"

\* The inductive invariant: the properties above and what they rest on.
IndInv ==
    /\ TypeOK /\ EntriesAreOpen /\ TargetsAreOpen /\ GenCountsPongs /\ ChIsRecent
    /\ DialerFollowsClose /\ VisitedEntriesAreLate /\ RangeIsDone
    /\ OpenSessionIsRegistered /\ OkNeedsPong

\* A ping that was already waiting when its session was closed returns.
CloseUnlocksWaiters ==
    \A p \in Pingers :
        (stage[p] = "waiting" /\ SessionOf[p] \in objLock) ~> stage[p] # "waiting"

\* PingLoop returns after its context is done, even if no pong ever comes.  Only
\* a write that a silent peer keeps can hold it, and then for ever: neither
\* the write nor Ping looks at the context before it is over (agent.go:204-217, 293).
LoopReturns ==
    \A p \in Loopers :
        (p \in loopDone /\ stage[p] # "idle") ~>
            (stage[p] = "ended" \/ [](stage[p] = "writing" /\ SessionOf[p] \in stalled \ netClosed))

\* A session that outlives Agent.Close, which nobody can close through the
\* agent any more, dialed before it: a later Establish fails (agent.go:141).
NoDialAfterClose ==
    [][\A s \in Sessions : est[s] = "none" /\ est'[s] = "dialed" => ranging = "no"]_vars

\* What the code says of itself: Close unlocks waiting pings (agent.go:254).
CloseUnlocksPings ==
    \A p \in Pingers :
        (stage[p] = "waiting" /\ SessionOf[p] \in closed) ~> stage[p] # "waiting"
=============================================================================
