------------------------------ MODULE ConnPool ------------------------------
(***************************************************************************)
(* federation/sitenode_sender.go: the connections a node keeps to its      *)
(* partners.  The pool maps an address to a cachedConn, which dials when   *)
(* it is first asked for its connection and removes itself when the dial   *)
(* fails or the connection ends.  Entries of two addresses never meet, so  *)
(* this is the pool at one address, with the senders that want it.         *)
(*                                                                         *)
(* The cachedConns are numbered in the order they are stored.  act[c] is   *)
(* the goroutine that reads from the connection of c, and act[Node] the    *)
(* one in SiteNode.Close.                                                  *)
(***************************************************************************)
EXTENDS Naturals

CONSTANTS
    Senders,   \* goroutines in SendOneWay or Route
    MaxConn,   \* bound: cachedConns ever stored
    Node, None

Conns  == 1 .. MaxConn
Actors == Conns \cup {Node}

ASSUME PoolAssumption == MaxConn \in Nat /\ Node \notin Conns /\ None \notin Actors

VARIABLES
    pool,       \* the cachedConn connPool holds at the address
    made,       \* cachedConns stored so far
    init,       \* each one's sync.Once: "no", "running", "done"
    conn,       \* those whose field conn is set
    lasterr,    \* those whose dial failed
    net,        \* the TCP connection: "none", "open", "down" (the peer is gone), "closed"
    act,        \* what each actor does
    victim,     \* the cachedConn an actor took out and is about to close
    sender, cc  \* each sender: where it stands, the cachedConn it loaded

connVars == <<init, conn, lasterr, net>>
vars == <<pool, made, connVars, act, victim, sender, cc>>

TypeOK ==
    /\ pool \in Conns \cup {None}
    /\ made \in 0 .. MaxConn
    /\ init \in [Conns -> {"no", "running", "done"}]
    /\ conn \subseteq Conns /\ lasterr \subseteq Conns
    /\ net \in [Conns -> {"none", "open", "down", "closed"}]
    /\ act \in [Actors -> {"none", "reading", "wedged", "ended", "closing", "done"}]
    /\ victim \in [Actors -> Conns \cup {None}]
    /\ sender \in [Senders -> {"idle", "loaded", "dialing", "failed", "dialed", "returned"}]
    /\ cc \in [Senders -> Conns \cup {None}]

Init ==
    /\ pool = None /\ made = 0
    /\ init = [c \in Conns |-> "no"]
    /\ conn = {} /\ lasterr = {}
    /\ net = [c \in Conns |-> "none"]
    /\ act = [a \in Actors |-> "none"]
    /\ victim = [a \in Actors |-> None]
    /\ sender = [s \in Senders |-> "idle"]
    /\ cc = [s \in Senders |-> None]

-----------------------------------------------------------------------------
(* getConn and cachedConn.Conn.                                            *)

Goto(s, where) == sender' = [sender EXCEPT ![s] = where]

LoadConn(s) ==
    /\ sender[s] \in {"idle", "returned"} /\ pool # None
    /\ cc' = [cc EXCEPT ![s] = pool]
    /\ Goto(s, "loaded")
    /\ UNCHANGED <<pool, made, connVars, act, victim>>

\* Mutant: Store in place of LoadOrStore.
Anyway == TRUE
Absent == pool = None

StoreConn(s) ==
    /\ sender[s] \in {"idle", "returned"} /\ Absent
    /\ made < MaxConn
    /\ made' = made + 1 /\ pool' = made + 1
    /\ cc' = [cc EXCEPT ![s] = made + 1]
    /\ Goto(s, "loaded")
    /\ UNCHANGED <<connVars, act, victim>>

\* Mutant: Conn does not wait for a dial that is under way.
Started(c) == init[c] # "no"
Settled(c) == c \in conn \/ init[c] = "done"

ReturnConn(s) ==
    /\ sender[s] = "loaded" /\ Settled(cc[s])
    /\ Goto(s, "returned")
    /\ UNCHANGED <<pool, made, connVars, act, victim, cc>>

BeginDial(s) ==
    /\ sender[s] = "loaded" /\ cc[s] \notin conn /\ init[cc[s]] = "no"
    /\ init' = [init EXCEPT ![cc[s]] = "running"]
    /\ Goto(s, "dialing")
    /\ UNCHANGED <<pool, made, conn, lasterr, net, act, victim, cc>>

\* The goroutine in Wait runs before the field conn is set.
DialOk(s) ==
    /\ sender[s] = "dialing"
    /\ net' = [net EXCEPT ![cc[s]] = "open"]
    /\ act' = [act EXCEPT ![cc[s]] = "reading"]
    /\ Goto(s, "dialed")
    /\ UNCHANGED <<pool, made, init, conn, lasterr, victim, cc>>

SetConn(s) ==
    /\ sender[s] = "dialed"
    /\ conn' = conn \cup {cc[s]}
    /\ init' = [init EXCEPT ![cc[s]] = "done"]
    /\ Goto(s, "returned")
    /\ UNCHANGED <<pool, made, lasterr, net, act, victim, cc>>

\* Mutant: a dial that failed leaves its cachedConn in the pool.
StaysPooled == "done"
ThenClose   == "ended"

\* c.Close is called by this sender, before init is done.
DialFails(s) ==
    /\ sender[s] = "dialing"
    /\ lasterr' = lasterr \cup {cc[s]}
    /\ act' = [act EXCEPT ![cc[s]] = ThenClose]
    /\ Goto(s, "failed")
    /\ UNCHANGED <<pool, made, init, conn, net, victim, cc>>

FailureDone(s) ==
    /\ sender[s] = "failed" /\ act[cc[s]] = "done"
    /\ init' = [init EXCEPT ![cc[s]] = "done"]
    /\ Goto(s, "returned")
    /\ UNCHANGED <<pool, made, conn, lasterr, net, act, victim, cc>>

-----------------------------------------------------------------------------
(* The connection, and the goroutine that reads from it.                   *)

PeerLeaves(c) ==
    /\ net[c] = "open"
    /\ net' = [net EXCEPT ![c] = "down"]
    /\ UNCHANGED <<pool, made, init, conn, lasterr, act, victim, sender, cc>>

\* onMessage runs in the read loop, and its Feed blocks for ever when the
\* context of the Route it answers expires (requesttable.go:74).
FeedBlocks(c) ==
    /\ act[c] = "reading"
    /\ act' = [act EXCEPT ![c] = "wedged"]
    /\ UNCHANGED <<pool, made, connVars, victim, sender, cc>>

\* Mutant: the goroutine without its deferred Close.
WaitOver == "done"
WaitEnd  == "ended"

\* Wait closes the connection as it returns.
WaitReturns(c) ==
    /\ act[c] = "reading" /\ net[c] \in {"down", "closed"}
    /\ act' = [act EXCEPT ![c] = WaitEnd]
    /\ net' = [net EXCEPT ![c] = "closed"]
    /\ UNCHANGED <<pool, made, init, conn, lasterr, victim, sender, cc>>

-----------------------------------------------------------------------------
(* cachedConn.Close: whatever the pool holds at the address is closed.     *)

\* Mutant: Load in place of LoadAndDelete.
NotTaken == pool
TakenOut == None

TakeOut(a) ==
    /\ act[a] = "ended"
    /\ pool' = TakenOut
    /\ victim' = [victim EXCEPT ![a] = pool]
    /\ act' = [act EXCEPT ![a] = IF pool = None THEN "done" ELSE "closing"]
    /\ UNCHANGED <<made, connVars, sender, cc>>

\* A connection that is not yet in the field is not closed.
CloseVictim(a) ==
    /\ act[a] = "closing"
    /\ net' = IF victim[a] \in conn THEN [net EXCEPT ![victim[a]] = "closed"] ELSE net
    /\ act' = [act EXCEPT ![a] = "done"]
    /\ UNCHANGED <<pool, made, init, conn, lasterr, victim, sender, cc>>

\* SiteNode.Close, whose Range finds the entry or finds none.
NodeCloses ==
    /\ act[Node] = "none"
    /\ act' = [act EXCEPT ![Node] = IF pool = None THEN "done" ELSE "ended"]
    /\ UNCHANGED <<pool, made, connVars, victim, sender, cc>>

-----------------------------------------------------------------------------
GetConn(s) ==
    \/ LoadConn(s) \/ StoreConn(s) \/ ReturnConn(s)
    \/ BeginDial(s) \/ DialOk(s) \/ DialFails(s) \/ SetConn(s) \/ FailureDone(s)

Close(a) == TakeOut(a) \/ CloseVictim(a)

Next ==
    \/ \E s \in Senders : GetConn(s)
    \/ \E c \in Conns : PeerLeaves(c) \/ FeedBlocks(c) \/ WaitReturns(c)
    \/ \E a \in Actors : Close(a)
    \/ NodeCloses

\* Goroutines that can run do, and a dial ends one way or the other.
Fairness ==
    /\ \A s \in Senders : WF_vars(DialOk(s) \/ DialFails(s)) /\ WF_vars(SetConn(s))
    /\ \A c \in Conns : WF_vars(WaitReturns(c))
    /\ \A a \in Actors : WF_vars(Close(a))

Spec     == Init /\ [][Next]_vars
FairSpec == Spec /\ Fairness

-----------------------------------------------------------------------------
(* Properties.                                                             *)

\* Whoever asks for a connection gets one or an error, never nil and no error
\* (which SendOneWay would dereference): a second sender waits for the dial of
\* the first, also when the dial fails (sitenode_sender.go:23-48, 73).
ConnOrError == \A s \in Senders : sender[s] = "returned" => cc[s] \in conn \cup lasterr

\* A cachedConn whose dial failed or whose connection has ended is gone from the
\* pool, so the next sender dials anew: "will recreate if err"
\* (sitenode_sender.go:47).
PooledIsAlive == pool # None => act[pool] \notin {"closing", "done"}

\* cachedConn.Close takes out what it finds at its address (line 51): until
\* SiteNode.Close that is always the connection that ended, never its successor.
OnlyNodeClosesOthers ==
    \A c \in Conns : victim[c] \in Conns /\ victim[c] # c => act[Node] # "none"

\* What was not stored yet is untouched.
Allocated ==
    /\ pool # None => pool <= made
    /\ \A c \in Conns : init[c] # "no" => c <= made
    /\ \A s \in Senders : sender[s] # "idle" => cc[s] \in Conns /\ cc[s] <= made

Dials(s) == sender[s] \in {"dialing", "failed", "dialed"}

\* The Once lets one sender dial for a cachedConn.
DialerIsAlone ==
    \A s \in Senders : Dials(s) =>
        /\ init[cc[s]] = "running"
        /\ \A t \in Senders : Dials(t) /\ cc[t] = cc[s] => t = s

DialState ==
    /\ \A c \in Conns : init[c] = "no" => act[c] = "none"
    /\ \A s \in Senders : /\ sender[s] = "dialing" => act[cc[s]] = "none"
                          /\ sender[s] = "failed" => cc[s] \in lasterr

SettledConns == \A c \in Conns : Settled(c) => c \in conn \cup lasterr

\* Until SiteNode.Close a cachedConn stays in the pool until it closes itself.
PooledUntilClosed ==
    act[Node] = "none" =>
        \A c \in Conns : c <= made /\ act[c] \notin {"closing", "done"} => pool = c

\* The inductive invariant: the properties above and what they rest on.
IndInv ==
    /\ TypeOK /\ Allocated /\ DialerIsAlone /\ DialState /\ SettledConns /\ PooledUntilClosed
    /\ PooledIsAlive /\ ConnOrError /\ OnlyNodeClosesOthers

\* A pooled connection whose peer is gone makes room for a new dial, unless its
\* read loop is blocked in Feed.
DeadConnsLeave ==
    \A c \in Conns : (pool = c /\ net[c] = "down") ~> (pool # c \/ act[c] = "wedged")
=============================================================================
