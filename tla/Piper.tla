------------------------------- MODULE Piper --------------------------------
(***************************************************************************)
(* transport/piper.go: one accepted connection.  handle reads the first    *)
(* message, greets the client as a server does, asks FindUpstream for the  *)
(* gateway to use, greets it as a client does, passes the first message on *)
(* when the connection is not secure, and starts two copy loops.  It goes  *)
(* away with the first of them that ends.                                  *)
(*                                                                         *)
(* "down" is handle's conn, "up" the connection FindUpstream returned,     *)
(* without TLS here.  FindUpstream and Filter are the user's.              *)
(***************************************************************************)
EXTENDS Tunnel

CONSTANT Dropped   \* types of message for which Filter returns nil

VARIABLES
    handler,  \* where handle stands
    dialed,   \* FindUpstream returned a connection
    copier,   \* copier[e]: where the loop that reads end e stands
    carry,    \* carry[e]: the message it has read and not written
    errors    \* results in the channel of pipe

piperVars == <<handler, dialed, copier, carry, errors>>
copyVars  == <<copier, carry, errors>>

Sides == {"down", "up"}

PiperTypeOK ==
    /\ handler \in {"first", "tap", "find", "tapUp", "forward", "piping", "done"}
    /\ dialed \in BOOLEAN
    /\ copier \in [Sides -> {"off", "reading", "writing", "failed", "ended"}]
    /\ errors \in 0 .. 2

PiperStart ==
    /\ handler = "first" /\ dialed = FALSE
    /\ copier = [e \in Sides |-> "off"]
    /\ carry = [e \in Sides |-> NoMsg]
    /\ errors = 0

-----------------------------------------------------------------------------
(* handle, up to the pipe.                                                 *)

Goes(from, to) == handler = from /\ handler' = to

\* With TLS the first frame is the client's first flight, which tapAcceptedConn
\* hands to the handshake; without, it is the client's greeting.
ReadFirst ==
    /\ Goes("first", "tap")
    /\ IF secure THEN ReadFlight("down") ELSE NextFrame("down") /\ UNCHANGED tunnelVars
    /\ UNCHANGED <<copyVars, dialed>>

TapDown ==
    /\ handler = "tap"
    /\ Handshake("down")
    /\ UNCHANGED piperVars

GreetClient ==
    /\ Goes("tap", "find")
    /\ Tapped("down")
    /\ WriteFrame("down", Greeting("piper"))
    /\ UNCHANGED <<tunnelVars, copyVars, dialed>>

FindUpstream ==
    /\ Goes("find", "tapUp")
    /\ dialed' = TRUE
    /\ UNCHANGED <<streamVars, tunnelVars, copyVars>>

GreetUpstream ==
    /\ Goes("tapUp", "forward")
    /\ WriteFrame("up", Greeting("piper"))
    /\ UNCHANGED <<tunnelVars, copyVars, dialed>>

PassFirst ==
    /\ Goes("forward", "piping")
    /\ IF secure THEN UNCHANGED streamVars ELSE WriteFrame("up", Greeting("client"))
    /\ copier' = [e \in Sides |-> "reading"]
    /\ UNCHANGED <<tunnelVars, dialed, carry, errors>>

\* What can make handle return early.  Only the deferred conn.Close runs: the
\* upstream connection, if there is one, stays open.
SetupFails ==
    \/ handler = "first" /\ ReadFails("down")
    \/ handler = "tap" /\ Receives("down") /\ ReadFails("down")
    \/ handler = "tap" /\ Tapped("down") /\ Broken("down")
    \/ handler = "find"
    \/ handler = "tapUp" /\ Broken("up")
    \/ handler = "forward" /\ ~secure /\ Broken("up")

SetupReturns ==
    /\ SetupFails
    /\ handler' = "done"
    /\ Shut({"down"})
    /\ UNCHANGED <<tunnelVars, copyVars, dialed>>

-----------------------------------------------------------------------------
(* copy.                                                                   *)

CopyTo(e, to) == copier' = [copier EXCEPT ![e] = to]

CopyReads(e) ==
    /\ copier[e] = "reading"
    /\ NextFrame(e)
    /\ IF NextMessage(e).type \in Dropped
       THEN UNCHANGED <<copier, carry>>
       ELSE CopyTo(e, "writing") /\ carry' = [carry EXCEPT ![e] = NextMessage(e)]
    /\ UNCHANGED <<tunnelVars, handler, dialed, errors>>

Across(e) == IF e = "down" THEN "up" ELSE "down"

CopyWrites(e) ==
    /\ copier[e] = "writing"
    /\ WriteFrame(Across(e), carry[e])
    /\ CopyTo(e, "reading")
    /\ carry' = [carry EXCEPT ![e] = NoMsg]
    /\ UNCHANGED <<tunnelVars, handler, dialed, errors>>

CopyFails(e) ==
    /\ \/ copier[e] = "reading" /\ ReadFails(e)
       \/ copier[e] = "writing" /\ Broken(Across(e))
    /\ CopyTo(e, "failed")
    /\ carry' = [carry EXCEPT ![e] = NoMsg]
    /\ UNCHANGED <<streamVars, tunnelVars, handler, dialed, errors>>

\* ch <- p.copy(src, dst).  Mutant: a channel without room.
OnlyToReceiver == handler = "piping" /\ errors = 0
HasRoom        == errors < 2

CopyReports(e) ==
    /\ copier[e] = "failed"
    /\ HasRoom
    /\ errors' = errors + 1
    /\ CopyTo(e, "ended")
    /\ UNCHANGED <<streamVars, tunnelVars, handler, dialed, carry>>

-----------------------------------------------------------------------------
\* Mutant: pipe closes only the end of the client, as handle's own defer does.
OnlyDown  == {"down"}
BothSides == Sides

PipeReturns ==
    /\ Goes("piping", "done")
    /\ errors > 0
    /\ errors' = errors - 1
    /\ Shut(BothSides)
    /\ UNCHANGED <<tunnelVars, copier, carry, dialed>>

PiperListens(e) ==
    \/ e \in Sides /\ copier[e] = "reading"
    \/ e = "down" /\ handler \in {"first", "tap"}

Handle ==
    \/ ReadFirst \/ TapDown \/ GreetClient
    \/ FindUpstream \/ GreetUpstream \/ PassFirst
    \/ SetupReturns \/ PipeReturns

Copy(e) == CopyReads(e) \/ CopyWrites(e) \/ CopyFails(e) \/ CopyReports(e)
=============================================================================
