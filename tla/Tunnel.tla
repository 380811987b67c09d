------------------------------- MODULE Tunnel -------------------------------
(***************************************************************************)
(* transport/tls.go: the TLS handshake between client and piper.  Until    *)
(* Handshake returns, what crypto/tls writes is put in frames and what it  *)
(* reads is taken out of frames; from then on its records go as they are.  *)
(* The two ends do not switch at the same time.  crypto/tls itself is      *)
(* external: it exchanges flights and returns after the last one.          *)
(*                                                                         *)
(* A handshake frame has one writer and is one chunk.                      *)
(***************************************************************************)
EXTENDS Stream

Tunnelled == {"client", "down"}

CONSTANT Flights   \* Flights[k]: the end that sends the k-th flight

ASSUME FlightsAssumption ==
    Flights \in Seq(Tunnelled) /\ Flights # <<>> /\ Flights[1] = "client"

VARIABLES
    secure,   \* Config.TLS is set
    flight    \* flight[e]: flights that end e sent or received

tunnelVars == <<secure, flight>>

Flight(k) == Message("flight", "none", k)

TunnelInit ==
    /\ secure \in BOOLEAN
    /\ flight = [e \in Tunnelled |-> 0]

\* Mutant: complete once this end has nothing left to send.
SentAll(e)           == \A k \in flight[e] + 1 .. Len(Flights) : Flights[k] # e
handshakeComplete(e) == flight[e] = Len(Flights)

\* createTlsConn is behind this end, or it has no TLS.
Tapped(e)  == secure /\ e \in Tunnelled => flight[e] = Len(Flights)
OneMore(e) == flight' = [flight EXCEPT ![e] = @ + 1]
Sends(e)   == ~Tapped(e) /\ Flights[flight[e] + 1] = e
Receives(e) == ~Tapped(e) /\ Flights[flight[e] + 1] # e

Part(e) == IF handshakeComplete(e) THEN "record" ELSE "flight"

\* fabricSecureConn.Write.  The error of the write is dropped (line 88), so a
\* flight that is lost counts as sent.
SendFlight(e) ==
    /\ Sends(e)
    /\ wire' = [wire EXCEPT ![PeerOf(e)] = Append(@, Chunk(Part(e), Flight(flight[e] + 1)))]
    /\ OneMore(e)
    /\ UNCHANGED <<secure, shut, begun, garbled, overlaps>>

\* fabricSecureConn.Read, out of a frame or not.
ReadFlight(e) ==
    /\ e \notin shut \cup garbled
    /\ Receives(e)
    /\ wire[e] # <<>> /\ Head(wire[e]).part = Part(e)
    /\ wire' = [wire EXCEPT ![e] = Tail(@)]
    /\ OneMore(e)
    /\ UNCHANGED <<secure, shut, begun, garbled, overlaps>>

Handshake(e) == SendFlight(e) \/ ReadFlight(e)

\* An end that listens and finds something else than it reads: a torn frame,
\* or a frame where a record is due, or the other way round.
Misframed(e) ==
    IF Tapped(e) THEN Torn(wire[e]) \/ (e \in garbled /\ wire[e] # <<>>)
    ELSE Receives(e) /\ wire[e] # <<>> /\ Head(wire[e]).part # Part(e)

Misread(e) ==
    /\ Misframed(e)
    /\ Skip(e)
    /\ UNCHANGED tunnelVars
=============================================================================
