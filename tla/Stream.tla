------------------------------- MODULE Stream -------------------------------
(***************************************************************************)
(* Messages on two TCP streams, from a client to a piper ("client" and     *)
(* "down" are its ends) and from the piper to a gateway ("up", "gateway"). *)
(* transport/frame.go writes a frame with two writes, its header and then  *)
(* its body, and nothing serialises the goroutines of one end; nextFrame   *)
(* takes the body to be the bytes that follow the header.                  *)
(*                                                                         *)
(* Bytes keep their order.  What an end wrote may be lost once an end of   *)
(* the stream is shut, so reads and writes may fail from then on.          *)
(***************************************************************************)
EXTENDS Naturals, Sequences

VARIABLES
    wire,     \* wire[e]: the chunks on their way to end e
    shut,     \* ends that closed their socket
    begun,    \* begun[e]: messages of which end e wrote the header and not the body
    garbled,  \* ends that have lost the boundary between frames
    overlaps  \* history: ends to which a frame was begun inside another

streamVars == <<wire, shut, begun, garbled, overlaps>>

Ends == {"client", "down", "up", "gateway"}
PeerOf(e) == CASE e = "client" -> "down" [] e = "down" -> "client"
               [] e = "up" -> "gateway"  [] e = "gateway" -> "up"

\* A message names the call, notification or sender it belongs to and, where
\* that has several, its number.
Message(type, of, nr) == [type |-> type, of |-> of, nr |-> nr]
NoMsg == Message("none", "none", 0)

\* The transport init message, with which each side opens a connection.
Greeting(who) == Message("init", who, 0)

Chunk(part, m) == [part |-> part, msg |-> m]

StreamInit ==
    /\ wire = [e \in Ends |-> <<>>]
    /\ shut = {} /\ garbled = {} /\ overlaps = {}
    /\ begun = [e \in Ends |-> {}]

Broken(e) == e \in shut \/ PeerOf(e) \in shut

Write(e, chunks) ==
    /\ e \notin shut
    /\ wire' = [wire EXCEPT ![PeerOf(e)] = @ \o chunks]

\* The two writes of writeFrame, between which another goroutine may write.
WriteHeader(e, m) ==
    /\ Write(e, <<Chunk("header", m)>>)
    /\ overlaps' = IF begun[e] = {} THEN overlaps ELSE overlaps \cup {PeerOf(e)}
    /\ begun' = [begun EXCEPT ![e] = @ \cup {m}]
    /\ UNCHANGED <<shut, garbled>>

WriteBody(e, m) ==
    /\ Write(e, <<Chunk("body", m)>>)
    /\ begun' = [begun EXCEPT ![e] = @ \ {m}]
    /\ UNCHANGED <<shut, garbled, overlaps>>

WriteFails(e, m) ==
    /\ Broken(e)
    /\ begun' = [begun EXCEPT ![e] = @ \ {m}]
    /\ UNCHANGED <<wire, shut, garbled, overlaps>>

\* Both writes, by an end that has a single writer.
WriteFrame(e, m) ==
    /\ Write(e, <<Chunk("header", m), Chunk("body", m)>>)
    /\ UNCHANGED <<shut, begun, garbled, overlaps>>

Shut(es) ==
    /\ shut' = shut \cup es
    /\ UNCHANGED <<wire, begun, garbled, overlaps>>

-----------------------------------------------------------------------------
(* nextFrame: FrameLength tells where the frame ends.                      *)

Whole(s) == Len(s) >= 2 /\ s[1].part = "header" /\ s[2] = Chunk("body", s[1].msg)
Torn(s)  == \/ s # <<>> /\ s[1].part # "header"
            \/ Len(s) >= 2 /\ ~Whole(s)

NextMessage(e) == wire[e][1].msg

NextFrame(e) ==
    /\ e \notin shut \cup garbled
    /\ Whole(wire[e])
    /\ wire' = [wire EXCEPT ![e] = SubSeq(@, 3, Len(@))]
    /\ UNCHANGED <<shut, begun, garbled, overlaps>>

\* Bytes of one frame are read as another's: the message is junk, and so is
\* what follows.  The checksum of the header may also reveal it, or headers
\* that do not parse: then the read fails.  (Lengths read from junk can also
\* make the reader allocate what they say, or slice out of range: not modelled.)
Skip(e) ==
    /\ e \notin shut
    /\ garbled' = garbled \cup {e}
    /\ wire' = [wire EXCEPT ![e] = Tail(@)]
    /\ UNCHANGED <<shut, begun, overlaps>>

ReadFails(e) == Broken(e) \/ e \in garbled
=============================================================================
