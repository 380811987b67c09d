---------------------------- MODULE ProxiedProofs ---------------------------
(***************************************************************************)
(* Theorems about Proxied, for any calls, notifications and flights.       *)
(*                                                                         *)
(* What is on the wires is described end by end: first the flights of the  *)
(* handshake that the reader is behind, then frames, each its header and   *)
(* its body; and the messages the gateway posted are in one place at most. *)
(***************************************************************************)
EXTENDS Proxied, TLAPS, SequenceTheorems

-----------------------------------------------------------------------------
(* The inductive invariant.                                                *)

\* Messages that travel in frames.
Carried == [type : {"none", "init", "req", "ack", "ok", "refused", "note"},
            of   : Calls \cup Notes \cup {"none", "client", "piper"},
            nr   : Nat]
Chunks  == [part : {"header", "body"}, msg : Carried] \cup {Chunk("flight", Flight(k)) : k \in Nat}

WireTypes ==
    /\ wire \in [Ends -> Seq(Chunks)]
    /\ shut \subseteq Ends /\ garbled \subseteq Ends /\ overlaps \subseteq Ends
    /\ begun \in [Ends -> SUBSET Carried]
    /\ secure \in BOOLEAN
    /\ flight \in [Tunnelled -> 0 .. Len(Flights)]
    /\ carry \in [Sides -> Carried] /\ hand \in Carried

CallTypes ==
    /\ TypeOK
    /\ step \in [Calls -> 0 .. 2]
    /\ outcome \in [Calls -> {"none", "ok", "refused", "panic", "failed", "expired"}]
    /\ answer \in [Requests -> Messages \cup {NoMsg}]

\* An end writes frames only when its handshake is behind it, and a header
\* that is written stays in begun until its body is.
Writers ==
    /\ reader \notin {"tapping", "failed"} => Tapped("client")
    /\ handler \in {"find", "tapUp", "forward", "piping"} => Tapped("down")
    /\ \A e \in Sides : copier[e] # "off" => Tapped("down") /\ handler \in {"piping", "done"}
    /\ reader \in {"tapping", "failed"} =>
           begun["client"] = {} /\ \A c \in Calls : stage[c] = "idle"
    /\ \A c \in Calls : stage[c] = "half" => Req(c, step[c]) \in begun["client"]
    /\ reader = "ackHalf" => Ack(hand.of) \in begun["client"]

\* Flights that end e has not read yet.
Lead(e) ==
    IF e \in Tunnelled /\ flight[PeerOf(e)] > flight[e] THEN flight[PeerOf(e)] - flight[e] ELSE 0

FlightsFirst(s, n) == n <= Len(s) /\ \A i \in 1 .. Len(s) : s[i].part = "flight" <=> i <= n

\* Neither end of the handshake overtakes the other, and frames follow it.
InStep ==
    /\ secure \/ \A e \in Tunnelled : flight[e] = 0
    /\ \A e \in Tunnelled : \A k \in flight[PeerOf(e)] + 1 .. flight[e] : Flights[k] = e
    /\ \A e \in Ends : FlightsFirst(wire[e], Lead(e))
    /\ \A e \in Tunnelled : ~Tapped(e) => Len(wire[PeerOf(e)]) = Lead(PeerOf(e))

InFrames(s) ==
    \A i \in 1 .. Len(s) :
        /\ s[i].part = "header" => i = Len(s) \/ s[i + 1] = Chunk("body", s[i].msg)
        /\ s[i].part = "body" => i > 1 /\ s[i - 1].part = "header"
EndsWhole(s) == s # <<>> => s[Len(s)].part # "header"

\* The one header whose body is still to come is the last thing on its wire.
OneBegun ==
    IF begun["client"] = {} THEN "client" \in shut \/ EndsWhole(wire["down"])
    ELSE \E m \in Carried : /\ begun["client"] = {m} /\ wire["down"] # <<>>
                            /\ wire["down"][Len(wire["down"])] = Chunk("header", m)

Framed ==
    /\ \A e \in Ends \ {"down"} : InFrames(wire[e]) /\ EndsWhole(wire[e])
    /\ "down" \notin overlaps \cup shut => InFrames(wire["down"]) /\ OneBegun
    /\ garbled \subseteq overlaps \cap {"down"}

Going == {"ready", "half", "waiting"}

\* Where a call stands, and what its completed requests were answered.
InOrder(c) ==
    /\ stage[c] \in {"idle", "spawned"} => step[c] = 0
    /\ stage[c] = "next" => step[c] \in 1 .. Steps(c) - 1
    /\ stage[c] \in Going => step[c] \in 1 .. Steps(c)
    /\ outcome[c] # "none" => stage[c] = "done"
    /\ \A k \in 1 .. Steps(c) :
        /\ k < step[c] \/ (k = step[c] /\ stage[c] = "next") =>
               OK(c, k) \in posted /\ answer[<<c, k>>] # NoMsg
        /\ answer[<<c, k>>] # NoMsg =>
               k < step[c] \/ (k = step[c] /\ stage[c] \in {"next", "done"})
CallOrder ==
    /\ \A c \in Calls : InOrder(c)
    /\ reader \in {"ack", "ackHalf"} => hand.type = "note"
    /\ reader = "feeding" => hand.type \in {"ok", "refused"}
    /\ reader \notin {"ack", "ackHalf", "feeding"} => hand = NoMsg

MsgsOn(s)   == {s[i].msg : i \in 1 .. Len(s)}
BodiesOn(s) == {s[i].msg : i \in {j \in 1 .. Len(s) : s[j].part = "body"}}

\* A request reaches the gateway only when all of it was written.
Mentioned == BodiesOn(wire["down"]) \cup MsgsOn(wire["gateway"]) \cup {carry["down"]}
Heard ==
    /\ heard \subseteq asked
    /\ \A m \in Mentioned : m.type = "req" => <<m.of, m.nr>> \in asked

Once(s)   == \A i, j \in 1 .. Len(s) : s[i] = s[j] /\ s[i].msg \in Messages => i = j
Apart(A, B) == A \cap B \cap Messages = {}

\* What the gateway posted is in one place at most, and a notification that
\* spawned its callback is nowhere.
InOnePlace ==
    /\ Once(wire["up"]) /\ Once(wire["client"])
    /\ Apart(MsgsOn(wire["up"]), MsgsOn(wire["client"]))
    /\ Apart(MsgsOn(wire["up"]) \cup MsgsOn(wire["client"]), {carry["up"], hand})
    /\ Apart({carry["up"]}, {hand})
    /\ \A m \in OnItsWay : m.type \in {"ok", "refused", "note"} => m \in posted
    /\ \A n \in Notes : stage[CallbackOf[n]] # "idle" => Note(n) \in posted \ OnItsWay

IInv ==
    /\ WireTypes /\ CallTypes /\ Writers /\ InStep /\ Framed
    /\ CallOrder /\ Heard /\ InOnePlace
    /\ OkMeansAccepted /\ OnlyFailedSetupLeaks

-----------------------------------------------------------------------------
(* What the reads and writes do to a sequence of chunks.                   *)

FrameAdded(s, t, m) ==
    \E n \in Nat : /\ Len(s) = n /\ Len(t) = n + 2
                   /\ \A i \in 1 .. n : t[i] = s[i]
                   /\ t[n + 1] = Chunk("header", m) /\ t[n + 2] = Chunk("body", m)
ChunkAdded(s, t, c) ==
    \E n \in Nat : /\ Len(s) = n /\ Len(t) = n + 1
                   /\ \A i \in 1 .. n : t[i] = s[i]
                   /\ t[n + 1] = c
FrameTaken(s, t, m) ==
    \E n \in Nat : /\ Len(s) = n + 2 /\ Len(t) = n
                   /\ \A i \in 1 .. n : t[i] = s[i + 2]
                   /\ s[1] = Chunk("header", m) /\ s[2] = Chunk("body", m)
ChunkTaken(s, t, c) ==
    \E n \in Nat : /\ Len(s) = n + 1 /\ Len(t) = n
                   /\ \A i \in 1 .. n : t[i] = s[i + 1]
                   /\ s[1] = c

LEMMA Ends4 ==
    /\ PeerOf("client") = "down" /\ PeerOf("down") = "client"
    /\ PeerOf("up") = "gateway" /\ PeerOf("gateway") = "up"
    /\ \A e \in Ends : PeerOf(e) \in Ends /\ PeerOf(PeerOf(e)) = e /\ PeerOf(e) # e
    /\ \A e \in Ends : PeerOf(e) \in Tunnelled <=> e \in Tunnelled
  BY DEF PeerOf, Ends, Tunnelled

LEMMA ChunkTypes ==
    /\ \A m \in Carried : Chunk("header", m) \in Chunks /\ Chunk("body", m) \in Chunks
    /\ \A k \in Nat : Chunk("flight", Flight(k)) \in Chunks
    /\ \A c \in Chunks : c.part \in {"header", "body", "flight"}
    /\ \A c \in Chunks : c.part # "flight" => c.msg \in Carried
    /\ \A c \in Chunks : c.part = "flight" => c.msg.type = "flight" /\ c.msg \notin Messages
    /\ \A m \in Messages : m.type \in {"ok", "refused", "note"}
  BY DEF Chunk, Chunks, Carried, Flight, Message, Messages, OK, Refusal, Note

\* A frame is added at the end.
LEMMA FrameOn ==
    ASSUME NEW s \in Seq(Chunks), NEW m \in Carried, NEW t,
           t = s \o <<Chunk("header", m), Chunk("body", m)>>
    PROVE  t \in Seq(Chunks) /\ FrameAdded(s, t, m)
<1>1. Chunk("header", m) \in Chunks /\ Chunk("body", m) \in Chunks
  BY ChunkTypes
<1> HIDE DEF Chunks
<1> DEFINE f == <<Chunk("header", m), Chunk("body", m)>>
<1>2. f \in Seq(Chunks) /\ Len(f) = 2 /\ f[1] = Chunk("header", m) /\ f[2] = Chunk("body", m)
  BY <1>1
<1> HIDE DEF f
<1>3. /\ t \in Seq(Chunks) /\ Len(t) = Len(s) + 2 /\ Len(s) \in Nat
      /\ \A i \in 1 .. Len(s) : t[i] = s[i]
      /\ t[Len(s) + 1] = Chunk("header", m) /\ t[Len(s) + 2] = Chunk("body", m)
  BY <1>2 DEF f
<1> QED BY <1>3, Zenon DEF FrameAdded

\* A chunk is added at the end.
LEMMA ChunkOn ==
    ASSUME NEW s \in Seq(Chunks), NEW c \in Chunks, NEW t, t = s \o <<c>> \/ t = Append(s, c)
    PROVE  t \in Seq(Chunks) /\ ChunkAdded(s, t, c)
<1>1. /\ t \in Seq(Chunks) /\ Len(t) = Len(s) + 1 /\ Len(s) \in Nat
      /\ \A i \in 1 .. Len(s) : t[i] = s[i]
      /\ t[Len(s) + 1] = c
  BY SMTT(30)
<1> QED BY <1>1, Zenon DEF ChunkAdded

\* SubSeq(s, 3, Len(s)), its elements counted from its own start.
LEMMA Renumbered ==
    ASSUME NEW n \in Nat, n >= 2, NEW s, NEW t, NEW k,
           k = IF 3 <= n THEN n - 3 + 1 ELSE 0,
           \A i \in 1 .. n - 3 + 1 : t[i] = s[3 + i - 1]
    PROVE  k = n - 2 /\ \A i \in 1 .. k : t[i] = s[i + 2]
<1>1. k = n - 2
  OBVIOUS
<1>2. ASSUME NEW i \in 1 .. k PROVE t[i] = s[i + 2]
  <2>1. i \in 1 .. n - 3 + 1 /\ 3 + i - 1 = i + 2
    BY <1>1
  <2> QED BY <2>1
<1> QED BY <1>1, <1>2

\* A frame is taken off the front.
LEMMA FrameOff ==
    ASSUME NEW s \in Seq(Chunks), Whole(s), NEW t, t = SubSeq(s, 3, Len(s))
    PROVE  t \in Seq(Chunks) /\ s[1].msg \in Carried /\ FrameTaken(s, t, s[1].msg)
<1>1. Len(s) \in Nat /\ Len(s) >= 2 /\ s[1].part = "header" /\ s[2] = Chunk("body", s[1].msg)
  BY DEF Whole
<1>2. s[1] \in Chunks /\ \A i \in 3 .. Len(s) : s[i] \in Chunks
  BY <1>1
<1>3. s[1].msg \in Carried
  BY <1>1, <1>2, ChunkTypes
<1>4. s[1] = Chunk("header", s[1].msg)
  BY <1>1, <1>2 DEF Chunks, Chunk
<1>5. /\ t \in Seq(Chunks)
      /\ Len(t) = IF 3 <= Len(s) THEN Len(s) - 3 + 1 ELSE 0
      /\ \A i \in 1 .. Len(s) - 3 + 1 : t[i] = s[3 + i - 1]
  <2> HIDE DEF Chunks
  <2> QED BY <1>1, <1>2, SubSeqProperties
<1>6. PICK n \in Nat : n = Len(s)
  BY <1>1
<1>7. n >= 2
  BY <1>1, <1>6
<1>8. PICK k : k = Len(t)
  OBVIOUS
<1>9. k = n - 2 /\ \A i \in 1 .. k : t[i] = s[i + 2]
  BY <1>5, <1>6, <1>7, <1>8, Renumbered
<1>10. k \in Nat /\ n = k + 2
  BY <1>7, <1>9
<1> QED BY <1>1, <1>3, <1>4, <1>5, <1>6, <1>8, <1>9, <1>10, Zenon DEF FrameTaken

\* A chunk is taken off the front.
LEMMA ChunkOff ==
    ASSUME NEW s \in Seq(Chunks), s # <<>>, NEW t, t = Tail(s)
    PROVE  /\ t \in Seq(Chunks) /\ Head(s) = s[1] /\ s[1] \in Chunks
           /\ ChunkTaken(s, t, s[1])
<1>1. /\ t \in Seq(Chunks) /\ Len(t) \in Nat /\ Len(s) = Len(t) + 1
      /\ \A i \in 1 .. Len(t) : t[i] = s[i + 1]
      /\ Head(s) = s[1] /\ s[1] \in Chunks
  OBVIOUS
<1> QED BY <1>1, Zenon DEF ChunkTaken

LEMMA Nonempty ==
    ASSUME NEW s \in Seq(Chunks)
    PROVE  Len(s) \in Nat /\ (s # <<>> <=> Len(s) >= 1) /\ \A i \in 1 .. Len(s) : s[i] \in Chunks
  OBVIOUS

LEMMA FrameOnKeeps ==
    ASSUME NEW s \in Seq(Chunks), NEW t \in Seq(Chunks), NEW m, FrameAdded(s, t, m)
    PROVE  /\ \A n \in Nat : FlightsFirst(s, n) => FlightsFirst(t, n)
           /\ InFrames(s) /\ EndsWhole(s) => InFrames(t) /\ EndsWhole(t)
           /\ MsgsOn(t) = MsgsOn(s) \cup {m}
           /\ Once(s) /\ (m \notin Messages \/ m \notin MsgsOn(s)) => Once(t)
<1>1. PICK n \in Nat :
          /\ Len(s) = n /\ Len(t) = n + 2
          /\ \A i \in 1 .. n : t[i] = s[i]
          /\ t[n + 1] = Chunk("header", m) /\ t[n + 2] = Chunk("body", m)
  BY DEF FrameAdded
<1>2. Len(s) = n /\ Len(t) = n + 2
  BY <1>1
<1>3. /\ \A i \in 1 .. n : t[i] = s[i]
      /\ t[n + 1].part = "header" /\ t[n + 1].msg = m
      /\ t[n + 2].part = "body" /\ t[n + 2].msg = m /\ t[n + 2] = Chunk("body", m)
      /\ \A i \in 1 .. n + 2 : i \in 1 .. n \/ i = n + 1 \/ i = n + 2
  BY <1>1 DEF Chunk
<1>4. ASSUME NEW f \in Nat, FlightsFirst(s, f) PROVE FlightsFirst(t, f)
  BY <1>2, <1>3, <1>4 DEF FlightsFirst
<1>5. ASSUME InFrames(s), EndsWhole(s) PROVE InFrames(t) /\ EndsWhole(t)
  <2>1. n # 0 => s[n].part # "header"
    BY <1>2, <1>5, Nonempty DEF EndsWhole
  <2>2. \A i \in 1 .. n : /\ s[i].part = "header" => i # n /\ i + 1 \in 1 .. n /\ s[i + 1] = Chunk("body", s[i].msg)
                          /\ s[i].part = "body" => i - 1 \in 1 .. n /\ s[i - 1].part = "header"
    BY <1>2, <1>5, <2>1 DEF InFrames
  <2>3. InFrames(t)
    <3> SUFFICES ASSUME NEW i \in 1 .. n + 2
                 PROVE  /\ t[i].part = "header" => i = n + 2 \/ t[i + 1] = Chunk("body", t[i].msg)
                        /\ t[i].part = "body" => i > 1 /\ t[i - 1].part = "header"
      BY <1>2 DEF InFrames
    <3>1. CASE i \in 1 .. n
      <4>1. /\ t[i] = s[i]
            /\ i + 1 \in 1 .. n => t[i + 1] = s[i + 1]
            /\ i - 1 \in 1 .. n => t[i - 1] = s[i - 1] /\ i > 1
        BY <3>1, <1>3
      <4>2. /\ s[i].part = "header" => i + 1 \in 1 .. n /\ s[i + 1] = Chunk("body", s[i].msg)
            /\ s[i].part = "body" => i - 1 \in 1 .. n /\ s[i - 1].part = "header"
        BY <3>1, <2>2
      <4>3. i + 1 \in 1 .. n /\ s[i].part = "header" => t[i + 1] = Chunk("body", t[i].msg)
        BY <4>1, <4>2, Zenon
      <4>4. s[i].part = "body" => i > 1 /\ t[i - 1].part = "header"
        BY <4>1, <4>2, Zenon
      <4> QED BY <4>1, <4>2, <4>3, <4>4, Zenon
    <3>2. CASE i = n + 1
      <4>1. i + 1 = n + 2
        BY <3>2
      <4> QED BY <3>2, <4>1, <1>3
    <3>3. CASE i = n + 2
      <4>1. i - 1 = n + 1 /\ i > 1
        BY <3>3
      <4> QED BY <3>3, <4>1, <1>3
    <3> QED BY <3>1, <3>2, <3>3, <1>3
  <2> QED BY <2>3, <1>2, <1>3 DEF EndsWhole
<1>6. MsgsOn(t) = MsgsOn(s) \cup {m}
  <2>1. ASSUME NEW x \in MsgsOn(t) PROVE x \in MsgsOn(s) \cup {m}
    BY <2>1, <1>2, <1>3 DEF MsgsOn
  <2>2. ASSUME NEW x \in MsgsOn(s) PROVE x \in MsgsOn(t)
    <3>1. PICK i \in 1 .. n : x = s[i].msg
      BY <2>2, <1>2 DEF MsgsOn
    <3>2. i \in 1 .. n + 2
      OBVIOUS
    <3>3. x = t[i].msg
      BY <3>1, <1>3
    <3> QED BY <3>2, <3>3, <1>2 DEF MsgsOn
  <2>3. m \in MsgsOn(t)
    <3>1. n + 1 \in 1 .. n + 2
      OBVIOUS
    <3> QED BY <3>1, <1>2, <1>3 DEF MsgsOn
  <2> QED BY <2>1, <2>2, <2>3
<1>7. ASSUME Once(s), m \notin Messages \/ m \notin MsgsOn(s) PROVE Once(t)
  <2> SUFFICES ASSUME NEW i \in 1 .. n + 2, NEW j \in 1 .. n + 2, t[i] = t[j], t[i].msg \in Messages
               PROVE  i = j
    BY <1>2 DEF Once
  <2>1. CASE i \in 1 .. n /\ j \in 1 .. n
    BY <2>1, <1>2, <1>3, <1>7 DEF Once
  <2>2. \A k \in 1 .. n : t[k].msg \in MsgsOn(s)
    BY <1>2, <1>3 DEF MsgsOn
  <2>3. CASE i \notin 1 .. n /\ j \notin 1 .. n
    <3>1. t[n + 1] # t[n + 2]
      BY <1>3
    <3> QED BY <2>3, <3>1, <1>3
  <2>4. CASE i \in 1 .. n /\ j \notin 1 .. n
    <3>1. t[i].msg \in MsgsOn(s) /\ t[j].msg = m
      BY <2>4, <2>2, <1>3
    <3> QED BY <3>1, <1>7
  <2>5. CASE i \notin 1 .. n /\ j \in 1 .. n
    <3>1. t[j].msg \in MsgsOn(s) /\ t[i].msg = m
      BY <2>5, <2>2, <1>3
    <3> QED BY <3>1, <1>7
  <2> QED BY <2>1, <2>3, <2>4, <2>5
<1> QED BY <1>4, <1>5, <1>6, <1>7

LEMMA ChunkOnKeeps ==
    ASSUME NEW s \in Seq(Chunks), NEW t \in Seq(Chunks), NEW c, ChunkAdded(s, t, c)
    PROVE  /\ \A k \in Nat : c.part # "flight" /\ FlightsFirst(s, k) => FlightsFirst(t, k)
           /\ \A k \in Nat : c.part = "flight" /\ Len(s) = k /\ FlightsFirst(s, k) =>
                                 FlightsFirst(t, k + 1)
           /\ Len(t) = Len(s) + 1
           /\ InFrames(s) /\ EndsWhole(s) /\ c.part # "body" => InFrames(t)
           /\ \A m : /\ c = Chunk("body", m) /\ InFrames(s)
                     /\ s # <<>> /\ s[Len(s)] = Chunk("header", m)
                     => InFrames(t)
           /\ t # <<>> /\ t[Len(t)] = c
           /\ MsgsOn(t) = MsgsOn(s) \cup {c.msg}
           /\ Once(s) /\ c.msg \notin Messages => Once(t)
<1>1. PICK n \in Nat :
          /\ Len(s) = n /\ Len(t) = n + 1
          /\ \A i \in 1 .. n : t[i] = s[i]
          /\ t[n + 1] = c
  BY DEF ChunkAdded
<1>2. Len(s) = n /\ Len(t) = n + 1
  BY <1>1
<1>3. /\ \A i \in 1 .. n : t[i] = s[i]
      /\ \A i \in 1 .. n + 1 : i \in 1 .. n \/ i = n + 1
      /\ n + 1 \in 1 .. n + 1 /\ t[n + 1] = c
  BY <1>1
<1>4. ASSUME NEW k \in Nat, FlightsFirst(s, k) PROVE c.part # "flight" => FlightsFirst(t, k)
  BY <1>2, <1>3, <1>4 DEF FlightsFirst
<1>5. ASSUME FlightsFirst(s, n), c.part = "flight" PROVE FlightsFirst(t, n + 1)
  BY <1>2, <1>3, <1>5 DEF FlightsFirst
<1>6. ASSUME InFrames(s),
             n = 0 \/ (s[n].part = "header" => c = Chunk("body", s[n].msg)),
             c.part = "body" => n # 0 /\ s[n].part = "header"
      PROVE  InFrames(t)
  <2>1. \A i \in 1 .. n : /\ s[i].part = "header" => i = n \/ (i + 1 \in 1 .. n /\ s[i + 1] = Chunk("body", s[i].msg))
                          /\ s[i].part = "body" => i - 1 \in 1 .. n /\ s[i - 1].part = "header"
    BY <1>2, <1>6 DEF InFrames
  <2> SUFFICES ASSUME NEW i \in 1 .. n + 1
               PROVE  /\ t[i].part = "header" => i = n + 1 \/ t[i + 1] = Chunk("body", t[i].msg)
                      /\ t[i].part = "body" => i > 1 /\ t[i - 1].part = "header"
    BY <1>2 DEF InFrames
  <2>2. CASE i \in 1 .. n
    <3>1. /\ t[i] = s[i]
          /\ i + 1 \in 1 .. n => t[i + 1] = s[i + 1]
          /\ i - 1 \in 1 .. n => t[i - 1] = s[i - 1] /\ i > 1
          /\ i = n => t[i + 1] = c /\ n # 0
      BY <2>2, <1>3
    <3>2. /\ s[i].part = "header" => i = n \/ (i + 1 \in 1 .. n /\ s[i + 1] = Chunk("body", s[i].msg))
          /\ s[i].part = "body" => i - 1 \in 1 .. n /\ s[i - 1].part = "header"
      BY <2>2, <2>1
    <3> QED BY <3>1, <3>2, <1>6, Zenon
  <2>3. CASE i = n + 1
    <3>1. n # 0 => n \in 1 .. n /\ i - 1 = n /\ i > 1
      BY <2>3
    <3>2. n # 0 => t[n] = s[n]
      BY <3>1, <1>3
    <3> QED BY <2>3, <3>1, <3>2, <1>3, <1>6
  <2> QED BY <2>2, <2>3, <1>3
<1>7. InFrames(s) /\ EndsWhole(s) /\ c.part # "body" => InFrames(t)
  <2>1. EndsWhole(s) => n = 0 \/ s[n].part # "header"
    BY <1>2, Nonempty DEF EndsWhole
  <2> QED BY <1>6, <2>1
<1>8. ASSUME NEW m, c = Chunk("body", m), InFrames(s), s # <<>>, s[Len(s)] = Chunk("header", m)
      PROVE  InFrames(t)
  <2>1. n # 0 /\ s[n].part = "header" /\ s[n].msg = m
    BY <1>2, <1>8, Nonempty DEF Chunk
  <2> QED BY <1>6, <1>8, <2>1
<1>9. t # <<>> /\ t[Len(t)] = c
  BY <1>2, <1>3, Nonempty
<1>10. MsgsOn(t) = MsgsOn(s) \cup {c.msg}
  <2>1. ASSUME NEW x \in MsgsOn(t) PROVE x \in MsgsOn(s) \cup {c.msg}
    BY <2>1, <1>2, <1>3 DEF MsgsOn
  <2>2. ASSUME NEW x \in MsgsOn(s) PROVE x \in MsgsOn(t)
    <3>1. PICK i \in 1 .. n : x = s[i].msg
      BY <2>2, <1>2 DEF MsgsOn
    <3>2. i \in 1 .. n + 1
      OBVIOUS
    <3>3. x = t[i].msg
      BY <3>1, <1>3
    <3> QED BY <3>2, <3>3, <1>2 DEF MsgsOn
  <2>3. c.msg \in MsgsOn(t)
    BY <1>2, <1>3 DEF MsgsOn
  <2> QED BY <2>1, <2>2, <2>3
<1>11. ASSUME Once(s), c.msg \notin Messages PROVE Once(t)
  <2> SUFFICES ASSUME NEW i \in 1 .. n + 1, NEW j \in 1 .. n + 1, t[i] = t[j], t[i].msg \in Messages
               PROVE  i = j
    BY <1>2 DEF Once
  <2>1. i \in 1 .. n /\ j \in 1 .. n
    BY <1>3, <1>11
  <2> QED BY <2>1, <1>2, <1>3, <1>11 DEF Once
<1> QED BY <1>2, <1>4, <1>5, <1>7, <1>8, <1>9, <1>10, <1>11

\* Taking one or two chunks off the front, d of them.
LEMMA TakenKeeps ==
    ASSUME NEW s \in Seq(Chunks), NEW t \in Seq(Chunks), NEW n \in Nat, NEW d \in {1, 2},
           Len(s) = n + d, Len(t) = n, \A i \in 1 .. n : t[i] = s[i + d]
    PROVE  /\ s[d].part # "header" /\ InFrames(s) => InFrames(t)
           /\ EndsWhole(s) => EndsWhole(t)
           /\ \A m : s[d].part # "header" /\ s[Len(s)] = Chunk("header", m) =>
                         t # <<>> /\ t[Len(t)] = Chunk("header", m)
           /\ MsgsOn(t) \subseteq MsgsOn(s)
           /\ Once(s) => Once(t)
<1>1. /\ \A i \in 1 .. n : t[i] = s[i + d] /\ i + d \in 1 .. n + d /\ i + d > 1
      /\ n # 0 => n \in 1 .. n
      /\ t # <<>> <=> n # 0
      /\ s # <<>> /\ d \in 1 .. n + d
  BY Nonempty
<1>2. n # 0 => t[n] = s[n + d]
  BY <1>1
<1>3. ASSUME s[d].part # "header", InFrames(s) PROVE InFrames(t)
  <2>1. ASSUME NEW j \in 1 .. n + d
        PROVE  /\ s[j].part = "header" => j = n + d \/ s[j + 1] = Chunk("body", s[j].msg)
               /\ s[j].part = "body" => j > 1 /\ s[j - 1].part = "header"
    BY <1>3 DEF InFrames
  <2> SUFFICES ASSUME NEW i \in 1 .. n
               PROVE  /\ t[i].part = "header" => i = n \/ t[i + 1] = Chunk("body", t[i].msg)
                      /\ t[i].part = "body" => i > 1 /\ t[i - 1].part = "header"
    BY DEF InFrames
  <2>2. t[i] = s[i + d] /\ i + d \in 1 .. n + d /\ (i + d = n + d => i = n)
    BY <1>1
  <2>3. i # n => t[i + 1] = s[(i + d) + 1]
    <3>1. i # n => i + 1 \in 1 .. n /\ (i + 1) + d = (i + d) + 1
      OBVIOUS
    <3> QED BY <3>1, <1>1
  <2>4. i > 1 => t[i - 1] = s[(i + d) - 1]
    <3>1. i > 1 => i - 1 \in 1 .. n /\ (i - 1) + d = (i + d) - 1
      OBVIOUS
    <3> QED BY <3>1, <1>1
  <2>5. i = 1 => (i + d) - 1 = d
    OBVIOUS
  <2>6. i = 1 \/ i > 1
    OBVIOUS
  <2>7. /\ s[i + d].part = "header" => i + d = n + d \/ s[(i + d) + 1] = Chunk("body", s[i + d].msg)
        /\ s[i + d].part = "body" => s[(i + d) - 1].part = "header"
    BY <2>1, <2>2
  <2> QED BY <2>2, <2>3, <2>4, <2>5, <2>6, <2>7, <1>3, Zenon
<1>4. EndsWhole(s) => EndsWhole(t)
  BY <1>1, <1>2 DEF EndsWhole
<1>5. ASSUME NEW m, s[d].part # "header", s[Len(s)] = Chunk("header", m)
      PROVE  t # <<>> /\ t[Len(t)] = Chunk("header", m)
  <2>1. s[n + d].part = "header"
    BY <1>5 DEF Chunk
  <2>2. n # 0
    <3>1. n = 0 => n + d = d
      OBVIOUS
    <3> QED BY <2>1, <3>1, <1>5
  <2> QED BY <1>1, <1>2, <1>5, <2>2
<1>6. MsgsOn(t) \subseteq MsgsOn(s)
  BY <1>1 DEF MsgsOn
<1>7. ASSUME Once(s) PROVE Once(t)
  <2> SUFFICES ASSUME NEW i \in 1 .. n, NEW j \in 1 .. n, t[i] = t[j], t[i].msg \in Messages
               PROVE  i = j
    BY DEF Once
  <2>1. s[i + d] = s[j + d] /\ s[i + d].msg \in Messages /\ i + d \in 1 .. n + d /\ j + d \in 1 .. n + d
    BY <1>1
  <2>2. i + d = j + d
    BY <2>1, <1>7 DEF Once
  <2> QED BY <2>2
<1> QED BY <1>3, <1>4, <1>5, <1>6, <1>7

LEMMA FrameOffKeeps ==
    ASSUME NEW s \in Seq(Chunks), NEW t \in Seq(Chunks), NEW m, FrameTaken(s, t, m)
    PROVE  /\ \A k \in Nat : FlightsFirst(s, k) => k = 0 /\ FlightsFirst(t, 0)
           /\ InFrames(s) => InFrames(t)
           /\ EndsWhole(s) => EndsWhole(t)
           /\ \A x : s[Len(s)] = Chunk("header", x) => t # <<>> /\ t[Len(t)] = Chunk("header", x)
           /\ MsgsOn(t) \subseteq MsgsOn(s) /\ m \in MsgsOn(s)
           /\ Once(s) => Once(t) /\ (m \in Messages => m \notin MsgsOn(t))
<1>1. PICK n \in Nat :
          /\ Len(s) = n + 2 /\ Len(t) = n
          /\ \A i \in 1 .. n : t[i] = s[i + 2]
          /\ s[1] = Chunk("header", m) /\ s[2] = Chunk("body", m)
  BY DEF FrameTaken
<1>2. /\ s[2].part = "body" /\ s[2].msg = m /\ s[1].part = "header" /\ s[1].msg = m
      /\ 1 \in 1 .. n + 2 /\ 2 \in 1 .. n + 2
  BY <1>1 DEF Chunk
<1>3. /\ InFrames(s) => InFrames(t)
      /\ EndsWhole(s) => EndsWhole(t)
      /\ \A x : s[Len(s)] = Chunk("header", x) => t # <<>> /\ t[Len(t)] = Chunk("header", x)
      /\ MsgsOn(t) \subseteq MsgsOn(s)
      /\ Once(s) => Once(t)
  BY <1>1, <1>2, TakenKeeps
<1>4. ASSUME NEW k \in Nat, FlightsFirst(s, k) PROVE k = 0 /\ FlightsFirst(t, 0)
  <2>1. k = 0
    BY <1>1, <1>2, <1>4 DEF FlightsFirst
  <2>2. \A i \in 1 .. n : t[i] = s[i + 2] /\ i + 2 \in 1 .. n + 2 /\ ~(i + 2 <= 0) /\ ~(i <= 0)
    BY <1>1
  <2>3. \A j \in 1 .. n + 2 : s[j].part = "flight" <=> j <= 0
    BY <1>1, <1>4, <2>1 DEF FlightsFirst
  <2>4. \A i \in 1 .. n : t[i].part # "flight"
    BY <2>2, <2>3
  <2> QED BY <1>1, <2>1, <2>2, <2>4 DEF FlightsFirst
<1>5. m \in MsgsOn(s)
  BY <1>1, <1>2 DEF MsgsOn
<1>6. ASSUME Once(s), m \in Messages, m \in MsgsOn(t) PROVE FALSE
  <2>1. PICK i \in 1 .. n : t[i].msg = m
    BY <1>1, <1>6 DEF MsgsOn
  <2>2. s[i + 2].msg = m /\ i + 2 \in 1 .. n + 2 /\ i + 2 # 1 /\ i + 2 # 2
    BY <1>1, <2>1
  <2>3. s[i + 2] \in Chunks
    BY <1>1, <2>2, Nonempty
  <2>4. s[i + 2].part \in {"header", "body"}
    BY <1>6, <2>2, <2>3, ChunkTypes
  <2>5. s[i + 2] = Chunk("header", m) \/ s[i + 2] = Chunk("body", m)
    BY <1>6, <2>2, <2>3, <2>4, ChunkTypes DEF Chunks, Chunk
  <2> QED BY <1>1, <1>2, <1>6, <2>2, <2>5 DEF Once
<1> QED BY <1>3, <1>4, <1>5, <1>6

LEMMA ChunkOffKeeps ==
    ASSUME NEW s \in Seq(Chunks), NEW t \in Seq(Chunks), NEW c, ChunkTaken(s, t, c)
    PROVE  /\ \A k \in Nat : c.part = "flight" /\ FlightsFirst(s, k) => k >= 1 /\ FlightsFirst(t, k - 1)
           /\ \A k \in Nat : c.part # "flight" /\ FlightsFirst(s, k) => k = 0 /\ FlightsFirst(t, 0)
           /\ Len(s) = Len(t) + 1
           /\ c.part = "flight" /\ InFrames(s) => InFrames(t)
           /\ EndsWhole(s) => EndsWhole(t)
           /\ \A x : c.part = "flight" /\ s[Len(s)] = Chunk("header", x) =>
                         t # <<>> /\ t[Len(t)] = Chunk("header", x)
           /\ MsgsOn(t) \subseteq MsgsOn(s)
           /\ Once(s) => Once(t)
<1>1. PICK n \in Nat :
          /\ Len(s) = n + 1 /\ Len(t) = n
          /\ \A i \in 1 .. n : t[i] = s[i + 1]
          /\ s[1] = c
  BY DEF ChunkTaken
<1>2. /\ c.part = "flight" /\ InFrames(s) => InFrames(t)
      /\ EndsWhole(s) => EndsWhole(t)
      /\ \A x : c.part = "flight" /\ s[Len(s)] = Chunk("header", x) =>
                    t # <<>> /\ t[Len(t)] = Chunk("header", x)
      /\ MsgsOn(t) \subseteq MsgsOn(s)
      /\ Once(s) => Once(t)
  BY <1>1, TakenKeeps
<1>3. /\ \A i \in 1 .. n : t[i] = s[i + 1] /\ i + 1 \in 1 .. n + 1
      /\ 1 \in 1 .. n + 1
  BY <1>1
<1>4. ASSUME NEW k \in Nat, FlightsFirst(s, k), c.part = "flight" PROVE k >= 1 /\ FlightsFirst(t, k - 1)
  <2>1. k <= n + 1 /\ \A j \in 1 .. n + 1 : s[j].part = "flight" <=> j <= k
    BY <1>1, <1>4 DEF FlightsFirst
  <2>2. k >= 1
    BY <1>1, <1>3, <1>4, <2>1
  <2>3. \A i \in 1 .. n : t[i].part = "flight" <=> i <= k - 1
    <3> SUFFICES ASSUME NEW i \in 1 .. n PROVE t[i].part = "flight" <=> i <= k - 1
      OBVIOUS
    <3>1. s[i + 1].part = "flight" <=> i + 1 <= k
      BY <1>3, <2>1
    <3>2. i + 1 <= k <=> i <= k - 1
      OBVIOUS
    <3> QED BY <1>3, <3>1, <3>2
  <2>4. k - 1 <= n
    BY <2>1
  <2> QED BY <1>1, <2>2, <2>3, <2>4 DEF FlightsFirst
<1>5. ASSUME NEW k \in Nat, FlightsFirst(s, k), c.part # "flight" PROVE k = 0 /\ FlightsFirst(t, 0)
  <2>1. k <= n + 1 /\ \A j \in 1 .. n + 1 : s[j].part = "flight" <=> j <= k
    BY <1>1, <1>5 DEF FlightsFirst
  <2>2. k = 0
    BY <1>1, <1>3, <1>5, <2>1
  <2>3. \A i \in 1 .. n : t[i].part # "flight" /\ ~(i <= 0)
    <3> SUFFICES ASSUME NEW i \in 1 .. n PROVE t[i].part # "flight" /\ ~(i <= 0)
      OBVIOUS
    <3>1. t[i] = s[i + 1] /\ i + 1 \in 1 .. n + 1
      BY <1>3
    <3>2. ~(i + 1 <= 0) /\ ~(i <= 0)
      OBVIOUS
    <3>3. ~(s[i + 1].part = "flight")
      BY <2>1, <2>2, <3>1, <3>2
    <3> QED BY <3>1, <3>2, <3>3
  <2> QED BY <1>1, <2>2, <2>3 DEF FlightsFirst
<1> QED BY <1>1, <1>2, <1>4, <1>5

-----------------------------------------------------------------------------
(* What a step does to the streams.                                        *)

StreamStep ==
    \/ /\ UNCHANGED <<wire, begun, garbled, overlaps, tunnelVars>>
       /\ shut \subseteq shut' /\ shut' \subseteq Ends
    \/ /\ UNCHANGED tunnelVars
       /\ \/ \E m \in Carried : WriteFails("client", m)
          \/ \E m \in Carried : WriteHeader("client", m) /\ Tapped("client")
          \/ \E m \in begun["client"] : WriteBody("client", m) /\ Tapped("client")
          \/ \E e \in Ends, m \in Carried :
                WriteFrame(e, m) /\ Tapped(e) /\ (e = "client" => begun["client"] = {})
          \/ \E e \in Ends : NextFrame(e)
          \/ \E e \in Sides \cup {"client"} : Skip(e) /\ Misframed(e)
    \/ \E e \in Tunnelled : Handshake(e)

LEMMA CarriedMsgs ==
    /\ \A q \in Requests : Req(q[1], q[2]) \in Carried
    /\ \A c \in Calls : \A k \in Nat : Req(c, k) \in Carried
    /\ \A n \in Notes : Ack(n) \in Carried
    /\ \A who \in {"client", "piper"} : Greeting(who) \in Carried
    /\ NoMsg \in Carried /\ NoMsg \notin Messages
    /\ Messages \subseteq Carried
    /\ \A x : Greeting(x) \notin Messages
    /\ \A m \in Carried : Ack(m.of) \in Carried
<1>1. \A q \in Requests : q[1] \in Calls /\ q[2] \in Nat
  BY DEF Requests, Steps
<1>2. \A q \in Requests : OK(q[1], q[2]) \in Carried /\ Refusal(q[1], q[2]) \in Carried
  BY <1>1 DEF Carried, Message, OK, Refusal
<1>3. \A n \in Notes : Note(n) \in Carried
  BY DEF Carried, Message, Note
<1>4. Messages \subseteq Carried
  BY <1>2, <1>3 DEF Messages
<1>5. \A m \in Messages : m.type \in {"ok", "refused", "note"}
  BY ChunkTypes
<1> QED BY <1>1, <1>4, <1>5 DEF Carried, Message, Req, Ack, Greeting, NoMsg

LEMMA StreamSteps == WireTypes /\ CallTypes /\ Writers /\ [Next]_vars => StreamStep
<1> SUFFICES ASSUME WireTypes, CallTypes, Writers, [Next]_vars PROVE StreamStep
  OBVIOUS
<1> USE DEF StreamStep
<1>1. ASSUME Client(Connect) PROVE StreamStep
  <2>1. CASE TapClient
    BY <2>1 DEF TapClient, Tunnelled
  <2>2. CASE Greet
    BY <2>2, CarriedMsgs DEF Greet, Writers, Ends
  <2>3. CASE ConnectFails
    BY <2>3 DEF ConnectFails, streamVars, WireTypes
  <2> QED BY <1>1, <2>1, <2>2, <2>3 DEF Client, Connect
<1>2. ASSUME Client(Wait) PROVE StreamStep
  <2>1. CASE ReadsReply \/ ReadsNote \/ ReadsOther
    BY <2>1 DEF ReadsReply, ReadsNote, ReadsOther, ReadsMessage, Ends
  <2>2. CASE LeavesLoop
    BY <2>2 DEF LeavesLoop, Shut, WireTypes, Ends, tunnelVars
  <2>3. CASE SendsAckHeader
    <3>1. Ack(hand.of) \in Carried
      BY CarriedMsgs DEF WireTypes
    <3> QED BY <2>3, <3>1 DEF SendsAckHeader, Writers
  <2>4. CASE EndsAck
    <3>1. Ack(hand.of) \in Carried
      BY CarriedMsgs DEF WireTypes
    <3> QED BY <2>4, <3>1 DEF EndsAck, Writers
  <2>5. ASSUME NEW c \in Calls, Feeds(c) PROVE StreamStep
    BY <2>5 DEF Feeds, Shut, WireTypes, Ends, tunnelVars
  <2> QED BY <1>2, <2>1, <2>2, <2>3, <2>4, <2>5 DEF Client, Wait
<1>3. CASE Client(Closes)
  BY <1>3 DEF Client, Closes, Shut, WireTypes, Ends
<1>4. ASSUME NEW c \in Calls, Client(UserCalls(c)) \/ Client(Call(c)) \/ Client(Expires(c))
      PROVE  StreamStep
  <2>1. CASE UserCalls(c) \/ GoesOn(c) \/ Cancelled(c) \/ Expires(c)
    BY <2>1 DEF UserCalls, GoesOn, Begin, Cancelled, Expires, streamVars, WireTypes
  <2>2. Req(c, step[c]) \in Carried
    BY CarriedMsgs DEF CallTypes
  <2>3. CASE SendsHeader(c)
    BY <2>2, <2>3 DEF SendsHeader, Writers
  <2>4. CASE SendsBody(c)
    BY <2>4 DEF SendsBody, Writers
  <2>5. CASE SendFails(c)
    BY <2>2, <2>5 DEF SendFails
  <2> QED BY <1>4, <2>1, <2>3, <2>4, <2>5 DEF Client, Call
<1>5. ASSUME Pipe(Handle) PROVE StreamStep
  <2>1. CASE ReadFirst \/ TapDown
    BY <2>1 DEF ReadFirst, TapDown, Handshake, Tunnelled, Ends
  <2>2. CASE GreetClient
    BY <2>2, CarriedMsgs DEF GreetClient, Ends
  <2>3. CASE FindUpstream
    BY <2>3 DEF FindUpstream, streamVars, WireTypes
  <2>4. CASE GreetUpstream
    BY <2>4, CarriedMsgs DEF GreetUpstream, Ends, Tapped, Tunnelled
  <2>5. CASE PassFirst
    <3>1. CASE secure
      BY <2>5, <3>1 DEF PassFirst, streamVars, WireTypes
    <3>2. CASE ~secure
      BY <2>5, <3>2, CarriedMsgs DEF PassFirst, Ends, Tapped
    <3> QED BY <3>1, <3>2
  <2>6. CASE SetupReturns \/ PipeReturns
    BY <2>6 DEF SetupReturns, PipeReturns, Shut, WireTypes, Ends, BothSides, Sides, tunnelVars
  <2> QED BY <1>5, <2>1, <2>2, <2>3, <2>4, <2>5, <2>6 DEF Pipe, Handle
<1>6. ASSUME NEW e \in Sides, Pipe(Copy(e)) PROVE StreamStep
  <2>1. CASE CopyReads(e)
    BY <2>1 DEF CopyReads, Sides, Ends
  <2>2. CASE CopyWrites(e)
    <3>1. carry[e] \in Carried /\ Across(e) \in Ends /\ Across(e) # "client"
      BY DEF WireTypes, Across, Ends
    <3>2. Tapped(Across(e))
      BY <2>2 DEF CopyWrites, Writers, Tapped, Tunnelled, Across
    <3> QED BY <2>2, <3>1, <3>2 DEF CopyWrites
  <2>3. CASE CopyFails(e) \/ CopyReports(e)
    BY <2>3 DEF CopyFails, CopyReports, streamVars, WireTypes
  <2> QED BY <1>6, <2>1, <2>2, <2>3 DEF Pipe, Copy
<1>7. CASE Gateway \/ \E n \in Notes : GatewayNotifies(n)
  <2>1. CASE GatewayReads
    BY <2>1 DEF GatewayReads, Ends
  <2>2. ASSUME NEW m \in Messages, GatewaySends(m) PROVE StreamStep
    BY <2>2, CarriedMsgs DEF GatewaySends, Ends, Tapped, Tunnelled
  <2>3. \A q \in Requests : OK(q[1], q[2]) \in Messages /\ Refusal(q[1], q[2]) \in Messages
    BY DEF Messages
  <2>4. \A n \in Notes : Note(n) \in Messages
    BY DEF Messages
  <2> QED BY <1>7, <2>1, <2>2, <2>3, <2>4 DEF Gateway, GatewayAnswers, GatewayNotifies
<1>8. CASE GatewayLeaves
  BY <1>8 DEF GatewayLeaves, Shut, WireTypes, Ends
<1>9. CASE Misreads
  BY <1>9 DEF Misreads, Misread
<1>10. CASE UNCHANGED vars
  BY <1>10 DEF vars, streamVars, WireTypes
<1> QED BY <1>1, <1>2, <1>3, <1>4, <1>5, <1>6, <1>7, <1>8, <1>9, <1>10 DEF Next

\* Each write and read, as what it does to the one wire it touches.
LEMMA WriteFrameIs ==
    ASSUME WireTypes, NEW e \in Ends, NEW m \in Carried, WriteFrame(e, m)
    PROVE  /\ wire' \in [Ends -> Seq(Chunks)]
           /\ FrameAdded(wire[PeerOf(e)], wire'[PeerOf(e)], m)
           /\ \A f \in Ends \ {PeerOf(e)} : wire'[f] = wire[f]
<1>1. PeerOf(e) \in Ends /\ wire[PeerOf(e)] \in Seq(Chunks)
  BY Ends4 DEF WireTypes
<1>2. wire' = [wire EXCEPT ![PeerOf(e)] = @ \o <<Chunk("header", m), Chunk("body", m)>>]
  BY DEF WriteFrame, Write
<1>3. PICK t : t = wire[PeerOf(e)] \o <<Chunk("header", m), Chunk("body", m)>>
  OBVIOUS
<1>4. t \in Seq(Chunks) /\ FrameAdded(wire[PeerOf(e)], t, m)
  BY <1>1, <1>3, FrameOn
<1>5. wire' = [wire EXCEPT ![PeerOf(e)] = t]
  BY <1>2, <1>3
<1> QED BY <1>1, <1>4, <1>5 DEF WireTypes

LEMMA WriteChunkIs ==
    ASSUME WireTypes, NEW e \in Ends, NEW c \in Chunks,
           \/ Write(e, <<c>>)
           \/ wire' = [wire EXCEPT ![PeerOf(e)] = Append(@, c)]
    PROVE  /\ wire' \in [Ends -> Seq(Chunks)]
           /\ ChunkAdded(wire[PeerOf(e)], wire'[PeerOf(e)], c)
           /\ \A f \in Ends \ {PeerOf(e)} : wire'[f] = wire[f]
<1>1. PeerOf(e) \in Ends /\ wire[PeerOf(e)] \in Seq(Chunks)
  BY Ends4 DEF WireTypes
<1>2. PICK t : /\ t = wire[PeerOf(e)] \o <<c>> \/ t = Append(wire[PeerOf(e)], c)
               /\ wire' = [wire EXCEPT ![PeerOf(e)] = t]
  BY DEF Write
<1>3. t \in Seq(Chunks) /\ ChunkAdded(wire[PeerOf(e)], t, c)
  BY <1>1, <1>2, ChunkOn
<1> QED BY <1>1, <1>2, <1>3 DEF WireTypes

LEMMA NextFrameIs ==
    ASSUME WireTypes, NEW e \in Ends, NextFrame(e)
    PROVE  /\ wire' \in [Ends -> Seq(Chunks)]
           /\ NextMessage(e) \in Carried
           /\ FrameTaken(wire[e], wire'[e], NextMessage(e))
           /\ \A f \in Ends \ {e} : wire'[f] = wire[f]
<1>1. wire[e] \in Seq(Chunks) /\ Whole(wire[e])
  BY DEF WireTypes, NextFrame
<1>2. PICK t : t = SubSeq(wire[e], 3, Len(wire[e]))
  OBVIOUS
<1>3. wire' = [wire EXCEPT ![e] = t]
  BY <1>2 DEF NextFrame
<1>4. /\ t \in Seq(Chunks) /\ wire[e][1].msg \in Carried
      /\ FrameTaken(wire[e], t, wire[e][1].msg)
  BY <1>1, <1>2, FrameOff
<1> QED BY <1>3, <1>4 DEF WireTypes, NextMessage

LEMMA TailIs ==
    ASSUME WireTypes, NEW e \in Ends, wire[e] # <<>>, wire' = [wire EXCEPT ![e] = Tail(@)]
    PROVE  /\ wire' \in [Ends -> Seq(Chunks)]
           /\ Head(wire[e]) = wire[e][1]
           /\ ChunkTaken(wire[e], wire'[e], wire[e][1])
           /\ \A f \in Ends \ {e} : wire'[f] = wire[f]
<1>1. wire[e] \in Seq(Chunks)
  BY DEF WireTypes
<1>2. PICK t : t = Tail(wire[e]) /\ wire' = [wire EXCEPT ![e] = t]
  OBVIOUS
<1>3. t \in Seq(Chunks) /\ Head(wire[e]) = wire[e][1] /\ ChunkTaken(wire[e], t, wire[e][1])
  BY <1>1, <1>2, ChunkOff
<1> QED BY <1>2, <1>3 DEF WireTypes

LEMMA MisframedIsSome ==
    ASSUME WireTypes, NEW e \in Ends, Misframed(e)
    PROVE  wire[e] # <<>>
<1>1. wire[e] \in Seq(Chunks)
  BY DEF WireTypes
<1>2. wire[e] = <<>> => ~Torn(wire[e])
  BY <1>1 DEF Torn
<1> QED BY <1>2 DEF Misframed

\* An end of the handshake sends and reads flights, numbered in order.
LEMMA SendFlightIs ==
    ASSUME WireTypes, NEW e \in Tunnelled, SendFlight(e)
    PROVE  /\ flight[e] < Len(Flights) /\ Flights[flight[e] + 1] = e
           /\ flight' = [flight EXCEPT ![e] = @ + 1] /\ flight[e] + 1 \in 0 .. Len(Flights)
           /\ secure
           /\ Chunk("flight", Flight(flight[e] + 1)) \in Chunks
           /\ wire' = [wire EXCEPT ![PeerOf(e)] = Append(@, Chunk("flight", Flight(flight[e] + 1)))]
<1>1. flight[e] \in 0 .. Len(Flights) /\ Len(Flights) \in Nat
  BY FlightsAssumption DEF WireTypes
<1>2. secure /\ flight[e] # Len(Flights) /\ Flights[flight[e] + 1] = e
  BY DEF SendFlight, Sends, Tapped
<1>3. flight[e] + 1 \in Nat /\ flight[e] + 1 \in 0 .. Len(Flights) /\ flight[e] < Len(Flights)
  BY <1>1, <1>2
<1>4. Part(e) = "flight"
  BY <1>2 DEF Part, handshakeComplete
<1> QED BY <1>2, <1>3, <1>4, ChunkTypes DEF SendFlight, OneMore

LEMMA ReadFlightIs ==
    ASSUME WireTypes, NEW e \in Tunnelled, ReadFlight(e)
    PROVE  /\ flight[e] < Len(Flights) /\ Flights[flight[e] + 1] # e
           /\ flight' = [flight EXCEPT ![e] = @ + 1] /\ flight[e] + 1 \in 0 .. Len(Flights)
           /\ secure
           /\ wire[e] # <<>> /\ Head(wire[e]).part = "flight"
           /\ wire' = [wire EXCEPT ![e] = Tail(@)]
<1>1. flight[e] \in 0 .. Len(Flights) /\ Len(Flights) \in Nat
  BY FlightsAssumption DEF WireTypes
<1>2. secure /\ flight[e] # Len(Flights) /\ Flights[flight[e] + 1] # e
  BY DEF ReadFlight, Receives, Tapped
<1>3. flight[e] + 1 \in 0 .. Len(Flights) /\ flight[e] < Len(Flights)
  BY <1>1, <1>2
<1>4. Part(e) = "flight"
  BY <1>2 DEF Part, handshakeComplete
<1> QED BY <1>2, <1>3, <1>4 DEF ReadFlight, OneMore

\* The streams keep their types.
LEMMA StreamTypes ==
    ASSUME WireTypes, StreamStep
    PROVE  /\ wire' \in [Ends -> Seq(Chunks)]
           /\ shut' \subseteq Ends /\ garbled' \subseteq Ends /\ overlaps' \subseteq Ends
           /\ begun' \in [Ends -> SUBSET Carried]
           /\ secure' = secure
           /\ flight' \in [Tunnelled -> 0 .. Len(Flights)]
<1> USE DEF WireTypes
<1>1. CASE /\ UNCHANGED <<wire, begun, garbled, overlaps, tunnelVars>>
           /\ shut \subseteq shut' /\ shut' \subseteq Ends
  BY <1>1 DEF tunnelVars
<1>2. ASSUME NEW m \in Carried, WriteFails("client", m) PROVE begun' \in [Ends -> SUBSET Carried]
  BY <1>2 DEF WriteFails
<1>3. ASSUME NEW m \in Carried, WriteHeader("client", m) \/ WriteBody("client", m)
      PROVE  /\ wire' \in [Ends -> Seq(Chunks)] /\ begun' \in [Ends -> SUBSET Carried]
             /\ overlaps' \subseteq Ends
  <2>1. PICK c \in Chunks : Write("client", <<c>>)
    BY <1>3, ChunkTypes DEF WriteHeader, WriteBody
  <2>2. wire' \in [Ends -> Seq(Chunks)]
    BY <2>1, WriteChunkIs DEF Ends
  <2>3. overlaps' \subseteq Ends
    <3>1. PeerOf("client") \in Ends
      BY Ends4 DEF Ends
    <3> QED BY <1>3, <3>1 DEF WriteHeader, WriteBody
  <2>4. begun' \in [Ends -> SUBSET Carried]
    BY <1>3 DEF WriteHeader, WriteBody
  <2> QED BY <2>2, <2>3, <2>4
<1>4. ASSUME UNCHANGED tunnelVars,
             \/ \E m \in Carried : WriteFails("client", m)
             \/ \E m \in Carried : WriteHeader("client", m)
             \/ \E m \in begun["client"] : WriteBody("client", m)
      PROVE  /\ wire' \in [Ends -> Seq(Chunks)]
             /\ shut' \subseteq Ends /\ garbled' \subseteq Ends /\ overlaps' \subseteq Ends
             /\ begun' \in [Ends -> SUBSET Carried]
             /\ secure' = secure
             /\ flight' \in [Tunnelled -> 0 .. Len(Flights)]
  <2>1. \A m \in begun["client"] : m \in Carried
    BY DEF Ends
  <2> QED BY <1>2, <1>3, <1>4, <2>1 DEF WriteFails, WriteHeader, WriteBody, tunnelVars
<1>5. ASSUME NEW e \in Ends, NEW m \in Carried, WriteFrame(e, m) PROVE wire' \in [Ends -> Seq(Chunks)]
  BY <1>5, WriteFrameIs
<1>6. ASSUME NEW e \in Ends, NextFrame(e) PROVE wire' \in [Ends -> Seq(Chunks)]
  BY <1>6, NextFrameIs
<1>7. ASSUME NEW e \in Sides \cup {"client"}, Skip(e), Misframed(e)
      PROVE  wire' \in [Ends -> Seq(Chunks)] /\ e \in Ends
  <2>1. e \in Ends
    BY DEF Sides, Ends
  <2>2. wire[e] # <<>>
    BY <1>7, <2>1, MisframedIsSome
  <2> QED BY <1>7, <2>1, <2>2, TailIs DEF Skip
<1>8. ASSUME NEW e \in Tunnelled, Handshake(e)
      PROVE  wire' \in [Ends -> Seq(Chunks)] /\ flight' \in [Tunnelled -> 0 .. Len(Flights)]
  <2>1. e \in Ends
    BY DEF Tunnelled, Ends
  <2>2. CASE SendFlight(e)
    <3>1. /\ flight' = [flight EXCEPT ![e] = @ + 1] /\ flight[e] + 1 \in 0 .. Len(Flights)
          /\ Chunk("flight", Flight(flight[e] + 1)) \in Chunks
          /\ wire' = [wire EXCEPT ![PeerOf(e)] = Append(@, Chunk("flight", Flight(flight[e] + 1)))]
      BY <2>2, SendFlightIs
    <3>2. wire' \in [Ends -> Seq(Chunks)]
      BY <2>1, <3>1, WriteChunkIs
    <3> QED BY <3>1, <3>2
  <2>3. CASE ReadFlight(e)
    <3>1. /\ flight' = [flight EXCEPT ![e] = @ + 1] /\ flight[e] + 1 \in 0 .. Len(Flights)
          /\ wire[e] # <<>> /\ wire' = [wire EXCEPT ![e] = Tail(@)]
      BY <2>3, ReadFlightIs
    <3>2. wire' \in [Ends -> Seq(Chunks)]
      BY <2>1, <3>1, TailIs
    <3> QED BY <3>1, <3>2
  <2> QED BY <1>8, <2>2, <2>3 DEF Handshake
<1> QED
  BY <1>1, <1>4, <1>5, <1>6, <1>7, <1>8
  DEF StreamStep, WriteFrame, NextFrame, Skip, Handshake, SendFlight, ReadFlight, tunnelVars

-----------------------------------------------------------------------------
(* The handshake.                                                          *)

LEMMA LeadIs ==
    ASSUME WireTypes
    PROVE  /\ \A e \in Ends : Lead(e) \in Nat
           /\ \A e \in Ends \ Tunnelled : Lead(e) = 0
           /\ \A e \in Tunnelled : flight[e] \in Nat /\ flight[e] <= Len(Flights)
           /\ Len(Flights) \in Nat
<1>1. \A e \in Tunnelled : flight[e] \in Nat /\ flight[e] <= Len(Flights)
  BY FlightsAssumption DEF WireTypes
<1> QED BY <1>1, Ends4, FlightsAssumption DEF Lead, Ends, Tunnelled

\* A misframed end does not look at a flight.
LEMMA NoFlightSkipped ==
    ASSUME WireTypes, InStep, NEW e \in Ends, Misframed(e)
    PROVE  Lead(e) = 0 /\ wire[e] # <<>> /\ wire[e][1].part # "flight"
<1>1. wire[e] # <<>> /\ wire[e] \in Seq(Chunks)
  BY MisframedIsSome DEF WireTypes
<1>2. FlightsFirst(wire[e], Lead(e)) /\ Lead(e) \in Nat
  BY LeadIs DEF InStep
<1>3. Len(wire[e]) \in Nat /\ Len(wire[e]) >= 1 /\ Head(wire[e]) = wire[e][1]
  BY <1>1
<1>4. Lead(e) = 0 <=> wire[e][1].part # "flight"
  BY <1>2, <1>3 DEF FlightsFirst
<1>5. CASE Tapped(e)
  <2>1. CASE e \notin Tunnelled
    BY <2>1, <1>1, <1>4, LeadIs
  <2>2. CASE e \in Tunnelled
    <3>1. flight[PeerOf(e)] <= flight[e]
      BY <1>5, <2>2, LeadIs, Ends4 DEF Tapped, InStep, Tunnelled
    <3>2. ~(flight[PeerOf(e)] > flight[e])
      BY <2>2, <3>1, LeadIs, Ends4
    <3> QED BY <3>2, <1>1, <1>4 DEF Lead
  <2> QED BY <2>1, <2>2
<1>6. CASE ~Tapped(e)
  <2>1. Part(e) = "flight"
    BY <1>6 DEF Part, handshakeComplete, Tapped
  <2>2. wire[e][1].part # "flight"
    BY <1>3, <1>6, <2>1 DEF Misframed
  <2> QED BY <1>1, <1>4, <2>2
<1> QED BY <1>5, <1>6

\* As long as the handshake stands still.
LEMMA InStepStill ==
    ASSUME WireTypes, InStep, UNCHANGED tunnelVars, WireTypes',
           \A e \in Ends : /\ FlightsFirst(wire'[e], Lead(e))
                           /\ wire'[e] = wire[e] \/ (e \in Tunnelled => Tapped(PeerOf(e)))
    PROVE  InStep'
<1>1. \A e \in Ends : Lead(e)' = Lead(e)
  BY DEF Lead, tunnelVars
<1>2. \A e \in Ends : Tapped(e)' = Tapped(e)
  BY DEF Tapped, tunnelVars
<1>3. \A e \in Ends : FlightsFirst(wire[e], Lead(e))'
  BY <1>1 DEF FlightsFirst
<1>4. \A e \in Tunnelled : ~Tapped(e) => wire'[PeerOf(e)] = wire[PeerOf(e)]
  BY Ends4 DEF Tunnelled, Ends
<1>5. \A e \in Tunnelled : (~Tapped(e))' => Len(wire'[PeerOf(e)]) = Lead(PeerOf(e))'
  BY <1>1, <1>2, <1>4, Ends4 DEF InStep, Tunnelled, Ends
<1> QED BY <1>3, <1>5 DEF InStep, tunnelVars

LEMMA InStepSend ==
    ASSUME WireTypes, InStep, WireTypes', NEW e \in Tunnelled, SendFlight(e)
    PROVE  InStep'
<1> DEFINE d == PeerOf(e)  a == flight[e]  b == flight[d]
           c == Chunk("flight", Flight(a + 1))
<1>1. d \in Tunnelled /\ d # e /\ PeerOf(d) = e /\ Tunnelled = {d, e} /\ Tunnelled \subseteq Ends
  BY Ends4 DEF Tunnelled, Ends
<1>2. a \in Nat /\ b \in Nat
  BY <1>1, LeadIs
<1>3. /\ a < Len(Flights) /\ Flights[a + 1] = e /\ secure /\ c \in Chunks
      /\ flight' = [flight EXCEPT ![e] = a + 1]
      /\ wire' = [wire EXCEPT ![d] = Append(@, c)]
  BY SendFlightIs
<1>4. flight'[e] = a + 1 /\ flight'[d] = b
  BY <1>1, <1>3 DEF WireTypes
<1>5. /\ \A k \in b + 1 .. a : Flights[k] = e
      /\ \A k \in a + 1 .. b : Flights[k] = d
  BY <1>1 DEF InStep
<1>6. b <= a
  <2> SUFFICES ASSUME b > a PROVE FALSE
    BY <1>2
  <2>1. a + 1 \in a + 1 .. b
    BY <1>2
  <2> QED BY <2>1, <1>1, <1>3, <1>5
<1>7. Lead(d) = a - b /\ Lead(e) = 0 /\ Lead(d)' = a + 1 - b /\ Lead(e)' = 0
  <2>1. Lead(d) = IF a > b THEN a - b ELSE 0
    BY <1>1 DEF Lead
  <2>2. Lead(e) = IF b > a THEN b - a ELSE 0
    BY <1>1 DEF Lead
  <2>3. Lead(d)' = IF a + 1 > b THEN a + 1 - b ELSE 0
    <3>1. Lead(d)' = IF flight'[e] > flight'[d] THEN flight'[e] - flight'[d] ELSE 0
      BY <1>1, Zenon DEF Lead
    <3> HIDE DEF a, b, d
    <3> QED BY <3>1, <1>2, <1>4
  <2>4. Lead(e)' = IF b > a + 1 THEN b - (a + 1) ELSE 0
    BY <1>1, <1>4 DEF Lead
  <2> HIDE DEF a, b
  <2> QED BY <2>1, <2>2, <2>3, <2>4, <1>2, <1>6
<1>8. /\ wire[d] \in Seq(Chunks) /\ wire'[d] \in Seq(Chunks)
      /\ ChunkAdded(wire[d], wire'[d], c)
      /\ \A f \in Ends \ {d} : wire'[f] = wire[f]
  <2>1. e \in Ends /\ d \in Ends
    BY <1>1
  <2> QED BY <1>3, <2>1, WriteChunkIs DEF WireTypes
<1>9. ~Tapped(e) /\ Len(wire[d]) = a - b
  <2>1. ~Tapped(e)
    BY <1>2, <1>3 DEF Tapped
  <2> QED BY <2>1, <1>7 DEF InStep
<1>10. FlightsFirst(wire'[d], a + 1 - b) /\ Len(wire'[d]) = a + 1 - b
  <2>1. a - b \in Nat /\ a + 1 - b = (a - b) + 1
    BY <1>2, <1>6
  <2>2. FlightsFirst(wire[d], a - b)
    BY <1>1, <1>7 DEF InStep
  <2>3. c.part = "flight"
    BY DEF Chunk
  <2>4. FlightsFirst(wire'[d], (a - b) + 1) /\ Len(wire'[d]) = Len(wire[d]) + 1
    BY <1>8, <1>9, <2>1, <2>2, <2>3, ChunkOnKeeps
  <2> QED BY <2>1, <2>4, <1>9
<1>11. \A f \in Ends : FlightsFirst(wire[f], Lead(f))'
  <2>1. ASSUME NEW f \in Ends, f # d PROVE FlightsFirst(wire[f], Lead(f))'
    <3>1. Lead(f)' = Lead(f)
      BY <1>1, <1>7, <2>1 DEF Lead
    <3>2. wire'[f] = wire[f] /\ FlightsFirst(wire[f], Lead(f))
      BY <1>8, <2>1 DEF InStep
    <3> QED BY <3>1, <3>2 DEF FlightsFirst
  <2>2. FlightsFirst(wire[d], Lead(d))'
    BY <1>7, <1>10 DEF FlightsFirst
  <2> QED BY <2>1, <2>2
<1>12. \A f \in Tunnelled : \A k \in flight'[PeerOf(f)] + 1 .. flight'[f] : Flights[k] = f
  <2>1. \A k \in b + 1 .. a + 1 : Flights[k] = e
    <3>1. \A k \in b + 1 .. a + 1 : k \in b + 1 .. a \/ k = a + 1
      BY <1>2
    <3> QED BY <3>1, <1>3, <1>5
  <2>2. \A k \in (a + 1) + 1 .. b : k \in a + 1 .. b
    BY <1>2
  <2> QED BY <2>1, <2>2, <1>1, <1>4, <1>5
<1>13. \A f \in Tunnelled : (~Tapped(f))' => Len(wire'[PeerOf(f)]) = Lead(PeerOf(f))'
  <2>1. Len(wire'[d]) = Lead(d)'
    BY <1>7, <1>10
  <2>2. (~Tapped(d))' => ~Tapped(d)
    BY <1>4 DEF Tapped, SendFlight
  <2>3. ~Tapped(d) => Len(wire[e]) = 0
    BY <1>1, <1>7 DEF InStep
  <2>4. wire'[e] = wire[e]
    BY <1>1, <1>8
  <2> QED BY <2>1, <2>2, <2>3, <2>4, <1>1, <1>7
<1>14. secure'
  BY <1>3 DEF SendFlight
<1> QED BY <1>11, <1>12, <1>13, <1>14 DEF InStep

LEMMA InStepRead ==
    ASSUME WireTypes, InStep, WireTypes', NEW e \in Tunnelled, ReadFlight(e)
    PROVE  InStep'
<1> DEFINE d == PeerOf(e)  a == flight[e]  b == flight[d]
<1>1. d \in Tunnelled /\ d # e /\ PeerOf(d) = e /\ Tunnelled = {d, e} /\ Tunnelled \subseteq Ends
  BY Ends4 DEF Tunnelled, Ends
<1>2. a \in Nat /\ b \in Nat
  BY <1>1, LeadIs
<1>3. /\ a < Len(Flights) /\ secure
      /\ flight' = [flight EXCEPT ![e] = a + 1]
      /\ wire[e] # <<>> /\ Head(wire[e]).part = "flight"
      /\ wire' = [wire EXCEPT ![e] = Tail(@)]
  BY ReadFlightIs
<1>4. flight'[e] = a + 1 /\ flight'[d] = b
  BY <1>1, <1>3 DEF WireTypes
<1>5. /\ \A k \in b + 1 .. a : Flights[k] = e
      /\ \A k \in a + 1 .. b : Flights[k] = d
  BY <1>1 DEF InStep
<1>6. /\ wire[e] \in Seq(Chunks) /\ wire'[e] \in Seq(Chunks)
      /\ ChunkTaken(wire[e], wire'[e], wire[e][1]) /\ wire[e][1].part = "flight"
      /\ \A f \in Ends \ {e} : wire'[f] = wire[f]
  <2>1. e \in Ends
    BY <1>1
  <2> QED BY <1>3, <2>1, TailIs DEF WireTypes
<1>7. /\ Lead(e) \in Nat /\ FlightsFirst(wire[e], Lead(e))
      /\ Lead(e) >= 1 /\ FlightsFirst(wire'[e], Lead(e) - 1)
      /\ Len(wire[e]) = Len(wire'[e]) + 1
  <2>1. Lead(e) \in Nat /\ FlightsFirst(wire[e], Lead(e))
    BY <1>1, LeadIs DEF InStep
  <2> QED BY <2>1, <1>6, ChunkOffKeeps
<1>8. b > a
  BY <1>1, <1>2, <1>7 DEF Lead
<1>9. Lead(e) = b - a /\ Lead(d) = 0 /\ Lead(e)' = b - a - 1 /\ Lead(d)' = 0
  <2>1. Lead(e) = IF b > a THEN b - a ELSE 0
    BY <1>1 DEF Lead
  <2>2. Lead(d) = IF a > b THEN a - b ELSE 0
    BY <1>1 DEF Lead
  <2>3. Lead(e)' = IF b > a + 1 THEN b - (a + 1) ELSE 0
    BY <1>1, <1>4 DEF Lead
  <2>4. Lead(d)' = IF a + 1 > b THEN a + 1 - b ELSE 0
    <3>1. Lead(d)' = IF flight'[e] > flight'[d] THEN flight'[e] - flight'[d] ELSE 0
      BY <1>1, Zenon DEF Lead
    <3> HIDE DEF a, b, d
    <3> QED BY <3>1, <1>2, <1>4
  <2> HIDE DEF a, b
  <2> QED BY <2>1, <2>2, <2>3, <2>4, <1>2, <1>8
<1>10. \A f \in Ends : FlightsFirst(wire[f], Lead(f))'
  <2>1. ASSUME NEW f \in Ends, f # e PROVE FlightsFirst(wire[f], Lead(f))'
    <3>1. Lead(f)' = Lead(f)
      BY <1>1, <1>9, <2>1 DEF Lead
    <3>2. wire'[f] = wire[f] /\ FlightsFirst(wire[f], Lead(f))
      BY <1>6, <2>1 DEF InStep
    <3> QED BY <3>1, <3>2 DEF FlightsFirst
  <2>2. FlightsFirst(wire[e], Lead(e))'
    BY <1>7, <1>9 DEF FlightsFirst
  <2> QED BY <2>1, <2>2
<1>11. \A f \in Tunnelled : \A k \in flight'[PeerOf(f)] + 1 .. flight'[f] : Flights[k] = f
  <2>1. \A k \in (a + 1) + 1 .. b : k \in a + 1 .. b
    BY <1>2
  <2>2. \A k \in b + 1 .. a + 1 : FALSE
    BY <1>2, <1>8
  <2> QED BY <2>1, <2>2, <1>1, <1>4, <1>5
<1>12. \A f \in Tunnelled : (~Tapped(f))' => Len(wire'[PeerOf(f)]) = Lead(PeerOf(f))'
  <2>1. ~Tapped(e)
    BY <1>2, <1>3 DEF Tapped
  <2>2. Len(wire'[d]) = Lead(d)'
    BY <2>1, <1>1, <1>6, <1>9 DEF InStep
  <2>3. (~Tapped(d))' => ~Tapped(d)
    BY <1>4 DEF Tapped, ReadFlight
  <2>4. ~Tapped(d) => Len(wire'[e]) = Lead(e)'
    <3>1. ~Tapped(d) => Len(wire[e]) = Lead(e)
      BY <1>1 DEF InStep
    <3>2. Len(wire'[e]) \in Nat
      BY <1>6, Nonempty
    <3> HIDE DEF a, b
    <3> QED BY <3>1, <3>2, <1>2, <1>7, <1>9
  <2> QED BY <2>2, <2>3, <2>4, <1>1
<1>13. secure'
  BY <1>3 DEF ReadFlight
<1> QED BY <1>10, <1>11, <1>12, <1>13 DEF InStep

\* No write, read or shutdown breaks the order of the handshake.
LEMMA InStepKept ==
    ASSUME WireTypes, WireTypes', InStep, StreamStep
    PROVE  InStep'
<1>0. \A e \in Ends : /\ wire[e] \in Seq(Chunks) /\ wire'[e] \in Seq(Chunks)
                      /\ FlightsFirst(wire[e], Lead(e)) /\ Lead(e) \in Nat
  BY LeadIs DEF WireTypes, InStep
<1>1. CASE wire' = wire /\ UNCHANGED tunnelVars
  BY <1>0, <1>1, InStepStill
<1>2. ASSUME UNCHANGED tunnelVars, NEW e \in Ends, Tapped(e),
             \A f \in Ends \ {PeerOf(e)} : wire'[f] = wire[f],
             FlightsFirst(wire'[PeerOf(e)], Lead(PeerOf(e)))
      PROVE  InStep'
  <2>1. \A f \in Ends : /\ FlightsFirst(wire'[f], Lead(f))
                        /\ wire'[f] = wire[f] \/ (f \in Tunnelled => Tapped(PeerOf(f)))
    BY <1>0, <1>2, Ends4
  <2> QED BY <1>2, <2>1, InStepStill
<1>3. ASSUME UNCHANGED tunnelVars, NEW m \in Carried, Tapped("client"),
             WriteHeader("client", m) \/ WriteBody("client", m)
      PROVE  InStep'
  <2>1. PICK c \in Chunks : Write("client", <<c>>) /\ c.part # "flight"
    BY <1>3, ChunkTypes DEF WriteHeader, WriteBody, Chunk
  <2>2. "client" \in Ends /\ PeerOf("client") \in Ends
    BY Ends4 DEF Ends
  <2>3. /\ ChunkAdded(wire[PeerOf("client")], wire'[PeerOf("client")], c)
        /\ \A f \in Ends \ {PeerOf("client")} : wire'[f] = wire[f]
    BY <2>1, <2>2, WriteChunkIs
  <2>4. FlightsFirst(wire'[PeerOf("client")], Lead(PeerOf("client")))
    BY <1>0, <2>1, <2>2, <2>3, ChunkOnKeeps
  <2> QED BY <1>2, <1>3, <2>2, <2>3, <2>4
<1>4. ASSUME UNCHANGED tunnelVars, NEW e \in Ends, NEW m \in Carried, WriteFrame(e, m), Tapped(e)
      PROVE  InStep'
  <2>1. /\ FrameAdded(wire[PeerOf(e)], wire'[PeerOf(e)], m)
        /\ \A f \in Ends \ {PeerOf(e)} : wire'[f] = wire[f]
    BY <1>4, WriteFrameIs
  <2>2. FlightsFirst(wire'[PeerOf(e)], Lead(PeerOf(e)))
    BY <1>0, <2>1, Ends4, FrameOnKeeps
  <2> QED BY <1>2, <1>4, <2>1, <2>2
<1>5. ASSUME UNCHANGED tunnelVars, NEW e \in Ends, Lead(e) = 0, wire[e] # <<>>,
             \A f \in Ends \ {e} : wire'[f] = wire[f],
             FlightsFirst(wire'[e], 0)
      PROVE  InStep'
  <2>1. e \in Tunnelled => Tapped(PeerOf(e))
    <3>1. Len(wire[e]) # 0
      BY <1>0, <1>5, Nonempty
    <3>2. e \in Tunnelled => PeerOf(PeerOf(e)) = e /\ PeerOf(e) \in Tunnelled
      BY Ends4
    <3> QED BY <1>5, <3>1, <3>2 DEF InStep
  <2>2. \A f \in Ends : /\ FlightsFirst(wire'[f], Lead(f))
                        /\ wire'[f] = wire[f] \/ (f \in Tunnelled => Tapped(PeerOf(f)))
    BY <1>0, <1>5, <2>1
  <2> QED BY <1>5, <2>2, InStepStill
<1>6. ASSUME UNCHANGED tunnelVars, NEW e \in Ends, NextFrame(e) PROVE InStep'
  <2>1. /\ FrameTaken(wire[e], wire'[e], NextMessage(e))
        /\ \A f \in Ends \ {e} : wire'[f] = wire[f]
    BY <1>6, NextFrameIs
  <2>2. Lead(e) = 0 /\ FlightsFirst(wire'[e], 0)
    BY <1>0, <2>1, FrameOffKeeps
  <2>3. wire[e] # <<>>
    BY <1>0, <1>6, Nonempty DEF NextFrame, Whole
  <2> QED BY <1>5, <1>6, <2>1, <2>2, <2>3
<1>7. ASSUME UNCHANGED tunnelVars, NEW e \in Sides \cup {"client"}, Skip(e), Misframed(e) PROVE InStep'
  <2>1. e \in Ends
    BY DEF Sides, Ends
  <2>2. Lead(e) = 0 /\ wire[e] # <<>> /\ wire[e][1].part # "flight"
    BY <1>7, <2>1, NoFlightSkipped
  <2>3. /\ ChunkTaken(wire[e], wire'[e], wire[e][1])
        /\ \A f \in Ends \ {e} : wire'[f] = wire[f]
    BY <1>7, <2>1, <2>2, TailIs DEF Skip
  <2>4. FlightsFirst(wire'[e], 0)
    BY <1>0, <2>1, <2>2, <2>3, ChunkOffKeeps
  <2> QED BY <1>5, <1>7, <2>1, <2>2, <2>3, <2>4
<1>8. ASSUME NEW e \in Tunnelled, Handshake(e) PROVE InStep'
  BY <1>8, InStepSend, InStepRead DEF Handshake
<1>9. \A m \in begun["client"] : m \in Carried
  BY DEF WireTypes, Ends
<1> QED
  BY <1>1, <1>3, <1>4, <1>6, <1>7, <1>8, <1>9 DEF StreamStep, WriteFails, tunnelVars

-----------------------------------------------------------------------------
(* Frames.                                                                 *)

\* An end that reads frames and knows where it is finds no torn one.
LEMMA NotTorn ==
    ASSUME NEW s \in Seq(Chunks), InFrames(s), FlightsFirst(s, 0)
    PROVE  ~Torn(s)
<1>1. Len(s) \in Nat /\ (s # <<>> <=> Len(s) >= 1) /\ \A i \in 1 .. Len(s) : s[i] \in Chunks
  BY Nonempty
<1>2. Len(s) >= 1 => s[1].part = "header"
  <2>1. Len(s) >= 1 => 1 \in 1 .. Len(s) /\ ~(1 <= 0) /\ ~(1 > 1)
    BY <1>1
  <2>2. Len(s) >= 1 => s[1].part \in {"header", "body", "flight"}
    BY <1>1, <2>1, ChunkTypes
  <2> QED BY <2>1, <2>2 DEF FlightsFirst, InFrames
<1>3. Len(s) >= 2 => s[2] = Chunk("body", s[1].msg)
  <2>1. Len(s) >= 2 => 1 \in 1 .. Len(s) /\ 1 # Len(s) /\ 1 + 1 = 2
    BY <1>1
  <2> QED BY <1>1, <1>2, <2>1 DEF InFrames
<1> QED BY <1>1, <1>2, <1>3 DEF Torn, Whole

\* What Framed says of every end but "down", kept by each operation.
LEMMA FramedWrite ==
    ASSUME NEW s \in Seq(Chunks), NEW t \in Seq(Chunks), InFrames(s), EndsWhole(s),
           \/ \E m : FrameAdded(s, t, m)
           \/ \E c : ChunkAdded(s, t, c) /\ c.part = "flight"
           \/ \E m : FrameTaken(s, t, m)
           \/ \E c : ChunkTaken(s, t, c) /\ c.part = "flight"
    PROVE  InFrames(t) /\ EndsWhole(t)
<1>1. ASSUME NEW c, ChunkAdded(s, t, c), c.part = "flight" PROVE InFrames(t) /\ EndsWhole(t)
  BY <1>1, ChunkOnKeeps DEF EndsWhole
<1> QED BY <1>1, FrameOnKeeps, FrameOffKeeps, ChunkOffKeeps

\* Nothing but the end of "down" is ever misread, and that only after two
\* frames were interleaved on their way to it.
LEMMA OnlyTornIsMisread ==
    ASSUME WireTypes, InStep, Framed, NEW e \in Sides \cup {"client"}, Skip(e), Misframed(e)
    PROVE  e = "down" /\ "down" \in overlaps
<1>1. e \in Ends /\ e \notin shut
  BY DEF Sides, Ends, Skip
<1>2. Lead(e) = 0 /\ wire[e] # <<>> /\ wire[e] \in Seq(Chunks) /\ FlightsFirst(wire[e], 0)
  BY <1>1, NoFlightSkipped DEF WireTypes, InStep
<1>3. SUFFICES ASSUME InFrames(wire[e]), e \notin garbled PROVE FALSE
  BY <1>1 DEF Framed
<1>4. ~Torn(wire[e])
  BY <1>2, <1>3, NotTorn
<1>5. ~Tapped(e) /\ Receives(e)
  BY <1>3, <1>4 DEF Misframed
<1>6. e \in Tunnelled /\ secure /\ flight[e] # Len(Flights)
  BY <1>5 DEF Tapped
<1>7. PeerOf(e) \in Tunnelled /\ PeerOf(PeerOf(e)) = e
  BY <1>1, <1>6, Ends4
<1>8. ~Tapped(PeerOf(e))
  <2>1. flight[PeerOf(e)] <= flight[e]
    BY <1>2, <1>6, <1>7, LeadIs DEF Lead
  <2> QED BY <2>1, <1>6, <1>7, LeadIs DEF Tapped
<1>9. Len(wire[e]) = 0
  BY <1>2, <1>7, <1>8 DEF InStep
<1> QED BY <1>2, <1>9, Nonempty

LEMMA FramedKept ==
    ASSUME WireTypes, WireTypes', InStep, Framed, StreamStep
    PROVE  Framed'
<1> DEFINE d == wire["down"]
<1>0. /\ \A e \in Ends : wire[e] \in Seq(Chunks) /\ wire'[e] \in Seq(Chunks)
      /\ "down" \in Ends /\ "client" \in Ends /\ PeerOf("client") = "down"
      /\ \A e \in Ends : PeerOf(e) = "down" <=> e = "client"
      /\ d \in Seq(Chunks) /\ wire'["down"] \in Seq(Chunks)
      /\ begun["client"] \in SUBSET Carried
  BY Ends4 DEF WireTypes, Ends
<1>1. ASSUME wire' = wire, begun' = begun, overlaps' = overlaps, garbled' = garbled, shut \subseteq shut'
      PROVE  Framed'
  <2>1. "down" \notin overlaps' \cup shut' => InFrames(wire'["down"]) /\ OneBegun'
    BY <1>1 DEF Framed, OneBegun
  <2> QED BY <1>1, <2>1 DEF Framed
<1>2. ASSUME NEW m \in Carried, WriteFails("client", m) PROVE Framed'
  <2>1. wire' = wire /\ shut' = shut /\ overlaps' = overlaps /\ garbled' = garbled
    BY <1>2 DEF WriteFails
  <2>2. begun'["client"] = begun["client"] \ {m}
    BY <1>2, <1>0 DEF WriteFails, WireTypes
  <2>3. "client" \in shut \/ "down" \in shut
    BY <1>0, <1>2 DEF WriteFails, Broken
  <2>4. "down" \notin overlaps' \cup shut' => InFrames(wire'["down"]) /\ OneBegun'
    BY <2>1, <2>2, <2>3 DEF Framed, OneBegun
  <2> QED BY <2>1, <2>4 DEF Framed
<1>3. ASSUME NEW f \in Ends \ {"down"}, \A e \in Ends \ {f} : wire'[e] = wire[e],
             UNCHANGED <<begun, overlaps, garbled, shut>>,
             InFrames(wire'[f]), EndsWhole(wire'[f])
      PROVE  Framed'
  <2>1. wire'["down"] = wire["down"]
    BY <1>0, <1>3
  <2>2. "down" \notin overlaps' \cup shut' => InFrames(wire'["down"]) /\ OneBegun'
    BY <1>3, <2>1 DEF Framed, OneBegun
  <2>3. ASSUME NEW e \in Ends \ {"down"} PROVE InFrames(wire'[e]) /\ EndsWhole(wire'[e])
    BY <1>3 DEF Framed
  <2> QED BY <1>3, <2>2, <2>3 DEF Framed
<1>4. ASSUME \A e \in Ends \ {"down"} : wire'[e] = wire[e],
             garbled' \subseteq overlaps' \cap {"down"},
             "down" \notin overlaps' \cup shut' => InFrames(wire'["down"]) /\ OneBegun'
      PROVE  Framed'
  <2>1. ASSUME NEW e \in Ends \ {"down"} PROVE InFrames(wire'[e]) /\ EndsWhole(wire'[e])
    BY <1>4 DEF Framed
  <2> QED BY <1>4, <2>1 DEF Framed
<1>5. ASSUME NEW m \in Carried, WriteHeader("client", m) PROVE Framed'
  <2> DEFINE c == Chunk("header", m)
  <2>1. c \in Chunks /\ c.part = "header"
    BY ChunkTypes DEF Chunk
  <2>2. Write("client", <<c>>) /\ "client" \notin shut
    BY <1>5 DEF WriteHeader, Write
  <2>3. ChunkAdded(d, wire'["down"], c) /\ \A e \in Ends \ {"down"} : wire'[e] = wire[e]
    BY <2>1, <2>2, <1>0, WriteChunkIs
  <2>4. /\ shut' = shut /\ garbled' = garbled /\ overlaps \subseteq overlaps'
        /\ begun["client"] # {} => "down" \in overlaps'
        /\ begun'["client"] = begun["client"] \cup {m}
    BY <1>0, <1>5 DEF WriteHeader, WireTypes
  <2>5. ASSUME "down" \notin overlaps' \cup shut' PROVE InFrames(wire'["down"]) /\ OneBegun'
    <3>1. begun["client"] = {} /\ InFrames(d) /\ EndsWhole(d)
      BY <2>2, <2>4, <2>5 DEF Framed, OneBegun
    <3>2. /\ InFrames(wire'["down"]) /\ wire'["down"] # <<>>
          /\ wire'["down"][Len(wire'["down"])] = c
      BY <1>0, <2>1, <2>3, <3>1, ChunkOnKeeps
    <3>3. begun'["client"] = {m}
      BY <2>4, <3>1
    <3> QED BY <3>2, <3>3 DEF OneBegun
  <2>6. garbled' \subseteq overlaps' \cap {"down"}
    BY <2>4 DEF Framed
  <2> QED BY <1>4, <2>3, <2>5, <2>6
<1>6. ASSUME NEW m \in begun["client"], WriteBody("client", m) PROVE Framed'
  <2> DEFINE c == Chunk("body", m)
  <2>1. c \in Chunks /\ c.part = "body" /\ c.part # "header"
    BY <1>0, ChunkTypes DEF Chunk
  <2>2. Write("client", <<c>>)
    BY <1>6 DEF WriteBody
  <2>3. ChunkAdded(d, wire'["down"], c) /\ \A e \in Ends \ {"down"} : wire'[e] = wire[e]
    BY <2>1, <2>2, <1>0, WriteChunkIs
  <2>4. /\ shut' = shut /\ garbled' = garbled /\ overlaps' = overlaps
        /\ begun'["client"] = begun["client"] \ {m}
    BY <1>0, <1>6 DEF WriteBody, WireTypes
  <2>5. ASSUME "down" \notin overlaps' \cup shut' PROVE InFrames(wire'["down"]) /\ OneBegun'
    <3>1. /\ begun["client"] = {m} /\ d # <<>> /\ InFrames(d)
          /\ d[Len(d)] = Chunk("header", m)
      BY <1>6, <2>4, <2>5 DEF Framed, OneBegun
    <3>2. /\ InFrames(wire'["down"])
          /\ wire'["down"][Len(wire'["down"])] = c
      BY <1>0, <2>1, <2>3, <3>1, ChunkOnKeeps
    <3>3. begun'["client"] = {} /\ EndsWhole(wire'["down"])
      BY <2>1, <2>4, <3>1, <3>2 DEF EndsWhole
    <3> QED BY <3>2, <3>3 DEF OneBegun
  <2>6. garbled' \subseteq overlaps' \cap {"down"}
    BY <2>4 DEF Framed
  <2> QED BY <1>4, <2>3, <2>5, <2>6
<1>7. ASSUME NEW e \in Ends, NEW m \in Carried, WriteFrame(e, m), e = "client" => begun["client"] = {}
      PROVE  Framed'
  <2>1. /\ FrameAdded(wire[PeerOf(e)], wire'[PeerOf(e)], m)
        /\ \A f \in Ends \ {PeerOf(e)} : wire'[f] = wire[f]
    BY <1>7, WriteFrameIs
  <2>2. UNCHANGED <<begun, overlaps, garbled, shut>> /\ e \notin shut
    BY <1>7 DEF WriteFrame, Write
  <2>3. CASE e # "client"
    <3>1. PeerOf(e) \in Ends \ {"down"}
      BY <1>0, <2>3, Ends4
    <3>2. InFrames(wire'[PeerOf(e)]) /\ EndsWhole(wire'[PeerOf(e)])
      BY <1>0, <2>1, <3>1, FramedWrite DEF Framed
    <3> QED BY <1>3, <2>1, <2>2, <3>1, <3>2
  <2>4. CASE e = "client"
    <3>1. ASSUME "down" \notin overlaps' \cup shut' PROVE InFrames(wire'["down"]) /\ OneBegun'
      <4>1. InFrames(d) /\ EndsWhole(d)
        BY <1>7, <2>2, <2>4, <3>1 DEF Framed, OneBegun
      <4>2. InFrames(wire'["down"]) /\ EndsWhole(wire'["down"])
        BY <1>0, <2>1, <2>4, <4>1, FramedWrite
      <4> QED BY <1>7, <2>2, <2>4, <4>2 DEF OneBegun
    <3>2. garbled' \subseteq overlaps' \cap {"down"}
      BY <2>2 DEF Framed
    <3> QED BY <1>0, <1>4, <2>1, <2>4, <3>1, <3>2
  <2> QED BY <2>3, <2>4
<1>8. ASSUME NEW e \in Ends, UNCHANGED <<begun, overlaps, garbled, shut>>,
             \A f \in Ends \ {e} : wire'[f] = wire[f],
             InFrames(wire[e]) => InFrames(wire'[e]),
             EndsWhole(wire[e]) => EndsWhole(wire'[e]),
             \A x : wire[e][Len(wire[e])] = Chunk("header", x) =>
                        wire'[e] # <<>> /\ wire'[e][Len(wire'[e])] = Chunk("header", x)
      PROVE  Framed'
  <2>1. CASE e # "down"
    <3>1. InFrames(wire'[e]) /\ EndsWhole(wire'[e])
      BY <1>8, <2>1 DEF Framed
    <3> QED BY <1>3, <1>8, <2>1, <3>1
  <2>2. CASE e = "down"
    <3>1. ASSUME "down" \notin overlaps' \cup shut' PROVE InFrames(wire'["down"]) /\ OneBegun'
      BY <1>8, <2>2, <3>1 DEF Framed, OneBegun
    <3>2. garbled' \subseteq overlaps' \cap {"down"}
      BY <1>8 DEF Framed
    <3> QED BY <1>4, <1>8, <2>2, <3>1, <3>2
  <2> QED BY <2>1, <2>2
<1>9. ASSUME NEW e \in Ends, NextFrame(e) PROVE Framed'
  <2>1. /\ FrameTaken(wire[e], wire'[e], NextMessage(e))
        /\ \A f \in Ends \ {e} : wire'[f] = wire[f]
    BY <1>9, NextFrameIs
  <2>2. UNCHANGED <<begun, overlaps, garbled, shut>>
    BY <1>9 DEF NextFrame
  <2>3. /\ InFrames(wire[e]) => InFrames(wire'[e])
        /\ EndsWhole(wire[e]) => EndsWhole(wire'[e])
        /\ \A x : wire[e][Len(wire[e])] = Chunk("header", x) =>
                      wire'[e] # <<>> /\ wire'[e][Len(wire'[e])] = Chunk("header", x)
    BY <1>0, <2>1, FrameOffKeeps
  <2> QED BY <1>8, <2>1, <2>2, <2>3
<1>10. ASSUME NEW e \in Sides \cup {"client"}, Skip(e), Misframed(e) PROVE Framed'
  <2>1. e = "down" /\ "down" \in overlaps
    BY <1>10, OnlyTornIsMisread
  <2>2. \A f \in Ends \ {"down"} : wire'[f] = wire[f]
    BY <1>10, <2>1 DEF Skip, WireTypes
  <2>3. overlaps' = overlaps /\ garbled' = garbled \cup {"down"}
    BY <1>10, <2>1 DEF Skip
  <2>4. garbled' \subseteq overlaps' \cap {"down"}
    BY <2>1, <2>3 DEF Framed
  <2> QED BY <1>4, <2>1, <2>2, <2>3, <2>4
<1>11. ASSUME NEW e \in Tunnelled, SendFlight(e) PROVE Framed'
  <2> DEFINE c == Chunk("flight", Flight(flight[e] + 1))  f == PeerOf(e)
  <2>1. /\ c \in Chunks /\ c.part = "flight" /\ e \in Ends /\ f \in Ends /\ f \in Tunnelled /\ PeerOf(f) = e
        /\ ~Tapped(e)
        /\ wire' = [wire EXCEPT ![f] = Append(@, c)]
    BY <1>11, SendFlightIs, Ends4 DEF Chunk, Tunnelled, Ends, SendFlight, Sends
  <2>2. ChunkAdded(wire[f], wire'[f], c) /\ \A g \in Ends \ {f} : wire'[g] = wire[g]
    BY <2>1, WriteChunkIs
  <2>3. UNCHANGED <<begun, overlaps, garbled, shut>>
    BY <1>11 DEF SendFlight
  <2>4. \A i \in 1 .. Len(wire[f]) : wire[f][i].part = "flight"
    <3>1. Len(wire[f]) = Lead(f) /\ FlightsFirst(wire[f], Lead(f)) /\ Lead(f) \in Nat
      BY <2>1, LeadIs DEF InStep
    <3> QED BY <3>1 DEF FlightsFirst
  <2>5. wire[f] # <<>> => wire[f][Len(wire[f])].part = "flight"
    BY <1>0, <2>1, <2>4, Nonempty
  <2>6. EndsWhole(wire[f])
    BY <2>5 DEF EndsWhole
  <2>7. CASE f # "down"
    <3>1. InFrames(wire[f]) /\ EndsWhole(wire[f]) /\ wire[f] \in Seq(Chunks) /\ wire'[f] \in Seq(Chunks)
      BY <1>0, <2>1, <2>7 DEF Framed
    <3>2. \E x : ChunkAdded(wire[f], wire'[f], x) /\ x.part = "flight"
      BY <2>1, <2>2
    <3> HIDE DEF f
    <3>3. InFrames(wire'[f]) /\ EndsWhole(wire'[f])
      BY <3>1, <3>2, FramedWrite
    <3> QED BY <1>3, <2>1, <2>2, <2>3, <2>7, <3>3
  <2>8. CASE f = "down"
    <3>1. ASSUME "down" \notin overlaps' \cup shut' PROVE InFrames(wire'["down"]) /\ OneBegun'
      <4>1. InFrames(d) /\ OneBegun
        BY <2>3, <3>1 DEF Framed
      <4>2. begun["client"] = {}
        <5>1. d # <<>> => d[Len(d)].part # "header"
          BY <2>5, <2>8
        <5>2. \A m : Chunk("header", m).part = "header"
          BY DEF Chunk
        <5> QED BY <4>1, <5>1, <5>2 DEF OneBegun
      <4>3. InFrames(wire'["down"]) /\ EndsWhole(wire'["down"])
        BY <1>0, <2>1, <2>2, <2>6, <2>8, <4>1, FramedWrite
      <4> QED BY <2>3, <4>2, <4>3 DEF OneBegun
    <3>2. garbled' \subseteq overlaps' \cap {"down"}
      BY <2>3 DEF Framed
    <3> QED BY <1>4, <2>2, <2>8, <3>1, <3>2
  <2> QED BY <2>7, <2>8
<1>12. ASSUME NEW e \in Tunnelled, ReadFlight(e) PROVE Framed'
  <2>1. /\ e \in Ends /\ wire[e] # <<>> /\ Head(wire[e]).part = "flight"
        /\ wire' = [wire EXCEPT ![e] = Tail(@)]
    BY <1>12, ReadFlightIs DEF Tunnelled, Ends
  <2>2. /\ ChunkTaken(wire[e], wire'[e], wire[e][1]) /\ wire[e][1].part = "flight"
        /\ \A f \in Ends \ {e} : wire'[f] = wire[f]
    BY <2>1, TailIs
  <2>3. UNCHANGED <<begun, overlaps, garbled, shut>>
    BY <1>12 DEF ReadFlight
  <2>4. /\ InFrames(wire[e]) => InFrames(wire'[e])
        /\ EndsWhole(wire[e]) => EndsWhole(wire'[e])
        /\ \A x : wire[e][Len(wire[e])] = Chunk("header", x) =>
                      wire'[e] # <<>> /\ wire'[e][Len(wire'[e])] = Chunk("header", x)
    <3>1. PICK c : c = wire[e][1]
      OBVIOUS
    <3>2. wire[e] \in Seq(Chunks) /\ wire'[e] \in Seq(Chunks) /\ ChunkTaken(wire[e], wire'[e], c) /\ c.part = "flight"
      BY <1>0, <2>1, <2>2, <3>1
    <3> QED BY <3>2, ChunkOffKeeps
  <2> QED BY <1>8, <2>1, <2>2, <2>3, <2>4
<1>13. \A m \in begun["client"] : m \in Carried
  BY <1>0
<1> QED
  BY <1>1, <1>2, <1>5, <1>6, <1>7, <1>9, <1>10, <1>11, <1>12, <1>13
  DEF StreamStep, Handshake

-----------------------------------------------------------------------------
(* Who writes when, and the types of what is carried.                      *)

LEMMA StreamGrows ==
    ASSUME WireTypes, StreamStep
    PROVE  /\ shut \subseteq shut'
           /\ \A e \in Ends : Tapped(e) => Tapped(e)'
<1>1. shut \subseteq shut'
  BY DEF StreamStep, WriteFails, WriteHeader, WriteBody, WriteFrame, NextFrame, Skip, Handshake,
         SendFlight, ReadFlight
<1>2. ASSUME UNCHANGED tunnelVars, NEW e \in Ends, Tapped(e) PROVE Tapped(e)'
  BY <1>2 DEF tunnelVars, Tapped
<1>3. ASSUME NEW d \in Tunnelled, Handshake(d), NEW e \in Ends, Tapped(e) PROVE Tapped(e)'
  <2>1. ~Tapped(d) /\ secure' = secure /\ flight' = [flight EXCEPT ![d] = @ + 1]
    BY <1>3 DEF Handshake, SendFlight, ReadFlight, Sends, Receives, OneMore
  <2>2. e \in Tunnelled => flight'[e] = flight[e] \/ ~secure
    BY <1>3, <2>1 DEF WireTypes, Tapped
  <2> QED BY <1>3, <2>1, <2>2 DEF Tapped
<1>4. UNCHANGED tunnelVars \/ \E d \in Tunnelled : Handshake(d)
  BY DEF StreamStep, tunnelVars
<1>5. ASSUME NEW e \in Ends, Tapped(e) PROVE Tapped(e)'
  BY <1>2, <1>3, <1>4, <1>5
<1> QED BY <1>1, <1>5

LEMMA PiperStep ==
    ASSUME WireTypes, CallTypes, Writers, OnlyFailedSetupLeaks, [Next]_vars
    PROVE  /\ PiperTypeOK'
           /\ OnlyFailedSetupLeaks'
           /\ \A e \in Sides : copier'[e] # "off" => handler' \in {"piping", "done"}
<1> USE DEF CallTypes, TypeOK, PiperTypeOK
<1>0. shut \subseteq shut'
  BY StreamSteps, StreamGrows
<1>1. CASE UNCHANGED piperVars
  BY <1>0, <1>1 DEF piperVars, OnlyFailedSetupLeaks, Writers
<1>2. ASSUME Pipe(Handle)
      PROVE  /\ PiperTypeOK' /\ OnlyFailedSetupLeaks'
             /\ \A e \in Sides : copier'[e] # "off" => handler' \in {"piping", "done"}
  <2>1. CASE ReadFirst
    BY <2>1 DEF ReadFirst, Goes, copyVars, OnlyFailedSetupLeaks, Writers
  <2>2. CASE TapDown
    BY <2>2, <1>0 DEF TapDown, piperVars, OnlyFailedSetupLeaks, Writers
  <2>3. CASE GreetClient \/ FindUpstream \/ GreetUpstream
    BY <2>3 DEF GreetClient, FindUpstream, GreetUpstream, Goes, copyVars, OnlyFailedSetupLeaks, Writers
  <2>4. CASE PassFirst
    BY <2>4 DEF PassFirst, Goes, OnlyFailedSetupLeaks
  <2>5. CASE SetupReturns
    <3>1. handler \notin {"piping", "done"}
      BY <2>5 DEF SetupReturns, SetupFails
    <3>2. \A e \in Sides : copier[e] = "off"
      BY <3>1 DEF Writers
    <3> QED BY <2>5, <3>2 DEF SetupReturns, Shut, copyVars, OnlyFailedSetupLeaks
  <2>6. CASE PipeReturns
    BY <2>6 DEF PipeReturns, Goes, Shut, BothSides, Sides, OnlyFailedSetupLeaks
  <2> QED BY <1>2, <2>1, <2>2, <2>3, <2>4, <2>5, <2>6 DEF Pipe, Handle
<1>3. ASSUME NEW e \in Sides, Pipe(Copy(e))
      PROVE  /\ PiperTypeOK' /\ OnlyFailedSetupLeaks'
             /\ \A f \in Sides : copier'[f] # "off" => handler' \in {"piping", "done"}
  <2>1. /\ copier[e] # "off" /\ handler' = handler /\ dialed' = dialed
        /\ \E to \in {"reading", "writing", "failed", "ended"} : copier' = [copier EXCEPT ![e] = to]
        /\ errors' \in 0 .. 2
    <3>1. copier = [copier EXCEPT ![e] = copier[e]]
      OBVIOUS
    <3>2. CASE CopyReads(e)
      BY <3>1, <3>2 DEF CopyReads, CopyTo
    <3>3. CASE CopyWrites(e) \/ CopyFails(e)
      BY <3>3 DEF CopyWrites, CopyFails, CopyTo
    <3>4. CASE CopyReports(e)
      BY <3>4 DEF CopyReports, CopyTo, HasRoom
    <3> QED BY <1>3, <3>2, <3>3, <3>4 DEF Pipe, Copy
  <2>2. handler \in {"piping", "done"}
    BY <2>1 DEF Writers
  <2>3. OnlyFailedSetupLeaks'
    BY <1>0, <2>1 DEF OnlyFailedSetupLeaks
  <2> QED BY <2>1, <2>2, <2>3
<1>4. Client(Connect) \/ Client(Wait) \/ Client(Closes) => UNCHANGED piperVars
  BY DEF Client
<1>5. \A c \in Calls : Client(UserCalls(c)) \/ Client(Call(c)) \/ Client(Expires(c)) => UNCHANGED piperVars
  BY DEF Client
<1>6. Gateway \/ GatewayLeaves \/ (\E n \in Notes : GatewayNotifies(n)) \/ Misreads => UNCHANGED piperVars
  BY DEF Gateway, GatewayReads, GatewayAnswers, GatewaySends, GatewayLeaves, GatewayNotifies, Misreads
<1>7. UNCHANGED vars => UNCHANGED piperVars
  BY DEF vars
<1> QED BY <1>1, <1>2, <1>3, <1>4, <1>5, <1>6, <1>7 DEF Next

-----------------------------------------------------------------------------
(* Types, and where every goroutine stands.                                *)

LEMMA RequestIs ==
    /\ \A c \in Calls : Steps(c) \in {1, 2}
    /\ \A c \in Calls : \A k \in 1 .. Steps(c) : <<c, k>> \in Requests
    /\ \A q \in Requests : q[1] \in Calls /\ q[2] \in 1 .. Steps(q[1]) /\ q = <<q[1], q[2]>>
    /\ \A c \in Calls : \A k : Req(c, k).type = "req" /\ Req(c, k).of = c /\ Req(c, k).nr = k
    /\ \A n : Ack(n).type = "ack"
<1>1. \A c \in Calls : Steps(c) \in {1, 2}
  BY DEF Steps
<1>2. ASSUME NEW c \in Calls, NEW k \in 1 .. Steps(c) PROVE <<c, k>> \in Requests
  <2>1. <<c, k>> \in {c} \X (1 .. Steps(c))
    OBVIOUS
  <2> QED BY <2>1 DEF Requests
<1>3. ASSUME NEW q \in Requests
      PROVE  q[1] \in Calls /\ q[2] \in 1 .. Steps(q[1]) /\ q = <<q[1], q[2]>>
  <2>1. PICK c \in Calls : q \in {c} \X (1 .. Steps(c))
    BY DEF Requests
  <2> QED BY <2>1
<1> QED BY <1>1, <1>2, <1>3 DEF Req, Ack, Message

LEMMA WireTypesKept ==
    ASSUME WireTypes, CallTypes, Writers, [Next]_vars
    PROVE  WireTypes'
<1>1. StreamStep
  BY StreamSteps
<1>2. /\ wire' \in [Ends -> Seq(Chunks)]
      /\ shut' \subseteq Ends /\ garbled' \subseteq Ends /\ overlaps' \subseteq Ends
      /\ begun' \in [Ends -> SUBSET Carried]
      /\ secure' \in BOOLEAN
      /\ flight' \in [Tunnelled -> 0 .. Len(Flights)]
  BY <1>1, StreamTypes DEF WireTypes
<1>3. SUFFICES carry' \in [Sides -> Carried] /\ hand' \in Carried
  BY <1>2 DEF WireTypes
<1>4. \A e \in Ends : NextFrame(e) => NextMessage(e) \in Carried
  BY NextFrameIs
<1>5. carry \in [Sides -> Carried] /\ hand \in Carried /\ NoMsg \in Carried
  BY CarriedMsgs DEF WireTypes
<1>6. "client" \in Ends /\ Sides \subseteq Ends
  BY DEF Ends, Sides
<1>7. CASE Client(Connect) \/ Client(Closes)
  BY <1>5, <1>7 DEF Client, piperVars, Connect, Closes, TapClient, Greet, ConnectFails, namingVars
<1>8. CASE Client(Wait)
  <2>1. carry' = carry
    BY <1>8 DEF Client, piperVars
  <2>2. hand' \in Carried
    BY <1>4, <1>5, <1>6, <1>8 DEF Client, Wait, ReadsReply, ReadsNote, ReadsOther, ReadsMessage,
        LeavesLoop, SendsAckHeader, EndsAck, Feeds, readVars
  <2> QED BY <1>5, <2>1, <2>2
<1>9. ASSUME NEW c \in Calls, Client(UserCalls(c)) \/ Client(Call(c)) \/ Client(Expires(c))
      PROVE  carry' = carry /\ hand' = hand
  BY <1>9 DEF Client, piperVars, UserCalls, Call, GoesOn, Begin, SendsHeader, SendsBody, SendFails,
      Cancelled, Expires, readVars
<1>10. CASE Pipe(Handle)
  <2>1. hand' = hand
    BY <1>10 DEF Pipe, namingVars
  <2>2. carry' = carry
    BY <1>10 DEF Pipe, Handle, ReadFirst, TapDown, GreetClient, FindUpstream, GreetUpstream, PassFirst,
        SetupReturns, PipeReturns, copyVars, piperVars
  <2> QED BY <1>5, <2>1, <2>2
<1>11. ASSUME NEW e \in Sides, Pipe(Copy(e)) PROVE carry' \in [Sides -> Carried] /\ hand' \in Carried
  <2>1. hand' = hand
    BY <1>11 DEF Pipe, namingVars
  <2>2. carry' \in [Sides -> Carried]
    BY <1>4, <1>5, <1>6, <1>11 DEF Pipe, Copy, CopyReads, CopyWrites, CopyFails, CopyReports
  <2> QED BY <1>5, <2>1, <2>2
<1>12. CASE Gateway \/ GatewayLeaves \/ (\E n \in Notes : GatewayNotifies(n)) \/ Misreads \/ UNCHANGED vars
  <2>1. carry' = carry /\ hand' = hand
    BY <1>12 DEF Gateway, GatewayReads, GatewayAnswers, GatewaySends, GatewayLeaves, GatewayNotifies, Misreads,
        vars, piperVars, namingVars
  <2> QED BY <1>5, <2>1
<1> QED BY <1>5, <1>7, <1>8, <1>9, <1>10, <1>11, <1>12 DEF Next

\* What a step of the client is, and what every other step leaves alone.
CallStep(c) ==
    UserCalls(c) \/ GoesOn(c) \/ SendsHeader(c) \/ SendsBody(c) \/ SendFails(c) \/ Cancelled(c) \/ Expires(c)
ReadStep ==
    \/ TapClient \/ Greet \/ ConnectFails \/ ReadsReply \/ ReadsNote \/ ReadsOther
    \/ LeavesLoop \/ SendsAckHeader \/ EndsAck \/ \E c \in Calls : Feeds(c)

LEMMA ClientSteps ==
    ASSUME [Next]_vars
    PROVE  /\ \/ UNCHANGED <<piperVars, gatewayVars>> /\ (ReadStep \/ \E c \in Calls : CallStep(c))
              \/ UNCHANGED namingVars
           /\ posted \subseteq posted'
<1>1. Client(Connect) \/ Client(Wait) => UNCHANGED <<piperVars, gatewayVars>> /\ ReadStep
  BY DEF Client, Connect, Wait, ReadStep
<1>2. Client(Closes) => UNCHANGED <<namingVars, gatewayVars>>
  BY DEF Client, Closes
<1>3. ASSUME NEW c \in Calls, Client(UserCalls(c)) \/ Client(Call(c)) \/ Client(Expires(c))
      PROVE  UNCHANGED <<piperVars, gatewayVars>> /\ CallStep(c)
  BY <1>3 DEF Client, Call, CallStep
<1>4. Pipe(Handle) \/ (\E e \in Sides : Pipe(Copy(e))) => UNCHANGED <<namingVars, gatewayVars>>
  BY DEF Pipe
<1>5. Gateway \/ GatewayLeaves \/ (\E n \in Notes : GatewayNotifies(n)) \/ Misreads \/ UNCHANGED vars
          => UNCHANGED namingVars /\ posted \subseteq posted'
  BY DEF Gateway, GatewayReads, GatewayAnswers, GatewaySends, GatewayLeaves, GatewayNotifies, Misreads, vars,
      gatewayVars
<1> QED BY <1>1, <1>2, <1>3, <1>4, <1>5 DEF Next, gatewayVars

-----------------------------------------------------------------------------
(* The calls.                                                              *)

StageNames   == {"idle", "spawned", "next", "ready", "half", "waiting", "done"}
OutcomeNames == {"none", "ok", "refused", "panic", "failed", "expired"}

\* A call that a step leaves alone.
Still(d) ==
    /\ stage'[d] = stage[d] /\ step'[d] = step[d] /\ outcome'[d] = outcome[d]
    /\ \A k \in 1 .. Steps(d) : answer'[<<d, k>>] = answer[<<d, k>>]

LEMMA StillInOrder ==
    ASSUME NEW d \in Calls, InOrder(d), Still(d), posted \subseteq posted'
    PROVE  InOrder(d)'
  BY DEF InOrder, Still

\* Each operation of a call is one change of that call.
LEMMA CallStepIs ==
    ASSUME CallTypes, CallOrder, NEW c \in Calls, CallStep(c), posted' = posted
    PROVE  /\ stage' \in [Calls -> StageNames] /\ step' \in [Calls -> 0 .. 2]
           /\ outcome' \in [Calls -> OutcomeNames] /\ answer' = answer
           /\ asked \subseteq asked' /\ asked' \subseteq Requests
           /\ \A d \in Calls \ {c} : Still(d)
           /\ reader' = reader /\ hand' = hand
           /\ step'[c] \in 0 .. Steps(c)
           /\ outcome'[c] = outcome[c] \/ outcome'[c] \in {"failed", "expired"}
           /\ InOrder(c)'
<1>1. /\ stage \in [Calls -> StageNames] /\ step \in [Calls -> 0 .. 2] /\ step[c] \in 0 .. Steps(c)
      /\ outcome \in [Calls -> OutcomeNames] /\ asked \subseteq Requests
  BY DEF CallTypes, TypeOK, NamingTypeOK, StageNames, OutcomeNames
<1>2. InOrder(c) /\ Steps(c) \in {1, 2}
  BY RequestIs DEF CallOrder
<1>3. CASE UserCalls(c) \/ GoesOn(c)
  <2>1. /\ stage[c] \in {"idle", "spawned", "next"}
        /\ stage' = [stage EXCEPT ![c] = "ready"]
        /\ step' = [step EXCEPT ![c] = step[c] + 1]
        /\ UNCHANGED <<outcome, answer, asked, reader, hand>>
    BY <1>3 DEF UserCalls, GoesOn, Begin, Moves, readVars
  <2>2. step[c] + 1 \in 1 .. Steps(c) /\ outcome[c] = "none"
    BY <1>1, <1>2, <2>1 DEF InOrder, OutcomeNames
  <2>3. /\ stage'[c] = "ready" /\ step'[c] = step[c] + 1 /\ outcome'[c] = "none"
        /\ stage' \in [Calls -> StageNames] /\ step' \in [Calls -> 0 .. 2]
    BY <1>1, <1>2, <2>1, <2>2 DEF StageNames
  <2>4. \A d \in Calls \ {c} : Still(d)
    BY <1>1, <2>1 DEF Still
  <2>5. InOrder(c)'
    <3>1. \A k \in 1 .. Steps(c) :
              /\ k < step[c] + 1 => OK(c, k) \in posted /\ answer[<<c, k>>] # NoMsg
              /\ answer[<<c, k>>] # NoMsg => k < step[c] + 1
      BY <1>1, <1>2, <2>1 DEF InOrder
    <3> QED BY <2>1, <2>2, <2>3, <3>1 DEF InOrder, Going
  <2> QED BY <1>1, <2>1, <2>2, <2>3, <2>4, <2>5
<1>4. ASSUME NEW st \in {"half", "waiting"},
             stage[c] \in Going,
             stage' = [stage EXCEPT ![c] = st], asked \subseteq asked', asked' \subseteq Requests,
             UNCHANGED <<step, outcome, answer, reader, hand>>
      PROVE  /\ stage' \in [Calls -> StageNames] /\ \A d \in Calls \ {c} : Still(d)
             /\ InOrder(c)'
  <2>1. stage'[c] = st /\ stage' \in [Calls -> StageNames]
    BY <1>1, <1>4 DEF StageNames
  <2>2. \A d \in Calls \ {c} : Still(d)
    BY <1>1, <1>4 DEF Still
  <2>3. step[c] \in 1 .. Steps(c) /\ outcome[c] = "none"
    BY <1>1, <1>2, <1>4 DEF InOrder, Going, OutcomeNames
  <2>4. \A k \in 1 .. Steps(c) :
            /\ k < step[c] => OK(c, k) \in posted /\ answer[<<c, k>>] # NoMsg
            /\ answer[<<c, k>>] # NoMsg => k < step[c]
    BY <1>2, <1>4 DEF InOrder, Going
  <2> QED BY <1>4, <2>1, <2>2, <2>3, <2>4 DEF InOrder, Going
<1>5. ASSUME NEW how \in {"failed", "expired"}, Returns(c, how), stage[c] \in Going,
             UNCHANGED <<step, answer, asked, reader, hand>>
      PROVE  /\ stage' \in [Calls -> StageNames] /\ outcome' \in [Calls -> OutcomeNames]
             /\ \A d \in Calls \ {c} : Still(d)
             /\ outcome'[c] = how /\ InOrder(c)'
  <2>1. /\ stage'[c] = "done" /\ stage' \in [Calls -> StageNames]
        /\ outcome'[c] = how /\ outcome' \in [Calls -> OutcomeNames]
    BY <1>1, <1>5 DEF StageNames, OutcomeNames, Returns, Moves
  <2>2. \A d \in Calls \ {c} : Still(d)
    BY <1>1, <1>5 DEF Still, Returns, Moves
  <2>3. \A k \in 1 .. Steps(c) :
            /\ k < step[c] => OK(c, k) \in posted /\ answer[<<c, k>>] # NoMsg
            /\ answer[<<c, k>>] # NoMsg => k < step[c]
    BY <1>2, <1>5 DEF InOrder, Going
  <2> QED BY <1>5, <2>1, <2>2, <2>3 DEF InOrder, Going
<1>6. CASE SendsHeader(c)
  BY <1>1, <1>4, <1>6 DEF SendsHeader, Moves, Going, readVars
<1>7. CASE SendsBody(c)
  <2>1. <<c, step[c]>> \in Requests
    BY <1>2, <1>7, RequestIs DEF SendsBody, InOrder, Going
  <2> QED BY <1>1, <1>4, <1>7, <2>1 DEF SendsBody, Moves, Going, readVars
<1>8. CASE SendFails(c)
  BY <1>1, <1>5, <1>8 DEF SendFails, Going, readVars
<1>9. CASE Cancelled(c)
  BY <1>1, <1>5, <1>9 DEF Cancelled, Going, readVars
<1>10. CASE Expires(c)
  BY <1>1, <1>5, <1>10 DEF Expires, Going, readVars
<1> QED BY <1>3, <1>6, <1>7, <1>8, <1>9, <1>10 DEF CallStep

\* A message that the gateway posted is what its type says.
LEMMA PostedIs ==
    ASSUME NEW m \in Messages
    PROVE  /\ m.type = "ok" => <<m.of, m.nr>> \in Requests /\ m = OK(m.of, m.nr)
           /\ m.type = "refused" => <<m.of, m.nr>> \in Requests /\ m = Refusal(m.of, m.nr)
           /\ m.type = "note" => m.of \in Notes /\ m = Note(m.of)
           /\ m # NoMsg
<1>1. CASE m \in {OK(q[1], q[2]) : q \in Requests} \cup {Refusal(q[1], q[2]) : q \in Requests}
  BY <1>1, RequestIs DEF OK, Refusal, Message, NoMsg
<1>2. CASE m \in {Note(n) : n \in Notes}
  BY <1>2 DEF Note, Message, NoMsg
<1> QED BY <1>1, <1>2 DEF Messages

\* The message the read loop deals with was posted, and is a note or an answer.
LEMMA HandIs ==
    ASSUME CallTypes, CallOrder, InOnePlace
    PROVE  /\ reader \in {"ack", "ackHalf", "feeding"} => hand \in posted /\ hand \in Messages
           /\ reader \in {"ack", "ackHalf"} =>
                  /\ hand.of \in Notes /\ hand = Note(hand.of)
                  /\ CallbackOf[hand.of] \in Calls /\ stage[CallbackOf[hand.of]] = "idle"
           /\ reader = "feeding" => hand.type \in {"ok", "refused"}
<1>1. hand \in OnItsWay /\ posted \subseteq Messages
  BY DEF OnItsWay, CallTypes, TypeOK
<1>2. reader \in {"ack", "ackHalf", "feeding"} => hand \in posted /\ hand \in Messages
  BY <1>1 DEF CallOrder, InOnePlace
<1>3. reader \in {"ack", "ackHalf"} => hand.of \in Notes /\ hand = Note(hand.of)
  BY <1>2, PostedIs DEF CallOrder
<1>4. ASSUME reader \in {"ack", "ackHalf"} PROVE stage[CallbackOf[hand.of]] = "idle"
  BY <1>1, <1>3, <1>4 DEF InOnePlace
<1> QED BY <1>2, <1>3, <1>4, CallbackAssumption DEF CallOrder

\* An answer ends one request of the call that waits for it.
LEMMA FeedIs ==
    ASSUME CallTypes, CallOrder, InOnePlace, OkMeansAccepted, NEW c \in Calls, Feeds(c), posted' = posted
    PROVE  /\ stage' \in [Calls -> StageNames] /\ outcome' \in [Calls -> OutcomeNames]
           /\ answer' \in [Requests -> Messages \cup {NoMsg}]
           /\ \A d \in Calls \ {c} : Still(d)
           /\ InOrder(c)'
           /\ outcome'[c] = "ok" => \A k \in 1 .. Steps(c) : OK(c, k) \in posted
<1>1. /\ stage \in [Calls -> StageNames] /\ step \in [Calls -> 0 .. 2] /\ step[c] \in 0 .. Steps(c)
      /\ outcome \in [Calls -> OutcomeNames] /\ answer \in [Requests -> Messages \cup {NoMsg}]
  BY DEF CallTypes, TypeOK, NamingTypeOK, StageNames, OutcomeNames
<1>2. InOrder(c) /\ Steps(c) \in {1, 2}
  BY RequestIs DEF CallOrder
<1>3. /\ reader = "feeding" /\ hand.of = c /\ hand.nr = step[c] /\ stage[c] = "waiting"
      /\ answer' = [answer EXCEPT ![<<c, step[c]>>] = hand] /\ step' = step
  BY DEF Feeds, Fed, Relates
<1>4. /\ hand \in Messages /\ hand \in posted /\ hand # NoMsg
      /\ hand.type = "ok" => hand = OK(c, step[c])
  BY <1>3, HandIs, PostedIs
<1>5. step[c] \in 1 .. Steps(c) /\ outcome[c] = "none" /\ <<c, step[c]>> \in Requests
  BY <1>1, <1>2, <1>3, RequestIs DEF InOrder, Going, OutcomeNames
<1>6. /\ answer' \in [Requests -> Messages \cup {NoMsg}]
      /\ answer'[<<c, step[c]>>] = hand
      /\ \A q \in Requests : q # <<c, step[c]>> => answer'[q] = answer[q]
  BY <1>1, <1>3, <1>4, <1>5
<1>7. \A k \in 1 .. Steps(c) : k # step[c] => answer'[<<c, k>>] = answer[<<c, k>>]
  BY <1>6, RequestIs
<1>8. \A k \in 1 .. Steps(c) :
          /\ k < step[c] => OK(c, k) \in posted /\ answer[<<c, k>>] # NoMsg
          /\ answer[<<c, k>>] # NoMsg => k < step[c]
  BY <1>2, <1>3 DEF InOrder, Going
<1>9. \/ /\ stage' = [stage EXCEPT ![c] = "next"] /\ outcome' = outcome
         /\ hand.type = "ok" /\ step[c] < Steps(c)
      \/ /\ stage' = [stage EXCEPT ![c] = "done"]
         /\ \E how \in {"ok", "panic", "refused"} :
                outcome' = [outcome EXCEPT ![c] = how] /\ (how = "ok" => hand.type = "ok" /\ step[c] = Steps(c))
  <2>1. Verdict(c, hand) \in {"ok", "panic", "refused"} /\ (Verdict(c, hand) = "ok" <=> hand.type = "ok")
    BY <1>3, HandIs DEF Verdict
  <2>2. step[c] < Steps(c) \/ step[c] = Steps(c)
    BY <1>1, <1>2
  <2> QED BY <2>1, <2>2 DEF Feeds, Moves, Returns
<1>10. \A d \in Calls \ {c} : \A k \in 1 .. Steps(d) : answer'[<<d, k>>] = answer[<<d, k>>]
  BY <1>6, RequestIs
<1>11. /\ stage' \in [Calls -> StageNames] /\ outcome' \in [Calls -> OutcomeNames]
       /\ stage'[c] \in {"next", "done"}
       /\ stage'[c] = "next" => hand.type = "ok" /\ step[c] < Steps(c) /\ outcome'[c] = "none"
       /\ outcome'[c] = "ok" => hand.type = "ok" /\ step[c] = Steps(c)
       /\ \A d \in Calls \ {c} : stage'[d] = stage[d] /\ outcome'[d] = outcome[d]
  BY <1>1, <1>5, <1>9 DEF StageNames, OutcomeNames
<1>12. \A d \in Calls \ {c} : Still(d)
  BY <1>3, <1>10, <1>11 DEF Still
<1>13. InOrder(c)'
  <2>1. ASSUME NEW k \in 1 .. Steps(c)
        PROVE  /\ k < step[c] \/ (k = step[c] /\ stage'[c] = "next") =>
                      OK(c, k) \in posted /\ answer'[<<c, k>>] # NoMsg
               /\ answer'[<<c, k>>] # NoMsg => k < step[c] \/ (k = step[c] /\ stage'[c] \in {"next", "done"})
    <3>1. CASE k = step[c]
      <4>1. ~(k < step[c])
        BY <1>5, <3>1
      <4> QED BY <3>1, <4>1, <1>4, <1>6, <1>11
    <3>2. CASE k # step[c]
      BY <3>2, <1>7, <1>8
    <3> QED BY <3>1, <3>2
  <2>2. stage'[c] = "next" => step[c] \in 1 .. Steps(c) - 1
    BY <1>5, <1>2, <1>11
  <2> QED BY <1>3, <1>11, <2>1, <2>2 DEF InOrder, Going
<1>14. ASSUME outcome'[c] = "ok", NEW k \in 1 .. Steps(c) PROVE OK(c, k) \in posted
  <2>1. hand = OK(c, step[c]) /\ step[c] = Steps(c)
    BY <1>4, <1>11, <1>14
  <2>2. k = step[c] \/ k < step[c]
    BY <1>2, <2>1
  <2> QED BY <1>4, <1>8, <2>1, <2>2
<1> QED BY <1>6, <1>11, <1>12, <1>13, <1>14

\* The other steps of the read loop start a callback, or leave the calls alone.
LEMMA ReadStepIs ==
    ASSUME CallTypes, CallOrder, InOnePlace, ReadStep, \A c \in Calls : ~Feeds(c)
    PROVE  /\ step' = step /\ outcome' = outcome /\ answer' = answer /\ asked' = asked
           /\ \/ stage' = stage
              \/ \E c \in Calls : /\ stage[c] = "idle" /\ stage' = [stage EXCEPT ![c] = "spawned"]
                                  /\ reader \in {"ack", "ackHalf"} /\ c = CallbackOf[hand.of]
                                  /\ hand' = NoMsg /\ EndsAck
           /\ reader' \in {"tapping", "failed", "reading", "feeding", "ack", "ackHalf", "exited"}
           /\ reader' \in {"ack", "ackHalf"} => hand'.type = "note"
           /\ reader' = "feeding" => hand'.type \in {"ok", "refused"}
           /\ reader' \notin {"ack", "ackHalf", "feeding"} => hand' = NoMsg
<1>1. CASE TapClient \/ ReadsOther
  BY <1>1 DEF TapClient, ReadsOther, ReadsMessage, namingVars, callVars, readVars, CallOrder, CallTypes,
      TypeOK, NamingTypeOK
<1>2. CASE Greet \/ ConnectFails \/ LeavesLoop \/ SendsAckHeader
  BY <1>2 DEF Greet, ConnectFails, LeavesLoop, SendsAckHeader, callVars, CallOrder
<1>3. CASE ReadsReply \/ ReadsNote
  BY <1>3 DEF ReadsReply, ReadsNote, ReadsMessage, callVars, Awaited
<1>4. CASE EndsAck
  <2>1. CallbackOf[hand.of] \in Calls /\ stage[CallbackOf[hand.of]] = "idle" /\ reader \in {"ack", "ackHalf"}
    BY <1>4, HandIs DEF EndsAck
  <2> QED BY <1>4, <2>1 DEF EndsAck, Moves
<1> QED BY <1>1, <1>2, <1>3, <1>4 DEF ReadStep

LEMMA CallsKept ==
    ASSUME CallTypes, CallOrder, InOnePlace, OkMeansAccepted, [Next]_vars
    PROVE  /\ NamingTypeOK' /\ step' \in [Calls -> 0 .. 2] /\ outcome' \in [Calls -> OutcomeNames]
           /\ answer' \in [Requests -> Messages \cup {NoMsg}]
           /\ asked \subseteq asked'
           /\ CallOrder' /\ OkMeansAccepted'
<1>1. /\ stage \in [Calls -> StageNames] /\ step \in [Calls -> 0 .. 2] /\ \A c \in Calls : step[c] \in 0 .. Steps(c)
      /\ outcome \in [Calls -> OutcomeNames] /\ answer \in [Requests -> Messages \cup {NoMsg}]
      /\ asked \subseteq Requests
      /\ reader \in {"tapping", "failed", "reading", "feeding", "ack", "ackHalf", "exited"}
  BY DEF CallTypes, TypeOK, NamingTypeOK, StageNames, OutcomeNames
<1>2. posted \subseteq posted'
  BY ClientSteps
<1>3. \A c \in Calls : InOrder(c)
  BY DEF CallOrder
<1> USE DEF StageNames, OutcomeNames
<1>4. CASE UNCHANGED namingVars
  <2>1. \A c \in Calls : Still(c)
    BY <1>4 DEF Still, namingVars
  <2>2. \A c \in Calls : InOrder(c)'
    BY <1>2, <1>3, <2>1, StillInOrder
  <2>3. CallOrder'
    BY <1>4, <2>2 DEF CallOrder, namingVars
  <2>4. OkMeansAccepted'
    BY <1>2, <1>4 DEF OkMeansAccepted, namingVars
  <2> QED BY <1>1, <1>4, <2>3, <2>4 DEF NamingTypeOK, namingVars
<1>5. ASSUME NEW c \in Calls, CallStep(c), posted' = posted
      PROVE  /\ NamingTypeOK' /\ step' \in [Calls -> 0 .. 2] /\ outcome' \in [Calls -> OutcomeNames]
             /\ answer' = answer /\ asked \subseteq asked' /\ CallOrder' /\ OkMeansAccepted'
  <2>1. /\ stage' \in [Calls -> StageNames] /\ step' \in [Calls -> 0 .. 2]
        /\ outcome' \in [Calls -> OutcomeNames] /\ answer' = answer
        /\ asked \subseteq asked' /\ asked' \subseteq Requests
        /\ \A d \in Calls \ {c} : Still(d)
        /\ reader' = reader /\ hand' = hand
        /\ step'[c] \in 0 .. Steps(c)
        /\ outcome'[c] = outcome[c] \/ outcome'[c] \in {"failed", "expired"}
        /\ InOrder(c)'
    BY <1>5, CallStepIs
  <2>2. \A d \in Calls : InOrder(d)'
    BY <1>2, <1>3, <2>1, StillInOrder
  <2>3. CallOrder'
    BY <2>1, <2>2 DEF CallOrder
  <2>4. OkMeansAccepted'
    BY <1>5, <2>1 DEF OkMeansAccepted, Still
  <2>5. \A d \in Calls : step'[d] \in 0 .. Steps(d)
    BY <1>1, <2>1 DEF Still
  <2> QED BY <1>1, <2>1, <2>3, <2>4, <2>5 DEF NamingTypeOK
<1>6. ASSUME NEW c \in Calls, Feeds(c), posted' = posted
      PROVE  /\ NamingTypeOK' /\ step' = step /\ outcome' \in [Calls -> OutcomeNames]
             /\ answer' \in [Requests -> Messages \cup {NoMsg}]
             /\ asked' = asked /\ CallOrder' /\ OkMeansAccepted'
  <2>1. /\ stage' \in [Calls -> StageNames] /\ outcome' \in [Calls -> OutcomeNames]
        /\ answer' \in [Requests -> Messages \cup {NoMsg}]
        /\ \A d \in Calls \ {c} : Still(d)
        /\ InOrder(c)'
        /\ outcome'[c] = "ok" => \A k \in 1 .. Steps(c) : OK(c, k) \in posted
    BY <1>6, FeedIs
  <2>2. step' = step /\ asked' = asked /\ reader' = "reading" /\ hand' = NoMsg
    BY <1>6 DEF Feeds
  <2>3. CallOrder'
    <3>1. \A d \in Calls : InOrder(d)'
      BY <1>2, <1>3, <2>1, StillInOrder
    <3> QED BY <2>2, <3>1 DEF CallOrder
  <2>4. OkMeansAccepted'
    BY <1>6, <2>1 DEF OkMeansAccepted, Still
  <2> QED BY <1>1, <2>1, <2>2, <2>3, <2>4 DEF NamingTypeOK
<1>7. ASSUME ReadStep, \A c \in Calls : ~Feeds(c), posted' = posted
      PROVE  /\ NamingTypeOK' /\ step' = step /\ outcome' = outcome /\ answer' = answer
             /\ asked' = asked /\ CallOrder' /\ OkMeansAccepted'
  <2>1. /\ step' = step /\ outcome' = outcome /\ answer' = answer /\ asked' = asked
        /\ \/ stage' = stage
           \/ \E c \in Calls : stage[c] = "idle" /\ stage' = [stage EXCEPT ![c] = "spawned"]
        /\ reader' \in {"tapping", "failed", "reading", "feeding", "ack", "ackHalf", "exited"}
        /\ reader' \in {"ack", "ackHalf"} => hand'.type = "note"
        /\ reader' = "feeding" => hand'.type \in {"ok", "refused"}
        /\ reader' \notin {"ack", "ackHalf", "feeding"} => hand' = NoMsg
    BY <1>7, ReadStepIs
  <2>2. stage' \in [Calls -> StageNames]
    BY <1>1, <2>1
  <2>3. \A d \in Calls : InOrder(d)'
    <3>1. CASE stage' = stage
      <4>1. \A d \in Calls : Still(d)
        BY <2>1, <3>1 DEF Still
      <4> QED BY <1>2, <1>3, <4>1, StillInOrder
    <3>2. ASSUME NEW c \in Calls, stage[c] = "idle", stage' = [stage EXCEPT ![c] = "spawned"]
          PROVE  \A d \in Calls : InOrder(d)'
      <4>1. stage'[c] = "spawned" /\ \A d \in Calls \ {c} : Still(d)
        BY <1>1, <2>1, <3>2 DEF Still
      <4>2. InOrder(c)'
        BY <1>3, <1>7, <2>1, <3>2, <4>1 DEF InOrder, Going
      <4> QED BY <1>2, <1>3, <4>1, <4>2, StillInOrder
    <3> QED BY <2>1, <3>1, <3>2
  <2>4. CallOrder'
    BY <2>1, <2>3 DEF CallOrder
  <2>5. OkMeansAccepted'
    BY <1>7, <2>1 DEF OkMeansAccepted
  <2> QED BY <1>1, <2>1, <2>2, <2>4, <2>5 DEF NamingTypeOK
<1>8. UNCHANGED <<piperVars, gatewayVars>> => posted' = posted
  BY DEF gatewayVars
<1> QED BY <1>1, <1>4, <1>5, <1>6, <1>7, <1>8, ClientSteps

-----------------------------------------------------------------------------
(* Writers.                                                                *)

\* Who changes the headers that the client has begun.
BegunStep ==
    \/ begun' = begun
    \/ \E c \in Calls : SendsHeader(c) /\ begun'["client"] = begun["client"] \cup {Req(c, step[c])}
    \/ \E c \in Calls : /\ SendsBody(c) \/ SendFails(c)
                        /\ begun'["client"] = begun["client"] \ {Req(c, step[c])}
    \/ SendsAckHeader /\ begun'["client"] = begun["client"] \cup {Ack(hand.of)}
    \/ EndsAck /\ begun'["client"] = begun["client"] \ {Ack(hand.of)}

LEMMA BegunSteps == WireTypes /\ [Next]_vars => BegunStep
<1> SUFFICES ASSUME WireTypes, [Next]_vars PROVE BegunStep
  OBVIOUS
<1>0. "client" \in DOMAIN begun
  BY DEF WireTypes, Ends
<1>1. CASE Client(Connect)
  BY <1>1 DEF BegunStep, Client, Connect, TapClient, Greet, ConnectFails, Handshake, SendFlight, ReadFlight,
      WriteFrame, streamVars
<1>2. CASE Client(Wait)
  <2>1. CASE ReadsReply \/ ReadsNote \/ ReadsOther \/ LeavesLoop \/ \E c \in Calls : Feeds(c)
    BY <2>1 DEF BegunStep, ReadsReply, ReadsNote, ReadsOther, ReadsMessage, NextFrame, LeavesLoop, Feeds, Shut
  <2>2. CASE SendsAckHeader
    BY <1>0, <2>2 DEF BegunStep, SendsAckHeader, WriteHeader
  <2>3. CASE EndsAck
    BY <1>0, <2>3 DEF BegunStep, EndsAck, WriteBody, WriteFails
  <2> QED BY <1>2, <2>1, <2>2, <2>3 DEF Client, Wait
<1>3. CASE Client(Closes)
  BY <1>3 DEF BegunStep, Client, Closes, Shut
<1>4. ASSUME NEW c \in Calls, Client(UserCalls(c)) \/ Client(Call(c)) \/ Client(Expires(c))
      PROVE  BegunStep
  <2>1. CASE UserCalls(c) \/ GoesOn(c) \/ Cancelled(c) \/ Expires(c)
    BY <2>1 DEF BegunStep, UserCalls, GoesOn, Begin, Cancelled, Expires, streamVars
  <2>2. CASE SendsHeader(c)
    BY <1>0, <2>2 DEF BegunStep, SendsHeader, WriteHeader
  <2>3. CASE SendsBody(c) \/ SendFails(c)
    BY <1>0, <2>3 DEF BegunStep, SendsBody, SendFails, WriteBody, WriteFails
  <2> QED BY <1>4, <2>1, <2>2, <2>3 DEF Client, Call
<1>5. CASE Pipe(Handle)
  BY <1>5 DEF BegunStep, Pipe, Handle, ReadFirst, TapDown, GreetClient, FindUpstream, GreetUpstream, PassFirst,
      SetupReturns, PipeReturns, Handshake, SendFlight, ReadFlight, NextFrame, WriteFrame, Shut, streamVars
<1>6. ASSUME NEW e \in Sides, Pipe(Copy(e)) PROVE BegunStep
  BY <1>6 DEF BegunStep, Pipe, Copy, CopyReads, CopyWrites, CopyFails, CopyReports, NextFrame, WriteFrame, streamVars
<1>7. CASE Gateway \/ GatewayLeaves \/ (\E n \in Notes : GatewayNotifies(n)) \/ Misreads \/ UNCHANGED vars
  BY <1>7 DEF BegunStep, Gateway, GatewayReads, GatewayAnswers, GatewaySends, GatewayLeaves, GatewayNotifies, Misreads,
      Misread, Skip, NextFrame, WriteFrame, Shut, vars, streamVars
<1> QED BY <1>1, <1>2, <1>3, <1>4, <1>5, <1>6, <1>7 DEF Next

\* A call in the middle of a frame, or an acknowledgement, got there by writing
\* the header.
LEMMA HalvesAre ==
    ASSUME CallTypes, CallOrder, Writers, InOnePlace, OkMeansAccepted, [Next]_vars
    PROVE  /\ \A d \in Calls : stage'[d] = "half" =>
                  step'[d] = step[d] /\ (stage[d] = "half" \/ SendsHeader(d))
           /\ reader' = "ackHalf" => hand' = hand /\ (reader = "ackHalf" \/ SendsAckHeader)
           /\ reader' \notin {"tapping", "failed"} => reader \notin {"tapping", "failed"} \/ Greet
           /\ reader' \in {"tapping", "failed"} => reader \in {"tapping", "failed"} /\ stage' = stage
<1>0. stage \in [Calls -> StageNames]
  BY DEF CallTypes, TypeOK, NamingTypeOK, StageNames
<1>1. CASE UNCHANGED namingVars
  BY <1>1 DEF namingVars
<1>2. ASSUME NEW c \in Calls, CallStep(c), posted' = posted
      PROVE  /\ \A d \in Calls : stage'[d] = "half" =>
                    step'[d] = step[d] /\ (stage[d] = "half" \/ SendsHeader(d))
             /\ reader' = reader /\ hand' = hand
             /\ reader \notin {"tapping", "failed"}
  <2>1. /\ reader' = reader /\ hand' = hand /\ \A d \in Calls \ {c} : Still(d)
    BY <1>2, CallStepIs
  <2>2. stage'[c] = "half" => step'[c] = step[c] /\ SendsHeader(c)
    BY <1>0, <1>2 DEF CallStep, UserCalls, GoesOn, Begin, SendsBody, SendFails, Cancelled, Expires, Returns, Moves,
        SendsHeader
  <2>3. reader \notin {"tapping", "failed"}
    BY <1>2 DEF CallStep, UserCalls, GoesOn, Begin, SendsHeader, SendsBody, SendFails, Cancelled, Expires, Writers
  <2> QED BY <2>1, <2>2, <2>3 DEF Still
<1>3. ASSUME NEW c \in Calls, Feeds(c), posted' = posted
      PROVE  /\ \A d \in Calls : stage'[d] = "half" => step'[d] = step[d] /\ stage[d] = "half"
             /\ reader' = "reading" /\ reader = "feeding"
  <2>1. \A d \in Calls \ {c} : Still(d)
    BY <1>3, FeedIs
  <2>2. reader' = "reading" /\ reader = "feeding" /\ stage'[c] # "half"
    BY <1>0, <1>3 DEF Feeds, Fed, Moves, Returns
  <2> QED BY <2>1, <2>2 DEF Still
<1>4. ASSUME ReadStep, \A c \in Calls : ~Feeds(c)
      PROVE  /\ \A d \in Calls : stage'[d] = "half" => step'[d] = step[d] /\ stage[d] = "half"
             /\ reader' = "ackHalf" => hand' = hand /\ (reader = "ackHalf" \/ SendsAckHeader)
             /\ reader' \notin {"tapping", "failed"} => reader \notin {"tapping", "failed"} \/ Greet
             /\ reader' \in {"tapping", "failed"} => reader \in {"tapping", "failed"} /\ stage' = stage
  <2>1. \A d \in Calls : stage'[d] = "half" => step'[d] = step[d] /\ stage[d] = "half"
    <3>1. /\ step' = step
          /\ stage' = stage \/ \E c \in Calls : stage' = [stage EXCEPT ![c] = "spawned"]
      BY <1>4, ReadStepIs
    <3> QED BY <1>0, <3>1
  <2>2. CASE TapClient \/ ReadsOther
    BY <2>1, <2>2 DEF TapClient, ReadsOther, ReadsMessage, namingVars, callVars, readVars
  <2>3. CASE Greet \/ ConnectFails \/ LeavesLoop \/ SendsAckHeader
    BY <2>1, <2>3 DEF Greet, ConnectFails, LeavesLoop, SendsAckHeader, callVars
  <2>4. CASE ReadsReply \/ ReadsNote \/ EndsAck
    BY <2>1, <2>4 DEF ReadsReply, ReadsNote, EndsAck, ReadsMessage
  <2> QED BY <1>4, <2>2, <2>3, <2>4 DEF ReadStep
<1>5. UNCHANGED <<piperVars, gatewayVars>> => posted' = posted
  BY DEF gatewayVars
<1> QED BY <1>1, <1>2, <1>3, <1>4, <1>5, ClientSteps

LEMMA WritersKept ==
    ASSUME WireTypes, CallTypes, CallOrder, Writers, InOnePlace, OkMeansAccepted, OnlyFailedSetupLeaks,
           [Next]_vars
    PROVE  Writers'
<1>0. \A e \in Ends : Tapped(e) => Tapped(e)'
  BY StreamSteps, StreamGrows
<1>1. "client" \in Ends /\ "down" \in Ends
  BY DEF Ends
<1>2. /\ \A d \in Calls : stage'[d] = "half" =>
             step'[d] = step[d] /\ (stage[d] = "half" \/ SendsHeader(d))
      /\ reader' = "ackHalf" => hand' = hand /\ (reader = "ackHalf" \/ SendsAckHeader)
      /\ reader' \notin {"tapping", "failed"} => reader \notin {"tapping", "failed"} \/ Greet
      /\ reader' \in {"tapping", "failed"} => reader \in {"tapping", "failed"} /\ stage' = stage
  BY HalvesAre
<1>3. BegunStep
  BY BegunSteps
<1>4. reader' \notin {"tapping", "failed"} => Tapped("client")'
  <2>1. Greet => Tapped("client")
    BY DEF Greet
  <2> QED BY <1>0, <1>1, <1>2, <2>1 DEF Writers
<1>5. handler' \in {"find", "tapUp", "forward", "piping"} =>
          Tapped("down") /\ (handler \in {"find", "tapUp", "forward", "piping"} \/ handler = "tap")
  <2>1. CASE Pipe(Handle)
    BY <2>1 DEF Writers, Pipe, Handle, ReadFirst, TapDown, GreetClient, FindUpstream, GreetUpstream, PassFirst,
        SetupReturns, PipeReturns, Goes, piperVars
  <2>2. ASSUME NEW e \in Sides, Pipe(Copy(e)) PROVE handler' = handler
    BY <2>2 DEF Pipe, Copy, CopyReads, CopyWrites, CopyFails, CopyReports
  <2>3. [Next]_vars /\ ~Pipe(Handle) /\ (\A e \in Sides : ~Pipe(Copy(e))) => handler' = handler
    BY DEF Next, Client, Gateway, GatewayReads, GatewayAnswers, GatewaySends, GatewayLeaves, GatewayNotifies,
        Misreads, piperVars, vars
  <2> QED BY <2>1, <2>2, <2>3 DEF Writers
<1>6. ASSUME NEW e \in Sides, copier'[e] # "off" PROVE Tapped("down") /\ handler' \in {"piping", "done"}
  <2>1. handler' \in {"piping", "done"}
    BY <1>6, PiperStep
  <2>2. copier[e] # "off" \/ PassFirst
    <3>1. copier \in [Sides -> {"off", "reading", "writing", "failed", "ended"}]
      BY DEF CallTypes, TypeOK, PiperTypeOK
    <3>2. CASE Pipe(Handle)
      BY <1>6, <3>2 DEF Pipe, Handle, ReadFirst, TapDown, GreetClient, FindUpstream, GreetUpstream, PassFirst,
          SetupReturns, PipeReturns, copyVars, piperVars
    <3>3. ASSUME NEW f \in Sides, Pipe(Copy(f)) PROVE copier[e] # "off"
      BY <1>6, <3>1, <3>3 DEF Pipe, Copy, CopyReads, CopyWrites, CopyFails, CopyReports, CopyTo
    <3>4. [Next]_vars /\ ~Pipe(Handle) /\ (\A f \in Sides : ~Pipe(Copy(f))) => copier' = copier
      BY DEF Next, Client, Gateway, GatewayReads, GatewayAnswers, GatewaySends, GatewayLeaves, GatewayNotifies,
          Misreads, piperVars, vars
    <3> QED BY <1>6, <3>2, <3>3, <3>4
  <2> QED BY <2>1, <2>2 DEF Writers, PassFirst, Goes
<1>7. ASSUME reader' \in {"tapping", "failed"}
      PROVE  begun'["client"] = {} /\ \A c \in Calls : stage'[c] = "idle"
  <2>1. begun["client"] = {} /\ \A c \in Calls : stage[c] = "idle"
    BY <1>2, <1>7 DEF Writers
  <2>2. ~SendsAckHeader /\ ~EndsAck
    BY <1>2, <1>7 DEF SendsAckHeader, EndsAck
  <2>3. \A c \in Calls : ~SendsHeader(c) /\ ~SendsBody(c) /\ ~SendFails(c)
    BY <2>1 DEF SendsHeader, SendsBody, SendFails
  <2> QED BY <1>2, <1>3, <1>7, <2>1, <2>2, <2>3 DEF BegunStep
<1>8. \A c, d \in Calls : c # d => Req(c, step[c]) # Req(d, step[d])
  BY RequestIs
<1>9. \A c \in Calls : Req(c, step[c]) # Ack(hand.of)
  <2>1. ASSUME NEW c \in Calls PROVE Req(c, step[c]).type = "req" /\ Ack(hand.of).type = "ack"
    BY RequestIs
  <2> QED BY <2>1
<1>10. ASSUME NEW d \in Calls, stage'[d] = "half" PROVE Req(d, step'[d]) \in begun'["client"]
  <2>1. step'[d] = step[d] /\ (stage[d] = "half" \/ SendsHeader(d))
    BY <1>2, <1>10
  <2>2. ~SendsBody(d) /\ ~SendFails(d)
    <3>1. stage \in [Calls -> StageNames]
      BY DEF CallTypes, TypeOK, NamingTypeOK, StageNames
    <3> QED BY <1>10, <3>1 DEF SendsBody, SendFails, Returns, Moves
  <2>3. CASE SendsHeader(d)
    <3>1. begun'["client"] = begun["client"] \cup {Req(d, step[d])}
      BY <2>3 DEF SendsHeader, WriteHeader, WireTypes, Ends
    <3> QED BY <2>1, <3>1
  <2>4. CASE stage[d] = "half"
    <3>1. Req(d, step[d]) \in begun["client"]
      BY <2>4 DEF Writers
    <3> QED BY <1>3, <1>8, <1>9, <2>1, <2>2, <3>1 DEF BegunStep
  <2> QED BY <2>1, <2>3, <2>4
<1>11. ASSUME reader' = "ackHalf" PROVE Ack(hand'.of) \in begun'["client"]
  <2>1. hand' = hand /\ (reader = "ackHalf" \/ SendsAckHeader) /\ ~EndsAck
    BY <1>2, <1>11 DEF EndsAck
  <2>2. CASE SendsAckHeader
    <3>1. begun'["client"] = begun["client"] \cup {Ack(hand.of)}
      BY <2>2 DEF SendsAckHeader, WriteHeader, WireTypes, Ends
    <3> QED BY <2>1, <3>1
  <2>3. CASE reader = "ackHalf"
    <3>1. Ack(hand.of) \in begun["client"]
      BY <2>3 DEF Writers
    <3> QED BY <1>3, <1>9, <2>1, <3>1 DEF BegunStep
  <2> QED BY <2>1, <2>2, <2>3
<1>12. /\ handler' \in {"find", "tapUp", "forward", "piping"} => Tapped("down")'
       /\ \A e \in Sides : copier'[e] # "off" => Tapped("down")' /\ handler' \in {"piping", "done"}
  BY <1>0, <1>1, <1>5, <1>6
<1> QED BY <1>4, <1>7, <1>10, <1>11, <1>12 DEF Writers

-----------------------------------------------------------------------------
(* Where the messages are.                                                 *)

LEMMA BodiesFlow ==
    ASSUME NEW s \in Seq(Chunks), NEW t \in Seq(Chunks)
    PROVE  /\ \A m : FrameAdded(s, t, m) => BodiesOn(t) \subseteq BodiesOn(s) \cup {m}
           /\ \A c : ChunkAdded(s, t, c) =>
                  \A m \in BodiesOn(t) : m \in BodiesOn(s) \/ (c.part = "body" /\ m = c.msg)
           /\ \A m : FrameTaken(s, t, m) => BodiesOn(t) \subseteq BodiesOn(s) /\ m \in BodiesOn(s)
           /\ \A c : ChunkTaken(s, t, c) => BodiesOn(t) \subseteq BodiesOn(s)
<1>1. ASSUME NEW m, FrameAdded(s, t, m) PROVE BodiesOn(t) \subseteq BodiesOn(s) \cup {m}
  <2>1. PICK n \in Nat :
            /\ Len(s) = n /\ Len(t) = n + 2
            /\ \A i \in 1 .. n : t[i] = s[i]
            /\ t[n + 1] = Chunk("header", m) /\ t[n + 2] = Chunk("body", m)
    BY <1>1 DEF FrameAdded
  <2>2. t[n + 1].msg = m /\ t[n + 2].msg = m
    BY <2>1 DEF Chunk
  <2>3. Len(s) = n /\ Len(t) = n + 2 /\ (\A i \in 1 .. n : t[i] = s[i])
        /\ \A i \in 1 .. n + 2 : i \in 1 .. n \/ i = n + 1 \/ i = n + 2
    BY <2>1
  <2> QED BY <2>2, <2>3 DEF BodiesOn
<1>2. ASSUME NEW c, ChunkAdded(s, t, c), NEW m \in BodiesOn(t)
      PROVE  m \in BodiesOn(s) \/ (c.part = "body" /\ m = c.msg)
  <2>1. PICK n \in Nat :
            /\ Len(s) = n /\ Len(t) = n + 1 /\ \A i \in 1 .. n : t[i] = s[i]
            /\ t[n + 1] = c
    BY <1>2 DEF ChunkAdded
  <2>2. \A i \in 1 .. n + 1 : i \in 1 .. n \/ i = n + 1
    BY <2>1
  <2>3. PICK i \in 1 .. n + 1 : t[i].part = "body" /\ m = t[i].msg
    BY <1>2, <2>1 DEF BodiesOn
  <2>4. CASE i \in 1 .. n
    <3>1. t[i] = s[i] /\ i \in 1 .. Len(s)
      BY <2>1, <2>4
    <3> QED BY <2>3, <3>1 DEF BodiesOn
  <2>5. CASE i = n + 1
    BY <2>1, <2>3, <2>5
  <2> QED BY <2>2, <2>4, <2>5
<1>3. ASSUME NEW n \in Nat, NEW d \in {1, 2}, Len(s) = n + d, Len(t) = n, \A i \in 1 .. n : t[i] = s[i + d]
      PROVE  BodiesOn(t) \subseteq BodiesOn(s)
  <2> SUFFICES ASSUME NEW i \in 1 .. n, t[i].part = "body" PROVE t[i].msg \in BodiesOn(s)
    BY <1>3 DEF BodiesOn
  <2>1. i + d \in 1 .. n + d
    OBVIOUS
  <2> QED BY <1>3, <2>1 DEF BodiesOn
<1>4. ASSUME NEW m, FrameTaken(s, t, m) PROVE BodiesOn(t) \subseteq BodiesOn(s) /\ m \in BodiesOn(s)
  <2>1. PICK n \in Nat :
            /\ Len(s) = n + 2 /\ Len(t) = n /\ \A i \in 1 .. n : t[i] = s[i + 2]
            /\ s[1] = Chunk("header", m) /\ s[2] = Chunk("body", m)
    BY <1>4 DEF FrameTaken
  <2>2. BodiesOn(t) \subseteq BodiesOn(s)
    BY <1>3, <2>1
  <2>3. s[2].part = "body" /\ s[2].msg = m /\ 2 \in 1 .. n + 2
    BY <2>1 DEF Chunk
  <2>4. m \in BodiesOn(s)
    BY <2>1, <2>3 DEF BodiesOn
  <2> QED BY <2>2, <2>4
<1>5. ASSUME NEW c, ChunkTaken(s, t, c) PROVE BodiesOn(t) \subseteq BodiesOn(s)
  BY <1>3, <1>5 DEF ChunkTaken
<1> QED BY <1>1, <1>2, <1>4, <1>5

\* A change of a wire that adds no request, answer or notification.
Quiet(s, t) ==
    /\ \A m \in MsgsOn(t) : m \in MsgsOn(s) \/ m.type \in {"init", "flight"}
    /\ \A m \in BodiesOn(t) : m \in BodiesOn(s) \/ m.type \in {"init", "flight"}
    /\ Once(s) => Once(t)

LEMMA QuietSteps ==
    ASSUME WireTypes, NEW f \in Ends,
           \/ NextFrame(f)
           \/ Skip(f) /\ wire[f] # <<>>
           \/ f \in Tunnelled /\ Handshake(f)
           \/ \E who \in {"client", "piper"} : WriteFrame(f, Greeting(who))
           \/ wire' = wire
    PROVE  \A e \in Ends : Quiet(wire[e], wire'[e])
<1>1. \A e \in Ends : wire[e] \in Seq(Chunks) /\ PeerOf(e) \in Ends
  BY Ends4 DEF WireTypes
<1>2. \A e \in Ends : wire'[e] = wire[e] => Quiet(wire[e], wire'[e])
  BY DEF Quiet
<1>3. CASE NextFrame(f)
  <2>1. /\ wire' \in [Ends -> Seq(Chunks)] /\ FrameTaken(wire[f], wire'[f], NextMessage(f))
        /\ \A e \in Ends \ {f} : wire'[e] = wire[e]
    BY <1>3, NextFrameIs
  <2>2. Quiet(wire[f], wire'[f])
    BY <1>1, <2>1, FrameOffKeeps, BodiesFlow DEF Quiet
  <2> QED BY <1>2, <2>1, <2>2
<1>4. ASSUME wire[f] # <<>>, wire' = [wire EXCEPT ![f] = Tail(@)] PROVE \A e \in Ends : Quiet(wire[e], wire'[e])
  <2>1. /\ wire' \in [Ends -> Seq(Chunks)] /\ ChunkTaken(wire[f], wire'[f], wire[f][1])
        /\ \A e \in Ends \ {f} : wire'[e] = wire[e]
    BY <1>4, TailIs
  <2>2. Quiet(wire[f], wire'[f])
    BY <1>1, <2>1, ChunkOffKeeps, BodiesFlow DEF Quiet
  <2> QED BY <1>2, <2>1, <2>2
<1>5. CASE Skip(f) /\ wire[f] # <<>>
  BY <1>4, <1>5 DEF Skip
<1>6. CASE f \in Tunnelled /\ ReadFlight(f)
  BY <1>4, <1>6, ReadFlightIs
<1>7. CASE f \in Tunnelled /\ SendFlight(f)
  <2>1. PICK c : c = Chunk("flight", Flight(flight[f] + 1))
    OBVIOUS
  <2>2. c \in Chunks /\ wire' = [wire EXCEPT ![PeerOf(f)] = Append(@, c)]
    BY <1>7, <2>1, SendFlightIs
  <2>3. /\ wire' \in [Ends -> Seq(Chunks)] /\ ChunkAdded(wire[PeerOf(f)], wire'[PeerOf(f)], c)
        /\ \A e \in Ends \ {PeerOf(f)} : wire'[e] = wire[e]
    BY <2>2, WriteChunkIs
  <2>4. c.part = "flight" /\ c.msg.type = "flight" /\ c.msg \notin Messages
    BY <2>1, <2>2, ChunkTypes DEF Chunk
  <2>5. Quiet(wire[PeerOf(f)], wire'[PeerOf(f)])
    <3>1. /\ MsgsOn(wire'[PeerOf(f)]) = MsgsOn(wire[PeerOf(f)]) \cup {c.msg}
          /\ Once(wire[PeerOf(f)]) => Once(wire'[PeerOf(f)])
      BY <1>1, <2>3, <2>4, ChunkOnKeeps
    <3>2. \A m \in BodiesOn(wire'[PeerOf(f)]) : m \in BodiesOn(wire[PeerOf(f)])
      BY <1>1, <2>3, <2>4, BodiesFlow
    <3> QED BY <2>4, <3>1, <3>2 DEF Quiet
  <2> QED BY <1>2, <2>3, <2>5
<1>8. ASSUME NEW who \in {"client", "piper"}, WriteFrame(f, Greeting(who))
      PROVE  \A e \in Ends : Quiet(wire[e], wire'[e])
  <2>1. Greeting(who) \in Carried /\ Greeting(who) \notin Messages /\ Greeting(who).type = "init"
    BY CarriedMsgs DEF Greeting, Message
  <2>2. /\ wire' \in [Ends -> Seq(Chunks)] /\ FrameAdded(wire[PeerOf(f)], wire'[PeerOf(f)], Greeting(who))
        /\ \A e \in Ends \ {PeerOf(f)} : wire'[e] = wire[e]
    BY <1>8, <2>1, WriteFrameIs
  <2>3. Quiet(wire[PeerOf(f)], wire'[PeerOf(f)])
    BY <1>1, <2>1, <2>2, FrameOnKeeps, BodiesFlow DEF Quiet
  <2> QED BY <1>2, <2>2, <2>3
<1> QED BY <1>2, <1>3, <1>5, <1>6, <1>7, <1>8 DEF Handshake

\* How the gateway's messages travel: posted onto "up", through the piper onto
\* "client", into the hand of the read loop; any may be dropped on its way.
MessageFlow ==
    \/ /\ Quiet(wire["up"], wire'["up"]) /\ Quiet(wire["client"], wire'["client"])
       /\ carry'["up"] \in {carry["up"], NoMsg} /\ hand' \in {hand, NoMsg} /\ posted' = posted
    \/ \E m \in Messages \ posted :
           /\ FrameAdded(wire["up"], wire'["up"], m) /\ posted' = posted \cup {m}
           /\ wire'["client"] = wire["client"] /\ carry'["up"] = carry["up"] /\ hand' = hand
    \/ /\ FrameTaken(wire["up"], wire'["up"], carry'["up"])
       /\ wire'["client"] = wire["client"] /\ hand' = hand /\ posted' = posted
    \/ /\ FrameAdded(wire["client"], wire'["client"], carry["up"]) /\ carry'["up"] = NoMsg
       /\ wire'["up"] = wire["up"] /\ hand' = hand /\ posted' = posted
    \/ /\ FrameTaken(wire["client"], wire'["client"], hand')
       /\ wire'["up"] = wire["up"] /\ carry'["up"] = carry["up"] /\ posted' = posted

\* How the requests travel the other way.
RequestFlow ==
    /\ \A m \in Mentioned' : m \in Mentioned \/ m.type # "req" \/ <<m.of, m.nr>> \in asked'
    /\ \A q \in heard' \ heard : \E m \in Mentioned : m.type = "req" /\ q = <<m.of, m.nr>>

LEMMA QuietFlow ==
    ASSUME WireTypes, \A e \in Ends : Quiet(wire[e], wire'[e]),
           carry'["up"] \in {carry["up"], NoMsg}, hand' \in {hand, NoMsg}, posted' = posted,
           carry'["down"] \in Mentioned \cup {NoMsg},
           \A q \in heard' \ heard : \E m \in Mentioned : m.type = "req" /\ q = <<m.of, m.nr>>
    PROVE  MessageFlow /\ RequestFlow
<1>1. MessageFlow
  BY DEF MessageFlow, Ends
<1>2. NoMsg.type # "req"
  BY DEF NoMsg, Message
<1>3. ASSUME NEW m \in Mentioned' PROVE m \in Mentioned \/ m.type # "req"
  <2>1. CASE m \in BodiesOn(wire'["down"]) \cup MsgsOn(wire'["gateway"])
    <3>1. m \in BodiesOn(wire["down"]) \cup MsgsOn(wire["gateway"]) \/ m.type \in {"init", "flight"}
      BY <2>1 DEF Quiet, Ends
    <3> QED BY <3>1 DEF Mentioned
  <2>2. CASE m = carry'["down"]
    BY <1>2, <2>2
  <2> QED BY <1>3, <2>1, <2>2 DEF Mentioned
<1> QED BY <1>1, <1>3 DEF RequestFlow

\* A frame of the client that is written in two halves.
LEMMA HalfFlow ==
    ASSUME WireTypes, NEW m \in Carried,
           \/ WriteHeader("client", m)
           \/ WriteBody("client", m) /\ (m.type = "req" => <<m.of, m.nr>> \in asked')
           \/ wire' = wire,
           carry' = carry, hand' \in {hand, NoMsg}, posted' = posted, heard' = heard
    PROVE  MessageFlow /\ RequestFlow
<1>1. /\ "client" \in Ends /\ PeerOf("client") = "down"
      /\ Chunk("header", m) \in Chunks /\ Chunk("body", m) \in Chunks
      /\ wire["down"] \in Seq(Chunks)
  BY Ends4, ChunkTypes DEF Ends, WireTypes
<1>2. /\ wire' \in [Ends -> Seq(Chunks)]
      /\ \A f \in Ends \ {"down"} : wire'[f] = wire[f]
      /\ \A x \in BodiesOn(wire'["down"]) :
             x \in BodiesOn(wire["down"]) \/ x.type # "req" \/ <<x.of, x.nr>> \in asked'
  <2>1. CASE WriteHeader("client", m)
    <3>1. Write("client", <<Chunk("header", m)>>) /\ Chunk("header", m).part # "body"
      BY <2>1 DEF WriteHeader, Chunk
    <3>2. /\ wire' \in [Ends -> Seq(Chunks)]
          /\ ChunkAdded(wire["down"], wire'["down"], Chunk("header", m))
          /\ \A f \in Ends \ {"down"} : wire'[f] = wire[f]
      BY <1>1, <3>1, WriteChunkIs
    <3>3. wire'["down"] \in Seq(Chunks)
      BY <3>2 DEF Ends
    <3>4. BodiesOn(wire'["down"]) \subseteq BodiesOn(wire["down"])
      BY <1>1, <3>1, <3>2, <3>3, BodiesFlow
    <3> QED BY <3>2, <3>4
  <2>2. CASE WriteBody("client", m) /\ (m.type = "req" => <<m.of, m.nr>> \in asked')
    <3>1. Write("client", <<Chunk("body", m)>>) /\ Chunk("body", m).msg = m
      BY <2>2 DEF WriteBody, Chunk
    <3>2. /\ wire' \in [Ends -> Seq(Chunks)]
          /\ ChunkAdded(wire["down"], wire'["down"], Chunk("body", m))
          /\ \A f \in Ends \ {"down"} : wire'[f] = wire[f]
      BY <1>1, <3>1, WriteChunkIs
    <3>3. wire'["down"] \in Seq(Chunks)
      BY <3>2 DEF Ends
    <3>4. BodiesOn(wire'["down"]) \subseteq BodiesOn(wire["down"]) \cup {m}
      BY <1>1, <3>1, <3>2, <3>3, BodiesFlow
    <3> QED BY <2>2, <3>2, <3>4
  <2>3. CASE wire' = wire
    BY <2>3 DEF WireTypes
  <2> QED BY <2>1, <2>2, <2>3
<1>3. wire'["up"] = wire["up"] /\ wire'["client"] = wire["client"] /\ wire'["gateway"] = wire["gateway"]
  BY <1>2 DEF Ends
<1>4. MessageFlow
  BY <1>3 DEF MessageFlow, Quiet
<1>5. RequestFlow
  BY <1>2, <1>3 DEF RequestFlow, Mentioned
<1> QED BY <1>4, <1>5

LEMMA Flows ==
    ASSUME WireTypes, CallTypes, Writers, CallOrder, [Next]_vars
    PROVE  MessageFlow /\ RequestFlow
<1>0. /\ \A e \in Ends : wire[e] \in Seq(Chunks) /\ PeerOf(e) \in Ends
      /\ Ends = {"client", "down", "up", "gateway"} /\ Sides = {"down", "up"} /\ Tunnelled = {"client", "down"}
      /\ carry \in [Sides -> Carried] /\ hand \in Carried /\ NoMsg \in Carried
      /\ carry["down"] \in Mentioned /\ posted \subseteq Messages
  BY Ends4, CarriedMsgs DEF WireTypes, Ends, Sides, Tunnelled, Mentioned, CallTypes, TypeOK
<1>1. CASE Client(Connect)
  <2>1. UNCHANGED <<carry, heard, posted>>
    BY <1>1 DEF Client, piperVars, gatewayVars
  <2>2. CASE TapClient
    <3>1. Handshake("client") /\ hand' = hand
      BY <2>2 DEF TapClient, namingVars
    <3>2. \A e \in Ends : Quiet(wire[e], wire'[e])
      BY <1>0, <3>1, QuietSteps
    <3> QED BY <1>0, <2>1, <3>1, <3>2, QuietFlow
  <2>3. CASE Greet
    <3>1. WriteFrame("client", Greeting("client")) /\ hand' = hand
      BY <2>3 DEF Greet
    <3>2. \A e \in Ends : Quiet(wire[e], wire'[e])
      BY <1>0, <3>1, QuietSteps
    <3> QED BY <1>0, <2>1, <3>1, <3>2, QuietFlow
  <2>4. CASE ConnectFails
    <3>1. wire' = wire /\ hand' = hand
      BY <2>4 DEF ConnectFails, streamVars
    <3> QED BY <1>0, <2>1, <3>1, HalfFlow
  <2> QED BY <1>1, <2>2, <2>3, <2>4 DEF Client, Connect
<1>2. CASE Client(Wait)
  <2>1. UNCHANGED <<carry, heard, posted>>
    BY <1>2 DEF Client, piperVars, gatewayVars
  <2>2. CASE ReadsReply \/ ReadsNote
    <3>1. NextFrame("client") /\ hand' = NextMessage("client")
      BY <2>2 DEF ReadsReply, ReadsNote, ReadsMessage
    <3>2. /\ FrameTaken(wire["client"], wire'["client"], hand')
          /\ \A e \in Ends \ {"client"} : wire'[e] = wire[e]
      BY <1>0, <3>1, NextFrameIs
    <3>3. MessageFlow
      BY <1>0, <2>1, <3>2 DEF MessageFlow
    <3>4. RequestFlow
      BY <1>0, <2>1, <3>2 DEF RequestFlow, Mentioned
    <3> QED BY <3>3, <3>4
  <2>3. CASE ReadsOther
    <3>1. NextFrame("client") /\ hand' = hand
      BY <2>3 DEF ReadsOther, ReadsMessage, readVars
    <3>2. \A e \in Ends : Quiet(wire[e], wire'[e])
      BY <1>0, <3>1, QuietSteps
    <3> QED BY <1>0, <2>1, <3>1, <3>2, QuietFlow
  <2>4. CASE LeavesLoop \/ \E c \in Calls : Feeds(c)
    <3>1. wire' = wire /\ hand' \in {hand, NoMsg}
      BY <2>4 DEF LeavesLoop, Feeds, Shut
    <3> QED BY <1>0, <2>1, <3>1, HalfFlow
  <2>5. CASE SendsAckHeader \/ EndsAck
    <3>1. Ack(hand.of) \in Carried /\ Ack(hand.of).type # "req"
      BY <1>0, CarriedMsgs, RequestIs
    <3>2. /\ hand' \in {hand, NoMsg}
          /\ WriteHeader("client", Ack(hand.of)) \/ WriteBody("client", Ack(hand.of)) \/ wire' = wire
      BY <2>5 DEF SendsAckHeader, EndsAck, WriteFails
    <3> QED BY <2>1, <3>1, <3>2, HalfFlow
  <2> QED BY <1>2, <2>2, <2>3, <2>4, <2>5 DEF Client, Wait
<1>3. CASE Client(Closes)
  <2>1. wire' = wire /\ UNCHANGED <<carry, heard, posted, hand>>
    BY <1>3 DEF Client, Closes, Shut, piperVars, gatewayVars, namingVars
  <2> QED BY <1>0, <2>1, HalfFlow
<1>4. ASSUME NEW c \in Calls, Client(UserCalls(c)) \/ Client(Call(c)) \/ Client(Expires(c))
      PROVE  MessageFlow /\ RequestFlow
  <2>1. UNCHANGED <<carry, heard, posted>>
    BY <1>4 DEF Client, piperVars, gatewayVars
  <2>2. CASE UserCalls(c) \/ GoesOn(c) \/ Cancelled(c) \/ Expires(c) \/ SendFails(c)
    <3>1. wire' = wire /\ hand' = hand
      BY <2>2 DEF UserCalls, GoesOn, Begin, Cancelled, Expires, SendFails, WriteFails, streamVars, readVars
    <3> QED BY <1>0, <2>1, <3>1, HalfFlow
  <2>3. CASE SendsHeader(c) \/ SendsBody(c)
    <3>1. /\ Req(c, step[c]) \in Carried /\ Req(c, step[c]).of = c /\ Req(c, step[c]).nr = step[c]
      BY CarriedMsgs, RequestIs DEF CallTypes
    <3>2. /\ hand' = hand
          /\ \/ WriteHeader("client", Req(c, step[c]))
             \/ WriteBody("client", Req(c, step[c])) /\ <<c, step[c]>> \in asked'
      BY <2>3 DEF SendsHeader, SendsBody, readVars
    <3> QED BY <2>1, <3>1, <3>2, HalfFlow
  <2> QED BY <1>4, <2>2, <2>3 DEF Client, Call
<1>5. CASE Pipe(Handle)
  <2>1. UNCHANGED <<hand, heard, posted, carry>>
    BY <1>5 DEF Pipe, namingVars, gatewayVars, Handle, ReadFirst, TapDown, GreetClient, FindUpstream,
        GreetUpstream, PassFirst, SetupReturns, PipeReturns, copyVars, piperVars
  <2>2. \A e \in Ends : Quiet(wire[e], wire'[e])
    <3>1. CASE ReadFirst \/ TapDown
      <4>1. NextFrame("down") \/ Handshake("down")
        BY <3>1 DEF ReadFirst, TapDown, Handshake
      <4> QED BY <1>0, <4>1, QuietSteps
    <3>2. CASE GreetClient
      <4>1. WriteFrame("down", Greeting("piper"))
        BY <3>2 DEF GreetClient
      <4> QED BY <1>0, <4>1, QuietSteps
    <3>3. CASE GreetUpstream
      <4>1. WriteFrame("up", Greeting("piper"))
        BY <3>3 DEF GreetUpstream
      <4> QED BY <1>0, <4>1, QuietSteps
    <3>4. CASE PassFirst
      <4>1. WriteFrame("up", Greeting("client")) \/ wire' = wire
        BY <3>4 DEF PassFirst, streamVars
      <4> QED BY <1>0, <4>1, QuietSteps
    <3>5. CASE FindUpstream \/ SetupReturns \/ PipeReturns
      <4>1. wire' = wire
        BY <3>5 DEF FindUpstream, SetupReturns, PipeReturns, Shut, streamVars
      <4> QED BY <1>0, <4>1, QuietSteps
    <3> QED BY <1>5, <3>1, <3>2, <3>3, <3>4, <3>5 DEF Pipe, Handle
  <2> QED BY <1>0, <2>1, <2>2, QuietFlow
<1>6. ASSUME NEW e \in Sides, Pipe(Copy(e)) PROVE MessageFlow /\ RequestFlow
  <2>1. UNCHANGED <<hand, heard, posted>>
    BY <1>6 DEF Pipe, namingVars, gatewayVars
  <2>2. CASE CopyReads(e)
    <3>1. /\ NextFrame(e)
          /\ carry' = carry \/ carry' = [carry EXCEPT ![e] = NextMessage(e)]
      BY <2>2 DEF CopyReads
    <3>2. \A f \in Ends : Quiet(wire[f], wire'[f])
      BY <1>0, <3>1, QuietSteps
    <3>3. /\ FrameTaken(wire[e], wire'[e], NextMessage(e)) /\ NextMessage(e) \in Carried
          /\ wire' \in [Ends -> Seq(Chunks)]
          /\ \A f \in Ends \ {e} : wire'[f] = wire[f]
      BY <1>0, <3>1, NextFrameIs
    <3>4. CASE carry' = carry
      BY <1>0, <2>1, <3>2, <3>4, QuietFlow
    <3>5. CASE e = "down" /\ carry' = [carry EXCEPT ![e] = NextMessage(e)]
      <4>1. carry'["up"] = carry["up"] /\ carry'["down"] = NextMessage("down")
        BY <1>0, <3>5
      <4>2. NextMessage("down") \in BodiesOn(wire["down"])
        BY <1>0, <3>3, <3>5, BodiesFlow
      <4>3. carry'["down"] \in Mentioned
        BY <4>1, <4>2 DEF Mentioned
      <4> QED BY <2>1, <3>2, <4>1, <4>3, QuietFlow
    <3>6. CASE e = "up" /\ carry' = [carry EXCEPT ![e] = NextMessage(e)]
      <4>1. carry'["up"] = NextMessage("up") /\ carry'["down"] = carry["down"]
        BY <1>0, <3>6
      <4>2. MessageFlow
        BY <1>0, <2>1, <3>3, <3>6, <4>1 DEF MessageFlow
      <4>3. RequestFlow
        BY <1>0, <2>1, <3>3, <3>6, <4>1 DEF RequestFlow, Mentioned
      <4> QED BY <4>2, <4>3
    <3> QED BY <1>0, <3>1, <3>4, <3>5, <3>6
  <2>3. CASE CopyWrites(e)
    <3>1. WriteFrame(Across(e), carry[e]) /\ carry' = [carry EXCEPT ![e] = NoMsg]
      BY <2>3 DEF CopyWrites
    <3>2. Across(e) \in Ends /\ carry[e] \in Carried /\ NoMsg.type # "req"
      BY <1>0 DEF Across, NoMsg, Message
    <3>3. /\ FrameAdded(wire[PeerOf(Across(e))], wire'[PeerOf(Across(e))], carry[e])
          /\ \A f \in Ends \ {PeerOf(Across(e))} : wire'[f] = wire[f]
          /\ wire' \in [Ends -> Seq(Chunks)]
      BY <3>1, <3>2, WriteFrameIs
    <3>4. CASE e = "down"
      <4>1. PeerOf(Across(e)) = "gateway"
        BY <3>4 DEF Across, PeerOf
      <4>2. carry'["up"] = carry["up"] /\ carry'["down"] = NoMsg
        BY <1>0, <3>1, <3>4
      <4>3. MessageFlow
        BY <1>0, <2>1, <3>3, <4>1, <4>2 DEF MessageFlow, Quiet
      <4>4. MsgsOn(wire'["gateway"]) = MsgsOn(wire["gateway"]) \cup {carry["down"]}
        BY <1>0, <3>3, <3>4, <4>1, FrameOnKeeps
      <4>5. wire'["down"] = wire["down"]
        BY <1>0, <3>3, <4>1
      <4>6. RequestFlow
        BY <2>1, <3>2, <4>2, <4>4, <4>5 DEF RequestFlow, Mentioned
      <4> QED BY <4>3, <4>6
    <3>5. CASE e = "up"
      <4>1. PeerOf(Across(e)) = "client"
        BY <3>5 DEF Across, PeerOf
      <4>2. carry'["up"] = NoMsg /\ carry'["down"] = carry["down"]
        BY <1>0, <3>1, <3>5
      <4>3. MessageFlow
        BY <1>0, <2>1, <3>3, <3>5, <4>1, <4>2 DEF MessageFlow
      <4>4. RequestFlow
        BY <1>0, <2>1, <3>3, <4>1, <4>2 DEF RequestFlow, Mentioned
      <4> QED BY <4>3, <4>4
    <3> QED BY <1>0, <3>4, <3>5
  <2>4. CASE CopyFails(e) \/ CopyReports(e)
    <3>1. wire' = wire /\ (carry' = carry \/ carry' = [carry EXCEPT ![e] = NoMsg])
      BY <2>4 DEF CopyFails, CopyReports, streamVars
    <3>2. \A f \in Ends : Quiet(wire[f], wire'[f])
      BY <1>0, <3>1, QuietSteps
    <3>3. carry'["up"] \in {carry["up"], NoMsg} /\ carry'["down"] \in {carry["down"], NoMsg}
      BY <1>0, <3>1
    <3> QED BY <1>0, <2>1, <3>2, <3>3, QuietFlow
  <2> QED BY <1>6, <2>2, <2>3, <2>4 DEF Pipe, Copy
<1>7. CASE GatewayReads
  <2>1. NextFrame("gateway") /\ UNCHANGED <<carry, hand, posted>>
    BY <1>7 DEF GatewayReads, piperVars, namingVars
  <2>2. \A e \in Ends : Quiet(wire[e], wire'[e])
    BY <1>0, <2>1, QuietSteps
  <2>3. FrameTaken(wire["gateway"], wire'["gateway"], NextMessage("gateway")) /\ wire' \in [Ends -> Seq(Chunks)]
    BY <1>0, <2>1, NextFrameIs
  <2>4. NextMessage("gateway") \in Mentioned
    <3>1. NextMessage("gateway") \in MsgsOn(wire["gateway"])
      BY <1>0, <2>3, FrameOffKeeps
    <3> QED BY <3>1 DEF Mentioned
  <2>5. \A q \in heard' \ heard : \E m \in Mentioned : m.type = "req" /\ q = <<m.of, m.nr>>
    BY <1>7, <2>4 DEF GatewayReads
  <2> QED BY <1>0, <2>1, <2>2, <2>5, QuietFlow
<1>8. ASSUME NEW m \in Messages, GatewaySends(m) PROVE MessageFlow /\ RequestFlow
  <2>1. /\ m \notin posted /\ posted' = posted \cup {m} /\ UNCHANGED <<carry, hand, heard>>
        /\ WriteFrame("gateway", m) /\ m \in Carried
    BY <1>8, CarriedMsgs DEF GatewaySends, piperVars, namingVars
  <2>2. PeerOf("gateway") = "up"
    BY Ends4
  <2>3. /\ FrameAdded(wire["up"], wire'["up"], m)
        /\ \A f \in Ends \ {"up"} : wire'[f] = wire[f]
    BY <1>0, <2>1, <2>2, WriteFrameIs
  <2>4. MessageFlow
    BY <1>0, <2>1, <2>3 DEF MessageFlow
  <2>5. RequestFlow
    BY <1>0, <2>1, <2>3 DEF RequestFlow, Mentioned
  <2> QED BY <2>4, <2>5
<1>9. \A q \in Requests : OK(q[1], q[2]) \in Messages /\ Refusal(q[1], q[2]) \in Messages
  BY DEF Messages
<1>10. \A n \in Notes : Note(n) \in Messages
  BY DEF Messages
<1>11. CASE Gateway \/ \E n \in Notes : GatewayNotifies(n)
  BY <1>7, <1>8, <1>9, <1>10, <1>11 DEF Gateway, GatewayAnswers, GatewayNotifies
<1>12. CASE GatewayLeaves \/ UNCHANGED vars
  <2>1. wire' = wire /\ UNCHANGED <<carry, hand, heard, posted>>
    BY <1>12 DEF GatewayLeaves, Shut, vars, streamVars, piperVars, namingVars, gatewayVars
  <2> QED BY <1>0, <2>1, HalfFlow
<1>13. CASE Misreads
  <2>1. PICK e \in Sides \cup {"client"} : Misframed(e) /\ Skip(e)
    BY <1>13 DEF Misreads, Misread
  <2>2. e \in Ends /\ wire[e] # <<>>
    BY <1>0, <2>1, MisframedIsSome
  <2>3. \A f \in Ends : Quiet(wire[f], wire'[f])
    BY <2>1, <2>2, QuietSteps
  <2>4. UNCHANGED <<carry, hand, heard, posted>>
    BY <1>13 DEF Misreads, piperVars, namingVars, gatewayVars
  <2> QED BY <1>0, <2>3, <2>4, QuietFlow
<1> QED BY <1>1, <1>2, <1>3, <1>4, <1>5, <1>6, <1>11, <1>12, <1>13 DEF Next

LEMMA HeardKept ==
    ASSUME Heard, RequestFlow, asked \subseteq asked'
    PROVE  Heard'
  BY DEF Heard, RequestFlow

LEMMA WayIs ==
    ASSUME WireTypes, WireTypes'
    PROVE  /\ OnItsWay = {hand, carry["up"]} \cup MsgsOn(wire["up"]) \cup MsgsOn(wire["client"])
           /\ OnItsWay' = {hand', carry'["up"]} \cup MsgsOn(wire'["up"]) \cup MsgsOn(wire'["client"])
<1>1. ASSUME NEW s \in Seq(Chunks) PROVE {s[i].msg : i \in DOMAIN s} = MsgsOn(s)
  BY <1>1 DEF MsgsOn
<1>2. /\ wire["up"] \in Seq(Chunks) /\ wire["client"] \in Seq(Chunks)
      /\ wire'["up"] \in Seq(Chunks) /\ wire'["client"] \in Seq(Chunks)
  BY DEF WireTypes, Ends
<1>3. /\ UNION {{wire[e][i].msg : i \in DOMAIN wire[e]} : e \in {"up", "client"}}
             = MsgsOn(wire["up"]) \cup MsgsOn(wire["client"])
      /\ UNION {{wire'[e][i].msg : i \in DOMAIN wire'[e]} : e \in {"up", "client"}}
             = MsgsOn(wire'["up"]) \cup MsgsOn(wire'["client"])
  BY <1>1, <1>2
<1> QED BY <1>3 DEF OnItsWay

\* Each message the gateway posted stays in one place, and comes from there.
LEMMA FlowKept ==
    ASSUME WireTypes, WireTypes', CallTypes, InOnePlace, MessageFlow
    PROVE  /\ Once(wire'["up"]) /\ Once(wire'["client"])
           /\ Apart(MsgsOn(wire'["up"]), MsgsOn(wire'["client"]))
           /\ Apart(MsgsOn(wire'["up"]) \cup MsgsOn(wire'["client"]), {carry'["up"], hand'})
           /\ Apart({carry'["up"]}, {hand'})
           /\ \A m \in OnItsWay' : m.type \in {"ok", "refused", "note"} => m \in posted'
           /\ OnItsWay' \cap Messages \subseteq OnItsWay \cup (posted' \ posted)
           /\ posted \subseteq posted' /\ posted' \subseteq Messages
<1> DEFINE U == wire["up"]  C == wire["client"]  x == carry["up"]  h == hand
           V == wire'["up"] D == wire'["client"] y == carry'["up"] g == hand'
<1>0. /\ U \in Seq(Chunks) /\ C \in Seq(Chunks) /\ V \in Seq(Chunks) /\ D \in Seq(Chunks)
      /\ posted \subseteq Messages /\ NoMsg \notin Messages
      /\ NoMsg.type = "none"
      /\ \A m \in Messages : m.type \in {"ok", "refused", "note"}
  BY ChunkTypes, CarriedMsgs DEF WireTypes, Ends, CallTypes, TypeOK, NoMsg, Message
<1>1. /\ OnItsWay = {h, x} \cup MsgsOn(U) \cup MsgsOn(C)
      /\ OnItsWay' = {g, y} \cup MsgsOn(V) \cup MsgsOn(D)
  BY WayIs
<1>2. /\ Once(U) /\ Once(C)
      /\ Apart(MsgsOn(U), MsgsOn(C))
      /\ Apart(MsgsOn(U) \cup MsgsOn(C), {x, h})
      /\ Apart({x}, {h})
      /\ \A m \in OnItsWay : m.type \in {"ok", "refused", "note"} => m \in posted
  BY DEF InOnePlace
<1> DEFINE Goal == /\ Once(V) /\ Once(D)
                   /\ Apart(MsgsOn(V), MsgsOn(D))
                   /\ Apart(MsgsOn(V) \cup MsgsOn(D), {y, g})
                   /\ Apart({y}, {g})
                   /\ \A m \in OnItsWay' : m.type \in {"ok", "refused", "note"} => m \in posted'
                   /\ OnItsWay' \cap Messages \subseteq OnItsWay \cup (posted' \ posted)
                   /\ posted \subseteq posted' /\ posted' \subseteq Messages
<1> SUFFICES Goal
  OBVIOUS
<1> HIDE DEF U, C, x, h, V, D, y, g
<1> USE DEF Apart
<1>3. CASE Quiet(U, V) /\ Quiet(C, D) /\ y \in {x, NoMsg} /\ g \in {h, NoMsg} /\ posted' = posted
  <2>1. /\ \A m \in MsgsOn(V) : m \in MsgsOn(U) \/ m.type \in {"init", "flight"}
        /\ \A m \in MsgsOn(D) : m \in MsgsOn(C) \/ m.type \in {"init", "flight"}
        /\ Once(V) /\ Once(D)
    BY <1>2, <1>3 DEF Quiet
  <2>2. /\ MsgsOn(V) \cap Messages \subseteq MsgsOn(U)
        /\ MsgsOn(D) \cap Messages \subseteq MsgsOn(C)
        /\ {y} \cap Messages \subseteq {x} /\ {g} \cap Messages \subseteq {h}
    BY <1>0, <1>3, <2>1
  <2>3. \A m \in OnItsWay' : m.type \in {"ok", "refused", "note"} => m \in OnItsWay
    BY <1>0, <1>1, <1>3, <2>1
  <2>4. OnItsWay' \cap Messages \subseteq OnItsWay
    BY <1>0, <2>3
  <2>5. \A m \in OnItsWay' : m.type \in {"ok", "refused", "note"} => m \in posted'
    BY <1>2, <1>3, <2>3
  <2>6. /\ Apart(MsgsOn(V), MsgsOn(D))
        /\ Apart(MsgsOn(V) \cup MsgsOn(D), {y, g})
        /\ Apart({y}, {g})
    BY <1>2, <2>2
  <2> QED BY <1>0, <1>3, <2>1, <2>4, <2>5, <2>6
<1>4. ASSUME NEW m \in Messages \ posted, FrameAdded(U, V, m), posted' = posted \cup {m}, D = C, y = x, g = h
      PROVE  Goal
  <2>1. m \notin OnItsWay
    BY <1>0, <1>2, <1>4
  <2>2. MsgsOn(V) = MsgsOn(U) \cup {m} /\ Once(V)
    BY <1>0, <1>1, <1>2, <1>4, <2>1, FrameOnKeeps
  <2>3. OnItsWay' = OnItsWay \cup {m}
    BY <1>1, <1>4, <2>2
  <2>4. /\ Apart(MsgsOn(V), MsgsOn(D))
        /\ Apart(MsgsOn(V) \cup MsgsOn(D), {y, g})
    BY <1>1, <1>2, <1>4, <2>1, <2>2
  <2> QED BY <1>0, <1>2, <1>4, <2>2, <2>3, <2>4
<1>5. CASE FrameTaken(U, V, y) /\ D = C /\ g = h /\ posted' = posted
  <2>1. /\ MsgsOn(V) \subseteq MsgsOn(U) /\ y \in MsgsOn(U)
        /\ Once(V) /\ (y \in Messages => y \notin MsgsOn(V))
    BY <1>0, <1>2, <1>5, FrameOffKeeps
  <2>2. OnItsWay' \subseteq OnItsWay
    BY <1>1, <1>5, <2>1
  <2>3. /\ Apart(MsgsOn(V), MsgsOn(D))
        /\ Apart(MsgsOn(V) \cup MsgsOn(D), {y, g})
        /\ Apart({y}, {g})
    BY <1>2, <1>5, <2>1
  <2> QED BY <1>0, <1>2, <1>5, <2>1, <2>2, <2>3
<1>6. CASE FrameAdded(C, D, x) /\ y = NoMsg /\ V = U /\ g = h /\ posted' = posted
  <2>1. MsgsOn(D) = MsgsOn(C) \cup {x} /\ Once(D)
    <3>1. x \notin Messages \/ x \notin MsgsOn(C)
      BY <1>2
    <3> QED BY <1>0, <1>2, <1>6, <3>1, FrameOnKeeps
  <2>2. OnItsWay' \subseteq OnItsWay \cup {NoMsg}
    BY <1>1, <1>6, <2>1
  <2>3. /\ Apart(MsgsOn(V), MsgsOn(D))
        /\ Apart(MsgsOn(V) \cup MsgsOn(D), {y, g})
        /\ Apart({y}, {g})
    BY <1>0, <1>2, <1>6, <2>1
  <2> QED BY <1>0, <1>2, <1>6, <2>1, <2>2, <2>3
<1>7. CASE FrameTaken(C, D, g) /\ V = U /\ y = x /\ posted' = posted
  <2>1. /\ MsgsOn(D) \subseteq MsgsOn(C) /\ g \in MsgsOn(C)
        /\ Once(D) /\ (g \in Messages => g \notin MsgsOn(D))
    BY <1>0, <1>2, <1>7, FrameOffKeeps
  <2>2. OnItsWay' \subseteq OnItsWay
    BY <1>1, <1>7, <2>1
  <2>3. /\ Apart(MsgsOn(V), MsgsOn(D))
        /\ Apart(MsgsOn(V) \cup MsgsOn(D), {y, g})
        /\ Apart({y}, {g})
    BY <1>2, <1>7, <2>1
  <2> QED BY <1>0, <1>2, <1>7, <2>1, <2>2, <2>3
<1> QED BY <1>3, <1>4, <1>5, <1>6, <1>7 DEF MessageFlow, U, C, x, h, V, D, y, g

\* An acknowledgement leaves the other stream and the client's own wire alone.
LEMMA AckLeaves ==
    ASSUME WireTypes, EndsAck
    PROVE  wire'["up"] = wire["up"] /\ wire'["client"] = wire["client"]
<1>1. /\ "client" \in Ends /\ PeerOf("client") = "down" /\ Ack(hand.of) \in Carried
  BY Ends4, CarriedMsgs DEF Ends, WireTypes
<1>2. Chunk("body", Ack(hand.of)) \in Chunks
  BY <1>1, ChunkTypes
<1>3. CASE Write("client", <<Chunk("body", Ack(hand.of))>>)
  <2>1. \A f \in Ends \ {"down"} : wire'[f] = wire[f]
    BY <1>1, <1>2, <1>3, WriteChunkIs
  <2> QED BY <2>1 DEF Ends
<1>4. CASE wire' = wire
  BY <1>4
<1> QED BY <1>3, <1>4 DEF EndsAck, WriteBody, WriteFails

\* A callback's call leaves "idle" when its notification is acknowledged.
LEMMA SpawnIs ==
    ASSUME CallTypes, CallOrder, InOnePlace, OkMeansAccepted, [Next]_vars,
           NEW n \in Notes, stage'[CallbackOf[n]] # "idle"
    PROVE  \/ stage[CallbackOf[n]] # "idle"
           \/ /\ EndsAck /\ hand = Note(n) /\ hand \in posted /\ hand' = NoMsg
              /\ UNCHANGED <<piperVars, gatewayVars>>
<1>1. CallbackOf[n] \in Calls /\ CallbackOf[n] \in Callbacks
  BY CallbackAssumption DEF Callbacks
<1>2. stage \in [Calls -> StageNames]
  BY DEF CallTypes, TypeOK, NamingTypeOK, StageNames
<1>3. CASE UNCHANGED namingVars
  BY <1>3 DEF namingVars
<1>4. ASSUME NEW c \in Calls, CallStep(c), posted' = posted PROVE stage[CallbackOf[n]] # "idle"
  <2>1. CASE c = CallbackOf[n]
    BY <1>1, <1>4, <2>1 DEF CallStep, UserCalls, GoesOn, SendsHeader, SendsBody, SendFails, Cancelled, Expires
  <2>2. CASE c # CallbackOf[n]
    <3>1. Still(CallbackOf[n])
      BY <1>1, <1>4, <2>2, CallStepIs
    <3> QED BY <3>1 DEF Still
  <2> QED BY <2>1, <2>2
<1>5. ASSUME NEW c \in Calls, Feeds(c), posted' = posted PROVE stage[CallbackOf[n]] # "idle"
  <2>1. CASE c = CallbackOf[n]
    BY <1>5, <2>1 DEF Feeds
  <2>2. CASE c # CallbackOf[n]
    <3>1. Still(CallbackOf[n])
      BY <1>1, <1>5, <2>2, FeedIs
    <3> QED BY <3>1 DEF Still
  <2> QED BY <2>1, <2>2
<1>6. ASSUME ReadStep, \A c \in Calls : ~Feeds(c), stage[CallbackOf[n]] = "idle"
      PROVE  EndsAck /\ hand = Note(n) /\ hand \in posted /\ hand' = NoMsg
  <2>1. PICK c \in Calls : /\ stage' = [stage EXCEPT ![c] = "spawned"]
                           /\ reader \in {"ack", "ackHalf"} /\ c = CallbackOf[hand.of]
                           /\ hand' = NoMsg /\ EndsAck
    BY <1>6, ReadStepIs
  <2>2. c = CallbackOf[n]
    BY <1>1, <1>2, <1>6, <2>1
  <2>3. hand.of \in Notes /\ hand = Note(hand.of) /\ hand \in posted
    BY <2>1, HandIs
  <2>4. hand.of = n
    BY <2>1, <2>2, <2>3, CallbackAssumption
  <2> QED BY <2>1, <2>3, <2>4
<1>7. UNCHANGED <<piperVars, gatewayVars>> => posted' = posted
  BY DEF gatewayVars
<1> QED BY <1>3, <1>4, <1>5, <1>6, <1>7, ClientSteps

LEMMA InOnePlaceKept ==
    ASSUME WireTypes, WireTypes', CallTypes, CallOrder, InOnePlace, OkMeansAccepted, MessageFlow, [Next]_vars
    PROVE  InOnePlace'
<1>1. /\ Once(wire'["up"]) /\ Once(wire'["client"])
      /\ Apart(MsgsOn(wire'["up"]), MsgsOn(wire'["client"]))
      /\ Apart(MsgsOn(wire'["up"]) \cup MsgsOn(wire'["client"]), {carry'["up"], hand'})
      /\ Apart({carry'["up"]}, {hand'})
      /\ \A m \in OnItsWay' : m.type \in {"ok", "refused", "note"} => m \in posted'
      /\ OnItsWay' \cap Messages \subseteq OnItsWay \cup (posted' \ posted)
      /\ posted \subseteq posted'
  BY FlowKept
<1>2. ASSUME NEW n \in Notes, stage'[CallbackOf[n]] # "idle" PROVE Note(n) \in posted' \ OnItsWay'
  <2>0. Note(n) \in Messages /\ NoMsg \notin Messages
    BY CarriedMsgs DEF Messages
  <2>1. CASE stage[CallbackOf[n]] # "idle"
    <3>1. Note(n) \in posted \ OnItsWay
      BY <2>1 DEF InOnePlace
    <3> QED BY <1>1, <2>0, <3>1
  <2>2. CASE /\ EndsAck /\ hand = Note(n) /\ hand \in posted /\ hand' = NoMsg
             /\ UNCHANGED <<piperVars, gatewayVars>>
    <3>1. wire'["up"] = wire["up"] /\ wire'["client"] = wire["client"] /\ carry' = carry
      BY <2>2, AckLeaves DEF piperVars
    <3>2. Note(n) \notin MsgsOn(wire["up"]) \cup MsgsOn(wire["client"]) \cup {carry["up"]}
      BY <2>0, <2>2 DEF InOnePlace, Apart
    <3>3. OnItsWay' = {hand', carry'["up"]} \cup MsgsOn(wire'["up"]) \cup MsgsOn(wire'["client"])
      BY WayIs
    <3> QED BY <1>1, <2>0, <2>2, <3>1, <3>2, <3>3
  <2> QED BY <1>2, <2>1, <2>2, SpawnIs
<1> QED BY <1>1, <1>2 DEF InOnePlace

-----------------------------------------------------------------------------
(* The invariant.                                                          *)

LEMMA Starts == Init => IInv
<1> SUFFICES ASSUME Init PROVE IInv
  OBVIOUS
<1> USE DEF Init, StreamInit, TunnelInit, PiperStart, NamingInit
<1>1. \A e \in Ends : wire[e] = <<>> /\ Len(wire[e]) = 0 /\ wire[e] \in Seq(Chunks)
  OBVIOUS
<1>2. WireTypes
  <2>1. 0 \in 0 .. Len(Flights)
    BY FlightsAssumption
  <2>2. wire \in [Ends -> Seq(Chunks)]
    BY <1>1
  <2> QED BY <2>1, <2>2, CarriedMsgs DEF WireTypes
<1>3. CallTypes
  <2>1. PiperTypeOK
    <3>1. errors \in 0 .. 2 /\ copier \in [Sides -> {"off", "reading", "writing", "failed", "ended"}]
      OBVIOUS
    <3>2. handler = "first" /\ dialed = FALSE
      OBVIOUS
    <3> QED BY <3>1, <3>2 DEF PiperTypeOK
  <2>2. NamingTypeOK
    BY RequestIs DEF NamingTypeOK
  <2> QED BY <2>1, <2>2 DEF CallTypes, TypeOK
<1>4. Writers
  BY DEF Writers, Ends
<1>5. \A e \in Ends : Lead(e) = 0
  BY Ends4 DEF Lead, Tunnelled
<1>6. InStep
  <2>1. \A e \in Ends : FlightsFirst(wire[e], Lead(e))
    BY <1>1, <1>5 DEF FlightsFirst
  <2>2. \A e \in Tunnelled : flight[e] = 0 /\ flight[PeerOf(e)] = 0 /\ PeerOf(e) \in Ends
    BY Ends4 DEF Tunnelled, Ends
  <2>3. \A e \in Tunnelled : Len(wire[PeerOf(e)]) = Lead(PeerOf(e))
    BY <1>1, <1>5, <2>2
  <2> QED BY <2>1, <2>2, <2>3 DEF InStep
<1>7. Framed
  <2>1. \A e \in Ends : InFrames(wire[e]) /\ EndsWhole(wire[e])
    BY <1>1 DEF InFrames, EndsWhole
  <2> QED BY <2>1 DEF Framed, OneBegun, Ends
<1>8. CallOrder
  BY RequestIs DEF CallOrder, InOrder, Going
<1>9. /\ MsgsOn(wire["up"]) = {} /\ MsgsOn(wire["client"]) = {} /\ MsgsOn(wire["gateway"]) = {}
      /\ BodiesOn(wire["down"]) = {}
      /\ Once(wire["up"]) /\ Once(wire["client"])
  BY <1>1 DEF MsgsOn, BodiesOn, Once, Ends
<1>10. carry["up"] = NoMsg /\ carry["down"] = NoMsg /\ hand = NoMsg /\ NoMsg.type = "none" /\ NoMsg \notin Messages
  BY CarriedMsgs DEF Sides, NoMsg, Message
<1>11. Heard
  BY <1>9, <1>10 DEF Heard, Mentioned
<1>12. OnItsWay = {NoMsg}
  <2>1. \A e \in {"up", "client"} : {wire[e][i].msg : i \in DOMAIN wire[e]} = {}
    BY <1>1 DEF Ends
  <2> QED BY <1>10, <2>1 DEF OnItsWay
<1>13. InOnePlace
  <2>1. \A n \in Notes : stage[CallbackOf[n]] = "idle"
    BY CallbackAssumption
  <2> QED BY <1>9, <1>10, <1>12, <2>1 DEF InOnePlace, Apart
<1>14. OkMeansAccepted /\ OnlyFailedSetupLeaks
  BY DEF OkMeansAccepted, OnlyFailedSetupLeaks
<1> QED BY <1>2, <1>3, <1>4, <1>6, <1>7, <1>8, <1>11, <1>13, <1>14 DEF IInv

LEMMA Inductive == IInv /\ [Next]_vars => IInv'
<1> SUFFICES ASSUME IInv, [Next]_vars PROVE IInv'
  OBVIOUS
<1> USE DEF IInv
<1>1. StreamStep
  BY StreamSteps
<1>2. WireTypes'
  BY WireTypesKept
<1>3. MessageFlow /\ RequestFlow
  BY Flows
<1>4. /\ NamingTypeOK' /\ step' \in [Calls -> 0 .. 2] /\ outcome' \in [Calls -> OutcomeNames]
      /\ answer' \in [Requests -> Messages \cup {NoMsg}]
      /\ asked \subseteq asked'
      /\ CallOrder' /\ OkMeansAccepted'
  BY CallsKept
<1>5. PiperTypeOK' /\ OnlyFailedSetupLeaks'
  BY PiperStep
<1>6. Heard'
  BY <1>3, <1>4, HeardKept
<1>7. CallTypes'
  <2>1. posted' \subseteq Messages
    BY <1>2, <1>3, FlowKept
  <2>2. heard' \subseteq Requests
    BY <1>4, <1>6 DEF Heard, NamingTypeOK
  <2> QED BY <1>4, <1>5, <2>1, <2>2 DEF CallTypes, TypeOK, OutcomeNames
<1>8. InStep'
  BY <1>1, <1>2, InStepKept
<1>9. Framed'
  BY <1>1, <1>2, FramedKept
<1>10. Writers'
  BY WritersKept
<1>11. InOnePlace'
  BY <1>2, <1>3, InOnePlaceKept
<1> QED BY <1>2, <1>4, <1>5, <1>6, <1>7, <1>8, <1>9, <1>10, <1>11

\* The invariant holds in every behaviour of client, piper and gateway, for any
\* calls, notifications and flights of the handshake.
THEOREM Invariance == Spec => []IInv
  BY Starts, Inductive, PTL DEF Spec

\* Naming, Piper and Proxied keep their types.
THEOREM TypeCorrect == Spec => []TypeOK
<1>1. IInv => TypeOK
  BY DEF IInv, CallTypes
<1> QED BY <1>1, Invariance, PTL

\* A registration succeeded, or a query has a result, only if the gateway
\* accepted every request of it, whatever the piper, the handshake, the
\* callbacks and late answers do (naming.go:300-328, :369-387).
THEOREM OkIsAccepted == Spec => []OkMeansAccepted
<1>1. IInv => OkMeansAccepted
  BY DEF IInv
<1> QED BY <1>1, Invariance, PTL

\* Without two goroutines in writeFrame at once no reader loses the boundary
\* between frames, through any handshake and beyond the piper (frame.go:112-117,
\* tls.go:56-99).
THEOREM NothingElseTears == Spec => []FramesAreWhole
<1>1. IInv => FramesAreWhole
  BY DEF IInv, Framed, FramesAreWhole
<1> QED BY <1>1, Invariance, PTL

\* Once handle returned no copy loop is left with an open connection, and the
\* upstream connection is open only if the pipe never started (piper.go:36-109).
THEOREM OnlySetupLeaks == Spec => []OnlyFailedSetupLeaks
<1>1. IInv => OnlyFailedSetupLeaks
  BY DEF IInv
<1> QED BY <1>1, Invariance, PTL

-----------------------------------------------------------------------------
(* The requests implement CallSpec.                                        *)

Statuses  == [q \in Requests |-> Status(q)]
CallIds   == [q \in Requests |-> IF q[2] > step[q[1]] THEN NoId ELSE q]
Available == OnItsWay \cap Messages

\* The actions of CallSpec, in terms of those.
LEMMA AbstractStart ==
    ASSUME NEW r \in Requests, Statuses[r] = "idle", Statuses' = [Statuses EXCEPT ![r] = "started"],
           CallIds' = [CallIds EXCEPT ![r] = r],
           UNCHANGED <<asked, posted, answer>>, Available' = Available
    PROVE  CallsThrough!Next
<1>1. CallsThrough!Start(r)
  BY Zenon DEF CallsThrough!Start, Statuses, CallIds, Available
<1> QED BY <1>1 DEF CallsThrough!Next

LEMMA AbstractSend ==
    ASSUME NEW r \in Requests, Statuses[r] = "started", Statuses' = [Statuses EXCEPT ![r] = "sent"],
           CallIds[r] = r, asked' = asked \cup {r},
           CallIds' = CallIds, UNCHANGED <<posted, answer>>, Available' = Available
    PROVE  CallsThrough!Next
<1>1. CallsThrough!Send(r)
  BY Zenon DEF CallsThrough!Send, Statuses, CallIds, Available
<1> QED BY <1>1 DEF CallsThrough!Next

LEMMA AbstractFail ==
    ASSUME NEW r \in Requests, Statuses[r] \in {"started", "sent"},
           Statuses' = [Statuses EXCEPT ![r] = "failed"],
           CallIds' = CallIds, UNCHANGED <<asked, posted, answer>>, Available' = Available
    PROVE  CallsThrough!Next
<1>1. CallsThrough!Fail(r)
  BY Zenon DEF CallsThrough!Fail, Statuses, CallIds, Available
<1> QED BY <1>1 DEF CallsThrough!Next

LEMMA AbstractAnswer ==
    ASSUME NEW r \in Requests, NEW m \in Messages,
           Statuses[r] = "sent", m \in Available, RelatesTo[m] = CallIds[r],
           Statuses' = [Statuses EXCEPT ![r] = "answered"], answer' = [answer EXCEPT ![r] = m],
           Available' = Available \ {m}, CallIds' = CallIds, UNCHANGED <<asked, posted>>
    PROVE  CallsThrough!Next
<1>1. CallsThrough!Answer(r, m)
  BY Zenon DEF CallsThrough!Answer, Statuses, CallIds, Available
<1> QED BY <1>1 DEF CallsThrough!Next

LEMMA AbstractPeerSends ==
    ASSUME NEW m \in Messages, m \notin posted, RelatesTo[m] \in asked \cup {NoId},
           posted' = posted \cup {m}, Available' = Available \cup {m},
           Statuses' = Statuses, CallIds' = CallIds, UNCHANGED <<asked, answer>>
    PROVE  CallsThrough!Next
<1>1. CallsThrough!PeerSends(m)
  BY Zenon DEF CallsThrough!PeerSends, Statuses, CallIds, Available
<1> QED BY <1>1 DEF CallsThrough!Next

LEMMA AbstractLose ==
    ASSUME Available' \subseteq Available,
           Statuses' = Statuses, CallIds' = CallIds, UNCHANGED <<asked, posted, answer>>
    PROVE  [CallsThrough!Next]_CallsThrough!vars
<1>1. CASE Available' = Available
  BY <1>1, Zenon DEF CallsThrough!vars, Statuses, CallIds, Available
<1>2. CASE Available' # Available
  <2> DEFINE S == Available \ Available'
  <2>1. S # {} /\ S \subseteq Available /\ Available' = Available \ S /\ S \in SUBSET Messages
    BY <1>2 DEF Available
  <2> HIDE DEF S
  <2>2. CallsThrough!Lose(S)
    BY <2>1, Zenon DEF CallsThrough!Lose, Statuses, CallIds, Available
  <2> QED BY <2>1, <2>2 DEF CallsThrough!Next
<1> QED BY <1>1, <1>2

\* Status, as a function of what it depends on.
StatusOf(k, s, g, a) ==
    CASE k > s -> "idle"
      [] a # NoMsg -> "answered"
      [] a = NoMsg /\ k = s /\ g \in {"ready", "half"} -> "started"
      [] a = NoMsg /\ k = s /\ g = "waiting" -> "sent"
      [] OTHER -> "failed"

LEMMA StatusOfIs ==
    ASSUME NEW k \in Nat, NEW s \in Nat, NEW g, NEW a
    PROVE  /\ k > s /\ a = NoMsg => StatusOf(k, s, g, a) = "idle"
           /\ k <= s /\ a # NoMsg => StatusOf(k, s, g, a) = "answered"
           /\ k = s /\ a = NoMsg /\ g \in {"ready", "half"} => StatusOf(k, s, g, a) = "started"
           /\ k = s /\ a = NoMsg /\ g = "waiting" => StatusOf(k, s, g, a) = "sent"
           /\ k = s /\ a = NoMsg /\ g = "done" => StatusOf(k, s, g, a) = "failed"
  BY DEF StatusOf

LEMMA StatusIs ==
    ASSUME NEW c \in Calls, NEW k \in 1 .. Steps(c)
    PROVE  /\ Statuses[<<c, k>>] = StatusOf(k, step[c], stage[c], answer[<<c, k>>])
           /\ Statuses'[<<c, k>>] = StatusOf(k, step'[c], stage'[c], answer'[<<c, k>>])
           /\ CallIds[<<c, k>>] = IF k > step[c] THEN NoId ELSE <<c, k>>
           /\ CallIds'[<<c, k>>] = IF k > step'[c] THEN NoId ELSE <<c, k>>
<1>1. <<c, k>> \in Requests
  BY RequestIs
<1>2. Status(<<c, k>>) = StatusOf(k, step[c], stage[c], answer[<<c, k>>])
  BY DEF Status, StatusOf
<1>3. Status(<<c, k>>)' = StatusOf(k, step'[c], stage'[c], answer'[<<c, k>>])
  BY DEF Status, StatusOf
<1> QED BY <1>1, <1>2, <1>3 DEF Statuses, CallIds

\* A step that changes at most the status of the j-th request of c.
LEMMA OneStatus ==
    ASSUME NEW c \in Calls, NEW j \in 1 .. Steps(c), \A d \in Calls \ {c} : Still(d),
           \A k \in 1 .. Steps(c) \ {j} : Statuses'[<<c, k>>] = Statuses[<<c, k>>]
    PROVE  Statuses' = [Statuses EXCEPT ![<<c, j>>] = Statuses'[<<c, j>>]]
<1>1. Statuses = [q \in Requests |-> Statuses[q]] /\ Statuses' = [q \in Requests |-> Statuses'[q]]
  BY DEF Statuses
<1>2. ASSUME NEW q \in Requests, q # <<c, j>> PROVE Statuses'[q] = Statuses[q]
  <2>1. q[1] \in Calls /\ q[2] \in 1 .. Steps(q[1]) /\ q = <<q[1], q[2]>>
    BY RequestIs
  <2>2. CASE q[1] = c
    <3>1. q[2] \in 1 .. Steps(c) \ {j}
      BY <1>2, <2>1, <2>2
    <3>2. Statuses'[<<c, q[2]>>] = Statuses[<<c, q[2]>>]
      BY <1>2, <3>1
    <3> QED BY <2>1, <2>2, <3>2
  <2>3. CASE q[1] # c
    <3>1. Still(q[1])
      BY <2>1, <2>3
    <3>2. StatusOf(q[2], step'[q[1]], stage'[q[1]], answer'[<<q[1], q[2]>>])
              = StatusOf(q[2], step[q[1]], stage[q[1]], answer[<<q[1], q[2]>>])
      BY <2>1, <3>1 DEF Still
    <3>3. Statuses'[<<q[1], q[2]>>] = Statuses[<<q[1], q[2]>>]
      BY <2>1, <3>2, StatusIs
    <3> QED BY <2>1, <3>3
  <2> QED BY <2>2, <2>3
<1> QED BY <1>1, <1>2

\* The statuses that CallOrder leaves to a call's requests.
LEMMA StandIs ==
    ASSUME CallTypes, CallOrder, NEW c \in Calls, NEW k \in 1 .. Steps(c)
    PROVE  /\ k > step[c] => Statuses[<<c, k>>] = "idle" /\ answer[<<c, k>>] = NoMsg
           /\ k < step[c] => Statuses[<<c, k>>] = "answered" /\ answer[<<c, k>>] # NoMsg
           /\ k = step[c] /\ stage[c] = "next" =>
                  Statuses[<<c, k>>] = "answered" /\ answer[<<c, k>>] # NoMsg
           /\ k = step[c] /\ stage[c] \in Going => answer[<<c, k>>] = NoMsg
           /\ k = step[c] /\ stage[c] \in {"ready", "half"} => Statuses[<<c, k>>] = "started"
           /\ k = step[c] /\ stage[c] = "waiting" => Statuses[<<c, k>>] = "sent"
<1>1. k \in Nat /\ step[c] \in Nat
  BY DEF CallTypes
<1>2. /\ k < step[c] \/ (k = step[c] /\ stage[c] = "next") => answer[<<c, k>>] # NoMsg
      /\ answer[<<c, k>>] # NoMsg =>
             k < step[c] \/ (k = step[c] /\ stage[c] \in {"next", "done"})
  BY DEF CallOrder, InOrder
<1>3. Statuses[<<c, k>>] = StatusOf(k, step[c], stage[c], answer[<<c, k>>])
  BY StatusIs
<1>4. /\ k > step[c] => answer[<<c, k>>] = NoMsg
      /\ k = step[c] /\ stage[c] \in Going => answer[<<c, k>>] = NoMsg
  BY <1>1, <1>2 DEF Going
<1>5. k < step[c] => k <= step[c]
  BY <1>1
<1>6. k = step[c] => k <= step[c]
  BY <1>1
<1> QED BY <1>1, <1>2, <1>3, <1>4, <1>5, <1>6, StatusOfIs DEF Going

LEMMA SameAvailable ==
    ASSUME WireTypes, WireTypes', wire'["up"] = wire["up"], wire'["client"] = wire["client"],
           carry' = carry, hand' = hand
    PROVE  Available' = Available
  BY WayIs DEF Available

\* The operations of a call, each an action of CallSpec.
LEMMA CallImplements ==
    ASSUME WireTypes, WireTypes', CallTypes, CallOrder, NEW c \in Calls, CallStep(c), ~SendsHeader(c),
           UNCHANGED <<piperVars, gatewayVars>>
    PROVE  CallsThrough!Next
<1>0. /\ posted' = posted /\ carry' = carry
      /\ stage \in [Calls -> StageNames] /\ step \in [Calls -> 0 .. 2] /\ step[c] \in Nat
      /\ Steps(c) \in {1, 2}
  BY RequestIs DEF gatewayVars, piperVars, CallTypes, TypeOK, NamingTypeOK, StageNames
<1>1. /\ answer' = answer /\ hand' = hand
      /\ \A d \in Calls \ {c} : Still(d)
      /\ InOrder(c)'
  BY <1>0, CallStepIs
<1>2. ASSUME NEW j \in 1 .. Steps(c), step' = step,
             \A k \in 1 .. Steps(c) \ {j} : k # step[c]
      PROVE  /\ Statuses' = [Statuses EXCEPT ![<<c, j>>] = Statuses'[<<c, j>>]]
             /\ CallIds' = CallIds
  <2>1. ASSUME NEW k \in 1 .. Steps(c), k # step[c] PROVE Statuses'[<<c, k>>] = Statuses[<<c, k>>]
    <3>1. Statuses'[<<c, k>>] = StatusOf(k, step[c], stage'[c], answer[<<c, k>>])
      BY <1>1, <1>2, StatusIs
    <3>2. k > step[c] \/ k < step[c]
      BY <1>0, <2>1
    <3>3. k < step[c] => k <= step[c]
      BY <1>0
    <3>4. /\ k > step[c] => answer[<<c, k>>] = NoMsg /\ Statuses[<<c, k>>] = "idle"
          /\ k < step[c] => answer[<<c, k>>] # NoMsg /\ Statuses[<<c, k>>] = "answered"
      BY StandIs
    <3> QED BY <1>0, <3>1, <3>2, <3>3, <3>4, StatusOfIs
  <2>2. CallIds' = CallIds
    BY <1>2 DEF CallIds
  <2> QED BY <1>1, <1>2, <2>1, <2>2, OneStatus
<1>3. CASE UserCalls(c) \/ GoesOn(c)
  <2> DEFINE j == step[c] + 1
  <2>1. /\ wire' = wire /\ asked' = asked
        /\ stage[c] \in {"idle", "spawned", "next"}
        /\ stage'[c] = "ready" /\ step' = [step EXCEPT ![c] = j] /\ step'[c] = j
    BY <1>0, <1>3 DEF UserCalls, GoesOn, Begin, Moves, streamVars
  <2>2. j \in 1 .. Steps(c) /\ j > step[c] /\ j \in Nat
    <3>1. InOrder(c)
      BY DEF CallOrder
    <3> QED BY <1>0, <2>1, <3>1 DEF InOrder
  <2>3. <<c, j>> \in Requests
    BY <2>2, RequestIs
  <2>4. ASSUME NEW k \in 1 .. Steps(c), k # j PROVE Statuses'[<<c, k>>] = Statuses[<<c, k>>]
    <3>1. Statuses'[<<c, k>>] = StatusOf(k, j, "ready", answer[<<c, k>>])
      BY <1>1, <2>1, StatusIs
    <3>2. k > j \/ k < step[c] \/ k = step[c]
      BY <1>0, <2>4
    <3>3. CASE k > j
      <4>1. k > step[c]
        BY <1>0, <3>3
      <4>2. answer[<<c, k>>] = NoMsg /\ Statuses[<<c, k>>] = "idle"
        BY <4>1, StandIs
      <4> QED BY <2>2, <3>1, <3>3, <4>2, StatusOfIs
    <3>4. CASE k < step[c] \/ k = step[c]
      <4>1. k <= j /\ (k = step[c] => stage[c] = "next")
        <5>1. InOrder(c)
          BY DEF CallOrder
        <5> QED BY <1>0, <2>1, <3>4, <5>1 DEF InOrder
      <4>2. answer[<<c, k>>] # NoMsg /\ Statuses[<<c, k>>] = "answered"
        BY <3>4, <4>1, StandIs
      <4> QED BY <2>2, <3>1, <4>1, <4>2, StatusOfIs
    <3> QED BY <3>2, <3>3, <3>4
  <2>5. Statuses[<<c, j>>] = "idle" /\ answer[<<c, j>>] = NoMsg
    BY <2>2, StandIs
  <2>6. Statuses'[<<c, j>>] = "started"
    <3>1. Statuses'[<<c, j>>] = StatusOf(j, j, "ready", NoMsg)
      BY <1>1, <2>1, <2>2, <2>5, StatusIs
    <3> QED BY <2>2, <3>1, StatusOfIs
  <2>7. Statuses' = [Statuses EXCEPT ![<<c, j>>] = "started"]
    BY <1>1, <2>2, <2>4, <2>6, OneStatus
  <2>8. CallIds' = [CallIds EXCEPT ![<<c, j>>] = <<c, j>>]
    <3>1. ASSUME NEW q \in Requests
          PROVE  (IF q[2] > step'[q[1]] THEN NoId ELSE q)
                     = IF q = <<c, j>> THEN <<c, j>> ELSE IF q[2] > step[q[1]] THEN NoId ELSE q
      <4>1. q[1] \in Calls /\ q[2] \in Nat /\ q = <<q[1], q[2]>>
        BY RequestIs DEF Steps
      <4>2. CASE q[1] # c
        BY <1>0, <2>1, <4>1, <4>2
      <4>3. CASE q[1] = c
        <5>1. step'[q[1]] = step[c] + 1
          BY <2>1, <4>3
        <5>2. q = <<c, j>> <=> q[2] = step[c] + 1
          BY <4>1, <4>3
        <5> HIDE DEF j
        <5> QED BY <1>0, <4>1, <4>3, <5>1, <5>2
      <4> QED BY <4>2, <4>3
    <3>2. CallIds' = [q \in Requests |-> IF q[2] > step'[q[1]] THEN NoId ELSE q]
      BY DEF CallIds
    <3> HIDE DEF j
    <3> QED BY <3>1, <3>2 DEF CallIds
  <2>9. Available' = Available
    BY <1>0, <1>1, <2>1, SameAvailable
  <2> HIDE DEF j
  <2> QED BY <1>0, <1>1, <2>1, <2>3, <2>5, <2>7, <2>8, <2>9, AbstractStart
<1>4. CASE SendsBody(c)
  <2> DEFINE j == step[c]
  <2>1. /\ stage[c] = "half" /\ stage'[c] = "waiting" /\ step' = step
        /\ asked' = asked \cup {<<c, j>>} /\ WriteBody("client", Req(c, step[c]))
    BY <1>0, <1>4 DEF SendsBody, Moves
  <2>2. j \in 1 .. Steps(c) /\ j \in Nat
    BY <2>1 DEF CallOrder, InOrder, Going
  <2>3. <<c, j>> \in Requests
    BY <2>2, RequestIs
  <2>4. Statuses[<<c, j>>] = "started" /\ answer[<<c, j>>] = NoMsg /\ CallIds[<<c, j>>] = <<c, j>>
    <3>1. ~(j > step[c])
      BY <1>0
    <3> QED BY <2>1, <2>2, <3>1, StandIs, StatusIs DEF Going
  <2>5. Statuses'[<<c, j>>] = "sent"
    <3>1. Statuses'[<<c, j>>] = StatusOf(j, j, "waiting", NoMsg)
      BY <1>1, <2>1, <2>2, <2>4, StatusIs
    <3> QED BY <2>2, <3>1, StatusOfIs
  <2>6. Statuses' = [Statuses EXCEPT ![<<c, j>>] = "sent"] /\ CallIds' = CallIds
    BY <1>2, <2>1, <2>2, <2>5
  <2>7. wire'["up"] = wire["up"] /\ wire'["client"] = wire["client"]
    <3>1. "client" \in Ends /\ PeerOf("client") = "down" /\ Req(c, step[c]) \in Carried
      BY <1>0, Ends4, CarriedMsgs DEF Ends
    <3>2. Chunk("body", Req(c, step[c])) \in Chunks /\ Write("client", <<Chunk("body", Req(c, step[c]))>>)
      BY <2>1, <3>1, ChunkTypes DEF WriteBody
    <3>3. \A f \in Ends \ {"down"} : wire'[f] = wire[f]
      BY <3>1, <3>2, WriteChunkIs
    <3> QED BY <3>3 DEF Ends
  <2>8. Available' = Available
    BY <1>0, <1>1, <2>7, SameAvailable
  <2> HIDE DEF j
  <2> QED BY <1>0, <1>1, <2>1, <2>3, <2>4, <2>6, <2>8, AbstractSend
<1>5. CASE SendFails(c) \/ Cancelled(c) \/ Expires(c)
  <2> DEFINE j == step[c]
  <2>1. /\ stage[c] \in Going /\ stage'[c] = "done" /\ step' = step
        /\ asked' = asked /\ wire' = wire
    BY <1>0, <1>5 DEF SendFails, Cancelled, Expires, Returns, Moves, Going, WriteFails, streamVars
  <2>2. j \in 1 .. Steps(c) /\ j \in Nat
    BY <2>1 DEF CallOrder, InOrder
  <2>3. <<c, j>> \in Requests
    BY <2>2, RequestIs
  <2>4. Statuses[<<c, j>>] \in {"started", "sent"} /\ answer[<<c, j>>] = NoMsg
    BY <2>1, <2>2, StandIs DEF Going
  <2>5. Statuses'[<<c, j>>] = "failed"
    <3>1. Statuses'[<<c, j>>] = StatusOf(j, j, "done", NoMsg)
      BY <1>1, <2>1, <2>2, <2>4, StatusIs
    <3> QED BY <2>2, <3>1, StatusOfIs
  <2>6. Statuses' = [Statuses EXCEPT ![<<c, j>>] = "failed"] /\ CallIds' = CallIds
    BY <1>2, <2>1, <2>2, <2>5
  <2>7. Available' = Available
    BY <1>0, <1>1, <2>1, SameAvailable
  <2> HIDE DEF j
  <2> QED BY <1>0, <1>1, <2>1, <2>3, <2>4, <2>6, <2>7, AbstractFail
<1> QED BY <1>3, <1>4, <1>5 DEF CallStep

LEMMA FeedImplements ==
    ASSUME WireTypes, WireTypes', CallTypes, CallOrder, InOnePlace, OkMeansAccepted, NEW c \in Calls, Feeds(c),
           UNCHANGED <<piperVars, gatewayVars>>
    PROVE  CallsThrough!Next
<1> DEFINE j == step[c]
<1>0. /\ posted' = posted /\ carry' = carry /\ wire' = wire
      /\ reader = "feeding" /\ hand.of = c /\ hand.nr = j /\ stage[c] = "waiting" /\ hand' = NoMsg
      /\ answer' = [answer EXCEPT ![<<c, j>>] = hand] /\ step' = step /\ asked' = asked
      /\ answer \in [Requests -> Messages \cup {NoMsg}] /\ j \in Nat
  BY DEF gatewayVars, piperVars, Feeds, Fed, Relates, Shut, CallTypes
<1>1. hand \in Messages /\ hand.type \in {"ok", "refused"} /\ hand # NoMsg
  BY <1>0, HandIs, PostedIs
<1>2. \A d \in Calls \ {c} : Still(d)
  BY <1>0, FeedIs
<1>3. j \in 1 .. Steps(c) /\ <<c, j>> \in Requests
  BY <1>0, RequestIs DEF CallOrder, InOrder, Going
<1>4. /\ Statuses[<<c, j>>] = "sent" /\ CallIds[<<c, j>>] = <<c, j>>
  <2>1. ~(j > j)
    BY <1>0
  <2> QED BY <1>0, <1>3, <2>1, StandIs, StatusIs
<1>5. \A k \in 1 .. Steps(c) : k # j => answer'[<<c, k>>] = answer[<<c, k>>]
  BY <1>0, RequestIs
<1>6. ASSUME NEW k \in 1 .. Steps(c), k # j PROVE Statuses'[<<c, k>>] = Statuses[<<c, k>>]
  <2>1. Statuses'[<<c, k>>] = StatusOf(k, j, stage'[c], answer[<<c, k>>])
    BY <1>0, <1>5, <1>6, StatusIs
  <2>2. k > j \/ k < j
    BY <1>0, <1>6
  <2>3. k < j => k <= j
    BY <1>0
  <2>4. /\ k > j => answer[<<c, k>>] = NoMsg /\ Statuses[<<c, k>>] = "idle"
        /\ k < j => answer[<<c, k>>] # NoMsg /\ Statuses[<<c, k>>] = "answered"
    BY StandIs
  <2> QED BY <1>0, <2>1, <2>2, <2>3, <2>4, StatusOfIs
<1>7. Statuses'[<<c, j>>] = "answered"
  <2>1. answer'[<<c, j>>] = hand
    BY <1>0, <1>3
  <2>2. Statuses'[<<c, j>>] = StatusOf(j, j, stage'[c], hand)
    BY <1>0, <1>3, <2>1, StatusIs
  <2>3. j <= j
    BY <1>0
  <2> QED BY <1>0, <1>1, <2>2, <2>3, StatusOfIs
<1>8. Statuses' = [Statuses EXCEPT ![<<c, j>>] = "answered"] /\ CallIds' = CallIds
  <2>1. CallIds' = CallIds
    BY <1>0 DEF CallIds
  <2> QED BY <1>2, <1>3, <1>6, <1>7, <2>1, OneStatus
<1>9. hand \in Available /\ Available' = Available \ {hand}
  <2>1. /\ OnItsWay = {hand, carry["up"]} \cup MsgsOn(wire["up"]) \cup MsgsOn(wire["client"])
        /\ OnItsWay' = {NoMsg, carry["up"]} \cup MsgsOn(wire["up"]) \cup MsgsOn(wire["client"])
    BY <1>0, WayIs
  <2>2. hand \notin MsgsOn(wire["up"]) \cup MsgsOn(wire["client"]) \cup {carry["up"]}
    BY <1>1 DEF InOnePlace, Apart
  <2>3. NoMsg \notin Messages
    BY CarriedMsgs
  <2> QED BY <1>1, <2>1, <2>2, <2>3 DEF Available
<1>10. RelatesTo[hand] = <<c, j>>
  BY <1>0, <1>1 DEF RelatesTo
<1> HIDE DEF j
<1> QED BY <1>0, <1>1, <1>3, <1>4, <1>8, <1>9, <1>10, AbstractAnswer

\* Nothing else changes the status of a request.
LEMMA StatusesStay ==
    ASSUME CallTypes, CallOrder, InOnePlace,
           \/ UNCHANGED namingVars
           \/ \E c \in Calls : SendsHeader(c)
           \/ ReadStep /\ \A c \in Calls : ~Feeds(c)
    PROVE  Statuses' = Statuses /\ CallIds' = CallIds /\ asked' = asked /\ answer' = answer
<1>0. stage \in [Calls -> StageNames] /\ step \in [Calls -> 0 .. 2]
  BY DEF CallTypes, TypeOK, NamingTypeOK, StageNames
<1>1. /\ step' = step /\ answer' = answer /\ asked' = asked
      /\ \A c \in Calls : \/ stage'[c] = stage[c]
                          \/ stage[c] = "ready" /\ stage'[c] = "half"
                          \/ stage[c] = "idle"
  <2>1. CASE UNCHANGED namingVars
    BY <2>1 DEF namingVars
  <2>2. ASSUME NEW c \in Calls, SendsHeader(c)
        PROVE  /\ step' = step /\ answer' = answer /\ asked' = asked
               /\ stage[c] = "ready" /\ stage' = [stage EXCEPT ![c] = "half"]
    BY <2>2 DEF SendsHeader, Moves
  <2>3. CASE ReadStep /\ \A c \in Calls : ~Feeds(c)
    <3>1. /\ step' = step /\ answer' = answer /\ asked' = asked
          /\ \/ stage' = stage
             \/ \E c \in Calls : stage[c] = "idle" /\ stage' = [stage EXCEPT ![c] = "spawned"]
      BY <2>3, ReadStepIs
    <3> QED BY <1>0, <3>1
  <2> QED BY <1>0, <2>1, <2>2, <2>3
<1>2. ASSUME NEW c \in Calls, NEW k \in 1 .. Steps(c) PROVE Statuses'[<<c, k>>] = Statuses[<<c, k>>]
  <2>1. /\ Statuses'[<<c, k>>] = StatusOf(k, step[c], stage'[c], answer[<<c, k>>])
        /\ Statuses[<<c, k>>] = StatusOf(k, step[c], stage[c], answer[<<c, k>>])
    BY <1>1, StatusIs
  <2>2. k \in Nat /\ step[c] \in Nat
    BY <1>0
  <2>3. CASE stage[c] = "ready" /\ stage'[c] = "half"
    <3>1. k > step[c] \/ k < step[c] \/ k = step[c]
      BY <2>2
    <3>2. k < step[c] => k <= step[c]
      BY <2>2
    <3>3. /\ k > step[c] => answer[<<c, k>>] = NoMsg
          /\ k < step[c] => answer[<<c, k>>] # NoMsg
          /\ k = step[c] => answer[<<c, k>>] = NoMsg
      BY <2>3, StandIs DEF Going
    <3>4. /\ k > step[c] => Statuses'[<<c, k>>] = "idle" /\ Statuses[<<c, k>>] = "idle"
          /\ k < step[c] => Statuses'[<<c, k>>] = "answered" /\ Statuses[<<c, k>>] = "answered"
          /\ k = step[c] => Statuses'[<<c, k>>] = "started" /\ Statuses[<<c, k>>] = "started"
      BY <2>1, <2>2, <2>3, <3>2, <3>3, StatusOfIs
    <3> QED BY <3>1, <3>4
  <2>4. CASE stage[c] = "idle"
    <3>1. step[c] = 0 /\ k > step[c]
      BY <2>4 DEF CallOrder, InOrder
    <3>2. answer[<<c, k>>] = NoMsg
      BY <3>1, StandIs
    <3> QED BY <2>1, <2>2, <3>1, <3>2, StatusOfIs
  <2> QED BY <1>1, <2>1, <2>3, <2>4
<1>3. \A q \in Requests : Statuses'[q] = Statuses[q]
  BY <1>2, RequestIs
<1>4. Statuses = [q \in Requests |-> Statuses[q]] /\ Statuses' = [q \in Requests |-> Statuses'[q]]
  BY DEF Statuses
<1>5. CallIds' = CallIds
  BY <1>1 DEF CallIds
<1> QED BY <1>1, <1>3, <1>4, <1>5

\* The gateway answers what it has heard.
LEMMA PostsAre ==
    ASSUME Heard, [Next]_vars, NEW m \in Messages \ posted, posted' = posted \cup {m}
    PROVE  RelatesTo[m] \in asked \cup {NoId}
<1>1. UNCHANGED gatewayVars => FALSE
  BY DEF gatewayVars
<1>2. \/ \E q \in Requests : GatewayAnswers(q)
      \/ \E n \in Notes : GatewayNotifies(n)
  BY <1>1 DEF Next, Client, Pipe, Gateway, GatewayReads, GatewayLeaves, Misreads, vars, gatewayVars
<1>3. ASSUME NEW q \in Requests, GatewayAnswers(q) PROVE RelatesTo[m] \in asked \cup {NoId}
  <2>1. m = OK(q[1], q[2]) \/ m = Refusal(q[1], q[2])
    BY <1>3 DEF GatewayAnswers, GatewaySends
  <2>2. q \in asked /\ q = <<q[1], q[2]>>
    BY <1>3, RequestIs DEF GatewayAnswers, Heard
  <2> QED BY <2>1, <2>2 DEF RelatesTo, OK, Refusal, Message
<1>4. ASSUME NEW n \in Notes, GatewayNotifies(n) PROVE RelatesTo[m] \in asked \cup {NoId}
  <2>1. m = Note(n)
    BY <1>4 DEF GatewayNotifies, GatewaySends
  <2> QED BY <2>1 DEF RelatesTo, Note, Message
<1> QED BY <1>2, <1>3, <1>4

LEMMA RestImplements ==
    ASSUME WireTypes, WireTypes', CallTypes, CallOrder, InOnePlace, Heard, MessageFlow, [Next]_vars,
           \/ UNCHANGED namingVars
           \/ \E c \in Calls : SendsHeader(c)
           \/ ReadStep /\ \A c \in Calls : ~Feeds(c)
    PROVE  [CallsThrough!Next]_CallsThrough!vars
<1>1. Statuses' = Statuses /\ CallIds' = CallIds /\ asked' = asked /\ answer' = answer
  BY StatusesStay
<1>2. OnItsWay' \cap Messages \subseteq OnItsWay \cup (posted' \ posted)
  BY FlowKept
<1>3. CASE posted' = posted
  <2>1. Available' \subseteq Available
    BY <1>2, <1>3 DEF Available
  <2> QED BY <1>1, <1>3, <2>1, AbstractLose
<1>4. ASSUME NEW m \in Messages \ posted,
             FrameAdded(wire["up"], wire'["up"], m), posted' = posted \cup {m},
             wire'["client"] = wire["client"], carry'["up"] = carry["up"], hand' = hand
      PROVE  CallsThrough!Next
  <2>1. wire["up"] \in Seq(Chunks) /\ wire'["up"] \in Seq(Chunks)
    BY DEF WireTypes, Ends
  <2>2. MsgsOn(wire'["up"]) = MsgsOn(wire["up"]) \cup {m}
    BY <1>4, <2>1, FrameOnKeeps
  <2>3. Available' = Available \cup {m}
    <3>1. /\ OnItsWay = {hand, carry["up"]} \cup MsgsOn(wire["up"]) \cup MsgsOn(wire["client"])
          /\ OnItsWay' = {hand, carry["up"]} \cup MsgsOn(wire'["up"]) \cup MsgsOn(wire["client"])
      BY <1>4, WayIs
    <3> QED BY <2>2, <3>1 DEF Available
  <2> QED BY <1>1, <1>4, <2>3, PostsAre, AbstractPeerSends
<1> QED BY <1>3, <1>4 DEF MessageFlow

LEMMA StepsImplement == IInv /\ IInv' /\ [Next]_vars => [CallsThrough!Next]_CallsThrough!vars
<1> SUFFICES ASSUME IInv, IInv', [Next]_vars PROVE [CallsThrough!Next]_CallsThrough!vars
  OBVIOUS
<1> USE DEF IInv
<1>1. MessageFlow
  BY Flows
<1>2. ASSUME NEW c \in Calls, CallStep(c), ~SendsHeader(c), UNCHANGED <<piperVars, gatewayVars>>
      PROVE  CallsThrough!Next
  BY <1>2, CallImplements
<1>3. ASSUME NEW c \in Calls, Feeds(c), UNCHANGED <<piperVars, gatewayVars>> PROVE CallsThrough!Next
  BY <1>3, FeedImplements
<1>4. CASE \/ UNCHANGED namingVars
           \/ \E c \in Calls : SendsHeader(c)
           \/ ReadStep /\ \A c \in Calls : ~Feeds(c)
  BY <1>1, <1>4, RestImplements
<1> QED BY <1>2, <1>3, <1>4, ClientSteps DEF CallStep

LEMMA StartImplements == Init => CallsThrough!Init
<1> SUFFICES ASSUME Init PROVE CallsThrough!Init
  OBVIOUS
<1> USE DEF Init
<1>1. Available = {}
  <2>1. IInv
    BY Starts
  <2>2. hand = NoMsg /\ carry["up"] = NoMsg /\ NoMsg \notin Messages
    BY CarriedMsgs DEF NamingInit, PiperStart, Sides
  <2>3. \A e \in {"up", "client"} : {wire[e][i].msg : i \in DOMAIN wire[e]} = {}
    BY DEF StreamInit, Ends
  <2> QED BY <2>2, <2>3 DEF Available, OnItsWay
<1>2. ASSUME NEW q \in Requests PROVE Status(q) = "idle" /\ q[2] > step[q[1]]
  <2>1. q[1] \in Calls /\ q[2] \in 1 .. Steps(q[1]) /\ q = <<q[1], q[2]>> /\ q[2] \in Nat /\ q[2] > 0
    BY RequestIs DEF Steps
  <2>2. step[q[1]] = 0 /\ answer[q] = NoMsg
    BY <2>1 DEF NamingInit
  <2>3. Status(q) = StatusOf(q[2], 0, stage[q[1]], NoMsg)
    BY <2>2 DEF Status, StatusOf
  <2> QED BY <2>1, <2>2, <2>3, StatusOfIs
<1>3. /\ [q \in Requests |-> Status(q)] = [q \in Requests |-> "idle"]
      /\ [q \in Requests |-> IF q[2] > step[q[1]] THEN NoId ELSE q] = [q \in Requests |-> NoId]
  BY <1>2
<1>4. asked = {} /\ posted = {} /\ answer = [q \in Requests |-> NoMsg]
  BY DEF NamingInit
<1> QED BY <1>1, <1>3, <1>4, Zenon DEF CallsThrough!Init, Available

\* Through the piper, the handshake and the callbacks, every request is answered
\* at most once, by a message the gateway sent in reply to it after it was
\* written, and no message answers two (naming.go:153-180, conn.go:24-32).
THEOREM PiperImplementsCalls == Spec => PiperKeepsCalls
  BY Invariance, StepsImplement, StartImplements, PTL DEF Spec, PiperKeepsCalls, CallsThrough!Spec

-----------------------------------------------------------------------------
(* What follows from CallSpec.                                             *)

\* The invariant of CallSpec, said of the requests that implement it.
CallsInv ==
    /\ CallIds \in [Requests -> Requests \cup {NoId}] /\ Available \subseteq posted
    /\ answer \in [Requests -> Messages \cup {NoMsg}]
    /\ \A r \in Requests : /\ Statuses[r] = "sent" => CallIds[r] \in asked
                           /\ answer[r] # NoMsg => Statuses[r] = "answered"
    /\ CallsThrough!OneAnswerOneCall /\ CallsThrough!AnswerWasAsked

\* Its two properties, in terms of the mapped variables.
OneRequest ==
    /\ \A r, s \in Requests : answer[r] # NoMsg /\ answer[r] = answer[s] => r = s
    /\ \A r \in Requests : answer[r] # NoMsg =>
           answer[r] \in posted /\ answer[r] \notin Available
OwnAnswer ==
    \A r \in Requests : answer[r] # NoMsg =>
        CallIds[r] \in asked /\ RelatesTo[answer[r]] = CallIds[r]

LEMMA InTheseTerms ==
    /\ CallsThrough!OneAnswerOneCall <=> OneRequest
    /\ CallsThrough!AnswerWasAsked <=> OwnAnswer
  BY Zenon DEF CallsThrough!OneAnswerOneCall, CallsThrough!AnswerWasAsked, OneRequest, OwnAnswer,
               CallIds, Available

LEMMA InTheseTermsNext ==
    /\ CallsThrough!OneAnswerOneCall' <=> OneRequest'
    /\ CallsThrough!AnswerWasAsked' <=> OwnAnswer'
  BY Zenon DEF CallsThrough!OneAnswerOneCall, CallsThrough!AnswerWasAsked, OneRequest, OwnAnswer,
               CallIds, Available

LEMMA AnswersKept == CallsInv /\ [CallsThrough!Next]_CallsThrough!vars => CallsInv'
<1> SUFFICES ASSUME CallsInv, [CallsThrough!Next]_CallsThrough!vars PROVE CallsInv'
  OBVIOUS
<1>1. NoMsg \notin Messages
  BY CarriedMsgs
<1>2. /\ CallIds \in [Requests -> Requests \cup {NoId}] /\ Available \subseteq posted
      /\ answer \in [Requests -> Messages \cup {NoMsg}]
      /\ \A r \in Requests : /\ Statuses[r] = "sent" => CallIds[r] \in asked
                             /\ answer[r] # NoMsg => Statuses[r] = "answered"
      /\ OneRequest /\ OwnAnswer
      /\ Statuses = [r \in Requests |-> Statuses[r]]
  <2>1. Statuses = [r \in Requests |-> Statuses[r]]
    BY DEF Statuses
  <2> QED BY <2>1, InTheseTerms DEF CallsInv
<1> DEFINE Kept ==
        /\ CallIds' \in [Requests -> Requests \cup {NoId}] /\ Available' \subseteq posted'
        /\ answer' \in [Requests -> Messages \cup {NoMsg}]
        /\ \A r \in Requests : /\ Statuses'[r] = "sent" => CallIds'[r] \in asked'
                               /\ answer'[r] # NoMsg => Statuses'[r] = "answered"
        /\ OneRequest' /\ OwnAnswer'
<1> USE <1>1, <1>2 DEF OneRequest, OwnAnswer
<1>3. ASSUME NEW r \in Requests, CallsThrough!Start(r) PROVE Kept
  <2>1. /\ Statuses[r] = "idle" /\ Statuses' = [Statuses EXCEPT ![r] = "started"]
        /\ \E i \in Requests : CallIds' = [CallIds EXCEPT ![r] = i]
        /\ asked' = asked /\ posted' = posted /\ Available' = Available /\ answer' = answer
    BY <1>3, Zenon DEF CallsThrough!Start, Statuses, CallIds, Available
  <2> QED BY <2>1
<1>4. ASSUME NEW r \in Requests, CallsThrough!Send(r) PROVE Kept
  <2>1. /\ Statuses[r] = "started" /\ Statuses' = [Statuses EXCEPT ![r] = "sent"]
        /\ asked' = asked \cup {CallIds[r]}
        /\ CallIds' = CallIds /\ posted' = posted /\ Available' = Available /\ answer' = answer
    BY <1>4, Zenon DEF CallsThrough!Send, Statuses, CallIds, Available
  <2> QED BY <2>1
<1>5. ASSUME NEW r \in Requests, CallsThrough!Fail(r) PROVE Kept
  <2>1. /\ Statuses[r] \in {"started", "sent"} /\ Statuses' = [Statuses EXCEPT ![r] = "failed"]
        /\ asked' = asked
        /\ CallIds' = CallIds /\ posted' = posted /\ Available' = Available /\ answer' = answer
    BY <1>5, Zenon DEF CallsThrough!Fail, Statuses, CallIds, Available
  <2> QED BY <2>1
<1>6. ASSUME NEW r \in Requests, NEW m \in Messages, CallsThrough!Answer(r, m) PROVE Kept
  <2>1. /\ Statuses[r] = "sent" /\ Statuses' = [Statuses EXCEPT ![r] = "answered"]
        /\ m \in Available /\ RelatesTo[m] = CallIds[r] /\ Available' = Available \ {m}
        /\ answer' = [answer EXCEPT ![r] = m]
        /\ CallIds' = CallIds /\ posted' = posted /\ asked' = asked
    BY <1>6, Zenon DEF CallsThrough!Answer, Statuses, CallIds, Available
  <2> QED BY <2>1
<1>7. ASSUME NEW m \in Messages, CallsThrough!PeerSends(m) PROVE Kept
  <2>1. /\ m \notin posted /\ posted' = posted \cup {m} /\ Available' = Available \cup {m}
        /\ Statuses' = Statuses /\ CallIds' = CallIds /\ asked' = asked /\ answer' = answer
    BY <1>7, Zenon DEF CallsThrough!PeerSends, Statuses, CallIds, Available
  <2> QED BY <2>1
<1>8. ASSUME NEW S \in SUBSET Messages, CallsThrough!Lose(S) PROVE Kept
  <2>1. /\ Available' = Available \ S /\ posted' = posted
        /\ Statuses' = Statuses /\ CallIds' = CallIds /\ asked' = asked /\ answer' = answer
    BY <1>8, Zenon DEF CallsThrough!Lose, Statuses, CallIds, Available
  <2> QED BY <2>1
<1>9. ASSUME UNCHANGED CallsThrough!vars PROVE Kept
  <2>1. /\ Available' = Available /\ posted' = posted
        /\ Statuses' = Statuses /\ CallIds' = CallIds /\ asked' = asked /\ answer' = answer
    BY <1>9, Zenon DEF CallsThrough!vars, Statuses, CallIds, Available
  <2> QED BY <2>1
<1>10. Kept
  <2> HIDE DEF Kept, OneRequest, OwnAnswer
  <2> QED BY ONLY [CallsThrough!Next]_CallsThrough!vars, <1>3, <1>4, <1>5, <1>6, <1>7, <1>8, <1>9
         DEF CallsThrough!Next
<1> QED BY ONLY <1>10, InTheseTermsNext DEF CallsInv

LEMMA CallsInit == CallsThrough!Init => CallsInv
<1> SUFFICES ASSUME CallsThrough!Init PROVE CallsInv
  OBVIOUS
<1>1. /\ Statuses = [r \in Requests |-> "idle"] /\ CallIds = [r \in Requests |-> NoId]
      /\ asked = {} /\ posted = {} /\ Available = {} /\ answer = [r \in Requests |-> NoMsg]
  BY Zenon DEF CallsThrough!Init, Statuses, CallIds, Available
<1>2. OneRequest /\ OwnAnswer
  BY <1>1 DEF OneRequest, OwnAnswer
<1> QED BY <1>1, <1>2, InTheseTerms DEF CallsInv

\* No answer of the gateway ends two requests of the naming client, none that
\* ended one is still on its way, and a request ends only with an answer to the
\* request itself, after it was written (naming.go:153-180).
THEOREM AnswersAreOwned ==
    Spec => [](CallsThrough!OneAnswerOneCall /\ CallsThrough!AnswerWasAsked)
<1>1. CallsInv => CallsThrough!OneAnswerOneCall /\ CallsThrough!AnswerWasAsked
  BY Zenon DEF CallsInv
<1> QED BY <1>1, CallsInit, AnswersKept, PiperImplementsCalls, PTL
        DEF PiperKeepsCalls, CallsThrough!Spec
=============================================================================
