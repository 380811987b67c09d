# Phabrik in TLA+

Specifications of phabrik, a Go implementation of the protocols of Service
Fabric: its transport with the piper and the TLS tunnel, its naming client, its
lease agent, its federation node and its binary serialization. Modules are named after the part of the code they model;
definitions keep the names of the source where TLA+ allows it. Source paths below
are relative to the repository.

    tlc -workers 2 -config ConnPool.cfg MCConnPool     # model-check a run
    tlapm ConnPoolProofs.tla                           # check its proofs

## 1. The system

### Components, state, operations

**transport** (one TCP or TLS stream)

| part | state | operations |
|---|---|---|
| request table, `requesttable.go` | `sync.Map` from message id to `PendingRequest`; each has an unbuffered channel and a `sync.Once` | `Put`, `Feed`, `PendingRequest.Wait`/`Close`, `RequestTable.Close` |
| message ids, `message.go` | a 32-bit counter | `newMessage`, `fillMessageId`, `Next` |
| connection, `conn.go` | the stream, `pingCh`, `pinglock`, `closeOnce`, `fatalerr` | `SendOneWay`, `RequestReply`, `Ping`, `Wait` (the read loop), `handleTransportMessage`, `Close` |
| frames and headers, `frame.go`, `messageheaders.go` | none | write and read a frame; write, parse and register headers |
| TLS tunnel, `tls.go` | `handshakeCompleted`, read buffer | the handshake in frames, raw afterwards |
| client, server, piper | listener, callback | `Connect`, `Serve`, `handle`, `pipe`, `copy` |

**lease** (`agent.go`, `serialize.go`, `frame.go`): an agent has a listener, a
dialer and a map from remote address to session; a session has a connection and
`pingCh`, which a pong closes and replaces. `Establish`, `Ping`, `PingLoop`,
`handleIncoming`, `Close` of a session and of the agent; `marshal`/`unmarshal` of
the one message.

**federation**: a site node has a phase, the channel `phaseChanged`, a table of
partners, a pool of outgoing connections (`connPool`) and a request table.
`onMessage` updates the table and may change the phase; `Bootstrap`, `Discover`,
`Join`; `getConn`, `SendOneWay`, `RequestReply`, `Route`; `Close`. Node ids are
128-bit numbers on a ring.

**serialization**: `Marshal`, `Unmarshal` by reflection, compressed integers,
GUIDs, struct scopes that let versions of a struct differ. No state.

**naming** (`naming.go`): a client of the naming gateway over one transport client;
its state is a filter counter. `RegisterFilter` makes two requests, `Ping` and
`GetApplicationList` one; `onMessage` acknowledges a notification and starts the
user's callback. **common**, **examples**, generated `String` methods: types,
programs and text.

### How they interact

`RequestReply` puts an entry in the table, writes a frame and waits; the read loop
of `Wait` parses frames and calls `Feed`, else the message callback. In a client
the callback runs in the read loop, in a server in a goroutine of its own. The
federation node is the callback of its server and of all its client connections
and feeds a request table of its own. Its pool runs `Wait` in one goroutine per
connection and takes the connection out when `Wait` returns. The lease agent runs
one goroutine per incoming connection; users call `Ping` and `PingLoop`. A piper
stands between a client and a gateway: it greets both, and two goroutines copy
messages from one connection to the other until one of them fails. A naming client
answers notifications in its read loop while other goroutines write requests on the
same connection, two writes per frame.

### What is hard

Nothing is persisted, so there is no recovery from crashes. What is hard is
concurrency: `sync.Map`, `sync.Once`, unbuffered channels that are closed or
replaced to signal, entries read under one lock and written under another, and
contexts that expire between two of these steps. The peer may answer twice, late,
or leave. The hazards are listed at their lines in `PROJECT.json`, with the
properties that would catch them and with what those leave out. Where the code
itself goes wrong and nothing in the repository promises otherwise, no property
catches it and the hazard's note says so.

### What makes each part correct

* request table: an entry has one owner, a call gets the answer to its own id,
  nobody waits for what cannot come, nothing is left behind;
* heartbeat: success means the peer answered this ping; a false alarm has a cause;
  the goroutines that stay blocked are bounded; a ping returns;
* connection: after `Close` every call ends and `Wait` returns; the whole is an
  at-most-once exchange of requests and answers;
* stream and tunnel: a reader finds the boundaries of frames, through the handshake
  and behind a piper; where it does not, two goroutines wrote at once;
* piper: it ends with any of its parties and leaves no connection open, and requests
  and answers that pass through it stay what they were;
* naming client: success means the gateway accepted every request of the call; a
  callback may call;
* lease: an open session receives its pongs, success needs a pong, a loop ends
  with its context unless a silent peer keeps its write, `Agent.Close` reaches every
  session stored before it, a closed agent does not dial;
* site node: hearing of a routing partner starts the join however handlers
  interleave, whoever is woken sees the new phase, `Bootstrap` ends with its context
  (a phase change may go unseen until then) and `Discover` ends;
* pool: a connection or an error, dead connections make room, nobody removes
  somebody else's connection;
* codecs: what one version writes another reads, to the byte; integers keep their
  value and sign; headers and body of a message are told apart; range membership and the choice of a partner are sound.

## 2. Modules

| module | models | composes |
|---|---|---|
| `RequestTable` | `requesttable.go`, `message.go`, `RequestReply` | |
| `Heartbeat` | `Ping`, `handleTransportMessage`, `Close` of `pingCh` | |
| `Connection` | `conn.go` | `RequestTable` and `Heartbeat`, by INSTANCE |
| `CallSpec` | abstract: what `Conn.RequestReply` promises | implemented by `Connection`, and by `Proxied` |
| `Stream` | `frame.go`: frames written in two steps on the two streams of a piper | |
| `Tunnel` | `tls.go` | extends `Stream` |
| `Piper` | `piper.go` | extends `Tunnel` |
| `Naming` | `naming.go`, `client.go` | extends `Tunnel` |
| `Proxied` | a naming client, a piper and a gateway | `Piper` and `Naming`, over one `Tunnel` |
| `LeaseAgent` | `lease/agent.go` | |
| `SiteNode` | partner table, phases, `Bootstrap`, `Discover` | |
| `ConnPool` | `getConn`, `cachedConn`, `SiteNode.Close` | |
| `Compress` | `bytecompress.go` | |
| `Serialization` | `marshal.go`, `unmarshal.go` | `Compress` |
| `MessageHeaders` | `messageheaders.go`, the frame around a message | |
| `LeaseBody` | `lease/serialize.go`, `lease/frame.go` | |
| `NodeRing` | `nodeid.go`, `nodeid_range.go`, closest partner, `connectToNode` | |
| `CodecCalls` | a caller of these functions, `Serialization`'s apart | extends `Compress`, `MessageHeaders`, `LeaseBody`, `NodeRing` |
| `Codecs` | a caller of all these functions | extends `CodecCalls`, `Serialization` |

`MC*` are the instances for TLC, `*Proofs` the theorems about the module of that name;
`CodecProofs` has those about `CodecCalls` and the four modules it extends.
`ConnectionProofs` instantiates the proof modules of its two parts.

### How state and actions correspond to the code

One action is one operation on shared memory: one call on the `sync.Map`, one
channel operation, one lock, one write to the network. What happens between two
such operations in one goroutine is part of the action. A variable `pc`, `stage`,
`act` or `closer` says where a goroutine is.

* A `sync.Map` is a function; `LoadAndDelete`, `Store` and `LoadOrStore` are
  atomic; `Range` visits keys one by one and may miss what is stored meanwhile.
* A send on an unbuffered channel and its receive are one step that needs both. A
  goroutine blocked in a send (`hand`, `handlers`) stays until that step, or
  panics if the channel is closed.
* A channel that is closed and replaced is numbered: waiting on number `n` ends
  when the current number is greater.
* `RequestTable.PendingLookup`/`PendingClose` are the two halves of
  `PendingRequest.Close`: it looks up by id and closes what it found, which with
  equal ids may be another call's entry.
* `Connection` decides who takes the steps: `Feed` is the read loop's,
  `RequestTable.Close` runs inside `closeOnce` after `conn.Close`. The peer is the
  environment, with one FIFO of unread frames.
* `LeaseAgent`: a ping is in `"writing"` from its call to the end of its write, which
  a peer may keep for ever (`Stalls`): with TLS the first write waits for the handshake
  (`agent.go:276`, `293`), any write for room in the socket, and neither looks at the
  context.
* `SiteNode`: `Look` reads the entry under `RLock`, `StorePartner` writes it under
  `Lock`, then `SetPhase`, `CloseChan`, `RenewChan` under `phaseLock`. The vote pings
  of `Bootstrap` and `Discover` only bring headers, which may be looked at in any
  state; that several pings of a round may go to one partner (the address of a loop
  variable, `sitenode_boot.go:56-62`) changes nothing else and is left out.
* `ConnPool`: the pool is one slot, because all that matters happens at one
  address. `Once` lets one sender dial while others wait in `ReturnConn`.
* `Stream` has four ends: the client and the piper's `down`, the piper's `up` and the
  gateway. `wire[e]` holds the chunks on their way to `e`; a frame is a `header` and
  a `body`, written by `WriteHeader` and `WriteBody` where other goroutines of that
  end may write in between, and by `WriteFrame` where there is one writer. A reader
  that meets a torn frame may read junk (`Skip`) and then fail at any time, or wait
  for bytes that do not come.
* `Tunnel`: `flight[e]` counts the flights of the handshake an end sent or received.
  A chunk is a framed `flight` or a bare `record`, by what its writer believed of
  the handshake, and is understood only by a reader that believes the same.
* `Piper`: `handler` is the goroutine of `handle`, `copier[e]` the loop that reads
  end `e`, `carry[e]` its message, `errors` the channel of `pipe`.
* `Naming`: a call is `stage`, `step` (which of its requests) and `outcome`. `reader`
  is the read loop with `onMessage`, `hand` its message. The request table is what
  `Connection` shows it to be.
* `Codecs` calls one function with one input per behaviour, so that the functions
  are checked as invariants over all inputs of a run. Those whose loops are recursive
  functions over numbers are called in `CodecCalls`, so that its invariants can be
  proved; `Serialization` recurs over types with operators, which the prover cannot
  read, and is called in `Codecs`.
* The loops: `Shifted` is `temp` of `writeCompressed` round by round and `LastRound`
  the round that leaves it, `Gathered` the value of `readCompressed` and `Ends` the
  rounds that may leave it; `Parse` is `parseFabricMessageHeaders` with one
  `ReadHeader` per turn; `LeadingConnects` is how often `nextLtFrame` calls itself.

What is abstracted: contents of messages, wording of errors, time (a timeout may
happen whenever the code waits on one), cryptography and the order of bytes inside
a chunk. In `Connection` a frame is one step, because `Proxied` is about torn ones:
there a torn frame is one the peer does not answer or after which it leaves. Writes
do not block in `Connection` and `Proxied`, which is right for the few messages there
are; the upstream connection of `Proxied` has no TLS. What a reader makes of junk is
a message that is junk or an error; that a length read from junk can make it allocate
without bound or slice out of range (`message.go:65`, `frame.go:64`, `piper.go:118`)
is not modelled.

## 3. Runs

| run | instance | shows |
|---|---|---|
| `request_table` | 2 calls (one may expire, one has a preset id), 2 feeders, 3 answers of which 2 to one id, ids modulo 3 | ownership, correlation, no lost waiter, no leak; 54 thousand states |
| `heartbeat` | 3 pingers, 2 may give up, 3 ticks | stray answers are bounded, false alarms explained, pings return; 42 thousand |
| `heartbeat_after_close` | 2 pingers | violated, see findings |
| `connection` | 2 calls of which one may expire, with an answer to one id that may come twice, or 1 call and 1 ping that may be given up; 1 closer beside the read loop's own `Close`; fair | `Connection` implements `CallSpec`; no late waiter; what can block the read loop; calls and `Wait` end; 167 thousand |
| `connection_ping` | 1 call that may expire, its answer, 1 ping | violated, see findings |
| `lease` | 2 sessions of one address and a ping, a session and a `PingLoop`, or sessions of 2 addresses; a handler, a closer, `Agent.Close` | safety and liveness of the agent, over peers that may keep a write; 279 thousand |
| `lease_close` | 1 session, 1 ping | violated, see findings |
| `site` | a seed, a node that is no seed, 2 handlers, 3 headers, instances up to 2 | safety and liveness of the node; 151 thousand |
| `site_seed_joins` | a seed with 2 headers of one instance | violated, see findings |
| `proxied` | a registration, a notification and its callback's query, which may expire, through a piper, with TLS and without; client, gateway and piper's set-up may end at any time, fair | success means acceptance, only overlapping writers tear frames, only a failed set-up leaks, the pipe and the calls end, callbacks complete, requests still implement `CallSpec`; 225 thousand |
| `pool` | 2 senders, 3 connections one after the other, `SiteNode.Close` | safety and liveness of the pool; 111 thousand |
| `codecs` | structs of 25 by 3 field types read by four versions, integers near a power of two in 24 bits, messages with up to two calls that set headers, ring ids of 2 limbs of 3, lease messages behind up to two connect frames | the six properties of the functions; 104 thousand |

### Bounds, and why they are enough

* `IdSpace = 3` against three ids in play makes the counter wrap and meet the
  preset id; in `Connection` ids do not wrap, because collisions are the subject of
  `request_table`. Two calls and two feeders are what a race for an entry needs;
  the third answer is a duplicate.
* `Together` says which calls, pings, sessions and messages may have begun in one
  behaviour. In `connection` these are two calls with `m1` and `m2`, two sendings of an
  answer to id 2 (whichever call has it; `m2` only after `m1`, as they are the same
  message), or a call and a ping. So a duplicate can meet an answered call, an expired
  one and another that waits. In `lease` two pingers do not act together, since they only
  read what they share, nor a ping with sessions of two addresses.
* `MaxTick` counts pings. Three allow a ping given up, one disturbed by its answer,
  and one disturbed by the answer of the second. `PingReturns` excuses a pinger
  when the bound is reached.
* `MaxInbox = 1` bounds unread frames in `connection`: the peer waits until the frame
  before was read, which loses no order of reads, only of what it sends unasked.
* `Flights` are the three of TLS 1.3, of which the client sends the last: the client
  writes its greeting raw before the piper has completed its side. `proxied` has one
  call of two requests and one of one request on one connection, started by a
  notification: three goroutines that write.
* `LengthLimit = 36` for 2^16: header data of 27 and 28 cells fill it or exceed it
  by one, alone or with a second header.
* `MaxGen` bounds broadcasts per session: one pong, or one close; the last
  broadcast of a close is not bounded away. `lease_close` needs two.
* `Round = 1` stands for the 5 rounds without news of `Discover`; `MaxInstance = 2`
  lets a partner restart once after it was heard of.
* `MaxPartners = 3` is the first length with a partner between two others;
  `MaxConnects = 2` is none, one and one behind another.
* `MaxConn = 3` lets a connection die, its successor die and a third be dialed.
* `WordBits = 24` for 64: four groups of seven bits, each loop's first, middle and
  last iterations. `Limb = 3` for 2^64: borrow, no borrow, equal limbs.
  `HeaderUnits = 5` for 92: offsets are relative to it.

All but the last group are also free of bounds in the theorems, except `MaxTick`,
`MaxGen` and `MaxInstance`, which there are arbitrary numbers.

Deadlock is off where the system stops: all calls made, everything closed.
`request_table` checks it: its steps go on as long as messages may arrive.

### Fairness

Weak fairness of a goroutine's steps says the Go scheduler runs what can run.
Strong fairness is assumed in three places: `Lock` of `pinglock`, as `sync.Mutex`
goes to starvation mode after 1 ms, and the `ctx.Done()` cases of Bootstrap's and
PingLoop's `select`, which choose at random among ready cases. A dial ends: an
assumption about the network, since the vote pings of `Bootstrap` and `Discover` dial without a
deadline. A lease ping's write ends if its peer is not silent, and fails once its
connection is closed; it is not assumed to end otherwise. In `Proxied` a
connected gateway reads, and answers or refuses what it read. In `Heartbeat`
and `Connection` the peer echoes heartbeats while connected; there nobody is obliged to
answer a request, to start or give up a call, to reject, leave or close.

## 4. Proofs

All theorems hold for every value of the constants, under the `ASSUME`s of the
component's module: sentinels are no members of the sets they stand beside, actors
are disjoint, bounds are natural numbers, functions have the domains they need, and
each notification has a callback of its own. Nothing is assumed of the environment.
TLC evaluates the assumptions on every run.

The state machines have an inductive invariant (`IndInv`; `IInv` in `ConnectionProofs`
and `ProxiedProofs`), proved in three facts: `Init` implies it, each step keeps it, it
implies the properties. There is a lemma per conjunct, split by action. TLC checked
each of them as an invariant of the component's instance before it was proved.

* **RequestTable.** `SingleOwner` is not inductive: that a feeder's entry is not
  returned to its caller needs that what an actor holds is what its own step
  looked up (`HandKnown`), and that entries are filed under their own id
  (`FiledById`). `NoLeak` needs that the last of the two closes of a call has
  removed its entry before it closes the channel (`LastCloseRemoved`);
  `CancelledOnlyByClose` needs why a channel is closed (`ClosedWhy`).
* **Heartbeat.** `LockHeld`: between lock and return there is one pinger, with the
  newest tick. `TickOrder`: ticks are unique, and in one place at a time. A stray
  answer is not younger than some cancelled tick (`StrayHasCause`), so what a
  pinger wrongly receives has a cause. `StrayBound` counts: a false alarm takes one
  stray out and leaves its own answer as one, so no step that adds a stray does so
  without a ping newly given up (`GivenUpOnce`), except the `Close` that interrupts
  the one waiting ping. That exception holds only once no ping waits
  (`StraysCounted`), which is what makes the bound inductive (`CountInv`).
* **Connection.** Its request table and heartbeat are instances, and so are their proofs:
  once a step of the connection is shown to be a step of each part or to leave it
  alone (`TableStep`, `HeartbeatStep`), the parts' invariants are kept by the parts'
  own theorems. Hence `TableIsRespected` and `HeartbeatIsRespected`: every theorem
  about the parts holds of the whole. A heartbeat is the hard half: the frames of the
  heartbeat, in the one FIFO of the stream, must be the sets `Heartbeat` speaks of, and
  no frame may be there twice (`InboxOnce`). `NoLateWaiter` needs `StillDue`: from the
  moment the network is closed nobody begins to wait, so the entry of who waits is
  still before the `Range`, which may miss entries. `OnlyCancellationWedgesWait` needs
  why a call stopped waiting (`Decided`), and for a call that was cancelled that its
  channel is closed.
* **Connection implements `CallSpec`.** A call's status, the ids written and the
  messages unread or in the read loop's hand are mapped. A reply moves from the inbox
  to the hand and is answered from there (`CarryHeld`), or is lost when `Close` or an
  expired context gets there first; the peer replies only to what was written
  (`AskedFor`). From `CallSpec` follows `AnswersAreOwned`, of the code's own variables.
* **Proxied.** `FramesAreWhole` needs what stands on each of the four wires: first the
  flights the reader is behind (`InStep`, which says how far the two ends of the
  handshake can be apart), then whole frames (`Framed`), of which the last one on the
  client's wire may lack its body while its writer is at it (`OneBegun`). All of it is
  claimed only where no two writers overlapped; there a reader may meet anything.
  `Writers` says who may write when: nobody writes frames before the
  handshake is behind him. `OkMeansAccepted` needs the place of a call among its
  requests with what those before were answered (`InOrder`), and that an answer in the
  reader's hand was posted. That a message answers once needs that what the gateway
  posted is in at most one of five places (`InOnePlace`), for which all steps are
  brought to a few ways a message can travel (`MessageFlow`, `RequestFlow`); and a
  callback runs once because its notification is gone. `PiperImplementsCalls` maps the
  requests of the naming client to the calls of the same `CallSpec`, and
  `AnswersAreOwned` says what follows for them.
* **LeaseAgent.** `GenCountsPongs`: until a session is closed the channel number
  counts its pongs. With `ChIsRecent`, which says a ping waits on a channel no
  older than its write, success needs a pong. `OpenSessionIsRegistered` rests on
  what the map and closers refer to (`EntriesAreOpen`, `TargetsAreOpen`).
  `AgentCloseReaches` follows from it with `VisitedEntriesAreLate`: behind the `Range`
  the map holds only what was stored since, because each visit deletes what it finds.
* **SiteNode.** `PhaseLockHeld` and `ChClosedByHolder` say who is in the critical
  section and that the channel is closed only there, after the phase was set, so
  woken readers see the new phase. `RoutingPartnerStartsJoin` is inductive with
  the list of places where a handler still has to act (`WillJoin`).
* **ConnPool.** `DialerIsAlone`: one sender dials per connection. `SettledConns`:
  a finished dial left a connection or an error. `PooledUntilClosed`: before
  `SiteNode.Close` every live connection that was made is the pooled one, so what a
  connection takes out at its end is itself.
* **NodeRing.** `cmp` is a total order, `sub` inverts addition on the ring, borrow
  included, `Contains` is wrong in one way only, and an exact send reaches its node or
  none, for limbs of any size and tables of any length.
* **Induction.** The prover has no induction over data: the library's theorems take an
  operator as a parameter. `CodecProofs` does without: numbers are well founded, so a set of
  numbers that is not empty has a least one (`NatMin`, from the library's `WFMin`,
  which takes a set), and a set that has 0 and with each number the next has all
  (`NatInd`). A proof by induction defines that set and cites `NatInd`. That a
  recursive function is what its definition says needs that there is one (`GoesFar`,
  `Recursion`: of a start and a step, both sets) and, where two are compared, no
  other (`GoesOnce`); `Pow2Def`, `ShiftedDef`, `GatheredDef`, `FlattenIs`, `ParseIs` and
  `StoredIs` are that for the functions of the modules.
* **Compress.** `LoopEnds`: seven bits a round leave the sign alone, in as many rounds
  as the buffer has bytes (`LastRoundIs`). `GatheredBack`: the reader's word after
  round `k` is the writer's rest before the round counted `k` from the end, modulo the
  word (`ModStep`). No byte but the last says that nothing follows, so no prefix is
  taken for the whole (`PrefixFails`). Assumed of sizes: they fit the word, and are
  no multiple of seven, where `(size*8+6)/7` would be a byte too small for an unsigned
  value; the code's are 2, 4 and 8.
* **LeaseBody.** `FlattenAt`: in sequences joined to one, each is found behind what
  comes before it, which is where `Layout` puts it (`DescriptorIs`). `FrameBack`:
  whatever follows a frame, and any number of connect frames before it, the body read
  is the body written.
* **MessageHeaders.** `Reads(w, h, h2)`: cells `w` turn headers `h` into `h2` whatever
  comes after them. It holds of one header that fits its length field
  (`ReadsHeader`) and of parts that are joined (`ReadsAll`), hence of the fields and the
  custom headers in any order. That the loop has ended after as many turns as there
  are cells is `TurnsEnd`; that a type keeps the values of the first call, `StoredIs`.
  Assumed: a type of custom header is none of the fields nor `Invalid`, and a zero
  value has one encoding.
* **CodecCalls.** In every call the input is one of these (`CallInv`), so the run's
  invariants are theorems too.

`NoDialAfterClose` and the refinements are properties of steps,
proved from the invariant of their module. No theorem has a hypothesis on behaviours
beyond `Spec`: fairness is not used.

Only model-checked:

* liveness and `ENABLED`, which the prover does not handle: `PingReturns`,
  `CloseEndsCalls`, `WaitReturns`, `CloseUnlocksWaiters`, `LoopReturns`,
  `CtxEndsBootstrap`, `DiscoverEnds`, `DeadConnsLeave`, `PipeEnds`,
  `CallbacksComplete`;
* `VersionTolerant`: `Serialization` recurs over types inside types, with RECURSIVE
  operators, which the prover cannot read.

## 5. Findings

* **Read loop blocked for ever** (`connection_ping`). `Feed` takes the entry out and
  then sends on its unbuffered channel; if the call's context expires in between,
  nobody receives. The connection stays open and is not read any more.
  `OnlyCancellationWedgesWait` shows it is the only way without shared ids, and in
  `pool` it is why a dead connection may stay pooled (`FeedBlocks`).
* **Panic in Close** (`heartbeat_after_close`). A goroutine with an unclaimed
  heartbeat answer blocks in its send on `pingCh`; `Close` closes the channel.
* **Ping that Close does not unlock** (`lease_close`). The channel is taken after
  the write, and `Close` broadcasts once.
* **Seed that is ignored** (`site_seed_joins`). A partner's change of phase without
  a new instance is dropped, so `Bootstrap` waits for a seed that already routes.

Met on the way and recorded among the hazards, where nothing in the repository says
otherwise: `closestPartnerNode` returns the last partner it iterated over (address
of the loop variable); `Contains` forgets the part of a wrapping range before zero;
`dataAtList` refuses an endpoint that ends the message, as in messages this code
writes; `AppendCustomHeader` appends nothing after the first header; two sessions of
one lease address unregister each other; a session stored after `Agent.Close` is never
closed, and a silent peer holds `PingLoop` in its write; a phase change during the vote
pings wakes nobody; two goroutines
that send at once tear frames, so that a request made while a notification is being
acknowledged may never be answered on a connection that stays open; a refused
`GetApplicationList` uses a nil list; the piper keeps the upstream connection open
when its set-up fails.

## 6. Not modelled

* The accept loops of server, piper and lease agent, which only start goroutines that
  are modelled; `Agent.Wait`'s loop has no exit once the listener is closed.
* TLS between piper and gateway, which is the tunnel between client and piper over
  again; `crypto/tls` itself; the contents of negotiation headers, which the code
  does not read.
* `NamingClient.Ping`, which is `RegisterFilter` with one request, and what the
  bodies of naming messages say, apart from a refusal.
* `SiteNode.Join`, one `Route` whose answer is returned as it is; node id generators,
  which are hash functions; parsing and printing of ids and GUIDs; `common`,
  generated code and the examples.
* Values of fixed headers outside what the program sends (a negative retry count).

## 7. Plan

The order was: what every other part rests on first (request table, heartbeat,
connection), then the other two machines with goroutines of their own (lease
agent, site node and pool), the pure functions, and last the composition of stream,
tunnel, piper and naming client. Every safety invariant and action
property of a run is now a theorem, but for `VersionTolerant`. What is left:

1. **Serialization** with its recursion over types as a recursive function over
   their depth, and `VersionTolerant` by the induction that `CodecProofs` has.
2. **Gossip**: two `SiteNode`s that exchange headers, for what is learnt from whom.
