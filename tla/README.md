# snell-rs: a TLA+ verification development

This directory models snell-rs, an asynchronous implementation of the Snell
proxy protocol (`src/`, a Cargo workspace), in TLA+. TLC checks the models on
small instances, and TLAPS proves the invariants that matter most for all of them.
`PROJECT.json` lists the components, runs, hazards, theorems, and the source
lines each definition translates.

## The system

A *client* process accepts SOCKS5 connections from local applications, opens a
tunnel for each over a Snell connection, fresh or pooled, and relays bytes. A
*server* process accepts Snell connections, finds out which protocol version a
client speaks, serves one request after the other on a reused connection, and
relays to destinations directly or through an upstream SOCKS5 proxy. UDP travels
as framed datagrams inside a Snell connection.

| part | source (`crates/`) | state | operations | what is hard |
|---|---|---|---|---|
| Buffer, Reservation | `snell-protocol/src/buffer.rs` | storage, live range, slot | reserve, seal, cancel, commit, consume, compact | absolute offsets across compaction, cancelled records |
| Record codecs v4/v5, v6 shaped, unshaped, raw | `snell-protocol/src/codec/` | encoder state, nonce, sequence, chunk window; read step, pending count | reserve, finish, decode, consume | nonces out of step after a failure, decode-ahead offsets |
| Record lengths: chunk window, traffic profile, first padding, salt block | `.../codec/v4/chunk.rs`, `v4/padding.rs`, `v6/shaped.rs`, `v6/profile/`, `v6/salt.rs` | write window, first-record state | budget, commit, final padding, mixing, shuffle | room is reserved before the lengths are known; both sides must compute the same |
| Control messages, SOCKS5, addresses | `control/`, `socks5.rs`, `address.rs` | parse state | encode, parse | input in pieces, and with the next message behind it |
| Crypto | `crypto/` | none | seal, open, derive | (external: ring, argon2) |
| Session I/O and relay | `snell-runtime/src/session.rs`, `bufio.rs` | batches, phases, leases | pumps, handshake reads and writes, timeouts | short writes, ends behind batches, cancellation |
| Buffer pool | `snell-runtime/src/buffer.rs` | sharded cache, byte count | get, ensure, release, drop | lock-free interleavings |
| KDF gate | `snell-runtime/src/kdf.rs` | two semaphores | derive | dropped futures |
| Replay cache | `snell-runtime/src/replay.rs` | queue and index | insert | time read before the lock |
| Client: accept loop, SOCKS5, reuse pool | `snell-runtime/src/client/` | pool, tasks | take, put, expire, open, relay | stale connections, retries |
| Client UDP associations | `client/udp.rs`, `udp.rs` | slots, session | admit, pump, forward | cancellation in select! |
| Server: accept loop, admission, auto detection, sessions | `server/mod.rs`, `auto.rs` | permits, candidates | detect, serve, next request | partial input, reuse |
| Server UDP | `server/udp.rs` | flows, slots | admit, send, recv | cancellation in select! |
| Outbound | `server/outbound.rs` | SOCKS5 exchange with the upstream | connect, associate, send, recv | bytes behind a reply, upstreams that never answer |
| Configuration | `snell-config`, `snell/src/main.rs` | sections read so far | parse, validate | order, spelling and repetition of settings |
| DNS, platform | `dns.rs`, `platform/` | none | resolve, socket options | (external) |

## Modules and the code

| module | models | kind |
|---|---|---|
| `KdfLimiter` | `kdf.rs`: the gate in front of key derivations | component |
| `ReplayCache`, `MCReplayCache` | `replay.rs`: the salts a server has seen | component; symmetry |
| `RecordCodec` | `buffer.rs` and `codec/` of `snell-protocol`: records of all four codecs in a compacting buffer | component |
| `Profile` | `v6/profile/mod.rs`: derivation of the profile, and the lengths it gives | pure operators |
| `RecordShape` | `v4/chunk.rs`, the v4 encoder's padding, `v6/shaped.rs`: the lengths of the records of one encoder, and the exchange of padding and payload bytes | component |
| `V4Padding` | `v4/padding.rs`: the padding of the first v4 record | algorithm |
| `SaltBlock` | `v6/salt.rs`: the salt block of the first shaped record, at both hosts | algorithm |
| `MCRecordShape` | the three above for TLC | instance |
| `BufferPool` | `buffer.rs` of `snell-runtime`: leases from a sharded, bounded cache | component |
| `ByteStream` | what one direction of a tunnel promises | abstract specification |
| `Relay` | `session.rs`: sending pump, wire, receiving pump | composition, refines `ByteStream` |
| `Reuse` | client pool and sessions with the server's request loop | composition |
| `ServerHandshake`, `MCServerHandshake` | accept loop, permits, detection and exact handshakes, replay check | composition; streams |
| `Udp`, `MCUdp` | client associations, Snell sessions, server associations | composition; addresses and symmetry |
| `Messages` | `control/`, `socks5.rs`, `address.rs`: encoders and incremental parsers | pure operators |
| `Negotiation` | `client/socks.rs`, `client/mod.rs`, `session.rs`, `server/mod.rs`, `outbound.rs`: how a session is set up, end to end | composition |
| `Configuration` | `snell-config`, `snell/src/main.rs`: files and arguments | component |
| `MCNegotiation` | the two above for TLC | instance |
| `KdfLimiterProofs`, `ReplayCacheProofs`, `RecordShapeProofs`, `RecordCodecProofs`, `BufferPoolProofs`, `ReuseProofs`, `ServerHandshakeProofs`, `UdpProofs` | the theorems | proofs |

How state and actions correspond to the code:

- **KdfLimiter.** `free` and `queueFree` are the two semaphores, `waiters` the
  line inside tokio's semaphore, `orphans` the closures whose future was dropped.
  There is one action per stretch of `derive` between two awaits, and one per
  await at which the future can be dropped (`LeaveLine`, `RefuseGrant`,
  `Orphan`). That a returned permit goes to the longest waiter is tokio's
  contract and is marked external.
- **ReplayCache.** `insert` is two steps, the clock read and the critical
  section, because another thread can get in between.
- **RecordCodec.** The buffer is a sequence of tokens with a live range, the
  encoder and decoder keep nonce, sequence and read step. A sealed token records
  the nonce and sequence that open it. `Reserve`, `PayloadMut`, `Cancel`, `Seal`
  and `SealFails` are the life of a `Reservation`; `Read`, `DecodeSalt`,
  `DecodeHeader`, `DecodeBody` and `Drain` that of a decoder which runs ahead of
  its consumer. A prefix counts as payload, the capacity of a buffer is its
  maximum, and sequence numbers wrap at `SeqModulus`. Every payload size up to a
  bound is allowed; which sizes the code chooses is in `RecordShape`.
- **RecordShape, Profile.** Lengths are in bytes with the code's own constants.
  The profile's PRF is any function, so a record takes any draws; both hosts
  compute the same ones. A record is reserved (`Reserve`), then cancelled or
  sealed; in the shaped codec the padding is found by a loop (`RaiseTarget`)
  before `SealShaped`. Time passes between any two steps, and is kept only
  relative to the idle limit. A caller may commit any length up to the room
  there is: the theorems hold for every set `Commits` of lengths, TLC takes no
  byte, one byte and all of the room. `swapped` is the set of byte positions that are on
  the wrong side; the peer's `OpenV4` or `OpenShaped` undoes the exchange.
- **V4Padding.** The padding is the set of its one bits. Ratios are thousandths
  where the code has floating point; `Place` is one round of the loop of
  `fill_padding_bits`, `word` the position in the block of random words, whose
  refill may fail.
- **SaltBlock.** Sender and receiver shuffle with the same draws; the masked salt
  goes into the block and comes out of it.
- **BufferPool.** One action per atomic operation or queue call of `get`, `put`
  and `ensure`; there are no locks.
- **Relay.** One direction of a tunnel. A pump that returns `Pending` is polled
  again from its top, so a pending pump is one waiting in front of an action. The
  end of the connection between two records is a clean end, within one an error.
- **Reuse.** Sessions take a pooled connection or dial, retry once when the
  pooled one turns out stale, relay, and put it back; each connection has the
  server's task at its other end. Connections with `reuse = false` are not
  modelled: they are never pooled.
- **ServerHandshake.** A connection sends a stream of tokens that a record
  boundary list divides; both detection candidates copy them from one prefix and
  open records one at a time (`Advance`), `Decide` is the bottom of the loop in
  `detect_inner`. The exact protocols are `ReadExact`, `OpenExact`,
  `DrainRecord`, `DrainRead`; a zero chunk ends the drain and is taken. The replay cache is a set here; its window and
  capacity are in `ReplayCache`. With automatic detection early payload stays in
  the receive buffer, as in the code.
- **Udp.** A record travels in two pieces, so that `select!` can cancel
  `decode_once` between them. A write waits for room in its direction of the
  connection. Idle timers can fire only where `select!` polls them and only when
  nothing is ready. Metrics other than the live count are left out. Neither side
  ever sends a zero chunk in a UDP session, so that branch is left out.
- **Messages.** A byte is a number, or the i-th byte of a name, an address, a
  port or a payload, so that a parser that starts one byte off reads nonsense. A
  parser returns `need`, an error, or a value and how many bytes it took.
- **Negotiation.** One application, one client session, one server session, one
  remote or upstream proxy. Each writes its next message as soon as it can, and
  the client may cut a message into two records, so that readers find less than a
  message or more. Records are taken as whole plaintexts. An await can end in an
  error or a close by the other side, and in a timeout where the code has one.
  The writes at the end of the setup are steps of their own, because they may
  find no room: the Tunnel reply (`Answer`; for CONNECT `AnswerTimeout` cuts it
  short), `WriteReject`, which has no timeout and may have to wait behind the
  record that was cut short, and `WriteEarly`, the early payload to the remote
  end. `StreamsIntact` is about bytes: that `drain_early_payload` takes the zero
  chunk of a client that ends its stream early is modelled, and nothing is
  claimed about where that end shows again.
- **Configuration.** The lines of a file are read in every order. A name has two
  spellings that differ in case; values are words with the properties the parser
  asks for (being a socket address, a number, a length). `SettingsInEffect` is
  about the keys a role asks for in its own section: each is in effect, and no
  value comes from elsewhere. Other keys are ignored, as the tests and the
  changelog say, and so are the parameters of `tcp_brutal` while it is off.
  Whether a connection then takes `tcp_brutal` is outside the model: the server
  only warns (`server/mod.rs`, `handle_server`).

Operators whose comment begins with *Mutant* are the faulty variants used to see
that the properties can fail; no specification uses them.

## What TLC checks

All runs are exhaustive on their instance. "States" is distinct states.

| run | question | instance | states |
|---|---|---|---|
| `kdf_gate` | are permits and waiting places conserved with futures dropped at every await, does a queued task get its turn? | 5 tasks, 2 running, 2 waiting | 13 868 |
| `replay_window` | is no salt accepted twice within its window, and do queue and index agree, with the clock read outside the lock? | 2 threads, 3 salts, capacity 2, TTL 2, time up to 4, 4 acceptances | 54 213 |
| `record_codec` | does the decoder return exactly what was sealed, and all of it, with cancelled and failed records, compaction and decoding ahead; is no nonce used twice? | 4 codecs, 3 attempts, payload up to 2, padding up to 1, sequence modulo 2, an input buffer of one record | 62 841 |
| `record_shape` | does every record fit the room reserved for it and the peer's checks, and is there room for data in it, for old budgets and any profile; are exchanged bytes put back; does the loop for the target length end; has the first v4 padding the ones it was given; is the salt extracted from its block? | v4 with the least and the greatest padding, 3 profiles at the ends of their ranges, 4 sizes, 3 draws, sequence modulo 12; 7 bodies, 3 jitters; blocks of 3 and 4 with 2 salt bytes and 2 rounds | 291 936 |
| `buffer_pool` | is every block in one place, every lease returnable, the leased byte count exact; does the scan in `ensure` end while others push and pop? | 2 tasks, 2 blocks, 2 classes, 2 shards of one block | 138 334 |
| `relay` | does a direction of the relay implement `ByteStream`; are batch offsets right after short reads and writes; is nothing read past a kept connection's zero chunk; does every byte arrive without another behind it, and do both pumps end? | 3 bytes, records of up to 2, batches of 2, wire of 5, receive buffer of 7 | 175 187 |
| `reuse` | has a connection one owner, does no session read another's records, is no connection pooled that still has something to say; does each request end, whatever servers do; does a server task end after its client has gone? | 2 sessions, 2 connections, pool of 1, 1 byte each way | 62 091 |
| `server_handshake` | do permits balance, is no token lost between detection and session, is a valid client always recognised, does no salt open two sessions; does every handshake end with silent clients and stuck derivations, does the listener survive running out of descriptors? | 2 connections at once, 1 or 2 permits, 4 streams, prefix 4, 3 protocol selections | 79 304 |
| `udp_sessions` | are control and session slots exact; one client per association; is no datagram lost or reordered by a cancelled read? | 2 associations, 2 connections, one session slot on each side, 3 addresses, 4 kinds of datagram, 2 datagrams, 2 replies | 556 978 |
| `udp_ends` | does an association end with its control connection, the server's side with the client's? | 2 associations, 1 control slot, 2 connections, 2 datagrams, 2 replies | 61 149 |
| `negotiation` | is what the server connects to what the application asked for, is no stream byte lost or taken for part of a message, is the application answered truthfully and on every path, does the server's setup end; is every setting of the role's own section in effect, and none of another section? | 15 requests (CONNECT, BIND, UDP; IPv4, IPv6, names, names that spell an address, a refused name), 2 kinds of client, direct and upstream outbound, 3 bind addresses, 3 sources; 47 files and 9 command lines | 85 185 |

`udp_idle` shows where a comment and the code disagree. `udp.rs:24` says "A
session that relays nothing for this long is closed." Client and server await
their writes inside the handler of `select!`. When both directions of the
connection are full, each waits for the other to read, and neither polls its idle
timer. The session keeps its slots until the application closes its control
connection (`udp_ends` shows that this does end it).

One more comment is not exact, on the safe side: `replay.rs:47` says that after
the expiry loop "every salt still indexed afterwards is within the TTL". The
clock is read before the lock, so entries can be out of order by time, and the
loop stops in front of an expired one. A salt is then rejected a little longer
than the TTL; none is accepted earlier (`NoEarlyReplay`, proved).

`SettingsInEffect`, `OnesExact` and `SaltSurvives` are about machines that share no
state with the other one of their run: a behaviour of `MCNegotiation` or of
`MCRecordShape` runs one machine, and their state spaces add up.

### Bounds

- Sizes (buffers, windows, prefixes) are a few tokens: enough for a batch to be
  split, for a buffer to be full with a record incomplete, and for every
  comparison to be met with equality and from both sides. `RecordShape` has the
  code's own sizes instead; its profiles, paddings and hints are taken at the
  ends of their ranges, where the lengths are extreme.
- Limits (permits, slots, pool, cache) are 1 or 2, with more tasks than that, so
  that each limit is reached and released while others wait.
- Two concurrent tasks produce every pairwise interleaving; tasks interact only
  through the shared component. What is proved holds for any number of them.
- Counters that only grow (bytes, attempts, datagrams, time) are bounded by the
  named constants. The liveness runs have enough of each to use up a limit and
  come back.
- Symmetry is used only in runs without temporal properties (`replay_window`,
  `udp_sessions`).
- A task that has returned, and an end of a connection that was dropped, keep no
  state: their locals are reset, so that histories that no longer matter are one
  state.

### Fairness

Weak fairness stands for two facts: tokio polls a task that has been woken, and a
timer fires. It is never assumed of a peer, an application, or a derivation's
speed, with these exceptions, each at its `Spec`:

- `KdfLimiter`: closures on the blocking pool end (Argon2id terminates).
- `Reuse`: `Answered` assumes only the client's tasks; `Reclaimed` has the server's
  (and destinations that end their streams) as a premise.
- `RecordCodec`, `Relay`: the reader keeps reading; the property is that nothing
  is held back, not that peers are quick.
- `ServerHandshake`: `Accept` is strongly fair: connections in the backlog are
  accepted if descriptors become available again and again.
- `Udp`: with the direct outbound `UdpFlow::open` only binds a socket. With a
  SOCKS5 outbound it waits for the upstream without a timeout, so nothing is
  assumed and `AssociationEnds` is checked for the direct outbound.
- `Negotiation`: an upstream proxy answers and a remote end reads unless it has
  stalled (`Stall`); then it never does. A client need not read: the server's
  writes to it are fair only once it has closed, when they return. It does close,
  because `open_tunnel` and `open_session` run under the client's own timeout; a
  client without one could hold `write_reject` (`server/mod.rs:278`,
  `server/udp.rs:28`, `35`) and the UDP Tunnel reply (`server/udp.rs:39`) for as
  long as it likes, since the server has no timeout there. Two waits have neither
  a timeout nor such a client behind them, and `SetupEnds` names them: a UDP
  ASSOCIATE that the upstream leaves unanswered (`UdpFlow::open`), and the early
  payload to a remote end that does not read (`server/mod.rs:288`).
- `RecordShape`: the sealing code runs to its end; it has no awaits.

## What is proved

TLAPS proves the following for every value of the constants that satisfies the
named assumptions: sets of tasks, connections and associations are finite where
they are counted (`TasksAssumption`, `ConnsAssumption`, `FiniteAssumption`),
limits are natural numbers and positive where the code's are
(`LimitsAssumption`, `BoundsAssumption`, `PaddingAssumption`, `SaltAssumption`,
and `ShapeAssumption` for draws, hints and the first padding), the records of a
client's stream end one behind the other (`StreamsAssumption`), a server is configured for a version or for detection
(`SelectionsAssumption`), and the marker for "nothing" is none of the things it
stands beside (`NoneAssumption`, `AddrsAssumption`, `ShapeAssumption`). TLC
evaluates each of them on its run.

- `KdfLimiterProofs`: `PermitsAreConserved` and `NoPermitIdles`. Returning a
  permit removes the head of the line and marks it granted, which conserves
  permits only if the head is really parked and is in the line once; that is
  `NoIdlePermit`. The inductive invariant is
  `IInv == TypeOK /\ NoIdlePermit /\ RunningConserved /\ QueueSlotsConserved`.
  The lemmas: a task entering or leaving a finite set changes its cardinality by
  one; taking one entry out of a sequence without repetitions leaves the others.
- `ReplayCacheProofs`: `NoReplay` and `IndexIsExact`, from
  `RInv == TypeOK /\ IndexExact /\ Suffix /\ Forgotten /\ NoEarlyReplay`. The
  property speaks about all acceptances there ever were, the code knows only its
  queue. `Suffix` says that the queue is the tail of that history, `Forgotten`
  why an entry in front of it has left (its time had come, or more than `Cap`
  acceptances came behind it).
- `RecordShapeProofs`: four results about the shapes of records.
  `RecordsFit`, from `LInv`: what is known of the lengths of a record at each step
  between `reserve` and the seal (`HasRoom`), for a profile whose fields are only
  known to lie in the ranges that `Profile::derive` clamps them to (`IsProfile`,
  lemma `DerivedProfile`). The padding of a shaped record is drawn after its room
  was reserved; it fits because whatever target the loop raises is cut to
  `max_padding_len`, and that was reserved in full. `BytesRestored`, from `EInv`:
  while a record is on its way the peer is one sequence number behind and the
  bytes on the wrong side are exactly the ones the record's draws exchange, so
  that the peer's exchange, which is its own inverse, puts them back.
  `SaltExtracted`, from `SaltInv`: there is a history of permutations, one before
  every swap, that explains the sender's draws (`Explains`); the receiver walks
  through the same history from the identity, and every entry is a permutation,
  so that a byte is found where it was put.
  `PaddingOnesExact`, from
  `PInv == PaddingType /\ DrawsDistinct /\ OnesExact`. `DrawsDistinct` says that
  so far as many bits have been placed as rounds have passed, all below the loop
  variable: a candidate that is taken is replaced by the loop variable, which
  cannot be. Part of the argument is arithmetic: the number of ones that the ratio
  asks for lies between zero and the number of bits.
- `RecordCodecProofs`: `NoncesAreFresh`. The invariant is stronger than
  freshness: the nonces used so far are exactly those below the counter, in order
  (`Counted`). A cancelled record uses none; a failed seal may have used one, and
  the encoder is poisoned behind it.
- `BufferPoolProofs`: `StorageHasOneOwner`. `Exclusive` says that everything held
  anywhere (by leases, queue slots and operations half done) is pairwise apart.
  It is preserved only because an operation's hand and lease are filled in the
  right steps; `BInv` therefore adds what each task holds at each step of its
  operation (`Sound`). Four lemmas say once each why moving a block within a task,
  popping, pushing and allocating keep things apart.
  `LeasedBytesExact` is about a sum over all tasks, from `Exact`: the count is that
  sum, and `Sized` says what a lease and a hand weigh at each step of an operation.
  Each step changes the weight of one task and the count by the same amount
  (`SumChanges`).
- `ReuseProofs`: `ConnectionsHaveOneOwner`, from `OInv == OwnerType /\ OneOwner`.
  `OwnerType` adds that a session has a connection exactly in the states that use
  one, and that pooled and used connections have been dialled: a fresh one is
  then nobody's. Each action is one of a few moves (take, dial, give up, return,
  expire, or no change of owners), each a lemma.
  On top of it `WInv` gives `PooledConnectionsAreQuiet` and `SessionsAreIsolated`.
  Neither property is inductive: whether a session reads a foreign record depends
  on what was on its way when the connection was pooled, and that on how far the
  server's task had come. `WInv` therefore says, for each connection, what may be
  in flight in both directions given the state of its two ends: `Served` what the
  server's task may find (data, the zero chunk, and behind it at most the next
  request, which may be written before the server has read the zero chunk),
  `Quiet` that a pooled connection carries nothing towards the client, and
  `Opening` and `Relaying` what its session may find. A lemma for each kind of
  step (`ReadsRelayed`, `AsksQuiet`, `LeavesQuiet` and so on) shows this of one
  connection's records alone; `ServerStep`, `ClientStep` and `OwnersStep` carry it
  to the whole state, where `OInv` is what keeps other sessions out of the way.
- `ServerHandshakeProofs`: `HandshakePermits`, from
  `HInv == AreTasks(conn) /\ PermitsExact`. A step leaves one task within the
  handshake, or takes it out and returns its permit, or puts it in and takes one.
  `DecoderHandsOver` and `SaltOpensOnce`, from `SInv`. `Sane` says of each
  candidate of the detection what it has in its buffer: the one of the client's
  protocol exactly the tokens fed to it behind the last record it opened, in
  order (`Right`), the other one has opened nothing (`Wrong`); and at which steps
  a candidate has been fed everything that was read. `Holds` says where a salt is
  already in the replay cache on behalf of a task, which is what lets at most one
  of two equal salts through.
- `UdpProofs`: `DatagramsKeepOrder`, from `DInv`. For each direction of a
  connection `Ordered` says that the datagrams taken are a prefix of those sent,
  and gives every piece in the receive buffer and on the way its place in the
  stream of all pieces. It is kept by sending, reading a piece and taking a record
  (`SendOrdered`, `ReadOrdered`, `RecordOrdered`); in particular the two pieces
  taken together are always of one datagram. `DInv` adds that a connection belongs
  to one association and that nothing is on it before the server relays; without
  the first another session could read the replies.
  `SlotsAreExact`, from the counting lemma `Recount` (a count over
  all tasks changes by what the one task that moves contributes), and
  `AssociationsHaveOneClient`, from `CInv`: from the first session on the client's
  address is known, every source seen is that address, and a datagram that is
  held until a session opens came from it.

The provers have no induction principle for data, so a fact about all sequences
or finite sets is proved by taking a least counterexample, for the order on
natural numbers or on finite subsets (`LeastNat` and `LeastSubset` in
`BufferPoolProofs`). Where that can be avoided it is:
`Ordered` and `Right` give every element of a sequence its value by its position.

Only model-checked:

- all liveness properties, which need fairness and ENABLED;
- the refinement of `ByteStream` by `Relay`, and `Conserved`, `EndComesLast` and
  `InSync`: they flatten sequences of records with the recursive operators of the
  library, about which nothing is known to the provers;
- `Routed`, `StreamsIntact` and `SettingsInEffect`: they rest on what the parsers
  and encoders of `Messages` and the tables of `Configuration` compute.

## What is not modelled

- Cryptography and randomness: what opens under which nonce is modelled; AES-GCM,
  Argon2id, the entropy source and the 64-bit arithmetic of the PRFs are external.
  The models allow every PRF output.
- The filler bytes that `fill_official` generates: no decision depends on them.
- The DNS library and its cache (a name resolves or does not), socket options and
  system calls, logging, the start of the runtime.
- Connections with `reuse = false`, which are closed after one session.
- `fragment.rs`, which holds tests only, the test kit and the build tasks: not
  part of the running system.

## Possible extensions

1. An abstract specification of a reused connection (a sequence of separate
   tunnels) that `Reuse` implements.
2. A proof that `Relay` implements `ByteStream`, from a position-wise form of
   `Conserved`.
