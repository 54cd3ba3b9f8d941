# Verification of dsh-mobile-bridge

TLA+ models of the bridge in `src/src`, the TLC runs that check them on small
instances, and TLAPS proofs of the properties that matter most. Every
definition is written from the code; `PROJECT.json` ("map") gives the lines.

## 1. The system

The bridge runs inside a harness on a computer and lets paired phones use it.
It dials out to a relay (the "proxy") over TCP and keeps that link up; the relay
opens a stream on it for each connection of a phone; each stream carries a
second, end-to-end encrypted session, at whose end node:http serves the phone's
requests and WebSockets.

| Component | Source | State | Operations | Talks to |
|---|---|---|---|---|
| Relay tunnel | `tunnel.ts` | `stopped`, `paused`, `online`, `link`, `socket`, `retry`, `timer`, `generation`; the dials in progress | `start`, `suspend`, `resume`, `close`, timer, the steps of `dial`, the link's close callback | relay (TCP); creates MuxLink; called by the control API |
| Multiplexer | `mux.ts` | per link: `closed`, streams, timers; per stream: buffer, `ended`, `credit`, `unacked`, `waiting`, `drains`, `enders` | dispatch of OPEN, DATA, WINDOW_UPDATE, CLOSE; `readExactly`, `write`, `close`; `destroy` | relay; hands streams to sessions; its end calls back the tunnel |
| Phone session | `session.ts` | one async function per stream | preamble, first message, authorize, attach, acquire, reply | mux stream, registry, Peers, HTTP server |
| Device registry | `store.ts` | whitelist, live code, live connections, `lastWrite` | `createPairing`, `activePairing`, `authorize`, `attach`/release, `revoke`, `rename` | credential store; closes streams |
| Device Peers | `peers.ts` | device to shared Peer, holders | `acquire`, release | the harness's Peers |
| Noise socket | `duplex.ts` | the Duplex's own buffers | write, read pump, end | mux stream, node:http |
| Noise | `noise.ts` | handshake, cipher states with nonces | `write`, `read`, `split`, seal, open | tunnel, session, mux, Noise socket |
| HTTP bridge and policy | `http.ts` | a request in progress | upgrade, `serve`, `classifyApiRequest` | the harness's Fetch handler |
| Remote streams | `http.ts` | per socket: map of streams, write chain; per stream: pump, abort, inbox | `open`, `item`, `end`, `cancel`, close; pump steps | the Gateway (`wireStream`) |
| RPC pipe | `rpc.ts` | sessions with reply history and calls in flight, shared by all pipes | `ready`, `resume`, `call`; expiry, eviction, trimming | the Fetch handler |
| Control API, page | `api.ts`, `web.ts` | none; `latestStatus`, `autoPaired`, `minting`, the image's address | pair, revoke, rename, connect, disconnect, status | registry, tunnel |
| Wiring | `index.ts` | none | load, start, stop | all |

Everything runs in one Node process: code between two awaits is atomic, and all
the difficulty is in what happens at an await, in a callback, or on the other
side of a socket. The hard behaviours, each with its line, are the "hazards" of
`PROJECT.json`: switches thrown while a dial is at an await; a revocation while
a session awaits a write; streams that end before their clean-up is registered;
Peers disposed from outside; replies trimmed, sessions expired and evicted under
a client that retries; credit withheld in batches; stream ids used again; writes that pile up behind a
full window; a phone, a harness and a response that end in any order; answers to
a page that overtake each other.

What makes each component correct, in short: *tunnel*: cut means cut, on means
reconnecting, `connected` is true; *mux*: credit is conserved, nobody waits for
ever; *sessions, registry, Peers*: only whitelisted phones are connected, a
code works once, an answered revocation survives a restart, one Peer per device
for as long as it is connected; *RPC*: no call runs twice, none is stranded;
*Remote streams*: every stream can be reached until it is over, closing reaches
all of them; *Noise socket*: what is written arrives whole and in order, and every
end is seen; *handshakes*: whoever completes is right about the other; *HTTP bridge*:
the control plane stays out of reach, an answer that looks complete is; *page*:
it shows the bridge as it is, asks for a code by itself once at most, and retires
by that none it knew of.

## 2. Modules

| Module | Models | Composition |
|---|---|---|
| `AccessSwitch` | what the tunnel promises: a switch and a link that is up or not | abstract specification |
| `Tunnel` | `ProxyTunnel` | refines `AccessSwitch` (`INSTANCE ... WITH`) |
| `TunnelProofs` | proofs about `Tunnel` | EXTENDS `Tunnel` |
| `Phones` | names shared by the next three | |
| `DeviceRegistry` | `DeviceRegistry`, as the pieces between its awaits | EXTENDS `Phones` |
| `DevicePeers` | `DevicePeers` | EXTENDS `Phones` |
| `AccessList` | what admission promises: who is on the list, who is connected, what a restart could load | abstract specification |
| `Sessions` | `serveStream` and the operator, composed with both | EXTENDS both, refines `AccessList` |
| `MCSessions` | symmetry for TLC | EXTENDS `Sessions` |
| `SessionsProofs` | proofs about `Sessions` with the registry and the Peers | EXTENDS `Sessions` |
| `CallLedger` | what the pipe promises: how often a call runs, and what an answer stands for | abstract specification |
| `RpcPipe` | `SessionStore`, `serveRpcPipe`, a client that loses its sockets | refines `CallLedger` |
| `RpcPipeProofs` | proofs about `RpcPipe` | EXTENDS `RpcPipe` |
| `Mux` | `MuxLink`, `MuxStream`, a relay that keeps to its credit | |
| `MuxProofs` | proofs about `Mux` | EXTENDS `Mux` |
| `NoiseSocket` | `NoiseSocket` over one mux stream, with the nonces of its `CipherState`s | |
| `NoiseSocketProofs` | proofs about `NoiseSocket` | EXTENDS `NoiseSocket` |
| `Handshake` | `Handshake` of `noise.ts`, both patterns, both sides | |
| `UplinkInbox` | `UplinkInbox` | |
| `RemoteStreams` | `serveRemoteStreams` and the end of its socket | EXTENDS `UplinkInbox` |
| `RemoteStreamsProofs` | proofs about `RemoteStreams` | EXTENDS `RemoteStreams` |
| `Policy` | `classifyApiRequest`, `parseMobileUrl`, `acceptsGzip` and their like | operators only |
| `Exchange` | `serve` and `dispatchCall`: one request and its answer | EXTENDS `Policy` |
| `MCExchange` | an operator's own allowlist for TLC | EXTENDS `Exchange` |
| `ExchangeProofs` | proofs about `Exchange` and the operators of `Policy` under it | EXTENDS `Exchange` |
| `ControlPage` | the page's script, the control routes, other clients of them | INSTANCE `AccessSwitch` as its tunnel |
| `ControlPageProofs` | proofs about `ControlPage` | EXTENDS `ControlPage` |

A definition called a *mutant* in its comment is a plausible bug of the
definition it names. It is used by no specification: it is there to show that a
property would notice (`PROJECT.json`, "mutants").

Several properties are conjunctions of named parts that belong together, each
part with its own comment and its own mutant: `CreditKept` is the types, `CreditIn`
and `CreditOut`, `RetriesAreSafe` is `RepeatedOnlyIfTrimmed` and `NothingStranded`,
`CompleteIsSound` is `Agreement` and `LastWordIsSound`, and so on.

Loops over data in a module that has proofs are recursive functions (`Total` of an
inbox, `Normal` of a path, `Quality` of a header) or say what they compute
(`InOrder` and `Since` of a reply history, `Payloads` of a wire); `Handshake`
folds over its tokens.

### Tunnel

A member of `Dial` is one run of `dial` with the socket it opened and the link it
installed. `stage` is the await it is at. `generation` is only ever compared
with a captured value, so the model keeps the links whose value is still the
present one (`current`). `schedule` overwrites `this.timer`; timers left
running are counted in `orphans`. `Hasty` says whether the operator may resume
while a dial is unsettled: the code permits it, and the two cases differ.

### Sessions, DeviceRegistry, DevicePeers

A member of `Session` is one stream and the run of `serveStream` serving it. The
credential store is a queue of whole-whitelist writes, copied at the call and
applied in order, each of which may fail; whoever awaits a write goes on when it
lands. A stream may end during any await without stopping its run. `Restart`
may happen at any time. Closing a stream runs its clean-up in the same step, as
`MuxStream.finish` does. History variables: `redeemed`, `revoked`, `overtaken`,
`pulled`. A revocation is noted in `revoked` when its own write lands, unless the device
is on the list again or a queued write has it, as after a new pairing in between; a
queue whose copies are out of order is for `LastWriteIsTheList` to notice.

`AccessList` has no streams, handshakes or promises: a list of devices, the live
codes, the connections that have passed the gate, those that are inside, and the
versions of the list that the store may show after a restart. A removal ends the device's connections in the same step, whoever
connects has passed the gate, a code opens it for one device, and a revocation is answered
only when no version has the device. It admits the race of `sessions_revoke_race`, as it
must: whoever has passed the gate may still connect. `Access` maps `lastWrite`'s queue with the file to
the versions (`Versions`), runs past `authorize` to `Admitted`, connected ones
to `Inside`.

### RpcPipe

Sessions are numbered in minting order, which is the order of eviction. The
client follows the checklist of `PROTOCOL-RPC.md`: it resumes with the highest
id seen, resends what is unanswered under the same id, and starts over on
`resumeFailed`. It may lose its socket at any moment; what it sent may still
arrive. All replies have one size.

`CallLedger` knows neither pipes nor frames: sessions that were opened, those still
held, and for each call of a session held whether it is new, running, kept or
forgotten. A call is executed when it is new or forgotten, one is forgotten only when another
is kept and the history is full, and the client's answers are those of calls
executed in the session it holds to be its own. `Fates` reads the fate of a call off
`running`, `replies` and `runs`.

### Mux

Bytes are counted, not stored: what is buffered, owed, under way and allowed, in
each direction of each stream. A TCP link keeps frames in order or dies; of the
order only OPEN before and CLOSE after everything else matters to these fields.
A `write` that needs more credit than there is sends whole payloads, parks, and
goes on when woken. One write at a time is in progress on a stream: Node
serialises the `_write` of the Noise socket above it.

### NoiseSocket

Outbound bytes are counted in mux payloads, inbound ones in whole messages. The
Writable of Node appears as `buffered` (accepted, not yet passed to `_write`),
`busy` and `ending`; `seal` as what is left of a sealed message (`sealed`) and of
the chunk (`rest`) while it is parked for credit. A message has its nonce before
the wait, which is why the order of the wire is worth a property. `destroyed`
does not stop a `seal` in progress, and a stream that has ended swallows without
an error what does not fit. The phone says its messages in order, whole or
damaged, and hangs up; the link dies at any time.

### Handshake

Symbolic: keys are names, a Diffie-Hellman result is the set of its two keys, a
hash is the sequence of what was mixed in, a ciphertext remembers what it was made
of. `write` and `read` walk the tokens of `PATTERNS` with `dhFor`, `mixKey`,
`encryptAndHash` as in the code, and `split` names the two transport keys. The
prologues of the two sides may differ, an IK initiator may hold an outdated key,
and each message may arrive whole, with one part damaged, or cut.

### RemoteStreams, UplinkInbox

A run is one opening of a stream id; ids are used again. The chain of
deliveries is a queue whose head may have been handed to `socket.send`. The
socket still delivers the phone's messages after `close()` was called and until
its 'close' event. The Gateway opens, yields, ends and throws when it likes.
`aborted` does not say who aborted, the phone by its `cancel` or the bridge by an
overflow, as `abort.signal` does not; the history variable `settled` does: the phone
has cancelled the run, or was sent its `end` or `error`.

### Policy, Exchange

A target is a flag (does it carry an authority of its own?) and a sequence of
segments, dot segments among them, and `Normal` is what `new URL` makes of it. An
accept-encoding header is the sequence of what its parser reads. `stage` is where
`serve` is: each value is one of its awaits. Bodies are counted in chunks.
The response is what `serve` uses of it: `writableEnded`, its 'close', and
`write` answering false at the high-water mark and also once it is closed,
in which case neither 'drain' nor 'close' ever comes (`hung`). `dispatchCall`
shares the fence and nothing else.

### ControlPage

A chain is one sequence of calls of the script: the three-second refresh, a
click, or a mint of its own, each going on with a refresh. Requests are served and
answered in any order and may fail in either direction, so answers overtake each
other. Codes are numbered as they are minted. The tunnel is the abstract switch
it was shown to implement. The QR image is asked for again only when its address
changes; it is drawn from the code that is live when the request arrives, or the
request fails (`Broken`), which nothing in the script notices.

## 3. Runs

| Run | Shows | Bounds | States |
|---|---|---|---|
| `tunnel_patient` | under a patient operator: exactly one driver of the reconnection, exact status, backoff kept, refinement of `AccessSwitch` (so: cut means no link), also of its liveness when the relay can be reached | 3 dials, delays 1..4 | 158 |
| `sessions_safe` | whitelist, admission by code, presence, durable revocation, Peers, the books of the registry, refinement of `AccessList` | 2 streams, 2 devices, 1 code, 2 Peers, 3 moments | 1.4 M |
| `rpc_pipe` | repeated only if trimmed, nothing stranded, ceilings, calls are answered, refinement of `CallLedger` | 2 pipes, store of 2, 3 sessions, 2 calls, history of 1, expiry after one moment | 1.2 M |
| `mux` | windows conserved, no stall, ends reach both sides, writes end | window 4, batch 2, payload 2, writes of up to 5 | 262 k |
| `noise_socket` | both directions arrive in order and whole, ends are seen, writes call back | window 2, messages of 2, chunks of up to 3, 5 payloads, 2 messages heard | 397 k |
| `handshake` | whoever completes is right, nonces are used once, only harm prevents completion | both patterns | 186 |
| `remote_streams` | map, inbox and socket agree; only an overflow ends a stream in silence; a disposed Peer is left, readers are released | 1 id, 2 runs of it, ceiling of 2 bytes | 407 k |
| `exchange` | control plane hidden, answers and signals true, somebody is always answered | targets of up to 4 of 8 segments, body 2, reply 3, high water 2 | 63 k |
| `control_page` | a page mints once by itself and retires no code it knew of, and comes to show the truth, up to an image that failed | 2 chains, 1 click, 1 failure | 309 k |

`sessions_safe` and `sessions_revoke_race` use symmetry in devices, streams,
codes and Peers, which is sound for what they check: invariants, and one
refinement without fairness (`IsAnAccessList`) that names no member of these
sets, so that a step is a step of `AccessList` exactly when its image under a
permutation is. No run with a liveness property does.

Why the bounds are enough. Three dials make every race of two and let one more
overtake them. Two streams of one or two devices make every race of two
handshakes and of a handshake with the operator; a clock of three moments passes
both lifetimes. Two pipes are the old and the new one of a reconnect; a history
of one trims at the second reply; three sessions exceed a store of two, and each
of the three connections sends a call at most once, so `MaxRuns` = 3 never bites.
In the mux streams share nothing but the link, so one stream stands for each; a
window of two batches and two payloads both fills and stalls. In the Noise
socket a chunk of three exceeds the message and the window, so a write parks
within a message, at its end, and before the next one; five payloads let two
more writes pile up behind it. One stream id opened twice is the case in which
runs can take each other's place. Four segments spell every path of the policy
with one segment to resolve away (`api/session/../mobileBridge`); the allowlist
that the operator adds contains a path of the control plane. Accept-encoding
headers of two parts contain each rule of `acceptsGzip`. Two chains make an older
answer overtake a newer one and two first refreshes overlap, and one failure hits
each call of each chain and each image.
The bounds that exist only for TLC (`MaxOrphans`, `MaxClock`, `MaxWrites`,
`MaxMinted`, `MaxCalls`, `MaxRuns`, `MaxRead`, `MaxWrite`, `MaxBuffered`,
`MaxItem`, `MaxChunk`, `MaxWritten`, `MaxHeard`, `MaxDepth`, `MaxReply`,
`MaxChains`, `MaxClicks`, `MaxFaults`) are CONSTANTS and named as bounds where
they are declared. `CHECK_DEADLOCK FALSE` is given where a run ends because such
a bound, or the end of the link, socket, request or handshake, leaves nothing to
do.

### Where code and documents disagree

Each of these runs finds a violation of what the repository says.

| Run | The document | What happens |
|---|---|---|
| `tunnel_cut_race` | `tunnel.ts:115` a cut must not undo itself | resume, with an earlier dial unsettled, leaves two dials; `this.socket` remembers one; the next suspend destroys only that one and the other attaches while paused |
| `tunnel_silent_relay` | `tunnel.ts:55` keep reconnecting until close | no deadline covers the handshake with the relay |
| `sessions_revoke_race` | `PROTOCOL.md:98` no phone outlives its revocation | revoked while `authorize` awaits a save, it connects all the same |

Passing runs show what does hold: `IsASwitch` with a patient operator,
`IsALiveSwitch` with a relay that answers or hangs up, `ConnectedIsPaired` (only
a run overtaken in its save can be wrong), `ToldUnlessOverrun` (only an overflow ends
a stream in silence), `AutoMintReuses` (the code that is retired is newer than the
status the page was answered), and `PageComesTrue`, which lets the image be one whose
request failed.

Other disagreements are among the hazards and have no run of their own. Three of them
are exceptions that a passing property names, and TLC finds each in a few steps once
the exception is dropped:

- `ToldUnlessOverrun` without `~Overran(r)`. `http.ts:492` says that a stream is failed past
  the ceiling, and `http.ts:577` that `item` / `end` / `error` go back to the client. But
  the overflow aborts with the signal of the phone's own cancel (`http.ts:653`), so the
  `catch` (`http.ts:603`) sends no `error` when the source throws or ends: `OnOpen`, two
  `OnItem` of which the second overflows, `SourceThrows`. The phone has cancelled
  nothing, its socket is open, and it is told nothing.
- `PageComesTrue` without `Broken`. `web.ts:7` says that `/mobileaccess/qr` is the live
  pairing code, but the address of the image is set only when it changes
  (`web.ts:478`) and nothing listens for its failure: `DrawFails`, then refreshes for
  ever. The image stays broken until the code is used or expires (five minutes at
  most), or a refresh fails, which removes it.
- `AutoMintReuses` with `code = 0` instead of `code > c.since`. `web.ts:504` says that the page
  only mints when there is nothing left to scan, but it decides on a status that may
  be old (`web.ts:507`): `Refresh`, `Serve`, `Answer`, then a mint elsewhere, and the
  page's own mint, already asked for, retires that code.

The others: a socket
error at a moment when nobody listens ends the process (`tunnel.ts:169`); a call
whose reply was trimmed runs again, where `PROTOCOL-RPC.md:93` says exactly once
(`RepeatedOnlyIfTrimmed` is what holds); a connected but quiet RPC session expires
(`rpc.ts:165`); a full store evicts the session minted first, even if it is the
one in use (`rpc.ts:98`); credit is returned before anybody has read
(`mux.ts:88`, `duplex.ts:91`); a write under way when the stream is closed may
send DATA after CLOSE (`mux.ts:62`); `serve` waits for ever for a 'drain' when the
response has closed already (`http.ts:473`; the harness is told through its
signal all the same, `LeftIsAborted`).

### Fairness

- `Tunnel`: `BridgeFairness` is what Node gives: timers fire, `open` settles within
  `CONNECT_TIMEOUT_MS`, a write completes or fails, the owner of a destroyed
  socket is told. The run assumes no more. `ProxyFairness`, the premise of
  `IsALiveSwitch` alone, is a relay that answers or hangs up and lets a bridge
  in that keeps trying.
- `Sessions`: none; its properties are invariants and a refinement of steps. `SaversAreWoken` says that
  each awaited save has a write that will wake it.
- `RpcPipe`: frames that have arrived are handled, the harness ends each call.
- `Mux`: frames that have arrived are dispatched, woken writers run; the relay takes what
  it is sent and grants it back. A phone that never reads blocks a write by
  design, until the stream ends.
- `NoiseSocket`: promises settle, a Writable goes on after each write, the pump
  goes on with what has arrived, the relay gives back credit. The consumer's
  writes and ends, the phone and the link owe nothing.
- `Handshake`: each side reads what has arrived and writes when it is its turn.
- `RemoteStreams`: deliveries settle; a WebSocket told to close does so (the
  library destroys it after its own timeout); the Gateway settles what it opens
  and returns, and ends a source whose signal is aborted.
- `Exchange`: the phone sends the body it announced and reads the answer, the
  harness answers and yields or ends; pipelines and events of Node come. Neither
  failure nor a closing socket is assumed.
- `ControlPage`: requests are served and answered, images come or fail, the interval
  ticks. `PageComesTrue` speaks of a bridge that is left alone, with
  no more failures, from some moment on; a code is not assumed to expire.

## 4. Proofs

TLAPS proves these for every value of the constants, from the named assumptions
in the modules: `WireAssumption`, a batch and a payload fit in the window, which
`WINDOW / 4` and 16 KiB do; the delays are ordered; sizes and ceilings are natural
numbers, those the code divides by or fills positive; the streams of a model are
finitely many, as those of a process are; `None` is no member of the sets beside
which it is used. Every safety property that a passing run checks is proved,
except those of `Handshake`; each inductive invariant was checked by TLC on a run
before it was proved.

- `TunnelProofs`. `TypeCorrect`, `OnlineIsTrue` and `BackoffHolds` hold for every
  operator. `online` is set only with the link, and cleared by everything that
  can take the link away; the inductive invariant `OnlineInv` adds that a link
  recorded as current is the installed one. `BackoffHolds` is an action property:
  with the types, each action that sets `retry` doubles it up to its limit, or
  installs a new link, or is a resume. With `~Hasty`, `SwitchInv` is inductive:
  it says which one of timer, dial and link is under way, that sockets of
  overtaken dials are on the list of destroyed ones, and that nothing overtaken
  is current. `CutHolds`, `AlwaysDriven` and `OnlineIsExact` follow, and so does
  `ImplementsSwitch`: each step is a step of `AccessSwitch` or stutters.
- `MuxProofs`. The conservation laws are inductive with the types, an upper
  bound that survives the death of the link (`NoCreditMade`: credit spent on a
  dead link is lost) and `LessThanABatch`: theorem `CreditIsKept`. `CreditSuffices`
  (`NeverStalls`) is their arithmetical consequence. `EndIsHeard` (`EndReachesAll`)
  is inductive given the types.

- `SessionsProofs`, in layers, each inductive given those before it. `CoreInv`: the
  types, and a run past the first message knows its device. `ListInv`: a
  connection has its device, is registered exactly while it is open
  (`PresenceIsTrue`), and is on the list unless a removal has
  overtaken its run (`ConnectedIsPaired`). `CodeInv`: a code that was never handed
  out, or that has admitted a device, is not live, and none has admitted two
  (`CodeAdmitsOne`). `QueueInv`: each awaited save has
  its one write, and the last write carries the list as it is; with a
  revocation answered only when its write has landed, no state of the store, present
  or on its way, holds the device (`RevocationIsDurable`,
  `LastWriteIsTheList`). `PeersInv`: the holders of an entry are the leases on it
  (`PeersAreShared`). `BooksBalance` is put together from all of them.
  `ImplementsAccessList` is proved from the same layers, action by action: what
  `authorize` does up to its await is a step of the gate and a new version of the list, what
  follows the await is an entry or nothing, and a write that lands drops the versions
  it replaces. `QueueInv` is what lets it answer a revocation: the versions on
  the way after its own were copied from a list without the device.
- `RpcPipeProofs`. `PipeInv`: the types, and a pipe that brings frames has a session.
  `RoomInv`: minting makes room before it takes it (`Bounded`). `CallInv`: an
  executed call of a session that is held is in flight, in the history, or was
  trimmed (`RepeatedOnlyIfTrimmed`). `NothingStranded` is
  inductive given those (`RetriesAreSafe` is the two together), and given that a client without a session has asked for
  nothing: every frame the client resends meets the call in flight, its reply, or
  nothing, in which case it is executed.
  `ImplementsLedger` needs three more layers. `ExecInv`: a call that runs or has left a
  reply was executed, and in a session held it runs once, has its reply once, and not
  both; without it a reply that is recorded could make two, and one that is
  trimmed could leave its double. `Known`: only sessions
  that were minted are named, by pipes and by frames, so a new session finds
  nobody that already speaks of it. `HandInv`: of the frames on their way to the client
  a reply stands for an execution in the client's session, and the session
  that a `ready` or `resumeFailed` offers has executed nothing. That is where the
  client's part of the protocol is used: it sends no call before it has been answered on
  this pipe, so the session a pipe was opened with stays untouched until the
  client has given up its own.
- `RemoteStreamsProofs`. `InboxInv`: the account is the total of what is buffered, which
  an overflow empties (`BooksBalance`). `MapInv`: each delivery in the chain is
  awaited by the one pump it names, so a pump takes itself off the map only once
  (`NoOrphans`). `SilenceInv`: a stream is over because it was aborted or the phone has had
  its word (`OverHasReason`), and while the phone is heard only its cancel and an
  overflow abort (`AbortHasReason`). Together they are `ToldUnlessOverrun`. That an
  overflow leaves its mark on the account (`OverrunStays`) rests on `InboxInv`: an inbox
  that failed is empty, so there is nothing left whose bytes a read could take off.
- `NoiseSocketProofs`. `WriteInv` says how the nonces on the wire go on: with the message
  under way if a write is parked, with the next one otherwise; what has been
  written is on the wire, sealed, waiting or lost with the stream; and how a
  stream can have ended. `PiecesAre` says which message each payload of a chunk
  belongs to, from lemmas on division by the size of a message, for no size in
  particular. `ReadInv` does the same for what the phone said.
- `ControlPageProofs`. Every code, minted or asked for, is paid for by a click or by
  the one mint of the page's own (`Budget`), which is why codes stay in their range;
  with it, each mint under way rests on a code that was current when the page was
  told (`AutoMintReuses`). That the page has one mint of its own and no more rests on
  `MintsWhenPaired`, which relates the count to `autoPaired`: the flag is set before the
  mint is awaited, so no other refresh finds it unset (`AutoMintsOnce`).
- `ExchangeProofs`. `ControlIsHidden` holds for targets of any length, made of any segments:
  `NormalIsClean`, no dot segment is left by `new URL`; `NormalIsFinal`, a path
  without one is its own normal form, so what the harness resolves is what was
  classified; and the fence looks for the control prefix before the allowlist.
  `AdmittingIs` says what `acceptsGzip` makes of a header. `StageOK` goes through the
  awaits of `serve`: until it is done the answer is open, and from the head on
  what it promises is what the body will be. `AnswerIsTrue` and
  `HarnessIsTold` follow.

What a recursive function computes is proved by the least counterexample: the set
of indices at which a claim fails is a set of naturals, and if it had a member it
would have a least one (lemma `Minimum`). That the function exists is proved in the
same way.

Only model-checked: all liveness, which needs `ENABLED` (`IsALiveSwitch`, `Served`,
`WritesEnd`, `WaitsEnd`, `CallsAreAnswered`, `Completes`, `DisposedIsLeft`,
`ReadersAreReleased`, `PageComesTrue`), and `Handshake`, whose only constant is the
choice of patterns: its run is exhaustive for both, and a proof would range over
nothing more.

## 5. Not modelled, and why

- Cryptographic primitives, encodings of keys, byte layouts (`wire.ts`, the rest of
  `noise.ts`): pure functions of bytes, with nothing to interleave.
- `Identity`: one atomic `modifyRecord` of the credential store.
- Framing, keepalive and idle timers of the link (`mux.ts`, `tunnel.ts`): the ways a
  link dies are modelled, not what made it die.
- Use of a stream id again before the relay has closed it, and the map entry that
  is kept until then: the relay is assumed not to do it (`Mux`).
- The page's markup, device list, copy button and rename dialog; `revoke` and
  `rename` go through the same `act` as cut and restore, and what they change is in
  `Sessions`.
- Labels, last-seen times, the computer's name, logging, configuration.
- Shutdown of the plugin: it is the end of all streams and the disposal of all
  Peers, which `Sessions` has one at a time, in any order.
- Malformed RPC frames, which are dropped.
- What the trimming of a session list keeps of it; that it happens, and what it does
  to length and framing, is in `Exchange`.

## 6. Plan

Done: every component that changes state has a module, a run and mutants; every
safety property of a passing run is proved but those of `Handshake`; three components
(`Tunnel`, `Sessions`, `RpcPipe`) are proved to implement an abstract specification.

Next:
1. The parts of `Mux` that are left out: reuse of a stream id before the relay has
   closed it, and DATA after CLOSE.
2. With it, the theorems of `MuxProofs` for several streams whose ids are used again.
3. One abstract stream with credit, which `Mux` and `NoiseSocket` both implement, so
   that the credit of the socket is no longer a second model of the stream's.
