# A TLA+ verification of the synthetic network

The synthetic network is a container with two interfaces and a user-space proxy
between them, `rush` (Rust), that delays, drops, rate-limits and reorders the
packets of configurable flows. A small Node.js frontend lets users change the
quality of service (QoS) while it runs. This directory models the program's own
logic in TLA+, checks it with TLC on small instances and proves the central
results with TLAPS for every value of their parameters.

`PROJECT.json` holds the machine-readable side: the components, the runs, a
mutant of the code for every property, the map from each definition to source
lines, the findings, the hazards and the theorems. Paths below are relative to
`src/`; `rush/src/` is left out where the file name is unique.

## 1. The system

### Components, state, operations

| Component | State it keeps | Operations |
|---|---|---|
| links (`link.rs`) | ring of raw packet pointers, read and write cursor, statistics | `transmit` (drop-tail), `receive`, `new`, drop |
| packet pool (`packet.rs`) | global freelist, packets made, doubling growth step | `allocate`, `free`, `clone`, `preallocate` |
| engine (`engine.rs`, `config.rs`) | tables of apps and links, inhale and exhale order, clock | `configure`, `compute_breathe_order`, `breathe`, `main` |
| QoS apps (`qos.rs`) | token bucket; delay queue of packets and delays | `push`, `pull`, drop |
| flow apps (`flow.rs`) | flows of a Split; Top's slots in a mapped file | `push` |
| offload apps (`offload.rs`) | none between breaths | `push` of TSD and Checksum |
| interfaces, basic apps (`rawsocket_app.rs`, `basic_apps.rs`) | a socket each | `pull`, `push` |
| synthetic network (`synthetic_network.rs`) | the running spec, one flag per reload | translation of a spec, main loop, SIGHUP |
| frontend (`frontend/frontend.js`) | the spec file | `GET /qos`, `POST /qos`, profiles |
| client library (`frontend/client/client.js`, `flow.js`) | list and table of flows | `addFlow`, `removeFlow`, `get`, `commit`, `matchFlow` |
| control page (`frontend/client/ui.js`) | sliders and flow widgets, the form, the traffic table | periodic sync, edits, refresh |
| checksums (`checksum.rs`, used by `ipv4.rs`, `tcp.rs`, `udp.rs`) | none | `ipsum` in assembly for two architectures |

### How they interact

rush is a single thread. In each breath the engine reads the clock, calls `pull`
of the apps that have it and then `push` of the others along the links; apps
exchange packets through links only, and return them to the pool. After a SIGHUP
`engine::main` returns, the main loop reads the spec file, translates it and calls
`engine::configure`, which changes the running app network in place. The frontend
is a second process: a POST rewrites the file and then sends the signal. Scripts
and pages edit their own copies of the flows and commit them through the frontend.

### What is hard, and what makes it correct

- Packets are owned through raw pointers: each has exactly one owner through
  wrap-around, overflow, copying and the end of a link or app (`SingleOwner`,
  `NoAliasNoLeak`, `OneHolder`, `WrittenInOrder`, `NothingLost`, `EveryByteOnce`).
- Rings, pools, queues and interfaces at their limits (`FifoSpec`,
  `ExhaustedWhenInUse`, `PanicsOnlyOnceFilled`, `DropsOnlyBehindBlocked`, `Drains`).
- Rounding and time in the token bucket, over every window and every rhythm of
  breaths (`RateLimited`, `RateGranted`), and in the delay queue (`NotEarly`,
  `NotLate`, `OnlyDirectOvertakes`).
- The iteration order of hash tables and cycles of apps (`Terminates`,
  `ExhalesReachableOnce`, `NetworkIsDeterministic`).
- Reloads that replace part of a running network (`MatchesConfig`,
  `KeepsUnchanged`, `ReloadIsLocal`, `FlowsGetTheirQoS`).
- Two processes, one file and a signal without a queue (`AppliesWholeSpecs`,
  `RunsFileUnlessMissed`, `Converges`, `FrontendEnds`).
- Headers that are changed in place and copied for each segment (`ChecksumsAreRight`), and
  carries in assembly code that the tests reach in part (`AssemblyMatchesReference`,
  `ReceiverAgrees`).
- Counters read by one process while another writes them (`RowsAreTraffic`).
- Texts of flows that are shown in one place and typed in another (`TextMeansItsFlow`).
- Clients whose views of the flows are edited separately, and pages and scripts that
  commit while answers are under way (`ViewsAgree`, `EditsStickUnlessRaced`,
  `PagesConverge`).

## 2. Modules

| Module | Models | Correspondence |
|---|---|---|
| `LinkFifo` | a drop-tail FIFO, abstractly | what a link promises |
| `Link` | `link.rs` | variables are the struct's fields; `transmit`, `receive`, `Drop`, `new` as in the source; `held` and `freelist` are the owners around the link |
| `PacketPool` | `packet.rs` | `list`, `nfree`: `FL`; `allocated`, `step`: the two statics; a panic is a state |
| `Breath` | `main`, `breathe`, `pace_breathing` of `engine.rs`; `rawsocket_app.rs`, `basic_apps.rs`, Loss of `qos.rs` | extends `PacketPool`: the callbacks of a breath one by one, their loops packet by packet, on queues that stand for links |
| `RateLimiter`, `RateLimiterProofs` | `RateLimiter` of `qos.rs` | push is `PushReplenish`, then `PushForward` per packet; tokens are scaled by 10^6 as in the code, time is finer than a microsecond so that `as_micros` truncates |
| `DelayQueue`, `Delay`, `DelayProofs` | `DelayQueue`, `Latency`, `Jitter` of `qos.rs` | the shared queue and pull, and the two pushes; loops stepped round by round |
| `BreatheOrder`, `BreatheTwice` | `compute_breathe_order` | one action per iteration, any order for a `HashSet`; run twice to compare |
| `EngineProofs` | | theorems on `Link` and `BreatheTwice` |
| `BreathProofs` | | theorems on `PacketPool` and `Breath` |
| `Engine` | `configure`, `start_app`, `stop_app`, `link_apps`, `unlink_apps` | one action per loop |
| `SyntheticNetwork`, `NetworkProofs` | `synthetic_network.rs`, from a spec to apps and links | extends `Engine`: a spec accepted is translated and applied by `configure`; the theorems are about both |
| `Reload`, `ReloadProofs` | `main`, `signal_received`, the request handlers of `frontend.js` | one action per file system call, callback, signal and step of the main loop; `thrown` is the exception that ended the frontend |
| `Offload`, `OffloadProofs` | `offload.rs` | TSD and Checksum in a row; `Stamp` is what TSD writes into the headers of the packet it cuts up before it copies them; a checksum is what it was computed over |
| `IpSum` | `checksum.rs`, the checksums of `ipv4.rs`, `tcp.rs`, `udp.rs`, `offload.rs` | operators on byte strings; an instruction is `add` or `adc` on accumulator and carry |
| `Flows` | Split and the tuple of Top in `flow.rs`, `matchFlow`, `update` and `SyntheticFlow` of `client.js` | both directions, with reloads between packets; `matchFlow` looks at the list that the page makes of the spec (`ClientFlows`) |
| `Profile` | Top and its mapped file (`flow.rs`), its serving (`frontend.js`), `Profile` (`client.js`) and the page's traffic table (`ui.js`) | extends `Flows`: what a Split passes on is counted by Top, word by word, while snapshots are read |
| `FlowText` | `flow.js` | extends `Profile` with operators: the text of a flow and its reading |
| `Client` | `SyntheticNetwork` of `client.js`, `/qos` of `frontend.js` | scripts interleaved at their awaits; POSTs under way are a set |
| `Page` | the sliders, flow widgets and form of `ui.js` | extends `Client`: one action per event handler, and one per listener where a click runs several (two widgets of one label); nothing else of the page runs between those (`Idle`); answers arrive at any time |
| `FrontendProofs` | | theorems on `Flows`, `Profile`, `FlowText`, `Client` and `Page` |

The `MC*` modules give the parameters their values.

Choices of abstraction:

- `Engine` takes each of the four loops of `configure` as one action. A round
  touches one app, or the ports of one link; no `unwrap()` depends on another round
  of the same loop, so the order in which a HashMap is walked cannot be seen. An
  instance of an app or link is told apart by the call that made it.
- A name that `format!` joins with underscores is a tuple of its parts. Two names
  that differ as tuples differ as text as long as no interface is called something
  like `rate_ingress`.
- In `Reload` the file is the spec at its head and its size: writes start at offset
  0, so a longer spec leaves a tail behind a shorter one. Old flags, which nobody
  reads, are left out. Of a profile, `Reload` has only whether the file exists: the Top apps
  make both when the first spec is applied, and one from an earlier run may be there. How
  many are sent at a time is bounded (`Transfer`). A client that closes its connection
  (`ProfileSent`), a file system that refuses a call (`FileError`) and an app of rush that panics
  (`panic`) are steps that may happen at any time and need not.
- In `Profile` the three words of a slot are stored in any order (the stores are plain,
  so the compiler may choose one) and read in the order of the file. A flow ID is the
  tuple it packs, the hash is any function, and the QoS apps between Split and Top are
  left out. The file starts empty; one left by an earlier run of rush would count on.
  Two snapshots are taken to be parsed in different milliseconds (in the same one, the
  table stays empty).
- In `Breath` the network and its order are parameters, as `Engine` and `BreatheOrder`
  are about them. A frame is told by its length. `select` on an interface with room is
  a choice. A buffer that is copied is a buffer of the same length.
- `IpSum` is parameterised by the values of a byte: with bytes of one bit, words of 16,
  32 and 64 bits have 4, 16 and 256 values, and the carries that are rare in real data
  happen in most of them. Nothing in the code depends on the size of a byte but
  through the sizes of words.
- In `Client` and `Page` a spec is a value for the default link and one for each flow:
  what a property can tell apart of a QoS. Numbers on POSTs, what a commit was derived
  from, and the edits that it carries are history. A slider that cannot show a value
  rounds it (`Snap`), as the steps of `rateReader` and `delayReader` do. Writing the file is
  one step here; `Reload` has its interleavings.
- In `FlowText` a text is the numbers in it. Syntax errors, which the form reports as one
  types, and the dotted form of addresses are left out.
- `Mark` in `RateLimiter` and the variables called history in other modules belong to
  the properties, not to the program.
- `BreatheOrder` assumes that no app is linked to itself (`ConfigsAssumption`), which the
  program never builds. With such a link the order may miss the app: it would be put off
  for its own sake (`engine.rs:264`) when another dependent is left.
- The program is built in release mode: sequence numbers wrap (`Offload`).
- `Offload` takes packets without Ethernet padding and without IP options; what the
  apps do not recognise is the protocol `none`.

## 3. Runs

Every run finishes within about three minutes on two cores. Each property of a passing run
has a mutant of the code that violates it.

| Run | Shows | Bounds |
|---|---|---|
| `MCLink` | single owner, statistics agree with cursors, the ring implements `LinkFifo` | ring of 4, 4 packets (symmetric), 7 calls of transmit: the cursors wrap twice, the link fills, is dropped and made again |
| `MCBreath` | one holder for each packet, frames written unchanged and in order, no alias, no leak, the pool gives up only when all is in use; links refuse only behind a blocked interface; the network drains | a network of two raw sockets, Source, Tee, Loss, Join and Sink; 3 frames arrive at any time, Source makes one packet; links of 2, pulls of 1 (the source's ratio is 10 to 1; with it, as here, an interface must block before a link fills); pool of 3, first step 1: it fills exactly and then fails; 260,000 states |
| `MCRateLimiter` | the limit and the guarantee over every window | breaths of half a microsecond to 4.5, a tick of 2, two packet lengths; time for several refills, a full bucket and drops |
| `MCDelay` | order, times, nothing lost, panics only after the queue was full | 4 entries, 4 packets, 5 units of time, input link of 2: the queue fills with a delay last and with a packet last |
| `MCDelayFull` | violation: a full queue makes pull panic | 5 packets, Latency |
| `MCBreatheOrder` | the order ends and has each app that packets can reach once; for the program's own network it is deterministic and follows links of apps that only push | all 1,536 networks of four apps in three divisions of roles, and the network of 28 apps for one flow |
| `MCSyntheticNetwork` | each port has one link, each flow its own QoS, the network matches the last spec, what did not change is not touched | 3 reloads among 17 specs, of which 4 are refused, up to three flows: add, remove, replace and go back |
| `MCReload` | only whole valid specs are applied; rush ends up with the file's spec unless a signal was missed; for each exception that ends the frontend, what must have happened before | 3 POSTs, specs of two sizes, a bad one; one profile sent at a time (a second transfer would share no state with it), aborted or not, with and without the file; file system errors and panics at any time; 960,000 states |
| `MCReloadMissed` | violation: a signal at the wrong moment is lost | 2 POSTs |
| `MCOffload` | every byte once in segments that fit, buffers returned, right checksums; the assembly computes what the reference does, and receivers agree | MSS of 2, payloads of 0, 2, 3 and 5 (none, exact, one over, three segments), sequence numbers modulo 8 that wrap, links of 3, packets that come with right and wrong checksums in both headers (312,000 states); checksums of all strings of up to 6 bytes and of runs up to 71, which use every combination of block sizes, with bytes of one bit |
| `MCFlows` | first match by the far end as documented, the page shows the flow, unless one ends at port 0; the traffic table shows traffic that there was; texts mean their flows | 5 lists of overlapping flows (with a backwards range and one of port 0 alone), 13 packets each with its answer, address 0 and port 0 among them, ports 0 to 3, reloads in between; streams of 3 packets (one flow, two that share a slot, one that is not IPv4) counted in 2 slots with 2 snapshots that may overlap; 1.8 million states |
| `MCClient` | list and table agree and no label is committed twice as long as removeFlow cuts the right flow; no edit is lost without a race; pages converge | a script and a page, 2 labels, 2 flows in a list, values 0, 1 and 2 (of which sliders show 0 and 2) set for one flow, 3 POSTs, an answer under way: enough for a page that sends a stale answer back, for two commits that race, and for a label added twice; 880,000 states |

`CHECK_DEADLOCK FALSE` is used where the model really stops: a bound on time,
packets or calls is reached, the algorithm is done, or the process has panicked or
was killed.

### Fairness

- `Reload`: weak fairness of rush's steps (the operating system schedules it, and
  `engine::main` asks `done()` after every breath) and of the frontend's file system
  calls and callbacks once a request has begun. Clients need not send anything, and
  nothing is assumed of when a signal arrives.
- `Breath`: weak fairness of the engine, a loop that never waits (its sleeps are
  bounded by `MAXSLEEP`), and strong fairness of `Write`: an interface that is not ready
  becomes ready again and again, or packets for it wait for ever. Frames need not come.
- `Page`: weak fairness of the page's timer, of the delivery of answers to each page and of the
  delivery of POSTs. Users and scripts need not do anything.
- `BreatheTwice`: weak fairness of the computation, which is a loop of one thread.

### Findings

1. **A full delay queue panics** (`MCDelayFull`, `qos.rs:72`, likewise `qos.rs:131`).
   If a delay takes the last entry, no packet follows it. When it has expired, pull
   removes it and asks for a packet; there is none, or the next entry is another
   delay. The comment at `synthetic_network.rs:291` expects packets to be dropped.
   `PanicsOnlyOnceFilled` shows that nothing else leads to these panics.
2. **A SIGHUP can be lost** (`MCReloadMissed`, `synthetic_network.rs:60`). A signal
   after the spec was read and before the next flag is registered sets the previous
   flag, which nobody reads again. `doc/report2/README.md:73` says that the signal
   makes the program reload. `RunsFileUnlessMissed` shows, by proof, that this is the
   only way to lose one.

### Other observations

The models contain these behaviours; the properties are stated so that they hold
beside them.

- For networks in general (not the program's own) the exhale order depends on the
  iteration of a HashSet (`engine.rs:263`; the comment at `:224` calls it
  deterministic): with links src to a, b and c, b to a and a to c, two calls may
  differ. `Deterministic` in `BreatheTwice` states it.
- Apps that pull and push are exhaled after the apps they feed, also without a cycle
  (`engine.rs:255`, comment at `:221`). Latency and Jitter are such apps, so a packet
  may take a further breath behind each of them.
- A SIGHUP before the first handler is registered kills rush
  (`synthetic_network.rs:60`): `Converges` allows for it.
- The frontend throws in its callbacks, which ends it for all clients. It does so when
  `JSON.parse` meets a file that a POST truncated, or the mixture that two POSTs left
  (`frontend/frontend.js:38`); when rush is gone at a SIGHUP, killed by one before its first
  handler or panicked (`:48`); when a profile is asked for before rush has made the file, or
  a client goes away while it is sent (`:59`, `:67`); and when the file system refuses a call (`:37`,
  `:46`). The last two need nothing else to have gone wrong; for the others `FrontendEnds`
  shows, by proof, what must have: there is no parse error without a race for the
  file, none of `process.kill` without rush's end, and no missing profile once a spec was applied.
- A `loss` outside 0 to 1 passes the checks on a spec and makes rush panic when it is
  applied (`qos.rs:23`): it is one of the panics of `Reload`.
- TSD computes the IPv4 header's checksum of each segment, so the segments of a packet
  that came with a wrong one have a right one (`offload.rs:175`).
- Checksums are chained with `!sum1` (`checksum.rs:46`): right if the first block has an
  even length, as the headers have; the comment does not say so. A UDP checksum that
  comes out as 0 is sent as 0, which means none to a receiver.
- `flow.js:72` tests `flow.ports_max`, which is undefined: a range from port 0 is shown as
  `*`. `client.js:208` takes a `port_max` of 0 for 65535, and `flow.js:90` turns a backwards
  range round. `TextMeansItsFlow` excepts these, and only these. The page's list of flows goes
  through `client.js:208` as well, so a flow that ends at port 0 is shown with traffic that met
  other flows: `ProfileAgrees` excepts it, and no other. The address 0.0.0.0 and
  port 0 read as wildcards: the text of their rows matches more than the row, and
  `matchFlow` (`client.js:38`) takes a tuple with the TCP or UDP port 0 for one without a port
  (`ProfileAgrees` excepts it).
- An answer to a sync that was sent before the mouse button went down moves the slider
  that is being dragged (comment at `ui.js:20`). An edit before the first answer
  overwrites the file with the page's initial sliders. Both are races of
  `EditsStickUnlessRaced`.
- The form checks a label while it is typed (`ui.js:53`): if a sync brings a flow of that
  label before the click, the page has two widgets of one name and every apply throws
  until one removes it, which removes both, or the next sync.
- A label that begins with a digit is no CSS selector: the page's sync throws on it
  (`ui.js:351`). The model's labels are not of this kind.
- A flow with ports and any protocol matches all ports (`flow.rs:83`), unlike the
  example `(10.0.0.1, *, 80)` of `doc/report3/README.md:14`: `ClassifiedAsDocumented` and
  `ProfileAgrees` are about lists in which flows with ports name TCP or UDP.
- `removeFlow` of the first of several flows, or of one that is not there, cuts the
  last (`client.js:32`): `ViewsAgree` and `EditsStickUnlessRaced` hold until that happens.
- A packet that is not IPv4 is counted under the ID 0, which an unused slot has as well:
  a snapshot that catches the first store into a slot may show it as such traffic.
  `RowsAreTraffic` leaves that ID out.
- The doubling step cannot use the whole pool: with the source's constants, a
  `preallocate` of more than 511,000 packets panics although a million slots exist.

## 4. Proofs

All proofs are checked by TLAPS with the SMT, Zenon and LS4 backends.

**`EngineProofs`: the link**, for every ring size above 1, set of packets and set of lengths. The
inductive invariant `Link!IInv` joins the types, `SingleOwner`,
`CountersMatchCursors` and the fact that a dropped link is empty. `SingleOwner` alone
is not inductive: `new` resets the cursors, which would lose packets if a dropped link
were not empty, and `receive` must know that the slot at the cursor holds a packet.
The arithmetic of cursors modulo the ring size is in lemmas (what `Count` and `Slot`
become after a step at either end). `RingImplementsFifo` maps the slots between
the cursors to the queue of `LinkFifo`: the first states map to a first state and each
step to a step of the FIFO or to none.

**`EngineProofs`: the breathe order**, for every app network in which no app is linked to
itself. What has to be shown is that an app put off in a round, to follow an input or to
break a cycle, comes back. `OrderInv` calls unserved (`U`) the push apps that are linked to
one that pulls or is exhaled and that are not exhaled themselves, and says of
those that the loops have lost sight of (neither a dependent nor a successor still to be
visited) that they wait: in every set of them is one with an input that is unserved, does not pull and
is outside the set (`Waits`). So some of them wait for an app that is still in sight, and when the
dependents run out there are none. Apps put off in the round at hand wait for apps that were
selected (`PutOff`), which are never put off in the same round: without `selected` two apps
could wait for each other. When apps are exhaled, those that waited for
them are among their successors, because only the successors of apps processed are forgotten.

**`BreathProofs`: the pool**, for every number of slots and first step. `PacketPool!IInv` adds
to `NoAliasNoLeak`, `ExhaustedWhenInUse` and the emptiness of free packets two counts:
free packets and those in use add up to the packets made, which bounds `nfree` and so
rules out a full freelist in `free`; and the step is the packets made plus the first
step, which turns "no room for a step" into "about half of the slots are used". The
lemmas on `allocate` and `free` do not depend on who calls them.

**`BreathProofs`: a breathing network**, for every network of the six apps, breathe order, link size and pull
limit. `BreathInv` joins the pool's invariant, `Held` (every packet in use is at one place
of one link or of the scope, the form of `OneHolder` that is easiest to use),
`Loop` (types) and `Scope`. `OneHolder` alone is not inductive: RawSocket's push
leaves its loop at any time, which loses a packet unless it has none in scope,
and Join sends to an output that exists only because it was checked before the loop.
Each thing that the loops are made of (receive, transmit, free, allocate, write) has
a lemma, and each app's action is reduced to these. `FramesStayIntact` rests on `BreathInv`:
since a packet has one holder, filling or freeing one buffer leaves the frames in all
others as they are, and what is written is still in use.

**`RateLimiterProofs`**, for every rate, packet length and rhythm of breaths, and every
`scale >= tick > 0` (the source has 10^6 and 100). `RateLimited` and `RateGranted`
relate the bucket to any earlier moment that `Mark` chose, so they speak of all windows
of time. `WithinTokens`, the first half of `RateLimited`, and `RateGranted` are inductive together
with the types, and the limit on a burst follows from these, as a bucket holds no more than
its capacity: a refill adds `rate` for each
whole microsecond, at most the elapsed time, and at least `tick/(tick + 1)` of it
since a refill waits for a full tick; spending moves tokens to `passed`, and what
does not fit is counted in `wasted`.

**`ReloadProofs`**, for every set of requests, specs and sizes. `Reload!IInv` adds
to the two safety properties that what rush has read is a valid spec, that a request
under way has a body, that rush breathes only with a handler and is killed only without, that
the profiles exist once a spec runs, and the claim of
`RunsFileUnlessMissed` for each place in rush's loop: what was read, or is running, is
what the file holds, unless a signal was missed or a POST is under way.
`WhatEndsTheFrontend` is about steps, as it speaks of the moment at which the frontend throws: an
exception of `process.kill` or a missing profile goes back to `IInv`, and one of `JSON.parse`
to `Reload!FrontendInv`, which is inductive together with it: without a race at most one POST has
the file truncated, and otherwise the file is whole.

**`DelayProofs`**, for every capacity of the queue and of the link, delay and rhythm of
breaths, and for Latency, Jitter and Jitter with reorder in turn. `NotEarly` alone is not
inductive: it speaks of packets that have left, and pull looks at delays, never at a
packet's own time. `HeldBack` says why that is enough: the time of a queued packet has
come, or a delay ahead of it lasts at least as long. `NotLate` is the opposite bound:
delays end within `delay` of now (`Bounded`), and those ahead of a packet within `delay`
of its arrival (`Soon`), so that they do not add up. For the panic, `Paired` says that a
packet follows each delay, but for the one that Latency has just put in for its batch,
and this holds as long as the queue has not been full; `full`, which is remembered from
one enqueue to the next, is false as long. `Order` relates what was sent, is queued and is
on the link, which gives `OnlyDirectOvertakes` and keeps the places of `NothingLost` apart.

**`NetworkProofs`**, for every set of specs, with any number of flows. It has two parts.
`EngineInv` is about `configure` for any configuration that links apps it has: `Ports` (an
app's ports hold no more than the links in the table), `Progress` (what each loop finds
done by those before it), and `KeptApps` and `KeptLinks` (what is there is what was there before
the call, and only what was to go is missing). `MatchesConfig` and `KeepsUnchanged` are
claims about the end of the fourth loop, and each loop has its own part of them. `Translated`
adds that the configuration is the translation of the last spec that was accepted. What a
translation contains is a series of lemmas: the names of apps differ between paths, classes
and kinds of app (`sanitize_labels` keeps "default" and duplicates out, so no flow's apps
overwrite another's), and each link is one of ten hops (`Hop`) whose start determines its end and
whose end its start. From these follow that no port has two links, the journey of a packet
one hop at a time, and, comparing two specs name by name, the action property `ReloadIsLocal`.

**`OffloadProofs`**, for every MSS, link size, sequence space and traffic. `IInv` joins the
types, `Tiled` (the pieces in flight of a packet cover it, do not overlap and carry the right
sequence numbers), `Places` (what TSD has done to a packet by the time it is where it is),
`Buffers` and `Order`. `Order` is needed for more than the order of the output: `EveryByteOnce`
speaks of the set of packets in flight, so a step that cuts a packet in two must
know that the packet it replaces is not also somewhere else. `Places` also says that a
packet behind TSD has an IPv4 header checksum over its own length (`HeaderRight`), or is uncut. The wrap-around of sequence
numbers is one lemma on sums modulo `SeqSpace`.

**`FrontendProofs`: classification, texts and the traffic table**, for every list of flows,
traffic, number of slots, hash and overlap of requests. `ClassifiedAsDocumented`,
`ProfileAgrees` and `TextMeansItsFlow` are proved for one packet and one list from what
`SelectInSeq` returns, and carried along by an invariant on the types of what the Splits have
sorted. For `ProfileAgrees`, a flow of the page's list takes at least the packets that it gets
(`ShownAsMatched`), so no flow before the one shown gets the packet, and no more unless it ends
at port 0. For `RowsAreTraffic` the invariant ties the three words of each slot to `tally`, the
history of what was counted: each word is that of the last packet or, while it is still to be
stored, of the one before. Each word that a request has read lies between the words that were there
when it began and when it ended, as counters only grow. The two snapshots
of a row bound its difference from both sides; a snapshot may tear a slot, so the packets, the
bits and the ID are bounded one by one.

**`FrontendProofs`: client and page**, for any number of scripts and pages, labels, values and
POSTs. `ViewsInv` (every list of flows that is about, in a client, a POST, an answer or the
file, has distinct labels as long as removeFlow cut the right flow) gives `ViewsAgree`.
`EditsStickUnlessRaced` needs more: it speaks of the moment at which no POST is under way, and
edits are made and sent long before. `Clean` says that every POST under way derives from
the one before it; then they come in the order of their numbers (`OrderInv`), what is sent next derives from the last
of them, and each of them says of its targets what `last` says, as
it was said or as a slider rounds it. A POST that breaks the chain will set `raced`
when it reaches the file, and `Clean` cannot come back. `PageInv` is about a page with two
widgets of one label: from the second on they are edits that are still to be sent, so the click
that removes them, listener by listener, sends the value of the one that is left.

The named assumptions are in the modules that declare the constants; TLC evaluates
them in the runs.

Only model-checked:

- `Converges`, `Terminates`, `Drains` and `PagesConverge`: liveness under fairness is out of
  the prover's reach.
- `NetworkIsDeterministic` and `NetworkFollowsPushLinks`: they are about one network, and are
  false of others.
- `AssemblyMatchesReference` and `ReceiverAgrees`: what a computation over a byte string of any
  length yields needs induction over data.
- `DropsOnlyBehindBlocked` and the order in `WrittenInOrder`: they hold in the run's network,
  not in every network that `BreathProofs` is about (two paths of different lengths reorder).

## 5. Not modelled

- `memory.rs`: DMA memory, which nothing uses since `packet.rs:83` always chooses the heap.
- Opening and closing of raw sockets; `select`, `read` and `write` are what the kernel may
  answer.
- Reports, statistics and traces of the engine: printing.
- Header accessors, which are fields of records; the bytes of payloads, but for checksums.
- The checks and roundings of each field of a QoS in `client.js`, rendering in `ui.js`, the
  regular expressions of `flow.js`.
- Overflow of 64-bit products of rate and time (rates near 2^44 bits per second),
  handlers that add up with each reload, and link specifications with characters that
  are not word characters.
- Malformed frames shorter than their headers, vendored code, container setup beyond
  the order in which the processes start.

## 6. Plan

Written in this order, the most important behaviour first: links and the pool, on
which all apps rest; the QoS apps; the engine's order and reconfiguration; the
translation of a spec; the reload protocol; offloading, classification, the traffic
profile, the client; then a network that breathes, the checksums, the texts of flows and
the control page.

Every safety property that holds for all values of the parameters is proved, but for those
on checksums.
