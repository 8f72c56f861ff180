# TLA+ models of geph4's sosistab listener, bridge and exit key

This directory holds TLA+ specifications of the parts of geph4 whose
correctness depends on interleavings, crashes and message loss. It also holds
the TLC configurations that check them, an abstract specification of the
listener's session table that the listener is shown to implement, and TLAPS
proofs of the main safety invariants of all three components and of that
refinement. PROJECT.json lists every component, run, mutant, finding,
hazard and theorem, and maps each definition to the source lines it models.

## The system

geph4 tunnels client traffic through *exits*, optionally by way of
*bridges*. Its transport, sosistab, runs sessions over UDP or TCP surrogates.

- **Listener actor** (`src/lib/sosistab/src/listener.rs`,
  `ListenerActor::run`). It is one task that races `recv_from_many` against
  `recv_dead`. It hands each datagram to the session at its address
  (`try_send`). The datagram may also fall through, subject to a
  5-per-minute per-address limiter, to handshake decoding, which:
  - checks the recent-packet filter;
  - answers `ClientHello` with a stateless resume token;
  - answers `ClientResume` either by rebinding the token's existing session
    or by creating a session.

  A new session gets an output poller task and a drop hook. The hook
  cancels the poller and sends the token to `recv_dead`, and the actor later
  deletes the token from the session table.
- **Session table, recent filter, sessions.** `table.rs`, `recfilter.rs` and
  `session.rs` are not in this repository's sources. They are modelled from
  the spec (sections 3, 4.4 and 4.5) and marked `spec_modelled` in the map.
- **Bridge** (`src/geph4-bridge/src/main.rs`). At start-up `main` flushes
  the nat table. `bridge_loop` polls the binder every 30 s and spawns one
  `manage_exit` task per new exit hostname. A manager resolves the exit,
  then races two futures:
  - `manage_fut` reruns `manage_exit_once` for ever: connect, answer the
    challenge, then every 30 s report the bridge's address and read the
    exit's sosistab port;
  - `route_fut` receives each port over a zero-capacity channel and, when
    the port changes, deletes the old DNAT rule and appends a new one.

  Each `manage_exit_once` first reads the `MY_IP` Lazy, whose initialiser
  unwraps a checkip request. A failure panics the manager's task and
  poisons the Lazy, so every later first read panics as well.
- **Exit start-up** (`src/geph4-exit/src/main.rs`). The exit reads its
  signing key file. If the read fails, it generates a key, writes it, and
  sets the file read-only with `set_mode(600)`. If the read succeeds but the
  bytes do not deserialize, `main` returns the error. With its key in hand
  the exit asks the binder for the exit list; a failed request also ends
  `main`.
- **Not modelled:** the client connect wrappers (`client/mod.rs`),
  `sosisbench`, and geph4-client's SOCKS5/stats front end
  (`main_connect.rs`). PROJECT.json gives the reasons.

## Modules

| module | models | state | actions |
|---|---|---|---|
| `Listener` | listener actor, session table, filter, limiter, sessions | network `net`, the batch in hand, `byToken`/`byAddr`/`addrs` (the table), session states and queue fills, `deadQ` (recv_dead), filter generations, limiter cells, issued tokens | `Receive`, `HandleItem` → `Decoded` → `ClientHello` / `ClientResume`, `Reap`, `RecvFail`, `SessionRecv/Send`, `PollerSend`, `DropSession`, `Refill`, `Rotate`; environment `SendNew`, `Replay`, `Lose` |
| `SessionLifecycle` | what the listener promises of each token's table entry (abstract) | `life`: absent, live or pending a reap | `Accept`, `Drop`, `Reap` |
| `ListenerProofs` | TLAPS proofs about `Listener` and its refinement | | |
| `Bridge` | bridge process, managers, nat table | `up`, `current` (current_exits with each task's state), `myIp` (the Lazy), `offer` (the port handed to route_fut), `adding` (the port between `-D` and `-A`), `lastPort`, `routeDelete`, `rules` (a bag: `-A` appends duplicates), `exitPort` | `Start`, `Crash`, `Poll`, `Resolve`, `ResolveFail`, `MyIp`, `IpPanic`, `Connect`, `ConnFail`, `ReadPort`, `Handoff`, `AddRule`, `ExitRestart` |
| `BridgeProofs` | TLAPS proofs about `Bridge` | | |
| `ExitKey` | exit key persistence | the key `file` (key, integer mode), `pc`, the key in memory, keys announced, `faults` (I/O errors of the key file so far) | `ReadKey`, `WriteKey`, `SetPerms`, `Serve`, `TornWrite`, `Restart`, `Relaunch`, `Run` |
| `ExitKeyProofs` | TLAPS proofs about `ExitKey` | | |
| `MCListener`, `MCBridge`, `MCExitKey` | model values for TLC | | |

### How the code maps to the model

An action models a whole handler. `HandleItem` is one iteration of the `for
(buffer, addr) in items` loop:
- the lookup and `try_send`;
- the limiter check, which consumes a cell;
- the handshake path (`Decoded`), which runs when there was no session or the
  limiter allowed it.

`ClientResume` includes `new_sess`, the following `rebind`, the spawn of the
poller and the installation of the drop hook. `DropSession` is the drop hook:
it cancels the poller, resets the session's queues and appends the token to
`recv_dead`.

Data is abstracted:
- A buffer is `[id, frame]`. The id identifies the bytes, so a replay
  carries the same id.
- Frame kinds are the `HandshakeFrame` variants, plus `Data` (never
  decrypts as a handshake) and `Empty` (a handshake that decrypts to an
  empty list).
- A token is valid iff the listener issued it (`TokenInfo::decrypt`
  succeeds). `Forged` is a token that does not decrypt.

Three ghost variables record history for the properties:
- `creations` counts the sessions each buffer created;
- `forgot` counts the rotations of the recent filter that dropped each
  buffer;
- `boundTo` records the last rebind of each address.

In `Bridge`, a rule is `[exit, port]`. The local port is the manager's own
socket, one per exit per incarnation. A manager's route update is three
steps:
- `ReadPort`: one iteration of `manage_exit_once`'s loop writes the
  address, reads the exit's port and sends it (lines 179-195);
- `Handoff`: `route_fut` receives it and, when it differs from
  `last_remote_port`, takes `route_delete` and runs the `-D` (114-123);
- `AddRule`: the `-A`, then `route_delete` and `last_remote_port`
  (124-138).

Both futures run in one task and `route_fut` has no await between its
receive and the end of its loop body, so `manage_fut` does not run between
`Handoff` and `AddRule` (the guards on `offer` and `adding`). The exits, the
other managers and a crash do: an exit may move after its port was read, and
the process may die between the `-D` and the `-A`. `MyIp` and `IpPanic` are
the first read of `MY_IP` in `manage_exit_once` (lines 152-161, 171). A
`Crash` keeps `rules`, since the kernel's nat table outlives the process,
and resets `MY_IP` with the rest of the process.

In `ExitKey` the mode is the integer the code passes, and the permission bits
are read off it by division. `set_mode(600)` is therefore the decimal 600,
0o1130, whose owner bits are execute only. A new file gets 0o644 (umask 022).
Root bypasses the bits. `std::fs::write` truncates (or creates) the file and
then writes the bytes; `TornWrite` is a death in between, which leaves bytes
that are not a keypair (`Garbage`). `ReadKey` on such a file goes to
`"failed"`: the read succeeded, so the generate path is not taken, and the
`?` of `bincode::deserialize` returns from `main`. Any other error of the
read, not only a missing file, takes the generate path: with `IoErrors`, a
read of an existing file may fail (`Fault`), and so may the write, leaving
the file as it was or truncated, after which the exit goes on with the
unsaved key. Each such failure, bounded by `MaxFaults`, is counted in the
ghost `faults`. `SetPerms` may fail at its `?` and `Serve`, the binder's
`GetExits` request, may fail or panic: both end `main`. `Relaunch` is the
supervisor starting the exit again.

### The refinement

`SessionLifecycle` states what the listener promises of each resume token.
A session is accepted only while the token has no table entry (`Accept`).
A live session is reported dropped before its entry goes (`Drop`). A
pending entry is removed once, and only then may the token be accepted
again (`Reap`). `Listener` instantiates it as `SL` with `life <- Life`.
`Life` maps a token with no entry in `byToken` to absent. A token with an
entry maps to live if its session is live, and to pending otherwise. A
`ClientResume` that creates a session maps to `Accept`. `DropSession` maps
to `Drop`. `Reap` of the head of `recv_dead` maps to `Reap` of that token.
Every other step maps to a stutter; this includes a resume that only rebinds.

## Runs

| run | cfg | expect | what it shows |
|---|---|---|---|
| listener_safety | MCListener.cfg | pass | `TypeOK`, `LiveSessionInTable`, `NoReplayedSession`. Setup: two addresses, two tokens, three sends, hellos of a supported and an unsupported version, resumes with issued and forged tokens, data, other and empty frames, replays, losses, drops, recv errors. About 75k distinct states. |
| listener_reap_liveness | MCListenerLive.cfg | pass | `ReapEventually`: with two shards and a rotating filter, every dropped session is eventually deleted. `SessionRefinement`: on the same instance, the listener implements `SessionLifecycle`, including when a resume is replayed after the filter rotated. `ReplayOnlyWhenForgotten`: with rotation on, a buffer creates a session again only after a rotation dropped it from both generations, at most once per such drop. |
| listener_replay | MCListenerReplay.cfg | violation | `NoReplayedSession`: replaying a `ClientResume` after the filter rotated recreates a reaped session. |
| listener_route | MCListenerRoute.cfg | violation | `RouteStable`: deleting a dropped session purges an address that a NAT has meanwhile handed to another client's session. |
| listener_empty_frame | MCListenerEmpty.cfg | violation | `ListenerRunning`: `handshake[0]` panics on an empty frame list. |
| bridge_rules | MCBridge.cfg | pass | `RulesMatchRoutes` across two crashes (also between a `-D` and its `-A`), two port changes, connection, DNS and checkip failures. |
| bridge_converge | MCBridgeLive.cfg | pass | `RouteConverges` when DNS lookups and the checkip request succeed, including when an exit moves between the port read and the `-A`. |
| bridge_resolve_fail | MCBridgeResolve.cfg | violation | `RouteConverges`: a manager whose resolve failed, or that panicked on `MY_IP`, is never respawned; a poisoned `MY_IP` panics every later manager. |
| exitkey_root | MCExitKeyRoot.cfg | pass | `IdentityLostOnlyByFaults` for an exit run as root, dying at any point of start-up, inside the key's write included, with up to two failed reads or writes of the key file and failed permission changes and binder requests. |
| exitkey_nonroot | MCExitKeyNonRoot.cfg | violation | `StableIdentity`: as an ordinary user, the key set to mode 600 is unreadable on restart. |
| exitkey_crash | MCExitKeyCrash.cfg | violation | `KeyNotExposed`: a crash between write and chmod leaves the key at 0o644. |
| exitkey_torn | MCExitKeyTorn.cfg | violation | `ExitComesUp`: after a death inside the key's write, every later start fails. |

Every property of a passing run has a mutant in PROJECT.json, and TLC finds
the property violated under that mutant. The mutants are:
- a limiter refill past its burst;
- a `ClientResume` that skips the rebind check (for `LiveSessionInTable`,
  and for `SessionRefinement`, where a dropped session's token is accepted
  again before its reap);
- a handshake path without the recent filter;
- a drop hook that never reports the token;
- a `main` without the nat flush;
- a recent filter that consults only its current generation (for
  `ReplayOnlyWhenForgotten`);
- a `manage_exit_once` that reads the port only once per connection (for
  `RouteConverges`);
- a start-up that runs with a fresh, unsaved key when the key file does not
  deserialize (for `IdentityLostOnlyByFaults`).

**Bounds.** Two addresses and two tokens are enough for every interaction
the listener has between sessions: rebinding an address from one token to
another, and a reap purging another session's address. Three sends in
the safety run allow a hello, a resume with its token and a replay of either
in one behaviour; drops, losses and reaps are not sends. Burst and queue
capacities of 1 reach both the full and the empty case of each. Two exits and
two ports let a manager see its exit move while the other manager runs. Two
crashes let a crash happen both before and after routes exist. For the
root exit, two restarts and two faults with five keys let a fault and a
death follow one another in either order, and leave a key for every
generation.

**Fairness.**
- `Listener` assumes weak fairness of the listener task only. The actor is
  always scheduled when it has an event. Clients, sessions and the clock get
  no fairness.
- `ReapEventually` also relies on the environment's sends being bounded
  (`MaxSends`). Under unbounded traffic the race, which polls
  `recv_from_many` first, may postpone the reap indefinitely.
- `Bridge` assumes weak fairness of `Start` (a supervisor restarts the
  process), `Poll` and `ReadPort` (30 s timers), `Handoff` and `AddRule`
  (the executor polls a woken task), and `Resolve`, `MyIp` and `Connect`
  (the network eventually answers). Crashes, port changes and connection
  failures are bounded. DNS and checkip failures are either off or on;
  `bridge_converge` runs with both off, as its precondition.
- `ExitKey` assumes weak fairness of `ReadKey`, `WriteKey`, `SetPerms` and
  `Serve`,
  because `main` runs its start-up to the end unless the process dies. It
  also assumes weak fairness of `Relaunch`: the exit is run under a
  supervisor that starts it again when `main` returns. Deaths (`Restart`,
  `TornWrite`) get no fairness and are bounded by `MaxRestarts`.

## Findings

Each finding except 4 is shown by a violation run. Details are in
PROJECT.json.

1. **Resume tokens never expire** (listener.rs:243). Once the recent filter
   rotates, a captured `ClientResume` recreates a session after the original
   one was reaped. Spec section 8 says a buffer fed twice creates exactly one
   session.
2. **A reap deletes a rebound address** (listener.rs:147, `delete` as the
   spec defines it). If a NAT gives a dropped session's address to another
   client before the reap, the new session is left unroutable.
3. **`handshake[0]`** (listener.rs:180) can stop the listener. Spec
   section 7 says per-packet errors never do. `recv_from_many().unwrap()`
   (listener.rs:137) does the same on a receive error, against the spec's
   "transient I/O ... loop continues". The model has that step
   (`RecvFail`), but no separate run shows it.
4. **The reap is not processed within one iteration** (listener.rs:136),
   contrary to spec section 5. `smol::future::race` polls `recv_from_many`
   first, so the loop can take new batches while a `DeadSess` waits. In
   the model this is a `Receive` step taken while `deadQ` is not empty,
   which the listener runs reach. There is no run for it: the number of
   runs is limited, and finding 8 takes the slot.
5. **Bridge managers that fail are never respawned** (bridge main.rs:68).
   A failed resolve ends the task, and a failed checkip request panics it
   and poisons `MY_IP`, so every later manager panics too.
6. **`set_mode(600)` is decimal** (exit main.rs:88). A non-root exit loses
   its identity on every restart.
7. **The key is written before its mode is set** (exit main.rs:82). A crash
   in between leaves the private key at 0o644.
8. **A torn key file stops the exit for good** (exit main.rs:74).
   `std::fs::write` truncates before it writes. After a death in between,
   the file reads fine but does not deserialize, and the `?` ends every
   later start. The generate-on-failure path runs only when the read
   itself fails.

## Proofs

`tlapm` checks every proof. Each holds for every value of the constants that
satisfies the module's assumption (`ConstantsAssumption`,
`BridgeAssumption`, `ExitKeyAssumption`). Each invariant theorem follows the
same scheme. It finds an inductive strengthening, checks it with TLC first,
and proves `Init => IInv`, `IInv /\ [Next]_vars => IInv'` (one step per
action) and `IInv => Inv`. The last step is `PTL DEF Spec`.

### ListenerProofs

- `TypeCorrect`: `Spec => []TypeOK`. The proof shows `Init => TypeOK` and
  then takes each action in turn. The handshake path is split by filter hit
  and by frame kind, and `ClientResume` by its three branches
  (`DecodedTypeOK`, `HandleItemTypeOK`, `NextTypeOK`).
- `LiveSessionsRouted`: `Spec => []LiveSessionInTable`. `LiveSessionInTable`
  on its own is not inductive: a step of `Reap` deletes the head of
  `recv_dead`, and nothing in the invariant says that token's session is not
  live. The strengthening `IInv` (in `Listener`) adds three facts:
  - a token is in `by_token` exactly while its session is live or its token
    waits in `recv_dead` (`TableHoldsSessions`);
  - every waiting token belongs to a dropped session (`ReapQueueDropped`);
  - no token waits twice (`IsInjective(deadQ)`).

  `IInv` was first checked with TLC as an invariant under MCListener.cfg
  (then with four sends, 3.0M states). The proof has one lemma for each action that touches the
  table, the sessions or `recv_dead` (`HandleItemTable`, `ReapTable`,
  `DropSessionTable`) and one for the rest (`TableUnchanged`). These rest on
  two sequence lemmas:
  - `AppendRange`: sending a token not already waiting keeps the queue
    duplicate-free;
  - `TailRange`: receiving from a duplicate-free queue removes exactly its
    head.
- `ReplayFiltered`: `Spec => []ReplayOnlyWhenForgotten`, with the filter
  rotating. `ReplayOnlyWhenForgotten` is not inductive, because a buffer
  that created a session creates another when it comes back. The
  strengthening `FilterHoldsCreated` bounds a buffer's creations by the
  rotations that dropped it, plus one while either filter generation holds
  it. A decoded buffer either hits the filter and changes nothing, or enters
  the filter in the same step in which it creates its one session
  (`DecodedCreations`, `HandleItemReplay`). A rotation counts each buffer it
  drops (`RotateReplay`). The `listener_replay` run shows that the drop
  does happen and that the replay then recreates a reaped session.
- `ListenerRefinesLifecycle`: `Spec => SessionRefinement`, i.e. `Spec =>
  SL!Spec`. No invariant beyond `IInv` is needed.
  - A reap deletes the head of `recv_dead`. `ReapQueueDropped` says that
    token's session is dropped. `TableHoldsSessions` says it still has its
    entry. So the token goes from pending to absent (`ReapRefines`).
  - The drop hook reports a live session, which has its entry, so that
    token goes from live to pending (`DropRefines`).
  - `HandleItemCreates` says one item of a batch creates at most one
    session, and only for a token without an entry (`AcceptRefines`).
  - `NextRefinesLifecycle` collects the cases. All other actions leave
    `byToken` and `sess` alone.

### BridgeProofs

- `RulesTracked`: `Spec => []RulesMatchRoutes`. `Installed` is the set of
  rules the managers' `route_delete` name. The strengthening `RInv` adds
  three facts:
  - `route_delete` names a rule of its own exit (`DeleteOwn`), so the `-D`
    of `Handoff` removes exactly one rule from `Installed`;
  - while a rule is being replaced, `route_delete` has been taken
    (`AddTaken`), so the `-A` of `AddRule` appends a rule not yet in the
    table;
  - a bridge that is down has no managers, so nothing is installed
    (`DownUnrouted`), and the flush of `Start` leaves the table equal to
    the empty set.

  The steps rest on two bag lemmas. `BagRemove`: deleting a rule held once
  gives the set without it. `BagAdd`: appending a rule not held gives the
  set with it.

### ExitKeyProofs

- `RootIdentityStable`: `RunAsRoot => (Spec => []IdentityLostOnlyByFaults)`.
  `Known` is the set of keys served, on disk or in hand. The strengthening
  `IInv` says:
  - `Cardinality(Known) <= 1 + faults`;
  - while neither the file nor start-up holds a key, every key served so far
    was paid for by a fault;
  - while generating, the keys served so far were paid for by faults;
  - the written file holds the key in hand.

  A start finds an absent or unreadable file only when every key served so
  far was paid for: root can always write, so a key served and not saved
  comes from a failed write. A failed read of an existing file adds one key
  and one fault. A torn write leaves garbage that never deserializes, so no
  later start generates another key. It makes the exit fail instead, which
  finding 8 is about. Failed binder requests and permission changes end
  `main` with the key already saved. The cardinality steps rest on two
  lemmas about finite sets of keys, `CardSub` and `CardAdd`.

**Only model-checked:**
- the liveness properties (`ReapEventually`, `RouteConverges`,
  `ExitComesUp`). TLAPS cannot prove properties about fairness and
  `ENABLED`.
- the violations.

## Plan for later work

1. Model the client (`client/inner.rs` from the spec: shards, reset interval,
   re-sent `ClientResume`) and compose it with `Listener`. The client and the
   listener would share `net`, and the spec's NAT-rebind test (section 8,
   test 3) would become a property.
2. Model the loss estimate of `main_connect.rs` (lines 208-226) as a pure
   operator on counter sequences, with u64 saturating subtraction.
3. Model a failed spawn in `run_command` (bridge main.rs:149), which panics
   a manager between taking `route_delete` and its `-D` or `-A`.
4. Model the delisting of exits in `Bridge`. `current_exits` only grows,
   so a delisted exit keeps its rule (a hazard in PROJECT.json).

## Not modelled

The SOCKS5 and HTTP front ends, the stats endpoint and the debug pack of
`main_connect.rs` are I/O glue around `Keepalive`, which is not in the
sources. The spec places them out of scope. Two of their hazards are listed
in PROJECT.json without a property:
- the SOCKS5 `Success` reply is sent before the upstream connect;
- the relay's race drops one direction when the other ends.

The client connect wrappers only build a configuration. `sosisbench` is a
benchmark. The cookie and AEAD code is pure cryptography and is not in the
sources.
