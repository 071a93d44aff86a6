# TLA+ models of polkadot-chat-agents

Formal models of the chat agents of this repository: how statements of peers
reach the bot, how they are journaled, acknowledged, answered by an engine or
handed to a bridge consumer, how answers leave over one statement slot per
channel, and what failures and restarts leave of all this; the same for the
T3ams transport; and the parts around them that keep state (files, allowances,
the sandbox that the transports are tested against).

Each module names in its header the source it models and what it leaves out.
`PROJECT.json` maps every definition to its lines, lists the hazards of the code
with the properties that watch them, and lists runs and theorems. Short names
below: `index.mjs` is `bot-core/index.mjs`, TX is
`bot-core/transports/t3ams/index.mjs`, TP is
`bot-core/transports/t3ams/t3ams-protocol.mjs`.

Contents: [components](#components-and-how-they-interact),
[modules](#modules-and-the-code), [runs](#runs), [bounds](#bounds),
[fairness](#fairness), [proofs](#proofs),
[disagreements](#where-code-and-text-disagree),
[further properties](#further-properties),
[not modelled](#not-modelled-and-why), [plan](#plan).

## Components and how they interact

| Component | State it keeps | Operations | Modules |
|---|---|---|---|
| outbound lanes (`lib/outbound-lanes.mjs`) | per peer and channel: queue, current statement, extensions, grace timer, pump | enqueue, pump, submit, onAck, grace takeover, expire | `OutboundLanes`, abstract `MessagePromises` |
| state store (`lib/session-store.mjs`) | pending snapshot, running drain, timer, temporary file, the file | save, flush, scheduled flush, write, load | `StateStore`, abstract `DurableSnapshot` |
| receive path (`index.mjs`) | dedup sets, owed journal with its answers, admissions, work queues | handleOpener, handleSessionStatement, pumpOwed, journalAnswer, resendAnswer, settleOwed, restore | `OwedReplies` |
| bridge queue (`index.mjs`) | inbound queue with leases, reservations, serialized acknowledgements | drainInbound, acknowledgeInbound, lease expiry, handleInbound | `BridgeQueue` |
| ingress, session table, keyed dispatcher (`index.mjs`, `vendor/lib/statement-ingress-supervisor.mjs`, `lib/keyed-dispatcher.mjs`) | subscription groups, pages, heartbeat, sweeps, queue per key, workers | subscribe, page, miss, recover, sweep, dispatch, run | `Ingress` |
| attachment downloads (`index.mjs` 484-594, `lib/hop-client.mjs`, `lib/media-store.mjs`) | scheduler slots, byte reservations, shared downloads, cache, the pool of the node | request, start, claim, check, acknowledge, reconnect, evict, upload | `HopTransfer` |
| live replies (`lib/live-reply.mjs`) | placeholder, its ACK, throttled frame, heartbeat, time to live | begin, update, finalize, stop, expire | `LiveReply`; in T3ams also `T3amsLive` |
| agent runtime (`lib/agent-runtime.mjs`, `commands.mjs`, `workspaces.mjs`) | turns, process slots, resume tokens, per-peer choices | handleMessage, /stop, commands, shutdown, restore | `AgentRuntime` |
| file store (`lib/file-store.mjs`) | index, manifest, files with their backups | put, remove, read, restore | `FileVault` |
| file allowance (`lib/testnet-file-allowance.mjs`, `cli.mjs`) | marker file, faucet transaction, quota on the chain | grant, recover | `FileAllowance` |
| single-instance guard (`index.mjs` 2496-2546, TX 4242-4379) | pidfile, takeover mutex | start, inspect, take over, release, exit | `InstanceGuard` |
| registration (`lib/register.mjs`, `cli.mjs`, `sandbox/lib/registration.mjs`) | `config.json`, the saved session, the record of a persona | create, register, `--again`, status, verify, delete | `Registration` |
| T3ams journal and answers (TX) | ingress journal, lanes, turns, outboxes, deferred and delayed rows | admit, reconcile, /stop, run, answer, retry, restore | `T3amsJournal` |
| T3ams bridge and the OpenClaw gateway (TX, `openclaw-plugin/polkadot/src`) | leases by lane, fenced sends, coalesced edits; dispatcher, live reply | lease, renew, send, edit, acknowledge; poll, dispatch, retry | `T3amsBridge` |
| T3ams protocol client (TP) | workspaces, roster, keys; peers, trust, greetings; routes; sends | receive, join, rotate, grant; request, accept, replay; subscribe, replay; send, backfill | `T3amsWorkspace`, `T3amsPairing`, `T3amsRoutes`, `T3amsOutbound` |
| T3ams context (`t3ams-message-lifecycle.mjs`, `t3ams-channel-context.mjs`) | bounded history, passive context | message, edit, deletion, prompt, expiry | `T3amsContext` |
| T3ams media (`t3ams-media-*.mjs`, TX) | token budget, submitted boundary, queue of analyses | reserve, submit, cancel, settle, restore | `MediaAnalysis` |
| Hermes adapter (`hermes-plugin/polkadot/adapter.py`) | queues by chat, claims, staged files | poll, dispatch, reply, send file, acknowledge, stop | `HermesAdapter` |
| sandbox (`sandbox/lib`) | statement slots, subscriptions; personas, devices, requests, messages | submit, subscribe, hold back, expire; request, accept, send, acknowledge, add and remove devices | `SandboxStore`, `SandboxChat` |
| peer clock, chunking, chain access, the other command line tools, logging, T3ams support, sandbox user interface | small or none | pure functions, pure I/O, interactive tools, presentation | not modelled |

A statement that reaches the bot by subscription or sweep (`Ingress`) goes
through the keyed dispatcher to a handler (`OwedReplies`, `BridgeQueue`). The
handler journals the message, makes the snapshot durable through the state store
(`StateStore`), queues the work and acknowledges. A direct brain
(`AgentRuntime`) answers in the peer's work queue: each part of the answer is
journaled, made durable and given to the peer's lane (`OutboundLanes`), perhaps
behind a placeholder that shows progress (`LiveReply`). With a bridge the work
becomes a delivery which a consumer leases and acknowledges (`BridgeQueue`,
`HermesAdapter`). Attachments come through `HopTransfer`; files go out of
`FileVault` under an allowance that `FileAllowance` obtained. Before any of it,
`Registration` gives the identity its username, and `InstanceGuard` keeps a second
process from serving it.

T3ams replaces the receive path: `T3amsRoutes` says what is read,
`T3amsPairing` and `T3amsWorkspace` who may write and what can be decrypted,
`T3amsContext` what a message becomes that does not address the bot,
`T3amsJournal` what becomes of one that does, `MediaAnalysis` what happens to its
files, `T3amsBridge` and `T3amsLive` how a consumer or a direct brain answers it,
and `T3amsOutbound` how all writes of the bot go through one queue with fences.

What is hard here: handlers, turns, pumps, timers and acknowledgements
interleave at every `await`; what was read before an `await` may be stale after
it; one drain of the state file serves all who wait for it, and may fail for all
of them; a submit or a transaction that was given up still runs; the peer may
see a statement before the submit returns; a crash may come at any point;
statements are retained and come again, in any order; queues, journals, caches
and budgets are bounded, and what does not fit is deferred un-acknowledged.

## Modules and the code

A JavaScript async function is cut at its awaits: what lies between two awaits is
one action, since nothing else of the process runs meanwhile. `io`, `phase` or
`at` of a record says at which await a function stands; a flush that is awaited is
`io = "wait"` until `DrainEnds` or `DrainFails` answers everybody who waits, as
`StateStore` shows of the shared drain. Timers fire at any moment after they
were armed. Contents, encodings and keys are left out unless a property depends
on them. Variables that only observe (what the peer was sent, which lease a row
was answered by) are marked so in the modules.

* `OutboundLanes`: `PumpTick` is the code from the `setImmediate` (154) to the next
  submit or return, `SubmitReturns`, `SubmitRefused`, `SubmitTimesOut` what
  follows the submit; `Land` is the statement reaching the store and replacing
  the slot, at any time after its submit, for ever after a timeout; `Fetch` is the
  peer reading the slot, and only fetched requests can be acknowledged (`OnAck`).
  `packBatch` is the operator `Pack`. `MessagePromises` is what a lane promises
  for a message: `submitted` settles once, "ok" only if it is on the node or was
  superseded; `delivered` settles once, "true" only if the peer has it.
* `StateStore`: `Begin` is the drain taking `pending`; `Opens`, `Renames`,
  `Returns` the steps of a write; `GivenUp` the failed drain with its retry timer;
  `Crash` leaves the temporary file of an open write, which the next process may
  collide with when it has the same process id. `DurableSnapshot` is its promise:
  the file holds a saved snapshot, never an older one than before, and a
  successful flush covers what was saved before it was called.
* `OwedReplies` (direct brain) and `BridgeQueue` (bridge) are the receive path
  with its journal. The handler of openers, the session handler of each peer and
  the head of each work queue are records; `Crash` restores memory from `disk` and
  pumps the journal. In `BridgeQueue` each message has a peer of its own, so only
  the queue and the journal bound it; lease ids are numbered per message.
* `Ingress`: groups of topics with their subscription, its pages and death; the
  heartbeat's statement of its own; sweeps; the record `disp` is the keyed
  dispatcher with its cap and refusals.
* `HopTransfer`: requests share a download of their file; the scheduler has slots
  and byte reservations; the node hands out an entry once, so claim and
  acknowledgement are separate steps with one reconnect in between.
* `LiveReply`: `ThinkingFires`, `Frame`, `FlushDue`, `AckTimesOut` and `TtlTakes` are
  the timers; a turn's answer takes the placeholder and retires it by a terminal frame that
  carries its first part; when that fails the part goes out by itself.
* `AgentRuntime`: a turn waits for a slot, spawns, delivers and settles. The
  choices of a peer and its resume token are in bounded maps and in the snapshot;
  the directory of a turn is that of its beginning (1189-1191).
* `FileVault`: an update renames the old file to a backup, the new one into place
  and then saves the manifest; each step may fail or be the last. Readers size a
  file first and read it later. `FileAllowance`: each invocation of `pca` is a
  process; the marker is created before the chain is asked, is "unresolved"
  before a transaction is signed, and stays while the outcome is unknown.
* `InstanceGuard`: processes interleave at every call of the file system. A file is
  known by who created it, its text and whether it is older than a second; `Moves`
  and `Removes` take away what is there by now. `harm` is a ghost with the three
  ways that excuse two servers: "bare", "robbed", "stalled".
* `Registration`: a command of `pca` is a process with the copy of the files that
  it read at its start and saves whole; the daemon's requests share the record of
  their persona. `Posts` is the backend taking a claim, `Lands` the attester, `Wipes` a
  migration. `blame` is a ghost with the five ways that excuse a second claim:
  "overwritten", "outdated", "raced", "insisted", "unanswered".
* `T3amsJournal`: `mutations` is the queue of `mutateIngress`, whose tasks are the
  inbound callback, the lanes and the durability retry. A mutation has a part
  that runs at its turn, the wait for the file, and a part after it. `undo` is
  what a failed write takes back; `RetryThrows` is the durability retry that leaves
  the journal frozen. A lane's task steps from its claim through
  analysis, brain, outbox and parts to its completion.
* `T3amsBridge`: rows of the journal are leased lane by lane, oldest first;
  sends and edits carry the lease and the revision; an acknowledgement flushes
  the edit that the throttle holds back, then removes the row, and a failed
  write restores it. The gateway polls, dispatches by lane, shows frames, sends
  the final text, acknowledges with retries.
* `T3amsLive`: who retires a placeholder: the answer, the acknowledgement of a
  streamed answer, its time to live, the revocation after an edit or deletion.
* `T3amsWorkspace`, `T3amsPairing`, `T3amsRoutes`, `T3amsContext`, `T3amsOutbound`,
  `MediaAnalysis`, `HermesAdapter`: one action per handler, as their headers say;
  retained statements are sets that are received any number of times. In
  `T3amsRoutes` a route's pages keep the node's order, and `PageArrives` offers a
  whole page to the callback queue in one step.
* `SandboxStore`, `SandboxChat`: the store node with slots, priorities, expiry,
  subscriptions and their dumps, and two personas with several devices each. Of the
  chat, `Reads` handles a batch and `Acks` submits its acknowledgement afterwards,
  which may fail; `LandsNot` is a batch that was taken and does not land. `lost` is
  a history variable that says what was lost last.

The store's statements are a set of records: one slot holds at most one, which
is proved and not built in. What a finished download makes room for
(`drainWaiters`) is stated declaratively: the requests admitted are those that
fit, oldest first.

Small modules give one or several components their constants and variables, state
what the components assume of them, and name the properties; the runs and the
proofs both use them, so that what is proved is what was checked:

| Module | Instances |
|---|---|
| `Host` | `StateStore` (extended), `Vault` (`FileVault`), `Grants` (`FileAllowance`), `Guard` (`InstanceGuard`), `Names` (`Registration`), `Node` (`SandboxStore`) |
| `Consumers` | `BridgeQueue` (extended), `Adapter` (`HermesAdapter`) |
| `Transport` | `Hop` (`HopTransfer`) |
| `T3amsMedia` | `Analysis` (`MediaAnalysis`) |
| `T3amsTraffic` | `Workspace` (`T3amsWorkspace`), `Context` (`T3amsContext`), `Outbound` (`T3amsOutbound`) |

`MC*` modules instantiate components for the runs. Several of them group the
components of a run: `MCTransport` has `OwedReplies` and `HopTransfer`; `MCHost` has
the six of `Host`; `MCBridge` has `BridgeQueue`, `HermesAdapter` and `T3amsLive`;
`MCNetwork` has `Ingress` and `SandboxChat`; `MCT3amsTurns` has `T3amsJournal` and
`MediaAnalysis`; `MCT3amsRoutes` has `T3amsPairing` and `T3amsRoutes`;
`MCT3amsTraffic` has the three of `T3amsTraffic`. These components share no
variable: `part` names the one a behaviour runs, the others rest in one first
state, so the state space is the sum and not the product of theirs. The parts are
put together to share a run, not to interact.

## Runs

| Run | Module | Expect | Shows |
|---|---|---|---|
| `lanes` | `OutboundLanes` | pass | `OrderPreserved`: no message reaches the node before an older one that it did not supersede and that was not given up. `AcceptedReachesNode`: blocked lanes wake as long as nothing is refused. `PromisesKept`: refinement of `MessagePromises` |
| `transport` | `MCTransport` | pass | `NothingTakenIsLost`: what was acknowledged is in the state file, owed there unless answered. `SessionAnsweredOnce`: no parts of two turns for one message. `TakenIsAnswered`. For downloads `OneLossIsAbsorbed`: a connection lost between claim and acknowledgement costs no file; `EveryFetchEnds`: slots and bytes are given back |
| `host` | `MCHost` | pass | `SavedReachesDisk`, `KeepsSnapshots` (refinement of `DurableSnapshot`); `DeliveredIsWhole`: what a peer is sent of a file is one version of it; `OneOpenGrant`: no second grant while the outcome of one is unknown; `OneServes`: at most one process serves the identity; `ClaimedOnce`: no second claim while one is queued or on the chain; `SubscribersSeeAll` of the store node |
| `bridge` | `MCBridge` | pass | `NothingTakenIsLost`, `TakenIsFinished` of the queue; `RepliesAreTheirOwn`: a reply of the Hermes adapter carries its own delivery's claim; `BubbleIsRetired`: a placeholder of T3ams is retired in the end |
| `turns` | `MCT3amsTurns` | pass | `NothingClaimedIsLost`, `NoRerunAfterHandoff`, `NoStaleAnswer` of the journal; `NoLaneForgotten`: no lane sleeps, but behind a durability retry that threw (see `t3ams_cleanup`); `SubmittedOnce`, `SpendIsBounded` of the analysis |
| `live` | `LiveReply` | pass | `PartsOnceInOrder`: the parts of an answer go out once and in order, whatever becomes of the frame that carries the first |
| `agent` | `AgentRuntime` | pass | `TokenFits`: a resume token belongs to the model and directory of the peer's next turn; `StopHolds`; `AnsweredOrOwed` |
| `gateway` | `T3amsBridge` | pass | `LaneInOrder`, `AnsweredIsSeen`; `TakenIsFinished`: each message leaves the journal, unless the durability retry after a deletion threw and leases stay frozen |
| `routes` | `MCT3amsRoutes` | pass | `FreshIsAcknowledged`: a peer's newest request is acknowledged; `RetainedIsHandled` of the routes: what is retained is handled when the callback queue has room for all of it |
| `traffic` | `MCT3amsTraffic` | pass | `DeletedStaysDeleted`: no list, key or replay brings a deleted channel back; `ReadyIsHeard`: what has its invite, documents and keys is read; `ContextFollows`: the context shows no text that was edited or deleted; `SendsSucceed` |
| `network` | `MCNetwork` | pass | `PublishedIsHandled` of the ingress; `SentIsDelivered` of the sandbox chat: messages arrive and become delivered, unless a batch or an acknowledgement was lost and none came after it |
| `t3ams_cleanup` | `T3amsJournal` | violation | `FreezeEnds` fails: the durability retry names an undeclared variable, and dispatch stays frozen over a journal that is on disk |

### Bounds

Every module names its bounds among its CONSTANTS. In the grouped modules the
scripts of faults and inputs are sets of records (`Plans`, `Budgets`, `Setups`,
`Drills`, `Trials`):
each behaviour picks one, so that every pair of faults that matters is explored
without exploring all of them together.

* `lanes`: one peer, as lanes share nothing but the process, with a device
  session so that there are two channels; three messages are a current
  statement, an extension and one behind it; a queue of two, batches of two and
  one extension make every limit bite.
* `transport`: one peer, an opener and two messages, answers of two parts, a work
  queue and a journal of two, one crash, one failed write, one failed submit: a
  message waits behind a full queue, a pump races an admission, a crash comes in
  the middle of an answer. Downloads: two files, three requests, 7 plans.
* `host`: four snapshots, two callers, one failed write, two crashes: one being
  written, one pending behind it, one saved after a failure or restart. Files: two
  paths of two peers, three versions, two readers, 3 plans. Grants: three
  invocations, so that one that recovers, one that is late and one that is new
  can meet. Guard: three processes of two process ids, so that two contenders
  meet at the file of a third, which one of them may be mistaken for; 3 drills of
  crashes and stalls. Registration: two clients, at most two claims, 4 trials (a
  bot or a persona, on a network that wants a proof or not) with a migration, a
  lost answer, a death, a session that ages. Store: four statements, 4 plans.
* `bridge`: an opener and a session message, two consumers, queue and journal of
  two, any two faults. Hermes: three deliveries in two chats, two workers, 6 plans
  (slow turn with a file, lost request, lost answer, refusal, failed turn, stop).
  Placeholders: two messages and turns, one frame, 6 plans for a direct brain and
  for a bridge.
* `turns`: one lane, three messages of which the second is a /stop and the first
  has a file, one edit or deletion of one prompt, a journal of two, one fault: the
  third message is behind a full journal while the first is answered. Analysis:
  two messages of two senders, every cap and queue of one, two revisions, 3
  budgets of faults.
* `live`: two turns, answers of two parts, two frames, one /stop, one failed
  submit: the second turn finds what the first left.
* `agent`: two peers (symmetric), one slot, a queue of none or one, two models, a
  project, an effort, one message per peer, two commands, one /stop, one end of
  the process: a turn waits, runs or dies while the settings change.
* `gateway`: two messages in one lane or two, one worker, one frame, one fault, one
  revision. The bound of the dispatcher and the limit of a poll are two, so that
  the second message can be behind the first or next to it.
* `routes`: pairing with two peers and 4 setups of trust and room, 7 plans of
  routes with failed and silent subscriptions; in two of them more is retained than
  the callback queue holds, with a queue of one and two items on one route, and with
  a queue of two and five items: pages are cut off, also while everything fits,
  since a page meets what others left in the queue. `traffic`: one workspace,
  two creators' lists, 7 budgets of documents, rotations, grants and one fault;
  5 plans of talks with three messages and two edits; 5 of sends.
* `network`: one peer, an opener and one message, one worker, a queue of two, one
  cut, one fault. Chat: two devices a side, 10 scripts, one of which loses a batch and
  an acknowledgement of two messages.

Deadlock is checked by `gateway` only, whose model may stutter only when nothing is
in hand and either every row is gone or the journal is frozen with no retry armed
(`Rests`). The other models end when their bounded inputs and
faults are used up, and say `CHECK_DEADLOCK FALSE`; that nobody waits for ever is
stated by liveness properties instead.

### Fairness

Only what the process schedules by itself is fair. Peers, users and the chain
promise nothing, faults are never fair and are bounded.

* The event loop runs what is ready: the pump, `withTimeout` and the grace timer
  (`OutboundLanes`); scheduled flushes and file operations (`StateStore`); the
  handlers and work queues, and the sweep, which looks again at a statement that
  was not acknowledged (`OwedReplies`, `BridgeQueue`); the microtasks, the write,
  the turn's steps and the retry timers (`T3amsJournal`).
* A lease nobody renews expires, and consumers poll and finish what they took,
  except for their bounded deaths (`BridgeQueue`); the gateway takes its steps
  likewise, strongly fair only for a request that is retried until it gets through
  (`T3amsBridge`, `Requests`).
* `Ingress`: weak fairness of pages, answers, the heartbeat, the dispatcher and the
  sweeps. A heartbeat is only counted as missed when nothing is under way
  (`TimelyNext`): the watchdog's limit is far above the time of an answer.
* `T3amsRoutes`: weak fairness of the node's pages, of the retry, reconciliation,
  replay and refresh timers and of the handler. Nothing is assumed of who finds
  room in the callback queue: a page is offered in its own order. One timing
  assumption: the second of the replay timer is enough for the queue to drain
  (`ReplayFires`). `T3amsWorkspace` and
  `T3amsPairing`: what is retained is received, what is due is sent.
  `T3amsOutbound`: the serial queue goes on.
* `HopTransfer`, `T3amsLive`, `SandboxChat`: weak fairness of the component's own
  steps as a whole.

In a grouped run the fairness of a component is conditioned on `part`.

## Proofs

TLAPS proves the following for every value of the constants that meets the named
assumptions: each module's `ConstantsAssumption` or `BoundsAssumption`, which say
only that numbers are natural, sets finite where they are counted, and names
distinct; and of the same kind, in the modules that group components,
`VaultAssumption`, `GrantAssumption`, `GuardAssumption` and `ExpiryAssumption` (`Host`),
`DeliveryAssumption` (`Consumers`), `FilesAssumption` (`Transport`),
`BudgetAssumption` (`T3amsMedia`: a bucket holds tokens and refills),
`WorkspaceAssumption` and `ContextAssumption` (`T3amsTraffic`). TLC evaluates each on
the run of its module. One theorem, `TokensFit`, assumes in addition `EveryPeerFits`
(at most `PeerCap` peers): beyond it `trimMap` evicts a choice and keeps the token
(see the disagreements). A `_proofs` module holds the proofs of the component it is
named for and those of components that are checked next to it: `Host_proofs` has
`StateStore`, `FileVault`, `FileAllowance`, `InstanceGuard`, `Registration`,
`SandboxStore` and `MediaAnalysis`; `BridgeQueue_proofs` also `HermesAdapter`;
`T3amsBridge_proofs` also `T3amsContext`, `T3amsOutbound` and `T3amsWorkspace`;
`OwedReplies_proofs` also `HopTransfer`.
`[]P` stands for a theorem `Spec => []P`.

| Theorem | Module | States |
|---|---|---|
| `LanesTypeCorrect` | `OutboundLanes_proofs` | `[]TypeOK`: in particular the extension budget holds |
| `LanesKeepPromises` | | `PromisesKept`: the lanes implement `MessagePromises` |
| `LanesPreserveOrder` | | `[]OrderPreserved` |
| `NothingTakenIsEverLost` | `OwedReplies_proofs` | `[]NothingTakenIsLost` |
| `SessionsAnsweredOnce` | | `[]SessionAnsweredOnce` |
| `OneLossCostsNothing` | | `[]OneLossIsAbsorbed` of the downloads |
| `QueueTypeCorrect`, `ReservationsHold` | `BridgeQueue_proofs` | `[]TypeOK`; the hand-over never finds the queue full |
| `NothingBridgedIsLost` | | `[]NothingTakenIsLost` |
| `OnlyTheOwnerSettles` | | a delivery leaves the queue only under its current lease |
| `RepliesKeepTheirClaims` | | `[]RepliesAreTheirOwn` of the Hermes adapter |
| `PartsInOrder` | `LiveReply_proofs` | `[]PartsOnceInOrder` |
| `FramesRise`, `EditsReachTheirPlaceholder`, `NoneTicksAlone` | | the newest frame stays; no frame edits a placeholder that is not on the node; one that ticks is someone's to retire |
| `LanesStayInOrder`, `TheAnsweredIsSeen` | `T3amsBridge_proofs` | `[]LaneInOrder`, `[]AnsweredIsSeen` |
| `NothingStaleIsShown` | | whatever is newly shown has the revision current at that step |
| `ContextStaysTrue` | | `[]ContextFollows` |
| `RevokedIsNotHanded` | | `QueuedIsFenced` of the sends: what is queued when its claim is withdrawn is not handed to the node |
| `TombstonesAreFinal` | | `DeletedStaysDeleted` of the workspace |
| `ClaimsAreNeverLost`, `LanesAreNeverForgotten` | `T3amsJournal_proofs` | `[]NothingClaimedIsLost`, `[]NoLaneForgotten` |
| `NothingStaleIsSent`, `AnswersAreMadeOnce` | | `NoStaleAnswer`, `NoRerunAfterHandoff` |
| `TheBudgetIsKept` | `AgentRuntime_proofs` | slots and queue stay within their limits, and no turn waits while a slot is free |
| `StopsHold`, `MessagesAreAnsweredOrOwed`, `TokensFit` | | `StopHolds`, `[]AnsweredOrOwed`, `[]TokenFits` |
| `StagingOutlivesItsReaders` | | the staging directory goes only when nobody reads from it |
| `StoreTypeCorrect`, `StoreDurable` | `Host_proofs` | `[]TypeOK`, `[]FlushedIsDurable` |
| `StoreKeepsSnapshots` | | `KeepsSnapshots`: the store implements `DurableSnapshot` |
| `DeliveriesAreWhole` | | `[]DeliveredIsWhole` of the files |
| `GrantsStayAlone` | | `[]OneOpenGrant` of the allowance |
| `IdentityIsServedOnce` | | `[]OneServes` of the guard |
| `OneClaimAtATime` | | `[]ClaimedOnce` of the registration |
| `FilesLeaveOnce`, `TheBudgetIsNeverExceeded` | | `[]SubmittedOnce`, `[]SpendIsBounded` of the analysis |
| `SubscribersMissNothing` | | `[]SubscribersSeeAll` of the sandbox store |
| `SlotsNeverFallBack` | | what replaces a slot's statement expires later than it, unless that had expired |

None of the properties is inductive as it stands. What has to be added says why
the code is right:

* **Lanes.** For the promises, type correctness does not tell what a promise may
  be settled with: `IInv` adds that a request holds only messages that were
  accepted, that those of its base were answered before it extends them, and that
  only stored statements are in a slot or were fetched (`PumpInv`, `RequestInv`,
  `HeldInv`). For the order: `OrderInv` follows a message from the queue through
  the pump's batch into a statement and onto the node. What one channel has taken
  is a prefix of what may go there (`ArrivedInv`, `PlacedInv`), a statement that
  replaces another carries it or knows it was given up (`StatementInv`), and what
  is older than a batch is settled or in it (`OwnInv`, `OlderInv`).
* **Owed journal.** `KeptInv`: what the memory, the pending snapshot and the file
  hold each cover what was acknowledged before they were taken (`SavedInv`); an
  entry's work is queued, running, admitted or awaits its flush (`WorkInv`,
  `OpenerInv`, `SessionInv`); a handler that waits has its entry in the snapshot
  it waits for. For "answered once", `OnceInv` adds that a turn of the brain
  starts only on an entry without answer, in memory and in the file, unless the
  journal write failed, which is the exception the property makes too.
* **Bridge queue.** `HeldInv`: a delivery is in exactly one place between
  admission and completion; the reservations and the queue together stay within
  the cap (`RoomInv`); no lease is newer than the last one issued (`LeaseInv`);
  the acknowledgement in progress still owns what it will settle (`AckInv`).
* **Live replies.** `LiveInv`: for each placeholder, who may still write to it and
  with which frame (`TakersInv`, `SlotInv`), what is in the lane behind it
  (`LanesInv`), and how much of the answer is out (`AnswerInv`).
* **T3ams bridge.** `JournalInv` is inductive of the journal alone: rows are leased
  oldest first, and a mutation that will be taken back knows the row as it was.
  `WorkInv` adds the gateway: what it holds carries the claim it was leased under,
  and an answer to be acknowledged is on the screen or is the edit that the
  throttle holds back.
* **T3ams journal.** `JournalInv` has ten parts. `ClaimsInv` follows a claim from
  memory through the snapshot being written to the file: each of the three is
  honest about the claims it holds, and later ones are ahead of earlier ones.
  `TurnsInv` says what a turn knows of its row at each of its awaits although
  edits, a /stop and failed writes come between; `UndoInv` that what a failed
  write takes back is as it was; `WakeInv` who wakes each lane next. A retry that
  throws leaves nobody: the ghost `stalled` says that this happened and that the pump
  has not run since, which is the exception `NoLaneForgotten` makes.
* **Agent runtime.** `RuntimeInv`: active turns are exactly the engines, and a turn
  waits only at a full budget (`SlotsInv`); each message is at one place between
  journal and answer (`OwedInv`); a stopped turn has lost its right to deliver
  (`StopInv`). `TokenInv` follows a token from the engine's report through map and
  snapshot to the next turn.
* **State store.** The newest snapshot is pending, being written or on disk
  (`NewestInv`); what is being written is not older than the file (`WriteInv`); a
  caller that waits is covered by the drain that will answer it (`WaitInv`).
* **Files and grants.** `VaultInv`: what a reader has sent is the beginning of the
  file it opened, whatever became of the path since. `GrantInv`: a run that is about
  to send holds the marker, unless an operator took it (`SendersInv`); one that has
  not marked its first transaction has sent nothing (`FreshInv`); and whoever has
  a grant in doubt is named by the marker (`OpenInv`).
* **Guard.** `GuardInv`: processes that run have different process ids; unless
  `harm` says otherwise, who serves or is about to created the pidfile that is
  there (`OwnerInv`), who is between taking and releasing the mutex created that one
  (`MutexInv`), and while a process is about to move a pidfile nobody owns one
  (`MoveInv`).
* **Registration.** `ClaimInv`: every claim is numbered once (`NumbersInv`). While
  nothing is to blame, an open claim is the one the record names or the newest one,
  whose answer is on its way (`ClaimsInv`); what was attested is not queued any
  more (`SettledInv`); and what a client was told of the chain still holds where it
  acts on it (`ToldInv`).
* **Downloads.** `FilesInv` is a plan of the allowed kind and `Calm => Quiet`. Calm
  is what the property grants: the bot receives, there is room, and at most one
  connection was lost or refused and nothing worse. Then no file is downloaded
  twice at a time, what a download still has to claim is held by the node, and
  a file that was asked for is in the cache, on its way, or whole at the node. The
  number of attempts a job has made is what it lost, so one loss leaves one.
* **Analysis.** `MediaInv`: every state that may come back after a crash - the file,
  the one being written, the one in memory - marks what was sent or a later
  revision, and its bucket has paid for all that was charged.
* **Adapter.** `AdapterInv`: a chat never has two jobs. The chats that run are those
  of the jobs, a scheduled chat waits once in the ready list, and so the claim a
  job set is still there when its reply goes out.
* **Workspace and context.** `WorkspaceInv` says only that a kept workspace is none or
  has its parts; that a tombstone stays is shown of each step, with how a list
  is received, adopted and merged (`TombstonesStay`). An eviction and a crash before
  the save forget the workspace; the property is about one that is kept.
  `ContextInv`: an entry says what its record says, a record knows
  the newest of what was handled, and what has an entry was committed.
* **Sandbox store.** `StoreInv`: a reader that is subscribed has been given all that
  is alive, and a slot has one statement.

Each invariant was first an invariant of a TLC run over the same small instance.
The attempts to prove them corrected the models where they had departed from the
code: what the rollback of a bridge acknowledgement restores (only the rows the
mutation is for), which step marks a lane ready and pumps it, and that the
directory of an agent turn is captured at its beginning. They also refuted one
claim: `LaneInOrder` of `T3amsJournal` holds with one lane and fails with two (see
below), which no run had shown.

Every invariant and every action property that a run checks is also proved, the
two refinements included. Model-checked only is liveness:
`AcceptedReachesNode`, `TakenIsAnswered`, `EveryFetchEnds`, `SavedReachesDisk`,
`TakenIsFinished`, `BubbleIsRetired`, `ReadyIsHeard`, `FreshIsAcknowledged`,
`RetainedIsHandled`, `SendsSucceed`, `PublishedIsHandled`, `SentIsDelivered`. Liveness
under fairness and `ENABLED` are out of the prover's reach. `T3amsLive`,
`T3amsPairing`, `T3amsRoutes`, `Ingress` and `SandboxChat`, whose runs check liveness
alone, have no theorem.

## Where code and text disagree

The run `t3ams_cleanup` shows one disagreement in full: the comments at TX
3167-3169 and 2354-2356 count on the durability retry, and the retry runs
`deferredAgentArtifactOutbox.shift()` (TX 647), a name that is declared nowhere, once
the write has succeeded and before it thaws (836). `mutateIngress` handles the
rejection (`next.catch(() => {})`, 807-809), so the process lives on; but 837-840 are
skipped and the timer is not set again: the revocations are not flushed,
`ingressDurable` stays false, nobody is woken or pumps, until some other mutation
happens to be saved - and the list that makes the next retry throw stays. This
reaches further than the run: `NoLaneForgotten` excepts it with `stalled`,
`TakenIsFinished` of `T3amsBridge` with `Stuck` (`leaseBridgeIngress` answers with
nothing, 3582), and in `T3amsLive` a placeholder whose revocation was left to that
retry waits for its time to live.

The following were met while modelling. The models behave as the code does, and
the properties that a run checks carry the exceptions these force; no run states
them.

*Transport.*
* `outbound-lanes.mjs:179` reads `lane.current.extensions` after `await
  submitPayload`, with `extending` decided before; an ACK (222-229) or the grace
  timer (128-136) meanwhile clears `lane.current`: the exception leaves
  `void pump(peerHex)`, and a message that is on the node keeps its `delivered`
  pending, against 198-199.
* A submit that throws (170) leaves a lane blocked with `current` null; messages
  enqueued meanwhile wait for another enqueue, since `armGrace` returns without a
  current statement (126). The comment at 188-190 says "Blocked lanes wake on
  ACK/grace instead".
* A submit given up by its timeout (`index.mjs:660`) goes on and retries with a
  newer expiry (`app-chat-codec.mjs:1638-1669`): it can land late and replace a
  newer statement, against "lossless" of `outbound-lanes.mjs:10-12`.
* An opener awaits its journal write (`index.mjs:1639`) without being in
  `owedInAdmission`: a pump may run it; when the write fails it is forgotten,
  comes again and is answered twice, which 1422-1428 means to exclude.
* A crash between two parts of an answer: the restart re-sends the journaled
  parts and settles the entry (`index.mjs:1356-1360`); the rest is never sent.
* A crash between an opener's journal write and its acceptance (1604): the marker
  of 1671-1672 is written only after the accept failed, so it is never accepted.
* With the bridge a message that a file command answers never becomes a delivery
  and is never settled (`index.mjs:1376`); it keeps its place in the journal.
* `wakeWaiters` (`index.mjs:819`) stops after the first waiter it served.
* `index.mjs:2698` renews the groups only, not the health subscription, against
  2670-2674 and `docs/explanation/protocol.md:141-143`; a `subscribeGroup` that
  throws inside the recovery (2721-2723) leaves the rest unsubscribed.
  `protocol.md:151-152` says "serial chain" where there are four workers.
* Downloads: the first attachment may be evicted by the second's save before the
  brain reads it; a truncated cache file makes its fetch fail until it is evicted;
  bytes that were acknowledged are lost by a crash; a failed upload leaves its
  chunks in the pool.

*Agent and files.*
* The idle backstop kills the engine's process group (`agent-runtime.mjs:663`), but
  the turn ends with the engine's `close` event (892), which a process outside the
  group that holds its pipes delays: the peer is not unblocked, against 745-747
  and `docs/guide/harnesses.md:266-268`.
* `trimMap` (`agent-runtime.mjs:128`, 245, 599, 981): beyond 500 peers a choice is
  evicted and the token made under it is kept. A restart
  does not restore the effort (`index.mjs:2611` passes no `ro`), against
  `agent-runtime.mjs:1189-1191`.
* `file-store.mjs` 265-284 and 361-364 against "atomic updates"
  (`docs/explanation/protocol.md:202`): a crash between the renames leaves a path
  without its file (171, 174); a failed `chmod` (219, 272) leaves memory, manifest
  and disk apart; backups and orphans are not in the quota; a reader may hit the
  gap between the renames. What is sent may differ from what was declared (sized
  first, read later); the download route streams under a fixed content-length.
* `cli.mjs:1667-1682`: a recovery clears the marker without comparing its token,
  so a stale one can clear a newer run's.

*Registration and guard.*
* A claim is taken without a lock, unlike an allowance: two `pca register`, or two
  requests for one persona, in flight at once both claim, against "claims the
  username only if not already claimed" (`cli.mjs` 1176-1180). So does a later
  `register` after a command that was slow or waited (`deploy`, `trust`, the wait for
  the confirmation) has saved its older copy of `config.json` over the claim.
* "Config files are written atomically" (`cli.mjs:313`); `saveConfig` (278-281) writes
  the file in place.
* A chain's answer from before a migration that is applied after it promotes a
  pending claim (`registration.mjs` 113-121); the next check then marks it as
  forgotten, and a second one is claimed while the first is queued.
* A saved session that was revoked and has not expired is used until its token
  expires (`register.mjs` 264-265).
* `process.exit` in `refusePidfile` skips the `finally` that releases the takeover
  mutex. Two contenders that inspected the same stale mutex both get in, and one
  can move the other's new pidfile, against TX 4257-4259 (`NewPidfileStays`).
* A chat bot whose pidfile vanishes between the failed `open` and the read starts
  without a guard, with a warning (`index.mjs` 2512, 2528).

*T3ams journal and bridge.*
* `LaneInOrder` of `T3amsJournal` (TX 3516-3530): while the removal of a dead letter
  waits for the disk, a pump for another lane schedules the message behind it;
  the write fails, the row is put back and deferred, and the next one runs first.
* Another mutation's snapshot may hold the tombstone of a deletion (TX 2377) while
  its row is still there; after a crash the operation that comes again returns at
  TX 2378 and the prompt runs, against 2390-2393. TX 888-890 describes what TX
  2554-2557 no longer does. An edit's reconciliation removes the outbox
  directory by id after the flush (2335-2336). A pump during an admission's flush
  runs an entry that is not on disk yet (3513, 475-478, 2087-2091).
* `gateway.ts:778-780` calls the second dispatch safe "because no bridge
  acknowledgement was sent yet"; the final text is sent before, under the lease,
  and is sent again: two answers.
* Placeholders (TX 2265-2272, 2281-2286, 2346; `t3ams-live-revocation.mjs:3-8`): the
  revocation of an edit can strike the new revision's placeholder, and the time
  to live may end one while a revocation waits for the disk. TX 3698-3701 drops a
  taken placeholder when the lease changed meanwhile, and a failed finalize loses
  it (1635-1645), against 1630-1634 and `docs/reference/configuration.md:402`. The
  guard reads the lease live (3621). A file command or /stop leaves its
  placeholder to the time to live of ten minutes.
* Media: a cancelled analysis that is queued keeps its lane blocked until the
  queue reaches it; a sender's bucket that was evicted comes back full, so only
  the global bound holds; references of a delivery may expire while its lease is
  renewed.

*T3ams protocol.*
* An operation of another author that comes before its message makes the
  author's own edit rejected until the message comes; edits of the same time
  resolve by arrival.
* A greeting leaves `pendingGreetings` before it is sent; `replayPendingTrust`
  deletes the parked carrier before the acknowledgement succeeded; the watermark
  of a pairing may race; a grant that is replayed after a rotation that revokes
  re-creates a key slot.
* When more is retained than the callback queue has room for, a replay offers each
  page in the same order and may refuse the same tail every time (TX 897-906,
  981-986, 2628-2640): what comes last is never handled, against "reconciled from its
  retained source instead of being forgotten" (2625-2627; `RefusedIsHandled` of
  `T3amsRoutes`). Retries of a submit are not fenced again (`app-chat-codec.mjs:1638`);
  sends of a thread overlap at TP 2094; `commitInbound` trims before it pins (TP
  784-803, unreachable from TX 2080-2084).

*Consumers and sandbox.*
* Hermes (`adapter.py`): a delivery is handled twice when its lease lapses in the
  queue or the acknowledgement's retries keep a closed session (508); a staged
  file (644-723) and a temporary directory (386-391) can be left; a failed send is
  only reported to Hermes and the delivery still acknowledged.
* Sandbox chat: "`sent` is optimistic and nothing walks it back" (`chat.mjs` 346-347):
  a batch that does not land is only logged (353), and so is an acknowledgement
  that fails (323-326); until a later batch or acknowledgement gets through, the
  message is not at the peer, or not known to be. A post that fails after the accept
  leaves "accepted" without retry (`chat.mjs:678-702`); a failed lookup loses the
  request until a restart (`requests.mjs` 249-320); positions of `receivedBy` are wrong after a removal
  (`chat.mjs:693`); `applyEdit` does not compare times (`persona.mjs:211`).

## Further properties

Modules also define properties that no run lists: those proved for every value of
the constants instead (`CapacityHeld`, `OwnerSettles` of `BridgeQueue`,
`NewestFrameStays`, `NoDanglingEdit`, `SomeoneRetires` of `LiveReply`, `BudgetKept`,
`StagingHeld` of `AgentRuntime`, `NoStaleAnswer` of `T3amsBridge`, `QueuedIsFenced`
of `T3amsOutbound`, `FlushedIsDurable` of `StateStore`, the type invariants); those
that the disagreements above refute (`PromiseHeld`, `SubmittedSettles`,
`EveryReplacementLossless`, `AnsweredOnce`, `LeavesAnswered`, `OpenerIsAccepted`,
`DeferredIsTaken`, `RetryIsSafe`, `SentIsAsDeclared`, `ServedIsWhole`,
`OpensAfterCrash`, `RefusedIsHandled`, `AdmittedIsFinished`, `StatusIsItsOwn`,
`NothingDangles`, `NewPidfileStays` and others); and weaker ones that a run held before a stronger one took its place.

## Not modelled, and why

Of the components above: the eviction of idle lanes at `LANE_CAP` and the caps of
the dedup sets (they need hundreds of peers); device rosters, signals and calls; the
pruning of sessions; the watchdog that ends the process; runners' parsing of engine
output; greetings, reactions, presence and typing; the cache of downloaded T3ams
files; quotas of the outboxes (either outcome is taken); directory syncs (a crash is
the end of the process, not of the machine); time, but for the orders it enforces.
Of the rest: text splitting and encodings are pure functions of data; chain queries
and the other command line tools are sequences of I/O without a state that other
parts depend on; the sandbox's user interface is presentation.

## Plan

1. Proofs that are left: `HandledOnce` of `Ingress` and `RetiredStaysRetired` of
   `T3amsLive`, which no run lists.
2. An abstract at-least-once inbox that `OwedReplies`, `BridgeQueue` and
   `T3amsJournal` implement.
3. Models still worth writing: sessions with pruning and `LANE_CAP`, the peer
   clock, the T3ams file cache.
