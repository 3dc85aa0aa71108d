# A verification of gmofg-payment-proxy

The program is a desktop debugging proxy between payment terminals and their server
(`Server <-> Proxy <-> App`): a Rust core with listeners, breakpoints, rules, fault
injection, sessions and events behind a Tauri shell and a React interface. This directory
holds TLA+ models of its core, TLC runs over small instances, and theorems that TLAPS
proves for every size. Paths below are relative to `src/src-tauri/crates/` unless they
start with `src/`.

    tlc -workers 2 -config MCSupervisorConcurrent.cfg MCSupervisor.tla    # a run
    tlapm SupervisorProofs.tla                                            # a proof

`PROJECT.json` lists the components, the runs, the hazards each property is for, the lines
every definition models, and for every property of a passing run a seeded fault
(`...Fault` in the modules) that the run detects.

1. [The system](#1-the-system), its parts and what makes each correct
2. [The models](#2-the-models), module by module, with the correspondence to the code
3. [The runs](#3-the-runs), their instances, bounds and fairness
4. [What is proved](#4-what-is-proved), from which assumptions and along which argument
5. [What the checks found](#5-what-the-checks-found)
6. [What is not modelled](#6-what-is-not-modelled)

## 1. The system

| part | state | operations | interacts with |
|---|---|---|---|
| ProxySupervisor `proxy/src/supervisor.rs` | `operation` lock, `lifecycle` (state, epoch), `runtime`, `pending_cleanup`, `active_cancellation`; per epoch a cancellation token, a notification lock and flag, the gate, tasks | `start`, `stop`, `restart`; listener and watchdog tasks | calls the binder and the service factory, `runtime_stopping` and `runtime_fault` of the pipeline; called by the facade |
| Domain `domain/src/state.rs` | none | `ProxyState::transition` | the graph every published state must follow |
| BreakpointCoordinator `application/src/breakpoints.rs` | pending entries with their oneshot senders, 4096 tombstones and their order | `register`, `resolve`, `disconnect`, `proxy_stopped`, queries | the pipeline waits on the receiver, the facade resolves |
| Pipeline adapter `infrastructure/src/adapters/pipeline.rs` | the connection map, live sessions, metrics | `request`, `response`, `pause`, `connection_closed`, `runtime_stopping` | breakpoints, session store, rules, events |
| Session store and ledger `application/src/sessions.rs`, `capacity.rs` | records and their bytes, `max_sessions`; the byte limit with the session and the event share | `upsert`, `set_limits`, `clear_completed`; reserve, replace, release | written by connections, limited by the settings, shares bytes with the event hub |
| Event hub `application/src/events.rs` | replay history, live queues, capture batch, recorded failures | `publish`, `subscribe`, `recv`, `reclaim_for_limit` | the ledger; the pump in `src/src-tauri/src/commands/mod.rs` |
| Application facade `application/src/facade.rs`, `facade/*` | `mutation_gate`, ports | proxy, settings, rule, certificate and breakpoint commands; `app_shutdown` | everything above |
| Settings saga `facade/settings.rs`, `infrastructure/.../application_proxy.rs` | stored, effective and candidate settings | save and restart, with compensation; the status view | supervisor, persistence, session store |
| Rule runtime and store `infrastructure/.../rule_runtime.rs`, `adapters/rules.rs`, `domain/src/rule.rs` | the engine with its hit counts, its epoch; the rules table | evaluate and commit, `runtime_stopping`; create, save, toggle, delete, import | connections of several epochs, the rule editor |
| Rules and faults as actions `domain/src/rule.rs`, `adapters/faults.rs`, `proxy/src/fault.rs` | none | validation, composition, execution | the editor, the pipeline, the transport |
| Transport `proxy/src/transport.rs`, `transport/raw_http1.rs`, `traffic/*` | a task per connection, a JoinSet per listener | accept, TLS, HTTP/1, upstream, faults, pacing | the pipeline port |
| Message model `proxy/src/message.rs`, `adapters/pipeline/message_projection.rs` | the raw headers and the body | capture, edit, merge, forward | rules, breakpoints, transport |
| Certificates `infrastructure/src/adapters/certificates.rs`, `certificates.rs`, `keychain.rs`, `proxy/src/tls.rs` | sealed materials in SQLite, the master key in the keychain | generate, reissue, import, reset, overview, load for a start | SQLite, keychain, the listeners' handshake |
| SQLite, files, products, host, Tauri shell, React UI | outside the process, or none | | |

What is hard about it:

* **Concurrency.** `tokio::spawn` detaches each lifecycle call from its caller, one watchdog
  per epoch writes the same lifecycle as the calls, and connections outlive what they were
  started for.
* **Failure in the middle.** A callback may fail, hang for its time limit or panic and must
  then be retried by whoever cleans up next; a listener may die at any time; tasks that
  outlive the grace period are aborted without their clean-up.
* **Ordering.** Listeners wait behind a gate until `Running` is published;
  `runtime_stopping` precedes the cancellation of the epoch, so that breakpoints end as
  `ProxyStopped`.
* **Checked, then used.** `breakpoint_resolve` checks the lifecycle and acts later; `upsert`
  copies the limits and takes the lock later; the settings saga stops one proxy before it
  knows whether the next one starts.
* **Limits.** One byte limit is shared by two containers that evict independently; queues
  and tombstones are bounded.
* **Several writers.** The rule editor and the engine write the same rows; two instances of the
  program share one database and one keychain.
* **The same question asked twice.** Settings are checked by four layers, client identities by
  the import and by the handshake, actions by the editor and by the transport; each pair of
  answers has to agree.

For each part, what makes it correct:

* *Supervisor:* one runtime at a time, none forgotten; Running means a runtime is there;
  stopped means nothing is left; the callback exactly once per epoch; every call returns.
* *Breakpoints:* every wait ends, with one outcome that all sides agree on.
* *Sessions:* the two limits, nothing in use evicted, the ledger exact, an end recorded.
* *Events:* no gap and no duplicate between replay and live events; a subscriber that loses
  events learns that it needs a snapshot.
* *Settings:* whenever no command is at work the running proxy serves the settings shown as
  effective; every reply is true; no save overwrites what its author has not seen; what was
  accepted starts.
* *Rules:* a message counts once, a one-shot rule fires once, no edit is lost to a commit, the
  hit counts of a run are its own, a stale rule never fires.
* *Messages:* what rules composed and a user decided is what happens; edits arrive exactly;
  what was left alone arrives unchanged.
* *Connections:* every stage ends, an incomplete answer is never recorded as a success, a fault
  acts at the place it was documented for; bytes arrive in order under any pacing.
* *Certificates:* the materials are one readable set whoever writes at the same time;
  nobody replaces a root or a leaf he has not seen; the accepted identity gets through the
  handshake, no other.
* *Status:* the page tells the truth about the epoch that runs.

## 2. The models

One module per component; a module whose name begins with `MC` gives the constants their
values. `MCHost` (Startup, Status, Wire) and `MCMessages` (Effects, Headers) each put models that
share no state into one run: a behaviour is one of theirs, so nothing is gained or lost by it.

### Lifecycle: what the supervisor promises

The published state and epoch only. `Edges` is `ProxyState::transition`, edge by edge;
`Publish`, `Leave` and `Withdraw` pair an edge with what a snapshot's `runtime_epoch` may do.
An epoch is published at most once.

### Supervisor: `proxy/src/supervisor.rs`

One action per stretch of code between two awaits that another task can observe. `pc[o]`
says at which await a lifecycle call is, `phase[o]` which inner function it runs
(`start_inner`, `stop_inner`, or the clean-up of `run_guarded` after a panic), `target[o]`
which epoch it dismantles or launches.

| code | actions |
|---|---|
| `start` / `stop` / `restart`, spawned | `Call`, then `BeginStart`, `RejectStart`, `BeginStop`, `StopStopped` once the lock is free |
| `cleanup_runtime` | `TakePending`, `TakeRuntime`, `ReleaseToken` |
| `notify_runtime_stopping` | `CheckNotified`, `LockNotification`, `NotificationReturns`; the watchdog's own `WatchdogChecks`, `WatchdogLocks`, `WatchdogNotified` |
| `shutdown_runtime` | `CancelRuntime`, `Joined`, `JoinTimesOut` |
| the rest of `stop_inner`, `start_inner`, `run_guarded` | `StopSettles`, `StartSettles`, `UnwindSettles`, `PrepareFails`, `PreparePanics`, `SpawnTasks`, `StoreRuntime`, `PublishRunning`, `OpenGate` |
| `spawn_listener_task` | `PassGate`, `ListenerEnds`, `ListenerFails` |
| `spawn_watchdog` | `WatchCancelled`, `WatchFatal`, `WatchdogCancels`, `MarkFaulted`, `ReportFault` |

A callback that times out, panics or fails is one outcome (`success = FALSE`): the code
treats the three alike. `Gated` says whether callers hold `mutation_gate` for the whole
call. In the facade they do; the supervisor's own tests do not, and a caller's future can be
dropped while its spawned call goes on. `MayPanic` says whether the binder or the factory,
which are code from outside the crate, may panic. Left out: the traffic schedule, the text of a
fault; which configurations are accepted is in Startup.

### Breakpoints: `application/src/breakpoints.rs` and who uses it

The coordinator, a connection task (`pc`, `stage`), the two steps of `breakpoint_resolve`
(`Ask` with the checks of `facade/traffic.rs`, then `Resolve`), and the lifecycle as far as a
breakpoint sees it. `proxy_stopped` is split as in the code: `Collect` reads the ids under the
lock, `SweepOne` takes the lock again for each. An end is sent into the oneshot channel only
while the receiver exists (`Receiving`): it is dropped when the pause returns or when its
connection is cancelled or aborted. A pending entry never changes its revision, so
revisions are left out, and so are the events that accompany each step; what a decision may
say and what it does to the message are in Effects and Headers.

### Sessions: `application/src/sessions.rs`, `application/src/capacity.rs`

The store, the ledger and the three writers of the pipeline. `Upsert` is the first line of
`upsert` (the copy of the limits), `Insert` takes the state lock; `PlanEviction` is one round
of the loop in `eviction_plan`, a step of its own because the ledger can change between two
questions, and `Upserted`, `Refused`, `LimitsSet`, `LimitsRefused` end it. The event hub is an
amount of bytes that is reserved, transferred and released. `completed_at` is a counter: the
model's clock is not set back, and two sessions do not complete at the same instant (the
code then compares ids).

### EventHub: `application/src/events.rs`, the pump of `src/src-tauri/src/commands/mod.rs`

An operation of the hub holds its state lock throughout, so it is one step: a function from
the hub before it to the hub after it, built from the same functions as the code
(`MakeRoom` is `reserve_event_history_bytes`, `RemoveSubscriber`, `TerminateSlowest`,
`AppendLog` and `Emit` are `append_log` and what each of its callers does next, `DispatchLive`
with its two loops `OfferAll` and `Terminate`, `Flush`, `Push`). A subscription is a command that sends the replay (`SendReplay`), then the
pump task: `Recv`, `RecvSnapshot` or `RecvNone`, `TakeFailure`, `Unsubscribe`, and the drop of
the receiver in its two steps, without the lock (`DropReceiver`) and with it (`FinishDrop`). The
front end may cancel (`Quit`) or close the channel (`HangUp`) at any time. `room` is what the
ledger leaves to events; sessions and the settings change it between two operations of
the hub, never in the middle of one, which is the one interleaving the model gives up (Sessions
has it, from the other side). Sizes are small numbers with the relations that matter: a row
joins a batch for one byte, its envelope takes one more, a recorded failure is larger than
the smallest event, a published event may be larger still.

### Application: `application/src/facade.rs`, `facade/settings.rs`, the two adapters behind them

The commands that change settings or the proxy, up to `mutation_gate` and from there call by
call. Every awaited port call is a step, and every one of them may fail. `call[c]` is what a
command keeps in its locals: the draft, what it remembered (`old`, `oldEffective`), the plan it
starts with, whether it is recovering.

| code | actions |
|---|---|
| `settings_get`, a window's form; the command waiting for the gate | `View`, `Call`, `Acquire` |
| the checks and reads of each command | `EnterSave`, `EnterSaveRestart`, `EnterStart`, `EnterStop`, `EnterRestart`, `EnterShutdown`, `ReadFails` |
| `save_settings` with its compare-and-swap | `Write`, `WriteRefused` |
| `proxy.stop`, `clear_effective` | `Halt`, `Clear` |
| `proxy.start` with `configure_capacity` before the supervisor | `Launch` |
| `apply_effective`, the answer | `Apply`, `Answer` |
| `cleanup_failed_start`; the candidate that cannot be kept | `Undo`, `UndoClear` |
| `rollback_settings_and_recover` | `Restore`, `RestoreLast`, `RestoreFails` |
| the certificate commands | `EnterCertificate`, `Certify` |
| the watchdog, seen from outside | `ListenerDies` |

The proxy is what the supervisor's callers see between two calls: under the gate never
`Starting` or `Stopping`. What happens inside a start or a stop is Supervisor.

### RuleEngine and RuleRuntime: `domain/src/rule.rs`, `adapters/rules.rs`, `sqlite.rs`, `rule_runtime.rs`

RuleEngine holds the functions: what an evaluation reaches, matches and counts (`Reached`,
`Matched`, `Counted`), `reconcile`, what a save and a toggle do to a row, and each
transaction of the store with its compare-and-swap. A message is the set of rules whose
fields it fits. RuleRuntime is `evaluate_with_retries` and `ensure_epoch` in several connections
(`Arrive`, `EpochFits`, `EpochResets`, `EpochEntered`, `EpochRefused`, `TakeSnapshot`, `SnapshotFails`,
`EvaluateNoMatch`, `Commit`, `Conflict`, `CommitFails`), the three steps of `runtime_stopping`
(`StopResets`, `StopClears`, `StopForgets`) between `StopBegins`, `Cancel` and `Join`, and the editor
(`OpenForm`, `Save`, `Toggle`, `Delete`, `Create`, `EditRefused`, `BeginImport`, `FinishImport`,
`ImportEnds`). The ghost variables (`seen`, `total`, `wanted`, `fired`, `recounted`) remember what the
requirements speak of and the code does not keep. `Overrun` says whether an evaluation may
outlive the grace period of a stop; an evaluation has no await, so a joined connection is
past it, and the run assumes that none outlives the grace period.

### Certificates: `adapters/certificates.rs`, `keychain.rs`, `sqlite.rs`

Several instances of the program over one database and one keychain, each with a page
(`certificates-view.tsx`) that shows what the store held when it was last read. `Refresh` reads it
again; `Begin` gives a command from what it shows, which may be out of date: initialisation is
offered where there is no root and no leaf, a reissue and a reset carry the revision shown. A
command is its accesses: `Load` (`load_snapshot`, then `Accepts`: what each command refuses),
`CreateForRead` (a read that needs a key), `Seal` and `AddKey` (`master_key`: the key that was added
first wins), `Commit` (the compare-and-swap of the whole set, one immediate transaction),
`Show` (the overview at the end, which may fail although the command took effect), `Fails`. The
environment may lose the key (`LoseKey`). A certificate is its addresses and the revision it was
made at (`born`), which tells it from others. Whether what is stored is valid is not asked here but
in Startup and Trust; the readiness the overview computes (`configuration_errors`) repeats those
checks and is not modelled.

### Trust and Startup: who is let in, what starts

Trust has no state: `ValidIdentity` is the check of an imported PKCS12, `Anchor` and `ValidAnchor`
what the listeners make of it, `Admitted` a handshake; `Verified` stands for WebPKI and is
external. Startup puts the checks in sequence: `Accepted` (facade, domain and adapter, on a
draft that `Normal` has normalised), `Loaded` (the row as it is read back), `StartCode` (the order in
which the runtime's factory and supervisor refuse). Its actions are the commands and what
changes in the world between a save and a start: `Save`, `Issue`, `Import`, `Start`, `Stop`, `Roam`
(the host's address), `Occupy` (a port).

### Status: `application_proxy.rs`, the metrics of `pipeline.rs`

A status command takes the supervisor's snapshot (`Ask`) and later reads the counters and
the adapter's settings (`Answer`); in between, epochs end and begin and connections open, answer,
fail and close. `OfEpoch` is the reset of the counters by the first connection of an
epoch, `View` the health of both directions as the page shows it.

### Exchange: `proxy/src/transport.rs`, `fault.rs`

One connection with one request (`keep_alive` is off) from the handshake to
`connection_closed`. `pc` is the stage; at each one it may be interrupted by the stop, the
client or its time limit (`Interrupted`, `Stop`, `HangUp`). `RequestAction` and `ResponseAction` carry
out one fault action each; `Connect`, `UploadWithFault`, `Upload`, `Capture`, `Publish`, `Answer` are
`HyperUpstreamConnector::send` with the 1xx heads it publishes while it waits; `Dispose`,
`WriteResponse` and `FinishResponse` are the response on its way to the client, with its declared
length, its cut and its surplus. Bodies are lengths.

### Wire: `proxy/src/traffic/*`, `transport/raw_http1.rs`

One message leaving the proxy: `PacedBody::poll_frame` (`Sleep`, `Throttle`, `Emit`, `EndShort`,
`EndEmpty`, `CutOff`), Hyper's buffer, and the writer that replaces the head Hyper generates by the
canonical one while a peer takes a byte at a time or stalls (`WriteHead`, `SkipHead`, `WriteByte`,
`Flush`, `IdleFlush`, `Close`). Time passes while the body waits (`Tick`) or the peer does not read
(`Stall`). `Estimate` is `estimated_delay`, by
which the write timeout is extended.

### Effects: what rules and a decision do to a message

A rule's way: it is saved (`Save` with `Valid`) or made from a template (`Configure`); a message
arrives and the actions of the rules that hit are strung together up to the first terminal
one (`Composed`), edits are applied at once and the others become fault actions; a user may
decide at a breakpoint (`Acceptable`, `Decide`); the transport executes the list action by action, at the request
(`Delay`, `EndRequest`, `Skip`, `Send`) or at the response (`ReplaceBody`, `OffsetLength`, `Truncate`,
`Shape`, `Restate`, `Misplaced`, `Respond`).

### Headers: what becomes of a message's lines

Capture (`Receive`), rules (`RuleHeader`, `RuleBody`), the view of a breakpoint as a map (`Pause`,
`Display`), edits (`EditHeader`, `EditText`, `Format`), the check and the merge back into raw lines
(`ForwardModified`, `Merged`), and the preparation for the next hop (`Forwarded`, `Answered`, `Send`).
A name is a key and a spelling, because names that differ in case are one name on the wire
and two in the map. The framing is in the lines: Content-Length, Transfer-Encoding or neither.
A request goes out with a Content-Length only; a response keeps the Transfer-Encoding it came
with and gets a Content-Length beside it (finding 9), which `SentAsDeclared` confines to the
responses that came so or were given one by a user.

## 3. The runs

| run | question | instance |
|---|---|---|
| `supervisor_concurrent` | One runtime, backed, forgotten by nobody, its tasks ended and its callback called once, listeners accepting only when published: `TransactionsApart`, `RunningIsBacked`, `NoTaskOutlives`, `CalledOnce`, `AcceptsOnlyWhenPublished`; and Lifecycle implemented: `ImplementsLifecycle` | 3 concurrent calls of any kind, 3 epochs, 2 listeners, no gate, no panics |
| `supervisor_liveness` | Every call returns, a dead listener is noticed: `CallsReturn`, `FailureSurfaces` | 2 calls, 2 epochs, 1 listener, no gate, with panics |
| `breakpoints` | A wait can always be ended, all sides agree on its end, a stop ends it whatever users do: `NoLostWakeup`, `EveryoneAgrees`, `StopEndsPauses` | 1 connection of 2 stages, 2 epochs, 2 users, 1 tombstone |
| `sessions` | The ledger is exact and within its limit, what is in use stays, the oldest finished leave first: `StoreIsSound`, `OldestFinishedLeave` | 3 sessions, sizes 1 and 2, counts 1 and 2, limits 2 and 4 |
| `eventhub` | Each byte counted once, no hole in the log, nothing missed, SnapshotRequired last: `LedgerExact`, `NothingMissed`, `LastWord` | 2 subscribers, a log of 2, queues of 1, one recorded failure, batches of 2, room 3 or 5, ids handed out until 2 (the last operation may give out several more) |
| `rules` | No double count, no double shot, no lost edit, no inherited hits, no stale verdict: `FiresOnce`, `EditsKept`, `RunStartsClean`, `NeverStale` | 2 connections of one terminal, a rule for the second hit and a one-shot one with a terminal action, 2 epochs, 3 messages, 1 retry, 1 edit, 1 database error |
| `application` | One configuration, true replies, no lost update: `OneConfiguration`, `RepliesAreTrue`, `NoLostUpdate` | 2 callers of any commands, 2 values, 2 saves, every awaited call may fail |
| `application_rollback` | *violation*: `AllOrNothing`, a stop that fails in the middle of a save-and-restart | the same |
| `certificates` | One readable set, no commit that reverts another, nobody replaces what he has not seen: `OneSet`, `NothingReverted`, `ReplacesWhatWasShown` | 2 instances of the program with a page each, 1 address, 3 commits, 1 lost key |
| `exchange` | Honest results, 1xx heads first, faults where they belong, every stage ends: `ClientIsServed`, `FaultsAct`, `StagesEnd` | bodies up to 2 bytes, 1 informational head, up to 2 fault actions at each side |
| `host` | What was saved starts, who was imported is let in: `SavedStarts`, `OwnIdentityAdmitted`; bytes in order, true ends, an estimate that covers: `InOrder`, `EndsAreTrue`, `EstimateCovers`; a true status page: `StatusIsTrue` | about 80 drafts, nine identity files, four clients; bodies up to 3 bytes with every combination of jitter, throttle and gaps, cut anywhere, a peer that stalls once; 2 channels, 2 connections, 2 starts |
| `messages` | Accepted rules run, decisions take effect, nothing is lost: `AcceptedRulesRun`, `DecisionTakesEffect`, `NothingLost`; edits are exact, lengths true, framings accounted for: `EditsAreExact`, `SentAsDeclared` | 2 rules, the first of up to 2 actions in and out of range, all templates, 3 bodies, every kind of decision; headers in two spellings, bytes that are not UTF-8, messages framed by a length, by chunks or by the end of the connection |

**Why these bounds are enough.** In every run the bound on calls, connections, messages or
commits limits how many there are, never what each may do.

* *Supervisor.* Three calls are a start, a stop that leaves a callback owed, and the call that
  retries it, or two calls around a watchdog; every epoch-specific variable is written by the
  call that targets the epoch and by its own watchdog, so a third epoch adds nothing but the
  order of draws. One listener is enough for a failure, two for a failure beside a listener
  that still serves. What the bounds leave open is closed by the proofs.
* *Breakpoints.* Two users race with each other, with the connection and with the stop for one
  id; its two stages compete for the one tombstone; the second epoch lets a connection of a
  dead epoch meet a new one. The theorems cover several connections.
* *Sessions.* Two of three sessions may have to go for one insertion, in order, while the limits
  change between two questions of its plan.
* *EventHub.* Two subscribers with queues of one event are enough for a slow one beside a
  healthy one and for two that fail in the same delivery; a room of 3 is exhausted by two
  queued events and one retained, a room of 5 is not, and the step between them takes memory
  away or gives it back.
* *Rules.* Two messages make the second hit, the third one belongs to the next epoch or repeats
  the one-shot rule; an edit falls anywhere in an evaluation; both connections share a
  terminal, so that they count together; one of the two files has a rule with a hit. The code retries a conflict three times: the number
  only says after how many conflicts a message is given up.
* *Application.* Two values tell the old settings from the new ones, two saves a candidate from
  what another caller stored in the meantime. The theorems cover any number.
* *Certificates.* Two processes that seal first is where the key can split; the third commit
  meets a snapshot or a page that is two revisions old.
* *Exchange.* Two bytes are the least that can be cut in the middle; two actions are what one can
  do to the other; the cut, the surplus and the declared length each fall below, on and
  above the body.
* *Host.* A draft departs from a valid one in one respect (in bind address and SANs together):
  each check has a draft it alone refuses. Three bytes with chunks of two leave a full and a
  short chunk.
* *Messages.* Two rules tell a combination within a rule, which its validation sees, from one
  across rules, which nothing checks.

**Fairness.** `Supervisor!Fairness` is weak fairness of each call and of each watchdog: tokio
polls a task that can go on, callbacks are bounded by their time limit
(`NotificationReturns` is what follows it), the join by the grace period. Listeners get none:
that they end after a cancellation is not assumed, `JoinTimesOut` takes their place.
`Breakpoints!Fairness` is weak fairness of what a connection's task does by itself and of the
lifecycle; a client need not send anything, a user need not decide. `Exchange!Fairness` is weak
fairness of the connection's own steps and of the answer or its read timeout: every stage but
the wait for a head has a time limit or a token. Neither the client nor the upstream nor a
user has to act. The other specifications state none and their properties are safety.

**Deadlock** is checked in every run but `eventhub`, `certificates`, `host` and `messages`, where the
work is finite (ids, commits, one message, a number of starts) and everyone then rests.
`AllReturned`, `AllOver`, `RunsOver` and `Over` are the states in which a finite instance has used
up its calls, connections and epochs: everywhere else somebody can go on.

## 4. What is proved

TLAPS proves the theorems below for every value of the constants, finite or not, with no
assumptions but the ones the modules state about their constants and, where it says so,

    SerialCalls == Gated \/ ~MayPanic                    (SupervisorProofs)
    WellFormed                                           (HostProofs, on Startup)
    StatusAssumption, WireAssumption                     (HostProofs, on Status and Wire)
    ~Overrun                                             (RuleProofs, two of its theorems)

`SerialCalls` is needed: with neither, a panicked start cleans up without the lock (finding 2).
`WellFormed` says that drafts have the fields of a draft and certificate chains are sequences;
`StatusAssumption` that the connections are finitely many and no record is the absent value;
`WireAssumption` that a message is one the rules let through (`IsPlan`, with the ranges
`domain/rule.rs` checks for jitter, throttle and gaps). `host` evaluates all three.
`~Overrun` says that a stop joins its evaluations, as the run assumes: one that outlived the
grace period would count for the next run (TLC finds both properties violated with
`Overrun = TRUE`). Effects says of its constants what the Rust types say of actions, decisions and
bodies (`ActionAssumption`, `FormAssumption`, `BodyAssumption`): the kinds there are, that what is
computed with is a number, and that none is the absent value; numbers may be negative or out of
range. `messages` evaluates them.

| module | theorem | property |
|---|---|---|
| SupervisorProofs | `TypeCorrect` | `TypeOK` |
| | `Inductive` | `IInv`, on which the others rest |
| | `Apart`, `Backed` | `TransactionsApart`, `RunningIsBacked` |
| | `NoStray`, `OneRuntime`; `TasksEnd` | the halves of `NoTaskOutlives`; `NoTaskOutlives` |
| | `NoneForgotten`, `NotifiedAtMostOnce`; `CallbackOnce` | the halves of `CalledOnce`; `CalledOnce` |
| | `AcceptsPublished`, `RefinesLifecycle` | `AcceptsOnlyWhenPublished`, `ImplementsLifecycle` |
| BreakpointProofs | `TypeCorrect`, `WakeupIsNeverLost`, `Agreed` | `TypeOK`, `NoLostWakeup`, `EveryoneAgrees` |
| SessionProofs | `StoreStaysSound`, `OldestLeave` | `StoreIsSound`, `OldestFinishedLeave` |
| FoldProofs, on EventHub | `HubInvariant` | `Inv`, on which the next three rest |
| | `LedgerIsExact`, `NothingIsMissed`, `SnapshotIsLast` | `LedgerExact`, `NothingMissed`, `LastWord` |
| on Effects | `EffectsInvariant` | `EffectsInv`, on which the next three rest |
| | `RulesRun`, `DecisionHolds`, `EverythingHappens` | `AcceptedRulesRun`, `DecisionTakesEffect`, `NothingLost` |
| RuleProofs | `EditsSurvive`, `DeliveredIsCurrent`, `OneShotFiresOnce` | `EditsKept`, `NeverStale`, a half of `FiresOnce` |
| | `CountsAreExact`, `RunsAreClean`, with `~Overrun` | `FiresOnce`, `RunStartsClean` |
| ApplicationProofs | `OneConfigurationHolds`, `RepliesHold`, `NoUpdateIsLost` | `OneConfiguration`, `RepliesAreTrue`, `NoLostUpdate` |
| ExchangeProofs | `ServedInFull`, `FaultsTakeEffect` | `ClientIsServed`, `FaultsAct` |
| HostProofs, on Certificates | `MaterialsAreOneSet`, `CommitsRevertNothing`, `ReplacesOnlyTheShown` | `OneSet`, `NothingReverted`, `ReplacesWhatWasShown` |
| on Startup | `SavedIsStartable`, `RunningAdmitsItsApp` | `SavedStarts`, `OwnIdentityAdmitted` |
| | `AcceptedIsAnchored`, `AcceptedIsAdmitted` | an accepted chain is trusted and admitted, whatever its length |
| on Status | `StatusPageIsTrue` | `StatusIsTrue` |
| on Wire | `WireInvariant` | `WireInv`, on which the next two rest |
| | `BytesInOrder`, `EndsTellTheTruth`, `EstimateHolds` | `InOrder`, `EndsAreTrue`, `EstimateCovers` |

**Supervisor.** None of its properties is inductive by itself: `NoStrayTasks`, for instance,
needs to know who owns every live task in states that are not stopped. `IInv` (at the end of
`Supervisor.tla`) says it in named parts: the lock belongs to the busy call (`LockInv`) and
there is one (`Exclusive`); what a call knows of its epoch (`TargetInv`, `LaunchInv`); what an
epoch looks like before its gate opens (`FreshInv`); every live task belongs to the stored
runtime or to the call that launches or dismantles it (`CustodyInv`); and what each published
state implies (`RunningInv`, `IdleInv`, `StoppedInv`, `EpochInv`, `PhaseInv`, `OpenInv`). Each part
has a lemma that every step preserves it (`LockStep` ... `ForgottenStep`), with one case per
action; `InvStep` collects them. `Exclusive` is where `SerialCalls` is used: without it an
unwinding call is busy without the lock. The refinement maps `spent` to the epochs whose
gate was opened or that are shown. `AcceptsAtGate` shows that a listener starts to accept in
`PassGate` only; `StepRefines` maps `PublishRunning` to `Publish`, the settling and faulting steps
to `Withdraw` or `Leave`, and all others to a stutter.

**Breakpoints.** `Inv` adds to the properties what makes them inductive: tombstones and their
order are the same set without repetition (`TombInv`), an id a connection has not come to has
left no trace (`FreshInv`), a task in its pause has its entry or its outcome (`WaitInv`), and who was
told that he decided has asked (`ToldInv`). Every end of a breakpoint, whoever brings it,
is `Finish` of a pending entry, and `FinishWins` and `WonKeeps` treat it once for all of them; the steps
that end nothing are sorted by whether the connection or somebody else moves
(`ConnectionMoves`, `OthersMove`).

**Sessions.** `Inv` says what each connection is about to write and what the store has of it
(`ConnInv`), what whoever is inside the store has replaced (`LockInv`), that completed sessions
have different places in the order (`DoneInv`), that everything planned for eviction is older
than all that stays (`PlanInv`), and that `record_bytes` is the sum over the records (`BytesInv`).
The sum is a fold over a set, about which the provers know nothing. The first part of
SessionProofs gives each record one unit per byte, `Units(r, S)`; `SetInduction`, for sets
contained in a finite set, shows that the units are finitely many and that the fold counts them
(`SumIsUnits`). The library's facts about cardinalities then say what a difference and a changed
record do to a total (`SumWithout`, `SumWith`, `SumOfPart`, and `TotalOfRest`, `TotalOfOther` for the store).
With them `Refused` gives back exactly what the ledger still accounts for, `Evict` leaves what it
has asked the ledger about, and `clear_completed` never needs the branch in which the ledger
refuses to shrink.

**Event hub.** An operation under the state lock is one step of the model, but composes a dozen
functions, two of them loops over the subscribers; the proof has a lemma for what each of them
keeps, in the order in which the code calls them. `Sound` is the invariant of the hub as such:
the ledger is exact for what the log, the batch, the failures, the counters and the replays
hold, and within the room (`Exact`); who is registered is owed nothing, has no recorded
failure and is not cancelled (`Ends`); the log is the tail of the history (`TailTo`); and the
queue of every subscriber ends with the last event, one id after the other (`Follows`). `PumpInv`
says where each pump is and what has been told by then (`Pumped`, `Heard`): with a snapshot
owed, recorded as a failure, being replayed or sent, the other ways to get one are closed, so
`SnapshotIsLast` follows. The counter of a receiver that is being dropped need not agree with
its queue, which is why `Exact` takes the set of subscriptions for which it does.

In the middle of an operation the invariant does not hold. An event that was appended to the
log and not yet delivered is in no queue; `Evolves` says what the functions before the delivery
may do (shed history and failures, end subscriptions and no more), `Dispatches` what the
delivery makes of it: who is still registered got the event, whoever did not is terminated. A
second delivery, of the warning that history was lost, may follow the first, and a batch may
be flushed before the row that did not fit it: `EmitSound`, `FlushSound` and `PushSound` put them
together. Both loops are folds over the set of subscribers, in any order. A fold of the
library is a choice among the solutions of a recursive equation; the first part of the module
shows by induction over the subsets of a finite set (as in Sessions) that there is exactly one
solution (`FoldExists`, `SolutionsAgree`), after which `OfferAllKeeps` and `TerminateKeeps` are
inductions over the subscribers, and `SumBytesIs`, `SumWithout` and `AmongLeaves` say what the folds
behind the ledger, the replay and the recorded failures compute. Only `LastWord` is
an action property; `WordKept` goes through the actions that deliver.

The model was changed for it in one way, its meaning left as it was: the sequences it filtered
with the operator `SelectSeq`, which the provers cannot expand, are now filtered by the fold
`Among`, the subscribers, sorted before, are now taken by `Slowest`, and the sum is the
function's (`SumFunction`).

**Rules.** `Inv` is the types, the locks (`LockInv`), that a snapshot of the table's revision is the
table (`SyncInv`), `EditsKept` and `OneShotOnce`: what the compare-and-swap achieves, for evaluations
of any run. `RunInv` adds what a joined evaluation achieves: every evaluation and its runtime are
of the current run (`EpochInv`); what the engine will forget at the next snapshot, RULE-007 makes it
forget, and it has counted everything else (`CountInv`); and neither a hit nor a count exceeds the
messages of the run whose evaluation is over, `Done`, plus what an imported file has brought
(`CleanInv`). `DataSteps` sorts the actions by what they do to the table: nothing, the reset of all
hits, an edit, a snapshot, a commit; so the lemmas about `CountInv` and `CleanInv` have five
cases and not twenty. The proof attempt changed the model in one place: a file that is
imported in the middle of a run keeps the hits of its rules (`replace_all`, `adapters/rules.rs:538`), and no
file of the run's instance had any; `RunStartsClean` now says it, the ghost `current.brought`
remembers it, and the instance has such a file.

**Exchange.** `Inv` says what a connection that has come to a stage was not asked to do
(`AskedInv`), what the client has by then (`WireInv`), and that a response being written has its
declared length or carries the fault that says why not (`WriteInv`). A response comes to be written
in one way, `Disposed`; the loops over actions are taken one action at a time
(`RequestActionKeeps`, `ResponseActionKeeps`), for bodies of any size.

**Application.** `Inv` says who holds the gate (`LockInv`), that only a proxy just launched serves
what is not yet recorded as effective (`SettledInv`), what a command knows of the proxy at each
of its awaited calls (`ProxyInv`), what it remembers of the old settings and may still write
(`SagaInv`), and that a form shows a revision its caller has read (`FormInv`). Revisions are unbounded
in it. `OthersWait` reduces a step to the caller that holds the gate, then there is one lemma
per action. The two action properties follow from `Inv` with the case of the step that ends or
writes.

**Certificates.** `StoreInv` says that all stored materials carry the table's revision and, while no
key was lost, are sealed with the key in the keychain; `JobInv`, that what a command is about
to write was made from the materials of the revision it expects; `PageInv` and `ShownInv`, that
what a page shows and what a user saw at the click is a past store, which is the store of
today if the revision is, and that the command still holds the revision seen. `CommitStep` puts
them together, where the compare-and-swap is: if the revision is the one that was loaded,
nobody has written since the page was read.

**Startup.** `SavedInv` is what every later change leaves of a save's checks, `IdentityInv` that the
imported and the served identity passed their check; `SavedMeans` goes through the ways a start
can refuse, `AcceptedIsAdmitted` through the chain.

**Status.** What a status command shows is the counters' epoch, so `EpochsInv` orders the epochs
that are shown, counted and asked about, and `IdleStates` says who can be connected when no runtime
runs; `CountersInv` says that counters of the last epoch are of its own connections (clients
counted one by one: `OpenedIs`, `ClosedIs` on the cardinality of a set that gains or loses one) and of
the upstream's last word on each channel, and that without them nothing has happened yet. A
connection that closes after its listener failed no longer counts, so the clients are claimed for
a runtime whose listeners are alive, as the property has it.

**Wire.** `PlaceInv` is the argument: at any time `c` parts and bytes have left Hyper's buffer and `w`
have reached the peer. What is buffered is the stretch of Hyper's stream (`Source`) from `c` to what
the body has handed out, what the peer has is the first `w` of `Expected`, and `head` and `sent` say how
`c` and `w` differ while the generated head is skipped and the canonical one written (`Place`);
`Arrived` says which ends need all of it to have arrived. `BodyInv` is the body by itself. The lemmas `From*` say
what taking, appending and joining do to a stretch of a sequence: the steps move its two
ends, and nothing needs an induction over its length.

`EstimateHolds` has an invariant of its own, `TimeInv`, which counts the chunks `k` that are out and the
draws `m` of jitter made for them. `Allowed(k, m)` is what they may have cost, and the body is never
later than that, but in one place: asleep until the end of a gap it is behind by that gap
(`Overslept`), which is charged to the next chunk. That it pays for one gap a chunk and no more is the crux:
it wakes where a cycle begins, hence in an available window (`CycleEnd`), with its jitter
drawn, and a peer that stalls it past that moment has taken the whole delay on itself. Every chunk
but the last is full (`FullChunk`), so the estimate counts enough of them (`RoomForOne`), also for
a body whose declared length is shorter and whose chunks may be smaller; that the rate is rounded down
chunk by chunk only helps (`DivAdds`).

**Effects.** `EffectsInv` says what the first `at` faults have left behind: what they delayed is what was
slept (`EndInv`, with the sum over a prefix, `SleptIn`), each kind of shaping in the schedule and the
status are those of the latest fault of that kind (`Latest`, in `ResponseInv`; a request composes its
schedule at once, `SentInv`), and the last fault, once it is executed, is the end of the message
(`LastInv`). It holds because of what may be in the list: each fault suits the stage
it is executed at (`Suits`), and a terminal one is the last, or the last but one before a
decision (`FaultsInv`). That is what the checks of a rule are for: `RulesInv` says that the stored rules
are compatible with their stage, `ComposedIs` that the engine composes nothing after a terminal
action, and `RulesSuit` follows both through `Edited` and `Faults`. There is one lemma per action of the module, and two for a single fault
at the request and at the response (`RequestStep`, `ResponseFault`). `Composed`, `Faults`, `Total` and
`LastOf` are folds over sequences; the facts about them come from the solution of a fold's equation,
as for the hub, by induction over the indices of the sequence that is at hand. That is why
EventHub and Effects, which share no state, share a proof module. `RulesRun` adds that every form as it is first shown passes `Valid`
(`DefaultsFit`); `DecisionHolds` and `EverythingHappens` read off `EffectsInv` at the end of the list.

The proof changed no step of the model. `Faults` and the sum of the delays are folds now, `SelectSeq` being
beyond the provers; a state whose record changes in two fields is written out; the
variables, the initial state and the next-state relation have names of their own (`effects`,
`EffectsInit`, `EffectsNext`).

**Only model-checked.** Liveness (`CallsReturn`, `FailureSurfaces`, `StopEndsPauses`, `StagesEnd`),
which needs reasoning about fairness. Headers (`EditsAreExact`, `SentAsDeclared`), which sorts, filters
and flattens the lines of a message: what those operators compute for every sequence
is an induction over data.

## 5. What the checks found

`application_rollback` asserts the first; the others are stated next to the models' properties,
in a definition no run lists, and TLC refutes each when it is added to the run of its module
(`NthOnTime` with `MaxWrites = 2`, the second finding with `MayPanic = TRUE`).

1. `AllOrNothing` (`application/src/facade/settings.rs:119`): when stopping the old proxy or clearing
   its settings fails, a save-and-restart returns without restoring anything.
2. `TransactionsApart` without gate and with panics (`proxy/src/supervisor.rs:438`): a panic during
   `prepare_start` unwinds through the guard of `operation`, and the clean-up that follows runs
   unlocked beside other calls. Not reachable through the facade, as `Apart` shows.
3. `StopMarksProxyStopped` (`application/src/breakpoints.rs:189`): a breakpoint registered after the
   sweep of a stop and before the cancellation is recorded as `ClientDisconnected`.
4. `WithinCount` (`application/src/sessions.rs:123`): `max_sessions` can be exceeded for a while by an
   upsert that had copied the limits before they were lowered.
5. `ClosedIsCompleted` (`infrastructure/src/adapters/pipeline.rs:536`): the record of a closed
   connection can stay active, and then for ever, when its last write is refused.
6. `EndsAreExplained` (`application/src/events.rs:926`): the `SnapshotRequired` recorded for a
   terminated subscription can be evicted before its pump takes it.
7. `PendingIsReal` (`infrastructure/src/adapters/settings.rs:121`): settings saved unchanged, or
   restored, are shown as pending, because the comparison includes the revision.
8. `NthOnTime` (`domain/src/rule.rs:394`): a rule switched off and on between two messages keeps its
   counters.
9. `HopEnds` (`proxy/src/transport.rs:1606`): hop-by-hop headers of a response reach the client. One
   that came in chunks goes out with `Transfer-Encoding: chunked`, an added `Content-Length` and a
   body that is not in chunks: two framings that contradict each other.
10. `ShortIsDelivered` (`proxy/src/transport.rs:441`): the delay before a truncated body's end runs
    from the creation of the body, so that a paced one can lose its last bytes.
11. `UpstreamIsToBlame` (`infrastructure/src/adapters/pipeline.rs:844`): a client's failure is shown as
    one of the upstream.
12. `WrongLengthIsIntended` (`proxy/src/transport.rs:1594`): the answer to a HEAD request is recorded
    as a fault a rule injected.
13. `NothingReturned` (`proxy/src/transport.rs:786`): 1xx heads reach the client although the response
    is to be dropped.
14. The total delay of a message is bounded per rule only (`domain/src/rule.rs:18`), where the
    requirements bound the total of a message's actions.
15. A restart uses the effective settings (`application/src/facade.rs:268`); the requirements say both
    the effective and the last saved ones.

Read while modelling and asserted by no run: the drop of a receiver that is still
registered (a subscribe command whose channel closed during the replay) empties its byte
counter before it takes the state lock, and an event delivered in between stays counted for
ever (`events.rs:149`, `DropFreesBytes`); `push_capture` and `reclaim_for_limit` may set
`replay_overflowed` without the warning that `append_log` and `record_replay_overflow_warning` send
(`events.rs:305`, `:547`); a rollback whose proxy stays down restores the effective settings of a proxy
that does not run (`StoppedIsClear`); of two spellings of one name in an edited draft one loses
its values (`NothingDropped`).

## 6. What is not modelled

| part | why |
|---|---|
| Capture and session queries | they project what Sessions and EventHub hold and change nothing |
| Tauri shell, React interface | commands forward to the facade; pages render snapshots and events |
| Products, composition at start-up | where the models' constants come from |
| Documentation, build, test support | not part of the program that runs |

What the partly modelled parts leave out:

* *Text and bytes*: the grammar of HTTP heads, character sets, JSON paths, X.509 and URL parsing
  are classes of inputs with the outcomes the code tells apart; WebPKI, AES and DPAPI are external.
* *Rules*: the conditions a rule compares, the preview, and the order of rules in the editor.
* *EventHub*: `take_subscription_failures` and `replay_after`, which only tests call; the ledger
  changes between two operations of the hub, never in the middle of one (Sessions has that
  interleaving, from the other side).
* *Events beside each step*: which of two publishers' events comes first (`pipeline.rs:416`) is in no
  model; the front end reads the queue anew on either.
* *Persistence*: a transaction is atomic; migration, backup and replacement of files keep no state
  the program races on.
* *Random numbers* of jitter are a choice.
* *HTTP/2, tunnels and keep-alive* do not exist in the code.
