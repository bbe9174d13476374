# PepeAudio: formal models

PepeAudio plays music in Discord voice channels. A bot process (several, when
sharded) runs one player actor per guild; a server process answers a web
dashboard. The two share a Valkey server (commands, results, snapshots,
presence, sessions) and a PostgreSQL database (guild settings).

These modules model the Rust workspace (`crates/`) and the dashboard's logic
(`web/src/app`), TLC checks them on small instances, and TLAPS proves the results
listed under "What is proved". `PROJECT.json` names for every definition the lines
it translates, for every property a plausible fault (a mutant) that it notices,
and the hazards the properties are aimed at.

Contents: 1 the system, 2 the modules, 3 the runs, 4 fairness, 5 refinements
and proofs, 6 what the models show about the code, 7 what is not modelled, 8 the plan.

## 1. The system

    Discord gateway --> bot: gateway state, guild lifecycle actor --> presence actor --> Valkey leases
                          |
    slash commands, ----> player registry --> player actor (one per guild) --> adapter / pipeline --> Songbird
    panel buttons         ^                     |        |      ^                  |
      command worker -----+                     |        |      +--- event bridge <+ end reports
        ^                                       v        v
        |                            snapshot publisher  settings publisher
     Valkey stream                              |        |
        ^                              snapshot worker  settings worker
        |                                       v        v
     API: sessions, admission                Valkey   PostgreSQL
        ^                                       | wake-ups (Pub/Sub)
        |                                       v
     dashboard (poll, stream, commands) <-- API backend, event hub, SSE

A request for music takes another path: `/play` or `enqueue_media` --> media resolver (site
tools, catalogs) --> managed media (files under a quota) --> leased tracks --> player.

The inventory: state, operations, what is hard, what makes it right.

| component | state | operations | hard behaviour | correct when | module |
|---|---|---|---|---|---|
| player actor (`pepeaudio-player`) | model (voice, status, current, queue, history, repeat, shuffle, settings, revision), playback generation, idle timer, idempotency window | connect, enqueue, 14 commands, end reports, idle expiry, voice reconciliation, shutdown | idle task and adapter run on their own; an adapter call fails half-way through a handler; end reports arrive late | the model is coherent, what it shows is what the adapter does, no track is lost, the timer is armed exactly while idle | `Player` |
| voice adapter, pipeline (`pepeaudio-pipeline`) | active and prepared playback, lifecycle atomics, PCM worker, pipe, Songbird track, end-report channel | play (replace), pause, seek, settings, stop, shutdown | worker, Songbird thread and adapter race on the same atomics; every await has a time-out; the bridge lags | one end report per playback with its true reason, the worker plays with the settings acknowledged, calls return | `Pipeline` |
| decoder pool (`pepeaudio-pipeline`) | process slots, overlap slot, the tracks that share one | acquire, prepare a replacement, activate, drop | many guilds skip at a full pool | one process more than the limit at most | `DecoderPool` |
| playback event bridge (`pepeaudio-bot`) | broadcast receiver | forward, recover a lagged receiver | lag, late subscription | an ended playback does not stay current for good | `Pipeline` |
| audio rendering (`pepeaudio-audio`) | convolution history, preset fade, gain and mix ramps, source bearings | process, set preset, set bearing, reset | block sizes that do not divide the partition, a fade across blocks | the output is the convolution, levels do not jump | `AudioRenderer` |
| snapshot publisher and worker (`pepeaudio-runtime`) | mailbox of the newest snapshot per guild, worker with retries, publish gate | publish, write, retry, flush, shutdown | a timed-out write may still arrive; shutdown overtakes publishers; the actor is recreated | the cache never moves back and catches up; accepted snapshots survive an orderly shutdown | `SnapshotPublication` |
| snapshot cache (`pepeaudio-storage`) | body with a time to live, revision watermark | put if newer, invalidate, read, expire | body and watermark live separately | a revision names one snapshot | `SnapshotRegister` |
| API backend, event hub, SSE (`pepeaudio-runtime`, `pepeaudio-api`) | subscription, per-stream bounded queue | follow, publish, recover, stream | lost wake-ups, slow receivers, changes between subscribing and reading | gaps are announced, the page catches up | `SnapshotFeed` |
| dashboard state (`web/`) | session, selected guild, shown snapshot, stream, pending command | bootstrap, select, log out, retry, command, poll, read a frame | answers of aborted work come in late, effects run after renders | the page never goes back; the stream shown is of the guild selected | `SnapshotFeed`, `Page` |
| settings publisher and worker | pending change, desired settings, last known row | publish, compare-and-swap, re-read, back off, shutdown | timed-out updates land late; a player is recreated meanwhile | the row gets the last accepted settings and never an older one | `SettingsPersistence` |
| command bus (`pepeaudio-runtime`, `pepeaudio-storage`) | stream and pending list, results, leases, idempotency keys | admit, deliver, claim back, execute, complete, acknowledge, expire | each Valkey call may fail before or after its effect; crashes; redelivery | applied at most once, answered for certain, results final | `CommandBus` |
| guild command dispatcher | buffered deliveries, one task per guild | buffer, start, finish | full buffers, many guilds | per-guild order, bounded buffer | `CommandBus` |
| guild lifecycle actor (`pepeaudio-bot`) | owned guilds per shard, stage per guild, pending absences | ready, create, delete, owned, tick, shutdown | guilds change hands during retries | a guild is advertised only after its old snapshot is invalid | `GuildLifecycle` |
| guild presence (`pepeaudio-runtime`) | present guilds, running heartbeat | present, absent, refresh, shutdown | the heartbeat races with an absence | no lease outlives a confirmed absence by a renewal | `GuildLifecycle` |
| player registry, factory | handle per guild, operation lock per guild | get_or_create, remove_and_shutdown, shutdown_all | stopped or stuck actors, removal racing with creation, commands aborted with their shard | no live actor is forgotten but for one that an aborted command left | `BotProcess` |
| bot process supervision | mandatory tasks, phases, one deadline | run, stop, stop ingress, stop players, drain, abandon | tasks that nobody joins create players while the process stops | a clean exit stopped what it took over | `BotProcess` |
| Discord commands, panel, voice facts | interactions under way, the panel's binding, who is where | /play, /stop, /leave, /now, buttons, voice events | each reads, waits, authorizes and acts in its own task | a click acts on the player its panel shows; what was told queued is kept | `Interactions` |
| managed media (`pepeaudio-media`) | files, quota ledger, leases and permits, scan | reserve, write, commit, acquire, discard, scan, remove | cancellation at every await, operations that complete late, restart | the quota holds, no leased file is removed | `ManagedMedia` |
| media resolution | admission permits, items of a batch, completed tracks, leases | resolve, run batch items concurrently, stop at the deadline, cancel | items finish in any order, fail, are cancelled | a batch holds each of its tracks once, in order, and leaks no lease | `Resolve` |
| site search, external tools | listings, candidates left, process group, pipe readers | search, rank, try; spawn, wait, kill | soft and fatal errors; helpers that outlive the tool | the best acceptable match; no orphans, no wait beyond the deadline | `SiteSearch`, `ToolProcess` |
| catalog providers (`pepeaudio-catalog`) | shared token, its single issue, page position | resolve link, next page, issue token, retry | two resolutions share an expiring token | what is not called truncated was looked at in full, or as far as a lookup returned it | `Catalog` |
| authentication, API requests (`pepeaudio-auth`, `pepeaudio-api`) | OAuth states, sessions, pointer per user, stream leases | begin, callback, load, refresh, rotate, log out, stream | steps of concurrent requests between scripts; expiry | a revoked session is refused, a state works once, leases are counted | `Sessions` |
| development backend | snapshot, receipts, admission windows | execute a command | validation, deduplication and admission in order | its snapshots pass the bot's rules | `DevBackend` |
| server process, configuration, components library | phases, none | start, stop, parse | - | - | section 7 |

## 2. The modules

Written in this order, the most important behaviour first. A handler is one
action when nothing else can write its state while it awaits; where others can,
each await separates two actions. A module states at its head what it
abstracts. A definition directly before another of similar name and the same
parameters (`BeginDeletionOfLeased`, `BeginDeletion`) is the faulty variant of a
mutant; no specification uses it.

**`Player`** - `player/src/actor`. `player` is `PlayerModel`, `timer` the idle
timer with its task and one-slot channel, `port` what the adapter has been told,
`ends` the end reports in flight. `Execute` has one disjunct per command;
`Apply` adds the idempotency window; `PlaybackEnded`, `IdleExpired`,
`ReconcileVoiceChannel` and `Shutdown` are the other handlers. An adapter call
that fails is a disjunct of the handler with exactly the state the code has
changed by then. Commands that are refused before any effect change nothing and
are left out. `MCPlayer` gives the kinds of requests each run sends;
`MCWorkloads` adds a second workload, which `workload` chooses in the initial state: the constants of
the module are those of edits of a longer queue, its instance `Ends` has fewer tracks and more ends.

**`Pipeline`** - what `Player` sees as calls and reports, one level down. A record per
playback generation holds the lifecycle's atomics, the worker's step, the pipe and
Songbird's events; each atomic access another thread can race with is a step. The
adapter's `play` prepares a playback, replaces the active one, removes the old
track and installs the new, with time-outs and failures at each await. The bridge
takes reports from a broadcast channel that forgets the oldest when it is full,
and `Recover`s. Songbird itself is external and modelled as the code uses it.
**`DecoderPool`** - the two semaphores of all guilds' decoder processes.
**`ToolProcess`** - one run of yt-dlp or ffprobe with its process group, readers and deadline.

**`SnapshotRegister`** - the abstract specification of the cache: a register
ordered by revision whose body may expire.
**`SnapshotPublication`** - publisher, gate, mailbox, worker, `PutSnapshot` (the Lua
script) and the actor's incarnations; it implements `SnapshotRegister` (property
`ImplementsRegister`).
**`SnapshotView`** - the abstract specification of the page: it shows stored revisions, only
ever newer ones.
**`SnapshotFeed`** - from the register to the page: Pub/Sub task, bounded fan-out,
SSE response, browser. It composes with `SnapshotRegister` by instantiating its actions
as the environment that stores snapshots, and implements `SnapshotView` (property `ImplementsView`).
**`Page`** - one browser tab: bootstrap, selection, effects, logout, retries, one command at a
time. What was aborted is kept in `late` until its answer comes in. It leaves revisions to
`SnapshotFeed`.

**`SettingsPersistence`** - publisher, worker, the row with its revision, late
updates, creation of a player from durable and pending settings, crash.

**`CommandBus`** - one guild: admission, delivery, the steps of `process_command`
(each with success, failure before and failure after its effect), results,
idempotency keys, leases, redelivery, crash. `MCCommandBus` is the instance: a
command, its retry and the idempotency key they share, for a command the player
remembers as well as for enqueue_media, which it does not.

**`GuildLifecycle`** - lifecycle actor, presence actor, leases and cached
snapshots, for several guilds and shards.
**`BotProcess`** - one guild's entry of the registry (`get_or_create`, `remove_and_shutdown`, the health
check), what stops the process, and `Shutdown`'s phases under one deadline. Slash commands run in tasks nobody
joins and outlive the gateway, here as in the code. A dashboard command lives with the shard that serves its
guild: when the shard returns, on the stop signal or because a guild's task failed, the command is dropped where
it waits (`Abort`), and the shutdown does not wait for that. A shard that returned after a failed task counts as
joined (`"ended"`), one that panicked does not (`"failed"`).
**`Interactions`** - slash commands, panel buttons and voice events as tasks that read the cache and the
snapshot, authorize, and act. The player is reduced to life, channel, status and revision.

**`ManagedMedia`** - the directory of downloads, the capacity ledger, the lease
registry, the janitor, one task per ingest. `MCManagedMedia` adds the symmetry of
the files.
**`Resolve`** - from a request to leased tracks: admission, items resolved several at a time,
deadline, cancellation, the order of the tracks. Its leases are those of `ManagedMedia`.
**`SiteSearch`** - the three searches, the rules of the match, ranking, and trying candidates.
**`Catalog`** - Spotify's and Apple's clients page by page, with the shared token. Credentials are reported invalid
by the token endpoint, by Apple after one 401 and by Spotify's API after a second token was refused.
**`Sorting`** - a helper of these three: the elements of a set in the order of a key.

**`Sessions`** - OAuth login, sessions, logout, API calls and event streams; each Valkey
script is one step, time is counted down by `Tick`.
**`DevBackend`** - the API's in-memory player with its admission and idempotency rules.

**`AudioRenderer`** - partitioned overlap-save convolution, fades and ramps. The music's n-th frame is
the number n, a product of frame and tap the pair `<<n, tap>>`, a sum a set of such pairs: the
arithmetic is exact and independent of samples and taps. The pieces of a block and the direct sum beside it
(`Pieces`, `Oracle`) are recursive functions of the frames so far.

**`MCTasks`, `MCServices`, `MCMedia`** - the instances of the modules that share no state (`MCMedia`:
`ManagedMedia` and `AudioRenderer`). `part` picks in the initial state which of them runs, the others stay as
they start: one run covers them all without multiplying their states, and no interleaving is lost that could
matter.

**`PlayerProofs`** (of `Player`), **`SnapshotProofs`**, **`FeedProofs`**, **`SettingsProofs`**,
**`CommandProofs`**, **`MediaProofs`** (of `ManagedMedia` and `AudioRenderer`, the parts of `MCMedia`),
**`TasksProofs`** (of `GuildLifecycle`, `DecoderPool`, `ToolProcess` and `Pipeline`, the parts of `MCTasks`),
**`ServicesProofs`** (of `BotProcess`, `Sessions`, `DevBackend`, `Interactions`, `Resolve`, `Catalog`, `SiteSearch`
and `Page`, the parts of `MCServices`) - the theorems, section 5.

## 3. The runs

| run | states | what it shows | bounds |
|---|---|---|---|
| `player_workloads` | 481,241 | Ends, skips, previous, repeat with late reports and failing starts; and every queue edit and setting before, during and between connections: what plays is what is shown, no natural end loses a track, moves land where asked, settings reach the adapter | ends: 3 tracks so that history, current and queue are all occupied with a queue limit of 2, two end reports in flight, so that a report is two playbacks late; edits: 4 tracks, a queue of 3: moves in both directions past a neighbour; no "join" (section 6) |
| `player_voice` | 103,748 | Idle timer, reconciliation, disconnect, shutdown, with fairness | 2 channels, 6 idle generations: an expiration can be two arms old |
| `player_duplicate` | violation | `previous` can queue the track it starts (section 6) | 3 tracks, a queue of 2 |
| `publication` | 146,320 | Cache, mailbox and worker through failures, recreation, shutdown, one crash | 2 incarnations of the actor, 4 revisions, 2 abandoned writes: one older and one newer than what is stored |
| `feed` | 232,976 | The page follows the cache | 3 revisions, queues of 2: a receiver lags at the third |
| `settings` | 107,332 | The row follows the player | 3 values, one of a preset that no longer exists; 2 tries, 2 abandoned updates, a crash |
| `settings_flush` | violation | The settings worker can end well without its last value (section 6) | as `settings` |
| `command_bus` | 161,604 | At most once, answered, final | 2 submissions under one key, 1 crash, an effect counted to 2 |
| `media` | 374,391 | One of managed media (quota and leases) and the audio processor: what is heard, and that no level jumps | 3 ingests for 2 entries and 3 bytes: contention for bytes and for entries; audio below |
| `media_ledger` | violation | A cancelled removal leaves its bytes charged (section 6) | as `media`, without the audio |
| `tasks` | 277,754 | One of pipeline, pool, tool and lifecycle (below) | per part |
| `services` | 1,576,931 | One of eight services (below) | per part |

The parts of `tasks`, of `services` (from `process` on) and the audio of `media`:

| part | states | bounds |
|---|---|---|
| pipeline | 211,276 with pool and tool | 2 generations: one playback replaced by another; a pipe of 1 block, an event channel of 1: the bridge lags at the second report; 2 values of the settings, 1 change |
| pool | | 3 guilds, 2 processes: two hold a slot while the third waits and one replaces |
| tool | | one run: every order of fork, exits, deadline and drop |
| lifecycle | 66,478 | 2 guilds, 2 shards, 3 gateway events: taken, lost and taken again |
| process | 628,789 | 1 slash command, 1 dashboard command, 2 players: one removed and created again, or left by an aborted command beside its successor, while the process stops |
| sessions | 139,828 | 2 requests and 2 callbacks of one user, 2 logins, 3 sessions; lifetimes of 1 and 2 ticks: idle expiry before and after the absolute one; one stream slot for two |
| dev | 1,210 | 2 actors, 3 keys; limits 2 (actor) and 3 (guild): either is met first |
| discord, leaving | 246,600 and 139,854 | a `/play` against a click on the panel, or against a `/stop` and a `/leave`; 2 attempts, 4 revisions, one voice move |
| resolve | 115,695 | 2 calls, up to 3 items, 2 at a time: out of order, and a third after one of the first two |
| catalog | 262,729 | 2 resolutions and one token reissued once; up to 3 items, a collection limit of 2: a second page, and an order to keep |
| search | 20,496 | every choice of results from 5 listings, one per kind the rules tell apart; 4 per search |
| page | 21,730 | 2 guilds, 1 late answer |
| audio | 39,168 | 335,223 more are managed media; partitions of 2 frames, presets of 3 and 5 taps (2 and 3 partitions), a resampled file and a refused one; blocks of 1 and 3 frames, transitions of 1 and 5, 7 frames of music, 2 controls: a fade spans blocks and partitions |

Counters that are 64 bits wide in the code are bounded by constants
(`MaxRevision`, `MaxGeneration`, `MaxIdle`); where the code handles exhaustion (`checked_add`)
the bound is handled the same way, so exhaustion is checked too. Bounds on the
environment (`MaxEnds`, `MaxCrashes`, `MaxChanges`, `MaxEvents`, `MaxFrames`, `MaxDrops`,
`MaxEffects`, `MaxLogins`, `MaxVoice`, `MaxLate`, `MaxClock`, `MaxControls` and the like) are guards of its
actions only. Beyond the bounds the components meet no new kind of situation: a worker compares its
value with one other (the newest), a report with the current playback, a late answer with
the current generation, and a crash returns to a state like the initial one; two of each therefore show
every pairwise race and three every overtaking.

Deadlock checking is off where the system may stop: an actor or process that has
shut down, a command that is answered, a directory with nothing left to remove, a finished run.

The type invariant of a module is part of the property that its run checks (`FeedIsComplete`,
`AnswersAreTrue`, `VoiceIsAttended`, `PlaybackIsHonest`, `ApiIsSound` and so on).

## 4. Fairness

Weak fairness is assumed of what the runtime polls: a spawned task whose next
await is ready runs. That covers the idle timer and the actor's mailboxes
(`Player`), the workers (`SnapshotPublication`, `SettingsPersistence`), the dispatcher,
the backend's task and the SSE handler, both actors of `GuildLifecycle`, and in `Pipeline` the PCM
workers, Songbird's event handlers, the adapter, the player's loop and the bridge; in `ToolProcess` the
runner and its deadline.

Of the outside world:

- `SnapshotPublication`: the store answers in time infinitely often (strong fairness of
  `Answer`). The worker retries for ever, so this is enough.
- `SnapshotFeed`: a browser that keeps polling, and a stream that keeps being
  opened, succeed every now and then.
- `SettingsPersistence`, `CommandBus`, `GuildLifecycle`: from some time on calls succeed (for the
  lifecycle, `<>[]` no round fails). For the
  settings less would not do: an attempt that loses a race and then fails starts
  over with the row the worker began with. The command bus and the lifecycle
  actor have deadlines, expiring leases and rounds of several calls, all of which
  have to go well once.
- `Pipeline`: Songbird carries out a removal that is asked for again and again (strong fairness
  of `RemoveCall`).
- Requests that hang are eventually lost (`Lose`), as sockets time out.

Nothing is assumed of users, of the gateway, of crashes, of expiry, of what a media tool does or of a
track's decoder: `WaitsEnd` holds by the code's own deadlines.

## 5. Refinements and proofs

Three levels are connected. `SnapshotPublication` implements `SnapshotRegister`, `SnapshotFeed`
uses that register as its environment and implements `SnapshotView`; so what a player publishes, is
what the page shows, in order, whatever is lost between. Both refinements are checked by the runs
`publication` and `feed` and proved.

Each theorem holds for every value of the constants that satisfies the named
assumptions of its module:

| assumption | of | what it asks, and why the code justifies it |
|---|---|---|
| `ConstantsAssumption`, `NonEmptyAssumption` | `Player` | limits are natural numbers and the queue and the window hold something, `None` is no value, there is a volume |
| `BoundsAssumption` | `SnapshotPublication` | bounds are natural numbers, `None` is no snapshot |
| `FeedAssumption` | `SnapshotFeed` | bounds are natural numbers, queue and fan-out hold something, `None` is no snapshot |
| `SettingsAssumption`, `NoneAssumption` | `SettingsPersistence` | bounds are natural numbers, the default is in the catalog, `None` is no value |
| `BusAssumption` | `CommandBus` | every command has a key, the dispatcher takes at least one |
| `QuotaAssumption`, `FilesAssumption` | `ManagedMedia` | finitely many ingests; quotas are positive (`capacity.rs:40`) and one download fits in them (`fetcher.rs:38`); the janitor's own scan is no ingest |
| `TasksAssumption`, `PipelineAssumption` | `MCTasks`, `Pipeline` | finitely many guilds, bounds are natural numbers, pipe and event channel hold something |
| `AudioAssumption` | `MCMedia` | partitions, lengths and blocks are positive; presets are described as the loader describes them |
| `RampAssumption` | `MCMedia` | levels are whole `Unit`-ths where the code has floats, so `Unit` must be divisible by the steps of as many ramps as there are controls; some transition is longer than a frame (`config.rs:72` has 2,400 frames). It asks nothing of the code |
| `ProcessAssumption`, `PageAssumption` | `BotProcess`, `MCServices` | names that stand for nothing are none of the things; slash and dashboard commands are different tasks |
| `SessionAssumption`, `BackendAssumption`, `CatalogAssumption`, `SearchAssumption` | `MCServices` | limits and lifetimes are natural numbers, requests and actors finitely many, `Nobody` no user and `NoTrack` no track |
| `ResolveAssumption` | `MCServices` | a collection may have two entries, one item may be under way (`SITE_BATCH_CONCURRENCY` is 4) |
| `InteractionAssumption` | `MCServices` | an interaction is a `/play`, another command or a click |

`SettingsReach` has a hypothesis of its own, `"join" \notin Inputs`: with the adoption of a channel its
property fails (section 6). Where a module has bounds, they are arbitrary here, so no theorem rests on a small instance.
Every proof shows that an inductive invariant holds initially and is kept by each action, one lemma per action
(or per kind of change, where several actions make the same), and that it implies the property. TLC checked each
inductive invariant on the instance of its run before it was proved.

| theorem | property | argument |
|---|---|---|
| `PlayerProofs!TypeCorrect` | (part of `VoiceIsAttended`) | `Inv` |
| `PlayerProofs!ModelCoherent` | `ShapeOK`, what `validate` asks of a snapshot | `Inv` |
| `PlayerProofs!PlaybackIsBacked`, `CurrentStaysBacked` | `CurrentIsBacked` | `PlaybackInv` |
| `PlayerProofs!OnlyEndedIsReplaced` | `OnlyEndedPlaybackIsReplaced` | `PlaybackInv` |
| `PlayerProofs!NaturalEndKept` | `NaturalEndKeepsTrack` | what advancing does to queue and history |
| `PlayerProofs!RevisionTracks` | `RevisionTracksChange` | every change ends in `FinishChange` |
| `PlayerProofs!VoiceAttended` | `VoiceIsAttended` | `TimerInv`, `PlaybackInv` |
| `PlayerProofs!MovePlaces` | `MovePlacesTrack` | `Lands`: where each place of the queue goes |
| `PlayerProofs!SettingsReach` | `SettingsReachAdapter` | `SettingsInv` |
| `SnapshotProofs!TypeCorrect` | types | part `Types` of `Inv` |
| `SnapshotProofs!AcceptedSnapshotIsQueued` | `AcceptedIsQueued` | `ActorAhead` |
| `SnapshotProofs!FlushIsComplete` | `FlushedOnShutdown` | `StopsInOrder`, `WorkerKnows` |
| `SnapshotProofs!NothingConfirmedTooSoon` | `ConfirmedIsStored` | `RequestsTracked`, `WorkerKnows` |
| `SnapshotProofs!IdleWorkerIsDone` | `SettledIsLatest` | `NewestIsQueued` |
| `SnapshotProofs!CacheImplementsRegister` | `ImplementsRegister` | `Types`; `Arrive` is `Put`, `Expire` is `Expire`, all else stutters |
| `FeedProofs!FeedIsToldEverything` | `FeedIsComplete` | `Informed`, `NoGap` |
| `FeedProofs!FeedImplementsView` | `ImplementsView` | `NothingInvented`, `Together`; `Poll` and `Read` are `Show` or stutter |
| `SettingsProofs!TypeCorrect` | types | part of `Inv` |
| `SettingsProofs!SettledHolds` | `SettledIsDurable` | `RowIsKnown`, `AcceptedIsKept` |
| `SettingsProofs!SettingsNeverGoBack` | `SettingsMoveForward` | `RequestsAreNew`, `AcceptedIsKept` |
| `CommandProofs!EffectsAreSingle` | `AppliedOnce` | `RecordGuards`, `EffectIsRemembered` |
| `CommandProofs!AnswersHold` | `AnswersAreTrue` | `AnsweredFirst`, `EffectIsKept` |
| `CommandProofs!AnswersAreFinal` | `ResultsAreFinal` | `Submitted`; the scripts write only where no outcome is recorded (`Terminal`, `CanStore`) |
| `MediaProofs!LeaseProtectsFile` | `LeasedFileExists` | `Inv` |
| `MediaProofs!QuotaHolds` | `QuotaIsHard` | `QuotaInv` |
| `MediaProofs!AudioStaysExact` | `AudioIsExact` | `AudioInv` |
| `MediaProofs!LevelsStayContinuous` | `LevelsAreContinuous` | `LevelInv`, `AudioInv` |
| `TasksProofs!LeasesStayTrue` | `LeasesAreTrue` | `LifecycleInv` |
| `TasksProofs!ProcessesStayContained` | `ProcessesAreContained` | `PoolInv`, `ToolInv` |
| `TasksProofs!PlaybackStaysHonest` | `PlaybackIsHonest` | `PipelineInv` |
| `ServicesProofs!ShutdownStaysHonest` | `ShutdownIsHonest` | `ProcessInv` |
| `ServicesProofs!StreamStaysSelected` | `StreamShowsSelected` | `PageInv` |
| `ServicesProofs!PageSlipsStayKnown` | `PageSlipsAreKnown` | `PageInv`; which steps may move guild and generation |
| `ServicesProofs!ApiStaysSound` | `ApiIsSound` | `SessionInv`, `DevInv` |
| `ServicesProofs!UsersStayInCharge` | `UsersActAsMeant` | `DiscordInv`, `SessionInv` |
| `ServicesProofs!RequestsStayKept` | `RequestsAreKept` | `ResolveInv`, `DiscordInv` |
| `ServicesProofs!FindingsStayFaithful` | `FindingsAreFaithful` | `CatalogInv`, `SiteInv` |

**Player.** `Inv` is `TypeOK`, `ShapeOK` and that the adapter's `port` names a loaded
track wherever it plays one. The third part is needed because reconciliation takes
the playback state from the adapter. Every handler is a composition of a few changes
of the model, so the lemmas about those (what starting, advancing, stopping and
committing do to a coherent model) are stated once and cited by the handlers.

`PlaybackInv` relates the player's belief to the adapter. That the current track is loaded
(`CurrentIsLoaded`) is kept only if an ended playback cannot be forgotten (`EndIsReported`: its report is still among
`ends`) and no report speaks of a playback that runs (`ReportsAreTrue`); the latter needs generations that are handed
out in order, so that a report is never about one that is loaded later. Every action is shown to be one of a few kinds of
step (`KnownStep`), and each kind to keep the invariant. `TimerInv` says where the newest expiration is,
in the task's sleep or in the channel's one slot, and that what is in the slot may be older but then names another
generation; without the second part a stale expiration could not be told from the one that counts. It ends where
the counters do (`Unexhausted`), as the code refuses to arm then. `SettingsInv` adds to `SettingsReachAdapter`
that an adapter with a preset belongs to a player with one, because `Connect` hands over a preset only if there is one.

A move (`MovePlaces`) takes the track out and inserts it before the target, whose place has shifted by then if
the track stood before it. `Lands` says of each place of any queue where it goes. The property itself asks for a
queue in which no track is twice, since a target is named by its track (section 6 has the exception).

**Snapshots.** None of the properties is inductive. What is missing is the order in which things
are known: `ActorAhead` (the actor is at or above the mailbox, and what is in the gate is
above it, so the mailbox never drops an accepted snapshot), `StopsInOrder` (the gate is empty before the workers hear of
the shutdown, so nothing is accepted behind a flush), `RequestsTracked` (the worker waits for one
request at most, for its own snapshot, so an answer says what is stored), `WorkerKnows`
(what each step of the worker may conclude) and `NewestIsQueued` (while no process died, nothing
anywhere is newer than the mailbox and no other snapshot has its revision).

**Feed.** `Informed` is the heart: while a stream is open and its receiver has lost nothing, the newest
revision, or the knowledge that there may be one, is in the event queue, with the task, in the
receiver or already sent. It needs `TaskAhead` (the task brings nothing older than what the receiver
holds) when a full receiver drops its oldest, and `Together` (an open stream is a followed one) when
a new subscription decides whether to recover. `NoGap` says that frames under way are consecutive and
connect to what the browser has, `NothingInvented` that all of them were stored.

**Settings.** Four places hold settings: the row, updates under way, the worker and the mailbox.
`NothingAhead`, `PendingIsLatest` and `RequestsAreNew` order them: nothing under way to the row is newer
than what the worker has taken, nor that newer than what is pending, and an update that could still pass the
compare-and-swap is not older than the row. `RowIsKnown` says what may be concluded from having read the
row, unless an update nobody waited for landed; `AcceptedIsKept` follows the accepted settings through the
end of one actor and the factory that starts the next.

**Commands.** `AppliedOnce` is kept because a result that is recorded guards its key (`RecordGuards`),
nobody works under a key that is done (`WorksUnclaimed`), and until a crash the player remembers what it
applied (`EffectIsRemembered`); `EffectIsKept` says that between effect and record the task carries the
outcome, unless it was lost. The rest (`Submitted`, `Carried`, `AnsweredFirst`) says what the task and the
buffer hold at each step of `process_command`.

**Media.** A lease is taken in two halves and a file removed under a permit that a cancelled caller gives up
while the removal goes on. `Inv` says that a file inspected by the first half stays (`CheckedExists`), that
the janitor looks only at old files, whose ingest has ended (`OldIsSettled`), that whoever removes a file
has the only permit for it (`PermitsHeld`), and that a removal without caller is of a file with neither
lease nor unfinished ingest (`LateRemovals`). The timing assumption at the head of `ManagedMedia` enters
through `Age`.

The quota (`QuotaInv`): the account equals the bytes of the entries plus those reserved. The bytes are
counted as sets of pairs of an entry and a number, so that every step of the ledger is a fact about
cardinalities of disjoint unions and no sum over a set is needed. `ReservedWhileFetched` (a reservation
covers what its download has written) and `EntriesAreSettled` (a file is an entry only when its download has
ended, also one created late) keep one file from being charged twice when a scan meets it.

**Guild lifecycle.** `LifecycleInv`: a guild has a stage exactly while it is owned, and past its
invalidation, or once the heartbeat knows it, no former snapshot is left (`AdvertisedIsFresh`); a guild that
is not owned is known to the heartbeat only until the round under way has cleared it, and its lease is on
the list to be cleared (`AbsentIsLeaving`). The two parts need each other when a guild comes back during a
round.

**Pool and tool.** `PoolInv`: a guild with a decoder besides the one it plays holds the one overlap permit,
so decoders are mapped into slots plus one (an injection, with the library's theorems on cardinality).
`ToolInv`: the kill guard is armed in every step in which the leader or a helper can be alive.

**Pipeline.** `EventsAreTrue` follows an end from the worker's step over the track's outcome into the event
channel and the bridge: at each place it names a reason the worker can no longer belie.
`GenerationsAreFresh` (a call prepares a generation no worker has used) keeps an old report from speaking of
a new playback. `SettingsAreSent` says which change is on its way to the worker, and that a playback is
installed with all settings acknowledged until then.

**Process.** `ProcessInv`: whoever holds the operation lock is the only one under way (`LockIsHeld`), so
until the take-over every living player is registered or in that operation's hands, save one that an aborted
command left (`LivingAreKnown`). It stays one: only the operation that holds the lock can be aborted with a player
in hand, and a shard that has returned starts no other command (`Aborted` stays true). While no step of the
shutdown failed, each phase has joined what comes before it (`StoppedInOrder`, `Joined`). Together they make a
clean exit true.

**Page.** `WorkIsCurrent` says that the stream and catalog work of the page is of the selected guild, that
what was given up knows it, and that a command under way was not invalidated. All three are needed for what
a late answer may still show. The effects of a render are one lemma (`RenderInv`) that selection, logout,
retry and bootstrap share. `PageSlipsStayKnown` needs of each other
step only that it leaves guild or generation alone.

**Audio.** `AudioInv` says what a renderer holds: partition p of its history is the spectrum of the p-th last
block of music since it was born, and the open partition holds the frames so far (`HistoryIs`). So a convolution
of the ring gives exactly the products of the direct sum (`Exact`), wherever a block of the decoder ends. The
pieces of a block are a recursive function; that it exists, and what it has taken in after n frames, are
inductions over the numbers with the library's well-founded sets. That the two planes of a position are the ones
its bearing asks for is arithmetic of arcs between loudspeakers.

**Levels.** A ramp that is interrupted starts again from where it stands, and its step is a quotient of what is left.
`LevelInv`: each level is a multiple of a grain that depends only on the controls still to come (`Grain`), so the
division is exact and a ramp arrives exactly (`RampIs`). A fade begins with all of the old
renderer and ends with all of the new one, so neither the start of a fade nor the swap at its end moves a level (`FadeFollows`, `SwapFollows`). `Chained` says that
the levels heard follow one another by at most one step of the shortest ramp, and the state's own follows the last.

**Sessions.** A state that a callback took or a session was made from is spent, and spent once (`LoginInv`), so of
two callbacks with one state the second finds nothing. `RequestInv` says of each request what its pc lets one
conclude: what it was refused for stays so, because no session becomes valid again, and the minutes that a stream
outlives its session together with those until its next check make up one interval at most. `LeaseInv` says
that the leases, of all and of each user, are as many as the streams that were admitted and have not ended.

**Development backend.** `DevInv`: the snapshot holds together, a track is made only with a key that is spent
(`ReceiptInv`), so its number is new to the queue, and the guild's budget is the number of its charges
(`ChargeInv`).

**Discord.** `DiscordInv`: what a panel shows was the player's state at the panel's revision (`DrawnBefore`), so a
click that passes the comparison of revisions acts on the state that its panel shows; and where a `/play` stands
says what has become of its batch (`PlayStands`), so none is answered as queued and discarded.

**Resolver.** `ResolveInv`: permits free and held add up; each item is in one place, the tracks that came in are
those of the finished items and all of them leased, and a call without a batch holds no lease (`CallInv`). Taking them
in order gives each once because the places of the finished items are a finite set of numbers, whose sorting is
shown to be an enumeration.

**Catalog and search.** `CatalogInv`: of its collection a resolution has tracks or skips as many as it has looked at
(`WorkCounts`, where `Whole` is the source or what a lookup returned of it), and a token that was refused is older
than the next one used (`WorkTokens`), so Spotify's API makes credentials invalid only by refusing two. `SiteInv`: what is left to be tried matches and is sorted best first;
that the ranking is a total order comes from the scores being whole numbers and the listing's order breaking ties.

Only model-checked: the properties under fairness (`IdleEventuallyLeaves`, `EventuallyStored`, `ViewCatchesUp`,
`EventuallyDurable`, `EventuallyAnswered`, `WaitsEnd`, `ConvergesToOwnership`), as liveness and `ENABLED` are beyond
the provers. Every other property of a passing run is the statement of a theorem.

## 6. What the models show about the code

Checked as runs:

- **`previous` can duplicate a track** (`player_duplicate`; `actor/commands.rs:187`). When the
  track at the end of the history is also the current one, it is pushed to the front
  of the queue and started. The snapshot validation refuses such a state, so it
  cannot be published until the queue changes.
- **Settings: the last value can be left behind on shutdown** (`settings_flush`;
  `settings_worker.rs:52`). A worker with nothing pending returns on the stop signal without
  looking at its mailbox once more.
- **Media: a cancelled removal leaks capacity** (`media_ledger`; `store.rs:124`, likewise
  `janitor/scan.rs:225`). The file goes, its charge stays until a restart.

Met while modelling, not checked as runs. Player, pipeline, processes:

- A player that adopts a channel while disconnected (`voice_state.rs:22`) does not send its settings
  to the adapter. `SettingsReachAdapter` is therefore checked without that input.
- `pcm.rs` shuts the writer down (175) before it marks the natural end (99), so Songbird may
  report the end of a clean decoder first; the repeat mode is then not applied. `EndReasonIsTrue` therefore
  asks only the converse, that a natural end is reported for a clean decoder only.
- When `initialize_connection` fails, a failing disconnect is ignored (`actor/queue.rs:43`); after
  `reconcile(None)` with a failing disconnect, shutdown does not try again. A failing initialization drops the
  handle, and the actor ends by itself.
- The event bridge subscribes after the adapter is initialised
  (`production_factory.rs:193`); an end in between is not forwarded.
- Slash-command tasks outlive the gateway and can create or hold a player while `shutdown_all` runs; a `/leave`
  that is under way is not awaited; the snapshot publisher's runtime is not among the supervised tasks.
- A shard that returns aborts its dashboard commands (`guild_command_dispatcher.rs:27`,
  `command_dispatch_tests.rs:63`), also between the creation of a
  player and its entry in the registry (`registry.rs:58`). Such a player lives until its idle timer, out of the
  registry's and the shutdown's reach, and a slash command may create a second one for the guild meanwhile.
  `PlayersAccountedFor` allows this one.
- A shard that returned because a guild's task failed is joined as `Ok` (`guild_command_dispatcher.rs:136`,
  `command_worker.rs:183`): if that happens when a signal has won the select of `supervise`, or while the gateway
  stops, the process exits cleanly all the same. `CleanExitIsTrue` excepts the command worker for this.
- A preset change while a fade is in progress is refused (`PresetTransitionInProgress`); while playback is
  paused the worker's fade does not advance, so a second change while paused is refused.

Persistence and the bus:

- A write of a process that died can arrive after its successor has read the
  watermark and take the revision the new actor starts with; the actor's next
  change repairs it. `SettledIsLatest` is stated for the time before a crash.
- A timed-out settings update can be committed after a newer one was decided
  against it; the properties name the case (`landed`).
- When recording the outcome of a command fails, the command may be answered
  DeadlineExpired although it was applied, and an enqueue_media that is sent again
  with a fresh revision is applied twice; the properties name the case (`lost`).

Media and catalogs:

- A download whose deadline passes while its partial file is being opened leaves an
  empty file that no account knows; the janitor removes it.
- A media lease inspects the file before it locks the registry (`lease.rs:93`, `lease.rs:108`). Files
  are leased right after their download and removed after five minutes at the
  earliest, which is the timing assumption of `ManagedMedia`.
- One item of a batch that meets a full quota fails the whole batch.
- Of two concurrent 401 answers the second gives up the fresh token (one more issue, nothing worse). No property
  counts the tokens given up.
- The token endpoint's 400, 401 and 403 (`spotify/auth.rs:79`) and a single 401 of Apple (`apple/client.rs:239`) are
  reported as invalid credentials; the second try is Spotify's API's alone, and `RefusalIsConfirmed` speaks of it.
- An iTunes lookup that returns fewer tracks than it announced, within the limit, reports neither truncated
  nor skipped items. `CollectionIsHonest` therefore promises of a lookup what it returned.

Dashboard, Discord, API:

- After the body of a snapshot has expired the page retries in vain until the player
  publishes again; the answer to a command may show an older snapshot until the next event
  (`use-player-command.ts:86` compares neither guild nor revision).
- The bootstrap's switch to a preferred guild (`use-live-dashboard.ts:118`), or its 401, while a command is
  pending leaves the command current: its snapshot of the old guild is then installed.
- A click on the guild that is already selected (`GuildSidebar.tsx:188`) bumps the session generation and clears the
  snapshot, but no effect runs again: the open stream is muted until a retry or another guild.
- After a retry that finds the bot in no guild the last snapshot stays shown without a selection.
- Between the two snapshots of one attempt to commit, `/play` does not notice a move of the bot; voice-event
  handlers may reconcile out of order; a button's panel edit may land after the updater's newer one
  and stay until `/now`; a `/leave` that times out may still happen.
- Replays and refused commands spend the admission budget; in the development backend an enqueue after a skip
  with a non-empty queue overtakes the queue.

## 7. What is not modelled

`PROJECT.json` lists every component with its status and reason. In short: the server process, the
configuration and the components library (sequential code over text without state of its own). Inside modelled
components: playback positions, metadata and display data (no property depends on them), sample values and
the FFT's arithmetic (the convolution is symbolic), the concrete permutation of a shuffle (any),
wire formats and parsing, HTTP, DNS and URL policy of media fetching, cookies, hashing and encryption,
message layouts and the commands and buttons that have the shape of a modelled one,
fairness between guilds in the dispatcher (one guild), links and unsafe names in the
media directory, the audio processor's refusal of samples that are not finite or too loud (before any change).

## 8. Plan

Done: the modules of section 2, and a theorem for every safety property of the runs.

Next, in this order:

1. `Pipeline` as a refinement of the `ends` and `port` of `Player`, with the player's calls in place of the reduced player.
2. A second guild in the dispatcher, for the fairness of its ready queue.
