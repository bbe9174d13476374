------------------------------- MODULE Player -------------------------------
(***************************************************************************)
(* The per-guild player actor of pepeaudio-player: one task that owns the  *)
(* playback model, handles one mailbox request at a time, drives the voice *)
(* adapter (PlaybackPort) and disconnects itself after an idle period.     *)
(*                                                                         *)
(* A handler awaits the adapter, but nothing else writes the model while   *)
(* it does, so a handler is one action.  What really interleaves is kept   *)
(* apart: the idle task and the one-slot channel it sends to, the adapter  *)
(* that ends tracks on its own, and the end reports on their way back.     *)
(* A request that is rejected before any effect changes no state and is    *)
(* not an action.                                                          *)
(***************************************************************************)
EXTENDS Integers, Sequences, SequencesExt

CONSTANTS
  Tracks,            \* track identities
  Channels,          \* voice channels
  Volumes,           \* volume settings
  Presets,           \* HRIR presets
  Keys,              \* idempotency keys of command envelopes
  None,              \* Option::None
  MaxQueued,         \* PlayerConfig::max_queued_tracks
  IdempotencyWindow, \* IDEMPOTENCY_WINDOW
  MaxRevision,       \* largest StateRevision (u64::MAX in the code)
  MaxGeneration,     \* largest PlaybackGeneration (u64::MAX)
  MaxIdle,           \* largest IdleGeneration (u64::MAX)
  MaxEnds,           \* bound on end reports in flight
  MaxBatch,          \* bound on the tracks of one enqueue request
  Inputs             \* the kinds of request the environment sends

ASSUME ConstantsAssumption ==
  /\ None \notin Tracks \cup Channels \cup Presets \cup [track : Tracks, gen : Nat]
  /\ MaxQueued \in Nat \ {0}
  /\ IdempotencyWindow \in Nat \ {0}
  /\ {MaxRevision, MaxGeneration, MaxIdle, MaxEnds, MaxBatch} \subseteq Nat

ASSUME NonEmptyAssumption == Volumes # {}

(* A definition followed by another of the same parameters whose name it   *)
(* extends (PushHistoryUnbounded, PushHistory) is a faulty variant, kept   *)
(* to show that a property notices the fault; no specification uses it.    *)

VARIABLES
  player,      \* PlayerModel
  generation,  \* last playback generation handed out
  timer,       \* IdleTimer, its task, and the one-slot expiration channel
  recent,      \* recently applied idempotency keys, oldest first
  port,        \* the voice adapter as the actor's calls have left it
  ends,        \* end reports on their way to the mailbox, oldest first
  phase        \* "running", or "stopped" once the actor task has returned

vars == <<player, generation, timer, recent, port, ends, phase>>

States   == {"Disconnected", "IdleConnected", "Playing", "Paused"}
Repeats  == {"Off", "Track", "Queue"}
Reasons  == {"Natural", "WorkerFailed", "SongbirdEnded", "SongbirdError"}
Active   == [track : Tracks, gen : Nat]
Settings == [volume : Volumes, hrir : Presets \cup {None}, spatial : BOOLEAN]

Models   == [voice : Channels \cup {None}, revision : Nat, state : States,
             current : Active \cup {None}, queue : Seq(Tracks), history : Seq(Tracks),
             repeat : Repeats, shuffle : BOOLEAN, settings : Settings]
Timers   == [gen : Nat, active : BOOLEAN, task : Nat, box : Nat]
Ports    == [channel : Channels \cup {None}, track : Tracks \cup {None}, gen : Nat,
             mode : {"none", "running", "failed", "ended"}, paused : BOOLEAN,
             settings : Settings]
Reports  == [track : Tracks, gen : Nat, reason : Reasons]

\* Besides the types: the window of remembered keys never outgrows its limit.
TypeOK ==
  /\ player \in Models
  /\ generation \in Nat
  /\ timer \in Timers
  /\ recent \in Seq(Keys) /\ Len(recent) <= IdempotencyWindow
  /\ port \in Ports
  /\ ends \in Seq(Reports)
  /\ phase \in {"running", "stopped"}

-----------------------------------------------------------------------------
(* The idle timer.  Task and box hold the generation of the sleeping task  *)
(* and of the expiration waiting in the channel; 0 means there is none.    *)

Idle(p) == /\ p.voice # None
           /\ p.state = "IdleConnected"
           /\ p.current = None
           /\ p.queue = <<>>

\* Aborts the task first and then advances the generation, if it still can.
Invalidate(t) == [t EXCEPT !.task = 0, !.active = FALSE,
                           !.gen = IF @ < MaxIdle THEN @ + 1 ELSE @]

ArmWithoutTask(t) == [Invalidate(t) EXCEPT !.active = TRUE]

Arm(t) == IF t.gen < MaxIdle
          THEN [Invalidate(t) EXCEPT !.active = TRUE, !.task = t.gen + 1]
          ELSE Invalidate(t)

MarkFired(t) == [t EXCEPT !.task = 0, !.active = FALSE]

ReconcileIdleOnlyArms(was, is, t) == IF ~was /\ is THEN Arm(t) ELSE t

ReconcileIdle(was, is, t) ==
  IF ~was /\ is THEN Arm(t)
  ELSE IF was /\ ~is /\ t.active THEN Invalidate(t)
  ELSE t

-----------------------------------------------------------------------------
(* Helpers on the model.  Every change ends in FinishChange: it advances   *)
(* the revision and brings the idle timer t in line with the new model.    *)

NextRevision == player.revision < MaxRevision

FinishChangeUnrevised(p, t) ==
  /\ NextRevision
  /\ player' = p
  /\ timer' = ReconcileIdle(Idle(player), Idle(p), t)

FinishChange(p, t) ==
  /\ NextRevision
  /\ player' = [p EXCEPT !.revision = player.revision + 1]
  /\ timer' = ReconcileIdle(Idle(player), Idle(p), t)

Change(p) == FinishChange(p, timer)

PlayingUnderOldGeneration(p, track, gen) ==
  [p EXCEPT !.current = [track |-> track, gen |-> gen - 1], !.state = "Playing"]

Playing(p, track, gen) ==
  [p EXCEPT !.current = [track |-> track, gen |-> gen], !.state = "Playing"]

Cleared(p) ==
  [p EXCEPT !.voice = None, !.state = "Disconnected", !.current = None,
            !.queue = <<>>, !.history = <<>>]

PushHistoryUnbounded(history, track) == Append(history, track)

PushHistoryUntilFull(history, track) ==
  IF Len(history) = MaxQueued THEN history ELSE Append(history, track)

PushHistory(history, track) ==
  Append(IF Len(history) = MaxQueued THEN Tail(history) ELSE history, track)

ContainsTrack(p, track) ==
  \/ p.current # None /\ p.current.track = track
  \/ Contains(p.queue, track)

Position(q, track) == CHOOSE i \in DOMAIN q :
  q[i] = track /\ \A j \in 1..(i - 1) : q[j] # track

\* insert_shuffled seeds its position from the track identity: any position.
Insertions(q, added) ==
  {s \in [1..(Len(q) + Len(added)) -> ToSet(q) \cup ToSet(added)] :
     /\ SelectSeq(s, LAMBDA t : t \notin ToSet(added)) = q
     /\ ToSet(added) \subseteq ToSet(s)}

\* shuffle_queue is a Fisher-Yates pass seeded by the key: any permutation.
Shuffles(q) == {[i \in DOMAIN q |-> q[f[i]]] : f \in Bijection(DOMAIN q, DOMAIN q)}

-----------------------------------------------------------------------------
(* The adapter.  A call either fails and leaves the port alone or leaves   *)
(* it as given here.                                                       *)

PortPlay(track, gen) ==
  [port EXCEPT !.track = track, !.gen = gen, !.mode = "running", !.paused = FALSE]

PortStopped == [port EXCEPT !.track = None, !.gen = 0, !.mode = "none", !.paused = FALSE]

PortLeft == [PortStopped EXCEPT !.channel = None]

HasTrack == port.gen # 0

\* One play or seek call: a generation is spent whether or not it succeeds.
SpendGeneration == generation < MaxGeneration /\ generation' = generation + 1

PlayFails == SpendGeneration /\ UNCHANGED <<player, timer, port>>

-----------------------------------------------------------------------------
(* Requests that carry the expected revision themselves.                   *)

Running == phase = "running"

Connect(channel) ==
  LET volume == [port.settings EXCEPT !.volume = player.settings.volume]
      hrir   == IF player.settings.hrir = None THEN volume
                ELSE [volume EXCEPT !.hrir = player.settings.hrir, !.spatial = TRUE]
      all    == [hrir EXCEPT !.spatial = player.settings.spatial]
  IN /\ Running /\ player.voice = None /\ NextRevision
     /\ UNCHANGED <<generation, recent, ends, phase>>
     /\ \/ /\ port' = [port EXCEPT !.channel = channel, !.settings = all]
           /\ Change([player EXCEPT !.voice = channel, !.state = "IdleConnected"])
        \* One of the settings is refused after the join: disconnect, best effort.
        \/ /\ \E s \in {port.settings, volume, hrir} :
                port' \in {[PortLeft EXCEPT !.settings = s],
                          [port EXCEPT !.channel = channel, !.settings = s]}
           /\ UNCHANGED <<player, timer>>

EnqueueBatch(added) ==
  LET starts == player.current = None
      rest   == IF starts THEN Tail(added) ELSE added
  IN /\ Running /\ player.voice # None /\ NextRevision
     /\ Len(player.queue) + Len(rest) <= MaxQueued
     /\ IsInjective(added)
     /\ \A i \in DOMAIN added : ~ContainsTrack(player, added[i])
     /\ UNCHANGED <<recent, ends, phase>>
     /\ \E queue \in IF player.shuffle THEN Insertions(player.queue, rest)
                     ELSE {player.queue \o rest} :
          \/ /\ starts /\ SpendGeneration
             /\ port.channel # None
             /\ port' = PortPlay(Head(added), generation')
             /\ Change([Playing(player, Head(added), generation') EXCEPT !.queue = queue])
          \/ /\ ~starts
             /\ UNCHANGED <<generation, port>>
             /\ Change([player EXCEPT !.queue = queue])
          \/ starts /\ PlayFails

\* The mailbox's single-track request takes the same path with one track.
Enqueue(track) == EnqueueBatch(<<track>>)

-----------------------------------------------------------------------------
(* Commands.  Each formula is a successful execution, or one that fails    *)
(* after spending a generation; guards come from core's validation.        *)

Resume == /\ player.state = "Paused" /\ HasTrack
          /\ port' = [port EXCEPT !.paused = FALSE]
          /\ UNCHANGED generation
          /\ Change([player EXCEPT !.state = "Playing"])

Pause == /\ player.state = "Playing" /\ HasTrack
         /\ port' = [port EXCEPT !.paused = TRUE]
         /\ UNCHANGED generation
         /\ Change([player EXCEPT !.state = "Paused"])

NoChange == UNCHANGED <<player, timer, generation, port>>

Stop ==
  /\ player.state # "Disconnected"
  /\ \/ /\ player.current = None /\ player.queue = <<>> /\ player.history = <<>>
        /\ NoChange
     \/ /\ player.current # None \/ player.queue # <<>> \/ player.history # <<>>
        /\ port' = IF player.current # None THEN PortStopped ELSE port
        /\ UNCHANGED generation
        /\ Change([player EXCEPT !.current = None, !.queue = <<>>, !.history = <<>>,
                                 !.state = "IdleConnected"])

Skip ==
  LET skipped == [player EXCEPT !.history = PushHistory(@, player.current.track)]
  IN /\ player.current # None
     /\ \/ /\ player.queue # <<>> /\ SpendGeneration /\ port.channel # None
           /\ port' = PortPlay(Head(player.queue), generation')
           /\ Change([Playing(skipped, Head(player.queue), generation')
                        EXCEPT !.queue = Tail(@)])
        \/ /\ player.queue = <<>>
           /\ port' = PortStopped
           /\ UNCHANGED generation
           /\ Change([skipped EXCEPT !.current = None, !.state = "IdleConnected"])

Previous ==
  LET track == Last(player.history)
      kept  == IF Contains(player.queue, track)
               THEN RemoveAt(player.queue, Position(player.queue, track))
               ELSE player.queue
      queue == IF player.current # None THEN <<player.current.track>> \o kept ELSE kept
  IN /\ player.history # <<>>
     /\ Len(queue) <= MaxQueued
     /\ SpendGeneration /\ port.channel # None
     /\ port' = PortPlay(track, generation')
     /\ Change([Playing(player, track, generation')
                  EXCEPT !.queue = queue, !.history = Front(@)])

RemoveQueued(track) ==
  /\ Contains(player.queue, track)
  /\ UNCHANGED <<generation, port>>
  /\ Change([player EXCEPT !.queue = RemoveAt(@, Position(@, track))])

MoveTargetUnshifted(q, track, before) ==
  IF before = None THEN Len(q) ELSE Position(q, before)

\* Where a moved track goes: before another queued track, or last (None).
MoveTarget(q, track, before) ==
  IF before = None THEN Len(q)
  ELSE IF Position(q, before) > Position(q, track) THEN Position(q, before) - 1
  ELSE Position(q, before)

MoveQueued(track, before) ==
  LET source == Position(player.queue, track)
      target == MoveTarget(player.queue, track, before)
  IN /\ Contains(player.queue, track)
     /\ before # None => Contains(player.queue, before)
     /\ IF target = source THEN NoChange
        ELSE /\ UNCHANGED <<generation, port>>
             /\ Change([player EXCEPT !.queue = InsertAt(RemoveAt(@, source), target, track)])

\* Only the identity of a sought playback matters here, not its position.
Seek == /\ player.current # None /\ HasTrack
        /\ SpendGeneration /\ port.channel # None
        /\ port' = [port EXCEPT !.gen = generation', !.mode = "running"]
        /\ Change([player EXCEPT !.current.gen = generation'])

ApplySettingsWhilePlaying(mine, theirs) ==
  /\ UNCHANGED generation
  /\ port' = IF player.current # None THEN [port EXCEPT !.settings = theirs] ELSE port
  /\ Change([player EXCEPT !.settings = mine])

\* A setting reaches the adapter only while the player is connected.
ApplySettings(mine, theirs) ==
  /\ UNCHANGED generation
  /\ port' = IF player.voice # None THEN [port EXCEPT !.settings = theirs] ELSE port
  /\ Change([player EXCEPT !.settings = mine])

SetVolume(v) ==
  IF player.settings.volume = v THEN NoChange
  ELSE ApplySettings([player.settings EXCEPT !.volume = v],
                     [port.settings EXCEPT !.volume = v])

SetHrir(h) ==
  IF player.settings.hrir = h /\ player.settings.spatial THEN NoChange
  ELSE ApplySettings([player.settings EXCEPT !.hrir = h, !.spatial = TRUE],
                     [port.settings EXCEPT !.hrir = h, !.spatial = TRUE])

SetSpatial(on) ==
  IF player.settings.spatial = on THEN NoChange
  ELSE ApplySettings([player.settings EXCEPT !.spatial = on],
                     [port.settings EXCEPT !.spatial = on])

SetRepeat(r) == IF player.repeat = r THEN NoChange
                ELSE /\ UNCHANGED <<generation, port>>
                     /\ Change([player EXCEPT !.repeat = r])

SetShuffle(on) ==
  IF player.shuffle = on THEN NoChange
  ELSE /\ UNCHANGED <<generation, port>>
       /\ \E queue \in IF on THEN Shuffles(player.queue) ELSE {player.queue} :
            Change([player EXCEPT !.shuffle = on, !.queue = queue])

Disconnect == IF player.voice = None THEN NoChange
              ELSE /\ port' = PortLeft
                   /\ UNCHANGED generation
                   /\ Change(Cleared(player))

\* Success of a command, whether or not it had anything to do.
Execute ==
  \/ "play" \in Inputs /\ Resume
  \/ "pause" \in Inputs /\ Pause
  \/ "stop" \in Inputs /\ Stop
  \/ "skip" \in Inputs /\ Skip
  \/ "previous" \in Inputs /\ Previous
  \/ "remove" \in Inputs /\ \E t \in Tracks : RemoveQueued(t)
  \/ "move" \in Inputs /\ \E t \in Tracks, b \in Tracks \cup {None} : MoveQueued(t, b)
  \/ "seek" \in Inputs /\ Seek
  \/ "volume" \in Inputs /\ \E v \in Volumes : SetVolume(v)
  \/ "hrir" \in Inputs /\ \E h \in Presets : SetHrir(h)
  \/ "spatial" \in Inputs /\ \E on \in BOOLEAN : SetSpatial(on)
  \/ "repeat" \in Inputs /\ \E r \in Repeats : SetRepeat(r)
  \/ "shuffle" \in Inputs /\ \E on \in BOOLEAN : SetShuffle(on)
  \/ "disconnect" \in Inputs /\ Disconnect

\* A full window forgets its oldest key.
Remember(key) ==
  Append(IF Len(recent) = IdempotencyWindow THEN Tail(recent) ELSE recent, key)

\* The client may send a key again; while it is remembered it is only answered.
Apply(key) ==
  /\ Running /\ ~Contains(recent, key)
  /\ Execute
  /\ recent' = Remember(key)
  /\ UNCHANGED <<ends, phase>>

\* The adapter refuses a skip, a previous or a seek: the key is not remembered.
ApplyFails ==
  /\ Running /\ NextRevision
  /\ \/ "skip" \in Inputs /\ player.current # None /\ player.queue # <<>>
     \/ "previous" \in Inputs /\ player.history # <<>>
     \/ "seek" \in Inputs /\ player.current # None
  /\ PlayFails
  /\ UNCHANGED <<recent, ends, phase>>

-----------------------------------------------------------------------------
(* The end of a playback.                                                  *)

\* The adapter's track runs out, is ended by Songbird, or fails outright.
TrackEnds(reason) ==
  /\ Running /\ port.mode \in {"running", "failed"} /\ Len(ends) < MaxEnds
  /\ port.mode = "failed" => reason = "WorkerFailed"
  /\ port' = [port EXCEPT !.mode = "ended"]
  /\ ends' = Append(ends, [track |-> port.track, gen |-> port.gen, reason |-> reason])
  /\ UNCHANGED <<player, generation, timer, recent, phase>>

\* The worker reports its failure before Songbird ends the track: two reports.
WorkerFails ==
  /\ Running /\ port.mode = "running" /\ Len(ends) < MaxEnds
  /\ port' = [port EXCEPT !.mode = "failed"]
  /\ ends' = Append(ends, [track |-> port.track, gen |-> port.gen,
                           reason |-> "WorkerFailed"])
  /\ UNCHANGED <<player, generation, timer, recent, phase>>

EndsCurrentTrack(e) == player.current # None /\ player.current.track = e.track

EndsCurrent(e) ==
  /\ player.current # None
  /\ player.current = [track |-> e.track, gen |-> e.gen]

\* first_playable: the first k - 1 candidates fail, or all of them do; each
\* attempt spends a generation after g.
StartFirstPlayable(p, candidates, g) ==
  \/ \E k \in DOMAIN candidates :
       /\ g + k <= MaxGeneration /\ port.channel # None
       /\ generation' = g + k
       /\ port' = PortPlay(candidates[k], g + k)
       /\ Change([Playing(p, candidates[k], g + k)
                    EXCEPT !.queue = SubSeq(candidates, k + 1, Len(candidates))])
  \/ /\ generation' = IF g + Len(candidates) <= MaxGeneration
                      THEN g + Len(candidates) ELSE MaxGeneration
     /\ UNCHANGED port
     /\ Change([p EXCEPT !.current = None, !.queue = <<>>, !.state = "IdleConnected"])

AfterNaturalEnd(finished) ==
  LET pushed == [player EXCEPT !.history = PushHistory(@, finished)]
      replay == \/ player.repeat = "Track"
                \/ player.repeat = "Queue" /\ player.queue = <<>>
  IN \/ /\ replay /\ SpendGeneration /\ port.channel # None
        /\ port' = PortPlay(finished, generation')
        /\ Change(Playing(player, finished, generation'))
     \/ /\ replay
        /\ StartFirstPlayable(pushed, player.queue,
             IF generation < MaxGeneration THEN generation + 1 ELSE generation)
     \/ /\ ~replay
        /\ StartFirstPlayable(pushed,
             IF player.repeat = "Queue" THEN Append(player.queue, finished)
             ELSE player.queue, generation)

\* A report about anything but the current playback instance is dropped.
PlaybackEnded ==
  LET e == Head(ends)
  IN /\ Running /\ ends # <<>>
     /\ ends' = Tail(ends)
     /\ UNCHANGED <<recent, phase>>
     /\ \/ /\ ~EndsCurrent(e) \/ ~NextRevision
           /\ NoChange
        \/ /\ EndsCurrent(e) /\ e.reason = "Natural"
           /\ AfterNaturalEnd(player.current.track)
        \/ /\ EndsCurrent(e) /\ e.reason # "Natural"
           /\ StartFirstPlayable(player, player.queue, generation)

-----------------------------------------------------------------------------
(* The idle timer's task and the expirations it sends.                     *)

\* The sleeping task is due; it waits while the one-slot channel is full.
TimerFires ==
  /\ timer.task # 0 /\ timer.box = 0
  /\ timer' = [timer EXCEPT !.box = timer.task, !.task = 0]
  /\ UNCHANGED <<player, generation, recent, port, ends, phase>>

Stops == phase' = "stopped"

IdleExpired ==
  LET t == [timer EXCEPT !.box = 0]
  IN /\ Running /\ timer.box # 0
     /\ UNCHANGED <<generation, recent>>
     /\ \/ /\ timer.box # timer.gen \/ ~Idle(player)
           /\ timer' = t
           /\ UNCHANGED <<player, port, ends, phase>>
        \/ /\ timer.box = timer.gen /\ Idle(player)
           /\ \/ /\ ~NextRevision
                 /\ timer' = MarkFired(t)
                 /\ UNCHANGED <<player, port, ends, phase>>
              \/ /\ NextRevision      \* the adapter refuses to disconnect
                 /\ timer' = Arm(MarkFired(t))
                 /\ UNCHANGED <<player, port, ends, phase>>
              \/ /\ FinishChange(Cleared(player), MarkFired(t))
                 /\ port' = PortLeft
                 /\ ends' = <<>>
                 /\ Stops

-----------------------------------------------------------------------------
(* Discord moved or dropped the bot.                                       *)

ReconcileVoiceChannel(observed) ==
  /\ Running /\ player.voice # observed
  /\ UNCHANGED <<generation, recent, ends, phase>>
  /\ \/ /\ observed # None
        /\ port' = [port EXCEPT !.channel = observed]
        /\ Change([player EXCEPT !.voice = observed,
                     !.state = IF player.current = None THEN "IdleConnected" ELSE @])
     \* The join failed, or the bot is out; cleanup may itself fail.
     \/ /\ port' \in {PortLeft, port}
        /\ Change(Cleared(player))

-----------------------------------------------------------------------------
(* Shutdown on request, or because every handle is gone (closing).         *)

Shutdown(closing) ==
  LET cancelled == IF timer.active THEN Invalidate(timer) ELSE timer
      clean     == player.voice = None /\ player.state = "Disconnected"
  IN /\ Running
     /\ UNCHANGED <<generation, recent>>
     \* The disconnect fails three times: only a closed mailbox still ends the task.
     /\ \/ /\ closing /\ player.voice # None
           /\ timer' = [timer EXCEPT !.task = 0]
           /\ port' = PortStopped
           /\ UNCHANGED player
        \/ /\ port' = IF player.voice # None THEN PortLeft ELSE PortStopped
           /\ IF clean \/ ~NextRevision
              THEN timer' = [cancelled EXCEPT !.task = 0] /\ UNCHANGED player
              ELSE FinishChange(Cleared(player), cancelled)
     /\ ends' = <<>>
     /\ Stops

-----------------------------------------------------------------------------

Init ==
  /\ \E v \in Volumes :
       LET initial == [volume |-> v, hrir |-> None, spatial |-> FALSE]
       IN /\ player = [voice |-> None, revision |-> 0, state |-> "Disconnected",
                       current |-> None, queue |-> <<>>, history |-> <<>>,
                       repeat |-> "Off", shuffle |-> FALSE, settings |-> initial]
          /\ port = [channel |-> None, track |-> None, gen |-> 0, mode |-> "none",
                     paused |-> FALSE, settings |-> initial]
  /\ generation = 0
  /\ timer = [gen |-> 0, active |-> FALSE, task |-> 0, box |-> 0]
  /\ recent = <<>> /\ ends = <<>> /\ phase = "running"

\* QueueTrack::new draws a new identity for every request, so a request names
\* tracks nothing refers to; an identity that is gone may stand for a new one.
Fresh == {t \in Tracks : /\ ~ContainsTrack(player, t) /\ ~Contains(player.history, t)
                         /\ port.track # t
                         /\ \A i \in DOMAIN ends : ends[i].track # t}

Batches == {b \in UNION {[1..n -> Fresh] : n \in 1..MaxBatch} : IsInjective(b)}

Next ==
  \/ "connect" \in Inputs /\ \E c \in Channels : Connect(c)
  \/ "enqueue" \in Inputs /\ \E b \in Batches : EnqueueBatch(b)
  \/ \E k \in Keys : Apply(k)
  \/ ApplyFails
  \/ \E r \in Reasons : TrackEnds(r)
  \/ WorkerFails
  \/ PlaybackEnded
  \/ TimerFires
  \/ IdleExpired
  \/ /\ "observe" \in Inputs /\ player.voice # None
     /\ \E c \in Channels \cup {None} : ReconcileVoiceChannel(c)
  \/ /\ "join" \in Inputs /\ player.voice = None
     /\ \E c \in Channels : ReconcileVoiceChannel(c)
  \/ "shutdown" \in Inputs /\ \E closing \in BOOLEAN : Shutdown(closing)

Spec == Init /\ [][Next]_vars

\* The runtime polls both the timer task and the actor's two receivers.
FairSpec == Spec /\ WF_vars(TimerFires) /\ WF_vars(IdleExpired) /\ WF_vars(PlaybackEnded)

-----------------------------------------------------------------------------
(* Properties.                                                             *)

\* The counters have not run out: in the code they are 64 bits wide.
Unexhausted == player.revision < MaxRevision /\ timer.gen < MaxIdle

Coherent(p) ==
  /\ p.voice = None <=> p.state = "Disconnected"
  /\ p.current # None <=> p.state \in {"Playing", "Paused"}
  /\ p.current = None => p.queue = <<>>
  /\ p.voice = None => p.history = <<>>
  /\ Len(p.queue) <= MaxQueued
  /\ Len(p.history) <= MaxQueued

\* The parts of the model agree in every reachable state: disconnected means
\* no voice channel and nothing loaded, a playback state means a current track,
\* nothing waits in the queue without one, and queue and history stay within
\* the configured limit whatever mix of repeat, previous and failed starts ran.
ShapeOK == Coherent(player)

\* The expiration the actor would act on is pending.
ExpirationPending == timer.gen # 0 /\ timer.gen \in {timer.task, timer.box}

\* A running actor holds a live expiration exactly while it is idle in a
\* voice channel: no idle player is forgotten there (reconcile_idle, the re-arm
\* after a refused disconnect), and none that became busy can be disconnected
\* by an expiration armed before.
IdleTimerExact ==
  phase = "running" /\ Unexhausted => (Idle(player) <=> ExpirationPending)

\* The current track is backed by the adapter: either that very instance is
\* loaded and, paused or not, agrees with the player's state, or a report of
\* its end is on the way.  Otherwise the player would show a track that never
\* plays and never ends.
CurrentIsBacked ==
  phase = "running" /\ player.current # None /\ NextRevision =>
    \/ /\ [track |-> port.track, gen |-> port.gen] = player.current
       /\ port.mode = "running"
       /\ port.paused <=> player.state = "Paused"
    \/ \E i \in DOMAIN ends : EndsCurrent(ends[i])

\* A player that believes it is in a channel has an adapter in that channel.
VoiceBacked ==
  phase = "running" /\ player.voice # None => port.channel = player.voice

\* An end report never displaces an instance the adapter is still playing,
\* however late it arrives after skips, seeks and replays of the same track.
OnlyEndedPlaybackIsReplaced ==
  [][ Len(ends') < Len(ends) /\ phase' = "running" /\ player'.current # player.current
      => \/ port.gen # player.current.gen
         \/ port.mode # "running" ]_vars

\* A track that ends naturally stays reachable: it is playing again, queued
\* again or in the history, also when its replay and later starts fail.
NaturalEndKeepsTrack ==
  [][ Len(ends') < Len(ends) /\ phase' = "running" /\ player'.current # player.current
        /\ Head(ends).reason = "Natural"
      => LET t == player.current.track
         IN \/ ContainsTrack(player', t)
            \/ Contains(player'.history, t) ]_vars

\* Whatever a snapshot shows changes only together with the revision, by one:
\* two different states are never published under one revision.
RevisionTracksChange ==
  [][ player' # player => player'.revision = player.revision + 1 ]_vars

\* The adapter applies the settings the player shows, whatever was set before
\* the connection or refused during it.  The run leaves out "join", where the
\* actor adopts a channel it did not ask for and skips initialize_connection.
SettingsReachAdapter ==
  phase = "running" /\ player.voice # None => port.settings = player.settings

\* No track is at once current and queued, or queued twice: the snapshot
\* validation refuses such a state (DuplicateTrackId), so it cannot be published.
NoDuplicateTracks ==
  /\ IsInjective(player.queue)
  /\ player.current # None => ~Contains(player.queue, player.current.track)

\* A moved track lands directly before the track named, or last, and the order
\* of the others is kept, whichever way it moved (the off-by-one in move_queued).
MovePlacesTrack ==
  [][ \A t \in Tracks, b \in Tracks \cup {None} :
        "move" \in Inputs /\ t # b /\ IsInjective(player.queue) /\ MoveQueued(t, b) =>
          /\ IsInjective(player'.queue) /\ ToSet(player'.queue) = ToSet(player.queue)
          /\ \A x, y \in ToSet(player.queue) \ {t} :
               Position(player.queue, x) < Position(player.queue, y) =>
                 Position(player'.queue, x) < Position(player'.queue, y)
          /\ IF b = None THEN Last(player'.queue) = t
             ELSE Position(player'.queue, b) = Position(player'.queue, t) + 1 ]_vars

\* An idle player does not stay idle for ever: it is given something to do, it
\* leaves, or the adapter has refused to disconnect until the counters ran out.
IdleEventuallyLeaves ==
  Idle(player) /\ phase = "running"
    ~> ~Idle(player) \/ phase = "stopped" \/ ~Unexhausted

=============================================================================
