------------------------------- MODULE Pipeline -------------------------------
(***************************************************************************)
(* The audio pipeline of one guild (pepeaudio-pipeline) between the player *)
(* actor and Songbird, and the bridge that carries its end reports back.   *)
(*                                                                         *)
(* Each playback has a generation, a lifecycle record of atomics, a worker *)
(* task that pumps PCM from the decoder through the DSP into a bounded     *)
(* pipe, and a Songbird track that reads the pipe and fires events on a    *)
(* thread of its own.  The adapter replaces one playback by another in     *)
(* several awaits.  Every atomic access that another thread can race with  *)
(* is a step of its own.                                                   *)
(*                                                                         *)
(* The player here is what the actor needs of it: it has one call under    *)
(* way at most, and it handles a report only between calls.                *)
(***************************************************************************)
EXTENDS Integers, Sequences

CONSTANTS
  Settings,       \* values of the DSP settings: gain, preset, wet switch as one
  Initial,        \* the settings the adapter starts with
  None,
  MaxGeneration,  \* bound on the playbacks started
  PipeBlocks,     \* blocks the duplex pipe and Songbird's buffer hold
  EventCapacity,  \* PipelineConfig::event_capacity
  MaxSets         \* bound on changes of the settings

ASSUME PipelineAssumption ==
  /\ None \notin Settings /\ Initial \in Settings
  /\ {MaxGeneration, PipeBlocks, EventCapacity} \subseteq Nat \ {0} /\ MaxSets \in Nat

VARIABLES
  tracks,   \* per generation, its lifecycle, its worker and its Songbird track
  current,  \* current_generation, 0 when invalidated
  active,   \* the generation of SongbirdPlayback::active, 0 for none
  state,    \* the adapter's DspState
  call,     \* the adapter call under way
  player,   \* the actor: what it believes is playing, and the settings it holds
  events,   \* the broadcast channel and whether its receiver has lagged
  bridge,   \* the bridge task and the report it is telling
  sets      \* changes of the settings so far

vars == <<tracks, current, active, state, call, player, events, bridge, sets>>

Generations == 1..MaxGeneration
Outcomes    == {"running", "natural", "failed", "error", "ended", "manual"}
Reasons     == {"Natural", "WorkerFailed", "SongbirdEnded", "SongbirdError"}

Unused == [outcome |-> "running", cancelled |-> FALSE, emitted |-> FALSE, worker |-> "none",
           clean |-> FALSE, song |-> "none", handler |-> "none", pipe |-> 0,
           control |-> None, applied |-> None]

NoCall == [op |-> "none", pc |-> "none", gen |-> 0, old |-> 0, setting |-> None, forEnd |-> FALSE]

\* Worker tasks that can still run, and those that wait at an await.
Live(g)     == tracks[g].worker \notin {"none", "done"}
AtAwait(g)  == tracks[g].worker \in {"reading", "writing", "finishing", "flushing", "failing"}

\* The reader sees the end of the stream once pump_pcm has let go of the writer.
AtEof(g) == tracks[g].worker \in {"flushed", "failing", "reporting", "done"}

IsCurrent(g) == current = g

-----------------------------------------------------------------------------
(* The broadcast channel: the oldest event gives way, and the receiver     *)
(* learns at its next recv that it has lagged.                             *)

Emit(g, reason) ==
  LET full == Len(events.queue) = EventCapacity
  IN events' = [queue |-> Append(IF full THEN Tail(events.queue) ELSE events.queue,
                                 [gen |-> g, reason |-> reason]),
                lagged |-> events.lagged \/ full]

-----------------------------------------------------------------------------
(* The worker of generation g.  Each select is biased: cancellation first, *)
(* then a control command, then the data.                                  *)

Step(g, from, to) == /\ tracks[g].worker = from
                     /\ tracks' = [tracks EXCEPT ![g].worker = to]

WorkerOnly == UNCHANGED <<current, active, state, call, player, bridge, sets>>

Cancelled(g) ==
  /\ tracks[g].cancelled /\ tracks[g].worker \in {"reading", "writing", "finishing"}
  /\ tracks' = [tracks EXCEPT ![g].worker = "done"]
  /\ WorkerOnly /\ UNCHANGED events

\* A write that ignores its commands while the pipe is full.
ControlWhileReading(g) ==
  /\ ~tracks[g].cancelled /\ tracks[g].control # None /\ tracks[g].worker = "reading"
  /\ tracks' = [tracks EXCEPT ![g].applied = tracks[g].control, ![g].control = None]
  /\ WorkerOnly /\ UNCHANGED events

Control(g) ==
  /\ ~tracks[g].cancelled /\ tracks[g].control # None
  /\ tracks[g].worker \in {"reading", "writing"}
  /\ tracks' = [tracks EXCEPT ![g].applied = tracks[g].control, ![g].control = None]
  /\ WorkerOnly /\ UNCHANGED events

\* The decoder gives a block, is at its end, or fails; the DSP may fail too.
Read(g) ==
  /\ ~tracks[g].cancelled /\ tracks[g].control = None
  /\ \E next \in {"writing", "finishing", "failing"} : Step(g, "reading", next)
  /\ WorkerOnly /\ UNCHANGED events

\* write_processed: waits for room, fails once the reader is gone.
Write(g) ==
  /\ ~tracks[g].cancelled /\ tracks[g].control = None
  /\ tracks[g].worker = "writing"
  /\ \/ /\ tracks[g].song # "over" /\ tracks[g].pipe < PipeBlocks
        /\ tracks' = [tracks EXCEPT ![g].pipe = @ + 1, ![g].worker = "reading"]
     \/ tracks[g].song = "over" /\ Step(g, "writing", "failing")
  /\ WorkerOnly /\ UNCHANGED events

\* The exit status is ignored.
FinishUnchecked(g) ==
  /\ tracks[g].worker = "finishing" /\ ~tracks[g].cancelled
  /\ \E ok \in BOOLEAN :
       tracks' = [tracks EXCEPT ![g].worker = "flushing", ![g].clean = ok]
  /\ WorkerOnly /\ UNCHANGED events

\* decoder.finish() reaps the process: only a clean exit goes on.
Finish(g) ==
  /\ tracks[g].worker = "finishing" /\ ~tracks[g].cancelled
  /\ \E ok \in BOOLEAN :
       tracks' = [tracks EXCEPT ![g].worker = IF ok THEN "flushing" ELSE "failing",
                                ![g].clean = ok]
  /\ WorkerOnly /\ UNCHANGED events

\* writer.shutdown(): the reader may see the end before mark_natural runs.
Flush(g) == Step(g, "flushing", "flushed") /\ WorkerOnly /\ UNCHANGED events

MarkNatural(g) ==
  /\ tracks[g].worker = "flushed"
  /\ tracks' = [tracks EXCEPT ![g].worker = "done",
                              ![g].outcome = IF @ = "running" THEN "natural" ELSE @]
  /\ WorkerOnly /\ UNCHANGED events

\* decoder.shutdown() is over; a failure nobody has cancelled is claimed.
WorkerFailed(g) ==
  LET claim == ~tracks[g].cancelled /\ tracks[g].outcome = "running"
  IN /\ tracks[g].worker = "failing"
     /\ tracks' = [tracks EXCEPT ![g].worker = IF claim THEN "reporting" ELSE "done",
                                 ![g].outcome = IF claim THEN "failed" ELSE @]
     /\ WorkerOnly /\ UNCHANGED events

ReportFailure(g) ==
  /\ Step(g, "reporting", "done")
  /\ IF IsCurrent(g) THEN Emit(g, "WorkerFailed") ELSE UNCHANGED events
  /\ WorkerOnly

Worker(g) == \/ Cancelled(g) \/ Control(g) \/ Read(g) \/ Write(g) \/ Finish(g)
             \/ Flush(g) \/ MarkNatural(g) \/ WorkerFailed(g) \/ ReportFailure(g)

-----------------------------------------------------------------------------
(* The Songbird track of generation g, and its event handlers.             *)

Play(g) ==
  /\ tracks[g].song = "playing" /\ tracks[g].pipe > 0
  /\ tracks' = [tracks EXCEPT ![g].pipe = @ - 1]
  /\ WorkerOnly /\ UNCHANGED events

\* The input is read to its end, or Songbird cannot go on with it.
SongOver(g) ==
  /\ tracks[g].song = "playing"
  /\ \E first \in {"check", "error"} :
       /\ first = "check" => AtEof(g) /\ tracks[g].pipe = 0
       /\ tracks' = [tracks EXCEPT ![g].song = "over", ![g].handler = first, ![g].pipe = 0]
  /\ WorkerOnly /\ UNCHANGED events

\* songbird_error; the end event follows it.
HandleError(g) ==
  /\ tracks[g].handler = "error"
  /\ tracks' = [tracks EXCEPT ![g].handler = "check",
                              ![g].outcome = IF IsCurrent(g) /\ @ = "running" THEN "error" ELSE @]
  /\ WorkerOnly /\ UNCHANGED events

\* songbird_end, its early return.
HandleEnd(g) ==
  LET suppressed == ~IsCurrent(g) \/ tracks[g].outcome = "manual"
  IN /\ tracks[g].handler = "check"
     /\ tracks' = [tracks EXCEPT ![g].handler = IF suppressed THEN "finished" ELSE "claim",
                                 ![g].cancelled = @ \/ suppressed]
     /\ WorkerOnly /\ UNCHANGED events

ClaimEnd(g) ==
  /\ tracks[g].handler = "claim"
  /\ tracks' = [tracks EXCEPT ![g].handler = "emit",
                              ![g].outcome = IF @ = "running" THEN "ended" ELSE @]
  /\ WorkerOnly /\ UNCHANGED events

ReasonOf(outcome) == CASE outcome = "natural" -> "Natural"
                       [] outcome = "failed"  -> "WorkerFailed"
                       [] outcome = "error"   -> "SongbirdError"
                       [] OTHER               -> "SongbirdEnded"

EmitEnd(g) ==
  /\ tracks[g].handler = "emit"
  /\ IF tracks[g].emitted THEN UNCHANGED events ELSE Emit(g, ReasonOf(tracks[g].outcome))
  /\ tracks' = [tracks EXCEPT ![g].handler = "finished", ![g].emitted = TRUE,
                              ![g].cancelled = TRUE]
  /\ WorkerOnly

Handler(g) == HandleError(g) \/ HandleEnd(g) \/ ClaimEnd(g) \/ EmitEnd(g)

-----------------------------------------------------------------------------
(* The adapter's calls.                                                    *)

AcceptsControl(g) == tracks[g].outcome = "running" /\ ~tracks[g].cancelled

Call(op, pc) == [NoCall EXCEPT !.op = op, !.pc = pc]

\* begin_shutdown: mark_manual, then stop the Songbird track.
ShutDown(t) ==
  [t EXCEPT !.outcome = "manual", !.cancelled = TRUE, !.pipe = 0,
            !.handler = IF t.song = "over" THEN @ ELSE "check", !.song = "over"]

\* play_track and seek_track: the next playback is prepared beside the old one.
StartPlay(forEnd) ==
  /\ player.spent < MaxGeneration
  /\ player' = [player EXCEPT !.spent = @ + 1, !.gen = IF forEnd THEN 0 ELSE @]
  /\ call' = [Call("play", "spawn") EXCEPT !.gen = player.spent + 1, !.forEnd = forEnd]

\* Decoder and worker are started with the settings of now.
Prepare ==
  /\ call.pc = "spawn"
  /\ tracks' = [tracks EXCEPT ![call.gen] = [Unused EXCEPT !.worker = "reading",
                                                           !.applied = state]]
  /\ call' = [call EXCEPT !.pc = "replace"]
  /\ UNCHANGED <<current, active, state, player, events, bridge, sets>>

\* Resolving, spawning or building failed: the old playback goes on.
PrepareFails ==
  /\ call.pc = "spawn"
  /\ call' = NoCall
  /\ bridge' = IF call.forEnd THEN [bridge EXCEPT !.pc = "listening"] ELSE bridge
  /\ UNCHANGED <<tracks, current, active, state, player, events, sets>>

\* Publishes the new generation before it ends the old playback.
ReplaceActive ==
  /\ call.pc = "replace"
  /\ current' = call.gen
  /\ active' = 0
  /\ tracks' = IF active = 0 THEN tracks ELSE [tracks EXCEPT ![active] = ShutDown(@)]
  /\ call' = [call EXCEPT !.pc = "install", !.old = active]
  /\ UNCHANGED <<state, player, events, bridge, sets>>

StopActive ==
  /\ call.pc = "stop"
  /\ current' = IF active = 0 THEN current ELSE 0
  /\ active' = 0
  /\ tracks' = IF active = 0 THEN tracks ELSE [tracks EXCEPT ![active] = ShutDown(@)]
  /\ call' = [call EXCEPT !.pc = "stopped", !.old = active]
  /\ UNCHANGED <<state, player, events, bridge, sets>>

\* finish_worker: the wait for the old worker may time out, and aborts it.
AbortWorker ==
  /\ call.pc \in {"install", "stopped"} /\ call.old # 0 /\ AtAwait(call.old)
  /\ tracks' = [tracks EXCEPT ![call.old].worker = "done"]
  /\ UNCHANGED <<current, active, state, call, player, events, bridge, sets>>

OldFinished == call.old \notin {g \in Generations : Live(g)}

Install ==
  /\ call.pc = "install" /\ OldFinished
  /\ tracks' = [tracks EXCEPT ![call.gen].song = "playing"]
  /\ active' = call.gen
  /\ call' = NoCall
  /\ player' = [player EXCEPT !.gen = call.gen]
  /\ bridge' = IF call.forEnd THEN [bridge EXCEPT !.pc = "listening"] ELSE bridge
  /\ UNCHANGED <<current, state, events, sets>>

Stopped ==
  /\ call.pc = "stopped" /\ OldFinished
  /\ call' = NoCall
  /\ player' = [player EXCEPT !.gen = 0, !.alive = call.op # "leave"]
  /\ UNCHANGED <<tracks, current, active, state, events, bridge, sets>>

\* update_volume and its kin: the worker is asked first if it takes commands.
Send(v) ==
  IF active # 0 /\ AcceptsControl(active)
  THEN /\ tracks' = [tracks EXCEPT ![active].control = v]
       /\ call' = [Call("set", "ack") EXCEPT !.setting = v]
       /\ UNCHANGED <<state, player>>
  ELSE /\ state' = v /\ player' = [player EXCEPT !.setting = v]
       /\ UNCHANGED <<tracks, call>>

Acknowledged ==
  /\ call.pc = "ack" /\ tracks[active].control = None
  /\ state' = call.setting
  /\ player' = [player EXCEPT !.setting = call.setting]
  /\ call' = NoCall
  /\ UNCHANGED <<tracks, current, active, events, bridge, sets>>

\* WorkerClosed: the command's channel went down with pump_pcm.
Unanswered ==
  /\ call.pc = "ack" /\ tracks[active].control # None
  /\ AtEof(active)
  /\ tracks' = [tracks EXCEPT ![active].control = None]
  /\ call' = NoCall
  /\ UNCHANGED <<current, active, state, player, events, bridge, sets>>

\* disconnect_voice: Songbird drops its driver and with it the track.
RemoveCall ==
  /\ call.pc = "remove"
  /\ call' = [call EXCEPT !.pc = "stop"]
  /\ tracks' = IF active = 0 \/ tracks[active].song = "over" THEN tracks
               ELSE [tracks EXCEPT ![active].song = "over", ![active].handler = "check",
                                   ![active].pipe = 0]
  /\ UNCHANGED <<current, active, state, player, events, bridge, sets>>

RemoveFails ==
  /\ call.pc = "remove"
  /\ call' = NoCall
  /\ UNCHANGED <<tracks, current, active, state, player, events, bridge, sets>>

Adapter == \/ Prepare \/ PrepareFails \/ ReplaceActive \/ StopActive \/ AbortWorker \/ Install
           \/ Stopped \/ Acknowledged \/ Unanswered \/ RemoveCall \/ RemoveFails

-----------------------------------------------------------------------------
(* The player actor, between two calls.                                    *)

Ready == player.alive /\ call = NoCall

Skip == /\ Ready
        /\ StartPlay(FALSE)
        /\ UNCHANGED <<tracks, current, active, state, events, bridge, sets>>

Stop == /\ Ready /\ player.gen # 0
        /\ call' = Call("stop", "stop")
        /\ UNCHANGED <<tracks, current, active, state, player, events, bridge, sets>>

Set(v) == /\ Ready /\ sets < MaxSets /\ v # player.setting
          /\ Send(v)
          /\ sets' = sets + 1
          /\ UNCHANGED <<current, active, events, bridge>>

PauseOrResume ==
  /\ Ready /\ active # 0
  /\ \E s \in {"playing", "paused"} :
       /\ tracks[active].song \in {"playing", "paused"} \ {s}
       /\ tracks' = [tracks EXCEPT ![active].song = s]
  /\ UNCHANGED <<current, active, state, call, player, events, bridge, sets>>

\* Goes on with the next report after one that was refused.
TakeReportOnce ==
  /\ Ready /\ bridge.pc = "telling"
  /\ \/ bridge.report.gen = player.gen /\ StartPlay(TRUE) /\ UNCHANGED bridge
     \/ bridge' = [bridge EXCEPT !.pc = "listening"] /\ UNCHANGED <<player, call>>
  /\ UNCHANGED <<tracks, current, active, state, events, sets>>

\* playback_ended; it may be refused once the revisions are exhausted.
TakeReport ==
  /\ Ready /\ bridge.pc = "telling"
  /\ IF bridge.report.gen # player.gen
     THEN bridge' = [bridge EXCEPT !.pc = "listening"] /\ UNCHANGED <<player, call>>
     ELSE \/ StartPlay(TRUE) /\ UNCHANGED bridge
          \/ /\ player' = [player EXCEPT !.gen = 0]
             /\ bridge' = [bridge EXCEPT !.pc = "listening"] /\ UNCHANGED call
          \/ bridge' = [bridge EXCEPT !.pc = "recovering"] /\ UNCHANGED <<player, call>>
  /\ UNCHANGED <<tracks, current, active, state, events, sets>>

Player == Skip \/ Stop \/ (\E v \in Settings : Set(v)) \/ PauseOrResume

-----------------------------------------------------------------------------
(* The event bridge.                                                       *)

Receive ==
  /\ bridge.pc = "listening" /\ player.alive
  /\ ~events.lagged /\ events.queue # <<>>
  /\ bridge' = [pc |-> "telling", report |-> Head(events.queue)]
  /\ events' = [events EXCEPT !.queue = Tail(@)]
  /\ UNCHANGED <<tracks, current, active, state, call, player, sets>>

Lagged ==
  /\ bridge.pc = "listening" /\ player.alive /\ events.lagged
  /\ bridge' = [bridge EXCEPT !.pc = "recovering"]
  /\ UNCHANGED <<tracks, current, active, state, call, player, events, sets>>

\* recover_player: asks for shutdown until the actor reports a clean one.
Recover ==
  /\ Ready /\ bridge.pc = "recovering"
  /\ call' = Call("leave", "remove")
  /\ UNCHANGED <<tracks, current, active, state, player, events, bridge, sets>>

LifecycleStopped ==
  /\ ~player.alive /\ bridge.pc # "closed"
  /\ bridge' = [bridge EXCEPT !.pc = "closed"]
  /\ UNCHANGED <<tracks, current, active, state, call, player, events, sets>>

Bridge == Receive \/ Lagged \/ Recover \/ LifecycleStopped

-----------------------------------------------------------------------------
Init ==
  /\ tracks = [g \in Generations |-> Unused]
  /\ current = 0 /\ active = 0
  /\ state = Initial
  /\ call = NoCall
  /\ player = [gen |-> 0, spent |-> 0, setting |-> state, alive |-> TRUE]
  /\ events = [queue |-> <<>>, lagged |-> FALSE]
  /\ bridge = [pc |-> "listening", report |-> [gen |-> 0, reason |-> "Natural"]]
  /\ sets = 0

Next ==
  \/ \E g \in Generations : Worker(g) \/ Play(g) \/ SongOver(g) \/ Handler(g)
  \/ Adapter \/ Player \/ TakeReport \/ Bridge

\* Tasks and event handlers are scheduled, a decoder that was told to stop or
\* has reached its end exits, and Discord lets the bot leave in the end.  That
\* a track plays on or a user asks for something is not assumed.
Fairness ==
  /\ \A g \in Generations : WF_vars(Worker(g)) /\ WF_vars(Handler(g))
  /\ WF_vars(Adapter) /\ SF_vars(RemoveCall) /\ WF_vars(TakeReport) /\ WF_vars(Bridge)

Spec     == Init /\ [][Next]_vars
FairSpec == Spec /\ Fairness

-----------------------------------------------------------------------------
TypeOK ==
  /\ tracks \in [Generations ->
       [outcome : Outcomes, cancelled : BOOLEAN, emitted : BOOLEAN, clean : BOOLEAN,
        worker : {"none", "reading", "writing", "finishing", "flushing", "flushed",
                  "failing", "reporting", "done"},
        song : {"none", "playing", "paused", "over"},
        handler : {"none", "error", "check", "claim", "emit", "finished"},
        pipe : 0..PipeBlocks, control : Settings \cup {None}, applied : Settings \cup {None}]]
  /\ {current, active} \subseteq 0..MaxGeneration
  /\ state \in Settings /\ player.setting \in Settings
  /\ Len(events.queue) <= EventCapacity
  /\ bridge.pc \in {"listening", "telling", "recovering", "closed"}

\* What the bridge tells the player of a playback is what became of it: it is
\* called natural only if the decoder reached its end and exited cleanly, and
\* a failed worker only if the worker did not (songbird_end, mark_natural,
\* report_worker_failure racing for the outcome).
EndReasonIsTrue ==
  \A r \in {events.queue[i] : i \in 1..Len(events.queue)} \cup {bridge.report} :
    r.gen # 0 => /\ r.reason = "Natural" => tracks[r.gen].clean
                 /\ r.reason = "WorkerFailed" => ~tracks[r.gen].clean

\* Between two calls the player, the adapter and the worker that is still
\* running agree on the settings, however a change met the end of a playback.
WorkerHasSettings ==
  call = NoCall =>
    /\ player.setting = state
    /\ active # 0 /\ Live(active) /\ AcceptsControl(active) => tracks[active].applied = state

\* A call of the adapter comes back, even while the track is paused, its pipe
\* is full and its worker waits for room (write_processed).
CallsReturn == call # NoCall ~> call = NoCall

\* A playback whose Songbird track is over does not stay the player's current
\* one for ever: its end is reported, or the bridge has the player shut down.
EndedPlaybackIsLeft ==
  \A g \in Generations :
    (player.gen = g /\ tracks[g].song = "over") ~> (player.gen # g \/ ~player.alive)

=============================================================================
