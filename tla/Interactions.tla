----------------------------- MODULE Interactions -----------------------------
(***************************************************************************)
(* What Discord users do to a guild's player (pepeaudio-bot): /play, /stop *)
(* and /leave, the buttons of the now-playing panel, and the voice events  *)
(* of the gateway.  Each runs in a task of its own: between its reads of   *)
(* the gateway's cache and of the player's snapshot and its change of the  *)
(* player, the other tasks, the dashboard and Discord do what they like.   *)
(*                                                                         *)
(* The player is reduced to what these tasks read and change: its life,    *)
(* its channel, its state and its revision.  Module Player has the rest.   *)
(***************************************************************************)
EXTENDS Integers, FiniteSets

CONSTANTS
  Channels, NoChannel,
  Plays, Commands, Clicks,  \* tasks: /play; /stop and /leave; panel buttons
  MaxAttempts,              \* MAX_COMMIT_ATTEMPTS
  MaxRevision,              \* bound on the revisions
  MaxVoice                  \* bound on the voice events

VARIABLES
  facts,    \* the gateway's cache: the actor's and the bot's channels, the actor's rights
  player,   \* the registered player; its number tells a new one from an old handle
  watermark,\* the newest revision any player of the guild has published
  panel,    \* the now-playing panel: the revision and the state it shows
  voice,    \* voice events of the bot whose handlers have not come to the player
  moves,    \* voice events so far
  tasks,    \* per task, where it stands and what it has read
  media     \* per /play, its resolved batch

vars == <<facts, player, watermark, panel, voice, moves, tasks, media>>

Tasks  == Plays \cup Commands \cup Clicks
Places == Channels \cup {NoChannel}

\* What the member's roles and the guild's policy come to.
Rights == {"privileged", "allowed", "denied"}

Panel == [revision : 0..MaxRevision, state : {"Idle", "Playing", "Paused"}]
Shown == [revision |-> player.revision, state |-> player.state]

Start == [pc |-> "start", kind |-> "play", id |-> 0, revision |-> 0, channel |-> NoChannel,
          attempt |-> 0, panel |-> [revision |-> 0, state |-> "Idle"], told |-> "nothing"]

TypeOK ==
  /\ facts \in [actor : Places, bot : Places, rights : Rights]
  /\ player \in [id : Nat, alive : BOOLEAN, channel : Places, state : {"Idle", "Playing", "Paused"},
                 revision : 0..MaxRevision]
  /\ panel \in Panel /\ voice \subseteq Places
  /\ \A t \in Tasks : tasks[t].told \in {"nothing", "applied", "failed"}
  /\ media \in [Plays -> [batch : {"none", "held", "discarded", "queued"}, enqueued : Nat]]

-----------------------------------------------------------------------------
(* voice_facts, guild_policy and permissions.                              *)

AllowsControl == facts.rights # "denied"

ActorInVoice == facts.actor # NoChannel /\ facts.bot \in {NoChannel, facts.actor}

SameVoiceChannel == facts.actor # NoChannel /\ facts.bot = facts.actor

PrivilegedSameVoiceChannel == SameVoiceChannel /\ facts.rights = "privileged"

AuthorizePlay == AllowsControl /\ ActorInVoice

-----------------------------------------------------------------------------
(* The player, from the outside.                                           *)

Usable(id) == player.alive /\ player.id = id

CanChange == player.revision < MaxRevision

\* A change of the player and its publication.
Change(p) ==
  /\ CanChange
  /\ player' = [p EXCEPT !.revision = player.revision + 1]
  /\ watermark' = player.revision + 1

Unchanged == UNCHANGED <<player, watermark>>

\* The factory gives a new player the revision after the newest published one.
ResumeRevision == watermark + 1

Created == [id |-> player.id + 1, alive |-> TRUE, channel |-> NoChannel, state |-> "Idle",
            revision |-> ResumeRevision]

\* The dashboard, the end of a track, the idle timer.
Other ==
  /\ player.alive
  /\ \/ player.channel # NoChannel /\ \E s \in {"Idle", "Playing", "Paused"} : Change([player EXCEPT !.state = s])
     \/ player' = [player EXCEPT !.alive = FALSE] /\ UNCHANGED watermark
  /\ UNCHANGED <<facts, panel, voice, moves, tasks, media>>

-----------------------------------------------------------------------------
(* The gateway.                                                            *)

UserChanges ==
  /\ facts' \in {[facts EXCEPT !.actor = c] : c \in Places} \cup {[facts EXCEPT !.rights = r] : r \in Rights}
  /\ UNCHANGED <<player, watermark, panel, voice, moves, tasks, media>>

\* The cache follows the events in order; each event's handler is a task.
BotMoves ==
  /\ moves < MaxVoice /\ moves' = moves + 1
  /\ \E c \in Places \ {facts.bot} :
       facts' = [facts EXCEPT !.bot = c] /\ voice' = voice \cup {c}
  /\ UNCHANGED <<player, watermark, panel, tasks, media>>

\* reconcile_bot_voice_channel; without a live player there is nothing to do.
Reconcile(c) ==
  /\ c \in voice /\ voice' = voice \ {c}
  /\ IF player.alive /\ player.channel # c
     THEN Change([player EXCEPT !.channel = c, !.state = IF c = NoChannel THEN "Idle" ELSE @])
     ELSE Unchanged
  /\ UNCHANGED <<facts, panel, moves, tasks, media>>

-----------------------------------------------------------------------------
(* What the tasks share.                                                   *)

At(t, pc) == tasks[t].pc = pc

Goto(t, pc) == tasks' = [tasks EXCEPT ![t].pc = pc]

Answer(t, told) == tasks' = [tasks EXCEPT ![t] = [Start EXCEPT !.pc = "done", !.told = told]]

\* PlayerRegistry::get and PlayerHandle::snapshot.
Read(t, then) == tasks' = [tasks EXCEPT ![t].pc = then, ![t].id = player.id,
                                        ![t].revision = player.revision, ![t].channel = player.channel]

Quiet == UNCHANGED <<facts, voice, moves>>

-----------------------------------------------------------------------------
(* /play.                                                                  *)

Play(t) ==
  /\ At(t, "start")
  /\ IF AuthorizePlay THEN Goto(t, "player") ELSE Answer(t, "failed")
  /\ Unchanged /\ Quiet /\ UNCHANGED <<panel, media>>

\* authorized_player: the voice context is read again before a player is made.
AuthorizedPlayer(t) ==
  /\ At(t, "player") /\ (player.alive \/ watermark < MaxRevision)
  /\ IF ~AuthorizePlay THEN Answer(t, "failed") /\ Unchanged
     ELSE LET p == IF player.alive THEN player ELSE Created
          IN /\ player' = p /\ watermark' = p.revision
             /\ tasks' = [tasks EXCEPT ![t].pc = "resolve", ![t].id = p.id]
  /\ Quiet /\ UNCHANGED <<panel, media>>

\* Up to five minutes; resolve_input, resolve_attachment.
Resolve(t) ==
  /\ At(t, "resolve")
  /\ \/ media' = [media EXCEPT ![t].batch = "held"] /\ Goto(t, "commit")
     \/ UNCHANGED media /\ Answer(t, "failed")
  /\ Unchanged /\ Quiet /\ UNCHANGED panel

Discard(t) == media' = [media EXCEPT ![t].batch = "discarded"] /\ Answer(t, "failed")

\* commit_resolved_tracks: every attempt authorizes anew and compares the
\* channels of the player, of the bot and of the actor.
Commit(t) ==
  /\ At(t, "commit")
  /\ IF /\ AuthorizePlay /\ Usable(tasks[t].id)
        /\ \/ player.channel = NoChannel /\ facts.bot = NoChannel
           \/ player.channel = facts.actor /\ facts.bot = facts.actor
     THEN /\ tasks' = [tasks EXCEPT ![t].pc = IF player.channel = NoChannel THEN "connect" ELSE "reread",
                                    ![t].revision = player.revision, ![t].channel = facts.actor]
          /\ UNCHANGED media
     ELSE Discard(t)
  /\ Unchanged /\ Quiet /\ UNCHANGED panel

\* retry_revision_conflicts: only a conflict is tried again.
RetryOrDiscard(t) ==
  IF Usable(tasks[t].id) /\ tasks[t].attempt + 1 < MaxAttempts
  THEN tasks' = [tasks EXCEPT ![t].pc = "commit", ![t].attempt = @ + 1] /\ UNCHANGED media
  ELSE Discard(t)

Connect(t) ==
  /\ At(t, "connect") /\ CanChange
  /\ IF Usable(tasks[t].id) /\ player.revision = tasks[t].revision
     THEN \/ /\ Change([player EXCEPT !.channel = tasks[t].channel])
             /\ Goto(t, "reread") /\ UNCHANGED media
          \/ Discard(t) /\ Unchanged
     ELSE RetryOrDiscard(t) /\ Unchanged
  /\ Quiet /\ UNCHANGED panel

Reread(t) ==
  /\ At(t, "reread")
  /\ IF Usable(tasks[t].id) THEN Read(t, "enqueue") /\ UNCHANGED media ELSE Discard(t)
  /\ Unchanged /\ Quiet /\ UNCHANGED panel

\* Every error is a conflict to be tried again.
EnqueueAgain(t) ==
  /\ At(t, "enqueue") /\ CanChange
  /\ \/ /\ Change([player EXCEPT !.state = "Playing"])
        /\ media' = [media EXCEPT ![t] = [batch |-> "queued", enqueued |-> @.enqueued + 1]]
        /\ Goto(t, "commit")
     \/ RetryOrDiscard(t) /\ Unchanged
  /\ Quiet /\ UNCHANGED panel

\* enqueue_batch: all of the batch or nothing; from here the player owns it.
Enqueue(t) ==
  /\ At(t, "enqueue") /\ CanChange
  /\ IF Usable(tasks[t].id) /\ player.revision = tasks[t].revision
     THEN \/ /\ player.channel # NoChannel
             /\ Change([player EXCEPT !.state = IF @ = "Idle" THEN "Playing" ELSE @])
             /\ media' = [media EXCEPT ![t] = [batch |-> "queued", enqueued |-> @.enqueued + 1]]
             /\ Goto(t, "reply")
          \/ Discard(t) /\ Unchanged
     ELSE RetryOrDiscard(t) /\ Unchanged
  /\ Quiet /\ UNCHANGED panel

\* AppliedResponseError keeps a lost reply apart from a failed command.
Reply(t) ==
  /\ At(t, "reply")
  /\ Answer(t, "applied")
  /\ Unchanged /\ Quiet /\ UNCHANGED <<panel, media>>

-----------------------------------------------------------------------------
(* /stop and /leave.                                                       *)

Command(t, kind) ==
  /\ At(t, "start")
  /\ IF PrivilegedSameVoiceChannel /\ player.alive /\ player.channel = facts.actor
     THEN tasks' = [tasks EXCEPT ![t].pc = "apply", ![t].kind = kind, ![t].id = player.id,
                                 ![t].revision = player.revision]
     ELSE Answer(t, "failed")
  /\ Unchanged /\ Quiet /\ UNCHANGED <<panel, media>>

ApplyStop(t) ==
  /\ At(t, "apply") /\ tasks[t].kind = "stop" /\ CanChange
  /\ IF Usable(tasks[t].id) /\ player.revision = tasks[t].revision
     THEN Change([player EXCEPT !.state = "Idle"]) /\ Goto(t, "reply")
     ELSE Answer(t, "failed") /\ Unchanged
  /\ Quiet /\ UNCHANGED <<panel, media>>

\* remove_and_shutdown names the guild: it takes the player there is.
Leave(t) ==
  /\ At(t, "apply") /\ tasks[t].kind = "leave"
  /\ IF player.alive THEN player' = [player EXCEPT !.alive = FALSE] /\ Goto(t, "reply")
     ELSE UNCHANGED player /\ Answer(t, "failed")
  /\ Quiet /\ UNCHANGED <<watermark, panel, media>>

-----------------------------------------------------------------------------
(* The panel.                                                              *)

\* /now, and every edit of the panel by its updater.
Render ==
  /\ player.alive
  /\ panel' = Shown
  /\ Unchanged /\ Quiet /\ UNCHANGED <<tasks, media>>

\* Acts on the player there is, whatever state the panel was drawn from.
MapInteractionLoosely(t) == tasks[t].panel.revision <= player.revision

\* map_interaction: the panel's revision is the snapshot's.
MapInteraction(t) == tasks[t].panel.revision = player.revision

\* The user presses a button of the panel as it is now; the event takes a while.
Press(t, kind) ==
  /\ At(t, "start")
  /\ tasks' = [tasks EXCEPT ![t].pc = "pressed", ![t].kind = kind, ![t].panel = panel]
  /\ Unchanged /\ Quiet /\ UNCHANGED <<panel, media>>

\* event_handler, apply_component up to the snapshot.
Click(t) ==
  /\ At(t, "pressed")
  /\ IF player.alive /\ MapInteraction(t) THEN Read(t, "authorize") ELSE Answer(t, "failed")
  /\ Unchanged /\ Quiet /\ UNCHANGED <<panel, media>>

AuthorizeClick(t) ==
  /\ At(t, "authorize")
  /\ IF /\ tasks[t].channel = facts.actor
        /\ IF tasks[t].kind = "stop" THEN PrivilegedSameVoiceChannel ELSE SameVoiceChannel /\ AllowsControl
     THEN Goto(t, "apply") ELSE Answer(t, "failed")
  /\ Unchanged /\ Quiet /\ UNCHANGED <<panel, media>>

\* map_action turns the button into the opposite of what the panel shows; the
\* panel is edited with the outcome, and a failure to edit it is reported.
ApplyClick(t) ==
  /\ At(t, "apply") /\ CanChange
  /\ IF Usable(tasks[t].id) /\ player.revision = tasks[t].revision
        /\ (tasks[t].kind = "stop" \/ player.state # "Idle")
     THEN /\ Change([player EXCEPT !.state = IF tasks[t].kind = "stop" THEN "Idle"
                                             ELSE IF @ = "Playing" THEN "Paused" ELSE "Playing"])
          /\ panel' \in {panel, [revision |-> player'.revision, state |-> player'.state]}
          /\ Answer(t, "applied")
     ELSE Answer(t, "failed") /\ UNCHANGED <<player, watermark, panel>>
  /\ Quiet /\ UNCHANGED media

-----------------------------------------------------------------------------
Init ==
  /\ facts = [actor |-> NoChannel, bot |-> NoChannel, rights |-> "privileged"]
  /\ player = [id |-> 0, alive |-> FALSE, channel |-> NoChannel, state |-> "Idle", revision |-> 0]
  /\ watermark = 0 /\ panel = [revision |-> 0, state |-> "Idle"] /\ voice = {} /\ moves = 0
  /\ tasks = [t \in Tasks |-> Start]
  /\ media = [t \in Plays |-> [batch |-> "none", enqueued |-> 0]]

Next ==
  \/ Other \/ UserChanges \/ BotMoves \/ Render \/ \E c \in Places : Reconcile(c)
  \/ \E t \in Plays : \/ Play(t) \/ AuthorizedPlayer(t) \/ Resolve(t) \/ Commit(t) \/ Connect(t)
                      \/ Reread(t) \/ Enqueue(t)
  \/ \E t \in Commands : ApplyStop(t) \/ Leave(t) \/ \E k \in {"stop", "leave"} : Command(t, k)
  \/ \E t \in Clicks : \/ Click(t) \/ AuthorizeClick(t) \/ ApplyClick(t)
                       \/ \E k \in {"toggle", "stop"} : Press(t, k)
  \/ \E t \in Plays \cup Commands : Reply(t)

Spec == Init /\ [][Next]_vars

-----------------------------------------------------------------------------
\* Whatever conflicts, retries and lost replies a /play meets: its batch is
\* queued once at most, its files are deleted only if the player never got them,
\* and the user is told of a failure only if nothing was queued.
QueuedIsKept ==
  \A t \in Plays :
    /\ media[t].enqueued <= 1
    /\ media[t].batch = "discarded" => media[t].enqueued = 0
    /\ tasks[t].told = "failed" => media[t].batch \in {"none", "discarded"}
    /\ tasks[t].told = "applied" => media[t].batch = "queued"

\* A button does what it says on the panel it was pressed on: of the state that
\* panel shows, in the player that showed it, even if the panel is old, the
\* player was recreated since, or another change comes between.
ActsOnPanel(t) ==
  tasks[t].told # "applied" /\ tasks'[t].told = "applied" => player.state = tasks[t].panel.state

=============================================================================
