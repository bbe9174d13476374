------------------------------ MODULE DevBackend ------------------------------
(***************************************************************************)
(* InMemoryPlayerBackend (pepeaudio-api, dev): the single-process backend  *)
(* that the API runs against without a bot.  It admits, deduplicates,      *)
(* validates and applies a command under one lock, by the rules of         *)
(* pepeaudio-core that the bot applies to its snapshots as well.           *)
(***************************************************************************)
EXTENDS Integers, FiniteSets, Sequences, Functions

CONSTANTS
  Actors,
  MaxKeys,     \* bound on the idempotency keys used, 1, 2, ...
  NoTrack,
  ActorLimit, GuildLimit,  \* PlayerCommandRateLimit::STANDARD
  MaxWindows   \* bound on the rate-limit windows that begin

VARIABLES
  snapshot,  \* the guild's PlayerSnapshot; its tracks are numbers
  receipts,  \* per idempotency key, the command it was used for and its revision
  actors,    \* per_actor: what each actor was admitted in this window
  guild,     \* per_guild: the same for the guild
  windows,   \* windows begun so far
  event,     \* the revision of the last event that was sent
  tracks     \* tracks made so far

vars == <<snapshot, receipts, actors, guild, windows, event, tracks>>

States == {"Disconnected", "IdleConnected", "Loading", "Playing", "Paused"}

\* At most one track per key can be made.
Tracks == 1..MaxKeys

\* The settings are one command: they change no part of the state modelled.
Simple   == {"Play", "Pause", "Stop", "Skip", "Previous", "Seek", "Set", "Disconnect", "EnqueueMedia"}
PlayerCommands == [type : Simple] \cup [type : {"RemoveQueued"}, track : Tracks]
            \cup [type : {"MoveQueued"}, track : Tracks, before : Tracks \cup {NoTrack}]

TypeOK ==
  /\ snapshot.state \in States /\ snapshot.revision \in Nat
  /\ snapshot.current \in Tracks \cup {NoTrack} /\ snapshot.upcoming \in Seq(Tracks)
  /\ actors \in [Actors -> 0..ActorLimit] /\ guild \in 0..GuildLimit

-----------------------------------------------------------------------------
(* CommandAdmission::admit.                                                *)

\* The commands that were charged: each of an actor's first, second, ... in its window.
Charges == {c \in Actors \X (1..ActorLimit) : c[2] <= actors[c[1]]}

Admitted(a) == actors[a] < ActorLimit /\ guild < GuildLimit

\* Both budgets are charged, or none.
Count(a) ==
  /\ actors' = IF Admitted(a) THEN [actors EXCEPT ![a] = @ + 1] ELSE actors
  /\ guild' = IF Admitted(a) THEN guild + 1 ELSE guild

\* Windows begin at multiples of their length: all counters end together.
NextWindow ==
  /\ windows < MaxWindows
  /\ windows' = windows + 1
  /\ actors' = [a \in Actors |-> 0] /\ guild' = 0
  /\ UNCHANGED <<snapshot, receipts, event, tracks>>

-----------------------------------------------------------------------------
(* PlayerCommand::validate_against and player_commands::apply.             *)

Queued(t) == t \in Range(snapshot.upcoming)

\* Whether a seek target is inside a track is a property of the data.
ValidCommand(c) ==
  CASE c.type = "Play"             -> snapshot.state = "Paused"
    [] c.type = "Pause"            -> snapshot.state = "Playing"
    [] c.type = "Stop"             -> snapshot.state # "Disconnected"
    [] c.type \in {"Skip", "Seek"} -> snapshot.current # NoTrack
    [] c.type = "Previous"         -> snapshot.previous
    [] c.type = "RemoveQueued"     -> Queued(c.track)
    [] c.type = "MoveQueued"       -> Queued(c.track) /\ (c.before = NoTrack \/ Queued(c.before))
    [] OTHER                       -> TRUE

\* Iterator::position, Vec::remove and Vec::insert.  No track is listed twice,
\* so that retain and remove take the one they find.
Place(queue, t) == CHOOSE n \in DOMAIN queue : queue[n] = t
Without(queue, t) == LET n == Place(queue, t)
                     IN SubSeq(queue, 1, n - 1) \o SubSeq(queue, n + 1, Len(queue))
Inserted(queue, n, t) == SubSeq(queue, 1, n - 1) \o <<t>> \o SubSeq(queue, n, Len(queue))

Moved(queue, t, before) ==
  LET rest == Without(queue, t)
      at   == IF before \in Range(rest) THEN Place(rest, before) ELSE Len(rest) + 1
  IN IF before = t THEN queue ELSE Inserted(rest, at, t)

Cleared(state) == [snapshot EXCEPT !.state = state, !.current = NoTrack, !.upcoming = <<>>,
                                   !.previous = FALSE]

Applied(c) ==
  CASE c.type = "EnqueueMedia" ->
         IF snapshot.current = NoTrack
         THEN [snapshot EXCEPT !.current = tracks + 1, !.state = "Playing"]
         ELSE [snapshot EXCEPT !.upcoming = Append(@, tracks + 1)]
    [] c.type = "Play"       -> [snapshot EXCEPT !.state = "Playing"]
    [] c.type = "Pause"      -> [snapshot EXCEPT !.state = "Paused"]
    [] c.type = "Stop"       -> Cleared("IdleConnected")
    [] c.type = "Disconnect" -> Cleared("Disconnected")
    [] c.type \in {"Skip", "Previous"} ->
         [snapshot EXCEPT !.current = NoTrack, !.state = "Loading",
                          !.upcoming = IF @ = <<>> THEN @ ELSE Tail(@)]
    [] c.type = "RemoveQueued" -> [snapshot EXCEPT !.upcoming = Without(@, c.track)]
    [] c.type = "MoveQueued"   -> [snapshot EXCEPT !.upcoming = Moved(@, c.track, c.before)]
    [] OTHER -> snapshot

-----------------------------------------------------------------------------
\* The command a key is used for again is not applied again, and a key that is
\* new must fit the snapshot: replays, conflicts and rejections change nothing.
Fresh(k) == k > Len(receipts)

\* CommandRouter::route, from the admission to the event.
Route(a, k, expected, c) ==
  LET next    == Applied(c)
      changed == c.type # "MoveQueued" \/ next # snapshot
  IN /\ Count(a)
     /\ IF Admitted(a) /\ Fresh(k) /\ expected = snapshot.revision /\ ValidCommand(c)
        THEN /\ snapshot' = [next EXCEPT !.revision = IF changed THEN @ + 1 ELSE @]
             /\ receipts' = Append(receipts, [type |-> c.type, revision |-> snapshot'.revision])
             /\ event' = IF changed THEN snapshot'.revision ELSE event
             /\ tracks' = IF c.type = "EnqueueMedia" THEN tracks + 1 ELSE tracks
        ELSE UNCHANGED <<snapshot, receipts, event, tracks>>
     /\ UNCHANGED windows

Init ==
  /\ snapshot = [state |-> "IdleConnected", current |-> NoTrack, upcoming |-> <<>>,
                 previous |-> FALSE, revision |-> 0]
  /\ receipts = <<>>
  /\ actors = [a \in Actors |-> 0] /\ guild = 0 /\ windows = 0
  /\ event = 0 /\ tracks = 0

Next == \/ NextWindow
        \/ \E a \in Actors, k \in 1..MaxKeys \cap {1, Len(receipts) + 1}, c \in PlayerCommands,
                e \in {0, snapshot.revision} :
             Route(a, k, e, c)

Spec == Init /\ [][Next]_vars

-----------------------------------------------------------------------------
\* What the page is shown holds together after any sequence of commands: a
\* track plays or is paused exactly if there is one, no track is listed twice,
\* the last event told the revision there is, and no two commands that changed
\* something claim the same revision.
SnapshotIsSound ==
  /\ snapshot.state \in {"Playing", "Paused"} <=> snapshot.current # NoTrack
  /\ IsInjective(snapshot.upcoming) /\ ~Queued(snapshot.current)
  /\ event = snapshot.revision
  /\ \A j, k \in DOMAIN receipts :
       j < k /\ receipts[k].type # "MoveQueued" => receipts[j].revision < receipts[k].revision

\* A rejected command costs nobody anything: what the guild was charged is what
\* its actors were (guild_rejection_does_not_create_an_actor_window).
AdmissionIsExact == guild = Cardinality(Charges)

=============================================================================
