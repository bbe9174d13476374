------------------------------ MODULE BotProcess ------------------------------
(***************************************************************************)
(* The bot process (pepeaudio-bot): one guild's entry of PlayerRegistry,   *)
(* the operations that create and remove its player, the supervision of    *)
(* the mandatory tasks and the ordered shutdown under one deadline.        *)
(*                                                                         *)
(* Guilds share only the registry's map, which is locked for a single      *)
(* step, so that one guild shows all interleavings.  A slash command or a  *)
(* gateway event runs in a task of its own that nobody joins.  A dashboard *)
(* command runs in a task of the shard that serves the guild: when that    *)
(* shard returns, of itself or on the stop signal, it aborts the task.     *)
(* The guild's shard stands for the command worker; the end of another one *)
(* shows outside as the failure of another mandatory task does.            *)
(***************************************************************************)
EXTENDS Integers, FiniteSets

CONSTANTS
  Slash,      \* operations of slash commands and gateway events
  Dashboard,  \* operations of the command worker
  NoTask,
  MaxPlayers  \* bound on the players created

ASSUME ProcessAssumption ==
  /\ MaxPlayers \in Nat
  /\ NoTask \notin Slash \cup Dashboard /\ Slash \cap Dashboard = {}

VARIABLES
  actor,      \* per player, its actor's task
  asked,      \* players with a Shutdown request in their mailbox
  registered, \* players: the guild's entry of the registry, 0 for none
  lock,       \* who holds the guild's operation lock
  tasks,      \* per operation, where it stands and the player it has in hand
  phase,      \* where production::run stands
  runtimes,   \* the supervised tasks
  cleaning,   \* the players that shutdown_all took, and what became of each
  clean,      \* every step of the shutdown has succeeded so far
  late        \* ShutdownDeadline has passed

vars == <<actor, asked, registered, lock, tasks, phase, runtimes, cleaning, clean, late>>
process == <<phase, runtimes, cleaning, clean, late>>

Tasks   == Slash \cup Dashboard
Players == 1..MaxPlayers

Ingress  == {"commands", "guild_lifecycle"}
Parallel == {"presence", "janitor", "discord_status"}
Drained  == {"snapshots", "settings"}
Runtimes == Ingress \cup Parallel \cup Drained

Idle == [pc |-> "idle", player |-> 0]

Live   == {p \in Players : actor[p] = "live"}
Unborn == {p \in Players : actor[p] = "none"}

TypeOK ==
  /\ actor \in [Players -> {"none", "live", "closing", "stopped"}]
  /\ asked \in SUBSET Players /\ registered \in Players \cup {0}
  /\ lock \in Tasks \cup {NoTask}
  /\ tasks \in [Tasks -> [pc : {"idle", "lookup", "create", "insert", "remove", "shutdown"},
                          player : Players \cup {0}]]
  /\ phase \in {"running", "gateway", "ingress", "players", "drain", "exited"}
  /\ runtimes \in [Runtimes -> {"running", "failed", "ended", "stopped", "aborted"}]
  /\ \A r \in Runtimes \ {"commands"} : runtimes[r] # "ended"
  /\ cleaning \in [Players -> {"no", "asked", "stopped", "failed"}]
  /\ clean \in BOOLEAN /\ late \in BOOLEAN

-----------------------------------------------------------------------------
(* PlayerRegistry.                                                         *)

Goto(t, pc, p) == tasks' = [tasks EXCEPT ![t] = [pc |-> pc, player |-> p]]

Finish(t) == tasks' = [tasks EXCEPT ![t] = Idle] /\ lock' = NoTask

\* Operations begin while the gateway or the guild's shard takes them.
Accepts(t) == IF t \in Slash THEN phase = "running" ELSE runtimes["commands"] = "running"

\* get_or_create or remove_and_shutdown; both wait for the operation lock.  The
\* dashboard's commands remove no player.
Begin(t) ==
  /\ tasks[t].pc = "idle" /\ Accepts(t) /\ lock = NoTask
  /\ lock' = t
  /\ \/ Goto(t, "lookup", 0)
     \/ t \in Slash /\ Goto(t, "remove", 0)
  /\ UNCHANGED <<actor, asked, registered>> /\ UNCHANGED process

\* live_player: only an actor that has stopped is replaced; one that does not
\* answer in time keeps its entry, and the operation fails with ActorBusy.
LivePlayer(t) ==
  /\ tasks[t].pc = "lookup"
  /\ IF registered \in Live THEN Finish(t) ELSE Goto(t, "create", 0) /\ UNCHANGED lock
  /\ UNCHANGED <<actor, asked, registered>> /\ UNCHANGED process

Spawn(p, state) ==
  /\ 1..(p - 1) \cap Unborn = {}
  /\ actor' = [actor EXCEPT ![p] = state]

\* The factory fails or is dropped: if an actor was spawned its last handle is
\* dropped, and it ends by itself.
Abandoned == UNCHANGED actor \/ \E p \in Unborn : Spawn(p, "closing")

\* The stopped entry is removed; the factory spawns the actor, initializes it and
\* gives a handle to its event bridge.
Create(t) ==
  /\ tasks[t].pc = "create"
  /\ registered' = 0
  /\ \/ \E p \in Unborn : Spawn(p, "live") /\ Goto(t, "insert", p) /\ UNCHANGED lock
     \/ Abandoned /\ Finish(t)
  /\ UNCHANGED asked /\ UNCHANGED process

Insert(t) ==
  /\ tasks[t].pc = "insert"
  /\ registered' = tasks[t].player
  /\ Finish(t)
  /\ UNCHANGED <<actor, asked>> /\ UNCHANGED process

Remove(t) ==
  /\ tasks[t].pc = "remove"
  /\ registered' = 0
  /\ IF registered = 0 THEN Finish(t) /\ UNCHANGED asked
     ELSE /\ Goto(t, "shutdown", registered) /\ UNCHANGED lock
          /\ asked' = IF registered \in Live THEN asked \cup {registered} ELSE asked
  /\ UNCHANGED actor /\ UNCHANGED process

\* The failed player is dropped with the task.
RemovedForgetting(t) ==
  /\ tasks[t].pc = "shutdown"
  /\ Finish(t)
  /\ UNCHANGED <<actor, asked, registered>> /\ UNCHANGED process

\* The actor has stopped, or its report or the timeout says it has not.
Removed(t) ==
  /\ tasks[t].pc = "shutdown"
  /\ registered' = IF actor[tasks[t].player] = "stopped" THEN registered ELSE tasks[t].player
  /\ Finish(t)
  /\ UNCHANGED <<actor, asked>> /\ UNCHANGED process

\* The shard has returned and dropped its GuildDispatcher with the guild's JoinSet:
\* the operation is dropped where it waits, after the poll that may be under way.
\* Between the factory and the registry the event bridge still holds the player.
Abort(t) ==
  /\ t \in Dashboard /\ tasks[t] # Idle /\ runtimes["commands"] # "running"
  /\ Finish(t)
  /\ \/ UNCHANGED <<actor, registered>>
     \/ tasks[t].pc = "create" /\ registered' = 0 /\ Abandoned
  /\ UNCHANGED asked /\ UNCHANGED process

Operation(t) == Begin(t) \/ LivePlayer(t) \/ Create(t) \/ Insert(t) \/ Remove(t) \/ Removed(t)
                \/ Abort(t)

-----------------------------------------------------------------------------
(* The actor.                                                              *)

\* The request is handled whether or not its caller still waits; a failing
\* disconnect leaves the actor running.
HandleShutdown(p) ==
  /\ p \in asked /\ actor[p] = "live"
  /\ asked' = asked \ {p}
  /\ actor' \in {actor, [actor EXCEPT ![p] = "stopped"]}
  /\ UNCHANGED <<registered, lock, tasks>> /\ UNCHANGED process

\* The idle timer, or the end of the last handle.
EndsItself(p) ==
  /\ actor[p] \in {"live", "closing"}
  /\ actor' = [actor EXCEPT ![p] = "stopped"]
  /\ asked' = asked \ {p}
  /\ UNCHANGED <<registered, lock, tasks>> /\ UNCHANGED process

-----------------------------------------------------------------------------
(* production::run.                                                        *)

registry == <<actor, asked, registered, lock, tasks>>

\* SnapshotPublisherRuntime is not among the tasks that are watched.
Supervised == Runtimes \ {"snapshots"}

\* A runtime panics, or ends before it is told to.  A shard also returns when a task
\* of one of its guilds has failed, without an error of its own (reap_finished).
Fails(r) ==
  /\ runtimes[r] = "running"
  /\ \E end \in {"failed", "ended"} :
       /\ end = "ended" => r = "commands"
       /\ runtimes' = [runtimes EXCEPT ![r] = end]
  /\ UNCHANGED <<phase, cleaning, clean, late>> /\ UNCHANGED registry

\* supervise: a signal, the end of the gateway or of a mandatory task.
StopReason ==
  /\ phase = "running"
  /\ \E reason \in {"signal", "gateway", "task"} :
       /\ reason = "task" => \E r \in Supervised : runtimes[r] \in {"failed", "ended"}
       /\ phase' = IF reason = "gateway" THEN "ingress" ELSE "gateway"
       /\ clean' = (reason = "signal")
  /\ UNCHANGED <<runtimes, cleaning, late>> /\ UNCHANGED registry

\* The shards end, with an error or without; or the deadline passes first.
GatewayDown ==
  /\ phase = "gateway" /\ phase' = "ingress"
  /\ clean' \in {FALSE, clean /\ ~late}
  /\ UNCHANGED <<runtimes, cleaning, late>> /\ UNCHANGED registry

\* run_shard returns on the signal that command_worker.shutdown gives.
WorkerStops ==
  /\ phase = "ingress" /\ runtimes["commands"] = "running"
  /\ runtimes' = [runtimes EXCEPT !["commands"] = "stopped"]
  /\ UNCHANGED <<phase, cleaning, clean, late>> /\ UNCHANGED registry

\* A runtime that had failed reports so when it is joined; of the command worker's
\* shards only one that panicked does.
Stop(group) ==
  /\ runtimes' = [r \in Runtimes |-> IF r \in group /\ runtimes[r] = "running" THEN "stopped" ELSE runtimes[r]]
  /\ clean' = (clean /\ \A r \in group : runtimes[r] # "failed")

\* command_worker.shutdown and guild_lifecycle.shutdown, then shutdown_all
\* takes every player of the registry, without the operation locks.  Nobody waits
\* for the commands that were aborted.
StopIngress ==
  /\ phase = "ingress" /\ ~late /\ runtimes["commands"] # "running"
  /\ Stop(Ingress)
  /\ phase' = "players"
  /\ cleaning' = [p \in Players |-> IF p = registered THEN "asked" ELSE "no"]
  /\ asked' = IF registered \in Live THEN asked \cup {registered} ELSE asked
  /\ registered' = 0
  /\ UNCHANGED <<late, actor, lock, tasks>>

\* shutdown_player: as in Removed, or the budget of all players is used up.
Cleaned(p) ==
  /\ phase = "players" /\ cleaning[p] = "asked"
  /\ cleaning' = [cleaning EXCEPT ![p] = IF actor[p] = "stopped" THEN "stopped" ELSE "failed"]
  /\ clean' = (clean /\ actor[p] = "stopped")
  /\ UNCHANGED <<phase, runtimes, late>> /\ UNCHANGED registry

StopPlayers ==
  /\ phase = "players" /\ ~late
  /\ \A p \in Players : cleaning[p] # "asked"
  /\ Stop(Parallel) /\ phase' = "drain"
  /\ UNCHANGED <<cleaning, late>> /\ UNCHANGED registry

\* Both publishers are drained and the database pool is closed.
Drain ==
  /\ phase = "drain" /\ ~late
  /\ Stop(Drained) /\ phase' = "exited"
  /\ UNCHANGED <<cleaning, late>> /\ UNCHANGED registry

\* The cleanup future is dropped, and with it every runtime.
Abandon ==
  /\ phase \in {"ingress", "players", "drain"} /\ late
  /\ phase' = "exited" /\ clean' = FALSE
  /\ runtimes' = [r \in Runtimes |-> IF runtimes[r] = "running" THEN "aborted" ELSE runtimes[r]]
  /\ UNCHANGED <<cleaning, late>> /\ UNCHANGED registry

Deadline ==
  /\ phase \notin {"running", "exited"} /\ ~late /\ late' = TRUE
  /\ UNCHANGED <<phase, runtimes, cleaning, clean>> /\ UNCHANGED registry

-----------------------------------------------------------------------------
Init ==
  /\ actor = [p \in Players |-> "none"] /\ asked = {} /\ registered = 0
  /\ lock = NoTask /\ tasks = [t \in Tasks |-> Idle]
  /\ phase = "running" /\ runtimes = [r \in Runtimes |-> "running"]
  /\ cleaning = [p \in Players |-> "no"] /\ clean = TRUE /\ late = FALSE

Shutdown == GatewayDown \/ WorkerStops \/ StopIngress \/ StopPlayers \/ Drain \/ Abandon

\* What has exited runs no more.
Next ==
  /\ phase # "exited"
  /\ \/ \E t \in Tasks : Operation(t)
     \/ \E p \in Players : HandleShutdown(p) \/ EndsItself(p) \/ Cleaned(p)
     \/ \E r \in Runtimes : Fails(r)
     \/ StopReason \/ Deadline \/ Shutdown

Spec == Init /\ [][Next]_vars

-----------------------------------------------------------------------------
\* A player is in the registry or in the hands of exactly one operation.
Held == {registered} \cup {tasks[t].player : t \in Tasks}

\* The guild's shard has returned and its commands are gone.
Aborted == runtimes["commands"] # "running" /\ \A t \in Dashboard : tasks[t].pc = "idle"

\* Until shutdown_all takes the players, a guild has one living actor at most
\* and the registry does not lose it: neither a shutdown that fails or times out,
\* nor an actor that ended by itself, nor any race of creations and removals
\* leaves a second one or one that nothing can stop any more.  Only a command that
\* the shard aborted may leave one, and no more than one, that nothing but its own
\* idle timer ends (get_or_create, guild_command_dispatcher).
PlayersAccountedFor ==
  phase \in {"running", "gateway", "ingress"} =>
    LET lost == IF Aborted THEN 1 ELSE 0
    IN Cardinality(Live) <= 1 + lost /\ Cardinality(Live \ Held) <= lost

\* A process that exits without an error has joined its runtimes in order and
\* stopped every player it took over from the registry.  The guild's shard alone
\* may have ended before it was told to.
CleanExitIsTrue ==
  phase = "exited" /\ clean =>
    /\ \A p \in Players : cleaning[p] # "no" => actor[p] = "stopped"
    /\ \A r \in Runtimes \ {"commands"} : runtimes[r] = "stopped"
    /\ runtimes["commands"] \in {"stopped", "ended"}

=============================================================================
