-------------------------------- MODULE MCTasks --------------------------------
(***************************************************************************)
(* Model checking of what the bot's tasks do in the background: the audio  *)
(* pipeline of a guild, the pool of decoder processes, a run of an         *)
(* external tool, and the guild lifecycle.  They share no state, so that   *)
(* no interleaving of one with another says anything new: `part' chooses   *)
(* in the initial state which one runs; the others stay as they start.     *)
(***************************************************************************)
EXTENDS Pipeline, FiniteSets

CONSTANTS Guilds, NoGuild, MaxProcesses,       \* DecoderPool
          Members, Shards, Delays, MaxChanges   \* GuildLifecycle

ASSUME TasksAssumption ==
  /\ IsFiniteSet(Guilds) /\ NoGuild \notin Guilds
  /\ {MaxProcesses, Delays, MaxChanges} \subseteq Nat

VARIABLES part,
          adapter, playing, next, replacement,            \* DecoderPool
          pc, leader, helper, readers, armed, late, result, \* ToolProcess
          owned, stage, absence, round, present, beat,    \* GuildLifecycle
          leases, cached, running, changes

poolVars == <<adapter, playing, next, replacement>>
toolVars == <<pc, leader, helper, readers, armed, late, result>>
lifecycleVars == <<owned, stage, absence, round, present, beat, leases, cached, running, changes>>

Pool == INSTANCE DecoderPool WITH active <- playing
Tool == INSTANCE ToolProcess
Lifecycle == INSTANCE GuildLifecycle WITH Guilds <- Members

allVars == <<vars, part, poolVars, toolVars, lifecycleVars>>

On(p) == part = p

MCInit ==
  /\ part \in {"pipeline", "pool", "tool", "lifecycle"}
  /\ Init /\ Pool!Init /\ Tool!Init /\ Lifecycle!Init
  /\ On("lifecycle") \/ cached = {}

MCNext ==
  /\ UNCHANGED part
  /\ \/ On("pipeline")  /\ Next           /\ UNCHANGED <<poolVars, toolVars, lifecycleVars>>
     \/ On("pool")      /\ Pool!Next      /\ UNCHANGED <<vars, toolVars, lifecycleVars>>
     \/ On("tool")      /\ Tool!Next      /\ UNCHANGED <<vars, poolVars, lifecycleVars>>
     \/ On("lifecycle") /\ Lifecycle!Next /\ UNCHANGED <<vars, poolVars, toolVars>>

\* The fairness of the part that runs.
MCFairness ==
  /\ \A g \in Generations : WF_vars(On("pipeline") /\ Worker(g)) /\ WF_vars(On("pipeline") /\ Handler(g))
  /\ WF_vars(On("pipeline") /\ Adapter) /\ SF_vars(On("pipeline") /\ RemoveCall)
  /\ WF_vars(On("pipeline") /\ TakeReport) /\ WF_vars(On("pipeline") /\ Bridge)
  /\ WF_lifecycleVars(On("lifecycle") /\ Lifecycle!Rounds)
  /\ WF_lifecycleVars(On("lifecycle") /\ Lifecycle!Tick)
  /\ <>[][~(On("lifecycle") /\ Lifecycle!RoundFails)]_lifecycleVars
  /\ WF_toolVars(On("tool") /\ Tool!Runner) /\ WF_toolVars(On("tool") /\ Tool!Deadline)

MCSpec == MCInit /\ [][MCNext]_allVars /\ MCFairness

\* A playback tells the truth of itself: the reason of its end, and settings that
\* its worker has (TrackLifecycle, SongbirdPlayback).
PlaybackIsHonest == TypeOK /\ EndReasonIsTrue /\ WorkerHasSettings

\* However many guilds skip at once, one decoder more than the pool allows runs
\* at most (FfmpegDecoderFactory's two semaphores); and nothing of a tool's
\* process group is alive once its run is over (RealProcessRunner::run).
ProcessesAreContained ==
  /\ Pool!TypeOK /\ Pool!DecodersBounded
  /\ Tool!TypeOK /\ Tool!NoOrphans

\* Nothing waits for ever: an adapter call returns, a player leaves a playback that
\* ended, although its report may be lost (SongbirdPlayback, recover_player), and
\* a run of a tool ends by its deadline, whatever the tool does.
WaitsEnd == CallsReturn /\ EndedPlaybackIsLeft /\ (On("tool") => Tool!RunEnds)

\* No lease is taken while a former owner's snapshot could be shown for the guild,
\* and a confirmed absence leaves none behind (GuildLifecycleActor, GuildPresence).
LeasesAreTrue ==
  /\ Lifecycle!AdvertisedAfterInvalidation
  /\ [](Lifecycle!TypeOK /\ Lifecycle!ConfirmedAbsenceIsCleared)

\* What is advertised becomes what the gateway last reported.
ConvergesToOwnership == On("lifecycle") => Lifecycle!ConvergesToOwnership

================================================================================
