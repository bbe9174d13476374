----------------------------- MODULE DecoderPool -----------------------------
(***************************************************************************)
(* The decoder processes of all guilds (pepeaudio-pipeline, decoder).  A   *)
(* playback holds one of a few process slots.  The playback that replaces  *)
(* it shares its slot, so that a full pool does not keep a guild from      *)
(* skipping; one replacement at a time may overlap with what it replaces,  *)
(* which a second semaphore sees to.                                       *)
(*                                                                         *)
(* A slot is an Arc: it returns to the pool when the last of the active    *)
(* track, the prepared one and their workers has let go of it.             *)
(***************************************************************************)
EXTENDS Integers, FiniteSets

CONSTANTS Guilds, NoGuild,
          MaxProcesses  \* maximum_processes of FfmpegDecoderFactory

VARIABLES
  adapter,     \* per guild, where its adapter stands
  active,      \* per guild, the active track and whether its process runs
  next,        \* per guild, the prepared track's process
  replacement  \* the guild that holds the replacement permit

vars == <<adapter, active, next, replacement>>

TypeOK ==
  /\ adapter \in [Guilds -> {"idle", "spawning", "prepared"}]
  /\ active \in [Guilds -> {"none", "running", "exited"}]
  /\ next \in [Guilds -> {"none", "running", "exited"}]
  /\ replacement \in Guilds \cup {NoGuild}

\* DecoderProcessSlot: held by the active track and by a track being prepared.
HoldsSlot(g) == active[g] # "none" \/ adapter[g] # "idle"

SlotsInUse == Cardinality({g \in Guilds : HoldsSlot(g)})

Processes == {<<g, "active">> : g \in {h \in Guilds : active[h] = "running"}}
             \cup {<<g, "next">> : g \in {h \in Guilds : next[h] = "running"}}

-----------------------------------------------------------------------------
\* spawn: a playback of its own waits for a slot; the wait may time out.
Spawn(g) ==
  /\ adapter[g] = "idle" /\ active[g] = "none"
  /\ SlotsInUse < MaxProcesses
  /\ adapter' = [adapter EXCEPT ![g] = "spawning"]
  /\ UNCHANGED <<active, next, replacement>>

\* spawn_replacement: waits for the one replacement permit.
SpawnReplacement(g) ==
  /\ adapter[g] = "idle" /\ active[g] # "none"
  /\ replacement = NoGuild
  /\ replacement' = g
  /\ adapter' = [adapter EXCEPT ![g] = "spawning"]
  /\ UNCHANGED <<active, next>>

\* DecoderReplacementPermit::release, and its drop.
Release(g) == replacement' = IF replacement = g THEN NoGuild ELSE replacement

ChildStarts(g) ==
  /\ adapter[g] = "spawning" /\ next[g] = "none"
  /\ next' = [next EXCEPT ![g] = "running"]
  /\ UNCHANGED <<adapter, active, replacement>>

\* The worker owns the decoder, the slot and the permit from here on.
WorkerStarts(g) ==
  /\ adapter[g] = "spawning" /\ next[g] # "none"
  /\ adapter' = [adapter EXCEPT ![g] = "prepared"]
  /\ UNCHANGED <<active, next, replacement>>

\* The process cannot be started, has no pipes, or the DSP cannot be built.
SpawnFails(g) ==
  /\ adapter[g] = "spawning"
  /\ adapter' = [adapter EXCEPT ![g] = "idle"]
  /\ next' = [next EXCEPT ![g] = "none"]
  /\ Release(g)
  /\ UNCHANGED active

\* The file is decoded, or decoding fails: the process is reaped, the slot kept.
Exits(g) ==
  \/ /\ active[g] = "running" /\ active' = [active EXCEPT ![g] = "exited"]
     /\ UNCHANGED <<adapter, next, replacement>>
  \/ /\ adapter[g] = "prepared" /\ next[g] = "running"
     /\ next' = [next EXCEPT ![g] = "exited"]
     /\ UNCHANGED <<adapter, active, replacement>>

\* replace_active: the old worker is shut down or aborted before the permit goes.
Replace(g) ==
  /\ adapter[g] = "prepared"
  /\ adapter' = [adapter EXCEPT ![g] = "idle"]
  /\ active' = [active EXCEPT ![g] = next[g]]
  /\ next' = [next EXCEPT ![g] = "none"]
  /\ Release(g)

\* stop_active and the end of the adapter.
StopActive(g) ==
  /\ adapter[g] = "idle" /\ active[g] # "none"
  /\ active' = [active EXCEPT ![g] = "none"]
  /\ UNCHANGED <<adapter, next, replacement>>

Init ==
  /\ adapter = [g \in Guilds |-> "idle"]
  /\ active = [g \in Guilds |-> "none"] /\ next = [g \in Guilds |-> "none"]
  /\ replacement = NoGuild

Next == \E g \in Guilds :
  \/ Spawn(g) \/ SpawnReplacement(g) \/ ChildStarts(g) \/ WorkerStarts(g) \/ SpawnFails(g)
  \/ Exits(g) \/ Replace(g) \/ StopActive(g)

Spec == Init /\ [][Next]_vars

\* However many guilds skip at once, no more decoders run than the pool allows
\* and one replacement (full_stable_pool_still_admits_one_bounded_replacement).
DecodersBounded == Cardinality(Processes) <= MaxProcesses + 1

=============================================================================
