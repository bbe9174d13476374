--------------------------- MODULE GuildLifecycle ---------------------------
(***************************************************************************)
(* Which guilds a bot process owns and what Valkey says about it.  The     *)
(* lifecycle actor follows the gateway shard by shard.  For a guild it     *)
(* comes to own it invalidates the snapshot a former owner has left, and   *)
(* only then has the presence actor advertise the guild, by a lease that a *)
(* heartbeat renews; for a guild it no longer owns it has the lease        *)
(* cleared.  Steps that fail are tried again: twice at once, and then in   *)
(* the background.                                                         *)
(*                                                                         *)
(* Calls may fail or time out before or after they took effect.  Valkey    *)
(* executes the requests of one connection in order, so an abandoned       *)
(* refresh does not overtake a later clear.                                *)
(***************************************************************************)
EXTENDS Integers

CONSTANTS Guilds, Shards,
          Delays,    \* retries at once (short_delays)
          MaxChanges \* bound on gateway events

VARIABLES
  owned,   \* per shard, the guilds the gateway reported
  stage,   \* how far the advertisement of each guild is; "none": not wanted
  absence, \* guilds whose lease is to be cleared
  round,   \* the round under way: pc, its guilds, those not yet seen to, retries left
  present, \* the presence actor's guilds
  beat,    \* guilds the running heartbeat has still to refresh
  leases,  \* guilds with a lease of this process in Valkey
  cached,  \* guilds with a former owner's snapshot in Valkey
  running, \* the presence actor has not been shut down
  changes

lifecycle == <<owned, stage, absence>>
presence  == <<present, beat, running>>
valkey    == <<leases, cached>>
vars      == <<owned, stage, absence, round, present, beat, leases, cached, running, changes>>

NoRound == [pc |-> "idle", guilds |-> {}, todo |-> {}, tries |-> 0]

TypeOK ==
  /\ owned \in [Shards -> SUBSET Guilds]
  /\ stage \in [Guilds -> {"none", "invalidate", "advertise", "advertised"}]
  /\ absence \subseteq Guilds
  /\ round \in [pc : {"idle", "invalidate", "advertise", "clear"}, guilds : SUBSET Guilds,
                todo : SUBSET Guilds, tries : 0..Delays]
  /\ round.pc = "idle" => round = NoRound
  /\ {present, beat, leases, cached, absence} \subseteq SUBSET Guilds
  /\ beat \subseteq present
  /\ running \in BOOLEAN /\ changes \in 0..MaxChanges

-----------------------------------------------------------------------------
(* The gateway's events, one at a time.                                    *)

OwnedBy(own, g) == \E s \in Shards : g \in own[s]

Desired(g) == OwnedBy(owned, g)

\* The lease of a guild is to be cleared as long as no shard has it.
MarkAbsent(unwanted) ==
  (absence \ {g \in Guilds : OwnedBy(owned', g)}) \cup unwanted

\* apply_desired_state for the guilds affected, and the first round for them.
Apply(own, affected) ==
  LET wanted == {g \in affected : OwnedBy(own, g)}
  IN /\ running /\ round.pc = "idle" /\ changes < MaxChanges
     /\ owned' = own
     /\ stage' = [g \in Guilds |->
                    IF g \notin affected THEN stage[g]
                    ELSE IF g \notin wanted THEN "none"
                    ELSE IF stage[g] = "none" THEN "invalidate"
                    ELSE stage[g]]
     /\ absence' = MarkAbsent(affected \ wanted)
     /\ round' = [pc |-> "invalidate", guilds |-> affected, todo |-> affected, tries |-> Delays]
     /\ changes' = changes + 1
     /\ UNCHANGED <<presence, valkey>>

ReconcileShard(s, guilds) == Apply([owned EXCEPT ![s] = guilds], owned[s] \cup guilds)

Present(s, g) == Apply([owned EXCEPT ![s] = @ \cup {g}], {g})

Absent(s, g) == Apply([owned EXCEPT ![s] = @ \ {g}], {g})

-----------------------------------------------------------------------------
(* A round.                                                                *)

\* The invalidations run in parallel and succeed or fail on their own.
Invalidate ==
  LET needing == {g \in round.guilds : stage[g] = "invalidate"}
  IN /\ round.pc = "invalidate"
     /\ \E ok \in SUBSET needing, lost \in SUBSET needing :
          /\ stage' = [g \in Guilds |-> IF g \in ok THEN "advertise" ELSE stage[g]]
          /\ cached' = cached \ (ok \cup lost)
     /\ round' = [round EXCEPT !.pc = "advertise", !.todo = round.guilds]
     /\ UNCHANGED <<owned, absence, presence, leases, changes>>

\* The presence actor keeps the guild even when its first refresh fails.
Advertise(g) ==
  /\ round.pc = "advertise" /\ g \in round.todo /\ stage[g] = "advertise"
  /\ round' = [round EXCEPT !.todo = @ \ {g}]
  /\ present' = present \cup {g}
  /\ \/ stage' = [stage EXCEPT ![g] = "advertised"] /\ leases' = leases \cup {g}
     \/ UNCHANGED stage /\ leases' \in {leases, leases \cup {g}}
  /\ UNCHANGED <<owned, absence, beat, running, cached, changes>>

Advertised ==
  /\ round.pc = "advertise" /\ \A g \in round.todo : stage[g] # "advertise"
  /\ round' = [round EXCEPT !.pc = "clear", !.todo = round.guilds]
  /\ UNCHANGED <<lifecycle, presence, valkey, changes>>

KeepHeartbeat == UNCHANGED beat

\* stop_heartbeat: aborts the refreshes under way.
StopHeartbeat == beat' = {}

Clear(g) ==
  /\ round.pc = "clear" /\ g \in round.todo \cap absence
  /\ round' = [round EXCEPT !.todo = @ \ {g}]
  /\ present' = present \ {g}
  /\ StopHeartbeat
  /\ \/ absence' = absence \ {g} /\ leases' = leases \ {g}
     \/ UNCHANGED absence /\ leases' \in {leases, leases \ {g}}
  /\ UNCHANGED <<owned, stage, running, cached, changes>>

Unfinished(g) == IF Desired(g) THEN stage[g] # "advertised" ELSE g \in absence

\* What is left is tried again after a delay, as often as there are delays.
EndRound ==
  LET pending == {g \in round.guilds : Unfinished(g)}
  IN /\ round.pc = "clear" /\ round.todo \cap absence = {}
     /\ round' = IF pending = {} \/ round.tries = 0 THEN NoRound
                 ELSE [pc |-> "invalidate", guilds |-> pending, todo |-> pending,
                       tries |-> round.tries - 1]
     /\ UNCHANGED <<lifecycle, presence, valkey, changes>>

PendingAbsences == absence

Pending == {g \in Guilds : stage[g] \in {"invalidate", "advertise"}} \cup absence

\* The background interval: one round for all that is pending.
Tick ==
  /\ running /\ round.pc = "idle" /\ Pending # {}
  /\ round' = [pc |-> "invalidate", guilds |-> Pending, todo |-> Pending, tries |-> 0]
  /\ UNCHANGED <<lifecycle, presence, valkey, changes>>

-----------------------------------------------------------------------------
(* The heartbeat, time, other processes and shutdown.                      *)

\* A heartbeat refreshes the guilds the actor has when it starts.
StartHeartbeat ==
  /\ running /\ beat = {} /\ present # {}
  /\ beat' = present
  /\ UNCHANGED <<lifecycle, round, present, running, valkey, changes>>

Refresh(g) ==
  /\ g \in beat
  /\ beat' = beat \ {g}
  /\ leases' = leases \cup {g}
  /\ UNCHANGED <<lifecycle, round, present, running, cached, changes>>

RefreshFails(g) ==
  /\ g \in beat
  /\ beat' = beat \ {g}
  /\ UNCHANGED <<lifecycle, round, present, running, valkey, changes>>

LeaseExpires(g) ==
  /\ g \in leases
  /\ leases' = leases \ {g}
  /\ UNCHANGED <<lifecycle, round, presence, cached, changes>>

\* While this process does not own a guild another one may write its snapshot.
OtherOwnerWrites(g) ==
  /\ ~Desired(g) /\ g \notin cached
  /\ cached' = cached \cup {g}
  /\ UNCHANGED <<lifecycle, round, presence, leases, changes>>

\* The lifecycle actor has stopped; clear_all does what it can.
Shutdown ==
  /\ running /\ round.pc = "idle"
  /\ running' = FALSE /\ beat' = {} /\ UNCHANGED present
  /\ \E kept \in SUBSET (leases \cap present) : leases' = (leases \ present) \cup kept
  /\ UNCHANGED <<lifecycle, round, cached, changes>>

Init ==
  /\ owned = [s \in Shards |-> {}] /\ stage = [g \in Guilds |-> "none"] /\ absence = {}
  /\ round = NoRound
  /\ present = {} /\ beat = {} /\ running = TRUE
  /\ leases = {} /\ cached \in SUBSET Guilds
  /\ changes = 0

Gateway == \E s \in Shards : \/ \E guilds \in SUBSET Guilds : ReconcileShard(s, guilds)
                             \/ \E g \in Guilds : Present(s, g) \/ Absent(s, g)

Rounds == Invalidate \/ Advertised \/ EndRound \/ (\E g \in Guilds : Advertise(g) \/ Clear(g))

Next == \/ Gateway \/ Rounds \/ Tick \/ StartHeartbeat \/ Shutdown
        \/ \E g \in Guilds : \/ Refresh(g) \/ RefreshFails(g) \/ LeaseExpires(g)
                             \/ OtherOwnerWrites(g)

Spec == Init /\ [][Next]_vars

\* A step of a round that achieves nothing.
RoundFails ==
  \/ Invalidate /\ \E g \in round.guilds : stage'[g] = "invalidate"
  \/ \E g \in Guilds : Advertise(g) /\ stage' = stage
  \/ \E g \in Guilds : Clear(g) /\ absence' = absence

\* Both actors and the heartbeat are scheduled; from some time on Valkey answers.
FairSpec == /\ Spec /\ WF_vars(Rounds) /\ WF_vars(Tick)
            /\ <>[][~RoundFails]_vars

-----------------------------------------------------------------------------
(* Properties.                                                             *)

\* No lease is taken for an owned guild while a former owner's snapshot is
\* there to be shown: not by the heartbeat after a failed advertisement, nor for
\* a guild that left and came back between two heartbeats.
AdvertisedAfterInvalidation ==
  [][ \A g \in Guilds : Desired(g) /\ g \in leases' \ leases => g \notin cached ]_vars

\* Once an absence is confirmed the lease is gone and nothing renews it.
ConfirmedAbsenceIsCleared ==
  \A g \in Guilds :
    running /\ round.pc = "idle" /\ ~Desired(g) /\ g \notin absence
      => g \notin present \cup leases

\* What Valkey is told follows the gateway in the end, however often the
\* guilds change hands and the calls fail before: an owned guild is
\* advertised, and the absence of any other guild is confirmed.
ConvergesToOwnership ==
  \A g \in Guilds :
    <>[](~running \/ (Desired(g) /\ stage[g] = "advertised") \/ (~Desired(g) /\ g \notin absence))

=============================================================================
