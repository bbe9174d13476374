---------------------------- MODULE TasksProofs ----------------------------
(***************************************************************************)
(* Theorems about the parts of MCTasks, for every value of its constants:  *)
(* leases are taken only for guilds whose stale snapshot is gone, decoders *)
(* and tools stay within their limits, and a playback is honest about its  *)
(* end and its settings.                                                   *)
(***************************************************************************)
EXTENDS MCTasks, FiniteSetTheorems, SequenceTheorems, TLAPS

-----------------------------------------------------------------------------
(* The guild lifecycle.                                                    *)

Owns(g) == Lifecycle!Desired(g)

\* A guild has a stage exactly while it is owned, and its lease is to be cleared
\* only while it is not.
StagesFollow ==
  \A g \in Members : /\ stage[g] # "none" <=> Owns(g)
                     /\ g \in absence => ~Owns(g)

\* Past the invalidation, and for whatever the heartbeat knows of an owned guild,
\* no former owner's snapshot is left.
AdvertisedIsFresh ==
  \A g \in Members :
    Owns(g) /\ (stage[g] \in {"advertise", "advertised"} \/ g \in present) => g \notin cached

\* The heartbeat keeps a guild that is not owned only until the round under way
\* has cleared it, and a lease of such a guild is on the list to be cleared.
AbsentIsLeaving ==
  \A g \in Members :
    ~Owns(g) =>
      /\ g \in present => /\ g \in absence /\ g \in round.guilds
                          /\ round.pc # "idle" /\ (round.pc = "clear" => g \in round.todo)
      /\ g \in leases => g \in absence

LifecycleInv == Lifecycle!TypeOK /\ StagesFollow /\ AdvertisedIsFresh /\ AbsentIsLeaving

\* The fields of a round, and what the constants are.
LEMMA RoundFields ==
  ASSUME Lifecycle!TypeOK
  PROVE  /\ round.pc \in {"idle", "invalidate", "advertise", "clear"}
         /\ round.guilds \in SUBSET Members /\ round.todo \in SUBSET Members
         /\ round.tries \in 0..Delays /\ Delays \in Nat /\ MaxChanges \in Nat
BY TasksAssumption DEF Lifecycle!TypeOK

\* Who owns a guild changes with the gateway's events only.
LEMMA OwnsSame ==
  ASSUME owned' = owned
  PROVE  \A g : Owns(g)' <=> Owns(g)
BY DEF Owns, Lifecycle!Desired, Lifecycle!OwnedBy

\* The types of the parts a step sets, one by one.
LifecycleTypes ==
  /\ owned \in [Shards -> SUBSET Members]
  /\ stage \in [Members -> {"none", "invalidate", "advertise", "advertised"}]
  /\ absence \in SUBSET Members /\ present \in SUBSET Members /\ beat \in SUBSET Members
  /\ leases \in SUBSET Members /\ cached \in SUBSET Members /\ beat \subseteq present
  /\ round \in [pc : {"idle", "invalidate", "advertise", "clear"}, guilds : SUBSET Members,
                todo : SUBSET Members, tries : 0..Delays]
  /\ round.pc = "idle" => round = Lifecycle!NoRound
  /\ running \in BOOLEAN /\ changes \in 0..MaxChanges

LEMMA LifecycleTypesAre == Lifecycle!TypeOK <=> LifecycleTypes
<1>1. {present, beat, leases, cached, absence} \subseteq SUBSET Members
        <=> /\ absence \in SUBSET Members /\ present \in SUBSET Members
            /\ beat \in SUBSET Members /\ leases \in SUBSET Members /\ cached \in SUBSET Members
  OBVIOUS
<1> QED  BY <1>1 DEF Lifecycle!TypeOK, LifecycleTypes

LEMMA TypesAreAfter == Lifecycle!TypeOK' <=> LifecycleTypes'
<1>1. {present', beat', leases', cached', absence'} \subseteq SUBSET Members
        <=> /\ absence' \in SUBSET Members /\ present' \in SUBSET Members
            /\ beat' \in SUBSET Members /\ leases' \in SUBSET Members
            /\ cached' \in SUBSET Members
  OBVIOUS
<1> QED  BY <1>1 DEF Lifecycle!TypeOK, LifecycleTypes

LEMMA GatewayKeeps ==
  ASSUME LifecycleInv, NEW own \in [Shards -> SUBSET Members], NEW affected \in SUBSET Members,
         \A g \in Members : g \notin affected => (Lifecycle!OwnedBy(own, g) <=> Owns(g)),
         Lifecycle!Apply(own, affected)
  PROVE  LifecycleInv'
<1> DEFINE wanted == {g \in affected : Lifecycle!OwnedBy(own, g)}
<1>1. /\ running /\ round.pc = "idle" /\ changes < MaxChanges
      /\ owned' = own /\ changes' = changes + 1
      /\ UNCHANGED <<present, beat, running, leases, cached>>
      /\ absence' = (absence \ {g \in Members : Lifecycle!OwnedBy(own, g)})
                      \cup (affected \ wanted)
      /\ round' = [pc |-> "invalidate", guilds |-> affected, todo |-> affected, tries |-> Delays]
  BY DEF Lifecycle!Apply, Lifecycle!MarkAbsent, Lifecycle!presence, Lifecycle!valkey
<1>2. stage' = [g \in Members |-> IF g \notin affected THEN stage[g]
                                  ELSE IF g \notin wanted THEN "none"
                                  ELSE IF stage[g] = "none" THEN "invalidate"
                                  ELSE stage[g]]
  BY DEF Lifecycle!Apply
<1>3. \A g : Owns(g)' <=> Lifecycle!OwnedBy(own, g)
  BY <1>1 DEF Owns, Lifecycle!Desired, Lifecycle!OwnedBy
<1>4. LifecycleTypes /\ StagesFollow /\ AdvertisedIsFresh /\ AbsentIsLeaving
  BY LifecycleTypesAre DEF LifecycleInv
<1> HIDE DEF wanted
<1>5. \A g \in Members : g \in wanted <=> g \in affected /\ Owns(g)'
  BY <1>3 DEF wanted
<1>6. LifecycleTypes'
  <2>1. stage' \in [Members -> {"none", "invalidate", "advertise", "advertised"}]
    BY <1>2, <1>4 DEF LifecycleTypes
  <2>2. Delays \in 0..Delays /\ changes' \in 0..MaxChanges
    BY <1>1, <1>4, TasksAssumption DEF LifecycleTypes
  <2>3. absence' \in SUBSET Members
    BY <1>1, <1>4 DEF LifecycleTypes
  <2>4. /\ round' \in [pc : {"idle", "invalidate", "advertise", "clear"},
                       guilds : SUBSET Members, todo : SUBSET Members, tries : 0..Delays]
        /\ round'.pc # "idle"
    BY <1>1, <2>2
  <2> QED  BY <1>1, <1>4, <2>1, <2>2, <2>3, <2>4 DEF LifecycleTypes
<1>7. \A g \in Members : ~Owns(g) => g \notin present
  BY <1>1, <1>4 DEF AbsentIsLeaving
<1>8. StagesFollow'
  BY <1>1, <1>2, <1>3, <1>4, <1>5 DEF StagesFollow
<1>9. AdvertisedIsFresh'
  <2> SUFFICES ASSUME NEW g \in Members, Owns(g)',
                      stage'[g] \in {"advertise", "advertised"} \/ g \in present
               PROVE  g \notin cached
    BY <1>1 DEF AdvertisedIsFresh
  <2>1. Owns(g)
    BY <1>2, <1>4, <1>5, <1>7 DEF StagesFollow
  <2>2. stage[g] \in {"advertise", "advertised"} \/ g \in present
    BY <1>2
  <2> QED  BY <1>4, <2>1, <2>2 DEF AdvertisedIsFresh
<1>10. AbsentIsLeaving'
  <2> SUFFICES ASSUME NEW g \in Members, ~Owns(g)'
               PROVE  /\ g \in present => /\ g \in absence' /\ g \in round'.guilds
                                          /\ round'.pc # "idle"
                                          /\ (round'.pc = "clear" => g \in round'.todo)
                      /\ g \in leases => g \in absence'
    BY <1>1 DEF AbsentIsLeaving
  <2>1. CASE g \in affected
    BY <1>1, <1>5, <2>1
  <2>2. CASE g \notin affected
    <3>1. ~Owns(g)
      BY <1>3, <2>2
    <3> QED  BY <1>1, <1>3, <1>4, <1>7, <2>2, <3>1 DEF AbsentIsLeaving
  <2> QED  BY <2>1, <2>2
<1> QED  BY <1>6, <1>8, <1>9, <1>10, TypesAreAfter DEF LifecycleInv

\* A step that takes nothing from the gateway.
Later == LifecycleInv /\ UNCHANGED <<owned, changes>>

LEMMA LaterFacts ==
  ASSUME Later
  PROVE  /\ LifecycleTypes /\ StagesFollow /\ AdvertisedIsFresh /\ AbsentIsLeaving
         /\ owned' = owned /\ changes' = changes
         /\ \A g : Owns(g)' <=> Owns(g)
BY OwnsSame, LifecycleTypesAre DEF Later, LifecycleInv

LEMMA LifecycleInvAfter ==
  ASSUME LifecycleTypes', StagesFollow', AdvertisedIsFresh', AbsentIsLeaving'
  PROVE  LifecycleInv'
BY TypesAreAfter DEF LifecycleInv

LEMMA InvalidateKeeps == ASSUME LifecycleInv, Lifecycle!Invalidate PROVE LifecycleInv'
<1>1. /\ Later /\ round.pc = "invalidate"
      /\ round' = [round EXCEPT !.pc = "advertise", !.todo = round.guilds]
      /\ UNCHANGED <<absence, present, beat, running, leases>>
  BY DEF Later, Lifecycle!Invalidate, Lifecycle!presence
<1>2. PICK ok \in SUBSET {g \in round.guilds : stage[g] = "invalidate"},
           lost \in SUBSET {g \in round.guilds : stage[g] = "invalidate"} :
        /\ stage' = [g \in Members |-> IF g \in ok THEN "advertise" ELSE stage[g]]
        /\ cached' = cached \ (ok \cup lost)
  BY DEF Lifecycle!Invalidate
<1>3. /\ round'.pc = "advertise" /\ round'.guilds = round.guilds
      /\ round' \in [pc : {"idle", "invalidate", "advertise", "clear"}, guilds : SUBSET Members,
                     todo : SUBSET Members, tries : 0..Delays]
  BY <1>1, LaterFacts DEF LifecycleTypes
<1>4. LifecycleTypes'
  BY <1>1, <1>2, <1>3, LaterFacts DEF LifecycleTypes
<1>5. StagesFollow'
  BY <1>1, <1>2, LaterFacts DEF StagesFollow
<1>6. AdvertisedIsFresh'
  BY <1>1, <1>2, LaterFacts DEF AdvertisedIsFresh
<1>7. AbsentIsLeaving'
  BY <1>1, <1>3, LaterFacts DEF AbsentIsLeaving
<1> QED  BY <1>4, <1>5, <1>6, <1>7, LifecycleInvAfter

LEMMA AdvertiseKeeps ==
  ASSUME LifecycleInv, NEW g \in Members, Lifecycle!Advertise(g) PROVE LifecycleInv'
<1>1. /\ Later /\ round.pc = "advertise" /\ stage[g] = "advertise"
      /\ round' = [round EXCEPT !.todo = @ \ {g}]
      /\ present' = present \cup {g} /\ leases' \in {leases, leases \cup {g}}
      /\ stage' \in {stage, [stage EXCEPT ![g] = "advertised"]}
      /\ UNCHANGED <<absence, beat, running, cached>>
  BY DEF Later, Lifecycle!Advertise
<1>2. /\ round'.pc = "advertise" /\ round'.guilds = round.guilds
      /\ round' \in [pc : {"idle", "invalidate", "advertise", "clear"}, guilds : SUBSET Members,
                     todo : SUBSET Members, tries : 0..Delays]
  BY <1>1, LaterFacts DEF LifecycleTypes
<1>3. Owns(g)
  BY <1>1, LaterFacts DEF StagesFollow
<1>4. \A m \in Members : /\ stage'[m] = "none" <=> stage[m] = "none"
                         /\ m # g => stage'[m] = stage[m]
  BY <1>1, LaterFacts DEF LifecycleTypes
<1>5. LifecycleTypes'
  <2>1. stage' \in [Members -> {"none", "invalidate", "advertise", "advertised"}]
    BY <1>1, LaterFacts DEF LifecycleTypes
  <2>2. present' \in SUBSET Members /\ leases' \in SUBSET Members /\ beat' \subseteq present'
    BY <1>1, LaterFacts DEF LifecycleTypes
  <2> QED  BY <1>1, <1>2, <2>1, <2>2, LaterFacts DEF LifecycleTypes
<1>6. StagesFollow'
  BY <1>1, <1>4, LaterFacts DEF StagesFollow
<1>7. AdvertisedIsFresh'
  <2>1. g \notin cached
    BY <1>1, <1>3, LaterFacts DEF AdvertisedIsFresh
  <2> QED  BY <1>1, <1>4, <2>1, LaterFacts DEF AdvertisedIsFresh
<1>8. AbsentIsLeaving'
  <2> SUFFICES ASSUME NEW m \in Members, ~Owns(m)
               PROVE  /\ m \in present' => /\ m \in absence /\ m \in round'.guilds
                                           /\ round'.pc # "idle" /\ round'.pc # "clear"
                      /\ m \in leases' => m \in absence
    BY <1>1, LaterFacts DEF AbsentIsLeaving
  <2>1. m # g
    BY <1>3
  <2> QED  BY <1>1, <1>2, <2>1, LaterFacts DEF AbsentIsLeaving
<1> QED  BY <1>5, <1>6, <1>7, <1>8, LifecycleInvAfter

LEMMA AdvertisedKeeps == ASSUME LifecycleInv, Lifecycle!Advertised PROVE LifecycleInv'
<1>1. /\ Later /\ round.pc = "advertise"
      /\ round' = [round EXCEPT !.pc = "clear", !.todo = round.guilds]
      /\ UNCHANGED <<stage, absence, present, beat, running, leases, cached>>
  BY DEF Later, Lifecycle!Advertised, Lifecycle!lifecycle, Lifecycle!presence, Lifecycle!valkey
<1>2. /\ round'.pc = "clear" /\ round'.guilds = round.guilds /\ round'.todo = round.guilds
      /\ round' \in [pc : {"idle", "invalidate", "advertise", "clear"}, guilds : SUBSET Members,
                     todo : SUBSET Members, tries : 0..Delays]
  BY <1>1, LaterFacts DEF LifecycleTypes
<1>3. LifecycleTypes'
  BY <1>1, <1>2, LaterFacts DEF LifecycleTypes
<1>4. StagesFollow' /\ AdvertisedIsFresh'
  BY <1>1, LaterFacts DEF StagesFollow, AdvertisedIsFresh
<1>5. AbsentIsLeaving'
  BY <1>1, <1>2, LaterFacts DEF AbsentIsLeaving
<1> QED  BY <1>3, <1>4, <1>5, LifecycleInvAfter

LEMMA ClearKeeps ==
  ASSUME LifecycleInv, NEW g \in Members, Lifecycle!Clear(g) PROVE LifecycleInv'
<1>1. /\ Later /\ round.pc = "clear" /\ g \in absence
      /\ round' = [round EXCEPT !.todo = @ \ {g}]
      /\ present' = present \ {g} /\ beat' = {}
      /\ \/ absence' = absence \ {g} /\ leases' = leases \ {g}
         \/ absence' = absence /\ leases' \in {leases, leases \ {g}}
      /\ UNCHANGED <<stage, running, cached>>
  BY DEF Later, Lifecycle!Clear, Lifecycle!StopHeartbeat
<1>2. /\ round'.pc = "clear" /\ round'.guilds = round.guilds /\ round'.todo = round.todo \ {g}
      /\ round' \in [pc : {"idle", "invalidate", "advertise", "clear"}, guilds : SUBSET Members,
                     todo : SUBSET Members, tries : 0..Delays]
  BY <1>1, LaterFacts DEF LifecycleTypes
<1>3. LifecycleTypes'
  BY <1>1, <1>2, LaterFacts DEF LifecycleTypes
<1>4. StagesFollow' /\ AdvertisedIsFresh'
  BY <1>1, LaterFacts DEF StagesFollow, AdvertisedIsFresh
<1>5. AbsentIsLeaving'
  <2> SUFFICES ASSUME NEW m \in Members, ~Owns(m)
               PROVE  /\ m \in present' => /\ m \in absence' /\ m \in round'.guilds
                                           /\ m \in round'.todo
                      /\ m \in leases' => m \in absence'
    BY <1>2, LaterFacts, <1>1 DEF AbsentIsLeaving
  <2> QED  BY <1>1, <1>2, LaterFacts DEF AbsentIsLeaving
<1> QED  BY <1>3, <1>4, <1>5, LifecycleInvAfter

\* At the end of a round nothing it was about is left to clear from the heartbeat.
LEMMA EndRoundKeeps == ASSUME LifecycleInv, Lifecycle!EndRound PROVE LifecycleInv'
<1> DEFINE pending == {g \in round.guilds : Lifecycle!Unfinished(g)}
<1>1. /\ Later /\ round.pc = "clear" /\ round.todo \cap absence = {}
      /\ round' = IF pending = {} \/ round.tries = 0 THEN Lifecycle!NoRound
                  ELSE [pc |-> "invalidate", guilds |-> pending, todo |-> pending,
                        tries |-> round.tries - 1]
      /\ UNCHANGED <<stage, absence, present, beat, running, leases, cached>>
  BY DEF Later, Lifecycle!EndRound, Lifecycle!lifecycle, Lifecycle!presence, Lifecycle!valkey
<1>2. pending \in SUBSET Members
  BY <1>1, LaterFacts DEF LifecycleTypes
<1> HIDE DEF pending
<1>3. /\ round' \in [pc : {"idle", "invalidate", "advertise", "clear"}, guilds : SUBSET Members,
                     todo : SUBSET Members, tries : 0..Delays]
      /\ round'.pc = "idle" => round' = Lifecycle!NoRound
  <2>1. round.tries \in 0..Delays /\ Delays \in Nat
    BY <1>1, LaterFacts, TasksAssumption DEF LifecycleTypes
  <2>2. round.tries # 0 => round.tries - 1 \in 0..Delays
    BY <2>1
  <2> QED  BY <1>1, <1>2, <2>1, <2>2 DEF Lifecycle!NoRound
<1>4. LifecycleTypes'
  BY <1>1, <1>3, LaterFacts DEF LifecycleTypes
<1>5. StagesFollow' /\ AdvertisedIsFresh'
  BY <1>1, LaterFacts DEF StagesFollow, AdvertisedIsFresh
<1>6. AbsentIsLeaving'
  BY <1>1, LaterFacts DEF AbsentIsLeaving
<1> QED  BY <1>4, <1>5, <1>6, LifecycleInvAfter

LEMMA TickKeeps == ASSUME LifecycleInv, Lifecycle!Tick PROVE LifecycleInv'
<1>1. /\ Later /\ round.pc = "idle"
      /\ round' = [pc |-> "invalidate", guilds |-> Lifecycle!Pending, todo |-> Lifecycle!Pending,
                   tries |-> 0]
      /\ UNCHANGED <<stage, absence, present, beat, running, leases, cached>>
  BY DEF Later, Lifecycle!Tick, Lifecycle!lifecycle, Lifecycle!presence, Lifecycle!valkey
<1>2. Lifecycle!Pending \in SUBSET Members
  BY <1>1, LaterFacts DEF LifecycleTypes, Lifecycle!Pending
<1>3. /\ round' \in [pc : {"idle", "invalidate", "advertise", "clear"}, guilds : SUBSET Members,
                     todo : SUBSET Members, tries : 0..Delays]
      /\ round'.pc # "idle"
  BY <1>1, <1>2, TasksAssumption
<1>4. LifecycleTypes'
  BY <1>1, <1>3, LaterFacts DEF LifecycleTypes
<1>5. StagesFollow' /\ AdvertisedIsFresh'
  BY <1>1, LaterFacts DEF StagesFollow, AdvertisedIsFresh
<1>6. AbsentIsLeaving'
  BY <1>1, LaterFacts DEF AbsentIsLeaving
<1> QED  BY <1>4, <1>5, <1>6, LifecycleInvAfter

LEMMA HeartbeatKeeps ==
  ASSUME LifecycleInv,
         \/ Lifecycle!StartHeartbeat
         \/ \E g \in Members : \/ Lifecycle!Refresh(g) \/ Lifecycle!RefreshFails(g)
                               \/ Lifecycle!LeaseExpires(g)
  PROVE  LifecycleInv'
<1>1. /\ Later /\ UNCHANGED <<stage, absence, round, present, running, cached>>
      /\ beat' \subseteq present
      /\ \A g \in leases' : g \in leases \/ g \in beat
  BY DEF Later, LifecycleInv, Lifecycle!TypeOK, Lifecycle!StartHeartbeat, Lifecycle!Refresh,
         Lifecycle!RefreshFails, Lifecycle!LeaseExpires, Lifecycle!lifecycle,
         Lifecycle!presence, Lifecycle!valkey
<1>2. LifecycleTypes'
  BY <1>1, LaterFacts DEF LifecycleTypes
<1>3. StagesFollow' /\ AdvertisedIsFresh'
  BY <1>1, LaterFacts DEF StagesFollow, AdvertisedIsFresh
<1>4. AbsentIsLeaving'
  BY <1>1, LaterFacts DEF AbsentIsLeaving, LifecycleTypes
<1> QED  BY <1>2, <1>3, <1>4, LifecycleInvAfter

LEMMA OtherOwnerWritesKeeps ==
  ASSUME LifecycleInv, NEW g \in Members, Lifecycle!OtherOwnerWrites(g) PROVE LifecycleInv'
<1>1. /\ Later /\ ~Owns(g) /\ cached' = cached \cup {g}
      /\ UNCHANGED <<stage, absence, round, present, beat, running, leases>>
  BY DEF Later, Owns, Lifecycle!OtherOwnerWrites, Lifecycle!lifecycle, Lifecycle!presence
<1>2. LifecycleTypes'
  BY <1>1, LaterFacts DEF LifecycleTypes
<1>3. StagesFollow' /\ AdvertisedIsFresh'
  BY <1>1, LaterFacts DEF StagesFollow, AdvertisedIsFresh
<1>4. AbsentIsLeaving'
  BY <1>1, LaterFacts DEF AbsentIsLeaving
<1> QED  BY <1>2, <1>3, <1>4, LifecycleInvAfter

LEMMA LifecycleShutdownKeeps == ASSUME LifecycleInv, Lifecycle!Shutdown PROVE LifecycleInv'
<1>1. /\ Later /\ running' = FALSE /\ beat' = {} /\ leases' \subseteq leases
      /\ UNCHANGED <<stage, absence, round, present, cached>>
  BY DEF Later, Lifecycle!Shutdown, Lifecycle!lifecycle
<1>2. LifecycleTypes'
  BY <1>1, LaterFacts DEF LifecycleTypes
<1>3. StagesFollow' /\ AdvertisedIsFresh'
  BY <1>1, LaterFacts DEF StagesFollow, AdvertisedIsFresh
<1>4. AbsentIsLeaving'
  BY <1>1, LaterFacts DEF AbsentIsLeaving
<1> QED  BY <1>2, <1>3, <1>4, LifecycleInvAfter

LEMMA LifecycleInit == ASSUME Lifecycle!Init PROVE LifecycleInv
<1>1. LifecycleTypes
  BY TasksAssumption DEF Lifecycle!Init, LifecycleTypes, Lifecycle!NoRound
<1>2. \A g : ~Owns(g)
  BY DEF Lifecycle!Init, Owns, Lifecycle!Desired, Lifecycle!OwnedBy
<1>3. StagesFollow /\ AdvertisedIsFresh /\ AbsentIsLeaving
  BY <1>2 DEF Lifecycle!Init, StagesFollow, AdvertisedIsFresh, AbsentIsLeaving
<1> QED  BY <1>1, <1>3, LifecycleTypesAre DEF LifecycleInv

LEMMA GatewayEvents ==
  ASSUME LifecycleInv, Lifecycle!Gateway PROVE LifecycleInv'
<1>1. owned \in [Shards -> SUBSET Members]
  BY DEF LifecycleInv, Lifecycle!TypeOK
<1>2. ASSUME NEW s \in Shards, NEW guilds \in SUBSET Members, Lifecycle!ReconcileShard(s, guilds)
      PROVE  LifecycleInv'
  <2> DEFINE own == [owned EXCEPT ![s] = guilds]
  <2>1. own \in [Shards -> SUBSET Members] /\ owned[s] \cup guilds \in SUBSET Members
    BY <1>1
  <2>2. \A g \in Members : g \notin owned[s] \cup guilds =>
          (Lifecycle!OwnedBy(own, g) <=> Owns(g))
    BY <1>1 DEF Owns, Lifecycle!Desired, Lifecycle!OwnedBy
  <2>3. Lifecycle!Apply(own, owned[s] \cup guilds)
    BY <1>2 DEF Lifecycle!ReconcileShard
  <2> HIDE DEF own
  <2> QED  BY <2>1, <2>2, <2>3, GatewayKeeps
<1>3. ASSUME NEW s \in Shards, NEW g \in Members,
             Lifecycle!Present(s, g) \/ Lifecycle!Absent(s, g)
      PROVE  LifecycleInv'
  <2>1. PICK mine \in SUBSET Members :
          /\ mine \in {owned[s] \cup {g}, owned[s] \ {g}}
          /\ Lifecycle!Apply([owned EXCEPT ![s] = mine], {g})
    BY <1>1, <1>3 DEF Lifecycle!Present, Lifecycle!Absent
  <2> DEFINE own == [owned EXCEPT ![s] = mine]
  <2>2. own \in [Shards -> SUBSET Members] /\ {g} \in SUBSET Members
    BY <1>1
  <2>3. \A m \in Members : m \notin {g} => (Lifecycle!OwnedBy(own, m) <=> Owns(m))
    BY <1>1, <2>1 DEF Owns, Lifecycle!Desired, Lifecycle!OwnedBy
  <2>4. Lifecycle!Apply(own, {g})
    BY <2>1
  <2> HIDE DEF own
  <2> QED  BY <2>2, <2>3, <2>4, GatewayKeeps
<1> QED  BY <1>2, <1>3 DEF Lifecycle!Gateway

LEMMA LifecycleNext == ASSUME LifecycleInv, [MCNext]_allVars PROVE LifecycleInv'
<1>1. CASE UNCHANGED lifecycleVars
  <2>1. Later /\ UNCHANGED <<stage, absence, round, present, beat, running, leases, cached>>
    BY <1>1 DEF Later, lifecycleVars
  <2>2. LifecycleTypes'
    BY <2>1, LaterFacts DEF LifecycleTypes
  <2>3. StagesFollow' /\ AdvertisedIsFresh'
    BY <2>1, LaterFacts DEF StagesFollow, AdvertisedIsFresh
  <2>4. AbsentIsLeaving'
    BY <2>1, LaterFacts DEF AbsentIsLeaving
  <2> QED  BY <2>2, <2>3, <2>4, LifecycleInvAfter
<1>2. CASE Lifecycle!Next
  BY <1>2, GatewayEvents, InvalidateKeeps, AdvertiseKeeps, AdvertisedKeeps, ClearKeeps,
     EndRoundKeeps, TickKeeps, HeartbeatKeeps, OtherOwnerWritesKeeps, LifecycleShutdownKeeps
     DEF Lifecycle!Next, Lifecycle!Rounds
<1> QED  BY <1>1, <1>2 DEF MCNext, allVars

\* Where a lease is taken: in a round, or by the heartbeat.
LEMMA LeaseTaken ==
  ASSUME LifecycleInv, [MCNext]_allVars, NEW g \in Members, Owns(g), g \in leases' \ leases
  PROVE  g \notin cached
<1>1. \/ \E m \in Members : Lifecycle!Advertise(m) \/ Lifecycle!Refresh(m)
      \/ leases' \subseteq leases
  <2>1. ASSUME Lifecycle!Gateway PROVE leases' = leases
    BY <2>1 DEF Lifecycle!Gateway, Lifecycle!ReconcileShard, Lifecycle!Present,
                Lifecycle!Absent, Lifecycle!Apply, Lifecycle!valkey
  <2>2. ASSUME Lifecycle!Rounds
        PROVE  (\E m \in Members : Lifecycle!Advertise(m)) \/ leases' \subseteq leases
    BY <2>2 DEF Lifecycle!Rounds, Lifecycle!Invalidate, Lifecycle!Advertised,
                Lifecycle!EndRound, Lifecycle!Clear, Lifecycle!valkey
  <2>3. ASSUME Lifecycle!Tick \/ Lifecycle!StartHeartbeat \/ Lifecycle!Shutdown
        PROVE  leases' \subseteq leases
    BY <2>3 DEF Lifecycle!Tick, Lifecycle!StartHeartbeat, Lifecycle!Shutdown, Lifecycle!valkey
  <2>4. ASSUME NEW m \in Members,
               \/ Lifecycle!RefreshFails(m) \/ Lifecycle!LeaseExpires(m)
               \/ Lifecycle!OtherOwnerWrites(m)
        PROVE  leases' \subseteq leases
    BY <2>4 DEF Lifecycle!RefreshFails, Lifecycle!LeaseExpires, Lifecycle!OtherOwnerWrites,
                Lifecycle!valkey
  <2>5. UNCHANGED lifecycleVars => leases' = leases
    BY DEF lifecycleVars
  <2> QED  BY <2>1, <2>2, <2>3, <2>4, <2>5 DEF MCNext, allVars, Lifecycle!Next
<1>2. PICK m \in Members : Lifecycle!Advertise(m) \/ Lifecycle!Refresh(m)
  BY <1>1
<1>3. CASE Lifecycle!Advertise(m)
  <2>1. g = m /\ stage[m] = "advertise"
    BY <1>3 DEF Lifecycle!Advertise
  <2> QED  BY <2>1 DEF LifecycleInv, AdvertisedIsFresh
<1>4. CASE Lifecycle!Refresh(m)
  <2>1. g = m /\ m \in present
    BY <1>4 DEF Lifecycle!Refresh, LifecycleInv, Lifecycle!TypeOK
  <2> QED  BY <2>1 DEF LifecycleInv, AdvertisedIsFresh
<1> QED  BY <1>2, <1>3, <1>4

\* No lease is taken while a former owner's snapshot could be shown for the guild,
\* and a confirmed absence leaves none behind (GuildLifecycleActor, GuildPresence).
THEOREM LeasesStayTrue == MCSpec => LeasesAreTrue
<1>1. MCInit => LifecycleInv
  BY LifecycleInit DEF MCInit
<1>2. LifecycleInv /\ [MCNext]_allVars => LifecycleInv'
  BY LifecycleNext
<1>3. LifecycleInv /\ [MCNext]_allVars =>
        [ \A g \in Members : Lifecycle!Desired(g) /\ g \in leases' \ leases => g \notin cached
        ]_(Lifecycle!vars)
  BY LeaseTaken DEF Owns
<1>4. LifecycleInv => Lifecycle!TypeOK /\ Lifecycle!ConfirmedAbsenceIsCleared
  BY DEF LifecycleInv, AbsentIsLeaving, Lifecycle!ConfirmedAbsenceIsCleared, Owns
<1> QED
  BY <1>1, <1>2, <1>3, <1>4, PTL DEF MCSpec, LeasesAreTrue, Lifecycle!AdvertisedAfterInvalidation

-----------------------------------------------------------------------------
(* A run of a tool.                                                        *)

\* A child runs only while the run waits for it, another process of its group
\* only until the run is over, and as long as there may be one the guard is armed.
ToolInv ==
  /\ Tool!TypeOK
  /\ armed <=> pc \in {"wait", "stdout", "stderr", "joining"}
  /\ leader = "running" => pc = "wait"
  /\ helper # "none" => armed

LEMMA ToolFields ==
  ASSUME ToolInv
  PROVE  /\ pc \in {"permit", "wait", "stdout", "stderr", "joining", "returned", "dropped"}
         /\ leader \in {"none", "running", "succeeded", "failed"}
         /\ helper \in {"none", "piped", "detached"}
         /\ readers \in [Tool!Pipes -> {"none", "reading", "read", "failed"}]
         /\ armed \in BOOLEAN /\ late \in BOOLEAN
         /\ result \in {"none", "Ok", "Timeout", "Spawn", "Exit", "Pipe", "MediaUnavailable"}
BY DEF ToolInv, Tool!TypeOK, Tool!Results

LEMMA ToolInit == ASSUME Tool!Init PROVE ToolInv
BY DEF Tool!Init, ToolInv, Tool!TypeOK, Tool!NoReaders, Tool!Pipes, Tool!Results

\* The run is over, and with it the group.
LEMMA ToolEnds ==
  ASSUME ToolInv, Tool!KillGroup, armed' = FALSE, pc' \in {"returned", "dropped"},
         readers' \in {readers, Tool!NoReaders}, late' = late, result' \in Tool!Results
  PROVE  ToolInv'
<1>1. leader' \in {"none", "succeeded", "failed"} /\ helper' = "none"
  BY ToolFields DEF Tool!KillGroup
<1>2. readers' \in [Tool!Pipes -> {"none", "reading", "read", "failed"}]
  BY ToolFields DEF Tool!NoReaders
<1>3. late' \in BOOLEAN
  BY ToolFields
<1> QED  BY <1>1, <1>2, <1>3 DEF ToolInv, Tool!TypeOK

LEMMA ToolRunnerKeeps == ASSUME ToolInv, Tool!Runner PROVE ToolInv'
<1>1. ASSUME Tool!NoPermit PROVE ToolInv'
  BY <1>1, ToolFields DEF ToolInv, Tool!TypeOK, Tool!Results, Tool!NoPermit, Tool!Return
<1>2. ASSUME Tool!Start PROVE ToolInv'
  <2>1. /\ pc = "permit" /\ helper' = helper /\ late' = late
        /\ \/ /\ pc' = "wait" /\ leader' = "running" /\ armed' = TRUE /\ result' = result
              /\ readers' = [p \in Tool!Pipes |-> "reading"]
           \/ /\ pc' = "returned" /\ result' = "Spawn"
              /\ leader' = leader /\ readers' = readers /\ armed' = armed
    BY <1>2 DEF Tool!Start, Tool!Return
  <2>2. CASE /\ pc' = "wait" /\ leader' = "running" /\ armed' = TRUE /\ result' = result
             /\ readers' = [p \in Tool!Pipes |-> "reading"]
    <3>1. readers' \in [Tool!Pipes -> {"none", "reading", "read", "failed"}]
      BY <2>2
    <3> QED  BY <2>1, <2>2, <3>1, ToolFields DEF ToolInv, Tool!TypeOK, Tool!Results
  <2>3. CASE pc' = "returned" /\ result' = "Spawn" /\ leader' = leader /\ readers' = readers
             /\ armed' = armed
    BY <2>1, <2>3, ToolFields DEF ToolInv, Tool!TypeOK, Tool!Results
  <2> QED  BY <2>1, <2>2, <2>3
<1>3. ASSUME Tool!Overdue PROVE ToolInv'
  BY <1>3, ToolEnds DEF Tool!Overdue, Tool!Return, Tool!Disarm, Tool!Results
<1>4. ASSUME Tool!Waited PROVE ToolInv'
  BY <1>4, ToolFields DEF ToolInv, Tool!TypeOK, Tool!Waited
<1>5. ASSUME NEW p \in Tool!Pipes, NEW then \in {"stderr", "joining"},
             Tool!JoinReader(p, then)
      PROVE  ToolInv'
  <2>1. CASE /\ pc' = then /\ UNCHANGED <<leader, helper, readers, armed, result, late>>
    BY <1>5, <2>1, ToolFields DEF ToolInv, Tool!TypeOK, Tool!Results, Tool!Pipes, Tool!JoinReader
  <2>2. CASE /\ Tool!KillGroup /\ Tool!Disarm /\ readers' = Tool!NoReaders
             /\ Tool!Return(IF readers[p] = "failed" THEN "Pipe" ELSE "Timeout")
    <3>1. pc' = "returned" /\ result' \in {"Pipe", "Timeout"} /\ late' = late
      BY <1>5, <2>2 DEF Tool!JoinReader, Tool!Return
    <3> QED  BY <2>2, <3>1, ToolEnds DEF Tool!Disarm, Tool!Results
  <2> QED  BY <1>5, <2>1, <2>2 DEF Tool!JoinReader
<1>6. ASSUME Tool!Complete PROVE ToolInv'
  <2>1. pc' = "returned" /\ result' \in Tool!Results /\ late' = late /\ readers' = readers
    BY <1>6 DEF Tool!Complete, Tool!Return, Tool!Results
  <2> QED  BY <1>6, <2>1, ToolEnds DEF Tool!Complete, Tool!Disarm
<1> QED  BY <1>1, <1>2, <1>3, <1>4, <1>5, <1>6 DEF Tool!Runner, Tool!Pipes

LEMMA ToolDropKeeps == ASSUME ToolInv, Tool!Drop PROVE ToolInv'
<1>1. pc' = "dropped" /\ armed' = FALSE /\ readers' = readers /\ late' = late /\ result' = result
  BY DEF Tool!Drop
<1>2. CASE armed
  BY <1>1, <1>2, ToolFields, ToolEnds DEF Tool!Drop, Tool!Results
<1>3. CASE ~armed
  <2>1. leader' = leader /\ helper' = helper /\ leader # "running" /\ helper = "none"
    BY <1>3 DEF Tool!Drop, ToolInv
  <2> QED  BY <1>1, <2>1, ToolFields DEF ToolInv, Tool!TypeOK, Tool!Results
<1> QED  BY <1>2, <1>3

\* The tool and its pipes.
LEMMA ToolWorldKeeps ==
  ASSUME ToolInv,
         \/ Tool!Fork \/ Tool!Exit \/ Tool!HelperExits \/ Tool!Deadline
         \/ \E p \in Tool!Pipes : Tool!Drain(p)
  PROVE  ToolInv'
<1>1. ASSUME Tool!Fork PROVE ToolInv'
  BY <1>1, ToolFields DEF ToolInv, Tool!TypeOK, Tool!Fork
<1>2. ASSUME Tool!Exit \/ Tool!HelperExits PROVE ToolInv'
  BY <1>2, ToolFields DEF ToolInv, Tool!TypeOK, Tool!Exit, Tool!HelperExits
<1>3. ASSUME Tool!Deadline PROVE ToolInv'
  BY <1>3, ToolFields DEF ToolInv, Tool!TypeOK, Tool!Deadline
<1>4. ASSUME NEW p \in Tool!Pipes, Tool!Drain(p) PROVE ToolInv'
  BY <1>4, ToolFields DEF ToolInv, Tool!TypeOK, Tool!Drain
<1> QED  BY <1>1, <1>2, <1>3, <1>4

LEMMA ToolNext == ASSUME ToolInv, [MCNext]_allVars PROVE ToolInv'
<1>1. CASE UNCHANGED toolVars
  BY <1>1 DEF toolVars, ToolInv, Tool!TypeOK
<1>2. CASE Tool!Next
  BY <1>2, ToolRunnerKeeps, ToolDropKeeps, ToolWorldKeeps DEF Tool!Next
<1> QED  BY <1>1, <1>2 DEF MCNext, allVars


-----------------------------------------------------------------------------
(* The pool of decoders.                                                   *)

\* The guilds that hold a slot are no more than there are slots, a track is
\* prepared by the adapter, and beside a playing one only under the permit.
PoolInv ==
  /\ Pool!TypeOK
  /\ Pool!SlotsInUse <= MaxProcesses
  /\ \A g \in Guilds : /\ next[g] # "none" => adapter[g] # "idle"
                       /\ adapter[g] # "idle" /\ playing[g] # "none" => replacement = g

LEMMA PoolCardinality == \A S : Pool!Cardinality(S) = Cardinality(S)
BY Zenon DEF Pool!Cardinality, Cardinality

LEMMA SlotHolders ==
  /\ IsFiniteSet({g \in Guilds : Pool!HoldsSlot(g)})
  /\ Pool!SlotsInUse = Cardinality({g \in Guilds : Pool!HoldsSlot(g)})
  /\ Pool!SlotsInUse \in Nat /\ MaxProcesses \in Nat
<1> DEFINE holders == {g \in Guilds : Pool!HoldsSlot(g)}
<1>1. IsFiniteSet(holders)
  BY TasksAssumption, FS_Subset
<1>2. Pool!SlotsInUse = Cardinality(holders)
  BY PoolCardinality DEF Pool!SlotsInUse
<1> HIDE DEF holders
<1>3. Cardinality(holders) \in Nat
  BY <1>1, FS_CardinalityType
<1>4. MaxProcesses \in Nat
  BY TasksAssumption
<1> USE DEF holders
<1> QED  BY <1>1, <1>2, <1>3, <1>4

\* Slots are only given back.
LEMMA SlotsGivenBack ==
  ASSUME Pool!SlotsInUse <= MaxProcesses,
         \A g \in Guilds : Pool!HoldsSlot(g)' => Pool!HoldsSlot(g)
  PROVE  (Pool!SlotsInUse <= MaxProcesses)'
<1> DEFINE before == {g \in Guilds : Pool!HoldsSlot(g)}
           after  == {g \in Guilds : Pool!HoldsSlot(g)'}
<1>1. IsFiniteSet(before) /\ after \in SUBSET before
  BY SlotHolders
<1>2. /\ Cardinality(after) <= Cardinality(before)
      /\ Cardinality(after) \in Nat /\ Cardinality(before) \in Nat
  BY <1>1, FS_Subset, FS_CardinalityType
<1>3. Pool!SlotsInUse = Cardinality(before) /\ Pool!SlotsInUse' = Cardinality(after)
  BY SlotHolders, PoolCardinality DEF Pool!SlotsInUse
<1> HIDE DEF before, after
<1> QED  BY <1>2, <1>3, SlotHolders

LEMMA PoolInit == ASSUME Pool!Init PROVE PoolInv
<1>1. {g \in Guilds : Pool!HoldsSlot(g)} = {}
  BY DEF Pool!Init, Pool!HoldsSlot
<1>2. Pool!SlotsInUse <= MaxProcesses
  BY <1>1, FS_EmptySet, SlotHolders
<1> QED  BY <1>2 DEF Pool!Init, PoolInv, Pool!TypeOK

\* A playback of its own takes a slot that is free.
LEMMA SpawnKeeps == ASSUME PoolInv, NEW g \in Guilds, Pool!Spawn(g) PROVE PoolInv'
<1>1. /\ adapter[g] = "idle" /\ playing[g] = "none" /\ Pool!SlotsInUse < MaxProcesses
      /\ adapter' = [adapter EXCEPT ![g] = "spawning"]
      /\ UNCHANGED <<playing, next, replacement>>
      /\ adapter \in [Guilds -> {"idle", "spawning", "prepared"}]
  BY DEF Pool!Spawn, PoolInv, Pool!TypeOK
<1> DEFINE before == {h \in Guilds : Pool!HoldsSlot(h)}
<1>2. {h \in Guilds : Pool!HoldsSlot(h)'} = before \cup {g} /\ g \notin before
  BY <1>1 DEF Pool!HoldsSlot
<1>3. IsFiniteSet(before) /\ Cardinality(before) \in Nat /\ MaxProcesses \in Nat
      /\ Cardinality(before) < MaxProcesses
  BY <1>1, SlotHolders
<1>4. Pool!SlotsInUse' = Cardinality(before \cup {g})
  BY <1>2, PoolCardinality DEF Pool!SlotsInUse
<1> HIDE DEF before
<1>5. (Pool!SlotsInUse <= MaxProcesses)'
  BY <1>2, <1>3, <1>4, FS_AddElement
<1>6. adapter' \in [Guilds -> {"idle", "spawning", "prepared"}]
  BY <1>1
<1>7. \A h \in Guilds : /\ next'[h] # "none" => adapter'[h] # "idle"
                        /\ adapter'[h] # "idle" /\ playing'[h] # "none" => replacement' = h
  BY <1>1 DEF PoolInv
<1> QED  BY <1>1, <1>5, <1>6, <1>7 DEF PoolInv, Pool!TypeOK

\* A replacement takes the permit, and shares the slot.
LEMMA SpawnReplacementKeeps ==
  ASSUME PoolInv, NEW g \in Guilds, Pool!SpawnReplacement(g) PROVE PoolInv'
<1>1. /\ adapter[g] = "idle" /\ playing[g] # "none" /\ replacement = NoGuild
      /\ replacement' = g /\ adapter' = [adapter EXCEPT ![g] = "spawning"]
      /\ UNCHANGED <<playing, next>>
      /\ adapter \in [Guilds -> {"idle", "spawning", "prepared"}]
  BY DEF Pool!SpawnReplacement, PoolInv, Pool!TypeOK
<1>2. (Pool!SlotsInUse <= MaxProcesses)'
  BY <1>1, SlotsGivenBack DEF PoolInv, Pool!HoldsSlot
<1>3. \A h \in Guilds : /\ next'[h] # "none" => adapter'[h] # "idle"
                        /\ adapter'[h] # "idle" /\ playing'[h] # "none" => replacement' = h
  BY <1>1, TasksAssumption DEF PoolInv
<1> QED  BY <1>1, <1>2, <1>3 DEF PoolInv, Pool!TypeOK

\* The steps of one guild's adapter that take neither slot nor permit.
LEMMA PoolStepKeeps ==
  ASSUME PoolInv, NEW g \in Guilds,
         \/ Pool!ChildStarts(g) \/ Pool!WorkerStarts(g) \/ Pool!SpawnFails(g)
         \/ Pool!Exits(g) \/ Pool!Replace(g) \/ Pool!StopActive(g)
  PROVE  PoolInv'
<1>1. /\ adapter \in [Guilds -> {"idle", "spawning", "prepared"}]
      /\ playing \in [Guilds -> {"none", "running", "exited"}]
      /\ next \in [Guilds -> {"none", "running", "exited"}]
      /\ replacement \in Guilds \cup {NoGuild}
  BY DEF PoolInv, Pool!TypeOK
<1>2. Pool!TypeOK'
  BY <1>1 DEF Pool!ChildStarts, Pool!WorkerStarts, Pool!SpawnFails, Pool!Exits, Pool!Replace,
              Pool!StopActive, Pool!Release, Pool!TypeOK
<1>3. \A h \in Guilds : Pool!HoldsSlot(h)' => Pool!HoldsSlot(h)
  BY <1>1 DEF Pool!ChildStarts, Pool!WorkerStarts, Pool!SpawnFails, Pool!Exits, Pool!Replace,
              Pool!StopActive, Pool!HoldsSlot, PoolInv
<1>4. \A h \in Guilds : next'[h] # "none" => adapter'[h] # "idle"
  BY <1>1 DEF Pool!ChildStarts, Pool!WorkerStarts, Pool!SpawnFails, Pool!Exits, Pool!Replace,
              Pool!StopActive, PoolInv
<1>5. \A h \in Guilds : adapter'[h] # "idle" /\ playing'[h] # "none" => replacement' = h
  BY <1>1 DEF Pool!ChildStarts, Pool!WorkerStarts, Pool!SpawnFails, Pool!Exits, Pool!Replace,
              Pool!StopActive, Pool!Release, PoolInv
<1> QED  BY <1>2, <1>3, <1>4, <1>5, SlotsGivenBack DEF PoolInv

LEMMA PoolNext == ASSUME PoolInv, [MCNext]_allVars PROVE PoolInv'
<1>1. CASE UNCHANGED poolVars
  BY <1>1 DEF poolVars, PoolInv, Pool!TypeOK, Pool!SlotsInUse, Pool!HoldsSlot
<1>2. CASE Pool!Next
  BY <1>2, SpawnKeeps, SpawnReplacementKeeps, PoolStepKeeps DEF Pool!Next
<1> QED  BY <1>1, <1>2 DEF MCNext, allVars

\* All processes but the replacement of the guild with the permit belong to
\* different guilds, each of which holds a slot.
LEMMA PoolBounded == ASSUME PoolInv PROVE Pool!DecodersBounded
<1> DEFINE slots  == {g \in Guilds : Pool!HoldsSlot(g)}
           spare  == <<replacement, "next">>
           others == Pool!Processes \ {spare}
           guild  == [p \in others |-> p[1]]
<1>1. IsFiniteSet(slots) /\ Cardinality(slots) \in Nat /\ Cardinality(slots) <= MaxProcesses
  BY SlotHolders DEF PoolInv
<1>2. \A p \in others :
        \E g \in slots : \/ p = <<g, "active">> /\ playing[g] = "running"
                         \/ p = <<g, "next">> /\ next[g] = "running" /\ g # replacement
  BY DEF Pool!Processes, Pool!HoldsSlot, PoolInv
<1>3. guild \in Injection(others, slots)
  <2>1. guild \in [others -> slots]
    BY <1>2
  <2>2. ASSUME NEW p \in others, NEW q \in others, guild[p] = guild[q] PROVE p = q
    <3>1. p[1] = q[1]
      BY <2>2
    <3>2. PICK g \in slots : \/ p = <<g, "active">> /\ playing[g] = "running"
                             \/ p = <<g, "next">> /\ next[g] = "running" /\ g # replacement
      BY <1>2
    <3>3. PICK h \in slots : \/ q = <<h, "active">> /\ playing[h] = "running"
                             \/ q = <<h, "next">> /\ next[h] = "running" /\ h # replacement
      BY <1>2
    <3>4. g = h /\ g \in Guilds
      BY <3>1, <3>2, <3>3
    <3>5. ~(playing[g] = "running" /\ next[g] = "running" /\ g # replacement)
      BY <3>4 DEF PoolInv
    <3> QED  BY <3>2, <3>3, <3>4, <3>5
  <2> QED  BY <2>1, <2>2 DEF Injection, IsInjective
<1> HIDE DEF guild
<1>4. IsFiniteSet(others) /\ Cardinality(others) <= Cardinality(slots)
  BY <1>1, <1>3, FS_Injection
<1>5. Cardinality(others) \in Nat
  BY <1>4, FS_CardinalityType
<1>6. Pool!Processes \in SUBSET (others \cup {spare})
  OBVIOUS
<1> HIDE DEF others, slots, spare
<1>7. /\ IsFiniteSet(others \cup {spare})
      /\ Cardinality(others \cup {spare}) <= Cardinality(others) + 1
  <2>1. /\ IsFiniteSet(others \cup {spare})
        /\ \/ Cardinality(others \cup {spare}) = Cardinality(others)
           \/ Cardinality(others \cup {spare}) = Cardinality(others) + 1
    BY <1>4, FS_AddElement, Zenon
  <2> QED  BY <1>5, <2>1
<1>8. /\ Cardinality(Pool!Processes) <= Cardinality(others \cup {spare})
      /\ Cardinality(Pool!Processes) \in Nat /\ Cardinality(others \cup {spare}) \in Nat
  BY <1>6, <1>7, FS_Subset, FS_CardinalityType
<1>9. Pool!Cardinality(Pool!Processes) <= MaxProcesses + 1
  BY <1>1, <1>4, <1>5, <1>7, <1>8, SlotHolders, PoolCardinality
<1> QED  BY <1>9 DEF Pool!DecodersBounded

\* However many guilds skip at once, one decoder more than the pool allows runs
\* at most (FfmpegDecoderFactory's two semaphores); and nothing of a tool's
\* process group is alive once its run is over (RealProcessRunner::run).
THEOREM ProcessesStayContained == MCSpec => []ProcessesAreContained
<1>1. MCInit => ToolInv /\ PoolInv
  BY ToolInit, PoolInit DEF MCInit
<1>2. ToolInv /\ PoolInv /\ [MCNext]_allVars => ToolInv' /\ PoolInv'
  BY ToolNext, PoolNext
<1>3. ASSUME ToolInv, PoolInv PROVE ProcessesAreContained
  <2>1. Tool!TypeOK /\ Tool!NoOrphans
    BY <1>3 DEF ToolInv, Tool!NoOrphans
  <2>2. Pool!TypeOK /\ Pool!DecodersBounded
    BY <1>3, PoolBounded DEF PoolInv
  <2> QED  BY <2>1, <2>2 DEF ProcessesAreContained
<1> QED  BY <1>1, <1>2, <1>3, PTL DEF MCSpec

-----------------------------------------------------------------------------
(* The audio pipeline.                                                     *)

TrackRecords ==
  [outcome : Outcomes, cancelled : BOOLEAN, emitted : BOOLEAN, clean : BOOLEAN,
   worker : {"none", "reading", "writing", "finishing", "flushing", "flushed",
             "failing", "reporting", "done"},
   song : {"none", "playing", "paused", "over"},
   handler : {"none", "error", "check", "claim", "emit", "finished"},
   pipe : 0..PipeBlocks, control : Settings \cup {None}, applied : Settings \cup {None}]

EventRecords == [gen : Nat, reason : Reasons]

Calls == [op : {"none", "play", "stop", "set", "leave"},
          pc : {"none", "spawn", "replace", "install", "stop", "stopped", "ack", "remove"},
          gen : 0..MaxGeneration, old : 0..MaxGeneration, setting : Settings \cup {None},
          forEnd : BOOLEAN]

\* The types of what TypeOK leaves open, too.
PipelineTypes ==
  /\ tracks \in [Generations -> TrackRecords]
  /\ current \in 0..MaxGeneration /\ active \in 0..MaxGeneration
  /\ state \in Settings
  /\ call \in Calls
  /\ player \in [gen : Nat, spent : 0..MaxGeneration, setting : Settings, alive : BOOLEAN]
  /\ events \in [queue : Seq(EventRecords), lagged : BOOLEAN]
  /\ Len(events.queue) <= EventCapacity
  /\ bridge \in [pc : {"listening", "telling", "recovering", "closed"}, report : EventRecords]

\* An outcome says how the worker ended: a clean end of the decoder leads to the
\* end of the worker only, and a failure is claimed only where there was none.
OutcomeIsTrue(t) ==
  /\ t.clean => t.worker \in {"flushing", "flushed", "done"}
  /\ t.worker \in {"flushing", "flushed"} => t.clean
  /\ t.outcome = "natural" => t.clean
  /\ t.outcome = "failed" => ~t.clean /\ t.worker \in {"reporting", "done"}

\* An event does, and the worker it speaks of can no longer belie it.
EventIsTrue(ts, e) ==
  e.gen # 0 =>
    /\ e.gen \in Generations
    /\ e.reason = "Natural" => ts[e.gen].clean
    /\ e.reason = "WorkerFailed" =>
         ~ts[e.gen].clean /\ ts[e.gen].worker \in {"reporting", "done"}

EventsAreTrue ==
  /\ \A g \in Generations : OutcomeIsTrue(tracks[g])
  /\ \A i \in 1..Len(events.queue) : EventIsTrue(tracks, events.queue[i])
  /\ EventIsTrue(tracks, bridge.report)

\* A generation is used once: a call prepares one that has no worker yet.
GenerationsAreFresh ==
  /\ \A g \in Generations : g > player.spent => tracks[g].worker = "none"
  /\ call.pc = "spawn" => /\ call.gen = player.spent /\ call.gen \in Generations
                          /\ tracks[call.gen].worker = "none"
  /\ call.pc \in {"replace", "install"} =>
       call.gen \in Generations /\ tracks[call.gen].worker # "none"
  /\ active # 0 => tracks[active].worker # "none"

\* A setting on its way to a worker is that of the call under way, and the active
\* worker has all settings but that one, as has the one about to be installed.
SettingsAreSent ==
  /\ player.setting = state
  /\ \A g \in Generations : tracks[g].control # None =>
       call.pc = "ack" /\ g = active /\ tracks[g].control = call.setting
  /\ call.pc = "ack" => active # 0 /\ call.setting \in Settings
  /\ call.pc \in {"replace", "install"} => tracks[call.gen].applied = state
  /\ active # 0 /\ AcceptsControl(active) =>
       IF call.pc = "ack" /\ tracks[active].control = None
       THEN tracks[active].applied = call.setting
       ELSE tracks[active].applied = state

PipelineInv == PipelineTypes /\ EventsAreTrue /\ GenerationsAreFresh /\ SettingsAreSent

LEMMA TrackFields ==
  ASSUME PipelineTypes, NEW g \in Generations
  PROVE  /\ tracks[g] \in TrackRecords
         /\ tracks[g].outcome \in Outcomes
         /\ tracks[g].worker \in {"none", "reading", "writing", "finishing", "flushing", "flushed",
                                 "failing", "reporting", "done"}
         /\ tracks[g].cancelled \in BOOLEAN /\ tracks[g].emitted \in BOOLEAN
         /\ tracks[g].clean \in BOOLEAN
         /\ tracks[g].song \in {"none", "playing", "paused", "over"}
         /\ tracks[g].handler \in {"none", "error", "check", "claim", "emit", "finished"}
         /\ tracks[g].pipe \in 0..PipeBlocks /\ tracks[g].pipe \in Int
         /\ tracks[g].control \in Settings \cup {None}
         /\ tracks[g].applied \in Settings \cup {None}
         /\ DOMAIN tracks = Generations
<1>1. tracks[g] \in TrackRecords /\ DOMAIN tracks = Generations
  BY DEF PipelineTypes
<1> QED  BY <1>1 DEF TrackRecords

\* What a step may do to a playback that is under way: it stays one, and what an
\* event has said of it stays true.
Grows(t, u) ==
  /\ u \in TrackRecords /\ OutcomeIsTrue(u)
  /\ u.worker = "none" <=> t.worker = "none"
  /\ t.clean => u.clean
  /\ ~t.clean /\ t.worker \in {"reporting", "done"} =>
       ~u.clean /\ u.worker \in {"reporting", "done"}

\* The settings of the worker and the way to it are left alone.
Calm(t, u) ==
  /\ u.applied = t.applied /\ u.control = t.control
  /\ u.outcome = "running" /\ ~u.cancelled => t.outcome = "running" /\ ~t.cancelled

LEMMA StaysTrue ==
  ASSUME NEW ts, NEW us, NEW e, EventIsTrue(ts, e),
         \A g \in Generations : Grows(ts[g], us[g])
  PROVE  EventIsTrue(us, e)
BY DEF EventIsTrue, Grows

\* The settings are still sent when no worker's are touched.
LEMMA NothingSent ==
  ASSUME PipelineInv, \A g \in Generations : Calm(tracks[g], tracks'[g]),
         UNCHANGED <<active, state, call, player>>
  PROVE  SettingsAreSent'
<1>1. active \in 0..MaxGeneration
  BY DEF PipelineInv, PipelineTypes
<1>2. call.pc \in {"replace", "install"} => call.gen \in Generations
  BY DEF PipelineInv, GenerationsAreFresh
<1>3. active # 0 => active \in Generations
  BY <1>1, PipelineAssumption DEF Generations
<1> QED  BY <1>2, <1>3 DEF PipelineInv, SettingsAreSent, Calm, AcceptsControl

\* A step of one playback, with events that are true after it.
LEMMA PlaybackStep ==
  ASSUME PipelineInv, NEW g \in Generations, NEW u,
         tracks' = [tracks EXCEPT ![g] = u], Grows(tracks[g], u), Calm(tracks[g], u),
         UNCHANGED <<current, active, state, call, player, bridge>>,
         events' \in [queue : Seq(EventRecords), lagged : BOOLEAN],
         Len(events'.queue) <= EventCapacity,
         \A i \in 1..Len(events'.queue) : EventIsTrue(tracks', events'.queue[i])
  PROVE  PipelineInv'
<1>1. /\ tracks \in [Generations -> TrackRecords]
      /\ \A h \in Generations : tracks'[h] = IF h = g THEN u ELSE tracks[h]
  BY DEF PipelineInv, PipelineTypes
<1>2. u \in TrackRecords
  BY DEF Grows
<1>3. tracks' \in [Generations -> TrackRecords]
  BY <1>1, <1>2
<1>4. \A h \in Generations : Grows(tracks[h], tracks'[h])
  BY <1>1 DEF PipelineInv, EventsAreTrue, Grows
<1>5. \A h \in Generations : Calm(tracks[h], tracks'[h])
  BY <1>1 DEF Calm
<1>6. PipelineTypes'
  BY <1>3 DEF PipelineInv, PipelineTypes
<1>7. EventsAreTrue'
  <2>1. \A h \in Generations : OutcomeIsTrue(tracks'[h])
    BY <1>4 DEF Grows
  <2>2. EventIsTrue(tracks', bridge.report)
    BY <1>4, StaysTrue DEF PipelineInv, EventsAreTrue
  <2> QED  BY <2>1, <2>2 DEF EventsAreTrue
<1>8. GenerationsAreFresh'
  <2>1. \A h \in Generations : tracks'[h].worker = "none" <=> tracks[h].worker = "none"
    BY <1>4 DEF Grows
  <2>2. active # 0 => active \in Generations
    BY PipelineAssumption DEF PipelineInv, PipelineTypes, Generations
  <2> QED  BY <2>1, <2>2 DEF PipelineInv, GenerationsAreFresh
<1>9. SettingsAreSent'
  BY <1>5, NothingSent
<1> QED  BY <1>6, <1>7, <1>8, <1>9 DEF PipelineInv

LEMMA SilentStep ==
  ASSUME PipelineInv, NEW g \in Generations, NEW u,
         tracks' = [tracks EXCEPT ![g] = u], Grows(tracks[g], u), Calm(tracks[g], u),
         UNCHANGED <<current, active, state, call, player, bridge, events>>
  PROVE  PipelineInv'
<1>1. /\ events' \in [queue : Seq(EventRecords), lagged : BOOLEAN]
      /\ Len(events'.queue) <= EventCapacity
  BY DEF PipelineInv, PipelineTypes
<1>2. \A h \in Generations : Grows(tracks[h], tracks'[h])
  BY DEF PipelineInv, PipelineTypes, EventsAreTrue, Grows
<1>3. \A i \in 1..Len(events.queue) : EventIsTrue(tracks', events.queue[i])
  BY <1>2, StaysTrue DEF PipelineInv, EventsAreTrue
<1> QED  BY <1>1, <1>3, PlaybackStep

\* A step of one playback that emits a true event.
LEMMA EmittingStep ==
  ASSUME PipelineInv, NEW g \in Generations, NEW u, NEW reason \in Reasons,
         tracks' = [tracks EXCEPT ![g] = u], Grows(tracks[g], u), Calm(tracks[g], u),
         UNCHANGED <<current, active, state, call, player, bridge>>,
         Emit(g, reason), EventIsTrue(tracks', [gen |-> g, reason |-> reason])
  PROVE  PipelineInv'
<1> DEFINE full == Len(events.queue) = EventCapacity
           kept == IF full THEN Tail(events.queue) ELSE events.queue
           said == [gen |-> g, reason |-> reason]
<1>1. /\ events.queue \in Seq(EventRecords) /\ Len(events.queue) <= EventCapacity
      /\ EventCapacity \in Nat /\ EventCapacity >= 1 /\ events.lagged \in BOOLEAN
  BY PipelineAssumption DEF PipelineInv, PipelineTypes
<1>2. Len(events.queue) \in Nat
  BY <1>1, LenProperties
<1>3. /\ kept \in Seq(EventRecords) /\ Len(kept) \in Nat /\ Len(kept) < EventCapacity
      /\ \A i \in 1..Len(kept) : \E j \in 1..Len(events.queue) : kept[i] = events.queue[j]
  <2>1. CASE full
    <3>1. events.queue # <<>>
      BY <1>1, <2>1, EmptySeq
    <3>2. /\ Tail(events.queue) \in Seq(EventRecords)
          /\ Len(Tail(events.queue)) = Len(events.queue) - 1
          /\ \A i \in 1..Len(Tail(events.queue)) : Tail(events.queue)[i] = events.queue[i+1]
      BY <1>1, <3>1, HeadTailProperties
    <3> QED  BY <1>1, <1>2, <2>1, <3>2
  <2>2. CASE ~full
    BY <1>1, <1>2, <2>2
  <2> QED  BY <2>1, <2>2
<1>4. said \in EventRecords
  BY PipelineAssumption DEF EventRecords, Generations
<1>5. events' = [queue |-> Append(kept, said), lagged |-> (events.lagged \/ full)]
  BY DEF Emit
<1>6. \A h \in Generations : Grows(tracks[h], tracks'[h])
  BY DEF PipelineInv, PipelineTypes, EventsAreTrue, Grows
<1>7. \A i \in 1..Len(kept) : EventIsTrue(tracks', kept[i])
  BY <1>3, <1>6, StaysTrue DEF PipelineInv, EventsAreTrue
<1>8. EventIsTrue(tracks', said)
  OBVIOUS
<1> HIDE DEF kept, said
<1>9. /\ Append(kept, said) \in Seq(EventRecords)
      /\ Len(Append(kept, said)) = Len(kept) + 1
      /\ \A i \in 1..Len(kept) : Append(kept, said)[i] = kept[i]
      /\ Append(kept, said)[Len(kept) + 1] = said
  BY <1>3, <1>4, AppendProperties
<1>10. \A i \in 1..Len(Append(kept, said)) : EventIsTrue(tracks', Append(kept, said)[i])
  <2> SUFFICES ASSUME NEW i \in 1..Len(Append(kept, said))
               PROVE  EventIsTrue(tracks', Append(kept, said)[i])
    OBVIOUS
  <2>1. CASE i \in 1..Len(kept)
    BY <1>7, <1>9, <2>1
  <2>2. CASE i = Len(kept) + 1
    BY <1>8, <1>9, <2>2
  <2> QED  BY <1>3, <1>9, <2>1, <2>2
<1>11. /\ events'.queue = Append(kept, said)
       /\ events' \in [queue : Seq(EventRecords), lagged : BOOLEAN]
  BY <1>1, <1>5, <1>9
<1>12. Len(events'.queue) <= EventCapacity
  BY <1>1, <1>3, <1>9, <1>11
<1> QED  BY <1>10, <1>11, <1>12, PlaybackStep

LEMMA TrackOf ==
  ASSUME PipelineInv, NEW g \in Generations
  PROVE  OutcomeIsTrue(tracks[g]) /\ tracks[g] \in TrackRecords
BY TrackFields DEF PipelineInv, EventsAreTrue

\* A worker and its decoder, but for a command: the outcome that is claimed fits.
LEMMA WorkerKeeps ==
  ASSUME PipelineInv, NEW g \in Generations,
         \/ Cancelled(g) \/ Read(g) \/ Write(g) \/ Finish(g) \/ Flush(g) \/ MarkNatural(g)
         \/ WorkerFailed(g)
  PROVE  PipelineInv'
<1>1. /\ UNCHANGED <<current, active, state, call, player, bridge, events>>
      /\ OutcomeIsTrue(tracks[g]) /\ tracks[g] \in TrackRecords
  BY TrackOf DEF Cancelled, Read, Write, Finish, Flush, MarkNatural, WorkerFailed, WorkerOnly
<1>2. ASSUME NEW to \in {"done", "writing", "finishing", "failing", "flushed"},
             Step(g, tracks[g].worker, to),
             \/ to = "done" /\ tracks[g].worker \in {"reading", "writing", "finishing"}
             \/ to \in {"writing", "finishing", "failing"} /\ tracks[g].worker \in {"reading", "writing"}
             \/ to = "flushed" /\ tracks[g].worker = "flushing"
      PROVE  PipelineInv'
  <2> DEFINE u == [tracks[g] EXCEPT !.worker = to]
  <2>1. tracks' = [tracks EXCEPT ![g] = u]
    BY <1>2 DEF Step
  <2>2. Grows(tracks[g], u)
    BY <1>1, <1>2 DEF Grows, OutcomeIsTrue, TrackRecords
  <2>3. Calm(tracks[g], u)
    BY <1>1 DEF Calm, TrackRecords
  <2> QED  BY <1>1, <2>1, <2>2, <2>3, SilentStep
<1>3. CASE Cancelled(g)
  BY <1>2, <1>3 DEF Cancelled, Step
<1>4. CASE Read(g)
  BY <1>2, <1>4 DEF Read, Step
<1>5. CASE Write(g)
  <2>1. CASE Step(g, "writing", "failing")
    BY <1>2, <1>5, <2>1 DEF Write, Step
  <2>2. CASE /\ tracks[g].pipe < PipeBlocks
             /\ tracks' = [tracks EXCEPT ![g].pipe = @ + 1, ![g].worker = "reading"]
    <3> DEFINE u == [tracks[g] EXCEPT !.pipe = @ + 1, !.worker = "reading"]
    <3>1. tracks' = [tracks EXCEPT ![g] = u]
      BY <2>2
    <3>2. tracks[g].pipe + 1 \in 0..PipeBlocks
      BY <1>1, <2>2, PipelineAssumption DEF TrackRecords
    <3>3. Grows(tracks[g], u)
      BY <1>1, <1>5, <3>2 DEF Write, Grows, OutcomeIsTrue, TrackRecords
    <3>4. Calm(tracks[g], u)
      BY <1>1 DEF Calm, TrackRecords
    <3> QED  BY <1>1, <3>1, <3>3, <3>4, SilentStep
  <2> QED  BY <1>5, <2>1, <2>2 DEF Write
<1>6. CASE Finish(g)
  <2>1. PICK ok \in BOOLEAN :
          tracks' = [tracks EXCEPT ![g].worker = IF ok THEN "flushing" ELSE "failing",
                                   ![g].clean = ok]
    BY <1>6 DEF Finish
  <2> DEFINE u == [tracks[g] EXCEPT !.worker = IF ok THEN "flushing" ELSE "failing", !.clean = ok]
  <2>2. tracks' = [tracks EXCEPT ![g] = u]
    BY <2>1
  <2>3. Grows(tracks[g], u)
    BY <1>1, <1>6 DEF Finish, Grows, OutcomeIsTrue, TrackRecords
  <2>4. Calm(tracks[g], u)
    BY <1>1 DEF Calm, TrackRecords
  <2> QED  BY <1>1, <2>2, <2>3, <2>4, SilentStep
<1>7. CASE Flush(g)
  BY <1>2, <1>7 DEF Flush, Step
<1>8. CASE MarkNatural(g)
  <2> DEFINE u == [tracks[g] EXCEPT !.worker = "done",
                                    !.outcome = IF @ = "running" THEN "natural" ELSE @]
  <2>1. tracks' = [tracks EXCEPT ![g] = u]
    BY <1>8 DEF MarkNatural
  <2>2. Grows(tracks[g], u)
    BY <1>1, <1>8 DEF MarkNatural, Grows, OutcomeIsTrue, TrackRecords, Outcomes
  <2>3. Calm(tracks[g], u)
    BY <1>1 DEF Calm, TrackRecords
  <2> QED  BY <1>1, <2>1, <2>2, <2>3, SilentStep
<1>9. CASE WorkerFailed(g)
  <2> DEFINE claim == ~tracks[g].cancelled /\ tracks[g].outcome = "running"
             u == [tracks[g] EXCEPT !.worker = IF claim THEN "reporting" ELSE "done",
                                    !.outcome = IF claim THEN "failed" ELSE @]
  <2>1. tracks' = [tracks EXCEPT ![g] = u] /\ tracks[g].worker = "failing"
    BY <1>9 DEF WorkerFailed
  <2>2. Grows(tracks[g], u)
    BY <1>1, <2>1 DEF Grows, OutcomeIsTrue, TrackRecords, Outcomes
  <2>3. Calm(tracks[g], u)
    BY <1>1 DEF Calm, TrackRecords
  <2> QED  BY <1>1, <2>1, <2>2, <2>3, SilentStep
<1> QED  BY <1>3, <1>4, <1>5, <1>6, <1>7, <1>8, <1>9

\* A failure that was claimed is a failure.
LEMMA ReportKeeps == ASSUME PipelineInv, NEW g \in Generations, ReportFailure(g) PROVE PipelineInv'
<1> DEFINE u == [tracks[g] EXCEPT !.worker = "done"]
<1>1. /\ OutcomeIsTrue(tracks[g]) /\ tracks[g] \in TrackRecords
      /\ tracks[g].worker = "reporting" /\ tracks' = [tracks EXCEPT ![g] = u]
      /\ UNCHANGED <<current, active, state, call, player, bridge>>
  BY TrackOf DEF ReportFailure, Step, WorkerOnly
<1>2. Grows(tracks[g], u)
  BY <1>1 DEF Grows, OutcomeIsTrue, TrackRecords
<1>3. Calm(tracks[g], u)
  BY <1>1 DEF Calm, TrackRecords
<1>4. CASE Emit(g, "WorkerFailed")
  <2>1. tracks'[g].worker = "done" /\ ~tracks'[g].clean
    BY <1>1 DEF OutcomeIsTrue, TrackRecords, PipelineInv, PipelineTypes
  <2>2. EventIsTrue(tracks', [gen |-> g, reason |-> "WorkerFailed"])
    BY <2>1 DEF EventIsTrue
  <2> QED  BY <1>1, <1>2, <1>3, <1>4, <2>2, EmittingStep DEF Reasons
<1>5. CASE UNCHANGED events
  BY <1>1, <1>2, <1>3, <1>5, SilentStep
<1> QED  BY <1>4, <1>5 DEF ReportFailure

\* Whatever Songbird does leaves the worker alone.
LEMMA GrowsAlone ==
  ASSUME NEW t, NEW u \in TrackRecords, OutcomeIsTrue(t),
         u.worker = t.worker, u.clean = t.clean,
         u.outcome = t.outcome \/ u.outcome \notin {"natural", "failed"}
  PROVE  Grows(t, u)
BY DEF Grows, OutcomeIsTrue

\* Songbird and its handlers.
LEMMA SongKeeps ==
  ASSUME PipelineInv, NEW g \in Generations,
         Play(g) \/ SongOver(g) \/ HandleError(g) \/ HandleEnd(g) \/ ClaimEnd(g)
  PROVE  PipelineInv'
<1>1. /\ UNCHANGED <<current, active, state, call, player, bridge, events>>
      /\ OutcomeIsTrue(tracks[g]) /\ tracks[g] \in TrackRecords
  BY TrackOf DEF Play, SongOver, HandleError, HandleEnd, ClaimEnd, WorkerOnly
<1>2. CASE Play(g)
  <2> DEFINE u == [tracks[g] EXCEPT !.pipe = @ - 1]
  <2>1. tracks' = [tracks EXCEPT ![g] = u] /\ tracks[g].pipe > 0
    BY <1>2 DEF Play
  <2>2. tracks[g].pipe - 1 \in 0..PipeBlocks
    BY <1>1, <2>1, PipelineAssumption DEF TrackRecords
  <2>3. Grows(tracks[g], u)
    BY <1>1, <2>2 DEF Grows, OutcomeIsTrue, TrackRecords
  <2>4. Calm(tracks[g], u)
    BY <1>1 DEF Calm, TrackRecords
  <2> QED  BY <1>1, <2>1, <2>3, <2>4, SilentStep
<1>3. CASE SongOver(g)
  <2>1. PICK first \in {"check", "error"} :
          tracks' = [tracks EXCEPT ![g].song = "over", ![g].handler = first, ![g].pipe = 0]
    BY <1>3 DEF SongOver
  <2> DEFINE u == [tracks[g] EXCEPT !.song = "over", !.handler = first, !.pipe = 0]
  <2>2. tracks' = [tracks EXCEPT ![g] = u]
    BY <2>1
  <2> 0 \in 0..PipeBlocks
    BY PipelineAssumption
  <2>3. Grows(tracks[g], u)
    <3>1. u \in TrackRecords
      BY <1>1 DEF TrackRecords
    <3> QED  BY <1>1, <3>1, GrowsAlone DEF TrackRecords
  <2>4. Calm(tracks[g], u)
    BY <1>1 DEF Calm, TrackRecords
  <2> QED  BY <1>1, <2>2, <2>3, <2>4, SilentStep
<1>4. CASE HandleError(g)
  <2> DEFINE u == [tracks[g] EXCEPT
                     !.handler = "check",
                     !.outcome = IF IsCurrent(g) /\ @ = "running" THEN "error" ELSE @]
  <2>1. tracks' = [tracks EXCEPT ![g] = u]
    BY <1>4 DEF HandleError
  <2>2. Grows(tracks[g], u)
    <3>1. u \in TrackRecords
      BY <1>1 DEF TrackRecords, Outcomes
    <3>2. /\ u.worker = tracks[g].worker /\ u.clean = tracks[g].clean
          /\ u.outcome \in {tracks[g].outcome, "error", "ended"}
      BY <1>1 DEF TrackRecords
    <3> HIDE DEF u
    <3> QED  BY <1>1, <3>1, <3>2, GrowsAlone
  <2>3. Calm(tracks[g], u)
    BY <1>1 DEF Calm, TrackRecords
  <2> QED  BY <1>1, <2>1, <2>2, <2>3, SilentStep
<1>5. CASE HandleEnd(g)
  <2> DEFINE suppressed == ~IsCurrent(g) \/ tracks[g].outcome = "manual"
             u == [tracks[g] EXCEPT !.handler = IF suppressed THEN "finished" ELSE "claim",
                                    !.cancelled = @ \/ suppressed]
  <2>1. tracks' = [tracks EXCEPT ![g] = u]
    BY <1>5 DEF HandleEnd
  <2>2. Grows(tracks[g], u)
    <3>1. u \in TrackRecords
      BY <1>1 DEF TrackRecords
    <3>2. /\ u.worker = tracks[g].worker /\ u.clean = tracks[g].clean
          /\ u.outcome \in {tracks[g].outcome, "error", "ended"}
      BY <1>1 DEF TrackRecords
    <3> HIDE DEF u
    <3> QED  BY <1>1, <3>1, <3>2, GrowsAlone
  <2>3. Calm(tracks[g], u)
    BY <1>1 DEF Calm, TrackRecords
  <2> QED  BY <1>1, <2>1, <2>2, <2>3, SilentStep
<1>6. CASE ClaimEnd(g)
  <2> DEFINE u == [tracks[g] EXCEPT !.handler = "emit",
                                    !.outcome = IF @ = "running" THEN "ended" ELSE @]
  <2>1. tracks' = [tracks EXCEPT ![g] = u]
    BY <1>6 DEF ClaimEnd
  <2>2. Grows(tracks[g], u)
    <3>1. u \in TrackRecords
      BY <1>1 DEF TrackRecords, Outcomes
    <3>2. /\ u.worker = tracks[g].worker /\ u.clean = tracks[g].clean
          /\ u.outcome \in {tracks[g].outcome, "error", "ended"}
      BY <1>1 DEF TrackRecords
    <3> HIDE DEF u
    <3> QED  BY <1>1, <3>1, <3>2, GrowsAlone
  <2>3. Calm(tracks[g], u)
    BY <1>1 DEF Calm, TrackRecords
  <2> QED  BY <1>1, <2>1, <2>2, <2>3, SilentStep
<1> QED  BY <1>2, <1>3, <1>4, <1>5, <1>6

\* The end event carries the outcome of now.
LEMMA EmitEndKeeps == ASSUME PipelineInv, NEW g \in Generations, EmitEnd(g) PROVE PipelineInv'
<1> DEFINE u == [tracks[g] EXCEPT !.handler = "finished", !.emitted = TRUE, !.cancelled = TRUE]
           reason == ReasonOf(tracks[g].outcome)
<1>1. /\ OutcomeIsTrue(tracks[g]) /\ tracks[g] \in TrackRecords
      /\ tracks' = [tracks EXCEPT ![g] = u]
      /\ UNCHANGED <<current, active, state, call, player, bridge>>
  BY TrackOf DEF EmitEnd, WorkerOnly
<1>2. Grows(tracks[g], u)
  <2>1. u \in TrackRecords
    BY <1>1 DEF TrackRecords
  <2> QED  BY <1>1, <2>1, GrowsAlone DEF TrackRecords
<1>3. Calm(tracks[g], u)
  BY <1>1 DEF Calm, TrackRecords
<1>4. CASE Emit(g, reason)
  <2>1. tracks'[g].clean = tracks[g].clean /\ tracks'[g].worker = tracks[g].worker
    BY <1>1 DEF TrackRecords, PipelineInv, PipelineTypes
  <2>2. /\ reason \in Reasons
        /\ reason = "Natural" => tracks[g].outcome = "natural"
        /\ reason = "WorkerFailed" => tracks[g].outcome = "failed"
    BY DEF ReasonOf, Reasons
  <2> HIDE DEF reason
  <2>3. EventIsTrue(tracks', [gen |-> g, reason |-> reason])
    BY <1>1, <2>1, <2>2 DEF EventIsTrue, OutcomeIsTrue
  <2> QED  BY <1>1, <1>2, <1>3, <1>4, <2>2, <2>3, EmittingStep
<1>5. CASE UNCHANGED events
  BY <1>1, <1>2, <1>3, <1>5, SilentStep
<1> QED  BY <1>4, <1>5 DEF EmitEnd

LEMMA PipeFacts ==
  ASSUME PipelineInv
  PROVE  /\ active # 0 => active \in Generations
         /\ MaxGeneration \in Nat /\ Generations \subseteq Nat \ {0}
         /\ Generations \subseteq 0..MaxGeneration /\ 0 \in 0..MaxGeneration
         /\ tracks \in [Generations -> TrackRecords]
         /\ call \in Calls /\ NoCall \in Calls
         /\ state \in Settings /\ None \notin Settings
         /\ player \in [gen : Nat, spent : 0..MaxGeneration, setting : Settings, alive : BOOLEAN]
<1>1. MaxGeneration \in Nat /\ MaxGeneration # 0 /\ None \notin Settings
  BY PipelineAssumption
<1>2. NoCall \in Calls
  BY <1>1 DEF NoCall, Calls
<1> QED  BY <1>1, <1>2 DEF PipelineInv, PipelineTypes, Generations

\* Nothing is said, and every playback goes on.
LEMMA NothingSaid ==
  ASSUME PipelineInv, \A g \in Generations : Grows(tracks[g], tracks'[g]),
         events'.queue = events.queue, bridge'.report = bridge.report
  PROVE  EventsAreTrue'
<1>1. \A g \in Generations : OutcomeIsTrue(tracks'[g])
  BY DEF Grows
<1>2. \A i \in 1..Len(events.queue) : EventIsTrue(tracks', events.queue[i])
  BY StaysTrue DEF PipelineInv, EventsAreTrue
<1>3. EventIsTrue(tracks', bridge.report)
  BY StaysTrue DEF PipelineInv, EventsAreTrue
<1> QED  BY <1>1, <1>2, <1>3 DEF EventsAreTrue

LEMMA SameGrows == ASSUME PipelineInv, NEW g \in Generations PROVE Grows(tracks[g], tracks[g])
BY TrackOf DEF Grows

\* One playback changes in the same way for all that has been said of it.
LEMMA OneGrows ==
  ASSUME PipelineInv, NEW g \in Generations, NEW u, Grows(tracks[g], u),
         tracks' = [tracks EXCEPT ![g] = u]
  PROVE  /\ tracks' \in [Generations -> TrackRecords]
         /\ \A h \in Generations : Grows(tracks[h], tracks'[h])
         /\ \A h \in Generations : tracks'[h] = IF h = g THEN u ELSE tracks[h]
<1>1. \A h \in Generations : tracks'[h] = IF h = g THEN u ELSE tracks[h]
  BY PipeFacts
<1>2. \A h \in Generations : Grows(tracks[h], tracks'[h])
  BY <1>1, SameGrows
<1>3. u \in TrackRecords
  BY DEF Grows
<1> QED  BY <1>1, <1>2, <1>3, PipeFacts

LEMMA ControlKeeps == ASSUME PipelineInv, NEW g \in Generations, Control(g) PROVE PipelineInv'
<1> DEFINE u == [tracks[g] EXCEPT !.applied = tracks[g].control, !.control = None]
<1>1. /\ OutcomeIsTrue(tracks[g]) /\ tracks[g] \in TrackRecords
      /\ tracks' = [tracks EXCEPT ![g] = u] /\ tracks[g].control # None
      /\ UNCHANGED <<current, active, state, call, player, bridge, events>>
  BY TrackOf DEF Control, WorkerOnly
<1>2. u \in TrackRecords /\ u.worker = tracks[g].worker /\ u.clean = tracks[g].clean
      /\ u.outcome = tracks[g].outcome /\ u.cancelled = tracks[g].cancelled
      /\ u.control = None /\ u.applied = tracks[g].control
  BY <1>1 DEF TrackRecords
<1> HIDE DEF u
<1>3. Grows(tracks[g], u)
  BY <1>1, <1>2, GrowsAlone
<1>4. call.pc = "ack" /\ g = active /\ tracks[g].control = call.setting
  BY <1>1 DEF PipelineInv, SettingsAreSent
<1>5. /\ tracks' \in [Generations -> TrackRecords]
      /\ \A h \in Generations : Grows(tracks[h], tracks'[h])
      /\ \A h \in Generations : tracks'[h] = IF h = g THEN u ELSE tracks[h]
  BY <1>1, <1>3, OneGrows
<1>6. PipelineTypes'
  BY <1>1, <1>5 DEF PipelineInv, PipelineTypes
<1>7. EventsAreTrue'
  BY <1>1, <1>5, NothingSaid
<1>8. GenerationsAreFresh'
  BY <1>1, <1>4, <1>5, PipeFacts DEF PipelineInv, GenerationsAreFresh, Grows
<1>9. SettingsAreSent'
  BY <1>1, <1>2, <1>4, <1>5, PipeFacts DEF PipelineInv, SettingsAreSent, AcceptsControl
<1> QED  BY <1>6, <1>7, <1>8, <1>9 DEF PipelineInv

\* Nothing has been said of a generation that was not used.
LEMMA PrepareKeeps == ASSUME PipelineInv, Prepare PROVE PipelineInv'
<1> DEFINE g == call.gen
           u == [Unused EXCEPT !.worker = "reading", !.applied = state]
<1>1. /\ call.pc = "spawn" /\ g \in Generations /\ g = player.spent
      /\ tracks[g].worker = "none"
      /\ tracks' = [tracks EXCEPT ![g] = u] /\ call' = [call EXCEPT !.pc = "replace"]
      /\ UNCHANGED <<current, active, state, player, events, bridge>>
  BY DEF Prepare, PipelineInv, GenerationsAreFresh
<1>2. 0 \in 0..PipeBlocks
  BY PipelineAssumption
<1>3. /\ u \in TrackRecords /\ u.worker = "reading" /\ u.outcome = "running" /\ ~u.clean
      /\ u.control = None /\ u.applied = state
  BY <1>2, PipeFacts DEF Unused, TrackRecords, Outcomes
<1> HIDE DEF u
<1>4. /\ tracks' \in [Generations -> TrackRecords]
      /\ \A h \in Generations : tracks'[h] = IF h = g THEN u ELSE tracks[h]
  BY <1>1, <1>3, PipeFacts
<1>5. call' \in Calls /\ call'.pc = "replace" /\ call'.gen = g
  BY <1>1, PipeFacts DEF Calls
<1>6. PipelineTypes'
  BY <1>1, <1>4, <1>5 DEF PipelineInv, PipelineTypes
<1>7. EventsAreTrue'
  <2>1. ~tracks[g].clean
    BY <1>1 DEF PipelineInv, EventsAreTrue, OutcomeIsTrue
  <2>2. ASSUME NEW e, EventIsTrue(tracks, e) PROVE EventIsTrue(tracks', e)
    BY <1>1, <1>4, <2>1, <2>2 DEF EventIsTrue
  <2>3. OutcomeIsTrue(u)
    BY <1>3 DEF OutcomeIsTrue
  <2>4. \A h \in Generations : OutcomeIsTrue(tracks'[h])
    BY <1>4, <2>3 DEF PipelineInv, EventsAreTrue
  <2> QED  BY <1>1, <2>2, <2>4 DEF PipelineInv, EventsAreTrue
<1>8. active # 0 => active \in Generations /\ active # g
  BY <1>1, PipeFacts DEF PipelineInv, GenerationsAreFresh
<1>9. GenerationsAreFresh'
  <2>1. \A h \in Generations : h > player.spent => tracks'[h].worker = "none"
    <3> SUFFICES ASSUME NEW h \in Generations, h > player.spent PROVE tracks'[h].worker = "none"
      OBVIOUS
    <3>1. h # g
      BY <1>1, PipeFacts
    <3> QED  BY <1>4, <3>1 DEF PipelineInv, GenerationsAreFresh
  <2> QED  BY <1>1, <1>3, <1>4, <1>5, <1>8, <2>1 DEF PipelineInv, GenerationsAreFresh
<1>10. SettingsAreSent'
  BY <1>1, <1>3, <1>4, <1>5, <1>8 DEF PipelineInv, SettingsAreSent, AcceptsControl
<1> QED  BY <1>6, <1>7, <1>9, <1>10 DEF PipelineInv

\* An ended playback takes no more commands.
LEMMA ShutDownGrows ==
  ASSUME PipelineInv, NEW g \in Generations
  PROVE  /\ Grows(tracks[g], ShutDown(tracks[g]))
         /\ ShutDown(tracks[g]).control = tracks[g].control
         /\ ShutDown(tracks[g]).applied = tracks[g].applied
<1> DEFINE u == ShutDown(tracks[g])
<1>1. OutcomeIsTrue(tracks[g]) /\ tracks[g] \in TrackRecords /\ 0 \in 0..PipeBlocks
  BY TrackOf, PipelineAssumption
<1>2. u \in TrackRecords
  BY <1>1 DEF ShutDown, TrackRecords, Outcomes
<1>3. /\ u.worker = tracks[g].worker /\ u.clean = tracks[g].clean /\ u.outcome = "manual"
      /\ u.control = tracks[g].control /\ u.applied = tracks[g].applied
  BY <1>1 DEF ShutDown, TrackRecords
<1> HIDE DEF u
<1>4. /\ Grows(tracks[g], u)
      /\ u.control = tracks[g].control /\ u.applied = tracks[g].applied
  BY <1>1, <1>2, <1>3, GrowsAlone
<1> QED  BY <1>4 DEF u

\* The active playback is ended, if there is one.
LEMMA EndsActive ==
  ASSUME PipelineInv, active' = 0, state' = state, player' = player,
         bridge' = bridge, events' = events, current' \in 0..MaxGeneration,
         tracks' = IF active = 0 THEN tracks ELSE [tracks EXCEPT ![active] = ShutDown(@)],
         call' \in Calls, call.pc \notin {"spawn", "install", "ack"},
         call'.pc = "install" => call.pc = "replace" /\ call'.gen = call.gen,
         call'.pc \in {"install", "stopped"}
  PROVE  PipelineInv'
<1>1. /\ tracks' \in [Generations -> TrackRecords]
      /\ \A h \in Generations : Grows(tracks[h], tracks'[h])
      /\ \A h \in Generations : /\ tracks'[h].control = tracks[h].control
                               /\ tracks'[h].applied = tracks[h].applied
  <2>1. CASE active = 0
    BY <2>1, SameGrows, PipeFacts
  <2>2. CASE active # 0
    <3> DEFINE u == ShutDown(tracks[active])
    <3>1. active \in Generations /\ tracks' = [tracks EXCEPT ![active] = u]
      BY <2>2, PipeFacts
    <3>2. /\ Grows(tracks[active], u)
          /\ u.control = tracks[active].control /\ u.applied = tracks[active].applied
      BY <3>1, ShutDownGrows
    <3> HIDE DEF u
    <3>3. /\ tracks' \in [Generations -> TrackRecords]
          /\ \A h \in Generations : Grows(tracks[h], tracks'[h])
          /\ \A h \in Generations : tracks'[h] = IF h = active THEN u ELSE tracks[h]
      BY <3>1, <3>2, OneGrows
    <3> QED  BY <3>2, <3>3
  <2> QED  BY <2>1, <2>2
<1>2. PipelineTypes'
  BY <1>1, PipeFacts DEF PipelineInv, PipelineTypes
<1>3. EventsAreTrue'
  BY <1>1, NothingSaid
<1>4. GenerationsAreFresh'
  BY <1>1, PipeFacts DEF PipelineInv, GenerationsAreFresh, Grows
<1>5. SettingsAreSent'
  BY <1>1, PipeFacts DEF PipelineInv, SettingsAreSent, GenerationsAreFresh
<1> QED  BY <1>2, <1>3, <1>4, <1>5 DEF PipelineInv

LEMMA ReplaceKeeps == ASSUME PipelineInv, ReplaceActive PROVE PipelineInv'
<1>1. /\ call' \in Calls /\ call'.pc = "install" /\ call'.gen = call.gen
      /\ call.gen \in 0..MaxGeneration
  <2>1. call' = [call EXCEPT !.pc = "install", !.old = active] /\ active \in 0..MaxGeneration
    BY DEF ReplaceActive, PipelineInv, PipelineTypes
  <2> QED  BY <2>1, PipeFacts DEF Calls
<1> QED  BY <1>1, EndsActive DEF ReplaceActive

LEMMA StopKeeps == ASSUME PipelineInv, StopActive PROVE PipelineInv'
<1>1. call' \in Calls /\ call'.pc = "stopped" /\ current' \in 0..MaxGeneration
  <2>1. /\ call' = [call EXCEPT !.pc = "stopped", !.old = active]
        /\ active \in 0..MaxGeneration /\ current \in 0..MaxGeneration
        /\ current' = IF active = 0 THEN current ELSE 0
    BY DEF StopActive, PipelineInv, PipelineTypes
  <2> QED  BY <2>1, PipeFacts DEF Calls
<1> QED  BY <1>1, EndsActive DEF StopActive

\* A call that comes to its end, or goes on without the playbacks.
LEMMA CallKeeps ==
  ASSUME PipelineInv, UNCHANGED <<tracks, current, active, state, events>>,
         call' \in Calls, bridge' = [bridge EXCEPT !.pc = bridge'.pc],
         bridge'.pc \in {"listening", "telling", "recovering", "closed"},
         player' \in [gen : Nat, spent : 0..MaxGeneration, setting : Settings, alive : BOOLEAN],
         player'.spent = player.spent, player'.setting = player.setting,
         call' = call \/ (call.pc # "ack" /\ call'.pc \in {"none", "stop", "remove"})
  PROVE  PipelineInv'
<1>1. /\ bridge'.report = bridge.report
      /\ bridge' \in [pc : {"listening", "telling", "recovering", "closed"}, report : EventRecords]
  BY DEF PipelineInv, PipelineTypes
<1>2. PipelineTypes'
  BY <1>1 DEF PipelineInv, PipelineTypes
<1>3. EventsAreTrue'
  BY <1>1, SameGrows, NothingSaid
<1>4. GenerationsAreFresh'
  BY DEF PipelineInv, GenerationsAreFresh
<1>5. SettingsAreSent'
  BY DEF PipelineInv, SettingsAreSent, AcceptsControl
<1> QED  BY <1>2, <1>3, <1>4, <1>5 DEF PipelineInv

LEMMA CallEnds ==
  ASSUME PipelineInv, PrepareFails \/ Stopped \/ RemoveFails PROVE PipelineInv'
<1>1. /\ call' = NoCall /\ call.pc # "ack" /\ bridge'.pc \in {bridge.pc, "listening"}
      /\ bridge' = [bridge EXCEPT !.pc = bridge'.pc]
      /\ bridge.pc \in {"listening", "telling", "recovering", "closed"}
      /\ UNCHANGED <<tracks, current, active, state, events>>
  BY DEF PrepareFails, Stopped, RemoveFails, PipelineInv, PipelineTypes
<1>2. /\ player'.spent = player.spent /\ player'.setting = player.setting
      /\ player' \in [gen : Nat, spent : 0..MaxGeneration, setting : Settings, alive : BOOLEAN]
  <2>1. CASE Stopped
    <3> DEFINE still == call.op # "leave"
    <3>1. still \in BOOLEAN
      OBVIOUS
    <3>2. player' = [player EXCEPT !.gen = 0, !.alive = still]
      BY <2>1 DEF Stopped
    <3> HIDE DEF still
    <3> QED  BY <3>1, <3>2, PipeFacts
  <2>2. CASE player' = player
    BY <2>2, PipeFacts
  <2> QED  BY <2>1, <2>2 DEF PrepareFails, RemoveFails
<1>3. call' \in Calls /\ call'.pc = "none"
  BY <1>1, PipeFacts DEF NoCall
<1> QED  BY <1>1, <1>2, <1>3, CallKeeps

LEMMA AbortKeeps == ASSUME PipelineInv, AbortWorker PROVE PipelineInv'
<1> DEFINE g == call.old
           u == [tracks[g] EXCEPT !.worker = "done"]
<1>1. /\ g \in Generations /\ AtAwait(g) /\ tracks' = [tracks EXCEPT ![g] = u]
      /\ UNCHANGED <<current, active, state, call, player, bridge, events>>
  BY PipeFacts, PipelineAssumption DEF AbortWorker, Calls, Generations
<1>2. OutcomeIsTrue(tracks[g]) /\ tracks[g] \in TrackRecords
  BY <1>1, TrackOf
<1>3. Grows(tracks[g], u)
  BY <1>1, <1>2 DEF Grows, OutcomeIsTrue, TrackRecords, AtAwait
<1>4. Calm(tracks[g], u)
  BY <1>2 DEF Calm, TrackRecords
<1> QED  BY <1>1, <1>3, <1>4, SilentStep

\* The track of a playback is started, paused or ended, its worker left alone.
LEMMA SongTouched ==
  ASSUME PipelineInv, NEW g \in Generations, NEW s \in {"playing", "paused", "over"},
         NEW h \in {tracks[g].handler, "check"}, NEW n \in {tracks[g].pipe, 0}
  PROVE  /\ Grows(tracks[g], [tracks[g] EXCEPT !.song = s, !.handler = h, !.pipe = n])
         /\ Calm(tracks[g], [tracks[g] EXCEPT !.song = s, !.handler = h, !.pipe = n])
<1> DEFINE u == [tracks[g] EXCEPT !.song = s, !.handler = h, !.pipe = n]
<1>1. OutcomeIsTrue(tracks[g]) /\ tracks[g] \in TrackRecords /\ 0 \in 0..PipeBlocks
  BY TrackOf, PipelineAssumption
<1>2. u \in TrackRecords
  BY <1>1 DEF TrackRecords
<1>3. /\ u.worker = tracks[g].worker /\ u.clean = tracks[g].clean
      /\ u.outcome = tracks[g].outcome /\ u.cancelled = tracks[g].cancelled
      /\ u.control = tracks[g].control /\ u.applied = tracks[g].applied
  BY <1>1 DEF TrackRecords
<1> HIDE DEF u
<1>4. Grows(tracks[g], u) /\ Calm(tracks[g], u)
  BY <1>1, <1>2, <1>3, GrowsAlone DEF Calm
<1> QED  BY <1>4 DEF u

LEMMA PauseKeeps == ASSUME PipelineInv, PauseOrResume PROVE PipelineInv'
<1>1. PICK s \in {"playing", "paused"} : tracks' = [tracks EXCEPT ![active].song = s]
  BY DEF PauseOrResume
<1>2. active \in Generations /\ UNCHANGED <<current, active, state, call, player, bridge, events>>
  BY PipeFacts DEF PauseOrResume
<1>3. tracks[active] \in TrackRecords
  BY <1>2, TrackOf
<1> DEFINE u == [tracks[active] EXCEPT !.song = s, !.handler = tracks[active].handler,
                                       !.pipe = tracks[active].pipe]
<1>4. u = [tracks[active] EXCEPT !.song = s]
  BY <1>3 DEF TrackRecords
<1>5. tracks' = [tracks EXCEPT ![active] = u]
  BY <1>1, <1>4
<1>6. Grows(tracks[active], u) /\ Calm(tracks[active], u)
  BY <1>2, SongTouched
<1> QED  BY <1>2, <1>5, <1>6, SilentStep

\* The new playback becomes the active one, with the settings of now.
LEMMA InstallKeeps == ASSUME PipelineInv, Install PROVE PipelineInv'
<1> DEFINE g == call.gen
           u == [tracks[g] EXCEPT !.song = "playing", !.handler = tracks[g].handler,
                                  !.pipe = tracks[g].pipe]
<1>1. /\ call.pc = "install" /\ g \in Generations /\ tracks[g].worker # "none"
      /\ tracks' = [tracks EXCEPT ![g].song = "playing"]
      /\ active' = g /\ call' = NoCall /\ player' = [player EXCEPT !.gen = g]
      /\ UNCHANGED <<current, state, events>>
  BY DEF Install, PipelineInv, GenerationsAreFresh
<1>2. tracks[g] \in TrackRecords
  BY <1>1, TrackOf
<1>3. u = [tracks[g] EXCEPT !.song = "playing"]
  BY <1>2 DEF TrackRecords
<1>4. tracks' = [tracks EXCEPT ![g] = u]
  BY <1>1, <1>3
<1>5. Grows(tracks[g], u) /\ Calm(tracks[g], u)
  BY <1>1, SongTouched
<1> HIDE DEF u
<1>6. /\ tracks' \in [Generations -> TrackRecords]
      /\ \A h \in Generations : Grows(tracks[h], tracks'[h])
      /\ \A h \in Generations : tracks'[h] = IF h = g THEN u ELSE tracks[h]
  BY <1>1, <1>4, <1>5, OneGrows
<1>7. /\ bridge'.report = bridge.report
      /\ bridge' \in [pc : {"listening", "telling", "recovering", "closed"}, report : EventRecords]
  BY DEF Install, PipelineInv, PipelineTypes
<1>8. /\ player'.spent = player.spent /\ player'.setting = player.setting
      /\ player' \in [gen : Nat, spent : 0..MaxGeneration, setting : Settings, alive : BOOLEAN]
  BY <1>1, PipeFacts
<1>9. call' \in Calls /\ call'.pc = "none"
  BY <1>1, PipeFacts DEF NoCall
<1>10. PipelineTypes'
  BY <1>1, <1>6, <1>7, <1>8, <1>9, PipeFacts DEF PipelineInv, PipelineTypes
<1>11. EventsAreTrue'
  BY <1>1, <1>6, <1>7, NothingSaid
<1>12. GenerationsAreFresh'
  BY <1>1, <1>6, <1>8, <1>9, PipeFacts DEF PipelineInv, GenerationsAreFresh, Grows
<1>13. SettingsAreSent'
  <2>1. \A h \in Generations : tracks[h].control = None
    BY <1>1 DEF PipelineInv, SettingsAreSent
  <2>2. \A h \in Generations : tracks'[h].control = None
    BY <1>5, <1>6, <2>1 DEF Calm
  <2>3. tracks'[g].applied = state
    BY <1>1, <1>5, <1>6 DEF Calm, PipelineInv, SettingsAreSent
  <2> QED  BY <1>1, <1>8, <1>9, <2>2, <2>3 DEF PipelineInv, SettingsAreSent
<1> QED  BY <1>10, <1>11, <1>12, <1>13 DEF PipelineInv

LEMMA RemoveKeeps == ASSUME PipelineInv, RemoveCall PROVE PipelineInv'
<1>1. /\ call.pc = "remove" /\ call' = [call EXCEPT !.pc = "stop"]
      /\ UNCHANGED <<current, active, state, player, events, bridge>>
  BY DEF RemoveCall
<1>2. call' \in Calls /\ call'.pc = "stop"
  BY <1>1, PipeFacts DEF Calls
<1>3. CASE tracks' = tracks
  BY <1>1, <1>2, <1>3, PipeFacts, CallKeeps DEF PipelineInv, PipelineTypes
<1>4. CASE /\ active # 0
           /\ tracks' = [tracks EXCEPT ![active].song = "over", ![active].handler = "check",
                                       ![active].pipe = 0]
  <2> DEFINE u == [tracks[active] EXCEPT !.song = "over", !.handler = "check", !.pipe = 0]
  <2>1. active \in Generations /\ tracks' = [tracks EXCEPT ![active] = u]
    BY <1>4, PipeFacts
  <2>2. Grows(tracks[active], u) /\ Calm(tracks[active], u)
    BY <2>1, SongTouched
  <2> HIDE DEF u
  <2>3. /\ tracks' \in [Generations -> TrackRecords]
        /\ \A h \in Generations : Grows(tracks[h], tracks'[h])
        /\ \A h \in Generations : tracks'[h] = IF h = active THEN u ELSE tracks[h]
    BY <2>1, <2>2, OneGrows
  <2>4. \A h \in Generations : Calm(tracks[h], tracks'[h])
    BY <2>2, <2>3 DEF Calm
  <2>5. PipelineTypes'
    BY <1>1, <1>2, <2>3 DEF PipelineInv, PipelineTypes
  <2>6. EventsAreTrue'
    BY <1>1, <2>3, NothingSaid
  <2>7. GenerationsAreFresh'
    BY <1>1, <1>2, <2>1, <2>3 DEF PipelineInv, GenerationsAreFresh, Grows
  <2>8. SettingsAreSent'
    BY <1>1, <1>2, <2>1, <2>4 DEF PipelineInv, SettingsAreSent, Calm, AcceptsControl
  <2> QED  BY <2>5, <2>6, <2>7, <2>8 DEF PipelineInv
<1> QED  BY <1>3, <1>4 DEF RemoveCall

\* A change is kept by the adapter and the player once the worker has it.
LEMMA AnswerKeeps == ASSUME PipelineInv, Acknowledged \/ Unanswered PROVE PipelineInv'
<1>1. /\ call.pc = "ack" /\ active \in Generations /\ call.setting \in Settings
      /\ call' = NoCall /\ call' \in Calls /\ call'.pc = "none"
      /\ UNCHANGED <<current, active, events, bridge>>
  <2>1. call' = NoCall /\ call.pc = "ack" /\ UNCHANGED <<current, active, events, bridge>>
    BY DEF Acknowledged, Unanswered
  <2>2. NoCall.pc = "none"
    BY DEF NoCall
  <2> QED  BY <2>1, <2>2, PipeFacts DEF PipelineInv, SettingsAreSent
<1>2. CASE Acknowledged
  <2>1. /\ state' = call.setting /\ player' = [player EXCEPT !.setting = call.setting]
        /\ tracks' = tracks /\ tracks[active].control = None
    BY <1>2 DEF Acknowledged
  <2>2. /\ player'.spent = player.spent /\ player'.setting = call.setting
        /\ player' \in [gen : Nat, spent : 0..MaxGeneration, setting : Settings, alive : BOOLEAN]
    BY <1>1, <2>1, PipeFacts
  <2>3. PipelineTypes'
    BY <1>1, <2>1, <2>2 DEF PipelineInv, PipelineTypes
  <2>4. EventsAreTrue'
    BY <1>1, <2>1, SameGrows, NothingSaid
  <2>5. GenerationsAreFresh'
    BY <1>1, <2>1, <2>2 DEF PipelineInv, GenerationsAreFresh
  <2>6. SettingsAreSent'
    BY <1>1, <2>1, <2>2 DEF PipelineInv, SettingsAreSent, AcceptsControl
  <2> QED  BY <2>3, <2>4, <2>5, <2>6 DEF PipelineInv
<1>3. CASE Unanswered
  <2> DEFINE u == [tracks[active] EXCEPT !.control = None]
  <2>1. /\ tracks' = [tracks EXCEPT ![active] = u] /\ UNCHANGED <<state, player>>
        /\ tracks[active].control # None
    BY <1>3 DEF Unanswered
  <2>2. OutcomeIsTrue(tracks[active]) /\ tracks[active] \in TrackRecords
    BY <1>1, TrackOf
  <2>3. /\ u \in TrackRecords /\ u.worker = tracks[active].worker
        /\ u.clean = tracks[active].clean /\ u.outcome = tracks[active].outcome
        /\ u.cancelled = tracks[active].cancelled
        /\ u.control = None /\ u.applied = tracks[active].applied
    BY <2>2 DEF TrackRecords
  <2> HIDE DEF u
  <2>4. Grows(tracks[active], u)
    BY <2>2, <2>3, GrowsAlone
  <2>5. /\ tracks' \in [Generations -> TrackRecords]
        /\ \A h \in Generations : Grows(tracks[h], tracks'[h])
        /\ \A h \in Generations : tracks'[h] = IF h = active THEN u ELSE tracks[h]
    BY <1>1, <2>1, <2>4, OneGrows
  <2>6. PipelineTypes'
    BY <1>1, <2>1, <2>5 DEF PipelineInv, PipelineTypes
  <2>7. EventsAreTrue'
    BY <1>1, <2>5, NothingSaid
  <2>8. GenerationsAreFresh'
    BY <1>1, <2>1, <2>5 DEF PipelineInv, GenerationsAreFresh, Grows
  <2>9. SettingsAreSent'
    BY <1>1, <2>1, <2>3, <2>5 DEF PipelineInv, SettingsAreSent, AcceptsControl
  <2> QED  BY <2>6, <2>7, <2>8, <2>9 DEF PipelineInv
<1> QED  BY <1>2, <1>3

LEMMA SetKeeps == ASSUME PipelineInv, NEW v \in Settings, Set(v) PROVE PipelineInv'
<1>1. call = NoCall /\ call.pc = "none" /\ UNCHANGED <<current, active, events, bridge>>
  BY DEF Set, Ready, NoCall
<1>2. \A h \in Generations : tracks[h].control = None
  BY <1>1 DEF PipelineInv, SettingsAreSent
<1>3. CASE active # 0 /\ AcceptsControl(active)
  <2> DEFINE u == [tracks[active] EXCEPT !.control = v]
  <2>1. /\ active \in Generations /\ tracks' = [tracks EXCEPT ![active] = u]
        /\ call' = [Call("set", "ack") EXCEPT !.setting = v] /\ UNCHANGED <<state, player>>
    BY <1>3, PipeFacts DEF Set, Send
  <2>2. call' \in Calls /\ call'.pc = "ack" /\ call'.setting = v
    BY <2>1, PipeFacts DEF Call, NoCall, Calls
  <2>3. OutcomeIsTrue(tracks[active]) /\ tracks[active] \in TrackRecords
    BY <2>1, TrackOf
  <2>4. /\ u \in TrackRecords /\ u.worker = tracks[active].worker
        /\ u.clean = tracks[active].clean /\ u.outcome = tracks[active].outcome
        /\ u.cancelled = tracks[active].cancelled
        /\ u.control = v /\ u.applied = tracks[active].applied
    BY <2>3 DEF TrackRecords
  <2> HIDE DEF u
  <2>5. Grows(tracks[active], u)
    BY <2>3, <2>4, GrowsAlone
  <2>6. /\ tracks' \in [Generations -> TrackRecords]
        /\ \A h \in Generations : Grows(tracks[h], tracks'[h])
        /\ \A h \in Generations : tracks'[h] = IF h = active THEN u ELSE tracks[h]
    BY <2>1, <2>5, OneGrows
  <2>7. PipelineTypes'
    BY <1>1, <2>1, <2>2, <2>6 DEF PipelineInv, PipelineTypes
  <2>8. EventsAreTrue'
    BY <1>1, <2>6, NothingSaid
  <2>9. GenerationsAreFresh'
    BY <1>1, <2>1, <2>2, <2>6 DEF PipelineInv, GenerationsAreFresh, Grows
  <2>10. tracks[active].applied = state
    BY <1>1, <1>3 DEF PipelineInv, SettingsAreSent
  <2>11. SettingsAreSent'
    BY <1>1, <1>2, <2>1, <2>2, <2>4, <2>6, <2>10, PipeFacts
    DEF PipelineInv, SettingsAreSent, AcceptsControl
  <2> QED  BY <2>7, <2>8, <2>9, <2>11 DEF PipelineInv
<1>4. CASE ~(active # 0 /\ AcceptsControl(active))
  <2>1. /\ state' = v /\ player' = [player EXCEPT !.setting = v] /\ UNCHANGED <<tracks, call>>
    BY <1>4 DEF Set, Send
  <2>2. /\ player'.spent = player.spent /\ player'.setting = v
        /\ player' \in [gen : Nat, spent : 0..MaxGeneration, setting : Settings, alive : BOOLEAN]
    BY <2>1, PipeFacts
  <2>3. PipelineTypes'
    BY <1>1, <2>1, <2>2 DEF PipelineInv, PipelineTypes
  <2>4. EventsAreTrue'
    BY <1>1, <2>1, SameGrows, NothingSaid
  <2>5. GenerationsAreFresh'
    BY <1>1, <2>1, <2>2 DEF PipelineInv, GenerationsAreFresh
  <2>6. SettingsAreSent'
    BY <1>1, <1>2, <1>4, <2>1, <2>2 DEF SettingsAreSent, AcceptsControl
  <2> QED  BY <2>3, <2>4, <2>5, <2>6 DEF PipelineInv
<1> QED  BY <1>3, <1>4

\* A generation is taken that has never had a worker.
LEMMA StartKeeps ==
  ASSUME PipelineInv, NEW forEnd \in BOOLEAN, Ready, StartPlay(forEnd),
         UNCHANGED <<tracks, current, active, state, events, bridge>>
  PROVE  PipelineInv'
<1>1. call.pc = "none" /\ player.spent < MaxGeneration
  BY DEF Ready, NoCall, StartPlay
<1>2. player.spent + 1 \in Generations /\ player.spent + 1 > player.spent
  BY <1>1, PipeFacts DEF Generations
<1>3. /\ player'.spent = player.spent + 1 /\ player'.setting = player.setting
      /\ player' \in [gen : Nat, spent : 0..MaxGeneration, setting : Settings, alive : BOOLEAN]
  BY <1>2, PipeFacts DEF StartPlay
<1>4. call' \in Calls /\ call'.pc = "spawn" /\ call'.gen = player.spent + 1
  BY <1>2, PipeFacts DEF StartPlay, Call, NoCall, Calls
<1>5. PipelineTypes'
  BY <1>3, <1>4 DEF PipelineInv, PipelineTypes
<1>6. EventsAreTrue'
  BY SameGrows, NothingSaid
<1>7. GenerationsAreFresh'
  <2>1. \A h \in Generations : h > player.spent + 1 => tracks[h].worker = "none"
    <3> SUFFICES ASSUME NEW h \in Generations, h > player.spent + 1 PROVE tracks[h].worker = "none"
      OBVIOUS
    <3>1. h > player.spent
      BY PipeFacts
    <3> QED  BY <3>1 DEF PipelineInv, GenerationsAreFresh
  <2> QED  BY <1>2, <1>3, <1>4, <2>1 DEF PipelineInv, GenerationsAreFresh
<1>8. SettingsAreSent'
  BY <1>1, <1>3, <1>4 DEF PipelineInv, SettingsAreSent, AcceptsControl
<1> QED  BY <1>5, <1>6, <1>7, <1>8 DEF PipelineInv

LEMMA StopAsked ==
  ASSUME PipelineInv, Ready, NEW op \in {"stop", "leave"}, NEW at \in {"stop", "remove"},
         call' = Call(op, at),
         UNCHANGED <<tracks, current, active, state, player, events, bridge>>
  PROVE  PipelineInv'
<1>1. call' \in Calls /\ call'.pc = at /\ call.pc # "ack"
  BY PipeFacts DEF Ready, Call, NoCall, Calls
<1> QED  BY <1>1, PipeFacts, CallKeeps DEF PipelineInv, PipelineTypes

LEMMA PlayerKeeps == ASSUME PipelineInv, Player PROVE PipelineInv'
<1>1. CASE Skip
  BY <1>1, StartKeeps DEF Skip
<1>2. CASE Stop
  BY <1>2, StopAsked DEF Stop
<1> QED  BY <1>1, <1>2, SetKeeps, PauseKeeps DEF Player

LEMMA TakeReportKeeps == ASSUME PipelineInv, TakeReport PROVE PipelineInv'
<1>1. Ready /\ UNCHANGED <<tracks, current, active, state, events>>
  BY DEF TakeReport
<1>2. CASE StartPlay(TRUE) /\ UNCHANGED bridge
  BY <1>1, <1>2, StartKeeps
<1>3. CASE /\ call' = call /\ player' \in {player, [player EXCEPT !.gen = 0]}
           /\ \/ bridge' = [bridge EXCEPT !.pc = "listening"]
              \/ bridge' = [bridge EXCEPT !.pc = "recovering"]
  <2>1. /\ bridge' = [bridge EXCEPT !.pc = bridge'.pc]
        /\ bridge'.pc \in {"listening", "telling", "recovering", "closed"}
    BY <1>3 DEF PipelineInv, PipelineTypes
  <2>2. /\ player'.spent = player.spent /\ player'.setting = player.setting
        /\ player' \in [gen : Nat, spent : 0..MaxGeneration, setting : Settings, alive : BOOLEAN]
    BY <1>3, PipeFacts
  <2> QED  BY <1>1, <1>3, <2>1, <2>2, PipeFacts, CallKeeps
<1> QED  BY <1>2, <1>3 DEF TakeReport

\* The bridge takes the oldest event.
LEMMA BridgeKeeps == ASSUME PipelineInv, Bridge PROVE PipelineInv'
<1>1. CASE Receive
  <2>1. /\ events.queue # <<>> /\ events.queue \in Seq(EventRecords)
        /\ Len(events.queue) <= EventCapacity /\ EventCapacity \in Nat /\ events.lagged \in BOOLEAN
        /\ bridge' = [pc |-> "telling", report |-> Head(events.queue)]
        /\ events' = [events EXCEPT !.queue = Tail(events.queue)]
        /\ events \in [queue : Seq(EventRecords), lagged : BOOLEAN]
        /\ UNCHANGED <<tracks, current, active, state, call, player>>
    BY <1>1, PipelineAssumption DEF Receive, PipelineInv, PipelineTypes
  <2>2. Len(events.queue) \in Nat
    BY <2>1, LenProperties
  <2>3. /\ Head(events.queue) \in EventRecords /\ Tail(events.queue) \in Seq(EventRecords)
        /\ Len(Tail(events.queue)) = Len(events.queue) - 1
        /\ \A i \in 1..Len(Tail(events.queue)) : Tail(events.queue)[i] = events.queue[i+1]
        /\ Head(events.queue) = events.queue[1]
    BY <2>1, HeadTailProperties
  <2>4. Len(events.queue) >= 1
    BY <2>1, <2>2, EmptySeq
  <2>5. /\ events' \in [queue : Seq(EventRecords), lagged : BOOLEAN]
        /\ events'.queue = Tail(events.queue)
    BY <2>1, <2>3
  <2>6. PipelineTypes'
    <3>1. Len(events'.queue) <= EventCapacity
      BY <2>1, <2>2, <2>3, <2>5
    <3>2. bridge' \in [pc : {"listening", "telling", "recovering", "closed"}, report : EventRecords]
      BY <2>1, <2>3
    <3> QED  BY <2>1, <2>5, <3>1, <3>2 DEF PipelineInv, PipelineTypes
  <2>7. EventsAreTrue'
    <3>1. EventIsTrue(tracks, events.queue[1])
      BY <2>2, <2>4 DEF PipelineInv, EventsAreTrue
    <3>2. \A i \in 1..Len(Tail(events.queue)) : EventIsTrue(tracks, Tail(events.queue)[i])
      BY <2>2, <2>3 DEF PipelineInv, EventsAreTrue
    <3> QED  BY <2>1, <2>3, <2>5, <3>1, <3>2 DEF PipelineInv, EventsAreTrue
  <2>8. GenerationsAreFresh' /\ SettingsAreSent'
    BY <2>1 DEF PipelineInv, GenerationsAreFresh, SettingsAreSent, AcceptsControl
  <2> QED  BY <2>6, <2>7, <2>8 DEF PipelineInv
<1>2. CASE Recover
  BY <1>2, StopAsked DEF Recover
<1>3. CASE Lagged \/ LifecycleStopped
  <2>1. /\ bridge' = [bridge EXCEPT !.pc = bridge'.pc]
        /\ bridge'.pc \in {"listening", "telling", "recovering", "closed"}
        /\ UNCHANGED <<tracks, current, active, state, call, player, events>>
    BY <1>3 DEF Lagged, LifecycleStopped, PipelineInv, PipelineTypes
  <2> QED  BY <2>1, PipeFacts, CallKeeps
<1> QED  BY <1>1, <1>2, <1>3 DEF Bridge

LEMMA AdapterKeeps == ASSUME PipelineInv, Adapter PROVE PipelineInv'
BY PrepareKeeps, ReplaceKeeps, StopKeeps, AbortKeeps, InstallKeeps, CallEnds, AnswerKeeps, RemoveKeeps
   DEF Adapter

LEMMA PipelineNext == ASSUME PipelineInv, [MCNext]_allVars PROVE PipelineInv'
<1>1. CASE UNCHANGED vars
  <2>1. PipelineTypes'
    BY <1>1 DEF vars, PipelineInv, PipelineTypes
  <2>2. EventsAreTrue'
    BY <1>1 DEF vars, PipelineInv, EventsAreTrue
  <2>3. GenerationsAreFresh' /\ SettingsAreSent'
    BY <1>1 DEF vars, PipelineInv, GenerationsAreFresh, SettingsAreSent, AcceptsControl
  <2> QED  BY <2>1, <2>2, <2>3 DEF PipelineInv
<1>2. CASE Next
  <2>1. ASSUME NEW g \in Generations, Worker(g) \/ Play(g) \/ SongOver(g) \/ Handler(g)
        PROVE  PipelineInv'
    BY <2>1, WorkerKeeps, ControlKeeps, ReportKeeps, SongKeeps, EmitEndKeeps DEF Worker, Handler
  <2> QED  BY <1>2, <2>1, AdapterKeeps, PlayerKeeps, TakeReportKeeps, BridgeKeeps DEF Next
<1> QED  BY <1>1, <1>2 DEF MCNext, allVars

LEMMA PipelineInit == ASSUME Init PROVE PipelineInv
<1>1. /\ 0 \in 0..PipeBlocks /\ 0 \in 0..MaxGeneration /\ Initial \in Settings
      /\ EventCapacity \in Nat /\ NoCall.pc = "none" /\ NoCall \in Calls
  BY PipelineAssumption DEF NoCall, Calls
<1>2. Unused \in TrackRecords
  BY <1>1 DEF Unused, TrackRecords, Outcomes
<1>3. \A g \in Generations : tracks[g] = Unused
  BY DEF Init
<1>4. PipelineTypes
  <2>1. <<>> \in Seq(EventRecords) /\ Len(<<>>) = 0
    BY EmptySeq
  <2> QED  BY <1>1, <1>2, <2>1 DEF Init, PipelineTypes, EventRecords, Reasons
<1>5. EventsAreTrue
  BY <1>3 DEF Init, EventsAreTrue, EventIsTrue, OutcomeIsTrue, Unused
<1>6. GenerationsAreFresh
  BY <1>1, <1>3 DEF Init, GenerationsAreFresh, Unused
<1>7. SettingsAreSent
  BY <1>1, <1>3 DEF Init, SettingsAreSent, Unused
<1> QED  BY <1>4, <1>5, <1>6, <1>7 DEF PipelineInv

\* What the bridge tells of a playback's end is what became of it, and between
\* two calls the worker that still runs has the settings the player holds,
\* however an end, a change and a replacement race (TrackLifecycle,
\* SongbirdPlayback, report_worker_failure).
THEOREM PlaybackStaysHonest == MCSpec => []PlaybackIsHonest
<1>1. MCInit => PipelineInv
  BY PipelineInit DEF MCInit
<1>2. PipelineInv /\ [MCNext]_allVars => PipelineInv'
  BY PipelineNext
<1>3. ASSUME PipelineInv PROVE PlaybackIsHonest
  <2>1. TypeOK
    BY <1>3 DEF PipelineInv, PipelineTypes, TrackRecords, TypeOK
  <2>2. EndReasonIsTrue
    <3>1. ASSUME NEW r, EventIsTrue(tracks, r), r.gen # 0
          PROVE  /\ r.reason = "Natural" => tracks[r.gen].clean
                 /\ r.reason = "WorkerFailed" => ~tracks[r.gen].clean
      BY <3>1 DEF EventIsTrue
    <3> QED  BY <1>3, <3>1 DEF PipelineInv, EventsAreTrue, EndReasonIsTrue
  <2>3. WorkerHasSettings
    BY <1>3 DEF PipelineInv, SettingsAreSent, WorkerHasSettings, NoCall
  <2> QED  BY <2>1, <2>2, <2>3 DEF PlaybackIsHonest
<1> QED  BY <1>1, <1>2, <1>3, PTL DEF MCSpec

=====
