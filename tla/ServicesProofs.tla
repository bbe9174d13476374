---------------------------- MODULE ServicesProofs ----------------------------
(***************************************************************************)
(* Theorems about MCServices, for every value of its constants: the        *)
(* dashboard's sessions, the development backend, Discord's interactions,  *)
(* the resolution of requests, the catalogues, the search of media sites,  *)
(* the shutdown of the bot's process and the dashboard page.  Each service *)
(* has its inductive invariant; the theorems at the end put them together. *)
(***************************************************************************)
EXTENDS MCServices, FiniteSetTheorems, FunctionTheorems, SequenceTheorems, TLAPS

\* Of the services, only the one that `part' names moves.
LEMMA OnlyOneMoves ==
  ASSUME [MCNext]_allVars
  PROVE  /\ part' = part
         /\ On("process") => [Next]_vars
         /\ [Auth!Next]_sessionVars
         /\ [Dev!Next]_devVars
         /\ [Discord!Next]_discordVars
         /\ [Resolver!Next]_resolveVars
         /\ [Catalogue!Next]_catalogVars
         /\ [Site!Next]_searchVars
         /\ ~On("page") => UNCHANGED pageVars
         /\ On("page") => [Web!Next]_pageVars
<1> USE DEF sessionVars, devVars, discordVars, resolveVars, catalogVars, searchVars, pageVars
<1>1. CASE MCNext
  BY <1>1 DEF MCNext, On
<1>2. CASE UNCHANGED allVars
  BY <1>2 DEF allVars
<1> QED  BY <1>1, <1>2

-----------------------------------------------------------------------------
(* The bot's process.                                                      *)

\* Who has the operation lock is the only one under way, and the player it has in
\* hand is known where it stands.
LockIsHeld ==
  \A t \in Tasks : /\ tasks[t].pc # "idle" => lock = t
                   /\ tasks[t].pc \in {"insert", "shutdown"} <=> tasks[t].player # 0

\* Before shutdown_all, every living actor is the one that is registered, or the one
\* in the hands of the operation under way, or the one that an aborted command lost.
BeforeTakeover == phase \in {"running", "gateway", "ingress"}

AreKnown(living) ==
  /\ (\A t \in Tasks : tasks[t].player = 0) => living \subseteq {registered}
  /\ \A t \in Tasks : /\ tasks[t].player # 0 => registered = 0 /\ living \subseteq {tasks[t].player}
                      /\ tasks[t].pc = "create" => living = {}

LivingAreKnown ==
  \E lost \in Players \cup {0} :
    BeforeTakeover => (lost # 0 => Aborted) /\ AreKnown(Live \ {lost})

\* A runtime that was joined without an error.
Joined(r) == \/ runtimes[r] = "stopped"
             \/ r = "commands" /\ runtimes[r] = "ended"

\* What has been stopped so far when no step of the shutdown has failed.
StoppedInOrder ==
  /\ BeforeTakeover => \A p \in Players : cleaning[p] = "no"
  /\ phase # "exited" => \A r \in Runtimes : runtimes[r] # "aborted"
  /\ clean => /\ phase \in {"players", "drain", "exited"} => \A r \in Ingress : Joined(r)
              /\ phase \in {"drain", "exited"} => /\ \A r \in Parallel : Joined(r)
                                                  /\ \A p \in Players : cleaning[p] # "asked"
              /\ phase = "exited" => \A r \in Drained : Joined(r)
              /\ \A p \in Players : cleaning[p] # "failed"
  /\ \A p \in Players : cleaning[p] = "stopped" => actor[p] = "stopped"

ProcessInv == TypeOK /\ LockIsHeld /\ LivingAreKnown /\ StoppedInOrder

Endings == {"running", "failed", "ended", "stopped", "aborted"}

Pcs == {"idle", "lookup", "create", "insert", "remove", "shutdown"}

LEMMA ProcessTypes ==
  ASSUME ProcessInv
  PROVE  /\ actor \in [Players -> {"none", "live", "closing", "stopped"}]
         /\ asked \in SUBSET Players /\ registered \in Players \cup {0}
         /\ tasks \in [Tasks -> [pc : Pcs, player : Players \cup {0}]]
         /\ lock \in Tasks \cup {NoTask} /\ NoTask \notin Tasks
         /\ 0 \notin Players
BY ProcessAssumption DEF ProcessInv, TypeOK, Pcs, Tasks, Players

\* While an operation is under way no other one is.
LEMMA OthersIdle ==
  ASSUME ProcessInv, NEW t \in Tasks, tasks[t].pc # "idle"
  PROVE  \A u \in Tasks : u # t => tasks[u].pc = "idle" /\ tasks[u].player = 0
BY ProcessTypes DEF ProcessInv, LockIsHeld

\* An actor that has stopped stays stopped, so that the shutdown's account holds.
LEMMA OrderFrame ==
  ASSUME ProcessInv, UNCHANGED process, \A p \in Players : actor[p] = "stopped" => actor'[p] = "stopped"
  PROVE  StoppedInOrder'
BY DEF ProcessInv, StoppedInOrder, process, BeforeTakeover, Joined

\* Once the guild's shard has gone no command of it is under way again.
LEMMA AbortedStays ==
  ASSUME ProcessInv, runtimes' = runtimes, NEW t \in Tasks, tasks[t].pc # "idle", NEW x,
         tasks' = [tasks EXCEPT ![t] = x]
  PROVE  Aborted => Aborted'
<1> SUFFICES ASSUME Aborted PROVE Aborted'
  OBVIOUS
<1>1. t \notin Dashboard
  BY DEF Aborted
<1>2. \A u \in Dashboard : u \in Tasks /\ tasks'[u] = tasks[u]
  BY <1>1, ProcessTypes DEF Tasks
<1> QED  BY <1>2 DEF Aborted

\* An operation's step that goes on at `at' with player `p' in hand, after which
\* only `lost' is out of the operations' and the registry's reach.
StepsTo(t, at, p, lost) ==
  /\ tasks' = [tasks EXCEPT ![t] = [pc |-> at, player |-> p]]
  /\ at = "idle" => lock' = NoTask
  /\ at # "idle" => lock' = lock
  /\ at \in {"insert", "shutdown"} <=> p # 0
  /\ actor' \in [Players -> {"none", "live", "closing", "stopped"}]
  /\ \A q \in Players : actor[q] = "stopped" => actor'[q] = "stopped"
  /\ asked' \in SUBSET Players
  /\ registered' \in Players \cup {0}
  /\ BeforeTakeover => /\ lost # 0 => Aborted'
                       /\ p = 0 => Live' \ {lost} \subseteq {registered'}
                       /\ p # 0 => registered' = 0 /\ Live' \ {lost} \subseteq {p}
                       /\ at = "create" => Live' \ {lost} = {}

\* Such a step keeps the invariant.
LEMMA OperationFrame ==
  ASSUME ProcessInv, UNCHANGED process, NEW t \in Tasks, tasks[t].pc # "idle",
         NEW at \in Pcs, NEW p \in Players \cup {0}, NEW lost \in Players \cup {0},
         StepsTo(t, at, p, lost)
  PROVE  ProcessInv'
<1>1. tasks'[t] = [pc |-> at, player |-> p] /\ \A u \in Tasks : u # t => tasks'[u] = tasks[u]
  BY ProcessTypes DEF StepsTo
<1>2. \A u \in Tasks : u # t => tasks'[u].pc = "idle" /\ tasks'[u].player = 0
  BY <1>1, OthersIdle
<1>3. tasks'[t].pc = at /\ tasks'[t].player = p
  BY <1>1
<1>4. lock = t
  BY DEF ProcessInv, LockIsHeld
<1>5. TypeOK'
  <2>1. tasks' \in [Tasks -> [pc : Pcs, player : Players \cup {0}]]
    BY ProcessTypes DEF StepsTo
  <2> QED  BY <1>4, <2>1, ProcessTypes DEF StepsTo, ProcessInv, TypeOK, process, Pcs
<1>6. LockIsHeld'
  BY <1>2, <1>3, <1>4 DEF StepsTo, LockIsHeld
<1>7. LivingAreKnown'
  <2>1. BeforeTakeover' <=> BeforeTakeover
    BY DEF BeforeTakeover, process
  <2>2. BeforeTakeover => (lost # 0 => Aborted') /\ AreKnown(Live \ {lost})'
    BY <1>2, <1>3 DEF StepsTo, AreKnown
  <2> QED  BY <2>1, <2>2, Zenon DEF LivingAreKnown
<1>8. StoppedInOrder'
  BY OrderFrame DEF StepsTo
<1> QED  BY <1>5, <1>6, <1>7, <1>8 DEF ProcessInv

\* Begin: whoever gets the lock finds nobody under way.
LEMMA BeginInv ==
  ASSUME ProcessInv, NEW t \in Tasks, Begin(t)
  PROVE  ProcessInv'
<1>1. lock = NoTask /\ lock' = t /\ UNCHANGED <<actor, asked, registered>> /\ UNCHANGED process
  BY DEF Begin
<1>2. PICK at \in {"lookup", "remove"} : tasks' = [tasks EXCEPT ![t] = [pc |-> at, player |-> 0]]
  BY Zenon DEF Begin, Goto
<1>a. Aborted => Aborted'
  <2> SUFFICES ASSUME Aborted PROVE Aborted'
    OBVIOUS
  <2>1. t \notin Dashboard
    BY ProcessAssumption DEF Aborted, Begin, Accepts
  <2>2. \A u \in Dashboard : u \in Tasks /\ tasks'[u] = tasks[u]
    BY <1>2, <2>1, ProcessTypes DEF Tasks
  <2>3. runtimes' = runtimes
    BY <1>1 DEF process
  <2> QED  BY <2>2, <2>3 DEF Aborted
<1>3. \A u \in Tasks : tasks[u].pc = "idle" /\ tasks[u].player = 0
  BY <1>1, ProcessTypes DEF ProcessInv, LockIsHeld
<1>4. tasks'[t] = [pc |-> at, player |-> 0] /\ \A u \in Tasks : u # t => tasks'[u] = tasks[u]
  BY <1>2, ProcessTypes
<1>5. tasks'[t].pc = at /\ tasks'[t].player = 0
  BY <1>4
<1>6. TypeOK'
  <2>1. tasks' \in [Tasks -> [pc : Pcs, player : Players \cup {0}]]
    BY <1>2, ProcessTypes DEF Pcs
  <2> QED  BY <1>1, <2>1, ProcessTypes DEF ProcessInv, TypeOK, process, Pcs
<1>7. LockIsHeld'
  BY <1>1, <1>3, <1>4, <1>5 DEF LockIsHeld
<1>8. LivingAreKnown'
  <2>1. Live' = Live /\ (BeforeTakeover' <=> BeforeTakeover)
    BY <1>1 DEF Live, BeforeTakeover, process
  <2>2. \A u \in Tasks : tasks'[u].player = 0 /\ tasks'[u].pc # "create"
    BY <1>3, <1>4, <1>5
  <2>3. PICK lost \in Players \cup {0} :
          BeforeTakeover => (lost # 0 => Aborted) /\ AreKnown(Live \ {lost})
    BY DEF ProcessInv, LivingAreKnown
  <2>4. BeforeTakeover => (lost # 0 => Aborted') /\ AreKnown(Live \ {lost})'
    BY <1>1, <1>3, <1>a, <2>1, <2>2, <2>3 DEF AreKnown
  <2> QED  BY <2>1, <2>4, Zenon DEF LivingAreKnown
<1>9. StoppedInOrder'
  BY <1>1, OrderFrame
<1> QED  BY <1>6, <1>7, <1>8, <1>9 DEF ProcessInv

\* Where the living actors are while an operation is under way.
LEMMA LivingNow ==
  ASSUME ProcessInv, NEW t \in Tasks, tasks[t].pc # "idle"
  PROVE  \E lost \in Players \cup {0} :
           BeforeTakeover =>
             /\ lost # 0 => Aborted
             /\ tasks[t].player = 0 => Live \ {lost} \subseteq {registered}
             /\ tasks[t].player # 0 => registered = 0 /\ Live \ {lost} \subseteq {tasks[t].player}
             /\ tasks[t].pc = "create" => Live \ {lost} = {}
<1>1. PICK lost \in Players \cup {0} :
        BeforeTakeover => (lost # 0 => Aborted) /\ AreKnown(Live \ {lost})
  BY DEF ProcessInv, LivingAreKnown
<1>2. AreKnown(Live \ {lost}) =>
        /\ tasks[t].player = 0 => Live \ {lost} \subseteq {registered}
        /\ tasks[t].player # 0 => registered = 0 /\ Live \ {lost} \subseteq {tasks[t].player}
        /\ tasks[t].pc = "create" => Live \ {lost} = {}
  BY OthersIdle DEF AreKnown
<1> QED  BY <1>1, <1>2, Zenon

LEMMA HandOf ==
  ASSUME ProcessInv, NEW t \in Tasks
  PROVE  /\ tasks[t].player \in Players \cup {0}
         /\ tasks[t].pc \in {"insert", "shutdown"} <=> tasks[t].player # 0
BY ProcessTypes DEF ProcessInv, LockIsHeld

\* LivePlayer: only where no actor is registered that lives is one created.
LEMMA LivePlayerInv ==
  ASSUME ProcessInv, NEW t \in Tasks, LivePlayer(t)
  PROVE  ProcessInv'
<1>1. /\ tasks[t].pc = "lookup" /\ tasks[t].player = 0 /\ UNCHANGED <<actor, asked, registered>>
      /\ UNCHANGED process
  BY HandOf DEF LivePlayer
<1>2. Live' = Live /\ runtimes' = runtimes
  BY <1>1 DEF Live, process
<1>3. PICK lost \in Players \cup {0} :
        BeforeTakeover => (lost # 0 => Aborted) /\ Live \ {lost} \subseteq {registered}
  BY <1>1, LivingNow
<1>4. CASE registered \in Live
  <2>1. tasks' = [tasks EXCEPT ![t] = [pc |-> "idle", player |-> 0]] /\ lock' = NoTask
    BY <1>4 DEF LivePlayer, Finish, Idle
  <2>2. Aborted => Aborted'
    BY <1>1, <1>2, <2>1, AbortedStays
  <2>9. StepsTo(t, "idle", 0, lost)
    BY <1>1, <1>2, <1>3, <2>1, <2>2, ProcessTypes DEF StepsTo
  <2> QED  BY <1>1, <2>9, ProcessTypes, OperationFrame DEF Pcs
<1>5. CASE registered \notin Live
  <2>1. tasks' = [tasks EXCEPT ![t] = [pc |-> "create", player |-> 0]] /\ lock' = lock
    BY <1>5 DEF LivePlayer, Goto
  <2>2. Aborted => Aborted'
    BY <1>1, <1>2, <2>1, AbortedStays
  <2>3. BeforeTakeover => Live' \ {lost} = {} /\ Live' \ {lost} \subseteq {registered'}
    BY <1>1, <1>2, <1>3, <1>5
  <2>9. StepsTo(t, "create", 0, lost)
    BY <1>1, <1>3, <2>1, <2>2, <2>3, ProcessTypes DEF StepsTo
  <2> QED  BY <1>1, <2>9, ProcessTypes, OperationFrame DEF Pcs
<1> QED  BY <1>4, <1>5

\* An actor that was spawned for nothing does not live.
LEMMA AbandonedActor ==
  ASSUME ProcessInv, Abandoned
  PROVE  /\ actor' \in [Players -> {"none", "live", "closing", "stopped"}]
         /\ \A q \in Players : actor[q] = "stopped" => actor'[q] = "stopped"
         /\ Live' \subseteq Live
<1>1. actor' = actor \/ \E p \in Unborn : actor' = [actor EXCEPT ![p] = "closing"]
  BY Zenon DEF Abandoned, Spawn
<1> QED  BY <1>1, ProcessTypes DEF Live, Unborn

\* Create: the new actor is the only one known, in the hands of its creator.
LEMMA CreateInv ==
  ASSUME ProcessInv, NEW t \in Tasks, Create(t)
  PROVE  ProcessInv'
<1>1. /\ tasks[t].pc = "create" /\ tasks[t].player = 0 /\ registered' = 0 /\ asked' = asked
      /\ UNCHANGED process
  BY HandOf DEF Create
<1>2. PICK lost \in Players \cup {0} : BeforeTakeover => (lost # 0 => Aborted) /\ Live \ {lost} = {}
  BY <1>1, LivingNow
<1>a. runtimes' = runtimes
  BY <1>1 DEF process
<1>3. ASSUME NEW p \in Unborn, Spawn(p, "live"), Goto(t, "insert", p), lock' = lock
      PROVE  ProcessInv'
  <2>1. p \in Players /\ p # 0 /\ actor[p] = "none" /\ actor' = [actor EXCEPT ![p] = "live"]
    BY <1>3, ProcessTypes DEF Unborn, Spawn
  <2>2. actor' \in [Players -> {"none", "live", "closing", "stopped"}]
        /\ \A q \in Players : actor[q] = "stopped" => actor'[q] = "stopped"
    BY <2>1, ProcessTypes
  <2>3. BeforeTakeover => Live' \ {lost} \subseteq {p}
    BY <1>2, <2>1, ProcessTypes DEF Live
  <2>4. tasks' = [tasks EXCEPT ![t] = [pc |-> "insert", player |-> p]]
    BY <1>3 DEF Goto
  <2>5. Aborted => Aborted'
    BY <1>1, <1>a, <2>4, AbortedStays
  <2>9. StepsTo(t, "insert", p, lost)
    BY <1>1, <1>2, <1>3, <2>1, <2>2, <2>3, <2>4, <2>5, ProcessTypes DEF StepsTo
  <2> QED  BY <1>1, <2>1, <2>9, ProcessTypes, OperationFrame DEF Pcs
<1>4. ASSUME Abandoned, Finish(t)
      PROVE  ProcessInv'
  <2>1. tasks' = [tasks EXCEPT ![t] = [pc |-> "idle", player |-> 0]] /\ lock' = NoTask
    BY <1>4 DEF Finish, Idle
  <2>2. Aborted => Aborted'
    BY <1>1, <1>a, <2>1, AbortedStays
  <2>3. BeforeTakeover => Live' \ {lost} \subseteq {registered'}
    BY <1>2, <1>4, AbandonedActor
  <2>9. StepsTo(t, "idle", 0, lost)
    BY <1>1, <1>2, <1>4, <2>1, <2>2, <2>3, AbandonedActor, ProcessTypes DEF StepsTo
  <2> QED  BY <1>1, <2>9, ProcessTypes, OperationFrame DEF Pcs
<1> QED  BY <1>3, <1>4 DEF Create

\* Insert: from the creator's hands into the registry.
LEMMA InsertInv ==
  ASSUME ProcessInv, NEW t \in Tasks, Insert(t)
  PROVE  ProcessInv'
<1>1. /\ tasks[t].pc = "insert" /\ tasks[t].player # 0 /\ registered' = tasks[t].player
      /\ UNCHANGED <<actor, asked>> /\ UNCHANGED process
  BY HandOf DEF Insert
<1>2. tasks' = [tasks EXCEPT ![t] = [pc |-> "idle", player |-> 0]] /\ lock' = NoTask
  BY DEF Insert, Finish, Idle
<1>3. PICK lost \in Players \cup {0} :
        BeforeTakeover => (lost # 0 => Aborted) /\ Live \ {lost} \subseteq {tasks[t].player}
  BY <1>1, LivingNow
<1>4. Live' = Live /\ runtimes' = runtimes
  BY <1>1 DEF Live, process
<1>5. Aborted => Aborted'
  BY <1>1, <1>2, <1>4, AbortedStays
<1>19. StepsTo(t, "idle", 0, lost)
  BY <1>1, <1>2, <1>3, <1>4, <1>5, HandOf, ProcessTypes DEF StepsTo
<1> QED  BY <1>1, <1>19, ProcessTypes, OperationFrame DEF Pcs

\* Remove: from the registry into the hands of who removes it.
LEMMA RemoveInv ==
  ASSUME ProcessInv, NEW t \in Tasks, Remove(t)
  PROVE  ProcessInv'
<1>1. /\ tasks[t].pc = "remove" /\ tasks[t].player = 0 /\ registered' = 0 /\ actor' = actor
      /\ UNCHANGED process
  BY HandOf DEF Remove
<1>2. Live' = Live /\ runtimes' = runtimes
  BY <1>1 DEF Live, process
<1>a. PICK lost \in Players \cup {0} :
        BeforeTakeover => (lost # 0 => Aborted) /\ Live' \ {lost} \subseteq {registered}
  BY <1>1, <1>2, LivingNow
<1>3. CASE registered = 0
  <2>1. tasks' = [tasks EXCEPT ![t] = [pc |-> "idle", player |-> 0]] /\ lock' = NoTask /\ asked' = asked
    BY <1>3 DEF Remove, Finish, Idle
  <2>2. Aborted => Aborted'
    BY <1>1, <1>2, <2>1, AbortedStays
  <2>9. StepsTo(t, "idle", 0, lost)
    BY <1>1, <1>a, <1>3, <2>1, <2>2, ProcessTypes DEF StepsTo
  <2> QED  BY <1>1, <2>9, ProcessTypes, OperationFrame DEF Pcs
<1>4. CASE registered # 0
  <2>1. tasks' = [tasks EXCEPT ![t] = [pc |-> "shutdown", player |-> registered]] /\ lock' = lock
    BY <1>4 DEF Remove, Goto
  <2>2. asked' \in SUBSET Players
    BY <1>4, ProcessTypes DEF Remove, Live
  <2>3. Aborted => Aborted'
    BY <1>1, <1>2, <2>1, AbortedStays
  <2>9. StepsTo(t, "shutdown", registered, lost)
    BY <1>1, <1>a, <1>4, <2>1, <2>2, <2>3, ProcessTypes DEF StepsTo
  <2> QED  BY <1>1, <2>9, ProcessTypes, OperationFrame DEF Pcs
<1> QED  BY <1>3, <1>4

\* Removed: back into the registry unless its actor has stopped.
LEMMA RemovedInv ==
  ASSUME ProcessInv, NEW t \in Tasks, Removed(t)
  PROVE  ProcessInv'
<1>1. /\ tasks[t].pc = "shutdown" /\ tasks[t].player \in Players /\ tasks[t].player # 0
      /\ registered' = IF actor[tasks[t].player] = "stopped" THEN registered ELSE tasks[t].player
      /\ UNCHANGED <<actor, asked>> /\ UNCHANGED process
  BY HandOf DEF Removed
<1>2. tasks' = [tasks EXCEPT ![t] = [pc |-> "idle", player |-> 0]] /\ lock' = NoTask
  BY DEF Removed, Finish, Idle
<1>3. PICK lost \in Players \cup {0} :
        BeforeTakeover => (lost # 0 => Aborted) /\ Live \ {lost} \subseteq {tasks[t].player}
  BY <1>1, LivingNow
<1>4. BeforeTakeover => Live' \ {lost} \subseteq {registered'}
  BY <1>1, <1>3 DEF Live
<1>5. runtimes' = runtimes
  BY <1>1 DEF process
<1>6. Aborted => Aborted'
  BY <1>1, <1>2, <1>5, AbortedStays
<1>19. StepsTo(t, "idle", 0, lost)
  BY <1>1, <1>2, <1>3, <1>4, <1>6, ProcessTypes DEF StepsTo
<1> QED  BY <1>1, <1>19, ProcessTypes, OperationFrame DEF Pcs

\* Abort: the player in hand is the one that may be lost, and the last.
LEMMA AbortInv ==
  ASSUME ProcessInv, NEW t \in Tasks, Abort(t)
  PROVE  ProcessInv'
<1>1. /\ t \in Dashboard /\ runtimes["commands"] # "running" /\ asked' = asked
      /\ UNCHANGED process /\ runtimes' = runtimes
  BY DEF Abort, process
<1>2. tasks' = [tasks EXCEPT ![t] = [pc |-> "idle", player |-> 0]] /\ lock' = NoTask
  BY DEF Abort, Finish, Idle
<1>3. tasks[t].pc # "idle"
  BY HandOf, ProcessTypes DEF Abort, Idle
<1>4. Aborted'
  <2>1. \A u \in Dashboard : u \in Tasks
    BY DEF Tasks
  <2>2. \A u \in Tasks : tasks'[u].pc = "idle"
    BY <1>2, <1>3, OthersIdle, ProcessTypes
  <2> QED  BY <1>1, <2>1, <2>2 DEF Aborted
<1>5. ~Aborted
  BY <1>1, <1>3 DEF Aborted
<1>6. PICK hand \in Players \cup {0} : hand = tasks[t].player
  BY HandOf
<1>7. BeforeTakeover => /\ hand = 0 => Live \subseteq {registered}
                        /\ hand # 0 => Live \subseteq {hand}
                        /\ tasks[t].pc = "create" => Live = {}
  <2>1. Live \ {0} = Live
    BY ProcessTypes DEF Live
  <2> QED  BY <1>3, <1>5, <1>6, <2>1, LivingNow
<1>8. \/ UNCHANGED <<actor, registered>> /\ Live' = Live
      \/ tasks[t].pc = "create" /\ registered' = 0 /\ Abandoned
  BY DEF Abort, Live
<1>9. /\ actor' \in [Players -> {"none", "live", "closing", "stopped"}]
      /\ \A q \in Players : actor[q] = "stopped" => actor'[q] = "stopped"
      /\ Live' \subseteq Live /\ registered' \in Players \cup {0}
  BY <1>8, ProcessTypes, AbandonedActor
<1>10. BeforeTakeover => Live' \ {hand} \subseteq {registered'}
  BY <1>7, <1>8, <1>9
<1>19. StepsTo(t, "idle", 0, hand)
  BY <1>1, <1>2, <1>3, <1>4, <1>9, <1>10, ProcessTypes DEF StepsTo
<1> QED  BY <1>1, <1>3, <1>19, ProcessTypes, OperationFrame DEF Pcs

LEMMA OperationInv ==
  ASSUME ProcessInv, NEW t \in Tasks, Operation(t)
  PROVE  ProcessInv'
BY BeginInv, LivePlayerInv, CreateInv, InsertInv, RemoveInv, RemovedInv, AbortInv DEF Operation

\* An actor ends, or refuses to.
LEMMA ActorInv ==
  ASSUME ProcessInv, NEW p \in Players, HandleShutdown(p) \/ EndsItself(p)
  PROVE  ProcessInv'
<1>1. /\ asked' \subseteq asked /\ UNCHANGED <<registered, lock, tasks>> /\ UNCHANGED process
      /\ actor' = actor \/ actor' = [actor EXCEPT ![p] = "stopped"]
  BY DEF HandleShutdown, EndsItself
<1>2. actor' \in [Players -> {"none", "live", "closing", "stopped"}]
      /\ \A q \in Players : actor[q] = "stopped" => actor'[q] = "stopped"
  BY <1>1, ProcessTypes
<1>3. Live' \subseteq Live
  BY <1>1, ProcessTypes DEF Live
<1>4. TypeOK' /\ LockIsHeld'
  BY <1>1, <1>2 DEF ProcessInv, TypeOK, LockIsHeld, process
<1>5. LivingAreKnown'
  <2>1. (BeforeTakeover' <=> BeforeTakeover) /\ (Aborted' <=> Aborted)
    BY <1>1 DEF BeforeTakeover, Aborted, process
  <2>2. PICK lost \in Players \cup {0} :
          BeforeTakeover => (lost # 0 => Aborted) /\ AreKnown(Live \ {lost})
    BY DEF ProcessInv, LivingAreKnown
  <2>3. AreKnown(Live \ {lost}) => AreKnown(Live \ {lost})'
    BY <1>1, <1>3 DEF AreKnown
  <2> QED  BY <2>1, <2>2, <2>3, Zenon DEF LivingAreKnown
<1> QED  BY <1>1, <1>2, <1>4, <1>5, OrderFrame DEF ProcessInv

\* The registry during a step of the shutdown that leaves it alone.
LEMMA RegistryFrame ==
  ASSUME ProcessInv, UNCHANGED registry,
         BeforeTakeover' => BeforeTakeover
                            /\ (runtimes["commands"] # "running" => runtimes'["commands"] # "running"),
         /\ phase' \in {"running", "gateway", "ingress", "players", "drain", "exited"}
         /\ runtimes' \in [Runtimes -> Endings]
         /\ \A r \in Runtimes \ {"commands"} : runtimes'[r] # "ended"
         /\ cleaning' \in [Players -> {"no", "asked", "stopped", "failed"}]
         /\ clean' \in BOOLEAN /\ late' \in BOOLEAN
  PROVE  TypeOK' /\ LockIsHeld' /\ LivingAreKnown'
<1>1. UNCHANGED <<actor, asked, registered, lock, tasks>> /\ Live' = Live
  BY DEF registry, Live
<1>2. TypeOK' /\ LockIsHeld'
  BY <1>1 DEF ProcessInv, TypeOK, LockIsHeld, Endings
<1>3. LivingAreKnown'
  <2>1. PICK lost \in Players \cup {0} :
          BeforeTakeover => (lost # 0 => Aborted) /\ AreKnown(Live \ {lost})
    BY DEF ProcessInv, LivingAreKnown
  <2>2. AreKnown(Live \ {lost}) => AreKnown(Live \ {lost})'
    BY <1>1 DEF AreKnown
  <2>3. BeforeTakeover' /\ Aborted => Aborted'
    BY <1>1 DEF Aborted
  <2> QED  BY <2>1, <2>2, <2>3, Zenon DEF LivingAreKnown
<1> QED  BY <1>2, <1>3

LEMMA ShutdownTypes ==
  ASSUME ProcessInv
  PROVE  /\ phase \in {"running", "gateway", "ingress", "players", "drain", "exited"}
         /\ runtimes \in [Runtimes -> Endings]
         /\ \A r \in Runtimes \ {"commands"} : runtimes[r] # "ended"
         /\ cleaning \in [Players -> {"no", "asked", "stopped", "failed"}]
         /\ clean \in BOOLEAN /\ late \in BOOLEAN
BY DEF ProcessInv, TypeOK, Endings

\* Until the players are taken, the shutdown touches nothing of theirs.
LEMMA SupervisionInv ==
  ASSUME ProcessInv, StopReason \/ GatewayDown \/ Deadline, phase # "exited"
  PROVE  ProcessInv'
<1>1. UNCHANGED registry /\ cleaning' = cleaning /\ runtimes' = runtimes
  BY Zenon DEF StopReason, GatewayDown, Deadline
<1>2. /\ phase' \in {"running", "gateway", "ingress", "players", "drain", "exited"}
      /\ clean' \in BOOLEAN /\ late' \in BOOLEAN
  BY ShutdownTypes, Zenon DEF StopReason, GatewayDown, Deadline
<1>3. \/ BeforeTakeover /\ BeforeTakeover'
      \/ phase' = phase /\ clean' = clean
  BY Zenon DEF StopReason, GatewayDown, Deadline, BeforeTakeover
<1>4. (BeforeTakeover' => BeforeTakeover) /\ phase' # "exited"
  BY <1>3 DEF BeforeTakeover
<1>5. TypeOK' /\ LockIsHeld' /\ LivingAreKnown'
  BY <1>1, <1>2, <1>4, ShutdownTypes, RegistryFrame
<1>7. UNCHANGED <<actor, cleaning, runtimes>>
  BY <1>1 DEF registry
<1>8. StoppedInOrder'
  <2>1. CASE BeforeTakeover /\ BeforeTakeover'
    BY <1>7, <2>1 DEF ProcessInv, StoppedInOrder, BeforeTakeover
  <2>2. CASE phase' = phase /\ clean' = clean
    BY <1>7, <2>2 DEF ProcessInv, StoppedInOrder, BeforeTakeover, Joined
  <2> QED  BY <1>3, <2>1, <2>2
<1> QED  BY <1>5, <1>8 DEF ProcessInv

LEMMA Groups == /\ Ingress \in SUBSET Runtimes /\ Parallel \in SUBSET Runtimes
                /\ Drained \in SUBSET Runtimes
                /\ \A r \in Runtimes : r \in Ingress \/ r \in Parallel \/ r \in Drained
BY DEF Runtimes

\* A runtime that has been joined does not run, so that none of them ends again.
LEMMA RuntimeEndsInv ==
  ASSUME ProcessInv, (\E r \in Runtimes : Fails(r)) \/ WorkerStops, phase # "exited"
  PROVE  ProcessInv'
<1>1. UNCHANGED registry /\ UNCHANGED <<phase, cleaning, clean, late>>
  BY Zenon DEF Fails, WorkerStops
<1>2. PICK r \in Runtimes, end \in {"failed", "ended", "stopped"} :
        /\ runtimes[r] = "running" /\ (end = "ended" => r = "commands")
        /\ runtimes' = [runtimes EXCEPT ![r] = end]
  <2>1. CASE WorkerStops
    <3>1. "commands" \in Runtimes
      BY DEF Runtimes, Ingress
    <3> QED  BY <2>1, <3>1, Zenon DEF WorkerStops
  <2>2. CASE \E r \in Runtimes : Fails(r)
    BY <2>2, Zenon DEF Fails
  <2> QED  BY <2>1, <2>2
<1>3. \A q \in Runtimes : runtimes'[q] = IF q = r THEN end ELSE runtimes[q]
  BY <1>2, ShutdownTypes
<1>4. /\ runtimes' \in [Runtimes -> Endings]
      /\ \A q \in Runtimes \ {"commands"} : runtimes'[q] # "ended"
      /\ \A q \in Runtimes : /\ runtimes[q] # "running" => runtimes'[q] # "running"
                             /\ runtimes[q] # "aborted" => runtimes'[q] # "aborted"
                             /\ Joined(q) => Joined(q)'
  BY <1>2, <1>3, ShutdownTypes DEF Endings, Joined
<1>5. "commands" \in Runtimes
  BY DEF Runtimes, Ingress
<1>6. BeforeTakeover' => BeforeTakeover
  BY <1>1 DEF BeforeTakeover
<1>7. TypeOK' /\ LockIsHeld' /\ LivingAreKnown'
  BY <1>1, <1>4, <1>5, <1>6, ShutdownTypes, RegistryFrame
<1>8. actor' = actor
  BY <1>1 DEF registry
<1>9. StoppedInOrder'
  BY <1>1, <1>4, <1>8, Groups DEF ProcessInv, StoppedInOrder, BeforeTakeover
<1> QED  BY <1>7, <1>9 DEF ProcessInv

\* A group that is stopped without a failure has stopped.
LEMMA StopGroup ==
  ASSUME ProcessInv, NEW group \in SUBSET Runtimes, Stop(group), phase # "exited",
         "commands" \in group => runtimes["commands"] # "running"
  PROVE  /\ runtimes' \in [Runtimes -> Endings]
         /\ \A r \in Runtimes \ {"commands"} : runtimes'[r] # "ended"
         /\ clean' \in BOOLEAN /\ (clean' => clean)
         /\ clean' => \A r \in group : Joined(r)'
         /\ \A r \in Runtimes : runtimes'[r] # "aborted" /\ (Joined(r) => Joined(r)')
<1>1. \A r \in Runtimes : /\ runtimes[r] \in {"running", "failed", "ended", "stopped"}
                          /\ runtimes[r] = "ended" => r = "commands"
  BY ShutdownTypes DEF ProcessInv, StoppedInOrder, Endings
<1>2. runtimes' = [r \in Runtimes |-> IF r \in group /\ runtimes[r] = "running" THEN "stopped" ELSE runtimes[r]]
  BY DEF Stop
<1>a. \A r \in Runtimes : runtimes'[r] = IF r \in group /\ runtimes[r] = "running" THEN "stopped" ELSE runtimes[r]
  BY <1>2
<1>3. runtimes' \in [Runtimes -> Endings]
  <2> SUFFICES ASSUME NEW r \in Runtimes PROVE runtimes'[r] \in Endings
    BY <1>2, Zenon
  <2>1. runtimes[r] \in Endings
    BY ShutdownTypes, Zenon
  <2>2. runtimes'[r] \in {"stopped", runtimes[r]}
    BY <1>a, Zenon
  <2> QED  BY <2>1, <2>2 DEF Endings
<1>4. clean' \in BOOLEAN /\ (clean' => clean) /\ (clean' => \A r \in group : runtimes[r] # "failed")
  BY ShutdownTypes, Zenon DEF Stop
<1>5. ASSUME clean' PROVE \A r \in group : Joined(r)'
  <2> TAKE r \in group
  <2>1. r \in Runtimes /\ runtimes[r] # "failed"
    BY <1>4, <1>5, Zenon
  <2>2. runtimes[r] = "running" => runtimes'[r] = "stopped"
    BY <1>a, <2>1
  <2>3. runtimes[r] # "running" => runtimes'[r] = runtimes[r]
    BY <1>a, <2>1
  <2>4. runtimes[r] \in {"running", "ended", "stopped"} /\ (runtimes[r] = "ended" => r = "commands")
    BY <1>1, <2>1
  <2> QED  BY <2>2, <2>3, <2>4 DEF Joined
<1>6. \A r \in Runtimes : /\ runtimes'[r] # "aborted" /\ (Joined(r) => Joined(r)')
                          /\ runtimes'[r] = "ended" => r = "commands"
  BY <1>1, <1>a DEF Joined
<1>7. \A r \in Runtimes \ {"commands"} : runtimes'[r] # "ended"
  BY <1>6
<1> QED  BY <1>3, <1>4, <1>5, <1>6, <1>7, Zenon

\* StopIngress: the registered player is taken over.
LEMMA StopIngressInv ==
  ASSUME ProcessInv, StopIngress
  PROVE  ProcessInv'
<1>1. /\ phase = "ingress" /\ phase' = "players" /\ Stop(Ingress) /\ registered' = 0
      /\ runtimes["commands"] # "running"
      /\ cleaning' = [p \in Players |-> IF p = registered THEN "asked" ELSE "no"]
      /\ asked' = IF registered \in Live THEN asked \cup {registered} ELSE asked
      /\ UNCHANGED <<late, actor, lock, tasks>>
  BY DEF StopIngress
<1>2. /\ runtimes' \in [Runtimes -> Endings] /\ \A r \in Runtimes \ {"commands"} : runtimes'[r] # "ended"
      /\ clean' \in BOOLEAN
      /\ clean' => \A r \in Ingress : Joined(r)'
      /\ \A r \in Runtimes : runtimes'[r] # "aborted"
  BY <1>1, Groups, StopGroup
<1>3. TypeOK'
  BY <1>1, <1>2, ProcessTypes, ShutdownTypes DEF ProcessInv, TypeOK, Live, Endings
<1>4. LockIsHeld' /\ LivingAreKnown'
  <2>1. ~BeforeTakeover'
    BY <1>1 DEF BeforeTakeover
  <2> QED  BY <1>1, <2>1 DEF ProcessInv, LockIsHeld, LivingAreKnown
<1>5. \A p \in Players : cleaning'[p] \notin {"failed", "stopped"}
  BY <1>1
<1>6. StoppedInOrder'
  BY <1>1, <1>2, <1>5 DEF StoppedInOrder, BeforeTakeover
<1> QED  BY <1>3, <1>4, <1>6 DEF ProcessInv

\* Cleaned: a player that has not stopped makes the exit unclean.
LEMMA CleanedInv ==
  ASSUME ProcessInv, NEW p \in Players, Cleaned(p)
  PROVE  ProcessInv'
<1>1. /\ phase = "players" /\ UNCHANGED <<phase, runtimes, late>> /\ UNCHANGED registry
      /\ cleaning' = [cleaning EXCEPT ![p] = IF actor[p] = "stopped" THEN "stopped" ELSE "failed"]
      /\ clean' = (clean /\ actor[p] = "stopped")
  BY DEF Cleaned
<1>2. cleaning' \in [Players -> {"no", "asked", "stopped", "failed"}] /\ clean' \in BOOLEAN
  BY <1>1, ShutdownTypes
<1>3. TypeOK' /\ LockIsHeld' /\ LivingAreKnown'
  BY <1>1, <1>2, ShutdownTypes, RegistryFrame DEF BeforeTakeover
<1>4. actor' = actor
  BY <1>1 DEF registry
<1>5. \A q \in Players : q # p => cleaning'[q] = cleaning[q]
  BY <1>1, ShutdownTypes
<1>6. cleaning'[p] = IF actor[p] = "stopped" THEN "stopped" ELSE "failed"
  BY <1>1, ShutdownTypes
<1>7. (clean' => clean) /\ (clean' => actor[p] = "stopped")
  BY <1>1, Zenon
<1>8. \A q \in Players : /\ cleaning'[q] = "stopped" => actor'[q] = "stopped"
                         /\ clean' => cleaning'[q] # "failed"
  BY <1>4, <1>5, <1>6, <1>7 DEF ProcessInv, StoppedInOrder
<1>9. StoppedInOrder'
  BY <1>1, <1>7, <1>8 DEF ProcessInv, StoppedInOrder, BeforeTakeover, Joined
<1> QED  BY <1>3, <1>9 DEF ProcessInv

\* StopPlayers, Drain: the later groups, when every player has been answered for.
LEMMA LaterStopsInv ==
  ASSUME ProcessInv, StopPlayers \/ Drain
  PROVE  ProcessInv'
<1> DEFINE group == IF phase = "players" THEN Parallel ELSE Drained
<1>1. /\ UNCHANGED <<cleaning, late>> /\ UNCHANGED registry /\ Stop(group)
      /\ \/ phase = "players" /\ phase' = "drain" /\ \A p \in Players : cleaning[p] # "asked"
         \/ phase = "drain" /\ phase' = "exited"
  BY DEF StopPlayers, Drain
<1>2. group \in SUBSET Runtimes /\ phase # "exited"
  BY <1>1, Groups
<1>3. /\ phase = "players" => group = Parallel
      /\ phase = "drain" => group = Drained
  OBVIOUS
<1> HIDE DEF group
<1>4. /\ runtimes' \in [Runtimes -> Endings] /\ \A r \in Runtimes \ {"commands"} : runtimes'[r] # "ended"
      /\ clean' \in BOOLEAN /\ (clean' => clean)
      /\ clean' => \A r \in group : Joined(r)'
      /\ \A r \in Runtimes : runtimes'[r] # "aborted" /\ (Joined(r) => Joined(r)')
  <2>1. "commands" \notin group
    BY <1>1, <1>3 DEF Parallel, Drained
  <2> QED  BY <1>1, <1>2, <2>1, StopGroup
<1>5. TypeOK' /\ LockIsHeld' /\ LivingAreKnown'
  BY <1>1, <1>4, ShutdownTypes, RegistryFrame DEF BeforeTakeover
<1>6. actor' = actor
  BY <1>1 DEF registry
<1>7. clean' => /\ \A r \in Ingress : Joined(r)'
                /\ phase' \in {"drain", "exited"} => \A r \in Parallel : Joined(r)'
                /\ phase' = "exited" => \A r \in Drained : Joined(r)'
                /\ \A p \in Players : cleaning[p] \notin {"asked", "failed"}
  BY <1>1, <1>3, <1>4, Groups DEF ProcessInv, StoppedInOrder
<1>8. StoppedInOrder'
  BY <1>1, <1>4, <1>6, <1>7 DEF ProcessInv, StoppedInOrder, BeforeTakeover
<1> QED  BY <1>5, <1>8 DEF ProcessInv

\* Abandon: never clean.
LEMMA AbandonInv ==
  ASSUME ProcessInv, Abandon
  PROVE  ProcessInv'
<1>1. /\ phase' = "exited" /\ clean' = FALSE /\ UNCHANGED <<cleaning, late>> /\ UNCHANGED registry
      /\ runtimes' = [r \in Runtimes |-> IF runtimes[r] = "running" THEN "aborted" ELSE runtimes[r]]
  BY DEF Abandon
<1>2. runtimes' \in [Runtimes -> Endings] /\ \A r \in Runtimes \ {"commands"} : runtimes'[r] # "ended"
  BY <1>1, ShutdownTypes DEF Endings
<1>3. TypeOK' /\ LockIsHeld' /\ LivingAreKnown'
  BY <1>1, <1>2, ShutdownTypes, RegistryFrame, Zenon DEF BeforeTakeover
<1>4. actor' = actor
  BY <1>1 DEF registry
<1>5. StoppedInOrder'
  BY <1>1, <1>4 DEF ProcessInv, StoppedInOrder, BeforeTakeover
<1> QED  BY <1>3, <1>5 DEF ProcessInv

LEMMA ProcessStep == ProcessInv /\ [Next]_vars => ProcessInv'
<1>1. ASSUME ProcessInv, Next PROVE ProcessInv'
  BY <1>1, OperationInv, ActorInv, CleanedInv, SupervisionInv, RuntimeEndsInv, StopIngressInv, LaterStopsInv,
     AbandonInv DEF Next, Shutdown
<1>2. ASSUME ProcessInv, UNCHANGED vars PROVE ProcessInv'
  <2>1. UNCHANGED registry /\ UNCHANGED process
    BY <1>2 DEF vars, registry, process
  <2>2. StoppedInOrder'
    BY <1>2, <2>1, OrderFrame DEF registry
  <2>3. UNCHANGED <<phase, runtimes, cleaning, clean, late>> /\ (BeforeTakeover' => BeforeTakeover)
    BY <2>1 DEF process, BeforeTakeover
  <2>4. TypeOK' /\ LockIsHeld' /\ LivingAreKnown'
    BY <1>2, <2>1, <2>3, ShutdownTypes, RegistryFrame
  <2> QED  BY <2>2, <2>4 DEF ProcessInv
<1> QED  BY <1>1, <1>2

LEMMA ProcessStart == Init => ProcessInv
<1> SUFFICES ASSUME Init PROVE ProcessInv
  OBVIOUS
<1>1. TypeOK
  BY ProcessAssumption, Zenon DEF Init, TypeOK, Idle
<1>2. LockIsHeld /\ LivingAreKnown
  BY DEF Init, Idle, LockIsHeld, LivingAreKnown, AreKnown, Live
<1>3. StoppedInOrder
  BY DEF Init, StoppedInOrder, BeforeTakeover
<1> QED  BY <1>1, <1>2, <1>3 DEF ProcessInv

\* What the run checks follows.
LEMMA ProcessPromise ==
  ASSUME ProcessInv
  PROVE  TypeOK /\ PlayersAccountedFor /\ CleanExitIsTrue
<1>1. PlayersAccountedFor
  <2> SUFFICES ASSUME BeforeTakeover, NEW spare, spare = IF Aborted THEN 1 ELSE 0
               PROVE  Cardinality(Live) <= 1 + spare /\ Cardinality(Live \ Held) <= spare
    BY DEF PlayersAccountedFor, BeforeTakeover
  <2>1. PICK lost \in Players \cup {0} : (lost # 0 => Aborted) /\ AreKnown(Live \ {lost})
    BY DEF ProcessInv, LivingAreKnown
  <2>2. PICK h : Live \ {lost} \subseteq {h} /\ h \in Held
    <3>1. CASE \A t \in Tasks : tasks[t].player = 0
      BY <2>1, <3>1 DEF AreKnown, Held
    <3>2. CASE \E t \in Tasks : tasks[t].player # 0
      BY <2>1, <3>2 DEF AreKnown, Held
    <3> QED  BY <3>1, <3>2
  <2>3. /\ IsFiniteSet({h}) /\ Cardinality({h}) = 1
        /\ IsFiniteSet({lost}) /\ Cardinality({lost}) = 1
        /\ IsFiniteSet({h} \cup {lost}) /\ Cardinality({h} \cup {lost}) <= 2
    <3>1. /\ IsFiniteSet({h}) /\ Cardinality({h}) = 1
          /\ IsFiniteSet({lost}) /\ Cardinality({lost}) = 1
      BY FS_Singleton
    <3>2. /\ IsFiniteSet({h} \cup {lost})
          /\ Cardinality({h} \cup {lost}) = IF lost \in {h} THEN 1 ELSE 1 + 1
      BY <3>1, FS_AddElement
    <3> QED  BY <3>1, <3>2
  <2>4. CASE Aborted
    <3>1. Live \subseteq {h} \cup {lost} /\ Live \ Held \subseteq {lost}
      BY <2>2
    <3>2. /\ Cardinality(Live) <= Cardinality({h} \cup {lost}) /\ Cardinality(Live) \in Nat
          /\ Cardinality(Live \ Held) <= Cardinality({lost}) /\ Cardinality(Live \ Held) \in Nat
          /\ Cardinality({h} \cup {lost}) \in Nat
      BY <2>3, <3>1, FS_Subset, FS_CardinalityType
    <3> QED  BY <2>3, <2>4, <3>2
  <2>5. CASE ~Aborted
    <3>1. Live \ {lost} = Live
      BY <2>1, <2>5, ProcessTypes DEF Live
    <3>2. Live \subseteq {h} /\ Live \ Held = {}
      BY <2>2, <3>1
    <3>3. Cardinality(Live) <= Cardinality({h})
      BY <2>3, <3>2, FS_Subset
    <3>4. Cardinality(Live \ Held) = 0
      BY <3>2, FS_EmptySet
    <3> QED  BY <2>3, <2>5, <3>3, <3>4
  <2> QED  BY <2>4, <2>5
<1>2. CleanExitIsTrue
  <2> SUFFICES ASSUME phase = "exited", clean
               PROVE  /\ \A p \in Players : cleaning[p] # "no" => actor[p] = "stopped"
                      /\ \A r \in Runtimes : Joined(r)
    <3>1. "commands" \in Runtimes
      BY DEF Runtimes, Ingress
    <3> QED  BY <3>1 DEF CleanExitIsTrue, Joined
  <2>1. \A p \in Players : cleaning[p] # "no" => actor[p] = "stopped"
    BY ShutdownTypes DEF ProcessInv, StoppedInOrder
  <2>2. \A r \in Runtimes : Joined(r)
    BY Groups DEF ProcessInv, StoppedInOrder
  <2> QED  BY <2>1, <2>2
<1> QED  BY <1>1, <1>2 DEF ProcessInv

\* Whatever fails, races or times out while the process stops, no player is forgotten
\* before shutdown_all takes them, and an exit without an error is a complete one.
THEOREM ShutdownStaysHonest == MCSpec => []ShutdownIsHonest
<1> DEFINE Now == On("process") => ProcessInv
<1>1. MCInit => Now
  BY ProcessStart DEF MCInit
<1>2. Now /\ [MCNext]_allVars => Now'
  BY OnlyOneMoves, ProcessStep DEF On
<1>3. Now => ShutdownIsHonest
  BY ProcessPromise DEF ShutdownIsHonest
<1> QED  BY <1>1, <1>2, <1>3, PTL DEF MCSpec

-----------------------------------------------------------------------------
(* Sessions.                                                               *)

SeatPcs == {"free", "peek", "refresh", "confirm", "bind", "authorize", "granted", "opening",
            "open", "recheck", "leave", "unpoint", "destroy", "loggedout"}
OnAir   == {"opening", "open", "recheck"}

Seats == [pc : SeatPcs, kind : {"call", "stream", "logout"}, session : Auth!SessionIds \cup {0},
          stale : BOOLEAN, check : 0..CheckEvery, life : 0..Lifetime, overdue : Nat]
Visits == [user : Users \cup {Nobody}, state : Auth!States \cup {0},
           idle : 0..IdleTtl, life : 0..AbsoluteTtl]

SessionTypes ==
  /\ states \in [Auth!States -> [begun : BOOLEAN, left : 0..StateTtl]]
  /\ callbacks \in [Callbacks -> [pc : {"idle", "exchange", "create"},
                                  state : Auth!States \cup {0}, user : Users \cup {Nobody}]]
  /\ sessions \in [Auth!SessionIds -> Visits]
  /\ pointer \in [Users -> Auth!SessionIds \cup {0}]
  /\ requests \in [Requests -> Seats]
  /\ admission \in [active : 0..GlobalLimit, users : [Users -> 0..UserLimit]]
  /\ shutdown \in BOOLEAN

Spent == {st \in Auth!States : states[st].begun /\ states[st].left = 0}

\* A state that a callback or a session holds was begun, is consumed, and is held once.
LoginInv ==
  /\ \A c \in Callbacks :
       /\ callbacks[c].pc # "idle" => callbacks[c].state \in Spent
       /\ callbacks[c].pc = "create" => callbacks[c].user \in Users
       /\ \A d \in Callbacks : callbacks[c].pc # "idle" /\ callbacks[d].pc # "idle"
                               /\ callbacks[c].state = callbacks[d].state => c = d
       /\ \A s \in Auth!Created : callbacks[c].pc # "idle" => callbacks[c].state # sessions[s].state
  /\ \A s \in Auth!Created : sessions[s].state \in Spent
  /\ Auth!StateUsedOnce

\* Where a request stands: what it was refused for stays so, and a stream counts the
\* checks it still has against the minutes its session is gone.
SeatStands(q) ==
  /\ q.pc # "free" => q.session \in Auth!Created
  /\ q.stale => q.pc # "free" /\ ~Auth!Valid(q.session)
  /\ q.pc \in {"granted"} \cup OnAir => ~q.stale
  /\ q.pc = "loggedout" => ~Auth!Valid(q.session)
  /\ q.overdue > 0 => ~Auth!Valid(q.session)
  /\ q.pc = "open" => q.overdue + q.check <= CheckEvery
  /\ q.pc = "recheck" => q.overdue <= CheckEvery
  /\ q.pc \notin {"open", "recheck"} => q.overdue = 0

RequestInv == \A r \in Requests : SeatStands(requests[r])

StreamsOf(u) == {r \in Auth!Streaming : sessions[requests[r].session].user = u}

LeaseInv == /\ admission.active = Cardinality(Auth!Streaming)
            /\ \A u \in Users : admission.users[u] = Cardinality(StreamsOf(u))

SessionInv == SessionTypes /\ LoginInv /\ RequestInv /\ LeaseInv

\* What any step may do to the sessions that there are: their users stay, and none
\* becomes valid again.
SessionsMove ==
  \A s \in Auth!Created : /\ s \in Auth!Created' /\ sessions'[s].user = sessions[s].user
                          /\ Auth!Valid(s)' => Auth!Valid(s)

LEMMA Bounds ==
  /\ MaxLogins \in Nat /\ MaxSessions \in Nat /\ StateTtl \in Nat /\ IdleTtl \in Nat
  /\ AbsoluteTtl \in Nat /\ CheckEvery \in Nat /\ Lifetime \in Nat
  /\ GlobalLimit \in Nat /\ UserLimit \in Nat
  /\ Nobody \notin Users /\ IsFiniteSet(Requests)
  /\ Auth!States = 1..MaxLogins /\ Auth!SessionIds = 1..MaxSessions
  /\ 0 \notin Auth!States /\ 0 \notin Auth!SessionIds
<1>1. 0 \notin 1..MaxLogins /\ 0 \notin 1..MaxSessions
  BY SessionAssumption
<1> QED  BY <1>1, SessionAssumption DEF Auth!States, Auth!SessionIds

LEMMA AuthCardinality == \A S : Auth!Cardinality(S) = Cardinality(S)
BY Zenon DEF Auth!Cardinality, Cardinality

LEMMA CreatedFacts ==
  ASSUME SessionTypes
  PROVE  /\ Auth!Created \subseteq Auth!SessionIds
         /\ \A s \in Auth!SessionIds : s \in Auth!Created <=> sessions[s].user \in Users
         /\ \A s \in Auth!Created : sessions[s].user \in Users /\ sessions[s] \in Visits
BY Bounds, Zenon DEF SessionTypes, Auth!Created, Visits

\* The logins do not see a step that leaves who has which state.
LEMMA LoginFrame ==
  ASSUME SessionInv, UNCHANGED <<states, callbacks>>,
         \A s \in Auth!SessionIds : sessions'[s].user = sessions[s].user
                                    /\ sessions'[s].state = sessions[s].state
  PROVE  LoginInv'
<1>1. Auth!Created' = Auth!Created
  BY DEF Auth!Created
<1>2. \A s \in Auth!Created : sessions'[s].state = sessions[s].state
  BY DEF Auth!Created
<1> QED  BY <1>1, <1>2 DEF SessionInv, LoginInv, Spent, Auth!StateUsedOnce

\* The requests do not see a step that leaves them, and makes no session valid again.
LEMMA RequestFrame ==
  ASSUME SessionInv, SessionsMove, UNCHANGED <<requests, admission>>
  PROVE  RequestInv' /\ LeaseInv'
<1>1. ASSUME NEW r \in Requests PROVE SeatStands(requests[r])'
  <2>1. SeatStands(requests[r])
    BY DEF SessionInv, RequestInv
  <2>2. requests[r].pc # "free" => requests[r].session \in Auth!Created
    BY <2>1 DEF SeatStands
  <2>3. requests[r].overdue > 0 => requests[r].pc # "free"
    BY <2>1 DEF SeatStands, SessionInv, SessionTypes, Seats
  <2> QED  BY <2>1, <2>2, <2>3 DEF SeatStands, SessionsMove
<1>2. LeaseInv'
  <2>1. Auth!Streaming' = Auth!Streaming
    BY DEF Auth!Streaming
  <2>2. \A r \in Auth!Streaming : requests[r].session \in Auth!Created
    BY DEF SessionInv, RequestInv, SeatStands, Auth!Streaming
  <2>3. \A u : StreamsOf(u)' = StreamsOf(u)
    BY <2>1, <2>2 DEF StreamsOf, SessionsMove
  <2> QED  BY <2>1, <2>3 DEF SessionInv, LeaseInv
<1> QED  BY <1>1, <1>2 DEF RequestInv

\* A step of one request.
LEMMA SeatStep ==
  ASSUME SessionInv, SessionsMove, NEW r \in Requests, NEW q \in Seats,
         requests' = [requests EXCEPT ![r] = q], SeatStands(q)'
  PROVE  RequestInv'
<1>1. requests \in [Requests -> Seats]
  BY DEF SessionInv, SessionTypes
<1>2. ASSUME NEW x \in Requests PROVE SeatStands(requests[x])'
  <2>1. CASE x = r
    <3>1. requests'[x] = q
      BY <1>1, <2>1
    <3> QED  BY <3>1 DEF SeatStands
  <2>2. CASE x # r
    <3>1. requests'[x] = requests[x] /\ requests[x] \in Seats
      BY <1>1, <2>2
    <3>2. SeatStands(requests[x])
      BY DEF SessionInv, RequestInv
    <3>3. requests[x].pc # "free" => requests[x].session \in Auth!Created
      BY <3>2 DEF SeatStands
    <3>4. requests[x].overdue > 0 => requests[x].pc # "free"
      BY <3>1, <3>2 DEF SeatStands, Seats
    <3> QED  BY <3>1, <3>2, <3>3, <3>4 DEF SeatStands, SessionsMove
  <2> QED  BY <2>1, <2>2
<1> QED  BY <1>2 DEF RequestInv

\* The streams after a step of one request.
LEMMA StreamsAfter ==
  ASSUME SessionInv, SessionsMove, NEW r \in Requests, NEW q \in Seats,
         requests' = [requests EXCEPT ![r] = q], q.pc \in OnAir => q.session = requests[r].session
  PROVE  /\ Auth!Streaming' = IF q.pc \in OnAir THEN Auth!Streaming \cup {r} ELSE Auth!Streaming \ {r}
         /\ \A u \in Users : StreamsOf(u)' =
              IF q.pc \in OnAir /\ sessions'[requests[r].session].user = u
              THEN StreamsOf(u) \cup {r} ELSE StreamsOf(u) \ {r}
         /\ IsFiniteSet(Auth!Streaming) /\ \A u : IsFiniteSet(StreamsOf(u))
<1>1. /\ requests \in [Requests -> Seats] /\ requests'[r] = q
      /\ \A x \in Requests : x # r => requests'[x] = requests[x]
  BY DEF SessionInv, SessionTypes
<1>2. Auth!Streaming' = IF q.pc \in OnAir THEN Auth!Streaming \cup {r} ELSE Auth!Streaming \ {r}
  BY <1>1 DEF Auth!Streaming, OnAir
<1>3. \A x \in Auth!Streaming : requests[x].session \in Auth!Created
  BY DEF SessionInv, RequestInv, SeatStands, Auth!Streaming
<1>4. ASSUME NEW u \in Users
      PROVE  StreamsOf(u)' = IF q.pc \in OnAir /\ sessions'[requests[r].session].user = u
                             THEN StreamsOf(u) \cup {r} ELSE StreamsOf(u) \ {r}
  <2>1. q.pc \in OnAir => q.session = requests[r].session
    BY DEF OnAir
  <2>2. ASSUME NEW x \in Auth!Streaming, x # r
        PROVE  sessions'[requests'[x].session].user = sessions[requests[x].session].user
    BY <1>1, <1>3, <2>2 DEF SessionsMove, Auth!Streaming
  <2>3. \A x : x \in StreamsOf(u)' <=> x \in Auth!Streaming' /\ sessions'[requests'[x].session].user = u
    BY DEF StreamsOf
  <2>4. \A x : x \in StreamsOf(u) <=> x \in Auth!Streaming /\ sessions[requests[x].session].user = u
    BY DEF StreamsOf
  <2> QED  BY <1>1, <1>2, <2>1, <2>2, <2>3, <2>4
<1>5. IsFiniteSet(Auth!Streaming) /\ \A u : IsFiniteSet(StreamsOf(u))
  <2>1. Auth!Streaming \subseteq Requests /\ \A u : StreamsOf(u) \subseteq Requests
    BY DEF Auth!Streaming, StreamsOf
  <2> QED  BY <2>1, Bounds, FS_Subset
<1> QED  BY <1>2, <1>4, <1>5

\* A request that is no stream before or after, or a stream before and after.
LEMMA LeaseKept ==
  ASSUME SessionInv, SessionsMove, NEW r \in Requests, NEW q \in Seats,
         requests' = [requests EXCEPT ![r] = q], q.pc \in OnAir => q.session = requests[r].session,
         q.pc \in OnAir <=> requests[r].pc \in OnAir, admission' = admission
  PROVE  LeaseInv'
<1>1. r \in Auth!Streaming <=> q.pc \in OnAir
  BY DEF Auth!Streaming, OnAir
<1>0. /\ Auth!Streaming' = IF q.pc \in OnAir THEN Auth!Streaming \cup {r} ELSE Auth!Streaming \ {r}
      /\ \A u \in Users : StreamsOf(u)' =
           IF q.pc \in OnAir /\ sessions'[requests[r].session].user = u
           THEN StreamsOf(u) \cup {r} ELSE StreamsOf(u) \ {r}
  BY StreamsAfter, Zenon
<1>2. Auth!Streaming' = Auth!Streaming
  BY <1>0, <1>1
<1>3. ASSUME NEW u \in Users PROVE StreamsOf(u)' = StreamsOf(u)
  <2>1. r \in Auth!Streaming => sessions'[requests[r].session].user = sessions[requests[r].session].user
    BY DEF SessionInv, RequestInv, SeatStands, Auth!Streaming, SessionsMove
  <2>2. r \in StreamsOf(u) <=> q.pc \in OnAir /\ sessions'[requests[r].session].user = u
    BY <1>1, <2>1 DEF StreamsOf
  <2> QED  BY <1>0, <2>2
<1> QED  BY <1>2, <1>3 DEF SessionInv, LeaseInv

\* A stream ends, and its lease with it.
LEMMA LeaseReturned ==
  ASSUME SessionInv, SessionsMove, NEW r \in Requests, requests[r].pc \in OnAir,
         requests' = [requests EXCEPT ![r] = Auth!FreeSlot],
         admission' = [active |-> admission.active - 1,
                       users |-> [admission.users EXCEPT ![sessions[requests[r].session].user] = @ - 1]]
  PROVE  LeaseInv' /\ admission' \in [active : 0..GlobalLimit, users : [Users -> 0..UserLimit]]
<1> DEFINE v == sessions[requests[r].session].user
<1>1. r \in Auth!Streaming /\ requests[r].session \in Auth!Created
  BY DEF Auth!Streaming, OnAir, SessionInv, RequestInv, SeatStands
<1>2. v \in Users /\ r \in StreamsOf(v)
  BY <1>1, CreatedFacts DEF SessionInv, StreamsOf
<1>3. Auth!FreeSlot \in Seats /\ Auth!FreeSlot.pc = "free"
  BY Bounds DEF Auth!FreeSlot, Seats, SeatPcs
<1>4. /\ Auth!Streaming' = Auth!Streaming \ {r} /\ IsFiniteSet(Auth!Streaming)
      /\ \A u \in Users : StreamsOf(u)' = StreamsOf(u) \ {r} /\ IsFiniteSet(StreamsOf(u))
  BY <1>3, StreamsAfter, Zenon DEF OnAir
<1>5. /\ admission.active = Cardinality(Auth!Streaming) /\ admission.active \in 0..GlobalLimit
      /\ \A u \in Users : admission.users[u] = Cardinality(StreamsOf(u))
      /\ admission.users \in [Users -> 0..UserLimit]
  BY DEF SessionInv, LeaseInv, SessionTypes
<1>6. Cardinality(Auth!Streaming') = Cardinality(Auth!Streaming) - 1
  BY <1>1, <1>4, FS_RemoveElement, Zenon
<1>7. Cardinality(StreamsOf(v) \ {r}) = Cardinality(StreamsOf(v)) - 1
  BY <1>2, <1>4, FS_RemoveElement, Zenon
<1>8. \A u \in Users : u # v => r \notin StreamsOf(u)
  BY DEF StreamsOf
<1>9. Cardinality(Auth!Streaming') \in Nat /\ Cardinality(StreamsOf(v) \ {r}) \in Nat
  <2>1. IsFiniteSet(Auth!Streaming') /\ IsFiniteSet(StreamsOf(v) \ {r})
    BY <1>2, <1>4, FS_RemoveElement
  <2> QED  BY <2>1, FS_CardinalityType
<1>10. admission.active - 1 \in 0..GlobalLimit /\ admission.users[v] - 1 \in 0..UserLimit
  <2>1. GlobalLimit \in Nat /\ UserLimit \in Nat
    BY Bounds
  <2> DEFINE active == admission.active
             mine == admission.users[v]
  <2>2. active \in 0..GlobalLimit /\ active - 1 \in Nat
    BY <1>5, <1>6, <1>9
  <2>3. mine \in 0..UserLimit /\ mine = Cardinality(StreamsOf(v))
    BY <1>2, <1>5
  <2>4. mine - 1 \in Nat
    BY <1>7, <1>9, <2>3
  <2> HIDE DEF active, mine
  <2>5. active - 1 \in 0..GlobalLimit /\ mine - 1 \in 0..UserLimit
    BY <2>1, <2>2, <2>3, <2>4
  <2> QED  BY <2>5 DEF active, mine
<1>11. \A u \in Users : admission'.users[u] = Cardinality(StreamsOf(u)')
  <2>1. ASSUME NEW u \in Users PROVE admission'.users[u] = Cardinality(StreamsOf(u)')
    <3>1. CASE u = v
      BY <1>2, <1>4, <1>5, <1>7, <3>1, Zenon
    <3>2. CASE u # v
      <4>1. StreamsOf(u)' = StreamsOf(u)
        BY <1>4, <1>8, <3>2, Zenon
      <4>2. admission'.users[u] = admission.users[u]
        BY <1>5, <3>2
      <4> QED  BY <1>5, <4>1, <4>2
    <3> QED  BY <3>1, <3>2
  <2> QED  BY <2>1
<1>12. admission' \in [active : 0..GlobalLimit, users : [Users -> 0..UserLimit]]
  BY <1>5, <1>10, Zenon
<1> QED  BY <1>5, <1>6, <1>11, <1>12 DEF LeaseInv

\* A stream is admitted within both limits.
LEMMA LeaseTaken ==
  ASSUME SessionInv, SessionsMove, NEW r \in Requests, requests[r].pc = "granted",
         NEW q \in Seats, q.pc = "opening", q.session = requests[r].session,
         requests' = [requests EXCEPT ![r] = q], UNCHANGED sessions,
         admission.active < GlobalLimit,
         admission.users[sessions[requests[r].session].user] < UserLimit,
         admission' = [active |-> admission.active + 1,
                       users |-> [admission.users EXCEPT ![sessions[requests[r].session].user] = @ + 1]]
  PROVE  LeaseInv' /\ admission' \in [active : 0..GlobalLimit, users : [Users -> 0..UserLimit]]
<1> DEFINE v == sessions[requests[r].session].user
<1>1. r \notin Auth!Streaming /\ requests[r].session \in Auth!Created
  BY DEF Auth!Streaming, SessionInv, RequestInv, SeatStands
<1>2. v \in Users /\ \A u \in Users : r \notin StreamsOf(u)
  BY <1>1, CreatedFacts DEF SessionInv, StreamsOf
<1>4. /\ Auth!Streaming' = Auth!Streaming \cup {r} /\ IsFiniteSet(Auth!Streaming)
      /\ \A u \in Users : /\ StreamsOf(u)' = IF v = u THEN StreamsOf(u) \cup {r} ELSE StreamsOf(u) \ {r}
                          /\ IsFiniteSet(StreamsOf(u))
  BY StreamsAfter, Zenon DEF OnAir
<1>5. /\ admission.active = Cardinality(Auth!Streaming) /\ admission.active \in 0..GlobalLimit
      /\ \A u \in Users : admission.users[u] = Cardinality(StreamsOf(u))
      /\ admission.users \in [Users -> 0..UserLimit]
  BY DEF SessionInv, LeaseInv, SessionTypes
<1>6. Cardinality(Auth!Streaming') = Cardinality(Auth!Streaming) + 1
  BY <1>1, <1>4, FS_AddElement, Zenon
<1>7. Cardinality(StreamsOf(v) \cup {r}) = Cardinality(StreamsOf(v)) + 1
  BY <1>2, <1>4, FS_AddElement, Zenon
<1>10. admission.active + 1 \in 0..GlobalLimit /\ admission.users[v] + 1 \in 0..UserLimit
  <2>1. admission.users[v] \in 0..UserLimit /\ admission.users[v] < UserLimit
    BY <1>2, <1>5
  <2>2. PICK a, n : a = admission.active /\ n = admission.users[v]
    OBVIOUS
  <2>3. a \in 0..GlobalLimit /\ a < GlobalLimit /\ n \in 0..UserLimit /\ n < UserLimit
    BY <1>5, <2>1, <2>2
  <2>4. a + 1 \in 0..GlobalLimit /\ n + 1 \in 0..UserLimit
    BY <2>3, Bounds
  <2> QED  BY <2>2, <2>4
<1>11. \A u \in Users : admission'.users[u] = Cardinality(StreamsOf(u)')
  <2>1. ASSUME NEW u \in Users PROVE admission'.users[u] = Cardinality(StreamsOf(u)')
    <3>1. CASE u = v
      BY <1>2, <1>4, <1>5, <1>7, <3>1, Zenon
    <3>2. CASE u # v
      <4>1. StreamsOf(u)' = StreamsOf(u)
        BY <1>2, <1>4, <3>2
      <4>2. admission'.users[u] = admission.users[u]
        BY <1>5, <3>2
      <4> QED  BY <1>5, <4>1, <4>2
    <3> QED  BY <3>1, <3>2
  <2> QED  BY <2>1
<1>12. admission' \in [active : 0..GlobalLimit, users : [Users -> 0..UserLimit]]
  BY <1>5, <1>10, Zenon
<1> QED  BY <1>5, <1>6, <1>11, <1>12 DEF LeaseInv

\* A step that no login takes, and that leaves whose the sessions are.
Quiet ==
  /\ UNCHANGED <<states, callbacks, shutdown>>
  /\ sessions' \in [Auth!SessionIds -> Visits] /\ pointer' \in [Users -> Auth!SessionIds \cup {0}]
  /\ SessionsMove
  /\ \A s \in Auth!SessionIds : /\ sessions'[s].user = sessions[s].user
                                /\ sessions'[s].state = sessions[s].state

LEMMA QuietSame ==
  ASSUME SessionInv, UNCHANGED <<states, callbacks, sessions, pointer, shutdown>>
  PROVE  Quiet
<1>1. Auth!Created' = Auth!Created /\ \A s : Auth!Valid(s)' <=> Auth!Valid(s)
  BY DEF Auth!Created, Auth!Valid, Auth!Present, Auth!PointsTo
<1> QED  BY <1>1 DEF Quiet, SessionsMove, SessionInv, SessionTypes

\* The script refreshes a session that is valid.
LEMMA QuietRefresh ==
  ASSUME SessionInv, NEW s \in Auth!Created, Auth!Valid(s), sessions' = Auth!Extended(s),
         UNCHANGED <<states, callbacks, pointer, shutdown>>
  PROVE  Quiet
<1> DEFINE longer == Auth!Least(IdleTtl, sessions[s].life)
<1>1. s \in Auth!SessionIds /\ sessions \in [Auth!SessionIds -> Visits]
      /\ sessions[s] \in Visits
  BY CreatedFacts DEF SessionInv, SessionTypes
<1>2. longer \in 0..IdleTtl
  BY <1>1, Bounds DEF Auth!Least, Visits
<1>3. sessions' = [sessions EXCEPT ![s].idle = longer]
  BY DEF Auth!Extended
<1> HIDE DEF longer
<1>4. sessions' \in [Auth!SessionIds -> Visits]
  <2>1. [sessions[s] EXCEPT !.idle = longer] \in Visits
    BY <1>1, <1>2 DEF Visits
  <2>2. sessions' = [sessions EXCEPT ![s] = [sessions[s] EXCEPT !.idle = longer]]
    BY <1>1, <1>3
  <2> QED  BY <1>1, <2>1, <2>2
<1>5. \A t \in Auth!SessionIds :
        /\ sessions'[t].user = sessions[t].user /\ sessions'[t].state = sessions[t].state
        /\ sessions'[t].life = sessions[t].life /\ (t # s => sessions'[t] = sessions[t])
  BY <1>1, <1>3 DEF Visits
<1>6. SessionsMove
  <2>1. \A t \in Auth!Created : t \in Auth!SessionIds
    BY <1>1 DEF Auth!Created
  <2> QED  BY <2>1, <1>5 DEF SessionsMove, Auth!Created, Auth!Valid, Auth!Present, Auth!PointsTo
<1>7. pointer' \in [Users -> Auth!SessionIds \cup {0}]
  BY DEF SessionInv, SessionTypes
<1> QED  BY <1>4, <1>5, <1>6, <1>7 DEF Quiet

\* What is left to show of a step of a request.
LEMMA QuietStep ==
  ASSUME SessionInv, Quiet, RequestInv', LeaseInv', requests' \in [Requests -> Seats],
         admission' \in [active : 0..GlobalLimit, users : [Users -> 0..UserLimit]]
  PROVE  SessionInv'
<1>1. LoginInv'
  BY LoginFrame DEF Quiet
<1>2. SessionTypes'
  BY DEF SessionInv, SessionTypes, Quiet
<1> QED  BY <1>1, <1>2 DEF SessionInv

LEMMA LeaveStep ==
  ASSUME SessionInv, Quiet, NEW r \in Requests, Auth!Leave(r)
  PROVE  SessionInv'
<1>1. requests' = [requests EXCEPT ![r] = Auth!FreeSlot]
  BY DEF Auth!Leave
<1>2. Auth!FreeSlot \in Seats /\ Auth!FreeSlot.pc = "free"
  BY Bounds DEF Auth!FreeSlot, Seats, SeatPcs
<1>3. RequestInv'
  <2>1. SeatStands(Auth!FreeSlot)'
    BY DEF SeatStands, Auth!FreeSlot, OnAir
  <2>2. PICK q \in Seats : q = Auth!FreeSlot
    BY <1>2
  <2>3. SeatStands(q)'
    BY <2>1, <2>2 DEF Auth!FreeSlot, SeatStands
  <2> QED  BY <1>1, <2>2, <2>3, SeatStep, Zenon DEF Quiet
<1>4. requests' \in [Requests -> Seats]
  BY <1>1, <1>2 DEF SessionInv, SessionTypes
<1>5. LeaseInv' /\ admission' \in [active : 0..GlobalLimit, users : [Users -> 0..UserLimit]]
  <2>1. CASE requests[r].pc \in OnAir
    <3>1. r \in Auth!Streaming
      BY <2>1 DEF Auth!Streaming, OnAir
    <3>2. admission' = [active |-> admission.active - 1,
                        users |-> [admission.users EXCEPT ![sessions[requests[r].session].user] = @ - 1]]
      BY <3>1 DEF Auth!Leave
    <3> QED  BY <1>1, <2>1, <3>2, LeaseReturned, Zenon DEF Quiet
  <2>2. CASE requests[r].pc \notin OnAir
    <3>1. r \notin Auth!Streaming
      BY <2>2 DEF Auth!Streaming, OnAir
    <3>2. admission' = admission
      BY <3>1 DEF Auth!Leave
    <3>3. LeaseInv'
      BY <1>1, <1>2, <2>2, <3>2, LeaseKept, Zenon DEF Quiet, OnAir
    <3> QED  BY <3>2, <3>3 DEF SessionInv, SessionTypes
  <2> QED  BY <2>1, <2>2
<1> QED  BY <1>3, <1>4, <1>5, QuietStep

\* A request goes on.
LEMMA GotoStands ==
  ASSUME SessionInv, Quiet, NEW r \in Requests, requests[r].pc # "free",
         NEW to \in SeatPcs \ {"free", "open"}, Auth!Goto(r, to),
         to \in {"granted"} \cup OnAir => ~requests[r].stale,
         to = "loggedout" => ~Auth!Valid(requests[r].session)',
         to = "recheck" => requests[r].pc = "open",
         to # "recheck" => requests[r].pc \notin {"open", "recheck"}
  PROVE  /\ \E q \in Seats : /\ requests' = [requests EXCEPT ![r] = q]
                             /\ q.pc = to /\ q.session = requests[r].session
         /\ RequestInv' /\ requests' \in [Requests -> Seats]
<1>1. requests \in [Requests -> Seats] /\ requests[r] \in Seats
  BY DEF SessionInv, SessionTypes
<1>2. PICK q : q = [requests[r] EXCEPT !.pc = to]
  BY Zenon
<1>3. /\ q \in Seats /\ q.pc = to /\ q.session = requests[r].session /\ q.stale = requests[r].stale
      /\ q.overdue = requests[r].overdue /\ q.check = requests[r].check
  BY <1>1, <1>2 DEF Seats
<1>4. requests' = [requests EXCEPT ![r] = q]
  BY <1>1, <1>2 DEF Auth!Goto
<1>5. requests'[r] = q
  BY <1>1, <1>4
<1>6. SeatStands(requests[r])
  BY DEF SessionInv, RequestInv
<1>7. q.session \in Auth!Created /\ q.session \in Auth!Created'
      /\ (Auth!Valid(q.session)' => Auth!Valid(q.session))
  BY <1>3, <1>6 DEF SeatStands, Quiet, SessionsMove
<1>8. to = "loggedout" => ~Auth!Valid(q.session)'
  BY <1>3, <1>5
<1>9. SeatStands(q)'
  <2>1. q.overdue \in Nat /\ q.check \in 0..CheckEvery
    BY <1>3 DEF Seats
  <2>2. requests[r].pc = "open" => requests[r].overdue + requests[r].check <= CheckEvery
    BY <1>6 DEF SeatStands
  <2>3. requests[r].pc = "open" => q.overdue <= CheckEvery
    BY <2>1, <2>2, <1>3, Bounds
  <2> QED  BY <1>3, <1>6, <1>7, <1>8, <2>3 DEF SeatStands
<1>10. RequestInv'
  BY <1>3, <1>4, <1>9, SeatStep, Zenon DEF Quiet
<1> QED  BY <1>1, <1>3, <1>4, <1>10, Zenon

LEMMA GotoStep ==
  ASSUME SessionInv, Quiet, NEW r \in Requests, requests[r].pc # "free",
         NEW to \in SeatPcs \ {"free", "open"}, Auth!Goto(r, to), admission' = admission,
         to \in {"granted"} \cup OnAir => ~requests[r].stale,
         to = "loggedout" => ~Auth!Valid(requests[r].session)',
         to = "recheck" => requests[r].pc = "open",
         to # "recheck" => requests[r].pc \notin {"open", "recheck"},
         to \in OnAir <=> requests[r].pc \in OnAir
  PROVE  SessionInv'
<1>1. /\ \E q \in Seats : /\ requests' = [requests EXCEPT ![r] = q]
                          /\ q.pc = to /\ q.session = requests[r].session
      /\ RequestInv' /\ requests' \in [Requests -> Seats]
  BY GotoStands
<1>2. PICK q \in Seats : /\ requests' = [requests EXCEPT ![r] = q]
                         /\ q.pc = to /\ q.session = requests[r].session
  BY <1>1, Zenon
<1>3. LeaseInv'
  BY <1>2, LeaseKept, Zenon DEF Quiet
<1>4. admission' \in [active : 0..GlobalLimit, users : [Users -> 0..UserLimit]]
  BY DEF SessionInv, SessionTypes
<1> QED  BY <1>1, <1>3, <1>4, QuietStep

\* A stream opens, or its check was passed: it has a whole interval again.
LEMMA OnAirStep ==
  ASSUME SessionInv, Quiet, NEW r \in Requests, requests[r].pc \in {"opening", "recheck"},
         requests[r].overdue = 0, NEW q \in Seats, requests' = [requests EXCEPT ![r] = q],
         q.pc = "open", q.session = requests[r].session, q.stale = requests[r].stale,
         q.overdue = 0, q.check = CheckEvery, admission' = admission
  PROVE  SessionInv'
<1>1. SeatStands(requests[r])
  BY DEF SessionInv, RequestInv
<1>2. q.session \in Auth!Created /\ q.session \in Auth!Created'
  BY <1>1 DEF SeatStands, Quiet, SessionsMove
<1>3. ~q.stale /\ q.overdue + q.check <= CheckEvery
  BY <1>1, Bounds DEF SeatStands, OnAir
<1>4. SeatStands(q)'
  BY <1>2, <1>3 DEF SeatStands, OnAir
<1>5. RequestInv'
  BY <1>4, SeatStep, Zenon DEF Quiet
<1>6. LeaseInv'
  BY LeaseKept, Zenon DEF Quiet, OnAir
<1>7. requests' \in [Requests -> Seats]
      /\ admission' \in [active : 0..GlobalLimit, users : [Users -> 0..UserLimit]]
  BY DEF SessionInv, SessionTypes
<1> QED  BY <1>5, <1>6, <1>7, QuietStep

LEMMA SeatFacts ==
  ASSUME SessionInv, NEW r \in Requests
  PROVE  /\ requests \in [Requests -> Seats] /\ requests[r] \in Seats
         /\ requests[r].pc # "free" => requests[r].session \in Auth!Created
         /\ requests[r].stale => ~Auth!Valid(requests[r].session)
         /\ requests[r].pc \in {"granted"} \cup OnAir => ~requests[r].stale
         /\ requests[r].overdue > 0 => ~Auth!Valid(requests[r].session)
         /\ requests[r].pc \notin {"open", "recheck"} => requests[r].overdue = 0
<1>1. SeatStands(requests[r])
  BY DEF SessionInv, RequestInv
<1> QED  BY <1>1 DEF SeatStands, SessionInv, SessionTypes

LEMMA PeekKeeps ==
  ASSUME SessionInv, NEW r \in Requests, Auth!Peek(r)
  PROVE  SessionInv'
<1>1. Quiet
  BY QuietSame DEF Auth!Peek
<1>2. CASE Auth!Leave(r)
  BY <1>1, <1>2, LeaveStep
<1>3. CASE Auth!Goto(r, "refresh") /\ requests[r].pc = "peek" /\ admission' = admission
  BY <1>1, <1>3, GotoStep DEF SeatPcs, OnAir
<1>4. CASE Auth!Goto(r, "authorize") /\ requests[r].pc = "bind" /\ admission' = admission
  BY <1>1, <1>4, GotoStep DEF SeatPcs, OnAir
<1> QED  BY <1>2, <1>3, <1>4 DEF Auth!Peek

LEMMA LoadKeeps ==
  ASSUME SessionInv, NEW r \in Requests, Auth!Load(r)
  PROVE  SessionInv'
<1>1. requests[r].pc = "refresh" /\ UNCHANGED <<states, callbacks, pointer, shutdown>>
  BY DEF Auth!Load
<1>2. \/ /\ Auth!Valid(requests[r].session) /\ sessions' = Auth!Extended(requests[r].session)
         /\ Auth!Goto(r, "confirm") /\ admission' = admission
      \/ Auth!Leave(r) /\ sessions' = sessions
  BY DEF Auth!Load, Auth!Refresh
<1>3. CASE /\ Auth!Valid(requests[r].session) /\ sessions' = Auth!Extended(requests[r].session)
           /\ Auth!Goto(r, "confirm") /\ admission' = admission
  <2>1. requests[r].session \in Auth!Created
    BY <1>1, SeatFacts
  <2>2. Quiet
    BY <1>1, <1>3, <2>1, QuietRefresh
  <2> QED  BY <1>1, <1>3, <2>2, GotoStep DEF SeatPcs, OnAir
<1>4. CASE Auth!Leave(r) /\ sessions' = sessions
  BY <1>1, <1>4, QuietSame, LeaveStep
<1> QED  BY <1>2, <1>3, <1>4

LEMMA ConfirmKeeps ==
  ASSUME SessionInv, NEW r \in Requests, Auth!Confirm(r)
  PROVE  SessionInv'
<1>1. Quiet /\ requests[r].pc = "confirm"
  BY QuietSame DEF Auth!Confirm
<1>2. CASE Auth!Leave(r)
  BY <1>1, <1>2, LeaveStep
<1>3. CASE Auth!Goto(r, "leave") /\ admission' = admission
  BY <1>1, <1>3, GotoStep DEF SeatPcs, OnAir
<1>4. CASE Auth!Goto(r, "bind") /\ admission' = admission
  BY <1>1, <1>4, GotoStep DEF SeatPcs, OnAir
<1> QED  BY <1>2, <1>3, <1>4 DEF Auth!Confirm

\* A request whose session was over when it began is not authorized.
LEMMA AuthorizeKeeps ==
  ASSUME SessionInv, NEW r \in Requests, Auth!Authorize(r)
  PROVE  SessionInv'
<1>1. requests[r].pc = "authorize" /\ UNCHANGED <<states, callbacks, pointer, shutdown>>
  BY DEF Auth!Authorize
<1>2. \/ /\ Auth!Valid(requests[r].session) /\ sessions' = Auth!Extended(requests[r].session)
         /\ Auth!Goto(r, "granted") /\ admission' = admission
      \/ Auth!Leave(r) /\ sessions' = sessions
  BY DEF Auth!Authorize, Auth!Refresh
<1>3. CASE /\ Auth!Valid(requests[r].session) /\ sessions' = Auth!Extended(requests[r].session)
           /\ Auth!Goto(r, "granted") /\ admission' = admission
  <2>1. requests[r].session \in Auth!Created /\ ~requests[r].stale
    BY <1>1, <1>3, SeatFacts
  <2>2. Quiet
    BY <1>1, <1>3, <2>1, QuietRefresh
  <2> QED  BY <1>1, <1>3, <2>1, <2>2, GotoStep DEF SeatPcs, OnAir
<1>4. CASE Auth!Leave(r) /\ sessions' = sessions
  BY <1>1, <1>4, QuietSame, LeaveStep
<1> QED  BY <1>2, <1>3, <1>4

LEMMA AdmitKeeps ==
  ASSUME SessionInv, NEW r \in Requests, Auth!Admit(r)
  PROVE  SessionInv'
<1> DEFINE v == sessions[requests[r].session].user
<1>1. Quiet /\ requests[r].pc = "granted" /\ sessions' = sessions
  BY QuietSame DEF Auth!Admit
<1>2. \/ /\ admission.active < GlobalLimit /\ admission.users[v] < UserLimit
         /\ Auth!Goto(r, "opening")
         /\ admission' = [active |-> admission.active + 1, users |-> [admission.users EXCEPT ![v] = @ + 1]]
      \/ Auth!Leave(r)
  BY DEF Auth!Admit
<1>3. CASE /\ admission.active < GlobalLimit /\ admission.users[v] < UserLimit
           /\ Auth!Goto(r, "opening")
           /\ admission' = [active |-> admission.active + 1, users |-> [admission.users EXCEPT ![v] = @ + 1]]
  <2>1. ~requests[r].stale
    BY <1>1, SeatFacts
  <2>2. /\ \E q \in Seats : /\ requests' = [requests EXCEPT ![r] = q]
                            /\ q.pc = "opening" /\ q.session = requests[r].session
        /\ RequestInv' /\ requests' \in [Requests -> Seats]
    BY <1>1, <1>3, <2>1, GotoStands DEF SeatPcs, OnAir
  <2>3. PICK q \in Seats : /\ requests' = [requests EXCEPT ![r] = q]
                           /\ q.pc = "opening" /\ q.session = requests[r].session
    BY <2>2, Zenon
  <2>4. LeaseInv' /\ admission' \in [active : 0..GlobalLimit, users : [Users -> 0..UserLimit]]
    BY <1>1, <1>3, <2>3, LeaseTaken, Zenon DEF Quiet
  <2> QED  BY <1>1, <2>2, <2>4, QuietStep
<1>4. CASE Auth!Leave(r)
  BY <1>1, <1>4, LeaveStep
<1> QED  BY <1>2, <1>3, <1>4

LEMMA OpenKeeps ==
  ASSUME SessionInv, NEW r \in Requests, Auth!Open(r)
  PROVE  SessionInv'
<1>1. Quiet /\ requests[r].pc = "opening"
  BY QuietSame DEF Auth!Open
<1>2. CASE requests' = [requests EXCEPT ![r].pc = "open", ![r].check = CheckEvery, ![r].life = Lifetime]
           /\ admission' = admission
  <2>1. PICK q : q = [requests[r] EXCEPT !.pc = "open", !.check = CheckEvery, !.life = Lifetime]
    OBVIOUS
  <2>2. q \in Seats /\ q.pc = "open" /\ q.check = CheckEvery /\ q.session = requests[r].session
        /\ q.stale = requests[r].stale /\ q.overdue = requests[r].overdue
    <3>1. requests[r] \in Seats /\ CheckEvery \in 0..CheckEvery /\ Lifetime \in 0..Lifetime
      BY SeatFacts, Bounds
    <3> QED  BY <2>1, <3>1, Zenon DEF Seats, SeatPcs
  <2>3. requests' = [requests EXCEPT ![r] = q]
    BY <1>2, <2>1, SeatFacts, Zenon
  <2>4. requests[r].overdue = 0
    BY <1>1, SeatFacts
  <2> QED  BY <1>1, <1>2, <2>2, <2>3, <2>4, OnAirStep, Zenon
<1>3. CASE Auth!Leave(r)
  BY <1>1, <1>3, LeaveStep
<1> QED  BY <1>2, <1>3 DEF Auth!Open

LEMMA CheckDueKeeps ==
  ASSUME SessionInv, NEW r \in Requests, Auth!CheckDue(r)
  PROVE  SessionInv'
<1>1. Quiet /\ requests[r].pc = "open" /\ Auth!Goto(r, "recheck") /\ admission' = admission
  BY QuietSame DEF Auth!CheckDue
<1>2. ~requests[r].stale
  BY <1>1, SeatFacts DEF OnAir
<1> QED  BY <1>1, <1>2, GotoStep DEF SeatPcs, OnAir

\* A check that is passed meets a session that was not gone for a minute.
LEMMA RecheckKeeps ==
  ASSUME SessionInv, NEW r \in Requests, Auth!Recheck(r)
  PROVE  SessionInv'
<1>1. requests[r].pc = "recheck" /\ UNCHANGED <<states, callbacks, pointer, shutdown>>
  BY DEF Auth!Recheck
<1>2. \/ /\ Auth!Valid(requests[r].session) /\ sessions' = Auth!Extended(requests[r].session)
         /\ requests' = [requests EXCEPT ![r].pc = "open", ![r].check = CheckEvery]
         /\ admission' = admission
      \/ Auth!Leave(r) /\ sessions' = sessions
  BY DEF Auth!Recheck, Auth!Refresh
<1>3. CASE /\ Auth!Valid(requests[r].session) /\ sessions' = Auth!Extended(requests[r].session)
           /\ requests' = [requests EXCEPT ![r].pc = "open", ![r].check = CheckEvery]
           /\ admission' = admission
  <2>1. requests[r].session \in Auth!Created /\ requests[r] \in Seats
    BY <1>1, SeatFacts
  <2>2. requests[r].overdue = 0
    BY <1>3, <2>1, SeatFacts DEF Seats
  <2>3. Quiet
    BY <1>1, <1>3, <2>1, QuietRefresh
  <2>4. PICK q : q = [requests[r] EXCEPT !.pc = "open", !.check = CheckEvery]
    OBVIOUS
  <2>5. q \in Seats /\ q.pc = "open" /\ q.check = CheckEvery /\ q.session = requests[r].session
        /\ q.stale = requests[r].stale /\ q.overdue = requests[r].overdue
    <3>1. CheckEvery \in 0..CheckEvery
      BY Bounds
    <3> QED  BY <2>1, <2>4, <3>1, Zenon DEF Seats, SeatPcs
  <2>6. requests' = [requests EXCEPT ![r] = q]
    BY <1>3, <2>4, SeatFacts, Zenon
  <2> QED  BY <1>1, <1>3, <2>2, <2>3, <2>5, <2>6, OnAirStep, Zenon
<1>4. CASE Auth!Leave(r) /\ sessions' = sessions
  BY <1>1, <1>4, QuietSame, LeaveStep
<1> QED  BY <1>2, <1>3, <1>4

LEMMA LogoutKeeps ==
  ASSUME SessionInv, NEW r \in Requests, Auth!Unload(r) \/ Auth!ReadPointer(r)
  PROVE  SessionInv'
<1>1. Quiet /\ requests[r].pc \in {"leave", "unpoint"} /\ admission' = admission
  BY QuietSame DEF Auth!Unload, Auth!ReadPointer
<1>2. CASE Auth!Goto(r, "unpoint")
  BY <1>1, <1>2, GotoStep DEF SeatPcs, OnAir
<1>3. CASE Auth!Goto(r, "destroy")
  BY <1>1, <1>3, GotoStep DEF SeatPcs, OnAir
<1>4. CASE Auth!Goto(r, "loggedout") /\ ~Auth!Valid(requests[r].session)
  <2>1. requests'[r].session = requests[r].session
    BY <1>4, SeatFacts DEF Auth!Goto, Seats
  <2>2. requests[r].session \in Auth!Created
    BY <1>1, SeatFacts
  <2>3. ~Auth!Valid(requests[r].session)'
    BY <1>1, <1>4, <2>1, <2>2 DEF Quiet, SessionsMove
  <2> QED  BY <1>1, <1>4, <2>3, GotoStep DEF SeatPcs, OnAir
<1> QED  BY <1>2, <1>3, <1>4 DEF Auth!Unload, Auth!ReadPointer, Auth!Valid

\* The session that is destroyed is gone, and the pointer with it if it is its own.
LEMMA DestroyKeeps ==
  ASSUME SessionInv, NEW r \in Requests, Auth!Destroy(r)
  PROVE  SessionInv'
<1> DEFINE s == requests[r].session
<1>1. /\ requests[r].pc = "destroy" /\ UNCHANGED <<states, callbacks, shutdown>>
      /\ sessions' = [sessions EXCEPT ![s].idle = 0]
      /\ pointer' = IF Auth!PointsTo(s) THEN [pointer EXCEPT ![sessions[s].user] = 0] ELSE pointer
      /\ Auth!Goto(r, "loggedout") /\ admission' = admission
  BY DEF Auth!Destroy
<1>2. s \in Auth!Created /\ s \in Auth!SessionIds /\ sessions \in [Auth!SessionIds -> Visits]
      /\ sessions[s] \in Visits
  BY <1>1, SeatFacts, CreatedFacts DEF SessionInv, SessionTypes
<1>3. sessions' \in [Auth!SessionIds -> Visits]
  <2>1. 0 \in 0..IdleTtl
    BY Bounds
  <2>0. [sessions[s] EXCEPT !.idle = 0] \in Visits
    BY <1>2, <2>1 DEF Visits
  <2>2. sessions' = [sessions EXCEPT ![s] = [sessions[s] EXCEPT !.idle = 0]]
    BY <1>1, <1>2
  <2> QED  BY <1>2, <2>0, <2>2
<1>4. pointer' \in [Users -> Auth!SessionIds \cup {0}]
  BY <1>1, <1>2, Bounds, Zenon DEF SessionInv, SessionTypes
<1>5. \A t \in Auth!SessionIds :
        /\ sessions'[t].user = sessions[t].user /\ sessions'[t].state = sessions[t].state
        /\ sessions'[t].life = sessions[t].life /\ (t # s => sessions'[t] = sessions[t])
        /\ (t = s => sessions'[t].idle = 0)
  BY <1>1, <1>2 DEF Visits
<1>6. SessionsMove
  <2>1. ASSUME NEW t \in Auth!Created
        PROVE  /\ t \in Auth!Created' /\ sessions'[t].user = sessions[t].user
               /\ Auth!Valid(t)' => Auth!Valid(t)
    <3>1. t \in Auth!SessionIds /\ t # 0 /\ sessions[t].user \in Users
      BY <2>1, CreatedFacts, Bounds DEF SessionInv
    <3>2. pointer'[sessions[t].user] \in {0, pointer[sessions[t].user]}
      BY <1>1, <3>1 DEF SessionInv, SessionTypes
    <3>3. Auth!Valid(t)' => t # s
      BY <1>5, <3>1 DEF Auth!Valid, Auth!Present
    <3> QED  BY <1>5, <2>1, <3>1, <3>2, <3>3
             DEF Auth!Created, Auth!Valid, Auth!Present, Auth!PointsTo
  <2> QED  BY <2>1 DEF SessionsMove
<1>7. Quiet
  BY <1>1, <1>3, <1>4, <1>5, <1>6 DEF Quiet
<1>8. ~Auth!Valid(requests[r].session)'
  <2>1. requests'[r].session = s
    BY <1>1, SeatFacts DEF Auth!Goto, Seats
  <2> QED  BY <1>2, <1>5, <2>1 DEF Auth!Valid, Auth!Present
<1> HIDE DEF s
<1> QED  BY <1>1, <1>7, <1>8, GotoStep DEF SeatPcs, OnAir

LEMMA SameMove ==
  ASSUME UNCHANGED <<sessions, pointer>>
  PROVE  SessionsMove /\ Auth!Created' = Auth!Created
BY DEF SessionsMove, Auth!Created, Auth!Valid, Auth!Present, Auth!PointsTo

\* What a step of a login leaves alone.
LEMMA LoginStep ==
  ASSUME SessionInv, UNCHANGED <<sessions, pointer, requests, admission, shutdown>>,
         states' \in [Auth!States -> [begun : BOOLEAN, left : 0..StateTtl]],
         callbacks' \in [Callbacks -> [pc : {"idle", "exchange", "create"},
                                       state : Auth!States \cup {0}, user : Users \cup {Nobody}]],
         LoginInv'
  PROVE  SessionInv'
<1>1. RequestInv' /\ LeaseInv'
  BY SameMove, RequestFrame
<1>2. SessionTypes'
  BY DEF SessionInv, SessionTypes
<1> QED  BY <1>1, <1>2 DEF SessionInv

LEMMA BeginLoginKeeps ==
  ASSUME SessionInv, NEW st \in Auth!States, Auth!Login(st)
  PROVE  SessionInv'
<1>1. /\ UNCHANGED <<callbacks, sessions, pointer, requests, admission, shutdown>>
      /\ ~states[st].begun /\ states \in [Auth!States -> [begun : BOOLEAN, left : 0..StateTtl]]
  BY DEF Auth!Login, SessionInv, SessionTypes
<1>2. PICK n \in {StateTtl, 0} : states' = [states EXCEPT ![st] = [begun |-> TRUE, left |-> n]]
  BY Zenon DEF Auth!Login
<1>3. states' \in [Auth!States -> [begun : BOOLEAN, left : 0..StateTtl]]
  <2>1. n \in 0..StateTtl
    BY Bounds
  <2> QED  BY <1>1, <1>2, <2>1
<1>4. \A t \in Auth!States : states[t].begun => states'[t] = states[t]
  BY <1>1, <1>2
<1>5. LoginInv'
  BY <1>1, <1>4, SameMove DEF SessionInv, LoginInv, Spent, Auth!StateUsedOnce
<1> QED  BY <1>1, <1>3, <1>5, LoginStep DEF SessionInv, SessionTypes

\* The state that is consumed was held by nobody, since it was there to consume.
LEMMA ConsumeKeeps ==
  ASSUME SessionInv, NEW st \in Auth!States, NEW c \in Callbacks, Auth!Consume(c, st)
  PROVE  SessionInv'
<1>1. /\ UNCHANGED <<sessions, pointer, requests, admission, shutdown>>
      /\ callbacks[c].pc = "idle" /\ states[st].begun
      /\ states' = [states EXCEPT ![st].left = 0]
      /\ states \in [Auth!States -> [begun : BOOLEAN, left : 0..StateTtl]]
      /\ callbacks \in [Callbacks -> [pc : {"idle", "exchange", "create"},
                                      state : Auth!States \cup {0}, user : Users \cup {Nobody}]]
  BY DEF Auth!Consume, SessionInv, SessionTypes
<1>2. \/ callbacks' = callbacks
      \/ /\ st \in Auth!Pending
         /\ callbacks' = [callbacks EXCEPT ![c] = [pc |-> "exchange", state |-> st, user |-> Nobody]]
  BY Zenon DEF Auth!Consume, Auth!IdleTask
<1>3. states'[st].begun /\ states'[st].left = 0
      /\ \A t \in Auth!States : t # st => states'[t] = states[t]
  <2>1. states[st] \in [begun : BOOLEAN, left : 0..StateTtl]
    BY <1>1
  <2>2. [states[st] EXCEPT !.left = 0].left = 0 /\ [states[st] EXCEPT !.left = 0].begun
    BY <1>1, <2>1
  <2>3. states'[st] = [states[st] EXCEPT !.left = 0]
    BY <1>1
  <2> QED  BY <1>1, <2>2, <2>3
<1>4. states' \in [Auth!States -> [begun : BOOLEAN, left : 0..StateTtl]]
  <2>1. 0 \in 0..StateTtl
    BY Bounds
  <2> QED  BY <1>1, <2>1
<1>5. callbacks' \in [Callbacks -> [pc : {"idle", "exchange", "create"},
                                    state : Auth!States \cup {0}, user : Users \cup {Nobody}]]
  BY <1>1, <1>2
<1>6. Spent \subseteq Spent'
  BY <1>3 DEF Spent
<1>7. CASE callbacks' = callbacks
  <2>1. LoginInv'
    BY <1>1, <1>6, <1>7, SameMove DEF SessionInv, LoginInv, Auth!StateUsedOnce
  <2> QED  BY <1>1, <1>4, <1>5, <2>1, LoginStep
<1>8. CASE /\ st \in Auth!Pending
           /\ callbacks' = [callbacks EXCEPT ![c] = [pc |-> "exchange", state |-> st, user |-> Nobody]]
  <2>1. st \notin Spent
    BY <1>8, <1>1, Bounds DEF Auth!Pending, Spent
  <2>2. /\ \A d \in Callbacks : callbacks[d].pc # "idle" => callbacks[d].state # st
        /\ \A s \in Auth!Created : sessions[s].state # st
    BY <2>1 DEF SessionInv, LoginInv
  <2>3. /\ callbacks'[c].pc = "exchange" /\ callbacks'[c].state = st
        /\ \A d \in Callbacks : d # c => callbacks'[d] = callbacks[d]
    BY <1>1, <1>8
  <2>4. Auth!Created' = Auth!Created /\ st \in Spent'
    BY <1>1, <1>3, SameMove DEF Spent
  <2>5. ASSUME NEW d \in Callbacks
        PROVE  /\ callbacks'[d].pc # "idle" => callbacks'[d].state \in Spent'
               /\ callbacks'[d].pc = "create" => callbacks'[d].user \in Users
               /\ \A e \in Callbacks : callbacks'[d].pc # "idle" /\ callbacks'[e].pc # "idle"
                                        /\ callbacks'[d].state = callbacks'[e].state => d = e
               /\ \A s \in Auth!Created : callbacks'[d].pc # "idle" => callbacks'[d].state # sessions[s].state
    BY <1>6, <2>2, <2>3, <2>4 DEF SessionInv, LoginInv
  <2>6. \A s \in Auth!Created : sessions[s].state \in Spent'
    BY <1>6 DEF SessionInv, LoginInv
  <2>7. Auth!StateUsedOnce'
    BY <1>1, <2>4 DEF SessionInv, LoginInv, Auth!StateUsedOnce
  <2>8. LoginInv'
    BY <1>1, <2>4, <2>5, <2>6, <2>7 DEF LoginInv
  <2> QED  BY <1>1, <1>4, <1>5, <2>8, LoginStep
<1> QED  BY <1>2, <1>7, <1>8

LEMMA ExchangeKeeps ==
  ASSUME SessionInv, NEW c \in Callbacks, Auth!Exchange(c)
  PROVE  SessionInv'
<1>1. /\ UNCHANGED <<states, sessions, pointer, requests, admission, shutdown>>
      /\ callbacks[c].pc = "exchange"
      /\ callbacks \in [Callbacks -> [pc : {"idle", "exchange", "create"},
                                      state : Auth!States \cup {0}, user : Users \cup {Nobody}]]
  BY DEF Auth!Exchange, SessionInv, SessionTypes
<1>2. /\ callbacks' \in [Callbacks -> [pc : {"idle", "exchange", "create"},
                                       state : Auth!States \cup {0}, user : Users \cup {Nobody}]]
      /\ \A d \in Callbacks : d # c => callbacks'[d] = callbacks[d]
      /\ \/ callbacks'[c].pc = "idle"
         \/ /\ callbacks'[c].pc = "create" /\ callbacks'[c].state = callbacks[c].state
            /\ callbacks'[c].user \in Users
  <2>1. ASSUME NEW u \in Users, callbacks' = [callbacks EXCEPT ![c].pc = "create", ![c].user = u]
        PROVE  <1>2!:
    BY <1>1, <2>1, Zenon
  <2>2. ASSUME callbacks' = [callbacks EXCEPT ![c] = Auth!IdleTask]
        PROVE  <1>2!:
    BY <1>1, <2>2 DEF Auth!IdleTask
  <2> QED  BY <2>1, <2>2 DEF Auth!Exchange
<1>3. LoginInv'
  BY <1>1, <1>2, SameMove DEF SessionInv, LoginInv, Spent, Auth!StateUsedOnce
<1>4. states' \in [Auth!States -> [begun : BOOLEAN, left : 0..StateTtl]]
  BY <1>1 DEF SessionInv, SessionTypes
<1> QED  BY <1>1, <1>2, <1>3, <1>4, LoginStep

\* The new session is its user's; the one before it, the only one that the user's
\* pointer let in, is gone.
LEMMA CreateKeeps ==
  ASSUME SessionInv, NEW c \in Callbacks, NEW s \in Auth!SessionIds, Auth!Create(c, s)
  PROVE  SessionInv'
<1> DEFINE u == callbacks[c].user
           fresh == [user |-> u, state |-> callbacks[c].state,
                     idle |-> Auth!Least(IdleTtl, AbsoluteTtl), life |-> AbsoluteTtl]
<1>1. /\ callbacks[c].pc = "create" /\ s \notin Auth!Created
      /\ sessions' = [t \in Auth!SessionIds |->
           IF t = s THEN fresh ELSE IF t = pointer[u] THEN [sessions[t] EXCEPT !.idle = 0] ELSE sessions[t]]
      /\ pointer' = [pointer EXCEPT ![u] = s]
      /\ callbacks' = [callbacks EXCEPT ![c] = Auth!IdleTask]
      /\ UNCHANGED <<states, requests, admission, shutdown>>
  BY DEF Auth!Create
<1>2. /\ u \in Users /\ callbacks[c].state \in Spent /\ callbacks[c].state \in Auth!States
      /\ sessions \in [Auth!SessionIds -> Visits] /\ pointer \in [Users -> Auth!SessionIds \cup {0}]
      /\ callbacks \in [Callbacks -> [pc : {"idle", "exchange", "create"},
                                      state : Auth!States \cup {0}, user : Users \cup {Nobody}]]
  BY <1>1 DEF SessionInv, LoginInv, SessionTypes, Spent
<1>3. fresh \in Visits /\ fresh.user = u /\ fresh.state = callbacks[c].state
  <2>1. Auth!Least(IdleTtl, AbsoluteTtl) \in 0..IdleTtl /\ AbsoluteTtl \in 0..AbsoluteTtl
    BY Bounds DEF Auth!Least
  <2> QED  BY <1>2, <2>1 DEF Visits
<1> HIDE DEF fresh
<1>4. \A t \in Auth!SessionIds :
        /\ t = s => sessions'[t] = fresh
        /\ t # s => /\ sessions'[t] \in Visits
                    /\ sessions'[t].user = sessions[t].user /\ sessions'[t].state = sessions[t].state
                    /\ sessions'[t].life = sessions[t].life
                    /\ t # pointer[u] => sessions'[t].idle = sessions[t].idle
                    /\ t = pointer[u] => sessions'[t].idle = 0
  <2>1. ASSUME NEW t \in Auth!SessionIds, t # s
        PROVE  /\ sessions'[t] \in Visits
               /\ sessions'[t].user = sessions[t].user /\ sessions'[t].state = sessions[t].state
               /\ sessions'[t].life = sessions[t].life
               /\ t # pointer[u] => sessions'[t].idle = sessions[t].idle
               /\ t = pointer[u] => sessions'[t].idle = 0
    <3>1. sessions[t] \in Visits /\ 0 \in 0..IdleTtl
      BY <1>2, Bounds
    <3>2. sessions'[t] = IF t = pointer[u] THEN [sessions[t] EXCEPT !.idle = 0] ELSE sessions[t]
      BY <1>1, <2>1
    <3> HIDE DEF u
    <3> QED  BY <3>1, <3>2 DEF Visits
  <2> HIDE DEF u
  <2>2. \A t \in Auth!SessionIds : t = s => sessions'[t] = fresh
    BY <1>1
  <2> QED  BY <2>1, <2>2
<1>5. sessions' \in [Auth!SessionIds -> Visits]
  BY <1>1, <1>3, <1>4
<1> HIDE DEF u
<1>6. Auth!Created' = Auth!Created \cup {s}
  <2>1. u # Nobody
    BY <1>2, Bounds
  <2> QED  BY <1>1, <1>3, <1>4, <2>1 DEF Auth!Created
<1>7. SessionsMove
  <2>1. ASSUME NEW t \in Auth!Created
        PROVE  /\ t \in Auth!Created' /\ sessions'[t].user = sessions[t].user
               /\ Auth!Valid(t)' => Auth!Valid(t)
    <3>1. t \in Auth!SessionIds /\ t # s /\ sessions[t].user \in Users
      BY <1>1, CreatedFacts DEF SessionInv
    <3>2. pointer'[sessions[t].user] \in {s, pointer[sessions[t].user]}
      BY <1>1, <1>2, <3>1
    <3>3. sessions'[t].user = sessions[t].user /\ sessions'[t].life = sessions[t].life
          /\ (sessions'[t].idle = sessions[t].idle \/ sessions'[t].idle = 0)
      BY <1>4, <3>1
    <3>4. Auth!Valid(t)' => Auth!Valid(t)
      BY <3>1, <3>2, <3>3 DEF Auth!Valid, Auth!Present, Auth!PointsTo
    <3> QED  BY <1>6, <3>3, <3>4
  <2> QED  BY <2>1 DEF SessionsMove
<1>8. callbacks'[c].pc = "idle" /\ \A d \in Callbacks : d # c => callbacks'[d] = callbacks[d]
  BY <1>1, <1>2 DEF Auth!IdleTask
<1>9. Spent' = Spent /\ \A t \in Auth!Created : sessions'[t].state = sessions[t].state
  BY <1>1, <1>4, CreatedFacts DEF Spent, SessionInv
<1>10. sessions'[s].state = callbacks[c].state
  BY <1>3, <1>4
<1>11. LoginInv'
  <2>1. ASSUME NEW d \in Callbacks
        PROVE  /\ callbacks'[d].pc # "idle" => callbacks'[d].state \in Spent'
               /\ callbacks'[d].pc = "create" => callbacks'[d].user \in Users
               /\ \A e \in Callbacks : callbacks'[d].pc # "idle" /\ callbacks'[e].pc # "idle"
                                        /\ callbacks'[d].state = callbacks'[e].state => d = e
               /\ \A t \in Auth!Created' : callbacks'[d].pc # "idle" => callbacks'[d].state # sessions'[t].state
    BY <1>1, <1>6, <1>8, <1>9, <1>10 DEF SessionInv, LoginInv
  <2>2. \A t \in Auth!Created' : sessions'[t].state \in Spent'
    BY <1>2, <1>6, <1>9, <1>10 DEF SessionInv, LoginInv
  <2>3. \A t \in Auth!Created : sessions[t].state # callbacks[c].state
    BY <1>1 DEF SessionInv, LoginInv
  <2>4. Auth!StateUsedOnce'
    BY <1>6, <1>9, <1>10, <2>3 DEF SessionInv, LoginInv, Auth!StateUsedOnce
  <2> QED  BY <2>1, <2>2, <2>4 DEF LoginInv
<1>12. RequestInv' /\ LeaseInv'
  BY <1>1, <1>7, RequestFrame
<1>13. SessionTypes'
  <2>1. callbacks' \in [Callbacks -> [pc : {"idle", "exchange", "create"},
                                      state : Auth!States \cup {0}, user : Users \cup {Nobody}]]
    BY <1>1, <1>2 DEF Auth!IdleTask
  <2>2. pointer' \in [Users -> Auth!SessionIds \cup {0}]
    BY <1>1, <1>2
  <2> QED  BY <1>1, <1>5, <2>1, <2>2 DEF SessionInv, SessionTypes
<1> QED  BY <1>11, <1>12, <1>13 DEF SessionInv

LEMMA BeginKeeps ==
  ASSUME SessionInv, NEW r \in Requests, NEW s \in Auth!SessionIds,
         NEW k \in {"call", "stream", "logout"}, Auth!Begin(r, s, k)
  PROVE  SessionInv'
<1>1. requests[r].pc = "free" /\ s \in Auth!Created /\ admission' = admission /\ Quiet
  BY QuietSame DEF Auth!Begin
<1>2. PICK q : q = [Auth!FreeSlot EXCEPT !.pc = "peek", !.kind = k, !.session = s, !.stale = ~Auth!Valid(s)]
  OBVIOUS
<1>3. PICK old \in BOOLEAN : old <=> ~Auth!Valid(s)
  BY Zenon
<1>4. (~Auth!Valid(s)) = old
  BY <1>3
<1>5. q = [pc |-> "peek", kind |-> k, session |-> s, stale |-> old, check |-> 0, life |-> 0, overdue |-> 0]
  BY <1>2, <1>4, Zenon DEF Auth!FreeSlot
<1>6. q \in Seats
  BY <1>5, Bounds DEF Seats, SeatPcs
<1>7. requests' = [requests EXCEPT ![r] = q]
  BY <1>2 DEF Auth!Begin
<1>8. SeatStands(q)'
  <2>1. s \in Auth!Created' /\ (Auth!Valid(s)' => Auth!Valid(s))
    BY <1>1 DEF Quiet, SessionsMove
  <2> QED  BY <1>3, <1>5, <2>1 DEF SeatStands, OnAir
<1>9. RequestInv'
  BY <1>1, <1>6, <1>7, <1>8, SeatStep, Zenon DEF Quiet
<1>10. LeaseInv'
  BY <1>1, <1>5, <1>6, <1>7, LeaseKept, Zenon DEF Quiet, OnAir
<1>11. requests' \in [Requests -> Seats]
       /\ admission' \in [active : 0..GlobalLimit, users : [Users -> 0..UserLimit]]
  BY <1>1, <1>6, <1>7 DEF SessionInv, SessionTypes
<1> QED  BY <1>1, <1>9, <1>10, <1>11, QuietStep

\* A minute passes.  No open stream is due, so that each has a minute of its interval
\* left to give for the one that its session may be gone.
LEMMA TickKeeps ==
  ASSUME SessionInv, Auth!Tick
  PROVE  SessionInv'
<1> DEFINE State(st) == [states[st] EXCEPT !.left = Auth!Down(@)]
           Visit(s)  == [sessions[s] EXCEPT !.idle = Auth!Down(@), !.life = Auth!Down(@)]
           Seat(r)   == IF requests[r].pc # "open" THEN requests[r]
                        ELSE [requests[r] EXCEPT !.check = Auth!Down(@), !.life = Auth!Down(@),
                                !.overdue = IF Auth!Valid(requests[r].session) THEN 0 ELSE @ + 1]
<1>1. /\ UNCHANGED <<callbacks, pointer, admission, shutdown>>
      /\ states' = [st \in Auth!States |-> State(st)]
      /\ sessions' = [s \in Auth!SessionIds |-> Visit(s)]
      /\ requests' = [r \in Requests |-> Seat(r)]
      /\ ~Auth!TimersDue
  BY Zenon DEF Auth!Tick
<1>14. \A r \in Requests : requests[r].pc = "open" => requests[r].check # 0 /\ requests[r].life # 0
  <2> HIDE DEF State, Visit, Seat
  <2> QED  BY <1>1 DEF Auth!TimersDue
<1>15. \A st \in Auth!States : State(st) = [states[st] EXCEPT !.left = Auth!Down(states[st].left)]
  BY Zenon
<1>16. \A s \in Auth!SessionIds : Visit(s) = [sessions[s] EXCEPT !.idle = Auth!Down(sessions[s].idle),
                                                                 !.life = Auth!Down(sessions[s].life)]
  BY Zenon
<1>17. \A r \in Requests :
         /\ requests[r].pc # "open" => Seat(r) = requests[r]
         /\ requests[r].pc = "open" =>
              Seat(r) = [requests[r] EXCEPT
                !.check = Auth!Down(requests[r].check), !.life = Auth!Down(requests[r].life),
                !.overdue = IF Auth!Valid(requests[r].session) THEN 0 ELSE requests[r].overdue + 1]
  BY Zenon
<1> HIDE DEF State, Visit, Seat
<1>2. /\ states \in [Auth!States -> [begun : BOOLEAN, left : 0..StateTtl]]
      /\ sessions \in [Auth!SessionIds -> Visits] /\ requests \in [Requests -> Seats]
  BY DEF SessionInv, SessionTypes
<1>3. \A m \in Nat : \A n \in 0..m : /\ Auth!Down(n) \in 0..m /\ (n = 0 => Auth!Down(n) = 0)
                                     /\ (n # 0 => Auth!Down(n) = n - 1)
                                     /\ (Auth!Down(n) > 0 => n > 0)
  BY DEF Auth!Down
<1>4. /\ states' \in [Auth!States -> [begun : BOOLEAN, left : 0..StateTtl]]
      /\ Spent \subseteq Spent'
  <2>1. ASSUME NEW st \in Auth!States
        PROVE  /\ states'[st] \in [begun : BOOLEAN, left : 0..StateTtl]
               /\ states'[st].left = Auth!Down(states[st].left)
               /\ states'[st].begun = states[st].begun
    <3>1. states[st] \in [begun : BOOLEAN, left : 0..StateTtl]
      BY <1>2
    <3>2. Auth!Down(states[st].left) \in 0..StateTtl
      BY <1>3, <3>1, Bounds
    <3>3. states'[st] = [states[st] EXCEPT !.left = Auth!Down(states[st].left)]
      BY <1>1, <1>15
    <3> QED  BY <3>1, <3>2, <3>3
  <2>2. Spent \subseteq Spent'
    <3>1. Auth!Down(0) = 0
      BY DEF Auth!Down
    <3> QED  BY <2>1, <3>1 DEF Spent
  <2> QED  BY <1>1, <2>1, <2>2
<1>5. \A s \in Auth!SessionIds :
        /\ sessions'[s] \in Visits
        /\ sessions'[s].user = sessions[s].user /\ sessions'[s].state = sessions[s].state
        /\ (sessions'[s].idle > 0 => sessions[s].idle > 0)
        /\ (sessions'[s].life > 0 => sessions[s].life > 0)
  <2>1. ASSUME NEW s \in Auth!SessionIds
        PROVE  /\ sessions'[s] \in Visits
               /\ sessions'[s].user = sessions[s].user /\ sessions'[s].state = sessions[s].state
               /\ (sessions'[s].idle > 0 => sessions[s].idle > 0)
               /\ (sessions'[s].life > 0 => sessions[s].life > 0)
    <3>1. sessions[s] \in Visits
      BY <1>2
    <3>2. PICK i, l : i = Auth!Down(sessions[s].idle) /\ l = Auth!Down(sessions[s].life)
      OBVIOUS
    <3>3. /\ i \in 0..IdleTtl /\ (i > 0 => sessions[s].idle > 0)
          /\ l \in 0..AbsoluteTtl /\ (l > 0 => sessions[s].life > 0)
      BY <1>3, <3>1, <3>2, Bounds, Zenon DEF Visits
    <3>4. sessions'[s] = [sessions[s] EXCEPT !.idle = i, !.life = l]
      <4>1. Visit(s) = [sessions[s] EXCEPT !.idle = i, !.life = l]
        BY <1>16, <3>2, Zenon
      <4> QED  BY <1>1, <4>1
    <3> QED  BY <3>1, <3>3, <3>4, Zenon DEF Visits
  <2> QED  BY <2>1
<1>6. sessions' \in [Auth!SessionIds -> Visits]
  BY <1>1, <1>5
<1>7. SessionsMove /\ Auth!Created' = Auth!Created
  BY <1>1, <1>5 DEF SessionsMove, Auth!Created, Auth!Valid, Auth!Present, Auth!PointsTo
<1>8. ASSUME NEW r \in Requests
      PROVE  /\ requests'[r] \in Seats /\ SeatStands(requests[r])'
             /\ requests'[r].pc = requests[r].pc /\ requests'[r].session = requests[r].session
  <2>1. SeatStands(requests[r]) /\ requests[r] \in Seats
    BY <1>2 DEF SessionInv, RequestInv
  <2>2. requests[r].pc # "free" => requests[r].session \in Auth!Created
    BY <2>1 DEF SeatStands
  <2>3. CASE requests[r].pc # "open"
    <3>1. requests'[r] = requests[r]
      <4>1. Seat(r) = requests[r]
        BY <1>17, <2>3, Zenon
      <4> QED  BY <1>1, <4>1
    <3>2. requests[r].overdue > 0 => requests[r].pc # "free"
      BY <2>1 DEF SeatStands, Seats
    <3> QED  BY <2>1, <2>2, <3>1, <3>2, <1>7 DEF SeatStands, SessionsMove
  <2>4. CASE requests[r].pc = "open"
    <3>1. PICK k, l, o : /\ k = Auth!Down(requests[r].check) /\ l = Auth!Down(requests[r].life)
                         /\ o = IF Auth!Valid(requests[r].session) THEN 0 ELSE requests[r].overdue + 1
      OBVIOUS
    <3>2. requests'[r] = [requests[r] EXCEPT !.check = k, !.life = l, !.overdue = o]
      <4>1. Seat(r) = [requests[r] EXCEPT !.check = k, !.life = l, !.overdue = o]
        BY <1>17, <2>4, <3>1, Zenon
      <4> QED  BY <1>1, <4>1
    <3>3. k \in 0..CheckEvery /\ k = requests[r].check - 1 /\ l \in 0..Lifetime
      BY <1>3, <1>14, <2>1, <2>4, <3>1, Bounds, Zenon DEF Seats
    <3>4. o \in Nat /\ (o > 0 => ~Auth!Valid(requests[r].session))
      BY <2>1, <3>1 DEF Seats
    <3>5. o + k <= CheckEvery
      <4>1. requests[r].overdue + requests[r].check <= CheckEvery
        BY <2>1, <2>4 DEF SeatStands
      <4>2. requests[r].overdue \in Nat /\ requests[r].check \in 0..CheckEvery
        BY <2>1 DEF Seats
      <4>3. o = 0 \/ o = requests[r].overdue + 1
        BY <3>1
      <4> QED  BY <3>3, <4>1, <4>2, <4>3, Bounds
    <3>6. /\ requests'[r] \in Seats /\ requests'[r].pc = "open" /\ requests'[r].stale = requests[r].stale
          /\ requests'[r].session = requests[r].session
          /\ requests'[r].overdue = o /\ requests'[r].check = k
      BY <2>1, <2>4, <3>2, <3>3, <3>4, Zenon DEF Seats
    <3>7. ~requests[r].stale
      BY <2>1, <2>4 DEF SeatStands, OnAir
    <3>8. requests[r].session \in Auth!Created'
          /\ (Auth!Valid(requests[r].session)' => Auth!Valid(requests[r].session))
      BY <1>7, <2>2, <2>4, <3>6 DEF SessionsMove
    <3>9. SeatStands(requests[r])'
      <4>1. requests'[r].overdue > 0 => ~Auth!Valid(requests[r].session)'
        BY <3>4, <3>6, <3>8
      <4> QED  BY <3>5, <3>6, <3>7, <3>8, <4>1 DEF SeatStands
    <3> QED  BY <2>4, <3>6, <3>9
  <2> QED  BY <2>3, <2>4
<1>9. requests' \in [Requests -> Seats] /\ RequestInv'
  BY <1>1, <1>8 DEF RequestInv
<1>10. LeaseInv'
  <2>1. Auth!Streaming' = Auth!Streaming
    BY <1>8 DEF Auth!Streaming
  <2>2. \A r \in Auth!Streaming : r \in Requests /\ requests[r].session \in Auth!Created
    BY DEF SessionInv, RequestInv, SeatStands, Auth!Streaming
  <2>3. \A r \in Auth!Streaming : sessions'[requests'[r].session].user = sessions[requests[r].session].user
    BY <1>7, <1>8, <2>2 DEF SessionsMove
  <2>4. \A u : StreamsOf(u)' = StreamsOf(u)
    BY <2>1, <2>3 DEF StreamsOf
  <2> QED  BY <1>1, <2>1, <2>4 DEF SessionInv, LeaseInv
<1>11. LoginInv'
  <2>1. \A s \in Auth!Created : sessions'[s].state = sessions[s].state
    BY <1>5 DEF Auth!Created
  <2>2. Auth!StateUsedOnce'
    BY <1>7, <2>1 DEF SessionInv, LoginInv, Auth!StateUsedOnce
  <2>3. \A s \in Auth!Created : sessions'[s].state \in Spent'
    BY <1>4, <2>1 DEF SessionInv, LoginInv
  <2>4. callbacks' = callbacks
    BY <1>1
  <2>5. \A c \in Callbacks : /\ callbacks[c].pc # "idle" => callbacks[c].state \in Spent'
                             /\ \A s \in Auth!Created : callbacks[c].pc # "idle"
                                                        => callbacks[c].state # sessions'[s].state
    BY <1>4, <2>1 DEF SessionInv, LoginInv
  <2> QED  BY <1>7, <2>2, <2>3, <2>4, <2>5 DEF SessionInv, LoginInv
<1> QED  BY <1>1, <1>4, <1>6, <1>9, <1>10, <1>11 DEF SessionInv, SessionTypes

LEMMA RequestKeeps ==
  ASSUME SessionInv, NEW r \in Requests, Auth!Request(r) \/ Auth!Close(r)
  PROVE  SessionInv'
<1>1. CASE Auth!Serve(r) \/ Auth!Close(r) \/ Auth!LoggedOut(r)
  <2>1. Quiet /\ Auth!Leave(r)
    BY <1>1, QuietSame DEF Auth!Serve, Auth!Close, Auth!LoggedOut
  <2> QED  BY <2>1, LeaveStep
<1> QED  BY <1>1, PeekKeeps, LoadKeeps, ConfirmKeeps, AuthorizeKeeps, AdmitKeeps, OpenKeeps,
            CheckDueKeeps, RecheckKeeps, LogoutKeeps, DestroyKeeps DEF Auth!Request

LEMMA SessionStep == SessionInv /\ [Auth!Next]_sessionVars => SessionInv'
<1> SUFFICES ASSUME SessionInv, [Auth!Next]_sessionVars PROVE SessionInv'
  OBVIOUS
<1>1. CASE UNCHANGED sessionVars
  <2>1. UNCHANGED <<states, callbacks, sessions, pointer, requests, admission, shutdown>>
    BY <1>1 DEF sessionVars
  <2>2. Quiet /\ RequestInv' /\ LeaseInv'
    BY <2>1, QuietSame, SameMove, RequestFrame
  <2>3. requests' \in [Requests -> Seats]
        /\ admission' \in [active : 0..GlobalLimit, users : [Users -> 0..UserLimit]]
    BY <2>1 DEF SessionInv, SessionTypes
  <2> QED  BY <2>2, <2>3, QuietStep
<1>2. CASE Auth!Shutdown
  <2>1. /\ UNCHANGED <<states, callbacks, sessions, pointer, requests, admission>>
        /\ shutdown' \in BOOLEAN
    BY <1>2 DEF Auth!Shutdown
  <2>2. RequestInv' /\ LeaseInv' /\ LoginInv'
    BY <2>1, SameMove, RequestFrame, LoginFrame
  <2>3. SessionTypes'
    BY <2>1 DEF SessionInv, SessionTypes
  <2> QED  BY <2>2, <2>3 DEF SessionInv
<1>3. CASE Auth!Next
  <2>1. \/ \E st \in Auth!States : Auth!Login(st) \/ \E c \in Callbacks : Auth!Consume(c, st)
        \/ \E c \in Callbacks : Auth!Exchange(c) \/ \E s \in Auth!SessionIds : Auth!Create(c, s)
        \/ \E r \in Requests : \/ Auth!Request(r) \/ Auth!Close(r)
                               \/ \E s \in Auth!SessionIds, k \in {"call", "stream", "logout"} :
                                    Auth!Begin(r, s, k)
        \/ Auth!Shutdown \/ Auth!Tick
    BY <1>3 DEF Auth!Next
  <2> QED  BY <1>2, <2>1, BeginLoginKeeps, ConsumeKeeps, ExchangeKeeps, CreateKeeps, RequestKeeps,
              BeginKeeps, TickKeeps
<1> QED  BY <1>1, <1>3

LEMMA SessionStart == Auth!Init => SessionInv
<1> SUFFICES ASSUME Auth!Init PROVE SessionInv
  OBVIOUS
<1>1. /\ states = [st \in Auth!States |-> [begun |-> FALSE, left |-> 0]]
      /\ callbacks = [c \in Callbacks |-> [pc |-> "idle", state |-> 0, user |-> Nobody]]
      /\ sessions = [s \in Auth!SessionIds |-> [user |-> Nobody, state |-> 0, idle |-> 0, life |-> 0]]
      /\ pointer = [u \in Users |-> 0]
      /\ requests = [r \in Requests |-> Auth!FreeSlot]
      /\ admission = [active |-> 0, users |-> [u \in Users |-> 0]]
      /\ shutdown = FALSE
  BY DEF Auth!Init, Auth!IdleTask, Auth!NoSession
<1>2. Auth!FreeSlot \in Seats /\ Auth!FreeSlot.pc = "free" /\ Auth!FreeSlot.overdue = 0
      /\ Auth!FreeSlot.stale = FALSE
  BY Bounds DEF Auth!FreeSlot, Seats, SeatPcs
<1>3. SessionTypes
  <2>1. /\ 0 \in 0..StateTtl /\ 0 \in 0..IdleTtl /\ 0 \in 0..AbsoluteTtl
        /\ 0 \in 0..GlobalLimit /\ 0 \in 0..UserLimit
    BY Bounds
  <2> QED  BY <1>1, <1>2, <2>1, Zenon DEF SessionTypes, Visits
<1>4. Auth!Created = {} /\ Auth!Streaming = {} /\ \A u : StreamsOf(u) = {}
  BY <1>1, <1>2 DEF Auth!Created, Auth!Streaming, StreamsOf
<1>5. LoginInv
  BY <1>1, <1>4 DEF LoginInv, Auth!StateUsedOnce
<1>6. RequestInv
  BY <1>1, <1>2 DEF RequestInv, SeatStands, OnAir
<1>7. LeaseInv
  BY <1>1, <1>4, FS_EmptySet, Zenon DEF LeaseInv
<1> QED  BY <1>3, <1>5, <1>6, <1>7 DEF SessionInv

LEMMA SessionPromise ==
  ASSUME SessionInv
  PROVE  Auth!TypeOK /\ Auth!RevokedIsRefused /\ Auth!StateUsedOnce /\ Auth!LeasesCounted
<1>1. Auth!TypeOK
  BY DEF SessionInv, SessionTypes, Seats, SeatPcs, Visits, Auth!TypeOK
<1>2. Auth!RevokedIsRefused
  <2>1. ASSUME NEW r \in Requests
        PROVE  /\ requests[r].pc \in {"granted", "opening", "open"} => ~requests[r].stale
               /\ requests[r].pc = "loggedout" => ~Auth!Valid(requests[r].session)
               /\ requests[r].overdue <= CheckEvery
    <3>1. SeatStands(requests[r]) /\ requests[r] \in Seats
      BY DEF SessionInv, RequestInv, SessionTypes
    <3>2. requests[r].overdue <= CheckEvery
      <4>1. requests[r].overdue \in Nat /\ requests[r].check \in 0..CheckEvery
        BY <3>1 DEF Seats
      <4>2. CASE requests[r].pc = "open"
        <5>1. requests[r].overdue + requests[r].check <= CheckEvery
          BY <3>1, <4>2 DEF SeatStands
        <5> QED  BY <4>1, <5>1, Bounds
      <4>3. CASE requests[r].pc # "open"
        BY <3>1, <4>1, <4>3, Bounds DEF SeatStands
      <4> QED  BY <4>2, <4>3
    <3> QED  BY <3>1, <3>2 DEF SeatStands, OnAir
  <2> QED  BY <2>1 DEF Auth!RevokedIsRefused
<1>3. Auth!LeasesCounted
  <2>1. Auth!Cardinality(Auth!Streaming) = Cardinality(Auth!Streaming)
    BY AuthCardinality
  <2>2. \A u \in Users : Auth!Cardinality(StreamsOf(u)) = Cardinality(StreamsOf(u))
    BY AuthCardinality
  <2> QED  BY <2>1, <2>2 DEF SessionInv, LeaseInv, StreamsOf, Auth!LeasesCounted
<1> QED  BY <1>1, <1>2, <1>3 DEF SessionInv, LoginInv

\* Only its own logout takes a pointer away.
LEMMA LogoutTakesItsOwn ==
  ASSUME SessionInv, [Auth!Next]_sessionVars, NEW u \in Users, pointer[u] # 0, pointer'[u] = 0
  PROVE  \E r \in Requests : requests[r].pc = "destroy" /\ requests[r].session = pointer[u]
<1>1. pointer' # pointer
  OBVIOUS
<1>2. ASSUME NEW c \in Callbacks, NEW s \in Auth!SessionIds, Auth!Create(c, s) PROVE FALSE
  <2>1. callbacks[c].user \in Users /\ pointer' = [pointer EXCEPT ![callbacks[c].user] = s] /\ s # 0
    BY <1>2, Bounds DEF Auth!Create, SessionInv, LoginInv
  <2> QED  BY <2>1 DEF SessionInv, SessionTypes
<1>3. ASSUME NEW r \in Requests, Auth!Destroy(r)
      PROVE  requests[r].pc = "destroy" /\ requests[r].session = pointer[u]
  <2>1. /\ requests[r].pc = "destroy"
        /\ pointer' = IF Auth!PointsTo(requests[r].session)
                      THEN [pointer EXCEPT ![sessions[requests[r].session].user] = 0] ELSE pointer
    BY <1>3 DEF Auth!Destroy
  <2>2. u = sessions[requests[r].session].user
    BY <2>1 DEF SessionInv, SessionTypes
  <2>3. Auth!PointsTo(requests[r].session)
    BY <1>1, <2>1
  <2> QED  BY <2>1, <2>2, <2>3 DEF Auth!PointsTo
<1>4. \/ \E c \in Callbacks, s \in Auth!SessionIds : Auth!Create(c, s)
      \/ \E r \in Requests : Auth!Destroy(r)
  BY <1>1, Zenon DEF sessionVars, Auth!Next, Auth!Login, Auth!Consume, Auth!Exchange, Auth!Request, Auth!Close,
              Auth!Peek, Auth!Load, Auth!Confirm, Auth!Authorize, Auth!Serve, Auth!Admit, Auth!Open,
              Auth!CheckDue, Auth!Recheck, Auth!Unload, Auth!ReadPointer, Auth!LoggedOut, Auth!Begin,
              Auth!Shutdown, Auth!Tick
<1> QED  BY <1>2, <1>3, <1>4

-----------------------------------------------------------------------------
(* Discord's interactions.                                                 *)

\* The records of the module, by name.
Rooms     == Discord!Places
Ones      == Discord!Tasks
Faces     == {"Idle", "Playing", "Paused"}
Facts     == [actor : Rooms, bot : Rooms, rights : Discord!Rights]
Machines  == [id : Nat, alive : BOOLEAN, channel : Rooms, state : Faces, revision : 0..MaxRevision]
Batched   == [batch : {"none", "held", "discarded", "queued"}, enqueued : Nat]
PlayPcs   == {"start", "player", "resolve", "commit", "connect", "reread", "enqueue", "reply", "done"}
ClickPcs  == {"start", "pressed", "authorize", "apply", "done"}
Interaction ==
  [pc : PlayPcs \cup ClickPcs, kind : {"play", "stop", "leave", "toggle"}, id : Nat,
   revision : 0..MaxRevision, channel : Rooms, attempt : Nat, panel : Discord!Panel,
   told : {"nothing", "applied", "failed"}]

InteractionTypes ==
  /\ facts \in Facts /\ player \in Machines /\ watermark = player.revision
  /\ panel \in Discord!Panel /\ voice \subseteq Rooms
  /\ interactions \in [Ones -> Interaction] /\ media \in [Plays -> Batched]

\* A panel was drawn of this player or of an earlier state; at the player's own
\* revision it shows the player's state.
DrawnBefore(p, q) == p.revision <= q.revision /\ (p.revision = q.revision => p.state = q.state)

\* A click that passed map_interaction holds the revision of its panel.
ClickStands(k, q) ==
  DrawnBefore(k.panel, q) /\ (k.pc \in {"authorize", "apply"} => k.revision = k.panel.revision)

\* Where a /play stands, and what has become of its batch by then.
PlayStands(k, m) ==
  /\ k.pc \in PlayPcs
  /\ k.pc # "done" => k.told = "nothing"
  /\ k.pc \in {"start", "player", "resolve"} => m = [batch |-> "none", enqueued |-> 0]
  /\ k.pc \in {"commit", "connect", "reread", "enqueue"} => m = [batch |-> "held", enqueued |-> 0]
  /\ k.pc = "reply" => m = [batch |-> "queued", enqueued |-> 1]
  /\ k.pc = "done" => \/ k.told = "failed" /\ m.batch \in {"none", "discarded"} /\ m.enqueued = 0
                      \/ k.told = "applied" /\ m = [batch |-> "queued", enqueued |-> 1]

FirstPanel == [revision |-> 0, state |-> "Idle"]

DiscordInv ==
  /\ InteractionTypes
  /\ DrawnBefore(panel, player) /\ DrawnBefore(FirstPanel, player)
  /\ \A t \in Clicks : ClickStands(interactions[t], player)
  /\ \A t \in Plays : PlayStands(interactions[t], media[t])

\* What any step may do to the player: a panel drawn before stays one.
PlayerMoves ==
  /\ player' \in Machines /\ watermark' = player'.revision
  /\ \A p \in Discord!Panel : DrawnBefore(p, player) => DrawnBefore(p, player')

LEMMA TaskKinds ==
  /\ Plays \subseteq Ones /\ Commands \subseteq Ones /\ Clicks \subseteq Ones
  /\ Plays \cap Commands = {} /\ Plays \cap Clicks = {} /\ Commands \cap Clicks = {}
  /\ Rooms = Channels \cup {NoChannel} /\ NoChannel \in Rooms
BY InteractionAssumption DEF Ones, Rooms, Discord!Tasks, Discord!Places

LEMMA StartTyped ==
  /\ Discord!Start \in Interaction
  /\ Discord!Start.pc = "start" /\ Discord!Start.told = "nothing"
  /\ Discord!Start.panel = [revision |-> 0, state |-> "Idle"]
BY InteractionAssumption, TaskKinds DEF Discord!Start, Interaction, PlayPcs, Discord!Panel

LEMMA StillMoves ==
  ASSUME DiscordInv, Discord!Unchanged
  PROVE  PlayerMoves
BY DEF DiscordInv, InteractionTypes, Discord!Unchanged, PlayerMoves

LEMMA ChangeMoves ==
  ASSUME DiscordInv, NEW p \in Machines, Discord!Change(p)
  PROVE  /\ PlayerMoves /\ player'.revision = player.revision + 1
         /\ player'.state = p.state /\ player.revision + 1 \in 0..MaxRevision
<1>1. /\ player.revision \in 0..MaxRevision /\ player.revision < MaxRevision
      /\ player' = [p EXCEPT !.revision = player.revision + 1] /\ watermark' = player.revision + 1
  BY DEF DiscordInv, InteractionTypes, Machines, Discord!Change, Discord!CanChange
<1>2. player.revision + 1 \in 0..MaxRevision
  BY <1>1, InteractionAssumption
<1>3. player' \in Machines /\ player'.revision = player.revision + 1 /\ player'.state = p.state
  BY <1>1, <1>2 DEF Machines
<1>4. ASSUME NEW q \in Discord!Panel, DrawnBefore(q, player) PROVE DrawnBefore(q, player')
  <2>1. q.revision \in 0..MaxRevision
    BY DEF Discord!Panel
  <2> QED  BY <1>1, <1>3, <1>4, <2>1 DEF DrawnBefore
<1> QED  BY <1>1, <1>2, <1>3, <1>4 DEF PlayerMoves

\* A player that is shut down keeps its revision and its state.
LEMMA DeathMoves ==
  ASSUME DiscordInv, player' = [player EXCEPT !.alive = FALSE], watermark' = watermark
  PROVE  PlayerMoves
<1>1. /\ player' \in Machines /\ player'.revision = player.revision /\ player'.state = player.state
      /\ watermark' = player'.revision
  BY Zenon DEF DiscordInv, InteractionTypes, Machines
<1> QED  BY <1>1 DEF PlayerMoves, DrawnBefore

LEMMA FirstStays ==
  ASSUME DiscordInv, PlayerMoves
  PROVE  FirstPanel \in Discord!Panel /\ DrawnBefore(FirstPanel, player')
BY InteractionAssumption DEF DiscordInv, PlayerMoves, FirstPanel, Discord!Panel

\* A step that moves at most one interaction.
LEMMA TaskStep ==
  ASSUME DiscordInv, PlayerMoves, facts' \in Facts, voice' \subseteq Rooms,
         panel' \in Discord!Panel, DrawnBefore(panel', player'), media' \in [Plays -> Batched],
         NEW t \in Ones, NEW k \in Interaction, interactions' = [interactions EXCEPT ![t] = k],
         t \in Clicks => ClickStands(k, player'),
         t \in Plays => PlayStands(k, media'[t]),
         \A u \in Plays : u # t => media'[u] = media[u]
  PROVE  DiscordInv'
<1>1. interactions \in [Ones -> Interaction]
  BY DEF DiscordInv, InteractionTypes
<1>2. /\ interactions' \in [Ones -> Interaction] /\ interactions'[t] = k
      /\ \A u \in Ones : u # t => interactions'[u] = interactions[u]
  BY <1>1
<1>3. InteractionTypes'
  BY <1>2 DEF PlayerMoves, InteractionTypes
<1>4. ASSUME NEW u \in Clicks PROVE ClickStands(interactions'[u], player')
  <2>1. CASE u = t
    BY <1>2, <2>1
  <2>2. CASE u # t
    <3>1. u \in Ones /\ interactions'[u] = interactions[u] /\ interactions[u].panel \in Discord!Panel
      BY <1>1, <1>2, <2>2, TaskKinds DEF Interaction
    <3> QED  BY <3>1 DEF DiscordInv, ClickStands, PlayerMoves
  <2> QED  BY <2>1, <2>2
<1>5. ASSUME NEW u \in Plays PROVE PlayStands(interactions'[u], media'[u])
  <2>1. CASE u = t
    BY <1>2, <2>1
  <2>2. CASE u # t
    <3>1. interactions'[u] = interactions[u] /\ media'[u] = media[u]
      BY <1>2, <2>2, TaskKinds
    <3> QED  BY <3>1 DEF DiscordInv
  <2> QED  BY <2>1, <2>2
<1> QED  BY <1>3, <1>4, <1>5, FirstStays DEF DiscordInv

\* A step that moves no interaction.
LEMMA OtherStep ==
  ASSUME DiscordInv, PlayerMoves, facts' \in Facts, voice' \subseteq Rooms,
         panel' \in Discord!Panel, DrawnBefore(panel', player'), UNCHANGED <<interactions, media>>
  PROVE  DiscordInv'
<1>1. InteractionTypes'
  BY DEF PlayerMoves, DiscordInv, InteractionTypes
<1>2. ASSUME NEW u \in Clicks PROVE ClickStands(interactions'[u], player')
  <2>1. interactions[u].panel \in Discord!Panel
    BY TaskKinds DEF Interaction, DiscordInv, InteractionTypes
  <2> QED  BY <2>1 DEF DiscordInv, ClickStands, PlayerMoves
<1> QED  BY <1>1, <1>2, FirstStays DEF DiscordInv

\* What a task's step leaves alone.
LEMMA QuietFrame ==
  ASSUME DiscordInv, PlayerMoves, Discord!Quiet
  PROVE  /\ facts' \in Facts /\ voice' \subseteq Rooms
         /\ panel' = panel => panel' \in Discord!Panel /\ DrawnBefore(panel', player')
         /\ media' = media => media' \in [Plays -> Batched] /\ \A u \in Plays : media'[u] = media[u]
<1>1. facts' \in Facts /\ voice' \subseteq Rooms
  BY DEF DiscordInv, InteractionTypes, Discord!Quiet
<1>2. panel' = panel => panel' \in Discord!Panel /\ DrawnBefore(panel', player')
  BY DEF DiscordInv, InteractionTypes, PlayerMoves
<1>3. media' = media => media' \in [Plays -> Batched] /\ \A u \in Plays : media'[u] = media[u]
  BY DEF DiscordInv, InteractionTypes
<1> QED  BY <1>1, <1>2, <1>3

\* A /play that goes on, gives up or is told of its end.
LEMMA PlayStep ==
  ASSUME DiscordInv, PlayerMoves, Discord!Quiet, panel' = panel,
         NEW t \in Plays, NEW k \in Interaction, interactions' = [interactions EXCEPT ![t] = k],
         NEW m \in Batched, media' = media \/ media' = [media EXCEPT ![t] = m],
         media' = media => m = media[t], PlayStands(k, m)
  PROVE  DiscordInv'
<1>1. t \in Ones /\ t \notin Clicks
  BY TaskKinds
<1>2. /\ media' \in [Plays -> Batched] /\ media'[t] = m
      /\ \A u \in Plays : u # t => media'[u] = media[u]
  BY DEF DiscordInv, InteractionTypes
<1> QED  BY <1>1, <1>2, QuietFrame, TaskStep, Zenon

\* Play and Commands tasks that only move on.
LEMMA TaskFacts ==
  ASSUME DiscordInv, NEW t \in Ones
  PROVE  /\ interactions[t] \in Interaction
         /\ \A pc1 \in PlayPcs \cup ClickPcs :
              /\ [interactions[t] EXCEPT !.pc = pc1] \in Interaction
              /\ [interactions[t] EXCEPT !.pc = pc1].pc = pc1
              /\ [interactions[t] EXCEPT !.pc = pc1].told = interactions[t].told
              /\ [interactions[t] EXCEPT !.pc = pc1].panel = interactions[t].panel
              /\ [interactions[t] EXCEPT !.pc = pc1].revision = interactions[t].revision
<1>1. interactions[t] \in Interaction
  BY DEF DiscordInv, InteractionTypes
<1> QED  BY <1>1 DEF Interaction

\* The batch of a /play that gives up, once it has one.
LEMMA DiscardInv ==
  ASSUME DiscordInv, PlayerMoves, Discord!Quiet, panel' = panel, NEW t \in Plays,
         Discord!Discard(t), media[t].enqueued = 0
  PROVE  DiscordInv'
<1> DEFINE k == [Discord!Start EXCEPT !.pc = "done", !.told = "failed"]
           m == [media[t] EXCEPT !.batch = "discarded"]
<1>1. k \in Interaction /\ k.pc = "done" /\ k.told = "failed"
  BY StartTyped, Zenon DEF Interaction, PlayPcs
<1>2. m \in Batched /\ m.batch = "discarded" /\ m.enqueued = 0
  BY DEF DiscordInv, InteractionTypes, Batched
<1>3. interactions' = [interactions EXCEPT ![t] = k] /\ media' = [media EXCEPT ![t] = m]
  <2>1. media' = [media EXCEPT ![t].batch = "discarded"]
    BY DEF Discord!Discard
  <2>2. media \in [Plays -> Batched]
    BY DEF DiscordInv, InteractionTypes
  <2> QED  BY <2>1, <2>2 DEF Discord!Discard, Discord!Answer
<1>4. PlayStands(k, m)
  BY <1>1, <1>2 DEF PlayStands, PlayPcs
<1>5. media' = media => m = media[t]
  <2>1. media \in [Plays -> Batched]
    BY DEF DiscordInv, InteractionTypes
  <2> QED  BY <1>3, <2>1
<1> HIDE DEF k, m
<1> QED  BY <1>1, <1>2, <1>3, <1>4, <1>5, PlayStep, Zenon

\* A /play that fails before it has a batch.
LEMMA PlayRefusedInv ==
  ASSUME DiscordInv, PlayerMoves, Discord!Quiet, panel' = panel, media' = media, NEW t \in Plays,
         Discord!Answer(t, "failed"), interactions[t].pc \in {"start", "player", "resolve"}
  PROVE  DiscordInv'
<1> DEFINE k == [Discord!Start EXCEPT !.pc = "done", !.told = "failed"]
<1>1. k \in Interaction /\ k.pc = "done" /\ k.told = "failed"
  BY StartTyped, Zenon DEF Interaction, PlayPcs
<1>2. media[t] = [batch |-> "none", enqueued |-> 0] /\ media[t] \in Batched
  BY DEF DiscordInv, InteractionTypes, PlayStands
<1>3. interactions' = [interactions EXCEPT ![t] = k]
  BY DEF Discord!Answer
<1>4. PlayStands(k, media[t])
  BY <1>1, <1>2 DEF PlayStands, PlayPcs
<1> HIDE DEF k
<1> QED  BY <1>1, <1>2, <1>3, <1>4, PlayStep, Zenon

\* A /play that goes from one step to another of the same standing.
LEMMA GoesOnInv ==
  ASSUME DiscordInv, PlayerMoves, Discord!Quiet, panel' = panel, media' = media, NEW t \in Plays,
         NEW k \in Interaction, interactions' = [interactions EXCEPT ![t] = k],
         k.told = interactions[t].told,
         \/ interactions[t].pc \in {"start", "player", "resolve"} /\ k.pc \in {"player", "resolve"}
         \/ /\ interactions[t].pc \in {"commit", "connect", "reread", "enqueue"}
            /\ k.pc \in {"commit", "connect", "reread", "enqueue"}
  PROVE  DiscordInv'
<1>1. PlayStands(interactions[t], media[t]) /\ media[t] \in Batched
  BY DEF DiscordInv, InteractionTypes
<1>2. PlayStands(k, media[t])
  BY <1>1 DEF PlayStands, PlayPcs
<1> QED  BY <1>1, <1>2, PlayStep, Zenon

LEMMA PlayInv ==
  ASSUME DiscordInv, NEW t \in Plays, Discord!Play(t)
  PROVE  DiscordInv'
<1>1. /\ interactions[t].pc = "start" /\ Discord!Unchanged /\ Discord!Quiet
      /\ panel' = panel /\ media' = media
  BY DEF Discord!Play, Discord!At
<1>2. PlayerMoves
  BY <1>1, StillMoves
<1>3. CASE Discord!AuthorizePlay
  <2>1. interactions' = [interactions EXCEPT ![t] = [interactions[t] EXCEPT !.pc = "player"]]
    BY <1>3, TaskKinds DEF Discord!Play, Discord!Goto, DiscordInv, InteractionTypes
  <2>2. PICK k : k = [interactions[t] EXCEPT !.pc = "player"]
    BY Zenon
  <2>3. k \in Interaction /\ k.pc = "player" /\ k.told = interactions[t].told
    <3>1. "player" \in PlayPcs \cup ClickPcs /\ t \in Ones
      BY TaskKinds DEF PlayPcs
    <3> QED  BY <2>2, <3>1, TaskFacts, Zenon
  <2>4. interactions' = [interactions EXCEPT ![t] = k]
    BY <2>1, <2>2
  <2> QED  BY <1>1, <1>2, <2>3, <2>4, GoesOnInv
<1>4. CASE ~Discord!AuthorizePlay
  BY <1>1, <1>2, <1>4, PlayRefusedInv DEF Discord!Play
<1> QED  BY <1>3, <1>4

LEMMA CreatedMoves ==
  ASSUME DiscordInv, watermark < MaxRevision, player' = Discord!Created, watermark' = player'.revision
  PROVE  PlayerMoves
<1>1. player.revision \in 0..MaxRevision /\ player.id \in Nat /\ watermark = player.revision
  BY DEF DiscordInv, InteractionTypes, Machines
<1>2. player.revision + 1 \in 0..MaxRevision /\ player.id + 1 \in Nat
  BY <1>1, InteractionAssumption
<1>3. player' = [id |-> player.id + 1, alive |-> TRUE, channel |-> NoChannel, state |-> "Idle",
                 revision |-> player.revision + 1]
  BY <1>1 DEF Discord!Created, Discord!ResumeRevision
<1>4. player' \in Machines /\ player'.revision = player.revision + 1
  BY <1>2, <1>3, TaskKinds DEF Machines, Faces
<1>5. ASSUME NEW q \in Discord!Panel, DrawnBefore(q, player) PROVE DrawnBefore(q, player')
  <2>1. q.revision \in 0..MaxRevision
    BY DEF Discord!Panel
  <2> QED  BY <1>1, <1>4, <1>5, <2>1 DEF DrawnBefore
<1> QED  BY <1>4, <1>5 DEF PlayerMoves

LEMMA AuthorizedPlayerInv ==
  ASSUME DiscordInv, NEW t \in Plays, Discord!AuthorizedPlayer(t)
  PROVE  DiscordInv'
<1>1. /\ interactions[t].pc = "player" /\ (player.alive \/ watermark < MaxRevision) /\ Discord!Quiet
      /\ panel' = panel /\ media' = media
  BY DEF Discord!AuthorizedPlayer, Discord!At
<1>2. CASE ~Discord!AuthorizePlay
  <2>1. Discord!Answer(t, "failed") /\ Discord!Unchanged
    BY <1>2 DEF Discord!AuthorizedPlayer
  <2> QED  BY <1>1, <2>1, StillMoves, PlayRefusedInv
<1>3. CASE Discord!AuthorizePlay
  <2> DEFINE k == [interactions[t] EXCEPT !.pc = "resolve", !.id = player'.id]
  <2>1. /\ player' = IF player.alive THEN player ELSE Discord!Created
        /\ watermark' = player'.revision
        /\ interactions' = [interactions EXCEPT ![t].pc = "resolve", ![t].id = player'.id]
    BY <1>3 DEF Discord!AuthorizedPlayer
  <2>2. PlayerMoves
    <3>1. CASE player.alive
      BY <2>1, <3>1, StillMoves DEF Discord!Unchanged, DiscordInv, InteractionTypes
    <3>2. CASE ~player.alive
      BY <1>1, <2>1, <3>2, CreatedMoves
    <3> QED  BY <3>1, <3>2
  <2>3. player'.id \in Nat
    BY <2>2 DEF PlayerMoves, Machines
  <2>4. interactions[t] \in Interaction /\ interactions \in [Ones -> Interaction] /\ t \in Ones
    BY TaskKinds, TaskFacts DEF DiscordInv, InteractionTypes
  <2>5. k \in Interaction /\ k.pc = "resolve" /\ k.told = interactions[t].told
    BY <2>3, <2>4, Zenon DEF Interaction, PlayPcs
  <2>6. interactions' = [interactions EXCEPT ![t] = k]
    BY <2>1, <2>4, Zenon
  <2> HIDE DEF k
  <2> QED  BY <1>1, <2>2, <2>5, <2>6, GoesOnInv, Zenon
<1> QED  BY <1>2, <1>3

LEMMA PlayResolvedInv ==
  ASSUME DiscordInv, NEW t \in Plays, Discord!Resolve(t)
  PROVE  DiscordInv'
<1>1. interactions[t].pc = "resolve" /\ Discord!Unchanged /\ Discord!Quiet /\ panel' = panel
  BY DEF Discord!Resolve, Discord!At
<1>2. PlayerMoves
  BY <1>1, StillMoves
<1>3. CASE media' = [media EXCEPT ![t].batch = "held"] /\ Discord!Goto(t, "commit")
  <2> DEFINE k == [interactions[t] EXCEPT !.pc = "commit"]
             m == [batch |-> "held", enqueued |-> 0]
  <2>1. /\ media \in [Plays -> Batched] /\ PlayStands(interactions[t], media[t])
        /\ interactions \in [Ones -> Interaction] /\ t \in Ones
    BY TaskKinds DEF DiscordInv, InteractionTypes
  <2>2. media' = [media EXCEPT ![t] = m]
    <3>1. media[t] = [batch |-> "none", enqueued |-> 0]
      BY <1>1, <2>1 DEF PlayStands
    <3>2. [media[t] EXCEPT !.batch = "held"] = m
      BY <3>1
    <3> QED  BY <1>3, <2>1, <3>2, Zenon
  <2>3. interactions' = [interactions EXCEPT ![t] = k]
    BY <1>3, <2>1 DEF Discord!Goto
  <2>4. k \in Interaction /\ k.pc = "commit" /\ k.told = interactions[t].told
    BY <2>1, TaskFacts DEF PlayPcs
  <2>5. m \in Batched /\ PlayStands(k, m)
    BY <1>1, <2>1, <2>4 DEF PlayStands, PlayPcs, Batched
  <2>6. media' = media => m = media[t]
    BY <2>1, <2>2
  <2> HIDE DEF k, m
  <2> QED  BY <1>1, <1>2, <2>2, <2>3, <2>4, <2>5, <2>6, PlayStep, Zenon
<1>4. CASE media' = media /\ Discord!Answer(t, "failed")
  BY <1>1, <1>2, <1>4, PlayRefusedInv
<1> QED  BY <1>3, <1>4 DEF Discord!Resolve

\* From the batch to its end nothing of it is queued.
LEMMA HeldUnqueued ==
  ASSUME DiscordInv, NEW t \in Plays, interactions[t].pc \in {"commit", "connect", "reread", "enqueue"}
  PROVE  /\ media[t] = [batch |-> "held", enqueued |-> 0] /\ media[t].enqueued = 0
         /\ interactions[t].told = "nothing"
BY DEF DiscordInv, PlayStands

LEMMA CommitInv ==
  ASSUME DiscordInv, NEW t \in Plays, Discord!Commit(t)
  PROVE  DiscordInv'
<1>1. interactions[t].pc = "commit" /\ Discord!Unchanged /\ Discord!Quiet /\ panel' = panel
  BY DEF Discord!Commit, Discord!At
<1>2. PlayerMoves
  BY <1>1, StillMoves
<1>3. CASE Discord!Discard(t)
  BY <1>1, <1>2, <1>3, HeldUnqueued, DiscardInv
<1>4. ASSUME NEW at \in {"connect", "reread"}, media' = media,
             interactions' = [interactions EXCEPT ![t].pc = at, ![t].revision = player.revision,
                                                  ![t].channel = facts.actor]
      PROVE  DiscordInv'
  <2> DEFINE k == [interactions[t] EXCEPT !.pc = at, !.revision = player.revision,
                                          !.channel = facts.actor]
  <2>1. /\ interactions[t] \in Interaction /\ interactions \in [Ones -> Interaction] /\ t \in Ones
        /\ player.revision \in 0..MaxRevision /\ facts.actor \in Rooms
    BY TaskKinds, TaskFacts DEF DiscordInv, InteractionTypes, Machines, Facts
  <2>2. k \in Interaction /\ k.pc = at /\ k.told = interactions[t].told
    BY <2>1, Zenon DEF Interaction, PlayPcs
  <2>3. interactions' = [interactions EXCEPT ![t] = k]
    BY <1>4, <2>1, Zenon
  <2> HIDE DEF k
  <2> QED  BY <1>1, <1>2, <1>4, <2>2, <2>3, GoesOnInv, Zenon
<1> QED  BY <1>3, <1>4, Zenon DEF Discord!Commit

\* A conflict: another attempt, or the end.
LEMMA PlayRetryInv ==
  ASSUME DiscordInv, PlayerMoves, Discord!Quiet, panel' = panel, NEW t \in Plays,
         interactions[t].pc \in {"commit", "connect", "reread", "enqueue"}, Discord!RetryOrDiscard(t)
  PROVE  DiscordInv'
<1>1. CASE Discord!Discard(t)
  BY <1>1, HeldUnqueued, DiscardInv
<1>2. CASE /\ interactions' = [interactions EXCEPT ![t].pc = "commit", ![t].attempt = @ + 1]
           /\ media' = media
  <2> DEFINE k == [interactions[t] EXCEPT !.pc = "commit", !.attempt = @ + 1]
  <2>1. interactions[t] \in Interaction /\ interactions \in [Ones -> Interaction] /\ t \in Ones
    BY TaskKinds, TaskFacts DEF DiscordInv, InteractionTypes
  <2>2. k \in Interaction /\ k.pc = "commit" /\ k.told = interactions[t].told
    <3>1. interactions[t].attempt + 1 \in Nat
      BY <2>1 DEF Interaction
    <3> QED  BY <2>1, <3>1, Zenon DEF Interaction, PlayPcs
  <2>3. interactions' = [interactions EXCEPT ![t] = k]
    BY <1>2, <2>1, Zenon
  <2> HIDE DEF k
  <2> QED  BY <1>2, <2>2, <2>3, GoesOnInv, Zenon
<1> QED  BY <1>1, <1>2 DEF Discord!RetryOrDiscard

LEMMA ConnectInv ==
  ASSUME DiscordInv, NEW t \in Plays, Discord!Connect(t)
  PROVE  DiscordInv'
<1>1. interactions[t].pc = "connect" /\ Discord!Quiet /\ panel' = panel
  BY DEF Discord!Connect, Discord!At
<1>2. /\ interactions[t] \in Interaction /\ interactions \in [Ones -> Interaction] /\ t \in Ones
      /\ player \in Machines
  BY TaskKinds, TaskFacts DEF DiscordInv, InteractionTypes
<1>3. CASE /\ Discord!Change([player EXCEPT !.channel = interactions[t].channel])
           /\ Discord!Goto(t, "reread") /\ media' = media
  <2>1. [player EXCEPT !.channel = interactions[t].channel] \in Machines
    BY <1>2 DEF Interaction, Machines
  <2>2. PlayerMoves
    BY <1>3, <2>1, ChangeMoves
  <2>3. interactions' = [interactions EXCEPT ![t] = [interactions[t] EXCEPT !.pc = "reread"]]
    BY <1>2, <1>3 DEF Discord!Goto
  <2> QED  BY <1>1, <1>2, <1>3, <2>2, <2>3, TaskFacts, GoesOnInv, Zenon DEF PlayPcs
<1>4. CASE Discord!Discard(t) /\ Discord!Unchanged
  BY <1>1, <1>4, StillMoves, HeldUnqueued, DiscardInv
<1>5. CASE Discord!RetryOrDiscard(t) /\ Discord!Unchanged
  BY <1>1, <1>5, StillMoves, PlayRetryInv
<1> QED  BY <1>3, <1>4, <1>5 DEF Discord!Connect

\* A read of the player's snapshot.
LEMMA ReadTyped ==
  ASSUME DiscordInv, NEW t \in Ones, NEW then \in PlayPcs \cup ClickPcs, Discord!Read(t, then)
  PROVE  \E k \in Interaction :
           /\ interactions' = [interactions EXCEPT ![t] = k]
           /\ k.pc = then /\ k.told = interactions[t].told /\ k.panel = interactions[t].panel
           /\ k.revision = player.revision
<1> DEFINE k == [interactions[t] EXCEPT !.pc = then, !.id = player.id,
                                        !.revision = player.revision, !.channel = player.channel]
<1>1. /\ interactions[t] \in Interaction /\ interactions \in [Ones -> Interaction]
      /\ player.id \in Nat /\ player.revision \in 0..MaxRevision /\ player.channel \in Rooms
  BY TaskFacts DEF DiscordInv, InteractionTypes, Machines
<1>2. /\ k \in Interaction /\ k.pc = then /\ k.told = interactions[t].told
      /\ k.panel = interactions[t].panel /\ k.revision = player.revision
  BY <1>1, Zenon DEF Interaction
<1>3. interactions' = [interactions EXCEPT ![t] = k]
  BY <1>1, Zenon DEF Discord!Read
<1> HIDE DEF k
<1> QED  BY <1>2, <1>3, Zenon

LEMMA RereadInv ==
  ASSUME DiscordInv, NEW t \in Plays, Discord!Reread(t)
  PROVE  DiscordInv'
<1>1. interactions[t].pc = "reread" /\ Discord!Unchanged /\ Discord!Quiet /\ panel' = panel
  BY DEF Discord!Reread, Discord!At
<1>2. CASE Discord!Read(t, "enqueue") /\ media' = media
  BY <1>1, <1>2, TaskKinds, StillMoves, ReadTyped, GoesOnInv DEF PlayPcs
<1>3. CASE Discord!Discard(t)
  BY <1>1, <1>3, StillMoves, HeldUnqueued, DiscardInv
<1> QED  BY <1>2, <1>3 DEF Discord!Reread

LEMMA EnqueueInv ==
  ASSUME DiscordInv, NEW t \in Plays, Discord!Enqueue(t)
  PROVE  DiscordInv'
<1>1. interactions[t].pc = "enqueue" /\ Discord!Quiet /\ panel' = panel
  BY DEF Discord!Enqueue, Discord!At
<1>2. /\ interactions[t] \in Interaction /\ interactions \in [Ones -> Interaction] /\ t \in Ones
      /\ player \in Machines /\ media \in [Plays -> Batched]
  BY TaskKinds, TaskFacts DEF DiscordInv, InteractionTypes
<1>3. CASE /\ Discord!Change([player EXCEPT !.state = IF @ = "Idle" THEN "Playing" ELSE @])
           /\ media' = [media EXCEPT ![t] = [batch |-> "queued", enqueued |-> @.enqueued + 1]]
           /\ Discord!Goto(t, "reply")
  <2> DEFINE k == [interactions[t] EXCEPT !.pc = "reply"]
             m == [batch |-> "queued", enqueued |-> 1]
  <2>1. [player EXCEPT !.state = IF @ = "Idle" THEN "Playing" ELSE @] \in Machines
    BY <1>2 DEF Machines, Faces
  <2>2. PlayerMoves
    BY <1>3, <2>1, ChangeMoves
  <2>3. interactions' = [interactions EXCEPT ![t] = k]
    BY <1>2, <1>3 DEF Discord!Goto
  <2>4. media[t].enqueued + 1 = 1 /\ media[t].batch = "held"
    BY <1>1, HeldUnqueued
  <2>5. media' = [media EXCEPT ![t] = m] /\ (media' = media => m = media[t])
    BY <1>2, <1>3, <2>4, Zenon
  <2>6. k \in Interaction /\ k.pc = "reply" /\ k.told = interactions[t].told
    BY <1>2, TaskFacts DEF PlayPcs
  <2>7. m \in Batched /\ PlayStands(k, m)
    BY <1>1, <2>6, HeldUnqueued DEF Batched, PlayStands, PlayPcs
  <2> HIDE DEF k, m
  <2> QED  BY <1>1, <2>2, <2>3, <2>5, <2>6, <2>7, PlayStep, Zenon
<1>4. CASE Discord!Discard(t) /\ Discord!Unchanged
  BY <1>1, <1>4, StillMoves, HeldUnqueued, DiscardInv
<1>5. CASE Discord!RetryOrDiscard(t) /\ Discord!Unchanged
  BY <1>1, <1>5, StillMoves, PlayRetryInv
<1> QED  BY <1>3, <1>4, <1>5 DEF Discord!Enqueue

LEMMA ReplyInv ==
  ASSUME DiscordInv, NEW t \in Plays \cup Commands, Discord!Reply(t)
  PROVE  DiscordInv'
<1> DEFINE k == [Discord!Start EXCEPT !.pc = "done", !.told = "applied"]
<1>1. /\ interactions[t].pc = "reply" /\ Discord!Unchanged /\ Discord!Quiet
      /\ panel' = panel /\ media' = media
  BY DEF Discord!Reply, Discord!At
<1>2. k \in Interaction /\ k.pc = "done" /\ k.told = "applied"
  BY StartTyped, Zenon DEF Interaction, PlayPcs
<1>3. interactions' = [interactions EXCEPT ![t] = k]
  BY DEF Discord!Reply, Discord!Answer
<1>4. t \in Plays => PlayStands(k, media[t])
  BY <1>1, <1>2 DEF DiscordInv, PlayStands, PlayPcs
<1>5. t \in Ones /\ t \notin Clicks
  BY TaskKinds
<1> HIDE DEF k
<1> QED  BY <1>1, <1>2, <1>3, <1>4, <1>5, StillMoves, QuietFrame, TaskStep, Zenon

\* A /stop or /leave: nothing is known of it.
LEMMA CommandStep ==
  ASSUME DiscordInv, PlayerMoves, Discord!Quiet, panel' = panel, media' = media,
         NEW t \in Commands, NEW k \in Interaction, interactions' = [interactions EXCEPT ![t] = k]
  PROVE  DiscordInv'
<1>1. t \in Ones /\ t \notin Clicks /\ t \notin Plays
  BY TaskKinds
<1> QED  BY <1>1, QuietFrame, TaskStep, Zenon

LEMMA CommandInv ==
  ASSUME DiscordInv, NEW t \in Commands,
         \/ Discord!ApplyStop(t) \/ Discord!Leave(t)
         \/ \E kind \in {"stop", "leave"} : Discord!Command(t, kind)
  PROVE  DiscordInv'
<1>1. /\ interactions[t] \in Interaction /\ interactions \in [Ones -> Interaction] /\ t \in Ones
      /\ player \in Machines
  BY TaskKinds, TaskFacts DEF DiscordInv, InteractionTypes
<1>2. Discord!Quiet /\ panel' = panel /\ media' = media
  BY DEF Discord!ApplyStop, Discord!Leave, Discord!Command
<1>3. ASSUME NEW told \in {"failed"}, Discord!Answer(t, told), PlayerMoves PROVE DiscordInv'
  <2>1. [Discord!Start EXCEPT !.pc = "done", !.told = told] \in Interaction
    BY StartTyped, Zenon DEF Interaction, PlayPcs
  <2> QED  BY <1>2, <1>3, <2>1, CommandStep, Zenon DEF Discord!Answer
<1>4. ASSUME Discord!Goto(t, "reply"), PlayerMoves PROVE DiscordInv'
  <2>1. interactions' = [interactions EXCEPT ![t] = [interactions[t] EXCEPT !.pc = "reply"]]
    BY <1>1, <1>4 DEF Discord!Goto
  <2> QED  BY <1>1, <1>2, <1>4, <2>1, TaskFacts, CommandStep, Zenon DEF PlayPcs
<1>5. CASE Discord!ApplyStop(t)
  <2>1. [player EXCEPT !.state = "Idle"] \in Machines
    BY <1>1 DEF Machines, Faces
  <2> QED  BY <1>3, <1>4, <1>5, <2>1, ChangeMoves, StillMoves DEF Discord!ApplyStop
<1>6. CASE Discord!Leave(t)
  <2>1. watermark' = watermark
    BY <1>6 DEF Discord!Leave
  <2>2. player' = player \/ player' = [player EXCEPT !.alive = FALSE]
    BY <1>6 DEF Discord!Leave
  <2>3. PlayerMoves
    BY <2>1, <2>2, DeathMoves, StillMoves DEF Discord!Unchanged
  <2> QED  BY <1>3, <1>4, <1>6, <2>3 DEF Discord!Leave
<1>7. ASSUME NEW kind \in {"stop", "leave"}, Discord!Command(t, kind) PROVE DiscordInv'
  <2>1. PlayerMoves
    BY <1>7, StillMoves DEF Discord!Command
  <2>2. ASSUME interactions' = [interactions EXCEPT ![t].pc = "apply", ![t].kind = kind,
                                  ![t].id = player.id, ![t].revision = player.revision]
        PROVE  DiscordInv'
    <3> DEFINE k == [interactions[t] EXCEPT !.pc = "apply", !.kind = kind, !.id = player.id,
                                            !.revision = player.revision]
    <3>1. k \in Interaction
      BY <1>1, Zenon DEF Interaction, ClickPcs, Machines
    <3>2. interactions' = [interactions EXCEPT ![t] = k]
      BY <1>1, <2>2, Zenon
    <3> HIDE DEF k
    <3> QED  BY <1>2, <2>1, <3>1, <3>2, CommandStep, Zenon
  <2> QED  BY <1>3, <1>7, <2>1, <2>2 DEF Discord!Command
<1> QED  BY <1>5, <1>6, <1>7

\* A click that goes on, or is answered.
LEMMA ClickStep ==
  ASSUME DiscordInv, PlayerMoves, Discord!Quiet, media' = media,
         panel' \in Discord!Panel, DrawnBefore(panel', player'),
         NEW t \in Clicks, NEW k \in Interaction, interactions' = [interactions EXCEPT ![t] = k],
         ClickStands(k, player')
  PROVE  DiscordInv'
<1>1. t \in Ones /\ t \notin Plays
  BY TaskKinds
<1> QED  BY <1>1, QuietFrame, TaskStep, Zenon

\* The panel of a new interaction is the first there could be.
LEMMA AnswerStands ==
  ASSUME DiscordInv, PlayerMoves, NEW told \in {"applied", "failed"}
  PROVE  /\ [Discord!Start EXCEPT !.pc = "done", !.told = told] \in Interaction
         /\ ClickStands([Discord!Start EXCEPT !.pc = "done", !.told = told], player')
<1> DEFINE k == [Discord!Start EXCEPT !.pc = "done", !.told = told]
<1>1. k \in Interaction /\ k.pc = "done" /\ k.panel = FirstPanel
  BY StartTyped, Zenon DEF Interaction, PlayPcs, FirstPanel
<1> HIDE DEF k
<1>2. k \in Interaction /\ ClickStands(k, player')
  BY <1>1, FirstStays DEF ClickStands
<1> QED  BY <1>2 DEF k

\* Press: the panel as it is now.
LEMMA PressInv ==
  ASSUME DiscordInv, NEW t \in Clicks, NEW kind \in {"toggle", "stop"}, Discord!Press(t, kind)
  PROVE  DiscordInv'
<1> DEFINE k == [interactions[t] EXCEPT !.pc = "pressed", !.kind = kind, !.panel = panel]
<1>1. Discord!Unchanged /\ Discord!Quiet /\ panel' = panel /\ media' = media /\ PlayerMoves
  BY StillMoves DEF Discord!Press
<1>2. /\ interactions[t] \in Interaction /\ interactions \in [Ones -> Interaction] /\ t \in Ones
      /\ panel \in Discord!Panel
  BY TaskKinds, TaskFacts DEF DiscordInv, InteractionTypes
<1>3. k \in Interaction /\ k.pc = "pressed" /\ k.panel = panel
  BY <1>2, Zenon DEF Interaction, ClickPcs
<1>4. interactions' = [interactions EXCEPT ![t] = k]
  BY <1>2, Zenon DEF Discord!Press
<1> HIDE DEF k
<1>5. DrawnBefore(panel, player')
  BY <1>1, <1>2 DEF DiscordInv, PlayerMoves
<1>6. ClickStands(k, player')
  BY <1>3, <1>5 DEF ClickStands
<1> QED  BY <1>1, <1>2, <1>3, <1>4, <1>5, <1>6, ClickStep, Zenon

\* What is known of a click stays true while it only moves on.
LEMMA ClickMovesOn ==
  ASSUME DiscordInv, PlayerMoves, Discord!Quiet, panel' = panel, media' = media, NEW t \in Clicks,
         \/ Discord!Answer(t, "failed")
         \/ Discord!Goto(t, "apply") /\ interactions[t].pc = "authorize"
  PROVE  DiscordInv'
<1>1. /\ interactions[t] \in Interaction /\ interactions \in [Ones -> Interaction] /\ t \in Ones
      /\ panel' \in Discord!Panel /\ DrawnBefore(panel', player')
  BY TaskKinds, TaskFacts DEF DiscordInv, InteractionTypes, PlayerMoves
<1>2. CASE Discord!Answer(t, "failed")
  BY <1>1, <1>2, AnswerStands, ClickStep, Zenon DEF Discord!Answer
<1>3. CASE Discord!Goto(t, "apply") /\ interactions[t].pc = "authorize"
  <2> DEFINE k == [interactions[t] EXCEPT !.pc = "apply"]
  <2>1. k \in Interaction /\ k.panel = interactions[t].panel /\ k.revision = interactions[t].revision
    BY <1>1, TaskFacts DEF ClickPcs
  <2>2. interactions' = [interactions EXCEPT ![t] = k]
    BY <1>1, <1>3 DEF Discord!Goto
  <2> HIDE DEF k
  <2>3. ClickStands(interactions[t], player) /\ interactions[t].panel \in Discord!Panel
    BY <1>1 DEF DiscordInv, Interaction
  <2>4. ClickStands(k, player')
    BY <1>3, <2>1, <2>3 DEF ClickStands, PlayerMoves
  <2> QED  BY <1>1, <2>1, <2>2, <2>4, ClickStep, Zenon
<1> QED  BY <1>2, <1>3

LEMMA ClickInv ==
  ASSUME DiscordInv, NEW t \in Clicks, Discord!Click(t)
  PROVE  DiscordInv'
<1>1. Discord!Unchanged /\ Discord!Quiet /\ panel' = panel /\ media' = media /\ PlayerMoves
  BY StillMoves DEF Discord!Click
<1>2. CASE Discord!Answer(t, "failed")
  BY <1>1, <1>2, ClickMovesOn
<1>3. CASE interactions[t].panel.revision = player.revision /\ Discord!Read(t, "authorize")
  <2>1. t \in Ones /\ panel' \in Discord!Panel /\ DrawnBefore(panel', player')
    BY <1>1, TaskKinds DEF DiscordInv, InteractionTypes, PlayerMoves
  <2>2. PICK k \in Interaction : /\ interactions' = [interactions EXCEPT ![t] = k]
                                 /\ k.panel = interactions[t].panel /\ k.revision = player.revision
    BY <1>3, <2>1, ReadTyped DEF ClickPcs
  <2>3. DrawnBefore(interactions[t].panel, player) /\ interactions[t].panel \in Discord!Panel
    BY <2>1, TaskFacts DEF DiscordInv, ClickStands, Interaction
  <2>4. ClickStands(k, player')
    BY <1>1, <1>3, <2>2, <2>3 DEF ClickStands, PlayerMoves
  <2> QED  BY <1>1, <2>1, <2>2, <2>4, ClickStep, Zenon
<1> QED  BY <1>2, <1>3 DEF Discord!Click, Discord!MapInteraction

LEMMA AuthorizeClickInv ==
  ASSUME DiscordInv, NEW t \in Clicks, Discord!AuthorizeClick(t)
  PROVE  DiscordInv'
<1>1. /\ Discord!Unchanged /\ Discord!Quiet /\ panel' = panel /\ media' = media /\ PlayerMoves
      /\ interactions[t].pc = "authorize"
  BY StillMoves DEF Discord!AuthorizeClick, Discord!At
<1>2. Discord!Answer(t, "failed") \/ Discord!Goto(t, "apply")
  BY DEF Discord!AuthorizeClick
<1> QED  BY <1>1, <1>2, ClickMovesOn

LEMMA ApplyClickInv ==
  ASSUME DiscordInv, NEW t \in Clicks, Discord!ApplyClick(t)
  PROVE  DiscordInv'
<1>1. Discord!Quiet /\ media' = media /\ t \in Ones /\ player \in Machines
  BY TaskKinds DEF Discord!ApplyClick, DiscordInv, InteractionTypes
<1>2. CASE Discord!Answer(t, "failed") /\ UNCHANGED <<player, watermark, panel>>
  BY <1>1, <1>2, StillMoves, ClickMovesOn DEF Discord!Unchanged
<1>3. ASSUME NEW s \in Faces, Discord!Change([player EXCEPT !.state = s]), Discord!Answer(t, "applied"),
             panel' \in {panel, [revision |-> player'.revision, state |-> player'.state]}
      PROVE  DiscordInv'
  <2>1. [player EXCEPT !.state = s] \in Machines
    BY <1>1 DEF Machines
  <2>2. PlayerMoves
    BY <1>3, <2>1, ChangeMoves
  <2>3. panel' \in Discord!Panel /\ DrawnBefore(panel', player')
    <3>1. CASE panel' = panel
      BY <2>2, <3>1 DEF DiscordInv, InteractionTypes, PlayerMoves
    <3>2. CASE panel' = [revision |-> player'.revision, state |-> player'.state]
      BY <2>2, <3>2 DEF PlayerMoves, Machines, Faces, Discord!Panel, DrawnBefore
    <3> QED  BY <1>3, <3>1, <3>2
  <2> QED  BY <1>1, <1>3, <2>2, <2>3, AnswerStands, ClickStep, Zenon DEF Discord!Answer
<1>4. \A s \in Faces : (IF interactions[t].kind = "stop" THEN "Idle"
                        ELSE IF s = "Playing" THEN "Paused" ELSE "Playing") \in Faces
  BY DEF Faces
<1>5. player.state \in Faces
  BY <1>1 DEF Machines
<1> QED  BY <1>2, <1>3, <1>4, <1>5 DEF Discord!ApplyClick

\* The others: the dashboard, the gateway, the panel's updater.
LEMMA OthersInv ==
  ASSUME DiscordInv,
         \/ Discord!Other \/ Discord!UserChanges \/ Discord!BotMoves \/ Discord!Render
         \/ \E c \in Rooms : Discord!Reconcile(c)
  PROVE  DiscordInv'
<1>0. player \in Machines /\ facts \in Facts /\ voice \subseteq Rooms /\ panel \in Discord!Panel
  BY DEF DiscordInv, InteractionTypes
<1>1. CASE Discord!Other
  <2>1. facts' \in Facts /\ voice' \subseteq Rooms /\ panel' = panel /\ UNCHANGED <<interactions, media>>
    BY <1>0, <1>1 DEF Discord!Other
  <2>2. PlayerMoves
    <3>1. CASE \E s \in Faces : Discord!Change([player EXCEPT !.state = s])
      <4>1. \A s \in Faces : [player EXCEPT !.state = s] \in Machines
        BY <1>0 DEF Machines
      <4> QED  BY <3>1, <4>1, ChangeMoves
    <3>2. CASE player' = [player EXCEPT !.alive = FALSE] /\ UNCHANGED watermark
      BY <3>2, DeathMoves
    <3> QED  BY <1>1, <3>1, <3>2 DEF Discord!Other, Faces
  <2>3. DrawnBefore(panel', player')
    BY <1>0, <2>1, <2>2 DEF DiscordInv, PlayerMoves
  <2> QED  BY <1>0, <2>1, <2>2, <2>3, OtherStep
<1>2. CASE Discord!UserChanges
  <2>1. facts' \in Facts
    BY <1>0, <1>2 DEF Discord!UserChanges, Facts, Rooms
  <2>2. /\ PlayerMoves /\ voice' \subseteq Rooms /\ panel' = panel /\ player' = player
        /\ UNCHANGED <<interactions, media>>
    BY <1>0, <1>2, StillMoves DEF Discord!UserChanges, Discord!Unchanged
  <2> QED  BY <1>0, <2>1, <2>2, OtherStep DEF DiscordInv
<1>3. CASE Discord!BotMoves
  <2>1. facts' \in Facts /\ voice' \subseteq Rooms
    BY <1>0, <1>3 DEF Discord!BotMoves, Facts, Rooms
  <2>2. /\ PlayerMoves /\ panel' = panel /\ player' = player
        /\ UNCHANGED <<interactions, media>>
    BY <1>0, <1>3, StillMoves DEF Discord!BotMoves, Discord!Unchanged
  <2> QED  BY <1>0, <2>1, <2>2, OtherStep DEF DiscordInv
<1>4. CASE Discord!Render
  <2>1. /\ PlayerMoves /\ player' = player /\ facts' \in Facts /\ voice' \subseteq Rooms
        /\ panel' = Discord!Shown /\ UNCHANGED <<interactions, media>>
    BY <1>0, <1>4, StillMoves DEF Discord!Render, Discord!Quiet, Discord!Unchanged
  <2>2. panel' \in Discord!Panel /\ DrawnBefore(panel', player')
    BY <1>0, <2>1 DEF Discord!Shown, Discord!Panel, DrawnBefore, Machines, Faces
  <2> QED  BY <2>1, <2>2, OtherStep
<1>5. ASSUME NEW c \in Rooms, Discord!Reconcile(c) PROVE DiscordInv'
  <2>1. facts' \in Facts /\ voice' \subseteq Rooms /\ panel' = panel /\ UNCHANGED <<interactions, media>>
    BY <1>0, <1>5, Zenon DEF Discord!Reconcile
  <2>2. PlayerMoves
    <3>1. CASE Discord!Unchanged
      BY <3>1, StillMoves
    <3>2. CASE Discord!Change([player EXCEPT !.channel = c, !.state = IF c = NoChannel THEN "Idle" ELSE @])
      <4>1. [player EXCEPT !.channel = c, !.state = IF c = NoChannel THEN "Idle" ELSE @] \in Machines
        BY <1>0, Zenon DEF Machines, Faces
      <4> QED  BY <3>2, <4>1, ChangeMoves
    <3> QED  BY <1>5, <3>1, <3>2, Zenon DEF Discord!Reconcile
  <2>3. DrawnBefore(panel', player')
    BY <1>0, <2>1, <2>2 DEF DiscordInv, PlayerMoves
  <2> QED  BY <1>0, <2>1, <2>2, <2>3, OtherStep
<1> QED  BY <1>1, <1>2, <1>3, <1>4, <1>5

LEMMA DiscordStep == DiscordInv /\ [Discord!Next]_discordVars => DiscordInv'
<1>1. ASSUME DiscordInv, Discord!Next PROVE DiscordInv'
  <2>1. CASE \/ Discord!Other \/ Discord!UserChanges \/ Discord!BotMoves \/ Discord!Render
             \/ \E c \in Discord!Places : Discord!Reconcile(c)
    BY <1>1, <2>1, OthersInv DEF Rooms
  <2>2. CASE \E t \in Plays : \/ Discord!Play(t) \/ Discord!AuthorizedPlayer(t) \/ Discord!Resolve(t)
                              \/ Discord!Commit(t) \/ Discord!Connect(t)
                              \/ Discord!Reread(t) \/ Discord!Enqueue(t)
    BY <1>1, <2>2, PlayInv, AuthorizedPlayerInv, PlayResolvedInv, CommitInv, ConnectInv, RereadInv, EnqueueInv
  <2>3. CASE \E t \in Commands : \/ Discord!ApplyStop(t) \/ Discord!Leave(t)
                                 \/ \E kind \in {"stop", "leave"} : Discord!Command(t, kind)
    BY <1>1, <2>3, CommandInv
  <2>4. CASE \E t \in Clicks : \/ Discord!Click(t) \/ Discord!AuthorizeClick(t) \/ Discord!ApplyClick(t)
                               \/ \E kind \in {"toggle", "stop"} : Discord!Press(t, kind)
    BY <1>1, <2>4, ClickInv, AuthorizeClickInv, ApplyClickInv, PressInv
  <2>5. CASE \E t \in Plays \cup Commands : Discord!Reply(t)
    BY <1>1, <2>5, ReplyInv
  <2> QED  BY <1>1, <2>1, <2>2, <2>3, <2>4, <2>5 DEF Discord!Next
<1>2. ASSUME DiscordInv, UNCHANGED discordVars PROVE DiscordInv'
  BY <1>2 DEF discordVars, DiscordInv, InteractionTypes
<1> QED  BY <1>1, <1>2

LEMMA DiscordStart == Discord!Init => DiscordInv
<1> SUFFICES ASSUME Discord!Init PROVE DiscordInv
  OBVIOUS
<1>1. InteractionTypes
  BY StartTyped, TaskKinds, InteractionAssumption
  DEF Discord!Init, InteractionTypes, Facts, Machines, Faces, Discord!Rights, Discord!Panel, Batched, Ones
<1>2. DrawnBefore(panel, player) /\ DrawnBefore(FirstPanel, player)
  BY DEF Discord!Init, DrawnBefore, FirstPanel
<1>3. \A t \in Ones : interactions[t] = Discord!Start
  BY DEF Discord!Init, Ones
<1>4. \A t \in Clicks : ClickStands(interactions[t], player)
  BY <1>2, <1>3, StartTyped, TaskKinds DEF ClickStands, FirstPanel
<1>5. \A t \in Plays : PlayStands(interactions[t], media[t])
  BY <1>3, StartTyped, TaskKinds DEF PlayStands, PlayPcs, Discord!Init
<1> QED  BY <1>1, <1>2, <1>4, <1>5 DEF DiscordInv

LEMMA DiscordPromise ==
  ASSUME DiscordInv
  PROVE  Discord!TypeOK /\ Discord!QueuedIsKept
<1>1. \A t \in Ones : interactions[t].told \in {"nothing", "applied", "failed"}
  BY TaskFacts DEF Interaction
<1>2. Discord!TypeOK
  BY <1>1 DEF DiscordInv, InteractionTypes, Discord!TypeOK, Facts, Rooms, Machines, Faces, Batched, Ones
<1>3. Discord!QueuedIsKept
  BY DEF DiscordInv, PlayStands, PlayPcs, Discord!QueuedIsKept
<1> QED  BY <1>2, <1>3

\* A task's step leaves the other tasks where they stand.
LEMMA OthersStand ==
  ASSUME DiscordInv, NEW t \in Ones, NEW u \in Ones, u # t,
         \/ Discord!Play(u) \/ Discord!AuthorizedPlayer(u) \/ Discord!Resolve(u) \/ Discord!Commit(u)
         \/ Discord!Connect(u) \/ Discord!Reread(u) \/ Discord!Enqueue(u) \/ Discord!Reply(u)
         \/ Discord!ApplyStop(u) \/ Discord!Leave(u)
         \/ \E kind \in {"stop", "leave"} : Discord!Command(u, kind)
         \/ Discord!Click(u) \/ Discord!AuthorizeClick(u) \/ Discord!ApplyClick(u)
         \/ \E kind \in {"toggle", "stop"} : Discord!Press(u, kind)
  PROVE  interactions'[t] = interactions[t]
<1>1. interactions \in [Ones -> Interaction]
  BY DEF DiscordInv, InteractionTypes
<1>2. Discord!Discard(u) \/ Discord!RetryOrDiscard(u) => interactions'[t] = interactions[t]
  BY <1>1 DEF Discord!Discard, Discord!RetryOrDiscard, Discord!Answer
<1>3. CASE Discord!Play(u) \/ Discord!AuthorizedPlayer(u) \/ Discord!Resolve(u)
  BY <1>1, <1>3 DEF Discord!Play, Discord!AuthorizedPlayer, Discord!Resolve, Discord!Goto, Discord!Answer
<1>4. CASE Discord!Commit(u) \/ Discord!Connect(u)
  BY <1>1, <1>2, <1>4 DEF Discord!Commit, Discord!Connect, Discord!Goto
<1>5. CASE Discord!Reread(u) \/ Discord!Enqueue(u) \/ Discord!Reply(u)
  BY <1>1, <1>2, <1>5 DEF Discord!Reread, Discord!Enqueue, Discord!Reply, Discord!Goto, Discord!Read,
                          Discord!Answer
<1>6. CASE \/ Discord!ApplyStop(u) \/ Discord!Leave(u)
           \/ \E kind \in {"stop", "leave"} : Discord!Command(u, kind)
  BY <1>1, <1>6 DEF Discord!ApplyStop, Discord!Leave, Discord!Command, Discord!Goto, Discord!Answer
<1>7. CASE \/ Discord!Click(u) \/ Discord!AuthorizeClick(u) \/ Discord!ApplyClick(u)
           \/ \E kind \in {"toggle", "stop"} : Discord!Press(u, kind)
  BY <1>1, <1>7 DEF Discord!Click, Discord!AuthorizeClick, Discord!ApplyClick, Discord!Press,
                    Discord!Goto, Discord!Read, Discord!Answer
<1> QED  BY <1>3, <1>4, <1>5, <1>6, <1>7

\* A button that was applied acted on the state its panel showed.
LEMMA ClicksAct ==
  ASSUME DiscordInv, [Discord!Next]_discordVars, NEW t \in Clicks
  PROVE  Discord!ActsOnPanel(t)
<1> SUFFICES ASSUME interactions[t].told # "applied", interactions'[t].told = "applied"
             PROVE  player.state = interactions[t].panel.state
  BY DEF Discord!ActsOnPanel
<1>1. interactions \in [Ones -> Interaction] /\ t \in Ones /\ t \notin Plays /\ t \notin Commands
  BY TaskKinds DEF DiscordInv, InteractionTypes
<1>2. interactions'[t] # interactions[t]
  OBVIOUS
<1>3. \/ Discord!Click(t) \/ Discord!AuthorizeClick(t) \/ Discord!ApplyClick(t)
      \/ \E kind \in {"toggle", "stop"} : Discord!Press(t, kind)
  <2>1. UNCHANGED interactions => FALSE
    BY <1>2
  <2>2. CASE UNCHANGED discordVars
    BY <2>1, <2>2 DEF discordVars
  <2>3. CASE \/ Discord!Other \/ Discord!UserChanges \/ Discord!BotMoves \/ Discord!Render
             \/ \E c \in Discord!Places : Discord!Reconcile(c)
    BY <2>1, <2>3, Zenon DEF Discord!Other, Discord!UserChanges, Discord!BotMoves, Discord!Render,
                             Discord!Reconcile
  <2>4. CASE \E u \in Plays : \/ Discord!Play(u) \/ Discord!AuthorizedPlayer(u) \/ Discord!Resolve(u)
                              \/ Discord!Commit(u) \/ Discord!Connect(u)
                              \/ Discord!Reread(u) \/ Discord!Enqueue(u)
    BY <1>1, <1>2, <2>4, TaskKinds, OthersStand
  <2>5. CASE \E u \in Commands : \/ Discord!ApplyStop(u) \/ Discord!Leave(u)
                                 \/ \E kind \in {"stop", "leave"} : Discord!Command(u, kind)
    BY <1>1, <1>2, <2>5, TaskKinds, OthersStand
  <2>6. CASE \E u \in Clicks : \/ Discord!Click(u) \/ Discord!AuthorizeClick(u) \/ Discord!ApplyClick(u)
                               \/ \E kind \in {"toggle", "stop"} : Discord!Press(u, kind)
    BY <1>1, <1>2, <2>6, TaskKinds, OthersStand
  <2>7. CASE \E u \in Plays \cup Commands : Discord!Reply(u)
    BY <1>1, <1>2, <2>7, TaskKinds, OthersStand
  <2> QED  BY <2>2, <2>3, <2>4, <2>5, <2>6, <2>7 DEF Discord!Next
<1>4. [Discord!Start EXCEPT !.pc = "done", !.told = "failed"].told = "failed"
  BY DEF Discord!Start
<1>5. ASSUME Discord!Answer(t, "failed") PROVE FALSE
  BY <1>1, <1>4, <1>5 DEF Discord!Answer
<1>6. ASSUME interactions'[t].told = interactions[t].told PROVE FALSE
  BY <1>6
<1>7. CASE Discord!Click(t)
  <2>1. CASE Discord!Read(t, "authorize")
    BY <1>1, <1>6, <2>1, ReadTyped DEF ClickPcs
  <2> QED  BY <1>5, <1>7, <2>1 DEF Discord!Click
<1>8. CASE Discord!AuthorizeClick(t)
  <2>1. CASE Discord!Goto(t, "apply")
    BY <1>1, <1>6, <2>1, TaskFacts DEF Discord!Goto, Interaction
  <2> QED  BY <1>5, <1>8, <2>1 DEF Discord!AuthorizeClick
<1>9. ASSUME NEW kind \in {"toggle", "stop"}, Discord!Press(t, kind) PROVE FALSE
  BY <1>1, <1>6, <1>9, TaskFacts DEF Discord!Press, Interaction
<1>10. CASE Discord!ApplyClick(t)
  <2>1. interactions[t].pc = "apply" /\ player.revision = interactions[t].revision
    BY <1>5, <1>10 DEF Discord!ApplyClick, Discord!At
  <2>2. ClickStands(interactions[t], player)
    BY DEF DiscordInv
  <2> QED  BY <2>1, <2>2 DEF ClickStands, DrawnBefore
<1> QED  BY <1>3, <1>7, <1>8, <1>9, <1>10

-----------------------------------------------------------------------------
(* The development backend.                                                *)

Listed(queue) == {queue[i] : i \in DOMAIN queue}
Once(queue)   == \A i, j \in DOMAIN queue : queue[i] = queue[j] => i = j

\* What is taken out of a queue that lists nothing twice is gone from it.
LEMMA TakenOut ==
  ASSUME NEW S, NEW queue \in Seq(S), Once(queue), NEW x \in Listed(queue)
  PROVE  /\ Dev!Without(queue, x) \in Seq(S) /\ Once(Dev!Without(queue, x))
         /\ Listed(Dev!Without(queue, x)) = Listed(queue) \ {x}
<1>1. PICK n \in 1..Len(queue) : queue[n] = x
  BY DEF Listed
<1>2. Dev!Place(queue, x) = n
  BY <1>1 DEF Once, Dev!Place
<1> DEFINE r == SubSeq(queue, 1, n - 1) \o SubSeq(queue, n + 1, Len(queue))
<1>3. Dev!Without(queue, x) = r
  BY <1>2 DEF Dev!Without
<1>4. /\ r \in Seq(S) /\ Len(r) = Len(queue) - 1
      /\ \A i \in 1..Len(r) : r[i] = IF i < n THEN queue[i] ELSE queue[i + 1]
  <2> DEFINE a == SubSeq(queue, 1, n - 1)
             b == SubSeq(queue, n + 1, Len(queue))
  <2>1. /\ a \in Seq(S) /\ Len(a) = n - 1
        /\ \A i \in 1..(n - 1) : a[i] = queue[i]
    BY <1>1, SubSeqProperties
  <2>2. /\ b \in Seq(S) /\ Len(b) = Len(queue) - n
        /\ \A i \in 1..(Len(queue) - n) : b[i] = queue[n + i]
    BY <1>1, SubSeqProperties
  <2> HIDE DEF a, b
  <2>3. /\ a \o b \in Seq(S) /\ Len(a \o b) = Len(queue) - 1
        /\ \A i \in 1..(Len(queue) - 1) : (a \o b)[i] = IF i < n THEN queue[i] ELSE queue[i + 1]
    <3>1. /\ a \o b \in Seq(S) /\ Len(a \o b) = Len(a) + Len(b)
          /\ \A i \in 1..(Len(a) + Len(b)) : (a \o b)[i] = IF i <= Len(a) THEN a[i] ELSE b[i - Len(a)]
      BY <2>1, <2>2, ConcatProperties, Zenon
    <3>2. ASSUME NEW i \in 1..(Len(queue) - 1)
          PROVE  (a \o b)[i] = IF i < n THEN queue[i] ELSE queue[i + 1]
      <4>1. CASE i < n
        <5>1. i \in 1..(n - 1) /\ i <= Len(a) /\ i \in 1..(Len(a) + Len(b))
          BY <1>1, <2>1, <2>2, <4>1
        <5> QED  BY <2>1, <3>1, <4>1, <5>1
      <4>2. CASE ~(i < n)
        <5>1. i - (n - 1) \in 1..(Len(queue) - n) /\ n + (i - (n - 1)) = i + 1
          BY <1>1, <4>2
        <5>2. b[i - (n - 1)] = queue[i + 1]
          BY <2>2, <5>1
        <5> QED  BY <1>1, <2>1, <2>2, <3>1, <4>2, <5>2
      <4> QED  BY <4>1, <4>2, Zenon
    <3> QED  BY <1>1, <2>1, <2>2, <3>1, <3>2
  <2> QED  BY <2>3, Zenon DEF a, b
<1> HIDE DEF r
<1>5. Once(r)
  <2> SUFFICES ASSUME NEW i \in 1..Len(r), NEW j \in 1..Len(r), r[i] = r[j] PROVE i = j
    BY <1>4 DEF Once
  <2>1. PICK k \in 1..Len(queue), l \in 1..Len(queue) :
          k = (IF i < n THEN i ELSE i + 1) /\ l = (IF j < n THEN j ELSE j + 1)
    BY <1>1, <1>4
  <2>2. r[i] = queue[k] /\ r[j] = queue[l]
    BY <1>1, <1>4, <2>1, Zenon
  <2>3. k = l
    <3>1. queue[k] = queue[l]
      BY <2>2, Zenon
    <3>2. DOMAIN queue = 1..Len(queue)
      OBVIOUS
    <3> QED  BY <3>1, <3>2, Zenon DEF Once
  <2> QED  BY <1>1, <1>4, <2>1, <2>3
<1>6. Listed(r) = Listed(queue) \ {x}
  <2>1. ASSUME NEW y \in Listed(r) PROVE y \in Listed(queue) /\ y # x
    BY <1>1, <1>4, <2>1 DEF Once, Listed
  <2>2. ASSUME NEW y \in Listed(queue), y # x PROVE y \in Listed(r)
    <3>1. PICK i \in 1..Len(queue) : queue[i] = y
      BY DEF Listed
    <3>2. CASE i < n
      BY <1>1, <1>4, <3>1, <3>2 DEF Listed
    <3>3. CASE i > n
      <4>1. i - 1 \in 1..Len(r) /\ r[i - 1] = y
        BY <1>1, <1>4, <3>1, <3>3
      <4> QED  BY <1>4, <4>1 DEF Listed
    <3> QED  BY <1>1, <2>2, <3>1, <3>2, <3>3
  <2> QED  BY <2>1, <2>2
<1> QED  BY <1>3, <1>4, <1>5, <1>6

\* What is put into a queue that does not list it is listed once.
LEMMA PutIn ==
  ASSUME NEW S, NEW queue \in Seq(S), Once(queue), NEW x \in S, x \notin Listed(queue),
         NEW n \in 1..(Len(queue) + 1)
  PROVE  /\ Dev!Inserted(queue, n, x) \in Seq(S) /\ Once(Dev!Inserted(queue, n, x))
         /\ Listed(Dev!Inserted(queue, n, x)) = Listed(queue) \cup {x}
<1> DEFINE r == SubSeq(queue, 1, n - 1) \o <<x>> \o SubSeq(queue, n, Len(queue))
<1>1. Dev!Inserted(queue, n, x) = r
  BY DEF Dev!Inserted
<1>2. /\ r \in Seq(S) /\ Len(r) = Len(queue) + 1
      /\ \A i \in 1..Len(r) : r[i] = IF i < n THEN queue[i] ELSE IF i = n THEN x ELSE queue[i - 1]
  <2> DEFINE a == SubSeq(queue, 1, n - 1)
             b == SubSeq(queue, n, Len(queue))
  <2>1. /\ a \in Seq(S) /\ Len(a) = n - 1
        /\ \A i \in 1..(n - 1) : a[i] = queue[i]
    BY SubSeqProperties
  <2>2. /\ b \in Seq(S) /\ Len(b) = Len(queue) - n + 1
        /\ \A i \in 1..(Len(queue) - n + 1) : b[i] = queue[n + i - 1]
    BY SubSeqProperties
  <2> HIDE DEF a, b
  <2>3. /\ a \o <<x>> \in Seq(S) /\ Len(a \o <<x>>) = n
        /\ \A i \in 1..n : (a \o <<x>>)[i] = IF i < n THEN queue[i] ELSE x
    BY <2>1
  <2> DEFINE c == a \o <<x>>
  <2>4. c \in Seq(S) /\ Len(c) = n /\ \A i \in 1..n : c[i] = IF i < n THEN queue[i] ELSE x
    BY <2>3
  <2> HIDE DEF c
  <2>5. /\ c \o b \in Seq(S) /\ Len(c \o b) = Len(queue) + 1
        /\ \A i \in 1..(Len(queue) + 1) :
             (c \o b)[i] = IF i < n THEN queue[i] ELSE IF i = n THEN x ELSE queue[i - 1]
    <3>1. /\ c \o b \in Seq(S) /\ Len(c \o b) = Len(c) + Len(b)
          /\ \A i \in 1..(Len(c) + Len(b)) : (c \o b)[i] = IF i <= Len(c) THEN c[i] ELSE b[i - Len(c)]
      BY <2>2, <2>4, ConcatProperties, Zenon
    <3>2. ASSUME NEW i \in 1..(Len(queue) + 1)
          PROVE  (c \o b)[i] = IF i < n THEN queue[i] ELSE IF i = n THEN x ELSE queue[i - 1]
      <4>1. CASE i <= n
        BY <2>2, <2>4, <3>1, <4>1
      <4>2. CASE ~(i <= n)
        <5>1. i - n \in 1..(Len(queue) - n + 1) /\ n + (i - n) - 1 = i - 1
          BY <4>2
        <5>2. b[i - n] = queue[i - 1]
          BY <2>2, <5>1
        <5> QED  BY <2>2, <2>4, <3>1, <4>2, <5>2
      <4> QED  BY <4>1, <4>2, Zenon
    <3> QED  BY <2>2, <2>4, <3>1, <3>2
  <2> QED  BY <2>5, Zenon DEF a, b, c
<1> HIDE DEF r
<1>3. \A i \in 1..Len(queue) : queue[i] # x
  BY DEF Listed
<1>4. Once(r)
  <2> SUFFICES ASSUME NEW i \in 1..Len(r), NEW j \in 1..Len(r), i # n, j # n, r[i] = r[j] PROVE i = j
    <3>1. \A i \in 1..Len(r) : i # n => r[i] # x
      BY <1>2, <1>3
    <3> QED  BY <1>2, <3>1 DEF Once
  <2>1. PICK k \in 1..Len(queue), l \in 1..Len(queue) :
          k = (IF i < n THEN i ELSE i - 1) /\ l = (IF j < n THEN j ELSE j - 1)
    BY <1>2
  <2>2. r[i] = queue[k] /\ r[j] = queue[l]
    BY <1>2, <2>1
  <2>3. k = l
    <3>1. queue[k] = queue[l]
      BY <2>2, Zenon
    <3>2. DOMAIN queue = 1..Len(queue)
      OBVIOUS
    <3> QED  BY <3>1, <3>2, Zenon DEF Once
  <2> QED  BY <1>2, <2>1, <2>3
<1>5. Listed(r) = Listed(queue) \cup {x}
  <2>1. ASSUME NEW y \in Listed(r) PROVE y \in Listed(queue) \cup {x}
    <3>1. PICK i \in 1..Len(r) : r[i] = y
      BY <1>2 DEF Listed
    <3>2. CASE i = n
      BY <1>2, <3>1, <3>2
    <3>3. CASE i # n
      <4>1. PICK k \in 1..Len(queue) : k = (IF i < n THEN i ELSE i - 1)
        BY <1>2, <3>3
      <4>2. queue[k] = y
        BY <1>2, <3>1, <3>3, <4>1
      <4> QED  BY <4>1, <4>2 DEF Listed
    <3> QED  BY <3>2, <3>3
  <2>2. ASSUME NEW y \in Listed(queue) PROVE y \in Listed(r)
    <3>1. PICK i \in 1..Len(queue) : queue[i] = y
      BY DEF Listed
    <3>2. CASE i < n
      BY <1>2, <3>1, <3>2 DEF Listed
    <3>3. CASE i >= n
      <4>0. i + 1 \in 1..Len(r) /\ ~(i + 1 < n) /\ i + 1 # n /\ (i + 1) - 1 = i
        BY <1>2, <3>3
      <4>1. r[i + 1] = y
        BY <1>2, <3>1, <4>0
      <4> QED  BY <1>2, <4>0, <4>1 DEF Listed
    <3> QED  BY <3>1, <3>2, <3>3
  <2>3. x \in Listed(r)
    BY <1>2 DEF Listed
  <2> QED  BY <2>1, <2>2, <2>3
<1> QED  BY <1>1, <1>2, <1>4, <1>5

Shots(n) == [state : Dev!States, current : (1..n) \cup {NoTrack}, upcoming : Seq(1..n),
             previous : BOOLEAN, revision : Nat]

\* A snapshot of the n tracks made so far that holds together.
Holds(shot, n) ==
  /\ shot \in Shots(n)
  /\ shot.state \in {"Playing", "Paused"} <=> shot.current # NoTrack
  /\ Once(shot.upcoming) /\ shot.current \notin Listed(shot.upcoming)

Kinds    == Dev!Simple \cup {"RemoveQueued", "MoveQueued"}
Receipts == [type : Kinds, revision : Nat]

\* A key was used for each track that was made, and every receipt is of a revision there was.
ReceiptInv ==
  /\ receipts \in Seq(Receipts) /\ Len(receipts) <= MaxKeys
  /\ tracks \in Nat /\ tracks <= Len(receipts)
  /\ \A j \in DOMAIN receipts : receipts[j].revision <= snapshot.revision
  /\ \A j, k \in DOMAIN receipts :
       j < k /\ receipts[k].type # "MoveQueued" => receipts[j].revision < receipts[k].revision
  /\ event = snapshot.revision

ChargeInv ==
  /\ actors \in [Actors -> 0..ActorLimit] /\ guild \in 0..GuildLimit
  /\ guild = Cardinality(Dev!Charges)

DevInv == Holds(snapshot, tracks) /\ ReceiptInv /\ ChargeInv

LEMMA Limits ==
  /\ MaxKeys \in Nat /\ ActorLimit \in Nat /\ GuildLimit \in Nat /\ IsFiniteSet(Actors)
  /\ \A n \in 0..MaxKeys : NoTrack \notin 1..n
  /\ Dev!Tracks = 1..MaxKeys
BY BackendAssumption DEF Dev!Tracks

\* The shapes of the commands.
LEMMA CommandForms ==
  ASSUME NEW c \in Dev!PlayerCommands
  PROVE  /\ c.type \in Kinds
         /\ c.type = "MoveQueued" => c.track \in 1..MaxKeys
BY Limits DEF Dev!PlayerCommands, Dev!Simple, Kinds

LEMMA EmptyQueue ==
  \A S : <<>> \in Seq(S) /\ Once(<<>>) /\ Listed(<<>>) = {}
BY DEF Once, Listed

\* The queue without its first.
LEMMA FirstGone ==
  ASSUME NEW S, NEW queue \in Seq(S), queue # <<>>, Once(queue)
  PROVE  Tail(queue) \in Seq(S) /\ Once(Tail(queue))
<1>1. /\ Tail(queue) \in Seq(S) /\ Len(Tail(queue)) = Len(queue) - 1
      /\ \A i \in 1..Len(Tail(queue)) : Tail(queue)[i] = queue[i + 1]
  BY HeadTailProperties
<1>2. \A i \in 1..Len(Tail(queue)) : i + 1 \in DOMAIN queue
  BY <1>1
<1>3. DOMAIN Tail(queue) = 1..Len(Tail(queue))
  BY <1>1
<1> QED  BY <1>1, <1>2, <1>3 DEF Once

\* One more at the end.
LEMMA OneMore ==
  ASSUME NEW S, NEW queue \in Seq(S), Once(queue), NEW x \in S, x \notin Listed(queue)
  PROVE  /\ Append(queue, x) \in Seq(S) /\ Once(Append(queue, x))
         /\ Listed(Append(queue, x)) = Listed(queue) \cup {x}
<1>1. /\ Append(queue, x) \in Seq(S) /\ DOMAIN Append(queue, x) = 1..(Len(queue) + 1)
      /\ \A i \in 1..Len(queue) : Append(queue, x)[i] = queue[i]
      /\ Append(queue, x)[Len(queue) + 1] = x
  BY AppendProperties
<1>2. \A i \in 1..Len(queue) : queue[i] # x
  BY DEF Listed
<1> QED  BY <1>1, <1>2 DEF Once, Listed

\* Applying a command that is valid leaves a snapshot that holds together.
LEMMA AppliedHolds ==
  ASSUME Holds(snapshot, tracks), tracks \in Nat, tracks + 1 <= MaxKeys,
         NEW c \in Dev!PlayerCommands, Dev!ValidCommand(c)
  PROVE  /\ Holds(Dev!Applied(c), IF c.type = "EnqueueMedia" THEN tracks + 1 ELSE tracks)
         /\ Dev!Applied(c).revision = snapshot.revision
<1> DEFINE s == snapshot
<1>1. s \in Shots(tracks) /\ s.upcoming \in Seq(1..tracks) /\ Once(s.upcoming)
      /\ s.current \in (1..tracks) \cup {NoTrack} /\ s.revision \in Nat
  BY DEF Holds, Shots
<1>2. tracks \in 0..MaxKeys /\ tracks + 1 \in 0..MaxKeys /\ NoTrack \notin 1..tracks
      /\ NoTrack \notin 1..(tracks + 1)
  BY Limits
<1>3. Listed(s.upcoming) \subseteq 1..tracks
  BY <1>1 DEF Listed
<1>4. CASE c.type = "EnqueueMedia"
  <2>1. s.upcoming \in Seq(1..(tracks + 1)) /\ s.current \in (1..(tracks + 1)) \cup {NoTrack}
    <3>1. 1..tracks \subseteq 1..(tracks + 1)
      BY <1>2
    <3> QED  BY <1>1, <3>1, SeqMonotonic
  <2>2. tracks + 1 \in 1..(tracks + 1) /\ tracks + 1 \notin Listed(s.upcoming)
        /\ tracks + 1 # NoTrack /\ tracks + 1 # s.current
    BY <1>1, <1>2, <1>3
  <2>3. CASE s.current = NoTrack
    <3>1. Dev!Applied(c) = [s EXCEPT !.current = tracks + 1, !.state = "Playing"]
      BY <1>4, <2>3 DEF Dev!Applied
    <3> QED  BY <1>1, <1>4, <2>1, <2>2, <3>1, Zenon DEF Holds, Shots, Dev!States
  <2>4. CASE s.current # NoTrack
    <3>1. Dev!Applied(c) = [s EXCEPT !.upcoming = Append(s.upcoming, tracks + 1)]
      BY <1>4, <2>4 DEF Dev!Applied
    <3>2. PICK q : q = Append(s.upcoming, tracks + 1)
      BY Zenon
    <3>3. q \in Seq(1..(tracks + 1)) /\ Once(q) /\ Listed(q) = Listed(s.upcoming) \cup {tracks + 1}
      BY <1>1, <2>1, <2>2, <3>2, OneMore
    <3> QED  BY <1>1, <1>4, <2>1, <2>2, <3>1, <3>2, <3>3, Zenon DEF Holds, Shots
  <2> QED  BY <2>3, <2>4
<1>5. CASE c.type \in {"Play", "Pause"}
  <2>1. PICK st \in {"Playing", "Paused"} : Dev!Applied(c) = [s EXCEPT !.state = st]
    BY <1>5 DEF Dev!Applied
  <2>2. s.state \in {"Playing", "Paused"}
    BY <1>5 DEF Dev!ValidCommand
  <2> QED  BY <1>1, <1>5, <2>1, <2>2, Zenon DEF Holds, Shots, Dev!States
<1>6. CASE c.type \in {"Stop", "Disconnect"}
  <2>1. PICK st \in {"IdleConnected", "Disconnected"} :
          Dev!Applied(c) = [s EXCEPT !.state = st, !.current = NoTrack, !.upcoming = <<>>, !.previous = FALSE]
    BY <1>6 DEF Dev!Applied, Dev!Cleared
  <2> QED  BY <1>1, <1>6, <2>1, EmptyQueue, Zenon DEF Holds, Shots, Dev!States
<1>7. CASE c.type \in {"Skip", "Previous"}
  <2>1. PICK q : q = IF s.upcoming = <<>> THEN s.upcoming ELSE Tail(s.upcoming)
    BY Zenon
  <2>2. q \in Seq(1..tracks) /\ Once(q)
    BY <1>1, <2>1, FirstGone, Zenon
  <2>3. Listed(q) \subseteq 1..tracks
    BY <2>2 DEF Listed
  <2>4. Dev!Applied(c) = [s EXCEPT !.current = NoTrack, !.state = "Loading", !.upcoming = q]
    BY <1>7, <2>1 DEF Dev!Applied
  <2> QED  BY <1>1, <1>2, <1>7, <2>2, <2>3, <2>4, Zenon DEF Holds, Shots, Dev!States
<1>8. CASE c.type = "RemoveQueued"
  <2>1. c.track \in Listed(s.upcoming)
    BY <1>8 DEF Dev!ValidCommand, Dev!Queued, Dev!Range, Listed
  <2>2. PICK q : q = Dev!Without(s.upcoming, c.track)
    OBVIOUS
  <2>3. q \in Seq(1..tracks) /\ Once(q) /\ Listed(q) \subseteq Listed(s.upcoming)
    BY <1>1, <2>1, <2>2, TakenOut
  <2>4. Dev!Applied(c) = [s EXCEPT !.upcoming = q]
    BY <1>8, <2>2 DEF Dev!Applied
  <2> QED  BY <1>1, <1>8, <2>3, <2>4, Zenon DEF Holds, Shots
<1>9. CASE c.type = "MoveQueued"
  <2>1. c.track \in Listed(s.upcoming)
    BY <1>9 DEF Dev!ValidCommand, Dev!Queued, Dev!Range, Listed
  <2>2. PICK q : q = Dev!Moved(s.upcoming, c.track, c.before)
    OBVIOUS
  <2>3. q \in Seq(1..tracks) /\ Once(q) /\ Listed(q) \subseteq Listed(s.upcoming)
    <3>1. CASE c.before = c.track
      BY <1>1, <2>2, <3>1 DEF Dev!Moved
    <3>2. CASE c.before # c.track
      <4>1. PICK rest : rest = Dev!Without(s.upcoming, c.track)
        OBVIOUS
      <4>2. rest \in Seq(1..tracks) /\ Once(rest) /\ Listed(rest) = Listed(s.upcoming) \ {c.track}
        BY <1>1, <2>1, <4>1, TakenOut
      <4>3. PICK n : n = IF c.before \in Dev!Range(rest) THEN Dev!Place(rest, c.before)
                         ELSE Len(rest) + 1
        OBVIOUS
      <4>4. n \in 1..(Len(rest) + 1)
        <5>1. CASE c.before \in Dev!Range(rest)
          <6>1. \E i \in DOMAIN rest : rest[i] = c.before
            BY <5>1 DEF Dev!Range
          <6>2. n \in DOMAIN rest
            BY <4>3, <5>1, <6>1 DEF Dev!Place
          <6> QED  BY <4>2, <6>2
        <5>2. CASE c.before \notin Dev!Range(rest)
          BY <4>2, <4>3, <5>2
        <5> QED  BY <5>1, <5>2
      <4>5. q = Dev!Inserted(rest, n, c.track)
        BY <2>2, <3>2, <4>1, <4>3 DEF Dev!Moved
      <4> QED  BY <1>3, <2>1, <4>2, <4>4, <4>5, PutIn
    <3> QED  BY <3>1, <3>2
  <2>4. Dev!Applied(c) = [s EXCEPT !.upcoming = q]
    BY <1>9, <2>2 DEF Dev!Applied
  <2> QED  BY <1>1, <1>9, <2>3, <2>4, Zenon DEF Holds, Shots
<1>10. CASE c.type \in {"Seek", "Set"}
  <2>1. Dev!Applied(c) = s
    BY <1>10 DEF Dev!Applied
  <2> QED  BY <1>10, <2>1
<1> QED  BY <1>4, <1>5, <1>6, <1>7, <1>8, <1>9, <1>10, CommandForms DEF Kinds, Dev!Simple

LEMMA DevCardinality == \A S : Dev!Cardinality(S) = Cardinality(S)
BY Zenon DEF Dev!Cardinality, Cardinality

\* An admission charges one command, a refusal none.
LEMMA CountKeeps ==
  ASSUME ChargeInv, NEW a \in Actors, Dev!Count(a)
  PROVE  ChargeInv'
<1>1. actors \in [Actors -> 0..ActorLimit] /\ guild \in 0..GuildLimit
      /\ guild = Cardinality(Dev!Charges)
  BY DEF ChargeInv
<1>2. CASE Dev!Admitted(a)
  <2>1. actors' = [actors EXCEPT ![a] = actors[a] + 1] /\ guild' = guild + 1
    BY <1>2 DEF Dev!Count
  <2>2. actors[a] < ActorLimit /\ guild < GuildLimit
    BY <1>2 DEF Dev!Admitted
  <2>3. actors[a] \in 0..ActorLimit /\ actors[a] + 1 \in 1..ActorLimit /\ guild + 1 \in 0..GuildLimit
    BY <1>1, <2>2, Limits
  <2>4. Dev!Charges' = Dev!Charges \cup {<<a, actors[a] + 1>>}
    <3>1. ASSUME NEW c \in Actors \X (1..ActorLimit)
          PROVE  c[2] <= actors'[c[1]] <=> c[2] <= actors[c[1]] \/ c = <<a, actors[a] + 1>>
      <4>1. PICK b \in Actors, n \in 1..ActorLimit : c = <<b, n>>
        OBVIOUS
      <4>2. CASE b = a
        BY <1>1, <2>1, <2>3, <4>1, <4>2
      <4>3. CASE b # a
        BY <1>1, <2>1, <4>1, <4>3
      <4> QED  BY <4>2, <4>3
    <3> QED  BY <2>3, <3>1 DEF Dev!Charges
  <2>5. <<a, actors[a] + 1>> \notin Dev!Charges
    BY <2>3 DEF Dev!Charges
  <2>6. IsFiniteSet(Dev!Charges)
    <3>1. IsFiniteSet(1..ActorLimit)
      BY Limits, FS_Interval
    <3>2. IsFiniteSet(Actors \X (1..ActorLimit))
      BY <3>1, Limits, FS_Product, Zenon
    <3>3. Dev!Charges \subseteq Actors \X (1..ActorLimit)
      BY DEF Dev!Charges
    <3> QED  BY <3>2, <3>3, FS_Subset
  <2>7. Cardinality(Dev!Charges') = Cardinality(Dev!Charges) + 1
    BY <2>4, <2>5, <2>6, FS_AddElement, Zenon
  <2>8. actors' \in [Actors -> 0..ActorLimit]
    BY <1>1, <2>1, <2>3
  <2> QED  BY <1>1, <2>1, <2>3, <2>7, <2>8 DEF ChargeInv
<1>3. CASE ~Dev!Admitted(a)
  <2>1. UNCHANGED <<actors, guild>>
    BY <1>3 DEF Dev!Count
  <2> QED  BY <1>1, <2>1 DEF ChargeInv, Dev!Charges
<1> QED  BY <1>2, <1>3

\* A command that is applied: the snapshot, its receipt and its event.
LEMMA AcceptedKeeps ==
  ASSUME Holds(snapshot, tracks), ReceiptInv, NEW k \in 1..MaxKeys, k = Len(receipts) + 1,
         NEW c \in Dev!PlayerCommands, Dev!ValidCommand(c), NEW changed \in BOOLEAN,
         c.type # "MoveQueued" => changed,
         snapshot' = [Dev!Applied(c) EXCEPT !.revision = IF changed THEN @ + 1 ELSE @],
         receipts' = Append(receipts, [type |-> c.type, revision |-> snapshot'.revision]),
         event' = IF changed THEN snapshot'.revision ELSE event,
         tracks' = IF c.type = "EnqueueMedia" THEN tracks + 1 ELSE tracks
  PROVE  Holds(snapshot, tracks)' /\ ReceiptInv'
<1>1. /\ receipts \in Seq(Receipts) /\ tracks \in Nat /\ tracks <= Len(receipts)
      /\ snapshot.revision \in Nat /\ event = snapshot.revision
  BY DEF ReceiptInv, Holds, Shots
<1>2. tracks + 1 <= MaxKeys
  BY <1>1, Limits
<1>3. PICK next : next = Dev!Applied(c)
  OBVIOUS
<1>4. Holds(next, tracks') /\ next.revision = snapshot.revision
  BY <1>1, <1>2, <1>3, AppliedHolds
<1>5. PICK n : n = IF changed THEN snapshot.revision + 1 ELSE snapshot.revision
  OBVIOUS
<1>6. n \in Nat /\ snapshot.revision <= n /\ (changed => snapshot.revision < n)
  BY <1>1, <1>5
<1>7. snapshot' = [next EXCEPT !.revision = n]
  BY <1>3, <1>4, <1>5
<1>8. /\ snapshot' \in Shots(tracks') /\ snapshot'.revision = n
      /\ snapshot'.state = next.state /\ snapshot'.current = next.current
      /\ snapshot'.upcoming = next.upcoming
  BY <1>4, <1>6, <1>7, Zenon DEF Holds, Shots
<1>9. Holds(snapshot, tracks)'
  BY <1>4, <1>8 DEF Holds
<1>10. c.type \in Kinds
  BY CommandForms
<1>11. PICK e : e = [type |-> c.type, revision |-> n]
  BY Zenon
<1>12. e \in Receipts /\ e.revision = n /\ e.type = c.type
  BY <1>6, <1>10, <1>11 DEF Receipts
<1>13. /\ receipts' \in Seq(Receipts) /\ Len(receipts') = Len(receipts) + 1
       /\ \A j \in 1..Len(receipts) : receipts'[j] = receipts[j]
       /\ receipts'[Len(receipts) + 1] = e
       /\ DOMAIN receipts' = 1..(Len(receipts) + 1) /\ DOMAIN receipts = 1..Len(receipts)
  <2>1. receipts' = Append(receipts, e)
    BY <1>8, <1>11
  <2> QED  BY <1>1, <1>12, <2>1, AppendProperties
<1>14. \A j \in DOMAIN receipts : receipts[j].revision \in Nat /\ receipts[j].revision <= snapshot.revision
  <2>1. \A j \in DOMAIN receipts : receipts[j] \in Receipts
    BY <1>1, <1>13
  <2> QED  BY <2>1 DEF ReceiptInv, Receipts
<1>15. \A j \in DOMAIN receipts' : receipts'[j].revision <= n
  <2>1. ASSUME NEW j \in DOMAIN receipts' PROVE receipts'[j].revision <= n
    <3>1. CASE j = Len(receipts) + 1
      BY <1>6, <1>12, <1>13, <3>1
    <3>2. CASE j \in 1..Len(receipts)
      BY <1>1, <1>6, <1>13, <1>14, <3>2
    <3> QED  BY <1>13, <3>1, <3>2
  <2> QED  BY <2>1
<1>16. ASSUME NEW j \in DOMAIN receipts', NEW l \in DOMAIN receipts', j < l,
              receipts'[l].type # "MoveQueued"
       PROVE  receipts'[j].revision < receipts'[l].revision
  <2>1. j \in 1..Len(receipts) /\ receipts'[j] = receipts[j]
    BY <1>1, <1>13, <1>16
  <2>2. CASE l \in 1..Len(receipts)
    BY <1>13, <1>16, <2>1, <2>2 DEF ReceiptInv
  <2>3. CASE l = Len(receipts) + 1
    <3>1. receipts'[l].revision = n /\ snapshot.revision < n
      BY <1>6, <1>12, <1>13, <1>16, <2>3
    <3>2. receipts[j].revision \in Nat /\ receipts[j].revision <= snapshot.revision
      BY <1>13, <1>14, <2>1
    <3> QED  BY <1>1, <1>6, <2>1, <3>1, <3>2
  <2> QED  BY <1>13, <2>2, <2>3
<1>17. event' = n
  BY <1>1, <1>5, <1>8
<1>18. tracks' \in Nat /\ tracks' <= Len(receipts) + 1 /\ Len(receipts) + 1 <= MaxKeys
  BY <1>1, Limits
<1> QED  BY <1>8, <1>9, <1>13, <1>15, <1>16, <1>17, <1>18 DEF ReceiptInv

LEMMA DevStep == DevInv /\ [Dev!Next]_devVars => DevInv'
<1> SUFFICES ASSUME DevInv, [Dev!Next]_devVars PROVE DevInv'
  OBVIOUS
<1>1. CASE UNCHANGED devVars
  BY <1>1 DEF devVars, DevInv, Holds, ReceiptInv, ChargeInv, Dev!Charges
<1>2. CASE Dev!NextWindow
  <2>1. /\ actors' = [a \in Actors |-> 0] /\ guild' = 0
        /\ UNCHANGED <<snapshot, receipts, event, tracks>>
    BY <1>2 DEF Dev!NextWindow
  <2>2. Dev!Charges' = {}
    BY <2>1 DEF Dev!Charges
  <2>3. 0 \in 0..ActorLimit /\ 0 \in 0..GuildLimit
    BY Limits
  <2>4. ChargeInv'
    BY <2>1, <2>2, <2>3, FS_EmptySet DEF ChargeInv
  <2> QED  BY <2>1, <2>4 DEF DevInv, Holds, ReceiptInv
<1>3. ASSUME NEW a \in Actors, NEW k \in 1..MaxKeys \cap {1, Len(receipts) + 1},
             NEW c \in Dev!PlayerCommands, NEW e \in {0, snapshot.revision}, Dev!Route(a, k, e, c)
      PROVE  DevInv'
  <2>1. ChargeInv'
    BY <1>3, CountKeeps DEF DevInv, Dev!Route
  <2>2. CASE Dev!Admitted(a) /\ Dev!Fresh(k) /\ e = snapshot.revision /\ Dev!ValidCommand(c)
    <3>1. k = Len(receipts) + 1 /\ k \in 1..MaxKeys
      <4>1. k > Len(receipts) /\ Len(receipts) \in Nat
        BY <2>2 DEF Dev!Fresh, DevInv, ReceiptInv
      <4> QED  BY <1>3, <4>1
    <3>2. PICK changed \in BOOLEAN : changed <=> c.type # "MoveQueued" \/ Dev!Applied(c) # snapshot
      BY Zenon
    <3>3. /\ snapshot' = [Dev!Applied(c) EXCEPT !.revision = IF changed THEN @ + 1 ELSE @]
          /\ receipts' = Append(receipts, [type |-> c.type, revision |-> snapshot'.revision])
          /\ event' = IF changed THEN snapshot'.revision ELSE event
          /\ tracks' = IF c.type = "EnqueueMedia" THEN tracks + 1 ELSE tracks
      BY <1>3, <2>2, <3>2, Zenon DEF Dev!Route
    <3> QED  BY <2>1, <2>2, <3>1, <3>2, <3>3, AcceptedKeeps DEF DevInv
  <2>3. CASE ~(Dev!Admitted(a) /\ Dev!Fresh(k) /\ e = snapshot.revision /\ Dev!ValidCommand(c))
    <3>1. UNCHANGED <<snapshot, receipts, event, tracks>>
      BY <1>3, <2>3 DEF Dev!Route
    <3> QED  BY <2>1, <3>1 DEF DevInv, Holds, ReceiptInv
  <2> QED  BY <2>2, <2>3
<1> QED  BY <1>1, <1>2, <1>3 DEF Dev!Next

LEMMA DevStart == Dev!Init => DevInv
<1> SUFFICES ASSUME Dev!Init PROVE DevInv
  OBVIOUS
<1>1. /\ snapshot = [state |-> "IdleConnected", current |-> NoTrack, upcoming |-> <<>>,
                     previous |-> FALSE, revision |-> 0]
      /\ receipts = <<>> /\ actors = [a \in Actors |-> 0] /\ guild = 0 /\ event = 0 /\ tracks = 0
  BY DEF Dev!Init
<1>2. Holds(snapshot, tracks)
  BY <1>1, EmptyQueue DEF Holds, Shots, Dev!States
<1>3. ReceiptInv
  BY <1>1, Limits DEF ReceiptInv
<1>4. ChargeInv
  <2>1. Dev!Charges = {}
    BY <1>1 DEF Dev!Charges
  <2>2. 0 \in 0..ActorLimit /\ 0 \in 0..GuildLimit
    BY Limits
  <2> QED  BY <1>1, <2>1, <2>2, FS_EmptySet DEF ChargeInv
<1> QED  BY <1>2, <1>3, <1>4 DEF DevInv

LEMMA DevPromise ==
  ASSUME DevInv
  PROVE  Dev!TypeOK /\ Dev!SnapshotIsSound /\ Dev!AdmissionIsExact
<1>1. /\ snapshot \in Shots(tracks) /\ Once(snapshot.upcoming)
      /\ snapshot.current \notin Listed(snapshot.upcoming)
      /\ (snapshot.state \in {"Playing", "Paused"} <=> snapshot.current # NoTrack)
  BY DEF DevInv, Holds
<1>2. 1..tracks \subseteq Dev!Tracks
  BY Limits DEF DevInv, ReceiptInv
<1>3. snapshot.upcoming \in Seq(Dev!Tracks)
  BY <1>1, <1>2, SeqMonotonic, Zenon DEF Shots
<1>4. Dev!TypeOK
  BY <1>1, <1>2, <1>3 DEF DevInv, ChargeInv, Dev!TypeOK, Shots
<1>5. Dev!SnapshotIsSound
  <2>1. Dev!IsInjective(snapshot.upcoming)
    BY <1>1, Zenon DEF Once, Dev!IsInjective
  <2>2. ~Dev!Queued(snapshot.current)
    BY <1>1 DEF Dev!Queued, Dev!Range, Listed
  <2> QED  BY <1>1, <2>1, <2>2 DEF DevInv, ReceiptInv, Dev!SnapshotIsSound
<1>6. Dev!AdmissionIsExact
  BY DevCardinality DEF DevInv, ChargeInv, Dev!AdmissionIsExact
<1> QED  BY <1>4, <1>5, <1>6

-----------------------------------------------------------------------------
(* Sorting.                                                                *)

\* What comes before x of S in a relation.
Below(S, rel, x) == {y \in S : <<y, x>> \in rel}

\* rel is a strict total order of S.
Orders(rel, S) ==
  /\ \A x \in S : <<x, x>> \notin rel
  /\ \A x, y, z \in S : <<x, y>> \in rel /\ <<y, z>> \in rel => <<x, z>> \in rel
  /\ \A x, y \in S : x = y \/ <<x, y>> \in rel \/ <<y, x>> \in rel

\* What comes before has fewer before it.
LEMMA BelowGrows ==
  ASSUME NEW S, IsFiniteSet(S), NEW rel, Orders(rel, S), NEW x \in S, NEW y \in S
  PROVE  /\ IsFiniteSet(Below(S, rel, x)) /\ Cardinality(Below(S, rel, x)) \in 0..(Cardinality(S) - 1)
         /\ <<x, y>> \in rel <=> Cardinality(Below(S, rel, x)) < Cardinality(Below(S, rel, y))
<1> DEFINE B(z) == Below(S, rel, z)
<1>1. ASSUME NEW z \in S
      PROVE  IsFiniteSet(B(z)) /\ Cardinality(B(z)) \in Nat /\ Cardinality(B(z)) < Cardinality(S)
  <2>1. B(z) \in SUBSET (S \ {z})
    BY DEF Below, Orders
  <2>2. IsFiniteSet(S \ {z}) /\ Cardinality(S \ {z}) = Cardinality(S) - 1
    BY FS_RemoveElement
  <2>3. IsFiniteSet(B(z)) /\ Cardinality(B(z)) <= Cardinality(S \ {z})
    BY <2>1, <2>2, FS_Subset
  <2> QED  BY <2>2, <2>3, FS_CardinalityType
<1>2. ASSUME NEW u \in S, NEW v \in S, <<u, v>> \in rel
      PROVE  Cardinality(B(u)) < Cardinality(B(v))
  <2>1. B(u) \in SUBSET B(v)
    BY <1>2 DEF Below, Orders
  <2>2. B(u) # B(v)
    BY <1>2, Zenon DEF Below, Orders
  <2>3. /\ Cardinality(B(u)) <= Cardinality(B(v))
        /\ Cardinality(B(v)) = Cardinality(B(u)) => B(u) = B(v)
    BY <1>1, <2>1, FS_Subset
  <2> QED  BY <1>1, <2>2, <2>3
<1>3. Cardinality(S) \in Nat
  BY FS_CardinalityType
<1>4. ~(<<x, y>> \in rel) => ~(Cardinality(B(x)) < Cardinality(B(y)))
  <2>1. x = y \/ <<x, y>> \in rel \/ <<y, x>> \in rel
    BY DEF Orders
  <2>2. <<y, x>> \in rel => Cardinality(B(y)) < Cardinality(B(x))
    BY <1>2
  <2> QED  BY <1>1, <2>1, <2>2
<1> QED  BY <1>1, <1>2, <1>3, <1>4

\* Each of 1..n is the place of one of n things in their order.
LEMMA PlacesAreTaken ==
  ASSUME NEW S, IsFiniteSet(S), NEW rel, Orders(rel, S), NEW n \in 1..Cardinality(S)
  PROVE  \E x \in S : Cardinality(Below(S, rel, x)) = n - 1
<1> DEFINE seat == [x \in S |-> Cardinality(Below(S, rel, x)) + 1]
<1>1. Cardinality(S) \in Nat
  BY FS_CardinalityType
<1>2. \A x \in S : Cardinality(Below(S, rel, x)) \in 0..(Cardinality(S) - 1)
  BY BelowGrows, Zenon
<1>3. seat \in [S -> 1..Cardinality(S)]
  BY <1>1, <1>2
<1>4. \A x, y \in S : seat[x] = seat[y] => x = y
  <2> SUFFICES ASSUME NEW x \in S, NEW y \in S, seat[x] = seat[y], x # y PROVE FALSE
    OBVIOUS
  <2>1. <<x, y>> \in rel \/ <<y, x>> \in rel
    BY DEF Orders
  <2>2. /\ <<x, y>> \in rel => Cardinality(Below(S, rel, x)) < Cardinality(Below(S, rel, y))
        /\ <<y, x>> \in rel => Cardinality(Below(S, rel, y)) < Cardinality(Below(S, rel, x))
    BY BelowGrows
  <2> QED  BY <1>2, <2>1, <2>2
<1>5. seat \in Injection(S, 1..Cardinality(S))
  BY <1>3, <1>4, Fun_IsInj, Zenon
<1>6. IsFiniteSet(1..Cardinality(S)) /\ Cardinality(1..Cardinality(S)) = Cardinality(S)
  BY <1>1, FS_Interval
<1>7. seat \in Surjection(S, 1..Cardinality(S))
  BY <1>5, <1>6, FS_Injection
<1>8. PICK x \in S : seat[x] = n
  BY <1>7, Zenon DEF Surjection
<1> QED  BY <1>2, <1>8

\* A set of numbers has a least one.
LEMMA LeastExists ==
  ASSUME NEW S, IsFiniteSet(S), S \subseteq Int, S # {}
  PROVE  \E x \in S : \A y \in S : x <= y
<1> DEFINE rel == {p \in S \X S : p[1] < p[2]}
<1>1. Orders(rel, S)
  BY DEF Orders
<1>2. Cardinality(S) \in Nat /\ Cardinality(S) # 0
  BY FS_CardinalityType, FS_EmptySet
<1>3. 1 \in 1..Cardinality(S)
  BY <1>2
<1> HIDE DEF rel
<1>4. PICK x \in S : Cardinality(Below(S, rel, x)) = 1 - 1
  BY <1>1, <1>3, PlacesAreTaken, Zenon
<1>5. IsFiniteSet(Below(S, rel, x))
  BY <1>1, BelowGrows, Zenon
<1>6. Below(S, rel, x) = {}
  BY <1>4, <1>5, FS_EmptySet
<1>7. ASSUME NEW y \in S PROVE x <= y
  <2>1. <<y, x>> \notin rel
    BY <1>6 DEF Below
  <2> QED  BY <2>1 DEF rel
<1> QED  BY <1>7

-----------------------------------------------------------------------------
(* The media resolver.                                                     *)

LEMMA ResolverCardinality == \A S : Resolver!Cardinality(S) = Cardinality(S)
  BY Zenon DEF Resolver!Cardinality, Cardinality

LEMMA UpTo == ASSUME NEW n \in Nat PROVE IsFiniteSet(1..n) /\ Cardinality(1..n) = n
<1>1. IsFiniteSet(1..n) /\ Cardinality(1..n) = IF 1 > n THEN 0 ELSE n - 1 + 1
  BY FS_Interval
<1> QED  BY <1>1

\* What was drained is sorted: the same tracks, ascending as none is there twice.
LEMMA TakenInOrder ==
  ASSUME NEW c, NEW s \in Seq(1..MaxEntries), completed[c] = s, Once(s), MaxEntries \in Nat
  PROVE  LET t == Resolver!TakeOrdered(c)
         IN /\ t \in Seq(1..MaxEntries) /\ Len(t) = Len(s) /\ Listed(t) \subseteq Listed(s)
            /\ \A j, k \in 1..Len(t) : j < k => t[j] < t[k]
<1> DEFINE D   == 1..Len(s)
           rel == {p \in D \X D : s[p[1]] < s[p[2]] \/ (s[p[1]] = s[p[2]] /\ p[1] < p[2])}
           t   == Resolver!TakeOrdered(c)
<1>1. DOMAIN s = D /\ \A k \in D : s[k] \in 1..MaxEntries
  OBVIOUS
<1>2. \A j, k \in D : <<j, k>> \in rel <=> s[j] < s[k] \/ (s[j] = s[k] /\ j < k)
  OBVIOUS
<1>3. IsFiniteSet(D) /\ Cardinality(D) = Len(s)
  <2>1. Len(s) \in Nat
    OBVIOUS
  <2> QED  BY <2>1, UpTo
<1>4. Orders(rel, D)
  <2> HIDE DEF rel
  <2>1. \A x \in D : x \in Int /\ s[x] \in Int
    BY <1>1
  <2> HIDE DEF D, rel, t
  <2>2. \A x \in D : <<x, x>> \notin rel
    BY <1>2, <2>1
  <2>3. ASSUME NEW x \in D, NEW y \in D, NEW z \in D, <<x, y>> \in rel, <<y, z>> \in rel
        PROVE  <<x, z>> \in rel
    <3>1. s[x] < s[y] \/ (s[x] = s[y] /\ x < y)
      BY <1>2, <2>3
    <3>2. s[y] < s[z] \/ (s[y] = s[z] /\ y < z)
      BY <1>2, <2>3
    <3>3. s[x] < s[z] \/ (s[x] = s[z] /\ x < z)
      BY <2>1, <3>1, <3>2
    <3> QED  BY <1>2, <3>3
  <2>4. ASSUME NEW x \in D, NEW y \in D PROVE x = y \/ <<x, y>> \in rel \/ <<y, x>> \in rel
    <3>1. s[x] < s[y] \/ s[y] < s[x] \/ s[x] = s[y]
      BY <2>1
    <3>2. x < y \/ y < x \/ x = y
      BY <2>1
    <3> QED  BY <1>2, <3>1, <3>2
  <2> QED  BY <2>2, <2>3, <2>4 DEF Orders
<1>5. ASSUME NEW n \in D
      PROVE  \E j \in D : t[n] = s[j] /\ Cardinality(Below(D, rel, j)) = n - 1
  <2> DEFINE Before(j) == {k \in DOMAIN s : s[k] < s[j] \/ (s[k] = s[j] /\ k < j)}
             At(j) == Resolver!Cardinality(Before(j)) = n - 1
  <2>1. ASSUME NEW j \in D PROVE Before(j) = Below(D, rel, j)
    BY <1>1, <1>2, Zenon DEF Below
  <2>2. ASSUME NEW j \in D PROVE At(j) <=> Cardinality(Below(D, rel, j)) = n - 1
    BY <2>1, ResolverCardinality, Zenon
  <2>3. \E j \in D : Cardinality(Below(D, rel, j)) = n - 1
    <3> HIDE DEF rel
    <3> QED  BY <1>3, <1>4, PlacesAreTaken
  <2>4. t[n] = s[CHOOSE j \in DOMAIN s : At(j)]
    <3>1. n \in 1..Resolver!Cardinality(DOMAIN s)
      BY <1>1, <1>3, ResolverCardinality
    <3> QED  BY <1>1, <3>1 DEF Resolver!TakeOrdered, Resolver!Sorted
  <2> HIDE DEF At, Before
  <2>5. PICK j \in D : j = CHOOSE x \in DOMAIN s : At(x)
    BY <1>1, <2>2, <2>3
  <2>6. At(j)
    BY <1>1, <2>2, <2>3, <2>5, Zenon
  <2> QED  BY <2>2, <2>4, <2>5, <2>6, Zenon
<1>6. DOMAIN t = D
  BY <1>1 DEF Resolver!TakeOrdered
<1>7. ASSUME NEW j \in D, NEW k \in D, j < k PROVE t[j] < t[k]
  <2>1. PICK a \in D : t[j] = s[a] /\ Cardinality(Below(D, rel, a)) = j - 1
    BY <1>5, Zenon
  <2>2. PICK b \in D : t[k] = s[b] /\ Cardinality(Below(D, rel, b)) = k - 1
    BY <1>5, Zenon
  <2> HIDE DEF rel
  <2>3. <<a, b>> \in rel
    <3>1. <<a, b>> \in rel <=> Cardinality(Below(D, rel, a)) < Cardinality(Below(D, rel, b))
      BY <1>3, <1>4, BelowGrows, Zenon
    <3> QED  BY <1>7, <2>1, <2>2, <3>1
  <2>4. a # b
    BY <1>7, <2>1, <2>2
  <2>5. s[a] # s[b]
    BY <1>1, <2>4, Zenon DEF Once
  <2> QED  BY <1>2, <2>1, <2>2, <2>3, <2>5, Zenon
<1>8. t \in Seq(1..MaxEntries) /\ Len(t) = Len(s)
  <2>1. t = [n \in D |-> t[n]]
    BY <1>1 DEF Resolver!TakeOrdered
  <2>2. \A n \in D : t[n] \in 1..MaxEntries
    BY <1>1, <1>5, Zenon
  <2> HIDE DEF t
  <2>3. t \in [D -> 1..MaxEntries]
    BY <2>1, <2>2
  <2> QED  BY <2>3
<1>9. Listed(t) \subseteq Listed(s)
  <2> HIDE DEF t
  <2> SUFFICES ASSUME NEW n \in D PROVE t[n] \in Listed(s)
    BY <1>6 DEF Listed
  <2> QED  BY <1>1, <1>5, Zenon DEF Listed
<1> QED  BY <1>7, <1>8, <1>9

Jobs   == {m1, m2}
Places == 1..MaxEntries
Stages == {"pending", "admission", "site", "ingest", "ended"}
Flying == {"admission", "site", "ingest"}
Causes == {"PlaylistTooLarge", "UnsupportedStream", "NoSearchMatch", "TrackLimitExceeded",
           "UnsupportedUrl", "CapacityExceeded", "UnsupportedAttachment", "Failed", "Busy",
           "TimedOut", "cancelled"}
Resolutions == [pc : {"idle", "discover", "run", "failed", "resolved"},
                kind : {"none", "direct", "single", "site", "catalog"},
                entries : 0..MaxEntries, found : Nat, fatal : Causes \cup {"none"},
                skip : Causes \cup {"none"}, skipped : Nat, tracks : Seq(Places)]

ResolveTyped ==
  /\ call \in [Jobs -> Resolutions]
  /\ items \in [Jobs -> [Places -> Stages]]
  /\ completed \in [Jobs -> Seq(Places)]
  /\ leased \subseteq Jobs \X Places
  /\ permits \in Nat /\ batches \in Nat

\* The entries of a call whose futures have ended.
EndedOf(c) == {i \in Places : items[c][i] = "ended"}

\* A batch under way accounts for what ended: each entry is a leased track, or has
\* been skipped, unless an item failed them all; and while an entry waits for its
\* turn another is under way.
RunInv(c) ==
  /\ call[c].entries >= 1 /\ call[c].kind # "none"
  /\ \A i \in Places : i > call[c].entries => items[c][i] = "pending"
  /\ call[c].kind = "direct" => call[c].entries = 1 /\ items[c][1] \in {"ingest", "ended"}
  /\ Once(completed[c])
  /\ \A i \in Listed(completed[c]) : items[c][i] = "ended" /\ <<c, i>> \in leased
  /\ call[c].found >= call[c].entries
  /\ call[c].skipped >= call[c].found - call[c].entries
  /\ call[c].fatal = "none" =>
       /\ Cardinality(EndedOf(c)) + (call[c].found - call[c].entries)
            = Len(completed[c]) + call[c].skipped
       /\ call[c].skipped > call[c].found - call[c].entries => call[c].skip # "none"
       /\ (\E i \in 1..call[c].entries : items[c][i] = "pending") =>
            \E i \in Places : items[c][i] \in Flying

BatchWhole(c) ==
  /\ \A j, k \in 1..Len(call[c].tracks) : j < k => call[c].tracks[j] < call[c].tracks[k]
  /\ call[c].tracks # <<>> /\ \A k \in 1..Len(call[c].tracks) : <<c, call[c].tracks[k]>> \in leased
  /\ Len(call[c].tracks) + call[c].skipped = call[c].found

CallInv(c) ==
  /\ call[c].pc # "run" => items[c] = [i \in Places |-> "pending"] /\ completed[c] = <<>>
  /\ call[c].pc \in {"idle", "discover", "failed"} => \A t \in leased : t[1] # c
  /\ call[c].pc = "failed" => call[c].fatal # "none"
  /\ call[c].pc = "discover" => /\ call[c].fatal = "none" /\ call[c].skip = "none"
                                /\ call[c].kind \in {"site", "catalog"}
  /\ call[c].pc = "run" => RunInv(c)
  /\ call[c].pc = "resolved" => BatchWhole(c)

\* Who holds the permits that are not free.
Holders == {h \in Jobs \X Places : /\ items[h[1]][h[2]] \in {"site", "ingest"}
                                   /\ call[h[1]].kind # "direct"}
Busy    == {c \in Jobs : call[c].pc \in {"discover", "run"} /\ call[c].kind # "direct"}

ResolveInv ==
  /\ ResolveTyped
  /\ \A c \in Jobs : CallInv(c)
  /\ permits + Cardinality(Holders) = Admission
  /\ batches + Cardinality(Busy) = Batches

LEMMA HoldersAreFinite ==
  /\ IsFiniteSet(Jobs) /\ IsFiniteSet(Places)
  /\ IsFiniteSet(Holders) /\ Cardinality(Holders) \in Nat
  /\ IsFiniteSet(Busy) /\ Cardinality(Busy) \in Nat
<1>1. IsFiniteSet(Jobs)
  <2>1. IsFiniteSet({m1})
    BY FS_Singleton
  <2>2. Jobs = {m1} \cup {m2}
    BY DEF Jobs
  <2> QED  BY <2>1, <2>2, FS_AddElement
<1>2. IsFiniteSet(Places)
  BY ResolveAssumption, UpTo DEF Places
<1>3. IsFiniteSet(Jobs \X Places)
  BY <1>1, <1>2, FS_Product
<1>4. Holders \in SUBSET (Jobs \X Places) /\ Busy \in SUBSET Jobs
  BY DEF Holders, Busy
<1>5. IsFiniteSet(Holders) /\ IsFiniteSet(Busy)
  BY <1>1, <1>3, <1>4, FS_Subset
<1> QED  BY <1>1, <1>2, <1>5, FS_CardinalityType

\* A call of which nothing changes stays as it is.
LEMMA OtherCall ==
  ASSUME NEW c \in Jobs, CallInv(c), call'[c] = call[c], items'[c] = items[c],
         completed'[c] = completed[c],
         \A t \in Jobs \X Places : t[1] = c => (t \in leased' <=> t \in leased),
         leased \subseteq Jobs \X Places, leased' \subseteq Jobs \X Places,
         ResolveTyped
  PROVE  CallInv(c)'
<1>1. \A i \in Places : <<c, i>> \in leased => <<c, i>> \in leased'
  OBVIOUS
<1>2. (\A t \in leased : t[1] # c) => \A t \in leased' : t[1] # c
  OBVIOUS
<1>3. RunInv(c) => RunInv(c)'
  <2>1. Listed(completed[c]) \subseteq Places
    BY DEF ResolveTyped, Listed
  <2> QED  BY <1>1, <2>1 DEF RunInv, EndedOf
<1>4. call[c].pc = "resolved" /\ BatchWhole(c) => BatchWhole(c)'
  <2>1. \A k \in 1..Len(call[c].tracks) : call[c].tracks[k] \in Places
    BY DEF ResolveTyped, Resolutions
  <2> QED  BY <1>1, <2>1 DEF BatchWhole
<1> QED  BY <1>2, <1>3, <1>4 DEF CallInv

LEMMA GivenBack ==
  ASSUME NEW H, IsFiniteSet(H), NEW c, NEW P, IsFiniteSet(P), {c} \X P \subseteq H
  PROVE  Cardinality(H \ ({c} \X P)) = Cardinality(H) - Cardinality(P)
<1> DEFINE X == {c} \X P
<1>1. IsFiniteSet({c}) /\ Cardinality({c}) = 1
  BY FS_Singleton
<1>2. Cardinality(X) = 1 * Cardinality(P)
  BY <1>1, FS_Product
<1>3. Cardinality(P) \in Nat
  BY FS_CardinalityType
<1>4. Cardinality(X) = Cardinality(P)
  BY <1>2, <1>3
<1>5. H \cap X = X
  OBVIOUS
<1>6. Cardinality(H \ X) = Cardinality(H) - Cardinality(H \cap X)
  BY FS_Difference, Zenon
<1> QED  BY <1>4, <1>5, <1>6

PermittedOf(c) == {i \in Places : items[c][i] \in {"site", "ingest"} /\ call[c].kind # "direct"}

LEMMA ResolverSets ==
  /\ Resolver!Entries = Places
  /\ \A c : Resolver!Permitted(c) = PermittedOf(c)
  /\ \A c : Resolver!InFlight(c) = {i \in Places : items[c][i] \in Flying}
  BY DEF Resolver!Entries, Resolver!Permitted, Resolver!InFlight, PermittedOf, Places, Flying

LEMMA IdleCall == Resolver!Idle \in Resolutions
<1>1. 0 \in 0..MaxEntries /\ 0 \in Nat /\ <<>> \in Seq(Places)
  BY ResolveAssumption
<1> QED  BY <1>1 DEF Resolutions, Resolver!Idle

\* A dropped call gives everything back.
LEMMA DropStep ==
  ASSUME ResolveInv, NEW c \in Jobs, call[c].pc \in {"discover", "run"},
         NEW error \in Causes, Resolver!Drop(c, error)
  PROVE  ResolveInv'
<1> DEFINE pend == [i \in Places |-> "pending"]
           failed == [Resolver!Idle EXCEPT !.pc = "failed", !.fatal = error]
<1>1. /\ call' = [call EXCEPT ![c] = failed]
      /\ items' = [items EXCEPT ![c] = pend]
      /\ completed' = [completed EXCEPT ![c] = <<>>]
      /\ leased' = {t \in leased : t[1] # c}
      /\ permits' = permits + Cardinality(PermittedOf(c))
      /\ batches' = batches + (IF call[c].kind = "direct" THEN 0 ELSE 1)
  <2>1. call' = [call EXCEPT ![c] = failed]
    BY DEF Resolver!Drop
  <2>2. /\ items' = [items EXCEPT ![c] = pend]
        /\ completed' = [completed EXCEPT ![c] = <<>>]
        /\ leased' = {t \in leased : t[1] # c}
    BY DEF Resolver!Drop, Resolver!Entries, Places
  <2>3. permits' = permits + Resolver!Cardinality(Resolver!Permitted(c))
    BY DEF Resolver!Drop
  <2>4. permits' = permits + Cardinality(PermittedOf(c))
    BY <2>3, ResolverSets, ResolverCardinality
  <2>5. batches' = batches + (IF call[c].kind = "direct" THEN 0 ELSE 1)
    BY DEF Resolver!Drop
  <2> QED  BY <2>1, <2>2, <2>4, <2>5
<1>2. ResolveTyped /\ \A d \in Jobs : CallInv(d)
  BY DEF ResolveInv
<1>3. PermittedOf(c) \in SUBSET Places /\ IsFiniteSet(PermittedOf(c))
      /\ Cardinality(PermittedOf(c)) \in Nat
  BY HoldersAreFinite, FS_Subset, FS_CardinalityType DEF PermittedOf
<1>4. ResolveTyped'
  <2>1. failed \in Resolutions
    BY IdleCall, Zenon DEF Resolutions
  <2>2. pend \in [Places -> Stages] /\ <<>> \in Seq(Places)
    BY DEF Stages
  <2> HIDE DEF failed, pend
  <2> QED  BY <1>1, <1>2, <1>3, <2>1, <2>2 DEF ResolveTyped
<1>5. ASSUME NEW d \in Jobs PROVE CallInv(d)'
  <2>1. CASE d = c
    <3>1. call'[c] = failed /\ items'[c] = pend /\ completed'[c] = <<>>
      BY <1>1, <1>2 DEF ResolveTyped
    <3>2. failed.pc = "failed" /\ failed.fatal # "none"
      BY DEF Causes, Resolver!Idle
    <3> HIDE DEF failed, pend
    <3>3. \A t \in leased' : t[1] # c
      BY <1>1
    <3> QED  BY <2>1, <3>1, <3>2, <3>3 DEF CallInv, pend
  <2>2. CASE d # c
    <3>1. call'[d] = call[d] /\ items'[d] = items[d] /\ completed'[d] = completed[d]
      BY <1>1, <1>2, <2>2 DEF ResolveTyped
    <3>2. \A t \in Jobs \X Places : t[1] = d => (t \in leased' <=> t \in leased)
      BY <1>1, <2>2
    <3>3. leased \subseteq Jobs \X Places /\ leased' \subseteq Jobs \X Places
      BY <1>1, <1>2 DEF ResolveTyped
    <3> QED  BY <1>2, <3>1, <3>2, <3>3, OtherCall
  <2> QED  BY <2>1, <2>2
<1>6. /\ \A d \in Jobs : d # c => call'[d] = call[d] /\ items'[d] = items[d]
      /\ call'[c] = failed /\ items'[c] = pend
  BY <1>1, <1>2 DEF ResolveTyped
<1>7. permits' + Cardinality(Holders)' = Admission
  <2> HIDE DEF failed
  <2>1. Holders' = Holders \ ({c} \X PermittedOf(c))
    BY <1>6 DEF Holders, PermittedOf
  <2>2. {c} \X PermittedOf(c) \subseteq Holders
    BY DEF Holders, PermittedOf
  <2>3. Cardinality(Holders \ ({c} \X PermittedOf(c)))
          = Cardinality(Holders) - Cardinality(PermittedOf(c))
    BY <1>3, <2>2, GivenBack, HoldersAreFinite, Zenon
  <2> QED  BY <1>1, <1>2, <1>3, <2>1, <2>3, HoldersAreFinite DEF ResolveInv, ResolveTyped
<1>8. batches' + Cardinality(Busy)' = Batches
  <2>1. Busy' = Busy \ {c}
    <3>1. failed.pc = "failed"
      BY DEF Resolver!Idle
    <3> HIDE DEF failed
    <3> QED  BY <1>6, <3>1 DEF Busy
  <2>2. Cardinality(Busy \ {c}) = IF c \in Busy THEN Cardinality(Busy) - 1 ELSE Cardinality(Busy)
    BY FS_RemoveElement, HoldersAreFinite, Zenon
  <2>3. c \in Busy <=> call[c].kind # "direct"
    BY DEF Busy
  <2> QED  BY <1>1, <1>2, <2>1, <2>2, <2>3, HoldersAreFinite DEF ResolveInv, ResolveTyped
<1> QED  BY <1>4, <1>5, <1>7, <1>8 DEF ResolveInv

\* A step of one call keeps the others.
LEMMA OneCall ==
  ASSUME ResolveInv, NEW c \in Jobs,
         \A d \in Jobs : d # c => /\ call'[d] = call[d] /\ items'[d] = items[d]
                                  /\ completed'[d] = completed[d],
         \A t \in Jobs \X Places : t[1] # c => (t \in leased' <=> t \in leased),
         ResolveTyped', CallInv(c)'
  PROVE  \A d \in Jobs : CallInv(d)'
<1> SUFFICES ASSUME NEW d \in Jobs, d # c PROVE CallInv(d)'
  OBVIOUS
<1>1. CallInv(d) /\ ResolveTyped
  BY DEF ResolveInv
<1>2. \A t \in Jobs \X Places : t[1] = d => (t \in leased' <=> t \in leased)
  OBVIOUS
<1>3. leased \subseteq Jobs \X Places /\ leased' \subseteq Jobs \X Places
  BY <1>1 DEF ResolveTyped
<1> QED  BY <1>1, <1>2, <1>3, OtherCall

\* A batch of which nothing has ended yet accounts for it.
LEMMA Started ==
  ASSUME NEW c \in Jobs, ResolveTyped', completed'[c] = <<>>,
         call'[c].entries >= 1, call'[c].kind # "none", call'[c].fatal = "none",
         call'[c].found = call'[c].entries + call'[c].skipped,
         \A i \in Places : i > call'[c].entries => items'[c][i] = "pending",
         \A i \in Places : items'[c][i] # "ended", items'[c][1] \in Flying,
         call'[c].kind = "direct" => call'[c].entries = 1 /\ items'[c][1] = "ingest"
  PROVE  RunInv(c)'
<1>1. EndedOf(c)' = {}
  BY DEF EndedOf
<1>2. Cardinality(EndedOf(c))' = 0
  BY <1>1, FS_EmptySet
<1>3. call'[c].found \in Nat /\ call'[c].entries \in 0..MaxEntries /\ call'[c].skipped \in Nat
  BY DEF ResolveTyped, Resolutions
<1>4. Len(completed'[c]) = 0 /\ Listed(completed'[c]) = {} /\ Once(completed'[c])
  BY DEF Listed, Once
<1>5. 1 \in Places
  BY ResolveAssumption DEF Places
<1>6. \E i \in Places : items'[c][i] \in Flying
  BY <1>5
<1>7. /\ Cardinality(EndedOf(c))' + (call'[c].found - call'[c].entries)
           = Len(completed'[c]) + call'[c].skipped
      /\ ~(call'[c].skipped > call'[c].found - call'[c].entries)
      /\ call'[c].found >= call'[c].entries
      /\ call'[c].skipped >= call'[c].found - call'[c].entries
  <2> DEFINE e == call'[c].entries
             s == call'[c].skipped
             f == call'[c].found
  <2>1. f \in Nat /\ e \in Nat /\ s \in Nat /\ f = e + s
    BY <1>3, ResolveAssumption
  <2> HIDE DEF e, s, f
  <2>2. 0 + (f - e) = 0 + s /\ ~(s > f - e) /\ f >= e /\ s >= f - e
    BY <2>1
  <2> QED  BY <1>2, <1>4, <2>2 DEF e, s, f
<1> QED  BY <1>4, <1>6, <1>7 DEF RunInv

LEMMA BeginStep ==
  ASSUME ResolveInv, NEW c \in Jobs, NEW kind \in {"direct", "single", "site", "catalog"},
         Resolver!Begin(c, kind)
  PROVE  ResolveInv'
<1>1. /\ ResolveTyped /\ CallInv(c) /\ call[c].pc = "idle"
      /\ completed' = completed /\ leased' = leased /\ permits' = permits
  BY DEF ResolveInv, Resolver!Begin
<1>2. /\ items[c] = [i \in Places |-> "pending"] /\ completed[c] = <<>>
      /\ \A t \in leased : t[1] # c
  BY <1>1 DEF CallInv
<1>3. c \notin Busy /\ \A i \in Places : <<c, i>> \notin Holders
  BY <1>1, <1>2 DEF Busy, Holders
<1>4. 1 \in Places /\ 1 \in 0..MaxEntries
  BY ResolveAssumption DEF Places
<1> DEFINE first(stage) == [i \in Places |-> IF i = 1 THEN stage ELSE "pending"]
<1>5. ASSUME NEW rec \in Resolutions, call' = [call EXCEPT ![c] = rec],
             \/ items' = items /\ rec.pc \in {"discover", "failed"}
             \/ /\ items' = [items EXCEPT ![c][1] = "ingest"]
                /\ rec.kind = "direct" /\ rec.pc = "run"
             \/ /\ items' = [items EXCEPT ![c][1] = "admission"]
                /\ rec.kind = "single" /\ rec.pc = "run",
             rec.pc = "run" => rec.entries = 1 /\ rec.found = 1 /\ rec.skipped = 0 /\ rec.fatal = "none",
             rec.pc = "failed" => rec.fatal # "none",
             rec.pc = "discover" => /\ rec.fatal = "none" /\ rec.skip = "none"
                                    /\ rec.kind \in {"site", "catalog"},
             batches' \in Nat,
             batches' + Cardinality(Busy)' = Batches
      PROVE  ResolveInv'
  <2>1. PICK its \in [Places -> Stages] : items' = [items EXCEPT ![c] = its]
                /\ (rec.pc # "run" => its = items[c])
                /\ (rec.pc = "run" => its \in {first("ingest"), first("admission")})
                /\ (rec.kind = "direct" /\ rec.pc = "run" => its = first("ingest"))
                /\ (its = items[c] \/ its = first("admission") \/ (its = first("ingest") /\ rec.kind = "direct"))
    <3>1. CASE items' = items /\ rec.pc \in {"discover", "failed"}
      <4>1. items[c] \in [Places -> Stages] /\ items' = [items EXCEPT ![c] = items[c]]
        BY <1>1, <3>1 DEF ResolveTyped
      <4>2. rec.pc # "run"
        BY <3>1
      <4> QED  BY <4>1, <4>2, Zenon
    <3>2. ASSUME NEW stage \in {"ingest", "admission"}, items' = [items EXCEPT ![c][1] = stage]
          PROVE  items' = [items EXCEPT ![c] = first(stage)] /\ first(stage) \in [Places -> Stages]
      <4>1. [items[c] EXCEPT ![1] = stage] = first(stage)
        BY <1>2
      <4>2. first(stage) \in [Places -> Stages]
        BY DEF Stages
      <4> QED  BY <3>2, <4>1, <4>2, Zenon
    <3> HIDE DEF first
    <3> QED  BY <1>5, <3>1, <3>2
  <2>2. ResolveTyped'
    BY <1>1, <1>5, <2>1 DEF ResolveTyped
  <2>3. /\ call'[c] = rec /\ items'[c] = its /\ completed'[c] = <<>>
        /\ \A d \in Jobs : d # c => call'[d] = call[d] /\ items'[d] = items[d]
    BY <1>1, <1>2, <1>5, <2>1 DEF ResolveTyped
  <2>4. CallInv(c)'
    <3>1. CASE rec.pc = "run"
      <4>1. /\ \A i \in Places : i > 1 => its[i] = "pending"
            /\ \A i \in Places : its[i] # "ended"
            /\ its[1] \in Flying
            /\ rec.kind = "direct" => its[1] = "ingest"
        BY <1>4, <2>1, <3>1 DEF Flying
      <4>2. rec.kind # "none"
        BY <1>5, <2>1, <3>1
      <4>3. 1 = 1 + 0 /\ 1 >= 1
        OBVIOUS
      <4>4. RunInv(c)'
        BY <1>5, <2>2, <2>3, <3>1, <4>1, <4>2, <4>3, Started
      <4> QED  BY <2>3, <3>1, <4>4 DEF CallInv
    <3>2. CASE rec.pc # "run"
      <4>1. rec.pc \in {"discover", "failed"}
        BY <1>5, <3>2
      <4> QED  BY <1>1, <1>2, <1>5, <2>1, <2>3, <4>1 DEF CallInv
    <3> QED  BY <3>1, <3>2
  <2>5. \A d \in Jobs : CallInv(d)'
    BY <1>1, <2>2, <2>3, <2>4, OneCall
  <2>6. Holders' = Holders
    <3>1. \A i \in Places : <<c, i>> \notin Holders'
      BY <1>2, <1>5, <2>1, <2>3 DEF Holders
    <3>2. \A h \in Jobs \X Places : h[1] # c => (h \in Holders' <=> h \in Holders)
      BY <2>3 DEF Holders
    <3>3. Holders \subseteq Jobs \X Places /\ Holders' \subseteq Jobs \X Places
      BY DEF Holders
    <3> QED  BY <1>3, <3>1, <3>2, <3>3
  <2>7. permits' + Cardinality(Holders)' = Admission
    BY <1>1, <2>6 DEF ResolveInv
  <2> QED  BY <1>5, <2>2, <2>5, <2>7 DEF ResolveInv
<1>6. ASSUME NEW rec, call' = [call EXCEPT ![c] = rec]
      PROVE  /\ rec.kind = "direct" \/ rec.pc = "failed" => Busy' = Busy
             /\ rec.kind # "direct" /\ rec.pc \in {"discover", "run"} => Busy' = Busy \cup {c}
  BY <1>1, <1>3, <1>6 DEF Busy, ResolveTyped
<1>7. /\ batches \in Nat /\ batches + Cardinality(Busy) = Batches /\ Cardinality(Busy) \in Nat
      /\ Cardinality(Busy \cup {c}) = Cardinality(Busy) + 1
  BY <1>1, <1>3, HoldersAreFinite, FS_AddElement, Zenon DEF ResolveInv, ResolveTyped
<1>8. CASE kind = "direct"
  <2> DEFINE rec == [Resolver!Idle EXCEPT !.pc = "run", !.kind = kind, !.entries = 1, !.found = 1]
  <2>1. /\ call' = [call EXCEPT ![c] = rec] /\ items' = [items EXCEPT ![c][1] = "ingest"]
        /\ batches' = batches
    BY <1>8 DEF Resolver!Begin
  <2>2. rec \in Resolutions
    BY <1>4, IdleCall, Zenon DEF Resolutions
  <2>3. /\ rec.pc = "run" /\ rec.kind = "direct" /\ rec.entries = 1 /\ rec.found = 1
        /\ rec.skipped = 0 /\ rec.fatal = "none"
    BY <1>8 DEF Resolver!Idle
  <2> HIDE DEF rec
  <2>4. batches' \in Nat /\ batches' + Cardinality(Busy)' = Batches
    BY <1>6, <1>7, <2>1, <2>3, Zenon
  <2> QED  BY <1>5, <2>1, <2>2, <2>3, <2>4, Zenon
<1>9. CASE kind # "direct" /\ batches = 0
  <2> DEFINE rec == [Resolver!Idle EXCEPT !.pc = "failed", !.fatal = "Busy"]
  <2>1. call' = [call EXCEPT ![c] = rec] /\ items' = items /\ batches' = batches
    BY <1>9 DEF Resolver!Begin
  <2>2. rec \in Resolutions
    BY IdleCall, Zenon DEF Resolutions, Causes
  <2>3. rec.pc = "failed" /\ rec.fatal # "none"
    BY DEF Resolver!Idle
  <2> HIDE DEF rec
  <2>4. batches' \in Nat /\ batches' + Cardinality(Busy)' = Batches
    BY <1>6, <1>7, <2>1, <2>3, Zenon
  <2> QED  BY <1>5, <2>1, <2>2, <2>3, <2>4, Zenon
<1>10. CASE kind = "single" /\ batches # 0
  <2> DEFINE rec == [Resolver!Idle EXCEPT !.kind = kind, !.pc = IF kind = "single" THEN "run" ELSE "discover",
                            !.entries = IF kind = "single" THEN 1 ELSE 0,
                            !.found = IF kind = "single" THEN 1 ELSE 0]
  <2>1. /\ call' = [call EXCEPT ![c] = rec] /\ items' = [items EXCEPT ![c][1] = "admission"]
        /\ batches' = batches - 1
    BY <1>10 DEF Resolver!Begin
  <2>2. rec \in Resolutions
    BY <1>4, <1>10, IdleCall, Zenon DEF Resolutions
  <2>3. /\ rec.pc = "run" /\ rec.kind = "single" /\ rec.entries = 1 /\ rec.found = 1
        /\ rec.skipped = 0 /\ rec.fatal = "none"
    BY <1>10 DEF Resolver!Idle
  <2> HIDE DEF rec
  <2>4. batches' \in Nat /\ batches' + Cardinality(Busy)' = Batches
    <3>1. Busy' = Busy \cup {c}
      <4>1. rec.kind # "direct"
        BY <2>3
      <4> QED  BY <1>6, <2>1, <2>3, <4>1, Zenon
    <3> QED  BY <1>7, <1>10, <2>1, <3>1
  <2> QED  BY <1>5, <2>1, <2>2, <2>3, <2>4, Zenon
<1>11. CASE kind \in {"site", "catalog"} /\ batches # 0
  <2> DEFINE rec == [Resolver!Idle EXCEPT !.kind = kind, !.pc = IF kind = "single" THEN "run" ELSE "discover",
                            !.entries = IF kind = "single" THEN 1 ELSE 0,
                            !.found = IF kind = "single" THEN 1 ELSE 0]
  <2>1. call' = [call EXCEPT ![c] = rec] /\ items' = items /\ batches' = batches - 1
    BY <1>11 DEF Resolver!Begin
  <2>2. rec \in Resolutions
    <3>1. 0 \in 0..MaxEntries /\ 0 \in Nat
      BY ResolveAssumption
    <3> QED  BY <1>11, <3>1, IdleCall, Zenon DEF Resolutions
  <2>3. /\ rec.pc = "discover" /\ rec.kind \in {"site", "catalog"}
        /\ rec.fatal = "none" /\ rec.skip = "none"
    BY <1>11 DEF Resolver!Idle
  <2> HIDE DEF rec
  <2>4. batches' \in Nat /\ batches' + Cardinality(Busy)' = Batches
    <3>1. Busy' = Busy \cup {c}
      <4>1. rec.kind # "direct"
        BY <2>3
      <4> QED  BY <1>6, <2>1, <2>3, <4>1, Zenon
    <3> QED  BY <1>7, <1>11, <2>1, <3>1
  <2> QED  BY <1>5, <2>1, <2>2, <2>3, <2>4, Zenon
<1> QED  BY <1>8, <1>9, <1>10, <1>11

LEMMA ErrorsAreCauses ==
  /\ \A e \in Resolver!SiteErrors \cup {"PlaylistTooLarge", "InvalidUrl"} :
       Resolver!MapSiteError(e) \in Causes
  /\ \A e \in Resolver!IngestErrors : \A k : Resolver!MapIngest(e, k) \in Causes
<1>1. ASSUME NEW e \in Resolver!SiteErrors \cup {"PlaylistTooLarge", "InvalidUrl"}
      PROVE  Resolver!MapSiteError(e) \in Causes
  BY DEF Resolver!SiteErrors, Resolver!MapSiteError, Causes
<1>2. ASSUME NEW e \in Resolver!IngestErrors, NEW k PROVE Resolver!MapIngest(e, k) \in Causes
  BY DEF Resolver!IngestErrors, Resolver!MapIngest, Causes
<1> QED  BY <1>1, <1>2

LEMMA DiscoverStep ==
  ASSUME ResolveInv, NEW c \in Jobs, Resolver!Discover(c)
  PROVE  ResolveInv'
<1>1. ResolveTyped /\ CallInv(c) /\ call[c].pc = "discover"
  BY Zenon DEF ResolveInv, Resolver!Discover
<1>2. CASE \E e \in Resolver!SiteErrors \cup {"PlaylistTooLarge", "InvalidUrl"} :
             Resolver!Drop(c, Resolver!MapSiteError(e))
  BY <1>1, <1>2, DropStep, ErrorsAreCauses
<1>3. CASE Resolver!Drop(c, "CapacityExceeded")
  <2>1. "CapacityExceeded" \in Causes
    BY DEF Causes
  <2> QED  BY <1>1, <1>3, <2>1, DropStep
<1>4. ASSUME NEW n \in SomeLengths(c), NEW unusable \in 0..1,
             call' = [call EXCEPT ![c].pc = "run", ![c].entries = n, ![c].found = n + unusable,
                                  ![c].skipped = unusable],
             items' = [items EXCEPT ![c] =
               [i \in Resolver!Entries |->
                  IF i <= n /\ i <= Concurrency THEN "admission" ELSE "pending"]],
             UNCHANGED <<completed, leased, permits, batches>>
      PROVE  ResolveInv'
  <2> DEFINE its == [i \in Places |-> IF i <= n /\ i <= Concurrency THEN "admission" ELSE "pending"]
  <2>1. n \in 1..MaxEntries
    BY ResolveAssumption DEF SomeLengths
  <2>2. PICK rec : rec = [call[c] EXCEPT !.pc = "run", !.entries = n, !.found = n + unusable,
                                         !.skipped = unusable]
    OBVIOUS
  <2>3. call[c] \in Resolutions /\ call' = [call EXCEPT ![c] = rec]
    BY <1>1, <1>4, <2>2, Zenon DEF ResolveTyped
  <2>4. /\ rec \in Resolutions /\ rec.pc = "run" /\ rec.entries = n /\ rec.found = n + unusable
        /\ rec.skipped = unusable /\ rec.kind = call[c].kind /\ rec.fatal = call[c].fatal
    <3>1. /\ rec.pc = "run" /\ rec.entries = n /\ rec.found = n + unusable
          /\ rec.skipped = unusable /\ rec.kind = call[c].kind /\ rec.fatal = call[c].fatal
      BY <2>2, <2>3 DEF Resolutions
    <3>2. n \in 0..MaxEntries /\ n + unusable \in Nat /\ unusable \in Nat
      BY <2>1
    <3>3. rec \in Resolutions
      BY <2>2, <2>3, <3>2, Zenon DEF Resolutions
    <3> QED  BY <3>1, <3>3
  <2>5. its \in [Places -> Stages] /\ items' = [items EXCEPT ![c] = its]
    BY <1>4, ResolverSets DEF Stages
  <2>6. /\ \A i \in Places : its[i] = IF i <= n /\ i <= Concurrency THEN "admission" ELSE "pending"
        /\ \A i \in Places : i > n => its[i] = "pending"
        /\ \A i \in Places : its[i] \notin {"ended", "site", "ingest"}
        /\ its[1] \in Flying
    <3>1. 1 \in Places /\ 1 <= n /\ 1 <= Concurrency
      BY <2>1, ResolveAssumption DEF Places
    <3>2. \A i \in Places : i \in Int
      BY DEF Places
    <3>3. n \in Int /\ Concurrency \in Int
      BY <2>1, ResolveAssumption
    <3> QED  BY <3>1, <3>2, <3>3 DEF Flying
  <2> HIDE DEF its
  <2>7. ResolveTyped'
    <3>1. call' \in [Jobs -> Resolutions] /\ items' \in [Jobs -> [Places -> Stages]]
      BY <1>1, <2>3, <2>4, <2>5 DEF ResolveTyped
    <3>2. completed' = completed /\ leased' = leased /\ permits' = permits /\ batches' = batches
      BY <1>4
    <3> QED  BY <1>1, <3>1, <3>2 DEF ResolveTyped
  <2>8. /\ call'[c] = rec /\ items'[c] = its /\ completed'[c] = completed[c]
        /\ \A d \in Jobs : d # c => /\ call'[d] = call[d] /\ items'[d] = items[d]
                                    /\ completed'[d] = completed[d]
    BY <1>1, <1>4, <2>3, <2>5, Zenon DEF ResolveTyped
  <2>9. /\ items[c] = [i \in Places |-> "pending"] /\ completed[c] = <<>>
        /\ call[c].fatal = "none" /\ call[c].kind \in {"site", "catalog"}
    BY <1>1 DEF CallInv
  <2>10. CallInv(c)'
    <3>1. rec.entries >= 1 /\ rec.found = rec.entries + rec.skipped
      BY <2>1, <2>4
    <3>2. rec.kind # "none" /\ rec.fatal = "none" /\ completed'[c] = <<>>
      BY <2>4, <2>8, <2>9
    <3>3. RunInv(c)'
      <4>1. rec.kind # "direct"
        BY <2>4, <2>9
      <4> QED  BY <2>4, <2>6, <2>7, <2>8, <3>1, <3>2, <4>1, Started
    <3> QED  BY <2>4, <2>8, <3>3 DEF CallInv
  <2>11. \A d \in Jobs : CallInv(d)'
    BY <1>4, <2>7, <2>8, <2>10, OneCall, Zenon
  <2>12. Holders' = Holders /\ Busy' = Busy
    <3>1. \A d \in Jobs : /\ call'[d].kind = call[d].kind
                          /\ (call'[d].pc \in {"discover", "run"} <=> call[d].pc \in {"discover", "run"})
      BY <1>1, <2>4, <2>8
    <3>2. \A d \in Jobs : \A i \in Places :
            items'[d][i] \in {"site", "ingest"} <=> items[d][i] \in {"site", "ingest"}
      BY <2>6, <2>8, <2>9
    <3> QED  BY <3>1, <3>2 DEF Holders, Busy
  <2> QED  BY <1>4, <2>7, <2>11, <2>12 DEF ResolveInv
<1> QED  BY <1>2, <1>3, <1>4, Zenon DEF Resolver!Discover

\* A lease that is given back with its call.
LEMMA ReturnStep ==
  ASSUME ResolveInv, NEW c \in Jobs, Resolver!Return(c)
  PROVE  ResolveInv'
<1>1. /\ ResolveTyped /\ CallInv(c) /\ call[c].pc \in {"failed", "resolved"}
      /\ call' = [call EXCEPT ![c] = Resolver!Idle] /\ leased' = {t \in leased : t[1] # c}
      /\ items' = items /\ completed' = completed /\ permits' = permits /\ batches' = batches
  BY DEF ResolveInv, Resolver!Return
<1>2. ResolveTyped'
  BY <1>1, IdleCall DEF ResolveTyped
<1>3. /\ call'[c] = Resolver!Idle
      /\ \A d \in Jobs : d # c => call'[d] = call[d]
  BY <1>1 DEF ResolveTyped
<1>4. /\ Resolver!Idle.pc = "idle" /\ items[c] = [i \in Places |-> "pending"]
      /\ completed[c] = <<>>
  BY <1>1 DEF CallInv, Resolver!Idle
<1>5. CallInv(c)'
  BY <1>1, <1>3, <1>4 DEF CallInv
<1>6. \A d \in Jobs : CallInv(d)'
  BY <1>1, <1>2, <1>3, <1>5, OneCall
<1>7. Busy' = Busy
  BY <1>1, <1>3, <1>4 DEF Busy
<1>8. Holders' = Holders
  <2>1. \A i \in Places : items[c][i] \notin {"site", "ingest"}
    BY <1>4
  <2> QED  BY <1>1, <1>3, <2>1 DEF Holders
<1> QED  BY <1>1, <1>2, <1>6, <1>7, <1>8 DEF ResolveInv

\* An item is let in: one permit less is free.
LEMMA AdmitStep ==
  ASSUME ResolveInv, NEW c \in Jobs, NEW i \in Places, Resolver!Admit(c, i)
  PROVE  ResolveInv'
<1>1. /\ ResolveTyped /\ CallInv(c) /\ items[c][i] = "admission" /\ permits > 0
      /\ items' = [items EXCEPT ![c][i] = "site"] /\ permits' = permits - 1
      /\ call' = call /\ completed' = completed /\ leased' = leased /\ batches' = batches
  BY DEF ResolveInv, Resolver!Admit
<1>2. call[c].pc = "run" /\ RunInv(c)
  BY <1>1 DEF CallInv
<1>3. ResolveTyped'
  <2>1. items' \in [Jobs -> [Places -> Stages]]
    BY <1>1 DEF ResolveTyped, Stages
  <2>2. permits' \in Nat
    BY <1>1 DEF ResolveTyped
  <2> QED  BY <1>1, <2>1, <2>2 DEF ResolveTyped
<1>4. /\ \A j \in Places : items'[c][j] = IF j = i THEN "site" ELSE items[c][j]
      /\ \A d \in Jobs : d # c => items'[d] = items[d]
  BY <1>1 DEF ResolveTyped
<1>5. CallInv(c)'
  <2>1. EndedOf(c)' = EndedOf(c)
    BY <1>1, <1>4 DEF EndedOf
  <2>2. Listed(completed[c]) \subseteq Places
    BY <1>1 DEF ResolveTyped, Listed
  <2>3. 1..call[c].entries \subseteq Places
    <3>1. call[c].entries \in 0..MaxEntries
      BY <1>1 DEF ResolveTyped, Resolutions
    <3> QED  BY <3>1, ResolveAssumption DEF Places
  <2>4. /\ \A j \in Places : j > call[c].entries => items'[c][j] = "pending"
        /\ \A j \in Listed(completed[c]) : items'[c][j] = "ended"
        /\ \E j \in Places : items'[c][j] \in Flying
    <3>1. items'[c][i] = "site" /\ i \in Places
      BY <1>4
    <3>2. ASSUME NEW j \in Places, j > call[c].entries PROVE items'[c][j] = "pending"
      BY <1>1, <1>2, <1>4, <3>2 DEF RunInv
    <3>3. ASSUME NEW j \in Listed(completed[c]) PROVE items'[c][j] = "ended"
      BY <1>1, <1>2, <1>4, <2>2, <3>3, Zenon DEF RunInv
    <3> QED  BY <3>1, <3>2, <3>3 DEF Flying
  <2>5. RunInv(c)'
    BY <1>1, <1>2, <2>1, <2>4 DEF RunInv
  <2> QED  BY <1>1, <1>2, <2>5 DEF CallInv
<1>6. \A d \in Jobs : CallInv(d)'
  BY <1>1, <1>3, <1>4, <1>5, OneCall
<1>7. Busy' = Busy
  BY <1>1 DEF Busy
<1>8. permits' + Cardinality(Holders)' = Admission
  <2>1. call[c].kind # "direct"
    <3>1. i = 1 \/ i > 1
      BY DEF Places
    <3> QED  BY <1>1, <1>2, <3>1 DEF RunInv
  <2>2. permits' + Cardinality(Holders)' = Admission
    <3>1. Holders' = Holders \cup {<<c, i>>} /\ <<c, i>> \notin Holders
      BY <1>1, <1>4, <2>1 DEF Holders
    <3>2. Cardinality(Holders') = Cardinality(Holders) + 1
      BY <3>1, HoldersAreFinite, FS_AddElement, Zenon
    <3> QED  BY <1>1, <3>2, HoldersAreFinite DEF ResolveInv, ResolveTyped
  <2> QED  BY <2>2
<1> QED  BY <1>1, <1>3, <1>6, <1>7, <1>8 DEF ResolveInv

\* An item ends: its permit is free again, and the next one in line starts.
LEMMA EndedStep ==
  ASSUME ResolveInv, NEW c \in Jobs, NEW i \in Places, items[c][i] \in {"site", "ingest"},
         NEW error, Resolver!Ended(c, i, error), \A d \in Jobs : call'[d].kind = call[d].kind
  PROVE  /\ items' \in [Jobs -> [Places -> Stages]] /\ permits' \in Nat /\ batches' = batches
         /\ \A d \in Jobs : d # c => items'[d] = items[d]
         /\ \A j \in Places : \/ items'[c][j] = IF j = i THEN "ended" ELSE items[c][j]
                              \/ /\ j # i /\ j <= call[c].entries
                                 /\ items[c][j] = "pending" /\ items'[c][j] = "admission"
         /\ Cardinality(EndedOf(c))' = Cardinality(EndedOf(c)) + 1
         /\ Cardinality(EndedOf(c)) \in Nat
         /\ error = "none" /\ (\E j \in 1..call[c].entries : items'[c][j] = "pending") =>
              \E j \in Places : items'[c][j] \in Flying
         /\ permits' + Cardinality(Holders)' = Admission
<1> DEFINE waiting == {j \in 1..call[c].entries : items[c][j] = "pending"}
           its == [j \in Places |->
                     IF j = i THEN "ended"
                     ELSE IF error = "none" /\ j \in waiting /\ \A k \in waiting : j <= k
                          THEN "admission" ELSE items[c][j]]
<1>1. ResolveTyped /\ call[c].entries \in 0..MaxEntries /\ items[c] \in [Places -> Stages]
  BY Zenon DEF ResolveInv, ResolveTyped, Resolutions
<1>2. items' = [items EXCEPT ![c] = its] /\ batches' = batches
  BY ResolverSets DEF Resolver!Ended
<1>3. its \in [Places -> Stages]
  <2> HIDE DEF waiting
  <2>1. \A j \in Places : its[j] \in Stages
    BY <1>1 DEF Stages
  <2> QED  BY <2>1
<1>4. /\ items' \in [Jobs -> [Places -> Stages]] /\ items'[c] = its
      /\ \A d \in Jobs : d # c => items'[d] = items[d]
  <2> HIDE DEF its
  <2> QED  BY <1>1, <1>2, <1>3 DEF ResolveTyped
<1>5. /\ waiting \subseteq Places /\ waiting \subseteq Int /\ IsFiniteSet(waiting)
      /\ i \notin waiting
  <2>1. waiting \in SUBSET Places
    BY <1>1, ResolveAssumption DEF Places
  <2>2. IsFiniteSet(waiting)
    BY <2>1, HoldersAreFinite, FS_Subset
  <2>3. items[c][i] # "pending"
    OBVIOUS
  <2> QED  BY <2>1, <2>2, <2>3 DEF Places
<1>6. ASSUME NEW j \in Places
      PROVE  \/ its[j] = IF j = i THEN "ended" ELSE items[c][j]
             \/ /\ j # i /\ j <= call[c].entries
                /\ items[c][j] = "pending" /\ its[j] = "admission"
  OBVIOUS
<1>7. /\ Cardinality(EndedOf(c))' = Cardinality(EndedOf(c)) + 1
      /\ Cardinality(EndedOf(c)) \in Nat
  <2>1. EndedOf(c)' = EndedOf(c) \cup {i} /\ i \notin EndedOf(c)
    <3> HIDE DEF its, waiting
    <3> QED  BY <1>4, <1>6 DEF EndedOf
  <2>2. IsFiniteSet(EndedOf(c))
    <3>1. EndedOf(c) \in SUBSET Places
      BY DEF EndedOf
    <3> QED  BY <3>1, HoldersAreFinite, FS_Subset
  <2>3. Cardinality(EndedOf(c) \cup {i}) = Cardinality(EndedOf(c)) + 1
    BY <2>1, <2>2, FS_AddElement, Zenon
  <2> QED  BY <2>1, <2>2, <2>3, FS_CardinalityType
<1>8. ASSUME error = "none", NEW j \in 1..call[c].entries, its[j] = "pending"
      PROVE  \E k \in Places : its[k] \in Flying
  <2>1. j \in Places
    BY <1>1, ResolveAssumption DEF Places
  <2>2. j \in waiting
    BY <1>6, <1>8, <2>1
  <2> HIDE DEF waiting
  <2>3. PICK x \in waiting : \A k \in waiting : x <= k
    BY <1>5, <2>2, LeastExists, Zenon
  <2>4. x \in Places /\ its[x] = "admission"
    BY <1>5, <1>8, <2>3
  <2> QED  BY <2>4 DEF Flying
<1>9. /\ permits' = permits + (IF i \in PermittedOf(c) THEN 1 ELSE 0)
      /\ permits \in Nat
  BY <1>1, ResolverSets DEF Resolver!Ended, ResolveTyped
<1>10. permits' + Cardinality(Holders)' = Admission
  <2>1. Holders' = Holders \ {<<c, i>>}
    <3> HIDE DEF its, waiting
    <3>1. \A j \in Places : its[j] \in {"site", "ingest"} <=> j # i /\ items[c][j] \in {"site", "ingest"}
      BY <1>6
    <3> QED  BY <1>4, <3>1 DEF Holders
  <2>2. Cardinality(Holders \ {<<c, i>>})
          = IF <<c, i>> \in Holders THEN Cardinality(Holders) - 1 ELSE Cardinality(Holders)
    BY HoldersAreFinite, FS_RemoveElement, Zenon
  <2>3. <<c, i>> \in Holders <=> i \in PermittedOf(c)
    BY DEF Holders, PermittedOf
  <2> QED  BY <1>9, <2>1, <2>2, <2>3, HoldersAreFinite DEF ResolveInv
<1> HIDE DEF its, waiting
<1> QED  BY <1>2, <1>4, <1>6, <1>7, <1>8, <1>9, <1>10

LEMMA FailedItemStep ==
  ASSUME ResolveInv, NEW c \in Jobs, NEW i \in Places, items[c][i] \in {"site", "ingest"},
         NEW error \in Causes, Resolver!FailedItem(c, i, error)
  PROVE  ResolveInv'
<1>1. /\ ResolveTyped /\ CallInv(c) /\ call[c] \in Resolutions
      /\ completed' = completed /\ leased' = leased
      /\ Resolver!Ended(c, i, call'[c].fatal)
  BY DEF ResolveInv, ResolveTyped, Resolver!FailedItem
<1>2. call[c].pc = "run" /\ RunInv(c)
  BY <1>1 DEF CallInv
<1>3. PICK rec \in Resolutions :
        /\ call' = [call EXCEPT ![c] = rec]
        /\ rec.pc = "run" /\ rec.kind = call[c].kind /\ rec.entries = call[c].entries
        /\ rec.found = call[c].found
        /\ \/ /\ rec.fatal = call[c].fatal /\ rec.skipped = call[c].skipped + 1 /\ rec.skip # "none"
           \/ /\ rec.fatal # "none" /\ rec.skipped = call[c].skipped
  <2>1. CASE error \in Resolver!Soft
    <3> DEFINE rec == [call[c] EXCEPT !.skipped = @ + 1, !.skip = IF @ = "none" THEN error ELSE @]
    <3>1. call' = [call EXCEPT ![c] = rec]
      BY <1>1, <2>1, Zenon DEF Resolver!FailedItem, ResolveTyped
    <3>2. call[c].skipped + 1 \in Nat /\ (IF call[c].skip = "none" THEN error ELSE call[c].skip) \in Causes \cup {"none"}
      BY <1>1 DEF Resolutions
    <3>3. rec \in Resolutions
      BY <1>1, <3>2, Zenon DEF Resolutions
    <3>4. /\ rec.pc = call[c].pc /\ rec.kind = call[c].kind /\ rec.entries = call[c].entries
          /\ rec.found = call[c].found /\ rec.fatal = call[c].fatal
          /\ rec.skipped = call[c].skipped + 1
          /\ rec.skip = IF call[c].skip = "none" THEN error ELSE call[c].skip
      BY <1>1 DEF Resolutions
    <3>5. rec.skip # "none"
      BY <3>4 DEF Causes
    <3> HIDE DEF rec
    <3> QED  BY <1>2, <3>1, <3>3, <3>4, <3>5, Zenon
  <2>2. CASE error \notin Resolver!Soft
    <3> DEFINE rec == [call[c] EXCEPT !.fatal = IF @ = "none" THEN error ELSE @]
    <3>1. call' = [call EXCEPT ![c] = rec]
      BY <1>1, <2>2 DEF Resolver!FailedItem, ResolveTyped
    <3>2. (IF call[c].fatal = "none" THEN error ELSE call[c].fatal) \in Causes \cup {"none"}
      BY <1>1 DEF Resolutions
    <3>3. rec \in Resolutions
      BY <1>1, <3>2 DEF Resolutions
    <3>4. /\ rec.pc = call[c].pc /\ rec.kind = call[c].kind /\ rec.entries = call[c].entries
          /\ rec.found = call[c].found /\ rec.skipped = call[c].skipped
          /\ rec.fatal = IF call[c].fatal = "none" THEN error ELSE call[c].fatal
      BY <1>1 DEF Resolutions
    <3>5. rec.fatal # "none"
      BY <3>4 DEF Causes
    <3> HIDE DEF rec
    <3> QED  BY <1>2, <3>1, <3>3, <3>4, <3>5, Zenon
  <2> QED  BY <2>1, <2>2
<1>4. call'[c] = rec /\ \A d \in Jobs : d # c => call'[d] = call[d]
  BY <1>1, <1>3 DEF ResolveTyped
<1>5. \A d \in Jobs : call'[d].kind = call[d].kind
  BY <1>3, <1>4
<1>6. /\ items' \in [Jobs -> [Places -> Stages]] /\ permits' \in Nat /\ batches' = batches
      /\ \A d \in Jobs : d # c => items'[d] = items[d]
      /\ \A j \in Places : \/ items'[c][j] = IF j = i THEN "ended" ELSE items[c][j]
                           \/ /\ j # i /\ j <= call[c].entries
                              /\ items[c][j] = "pending" /\ items'[c][j] = "admission"
      /\ Cardinality(EndedOf(c))' = Cardinality(EndedOf(c)) + 1
      /\ Cardinality(EndedOf(c)) \in Nat
      /\ rec.fatal = "none" /\ (\E j \in 1..call[c].entries : items'[c][j] = "pending") =>
           \E j \in Places : items'[c][j] \in Flying
      /\ permits' + Cardinality(Holders)' = Admission
  BY <1>1, <1>4, <1>5, EndedStep
<1>7. ResolveTyped'
  <2>1. call' \in [Jobs -> Resolutions]
    BY <1>1, <1>3 DEF ResolveTyped
  <2> QED  BY <1>1, <1>6, <2>1 DEF ResolveTyped
<1>8. RunInv(c)'
  <2>1. Listed(completed[c]) \subseteq Places
    BY <1>1 DEF ResolveTyped, Listed
  <2>2. \A j \in Listed(completed[c]) : items'[c][j] = "ended" /\ <<c, j>> \in leased'
    BY <1>1, <1>2, <1>6, <2>1 DEF RunInv
  <2>3. \A j \in Places : j > call[c].entries => items'[c][j] = "pending"
    <3>1. ASSUME NEW j \in Places, j > call[c].entries PROVE items'[c][j] = "pending"
      <4>1. items[c][j] = "pending" /\ j # i
        BY <1>2, <3>1 DEF RunInv
      <4>2. ~(j <= call[c].entries)
        BY <1>1, <3>1 DEF Resolutions, Places
      <4> QED  BY <1>6, <4>1, <4>2
    <3> QED  BY <3>1
  <2>4. call[c].kind = "direct" => call[c].entries = 1 /\ items'[c][1] \in {"ingest", "ended"}
    <3>1. 1 \in Places
      BY ResolveAssumption DEF Places
    <3> QED  BY <1>2, <1>6, <3>1 DEF RunInv
  <2>5. Once(completed'[c]) /\ call[c].entries >= 1 /\ call[c].kind # "none"
    BY <1>1, <1>2 DEF RunInv
  <2>6. /\ rec.found >= rec.entries
        /\ rec.skipped >= rec.found - rec.entries
        /\ rec.fatal = "none" =>
             /\ Cardinality(EndedOf(c))' + (rec.found - rec.entries)
                  = Len(completed[c]) + rec.skipped
             /\ rec.skip # "none"
    <3>1. /\ rec.skipped \in Nat /\ rec.found \in Nat /\ rec.entries \in Nat /\ call[c].skipped \in Nat
          /\ Len(completed[c]) \in Nat
      BY <1>1, <1>3, ResolveAssumption DEF Resolutions, ResolveTyped
    <3>2. /\ call[c].found >= call[c].entries
          /\ call[c].skipped >= call[c].found - call[c].entries
          /\ call[c].fatal = "none" =>
               Cardinality(EndedOf(c)) + (call[c].found - call[c].entries)
                 = Len(completed[c]) + call[c].skipped
      BY <1>2 DEF RunInv
    <3>3. rec.found >= rec.entries /\ rec.skipped >= rec.found - rec.entries
      BY <1>3, <3>1, <3>2
    <3>4. ASSUME rec.fatal = "none"
          PROVE  /\ Cardinality(EndedOf(c))' + (rec.found - rec.entries)
                      = Len(completed[c]) + rec.skipped
                 /\ rec.skip # "none"
      <4>1. rec.fatal = call[c].fatal /\ rec.skipped = call[c].skipped + 1 /\ rec.skip # "none"
        BY <1>3, <3>4
      <4>2. Cardinality(EndedOf(c)) + (call[c].found - call[c].entries)
              = Len(completed[c]) + call[c].skipped
        BY <3>2, <3>4, <4>1
      <4>3. PICK was \in Int, x \in Int, y \in Int, l \in Int, k \in Int :
              /\ was = Cardinality(EndedOf(c)) /\ x = rec.found /\ y = rec.entries
              /\ l = Len(completed[c]) /\ k = call[c].skipped
        <5>1. Cardinality(EndedOf(c)) \in Int
          <6>1. Cardinality(EndedOf(c)) \in Nat
            BY <1>6
          <6> QED  BY <6>1
        <5>2. /\ rec.found \in Int /\ rec.entries \in Int
              /\ Len(completed[c]) \in Int /\ call[c].skipped \in Int
          BY <3>1
        <5> QED  BY <5>1, <5>2, Zenon
      <4>4. was + (x - y) = l + k
        BY <1>3, <4>2, <4>3
      <4>5. was + 1 + (x - y) = l + (k + 1)
        BY <4>4
      <4> QED  BY <1>6, <4>1, <4>3, <4>5
    <3> QED  BY <3>3, <3>4
  <2>7. rec.fatal = "none" => ((\E j \in 1..rec.entries : items'[c][j] = "pending") =>
          \E j \in Places : items'[c][j] \in Flying)
    BY <1>3, <1>6
  <2> QED  BY <1>1, <1>3, <1>4, <2>2, <2>3, <2>4, <2>5, <2>6, <2>7 DEF RunInv
<1>9. CallInv(c)'
  BY <1>3, <1>4, <1>8 DEF CallInv
<1>10. \A d \in Jobs : CallInv(d)'
  BY <1>1, <1>4, <1>6, <1>7, <1>9, OneCall
<1>11. Busy' = Busy
  BY <1>2, <1>3, <1>4, <1>5 DEF Busy
<1> QED  BY <1>6, <1>7, <1>10, <1>11 DEF ResolveInv

LEMMA Appended ==
  ASSUME NEW S, NEW s \in Seq(S), NEW x \in S
  PROVE  /\ Append(s, x) \in Seq(S) /\ Len(Append(s, x)) = Len(s) + 1
         /\ Listed(Append(s, x)) = Listed(s) \cup {x}
         /\ Once(s) /\ x \notin Listed(s) => Once(Append(s, x))
<1> DEFINE r == Append(s, x)
<1>1. /\ r \in Seq(S) /\ Len(r) = Len(s) + 1 /\ DOMAIN r = 1..(Len(s) + 1)
      /\ DOMAIN s = 1..Len(s)
      /\ \A k \in 1..Len(s) : r[k] = s[k]
      /\ r[Len(s) + 1] = x
  OBVIOUS
<1>2. Len(s) \in Nat
  OBVIOUS
<1> HIDE DEF r
<1>3. \A k \in DOMAIN r : k \in DOMAIN s \/ k = Len(s) + 1
  BY <1>1, <1>2
<1>4. \A k \in DOMAIN s : k \in DOMAIN r /\ r[k] = s[k]
  BY <1>1, <1>2
<1>5. Len(s) + 1 \in DOMAIN r
  BY <1>1, <1>2
<1>6. Listed(r) = Listed(s) \cup {x}
  BY <1>1, <1>3, <1>4, <1>5 DEF Listed
<1>7. ASSUME Once(s), x \notin Listed(s) PROVE Once(r)
  BY <1>1, <1>3, <1>4, <1>7 DEF Once, Listed
<1> QED  BY <1>1, <1>6, <1>7 DEF r

LEMMA IngestedStep ==
  ASSUME ResolveInv, NEW c \in Jobs, NEW i \in Places, items[c][i] = "ingest",
         completed' = [completed EXCEPT ![c] = Append(@, i)],
         leased' = leased \cup {<<c, i>>},
         Resolver!Ended(c, i, call[c].fatal), call' = call
  PROVE  ResolveInv'
<1>1. /\ ResolveTyped /\ CallInv(c) /\ call[c] \in Resolutions
      /\ items[c][i] \in {"site", "ingest"}
  BY DEF ResolveInv, ResolveTyped
<1>2. call[c].pc = "run" /\ RunInv(c)
  BY <1>1 DEF CallInv
<1>3. /\ items' \in [Jobs -> [Places -> Stages]] /\ permits' \in Nat /\ batches' = batches
      /\ \A d \in Jobs : d # c => items'[d] = items[d]
      /\ \A j \in Places : \/ items'[c][j] = IF j = i THEN "ended" ELSE items[c][j]
                           \/ /\ j # i /\ j <= call[c].entries
                              /\ items[c][j] = "pending" /\ items'[c][j] = "admission"
      /\ Cardinality(EndedOf(c))' = Cardinality(EndedOf(c)) + 1
      /\ Cardinality(EndedOf(c)) \in Nat
      /\ call[c].fatal = "none" /\ (\E j \in 1..call[c].entries : items'[c][j] = "pending") =>
           \E j \in Places : items'[c][j] \in Flying
      /\ permits' + Cardinality(Holders)' = Admission
  BY <1>1, EndedStep
<1>4. completed[c] \in Seq(Places) /\ i \notin Listed(completed[c])
  BY <1>1, <1>2, Zenon DEF ResolveTyped, RunInv
<1> DEFINE r == Append(completed[c], i)
<1>5. /\ r \in Seq(Places) /\ Len(r) = Len(completed[c]) + 1
      /\ Listed(r) = Listed(completed[c]) \cup {i} /\ Once(r)
  BY <1>2, <1>4, Appended DEF RunInv
<1>6. completed'[c] = r /\ \A d \in Jobs : d # c => completed'[d] = completed[d]
  BY <1>1 DEF ResolveTyped
<1> HIDE DEF r
<1>7. ResolveTyped'
  <2>1. completed' \in [Jobs -> Seq(Places)]
    BY <1>1, <1>5, <1>6 DEF ResolveTyped
  <2>2. leased' \subseteq Jobs \X Places
    BY <1>1 DEF ResolveTyped
  <2> QED  BY <1>1, <1>3, <2>1, <2>2 DEF ResolveTyped
<1>8. RunInv(c)'
  <2>1. Listed(completed[c]) \subseteq Places
    BY <1>1 DEF ResolveTyped, Listed
  <2>2. \A j \in Listed(r) : items'[c][j] = "ended" /\ <<c, j>> \in leased'
    BY <1>1, <1>2, <1>3, <1>5, <2>1 DEF RunInv
  <2>3. \A j \in Places : j > call[c].entries => items'[c][j] = "pending"
    <3>1. ASSUME NEW j \in Places, j > call[c].entries PROVE items'[c][j] = "pending"
      <4>1. items[c][j] = "pending" /\ j # i
        BY <1>1, <1>2, <3>1 DEF RunInv
      <4>2. ~(j <= call[c].entries)
        BY <1>1, <3>1 DEF Resolutions, Places
      <4> QED  BY <1>3, <4>1, <4>2
    <3> QED  BY <3>1
  <2>4. call[c].kind = "direct" => call[c].entries = 1 /\ items'[c][1] \in {"ingest", "ended"}
    <3>1. 1 \in Places
      BY ResolveAssumption DEF Places
    <3> QED  BY <1>2, <1>3, <3>1 DEF RunInv
  <2>5. call[c].fatal = "none" =>
          Cardinality(EndedOf(c))' + (call[c].found - call[c].entries) = Len(r) + call[c].skipped
    <3> SUFFICES ASSUME call[c].fatal = "none"
                 PROVE  Cardinality(EndedOf(c))' + (call[c].found - call[c].entries)
                          = Len(r) + call[c].skipped
      OBVIOUS
    <3>1. Cardinality(EndedOf(c)) + (call[c].found - call[c].entries)
            = Len(completed[c]) + call[c].skipped
      BY <1>2 DEF RunInv
    <3>2. PICK was \in Int, x \in Int, y \in Int, l \in Int, k \in Int :
            /\ was = Cardinality(EndedOf(c)) /\ x = call[c].found /\ y = call[c].entries
            /\ l = Len(completed[c]) /\ k = call[c].skipped
      <4>1. Cardinality(EndedOf(c)) \in Int
        <5>1. Cardinality(EndedOf(c)) \in Nat
          BY <1>3
        <5> QED  BY <5>1
      <4>2. /\ call[c].found \in Int /\ call[c].entries \in Int /\ call[c].skipped \in Int
        BY <1>1, ResolveAssumption DEF Resolutions
      <4>3. Len(completed[c]) \in Int
        BY <1>4
      <4> QED  BY <4>1, <4>2, <4>3, Zenon
    <3>3. was + (x - y) = l + k
      BY <3>1, <3>2
    <3>4. was + 1 + (x - y) = l + 1 + k
      BY <3>3
    <3>5. Cardinality(EndedOf(c))' = was + 1 /\ Len(r) = l + 1
      BY <1>3, <1>5, <3>2
    <3> QED  BY <3>2, <3>4, <3>5
  <2>6. /\ Once(completed'[c]) /\ call[c].entries >= 1 /\ call[c].kind # "none"
        /\ call[c].found >= call[c].entries
        /\ call[c].skipped >= call[c].found - call[c].entries
        /\ call[c].fatal = "none" /\ call[c].skipped > call[c].found - call[c].entries
             => call[c].skip # "none"
    BY <1>2, <1>5, <1>6, Zenon DEF RunInv
  <2>7. call[c].fatal = "none" => ((\E j \in 1..call[c].entries : items'[c][j] = "pending") =>
          \E j \in Places : items'[c][j] \in Flying)
    BY <1>3
  <2>8. completed'[c] = r
    BY <1>6
  <2> QED  BY <2>2, <2>3, <2>4, <2>5, <2>6, <2>7, <2>8, Zenon DEF RunInv
<1>9. CallInv(c)'
  BY <1>2, <1>8 DEF CallInv
<1>10. \A d \in Jobs : CallInv(d)'
  <2>1. \A t \in Jobs \X Places : t[1] # c => (t \in leased' <=> t \in leased)
    OBVIOUS
  <2> QED  BY <1>3, <1>6, <1>7, <1>9, <2>1, OneCall
<1>11. Busy' = Busy
  BY DEF Busy
<1> QED  BY <1>3, <1>7, <1>10, <1>11 DEF ResolveInv

LEMMA ItemStep ==
  ASSUME ResolveInv, NEW c \in Jobs, NEW i \in Places,
         Resolver!Site(c, i) \/ Resolver!Ingest(c, i)
  PROVE  ResolveInv'
<1>1. /\ ResolveTyped /\ CallInv(c) /\ items[c][i] \in {"site", "ingest"}
  BY DEF ResolveInv, Resolver!Site, Resolver!Ingest
<1>2. call[c].pc = "run" /\ RunInv(c)
  BY <1>1 DEF CallInv
<1>3. ASSUME NEW e \in Causes, Resolver!Failing(c, i, e) PROVE ResolveInv'
  BY <1>1, <1>2, <1>3, FailedItemStep, DropStep DEF Resolver!Failing
<1>4. CASE \E e \in Resolver!SiteErrors : Resolver!Failing(c, i, Resolver!MapSiteError(e))
  BY <1>3, <1>4, ErrorsAreCauses
<1>5. CASE \E e \in Resolver!IngestErrors : Resolver!Failing(c, i, Resolver!MapIngest(e, call[c].kind))
  BY <1>3, <1>5, ErrorsAreCauses
<1>6. CASE /\ items[c][i] = "ingest"
           /\ completed' = [completed EXCEPT ![c] = Append(@, i)]
           /\ leased' = leased \cup {<<c, i>>}
           /\ Resolver!Ended(c, i, call[c].fatal) /\ call' = call
  BY <1>6, IngestedStep, Zenon
<1>7. CASE /\ items[c][i] = "site" /\ items' = [items EXCEPT ![c][i] = "ingest"]
           /\ call' = call /\ completed' = completed /\ leased' = leased
           /\ permits' = permits /\ batches' = batches
  <2>1. ResolveTyped'
    <3>1. items' \in [Jobs -> [Places -> Stages]]
      BY <1>1, <1>7 DEF ResolveTyped, Stages
    <3> QED  BY <1>1, <1>7, <3>1 DEF ResolveTyped
  <2>2. /\ \A j \in Places : items'[c][j] = IF j = i THEN "ingest" ELSE items[c][j]
        /\ \A d \in Jobs : d # c => items'[d] = items[d]
    BY <1>1, <1>7 DEF ResolveTyped
  <2>3. CallInv(c)'
    <3>1. EndedOf(c)' = EndedOf(c)
      BY <1>7, <2>2 DEF EndedOf
    <3>2. Listed(completed[c]) \subseteq Places
      BY <1>1 DEF ResolveTyped, Listed
    <3>3. ASSUME NEW j \in Places, j > call[c].entries PROVE items'[c][j] = "pending"
      BY <1>2, <1>7, <2>2, <3>3 DEF RunInv
    <3>4. ASSUME NEW j \in Listed(completed[c]) PROVE items'[c][j] = "ended" /\ <<c, j>> \in leased
      BY <1>2, <1>7, <2>2, <3>2, <3>4 DEF RunInv
    <3>5. \E j \in Places : items'[c][j] \in Flying
      BY <2>2 DEF Flying
    <3>6. call[c].kind = "direct" => call[c].entries = 1 /\ items'[c][1] \in {"ingest", "ended"}
      <4>1. 1 \in Places
        BY ResolveAssumption DEF Places
      <4> QED  BY <1>2, <2>2, <4>1 DEF RunInv
    <3>7. RunInv(c)'
      BY <1>2, <1>7, <3>1, <3>3, <3>4, <3>5, <3>6 DEF RunInv
    <3> QED  BY <1>2, <1>7, <3>7 DEF CallInv
  <2>4. \A d \in Jobs : CallInv(d)'
    BY <1>7, <2>1, <2>2, <2>3, OneCall
  <2>5. Holders' = Holders /\ Busy' = Busy
    <3>1. \A d \in Jobs : \A j \in Places :
            items'[d][j] \in {"site", "ingest"} <=> items[d][j] \in {"site", "ingest"}
      BY <1>7, <2>2
    <3> QED  BY <1>7, <3>1 DEF Holders, Busy
  <2> QED  BY <1>7, <2>1, <2>4, <2>5 DEF ResolveInv
<1> QED
  BY <1>4, <1>5, <1>6, <1>7 DEF Resolver!Site, Resolver!Ingest

\* When nothing is under way any more each entry has ended, or an item failed them all.
LEMMA NothingIsLeft ==
  ASSUME ResolveInv, NEW c \in Jobs, call[c].pc = "run", Resolver!InFlight(c) = {},
         call[c].fatal = "none"
  PROVE  /\ Len(completed[c]) + call[c].skipped = call[c].found
         /\ completed[c] = <<>> => call[c].skip # "none"
<1>1. /\ ResolveTyped /\ RunInv(c) /\ call[c] \in Resolutions
  BY DEF ResolveInv, ResolveTyped, CallInv
<1>2. call[c].entries \in 1..MaxEntries /\ 1..call[c].entries \subseteq Places
  BY <1>1, ResolveAssumption DEF Resolutions, RunInv, Places
<1>3. \A i \in Places : items[c][i] \notin Flying
  BY ResolverSets
<1>4. \A i \in 1..call[c].entries : items[c][i] # "pending"
  BY <1>1, <1>3 DEF RunInv
<1>5. EndedOf(c) = 1..call[c].entries
  <2>1. \A i \in Places : items[c][i] \in Stages
    BY <1>1 DEF ResolveTyped
  <2>2. \A i \in 1..call[c].entries : items[c][i] = "ended"
    BY <1>2, <1>3, <1>4, <2>1 DEF Stages, Flying
  <2>3. ASSUME NEW i \in Places, items[c][i] = "ended" PROVE i \in 1..call[c].entries
    <3>1. ~(i > call[c].entries)
      BY <1>1, <2>3 DEF RunInv
    <3> QED  BY <1>2, <3>1 DEF Places
  <2> QED  BY <1>2, <2>2, <2>3 DEF EndedOf
<1>6. Cardinality(EndedOf(c)) = call[c].entries
  <2>1. call[c].entries \in Nat
    BY <1>2, ResolveAssumption
  <2> QED  BY <1>5, <2>1, UpTo
<1>7. Cardinality(EndedOf(c)) + (call[c].found - call[c].entries)
        = Len(completed[c]) + call[c].skipped
  BY <1>1 DEF RunInv
<1>8. PICK x \in Int, y \in Int, l \in Int, k \in Int :
        /\ x = call[c].found /\ y = call[c].entries /\ l = Len(completed[c])
        /\ k = call[c].skipped
  <2>1. call[c].found \in Int /\ call[c].entries \in Int /\ call[c].skipped \in Int
    BY <1>1, ResolveAssumption DEF Resolutions
  <2>2. Len(completed[c]) \in Int
    BY <1>1 DEF ResolveTyped
  <2> QED  BY <2>1, <2>2, Zenon
<1>9. l + k = x /\ (l = 0 => k > x - y)
  <2>1. y + (x - y) = l + k /\ y >= 1
    BY <1>2, <1>6, <1>7, <1>8
  <2> QED  BY <2>1
<1>10. completed[c] = <<>> => l = 0
  BY <1>8
<1> QED  BY <1>1, <1>8, <1>9, <1>10 DEF RunInv

LEMMA ConcludeStep ==
  ASSUME ResolveInv, NEW c \in Jobs, Resolver!Conclude(c)
  PROVE  ResolveInv'
<1>1. /\ ResolveTyped /\ CallInv(c) /\ RunInv(c) /\ call[c] \in Resolutions
      /\ call[c].pc = "run" /\ Resolver!InFlight(c) = {} /\ Resolver!Outcome(c)
  BY DEF ResolveInv, ResolveTyped, CallInv, Resolver!Conclude
<1>2. call[c].fatal \in Causes \cup {"none"} /\ call[c].skip \in Causes \cup {"none"}
  BY <1>1 DEF Resolutions
<1>3. CASE call[c].fatal # "none"
  BY <1>1, <1>2, <1>3, DropStep DEF Resolver!Outcome
<1>4. CASE call[c].fatal = "none" /\ completed[c] = <<>>
  <2>1. call[c].skip \in Causes
    BY <1>1, <1>2, <1>4, NothingIsLeft
  <2> QED  BY <1>1, <1>4, <2>1, DropStep DEF Resolver!Outcome
<1>5. CASE call[c].fatal = "none" /\ completed[c] # <<>>
  <2> DEFINE pend == [i \in Places |-> "pending"]
             t    == Resolver!TakeOrdered(c)
  <2>1. /\ call' = [call EXCEPT ![c].pc = "resolved", ![c].tracks = t]
        /\ completed' = [completed EXCEPT ![c] = <<>>]
        /\ items' = [items EXCEPT ![c] = pend]
        /\ batches' = batches + (IF call[c].kind = "direct" THEN 0 ELSE 1)
        /\ leased' = leased /\ permits' = permits
    <3>1. ~(call[c].fatal # "none") /\ ~(completed[c] = <<>>)
      BY <1>5
    <3> QED  BY <1>1, <3>1, ResolverSets DEF Resolver!Outcome
  <2> HIDE DEF t
  <2>2. /\ t \in Seq(Places) /\ Len(t) = Len(completed[c])
        /\ Listed(t) \subseteq Listed(completed[c])
        /\ \A j, k \in 1..Len(t) : j < k => t[j] < t[k]
    <3>1. PICK s \in Seq(1..MaxEntries) : completed[c] = s
      BY <1>1 DEF ResolveTyped, Places
    <3>2. Once(s)
      BY <1>1, <3>1 DEF RunInv
    <3> QED  BY <3>1, <3>2, TakenInOrder, ResolveAssumption, Zenon DEF Places, t
  <2>3. PICK rec : rec = [call[c] EXCEPT !.pc = "resolved", !.tracks = t]
    OBVIOUS
  <2>4. call' = [call EXCEPT ![c] = rec]
    BY <1>1, <2>1, <2>3, Zenon DEF ResolveTyped
  <2>5. /\ rec.pc = "resolved" /\ rec.tracks = t /\ rec.skipped = call[c].skipped
        /\ rec.found = call[c].found
    BY <1>1, <2>3 DEF Resolutions
  <2>6. rec \in Resolutions
    BY <1>1, <2>2, <2>3, Zenon DEF Resolutions
  <2>7. /\ call'[c] = rec /\ items'[c] = pend /\ completed'[c] = <<>>
        /\ \A d \in Jobs : d # c => /\ call'[d] = call[d] /\ items'[d] = items[d]
                                    /\ completed'[d] = completed[d]
    BY <1>1, <2>1, <2>4, Zenon DEF ResolveTyped
  <2>8. ResolveTyped'
    <3>1. pend \in [Places -> Stages] /\ <<>> \in Seq(Places)
      BY DEF Stages
    <3> HIDE DEF pend
    <3>2. /\ call' \in [Jobs -> Resolutions] /\ items' \in [Jobs -> [Places -> Stages]]
          /\ completed' \in [Jobs -> Seq(Places)]
      BY <1>1, <2>1, <2>4, <2>6, <3>1, Zenon DEF ResolveTyped
    <3>3. batches' \in Nat
      BY <1>1, <2>1 DEF ResolveTyped
    <3> QED  BY <1>1, <2>1, <3>2, <3>3 DEF ResolveTyped
  <2>9. CallInv(c)'
    <3>1. t # <<>>
      BY <1>1, <1>5, <2>2 DEF ResolveTyped
    <3>2. \A k \in 1..Len(t) : <<c, t[k]>> \in leased
      <4>1. ASSUME NEW k \in 1..Len(t) PROVE <<c, t[k]>> \in leased
        <5>1. t[k] \in Listed(t)
          BY <2>2 DEF Listed
        <5> QED  BY <1>1, <2>2, <5>1 DEF RunInv
      <4> QED  BY <4>1
    <3>3. Len(t) + rec.skipped = rec.found
      BY <1>1, <1>5, <2>2, <2>5, NothingIsLeft
    <3>4. BatchWhole(c)'
      <4>1. /\ call'[c].tracks = t /\ call'[c].skipped = rec.skipped
            /\ call'[c].found = rec.found /\ leased' = leased
        BY <2>1, <2>5, <2>7
      <4>2. \A j, k \in 1..Len(t) : j < k => t[j] < t[k]
        BY <2>2
      <4> QED  BY <3>1, <3>2, <3>3, <4>1, <4>2 DEF BatchWhole
    <3> QED  BY <2>5, <2>7, <3>4 DEF CallInv
  <2>10. \A d \in Jobs : CallInv(d)'
    BY <2>1, <2>7, <2>8, <2>9, OneCall, Zenon
  <2>11. Holders' = Holders
    <3>1. \A i \in Places : items[c][i] \notin {"site", "ingest"}
      BY <1>1, ResolverSets DEF Flying
    <3>2. \A i \in Places : items'[c][i] \notin {"site", "ingest"}
      BY <2>7
    <3> QED  BY <2>7, <3>1, <3>2 DEF Holders
  <2>12. batches' + Cardinality(Busy)' = Batches
    <3>1. Busy' = Busy \ {c}
      BY <2>5, <2>7 DEF Busy
    <3>2. Cardinality(Busy \ {c}) = IF c \in Busy THEN Cardinality(Busy) - 1 ELSE Cardinality(Busy)
      BY FS_RemoveElement, HoldersAreFinite, Zenon
    <3>3. c \in Busy <=> call[c].kind # "direct"
      BY <1>1 DEF Busy
    <3>4. /\ batches \in Nat /\ Cardinality(Busy) \in Nat /\ batches + Cardinality(Busy) = Batches
          /\ batches' = batches + (IF call[c].kind = "direct" THEN 0 ELSE 1)
      BY <1>1, <2>1, HoldersAreFinite DEF ResolveInv, ResolveTyped
    <3>5. CASE call[c].kind = "direct"
      BY <3>1, <3>2, <3>3, <3>4, <3>5
    <3>6. CASE call[c].kind # "direct"
      BY <3>1, <3>2, <3>3, <3>4, <3>6
    <3> QED  BY <3>5, <3>6
  <2> QED  BY <2>1, <2>8, <2>10, <2>11, <2>12 DEF ResolveInv
<1> QED  BY <1>3, <1>4, <1>5

LEMMA ResolveStep == ResolveInv /\ [Resolver!Next]_resolveVars => ResolveInv'
<1> SUFFICES ASSUME ResolveInv, [Resolver!Next]_resolveVars PROVE ResolveInv'
  OBVIOUS
<1>1. CASE UNCHANGED resolveVars
  <2>1. /\ call' = call /\ items' = items /\ completed' = completed /\ leased' = leased
        /\ permits' = permits /\ batches' = batches
    BY <1>1 DEF resolveVars
  <2>2. Holders' = Holders /\ Busy' = Busy /\ (ResolveTyped' <=> ResolveTyped)
    BY <2>1 DEF Holders, Busy, ResolveTyped
  <2>3. ASSUME NEW c \in Jobs PROVE CallInv(c)'
    BY <2>1, OtherCall, Zenon DEF ResolveInv, ResolveTyped
  <2> QED  BY <2>1, <2>2, <2>3 DEF ResolveInv
<1>2. ASSUME NEW c \in Jobs, \E kind \in {"direct", "single", "site", "catalog"} : Resolver!Begin(c, kind)
      PROVE  ResolveInv'
  BY <1>2, BeginStep
<1>3. ASSUME NEW c \in Jobs, Resolver!Deadline(c) \/ Resolver!Cancel(c) PROVE ResolveInv'
  <2>1. "TimedOut" \in Causes /\ "cancelled" \in Causes
    BY DEF Causes
  <2> QED  BY <1>3, <2>1, DropStep DEF Resolver!Deadline, Resolver!Cancel
<1>4. ASSUME NEW c \in Jobs,
             Resolver!Discover(c) \/ Resolver!Conclude(c) \/ Resolver!Return(c)
      PROVE  ResolveInv'
  BY <1>4, DiscoverStep, ConcludeStep, ReturnStep
<1>5. ASSUME NEW c \in Jobs, NEW i \in Places,
             Resolver!Admit(c, i) \/ Resolver!Site(c, i) \/ Resolver!Ingest(c, i)
      PROVE  ResolveInv'
  BY <1>5, AdmitStep, ItemStep
<1>6. CASE Resolver!Next
  BY <1>2, <1>3, <1>4, <1>5, <1>6, ResolverSets DEF Resolver!Next, Jobs
<1> QED  BY <1>1, <1>6

LEMMA ResolveStart == Resolver!Init => ResolveInv
<1> SUFFICES ASSUME Resolver!Init PROVE ResolveInv
  OBVIOUS
<1>1. /\ call = [c \in Jobs |-> Resolver!Idle]
      /\ items = [c \in Jobs |-> [i \in Places |-> "pending"]]
      /\ completed = [c \in Jobs |-> <<>>]
      /\ leased = {} /\ permits = Admission /\ batches = Batches
  BY ResolverSets DEF Resolver!Init, Jobs
<1>2. ResolveTyped
  <2>1. [i \in Places |-> "pending"] \in [Places -> Stages] /\ <<>> \in Seq(Places)
    BY DEF Stages
  <2> QED  BY <1>1, <2>1, IdleCall, ResolveAssumption DEF ResolveTyped
<1>3. \A c \in Jobs : CallInv(c)
  BY <1>1 DEF CallInv, Resolver!Idle
<1>4. Holders = {} /\ Busy = {}
  BY <1>1 DEF Holders, Busy, Resolver!Idle
<1> QED
  BY <1>1, <1>2, <1>3, <1>4, FS_EmptySet, ResolveAssumption DEF ResolveInv

LEMMA ResolvePromise == ResolveInv => Resolver!TypeOK /\ Resolver!BatchIsComplete
<1> SUFFICES ASSUME ResolveInv PROVE Resolver!TypeOK /\ Resolver!BatchIsComplete
  OBVIOUS
<1>1. ResolveTyped /\ \A c \in Jobs : CallInv(c)
  BY DEF ResolveInv
<1>2. permits \in 0..Admission /\ batches \in 0..Batches
  BY <1>1, HoldersAreFinite, ResolveAssumption DEF ResolveInv, ResolveTyped
<1>3. Resolver!TypeOK
  BY <1>1, <1>2, ResolverSets, Zenon DEF Resolver!TypeOK, ResolveTyped, Resolutions, Jobs, Stages
<1>4. ASSUME NEW c \in Jobs, call[c].pc = "resolved"
      PROVE  LET q == call[c].tracks
             IN /\ \A k \in 1..(Len(q) - 1) : q[k] < q[k + 1]
                /\ q # <<>> /\ \A k \in DOMAIN q : <<c, q[k]>> \in leased
                /\ Len(q) + call[c].skipped = call[c].found
  <2>1. BatchWhole(c) /\ call[c].tracks \in Seq(Places)
    BY <1>1, <1>4 DEF CallInv, ResolveTyped, Resolutions
  <2>2. DOMAIN call[c].tracks = 1..Len(call[c].tracks) /\ Len(call[c].tracks) \in Nat
    BY <2>1
  <2>3. ASSUME NEW k \in 1..(Len(call[c].tracks) - 1)
        PROVE  call[c].tracks[k] < call[c].tracks[k + 1]
    <3>1. k \in 1..Len(call[c].tracks) /\ k + 1 \in 1..Len(call[c].tracks) /\ k < k + 1
      BY <2>2
    <3> QED  BY <2>1, <3>1 DEF BatchWhole
  <2> QED  BY <2>1, <2>2, <2>3 DEF BatchWhole
<1>5. \A c \in Jobs : /\ call[c].pc \in {"idle", "failed"} => \A t \in leased : t[1] # c
                      /\ call[c].pc = "failed" => call[c].fatal # "none"
  BY <1>1 DEF CallInv
<1>6. Resolver!BatchIsComplete
  BY <1>4, <1>5 DEF Resolver!BatchIsComplete, Jobs
<1> QED  BY <1>3, <1>6

-----------------------------------------------------------------------------
(* The catalogs.                                                           *)

LEMMA CatalogCardinality == \A S : Catalogue!Cardinality(S) = Cardinality(S)
  BY Zenon DEF Catalogue!Cardinality, Cardinality

Rising(q) == \A j, k \in 1..Len(q) : j < k => q[j] < q[k]

LEMMA FunctionIsSeq ==
  ASSUME NEW S, NEW m \in Nat, NEW q \in [1..m -> S]
  PROVE  q \in Seq(S) /\ Len(q) = m
  OBVIOUS

\* Numbers are sorted into a sequence that rises.
LEMMA NumbersSorted ==
  ASSUME NEW S, IsFiniteSet(S), S \subseteq Int, NEW q,
         q = [n \in 1..Cardinality(S) |-> CHOOSE x \in S : Cardinality({y \in S : y < x}) = n - 1]
  PROVE  /\ q \in Seq(S) /\ Len(q) = Cardinality(S) /\ Rising(q)
<1> DEFINE rel == {p \in S \X S : p[1] < p[2]}
           m   == Cardinality(S)
<1>1. m \in Nat
  BY FS_CardinalityType
<1>2. Orders(rel, S)
  BY DEF Orders
<1>3. \A x, y \in S : <<x, y>> \in rel <=> x < y
  OBVIOUS
<1> HIDE DEF rel, m
<1>4. ASSUME NEW n \in 1..m
      PROVE  q[n] \in S /\ Cardinality(Below(S, rel, q[n])) = n - 1
  <2> DEFINE At(x) == Cardinality({y \in S : y < x}) = n - 1
  <2>1. \A x \in S : {y \in S : y < x} = Below(S, rel, x)
    BY <1>3, Zenon DEF Below
  <2>2. \A x \in S : At(x) <=> Cardinality(Below(S, rel, x)) = n - 1
    BY <2>1
  <2>3. \E x \in S : Cardinality(Below(S, rel, x)) = n - 1
    BY <1>2, PlacesAreTaken, Zenon DEF m
  <2>4. q[n] = CHOOSE x \in S : At(x)
    BY Zenon DEF m
  <2> HIDE DEF At
  <2> QED  BY <2>2, <2>3, <2>4, Zenon
<1>5. q \in [1..m -> S]
  BY <1>4, Zenon DEF m
<1>6. q \in Seq(S) /\ Len(q) = m
  BY <1>1, <1>5, FunctionIsSeq, Zenon
<1>7. Rising(q)
  <2> SUFFICES ASSUME NEW j \in 1..m, NEW k \in 1..m, j < k PROVE q[j] < q[k]
    BY <1>6, Zenon DEF Rising
  <2>1. <<q[j], q[k]>> \in rel
          <=> Cardinality(Below(S, rel, q[j])) < Cardinality(Below(S, rel, q[k]))
    BY <1>2, <1>4, BelowGrows, Zenon
  <2>2. <<q[j], q[k]>> \in rel
    <3>1. Cardinality(Below(S, rel, q[j])) = j - 1 /\ Cardinality(Below(S, rel, q[k])) = k - 1
      BY <1>4, Zenon
    <3>2. j - 1 < k - 1
      BY <1>1
    <3> QED  BY <2>1, <3>1, <3>2
  <2> QED  BY <1>3, <1>4, <2>2, Zenon
<1> QED  BY <1>6, <1>7, Zenon DEF m

\* What rises from where the other ends goes on rising.
LEMMA RisingOn ==
  ASSUME NEW s \in Seq(Nat), NEW q \in Seq(Nat), Rising(s), Rising(q), NEW m \in Int, NEW n \in Int,
         m <= n, \A k \in 1..Len(s) : s[k] <= m, \A k \in 1..Len(q) : m < q[k] /\ q[k] <= n
  PROVE  /\ s \o q \in Seq(Nat) /\ Len(s \o q) = Len(s) + Len(q) /\ Rising(s \o q)
         /\ \A k \in 1..Len(s \o q) : (s \o q)[k] <= n
<1> DEFINE r == s \o q
<1>1. /\ r \in Seq(Nat) /\ Len(r) = Len(s) + Len(q)
      /\ \A k \in 1..(Len(s) + Len(q)) : r[k] = IF k <= Len(s) THEN s[k] ELSE q[k - Len(s)]
  BY ConcatProperties
<1>2. Len(s) \in Nat /\ Len(q) \in Nat
  OBVIOUS
<1> HIDE DEF r
<1>3. ASSUME NEW k \in 1..Len(r), k <= Len(s) PROVE k \in 1..Len(s) /\ r[k] = s[k] /\ s[k] \in Nat
  <2>1. k \in 1..Len(s)
    BY <1>2, <1>3
  <2> QED  BY <1>1, <1>3, <2>1
<1>4. ASSUME NEW k \in 1..Len(r), ~(k <= Len(s))
      PROVE  /\ k - Len(s) \in 1..Len(q) /\ r[k] = q[k - Len(s)] /\ q[k - Len(s)] \in Nat
  <2>1. k - Len(s) \in 1..Len(q) /\ k \in 1..(Len(s) + Len(q))
    BY <1>1, <1>2, <1>4
  <2>2. r[k] = q[k - Len(s)]
    BY <1>1, <1>4, <2>1
  <2>3. q[k - Len(s)] \in Nat
    BY <2>1
  <2> QED  BY <2>1, <2>2, <2>3
<1>5. ASSUME NEW k \in 1..Len(r) PROVE r[k] <= n
  <2>1. CASE k <= Len(s)
    BY <1>3, <2>1
  <2>2. CASE ~(k <= Len(s))
    BY <1>4, <2>2, Zenon
  <2> QED  BY <2>1, <2>2
<1>6. ASSUME NEW j \in 1..Len(r), NEW k \in 1..Len(r), j < k PROVE r[j] < r[k]
  <2>1. CASE k <= Len(s)
    <3>1. j <= Len(s)
      BY <1>2, <1>6, <2>1
    <3> QED  BY <1>3, <1>6, <2>1, <3>1 DEF Rising
  <2>2. CASE j <= Len(s) /\ ~(k <= Len(s))
    <3>1. r[j] \in Nat /\ r[j] <= m
      BY <1>3, <2>2, Zenon
    <3>2. r[k] \in Nat /\ m < r[k]
      BY <1>4, <2>2, Zenon
    <3> QED  BY <3>1, <3>2
  <2>3. CASE ~(j <= Len(s)) /\ ~(k <= Len(s))
    <3>1. j - Len(s) < k - Len(s)
      BY <1>2, <1>6
    <3> QED  BY <1>4, <2>3, <3>1, Zenon DEF Rising
  <2> QED  BY <1>2, <1>6, <2>1, <2>2, <2>3
<1> QED  BY <1>1, <1>5, <1>6, Zenon DEF Rising, r

Askers == {r1, r2}
Faults == {"none", "unsupported", "transport", "credentials", "invalid"}
Ways   == {"none", "song", "page", "resource", "album", "embedded", "linked", "lookup"}
Works  == [pc : {"idle", "token", "issue", "get", "invalidate", "done", "failed"},
           method : Ways, limit : Nat, length : Nat, total : Int, next : Int,
           seen : SUBSET Int, token : Nat, refused : SUBSET Nat, returned : Nat,
           tracks : Seq(Nat), processed : Nat, skipped : Nat, truncated : BOOLEAN, error : Faults]
Tried  == {"token", "issue", "get", "invalidate"}

\* What there is to look at: a lookup knows only of what it returned.
Whole(w) == IF w.method = "lookup" THEN w.returned ELSE w.length

\* What a resolution has of its collection is what it has looked at.
WorkCounts(w) ==
  /\ w.limit <= CollectionLimit /\ w.processed <= w.limit
  /\ w.total \in {-1, w.length}
  /\ w.skipped + Len(w.tracks) = w.processed
  /\ Rising(w.tracks)
  /\ w.pc \in Tried =>
       /\ w.processed < w.limit
       /\ w.method \in {"song", "page", "resource"} => w.length = 1
       /\ w.method \in {"none", "song", "page", "resource", "embedded", "lookup"} =>
            w.processed = 0 /\ w.tracks = <<>>
       /\ w.method = "album" =>
            w.processed <= w.length /\ \A k \in 1..Len(w.tracks) : w.tracks[k] <= w.processed
       /\ w.method = "linked" /\ w.next \notin w.seen =>
            /\ w.next = w.processed /\ w.processed <= w.length
            /\ \A k \in 1..Len(w.tracks) : w.tracks[k] <= w.processed
  /\ w.pc = "done" => w.truncated \/ w.processed = Whole(w)

\* A token that was refused is older than the one to be used next.
WorkTokens(w) ==
  /\ w.token <= issued /\ \A t \in w.refused : t <= issued
  /\ w.pc = "invalidate" => \E t \in w.refused : w.refused = {t}
  /\ w.pc \in {"token", "issue"} /\ w.refused # {} =>
       \E t \in w.refused : w.refused = {t} /\ (cached = 0 \/ cached > t)
  /\ w.pc = "get" /\ w.refused # {} => \E t \in w.refused : w.refused = {t} /\ w.token > t
  /\ w.error = "credentials" =>
       w.pc = "failed" /\ (w.refused # {} => Cardinality(w.refused) = 2)

CatalogTyped ==
  /\ clients \in [{"spotify", "apple"} -> {"none", "app", "public"}]
  /\ work \in [Askers -> Works]
  /\ cached \in Nat /\ issued \in 0..MaxTokens /\ cached <= issued
  /\ accepted \subseteq 1..issued /\ issuing \in Askers \cup {Nobody}

CatalogInv ==
  /\ CatalogTyped
  /\ \A r \in Askers : WorkCounts(work[r]) /\ WorkTokens(work[r])

LEMMA IdleWork ==
  /\ Catalogue!Idle \in Works /\ WorkCounts(Catalogue!Idle)
  /\ CatalogTyped => WorkTokens(Catalogue!Idle)
<1>1. 0 \in Nat /\ <<>> \in Seq(Nat) /\ {} \in SUBSET Int /\ {} \in SUBSET Nat /\ -1 \in Int
  OBVIOUS
<1>2. Catalogue!Idle \in Works
  BY <1>1 DEF Catalogue!Idle, Catalogue!Unknown, Works, Ways, Faults
<1>3. WorkCounts(Catalogue!Idle)
  BY CatalogAssumption DEF Catalogue!Idle, Catalogue!Unknown, WorkCounts, Rising, Tried
<1>4. CatalogTyped => WorkTokens(Catalogue!Idle)
  BY DEF Catalogue!Idle, CatalogTyped, WorkTokens
<1> QED  BY <1>2, <1>3, <1>4

\* Only the work of one changes, and the tokens stay.
LEMMA OneWork ==
  ASSUME CatalogInv, NEW r \in Askers, NEW w \in Works, work' = [work EXCEPT ![r] = w],
         WorkCounts(w), WorkTokens(w), clients' = clients, cached' = cached, issued' = issued,
         accepted' = accepted, issuing' \in Askers \cup {Nobody}
  PROVE  CatalogInv'
<1>1. CatalogTyped'
  BY DEF CatalogInv, CatalogTyped
<1>2. ASSUME NEW q \in Askers PROVE WorkCounts(work'[q]) /\ WorkTokens(work'[q])
  <2>1. work'[q] = IF q = r THEN w ELSE work[q]
    BY DEF CatalogInv, CatalogTyped
  <2> QED  BY <2>1 DEF CatalogInv
<1>3. ASSUME NEW q \in Askers PROVE WorkTokens(work[q])'
  BY <1>2 DEF WorkTokens
<1>4. ASSUME NEW q \in Askers PROVE WorkCounts(work[q])'
  BY <1>2 DEF WorkCounts, Rising
<1> QED  BY <1>1, <1>3, <1>4 DEF CatalogInv

LEMMA FailStep ==
  ASSUME CatalogInv, NEW r \in Askers, NEW error \in Faults,
         Catalogue!Fail(r, error), clients' = clients, cached' = cached, issued' = issued,
         accepted' = accepted, issuing' \in Askers \cup {Nobody}
  PROVE  CatalogInv'
<1> DEFINE w == [Catalogue!Idle EXCEPT !.pc = "failed", !.error = error]
<1>1. work' = [work EXCEPT ![r] = w]
  BY DEF Catalogue!Fail
<1>2. w \in Works
  BY IdleWork, Zenon DEF Works
<1>3. /\ w.pc = "failed" /\ w.error = error /\ w.method = "none" /\ w.limit = 0 /\ w.length = 0
      /\ w.total = -1 /\ w.tracks = <<>> /\ w.processed = 0 /\ w.skipped = 0
      /\ w.token = 0 /\ w.refused = {}
  BY DEF Catalogue!Idle, Catalogue!Unknown
<1> HIDE DEF w
<1>4. WorkCounts(w)
  BY <1>3, CatalogAssumption DEF WorkCounts, Rising, Tried
<1>5. WorkTokens(w)
  BY <1>3 DEF WorkTokens, CatalogInv, CatalogTyped
<1> QED  BY <1>1, <1>2, <1>4, <1>5, OneWork, Zenon

\* Converting the next items looks at each of them once.
LEMMA ConvertedFacts ==
  ASSUME NEW r, work[r] \in Works, NEW m \in Nat, NEW n \in Nat, m <= n,
         NEW good \in SUBSET ((m + 1)..n), Rising(work[r].tracks),
         \A k \in 1..Len(work[r].tracks) : work[r].tracks[k] <= m
  PROVE  \E w \in Works :
           /\ w = Catalogue!Converted(r, m + 1, n, good)
           /\ w.processed = work[r].processed + (n - m)
           /\ w.skipped + Len(w.tracks) = work[r].skipped + Len(work[r].tracks) + (n - m)
           /\ Rising(w.tracks) /\ \A k \in 1..Len(w.tracks) : w.tracks[k] <= n
           /\ w.pc = work[r].pc /\ w.method = work[r].method /\ w.limit = work[r].limit
           /\ w.length = work[r].length /\ w.total = work[r].total /\ w.next = work[r].next
           /\ w.seen = work[r].seen /\ w.token = work[r].token /\ w.refused = work[r].refused
           /\ w.error = work[r].error
<1> DEFINE S == (m + 1)..n
<1>1. IsFiniteSet(S) /\ Cardinality(S) = n - m
  <2>1. IsFiniteSet(S) /\ Cardinality(S) = IF m + 1 > n THEN 0 ELSE n - (m + 1) + 1
    <3>1. m + 1 \in Int /\ n \in Int
      OBVIOUS
    <3> QED  BY <3>1, FS_Interval
  <2> QED  BY <2>1
<1>2. S \subseteq Nat /\ good \subseteq S /\ \A x \in good : m < x /\ x <= n
  OBVIOUS
<1> DEFINE sorted == [k \in 1..Cardinality(good) |->
                        CHOOSE x \in good : Cardinality({y \in good : y < x}) = k - 1]
<1>3. Catalogue!Sorted(good, <) = sorted
  BY Zenon DEF Catalogue!Sorted, Catalogue!Cardinality, Cardinality
<1>4. PICK q : q = sorted
  BY Zenon
<1>5. Catalogue!Converted(r, m + 1, n, good) =
        [work[r] EXCEPT !.processed = @ + Cardinality(S), !.tracks = @ \o q,
                        !.skipped = @ + Cardinality(S \ good)]
  BY <1>3, <1>4, CatalogCardinality, Zenon DEF Catalogue!Converted
<1> HIDE DEF S
<1>a. IsFiniteSet(good) /\ good \subseteq Int
  <2>1. IsFiniteSet(good)
    BY <1>1, <1>2, FS_Subset, Zenon
  <2> QED  BY <1>2, <2>1
<1>b. q \in Seq(good) /\ Len(q) = Cardinality(good) /\ Rising(q)
  BY <1>4, <1>a, NumbersSorted, Zenon
<1> HIDE DEF sorted
<1>c. /\ Cardinality(S \ good) = n - m - Cardinality(good)
      /\ Cardinality(S \ good) \in Nat /\ Cardinality(good) \in Nat
  <2>1. S \cap good = good
    BY <1>2
  <2>2. IsFiniteSet(S \ good) /\ Cardinality(S \ good) = Cardinality(S) - Cardinality(S \cap good)
    BY <1>1, FS_Difference, Zenon
  <2>3. Cardinality(S \ good) \in Nat /\ Cardinality(good) \in Nat
    BY <1>a, <2>2, FS_CardinalityType
  <2> QED  BY <1>1, <2>1, <2>2, <2>3, Zenon
<1>6. PICK w : w = [work[r] EXCEPT !.processed = @ + Cardinality(S),
                                   !.tracks = @ \o q,
                                   !.skipped = @ + Cardinality(S \ good)]
  OBVIOUS
<1>7. w = Catalogue!Converted(r, m + 1, n, good)
  BY <1>5, <1>6
<1>8. /\ w.processed = work[r].processed + Cardinality(S)
      /\ w.tracks = work[r].tracks \o q
      /\ w.skipped = work[r].skipped + Cardinality(S \ good)
      /\ w.pc = work[r].pc /\ w.method = work[r].method /\ w.limit = work[r].limit
      /\ w.length = work[r].length /\ w.total = work[r].total /\ w.next = work[r].next
      /\ w.seen = work[r].seen /\ w.token = work[r].token /\ w.refused = work[r].refused
      /\ w.error = work[r].error
  BY <1>6, Zenon DEF Works
<1>9. work[r].tracks \in Seq(Nat) /\ work[r].processed \in Nat /\ work[r].skipped \in Nat
  BY DEF Works
<1>10. /\ w.tracks \in Seq(Nat) /\ Len(w.tracks) = Len(work[r].tracks) + Len(q)
       /\ Rising(w.tracks) /\ \A k \in 1..Len(w.tracks) : w.tracks[k] <= n
  <2>1. q \in Seq(Nat)
    <3>1. good \subseteq Nat
      BY <1>2
    <3> QED  BY <1>b, <3>1
  <2>2. \A k \in 1..Len(q) : m < q[k] /\ q[k] <= n
    <3>1. \A k \in 1..Len(q) : q[k] \in good
      BY <1>b
    <3> QED  BY <1>2, <3>1, Zenon
  <2>3. PICK s \in Seq(Nat) : s = work[r].tracks
    BY <1>9
  <2>4. Rising(s) /\ \A k \in 1..Len(s) : s[k] <= m
    BY <2>3
  <2>5. m \in Int /\ n \in Int
    OBVIOUS
  <2>6. /\ s \o q \in Seq(Nat) /\ Len(s \o q) = Len(s) + Len(q) /\ Rising(s \o q)
        /\ \A k \in 1..Len(s \o q) : (s \o q)[k] <= n
    BY <1>b, <2>1, <2>2, <2>4, <2>5, RisingOn, Zenon
  <2> QED  BY <1>8, <2>3, <2>6
<1>11. w.processed \in Nat /\ w.processed = work[r].processed + (n - m)
  BY <1>1, <1>8, <1>9
<1>12. w.skipped \in Nat
  BY <1>c, <1>8, <1>9
<1>13. w.skipped + Len(w.tracks) = work[r].skipped + Len(work[r].tracks) + (n - m)
  <2>1. Len(work[r].tracks) \in Nat
    BY <1>9
  <2> QED  BY <1>b, <1>c, <1>8, <1>9, <1>10, <2>1
<1>14. w \in Works
  <2>1. work[r].processed + Cardinality(S) \in Nat /\ work[r].tracks \o q \in Seq(Nat)
        /\ work[r].skipped + Cardinality(S \ good) \in Nat
    BY <1>8, <1>10, <1>11, <1>12
  <2> QED  BY <1>6, <2>1, Zenon DEF Works
<1> QED  BY <1>7, <1>8, <1>10, <1>11, <1>13, <1>14

\* One work changes and the tokens may: what others have been refused stays older
\* than what they will use.
LEMMA WorkStep ==
  ASSUME CatalogInv, NEW r \in Askers, NEW w \in Works, work' = [work EXCEPT ![r] = w],
         WorkCounts(w), WorkTokens(w)', clients' = clients,
         issued' \in 0..MaxTokens, issued <= issued', cached' \in Nat, cached' <= issued',
         cached' = cached \/ cached' = 0 \/ issued < cached',
         accepted' \subseteq 1..issued', issuing' \in Askers \cup {Nobody}
  PROVE  CatalogInv'
<1>1. CatalogTyped'
  BY DEF CatalogInv, CatalogTyped
<1>2. ASSUME NEW q \in Askers PROVE work'[q] = IF q = r THEN w ELSE work[q]
  BY DEF CatalogInv, CatalogTyped
<1>3. ASSUME NEW q \in Askers PROVE WorkCounts(work[q])'
  BY <1>2 DEF WorkCounts, Rising, CatalogInv
<1>4. ASSUME NEW q \in Askers PROVE WorkTokens(work[q])'
  <2>1. CASE q = r
    BY <1>2, <2>1 DEF WorkTokens
  <2>2. CASE q # r
    <3>1. PICK old : old = work[q] /\ old = work'[q]
      BY <1>2, <2>2
    <3>a. work[q] \in Works /\ WorkTokens(work[q]) /\ issued \in Nat /\ cached \in Nat
      BY CatalogAssumption DEF CatalogInv, CatalogTyped
    <3>2. old \in Works /\ WorkTokens(old) /\ issued \in Nat /\ cached \in Nat
      BY <3>1, <3>a, Zenon DEF WorkTokens
    <3>3. old.token \in Nat /\ \A t \in old.refused : t \in Nat
      BY <3>2 DEF Works
    <3>4. old.token <= issued' /\ \A t \in old.refused : t <= issued'
      BY <3>2, <3>3 DEF WorkTokens
    <3>5. old.pc \in {"token", "issue"} /\ old.refused # {} =>
            \E t \in old.refused : old.refused = {t} /\ (cached' = 0 \/ cached' > t)
      BY <3>2, <3>3 DEF WorkTokens
    <3>6. WorkTokens(old)'
      BY <3>2, <3>4, <3>5 DEF WorkTokens
    <3> QED  BY <3>1, <3>6 DEF WorkTokens
  <2> QED  BY <2>1, <2>2
<1> QED  BY <1>1, <1>3, <1>4 DEF CatalogInv

\* Of a work that is being tried, all that the collection is counted by stays.
LEMMA SameCounts ==
  ASSUME NEW v \in Works, NEW w \in Works, WorkCounts(v), v.pc \in Tried, w.pc \in Tried \cup {"failed"},
         w.limit = v.limit, w.processed = v.processed, w.total = v.total, w.length = v.length,
         w.skipped = v.skipped, w.tracks = v.tracks, w.method = v.method, w.next = v.next,
         w.seen = v.seen
  PROVE  WorkCounts(w)
  BY DEF WorkCounts, Tried

LEMMA CatalogTokenStep ==
  ASSUME CatalogInv, NEW r \in Askers, Catalogue!Token(r)
  PROVE  CatalogInv'
<1>1. work[r] \in Works /\ WorkCounts(work[r]) /\ WorkTokens(work[r]) /\ work[r].pc = "token"
  BY DEF CatalogInv, CatalogTyped, Catalogue!Token
<1>2. /\ clients' = clients /\ cached' = cached /\ issued' = issued /\ accepted' = accepted
      /\ cached \in Nat /\ cached <= issued /\ issuing' \in Askers \cup {Nobody}
  BY DEF Catalogue!Token, CatalogInv, CatalogTyped
<1>3. CASE cached # 0
  <2>1. PICK w : w = [work[r] EXCEPT !.pc = "get", !.token = cached]
    OBVIOUS
  <2>2. work' = [work EXCEPT ![r] = w]
    BY <1>3, <2>1, Zenon DEF Catalogue!Token, CatalogInv, CatalogTyped
  <2>3. w \in Works
    BY <1>1, <1>2, <2>1, Zenon DEF Works
  <2>4. /\ w.pc = "get" /\ w.token = cached /\ w.refused = work[r].refused /\ w.error = work[r].error
        /\ w.limit = work[r].limit /\ w.processed = work[r].processed /\ w.total = work[r].total
        /\ w.length = work[r].length /\ w.skipped = work[r].skipped /\ w.tracks = work[r].tracks
        /\ w.method = work[r].method /\ w.next = work[r].next /\ w.seen = work[r].seen
    BY <1>1, <2>1 DEF Works
  <2>5. WorkCounts(w)
    BY <1>1, <2>3, <2>4, SameCounts DEF Tried
  <2>6. WorkTokens(w)
    BY <1>1, <1>2, <1>3, <2>4 DEF WorkTokens
  <2> QED  BY <1>2, <2>2, <2>3, <2>5, <2>6, OneWork, Zenon
<1>4. CASE cached = 0
  <2>1. PICK w : w = [work[r] EXCEPT !.pc = "issue"]
    BY Zenon
  <2>2. work' = [work EXCEPT ![r] = w]
    BY <1>4, <2>1 DEF Catalogue!Token, CatalogInv, CatalogTyped
  <2>3. w \in Works
    BY <1>1, <2>1, Zenon DEF Works
  <2>4. /\ w.pc = "issue" /\ w.token = work[r].token /\ w.refused = work[r].refused
        /\ w.error = work[r].error
        /\ w.limit = work[r].limit /\ w.processed = work[r].processed /\ w.total = work[r].total
        /\ w.length = work[r].length /\ w.skipped = work[r].skipped /\ w.tracks = work[r].tracks
        /\ w.method = work[r].method /\ w.next = work[r].next /\ w.seen = work[r].seen
    BY <1>1, <2>1 DEF Works
  <2>5. WorkCounts(w)
    BY <1>1, <2>3, <2>4, SameCounts DEF Tried
  <2>6. WorkTokens(w)
    BY <1>1, <1>2, <2>4 DEF WorkTokens
  <2> QED  BY <1>2, <2>2, <2>3, <2>5, <2>6, OneWork, Zenon
<1> QED  BY <1>3, <1>4

\* A token that is issued is newer than all that were refused.
LEMMA CatalogIssueStep ==
  ASSUME CatalogInv, NEW r \in Askers, Catalogue!Issue(r)
  PROVE  CatalogInv'
<1>1. work[r] \in Works /\ WorkCounts(work[r]) /\ WorkTokens(work[r]) /\ work[r].pc = "issue"
  BY DEF CatalogInv, CatalogTyped, Catalogue!Issue
<1>2. clients' = clients /\ issuing' \in Askers \cup {Nobody}
  BY DEF Catalogue!Issue
<1>3. /\ issued \in 0..MaxTokens /\ MaxTokens \in Nat /\ accepted \subseteq 1..issued
  BY CatalogAssumption DEF CatalogInv, CatalogTyped
<1>4. CASE /\ issued < MaxTokens
           /\ issued' = issued + 1 /\ cached' = issued' /\ accepted' = accepted \cup {issued'}
           /\ work' = [work EXCEPT ![r].pc = "get", ![r].token = issued']
  <2>1. PICK fresh \in Nat : fresh = issued + 1
    BY <1>3
  <2>2. PICK w : w = [work[r] EXCEPT !.pc = "get", !.token = fresh]
    OBVIOUS
  <2>3. work' = [work EXCEPT ![r] = w]
    BY <1>4, <2>1, <2>2, Zenon DEF CatalogInv, CatalogTyped
  <2>4. w \in Works
    BY <1>1, <2>2, Zenon DEF Works
  <2>5. /\ w.pc = "get" /\ w.token = fresh /\ w.refused = work[r].refused /\ w.error = work[r].error
        /\ w.limit = work[r].limit /\ w.processed = work[r].processed /\ w.total = work[r].total
        /\ w.length = work[r].length /\ w.skipped = work[r].skipped /\ w.tracks = work[r].tracks
        /\ w.method = work[r].method /\ w.next = work[r].next /\ w.seen = work[r].seen
    BY <1>1, <2>2 DEF Works
  <2>6. WorkCounts(w)
    BY <1>1, <2>4, <2>5, SameCounts DEF Tried
  <2>7. \A t \in w.refused : t \in Nat /\ t <= issued
    BY <1>1, <2>5 DEF WorkTokens, Works
  <2>8. issued' = fresh /\ cached' = fresh /\ issued < fresh /\ issued \in Nat /\ fresh <= MaxTokens
    BY <1>3, <1>4, <2>1
  <2>9. WorkTokens(w)'
    <3>1. \A t \in w.refused : t <= fresh /\ fresh > t
      BY <2>7, <2>8
    <3>2. w.refused # {} => \E t \in w.refused : w.refused = {t}
      BY <1>1, <2>5 DEF WorkTokens
    <3>3. w.error # "credentials"
      BY <1>1, <2>5 DEF WorkTokens
    <3> QED  BY <2>5, <2>8, <3>1, <3>2, <3>3 DEF WorkTokens
  <2>10. accepted' \subseteq 1..issued'
    BY <1>3, <1>4, <2>8
  <2>11. issued' \in 0..MaxTokens
    BY <1>3, <2>8
  <2>12. issued <= issued' /\ cached' \in Nat /\ cached' <= issued' /\ issued < cached'
    BY <2>8
  <2> QED  BY <1>2, <2>3, <2>4, <2>6, <2>9, <2>10, <2>11, <2>12, WorkStep, Zenon
<1>5. ASSUME NEW error \in {"transport", "credentials"}, Catalogue!Fail(r, error),
             UNCHANGED <<cached, issued, accepted>>
      PROVE  CatalogInv'
  BY <1>2, <1>5, FailStep DEF Faults
<1> QED  BY <1>4, <1>5 DEF Catalogue!Issue

LEMMA CatalogInvalidateStep ==
  ASSUME CatalogInv, NEW r \in Askers, Catalogue!Invalidate(r)
  PROVE  CatalogInv'
<1>1. work[r] \in Works /\ WorkCounts(work[r]) /\ WorkTokens(work[r]) /\ work[r].pc = "invalidate"
  BY DEF CatalogInv, CatalogTyped, Catalogue!Invalidate
<1>2. /\ clients' = clients /\ cached' = 0 /\ issued' = issued /\ accepted' = accepted
      /\ issued \in 0..MaxTokens /\ accepted \subseteq 1..issued /\ issuing' \in Askers \cup {Nobody}
  BY DEF Catalogue!Invalidate, CatalogInv, CatalogTyped
<1>3. PICK w : w = [work[r] EXCEPT !.pc = "token"]
  BY Zenon
<1>4. work' = [work EXCEPT ![r] = w]
  BY <1>3 DEF Catalogue!Invalidate, CatalogInv, CatalogTyped
<1>5. w \in Works
  BY <1>1, <1>3, Zenon DEF Works
<1>6. /\ w.pc = "token" /\ w.token = work[r].token /\ w.refused = work[r].refused
      /\ w.error = work[r].error
      /\ w.limit = work[r].limit /\ w.processed = work[r].processed /\ w.total = work[r].total
      /\ w.length = work[r].length /\ w.skipped = work[r].skipped /\ w.tracks = work[r].tracks
      /\ w.method = work[r].method /\ w.next = work[r].next /\ w.seen = work[r].seen
  BY <1>1, <1>3 DEF Works
<1>7. WorkCounts(w)
  BY <1>1, <1>5, <1>6, SameCounts DEF Tried
<1>8. WorkTokens(w)'
  BY <1>1, <1>2, <1>6 DEF WorkTokens
<1>9. issued \in Nat /\ issued <= issued' /\ cached' <= issued' /\ cached' \in Nat
  BY <1>2
<1> QED  BY <1>2, <1>4, <1>5, <1>7, <1>8, <1>9, WorkStep, Zenon

\* The second token that is refused is not the first.
LEMMA CatalogRefusedStep ==
  ASSUME CatalogInv, NEW r \in Askers, Catalogue!Refused(r)
  PROVE  CatalogInv'
<1>1. work[r] \in Works /\ WorkCounts(work[r]) /\ WorkTokens(work[r]) /\ work[r].pc = "get"
  BY Zenon DEF CatalogInv, CatalogTyped, Catalogue!Refused
<1>2. /\ clients' = clients /\ cached' = cached /\ issued' = issued /\ accepted' = accepted
      /\ issuing' \in Askers \cup {Nobody}
  BY Zenon DEF Catalogue!Refused, Catalogue!tokens, CatalogInv, CatalogTyped
<1>3. PICK token, refused, pc2, error2 :
        /\ token = work[r].token /\ refused = work[r].refused \cup {token}
        /\ pc2 = IF work[r].refused = {} THEN "invalidate" ELSE "failed"
        /\ error2 = IF work[r].refused = {} THEN "none" ELSE "credentials"
  BY Zenon
<1>4. token \in Nat /\ refused \in SUBSET Nat
  BY <1>1, <1>3, Zenon DEF Works
<1>5. PICK w : w = [work[r] EXCEPT !.pc = pc2, !.error = error2, !.refused = refused]
  OBVIOUS
<1>6. work' = [work EXCEPT ![r] = w]
  BY <1>3, <1>5, Zenon DEF Catalogue!Refused, CatalogInv, CatalogTyped
<1>7. w \in Works
  <2>1. pc2 \in {"invalidate", "failed"} /\ error2 \in Faults
    BY <1>3 DEF Faults
  <2> QED  BY <1>1, <1>4, <1>5, <2>1, Zenon DEF Works
<1>8. /\ w.pc = pc2 /\ w.token = token /\ w.refused = refused /\ w.error = error2
      /\ w.limit = work[r].limit /\ w.processed = work[r].processed /\ w.total = work[r].total
      /\ w.length = work[r].length /\ w.skipped = work[r].skipped /\ w.tracks = work[r].tracks
      /\ w.method = work[r].method /\ w.next = work[r].next /\ w.seen = work[r].seen
  BY <1>1, <1>3, <1>5 DEF Works
<1>9. WorkCounts(w)
  <2>1. pc2 \in Tried \cup {"failed"} /\ "get" \in Tried
    BY <1>3 DEF Tried
  <2> QED  BY <1>1, <1>7, <1>8, <2>1, SameCounts
<1>10. WorkTokens(w)
  <2>1. token <= issued /\ \A t \in refused : t <= issued
    BY <1>1, <1>3 DEF WorkTokens
  <2>2. CASE work[r].refused = {}
    <3>1. refused = {token} /\ pc2 = "invalidate" /\ error2 = "none"
      BY <1>3, <2>2
    <3> QED  BY <1>8, <2>1, <3>1 DEF WorkTokens
  <2>3. CASE work[r].refused # {}
    <3>1. PICK t \in work[r].refused : work[r].refused = {t} /\ token > t
      BY <1>1, <1>3, <2>3 DEF WorkTokens
    <3>2. t \in Nat
      BY <1>1, <3>1, Zenon DEF Works
    <3>3. refused = {t, token} /\ t # token
      BY <1>3, <1>4, <3>1, <3>2
    <3>4. Cardinality(refused) = 2
      <4>1. IsFiniteSet({t}) /\ Cardinality({t}) = 1
        BY FS_Singleton, Zenon
      <4>2. refused = {t} \cup {token} /\ token \notin {t}
        BY <3>3
      <4> QED  BY <4>1, <4>2, FS_AddElement
    <3>5. pc2 = "failed"
      BY <1>3, <2>3
    <3> QED  BY <1>8, <2>1, <3>4, <3>5 DEF WorkTokens
  <2> QED  BY <2>2, <2>3
<1> QED  BY <1>2, <1>6, <1>7, <1>9, <1>10, OneWork, Zenon

LEMMA MethodsAnswer ==
  ASSUME NEW p, NEW kind
  PROVE  /\ Catalogue!Method(p, kind) \in Ways
         /\ Catalogue!Method(p, kind) \in {"song", "page", "resource"} => kind = "track"
  BY DEF Catalogue!Method, Ways

LEMMA CatalogStartStep ==
  ASSUME CatalogInv, NEW r \in Askers, Catalogue!Start(r)
  PROVE  CatalogInv'
<1>1. /\ clients' = clients /\ cached' = cached /\ issued' = issued /\ accepted' = accepted
      /\ issuing' \in Askers \cup {Nobody}
  BY Zenon DEF Catalogue!Start, Catalogue!tokens, CatalogInv, CatalogTyped
<1>2. CASE Catalogue!Fail(r, "unsupported")
  BY <1>1, <1>2, FailStep DEF Faults
<1>3. CASE ~Catalogue!Fail(r, "unsupported")
  <2> DEFINE Began(link, limit, method) ==
        \E length \in (IF link[2] = "track" THEN {1} ELSE 0..MaxItems), announced \in BOOLEAN :
          work' = [work EXCEPT ![r] =
            [Catalogue!Idle EXCEPT !.pc = IF method \in {"song", "album"} THEN "token" ELSE "get",
                                   !.method = method, !.limit = limit, !.length = length,
                                   !.total = IF announced THEN length ELSE Catalogue!Unknown]]
  <2>a. \E link \in SomeLinks(r), limit \in 0..(CollectionLimit + 1) :
          IF Catalogue!Method(link[1], link[2]) = "none" \/ limit \notin 1..CollectionLimit
          THEN Catalogue!Fail(r, "unsupported")
          ELSE Began(link, limit, Catalogue!Method(link[1], link[2]))
    BY Zenon DEF Catalogue!Start
  <2> HIDE DEF Began
  <2>b. PICK link, limit, method :
          /\ method = Catalogue!Method(link[1], link[2]) /\ limit \in 1..CollectionLimit
          /\ Began(link, limit, method)
    BY <1>3, <2>a
  <2>1. PICK length, announced :
          /\ length \in (IF link[2] = "track" THEN {1} ELSE 0..MaxItems)
          /\ work' = [work EXCEPT ![r] =
               [Catalogue!Idle EXCEPT !.pc = IF method \in {"song", "album"} THEN "token" ELSE "get",
                                      !.method = method, !.limit = limit, !.length = length,
                                      !.total = IF announced THEN length ELSE Catalogue!Unknown]]
    BY <2>b, Zenon DEF Began
  <2>2. method \in Ways /\ (method \in {"song", "page", "resource"} => length = 1)
    BY <2>1, <2>b, MethodsAnswer
  <2>3. length \in Nat /\ limit \in Nat /\ 1 <= limit /\ limit <= CollectionLimit
    BY <2>1, <2>b, CatalogAssumption
  <2>4. PICK pc2, total : /\ pc2 = IF method \in {"song", "album"} THEN "token" ELSE "get"
                          /\ total = IF announced THEN length ELSE -1
    OBVIOUS
  <2>5. PICK w : w = [Catalogue!Idle EXCEPT !.pc = pc2, !.method = method, !.limit = limit,
                                            !.length = length, !.total = total]
    OBVIOUS
  <2>6. work' = [work EXCEPT ![r] = w]
    BY <2>1, <2>4, <2>5 DEF Catalogue!Unknown
  <2>7. w \in Works
    <3>1. pc2 \in {"token", "get"} /\ total \in Int
      BY <2>3, <2>4
    <3> QED  BY <2>2, <2>3, <2>5, <3>1, IdleWork, Zenon DEF Works
  <2>8. /\ w.pc = pc2 /\ w.method = method /\ w.limit = limit /\ w.length = length
        /\ w.total = total /\ w.tracks = <<>> /\ w.processed = 0 /\ w.skipped = 0
        /\ w.next = 0 /\ w.token = 0 /\ w.refused = {} /\ w.error = "none"
    BY <2>5 DEF Catalogue!Idle
  <2>9. WorkCounts(w)
    <3>1. Len(w.tracks) = 0 /\ Rising(w.tracks)
      BY <2>8 DEF Rising
    <3>2. total \in {-1, length} /\ pc2 \in {"token", "get"}
      BY <2>4
    <3> QED  BY <2>2, <2>3, <2>8, <3>1, <3>2 DEF WorkCounts
  <2>10. WorkTokens(w)
    BY <2>4, <2>8 DEF WorkTokens, CatalogInv, CatalogTyped
  <2> QED  BY <1>1, <2>6, <2>7, <2>9, <2>10, OneWork, Zenon
<1> QED  BY <1>2, <1>3

\* What is returned is what was converted.
LEMMA CatalogFinishStep ==
  ASSUME CatalogInv, NEW r \in Askers, NEW v \in Works, NEW truncated \in BOOLEAN,
         work' = [work EXCEPT ![r] = Catalogue!Finished(v, truncated)], Catalogue!tokens' = Catalogue!tokens,
         clients' = clients, v.limit <= CollectionLimit, v.processed <= v.limit,
         v.skipped + Len(v.tracks) = v.processed, Rising(v.tracks),
         truncated \/ v.processed = Whole(v)
  PROVE  CatalogInv'
<1>1. PICK w : w = Catalogue!Finished(v, truncated)
  OBVIOUS
<1>2. w \in Works
  BY <1>1, IdleWork, Zenon DEF Catalogue!Finished, Works
<1>3. /\ w.pc = "done" /\ w.limit = v.limit /\ w.length = v.length /\ w.tracks = v.tracks
      /\ w.processed = v.processed /\ w.skipped = v.skipped /\ w.truncated = truncated
      /\ w.total = -1 /\ w.token = 0 /\ w.refused = {} /\ w.error = "none"
      /\ w.method = v.method /\ w.returned = v.returned
  BY <1>1 DEF Catalogue!Finished, Catalogue!Idle, Catalogue!Unknown
<1>4. WorkCounts(w)
  BY <1>3 DEF WorkCounts, Whole, Tried
<1>5. WorkTokens(w)
  BY <1>3 DEF WorkTokens, CatalogInv, CatalogTyped
<1>6. /\ cached' = cached /\ issued' = issued /\ accepted' = accepted
      /\ issuing' \in Askers \cup {Nobody}
  BY DEF Catalogue!tokens, CatalogInv, CatalogTyped
<1> QED  BY <1>1, <1>2, <1>4, <1>5, <1>6, OneWork, Zenon

\* What is asked for next follows what was converted.
LEMMA CatalogAgainStep ==
  ASSUME CatalogInv, NEW r \in Askers, NEW v \in Works, NEW offset \in Int,
         work' = [work EXCEPT ![r] = Catalogue!Again(v, offset)], Catalogue!tokens' = Catalogue!tokens,
         clients' = clients, v.limit <= CollectionLimit, v.processed < v.limit,
         v.total \in {-1, v.length}, v.method \in {"album", "linked"},
         v.skipped + Len(v.tracks) = v.processed, Rising(v.tracks), v.error # "credentials",
         v.method = "album" \/ offset \notin v.seen =>
           /\ offset = v.processed /\ v.processed <= v.length
           /\ \A k \in 1..Len(v.tracks) : v.tracks[k] <= v.processed
  PROVE  CatalogInv'
<1>1. PICK w : w = Catalogue!Again(v, offset)
  OBVIOUS
<1>2. w \in Works
  BY <1>1, Zenon DEF Catalogue!Again, Works
<1>3. /\ w.pc \in {"token", "get"} /\ w.limit = v.limit /\ w.length = v.length /\ w.tracks = v.tracks
      /\ w.processed = v.processed /\ w.skipped = v.skipped /\ w.method = v.method
      /\ w.total = v.total /\ w.token = 0 /\ w.refused = {} /\ w.error = v.error
      /\ w.next = offset /\ w.seen = v.seen
  BY <1>1 DEF Catalogue!Again, Works
<1>4. WorkCounts(w)
  <2>1. v.processed \in Nat /\ v.limit \in Nat
    BY DEF Works
  <2> QED  BY <1>3, <2>1 DEF WorkCounts, Tried
<1>5. WorkTokens(w)
  BY <1>3 DEF WorkTokens, CatalogInv, CatalogTyped
<1>6. /\ cached' = cached /\ issued' = issued /\ accepted' = accepted
      /\ issuing' \in Askers \cup {Nobody}
  BY DEF Catalogue!tokens, CatalogInv, CatalogTyped
<1> QED  BY <1>1, <1>2, <1>4, <1>5, <1>6, OneWork, Zenon

\* What all answers of a provider have in common.
LEMMA BeforeAPage ==
  ASSUME CatalogInv, NEW r \in Askers, Catalogue!Served(r)
  PROVE  /\ work[r] \in Works /\ WorkCounts(work[r]) /\ WorkTokens(work[r])
         /\ work[r].pc = "get" /\ work[r].pc \in Tried /\ work[r].error # "credentials"
         /\ work[r].processed \in Nat /\ work[r].limit \in Nat /\ work[r].length \in Nat
         /\ work[r].processed < work[r].limit /\ work[r].limit <= CollectionLimit
         /\ work[r].total \in {-1, work[r].length} /\ CollectionLimit \in Nat
         /\ work[r].skipped + Len(work[r].tracks) = work[r].processed /\ Rising(work[r].tracks)
<1>1. work[r] \in Works /\ WorkCounts(work[r]) /\ WorkTokens(work[r]) /\ work[r].pc = "get"
  BY DEF CatalogInv, CatalogTyped, Catalogue!Served
<1>2. work[r].pc \in Tried
  BY <1>1 DEF Tried
<1> QED  BY <1>1, <1>2, CatalogAssumption, Zenon DEF WorkCounts, WorkTokens, Works

\* The first page of what has not been looked at yet.
LEMMA AtTheStart ==
  ASSUME CatalogInv, NEW r \in Askers, Catalogue!Served(r),
         work[r].method \in {"song", "page", "resource", "embedded", "lookup"}
  PROVE  /\ work[r].processed = 0 /\ work[r].tracks = <<>> /\ work[r].skipped = 0
         /\ \A k \in 1..Len(work[r].tracks) : work[r].tracks[k] <= 0
         /\ work[r].method \in {"song", "page", "resource"} => work[r].length = 1
<1>1. work[r].processed = 0 /\ work[r].tracks = <<>>
      /\ (work[r].method \in {"song", "page", "resource"} => work[r].length = 1)
  BY BeforeAPage DEF WorkCounts
<1>2. Len(work[r].tracks) = 0
  BY <1>1
<1>3. work[r].skipped \in Nat
  BY BeforeAPage DEF Works
<1> QED  BY <1>1, <1>2, <1>3, BeforeAPage

LEMMA CatalogSingleStep ==
  ASSUME CatalogInv, NEW r \in Askers, Catalogue!Single(r)
  PROVE  CatalogInv'
<1>1. Catalogue!Served(r) /\ work[r].method \in {"song", "page", "resource"}
  BY DEF Catalogue!Single
<1>2. {1} \in SUBSET ((0 + 1)..1) /\ 0 \in Nat /\ 1 \in Nat /\ 0 <= 1 /\ 0 + 1 = 1 /\ 1 - 0 = 1
  OBVIOUS
<1>3. PICK v \in Works :
        /\ v = Catalogue!Converted(r, 1, 1, {1})
        /\ v.processed = work[r].processed + 1
        /\ v.skipped + Len(v.tracks) = work[r].skipped + Len(work[r].tracks) + 1
        /\ Rising(v.tracks) /\ v.limit = work[r].limit /\ v.length = work[r].length
        /\ v.method = work[r].method
  <2>1. work[r] \in Works /\ Rising(work[r].tracks)
        /\ \A k \in 1..Len(work[r].tracks) : work[r].tracks[k] <= 0
    BY <1>1, BeforeAPage, AtTheStart
  <2> QED  BY <1>2, <2>1, ConvertedFacts
<1>4. work' = [work EXCEPT ![r] = Catalogue!Finished(v, FALSE)]
      /\ Catalogue!tokens' = Catalogue!tokens /\ clients' = clients
  BY <1>3 DEF Catalogue!Single, Catalogue!tokens
<1>a. work[r].processed = 0 /\ work[r].skipped + Len(work[r].tracks) = 0 /\ work[r].length = 1
  BY <1>1, BeforeAPage, AtTheStart
<1>b. PICK limit \in Nat : limit = work[r].limit /\ 0 < limit /\ limit <= CollectionLimit
  BY <1>1, <1>a, BeforeAPage
<1>5. /\ v.limit <= CollectionLimit /\ v.processed <= v.limit /\ v.processed = v.length
      /\ v.skipped + Len(v.tracks) = v.processed
  BY <1>3, <1>a, <1>b
<1>6. v.processed = Whole(v)
  BY <1>1, <1>3, <1>5 DEF Whole
<1> QED  BY <1>3, <1>4, <1>5, <1>6, CatalogFinishStep, Zenon

LEMMA CatalogEmbeddedStep ==
  ASSUME CatalogInv, NEW r \in Askers, Catalogue!EmbeddedPage(r)
  PROVE  CatalogInv'
<1>1. Catalogue!Served(r) /\ work[r].method = "embedded"
  BY DEF Catalogue!EmbeddedPage
<1>2. PICK length \in Nat, limit \in Nat, total \in Int : length = work[r].length /\ limit = work[r].limit
        /\ total = work[r].total /\ total \in {-1, length} /\ 0 < limit
  BY <1>1, BeforeAPage, AtTheStart DEF Works
<1>a. PICK n \in 0..length :
        /\ n < length => total # -1
        /\ LET upto == IF n < limit THEN n ELSE limit
           IN \E good \in SUBSET (1..upto) :
                work' = [work EXCEPT ![r] =
                  Catalogue!Finished(Catalogue!Converted(r, 1, upto, good),
                                     n > upto \/ Catalogue!Announces(r, upto))]
  BY <1>2, Zenon DEF Catalogue!EmbeddedPage, Catalogue!Unknown
<1>b. PICK upto : upto = IF n < limit THEN n ELSE limit
  OBVIOUS
<1>3. PICK good \in SUBSET (1..upto) :
        work' = [work EXCEPT ![r] =
          Catalogue!Finished(Catalogue!Converted(r, 1, upto, good), n > upto \/ total > upto)]
  BY <1>2, <1>a, <1>b, Zenon DEF Catalogue!Announces
<1>4. upto \in Nat /\ upto <= limit /\ 0 <= upto /\ good \in SUBSET ((0 + 1)..upto)
      /\ 0 \in Nat /\ upto - 0 = upto /\ 0 + 1 = 1
  BY <1>2, <1>a, <1>b
<1>5. PICK v \in Works :
        /\ v = Catalogue!Converted(r, 1, upto, good)
        /\ v.processed = work[r].processed + upto
        /\ v.skipped + Len(v.tracks) = work[r].skipped + Len(work[r].tracks) + upto
        /\ Rising(v.tracks) /\ v.limit = work[r].limit /\ v.length = work[r].length
        /\ v.method = work[r].method
  <2>1. work[r] \in Works /\ Rising(work[r].tracks)
        /\ \A k \in 1..Len(work[r].tracks) : work[r].tracks[k] <= 0
    BY <1>1, BeforeAPage, AtTheStart
  <2> QED  BY <1>4, <2>1, ConvertedFacts
<1>6. PICK truncated \in BOOLEAN : truncated = (n > upto \/ total > upto)
  BY Zenon
<1>7. work' = [work EXCEPT ![r] = Catalogue!Finished(v, truncated)]
      /\ Catalogue!tokens' = Catalogue!tokens /\ clients' = clients
  BY <1>3, <1>5, <1>6, Zenon DEF Catalogue!EmbeddedPage, Catalogue!tokens
<1>8. work[r].processed = 0 /\ work[r].skipped + Len(work[r].tracks) = 0
  BY <1>1, BeforeAPage, AtTheStart
<1>9. /\ v.limit <= CollectionLimit /\ v.processed <= v.limit
      /\ v.skipped + Len(v.tracks) = v.processed
  BY <1>1, <1>2, <1>4, <1>5, <1>8, BeforeAPage
<1>10. truncated \/ v.processed = Whole(v)
  <2>1. SUFFICES ASSUME ~truncated PROVE upto = length
    BY <1>1, <1>2, <1>4, <1>5, <1>8 DEF Whole
  <2>2. ~(n > upto) /\ ~(total > upto)
    BY <1>6, <2>1, Zenon
  <2>3. n = upto
    BY <1>2, <1>a, <1>b, <2>2
  <2> QED  BY <1>2, <1>a, <1>b, <2>2, <2>3
<1> QED  BY <1>5, <1>7, <1>9, <1>10, CatalogFinishStep, Zenon

LEMMA CatalogLookupStep ==
  ASSUME CatalogInv, NEW r \in Askers, Catalogue!LookupPage(r)
  PROVE  CatalogInv'
<1>1. /\ Catalogue!Served(r) /\ work[r].method = "lookup"
      /\ Catalogue!tokens' = Catalogue!tokens /\ clients' = clients
  BY Zenon DEF Catalogue!LookupPage, Catalogue!tokens
<1>2. PICK length \in Nat, limit \in Nat, total \in Int : length = work[r].length /\ limit = work[r].limit
        /\ total = work[r].total /\ 0 < limit
  BY <1>1, BeforeAPage, AtTheStart DEF Works
<1>3. PICK returned \in 0..(IF length < limit + 1 THEN length ELSE limit + 1) :
        LET reported == IF returned = 0 THEN Catalogue!Unknown ELSE total
            upto     == IF returned < limit THEN returned ELSE limit
        IN \E good \in SUBSET (1..upto) :
             work' = [work EXCEPT ![r] =
               Catalogue!Finished([Catalogue!Converted(r, 1, upto, good) EXCEPT !.returned = returned],
                        \/ returned > limit \/ reported > limit
                        \/ returned >= limit + 1 /\ reported = Catalogue!Unknown)]
  BY <1>2, Zenon DEF Catalogue!LookupPage
<1>4. PICK reported, upto : /\ reported = IF returned = 0 THEN Catalogue!Unknown ELSE total
                            /\ upto = IF returned < limit THEN returned ELSE limit
  OBVIOUS
<1>a. PICK good \in SUBSET (1..upto) :
        work' = [work EXCEPT ![r] =
          Catalogue!Finished([Catalogue!Converted(r, 1, upto, good) EXCEPT !.returned = returned],
                   \/ returned > limit \/ reported > limit
                   \/ returned >= limit + 1 /\ reported = Catalogue!Unknown)]
  BY <1>3, <1>4, Zenon
<1>5. upto \in Nat /\ upto <= limit /\ 0 <= upto /\ good \in SUBSET ((0 + 1)..upto)
      /\ 0 \in Nat /\ upto - 0 = upto /\ 0 + 1 = 1 /\ returned \in Nat
  BY <1>2, <1>4
<1>6. PICK u \in Works :
        /\ u = Catalogue!Converted(r, 1, upto, good)
        /\ u.processed = work[r].processed + upto
        /\ u.skipped + Len(u.tracks) = work[r].skipped + Len(work[r].tracks) + upto
        /\ Rising(u.tracks) /\ u.limit = work[r].limit /\ u.method = work[r].method
  <2>1. work[r] \in Works /\ Rising(work[r].tracks)
        /\ \A k \in 1..Len(work[r].tracks) : work[r].tracks[k] <= 0
    BY <1>1, BeforeAPage, AtTheStart
  <2> QED  BY <1>5, <2>1, ConvertedFacts
<1>7. PICK v : v = [u EXCEPT !.returned = returned]
  BY Zenon
<1>b. v \in Works
  BY <1>5, <1>6, <1>7, Zenon DEF Works
<1>c. /\ v.processed = u.processed /\ v.skipped = u.skipped /\ v.tracks = u.tracks
      /\ v.limit = u.limit /\ v.method = u.method /\ v.returned = returned
  BY <1>6, <1>7 DEF Works
<1>8. PICK truncated \in BOOLEAN :
        truncated = (\/ returned > limit \/ reported > limit
                     \/ returned >= limit + 1 /\ reported = Catalogue!Unknown)
  BY Zenon
<1>9. work' = [work EXCEPT ![r] = Catalogue!Finished(v, truncated)]
  BY <1>a, <1>6, <1>7, <1>8, Zenon
<1>d. work[r].processed = 0 /\ work[r].skipped + Len(work[r].tracks) = 0
  BY <1>1, BeforeAPage, AtTheStart
<1>e. v.processed = upto /\ v.skipped + Len(v.tracks) = upto /\ Rising(v.tracks) /\ v.limit = limit
  BY <1>2, <1>5, <1>6, <1>c, <1>d
<1>10. v.limit <= CollectionLimit /\ v.processed <= v.limit /\ v.skipped + Len(v.tracks) = v.processed
  BY <1>1, <1>2, <1>5, <1>e, BeforeAPage
<1>11. truncated \/ v.processed = Whole(v)
  <2>1. SUFFICES ASSUME ~truncated PROVE upto = returned
    BY <1>1, <1>6, <1>c, <1>e DEF Whole
  <2>2. ~(returned > limit)
    BY <1>8, <2>1, Zenon
  <2> QED  BY <1>2, <1>4, <1>5, <2>2
<1> QED  BY <1>1, <1>b, <1>9, <1>e, <1>10, <1>11, CatalogFinishStep, Zenon

\* The numbers of a page that a provider gives.
LEMMA CatalogAlbumStep ==
  ASSUME CatalogInv, NEW r \in Askers, Catalogue!AlbumPage(r)
  PROVE  CatalogInv'
<1>1. /\ Catalogue!Served(r) /\ work[r].method = "album"
      /\ Catalogue!tokens' = Catalogue!tokens /\ clients' = clients
  BY DEF Catalogue!AlbumPage, Catalogue!tokens
<1>2. PICK length \in Nat, limit \in Nat, start \in Nat, total \in Int :
        /\ length = work[r].length /\ limit = work[r].limit /\ start = work[r].processed
        /\ total = work[r].total /\ total \in {-1, length} /\ start < limit /\ limit <= CollectionLimit
  BY <1>1, BeforeAPage, Zenon DEF Works
<1>3. /\ work[r] \in Works /\ Rising(work[r].tracks) /\ work[r].error # "credentials"
      /\ work[r].skipped + Len(work[r].tracks) = start /\ CollectionLimit \in Nat
  BY <1>1, <1>2, BeforeAPage
<1>4. start <= length /\ \A k \in 1..Len(work[r].tracks) : work[r].tracks[k] <= start
  BY <1>1, <1>2, BeforeAPage DEF WorkCounts
<1> DEFINE Given(from, most, n, hadNext) ==
      LET remaining == most - from
          upto      == from + (IF n < remaining THEN n ELSE remaining)
      IN \E good \in SUBSET ((from + 1)..upto) :
           LET w == Catalogue!Converted(r, from + 1, upto, good)
           IN IF upto >= most \/ ~hadNext
              THEN work' = [work EXCEPT ![r] =
                     Catalogue!Finished(w, \/ n > remaining
                                           \/ upto >= most /\ hadNext
                                           \/ Catalogue!Announces(r, upto))]
              ELSE IF n = 0 THEN Catalogue!Fail(r, "invalid")
              ELSE work' = [work EXCEPT ![r] = Catalogue!Again(w, upto)]
<1>a. \E n \in 0..(work[r].length - work[r].processed), hadNext \in BOOLEAN :
        /\ n < work[r].length - work[r].processed => hadNext
        /\ Given(work[r].processed, work[r].limit, n, hadNext)
  BY Zenon DEF Catalogue!AlbumPage
<1> HIDE DEF Given
<1>b. PICK n \in 0..(length - start), hadNext \in BOOLEAN :
        /\ n < length - start => hadNext
        /\ Given(start, limit, n, hadNext)
  BY <1>2, <1>a
<1>5. /\ n \in 0..(length - start) /\ (n < length - start => hadNext)
      /\ Given(start, limit, n, hadNext)
  BY <1>b
<1>6. PICK remaining, upto : /\ remaining = limit - start
                             /\ upto = start + (IF n < remaining THEN n ELSE remaining)
  OBVIOUS
<1>7. PICK good \in SUBSET ((start + 1)..upto) :
        LET w == Catalogue!Converted(r, start + 1, upto, good)
        IN IF upto >= limit \/ ~hadNext
           THEN work' = [work EXCEPT ![r] =
                  Catalogue!Finished(w, \/ n > remaining
                                        \/ upto >= limit /\ hadNext
                                        \/ Catalogue!Announces(r, upto))]
           ELSE IF n = 0 THEN Catalogue!Fail(r, "invalid")
           ELSE work' = [work EXCEPT ![r] = Catalogue!Again(w, upto)]
  BY <1>5, <1>6, Zenon DEF Given
<1>8. upto \in Nat /\ start <= upto /\ upto <= limit /\ upto <= length
  <2>1. start <= length
    BY <1>4
  <2>2. n \in 0..(length - start)
    BY <1>5
  <2>3. remaining = limit - start /\ upto = start + (IF n < remaining THEN n ELSE remaining)
    BY <1>6
  <2>4. start < limit
    BY <1>2
  <2> QED  BY ONLY <2>1, <2>2, <2>3, <2>4, length \in Nat, limit \in Nat, start \in Nat
<1>9. PICK v \in Works :
        /\ v = Catalogue!Converted(r, start + 1, upto, good)
        /\ v.processed = work[r].processed + (upto - start)
        /\ v.skipped + Len(v.tracks) = work[r].skipped + Len(work[r].tracks) + (upto - start)
        /\ Rising(v.tracks) /\ \A k \in 1..Len(v.tracks) : v.tracks[k] <= upto
        /\ v.limit = work[r].limit /\ v.length = work[r].length /\ v.method = work[r].method
        /\ v.total = work[r].total /\ v.error = work[r].error
  BY <1>3, <1>4, <1>8, ConvertedFacts
<1>10. v.processed = upto /\ v.skipped + Len(v.tracks) = upto /\ v.limit = limit /\ v.length = length
  BY <1>2, <1>3, <1>8, <1>9
<1>11. CASE upto >= limit \/ ~hadNext
  <2>1. PICK truncated \in BOOLEAN :
          truncated = (n > remaining \/ (upto >= limit /\ hadNext) \/ Catalogue!Announces(r, upto))
    BY Zenon
  <2>2. work' = [work EXCEPT ![r] = Catalogue!Finished(v, truncated)]
    BY <1>7, <1>9, <1>11, <2>1, Zenon
  <2>3. truncated \/ v.processed = Whole(v)
    <3>1. SUFFICES ASSUME ~truncated PROVE upto = length
      BY <1>1, <1>9, <1>10 DEF Whole
    <3>2. ~(n > remaining) /\ ~(upto >= limit /\ hadNext)
      BY <2>1, <3>1, Zenon
    <3>3. ~(n < length - start)
      BY <1>5, <1>11, <3>2
    <3>4. n = length - start
      BY <1>2, <1>5, <3>3
    <3> QED  BY <1>2, <1>6, <3>2, <3>4
  <2> QED  BY <1>1, <1>2, <1>8, <1>9, <1>10, <2>2, <2>3, CatalogFinishStep, Zenon
<1>12. CASE ~(upto >= limit \/ ~hadNext) /\ n = 0
  <2>1. Catalogue!Fail(r, "invalid")
    BY <1>7, <1>12
  <2>2. /\ cached' = cached /\ issued' = issued /\ accepted' = accepted
        /\ issuing' \in Askers \cup {Nobody} /\ clients' = clients
    BY <1>1 DEF Catalogue!tokens, CatalogInv, CatalogTyped
  <2> QED  BY <2>1, <2>2, FailStep DEF Faults
<1>13. CASE ~(upto >= limit \/ ~hadNext) /\ n # 0
  <2>1. work' = [work EXCEPT ![r] = Catalogue!Again(v, upto)]
    BY <1>7, <1>9, <1>13
  <2>2. v.processed < v.limit /\ v.limit <= CollectionLimit
    BY <1>2, <1>8, <1>10, <1>13
  <2>3. v.total \in {-1, v.length} /\ v.method \in {"album", "linked"} /\ v.error # "credentials"
    BY <1>1, <1>2, <1>3, <1>9, Zenon
  <2>4. /\ upto = v.processed /\ v.processed <= v.length
        /\ \A k \in 1..Len(v.tracks) : v.tracks[k] <= v.processed
    BY <1>8, <1>9, <1>10
  <2>5. v.skipped + Len(v.tracks) = v.processed /\ upto \in Int /\ Rising(v.tracks)
    BY <1>8, <1>9, <1>10
  <2> QED  BY <1>1, <2>1, <2>2, <2>3, <2>4, <2>5, CatalogAgainStep, Zenon
<1> QED  BY <1>11, <1>12, <1>13

LEMMA CatalogLinkedStep ==
  ASSUME CatalogInv, NEW r \in Askers, Catalogue!LinkedPage(r)
  PROVE  CatalogInv'
<1>1. /\ Catalogue!Served(r) /\ work[r].method = "linked"
      /\ Catalogue!tokens' = Catalogue!tokens /\ clients' = clients
  BY DEF Catalogue!LinkedPage, Catalogue!tokens
<1>2. PICK length \in Nat, limit \in Nat, start \in Nat, total \in Int :
        /\ length = work[r].length /\ limit = work[r].limit /\ start = work[r].processed
        /\ total = work[r].total /\ total \in {-1, length} /\ start < limit /\ limit <= CollectionLimit
  BY <1>1, BeforeAPage, Zenon DEF Works
<1>3. /\ work[r] \in Works /\ Rising(work[r].tracks) /\ work[r].error # "credentials"
      /\ work[r].skipped + Len(work[r].tracks) = start /\ CollectionLimit \in Nat
  BY <1>1, <1>2, BeforeAPage
<1>4. /\ cached' = cached /\ issued' = issued /\ accepted' = accepted
      /\ issuing' \in Askers \cup {Nobody} /\ clients' = clients
  BY <1>1 DEF Catalogue!tokens, CatalogInv, CatalogTyped
<1>a. ASSUME Catalogue!Fail(r, "invalid") PROVE CatalogInv'
  BY <1>4, <1>a, FailStep DEF Faults
<1>b. CASE work[r].next \in work[r].seen
  <2>1. Catalogue!Fail(r, "invalid")
    BY <1>b DEF Catalogue!LinkedPage, Catalogue!NewLink
  <2> QED  BY <1>a, <2>1
<1>c. CASE work[r].next \notin work[r].seen
  <2>1. /\ work[r].next = start /\ start <= length
        /\ \A k \in 1..Len(work[r].tracks) : work[r].tracks[k] <= start
    BY <1>1, <1>2, <1>c, BeforeAPage DEF WorkCounts
  <2>2. PICK seen \in SUBSET Int : seen = work[r].seen
    BY <1>3, Zenon DEF Works
  <2> DEFINE Given(from, most, had, n, next) ==
        LET remaining == most - had
            upto      == from + (IF n < remaining THEN n ELSE remaining)
        IN \E good \in SUBSET ((from + 1)..upto) :
             LET w == [Catalogue!Converted(r, from + 1, upto, good) EXCEPT !.seen = @ \cup {from}]
             IN IF n = 0 /\ next # Catalogue!Unknown THEN Catalogue!Fail(r, "invalid")
                ELSE IF w.processed >= w.limit \/ next = Catalogue!Unknown
                THEN work' = [work EXCEPT ![r] =
                       Catalogue!Finished(w, \/ n > remaining \/ next # Catalogue!Unknown
                                             \/ Catalogue!Announces(r, w.processed))]
                ELSE work' = [work EXCEPT ![r] = Catalogue!Again(w, next)]
  <2>a. \E n \in 0..(work[r].length - work[r].next) :
          \E next \in {Catalogue!Unknown, work[r].next + n} \cup work[r].seen :
            /\ n < work[r].length - work[r].next => next # Catalogue!Unknown
            /\ Given(work[r].next, work[r].limit, work[r].processed, n, next)
    BY <1>c, Zenon DEF Catalogue!LinkedPage, Catalogue!NewLink
  <2> HIDE DEF Given
  <2>b. PICK n \in 0..(length - start) :
          \E next \in {Catalogue!Unknown, start + n} \cup seen :
            /\ n < length - start => next # Catalogue!Unknown
            /\ Given(start, limit, start, n, next)
    BY <1>2, <2>1, <2>2, <2>a
  <2>c. PICK next \in {Catalogue!Unknown, start + n} \cup seen :
            /\ n < length - start => next # Catalogue!Unknown
            /\ Given(start, limit, start, n, next)
    BY <2>b
  <2>3. /\ n \in 0..(length - start) /\ (n < length - start => next # Catalogue!Unknown)
        /\ next \in {Catalogue!Unknown, start + n} \cup seen
        /\ Given(start, limit, start, n, next)
    BY <2>b, <2>c
  <2>4. PICK remaining, upto : /\ remaining = limit - start
                               /\ upto = start + (IF n < remaining THEN n ELSE remaining)
    OBVIOUS
  <2>5. PICK good \in SUBSET ((start + 1)..upto) :
          LET w == [Catalogue!Converted(r, start + 1, upto, good) EXCEPT !.seen = @ \cup {start}]
          IN IF n = 0 /\ next # Catalogue!Unknown THEN Catalogue!Fail(r, "invalid")
             ELSE IF w.processed >= w.limit \/ next = Catalogue!Unknown
             THEN work' = [work EXCEPT ![r] =
                    Catalogue!Finished(w, \/ n > remaining \/ next # Catalogue!Unknown
                                          \/ Catalogue!Announces(r, w.processed))]
             ELSE work' = [work EXCEPT ![r] = Catalogue!Again(w, next)]
    BY <2>3, <2>4, Zenon DEF Given
  <2>6. upto \in Nat /\ start <= upto /\ upto <= limit /\ upto <= length
    <3>1. n \in 0..(length - start) /\ start <= length /\ start < limit
      BY <1>2, <2>1, <2>3
    <3>2. n \in Nat /\ n <= length - start
      BY <3>1
    <3> QED  BY <2>4, <3>1, <3>2
  <2>7. PICK u \in Works :
          /\ u = Catalogue!Converted(r, start + 1, upto, good)
          /\ u.processed = work[r].processed + (upto - start)
          /\ u.skipped + Len(u.tracks) = work[r].skipped + Len(work[r].tracks) + (upto - start)
          /\ Rising(u.tracks) /\ \A k \in 1..Len(u.tracks) : u.tracks[k] <= upto
          /\ u.limit = work[r].limit /\ u.length = work[r].length /\ u.method = work[r].method
          /\ u.total = work[r].total /\ u.error = work[r].error /\ u.seen = work[r].seen
    BY <1>3, <2>1, <2>6, ConvertedFacts
  <2>8. u.processed = upto /\ u.skipped + Len(u.tracks) = upto
    BY <1>2, <1>3, <2>6, <2>7
  <2>9. PICK v : v = [u EXCEPT !.seen = @ \cup {start}]
    BY Zenon
  <2>10. v \in Works
    <3>1. u.seen \cup {start} \in SUBSET Int
      BY <2>2, <2>7
    <3> QED  BY <2>7, <2>9, <3>1, Zenon DEF Works
  <2>11. /\ v.processed = upto /\ v.skipped = u.skipped /\ v.tracks = u.tracks
         /\ v.limit = limit /\ v.length = length /\ v.method = "linked" /\ v.total = total
         /\ v.error # "credentials" /\ v.seen = seen \cup {start}
    BY <1>1, <1>2, <1>3, <2>2, <2>7, <2>8, <2>9 DEF Works
  <2>12. v.skipped + Len(v.tracks) = v.processed /\ Rising(v.tracks)
         /\ \A k \in 1..Len(v.tracks) : v.tracks[k] <= upto
    BY <2>7, <2>8, <2>11
  <2>13. CASE n = 0 /\ next # Catalogue!Unknown
    BY <1>a, <2>5, <2>13
  <2>14. CASE ~(n = 0 /\ next # Catalogue!Unknown) /\ (v.processed >= v.limit \/ next = Catalogue!Unknown)
    <3>1. PICK truncated \in BOOLEAN :
            truncated = (\/ n > remaining \/ next # Catalogue!Unknown
                         \/ Catalogue!Announces(r, v.processed))
      BY Zenon
    <3>2. work' = [work EXCEPT ![r] = Catalogue!Finished(v, truncated)]
      BY <2>5, <2>7, <2>9, <2>14, <3>1, Zenon
    <3>3. truncated \/ v.processed = Whole(v)
      <4>1. SUFFICES ASSUME ~truncated PROVE upto = length
        BY <2>11 DEF Whole
      <4>2. ~(n > remaining) /\ next = Catalogue!Unknown
        BY <3>1, <4>1
      <4>3. n = length - start
        BY <1>2, <2>1, <2>3, <4>2
      <4> QED  BY <1>2, <2>4, <4>2, <4>3
    <3>4. v.limit <= CollectionLimit /\ v.processed <= v.limit
      BY <1>2, <2>6, <2>11
    <3> QED  BY <1>1, <2>10, <2>12, <3>2, <3>3, <3>4, CatalogFinishStep, Zenon
  <2>15. CASE ~(n = 0 /\ next # Catalogue!Unknown) /\ ~(v.processed >= v.limit \/ next = Catalogue!Unknown)
    <3>1. work' = [work EXCEPT ![r] = Catalogue!Again(v, next)]
      BY <2>5, <2>7, <2>9, <2>15, Zenon
    <3>2. v.processed < v.limit /\ v.limit <= CollectionLimit
      BY <1>2, <2>6, <2>11, <2>15
    <3>3. next \in Int
      <4>1. start + n \in Int
        BY <2>3
      <4> QED  BY <2>2, <2>3, <2>15, <4>1
    <3>4. next \notin v.seen =>
            /\ next = v.processed /\ v.processed <= v.length
            /\ \A k \in 1..Len(v.tracks) : v.tracks[k] <= v.processed
      <4>1. SUFFICES ASSUME next \notin seen \cup {start} PROVE next = upto
        BY <2>6, <2>11, <2>12
      <4>2. next = start + n
        BY <2>3, <2>15, <4>1
      <4>3. upto < limit
        BY <2>11, <3>2
      <4> QED  BY <1>2, <2>4, <4>2, <4>3
    <3>5. v.total \in {-1, v.length} /\ v.method \in {"album", "linked"} /\ v.method # "album"
      BY <1>2, <2>11
    <3> QED  BY <1>1, <2>10, <2>11, <2>12, <3>1, <3>2, <3>3, <3>4, <3>5, CatalogAgainStep, Zenon
  <2> QED  BY <2>13, <2>14, <2>15
<1> QED  BY <1>b, <1>c

LEMMA CatalogIdleStep ==
  ASSUME CatalogInv, NEW r \in Askers, Catalogue!Cancel(r) \/ Catalogue!Return(r)
  PROVE  CatalogInv'
<1>1. /\ work' = [work EXCEPT ![r] = Catalogue!Idle] /\ clients' = clients
      /\ cached' = cached /\ issued' = issued /\ accepted' = accepted
      /\ issuing' \in Askers \cup {Nobody}
  BY DEF Catalogue!Cancel, Catalogue!Return, Catalogue!tokens, CatalogInv, CatalogTyped
<1>2. Catalogue!Idle \in Works /\ WorkCounts(Catalogue!Idle) /\ WorkTokens(Catalogue!Idle)
  BY IdleWork DEF CatalogInv
<1> QED  BY <1>1, <1>2, OneWork, Zenon

LEMMA CatalogRejectedStep ==
  ASSUME CatalogInv, NEW r \in Askers, Catalogue!Rejected(r)
  PROVE  CatalogInv'
<1>1. /\ cached' = cached /\ issued' = issued /\ accepted' = accepted /\ clients' = clients
      /\ issuing' \in Askers \cup {Nobody}
  BY DEF Catalogue!Rejected, Catalogue!tokens, CatalogInv, CatalogTyped
<1>2. PICK error \in Faults : Catalogue!Fail(r, error)
  BY Zenon DEF Catalogue!Rejected, Faults
<1> QED  BY <1>1, <1>2, FailStep

\* A token that expires or is revoked refuses nobody yet.
LEMMA CatalogTimeStep ==
  ASSUME CatalogInv, Catalogue!Expire \/ Catalogue!Revoke
  PROVE  CatalogInv'
<1>1. /\ clients' = clients /\ work' = work /\ issuing' = issuing /\ issued' = issued
      /\ cached' = cached \/ cached' = 0
      /\ accepted' \subseteq accepted
  BY DEF Catalogue!Expire, Catalogue!Revoke
<1>2. CatalogTyped'
  BY <1>1, CatalogAssumption DEF CatalogInv, CatalogTyped
<1>3. ASSUME NEW q \in Askers PROVE WorkCounts(work[q])'
  BY <1>1 DEF WorkCounts, Rising, CatalogInv
<1>4. ASSUME NEW q \in Askers PROVE WorkTokens(work[q])'
  BY <1>1 DEF WorkTokens, CatalogInv
<1> QED  BY <1>2, <1>3, <1>4 DEF CatalogInv

LEMMA CatalogStep ==
  ASSUME CatalogInv, [Catalogue!Next]_catalogVars
  PROVE  CatalogInv'
<1>1. CASE UNCHANGED catalogVars
  <2>1. CatalogTyped'
    BY <1>1 DEF CatalogInv, CatalogTyped, catalogVars
  <2>2. ASSUME NEW q \in Askers PROVE (WorkCounts(work[q]) /\ WorkTokens(work[q]))'
    BY <1>1 DEF WorkCounts, WorkTokens, Rising, CatalogInv, catalogVars
  <2> QED  BY <2>1, <2>2 DEF CatalogInv
<1>2. ASSUME NEW r \in Askers,
             \/ Catalogue!Start(r) \/ Catalogue!Token(r) \/ Catalogue!Issue(r) \/ Catalogue!Refused(r)
             \/ Catalogue!Invalidate(r) \/ Catalogue!Rejected(r) \/ Catalogue!Single(r)
             \/ Catalogue!AlbumPage(r) \/ Catalogue!LinkedPage(r) \/ Catalogue!EmbeddedPage(r)
             \/ Catalogue!LookupPage(r) \/ Catalogue!Cancel(r) \/ Catalogue!Return(r)
      PROVE  CatalogInv'
  BY <1>2, CatalogStartStep, CatalogTokenStep, CatalogIssueStep, CatalogRefusedStep,
     CatalogInvalidateStep, CatalogRejectedStep, CatalogSingleStep, CatalogAlbumStep,
     CatalogLinkedStep, CatalogEmbeddedStep, CatalogLookupStep, CatalogIdleStep
<1> QED  BY <1>1, <1>2, CatalogTimeStep DEF Catalogue!Next, Askers

LEMMA CatalogStart ==
  ASSUME Catalogue!Init
  PROVE  CatalogInv
<1>1. CatalogTyped
  <2>1. work \in [Askers -> Works]
    BY IdleWork DEF Catalogue!Init, Askers
  <2> QED  BY <2>1, CatalogAssumption DEF Catalogue!Init, Catalogue!Providers, CatalogTyped
<1>2. ASSUME NEW q \in Askers PROVE WorkCounts(work[q]) /\ WorkTokens(work[q])
  <2>1. work[q] = Catalogue!Idle
    BY DEF Catalogue!Init, Askers
  <2> QED  BY <1>1, <2>1, IdleWork
<1> QED  BY <1>1, <1>2 DEF CatalogInv

LEMMA CatalogPromise ==
  ASSUME CatalogInv
  PROVE  Catalogue!TypeOK /\ Catalogue!CollectionIsHonest /\ Catalogue!RefusalIsConfirmed
<1>1. ASSUME NEW r \in Askers
      PROVE  /\ work[r].pc \in {"idle", "token", "issue", "get", "invalidate", "done", "failed"}
             /\ work[r].processed \in 0..CollectionLimit
             /\ work[r].skipped + Len(work[r].tracks) = work[r].processed
  <2>1. work[r] \in Works /\ WorkCounts(work[r])
    BY DEF CatalogInv, CatalogTyped
  <2> QED  BY <2>1, CatalogAssumption DEF WorkCounts, Works
<1>2. Catalogue!TypeOK
  BY <1>1, CatalogAssumption DEF Catalogue!TypeOK, CatalogInv, CatalogTyped, Askers, Catalogue!Providers
<1>3. ASSUME NEW r \in Askers, work[r].pc = "done"
      PROVE  /\ \A i \in 1..(Len(work[r].tracks) - 1) : work[r].tracks[i] < work[r].tracks[i + 1]
             /\ work[r].processed <= work[r].limit
             /\ work[r].truncated \/ work[r].processed = Whole(work[r])
  <2>1. work[r] \in Works /\ WorkCounts(work[r])
    BY DEF CatalogInv, CatalogTyped
  <2>2. ASSUME NEW i \in 1..(Len(work[r].tracks) - 1)
        PROVE  work[r].tracks[i] < work[r].tracks[i + 1]
    <3>1. PICK m \in Nat : m = Len(work[r].tracks)
      BY <2>1 DEF Works
    <3>2. i \in 1..m /\ i + 1 \in 1..m /\ i < i + 1
      BY <3>1
    <3> QED  BY <2>1, <3>1, <3>2 DEF WorkCounts, Rising
  <2> QED  BY <1>3, <2>1, <2>2 DEF WorkCounts
<1>4. Catalogue!CollectionIsHonest
  BY <1>3 DEF Catalogue!CollectionIsHonest, Whole, Askers
<1>5. Catalogue!RefusalIsConfirmed
  BY CatalogCardinality DEF Catalogue!RefusalIsConfirmed, CatalogInv, WorkTokens, Askers
<1> QED  BY <1>2, <1>4, <1>5

-----------------------------------------------------------------------------
(* The search of media sites.                                              *)

LEMMA SiteCardinality == \A S : Site!Cardinality(S) = Cardinality(S)
  BY Zenon DEF Site!Cardinality, Cardinality

SiteTyped ==
  /\ search \in [artists : BOOLEAN, duration : BOOLEAN]
  /\ pc \in {"first", "search", "try", "done"} /\ provider \in {"youtube", "soundcloud"}
  /\ listed \in Seq(SomeListings) /\ Len(listed) <= MaxListed
  /\ untried \in Seq(Nat)
  /\ result.kind \in {"none", "error", "match"}

StillMatching ==
  \A k \in 1..Len(untried) : untried[k] \in 1..Len(listed) /\ Site!Matches(listed[untried[k]])

\* What is still to be tried is a selection of what was listed, best first.
SiteInv ==
  /\ SiteTyped
  /\ StillMatching
  /\ Site!BestFirst
  /\ Site!MatchIsFaithful

LEMMA ListingsAreOfAllKinds == SomeListings \subseteq Site!AllListings
  BY DEF SomeListings, Site!AllListings

LEMMA ListingsScore ==
  ASSUME NEW l \in Site!AllListings
  PROVE  Site!Score(l) \in Int
<1>1. Site!TitleScore(l) \in Int
  <2>1. l.title \in {"same", "contains", "overlaps", "differs"}
    BY DEF Site!AllListings
  <2> QED  BY <2>1 DEF Site!TitleScore
<1>2. Site!ArtistScore(l) \in Int
  <2>1. l.artists \in 0..2
    BY DEF Site!AllListings
  <2> QED  BY <2>1 DEF Site!ArtistScore
<1>3. Site!DurationScore(l) \in Int
  <2>1. l.duration \in {"unknown", "close", "tolerated", "far"}
    BY DEF Site!AllListings
  <2> QED  BY <2>1 DEF Site!DurationScore, Site!Compared
<1> HIDE DEF Site!TitleScore, Site!ArtistScore, Site!DurationScore
<1> QED  BY <1>1, <1>2, <1>3 DEF Site!Score

\* A listing that matches is of the title, of the artists and of the length.
LEMMA MatchesAreFaithful ==
  ASSUME NEW l \in Site!AllListings, Site!Matches(l)
  PROVE  /\ ~l.conflict /\ l.title # "differs" /\ (search.artists => l.artists > 0)
         /\ search.duration /\ l.duration # "unknown" => l.duration # "far"
<1>1. ~Site!Disqualified(l)
  BY DEF Site!Matches
<1>2. l.title # "differs"
  BY <1>1 DEF Site!Disqualified, Site!TitleScore
<1>3. ~l.conflict /\ ~(search.artists /\ l.artists = 0)
      /\ ~(search.duration /\ l.duration # "unknown" /\ l.duration = "far")
  BY <1>1 DEF Site!Disqualified, Site!Compared
<1>4. l.artists \in 0..2
  BY DEF Site!AllListings
<1> QED  BY <1>2, <1>3, <1>4

\* Scores and matches depend on the search only.
LEMMA SameSearch ==
  ASSUME search' = search
  PROVE  \A l : Site!Score(l)' = Site!Score(l) /\ (Site!Matches(l)' <=> Site!Matches(l))
  BY DEF Site!Score, Site!Matches, Site!Disqualified, Site!TitleScore, Site!ArtistScore,
         Site!DurationScore, Site!Compared

\* The ranking puts the better before the worse, and only what matches.
LEMMA RankedFacts ==
  ASSUME listed' \in Seq(SomeListings)
  PROVE  \E q \in Seq(Nat) :
           /\ q = Site!Ranked
           /\ \A k \in 1..Len(q) : q[k] \in 1..Len(listed') /\ Site!Matches(listed'[q[k]])
           /\ \A j, k \in 1..Len(q) : j < k =>
                \/ Site!Score(listed'[q[j]]) > Site!Score(listed'[q[k]])
                \/ Site!Score(listed'[q[j]]) = Site!Score(listed'[q[k]]) /\ q[j] < q[k]
<1> DEFINE good == {i \in DOMAIN listed' : Site!Matches(listed'[i])}
           rel == {p \in good \X good : \/ Site!Score(listed'[p[1]]) > Site!Score(listed'[p[2]])
                                        \/ Site!Score(listed'[p[1]]) = Site!Score(listed'[p[2]]) /\ p[1] < p[2]}
           sorted == [n \in 1..Cardinality(good) |->
                        CHOOSE x \in good : Cardinality({y \in good :
                          \/ Site!Score(listed'[y]) > Site!Score(listed'[x])
                          \/ Site!Score(listed'[y]) = Site!Score(listed'[x]) /\ y < x}) = n - 1]
<1>1. PICK size \in Nat : size = Len(listed') /\ DOMAIN listed' = 1..size
  OBVIOUS
<1>2. /\ good \subseteq 1..size /\ IsFiniteSet(good)
      /\ \A i \in good : i \in Nat /\ i \in 1..size /\ Site!Matches(listed'[i]) /\ Site!Score(listed'[i]) \in Int
  <2>1. good \subseteq 1..size
    BY <1>1
  <2>2. IsFiniteSet(1..size)
    BY <1>1, UpTo
  <2>3. IsFiniteSet(good)
    BY <2>1, <2>2, FS_Subset
  <2>4. \A i \in good : i \in 1..size /\ i \in Nat /\ Site!Matches(listed'[i])
    BY <1>1
  <2>5. \A i \in 1..size : listed'[i] \in Site!AllListings
    BY <1>1, ListingsAreOfAllKinds
  <2>6. \A i \in good : Site!Score(listed'[i]) \in Int
    BY <2>1, <2>5, ListingsScore
  <2> QED  BY <2>1, <2>3, <2>4, <2>6
<1>3. Site!Ranked = SubSeq(sorted, 1, IF Len(sorted) < 3 THEN Len(sorted) ELSE 3)
  BY Zenon DEF Site!Ranked, Site!Sorted, Site!Better, Site!MAXIMUM_CANDIDATES_TO_RESOLVE,
               Site!Cardinality, Cardinality
<1>4. \A x, y \in good : <<y, x>> \in rel <=> \/ Site!Score(listed'[y]) > Site!Score(listed'[x])
                                              \/ Site!Score(listed'[y]) = Site!Score(listed'[x]) /\ y < x
  OBVIOUS
<1>5. PICK q : q = sorted
  BY Zenon
<1>6. PICK m \in Nat : m = Cardinality(good)
  BY <1>2, FS_CardinalityType, Zenon
<1> HIDE DEF good
<1>7. Orders(rel, good)
  <2> SUFFICES /\ \A a \in good : <<a, a>> \notin rel
               /\ \A a, b \in good : a # b => <<a, b>> \in rel \/ <<b, a>> \in rel
               /\ \A a, b, c \in good : <<a, b>> \in rel /\ <<b, c>> \in rel => <<a, c>> \in rel
    BY DEF Orders
  <2> QED  BY <1>2, <1>4
<1>8. ASSUME NEW n \in 1..m
      PROVE  q[n] \in good /\ Cardinality(Below(good, rel, q[n])) = n - 1
  <2> DEFINE Worse(x) == {y \in good : \/ Site!Score(listed'[y]) > Site!Score(listed'[x])
                                       \/ Site!Score(listed'[y]) = Site!Score(listed'[x]) /\ y < x}
             At(x) == Cardinality(Worse(x)) = n - 1
  <2>1. \A x \in good : Worse(x) = Below(good, rel, x)
    BY <1>4 DEF Below
  <2>2. q[n] = CHOOSE x \in good : At(x)
    BY <1>5, <1>6, Zenon
  <2> HIDE DEF Worse
  <2>3. \A x \in good : At(x) <=> Cardinality(Below(good, rel, x)) = n - 1
    BY <2>1
  <2> HIDE DEF rel
  <2>4. \E x \in good : Cardinality(Below(good, rel, x)) = n - 1
    BY <1>2, <1>6, <1>7, PlacesAreTaken, Zenon
  <2> HIDE DEF At
  <2> QED  BY <2>2, <2>3, <2>4
<1>9. q \in [1..m -> good]
  BY <1>5, <1>6, <1>8, Zenon
<1>10. q \in Seq(good) /\ Len(q) = m
  BY <1>6, <1>9, FunctionIsSeq
<1>11. ASSUME NEW j \in 1..m, NEW k \in 1..m, j < k PROVE <<q[j], q[k]>> \in rel
  <2> HIDE DEF rel
  <2>1. <<q[j], q[k]>> \in rel
          <=> Cardinality(Below(good, rel, q[j])) < Cardinality(Below(good, rel, q[k]))
    BY <1>2, <1>7, <1>8, BelowGrows
  <2>2. Cardinality(Below(good, rel, q[j])) = j - 1 /\ Cardinality(Below(good, rel, q[k])) = k - 1
    BY <1>8
  <2>3. j - 1 < k - 1
    BY <1>6, <1>11
  <2> QED  BY <2>1, <2>2, <2>3
<1>12. PICK most \in Nat : most = (IF m < 3 THEN m ELSE 3) /\ most <= m
  BY <1>6
<1>13. PICK head : head = SubSeq(q, 1, most)
  BY Zenon
<1>14. head \in Seq(Nat) /\ Len(head) = most /\ \A k \in 1..most : head[k] = q[k]
  <2>1. good \subseteq Nat
    BY <1>2
  <2>2. q \in Seq(Nat)
    <3>1. q \in [1..m -> Nat]
      BY <1>9, <2>1, Zenon
    <3> QED  BY <1>6, <3>1, FunctionIsSeq, Zenon
  <2>3. \A k \in 1..most : k \in 1..m
    BY <1>6, <1>12
  <2> QED  BY <1>10, <1>12, <1>13, <2>2, <2>3, SubSeqProperties
<1>15. head = Site!Ranked
  BY <1>3, <1>5, <1>10, <1>12, <1>13, Zenon
<1>16. ASSUME NEW k \in 1..most PROVE head[k] \in good /\ k \in 1..m
  <2>1. k \in 1..m
    BY <1>6, <1>12
  <2> QED  BY <1>9, <1>14, <2>1
<1>17. ASSUME NEW j \in 1..most, NEW k \in 1..most, j < k PROVE <<head[j], head[k]>> \in rel
  BY <1>11, <1>14, <1>16, <1>17, Zenon
<1> HIDE DEF rel
<1>18. \A j, k \in 1..most : j < k =>
                \/ Site!Score(listed'[head[j]]) > Site!Score(listed'[head[k]])
                \/ Site!Score(listed'[head[j]]) = Site!Score(listed'[head[k]]) /\ head[j] < head[k]
  BY <1>4, <1>16, <1>17, Zenon
<1> QED  BY <1>1, <1>2, <1>14, <1>15, <1>16, <1>18, Zenon

\* A search that is over has nothing left to try.
LEMMA FinishStep ==
  ASSUME SiteInv, NEW r, Site!Finish(r), search' = search, provider' = provider,
         r.kind \in {"error", "match"},
         r.kind = "match" =>
           /\ ~r.listing.conflict /\ r.listing.title # "differs"
           /\ (search.artists => r.listing.artists > 0)
           /\ (search.duration => r.duration # "far")
  PROVE  SiteInv'
<1>1. /\ pc' = "done" /\ result' = r /\ listed' = <<>> /\ untried' = <<>>
      /\ Len(<<>>) = 0
  BY DEF Site!Finish
<1>2. SiteTyped'
  <2>1. <<>> \in Seq(SomeListings) /\ <<>> \in Seq(Nat) /\ 0 <= MaxListed
    BY SearchAssumption
  <2> QED  BY <1>1, <2>1 DEF SiteInv, SiteTyped
<1>3. Site!BestFirst'
  BY <1>1 DEF Site!BestFirst
<1>4. Site!MatchIsFaithful'
  BY <1>1 DEF Site!MatchIsFaithful
<1>5. StillMatching'
  BY <1>1 DEF StillMatching
<1> QED  BY <1>2, <1>3, <1>4, <1>5 DEF SiteInv

LEMMA ErrorStep ==
  ASSUME SiteInv, NEW e, Site!Finish(Site!Error(e)), search' = search, provider' = provider
  PROVE  SiteInv'
<1>1. PICK r : r = Site!Error(e)
  OBVIOUS
<1>2. r.kind = "error"
  BY <1>1 DEF Site!Error
<1> QED  BY <1>1, <1>2, FinishStep

LEMMA FoundStep ==
  ASSUME SiteInv, NEW l \in Site!AllListings, NEW d, Site!Matches(l), search.duration => d # "far",
         Site!Finish(Site!Found(l, d)), search' = search, provider' = provider
  PROVE  SiteInv'
<1>1. PICK r : r = Site!Found(l, d)
  OBVIOUS
<1>2. r.kind = "match" /\ r.listing = l /\ r.duration = d
  BY <1>1 DEF Site!Found
<1> QED  BY <1>1, <1>2, FinishStep, MatchesAreFaithful

\* Nothing that the search knows changes.
LEMMA SameRanking ==
  ASSUME SiteInv, search' = search, listed' = listed, untried' = untried, result' = result,
         pc' \in {"first", "search", "try", "done"}, provider' = provider
  PROVE  SiteInv'
<1>1. SiteTyped' /\ Site!MatchIsFaithful'
  BY DEF SiteInv, SiteTyped, Site!MatchIsFaithful
<1>2. \A l : Site!Score(l)' = Site!Score(l) /\ (Site!Matches(l)' <=> Site!Matches(l))
  BY SameSearch
<1>3. Site!BestFirst'
  BY <1>2 DEF Site!BestFirst, SiteInv
<1>4. StillMatching'
  BY <1>2 DEF SiteInv, StillMatching
<1> QED  BY <1>1, <1>3, <1>4 DEF SiteInv

LEMMA ExhaustedStep ==
  ASSUME SiteInv, Site!Exhausted, search' = search
  PROVE  SiteInv'
<1>1. CASE provider = "youtube"
  <2>1. /\ pc' = "search" /\ provider' = "soundcloud" /\ listed' = <<>> /\ untried' = <<>>
        /\ result' = result /\ Len(<<>>) = 0
    BY <1>1 DEF Site!Exhausted
  <2>2. SiteTyped'
    <3>1. <<>> \in Seq(SomeListings) /\ <<>> \in Seq(Nat) /\ 0 <= MaxListed
      BY SearchAssumption
    <3> QED  BY <2>1, <3>1 DEF SiteInv, SiteTyped
  <2>3. Site!BestFirst'
    BY <2>1 DEF Site!BestFirst
  <2>4. Site!MatchIsFaithful'
    BY <2>1 DEF Site!MatchIsFaithful, SiteInv
  <2>5. StillMatching'
    BY <2>1 DEF StillMatching
  <2> QED  BY <2>2, <2>3, <2>4, <2>5 DEF SiteInv
<1>2. CASE provider # "youtube"
  BY <1>2, ErrorStep DEF Site!Exhausted
<1> QED  BY <1>1, <1>2

LEMMA FirstStep ==
  ASSUME SiteInv, Site!First
  PROVE  SiteInv'
<1>1. search' = search
  BY DEF Site!First
<1>2. ASSUME NEW l \in Site!AllListings, l.duration # "unknown", Site!Matches(l),
             Site!Finish(Site!Found(l, l.duration)), provider' = provider
      PROVE  SiteInv'
  <2>1. search.duration => l.duration # "far"
    BY <1>2, MatchesAreFaithful
  <2> QED  BY <1>1, <1>2, <2>1, FoundStep
<1>3. CASE pc' = "search" /\ UNCHANGED <<provider, listed, untried, result>>
  BY <1>1, <1>3, SameRanking
<1>4. CASE Site!Exhausted
  BY <1>1, <1>4, ExhaustedStep
<1>5. ASSUME NEW e, Site!Finish(Site!Error(e)), provider' = provider PROVE SiteInv'
  BY <1>1, <1>5, ErrorStep
<1> QED  BY <1>2, <1>3, <1>4, <1>5 DEF Site!First

LEMMA SearchStep ==
  ASSUME SiteInv, Site!Search
  PROVE  SiteInv'
<1>1. search' = search
  BY DEF Site!Search
<1>2. ASSUME NEW s \in UNION {[1..n -> SomeListings] : n \in 0..MaxListed},
             listed' = s, untried' = Site!Ranked, pc' = "try", UNCHANGED <<provider, result>>
      PROVE  SiteInv'
  <2>1. PICK n \in 0..MaxListed : s \in [1..n -> SomeListings]
    BY <1>2
  <2>2. n \in Nat /\ n <= MaxListed
    BY <2>1, SearchAssumption
  <2>3. listed' \in Seq(SomeListings) /\ Len(listed') <= MaxListed
    BY <1>2, <2>1, <2>2, FunctionIsSeq
  <2>4. PICK q \in Seq(Nat) :
          /\ q = Site!Ranked
          /\ \A k \in 1..Len(q) : q[k] \in 1..Len(listed') /\ Site!Matches(listed'[q[k]])
          /\ \A j, k \in 1..Len(q) : j < k =>
               \/ Site!Score(listed'[q[j]]) > Site!Score(listed'[q[k]])
               \/ Site!Score(listed'[q[j]]) = Site!Score(listed'[q[k]]) /\ q[j] < q[k]
    BY <2>3, RankedFacts
  <2>5. untried' = q
    BY <1>2, <2>4
  <2>6. \A l : Site!Score(l)' = Site!Score(l) /\ (Site!Matches(l)' <=> Site!Matches(l))
    BY <1>1, SameSearch
  <2>7. Site!BestFirst'
    <3>1. PICK s2 : s2 = listed'
      OBVIOUS
    <3>2. \A j, k \in 1..Len(q) : j < k =>
            \/ Site!Score(s2[q[j]])' > Site!Score(s2[q[k]])'
            \/ Site!Score(s2[q[j]])' = Site!Score(s2[q[k]])' /\ q[j] < q[k]
      BY <2>4, <2>6, <3>1
    <3> QED  BY <2>5, <3>1, <3>2 DEF Site!BestFirst
  <2>8. StillMatching'
    BY <2>4, <2>5, <2>6 DEF StillMatching
  <2>9. SiteTyped' /\ Site!MatchIsFaithful'
    BY <1>1, <1>2, <2>3, <2>5 DEF SiteInv, SiteTyped, Site!MatchIsFaithful
  <2> QED  BY <2>7, <2>8, <2>9 DEF SiteInv
<1>3. CASE Site!Exhausted
  BY <1>1, <1>3, ExhaustedStep
<1>4. ASSUME NEW e, Site!Finish(Site!Error(e)), provider' = provider PROVE SiteInv'
  BY <1>1, <1>4, ErrorStep
<1> QED  BY <1>2, <1>3, <1>4 DEF Site!Search

LEMMA TryStep ==
  ASSUME SiteInv, Site!Try
  PROVE  SiteInv'
<1>1. search' = search
  BY DEF Site!Try
<1>2. ASSUME untried # <<>>, untried' = Tail(untried), UNCHANGED <<pc, provider, listed, result>>
      PROVE  SiteInv'
  <2>1. PICK q \in Seq(Nat), m \in Nat : q = untried /\ m = Len(q) /\ q # <<>>
    BY <1>2 DEF SiteInv, SiteTyped
  <2>a. PICK rest : rest = Tail(q)
    BY Zenon
  <2>2. /\ rest \in Seq(Nat) /\ rest = Tail(q) /\ Len(rest) = m - 1
        /\ \A k \in 1..(m - 1) : rest[k] = q[k + 1]
    BY <2>1, <2>a
  <2>3. untried' = rest /\ listed' = listed
    BY <1>2, <2>1, <2>2
  <2>4. \A l : Site!Score(l)' = Site!Score(l) /\ (Site!Matches(l)' <=> Site!Matches(l))
    BY <1>1, SameSearch
  <2>5. \A k \in 1..(m - 1) : k + 1 \in 1..m
    BY <2>1
  <2>6. StillMatching'
    BY <2>1, <2>2, <2>3, <2>4, <2>5 DEF SiteInv, StillMatching
  <2>7. Site!BestFirst'
    <3>1. PICK s : s = listed
      OBVIOUS
    <3>2. \A i, j \in 1..m : i < j =>
            \/ Site!Score(s[q[i]]) > Site!Score(s[q[j]])
            \/ Site!Score(s[q[i]]) = Site!Score(s[q[j]]) /\ q[i] < q[j]
      BY <2>1, <3>1 DEF SiteInv, Site!BestFirst
    <3>3. \A i, j \in 1..(m - 1) : i < j =>
            \/ Site!Score(s[rest[i]])' > Site!Score(s[rest[j]])'
            \/ Site!Score(s[rest[i]])' = Site!Score(s[rest[j]])' /\ rest[i] < rest[j]
      <4> SUFFICES ASSUME NEW i \in 1..(m - 1), NEW j \in 1..(m - 1), i < j
                   PROVE  \/ Site!Score(s[rest[i]])' > Site!Score(s[rest[j]])'
                          \/ Site!Score(s[rest[i]])' = Site!Score(s[rest[j]])' /\ rest[i] < rest[j]
        OBVIOUS
      <4>1. i + 1 \in 1..m /\ j + 1 \in 1..m /\ i + 1 < j + 1
        BY <2>1
      <4>2. rest[i] = q[i + 1] /\ rest[j] = q[j + 1]
        BY <2>2
      <4> QED  BY <2>4, <3>2, <4>1, <4>2
    <3> QED  BY <2>2, <2>3, <3>1, <3>3 DEF Site!BestFirst
  <2>8. SiteTyped' /\ Site!MatchIsFaithful'
    BY <1>1, <1>2, <2>2, <2>3 DEF SiteInv, SiteTyped, Site!MatchIsFaithful
  <2> QED  BY <2>6, <2>7, <2>8 DEF SiteInv
<1>3. ASSUME untried # <<>>, NEW d \in Site!Durations, Site!DurationMatches(d),
             Site!Finish(Site!Found(listed[Head(untried)], d)), provider' = provider
      PROVE  SiteInv'
  <2>1. PICK l : l = listed[Head(untried)]
    OBVIOUS
  <2>2. Head(untried) = untried[1] /\ 1 \in 1..Len(untried)
    BY <1>3 DEF SiteInv, SiteTyped
  <2>3. untried[1] \in 1..Len(listed) /\ Site!Matches(listed[untried[1]])
    BY <2>2 DEF SiteInv, StillMatching
  <2>4. l \in SomeListings
    BY <2>1, <2>2, <2>3 DEF SiteInv, SiteTyped
  <2>5. Site!Matches(l) /\ l \in Site!AllListings
    BY <2>1, <2>2, <2>3, <2>4, ListingsAreOfAllKinds
  <2>6. search.duration => d # "far"
    BY <1>3 DEF Site!DurationMatches
  <2> QED  BY <1>1, <1>3, <2>1, <2>5, <2>6, FoundStep
<1>4. ASSUME NEW e, Site!Finish(Site!Error(e)), provider' = provider PROVE SiteInv'
  BY <1>1, <1>4, ErrorStep
<1>5. CASE Site!Exhausted
  BY <1>1, <1>5, ExhaustedStep
<1> QED  BY <1>2, <1>3, <1>4, <1>5 DEF Site!Try

LEMMA SiteStep ==
  ASSUME SiteInv, [Site!Next]_searchVars
  PROVE  SiteInv'
<1>1. CASE UNCHANGED searchVars
  <2>1. pc \in {"first", "search", "try", "done"}
    BY DEF SiteInv, SiteTyped
  <2> QED  BY <1>1, <2>1, SameRanking DEF searchVars
<1> QED  BY <1>1, FirstStep, SearchStep, TryStep DEF Site!Next

LEMMA SiteStart ==
  ASSUME Site!Init
  PROVE  SiteInv
<1>1. /\ listed = <<>> /\ untried = <<>> /\ result = Site!NoResult /\ Len(<<>>) = 0
      /\ <<>> \in Seq(SomeListings) /\ <<>> \in Seq(Nat) /\ 0 <= MaxListed
  BY SearchAssumption DEF Site!Init
<1>2. result.kind = "none"
  BY <1>1 DEF Site!NoResult
<1>3. SiteTyped
  BY <1>1, <1>2 DEF Site!Init, SiteTyped
<1>4. Site!BestFirst /\ Site!MatchIsFaithful
  BY <1>1, <1>2 DEF Site!BestFirst, Site!MatchIsFaithful
<1> QED  BY <1>1, <1>3, <1>4 DEF SiteInv, StillMatching

LEMMA SitePromise ==
  ASSUME SiteInv
  PROVE  Site!TypeOK /\ Site!MatchIsFaithful /\ Site!BestFirst
<1>1. \A i \in 1..Len(untried) : untried[i] \in DOMAIN listed
  BY DEF SiteInv, SiteTyped, StillMatching
<1> QED  BY <1>1 DEF SiteInv, SiteTyped, Site!TypeOK

-----------------------------------------------------------------------------
(* The dashboard page.                                                     *)

Pages == [auth : {Nothing} \cup {<<p>> : p \in SUBSET {g1, g2}},
          selected : {g1, g2, NoGuild},
          shown : {Nothing} \cup [guild : {g1, g2}, by : {"stream", "command"}],
          presets : {g1, g2, NoGuild},
          signedOut : BOOLEAN, leaving : BOOLEAN]

Work(steps) == [guild : {g1, g2, NoGuild}, step : steps, live : BOOLEAN]

Streams  == Work({"heard", "muted"})
Catalogs == Work({"loading", "loaded"})
Posts    == Work({"sending", "polling", "confirming"})

PageTypes ==
  /\ page \in Pages
  /\ boot \in [step : {"fetching", "probing", "done"}, present : SUBSET {g1, g2}]
  /\ stream \in {Nothing} \cup Streams
  /\ catalog \in {Nothing} \cup Catalogs
  /\ command \in {Nothing} \cup Posts
  /\ stragglers \subseteq Streams \cup Catalogs \cup Posts
  /\ IsFiniteSet(stragglers) /\ Cardinality(stragglers) <= MaxLate

Open(p) == p.auth # Nothing /\ p.selected # NoGuild

\* A command that was not invalidated, and whose address some guild's server accepted.
Pending(c) == c # Nothing => c.live /\ (c.step # "sending" => c.guild # NoGuild)

\* What is current is of the selected guild; what was given up knows that it was.
WorkIsCurrent ==
  /\ stream # Nothing => Open(page) /\ stream.guild = page.selected /\ stream.live
  /\ catalog # Nothing => Open(page) /\ catalog.guild = page.selected /\ catalog.live
  /\ Pending(command)
  /\ \A t \in stragglers : ~t.live

StreamedOf(p) ==
  p.shown # Nothing /\ p.shown.by = "stream" => p.auth # Nothing /\ p.selected \in {p.shown.guild, NoGuild}

PresetsOf(p) == p.presets # NoGuild => p.presets = p.selected

PageInv == PageTypes /\ WorkIsCurrent /\ StreamedOf(page) /\ PresetsOf(page)

LEMMA PageFacts ==
  /\ Web!Guilds = {g1, g2} /\ Web!Sources = {"stream", "command"}
  /\ Web!StreamTask = Streams /\ Web!CatalogTask = Catalogs /\ Web!CommandTask = Posts
  /\ Nothing \notin Streams \cup Catalogs \cup Posts
  /\ \A p \in SUBSET {g1, g2} : Nothing # <<p>>
  /\ Nothing \notin [guild : {g1, g2}, by : {"stream", "command"}]
  /\ NoGuild \notin {g1, g2} /\ MaxLate \in Nat
<1>1. Web!Guilds = {g1, g2}
  <2>1. Web!Guilds = {<<g1, g2>>[i] : i \in 1..2}
    BY DEF Web!Guilds, Web!Range
  <2>2. 1..2 = {1, 2}
    OBVIOUS
  <2> QED  BY <2>1, <2>2
<1>2. Web!Sources = {"stream", "command"}
  BY DEF Web!Sources
<1>3. Web!StreamTask = Streams /\ Web!CatalogTask = Catalogs /\ Web!CommandTask = Posts
  BY <1>1 DEF Web!StreamTask, Web!CatalogTask, Web!CommandTask, Web!Task, Web!Steps,
              Streams, Catalogs, Posts, Work
<1> QED  BY <1>1, <1>2, <1>3, PageAssumption

\* The three kinds of work are told apart by their steps.
LEMMA KindsOfWork ==
  /\ Streams \cap Catalogs = {} /\ Streams \cap Posts = {} /\ Catalogs \cap Posts = {}
BY DEF Streams, Catalogs, Posts, Work

LEMMA PageCardinality == \A S : Web!Cardinality(S) = Cardinality(S)
BY Zenon DEF Web!Cardinality, Cardinality

\* Work that is given up may answer later, and knows that it was given up.
LEMMA AbandonKeeps ==
  ASSUME PageInv, NEW dropped \in SUBSET ({Nothing} \cup Streams \cup Catalogs \cup Posts),
         Web!Abandon(dropped)
  PROVE  /\ stragglers' \subseteq Streams \cup Catalogs \cup Posts
         /\ IsFiniteSet(stragglers') /\ Cardinality(stragglers') <= MaxLate
         /\ \A t \in stragglers' : ~t.live
<1>1. /\ stragglers \subseteq Streams \cup Catalogs \cup Posts
      /\ IsFiniteSet(stragglers) /\ Cardinality(stragglers) <= MaxLate
      /\ \A t \in stragglers : ~t.live
  BY DEF PageInv, PageTypes, WorkIsCurrent
<1>2. CASE stragglers' = stragglers
  BY <1>1, <1>2
<1>3. ASSUME NEW u \in dropped \ {Nothing}, Web!Cardinality(stragglers) < MaxLate,
             stragglers' = stragglers \cup {[u EXCEPT !.live = FALSE]}
      PROVE  /\ stragglers' \subseteq Streams \cup Catalogs \cup Posts
             /\ IsFiniteSet(stragglers') /\ Cardinality(stragglers') <= MaxLate
             /\ \A t \in stragglers' : ~t.live
  <2> DEFINE t == [u EXCEPT !.live = FALSE]
  <2>1. u \in Streams \cup Catalogs \cup Posts
    OBVIOUS
  <2>2. t \in Streams \cup Catalogs \cup Posts /\ ~t.live
    BY <2>1, Zenon DEF Streams, Catalogs, Posts, Work
  <2> HIDE DEF t
  <2>3. Cardinality(stragglers) < MaxLate /\ Cardinality(stragglers) \in Nat
    BY <1>1, <1>3, PageCardinality, FS_CardinalityType
  <2>4. /\ IsFiniteSet(stragglers \cup {t})
        /\ \/ Cardinality(stragglers \cup {t}) = Cardinality(stragglers)
           \/ Cardinality(stragglers \cup {t}) = Cardinality(stragglers) + 1
    BY <1>1, FS_AddElement
  <2>5. stragglers' = stragglers \cup {t}
    BY <1>3 DEF t
  <2>6. Cardinality(stragglers \cup {t}) <= MaxLate
    BY <2>3, <2>4, PageFacts
  <2> QED  BY <1>1, <2>2, <2>4, <2>5, <2>6
<1>4. \/ stragglers' = stragglers
      \/ \E u \in dropped \ {Nothing} : /\ Web!Cardinality(stragglers) < MaxLate
                                        /\ stragglers' = stragglers \cup {[u EXCEPT !.live = FALSE]}
  BY DEF Web!Abandon
<1> QED  BY <1>2, <1>3, <1>4

Restarts(p, refreshed) == refreshed \/ p.auth # page.auth \/ p.selected # page.selected

Begun(p, step) == IF Open(p) THEN [guild |-> p.selected, step |-> step, live |-> TRUE] ELSE Nothing

\* The render after a handler: what it opens is of the guild the page selects.
LEMMA RenderInv ==
  ASSUME PageInv, NEW p \in Pages, NEW refreshed \in BOOLEAN, NEW moved \in BOOLEAN,
         NEW dropped \in SUBSET ({Nothing} \cup Posts), Web!Render(p, refreshed, moved, dropped),
         boot' \in [step : {"fetching", "probing", "done"}, present : SUBSET {g1, g2}],
         command' \in {Nothing} \cup Posts, Pending(command'),
         StreamedOf(p) \/ (Restarts(p, refreshed) /\ Open(p)),
         Restarts(p, refreshed) \/ PresetsOf(p)
  PROVE  PageInv'
<1>0. /\ stream \in {Nothing} \cup Streams /\ catalog \in {Nothing} \cup Catalogs
      /\ WorkIsCurrent
  BY DEF PageInv, PageTypes
<1>1. CASE Restarts(p, refreshed)
  <2>1. /\ page' = [p EXCEPT !.shown = IF Open(p) THEN Nothing ELSE @, !.presets = NoGuild]
        /\ stream' = Begun(p, "heard") /\ catalog' = Begun(p, "loading")
        /\ Web!Abandon({stream, catalog} \cup dropped)
    BY <1>1 DEF Web!Render, Restarts, Begun, Open
  <2>2. /\ page' \in Pages /\ page'.auth = p.auth /\ page'.selected = p.selected
        /\ page'.presets = NoGuild /\ page'.shown = IF Open(p) THEN Nothing ELSE p.shown
    BY <2>1, Zenon DEF Pages
  <2>3. /\ stragglers' \subseteq Streams \cup Catalogs \cup Posts
        /\ IsFiniteSet(stragglers') /\ Cardinality(stragglers') <= MaxLate
        /\ \A t \in stragglers' : ~t.live
    BY <1>0, <2>1, AbandonKeeps
  <2>4. p.selected \in {g1, g2, NoGuild}
    BY DEF Pages
  <2>5. stream' \in {Nothing} \cup Streams /\ catalog' \in {Nothing} \cup Catalogs
    BY <2>1, <2>4 DEF Begun, Streams, Catalogs, Work
  <2>6. /\ stream' # Nothing => Open(page') /\ stream'.guild = page'.selected /\ stream'.live
        /\ catalog' # Nothing => Open(page') /\ catalog'.guild = page'.selected /\ catalog'.live
    BY <2>1, <2>2 DEF Begun, Open
  <2>7. PageTypes'
    BY <2>2, <2>3, <2>5 DEF PageTypes
  <2>8. WorkIsCurrent'
    BY <2>3, <2>6 DEF WorkIsCurrent, Open
  <2>9. StreamedOf(page)' /\ PresetsOf(page)'
    BY <1>1, <2>2 DEF StreamedOf, PresetsOf, Open
  <2> QED  BY <2>7, <2>8, <2>9 DEF PageInv
<1>2. CASE ~Restarts(p, refreshed)
  <2>1. /\ page' = p /\ catalog' = catalog /\ Web!Abandon(dropped)
        /\ stream' = IF moved /\ stream # Nothing THEN [stream EXCEPT !.step = "muted"] ELSE stream
    BY <1>2 DEF Web!Render, Restarts
  <2>2. p.auth = page.auth /\ p.selected = page.selected /\ StreamedOf(p) /\ PresetsOf(p)
    BY <1>2 DEF Restarts
  <2>3. /\ stragglers' \subseteq Streams \cup Catalogs \cup Posts
        /\ IsFiniteSet(stragglers') /\ Cardinality(stragglers') <= MaxLate
        /\ \A t \in stragglers' : ~t.live
    BY <2>1, AbandonKeeps
  <2>4. /\ stream' \in {Nothing} \cup Streams
        /\ stream' # Nothing => stream # Nothing /\ stream'.guild = stream.guild /\ stream'.live = stream.live
    BY <1>0, <2>1 DEF Streams, Work
  <2>5. PageTypes'
    BY <1>0, <2>1, <2>3, <2>4 DEF PageTypes
  <2>6. WorkIsCurrent'
    BY <1>0, <2>1, <2>2, <2>3, <2>4 DEF WorkIsCurrent, Open
  <2>7. StreamedOf(page)' /\ PresetsOf(page)'
    BY <2>1, <2>2 DEF StreamedOf, PresetsOf
  <2> QED  BY <2>5, <2>6, <2>7 DEF PageInv
<1> QED  BY <1>1, <1>2

\* The pages that handlers leave.
LEMMA PageForms ==
  ASSUME PageInv
  PROVE  /\ page \in Pages /\ StreamedOf(page) /\ PresetsOf(page)
         /\ Web!Cleared(page) \in Pages /\ StreamedOf(Web!Cleared(page)) /\ PresetsOf(Web!Cleared(page))
         /\ Web!Unauthorized(page) \in Pages
         /\ StreamedOf(Web!Unauthorized(page)) /\ PresetsOf(Web!Unauthorized(page))
<1>1. page \in Pages /\ StreamedOf(page) /\ PresetsOf(page)
  BY DEF PageInv, PageTypes
<1>2. /\ Web!Cleared(page) \in Pages
      /\ Web!Cleared(page).shown = Nothing /\ Web!Cleared(page).presets = NoGuild
  BY <1>1, Zenon DEF Pages, Web!Cleared
<1>3. /\ Web!Unauthorized(page) \in Pages
      /\ Web!Unauthorized(page).shown = Nothing /\ Web!Unauthorized(page).presets = NoGuild
  BY <1>1, Zenon DEF Pages, Web!Cleared, Web!Unauthorized
<1> QED  BY <1>1, <1>2, <1>3 DEF StreamedOf, PresetsOf

\* selectInitialGuild names a guild that has the bot, or none.
LEMMA InitialIsPresent ==
  ASSUME NEW current, NEW present \in SUBSET {g1, g2}
  PROVE  Web!Initial(current, present) \in {g1, g2, NoGuild}
<1> DEFINE places == {i \in DOMAIN <<g1, g2>> : <<g1, g2>>[i] \in present}
<1>1. CASE current \notin present /\ present # {}
  <2>1. DOMAIN <<g1, g2>> = {1, 2} /\ <<g1, g2>>[1] = g1 /\ <<g1, g2>>[2] = g2
    OBVIOUS
  <2>2. places # {} /\ places \subseteq {1, 2}
    BY <1>1, <2>1
  <2> HIDE DEF places
  <2>3. \E x \in places : \A y \in places : x <= y
    <3>1. CASE 1 \in places
      BY <2>2, <3>1
    <3>2. CASE 1 \notin places
      <4>1. places = {2}
        BY <2>2, <3>2, Zenon
      <4>2. \A y \in {2} : 2 <= y
        OBVIOUS
      <4> QED  BY <4>1, <4>2
    <3> QED  BY <3>1, <3>2
  <2>4. Web!Min(places) \in places
    BY <2>3 DEF Web!Min
  <2>5. <<g1, g2>>[Web!Min(places)] \in {g1, g2}
    BY <2>1, <2>2, <2>4, Zenon
  <2> QED  BY <1>1, <2>5 DEF Web!Initial, places
<1>2. CASE current \in present \/ present = {}
  BY <1>2 DEF Web!Initial
<1> QED  BY <1>1, <1>2

\* The bootstrap: guilds, or a 401, or nothing.
LEMMA BootSucceedsInv ==
  ASSUME PageInv, NEW present \in SUBSET {g1, g2}, Web!BootSucceeds(present)
  PROVE  PageInv'
<1> DEFINE p == [page EXCEPT !.auth = <<present>>, !.selected = Web!Initial(@, present),
                             !.signedOut = FALSE]
<1>1. /\ Web!Render(p, TRUE, FALSE, {}) /\ command' = command
      /\ boot' \in [step : {"fetching", "probing", "done"}, present : SUBSET {g1, g2}]
  BY Zenon DEF Web!BootSucceeds
<1>2. Web!Initial(page.selected, present) \in {g1, g2, NoGuild}
  BY InitialIsPresent
<1>3. p \in Pages /\ p.auth = <<present>> /\ p.auth # Nothing
      /\ p.selected = Web!Initial(page.selected, present)
  BY <1>2, PageForms, PageFacts, Zenon DEF Pages
<1>4. Restarts(p, TRUE)
  BY DEF Restarts
<1>5. StreamedOf(p) \/ Open(p)
  BY <1>3 DEF StreamedOf, Open
<1>6. command' \in {Nothing} \cup Posts /\ Pending(command')
  BY <1>1 DEF PageInv, PageTypes, WorkIsCurrent
<1> HIDE DEF p
<1> QED  BY <1>1, <1>3, <1>4, <1>5, <1>6, RenderInv, Zenon

LEMMA BootFailsInv ==
  ASSUME PageInv, NEW unauthorized \in BOOLEAN, Web!BootFails(unauthorized)
  PROVE  PageInv'
<1>1. /\ boot' \in [step : {"fetching", "probing", "done"}, present : SUBSET {g1, g2}]
      /\ command' = command
  BY DEF Web!BootFails
<1>2. command' \in {Nothing} \cup Posts /\ Pending(command')
  BY <1>1 DEF PageInv, PageTypes, WorkIsCurrent
<1>3. CASE unauthorized
  <2>1. Web!Render(Web!Unauthorized(page), FALSE, TRUE, {})
    BY <1>3, Zenon DEF Web!BootFails
  <2> QED  BY <1>1, <1>2, <2>1, PageForms, RenderInv, Zenon
<1>4. CASE ~unauthorized
  <2>1. UNCHANGED <<page, stream, catalog, stragglers, command>>
    BY <1>4 DEF Web!BootFails
  <2> QED  BY <1>1, <2>1 DEF PageInv, PageTypes, WorkIsCurrent, StreamedOf, PresetsOf, Open
<1> QED  BY <1>3, <1>4

\* The preferred guild opens its own stream, if it is another one.
LEMMA PreferInv ==
  ASSUME PageInv, NEW g \in {g1, g2}, Web!Prefer(g)
  PROVE  PageInv'
<1> DEFINE p == [page EXCEPT !.selected = IF @ = Web!Initial(NoGuild, boot.present) THEN g ELSE @]
<1>1. /\ Web!Render(p, FALSE, FALSE, {}) /\ command' = command
      /\ boot' \in [step : {"fetching", "probing", "done"}, present : SUBSET {g1, g2}]
  BY Zenon DEF Web!Prefer
<1>2. p \in Pages /\ p.auth = page.auth /\ p.shown = page.shown /\ p.presets = page.presets
      /\ p.selected \in {page.selected, g}
  BY PageForms DEF Pages
<1> HIDE DEF p
<1>3. StreamedOf(p) \/ (Restarts(p, FALSE) /\ Open(p))
  BY <1>2, PageForms, PageFacts DEF StreamedOf, Restarts, Open
<1>4. Restarts(p, FALSE) \/ PresetsOf(p)
  BY <1>2, PageForms DEF Restarts, PresetsOf
<1>5. command' \in {Nothing} \cup Posts /\ Pending(command')
  BY <1>1 DEF PageInv, PageTypes, WorkIsCurrent
<1> QED  BY <1>1, <1>2, <1>3, <1>4, <1>5, RenderInv, Zenon

\* One answer comes in.
LEMMA DoneKeeps ==
  ASSUME PageInv, NEW t, Web!Done(t)
  PROVE  /\ stragglers' \subseteq Streams \cup Catalogs \cup Posts
         /\ IsFiniteSet(stragglers') /\ Cardinality(stragglers') <= MaxLate
         /\ \A u \in stragglers' : ~u.live
<1>1. /\ stragglers \subseteq Streams \cup Catalogs \cup Posts
      /\ IsFiniteSet(stragglers) /\ Cardinality(stragglers) <= MaxLate
      /\ \A u \in stragglers : ~u.live
  BY DEF PageInv, PageTypes, WorkIsCurrent
<1>2. stragglers' \subseteq stragglers
  BY DEF Web!Done
<1>3. IsFiniteSet(stragglers') /\ Cardinality(stragglers') <= Cardinality(stragglers)
  BY <1>1, <1>2, FS_Subset
<1>4. Cardinality(stragglers') \in Nat /\ Cardinality(stragglers) \in Nat
  BY <1>1, <1>3, FS_CardinalityType
<1> QED  BY <1>1, <1>2, <1>3, <1>4, PageFacts

\* A handler that renders the same selection, and settles its own work.
LEMMA AnswerFrame ==
  ASSUME PageInv, NEW t, Web!Done(t), boot' = boot, stream' = stream,
         page' \in Pages, page'.auth = page.auth, page'.selected = page.selected,
         StreamedOf(page)', PresetsOf(page)',
         catalog' \in {Nothing} \cup Catalogs, command' \in {Nothing} \cup Posts,
         catalog' # Nothing => catalog # Nothing /\ catalog'.guild = catalog.guild /\ catalog'.live,
         Pending(command')
  PROVE  PageInv'
<1>1. PageTypes'
  BY DoneKeeps DEF PageInv, PageTypes
<1>2. WorkIsCurrent'
  BY DoneKeeps DEF PageInv, WorkIsCurrent, Open
<1> QED  BY <1>1, <1>2 DEF PageInv

\* A snapshot is shown only if it comes from the stream that is open.
LEMMA StreamSnapshotInv ==
  ASSUME PageInv, NEW s \in ({stream} \cup stragglers) \cap Streams, Web!StreamSnapshot(s)
  PROVE  PageInv'
<1>1. /\ Web!Done(s) /\ boot' = boot /\ stream' = stream /\ catalog' = catalog /\ command' = command
      /\ page' = IF Web!Heard(s) THEN [page EXCEPT !.shown = [guild |-> s.guild, by |-> "stream"]] ELSE page
  BY DEF Web!StreamSnapshot
<1>2. CASE Web!Heard(s)
  <2>1. s = stream /\ stream # Nothing /\ Open(page) /\ s.guild = page.selected
    BY <1>2, PageFacts DEF Web!Heard, PageInv, WorkIsCurrent
  <2>2. s.guild \in {g1, g2}
    BY <2>1, PageForms DEF Open, Pages
  <2>3. page' \in Pages /\ page'.auth = page.auth /\ page'.selected = page.selected
        /\ page'.presets = page.presets /\ page'.shown = [guild |-> s.guild, by |-> "stream"]
    BY <1>1, <1>2, <2>2, PageForms DEF Pages
  <2>4. StreamedOf(page)' /\ PresetsOf(page)'
    BY <2>1, <2>3, PageForms DEF StreamedOf, PresetsOf, Open
  <2> QED  BY <1>1, <2>3, <2>4, AnswerFrame DEF PageInv, PageTypes, WorkIsCurrent
<1>3. CASE ~Web!Heard(s)
  <2>1. page' = page
    BY <1>1, <1>3
  <2>2. StreamedOf(page)' /\ PresetsOf(page)'
    BY <2>1, PageForms DEF StreamedOf, PresetsOf
  <2> QED  BY <1>1, <2>1, <2>2, PageForms, AnswerFrame DEF PageInv, PageTypes, WorkIsCurrent
<1> QED  BY <1>2, <1>3

\* A refused stream ends the session, or the selection.
LEMMA RefusedInv ==
  ASSUME PageInv, stream # Nothing, command' = Nothing, boot' = boot,
         \/ Web!Render(Web!Unauthorized(page), FALSE, TRUE, {command})
         \/ Web!Render([page EXCEPT !.selected = NoGuild, !.shown = Nothing], FALSE, FALSE, {command})
  PROVE  PageInv'
<1>1. /\ {command} \in SUBSET ({Nothing} \cup Posts)
      /\ boot' \in [step : {"fetching", "probing", "done"}, present : SUBSET {g1, g2}]
      /\ command' \in {Nothing} \cup Posts /\ Pending(command')
  BY DEF PageInv, PageTypes, Pending
<1>2. CASE Web!Render(Web!Unauthorized(page), FALSE, TRUE, {command})
  BY <1>1, <1>2, PageForms, RenderInv, Zenon
<1>3. ASSUME NEW p, p = [page EXCEPT !.selected = NoGuild, !.shown = Nothing],
             Web!Render(p, FALSE, FALSE, {command})
      PROVE  PageInv'
  <2>1. p \in Pages /\ p.shown = Nothing /\ p.selected = NoGuild
    BY <1>3, PageForms, Zenon DEF Pages
  <2>2. page.selected # NoGuild
    BY DEF PageInv, WorkIsCurrent, Open
  <2>3. StreamedOf(p) \/ (Restarts(p, FALSE) /\ Open(p))
    BY <2>1 DEF StreamedOf
  <2>4. Restarts(p, FALSE) \/ PresetsOf(p)
    BY <2>1, <2>2 DEF Restarts
  <2>5. Web!Render(p, FALSE, FALSE, {command})
    BY <1>3, Zenon
  <2> QED  BY <1>1, <2>1, <2>3, <2>4, <2>5, RenderInv, Zenon
<1> QED  BY <1>2, <1>3, Zenon

LEMMA StreamRefusedInv ==
  ASSUME PageInv, NEW status \in {401, 403}, Web!StreamRefused(status)
  PROVE  PageInv'
<1>1. /\ stream # Nothing /\ command' = Nothing /\ boot' = boot
      /\ \/ Web!Render(Web!Unauthorized(page), FALSE, TRUE, {command})
         \/ Web!Render([page EXCEPT !.selected = NoGuild, !.shown = Nothing], FALSE, FALSE, {command})
  BY Zenon DEF Web!StreamRefused
<1> QED  BY <1>1, RefusedInv, Zenon

\* Presets are those of the catalog that was asked last.
LEMMA PresetsLoadedInv ==
  ASSUME PageInv, NEW c \in ({catalog} \cup stragglers) \cap Catalogs, Web!PresetsLoaded(c)
  PROVE  PageInv'
<1>1. /\ Web!Done(c) /\ boot' = boot /\ stream' = stream /\ command' = command
  BY DEF Web!PresetsLoaded
<1>2. CASE c.live
  <2>1. c = catalog /\ catalog # Nothing /\ Open(page) /\ c.guild = page.selected
    BY <1>2, PageFacts DEF PageInv, WorkIsCurrent
  <2>2. page' = [page EXCEPT !.presets = c.guild] /\ catalog' = [c EXCEPT !.step = "loaded"]
    BY <1>2 DEF Web!PresetsLoaded
  <2>3. c.guild \in {g1, g2}
    BY <2>1, PageForms DEF Open, Pages
  <2>4. page' \in Pages /\ page'.auth = page.auth /\ page'.selected = page.selected
        /\ page'.presets = c.guild /\ page'.shown = page.shown
    BY <2>2, <2>3, PageForms DEF Pages
  <2>5. StreamedOf(page)' /\ PresetsOf(page)'
    BY <2>1, <2>4, PageForms DEF StreamedOf, PresetsOf
  <2>6. catalog' \in Catalogs /\ catalog'.guild = catalog.guild /\ catalog'.live
    BY <1>2, <2>1, <2>2 DEF Catalogs, Work
  <2> QED  BY <1>1, <2>1, <2>4, <2>5, <2>6, AnswerFrame DEF PageInv, PageTypes, WorkIsCurrent
<1>3. CASE ~c.live
  <2>1. page' = page /\ catalog' = catalog
    BY <1>3 DEF Web!PresetsLoaded
  <2>2. StreamedOf(page)' /\ PresetsOf(page)'
    BY <2>1, PageForms DEF StreamedOf, PresetsOf
  <2> QED  BY <1>1, <2>1, <2>2, PageForms, AnswerFrame DEF PageInv, PageTypes, WorkIsCurrent
<1> QED  BY <1>2, <1>3

LEMMA PresetsFailInv ==
  ASSUME PageInv, NEW unauthorized \in BOOLEAN, Web!PresetsFail(unauthorized)
  PROVE  PageInv'
<1>1. boot' = boot /\ catalog # Nothing
  BY DEF Web!PresetsFail
<1>2. CASE unauthorized
  <2>1. command' = Nothing /\ Web!Render(Web!Unauthorized(page), FALSE, TRUE, {command})
    BY <1>2, Zenon DEF Web!PresetsFail
  <2>2. {command} \in SUBSET ({Nothing} \cup Posts)
        /\ boot' \in [step : {"fetching", "probing", "done"}, present : SUBSET {g1, g2}]
    BY <1>1 DEF PageInv, PageTypes
  <2> QED  BY <2>1, <2>2, PageForms, RenderInv, Zenon DEF Pending
<1>3. CASE ~unauthorized
  <2>1. /\ catalog' = [catalog EXCEPT !.step = "loaded"] /\ page' = [page EXCEPT !.presets = NoGuild]
        /\ UNCHANGED <<stream, command, stragglers>>
    BY <1>3 DEF Web!PresetsFail
  <2>2. page' \in Pages /\ page'.auth = page.auth /\ page'.selected = page.selected
        /\ page'.presets = NoGuild /\ page'.shown = page.shown
    BY <2>1, PageForms DEF Pages
  <2>3. catalog' \in Catalogs /\ catalog'.guild = catalog.guild /\ catalog'.live = catalog.live
    BY <1>1, <2>1 DEF PageInv, PageTypes, Catalogs, Work
  <2>4. PageTypes' /\ WorkIsCurrent'
    BY <1>1, <2>1, <2>2, <2>3 DEF PageInv, PageTypes, WorkIsCurrent, Open
  <2>5. StreamedOf(page)' /\ PresetsOf(page)'
    BY <2>2, PageForms DEF StreamedOf, PresetsOf
  <2> QED  BY <2>4, <2>5 DEF PageInv
<1> QED  BY <1>2, <1>3

\* What the user does on the page.
LEMMA SelectInv ==
  ASSUME PageInv, NEW g \in {g1, g2}, Web!Select(g)
  PROVE  PageInv'
<1> DEFINE p == [page EXCEPT !.selected = g, !.shown = Nothing, !.presets = NoGuild]
<1>1. Web!Render(p, FALSE, TRUE, {}) /\ boot' = boot /\ command' = command
  BY Zenon DEF Web!Select
<1>2. p \in Pages /\ p.shown = Nothing /\ p.presets = NoGuild
  BY PageForms, Zenon DEF Pages
<1>3. StreamedOf(p) /\ PresetsOf(p)
  BY <1>2 DEF StreamedOf, PresetsOf
<1>4. /\ command' \in {Nothing} \cup Posts /\ Pending(command')
      /\ boot' \in [step : {"fetching", "probing", "done"}, present : SUBSET {g1, g2}]
  BY <1>1 DEF PageInv, PageTypes, WorkIsCurrent
<1> HIDE DEF p
<1> QED  BY <1>1, <1>2, <1>3, <1>4, RenderInv, Zenon

LEMMA RetryInv ==
  ASSUME PageInv, Web!Retry
  PROVE  PageInv'
<1>1. /\ Web!Render(page, TRUE, TRUE, {command}) /\ command' = Nothing
      /\ boot' \in [step : {"fetching", "probing", "done"}, present : SUBSET {g1, g2}]
  BY Zenon DEF Web!Retry, Web!Fetching
<1>2. {command} \in SUBSET ({Nothing} \cup Posts)
  BY DEF PageInv, PageTypes
<1> QED  BY <1>1, <1>2, PageForms, RenderInv, Zenon DEF Pending

\* Only whether the user is leaving changes.
LEMMA LeavingFrame ==
  ASSUME PageInv, NEW b \in BOOLEAN, page' = [page EXCEPT !.leaving = b],
         UNCHANGED <<boot, stream, catalog, command, stragglers>>
  PROVE  PageInv'
<1>1. /\ page' \in Pages /\ page'.auth = page.auth /\ page'.selected = page.selected
      /\ page'.presets = page.presets /\ page'.shown = page.shown
  BY PageForms DEF Pages
<1>2. PageTypes' /\ WorkIsCurrent'
  BY <1>1 DEF PageInv, PageTypes, WorkIsCurrent, Open
<1>3. StreamedOf(page)' /\ PresetsOf(page)'
  BY <1>1, PageForms DEF StreamedOf, PresetsOf
<1> QED  BY <1>2, <1>3 DEF PageInv

LEMMA LogoutInv ==
  ASSUME PageInv, Web!Logout \/ \E ended \in BOOLEAN : Web!LoggedOut(ended)
  PROVE  PageInv'
<1>1. CASE Web!Logout
  BY <1>1, LeavingFrame, Zenon DEF Web!Logout
<1>2. CASE Web!LoggedOut(FALSE)
  BY <1>2, LeavingFrame, Zenon DEF Web!LoggedOut
<1>3. CASE Web!LoggedOut(TRUE)
  <2> DEFINE p == [Web!Unauthorized(page) EXCEPT !.leaving = FALSE]
  <2>1. Web!Render(p, FALSE, TRUE, {command}) /\ command' = Nothing /\ boot' = boot
    BY <1>3, Zenon DEF Web!LoggedOut
  <2>2. /\ p \in Pages /\ p.shown = Web!Unauthorized(page).shown
        /\ p.presets = Web!Unauthorized(page).presets
        /\ p.auth = Web!Unauthorized(page).auth /\ p.selected = Web!Unauthorized(page).selected
    BY PageForms, Zenon DEF Pages
  <2>3. StreamedOf(p) /\ PresetsOf(p)
    BY <2>2, PageForms DEF StreamedOf, PresetsOf
  <2>4. {command} \in SUBSET ({Nothing} \cup Posts)
        /\ boot' \in [step : {"fetching", "probing", "done"}, present : SUBSET {g1, g2}]
    BY <2>1 DEF PageInv, PageTypes
  <2> HIDE DEF p
  <2> QED  BY <2>1, <2>2, <2>3, <2>4, RenderInv, Zenon DEF Pending
<1> QED  BY <1>1, <1>2, <1>3, Zenon

LEMMA SendRunInv ==
  ASSUME PageInv, Web!Run
  PROVE  PageInv'
<1>1. command' = [guild |-> page.selected, step |-> "sending", live |-> TRUE]
      /\ UNCHANGED <<page, boot, stream, catalog, stragglers>>
  BY DEF Web!Run
<1>2. command' \in Posts /\ Pending(command')
  BY <1>1, PageForms DEF Posts, Work, Pages, Pending
<1> QED  BY <1>1, <1>2 DEF PageInv, PageTypes, WorkIsCurrent, StreamedOf, PresetsOf, Open

\* A command's answers: what a confirmation shows is not the stream's.
LEMMA ProceedInv ==
  ASSUME PageInv, NEW c \in ({command} \cup stragglers) \cap Posts, Web!Proceed(c)
  PROVE  PageInv'
<1>1. /\ Web!Done(c) /\ UNCHANGED <<page, boot, stream, catalog>>
      /\ command' = IF c.live THEN [c EXCEPT !.step = IF @ = "sending" THEN "polling" ELSE "confirming"]
                    ELSE command
  BY DEF Web!Proceed
<1>2. command' \in {Nothing} \cup Posts /\ Pending(command')
  <2>1. CASE c.live
    <3>1. c \in Posts /\ c.guild # NoGuild
      BY DEF Web!Proceed
    <3>2. command' \in Posts /\ command'.live /\ command'.guild = c.guild
      BY <1>1, <2>1, <3>1 DEF Posts, Work
    <3> QED  BY <3>1, <3>2 DEF Pending
  <2>2. CASE ~c.live
    BY <1>1, <2>2 DEF PageInv, PageTypes, WorkIsCurrent
  <2> QED  BY <2>1, <2>2
<1>3. page' \in Pages /\ StreamedOf(page)' /\ PresetsOf(page)'
  BY <1>1, PageForms DEF StreamedOf, PresetsOf
<1> QED  BY <1>1, <1>2, <1>3, AnswerFrame DEF PageInv, PageTypes, WorkIsCurrent

LEMMA ConfirmedInv ==
  ASSUME PageInv, NEW c \in ({command} \cup stragglers) \cap Posts, Web!Confirmed(c)
  PROVE  PageInv'
<1>1. Web!Done(c) /\ UNCHANGED <<boot, stream, catalog>>
  BY DEF Web!Confirmed
<1>2. /\ catalog' \in {Nothing} \cup Catalogs
      /\ catalog' # Nothing => catalog # Nothing /\ catalog'.guild = catalog.guild /\ catalog'.live
  BY <1>1 DEF PageInv, PageTypes, WorkIsCurrent
<1>3. CASE c.live
  <2>1. page' = [page EXCEPT !.shown = [guild |-> c.guild, by |-> "command"]] /\ command' = Nothing
    BY <1>3 DEF Web!Confirmed
  <2>2. c = command /\ c \in Posts /\ c # Nothing /\ c.step = "confirming"
    BY <1>3, PageFacts DEF PageInv, WorkIsCurrent, Web!Confirmed
  <2>3. c.guild \in {g1, g2}
    BY <2>2 DEF PageInv, WorkIsCurrent, Pending, Posts, Work
  <2>4. page' \in Pages /\ page'.auth = page.auth /\ page'.selected = page.selected
        /\ page'.presets = page.presets /\ page'.shown = [guild |-> c.guild, by |-> "command"]
    BY <2>1, <2>3, PageForms DEF Pages
  <2>5. StreamedOf(page)' /\ PresetsOf(page)'
    BY <2>4, PageForms DEF StreamedOf, PresetsOf
  <2>6. Pending(command')
    BY <2>1 DEF Pending
  <2> QED  BY <1>1, <1>2, <2>1, <2>4, <2>5, <2>6, AnswerFrame
<1>4. CASE ~c.live
  <2>1. page' = page /\ command' = command
    BY <1>4 DEF Web!Confirmed
  <2>2. StreamedOf(page)' /\ PresetsOf(page)' /\ page' \in Pages
    BY <2>1, PageForms DEF StreamedOf, PresetsOf
  <2>3. command' \in {Nothing} \cup Posts /\ Pending(command')
    BY <2>1 DEF PageInv, PageTypes, WorkIsCurrent
  <2> QED  BY <1>1, <1>2, <2>1, <2>2, <2>3, AnswerFrame
<1> QED  BY <1>3, <1>4

LEMMA CommandFailsInv ==
  ASSUME PageInv, NEW status \in {401, 403, 500}, Web!CommandFails(status)
  PROVE  PageInv'
<1>1. command' = Nothing /\ Pending(command')
  BY DEF Web!CommandFails, Pending
<1>2. CASE status = 401
  <2>1. Web!Render(Web!Unauthorized(page), FALSE, TRUE, {}) /\ boot' = boot
    <3>1. status # 403 /\ status \in {401, 403}
      BY <1>2
    <3> QED  BY <3>1, Zenon DEF Web!CommandFails
  <2>2. boot' \in [step : {"fetching", "probing", "done"}, present : SUBSET {g1, g2}]
    BY <2>1 DEF PageInv, PageTypes
  <2> QED  BY <1>1, <2>1, <2>2, PageForms, RenderInv, Zenon
<1>3. CASE status = 403
  <2>1. Web!Render(Web!Cleared(page), TRUE, TRUE, {}) /\ boot' = Web!Fetching
    <3>1. status # 401 /\ status \in {401, 403}
      BY <1>3
    <3> QED  BY <3>1, Zenon DEF Web!CommandFails
  <2>2. boot' \in [step : {"fetching", "probing", "done"}, present : SUBSET {g1, g2}]
    BY <2>1 DEF Web!Fetching
  <2> QED  BY <1>1, <2>1, <2>2, PageForms, RenderInv, Zenon
<1>4. CASE status = 500
  <2>1. UNCHANGED <<page, boot, stream, catalog, stragglers>>
    BY <1>4 DEF Web!CommandFails
  <2> QED
    BY <1>1, <2>1 DEF PageInv, PageTypes, WorkIsCurrent, StreamedOf, PresetsOf, Open
<1> QED  BY <1>2, <1>3, <1>4

LEMMA PageStep == PageInv /\ [Web!Next]_pageVars => PageInv'
<1>1. ASSUME PageInv, Web!Bootstrap PROVE PageInv'
  BY <1>1, PageFacts, BootSucceedsInv, BootFailsInv, PreferInv DEF Web!Bootstrap
<1>2. ASSUME PageInv, Web!Effects PROVE PageInv'
  BY <1>2, PageFacts, StreamSnapshotInv, StreamRefusedInv, PresetsLoadedInv, PresetsFailInv
  DEF Web!Effects
<1>3. ASSUME PageInv, Web!User PROVE PageInv'
  BY <1>3, PageFacts, SelectInv, RetryInv, LogoutInv, SendRunInv DEF Web!User
<1>4. ASSUME PageInv, Web!CommandSteps PROVE PageInv'
  BY <1>4, PageFacts, ProceedInv, ConfirmedInv, CommandFailsInv DEF Web!CommandSteps
<1>5. ASSUME PageInv, UNCHANGED pageVars PROVE PageInv'
  BY <1>5 DEF pageVars, PageInv, PageTypes, WorkIsCurrent, StreamedOf, PresetsOf, Open
<1> QED  BY <1>1, <1>2, <1>3, <1>4, <1>5 DEF Web!Next

LEMMA PageStart == Web!Init => PageInv
<1> SUFFICES ASSUME Web!Init PROVE PageInv
  OBVIOUS
<1>1. page \in Pages /\ page.shown = Nothing /\ page.presets = NoGuild
  BY DEF Web!Init, Pages
<1>2. PageTypes
  <2>1. IsFiniteSet(stragglers) /\ Cardinality(stragglers) = 0
    BY FS_EmptySet DEF Web!Init
  <2> QED  BY <1>1, <2>1, PageFacts DEF Web!Init, Web!Fetching, PageTypes
<1>3. WorkIsCurrent
  BY DEF Web!Init, WorkIsCurrent, Pending
<1>4. StreamedOf(page) /\ PresetsOf(page)
  BY <1>1 DEF StreamedOf, PresetsOf
<1> QED  BY <1>2, <1>3, <1>4 DEF PageInv

LEMMA PagePromise ==
  ASSUME PageInv
  PROVE  Web!TypeOK /\ Web!StreamShowsSelected
<1>1. Web!TypeOK
  BY PageFacts, PageCardinality DEF PageInv, PageTypes, Pages, Web!TypeOK, Web!Boots
<1>2. Web!StreamShowsSelected
  BY DEF PageInv, StreamedOf, PresetsOf, Web!StreamShowsSelected
<1> QED  BY <1>1, <1>2

\* No answer of a stream or catalog request that was given up comes through: the
\* presets are the selected guild's, and so is what the stream brought.
THEOREM StreamStaysSelected == MCSpec => []StreamShowsSelected
<1> DEFINE Now == On("page") => PageInv
<1>1. MCInit => Now
  BY PageStart DEF MCInit
<1>2. Now /\ [MCNext]_allVars => Now'
  BY OnlyOneMoves, PageStep DEF On
<1>3. Now => StreamShowsSelected
  BY PagePromise DEF StreamShowsSelected
<1> QED  BY <1>1, <1>2, <1>3, PTL DEF MCSpec
-----------------------------------------------------------------------------
\* Of a stream the page listens to and keeps, a render stops listening only if it
\* starts nothing again and the session generation has moved.
LEMMA RenderMutes ==
  ASSUME NEW p, NEW refreshed \in BOOLEAN, NEW moved \in BOOLEAN, NEW dropped,
         Web!Render(p, refreshed, moved, dropped),
         stream # Nothing, Web!Heard(stream), stream' # Nothing, ~Web!Heard(stream')
  PROVE  ~Restarts(p, refreshed) /\ moved
<1>1. CASE Restarts(p, refreshed)
  <2>1. stream' = Begun(p, "heard")
    BY <1>1 DEF Web!Render, Restarts, Begun, Open
  <2>2. stream'.live /\ stream'.step = "heard"
    BY <2>1 DEF Begun
  <2> QED  BY <2>2 DEF Web!Heard
<1>2. CASE ~Restarts(p, refreshed)
  <2>1. stream' = IF moved /\ stream # Nothing THEN [stream EXCEPT !.step = "muted"] ELSE stream
    BY <1>2 DEF Web!Render, Restarts
  <2> QED  BY <1>2, <2>1
<1> QED  BY <1>1, <1>2

\* A page that has a stream is signed in: what signs it out starts everything again.
LEMMA SignOutRestarts ==
  ASSUME PageInv, stream # Nothing
  PROVE  /\ Restarts(Web!Unauthorized(page), FALSE)
         /\ Restarts([Web!Unauthorized(page) EXCEPT !.leaving = FALSE], FALSE)
<1>1. page.auth # Nothing /\ page \in Pages
  BY DEF PageInv, PageTypes, WorkIsCurrent, Open
<1>2. Web!Unauthorized(page).auth = Nothing
      /\ [Web!Unauthorized(page) EXCEPT !.leaving = FALSE].auth = Nothing
  BY <1>1 DEF Web!Unauthorized, Web!Cleared, Pages
<1> QED  BY <1>1, <1>2 DEF Restarts

LEMMA MutesByReselection ==
  ASSUME PageInv, [Web!Next]_pageVars,
         stream # Nothing, Web!Heard(stream), stream' # Nothing, ~Web!Heard(stream')
  PROVE  Web!Select(page.selected)
<1>1. stream' # stream
  OBVIOUS
<1>2. CASE UNCHANGED pageVars
  BY <1>1, <1>2 DEF pageVars
<1>3. ASSUME NEW p, NEW dropped, Web!Render(p, FALSE, FALSE, dropped) \/ Web!Render(p, TRUE, FALSE, dropped)
      PROVE  FALSE
  BY <1>3, RenderMutes, Zenon
<1>4. ASSUME NEW dropped, \/ Web!Render(Web!Unauthorized(page), FALSE, TRUE, dropped)
                          \/ Web!Render([Web!Unauthorized(page) EXCEPT !.leaving = FALSE], FALSE, TRUE, dropped)
      PROVE  FALSE
  BY <1>4, RenderMutes, SignOutRestarts, Zenon
<1>5. ASSUME NEW p, NEW dropped, Web!Render(p, TRUE, TRUE, dropped)
      PROVE  FALSE
  BY <1>5, RenderMutes, Zenon DEF Restarts
<1>6. CASE Web!Bootstrap
  <2>1. ASSUME NEW present \in SUBSET Web!Guilds, Web!BootSucceeds(present) PROVE FALSE
    BY <1>3, <2>1, Zenon DEF Web!BootSucceeds
  <2>2. ASSUME NEW unauthorized \in BOOLEAN, Web!BootFails(unauthorized) PROVE FALSE
    BY <1>1, <1>4, <2>2, Zenon DEF Web!BootFails
  <2>3. ASSUME NEW g \in Web!Guilds, Web!Prefer(g) PROVE FALSE
    BY <1>3, <2>3, Zenon DEF Web!Prefer
  <2> QED  BY <1>6, <2>1, <2>2, <2>3 DEF Web!Bootstrap
<1>7. CASE Web!Effects
  BY <1>1, <1>3, <1>4, <1>7, Zenon DEF Web!Effects, Web!StreamSnapshot, Web!StreamRefused, Web!PresetsLoaded,
                                       Web!PresetsFail
<1>8. ASSUME NEW g \in Web!Guilds, Web!Select(g) PROVE Web!Select(page.selected)
  <2> DEFINE p == [page EXCEPT !.selected = g, !.shown = Nothing, !.presets = NoGuild]
  <2>1. Web!Render(p, FALSE, TRUE, {})
    BY <1>8, Zenon DEF Web!Select
  <2>2. ~Restarts(p, FALSE)
    BY <2>1, RenderMutes, Zenon
  <2>3. p.selected = g
    BY DEF PageInv, PageTypes, Pages
  <2>4. g = page.selected
    BY <2>2, <2>3 DEF Restarts
  <2> QED  BY <1>8, <2>4
<1>9. CASE Web!Retry
  BY <1>5, <1>9, Zenon DEF Web!Retry
<1>10. CASE Web!Logout \/ Web!Run
  BY <1>1, <1>10 DEF Web!Logout, Web!Run
<1>11. CASE \E ended \in BOOLEAN : Web!LoggedOut(ended)
  BY <1>1, <1>4, <1>11, Zenon DEF Web!LoggedOut
<1>12. CASE Web!CommandSteps
  BY <1>1, <1>4, <1>5, <1>12, Zenon DEF Web!CommandSteps, Web!Proceed, Web!Confirmed, Web!CommandFails
<1> QED
  BY <1>2, <1>6, <1>7, <1>8, <1>9, <1>10, <1>11, <1>12 DEF Web!Next, Web!User

LEMMA StrandsByBootstrap ==
  ASSUME PageInv, [Web!Next]_pageVars, command # Nothing, command' # Nothing,
         command.guild = page.selected, command'.guild # page'.selected
  PROVE  boot' # boot
<1>1. page' # page \/ command' # command
  OBVIOUS
<1>2. ASSUME command' = command, page'.selected = page.selected PROVE FALSE
  BY <1>2
<1>3. CASE UNCHANGED pageVars
  BY <1>1, <1>3 DEF pageVars
<1>4. CASE Web!Bootstrap
  <2>1. boot.step \in {"fetching", "probing"} /\ boot'.step # boot.step
    <3>1. ASSUME NEW present \in SUBSET Web!Guilds, Web!BootSucceeds(present)
          PROVE  boot.step = "fetching" /\ boot'.step \in {"done", "probing"}
      BY <3>1 DEF Web!BootSucceeds
    <3>2. ASSUME NEW unauthorized \in BOOLEAN, Web!BootFails(unauthorized)
          PROVE  boot.step = "fetching" /\ boot'.step = "done"
      BY <3>2 DEF Web!BootFails
    <3>3. ASSUME NEW g \in Web!Guilds, Web!Prefer(g)
          PROVE  boot.step = "probing" /\ boot'.step = "done"
      BY <3>3 DEF Web!Prefer
    <3> QED  BY <1>4, <3>1, <3>2, <3>3 DEF Web!Bootstrap
  <2> QED  BY <2>1
<1>5. CASE Web!Effects
  <2>1. CASE \E s \in ({stream} \cup stragglers) \cap Web!StreamTask : Web!StreamSnapshot(s)
    <3>1. page'.selected = page.selected /\ command' = command
      BY <2>1, Zenon DEF Web!StreamSnapshot, PageInv, PageTypes, Pages
    <3> QED  BY <1>2, <3>1
  <2>2. CASE \E c \in ({catalog} \cup stragglers) \cap Web!CatalogTask : Web!PresetsLoaded(c)
    <3>1. page'.selected = page.selected /\ command' = command
      BY <2>2, Zenon DEF Web!PresetsLoaded, PageInv, PageTypes, Pages
    <3> QED  BY <1>2, <3>1
  <2>3. CASE \E status \in {401, 403} : Web!StreamRefused(status)
    BY <2>3 DEF Web!StreamRefused
  <2>4. CASE \E unauthorized \in BOOLEAN : Web!PresetsFail(unauthorized)
    <3>1. CASE command' = command /\ page' = [page EXCEPT !.presets = NoGuild]
      <4>1. page'.selected = page.selected
        BY <3>1 DEF PageInv, PageTypes, Pages
      <4> QED  BY <1>2, <3>1, <4>1
    <3> QED  BY <2>4, <3>1, Zenon DEF Web!PresetsFail
  <2> QED  BY <1>5, <2>1, <2>2, <2>3, <2>4 DEF Web!Effects
<1>6. CASE Web!User
  <2>1. ASSUME page' = [page EXCEPT !.leaving = TRUE] \/ page' = [page EXCEPT !.leaving = FALSE],
               command' = command
        PROVE  FALSE
    <3>1. page'.selected = page.selected
      BY <2>1 DEF PageInv, PageTypes, Pages
    <3> QED  BY <1>2, <2>1, <3>1
  <2>2. (\E g \in Web!Guilds : Web!Select(g)) \/ Web!Retry \/ Web!Run => FALSE
    BY Zenon DEF Web!Select, Web!Retry, Web!Run
  <2>3. Web!Logout => FALSE
    BY <2>1 DEF Web!Logout
  <2>4. ASSUME NEW ended \in BOOLEAN, Web!LoggedOut(ended) PROVE FALSE
    BY <2>1, <2>4, Zenon DEF Web!LoggedOut
  <2> QED  BY <1>6, <2>2, <2>3, <2>4 DEF Web!User
<1>7. CASE Web!CommandSteps
  <2>1. ASSUME NEW c \in ({command} \cup stragglers) \cap Web!CommandTask, Web!Proceed(c) PROVE FALSE
    <3>1. page' = page
      BY <2>1 DEF Web!Proceed
    <3>2. CASE c.live
      <4>1. c = command /\ c \in Posts
        BY <3>2, PageFacts DEF PageInv, WorkIsCurrent
      <4>2. command' = [c EXCEPT !.step = IF @ = "sending" THEN "polling" ELSE "confirming"]
        BY <2>1, <3>2 DEF Web!Proceed
      <4>3. command'.guild = c.guild
        BY <4>1, <4>2 DEF Posts, Work
      <4> QED  BY <3>1, <4>1, <4>3
    <3>3. CASE ~c.live
      BY <1>2, <2>1, <3>1, <3>3 DEF Web!Proceed
    <3> QED  BY <3>2, <3>3
  <2>2. ASSUME NEW c \in ({command} \cup stragglers) \cap Web!CommandTask, Web!Confirmed(c) PROVE FALSE
    BY <1>2, <2>2 DEF Web!Confirmed
  <2>3. ASSUME NEW status \in {401, 403, 500}, Web!CommandFails(status) PROVE FALSE
    BY <2>3 DEF Web!CommandFails
  <2> QED  BY <1>7, <2>1, <2>2, <2>3 DEF Web!CommandSteps
<1> QED  BY <1>3, <1>4, <1>5, <1>6, <1>7 DEF Web!Next

\* While a command is pending, only the bootstrap moves the page to another guild;
\* and of all that moves the session generation, only choosing the selected guild
\* again leaves the stream open that the page no longer listens to.
THEOREM PageSlipsStayKnown == MCSpec => PageSlipsAreKnown
<1> DEFINE Now == On("page") => PageInv
           Strands == /\ command # Nothing /\ command' # Nothing
                      /\ command.guild = page.selected /\ command'.guild # page.selected'
                      => boot' # boot
           Mutes == /\ stream # Nothing /\ Web!Heard(stream) /\ stream' # Nothing /\ ~Web!Heard(stream')
                    => Web!Select(page.selected)
<1>1. MCInit => Now
  BY PageStart DEF MCInit
<1>2. Now /\ [MCNext]_allVars => Now'
  BY OnlyOneMoves, PageStep DEF On
<1>3. Now /\ [MCNext]_allVars => [Strands]_pageVars /\ [Mutes]_pageVars
  <2> SUFFICES ASSUME Now, [MCNext]_allVars, ~UNCHANGED pageVars
               PROVE  Strands /\ Mutes
    BY DEF pageVars
  <2>1. On("page") /\ PageInv /\ [Web!Next]_pageVars
    BY OnlyOneMoves
  <2> QED  BY <2>1, StrandsByBootstrap, MutesByReselection
<1> QED
  BY <1>1, <1>2, <1>3, PTL
  DEF MCSpec, PageSlipsAreKnown, Web!OnlyBootstrapStrandsCommand, Web!OnlyReselectionMutes, pageVars, Web!vars

\* Users change what they mean to: a click acts on the state its panel shows, and no
\* logout, however late, takes the pointer of a session that replaced its own.
THEOREM UsersStayInCharge == MCSpec => UsersActAsMeant
<1> DEFINE Now  == DiscordInv /\ SessionInv
           Acts == \A t \in Clicks : Discord!ActsOnPanel(t)
           Ends == \A u \in Users : pointer[u] # 0 /\ pointer'[u] = 0 =>
                     \E r \in Requests : requests[r].pc = "destroy" /\ requests[r].session = pointer[u]
<1>1. MCInit => Now
  BY DiscordStart, SessionStart DEF MCInit
<1>2. Now /\ [MCNext]_allVars => Now'
  BY OnlyOneMoves, DiscordStep, SessionStep
<1>3. Now /\ [MCNext]_allVars => [Acts]_allVars /\ [Ends]_sessionVars
  <2> SUFFICES ASSUME Now, [MCNext]_allVars PROVE Acts /\ Ends
    OBVIOUS
  <2>1. [Auth!Next]_sessionVars /\ [Discord!Next]_discordVars
    BY OnlyOneMoves
  <2>2. Acts
    BY <2>1, ClicksAct
  <2>3. Ends
    BY <2>1, LogoutTakesItsOwn
  <2> QED  BY <2>2, <2>3
<1> QED
  BY <1>1, <1>2, <1>3, PTL
  DEF MCSpec, UsersActAsMeant, Auth!LogoutEndsOwnSession, sessionVars, Auth!vars

\* Whoever was revoked is refused, a login's state works once, the streams admitted
\* are those whose leases are held, and the development backend's queue and budget
\* are as its receipts and charges say, whatever the number of requests, sessions,
\* actors and tracks (AuthService, SseAdmission, InMemoryPlayerBackend).
THEOREM ApiStaysSound == MCSpec => []ApiIsSound
<1> DEFINE Now == SessionInv /\ DevInv
<1>1. MCInit => Now
  BY SessionStart, DevStart DEF MCInit
<1>2. Now /\ [MCNext]_allVars => Now'
  BY OnlyOneMoves, SessionStep, DevStep
<1>3. Now => ApiIsSound
  BY SessionPromise, DevPromise DEF ApiIsSound
<1> QED  BY <1>1, <1>2, <1>3, PTL DEF MCSpec

\* Whoever asked for music gets all of it: however many workers resolve a collection
\* and in whatever order they finish, the batch holds each of its tracks once and in
\* the collection's order, and what /play called queued is in the queue
\* (CompletedTracks, take_ordered, finish_enqueue).
THEOREM RequestsStayKept == MCSpec => []RequestsAreKept
<1> DEFINE Now == DiscordInv /\ ResolveInv
<1>1. MCInit => Now
  BY DiscordStart, ResolveStart DEF MCInit
<1>2. Now /\ [MCNext]_allVars => Now'
  BY OnlyOneMoves, DiscordStep, ResolveStep
<1>3. Now => RequestsAreKept
  BY DiscordPromise, ResolvePromise DEF RequestsAreKept
<1> QED  BY <1>1, <1>2, <1>3, PTL DEF MCSpec

\* What is returned is what was found: however a provider pages, a collection that is
\* not called truncated has been looked at in full and in order; credentials are given
\* up only after two tokens; and of the listings the best that match are tried first
\* (CatalogResolver, TokenManager, YtDlpClient).
THEOREM FindingsStayFaithful == MCSpec => []FindingsAreFaithful
<1> DEFINE Now == CatalogInv /\ SiteInv
<1>1. MCInit => Now
  BY CatalogStart, SiteStart DEF MCInit
<1>2. Now /\ [MCNext]_allVars => Now'
  BY OnlyOneMoves, CatalogStep, SiteStep
<1>3. Now => FindingsAreFaithful
  BY CatalogPromise, SitePromise DEF FindingsAreFaithful
<1> QED  BY <1>1, <1>2, <1>3, PTL DEF MCSpec

===============================================================================
