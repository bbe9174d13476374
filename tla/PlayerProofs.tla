---------------------------- MODULE PlayerProofs ----------------------------
(***************************************************************************)
(* Theorems about Player, for every value of its constants: that the       *)
(* types and the coherence of the playback model are invariants; that the  *)
(* player, the adapter and the idle timer agree; that no end report cuts   *)
(* off a playback or loses a track; and that revisions and settings follow *)
(* every change.                                                           *)
(***************************************************************************)
EXTENDS MCPlayer, SequenceTheorems, WellFoundedInduction, TLAPS

-----------------------------------------------------------------------------
(* Sequences: what the operators of the model do to them.                  *)

\* Every nonempty set of numbers has a least element.
LEMMA LeastElement ==
  ASSUME NEW T \in SUBSET Nat, T # {}
  PROVE  \E x \in T : \A y \in T : x <= y
<1> DEFINE R == {p \in Nat \X Nat : p[1] < p[2]}
<1>1. IsWellFoundedOn(R, Nat)
  BY NatLessThanWellFounded DEF OpToRel
<1>2. \A x, y \in Nat : y < x => <<y, x>> \in R
  OBVIOUS
<1> HIDE DEF R
<1>3. PICK x \in T : \A y \in T : ~(<<y, x>> \in R)
  BY <1>1, WFMin
<1>4. ASSUME NEW y \in T PROVE x <= y
  <2>1. x \in Nat /\ y \in Nat
    OBVIOUS
  <2>2. ~(y < x)
    BY <1>2, <1>3, <2>1
  <2> QED  BY <2>1, <2>2
<1> QED  BY <1>4

\* Position finds a track that is in the queue (the position() of queue.rs).
LEMMA PositionFinds ==
  ASSUME NEW q \in Seq(Tracks), NEW track, Contains(q, track)
  PROVE  /\ Position(q, track) \in 1..Len(q)
         /\ q[Position(q, track)] = track
<1> DEFINE T == {i \in 1..Len(q) : q[i] = track}
<1>1. T \in SUBSET Nat /\ T # {}
  BY DEF Contains
<1>2. PICK i \in T : \A y \in T : i <= y
  BY <1>1, LeastElement
<1>3. i \in DOMAIN q /\ q[i] = track /\ \A j \in 1..(i - 1) : q[j] # track
  BY <1>2
<1> HIDE DEF T
<1> QED  BY <1>3 DEF Position

\* Removing by position drops exactly one entry.
LEMMA RemoveAtType ==
  ASSUME NEW q \in Seq(Tracks), NEW i \in 1..Len(q)
  PROVE  /\ RemoveAt(q, i) \in Seq(Tracks)
         /\ Len(RemoveAt(q, i)) = Len(q) - 1
<1>1. /\ SubSeq(q, 1, i - 1) \in Seq(Tracks)
      /\ Len(SubSeq(q, 1, i - 1)) = i - 1
  BY SubSeqProperties
<1>2. /\ SubSeq(q, i + 1, Len(q)) \in Seq(Tracks)
      /\ Len(SubSeq(q, i + 1, Len(q))) = Len(q) - i
  BY SubSeqProperties
<1> QED  BY <1>1, <1>2, ConcatProperties DEF RemoveAt

\* Inserting at a position adds exactly one entry.
LEMMA InsertAtType ==
  ASSUME NEW q \in Seq(Tracks), NEW i \in 1..(Len(q) + 1), NEW track \in Tracks
  PROVE  /\ InsertAt(q, i, track) \in Seq(Tracks)
         /\ Len(InsertAt(q, i, track)) = Len(q) + 1
<1>1. /\ SubSeq(q, 1, i - 1) \in Seq(Tracks)
      /\ Len(SubSeq(q, 1, i - 1)) = i - 1
  BY SubSeqProperties
<1>2. /\ SubSeq(q, i, Len(q)) \in Seq(Tracks)
      /\ Len(SubSeq(q, i, Len(q))) = Len(q) - i + 1
  BY SubSeqProperties
<1>3. <<track>> \in Seq(Tracks) /\ Len(<<track>>) = 1
  OBVIOUS
<1>4. /\ SubSeq(q, 1, i - 1) \o <<track>> \in Seq(Tracks)
      /\ Len(SubSeq(q, 1, i - 1) \o <<track>>) = i
  BY <1>1, <1>3, ConcatProperties
<1> DEFINE left  == SubSeq(q, 1, i - 1) \o <<track>>
           right == SubSeq(q, i, Len(q))
<1>5. InsertAt(q, i, track) = left \o right
  BY DEF InsertAt
<1> HIDE DEF left, right
<1>6. /\ left \o right \in Seq(Tracks)
      /\ Len(left \o right) = Len(left) + Len(right)
  BY <1>2, <1>4, ConcatProperties DEF left, right
<1>7. Len(left) = i /\ Len(right) = Len(q) - i + 1
  BY <1>2, <1>4 DEF left, right
<1> QED  BY <1>5, <1>6, <1>7

\* The history drops its oldest entry when it is full (push_history).
LEMMA PushHistoryType ==
  ASSUME NEW h \in Seq(Tracks), Len(h) <= MaxQueued, NEW track \in Tracks
  PROVE  /\ PushHistory(h, track) \in Seq(Tracks)
         /\ Len(PushHistory(h, track)) <= MaxQueued
<1>1. CASE Len(h) = MaxQueued
  <2>1. Tail(h) \in Seq(Tracks) /\ Len(Tail(h)) = Len(h) - 1
    BY <1>1, ConstantsAssumption, HeadTailProperties
  <2> QED  BY <1>1, <2>1, AppendProperties, ConstantsAssumption DEF PushHistory
<1>2. CASE Len(h) # MaxQueued
  BY <1>2, AppendProperties, ConstantsAssumption DEF PushHistory
<1> QED  BY <1>1, <1>2

\* A full window forgets its oldest key (remember_idempotency).
LEMMA RememberType ==
  ASSUME recent \in Seq(Keys), Len(recent) <= IdempotencyWindow, NEW key \in Keys
  PROVE  /\ Remember(key) \in Seq(Keys)
         /\ Len(Remember(key)) <= IdempotencyWindow
<1>1. CASE Len(recent) = IdempotencyWindow
  <2>1. Tail(recent) \in Seq(Keys) /\ Len(Tail(recent)) = Len(recent) - 1
    BY <1>1, ConstantsAssumption, HeadTailProperties
  <2> QED  BY <1>1, <2>1, AppendProperties, ConstantsAssumption DEF Remember
<1>2. CASE Len(recent) # IdempotencyWindow
  BY <1>2, AppendProperties, ConstantsAssumption DEF Remember
<1> QED  BY <1>1, <1>2

-----------------------------------------------------------------------------
(* One step: what every change leaves well-typed and coherent.             *)

\* An adapter that holds a generation or reports a playback has a track: what
\* makes the end reports well-typed.
LoadedPorts == {p \in Ports : p.gen # 0 \/ p.mode # "none" => p.track # None}

Inv == TypeOK /\ ShapeOK /\ port \in LoadedPorts

\* What an action that is not about recent, ends and phase has to keep.
KeepsModel ==
  /\ player' \in Models /\ Coherent(player')
  /\ timer' \in Timers
  /\ generation' \in Nat
  /\ port' \in LoadedPorts

LEMMA TimerTypes ==
  ASSUME NEW t \in Timers
  PROVE  /\ Invalidate(t) \in Timers
         /\ Arm(t) \in Timers
         /\ MarkFired(t) \in Timers
         /\ \A was, is \in BOOLEAN : ReconcileIdle(was, is, t) \in Timers
<1>1. Invalidate(t) \in Timers
  <2>1. MaxIdle \in Nat
    BY ConstantsAssumption
  <2>2. (IF t.gen < MaxIdle THEN t.gen + 1 ELSE t.gen) \in Nat
    BY <2>1 DEF Timers
  <2> QED  BY <2>2 DEF Timers, Invalidate
<1>2. Arm(t) \in Timers
  BY <1>1 DEF Timers, Arm, Invalidate
<1>3. MarkFired(t) \in Timers
  BY DEF Timers, MarkFired
<1> QED  BY <1>1, <1>2, <1>3 DEF ReconcileIdle

LEMMA FinishChangeKeeps ==
  ASSUME Inv, NEW p \in Models, Coherent(p), NEW t \in Timers, FinishChange(p, t)
  PROVE  player' \in Models /\ Coherent(player') /\ timer' \in Timers
<1>1. player' = [p EXCEPT !.revision = player.revision + 1] /\ player.revision \in Nat
  BY DEF FinishChange, Inv, TypeOK, Models
<1>2. player' \in Models /\ Coherent(player')
  BY <1>1 DEF Models, Coherent
<1>3. Idle(player) \in BOOLEAN /\ Idle(p) \in BOOLEAN
  BY DEF Idle
<1>4. timer' \in Timers
  BY <1>3, TimerTypes DEF FinishChange
<1> QED  BY <1>2, <1>4

LEMMA ChangeKeeps ==
  ASSUME Inv, NEW p \in Models, Coherent(p), Change(p)
  PROVE  player' \in Models /\ Coherent(player') /\ timer' \in Timers
BY FinishChangeKeeps DEF Change, Inv, TypeOK

LEMMA PortTypes ==
  ASSUME Inv
  PROVE  /\ \A t \in Tracks, g \in Nat : PortPlay(t, g) \in LoadedPorts
         /\ PortStopped \in LoadedPorts
         /\ PortLeft \in LoadedPorts
BY ConstantsAssumption
   DEF Inv, TypeOK, Ports, LoadedPorts, PortPlay, PortStopped, PortLeft

LEMMA SpendKeeps ==
  ASSUME Inv, SpendGeneration
  PROVE  generation' \in Nat
BY DEF Inv, TypeOK, SpendGeneration

\* A disconnected model is coherent whatever it was before.
LEMMA ClearedKeeps ==
  ASSUME NEW p \in Models
  PROVE  Cleared(p) \in Models /\ Coherent(Cleared(p))
<1>1. Cleared(p) \in Models
  <2>1. <<>> \in Seq(Tracks) /\ "Disconnected" \in States
    BY DEF States
  <2> QED  BY <2>1 DEF Cleared, Models
<1>2. /\ Cleared(p).voice = None /\ Cleared(p).state = "Disconnected"
      /\ Cleared(p).current = None
      /\ Cleared(p).queue = <<>> /\ Cleared(p).history = <<>>
  BY DEF Cleared, Models
<1> QED  BY <1>1, <1>2, ConstantsAssumption DEF Coherent

\* A model that plays a track is coherent once its queue and history fit.
LEMMA PlayingKeeps ==
  ASSUME NEW p \in Models, p.voice # None, NEW track \in Tracks, NEW gen \in Nat,
         NEW q \in Seq(Tracks), Len(q) <= MaxQueued,
         NEW h \in Seq(Tracks), Len(h) <= MaxQueued
  PROVE  LET new == [Playing(p, track, gen) EXCEPT !.queue = q, !.history = h]
         IN new \in Models /\ Coherent(new)
<1> DEFINE new == [Playing(p, track, gen) EXCEPT !.queue = q, !.history = h]
<1>1. new \in Models
  BY DEF Playing, Models, States, Active
<1>2. /\ new.voice = p.voice /\ new.state = "Playing"
      /\ new.current = [track |-> track, gen |-> gen]
      /\ new.queue = q /\ new.history = h
  BY DEF Playing, Models
<1>3. new.current # None
  BY <1>2, ConstantsAssumption
<1> HIDE DEF new
<1>4. Coherent(new)
  BY <1>2, <1>3 DEF Coherent
<1> QED  BY <1>1, <1>4 DEF new

\* A model with nothing loaded is coherent in a channel once its history fits.
LEMMA UnloadedKeeps ==
  ASSUME NEW p \in Models, p.voice # None,
         NEW h \in Seq(Tracks), Len(h) <= MaxQueued
  PROVE  LET new == [p EXCEPT !.current = None, !.queue = <<>>, !.history = h,
                              !.state = "IdleConnected"]
         IN new \in Models /\ Coherent(new)
<1> DEFINE new == [p EXCEPT !.current = None, !.queue = <<>>, !.history = h,
                            !.state = "IdleConnected"]
<1>1. new \in Models
  <2>1. <<>> \in Seq(Tracks) /\ "IdleConnected" \in States
    BY DEF States
  <2> QED  BY <2>1 DEF Models
<1>2. /\ new.voice = p.voice /\ new.state = "IdleConnected" /\ new.current = None
      /\ new.queue = <<>> /\ new.history = h
  BY DEF Models
<1> HIDE DEF new
<1>3. Coherent(new)
  BY <1>2, ConstantsAssumption DEF Coherent
<1> QED  BY <1>1, <1>3 DEF new

-----------------------------------------------------------------------------
(* The commands.                                                           *)

\* Fields of a well-typed model, for the leaves below.
LEMMA ModelFields ==
  ASSUME Inv
  PROVE  /\ player.queue \in Seq(Tracks) /\ Len(player.queue) <= MaxQueued
         /\ player.history \in Seq(Tracks) /\ Len(player.history) <= MaxQueued
         /\ player.settings \in Settings
         /\ player.current # None => /\ player.current.track \in Tracks
                                     /\ player.current.gen \in Nat
                                     /\ player.voice # None
         /\ player.history # <<>> => player.voice # None
BY DEF Inv, TypeOK, ShapeOK, Coherent, Models, Active

LEMMA NoChangeKeeps ==
  ASSUME Inv, NoChange
  PROVE  KeepsModel
BY DEF Inv, TypeOK, ShapeOK, NoChange, KeepsModel

LEMMA ResumeKeeps ==
  ASSUME Inv, Resume
  PROVE  KeepsModel
<1> DEFINE new == [player EXCEPT !.state = "Playing"]
<1>1. new \in Models /\ Coherent(new)
  BY DEF Inv, TypeOK, ShapeOK, Resume, Models, States, Coherent
<1>2. port' \in LoadedPorts /\ generation' \in Nat
  BY DEF Inv, TypeOK, Resume, Ports, LoadedPorts
<1>3. Change(new)
  BY DEF Resume
<1> HIDE DEF new
<1> QED  BY <1>1, <1>2, <1>3, ChangeKeeps DEF KeepsModel

LEMMA PauseKeeps ==
  ASSUME Inv, Pause
  PROVE  KeepsModel
<1> DEFINE new == [player EXCEPT !.state = "Paused"]
<1>1. new \in Models /\ Coherent(new)
  BY DEF Inv, TypeOK, ShapeOK, Pause, Models, States, Coherent
<1>2. port' \in LoadedPorts /\ generation' \in Nat
  BY DEF Inv, TypeOK, Pause, Ports, LoadedPorts
<1>3. Change(new)
  BY DEF Pause
<1> HIDE DEF new
<1> QED  BY <1>1, <1>2, <1>3, ChangeKeeps DEF KeepsModel

LEMMA StopKeeps ==
  ASSUME Inv, Stop
  PROVE  KeepsModel
<1>1. CASE NoChange
  BY <1>1, NoChangeKeeps
<1>2. CASE ~NoChange
  <2> DEFINE new == [player EXCEPT !.current = None, !.queue = <<>>, !.history = <<>>,
                                   !.state = "IdleConnected"]
  <2>1. player \in Models /\ player.voice # None
    BY DEF Inv, TypeOK, ShapeOK, Coherent, Stop
  <2>2. <<>> \in Seq(Tracks) /\ Len(<<>>) <= MaxQueued
    BY ConstantsAssumption
  <2>3. new \in Models /\ Coherent(new)
    BY <2>1, <2>2, UnloadedKeeps
  <2>4. port' \in LoadedPorts /\ generation' \in Nat
    BY <1>2, PortTypes DEF Stop, Inv, TypeOK
  <2>5. Change(new)
    BY <1>2 DEF Stop
  <2> HIDE DEF new
  <2> QED  BY <2>3, <2>4, <2>5, ChangeKeeps DEF KeepsModel
<1> QED  BY <1>1, <1>2

LEMMA SkipKeeps ==
  ASSUME Inv, Skip
  PROVE  KeepsModel
<1> DEFINE history == PushHistory(player.history, player.current.track)
           skipped == [player EXCEPT !.history = history]
<1>1. /\ history \in Seq(Tracks) /\ Len(history) <= MaxQueued
      /\ player \in Models /\ player.voice # None
  BY ModelFields, PushHistoryType DEF Skip, Inv, TypeOK
<1>2. skipped \in Models /\ skipped.voice # None
  BY <1>1 DEF Models
<1>3. CASE player.queue # <<>>
  <2> DEFINE new == [Playing(skipped, Head(player.queue), generation')
                       EXCEPT !.queue = Tail(@)]
  <2>1. /\ Head(player.queue) \in Tracks /\ Tail(player.queue) \in Seq(Tracks)
        /\ Len(Tail(player.queue)) <= MaxQueued
    BY <1>3, ModelFields, HeadTailProperties, ConstantsAssumption
  <2>2. generation' \in Nat /\ port' \in LoadedPorts /\ Change(new)
    BY <1>3, <2>1, SpendKeeps, PortTypes DEF Skip
  <2>3. new = [Playing(player, Head(player.queue), generation')
                 EXCEPT !.queue = Tail(player.queue), !.history = history]
    BY <1>1 DEF Playing, Models
  <2> HIDE DEF new, history, skipped
  <2>4. new \in Models /\ Coherent(new)
    BY <1>1, <2>1, <2>2, <2>3, PlayingKeeps
  <2> QED  BY <2>2, <2>4, ChangeKeeps DEF KeepsModel
<1>4. CASE player.queue = <<>>
  <2> DEFINE new == [skipped EXCEPT !.current = None, !.state = "IdleConnected"]
  <2>1. generation' \in Nat /\ port' \in LoadedPorts /\ Change(new)
    BY <1>4, PortTypes DEF Skip, Inv, TypeOK
  <2>2. new = [player EXCEPT !.current = None, !.queue = <<>>, !.history = history,
                             !.state = "IdleConnected"]
    BY <1>1, <1>4 DEF Models
  <2>3. new \in Models /\ Coherent(new)
    BY <1>1, <2>2, UnloadedKeeps
  <2> HIDE DEF new
  <2> QED  BY <2>1, <2>3, ChangeKeeps DEF KeepsModel
<1> QED  BY <1>3, <1>4

LEMMA PreviousKeeps ==
  ASSUME Inv, Previous
  PROVE  KeepsModel
<1> DEFINE track == Last(player.history)
           kept  == IF Contains(player.queue, track)
                    THEN RemoveAt(player.queue, Position(player.queue, track))
                    ELSE player.queue
           queue == IF player.current # None THEN <<player.current.track>> \o kept ELSE kept
           new   == [Playing(player, track, generation')
                       EXCEPT !.queue = queue, !.history = Front(@)]
<1>1. /\ Len(queue) <= MaxQueued /\ SpendGeneration
      /\ port' = PortPlay(track, generation') /\ Change(new)
      /\ player.history # <<>>
  BY DEF Previous
<1>2. /\ player.queue \in Seq(Tracks) /\ player.history \in Seq(Tracks)
      /\ Len(player.history) <= MaxQueued /\ player \in Models
      /\ player.voice # None
  BY <1>1, ModelFields DEF Inv, TypeOK
<1>3. track \in Tracks
  BY <1>1, <1>2, ElementOfSeq, EmptySeq DEF Last
<1>4. kept \in Seq(Tracks)
  BY <1>2, PositionFinds, RemoveAtType
<1>5. queue \in Seq(Tracks)
  <2>1. CASE player.current # None
    <3>1. <<player.current.track>> \in Seq(Tracks)
      BY <2>1, ModelFields
    <3> QED  BY <1>4, <2>1, <3>1, ConcatProperties
  <2> QED  BY <1>4, <2>1
<1>6. /\ Front(player.history) \in Seq(Tracks)
      /\ Len(Front(player.history)) <= MaxQueued
  BY <1>1, <1>2, SubSeqProperties, ConstantsAssumption, EmptySeq DEF Front
<1>7. generation' \in Nat /\ port' \in LoadedPorts
  BY <1>1, <1>3, SpendKeeps, PortTypes
<1>8. new = [Playing(player, track, generation')
               EXCEPT !.queue = queue, !.history = Front(player.history)]
  BY <1>2 DEF Playing, Models
<1> HIDE DEF new, queue, kept, track
<1>9. new \in Models /\ Coherent(new)
  BY <1>1, <1>2, <1>3, <1>5, <1>6, <1>7, <1>8, PlayingKeeps
<1> QED  BY <1>1, <1>7, <1>9, ChangeKeeps DEF KeepsModel

\* Replacing the queue keeps coherence while a track is current.
LEMMA RequeuedKeeps ==
  ASSUME NEW p \in Models, Coherent(p),
         NEW q \in Seq(Tracks), Len(q) <= MaxQueued, p.current = None => q = <<>>
  PROVE  [p EXCEPT !.queue = q] \in Models /\ Coherent([p EXCEPT !.queue = q])
BY DEF Models, Coherent

LEMMA RemoveQueuedKeeps ==
  ASSUME Inv, NEW track \in Tracks, RemoveQueued(track)
  PROVE  KeepsModel
<1> DEFINE q == RemoveAt(player.queue, Position(player.queue, track))
           new == [player EXCEPT !.queue = q]
<1>1. /\ Contains(player.queue, track) /\ player.queue \in Seq(Tracks)
      /\ Len(player.queue) <= MaxQueued /\ player \in Models /\ Coherent(player)
  BY ModelFields DEF RemoveQueued, Inv, TypeOK, ShapeOK
<1>2. q \in Seq(Tracks) /\ Len(q) <= MaxQueued
  BY <1>1, PositionFinds, RemoveAtType, ConstantsAssumption
<1>3. player.current # None
  BY <1>1 DEF Contains, Coherent
<1>4. generation' \in Nat /\ port' \in LoadedPorts /\ Change(new)
  BY DEF RemoveQueued, Inv, TypeOK
<1> HIDE DEF q
<1>5. new \in Models /\ Coherent(new)
  BY <1>1, <1>2, <1>3, RequeuedKeeps
<1> QED  BY <1>4, <1>5, ChangeKeeps DEF KeepsModel

\* The target of a move is a place in the queue without the moved track.
LEMMA MoveTargetInQueue ==
  ASSUME NEW q \in Seq(Tracks), NEW track, Contains(q, track),
         NEW before, before # None => Contains(q, before)
  PROVE  MoveTarget(q, track, before) \in 1..Len(q)
<1>1. Position(q, track) \in 1..Len(q)
  BY PositionFinds
<1>2. before # None => Position(q, before) \in 1..Len(q)
  BY PositionFinds
<1> QED  BY <1>1, <1>2 DEF MoveTarget

LEMMA MoveQueuedKeeps ==
  ASSUME Inv, NEW track \in Tracks, NEW before \in Tracks \cup {None},
         MoveQueued(track, before)
  PROVE  KeepsModel
<1> DEFINE source == Position(player.queue, track)
           target == MoveTarget(player.queue, track, before)
           q      == InsertAt(RemoveAt(player.queue, source), target, track)
           new    == [player EXCEPT !.queue = q]
<1>1. CASE NoChange
  BY <1>1, NoChangeKeeps
<1>2. CASE ~NoChange
  <2>1. /\ Contains(player.queue, track)
        /\ before # None => Contains(player.queue, before)
        /\ UNCHANGED <<generation, port>> /\ Change(new)
    BY <1>2 DEF MoveQueued
  <2>2. /\ player.queue \in Seq(Tracks) /\ Len(player.queue) <= MaxQueued
        /\ player \in Models /\ Coherent(player)
    BY ModelFields DEF Inv, TypeOK, ShapeOK
  <2>3. source \in 1..Len(player.queue) /\ target \in 1..Len(player.queue)
    BY <2>1, <2>2, PositionFinds, MoveTargetInQueue
  <2> HIDE DEF source, target
  <2>4. /\ RemoveAt(player.queue, source) \in Seq(Tracks)
        /\ Len(RemoveAt(player.queue, source)) = Len(player.queue) - 1
    BY <2>2, <2>3, RemoveAtType
  <2>5. q \in Seq(Tracks) /\ Len(q) = Len(player.queue)
    BY <2>2, <2>3, <2>4, InsertAtType
  <2>6. player.current # None
    BY <2>1, <2>2 DEF Contains, Coherent
  <2> HIDE DEF q
  <2>7. new \in Models /\ Coherent(new)
    BY <2>2, <2>5, <2>6, RequeuedKeeps
  <2>8. generation' \in Nat /\ port' \in LoadedPorts
    BY <2>1 DEF Inv, TypeOK
  <2> QED  BY <2>1, <2>7, <2>8, ChangeKeeps DEF KeepsModel
<1> QED  BY <1>1, <1>2

LEMMA SeekKeeps ==
  ASSUME Inv, Seek
  PROVE  KeepsModel
<1> DEFINE new == [player EXCEPT !.current.gen = generation']
<1>1. generation' \in Nat
  BY SpendKeeps DEF Seek
<1>2. /\ player \in Models /\ Coherent(player) /\ port \in LoadedPorts
      /\ player.current \in Active /\ player.current # None
  BY DEF Seek, Inv, TypeOK, ShapeOK, Models
<1>3. [player.current EXCEPT !.gen = generation'] \in Active
  BY <1>1, <1>2 DEF Active
<1>4. [player.current EXCEPT !.gen = generation'] # None
  BY <1>3, ConstantsAssumption DEF Active
<1>5. new = [player EXCEPT !.current = [player.current EXCEPT !.gen = generation']]
  BY <1>2 DEF Models
<1>6. new \in Models /\ Coherent(new)
  BY <1>2, <1>3, <1>4, <1>5 DEF Models, Coherent
<1>7. port' \in LoadedPorts
  BY <1>1, <1>2, ConstantsAssumption DEF Seek, HasTrack, Ports, LoadedPorts
<1>8. Change(new)
  BY DEF Seek
<1> HIDE DEF new
<1> QED  BY <1>1, <1>6, <1>7, <1>8, ChangeKeeps DEF KeepsModel

LEMMA ApplySettingsKeeps ==
  ASSUME Inv, NEW mine \in Settings, NEW theirs \in Settings, ApplySettings(mine, theirs)
  PROVE  KeepsModel
<1> DEFINE new == [player EXCEPT !.settings = mine]
<1>1. new \in Models /\ Coherent(new)
  BY DEF Inv, TypeOK, ShapeOK, Models, Coherent
<1>2. port' \in LoadedPorts /\ generation' \in Nat /\ Change(new)
  BY DEF ApplySettings, Inv, TypeOK, Ports, LoadedPorts
<1> HIDE DEF new
<1> QED  BY <1>1, <1>2, ChangeKeeps DEF KeepsModel

LEMMA SettingKeeps ==
  ASSUME Inv,
         \/ \E v \in Volumes : SetVolume(v)
         \/ \E h \in Presets : SetHrir(h)
         \/ \E on \in BOOLEAN : SetSpatial(on)
  PROVE  KeepsModel
<1>1. player.settings \in Settings /\ port.settings \in Settings
  BY DEF Inv, TypeOK, Models, Ports, LoadedPorts
<1>2. CASE \E v \in Volumes : SetVolume(v)
  <2>1. PICK v \in Volumes : SetVolume(v)
    BY <1>2
  <2>2. /\ [player.settings EXCEPT !.volume = v] \in Settings
        /\ [port.settings EXCEPT !.volume = v] \in Settings
    BY <1>1 DEF Settings
  <2> QED  BY <2>1, <2>2, NoChangeKeeps, ApplySettingsKeeps DEF SetVolume
<1>3. CASE \E h \in Presets : SetHrir(h)
  <2>1. PICK h \in Presets : SetHrir(h)
    BY <1>3
  <2>2. /\ [player.settings EXCEPT !.hrir = h, !.spatial = TRUE] \in Settings
        /\ [port.settings EXCEPT !.hrir = h, !.spatial = TRUE] \in Settings
    BY <1>1 DEF Settings
  <2> QED  BY <2>1, <2>2, NoChangeKeeps, ApplySettingsKeeps DEF SetHrir
<1>4. CASE \E on \in BOOLEAN : SetSpatial(on)
  <2>1. PICK on \in BOOLEAN : SetSpatial(on)
    BY <1>4
  <2>2. /\ [player.settings EXCEPT !.spatial = on] \in Settings
        /\ [port.settings EXCEPT !.spatial = on] \in Settings
    BY <1>1 DEF Settings
  <2> QED  BY <2>1, <2>2, NoChangeKeeps, ApplySettingsKeeps DEF SetSpatial
<1> QED  BY <1>2, <1>3, <1>4

LEMMA SetRepeatKeeps ==
  ASSUME Inv, NEW r \in Repeats, SetRepeat(r)
  PROVE  KeepsModel
<1>1. CASE NoChange
  BY <1>1, NoChangeKeeps
<1>2. CASE ~NoChange
  <2> DEFINE new == [player EXCEPT !.repeat = r]
  <2>1. new \in Models /\ Coherent(new)
    BY DEF Inv, TypeOK, ShapeOK, Models, Coherent
  <2>2. port' \in LoadedPorts /\ generation' \in Nat /\ Change(new)
    BY <1>2 DEF SetRepeat, Inv, TypeOK
  <2> HIDE DEF new
  <2> QED  BY <2>1, <2>2, ChangeKeeps DEF KeepsModel
<1> QED  BY <1>1, <1>2

\* A shuffled queue holds as many tracks as before, all of them from it.
LEMMA ShufflesType ==
  ASSUME NEW q \in Seq(Tracks), NEW s \in Shuffles(q)
  PROVE  s \in Seq(Tracks) /\ Len(s) = Len(q)
<1>1. PICK f \in [DOMAIN q -> DOMAIN q] : s = [i \in DOMAIN q |-> q[f[i]]]
  BY DEF Shuffles, Bijection, Injection, Surjection
<1>2. s \in [1..Len(q) -> Tracks] /\ Len(q) \in Nat
  BY <1>1, LenProperties
<1> QED  BY <1>2

LEMMA SetShuffleKeeps ==
  ASSUME Inv, NEW on \in BOOLEAN, SetShuffle(on)
  PROVE  KeepsModel
<1>1. CASE NoChange
  BY <1>1, NoChangeKeeps
<1>2. CASE ~NoChange
  <2>1. PICK q \in IF on THEN Shuffles(player.queue) ELSE {player.queue} :
          Change([player EXCEPT !.shuffle = on, !.queue = q])
    BY <1>2 DEF SetShuffle
  <2>2. /\ player.queue \in Seq(Tracks) /\ Len(player.queue) <= MaxQueued
        /\ player \in Models /\ Coherent(player)
    BY ModelFields DEF Inv, TypeOK, ShapeOK
  <2>3. q \in Seq(Tracks) /\ Len(q) = Len(player.queue)
    BY <2>1, <2>2, ShufflesType
  <2>4. player.queue = <<>> => q = <<>>
    BY <2>2, <2>3, EmptySeq
  <2> DEFINE shuffled == [player EXCEPT !.shuffle = on]
             new == [player EXCEPT !.shuffle = on, !.queue = q]
  <2>5. shuffled \in Models /\ Coherent(shuffled) /\ shuffled.current = player.current
    BY <2>2 DEF Models, Coherent
  <2>6. new = [shuffled EXCEPT !.queue = q]
    OBVIOUS
  <2>7. player.current = None => q = <<>>
    BY <2>2, <2>4 DEF Coherent
  <2>8. Change(new)
    BY <2>1
  <2> HIDE DEF new, shuffled
  <2>9. new \in Models /\ Coherent(new)
    BY <2>2, <2>3, <2>5, <2>6, <2>7, RequeuedKeeps
  <2>10. port' \in LoadedPorts /\ generation' \in Nat
    BY <1>2 DEF SetShuffle, Inv, TypeOK
  <2> QED  BY <2>8, <2>9, <2>10, ChangeKeeps DEF KeepsModel
<1> QED  BY <1>1, <1>2

LEMMA DisconnectKeeps ==
  ASSUME Inv, Disconnect
  PROVE  KeepsModel
<1>1. CASE NoChange
  BY <1>1, NoChangeKeeps
<1>2. CASE ~NoChange
  <2>1. Change(Cleared(player)) /\ port' = PortLeft /\ generation' = generation
    BY <1>2 DEF Disconnect
  <2>2. Cleared(player) \in Models /\ Coherent(Cleared(player)) /\ generation \in Nat
    BY ClearedKeeps DEF Inv, TypeOK
  <2> QED  BY <2>1, <2>2, PortTypes, ChangeKeeps DEF KeepsModel
<1> QED  BY <1>1, <1>2

LEMMA ExecuteKeeps ==
  ASSUME Inv, Execute
  PROVE  KeepsModel
<1>1. ASSUME \E t \in Tracks, b \in Tracks \cup {None} : MoveQueued(t, b)
      PROVE  KeepsModel
  BY <1>1, MoveQueuedKeeps
<1>2. ASSUME \E t \in Tracks : RemoveQueued(t)
      PROVE  KeepsModel
  BY <1>2, RemoveQueuedKeeps
<1>3. ASSUME \E r \in Repeats : SetRepeat(r)
      PROVE  KeepsModel
  BY <1>3, SetRepeatKeeps
<1>4. ASSUME \E on \in BOOLEAN : SetShuffle(on)
      PROVE  KeepsModel
  BY <1>4, SetShuffleKeeps
<1> QED  BY <1>1, <1>2, <1>3, <1>4, ResumeKeeps, PauseKeeps, StopKeeps, SkipKeeps,
            PreviousKeeps, SeekKeeps, SettingKeeps, DisconnectKeeps DEF Execute

-----------------------------------------------------------------------------
(* The other requests and the end of a playback.                           *)

\* insert_shuffled adds the new tracks and keeps the length right.
LEMMA InsertionsType ==
  ASSUME NEW q \in Seq(Tracks), NEW added \in Seq(Tracks), NEW s \in Insertions(q, added)
  PROVE  s \in Seq(Tracks) /\ Len(s) = Len(q) + Len(added)
<1>1. s \in [1..(Len(q) + Len(added)) -> ToSet(q) \cup ToSet(added)]
  BY DEF Insertions
<1>2. ToSet(q) \cup ToSet(added) \subseteq Tracks
  BY DEF ToSet
<1> QED  BY <1>1, <1>2

LEMMA EnqueueBatchKeeps ==
  ASSUME Inv, NEW added \in Seq(Tracks), added # <<>>, EnqueueBatch(added)
  PROVE  KeepsModel
<1> DEFINE starts == player.current = None
           rest   == IF starts THEN Tail(added) ELSE added
<1>1. PICK q \in IF player.shuffle THEN Insertions(player.queue, rest)
                 ELSE {player.queue \o rest} :
        \/ /\ starts /\ SpendGeneration
           /\ port.channel # None
           /\ port' = PortPlay(Head(added), generation')
           /\ Change([Playing(player, Head(added), generation') EXCEPT !.queue = q])
        \/ /\ ~starts
           /\ UNCHANGED <<generation, port>>
           /\ Change([player EXCEPT !.queue = q])
        \/ starts /\ PlayFails
  BY DEF EnqueueBatch
<1>2. /\ player.voice # None
      /\ Len(player.queue) + Len(rest) <= MaxQueued
  BY DEF EnqueueBatch
<1>3. /\ player.queue \in Seq(Tracks) /\ player.history \in Seq(Tracks)
      /\ Len(player.history) <= MaxQueued
      /\ player \in Models /\ Coherent(player)
  BY ModelFields DEF Inv, TypeOK, ShapeOK
<1>4. Head(added) \in Tracks /\ rest \in Seq(Tracks)
  BY HeadTailProperties
<1>5. q \in Seq(Tracks) /\ Len(q) <= MaxQueued
  <2>1. CASE player.shuffle
    BY <1>1, <1>2, <1>3, <1>4, <2>1, InsertionsType
  <2>2. CASE ~player.shuffle
    <3>1. q = player.queue \o rest
      BY <1>1, <2>2
    <3> HIDE DEF rest
    <3>2. q \in Seq(Tracks) /\ Len(q) = Len(player.queue) + Len(rest)
      BY <1>3, <1>4, <3>1, ConcatProperties
    <3> QED  BY <1>2, <3>2
  <2> QED  BY <2>1, <2>2
<1> HIDE DEF rest
<1>6. CASE /\ starts /\ SpendGeneration
           /\ port' = PortPlay(Head(added), generation')
           /\ Change([Playing(player, Head(added), generation') EXCEPT !.queue = q])
  <2> DEFINE new == [Playing(player, Head(added), generation') EXCEPT !.queue = q]
  <2>1. new = [Playing(player, Head(added), generation')
                 EXCEPT !.queue = q, !.history = player.history]
    BY <1>3 DEF Playing, Models
  <2>2. generation' \in Nat /\ port' \in LoadedPorts /\ Change(new)
    BY <1>4, <1>6, SpendKeeps, PortTypes
  <2> HIDE DEF new
  <2>3. new \in Models /\ Coherent(new)
    BY <1>2, <1>3, <1>4, <1>5, <2>1, <2>2, PlayingKeeps
  <2> QED  BY <2>2, <2>3, ChangeKeeps DEF KeepsModel
<1>7. CASE ~starts /\ UNCHANGED <<generation, port>> /\ Change([player EXCEPT !.queue = q])
  <2> DEFINE new == [player EXCEPT !.queue = q]
  <2>1. new \in Models /\ Coherent(new) /\ Change(new)
    BY <1>3, <1>5, <1>7, RequeuedKeeps
  <2> HIDE DEF new
  <2> QED  BY <1>7, <2>1, ChangeKeeps DEF KeepsModel, Inv, TypeOK
<1>8. CASE PlayFails
  BY <1>8, SpendKeeps DEF PlayFails, KeepsModel, Inv, TypeOK, ShapeOK
<1> QED  BY <1>1, <1>6, <1>7, <1>8

LEMMA ConnectKeeps ==
  ASSUME Inv, NEW channel \in Channels, Connect(channel)
  PROVE  KeepsModel
<1> DEFINE volume == [port.settings EXCEPT !.volume = player.settings.volume]
           hrir   == IF player.settings.hrir = None THEN volume
                     ELSE [volume EXCEPT !.hrir = player.settings.hrir, !.spatial = TRUE]
           all    == [hrir EXCEPT !.spatial = player.settings.spatial]
           new    == [player EXCEPT !.voice = channel, !.state = "IdleConnected"]
<1>1. /\ player.voice = None /\ generation' = generation
      /\ \/ port' = [port EXCEPT !.channel = channel, !.settings = all] /\ Change(new)
         \/ /\ \E s \in {port.settings, volume, hrir} :
                 port' \in {[PortLeft EXCEPT !.settings = s],
                           [port EXCEPT !.channel = channel, !.settings = s]}
            /\ UNCHANGED <<player, timer>>
  BY DEF Connect
<1>2. /\ player \in Models /\ Coherent(player) /\ port \in LoadedPorts /\ timer \in Timers
      /\ generation \in Nat
  BY DEF Inv, TypeOK, ShapeOK
<1>3. /\ player.settings \in Settings /\ port.settings \in Settings
  BY <1>2 DEF Models, Ports, LoadedPorts
<1>4. volume \in Settings
  BY <1>3 DEF Settings
<1>5. hrir \in Settings
  BY <1>3, <1>4 DEF Settings
<1>6. all \in Settings
  BY <1>3, <1>5 DEF Settings
<1>7. new \in Models /\ Coherent(new)
  <2>1. channel # None /\ "IdleConnected" \in States
    BY ConstantsAssumption DEF States
  <2>2. player.current = None
    BY <1>1, <1>2 DEF Coherent
  <2> QED  BY <1>2, <2>1, <2>2 DEF Models, Coherent
<1> HIDE DEF volume, hrir, all, new
<1>8. CASE port' = [port EXCEPT !.channel = channel, !.settings = all] /\ Change(new)
  <2>1. port' \in LoadedPorts
    BY <1>2, <1>6, <1>8 DEF Ports, LoadedPorts
  <2> QED  BY <1>1, <1>2, <1>7, <1>8, <2>1, ChangeKeeps DEF KeepsModel
<1>9. CASE /\ \E s \in {port.settings, volume, hrir} :
                port' \in {[PortLeft EXCEPT !.settings = s],
                          [port EXCEPT !.channel = channel, !.settings = s]}
           /\ UNCHANGED <<player, timer>>
  <2>1. PICK s \in Settings : port' \in {[PortLeft EXCEPT !.settings = s],
                                         [port EXCEPT !.channel = channel, !.settings = s]}
    BY <1>3, <1>4, <1>5, <1>9
  <2>2. port' \in LoadedPorts
    BY <1>2, <2>1, PortTypes DEF Ports, LoadedPorts
  <2> QED  BY <1>1, <1>2, <1>9, <2>2 DEF KeepsModel
<1> QED  BY <1>1, <1>8, <1>9

LEMMA StartFirstPlayableKeeps ==
  ASSUME Inv, NEW p \in Models, p.voice # None, Len(p.history) <= MaxQueued,
         NEW candidates \in Seq(Tracks), Len(candidates) <= MaxQueued + 1,
         NEW g \in Nat, StartFirstPlayable(p, candidates, g)
  PROVE  KeepsModel
<1>0. p.history \in Seq(Tracks) /\ MaxGeneration \in Nat /\ MaxQueued \in Nat
  BY ConstantsAssumption DEF Models
<1>1. CASE \E k \in DOMAIN candidates :
             /\ g + k <= MaxGeneration /\ port.channel # None
             /\ generation' = g + k
             /\ port' = PortPlay(candidates[k], g + k)
             /\ Change([Playing(p, candidates[k], g + k)
                          EXCEPT !.queue = SubSeq(candidates, k + 1, Len(candidates))])
  <2>1. PICK k \in 1..Len(candidates) :
          /\ generation' = g + k
          /\ port' = PortPlay(candidates[k], g + k)
          /\ Change([Playing(p, candidates[k], g + k)
                       EXCEPT !.queue = SubSeq(candidates, k + 1, Len(candidates))])
    BY <1>1, LenProperties
  <2> DEFINE q   == SubSeq(candidates, k + 1, Len(candidates))
             new == [Playing(p, candidates[k], g + k) EXCEPT !.queue = q]
  <2>2. q \in Seq(Tracks) /\ Len(q) <= MaxQueued
    BY <1>0, SubSeqProperties
  <2>3. new = [Playing(p, candidates[k], g + k) EXCEPT !.queue = q, !.history = p.history]
    BY DEF Playing, Models
  <2>4. candidates[k] \in Tracks /\ g + k \in Nat /\ Change(new)
    BY <2>1
  <2> HIDE DEF new, q
  <2>5. new \in Models /\ Coherent(new)
    BY <1>0, <2>2, <2>3, <2>4, PlayingKeeps
  <2> QED  BY <2>1, <2>4, <2>5, PortTypes, ChangeKeeps DEF KeepsModel
<1>2. CASE /\ generation' = IF g + Len(candidates) <= MaxGeneration
                            THEN g + Len(candidates) ELSE MaxGeneration
           /\ UNCHANGED port
           /\ Change([p EXCEPT !.current = None, !.queue = <<>>, !.state = "IdleConnected"])
  <2> DEFINE new == [p EXCEPT !.current = None, !.queue = <<>>, !.state = "IdleConnected"]
  <2>1. new = [p EXCEPT !.current = None, !.queue = <<>>, !.history = p.history,
                        !.state = "IdleConnected"]
    BY DEF Models
  <2>2. Change(new)
    BY <1>2
  <2> HIDE DEF new
  <2>3. new \in Models /\ Coherent(new)
    BY <1>0, <2>1, UnloadedKeeps
  <2>4. generation' \in Nat /\ port' \in LoadedPorts
    BY <1>0, <1>2, LenProperties DEF Inv, TypeOK
  <2> QED  BY <2>2, <2>3, <2>4, ChangeKeeps DEF KeepsModel
<1> QED  BY <1>1, <1>2 DEF StartFirstPlayable

LEMMA AfterNaturalEndKeeps ==
  ASSUME Inv, player.current # None, AfterNaturalEnd(player.current.track)
  PROVE  KeepsModel
<1> DEFINE finished == player.current.track
           history  == PushHistory(player.history, finished)
           pushed   == [player EXCEPT !.history = history]
           queued   == IF player.repeat = "Queue" THEN Append(player.queue, finished)
                       ELSE player.queue
           spent    == IF generation < MaxGeneration THEN generation + 1 ELSE generation
           new      == Playing(player, finished, generation')
<1>1. \/ /\ SpendGeneration
         /\ port' = PortPlay(finished, generation')
         /\ Change(new)
      \/ StartFirstPlayable(pushed, player.queue, spent)
      \/ StartFirstPlayable(pushed, queued, generation)
  BY DEF AfterNaturalEnd
<1>2. /\ player.queue \in Seq(Tracks) /\ Len(player.queue) <= MaxQueued
      /\ player.history \in Seq(Tracks) /\ Len(player.history) <= MaxQueued
      /\ player.voice # None /\ finished \in Tracks
      /\ player \in Models /\ generation \in Nat
  BY ModelFields DEF Inv, TypeOK
<1>3. history \in Seq(Tracks) /\ Len(history) <= MaxQueued
  BY <1>2, PushHistoryType
<1> HIDE DEF history
<1>4. pushed \in Models /\ pushed.voice # None /\ Len(pushed.history) <= MaxQueued
  BY <1>2, <1>3 DEF Models
<1>5. queued \in Seq(Tracks) /\ Len(queued) <= MaxQueued + 1
  BY <1>2, AppendProperties, ConstantsAssumption
<1>6. spent \in Nat /\ Len(player.queue) <= MaxQueued + 1
  BY <1>2, ConstantsAssumption
<1>7. new = [Playing(player, finished, generation')
               EXCEPT !.queue = player.queue, !.history = player.history]
  BY <1>2 DEF Playing, Models
<1> HIDE DEF finished, pushed, queued, spent, new
<1>8. CASE SpendGeneration /\ port' = PortPlay(finished, generation') /\ Change(new)
  <2>1. generation' \in Nat /\ port' \in LoadedPorts
    BY <1>2, <1>8, SpendKeeps, PortTypes
  <2>2. new \in Models /\ Coherent(new)
    BY <1>2, <1>7, <2>1, PlayingKeeps
  <2> QED  BY <1>8, <2>1, <2>2, ChangeKeeps DEF KeepsModel
<1>9. CASE StartFirstPlayable(pushed, player.queue, spent)
  BY <1>2, <1>4, <1>6, <1>9, StartFirstPlayableKeeps
<1>10. CASE StartFirstPlayable(pushed, queued, generation)
  BY <1>2, <1>4, <1>5, <1>10, StartFirstPlayableKeeps
<1> QED  BY <1>1, <1>8, <1>9, <1>10

LEMMA PlaybackEndedKeeps ==
  ASSUME Inv, PlaybackEnded
  PROVE  KeepsModel
<1>1. CASE NoChange
  BY <1>1, NoChangeKeeps
<1>2. CASE player.current # None /\ AfterNaturalEnd(player.current.track)
  BY <1>2, AfterNaturalEndKeeps
<1>3. CASE player.current # None /\ StartFirstPlayable(player, player.queue, generation)
  <2>1. /\ player \in Models /\ player.voice # None /\ Len(player.history) <= MaxQueued
        /\ player.queue \in Seq(Tracks) /\ Len(player.queue) <= MaxQueued
        /\ generation \in Nat
    BY <1>3, ModelFields DEF Inv, TypeOK
  <2>2. Len(player.queue) <= MaxQueued + 1
    BY <2>1, ConstantsAssumption
  <2> QED  BY <1>3, <2>1, <2>2, StartFirstPlayableKeeps
<1> QED  BY <1>1, <1>2, <1>3 DEF PlaybackEnded, EndsCurrent

LEMMA IdleExpiredKeeps ==
  ASSUME Inv, IdleExpired
  PROVE  KeepsModel
<1> DEFINE t == [timer EXCEPT !.box = 0]
<1>1. /\ generation' = generation
      /\ \/ UNCHANGED <<player, port>> /\ timer' \in {t, MarkFired(t), Arm(MarkFired(t))}
         \/ FinishChange(Cleared(player), MarkFired(t)) /\ port' = PortLeft
  BY DEF IdleExpired
<1>2. /\ player \in Models /\ Coherent(player) /\ port \in LoadedPorts
      /\ generation \in Nat
  BY DEF Inv, TypeOK, ShapeOK
<1>3. t \in Timers
  BY DEF Inv, TypeOK, Timers
<1> HIDE DEF t
<1>4. MarkFired(t) \in Timers /\ Arm(MarkFired(t)) \in Timers
  BY <1>3, TimerTypes
<1>5. CASE UNCHANGED <<player, port>> /\ timer' \in {t, MarkFired(t), Arm(MarkFired(t))}
  BY <1>1, <1>2, <1>3, <1>4, <1>5 DEF KeepsModel
<1>6. CASE FinishChange(Cleared(player), MarkFired(t)) /\ port' = PortLeft
  BY <1>1, <1>2, <1>4, <1>6, ClearedKeeps, FinishChangeKeeps, PortTypes DEF KeepsModel
<1> QED  BY <1>1, <1>5, <1>6

LEMMA ReconcileVoiceChannelKeeps ==
  ASSUME Inv, NEW observed \in Channels \cup {None}, ReconcileVoiceChannel(observed)
  PROVE  KeepsModel
<1> DEFINE new == [player EXCEPT !.voice = observed,
                     !.state = IF player.current = None THEN "IdleConnected" ELSE @]
<1>1. /\ player \in Models /\ Coherent(player) /\ port \in LoadedPorts /\ generation' \in Nat
  BY DEF Inv, TypeOK, ShapeOK, ReconcileVoiceChannel
<1>2. CASE /\ observed # None
           /\ port' = [port EXCEPT !.channel = observed]
           /\ Change(new)
  <2>1. port' \in LoadedPorts
    BY <1>1, <1>2 DEF Ports, LoadedPorts
  <2>2. new \in Models /\ Coherent(new)
    BY <1>1, <1>2 DEF Models, States, Coherent
  <2> HIDE DEF new
  <2> QED  BY <1>1, <1>2, <2>1, <2>2, ChangeKeeps DEF KeepsModel
<1>3. CASE port' \in {PortLeft, port} /\ Change(Cleared(player))
  BY <1>1, <1>3, ClearedKeeps, ChangeKeeps, PortTypes DEF KeepsModel
<1> QED  BY <1>2, <1>3 DEF ReconcileVoiceChannel

LEMMA ShutdownKeeps ==
  ASSUME Inv, NEW closing \in BOOLEAN, Shutdown(closing)
  PROVE  KeepsModel
<1> DEFINE cancelled == IF timer.active THEN Invalidate(timer) ELSE timer
<1>1. /\ player \in Models /\ Coherent(player) /\ timer \in Timers /\ generation' \in Nat
  BY DEF Inv, TypeOK, ShapeOK, Shutdown
<1>2. cancelled \in Timers
  BY <1>1, TimerTypes
<1> HIDE DEF cancelled
<1>3. /\ [timer EXCEPT !.task = 0] \in Timers
      /\ [cancelled EXCEPT !.task = 0] \in Timers
  BY <1>1, <1>2 DEF Timers
<1>4. port' \in LoadedPorts
  BY PortTypes DEF Shutdown
<1>5. \/ UNCHANGED player /\ timer' \in {[timer EXCEPT !.task = 0],
                                         [cancelled EXCEPT !.task = 0]}
      \/ FinishChange(Cleared(player), cancelled)
  BY DEF Shutdown, cancelled
<1>6. CASE UNCHANGED player /\ timer' \in {[timer EXCEPT !.task = 0],
                                           [cancelled EXCEPT !.task = 0]}
  BY <1>1, <1>3, <1>4, <1>6 DEF KeepsModel
<1>7. CASE FinishChange(Cleared(player), cancelled)
  BY <1>1, <1>2, <1>4, <1>7, ClearedKeeps, FinishChangeKeeps DEF KeepsModel
<1> QED  BY <1>5, <1>6, <1>7

-----------------------------------------------------------------------------
(* The inductive invariant.                                                *)

LEMMA InitInv ==
  ASSUME Init
  PROVE  Inv
<1>1. PICK v \in Volumes :
        LET initial == [volume |-> v, hrir |-> None, spatial |-> FALSE]
        IN /\ player = [voice |-> None, revision |-> 0, state |-> "Disconnected",
                        current |-> None, queue |-> <<>>, history |-> <<>>,
                        repeat |-> "Off", shuffle |-> FALSE, settings |-> initial]
           /\ port = [channel |-> None, track |-> None, gen |-> 0, mode |-> "none",
                      paused |-> FALSE, settings |-> initial]
  BY DEF Init
<1> DEFINE initial == [volume |-> v, hrir |-> None, spatial |-> FALSE]
<1>2. initial \in Settings
  BY DEF Settings
<1>3. "Disconnected" \in States /\ "Off" \in Repeats
  BY DEF States, Repeats
<1>4. player \in Models /\ Coherent(player)
  BY <1>1, <1>2, <1>3, ConstantsAssumption DEF Models, Coherent
<1>5. port \in LoadedPorts
  BY <1>1, <1>2 DEF Ports, LoadedPorts
<1>6. /\ timer \in Timers /\ generation \in Nat /\ ends \in Seq(Reports)
      /\ recent \in Seq(Keys) /\ Len(recent) <= IdempotencyWindow
      /\ phase \in {"running", "stopped"}
  BY ConstantsAssumption DEF Init, Timers
<1> QED  BY <1>4, <1>5, <1>6 DEF Inv, TypeOK, ShapeOK, LoadedPorts

\* A report about the loaded track is appended, and the adapter keeps the track.
LEMMA ReportKeeps ==
  ASSUME Inv, NEW reason \in Reasons, NEW mode \in {"failed", "ended"},
         port.mode \in {"running", "failed"},
         port' = [port EXCEPT !.mode = mode],
         ends' = Append(ends, [track |-> port.track, gen |-> port.gen, reason |-> reason]),
         UNCHANGED <<player, generation, timer>>
  PROVE  KeepsModel /\ ends' \in Seq(Reports)
<1>1. port \in LoadedPorts /\ ends \in Seq(Reports)
  BY DEF Inv, TypeOK
<1>2. port.track \in Tracks /\ port.gen \in Nat
  BY <1>1 DEF Ports, LoadedPorts
<1>3. [track |-> port.track, gen |-> port.gen, reason |-> reason] \in Reports
  BY <1>2 DEF Reports
<1>4. ends' \in Seq(Reports)
  BY <1>1, <1>3, AppendProperties
<1>5. port' \in LoadedPorts
  BY <1>1, <1>2, ConstantsAssumption DEF Ports, LoadedPorts
<1> QED  BY <1>4, <1>5 DEF KeepsModel, Inv, TypeOK, ShapeOK

LEMMA BatchesType ==
  ASSUME NEW added \in Batches
  PROVE  added \in Seq(Tracks) /\ added # <<>>
<1>1. PICK n \in 1..MaxBatch : added \in [1..n -> Fresh]
  BY DEF Batches
<1>2. n \in Nat \ {0} /\ Fresh \subseteq Tracks
  BY ConstantsAssumption DEF Fresh
<1>3. added \in [1..n -> Tracks]
  BY <1>1, <1>2
<1>4. added \in Seq(Tracks) /\ Len(added) = n
  BY <1>2, <1>3
<1> QED  BY <1>2, <1>4

LEMMA NextInv ==
  ASSUME Inv, [Next]_vars
  PROVE  Inv'
<1> DEFINE QueuesKept == /\ recent' \in Seq(Keys) /\ Len(recent') <= IdempotencyWindow
                         /\ ends' \in Seq(Reports)
                         /\ phase' \in {"running", "stopped"}
<1>1. /\ recent \in Seq(Keys) /\ Len(recent) <= IdempotencyWindow
      /\ ends \in Seq(Reports) /\ phase \in {"running", "stopped"}
  BY DEF Inv, TypeOK
<1>2. ASSUME NEW c \in Channels, Connect(c)
      PROVE  KeepsModel /\ QueuesKept
  BY <1>1, <1>2, ConnectKeeps DEF Connect
<1>3. ASSUME NEW b \in Batches, EnqueueBatch(b)
      PROVE  KeepsModel /\ QueuesKept
  BY <1>1, <1>3, BatchesType, EnqueueBatchKeeps DEF EnqueueBatch
<1>4. ASSUME NEW k \in Keys, Apply(k)
      PROVE  KeepsModel /\ QueuesKept
  BY <1>1, <1>4, ExecuteKeeps, RememberType DEF Apply
<1>5. ASSUME ApplyFails
      PROVE  KeepsModel /\ QueuesKept
  BY <1>1, <1>5, SpendKeeps
     DEF ApplyFails, PlayFails, KeepsModel, Inv, TypeOK, ShapeOK
<1>6. ASSUME NEW r \in Reasons, TrackEnds(r)
      PROVE  KeepsModel /\ QueuesKept
  BY <1>1, <1>6, ReportKeeps DEF TrackEnds
<1>7. ASSUME WorkerFails
      PROVE  KeepsModel /\ QueuesKept
  <2>1. "WorkerFailed" \in Reasons
    BY DEF Reasons
  <2> QED  BY <1>1, <1>7, <2>1, ReportKeeps DEF WorkerFails
<1>8. ASSUME PlaybackEnded
      PROVE  KeepsModel /\ QueuesKept
  <2>1. ends' \in Seq(Reports)
    BY <1>1, <1>8, HeadTailProperties DEF PlaybackEnded
  <2> QED  BY <1>1, <1>8, <2>1, PlaybackEndedKeeps DEF PlaybackEnded
<1>9. ASSUME TimerFires
      PROVE  KeepsModel /\ QueuesKept
  <2>1. timer' \in Timers
    BY <1>9 DEF TimerFires, Timers, Inv, TypeOK
  <2> QED  BY <1>1, <1>9, <2>1 DEF TimerFires, KeepsModel, Inv, TypeOK, ShapeOK
<1>10. ASSUME IdleExpired
       PROVE  KeepsModel /\ QueuesKept
  <2>1. /\ recent' = recent
        /\ \/ UNCHANGED <<ends, phase>>
           \/ ends' = <<>> /\ Stops
    BY <1>10, Zenon DEF IdleExpired
  <2>2. <<>> \in Seq(Reports)
    OBVIOUS
  <2>3. ends' \in Seq(Reports) /\ phase' \in {"running", "stopped"}
    BY <1>1, <2>1, <2>2 DEF Stops
  <2> QED  BY <1>1, <1>10, <2>1, <2>3, IdleExpiredKeeps
<1>11. ASSUME NEW c \in Channels \cup {None}, ReconcileVoiceChannel(c)
       PROVE  KeepsModel /\ QueuesKept
  BY <1>1, <1>11, ReconcileVoiceChannelKeeps DEF ReconcileVoiceChannel
<1>12. ASSUME NEW closing \in BOOLEAN, Shutdown(closing)
       PROVE  KeepsModel /\ QueuesKept
  <2>1. QueuesKept
    BY <1>1, <1>12 DEF Shutdown, Stops
  <2> QED  BY <1>12, <2>1, ShutdownKeeps
<1>13. ASSUME UNCHANGED vars
       PROVE  KeepsModel /\ QueuesKept
  BY <1>13 DEF vars, KeepsModel, Inv, TypeOK, ShapeOK
<1>14. KeepsModel /\ QueuesKept
  BY <1>2, <1>3, <1>4, <1>5, <1>6, <1>7, <1>8, <1>9, <1>10, <1>11, <1>12, <1>13 DEF Next
<1> QED  BY <1>14 DEF KeepsModel, Inv, TypeOK, ShapeOK, LoadedPorts

\* The inductive invariant holds in every reachable state of the actor.
THEOREM Invariance == Spec => []Inv
<1>1. Init => Inv
  BY InitInv
<1>2. Inv /\ [Next]_vars => Inv'
  BY NextInv
<1> QED  BY <1>1, <1>2, PTL DEF Spec

\* Every reachable state is well-typed, has a loaded track wherever the adapter
\* claims one, and never remembers more keys than its window (core::player).
THEOREM TypeCorrect == Spec => []TypeOK
<1>1. Inv => TypeOK
  BY DEF Inv
<1> QED  BY <1>1, Invariance, PTL

\* The playback model stays coherent and within its limits through every mix
\* of requests, end reports, idle expirations and voice changes.
THEOREM ModelCoherent == Spec => []ShapeOK
<1>1. Inv => ShapeOK
  BY DEF Inv
<1> QED  BY <1>1, Invariance, PTL

-----------------------------------------------------------------------------
(* What one step does to the playback, the adapter and the reports.  Each  *)
(* action is one of these kinds of step, and each kind keeps PlaybackInv.  *)

\* What the adapter has loaded is what the player shows, and as paused.
CurrentIsLoaded ==
  phase = "running" /\ player.current # None =>
    /\ port.track = player.current.track /\ port.gen = player.current.gen
    /\ port.mode # "none" /\ (port.paused <=> player.state = "Paused")

\* The end of what is loaded is on its way to the actor.
EndIsReported ==
  (phase = "running" /\ player.current # None /\ NextRevision /\ port.mode # "running") =>
    \E i \in 1..Len(ends) : player.current = [track |-> ends[i].track, gen |-> ends[i].gen]

\* Generations are handed out in order, and a report is about one that has ended.
ReportsAreTrue ==
  /\ generation <= MaxGeneration /\ port.gen <= generation
  /\ \A i \in 1..Len(ends) :
       ends[i].gen <= generation /\ (ends[i].gen = port.gen => port.mode # "running")

PlaybackInv == VoiceBacked /\ CurrentIsLoaded /\ EndIsReported /\ ReportsAreTrue

\* The reports are those of before, or those but the first.
EndsKept == ends' = ends \/ (ends # <<>> /\ ends' = Tail(ends))

\* The revision is spent once and for all, and generations only grow.
Onward ==
  /\ phase' = phase
  /\ player.revision <= player'.revision
  /\ generation <= generation' /\ generation' <= MaxGeneration

SameVoice == player'.voice = player.voice /\ port'.channel = port.channel

SamePort == UNCHANGED <<port.track, port.gen, port.mode, port.paused>>

\* The adapter has unloaded what it had, or kept it.
MaybeStopped == SamePort \/ (port'.gen = 0 /\ port'.mode = "none")

\* Nothing about the playback changes but, maybe, where it is heard.
Keeps ==
  /\ Onward /\ ends' = ends
  /\ SameVoice \/ player'.voice = None \/ port'.channel = player'.voice
  /\ player'.current = player.current /\ player'.state = player.state
  /\ SamePort

\* There is no current track after the step.
Unloads ==
  /\ Onward /\ EndsKept
  /\ SameVoice \/ player'.voice = None \/ port'.channel = player'.voice
  /\ player'.current = None /\ MaybeStopped

\* A playback with a generation of its own starts.
Plays ==
  /\ Onward /\ EndsKept /\ SameVoice
  /\ \E t \in Tracks, g \in Nat :
       /\ generation < g /\ g <= generation'
       /\ player'.current = [track |-> t, gen |-> g]
       /\ player'.state = "Playing" \/ (player'.state = player.state /\ player.current # None)
       /\ port'.track = t /\ port'.gen = g /\ port'.mode = "running"
       /\ port'.paused <=> player'.state = "Paused"

\* Pausing and resuming.
Pauses ==
  /\ Onward /\ ends' = ends /\ SameVoice
  /\ player'.current = player.current
  /\ UNCHANGED <<port.track, port.gen, port.mode>>
  /\ port'.paused <=> player'.state = "Paused"

\* A track ends, or its worker fails, and the adapter reports it.
Announces ==
  /\ Onward /\ UNCHANGED <<player, generation>>
  /\ port'.mode \in {"failed", "ended"} /\ port.mode # "none"
  /\ UNCHANGED <<port.channel, port.track, port.gen, port.paused>>
  /\ \E r \in Reasons :
       ends' = Append(ends, [track |-> port.track, gen |-> port.gen, reason |-> r])

\* A report about anything but the current playback is dropped.
Drops ==
  /\ Onward /\ UNCHANGED <<player, generation, port>>
  /\ ends # <<>> /\ ends' = Tail(ends)
  /\ ~EndsCurrent(Head(ends)) \/ ~NextRevision

\* The task ends, with nothing left in the adapter.
Finishes ==
  /\ phase' = "stopped" /\ ends' = <<>> /\ UNCHANGED generation
  /\ port'.gen = 0

\* One of the above.
KnownStep == Keeps \/ Unloads \/ Plays \/ Pauses \/ Announces \/ Drops \/ Finishes

\* The limits are naturals, and None is no part of the model.
LEMMA Limits ==
  /\ MaxRevision \in Nat /\ MaxGeneration \in Nat /\ MaxIdle \in Nat
  /\ None \notin Tracks /\ None \notin Channels /\ None \notin Presets
BY ConstantsAssumption

\* What the parts of PlaybackInv speak of are numbers and sequences.
Numbers ==
  /\ generation \in Nat /\ port.gen \in Nat /\ player.revision \in Nat
  /\ ends \in Seq(Reports) /\ Len(ends) \in Nat
  /\ \A i \in 1..Len(ends) : ends[i].gen \in Nat

LEMMA Types ==
  ASSUME Inv PROVE Numbers
<1>1. ends \in Seq(Reports) /\ generation \in Nat /\ port.gen \in Nat /\ player.revision \in Nat
  BY DEF Inv, TypeOK, Ports, Models
<1>2. \A i \in 1..Len(ends) : ends[i] \in Reports
  BY <1>1
<1> QED  BY <1>1, <1>2 DEF Reports, Numbers

LEMMA TypesAfter ==
  ASSUME Inv' PROVE Numbers'
<1>1. /\ ends' \in Seq(Reports) /\ generation' \in Nat /\ port'.gen \in Nat
      /\ player'.revision \in Nat
  BY DEF Inv, TypeOK, Ports, Models
<1>2. \A i \in 1..Len(ends') : ends'[i] \in Reports
  BY <1>1
<1> QED  BY <1>1, <1>2 DEF Reports, Numbers

\* The reports that are left are among those of before.
LEMMA EndsAmong ==
  ASSUME Inv, EndsKept
  PROVE  \A i \in 1..Len(ends') : \E j \in 1..Len(ends) : ends'[i] = ends[j]
<1>1. CASE ends' = ends
  BY <1>1
<1>2. CASE ends # <<>> /\ ends' = Tail(ends)
  <2>1. /\ Len(ends') = Len(ends) - 1 /\ Len(ends) \in Nat
        /\ \A i \in 1..Len(ends') : ends'[i] = ends[i + 1]
    BY <1>2, Types, HeadTailProperties DEF Numbers
  <2>2. \A i \in 1..Len(ends') : i + 1 \in 1..Len(ends)
    BY <2>1
  <2> QED  BY <2>1, <2>2
<1> QED  BY <1>1, <1>2 DEF EndsKept

\* Where the player and the adapter are.
LEMMA VoiceStep ==
  ASSUME PlaybackInv, phase' = phase,
         SameVoice \/ player'.voice = None \/ port'.channel = player'.voice
  PROVE  VoiceBacked'
BY DEF PlaybackInv, VoiceBacked, SameVoice

LEMMA KeepsKeeps ==
  ASSUME Inv, Inv', PlaybackInv, Keeps
  PROVE  PlaybackInv'
<1> USE DEF Keeps, Onward, SamePort
<1>1. VoiceBacked'
  BY VoiceStep
<1>2. CurrentIsLoaded'
  BY DEF PlaybackInv, CurrentIsLoaded
<1>3. EndIsReported'
  <2> SUFFICES ASSUME phase' = "running", player'.current # None, NextRevision',
                      port'.mode # "running"
               PROVE  \E i \in 1..Len(ends') :
                        player'.current = [track |-> ends'[i].track, gen |-> ends'[i].gen]
    BY DEF EndIsReported
  <2>1. NextRevision
    BY Limits, Types, TypesAfter DEF NextRevision, Numbers
  <2>2. PICK i \in 1..Len(ends) : player.current = [track |-> ends[i].track, gen |-> ends[i].gen]
    BY <2>1 DEF PlaybackInv, EndIsReported
  <2> QED  BY <2>2
<1>4. ReportsAreTrue'
  BY Types, TypesAfter, Limits DEF PlaybackInv, ReportsAreTrue, Numbers
<1> QED  BY <1>1, <1>2, <1>3, <1>4 DEF PlaybackInv

LEMMA UnloadsKeeps ==
  ASSUME Inv, Inv', PlaybackInv, Unloads
  PROVE  PlaybackInv'
<1> USE DEF Unloads, Onward, MaybeStopped, SamePort
<1>1. VoiceBacked'
  BY VoiceStep
<1>2. CurrentIsLoaded' /\ EndIsReported'
  BY DEF CurrentIsLoaded, EndIsReported
<1>3. ReportsAreTrue'
  <2>1. port'.gen <= generation'
    BY Types, TypesAfter DEF PlaybackInv, ReportsAreTrue, Numbers
  <2>2. ASSUME NEW i \in 1..Len(ends')
        PROVE  ends'[i].gen <= generation' /\ (ends'[i].gen = port'.gen => port'.mode # "running")
    <3>1. PICK j \in 1..Len(ends) : ends'[i] = ends[j]
      BY EndsAmong
    <3> QED  BY <3>1, Types, TypesAfter DEF PlaybackInv, ReportsAreTrue, Numbers
  <2> QED  BY <2>1, <2>2 DEF ReportsAreTrue
<1> QED  BY <1>1, <1>2, <1>3 DEF PlaybackInv

LEMMA PlaysKeeps ==
  ASSUME Inv, Inv', PlaybackInv, Plays
  PROVE  PlaybackInv'
<1> USE DEF Onward
<1>1. VoiceBacked'
  BY VoiceStep DEF Plays
<1>2. PICK t \in Tracks, g \in Nat :
        /\ generation < g /\ g <= generation'
        /\ player'.current = [track |-> t, gen |-> g]
        /\ port'.track = t /\ port'.gen = g /\ port'.mode = "running"
        /\ port'.paused <=> player'.state = "Paused"
  BY DEF Plays
<1>3. CurrentIsLoaded'
  BY <1>2 DEF CurrentIsLoaded
<1>4. EndIsReported'
  BY <1>2 DEF EndIsReported
<1>5. ReportsAreTrue'
  <2>1. ASSUME NEW i \in 1..Len(ends') PROVE ends'[i].gen <= generation /\ ends'[i].gen \in Nat
    <3>1. PICK j \in 1..Len(ends) : ends'[i] = ends[j]
      BY EndsAmong DEF Plays
    <3> QED  BY <3>1, Types DEF PlaybackInv, ReportsAreTrue, Numbers
  <2> QED  BY <1>2, <2>1, Types, TypesAfter DEF Plays, ReportsAreTrue, Numbers
<1> QED  BY <1>1, <1>3, <1>4, <1>5 DEF PlaybackInv

LEMMA PausesKeeps ==
  ASSUME Inv, Inv', PlaybackInv, Pauses
  PROVE  PlaybackInv'
<1> USE DEF Pauses, Onward
<1>1. VoiceBacked'
  BY VoiceStep
<1>2. CurrentIsLoaded'
  BY DEF PlaybackInv, CurrentIsLoaded
<1>3. EndIsReported'
  <2> SUFFICES ASSUME phase' = "running", player'.current # None, NextRevision',
                      port'.mode # "running"
               PROVE  \E i \in 1..Len(ends') :
                        player'.current = [track |-> ends'[i].track, gen |-> ends'[i].gen]
    BY DEF EndIsReported
  <2>1. NextRevision
    BY Limits, Types, TypesAfter DEF NextRevision, Numbers
  <2>2. PICK i \in 1..Len(ends) : player.current = [track |-> ends[i].track, gen |-> ends[i].gen]
    BY <2>1 DEF PlaybackInv, EndIsReported
  <2> QED  BY <2>2
<1>4. ReportsAreTrue'
  BY Types, TypesAfter, Limits DEF PlaybackInv, ReportsAreTrue, Numbers
<1> QED  BY <1>1, <1>2, <1>3, <1>4 DEF PlaybackInv

LEMMA AnnouncesKeeps ==
  ASSUME Inv, Inv', PlaybackInv, Announces
  PROVE  PlaybackInv'
<1> USE DEF Announces, Onward
<1>1. VoiceBacked'
  BY DEF PlaybackInv, VoiceBacked
<1>2. CurrentIsLoaded'
  BY DEF PlaybackInv, CurrentIsLoaded
<1>3. PICK r \in Reasons :
        ends' = Append(ends, [track |-> port.track, gen |-> port.gen, reason |-> r])
  OBVIOUS
<1> DEFINE report == [track |-> port.track, gen |-> port.gen, reason |-> r]
<1>4. /\ Len(ends') = Len(ends) + 1 /\ Len(ends) \in Nat
      /\ ends'[Len(ends) + 1] = report
      /\ \A i \in 1..Len(ends) : ends'[i] = ends[i]
  BY <1>3, Types DEF Numbers
<1>5. EndIsReported'
  <2> SUFFICES ASSUME phase' = "running", player'.current # None
               PROVE  \E i \in 1..Len(ends') :
                        player'.current = [track |-> ends'[i].track, gen |-> ends'[i].gen]
    BY DEF EndIsReported
  <2>1. player.current \in Active
    BY DEF Inv, TypeOK, Models
  <2>2. player.current = [track |-> report.track, gen |-> report.gen]
    BY <2>1 DEF PlaybackInv, CurrentIsLoaded, Active
  <2>3. Len(ends) + 1 \in 1..Len(ends') /\ ends'[Len(ends) + 1] = report
    BY <1>4
  <2> QED  BY <2>2, <2>3
<1>6. ReportsAreTrue'
  <2>1. report.gen = port.gen /\ port'.gen = port.gen /\ port'.mode # "running"
    OBVIOUS
  <2>2. ASSUME NEW i \in 1..Len(ends') PROVE ends'[i].gen <= generation'
    <3>1. i \in 1..Len(ends) \/ i = Len(ends) + 1
      BY <1>4
    <3> QED  BY <1>4, <2>1, <3>1 DEF PlaybackInv, ReportsAreTrue
  <2> QED  BY <2>1, <2>2 DEF PlaybackInv, ReportsAreTrue
<1> QED  BY <1>1, <1>2, <1>5, <1>6 DEF PlaybackInv

LEMMA DropsKeeps ==
  ASSUME Inv, Inv', PlaybackInv, Drops
  PROVE  PlaybackInv'
<1> USE DEF Drops, Onward
<1>1. VoiceBacked' /\ CurrentIsLoaded'
  BY DEF PlaybackInv, VoiceBacked, CurrentIsLoaded
<1>2. /\ Len(ends') = Len(ends) - 1 /\ Len(ends) \in Nat /\ Head(ends) = ends[1]
      /\ \A i \in 1..Len(ends') : ends'[i] = ends[i + 1]
  BY Types, HeadTailProperties DEF Numbers
<1>3. EndIsReported'
  <2> SUFFICES ASSUME phase = "running", player.current # None, NextRevision, port.mode # "running"
               PROVE  \E i \in 1..Len(ends') :
                        player.current = [track |-> ends'[i].track, gen |-> ends'[i].gen]
    BY DEF EndIsReported, NextRevision
  <2>1. PICK j \in 1..Len(ends) : player.current = [track |-> ends[j].track, gen |-> ends[j].gen]
    BY DEF PlaybackInv, EndIsReported
  <2>2. j # 1
    BY <1>2, <2>1 DEF EndsCurrent
  <2>3. j - 1 \in 1..Len(ends') /\ ends'[j - 1] = ends[j]
    <3>1. j - 1 \in 1..Len(ends') /\ (j - 1) + 1 = j
      BY <1>2, <2>2
    <3> QED  BY <1>2, <3>1
  <2> QED  BY <2>1, <2>3
<1>4. ReportsAreTrue'
  <2>1. \A i \in 1..Len(ends') : \E j \in 1..Len(ends) : ends'[i] = ends[j]
    BY EndsAmong DEF EndsKept
  <2> QED  BY <2>1 DEF PlaybackInv, ReportsAreTrue
<1> QED  BY <1>1, <1>3, <1>4 DEF PlaybackInv

LEMMA FinishesKeeps ==
  ASSUME Inv, Inv', PlaybackInv, Finishes
  PROVE  PlaybackInv'
<1>1. VoiceBacked' /\ CurrentIsLoaded' /\ EndIsReported'
  BY DEF Finishes, VoiceBacked, CurrentIsLoaded, EndIsReported
<1>2. ReportsAreTrue'
  BY Types DEF Finishes, Numbers, PlaybackInv, ReportsAreTrue
<1> QED  BY <1>1, <1>2 DEF PlaybackInv

LEMMA ShownKeeps ==
  ASSUME Inv, Inv', PlaybackInv, KnownStep
  PROVE  PlaybackInv'
BY KeepsKeeps, UnloadsKeeps, PlaysKeeps, PausesKeeps, AnnouncesKeeps, DropsKeeps, FinishesKeeps
   DEF KnownStep

-----------------------------------------------------------------------------
(* Every action is one of these kinds of step.                             *)

\* The context of a handler that takes no report and does not stop.
Quiet == Inv /\ PlaybackInv /\ Running /\ UNCHANGED <<ends, phase>>

\* The numbers in such a context, and the fields of model and adapter.
LEMMA QuietFacts ==
  ASSUME Quiet
  PROVE  /\ generation \in Nat /\ port.gen \in Nat /\ player.revision \in Nat
         /\ generation <= MaxGeneration /\ MaxGeneration \in Nat
         /\ player \in Models /\ port \in Ports /\ ends' = ends /\ phase' = phase
BY Types, Limits DEF Quiet, Numbers, PlaybackInv, ReportsAreTrue, Inv, TypeOK

LEMMA NoChangeKnown == ASSUME Quiet, NoChange PROVE KnownStep
BY Types DEF Quiet, NoChange, KnownStep, Keeps, Onward, SameVoice, SamePort, Numbers, PlaybackInv,
             ReportsAreTrue

LEMMA ResumeKnown == ASSUME Quiet, Resume PROVE KnownStep
<1>1. player' = [[player EXCEPT !.state = "Playing"] EXCEPT !.revision = player.revision + 1]
  BY DEF Resume, Change, FinishChange
<1>2. Pauses
  BY <1>1, QuietFacts DEF Resume, Pauses, Onward, SameVoice, Models, Ports
<1> QED  BY <1>2 DEF KnownStep

LEMMA PauseKnown == ASSUME Quiet, Pause PROVE KnownStep
<1>1. player' = [[player EXCEPT !.state = "Paused"] EXCEPT !.revision = player.revision + 1]
  BY DEF Pause, Change, FinishChange
<1>2. Pauses
  BY <1>1, QuietFacts DEF Pause, Pauses, Onward, SameVoice, Models, Ports
<1> QED  BY <1>2 DEF KnownStep

LEMMA StopKnown == ASSUME Quiet, Stop PROVE KnownStep
<1>1. CASE NoChange
  BY <1>1, NoChangeKnown
<1>2. CASE ~NoChange
  <2>1. /\ player' = [[player EXCEPT !.current = None, !.queue = <<>>, !.history = <<>>,
                                     !.state = "IdleConnected"]
                        EXCEPT !.revision = player.revision + 1]
        /\ port' = IF player.current # None THEN PortStopped ELSE port
        /\ generation' = generation
    BY <1>2 DEF Stop, Change, FinishChange
  <2>2. Unloads
    BY <2>1, QuietFacts
       DEF Unloads, Onward, EndsKept, SameVoice, MaybeStopped, SamePort, PortStopped, Models, Ports
  <2> QED  BY <2>2 DEF KnownStep
<1> QED  BY <1>1, <1>2

\* A playback starts with a new generation, whatever becomes of queue and history.
LEMMA StartKnown ==
  ASSUME Inv, PlaybackInv, EndsKept, phase' = phase,
         NEW t \in Tracks, NEW g \in Nat,
         generation < g, g <= generation', generation' \in Nat, generation' <= MaxGeneration,
         port' = PortPlay(t, g),
         player'.voice = player.voice, player'.current = [track |-> t, gen |-> g],
         player'.state = "Playing", player'.revision = player.revision + 1
  PROVE  Plays
<1>1. /\ port'.channel = port.channel /\ port'.track = t /\ port'.gen = g
      /\ port'.mode = "running" /\ port'.paused = FALSE
  BY DEF PortPlay, Ports, Inv, TypeOK
<1>2. Onward /\ SameVoice
  BY <1>1, Types, Limits DEF Onward, SameVoice, Numbers
<1>3. port'.paused <=> player'.state = "Paused"
  BY <1>1
<1> QED  BY <1>1, <1>2, <1>3 DEF Plays

LEMMA SkipKnown == ASSUME Quiet, Skip PROVE KnownStep
<1>1. CASE /\ player.queue # <<>> /\ SpendGeneration
           /\ port' = PortPlay(Head(player.queue), generation')
           /\ Change([Playing([player EXCEPT !.history = PushHistory(@, player.current.track)],
                              Head(player.queue), generation') EXCEPT !.queue = Tail(@)])
  <2>1. /\ player'.voice = player.voice /\ player'.state = "Playing"
        /\ player'.current = [track |-> Head(player.queue), gen |-> generation']
        /\ player'.revision = player.revision + 1
    BY <1>1, QuietFacts DEF Change, FinishChange, Playing, Models
  <2>2. Head(player.queue) \in Tracks
    BY <1>1, QuietFacts, HeadTailProperties DEF Models
  <2>3. generation' = generation + 1 /\ generation' <= MaxGeneration
    BY <1>1, QuietFacts DEF SpendGeneration
  <2>4. Plays
    BY <1>1, <2>1, <2>2, <2>3, QuietFacts, StartKnown DEF Quiet, EndsKept
  <2> QED  BY <2>4 DEF KnownStep
<1>2. CASE /\ port' = PortStopped /\ UNCHANGED generation
           /\ Change([[player EXCEPT !.history = PushHistory(@, player.current.track)]
                        EXCEPT !.current = None, !.state = "IdleConnected"])
  <2>1. /\ player'.voice = player.voice /\ player'.current = None
        /\ player'.revision = player.revision + 1
    BY <1>2, QuietFacts DEF Change, FinishChange, Models
  <2>2. Unloads
    BY <1>2, <2>1, QuietFacts
       DEF Unloads, Onward, EndsKept, SameVoice, MaybeStopped, PortStopped, Ports
  <2> QED  BY <2>2 DEF KnownStep
<1> QED  BY <1>1, <1>2 DEF Skip

LEMMA PreviousKnown == ASSUME Quiet, Previous PROVE KnownStep
<1> DEFINE track == Last(player.history)
<1>1. /\ SpendGeneration /\ port' = PortPlay(track, generation') /\ player.history # <<>>
      /\ player'.voice = player.voice /\ player'.state = "Playing"
      /\ player'.current = [track |-> track, gen |-> generation']
      /\ player'.revision = player.revision + 1
  BY QuietFacts DEF Previous, Change, FinishChange, Playing, Models
<1>2. track \in Tracks
  BY <1>1, QuietFacts DEF Models, Last
<1>3. generation' = generation + 1 /\ generation' <= MaxGeneration
  BY <1>1, QuietFacts DEF SpendGeneration
<1> HIDE DEF track
<1>4. Plays
  BY <1>1, <1>2, <1>3, QuietFacts, StartKnown DEF Quiet, EndsKept
<1> QED  BY <1>4 DEF KnownStep

LEMMA SeekKnown == ASSUME Quiet, Seek PROVE KnownStep
<1>1. /\ player'.voice = player.voice /\ player'.state = player.state
      /\ player'.current = [player.current EXCEPT !.gen = generation']
      /\ player'.revision = player.revision + 1 /\ player.current \in Active
  BY QuietFacts DEF Seek, Change, FinishChange, Models
<1>2. /\ port'.channel = port.channel /\ port'.track = port.track /\ port'.gen = generation'
      /\ port'.mode = "running" /\ port'.paused = port.paused
  BY QuietFacts DEF Seek, Ports
<1>3. generation' = generation + 1 /\ generation' <= MaxGeneration /\ player.current # None
  BY QuietFacts DEF Seek, SpendGeneration
<1>4. /\ port.track = player.current.track /\ (port.paused <=> player.state = "Paused")
  BY <1>3 DEF Quiet, Running, PlaybackInv, CurrentIsLoaded
<1>5. /\ player'.current = [track |-> player.current.track, gen |-> generation']
      /\ player.current.track \in Tracks
  BY <1>1 DEF Active
<1>6. Onward /\ SameVoice /\ EndsKept
  BY <1>1, <1>2, <1>3, QuietFacts DEF Onward, SameVoice, EndsKept
<1>7. port'.paused <=> player'.state = "Paused"
  BY <1>1, <1>2, <1>4
<1>8. generation' \in Nat /\ generation < generation' /\ generation' <= generation'
  BY <1>3, QuietFacts
<1>9. Plays
  BY <1>1, <1>2, <1>3, <1>4, <1>5, <1>6, <1>7, <1>8 DEF Plays
<1> QED  BY <1>9 DEF KnownStep

\* A change of the queue, the order or the settings.
LEMMA EditKnown ==
  ASSUME Quiet, UNCHANGED generation,
         player'.voice = player.voice, player'.current = player.current,
         player'.state = player.state, player'.revision = player.revision + 1,
         UNCHANGED <<port.channel, port.track, port.gen, port.mode, port.paused>>
  PROVE  KnownStep
BY QuietFacts DEF KnownStep, Keeps, Onward, SameVoice, SamePort

LEMMA RemoveQueuedKnown == ASSUME Quiet, NEW t, RemoveQueued(t) PROVE KnownStep
<1>1. /\ player'.voice = player.voice /\ player'.current = player.current
      /\ player'.state = player.state /\ player'.revision = player.revision + 1
  BY QuietFacts DEF RemoveQueued, Change, FinishChange, Models
<1> QED  BY <1>1, EditKnown DEF RemoveQueued

LEMMA MoveQueuedKnown == ASSUME Quiet, NEW t, NEW b, MoveQueued(t, b) PROVE KnownStep
<1>1. CASE NoChange
  BY <1>1, NoChangeKnown
<1>2. CASE ~NoChange
  <2>1. /\ player'.voice = player.voice /\ player'.current = player.current
        /\ player'.state = player.state /\ player'.revision = player.revision + 1
        /\ UNCHANGED <<generation, port>>
    BY <1>2, QuietFacts DEF MoveQueued, Change, FinishChange, Models
  <2> QED  BY <2>1, EditKnown
<1> QED  BY <1>1, <1>2

LEMMA ApplySettingsKnown ==
  ASSUME Quiet, NEW mine, NEW theirs, ApplySettings(mine, theirs) PROVE KnownStep
<1>1. /\ player'.voice = player.voice /\ player'.current = player.current
      /\ player'.state = player.state /\ player'.revision = player.revision + 1
  BY QuietFacts DEF ApplySettings, Change, FinishChange, Models
<1>2. UNCHANGED <<port.channel, port.track, port.gen, port.mode, port.paused>>
  BY QuietFacts DEF ApplySettings, Ports
<1> QED  BY <1>1, <1>2, EditKnown DEF ApplySettings

LEMMA SettingKnown ==
  ASSUME Quiet,
         \/ \E v \in Volumes : SetVolume(v)
         \/ \E h \in Presets : SetHrir(h)
         \/ \E on \in BOOLEAN : SetSpatial(on)
  PROVE  KnownStep
<1>1. NoChange \/ \E mine, theirs : ApplySettings(mine, theirs)
  BY Zenon DEF SetVolume, SetHrir, SetSpatial
<1> QED  BY <1>1, NoChangeKnown, ApplySettingsKnown

LEMMA SetRepeatKnown == ASSUME Quiet, NEW r, SetRepeat(r) PROVE KnownStep
<1>1. CASE NoChange
  BY <1>1, NoChangeKnown
<1>2. CASE ~NoChange
  <2>1. /\ player'.voice = player.voice /\ player'.current = player.current
        /\ player'.state = player.state /\ player'.revision = player.revision + 1
        /\ UNCHANGED <<generation, port>>
    BY <1>2, QuietFacts DEF SetRepeat, Change, FinishChange, Models
  <2> QED  BY <2>1, EditKnown
<1> QED  BY <1>1, <1>2

LEMMA SetShuffleKnown == ASSUME Quiet, NEW on, SetShuffle(on) PROVE KnownStep
<1>1. CASE NoChange
  BY <1>1, NoChangeKnown
<1>2. CASE ~NoChange
  <2>1. PICK queue : Change([player EXCEPT !.shuffle = on, !.queue = queue])
    BY <1>2 DEF SetShuffle
  <2>2. /\ player'.voice = player.voice /\ player'.current = player.current
        /\ player'.state = player.state /\ player'.revision = player.revision + 1
    BY <2>1, QuietFacts DEF Change, FinishChange, Models
  <2>3. UNCHANGED <<generation, port>>
    BY <1>2 DEF SetShuffle
  <2> QED  BY <2>2, <2>3, EditKnown
<1> QED  BY <1>1, <1>2

\* The player leaves its channel, and the adapter with it or not.
LEMMA LeaveKnown ==
  ASSUME Quiet, UNCHANGED generation, port' \in {PortLeft, port},
         player' = [Cleared(player) EXCEPT !.revision = player.revision + 1]
  PROVE  KnownStep
<1>1. player'.voice = None /\ player'.current = None /\ player'.revision = player.revision + 1
  BY QuietFacts DEF Cleared, Models
<1>2. MaybeStopped
  BY QuietFacts DEF MaybeStopped, SamePort, PortLeft, PortStopped, Ports
<1>3. Unloads
  BY <1>1, <1>2, QuietFacts DEF Unloads, Onward, EndsKept
<1> QED  BY <1>3 DEF KnownStep

LEMMA DisconnectKnown == ASSUME Quiet, Disconnect PROVE KnownStep
BY NoChangeKnown, LeaveKnown DEF Disconnect, Change, FinishChange

LEMMA ExecuteKnown == ASSUME Quiet, Execute PROVE KnownStep
<1>1. ASSUME \E t \in Tracks : RemoveQueued(t) PROVE KnownStep
  BY <1>1, RemoveQueuedKnown
<1>2. ASSUME \E t \in Tracks, b \in Tracks \cup {None} : MoveQueued(t, b) PROVE KnownStep
  BY <1>2, MoveQueuedKnown
<1>3. ASSUME (\E r \in Repeats : SetRepeat(r)) \/ \E on \in BOOLEAN : SetShuffle(on) PROVE KnownStep
  BY <1>3, SetRepeatKnown, SetShuffleKnown
<1> QED
  BY <1>1, <1>2, <1>3, Zenon, ResumeKnown, PauseKnown, StopKnown, SkipKnown, PreviousKnown,
     SeekKnown, SettingKnown, DisconnectKnown DEF Execute

\* A refused command has spent a generation, nothing else.
LEMMA ApplyFailsKnown == ASSUME Inv, PlaybackInv, ApplyFails PROVE KnownStep
<1>1. Quiet /\ generation' = generation + 1 /\ generation < MaxGeneration
      /\ UNCHANGED <<player, port>>
  BY DEF Quiet, ApplyFails, PlayFails, SpendGeneration
<1>2. Keeps
  BY <1>1, QuietFacts DEF Keeps, Onward, SameVoice, SamePort
<1> QED  BY <1>2 DEF KnownStep

LEMMA ConnectKnown ==
  ASSUME Inv, PlaybackInv, NEW channel \in Channels, Connect(channel) PROVE KnownStep
<1>1. Quiet /\ generation' = generation /\ player.voice = None /\ player.current = None
  BY DEF Quiet, Connect, Inv, ShapeOK, Coherent
<1>2. CASE UNCHANGED player
  <2>1. \/ \E s : port' = [PortLeft EXCEPT !.settings = s]
        \/ \E s : port' = [port EXCEPT !.channel = channel, !.settings = s]
        \/ /\ port'.channel = channel /\ SamePort
    <3>1. ASSUME NEW all, port' = [port EXCEPT !.channel = channel, !.settings = all]
          PROVE  port'.channel = channel /\ SamePort
      BY <1>1, <3>1, QuietFacts DEF SamePort, Ports
    <3> QED  BY <3>1 DEF Connect
  <2>2. MaybeStopped
    BY <1>1, <2>1, QuietFacts DEF MaybeStopped, SamePort, PortLeft, PortStopped, Ports
  <2>3. Unloads
    BY <1>1, <1>2, <2>2, QuietFacts DEF Unloads, Onward, EndsKept
  <2> QED  BY <2>3 DEF KnownStep
<1>3. CASE /\ \E all : port' = [port EXCEPT !.channel = channel, !.settings = all]
           /\ Change([player EXCEPT !.voice = channel, !.state = "IdleConnected"])
  <2>1. port'.channel = channel /\ SamePort
    BY <1>1, <1>3, QuietFacts DEF SamePort, Ports
  <2>2. /\ player'.voice = channel /\ player'.current = None
        /\ player'.revision = player.revision + 1
    BY <1>1, <1>3, QuietFacts DEF Change, FinishChange, Models
  <2>3. Unloads
    BY <1>1, <2>1, <2>2, QuietFacts DEF Unloads, Onward, EndsKept, MaybeStopped
  <2> QED  BY <2>3 DEF KnownStep
<1> QED  BY <1>2, <1>3 DEF Connect

LEMMA EnqueueBatchKnown ==
  ASSUME Inv, PlaybackInv, NEW added \in Seq(Tracks), added # <<>>, EnqueueBatch(added)
  PROVE  KnownStep
<1>1. Quiet
  BY DEF Quiet, EnqueueBatch
<1>2. Head(added) \in Tracks
  BY HeadTailProperties
<1>3. PICK queue :
        \/ /\ player.current = None /\ SpendGeneration
           /\ port' = PortPlay(Head(added), generation')
           /\ Change([Playing(player, Head(added), generation') EXCEPT !.queue = queue])
        \/ UNCHANGED <<generation, port>> /\ Change([player EXCEPT !.queue = queue])
        \/ PlayFails
  BY DEF EnqueueBatch
<1>4. CASE /\ SpendGeneration /\ port' = PortPlay(Head(added), generation')
           /\ Change([Playing(player, Head(added), generation') EXCEPT !.queue = queue])
  <2>1. /\ player'.voice = player.voice /\ player'.state = "Playing"
        /\ player'.current = [track |-> Head(added), gen |-> generation']
        /\ player'.revision = player.revision + 1
    BY <1>1, <1>4, QuietFacts DEF Change, FinishChange, Playing, Models
  <2>2. generation' = generation + 1 /\ generation' <= MaxGeneration
    BY <1>1, <1>4, QuietFacts DEF SpendGeneration
  <2>3. Plays
    BY <1>1, <1>2, <1>4, <2>1, <2>2, QuietFacts, StartKnown DEF Quiet, EndsKept
  <2> QED  BY <2>3 DEF KnownStep
<1>5. CASE UNCHANGED <<generation, port>> /\ Change([player EXCEPT !.queue = queue])
  <2>1. /\ player'.voice = player.voice /\ player'.current = player.current
        /\ player'.state = player.state /\ player'.revision = player.revision + 1
    BY <1>1, <1>5, QuietFacts DEF Change, FinishChange, Models
  <2> QED  BY <1>1, <1>5, <2>1, EditKnown
<1>6. CASE PlayFails
  <2>1. generation' = generation + 1 /\ generation < MaxGeneration /\ UNCHANGED <<player, port>>
    BY <1>6 DEF PlayFails, SpendGeneration
  <2>2. Keeps
    BY <1>1, <2>1, QuietFacts DEF Keeps, Onward, SameVoice, SamePort
  <2> QED  BY <2>2 DEF KnownStep
<1> QED  BY <1>3, <1>4, <1>5, <1>6

LEMMA ReportKnown ==
  ASSUME Inv, PlaybackInv, NEW reason \in Reasons, NEW mode \in {"failed", "ended"},
         port.mode \in {"running", "failed"}, port' = [port EXCEPT !.mode = mode],
         ends' = Append(ends, [track |-> port.track, gen |-> port.gen, reason |-> reason]),
         UNCHANGED <<player, generation, phase>>
  PROVE  KnownStep
<1>1. Onward
  BY Types DEF Onward, Numbers, PlaybackInv, ReportsAreTrue
<1>2. port'.mode = mode /\ UNCHANGED <<port.channel, port.track, port.gen, port.paused>>
  BY DEF Inv, TypeOK, Ports
<1>3. Announces
  BY <1>1, <1>2 DEF Announces
<1> QED  BY <1>3 DEF KnownStep

LEMMA TrackEndsKnown ==
  ASSUME Inv, PlaybackInv, NEW r \in Reasons, TrackEnds(r) PROVE KnownStep
BY ReportKnown DEF TrackEnds

LEMMA WorkerFailsKnown == ASSUME Inv, PlaybackInv, WorkerFails PROVE KnownStep
BY ReportKnown DEF WorkerFails, Reasons

\* Some candidate starts with a generation of its own, or nothing is loaded.
LEMMA StartFirstPlayableKnown ==
  ASSUME Inv, PlaybackInv, EndsKept, phase' = phase, NEW p, NEW h,
         p = [player EXCEPT !.history = h],
         NEW candidates \in Seq(Tracks), NEW g \in Nat, generation <= g, g <= MaxGeneration,
         StartFirstPlayable(p, candidates, g)
  PROVE  KnownStep
<1>1. /\ player \in Models /\ generation \in Nat /\ MaxGeneration \in Nat
      /\ player.revision \in Nat /\ Len(candidates) \in Nat
  BY Types, Limits DEF Numbers, Inv, TypeOK
<1>2. ASSUME NEW k \in DOMAIN candidates, g + k <= MaxGeneration, generation' = g + k,
             port' = PortPlay(candidates[k], g + k),
             Change([Playing(p, candidates[k], g + k)
                       EXCEPT !.queue = SubSeq(candidates, k + 1, Len(candidates))])
      PROVE  KnownStep
  <2>1. candidates[k] \in Tracks /\ k \in Nat /\ k >= 1 /\ g + k \in Nat
    OBVIOUS
  <2>2. /\ player'.voice = player.voice /\ player'.state = "Playing"
        /\ player'.current = [track |-> candidates[k], gen |-> g + k]
        /\ player'.revision = player.revision + 1
    BY <1>1, <1>2 DEF Change, FinishChange, Playing, Models
  <2>3. generation < g + k /\ g + k <= generation'
    BY <1>1, <1>2, <2>1
  <2>4. Plays
    BY <1>2, <2>1, <2>2, <2>3, StartKnown
  <2> QED  BY <2>4 DEF KnownStep
<1>3. ASSUME generation' = IF g + Len(candidates) <= MaxGeneration
                           THEN g + Len(candidates) ELSE MaxGeneration,
             UNCHANGED port,
             Change([p EXCEPT !.current = None, !.queue = <<>>, !.state = "IdleConnected"])
      PROVE  KnownStep
  <2>1. /\ player'.voice = player.voice /\ player'.current = None
        /\ player'.revision = player.revision + 1
    BY <1>1, <1>3 DEF Change, FinishChange, Models
  <2>2. generation <= generation' /\ generation' <= MaxGeneration
    BY <1>1, <1>3
  <2>3. Unloads
    BY <1>1, <1>3, <2>1, <2>2 DEF Unloads, Onward, SameVoice, MaybeStopped, SamePort
  <2> QED  BY <2>3 DEF KnownStep
<1> QED  BY <1>2, <1>3 DEF StartFirstPlayable

LEMMA PlaybackEndedKnown == ASSUME Inv, PlaybackInv, PlaybackEnded PROVE KnownStep
<1>1. /\ EndsKept /\ phase' = phase /\ ends # <<>> /\ ends' = Tail(ends)
      /\ player \in Models /\ generation \in Nat /\ MaxGeneration \in Nat
      /\ generation <= MaxGeneration /\ player.revision \in Nat
      /\ player.queue \in Seq(Tracks)
  BY Types, Limits, ModelFields
     DEF PlaybackEnded, EndsKept, Numbers, Inv, TypeOK, PlaybackInv, ReportsAreTrue
<1>2. CASE (~EndsCurrent(Head(ends)) \/ ~NextRevision) /\ NoChange
  <2>1. Drops
    BY <1>1, <1>2 DEF Drops, Onward, NoChange
  <2> QED  BY <2>1 DEF KnownStep
<1>3. CASE player.current # None /\ AfterNaturalEnd(player.current.track)
  <2> DEFINE finished == player.current.track
             pushed == [player EXCEPT !.history = PushHistory(@, finished)]
  <2>1. finished \in Tracks
    BY <1>1, <1>3 DEF Models, Active
  <2>2. CASE /\ SpendGeneration /\ port' = PortPlay(finished, generation')
             /\ Change(Playing(player, finished, generation'))
    <3>1. /\ player'.voice = player.voice /\ player'.state = "Playing"
          /\ player'.current = [track |-> finished, gen |-> generation']
          /\ player'.revision = player.revision + 1
      BY <1>1, <2>2 DEF Change, FinishChange, Playing, Models
    <3>2. generation' = generation + 1 /\ generation' <= MaxGeneration
      BY <1>1, <2>2 DEF SpendGeneration
    <3> HIDE DEF finished
    <3>3. Plays
      BY <1>1, <2>1, <2>2, <3>1, <3>2, StartKnown
    <3> QED  BY <3>3 DEF KnownStep
  <2>3. CASE \E candidates \in Seq(Tracks), g \in Nat :
               /\ generation <= g /\ g <= MaxGeneration
               /\ StartFirstPlayable(pushed, candidates, g)
    BY <1>1, <2>3, StartFirstPlayableKnown
  <2>4. Append(player.queue, finished) \in Seq(Tracks)
    BY <1>1, <2>1
  <2>5. \/ /\ SpendGeneration /\ port' = PortPlay(finished, generation')
           /\ Change(Playing(player, finished, generation'))
        \/ StartFirstPlayable(pushed, player.queue,
             IF generation < MaxGeneration THEN generation + 1 ELSE generation)
        \/ StartFirstPlayable(pushed, Append(player.queue, finished), generation)
        \/ StartFirstPlayable(pushed, player.queue, generation)
    BY <1>3 DEF AfterNaturalEnd
  <2> DEFINE next == IF generation < MaxGeneration THEN generation + 1 ELSE generation
  <2>6. next \in Nat /\ generation <= next /\ next <= MaxGeneration /\ generation <= generation
    BY <1>1
  <2> HIDE DEF pushed, finished, next
  <2>7. \/ /\ SpendGeneration /\ port' = PortPlay(finished, generation')
           /\ Change(Playing(player, finished, generation'))
        \/ StartFirstPlayable(pushed, player.queue, next)
        \/ StartFirstPlayable(pushed, Append(player.queue, finished), generation)
        \/ StartFirstPlayable(pushed, player.queue, generation)
    BY <2>5 DEF pushed, finished, next
  <2> QED  BY <1>1, <2>2, <2>3, <2>4, <2>6, <2>7
<1>4. CASE player.current # None /\ StartFirstPlayable(player, player.queue, generation)
  <2>1. player = [player EXCEPT !.history = player.history]
    BY <1>1 DEF Models
  <2>2. generation <= generation
    BY <1>1
  <2> DEFINE kept == player.history
  <2> HIDE DEF kept
  <2>3. player = [player EXCEPT !.history = kept]
    BY <2>1 DEF kept
  <2> QED  BY <1>1, <1>4, <2>2, <2>3, StartFirstPlayableKnown
<1> QED  BY <1>2, <1>3, <1>4 DEF PlaybackEnded, EndsCurrent

LEMMA IdleExpiredKnown == ASSUME Inv, PlaybackInv, IdleExpired PROVE KnownStep
<1>1. CASE UNCHANGED <<player, port, ends, phase>>
  <2>1. Quiet /\ generation' = generation
    BY <1>1 DEF Quiet, IdleExpired
  <2>2. Keeps
    BY <1>1, <2>1, QuietFacts DEF Keeps, Onward, SameVoice, SamePort
  <2> QED  BY <2>2 DEF KnownStep
<1>2. CASE port' = PortLeft /\ ends' = <<>> /\ Stops
  <2>1. port'.gen = 0
    BY <1>2 DEF PortLeft, PortStopped, Inv, TypeOK, Ports
  <2> QED  BY <1>2, <2>1 DEF KnownStep, Finishes, IdleExpired, Stops
<1> QED  BY <1>1, <1>2, Zenon DEF IdleExpired

LEMMA ReconcileVoiceChannelKnown ==
  ASSUME Inv, PlaybackInv, NEW observed \in Channels \cup {None}, ReconcileVoiceChannel(observed)
  PROVE  KnownStep
<1>1. Quiet /\ generation' = generation
  BY DEF Quiet, ReconcileVoiceChannel
<1>2. CASE /\ observed # None /\ port' = [port EXCEPT !.channel = observed]
           /\ Change([player EXCEPT !.voice = observed,
                        !.state = IF player.current = None THEN "IdleConnected" ELSE @])
  <2>1. port'.channel = observed /\ SamePort
    BY <1>1, <1>2, QuietFacts DEF SamePort, Ports
  <2>2. /\ player'.voice = observed /\ player'.current = player.current
        /\ player'.revision = player.revision + 1
        /\ player.current # None => player'.state = player.state
    BY <1>1, <1>2, QuietFacts DEF Change, FinishChange, Models
  <2>3. Keeps \/ Unloads
    BY <1>1, <2>1, <2>2, QuietFacts DEF Keeps, Unloads, Onward, EndsKept, MaybeStopped
  <2> QED  BY <2>3 DEF KnownStep
<1>3. CASE port' \in {PortLeft, port} /\ Change(Cleared(player))
  <2>1. player' = [Cleared(player) EXCEPT !.revision = player.revision + 1]
    BY <1>3 DEF Change, FinishChange
  <2> QED  BY <1>1, <1>3, <2>1, LeaveKnown
<1> QED  BY <1>2, <1>3 DEF ReconcileVoiceChannel

LEMMA ShutdownKnown ==
  ASSUME Inv, PlaybackInv, NEW closing, Shutdown(closing) PROVE KnownStep
<1>1. port' \in {PortStopped, PortLeft}
  BY DEF Shutdown
<1>2. port'.gen = 0
  BY <1>1 DEF PortLeft, PortStopped, Inv, TypeOK, Ports
<1> QED  BY <1>2 DEF KnownStep, Finishes, Shutdown, Stops

LEMMA NextKnown == ASSUME Inv, PlaybackInv, [Next]_vars PROVE KnownStep
<1>1. ASSUME NEW b \in Batches, EnqueueBatch(b) PROVE KnownStep
  BY <1>1, BatchesType, EnqueueBatchKnown
<1>2. ASSUME NEW k \in Keys, Apply(k) PROVE KnownStep
  <2>1. Quiet
    BY <1>2 DEF Apply, Quiet
  <2> QED  BY <1>2, <2>1, ExecuteKnown DEF Apply
<1>3. ASSUME UNCHANGED <<player, generation, port, ends, phase>> PROVE KnownStep
  <2>1. Keeps
    BY <1>3, Types
       DEF Keeps, Onward, SameVoice, SamePort, Numbers, PlaybackInv, ReportsAreTrue
  <2> QED  BY <2>1 DEF KnownStep
<1> QED
  BY <1>1, <1>2, <1>3, ConnectKnown, ApplyFailsKnown, TrackEndsKnown, WorkerFailsKnown,
     PlaybackEndedKnown, IdleExpiredKnown, ReconcileVoiceChannelKnown, ShutdownKnown
  DEF Next, TimerFires, vars

LEMMA InitPlayback == ASSUME Init PROVE PlaybackInv
<1>1. /\ player.voice = None /\ player.current = None /\ port.gen = 0 /\ port.mode = "none"
      /\ generation = 0 /\ ends = <<>>
  BY DEF Init
<1> QED  BY <1>1, Limits
         DEF PlaybackInv, VoiceBacked, CurrentIsLoaded, EndIsReported, ReportsAreTrue

\* The player's belief about the playback is the adapter's (core::player): its
\* channel, its track and whether it is paused, and the end of what the adapter
\* no longer plays is on its way.
THEOREM PlaybackIsBacked == Spec => [](Inv /\ PlaybackInv)
<1>1. Init => PlaybackInv
  BY InitPlayback
<1>2. Inv /\ Inv' /\ PlaybackInv /\ [Next]_vars => PlaybackInv'
  BY NextKnown, ShownKeeps
<1> QED  BY <1>1, <1>2, Invariance, PTL DEF Spec

\* A current track is the very instance the adapter plays, or the report of its
\* end is on the way.
LEMMA BackedNow ==
  ASSUME Inv, PlaybackInv
  PROVE  CurrentIsBacked
<1> SUFFICES ASSUME phase = "running", player.current # None, NextRevision
             PROVE  \/ /\ [track |-> port.track, gen |-> port.gen] = player.current
                       /\ port.mode = "running"
                       /\ port.paused <=> player.state = "Paused"
                    \/ \E i \in DOMAIN ends : EndsCurrent(ends[i])
  BY DEF CurrentIsBacked
<1>1. player.current \in Active
  BY DEF Inv, TypeOK, Models
<1>2. /\ [track |-> port.track, gen |-> port.gen] = player.current
      /\ port.paused <=> player.state = "Paused"
  BY <1>1 DEF PlaybackInv, CurrentIsLoaded, Active
<1>3. CASE port.mode # "running"
  <2>1. \E i \in 1..Len(ends) :
          player.current = [track |-> ends[i].track, gen |-> ends[i].gen]
    BY <1>3 DEF PlaybackInv, EndIsReported
  <2>2. DOMAIN ends = 1..Len(ends)
    BY DEF Inv, TypeOK
  <2> QED  BY <2>1, <2>2 DEF EndsCurrent
<1> QED  BY <1>2, <1>3

\* The player never shows a track that neither plays nor ends: a current track
\* is the very instance the adapter plays, paused or not as shown, or the report
\* of its end is on its way (playback_ended, start_generation).
THEOREM CurrentStaysBacked == Spec => []CurrentIsBacked
<1>1. Inv /\ PlaybackInv => CurrentIsBacked
  BY BackedNow
<1> QED  BY <1>1, PlaybackIsBacked, PTL

-----------------------------------------------------------------------------
(* The idle timer.                                                         *)

\* Every step leaves the model and the timer alone, ends in FinishChange, or is
\* one of the few that handle the timer themselves.
LEMMA NextChanges ==
  ASSUME [Next]_vars
  PROVE  \/ UNCHANGED <<player, timer>>
         \/ \E p : Change(p)
         \/ TimerFires \/ IdleExpired \/ \E closing : Shutdown(closing)
<1> DEFINE Known == UNCHANGED <<player, timer>> \/ \E p : Change(p)
<1>1. ASSUME Execute PROVE Known
  <2>1. NoChange => Known
    BY DEF NoChange
  <2>2. ASSUME Resume \/ Pause \/ Stop PROVE Known
    BY <2>1, <2>2, Zenon DEF Resume, Pause, Stop
  <2>3. ASSUME Skip \/ Previous \/ Seek PROVE Known
    BY <2>3, Zenon DEF Skip, Previous, Seek
  <2>4. ASSUME NEW t, NEW b, RemoveQueued(t) \/ MoveQueued(t, b) PROVE Known
    BY <2>1, <2>4, Zenon DEF RemoveQueued, MoveQueued
  <2>5. ASSUME NEW x, SetVolume(x) \/ SetHrir(x) \/ SetSpatial(x) PROVE Known
    BY <2>1, <2>5, Zenon DEF SetVolume, SetHrir, SetSpatial, ApplySettings
  <2>6. ASSUME NEW x, SetRepeat(x) \/ SetShuffle(x) PROVE Known
    BY <2>1, <2>6, Zenon DEF SetRepeat, SetShuffle
  <2>7. ASSUME Disconnect PROVE Known
    BY <2>1, <2>7, Zenon DEF Disconnect
  <2> HIDE DEF Known
  <2> QED  BY <1>1, <2>2, <2>3, <2>4, <2>5, <2>6, <2>7, Zenon DEF Execute
<1>2. ASSUME NEW c, Connect(c) \/ ReconcileVoiceChannel(c) PROVE Known
  BY <1>2, Zenon DEF Connect, ReconcileVoiceChannel
<1>3. ASSUME NEW b, EnqueueBatch(b) PROVE Known
  BY <1>3, Zenon DEF EnqueueBatch, PlayFails
<1>4. ASSUME PlaybackEnded PROVE Known
  <2>1. ASSUME NEW p, NEW q, NEW g, StartFirstPlayable(p, q, g) PROVE Known
    BY <2>1, Zenon DEF StartFirstPlayable
  <2>2. ASSUME NEW t, AfterNaturalEnd(t) PROVE Known
    <3>1. (\E p : Change(p)) \/ \E p, q, g : StartFirstPlayable(p, q, g)
      BY <2>2, Zenon DEF AfterNaturalEnd
    <3> QED  BY <2>1, <3>1
  <2> QED  BY <1>4, <2>1, <2>2, Zenon DEF PlaybackEnded, NoChange
<1>5. ASSUME ApplyFails \/ (\E r \in Reasons : TrackEnds(r)) \/ WorkerFails \/ UNCHANGED vars
      PROVE  Known
  BY <1>5 DEF ApplyFails, PlayFails, TrackEnds, WorkerFails, vars
<1> HIDE DEF Known
<1>6. \/ Known \/ TimerFires \/ IdleExpired \/ \E closing : Shutdown(closing)
  BY <1>1, <1>2, <1>3, <1>4, <1>5, Zenon DEF Next, Apply
<1> QED  BY <1>6 DEF Known

\* What FinishChange does, seen from the model it leaves.
LEMMA Finished ==
  ASSUME Inv, Inv', NEW p, NEW t, FinishChange(p, t)
  PROVE  /\ player.revision < MaxRevision /\ player'.revision = player.revision + 1
         /\ timer' = ReconcileIdle(Idle(player), Idle(player'), t)
<1>1. player' = [p EXCEPT !.revision = player.revision + 1] /\ NextRevision
  BY DEF FinishChange
<1>2. player' \in Models
  BY DEF Inv, TypeOK
<1>3. DOMAIN player' = DOMAIN p /\ "revision" \in DOMAIN player' /\ "voice" \in DOMAIN p
      /\ "state" \in DOMAIN p /\ "current" \in DOMAIN p /\ "queue" \in DOMAIN p
  BY <1>1, <1>2 DEF Models
<1>4. player'.revision = player.revision + 1
  BY <1>1, <1>3
<1>5. player'.voice = p.voice /\ player'.state = p.state
      /\ player'.current = p.current /\ player'.queue = p.queue
  BY <1>1, <1>3
<1>6. Idle(player') <=> Idle(p)
  BY <1>5 DEF Idle
<1>7. timer' = ReconcileIdle(Idle(player), Idle(p), t)
  BY DEF FinishChange
<1>8. ReconcileIdle(Idle(player), Idle(player'), t) = ReconcileIdle(Idle(player), Idle(p), t)
  BY <1>6 DEF ReconcileIdle
<1> QED  BY <1>1, <1>4, <1>7, <1>8 DEF NextRevision

\* Whatever a snapshot shows changes only together with the revision, by one
\* (finish_change ends every handler that changes the model).
THEOREM RevisionTracks == Spec => RevisionTracksChange
<1>1. ASSUME Inv, Inv', [Next]_vars, player' # player
      PROVE  player'.revision = player.revision + 1
  <2>1. \E p, t : FinishChange(p, t)
    BY <1>1, NextChanges, Zenon DEF Change, TimerFires, IdleExpired, Shutdown
  <2> QED  BY <1>1, <2>1, Finished
<1>2. Inv /\ Inv' /\ [Next]_vars => [player' # player => player'.revision = player.revision + 1]_vars
  BY <1>1
<1> QED  BY <1>2, Invariance, PTL DEF Spec, RevisionTracksChange

\* Of a running actor: the task sleeps for the newest generation only, no
\* expiration is newer, and while the counters last the timer is active exactly
\* while the player idles, with its expiration either slept for or sent.
TimerInv ==
  phase = "running" =>
    /\ timer.box <= timer.gen
    /\ timer.task \in {0, timer.gen}
    /\ timer.task # 0 => timer.active
    /\ Unexhausted =>
         /\ Idle(player) <=> timer.active
         /\ timer.active => timer.gen # 0 /\ timer.gen \in {timer.task, timer.box}
         /\ ~timer.active => timer.gen = 0 \/ timer.box # timer.gen

LEMMA TimerTypesNow ==
  ASSUME Inv
  PROVE  /\ timer \in Timers /\ timer.gen \in Nat /\ timer.task \in Nat /\ timer.box \in Nat
         /\ timer.active \in BOOLEAN /\ MaxIdle \in Nat /\ MaxRevision \in Nat
         /\ player.revision \in Nat
BY Types, Limits DEF Inv, TypeOK, Timers, Numbers

\* A newly armed timer is the newest, and one given up has no task.
LEMMA TimerOperators ==
  ASSUME NEW t \in Timers
  PROVE  /\ Arm(t).box = t.box /\ Invalidate(t).box = t.box
         /\ Invalidate(t).task = 0 /\ ~Invalidate(t).active
         /\ t.gen < MaxIdle => /\ Arm(t).gen = t.gen + 1 /\ Arm(t).task = t.gen + 1
                               /\ Arm(t).active /\ Invalidate(t).gen = t.gen + 1
         /\ ~(t.gen < MaxIdle) => /\ Arm(t).gen = t.gen /\ Arm(t).task = 0
                                  /\ ~Arm(t).active /\ Invalidate(t).gen = t.gen
<1>1. Invalidate(t).box = t.box /\ Invalidate(t).task = 0
  BY DEF Invalidate, Timers
<1>2. Invalidate(t).active = FALSE
  BY DEF Invalidate, Timers
<1>3. /\ t.gen < MaxIdle => Invalidate(t).gen = t.gen + 1
      /\ ~(t.gen < MaxIdle) => Invalidate(t).gen = t.gen
  BY DEF Invalidate, Timers
<1>4. Invalidate(t) \in Timers
  BY TimerTypes
<1>5. CASE t.gen < MaxIdle
  <2>1. Arm(t) = [Invalidate(t) EXCEPT !.active = TRUE, !.task = t.gen + 1]
    BY <1>5 DEF Arm
  <2>2. /\ Arm(t).box = Invalidate(t).box /\ Arm(t).gen = Invalidate(t).gen
        /\ Arm(t).task = t.gen + 1
    BY <1>4, <2>1 DEF Timers
  <2>3. Arm(t).active = TRUE
    BY <1>4, <2>1 DEF Timers
  <2> QED  BY <1>1, <1>2, <1>3, <1>5, <2>2, <2>3
<1>6. CASE ~(t.gen < MaxIdle)
  <2>1. Arm(t) = Invalidate(t)
    BY <1>6 DEF Arm
  <2> QED  BY <1>1, <1>2, <1>3, <1>6, <2>1
<1> QED  BY <1>5, <1>6

\* The three things reconcile_idle can do.
LEMMA ReconcileKeeps ==
  ASSUME Inv, Inv', TimerInv, phase = "running", player.revision <= player'.revision,
         timer' = ReconcileIdle(Idle(player), Idle(player'), timer)
  PROVE  TimerInv'
<1> USE DEF TimerInv, Unexhausted
<1>1. CASE ~Idle(player) /\ Idle(player')
  <2>1. timer' = Arm(timer)
    BY <1>1 DEF ReconcileIdle
  <2>2. CASE timer.gen < MaxIdle
    <3>1. timer'.gen = timer.gen + 1 /\ timer'.task = timer.gen + 1 /\ timer'.box = timer.box
          /\ timer'.active
      BY <2>1, <2>2, TimerTypesNow, TimerOperators
    <3>2. timer'.box <= timer'.gen /\ timer'.task = timer'.gen /\ timer'.gen # 0
      BY <3>1, TimerTypesNow
    <3> QED  BY <1>1, <3>1, <3>2
  <2>3. CASE ~(timer.gen < MaxIdle)
    <3>1. timer'.gen = timer.gen /\ timer'.task = 0 /\ timer'.box = timer.box
      BY <2>1, <2>3, TimerTypesNow, TimerOperators
    <3> QED  BY <2>3, <3>1, TimerTypesNow
  <2> QED  BY <2>2, <2>3
<1>2. CASE Idle(player) /\ ~Idle(player') /\ timer.active
  <2>1. timer' = Invalidate(timer)
    BY <1>2 DEF ReconcileIdle
  <2>2. timer'.task = 0 /\ timer'.box = timer.box /\ ~timer'.active
        /\ (timer.gen < MaxIdle => timer'.gen = timer.gen + 1)
        /\ (~(timer.gen < MaxIdle) => timer'.gen = timer.gen)
    BY <2>1, TimerTypesNow, TimerOperators
  <2>3. /\ timer'.box <= timer'.gen
        /\ timer'.gen < MaxIdle => timer'.box # timer'.gen
    BY <2>2, TimerTypesNow
  <2>4. Unexhausted' => (~timer'.active => timer'.gen = 0 \/ timer'.box # timer'.gen)
    BY <2>3
  <2>5. timer'.task \in {0, timer'.gen} /\ (timer'.task # 0 => timer'.active)
    BY <2>2
  <2> QED  BY <1>2, <2>2, <2>3, <2>4, <2>5
<1>3. CASE /\ ~(~Idle(player) /\ Idle(player'))
           /\ ~(Idle(player) /\ ~Idle(player') /\ timer.active)
  <2>1. timer' = timer
    BY <1>3 DEF ReconcileIdle
  <2>2. Unexhausted' => Unexhausted
    <3>1. player.revision \in Nat /\ player'.revision \in Nat /\ MaxRevision \in Nat
      BY Types, TypesAfter, Limits DEF Numbers
    <3> QED  BY <2>1, <3>1
  <2> QED  BY <1>3, <2>1, <2>2
<1> QED  BY <1>1, <1>2, <1>3

LEMMA TimerFiresKeeps ==
  ASSUME Inv, TimerInv, TimerFires PROVE TimerInv'
<1>1. /\ timer'.box = timer.task /\ timer'.task = 0 /\ timer'.gen = timer.gen
      /\ timer.task # 0 /\ UNCHANGED <<player, phase>>
  BY TimerTypesNow DEF TimerFires, Timers
<1>2. timer'.active = timer.active
  BY TimerTypesNow DEF TimerFires, Timers
<1>3. Idle(player') <=> Idle(player)
  BY <1>1
<1>4. Unexhausted' <=> Unexhausted
  BY <1>1 DEF Unexhausted
<1> QED  BY <1>1, <1>2, <1>3, <1>4, TimerTypesNow DEF TimerInv

LEMMA IdleExpiredTimer ==
  ASSUME Inv, TimerInv, IdleExpired PROVE TimerInv'
<1> DEFINE t == [timer EXCEPT !.box = 0]
<1>1. t \in Timers /\ t.gen = timer.gen /\ t.task = timer.task /\ t.box = 0
  BY TimerTypesNow DEF Timers
<1>2. t.active = timer.active
  BY TimerTypesNow DEF Timers
<1>3. /\ MarkFired(t) \in Timers /\ MarkFired(t).gen = timer.gen
      /\ MarkFired(t).task = 0 /\ MarkFired(t).box = 0
  BY <1>1 DEF MarkFired, Timers
<1>4. MarkFired(t).active = FALSE
  BY <1>1 DEF MarkFired, Timers
<1>5. phase = "running" /\ timer.box # 0
  BY DEF IdleExpired, Running
<1> HIDE DEF t
<1>6. CASE /\ timer.box # timer.gen \/ ~Idle(player)
           /\ timer' = t /\ UNCHANGED <<player, phase>>
  <2>1. timer'.gen = timer.gen /\ timer'.task = timer.task /\ timer'.box = 0
        /\ (timer'.active <=> timer.active)
    BY <1>1, <1>2, <1>6
  <2>2. (Idle(player') <=> Idle(player)) /\ (Unexhausted' <=> Unexhausted)
    BY <1>6, <2>1 DEF Unexhausted
  <2> QED  BY <1>5, <1>6, <2>1, <2>2, TimerTypesNow DEF TimerInv
<1>7. CASE ~NextRevision /\ timer' = MarkFired(t) /\ UNCHANGED <<player, phase>>
  BY <1>3, <1>4, <1>7, TimerTypesNow DEF TimerInv, NextRevision, Unexhausted
<1>8. CASE Idle(player) /\ timer' = Arm(MarkFired(t)) /\ UNCHANGED <<player, phase>>
  <2>1. Idle(player')
    BY <1>8
  <2>2. CASE timer.gen < MaxIdle
    <3>1. timer'.gen = timer.gen + 1 /\ timer'.task = timer.gen + 1 /\ timer'.box = 0
          /\ timer'.active
      BY <1>3, <1>8, <2>2, TimerOperators
    <3> QED  BY <2>1, <3>1, TimerTypesNow DEF TimerInv
  <2>3. CASE ~(timer.gen < MaxIdle)
    <3>1. timer'.gen = timer.gen /\ timer'.task = 0 /\ timer'.box = 0
      BY <1>3, <1>8, <2>3, TimerOperators
    <3> QED  BY <2>3, <3>1, TimerTypesNow DEF TimerInv, Unexhausted
  <2> QED  BY <2>2, <2>3
<1>9. CASE Stops
  BY <1>9 DEF Stops, TimerInv
<1> QED  BY <1>6, <1>7, <1>8, <1>9, Zenon DEF IdleExpired, t

\* The phase is left alone, or the task has ended.
LEMMA NextPhase ==
  ASSUME Inv, PlaybackInv, [Next]_vars PROVE phase' = phase \/ phase' = "stopped"
BY NextKnown DEF KnownStep, Keeps, Unloads, Plays, Pauses, Announces, Drops, Finishes, Onward

LEMMA TimerStep ==
  ASSUME Inv, Inv', PlaybackInv, TimerInv, [Next]_vars
  PROVE  TimerInv'
<1> SUFFICES ASSUME phase' = "running", phase = "running" PROVE TimerInv'
  <2>1. phase' = phase \/ phase' = "stopped"
    BY NextPhase
  <2> QED  BY <2>1 DEF TimerInv
<1>1. CASE UNCHANGED <<player, timer>>
  <2>1. timer' = ReconcileIdle(Idle(player), Idle(player'), timer)
    BY <1>1 DEF ReconcileIdle
  <2>2. player.revision <= player'.revision
    BY <1>1, TimerTypesNow
  <2> QED  BY <2>1, <2>2, ReconcileKeeps
<1>2. CASE \E p : Change(p)
  BY <1>2, Finished, TimerTypesNow, ReconcileKeeps DEF Change
<1>3. CASE \E closing : Shutdown(closing)
  BY <1>3 DEF Shutdown, Stops
<1> QED  BY <1>1, <1>2, <1>3, NextChanges, TimerFiresKeeps, IdleExpiredTimer

\* A running actor, its adapter and its idle timer agree on where the player is
\* and what it plays: in its channel, with its track loaded or about to be
\* reported, and a live expiration exactly while it idles there.
THEOREM VoiceAttended == Spec => []VoiceIsAttended
<1>1. Init => TimerInv
  <2> SUFFICES ASSUME Init PROVE TimerInv
    OBVIOUS
  <2>1. timer.gen = 0 /\ timer.task = 0 /\ timer.box = 0
    BY DEF Init
  <2>2. timer.active = FALSE
    BY DEF Init
  <2>3. player.voice = None
    BY DEF Init
  <2> QED  BY <2>1, <2>2, <2>3 DEF TimerInv, Idle
<1>2. Inv /\ Inv' /\ PlaybackInv /\ TimerInv /\ [Next]_vars => TimerInv'
  BY TimerStep
<1>3. ASSUME Inv, PlaybackInv, TimerInv PROVE VoiceIsAttended
  <2>1. IdleTimerExact
    BY <1>3, TimerTypesNow DEF TimerInv, IdleTimerExact, ExpirationPending
  <2> QED  BY <1>3, <2>1, BackedNow DEF VoiceIsAttended, Inv, PlaybackInv
<1> QED  BY <1>1, <1>2, <1>3, Invariance, PlaybackIsBacked, PTL DEF Spec

-----------------------------------------------------------------------------
(* What an end report does.                                                *)

\* Reports get fewer in a running actor only where one is handled.
LEMMA ReportsTaken ==
  ASSUME Inv, [Next]_vars, Len(ends') < Len(ends), phase' = "running"
  PROVE  PlaybackEnded
<1>1. CASE ends' = ends
  BY <1>1, Types DEF Numbers
<1>2. CASE \E report : ends' = Append(ends, report)
  <2>1. Len(ends') = Len(ends) + 1 /\ Len(ends) \in Nat
    BY <1>2, Types DEF Numbers
  <2> QED  BY <2>1
<1>3. CASE Stops
  BY <1>3 DEF Stops
<1>4. ASSUME (\E r \in Reasons : TrackEnds(r)) \/ WorkerFails
      PROVE  \E report : ends' = Append(ends, report)
  BY <1>4, Zenon DEF TrackEnds, WorkerFails
<1>5. ASSUME \/ \E c : Connect(c) \/ ReconcileVoiceChannel(c)
             \/ \E b : EnqueueBatch(b)
             \/ \E k : Apply(k)
             \/ ApplyFails \/ TimerFires \/ UNCHANGED vars
      PROVE  ends' = ends
  BY <1>5, Zenon
     DEF Connect, ReconcileVoiceChannel, EnqueueBatch, Apply, ApplyFails, TimerFires, vars
<1>6. ASSUME IdleExpired \/ \E closing : Shutdown(closing)
      PROVE  ends' = ends \/ Stops
  BY <1>6, Zenon DEF IdleExpired, Shutdown
<1> QED  BY <1>1, <1>2, <1>3, <1>4, <1>5, <1>6, Zenon DEF Next

LEMMA FirstReport ==
  ASSUME Inv, ends # <<>>
  PROVE  Head(ends) = ends[1] /\ 1 \in 1..Len(ends) /\ Head(ends) \in Reports
BY HeadTailProperties, Types DEF Numbers

\* An end report never displaces an instance the adapter is still playing,
\* however late it arrives (playback_ended compares the whole instance).
THEOREM OnlyEndedIsReplaced == Spec => OnlyEndedPlaybackIsReplaced
<1>1. ASSUME Inv, PlaybackInv, [Next]_vars,
             Len(ends') < Len(ends), phase' = "running", player'.current # player.current
      PROVE  port.gen # player.current.gen \/ port.mode # "running"
  <2>1. PlaybackEnded
    BY <1>1, ReportsTaken
  <2>2. ends # <<>> /\ EndsCurrent(Head(ends))
    BY <1>1, <2>1 DEF PlaybackEnded, NoChange
  <2>3. player.current.gen = ends[1].gen /\ 1 \in 1..Len(ends)
    BY <1>1, <2>2, FirstReport DEF EndsCurrent
  <2> QED  BY <1>1, <2>3 DEF PlaybackInv, ReportsAreTrue
<1>2. Inv /\ PlaybackInv /\ [Next]_vars =>
        [ Len(ends') < Len(ends) /\ phase' = "running" /\ player'.current # player.current
          => port.gen # player.current.gen \/ port.mode # "running" ]_vars
  BY <1>1
<1> QED  BY <1>2, PlaybackIsBacked, PTL DEF Spec, OnlyEndedPlaybackIsReplaced

\* The newest entry of the history is the track just pushed, full or not.
LEMMA PushHistoryKeepsTrack ==
  ASSUME NEW h \in Seq(Tracks), Len(h) <= MaxQueued, NEW track \in Tracks
  PROVE  Contains(PushHistory(h, track), track)
<1> DEFINE kept == IF Len(h) = MaxQueued THEN Tail(h) ELSE h
<1>1. kept \in Seq(Tracks)
  <2>1. CASE h = <<>>
    BY <2>1, ConstantsAssumption
  <2>2. CASE h # <<>>
    BY <2>2, HeadTailProperties
  <2> QED  BY <2>1, <2>2
<1> HIDE DEF kept
<1>2. /\ Append(kept, track) \in Seq(Tracks)
      /\ Len(Append(kept, track)) = Len(kept) + 1 /\ Len(kept) \in Nat
      /\ Append(kept, track)[Len(kept) + 1] = track
  BY <1>1
<1>3. Len(kept) + 1 \in 1..Len(Append(kept, track))
  BY <1>2
<1> QED  BY <1>2, <1>3 DEF Contains, PushHistory, kept

\* A track that ended naturally stays reachable: it plays again or is in the
\* history, also when its replay and later starts fail (after_natural_end).
THEOREM NaturalEndKept == Spec => NaturalEndKeepsTrack
<1>1. ASSUME Inv, [Next]_vars, Len(ends') < Len(ends), phase' = "running",
             player'.current # player.current, Head(ends).reason = "Natural"
      PROVE  \/ ContainsTrack(player', player.current.track)
             \/ Contains(player'.history, player.current.track)
  <2> DEFINE finished == player.current.track
             history == PushHistory(player.history, finished)
             pushed == [player EXCEPT !.history = history]
  <2>1. PlaybackEnded
    BY <1>1, ReportsTaken
  <2>2. player.current # None /\ AfterNaturalEnd(finished)
    BY <1>1, <2>1 DEF PlaybackEnded, NoChange, EndsCurrent
  <2>3. player \in Models /\ finished \in Tracks
    BY <1>1, <2>2 DEF Inv, TypeOK, Models, Active
  <2>4. Contains(history, finished)
    BY <1>1, <2>3, ModelFields, PushHistoryKeepsTrack
  <2>5. ASSUME NEW gen, Change(Playing(player, finished, gen))
        PROVE  ContainsTrack(player', finished)
    <3>1. player'.current = [track |-> finished, gen |-> gen]
      BY <2>3, <2>5 DEF Change, FinishChange, Playing, Models
    <3>2. player'.current # None /\ player'.current.track = finished
      <4>1. player' \in Models
        BY <1>1, NextInv DEF Inv, TypeOK
      <4>2. player'.state = "Playing" /\ Coherent(player')
        BY <1>1, <2>3, <2>5, NextInv DEF Change, FinishChange, Playing, Models, Inv, ShapeOK
      <4> QED  BY <3>1, <4>2 DEF Coherent
    <3> QED  BY <3>2 DEF ContainsTrack
  <2>6. ASSUME NEW candidates, NEW g, StartFirstPlayable(pushed, candidates, g)
        PROVE  player'.history = history
    <3> HIDE DEF history
    <3>1. ASSUME NEW t, NEW gen, NEW queue,
                 Change([Playing(pushed, t, gen) EXCEPT !.queue = queue])
          PROVE  player'.history = history
      BY <2>3, <3>1 DEF Change, FinishChange, Playing, Models
    <3>2. ASSUME Change([pushed EXCEPT !.current = None, !.queue = <<>>,
                                       !.state = "IdleConnected"])
          PROVE  player'.history = history
      BY <2>3, <3>2 DEF Change, FinishChange, Models
    <3> HIDE DEF pushed
    <3>3. \/ \E t, gen, queue : Change([Playing(pushed, t, gen) EXCEPT !.queue = queue])
          \/ Change([pushed EXCEPT !.current = None, !.queue = <<>>, !.state = "IdleConnected"])
      BY <2>6, Zenon DEF StartFirstPlayable
    <3> QED  BY <3>1, <3>2, <3>3
  <2>7. \/ \E gen : Change(Playing(player, finished, gen))
        \/ \E candidates, g : StartFirstPlayable(pushed, candidates, g)
    BY <2>2, Zenon DEF AfterNaturalEnd
  <2> HIDE DEF pushed, history
  <2> QED  BY <2>4, <2>5, <2>6, <2>7
<1>2. Inv /\ [Next]_vars =>
        [ (/\ Len(ends') < Len(ends) /\ phase' = "running" /\ player'.current # player.current
           /\ Head(ends).reason = "Natural")
          => \/ ContainsTrack(player', player.current.track)
             \/ Contains(player'.history, player.current.track) ]_vars
  BY <1>1
<1> QED  BY <1>2, Invariance, PTL DEF Spec, NaturalEndKeepsTrack

-----------------------------------------------------------------------------
(* The settings.                                                           *)

\* While the player is connected the adapter has its settings, and at all times
\* an adapter with a preset belongs to a player with one: Connect hands over the
\* preset only if there is one.
SettingsInv ==
  /\ SettingsReachAdapter
  /\ player.settings.hrir = None => port.settings.hrir = None

\* No settings change, and the player does not come to be in a channel.
SettingsAside ==
  /\ player'.settings = player.settings /\ port'.settings = port.settings
  /\ player'.voice # None => player.voice # None
  /\ phase' = phase \/ phase' = "stopped"

LEMMA AsideKeeps == ASSUME SettingsInv, SettingsAside PROVE SettingsInv'
BY DEF SettingsInv, SettingsReachAdapter, SettingsAside

\* The adapter keeps its settings through every call that is not about them.
LEMMA PortSettings ==
  ASSUME Inv
  PROVE  /\ \A t, g : PortPlay(t, g).settings = port.settings
         /\ PortStopped.settings = port.settings
         /\ PortLeft.settings = port.settings
BY DEF Inv, TypeOK, Ports, PortPlay, PortStopped, PortLeft

\* A change of the model that is about neither settings nor channel.
LEMMA ChangeAside ==
  ASSUME Inv, NEW p, Change(p), DOMAIN p = DOMAIN player,
         p.settings = player.settings, p.voice = player.voice \/ p.voice = None
  PROVE  player'.settings = player.settings /\ (player'.voice # None => player.voice # None)
<1>1. player' = [p EXCEPT !.revision = player.revision + 1]
  BY DEF Change, FinishChange
<1>2. "settings" \in DOMAIN p /\ "voice" \in DOMAIN p
  BY DEF Inv, TypeOK, Models
<1> QED  BY <1>1, <1>2

\* One setting is changed on both sides, on the player's alone when it is apart.
LEMMA ApplySettingsKept ==
  ASSUME Inv, SettingsInv, phase' = phase, NEW mine, NEW theirs,
         ApplySettings(mine, theirs),
         port.settings = player.settings => theirs = mine,
         mine.hrir = None => player.settings.hrir = None /\ theirs.hrir = port.settings.hrir
  PROVE  SettingsInv'
<1>1. player' = [[player EXCEPT !.settings = mine] EXCEPT !.revision = player.revision + 1]
  BY DEF ApplySettings, Change, FinishChange
<1>2. player'.settings = mine /\ player'.voice = player.voice
  BY <1>1 DEF Inv, TypeOK, Models
<1>3. CASE player.voice # None
  <2>1. port'.settings = theirs
    BY <1>3 DEF ApplySettings, Inv, TypeOK, Ports
  <2> QED  BY <1>2, <1>3, <2>1 DEF SettingsInv, SettingsReachAdapter
<1>4. CASE player.voice = None
  <2>1. port' = port
    BY <1>4 DEF ApplySettings
  <2> QED  BY <1>2, <1>4, <2>1 DEF SettingsInv, SettingsReachAdapter
<1> QED  BY <1>3, <1>4

LEMMA SettingKept ==
  ASSUME Inv, SettingsInv, phase' = phase,
         \/ \E v \in Volumes : SetVolume(v)
         \/ \E h \in Presets : SetHrir(h)
         \/ \E on \in BOOLEAN : SetSpatial(on)
  PROVE  SettingsInv'
<1>1. /\ player.settings \in Settings /\ port.settings \in Settings
      /\ player.settings.hrir = None => port.settings.hrir = None
  BY DEF Inv, TypeOK, Models, Ports, SettingsInv
<1>2. CASE NoChange
  <2>1. SettingsAside
    BY <1>2 DEF NoChange, SettingsAside
  <2> QED  BY <2>1, AsideKeeps
<1>3. ASSUME NEW v \in Volumes,
             ApplySettings([player.settings EXCEPT !.volume = v],
                           [port.settings EXCEPT !.volume = v])
      PROVE  SettingsInv'
  <2>1. /\ [player.settings EXCEPT !.volume = v].hrir = player.settings.hrir
        /\ [port.settings EXCEPT !.volume = v].hrir = port.settings.hrir
    BY <1>1 DEF Settings
  <2> QED  BY <1>3, <2>1, ApplySettingsKept
<1>4. ASSUME NEW h \in Presets,
             ApplySettings([player.settings EXCEPT !.hrir = h, !.spatial = TRUE],
                           [port.settings EXCEPT !.hrir = h, !.spatial = TRUE])
      PROVE  SettingsInv'
  <2>1. [player.settings EXCEPT !.hrir = h, !.spatial = TRUE].hrir # None
    BY <1>1, Limits DEF Settings
  <2> QED  BY <1>4, <2>1, ApplySettingsKept
<1>5. ASSUME NEW on \in BOOLEAN,
             ApplySettings([player.settings EXCEPT !.spatial = on],
                           [port.settings EXCEPT !.spatial = on])
      PROVE  SettingsInv'
  <2>1. /\ [player.settings EXCEPT !.spatial = on].hrir = player.settings.hrir
        /\ [port.settings EXCEPT !.spatial = on].hrir = port.settings.hrir
    BY <1>1 DEF Settings
  <2> QED  BY <1>5, <2>1, ApplySettingsKept
<1>6. \/ NoChange
      \/ \E v \in Volumes : ApplySettings([player.settings EXCEPT !.volume = v],
                                          [port.settings EXCEPT !.volume = v])
      \/ \E h \in Presets :
           ApplySettings([player.settings EXCEPT !.hrir = h, !.spatial = TRUE],
                         [port.settings EXCEPT !.hrir = h, !.spatial = TRUE])
      \/ \E on \in BOOLEAN : ApplySettings([player.settings EXCEPT !.spatial = on],
                                           [port.settings EXCEPT !.spatial = on])
  BY Zenon DEF SetVolume, SetHrir, SetSpatial
<1> QED  BY <1>2, <1>3, <1>4, <1>5, <1>6, Zenon

\* The commands that are not about settings.
OtherCommand ==
  \/ Resume \/ Pause \/ Stop \/ Skip \/ Previous \/ Seek \/ Disconnect
  \/ \E t \in Tracks : RemoveQueued(t)
  \/ \E t \in Tracks, b \in Tracks \cup {None} : MoveQueued(t, b)
  \/ \E r \in Repeats : SetRepeat(r)
  \/ \E on \in BOOLEAN : SetShuffle(on)

LEMMA CommandAside ==
  ASSUME Inv, phase' = phase, OtherCommand
  PROVE  SettingsAside
<1> DEFINE Mine == player'.settings = player.settings /\ (player'.voice # None => player.voice # None)
           Theirs == port'.settings = port.settings
<1>a. player \in Models
  BY DEF Inv, TypeOK
<1>0. NoChange => Mine /\ Theirs
  BY DEF NoChange
<1>1. ASSUME Resume \/ Pause PROVE Mine /\ Theirs
  <2>1. Mine
    BY <1>a, <1>1, ChangeAside DEF Resume, Pause, Models
  <2>2. Theirs
    BY <1>1 DEF Resume, Pause, Inv, TypeOK, Ports
  <2> QED  BY <2>1, <2>2
<1>2. ASSUME Stop PROVE Mine /\ Theirs
  <2>1. ASSUME ~NoChange PROVE Mine
    BY <1>a, <1>2, <2>1, ChangeAside DEF Stop, Models
  <2>2. Theirs
    BY <1>2, PortSettings DEF Stop, NoChange
  <2> QED  BY <1>0, <2>1, <2>2
<1>3. ASSUME Skip PROVE Mine /\ Theirs
  <2>1. player'.settings = player.settings /\ player'.voice = player.voice
    BY <1>a, <1>3 DEF Skip, Change, FinishChange, Playing, Models
  <2>2. Theirs
    BY <1>3, PortSettings DEF Skip
  <2> QED  BY <2>1, <2>2
<1>4. ASSUME Previous PROVE Mine /\ Theirs
  <2>1. player'.settings = player.settings /\ player'.voice = player.voice
    BY <1>a, <1>4 DEF Previous, Change, FinishChange, Playing, Models
  <2>2. Theirs
    BY <1>4, PortSettings DEF Previous
  <2> QED  BY <2>1, <2>2
<1>5. ASSUME Seek PROVE Mine /\ Theirs
  <2>1. \E p : Change(p) /\ DOMAIN p = DOMAIN player /\ p.settings = player.settings
               /\ p.voice = player.voice
    BY <1>a, <1>5 DEF Seek, Models
  <2>2. Theirs
    BY <1>5 DEF Seek, Inv, TypeOK, Ports
  <2> QED  BY <2>1, <2>2, ChangeAside
<1>6. ASSUME Disconnect PROVE Mine /\ Theirs
  <2>1. ASSUME ~NoChange PROVE Mine
    BY <1>a, <1>6, <2>1, ChangeAside DEF Disconnect, Cleared, Models
  <2>2. Theirs
    BY <1>6, PortSettings DEF Disconnect, NoChange
  <2> QED  BY <1>0, <2>1, <2>2
<1>7. ASSUME NEW queue, NEW q, NEW b, NEW r,
             \/ Change([player EXCEPT !.queue = queue])
             \/ Change([player EXCEPT !.repeat = r])
             \/ Change([player EXCEPT !.shuffle = b, !.queue = q])
      PROVE  Mine
  BY <1>a, <1>7, ChangeAside DEF Models
<1>8. ASSUME NEW t \in Tracks, NEW b \in Tracks \cup {None},
             RemoveQueued(t) \/ MoveQueued(t, b)
      PROVE  Mine /\ Theirs
  <2>1. NoChange \/ (UNCHANGED port /\ \E queue : Change([player EXCEPT !.queue = queue]))
    BY <1>8, Zenon DEF RemoveQueued, MoveQueued
  <2> QED  BY <1>0, <1>7, <2>1
<1>9. ASSUME NEW x, SetRepeat(x) \/ SetShuffle(x) PROVE Mine /\ Theirs
  <2>1. \/ NoChange
        \/ UNCHANGED port /\ Change([player EXCEPT !.repeat = x])
        \/ UNCHANGED port /\ \E q : Change([player EXCEPT !.shuffle = x, !.queue = q])
    BY <1>9, Zenon DEF SetRepeat, SetShuffle
  <2> QED  BY <1>0, <1>7, <2>1
<1> HIDE DEF Mine, Theirs
<1>10. Mine /\ Theirs
  <2>1. ASSUME \E t \in Tracks : RemoveQueued(t) PROVE Mine /\ Theirs
    BY <1>8, <2>1
  <2> QED  BY <1>1, <1>2, <1>3, <1>4, <1>5, <1>6, <1>8, <1>9, <2>1, Zenon DEF OtherCommand
<1> QED  BY <1>10 DEF SettingsAside, Mine, Theirs

LEMMA ConnectSettings ==
  ASSUME Inv, SettingsInv, NEW channel \in Channels, Connect(channel)
  PROVE  SettingsInv'
<1> DEFINE volume == [port.settings EXCEPT !.volume = player.settings.volume]
           hrir   == IF player.settings.hrir = None THEN volume
                     ELSE [volume EXCEPT !.hrir = player.settings.hrir, !.spatial = TRUE]
           all    == [hrir EXCEPT !.spatial = player.settings.spatial]
<1>1. /\ player.settings \in Settings /\ port.settings \in Settings
      /\ player.settings.hrir = None => port.settings.hrir = None
      /\ port \in Ports /\ player \in Models /\ player.voice = None
  BY DEF Inv, TypeOK, Models, Ports, SettingsInv, Connect
<1>2. volume \in Settings /\ volume.hrir = port.settings.hrir
      /\ volume.volume = player.settings.volume
  BY <1>1 DEF Settings
<1>3. hrir \in Settings /\ hrir.hrir = player.settings.hrir
      /\ hrir.volume = player.settings.volume
  BY <1>1, <1>2 DEF Settings
<1>4. all = player.settings
  BY <1>1, <1>3 DEF Settings
<1>5. player.settings.hrir = None =>
        \A s \in {port.settings, volume, hrir} : s.hrir = None
  BY <1>1, <1>2, <1>3
<1>6. \/ /\ port' = [port EXCEPT !.channel = channel, !.settings = all]
         /\ Change([player EXCEPT !.voice = channel, !.state = "IdleConnected"])
      \/ /\ \E s \in {port.settings, volume, hrir} :
              port' \in {[PortLeft EXCEPT !.settings = s],
                         [port EXCEPT !.channel = channel, !.settings = s]}
         /\ UNCHANGED player
  BY DEF Connect
<1> HIDE DEF volume, hrir, all
<1>7. CASE /\ port' = [port EXCEPT !.channel = channel, !.settings = all]
           /\ Change([player EXCEPT !.voice = channel, !.state = "IdleConnected"])
  <2>1. port'.settings = all
    BY <1>1, <1>7 DEF Ports
  <2>2. player'.settings = player.settings
    BY <1>1, <1>7 DEF Change, FinishChange, Models
  <2> QED  BY <1>1, <1>4, <2>1, <2>2 DEF SettingsInv, SettingsReachAdapter
<1>8. ASSUME NEW s \in {port.settings, volume, hrir}, UNCHANGED player,
             port' \in {[PortLeft EXCEPT !.settings = s],
                        [port EXCEPT !.channel = channel, !.settings = s]}
      PROVE  SettingsInv'
  <2>1. port'.settings = s
    BY <1>1, <1>8 DEF PortLeft, PortStopped, Ports
  <2> QED  BY <1>1, <1>5, <1>8, <2>1 DEF SettingsInv, SettingsReachAdapter
<1> QED  BY <1>6, <1>7, <1>8

LEMMA EnqueueAside ==
  ASSUME Inv, NEW b, EnqueueBatch(b) PROVE SettingsAside
<1>1. /\ player \in Models /\ phase' = phase
  BY DEF Inv, TypeOK, EnqueueBatch
<1>2. port'.settings = port.settings
  BY PortSettings DEF EnqueueBatch, PlayFails
<1>3. PICK queue :
        \/ Change([Playing(player, Head(b), generation') EXCEPT !.queue = queue])
        \/ Change([player EXCEPT !.queue = queue])
        \/ PlayFails
  BY Zenon DEF EnqueueBatch
<1>4. player'.settings = player.settings /\ player'.voice = player.voice
  BY <1>1, <1>3 DEF PlayFails, Change, FinishChange, Playing, Models
<1> QED  BY <1>1, <1>2, <1>4 DEF SettingsAside

LEMMA PlaybackEndedAside ==
  ASSUME Inv, PlaybackEnded PROVE SettingsAside
<1> DEFINE Mine == player'.settings = player.settings /\ (player'.voice # None => player.voice # None)
           Theirs == port'.settings = port.settings
<1>1. player \in Models /\ phase' = phase
  BY DEF Inv, TypeOK, PlaybackEnded
<1>2. ASSUME NEW h, NEW q, NEW g, StartFirstPlayable([player EXCEPT !.history = h], q, g)
      PROVE  Mine /\ Theirs
  <2> DEFINE p == [player EXCEPT !.history = h]
  <2>1. ASSUME NEW t, NEW gen, NEW queue, Change([Playing(p, t, gen) EXCEPT !.queue = queue])
        PROVE  Mine
    BY <1>1, <2>1 DEF Change, FinishChange, Playing, Models
  <2>2. ASSUME Change([p EXCEPT !.current = None, !.queue = <<>>, !.state = "IdleConnected"])
        PROVE  Mine
    BY <1>1, <2>2 DEF Change, FinishChange, Models
  <2>3. Theirs
    BY <1>2, PortSettings DEF StartFirstPlayable
  <2> HIDE DEF p
  <2>4. \/ \E t, gen, queue : Change([Playing(p, t, gen) EXCEPT !.queue = queue])
        \/ Change([p EXCEPT !.current = None, !.queue = <<>>, !.state = "IdleConnected"])
    BY <1>2, Zenon DEF StartFirstPlayable, p
  <2> QED  BY <2>1, <2>2, <2>3, <2>4
<1>3. ASSUME NEW t, AfterNaturalEnd(t) PROVE Mine /\ Theirs
  <2>1. CASE \E g : port' = PortPlay(t, g) /\ Change(Playing(player, t, g))
    <3>1. Mine
      BY <1>1, <2>1, ChangeAside DEF Playing, Models
    <3>2. Theirs
      BY <2>1, PortSettings
    <3> QED  BY <3>1, <3>2
  <2>2. \/ \E g : port' = PortPlay(t, g) /\ Change(Playing(player, t, g))
        \/ \E h, q, g : StartFirstPlayable([player EXCEPT !.history = h], q, g)
    BY <1>3, Zenon DEF AfterNaturalEnd
  <2> HIDE DEF Mine, Theirs
  <2> QED  BY <1>2, <2>1, <2>2
<1>4. ASSUME NoChange PROVE Mine /\ Theirs
  BY <1>4 DEF NoChange
<1>5. player = [player EXCEPT !.history = player.history]
  BY <1>1 DEF Models
<1> HIDE DEF Mine, Theirs
<1>6. \/ NoChange \/ AfterNaturalEnd(player.current.track)
      \/ StartFirstPlayable(player, player.queue, generation)
  BY Zenon DEF PlaybackEnded
<1>7. Mine /\ Theirs
  <2>1. \/ NoChange \/ \E t : AfterNaturalEnd(t)
        \/ \E h, q, g : StartFirstPlayable([player EXCEPT !.history = h], q, g)
    BY <1>5, <1>6
  <2> QED  BY <1>2, <1>3, <1>4, <2>1
<1> QED  BY <1>1, <1>7 DEF SettingsAside, Mine, Theirs

LEMMA ReconcileVoiceChannelAside ==
  ASSUME Inv, NEW c, player.voice # None, ReconcileVoiceChannel(c) PROVE SettingsAside
<1>1. player \in Models /\ port \in Ports /\ phase' = phase
  BY DEF Inv, TypeOK, ReconcileVoiceChannel
<1>2. port'.settings = port.settings
  BY <1>1, PortSettings DEF ReconcileVoiceChannel, Ports
<1>3. player'.settings = player.settings
  BY <1>1 DEF ReconcileVoiceChannel, Cleared, Change, FinishChange, Models
<1> QED  BY <1>1, <1>2, <1>3 DEF SettingsAside

LEMMA EndingAside ==
  ASSUME Inv, IdleExpired \/ (\E closing : Shutdown(closing)) PROVE SettingsAside
<1>1. player \in Models
  BY DEF Inv, TypeOK
<1>2. player' = player \/ player' = [Cleared(player) EXCEPT !.revision = player.revision + 1]
  BY DEF IdleExpired, Shutdown, FinishChange
<1>3. player'.settings = player.settings /\ (player'.voice # None => player.voice # None)
  BY <1>1, <1>2 DEF Cleared, Models
<1>4. port'.settings = port.settings
  BY PortSettings DEF IdleExpired, Shutdown
<1>5. phase' = phase \/ phase' = "stopped"
  BY Zenon DEF IdleExpired, Shutdown, Stops
<1> QED  BY <1>3, <1>4, <1>5 DEF SettingsAside

LEMMA SettingsStep ==
  ASSUME "join" \notin Inputs, Inv, SettingsInv, [Next]_vars
  PROVE  SettingsInv'
<1>1. ASSUME NEW k \in Keys, Apply(k) PROVE SettingsInv'
  <2>1. phase' = phase /\ Execute
    BY <1>1 DEF Apply
  <2>2. \/ OtherCommand
        \/ \E v \in Volumes : SetVolume(v)
        \/ \E h \in Presets : SetHrir(h)
        \/ \E on \in BOOLEAN : SetSpatial(on)
    BY <2>1, Zenon DEF Execute, OtherCommand
  <2>3. CASE OtherCommand
    BY <2>1, <2>3, CommandAside, AsideKeeps
  <2> QED  BY <2>1, <2>2, <2>3, SettingKept, Zenon
<1>2. ASSUME UNCHANGED <<player, phase>>, port'.settings = port.settings PROVE SettingsAside
  BY <1>2 DEF SettingsAside
<1>3. ASSUME (\E r \in Reasons : TrackEnds(r)) \/ WorkerFails \/ ApplyFails \/ TimerFires
               \/ UNCHANGED vars
      PROVE  SettingsAside
  <2>1. UNCHANGED <<player, phase>> /\ port'.settings = port.settings
    BY <1>3 DEF TrackEnds, WorkerFails, ApplyFails, PlayFails, TimerFires, vars, Inv, TypeOK, Ports
  <2> QED  BY <1>2, <2>1
<1> QED
  BY <1>1, <1>3, ConnectSettings, EnqueueAside, PlaybackEndedAside, ReconcileVoiceChannelAside,
     EndingAside, AsideKeeps, Zenon DEF Next

\* A connected player's settings are what the adapter applies, whatever was set
\* before the connection or refused during it (initialize_connection), as long as
\* the actor does not adopt a channel it did not ask for.
THEOREM SettingsReach ==
  ASSUME "join" \notin Inputs
  PROVE  Spec => []SettingsReachAdapter
<1>1. Init => SettingsInv
  BY DEF Init, SettingsInv, SettingsReachAdapter
<1>2. Inv /\ SettingsInv /\ [Next]_vars => SettingsInv'
  BY SettingsStep
<1>3. SettingsInv => SettingsReachAdapter
  BY DEF SettingsInv
<1> QED  BY <1>1, <1>2, <1>3, Invariance, PTL DEF Spec

-----------------------------------------------------------------------------
(* Moves in the queue.                                                     *)

\* What is in a sequence after one of its entries was taken out.
LEMMA RemoveAtEntries ==
  ASSUME NEW q \in Seq(Tracks), NEW i \in 1..Len(q), NEW k \in 1..(Len(q) - 1)
  PROVE  RemoveAt(q, i)[k] = IF k < i THEN q[k] ELSE q[k + 1]
<1> DEFINE left == SubSeq(q, 1, i - 1)
           right == SubSeq(q, i + 1, Len(q))
<1>1. left \in Seq(Tracks) /\ Len(left) = i - 1 /\ \A j \in 1..(i - 1) : left[j] = q[j]
  BY SubSeqProperties
<1>2. /\ right \in Seq(Tracks) /\ Len(right) = Len(q) - i
      /\ \A j \in 1..(Len(q) - i) : right[j] = q[i + j]
  BY SubSeqProperties
<1>3. RemoveAt(q, i) = left \o right
  BY DEF RemoveAt
<1>4. Len(q) \in Nat
  OBVIOUS
<1> HIDE DEF left, right
<1>5. \A j \in 1..(Len(left) + Len(right)) :
        (left \o right)[j] = IF j <= Len(left) THEN left[j] ELSE right[j - Len(left)]
  BY <1>1, <1>2, ConcatProperties
<1>6. CASE k < i
  <2>1. k \in 1..(i - 1) /\ k \in 1..(Len(left) + Len(right)) /\ k <= Len(left)
    BY <1>1, <1>2, <1>4, <1>6
  <2> QED  BY <1>1, <1>3, <1>5, <1>6, <2>1
<1>7. CASE ~(k < i)
  <2>1. /\ k - (i - 1) \in 1..(Len(q) - i) /\ i + (k - (i - 1)) = k + 1
        /\ k \in 1..(Len(left) + Len(right)) /\ ~(k <= Len(left))
    BY <1>1, <1>2, <1>4, <1>7
  <2>2. (left \o right)[k] = right[k - (i - 1)]
    BY <1>1, <1>5, <2>1
  <2> QED  BY <1>2, <1>3, <1>7, <2>1, <2>2
<1> QED  BY <1>6, <1>7

\* What is in a sequence after an entry was put in.
LEMMA InsertAtEntries ==
  ASSUME NEW q \in Seq(Tracks), NEW i \in 1..(Len(q) + 1), NEW track \in Tracks,
         NEW k \in 1..(Len(q) + 1)
  PROVE  InsertAt(q, i, track)[k] = IF k < i THEN q[k] ELSE IF k = i THEN track ELSE q[k - 1]
<1> DEFINE left == SubSeq(q, 1, i - 1)
           right == SubSeq(q, i, Len(q))
           both == left \o <<track>>
<1>1. left \in Seq(Tracks) /\ Len(left) = i - 1 /\ \A j \in 1..(i - 1) : left[j] = q[j]
  BY SubSeqProperties
<1>2. /\ right \in Seq(Tracks) /\ Len(right) = Len(q) - i + 1
      /\ \A j \in 1..(Len(q) - i + 1) : right[j] = q[i + j - 1]
  BY SubSeqProperties
<1>3. InsertAt(q, i, track) = both \o right
  BY DEF InsertAt
<1>4. Len(q) \in Nat
  OBVIOUS
<1> HIDE DEF left, right
<1>5. /\ both \in Seq(Tracks) /\ Len(both) = i
      /\ \A j \in 1..i : both[j] = IF j < i THEN q[j] ELSE track
  <2>1. <<track>> \in Seq(Tracks) /\ Len(<<track>>) = 1 /\ <<track>>[1] = track
    OBVIOUS
  <2>2. /\ both \in Seq(Tracks) /\ Len(both) = Len(left) + 1
        /\ \A j \in 1..(Len(left) + 1) :
             both[j] = IF j <= Len(left) THEN left[j] ELSE <<track>>[j - Len(left)]
    BY <1>1, <2>1, ConcatProperties
  <2>3. ASSUME NEW j \in 1..i PROVE both[j] = IF j < i THEN q[j] ELSE track
    <3>1. CASE j < i
      BY <1>1, <2>2, <3>1
    <3>2. CASE ~(j < i)
      <4>1. j = i /\ ~(j <= Len(left)) /\ j - Len(left) = 1 /\ j \in 1..(Len(left) + 1)
        BY <1>1, <3>2
      <4> QED  BY <2>1, <2>2, <3>2, <4>1
    <3> QED  BY <3>1, <3>2
  <2>4. Len(both) = i
    BY <1>1, <2>2
  <2> QED  BY <2>2, <2>3, <2>4
<1> HIDE DEF both
<1>6. \A j \in 1..(Len(both) + Len(right)) :
        (both \o right)[j] = IF j <= Len(both) THEN both[j] ELSE right[j - Len(both)]
  BY <1>2, <1>5, ConcatProperties
<1>7. k \in 1..(Len(both) + Len(right))
  BY <1>2, <1>4, <1>5
<1>8. CASE k <= i
  <2>1. InsertAt(q, i, track)[k] = both[k] /\ k \in 1..i
    BY <1>3, <1>5, <1>6, <1>7, <1>8
  <2>2. ~(k < i) => k = i
    BY <1>8
  <2> QED  BY <1>5, <2>1, <2>2
<1>9. CASE ~(k <= i)
  <2>1. k - i \in 1..(Len(q) - i + 1) /\ i + (k - i) - 1 = k - 1 /\ ~(k < i) /\ k # i
    BY <1>4, <1>9
  <2>2. InsertAt(q, i, track)[k] = right[k - i]
    BY <1>3, <1>5, <1>6, <1>7, <1>9
  <2> QED  BY <1>2, <2>1, <2>2
<1> QED  BY <1>8, <1>9

\* Where the entry at place i goes when the one at place `source' moves to `target'.
Shifted(source, target, i) ==
  IF i = source THEN target
  ELSE LET k == IF i < source THEN i ELSE i - 1 IN IF k < target THEN k ELSE k + 1

\* Every place is taken, and the entries that are not moved keep their order.
Ordered(n, source, target) ==
  /\ \A i \in 1..n : Shifted(source, target, i) \in 1..n
  /\ \A k \in 1..n : \E i \in 1..n : Shifted(source, target, i) = k
  /\ \A i, j \in 1..n : i < j /\ i # source /\ j # source =>
       Shifted(source, target, i) < Shifted(source, target, j)

LEMMA ShiftsAreOrdered ==
  ASSUME NEW n \in Nat, NEW source \in 1..n, NEW target \in 1..n
  PROVE  Ordered(n, source, target)
<1>1. \A i \in 1..n : Shifted(source, target, i) \in 1..n
  BY DEF Shifted
<1>2. ASSUME NEW k \in 1..n PROVE \E i \in 1..n : Shifted(source, target, i) = k
  <2>1. PICK j : j = IF k < target THEN k ELSE k - 1
    OBVIOUS
  <2>2. PICK i : i = IF k = target THEN source ELSE IF j < source THEN j ELSE j + 1
    OBVIOUS
  <2>3. i \in 1..n
    BY <2>1, <2>2
  <2>4. Shifted(source, target, i) = k
    BY <2>1, <2>2 DEF Shifted
  <2> QED  BY <2>3, <2>4
<1>3. \A i, j \in 1..n : i < j /\ i # source /\ j # source =>
        Shifted(source, target, i) < Shifted(source, target, j)
  BY DEF Shifted
<1> QED  BY <1>1, <1>2, <1>3 DEF Ordered

\* A move takes every entry to its place.
Lands(q, source, target, r) ==
  /\ r \in Seq(Tracks) /\ Len(r) = Len(q)
  /\ \A i \in 1..Len(q) : r[Shifted(source, target, i)] = q[i]

LEMMA MovedEntries ==
  ASSUME NEW q \in Seq(Tracks), NEW source \in 1..Len(q), NEW target \in 1..Len(q)
  PROVE  Lands(q, source, target, InsertAt(RemoveAt(q, source), target, q[source]))
<1> DEFINE r == InsertAt(RemoveAt(q, source), target, q[source])
<1>1. PICK rest \in Seq(Tracks) : rest = RemoveAt(q, source) /\ Len(rest) = Len(q) - 1
  BY RemoveAtType
<1>2. PICK n \in Nat : n = Len(q) /\ source \in 1..n /\ target \in 1..n /\ Len(rest) + 1 = n
  BY <1>1
<1>3. q[source] \in Tracks
  OBVIOUS
<1>4. r \in Seq(Tracks) /\ Len(r) = n
  BY <1>1, <1>2, <1>3, InsertAtType
<1>5. \A k \in 1..n : r[k] = IF k < target THEN rest[k] ELSE IF k = target THEN q[source] ELSE rest[k - 1]
  BY <1>1, <1>2, <1>3, InsertAtEntries
<1> HIDE DEF r
<1>6. \A k \in 1..(n - 1) : rest[k] = IF k < source THEN q[k] ELSE q[k + 1]
  BY <1>1, <1>2, RemoveAtEntries
<1>7. ASSUME NEW i \in 1..n PROVE r[Shifted(source, target, i)] = q[i]
  <2>1. CASE i = source
    BY <1>2, <1>5, <2>1 DEF Shifted
  <2>2. CASE i # source
    <3>1. PICK k \in 1..(n - 1) : k = (IF i < source THEN i ELSE i - 1)
      BY <1>2, <2>2
    <3>2. rest[k] = q[i]
      <4>1. i = IF k < source THEN k ELSE k + 1
        BY <1>2, <2>2, <3>1
      <4> QED  BY <1>6, <4>1
    <3>3. Shifted(source, target, i) = IF k < target THEN k ELSE k + 1
      BY <2>2, <3>1 DEF Shifted
    <3>4. CASE k < target
      <4>1. k \in 1..n /\ Shifted(source, target, i) = k
        BY <1>2, <3>3, <3>4
      <4>2. r[k] = rest[k]
        BY <1>5, <3>4, <4>1
      <4> QED  BY <3>2, <4>1, <4>2
    <3>5. CASE ~(k < target)
      <4>1. k + 1 \in 1..n /\ ~(k + 1 < target) /\ k + 1 # target /\ (k + 1) - 1 = k
        BY <1>2, <3>5
      <4> QED  BY <1>5, <3>2, <3>3, <3>5, <4>1
    <3> QED  BY <3>4, <3>5
  <2> QED  BY <2>1, <2>2
<1> QED  BY <1>2, <1>4, <1>7 DEF Lands, r

\* Where no track is twice, the place of a track is its position.
LEMMA OnlyPosition ==
  ASSUME NEW q \in Seq(Tracks), \A i, j \in 1..Len(q) : q[i] = q[j] => i = j, NEW i \in 1..Len(q)
  PROVE  Position(q, q[i]) = i
<1>1. Contains(q, q[i])
  BY DEF Contains
<1>2. Position(q, q[i]) \in 1..Len(q) /\ q[Position(q, q[i])] = q[i]
  BY <1>1, PositionFinds
<1> QED  BY <1>2

\* A moved track lands directly before the track that was named, or last, and the
\* others keep their order, wherever it was and however long the queue (the shift of
\* the target in move_queued).
THEOREM MovePlaces == Spec => MovePlacesTrack
<1> DEFINE Placed(t, b) ==
      /\ IsInjective(player'.queue) /\ ToSet(player'.queue) = ToSet(player.queue)
      /\ \A x, y \in ToSet(player.queue) \ {t} :
           Position(player.queue, x) < Position(player.queue, y) =>
             Position(player'.queue, x) < Position(player'.queue, y)
      /\ IF b = None THEN Last(player'.queue) = t
         ELSE Position(player'.queue, b) = Position(player'.queue, t) + 1
<1>1. ASSUME Inv, NEW t \in Tracks, NEW b \in Tracks \cup {None}, t # b,
             IsInjective(player.queue), MoveQueued(t, b)
      PROVE  Placed(t, b)
  <2>1. PICK q \in Seq(Tracks), n \in Nat : q = player.queue /\ n = Len(q)
    <3>1. player.queue \in Seq(Tracks)
      BY <1>1, ModelFields DEF Inv, TypeOK
    <3> QED  BY <3>1
  <2>2. Contains(q, t) /\ (b # None => Contains(q, b))
    BY <1>1, <2>1 DEF MoveQueued
  <2>3. PICK source, target : source = Position(q, t) /\ target = MoveTarget(q, t, b)
    OBVIOUS
  <2>4. source \in 1..n /\ target \in 1..n /\ q[source] = t
    BY <2>1, <2>2, <2>3, PositionFinds, MoveTargetInQueue
  <2>5. \A i, j \in 1..n : q[i] = q[j] => i = j
    BY <1>1, <2>1 DEF IsInjective
  <2>6. PICK r : r = player'.queue
    OBVIOUS
  <2>7. r \in Seq(Tracks) /\ Len(r) = n /\ \A i \in 1..n : r[Shifted(source, target, i)] = q[i]
    <3>1. CASE target = source
      <4>1. r = q
        BY <1>1, <2>1, <2>3, <2>6, <3>1 DEF MoveQueued, NoChange
      <4>2. \A i \in 1..n : Shifted(source, target, i) = i
        BY <2>4, <3>1 DEF Shifted
      <4> QED  BY <2>1, <4>1, <4>2
    <3>2. CASE target # source
      <4>1. Change([player EXCEPT !.queue = InsertAt(RemoveAt(@, source), target, t)])
        BY <1>1, <2>1, <2>3, <3>2 DEF MoveQueued
      <4>2. r = InsertAt(RemoveAt(q, source), target, q[source])
        BY <1>1, <2>1, <2>4, <2>6, <4>1, ModelFields DEF Change, FinishChange, Inv, TypeOK, Models
      <4>3. source \in 1..Len(q) /\ target \in 1..Len(q)
        BY <2>1, <2>4
      <4>4. /\ r \in Seq(Tracks) /\ Len(r) = Len(q)
            /\ \A i \in 1..Len(q) : r[Shifted(source, target, i)] = q[i]
        <5>1. Lands(q, source, target, r)
          BY <2>1, <4>2, <4>3, MovedEntries
        <5> QED  BY <5>1 DEF Lands
      <4> QED  BY <2>1, <4>4
    <3> QED  BY <3>1, <3>2
  <2> DEFINE At(i) == Shifted(source, target, i)
  <2>16. \A i \in 1..n : r[At(i)] = q[i]
    BY <2>7
  <2>8. /\ \A i \in 1..n : At(i) \in 1..n
        /\ \A k \in 1..n : \E i \in 1..n : At(i) = k
        /\ \A i, j \in 1..n : i < j /\ i # source /\ j # source => At(i) < At(j)
    <3>1. Ordered(n, source, target)
      BY <2>1, <2>4, ShiftsAreOrdered
    <3> QED  BY <3>1 DEF Ordered
  <2>9. At(source) = target
    BY DEF Shifted
  <2>10. \A k, l \in 1..n : r[k] = r[l] => k = l
    <3> SUFFICES ASSUME NEW k \in 1..n, NEW l \in 1..n, r[k] = r[l] PROVE k = l
      OBVIOUS
    <3>1. PICK i \in 1..n : At(i) = k
      BY <2>8
    <3>2. PICK j \in 1..n : At(j) = l
      BY <2>8
    <3>3. q[i] = q[j]
      BY <2>7, <3>1, <3>2
    <3> QED  BY <2>5, <3>1, <3>2, <3>3
  <2>11. ToSet(r) = ToSet(q)
    <3>1. ASSUME NEW k \in 1..n PROVE \E i \in 1..n : r[k] = q[i]
      <4>1. PICK i \in 1..n : At(i) = k
        BY <2>8
      <4> QED  BY <2>16, <4>1
    <3>2. ASSUME NEW i \in 1..n PROVE \E k \in 1..n : q[i] = r[k]
      <4>1. At(i) \in 1..n /\ r[At(i)] = q[i]
        BY <2>7, <2>8
      <4> QED  BY <4>1
    <3>3. DOMAIN r = 1..n /\ DOMAIN q = 1..n
      BY <2>1, <2>7
    <3>4. /\ \A x : x \in ToSet(r) <=> \E k \in 1..n : r[k] = x
          /\ \A x : x \in ToSet(q) <=> \E k \in 1..n : q[k] = x
      BY <3>3 DEF ToSet
    <3> QED  BY <3>1, <3>2, <3>4
  <2>12. ASSUME NEW i \in 1..n PROVE Position(q, q[i]) = i /\ Position(r, q[i]) = At(i)
    <3>1. Position(q, q[i]) = i
      BY <2>1, <2>5, OnlyPosition
    <3>2. At(i) \in 1..n /\ r[At(i)] = q[i]
      BY <2>7, <2>8
    <3>3. Position(r, r[At(i)]) = At(i)
      BY <2>7, <2>10, <3>2, OnlyPosition
    <3> QED  BY <3>1, <3>2, <3>3
  <2> HIDE DEF At
  <2>13. ASSUME NEW x \in ToSet(q) \ {t}, NEW y \in ToSet(q) \ {t}, Position(q, x) < Position(q, y)
         PROVE  Position(r, x) < Position(r, y)
    <3>1. PICK i \in 1..n : q[i] = x
      BY <2>1 DEF ToSet
    <3>2. PICK j \in 1..n : q[j] = y
      BY <2>1 DEF ToSet
    <3>3. i # source /\ j # source
      BY <2>4, <2>13, <3>1, <3>2
    <3>4. i < j
      BY <2>12, <2>13, <3>1, <3>2
    <3>5. At(i) < At(j)
      BY <2>8, <3>3, <3>4
    <3> QED  BY <2>12, <3>1, <3>2, <3>5
  <2>14. IF b = None THEN Last(r) = t ELSE Position(r, b) = Position(r, t) + 1
    <3>1. r[target] = t /\ Position(r, t) = target
      <4>1. r[At(source)] = t /\ Position(r, t) = At(source)
        <5>1. Position(r, q[source]) = At(source)
          BY <2>4, <2>12
        <5> QED  BY <2>4, <2>16, <5>1
      <4> QED  BY <2>9, <4>1
    <3>2. CASE b = None
      <4>1. target = n
        BY <2>1, <2>3, <3>2 DEF MoveTarget
      <4> QED  BY <2>7, <3>1, <3>2, <4>1 DEF Last
    <3>3. CASE b # None
      <4>1. PICK j \in 1..n : j = Position(q, b) /\ q[j] = b
        BY <2>1, <2>2, <3>3, PositionFinds
      <4>2. j # source
        BY <1>1, <2>4, <4>1
      <4>3. target = IF j > source THEN j - 1 ELSE j
        BY <2>3, <3>3, <4>1 DEF MoveTarget
      <4>4. At(j) = target + 1
        BY <2>4, <4>2, <4>3 DEF At, Shifted
      <4> QED  BY <2>12, <3>1, <3>3, <4>1, <4>4
    <3> QED  BY <3>2, <3>3
  <2>15. IsInjective(r)
    BY <2>7, <2>10 DEF IsInjective
  <2> QED  BY <2>1, <2>6, <2>11, <2>13, <2>14, <2>15
<1> DEFINE Moves == \A t \in Tracks, b \in Tracks \cup {None} :
      "move" \in Inputs /\ t # b /\ IsInjective(player.queue) /\ MoveQueued(t, b) => Placed(t, b)
<1>2. Inv => [Moves]_vars
  BY <1>1
<1> QED  BY <1>2, Invariance, PTL DEF Spec, MovePlacesTrack

=============================================================================
