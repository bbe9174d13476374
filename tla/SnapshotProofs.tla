--------------------------- MODULE SnapshotProofs ---------------------------
(***************************************************************************)
(* Theorems about SnapshotPublication, for every value of its constants:   *)
(* its types, its safety invariants, and that what the store sees is the   *)
(* register of SnapshotRegister.                                           *)
(***************************************************************************)
EXTENDS SnapshotPublication, TLAPS

-----------------------------------------------------------------------------
(* The inductive invariant, in named parts.                                *)

Requests == [snapshot : Snapshots, live : BOOLEAN]

Workers == [pc : Steps, snapshot : Snapshots \cup {None}, confirmed : 0..MaxRevision \cup {-1}]

\* The types, with the snapshots and the register's definitions expanded.
Types ==
    /\ body \in Snapshots \cup {None} /\ watermark \in 0..MaxRevision \cup {-1}
    /\ requests \subseteq Requests
    /\ actor \in Snapshots \cup {None} /\ gate \in Snapshots \cup {None}
    /\ mailbox \in Snapshots \cup {None} /\ accepted \in Snapshots \cup {None}
    /\ epoch \in 0..MaxEpochs
    /\ durable \in 0..MaxRevision \cup {-1, None}
    /\ unseen \in BOOLEAN
    /\ worker \in Workers
    /\ closing \in BOOLEAN /\ shutdown \in BOOLEAN /\ crashes \in Nat

\* The worker waits for one request at most, and it is for its snapshot.
RequestsTracked ==
  \A r \in requests :
    r.live => worker.pc \in {"writing", "flushing"} /\ r.snapshot = worker.snapshot

\* The actor is never behind the mailbox, and the snapshot in the gate is the
\* actor's own and newer than what is queued.
ActorAhead ==
  /\ durable # None => epoch < MaxEpochs
  /\ actor # None => actor.rev >= Revision(mailbox)
  /\ gate # None => gate = actor /\ gate.rev > Revision(mailbox)

\* Nothing is published any more once the workers have been told to stop.
StopsInOrder ==
  /\ shutdown => closing /\ gate = None
  /\ worker.pc \in {"flush", "flushing", "flushed", "failed"} => shutdown

\* What each step of the worker knows about its snapshot and the store.
WorkerKnows ==
  /\ worker.pc \in {"writing", "answered", "flushing"} => worker.snapshot # None
  /\ worker.pc \in {"writing", "answered", "retrying", "flushing"} => mailbox # None
  /\ worker.pc = "answered" => worker.snapshot.rev <= watermark
  /\ worker.pc = "flushing" => worker.snapshot = mailbox
  /\ worker.pc = "flushed" => Revision(mailbox) <= watermark

\* As long as no process died the mailbox is ahead of every request and of the
\* store, and alone in its revision; a waiting worker that has seen it has
\* confirmed it.
NewestIsQueued ==
  crashes = 0 =>
    /\ \A r \in requests : /\ r.snapshot.rev <= Revision(mailbox)
                           /\ r.snapshot.rev = Revision(mailbox) => r.snapshot = mailbox
    /\ watermark <= Revision(mailbox)
    /\ watermark = Revision(mailbox) => body \in {mailbox, None}
    /\ worker.pc = "waiting" /\ ~unseen => Revision(mailbox) <= worker.confirmed

Inv == /\ Types
       /\ RequestsTracked
       /\ ActorAhead
       /\ StopsInOrder
       /\ WorkerKnows
       /\ AcceptedIsQueued
       /\ ConfirmedIsStored
       /\ NewestIsQueued

-----------------------------------------------------------------------------

\* None is not a snapshot, and Revision compares snapshots by their revision.
LEMMA SnapshotFacts ==
  /\ None \notin Snapshots
  /\ \A s \in Snapshots : s.rev \in 0..MaxRevision /\ Revision(s) = s.rev
  /\ Revision(None) = -1 /\ Never = -1
  /\ MaxRevision \in Nat
<1>1. Snapshots = [epoch : 1..MaxEpochs, rev : 0..MaxRevision]
  BY DEF Snapshots, Register!Snapshots, Epochs
<1>2. Never = -1
  BY DEF Never, Register!Never
<1> QED  BY <1>1, <1>2, BoundsAssumption DEF Revision

\* A worker has the fields of Workers.
LEMMA WorkerFields ==
  ASSUME NEW w \in Workers
  PROVE  /\ w.pc \in Steps
         /\ w.snapshot \in Snapshots \cup {None}
         /\ w.confirmed \in 0..MaxRevision \cup {-1}
         /\ w.confirmed \in Int
BY BoundsAssumption DEF Workers

\* The worker goes on to step p and keeps everything else.
StepTo(p) == worker' = [worker EXCEPT !.pc = p]

\* Then it is still a worker.
LEMMA StepFacts ==
  ASSUME worker \in Workers, NEW p \in Steps, StepTo(p)
  PROVE  /\ worker' \in Workers /\ worker'.pc = p
         /\ worker'.snapshot = worker.snapshot /\ worker'.confirmed = worker.confirmed
BY DEF Workers, StepTo

\* Abandoning the requests keeps their snapshots and leaves none of them live.
LEMMA AbandonedFacts ==
  ASSUME requests \subseteq Requests
  PROVE  /\ Abandoned \subseteq Requests
         /\ \A r \in Abandoned : ~r.live /\ \E q \in requests : r.snapshot = q.snapshot
BY DEF Abandoned, Requests

\* The worker gives up waiting for an answer, or waits for none.
NobodyWaits ==
  \/ requests' = Abandoned
  \/ requests' = requests /\ worker.pc \notin {"writing", "flushing"}

\* The invariant when the worker gives up waiting for an answer, or has nothing
\* to wait for, and goes on to step p.
LEMMA MoveInv ==
  ASSUME Inv, NEW p \in {"retrying", "flush", "flushed", "failed"},
         StepTo(p),
         NobodyWaits,
         p = "retrying" => mailbox # None,
         p # "retrying" => shutdown,
         p = "flushed" => Revision(mailbox) <= watermark,
         unseen' \in {unseen, FALSE},
         UNCHANGED store, UNCHANGED process, UNCHANGED control, UNCHANGED mailbox
  PROVE  Inv'
<1> USE SnapshotFacts DEF store, process, control
<1>1. /\ worker' \in Workers /\ worker'.pc = p
      /\ worker'.snapshot = worker.snapshot /\ worker'.confirmed = worker.confirmed
  BY StepFacts DEF Inv, Types, Steps
<1>2. /\ requests' \subseteq Requests
      /\ \A r \in requests' : ~r.live
      /\ \A r \in requests' : \E q \in requests : r.snapshot = q.snapshot
  BY AbandonedFacts DEF NobodyWaits, Inv, Types, RequestsTracked
<1>3. Types' /\ RequestsTracked'
  BY <1>1, <1>2 DEF Inv, Types, RequestsTracked
<1>4. ActorAhead' /\ AcceptedIsQueued' /\ ConfirmedIsStored'
  BY <1>1 DEF Inv, ActorAhead, AcceptedIsQueued, ConfirmedIsStored, Revision
<1>5. StopsInOrder' /\ WorkerKnows'
  BY <1>1 DEF Inv, StopsInOrder, WorkerKnows, Revision
<1>6. NewestIsQueued'
  BY <1>1, <1>2 DEF Inv, NewestIsQueued, Revision
<1> QED  BY <1>3, <1>4, <1>5, <1>6 DEF Inv

\* The invariant when the worker sends what is in the mailbox.
LEMMA SendInv ==
  ASSUME Inv, NEW p \in {"writing", "flushing"}, Send(p, mailbox),
         worker.pc \notin {"writing", "flushing"}, mailbox # None,
         p = "flushing" => shutdown,
         unseen' = FALSE,
         UNCHANGED store, UNCHANGED process, UNCHANGED control, UNCHANGED mailbox
  PROVE  Inv'
<1> USE SnapshotFacts DEF store, process, control
<1> DEFINE sent == [snapshot |-> mailbox, live |-> TRUE]
<1>1. /\ worker' \in Workers /\ worker'.pc = p
      /\ worker'.snapshot = mailbox /\ worker'.confirmed = worker.confirmed
  <2>1. worker \in Workers /\ p \in Steps /\ mailbox \in Snapshots \cup {None}
    BY DEF Inv, Types, Steps
  <2>2. worker' = [worker EXCEPT !.pc = p, !.snapshot = mailbox]
    BY DEF Send
  <2> QED  BY <2>1, <2>2 DEF Workers
<1>2. requests' = requests \cup {sent} /\ sent \in Requests
      /\ sent.snapshot = mailbox /\ \A r \in requests : ~r.live
  BY DEF Inv, Types, RequestsTracked, Send, Requests
<1> HIDE DEF sent
<1>3. Types' /\ RequestsTracked'
  BY <1>1, <1>2 DEF Inv, Types, RequestsTracked
<1>4. ActorAhead' /\ AcceptedIsQueued' /\ ConfirmedIsStored'
  BY <1>1 DEF Inv, ActorAhead, AcceptedIsQueued, ConfirmedIsStored, Revision
<1>5. StopsInOrder' /\ WorkerKnows'
  BY <1>1 DEF Inv, StopsInOrder, WorkerKnows, Revision
<1>6. NewestIsQueued'
  BY <1>1, <1>2 DEF Inv, Types, NewestIsQueued, Revision
<1> QED  BY <1>3, <1>4, <1>5, <1>6 DEF Inv

\* Wait: the stop signal, a snapshot that is confirmed already, a new one.
LEMMA WaitInv ==
  ASSUME Inv, Wait
  PROVE  Inv'
<1>1. ASSUME shutdown, StepTo("flush"), UNCHANGED <<requests, unseen>>
      PROVE  Inv'
  BY <1>1, MoveInv DEF Wait, NobodyWaits
<1>2. ASSUME unseen' = FALSE, mailbox # None, Send("writing", mailbox)
      PROVE  Inv'
  BY <1>2, SendInv DEF Wait
<1>3. ASSUME unseen' = FALSE, ~(mailbox # None /\ mailbox.rev > worker.confirmed),
             UNCHANGED <<requests, worker>>
      PROVE  Inv'
  <2>1. Revision(mailbox) <= worker.confirmed
    BY <1>3, SnapshotFacts, WorkerFields DEF Inv, Types
  <2>2. Types' /\ RequestsTracked' /\ ActorAhead' /\ AcceptedIsQueued' /\ ConfirmedIsStored'
    BY <1>3 DEF Wait, Inv, Types, RequestsTracked, ActorAhead, AcceptedIsQueued,
                ConfirmedIsStored, Revision, store, process, control
  <2>3. StopsInOrder' /\ WorkerKnows'
    BY <1>3 DEF Wait, Inv, StopsInOrder, WorkerKnows, Revision, store, process, control
  <2>4. NewestIsQueued'
    BY <1>3, <2>1 DEF Wait, Inv, NewestIsQueued, Revision, store, process, control
  <2> QED  BY <2>2, <2>3, <2>4 DEF Inv
<1> QED  BY <1>1, <1>2, <1>3 DEF Wait, StepTo

\* WriteDone: what is confirmed is the worker's own snapshot, which the store
\* has, not the mailbox's.
LEMMA WriteDoneInv ==
  ASSUME Inv, WriteDone
  PROVE  Inv'
<1> USE SnapshotFacts DEF store, process, control, WriteDone
<1>1. worker.snapshot \in Snapshots /\ worker.snapshot.rev <= watermark
  BY WorkerFields DEF Inv, Types, WorkerKnows
<1>2. /\ worker' \in Workers /\ worker'.pc = "waiting"
      /\ worker'.snapshot = worker.snapshot /\ worker'.confirmed = worker.snapshot.rev
  <2>1. worker \in Workers /\ "waiting" \in Steps
        /\ worker.snapshot.rev \in 0..MaxRevision \cup {-1}
    BY <1>1 DEF Inv, Types, Steps
  <2>2. worker' = [worker EXCEPT !.pc = "waiting", !.confirmed = worker.snapshot.rev]
    BY DEF Confirm
  <2> QED  BY <2>1, <2>2 DEF Workers
<1>3. Types' /\ RequestsTracked'
  BY <1>2 DEF Inv, Types, RequestsTracked
<1>4. ActorAhead' /\ AcceptedIsQueued' /\ ConfirmedIsStored'
  BY <1>1, <1>2 DEF Inv, ActorAhead, AcceptedIsQueued, ConfirmedIsStored, Revision
<1>5. StopsInOrder' /\ WorkerKnows'
  BY <1>2 DEF Inv, StopsInOrder, WorkerKnows, Revision
<1>6. NewestIsQueued'
  <2>1. mailbox \in Snapshots /\ mailbox.rev \in Int /\ worker.snapshot.rev \in Int
    BY <1>1, BoundsAssumption DEF Inv, Types, WorkerKnows
  <2>2. ~unseen' => ~(mailbox.rev > worker.snapshot.rev)
    BY Zenon
  <2>3. ~unseen' => Revision(mailbox) <= worker.snapshot.rev
    BY <2>1, <2>2
  <2> QED  BY <1>1, <1>2, <2>1, <2>3 DEF Inv, NewestIsQueued, Revision
<1> QED  BY <1>3, <1>4, <1>5, <1>6 DEF Inv

\* Retry sends again what is now in the mailbox.
LEMMA RetryInv ==
  ASSUME Inv, Retry
  PROVE  Inv'
BY SendInv DEF Retry, Inv, WorkerKnows

\* Interrupt: the stop signal sends the worker to its flush.
LEMMA InterruptInv ==
  ASSUME Inv, Interrupt
  PROVE  Inv'
<1>1. unseen' \in {unseen, FALSE}
  BY DEF Interrupt, Inv, Types
<1>2. UNCHANGED store /\ UNCHANGED process /\ UNCHANGED control /\ UNCHANGED mailbox
  BY DEF Interrupt
<1>3. StepTo("flush") /\ shutdown /\ NobodyWaits
  BY DEF Interrupt, StepTo, NobodyWaits
<1> QED  BY <1>1, <1>2, <1>3, MoveInv

\* FlushOnShutdown writes what is not confirmed; what is confirmed is stored.
LEMMA FlushOnShutdownInv ==
  ASSUME Inv, FlushOnShutdown
  PROVE  Inv'
<1>1. CASE Revision(mailbox) > worker.confirmed
  <2>1. mailbox # None
    BY <1>1, SnapshotFacts, WorkerFields DEF Inv, Types
  <2> QED  BY <1>1, <2>1, SendInv DEF FlushOnShutdown, Inv, StopsInOrder
<1>2. CASE ~(Revision(mailbox) > worker.confirmed)
  <2>1. Revision(mailbox) <= watermark
    BY <1>2, SnapshotFacts, WorkerFields DEF Inv, Types, ConfirmedIsStored
  <2> QED  BY <1>2, <2>1, MoveInv DEF FlushOnShutdown, StepTo, NobodyWaits, Inv, StopsInOrder
<1> QED  BY <1>1, <1>2

\* WriteFails and FlushFails abandon the request.
LEMMA FailureInv ==
  ASSUME Inv, WriteFails \/ FlushFails
  PROVE  Inv'
<1>1. /\ unseen' \in {unseen, FALSE} /\ NobodyWaits
      /\ UNCHANGED store /\ UNCHANGED process /\ UNCHANGED control /\ UNCHANGED mailbox
  BY DEF WriteFails, FlushFails, NobodyWaits
<1>2. CASE WriteFails
  <2>1. mailbox # None
    BY <1>2 DEF WriteFails, Inv, WorkerKnows
  <2> QED  BY <1>1, <1>2, <2>1, MoveInv DEF WriteFails, StepTo
<1>3. CASE FlushFails
  <2>1. shutdown
    BY <1>3 DEF FlushFails, Inv, StopsInOrder
  <2> QED  BY <1>1, <1>3, <2>1, MoveInv DEF FlushFails, StepTo
<1> QED  BY <1>2, <1>3

\* Restart forgets everything but the store, the epoch and the abandoned
\* requests.
LEMMA RestartInv ==
  ASSUME Inv, Restart
  PROVE  Inv'
<1> USE SnapshotFacts DEF store, process, control, Restart
<1>1. /\ worker' \in Workers /\ worker'.pc = "waiting"
      /\ worker'.snapshot = None /\ worker'.confirmed = -1
  BY DEF FreshWorker, Workers, Steps
<1>2. requests' \subseteq Requests /\ \A r \in requests' : ~r.live
  BY AbandonedFacts DEF Inv, Types
<1>3. Types' /\ RequestsTracked'
  <2>1. Types'
    <3>1. crashes' \in Nat /\ body' = body /\ watermark' = watermark /\ epoch' = epoch
      BY BoundsAssumption DEF Inv, Types
    <3>2. {unseen', closing', shutdown'} \subseteq BOOLEAN
      OBVIOUS
    <3> QED  BY <1>1, <1>2, <3>1, <3>2 DEF Inv, Types
  <2>2. RequestsTracked'
    BY <1>1, <1>2 DEF RequestsTracked
  <2> QED  BY <2>1, <2>2
<1>4. crashes' # 0
  BY DEF Inv, Types
<1> QED
  BY <1>1, <1>3, <1>4
  DEF Inv, Types, ActorAhead, StopsInOrder, WorkerKnows, AcceptedIsQueued, ConfirmedIsStored,
      NewestIsQueued, Revision

\* ReadDurable: the factory reads the watermark.
LEMMA ReadDurableInv ==
  ASSUME Inv, ReadDurable
  PROVE  Inv'
<1> USE DEF Inv, ReadDurable, store
<1>1. Types'
  BY DEF Types, control
<1>2. RequestsTracked' /\ StopsInOrder' /\ WorkerKnows'
  BY DEF control, RequestsTracked, StopsInOrder, WorkerKnows
<1>3. ActorAhead' /\ AcceptedIsQueued' /\ ConfirmedIsStored'
  BY DEF ActorAhead, AcceptedIsQueued, ConfirmedIsStored
<1>4. NewestIsQueued'
  BY DEF control, NewestIsQueued
<1> QED  BY <1>1, <1>2, <1>3, <1>4 DEF Inv

\* StartActor: the new actor starts above the watermark it read and above the mailbox.
LEMMA StartActorInv ==
  ASSUME Inv, StartActor
  PROVE  Inv'
<1> USE DEF Inv, StartActor, store
<1>1. Types'
  BY SnapshotFacts, BoundsAssumption DEF Types, control, ActorAhead, NewestRevision, HasNext,
     Snapshots, Register!Snapshots, Epochs
<1>2. RequestsTracked' /\ StopsInOrder' /\ WorkerKnows'
  BY DEF control, RequestsTracked, StopsInOrder, WorkerKnows
<1>3. ActorAhead' /\ AcceptedIsQueued' /\ ConfirmedIsStored'
  BY SnapshotFacts DEF Types, ActorAhead, AcceptedIsQueued, ConfirmedIsStored, NewestRevision
<1>4. NewestIsQueued'
  BY DEF control, NewestIsQueued
<1> QED  BY <1>1, <1>2, <1>3, <1>4 DEF Inv

\* Publish: the next revision is ahead of the mailbox.
LEMMA PublishInv ==
  ASSUME Inv, Publish
  PROVE  Inv'
<1> USE DEF Inv, Publish, store
<1>1. Types'
  BY BoundsAssumption DEF Types, control, HasNext, Snapshots, Register!Snapshots
<1>2. RequestsTracked' /\ StopsInOrder' /\ WorkerKnows'
  BY DEF control, RequestsTracked, StopsInOrder, WorkerKnows
<1>3. ActorAhead' /\ AcceptedIsQueued' /\ ConfirmedIsStored'
  BY SnapshotFacts DEF Types, ActorAhead, AcceptedIsQueued, ConfirmedIsStored
<1>4. NewestIsQueued'
  BY DEF control, NewestIsQueued
<1> QED  BY <1>1, <1>2, <1>3, <1>4 DEF Inv

\* EndActor: the actor goes; its snapshots stay queued.
LEMMA EndActorInv ==
  ASSUME Inv, EndActor
  PROVE  Inv'
<1> USE DEF Inv, EndActor, store
<1>1. Types'
  BY DEF Types, control
<1>2. RequestsTracked' /\ StopsInOrder' /\ WorkerKnows'
  BY DEF control, RequestsTracked, StopsInOrder, WorkerKnows
<1>3. ActorAhead' /\ AcceptedIsQueued' /\ ConfirmedIsStored'
  BY DEF ActorAhead, AcceptedIsQueued, ConfirmedIsStored
<1>4. NewestIsQueued'
  BY DEF control, NewestIsQueued
<1> QED  BY <1>1, <1>2, <1>3, <1>4 DEF Inv

\* Enqueue: the gate's snapshot is newer than the mailbox, and replaces it.
LEMMA EnqueueInv ==
  ASSUME Inv, Enqueue
  PROVE  Inv'
<1> USE DEF Inv, Enqueue, store
<1>1. Types'
  BY DEF Types, control
<1>2. RequestsTracked' /\ StopsInOrder' /\ WorkerKnows'
  BY DEF control, RequestsTracked, StopsInOrder, WorkerKnows
<1>3. ActorAhead' /\ AcceptedIsQueued' /\ ConfirmedIsStored'
  BY SnapshotFacts DEF Types, ActorAhead, AcceptedIsQueued, ConfirmedIsStored
<1>4. NewestIsQueued'
  BY SnapshotFacts DEF Types, control, NewestIsQueued, Requests
<1> QED  BY <1>1, <1>2, <1>3, <1>4 DEF Inv

\* Arrive: the store takes the snapshot if it is newer.
LEMMA ArriveInv ==
  ASSUME Inv, NEW r \in requests, Arrive(r)
  PROVE  Inv'
<1> USE DEF Inv, Arrive, PutSnapshot, store
<1>1. Types'
  BY SnapshotFacts DEF Types, process, control, Steps, Requests, Workers
<1>2. RequestsTracked' /\ StopsInOrder' /\ WorkerKnows'
  BY SnapshotFacts DEF Types, process, control, RequestsTracked, StopsInOrder, WorkerKnows,
     Requests, Workers
<1>3. ActorAhead' /\ AcceptedIsQueued' /\ ConfirmedIsStored'
  BY SnapshotFacts DEF Types, process, ActorAhead, AcceptedIsQueued, ConfirmedIsStored,
     Requests, Workers
<1>4. NewestIsQueued'
  BY DEF control, NewestIsQueued
<1> QED  BY <1>1, <1>2, <1>3, <1>4 DEF Inv

\* Lose: an abandoned request disappears.
LEMMA LoseInv ==
  ASSUME Inv, NEW r \in requests, Lose(r)
  PROVE  Inv'
<1> USE DEF Inv, Lose, store
<1>1. Types'
  BY DEF Types, process, control
<1>2. RequestsTracked' /\ StopsInOrder' /\ WorkerKnows'
  BY DEF process, control, RequestsTracked, StopsInOrder, WorkerKnows
<1>3. ActorAhead' /\ AcceptedIsQueued' /\ ConfirmedIsStored'
  BY DEF process, ActorAhead, AcceptedIsQueued, ConfirmedIsStored
<1>4. NewestIsQueued'
  BY DEF control, NewestIsQueued
<1> QED  BY <1>1, <1>2, <1>3, <1>4 DEF Inv

\* Expire: the body goes, the watermark stays.
LEMMA ExpireInv ==
  ASSUME Inv, Expire
  PROVE  Inv'
<1> USE DEF Inv, Expire
<1>1. Types'
  BY DEF Types, process, control
<1>2. RequestsTracked' /\ StopsInOrder' /\ WorkerKnows'
  BY DEF process, control, RequestsTracked, StopsInOrder, WorkerKnows
<1>3. ActorAhead' /\ AcceptedIsQueued' /\ ConfirmedIsStored'
  BY DEF process, ActorAhead, AcceptedIsQueued, ConfirmedIsStored
<1>4. NewestIsQueued'
  BY DEF control, NewestIsQueued
<1> QED  BY <1>1, <1>2, <1>3, <1>4 DEF Inv

\* Close: the supervisor closes; the gate may still hold a snapshot.
LEMMA CloseInv ==
  ASSUME Inv, Close
  PROVE  Inv'
<1> USE DEF Inv, Close, store
<1>1. Types'
  BY DEF Types, process
<1>2. RequestsTracked' /\ StopsInOrder' /\ WorkerKnows'
  BY DEF RequestsTracked, StopsInOrder, WorkerKnows
<1>3. ActorAhead' /\ AcceptedIsQueued' /\ ConfirmedIsStored'
  BY DEF process, ActorAhead, AcceptedIsQueued, ConfirmedIsStored
<1>4. NewestIsQueued'
  BY DEF NewestIsQueued
<1> QED  BY <1>1, <1>2, <1>3, <1>4 DEF Inv

\* Signal: the workers are told once the gate is empty.
LEMMA SignalInv ==
  ASSUME Inv, Signal
  PROVE  Inv'
<1> USE DEF Inv, Signal, store
<1>1. Types'
  BY DEF Types, process
<1>2. RequestsTracked' /\ StopsInOrder' /\ WorkerKnows'
  BY DEF process, RequestsTracked, StopsInOrder, WorkerKnows
<1>3. ActorAhead' /\ AcceptedIsQueued' /\ ConfirmedIsStored'
  BY DEF process, ActorAhead, AcceptedIsQueued, ConfirmedIsStored
<1>4. NewestIsQueued'
  BY DEF NewestIsQueued
<1> QED  BY <1>1, <1>2, <1>3, <1>4 DEF Inv

-----------------------------------------------------------------------------
(* The theorems.                                                           *)

\* The invariant holds when the process starts for the first time.
LEMMA InitInv == Init => Inv
<1> SUFFICES ASSUME Init PROVE Inv
  OBVIOUS
<1> USE SnapshotFacts, BoundsAssumption DEF Init
<1>1. Types
  <2>1. worker \in Workers
    BY DEF FreshWorker, Workers, Steps
  <2>2. {unseen, closing, shutdown} \subseteq BOOLEAN
    OBVIOUS
  <2>3. crashes \in Nat /\ epoch \in 0..MaxEpochs
    OBVIOUS
  <2> QED  BY <2>1, <2>2, <2>3 DEF Types
<1>2. RequestsTracked /\ ActorAhead /\ StopsInOrder /\ WorkerKnows
  BY DEF RequestsTracked, ActorAhead, StopsInOrder, WorkerKnows, FreshWorker
<1>3. AcceptedIsQueued /\ ConfirmedIsStored /\ NewestIsQueued
  BY DEF AcceptedIsQueued, ConfirmedIsStored, NewestIsQueued, FreshWorker
<1> QED  BY <1>1, <1>2, <1>3 DEF Inv

\* Every step of the actor, the worker, the store and the process keeps it.
LEMMA StepInv == Inv /\ [Next]_vars => Inv'
<1>1. ASSUME Inv, Next PROVE Inv'
  <2>1. CASE Work
    BY <1>1, <2>1, WaitInv, WriteDoneInv, RetryInv, InterruptInv, FlushOnShutdownInv DEF Work
  <2>2. ASSUME NEW r \in requests, Arrive(r) \/ Lose(r) PROVE Inv'
    BY <1>1, <2>2, ArriveInv, LoseInv
  <2> QED
    BY <1>1, <2>1, <2>2, ReadDurableInv, StartActorInv, PublishInv, EndActorInv, EnqueueInv,
       FailureInv, ExpireInv, CloseInv, SignalInv, RestartInv
    DEF Next
<1>2. ASSUME Inv, UNCHANGED vars PROVE Inv'
  BY <1>2 DEF vars, Inv, Types, RequestsTracked, ActorAhead, StopsInOrder, WorkerKnows,
              AcceptedIsQueued, ConfirmedIsStored, NewestIsQueued, Revision
<1> QED  BY <1>1, <1>2

\* The inductive invariant holds in every reachable state.
THEOREM Invariance == Spec => []Inv
BY InitInv, StepInv, PTL DEF Spec

\* Every variable of the publication path keeps its type.
THEOREM TypeCorrect == Spec => []TypeOK
<1>1. Inv => TypeOK
  BY DEF Inv, Types, Requests, Workers, TypeOK, Register!TypeOK, Snapshots, Never, Register!Never
<1> QED  BY <1>1, Invariance, PTL

\* A snapshot whose publish call succeeded is the one in the mailbox: no actor
\* incarnation starts at a revision the mailbox would drop.
THEOREM AcceptedSnapshotIsQueued == Spec => []AcceptedIsQueued
<1>1. Inv => AcceptedIsQueued
  BY DEF Inv
<1> QED  BY <1>1, Invariance, PTL

\* What flush_on_shutdown reports as written is in the store, the snapshot of a
\* publish call that was past the closed check included.
THEOREM FlushIsComplete == Spec => []FlushedOnShutdown
<1>1. Inv => FlushedOnShutdown
  BY SnapshotFacts
  DEF Inv, Types, WorkerKnows, AcceptedIsQueued, FlushedOnShutdown, Revision
<1> QED  BY <1>1, Invariance, PTL

\* The worker confirms no revision the store does not have.
THEOREM NothingConfirmedTooSoon == Spec => []ConfirmedIsStored
<1>1. Inv => ConfirmedIsStored
  BY DEF Inv
<1> QED  BY <1>1, Invariance, PTL

\* An idle worker has brought the latest snapshot into the store, as long as no
\* process died.
THEOREM IdleWorkerIsDone == Spec => []SettledIsLatest
<1>1. Inv => SettledIsLatest
  <2> SUFFICES ASSUME Inv, crashes = 0, worker.pc = "waiting", ~unseen, mailbox # None
               PROVE  watermark = mailbox.rev /\ body \in {mailbox, None}
    BY DEF SettledIsLatest
  <2>1. Revision(mailbox) = mailbox.rev /\ mailbox.rev \in Int /\ watermark \in Int
        /\ worker.confirmed \in Int
    BY SnapshotFacts, WorkerFields DEF Inv, Types
  <2>2. mailbox.rev <= worker.confirmed /\ watermark <= mailbox.rev
    BY <2>1 DEF Inv, NewestIsQueued
  <2>3. watermark = mailbox.rev
    BY <2>1, <2>2 DEF Inv, ConfirmedIsStored
  <2> QED  BY <2>1, <2>3 DEF Inv, NewestIsQueued
<1> QED  BY <1>1, Invariance, PTL

-----------------------------------------------------------------------------
(* The refinement.                                                         *)

\* put_snapshot_if_newer is the register's Put: its script compares the other
\* way round.
LEMMA ArrivePuts ==
  ASSUME Inv, NEW r \in requests, Arrive(r)
  PROVE  \E s \in Register!Snapshots : Register!Put(s)
<1>1. r.snapshot \in Snapshots /\ r.snapshot.rev \in Int /\ watermark \in Int
  BY SnapshotFacts DEF Inv, Types, Requests
<1>2. Register!Put(r.snapshot)
  BY <1>1 DEF Arrive, PutSnapshot, store, Register!Put, Register!register
<1> QED  BY <1>1, <1>2 DEF Snapshots

\* Every step is a Put, an Expire or no step at all of the register.
LEMMA StepImplements == Inv /\ [Next]_vars => [Register!Next]_(Register!register)
<1> USE DEF Register!register, store
<1>1. ASSUME Inv, Next PROVE Register!Next \/ UNCHANGED store
  <2>1. ASSUME NEW r \in requests, Arrive(r) PROVE Register!Next
    BY <1>1, <2>1, ArrivePuts DEF Register!Next
  <2>2. CASE Expire
    BY <2>2 DEF Expire, Register!Expire, Register!Next
  <2>3. ASSUME NEW r \in requests, Lose(r) PROVE UNCHANGED store
    BY <2>3 DEF Lose
  <2>4. CASE Work
    BY <2>4 DEF Work, Wait, WriteDone, Retry, Interrupt, FlushOnShutdown
  <2>5. CASE ReadDurable \/ StartActor \/ Publish \/ EndActor \/ Enqueue
    BY <2>5 DEF ReadDurable, StartActor, Publish, EndActor, Enqueue
  <2>6. CASE WriteFails \/ FlushFails \/ Close \/ Signal \/ Restart
    BY <2>6 DEF WriteFails, FlushFails, Close, Signal, Restart
  <2> QED  BY <1>1, <2>1, <2>2, <2>3, <2>4, <2>5, <2>6 DEF Next
<1>2. ASSUME UNCHANGED vars PROVE UNCHANGED store
  BY <1>2 DEF vars
<1> QED  BY <1>1, <1>2

\* The snapshot cache is the register of SnapshotRegister for every number of
\* incarnations, revisions, requests and crashes.
THEOREM CacheImplementsRegister == Spec => ImplementsRegister
<1>1. Init => Register!Init
  BY DEF Init, Register!Init, Never
<1> QED  BY <1>1, StepImplements, Invariance, PTL DEF Spec, ImplementsRegister, Register!Spec

=============================================================================
