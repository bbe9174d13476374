------------------------ MODULE SnapshotPublication ------------------------
(***************************************************************************)
(* How the state of one guild's player reaches the snapshot cache.  Actor  *)
(* incarnations follow one another; each puts its snapshots into the same  *)
(* latest-wins mailbox, from which the guild's worker writes them to       *)
(* Valkey, retrying until the store answers.  Shutdown closes the mailbox  *)
(* and has the worker flush it; a crash loses everything but the store and *)
(* the requests already sent to it.                                        *)
(*                                                                         *)
(* A request whose answer the worker no longer waits for (a timeout, a     *)
(* shutdown, a crash) may still reach the store, later and out of order.   *)
(***************************************************************************)
EXTENDS Integers, FiniteSets

CONSTANTS MaxEpochs,   \* bound on the incarnations of the actor
          None,
          MaxRevision, \* largest StateRevision (u64::MAX in the code)
          MaxRequests, \* bound on the requests under way to the store
          MaxCrashes   \* bound on crashes of the process

ASSUME BoundsAssumption ==
  /\ {MaxEpochs, MaxRevision, MaxRequests, MaxCrashes} \subseteq Nat
  /\ None \notin [epoch : Nat, rev : Nat] \cup Int

VARIABLES
  body, watermark, \* the store
  requests,  \* writes under way; live while the worker waits for the answer
  actor,     \* the last state of the running actor, or None
  epoch,     \* incarnations so far
  durable,   \* the watermark the factory has read for the next actor, or None
  gate,      \* the snapshot whose publish call holds the publish gate, or None
  mailbox,   \* the worker's watch channel
  unseen,    \* the channel has changed since the worker last looked
  accepted,  \* history: the last snapshot whose publish call succeeded
  worker,    \* the worker task: pc, the snapshot it works on, last confirmed
  closing,   \* the supervisor is closed to publishers
  shutdown,  \* the workers have been told to stop
  crashes

store   == <<body, watermark>>
process == <<actor, epoch, durable, gate, accepted>>
control == <<closing, shutdown, crashes>>
vars    == <<body, watermark, requests, actor, epoch, durable, gate, mailbox,
             unseen, accepted, worker, closing, shutdown, crashes>>

Epochs == 1..MaxEpochs

Register == INSTANCE SnapshotRegister WITH body <- body, watermark <- watermark

Snapshots == Register!Snapshots
Never     == Register!Never
Steps     == {"waiting", "writing", "answered", "retrying", "flush", "flushing",
              "flushed", "failed"}

TypeOK ==
  /\ Register!TypeOK
  /\ requests \subseteq [snapshot : Snapshots, live : BOOLEAN]
  /\ {actor, gate, mailbox, accepted} \subseteq Snapshots \cup {None}
  /\ epoch \in 0..MaxEpochs
  /\ durable \in 0..MaxRevision \cup {Never, None}
  /\ unseen \in BOOLEAN
  /\ worker \in [pc : Steps, snapshot : Snapshots \cup {None}, confirmed : 0..MaxRevision \cup {Never}]
  /\ closing \in BOOLEAN /\ shutdown \in BOOLEAN
  /\ crashes \in Nat

-----------------------------------------------------------------------------
(* The factory and the actor.                                              *)

\* checked_next: the last revision has no successor.
HasNext(r) == r < MaxRevision

Revision(s) == IF s = None THEN Never ELSE s.rev

ReadDurable ==
  /\ actor = None /\ durable = None /\ ~closing
  /\ epoch < MaxEpochs
  /\ durable' = watermark
  /\ UNCHANGED <<store, requests, actor, epoch, gate, mailbox, unseen, accepted, worker, control>>

NewestDurable == durable

\* The durable watermark joined with the volatile one, the mailbox's.
NewestRevision == IF durable > Revision(mailbox) THEN durable ELSE Revision(mailbox)

\* next_actor_revision continues after both; the new actor publishes its first
\* snapshot at once, unless shutdown comes before.
StartActor ==
  LET first == [epoch |-> epoch + 1, rev |-> NewestRevision + 1]
  IN /\ actor = None /\ durable # None /\ HasNext(NewestRevision)
     /\ actor' = first /\ epoch' = epoch + 1 /\ durable' = None
     /\ gate' = IF closing THEN None ELSE first
     /\ UNCHANGED <<store, requests, mailbox, unseen, accepted, worker, control>>

\* The actor commits a change and calls publish: closed means an error.
Publish ==
  LET next == [actor EXCEPT !.rev = @ + 1]
  IN /\ actor # None /\ gate = None /\ HasNext(actor.rev)
     /\ actor' = next
     /\ gate' = IF closing THEN None ELSE next
     /\ UNCHANGED <<store, requests, epoch, durable, mailbox, unseen, accepted, worker, control>>

EndActor == /\ actor # None /\ gate = None
            /\ actor' = None
            /\ UNCHANGED <<store, requests, epoch, durable, gate, mailbox, unseen, accepted,
                           worker, control>>

\* The rest of publish: past the check, the snapshot goes into the mailbox.
Enqueue ==
  /\ gate # None
  /\ gate' = None /\ accepted' = gate
  /\ IF gate.rev > Revision(mailbox)
     THEN mailbox' = gate /\ unseen' = TRUE
     ELSE UNCHANGED <<mailbox, unseen>>
  /\ UNCHANGED <<store, requests, actor, epoch, durable, worker, control>>

-----------------------------------------------------------------------------
(* The guild's worker.                                                     *)

\* Send a write and wait for its answer in step pc.
Send(pc, s) ==
  /\ Cardinality(requests) < MaxRequests
  /\ requests' = requests \cup {[snapshot |-> s, live |-> TRUE]}
  /\ worker' = [worker EXCEPT !.pc = pc, !.snapshot = s]

\* Nobody waits for the live request any more; it may still arrive.
Abandoned == {[r EXCEPT !.live = FALSE] : r \in requests}

\* wait_for_new_snapshot: the stop signal goes first.
Wait == /\ worker.pc = "waiting"
        /\ UNCHANGED <<store, process, control, mailbox>>
        /\ \/ /\ shutdown
              /\ worker' = [worker EXCEPT !.pc = "flush"]
              /\ UNCHANGED <<requests, unseen>>
           \/ /\ ~shutdown /\ unseen
              /\ unseen' = FALSE
              /\ IF mailbox # None /\ mailbox.rev > worker.confirmed
                 THEN Send("writing", mailbox)
                 ELSE UNCHANGED <<requests, worker>>

ConfirmLatest == worker' = [worker EXCEPT !.pc = "waiting", !.confirmed = mailbox.rev]

Confirm == worker' = [worker EXCEPT !.pc = "waiting", !.confirmed = worker.snapshot.rev]

WriteDoneAllSeen ==
  /\ worker.pc = "answered" /\ ~shutdown
  /\ Confirm
  /\ unseen' = FALSE
  /\ UNCHANGED <<store, requests, process, control, mailbox>>

\* The answer is there, Stored or Stale; on to a newer snapshot, if any.
WriteDone ==
  /\ worker.pc = "answered" /\ ~shutdown
  /\ Confirm
  /\ unseen' = (mailbox.rev > worker.snapshot.rev)
  /\ UNCHANGED <<store, requests, process, control, mailbox>>

WriteFailsForGood ==
  /\ worker.pc = "writing"
  /\ requests' = Abandoned
  /\ worker' = [worker EXCEPT !.pc = "waiting"]
  /\ UNCHANGED <<store, process, control, mailbox, unseen>>

\* The write fails or times out: back off.
WriteFails ==
  /\ worker.pc = "writing"
  /\ requests' = Abandoned
  /\ worker' = [worker EXCEPT !.pc = "retrying"]
  /\ UNCHANGED <<store, process, control, mailbox, unseen>>

Retry ==
  /\ worker.pc = "retrying" /\ ~shutdown
  /\ unseen' = FALSE
  /\ Send("writing", mailbox)
  /\ UNCHANGED <<store, process, control, mailbox>>

\* The stop signal interrupts a write, even an answered one, and a back-off.
Interrupt ==
  /\ worker.pc \in {"writing", "answered", "retrying"} /\ shutdown
  /\ requests' = Abandoned
  /\ worker' = [worker EXCEPT !.pc = "flush"]
  /\ UNCHANGED <<store, process, control, mailbox, unseen>>

FlushOnShutdown ==
  /\ worker.pc = "flush"
  /\ unseen' = FALSE
  /\ IF Revision(mailbox) > worker.confirmed
     THEN Send("flushing", mailbox)
     ELSE /\ worker' = [worker EXCEPT !.pc = "flushed"]
          /\ UNCHANGED requests
  /\ UNCHANGED <<store, process, control, mailbox>>

FlushFails ==
  /\ worker.pc = "flushing"
  /\ requests' = Abandoned
  /\ worker' = [worker EXCEPT !.pc = "failed"]
  /\ UNCHANGED <<store, process, control, mailbox, unseen>>

-----------------------------------------------------------------------------
(* The store, the supervisor and the process.                              *)

PutUnguarded(s) == body' = s /\ watermark' = s.rev

\* The Lua script of put_snapshot_if_newer.
PutSnapshot(s) == IF watermark >= s.rev
                  THEN UNCHANGED store
                  ELSE body' = s /\ watermark' = s.rev

\* A request reaches the store and, if the worker still waits, is answered.
Arrive(r) ==
  /\ requests' = requests \ {r}
  /\ PutSnapshot(r.snapshot)
  /\ worker' = IF r.live
               THEN [worker EXCEPT !.pc = IF @ = "writing" THEN "answered" ELSE "flushed"]
               ELSE worker
  /\ UNCHANGED <<process, control, mailbox, unseen>>

\* An abandoned request never reaches the store.
Lose(r) == /\ ~r.live
           /\ requests' = requests \ {r}
           /\ UNCHANGED <<store, process, control, mailbox, unseen, worker>>

Expire == /\ body # None
          /\ body' = None /\ UNCHANGED watermark
          /\ UNCHANGED <<requests, process, control, mailbox, unseen, worker>>

\* shutdown closes the supervisor, waits for publish calls already past the
\* check, and only then tells the workers.
Close == /\ ~closing
         /\ closing' = TRUE
         /\ UNCHANGED <<store, requests, process, mailbox, unseen, worker, shutdown, crashes>>

SignalAtOnce == /\ closing /\ ~shutdown
                /\ shutdown' = TRUE
                /\ UNCHANGED <<store, requests, process, mailbox, unseen, worker, closing, crashes>>

Signal == /\ closing /\ ~shutdown /\ gate = None
          /\ shutdown' = TRUE
          /\ UNCHANGED <<store, requests, process, mailbox, unseen, worker, closing, crashes>>

FreshWorker == [pc |-> "waiting", snapshot |-> None, confirmed |-> Never]

\* The process dies, or has shut down, and another takes its place.
Restart ==
  /\ crashes < MaxCrashes
  /\ crashes' = crashes + 1
  /\ requests' = Abandoned
  /\ actor' = None /\ durable' = None /\ gate' = None /\ accepted' = None
  /\ mailbox' = None /\ unseen' = FALSE /\ worker' = FreshWorker
  /\ closing' = FALSE /\ shutdown' = FALSE
  /\ UNCHANGED <<store, epoch>>

Init ==
  /\ body = None /\ watermark = Never
  /\ requests = {} /\ actor = None /\ epoch = 0 /\ durable = None /\ gate = None
  /\ mailbox = None /\ unseen = FALSE /\ accepted = None
  /\ worker = FreshWorker
  /\ closing = FALSE /\ shutdown = FALSE /\ crashes = 0

Work == Wait \/ WriteDone \/ Retry \/ Interrupt \/ FlushOnShutdown

Answer == \E r \in requests : r.live /\ Arrive(r)

Next ==
  \/ ReadDurable \/ StartActor \/ Publish \/ EndActor \/ Enqueue
  \/ Work \/ WriteFails \/ FlushFails
  \/ \E r \in requests : Arrive(r) \/ Lose(r)
  \/ Expire \/ Close \/ Signal \/ Restart

Spec == Init /\ [][Next]_vars

\* The worker task is polled, lost requests make room for new ones, and the
\* store answers in time every now and then.
FairSpec == Spec /\ WF_vars(Work) /\ SF_vars(Answer) /\ WF_vars(Enqueue)
                 /\ WF_vars(\E r \in requests : Lose(r))


-----------------------------------------------------------------------------
(* Properties.                                                             *)

\* The cache is a register ordered by revision whatever happens to the actor,
\* the worker and the process: writes that arrive late, twice or out of order
\* never move it back, and no revision names two snapshots.
ImplementsRegister == Register!Spec

\* A snapshot whose publication succeeded is the one the worker will write: a
\* recreated actor never starts below a revision that is still retrying
\* (latest_revision in next_actor_revision), where it would be dropped.
AcceptedIsQueued == accepted # None => mailbox = accepted

\* Shutdown reports success only when every accepted snapshot is in the store,
\* also one whose publish call was already past the closed check.
FlushedOnShutdown ==
  worker.pc = "flushed" /\ accepted # None => watermark >= accepted.rev

\* What the worker counts as confirmed is in the store: a snapshot accepted
\* during the write is not confirmed with it.
ConfirmedIsStored == worker.confirmed <= watermark

\* Once the worker has nothing left to do the store holds the latest snapshot
\* itself, or its body has expired.  A process that replaced another is not
\* covered: a write of the dead one may arrive after the new actor has read the
\* watermark and take the very revision that actor starts with.
SettledIsLatest ==
  crashes = 0 /\ worker.pc = "waiting" /\ ~unseen /\ mailbox # None
    => watermark = mailbox.rev /\ body \in {mailbox, None}

\* Every accepted snapshot, or a newer one, gets into the store unless the
\* final write failed or the process died: outages only delay it.
EventuallyStored ==
  \A r \in 0..MaxRevision :
    accepted # None /\ accepted.rev = r
      ~> watermark >= r \/ worker.pc = "failed" \/ accepted = None

=============================================================================
