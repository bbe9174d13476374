------------------------ MODULE SettingsPersistence ------------------------
(***************************************************************************)
(* How volume, HRIR preset and spatial audio of one guild survive its      *)
(* player.  The factory seeds a new actor with the durable row and with    *)
(* what is still on its way there; the actor's publisher queues changed    *)
(* settings in a latest-wins mailbox; the guild's worker writes them with  *)
(* a compare-and-swap on the row's revision, retrying until it succeeds.   *)
(*                                                                         *)
(* An update the worker has given up waiting for may still reach the       *)
(* database, later and out of order.                                       *)
(***************************************************************************)
EXTENDS Integers, FiniteSets

CONSTANTS Values,      \* PersistentPlayerSettings
          Retired,     \* those whose HRIR preset has left the catalog
          Default,     \* what the factory replaces a retired preset with
          None,
          MaxTries,    \* attempts of one persist_latest (8 in the code)
          MaxRequests, \* bound on the updates under way to the database
          MaxRevision, \* bound on the actor revisions that change settings
          MaxCrashes   \* bound on restarts of the process

ASSUME SettingsAssumption ==
  /\ {MaxTries, MaxRequests, MaxRevision, MaxCrashes} \subseteq Nat
  /\ Retired \subseteq Values
  /\ Default \in Values \ Retired

VARIABLES
  row,      \* the database row: value, revision, and (history) the actor
            \* revision whose settings it holds
  requests, \* updates under way; live while the worker waits for the answer
  landed,   \* history: an update nobody waited for has changed the row
  revision, \* the newest actor revision
  factory,  \* the actor being created: pc, the row read, the settings chosen
  actor,    \* the running actor's settings, or None
  publisher, \* SettingsSnapshotPublisher
  gate,     \* an update past the publisher's closed check, or None
  mailbox,  \* SettingsWorkerState
  unseen,   \* the mailbox has changed since the worker last looked
  accepted, \* history: the last settings whose publish call succeeded
  worker,   \* the guild's worker task, or None
  closing,  \* begin_shutdown
  crashes

database == <<row, requests, landed>>
process  == <<revision, factory, actor, publisher, gate, accepted>>
control  == <<closing, crashes>>
vars     == <<row, requests, landed, revision, factory, actor, publisher, gate, mailbox,
              unseen, accepted, worker, closing, crashes>>

Updates == [value : Values, of : 1..MaxRevision]
Rows    == [value : Values, rev : Nat, of : 0..MaxRevision]
Steps   == {"top", "waiting", "writing", "reading", "persisted", "backoff", "done", "failed"}
Workers == [pc : Steps, current : Rows, read : Rows, update : Updates \cup {None},
            tries : 0..MaxTries, final : BOOLEAN]

ASSUME NoneAssumption == None \notin Values \cup Updates \cup Workers

TypeOK ==
  /\ row \in Rows
  /\ requests \subseteq [value : Values, of : 1..MaxRevision, expected : Nat, live : BOOLEAN]
  /\ landed \in BOOLEAN
  /\ revision \in 0..MaxRevision
  /\ factory \in [pc : {"none"}] \cup [pc : {"row"}, seed : Rows]
                 \cup [pc : {"view"}, seed : Rows, initial : Values]
  /\ {actor, accepted} \subseteq (Values \ Retired) \cup {None}
  /\ publisher \in [armed : BOOLEAN, initial : Values, persistInitial : BOOLEAN, last : Values]
  /\ gate \in Updates \cup {None}
  /\ mailbox \in [durable : Rows, pending : Updates \cup {None}]
  /\ unseen \in BOOLEAN
  /\ worker \in Workers \cup {None}
  /\ closing \in BOOLEAN
  /\ crashes \in 0..MaxCrashes

-----------------------------------------------------------------------------
(* The factory: it reads the row, then what the worker knows, then takes a *)
(* publisher; the worker runs on in between.                               *)

ReadRow ==
  /\ factory.pc = "none" /\ actor = None /\ gate = None
  /\ factory' = [pc |-> "row", seed |-> row]
  /\ landed' = (landed /\ worker # None)
  /\ UNCHANGED <<row, requests, revision, actor, publisher, gate, mailbox, unseen, accepted,
                 worker, control>>

\* A preset that has left the catalog is replaced by the default one.
InCatalog(v) == IF v \in Retired THEN Default ELSE v

Newest(r, s) == IF s.rev > r.rev THEN s ELSE r

\* Settings that are still being persisted go before any row.
ReadView ==
  LET seed == IF worker = None THEN factory.seed ELSE Newest(factory.seed, mailbox.durable)
      pending == IF worker = None THEN None ELSE mailbox.pending
  IN /\ factory.pc = "row"
     /\ factory' = [pc |-> "view", seed |-> seed,
                    initial |-> IF pending # None /\ pending.value \notin Retired
                                THEN pending.value ELSE InCatalog(seed.value)]
     /\ UNCHANGED <<database, revision, actor, publisher, gate, mailbox, unseen, accepted,
                    worker, control>>

CreateFails ==
  /\ factory.pc # "none"
  /\ factory' = [pc |-> "none"]
  /\ UNCHANGED <<database, revision, actor, publisher, gate, mailbox, unseen, accepted,
                 worker, control>>

Worker(seed) == [pc |-> "top", current |-> seed, read |-> seed, update |-> None,
                 tries |-> 0, final |-> FALSE]

\* publisher(): the guild's worker is spawned with the first publisher.  The
\* new actor then applies its initial settings; the publisher is not armed
\* before it sees all of them, so that is its first snapshot that counts.
StartActor ==
  LET initial == factory.initial
      known == IF worker = None THEN factory.seed.value
               ELSE IF mailbox.pending # None THEN mailbox.pending.value
               ELSE mailbox.durable.value
  IN /\ factory.pc = "view" /\ ~closing /\ revision < MaxRevision
     /\ factory' = [pc |-> "none"]
     /\ revision' = revision + 1
     /\ actor' = initial
     /\ publisher' = [armed |-> FALSE, initial |-> initial, persistInitial |-> known # initial,
                      last |-> initial]
     /\ gate' = [value |-> initial, of |-> revision + 1]
     /\ IF worker = None
        THEN worker' = Worker(factory.seed) /\ mailbox' = [durable |-> factory.seed, pending |-> None]
        ELSE UNCHANGED <<worker, mailbox>>
     /\ UNCHANGED <<database, unseen, accepted, control>>

-----------------------------------------------------------------------------
(* The actor and its publisher.                                            *)

Exited == worker # None /\ worker.pc \in {"done", "failed"}
Closed == closing \/ Exited

\* A control changes the settings; publish checks that somebody listens.
Change(v) ==
  /\ actor # None /\ gate = None /\ v # actor /\ revision < MaxRevision
  /\ actor' = v
  /\ revision' = revision + 1
  /\ gate' = IF Closed THEN None ELSE [value |-> v, of |-> revision + 1]
  /\ UNCHANGED <<database, factory, publisher, mailbox, unseen, accepted, worker, control>>

Queue(u) ==
  IF mailbox.pending = None \/ u.of > mailbox.pending.of
  THEN mailbox' = [mailbox EXCEPT !.pending = u] /\ unseen' = TRUE
  ELSE UNCHANGED <<mailbox, unseen>>

\* The rest of publish.  A queued change is an error if it closed meanwhile;
\* the initial settings are not checked again.
Publish ==
  /\ gate # None
  /\ gate' = None
  /\ publisher' = [publisher EXCEPT !.armed = TRUE, !.last = gate.value,
                                    !.persistInitial = @ /\ publisher.armed]
  /\ IF publisher.armed
     THEN Queue(gate) /\ accepted' = IF Closed THEN accepted ELSE gate.value
     ELSE /\ IF publisher.persistInitial THEN Queue(gate) ELSE UNCHANGED <<mailbox, unseen>>
          /\ accepted' = gate.value
  /\ UNCHANGED <<database, revision, factory, actor, worker, control>>

EndActor == /\ actor # None /\ gate = None
            /\ actor' = None
            /\ UNCHANGED <<database, revision, factory, publisher, gate, mailbox, unseen,
                           accepted, worker, control>>

-----------------------------------------------------------------------------
(* The worker.                                                             *)

\* One iteration of persist_latest: nothing to do, or a compare-and-swap.
Persist(w) ==
  IF w.read.value = w.update.value
  THEN worker' = [w EXCEPT !.pc = "persisted"] /\ UNCHANGED requests
  ELSE /\ Cardinality(requests) < MaxRequests
       /\ worker' = [w EXCEPT !.pc = "writing"]
       /\ requests' = requests \cup {[value |-> w.update.value, of |-> w.update.of,
                                      expected |-> w.read.rev, live |-> TRUE]}

Begin(u, final) ==
  Persist([worker EXCEPT !.update = u, !.read = worker.current, !.tries = 0, !.final = final])

Take ==
  /\ worker # None /\ worker.pc = "top"
  /\ unseen' = FALSE
  /\ IF mailbox.pending = None
     THEN worker' = [worker EXCEPT !.pc = "waiting"] /\ UNCHANGED requests
     ELSE Begin(mailbox.pending, FALSE)
  /\ UNCHANGED <<row, landed, process, mailbox, control>>

\* With nothing pending: whichever of a change and the stop signal is ready,
\* either one when both are.
Wait ==
  /\ worker # None /\ worker.pc = "waiting"
  /\ \/ unseen /\ worker' = [worker EXCEPT !.pc = "top"] /\ unseen' = FALSE
     \/ closing /\ worker' = [worker EXCEPT !.pc = "done"] /\ UNCHANGED unseen
  /\ UNCHANGED <<database, process, mailbox, control>>

\* The write succeeded, or there was nothing to write.
RecordAny ==
  /\ worker # None /\ worker.pc = "persisted" /\ ~worker.final
  /\ worker' = [worker EXCEPT !.pc = "top", !.current = worker.read]
  /\ mailbox' = [durable |-> worker.read, pending |-> None]
  /\ unseen' = TRUE
  /\ UNCHANGED <<database, process, control>>

\* Only the update that was written is not pending any more.
Record ==
  /\ worker # None /\ worker.pc = "persisted" /\ ~worker.final
  /\ worker' = [worker EXCEPT !.pc = "top", !.current = worker.read]
  /\ mailbox' = [durable |-> worker.read,
                 pending |-> IF mailbox.pending # None /\ mailbox.pending.of = worker.update.of
                             THEN None ELSE mailbox.pending]
  /\ unseen' = TRUE
  /\ UNCHANGED <<database, process, control>>

FinalDone ==
  /\ worker # None /\ worker.pc = "persisted" /\ worker.final
  /\ worker' = [worker EXCEPT !.pc = "done"]
  /\ UNCHANGED <<database, process, mailbox, unseen, control>>

FailedForGood == worker' = [worker EXCEPT !.pc = "failed"]

Failed == worker' = [worker EXCEPT !.pc = IF worker.final \/ closing THEN "failed" ELSE "backoff"]

Abandoned == {[r EXCEPT !.live = FALSE] : r \in requests}

\* An error, or the write timeout.
WriteFails ==
  /\ worker # None /\ worker.pc \in {"writing", "reading"}
  /\ Failed
  /\ requests' = Abandoned
  /\ UNCHANGED <<row, landed, process, mailbox, unseen, control>>

\* After a lost race the row is read again; the last attempt is not.
Reread ==
  LET w == [worker EXCEPT !.read = row, !.tries = @ + 1]
  IN /\ worker # None /\ worker.pc = "reading"
     /\ IF w.tries < MaxTries THEN Persist(w) ELSE Failed /\ UNCHANGED requests
     /\ UNCHANGED <<row, landed, process, mailbox, unseen, control>>

\* The back-off ends with time or with newer settings, or shutdown flushes.
Retry ==
  /\ worker # None /\ worker.pc = "backoff"
  /\ worker' = [worker EXCEPT !.pc = "top"]
  /\ UNCHANGED <<database, process, mailbox, unseen, control>>

Flush ==
  /\ worker # None /\ worker.pc = "backoff" /\ closing
  /\ IF mailbox.pending = None
     THEN worker' = [worker EXCEPT !.pc = "done"] /\ UNCHANGED requests
     ELSE Begin(mailbox.pending, TRUE)
  /\ UNCHANGED <<row, landed, process, mailbox, unseen, control>>

-----------------------------------------------------------------------------
(* The database, shutdown and the process.                                 *)

MatchesAny(r) == TRUE

\* WHERE revision = expected
Matches(r) == row.rev = r.expected

Arrive(r) ==
  LET updated == [value |-> r.value, rev |-> row.rev + 1, of |-> r.of]
  IN /\ requests' = requests \ {r}
     /\ row' = IF Matches(r) THEN updated ELSE row
     /\ landed' = IF Matches(r) THEN ~r.live ELSE landed
     /\ worker' = IF ~r.live THEN worker
                  ELSE IF Matches(r) THEN [worker EXCEPT !.pc = "persisted", !.read = updated]
                  ELSE [worker EXCEPT !.pc = "reading"]
     /\ UNCHANGED <<process, mailbox, unseen, control>>

Lose(r) == /\ ~r.live
           /\ requests' = requests \ {r}
           /\ UNCHANGED <<row, landed, process, mailbox, unseen, worker, control>>

BeginShutdown == /\ ~closing
                 /\ closing' = TRUE
                 /\ UNCHANGED <<database, process, mailbox, unseen, worker, crashes>>

\* The process dies, or has shut down, and another takes its place.
Restart ==
  /\ crashes < MaxCrashes
  /\ crashes' = crashes + 1
  /\ requests' = Abandoned
  /\ factory' = [pc |-> "none"] /\ actor' = None /\ gate' = None /\ accepted' = None
  /\ worker' = None /\ unseen' = FALSE /\ closing' = FALSE
  /\ UNCHANGED <<row, landed, revision, publisher, mailbox>>

Init ==
  /\ row \in [value : Values, rev : {0}, of : {0}]
  /\ requests = {} /\ landed = FALSE /\ revision = 0
  /\ factory = [pc |-> "none"] /\ actor = None /\ gate = None /\ accepted = None
  /\ publisher = [armed |-> FALSE, initial |-> Default, persistInitial |-> FALSE, last |-> Default]
  /\ mailbox = [durable |-> row, pending |-> None] /\ unseen = FALSE
  /\ worker = None /\ closing = FALSE /\ crashes = 0

Work == Take \/ Wait \/ Record \/ FinalDone \/ Reread \/ Retry \/ Flush

Answer == \E r \in requests : r.live /\ Arrive(r)

Next ==
  \/ ReadRow \/ ReadView \/ CreateFails \/ StartActor
  \/ \E v \in Values \ Retired : Change(v)
  \/ Publish \/ EndActor
  \/ Work \/ WriteFails
  \/ \E r \in requests : Arrive(r) \/ Lose(r)
  \/ BeginShutdown \/ Restart

Spec == Init /\ [][Next]_vars

\* The worker task is polled, lost requests make room for new ones, and one day
\* the database answers in time.  (That it does so every now and then is not
\* enough: an attempt that loses a race and then fails starts over with the row
\* it started with, and loses again.)
FairSpec == /\ Spec /\ WF_vars(Work) /\ WF_vars(Answer) /\ <>[][~WriteFails]_vars
            /\ WF_vars(\E r \in requests : Lose(r))

-----------------------------------------------------------------------------
(* Properties.                                                             *)

\* The row never goes back to older settings, whichever of the workers' updates
\* arrive late, twice or out of order (the compare-and-swap on the revision).
RowMovesForward == [][row'.of >= row.of]_row

\* A player that is created again in the same process starts with the settings
\* last accepted from its predecessor, written or still on their way, unless an
\* update that had timed out reached the row afterwards.
RecreationKeepsSettings ==
  [][actor = None /\ actor' # None /\ accepted # None /\ ~landed => actor' = accepted]_vars

\* Neither the row nor a player created again goes back to older settings.
SettingsMoveForward == RowMovesForward /\ RecreationKeepsSettings

\* A worker with nothing left to do has the accepted settings in the row, unless
\* an update that had timed out reached the row afterwards.
SettledIsDurable ==
  /\ TypeOK
  /\ (/\ worker # None /\ worker.pc = "waiting" /\ ~unseen /\ ~closing
      /\ accepted # None /\ ~landed) => row.value = accepted

\* Every queued change, or a newer one, gets into the row, however often the
\* database fails, until the process stops.
EventuallyDurable ==
  \A n \in 1..MaxRevision :
    mailbox.pending # None /\ mailbox.pending.of = n /\ worker # None
      ~> \/ mailbox.pending = None \/ mailbox.pending.of > n
         \/ closing \/ worker = None

\* What shutdown promises ("Flushes the latest accepted values before joining
\* every guild worker"): a worker that ended well has stored what was accepted.
FlushedOnShutdown ==
  worker # None /\ worker.pc = "done" /\ accepted # None /\ ~landed => row.value = accepted

=============================================================================
