--------------------------- MODULE SettingsProofs ---------------------------
(***************************************************************************)
(* Theorems about SettingsPersistence, for every set of settings and every *)
(* number of revisions, requests, attempts and restarts: that the row and  *)
(* the players never go back to older settings, and that a worker with     *)
(* nothing left to do has stored what was accepted.                        *)
(***************************************************************************)
EXTENDS SettingsPersistence, TLAPS

-----------------------------------------------------------------------------
(* The inductive invariant, in named parts.                                *)

\* The worker is on an update, from taking it to having recorded it.
Busy == worker # None /\ worker.pc \in {"writing", "reading", "persisted", "backoff"}

Pending == worker # None /\ mailbox.pending # None
Taken   == worker # None /\ worker.update # None

\* What the tasks have to do with one another.
Shape ==
  /\ gate # None => actor # None
  /\ actor # None \/ accepted # None => worker # None
  /\ factory.pc # "none" => actor = None
  /\ factory.pc = "view" => factory.initial \notin Retired
  /\ gate # None => gate.value \notin Retired
  /\ (actor # None /\ gate = None) => publisher.armed
  /\ Exited \/ (worker # None /\ worker.final) => closing
  /\ Busy => Pending /\ Taken
  /\ worker # None => worker.current = mailbox.durable
  /\ (worker # None /\ worker.pc = "waiting" /\ mailbox.pending # None) => unseen

\* No update is ahead of the newest revision, or as new as one that is only
\* about to be queued.
Below(n) == IF gate = None THEN n <= revision ELSE n < revision

NothingAhead ==
  /\ gate # None => gate.of = revision
  /\ Below(row.of)
  /\ \A r \in requests : Below(r.of)
  /\ Pending => Below(mailbox.pending.of)
  /\ Taken => Below(worker.update.of)

\* Nothing in the database or under way to it is newer than what the worker has
\* taken, nor that newer than what is pending.
Latest(u) == row.of <= u.of /\ \A r \in requests : r.of <= u.of

PendingIsLatest ==
  /\ Pending => Latest(mailbox.pending)
  /\ Taken => Latest(worker.update)
  /\ Pending /\ Taken =>
       /\ worker.update.of <= mailbox.pending.of
       /\ worker.update.of = mailbox.pending.of => worker.update = mailbox.pending

\* A row that was read is older than the row, or is the row.
Read(s) == s.rev <= row.rev /\ (s.rev = row.rev => s = row)

ReadsAreRows ==
  /\ factory.pc # "none" => Read(factory.seed)
  /\ worker # None => Read(worker.current) /\ Read(worker.read)

\* An update that can still change the row is not older than it.
RequestsAreNew ==
  \A r \in requests : r.expected <= row.rev /\ (r.expected = row.rev => row.of <= r.of)

\* The worker waits for one update at most, the one it has taken.
OneAwaited ==
  /\ \A r \in requests : r.live =>
       /\ worker # None /\ worker.pc = "writing"
       /\ r.value = worker.update.value
  /\ \A r, s \in requests : r.live /\ s.live => r = s
  /\ (worker # None /\ worker.pc = "persisted") => worker.read.value = worker.update.value

\* Unless an update nobody waited for has changed the row, the worker, or the
\* factory that is to start it, knows the row.
RowIsKnown ==
  ~landed =>
    /\ (worker = None /\ factory.pc # "none") => factory.seed = row
    /\ (worker # None /\ worker.pc = "persisted") => worker.read = row
    /\ (worker # None /\ worker.pc \notin {"persisted", "done", "failed"}) => worker.current = row

\* Where settings v are while a player may be created again: pending, or in the
\* row unless such an update has replaced them.
Kept(v) ==
  /\ mailbox.pending # None => mailbox.pending.value = v
  /\ mailbox.pending = None /\ ~landed => mailbox.durable.value = v

AcceptedIsKept ==
  ~closing =>
    /\ accepted # None => Kept(accepted)
    /\ (gate # None /\ ~publisher.armed /\ ~publisher.persistInitial) => Kept(gate.value)
    /\ (factory.pc = "view" /\ accepted # None) =>
         \/ factory.initial = accepted
         \/ mailbox.pending = None /\ landed

Inv ==
  /\ TypeOK /\ Shape /\ NothingAhead /\ PendingIsLatest /\ ReadsAreRows
  /\ RequestsAreNew /\ OneAwaited /\ RowIsKnown /\ AcceptedIsKept

-----------------------------------------------------------------------------
(* Facts used in several places.                                           *)

\* The bounds are naturals, None is nothing else, and the default settings are
\* in the catalog.
LEMMA Facts ==
  /\ MaxTries \in Nat /\ MaxRequests \in Nat /\ MaxRevision \in Nat /\ MaxCrashes \in Nat
  /\ Retired \subseteq Values /\ Default \in Values /\ Default \notin Retired
  /\ None \notin Values /\ None \notin Updates /\ None \notin Workers
  BY SettingsAssumption, NoneAssumption

\* The invariant holds initially: nothing runs and nothing is under way.
LEMMA Initially == Init => Inv
<1> SUFFICES ASSUME Init PROVE Inv
  OBVIOUS
<1> USE Facts
<1>1. TypeOK
  <2>1. row \in Rows
    BY DEF Init, Rows
  <2>2. mailbox \in [durable : Rows, pending : Updates \cup {None}]
    BY <2>1 DEF Init
  <2>3. publisher \in [armed : BOOLEAN, initial : Values, persistInitial : BOOLEAN, last : Values]
    BY DEF Init
  <2>4. factory \in [pc : {"none"}]
    BY DEF Init
  <2>5. revision \in 0..MaxRevision /\ crashes \in 0..MaxCrashes
    BY DEF Init
  <2>6. {landed, unseen, closing} \subseteq BOOLEAN
    BY DEF Init
  <2> QED
    BY <2>1, <2>2, <2>3, <2>4, <2>5, <2>6 DEF Init, TypeOK
<1>2. Shape
  BY DEF Init, Shape, Exited, Busy, Pending, Taken
<1>3. NothingAhead /\ PendingIsLatest
  BY DEF Init, NothingAhead, PendingIsLatest, Below, Latest, Pending, Taken
<1>4. ReadsAreRows /\ RequestsAreNew /\ OneAwaited
  BY DEF Init, ReadsAreRows, RequestsAreNew, OneAwaited
<1>5. RowIsKnown /\ AcceptedIsKept
  BY DEF Init, RowIsKnown, AcceptedIsKept
<1> QED
  BY <1>1, <1>2, <1>3, <1>4, <1>5 DEF Inv

-----------------------------------------------------------------------------
(* One lemma for each action: it preserves the invariant.                  *)

LEMMA RestartPreserves == ASSUME Inv, Restart PROVE Inv'
<1> USE Facts DEF Restart, Abandoned, process, control, database
<1>1. TypeOK'
  <2>1. requests' \subseteq [value : Values, of : 1..MaxRevision, expected : Nat, live : BOOLEAN]
    <3>1. requests \subseteq [value : Values, of : 1..MaxRevision, expected : Nat, live : BOOLEAN]
      BY DEF Inv, TypeOK
    <3>2. \A r \in requests : [r EXCEPT !.live = FALSE]
            \in [value : Values, of : 1..MaxRevision, expected : Nat, live : BOOLEAN]
      BY <3>1
    <3> QED
      BY <3>2
  <2>2. crashes' \in 0..MaxCrashes
    BY DEF Inv, TypeOK
  <2> QED
    BY <2>1, <2>2 DEF Inv, TypeOK
<1>2. Shape'
  BY DEF Inv, Shape, Exited, Busy, Pending, Taken
<1>3. NothingAhead'
  BY DEF Inv, TypeOK, Rows, Workers, Exited, Busy, Pending, Taken, NothingAhead, Below
<1>4. PendingIsLatest'
  BY DEF Inv, Exited, Busy, Pending, Taken, NothingAhead, Below, PendingIsLatest, Latest
<1>5. ReadsAreRows'
  BY DEF Inv, ReadsAreRows, Read
<1>6. RequestsAreNew'
  BY DEF Inv, TypeOK, RequestsAreNew
<1>7. OneAwaited'
  BY DEF Inv, TypeOK, OneAwaited
<1>8. RowIsKnown'
  BY DEF Inv, RowIsKnown
<1>9. AcceptedIsKept'
  BY DEF Inv, AcceptedIsKept, Kept
<1> QED
  BY <1>1, <1>2, <1>3, <1>4, <1>5, <1>6, <1>7, <1>8, <1>9 DEF Inv

LEMMA BeginShutdownPreserves == ASSUME Inv, BeginShutdown PROVE Inv'
<1> USE Facts DEF BeginShutdown, process, control, database
<1>1. TypeOK'
  BY DEF Inv, TypeOK
<1>2. Shape'
  BY DEF Inv, Shape, Exited, Busy, Pending, Taken
<1>3. NothingAhead'
  BY DEF Inv, Exited, Busy, Pending, Taken, NothingAhead, Below
<1>4. PendingIsLatest'
  BY DEF Inv, Exited, Busy, Pending, Taken, NothingAhead, Below, PendingIsLatest, Latest
<1>5. ReadsAreRows'
  BY DEF Inv, ReadsAreRows, Read
<1>6. RequestsAreNew'
  BY DEF Inv, RequestsAreNew
<1>7. OneAwaited'
  BY DEF Inv, OneAwaited
<1>8. RowIsKnown'
  BY DEF Inv, RowIsKnown
<1>9. AcceptedIsKept'
  BY DEF Inv, AcceptedIsKept, Kept
<1> QED
  BY <1>1, <1>2, <1>3, <1>4, <1>5, <1>6, <1>7, <1>8, <1>9 DEF Inv

LEMMA EndActorPreserves == ASSUME Inv, EndActor PROVE Inv'
<1> USE Facts DEF EndActor, process, control, database
<1>1. TypeOK'
  BY DEF Inv, TypeOK
<1>2. Shape'
  BY DEF Inv, Shape, Exited, Busy, Pending, Taken
<1>3. NothingAhead'
  BY DEF Inv, Exited, Busy, Pending, Taken, NothingAhead, Below
<1>4. PendingIsLatest'
  BY DEF Inv, Exited, Busy, Pending, Taken, NothingAhead, Below, PendingIsLatest, Latest
<1>5. ReadsAreRows'
  BY DEF Inv, ReadsAreRows, Read
<1>6. RequestsAreNew'
  BY DEF Inv, RequestsAreNew
<1>7. OneAwaited'
  BY DEF Inv, OneAwaited
<1>8. RowIsKnown'
  BY DEF Inv, RowIsKnown
<1>9. AcceptedIsKept'
  BY DEF Inv, AcceptedIsKept, Kept
<1> QED
  BY <1>1, <1>2, <1>3, <1>4, <1>5, <1>6, <1>7, <1>8, <1>9 DEF Inv

LEMMA CreateFailsPreserves == ASSUME Inv, CreateFails PROVE Inv'
<1> USE Facts DEF CreateFails, process, control, database
<1>1. TypeOK'
  BY DEF Inv, TypeOK
<1>2. Shape'
  BY DEF Inv, Shape, Exited, Busy, Pending, Taken
<1>3. NothingAhead'
  BY DEF Inv, Exited, Busy, Pending, Taken, NothingAhead, Below
<1>4. PendingIsLatest'
  BY DEF Inv, Exited, Busy, Pending, Taken, NothingAhead, Below, PendingIsLatest, Latest
<1>5. ReadsAreRows'
  BY DEF Inv, ReadsAreRows, Read
<1>6. RequestsAreNew'
  BY DEF Inv, RequestsAreNew
<1>7. OneAwaited'
  BY DEF Inv, OneAwaited
<1>8. RowIsKnown'
  BY DEF Inv, RowIsKnown
<1>9. AcceptedIsKept'
  BY DEF Inv, AcceptedIsKept, Kept
<1> QED
  BY <1>1, <1>2, <1>3, <1>4, <1>5, <1>6, <1>7, <1>8, <1>9 DEF Inv

LEMMA ReadRowPreserves == ASSUME Inv, ReadRow PROVE Inv'
<1> USE Facts DEF ReadRow, process, control, database
<1>1. TypeOK'
  BY DEF Inv, TypeOK
<1>2. Shape'
  BY DEF Inv, Shape, Exited, Busy, Pending, Taken
<1>3. NothingAhead'
  BY DEF Inv, Exited, Busy, Pending, Taken, NothingAhead, Below
<1>4. PendingIsLatest'
  BY DEF Inv, Exited, Busy, Pending, Taken, NothingAhead, Below, PendingIsLatest, Latest
<1>5. ReadsAreRows'
  BY DEF Inv, TypeOK, Rows, Workers, ReadsAreRows, Read
<1>6. RequestsAreNew'
  BY DEF Inv, RequestsAreNew
<1>7. OneAwaited'
  BY DEF Inv, OneAwaited
<1>8. RowIsKnown'
  BY DEF Inv, RowIsKnown
<1>9. AcceptedIsKept'
  BY DEF Inv, Shape, AcceptedIsKept, Kept
<1> QED
  BY <1>1, <1>2, <1>3, <1>4, <1>5, <1>6, <1>7, <1>8, <1>9 DEF Inv

LEMMA ReadViewPreserves == ASSUME Inv, ReadView PROVE Inv'
<1> USE Facts DEF ReadView, InCatalog, Newest, process, control, database
<1>1. TypeOK'
  BY DEF Inv, TypeOK, Rows, Updates, Workers
<1>2. Shape'
  BY DEF Inv, Shape, Exited, Busy, Pending, Taken
<1>3. NothingAhead'
  BY DEF Inv, Exited, Busy, Pending, Taken, NothingAhead, Below
<1>4. PendingIsLatest'
  BY DEF Inv, Exited, Busy, Pending, Taken, NothingAhead, Below, PendingIsLatest, Latest
<1>5. ReadsAreRows'
  BY DEF Inv, Shape, ReadsAreRows, Read
<1>6. RequestsAreNew'
  BY DEF Inv, RequestsAreNew
<1>7. OneAwaited'
  BY DEF Inv, OneAwaited
<1>8. RowIsKnown'
  BY DEF Inv, RowIsKnown
<1>9. AcceptedIsKept'
  <2> SUFFICES ASSUME ~closing, accepted # None, ~(mailbox.pending = None /\ landed)
               PROVE  factory'.initial = accepted
    BY DEF Inv, AcceptedIsKept, Kept
  <2>1. worker # None /\ accepted \in Values /\ accepted \notin Retired /\ Kept(accepted)
    BY DEF Inv, TypeOK, Shape, AcceptedIsKept
  <2>2. CASE mailbox.pending # None
    BY <2>1, <2>2 DEF Kept
  <2>3. CASE mailbox.pending = None
    <3>1. worker.pc \notin {"persisted", "done", "failed"}
      BY <2>1, <2>3 DEF Inv, Shape, Busy, Pending, Exited
    <3>2. mailbox.durable = row /\ row.value = accepted
      BY <2>1, <2>3, <3>1 DEF Inv, RowIsKnown, Shape, Kept
    <3>3. Read(factory.seed)
      BY DEF Inv, ReadsAreRows
    <3>4. Newest(factory.seed, mailbox.durable) = row
      <4>1. row.rev \in Nat /\ factory.seed.rev \in Nat
        BY DEF Inv, TypeOK, Rows
      <4> QED
        BY <3>2, <3>3, <4>1 DEF Read
    <3> QED
      BY <2>1, <2>3, <3>2, <3>4
  <2> QED
    BY <2>2, <2>3
<1> QED
  BY <1>1, <1>2, <1>3, <1>4, <1>5, <1>6, <1>7, <1>8, <1>9 DEF Inv

LEMMA StartActorPreserves == ASSUME Inv, StartActor PROVE Inv'
<1> USE Facts DEF StartActor, Worker, process, control, database
<1>1. TypeOK'
  <2>1. /\ factory.seed \in Rows /\ factory.initial \in Values /\ factory.initial \notin Retired
        /\ revision + 1 \in 1..MaxRevision
    BY DEF Inv, TypeOK, Shape
  <2>2. Worker(factory.seed) \in Workers
    BY <2>1 DEF Workers, Steps
  <2>3. worker' \in Workers \cup {None}
    BY <2>2 DEF Inv, TypeOK
  <2>4. mailbox' \in [durable : Rows, pending : Updates \cup {None}]
    BY <2>1 DEF Inv, TypeOK
  <2>5. gate' \in Updates
    BY <2>1 DEF Updates
  <2>6. publisher' \in [armed : BOOLEAN, initial : Values, persistInitial : BOOLEAN, last : Values]
    BY <2>1
  <2>7. factory' \in [pc : {"none"}]
    OBVIOUS
  <2> QED
    BY <2>1, <2>3, <2>4, <2>5, <2>6, <2>7 DEF Inv, TypeOK
<1>2. Shape'
  <2>1. factory.initial \notin Retired /\ factory.initial \in Values /\ actor = None /\ gate = None
    BY DEF Inv, TypeOK, Shape
  <2>2. factory.seed \in Rows
    BY DEF Inv, TypeOK
  <2>3. /\ worker' # None
        /\ worker = None => /\ worker' = Worker(factory.seed)
                            /\ mailbox' = [durable |-> factory.seed, pending |-> None]
        /\ worker # None => worker' = worker /\ mailbox' = mailbox
    <3>1. Worker(factory.seed) \in Workers
      BY <2>2 DEF Workers, Steps
    <3> QED
      BY <3>1
  <2>4. factory'.pc = "none" /\ gate'.value = factory.initial /\ gate' # None
    BY <2>1 DEF Inv, TypeOK, Updates
  <2>5. CASE worker = None
    BY <2>1, <2>3, <2>4, <2>5 DEF Inv, Shape, Exited, Busy, Pending, Taken
  <2>6. CASE worker # None
    BY <2>1, <2>3, <2>4, <2>6 DEF Inv, Shape, Exited, Busy, Pending, Taken
  <2> QED
    BY <2>5, <2>6
<1>3. NothingAhead'
  BY DEF Inv, TypeOK, Rows, Updates, Workers, Exited, Busy, Pending, Taken, NothingAhead, Below
<1>4. PendingIsLatest'
  BY DEF Inv, Exited, Busy, Pending, Taken, NothingAhead, Below, PendingIsLatest, Latest
<1>5. ReadsAreRows'
  BY DEF Inv, ReadsAreRows, Read
<1>6. RequestsAreNew'
  BY DEF Inv, RequestsAreNew
<1>7. OneAwaited'
  BY DEF Inv, OneAwaited
<1>8. RowIsKnown'
  BY DEF Inv, RowIsKnown
<1>9. AcceptedIsKept'
  <2>1. gate'.value = factory.initial /\ factory'.pc = "none"
    OBVIOUS
  <2>2. CASE worker = None
    <3>1. accepted = None
      BY <2>2 DEF Inv, Shape
    <3>2. mailbox'.pending = None /\ mailbox'.durable = factory.seed
      BY <2>2
    <3>3. ~publisher'.persistInitial => factory.seed.value = factory.initial
      BY <2>2
    <3> QED
      BY <2>1, <3>1, <3>2, <3>3 DEF AcceptedIsKept, Kept
  <2>3. CASE worker # None
    <3>1. mailbox' = mailbox /\ landed' = landed /\ accepted' = accepted /\ closing' = closing
      BY <2>3
    <3>2. ~publisher'.persistInitial =>
            factory.initial = IF mailbox.pending # None THEN mailbox.pending.value
                              ELSE mailbox.durable.value
      BY <2>3
    <3> QED
      BY <2>1, <3>1, <3>2 DEF Inv, AcceptedIsKept, Kept
  <2> QED
    BY <2>2, <2>3
<1> QED
  BY <1>1, <1>2, <1>3, <1>4, <1>5, <1>6, <1>7, <1>8, <1>9 DEF Inv

LEMMA ChangePreserves == ASSUME Inv, NEW v \in Values \ Retired, Change(v) PROVE Inv'
<1> USE Facts DEF Change, Closed, process, control, database
<1>1. TypeOK'
  BY DEF Inv, TypeOK, Rows, Updates, Workers
<1>2. Shape'
  BY DEF Inv, Shape, Exited, Busy, Pending, Taken
<1>3. NothingAhead'
  BY DEF Inv, TypeOK, Rows, Updates, Workers, Exited, Busy, Pending, Taken, NothingAhead, Below
<1>4. PendingIsLatest'
  BY DEF Inv, Exited, Busy, Pending, Taken, NothingAhead, Below, PendingIsLatest, Latest
<1>5. ReadsAreRows'
  BY DEF Inv, ReadsAreRows, Read
<1>6. RequestsAreNew'
  BY DEF Inv, RequestsAreNew
<1>7. OneAwaited'
  BY DEF Inv, OneAwaited
<1>8. RowIsKnown'
  BY DEF Inv, RowIsKnown
<1>9. AcceptedIsKept'
  BY DEF Inv, Shape, AcceptedIsKept, Kept
<1> QED
  BY <1>1, <1>2, <1>3, <1>4, <1>5, <1>6, <1>7, <1>8, <1>9 DEF Inv

LEMMA PublishPreserves == ASSUME Inv, Publish PROVE Inv'
<1> USE Facts DEF Publish, Queue, Closed, process, control, database
<1>1. TypeOK'
  <2>1. gate \in Updates /\ gate.value \in Values /\ gate.value \notin Retired
    BY DEF Inv, TypeOK, Shape, Updates
  <2>2. mailbox' \in [durable : Rows, pending : Updates \cup {None}] /\ unseen' \in BOOLEAN
    BY <2>1 DEF Inv, TypeOK
  <2>3. publisher' \in [armed : BOOLEAN, initial : Values, persistInitial : BOOLEAN, last : Values]
    BY <2>1 DEF Inv, TypeOK
  <2>4. accepted' \in (Values \ Retired) \cup {None}
    BY <2>1 DEF Inv, TypeOK
  <2> QED
    BY <2>2, <2>3, <2>4 DEF Inv, TypeOK
<1>2. Shape'
  BY DEF Inv, TypeOK, Shape, Exited, Busy, Pending, Taken
<1>3. NothingAhead'
  BY DEF Inv, TypeOK, Rows, Updates, Workers, Exited, Busy, Pending, Taken, NothingAhead, Below
<1>4. PendingIsLatest'
  BY DEF Inv, TypeOK, Rows, Updates, Workers, Exited, Busy, Pending, Taken,
         NothingAhead, Below, PendingIsLatest, Latest
<1>5. ReadsAreRows'
  BY DEF Inv, ReadsAreRows, Read
<1>6. RequestsAreNew'
  BY DEF Inv, RequestsAreNew
<1>7. OneAwaited'
  BY DEF Inv, OneAwaited
<1>8. RowIsKnown'
  BY DEF Inv, RowIsKnown
<1>9. AcceptedIsKept'
  <2> SUFFICES ASSUME ~closing
               PROVE  /\ Kept(accepted)'
                      /\ factory.pc = "none"
    BY DEF AcceptedIsKept, Inv
  <2>1. ~Closed /\ worker # None /\ actor # None /\ factory.pc = "none"
    BY DEF Inv, Shape
  <2>2. accepted' = gate.value
    BY <2>1
  <2>3. CASE publisher.armed \/ publisher.persistInitial
    <3>1. mailbox.pending = None \/ gate.of > mailbox.pending.of
      BY <2>1 DEF Inv, NothingAhead, Below, Pending
    <3>2. mailbox' = [mailbox EXCEPT !.pending = gate]
      BY <2>3, <3>1
    <3>3. mailbox'.pending = gate /\ gate # None
      BY <3>2 DEF Inv
    <3> QED
      BY <2>1, <2>2, <3>3 DEF Kept
  <2>4. CASE ~publisher.armed /\ ~publisher.persistInitial
    <3>1. Kept(gate.value) /\ mailbox' = mailbox
      BY <2>4 DEF Inv, AcceptedIsKept
    <3> QED
      BY <2>1, <2>2, <3>1 DEF Kept
  <2> QED
    BY <2>3, <2>4
<1> QED
  BY <1>1, <1>2, <1>3, <1>4, <1>5, <1>6, <1>7, <1>8, <1>9 DEF Inv

LEMMA WaitPreserves == ASSUME Inv, Wait PROVE Inv'
<1> USE Facts DEF Wait, process, control, database
<1>1. TypeOK'
  <2>1. worker' \in Workers
    BY DEF Inv, TypeOK, Workers, Steps
  <2>2. unseen' \in BOOLEAN
    BY DEF Inv, TypeOK
  <2> QED
    BY <2>1, <2>2 DEF Inv, TypeOK
<1>2. Shape'
  BY DEF Inv, TypeOK, Rows, Workers, Steps, Shape, Exited, Busy, Pending, Taken
<1>3. NothingAhead'
  BY DEF Inv, TypeOK, Rows, Workers, Exited, Busy, Pending, Taken, NothingAhead, Below
<1>4. PendingIsLatest'
  BY DEF Inv, TypeOK, Rows, Workers, Exited, Busy, Pending, Taken,
         NothingAhead, Below, PendingIsLatest, Latest
<1>5. ReadsAreRows'
  BY DEF Inv, TypeOK, Rows, Workers, ReadsAreRows, Read
<1>6. RequestsAreNew'
  BY DEF Inv, RequestsAreNew
<1>7. OneAwaited'
  BY DEF Inv, TypeOK, Rows, Workers, OneAwaited
<1>8. RowIsKnown'
  BY DEF Inv, TypeOK, Rows, Workers, Steps, RowIsKnown
<1>9. AcceptedIsKept'
  BY DEF Inv, AcceptedIsKept, Kept
<1> QED
  BY <1>1, <1>2, <1>3, <1>4, <1>5, <1>6, <1>7, <1>8, <1>9 DEF Inv

LEMMA RecordPreserves == ASSUME Inv, Record PROVE Inv'
<1> USE Facts DEF Record, process, control, database
<1>1. TypeOK'
  BY DEF Inv, TypeOK, Rows, Workers, Steps
<1>2. Shape'
  <2>1. /\ worker' = [worker EXCEPT !.pc = "top", !.current = worker.read]
        /\ worker' \in Workers /\ worker \in Workers
    BY DEF Inv, TypeOK, Workers, Steps
  <2>2. worker' # None /\ worker'.pc = "top" /\ worker'.current = mailbox'.durable
    BY <2>1 DEF Workers
  <2>3. worker'.final = worker.final
    BY <2>1 DEF Workers
  <2> QED
    BY <2>1, <2>2, <2>3 DEF Inv, Shape, Exited, Busy, Pending, Taken
<1>3. NothingAhead'
  BY DEF Inv, Exited, Busy, Pending, Taken, NothingAhead, Below
<1>4. PendingIsLatest'
  BY DEF Inv, Exited, Busy, Pending, Taken, NothingAhead, Below, PendingIsLatest, Latest
<1>5. ReadsAreRows'
  BY DEF Inv, ReadsAreRows, Read
<1>6. RequestsAreNew'
  BY DEF Inv, RequestsAreNew
<1>7. OneAwaited'
  BY DEF Inv, OneAwaited
<1>8. RowIsKnown'
  BY DEF Inv, TypeOK, Rows, Updates, Workers, Steps, Shape, Exited, Busy, Pending, Taken, RowIsKnown
<1>9. AcceptedIsKept'
  <2>1. worker.read.value = worker.update.value /\ (~landed => worker.read = row)
    BY DEF Inv, OneAwaited, RowIsKnown
  <2>2. mailbox.pending # None /\ Pending /\ Taken
    BY DEF Inv, Shape, Busy, Pending
  <2>3. mailbox'.pending # None => mailbox'.pending = mailbox.pending
    OBVIOUS
  <2>4. mailbox'.pending = None => mailbox'.durable.value = mailbox.pending.value
    BY <2>1, <2>2 DEF Inv, PendingIsLatest
  <2>5. ASSUME NEW v, Kept(v)
        PROVE  Kept(v)'
    BY <2>2, <2>3, <2>4, <2>5 DEF Kept
  <2>6. factory.pc = "view" /\ accepted # None /\ ~closing => factory.initial = accepted
    BY <2>2 DEF Inv, AcceptedIsKept
  <2> QED
    BY <2>5, <2>6 DEF Inv, AcceptedIsKept
<1> QED
  BY <1>1, <1>2, <1>3, <1>4, <1>5, <1>6, <1>7, <1>8, <1>9 DEF Inv

LEMMA FinalDonePreserves == ASSUME Inv, FinalDone PROVE Inv'
<1> USE Facts DEF FinalDone, process, control, database
<1>1. TypeOK'
  BY DEF Inv, TypeOK, Rows, Workers, Steps
<1>2. Shape'
  BY DEF Inv, TypeOK, Rows, Workers, Steps, Shape, Exited, Busy, Pending, Taken
<1>3. NothingAhead'
  BY DEF Inv, Exited, Busy, Pending, Taken, NothingAhead, Below
<1>4. PendingIsLatest'
  BY DEF Inv, Exited, Busy, Pending, Taken, NothingAhead, Below, PendingIsLatest, Latest
<1>5. ReadsAreRows'
  BY DEF Inv, ReadsAreRows, Read
<1>6. RequestsAreNew'
  BY DEF Inv, RequestsAreNew
<1>7. OneAwaited'
  BY DEF Inv, OneAwaited
<1>8. RowIsKnown'
  BY DEF Inv, TypeOK, Rows, Workers, Steps, RowIsKnown
<1>9. AcceptedIsKept'
  BY DEF Inv, AcceptedIsKept, Kept
<1> QED
  BY <1>1, <1>2, <1>3, <1>4, <1>5, <1>6, <1>7, <1>8, <1>9 DEF Inv

LEMMA RetryPreserves == ASSUME Inv, Retry PROVE Inv'
<1> USE Facts DEF Retry, process, control, database
<1>1. TypeOK'
  BY DEF Inv, TypeOK, Rows, Workers, Steps
<1>2. Shape'
  BY DEF Inv, TypeOK, Rows, Workers, Steps, Shape, Exited, Busy, Pending, Taken
<1>3. NothingAhead'
  BY DEF Inv, Exited, Busy, Pending, Taken, NothingAhead, Below
<1>4. PendingIsLatest'
  BY DEF Inv, Exited, Busy, Pending, Taken, NothingAhead, Below, PendingIsLatest, Latest
<1>5. ReadsAreRows'
  BY DEF Inv, ReadsAreRows, Read
<1>6. RequestsAreNew'
  BY DEF Inv, RequestsAreNew
<1>7. OneAwaited'
  BY DEF Inv, OneAwaited
<1>8. RowIsKnown'
  BY DEF Inv, TypeOK, Rows, Workers, Steps, RowIsKnown
<1>9. AcceptedIsKept'
  BY DEF Inv, AcceptedIsKept, Kept
<1> QED
  BY <1>1, <1>2, <1>3, <1>4, <1>5, <1>6, <1>7, <1>8, <1>9 DEF Inv

LEMMA WriteFailsPreserves == ASSUME Inv, WriteFails PROVE Inv'
<1> USE Facts DEF WriteFails, Failed, Abandoned, process, control, database
<1>1. TypeOK'
  <2>1. requests' \subseteq [value : Values, of : 1..MaxRevision, expected : Nat, live : BOOLEAN]
    <3>1. requests \subseteq [value : Values, of : 1..MaxRevision, expected : Nat, live : BOOLEAN]
      BY DEF Inv, TypeOK
    <3>2. \A r \in requests : [r EXCEPT !.live = FALSE]
            \in [value : Values, of : 1..MaxRevision, expected : Nat, live : BOOLEAN]
      BY <3>1
    <3> QED
      BY <3>2
  <2>2. worker' \in Workers
    BY DEF Inv, TypeOK, Workers, Steps
  <2> QED
    BY <2>1, <2>2 DEF Inv, TypeOK
<1>2. Shape'
  BY DEF Inv, TypeOK, Rows, Workers, Steps, Shape, Exited, Busy, Pending, Taken
<1>3. NothingAhead'
  BY DEF Inv, TypeOK, Exited, Busy, Pending, Taken, NothingAhead, Below
<1>4. PendingIsLatest'
  BY DEF Inv, TypeOK, Exited, Busy, Pending, Taken, NothingAhead, Below, PendingIsLatest, Latest
<1>5. ReadsAreRows'
  BY DEF Inv, ReadsAreRows, Read
<1>6. RequestsAreNew'
  BY DEF Inv, TypeOK, RequestsAreNew
<1>7. OneAwaited'
  BY DEF Inv, TypeOK, OneAwaited
<1>8. RowIsKnown'
  BY DEF Inv, TypeOK, Rows, Workers, Steps, RowIsKnown
<1>9. AcceptedIsKept'
  BY DEF Inv, AcceptedIsKept, Kept
<1> QED
  BY <1>1, <1>2, <1>3, <1>4, <1>5, <1>6, <1>7, <1>8, <1>9 DEF Inv

LEMMA LosePreserves == ASSUME Inv, NEW r \in requests, Lose(r) PROVE Inv'
<1> USE Facts DEF Lose, process, control, database
<1>1. TypeOK'
  BY DEF Inv, TypeOK
<1>2. Shape'
  BY DEF Inv, Shape, Exited, Busy, Pending, Taken
<1>3. NothingAhead'
  BY DEF Inv, Exited, Busy, Pending, Taken, NothingAhead, Below
<1>4. PendingIsLatest'
  BY DEF Inv, Exited, Busy, Pending, Taken, NothingAhead, Below, PendingIsLatest, Latest
<1>5. ReadsAreRows'
  BY DEF Inv, ReadsAreRows, Read
<1>6. RequestsAreNew'
  BY DEF Inv, RequestsAreNew
<1>7. OneAwaited'
  BY DEF Inv, OneAwaited
<1>8. RowIsKnown'
  BY DEF Inv, RowIsKnown
<1>9. AcceptedIsKept'
  BY DEF Inv, AcceptedIsKept, Kept
<1> QED
  BY <1>1, <1>2, <1>3, <1>4, <1>5, <1>6, <1>7, <1>8, <1>9 DEF Inv

\* An update nobody waits for changes the row.
LEMMA LateArrivalPreserves ==
  ASSUME Inv, NEW r \in requests, ~r.live, Matches(r), Arrive(r)
  PROVE  Inv'
<1> USE Facts DEF Arrive, Matches, process, control
<1>a. /\ row' = [value |-> r.value, rev |-> row.rev + 1, of |-> r.of]
      /\ requests' = requests \ {r} /\ row' \in Rows /\ row.rev \in Nat
  <2>1. r \in [value : Values, of : 1..MaxRevision, expected : Nat, live : BOOLEAN]
    BY DEF Inv, TypeOK
  <2> QED
    BY <2>1 DEF Inv, Rows
<1>b. worker' = worker /\ landed' = TRUE
  OBVIOUS
<1>1. TypeOK'
  BY <1>a, <1>b DEF Inv, TypeOK
<1>2. Shape'
  BY <1>a, <1>b DEF Inv, Shape, Exited, Busy, Pending, Taken
<1>3. NothingAhead'
  BY <1>a, <1>b DEF Inv, Exited, Busy, Pending, Taken, NothingAhead, Below
<1>4. PendingIsLatest'
  BY <1>a, <1>b DEF Inv, Exited, Busy, Pending, Taken, NothingAhead, Below, PendingIsLatest, Latest
<1>5. ReadsAreRows'
  BY <1>a, <1>b DEF Inv, TypeOK, Rows, Workers, ReadsAreRows, Read
<1>6. RequestsAreNew'
  BY <1>a, <1>b DEF Inv, TypeOK, RequestsAreNew
<1>7. OneAwaited'
  BY <1>a, <1>b DEF Inv, OneAwaited
<1>8. RowIsKnown'
  BY <1>a, <1>b DEF Inv, RowIsKnown
<1>9. AcceptedIsKept'
  BY <1>a, <1>b DEF Inv, AcceptedIsKept, Kept
<1> QED
  BY <1>1, <1>2, <1>3, <1>4, <1>5, <1>6, <1>7, <1>8, <1>9 DEF Inv

\* The update the worker waits for changes the row.
LEMMA WrittenPreserves ==
  ASSUME Inv, NEW r \in requests, r.live, Matches(r), Arrive(r)
  PROVE  Inv'
<1> USE Facts DEF Arrive, Matches, process, control
<1>a. /\ row' = [value |-> r.value, rev |-> row.rev + 1, of |-> r.of]
      /\ requests' = requests \ {r} /\ row' \in Rows /\ row.rev \in Nat
  <2>1. r \in [value : Values, of : 1..MaxRevision, expected : Nat, live : BOOLEAN]
    BY DEF Inv, TypeOK
  <2> QED
    BY <2>1 DEF Inv, Rows
<1>b. /\ worker # None /\ worker \in Workers /\ worker.pc = "writing" /\ Pending /\ Taken
      /\ r.value = worker.update.value /\ \A s \in requests' : ~s.live
  BY <1>a DEF Inv, TypeOK, Shape, Busy, OneAwaited
<1>c. /\ worker' = [worker EXCEPT !.pc = "persisted", !.read = row'] /\ worker' \in Workers
      /\ worker' # None /\ worker'.pc = "persisted" /\ worker'.read = row'
      /\ worker'.current = worker.current /\ worker'.update = worker.update
      /\ worker'.final = worker.final /\ worker'.tries = worker.tries
  <2>1. worker' = [worker EXCEPT !.pc = "persisted", !.read = row']
    BY <1>a
  <2>2. \A s \in Rows : [worker EXCEPT !.pc = "persisted", !.read = s] \in Workers
    BY <1>b DEF Workers, Steps
  <2>3. worker' \in Workers
    BY <1>a, <2>1, <2>2
  <2>4. \A s : LET w == [worker EXCEPT !.pc = "persisted", !.read = s]
              IN /\ w.pc = "persisted" /\ w.read = s /\ w.current = worker.current
                 /\ w.update = worker.update /\ w.final = worker.final /\ w.tries = worker.tries
    BY <1>b DEF Workers
  <2> QED
    BY <2>1, <2>3, <2>4
<1>d. landed' = FALSE
  OBVIOUS
<1>1. TypeOK'
  BY <1>a, <1>b, <1>c, <1>d DEF Inv, TypeOK
<1>2. Shape'
  BY <1>a, <1>b, <1>c, <1>d DEF Inv, Shape, Exited, Busy, Pending, Taken
<1>3. NothingAhead'
  BY <1>a, <1>b, <1>c, <1>d DEF Inv, NothingAhead, Below
<1>4. PendingIsLatest'
  BY <1>a, <1>b, <1>c, <1>d DEF Inv, NothingAhead, Below, PendingIsLatest, Latest
<1>5. ReadsAreRows'
  BY <1>a, <1>b, <1>c, <1>d DEF Inv, TypeOK, Rows, Workers, ReadsAreRows, Read
<1>6. RequestsAreNew'
  BY <1>a, <1>b, <1>c, <1>d DEF Inv, TypeOK, RequestsAreNew
<1>7. OneAwaited'
  BY <1>a, <1>b, <1>c, <1>d DEF Inv, OneAwaited
<1>8. RowIsKnown'
  BY <1>a, <1>b, <1>c, <1>d DEF Inv, RowIsKnown
<1>9. AcceptedIsKept'
  BY <1>a, <1>b, <1>c, <1>d DEF Inv, Exited, Busy, Pending, Taken, AcceptedIsKept, Kept
<1> QED
  BY <1>1, <1>2, <1>3, <1>4, <1>5, <1>6, <1>7, <1>8, <1>9 DEF Inv

\* The update the worker waits for comes too late.
LEMMA LostRacePreserves ==
  ASSUME Inv, NEW r \in requests, r.live, ~Matches(r), Arrive(r)
  PROVE  Inv'
<1> USE Facts DEF Arrive, Matches, process, control
<1>a. row' = row /\ landed' = landed /\ requests' = requests \ {r}
  OBVIOUS
<1>b. /\ worker # None /\ worker \in Workers /\ worker.pc = "writing" /\ Pending /\ Taken
      /\ \A s \in requests' : ~s.live
  BY <1>a DEF Inv, TypeOK, Shape, Busy, OneAwaited
<1>c. /\ worker' = [worker EXCEPT !.pc = "reading"] /\ worker' \in Workers
      /\ worker' # None /\ worker'.pc = "reading" /\ worker'.read = worker.read
      /\ worker'.current = worker.current /\ worker'.update = worker.update
      /\ worker'.final = worker.final /\ worker'.tries = worker.tries
  BY <1>b DEF Workers, Steps
<1>1. TypeOK'
  BY <1>a, <1>b, <1>c DEF Inv, TypeOK
<1>2. Shape'
  BY <1>a, <1>b, <1>c DEF Inv, Shape, Exited, Busy, Pending, Taken
<1>3. NothingAhead'
  BY <1>a, <1>b, <1>c DEF Inv, NothingAhead, Below
<1>4. PendingIsLatest'
  BY <1>a, <1>b, <1>c DEF Inv, NothingAhead, Below, PendingIsLatest, Latest
<1>5. ReadsAreRows'
  BY <1>a, <1>b, <1>c DEF Inv, ReadsAreRows, Read
<1>6. RequestsAreNew'
  BY <1>a, <1>b, <1>c DEF Inv, RequestsAreNew
<1>7. OneAwaited'
  BY <1>a, <1>b, <1>c DEF Inv, OneAwaited
<1>8. RowIsKnown'
  BY <1>a, <1>b, <1>c DEF Inv, RowIsKnown
<1>9. AcceptedIsKept'
  BY <1>a, <1>b, <1>c DEF Inv, AcceptedIsKept, Kept
<1> QED
  BY <1>1, <1>2, <1>3, <1>4, <1>5, <1>6, <1>7, <1>8, <1>9 DEF Inv

LEMMA ArrivePreserves == ASSUME Inv, NEW r \in requests, Arrive(r) PROVE Inv'
<1>1. CASE ~r.live /\ Matches(r)
  BY <1>1, LateArrivalPreserves
<1>2. CASE r.live /\ Matches(r)
  BY <1>2, WrittenPreserves
<1>3. CASE r.live /\ ~Matches(r)
  BY <1>3, LostRacePreserves
<1>4. CASE ~r.live /\ ~Matches(r)
  <2>1. row' = row /\ landed' = landed /\ worker' = worker /\ requests' = requests \ {r}
    BY <1>4 DEF Arrive
  <2>2. /\ UNCHANGED <<revision, factory, actor, publisher, gate, accepted, mailbox, unseen,
                       closing, crashes>>
    BY DEF Arrive, process, control
  <2>3. TypeOK' /\ Shape'
    BY <2>1, <2>2 DEF Inv, TypeOK, Shape, Exited, Busy, Pending, Taken
  <2>4. NothingAhead' /\ PendingIsLatest' /\ ReadsAreRows' /\ RequestsAreNew'
    BY <2>1, <2>2 DEF Inv, NothingAhead, Below, PendingIsLatest, Latest, ReadsAreRows, Read,
                      RequestsAreNew, Pending, Taken
  <2>5. OneAwaited' /\ RowIsKnown' /\ AcceptedIsKept'
    BY <2>1, <2>2 DEF Inv, OneAwaited, RowIsKnown, AcceptedIsKept, Kept
  <2> QED
    BY <2>3, <2>4, <2>5 DEF Inv
<1> QED
  BY <1>1, <1>2, <1>3, <1>4

-----------------------------------------------------------------------------
(* An iteration of persist_latest, wherever it starts from.                *)

\* What an attempt may start from: the update is the latest, the row that was
\* read is one, and no request is awaited.
Ready(w) ==
  /\ w \in Workers /\ w.update # None /\ Pending /\ Latest(w.update) /\ Below(w.update.of)
  /\ w.update.of <= mailbox.pending.of
  /\ w.update.of = mailbox.pending.of => w.update = mailbox.pending
  /\ Read(w.read) /\ w.current = worker.current
  /\ ~landed => w.current = row /\ w.read = row
  /\ w.final => closing
  /\ \A r \in requests : ~r.live

LEMMA PersistPreserves ==
  ASSUME Inv, NEW w, Ready(w), Persist(w), unseen' \in BOOLEAN,
         UNCHANGED <<row, landed, process, mailbox, control>>
  PROVE  Inv'
<1> DEFINE u == w.update
           request == [value |-> w.update.value, of |-> w.update.of,
                       expected |-> w.read.rev, live |-> TRUE]
<1> USE Facts DEF process, control
<1>1. /\ u \in Updates /\ u # None /\ w.read \in Rows /\ worker # None
      /\ mailbox.pending # None /\ mailbox.pending \in Updates
  BY DEF Ready, Pending, Workers, Inv, TypeOK
<1>2. /\ row' = row /\ landed' = landed /\ mailbox' = mailbox /\ closing' = closing
      /\ UNCHANGED <<revision, factory, actor, publisher, gate, accepted, crashes>>
  OBVIOUS
<1>3. /\ worker' \in Workers /\ worker' # None /\ worker'.update = u /\ worker'.read = w.read
      /\ worker'.current = worker.current /\ worker'.final = w.final
  BY DEF Ready, Persist, Workers, Steps
<1>4. \/ worker'.pc = "persisted" /\ w.read.value = u.value /\ requests' = requests
      \/ worker'.pc = "writing" /\ requests' = requests \cup {request}
  BY DEF Ready, Persist, Workers
<1>5. /\ request \in [value : Values, of : 1..MaxRevision, expected : Nat, live : BOOLEAN]
      /\ request.of = u.of /\ request.expected = w.read.rev /\ request.live
      /\ request.value = u.value
  BY <1>1 DEF Updates, Rows
<1>6. requests' \subseteq requests \cup {request}
  BY <1>4
<1> HIDE DEF u, request
<1>7. TypeOK'
  BY <1>2, <1>3, <1>5, <1>6 DEF Inv, TypeOK
<1>8. Shape'
  <2>1. worker'.pc \in {"writing", "persisted"}
    BY <1>4
  <2>2. mailbox'.pending # None /\ worker'.update # None
    BY <1>1, <1>2, <1>3
  <2>3. worker'.final => closing
    BY <1>3 DEF Ready
  <2> QED
    BY <1>1, <1>2, <1>3, <2>1, <2>2, <2>3 DEF Inv, Shape, Exited, Busy, Pending, Taken
<1>9. NothingAhead'
  BY <1>1, <1>2, <1>3, <1>5, <1>6 DEF Inv, NothingAhead, Below, Pending, Taken, Ready, u
<1>10. PendingIsLatest'
  BY <1>1, <1>2, <1>3, <1>5, <1>6 DEF Inv, PendingIsLatest, Latest, Pending, Taken, Ready, u
<1>11. ReadsAreRows'
  BY <1>1, <1>2, <1>3 DEF Inv, ReadsAreRows, Read, Ready
<1>12. RequestsAreNew'
  <2>1. request.expected <= row.rev /\ row.of <= request.of
    BY <1>5 DEF Ready, Read, Latest, u
  <2> QED
    BY <1>2, <1>6, <2>1 DEF Inv, RequestsAreNew
<1>13. OneAwaited'
  BY <1>3, <1>4, <1>5 DEF Inv, OneAwaited, Ready
<1>14. RowIsKnown'
  BY <1>1, <1>2, <1>3, <1>4 DEF Inv, RowIsKnown, Ready
<1>15. AcceptedIsKept'
  BY <1>2 DEF Inv, AcceptedIsKept, Kept
<1> QED
  BY <1>7, <1>8, <1>9, <1>10, <1>11, <1>12, <1>13, <1>14, <1>15 DEF Inv

\* An attempt with the pending update and the row the worker knows.
LEMMA BeginIsReady ==
  ASSUME Inv, NEW final \in BOOLEAN, final => closing,
         worker # None, worker.pc \in {"top", "backoff"}, mailbox.pending # None
  PROVE  Ready([worker EXCEPT !.update = mailbox.pending, !.read = worker.current,
                              !.tries = 0, !.final = final])
<1> DEFINE w == [worker EXCEPT !.update = mailbox.pending, !.read = worker.current,
                               !.tries = 0, !.final = final]
<1> USE Facts
<1>1. worker \in Workers /\ mailbox.pending \in Updates /\ Pending
  BY DEF Inv, TypeOK, Pending
<1>2. /\ w \in Workers /\ w.update = mailbox.pending /\ w.read = worker.current
      /\ w.current = worker.current /\ w.final = final
  <2>1. worker.current \in Rows
    BY <1>1 DEF Workers
  <2>2. \A x \in Workers, e \in Updates, s \in Rows :
          [x EXCEPT !.update = e, !.read = s] \in Workers
    BY DEF Workers
  <2>3. \A x \in Workers, n \in 0..MaxTries : [x EXCEPT !.tries = n] \in Workers
    BY DEF Workers
  <2>4. \A x \in Workers, b \in BOOLEAN : [x EXCEPT !.final = b] \in Workers
    BY DEF Workers
  <2>5. w = [[[worker EXCEPT !.update = mailbox.pending, !.read = worker.current]
                EXCEPT !.tries = 0] EXCEPT !.final = final]
    BY <1>1 DEF Workers
  <2>6. 0 \in 0..MaxTries
    OBVIOUS
  <2>7. w \in Workers
    BY <1>1, <2>1, <2>2, <2>3, <2>4, <2>5, <2>6
  <2> QED
    BY <1>1, <2>7 DEF Workers
<1> HIDE DEF w
<1>3. \A r \in requests : ~r.live
  BY DEF Inv, TypeOK, OneAwaited
<1>4. Latest(w.update) /\ Below(w.update.of) /\ Read(w.read)
  BY <1>1, <1>2 DEF Inv, PendingIsLatest, NothingAhead, ReadsAreRows
<1>5. ~landed => w.current = row /\ w.read = row
  BY <1>2 DEF Inv, RowIsKnown
<1>6. w.update.of <= mailbox.pending.of
  BY <1>1, <1>2 DEF Updates
<1>7. Ready(w)
  BY <1>1, <1>2, <1>3, <1>4, <1>5, <1>6 DEF Ready
<1> QED
  BY <1>7 DEF w

LEMMA TakePreserves == ASSUME Inv, Take PROVE Inv'
<1>1. CASE mailbox.pending = None
  <2> USE Facts DEF process, control
  <2>1. /\ row' = row /\ landed' = landed /\ mailbox' = mailbox /\ closing' = closing
        /\ UNCHANGED <<revision, factory, actor, publisher, gate, accepted, crashes, requests>>
        /\ worker' = [worker EXCEPT !.pc = "waiting"] /\ worker # None
    BY <1>1 DEF Take
  <2>2. /\ worker' \in Workers /\ worker' # None /\ worker'.pc = "waiting"
        /\ worker'.update = worker.update /\ worker'.read = worker.read
        /\ worker'.current = worker.current /\ worker'.final = worker.final
    BY <2>1 DEF Inv, TypeOK, Workers, Steps
  <2>3. unseen' \in BOOLEAN /\ worker.pc = "top"
    BY DEF Take
  <2>4. TypeOK'
    BY <2>1, <2>2, <2>3 DEF Inv, TypeOK
  <2>5. Shape'
    BY <1>1, <2>1, <2>2, <2>3 DEF Inv, Shape, Exited, Busy, Pending, Taken
  <2>6. NothingAhead' /\ PendingIsLatest'
    BY <1>1, <2>1, <2>2 DEF Inv, NothingAhead, Below, PendingIsLatest, Latest, Pending, Taken
  <2>7. ReadsAreRows' /\ RequestsAreNew'
    BY <2>1, <2>2 DEF Inv, ReadsAreRows, Read, RequestsAreNew
  <2>8. OneAwaited' /\ RowIsKnown'
    BY <2>1, <2>2, <2>3 DEF Inv, OneAwaited, RowIsKnown
  <2>9. AcceptedIsKept'
    BY <2>1 DEF Inv, AcceptedIsKept, Kept
  <2> QED
    BY <2>4, <2>5, <2>6, <2>7, <2>8, <2>9 DEF Inv
<1>2. CASE mailbox.pending # None
  <2>1. Ready([worker EXCEPT !.update = mailbox.pending, !.read = worker.current,
                             !.tries = 0, !.final = FALSE])
    BY <1>2, BeginIsReady DEF Take
  <2>2. Persist([worker EXCEPT !.update = mailbox.pending, !.read = worker.current,
                               !.tries = 0, !.final = FALSE])
    BY <1>2 DEF Take, Begin
  <2>3. unseen' \in BOOLEAN
    BY DEF Take
  <2>4. UNCHANGED <<row, landed, process, mailbox, control>>
    BY DEF Take
  <2> QED
    BY <2>1, <2>2, <2>3, <2>4, PersistPreserves
<1> QED
  BY <1>1, <1>2

LEMMA FlushPreserves == ASSUME Inv, Flush PROVE Inv'
<1>1. mailbox.pending # None /\ closing /\ worker # None /\ worker.pc = "backoff"
  BY DEF Flush, Inv, Shape, Busy, Pending
<1>2. Ready([worker EXCEPT !.update = mailbox.pending, !.read = worker.current,
                           !.tries = 0, !.final = TRUE])
  BY <1>1, BeginIsReady
<1>3. Persist([worker EXCEPT !.update = mailbox.pending, !.read = worker.current,
                             !.tries = 0, !.final = TRUE])
  BY <1>1 DEF Flush, Begin
<1>4. unseen' \in BOOLEAN
  BY DEF Flush, Inv, TypeOK
<1>5. UNCHANGED <<row, landed, process, mailbox, control>>
  BY DEF Flush
<1> QED
  BY <1>2, <1>3, <1>4, <1>5, PersistPreserves

LEMMA RereadPreserves == ASSUME Inv, Reread PROVE Inv'
<1> DEFINE w == [worker EXCEPT !.read = row, !.tries = @ + 1]
<1> USE Facts
<1>0. worker # None /\ worker.pc = "reading" /\ worker \in Workers /\ Pending /\ Taken
  BY DEF Reread, Inv, TypeOK, Shape, Busy
<1>1. CASE w.tries < MaxTries
  <2>1. row \in Rows /\ worker.tries + 1 < MaxTries /\ worker.tries \in Nat
    BY <1>0, <1>1 DEF Inv, TypeOK, Workers
  <2>2. /\ w \in Workers /\ w.update = worker.update /\ w.read = row
        /\ w.current = worker.current /\ w.final = worker.final
    <3>1. \A s \in Rows, n \in 0..MaxTries : [worker EXCEPT !.read = s, !.tries = n] \in Workers
      BY <1>0 DEF Workers
    <3>2. w = [worker EXCEPT !.read = row, !.tries = worker.tries + 1]
      BY <1>0 DEF Workers
    <3>3. worker.tries + 1 \in 0..MaxTries
      BY <2>1
    <3>4. w \in Workers
      BY <2>1, <3>1, <3>2, <3>3
    <3> QED
      BY <1>0, <3>4 DEF Workers
  <2>3. Persist(w) /\ unseen' = unseen /\ UNCHANGED <<row, landed, process, mailbox, control>>
    BY <1>1 DEF Reread
  <2> HIDE DEF w
  <2>4. \A r \in requests : ~r.live
    BY <1>0 DEF Inv, TypeOK, OneAwaited
  <2>5. /\ Latest(w.update) /\ Below(w.update.of) /\ w.update.of <= mailbox.pending.of
        /\ w.update.of = mailbox.pending.of => w.update = mailbox.pending
    BY <1>0, <2>2 DEF Inv, PendingIsLatest, NothingAhead
  <2>6. Read(w.read)
    BY <2>1, <2>2 DEF Read, Rows
  <2>7. ~landed => w.current = row /\ w.read = row
    BY <1>0, <2>2 DEF Inv, RowIsKnown
  <2>8. (w.final => closing) /\ w.update # None
    BY <1>0, <2>2 DEF Inv, Shape, Taken
  <2>9. Ready(w)
    BY <1>0, <2>2, <2>4, <2>5, <2>6, <2>7, <2>8 DEF Ready
  <2>10. unseen' \in BOOLEAN
    BY <2>3 DEF Inv, TypeOK
  <2> QED
    BY <2>3, <2>9, <2>10, PersistPreserves
<1>2. CASE ~(w.tries < MaxTries)
  <2>1. /\ row' = row /\ landed' = landed /\ mailbox' = mailbox /\ closing' = closing
        /\ UNCHANGED <<revision, factory, actor, publisher, gate, accepted, crashes, requests,
                       unseen>>
        /\ worker' = [worker EXCEPT !.pc = IF worker.final \/ closing THEN "failed" ELSE "backoff"]
    BY <1>2 DEF Reread, Failed, process, control
  <2>2. /\ worker' \in Workers /\ worker' # None
        /\ worker'.pc = IF worker.final \/ closing THEN "failed" ELSE "backoff"
        /\ worker'.update = worker.update /\ worker'.read = worker.read
        /\ worker'.current = worker.current /\ worker'.final = worker.final
    BY <1>0, <2>1 DEF Workers, Steps
  <2>3. worker.final => closing
    BY <1>0 DEF Inv, Shape
  <2>4. TypeOK' /\ Shape'
    BY <1>0, <2>1, <2>2, <2>3 DEF Inv, TypeOK, Shape, Exited, Busy, Pending, Taken
  <2>5. NothingAhead' /\ PendingIsLatest'
    BY <1>0, <2>1, <2>2 DEF Inv, NothingAhead, Below, PendingIsLatest, Latest, Pending, Taken
  <2>6. ReadsAreRows' /\ RequestsAreNew'
    BY <1>0, <2>1, <2>2 DEF Inv, ReadsAreRows, Read, RequestsAreNew
  <2>7. OneAwaited' /\ RowIsKnown'
    BY <1>0, <2>1, <2>2 DEF Inv, OneAwaited, RowIsKnown
  <2>8. AcceptedIsKept'
    BY <2>1 DEF Inv, AcceptedIsKept, Kept
  <2> QED
    BY <2>4, <2>5, <2>6, <2>7, <2>8 DEF Inv
<1> QED
  BY <1>1, <1>2

-----------------------------------------------------------------------------
(* The theorems.                                                           *)

LEMMA StutterPreserves == ASSUME Inv, UNCHANGED vars PROVE Inv'
<1> USE DEF vars
<1>1. TypeOK' /\ Shape'
  BY DEF Inv, TypeOK, Shape, Exited, Busy, Pending, Taken
<1>2. NothingAhead' /\ PendingIsLatest' /\ ReadsAreRows' /\ RequestsAreNew'
  BY DEF Inv, NothingAhead, Below, PendingIsLatest, Latest, ReadsAreRows, Read,
         RequestsAreNew, Pending, Taken
<1>3. OneAwaited' /\ RowIsKnown' /\ AcceptedIsKept'
  BY DEF Inv, OneAwaited, RowIsKnown, AcceptedIsKept, Kept
<1> QED
  BY <1>1, <1>2, <1>3 DEF Inv

\* Every step of the settings' way to the database preserves the invariant.
LEMMA NextPreserves == Inv /\ [Next]_vars => Inv'
<1> SUFFICES ASSUME Inv, [Next]_vars PROVE Inv'
  OBVIOUS
<1>1. CASE ReadRow \/ ReadView \/ CreateFails \/ StartActor
  BY <1>1, ReadRowPreserves, ReadViewPreserves, CreateFailsPreserves, StartActorPreserves
<1>2. ASSUME NEW v \in Values \ Retired, Change(v) PROVE Inv'
  BY <1>2, ChangePreserves
<1>3. CASE Publish \/ EndActor
  BY <1>3, PublishPreserves, EndActorPreserves
<1>4. CASE Work
  BY <1>4, TakePreserves, WaitPreserves, RecordPreserves, FinalDonePreserves, RereadPreserves,
     RetryPreserves, FlushPreserves DEF Work
<1>5. CASE WriteFails
  BY <1>5, WriteFailsPreserves
<1>6. ASSUME NEW r \in requests, Arrive(r) \/ Lose(r) PROVE Inv'
  BY <1>6, ArrivePreserves, LosePreserves
<1>7. CASE BeginShutdown \/ Restart
  BY <1>7, BeginShutdownPreserves, RestartPreserves
<1>8. CASE UNCHANGED vars
  BY <1>8, StutterPreserves
<1> QED
  BY <1>1, <1>2, <1>3, <1>4, <1>5, <1>6, <1>7, <1>8 DEF Next

\* The inductive invariant holds in every state.
THEOREM InvariantHolds == Spec => []Inv
<1> QED
  BY Initially, NextPreserves, PTL DEF Spec

\* TypeOK: every variable keeps its type, the bounds of the counters included.
THEOREM TypeCorrect == Spec => []TypeOK
<1>1. Inv => TypeOK
  BY DEF Inv
<1> QED
  BY <1>1, InvariantHolds, PTL

\* A worker with nothing left to do has the accepted settings in the row, unless
\* an update that had timed out reached the row afterwards.
THEOREM SettledHolds == Spec => []SettledIsDurable
<1>1. Inv => SettledIsDurable
  <2> SUFFICES ASSUME Inv, worker # None, worker.pc = "waiting", ~unseen, ~closing,
                      accepted # None, ~landed
               PROVE  row.value = accepted
    BY DEF Inv, SettledIsDurable
  <2>1. mailbox.pending = None
    BY DEF Inv, Shape
  <2>2. mailbox.durable = row
    BY DEF Inv, Shape, RowIsKnown
  <2>3. Kept(accepted)
    BY DEF Inv, AcceptedIsKept
  <2> QED
    BY <2>1, <2>2, <2>3 DEF Kept
<1> QED
  BY <1>1, InvariantHolds, PTL

\* Every step that changes the row is the arrival of an update.
LEMMA RowChanges ==
  ASSUME Inv, [Next]_vars, row' # row
  PROVE  \E r \in requests : row' = [value |-> r.value, rev |-> row.rev + 1, of |-> r.of]
                             /\ Matches(r)
<1>1. ASSUME NEW r \in requests, Arrive(r)
      PROVE  row' = [value |-> r.value, rev |-> row.rev + 1, of |-> r.of] /\ Matches(r)
  BY <1>1 DEF Arrive
<1>2. ASSUME NEW v \in Values \ Retired, Change(v) PROVE row' = row
  BY <1>2 DEF Change, database
<1>3. CASE ReadRow \/ ReadView \/ CreateFails \/ StartActor
  BY <1>3 DEF ReadRow, ReadView, CreateFails, StartActor, database
<1>4. CASE Publish \/ EndActor \/ WriteFails \/ BeginShutdown \/ Restart
  BY <1>4 DEF Publish, EndActor, WriteFails, BeginShutdown, Restart, database
<1>5. CASE Work
  BY <1>5 DEF Work, Take, Wait, Record, FinalDone, Reread, Retry, Flush, database
<1>6. ASSUME NEW r \in requests, Lose(r) PROVE row' = row
  BY <1>6 DEF Lose
<1> QED
  BY <1>1, <1>2, <1>3, <1>4, <1>5, <1>6 DEF Next, vars

\* The settings in the row never get older.
LEMMA RowStep == ASSUME Inv, [Next]_vars PROVE [row'.of >= row.of]_row
<1> SUFFICES ASSUME row' # row PROVE row'.of >= row.of
  OBVIOUS
<1>1. PICK r \in requests : /\ row' = [value |-> r.value, rev |-> row.rev + 1, of |-> r.of]
                            /\ Matches(r)
  BY RowChanges
<1>2. row.of <= r.of /\ r.of \in Int /\ row.of \in Int
  BY <1>1 DEF Inv, RequestsAreNew, Matches, TypeOK, Rows
<1> QED
  BY <1>1, <1>2

\* Only the factory starts an actor where there was none.
LEMMA ActorStarts ==
  ASSUME Inv, [Next]_vars, actor = None, actor' # None
  PROVE  StartActor
<1>1. ASSUME NEW v \in Values \ Retired PROVE ~Change(v)
  BY DEF Change
<1>2. CASE ReadRow \/ ReadView \/ CreateFails
  BY <1>2 DEF ReadRow, ReadView, CreateFails
<1>3. CASE Publish \/ EndActor \/ WriteFails \/ BeginShutdown \/ Restart
  BY <1>3 DEF Publish, EndActor, WriteFails, BeginShutdown, Restart, process
<1>4. CASE Work
  BY <1>4 DEF Work, Take, Wait, Record, FinalDone, Reread, Retry, Flush, process
<1>5. ASSUME NEW r \in requests, Arrive(r) \/ Lose(r) PROVE actor' = actor
  BY <1>5 DEF Arrive, Lose, process
<1> QED
  BY <1>1, <1>2, <1>3, <1>4, <1>5 DEF Next, vars

LEMMA RecreationStep ==
  ASSUME Inv, [Next]_vars
  PROVE  [actor = None /\ actor' # None /\ accepted # None /\ ~landed => actor' = accepted]_vars
<1> SUFFICES ASSUME actor = None, actor' # None, accepted # None, ~landed
             PROVE  actor' = accepted
  OBVIOUS
<1>1. StartActor
  BY ActorStarts
<1>2. factory.pc = "view" /\ ~closing /\ actor' = factory.initial
  BY <1>1 DEF StartActor
<1>3. factory.initial = accepted
  BY <1>2 DEF Inv, AcceptedIsKept
<1> QED
  BY <1>2, <1>3

\* Neither the row nor a player that is created again goes back to older
\* settings, whichever updates arrive late or out of order.
THEOREM SettingsNeverGoBack == Spec => SettingsMoveForward
<1>1. Spec => RowMovesForward
  <2>1. Inv /\ [Next]_vars => [row'.of >= row.of]_row
    BY RowStep
  <2> QED
    BY <2>1, InvariantHolds, PTL DEF Spec, RowMovesForward
<1>2. Spec => RecreationKeepsSettings
  <2>1. Inv /\ [Next]_vars =>
          [actor = None /\ actor' # None /\ accepted # None /\ ~landed => actor' = accepted]_vars
    BY RecreationStep
  <2> QED
    BY <2>1, InvariantHolds, PTL DEF Spec, RecreationKeepsSettings
<1> QED
  BY <1>1, <1>2 DEF SettingsMoveForward

=============================================================================
