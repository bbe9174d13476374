----------------------------- MODULE MediaProofs -----------------------------
(***************************************************************************)
(* Theorems about ManagedMedia for any number of ingests and every quota:  *)
(* a leased object is never deleted, and the ledger's account is exact and *)
(* within the quota; and about AudioRenderer for every preset, partition   *)
(* and block: what is heard is the convolution of the music, from its place,*)
(* and no fade and no ramp clicks.                                         *)
(***************************************************************************)
EXTENDS MCMedia, FiniteSetTheorems, SequenceTheorems, WellFoundedInduction, TLAPS

Tasks == {"new", "reclaiming", "retry", "fetching", "writing", "committed", "checked",
          "leased", "rejected", "removing", "done"}

\* The ingest is under way and its object not leased yet.
Young == {"new", "reclaiming", "retry", "fetching", "writing", "committed", "checked"}

Scans == [owner : {"none", "periodic"} \cup Files,
          phase : {"idle", "scan", "apply", "verified", "remove"},
          todo : SUBSET Paths, at : SUBSET Paths]

-----------------------------------------------------------------------------
(* The inductive invariant, in named parts.                                *)

\* The types of the variables the argument is about.
Types ==
  /\ disk \subseteq Paths /\ old \subseteq Files
  /\ task \in [Files -> Tasks]
  /\ holders \in [Files -> SUBSET {"batch", "player"}]
  /\ registry \in [Paths -> {"none", "leased", "deleting"}]
  /\ scan \in Scans
  /\ late \subseteq {"create", "remove"} \X Paths

\* A lease is registered for as long as somebody holds it; its file exists and
\* the ingest is past acquire.
LeasesHold ==
  \A f \in Files : holders[f] # {} =>
    registry[Obj(f)] = "leased" /\ Obj(f) \in disk /\ task[f] \notin Young

\* So does the file between the two halves of acquire.
CheckedExists == \A f \in Files : task[f] = "checked" => Obj(f) \in disk

\* A removal whose caller was cancelled is about a file nobody will lease.
LateRemovals ==
  \A f \in Files : <<"remove", Obj(f)>> \in late => holders[f] = {} /\ task[f] \notin Young

\* Whoever removes a file holds the permit for it, and holds it alone.
PermitsHeld ==
  /\ \A f \in Files : task[f] = "removing" =>
       /\ registry[Obj(f)] = "deleting"
       /\ ~(scan.phase = "remove" /\ Obj(f) \in scan.at)
  /\ scan.phase = "remove" => \A p \in scan.at : registry[p] = "deleting"

\* What the janitor looks at is old, and the ingest of what is old has ended.
OldIsSettled ==
  /\ \A f \in old : task[f] \notin Young
  /\ \A p \in scan.todo \cup scan.at : p[1] \in old

\* An ingest that scans waits for its scan.
ScanOwner == scan.owner \in Files => task[scan.owner] = "reclaiming"

Inv == /\ Types
       /\ LeasesHold
       /\ CheckedExists
       /\ LateRemovals
       /\ PermitsHeld
       /\ OldIsSettled
       /\ ScanOwner

-----------------------------------------------------------------------------

\* A path is the partial file or the object of one ingest.
LEMMA PathFacts ==
  /\ \A f \in Files : Obj(f) \in Paths /\ Part(f) \in Paths /\ Obj(f)[1] = f /\ Part(f)[1] = f
  /\ \A f, g \in Files : Obj(f) # Part(g) /\ (Obj(f) = Obj(g) => f = g)
  /\ \A p \in Paths : p[1] \in Files
BY DEF Paths, Obj, Part

-----------------------------------------------------------------------------
(* One lemma per action.                                                   *)

\* What an ingest does up to the committed file only adds to the disk, except
\* for its own partial file, and touches no lease, permit or scan.
LEMMA FetchFrame ==
  ASSUME Inv, NEW f \in Files, Fetch(f)
  PROVE  /\ task[f] \in {"new", "retry", "fetching", "writing"}
         /\ \E t \in Tasks \ {"checked", "removing"} : task' = [task EXCEPT ![f] = t]
         /\ \A p \in disk : p # Part(f) => p \in disk'
         /\ disk' \subseteq disk \cup {Part(f), Obj(f)}
         /\ \A op \in late' : op \in late \/ op = <<"create", Part(f)>>
         /\ UNCHANGED <<old, holders, registry, scan>>
<1> USE DEF Inv, Types, Tasks
<1>1. CASE \E bytes \in 1..MaxDownload : Reserve(f, bytes) \/ GrowReservation(f, bytes)
  BY <1>1 DEF Reserve, GrowReservation
<1>2. CASE Begin(f) \/ Write(f) \/ Commit(f)
  BY <1>2 DEF Begin, Write, Commit
<1>3. CASE AbortFetch(f) \/ AbortWrite(f) \/ RetainFailedFile(f)
  BY <1>3 DEF AbortFetch, AbortWrite, RetainFailedFile
<1> QED  BY <1>1, <1>2, <1>3 DEF Fetch

\* Hence the steps of Fetch keep the invariant.
LEMMA FetchInv ==
  ASSUME Inv, NEW f \in Files, Fetch(f)
  PROVE  Inv'
<1> USE FetchFrame, PathFacts DEF Inv
<1>1. Types' /\ ScanOwner'
  BY DEF Types, ScanOwner
<1>2. LeasesHold' /\ CheckedExists' /\ LateRemovals'
  BY DEF Types, LeasesHold, CheckedExists, LateRemovals, Young
<1>3. PermitsHeld' /\ OldIsSettled'
  BY DEF Types, PermitsHeld, OldIsSettled, Young
<1> QED  BY <1>1, <1>2, <1>3 DEF Inv

\* Reject: a rejected object is not leased.
LEMMA RejectInv ==
  ASSUME Inv, NEW f \in Files, Reject(f)
  PROVE  Inv'
<1> USE DEF Inv, Reject
<1>1. Types' /\ ScanOwner'
  BY DEF Types, Tasks, ScanOwner
<1>2. LeasesHold' /\ CheckedExists' /\ LateRemovals'
  BY DEF Young, LeasesHold, CheckedExists, LateRemovals
<1>3. PermitsHeld' /\ OldIsSettled'
  BY DEF Young, PermitsHeld, OldIsSettled
<1> QED  BY <1>1, <1>2, <1>3

\* InspectObject: the first half of acquire finds the file, or gives up.
LEMMA InspectObjectInv ==
  ASSUME Inv, NEW f \in Files, InspectObject(f)
  PROVE  Inv'
<1> USE DEF Inv, InspectObject
<1>1. Types' /\ ScanOwner'
  BY DEF Types, Tasks, ScanOwner
<1>2. LeasesHold' /\ CheckedExists' /\ LateRemovals'
  BY DEF Young, LeasesHold, CheckedExists, LateRemovals
<1>3. PermitsHeld' /\ OldIsSettled'
  BY DEF Young, PermitsHeld, OldIsSettled
<1> QED  BY <1>1, <1>2, <1>3

\* Acquire: in the second half the file still exists; no permit is out, and no late
\* removal is about it.
LEMMA AcquireInv ==
  ASSUME Inv, NEW f \in Files, Acquire(f)
  PROVE  Inv'
<1> USE DEF Inv, Acquire, Types
<1>1. Types' /\ ScanOwner'
  BY DEF Tasks, ScanOwner
<1>2. LeasesHold' /\ CheckedExists' /\ LateRemovals'
  BY DEF Young, LeasesHold, CheckedExists, LateRemovals
<1>3. PermitsHeld' /\ OldIsSettled'
  BY PathFacts DEF Young, Scans, PermitsHeld, OldIsSettled
<1> QED  BY <1>1, <1>2, <1>3

\* Enqueue: a second clone of a lease that is held.
LEMMA EnqueueInv ==
  ASSUME Inv, NEW f \in Files, Enqueue(f)
  PROVE  Inv'
<1> USE DEF Inv, Enqueue
<1>1. Types' /\ ScanOwner'
  BY DEF Types, ScanOwner
<1>2. LeasesHold' /\ CheckedExists' /\ LateRemovals'
  BY DEF LeasesHold, CheckedExists, LateRemovals
<1>3. PermitsHeld' /\ OldIsSettled'
  BY DEF PermitsHeld, OldIsSettled
<1> QED  BY <1>1, <1>2, <1>3

\* PlayerDrops: the registration goes with the last clone.
LEMMA PlayerDropsInv ==
  ASSUME Inv, NEW f \in Files, PlayerDrops(f)
  PROVE  Inv'
<1> USE DEF Inv, PlayerDrops, DropClone
<1>1. Types' /\ ScanOwner'
  BY DEF Types, ScanOwner
<1>2. LeasesHold' /\ CheckedExists' /\ LateRemovals'
  BY PathFacts DEF Types, LeasesHold, CheckedExists, LateRemovals
<1>3. PermitsHeld' /\ OldIsSettled'
  BY DEF LeasesHold, PermitsHeld, OldIsSettled
<1> QED  BY <1>1, <1>2, <1>3

\* BatchDropped: likewise, and the ingest is over.
LEMMA BatchDroppedInv ==
  ASSUME Inv, NEW f \in Files, BatchDropped(f)
  PROVE  Inv'
<1> USE DEF Inv, BatchDropped, DropClone, Young, LeasesHold
<1>1. Types' /\ ScanOwner'
  BY DEF Types, Tasks, ScanOwner
<1>2. LeasesHold' /\ CheckedExists' /\ LateRemovals'
  BY PathFacts DEF Types, CheckedExists, LateRemovals
<1>3. PermitsHeld' /\ OldIsSettled'
  BY DEF PermitsHeld, OldIsSettled
<1> QED  BY <1>1, <1>2, <1>3

\* DiscardTrack: likewise, and the file is to be discarded.
LEMMA DiscardTrackInv ==
  ASSUME Inv, NEW f \in Files, DiscardTrack(f)
  PROVE  Inv'
<1> USE DEF Inv, DiscardTrack, DropClone, Young, LeasesHold
<1>1. Types' /\ ScanOwner'
  BY DEF Types, Tasks, ScanOwner
<1>2. LeasesHold' /\ CheckedExists' /\ LateRemovals'
  BY PathFacts DEF Types, CheckedExists, LateRemovals
<1>3. PermitsHeld' /\ OldIsSettled'
  BY DEF PermitsHeld, OldIsSettled
<1> QED  BY <1>1, <1>2, <1>3

\* BeginDiscard: the permit is taken where there is neither lease nor permit.
LEMMA BeginDiscardInv ==
  ASSUME Inv, NEW f \in Files, BeginDiscard(f)
  PROVE  Inv'
<1> USE DEF Inv, BeginDiscard, BeginDeletion, Types
<1>1. Types' /\ ScanOwner'
  BY DEF Tasks, ScanOwner
<1>2. LeasesHold' /\ CheckedExists' /\ LateRemovals'
  BY DEF Young, LeasesHold, CheckedExists, LateRemovals
<1>3. PermitsHeld' /\ OldIsSettled'
  BY PathFacts DEF Young, Scans, PermitsHeld, OldIsSettled
<1> QED  BY <1>1, <1>2, <1>3

\* RemoveDiscarded: the permit excludes a lease.
LEMMA RemoveDiscardedInv ==
  ASSUME Inv, NEW f \in Files, RemoveDiscarded(f)
  PROVE  Inv'
<1> USE DEF Inv, RemoveDiscarded, DropPermit
<1>1. Types' /\ ScanOwner'
  BY DEF Types, Tasks, ScanOwner
<1>2. LeasesHold' /\ CheckedExists' /\ LateRemovals'
  BY PathFacts DEF Young, LeasesHold, CheckedExists, LateRemovals, PermitsHeld
<1>3. PermitsHeld' /\ OldIsSettled'
  BY PathFacts DEF Types, Young, PermitsHeld, OldIsSettled
<1> QED  BY <1>1, <1>2, <1>3

\* AbortDiscard: a removal that goes on is of a file nobody leases any more.
LEMMA AbortDiscardInv ==
  ASSUME Inv, NEW f \in Files, AbortDiscard(f)
  PROVE  Inv'
<1> USE PathFacts DEF Inv, AbortDiscard, DropPermit
<1>1. Types' /\ ScanOwner'
  BY DEF Types, Tasks, ScanOwner
<1>2. LeasesHold' /\ CheckedExists' /\ LateRemovals'
  BY DEF Young, LeasesHold, CheckedExists, LateRemovals, PermitsHeld
<1>3. PermitsHeld' /\ OldIsSettled'
  BY DEF Types, Young, PermitsHeld, OldIsSettled
<1> QED  BY <1>1, <1>2, <1>3

\* CancelIngest: the file stays.
LEMMA CancelIngestInv ==
  ASSUME Inv, NEW f \in Files, CancelIngest(f)
  PROVE  Inv'
<1> USE DEF Inv, CancelIngest
<1>1. Types' /\ ScanOwner'
  BY DEF Types, Tasks, ScanOwner
<1>2. LeasesHold' /\ CheckedExists' /\ LateRemovals'
  BY DEF Young, LeasesHold, CheckedExists, LateRemovals
<1>3. PermitsHeld' /\ OldIsSettled'
  BY DEF Young, PermitsHeld, OldIsSettled
<1> QED  BY <1>1, <1>2, <1>3

\* StartScan: the janitor starts with nothing to look at.
LEMMA StartScanInv ==
  ASSUME Inv, NEW owner, StartScan(owner)
  PROVE  Inv'
<1> USE DEF Inv, StartScan, NoScan
<1>0. scan' \in Scans
  BY DEF Scans
<1>1. Types' /\ ScanOwner'
  BY <1>0, FilesAssumption DEF Types, ScanOwner
<1>2. LeasesHold' /\ CheckedExists' /\ LateRemovals'
  BY <1>0 DEF LeasesHold, CheckedExists, LateRemovals
<1>3. PermitsHeld' /\ OldIsSettled'
  BY <1>0 DEF PermitsHeld, OldIsSettled
<1> QED  BY <1>1, <1>2, <1>3

\* InspectEntry: only an old file becomes a candidate.
LEMMA InspectEntryInv ==
  ASSUME Inv, NEW path \in Paths, InspectEntry(path)
  PROVE  Inv'
<1> USE DEF Inv, InspectEntry
<1>1. Types' /\ ScanOwner'
  BY DEF Types, Scans, ScanOwner
<1>2. LeasesHold' /\ CheckedExists' /\ LateRemovals'
  BY DEF LeasesHold, CheckedExists, LateRemovals
<1>3. PermitsHeld' /\ OldIsSettled'
  BY DEF PermitsHeld, OldIsSettled
<1> QED  BY <1>1, <1>2, <1>3

\* EndInspection: on to the removals.
LEMMA EndInspectionInv ==
  ASSUME Inv, EndInspection
  PROVE  Inv'
<1> USE DEF Inv, EndInspection
<1>1. Types' /\ ScanOwner'
  BY DEF Types, Scans, ScanOwner
<1>2. LeasesHold' /\ CheckedExists' /\ LateRemovals'
  BY DEF LeasesHold, CheckedExists, LateRemovals
<1>3. PermitsHeld' /\ OldIsSettled'
  BY DEF PermitsHeld, OldIsSettled
<1> QED  BY <1>1, <1>2, <1>3

\* VerifyUnchanged: the next candidate.
LEMMA VerifyUnchangedInv ==
  ASSUME Inv, NEW path \in Paths, VerifyUnchanged(path)
  PROVE  Inv'
<1> USE DEF Inv, VerifyUnchanged
<1>0. scan' \in Scans
  BY DEF Types, Scans
<1>1. Types' /\ ScanOwner'
  BY <1>0 DEF Types, ScanOwner
<1>2. LeasesHold' /\ CheckedExists' /\ LateRemovals'
  BY <1>0 DEF LeasesHold, CheckedExists, LateRemovals
<1>3. PermitsHeld' /\ OldIsSettled'
  BY <1>0 DEF PermitsHeld, OldIsSettled
<1> QED  BY <1>1, <1>2, <1>3

\* TakePermit: the permit is taken where there is neither lease nor permit.
LEMMA TakePermitInv ==
  ASSUME Inv, NEW path \in Paths, TakePermit(path)
  PROVE  Inv'
<1> USE DEF Inv, TakePermit, BeginDeletion
<1>1. Types' /\ ScanOwner'
  BY DEF Types, Scans, ScanOwner
<1>2. LeasesHold' /\ CheckedExists' /\ LateRemovals'
  BY DEF LeasesHold, CheckedExists, LateRemovals
<1>3. PermitsHeld' /\ OldIsSettled'
  BY DEF Types, PermitsHeld, OldIsSettled
<1> QED  BY <1>1, <1>2, <1>3

\* ActivelyLeased: a leased candidate is skipped.
LEMMA ActivelyLeasedInv ==
  ASSUME Inv, NEW path \in Paths, ActivelyLeased(path)
  PROVE  Inv'
<1> USE DEF Inv, ActivelyLeased
<1>0. scan' \in Scans
  BY DEF Types, Scans
<1>1. Types' /\ ScanOwner'
  BY <1>0 DEF Types, ScanOwner
<1>2. LeasesHold' /\ CheckedExists' /\ LateRemovals'
  BY <1>0 DEF LeasesHold, CheckedExists, LateRemovals
<1>3. PermitsHeld' /\ OldIsSettled'
  BY <1>0 DEF PermitsHeld, OldIsSettled
<1> QED  BY <1>1, <1>2, <1>3

\* RemoveFile: the permit excludes a lease, and an old file is not being leased.
LEMMA RemoveFileInv ==
  ASSUME Inv, NEW path \in Paths, RemoveFile(path)
  PROVE  Inv'
<1> USE DEF Inv, RemoveFile, DropPermit
<1>0. scan' \in Scans
  BY DEF Types, Scans
<1>1. Types' /\ ScanOwner'
  BY <1>0 DEF Types, ScanOwner
<1>2. LeasesHold' /\ CheckedExists' /\ LateRemovals'
  BY <1>0, PathFacts DEF Young, LeasesHold, CheckedExists, LateRemovals, PermitsHeld,
     OldIsSettled
<1>3. PermitsHeld' /\ OldIsSettled'
  BY <1>0 DEF PermitsHeld, OldIsSettled
<1> QED  BY <1>1, <1>2, <1>3

\* EndScan: the ingest that waited for the scan tries again.
LEMMA EndScanInv ==
  ASSUME Inv, EndScan
  PROVE  Inv'
<1> USE DEF Inv, EndScan, NoScan, ScanOwner
<1>1. Types' /\ ScanOwner'
  BY FilesAssumption DEF Types, Tasks, Scans
<1>2. LeasesHold' /\ CheckedExists' /\ LateRemovals'
  BY DEF Young, LeasesHold, CheckedExists, LateRemovals
<1>3. PermitsHeld' /\ OldIsSettled'
  BY DEF Types, Young, PermitsHeld, OldIsSettled
<1> QED  BY <1>1, <1>2, <1>3

\* CancelScan: the removal that goes on is of an old file nobody leases.
LEMMA CancelScanInv ==
  ASSUME Inv, NEW f \in Files, CancelScan(f)
  PROVE  Inv'
<1> USE DEF Inv, CancelScan, NoScan
<1>1. Types' /\ ScanOwner'
  BY FilesAssumption DEF Types, Tasks, Scans, ScanOwner
<1>2. LeasesHold' /\ CheckedExists' /\ LateRemovals'
  BY PathFacts DEF Young, LeasesHold, CheckedExists, LateRemovals, PermitsHeld, OldIsSettled
<1>3. PermitsHeld' /\ OldIsSettled'
  BY PathFacts DEF Young, PermitsHeld, OldIsSettled
<1> QED  BY <1>1, <1>2, <1>3

\* CompleteLate: what is removed late has no lease and gets none.
LEMMA CompleteLateInv ==
  ASSUME Inv, NEW op \in late, CompleteLate(op)
  PROVE  Inv'
<1> USE DEF Inv, CompleteLate
<1>1. Types' /\ ScanOwner'
  BY DEF Types, ScanOwner
<1>2. LeasesHold' /\ CheckedExists' /\ LateRemovals'
  BY DEF Types, Young, LeasesHold, CheckedExists, LateRemovals
<1>3. PermitsHeld' /\ OldIsSettled'
  BY DEF PermitsHeld, OldIsSettled
<1> QED  BY <1>1, <1>2, <1>3

\* Age: only what is settled gets old.
LEMMA AgeInv ==
  ASSUME Inv, NEW f \in Files, Age(f)
  PROVE  Inv'
<1> USE DEF Inv, Age
<1>1. Types' /\ ScanOwner'
  BY DEF Types, ScanOwner
<1>2. LeasesHold' /\ CheckedExists' /\ LateRemovals'
  BY DEF LeasesHold, CheckedExists, LateRemovals
<1>3. PermitsHeld' /\ OldIsSettled'
  BY DEF Young, PermitsHeld, OldIsSettled
<1> QED  BY <1>1, <1>2, <1>3

\* Restart: a new process has no leases, permits, scan or operations.
LEMMA RestartInv ==
  ASSUME Inv, Restart
  PROVE  Inv'
<1> USE DEF Inv, Restart, NoScan
<1>1. Types' /\ ScanOwner'
  BY FilesAssumption DEF Types, Tasks, Scans, ScanOwner
<1>2. LeasesHold' /\ CheckedExists' /\ LateRemovals'
  BY DEF LeasesHold, CheckedExists, LateRemovals
<1>3. PermitsHeld' /\ OldIsSettled'
  BY DEF Types, Young, PermitsHeld, OldIsSettled
<1> QED  BY <1>1, <1>2, <1>3

-----------------------------------------------------------------------------
(* The leases.                                                             *)

\* Every step of the ingests, the players, the janitor and the file system
\* keeps the invariant.
LEMMA StepInv == Inv /\ [Next]_vars => Inv'
<1>1. ASSUME Inv, Next PROVE Inv'
  <2>1. ASSUME NEW f \in Files, Ingest(f) PROVE Inv'
    BY <1>1, <2>1, RejectInv, InspectObjectInv, AcquireInv, BeginDiscardInv,
       RemoveDiscardedInv, AbortDiscardInv, CancelIngestInv, CancelScanInv
    DEF Ingest
  <2>2. ASSUME NEW f \in Files, Playback(f) PROVE Inv'
    BY <1>1, <2>2, EnqueueInv, PlayerDropsInv, BatchDroppedInv, DiscardTrackInv DEF Playback
  <2>3. CASE Janitor
    BY <1>1, <2>3, StartScanInv, InspectEntryInv, EndInspectionInv, VerifyUnchangedInv,
       TakePermitInv, ActivelyLeasedInv, RemoveFileInv, EndScanInv
    DEF Janitor
  <2> QED
    BY <1>1, <2>1, <2>2, <2>3, FetchInv, AgeInv, CompleteLateInv, RestartInv DEF Next
<1>2. ASSUME Inv, UNCHANGED vars PROVE Inv'
  BY <1>2 DEF vars, Inv, Types, LeasesHold, CheckedExists, LateRemovals, PermitsHeld,
              OldIsSettled, ScanOwner
<1> QED  BY <1>1, <1>2

\* The inductive invariant holds in every reachable state.
THEOREM Invariance == Spec => []Inv
<1>1. Init => Inv
  BY PathFacts, FilesAssumption
  DEF Init, NoScan, Inv, Types, Tasks, Scans, LeasesHold, CheckedExists, LateRemovals,
      PermitsHeld, OldIsSettled, ScanOwner
<1> QED  BY <1>1, StepInv, PTL DEF Spec

\* The file of a leased object stays: no scan, discard or removal whose caller
\* was cancelled, in whatever order, deletes it.
THEOREM LeaseProtectsFile == Spec => []LeasedFileExists
<1>1. Inv => LeasedFileExists
  BY DEF Inv, LeasesHold, LeasedFileExists
<1> QED  BY <1>1, Invariance, PTL

-----------------------------------------------------------------------------
(* The quota.                                                              *)

Entries == [path : Paths, bytes : 0..MaxDownload]

\* What only a download that has not ended is.
Early == {"new", "reclaiming", "retry", "fetching", "writing"}

QuotaTypes ==
  /\ size \in [Files -> 0..MaxDownload] /\ hold \in [Files -> 0..MaxDownload]
  /\ entries \subseteq Entries
  /\ charged \in Nat /\ reservations \in Nat

\* A download has a reservation while it is fetched and written, at least as large
\* as what it has written.
ReservedWhileFetched ==
  \A f \in Files : /\ hold[f] > 0 <=> task[f] \in {"fetching", "writing"}
                   /\ task[f] \in {"new", "reclaiming", "retry", "fetching"} => size[f] = 0
                   /\ task[f] = "writing" => size[f] <= hold[f]

\* A file is charged as an entry when its download has ended, and only then.
EntriesAreSettled ==
  /\ \A e \in entries : task[e.path[1]] \notin Early
  /\ \A p \in disk : task[p[1]] # "new"
  /\ \A op \in late : op[1] = "create" => task[op[2][1]] # "new"

\* The ledger's account of a set of entries and a function of reserved bytes.
HeldOf(h) == UNION {{f} \X (1..h[f]) : f \in Files}

Balanced ==
  /\ charged = Cardinality(EntryBytes(entries)) + Cardinality(HeldBytes)
  /\ charged <= MaximumBytes
  /\ reservations = Cardinality({f \in Files : hold[f] > 0})
  /\ Cardinality(entries) + reservations <= MaximumEntries

QuotaInv == QuotaTypes /\ ReservedWhileFetched /\ EntriesAreSettled /\ Balanced

-----------------------------------------------------------------------------
(* The sizes of the sets of bytes.                                         *)

LEMMA Bounds ==
  /\ MaximumBytes \in Nat /\ MaximumEntries \in Nat /\ MaxDownload \in Nat /\ MaxDownload > 0
  /\ IsFiniteSet(Files)
BY QuotaAssumption

LEMMA EntriesFinite == IsFiniteSet(Entries) /\ IsFiniteSet(Paths)
<1> DEFINE pairs == Paths \X (0..MaxDownload)
           entry == [q \in pairs |-> [path |-> q[1], bytes |-> q[2]]]
<1>1. IsFiniteSet({"part", "object"})
  <2>1. {"part", "object"} = {"part"} \cup {"object"}
    OBVIOUS
  <2>2. IsFiniteSet({"part"}) /\ IsFiniteSet({"object"})
    BY FS_Singleton
  <2>3. IsFiniteSet({"part"} \cup {"object"})
    BY <2>2, FS_Union
  <2> QED  BY <2>1, <2>3
<1>2. IsFiniteSet(Paths)
  BY <1>1, Bounds, FS_Product DEF Paths
<1>3. IsFiniteSet(0..MaxDownload)
  BY Bounds, FS_Interval
<1>4. IsFiniteSet(pairs)
  BY <1>2, <1>3, FS_Product
<1>5. entry \in Surjection(pairs, Entries)
  <2>1. entry \in [pairs -> Entries]
    BY DEF Entries
  <2>2. ASSUME NEW e \in Entries PROVE \E q \in pairs : entry[q] = e
    <3>1. <<e.path, e.bytes>> \in pairs /\ e = [path |-> e.path, bytes |-> e.bytes]
      BY DEF Entries
    <3>2. entry[<<e.path, e.bytes>>] = e
      BY <3>1
    <3> QED  BY <3>1, <3>2
  <2> QED  BY <2>1, <2>2 DEF Surjection
<1> HIDE DEF pairs, entry
<1> QED  BY <1>2, <1>4, <1>5, FS_Surjection

\* The bytes of one entry, or of one reservation.
LEMMA BytesOfOne ==
  ASSUME NEW x, NEW n \in 0..MaxDownload
  PROVE  IsFiniteSet({x} \X (1..n)) /\ Cardinality({x} \X (1..n)) = n
<1>1. n \in Nat /\ n \in Int /\ 1 \in Int
  BY Bounds
<1>2. IsFiniteSet(1..n) /\ Cardinality(1..n) = n
  BY <1>1, FS_Interval
<1>3. IsFiniteSet({x}) /\ Cardinality({x}) = 1
  BY FS_Singleton
<1>4. /\ IsFiniteSet({x} \X (1..n))
      /\ Cardinality({x} \X (1..n)) = Cardinality({x}) * Cardinality(1..n)
  BY <1>2, <1>3, FS_Product
<1> QED  BY <1>1, <1>2, <1>3, <1>4

LEMMA BytesFinite ==
  ASSUME NEW es \in SUBSET Entries
  PROVE  /\ IsFiniteSet(es) /\ Cardinality(es) \in Nat
         /\ IsFiniteSet(EntryBytes(es)) /\ Cardinality(EntryBytes(es)) \in Nat
<1>1. IsFiniteSet(es)
  BY EntriesFinite, FS_Subset
<1>2. IsFiniteSet(1..MaxDownload)
  BY Bounds, FS_Interval
<1>3. IsFiniteSet(es \X (1..MaxDownload))
  BY <1>1, <1>2, FS_Product
<1>4. EntryBytes(es) \in SUBSET (es \X (1..MaxDownload))
  BY Bounds DEF EntryBytes, Entries
<1>5. IsFiniteSet(EntryBytes(es))
  BY <1>3, <1>4, FS_Subset
<1> QED  BY <1>1, <1>5, FS_CardinalityType

LEMMA HeldFinite ==
  ASSUME NEW h \in [Files -> 0..MaxDownload]
  PROVE  /\ IsFiniteSet(HeldOf(h)) /\ Cardinality(HeldOf(h)) \in Nat
         /\ IsFiniteSet({f \in Files : h[f] > 0}) /\ Cardinality({f \in Files : h[f] > 0}) \in Nat
<1>1. IsFiniteSet(1..MaxDownload)
  BY Bounds, FS_Interval
<1>2. IsFiniteSet(Files \X (1..MaxDownload))
  BY <1>1, Bounds, FS_Product
<1>3. HeldOf(h) \in SUBSET (Files \X (1..MaxDownload))
  BY Bounds DEF HeldOf
<1>4. IsFiniteSet(HeldOf(h))
  BY <1>2, <1>3, FS_Subset
<1>5. IsFiniteSet({f \in Files : h[f] > 0})
  BY Bounds, FS_Subset
<1> QED  BY <1>4, <1>5, FS_CardinalityType

\* An entry that is new adds its bytes.
LEMMA AddEntry ==
  ASSUME NEW es \in SUBSET Entries, NEW e \in Entries, e \notin es
  PROVE  /\ Cardinality(EntryBytes(es \cup {e})) = Cardinality(EntryBytes(es)) + e.bytes
         /\ Cardinality(es \cup {e}) = Cardinality(es) + 1
<1> DEFINE own == {e} \X (1..e.bytes)
<1>1. e.bytes \in 0..MaxDownload
  BY DEF Entries
<1>2. IsFiniteSet(own) /\ Cardinality(own) = e.bytes
  BY <1>1, BytesOfOne
<1>3. EntryBytes(es \cup {e}) = EntryBytes(es) \cup own
  BY DEF EntryBytes
<1>4. EntryBytes(es) \cap own = {}
  BY DEF EntryBytes
<1>5. IsFiniteSet(EntryBytes(es)) /\ Cardinality(EntryBytes(es)) \in Nat /\ IsFiniteSet(es)
  BY BytesFinite
<1> HIDE DEF own
<1>6. Cardinality(EntryBytes(es) \cup own)
        = Cardinality(EntryBytes(es)) + Cardinality(own) - Cardinality(EntryBytes(es) \cap own)
  BY <1>2, <1>5, FS_Union
<1>7. Cardinality(EntryBytes(es) \cap own) = 0
  BY <1>4, FS_EmptySet
<1>8. Cardinality(es \cup {e}) = Cardinality(es) + 1
  BY <1>5, FS_AddElement
<1>9. e.bytes \in Nat
  BY <1>1, Bounds
<1>10. Cardinality(EntryBytes(es \cup {e})) = Cardinality(EntryBytes(es) \cup own)
  BY <1>3
<1> QED  BY <1>2, <1>5, <1>6, <1>7, <1>8, <1>9, <1>10

\* Entries that go take their bytes with them.
LEMMA RemoveEntries ==
  ASSUME NEW es \in SUBSET Entries, NEW gone \in SUBSET es
  PROVE  /\ Cardinality(EntryBytes(es \ gone))
              = Cardinality(EntryBytes(es)) - Cardinality(EntryBytes(gone))
         /\ Cardinality(es \ gone) <= Cardinality(es)
<1>1. /\ IsFiniteSet(EntryBytes(es)) /\ IsFiniteSet(es)
      /\ Cardinality(EntryBytes(es)) \in Nat
  BY BytesFinite
<1>2. EntryBytes(es \ gone) = EntryBytes(es) \ EntryBytes(gone)
  <2>1. \A u : u \in EntryBytes(es \ gone) <=> \E e \in es \ gone : u \in {e} \X (1..e.bytes)
    BY DEF EntryBytes
  <2>2. \A u : u \in EntryBytes(es) <=> \E e \in es : u \in {e} \X (1..e.bytes)
    BY DEF EntryBytes
  <2>3. \A u : u \in EntryBytes(gone) <=> \E e \in gone : u \in {e} \X (1..e.bytes)
    BY DEF EntryBytes
  <2>4. \A u, d, e : u \in {e} \X (1..e.bytes) /\ u \in {d} \X (1..d.bytes) => d = e
    OBVIOUS
  <2> QED  BY <2>1, <2>2, <2>3, <2>4
<1>3. EntryBytes(es) \cap EntryBytes(gone) = EntryBytes(gone)
  BY DEF EntryBytes
<1>4. Cardinality(EntryBytes(es) \ EntryBytes(gone))
        = Cardinality(EntryBytes(es)) - Cardinality(EntryBytes(es) \cap EntryBytes(gone))
  BY <1>1, FS_Difference
<1>5. Cardinality(es \ gone) <= Cardinality(es)
  BY <1>1, FS_Subset
<1> QED  BY <1>2, <1>3, <1>4, <1>5

\* A reservation that changes from h[f] to n bytes.
LEMMA ChangeHeld ==
  ASSUME NEW h \in [Files -> 0..MaxDownload], NEW f \in Files, NEW n \in 0..MaxDownload
  PROVE  /\ Cardinality(HeldOf([h EXCEPT ![f] = n])) = Cardinality(HeldOf(h)) - h[f] + n
         /\ h[f] <= Cardinality(HeldOf(h))
<1> DEFINE g == [h EXCEPT ![f] = n]
           rest == HeldOf([h EXCEPT ![f] = 0])
           mine == {f} \X (1..h[f])
           ours == {f} \X (1..n)
<1>1. h[f] \in 0..MaxDownload /\ n \in Nat /\ h[f] \in Nat
  BY Bounds
<1>2. /\ IsFiniteSet(mine) /\ Cardinality(mine) = h[f]
      /\ IsFiniteSet(ours) /\ Cardinality(ours) = n
  BY <1>1, BytesOfOne
<1>3. [h EXCEPT ![f] = 0] \in [Files -> 0..MaxDownload]
  BY Bounds
<1>4. IsFiniteSet(rest) /\ Cardinality(rest) \in Nat
  BY <1>3, HeldFinite
<1>5. \A u : u \in rest <=> \E d \in Files : d # f /\ u \in {d} \X (1..h[d])
  BY DEF HeldOf
<1>6. HeldOf(h) = rest \cup mine /\ rest \cap mine = {}
  BY <1>5 DEF HeldOf
<1>7. HeldOf(g) = rest \cup ours /\ rest \cap ours = {}
  BY <1>5 DEF HeldOf
<1> HIDE DEF g, rest, mine, ours
<1>8. /\ Cardinality(rest \cup mine) = Cardinality(rest) + Cardinality(mine) - Cardinality(rest \cap mine)
      /\ Cardinality(rest \cup ours) = Cardinality(rest) + Cardinality(ours) - Cardinality(rest \cap ours)
  BY <1>2, <1>4, FS_Union
<1>9. Cardinality(rest \cap mine) = 0 /\ Cardinality(rest \cap ours) = 0
  BY <1>6, <1>7, FS_EmptySet
<1>10. /\ Cardinality(HeldOf(h)) = Cardinality(rest \cup mine)
       /\ Cardinality(HeldOf(g)) = Cardinality(rest \cup ours)
  BY <1>6, <1>7
<1>11. Cardinality(HeldOf(g)) = Cardinality(HeldOf(h)) - h[f] + n /\ h[f] <= Cardinality(HeldOf(h))
  BY <1>1, <1>2, <1>4, <1>8, <1>9, <1>10
<1> QED  BY <1>11 DEF g

\* One reservation more, one less, or one of another size.
LEMMA CountHeld ==
  ASSUME NEW h \in [Files -> 0..MaxDownload], NEW f \in Files, NEW n \in 0..MaxDownload
  PROVE  LET sooner == Cardinality({g \in Files : h[g] > 0})
             after == Cardinality({g \in Files : [h EXCEPT ![f] = n][g] > 0})
         IN  /\ h[f] = 0 /\ n > 0 => after = sooner + 1
             /\ h[f] > 0 /\ n = 0 => after = sooner - 1
             /\ h[f] > 0 /\ n > 0 => after = sooner
<1> DEFINE holders0 == {g \in Files : h[g] > 0}
           holders1 == {g \in Files : [h EXCEPT ![f] = n][g] > 0}
<1>1. IsFiniteSet(holders0)
  BY HeldFinite
<1>2. CASE h[f] = 0 /\ n > 0
  <2>1. holders1 = holders0 \cup {f} /\ f \notin holders0
    BY <1>2
  <2> HIDE DEF holders0, holders1
  <2>2. Cardinality(holders1) = Cardinality(holders0) + 1
    BY <1>1, <2>1, FS_AddElement
  <2> USE DEF holders0, holders1
  <2> QED  BY <1>2, <2>2
<1>3. CASE h[f] > 0 /\ n = 0
  <2>1. holders1 = holders0 \ {f} /\ f \in holders0
    BY <1>3
  <2> HIDE DEF holders0, holders1
  <2>2. Cardinality(holders1) = Cardinality(holders0) - 1
    BY <1>1, <2>1, FS_RemoveElement
  <2> USE DEF holders0, holders1
  <2> QED  BY <1>3, <2>2
<1>4. CASE h[f] > 0 /\ n > 0
  <2>1. holders1 = holders0
    BY <1>4
  <2> QED  BY <1>4, <2>1
<1> QED  BY <1>2, <1>3, <1>4

LEMMA QuotaFacts ==
  ASSUME QuotaInv
  PROVE  /\ hold \in [Files -> 0..MaxDownload] /\ size \in [Files -> 0..MaxDownload]
         /\ entries \in SUBSET Entries
         /\ charged \in Nat /\ reservations \in Nat
         /\ Cardinality(HeldBytes) \in Nat /\ HeldBytes = HeldOf(hold)
         /\ Cardinality(EntryBytes(entries)) \in Nat
         /\ Cardinality(entries) \in Nat
         /\ \A f \in Files : hold[f] \in Nat /\ hold[f] <= MaxDownload
<1>1. /\ hold \in [Files -> 0..MaxDownload] /\ size \in [Files -> 0..MaxDownload]
      /\ entries \in SUBSET Entries /\ charged \in Nat /\ reservations \in Nat
  BY DEF QuotaInv, QuotaTypes
<1>2. HeldBytes = HeldOf(hold)
  BY DEF HeldBytes, HeldOf
<1>3. \A f \in Files : hold[f] \in Nat /\ hold[f] <= MaxDownload
  BY <1>1, Bounds
<1> QED  BY <1>1, <1>2, <1>3, HeldFinite, BytesFinite

\* A reservation grows within the quota, or is given back.
LEMMA HoldChanges ==
  ASSUME QuotaInv, NEW f \in Files, NEW n \in 0..MaxDownload,
         hold' = [hold EXCEPT ![f] = n], charged' = charged - hold[f] + n,
         entries' = entries, charged' <= MaximumBytes,
         \/ /\ hold[f] = 0 /\ n > 0 /\ reservations' = reservations + 1
            /\ Cardinality(entries) + reservations < MaximumEntries
         \/ hold[f] > 0 /\ n = 0 /\ reservations' = reservations - 1
         \/ hold[f] > 0 /\ n > 0 /\ reservations' = reservations
  PROVE  Balanced' /\ hold' \in [Files -> 0..MaxDownload] /\ charged' \in Nat /\ reservations' \in Nat
<1>1. hold' \in [Files -> 0..MaxDownload] /\ n \in Nat
  BY QuotaFacts, Bounds
<1>2. HeldBytes' = HeldOf(hold')
  BY DEF HeldBytes, HeldOf
<1>3. /\ Cardinality(HeldOf(hold')) = Cardinality(HeldOf(hold)) - hold[f] + n
      /\ hold[f] <= Cardinality(HeldOf(hold))
  BY QuotaFacts, ChangeHeld
<1>4. Cardinality(HeldBytes') = Cardinality(HeldBytes) - hold[f] + n
  BY <1>2, <1>3, QuotaFacts
<1>5. EntryBytes(entries)' = EntryBytes(entries)
  BY DEF EntryBytes
<1>6. charged' = Cardinality(EntryBytes(entries')) + Cardinality(HeldBytes')
  BY <1>1, <1>4, <1>5, QuotaFacts DEF QuotaInv, Balanced
<1>7. reservations' = Cardinality({g \in Files : hold'[g] > 0})
  <2> DEFINE sooner == Cardinality({g \in Files : hold[g] > 0})
             after == Cardinality({g \in Files : hold'[g] > 0})
  <2>1. /\ hold[f] = 0 /\ n > 0 => after = sooner + 1
        /\ hold[f] > 0 /\ n = 0 => after = sooner - 1
        /\ hold[f] > 0 /\ n > 0 => after = sooner
    BY QuotaFacts, CountHeld
  <2>2. reservations = sooner
    BY DEF QuotaInv, Balanced
  <2> HIDE DEF sooner, after
  <2>3. reservations' = after
    BY <2>1, <2>2
  <2> QED  BY <2>3 DEF after
<1>8. Cardinality(entries') + reservations' <= MaximumEntries /\ charged' \in Nat /\ reservations' \in Nat
  <2>1. Cardinality({g \in Files : hold'[g] > 0}) \in Nat
    BY <1>1, HeldFinite
  <2>2. reservations' \in Nat
    BY <1>7, <2>1
  <2>3. Cardinality(entries) + reservations <= MaximumEntries
    BY DEF QuotaInv, Balanced
  <2>4. charged' \in Nat
    <3>1. charged >= Cardinality(HeldBytes)
      BY QuotaFacts DEF QuotaInv, Balanced
    <3> QED  BY <1>1, <1>3, <3>1, QuotaFacts
  <2> QED  BY <2>2, <2>3, <2>4, QuotaFacts, Bounds
<1> QED  BY <1>1, <1>6, <1>7, <1>8 DEF Balanced

\* A reservation becomes an entry that is not larger.
LEMMA HoldConverts ==
  ASSUME QuotaInv, NEW f \in Files, NEW path \in Paths, NEW bytes \in 0..MaxDownload,
         Convert(f, path, bytes), hold[f] > 0, bytes <= hold[f],
         [path |-> path, bytes |-> bytes] \notin entries
  PROVE  /\ Balanced' /\ hold' \in [Files -> 0..MaxDownload]
         /\ charged' \in Nat /\ reservations' \in Nat
         /\ entries' \subseteq Entries
<1> DEFINE e == [path |-> path, bytes |-> bytes]
<1>1. e \in Entries /\ e \notin entries /\ e.bytes = bytes
  BY DEF Entries
<1>2. /\ charged' = (charged - hold[f]) + bytes /\ reservations' = reservations - 1
      /\ entries' = entries \cup {e} /\ hold' = [hold EXCEPT ![f] = 0]
  BY DEF Convert
<1> HIDE DEF e
<1>3. bytes \in Nat /\ 0 \in 0..MaxDownload
  BY Bounds
<1>4. hold' \in [Files -> 0..MaxDownload] /\ entries' \in SUBSET Entries
  BY <1>1, <1>2, <1>3, QuotaFacts
<1>5. /\ Cardinality(EntryBytes(entries')) = Cardinality(EntryBytes(entries)) + bytes
      /\ Cardinality(entries') = Cardinality(entries) + 1
  BY <1>1, <1>2, QuotaFacts, AddEntry
<1>6. HeldBytes' = HeldOf(hold')
  BY DEF HeldBytes, HeldOf
<1>7. /\ Cardinality(HeldOf(hold')) = Cardinality(HeldOf(hold)) - hold[f] + 0
      /\ hold[f] <= Cardinality(HeldOf(hold))
  BY <1>2, <1>3, QuotaFacts, ChangeHeld
<1>8. Cardinality(HeldBytes') = Cardinality(HeldBytes) - hold[f]
  BY <1>6, <1>7, QuotaFacts
<1>9. charged = Cardinality(EntryBytes(entries)) + Cardinality(HeldBytes) /\ charged <= MaximumBytes
      /\ Cardinality(entries) + reservations <= MaximumEntries
  BY DEF QuotaInv, Balanced
<1>10. charged' = Cardinality(EntryBytes(entries')) + Cardinality(HeldBytes')
  BY <1>2, <1>3, <1>5, <1>8, <1>9, QuotaFacts
<1>11. charged' \in Nat /\ charged' <= MaximumBytes
  BY <1>2, <1>3, <1>7, <1>9, QuotaFacts, Bounds
<1>12. reservations' = Cardinality({g \in Files : hold'[g] > 0})
  <2> DEFINE sooner == Cardinality({g \in Files : hold[g] > 0})
             after == Cardinality({g \in Files : hold'[g] > 0})
  <2>1. after = sooner - 1
    BY <1>2, <1>3, QuotaFacts, CountHeld
  <2>2. reservations = sooner
    BY DEF QuotaInv, Balanced
  <2> QED  BY <1>2, <2>1, <2>2
<1>13. Cardinality({g \in Files : hold'[g] > 0}) \in Nat
  BY <1>4, HeldFinite
<1>14. reservations' \in Nat
  BY <1>12, <1>13
<1>15. Cardinality(entries') + reservations' <= MaximumEntries
  BY <1>2, <1>5, <1>9, QuotaFacts, Bounds
<1> QED  BY <1>4, <1>10, <1>11, <1>12, <1>14, <1>15 DEF Balanced

\* What is removed is not charged any more.
LEMMA EntriesGo ==
  ASSUME QuotaInv, NEW path, Removed(path), hold' = hold
  PROVE  Balanced' /\ charged' \in Nat /\ reservations' = reservations /\ entries' \subseteq entries
<1> DEFINE gone == {e \in entries : e.path = path}
<1>1. /\ entries' = entries \ gone /\ reservations' = reservations
      /\ charged' = charged - Cardinality(EntryBytes(gone)) /\ gone \in SUBSET entries
  BY DEF Removed
<1> HIDE DEF gone
<1>2. /\ Cardinality(EntryBytes(entries')) = Cardinality(EntryBytes(entries)) - Cardinality(EntryBytes(gone))
      /\ Cardinality(entries') <= Cardinality(entries)
  BY <1>1, QuotaFacts, RemoveEntries
<1>3. /\ Cardinality(EntryBytes(gone)) \in Nat /\ Cardinality(EntryBytes(entries')) \in Nat
      /\ Cardinality(entries') \in Nat
  BY <1>1, QuotaFacts, BytesFinite
<1>4. HeldBytes' = HeldBytes
  BY DEF HeldBytes
<1>5. charged = Cardinality(EntryBytes(entries)) + Cardinality(HeldBytes) /\ charged <= MaximumBytes
      /\ Cardinality(entries) + reservations <= MaximumEntries
      /\ reservations = Cardinality({g \in Files : hold[g] > 0})
  BY DEF QuotaInv, Balanced
<1>6. charged' = Cardinality(EntryBytes(entries')) + Cardinality(HeldBytes')
  BY <1>1, <1>2, <1>3, <1>4, <1>5, QuotaFacts
<1>7. charged' \in Nat /\ charged' <= MaximumBytes
  BY <1>1, <1>3, <1>4, <1>5, <1>6, QuotaFacts, Bounds
<1>8. Cardinality(entries') + reservations' <= MaximumEntries
  BY <1>1, <1>2, <1>3, <1>5, QuotaFacts, Bounds
<1> QED  BY <1>1, <1>5, <1>6, <1>7, <1>8 DEF Balanced

-----------------------------------------------------------------------------
(* The steps.                                                              *)

LEMMA PairMax ==
  ASSUME NEW a \in Int, NEW b \in Int
  PROVE  Max({a, b}) = IF a >= b THEN a ELSE b
<1> DEFINE m == IF a >= b THEN a ELSE b
<1>1. m \in {a, b} /\ \A y \in {a, b} : m >= y
  OBVIOUS
<1>2. ASSUME NEW x \in {a, b}, \A y \in {a, b} : x >= y PROVE x = m
  BY <1>2
<1> HIDE DEF m
<1>3. (CHOOSE x \in {a, b} : \A y \in {a, b} : x >= y) = m
  BY <1>1, <1>2
<1> QED  BY <1>3 DEF Max, m

\* One ingest and its reservation change.
LEMMA OneReserved ==
  ASSUME QuotaInv, Inv, NEW f \in Files, NEW t, NEW n \in 0..MaxDownload, NEW s \in 0..MaxDownload,
         task' = [task EXCEPT ![f] = t], hold' = [hold EXCEPT ![f] = n],
         size' = [size EXCEPT ![f] = s],
         n > 0 <=> t \in {"fetching", "writing"},
         t \in {"new", "reclaiming", "retry", "fetching"} => s = 0,
         t = "writing" => s <= n
  PROVE  ReservedWhileFetched' /\ size' \in [Files -> 0..MaxDownload]
<1>1. task \in [Files -> Tasks] /\ hold \in [Files -> 0..MaxDownload]
      /\ size \in [Files -> 0..MaxDownload] /\ ReservedWhileFetched
  BY DEF QuotaInv, QuotaTypes, Inv, Types
<1>2. ASSUME NEW g \in Files, g # f
      PROVE  task'[g] = task[g] /\ hold'[g] = hold[g] /\ size'[g] = size[g]
  BY <1>1, <1>2
<1>3. task'[f] = t /\ hold'[f] = n /\ size'[f] = s
  BY <1>1
<1>4. size' \in [Files -> 0..MaxDownload]
  BY <1>1
<1>5. ReservedWhileFetched'
  BY <1>1, <1>2, <1>3 DEF ReservedWhileFetched
<1> QED  BY <1>4, <1>5

\* A step of a download leaves the entries of other ingests settled.
LEMMA FetchSettles ==
  ASSUME QuotaInv, Inv, NEW f \in Files, Fetch(f), task'[f] # "new",
         \A e \in entries' : \/ e \in entries
                             \/ e.path[1] = f /\ task'[f] \notin Early
  PROVE  EntriesAreSettled'
<1>1. task \in [Files -> Tasks] /\ EntriesAreSettled
      /\ disk \subseteq Paths /\ late \subseteq {"create", "remove"} \X Paths
      /\ \A e \in entries : e.path \in Paths
  BY DEF QuotaInv, QuotaTypes, Inv, Types, Entries
<1>2. PICK t \in Tasks : task' = [task EXCEPT ![f] = t]
  BY FetchFrame
<1>3. task[f] \in Early
  BY FetchFrame DEF Early
<1>4. \A g \in Files : g # f => task'[g] = task[g]
  BY <1>1, <1>2
<1>5. \A e \in entries' : task'[e.path[1]] \notin Early
  BY <1>1, <1>3, <1>4, PathFacts DEF EntriesAreSettled
<1>6. \A p \in disk' : p \in disk \/ p[1] = f
  BY FetchFrame, PathFacts
<1>7. \A p \in disk' : task'[p[1]] # "new"
  BY <1>1, <1>4, <1>6, PathFacts DEF EntriesAreSettled
<1>8. \A op \in late' : op[1] = "create" => task'[op[2][1]] # "new"
  <2>1. ASSUME NEW op \in late', op[1] = "create" PROVE task'[op[2][1]] # "new"
    <3>1. CASE op \in late
      <4>1. op[2] \in Paths
        BY <1>1, <3>1
      <4>2. task[op[2][1]] # "new"
        BY <1>1, <2>1, <3>1 DEF EntriesAreSettled
      <4> QED  BY <1>4, <4>1, <4>2, PathFacts
    <3>2. CASE op = <<"create", Part(f)>>
      BY <3>2, PathFacts
    <3> QED  BY <3>1, <3>2, FetchFrame
  <2> QED  BY <2>1
<1> QED  BY <1>5, <1>7, <1>8 DEF EntriesAreSettled

\* What the quota's invariant says of one ingest.
LEMMA OwnFacts ==
  ASSUME QuotaInv, Inv, NEW f \in Files
  PROVE  /\ hold[f] \in Nat /\ hold[f] \in 0..MaxDownload
         /\ size[f] \in Nat /\ size[f] \in 0..MaxDownload
         /\ hold[f] > 0 <=> task[f] \in {"fetching", "writing"}
         /\ task[f] \in {"new", "reclaiming", "retry", "fetching"} => size[f] = 0
         /\ task[f] = "writing" => size[f] <= hold[f]
         /\ hold = [hold EXCEPT ![f] = hold[f]] /\ size = [size EXCEPT ![f] = size[f]]
         /\ task = [task EXCEPT ![f] = task[f]]
         /\ \A t : [task EXCEPT ![f] = t][f] = t
<1>1. task \in [Files -> Tasks] /\ hold \in [Files -> 0..MaxDownload]
      /\ size \in [Files -> 0..MaxDownload] /\ ReservedWhileFetched
  BY DEF QuotaInv, QuotaTypes, Inv, Types
<1> QED  BY <1>1, Bounds DEF ReservedWhileFetched

\* Reserve: room for the entry and for its bytes, or no download.
LEMMA ReserveQuota ==
  ASSUME QuotaInv, Inv, NEW f \in Files, NEW bytes \in 1..MaxDownload, Reserve(f, bytes)
  PROVE  QuotaInv'
<1>0. bytes \in 0..MaxDownload /\ bytes > 0 /\ bytes \in Nat
  BY Bounds
<1>1. Fetch(f)
  BY DEF Fetch
<1>2. CASE Cardinality(entries) + reservations < MaximumEntries /\ Fits(bytes)
  <2>1. task' = [task EXCEPT ![f] = "fetching"] /\ hold' = [hold EXCEPT ![f] = bytes]
        /\ charged' = charged + bytes /\ reservations' = reservations + 1
        /\ entries' = entries /\ size' = size /\ hold[f] = 0 /\ size[f] = 0
    BY <1>2, OwnFacts DEF Reserve
  <2>2. ReservedWhileFetched' /\ size' \in [Files -> 0..MaxDownload]
    BY <1>0, <2>1, OwnFacts, OneReserved
  <2>3. task'[f] = "fetching"
    BY <2>1, OwnFacts
  <2>4. EntriesAreSettled'
    BY <1>1, <2>1, <2>3, FetchSettles
  <2>5. charged' = charged - hold[f] + bytes /\ charged' <= MaximumBytes
    BY <1>0, <1>2, <2>1, QuotaFacts DEF Fits
  <2>6. Balanced' /\ hold' \in [Files -> 0..MaxDownload] /\ charged' \in Nat /\ reservations' \in Nat
    BY <1>0, <1>2, <2>1, <2>5, HoldChanges
  <2> QED  BY <2>1, <2>2, <2>4, <2>6 DEF QuotaInv, QuotaTypes
<1>3. CASE ~(Cardinality(entries) + reservations < MaximumEntries /\ Fits(bytes))
  <2>1. PICK t \in {"reclaiming", "done"} : task' = [task EXCEPT ![f] = t]
    BY <1>3 DEF Reserve
  <2>2. UNCHANGED <<hold, size, charged, reservations, entries>>
    BY <1>3 DEF Reserve, ledger
  <2>3. hold[f] = 0 /\ size[f] = 0 /\ 0 \in 0..MaxDownload /\ ~(0 > 0)
    BY OwnFacts, Bounds DEF Reserve
  <2>4. hold' = [hold EXCEPT ![f] = 0] /\ size' = [size EXCEPT ![f] = 0]
    BY <2>2, <2>3, OwnFacts
  <2>5. ReservedWhileFetched'
    BY <2>1, <2>3, <2>4, OneReserved
  <2>6. task'[f] # "new"
    BY <2>1, OwnFacts
  <2>7. EntriesAreSettled'
    BY <1>1, <2>2, <2>6, FetchSettles
  <2> QED  BY <2>2, <2>5, <2>7 DEF QuotaInv, QuotaTypes, Balanced, HeldBytes, EntryBytes
<1> QED  BY <1>2, <1>3

\* A reservation that is there grows to what is needed, where the quota allows.
LEMMA EnsureQuota ==
  ASSUME QuotaInv, Inv, NEW f \in Files, NEW bytes \in 1..MaxDownload, Ensure(f, bytes), hold[f] > 0
  PROVE  \E n \in 0..MaxDownload :
           /\ n > 0 /\ n >= bytes /\ n >= hold[f] /\ hold' = [hold EXCEPT ![f] = n]
           /\ Balanced' /\ hold' \in [Files -> 0..MaxDownload]
           /\ charged' \in Nat /\ reservations' \in Nat /\ entries' = entries
<1> DEFINE n == IF hold[f] >= bytes THEN hold[f] ELSE bytes
<1>1. bytes \in Nat /\ hold[f] \in Nat /\ bytes \in 0..MaxDownload /\ hold[f] \in 0..MaxDownload
  BY Bounds, OwnFacts
<1>2. Max({hold[f], bytes}) = n
  BY <1>1, PairMax
<1>3. Max({0, bytes - hold[f]}) = IF 0 >= bytes - hold[f] THEN 0 ELSE bytes - hold[f]
  BY <1>1, PairMax
<1>4. n \in 0..MaxDownload /\ n > 0 /\ n >= bytes /\ n >= hold[f]
  BY <1>1
<1>5. hold' = [hold EXCEPT ![f] = n]
  BY <1>2, QuotaFacts DEF Ensure
<1>6. charged' = charged + (IF 0 >= bytes - hold[f] THEN 0 ELSE bytes - hold[f])
      /\ reservations' = reservations /\ entries' = entries
      /\ (bytes > hold[f] => charged + (bytes - hold[f]) <= MaximumBytes)
  BY <1>3 DEF Ensure, Fits
<1>7. charged \in Nat /\ charged <= MaximumBytes
  BY QuotaFacts DEF QuotaInv, Balanced
<1>8. charged' = charged - hold[f] + n /\ charged' <= MaximumBytes
  BY <1>1, <1>6, <1>7, Bounds
<1> HIDE DEF n
<1>9. Balanced' /\ hold' \in [Files -> 0..MaxDownload] /\ charged' \in Nat /\ reservations' \in Nat
  BY <1>4, <1>5, <1>6, <1>8, HoldChanges
<1> QED  BY <1>4, <1>5, <1>6, <1>9

\* GrowReservation: nothing is written yet.
LEMMA GrowQuota ==
  ASSUME QuotaInv, Inv, NEW f \in Files, NEW bytes \in 1..MaxDownload, GrowReservation(f, bytes)
  PROVE  QuotaInv'
<1>1. Fetch(f) /\ task[f] = "fetching" /\ task' = task /\ size' = size /\ Ensure(f, bytes)
  BY DEF Fetch, GrowReservation
<1>2. hold[f] > 0 /\ size[f] = 0
  BY <1>1, OwnFacts
<1>3. PICK n \in 0..MaxDownload :
           /\ n > 0 /\ n >= bytes /\ n >= hold[f] /\ hold' = [hold EXCEPT ![f] = n]
           /\ Balanced' /\ hold' \in [Files -> 0..MaxDownload]
           /\ charged' \in Nat /\ reservations' \in Nat /\ entries' = entries
  BY <1>1, <1>2, EnsureQuota
<1>4. task' = [task EXCEPT ![f] = "fetching"] /\ size' = [size EXCEPT ![f] = 0] /\ 0 \in 0..MaxDownload
  BY <1>1, <1>2, OwnFacts
<1>5. ReservedWhileFetched' /\ size' \in [Files -> 0..MaxDownload]
  BY <1>3, <1>4, OneReserved
<1>6. EntriesAreSettled'
  BY <1>1, <1>3, FetchSettles
<1> QED  BY <1>3, <1>5, <1>6 DEF QuotaInv, QuotaTypes

\* Write: a byte is written when it is reserved.
LEMMA WriteQuota ==
  ASSUME QuotaInv, Inv, NEW f \in Files, Write(f)
  PROVE  QuotaInv'
<1>1. /\ Fetch(f) /\ task[f] = "writing" /\ task' = task /\ size[f] < MaxDownload
      /\ size' = [size EXCEPT ![f] = size[f] + 1] /\ Ensure(f, size[f] + 1)
  BY DEF Fetch, Write
<1>2. hold[f] > 0 /\ size[f] + 1 \in 1..MaxDownload /\ size[f] + 1 \in 0..MaxDownload
  BY <1>1, OwnFacts, Bounds
<1>3. PICK n \in 0..MaxDownload :
           /\ n > 0 /\ n >= size[f] + 1 /\ n >= hold[f] /\ hold' = [hold EXCEPT ![f] = n]
           /\ Balanced' /\ hold' \in [Files -> 0..MaxDownload]
           /\ charged' \in Nat /\ reservations' \in Nat /\ entries' = entries
  BY <1>1, <1>2, EnsureQuota
<1>4. task' = [task EXCEPT ![f] = "writing"] /\ n \in Nat /\ size[f] + 1 \in Nat /\ size[f] + 1 <= n
  BY <1>1, <1>2, <1>3, OwnFacts, Bounds
<1>5. ReservedWhileFetched' /\ size' \in [Files -> 0..MaxDownload]
  BY <1>1, <1>2, <1>3, <1>4, OneReserved
<1>6. EntriesAreSettled'
  BY <1>1, <1>3, FetchSettles
<1> QED  BY <1>3, <1>5, <1>6 DEF QuotaInv, QuotaTypes

\* Begin: the file is opened under the reservation.
LEMMA BeginQuota ==
  ASSUME QuotaInv, Inv, NEW f \in Files, Begin(f)
  PROVE  QuotaInv'
<1>1. Fetch(f) /\ task[f] = "fetching" /\ task' = [task EXCEPT ![f] = "writing"]
      /\ UNCHANGED <<size, hold, charged, reservations, entries>>
  BY DEF Fetch, Begin, ledger
<1>2. hold[f] > 0 /\ hold[f] \in 0..MaxDownload /\ size[f] = 0 /\ task'[f] = "writing"
      /\ 0 \in 0..MaxDownload /\ 0 <= hold[f]
  <2>1. hold[f] > 0 /\ hold[f] \in 0..MaxDownload /\ size[f] = 0
    BY <1>1, OwnFacts
  <2>2. task'[f] = "writing"
    BY <1>1, OwnFacts
  <2> QED  BY <2>1, <2>2, Bounds
<1>3. hold' = [hold EXCEPT ![f] = hold[f]] /\ size' = [size EXCEPT ![f] = 0]
  BY <1>1, <1>2, OwnFacts
<1>4. ReservedWhileFetched'
  BY <1>1, <1>2, <1>3, OneReserved
<1>5. EntriesAreSettled'
  BY <1>1, <1>2, FetchSettles
<1> QED  BY <1>1, <1>4, <1>5 DEF QuotaInv, QuotaTypes, Balanced, HeldBytes, EntryBytes

\* AbortFetch, AbortWrite: the reservation is given back whole.
LEMMA AbortQuota ==
  ASSUME QuotaInv, Inv, NEW f \in Files, AbortFetch(f) \/ AbortWrite(f)
  PROVE  QuotaInv'
<1>1. Fetch(f) /\ task[f] \in {"fetching", "writing"} /\ task' = [task EXCEPT ![f] = "done"]
      /\ size' = size /\ Release(f)
  BY DEF Fetch, AbortFetch, AbortWrite
<1>2. hold[f] > 0 /\ hold[f] \in Nat /\ 0 \in 0..MaxDownload /\ task'[f] = "done"
  BY <1>1, OwnFacts, Bounds
<1>3. hold' = [hold EXCEPT ![f] = 0] /\ charged' = charged - hold[f] + 0
      /\ reservations' = reservations - 1 /\ entries' = entries
  BY <1>1, <1>2, QuotaFacts DEF Release
<1>4. charged' <= MaximumBytes
  BY <1>2, <1>3, QuotaFacts, Bounds DEF QuotaInv, Balanced
<1>5. Balanced' /\ hold' \in [Files -> 0..MaxDownload] /\ charged' \in Nat /\ reservations' \in Nat
  BY <1>2, <1>3, <1>4, HoldChanges
<1>6. ReservedWhileFetched' /\ size' \in [Files -> 0..MaxDownload]
  <2>1. size' = [size EXCEPT ![f] = size[f]] /\ size[f] \in 0..MaxDownload /\ ~(0 > 0)
    BY <1>1, OwnFacts
  <2> QED  BY <1>1, <1>2, <1>3, <2>1, OneReserved
<1>7. EntriesAreSettled'
  BY <1>1, <1>2, <1>3, FetchSettles
<1> QED  BY <1>3, <1>5, <1>6, <1>7 DEF QuotaInv, QuotaTypes

\* A reservation becomes the first entry of its ingest.
LEMMA ConvertQuota ==
  ASSUME QuotaInv, Inv, NEW f \in Files, NEW path \in {Part(f), Obj(f)},
         NEW bytes \in 0..MaxDownload, NEW t \in {"committed", "done"},
         Fetch(f), task[f] = "writing", task' = [task EXCEPT ![f] = t], size' = size,
         Convert(f, path, bytes), bytes <= hold[f]
  PROVE  QuotaInv'
<1>1. hold[f] > 0 /\ path \in Paths /\ path[1] = f /\ 0 \in 0..MaxDownload /\ task'[f] = t
      /\ t \notin Early
  BY OwnFacts, PathFacts, Bounds DEF Early
<1>2. [path |-> path, bytes |-> bytes] \notin entries
  BY <1>1 DEF QuotaInv, EntriesAreSettled, Early
<1>3. Balanced' /\ hold' \in [Files -> 0..MaxDownload] /\ charged' \in Nat /\ reservations' \in Nat
      /\ entries' \subseteq Entries
  BY <1>1, <1>2, HoldConverts
<1>4. ReservedWhileFetched' /\ size' \in [Files -> 0..MaxDownload]
  <2>1. size' = [size EXCEPT ![f] = size[f]] /\ size[f] \in 0..MaxDownload /\ ~(0 > 0)
        /\ hold' = [hold EXCEPT ![f] = 0]
    BY <1>1, OwnFacts DEF Convert
  <2> QED  BY <1>1, <2>1, OneReserved
<1>5. \A e \in entries' : e \in entries \/ e.path[1] = f
  BY <1>1 DEF Convert
<1>6. EntriesAreSettled'
  BY <1>1, <1>5, FetchSettles DEF Early
<1> QED  BY <1>3, <1>4, <1>6 DEF QuotaInv, QuotaTypes

\* Commit: the entry is of the file's size.  RetainFailedFile: of the reservation's.
LEMMA CommitQuota ==
  ASSUME QuotaInv, Inv, NEW f \in Files, Commit(f) \/ RetainFailedFile(f)
  PROVE  QuotaInv'
<1>1. CASE Commit(f)
  <2>1. /\ Fetch(f) /\ task[f] = "writing" /\ task' = [task EXCEPT ![f] = "committed"]
        /\ size' = size /\ Convert(f, Obj(f), size[f])
    BY <1>1 DEF Fetch, Commit
  <2> QED  BY <2>1, OwnFacts, ConvertQuota
<1>2. CASE RetainFailedFile(f)
  <2>1. /\ Fetch(f) /\ task[f] = "writing" /\ task' = [task EXCEPT ![f] = "done"]
        /\ size' = size /\ \E path \in {Part(f), Obj(f)} : Convert(f, path, hold[f])
    BY <1>2 DEF Fetch, RetainFailedFile
  <2>2. hold[f] <= hold[f]
    BY OwnFacts
  <2> QED  BY <2>1, <2>2, OwnFacts, ConvertQuota
<1> QED  BY <1>1, <1>2

LEMMA FetchQuota ==
  ASSUME QuotaInv, Inv, NEW f \in Files, Fetch(f)
  PROVE  QuotaInv'
BY ReserveQuota, GrowQuota, WriteQuota, BeginQuota, AbortQuota, CommitQuota DEF Fetch

\* What neither reserves nor writes: an ingest goes on, ends, or tries again.
LEMMA QuotaFrame ==
  ASSUME QuotaInv, Inv, UNCHANGED <<size, hold>>, Balanced', charged' \in Nat,
         reservations' \in Nat, entries' \subseteq entries,
         \A f \in Files : \/ task'[f] = task[f]
                          \/ task[f] \notin {"fetching", "writing"} /\ task'[f] \notin Early
                          \/ task[f] = "reclaiming" /\ task'[f] = "retry",
         \A p \in disk' : p \in disk \/ <<"create", p>> \in late,
         \A op \in late' : op \in late \/ op[1] = "remove"
  PROVE  QuotaInv'
<1>1. /\ ReservedWhileFetched /\ EntriesAreSettled /\ QuotaTypes
      /\ disk \subseteq Paths /\ late \subseteq {"create", "remove"} \X Paths
      /\ \A e \in entries : e.path \in Paths
  BY DEF QuotaInv, QuotaTypes, Inv, Types, Entries
<1>2. QuotaTypes'
  BY <1>1 DEF QuotaTypes
<1>3. ReservedWhileFetched'
  BY <1>1 DEF ReservedWhileFetched, Early
<1>4. \A f \in Files : /\ task[f] \notin Early => task'[f] \notin Early
                       /\ task[f] # "new" => task'[f] # "new"
  BY DEF Early
<1>5. \A e \in entries' : task'[e.path[1]] \notin Early
  BY <1>1, <1>4, PathFacts DEF EntriesAreSettled
<1>6. \A p \in disk' : task'[p[1]] # "new"
  <2>1. ASSUME NEW p \in disk' PROVE p \in Paths /\ task[p[1]] # "new"
    <3>1. CASE p \in disk
      BY <1>1, <3>1 DEF EntriesAreSettled
    <3>2. CASE <<"create", p>> \in late
      <4>1. p \in Paths
        BY <1>1, <3>2
      <4>2. <<"create", p>>[1] = "create" /\ <<"create", p>>[2] = p
        OBVIOUS
      <4>3. task[<<"create", p>>[2][1]] # "new"
        BY <1>1, <3>2, <4>2 DEF EntriesAreSettled
      <4> QED  BY <4>1, <4>2, <4>3
    <3> QED  BY <2>1, <3>1, <3>2
  <2> QED  BY <1>4, <2>1, PathFacts
<1>7. \A op \in late' : op[1] = "create" => task'[op[2][1]] # "new"
  <2>1. ASSUME NEW op \in late', op[1] = "create" PROVE task'[op[2][1]] # "new"
    <3>1. op \in late
      BY <2>1
    <3>2. op[2] \in Paths /\ task[op[2][1]] # "new"
      BY <1>1, <2>1, <3>1 DEF EntriesAreSettled
    <3> QED  BY <1>4, <3>2, PathFacts
  <2> QED  BY <2>1
<1> QED  BY <1>2, <1>3, <1>5, <1>6, <1>7 DEF QuotaInv, EntriesAreSettled

\* The same with the ledger untouched.
LEMMA LedgerFrame ==
  ASSUME QuotaInv, UNCHANGED <<hold, ledger>>
  PROVE  Balanced' /\ charged' \in Nat /\ reservations' \in Nat /\ entries' \subseteq entries
BY DEF QuotaInv, QuotaTypes, Balanced, HeldBytes, EntryBytes, ledger

\* What an ingest does with a committed file.
LEMMA IngestQuota ==
  ASSUME QuotaInv, Inv, NEW f \in Files, Ingest(f)
  PROVE  QuotaInv'
<1>1. task \in [Files -> Tasks] /\ late \subseteq {"create", "remove"} \X Paths
  BY DEF Inv, Types
<1>2. CASE Reject(f) \/ InspectObject(f) \/ Acquire(f) \/ BeginDiscard(f)
  <2>1. UNCHANGED <<size, hold, ledger, disk, late>>
    BY <1>2 DEF Reject, InspectObject, Acquire, BeginDiscard
  <2>2. \A g \in Files : \/ task'[g] = task[g]
                         \/ task[g] \notin {"fetching", "writing"} /\ task'[g] \notin Early
    BY <1>1, <1>2 DEF Reject, InspectObject, Acquire, BeginDiscard, Early
  <2> QED  BY <2>1, <2>2, LedgerFrame, QuotaFrame
<1>3. CASE RemoveDiscarded(f)
  <2>1. UNCHANGED <<size, hold, late>> /\ Removed(Obj(f)) /\ disk' \subseteq disk
    BY <1>3 DEF RemoveDiscarded
  <2>2. \A g \in Files : \/ task'[g] = task[g]
                         \/ task[g] \notin {"fetching", "writing"} /\ task'[g] \notin Early
    BY <1>1, <1>3 DEF RemoveDiscarded, Early
  <2>3. Balanced' /\ charged' \in Nat /\ reservations' = reservations /\ entries' \subseteq entries
    BY <2>1, EntriesGo
  <2> QED  BY <2>1, <2>2, <2>3, QuotaFacts, QuotaFrame
<1>4. CASE AbortDiscard(f) \/ CancelIngest(f)
  <2>1. UNCHANGED <<size, hold, ledger, disk>>
        /\ \A op \in late' : op \in late \/ op = <<"remove", Obj(f)>>
    BY <1>4 DEF AbortDiscard, CancelIngest
  <2>2. \A g \in Files : \/ task'[g] = task[g]
                         \/ task[g] \notin {"fetching", "writing"} /\ task'[g] \notin Early
    BY <1>1, <1>4 DEF AbortDiscard, CancelIngest, Early
  <2>3. \A op \in late' : op \in late \/ op[1] = "remove"
    BY <2>1
  <2> QED  BY <2>1, <2>2, <2>3, LedgerFrame, QuotaFrame
<1>5. CASE CancelScan(f)
  <2>1. UNCHANGED <<size, hold, ledger, disk>>
        /\ \A op \in late' : op \in late \/ op[1] = "remove"
    BY <1>5 DEF CancelScan
  <2>2. task' = [task EXCEPT ![f] = "done"] /\ task[f] = "reclaiming"
    BY <1>5 DEF CancelScan, Inv, ScanOwner
  <2>3. \A g \in Files : \/ task'[g] = task[g]
                         \/ task[g] \notin {"fetching", "writing"} /\ task'[g] \notin Early
    BY <1>1, <2>2 DEF Early
  <2> QED  BY <2>1, <2>3, LedgerFrame, QuotaFrame
<1> QED  BY <1>2, <1>3, <1>4, <1>5 DEF Ingest

\* Leases cost nothing; whoever holds one is past the download.
LEMMA PlaybackQuota ==
  ASSUME QuotaInv, Inv, NEW f \in Files, Playback(f)
  PROVE  QuotaInv'
<1>1. task \in [Files -> Tasks]
  BY DEF Inv, Types
<1>2. UNCHANGED <<size, hold, ledger, disk, late>>
  BY DEF Playback, Enqueue, PlayerDrops, BatchDropped, DiscardTrack, DropClone
<1>3. task' = task \/ \E t \in {"done", "rejected"} : task' = [task EXCEPT ![f] = t]
  BY <1>1 DEF Playback, Enqueue, PlayerDrops, BatchDropped, DiscardTrack, DropClone
<1>4. holders[f] # {}
  BY DEF Playback, Enqueue, PlayerDrops, BatchDropped, DiscardTrack, DropClone
<1>5. task[f] \notin {"fetching", "writing"}
  BY <1>4 DEF Inv, LeasesHold, Young
<1>6. \A g \in Files : \/ task'[g] = task[g]
                       \/ task[g] \notin {"fetching", "writing"} /\ task'[g] \notin Early
  BY <1>1, <1>3, <1>5 DEF Early
<1> QED  BY <1>2, <1>6, LedgerFrame, QuotaFrame

\* A scan removes entries with their files, and lets its ingest try again.
LEMMA JanitorQuota ==
  ASSUME QuotaInv, Inv, Janitor
  PROVE  QuotaInv'
<1>1. task \in [Files -> Tasks]
  BY DEF Inv, Types
<1>2. ASSUME NEW path \in Paths, RemoveFile(path) PROVE QuotaInv'
  <2>1. UNCHANGED <<size, hold, late, task>> /\ disk' \subseteq disk
        /\ (Removed(path) \/ UNCHANGED ledger)
    BY <1>2 DEF RemoveFile
  <2>2. Balanced' /\ charged' \in Nat /\ reservations' \in Nat /\ entries' \subseteq entries
    BY <2>1, EntriesGo, QuotaFacts, LedgerFrame
  <2> QED  BY <2>1, <2>2, QuotaFrame
<1>3. CASE EndScan
  <2>1. UNCHANGED <<size, hold, ledger, disk, late>>
    BY <1>3 DEF EndScan
  <2>2. \A g \in Files : \/ task'[g] = task[g]
                         \/ task[g] = "reclaiming" /\ task'[g] = "retry"
    BY <1>3 DEF EndScan, Inv, ScanOwner
  <2> QED  BY <2>1, <2>2, LedgerFrame, QuotaFrame
<1>4. CASE \/ \E owner \in Files \cup {"periodic"} : StartScan(owner)
           \/ \E path \in Paths : \/ InspectEntry(path) \/ VerifyUnchanged(path)
                                  \/ TakePermit(path) \/ ActivelyLeased(path)
           \/ EndInspection
  <2>1. UNCHANGED <<size, hold, ledger, disk, late, task>>
    BY <1>4 DEF StartScan, InspectEntry, VerifyUnchanged, TakePermit, ActivelyLeased, EndInspection
  <2> QED  BY <2>1, LedgerFrame, QuotaFrame
<1> QED  BY <1>2, <1>3, <1>4 DEF Janitor

LEMMA EnvironmentQuota ==
  ASSUME QuotaInv, Inv, (\E op \in late : CompleteLate(op)) \/ (\E f \in Files : Age(f))
  PROVE  QuotaInv'
<1>1. late \subseteq {"create", "remove"} \X Paths
  BY DEF Inv, Types
<1>2. UNCHANGED <<size, hold, ledger, task>> /\ late' \subseteq late
  BY DEF CompleteLate, Age
<1>3. \A p \in disk' : p \in disk \/ <<"create", p>> \in late
  BY <1>1 DEF CompleteLate, Age
<1> QED  BY <1>2, <1>3, LedgerFrame, QuotaFrame

\* Nothing is held when a process starts.
LEMMA NothingHeld ==
  ASSUME hold' = [f \in Files |-> 0]
  PROVE  /\ Cardinality(HeldBytes') = 0 /\ Cardinality({f \in Files : hold'[f] > 0}) = 0
         /\ hold' \in [Files -> 0..MaxDownload]
<1>1. HeldBytes' = {}
  BY DEF HeldBytes
<1>2. {f \in Files : hold'[f] > 0} = {}
  OBVIOUS
<1>3. Cardinality(HeldBytes') = 0
  BY <1>1, FS_EmptySet
<1>4. Cardinality({f \in Files : hold'[f] > 0}) = 0
  BY <1>2, FS_EmptySet
<1> QED  BY <1>3, <1>4, Bounds

\* Restart: the ledger is rebuilt from the disk, and refused above the quota.
LEMMA RestartQuota ==
  ASSUME QuotaInv, Inv, Restart
  PROVE  QuotaInv'
<1> DEFINE found == {[path |-> p, bytes |-> size[p[1]]] : p \in disk}
<1>1. /\ disk \subseteq Paths /\ size \in [Files -> 0..MaxDownload]
      /\ ReservedWhileFetched /\ EntriesAreSettled
  BY DEF QuotaInv, QuotaTypes, Inv, Types
<1>2. found \in SUBSET Entries
  BY <1>1, PathFacts DEF Entries
<1>3. /\ charged' = Cardinality(EntryBytes(found)) /\ charged' <= MaximumBytes
      /\ Cardinality(found) <= MaximumEntries /\ entries' = found /\ reservations' = 0
      /\ hold' = [f \in Files |-> 0] /\ late' = {} /\ disk' = disk /\ size' = size
      /\ task' = [f \in Files |-> IF task[f] = "new" THEN "new" ELSE "done"]
  BY DEF Restart
<1>4. \A e \in found : e.path \in disk
  OBVIOUS
<1> HIDE DEF found
<1>5. Cardinality(EntryBytes(found)) \in Nat /\ Cardinality(found) \in Nat
  BY <1>2, BytesFinite
<1>6. QuotaTypes'
  BY <1>1, <1>2, <1>3, <1>5, NothingHeld DEF QuotaTypes
<1>7. ReservedWhileFetched'
  BY <1>1, <1>3 DEF ReservedWhileFetched
<1>8. \A p \in disk : p[1] \in Files /\ task'[p[1]] = "done"
  BY <1>1, <1>3, PathFacts DEF EntriesAreSettled
<1>9. EntriesAreSettled'
  BY <1>3, <1>4, <1>8 DEF EntriesAreSettled, Early
<1>10. Balanced'
  <2>1. charged' = Cardinality(EntryBytes(entries')) + 0
    BY <1>3, <1>5
  <2>2. Cardinality(entries') + reservations' <= MaximumEntries
    BY <1>3, <1>5
  <2>3. charged' = Cardinality(EntryBytes(entries')) + Cardinality(HeldBytes')
        /\ reservations' = Cardinality({f \in Files : hold'[f] > 0})
    BY <1>3, <2>1, NothingHeld
  <2> QED  BY <1>3, <2>2, <2>3 DEF Balanced
<1> QED  BY <1>6, <1>7, <1>9, <1>10 DEF QuotaInv

-----------------------------------------------------------------------------

LEMMA QuotaAtStart == Init => QuotaInv
<1> SUFFICES ASSUME Init PROVE QuotaInv
  OBVIOUS
<1>1. HeldBytes = {} /\ EntryBytes(entries) = {} /\ entries = {}
      /\ {f \in Files : hold[f] > 0} = {}
  BY DEF Init, HeldBytes, EntryBytes
<1>2. /\ Cardinality(HeldBytes) = 0 /\ Cardinality(EntryBytes(entries)) = 0
      /\ Cardinality(entries) = 0 /\ Cardinality({f \in Files : hold[f] > 0}) = 0
  BY <1>1, FS_EmptySet
<1>3. Balanced
  BY <1>2, Bounds DEF Init, Balanced
<1>4. QuotaTypes
  BY Bounds DEF Init, QuotaTypes
<1>5. ReservedWhileFetched /\ EntriesAreSettled
  BY DEF Init, ReservedWhileFetched, EntriesAreSettled
<1> QED  BY <1>3, <1>4, <1>5 DEF QuotaInv

LEMMA QuotaStep == QuotaInv /\ Inv /\ [Next]_vars => QuotaInv'
<1>1. ASSUME QuotaInv, Inv, Next PROVE QuotaInv'
  BY <1>1, FetchQuota, IngestQuota, PlaybackQuota, JanitorQuota, EnvironmentQuota, RestartQuota
  DEF Next
<1>2. ASSUME QuotaInv, Inv, UNCHANGED vars PROVE QuotaInv'
  <2>1. UNCHANGED <<size, hold, ledger, task, disk, late>>
    BY <1>2 DEF vars, ledger
  <2> QED  BY <1>2, <2>1, LedgerFrame, QuotaFrame
<1> QED  BY <1>1, <1>2

\* The quota is hard: whatever is fetched, aborted, cancelled, removed or found by a
\* new process, the ledger charges exactly the entries and the reservations under way,
\* within the maximum, and keeps a place for every download's entry.
THEOREM QuotaHolds == Spec => []QuotaIsHard
<1>1. QuotaInv /\ Inv => QuotaIsHard
  <2> SUFFICES ASSUME QuotaInv, Inv PROVE QuotaIsHard
    OBVIOUS
  <2>1. TypeOK
    BY DEF QuotaInv, QuotaTypes, Inv, Types, Scans, Tasks, Entries, TypeOK
  <2> QED  BY <2>1 DEF QuotaInv, Balanced, QuotaIsHard
<1> QED  BY <1>1, QuotaAtStart, QuotaStep, Invariance, PTL DEF Spec

-----------------------------------------------------------------------------
(* The convolution of AudioRenderer.                                       *)

\* What a renderer has taken in of frame n: silence before it began.
Heard(born, n) == IF n > born THEN n ELSE 0

Halves == [1..Partition -> Int]
Spectra == [1..(2 * Partition) -> Int]

Histories(count) ==
  [previous : Halves, current : Halves, spectra : [0..(count - 1) -> Spectra],
   slot : 0..(count - 1), fill : 0..Partition]

\* The block of delay d, as far as it is known, when the partition begins after
\* frame `base'.
IsDelayed(h, born, base, d) ==
  \A i \in 1..(2 * Partition) :
    d > 0 \/ i <= Partition + h.fill =>
      Audio!SpectrumAtDelay(h, d)[i] = Heard(born, base - d * Partition - Partition + i)

\* A history that holds the music up to frame base + fill, its delays from `first' on.
HistoryIs(h, count, born, base, first) ==
  /\ h \in Histories(count) /\ born \in Nat /\ base \in Nat /\ born <= base
  /\ \A i \in 1..Partition : h.previous[i] = Heard(born, base - Partition + i)
  /\ \A i \in 1..h.fill : h.current[i] = base + i
  /\ \A d \in first..(count - 1) : IsDelayed(h, born, base, d)

\* Within one turn of a ring.
LEMMA SmallMod ==
  ASSUME NEW n \in Nat \ {0}, NEW x \in 0..(2 * n - 1)
  PROVE  x % n = IF x < n THEN x ELSE x - n
  OBVIOUS

LEMMA AudioCardinality == \A S : Audio!Cardinality(S) = Cardinality(S)
BY Zenon DEF Audio!Cardinality, Cardinality

LEMMA RingSize ==
  ASSUME NEW count \in Nat \ {0}
  PROVE  Audio!Cardinality(0..(count - 1)) = count
  BY AudioCardinality, FS_Interval

\* Where in the ring the spectrum of a delay is.
Behind(slot, count, d) == IF d <= slot THEN slot - d ELSE slot + count - d

LEMMA BehindInRing ==
  ASSUME NEW count \in Nat \ {0}, NEW slot \in 0..(count - 1), NEW d \in 0..(count - 1)
  PROVE  /\ Behind(slot, count, d) \in 0..(count - 1)
         /\ (slot + count - d) % count = Behind(slot, count, d)
         /\ d > 0 => Behind(slot, count, d) # slot
<1>1. slot + count - d \in 0..(2 * count - 1)
  OBVIOUS
<1>2. (slot + count - d) % count = IF slot + count - d < count THEN slot + count - d
                                   ELSE (slot + count - d) - count
  BY <1>1, SmallMod
<1> QED  BY <1>2 DEF Behind

\* After a step of the ring a spectrum is one partition further behind.
LEMMA BehindNext ==
  ASSUME NEW count \in Nat \ {0}, NEW slot \in 0..(count - 1), NEW d \in 1..(count - 1)
  PROVE  LET next == (slot + 1) % count
         IN /\ next \in 0..(count - 1)
            /\ Behind(next, count, d) # next
            /\ Behind(next, count, d) = Behind(slot, count, d - 1)
<1>1. slot + 1 \in 0..(2 * count - 1)
  OBVIOUS
<1>2. (slot + 1) % count = IF slot + 1 < count THEN slot + 1 ELSE (slot + 1) - count
  BY <1>1, SmallMod
<1> QED  BY <1>2 DEF Behind

LEMMA SpectrumOfDelay ==
  ASSUME NEW count \in Nat \ {0}, NEW h \in Histories(count), NEW d \in 0..(count - 1)
  PROVE  Audio!SpectrumAtDelay(h, d) = h.spectra[Behind(h.slot, count, d)]
<1>1. DOMAIN h.spectra = 0..(count - 1) /\ h.slot \in 0..(count - 1)
  BY DEF Histories
<1>2. Audio!Cardinality(DOMAIN h.spectra) = count
  BY <1>1, RingSize
<1>3. (h.slot + count - d) % count = Behind(h.slot, count, d)
  BY <1>1, BehindInRing
<1> QED  BY <1>2, <1>3 DEF Audio!SpectrumAtDelay

\* Two halves make a spectrum.
LEMMA HalvesJoin ==
  ASSUME Partition \in Nat \ {0}, NEW a \in Halves, NEW b \in Halves
  PROVE  /\ a \o b \in Spectra
         /\ \A i \in 1..(2 * Partition) : (a \o b)[i] = IF i <= Partition THEN a[i] ELSE b[i - Partition]
<1>1. /\ a \in Seq(Int) /\ Len(a) = Partition
      /\ b \in Seq(Int) /\ Len(b) = Partition
  BY DEF Halves
<1>2. /\ a \o b \in Seq(Int) /\ Len(a \o b) = Len(a) + Len(b)
      /\ \A i \in 1..(Len(a) + Len(b)) : (a \o b)[i] = IF i <= Len(a) THEN a[i] ELSE b[i - Len(a)]
  BY <1>1, ConcatProperties
<1>3. Partition + Partition = 2 * Partition /\ 2 * Partition \in Nat
  OBVIOUS
<1>4. \A i \in 1..(2 * Partition) :
        (a \o b)[i] = IF i <= Partition THEN a[i] ELSE b[i - Partition]
  BY <1>1, <1>2, <1>3
<1>5. /\ DOMAIN (a \o b) = 1..(2 * Partition)
      /\ \A i \in 1..(2 * Partition) : (a \o b)[i] \in Int
      /\ a \o b = [i \in 1..(2 * Partition) |-> (a \o b)[i]]
  <2>1. Len(a \o b) = 2 * Partition
    BY <1>1, <1>2, <1>3
  <2>2. a \o b \in [1..Len(a \o b) -> Int]
    BY <1>2, LenProperties
  <2> QED  BY <2>1, <2>2
<1> QED  BY <1>4, <1>5 DEF Spectra

\* SourceHistory::append_interleaved
LEMMA AppendHolds ==
  ASSUME Partition \in Nat \ {0}, NEW count \in Nat \ {0}, NEW h, NEW born, NEW base,
         HistoryIs(h, count, born, base, 1), NEW n \in 1..(Partition - h.fill)
  PROVE  LET g == Audio!AppendInterleaved(h, base + h.fill + 1, n)
         IN HistoryIs(g, count, born, base, 0) /\ g.fill = h.fill + n
<1> DEFINE first == base + h.fill + 1
           current == [i \in 1..Partition |->
                         IF i \in (h.fill + 1)..(h.fill + n)
                         THEN first + (i - h.fill - 1) ELSE h.current[i]]
           g == Audio!AppendInterleaved(h, first, n)
<1>1. /\ h \in Histories(count) /\ born \in Nat /\ base \in Nat /\ born <= base
      /\ h.previous \in Halves /\ h.current \in Halves /\ h.fill \in 0..Partition
      /\ h.slot \in 0..(count - 1) /\ h.spectra \in [0..(count - 1) -> Spectra]
  BY DEF HistoryIs, Histories
<1>2. current \in Halves
  <2>1. ASSUME NEW i \in 1..Partition
        PROVE  first + (i - h.fill - 1) \in Int /\ h.current[i] \in Int
    <3>1. h.fill \in Int /\ base \in Int
      BY <1>1
    <3>2. h.current[i] \in Int
      BY <1>1 DEF Halves
    <3> QED  BY <3>1, <3>2
  <2> QED  BY <2>1 DEF Halves
<1>3. /\ \A i \in 1..(h.fill + n) : current[i] = base + i
      /\ h.fill + n \in 0..Partition
  <2>1. h.fill + n \in 0..Partition
    BY <1>1
  <2>2. ASSUME NEW i \in 1..(h.fill + n) PROVE current[i] = base + i
    <3>1. i \in 1..Partition /\ first + (i - h.fill - 1) = base + i
      BY <1>1, <2>1
    <3>2. CASE i <= h.fill
      <4>1. i \in 1..h.fill /\ ~(i \in (h.fill + 1)..(h.fill + n))
        BY <1>1, <3>2
      <4> QED  BY <3>1, <4>1 DEF HistoryIs
    <3>3. CASE ~(i <= h.fill)
      <4>1. i \in (h.fill + 1)..(h.fill + n)
        BY <1>1, <3>3
      <4> QED  BY <3>1, <4>1
    <3> QED  BY <3>2, <3>3
  <2> QED  BY <2>1, <2>2
<1> HIDE DEF current
<1>4. g = [h EXCEPT !.current = current, !.fill = @ + n,
                    !.spectra[h.slot] = h.previous \o current]
  BY DEF Audio!AppendInterleaved, current
<1> HIDE DEF g
<1>5. h.previous \o current \in Spectra
  BY <1>1, <1>2, HalvesJoin
<1>6. /\ g \in Histories(count)
      /\ g.previous = h.previous /\ g.current = current /\ g.fill = h.fill + n /\ g.slot = h.slot
      /\ g.spectra = [h.spectra EXCEPT ![h.slot] = h.previous \o current]
  BY <1>1, <1>2, <1>3, <1>4, <1>5 DEF Histories
<1>7. ASSUME NEW d \in 0..(count - 1) PROVE IsDelayed(g, born, base, d)
  <2>1. Audio!SpectrumAtDelay(g, d) = g.spectra[Behind(h.slot, count, d)]
    <3>1. Audio!SpectrumAtDelay(g, d) = g.spectra[Behind(g.slot, count, d)]
      BY <1>6, SpectrumOfDelay
    <3> QED  BY <1>6, <3>1
  <2>2. Behind(h.slot, count, d) \in 0..(count - 1) /\ (d > 0 => Behind(h.slot, count, d) # h.slot)
    BY <1>1, BehindInRing
  <2>3. CASE d > 0
    <3>1. Audio!SpectrumAtDelay(g, d) = Audio!SpectrumAtDelay(h, d)
      BY <1>1, <1>6, <2>1, <2>2, <2>3, SpectrumOfDelay
    <3>2. d \in 1..(count - 1) /\ IsDelayed(h, born, base, d)
      BY <2>3 DEF HistoryIs
    <3> QED  BY <2>3, <3>1, <3>2 DEF IsDelayed
  <2>4. CASE ~(d > 0)
    <3>1. d = 0 /\ Behind(h.slot, count, d) = h.slot
      BY <1>1, <2>4 DEF Behind
    <3>2. Audio!SpectrumAtDelay(g, d) = h.previous \o current
      BY <1>1, <1>6, <2>1, <3>1
    <3>3. ASSUME NEW i \in 1..(2 * Partition), i <= Partition + g.fill
          PROVE  (h.previous \o current)[i] = Heard(born, base - 0 - Partition + i)
      <4>1. (h.previous \o current)[i] = IF i <= Partition THEN h.previous[i] ELSE current[i - Partition]
        BY <1>1, <1>2, HalvesJoin
      <4>2. CASE i <= Partition
        BY <1>1, <4>1, <4>2 DEF HistoryIs
      <4>3. CASE ~(i <= Partition)
        <5>1. i - Partition \in 1..(h.fill + n)
          BY <1>1, <1>6, <3>3, <4>3
        <5>2. current[i - Partition] = base + (i - Partition)
          BY <1>3, <5>1
        <5> QED  BY <1>1, <4>1, <4>3, <5>1, <5>2 DEF Heard
      <4> QED  BY <4>2, <4>3
    <3>4. d * Partition = 0
      BY <3>1
    <3>5. ASSUME NEW i \in 1..(2 * Partition), i <= Partition + g.fill
          PROVE  Audio!SpectrumAtDelay(g, d)[i]
                   = Heard(born, base - d * Partition - Partition + i)
      BY <3>2, <3>3, <3>4, <3>5
    <3> QED  BY <3>1, <3>5 DEF IsDelayed
  <2> QED  BY <2>3, <2>4
<1> QED  BY <1>1, <1>3, <1>6, <1>7 DEF HistoryIs, g, first

\* SourceHistory::finish_partition
LEMMA FinishHolds ==
  ASSUME Partition \in Nat \ {0}, NEW count \in Nat \ {0}, NEW h, NEW born, NEW base,
         HistoryIs(h, count, born, base, 0)
  PROVE  LET g == Audio!FinishPartition(h)
         IN /\ HistoryIs(g, count, born, base + h.fill - g.fill, 1)
            /\ g.fill < Partition
            /\ g.fill = IF h.fill = Partition THEN 0 ELSE h.fill
<1> DEFINE g == Audio!FinishPartition(h)
           next == (h.slot + 1) % count
           after == base + Partition
<1>1. /\ h \in Histories(count) /\ born \in Nat /\ base \in Nat /\ born <= base
      /\ h.previous \in Halves /\ h.current \in Halves /\ h.fill \in 0..Partition
      /\ h.slot \in 0..(count - 1) /\ h.spectra \in [0..(count - 1) -> Spectra]
  BY DEF HistoryIs, Histories
<1>2. CASE h.fill # Partition
  <2>1. g = h /\ base + h.fill - g.fill = base /\ g.fill < Partition
    BY <1>1, <1>2 DEF Audio!FinishPartition
  <2>2. HistoryIs(h, count, born, base, 1)
    BY <1>1 DEF HistoryIs
  <2> QED  BY <1>2, <2>1, <2>2
<1>3. CASE h.fill = Partition
  <2>1. Audio!Silent(Partition) \in Halves /\ Audio!Silent(2 * Partition) \in Spectra
    BY DEF Audio!Silent, Halves, Spectra
  <2>2. next \in 0..(count - 1)
    <3>1. h.slot + 1 \in 0..(2 * count - 1)
      BY <1>1
    <3>2. next = IF h.slot + 1 < count THEN h.slot + 1 ELSE (h.slot + 1) - count
      BY <3>1, SmallMod
    <3> QED  BY <1>1, <3>2
  <2>3. g = [h EXCEPT !.previous = h.current, !.current = Audio!Silent(Partition), !.fill = 0,
                      !.slot = next, !.spectra[next] = Audio!Silent(2 * Partition)]
    BY <1>1, <1>3, RingSize DEF Audio!FinishPartition, Histories
  <2> HIDE DEF g, next
  <2>4. /\ g \in Histories(count)
        /\ g.previous = h.current /\ g.fill = 0 /\ g.slot = next
        /\ g.spectra = [h.spectra EXCEPT ![next] = Audio!Silent(2 * Partition)]
    <3>1. 0 \in 0..Partition
      OBVIOUS
    <3>2. [h.spectra EXCEPT ![next] = Audio!Silent(2 * Partition)]
             \in [0..(count - 1) -> Spectra]
      BY <1>1, <2>1, <2>2
    <3> HIDE DEF Halves
    <3> QED  BY <1>1, <2>1, <2>2, <2>3, <3>1, <3>2 DEF Histories
  <2>5. ASSUME NEW d \in 1..(count - 1) PROVE IsDelayed(g, born, after, d)
    <3>1. Behind(next, count, d) # next /\ Behind(next, count, d) = Behind(h.slot, count, d - 1)
      BY <1>1, BehindNext DEF next
    <3>2. d \in 0..(count - 1) /\ d - 1 \in 0..(count - 1)
      OBVIOUS
    <3>3. Behind(next, count, d) \in 0..(count - 1)
      BY <2>2, <3>2, BehindInRing
    <3>4. Audio!SpectrumAtDelay(g, d) = Audio!SpectrumAtDelay(h, d - 1)
      <4>1. Audio!SpectrumAtDelay(g, d) = g.spectra[Behind(next, count, d)]
        <5>1. g \in Histories(count) /\ d \in 0..(count - 1)
          BY <2>4, <3>2
        <5>2. Audio!SpectrumAtDelay(g, d) = g.spectra[Behind(g.slot, count, d)]
          BY <5>1, SpectrumOfDelay
        <5> QED  BY <2>4, <5>2
      <4>2. Audio!SpectrumAtDelay(h, d - 1) = h.spectra[Behind(h.slot, count, d - 1)]
        BY <1>1, <3>2, SpectrumOfDelay
      <4> QED  BY <1>1, <2>4, <3>1, <3>3, <4>1, <4>2
    <3>5. IsDelayed(h, born, base, d - 1)
      BY <3>2 DEF HistoryIs
    <3>6. base - (d - 1) * Partition = after - d * Partition
      BY <1>1
    <3>7. ASSUME NEW i \in 1..(2 * Partition)
          PROVE  Audio!SpectrumAtDelay(g, d)[i] = Heard(born, after - d * Partition - Partition + i)
      <4>1. i <= Partition + h.fill
        BY <1>3
      <4>2. Audio!SpectrumAtDelay(h, d - 1)[i] = Heard(born, base - (d - 1) * Partition - Partition + i)
        BY <3>5, <4>1 DEF IsDelayed
      <4> QED  BY <3>4, <3>6, <4>2
    <3> QED  BY <3>7 DEF IsDelayed
  <2>6. \A i \in 1..Partition : g.previous[i] = Heard(born, after - Partition + i)
    BY <1>1, <1>3, <2>4 DEF HistoryIs, Heard
  <2>7. HistoryIs(g, count, born, after, 1)
    BY <1>1, <2>4, <2>5, <2>6 DEF HistoryIs
  <2>8. base + h.fill - g.fill = after
    BY <1>1, <1>3, <2>4
  <2> QED  BY <1>3, <2>4, <2>7, <2>8 DEF g
<1> QED  BY <1>2, <1>3

\* The products of the convolution that frame n is, for a renderer born then.
Exact(taps, born, n) == {<<n - t, t>> : t \in {t \in 0..(taps - 1) : n - t > born}}

\* The same with silence.
Weighted(taps, born, n) == {<<Heard(born, n - t), t>> : t \in 0..(taps - 1)}

LEMMA AudibleExact ==
  ASSUME NEW taps \in Nat, NEW born \in Nat, NEW n \in Nat
  PROVE  Audio!Audible(Weighted(taps, born, n)) = Exact(taps, born, n)
<1> DEFINE all == Weighted(taps, born, n)
<1>1. ASSUME NEW t \in 0..(taps - 1)
      PROVE  /\ Heard(born, n - t) # 0 <=> n - t > born
             /\ n - t > born => Heard(born, n - t) = n - t
  BY DEF Heard
<1>2. \A p : p \in Audio!Audible(all) <=> \E t \in 0..(taps - 1) : p = <<Heard(born, n - t), t>> /\ p[1] # 0
  BY DEF Audio!Audible, Weighted
<1>3. \A p : p \in Exact(taps, born, n) <=> \E t \in 0..(taps - 1) : n - t > born /\ p = <<n - t, t>>
  BY DEF Exact
<1> HIDE DEF all
<1>4. ASSUME NEW p PROVE p \in Audio!Audible(all) <=> p \in Exact(taps, born, n)
  <2>1. ASSUME NEW t \in 0..(taps - 1)
        PROVE  (p = <<Heard(born, n - t), t>> /\ p[1] # 0) <=> (n - t > born /\ p = <<n - t, t>>)
    <3>1. p = <<Heard(born, n - t), t>> => p[1] = Heard(born, n - t)
      OBVIOUS
    <3> QED  BY <1>1, <3>1
  <2> QED  BY <1>2, <1>3, <2>1
<1> QED  BY <1>4 DEF all

\* A preset has taps, and partitions for them.
LEMMA TapsCounted ==
  ASSUME Partition \in Nat \ {0}, NEW file \in Waves, Audio!Loads(file)
  PROVE  Audio!Taps(file) \in Nat \ {0} /\ Audio!PartitionCount(file) \in Nat \ {0}
<1>1. file.frames \in Nat \ {0}
  BY AudioAssumption DEF Audio!Loads
<1>2. Audio!Taps(file) \in Nat \ {0}
  <2>1. (file.frames * 160 + 73) \div 147 \in Nat
    BY <1>1
  <2> QED  BY <1>1, <2>1 DEF Audio!Taps
<1>3. \A t \in Nat \ {0} : (t + Partition - 1) \div Partition \in Nat \ {0}
  OBVIOUS
<1> QED  BY <1>2, <1>3 DEF Audio!PartitionCount

\* A tap is in one partition of its preset.
LEMMA TapPlace ==
  ASSUME Partition \in Nat \ {0}, NEW taps \in Nat \ {0}, NEW t \in 0..(taps - 1)
  PROVE  /\ t \div Partition \in 0..((taps + Partition - 1) \div Partition - 1)
         /\ t % Partition \in 0..(Partition - 1)
         /\ (t \div Partition) * Partition + (t % Partition) = t
<1>1. t \div Partition <= (taps + Partition - 1) \div Partition - 1
  OBVIOUS
<1>2. t \div Partition \in Nat /\ (taps + Partition - 1) \div Partition \in Int
  OBVIOUS
<1>3. t % Partition \in 0..(Partition - 1) /\ t = Partition * (t \div Partition) + (t % Partition)
  OBVIOUS
<1>4. (t \div Partition) * Partition = Partition * (t \div Partition)
  BY <1>2
<1> QED  BY <1>1, <1>2, <1>3, <1>4

\* The products of place `at' of the cyclic convolution.
Product(h, at, d, k) ==
  <<Audio!SpectrumAtDelay(h, d)[((at - k) % (2 * Partition)) + 1], d * Partition + k>>
Products(h, file, at) ==
  UNION {{Product(h, at, d, k) : k \in Audio!Plane(file)[d]} : d \in DOMAIN Audio!Plane(file)}

\* A frame of a partition, weighted by tap k of the plane of delay d.
LEMMA ProductIs ==
  ASSUME Partition \in Nat \ {0}, NEW count \in Nat \ {0}, NEW h, NEW born, NEW base,
         HistoryIs(h, count, born, base, 0), NEW j \in 1..h.fill,
         NEW d \in 0..(count - 1), NEW k \in 0..(Partition - 1)
  PROVE  Product(h, Partition + j - 1, d, k)
           = <<Heard(born, (base + j) - (d * Partition + k)), d * Partition + k>>
<1> DEFINE at == (Partition + j - 1) - k
<1>1. base \in Nat /\ h.fill \in 0..Partition
  BY DEF HistoryIs, Histories
<1>2. 2 * Partition \in Nat \ {0} /\ at \in 0..(2 * Partition - 1) /\ j \in Nat
  BY <1>1
<1>3. at % (2 * Partition) = at
  <2>1. \A n \in Nat \ {0} : \A x \in 0..(n - 1) : x % n = x
    OBVIOUS
  <2> HIDE DEF at
  <2> QED  BY <1>2, <2>1
<1>4. at + 1 \in 1..(2 * Partition) /\ at + 1 <= Partition + h.fill
  BY <1>1
<1>5. Audio!SpectrumAtDelay(h, d)[at + 1] = Heard(born, base - d * Partition - Partition + (at + 1))
  <2>1. IsDelayed(h, born, base, d)
    BY DEF HistoryIs
  <2> HIDE DEF at
  <2> QED  BY <1>4, <2>1 DEF IsDelayed
<1>6. base - d * Partition - Partition + (at + 1) = (base + j) - (d * Partition + k)
  <2>1. d * Partition \in Int
    OBVIOUS
  <2> QED  BY <1>1, <1>2, <2>1
<1> QED  BY <1>3, <1>5, <1>6 DEF Product

LEMMA ConvolveUnfolds ==
  \A h, file, at : Audio!Convolve(h, file, at) = Audio!Audible(Products(h, file, at))
  BY DEF Audio!Convolve, Products, Product

\* PartitionedStereoEngine's overlap-save: the half that is kept is the convolution.
LEMMA ConvolveExact ==
  ASSUME Partition \in Nat \ {0}, NEW file \in Waves, Audio!Loads(file), NEW h, NEW born, NEW base,
         HistoryIs(h, Audio!PartitionCount(file), born, base, 0), NEW j \in 1..h.fill
  PROVE  Audio!Convolve(h, file, Partition + j - 1) = Exact(Audio!Taps(file), born, base + j)
<1> DEFINE count == Audio!PartitionCount(file)
           taps == Audio!Taps(file)
           n == base + j
           at == Partition + j - 1
           products == Products(h, file, at)
           all == Weighted(taps, born, n)
<1>1. taps \in Nat \ {0} /\ count \in Nat \ {0} /\ count = (taps + Partition - 1) \div Partition
  BY TapsCounted DEF Audio!PartitionCount
<1>2. /\ DOMAIN Audio!Plane(file) = 0..(count - 1)
      /\ \A d \in 0..(count - 1) :
           Audio!Plane(file)[d] = {k \in 0..(Partition - 1) : d * Partition + k < taps}
  BY DEF Audio!Plane
<1>3. born \in Nat /\ base \in Nat /\ h.fill \in 0..Partition /\ n \in Nat
  BY DEF HistoryIs, Histories
<1>4. \A d \in 0..(count - 1), k \in 0..(Partition - 1) :
        Product(h, at, d, k) = <<Heard(born, n - (d * Partition + k)), d * Partition + k>>
  <2>1. ASSUME NEW d \in 0..(count - 1), NEW k \in 0..(Partition - 1)
        PROVE  Product(h, at, d, k) = <<Heard(born, n - (d * Partition + k)), d * Partition + k>>
    <3>1. count \in Nat \ {0}
      BY <1>1
    <3>2. HistoryIs(h, count, born, base, 0)
      OBVIOUS
    <3> HIDE DEF count
    <3> QED  BY <3>1, <3>2, ProductIs
  <2> QED  BY <2>1
<1>5. Audio!Convolve(h, file, at) = Audio!Audible(products)
  BY ConvolveUnfolds
<1> HIDE DEF count, taps, n, at
<1>6. \A p : p \in products <=>
        \E d \in 0..(count - 1), k \in 0..(Partition - 1) :
          d * Partition + k < taps /\ p = <<Heard(born, n - (d * Partition + k)), d * Partition + k>>
  <2>1. \A p : p \in products <=>
          \E d \in 0..(count - 1) : \E k \in Audio!Plane(file)[d] : p = Product(h, at, d, k)
    BY <1>2 DEF Products
  <2> HIDE DEF products
  <2>2. ASSUME NEW p, NEW d \in 0..(count - 1), NEW k \in 0..(Partition - 1)
        PROVE  /\ k \in Audio!Plane(file)[d] <=> d * Partition + k < taps
               /\ p = Product(h, at, d, k)
                   <=> p = <<Heard(born, n - (d * Partition + k)), d * Partition + k>>
    BY <1>2, <1>4
  <2>3. \A d \in 0..(count - 1) : \A k \in Audio!Plane(file)[d] : k \in 0..(Partition - 1)
    BY <1>2
  <2>4. ASSUME NEW p, p \in products
        PROVE  \E d \in 0..(count - 1), k \in 0..(Partition - 1) :
                 d * Partition + k < taps /\ p = <<Heard(born, n - (d * Partition + k)), d * Partition + k>>
    <3>1. PICK d \in 0..(count - 1) : \E k \in Audio!Plane(file)[d] : p = Product(h, at, d, k)
      BY <2>1, <2>4
    <3>2. PICK k \in Audio!Plane(file)[d] : p = Product(h, at, d, k)
      BY <3>1
    <3>3. k \in 0..(Partition - 1)
      BY <2>3, <3>1, <3>2
    <3> QED  BY <2>2, <3>1, <3>2, <3>3
  <2>5. ASSUME NEW p, NEW d \in 0..(count - 1), NEW k \in 0..(Partition - 1),
               d * Partition + k < taps, p = <<Heard(born, n - (d * Partition + k)), d * Partition + k>>
        PROVE  p \in products
    <3>1. k \in Audio!Plane(file)[d] /\ p = Product(h, at, d, k)
      BY <2>2, <2>5
    <3> QED  BY <2>1, <3>1
  <2> QED  BY <2>4, <2>5
<1> HIDE DEF products
<1>7. ASSUME NEW p, p \in products PROVE p \in all
  <2>1. PICK d \in 0..(count - 1), k \in 0..(Partition - 1) :
          d * Partition + k < taps /\ p = <<Heard(born, n - (d * Partition + k)), d * Partition + k>>
    BY <1>6, <1>7
  <2>2. d * Partition + k \in 0..(taps - 1)
    <3>1. d \in Nat /\ k \in Nat /\ d * Partition \in Nat
      BY <1>1, <2>1
    <3> QED  BY <1>1, <2>1, <3>1
  <2> QED  BY <2>1, <2>2 DEF Weighted
<1>8. ASSUME NEW p, p \in all PROVE p \in products
  <2>1. PICK t \in 0..(taps - 1) : p = <<Heard(born, n - t), t>>
    BY <1>8 DEF Weighted
  <2>2. /\ t \div Partition \in 0..(count - 1) /\ t % Partition \in 0..(Partition - 1)
        /\ (t \div Partition) * Partition + (t % Partition) = t
    BY <1>1, <2>1, TapPlace
  <2>3. t < taps
    BY <1>1, <2>1
  <2> QED  BY <1>6, <2>1, <2>2, <2>3
<1>9. products = all
  <2> HIDE DEF all
  <2> QED  BY <1>7, <1>8
<1> QED  BY <1>1, <1>3, <1>5, <1>9, AudibleExact DEF taps, n, at

-----------------------------------------------------------------------------
(* The direct filter.                                                      *)

Directs(taps) == [history : [0..(taps - 1) -> Int], write : 0..(taps - 1)]

DirectIs(direct, taps, born, upto) ==
  /\ direct \in Directs(taps) /\ born \in Nat /\ upto \in Nat /\ born <= upto
  /\ \A t \in 1..(taps - 1) :
       direct.history[Behind(direct.write, taps, t)] = Heard(born, (upto + 1) - t)

\* DirectFir::process_sample_validated
LEMMA DirectHolds ==
  ASSUME NEW taps \in Nat \ {0}, NEW direct, NEW born, NEW upto, DirectIs(direct, taps, born, upto)
  PROVE  LET sample == Audio!DirectSample(direct, upto + 1)
         IN /\ DirectIs(sample.next, taps, born, upto + 1)
            /\ sample.sum = Exact(taps, born, upto + 1)
<1> DEFINE sample == Audio!DirectSample(direct, upto + 1)
           write == (direct.write + 1) % taps
           history == [direct.history EXCEPT ![direct.write] = upto + 1]
<1>1. /\ direct \in Directs(taps) /\ born \in Nat /\ upto \in Nat /\ born <= upto
      /\ direct.history \in [0..(taps - 1) -> Int] /\ direct.write \in 0..(taps - 1)
  BY DEF DirectIs, Directs
<1>2. Audio!Cardinality(DOMAIN direct.history) = taps
  BY <1>1, RingSize
<1>3. \A t \in 0..(taps - 1) : (direct.write + taps - t) % taps = Behind(direct.write, taps, t)
  BY <1>1, BehindInRing
<1>4. /\ sample.next = [history |-> history, write |-> write]
      /\ sample.sum = Audio!Audible({<<history[(direct.write + taps - t) % taps], t>> : t \in 0..(taps - 1)})
  BY <1>2 DEF Audio!DirectSample
<1>5. history \in [0..(taps - 1) -> Int]
  BY <1>1
<1>6. \A t \in 0..(taps - 1) :
        history[Behind(direct.write, taps, t)] = Heard(born, (upto + 1) - t)
  <2>1. ASSUME NEW t \in 0..(taps - 1)
        PROVE  history[Behind(direct.write, taps, t)] = Heard(born, (upto + 1) - t)
    <3>1. /\ Behind(direct.write, taps, t) \in 0..(taps - 1)
          /\ t > 0 => Behind(direct.write, taps, t) # direct.write
      BY <1>1, BehindInRing
    <3>2. CASE t > 0
      <4>1. t \in 1..(taps - 1)
        BY <3>2
      <4> QED  BY <1>1, <3>1, <3>2, <4>1 DEF DirectIs
    <3>3. CASE ~(t > 0)
      <4>1. t = 0 /\ Behind(direct.write, taps, t) = direct.write
        BY <1>1, <3>3 DEF Behind
      <4> QED  BY <1>1, <4>1 DEF Heard
    <3> QED  BY <3>2, <3>3
  <2> QED  BY <2>1
<1> HIDE DEF history, write, sample
<1>7. sample.sum = Exact(taps, born, upto + 1)
  <2>1. {<<history[(direct.write + taps - t) % taps], t>> : t \in 0..(taps - 1)}
          = Weighted(taps, born, upto + 1)
    <3>1. ASSUME NEW t \in 0..(taps - 1)
          PROVE  <<history[(direct.write + taps - t) % taps], t>> = <<Heard(born, (upto + 1) - t), t>>
      BY <1>3, <1>6
    <3>2. \A p : p \in Weighted(taps, born, upto + 1)
                <=> \E t \in 0..(taps - 1) : p = <<Heard(born, (upto + 1) - t), t>>
      BY DEF Weighted
    <3>3. ASSUME NEW t \in 0..(taps - 1)
          PROVE  <<history[(direct.write + taps - t) % taps], t>> \in Weighted(taps, born, upto + 1)
      BY <3>1, <3>2
    <3>4. ASSUME NEW p \in Weighted(taps, born, upto + 1)
          PROVE  \E t \in 0..(taps - 1) : p = <<history[(direct.write + taps - t) % taps], t>>
      BY <3>1, <3>2
    <3> QED  BY <3>3, <3>4
  <2>2. upto + 1 \in Nat
    BY <1>1
  <2>3. Audio!Audible(Weighted(taps, born, upto + 1)) = Exact(taps, born, upto + 1)
    BY <1>1, <2>2, AudibleExact
  <2> QED  BY <1>4, <2>1, <2>3
<1>8. write \in 0..(taps - 1)
  <2>1. direct.write + 1 \in 0..(2 * taps - 1)
    BY <1>1
  <2>2. write = IF direct.write + 1 < taps THEN direct.write + 1 ELSE (direct.write + 1) - taps
    BY <2>1, SmallMod DEF write
  <2> QED  BY <1>1, <2>2
<1>9. ASSUME NEW t \in 1..(taps - 1)
      PROVE  history[Behind(write, taps, t)] = Heard(born, (upto + 1 + 1) - t)
  <2>1. Behind(write, taps, t) = Behind(direct.write, taps, t - 1)
    BY <1>1, BehindNext DEF write
  <2>2. t - 1 \in 0..(taps - 1) /\ (upto + 1 + 1) - t = (upto + 1) - (t - 1)
    BY <1>1
  <2> QED  BY <1>6, <2>1, <2>2
<1>10. DirectIs(sample.next, taps, born, upto + 1)
  <2>1. /\ sample.next \in Directs(taps) /\ upto + 1 \in Nat /\ born <= upto + 1
        /\ sample.next.history = history /\ sample.next.write = write
    BY <1>1, <1>4, <1>5, <1>8 DEF Directs
  <2> QED  BY <1>1, <1>9, <2>1 DEF DirectIs
<1> QED  BY <1>7, <1>10 DEF sample

-----------------------------------------------------------------------------
(* Recursion over the frames and the pieces of a block.                    *)

\* Induction, for a set of numbers.
LEMMA AllNumbers ==
  ASSUME NEW T \in SUBSET Nat, 0 \in T, \A n \in T : n + 1 \in T
  PROVE  T = Nat
<1> SUFFICES ASSUME Nat \ T # {} PROVE FALSE
  OBVIOUS
<1> DEFINE R == {p \in Nat \X Nat : p[1] < p[2]}
<1>1. IsWellFoundedOn(R, Nat)
  BY NatLessThanWellFounded DEF OpToRel
<1>2. \A x, y \in Nat : y < x => <<y, x>> \in R
  OBVIOUS
<1> HIDE DEF R
<1>3. PICK x \in Nat \ T : \A y \in Nat \ T : ~(<<y, x>> \in R)
  <2>1. Nat \ T \subseteq Nat
    OBVIOUS
  <2> QED  BY <1>1, <2>1, WFMin
<1>4. x # 0 /\ x \in Nat
  BY <1>3
<1>5. x - 1 \in Nat /\ x - 1 < x /\ (x - 1) + 1 = x
  BY <1>4
<1>6. x - 1 \in T
  BY <1>2, <1>3, <1>4, <1>5
<1> QED  BY <1>3, <1>5, <1>6

OracleStep(direct, first, frames, f) ==
  [i \in 0..frames |->
     IF i = 0 THEN [next |-> direct, sum |-> {}]
     ELSE Audio!DirectSample(f[i - 1].next, first + i - 1)]

LEMMA OracleChosen ==
  \A direct, first, frames :
    Audio!Oracle(direct, first, frames)
      = CHOOSE f : f = OracleStep(direct, first, frames, f)
  BY DEF Audio!Oracle, OracleStep

\* The recursive function of Oracle exists.
LEMMA OracleUnfolds ==
  ASSUME NEW direct, NEW first \in Nat, NEW frames \in Nat
  PROVE  LET oracle == Audio!Oracle(direct, first, frames)
         IN oracle = OracleStep(direct, first, frames, oracle)
<1> DEFINE Solves(n, f) == f = OracleStep(direct, first, n, f)
           T == {n \in Nat : \E f : Solves(n, f)}
<1>1. 0 \in T
  <2> DEFINE f == [i \in 0..0 |-> [next |-> direct, sum |-> {}]]
  <2>1. Solves(0, f)
    BY DEF OracleStep
  <2> QED  BY <2>1
<1>2. ASSUME NEW n \in T PROVE n + 1 \in T
  <2>1. n \in Nat
    OBVIOUS
  <2>2. PICK f : Solves(n, f)
    BY <1>2
  <2> DEFINE more == Audio!DirectSample(f[n].next, first + (n + 1) - 1)
             g == [i \in 0..(n + 1) |-> IF i <= n THEN f[i] ELSE more]
  <2>3. /\ f[0] = [next |-> direct, sum |-> {}]
        /\ \A i \in 1..n : f[i] = Audio!DirectSample(f[i - 1].next, first + i - 1)
    <3>1. ASSUME NEW i \in 0..n
          PROVE  f[i] = IF i = 0 THEN [next |-> direct, sum |-> {}]
                        ELSE Audio!DirectSample(f[i - 1].next, first + i - 1)
      <4>1. f[i] = OracleStep(direct, first, n, f)[i]
        BY <2>2
      <4>2. OracleStep(direct, first, n, f)[i]
              = IF i = 0 THEN [next |-> direct, sum |-> {}]
                ELSE Audio!DirectSample(f[i - 1].next, first + i - 1)
        BY DEF OracleStep
      <4> QED  BY <4>1, <4>2
    <3>2. 0 \in 0..n /\ \A i \in 1..n : i \in 0..n /\ i # 0
      BY <2>1
    <3> QED  BY <3>1, <3>2
  <2>4. ASSUME NEW i \in 0..(n + 1)
        PROVE  g[i] = IF i = 0 THEN [next |-> direct, sum |-> {}]
                      ELSE Audio!DirectSample(g[i - 1].next, first + i - 1)
    <3>1. CASE i = 0
      BY <2>1, <2>3, <3>1
    <3>2. CASE i \in 1..n
      <4>1. i # 0 /\ i <= n /\ i - 1 <= n /\ i - 1 \in 0..(n + 1)
        BY <2>1, <3>2
      <4>2. g[i] = f[i] /\ g[i - 1] = f[i - 1]
        BY <4>1
      <4> QED  BY <2>3, <3>2, <4>1, <4>2
    <3>3. CASE i = n + 1
      <4>1. i # 0 /\ ~(i <= n) /\ i - 1 = n /\ n \in 0..(n + 1) /\ n <= n
        BY <2>1, <3>3
      <4>2. g[i] = more /\ g[i - 1] = f[n]
        BY <4>1
      <4> QED  BY <3>3, <4>1, <4>2
    <3> QED  BY <2>1, <3>1, <3>2, <3>3
  <2>5. Solves(n + 1, g)
    <3>1. DOMAIN g = 0..(n + 1) /\ g = [i \in 0..(n + 1) |-> g[i]]
      OBVIOUS
    <3> HIDE DEF g
    <3> QED  BY <2>4, <3>1, Zenon DEF OracleStep
  <2>6. n + 1 \in Nat
    BY <2>1
  <2> HIDE DEF g, Solves
  <2> QED  BY <2>5, <2>6
<1>3. T = Nat
  <2>1. T \in SUBSET Nat
    OBVIOUS
  <2> HIDE DEF T
  <2> QED  BY <1>1, <1>2, <2>1, AllNumbers
<1>4. \E f : Solves(frames, f)
  BY <1>3
<1>5. Solves(frames, CHOOSE f : Solves(frames, f))
  <2> HIDE DEF Solves
  <2> QED  BY <1>4
<1> QED  BY <1>5, OracleChosen

\* FirFilter::process_block: the direct filter gives the convolution.
LEMMA OracleHolds ==
  ASSUME NEW taps \in Nat \ {0}, NEW direct, NEW born, NEW upto,
         DirectIs(direct, taps, born, upto), NEW frames \in Nat, NEW n \in 0..frames
  PROVE  LET oracle == Audio!Oracle(direct, upto + 1, frames)
         IN /\ DirectIs(oracle[n].next, taps, born, upto + n)
            /\ n > 0 => oracle[n].sum = Exact(taps, born, upto + n)
<1> DEFINE oracle == Audio!Oracle(direct, upto + 1, frames)
           Good(i) == /\ DirectIs(oracle[i].next, taps, born, upto + i)
                      /\ i > 0 => oracle[i].sum = Exact(taps, born, upto + i)
           T == {i \in Nat : i <= frames => Good(i)}
<1>1. upto \in Nat /\ upto + 1 \in Nat
  BY DEF DirectIs
<1>2. oracle = OracleStep(direct, upto + 1, frames, oracle)
  BY <1>1, OracleUnfolds
<1> HIDE DEF oracle
<1>3. /\ oracle[0] = [next |-> direct, sum |-> {}]
      /\ \A i \in 1..frames : oracle[i] = Audio!DirectSample(oracle[i - 1].next, upto + 1 + i - 1)
  <2>1. \A i \in 0..frames : oracle[i] = OracleStep(direct, upto + 1, frames, oracle)[i]
    BY <1>2
  <2> QED  BY <2>1 DEF OracleStep
<1>4. 0 \in T
  <2>1. upto + 0 = upto
    BY <1>1
  <2> QED  BY <1>3, <2>1
<1>5. ASSUME NEW i \in T PROVE i + 1 \in T
  <2>1. i \in Nat /\ i + 1 \in Nat
    OBVIOUS
  <2>2. ASSUME i + 1 <= frames PROVE Good(i + 1)
    <3>1. i + 1 \in 1..frames /\ i <= frames /\ (i + 1) - 1 = i /\ upto + i \in Nat
          /\ upto + 1 + (i + 1) - 1 = (upto + i) + 1 /\ (upto + i) + 1 = upto + (i + 1) /\ i + 1 > 0
      BY <1>1, <2>1, <2>2
    <3>2. Good(i)
      BY <3>1
    <3>3. oracle[i + 1] = Audio!DirectSample(oracle[i].next, (upto + i) + 1)
      <4>1. oracle[i + 1] = Audio!DirectSample(oracle[(i + 1) - 1].next, upto + 1 + (i + 1) - 1)
        BY <1>3, <3>1
      <4> QED  BY <3>1, <4>1
    <3>4. /\ DirectIs(oracle[i + 1].next, taps, born, (upto + i) + 1)
          /\ oracle[i + 1].sum = Exact(taps, born, (upto + i) + 1)
      BY <3>2, <3>3, DirectHolds
    <3> QED  BY <3>1, <3>4
  <2> QED  BY <2>1, <2>2
<1>6. T = Nat
  <2>1. T \in SUBSET Nat
    OBVIOUS
  <2> HIDE DEF T
  <2> QED  BY <1>4, <1>5, <2>1, AllNumbers
<1>7. n \in Nat /\ n <= frames
  OBVIOUS
<1> QED  BY <1>6, <1>7 DEF oracle

-----------------------------------------------------------------------------
(* Blocks of music.                                                        *)

Positions == [center : Int, width : Int]

Renderers(file) ==
  [file : {file}, position : Positions, serial : Nat, born : Nat,
   sources : [Audio!Sources -> Histories(Audio!PartitionCount(file))],
   direct : Directs(Audio!Taps(file))]

\* A renderer between two blocks, that has taken in the music up to a frame.
RendererIs(r, upto) ==
  /\ r.file \in Waves /\ Audio!Loads(r.file) /\ r \in Renderers(r.file)
  /\ r.sources["left"].fill < Partition
  /\ \A s \in Audio!Sources :
       /\ r.sources[s].fill = r.sources["left"].fill
       /\ HistoryIs(r.sources[s], Audio!PartitionCount(r.file), r.born,
                    upto - r.sources["left"].fill, 1)
  /\ DirectIs(r.direct, Audio!Taps(r.file), r.born, upto)

\* They differ in what they have taken in only.
Same(r, q) == r.file = q.file /\ r.position = q.position /\ r.serial = q.serial /\ r.born = q.born

Sounds == Seq([Audio!Sources -> SUBSET (Int \X Int)])
Sums == Seq(SUBSET (Int \X Int))

\* What a renderer gave for the n frames after the clock.
SoundIs(sound, direct, r, n) ==
  /\ sound \in Sounds /\ direct \in Sums /\ Len(sound) = n /\ Len(direct) = n
  /\ \A j \in 1..n :
       /\ direct[j] = Exact(Audio!Taps(r.file), r.born, clock + j)
       /\ \A s \in Audio!Sources : sound[j][s] = Exact(Audio!Taps(r.file), r.born, clock + j)

\* Within a block: `done' frames are rendered.
StateIs(state, r, frames, done) ==
  /\ done \in Nat /\ state.left \in Nat /\ done + state.left = frames
  /\ state.frame = clock + done + 1
  /\ Same(state.renderer, r)
  /\ RendererIs(state.renderer, clock + done)
  /\ SoundIs(state.sound, state.direct, r, done)

LEMMA ExactType ==
  ASSUME NEW taps \in Nat, NEW born \in Nat, NEW n \in Nat
  PROVE  Exact(taps, born, n) \in SUBSET (Int \X Int)
<1>1. \A t \in 0..(taps - 1) : <<n - t, t>> \in Int \X Int
  OBVIOUS
<1> QED  BY <1>1 DEF Exact

\* What is rendered next to what was.
LEMMA SoundGrows ==
  ASSUME NEW r, Audio!Taps(r.file) \in Nat, r.born \in Nat, clock \in Nat,
         NEW done \in Nat, NEW n \in Nat, NEW sound, NEW direct, NEW more, NEW sums,
         SoundIs(sound, direct, r, done),
         more = [i \in 1..n |-> more[i]], sums = [i \in 1..n |-> sums[i]],
         \A i \in 1..n :
           /\ more[i] \in [Audio!Sources -> SUBSET (Int \X Int)]
           /\ sums[i] = Exact(Audio!Taps(r.file), r.born, clock + done + i)
           /\ \A s \in Audio!Sources :
                more[i][s] = Exact(Audio!Taps(r.file), r.born, clock + done + i)
  PROVE  SoundIs(sound \o more, direct \o sums, r, done + n)
<1> DEFINE taps == Audio!Taps(r.file)
           Values == SUBSET (Int \X Int)
           Pairs2 == [Audio!Sources -> Values]
<1>1. \A i \in 1..n : sums[i] \in Values
  <2>1. ASSUME NEW i \in 1..n PROVE clock + done + i \in Nat
    OBVIOUS
  <2> QED  BY <2>1, ExactType
<1> HIDE DEF Values
<1>2. more \in Seq(Pairs2) /\ Len(more) = n /\ sums \in Seq(Values) /\ Len(sums) = n
  <2>1. more \in [1..n -> Pairs2] /\ sums \in [1..n -> Values]
    BY <1>1 DEF Values
  <2> HIDE DEF Pairs2
  <2> QED  BY <2>1
<1>3. sound \in Seq(Pairs2) /\ Len(sound) = done /\ direct \in Seq(Values) /\ Len(direct) = done
  BY DEF SoundIs, Sounds, Sums, Values
<1> HIDE DEF Pairs2
<1>4. /\ sound \o more \in Seq(Pairs2) /\ Len(sound \o more) = done + n
      /\ \A j \in 1..(done + n) : (sound \o more)[j] = IF j <= done THEN sound[j] ELSE more[j - done]
  BY <1>2, <1>3, ConcatProperties
<1>5. /\ direct \o sums \in Seq(Values) /\ Len(direct \o sums) = done + n
      /\ \A j \in 1..(done + n) : (direct \o sums)[j] = IF j <= done THEN direct[j] ELSE sums[j - done]
  BY <1>2, <1>3, ConcatProperties
<1>6. ASSUME NEW j \in 1..(done + n)
      PROVE  /\ (direct \o sums)[j] = Exact(taps, r.born, clock + j)
             /\ \A s \in Audio!Sources : (sound \o more)[j][s] = Exact(taps, r.born, clock + j)
  <2>1. CASE j <= done
    <3>1. j \in 1..done
      BY <2>1
    <3> QED  BY <1>4, <1>5, <2>1, <3>1 DEF SoundIs
  <2>2. CASE ~(j <= done)
    <3>1. j - done \in 1..n /\ clock + done + (j - done) = clock + j
      BY <2>2
    <3>2. (direct \o sums)[j] = sums[j - done] /\ (sound \o more)[j] = more[j - done]
      BY <1>4, <1>5, <2>2
    <3> QED  BY <3>1, <3>2
  <2> QED  BY <2>1, <2>2
<1> QED  BY <1>4, <1>5, <1>6 DEF SoundIs, Sounds, Sums, Pairs2, Values

\* The history of a source over one piece.
Source(r, first, n, s) == Audio!AppendInterleaved(r.sources[s], first, n)

LEMMA SourceHolds ==
  ASSUME Partition \in Nat \ {0}, NEW r, NEW upto \in Nat, RendererIs(r, upto),
         NEW n \in 1..(Partition - r.sources["left"].fill), NEW s \in Audio!Sources
  PROVE  LET g == Source(r, upto + 1, n, s)
             f == Audio!FinishPartition(g)
             start == r.sources["left"].fill
             count == Audio!PartitionCount(r.file)
         IN /\ HistoryIs(g, count, r.born, upto - start, 0)
            /\ g.fill = start + n
            /\ HistoryIs(f, count, r.born, (upto + n) - f.fill, 1)
            /\ f.fill < Partition
            /\ f.fill = IF start + n = Partition THEN 0 ELSE start + n
<1> DEFINE g == Source(r, upto + 1, n, s)
           f == Audio!FinishPartition(g)
           start == r.sources["left"].fill
           count == Audio!PartitionCount(r.file)
           base == upto - start
<1>1. count \in Nat \ {0}
  BY TapsCounted DEF RendererIs
<1>2. HistoryIs(r.sources[s], count, r.born, base, 1) /\ r.sources[s].fill = start
  BY DEF RendererIs
<1>3. start \in Nat /\ base + start + 1 = upto + 1 /\ base \in Int
  <2>1. r.sources[s].fill \in 0..Partition
    BY <1>2 DEF HistoryIs, Histories
  <2>2. start \in Nat
    BY <1>2, <2>1
  <2> HIDE DEF start
  <2> QED  BY <2>2
<1>4. HistoryIs(g, count, r.born, base, 0) /\ g.fill = start + n
  <2> HIDE DEF start, base, count
  <2>1. n \in 1..(Partition - r.sources[s].fill)
    BY <1>2 DEF start
  <2> QED  BY <1>1, <1>2, <1>3, <2>1, AppendHolds DEF Source
<1> HIDE DEF g
<1>5. /\ HistoryIs(f, count, r.born, base + g.fill - f.fill, 1) /\ f.fill < Partition
      /\ f.fill = IF g.fill = Partition THEN 0 ELSE g.fill
  BY <1>1, <1>4, FinishHolds
<1> HIDE DEF f
<1>6. base + g.fill - f.fill = (upto + n) - f.fill
  <2>1. f.fill \in Int
    BY <1>5 DEF HistoryIs, Histories
  <2> QED  BY <1>3, <1>4, <2>1
<1> QED  BY <1>4, <1>5, <1>6 DEF f, g

\* PartitionedStereoEngine::render_range over one piece.
LEMMA PieceHolds ==
  ASSUME Partition \in Nat \ {0}, clock \in Nat, NEW state, NEW r, NEW frames \in Nat,
         NEW done, StateIs(state, r, frames, done), NEW n \in 1..state.left,
         n <= Partition - state.renderer.sources["left"].fill
  PROVE  StateIs(Audio!RenderPiece(state, n), r, frames, done + n)
<1> DEFINE q == state.renderer
           upto == clock + done
           start == q.sources["left"].fill
           count == Audio!PartitionCount(q.file)
           taps == Audio!Taps(q.file)
           g == [s \in Audio!Sources |-> Audio!AppendInterleaved(q.sources[s], state.frame, n)]
           f == [s \in Audio!Sources |-> Audio!FinishPartition(g[s])]
           oracle == Audio!Oracle(q.direct, state.frame, n)
           more == [i \in 1..n |-> [s \in Audio!Sources |->
                      Audio!Convolve(g[s], q.file, Partition + start + i - 1)]]
           sums == [i \in 1..n |-> oracle[i].sum]
           piece == Audio!RenderPiece(state, n)
<1>1. /\ done \in Nat /\ upto \in Nat /\ state.frame = upto + 1 /\ state.left \in Nat
      /\ RendererIs(q, upto) /\ Same(q, r) /\ n \in Nat \ {0} /\ done + state.left = frames
  BY DEF StateIs
<1>2. /\ q.file \in Waves /\ Audio!Loads(q.file) /\ q \in Renderers(q.file)
      /\ taps \in Nat \ {0} /\ count \in Nat \ {0}
      /\ q.born \in Nat /\ DirectIs(q.direct, taps, q.born, upto)
  BY <1>1, TapsCounted DEF RendererIs, Renderers
<1>3. piece = [renderer |-> [q EXCEPT !.sources = f, !.direct = oracle[n].next],
               frame |-> state.frame + n, left |-> state.left - n,
               sound |-> state.sound \o more, direct |-> state.direct \o sums]
  BY DEF Audio!RenderPiece
<1> HIDE DEF piece
<1>4. start \in Nat /\ n \in 1..(Partition - start)
  <2>1. start \in 0..Partition
    BY <1>2 DEF Renderers, Histories, Audio!Sources
  <2> QED  BY <1>1, <2>1
<1>5. ASSUME NEW s \in Audio!Sources
      PROVE  /\ g[s] = Source(q, upto + 1, n, s)
             /\ HistoryIs(g[s], count, q.born, upto - start, 0)
             /\ g[s].fill = start + n
             /\ HistoryIs(f[s], count, q.born, (upto + n) - f[s].fill, 1)
             /\ f[s].fill < Partition
             /\ f[s].fill = IF start + n = Partition THEN 0 ELSE start + n
  <2>1. g[s] = Source(q, upto + 1, n, s)
    BY <1>1 DEF Source
  <2>2. f[s] = Audio!FinishPartition(g[s])
    OBVIOUS
  <2> HIDE DEF g, f, upto, q, start, count
  <2> QED  BY <1>1, <1>4, <2>1, <2>2, SourceHolds DEF start, count
<1>6. ASSUME NEW i \in 0..n
      PROVE  /\ DirectIs(oracle[i].next, taps, q.born, upto + i)
             /\ i > 0 => oracle[i].sum = Exact(taps, q.born, upto + i)
  <2>1. oracle = Audio!Oracle(q.direct, upto + 1, n)
    BY <1>1
  <2>2. taps \in Nat \ {0} /\ DirectIs(q.direct, taps, q.born, upto) /\ n \in Nat /\ i \in 0..n
    BY <1>1, <1>2
  <2> HIDE DEF oracle, taps, upto, q
  <2>3. /\ DirectIs(Audio!Oracle(q.direct, upto + 1, n)[i].next, taps, q.born, upto + i)
        /\ i > 0 => Audio!Oracle(q.direct, upto + 1, n)[i].sum = Exact(taps, q.born, upto + i)
    BY ONLY <2>2, OracleHolds, SMTT(30)
  <2> QED  BY <2>1, <2>3
<1>7. ASSUME NEW i \in 1..n, NEW s \in Audio!Sources
      PROVE  more[i][s] = Exact(taps, q.born, upto + i)
  <2>1. /\ start + i \in 1..g[s].fill
        /\ Partition + (start + i) - 1 = Partition + start + i - 1
        /\ (upto - start) + (start + i) = upto + i
    <3>1. g[s].fill = start + n
      BY <1>5
    <3> HIDE DEF g, start, upto
    <3> QED  BY <1>1, <1>4, <3>1
  <2>2. Audio!Convolve(g[s], q.file, Partition + (start + i) - 1)
          = Exact(taps, q.born, (upto - start) + (start + i))
    <3>1. HistoryIs(g[s], count, q.born, upto - start, 0)
      BY <1>5
    <3> HIDE DEF g, start, upto, q
    <3> QED  BY <1>2, <2>1, <3>1, ConvolveExact DEF count, taps
  <2>3. more[i][s] = Audio!Convolve(g[s], q.file, Partition + start + i - 1)
    OBVIOUS
  <2> HIDE DEF more, g, start, upto, q
  <2> QED  BY <2>1, <2>2, <2>3
<1>8. SoundIs(piece.sound, piece.direct, r, done + n)
  <2>1. SoundIs(state.sound, state.direct, r, done)
    BY DEF StateIs
  <2>2. q.file = r.file /\ q.born = r.born
    BY <1>1 DEF Same
  <2>3. ASSUME NEW i \in 1..n
        PROVE  /\ more[i] \in [Audio!Sources -> SUBSET (Int \X Int)]
               /\ sums[i] = Exact(taps, q.born, clock + done + i)
               /\ \A s \in Audio!Sources : more[i][s] = Exact(taps, q.born, clock + done + i)
    <3>1. upto + i \in Nat /\ i \in 0..n /\ i > 0
      BY <1>1
    <3>2. Exact(taps, q.born, upto + i) \in SUBSET (Int \X Int)
      <4> HIDE DEF taps, upto, q
      <4> QED  BY <1>2, <3>1, ExactType
    <3>3. sums[i] = Exact(taps, q.born, upto + i)
      BY <1>6, <3>1
    <3>4. more[i] = [s \in Audio!Sources |-> more[i][s]]
      OBVIOUS
    <3>5. \A s \in Audio!Sources : more[i][s] = Exact(taps, q.born, upto + i)
      BY <1>7
    <3> HIDE DEF more, sums, taps, q
    <3> QED  BY <3>2, <3>3, <3>4, <3>5
  <2>4. more = [i \in 1..n |-> more[i]] /\ sums = [i \in 1..n |-> sums[i]]
    OBVIOUS
  <2>5. piece.sound = state.sound \o more /\ piece.direct = state.direct \o sums
    BY <1>3
  <2>6. /\ Audio!Taps(r.file) \in Nat /\ r.born \in Nat /\ clock \in Nat /\ n \in Nat
        /\ taps = Audio!Taps(r.file) /\ q.born = r.born
    BY <1>1, <1>2, <2>2
  <2> HIDE DEF more, sums, q, taps
  <2>7. SoundIs(state.sound \o more, state.direct \o sums, r, done + n)
    <3>1. done \in Nat
      BY <1>1
    <3>2. \A i \in 1..n :
            /\ more[i] \in [Audio!Sources -> SUBSET (Int \X Int)]
            /\ sums[i] = Exact(Audio!Taps(r.file), r.born, clock + done + i)
            /\ \A s \in Audio!Sources : more[i][s] = Exact(Audio!Taps(r.file), r.born, clock + done + i)
      BY <2>3, <2>6, Zenon
    <3> QED  BY ONLY <2>1, <2>4, <2>6, <3>1, <3>2, SoundGrows, Zenon
  <2> QED  BY <2>5, <2>7
<1>9. Same(piece.renderer, r) /\ RendererIs(piece.renderer, clock + (done + n))
  <2>1. /\ f \in [Audio!Sources -> Histories(count)]
        /\ f["left"].fill < Partition
        /\ \A s \in Audio!Sources : f[s].fill = f["left"].fill
    <3>1. "left" \in Audio!Sources
      BY DEF Audio!Sources
    <3>2. \A s \in Audio!Sources : f[s] \in Histories(count)
      BY <1>5 DEF HistoryIs
    <3>3. f = [s \in Audio!Sources |-> f[s]]
      OBVIOUS
    <3>4. \A s \in Audio!Sources :
            f[s].fill < Partition /\ f[s].fill = IF start + n = Partition THEN 0 ELSE start + n
      BY <1>5
    <3> HIDE DEF f, start, count
    <3> QED  BY <3>1, <3>2, <3>3, <3>4
  <2>2. n \in 0..n /\ upto + n = clock + (done + n)
    BY <1>1
  <2>3. DirectIs(oracle[n].next, taps, q.born, clock + (done + n))
    <3>1. DirectIs(oracle[n].next, taps, q.born, upto + n)
      BY <1>6, <2>2
    <3> QED  BY <2>2, <3>1
  <2>4. \A s \in Audio!Sources :
          HistoryIs(f[s], count, q.born, (clock + (done + n)) - f["left"].fill, 1)
    <3>1. \A s \in Audio!Sources : HistoryIs(f[s], count, q.born, (upto + n) - f[s].fill, 1)
      BY <1>5
    <3> HIDE DEF f, upto, q, count
    <3> QED  BY <2>1, <2>2, <3>1
  <2> DEFINE p == piece.renderer
  <2>5. p = [q EXCEPT !.sources = f, !.direct = oracle[n].next]
    BY <1>3
  <2>6. oracle[n].next \in Directs(taps)
    BY <2>3 DEF DirectIs
  <2> HIDE DEF p, f, oracle, q
  <2>7. /\ p \in Renderers(q.file) /\ p.file = q.file /\ p.born = q.born
        /\ p.position = q.position /\ p.serial = q.serial
        /\ p.sources = f /\ p.direct = oracle[n].next
    BY <1>2, <2>1, <2>5, <2>6 DEF Renderers
  <2>8. RendererIs(p, clock + (done + n))
    BY <1>2, <2>1, <2>3, <2>4, <2>7 DEF RendererIs
  <2>9. Same(p, r)
    BY <1>1, <2>7 DEF Same
  <2> QED  BY <2>8, <2>9 DEF p
<1>10. /\ done + n \in Nat /\ piece.left \in Nat /\ (done + n) + piece.left = frames
       /\ piece.frame = clock + (done + n) + 1
  <2>1. piece.left = state.left - n /\ piece.frame = state.frame + n
    BY <1>3
  <2> QED  BY <1>1, <2>1
<1> QED  BY <1>8, <1>9, <1>10 DEF StateIs, piece

\* One piece more, as long as there are frames left.
PieceAfter(state) ==
  IF state.left = 0 THEN state ELSE Audio!RenderPiece(state, Audio!PieceLength(state))

Begun(renderer, frames) ==
  [renderer |-> renderer, frame |-> clock + 1, left |-> frames, sound |-> <<>>, direct |-> <<>>]

PiecesStep(renderer, frames, f) ==
  [n \in 0..frames |-> IF n = 0 THEN Begun(renderer, frames) ELSE PieceAfter(f[n - 1])]

LEMMA PiecesChosen ==
  \A renderer, frames :
    Audio!Pieces(renderer, frames) = CHOOSE f : f = PiecesStep(renderer, frames, f)
  BY DEF Audio!Pieces, PiecesStep, PieceAfter, Begun

\* The recursive function of Pieces exists.
LEMMA PiecesUnfold ==
  ASSUME NEW renderer, NEW frames \in Nat
  PROVE  LET pieces == Audio!Pieces(renderer, frames)
         IN pieces = PiecesStep(renderer, frames, pieces)
<1> DEFINE Opened == Begun(renderer, frames)
           Solves(n, f) == f = [i \in 0..n |-> IF i = 0 THEN Opened ELSE PieceAfter(f[i - 1])]
           T == {n \in Nat : \E f : Solves(n, f)}
<1> HIDE DEF Opened
<1>1. 0 \in T
  <2> DEFINE f == [i \in 0..0 |-> Opened]
  <2>1. Solves(0, f)
    OBVIOUS
  <2> QED  BY <2>1
<1>2. ASSUME NEW n \in T PROVE n + 1 \in T
  <2>1. n \in Nat
    OBVIOUS
  <2>2. PICK f : Solves(n, f)
    BY <1>2
  <2> DEFINE more == PieceAfter(f[n])
             g == [i \in 0..(n + 1) |-> IF i <= n THEN f[i] ELSE more]
  <2>3. /\ f[0] = Opened
        /\ \A i \in 1..n : f[i] = PieceAfter(f[i - 1])
    <3>1. ASSUME NEW i \in 0..n
          PROVE  f[i] = IF i = 0 THEN Opened ELSE PieceAfter(f[i - 1])
      BY <2>2
    <3>2. 0 \in 0..n /\ \A i \in 1..n : i \in 0..n /\ i # 0
      BY <2>1
    <3> QED  BY <3>1, <3>2
  <2>4. ASSUME NEW i \in 0..(n + 1)
        PROVE  g[i] = IF i = 0 THEN Opened ELSE PieceAfter(g[i - 1])
    <3>1. CASE i = 0
      BY <2>1, <2>3, <3>1
    <3>2. CASE i \in 1..n
      <4>1. i # 0 /\ i <= n /\ i - 1 <= n /\ i - 1 \in 0..(n + 1)
        BY <2>1, <3>2
      <4>2. g[i] = f[i] /\ g[i - 1] = f[i - 1]
        BY <4>1
      <4> QED  BY <2>3, <3>2, <4>1, <4>2
    <3>3. CASE i = n + 1
      <4>1. i # 0 /\ ~(i <= n) /\ i - 1 = n /\ n \in 0..(n + 1) /\ n <= n
        BY <2>1, <3>3
      <4>2. g[i] = more /\ g[i - 1] = f[n]
        BY <4>1
      <4> QED  BY <3>3, <4>1, <4>2
    <3> QED  BY <2>1, <3>1, <3>2, <3>3
  <2>5. Solves(n + 1, g)
    <3>1. DOMAIN g = 0..(n + 1) /\ g = [i \in 0..(n + 1) |-> g[i]]
      OBVIOUS
    <3> HIDE DEF g
    <3> QED  BY <2>4, <3>1, Zenon
  <2>6. n + 1 \in Nat
    BY <2>1
  <2> HIDE DEF g, Solves
  <2> QED  BY <2>5, <2>6
<1>3. T = Nat
  <2>1. T \in SUBSET Nat
    OBVIOUS
  <2> HIDE DEF T
  <2> QED  BY <1>1, <1>2, <2>1, AllNumbers
<1>4. \E f : Solves(frames, f)
  BY <1>3
<1>5. Solves(frames, CHOOSE f : Solves(frames, f))
  <2> HIDE DEF Solves
  <2> QED  BY <1>4
<1>6. \A f : Solves(frames, f) <=> f = PiecesStep(renderer, frames, f)
  BY DEF PiecesStep, Opened
<1> HIDE DEF Solves
<1>7. Audio!Pieces(renderer, frames) = CHOOSE f : Solves(frames, f)
  BY <1>6, PiecesChosen
<1> QED  BY <1>5, <1>6, <1>7

\* What is heard of a block, and the renderer after it.
BlockIs(block, r, frames) ==
  /\ Same(block.renderer, r) /\ RendererIs(block.renderer, clock + frames)
  /\ SoundIs(block.sound, block.direct, r, frames)

\* PartitionedStereoEngine::render_validated: whatever the pieces, the whole block
\* is the convolution.
LEMMA BlockHolds ==
  ASSUME Partition \in Nat \ {0}, clock \in Nat, NEW r, RendererIs(r, clock), NEW frames \in Nat
  PROVE  BlockIs(Audio!RenderBlock(r, frames), r, frames)
<1> DEFINE pieces == Audio!Pieces(r, frames)
           Good(n) == \E done \in Nat : StateIs(pieces[n], r, frames, done) /\ (done = frames \/ n <= done)
           T == {n \in Nat : n <= frames => Good(n)}
<1>1. pieces = PiecesStep(r, frames, pieces)
  BY PiecesUnfold
<1> HIDE DEF pieces
<1>2. pieces[0] = Begun(r, frames) /\ \A n \in 1..frames : pieces[n] = PieceAfter(pieces[n - 1])
  <2>1. \A n \in 0..frames : pieces[n] = PiecesStep(r, frames, pieces)[n]
    BY <1>1
  <2>2. \A n \in 0..frames :
          PiecesStep(r, frames, pieces)[n] = IF n = 0 THEN Begun(r, frames) ELSE PieceAfter(pieces[n - 1])
    BY DEF PiecesStep
  <2> QED  BY <2>1, <2>2
<1>3. 0 \in T
  <2>1. SoundIs(<<>>, <<>>, r, 0)
    BY DEF SoundIs, Sounds, Sums
  <2>2. Same(r, r) /\ clock + 0 = clock /\ clock + 0 + 1 = clock + 1
    BY DEF Same
  <2>3. StateIs(Begun(r, frames), r, frames, 0)
    BY <2>1, <2>2 DEF StateIs, Begun
  <2> QED  BY <1>2, <2>3
<1>4. ASSUME NEW n \in T PROVE n + 1 \in T
  <2>1. n \in Nat /\ n + 1 \in Nat
    OBVIOUS
  <2>2. ASSUME n + 1 <= frames PROVE Good(n + 1)
    <3>1. n + 1 \in 1..frames /\ n <= frames /\ (n + 1) - 1 = n
      BY <2>1, <2>2
    <3>2. PICK done \in Nat : StateIs(pieces[n], r, frames, done) /\ (done = frames \/ n <= done)
      BY <3>1
    <3>3. pieces[n + 1] = PieceAfter(pieces[n])
      BY <1>2, <3>1
    <3> DEFINE state == pieces[n]
               m == Audio!PieceLength(state)
    <3>4. StateIs(state, r, frames, done) /\ state.left \in Nat /\ done + state.left = frames
      BY <3>2 DEF StateIs
    <3>5. CASE state.left = 0
      <4>1. pieces[n + 1] = state
        BY <3>3, <3>5 DEF PieceAfter
      <4>2. done = frames
        BY <3>4, <3>5
      <4> HIDE DEF state
      <4> QED  BY <3>4, <4>1, <4>2
    <3>6. CASE state.left # 0
      <4>1. pieces[n + 1] = Audio!RenderPiece(state, m)
        BY <3>3, <3>6 DEF PieceAfter
      <4>2. state.renderer.sources["left"].fill \in 0..(Partition - 1)
        <5>1. RendererIs(state.renderer, clock + done)
          BY <3>4 DEF StateIs
        <5>2. state.renderer.sources["left"].fill \in 0..Partition
          BY <5>1 DEF RendererIs, Renderers, Histories, Audio!Sources
        <5> QED  BY <5>1, <5>2 DEF RendererIs
      <4> HIDE DEF state
      <4>3. m \in 1..state.left /\ m <= Partition - state.renderer.sources["left"].fill
        BY <3>4, <3>6, <4>2 DEF Audio!PieceLength
      <4> HIDE DEF m
      <4>4. StateIs(pieces[n + 1], r, frames, done + m)
        BY <3>4, <4>1, <4>3, PieceHolds
      <4>5. done + m \in Nat /\ n + 1 <= done + m
        BY <2>1, <2>2, <3>2, <3>4, <4>3
      <4> QED  BY <4>4, <4>5
    <3> QED  BY <3>5, <3>6
  <2> QED  BY <2>1, <2>2
<1>5. T = Nat
  <2>1. T \in SUBSET Nat
    OBVIOUS
  <2> HIDE DEF T
  <2> QED  BY <1>3, <1>4, <2>1, AllNumbers
<1>6. PICK done \in Nat : StateIs(pieces[frames], r, frames, done) /\ (done = frames \/ frames <= done)
  <2>1. frames <= frames
    OBVIOUS
  <2> QED  BY <1>5, <2>1
<1>7. done = frames
  BY <1>6 DEF StateIs
<1>8. Audio!RenderBlock(r, frames) = pieces[frames]
  BY DEF Audio!RenderBlock, pieces
<1> QED  BY <1>6, <1>7, <1>8 DEF StateIs, BlockIs

-----------------------------------------------------------------------------
(* The processor: its renderers have taken in all the music.               *)

LEMMA NotNothing ==
  ASSUME NEW r, NEW upto, RendererIs(r, upto)
  PROVE  r # Audio!Nothing
<1>1. "file" \in DOMAIN r
  BY DEF RendererIs, Renderers
<1> QED  BY <1>1 DEF Audio!Nothing

\* A renderer that has just been prepared.
LEMMA NewHolds ==
  ASSUME Partition \in Nat \ {0}, clock \in Nat, NEW file \in Waves, Audio!Loads(file),
         NEW position \in Positions, NEW serial \in Nat
  PROVE  /\ RendererIs(Audio!Renderer(file, position, serial), clock)
         /\ Audio!Renderer(file, position, serial).file = file
         /\ Audio!Renderer(file, position, serial).position = position
         /\ Audio!Renderer(file, position, serial).serial = serial
<1> DEFINE r == Audio!Renderer(file, position, serial)
           count == Audio!PartitionCount(file)
           taps == Audio!Taps(file)
           h == Audio!NewHistory(count)
           direct == Audio!NewDirect(taps)
<1>1. taps \in Nat \ {0} /\ count \in Nat \ {0}
  BY TapsCounted
<1>2. r = [file |-> file, position |-> position, serial |-> serial, born |-> clock,
           sources |-> [s \in Audio!Sources |-> h], direct |-> direct]
  BY DEF Audio!Renderer
<1>3. h = [previous |-> [i \in 1..Partition |-> 0], current |-> [i \in 1..Partition |-> 0],
           spectra |-> [slot \in 0..(count - 1) |-> [i \in 1..(2 * Partition) |-> 0]],
           slot |-> 0, fill |-> 0]
  BY DEF Audio!NewHistory, Audio!Silent
<1>4. direct = [history |-> [i \in 0..(taps - 1) |-> 0], write |-> 0]
  BY DEF Audio!NewDirect
<1> HIDE DEF r, h, direct, count, taps
<1>5. h \in Histories(count) /\ h.fill = 0
  BY <1>1, <1>3 DEF Histories, Halves, Spectra
<1>6. ASSUME NEW d \in 1..(count - 1) PROVE IsDelayed(h, clock, clock, d)
  <2>1. d \in 0..(count - 1) /\ h.slot \in 0..(count - 1)
    BY <1>1, <1>3
  <2>2. Audio!SpectrumAtDelay(h, d) = h.spectra[Behind(h.slot, count, d)]
    BY <1>1, <1>5, <2>1, SpectrumOfDelay
  <2>3. Behind(h.slot, count, d) \in 0..(count - 1)
    BY <1>1, <2>1, BehindInRing
  <2>4. Audio!SpectrumAtDelay(h, d) = [i \in 1..(2 * Partition) |-> 0]
    BY <1>3, <2>2, <2>3
  <2>5. ASSUME NEW i \in 1..(2 * Partition)
        PROVE  Heard(clock, clock - d * Partition - Partition + i) = 0
    <3>1. d * Partition >= Partition /\ d * Partition \in Nat
      BY <1>1
    <3>2. clock - d * Partition - Partition + i <= clock
      BY <3>1
    <3>3. clock - d * Partition - Partition + i \in Int
      BY <3>1
    <3> QED  BY <3>2, <3>3 DEF Heard
  <2> QED  BY <2>4, <2>5 DEF IsDelayed
<1>7. HistoryIs(h, count, clock, clock - 0, 1)
  <2>1. clock - 0 = clock
    OBVIOUS
  <2>2. \A i \in 1..Partition : h.previous[i] = 0 /\ Heard(clock, clock - Partition + i) = 0
    BY <1>3 DEF Heard
  <2>3. \A i \in 1..h.fill : FALSE
    BY <1>5
  <2> QED  BY <1>5, <1>6, <2>1, <2>2, <2>3 DEF HistoryIs
<1>8. DirectIs(direct, taps, clock, clock)
  <2>1. direct \in Directs(taps) /\ direct.write = 0
    BY <1>1, <1>4 DEF Directs
  <2>2. ASSUME NEW t \in 1..(taps - 1)
        PROVE  direct.history[Behind(direct.write, taps, t)] = Heard(clock, (clock + 1) - t)
    <3>1. Behind(direct.write, taps, t) \in 0..(taps - 1)
      <4>1. t \in 0..(taps - 1) /\ direct.write \in 0..(taps - 1)
        BY <1>1, <2>1
      <4> QED  BY <1>1, <4>1, BehindInRing
    <3>2. direct.history[Behind(direct.write, taps, t)] = 0
      BY <1>4, <3>1
    <3>3. Heard(clock, (clock + 1) - t) = 0
      BY DEF Heard
    <3> QED  BY <3>2, <3>3
  <2> QED  BY <2>1, <2>2 DEF DirectIs
<1>9. /\ r.file = file /\ r.position = position /\ r.serial = serial /\ r.born = clock
      /\ r.direct = direct /\ \A s \in Audio!Sources : r.sources[s] = h
  BY <1>2
<1>10. r \in Renderers(file)
  <2>1. direct \in Directs(taps)
    BY <1>8 DEF DirectIs
  <2> QED  BY <1>2, <1>5, <2>1 DEF Renderers, count, taps
<1>11. "left" \in Audio!Sources
  BY DEF Audio!Sources
<1>12. RendererIs(r, clock)
  <2>1. r.sources["left"] = h /\ h.fill < Partition
    BY <1>5, <1>9, <1>11
  <2>2. \A s \in Audio!Sources :
          r.sources[s].fill = r.sources["left"].fill
          /\ HistoryIs(r.sources[s], count, r.born, clock - r.sources["left"].fill, 1)
    BY <1>5, <1>7, <1>9, <2>1
  <2>3. r \in Renderers(r.file) /\ DirectIs(r.direct, taps, r.born, clock)
    BY <1>8, <1>9, <1>10
  <2>4. count = Audio!PartitionCount(r.file) /\ taps = Audio!Taps(r.file)
    BY <1>9 DEF count, taps
  <2>5. r.file \in Waves /\ Audio!Loads(r.file)
    BY <1>9
  <2>6. r.sources["left"].fill < Partition
    BY <2>1
  <2> QED  BY ONLY <2>2, <2>3, <2>4, <2>5, <2>6 DEF RendererIs
<1> QED  BY <1>9, <1>12 DEF r

\* A renderer is moved, or goes on where it was.
LEMMA MovedHolds ==
  ASSUME NEW r, NEW upto, RendererIs(r, upto), NEW position \in Positions
  PROVE  LET q == [r EXCEPT !.position = position]
         IN /\ RendererIs(q, upto)
            /\ q.file = r.file /\ q.position = position /\ q.serial = r.serial /\ q.born = r.born
<1> DEFINE q == [r EXCEPT !.position = position]
<1>1. r \in Renderers(r.file)
  BY DEF RendererIs
<1>2. /\ q \in Renderers(r.file) /\ q.file = r.file /\ q.position = position
      /\ q.serial = r.serial /\ q.born = r.born
      /\ q.sources = r.sources /\ q.direct = r.direct
  BY <1>1 DEF Renderers
<1> HIDE DEF q
<1>3. RendererIs(q, upto)
  BY <1>2 DEF RendererIs
<1> QED  BY <1>2, <1>3 DEF q

LEMMA ResetHolds ==
  ASSUME Partition \in Nat \ {0}, clock \in Nat, NEW r, NEW upto, RendererIs(r, upto)
  PROVE  RendererIs(Audio!ResetRenderer(r), clock)
<1>1. r.file \in Waves /\ Audio!Loads(r.file) /\ r.position \in Positions /\ r.serial \in Nat
  BY DEF RendererIs, Renderers
<1>2. RendererIs(Audio!Renderer(r.file, r.position, r.serial), clock)
  BY <1>1, NewHolds
<1> QED  BY <1>2 DEF Audio!ResetRenderer

LEMMA PlacesAre ==
  ASSUME NEW pair \in Int \X Int
  PROVE  Audio!Position(pair) \in Positions
<1>1. \A n \in Int : Audio!Normalize(n) \in Int
  BY DEF Audio!Normalize
<1> QED  BY <1>1 DEF Audio!Position, Positions

\* What a renderer gave from frame `start' on is the convolution.
RenderingIs(w, start) ==
  /\ w.file \in Waves /\ w.position \in Positions
  /\ w.planes = [left |-> Audio!Selection(w.file, Audio!LeftDegrees(w.position)),
                 right |-> Audio!Selection(w.file, Audio!RightDegrees(w.position))]
  /\ \A j \in DOMAIN w.sound : \A s \in Audio!Sources :
       /\ w.sound[j][s] = Exact(Audio!Taps(w.file), w.born, start + j)
       /\ w.direct[j] = Exact(Audio!Taps(w.file), w.born, start + j)

AudioInv ==
  /\ clock \in Nat /\ place \in Positions /\ mode \in Positions
  /\ RendererIs(active, clock)
  /\ pending = Audio!Nothing => fade = Audio!Nothing
  /\ pending # Audio!Nothing => RendererIs(pending, clock)
  /\ heard = [start |-> heard.start, wet |-> heard.wet, levels |-> heard.levels]
  /\ \A i \in DOMAIN heard.wet : RenderingIs(heard.wet[i], heard.start)

LEMMA RenderingHolds ==
  ASSUME NEW r, NEW block, NEW frames \in Nat, RendererIs(r, clock), BlockIs(block, r, frames)
  PROVE  RenderingIs(Audio!Rendering(r, block), clock)
<1> DEFINE w == Audio!Rendering(r, block)
<1>1. /\ w.file = r.file /\ w.born = r.born /\ w.position = r.position
      /\ w.planes = [left |-> Audio!Selection(r.file, Audio!LeftDegrees(r.position)),
                     right |-> Audio!Selection(r.file, Audio!RightDegrees(r.position))]
      /\ w.sound = block.sound /\ w.direct = block.direct
  BY DEF Audio!Rendering
<1> HIDE DEF w
<1>2. DOMAIN block.sound = 1..frames
  BY DEF BlockIs, SoundIs, Sounds
<1>3. \A j \in 1..frames :
        /\ block.direct[j] = Exact(Audio!Taps(r.file), r.born, clock + j)
        /\ \A s \in Audio!Sources : block.sound[j][s] = Exact(Audio!Taps(r.file), r.born, clock + j)
  BY DEF BlockIs, SoundIs
<1>4. r.file \in Waves /\ r.position \in Positions
  BY DEF RendererIs, Renderers
<1>5. RenderingIs(w, clock)
  BY <1>1, <1>2, <1>3, <1>4 DEF RenderingIs
<1> QED  BY <1>5 DEF w

LEMMA AudioConstants ==
  Partition \in Nat \ {0} /\ Blocks \subseteq Nat /\ Pairs \subseteq Int \X Int
BY AudioAssumption

LEMMA SteeredHolds ==
  ASSUME NEW r, RendererIs(r, clock), place \in Positions
  PROVE  RendererIs(Audio!Steered(r), clock) /\ Audio!Steered(r).serial = r.serial
<1>1. Audio!Steered(r) = [r EXCEPT !.position = place]
  BY NotNothing DEF Audio!Steered
<1> QED  BY <1>1, MovedHolds

\* A renderer over one block, heard or not.
LEMMA WarmedHolds ==
  ASSUME AudioInv, NEW r, RendererIs(r, clock), NEW frames \in Blocks
  PROVE  LET now == Audio!Steered(r)
         IN /\ RendererIs(Audio!Warmed(now, frames), clock + frames)
            /\ RendererIs(Audio!RenderBlock(now, frames).renderer, clock + frames)
            /\ Audio!RenderBlock(now, frames).renderer.serial = r.serial
            /\ RenderingIs(Audio!Rendering(now, Audio!RenderBlock(now, frames)), clock)
<1> DEFINE now == Audio!Steered(r)
<1>1. RendererIs(now, clock) /\ now.serial = r.serial /\ clock \in Nat /\ frames \in Nat
  BY SteeredHolds, AudioConstants DEF AudioInv
<1> HIDE DEF now
<1>2. BlockIs(Audio!RenderBlock(now, frames), now, frames)
  BY <1>1, BlockHolds, AudioConstants
<1>3. RenderingIs(Audio!Rendering(now, Audio!RenderBlock(now, frames)), clock)
  BY <1>1, <1>2, RenderingHolds
<1>4. /\ RendererIs(Audio!RenderBlock(now, frames).renderer, clock + frames)
      /\ Audio!RenderBlock(now, frames).renderer.serial = r.serial
  BY <1>1, <1>2 DEF BlockIs, Same
<1> QED  BY <1>3, <1>4 DEF Audio!Warmed, now

LEMMA InitAudio == Audio!Init => AudioInv
<1> SUFFICES ASSUME Audio!Init PROVE AudioInv
  OBVIOUS
<1>1. clock \in Nat /\ place \in Positions /\ mode \in Positions
  <2>1. <<0, 60>> \in Int \X Int
    OBVIOUS
  <2> QED  BY <2>1, PlacesAre DEF Audio!Init
<1>2. RendererIs(active, clock)
  <2>1. PICK file \in Waves : Audio!Loads(file) /\ active = Audio!Renderer(file, place, 0)
    BY DEF Audio!Init
  <2> QED  BY <1>1, <2>1, NewHolds, AudioConstants
<1>3. heard.wet = <<>> /\ heard = [start |-> 0, wet |-> <<>>, levels |-> <<>>]
  BY DEF Audio!Init
<1> QED  BY <1>1, <1>2, <1>3 DEF AudioInv, Audio!Init

LEMMA DryInv ==
  ASSUME AudioInv, NEW frames \in Blocks, clock' = clock + frames, mode' = place, place' = place,
         Audio!ProcessDry(frames)
  PROVE  AudioInv'
<1>1. clock' \in Nat /\ pending = Audio!Nothing /\ pending' = pending /\ fade' = fade
  BY AudioConstants DEF AudioInv, Audio!ProcessDry, Audio!FullyDry
<1>2. RendererIs(active', clock')
  BY WarmedHolds DEF AudioInv, Audio!ProcessDry
<1>3. /\ heard'.wet = <<>>
      /\ heard' = [start |-> heard'.start, wet |-> heard'.wet, levels |-> heard'.levels]
  BY DEF Audio!ProcessDry
<1>4. \A i \in DOMAIN heard'.wet : FALSE
  BY <1>3
<1> QED  BY <1>1, <1>2, <1>3, <1>4 DEF AudioInv

LEMMA WetInv ==
  ASSUME AudioInv, NEW frames \in Blocks, clock' = clock + frames, mode' = place, place' = place,
         Audio!ProcessWet(frames)
  PROVE  AudioInv'
<1> DEFINE now == Audio!Steered(active)
           then == Audio!Steered(pending)
           after == IF fade = Audio!Nothing THEN Audio!Nothing ELSE Audio!After(fade, frames)
           swap == fade # Audio!Nothing /\ Audio!Completed(after)
           earlier == Audio!RenderBlock(now, frames)
           later == Audio!RenderBlock(then, frames)
           first == Audio!Rendering(now, earlier)
           second == Audio!Rendering(then, later)
<1>1. /\ active' = IF swap THEN later.renderer ELSE earlier.renderer
      /\ pending' = IF pending = Audio!Nothing \/ swap THEN Audio!Nothing ELSE later.renderer
      /\ fade' = IF swap THEN Audio!Nothing ELSE after
      /\ heard'.start = clock
      /\ heard'.wet = <<first>> \o (IF pending = Audio!Nothing THEN <<>> ELSE <<second>>)
      /\ heard' = [start |-> heard'.start, wet |-> heard'.wet, levels |-> heard'.levels]
  BY DEF Audio!ProcessWet
<1>2. RendererIs(earlier.renderer, clock + frames) /\ RenderingIs(first, clock)
  BY WarmedHolds DEF AudioInv
<1>3. pending # Audio!Nothing =>
        RendererIs(later.renderer, clock + frames) /\ RenderingIs(second, clock)
  BY WarmedHolds DEF AudioInv
<1>4. swap => pending # Audio!Nothing
  BY DEF AudioInv
<1>5. after = Audio!Nothing \/ pending # Audio!Nothing
  BY DEF AudioInv
<1> HIDE DEF now, then, after, swap, earlier, later, first, second
<1>6. clock' \in Nat
  BY AudioConstants DEF AudioInv
<1>7. RendererIs(active', clock')
  BY <1>1, <1>2, <1>3, <1>4
<1>8. /\ pending' = Audio!Nothing => fade' = Audio!Nothing
      /\ pending' # Audio!Nothing => RendererIs(pending', clock')
  <2>1. CASE pending = Audio!Nothing \/ swap
    BY <1>1, <1>4, <1>5, <2>1
  <2>2. CASE ~(pending = Audio!Nothing \/ swap)
    <3>1. RendererIs(later.renderer, clock') /\ pending' = later.renderer
      BY <1>1, <1>3, <2>2
    <3> QED  BY <3>1, NotNothing
  <2> QED  BY <2>1, <2>2
<1>9. ASSUME NEW i \in DOMAIN heard'.wet PROVE RenderingIs(heard'.wet[i], heard'.start)
  <2>1. CASE pending = Audio!Nothing
    <3>1. heard'.wet = <<first>>
      BY <1>1, <2>1
    <3>2. heard'.wet[i] = first
      BY <3>1
    <3> QED  BY <1>1, <1>2, <3>2
  <2>2. CASE pending # Audio!Nothing
    <3> DEFINE Both == {first, second}
    <3>1. heard'.wet = <<first>> \o <<second>>
      BY <1>1, <2>2
    <3>2. <<first>> \in Seq(Both) /\ <<second>> \in Seq(Both)
      OBVIOUS
    <3> HIDE DEF Both
    <3>3. <<first>> \o <<second>> \in Seq(Both)
      BY <3>2
    <3>4. heard'.wet[i] \in Both
      BY <3>1, <3>3
    <3>5. heard'.wet[i] = first \/ heard'.wet[i] = second
      BY <3>4 DEF Both
    <3> QED  BY <1>1, <1>2, <1>3, <2>2, <3>5
  <2> QED  BY <2>1, <2>2
<1> QED  BY <1>1, <1>6, <1>7, <1>8, <1>9 DEF AudioInv

\* Between two blocks nothing that was heard changes.
LEMMA ForgetKeeps ==
  ASSUME AudioInv, NEW frames, Audio!Forget(frames)
  PROVE  /\ heard'.wet = heard.wet /\ heard'.start = heard.start
         /\ heard' = [start |-> heard'.start, wet |-> heard'.wet, levels |-> heard'.levels]
<1>1. heard = [start |-> heard.start, wet |-> heard.wet, levels |-> heard.levels]
  BY DEF AudioInv
<1>2. CASE UNCHANGED <<heard, before>>
  BY <1>1, <1>2
<1>3. CASE heard' = [heard EXCEPT !.levels = <<>>]
  <2> DEFINE start == heard.start
             wets == heard.wet
             levels == heard.levels
  <2>1. heard = [start |-> start, wet |-> wets, levels |-> levels]
    BY <1>1
  <2> HIDE DEF start, wets, levels
  <2>2. heard' = [start |-> start, wet |-> wets, levels |-> <<>>]
    BY <1>3, <2>1
  <2> QED  BY <2>1, <2>2
<1> QED  BY <1>2, <1>3 DEF Audio!Forget

LEMMA RampsInv ==
  ASSUME AudioInv, NEW frames, Audio!Forget(frames),
         UNCHANGED <<clock, place, mode, active, pending, fade>>
  PROVE  AudioInv'
BY ForgetKeeps DEF AudioInv

LEMMA MoveInv ==
  ASSUME AudioInv, NEW pair \in Pairs, Audio!SetOrbitPosition(pair)
  PROVE  AudioInv'
<1> DEFINE position == Audio!Position(pair)
<1>1. /\ place' = position /\ mode' = position /\ clock' = clock
      /\ active' = [active EXCEPT !.position = position]
      /\ pending' = IF pending = Audio!Nothing THEN Audio!Nothing
                    ELSE [pending EXCEPT !.position = position]
      /\ fade' = fade /\ heard' = heard
  BY DEF Audio!SetOrbitPosition, Audio!Control
<1>2. position \in Positions
  BY PlacesAre, AudioConstants
<1> HIDE DEF position
<1>3. RendererIs(active', clock')
  BY <1>1, <1>2, MovedHolds DEF AudioInv
<1>4. /\ pending' = Audio!Nothing => fade' = Audio!Nothing
      /\ pending' # Audio!Nothing => RendererIs(pending', clock')
  <2>1. CASE pending = Audio!Nothing
    BY <1>1, <2>1 DEF AudioInv
  <2>2. CASE pending # Audio!Nothing
    <3>1. RendererIs(pending', clock')
      BY <1>1, <1>2, <2>2, MovedHolds DEF AudioInv
    <3> QED  BY <3>1, NotNothing
  <2> QED  BY <2>1, <2>2
<1> QED  BY <1>1, <1>2, <1>3, <1>4 DEF AudioInv

LEMMA InstallInv ==
  ASSUME AudioInv, NEW file \in Waves, NEW frames, Audio!InstallPreset(file, frames)
  PROVE  AudioInv'
<1> DEFINE serial == 1 + active.serial
           replacement == Audio!Renderer(file, mode, serial)
<1>1. /\ pending = Audio!Nothing /\ Audio!Loads(file)
      /\ IF frames <= 1
         THEN active' = Audio!ResetRenderer(replacement) /\ UNCHANGED <<pending, fade>>
         ELSE pending' = replacement /\ fade' = Audio!NewFade(frames) /\ UNCHANGED active
      /\ Audio!Forget(frames) /\ UNCHANGED <<clock, place, mode>>
  BY DEF Audio!InstallPreset, Audio!Control
<1>2. clock \in Nat /\ mode \in Positions /\ serial \in Nat
  BY DEF AudioInv, RendererIs, Renderers
<1> HIDE DEF serial
<1>3. RendererIs(replacement, clock)
  BY <1>1, <1>2, NewHolds, AudioConstants
<1> HIDE DEF replacement
<1>4. RendererIs(Audio!ResetRenderer(replacement), clock)
  BY <1>2, <1>3, ResetHolds, AudioConstants
<1>5. /\ RendererIs(active', clock')
      /\ pending' = Audio!Nothing => fade' = Audio!Nothing
      /\ pending' # Audio!Nothing => RendererIs(pending', clock')
  <2>1. CASE frames <= 1
    BY <1>1, <1>4, <2>1 DEF AudioInv
  <2>2. CASE ~(frames <= 1)
    <3>1. pending' # Audio!Nothing /\ RendererIs(pending', clock')
      BY <1>1, <1>3, <2>2, NotNothing
    <3> QED  BY <1>1, <2>2, <3>1 DEF AudioInv
  <2> QED  BY <2>1, <2>2
<1> QED  BY <1>1, <1>5, ForgetKeeps DEF AudioInv

LEMMA ResetInv ==
  ASSUME AudioInv, Audio!Reset
  PROVE  AudioInv'
<1> DEFINE kept == IF pending = Audio!Nothing THEN active ELSE pending
<1>1. /\ active' = Audio!ResetRenderer(kept) /\ pending' = Audio!Nothing /\ fade' = Audio!Nothing
      /\ Audio!Forget(0) /\ UNCHANGED <<clock, place, mode>>
  BY DEF Audio!Reset, Audio!Control
<1>2. RendererIs(kept, clock) /\ clock \in Nat
  BY DEF AudioInv
<1> HIDE DEF kept
<1>3. RendererIs(active', clock')
  BY <1>1, <1>2, ResetHolds, AudioConstants
<1> QED  BY <1>1, <1>3, ForgetKeeps DEF AudioInv

LEMMA StepAudio == AudioInv /\ [Audio!Next]_audioVars => AudioInv'
<1> SUFFICES ASSUME AudioInv, [Audio!Next]_audioVars PROVE AudioInv'
  OBVIOUS
<1>1. CASE UNCHANGED audioVars
  BY <1>1 DEF audioVars, AudioInv
<1>2. ASSUME NEW frames \in Blocks, Audio!ProcessBlock(frames) PROVE AudioInv'
  <2>1. clock' = clock + frames /\ mode' = place /\ place' = place
    BY <1>2 DEF Audio!ProcessBlock
  <2> QED  BY <1>2, <2>1, DryInv, WetInv DEF Audio!ProcessBlock
<1>3. ASSUME NEW frames, NEW value, Audio!SetOutputGain(value, frames) PROVE AudioInv'
  BY <1>3, RampsInv DEF Audio!SetOutputGain, Audio!Control
<1>4. ASSUME NEW frames, NEW enabled, Audio!SetWetEnabled(enabled, frames) PROVE AudioInv'
  BY <1>4, RampsInv DEF Audio!SetWetEnabled, Audio!Control
<1> QED  BY <1>1, <1>2, <1>3, <1>4, InstallInv, MoveInv, ResetInv DEF Audio!Next

-----------------------------------------------------------------------------
(* Where it is heard from.                                                 *)

Directions == {"FL", "FR", "FC", "BL", "BR", "SL", "SR"}

\* The arcs between two loudspeakers that are next to each other: where they begin,
\* and how wide they are.
Arcs ==
  {[first |-> "BR", second |-> "SR", low |-> -150, arc |-> 60],
   [first |-> "SR", second |-> "FR", low |-> -90, arc |-> 60],
   [first |-> "FR", second |-> "FC", low |-> -30, arc |-> 30],
   [first |-> "FC", second |-> "FL", low |-> 0, arc |-> 30],
   [first |-> "FL", second |-> "SL", low |-> 30, arc |-> 60],
   [first |-> "SL", second |-> "BL", low |-> 90, arc |-> 60],
   [first |-> "BL", second |-> "BR", low |-> 150, arc |-> 60]}

Turned(from, to) == (to - from) % 360
InArc(a, azimuth) == Turned(a.low, azimuth) < a.arc

\* Every azimuth is in an arc.
LEMMA ArcOf ==
  ASSUME NEW azimuth \in Int
  PROVE  \E a \in Arcs : InArc(a, azimuth)
<1> DEFINE n == azimuth % 360
<1>1. n \in 0..359
  OBVIOUS
<1>2. /\ (azimuth - (-150)) % 360 = (n + 150) % 360
      /\ (azimuth - (-90)) % 360 = (n + 90) % 360
      /\ (azimuth - (-30)) % 360 = (n + 30) % 360
      /\ (azimuth - 0) % 360 = n % 360
      /\ (azimuth - 30) % 360 = (n + 330) % 360
      /\ (azimuth - 90) % 360 = (n + 270) % 360
      /\ (azimuth - 150) % 360 = (n + 210) % 360
  OBVIOUS
<1> HIDE DEF n
<1>3. \/ (n + 150) % 360 < 60 \/ (n + 90) % 360 < 60 \/ (n + 30) % 360 < 30
      \/ n % 360 < 30 \/ (n + 330) % 360 < 60 \/ (n + 270) % 360 < 60 \/ (n + 210) % 360 < 60
  BY <1>1
<1> QED  BY <1>2, <1>3 DEF Arcs, InArc, Turned

AnchorsAre ==
  /\ Audio!Anchors[1] = <<-150, "BR">> /\ Audio!Anchors[2] = <<-90, "SR">>
  /\ Audio!Anchors[3] = <<-30, "FR">> /\ Audio!Anchors[4] = <<0, "FC">>
  /\ Audio!Anchors[5] = <<30, "FL">> /\ Audio!Anchors[6] = <<90, "SL">>
  /\ Audio!Anchors[7] = <<150, "BL">> /\ Len(Audio!Anchors) = 7

LEMMA AnchorsHold == AnchorsAre
BY DEF AnchorsAre, Audio!Anchors

\* They go round from the right to the left.
LEMMA AnchorsRise ==
  ASSUME NEW i \in 1..7, NEW j \in 1..7, i < j
  PROVE  /\ Audio!Anchors[i][1] \in Int /\ Audio!Anchors[j][1] \in Int
         /\ Audio!Anchors[i][1] < Audio!Anchors[j][1]
<1> DEFINE deg == [k \in 1..7 |-> Audio!Anchors[k][1]]
<1>1. /\ deg[1] = -150 /\ deg[2] = -90 /\ deg[3] = -30 /\ deg[4] = 0
      /\ deg[5] = 30 /\ deg[6] = 90 /\ deg[7] = 150
  BY AnchorsHold DEF AnchorsAre
<1>2. deg[i] = Audio!Anchors[i][1] /\ deg[j] = Audio!Anchors[j][1]
  OBVIOUS
<1> HIDE DEF deg
<1>3. deg[i] \in Int /\ deg[j] \in Int /\ deg[i] < deg[j]
  BY <1>1
<1> QED  BY <1>2, <1>3

\* The arc of an anchor.
LEMMA ArcAnchors ==
  ASSUME NEW a \in Arcs
  PROVE  \/ a = [first |-> "BL", second |-> "BR", low |-> 150, arc |-> 60]
         \/ /\ a.low \in -150..90 /\ a.arc \in 30..60 /\ a.low + a.arc <= 150
            /\ \E k \in 1..6 : /\ Audio!Anchors[k] = <<a.low, a.first>>
                               /\ Audio!Anchors[k + 1] = <<a.low + a.arc, a.second>>
<1>1. CASE a = [first |-> "BR", second |-> "SR", low |-> -150, arc |-> 60]
  <2>1. Audio!Anchors[1] = <<a.low, a.first>> /\ Audio!Anchors[1 + 1] = <<a.low + a.arc, a.second>>
    BY <1>1, AnchorsHold DEF AnchorsAre
  <2> QED  BY <1>1, <2>1
<1>2. CASE a = [first |-> "SR", second |-> "FR", low |-> -90, arc |-> 60]
  <2>1. Audio!Anchors[2] = <<a.low, a.first>> /\ Audio!Anchors[2 + 1] = <<a.low + a.arc, a.second>>
    BY <1>2, AnchorsHold DEF AnchorsAre
  <2> QED  BY <1>2, <2>1
<1>3. CASE a = [first |-> "FR", second |-> "FC", low |-> -30, arc |-> 30]
  <2>1. Audio!Anchors[3] = <<a.low, a.first>> /\ Audio!Anchors[3 + 1] = <<a.low + a.arc, a.second>>
    BY <1>3, AnchorsHold DEF AnchorsAre
  <2> QED  BY <1>3, <2>1
<1>4. CASE a = [first |-> "FC", second |-> "FL", low |-> 0, arc |-> 30]
  <2>1. Audio!Anchors[4] = <<a.low, a.first>> /\ Audio!Anchors[4 + 1] = <<a.low + a.arc, a.second>>
    BY <1>4, AnchorsHold DEF AnchorsAre
  <2> QED  BY <1>4, <2>1
<1>5. CASE a = [first |-> "FL", second |-> "SL", low |-> 30, arc |-> 60]
  <2>1. Audio!Anchors[5] = <<a.low, a.first>> /\ Audio!Anchors[5 + 1] = <<a.low + a.arc, a.second>>
    BY <1>5, AnchorsHold DEF AnchorsAre
  <2> QED  BY <1>5, <2>1
<1>6. CASE a = [first |-> "SL", second |-> "BL", low |-> 90, arc |-> 60]
  <2>1. Audio!Anchors[6] = <<a.low, a.first>> /\ Audio!Anchors[6 + 1] = <<a.low + a.arc, a.second>>
    BY <1>6, AnchorsHold DEF AnchorsAre
  <2> QED  BY <1>6, <2>1
<1>7. CASE a = [first |-> "BL", second |-> "BR", low |-> 150, arc |-> 60]
  BY <1>7
<1> QED  BY <1>1, <1>2, <1>3, <1>4, <1>5, <1>6, <1>7 DEF Arcs

LEMMA SmallTurn ==
  ASSUME NEW z \in -179..180, NEW low \in -150..150
  PROVE  (z - low) % 360 = IF z >= low THEN z - low ELSE (z - low) + 360
  OBVIOUS

LEMMA SameTurn ==
  ASSUME NEW x \in Int, NEW z \in Int, x % 360 = z % 360, NEW low \in Int
  PROVE  (x - low) % 360 = (z - low) % 360 /\ (x - low) % 360 \in 0..359
  OBVIOUS

\* DirectionBlend::from_azimuth: between the loudspeakers of its arc.
LEMMA BlendHolds ==
  ASSUME NEW azimuth \in Int, NEW a \in Arcs, InArc(a, azimuth)
  PROVE  Audio!Blend(azimuth) = [first |-> a.first, second |-> a.second, arc |-> a.arc,
                                 at |-> Turned(a.low, azimuth)]
<1> DEFINE z == Audio!Normalize(azimuth)
           low == a.low
           arc == a.arc
           t == Turned(low, azimuth)
           Within(i) == Audio!Anchors[i][1] <= z /\ z < Audio!Anchors[i + 1][1]
           chosen == CHOOSE i \in 1 .. Len(Audio!Anchors) - 1 : Within(i)
<1>1. z \in -179..180 /\ z % 360 = azimuth % 360
  BY DEF Audio!Normalize
<1>2. low \in -150..150 /\ t \in 0..359 /\ t < arc
      /\ t = IF z >= low THEN z - low ELSE (z - low) + 360
  <2>1. low \in -150..150
    BY DEF Arcs
  <2>2. t = (azimuth - low) % 360
    BY DEF Turned
  <2>3. t < arc
    BY DEF InArc
  <2> HIDE DEF z, t, low, arc
  <2>4. low \in Int /\ z \in Int
    BY <1>1, <2>1
  <2>5. (azimuth - low) % 360 = (z - low) % 360 /\ t \in 0..359
    BY <1>1, <2>2, <2>4, SameTurn
  <2> QED  BY <1>1, <2>1, <2>2, <2>3, <2>4, <2>5, SmallTurn
<1>3. Audio!Blend(azimuth) =
        IF z < -150 \/ z >= 150
        THEN [first |-> "BL", second |-> "BR", arc |-> 60,
              at |-> (IF z < -150 THEN z + 360 ELSE z) - 150]
        ELSE [first |-> Audio!Anchors[chosen][2], second |-> Audio!Anchors[chosen + 1][2],
              arc |-> Audio!Anchors[chosen + 1][1] - Audio!Anchors[chosen][1],
              at |-> z - Audio!Anchors[chosen][1]]
  BY DEF Audio!Blend
<1> HIDE DEF z, t, low, arc
<1>4. CASE a = [first |-> "BL", second |-> "BR", low |-> 150, arc |-> 60]
  <2>1. /\ z < -150 \/ z >= 150
        /\ t = (IF z < -150 THEN z + 360 ELSE z) - 150
    BY <1>1, <1>2, <1>4 DEF low, arc
  <2> QED  BY <1>3, <1>4, <2>1 DEF t, low
<1>5. ASSUME low \in -150..90, arc \in 30..60, low + arc <= 150,
             NEW k \in 1..6, Audio!Anchors[k] = <<low, a.first>>,
             Audio!Anchors[k + 1] = <<low + arc, a.second>>
      PROVE  Audio!Blend(azimuth) = [first |-> a.first, second |-> a.second, arc |-> arc, at |-> t]
  <2>1. low <= z /\ z < low + arc /\ t = z - low
    <3>1. /\ z \in Int /\ low \in Int /\ arc \in Int /\ t \in Int
          /\ -179 <= z /\ low <= 90 /\ arc <= 60 /\ t < arc
      BY <1>1, <1>2, <1>5
    <3>2. CASE z >= low
      BY <1>2, <3>1, <3>2
    <3>3. CASE z < low
      <4>1. t = (z - low) + 360
        BY <1>2, <3>1, <3>3
      <4> QED  BY <3>1, <4>1
    <3> QED  BY <3>1, <3>2, <3>3
  <2>2. ~(z < -150 \/ z >= 150)
    BY <1>1, <1>5, <2>1
  <2>3. Within(k)
    BY <1>5, <2>1
  <2>4. ASSUME NEW i \in 1..6, Within(i) PROVE i = k
    <3> DEFINE lowI == Audio!Anchors[i][1]
               highI == Audio!Anchors[i + 1][1]
               lowK == Audio!Anchors[k][1]
               highK == Audio!Anchors[k + 1][1]
    <3>1. lowI <= z /\ z < highI /\ lowK <= z /\ z < highK
      BY <2>3, <2>4
    <3>2. lowI \in Int /\ highI \in Int /\ lowK \in Int /\ highK \in Int
      <4>1. i \in 1..7 /\ i + 1 \in 1..7 /\ i < i + 1 /\ k \in 1..7 /\ k + 1 \in 1..7 /\ k < k + 1
        OBVIOUS
      <4> HIDE DEF lowI, highI, lowK, highK
      <4> QED  BY <4>1, AnchorsRise DEF lowI, highI, lowK, highK
    <3>3. CASE i < k
      <4>1. highI <= lowK
        <5>1. CASE i + 1 = k
          BY <3>2, <5>1
        <5>2. CASE i + 1 # k
          <6>1. i + 1 \in 1..7 /\ k \in 1..7 /\ i + 1 < k
            BY <3>3, <5>2
          <6> QED  BY <6>1, <3>2, AnchorsRise
        <5> QED  BY <5>1, <5>2
      <4> HIDE DEF lowI, highI, lowK, highK
      <4> QED  BY <1>1, <3>1, <3>2, <4>1
    <3>4. CASE k < i
      <4>1. highK <= lowI
        <5>1. CASE k + 1 = i
          BY <3>2, <5>1
        <5>2. CASE k + 1 # i
          <6>1. k + 1 \in 1..7 /\ i \in 1..7 /\ k + 1 < i
            BY <3>4, <5>2
          <6> QED  BY <6>1, <3>2, AnchorsRise
        <5> QED  BY <5>1, <5>2
      <4> HIDE DEF lowI, highI, lowK, highK
      <4> QED  BY <1>1, <3>1, <3>2, <4>1
    <3> QED  BY <3>3, <3>4
  <2>5. chosen = k
    <3>1. chosen = CHOOSE i \in 1..6 : Within(i)
      BY AnchorsHold DEF AnchorsAre
    <3> HIDE DEF chosen, Within
    <3> QED  BY <2>3, <2>4, <3>1
  <2> HIDE DEF chosen
  <2>6. /\ Audio!Anchors[chosen][1] = low /\ Audio!Anchors[chosen][2] = a.first
        /\ Audio!Anchors[chosen + 1][1] = low + arc /\ Audio!Anchors[chosen + 1][2] = a.second
    BY <1>5, <2>5
  <2>7. (low + arc) - low = arc
    BY <1>5
  <2> QED  BY <1>3, <2>1, <2>2, <2>6, <2>7
<1> QED  BY <1>4, <1>5, ArcAnchors DEF t, low, arc

LEMMA DirectionsAre ==
  /\ Audio!Range(Audio!AllDirections) = Directions
  /\ Audio!AllDirections[1] = "FL" /\ Audio!AllDirections[2] = "FR" /\ Audio!AllDirections[3] = "FC"
  /\ Audio!AllDirections[4] = "BL" /\ Audio!AllDirections[5] = "BR" /\ Audio!AllDirections[6] = "SL"
  /\ Audio!AllDirections[7] = "SR"
  /\ Audio!PreparedOrder = Audio!AllDirections
<1>1. DOMAIN Audio!AllDirections = 1..7
  BY DEF Audio!AllDirections
<1>2. /\ Audio!AllDirections[1] = "FL" /\ Audio!AllDirections[2] = "FR"
      /\ Audio!AllDirections[3] = "FC" /\ Audio!AllDirections[4] = "BL"
      /\ Audio!AllDirections[5] = "BR" /\ Audio!AllDirections[6] = "SL"
      /\ Audio!AllDirections[7] = "SR"
  BY DEF Audio!AllDirections
<1>3. \A d : d \in Audio!Range(Audio!AllDirections) <=> \E i \in 1..7 : Audio!AllDirections[i] = d
  BY <1>1 DEF Audio!Range
<1>4. \A d : (\E i \in 1..7 : Audio!AllDirections[i] = d) <=> d \in Directions
  BY <1>2 DEF Directions
<1>5. Audio!Range(Audio!AllDirections) = Directions
  BY <1>3, <1>4
<1> QED  BY <1>2, <1>5 DEF Audio!AllDirections, Audio!PreparedOrder

LEMMA IndexIs ==
  ASSUME NEW d \in Directions
  PROVE  /\ Audio!DirectionIndex(d) \in 1..7
         /\ Audio!AllDirections[Audio!DirectionIndex(d)] = d
<1> DEFINE P(i) == Audio!AllDirections[i] = d
<1>1. \E i \in 1..7 : P(i)
  BY DirectionsAre DEF Directions
<1>2. Audio!DirectionIndex(d) = CHOOSE i \in 1..7 : P(i)
  BY DEF Audio!DirectionIndex
<1> HIDE DEF P
<1>3. Audio!DirectionIndex(d) \in 1..7 /\ P(Audio!DirectionIndex(d))
  BY <1>1, <1>2
<1> QED  BY <1>3 DEF P

\* HrirKernels: the kernel of a direction is made of its loaded tracks.
LEMMA KernelIs ==
  ASSUME NEW file, NEW d \in Directions
  PROVE  Audio!Kernel(file, Audio!DirectionIndex(d)) = Audio!LoadedPair(file, d)
<1>1. /\ Audio!DirectionIndex(d) \in 1..7
      /\ Audio!AllDirections[Audio!DirectionIndex(d)] = d
  BY IndexIs
<1>2. Audio!Prepared(file)[Audio!DirectionIndex(d)]
        = Audio!LoadedPair(file, Audio!PreparedOrder[Audio!DirectionIndex(d)])
  BY <1>1 DEF Audio!Prepared
<1> QED  BY <1>1, <1>2, DirectionsAre DEF Audio!Kernel

\* How far one direction is from another.
Bearings ==
  [d \in Directions |->
     CASE d = "BR" -> -150 [] d = "SR" -> -90 [] d = "FR" -> -30 [] d = "FC" -> 0
       [] d = "FL" -> 30 [] d = "SL" -> 90 [] d = "BL" -> 150]

LEMMA BearingsAre == Audio!Bearing = Bearings
<1> DEFINE B(d) == (CHOOSE a \in Audio!Range(Audio!Anchors) : a[2] = d)[1]
<1>1. DOMAIN Audio!Anchors = 1..7
  BY DEF Audio!Anchors
<1>2. ASSUME NEW i \in 1..7 PROVE B(Audio!Anchors[i][2]) = Audio!Anchors[i][1]
  <2> DEFINE d == Audio!Anchors[i][2]
             P(a) == a[2] = d
             c == CHOOSE a \in Audio!Range(Audio!Anchors) : P(a)
  <2>1. Audio!Anchors[i] \in Audio!Range(Audio!Anchors) /\ P(Audio!Anchors[i])
    BY <1>1 DEF Audio!Range
  <2>2. c \in Audio!Range(Audio!Anchors) /\ P(c)
    <3> HIDE DEF P
    <3> QED  BY <2>1
  <2> HIDE DEF c
  <2>3. PICK j \in 1..7 : c = Audio!Anchors[j]
    BY <1>1, <2>2 DEF Audio!Range
  <2>4. Audio!Anchors[j][2] = Audio!Anchors[i][2]
    BY <2>2, <2>3
  <2>5. j = i
    BY <2>4, AnchorsHold DEF AnchorsAre
  <2> QED  BY <2>3, <2>5 DEF c
<1>3. /\ B("BR") = -150 /\ B("SR") = -90 /\ B("FR") = -30 /\ B("FC") = 0
      /\ B("FL") = 30 /\ B("SL") = 90 /\ B("BL") = 150
  <2> HIDE DEF B
  <2> QED  BY <1>2, AnchorsHold DEF AnchorsAre
<1>4. Audio!Bearing = [d \in Directions |-> B(d)]
  BY DirectionsAre DEF Audio!Bearing
<1> HIDE DEF B
<1> QED  BY <1>3, <1>4 DEF Bearings, Directions

\* What SteeringIsExact says of an azimuth.
Around == Audio!Range(Audio!AllDirections)
Near(azimuth) ==
  CHOOSE d \in Around : \A e \in Around :
    Turned(Audio!Bearing[d], azimuth) <= Turned(Audio!Bearing[e], azimuth)
Beyond(azimuth) ==
  CHOOSE d \in Around \ {Near(azimuth)} : \A e \in Around \ {Near(azimuth)} :
    Turned(azimuth, Audio!Bearing[d]) <= Turned(azimuth, Audio!Bearing[e])

\* The loudspeakers of its arc are the nearest to the right and to the left.
LEMMA NearestAre ==
  ASSUME NEW azimuth \in Int, NEW a \in Arcs, InArc(a, azimuth)
  PROVE  /\ a.first \in Directions /\ a.second \in Directions
         /\ Near(azimuth) = a.first /\ Beyond(azimuth) = a.second
         /\ Audio!Bearing[a.first] = a.low
         /\ Turned(Audio!Bearing[a.first], Audio!Bearing[a.second]) = a.arc
<1> DEFINE low == a.low
           t == Turned(low, azimuth)
           From(e) == IF Bearings[e] >= low THEN Bearings[e] - low ELSE (Bearings[e] - low) + 360
           Others == Directions \ {a.first}
           P(d) == \A e \in Around : Turned(Audio!Bearing[d], azimuth) <= Turned(Audio!Bearing[e], azimuth)
           Q(d) == \A e \in Around \ {Near(azimuth)} :
                     Turned(azimuth, Audio!Bearing[d]) <= Turned(azimuth, Audio!Bearing[e])
<1>0. Around = Directions /\ Audio!Bearing = Bearings
  BY DirectionsAre, BearingsAre DEF Around
<1>1. low \in -150..150 /\ a.arc \in {30, 60} /\ a.first \in Directions /\ a.second \in Others
  BY DEF Arcs, Directions
<1>2. \A e \in Directions : Bearings[e] \in -150..150
  BY DEF Directions, Bearings
<1>3. Bearings[a.first] = low /\ From(a.second) = a.arc
  BY DEF Arcs, Bearings, Directions
<1>4. \A e \in Others : From(e) \in Int /\ From(e) < 360 /\ (e # a.second => From(e) > a.arc)
  BY DEF Arcs, Bearings, Directions
<1>5. t \in 0..359 /\ t < a.arc
  <2>1. t < a.arc
    BY DEF InArc
  <2> HIDE DEF low
  <2> QED  BY <1>1, <2>1 DEF Turned
<1>6. ASSUME NEW e \in Directions
      PROVE  /\ Turned(Bearings[e], azimuth) = IF t >= From(e) THEN t - From(e) ELSE (t - From(e)) + 360
             /\ Turned(azimuth, Bearings[e]) = IF From(e) >= t THEN From(e) - t ELSE (From(e) - t) + 360
             /\ From(e) \in Int
  <2> DEFINE deg == Bearings[e]
             from == From(e)
  <2>1. deg \in -150..150
    BY <1>2
  <2>2. from = (IF deg >= low THEN deg - low ELSE (deg - low) + 360) /\ low \in -150..150
        /\ azimuth \in Int
    BY <1>1
  <2> HIDE DEF From, low, deg, from
  <2>3. /\ from \in Int
        /\ Turned(deg, azimuth) = IF t >= from THEN t - from ELSE (t - from) + 360
        /\ Turned(azimuth, deg) = IF from >= t THEN from - t ELSE (from - t) + 360
    BY ONLY <2>1, <2>2 DEF Turned
  <2> QED  BY <2>3 DEF deg, from
<1>7. From(a.first) = 0
  BY <1>1, <1>3
<1> HIDE DEF t, From, low
<1>8. /\ Turned(Bearings[a.first], azimuth) = t
      /\ \A e \in Others : Turned(Bearings[e], azimuth) \in Int /\ Turned(Bearings[e], azimuth) > t
  BY <1>1, <1>3, <1>4, <1>5, <1>6, <1>7
<1>9. /\ Turned(azimuth, Bearings[a.second]) = a.arc - t /\ a.arc - t \in Int
      /\ \A e \in Others \ {a.second} :
           Turned(azimuth, Bearings[e]) \in Int /\ Turned(azimuth, Bearings[e]) > a.arc - t
  BY <1>1, <1>3, <1>4, <1>5, <1>6
<1>10. Near(azimuth) = a.first
  <2>1. Near(azimuth) = CHOOSE d \in Around : P(d)
    BY DEF Near
  <2>2. a.first \in Around /\ P(a.first)
    BY <1>0, <1>1, <1>5, <1>8
  <2>3. ASSUME NEW d \in Around, P(d) PROVE d = a.first
    BY <1>0, <1>1, <1>5, <1>8, <2>3
  <2> HIDE DEF P
  <2> QED  BY <2>1, <2>2, <2>3
<1>11. Beyond(azimuth) = a.second
  <2>1. Beyond(azimuth) = CHOOSE d \in Around \ {Near(azimuth)} : Q(d)
    BY DEF Beyond
  <2>2. a.second \in Around \ {Near(azimuth)} /\ Q(a.second)
    BY <1>0, <1>1, <1>5, <1>9, <1>10
  <2>3. ASSUME NEW d \in Around \ {Near(azimuth)}, Q(d) PROVE d = a.second
    BY <1>0, <1>1, <1>5, <1>9, <1>10, <2>3
  <2> HIDE DEF Q
  <2> QED  BY <2>1, <2>2, <2>3
<1>12. Turned(Bearings[a.first], Bearings[a.second]) = a.arc
  BY DEF Arcs, Bearings, Directions, Turned
<1> QED  BY <1>0, <1>1, <1>3, <1>10, <1>11, <1>12 DEF low

\* The tracks between two loudspeakers, by the share of the second.
Between(file, first, second, share) ==
  {p \in {<<Audio!LoadedPair(file, first), 60 - share>>, <<Audio!LoadedPair(file, second), share>>} :
     p[2] # 0}

LEMMA SelectionIs ==
  ASSUME NEW file, NEW azimuth \in Int, NEW a \in Arcs, InArc(a, azimuth)
  PROVE  Audio!Selection(file, azimuth)
           = Between(file, a.first, a.second, (60 * Turned(a.low, azimuth)) \div a.arc)
<1> DEFINE blend == Audio!Blend(azimuth)
           share == (60 * blend.at) \div blend.arc
<1>1. /\ blend.first = a.first /\ blend.second = a.second
      /\ share = (60 * Turned(a.low, azimuth)) \div a.arc
  BY BlendHolds
<1>2. Audio!Kernel(file, Audio!DirectionIndex(blend.first)) = Audio!LoadedPair(file, a.first)
      /\ Audio!Kernel(file, Audio!DirectionIndex(blend.second)) = Audio!LoadedPair(file, a.second)
  BY <1>1, KernelIs, NearestAre
<1>3. Audio!Selection(file, azimuth)
        = {p \in {<<Audio!Kernel(file, Audio!DirectionIndex(blend.first)), 60 - share>>,
                  <<Audio!Kernel(file, Audio!DirectionIndex(blend.second)), share>>} : p[2] # 0}
  BY DEF Audio!Selection
<1> HIDE DEF blend, share
<1> QED  BY <1>1, <1>2, <1>3 DEF Between

\* The loudspeaker on the other side.
Mirror ==
  [d \in Directions |->
     CASE d = "FL" -> "FR" [] d = "FR" -> "FL" [] d = "FC" -> "FC" [] d = "BL" -> "BR"
       [] d = "BR" -> "BL" [] d = "SL" -> "SR" [] d = "SR" -> "SL"]

Exchanged(planes) == {<<<<p[1][2], p[1][1]>>, p[2]>> : p \in planes}

LEMMA ExchangeIs ==
  ASSUME NEW file, NEW first, NEW second, NEW share \in 0..60, NEW x
  PROVE  LET P(d) == Audio!LoadedPair(file, d)
             one == <<<<P(first)[2], P(first)[1]>>, 60 - share>>
             two == <<<<P(second)[2], P(second)[1]>>, share>>
         IN x \in Exchanged(Between(file, first, second, share))
            <=> (60 - share # 0 /\ x = one) \/ (share # 0 /\ x = two)
<1> DEFINE p == <<Audio!LoadedPair(file, first), 60 - share>>
           q == <<Audio!LoadedPair(file, second), share>>
           Turn(y) == <<<<y[1][2], y[1][1]>>, y[2]>>
<1>1. p[1] = Audio!LoadedPair(file, first) /\ p[2] = 60 - share
      /\ q[1] = Audio!LoadedPair(file, second) /\ q[2] = share
  OBVIOUS
<1>2. x \in Exchanged(Between(file, first, second, share))
        <=> \E y \in {p, q} : y[2] # 0 /\ x = Turn(y)
  BY DEF Exchanged, Between
<1> HIDE DEF p, q
<1> QED  BY <1>1, <1>2

\* Seven tracks hold one side: the other one is the same with the ears exchanged.
LEMMA MirrorLoads ==
  ASSUME NEW file, file.channels = 7, NEW d \in Directions
  PROVE  Audio!LoadedPair(file, Mirror[d])
           = <<Audio!LoadedPair(file, d)[2], Audio!LoadedPair(file, d)[1]>>
<1> DEFINE map(i) == Audio!Map7[i]
<1>1. /\ map(1) = <<0, 1>> /\ map(2) = <<1, 0>> /\ map(3) = <<6, 6>> /\ map(4) = <<4, 5>>
      /\ map(5) = <<5, 4>> /\ map(6) = <<2, 3>> /\ map(7) = <<3, 2>>
  BY DEF Audio!Map7
<1> HIDE DEF map
<1>2. \A e \in Directions : Audio!LoadedPair(file, e) = map(Audio!DirectionIndex(e))
  BY DEF Audio!LoadedPair, map
<1>3. /\ Audio!DirectionIndex("FL") = 1 /\ Audio!DirectionIndex("FR") = 2
      /\ Audio!DirectionIndex("FC") = 3 /\ Audio!DirectionIndex("BL") = 4
      /\ Audio!DirectionIndex("BR") = 5 /\ Audio!DirectionIndex("SL") = 6
      /\ Audio!DirectionIndex("SR") = 7
  <2>1. \A e \in Directions : /\ Audio!DirectionIndex(e) \in 1..7
                              /\ Audio!AllDirections[Audio!DirectionIndex(e)] = e
    BY IndexIs
  <2> QED  BY <2>1, DirectionsAre DEF Directions
<1>4. Mirror[d] \in Directions
  BY DEF Mirror, Directions
<1> QED  BY <1>1, <1>2, <1>3, <1>4 DEF Mirror, Directions

LEMMA MirrorArcs ==
  ASSUME NEW a \in Arcs
  PROVE  /\ \E b \in Arcs : /\ b.first = Mirror[a.second] /\ b.second = Mirror[a.first]
                            /\ b.arc = a.arc /\ (b.low + a.low + a.arc) % 360 = 0
         /\ \E c \in Arcs : c.first = Mirror[a.first] /\ (c.low + a.low) % 360 = 0
  BY DEF Arcs, Mirror, Directions

\* The mirrored place.
LEMMA MirrorHolds ==
  ASSUME NEW file, file.channels = 7, NEW azimuth \in Int, NEW a \in Arcs, InArc(a, azimuth)
  PROVE  Audio!Selection(file, -azimuth)
           = Exchanged(Between(file, a.first, a.second, (60 * Turned(a.low, azimuth)) \div a.arc))
<1> DEFINE t == Turned(a.low, azimuth)
           share == (60 * t) \div a.arc
           arc == a.arc
           low == a.low
           P(d) == Audio!LoadedPair(file, d)
<1>1. /\ low \in -150..150 /\ arc \in {30, 60} /\ a.first \in Directions /\ a.second \in Directions
  BY DEF Arcs, Directions
<1>2. t \in 0..359 /\ t < arc
  <2>1. t < arc
    BY DEF InArc
  <2>2. t = (azimuth - low) % 360
    BY DEF Turned
  <2> HIDE DEF low, t
  <2> QED  BY <1>1, <2>1, <2>2
<1>3. /\ P(Mirror[a.first]) = <<P(a.first)[2], P(a.first)[1]>>
      /\ P(Mirror[a.second]) = <<P(a.second)[2], P(a.second)[1]>>
  BY <1>1, MirrorLoads
<1>4. -azimuth \in Int
  OBVIOUS
<1>5. CASE t = 0
  <2>1. PICK c \in Arcs : c.first = Mirror[a.first] /\ (c.low + low) % 360 = 0
    BY MirrorArcs
  <2> DEFINE start == c.low
             width == c.arc
  <2>2. start \in Int /\ width \in {30, 60}
    BY DEF Arcs
  <2>3. Turned(start, -azimuth) = 0
    <3>1. (azimuth - low) % 360 = 0 /\ (start + low) % 360 = 0
      BY <1>5, <2>1 DEF Turned
    <3> HIDE DEF start, low
    <3>2. ((-azimuth) - start) % 360 = 0
      BY <1>1, <2>2, <3>1
    <3> QED  BY <3>2 DEF Turned
  <2>4. InArc(c, -azimuth)
    BY <2>2, <2>3 DEF InArc
  <2>5. share = 0 /\ (60 * Turned(start, -azimuth)) \div width = 0
    BY <1>1, <1>5, <2>2, <2>3
  <2>6. Audio!Selection(file, -azimuth) = Between(file, c.first, c.second, 0)
    BY <1>4, <2>4, <2>5, SelectionIs
  <2>7. Between(file, c.first, c.second, 0) = {<<P(Mirror[a.first]), 60>>}
    BY <2>1 DEF Between
  <2>9. ASSUME NEW x
        PROVE  x \in {<<P(Mirror[a.first]), 60>>}
               <=> x \in Exchanged(Between(file, a.first, a.second, share))
    <3>1. share \in 0..60 /\ 60 - share # 0 /\ share = 0 /\ 60 - share = 60
      BY <2>5
    <3> HIDE DEF share, P
    <3> QED  BY <1>3, <3>1, ExchangeIs DEF P
  <2> QED  BY <2>6, <2>7, <2>9
<1>6. CASE t # 0
  <2>1. PICK b \in Arcs : /\ b.first = Mirror[a.second] /\ b.second = Mirror[a.first]
                          /\ b.arc = arc /\ (b.low + low + arc) % 360 = 0
    BY MirrorArcs
  <2> DEFINE start == b.low
  <2>2. start \in Int
    BY DEF Arcs
  <2>3. Turned(start, -azimuth) = arc - t
    <3>1. (azimuth - low) % 360 = t /\ (start + low + arc) % 360 = 0
      BY <2>1 DEF Turned
    <3> HIDE DEF start, low, arc, t
    <3>2. ((-azimuth) - start) % 360 = arc - t
      BY <1>1, <1>2, <1>6, <2>2, <3>1
    <3> QED  BY <3>2 DEF Turned
  <2>4. InArc(b, -azimuth)
    <3> HIDE DEF t, arc
    <3> QED  BY <1>1, <1>2, <1>6, <2>1, <2>3 DEF InArc
  <2>5. share \in 0..60 /\ (60 * (arc - t)) \div arc = 60 - share
    <3> HIDE DEF t, arc
    <3> QED  BY <1>1, <1>2 DEF arc
  <2>6. Audio!Selection(file, -azimuth) = Between(file, b.first, b.second, 60 - share)
    BY <1>4, <2>1, <2>3, <2>4, <2>5, SelectionIs
  <2> HIDE DEF share
  <2>7. 60 - (60 - share) = share
    BY <2>5
  <2>8. Between(file, b.first, b.second, 60 - share)
          = {p \in {<<P(Mirror[a.second]), share>>, <<P(Mirror[a.first]), 60 - share>>} : p[2] # 0}
    BY <2>1, <2>7 DEF Between
  <2>9. ASSUME NEW x
        PROVE  x \in Between(file, b.first, b.second, 60 - share)
               <=> x \in Exchanged(Between(file, a.first, a.second, share))
    <3> DEFINE one == <<P(Mirror[a.first]), 60 - share>>
               two == <<P(Mirror[a.second]), share>>
    <3>1. x \in Between(file, b.first, b.second, 60 - share)
          <=> (60 - share # 0 /\ x = one) \/ (share # 0 /\ x = two)
      BY <2>8
    <3>2. x \in Exchanged(Between(file, a.first, a.second, share))
          <=> (60 - share # 0 /\ x = one) \/ (share # 0 /\ x = two)
      <4> HIDE DEF P
      <4> QED  BY <1>3, <2>5, ExchangeIs DEF P
    <3> QED  BY <3>1, <3>2
  <2> QED  BY <2>6, <2>9 DEF share
<1> QED  BY <1>5, <1>6 DEF share

\* Each side of the music is heard from its place.
LEMMA SteeringHolds ==
  ASSUME NEW file, NEW azimuth \in Int
  PROVE  LET arc == Turned(Audio!Bearing[Near(azimuth)], Audio!Bearing[Beyond(azimuth)])
             at == Turned(Audio!Bearing[Near(azimuth)], azimuth)
         IN /\ Audio!Selection(file, azimuth)
                 = Between(file, Near(azimuth), Beyond(azimuth), (60 * at) \div arc)
            /\ file.channels = 7 =>
                 Audio!Selection(file, -azimuth) = Exchanged(Audio!Selection(file, azimuth))
<1>1. PICK a \in Arcs : InArc(a, azimuth)
  BY ArcOf
<1>2. /\ Near(azimuth) = a.first /\ Beyond(azimuth) = a.second /\ Audio!Bearing[a.first] = a.low
      /\ Turned(Audio!Bearing[a.first], Audio!Bearing[a.second]) = a.arc
  BY <1>1, NearestAre
<1> QED  BY <1>1, <1>2, SelectionIs, MirrorHolds

LEMMA SteeringSays ==
  Audio!SteeringIsExact <=>
    \A i \in DOMAIN heard.wet : \A s \in Audio!Sources :
      LET w == heard.wet[i]
          azimuth == IF s = "left" THEN Audio!LeftDegrees(w.position)
                     ELSE Audio!RightDegrees(w.position)
          arc == Turned(Audio!Bearing[Near(azimuth)], Audio!Bearing[Beyond(azimuth)])
          at == Turned(Audio!Bearing[Near(azimuth)], azimuth)
      IN /\ w.planes[s] = Between(w.file, Near(azimuth), Beyond(azimuth), (60 * at) \div arc)
         /\ w.file.channels = 7 => Audio!Selection(w.file, -azimuth) = Exchanged(w.planes[s])
BY DEF Audio!SteeringIsExact, Near, Beyond, Around, Turned, Between, Exchanged

LEMMA ExactSays == AudioInv => Audio!RenderingIsExact
<1> SUFFICES ASSUME AudioInv PROVE Audio!RenderingIsExact
  OBVIOUS
<1>1. Audio!WetIsConvolution
  BY DEF AudioInv, RenderingIs, Exact, Audio!WetIsConvolution
<1>2. Audio!SteeringIsExact
  <2>1. ASSUME NEW i \in DOMAIN heard.wet, NEW s \in Audio!Sources
        PROVE  LET w == heard.wet[i]
                   azimuth == IF s = "left" THEN Audio!LeftDegrees(w.position)
                              ELSE Audio!RightDegrees(w.position)
                   arc == Turned(Audio!Bearing[Near(azimuth)], Audio!Bearing[Beyond(azimuth)])
                   at == Turned(Audio!Bearing[Near(azimuth)], azimuth)
               IN /\ w.planes[s] = Between(w.file, Near(azimuth), Beyond(azimuth), (60 * at) \div arc)
                  /\ w.file.channels = 7 =>
                       Audio!Selection(w.file, -azimuth) = Exchanged(w.planes[s])
    <3> DEFINE w == heard.wet[i]
               azimuth == IF s = "left" THEN Audio!LeftDegrees(w.position)
                          ELSE Audio!RightDegrees(w.position)
    <3>1. RenderingIs(w, heard.start)
      BY DEF AudioInv
    <3>2. azimuth \in Int
      <4>1. w.position.center \in Int /\ w.position.width \in Int
        BY <3>1 DEF RenderingIs, Positions
      <4>2. \A n \in Int : Audio!Normalize(n) \in Int
        BY DEF Audio!Normalize
      <4>3. w.position.width \div 2 \in Int
        BY <4>1
      <4> QED  BY <4>1, <4>2, <4>3 DEF Audio!LeftDegrees, Audio!RightDegrees
    <3>3. w.planes[s] = Audio!Selection(w.file, azimuth)
      BY <3>1 DEF RenderingIs, Audio!Sources
    <3> HIDE DEF azimuth, w
    <3>4. LET arc == Turned(Audio!Bearing[Near(azimuth)], Audio!Bearing[Beyond(azimuth)])
              at == Turned(Audio!Bearing[Near(azimuth)], azimuth)
          IN /\ w.planes[s] = Between(w.file, Near(azimuth), Beyond(azimuth), (60 * at) \div arc)
             /\ w.file.channels = 7 =>
                  Audio!Selection(w.file, -azimuth) = Exchanged(w.planes[s])
      BY <3>2, <3>3, SteeringHolds
    <3> QED  BY <3>4 DEF azimuth, w
  <2> QED  BY <2>1, SteeringSays
<1> QED  BY <1>1, <1>2 DEF Audio!RenderingIsExact

\* Whatever the music is cut into, whatever presets are faded over and wherever the
\* music is moved: what is heard is the convolution of the preset with the music,
\* from where it should be heard (AudioProcessor, PartitionedStereoEngine).
THEOREM AudioStaysExact == MCSpec => []AudioIsExact
<1>1. MCInit => AudioInv
  BY InitAudio DEF MCInit
<1>2. AudioInv /\ [MCNext]_allVars => AudioInv'
  <2> SUFFICES ASSUME AudioInv, [MCNext]_allVars PROVE AudioInv'
    OBVIOUS
  <2>1. [Audio!Next]_audioVars
    BY DEF MCNext, allVars
  <2> QED  BY <2>1, StepAudio
<1>3. AudioInv => AudioIsExact
  BY ExactSays DEF AudioIsExact
<1> QED  BY <1>1, <1>2, <1>3, PTL DEF MCSpec

-----------------------------------------------------------------------------
(* Ramps: arithmetic.                                                      *)

Grain == CHOOSE grain \in [0 .. MaxControls -> 1 .. Unit] : Whole(grain)

LEMMA GrainIs ==
  Grain \in [0 .. MaxControls -> 1 .. Unit] /\ Whole(Grain)
BY RampAssumption DEF Grain

Shortest == CHOOSE n \in Transitions : n > 1 /\ \A m \in Transitions : m > 1 => n <= m
Largest == Unit \div (Shortest - 1)

\* A set of numbers has a least one.
LEMMA Least ==
  ASSUME NEW S \in SUBSET Nat, S # {}
  PROVE  \E n \in S : \A m \in S : n <= m
<1> DEFINE T == {k \in Nat : \A m \in S : k <= m}
<1>1. 0 \in T
  OBVIOUS
<1>2. CASE \A k \in T : k + 1 \in T
  <2>1. T = Nat
    <3>1. T \in SUBSET Nat
      OBVIOUS
    <3> HIDE DEF T
    <3> QED  BY <1>1, <1>2, <3>1, AllNumbers
  <2>2. PICK m \in S : TRUE
    OBVIOUS
  <2>3. m + 1 \in T
    <3>1. m + 1 \in Nat
      OBVIOUS
    <3> QED  BY <2>1, <3>1
  <2> QED  BY <2>3
<1>3. CASE ~(\A k \in T : k + 1 \in T)
  <2>1. PICK k \in T : k + 1 \notin T
    BY <1>3
  <2>2. k \in Nat /\ \A m \in S : k <= m
    OBVIOUS
  <2>3. PICK m \in S : ~(k + 1 <= m)
    BY <2>1
  <2>4. m = k
    BY <2>2, <2>3
  <2> QED  BY <2>2, <2>4
<1> QED  BY <1>2, <1>3

LEMMA ShortestIs ==
  Shortest \in Transitions /\ Shortest \in Nat /\ Shortest > 1
  /\ \A m \in Transitions : m > 1 => Shortest <= m
<1> DEFINE S == {n \in Transitions : n > 1}
           P(n) == n > 1 /\ \A m \in Transitions : m > 1 => n <= m
<1>1. S \in SUBSET Nat /\ S # {}
  BY RampAssumption
<1>2. \E n \in S : \A m \in S : n <= m
  <2> HIDE DEF S
  <2> QED  BY <1>1, Least
<1>3. \E n \in Transitions : P(n)
  BY <1>2
<1>4. Shortest = CHOOSE n \in Transitions : P(n)
  BY DEF Shortest
<1> HIDE DEF P
<1>5. Shortest \in Transitions /\ P(Shortest)
  BY <1>3, <1>4
<1> QED  BY <1>5, RampAssumption DEF P

Multiple(v, g) == \E k \in Int : v = k * g

LEMMA Divides ==
  ASSUME NEW v \in Int, NEW g \in Nat \ {0}, v % g = 0
  PROVE  Multiple(v, g)
<1>1. v = (v \div g) * g /\ v \div g \in Int
  OBVIOUS
<1> QED  BY <1>1 DEF Multiple

\* Multiples add up, and are passed on.
LEMMA MultiplesAdd ==
  ASSUME NEW g \in Nat, NEW v, NEW w, Multiple(v, g), Multiple(w, g)
  PROVE  Multiple(v + w, g) /\ Multiple(v - w, g) /\ v \in Int /\ w \in Int
<1>1. PICK a \in Int : v = a * g
  BY DEF Multiple
<1>2. PICK b \in Int : w = b * g
  BY DEF Multiple
<1>3. v + w = (a + b) * g /\ v - w = (a - b) * g /\ a + b \in Int /\ a - b \in Int
  BY <1>1, <1>2
<1>4. v \in Int /\ w \in Int
  BY <1>1, <1>2
<1> QED  BY <1>3, <1>4 DEF Multiple

LEMMA MultiplesPass ==
  ASSUME NEW g \in Nat, NEW h \in Nat, NEW v, Multiple(v, g), Multiple(g, h)
  PROVE  Multiple(v, h)
<1>1. PICK a \in Int : v = a * g
  BY DEF Multiple
<1>2. PICK b \in Int : g = b * h
  BY DEF Multiple
<1>3. v = (a * b) * h /\ a * b \in Int
  BY <1>1, <1>2
<1> QED  BY <1>3 DEF Multiple

\* A difference that a ramp divides by its steps.
LEMMA ExactStep ==
  ASSUME NEW g \in Nat \ {0}, NEW h \in Nat \ {0}, NEW n \in Nat \ {0}, NEW d,
         Multiple(d, g), Multiple(g, n * h)
  PROVE  Multiple(d \div n, h) /\ d \div n \in Int /\ d = (d \div n) * n
<1>1. PICK a \in Int : d = a * g
  BY DEF Multiple
<1>2. PICK b \in Int : g = b * (n * h)
  BY DEF Multiple
<1> DEFINE q == (a * b) * h
<1>3. q \in Int /\ d = q * n
  <2>1. a * b \in Int /\ q \in Int
    BY <1>1, <1>2
  <2>2. d = a * (b * (n * h))
    BY <1>1, <1>2
  <2>3. a * (b * (n * h)) = ((a * b) * h) * n
    OBVIOUS
  <2> QED  BY <2>1, <2>2, <2>3
<1>4. Multiple(q, h)
  <2>1. a * b \in Int
    BY <1>1, <1>2
  <2> QED  BY <2>1 DEF Multiple
<1> HIDE DEF q
<1>5. (q * n) \div n = q
  BY <1>3
<1> QED  BY <1>3, <1>4, <1>5

\* A step of a ramp that is no shorter than the shortest is no larger than the largest.
LEMMA StepBounded ==
  ASSUME NEW n \in Transitions, n > 1, NEW q \in Int, NEW d \in Int, d = q * (n - 1),
         -Unit <= d, d <= Unit
  PROVE  -Largest <= q /\ q <= Largest /\ Largest \in Nat
<1> DEFINE s == Shortest - 1
           m == n - 1
<1>1. s \in Nat \ {0} /\ m \in Nat \ {0} /\ s <= m /\ Unit \in Nat
  BY ShortestIs, RampAssumption
<1>2. Largest = Unit \div s
  BY DEF Largest
<1> HIDE DEF s, m
<1>3. Largest \in Nat /\ (Largest + 1) * s > Unit
  BY <1>1, <1>2
<1>4. d = q * m
  BY DEF m
<1>5. ASSUME NEW p \in Nat, p * m <= Unit PROVE p <= Largest
  <2> SUFFICES ASSUME p >= Largest + 1 PROVE FALSE
    BY <1>3
  <2>1. p * m >= p * s
    BY <1>1
  <2>2. p * s >= (Largest + 1) * s
    BY <1>1, <1>3
  <2>3. p * m \in Int /\ p * s \in Int /\ (Largest + 1) * s \in Int
    BY <1>1, <1>3
  <2> QED  BY <1>1, <1>3, <1>5, <2>1, <2>2, <2>3
<1>6. CASE q >= 0
  <2>1. q \in Nat /\ q * m <= Unit
    BY <1>4, <1>6
  <2> QED  BY <1>3, <1>5, <2>1, <1>6
<1>7. CASE q < 0
  <2>1. -q \in Nat /\ (-q) * m <= Unit
    <3>1. (-q) * m = -(q * m)
      BY <1>1
    <3> QED  BY <1>1, <1>4, <1>7, <3>1
  <2>2. -q <= Largest
    BY <1>5, <2>1
  <2> QED  BY <1>3, <1>7, <2>2
<1> QED  BY <1>6, <1>7

-----------------------------------------------------------------------------
(* Ramps.                                                                  *)

Ramps == [value : 0..Unit, target : 0..Unit, step : Int, remaining : Nat]

\* A ramp whose levels are multiples of g, and that arrives where it goes.
RampIs(r, g) ==
  /\ r \in Ramps /\ Multiple(r.value, g) /\ Multiple(r.target, g)
  /\ r.remaining = 0 => r.value = r.target
  /\ r.remaining > 0 => /\ r.target = r.value + r.step * (r.remaining - 1)
                        /\ Multiple(r.step, g)
                        /\ -Largest <= r.step /\ r.step <= Largest

Close(a, b) == a - b <= Largest /\ b - a <= Largest

LEMMA LargestIs == Largest \in Nat /\ Unit \in Nat
BY ShortestIs, RampAssumption DEF Largest

LEMMA SettledIs ==
  ASSUME NEW v \in 0..Unit, NEW g, Multiple(v, g)
  PROVE  RampIs(Audio!Settled(v), g)
BY DEF RampIs, Ramps, Audio!Settled

\* UnitRamp::set_target
LEMMA TargetIs ==
  ASSUME NEW g \in Nat \ {0}, NEW h \in Nat \ {0}, NEW ramp, RampIs(ramp, g),
         NEW target \in 0..Unit, Multiple(target, g), NEW frames \in Transitions,
         Multiple(g, h), frames > 1 => Multiple(g, (frames - 1) * h)
  PROVE  RampIs(Audio!SetTarget(ramp, target, frames), h)
<1> DEFINE q == (target - ramp.value) \div (frames - 1)
<1>1. frames \in Nat /\ ramp.value \in 0..Unit /\ Unit \in Nat /\ Multiple(ramp.value, g)
  BY RampAssumption DEF RampIs, Ramps
<1>2. Multiple(ramp.value, h) /\ Multiple(target, h)
  BY <1>1, MultiplesPass
<1>3. CASE frames <= 1
  BY <1>2, <1>3, SettledIs DEF Audio!SetTarget
<1>4. CASE ~(frames <= 1)
  <2> DEFINE d == target - ramp.value
             m == frames - 1
  <2>1. m \in Nat \ {0} /\ frames > 1 /\ Multiple(g, m * h)
    BY <1>1, <1>4
  <2>2. d \in Int /\ -Unit <= d /\ d <= Unit
    BY <1>1
  <2>3. Multiple(d, g)
    BY <1>1, MultiplesAdd
  <2>4. Multiple(d \div m, h) /\ d \div m \in Int /\ d = (d \div m) * m
    <3> HIDE DEF d, m
    <3> QED  BY <2>1, <2>3, ExactStep
  <2>5. Multiple(q, h) /\ q \in Int /\ d = q * m
    BY <2>4
  <2> HIDE DEF q, d
  <2>6. -Largest <= q /\ q <= Largest
    BY <2>1, <2>2, <2>5, StepBounded
  <2>7. target = ramp.value + q * (frames - 1)
    BY <1>1, <2>5 DEF d
  <2> DEFINE r == [value |-> ramp.value, target |-> target, remaining |-> frames, step |-> q]
  <2>8. Audio!SetTarget(ramp, target, frames) = r
    BY <1>4 DEF Audio!SetTarget, q
  <2>9. r \in Ramps
    BY <1>1, <2>5 DEF Ramps
  <2>10. /\ r.value = ramp.value /\ r.target = target /\ r.remaining = frames /\ r.step = q
    OBVIOUS
  <2> HIDE DEF r
  <2>11. RampIs(r, h)
    BY <1>1, <1>2, <2>1, <2>5, <2>6, <2>7, <2>9, <2>10 DEF RampIs
  <2> QED  BY <2>8, <2>11
<1> QED  BY <1>3, <1>4

\* UnitRamp::next: no step is larger than the largest.
LEMMA NextIs ==
  ASSUME NEW g \in Nat \ {0}, NEW ramp, RampIs(ramp, g)
  PROVE  LET next == Audio!NextValue(ramp)
         IN RampIs(next, g) /\ next.target = ramp.target /\ Close(ramp.value, next.value)
<1> DEFINE next == Audio!NextValue(ramp)
           v == ramp.value
           t == ramp.target
           s == ramp.step
           n == ramp.remaining
<1>1. /\ v \in 0..Unit /\ t \in 0..Unit /\ s \in Int /\ n \in Nat /\ ramp \in Ramps
      /\ Unit \in Nat /\ Largest \in Nat
  BY LargestIs DEF RampIs, Ramps
<1>2. CASE n = 0
  <2>1. next = ramp
    BY <1>2 DEF Audio!NextValue
  <2> HIDE DEF next
  <2> QED  BY <1>1, <2>1 DEF Close, next
<1>3. CASE n = 1
  <2>1. next = Audio!Settled(t)
    BY <1>3 DEF Audio!NextValue
  <2>2. t = v + s * (n - 1)
    BY <1>1, <1>3 DEF RampIs
  <2>3. t = v
    BY <1>1, <1>3, <2>2
  <2>4. RampIs(next, g)
    BY <1>1, <2>1, SettledIs DEF RampIs
  <2>5. next.target = t /\ next.value = t
    BY <2>1 DEF Audio!Settled
  <2> HIDE DEF next, v, t
  <2> QED  BY <1>1, <2>3, <2>4, <2>5 DEF Close, next, v, t
<1>4. CASE n > 1
  <2>1. next = [ramp EXCEPT !.value = @ + ramp.step, !.remaining = @ - 1]
    BY <1>1, <1>4 DEF Audio!NextValue
  <2>2. /\ t = v + s * (n - 1) /\ Multiple(s, g) /\ -Largest <= s /\ s <= Largest
        /\ Multiple(v, g) /\ Multiple(t, g)
    BY <1>1, <1>4 DEF RampIs
  <2>3. next.value = v + s /\ next.target = t /\ next.step = s /\ next.remaining = n - 1
    BY <1>1, <2>1 DEF Ramps
  <2>4. next = [value |-> v + s, target |-> t, step |-> s, remaining |-> n - 1]
    BY <1>1, <2>1 DEF Ramps
  <2> HIDE DEF next, v, t, s, n
  <2>5. v + s \in 0..Unit /\ t = (v + s) + s * ((n - 1) - 1)
    <3>1. s * (n - 1) = s + s * ((n - 1) - 1)
      BY <1>1
    <3>2. CASE s >= 0
      <4>1. s * ((n - 1) - 1) >= 0
        BY <1>1, <1>4, <3>2
      <4> QED  BY <1>1, <2>2, <3>1, <3>2, <4>1
    <3>3. CASE s < 0
      <4>1. s * ((n - 1) - 1) <= 0
        BY <1>1, <1>4, <3>3
      <4> QED  BY <1>1, <2>2, <3>1, <3>3, <4>1
    <3> QED  BY <1>1, <3>2, <3>3
  <2>6. Multiple(v + s, g)
    BY <2>2, MultiplesAdd
  <2>7. next \in Ramps
    BY <1>1, <1>4, <2>4, <2>5 DEF Ramps
  <2>8. RampIs(next, g)
    BY <1>1, <1>4, <2>2, <2>3, <2>5, <2>6, <2>7 DEF RampIs
  <2>9. Close(v, v + s)
    BY <1>1, <2>2 DEF Close
  <2> QED  BY <2>3, <2>8, <2>9 DEF next, v, t
<1> QED  BY <1>1, <1>2, <1>3, <1>4

LEMMA FinerIs ==
  ASSUME NEW g \in Nat, NEW h \in Nat, Multiple(g, h), NEW ramp, RampIs(ramp, g)
  PROVE  RampIs(ramp, h)
BY MultiplesPass DEF RampIs

RunStep(ramp, frames, f) == [i \in 0..frames |-> IF i = 0 THEN ramp ELSE Audio!NextValue(f[i - 1])]

LEMMA RunChosen ==
  \A ramp, frames : Audio!Run(ramp, frames) = CHOOSE f : f = RunStep(ramp, frames, f)
BY DEF Audio!Run, RunStep

\* The recursive function of Run exists.
LEMMA RunUnfolds ==
  ASSUME NEW ramp, NEW frames \in Nat
  PROVE  Audio!Run(ramp, frames) = RunStep(ramp, frames, Audio!Run(ramp, frames))
<1> DEFINE Solves(n, f) == f = RunStep(ramp, n, f)
           T == {n \in Nat : \E f : Solves(n, f)}
<1>1. 0 \in T
  <2> DEFINE f == [i \in 0..0 |-> ramp]
  <2>1. Solves(0, f)
    BY DEF RunStep
  <2> QED  BY <2>1
<1>2. ASSUME NEW n \in T PROVE n + 1 \in T
  <2>1. n \in Nat
    OBVIOUS
  <2>2. PICK f : Solves(n, f)
    BY <1>2
  <2> DEFINE more == Audio!NextValue(f[n])
             g == [i \in 0..(n + 1) |-> IF i <= n THEN f[i] ELSE more]
  <2>3. f[0] = ramp /\ \A i \in 1..n : f[i] = Audio!NextValue(f[i - 1])
    <3>1. \A i \in 0..n : f[i] = RunStep(ramp, n, f)[i]
      BY <2>2
    <3> QED  BY <2>1, <3>1 DEF RunStep
  <2>4. ASSUME NEW i \in 0..(n + 1)
        PROVE  g[i] = IF i = 0 THEN ramp ELSE Audio!NextValue(g[i - 1])
    <3>1. CASE i = 0
      BY <2>1, <2>3, <3>1
    <3>2. CASE i \in 1..n
      <4>1. i # 0 /\ i <= n /\ i - 1 <= n /\ i - 1 \in 0..(n + 1)
        BY <2>1, <3>2
      <4>2. g[i] = f[i] /\ g[i - 1] = f[i - 1]
        BY <4>1
      <4> QED  BY <2>3, <3>2, <4>1, <4>2
    <3>3. CASE i = n + 1
      <4>1. i # 0 /\ ~(i <= n) /\ i - 1 = n /\ n \in 0..(n + 1) /\ n <= n
        BY <2>1, <3>3
      <4>2. g[i] = more /\ g[i - 1] = f[n]
        BY <4>1
      <4> QED  BY <3>3, <4>1, <4>2
    <3> QED  BY <2>1, <3>1, <3>2, <3>3
  <2>5. Solves(n + 1, g)
    <3>1. DOMAIN g = 0..(n + 1) /\ g = [i \in 0..(n + 1) |-> g[i]]
      OBVIOUS
    <3> HIDE DEF g
    <3> QED  BY <2>4, <3>1, Zenon DEF RunStep
  <2>6. n + 1 \in Nat
    BY <2>1
  <2> HIDE DEF g, Solves
  <2> QED  BY <2>5, <2>6
<1>3. T = Nat
  <2>1. T \in SUBSET Nat
    OBVIOUS
  <2> HIDE DEF T
  <2> QED  BY <1>1, <1>2, <2>1, AllNumbers
<1>4. \E f : Solves(frames, f)
  BY <1>3
<1>5. Solves(frames, CHOOSE f : Solves(frames, f))
  <2> HIDE DEF Solves
  <2> QED  BY <1>4
<1> QED  BY <1>5, RunChosen

\* A ramp over a block: no two values that follow each other are far apart.
LEMMA RunIs ==
  ASSUME NEW g \in Nat \ {0}, NEW ramp, RampIs(ramp, g), NEW frames \in Nat, NEW i \in 0..frames
  PROVE  LET run == Audio!Run(ramp, frames)
         IN /\ run[0] = ramp /\ RampIs(run[i], g) /\ run[i].target = ramp.target
            /\ i > 0 => Close(run[i - 1].value, run[i].value)
<1> DEFINE run == Audio!Run(ramp, frames)
           Good(n) == RampIs(run[n], g) /\ run[n].target = ramp.target
           T == {n \in Nat : n <= frames => Good(n)}
<1>1. run = RunStep(ramp, frames, run)
  BY RunUnfolds
<1> HIDE DEF run
<1>2. run[0] = ramp /\ \A n \in 1..frames : run[n] = Audio!NextValue(run[n - 1])
  <2>1. \A n \in 0..frames : run[n] = RunStep(ramp, frames, run)[n]
    BY <1>1
  <2> QED  BY <2>1 DEF RunStep
<1>3. 0 \in T
  BY <1>2
<1>4. ASSUME NEW n \in T PROVE n + 1 \in T
  <2>1. n \in Nat /\ n + 1 \in Nat
    OBVIOUS
  <2>2. ASSUME n + 1 <= frames PROVE Good(n + 1)
    <3>1. n + 1 \in 1..frames /\ n <= frames /\ (n + 1) - 1 = n
      BY <2>1, <2>2
    <3>2. Good(n) /\ run[n + 1] = Audio!NextValue(run[n])
      BY <1>2, <3>1
    <3> QED  BY <3>2, NextIs
  <2> QED  BY <2>1, <2>2
<1>5. T = Nat
  <2>1. T \in SUBSET Nat
    OBVIOUS
  <2> HIDE DEF T
  <2> QED  BY <1>3, <1>4, <2>1, AllNumbers
<1>6. \A n \in 0..frames : Good(n)
  BY <1>5
<1>7. ASSUME i > 0 PROVE Close(run[i - 1].value, run[i].value)
  <2>1. i - 1 \in 0..frames /\ i \in 1..frames
    BY <1>7
  <2>2. RampIs(run[i - 1], g) /\ run[i] = Audio!NextValue(run[i - 1])
    BY <1>2, <1>6, <2>1
  <2> QED  BY <2>2, NextIs
<1> QED  BY <1>2, <1>6, <1>7 DEF run

-----------------------------------------------------------------------------
(* Levels.                                                                 *)

Levels == [share : UNION {[S -> Int] : S \in SUBSET Nat}, wet : Int, gain : Int]

Share(level, serial) == IF serial \in DOMAIN level.share THEN level.share[serial] ELSE 0

\* One level after another, without a click.
Follows(a, b) ==
  /\ Close(a.wet, b.wet) /\ Close(a.gain, b.gain)
  /\ \A serial \in DOMAIN a.share \cup DOMAIN b.share : Close(Share(a, serial), Share(b, serial))

\* The level of one renderer, or of two of which the second is faded in.
Mix(one, two, fading, x) ==
  IF fading THEN [n \in {one, two} |-> IF n = two THEN x ELSE Unit - x]
  ELSE [n \in {one} |-> Unit]
LevelOf(one, two, fading, x, w, g) == [share |-> Mix(one, two, fading, x), wet |-> w, gain |-> g]

\* The last level of a block, or the one before it.
LastOf(b, levels) == IF levels = <<>> THEN b ELSE levels[Len(levels)]

\* A block after level b, and level `now' after the block.
Chained(b, levels, now, top) ==
  /\ levels \in Seq(Levels) /\ (b = Audio!Nothing \/ b \in Levels)
  /\ \A i \in 1..(Len(levels) - 1) : Follows(levels[i], levels[i + 1])
  /\ b # Audio!Nothing /\ levels # <<>> => Follows(b, levels[1])
  /\ LastOf(b, levels) # Audio!Nothing =>
       Follows(LastOf(b, levels), now) /\ DOMAIN LastOf(b, levels).share \subseteq 0..top

LEMMA LevelIsNot ==
  ASSUME NEW l \in Levels
  PROVE  l # Audio!Nothing
<1>1. "wet" \in DOMAIN l
  BY DEF Levels
<1> QED  BY <1>1 DEF Audio!Nothing

\* What there is to know of a level.
MixHolds(one, two, fading, x, w, g) ==
  LET l == LevelOf(one, two, fading, x, w, g)
      top == IF fading THEN two ELSE one
  IN /\ l \in Levels /\ l.wet = w /\ l.gain = g /\ DOMAIN l.share \subseteq 0..top
     /\ DOMAIN l.share = IF fading THEN {one, two} ELSE {one}
     /\ \A n : Share(l, n) = IF fading THEN (IF n = two THEN x ELSE IF n = one THEN Unit - x ELSE 0)
                             ELSE (IF n = one THEN Unit ELSE 0)

LEMMA MixIs ==
  ASSUME NEW one \in Nat, NEW two, NEW fading \in BOOLEAN, fading => two = one + 1,
         NEW x \in 0..Unit, NEW w \in 0..Unit, NEW g \in 0..Unit
  PROVE  MixHolds(one, two, fading, x, w, g)
<1> DEFINE l == LevelOf(one, two, fading, x, w, g)
           mix == Mix(one, two, fading, x)
           S == IF fading THEN {one, two} ELSE {one}
<1>1. l.wet = w /\ l.gain = g /\ l.share = mix
  BY DEF LevelOf
<1>2. Unit \in Nat
  BY LargestIs
<1>3. DOMAIN mix = S /\ \A n \in S : mix[n] = IF fading THEN (IF n = two THEN x ELSE Unit - x) ELSE Unit
  BY DEF Mix
<1>4. S \in SUBSET Nat /\ S \subseteq 0..(IF fading THEN two ELSE one)
  OBVIOUS
<1>5. mix = [n \in S |-> mix[n]]
  BY DEF Mix
<1>6. mix \in [S -> Int]
  <2>1. \A n \in S : mix[n] \in Int
    BY <1>2, <1>3
  <2> HIDE DEF mix, S
  <2> QED  BY <1>5, <2>1
<1>7. l \in Levels
  <2>1. mix \in UNION {[R -> Int] : R \in SUBSET Nat}
    <3> HIDE DEF mix, S
    <3> QED  BY <1>4, <1>6
  <2>2. w \in Int /\ g \in Int
    BY <1>2
  <2>3. l = [share |-> mix, wet |-> w, gain |-> g]
    BY DEF LevelOf
  <2> HIDE DEF l, mix
  <2> QED  BY <2>1, <2>2, <2>3 DEF Levels
<1>8. ASSUME NEW n
      PROVE  Share(l, n) = IF fading THEN (IF n = two THEN x ELSE IF n = one THEN Unit - x ELSE 0)
                           ELSE (IF n = one THEN Unit ELSE 0)
  <2>1. Share(l, n) = IF n \in S THEN mix[n] ELSE 0
    BY <1>1, <1>3 DEF Share
  <2> HIDE DEF mix
  <2> QED  BY <1>3, <2>1
<1> HIDE DEF l, mix
<1> QED  BY <1>1, <1>3, <1>4, <1>7, <1>8 DEF l, MixHolds

\* Levels of the same renderers.
LEMMA MixFollows ==
  ASSUME NEW one \in Nat, NEW two, NEW fading \in BOOLEAN, fading => two = one + 1,
         NEW x \in 0..Unit, NEW w \in 0..Unit, NEW g \in 0..Unit,
         NEW y \in 0..Unit, NEW v \in 0..Unit, NEW h \in 0..Unit,
         Close(x, y), Close(w, v), Close(g, h)
  PROVE  Follows(LevelOf(one, two, fading, x, w, g), LevelOf(one, two, fading, y, v, h))
<1> DEFINE a == LevelOf(one, two, fading, x, w, g)
           b == LevelOf(one, two, fading, y, v, h)
<1>1. /\ a.wet = w /\ a.gain = g /\ b.wet = v /\ b.gain = h
      /\ \A n : Share(a, n) = IF fading THEN (IF n = two THEN x ELSE IF n = one THEN Unit - x ELSE 0)
                              ELSE (IF n = one THEN Unit ELSE 0)
      /\ \A n : Share(b, n) = IF fading THEN (IF n = two THEN y ELSE IF n = one THEN Unit - y ELSE 0)
                              ELSE (IF n = one THEN Unit ELSE 0)
  <2>1. MixHolds(one, two, fading, x, w, g) /\ MixHolds(one, two, fading, y, v, h)
    BY MixIs
  <2> QED  BY <2>1 DEF MixHolds
<1> HIDE DEF a, b
<1>2. ASSUME NEW n PROVE Close(Share(a, n), Share(b, n))
  <2>1. Close(x, y) /\ Close(Unit - x, Unit - y) /\ Close(0, 0) /\ Close(Unit, Unit)
    BY LargestIs DEF Close
  <2> QED  BY <1>1, <2>1
<1> QED  BY <1>1, <1>2 DEF Follows, a, b

\* The fade is over: the second renderer is the only one.
LEMMA SwapFollows ==
  ASSUME NEW one \in Nat, NEW two, two = one + 1, NEW third,
         NEW x \in 0..Unit, NEW w \in 0..Unit, NEW g \in 0..Unit,
         NEW y \in 0..Unit, NEW v \in 0..Unit, NEW h \in 0..Unit,
         Close(x, Unit), Close(w, v), Close(g, h)
  PROVE  Follows(LevelOf(one, two, TRUE, x, w, g), LevelOf(two, third, FALSE, y, v, h))
<1> DEFINE a == LevelOf(one, two, TRUE, x, w, g)
           b == LevelOf(two, third, FALSE, y, v, h)
<1>1. /\ a.wet = w /\ a.gain = g
      /\ \A n : Share(a, n) = IF n = two THEN x ELSE IF n = one THEN Unit - x ELSE 0
  <2>1. MixHolds(one, two, TRUE, x, w, g)
    BY MixIs
  <2> QED  BY <2>1 DEF MixHolds
<1>2. two \in Nat /\ one # two
  OBVIOUS
<1>3. /\ b.wet = v /\ b.gain = h
      /\ \A n : Share(b, n) = IF n = two THEN Unit ELSE 0
  <2>1. MixHolds(two, third, FALSE, y, v, h)
    BY <1>2, MixIs
  <2> QED  BY <2>1 DEF MixHolds
<1> HIDE DEF a, b
<1>4. ASSUME NEW n PROVE Close(Share(a, n), Share(b, n))
  <2>1. Close(x, Unit) /\ Close(Unit - x, 0) /\ Close(0, 0)
    BY LargestIs DEF Close
  <2> QED  BY <1>1, <1>2, <1>3, <2>1
<1> QED  BY <1>1, <1>3, <1>4 DEF Follows, a, b

\* A fade begins: the new renderer was not heard before.
LEMMA FadeFollows ==
  ASSUME NEW one \in Nat, NEW two, two = one + 1, NEW third, NEW z \in 0..Unit,
         NEW w \in 0..Unit, NEW g \in 0..Unit, NEW last,
         DOMAIN last.share \subseteq 0..one,
         Follows(last, LevelOf(one, third, FALSE, z, w, g))
  PROVE  Follows(last, LevelOf(one, two, TRUE, 0, w, g))
<1> DEFINE a == LevelOf(one, third, FALSE, z, w, g)
           b == LevelOf(one, two, TRUE, 0, w, g)
<1>0. 0 \in 0..Unit
  BY LargestIs
<1>1. /\ a.wet = w /\ a.gain = g /\ DOMAIN a.share = {one}
      /\ \A n : Share(a, n) = IF n = one THEN Unit ELSE 0
  <2>1. MixHolds(one, third, FALSE, z, w, g)
    BY MixIs
  <2> QED  BY <2>1 DEF MixHolds
<1>2. /\ b.wet = w /\ b.gain = g /\ DOMAIN b.share = {one, two}
      /\ \A n : Share(b, n) = IF n = two THEN 0 ELSE IF n = one THEN Unit - 0 ELSE 0
  <2>1. MixHolds(one, two, TRUE, 0, w, g)
    BY <1>0, MixIs
  <2> QED  BY <2>1 DEF MixHolds
<1> HIDE DEF a, b
<1>3. Unit - 0 = Unit /\ two \notin 0..one /\ one # two
  BY LargestIs
<1>4. \A n : Share(b, n) = Share(a, n)
  BY <1>1, <1>2, <1>3
<1>5. ASSUME NEW n \in DOMAIN last.share \cup DOMAIN b.share PROVE Close(Share(last, n), Share(b, n))
  <2>1. CASE n \in DOMAIN last.share \cup DOMAIN a.share
    <3>1. Close(Share(last, n), Share(a, n))
      BY <2>1 DEF Follows, a
    <3> QED  BY <1>4, <3>1
  <2>2. CASE n \notin DOMAIN last.share \cup DOMAIN a.share
    <3>1. Share(last, n) = 0 /\ Share(a, n) = 0
      BY <1>1, <2>2 DEF Share
    <3>2. Close(0, 0)
      BY LargestIs DEF Close
    <3> QED  BY <1>4, <3>1, <3>2
  <2> QED  BY <2>1, <2>2
<1>6. Close(last.wet, w) /\ Close(last.gain, g)
  BY <1>1 DEF Follows, a
<1> QED  BY <1>2, <1>5, <1>6 DEF Follows, b

\* A block whose levels follow each other.
Block(one, two, fading, frames, X, W, G, levels, b, now, top) ==
  /\ one \in Nat /\ fading \in BOOLEAN /\ (fading => two = one + 1) /\ frames \in Nat \ {0}
  /\ X \in [0..frames -> 0..Unit] /\ W \in [0..frames -> 0..Unit] /\ G \in [0..frames -> 0..Unit]
  /\ \A i \in 1..frames : Close(X[i - 1], X[i]) /\ Close(W[i - 1], W[i]) /\ Close(G[i - 1], G[i])
  /\ levels = [i \in 1..frames |-> LevelOf(one, two, fading, X[i - 1], W[i - 1], G[i - 1])]
  /\ b = Audio!Nothing \/ b \in Levels
  /\ b # Audio!Nothing => Follows(b, LevelOf(one, two, fading, X[0], W[0], G[0]))
  /\ Follows(LevelOf(one, two, fading, X[frames - 1], W[frames - 1], G[frames - 1]), now)
  /\ top = IF fading THEN two ELSE one

LEMMA BlockChained ==
  ASSUME NEW one, NEW two, NEW fading, NEW frames, NEW X, NEW W, NEW G, NEW levels, NEW b,
         NEW now, NEW top, Block(one, two, fading, frames, X, W, G, levels, b, now, top)
  PROVE  Chained(b, levels, now, top)
<1>0. /\ one \in Nat /\ fading \in BOOLEAN /\ (fading => two = one + 1) /\ frames \in Nat \ {0}
      /\ X \in [0..frames -> 0..Unit] /\ W \in [0..frames -> 0..Unit] /\ G \in [0..frames -> 0..Unit]
      /\ \A i \in 1..frames : Close(X[i - 1], X[i]) /\ Close(W[i - 1], W[i]) /\ Close(G[i - 1], G[i])
      /\ levels = [i \in 1..frames |-> LevelOf(one, two, fading, X[i - 1], W[i - 1], G[i - 1])]
      /\ b = Audio!Nothing \/ b \in Levels
      /\ b # Audio!Nothing => Follows(b, LevelOf(one, two, fading, X[0], W[0], G[0]))
      /\ Follows(LevelOf(one, two, fading, X[frames - 1], W[frames - 1], G[frames - 1]), now)
      /\ top = IF fading THEN two ELSE one
  BY DEF Block
<1> DEFINE L(i) == LevelOf(one, two, fading, X[i], W[i], G[i])
<1>1. ASSUME NEW i \in 0..frames PROVE L(i) \in Levels /\ DOMAIN L(i).share \subseteq 0..top
  <2>1. X[i] \in 0..Unit /\ W[i] \in 0..Unit /\ G[i] \in 0..Unit
    BY <1>0
  <2> DEFINE x == X[i]
             w == W[i]
             g == G[i]
  <2> HIDE DEF x, w, g
  <2>2. MixHolds(one, two, fading, x, w, g)
    BY <1>0, <2>1, MixIs DEF x, w, g
  <2> QED  BY <1>0, <2>2 DEF MixHolds, x, w, g
<1>2. ASSUME NEW i \in 1..frames PROVE Follows(L(i - 1), L(i))
  <2>1. i - 1 \in 0..frames /\ i \in 0..frames
    BY <1>0
  <2>2. /\ X[i] \in 0..Unit /\ W[i] \in 0..Unit /\ G[i] \in 0..Unit
        /\ X[i - 1] \in 0..Unit /\ W[i - 1] \in 0..Unit /\ G[i - 1] \in 0..Unit
    BY <1>0, <2>1
  <2> QED  BY <1>0, <2>2, MixFollows
<1>3. \A i \in 1..frames : levels[i] = L(i - 1) /\ i - 1 \in 0..frames
  BY <1>0
<1>4. DOMAIN levels = 1..frames /\ levels = [i \in 1..frames |-> levels[i]]
  BY <1>0
<1>5. Follows(L(frames - 1), now) /\ (b # Audio!Nothing => Follows(b, L(0)))
  BY <1>0
<1> HIDE DEF L
<1>6. levels \in Seq(Levels) /\ Len(levels) = frames /\ levels # <<>>
  <2>1. levels \in [1..frames -> Levels]
    BY <1>1, <1>3, <1>4
  <2>2. frames \in Nat \ {0}
    BY <1>0
  <2> DEFINE S == Levels
  <2> HIDE DEF S
  <2>3. levels \in [1..frames -> S]
    BY <2>1 DEF S
  <2>4. levels \in Seq(S) /\ Len(levels) = frames
    BY <2>2, <2>3
  <2>5. levels # <<>>
    BY <2>2, <2>4
  <2> QED  BY <2>4, <2>5 DEF S
<1>7. levels # <<>>
  BY <1>6
<1>8. ASSUME NEW i \in 1..(Len(levels) - 1) PROVE Follows(levels[i], levels[i + 1])
  <2>1. i \in 1..frames /\ i + 1 \in 1..frames /\ (i + 1) - 1 = i
    BY <1>6
  <2> QED  BY <1>2, <1>3, <2>1
<1>9. 1 \in 1..frames /\ frames \in 1..frames /\ 1 - 1 = 0
  BY <1>0
<1>10. levels[1] = L(0) /\ levels[Len(levels)] = L(frames - 1) /\ frames - 1 \in 0..frames
  BY <1>3, <1>6, <1>9
<1> QED  BY <1>0, <1>1, <1>5, <1>6, <1>7, <1>8, <1>10 DEF Chained, LastOf

-----------------------------------------------------------------------------
(* The processor: its levels follow each other.                            *)

LevelNow ==
  LevelOf(active.serial, pending.serial, pending # Audio!Nothing,
          IF fade = Audio!Nothing THEN 0 ELSE fade.value, wet.value, gain.value)
Top == IF pending # Audio!Nothing THEN pending.serial ELSE active.serial

LevelInv ==
  /\ clock \in 0..MaxClock /\ controls \in 0..MaxControls /\ active.serial \in Nat
  /\ pending = Audio!Nothing <=> fade = Audio!Nothing
  /\ pending # Audio!Nothing =>
       /\ pending.serial = active.serial + 1
       /\ RampIs(fade, Grain[controls]) /\ fade.target = Unit
  /\ RampIs(wet, Grain[controls]) /\ RampIs(gain, Grain[controls])
  /\ Chained(before, heard.levels, LevelNow, Top)

LEMMA MultipleOfProduct ==
  ASSUME NEW m \in Nat, NEW h \in Nat, NEW v, Multiple(v, m * h)
  PROVE  Multiple(v, h)
<1>1. PICK a \in Int : v = a * (m * h)
  BY DEF Multiple
<1>2. v = (a * m) * h /\ a * m \in Int
  BY <1>1
<1> QED  BY <1>2 DEF Multiple

LEMMA GrainFacts ==
  ASSUME NEW c \in 0..MaxControls
  PROVE  /\ Grain[c] \in Nat \ {0} /\ Multiple(0, Grain[c]) /\ Multiple(Unit, Grain[c])
         /\ Unit \in Nat \ {0} /\ Gains \subseteq 0..Unit
         /\ \A value \in Gains : Multiple(value, Grain[c])
         /\ \A frames \in Transitions : frames > 1 =>
              /\ Multiple(Unit, (frames - 1) * Grain[c])
              /\ c > 0 => Multiple(Grain[c - 1], (frames - 1) * Grain[c])
         /\ c > 0 => Multiple(Grain[c - 1], Grain[c]) /\ Grain[c - 1] \in Nat \ {0}
<1> DEFINE h == Grain[c]
<1>1. MaxControls \in Nat /\ Unit \in Nat /\ Gains \subseteq 0..Unit
  BY RampAssumption
<1>2. h \in 1..Unit /\ (c > 0 => c - 1 \in 0..MaxControls /\ Grain[c - 1] \in 1..Unit)
  BY <1>1, GrainIs
<1>3. Multiple(0, h)
  <2>1. 0 = 0 * h
    BY <1>2
  <2> QED  BY <2>1 DEF Multiple
<1>4. ASSUME NEW value \in Gains PROVE Multiple(value, h)
  <2>1. value % h = 0 /\ value \in Int /\ h \in Nat \ {0}
    BY <1>1, <1>2, GrainIs DEF Whole
  <2> HIDE DEF h
  <2> QED  BY <2>1, Divides
<1>5. ASSUME NEW frames \in Transitions, frames > 1
      PROVE  /\ Multiple(Unit, (frames - 1) * h) /\ frames - 1 \in Nat
             /\ c > 0 => Multiple(Grain[c - 1], (frames - 1) * h)
  <2>1. frames - 1 \in Nat \ {0} /\ h \in Nat \ {0}
    BY <1>1, <1>2, <1>5, RampAssumption
  <2>2. /\ Unit % ((frames - 1) * h) = 0
        /\ c > 0 => Grain[c - 1] % ((frames - 1) * h) = 0
    BY <1>5, GrainIs DEF Whole
  <2> DEFINE p == (frames - 1) * h
  <2>3. p \in Nat \ {0}
    <3> DEFINE m == frames - 1
    <3>1. m \in Nat \ {0}
      BY <2>1
    <3> HIDE DEF h, m
    <3>2. m * h \in Nat \ {0}
      BY <2>1, <3>1
    <3> QED  BY <3>2 DEF m
  <2> HIDE DEF p, h
  <2>4. Multiple(Unit, p)
    BY <1>1, <2>2, <2>3, Divides DEF p
  <2>5. c > 0 => Multiple(Grain[c - 1], p)
    BY <1>2, <2>2, <2>3, Divides DEF p
  <2> QED  BY <2>1, <2>4, <2>5 DEF p
<1>6. Multiple(Unit, h) /\ (c > 0 => Multiple(Grain[c - 1], h))
  <2>1. Shortest \in Transitions /\ Shortest > 1
    BY ShortestIs
  <2>2. h \in Nat
    BY <1>2
  <2> HIDE DEF h
  <2> QED  BY <1>5, <2>1, <2>2, MultipleOfProduct
<1>7. h \in Nat \ {0} /\ Unit \in Nat \ {0} /\ (c > 0 => Grain[c - 1] \in Nat \ {0})
  BY <1>1, <1>2
<1> QED  BY <1>1, <1>3, <1>4, <1>5, <1>6, <1>7

\* A ramp is changed by a control.
LEMMA ChangedIs ==
  ASSUME NEW c \in 0..MaxControls, c < MaxControls, NEW ramp, RampIs(ramp, Grain[c]),
         NEW target \in Gains \cup {0, Unit}, NEW frames \in Transitions
  PROVE  /\ RampIs(Audio!SetTarget(ramp, target, frames), Grain[c + 1])
         /\ frames > 1 => Audio!SetTarget(ramp, target, frames).value = ramp.value
<1> DEFINE g == Grain[c]
           h == Grain[c + 1]
<1>1. c + 1 \in 0..MaxControls /\ c + 1 > 0 /\ (c + 1) - 1 = c
  BY RampAssumption
<1>2. /\ g \in Nat \ {0} /\ h \in Nat \ {0} /\ Multiple(g, h)
      /\ frames > 1 => Multiple(g, (frames - 1) * h)
  BY <1>1, GrainFacts
<1>3. target \in 0..Unit /\ Multiple(target, g)
  <2>1. 0 \in 0..Unit /\ Unit \in 0..Unit
    BY LargestIs
  <2> QED  BY <2>1, GrainFacts
<1> HIDE DEF g, h
<1>4. RampIs(ramp, g)
  BY DEF g
<1>5. RampIs(Audio!SetTarget(ramp, target, frames), h)
  BY <1>2, <1>3, <1>4, TargetIs
<1>6. frames > 1 => Audio!SetTarget(ramp, target, frames).value = ramp.value
  <2>1. frames \in Nat
    BY RampAssumption
  <2>2. frames > 1 => ~(frames <= 1)
    BY <2>1
  <2> QED  BY <2>2 DEF Audio!SetTarget
<1> QED  BY <1>5, <1>6 DEF h

\* It is left as it is, or settled.
LEMMA KeptIs ==
  ASSUME NEW c \in 0..MaxControls, c < MaxControls, NEW ramp, RampIs(ramp, Grain[c])
  PROVE  RampIs(ramp, Grain[c + 1]) /\ RampIs(Audio!Settle(ramp), Grain[c + 1])
<1> DEFINE g == Grain[c]
           h == Grain[c + 1]
<1>1. c + 1 \in 0..MaxControls /\ c + 1 > 0 /\ (c + 1) - 1 = c
  BY RampAssumption
<1>2. g \in Nat /\ h \in Nat /\ Multiple(g, h)
  BY <1>1, GrainFacts
<1> HIDE DEF g, h
<1>3. RampIs(ramp, g)
  BY DEF g
<1>4. RampIs(ramp, h)
  BY <1>2, <1>3, FinerIs
<1>5. RampIs(Audio!Settle(ramp), h)
  BY <1>4, SettledIs DEF Audio!Settle, RampIs, Ramps
<1> QED  BY <1>4, <1>5 DEF h

\* From silence to the full level.
LEMMA FadeIs ==
  ASSUME NEW c \in 0..MaxControls, NEW frames \in Transitions
  PROVE  /\ RampIs(Audio!NewFade(frames), Grain[c])
         /\ frames > 1 => Audio!NewFade(frames).value = 0 /\ Audio!NewFade(frames).target = Unit
<1> DEFINE h == Grain[c]
           ramp == Audio!Settled(0)
<1>1. /\ h \in Nat \ {0} /\ Unit \in Nat \ {0} /\ Multiple(Unit, h)
      /\ frames > 1 => Multiple(Unit, (frames - 1) * h)
  BY GrainFacts
<1> HIDE DEF h
<1>2. Multiple(0, Unit) /\ Multiple(Unit, Unit) /\ 0 \in 0..Unit /\ Unit \in 0..Unit
  <2>1. 0 = 0 * Unit /\ Unit = 1 * Unit
    BY <1>1
  <2> QED  BY <1>1, <2>1 DEF Multiple
<1>3. RampIs(ramp, Unit)
  BY <1>2, SettledIs
<1>4. ramp.value = 0
  BY DEF Audio!Settled
<1> HIDE DEF ramp
<1>5. RampIs(Audio!SetTarget(ramp, Unit, frames), h)
  BY <1>1, <1>2, <1>3, TargetIs
<1>6. frames > 1 => /\ Audio!SetTarget(ramp, Unit, frames).value = 0
                    /\ Audio!SetTarget(ramp, Unit, frames).target = Unit
  <2>1. frames \in Nat
    BY RampAssumption
  <2>2. frames > 1 => ~(frames <= 1)
    BY <2>1
  <2> QED  BY <1>4, <2>2 DEF Audio!SetTarget
<1>7. Audio!NewFade(frames) = Audio!SetTarget(ramp, Unit, frames)
  BY DEF Audio!NewFade, ramp
<1> QED  BY <1>5, <1>6, <1>7 DEF h

\* The values of a ramp over a block, and the one after it.
RunValues(ramp, frames) == [i \in 0..frames |-> Audio!Run(ramp, frames)[i].value]

RunHolds(ramp, frames, g) ==
  LET V == RunValues(ramp, frames)
      after == Audio!After(ramp, frames)
  IN /\ V \in [0..frames -> 0..Unit] /\ V[0] = ramp.value
     /\ \A i \in 1..frames : Close(V[i - 1], V[i])
     /\ RampIs(after, g) /\ after.value = V[frames] /\ after.target = ramp.target
     /\ Audio!Values(ramp, frames) = [i \in 1..frames |-> V[i - 1]]
     /\ Len(Audio!Values(ramp, frames)) = frames

LEMMA RunHeld ==
  ASSUME NEW g \in Nat \ {0}, NEW ramp, RampIs(ramp, g), NEW frames \in Nat \ {0}
  PROVE  RunHolds(ramp, frames, g)
<1> DEFINE run == Audio!Run(ramp, frames)
           V == RunValues(ramp, frames)
<1>1. \A i \in 0..frames : /\ run[0] = ramp /\ RampIs(run[i], g) /\ run[i].target = ramp.target
                           /\ i > 0 => Close(run[i - 1].value, run[i].value)
  BY RunIs
<1>2. Audio!After(ramp, frames) = run[frames]
      /\ Audio!Values(ramp, frames) = [i \in 1..frames |-> run[i - 1].value]
      /\ V = [i \in 0..frames |-> run[i].value]
  BY DEF Audio!After, Audio!Values, RunValues
<1> HIDE DEF run, V
<1>3. V \in [0..frames -> 0..Unit]
  <2>1. \A i \in 0..frames : run[i].value \in 0..Unit
    BY <1>1 DEF RampIs, Ramps
  <2> QED  BY <1>2, <2>1
<1>4. 0 \in 0..frames /\ frames \in 0..frames
      /\ \A i \in 1..frames : i \in 0..frames /\ i - 1 \in 0..frames /\ i > 0
  OBVIOUS
<1>5. \A i \in 1..frames : Close(V[i - 1], V[i])
  BY <1>1, <1>2, <1>4
<1>6. V[0] = ramp.value /\ V[frames] = run[frames].value
  BY <1>1, <1>2, <1>4
<1>7. Audio!Values(ramp, frames) = [i \in 1..frames |-> V[i - 1]]
  BY <1>2, <1>4
<1>8. Len(Audio!Values(ramp, frames)) = frames
  <2>1. Audio!Values(ramp, frames) \in [1..frames -> 0..Unit]
    BY <1>3, <1>4, <1>7
  <2> DEFINE S == 0..Unit
  <2> HIDE DEF S
  <2>2. Audio!Values(ramp, frames) \in [1..frames -> S]
    BY <2>1 DEF S
  <2> QED  BY <2>2
<1> QED  BY <1>1, <1>2, <1>3, <1>4, <1>5, <1>6, <1>7, <1>8 DEF RunHolds, V

LEMMA RampIsNot ==
  ASSUME NEW r, NEW g, RampIs(r, g)
  PROVE  r # Audio!Nothing
<1>1. "value" \in DOMAIN r
  BY DEF RampIs, Ramps
<1> QED  BY <1>1 DEF Audio!Nothing

LEMMA Fresh == \A now, top : Chained(Audio!Nothing, <<>>, now, top)
BY DEF Chained, LastOf

LEMMA InitLevels == Audio!Init => LevelInv
<1> SUFFICES ASSUME Audio!Init PROVE LevelInv
  OBVIOUS
<1>1. clock \in 0..MaxClock /\ controls \in 0..MaxControls /\ controls = 0
  BY RampAssumption DEF Audio!Init
<1>2. active.serial \in Nat
  <2>1. PICK file \in Waves : active = Audio!Renderer(file, place, 0)
    BY DEF Audio!Init
  <2> QED  BY <2>1 DEF Audio!Renderer
<1>3. RampIs(gain, Grain[controls])
  <2>1. PICK frames \in Transitions : gain = Audio!NewFade(frames)
    BY DEF Audio!Init, Audio!NewFade
  <2> QED  BY <1>1, <2>1, FadeIs
<1>4. RampIs(wet, Grain[controls])
  <2>1. PICK value \in {0, Unit} : wet = Audio!Settled(value)
    BY DEF Audio!Init
  <2>2. Multiple(value, Grain[controls]) /\ value \in 0..Unit
    BY <1>1, GrainFacts, LargestIs
  <2> QED  BY <2>1, <2>2, SettledIs
<1>5. before = Audio!Nothing /\ heard.levels = <<>> /\ pending = Audio!Nothing /\ fade = Audio!Nothing
  BY DEF Audio!Init
<1> QED  BY <1>1, <1>2, <1>3, <1>4, <1>5, Fresh DEF LevelInv

\* The level before the next frame.
LEMMA LastIs ==
  ASSUME LevelInv
  PROVE  LET b == Audio!LastLevel
         IN /\ b = Audio!Nothing \/ b \in Levels
            /\ b # Audio!Nothing => Follows(b, LevelNow) /\ DOMAIN b.share \subseteq 0..Top
<1> DEFINE b == Audio!LastLevel
           levels == heard.levels
<1>1. Chained(before, levels, LevelNow, Top)
  BY DEF LevelInv
<1>2. b = LastOf(before, levels)
  BY DEF Audio!LastLevel, LastOf
<1> HIDE DEF b, levels
<1>3. levels \in Seq(Levels) /\ (before = Audio!Nothing \/ before \in Levels)
  BY <1>1 DEF Chained
<1>4. b = Audio!Nothing \/ b \in Levels
  <2>1. levels # <<>> => levels[Len(levels)] \in Levels
    <3> DEFINE S == Levels
    <3>1. levels \in Seq(S)
      BY <1>3
    <3> HIDE DEF S
    <3>2. levels # <<>> => levels[Len(levels)] \in S
      BY <3>1
    <3> QED  BY <3>2 DEF S
  <2> QED  BY <1>2, <1>3, <2>1 DEF LastOf
<1>5. b # Audio!Nothing => Follows(b, LevelNow) /\ DOMAIN b.share \subseteq 0..Top
  BY <1>1, <1>2 DEF Chained
<1> QED  BY <1>4, <1>5 DEF b

LEMMA LevelsAre ==
  ASSUME NEW fades, NEW wets, NEW gains
  PROVE  Audio!Levels(fades, wets, gains)
           = [i \in 1..Len(gains) |->
                LevelOf(active.serial, pending.serial, pending # Audio!Nothing,
                        fades[i], wets[i], gains[i])]
<1>1. CASE pending = Audio!Nothing
  BY <1>1 DEF Audio!Levels, LevelOf, Mix
<1>2. CASE pending # Audio!Nothing
  BY <1>2 DEF Audio!Levels, LevelOf, Mix
<1> QED  BY <1>1, <1>2

LEMMA Silence ==
  ASSUME NEW frames \in Nat
  PROVE  LET X == [i \in 0..frames |-> 0]
         IN X \in [0..frames -> 0..Unit] /\ \A i \in 1..frames : Close(X[i - 1], X[i])
BY LargestIs DEF Close

\* What every block does to the ramp of the gain and to the clock.
LEMMA BlockFacts ==
  ASSUME LevelInv, AudioInv, NEW frames \in Blocks, Audio!ProcessBlock(frames)
  PROVE  /\ frames \in Nat \ {0} /\ clock' \in 0..MaxClock /\ controls' = controls
         /\ Grain[controls] \in Nat \ {0} /\ before' = Audio!LastLevel
         /\ RunHolds(gain, frames, Grain[controls]) /\ gain' = Audio!After(gain, frames)
         /\ RunHolds(wet, frames, Grain[controls])
         /\ pending # Audio!Nothing => RunHolds(fade, frames, Grain[controls])
<1>1. frames \in Nat \ {0}
  BY AudioAssumption
<1>2. clock' \in 0..MaxClock /\ controls' = controls /\ before' = Audio!LastLevel
      /\ gain' = Audio!After(gain, frames)
  BY <1>1, RampAssumption DEF Audio!ProcessBlock, LevelInv
<1>3. Grain[controls] \in Nat \ {0}
  BY GrainFacts DEF LevelInv
<1> QED  BY <1>1, <1>2, <1>3, RunHeld DEF LevelInv

LEMMA DryLevels ==
  ASSUME LevelInv, AudioInv, NEW frames \in Blocks,
         Audio!ProcessBlock(frames), Audio!ProcessDry(frames)
  PROVE  LevelInv'
<1> DEFINE one == active.serial
           two == pending.serial
           X == [i \in 0..frames |-> 0]
           G == RunValues(gain, frames)
           zeros == [i \in 1..frames |-> 0]
           gains == Audio!Values(gain, frames)
           levels == heard'.levels
           now == LevelOf(one, two, FALSE, 0, 0, G[frames])
           g == Grain[controls]
<1>1. /\ pending = Audio!Nothing /\ fade = Audio!Nothing /\ wet.value = 0 /\ wet.remaining = 0
      /\ pending' = pending /\ fade' = fade /\ wet' = wet
      /\ active' = Audio!Warmed(Audio!Steered(active), frames)
      /\ levels = Audio!Levels(<<>>, zeros, gains)
  BY DEF Audio!ProcessDry, Audio!FullyDry, LevelInv
<1>2. /\ frames \in Nat \ {0} /\ clock' \in 0..MaxClock /\ controls' = controls /\ g \in Nat \ {0}
      /\ before' = Audio!LastLevel /\ RunHolds(gain, frames, g) /\ gain' = Audio!After(gain, frames)
  BY BlockFacts
<1>3. /\ one \in Nat /\ controls \in 0..MaxControls /\ RampIs(wet, g)
  BY DEF LevelInv
<1>4. active'.serial = one
  BY <1>1, WarmedHolds DEF AudioInv, Audio!Warmed
<1> HIDE DEF g
<1>5. /\ G \in [0..frames -> 0..Unit] /\ G[0] = gain.value
      /\ \A i \in 1..frames : Close(G[i - 1], G[i])
      /\ RampIs(gain', g) /\ gain'.value = G[frames]
      /\ gains = [i \in 1..frames |-> G[i - 1]] /\ Len(gains) = frames
  BY <1>2 DEF RunHolds
<1>6. X \in [0..frames -> 0..Unit] /\ \A i \in 1..frames : Close(X[i - 1], X[i])
  BY <1>2, Silence
<1>7. LevelNow = LevelOf(one, two, FALSE, X[0], X[0], G[0])
  <2>1. (pending # Audio!Nothing) = FALSE /\ X[0] = 0
    BY <1>1, <1>2
  <2> QED  BY <1>1, <1>5, <2>1 DEF LevelNow
<1>8. LevelNow' = now
  <2>1. (pending' # Audio!Nothing) = FALSE /\ fade' = Audio!Nothing /\ pending'.serial = two
        /\ wet'.value = 0
    BY <1>1
  <2> HIDE DEF G, one, two
  <2> QED  BY <1>4, <1>5, <2>1 DEF LevelNow
<1>9. levels = [i \in 1..frames |-> LevelOf(one, two, FALSE, X[i - 1], X[i - 1], G[i - 1])]
  <2>1. (pending # Audio!Nothing) = FALSE
    BY <1>1
  <2>2. levels = [i \in 1..frames |-> LevelOf(one, two, FALSE, <<>>[i], zeros[i], gains[i])]
    BY <1>1, <1>5, <2>1, LevelsAre
  <2>3. ASSUME NEW i \in 1..frames
        PROVE  LevelOf(one, two, FALSE, <<>>[i], zeros[i], gains[i])
                 = LevelOf(one, two, FALSE, X[i - 1], X[i - 1], G[i - 1])
    <3>1. zeros[i] = X[i - 1] /\ gains[i] = G[i - 1]
      BY <1>2, <1>5
    <3> HIDE DEF zeros, X, gains, G
    <3> QED  BY <3>1 DEF LevelOf, Mix
  <2> QED  BY <2>2, <2>3
<1> HIDE DEF one, two, X, G, gains, levels, zeros
<1>10. Chained(Audio!LastLevel, levels, now, one)
  <2> DEFINE b == Audio!LastLevel
             last == LevelOf(one, two, FALSE, X[frames - 1], X[frames - 1], G[frames - 1])
  <2>1. (b = Audio!Nothing \/ b \in Levels) /\ (b # Audio!Nothing => Follows(b, LevelNow))
    BY LastIs
  <2>2. Follows(last, now)
    <3>1. frames \in 1..frames /\ frames - 1 \in 0..frames /\ frames \in 0..frames
      BY <1>2
    <3>2. X[frames] = 0
      BY <3>1 DEF X
    <3>3. Close(X[frames - 1], 0) /\ Close(G[frames - 1], G[frames])
      BY <1>5, <1>6, <3>1, <3>2
    <3>4. X[frames - 1] \in 0..Unit /\ G[frames - 1] \in 0..Unit /\ G[frames] \in 0..Unit
          /\ 0 \in 0..Unit
      BY <1>5, <1>6, <3>1, LargestIs
    <3> QED  BY <1>3, <3>3, <3>4, MixFollows
  <2>3. b # Audio!Nothing => Follows(b, LevelOf(one, two, FALSE, X[0], X[0], G[0]))
    BY <1>7, <2>1
  <2>4. \A i \in 1..frames :
          Close(X[i - 1], X[i]) /\ Close(X[i - 1], X[i]) /\ Close(G[i - 1], G[i])
    BY <1>5, <1>6
  <2> DEFINE fading == FALSE
  <2>5. fading \in BOOLEAN /\ (fading => two = one + 1) /\ one = IF fading THEN two ELSE one
    OBVIOUS
  <2>6. /\ levels = [i \in 1..frames |-> LevelOf(one, two, fading, X[i - 1], X[i - 1], G[i - 1])]
        /\ b # Audio!Nothing => Follows(b, LevelOf(one, two, fading, X[0], X[0], G[0]))
        /\ Follows(LevelOf(one, two, fading, X[frames - 1], X[frames - 1], G[frames - 1]), now)
    BY <1>9, <2>2, <2>3
  <2>7. b = Audio!Nothing \/ b \in Levels
    BY <2>1
  <2>8. one \in Nat /\ frames \in Nat \ {0}
    BY <1>2, <1>3
  <2>9. X \in [0..frames -> 0..Unit] /\ G \in [0..frames -> 0..Unit]
    BY <1>5, <1>6
  <2> HIDE DEF b, now, fading
  <2>10. Block(one, two, fading, frames, X, X, G, levels, b, now, one)
    BY <2>4, <2>5, <2>6, <2>7, <2>8, <2>9 DEF Block
  <2> QED  BY <2>10, BlockChained DEF b
<1>11. Chained(before, heard.levels, LevelNow, Top)'
  <2>1. Top' = one
    BY <1>1, <1>4 DEF Top
  <2> QED  BY <1>2, <1>8, <1>10, <2>1 DEF levels
<1>12. clock' \in 0..MaxClock /\ controls' \in 0..MaxControls /\ active'.serial \in Nat
       /\ pending' = Audio!Nothing /\ fade' = Audio!Nothing
       /\ RampIs(wet', Grain[controls']) /\ RampIs(gain', Grain[controls'])
  BY <1>1, <1>2, <1>3, <1>4, <1>5 DEF g
<1> QED  BY <1>11, <1>12 DEF LevelInv

\* What a block of which the renderers are heard does to the ramps.
LEMMA WetFacts ==
  ASSUME LevelInv, AudioInv, NEW frames \in Blocks,
         Audio!ProcessBlock(frames), Audio!ProcessWet(frames)
  PROVE  LET fading == pending # Audio!Nothing
             after == IF fade = Audio!Nothing THEN Audio!Nothing ELSE Audio!After(fade, frames)
             swap == fade # Audio!Nothing /\ Audio!Completed(after)
             then == Audio!RenderBlock(Audio!Steered(pending), frames).renderer
             X == IF fading THEN Audio!Values(fade, frames) ELSE <<>>
         IN /\ active'.serial = IF swap THEN pending.serial ELSE active.serial
            /\ pending' = IF ~fading \/ swap THEN Audio!Nothing ELSE then
            /\ fading => then.serial = pending.serial /\ then # Audio!Nothing
            /\ fade' = IF swap THEN Audio!Nothing ELSE after
            /\ wet' = Audio!After(wet, frames)
            /\ heard'.levels = Audio!Levels(X, Audio!Values(wet, frames), Audio!Values(gain, frames))
<1> DEFINE fading == pending # Audio!Nothing
           after == IF fade = Audio!Nothing THEN Audio!Nothing ELSE Audio!After(fade, frames)
           swap == fade # Audio!Nothing /\ Audio!Completed(after)
           now == Audio!RenderBlock(Audio!Steered(active), frames).renderer
           then == Audio!RenderBlock(Audio!Steered(pending), frames).renderer
           X == IF fading THEN Audio!Values(fade, frames) ELSE <<>>
           wets == Audio!Values(wet, frames)
           gains == Audio!Values(gain, frames)
<1>1. fading <=> fade # Audio!Nothing
  BY DEF LevelInv
<1>2. now.serial = active.serial
  BY WarmedHolds DEF AudioInv
<1>3. ASSUME fading PROVE then.serial = pending.serial /\ then # Audio!Nothing
  <2>1. RendererIs(then, clock + frames) /\ then.serial = pending.serial
    BY <1>3, WarmedHolds DEF AudioInv
  <2> QED  BY <2>1, NotNothing
<1>4. /\ active' = IF swap THEN then ELSE now
      /\ pending' = IF ~fading \/ swap THEN Audio!Nothing ELSE then
      /\ fade' = IF swap THEN Audio!Nothing ELSE after
      /\ wet' = Audio!After(wet, frames)
      /\ heard'.levels = Audio!Levels(IF fade = Audio!Nothing THEN <<>> ELSE Audio!Values(fade, frames),
                                      wets, gains)
  BY DEF Audio!ProcessWet
<1>5. X = IF fade = Audio!Nothing THEN <<>> ELSE Audio!Values(fade, frames)
  BY <1>1
<1>6. swap => fading
  BY <1>1
<1> HIDE DEF fading, after, swap, now, then, X, wets, gains
<1>7. active'.serial = IF swap THEN pending.serial ELSE active.serial
  BY <1>2, <1>3, <1>4, <1>6
<1>8. heard'.levels = Audio!Levels(X, wets, gains)
  BY <1>4, <1>5
<1> QED  BY <1>3, <1>4, <1>7, <1>8 DEF fading, after, swap, then, X, wets, gains

\* The block after another: what is left to show of the levels that follow.
LEMMA BlockFollows ==
  ASSUME LevelInv, AudioInv, NEW frames \in Blocks, Audio!ProcessBlock(frames),
         NEW fading, fading = (pending # Audio!Nothing), NEW fades,
         NEW X, X \in [0..frames -> 0..Unit], \A i \in 1..frames : Close(X[i - 1], X[i]),
         fading => X[0] = fade.value /\ fades = [i \in 1..frames |-> X[i - 1]],
         NEW W, W = RunValues(wet, frames), NEW G, G = RunValues(gain, frames),
         heard'.levels = Audio!Levels(fades, Audio!Values(wet, frames), Audio!Values(gain, frames)),
         NEW now,
         Follows(LevelOf(active.serial, pending.serial, fading,
                         X[frames - 1], W[frames - 1], G[frames - 1]), now)
  PROVE  Chained(Audio!LastLevel, heard'.levels, now, Top)
<1> DEFINE one == active.serial
           two == pending.serial
           wets == Audio!Values(wet, frames)
           gains == Audio!Values(gain, frames)
           levels == heard'.levels
           b == Audio!LastLevel
           top == Top
           LX(i) == LevelOf(one, two, fading, X[i], W[i], G[i])
<1>1. /\ fading \in BOOLEAN /\ one \in Nat /\ (fading => two = one + 1)
      /\ top = IF fading THEN two ELSE one
  BY DEF LevelInv, Top
<1>2. /\ frames \in Nat \ {0}
      /\ RunHolds(gain, frames, Grain[controls]) /\ RunHolds(wet, frames, Grain[controls])
  BY BlockFacts
<1>3. /\ G \in [0..frames -> 0..Unit] /\ G[0] = gain.value
      /\ \A i \in 1..frames : Close(G[i - 1], G[i])
      /\ gains = [i \in 1..frames |-> G[i - 1]] /\ Len(gains) = frames
  BY <1>2 DEF RunHolds
<1>4. /\ W \in [0..frames -> 0..Unit] /\ W[0] = wet.value
      /\ \A i \in 1..frames : Close(W[i - 1], W[i])
      /\ wets = [i \in 1..frames |-> W[i - 1]]
  BY <1>2 DEF RunHolds
<1>5. levels = [i \in 1..frames |-> LevelOf(one, two, fading, fades[i], wets[i], gains[i])]
  BY <1>3, LevelsAre
<1>6. ASSUME NEW i \in 1..frames
      PROVE  LevelOf(one, two, fading, fades[i], wets[i], gains[i])
               = LevelOf(one, two, fading, X[i - 1], W[i - 1], G[i - 1])
  <2>1. wets[i] = W[i - 1] /\ gains[i] = G[i - 1]
    BY <1>3, <1>4
  <2>2. fading => fades[i] = X[i - 1]
    OBVIOUS
  <2> HIDE DEF wets, gains
  <2>3. CASE fading
    BY <2>1, <2>2, <2>3
  <2>4. CASE ~fading
    BY <2>1, <2>4 DEF LevelOf, Mix
  <2> QED  BY <1>1, <2>3, <2>4
<1>7. levels = [i \in 1..frames |-> LevelOf(one, two, fading, X[i - 1], W[i - 1], G[i - 1])]
  <2> HIDE DEF wets, gains, levels
  <2> QED  BY <1>5, <1>6
<1>8. LevelNow = LevelOf(one, two, fading, X[0], W[0], G[0])
  <2> DEFINE x == IF fade = Audio!Nothing THEN 0 ELSE fade.value
  <2>1. LevelNow = LevelOf(one, two, fading, x, W[0], G[0])
    BY <1>3, <1>4 DEF LevelNow
  <2>2. fading => x = X[0]
    BY DEF LevelInv
  <2> HIDE DEF x
  <2>3. CASE fading
    BY <2>1, <2>2, <2>3
  <2>4. CASE ~fading
    BY <2>1, <2>4 DEF LevelOf, Mix
  <2> QED  BY <1>1, <2>3, <2>4
<1>9. (b = Audio!Nothing \/ b \in Levels) /\ (b # Audio!Nothing => Follows(b, LevelNow))
  BY LastIs
<1>10. b # Audio!Nothing => Follows(b, LevelOf(one, two, fading, X[0], W[0], G[0]))
  BY <1>8, <1>9
<1>11. \A i \in 1..frames : Close(X[i - 1], X[i]) /\ Close(W[i - 1], W[i]) /\ Close(G[i - 1], G[i])
  BY <1>3, <1>4
<1>12. Follows(LevelOf(one, two, fading, X[frames - 1], W[frames - 1], G[frames - 1]), now)
  OBVIOUS
<1>13. X \in [0..frames -> 0..Unit]
  OBVIOUS
<1> HIDE DEF one, two, levels, b, top
<1>14. Block(one, two, fading, frames, X, W, G, levels, b, now, top)
  BY <1>1, <1>2, <1>3, <1>4, <1>7, <1>9, <1>10, <1>11, <1>12, <1>13 DEF Block
<1> QED  BY <1>14, BlockChained DEF levels, b, top

LEMMA WetLevels ==
  ASSUME LevelInv, AudioInv, NEW frames \in Blocks,
         Audio!ProcessBlock(frames), Audio!ProcessWet(frames)
  PROVE  LevelInv'
<1> DEFINE fading == pending # Audio!Nothing
           after == IF fade = Audio!Nothing THEN Audio!Nothing ELSE Audio!After(fade, frames)
           swap == fade # Audio!Nothing /\ Audio!Completed(after)
           then == Audio!RenderBlock(Audio!Steered(pending), frames).renderer
           fades == IF fading THEN Audio!Values(fade, frames) ELSE <<>>
           one == active.serial
           two == pending.serial
           W == RunValues(wet, frames)
           G == RunValues(gain, frames)
           g == Grain[controls]
<1>1. /\ active'.serial = IF swap THEN two ELSE one
      /\ pending' = IF ~fading \/ swap THEN Audio!Nothing ELSE then
      /\ fading => then.serial = two /\ then # Audio!Nothing
      /\ fade' = IF swap THEN Audio!Nothing ELSE after
      /\ wet' = Audio!After(wet, frames)
      /\ heard'.levels = Audio!Levels(fades, Audio!Values(wet, frames), Audio!Values(gain, frames))
  BY WetFacts
<1>2. /\ frames \in Nat \ {0} /\ clock' \in 0..MaxClock /\ controls' = controls /\ g \in Nat \ {0}
      /\ before' = Audio!LastLevel /\ gain' = Audio!After(gain, frames)
      /\ RunHolds(gain, frames, g) /\ RunHolds(wet, frames, g)
      /\ fading => RunHolds(fade, frames, g)
  BY BlockFacts
<1>3. /\ fading <=> fade # Audio!Nothing
      /\ one \in Nat /\ controls \in 0..MaxControls /\ fading \in BOOLEAN
      /\ fading => two = one + 1 /\ fade.target = Unit
      /\ Top = IF fading THEN two ELSE one
  BY DEF LevelInv, Top
<1> HIDE DEF g
<1>4. /\ frames - 1 \in 0..frames /\ frames \in 0..frames /\ frames \in 1..frames
  BY <1>2
<1>5. /\ G \in [0..frames -> 0..Unit] /\ W \in [0..frames -> 0..Unit]
      /\ Close(G[frames - 1], G[frames]) /\ Close(W[frames - 1], W[frames])
      /\ RampIs(gain', g) /\ RampIs(wet', g) /\ gain'.value = G[frames] /\ wet'.value = W[frames]
  BY <1>1, <1>2, <1>4 DEF RunHolds
<1>6. /\ G[frames - 1] \in 0..Unit /\ G[frames] \in 0..Unit
      /\ W[frames - 1] \in 0..Unit /\ W[frames] \in 0..Unit
  BY <1>4, <1>5
<1>7. CASE ~fading
  <2> DEFINE X == [i \in 0..frames |-> 0]
  <2>1. X \in [0..frames -> 0..Unit] /\ (\A i \in 1..frames : Close(X[i - 1], X[i]))
    BY <1>2, Silence
  <2>2. pending' = Audio!Nothing /\ fade' = Audio!Nothing /\ active'.serial = one
    BY <1>1, <1>3, <1>7
  <2>3. LevelNow' = LevelOf(one, pending'.serial, FALSE, 0, W[frames], G[frames])
    <3>1. (pending' # Audio!Nothing) = FALSE
      BY <2>2
    <3> HIDE DEF G, W
    <3> QED  BY <1>5, <2>2, <3>1 DEF LevelNow
  <2>4. LevelNow' = LevelOf(one, two, fading, 0, W[frames], G[frames])
    <3>1. fading = FALSE
      BY <1>7
    <3> HIDE DEF fading, G, W
    <3> QED  BY <2>3, <3>1 DEF LevelOf, Mix
  <2>5. Follows(LevelOf(one, two, fading, X[frames - 1], W[frames - 1], G[frames - 1]), LevelNow')
    <3>1. X[frames - 1] = 0 /\ 0 \in 0..Unit /\ Close(0, 0)
      BY <1>4, LargestIs DEF Close
    <3> DEFINE now == LevelNow'
    <3>2. now = LevelOf(one, two, fading, 0, W[frames], G[frames])
      BY <2>4
    <3> HIDE DEF X, G, W, fading, one, two, now
    <3>3. Follows(LevelOf(one, two, fading, X[frames - 1], W[frames - 1], G[frames - 1]), now)
      BY <1>3, <1>5, <1>6, <3>1, <3>2, MixFollows
    <3> QED  BY <3>3 DEF now
  <2>6. Chained(Audio!LastLevel, heard'.levels, LevelNow', Top)
    <3> DEFINE wets == Audio!Values(wet, frames)
               gains == Audio!Values(gain, frames)
               now == LevelNow'
    <3>1. fading => X[0] = fade.value /\ fades = [i \in 1..frames |-> X[i - 1]]
      BY <1>7
    <3>2. heard'.levels = Audio!Levels(fades, wets, gains)
          /\ Follows(LevelOf(one, two, fading, X[frames - 1], W[frames - 1], G[frames - 1]), now)
      BY <1>1, <2>5
    <3> HIDE DEF X, G, W, fading, fades, now, wets, gains
    <3>3. Chained(Audio!LastLevel, heard'.levels, now, Top)
      BY <2>1, <3>1, <3>2, BlockFollows DEF G, W, fading, wets, gains
    <3> QED  BY <3>3 DEF now
  <2>7. Top' = Top
    BY <1>3, <1>7, <2>2 DEF Top
  <2>8. Chained(before, heard.levels, LevelNow, Top)'
    BY <1>2, <2>6, <2>7
  <2>9. clock' \in 0..MaxClock /\ controls' \in 0..MaxControls /\ active'.serial \in Nat
        /\ RampIs(wet', Grain[controls']) /\ RampIs(gain', Grain[controls'])
    BY <1>2, <1>3, <1>5, <2>2 DEF g
  <2> QED  BY <2>2, <2>8, <2>9 DEF LevelInv
<1>8. CASE fading
  <2> DEFINE X == RunValues(fade, frames)
             now == LevelNow'
             x == X[frames - 1]
             y == X[frames]
  <2>1. /\ X \in [0..frames -> 0..Unit] /\ X[0] = fade.value
        /\ \A i \in 1..frames : Close(X[i - 1], X[i])
        /\ RampIs(after, g) /\ after.value = y /\ after.target = Unit
        /\ fades = [i \in 1..frames |-> X[i - 1]]
    BY <1>2, <1>3, <1>8 DEF RunHolds
  <2>2. x \in 0..Unit /\ y \in 0..Unit /\ Close(x, y)
    BY <1>4, <2>1
  <2>3. two = one + 1 /\ two \in Nat /\ Top = two /\ fading = TRUE
    BY <1>3, <1>8
  <2>4. /\ Follows(LevelOf(one, two, fading, x, W[frames - 1], G[frames - 1]), now) /\ Top' = two
        /\ active'.serial \in Nat /\ (pending' = Audio!Nothing <=> fade' = Audio!Nothing)
        /\ pending' # Audio!Nothing =>
             /\ pending'.serial = active'.serial + 1
             /\ RampIs(fade', g) /\ fade'.target = Unit
    <3>1. CASE swap
      <4>1. active'.serial = two /\ pending' = Audio!Nothing /\ fade' = Audio!Nothing
        BY <1>1, <3>1
      <4>2. y = Unit
        BY <2>1, <3>1 DEF Audio!Completed, RampIs
      <4>3. now = LevelOf(two, pending'.serial, FALSE, 0, W[frames], G[frames])
        <5>1. (pending' # Audio!Nothing) = FALSE
          BY <4>1
        <5> HIDE DEF G, W
        <5> QED  BY <1>5, <4>1, <5>1 DEF LevelNow
      <4>4. 0 \in 0..Unit
        BY LargestIs
      <4>5. Follows(LevelOf(one, two, TRUE, x, W[frames - 1], G[frames - 1]), now)
        <5> HIDE DEF G, W, x, y, one, two, now
        <5> QED  BY <1>3, <1>5, <1>6, <2>2, <2>3, <4>2, <4>3, <4>4, SwapFollows
      <4>6. Top' = two
        BY <4>1 DEF Top
      <4> HIDE DEF fading
      <4> QED  BY <2>3, <4>1, <4>5, <4>6
    <3>2. CASE ~swap
      <4>1. active'.serial = one /\ pending' = then /\ fade' = after /\ pending' # Audio!Nothing
            /\ pending'.serial = two
        BY <1>1, <1>8, <3>2
      <4>2. fade' # Audio!Nothing
        BY <2>1, <4>1, RampIsNot
      <4>3. now = LevelOf(one, two, TRUE, y, W[frames], G[frames])
        <5>1. (pending' # Audio!Nothing) = TRUE /\ fade'.value = y
          BY <2>1, <4>1
        <5> HIDE DEF G, W, y, one, two
        <5> QED  BY <1>5, <4>1, <4>2, <5>1 DEF LevelNow
      <4>4. now = LevelOf(one, two, fading, y, W[frames], G[frames])
        <5> HIDE DEF fading, now
        <5> QED  BY <2>3, <4>3
      <4>5. Follows(LevelOf(one, two, fading, x, W[frames - 1], G[frames - 1]), now)
        <5> HIDE DEF G, W, x, y, one, two, now, fading
        <5> QED  BY <1>3, <1>5, <1>6, <2>2, <2>3, <4>4, MixFollows
      <4>6. Top' = two
        BY <4>1 DEF Top
      <4> HIDE DEF after, now, fading
      <4> QED  BY <1>3, <2>1, <2>3, <4>1, <4>2, <4>5, <4>6
    <3> QED  BY <3>1, <3>2
  <2> HIDE DEF now, x, y, fading, after, fades, X, W, G, two, one
  <2>5. Follows(LevelOf(one, two, fading, x, W[frames - 1], G[frames - 1]), now) /\ Top' = two
    BY <2>4
  <2>6. Chained(Audio!LastLevel, heard'.levels, now, Top)
    <3> DEFINE wets == Audio!Values(wet, frames)
               gains == Audio!Values(gain, frames)
    <3> HIDE DEF wets, gains
    <3>1. fading => X[0] = fade.value /\ fades = [i \in 1..frames |-> X[i - 1]]
      BY <2>1
    <3>2. heard'.levels = Audio!Levels(fades, wets, gains)
      BY <1>1 DEF wets, gains
    <3>3. Follows(LevelOf(one, two, fading, X[frames - 1], W[frames - 1], G[frames - 1]), now)
      BY <2>5 DEF x
    <3> QED  BY <2>1, <3>1, <3>2, <3>3, BlockFollows DEF G, W, fading, one, two, wets, gains
  <2>7. Chained(before, heard.levels, LevelNow, Top)'
    BY <1>2, <2>3, <2>5, <2>6 DEF now
  <2>8. /\ active'.serial \in Nat /\ (pending' = Audio!Nothing <=> fade' = Audio!Nothing)
        /\ pending' # Audio!Nothing =>
             /\ pending'.serial = active'.serial + 1
             /\ RampIs(fade', g) /\ fade'.target = Unit
    BY <2>4
  <2>9. clock' \in 0..MaxClock /\ controls' \in 0..MaxControls /\ Grain[controls'] = g
    BY <1>2, <1>3 DEF g
  <2>10. RampIs(wet', g) /\ RampIs(gain', g)
    BY <1>5
  <2> QED  BY <2>7, <2>8, <2>9, <2>10 DEF LevelInv
<1> QED  BY <1>7, <1>8

LEMMA ForgetLevels ==
  ASSUME AudioInv, NEW frames \in Nat, Audio!Forget(frames)
  PROVE  /\ frames <= 1 => before' = Audio!Nothing /\ heard'.levels = <<>>
         /\ frames > 1 => before' = before /\ heard' = heard
<1>1. frames > 1 <=> ~(frames <= 1)
  OBVIOUS
<1>2. ASSUME frames <= 1 PROVE before' = Audio!Nothing /\ heard'.levels = <<>>
  <2>1. before' = Audio!Nothing /\ heard' = [heard EXCEPT !.levels = <<>>]
    BY <1>2 DEF Audio!Forget
  <2>2. heard = [start |-> heard.start, wet |-> heard.wet, levels |-> heard.levels]
    BY DEF AudioInv
  <2>3. "levels" \in DOMAIN heard
    BY <2>2
  <2> QED  BY <2>1, <2>3
<1>3. ASSUME frames > 1 PROVE before' = before /\ heard' = heard
  BY <1>1, <1>3 DEF Audio!Forget
<1> QED  BY <1>2, <1>3

LEMMA ControlFacts ==
  ASSUME LevelInv, Audio!Control
  PROVE  /\ controls \in 0..MaxControls /\ controls < MaxControls /\ controls' = controls + 1
         /\ controls' \in 0..MaxControls /\ clock' \in 0..MaxClock
         /\ RampIs(wet, Grain[controls']) /\ RampIs(Audio!Settle(wet), Grain[controls'])
         /\ RampIs(gain, Grain[controls']) /\ RampIs(Audio!Settle(gain), Grain[controls'])
         /\ pending # Audio!Nothing => RampIs(fade, Grain[controls'])
<1>1. /\ controls \in 0..MaxControls /\ controls < MaxControls /\ controls' = controls + 1
      /\ controls' \in 0..MaxControls /\ clock' \in 0..MaxClock
  BY RampAssumption DEF LevelInv, Audio!Control
<1> DEFINE c == controls
           d == controls'
           g == Grain[c]
<1>2. RampIs(wet, g) /\ RampIs(gain, g) /\ (pending # Audio!Nothing => RampIs(fade, g))
  BY DEF LevelInv
<1>3. d = c + 1 /\ c \in 0..MaxControls /\ c < MaxControls
  BY <1>1
<1> HIDE DEF c, d
<1> QED  BY <1>1, <1>2, <1>3, KeptIs DEF c, d

\* A ramp is given another target.
LEMMA RampLevels ==
  ASSUME LevelInv, AudioInv, NEW frames \in Transitions, Audio!Control, Audio!Forget(frames),
         UNCHANGED <<active, pending, fade>>,
         RampIs(wet', Grain[controls']), RampIs(gain', Grain[controls']),
         frames > 1 => wet'.value = wet.value /\ gain'.value = gain.value
  PROVE  LevelInv'
<1>1. frames \in Nat
  BY RampAssumption
<1>2. active' = active /\ pending' = pending /\ fade' = fade
  OBVIOUS
<1>3. Chained(before, heard.levels, LevelNow, Top)'
  <2>1. CASE frames <= 1
    <3>1. before' = Audio!Nothing /\ heard'.levels = <<>>
      BY <1>1, <2>1, ForgetLevels
    <3> QED  BY <3>1, Fresh
  <2>2. CASE frames > 1
    <3>1. before' = before /\ heard' = heard /\ wet'.value = wet.value /\ gain'.value = gain.value
      BY <1>1, <2>2, ForgetLevels
    <3>2. LevelNow' = LevelNow /\ Top' = Top
      BY <1>2, <3>1 DEF LevelNow, Top
    <3>3. Chained(before, heard.levels, LevelNow, Top)
      BY DEF LevelInv
    <3> QED  BY <3>1, <3>2, <3>3
  <2> QED  BY <1>1, <2>1, <2>2
<1>4. /\ active.serial \in Nat /\ (pending = Audio!Nothing <=> fade = Audio!Nothing)
      /\ pending # Audio!Nothing => pending.serial = active.serial + 1 /\ fade.target = Unit
  BY DEF LevelInv
<1> QED  BY <1>2, <1>3, <1>4, ControlFacts DEF LevelInv

LEMMA GainLevels ==
  ASSUME LevelInv, AudioInv, NEW frames \in Transitions, NEW value \in Gains,
         Audio!SetOutputGain(value, frames)
  PROVE  LevelInv'
<1>1. /\ Audio!Control /\ Audio!Forget(frames) /\ gain' = Audio!SetTarget(gain, value, frames)
      /\ wet' = wet /\ UNCHANGED <<active, pending, fade>>
  BY DEF Audio!SetOutputGain
<1> DEFINE c == controls
           g == Grain[c]
<1>2. /\ c \in 0..MaxControls /\ c < MaxControls /\ controls' = c + 1 /\ RampIs(gain, g)
      /\ RampIs(wet', Grain[controls'])
  BY <1>1, ControlFacts DEF LevelInv
<1> HIDE DEF c
<1>3. RampIs(gain', Grain[controls']) /\ (frames > 1 => gain'.value = gain.value)
  BY <1>1, <1>2, ChangedIs
<1> QED  BY <1>1, <1>2, <1>3, RampLevels

LEMMA EnabledLevels ==
  ASSUME LevelInv, AudioInv, NEW frames \in Transitions, NEW enabled,
         Audio!SetWetEnabled(enabled, frames)
  PROVE  LevelInv'
<1> DEFINE target == IF enabled THEN Unit ELSE 0
<1>1. /\ Audio!Control /\ Audio!Forget(frames) /\ wet' = Audio!SetTarget(wet, target, frames)
      /\ gain' = gain /\ UNCHANGED <<active, pending, fade>>
  BY DEF Audio!SetWetEnabled
<1>2. target \in Gains \cup {0, Unit}
  OBVIOUS
<1> HIDE DEF target
<1> DEFINE c == controls
           g == Grain[c]
<1>3. /\ c \in 0..MaxControls /\ c < MaxControls /\ controls' = c + 1 /\ RampIs(wet, g)
      /\ RampIs(gain', Grain[controls'])
  BY <1>1, ControlFacts DEF LevelInv
<1> HIDE DEF c
<1>4. RampIs(wet', Grain[controls']) /\ (frames > 1 => wet'.value = wet.value)
  BY <1>1, <1>2, <1>3, ChangedIs
<1> QED  BY <1>1, <1>3, <1>4, RampLevels

\* Nothing of what is heard depends on the place.
LEMMA MoveLevels ==
  ASSUME LevelInv, AudioInv, NEW pair \in Pairs, Audio!SetOrbitPosition(pair)
  PROVE  LevelInv'
<1> DEFINE position == Audio!Position(pair)
<1>1. /\ Audio!Control
      /\ active' = [active EXCEPT !.position = position]
      /\ pending' = IF pending = Audio!Nothing THEN Audio!Nothing
                    ELSE [pending EXCEPT !.position = position]
      /\ fade' = fade /\ wet' = wet /\ gain' = gain /\ heard' = heard /\ before' = before
  BY DEF Audio!SetOrbitPosition
<1>2. position \in Positions
  BY PlacesAre, AudioConstants
<1> HIDE DEF position
<1>3. active'.serial = active.serial
  BY <1>1, <1>2, MovedHolds DEF AudioInv
<1>4. /\ pending = Audio!Nothing => pending' = pending
      /\ pending # Audio!Nothing => pending' # Audio!Nothing /\ pending'.serial = pending.serial
  <2>1. ASSUME pending # Audio!Nothing
        PROVE  pending' # Audio!Nothing /\ pending'.serial = pending.serial
    <3>1. RendererIs(pending, clock) /\ pending' = [pending EXCEPT !.position = position]
      BY <1>1, <2>1 DEF AudioInv
    <3>2. RendererIs(pending', clock) /\ pending'.serial = pending.serial
      BY <1>2, <3>1, MovedHolds
    <3> QED  BY <3>2, NotNothing
  <2> QED  BY <1>1, <2>1
<1>5. pending'.serial = pending.serial /\ (pending' # Audio!Nothing) = (pending # Audio!Nothing)
  BY <1>4
<1>6. LevelNow' = LevelNow /\ Top' = Top
  BY <1>1, <1>3, <1>5 DEF LevelNow, Top
<1>7. Chained(before, heard.levels, LevelNow, Top)'
  <2>1. Chained(before, heard.levels, LevelNow, Top)
    BY DEF LevelInv
  <2> QED  BY <1>1, <1>6, <2>1
<1>8. /\ active.serial \in Nat /\ (pending = Audio!Nothing <=> fade = Audio!Nothing)
      /\ pending # Audio!Nothing => pending.serial = active.serial + 1 /\ fade.target = Unit
  BY DEF LevelInv
<1> QED  BY <1>1, <1>3, <1>4, <1>5, <1>7, <1>8, ControlFacts DEF LevelInv

\* Another preset is faded in, or takes over at once.
LEMMA InstallLevels ==
  ASSUME LevelInv, AudioInv, NEW file \in Waves, NEW frames \in Transitions,
         Audio!InstallPreset(file, frames)
  PROVE  LevelInv'
<1> DEFINE one == active.serial
           two == 1 + one
           replacement == Audio!Renderer(file, mode, two)
           c == controls
           g == Grain[c]
<1>1. /\ Audio!Control /\ Audio!Forget(frames) /\ pending = Audio!Nothing /\ Audio!Loads(file)
      /\ wet' = Audio!SetTarget(wet, Unit, frames) /\ gain' = gain
      /\ IF frames <= 1
         THEN active' = Audio!ResetRenderer(replacement) /\ UNCHANGED <<pending, fade>>
         ELSE pending' = replacement /\ fade' = Audio!NewFade(frames) /\ UNCHANGED active
  BY DEF Audio!InstallPreset
<1>2. /\ c \in 0..MaxControls /\ c < MaxControls /\ controls' = c + 1 /\ RampIs(wet, g)
      /\ RampIs(gain', Grain[controls']) /\ controls' \in 0..MaxControls /\ clock' \in 0..MaxClock
  BY <1>1, ControlFacts DEF LevelInv
<1>3. RampIs(wet', Grain[controls']) /\ (frames > 1 => wet'.value = wet.value)
  <2>1. Unit \in Gains \cup {0, Unit}
    OBVIOUS
  <2> HIDE DEF c
  <2> QED  BY <1>1, <1>2, <2>1, ChangedIs
<1>4. frames \in Nat /\ one \in Nat /\ two \in Nat /\ two = one + 1 /\ fade = Audio!Nothing
      /\ clock \in Nat /\ mode \in Positions
  BY <1>1, RampAssumption DEF LevelInv, AudioInv
<1> HIDE DEF c
<1>5. /\ RendererIs(replacement, clock) /\ replacement.serial = two
      /\ RendererIs(Audio!ResetRenderer(replacement), clock)
      /\ Audio!ResetRenderer(replacement).serial = two
  <2> HIDE DEF two
  <2>1. /\ RendererIs(replacement, clock) /\ replacement.file = file
        /\ replacement.position = mode /\ replacement.serial = two
    BY <1>1, <1>4, NewHolds, AudioConstants
  <2> HIDE DEF replacement
  <2>2. Audio!ResetRenderer(replacement) = Audio!Renderer(file, mode, two)
    BY <2>1 DEF Audio!ResetRenderer
  <2> QED  BY <2>1, <2>2 DEF replacement
<1> HIDE DEF replacement
<1>6. CASE frames <= 1
  <2>1. /\ before' = Audio!Nothing /\ heard'.levels = <<>> /\ active'.serial = two
        /\ pending' = Audio!Nothing /\ fade' = Audio!Nothing
    BY <1>1, <1>4, <1>5, <1>6, ForgetLevels
  <2>2. Chained(before, heard.levels, LevelNow, Top)'
    BY <2>1, Fresh
  <2> QED  BY <1>2, <1>3, <1>4, <2>1, <2>2 DEF LevelInv
<1>7. CASE frames > 1
  <2>1. /\ before' = before /\ heard' = heard /\ active' = active
        /\ pending' = replacement /\ fade' = Audio!NewFade(frames)
        /\ wet'.value = wet.value /\ gain' = gain
    BY <1>1, <1>3, <1>4, <1>7, ForgetLevels
  <2>2. /\ RampIs(fade', Grain[controls']) /\ fade'.value = 0 /\ fade'.target = Unit
    BY <1>2, <1>7, <2>1, FadeIs
  <2>3. pending' # Audio!Nothing /\ fade' # Audio!Nothing /\ pending'.serial = two
    BY <1>5, <2>1, <2>2, NotNothing, RampIsNot
  <2> DEFINE w == wet.value
             h == gain.value
             third == pending.serial
             last == LastOf(before, heard.levels)
             now == LevelNow'
  <2>4. LevelNow = LevelOf(one, third, FALSE, 0, w, h)
    <3>1. (pending # Audio!Nothing) = FALSE
      BY <1>1
    <3> QED  BY <1>4, <3>1 DEF LevelNow
  <2>5. now = LevelOf(one, two, TRUE, 0, w, h)
    <3>1. (pending' # Audio!Nothing) = TRUE
      BY <2>3
    <3> HIDE DEF two
    <3> QED  BY <2>1, <2>2, <2>3, <3>1 DEF LevelNow
  <2>6. Top = one /\ Top' = two
    BY <1>1, <2>3 DEF Top
  <2>7. w \in 0..Unit /\ h \in 0..Unit /\ 0 \in 0..Unit
    BY LargestIs DEF LevelInv, RampIs, Ramps
  <2>8. Chained(before, heard.levels, LevelNow, Top)
    BY DEF LevelInv
  <2>9. ASSUME last # Audio!Nothing
        PROVE  Follows(last, now) /\ DOMAIN last.share \subseteq 0..two
    <3>1. Follows(last, LevelNow) /\ DOMAIN last.share \subseteq 0..one
      BY <2>6, <2>8, <2>9 DEF Chained
    <3>2. DOMAIN last.share \subseteq 0..two
      BY <1>4, <3>1
    <3> HIDE DEF two, last, now, w, h, third
    <3>3. Follows(last, LevelOf(one, third, FALSE, 0, w, h))
      BY <2>4, <3>1
    <3>4. Follows(last, LevelOf(one, two, TRUE, 0, w, h))
      BY <1>4, <2>7, <3>1, <3>3, FadeFollows
    <3> QED  BY <2>5, <3>2, <3>4
  <2>10. Chained(before, heard.levels, now, two)
    BY <2>8, <2>9 DEF Chained
  <2>11. Chained(before, heard.levels, LevelNow, Top)'
    BY <2>1, <2>6, <2>10
  <2> QED  BY <1>2, <1>3, <1>4, <2>1, <2>2, <2>3, <2>11 DEF LevelInv
<1> QED  BY <1>4, <1>6, <1>7

LEMMA ResetLevels ==
  ASSUME LevelInv, AudioInv, Audio!Reset
  PROVE  LevelInv'
<1> DEFINE kept == IF pending = Audio!Nothing THEN active ELSE pending
<1>1. /\ active' = Audio!ResetRenderer(kept) /\ pending' = Audio!Nothing /\ fade' = Audio!Nothing
      /\ wet' = Audio!Settle(wet) /\ gain' = Audio!Settle(gain) /\ Audio!Forget(0) /\ Audio!Control
  BY DEF Audio!Reset
<1>2. RendererIs(kept, clock) /\ clock \in Nat
  BY DEF AudioInv
<1> HIDE DEF kept
<1>3. RendererIs(active', clock)
  BY <1>1, <1>2, ResetHolds, AudioConstants
<1>4. active'.serial \in Nat
  BY <1>3 DEF RendererIs, Renderers
<1>5. before' = Audio!Nothing /\ heard'.levels = <<>>
  BY <1>1, ForgetLevels
<1>6. Chained(before, heard.levels, LevelNow, Top)'
  BY <1>5, Fresh
<1> QED  BY <1>1, <1>4, <1>6, ControlFacts DEF LevelInv

LEMMA StepLevels == LevelInv /\ AudioInv /\ [Audio!Next]_audioVars => LevelInv'
<1> SUFFICES ASSUME LevelInv, AudioInv, [Audio!Next]_audioVars PROVE LevelInv'
  OBVIOUS
<1>1. CASE UNCHANGED audioVars
  BY <1>1 DEF audioVars, LevelInv, LevelNow, Top
<1>2. ASSUME NEW frames \in Blocks, Audio!ProcessBlock(frames) PROVE LevelInv'
  <2>1. Audio!ProcessDry(frames) \/ Audio!ProcessWet(frames)
    BY <1>2 DEF Audio!ProcessBlock
  <2> QED  BY <1>2, <2>1, DryLevels, WetLevels
<1> QED  BY <1>1, <1>2, GainLevels, EnabledLevels, InstallLevels, MoveLevels, ResetLevels
            DEF Audio!Next

Frames == (IF before = Audio!Nothing THEN <<>> ELSE <<before>>) \o heard.levels

LEMMA ContinuousSays ==
  (\A i \in 1..(Len(Frames) - 1) : Follows(Frames[i], Frames[i + 1])) => Audio!LevelsAreContinuous
<1> SUFFICES ASSUME \A i \in 1..(Len(Frames) - 1) : Follows(Frames[i], Frames[i + 1])
             PROVE  Audio!LevelsAreContinuous
  OBVIOUS
<1> QED  BY DEF Audio!LevelsAreContinuous, Follows, Close, Share, Largest, Shortest, Frames

LEMMA FramesFollow ==
  ASSUME LevelInv, NEW i \in 1..(Len(Frames) - 1)
  PROVE  Follows(Frames[i], Frames[i + 1])
<1> DEFINE levels == heard.levels
           S == Levels
<1>1. /\ levels \in Seq(S) /\ (before = Audio!Nothing \/ before \in S)
      /\ \A j \in 1..(Len(levels) - 1) : Follows(levels[j], levels[j + 1])
      /\ before # Audio!Nothing /\ levels # <<>> => Follows(before, levels[1])
  BY DEF LevelInv, Chained
<1> HIDE DEF levels, S
<1>2. CASE before = Audio!Nothing
  <2>1. Frames = <<>> \o levels
    BY <1>2 DEF Frames, levels
  <2>2. Frames = levels
    BY <1>1, <2>1
  <2> QED  BY <1>1, <2>2
<1>3. CASE before # Audio!Nothing
  <2>1. Frames = <<before>> \o levels
    BY <1>3 DEF Frames, levels
  <2>2. before \in S /\ Len(levels) \in Nat
    BY <1>1, <1>3
  <2>3. /\ Len(Frames) = 1 + Len(levels) /\ Frames[1] = before
        /\ \A j \in 1..Len(levels) : Frames[j + 1] = levels[j]
    <3>1. <<before>> \in Seq(S) /\ Len(<<before>>) = 1
      BY <2>2
    <3>2. Len(<<before>> \o levels) = 1 + Len(levels)
      BY <1>1, <3>1
    <3>3. (<<before>> \o levels)[1] = before
      BY <1>1, <2>2, <3>1
    <3>4. \A j \in 1..Len(levels) : (<<before>> \o levels)[j + 1] = levels[j]
      BY <1>1, <2>2, <3>1
    <3> QED  BY <2>1, <3>2, <3>3, <3>4
  <2>4. i \in 1..Len(levels)
    BY <2>2, <2>3
  <2>5. CASE i = 1
    <3>1. levels # <<>> /\ 1 \in 1..Len(levels)
      BY <2>4, <2>5
    <3>2. Frames[2] = levels[1]
      <4>1. Frames[1 + 1] = levels[1]
        BY <2>3, <3>1
      <4> QED  BY <4>1
    <3> QED  BY <1>1, <1>3, <2>3, <2>5, <3>1, <3>2
  <2>6. CASE i # 1
    <3> DEFINE j == i - 1
    <3>1. j \in 1..(Len(levels) - 1) /\ j \in 1..Len(levels) /\ j + 1 \in 1..Len(levels) /\ i = j + 1
      BY <2>2, <2>4, <2>6
    <3> HIDE DEF j
    <3>2. Frames[j + 1] = levels[j] /\ Frames[(j + 1) + 1] = levels[j + 1]
      BY <2>3, <3>1
    <3> QED  BY <1>1, <3>1, <3>2
  <2> QED  BY <2>5, <2>6
<1> QED  BY <1>2, <1>3

LEMMA LevelsSay == LevelInv => Audio!TypeOK /\ Audio!LevelsAreContinuous
<1> SUFFICES ASSUME LevelInv PROVE Audio!TypeOK /\ Audio!LevelsAreContinuous
  OBVIOUS
<1>1. Audio!LevelsAreContinuous
  BY FramesFollow, ContinuousSays
<1>2. clock \in 0..MaxClock /\ controls \in 0..MaxControls
      /\ (pending = Audio!Nothing) = (fade = Audio!Nothing)
  BY DEF LevelInv
<1>3. ASSUME NEW ramp \in {wet, gain} \cup ({fade} \ {Audio!Nothing})
      PROVE  /\ {ramp.value, ramp.target} \subseteq 0..Unit
             /\ ramp.remaining = 0 => ramp.value = ramp.target
  <2>1. RampIs(ramp, Grain[controls])
    BY DEF LevelInv
  <2> QED  BY <2>1 DEF RampIs, Ramps
<1> QED  BY <1>1, <1>2, <1>3 DEF Audio!TypeOK

\* No fade and no ramp clicks, whatever interrupts it and wherever a block ends
\* (EqualPowerFade, UnitRamp).
THEOREM LevelsStayContinuous == MCSpec => []LevelsAreContinuous
<1>1. MCInit => AudioInv /\ LevelInv
  BY InitAudio, InitLevels DEF MCInit
<1>2. AudioInv /\ LevelInv /\ [MCNext]_allVars => (AudioInv /\ LevelInv)'
  <2> SUFFICES ASSUME AudioInv, LevelInv, [MCNext]_allVars PROVE (AudioInv /\ LevelInv)'
    OBVIOUS
  <2>1. [Audio!Next]_audioVars
    BY DEF MCNext, allVars
  <2> QED  BY <2>1, StepAudio, StepLevels
<1>3. AudioInv /\ LevelInv => LevelsAreContinuous
  BY LevelsSay DEF LevelsAreContinuous
<1> QED  BY <1>1, <1>2, <1>3, PTL DEF MCSpec

==============================================================================
