---------------------------- MODULE ManagedMedia ----------------------------
(***************************************************************************)
(* The private directory of downloaded media: what is on the disk, what    *)
(* the quota's ledger charges, which objects are leased to playback, and   *)
(* the janitor that removes what nobody needs.  One file stands for one    *)
(* ingest: every download has a fresh identifier.                          *)
(*                                                                         *)
(* Ingests run concurrently and may be cancelled at any await: the site    *)
(* resolver drops them at its deadline.  A file operation under way runs   *)
(* on a thread of its own and is completed all the same: it is then "late".*)
(*                                                                         *)
(* Timing: probing a complete download takes at most 30 s and a partial    *)
(* one is aborted after download_timeout, while the janitor considers      *)
(* objects after 5 minutes and partial files after an hour, so a file does *)
(* not get old before its ingest has ended.                                *)
(***************************************************************************)
EXTENDS FiniteSets, FiniteSetsExt, Integers

CONSTANTS Files,
          MaximumBytes, MaximumEntries, \* the quota
          MaxDownload                   \* the cap of one download

ASSUME QuotaAssumption ==
  /\ IsFiniteSet(Files)
  /\ {MaximumBytes, MaximumEntries, MaxDownload} \subseteq Nat \ {0}
  /\ MaxDownload <= MaximumBytes

\* The janitor's own scans belong to no ingest.
ASSUME FilesAssumption == {"none", "periodic"} \cap Files = {}

VARIABLES
  disk,         \* paths that exist
  size,         \* bytes of each file
  old,          \* files past the age the janitor waits for
  task,         \* where each ingest is
  hold,         \* bytes of its capacity reservation; 0: it has none
  holders,      \* who has a clone of the lease
  registry,     \* per path: "none", "leased" or "deleting"
  charged, reservations, entries, \* the ledger
  scan,         \* the janitor's scan
  late          \* file operations whose caller was cancelled

ledger == <<charged, reservations, entries>>
vars   == <<disk, size, old, task, hold, holders, registry, charged, reservations, entries,
            scan, late>>

Paths   == Files \X {"part", "object"}
Part(f) == <<f, "part">>
Obj(f)  == <<f, "object">>
NoScan  == [owner |-> "none", phase |-> "idle", todo |-> {}, at |-> {}]

TypeOK ==
  /\ disk \subseteq Paths /\ old \subseteq Files
  /\ size \in [Files -> 0..MaxDownload] /\ hold \in [Files -> 0..MaxDownload]
  /\ task \in [Files -> {"new", "reclaiming", "retry", "fetching", "writing", "committed",
                         "checked", "leased", "rejected", "removing", "done"}]
  /\ holders \in [Files -> SUBSET {"batch", "player"}]
  /\ registry \in [Paths -> {"none", "leased", "deleting"}]
  /\ charged \in Nat /\ reservations \in Nat
  /\ entries \subseteq [path : Paths, bytes : 0..MaxDownload]
  /\ scan.owner \in {"none", "periodic"} \cup Files
  /\ scan.phase \in {"idle", "scan", "apply", "verified", "remove"}
  /\ scan.todo \subseteq Paths /\ scan.at \subseteq Paths
  /\ late \subseteq {"create", "remove"} \X Paths

-----------------------------------------------------------------------------
(* The ledger.                                                             *)

\* The bytes of entries, and those of the reservations, one by one.
EntryBytes(es) == UNION {{e} \X (1..e.bytes) : e \in es}
HeldBytes      == UNION {{f} \X (1..hold[f]) : f \in Files}

Fits(additional) == charged + additional <= MaximumBytes

\* CapacityReservation dropped: its bytes are given back.
Release(f) ==
  /\ charged' = charged - hold[f]
  /\ reservations' = reservations - 1
  /\ hold' = [hold EXCEPT ![f] = 0]
  /\ UNCHANGED entries

\* A reservation that grows without looking at the quota.
EnsureUnchecked(f, bytes) ==
  /\ hold' = [hold EXCEPT ![f] = Max({@, bytes})]
  /\ charged' = charged + Max({0, bytes - hold[f]})
  /\ UNCHANGED <<reservations, entries>>

\* CapacityReservation::ensure: it grows where the quota allows.
Ensure(f, bytes) ==
  /\ bytes > hold[f] => Fits(bytes - hold[f])
  /\ hold' = [hold EXCEPT ![f] = Max({@, bytes})]
  /\ charged' = charged + Max({0, bytes - hold[f]})
  /\ UNCHANGED <<reservations, entries>>

\* The reservation becomes an entry: of the file's size, or in full.
Convert(f, path, bytes) ==
  /\ charged' = (charged - hold[f]) + bytes
  /\ reservations' = reservations - 1
  /\ entries' = entries \cup {[path |-> path, bytes |-> bytes]}
  /\ hold' = [hold EXCEPT ![f] = 0]

\* CapacityTracker::removed.
Removed(path) ==
  LET gone == {e \in entries : e.path = path}
  IN /\ entries' = entries \ gone
     /\ charged' = charged - Cardinality(EntryBytes(gone))
     /\ UNCHANGED reservations

-----------------------------------------------------------------------------
(* Leases and deletion permits.                                            *)

\* A permit that excludes other deletions only.
BeginDeletionOfLeased(path) ==
  registry[path] # "deleting" /\ registry' = [registry EXCEPT ![path] = "deleting"]

\* begin_deletion: no permit while the path is leased or being deleted.
BeginDeletion(path) ==
  registry[path] = "none" /\ registry' = [registry EXCEPT ![path] = "deleting"]

DropPermit(path) == registry' = [registry EXCEPT ![path] = "none"]

\* acquire, first half: the file is inspected without the registry's lock.
InspectObject(f) ==
  /\ task[f] = "committed"
  /\ task' = [task EXCEPT ![f] = IF Obj(f) \in disk THEN "checked" ELSE "rejected"]
  /\ UNCHANGED <<disk, size, old, hold, holders, registry, ledger, scan, late>>

\* acquire, second half.  Nobody else leases an object, so it is not leased yet.
Acquire(f) ==
  /\ task[f] = "checked"
  /\ IF registry[Obj(f)] = "none"
     THEN /\ task' = [task EXCEPT ![f] = "leased"]
          /\ holders' = [holders EXCEPT ![f] = {"batch"}]
          /\ registry' = [registry EXCEPT ![Obj(f)] = "leased"]
     ELSE task' = [task EXCEPT ![f] = "rejected"] /\ UNCHANGED <<holders, registry>>
  /\ UNCHANGED <<disk, size, old, hold, ledger, scan, late>>

\* The player gets a clone of the track; the resolver's caller keeps its own.
Enqueue(f) ==
  /\ task[f] = "leased" /\ "batch" \in holders[f]
  /\ holders' = [holders EXCEPT ![f] = @ \cup {"player"}]
  /\ UNCHANGED <<disk, size, old, task, hold, registry, ledger, scan, late>>

\* LeaseToken dropped with the last clone; `next` is what the ingest goes on with.
DropClone(f, who, next) ==
  /\ who \in holders[f]
  /\ holders' = [holders EXCEPT ![f] = @ \ {who}]
  /\ registry' = [registry EXCEPT ![Obj(f)] = IF holders[f] = {who} THEN "none" ELSE @]
  /\ task' = [task EXCEPT ![f] = next]
  /\ UNCHANGED <<disk, size, old, hold, ledger, scan, late>>

PlayerDrops(f)  == DropClone(f, "player", task[f])
BatchDropped(f) == DropClone(f, "batch", "done")
\* discard_tracks: the caller's clone is dropped, then the file discarded.
DiscardTrack(f) == DropClone(f, "batch", "rejected")

-----------------------------------------------------------------------------
(* An ingest.                                                              *)

\* MediaFetcher::fetch begins; the second refusal is final.
Reserve(f, bytes) ==
  /\ task[f] \in {"new", "retry"}
  /\ IF Cardinality(entries) + reservations < MaximumEntries /\ Fits(bytes)
     THEN /\ task' = [task EXCEPT ![f] = "fetching"]
          /\ hold' = [hold EXCEPT ![f] = bytes]
          /\ charged' = charged + bytes /\ reservations' = reservations + 1
          /\ UNCHANGED entries
     ELSE /\ task' = [task EXCEPT ![f] = IF task[f] = "new" THEN "reclaiming" ELSE "done"]
          /\ UNCHANGED <<hold, ledger>>
  /\ UNCHANGED <<disk, size, old, holders, registry, scan, late>>

\* The response names a length.
GrowReservation(f, bytes) ==
  /\ task[f] = "fetching"
  /\ Ensure(f, bytes)
  /\ UNCHANGED <<disk, size, old, task, holders, registry, scan, late>>

Begin(f) ==
  /\ task[f] = "fetching"
  /\ disk' = disk \cup {Part(f)}
  /\ task' = [task EXCEPT ![f] = "writing"]
  /\ UNCHANGED <<size, old, hold, holders, registry, ledger, scan, late>>

Write(f) ==
  /\ task[f] = "writing" /\ size[f] < MaxDownload
  /\ Ensure(f, size[f] + 1)
  /\ size' = [size EXCEPT ![f] = @ + 1]
  /\ UNCHANGED <<disk, old, task, holders, registry, scan, late>>

Commit(f) ==
  /\ task[f] = "writing" /\ size[f] > 0
  /\ disk' = (disk \ {Part(f)}) \cup {Obj(f)}
  /\ Convert(f, Obj(f), size[f])
  /\ task' = [task EXCEPT ![f] = "committed"]
  /\ UNCHANGED <<size, old, holders, registry, scan, late>>

\* Failure or cancellation before the file is opened, or while it is.
AbortFetch(f) ==
  /\ task[f] = "fetching"
  /\ Release(f)
  /\ task' = [task EXCEPT ![f] = "done"]
  /\ late' \in {late, late \cup {<<"create", Part(f)>>}}
  /\ UNCHANGED <<disk, size, old, holders, registry, scan>>

\* PartialDownload dropped, and the partial or renamed file removed.
AbortWrite(f) ==
  /\ task[f] = "writing"
  /\ disk' = disk \ {Part(f)}
  /\ Release(f)
  /\ task' = [task EXCEPT ![f] = "done"]
  /\ UNCHANGED <<size, old, holders, registry, scan, late>>

\* It cannot be removed: the whole reservation stays charged to the file.
\* (What keeps a file from being removed also keeps it from being renamed.)
RetainFailedFile(f) ==
  /\ task[f] = "writing"
  /\ \E path \in {Part(f), Obj(f)} :
       /\ disk' = (disk \ {Part(f)}) \cup {path}
       /\ Convert(f, path, hold[f])
  /\ task' = [task EXCEPT ![f] = "done"]
  /\ UNCHANGED <<size, old, holders, registry, scan, late>>

\* Probing fails, or the format or duration is not accepted.
Reject(f) ==
  /\ task[f] = "committed"
  /\ task' = [task EXCEPT ![f] = "rejected"]
  /\ UNCHANGED <<disk, size, old, hold, holders, registry, ledger, scan, late>>

\* discard_object up to the permit; without one the object is left alone.
BeginDiscard(f) ==
  /\ task[f] = "rejected"
  /\ \/ /\ Obj(f) \in disk /\ BeginDeletion(Obj(f))
        /\ task' = [task EXCEPT ![f] = "removing"]
     \/ /\ Obj(f) \notin disk \/ registry[Obj(f)] # "none"
        /\ task' = [task EXCEPT ![f] = "done"]
        /\ UNCHANGED registry
  /\ UNCHANGED <<disk, size, old, hold, holders, ledger, scan, late>>

RemoveDiscarded(f) ==
  /\ task[f] = "removing" /\ Obj(f) \in disk
  /\ disk' = disk \ {Obj(f)} /\ Removed(Obj(f))
  /\ DropPermit(Obj(f)) /\ task' = [task EXCEPT ![f] = "done"]
  /\ UNCHANGED <<size, old, hold, holders, scan, late>>

\* The removal fails or is cancelled; a cancelled one may still happen.
AbortDiscard(f) ==
  /\ task[f] = "removing"
  /\ late' \in {late, late \cup {<<"remove", Obj(f)>>}}
  /\ DropPermit(Obj(f)) /\ task' = [task EXCEPT ![f] = "done"]
  /\ UNCHANGED <<disk, size, old, hold, holders, ledger, scan>>

\* Cancelled where there is nothing to undo: a committed object stays, charged.
CancelIngest(f) ==
  /\ task[f] \in {"new", "reclaiming", "retry", "committed", "checked", "rejected"}
  /\ scan.owner # f
  /\ task' = [task EXCEPT ![f] = "done"]
  /\ UNCHANGED <<disk, size, old, hold, holders, registry, ledger, scan, late>>

-----------------------------------------------------------------------------
(* The janitor: periodic, or on behalf of an ingest that found no room.    *)

StartScan(owner) ==
  /\ scan.owner = "none"
  /\ owner \in {"periodic"} \cup {f \in Files : task[f] = "reclaiming"}
  /\ scan' = [NoScan EXCEPT !.owner = owner, !.phase = "scan"]
  /\ UNCHANGED <<disk, size, old, task, hold, holders, registry, ledger, late>>

\* The entry turns out to be a candidate that plan_removals selects.
InspectEntry(path) ==
  /\ scan.phase = "scan" /\ path \in disk \ scan.todo /\ path[1] \in old
  /\ path[2] = "object" => registry[path] = "none"
  /\ scan' = [scan EXCEPT !.todo = @ \cup {path}]
  /\ UNCHANGED <<disk, size, old, task, hold, holders, registry, ledger, late>>

EndInspection ==
  /\ scan.phase = "scan"
  /\ scan' = [scan EXCEPT !.phase = "apply"]
  /\ UNCHANGED <<disk, size, old, task, hold, holders, registry, ledger, late>>

\* verify_unchanged.
VerifyUnchanged(path) ==
  /\ scan.phase = "apply" /\ path \in scan.todo
  /\ scan' = IF path \in disk
             THEN [scan EXCEPT !.phase = "verified", !.todo = @ \ {path}, !.at = {path}]
             ELSE [scan EXCEPT !.todo = @ \ {path}]
  /\ UNCHANGED <<disk, size, old, task, hold, holders, registry, ledger, late>>

TakePermit(path) ==
  /\ scan.phase = "verified" /\ scan.at = {path}
  /\ BeginDeletion(path)
  /\ scan' = [scan EXCEPT !.phase = "remove"]
  /\ UNCHANGED <<disk, size, old, task, hold, holders, ledger, late>>

ActivelyLeased(path) ==
  /\ scan.phase = "verified" /\ scan.at = {path} /\ registry[path] # "none"
  /\ scan' = [scan EXCEPT !.phase = "apply", !.at = {}]
  /\ UNCHANGED <<disk, size, old, task, hold, holders, registry, ledger, late>>

RemoveFile(path) ==
  /\ scan.phase = "remove" /\ scan.at = {path}
  /\ \/ path \in disk /\ disk' = disk \ {path} /\ Removed(path)
     \/ UNCHANGED <<disk, ledger>>
  /\ DropPermit(path)
  /\ scan' = [scan EXCEPT !.phase = "apply", !.at = {}]
  /\ UNCHANGED <<size, old, task, hold, holders, late>>

EndScan ==
  /\ scan.phase = "apply" /\ scan.todo = {}
  /\ scan' = NoScan
  /\ task' = [f \in Files |-> IF scan.owner = f THEN "retry" ELSE task[f]]
  /\ UNCHANGED <<disk, size, old, hold, holders, registry, ledger, late>>

\* The ingest that scans is cancelled: its permit is dropped and a removal
\* under way still happens, but nobody reports it to the ledger.
CancelScan(f) ==
  /\ scan.owner = f
  /\ scan' = NoScan
  /\ task' = [task EXCEPT ![f] = "done"]
  /\ IF scan.phase = "remove"
     THEN /\ registry' = [p \in Paths |-> IF p \in scan.at THEN "none" ELSE registry[p]]
          /\ late' = late \cup ({"remove"} \X scan.at)
     ELSE UNCHANGED <<registry, late>>
  /\ UNCHANGED <<disk, size, old, hold, holders, ledger>>

-----------------------------------------------------------------------------
(* The environment.                                                        *)

\* The operation of a cancelled caller takes effect.
CompleteLate(op) ==
  /\ op \in late /\ late' = late \ {op}
  /\ disk' = IF op[1] = "create" THEN disk \cup {op[2]} ELSE disk \ {op[2]}
  /\ UNCHANGED <<size, old, task, hold, holders, registry, ledger, scan>>

Age(f) ==
  /\ f \notin old /\ task[f] \in {"leased", "done"}
  /\ old' = old \cup {f}
  /\ UNCHANGED <<disk, size, task, hold, holders, registry, ledger, scan, late>>

\* A new process charges what it finds, and does not start above the quota.
Restart ==
  LET found == {[path |-> p, bytes |-> size[p[1]]] : p \in disk}
      total == Cardinality(EntryBytes(found))
  IN /\ total <= MaximumBytes /\ Cardinality(found) <= MaximumEntries
     /\ charged' = total /\ entries' = found /\ reservations' = 0
     /\ task' = [f \in Files |-> IF task[f] = "new" THEN "new" ELSE "done"]
     /\ hold' = [f \in Files |-> 0] /\ holders' = [f \in Files |-> {}]
     /\ registry' = [p \in Paths |-> "none"]
     /\ scan' = NoScan /\ late' = {}
     /\ UNCHANGED <<disk, size, old>>

-----------------------------------------------------------------------------
Init ==
  /\ disk = {} /\ size = [f \in Files |-> 0] /\ old = {}
  /\ task = [f \in Files |-> "new"] /\ hold = [f \in Files |-> 0]
  /\ holders = [f \in Files |-> {}] /\ registry = [p \in Paths |-> "none"]
  /\ charged = 0 /\ reservations = 0 /\ entries = {}
  /\ scan = NoScan /\ late = {}

Fetch(f) ==
  \/ \E bytes \in 1..MaxDownload : Reserve(f, bytes) \/ GrowReservation(f, bytes)
  \/ Begin(f) \/ Write(f) \/ Commit(f)
  \/ AbortFetch(f) \/ AbortWrite(f) \/ RetainFailedFile(f)

Ingest(f) ==
  \/ Reject(f) \/ InspectObject(f) \/ Acquire(f)
  \/ BeginDiscard(f) \/ RemoveDiscarded(f) \/ AbortDiscard(f)
  \/ CancelIngest(f) \/ CancelScan(f)

Playback(f) == Enqueue(f) \/ PlayerDrops(f) \/ BatchDropped(f) \/ DiscardTrack(f)

Janitor ==
  \/ \E owner \in Files \cup {"periodic"} : StartScan(owner)
  \/ \E path \in Paths :
       \/ InspectEntry(path) \/ VerifyUnchanged(path)
       \/ TakePermit(path) \/ ActivelyLeased(path) \/ RemoveFile(path)
  \/ EndInspection \/ EndScan

Next ==
  \/ \E f \in Files : Fetch(f) \/ Ingest(f) \/ Playback(f) \/ Age(f)
  \/ \E op \in late : CompleteLate(op)
  \/ Janitor
  \/ Restart

Spec == Init /\ [][Next]_vars

-----------------------------------------------------------------------------
(* Properties.                                                             *)

\* The hard quota: the bytes charged are those of the entries and of the
\* reservations under way, never more than the maximum, and every download
\* under way has a place kept for its entry; whatever fails, is cancelled or
\* restarted (capacity.rs; the media README's "hard admission quota").
QuotaIsHard ==
  /\ TypeOK
  /\ charged = Cardinality(EntryBytes(entries)) + Cardinality(HeldBytes)
  /\ charged <= MaximumBytes
  /\ reservations = Cardinality({f \in Files : hold[f] > 0})
  /\ Cardinality(entries) + reservations <= MaximumEntries

\* An object some track has a lease of is on the disk, whatever the janitor,
\* a discard or a late removal does (lease.rs, begin_deletion and acquire).
LeasedFileExists == \A f \in Files : holders[f] # {} => Obj(f) \in disk

\* "Bytes currently charged to safe files and in-flight reservations"
\* (lease.rs, charged_bytes): an entry has its file, unless a removal of it
\* is just being completed.
EntriesAreFiles ==
  \A e \in entries : e.path \in disk \/ <<"remove", e.path>> \in late
=============================================================================
