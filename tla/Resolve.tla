-------------------------------- MODULE Resolve --------------------------------
(***************************************************************************)
(* From what a user asks for to leased tracks (ProductionMediaResolver):   *)
(* direct files and attachments, searches and single pages, and the        *)
(* batches of playlists and catalog collections, whose items are resolved  *)
(* and downloaded several at a time until the batch's deadline.            *)
(*                                                                         *)
(* The managed files and their leases are in ManagedMedia; here a track is *)
(* a lease from the moment it is registered with its batch.  What the site *)
(* tools, the catalogs and the ingest answer is any of their outcomes.     *)
(***************************************************************************)
EXTENDS Integers, FiniteSets, Sequences, Sorting

CONSTANTS
  Calls,
  MaxEntries,     \* bound on the entries of a collection
  Lengths(_),     \* how many usable entries the collection of a call may have
  Concurrency,    \* SITE_BATCH_CONCURRENCY
  Admission,      \* permits of site_admission
  Batches         \* permits of site_batches

VARIABLES
  call,       \* per call of resolve_input, how far it is
  items,      \* per call and entry, where its future is
  completed,  \* per call, CompletedTracks in the order of registration
  leased,     \* the tracks whose lease is held
  admission, batches  \* the permits left

vars == <<call, items, completed, leased, admission, batches>>

Entries == 1..MaxEntries

Idle == [pc |-> "idle", kind |-> "none", entries |-> 0, found |-> 0, fatal |-> "none",
         skip |-> "none", skipped |-> 0, tracks |-> <<>>]

Soft  == {"NoSearchMatch", "UnsupportedStream", "TrackLimitExceeded"}
Batched == {"site", "catalog"}

TypeOK ==
  /\ \A c \in Calls :
       /\ call[c].pc \in {"idle", "discover", "run", "failed", "resolved"}
       /\ call[c].kind \in {"none", "direct", "single", "site", "catalog"}
       /\ call[c].entries \in 0..MaxEntries
  /\ items \in [Calls -> [Entries -> {"pending", "admission", "site", "ingest", "ended"}]]
  /\ leased \subseteq Calls \X Entries
  /\ admission \in 0..Admission /\ batches \in 0..Batches

-----------------------------------------------------------------------------
(* Errors.                                                                 *)

\* map_site_error over what the extractor fails with.
MapSiteError(e) ==
  CASE e \in {"PlaylistTooLarge", "UnsupportedStream", "NoSearchMatch"} -> e
    [] e = "DurationLimit" -> "TrackLimitExceeded"
    [] e = "InvalidUrl"    -> "UnsupportedUrl"
    [] OTHER               -> "Failed"

\* map_ingest and the checks of the probed file, for a file of this kind.
MapIngest(e, kind) ==
  CASE e = "TooLarge" -> "TrackLimitExceeded"
    [] e = "Quota"    -> "CapacityExceeded"
    [] e = "NoAudio"  -> IF kind = "direct" THEN "UnsupportedAttachment" ELSE "UnsupportedStream"
    [] OTHER          -> "Failed"

SiteErrors   == {"UnsupportedStream", "NoSearchMatch", "DurationLimit", "Process"}
IngestErrors == {"TooLarge", "Quota", "NoAudio", "Transport"}

-----------------------------------------------------------------------------
(* The tail of a call.                                                     *)

InFlight(c) == {i \in Entries : items[c][i] \in {"admission", "site", "ingest"}}
Permitted(c) == {i \in Entries : items[c][i] \in {"site", "ingest"} /\ call[c].kind # "direct"}

\* The permits a call still holds come back with its future, its tracks are discarded.
Drop(c, error) ==
  /\ call' = [call EXCEPT ![c] = [Idle EXCEPT !.pc = "failed", !.fatal = error]]
  /\ items' = [items EXCEPT ![c] = [i \in Entries |-> "pending"]]
  /\ completed' = [completed EXCEPT ![c] = <<>>]
  /\ leased' = {t \in leased : t[1] # c}
  /\ admission' = admission + Cardinality(Permitted(c))
  /\ batches' = batches + (IF call[c].kind = "direct" THEN 0 ELSE 1)

\* take_ordered: drained, and sorted by the items' indices.
TakeOrdered(c) ==
  LET drained == completed[c]
      Before(j, k) == drained[j] < drained[k] \/ (drained[j] = drained[k] /\ j < k)
  IN [n \in DOMAIN drained |-> drained[Sorted(DOMAIN drained, Before)[n]]]

\* The batch's outcome once nothing is in flight: an error, or all it found.
Outcome(c) ==
  IF call[c].fatal # "none" THEN Drop(c, call[c].fatal)
  ELSE IF completed[c] = <<>> THEN Drop(c, call[c].skip)
  ELSE /\ call' = [call EXCEPT ![c].pc = "resolved", ![c].tracks = TakeOrdered(c)]
       /\ completed' = [completed EXCEPT ![c] = <<>>]
       /\ items' = [items EXCEPT ![c] = [i \in Entries |-> "pending"]]
       /\ batches' = batches + (IF call[c].kind = "direct" THEN 0 ELSE 1)
       /\ UNCHANGED <<leased, admission>>

-----------------------------------------------------------------------------
(* Admission and discovery.                                                *)

\* resolve_input: what is not a URL is a query, catalog hosts come before sites.
Begin(c, kind) ==
  /\ call[c].pc = "idle"
  /\ IF kind = "direct"
     THEN /\ call' = [call EXCEPT ![c] = [Idle EXCEPT !.pc = "run", !.kind = kind, !.entries = 1,
                                                      !.found = 1]]
          /\ items' = [items EXCEPT ![c][1] = "ingest"]
          /\ UNCHANGED batches
     ELSE IF batches = 0
     THEN /\ call' = [call EXCEPT ![c] = [Idle EXCEPT !.pc = "failed", !.fatal = "Busy"]]
          /\ UNCHANGED <<items, batches>>
     ELSE /\ batches' = batches - 1
          /\ call' = [call EXCEPT ![c] =
               [Idle EXCEPT !.kind = kind, !.pc = IF kind = "single" THEN "run" ELSE "discover",
                            !.entries = IF kind = "single" THEN 1 ELSE 0,
                            !.found = IF kind = "single" THEN 1 ELSE 0]]
          /\ items' = IF kind = "single" THEN [items EXCEPT ![c][1] = "admission"] ELSE items
  /\ UNCHANGED <<completed, leased, admission>>

\* discover_url or the catalog: entries and how many were skipped, or an error;
\* the first futures of run_until_error start.
Discover(c) ==
  /\ call[c].pc = "discover"
  /\ \/ \E n \in Lengths(c), unusable \in 0..1 :
          /\ call' = [call EXCEPT ![c].pc = "run", ![c].entries = n, ![c].found = n + unusable,
                                  ![c].skipped = unusable]
          /\ items' = [items EXCEPT ![c] =
               [i \in Entries |-> IF i <= n /\ i <= Concurrency THEN "admission" ELSE "pending"]]
          /\ UNCHANGED <<completed, leased, admission, batches>>
     \/ \E e \in SiteErrors \cup {"PlaylistTooLarge", "InvalidUrl"} : Drop(c, MapSiteError(e))
     \/ call[c].kind = "catalog" /\ Drop(c, "CapacityExceeded")   \* no room in the queue

-----------------------------------------------------------------------------
(* Items.                                                                  *)

\* acquire_until.
Admit(c, i) ==
  /\ items[c][i] = "admission" /\ admission > 0
  /\ items' = [items EXCEPT ![c][i] = "site"]
  /\ admission' = admission - 1
  /\ UNCHANGED <<call, completed, leased, batches>>

\* An item ends, its permit comes back, and the next one starts unless an item
\* has failed the batch.
Ended(c, i, fatal) ==
  LET waiting == {j \in 1..call[c].entries : items[c][j] = "pending"}
  IN /\ items' = [items EXCEPT ![c] = [j \in Entries |->
          IF j = i THEN "ended"
          ELSE IF fatal = "none" /\ j \in waiting /\ \A k \in waiting : j <= k THEN "admission"
          ELSE items[c][j]]]
     /\ admission' = admission + (IF i \in Permitted(c) THEN 1 ELSE 0)
     /\ UNCHANGED batches

\* classify_item over an error; run_until_error keeps the first of each class.
FailedItem(c, i, error) ==
  LET soft == error \in Soft
  IN /\ call' = IF soft
                THEN [call EXCEPT ![c].skipped = @ + 1,
                                  ![c].skip = IF @ = "none" THEN error ELSE @]
                ELSE [call EXCEPT ![c].fatal = IF @ = "none" THEN error ELSE @]
     /\ Ended(c, i, call'[c].fatal)
     /\ UNCHANGED <<completed, leased>>

\* A query, a page or an attachment has no batch: its error is the call's.
Failing(c, i, error) ==
  IF call[c].kind \in Batched THEN FailedItem(c, i, error) ELSE Drop(c, error)

\* The extractor resolves the item to a direct stream; its metadata is checked.
Site(c, i) ==
  /\ items[c][i] = "site"
  /\ \/ /\ items' = [items EXCEPT ![c][i] = "ingest"]
        /\ UNCHANGED <<call, completed, leased, admission, batches>>
     \/ \E e \in SiteErrors : Failing(c, i, MapSiteError(e))

\* ingest: downloaded, probed, within the limits, leased and registered.
Ingest(c, i) ==
  /\ items[c][i] = "ingest"
  /\ \/ /\ completed' = [completed EXCEPT ![c] = Append(@, i)]
        /\ leased' = leased \cup {<<c, i>>}
        /\ Ended(c, i, call[c].fatal)
        /\ UNCHANGED call
     \/ \E e \in IngestErrors : Failing(c, i, MapIngest(e, call[c].kind))

\* Nothing is in flight any more.
Conclude(c) ==
  /\ call[c].pc = "run" /\ InFlight(c) = {}
  /\ Outcome(c)

\* SITE_BATCH_ADMISSION_WINDOW is over.
Deadline(c) ==
  /\ call[c].pc \in {"discover", "run"} /\ call[c].kind # "direct"
  /\ Drop(c, "TimedOut")

\* The caller is gone: the tracks' leases go with the future.
Cancel(c) ==
  /\ call[c].pc \in {"discover", "run"}
  /\ Drop(c, "cancelled")

\* The batch is the caller's from here on: queued, or discarded.
Return(c) ==
  /\ call[c].pc \in {"failed", "resolved"}
  /\ call' = [call EXCEPT ![c] = Idle]
  /\ leased' = {t \in leased : t[1] # c}
  /\ UNCHANGED <<items, completed, admission, batches>>

Init ==
  /\ call = [c \in Calls |-> Idle]
  /\ items = [c \in Calls |-> [i \in Entries |-> "pending"]]
  /\ completed = [c \in Calls |-> <<>>]
  /\ leased = {}
  /\ admission = Admission /\ batches = Batches

Next ==
  \E c \in Calls :
    \/ \E kind \in {"direct", "single", "site", "catalog"} : Begin(c, kind)
    \/ Discover(c) \/ Conclude(c) \/ Deadline(c) \/ Cancel(c) \/ Return(c)
    \/ \E i \in Entries : Admit(c, i) \/ Site(c, i) \/ Ingest(c, i)

Spec == Init /\ [][Next]_vars

-----------------------------------------------------------------------------
\* A batch is what the user asked for: its tracks come in the source's order
\* whatever order the downloads end in, each item found is a track or counted as
\* skipped, every track is leased, and a call that failed, timed out or was
\* dropped keeps no lease and no permit (resolve_site, resolve_catalog).
BatchIsComplete ==
  /\ \A c \in Calls : call[c].pc = "resolved" =>
       LET tracks == call[c].tracks
       IN /\ \A k \in 1..(Len(tracks) - 1) : tracks[k] < tracks[k + 1]
          /\ tracks # <<>> /\ \A k \in DOMAIN tracks : <<c, tracks[k]>> \in leased
          /\ Len(tracks) + call[c].skipped = call[c].found
  /\ \A c \in Calls : call[c].pc \in {"idle", "failed"} => \A t \in leased : t[1] # c
  /\ \A c \in Calls : call[c].pc = "failed" => call[c].fatal # "none"

===============================================================================
