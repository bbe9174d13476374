-------------------------- MODULE SnapshotRegister --------------------------
(***************************************************************************)
(* What the player snapshot cache of one guild promises to its readers: a  *)
(* register of snapshots ordered by revision.  A write takes effect only   *)
(* when its revision is new; the body may be gone at any time, but the     *)
(* revision watermark is kept, so no revision ever names two snapshots.    *)
(***************************************************************************)
EXTENDS Integers

CONSTANTS Epochs,      \* incarnations of the guild's player actor
          MaxRevision, \* largest StateRevision (u64::MAX in the code)
          None         \* Option::None

VARIABLES body,      \* the cached snapshot, or None
          watermark  \* the newest revision stored, or Never

register == <<body, watermark>>

\* An actor publishes a revision once, so the pair identifies a snapshot.
Snapshots == [epoch : Epochs, rev : 0..MaxRevision]

Never == -1

TypeOK == /\ body \in Snapshots \cup {None}
          /\ watermark \in 0..MaxRevision \cup {Never}

\* put_snapshot_if_newer: an older or equal revision is Stale and ignored.
Put(s) == IF s.rev > watermark
          THEN body' = s /\ watermark' = s.rev
          ELSE UNCHANGED register

\* The TTL runs out, or the guild is gone and its snapshot is invalidated.
Expire == body' = None /\ UNCHANGED watermark

Init == body = None /\ watermark = Never

Next == (\E s \in Snapshots : Put(s)) \/ Expire

Spec == Init /\ [][Next]_register

=============================================================================
