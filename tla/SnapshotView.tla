----------------------------- MODULE SnapshotView -----------------------------
(***************************************************************************)
(* What the page promises of a guild's player: it shows stored revisions,  *)
(* only ever newer ones, and may miss some of them.  Before anything is    *)
(* stored the API answers with the initial snapshot, revision 0.           *)
(***************************************************************************)
EXTENDS Integers

VARIABLES stored, \* the newest revision stored, or Never
          shown   \* the revision on the page, or Never

view == <<stored, shown>>

Never == -1

Newest == IF stored = Never THEN 0 ELSE stored

Init == stored = Never /\ shown = Never

Store == stored' > stored /\ UNCHANGED shown

Show == shown' \in (shown + 1)..Newest /\ UNCHANGED stored

Next == Store \/ Show

Spec == Init /\ [][Next]_view

=============================================================================
