----------------------------- MODULE CommandBus -----------------------------
(***************************************************************************)
(* A dashboard command on its way to the player of one guild: admitted to  *)
(* the shard's stream together with a pending result, delivered at least   *)
(* once to the bot that owns the shard, executed under an idempotency      *)
(* lease, completed together with its result, and acknowledged.            *)
(*                                                                         *)
(* Valkey may fail at every call, before or after the call took effect;    *)
(* leases and records expire; the bot may stop and another take over the   *)
(* stream with a new player.  The player is reduced to what decides        *)
(* whether a command takes effect: the idempotency keys it remembers (none *)
(* is forgotten here) and its revision, of which it only matters which     *)
(* commands name the current one.                                          *)
(***************************************************************************)
EXTENDS Integers, Sequences

CONSTANTS Commands,    \* command_id: one transport attempt each
          Keys,        \* idempotency_key: one logical mutation each
          KeyOf,       \* [Commands -> Keys]: retries share the key
          BufferLimit, \* commands a dispatcher holds
          MaxEffects,  \* bound on the times a mutation takes effect
          MaxCrashes   \* bound on restarts of the bot

ASSUME BusAssumption ==
  /\ KeyOf \in [Commands -> Keys]
  /\ BufferLimit \in Nat \ {0}
  /\ {MaxEffects, MaxCrashes} \subseteq Nat

VARIABLES
  stream,   \* each command's entry: not there yet, undelivered, delivered, deleted
  result,   \* each command's CommandResult
  lease,    \* each key's record: held by the running task, or by one that is gone
  media,    \* the keys of enqueue_media commands; the others control the player
  late,     \* commands whose deadline has passed
  fresh,    \* commands that expect the player's current revision
  buffer,   \* delivered copies the dispatcher holds, the head in work
  task,     \* the guild's task: pc, and the outcome it is to record
  remembered, \* keys the player has applied a command of
  effects,  \* history: how often each mutation took effect
  lost,     \* history: keys of which an outcome was not recorded, or is no more
  crashes

records == <<stream, result, lease>>
player  == <<fresh, remembered, effects>>
vars    == <<stream, result, lease, media, late, buffer, task, fresh, remembered,
             effects, lost, crashes>>

Outcomes == {"applied", "rejected"}
Steps    == {"idle", "claim", "execute", "resolve", "complete", "release", "store", "ack"}

Idle     == [pc |-> "idle", outcome |-> "none"]

TypeOK ==
  /\ stream \in [Commands -> {"new", "queued", "pending", "gone"}]
  /\ result \in [Commands -> {"none", "pending"} \cup Outcomes]
  /\ lease \in [Keys -> {"free", "held", "orphan", "done"}]
  /\ media \subseteq Keys /\ late \subseteq Commands /\ fresh \subseteq Commands
  /\ buffer \in Seq(Commands) /\ Len(buffer) <= BufferLimit
  /\ task \in [pc : Steps, outcome : Outcomes \cup {"none"}]
  /\ remembered \subseteq Keys /\ lost \subseteq Keys
  /\ effects \in [Keys -> 0..MaxEffects]
  /\ crashes \in 0..MaxCrashes
  /\ task.pc # "idle" => buffer # <<>>
  /\ \A k \in Keys : lease[k] = "held" =>
       KeyOf[Head(buffer)] = k /\ task.pc \in {"execute", "resolve", "complete", "release"}

TerminalApplied(c) == result[c] = "applied"

\* CommandResult::is_terminal.
Terminal(c) == result[c] \in Outcomes

-----------------------------------------------------------------------------
(* Submission and delivery.                                                *)

\* One script: the pending result and the stream entry come together.
Submit(c) ==
  /\ stream[c] = "new"
  /\ stream' = [stream EXCEPT ![c] = "queued"]
  /\ result' = [result EXCEPT ![c] = "pending"]
  /\ fresh' \in {fresh, fresh \cup {c}}
  /\ UNCHANGED <<lease, media, late, buffer, task, remembered, effects, lost, crashes>>

\* The dispatcher is not full.  (It counts a batch of commands until all of them
\* are processed; here each gives its place back when it is done.)
HasRoom == Len(buffer) < BufferLimit

DeliverNew(c) ==
  /\ stream[c] = "queued"
  /\ HasRoom
  /\ stream' = [stream EXCEPT ![c] = "pending"]
  /\ buffer' = Append(buffer, c)
  /\ UNCHANGED <<result, lease, media, late, task, player, lost, crashes>>

\* XREADGROUP hands out a new entry; XAUTOCLAIM one that has been pending for
\* long, even one this dispatcher still holds.
Deliver(c) ==
  /\ stream[c] \in {"queued", "pending"}
  /\ HasRoom
  /\ stream' = [stream EXCEPT ![c] = "pending"]
  /\ buffer' = Append(buffer, c)
  /\ UNCHANGED <<result, lease, media, late, task, player, lost, crashes>>

-----------------------------------------------------------------------------
(* process_command, for the command at the head of the buffer.             *)

At(c, pc) == buffer # <<>> /\ Head(buffer) = c /\ task.pc = pc

Decide(outcome, pc) == task' = [pc |-> pc, outcome |-> outcome] /\ UNCHANGED buffer

Goto(pc) == Decide("none", pc)

\* Done with this delivery: the entry stays pending unless acknowledged.
Drop == task' = Idle /\ buffer' = Tail(buffer)

\* A lease whose task goes away without releasing it.
Orphaned == [k \in Keys |-> IF lease[k] = "held" THEN "orphan" ELSE lease[k]]

\* The result record, the deadline and the authorization decide: a command whose
\* record has expired, that is late or that is denied is rejected unclaimed.
Check(c) ==
  /\ At(c, "idle")
  /\ \/ Terminal(c) /\ Goto("ack")
     \/ ~Terminal(c) /\ Decide("rejected", "store")
     \/ ~Terminal(c) /\ result[c] # "none" /\ c \notin late /\ Goto("claim")
  /\ UNCHANGED <<records, media, late, player, lost, crashes>>

\* The record cannot be read, or the authorization be decided.
CheckFails(c) ==
  /\ At(c, "idle")
  /\ Drop
  /\ UNCHANGED <<records, media, late, player, lost, crashes>>

ClaimTaken(k) == lease[k] = "orphan"

Claim(c) ==
  LET k == KeyOf[c]
  IN /\ At(c, "claim")
     /\ \/ lease[k] = "done" /\ Decide("rejected", "store") /\ UNCHANGED lease
        \/ ClaimTaken(k) /\ Drop /\ UNCHANGED lease
        \/ lease[k] = "free" /\ Goto("execute") /\ lease' = [lease EXCEPT ![k] = "held"]
     /\ UNCHANGED <<stream, result, media, late, player, lost, crashes>>

ClaimFails(c) ==
  LET k == KeyOf[c]
  IN /\ At(c, "claim")
     /\ Drop
     /\ lease' \in {lease, [lease EXCEPT ![k] = IF @ = "free" THEN "orphan" ELSE @]}
     /\ UNCHANGED <<stream, result, media, late, player, lost, crashes>>

\* validate_against: what the player or the executor checks first.
Valid(c) == c \notin late /\ c \in fresh

\* The revision moves on.  It does not come back to what a command expects,
\* unless a new player, having started from an older snapshot, comes by it.
MoveOn == fresh' \in IF crashes = 0 THEN {{}} ELSE SUBSET {c \in Commands : stream[c] # "new"}

\* The mutation happens, and the revision moves on.
TakeEffect(c) ==
  /\ effects[KeyOf[c]] < MaxEffects
  /\ MoveOn
  /\ effects' = [effects EXCEPT ![KeyOf[c]] = @ + 1]

RememberNothing(c) == UNCHANGED remembered

Remember(c) == remembered' = remembered \cup {KeyOf[c]}

\* The player applies a command: once for each key it remembers.  A valid one
\* may still be rejected, or fail in a way that leaves it to be retried.
ApplyCommand(c) ==
  \/ /\ KeyOf[c] \in remembered
     /\ Decide("applied", "complete") /\ UNCHANGED player
  \/ /\ KeyOf[c] \notin remembered /\ Valid(c)
     /\ \/ TakeEffect(c) /\ Remember(c) /\ Decide("applied", "complete")
        \/ Goto("release") /\ UNCHANGED player
  \/ /\ KeyOf[c] \notin remembered
     /\ Decide("rejected", "complete") /\ UNCHANGED player

\* The executor of enqueue_media checks the command before it resolves it...
StartMedia(c) ==
  /\ \/ Valid(c) /\ Goto("resolve")
     \/ Decide("rejected", "complete")
     \/ Goto("release")
  /\ UNCHANGED player

Execute(c) ==
  /\ At(c, "execute")
  /\ IF KeyOf[c] \in media THEN StartMedia(c) ELSE ApplyCommand(c)
  /\ UNCHANGED <<records, media, late, lost, crashes>>

\* ... and its revision, but no more the deadline, once it is resolved.
Current(c) == c \in fresh

\* commit_batch: the batch is enqueued, or only the connection it needs made.
Commit(c) ==
  /\ At(c, "resolve")
  /\ \/ /\ Current(c)
        /\ TakeEffect(c) /\ Decide("applied", "complete") /\ UNCHANGED remembered
     \/ /\ Current(c)
        /\ MoveOn /\ UNCHANGED <<remembered, effects>>
        /\ Decide("rejected", "complete") \/ Goto("release")
     \/ /\ Decide("rejected", "complete") \/ Goto("release")
        /\ UNCHANGED player
  /\ UNCHANGED <<records, media, late, lost, crashes>>

\* COMPLETE_WITH_RESULT: result and key in one step, for the lease holder only.
Completed(c) ==
  /\ result' = [result EXCEPT ![c] = task.outcome]
  /\ lease' = [lease EXCEPT ![KeyOf[c]] = "done"]

Complete(c) ==
  /\ At(c, "complete")
  /\ IF lease[KeyOf[c]] = "held" /\ ~Terminal(c)
     THEN Completed(c) /\ Goto("ack") /\ UNCHANGED lost
     ELSE Drop /\ lost' = lost \cup {KeyOf[c]} /\ lease' = Orphaned /\ UNCHANGED result
  /\ UNCHANGED <<stream, media, late, player, crashes>>

CompleteFails(c) ==
  /\ At(c, "complete")
  /\ Drop
  /\ \/ lease[KeyOf[c]] = "held" /\ ~Terminal(c) /\ Completed(c) /\ UNCHANGED lost
     \/ lost' = lost \cup {KeyOf[c]} /\ lease' = Orphaned /\ UNCHANGED result
  /\ UNCHANGED <<stream, media, late, player, crashes>>

\* After a failure that left nothing applied; the call may fail as well.
Release(c) ==
  /\ At(c, "release")
  /\ Drop
  /\ lease' \in {Orphaned, [lease EXCEPT ![KeyOf[c]] = IF @ = "held" THEN "free" ELSE @]}
  /\ UNCHANGED <<stream, result, media, late, player, lost, crashes>>

\* STORE_TERMINAL replaces nothing but a pending or an absent result.
CanStore(c) == ~Terminal(c)

Store(c) ==
  /\ At(c, "store")
  /\ IF CanStore(c)
     THEN result' = [result EXCEPT ![c] = task.outcome] /\ Goto("ack")
     ELSE Drop /\ UNCHANGED result
  /\ UNCHANGED <<stream, lease, media, late, player, lost, crashes>>

StoreFailsAcked(c) ==
  /\ At(c, "store")
  /\ Goto("ack")
  /\ result' \in {result, [result EXCEPT ![c] = IF Terminal(c) THEN @ ELSE task.outcome]}
  /\ UNCHANGED <<stream, lease, media, late, player, lost, crashes>>

StoreFails(c) ==
  /\ At(c, "store")
  /\ Drop
  /\ result' \in {result, [result EXCEPT ![c] = IF Terminal(c) THEN @ ELSE task.outcome]}
  /\ UNCHANGED <<stream, lease, media, late, player, lost, crashes>>

Ack(c) ==
  /\ At(c, "ack")
  /\ Drop
  /\ stream' = [stream EXCEPT ![c] = "gone"]
  /\ UNCHANGED <<result, lease, media, late, player, lost, crashes>>

AckFails(c) ==
  /\ At(c, "ack")
  /\ Drop
  /\ stream' \in {stream, [stream EXCEPT ![c] = "gone"]}
  /\ UNCHANGED <<result, lease, media, late, player, lost, crashes>>

-----------------------------------------------------------------------------
(* Time, other changes, the bot.                                           *)

Deadline(c) ==
  /\ stream[c] # "new" /\ c \notin late
  /\ late' = late \cup {c}
  /\ UNCHANGED <<records, media, buffer, task, player, lost, crashes>>

LeaseExpires(k) ==
  /\ lease[k] \in {"held", "orphan"}
  /\ lease' = [lease EXCEPT ![k] = "free"]
  /\ UNCHANGED <<stream, result, media, late, buffer, task, player, lost, crashes>>

\* The records are kept for a day, far beyond every deadline of the key.
RecordExpires(c) ==
  /\ result[c] # "none" /\ task.pc = "idle"
  /\ \A d \in Commands : KeyOf[d] = KeyOf[c] => d \in late
  /\ result' = [result EXCEPT ![c] = "none"]
  /\ lease' = [lease EXCEPT ![KeyOf[c]] = "free"]
  /\ lost' = lost \cup {KeyOf[c]}
  /\ UNCHANGED <<stream, media, late, buffer, task, player, crashes>>

\* Discord commands and playback move the player on.
OtherChange ==
  /\ MoveOn
  /\ UNCHANGED <<records, media, late, buffer, task, remembered, effects, lost, crashes>>

\* The bot stops, its tasks are aborted, and its successor has a new player.
Restart ==
  /\ crashes < MaxCrashes
  /\ crashes' = crashes + 1
  /\ buffer' = <<>> /\ task' = Idle
  /\ lease' = Orphaned
  /\ lost' = lost \cup {KeyOf[c] : c \in {d \in Commands : At(d, "complete")}}
  /\ fresh' = {} /\ remembered' = {}
  /\ UNCHANGED <<stream, result, media, late, effects>>

Init ==
  /\ stream = [c \in Commands |-> "new"] /\ result = [c \in Commands |-> "none"]
  /\ lease = [k \in Keys |-> "free"] /\ media \in SUBSET Keys
  /\ late = {} /\ fresh = {} /\ remembered = {} /\ lost = {}
  /\ buffer = <<>> /\ task = Idle
  /\ effects = [k \in Keys |-> 0] /\ crashes = 0

Process(c) == Check(c) \/ Claim(c) \/ Execute(c) \/ Commit(c) \/ Complete(c)
              \/ Release(c) \/ Store(c) \/ Ack(c)

ProcessFails(c) == CheckFails(c) \/ ClaimFails(c) \/ CompleteFails(c)
                   \/ StoreFails(c) \/ AckFails(c)

Next ==
  \/ \E c \in Commands : \/ Submit(c) \/ Deliver(c) \/ Process(c) \/ ProcessFails(c)
                         \/ Deadline(c) \/ RecordExpires(c)
  \/ \E k \in Keys : LeaseExpires(k)
  \/ OtherChange \/ Restart

Spec == Init /\ [][Next]_vars

\* The dispatcher reads and claims, its task is polled, deadlines pass, and
\* from some time on no call to Valkey fails.
FairSpec ==
  /\ Spec
  /\ WF_vars(\E c \in Commands : Process(c))
  /\ \A c \in Commands : WF_vars(Deadline(c)) /\ SF_vars(Deliver(c))
  /\ <>[][~\E c \in Commands : ProcessFails(c)]_vars

-----------------------------------------------------------------------------
(* Properties.                                                             *)

\* A mutation takes effect at most once however often it is delivered, retried
\* or resubmitted under its key, as long as its outcome could be recorded.
\* Beyond that the player's memory protects the commands it applies itself
\* until it is gone, but not enqueue_media: a retry with a fresh revision
\* enqueues again.
AppliedOnce ==
  \A k \in Keys :
    effects[k] > 1 => k \in lost /\ (k \in media \/ crashes > 0)

\* A result once given is final until it expires: redelivery, a late deadline
\* or a lost lease never turns it into another one.
ResultsAreFinal ==
  [][\A c \in Commands : result[c] \in Outcomes => result'[c] \in {result[c], "none"}]_vars

\* A command leaves the stream only with its result recorded (or expired), so no
\* submitter waits for an answer that nobody is going to give.
AcknowledgedIsAnswered ==
  \A c \in Commands : stream[c] = "gone" => result[c] # "pending"

\* A mutation that took effect is reported as applied, once its task has
\* recorded the outcome: no rejection hides it, unless the outcome was lost.
EffectIsReported ==
  \A k \in Keys : effects[k] > 0 =>
    \/ k \in lost
    \/ \E c \in Commands : KeyOf[c] = k /\ (result[c] = "applied" \/ At(c, "complete"))

\* What is over is answered, and answered truly: nobody waits for a command that
\* has left the stream, and no effect is hidden by a rejection.
AnswersAreTrue == TypeOK /\ AcknowledgedIsAnswered /\ EffectIsReported

\* Every admitted command is answered, whatever fails on the way.
EventuallyAnswered ==
  \A c \in Commands : result[c] = "pending" ~> result[c] # "pending"

=============================================================================
