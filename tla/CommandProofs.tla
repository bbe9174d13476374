---------------------------- MODULE CommandProofs ----------------------------
(***************************************************************************)
(* Theorems about CommandBus, for every set of commands and keys, every    *)
(* size of the dispatcher and any number of restarts: that a mutation      *)
(* takes effect once, that what is over is answered truly, and that an     *)
(* answer is final.                                                        *)
(***************************************************************************)
EXTENDS CommandBus, SequenceTheorems, TLAPS

-----------------------------------------------------------------------------
(* The inductive invariant, in named parts.                                *)

Working == task.pc \in {"execute", "resolve", "complete", "release"}

\* A command that is not in the stream yet has no result, and what a dispatcher
\* holds has been in the stream.
Submitted ==
  /\ \A c \in Commands : stream[c] = "new" => result[c] = "none"
  /\ \A i \in 1..Len(buffer) : stream[buffer[i]] # "new"

\* The outcome the task carries: a store rejects, a completion is either; and
\* only media are resolved.
Carried ==
  /\ task.pc = "store" => task.outcome = "rejected"
  /\ task.pc = "complete" => task.outcome \in Outcomes
  /\ task.pc = "resolve" => KeyOf[Head(buffer)] \in media

\* Whoever is about to be acknowledged is answered already.
AnsweredFirst == \A c \in Commands : At(c, "ack") => result[c] # "pending"

\* An effect is on record as applied, or is about to be.
EffectIsKept ==
  \A k \in Keys : effects[k] > 0 =>
    \/ k \in lost
    \/ \E c \in Commands : /\ KeyOf[c] = k
                           /\ result[c] = "applied"
                              \/ (At(c, "complete") /\ task.outcome = "applied")

\* A result on record guards its key: nobody claims it again.
RecordGuards ==
  \A c \in Commands : result[c] = "applied" => KeyOf[c] \in lost \/ lease[KeyOf[c]] = "done"

\* Nobody works under a key that is done.
WorksUnclaimed == Working => lease[KeyOf[Head(buffer)]] # "done"

\* The player remembers what it has applied, until it is replaced.
EffectIsRemembered ==
  \A k \in Keys : effects[k] > 0 /\ crashes = 0 /\ k \notin media => k \in remembered

Inv ==
  /\ TypeOK /\ Submitted /\ Carried /\ AnsweredFirst /\ AcknowledgedIsAnswered
  /\ EffectIsKept /\ RecordGuards /\ WorksUnclaimed /\ EffectIsRemembered /\ AppliedOnce

-----------------------------------------------------------------------------
(* Facts used in several places.                                           *)

\* The bounds are naturals, and every command has a key.
LEMMA Facts ==
  /\ BufferLimit \in Nat /\ BufferLimit > 0 /\ MaxEffects \in Nat /\ MaxCrashes \in Nat
  /\ \A c \in Commands : KeyOf[c] \in Keys
  BY BusAssumption

LEMMA TailFacts ==
  ASSUME NEW S, NEW s \in Seq(S), s # <<>>
  PROVE  /\ Head(s) \in S /\ Tail(s) \in Seq(S) /\ Len(Tail(s)) = Len(s) - 1 /\ Len(s) \in Nat
         /\ Head(s) = s[1] /\ 1 \in 1..Len(s)
         /\ \A i \in 1..Len(Tail(s)) : Tail(s)[i] = s[i + 1] /\ i + 1 \in 1..Len(s)
<1>1. Head(s) \in S /\ Tail(s) \in Seq(S) /\ Len(Tail(s)) = Len(s) - 1 /\ Len(s) \in Nat \ {0}
  OBVIOUS
<1>2. \A i \in 1..Len(Tail(s)) : Tail(s)[i] = s[i + 1]
  OBVIOUS
<1> QED
  BY <1>1, <1>2

LEMMA AppendFacts ==
  ASSUME NEW S, NEW s \in Seq(S), NEW x \in S
  PROVE  /\ Append(s, x) \in Seq(S) /\ Append(s, x) # <<>>
         /\ Len(Append(s, x)) = Len(s) + 1 /\ Len(s) \in Nat
         /\ \A i \in 1..Len(s) : Append(s, x)[i] = s[i]
         /\ Append(s, x)[Len(s) + 1] = x
         /\ s # <<>> => Head(Append(s, x)) = Head(s)
<1>1. /\ Append(s, x) \in Seq(S) /\ Len(Append(s, x)) = Len(s) + 1 /\ Len(s) \in Nat
      /\ \A i \in 1..Len(s) : Append(s, x)[i] = s[i]
      /\ Append(s, x)[Len(s) + 1] = x
  OBVIOUS
<1>2. Append(s, x) # <<>>
  BY <1>1
<1>3. s # <<>> => Head(Append(s, x)) = Head(s)
  BY <1>1
<1> QED
  BY <1>1, <1>2, <1>3

\* The invariant holds initially: the stream is empty.
LEMMA Initially == Init => Inv
<1> SUFFICES ASSUME Init PROVE Inv
  OBVIOUS
<1> USE Facts DEF Init
<1>1. TypeOK
  BY DEF TypeOK, Idle, Steps
<1>2. Submitted /\ Carried
  BY DEF Submitted, Carried, Idle
<1>3. AnsweredFirst /\ AcknowledgedIsAnswered
  BY DEF AnsweredFirst, AcknowledgedIsAnswered, At
<1>4. EffectIsKept /\ EffectIsRemembered /\ AppliedOnce
  BY DEF EffectIsKept, EffectIsRemembered, AppliedOnce
<1>5. RecordGuards /\ WorksUnclaimed
  BY DEF RecordGuards, WorksUnclaimed, Working, Idle
<1> QED
  BY <1>1, <1>2, <1>3, <1>4, <1>5 DEF Inv

-----------------------------------------------------------------------------
(* One lemma for each action: it preserves the invariant.                  *)

LEMMA SubmitPreserves == ASSUME Inv, NEW c \in Commands, Submit(c) PROVE  Inv'
<1> USE Facts DEF Submit, At, Decide, Goto, Drop, Idle, Terminal, records, player
<1>1. TypeOK'
  BY DEF Inv, TypeOK
<1>2. Submitted'
  BY DEF Inv, TypeOK, Submitted
<1>3. Carried'
  BY DEF Inv, Carried
<1>4. AnsweredFirst'
  BY DEF Inv, Submitted, AnsweredFirst
<1>5. AcknowledgedIsAnswered'
  BY DEF Inv, AcknowledgedIsAnswered
<1>6. EffectIsKept'
  BY DEF Inv, Submitted, EffectIsKept
<1>7. RecordGuards'
  BY DEF Inv, RecordGuards
<1>8. WorksUnclaimed'
  BY DEF Inv, WorksUnclaimed, Working
<1>9. EffectIsRemembered'
  BY DEF Inv, EffectIsRemembered
<1>10. AppliedOnce'
  BY DEF Inv, AppliedOnce
<1> QED
  BY <1>1, <1>2, <1>3, <1>4, <1>5, <1>6, <1>7, <1>8, <1>9, <1>10 DEF Inv

LEMMA DeliverPreserves == ASSUME Inv, NEW c \in Commands, Deliver(c) PROVE  Inv'
<1> USE Facts DEF Deliver, HasRoom, At, Decide, Goto, Drop, Idle, Terminal, records, player
<1>a. /\ buffer' = Append(buffer, c) /\ buffer \in Seq(Commands) /\ buffer' \in Seq(Commands)
      /\ buffer' # <<>> /\ Len(buffer) \in Nat /\ Len(buffer') = Len(buffer) + 1
      /\ Len(buffer) < BufferLimit
      /\ buffer # <<>> => Head(buffer') = Head(buffer)
  <2>1. buffer \in Seq(Commands)
    BY DEF Inv, TypeOK
  <2>2. buffer' = Append(buffer, c) /\ Len(buffer) < BufferLimit
    OBVIOUS
  <2> QED
    BY <2>1, <2>2, AppendFacts
<1>1. TypeOK'
  <2>1. stream' \in [Commands -> {"new", "queued", "pending", "gone"}]
    BY DEF Inv, TypeOK
  <2>2. Len(buffer') <= BufferLimit
    BY <1>a
  <2>3. task' = task /\ lease' = lease /\ (task.pc # "idle" => buffer # <<>>)
    BY DEF Inv, TypeOK
  <2>4. \A k \in Keys : lease'[k] = "held" => task.pc # "idle" /\ KeyOf[Head(buffer)] = k
    BY DEF Inv, TypeOK
  <2> QED
    BY <1>a, <2>1, <2>2, <2>3, <2>4 DEF Inv, TypeOK
<1>2. Submitted'
  BY DEF Inv, Submitted
<1>3. Carried'
  BY DEF Inv, TypeOK, Carried
<1>4. AnsweredFirst'
  BY DEF Inv, TypeOK, AnsweredFirst
<1>5. AcknowledgedIsAnswered'
  BY DEF Inv, AcknowledgedIsAnswered
<1>6. EffectIsKept'
  <2>1. \A d \in Commands : At(d, "complete") => At(d, "complete")'
    BY <1>a
  <2>2. UNCHANGED <<effects, lost, result, task>>
    OBVIOUS
  <2> QED
    BY <2>1, <2>2 DEF Inv, EffectIsKept
<1>7. RecordGuards'
  BY DEF Inv, RecordGuards
<1>8. WorksUnclaimed'
  BY DEF Inv, TypeOK, WorksUnclaimed, Working
<1>9. EffectIsRemembered'
  BY DEF Inv, EffectIsRemembered
<1>10. AppliedOnce'
  BY DEF Inv, AppliedOnce
<1> QED
  BY <1>1, <1>2, <1>3, <1>4, <1>5, <1>6, <1>7, <1>8, <1>9, <1>10 DEF Inv

LEMMA CheckFailsPreserves == ASSUME Inv, NEW c \in Commands, CheckFails(c) PROVE  Inv'
<1> USE Facts DEF CheckFails, At, Decide, Goto, Drop, Idle, Terminal, records, player
<1>h. /\ c \in Commands /\ KeyOf[c] \in Keys /\ buffer # <<>> /\ Head(buffer) = c
      /\ 1 \in 1..Len(buffer) /\ buffer[1] = c
  <2>1. buffer \in Seq(Commands)
    BY DEF Inv, TypeOK
  <2> QED
    BY <2>1, TailFacts
<1>q. buffer' = Tail(buffer) /\ buffer' \in Seq(Commands) /\ Len(buffer') <= BufferLimit
  <2>1. buffer \in Seq(Commands) /\ Len(buffer) <= BufferLimit
    BY DEF Inv, TypeOK
  <2> QED
    BY <1>h, <2>1, TailFacts
<1>1. TypeOK'
  BY <1>h, <1>q DEF Inv, TypeOK
<1>2. Submitted'
  BY <1>h, <1>q DEF Inv, Submitted
<1>3. Carried'
  BY <1>h, <1>q DEF Inv, Carried
<1>4. AnsweredFirst'
  BY <1>h, <1>q DEF Inv, AnsweredFirst
<1>5. AcknowledgedIsAnswered'
  BY <1>h, <1>q DEF Inv, AcknowledgedIsAnswered
<1>6. EffectIsKept'
  BY <1>h, <1>q DEF Inv, EffectIsKept
<1>7. RecordGuards'
  BY <1>h, <1>q DEF Inv, RecordGuards
<1>8. WorksUnclaimed'
  BY <1>h, <1>q DEF Inv, WorksUnclaimed, Working
<1>9. EffectIsRemembered'
  BY <1>h, <1>q DEF Inv, EffectIsRemembered
<1>10. AppliedOnce'
  BY <1>h, <1>q DEF Inv, AppliedOnce
<1> QED
  BY <1>1, <1>2, <1>3, <1>4, <1>5, <1>6, <1>7, <1>8, <1>9, <1>10 DEF Inv

LEMMA ClaimFailsPreserves == ASSUME Inv, NEW c \in Commands, ClaimFails(c) PROVE  Inv'
<1> USE Facts DEF ClaimFails, At, Decide, Goto, Drop, Idle, Terminal, records, player
<1>h. /\ c \in Commands /\ KeyOf[c] \in Keys /\ buffer # <<>> /\ Head(buffer) = c
      /\ 1 \in 1..Len(buffer) /\ buffer[1] = c
  <2>1. buffer \in Seq(Commands)
    BY DEF Inv, TypeOK
  <2> QED
    BY <2>1, TailFacts
<1>q. buffer' = Tail(buffer) /\ buffer' \in Seq(Commands) /\ Len(buffer') <= BufferLimit
  <2>1. buffer \in Seq(Commands) /\ Len(buffer) <= BufferLimit
    BY DEF Inv, TypeOK
  <2> QED
    BY <1>h, <2>1, TailFacts
<1>1. TypeOK'
  BY <1>h, <1>q DEF Inv, TypeOK, Steps, Outcomes
<1>2. Submitted'
  BY <1>h, <1>q DEF Inv, Submitted
<1>3. Carried'
  BY <1>h, <1>q DEF Inv, Carried
<1>4. AnsweredFirst'
  BY <1>h, <1>q DEF Inv, AnsweredFirst
<1>5. AcknowledgedIsAnswered'
  BY <1>h, <1>q DEF Inv, AcknowledgedIsAnswered
<1>6. EffectIsKept'
  BY <1>h, <1>q DEF Inv, EffectIsKept
<1>7. RecordGuards'
  BY <1>h, <1>q DEF Inv, TypeOK, RecordGuards
<1>8. WorksUnclaimed'
  BY <1>h, <1>q DEF Inv, WorksUnclaimed, Working
<1>9. EffectIsRemembered'
  BY <1>h, <1>q DEF Inv, EffectIsRemembered
<1>10. AppliedOnce'
  BY <1>h, <1>q DEF Inv, AppliedOnce
<1> QED
  BY <1>1, <1>2, <1>3, <1>4, <1>5, <1>6, <1>7, <1>8, <1>9, <1>10 DEF Inv

LEMMA AckPreserves == ASSUME Inv, NEW c \in Commands, Ack(c) PROVE  Inv'
<1> USE Facts DEF Ack, At, Decide, Goto, Drop, Idle, Terminal, records, player
<1>h. /\ c \in Commands /\ KeyOf[c] \in Keys /\ buffer # <<>> /\ Head(buffer) = c
      /\ 1 \in 1..Len(buffer) /\ buffer[1] = c
  <2>1. buffer \in Seq(Commands)
    BY DEF Inv, TypeOK
  <2> QED
    BY <2>1, TailFacts
<1>q. buffer' = Tail(buffer) /\ buffer' \in Seq(Commands) /\ Len(buffer') <= BufferLimit
  <2>1. buffer \in Seq(Commands) /\ Len(buffer) <= BufferLimit
    BY DEF Inv, TypeOK
  <2> QED
    BY <1>h, <2>1, TailFacts
<1>1. TypeOK'
  BY <1>h, <1>q DEF Inv, TypeOK, Steps, Outcomes
<1>2. Submitted'
  BY <1>h, <1>q DEF Inv, Submitted
<1>3. Carried'
  BY <1>h, <1>q DEF Inv, Carried
<1>4. AnsweredFirst'
  BY <1>h, <1>q DEF Inv, AnsweredFirst
<1>5. AcknowledgedIsAnswered'
  BY <1>h, <1>q DEF Inv, AnsweredFirst, AcknowledgedIsAnswered
<1>6. EffectIsKept'
  BY <1>h, <1>q DEF Inv, EffectIsKept
<1>7. RecordGuards'
  BY <1>h, <1>q DEF Inv, RecordGuards
<1>8. WorksUnclaimed'
  BY <1>h, <1>q DEF Inv, WorksUnclaimed, Working
<1>9. EffectIsRemembered'
  BY <1>h, <1>q DEF Inv, EffectIsRemembered
<1>10. AppliedOnce'
  BY <1>h, <1>q DEF Inv, AppliedOnce
<1> QED
  BY <1>1, <1>2, <1>3, <1>4, <1>5, <1>6, <1>7, <1>8, <1>9, <1>10 DEF Inv

LEMMA AckFailsPreserves == ASSUME Inv, NEW c \in Commands, AckFails(c) PROVE  Inv'
<1> USE Facts DEF AckFails, At, Decide, Goto, Drop, Idle, Terminal, records, player
<1>h. /\ c \in Commands /\ KeyOf[c] \in Keys /\ buffer # <<>> /\ Head(buffer) = c
      /\ 1 \in 1..Len(buffer) /\ buffer[1] = c
  <2>1. buffer \in Seq(Commands)
    BY DEF Inv, TypeOK
  <2> QED
    BY <2>1, TailFacts
<1>q. buffer' = Tail(buffer) /\ buffer' \in Seq(Commands) /\ Len(buffer') <= BufferLimit
  <2>1. buffer \in Seq(Commands) /\ Len(buffer) <= BufferLimit
    BY DEF Inv, TypeOK
  <2> QED
    BY <1>h, <2>1, TailFacts
<1>1. TypeOK'
  BY <1>h, <1>q DEF Inv, TypeOK, Steps, Outcomes
<1>2. Submitted'
  BY <1>h, <1>q DEF Inv, TypeOK, Submitted
<1>3. Carried'
  BY <1>h, <1>q DEF Inv, Carried
<1>4. AnsweredFirst'
  BY <1>h, <1>q DEF Inv, AnsweredFirst
<1>5. AcknowledgedIsAnswered'
  BY <1>h, <1>q DEF Inv, TypeOK, AnsweredFirst, AcknowledgedIsAnswered
<1>6. EffectIsKept'
  BY <1>h, <1>q DEF Inv, EffectIsKept
<1>7. RecordGuards'
  BY <1>h, <1>q DEF Inv, RecordGuards
<1>8. WorksUnclaimed'
  BY <1>h, <1>q DEF Inv, WorksUnclaimed, Working
<1>9. EffectIsRemembered'
  BY <1>h, <1>q DEF Inv, EffectIsRemembered
<1>10. AppliedOnce'
  BY <1>h, <1>q DEF Inv, AppliedOnce
<1> QED
  BY <1>1, <1>2, <1>3, <1>4, <1>5, <1>6, <1>7, <1>8, <1>9, <1>10 DEF Inv

LEMMA DeadlinePreserves == ASSUME Inv, NEW c \in Commands, Deadline(c) PROVE  Inv'
<1> USE Facts DEF Deadline, At, Decide, Goto, Drop, Idle, Terminal, records, player
<1>1. TypeOK'
  BY DEF Inv, TypeOK
<1>2. Submitted'
  BY DEF Inv, Submitted
<1>3. Carried'
  BY DEF Inv, Carried
<1>4. AnsweredFirst'
  BY DEF Inv, AnsweredFirst
<1>5. AcknowledgedIsAnswered'
  BY DEF Inv, AcknowledgedIsAnswered
<1>6. EffectIsKept'
  BY DEF Inv, EffectIsKept
<1>7. RecordGuards'
  BY DEF Inv, RecordGuards
<1>8. WorksUnclaimed'
  BY DEF Inv, WorksUnclaimed, Working
<1>9. EffectIsRemembered'
  BY DEF Inv, EffectIsRemembered
<1>10. AppliedOnce'
  BY DEF Inv, AppliedOnce
<1> QED
  BY <1>1, <1>2, <1>3, <1>4, <1>5, <1>6, <1>7, <1>8, <1>9, <1>10 DEF Inv

LEMMA RecordExpiresPreserves == ASSUME Inv, NEW c \in Commands, RecordExpires(c) PROVE  Inv'
<1> USE Facts DEF RecordExpires, At, Decide, Goto, Drop, Idle, Terminal, records, player
<1>1. TypeOK'
  BY DEF Inv, TypeOK
<1>2. Submitted'
  BY DEF Inv, Submitted
<1>3. Carried'
  BY DEF Inv, Carried
<1>4. AnsweredFirst'
  BY DEF Inv, AnsweredFirst
<1>5. AcknowledgedIsAnswered'
  BY DEF Inv, AcknowledgedIsAnswered
<1>6. EffectIsKept'
  BY DEF Inv, EffectIsKept
<1>7. RecordGuards'
  BY DEF Inv, RecordGuards
<1>8. WorksUnclaimed'
  BY DEF Inv, WorksUnclaimed, Working
<1>9. EffectIsRemembered'
  BY DEF Inv, EffectIsRemembered
<1>10. AppliedOnce'
  BY DEF Inv, AppliedOnce
<1> QED
  BY <1>1, <1>2, <1>3, <1>4, <1>5, <1>6, <1>7, <1>8, <1>9, <1>10 DEF Inv

LEMMA CheckPreserves == ASSUME Inv, NEW c \in Commands, At(c, "idle"), Check(c) PROVE  Inv'
<1> USE Facts DEF Check, At, Decide, Goto, Drop, Idle, Terminal, records, player
<1>h. /\ c \in Commands /\ KeyOf[c] \in Keys /\ buffer # <<>> /\ Head(buffer) = c
      /\ 1 \in 1..Len(buffer) /\ buffer[1] = c
  <2>1. buffer \in Seq(Commands)
    BY DEF Inv, TypeOK
  <2> QED
    BY <2>1, TailFacts
<1>r. /\ UNCHANGED <<stream, result, lease, media, late, buffer, fresh, remembered, effects,
                     lost, crashes>>
      /\ task' \in [pc : {"ack", "store", "claim"}, outcome : {"none", "rejected"}]
      /\ task'.pc = "ack" => result[c] \in Outcomes
      /\ task'.pc = "store" => task'.outcome = "rejected"
      /\ task.pc = "idle"
  OBVIOUS
<1>1. TypeOK'
  BY <1>h, <1>r DEF Inv, TypeOK, Steps, Outcomes
<1>2. Submitted'
  BY <1>h, <1>r DEF Inv, Submitted
<1>3. Carried'
  BY <1>h, <1>r DEF Inv, Carried
<1>4. AnsweredFirst'
  BY <1>h, <1>r DEF Inv, Outcomes, AnsweredFirst
<1>5. AcknowledgedIsAnswered'
  BY <1>h, <1>r DEF Inv, AcknowledgedIsAnswered
<1>6. EffectIsKept'
  BY <1>h, <1>r DEF Inv, EffectIsKept
<1>7. RecordGuards'
  BY <1>h, <1>r DEF Inv, RecordGuards
<1>8. WorksUnclaimed'
  BY <1>h, <1>r DEF Inv, WorksUnclaimed, Working
<1>9. EffectIsRemembered'
  BY <1>h, <1>r DEF Inv, EffectIsRemembered
<1>10. AppliedOnce'
  BY <1>h, <1>r DEF Inv, AppliedOnce
<1> QED
  BY <1>1, <1>2, <1>3, <1>4, <1>5, <1>6, <1>7, <1>8, <1>9, <1>10 DEF Inv

LEMMA DropOnlyPreserves ==
  ASSUME Inv, NEW c \in Commands, NEW pc \in {"claim", "store"}, At(c, pc), Drop,
         UNCHANGED <<records, media, late, player, lost, crashes>>
  PROVE  Inv'
<1> USE Facts DEF At, Decide, Goto, Drop, Idle, Terminal, records, player
<1>h. /\ c \in Commands /\ KeyOf[c] \in Keys /\ buffer # <<>> /\ Head(buffer) = c
      /\ 1 \in 1..Len(buffer) /\ buffer[1] = c
  <2>1. buffer \in Seq(Commands)
    BY DEF Inv, TypeOK
  <2> QED
    BY <2>1, TailFacts
<1>q. buffer' = Tail(buffer) /\ buffer' \in Seq(Commands) /\ Len(buffer') <= BufferLimit
  <2>1. buffer \in Seq(Commands) /\ Len(buffer) <= BufferLimit
    BY DEF Inv, TypeOK
  <2> QED
    BY <1>h, <2>1, TailFacts
<1>1. TypeOK'
  BY <1>h, <1>q DEF Inv, TypeOK, Steps, Outcomes
<1>2. Submitted'
  BY <1>h, <1>q DEF Inv, Submitted
<1>3. Carried'
  BY <1>h, <1>q DEF Inv, Carried
<1>4. AnsweredFirst'
  BY <1>h, <1>q DEF Inv, AnsweredFirst
<1>5. AcknowledgedIsAnswered'
  BY <1>h, <1>q DEF Inv, AcknowledgedIsAnswered
<1>6. EffectIsKept'
  BY <1>h, <1>q DEF Inv, EffectIsKept
<1>7. RecordGuards'
  BY <1>h, <1>q DEF Inv, RecordGuards
<1>8. WorksUnclaimed'
  BY <1>h, <1>q DEF Inv, WorksUnclaimed, Working
<1>9. EffectIsRemembered'
  BY <1>h, <1>q DEF Inv, EffectIsRemembered
<1>10. AppliedOnce'
  BY <1>h, <1>q DEF Inv, AppliedOnce
<1> QED
  BY <1>1, <1>2, <1>3, <1>4, <1>5, <1>6, <1>7, <1>8, <1>9, <1>10 DEF Inv

LEMMA ClaimDonePreserves ==
  ASSUME Inv, NEW c \in Commands, At(c, "claim"), Decide("rejected", "store"),
         UNCHANGED <<records, media, late, player, lost, crashes>>
  PROVE  Inv'
<1> USE Facts DEF At, Decide, Goto, Drop, Idle, Terminal, records, player
<1>h. /\ c \in Commands /\ KeyOf[c] \in Keys /\ buffer # <<>> /\ Head(buffer) = c
      /\ 1 \in 1..Len(buffer) /\ buffer[1] = c
  <2>1. buffer \in Seq(Commands)
    BY DEF Inv, TypeOK
  <2> QED
    BY <2>1, TailFacts
<1>1. TypeOK'
  BY <1>h DEF Inv, TypeOK, Steps, Outcomes
<1>2. Submitted'
  BY <1>h DEF Inv, Submitted
<1>3. Carried'
  BY <1>h DEF Inv, Carried
<1>4. AnsweredFirst'
  BY <1>h DEF Inv, AnsweredFirst
<1>5. AcknowledgedIsAnswered'
  BY <1>h DEF Inv, AcknowledgedIsAnswered
<1>6. EffectIsKept'
  BY <1>h DEF Inv, EffectIsKept
<1>7. RecordGuards'
  BY <1>h DEF Inv, RecordGuards
<1>8. WorksUnclaimed'
  BY <1>h DEF Inv, WorksUnclaimed, Working
<1>9. EffectIsRemembered'
  BY <1>h DEF Inv, EffectIsRemembered
<1>10. AppliedOnce'
  BY <1>h DEF Inv, AppliedOnce
<1> QED
  BY <1>1, <1>2, <1>3, <1>4, <1>5, <1>6, <1>7, <1>8, <1>9, <1>10 DEF Inv

LEMMA ClaimFreePreserves ==
  ASSUME Inv, NEW c \in Commands, At(c, "claim"), lease[KeyOf[c]] = "free", Goto("execute"),
         lease' = [lease EXCEPT ![KeyOf[c]] = "held"],
         UNCHANGED <<stream, result, media, late, player, lost, crashes>>
  PROVE  Inv'
<1> USE Facts DEF At, Decide, Goto, Drop, Idle, Terminal, records, player
<1>h. /\ c \in Commands /\ KeyOf[c] \in Keys /\ buffer # <<>> /\ Head(buffer) = c
      /\ 1 \in 1..Len(buffer) /\ buffer[1] = c
  <2>1. buffer \in Seq(Commands)
    BY DEF Inv, TypeOK
  <2> QED
    BY <2>1, TailFacts
<1>1. TypeOK'
  BY <1>h DEF Inv, TypeOK, Steps, Outcomes
<1>2. Submitted'
  BY <1>h DEF Inv, Submitted
<1>3. Carried'
  BY <1>h DEF Inv, Carried
<1>4. AnsweredFirst'
  BY <1>h DEF Inv, AnsweredFirst
<1>5. AcknowledgedIsAnswered'
  BY <1>h DEF Inv, AcknowledgedIsAnswered
<1>6. EffectIsKept'
  BY <1>h DEF Inv, EffectIsKept
<1>7. RecordGuards'
  BY <1>h DEF Inv, RecordGuards
<1>8. WorksUnclaimed'
  BY <1>h DEF Inv, WorksUnclaimed, Working
<1>9. EffectIsRemembered'
  BY <1>h DEF Inv, EffectIsRemembered
<1>10. AppliedOnce'
  BY <1>h DEF Inv, AppliedOnce
<1> QED
  BY <1>1, <1>2, <1>3, <1>4, <1>5, <1>6, <1>7, <1>8, <1>9, <1>10 DEF Inv

LEMMA NoEffectPreserves ==
  ASSUME Inv, NEW c \in Commands, NEW step \in {"execute", "resolve"}, At(c, step),
         NEW outcome, NEW pc \in {"resolve", "complete", "release"}, Decide(outcome, pc),
         pc = "resolve" => outcome = "none" /\ KeyOf[c] \in media,
         pc = "complete" => outcome \in Outcomes, pc = "release" => outcome = "none",
         fresh' \in SUBSET Commands,
         UNCHANGED <<records, media, late, remembered, effects, lost, crashes>>
  PROVE  Inv'
<1> USE Facts DEF Outcomes, At, Decide, Goto, Drop, Idle, Terminal, records, player
<1>h. /\ c \in Commands /\ KeyOf[c] \in Keys /\ buffer # <<>> /\ Head(buffer) = c
      /\ 1 \in 1..Len(buffer) /\ buffer[1] = c
  <2>1. buffer \in Seq(Commands)
    BY DEF Inv, TypeOK
  <2> QED
    BY <2>1, TailFacts
<1>1. TypeOK'
  BY <1>h DEF Inv, TypeOK, Steps, Outcomes
<1>2. Submitted'
  BY <1>h DEF Inv, Submitted
<1>3. Carried'
  BY <1>h DEF Inv, Carried
<1>4. AnsweredFirst'
  BY <1>h DEF Inv, AnsweredFirst
<1>5. AcknowledgedIsAnswered'
  BY <1>h DEF Inv, AcknowledgedIsAnswered
<1>6. EffectIsKept'
  BY <1>h DEF Inv, EffectIsKept
<1>7. RecordGuards'
  BY <1>h DEF Inv, RecordGuards
<1>8. WorksUnclaimed'
  BY <1>h DEF Inv, WorksUnclaimed, Working
<1>9. EffectIsRemembered'
  BY <1>h DEF Inv, EffectIsRemembered
<1>10. AppliedOnce'
  BY <1>h DEF Inv, AppliedOnce
<1> QED
  BY <1>1, <1>2, <1>3, <1>4, <1>5, <1>6, <1>7, <1>8, <1>9, <1>10 DEF Inv

LEMMA EffectPreserves ==
  ASSUME Inv, NEW c \in Commands, NEW step \in {"execute", "resolve"}, At(c, step), TakeEffect(c),
         Decide("applied", "complete"),
         remembered' = IF KeyOf[c] \in media THEN remembered ELSE remembered \cup {KeyOf[c]},
         KeyOf[c] \notin media => KeyOf[c] \notin remembered,
         UNCHANGED <<records, media, late, lost, crashes>>
  PROVE  Inv'
<1> USE Facts DEF TakeEffect, MoveOn, At, Decide, Goto, Drop, Idle, Terminal, records, player
<1>h. /\ c \in Commands /\ KeyOf[c] \in Keys /\ buffer # <<>> /\ Head(buffer) = c
      /\ 1 \in 1..Len(buffer) /\ buffer[1] = c
  <2>1. buffer \in Seq(Commands)
    BY DEF Inv, TypeOK
  <2> QED
    BY <2>1, TailFacts
<1>1. TypeOK'
  BY <1>h DEF Inv, TypeOK, Steps, Outcomes
<1>2. Submitted'
  BY <1>h DEF Inv, Submitted
<1>3. Carried'
  BY <1>h DEF Inv, Outcomes, Carried
<1>4. AnsweredFirst'
  BY <1>h DEF Inv, AnsweredFirst
<1>5. AcknowledgedIsAnswered'
  BY <1>h DEF Inv, AcknowledgedIsAnswered
<1>6. EffectIsKept'
  BY <1>h DEF Inv, EffectIsKept
<1>7. RecordGuards'
  BY <1>h DEF Inv, RecordGuards
<1>8. WorksUnclaimed'
  BY <1>h DEF Inv, WorksUnclaimed, Working
<1>9. EffectIsRemembered'
  BY <1>h DEF Inv, EffectIsRemembered
<1>10. AppliedOnce'
  <2> SUFFICES ASSUME NEW k \in Keys, effects'[k] > 1
               PROVE  k \in lost' /\ (k \in media' \/ crashes' > 0)
    BY DEF AppliedOnce
  <2>1. lost' = lost /\ media' = media /\ crashes' = crashes
    OBVIOUS
  <2>2. CASE k # KeyOf[c]
    <3>1. effects'[k] = effects[k]
      BY <1>h, <2>2 DEF Inv
    <3> QED
      BY <2>1, <3>1 DEF Inv, AppliedOnce
  <2>3. CASE k = KeyOf[c]
    <3>1. effects'[k] = effects[k] + 1 /\ effects[k] \in Nat
      BY <1>h, <2>3 DEF Inv, TypeOK
    <3>2. effects[k] > 0
      BY <2>3, <3>1
    <3>3. lease[k] # "done" /\ task.pc # "complete"
      BY <1>h, <2>3 DEF Inv, WorksUnclaimed, Working
    <3>4. k \in lost
      BY <3>2, <3>3 DEF Inv, EffectIsKept, RecordGuards
    <3>5. k \notin media => crashes # 0
      BY <2>3, <3>2 DEF Inv, EffectIsRemembered
    <3>6. crashes \in Nat
      BY DEF Inv, TypeOK
    <3> QED
      BY <2>1, <3>4, <3>5, <3>6
  <2> QED
    BY <2>2, <2>3
<1> QED
  BY <1>1, <1>2, <1>3, <1>4, <1>5, <1>6, <1>7, <1>8, <1>9, <1>10 DEF Inv

LEMMA CompleteRecordedPreserves ==
  ASSUME Inv, NEW c \in Commands, At(c, "complete"), lease[KeyOf[c]] = "held", ~Terminal(c), Completed(c),
         Goto("ack"), UNCHANGED <<stream, media, late, player, lost, crashes>>
  PROVE  Inv'
<1> USE Facts DEF Completed, At, Decide, Goto, Drop, Idle, Terminal, records, player
<1>h. /\ c \in Commands /\ KeyOf[c] \in Keys /\ buffer # <<>> /\ Head(buffer) = c
      /\ 1 \in 1..Len(buffer) /\ buffer[1] = c
  <2>1. buffer \in Seq(Commands)
    BY DEF Inv, TypeOK
  <2> QED
    BY <2>1, TailFacts
<1>1. TypeOK'
  BY <1>h DEF Inv, TypeOK, Steps, Outcomes
<1>2. Submitted'
  BY <1>h DEF Inv, Submitted
<1>3. Carried'
  BY <1>h DEF Inv, Carried
<1>4. AnsweredFirst'
  BY <1>h DEF Inv, TypeOK, Outcomes, AnsweredFirst
<1>5. AcknowledgedIsAnswered'
  BY <1>h DEF Inv, TypeOK, Outcomes, AcknowledgedIsAnswered
<1>6. EffectIsKept'
  <2> SUFFICES ASSUME NEW k \in Keys, effects'[k] > 0, k \notin lost'
               PROVE  \E d \in Commands : KeyOf[d] = k /\ result'[d] = "applied"
    BY DEF EffectIsKept
  <2>1. PICK d \in Commands : /\ KeyOf[d] = k
                              /\ result[d] = "applied"
                                 \/ (At(d, "complete") /\ task.outcome = "applied")
    BY DEF Inv, EffectIsKept
  <2>2. CASE d = c
    BY <1>h, <2>1, <2>2 DEF Inv, TypeOK
  <2>3. CASE d # c
    BY <1>h, <2>1, <2>3 DEF Inv
  <2> QED
    BY <2>1, <2>2, <2>3
<1>7. RecordGuards'
  BY <1>h DEF Inv, TypeOK, RecordGuards
<1>8. WorksUnclaimed'
  BY <1>h DEF Inv, WorksUnclaimed, Working
<1>9. EffectIsRemembered'
  BY <1>h DEF Inv, EffectIsRemembered
<1>10. AppliedOnce'
  BY <1>h DEF Inv, AppliedOnce
<1> QED
  BY <1>1, <1>2, <1>3, <1>4, <1>5, <1>6, <1>7, <1>8, <1>9, <1>10 DEF Inv

LEMMA CompleteUnheardPreserves ==
  ASSUME Inv, NEW c \in Commands, At(c, "complete"), lease[KeyOf[c]] = "held", ~Terminal(c), Completed(c),
         Drop, UNCHANGED <<stream, media, late, player, lost, crashes>>
  PROVE  Inv'
<1> USE Facts DEF Completed, At, Decide, Goto, Drop, Idle, Terminal, records, player
<1>h. /\ c \in Commands /\ KeyOf[c] \in Keys /\ buffer # <<>> /\ Head(buffer) = c
      /\ 1 \in 1..Len(buffer) /\ buffer[1] = c
  <2>1. buffer \in Seq(Commands)
    BY DEF Inv, TypeOK
  <2> QED
    BY <2>1, TailFacts
<1>q. buffer' = Tail(buffer) /\ buffer' \in Seq(Commands) /\ Len(buffer') <= BufferLimit
  <2>1. buffer \in Seq(Commands) /\ Len(buffer) <= BufferLimit
    BY DEF Inv, TypeOK
  <2> QED
    BY <1>h, <2>1, TailFacts
<1>1. TypeOK'
  BY <1>h, <1>q DEF Inv, TypeOK, Steps, Outcomes
<1>2. Submitted'
  BY <1>h, <1>q DEF Inv, Submitted
<1>3. Carried'
  BY <1>h, <1>q DEF Inv, Carried
<1>4. AnsweredFirst'
  BY <1>h, <1>q DEF Inv, AnsweredFirst
<1>5. AcknowledgedIsAnswered'
  BY <1>h, <1>q DEF Inv, TypeOK, Outcomes, AcknowledgedIsAnswered
<1>6. EffectIsKept'
  <2> SUFFICES ASSUME NEW k \in Keys, effects'[k] > 0, k \notin lost'
               PROVE  \E d \in Commands : KeyOf[d] = k /\ result'[d] = "applied"
    BY DEF EffectIsKept
  <2>1. PICK d \in Commands : /\ KeyOf[d] = k
                              /\ result[d] = "applied"
                                 \/ (At(d, "complete") /\ task.outcome = "applied")
    BY DEF Inv, EffectIsKept
  <2>2. CASE d = c
    BY <1>h, <2>1, <2>2 DEF Inv, TypeOK
  <2>3. CASE d # c
    BY <1>h, <2>1, <2>3 DEF Inv
  <2> QED
    BY <2>1, <2>2, <2>3
<1>7. RecordGuards'
  BY <1>h, <1>q DEF Inv, TypeOK, RecordGuards
<1>8. WorksUnclaimed'
  BY <1>h, <1>q DEF Inv, WorksUnclaimed, Working
<1>9. EffectIsRemembered'
  BY <1>h, <1>q DEF Inv, EffectIsRemembered
<1>10. AppliedOnce'
  BY <1>h, <1>q DEF Inv, AppliedOnce
<1> QED
  BY <1>1, <1>2, <1>3, <1>4, <1>5, <1>6, <1>7, <1>8, <1>9, <1>10 DEF Inv

LEMMA CompleteLostPreserves ==
  ASSUME Inv, NEW c \in Commands, At(c, "complete"), Drop, lost' = lost \cup {KeyOf[c]},
         lease' = Orphaned, UNCHANGED <<stream, result, media, late, player, crashes>>
  PROVE  Inv'
<1> USE Facts DEF Orphaned, At, Decide, Goto, Drop, Idle, Terminal, records, player
<1>h. /\ c \in Commands /\ KeyOf[c] \in Keys /\ buffer # <<>> /\ Head(buffer) = c
      /\ 1 \in 1..Len(buffer) /\ buffer[1] = c
  <2>1. buffer \in Seq(Commands)
    BY DEF Inv, TypeOK
  <2> QED
    BY <2>1, TailFacts
<1>q. buffer' = Tail(buffer) /\ buffer' \in Seq(Commands) /\ Len(buffer') <= BufferLimit
  <2>1. buffer \in Seq(Commands) /\ Len(buffer) <= BufferLimit
    BY DEF Inv, TypeOK
  <2> QED
    BY <1>h, <2>1, TailFacts
<1>1. TypeOK'
  BY <1>h, <1>q DEF Inv, TypeOK, Steps, Outcomes
<1>2. Submitted'
  BY <1>h, <1>q DEF Inv, Submitted
<1>3. Carried'
  BY <1>h, <1>q DEF Inv, Carried
<1>4. AnsweredFirst'
  BY <1>h, <1>q DEF Inv, AnsweredFirst
<1>5. AcknowledgedIsAnswered'
  BY <1>h, <1>q DEF Inv, AcknowledgedIsAnswered
<1>6. EffectIsKept'
  BY <1>h, <1>q DEF Inv, EffectIsKept
<1>7. RecordGuards'
  BY <1>h, <1>q DEF Inv, RecordGuards
<1>8. WorksUnclaimed'
  BY <1>h, <1>q DEF Inv, WorksUnclaimed, Working
<1>9. EffectIsRemembered'
  BY <1>h, <1>q DEF Inv, EffectIsRemembered
<1>10. AppliedOnce'
  BY <1>h, <1>q DEF Inv, AppliedOnce
<1> QED
  BY <1>1, <1>2, <1>3, <1>4, <1>5, <1>6, <1>7, <1>8, <1>9, <1>10 DEF Inv

LEMMA ReleaseLostPreserves ==
  ASSUME Inv, NEW c \in Commands, At(c, "release"), Drop, lease' = Orphaned,
         UNCHANGED <<stream, result, media, late, player, lost, crashes>>
  PROVE  Inv'
<1> USE Facts DEF Orphaned, At, Decide, Goto, Drop, Idle, Terminal, records, player
<1>h. /\ c \in Commands /\ KeyOf[c] \in Keys /\ buffer # <<>> /\ Head(buffer) = c
      /\ 1 \in 1..Len(buffer) /\ buffer[1] = c
  <2>1. buffer \in Seq(Commands)
    BY DEF Inv, TypeOK
  <2> QED
    BY <2>1, TailFacts
<1>q. buffer' = Tail(buffer) /\ buffer' \in Seq(Commands) /\ Len(buffer') <= BufferLimit
  <2>1. buffer \in Seq(Commands) /\ Len(buffer) <= BufferLimit
    BY DEF Inv, TypeOK
  <2> QED
    BY <1>h, <2>1, TailFacts
<1>1. TypeOK'
  BY <1>h, <1>q DEF Inv, TypeOK, Steps, Outcomes
<1>2. Submitted'
  BY <1>h, <1>q DEF Inv, Submitted
<1>3. Carried'
  BY <1>h, <1>q DEF Inv, Carried
<1>4. AnsweredFirst'
  BY <1>h, <1>q DEF Inv, AnsweredFirst
<1>5. AcknowledgedIsAnswered'
  BY <1>h, <1>q DEF Inv, AcknowledgedIsAnswered
<1>6. EffectIsKept'
  BY <1>h, <1>q DEF Inv, EffectIsKept
<1>7. RecordGuards'
  BY <1>h, <1>q DEF Inv, RecordGuards
<1>8. WorksUnclaimed'
  BY <1>h, <1>q DEF Inv, WorksUnclaimed, Working
<1>9. EffectIsRemembered'
  BY <1>h, <1>q DEF Inv, EffectIsRemembered
<1>10. AppliedOnce'
  BY <1>h, <1>q DEF Inv, AppliedOnce
<1> QED
  BY <1>1, <1>2, <1>3, <1>4, <1>5, <1>6, <1>7, <1>8, <1>9, <1>10 DEF Inv

LEMMA ReleasedPreserves ==
  ASSUME Inv, NEW c \in Commands, At(c, "release"), Drop,
         lease' = [lease EXCEPT ![KeyOf[c]] = IF @ = "held" THEN "free" ELSE @],
         UNCHANGED <<stream, result, media, late, player, lost, crashes>>
  PROVE  Inv'
<1> USE Facts DEF At, Decide, Goto, Drop, Idle, Terminal, records, player
<1>h. /\ c \in Commands /\ KeyOf[c] \in Keys /\ buffer # <<>> /\ Head(buffer) = c
      /\ 1 \in 1..Len(buffer) /\ buffer[1] = c
  <2>1. buffer \in Seq(Commands)
    BY DEF Inv, TypeOK
  <2> QED
    BY <2>1, TailFacts
<1>q. buffer' = Tail(buffer) /\ buffer' \in Seq(Commands) /\ Len(buffer') <= BufferLimit
  <2>1. buffer \in Seq(Commands) /\ Len(buffer) <= BufferLimit
    BY DEF Inv, TypeOK
  <2> QED
    BY <1>h, <2>1, TailFacts
<1>1. TypeOK'
  BY <1>h, <1>q DEF Inv, TypeOK, Steps, Outcomes
<1>2. Submitted'
  BY <1>h, <1>q DEF Inv, Submitted
<1>3. Carried'
  BY <1>h, <1>q DEF Inv, Carried
<1>4. AnsweredFirst'
  BY <1>h, <1>q DEF Inv, AnsweredFirst
<1>5. AcknowledgedIsAnswered'
  BY <1>h, <1>q DEF Inv, AcknowledgedIsAnswered
<1>6. EffectIsKept'
  BY <1>h, <1>q DEF Inv, EffectIsKept
<1>7. RecordGuards'
  BY <1>h, <1>q DEF Inv, RecordGuards
<1>8. WorksUnclaimed'
  BY <1>h, <1>q DEF Inv, WorksUnclaimed, Working
<1>9. EffectIsRemembered'
  BY <1>h, <1>q DEF Inv, EffectIsRemembered
<1>10. AppliedOnce'
  BY <1>h, <1>q DEF Inv, AppliedOnce
<1> QED
  BY <1>1, <1>2, <1>3, <1>4, <1>5, <1>6, <1>7, <1>8, <1>9, <1>10 DEF Inv

LEMMA StoredPreserves ==
  ASSUME Inv, NEW c \in Commands, At(c, "store"), ~Terminal(c), Goto("ack"),
         result' = [result EXCEPT ![c] = task.outcome],
         UNCHANGED <<stream, lease, media, late, player, lost, crashes>>
  PROVE  Inv'
<1> USE Facts DEF At, Decide, Goto, Drop, Idle, Terminal, records, player
<1>h. /\ c \in Commands /\ KeyOf[c] \in Keys /\ buffer # <<>> /\ Head(buffer) = c
      /\ 1 \in 1..Len(buffer) /\ buffer[1] = c
  <2>1. buffer \in Seq(Commands)
    BY DEF Inv, TypeOK
  <2> QED
    BY <2>1, TailFacts
<1>1. TypeOK'
  BY <1>h DEF Inv, TypeOK, Steps, Outcomes
<1>2. Submitted'
  BY <1>h DEF Inv, Submitted
<1>3. Carried'
  BY <1>h DEF Inv, Carried
<1>4. AnsweredFirst'
  BY <1>h DEF Inv, TypeOK, Outcomes, AnsweredFirst
<1>5. AcknowledgedIsAnswered'
  BY <1>h DEF Inv, TypeOK, Outcomes, AcknowledgedIsAnswered
<1>6. EffectIsKept'
  BY <1>h DEF Inv, TypeOK, EffectIsKept
<1>7. RecordGuards'
  BY <1>h DEF Inv, Carried, RecordGuards
<1>8. WorksUnclaimed'
  BY <1>h DEF Inv, WorksUnclaimed, Working
<1>9. EffectIsRemembered'
  BY <1>h DEF Inv, EffectIsRemembered
<1>10. AppliedOnce'
  BY <1>h DEF Inv, AppliedOnce
<1> QED
  BY <1>1, <1>2, <1>3, <1>4, <1>5, <1>6, <1>7, <1>8, <1>9, <1>10 DEF Inv

LEMMA StoreUnheardPreserves ==
  ASSUME Inv, NEW c \in Commands, At(c, "store"), ~Terminal(c), Drop,
         result' = [result EXCEPT ![c] = task.outcome],
         UNCHANGED <<stream, lease, media, late, player, lost, crashes>>
  PROVE  Inv'
<1> USE Facts DEF At, Decide, Goto, Drop, Idle, Terminal, records, player
<1>h. /\ c \in Commands /\ KeyOf[c] \in Keys /\ buffer # <<>> /\ Head(buffer) = c
      /\ 1 \in 1..Len(buffer) /\ buffer[1] = c
  <2>1. buffer \in Seq(Commands)
    BY DEF Inv, TypeOK
  <2> QED
    BY <2>1, TailFacts
<1>q. buffer' = Tail(buffer) /\ buffer' \in Seq(Commands) /\ Len(buffer') <= BufferLimit
  <2>1. buffer \in Seq(Commands) /\ Len(buffer) <= BufferLimit
    BY DEF Inv, TypeOK
  <2> QED
    BY <1>h, <2>1, TailFacts
<1>1. TypeOK'
  BY <1>h, <1>q DEF Inv, TypeOK, Steps, Outcomes
<1>2. Submitted'
  BY <1>h, <1>q DEF Inv, Submitted
<1>3. Carried'
  BY <1>h, <1>q DEF Inv, Carried
<1>4. AnsweredFirst'
  BY <1>h, <1>q DEF Inv, AnsweredFirst
<1>5. AcknowledgedIsAnswered'
  BY <1>h, <1>q DEF Inv, TypeOK, Outcomes, AcknowledgedIsAnswered
<1>6. EffectIsKept'
  BY <1>h, <1>q DEF Inv, TypeOK, Submitted, EffectIsKept
<1>7. RecordGuards'
  BY <1>h, <1>q DEF Inv, Carried, RecordGuards
<1>8. WorksUnclaimed'
  BY <1>h, <1>q DEF Inv, WorksUnclaimed, Working
<1>9. EffectIsRemembered'
  BY <1>h, <1>q DEF Inv, EffectIsRemembered
<1>10. AppliedOnce'
  BY <1>h, <1>q DEF Inv, AppliedOnce
<1> QED
  BY <1>1, <1>2, <1>3, <1>4, <1>5, <1>6, <1>7, <1>8, <1>9, <1>10 DEF Inv

LEMMA LeaseExpiresPreserves == ASSUME Inv, NEW k \in Keys, LeaseExpires(k) PROVE  Inv'
<1> USE Facts DEF LeaseExpires, At, player
<1>1. TypeOK'
  BY DEF Inv, TypeOK
<1>2. Submitted'
  BY DEF Inv, Submitted
<1>3. Carried'
  BY DEF Inv, Carried
<1>4. AnsweredFirst'
  BY DEF Inv, AnsweredFirst
<1>5. AcknowledgedIsAnswered'
  BY DEF Inv, AcknowledgedIsAnswered
<1>6. EffectIsKept'
  BY DEF Inv, EffectIsKept
<1>7. RecordGuards'
  BY DEF Inv, RecordGuards
<1>8. WorksUnclaimed'
  BY DEF Inv, WorksUnclaimed, Working
<1>9. EffectIsRemembered'
  BY DEF Inv, EffectIsRemembered
<1>10. AppliedOnce'
  BY DEF Inv, AppliedOnce
<1> QED
  BY <1>1, <1>2, <1>3, <1>4, <1>5, <1>6, <1>7, <1>8, <1>9, <1>10 DEF Inv

LEMMA OtherChangePreserves == ASSUME Inv, OtherChange PROVE  Inv'
<1> USE Facts DEF OtherChange, MoveOn, At, records
<1>1. TypeOK'
  BY DEF Inv, TypeOK
<1>2. Submitted'
  BY DEF Inv, Submitted
<1>3. Carried'
  BY DEF Inv, Carried
<1>4. AnsweredFirst'
  BY DEF Inv, AnsweredFirst
<1>5. AcknowledgedIsAnswered'
  BY DEF Inv, AcknowledgedIsAnswered
<1>6. EffectIsKept'
  BY DEF Inv, EffectIsKept
<1>7. RecordGuards'
  BY DEF Inv, RecordGuards
<1>8. WorksUnclaimed'
  BY DEF Inv, WorksUnclaimed, Working
<1>9. EffectIsRemembered'
  BY DEF Inv, EffectIsRemembered
<1>10. AppliedOnce'
  BY DEF Inv, AppliedOnce
<1> QED
  BY <1>1, <1>2, <1>3, <1>4, <1>5, <1>6, <1>7, <1>8, <1>9, <1>10 DEF Inv

LEMMA RestartPreserves == ASSUME Inv, Restart PROVE  Inv'
<1> USE Facts DEF Restart, Idle, Orphaned, At
<1>1. TypeOK'
  BY DEF Inv, TypeOK, Steps, Outcomes
<1>2. Submitted'
  BY DEF Inv, Submitted
<1>3. Carried'
  BY DEF Inv, Carried
<1>4. AnsweredFirst'
  BY DEF Inv, AnsweredFirst
<1>5. AcknowledgedIsAnswered'
  BY DEF Inv, AcknowledgedIsAnswered
<1>6. EffectIsKept'
  BY DEF Inv, EffectIsKept
<1>7. RecordGuards'
  BY DEF Inv, RecordGuards
<1>8. WorksUnclaimed'
  BY DEF Inv, WorksUnclaimed, Working
<1>9. EffectIsRemembered'
  BY DEF Inv, TypeOK, EffectIsRemembered
<1>10. AppliedOnce'
  BY DEF Inv, TypeOK, AppliedOnce
<1> QED
  BY <1>1, <1>2, <1>3, <1>4, <1>5, <1>6, <1>7, <1>8, <1>9, <1>10 DEF Inv

LEMMA CompletePreserves == ASSUME Inv, NEW c \in Commands, Complete(c) PROVE Inv'
<1>1. CASE lease[KeyOf[c]] = "held" /\ ~Terminal(c)
  <2>1. /\ At(c, "complete") /\ Completed(c) /\ Goto("ack")
        /\ UNCHANGED <<stream, media, late, player, lost, crashes>>
    BY <1>1 DEF Complete
  <2> QED
    BY <1>1, <2>1, CompleteRecordedPreserves
<1>2. CASE ~(lease[KeyOf[c]] = "held" /\ ~Terminal(c))
  <2>1. /\ At(c, "complete") /\ Drop /\ lost' = lost \cup {KeyOf[c]} /\ lease' = Orphaned
        /\ UNCHANGED <<stream, result, media, late, player, crashes>>
    BY <1>2 DEF Complete
  <2> QED
    BY <2>1, CompleteLostPreserves
<1> QED
  BY <1>1, <1>2

LEMMA CompleteFailsPreserves == ASSUME Inv, NEW c \in Commands, CompleteFails(c) PROVE Inv'
<1>1. At(c, "complete") /\ Drop /\ UNCHANGED <<stream, media, late, player, crashes>>
  BY DEF CompleteFails
<1>2. CASE lease[KeyOf[c]] = "held" /\ ~Terminal(c) /\ Completed(c) /\ UNCHANGED lost
  BY <1>1, <1>2, CompleteUnheardPreserves
<1>3. CASE lost' = lost \cup {KeyOf[c]} /\ lease' = Orphaned /\ UNCHANGED result
  BY <1>1, <1>3, CompleteLostPreserves
<1> QED
  BY <1>2, <1>3 DEF CompleteFails

LEMMA ReleasePreserves == ASSUME Inv, NEW c \in Commands, Release(c) PROVE Inv'
<1>1. /\ At(c, "release") /\ Drop
      /\ UNCHANGED <<stream, result, media, late, player, lost, crashes>>
  BY DEF Release
<1>2. CASE lease' = Orphaned
  BY <1>1, <1>2, ReleaseLostPreserves
<1>3. CASE lease' = [lease EXCEPT ![KeyOf[c]] = IF @ = "held" THEN "free" ELSE @]
  BY <1>1, <1>3, ReleasedPreserves
<1> QED
  BY <1>2, <1>3 DEF Release

LEMMA StorePreserves == ASSUME Inv, NEW c \in Commands, Store(c) PROVE Inv'
<1>1. CASE ~Terminal(c)
  <2>1. /\ At(c, "store") /\ Goto("ack") /\ result' = [result EXCEPT ![c] = task.outcome]
        /\ UNCHANGED <<stream, lease, media, late, player, lost, crashes>>
    BY <1>1 DEF Store, CanStore
  <2> QED
    BY <1>1, <2>1, StoredPreserves
<1>2. CASE Terminal(c)
  <2>1. /\ At(c, "store") /\ Drop /\ UNCHANGED <<records, media, late, player, lost, crashes>>
    BY <1>2 DEF Store, CanStore, records
  <2> QED
    BY <2>1, DropOnlyPreserves
<1> QED
  BY <1>1, <1>2

LEMMA StoreFailsPreserves == ASSUME Inv, NEW c \in Commands, StoreFails(c) PROVE Inv'
<1>1. /\ At(c, "store") /\ Drop
      /\ UNCHANGED <<stream, lease, media, late, player, lost, crashes>>
  BY DEF StoreFails
<1>2. CASE result' = result
  <2>1. UNCHANGED <<records, media, late, player, lost, crashes>>
    BY <1>1, <1>2 DEF records
  <2> QED
    BY <1>1, <2>1, DropOnlyPreserves
<1>3. CASE ~Terminal(c) /\ result' = [result EXCEPT ![c] = task.outcome]
  BY <1>1, <1>3, StoreUnheardPreserves
<1>4. result' = result \/ (~Terminal(c) /\ result' = [result EXCEPT ![c] = task.outcome])
  <2>1. result' = result \/ result' = [result EXCEPT ![c] = IF Terminal(c) THEN @ ELSE task.outcome]
    BY DEF StoreFails
  <2>2. result \in [Commands -> {"none", "pending"} \cup Outcomes]
    BY DEF Inv, TypeOK
  <2> QED
    BY <2>1, <2>2
<1> QED
  BY <1>2, <1>3, <1>4

LEMMA ClaimPreserves == ASSUME Inv, NEW c \in Commands, Claim(c) PROVE Inv'
<1>1. At(c, "claim") /\ UNCHANGED <<stream, result, media, late, player, lost, crashes>>
  BY DEF Claim
<1>2. CASE lease[KeyOf[c]] = "done" /\ Decide("rejected", "store") /\ UNCHANGED lease
  <2>1. UNCHANGED <<records, media, late, player, lost, crashes>>
    BY <1>1, <1>2 DEF records
  <2> QED
    BY <1>1, <1>2, <2>1, ClaimDonePreserves
<1>3. CASE Drop /\ UNCHANGED lease
  <2>1. UNCHANGED <<records, media, late, player, lost, crashes>>
    BY <1>1, <1>3 DEF records
  <2> QED
    BY <1>1, <1>3, <2>1, DropOnlyPreserves
<1>4. CASE /\ lease[KeyOf[c]] = "free" /\ Goto("execute")
           /\ lease' = [lease EXCEPT ![KeyOf[c]] = "held"]
  BY <1>1, <1>4, ClaimFreePreserves
<1> QED
  BY <1>2, <1>3, <1>4 DEF Claim

\* A step of the player that has no effect.
LEMMA ExecutePreserves == ASSUME Inv, NEW c \in Commands, Execute(c) PROVE Inv'
<1> DEFINE Same == UNCHANGED <<records, media, late, lost, crashes>>
           Plain(o, pc) == Decide(o, pc) /\ UNCHANGED player
<1>1. At(c, "execute") /\ Same
  BY DEF Execute
<1>2. fresh \in SUBSET Commands
  BY DEF Inv, TypeOK
<1>3. ASSUME NEW o, NEW pc \in {"resolve", "complete", "release"}, Plain(o, pc),
             pc = "resolve" => o = "none" /\ KeyOf[c] \in media,
             pc = "complete" => o \in Outcomes, pc = "release" => o = "none"
      PROVE  Inv'
  <2>1. Decide(o, pc) /\ fresh' \in SUBSET Commands
    BY <1>2, <1>3 DEF player
  <2>2. UNCHANGED <<records, media, late, remembered, effects, lost, crashes>>
    BY <1>1, <1>3 DEF player
  <2> QED
    BY <1>1, <1>3, <2>1, <2>2, NoEffectPreserves
<1>4. CASE KeyOf[c] \in media
  <2>1. StartMedia(c)
    BY <1>4 DEF Execute
  <2>2. Plain("none", "resolve") \/ Plain("rejected", "complete") \/ Plain("none", "release")
    BY <2>1 DEF StartMedia, Goto
  <2> HIDE DEF Plain, Same
  <2>3. CASE Plain("none", "resolve")
    BY <1>3, <1>4, <2>3
  <2>4. CASE Plain("rejected", "complete")
    BY <1>3, <2>4 DEF Outcomes
  <2>5. CASE Plain("none", "release")
    BY <1>3, <2>5
  <2> QED
    BY <2>2, <2>3, <2>4, <2>5
<1>5. CASE KeyOf[c] \notin media
  <2>1. ApplyCommand(c)
    BY <1>5 DEF Execute
  <2>2. \/ Plain("applied", "complete") \/ Plain("rejected", "complete") \/ Plain("none", "release")
        \/ /\ KeyOf[c] \notin remembered /\ TakeEffect(c) /\ Remember(c)
           /\ Decide("applied", "complete")
    BY <2>1 DEF ApplyCommand, Goto
  <2> HIDE DEF Plain
  <2>3. CASE Plain("applied", "complete")
    BY <1>3, <2>3 DEF Outcomes
  <2>4. CASE Plain("rejected", "complete")
    BY <1>3, <2>4 DEF Outcomes
  <2>5. CASE Plain("none", "release")
    BY <1>3, <2>5
  <2>6. CASE /\ KeyOf[c] \notin remembered /\ TakeEffect(c) /\ Remember(c)
             /\ Decide("applied", "complete")
    <3>1. remembered' = IF KeyOf[c] \in media THEN remembered ELSE remembered \cup {KeyOf[c]}
      BY <1>5, <2>6 DEF Remember
    <3> QED
      BY <1>1, <2>6, <3>1, EffectPreserves
  <2> QED
    BY <2>2, <2>3, <2>4, <2>5, <2>6
<1> QED
  BY <1>4, <1>5

LEMMA CommitPreserves == ASSUME Inv, NEW c \in Commands, Commit(c) PROVE Inv'
<1>1. At(c, "resolve") /\ UNCHANGED <<records, media, late, lost, crashes>>
  BY DEF Commit
<1>2. KeyOf[c] \in media
  BY <1>1 DEF Inv, Carried, At
<1>3. CASE TakeEffect(c) /\ Decide("applied", "complete") /\ UNCHANGED remembered
  <2>1. remembered' = IF KeyOf[c] \in media THEN remembered ELSE remembered \cup {KeyOf[c]}
    BY <1>2, <1>3
  <2> QED
    BY <1>1, <1>2, <1>3, <2>1, EffectPreserves
<1>4. CASE /\ MoveOn \/ UNCHANGED fresh
           /\ UNCHANGED <<remembered, effects>>
           /\ Decide("rejected", "complete") \/ Goto("release")
  <2>1. fresh' \in SUBSET Commands
    BY <1>4 DEF MoveOn, Inv, TypeOK
  <2>2. UNCHANGED <<records, media, late, remembered, effects, lost, crashes>>
    BY <1>1, <1>4
  <2>3. CASE Decide("rejected", "complete")
    <3>1. "rejected" \in Outcomes
      BY DEF Outcomes
    <3> QED
      BY <1>1, <2>1, <2>2, <2>3, <3>1, NoEffectPreserves
  <2>4. CASE Decide("none", "release")
    BY <1>1, <2>1, <2>2, <2>4, NoEffectPreserves
  <2> QED
    BY <1>4, <2>3, <2>4 DEF Goto
<1> QED
  BY <1>3, <1>4 DEF Commit, player

LEMMA StutterPreserves == ASSUME Inv, UNCHANGED vars PROVE Inv'
<1> USE DEF vars, At
<1>1. TypeOK' /\ Submitted' /\ Carried' /\ AnsweredFirst' /\ AcknowledgedIsAnswered'
  BY DEF Inv, TypeOK, Submitted, Carried, AnsweredFirst, AcknowledgedIsAnswered
<1>2. EffectIsKept' /\ RecordGuards' /\ WorksUnclaimed' /\ EffectIsRemembered' /\ AppliedOnce'
  BY DEF Inv, EffectIsKept, RecordGuards, WorksUnclaimed, Working, EffectIsRemembered, AppliedOnce
<1> QED
  BY <1>1, <1>2 DEF Inv

-----------------------------------------------------------------------------
(* The theorems.                                                           *)

\* Every step of the bus preserves the invariant.
LEMMA NextPreserves == Inv /\ [Next]_vars => Inv'
<1> SUFFICES ASSUME Inv, [Next]_vars PROVE Inv'
  OBVIOUS
<1>1. ASSUME NEW c \in Commands, Submit(c) \/ Deliver(c) \/ Deadline(c) \/ RecordExpires(c)
      PROVE  Inv'
  BY <1>1, SubmitPreserves, DeliverPreserves, DeadlinePreserves, RecordExpiresPreserves
<1>2. ASSUME NEW c \in Commands, Process(c) PROVE Inv'
  <2>1. CASE Check(c)
    <3>1. At(c, "idle")
      BY <2>1 DEF Check
    <3> QED
      BY <2>1, <3>1, CheckPreserves
  <2> QED
    BY <1>2, <2>1, ClaimPreserves, ExecutePreserves, CommitPreserves, CompletePreserves,
       ReleasePreserves, StorePreserves, AckPreserves DEF Process
<1>3. ASSUME NEW c \in Commands, ProcessFails(c) PROVE Inv'
  BY <1>3, CheckFailsPreserves, ClaimFailsPreserves, CompleteFailsPreserves,
     StoreFailsPreserves, AckFailsPreserves DEF ProcessFails
<1>4. ASSUME NEW k \in Keys, LeaseExpires(k) PROVE Inv'
  BY <1>4, LeaseExpiresPreserves
<1>5. CASE OtherChange \/ Restart
  BY <1>5, OtherChangePreserves, RestartPreserves
<1>6. CASE UNCHANGED vars
  BY <1>6, StutterPreserves
<1> QED
  BY <1>1, <1>2, <1>3, <1>4, <1>5, <1>6 DEF Next

\* The inductive invariant holds in every state.
THEOREM InvariantHolds == Spec => []Inv
<1> QED
  BY Initially, NextPreserves, PTL DEF Spec

\* A mutation takes effect at most once, however often its command is delivered
\* or resubmitted, unless its outcome could not be recorded.
THEOREM EffectsAreSingle == Spec => []AppliedOnce
<1>1. Inv => AppliedOnce
  BY DEF Inv
<1> QED
  BY <1>1, InvariantHolds, PTL

\* What has left the stream is answered, and what took effect is reported.
THEOREM AnswersHold == Spec => []AnswersAreTrue
<1>1. Inv => EffectIsReported
  BY DEF Inv, EffectIsKept, EffectIsReported
<1>2. Inv => AnswersAreTrue
  BY <1>1 DEF Inv, AnswersAreTrue
<1> QED
  BY <1>2, InvariantHolds, PTL

\* An answer once given changes no more, until its record expires.
LEMMA ResultStep ==
  ASSUME Inv, [Next]_vars, NEW c \in Commands, result[c] \in Outcomes
  PROVE  result'[c] \in {result[c], "none"}
<1> USE DEF player, records
<1>0. result \in [Commands -> {"none", "pending"} \cup Outcomes] /\ result[c] # "none"
  BY DEF Inv, TypeOK, Outcomes
<1>1. ASSUME NEW d \in Commands, Submit(d) PROVE result'[c] = result[c]
  BY <1>0, <1>1 DEF Submit, Inv, Submitted
<1>2. ASSUME NEW d \in Commands, Deliver(d) \/ Deadline(d) PROVE result' = result
  BY <1>2 DEF Deliver, Deadline
<1>3. ASSUME NEW d \in Commands, RecordExpires(d) PROVE result'[c] \in {result[c], "none"}
  BY <1>0, <1>3 DEF RecordExpires
<1>4. ASSUME NEW d \in Commands, Check(d) \/ Claim(d) \/ Execute(d) \/ Commit(d) \/ Release(d) \/ Ack(d)
      PROVE  result' = result
  BY <1>4 DEF Check, Claim, Execute, Commit, Release, Ack
<1>5. ASSUME NEW d \in Commands, Complete(d) \/ CompleteFails(d)
      PROVE  result'[c] = result[c]
  BY <1>0, <1>5 DEF Complete, CompleteFails, Completed, Terminal
<1>6. ASSUME NEW d \in Commands, Store(d) \/ StoreFails(d)
      PROVE  result'[c] = result[c]
  BY <1>0, <1>6 DEF Store, StoreFails, CanStore, Terminal
<1>7. ASSUME NEW d \in Commands, CheckFails(d) \/ ClaimFails(d) \/ AckFails(d)
      PROVE  result' = result
  BY <1>7 DEF CheckFails, ClaimFails, AckFails
<1>8. ASSUME NEW k \in Keys, LeaseExpires(k) PROVE result' = result
  BY <1>8 DEF LeaseExpires
<1>9. CASE OtherChange \/ Restart
  BY <1>9 DEF OtherChange, Restart
<1>10. CASE UNCHANGED vars
  BY <1>10 DEF vars
<1> QED
  BY <1>1, <1>2, <1>3, <1>4, <1>5, <1>6, <1>7, <1>8, <1>9, <1>10 DEF Next, Process, ProcessFails

\* A result once given is final until it expires, whatever is redelivered, late
\* or lost.
THEOREM AnswersAreFinal == Spec => ResultsAreFinal
<1> DEFINE Final == \A c \in Commands : result[c] \in Outcomes => result'[c] \in {result[c], "none"}
<1>1. Inv /\ [Next]_vars => [Final]_vars
  BY ResultStep
<1> QED
  BY <1>1, InvariantHolds, PTL DEF Spec, ResultsAreFinal

=============================================================================
