----------------------------- MODULE ToolProcess -----------------------------
(***************************************************************************)
(* One run of an external media tool (pepeaudio-media, tools/process.rs):  *)
(* a child in a process group of its own, which may start helpers that     *)
(* outlive it and may inherit its pipes, two reader tasks, one deadline,   *)
(* and a caller that may drop the run at any await.                        *)
(***************************************************************************)
EXTENDS Integers

VARIABLES
  pc,      \* where RealProcessRunner::run stands
  leader,  \* the child
  helper,  \* another process of its group, with or without the tool's pipes
  readers, \* the stdout and stderr tasks
  armed,   \* ProcessGroupGuard
  late,    \* the deadline has passed
  result   \* what run returned

vars == <<pc, leader, helper, readers, armed, late, result>>

Pipes   == {"stdout", "stderr"}
Results == {"none", "Ok", "Timeout", "Spawn", "Exit", "Pipe", "MediaUnavailable"}

TypeOK ==
  /\ pc \in {"permit", "wait", "stdout", "stderr", "joining", "returned", "dropped"}
  /\ leader \in {"none", "running", "succeeded", "failed"}
  /\ helper \in {"none", "piped", "detached"}
  /\ readers \in [Pipes -> {"none", "reading", "read", "failed"}]
  /\ armed \in BOOLEAN /\ late \in BOOLEAN /\ result \in Results

\* killpg: SIGKILL to every process of the group.
KillGroup == /\ leader' = IF leader = "running" THEN "failed" ELSE leader
             /\ helper' = "none"

Disarm == armed' = FALSE

NoReaders == [p \in Pipes |-> "none"]

Return(r) == /\ pc' = "returned" /\ result' = r

-----------------------------------------------------------------------------
\* The deadline covers the wait for a permit of the pool.
NoPermit == /\ pc = "permit" /\ late
            /\ Return("Timeout")
            /\ UNCHANGED <<leader, helper, readers, armed, late>>

Start ==
  /\ pc = "permit"
  /\ \/ /\ pc' = "wait" /\ leader' = "running" /\ armed' = TRUE
        /\ readers' = [p \in Pipes |-> "reading"]
        /\ UNCHANGED result
     \/ Return("Spawn") /\ UNCHANGED <<leader, readers, armed>>
  /\ UNCHANGED <<helper, late>>

\* terminate: the group, then the child; the readers are joined or aborted.
Overdue ==
  /\ pc = "wait" /\ late /\ leader = "running"
  /\ KillGroup /\ Disarm
  /\ readers' = NoReaders
  /\ Return("Timeout")
  /\ UNCHANGED late

Waited ==
  /\ pc = "wait" /\ leader \in {"succeeded", "failed"}
  /\ pc' = "stdout"
  /\ UNCHANGED <<leader, helper, readers, armed, late, result>>

\* join_reader_until: fails at the deadline, or when the reader does.
JoinReader(p, then) ==
  /\ pc = p
  /\ \/ readers[p] = "read" /\ pc' = then
        /\ UNCHANGED <<leader, helper, readers, armed, result>>
     \/ /\ readers[p] = "failed" \/ late
        /\ KillGroup /\ Disarm
        /\ readers' = NoReaders
        /\ Return(IF readers[p] = "failed" THEN "Pipe" ELSE "Timeout")
  /\ UNCHANGED late

\* The helpers of a tool that exited are left alone.
CompleteWithoutKill ==
  /\ pc = "joining"
  /\ Disarm /\ UNCHANGED <<leader, helper, readers, late>>
  /\ IF leader = "succeeded" THEN Return("Ok")
     ELSE \E r \in {"Exit", "MediaUnavailable"} : Return(r)

\* Whatever of the group has outlived the child is killed before the answer;
\* reports_unavailable_media tells a missing video from a failing tool.
Complete ==
  /\ pc = "joining"
  /\ KillGroup /\ Disarm /\ UNCHANGED <<readers, late>>
  /\ IF leader = "succeeded" THEN Return("Ok")
     ELSE \E r \in {"Exit", "MediaUnavailable"} : Return(r)

\* The caller goes away: kill_on_drop, and the guard for the rest of the group.
Drop ==
  /\ pc \notin {"returned", "dropped"}
  /\ pc' = "dropped"
  /\ IF armed THEN KillGroup ELSE UNCHANGED <<leader, helper>>
  /\ armed' = FALSE
  /\ readers' = readers
  /\ UNCHANGED <<late, result>>

Runner == \/ NoPermit \/ Start \/ Overdue \/ Waited
          \/ JoinReader("stdout", "stderr") \/ JoinReader("stderr", "joining") \/ Complete

-----------------------------------------------------------------------------
(* The tool and its pipes.  A pipe ends when nobody holds its writing end. *)

Fork == /\ leader = "running" /\ helper = "none"
        /\ helper' \in {"piped", "detached"}
        /\ UNCHANGED <<pc, leader, readers, armed, late, result>>

Exit == /\ leader = "running"
        /\ leader' \in {"succeeded", "failed"}
        /\ UNCHANGED <<pc, helper, readers, armed, late, result>>

HelperExits == /\ helper # "none"
               /\ helper' = "none"
               /\ UNCHANGED <<pc, leader, readers, armed, late, result>>

\* drain_bounded reads on after its limit and fails at the end of the pipe.
Drain(p) ==
  /\ readers[p] = "reading" /\ leader # "running" /\ helper # "piped"
  /\ \E r \in {"read", "failed"} : readers' = [readers EXCEPT ![p] = r]
  /\ UNCHANGED <<pc, leader, helper, armed, late, result>>

Deadline == /\ ~late /\ late' = TRUE
            /\ UNCHANGED <<pc, leader, helper, readers, armed, result>>

Init == /\ pc = "permit" /\ leader = "none" /\ helper = "none"
        /\ readers = NoReaders /\ armed = FALSE /\ late = FALSE /\ result = "none"

Next == \/ Runner \/ Drop
        \/ Fork \/ Exit \/ HelperExits \/ Deadline \/ \E p \in Pipes : Drain(p)

\* Time passes; the tool need not do anything.
Fairness == WF_vars(Runner) /\ WF_vars(Deadline)

Spec == Init /\ [][Next]_vars /\ Fairness

\* Nothing of the tool's process group is alive once the run is over, in
\* whatever way: an answer, the deadline, a failing pipe or a dropped caller.
NoOrphans == pc \in {"returned", "dropped"} => leader # "running" /\ helper = "none"

\* The run ends by its deadline even if the tool hangs or a helper keeps the
\* pipes open after the tool has exited.
RunEnds == <>(pc \in {"returned", "dropped"})

=============================================================================
