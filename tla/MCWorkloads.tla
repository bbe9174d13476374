----------------------------- MODULE MCWorkloads -----------------------------
(***************************************************************************)
(* Model checking of Player under two workloads, one of which `workload'   *)
(* chooses in the initial state: edits of a longer queue and settings,     *)
(* with an adapter that comes and goes; and the ends of tracks among       *)
(* skips, previous and repeat, with fewer tracks but more generations.     *)
(***************************************************************************)
EXTENDS MCPlayer

CONSTANTS t4, v2    \* what only the edits use

VARIABLE workload

Ends == INSTANCE Player WITH
          Tracks <- Tracks \ {t4}, Volumes <- Volumes \ {v2}, Presets <- {},
          MaxQueued <- 2, MaxRevision <- 6, MaxGeneration <- 5, MaxEnds <- 2,
          MaxBatch <- 2, Inputs <- QueueInputs

On(w) == workload = w

MCInit == \/ On("edits") /\ Init
          \/ On("ends")  /\ Ends!Init

MCNext == /\ UNCHANGED workload
          /\ \/ On("edits") /\ Next
             \/ On("ends")  /\ Ends!Next

MCSpec == MCInit /\ [][MCNext]_<<vars, workload>>

==============================================================================
