------------------------------ MODULE MCPlayer ------------------------------
(* Instances of Player for TLC. *)
EXTENDS Player

\* Tracks, channels and keys are only compared with each other.
Symmetry == Permutations(Tracks) \cup Permutations(Channels) \cup Permutations(Keys)

\* What the environment sends in each run.
QueueInputs   == {"connect", "enqueue", "skip", "previous", "repeat"}
CommandInputs == {"connect", "enqueue", "remove", "move", "shuffle", "previous", "play",
                  "pause", "seek", "volume", "hrir", "spatial", "disconnect", "observe"}
VoiceInputs   == {"connect", "enqueue", "stop", "skip", "seek", "disconnect", "observe",
                  "join", "shutdown"}

\* Actor, adapter and timer agree on where the player is and what it plays: it is
\* in its channel, its track is loaded there or reported as ended, and exactly
\* while it idles there an expiration is pending (reconcile_idle,
\* reconcile_voice_channel).
VoiceIsAttended == TypeOK /\ VoiceBacked /\ CurrentIsBacked /\ IdleTimerExact
=============================================================================
