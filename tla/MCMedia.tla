-------------------------------- MODULE MCMedia --------------------------------
(***************************************************************************)
(* Model checking of what becomes of a file: ManagedMedia, that keeps it   *)
(* on disk, and AudioRenderer, that processes the music decoded from it.   *)
(* They share no state: `part' chooses in the initial state which one      *)
(* runs; the other stays as it starts.                                     *)
(***************************************************************************)
EXTENDS MCManagedMedia

CONSTANTS Partition, Waves, MaxLength, Pairs, Transitions, Unit, \* AudioRenderer
          Gains, Blocks, MaxClock, MaxControls

ASSUME AudioAssumption ==
  /\ {Partition, MaxLength} \cup Blocks \subseteq Nat \ {0}
  /\ Waves \subseteq [channels : Nat, rate : Nat, frames : Nat, sound : BOOLEAN]
  /\ Pairs \subseteq Int \X Int

\* Levels are whole numbers: after each control, every level is a multiple of what
\* the longest chain of ramps that is still to come divides it by.
Whole(grain) ==
  \A c \in 0 .. MaxControls :
    /\ \A value \in Gains : value % grain[c] = 0
    /\ \A frames \in Transitions : frames > 1 =>
         /\ Unit % ((frames - 1) * grain[c]) = 0
         /\ c > 0 => grain[c - 1] % ((frames - 1) * grain[c]) = 0

ASSUME RampAssumption ==
  /\ {Unit, MaxClock, MaxControls} \subseteq Nat /\ Gains \subseteq 0 .. Unit
  /\ Transitions \subseteq Nat /\ \E frames \in Transitions : frames > 1
  /\ \E grain \in [0 .. MaxControls -> 1 .. Unit] : Whole(grain)

VARIABLES part,
          clock, place, mode, active, pending, fade, wet, gain, heard, before, controls

audioVars == <<clock, place, mode, active, pending, fade, wet, gain, heard, before, controls>>
allVars == <<vars, part, audioVars>>

Audio == INSTANCE AudioRenderer WITH Files <- Waves

On(p) == part = p

MCInit ==
  /\ part \in {"files", "audio"}
  /\ Init /\ Audio!Init
  /\ On("audio") \/ (wet.value = 0 /\ gain.remaining = 0 /\ active.file.channels = 7)

MCNext ==
  /\ UNCHANGED part
  /\ \/ On("files") /\ Next       /\ UNCHANGED audioVars
     \/ On("audio") /\ Audio!Next /\ UNCHANGED vars

MCSpec == MCInit /\ [][MCNext]_allVars

\* The presets of the small instance: one that is resampled and mirrored, one of
\* three partitions, and a file that is refused.
SomeWaves ==
  {[channels |-> 7, rate |-> 44100, frames |-> 3, sound |-> TRUE],
   [channels |-> 14, rate |-> 48000, frames |-> 5, sound |-> TRUE],
   [channels |-> 2, rate |-> 48000, frames |-> 3, sound |-> TRUE]}

\* Steering that leaves the front.
SomePairs == {<<-190, 90>>}

\* What is heard is the convolution of the preset with the music, from where it
\* should be heard (AudioProcessor, PartitionedStereoEngine).
AudioIsExact == On("audio") => Audio!RenderingIsExact

\* No fade and no ramp clicks (EqualPowerFade, UnitRamp).
LevelsAreContinuous == On("audio") => Audio!TypeOK /\ Audio!LevelsAreContinuous

================================================================================
