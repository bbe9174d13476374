----------------------------- MODULE AudioRenderer -----------------------------
(***************************************************************************)
(* The audio processor of one PCM worker (pepeaudio-audio): two renderers  *)
(* that convolve the music with an HRIR preset by partitioned overlap-save,*)
(* a cross-fade from one preset to the next, and the ramps of the wet mix  *)
(* and of the gain.                                                        *)
(*                                                                         *)
(* The n-th frame of the music is the number n, silence is 0, and a        *)
(* spectrum stands for the block of time it is the transform of.  What is  *)
(* rendered is the set of products the sum is made of: <<n, t>> is frame n *)
(* weighted by tap t.  Arithmetic is thus exact, and equal sets are equal  *)
(* sums whatever the samples and the taps.  A ramp moves in Unit-ths.      *)
(***************************************************************************)
EXTENDS Integers, Sequences, FiniteSets, Functions

CONSTANTS Partition,    \* PARTITION_FRAMES
          Files,        \* the WAVE files of the presets: channels, rate, frames, sound
          MaxLength,    \* LoadLimits::max_frames
          Pairs,        \* <<center, width>>: the positions a caller asks for
          Transitions,  \* the lengths of fades and ramps, in frames
          Unit,         \* a full ramp: divisible by every step taken
          Gains,        \* the output gains asked for, in 0 .. Unit
          Blocks,       \* the lengths of the blocks the decoder delivers
          MaxClock, MaxControls  \* bounds: frames of music, control commands

VARIABLES clock,        \* frames of music so far
          place,        \* SpatialPosition of the worker
          mode,         \* the position of RenderMode::HorizontalOrbit
          active, pending, fade, wet, gain,
          heard,        \* the last block: what the renderers gave, the levels
          before,       \* the levels of the frame before it
          controls

\* None: it differs from every record.
Nothing == <<>>

vars == <<clock, place, mode, active, pending, fade, wet, gain, heard, before, controls>>

-----------------------------------------------------------------------------
(* The presets: which track of the file is heard from where.               *)

AllDirections == <<"FL", "FR", "FC", "BL", "BR", "SL", "SR">>
DirectionIndex(direction) == CHOOSE i \in 1 .. 7 : AllDirections[i] = direction

Map14 == <<<<0, 1>>, <<8, 7>>, <<6, 13>>, <<4, 5>>, <<12, 11>>, <<2, 3>>, <<10, 9>>>>
Map7 == <<<<0, 1>>, <<1, 0>>, <<6, 6>>, <<4, 5>>, <<5, 4>>, <<2, 3>>, <<3, 2>>>>

\* The tracks of the left and the right ear of a direction.
LoadedPair(file, direction) ==
  (IF file.channels = 14 THEN Map14 ELSE Map7)[DirectionIndex(direction)]

Loads(file) ==
  /\ file.channels \in {7, 14} /\ file.rate \in {44100, 48000}
  /\ file.frames \in 1 .. MaxLength
  /\ file.sound

\* A preset of 44.1 kHz is resampled to 48 kHz.
Taps(file) ==
  IF file.rate = 48000 THEN file.frames
  ELSE LET scaled == (file.frames * 160 + 73) \div 147 IN IF scaled = 0 THEN 1 ELSE scaled

PreparedOrder == <<"FL", "FR", "FC", "BL", "BR", "SL", "SR">>
Prepared(file) == [i \in 1 .. 7 |-> LoadedPair(file, PreparedOrder[i])]
Kernel(file, index) == Prepared(file)[DirectionIndex(AllDirections[index])]

\* The impulse in partitions: the taps of each, the rest of it is silence.
PartitionCount(file) == (Taps(file) + Partition - 1) \div Partition
Plane(file) ==
  [d \in 0 .. PartitionCount(file) - 1 |->
     {k \in 0 .. Partition - 1 : d * Partition + k < Taps(file)}]

-----------------------------------------------------------------------------
(* Directions: degrees, left is positive.                                  *)

Anchors == <<<<-150, "BR">>, <<-90, "SR">>, <<-30, "FR">>, <<0, "FC">>,
             <<30, "FL">>, <<90, "SL">>, <<150, "BL">>>>

Normalize(degrees) == LET turn == degrees % 360 IN IF turn > 180 THEN turn - 360 ELSE turn

Position(pair) == [center |-> Normalize(pair[1]), width |-> pair[2]]
LeftDegrees(position) == Normalize(position.center + position.width \div 2)
RightDegrees(position) == Normalize(position.center - position.width \div 2)

\* The two directions an azimuth is between, and how far it is from the first
\* to the second: weights of equal power follow from the fraction.
Blend(degrees) ==
  LET azimuth == Normalize(degrees)
      Within(i) == Anchors[i][1] <= azimuth /\ azimuth < Anchors[i + 1][1]
  IN IF azimuth < -150 \/ azimuth >= 150
     THEN [first |-> "BL", second |-> "BR", arc |-> 60,
           at |-> (IF azimuth < -150 THEN azimuth + 360 ELSE azimuth) - 150]
     ELSE LET i == CHOOSE i \in 1 .. Len(Anchors) - 1 : Within(i)
          IN [first |-> Anchors[i][2], second |-> Anchors[i + 1][2],
              arc |-> Anchors[i + 1][1] - Anchors[i][1], at |-> azimuth - Anchors[i][1]]

\* The tracks a source is convolved with, and their shares in sixtieths.
Selection(file, degrees) ==
  LET blend == Blend(degrees)
      share == (60 * blend.at) \div blend.arc
  IN {plane \in {<<Kernel(file, DirectionIndex(blend.first)), 60 - share>>,
                 <<Kernel(file, DirectionIndex(blend.second)), share>>} : plane[2] # 0}

-----------------------------------------------------------------------------
(* The convolution.                                                        *)

Silent(n) == [i \in 1 .. n |-> 0]
Audible(products) == {p \in products : p[1] # 0}

NewHistory(count) ==
  [previous |-> Silent(Partition), current |-> Silent(Partition),
   spectra |-> [slot \in 0 .. count - 1 |-> Silent(2 * Partition)], slot |-> 0, fill |-> 0]

\* SourceHistory::append_interleaved: frames `first' ...
AppendInterleaved(history, first, frames) ==
  LET current == [i \in 1 .. Partition |->
                    IF i \in history.fill + 1 .. history.fill + frames
                    THEN first + (i - history.fill - 1) ELSE history.current[i]]
  IN [history EXCEPT !.current = current, !.fill = @ + frames,
                     !.spectra[history.slot] = history.previous \o current]

SpectrumAtDelay(history, delay) ==
  LET count == Cardinality(DOMAIN history.spectra)
  IN history.spectra[(history.slot + count - delay) % count]

FinishPartition(history) ==
  IF history.fill # Partition THEN history
  ELSE LET next == (history.slot + 1) % Cardinality(DOMAIN history.spectra)
       IN [history EXCEPT !.previous = history.current, !.current = Silent(Partition),
                          !.fill = 0, !.slot = next, !.spectra[next] = Silent(2 * Partition)]

\* Place `at' of the cyclic convolution: the half kept is free of the wrap.
Convolve(history, file, at) ==
  Audible(UNION {{<<SpectrumAtDelay(history, d)[((at - k) % (2 * Partition)) + 1],
                    d * Partition + k>> : k \in Plane(file)[d]} : d \in DOMAIN Plane(file)})

\* DirectFir: the oracle the partitioned engine is held against.
NewDirect(length) == [history |-> [i \in 0 .. length - 1 |-> 0], write |-> 0]
DirectSample(direct, frame) ==
  LET length == Cardinality(DOMAIN direct.history)
      history == [direct.history EXCEPT ![direct.write] = frame]
  IN [next |-> [history |-> history, write |-> (direct.write + 1) % length],
      sum |-> Audible({<<history[(direct.write + length - tap) % length], tap>>
                       : tap \in 0 .. length - 1})]

Sources == {"left", "right"}

\* A renderer as it is prepared; `serial' and `born' only identify it.
Renderer(file, position, serial) ==
  [file |-> file, position |-> position, serial |-> serial, born |-> clock,
   sources |-> [s \in Sources |-> NewHistory(PartitionCount(file))],
   direct |-> NewDirect(Taps(file))]
ResetRenderer(renderer) == Renderer(renderer.file, renderer.position, renderer.serial)

\* The oracle over the frames from `first' on.
Oracle(direct, first, frames) ==
  LET oracle[i \in 0 .. frames] ==
        IF i = 0 THEN [next |-> direct, sum |-> {}]
        ELSE DirectSample(oracle[i - 1].next, first + i - 1)
  IN oracle

\* One piece of a block: what it sounds like, and the renderer after it.
RenderPiece(state, frames) ==
  LET r == state.renderer
      start == r.sources["left"].fill
      appended == [s \in Sources |-> AppendInterleaved(r.sources[s], state.frame, frames)]
      oracle == Oracle(r.direct, state.frame, frames)
  IN [renderer |-> [r EXCEPT !.sources = [s \in Sources |-> FinishPartition(appended[s])],
                             !.direct = oracle[frames].next],
      frame |-> state.frame + frames, left |-> state.left - frames,
      sound |-> state.sound \o [i \in 1 .. frames |->
        [s \in Sources |-> Convolve(appended[s], r.file, Partition + start + i - 1)]],
      direct |-> state.direct \o [i \in 1 .. frames |-> oracle[i].sum]]

\* A piece ends where its partition does.
PieceLength(state) ==
  LET room == Partition - state.renderer.sources["left"].fill
  IN IF state.left < room THEN state.left ELSE room

\* The pieces of a block, one after the other; there is a frame in each.
Pieces(renderer, frames) ==
  LET pieces[n \in 0 .. frames] ==
        IF n = 0 THEN [renderer |-> renderer, frame |-> clock + 1, left |-> frames,
                       sound |-> <<>>, direct |-> <<>>]
        ELSE IF pieces[n - 1].left = 0 THEN pieces[n - 1]
        ELSE RenderPiece(pieces[n - 1], PieceLength(pieces[n - 1]))
  IN pieces
RenderBlock(renderer, frames) == Pieces(renderer, frames)[frames]

\* Mutant: a renderer that is not heard is left alone.
LeftAlone(renderer, frames) == renderer

\* A renderer that is not heard still takes the music in.
Warmed(renderer, frames) == RenderBlock(renderer, frames).renderer

\* What a renderer gave for a block.
Rendering(renderer, block) ==
     [file |-> renderer.file, born |-> renderer.born, position |-> renderer.position,
      planes |-> [left |-> Selection(renderer.file, LeftDegrees(renderer.position)),
                  right |-> Selection(renderer.file, RightDegrees(renderer.position))],
      sound |-> block.sound, direct |-> block.direct]

-----------------------------------------------------------------------------
(* Ramps.                                                                  *)

Settled(value) == [value |-> value, target |-> value, step |-> 0, remaining |-> 0]
SetTarget(ramp, target, frames) ==
  IF frames <= 1 THEN Settled(target)
  ELSE [value |-> ramp.value, target |-> target, remaining |-> frames,
        step |-> (target - ramp.value) \div (frames - 1)]
NextValue(ramp) ==
  CASE ramp.remaining = 0 -> ramp
    [] ramp.remaining = 1 -> Settled(ramp.target)
    [] OTHER -> [ramp EXCEPT !.value = @ + ramp.step, !.remaining = @ - 1]
Settle(ramp) == Settled(ramp.target)

\* The ramp after each of the frames of a block, and its values over the block.
Run(ramp, frames) ==
  LET run[i \in 0 .. frames] == IF i = 0 THEN ramp ELSE NextValue(run[i - 1]) IN run
After(ramp, frames) == Run(ramp, frames)[frames]
Values(ramp, frames) == [i \in 1 .. frames |-> Run(ramp, frames)[i - 1].value]

NewFade(frames) == SetTarget(Settled(0), Unit, frames)

-----------------------------------------------------------------------------
(* The processor.                                                          *)

FullyDry == wet.remaining = 0 /\ wet.value = 0 /\ pending = Nothing

\* The level of each renderer, of the wet mix and of the output, by frame.
Levels(fades, wets, gains) ==
  [i \in 1 .. Len(gains) |->
     [share |-> IF pending = Nothing THEN [n \in {active.serial} |-> Unit]
                ELSE [n \in {active.serial, pending.serial} |->
                        IF n = pending.serial THEN fades[i] ELSE Unit - fades[i]],
      wet |-> wets[i], gain |-> gains[i]]]

LastLevel == IF heard.levels = <<>> THEN before ELSE heard.levels[Len(heard.levels)]

\* DspState::build_processor
Init ==
  /\ clock = 0 /\ controls = 0
  /\ place = Position(<<0, 60>>) /\ mode = place
  /\ \E file \in Files : Loads(file) /\ active = Renderer(file, place, 0)
  /\ pending = Nothing /\ fade = Nothing
  /\ \E frames \in Transitions : gain = SetTarget(Settled(0), Unit, frames)
  /\ \E value \in {0, Unit} : wet = Settled(value)
  /\ heard = [start |-> 0, wet |-> <<>>, levels |-> <<>>] /\ before = Nothing

\* set_orbit_position, which the worker calls before each block.
Steered(renderer) == IF renderer = Nothing THEN Nothing ELSE [renderer EXCEPT !.position = place]

\* process_block, when nothing of the renderers is heard
ProcessDry(frames) ==
  LET gains == Values(gain, frames)
  IN /\ FullyDry
     /\ active' = Warmed(Steered(active), frames)
     /\ heard' = [start |-> clock, wet |-> <<>>,
                  levels |-> Levels(<<>>, [i \in 1 .. frames |-> 0], gains)]
     /\ UNCHANGED <<pending, fade, wet>>

\* Mutant: the replacement takes over at the end of the first block.
CompletedByBlock(ramp) == ramp.remaining >= 0

Completed(ramp) == ramp.remaining = 0

\* process_block: both renderers, then the fade that may be over
ProcessWet(frames) ==
  LET now == Steered(active)
      then == Steered(pending)
      after == IF fade = Nothing THEN Nothing ELSE After(fade, frames)
      swap == fade # Nothing /\ Completed(after)
      old == RenderBlock(now, frames)
      new == RenderBlock(then, frames)
  IN /\ ~FullyDry
     /\ active' = IF swap THEN new.renderer ELSE old.renderer
     /\ pending' = IF pending = Nothing \/ swap THEN Nothing ELSE new.renderer
     /\ fade' = IF swap THEN Nothing ELSE after
     /\ wet' = After(wet, frames)
     /\ heard' = [start |-> clock,
                  wet |-> <<Rendering(now, old)>>
                          \o (IF pending = Nothing THEN <<>> ELSE <<Rendering(then, new)>>),
                  levels |-> Levels(IF fade = Nothing THEN <<>> ELSE Values(fade, frames),
                                    Values(wet, frames), Values(gain, frames))]

ProcessBlock(frames) ==
  /\ clock + frames <= MaxClock
  /\ clock' = clock + frames
  /\ mode' = place
  /\ gain' = After(gain, frames)
  /\ before' = LastLevel
  /\ ProcessDry(frames) \/ ProcessWet(frames)
  /\ UNCHANGED <<place, controls>>

Control ==
  /\ controls < MaxControls
  /\ controls' = controls + 1
  /\ UNCHANGED clock

\* After a change that is meant to be heard at once, the next frame does not
\* continue the last one.
Forget(frames) ==
  IF frames <= 1
  THEN before' = Nothing /\ heard' = [heard EXCEPT !.levels = <<>>]
  ELSE UNCHANGED <<heard, before>>

SetOutputGain(value, frames) ==
  /\ Control /\ gain' = SetTarget(gain, value, frames) /\ Forget(frames)
  /\ UNCHANGED <<place, mode, active, pending, fade, wet>>

SetWetEnabled(enabled, frames) ==
  /\ Control /\ wet' = SetTarget(wet, IF enabled THEN Unit ELSE 0, frames) /\ Forget(frames)
  /\ UNCHANGED <<place, mode, active, pending, fade, gain>>

SetOrbitPosition(pair) ==
  /\ Control
  /\ place' = Position(pair) /\ mode' = Position(pair)
  /\ active' = [active EXCEPT !.position = Position(pair)]
  /\ pending' = IF pending = Nothing THEN Nothing
                ELSE [pending EXCEPT !.position = Position(pair)]
  /\ UNCHANGED <<fade, wet, gain, heard, before>>

\* install_prepared_renderer and set_wet_enabled: refused while a preset is
\* being faded in; the position it was prepared for may be stale.
InstallPreset(file, frames) ==
  LET serial == 1 + active.serial
      replacement == Renderer(file, mode, serial)
  IN /\ Control /\ pending = Nothing /\ Loads(file)
     /\ IF frames <= 1
        THEN active' = ResetRenderer(replacement) /\ UNCHANGED <<pending, fade>>
        ELSE pending' = replacement /\ fade' = NewFade(frames) /\ UNCHANGED active
     /\ wet' = SetTarget(wet, Unit, frames)
     /\ Forget(frames)
     /\ UNCHANGED <<place, mode, gain>>

\* AudioProcessor::reset: a replacement that was being faded in is active.
Reset ==
  /\ Control
  /\ active' = ResetRenderer(IF pending = Nothing THEN active ELSE pending)
  /\ pending' = Nothing /\ fade' = Nothing
  /\ wet' = Settle(wet) /\ gain' = Settle(gain)
  /\ Forget(0)
  /\ UNCHANGED <<place, mode>>

Next ==
  \/ \E frames \in Blocks : ProcessBlock(frames)
  \/ \E frames \in Transitions :
       \/ \E value \in Gains : SetOutputGain(value, frames)
       \/ \E enabled \in BOOLEAN : SetWetEnabled(enabled, frames)
       \/ \E file \in Files : InstallPreset(file, frames)
  \/ \E pair \in Pairs : SetOrbitPosition(pair)
  \/ Reset

Spec == Init /\ [][Next]_vars

-----------------------------------------------------------------------------

TypeOK ==
  /\ clock \in 0 .. MaxClock /\ controls \in 0 .. MaxControls
  /\ \A ramp \in {wet, gain} \cup ({fade} \ {Nothing}) :
       /\ {ramp.value, ramp.target} \subseteq 0 .. Unit
       /\ ramp.remaining = 0 => ramp.value = ramp.target
  /\ (pending = Nothing) = (fade = Nothing)

\* Whatever the blocks the music came in, whether a renderer was heard all the
\* time, and whatever it was faded over: each frame it gives is the convolution
\* of its preset with the music since it began, and the direct filter agrees.
WetIsConvolution ==
  \A i \in DOMAIN heard.wet : LET w == heard.wet[i] IN
    \A j \in DOMAIN w.sound : LET frame == heard.start + j IN
      \A s \in Sources :
        /\ w.sound[j][s] = {<<frame - t, t>> : t \in {t \in 0 .. Taps(w.file) - 1 : frame - t > w.born}}
        /\ w.sound[j][s] = w.direct[j]

Bearing == [d \in Range(AllDirections) |-> (CHOOSE a \in Range(Anchors) : a[2] = d)[1]]

\* Each side of the music is heard from where it is placed: from the loaded
\* tracks of the nearest loudspeaker to the right of it and of the nearest to
\* the left, in the ratio of its distances to them; and with a preset that was
\* measured on one side only, the mirrored place sounds with the ears exchanged.
SteeringIsExact ==
  \A i \in DOMAIN heard.wet : LET w == heard.wet[i] IN
    \A s \in Sources :
      LET azimuth == IF s = "left" THEN LeftDegrees(w.position) ELSE RightDegrees(w.position)
          Turn(from, to) == (to - from) % 360
          directions == Range(AllDirections)
          near == CHOOSE d \in directions : \A e \in directions :
                    Turn(Bearing[d], azimuth) <= Turn(Bearing[e], azimuth)
          beyond == CHOOSE d \in directions \ {near} : \A e \in directions \ {near} :
                      Turn(azimuth, Bearing[d]) <= Turn(azimuth, Bearing[e])
          arc == Turn(Bearing[near], Bearing[beyond])
          at == Turn(Bearing[near], azimuth)
      IN /\ w.planes[s] = {p \in {<<LoadedPair(w.file, near), 60 - (60 * at) \div arc>>,
                                  <<LoadedPair(w.file, beyond), (60 * at) \div arc>>} : p[2] # 0}
         /\ w.file.channels = 7 =>
              Selection(w.file, -azimuth) = {<<<<p[1][2], p[1][1]>>, p[2]>> : p \in w.planes[s]}

\* What is rendered is what the preset, the place and the music say.
RenderingIsExact == WetIsConvolution /\ SteeringIsExact

\* No click: over a fade or a ramp, interrupted or not, and over the end of a
\* block, no level moves by more than a step of the fade; only a change that is
\* asked for without a transition, or a reset, is heard at once.
LevelsAreContinuous ==
  LET shortest == CHOOSE n \in Transitions : n > 1 /\ \A m \in Transitions : m > 1 => n <= m
      largest == Unit \div (shortest - 1)
      Share(level, serial) == IF serial \in DOMAIN level.share THEN level.share[serial] ELSE 0
      Close(a, b) == a - b <= largest /\ b - a <= largest
      frames == (IF before = Nothing THEN <<>> ELSE <<before>>) \o heard.levels
  IN \A i \in 1 .. Len(frames) - 1 :
       /\ Close(frames[i].wet, frames[i + 1].wet) /\ Close(frames[i].gain, frames[i + 1].gain)
       /\ \A serial \in DOMAIN frames[i].share \cup DOMAIN frames[i + 1].share :
            Close(Share(frames[i], serial), Share(frames[i + 1], serial))

================================================================================
