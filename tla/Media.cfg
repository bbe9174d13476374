\* CHECK_DEADLOCK: with every ingest done and no file left only a restart remains;
\* the music and the controls are used up.
CONSTANTS
  Files = {f1, f2, f3}
  MaximumBytes = 3
  MaximumEntries = 2
  MaxDownload = 2
  Partition = 2
  Waves <- SomeWaves
  MaxLength = 5
  Pairs <- SomePairs
  Transitions = {1, 5}
  Unit = 64
  Gains = {32}
  Blocks = {1, 3}
  MaxClock = 7
  MaxControls = 2
SPECIFICATION MCSpec
INVARIANTS QuotaIsHard LeasedFileExists AudioIsExact LevelsAreContinuous
SYMMETRY Symmetry
CHECK_DEADLOCK FALSE
