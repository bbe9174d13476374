\* CHECK_DEADLOCK: as in Media.cfg.
CONSTANTS
  Files = {f1, f2, f3}
  MaximumBytes = 3
  MaximumEntries = 2
  MaxDownload = 2
SPECIFICATION Spec
INVARIANT EntriesAreFiles
SYMMETRY Symmetry
CHECK_DEADLOCK FALSE
