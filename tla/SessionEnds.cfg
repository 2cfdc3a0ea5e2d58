CONSTANT None = None
SPECIFICATION LiveSpec
INVARIANT TypeOK ReleaseTruthful StoppedWithdrawn KnownBindingReleased SettledQuiet
PROPERTY AlwaysCloses
CHECK_DEADLOCK FALSE
