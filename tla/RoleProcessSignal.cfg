SPECIFICATION Spec
INVARIANT NonZeroOnlyOnFailure
CHECK_DEADLOCK FALSE
