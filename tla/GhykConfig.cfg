SPECIFICATION Spec
INVARIANTS FlagsOverFile DumpRoundTrip
CHECK_DEADLOCK FALSE
