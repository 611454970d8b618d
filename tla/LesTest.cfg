SPECIFICATION Spec
INVARIANTS PeerChecksSound
CHECK_DEADLOCK FALSE
