SPECIFICATION Spec
CONSTANT Roles = {"Initiator", "Responder"}
CHECK_DEADLOCK FALSE
INVARIANT SignalingStaysOpen
