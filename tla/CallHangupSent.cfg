SPECIFICATION FairSpec
CONSTANT Roles = {"Initiator"}
CHECK_DEADLOCK FALSE
PROPERTY QueuedHangupIsSent
