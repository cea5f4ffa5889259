SPECIFICATION ThreadSpec
CONSTANT Roles = {"Initiator"}
CHECK_DEADLOCK FALSE
PROPERTY ConnectionGivesUp
