CONSTANT Nobody = Nobody
SPECIFICATION StartSpec
INVARIANT RescueAlive
CHECK_DEADLOCK FALSE
