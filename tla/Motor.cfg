SPECIFICATION MotorSpec
CHECK_DEADLOCK FALSE
CONSTANT Moves <- SomeMoves
INVARIANT WaitEndsMoving
