SPECIFICATION Spec
CONSTANT AgentSkills <- MCAgentSkills
CONSTANT MaxPathNodes = 5
INVARIANT PlanFailsClosed
INVARIANT TraceTellsRun
INVARIANT GroundedOutputIsReal
PROPERTY RunEndsClean
CHECK_DEADLOCK FALSE
