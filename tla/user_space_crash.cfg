SPECIFICATION Spec
INVARIANT UserSpaceSurvives
CHECK_DEADLOCK FALSE
