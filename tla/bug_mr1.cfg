CONSTANT Width = 2
SPECIFICATION Spec
INVARIANT TerminationAsAsked
CHECK_DEADLOCK FALSE
