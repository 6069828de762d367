\* Two calls of an Agent in flight at a time.
SPECIFICATION SimulatorSpec
CONSTANT Calls = {c1, c2}
INVARIANTS EventsExplainState AnswersAreTrue
PROPERTY CallsAreAnswered
CHECK_DEADLOCK FALSE
