CONSTANT Pressed <- MCPressed
SPECIFICATION NavSpec
INVARIANTS EscLeadsHome TypingStays FocusFits
CHECK_DEADLOCK FALSE
