\* One token; a simulate-only live run and a sending one share the state file.
SPECIFICATION BootSpec
CONSTANTS
    Mints = {m1}
    PgBuilt = TRUE
INVARIANT SimulatedNeverMistaken
CHECK_DEADLOCK FALSE
