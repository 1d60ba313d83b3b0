SPECIFICATION ForeignSpec
CONSTANTS
    Wrapped <- MCWrapped
    Avoided <- MCAvoided
INVARIANTS
    NothingMiscast
    EveryCallAnswered
    HeldAsDeclared
