\* Failed control sends as the comment describes them: reconciled next event.
SPECIFICATION Spec
CONSTANTS
    Mints = {m1, m2}
    MaxSubs = 2
    MaxOpen = 2
    MaxEvents = 3
INVARIANT
    ReconciledNextEvent
