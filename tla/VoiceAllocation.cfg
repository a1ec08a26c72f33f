CONSTANTS
    Channels = 2
    Keys <- McKeys
    Layers <- McLayers
    Voices = {v1, v2}
    Notes = {n1, n2, n3}
    NoNote = NoNote
    Scenarios <- McScenarios
    MaxEvents = 2
SYMMETRY McSymmetry
SPECIFICATION Spec
INVARIANTS StealingEnds StolenIsReplaced HangsOnlyIfMissed ListsComplete
