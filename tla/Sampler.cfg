SPECIFICATION FairSpec
CONSTANTS
    Channels = {"c1", "c2", "c3"}
    EngineTypes = {"gig", "sfz"}
    AudioDevices = {"d1", "d2"}
    MidiPorts = {"p1", "p2"}
    MidiChannels = {"any", "ch1"}
    AnyChannel = "any"
    None = None
    Scenarios <- MCScenarios
INVARIANTS PartsAgree CalledExists
PROPERTIES CommandEnds
CHECK_DEADLOCK FALSE
