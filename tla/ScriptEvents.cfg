SPECIFICATION Spec
CONSTANTS
    Events = {1, 2, 3}
    NoEvent = 0
    Keys = {1}
    FragmentSize = 2
    MaxWait = 0
    ForcedWait = 1
    MaxForks = 2
    Scripts <- MCScripts
INVARIANTS HandlersAccounted
PROPERTIES FreshStart ResumedInOrder FragmentEnds
