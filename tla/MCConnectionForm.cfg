SPECIFICATION Spec
CONSTANTS
    Nodes = {n1, n2}
    Default = Default
    Blank = Blank
    Wrong = Wrong
    Colon = Colon
    NoFile = NoFile
    MaxTasks = 3
SYMMETRY Symmetry
INVARIANTS
    TypeOK
    LiveIsSaved
