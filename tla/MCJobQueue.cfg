CONSTANTS
    Jobs = {j1, j2}
    NoJob = NoJob
    InitialSize = 1
    MaxSize = 4
SPECIFICATION QueueSpec
CONSTRAINT DepthBound
PROPERTIES
    ImplementsDeque
