SPECIFICATION FairIngestionSpec
CONSTANTS
    MaxLength = 5
    ChunkSizes = {1, 2, 3}
    Overlaps = {0, 1}
    ClusterSize = 2
    MaxLevel = 3
INVARIANTS
    ChunksSound
    TreeSound
PROPERTIES
    IngestEnds
