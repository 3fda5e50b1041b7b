SPECIFICATION Spec
CONSTANTS
    MaxFrame = 3
    MaxStream = 8
INVARIANTS TypeOK ChunkingInvisible BufferBounded
PROPERTY ReaderEnds
