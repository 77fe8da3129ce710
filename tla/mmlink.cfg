CONSTANTS
    Streams <- MC_StreamsFit
    BufSize = 4
SPECIFICATION Spec
INVARIANTS TypeOK RepliesMatchStream
PROPERTIES LinesAnswered
