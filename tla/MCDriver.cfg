CONSTANTS
    Jobs <- AllJobs
    Times <- RawTimes
    Garbage <- AllGarbage
    Found <- FoundBetween
    Zero = 0
    Plus <- AnyOf
    Capacity = 4
    SizeWidth = 65536
    Junk = Junk
SPECIFICATION Spec
INVARIANTS
    TypeOK
    ParsedAsWritten
    FedAsWritten
    PrintedInPiece
