\* One writer, two readers.
SPECIFICATION Spec
CONSTANTS
    Writers = {w1}
    Readers = {r1, r2}
    Inode = {n1, n2, n3, n4, n5}
    NoInode = NoInode
    MaxVersion = 4
SYMMETRY Symmetry
INVARIANTS
    TypeOK
    WholeReads
    FreshReads
PROPERTIES
    TruthfulReturns
    ImplementsAtomicFile
CHECK_DEADLOCK FALSE
