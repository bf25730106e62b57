\* Two writers of one file, one reader.
SPECIFICATION Spec
CONSTANTS
    Writers = {w1, w2}
    Readers = {r1}
    Inode = {n1, n2, n3, n4, n5}
    NoInode = NoInode
    MaxVersion = 3
INVARIANTS
    WholeReads
CHECK_DEADLOCK FALSE
