\* Three callers of one row: one that holds the old lock file's inode, one that
\* opens a new one, and one that unlinks it.
SPECIFICATION FairSpec
CONSTANTS
    Ids = {m1}
    Procs = {p1, p2, p3}
    Inodes = {i1, i2, i3, i4}
    Data = {d1}
    MaxVersion = 3
    NoRow = NoRow
    NoInode = NoInode
INVARIANTS
    RowsSafe
PROPERTIES
    ImplementsStore
    CallsReturn
CHECK_DEADLOCK FALSE
