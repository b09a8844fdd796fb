SPECIFICATION KeySpec
CONSTANTS
    Servers = {p1, p2, p3}
    Salts = {s1, s2, s3}
    Absent = Absent
    Empty = Empty
SYMMETRY Symmetry
INVARIANTS
    FirstWriterWins
