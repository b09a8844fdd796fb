------------------------------ MODULE JSONStore ------------------------------
(***************************************************************************)
(* migrate/store_json.go at the level of its system calls: one data file   *)
(* <id>.json per row, replaced by rename, and one lock file <id>.lock whose *)
(* inode is opened and then flock()ed.  Several processes (server          *)
(* goroutines, another entree-api process, `entree-api gc --once`) call the *)
(* store at once.                                                          *)
(*                                                                         *)
(* Delete unlinks the lock file after releasing it, so two callers may     *)
(* hold flocks on two different inodes for one id.  Callers do not Create   *)
(* an id twice or Delete one they never saw: the ids of the HTTP handlers   *)
(* are fresh UUIDs, and their Delete follows a successful Get.              *)
(***************************************************************************)
EXTENDS Naturals, FiniteSets

CONSTANTS
    Ids,         \* migration ids
    Procs,       \* concurrent callers of the store
    Inodes,      \* inode numbers available to lock files
    Data,        \* row contents, other than the version
    MaxVersion,  \* bound on the version an Update submits
    NoRow, NoInode

ASSUME JSONStoreAssumption ==
    /\ MaxVersion \in Nat \ {0}
    /\ NoInode \notin Inodes
    /\ NoRow \notin [version : 1..MaxVersion, data : Data]

VARIABLES
    files,     \* files[id]: the decoded content of <id>.json, or NoRow
    lockName,  \* lockName[id]: the inode linked as <id>.lock, or NoInode
    expired,   \* ids whose row has passed its ExpiresAt
    pc,        \* pc[p]: where p is inside its store call
    call,      \* call[p]: the operation, id and row p submitted
    fd,        \* fd[p]: the lock-file inode p has open, or NoInode
    born,      \* ids some caller passed to Create            (history)
    gone       \* ids whose data file has been removed        (history)

vars == <<files, lockName, expired, pc, call, fd, born, gone>>

Row == [version : 1..MaxVersion, data : Data]
Ops == {"create", "update", "delete"}
Call == [op : Ops, id : Ids, row : Row \cup {NoRow}]
NoCall == [op |-> "none"]
PCs == {"idle", "open", "flock", "held", "write", "unlock", "rmunlock", "rmlock"}

TypeOK ==
    /\ files \in [Ids -> Row \cup {NoRow}]
    /\ lockName \in [Ids -> Inodes \cup {NoInode}]
    /\ expired \in SUBSET Ids
    /\ pc \in [Procs -> PCs]
    /\ call \in [Procs -> Call \cup {NoCall}]
    /\ fd \in [Procs -> Inodes \cup {NoInode}]
    /\ born \in SUBSET Ids
    /\ gone \in SUBSET Ids

Init ==
    /\ files = [id \in Ids |-> NoRow]
    /\ lockName = [id \in Ids |-> NoInode]
    /\ expired = {}
    /\ pc = [p \in Procs |-> "idle"]
    /\ call = [p \in Procs |-> NoCall]
    /\ fd = [p \in Procs |-> NoInode]
    /\ born = {}
    /\ gone = {}

-----------------------------------------------------------------------------
(* Callers.                                                                 *)

Begin(p, op, id, m) ==
    /\ pc[p] = "idle"
    /\ pc' = [pc EXCEPT ![p] = "open"]
    /\ call' = [call EXCEPT ![p] = [op |-> op, id |-> id, row |-> m]]
    /\ UNCHANGED <<files, lockName, expired, fd, gone>>

\* Create stamps Version 1.
BeginCreate(p, id, d) ==
    /\ id \notin born
    /\ Begin(p, "create", id, [version |-> 1, data |-> d])
    /\ born' = born \cup {id}

\* A caller of Update read the row with Get and submits its successor.
BeginUpdate(p, id, d) ==
    /\ files[id] # NoRow
    /\ id \notin expired
    /\ files[id].version < MaxVersion
    /\ Begin(p, "update", id, [version |-> files[id].version + 1, data |-> d])
    /\ UNCHANGED born

\* A caller of Delete read the row with Get.
BeginDelete(p, id) ==
    /\ files[id] # NoRow
    /\ id \notin expired
    /\ Begin(p, "delete", id, NoRow)
    /\ UNCHANGED born

\* SweepExpired reads a row, finds it expired and calls Delete on its id.
SweepExpired(p, id) ==
    /\ files[id] # NoRow
    /\ id \in expired
    /\ Begin(p, "delete", id, NoRow)
    /\ UNCHANGED born

\* The clock passes the row's ExpiresAt.
Expire(id) ==
    /\ files[id] # NoRow
    /\ expired' = expired \cup {id}
    /\ UNCHANGED <<files, lockName, pc, call, fd, born, gone>>

-----------------------------------------------------------------------------
(* lockFile and releaseLock.                                                *)

FreeInodes ==
    Inodes \ ({lockName[id] : id \in Ids} \cup {fd[p] : p \in Procs})

\* os.OpenFile(path, O_CREATE|O_RDWR): the linked inode, or a new one.
OpenLock(p) ==
    LET id == call[p].id IN
    /\ pc[p] = "open"
    /\ \/ /\ lockName[id] # NoInode
          /\ fd' = [fd EXCEPT ![p] = lockName[id]]
          /\ UNCHANGED lockName
       \/ /\ lockName[id] = NoInode
          /\ \E i \in FreeInodes :
               /\ lockName' = [lockName EXCEPT ![id] = i]
               /\ fd' = [fd EXCEPT ![p] = i]
    /\ pc' = [pc EXCEPT ![p] = "flock"]
    /\ UNCHANGED <<files, expired, call, born, gone>>

HoldsLock(p) == pc[p] \in {"held", "write", "unlock", "rmunlock"}

\* Mutant of Flock: a shared lock.
FlockShared(p) ==
    /\ pc[p] = "flock"
    /\ pc' = [pc EXCEPT ![p] = "held"]
    /\ UNCHANGED <<files, lockName, expired, call, fd, born, gone>>

\* flock(LOCK_EX) blocks while another caller holds the same inode.
Flock(p) ==
    /\ pc[p] = "flock"
    /\ \A q \in Procs \ {p} : HoldsLock(q) => fd[q] # fd[p]
    /\ pc' = [pc EXCEPT ![p] = "held"]
    /\ UNCHANGED <<files, lockName, expired, call, fd, born, gone>>

\* releaseLock; Delete goes on to unlink the lock file.
Unlock(p) ==
    /\ pc[p] \in {"unlock", "rmunlock"}
    /\ pc' = [pc EXCEPT ![p] = IF pc[p] = "unlock" THEN "idle" ELSE "rmlock"]
    /\ fd' = [fd EXCEPT ![p] = NoInode]
    /\ call' = IF pc[p] = "unlock" THEN [call EXCEPT ![p] = NoCall] ELSE call
    /\ UNCHANGED <<files, lockName, expired, born, gone>>

\* os.Remove(lockPath), after the lock was released.
RemoveLock(p) ==
    /\ pc[p] = "rmlock"
    /\ lockName' = [lockName EXCEPT ![call[p].id] = NoInode]
    /\ pc' = [pc EXCEPT ![p] = "idle"]
    /\ call' = [call EXCEPT ![p] = NoCall]
    /\ UNCHANGED <<files, expired, fd, born, gone>>

-----------------------------------------------------------------------------
(* The bodies of Create, Update and Delete, run with the lock held.         *)

\* os.Stat in Create: an existing row is an error.
CheckCreate(p) ==
    /\ pc[p] = "held"
    /\ call[p].op = "create"
    /\ pc' = [pc EXCEPT ![p] = IF files[call[p].id] = NoRow THEN "write" ELSE "unlock"]
    /\ UNCHANGED <<files, lockName, expired, call, fd, born, gone>>

\* Mutant of UpdateAllowed: the version check is missing, so the last writer wins.
UpdateAllowedUnversioned(id, m) == files[id] # NoRow

UpdateAllowed(id, m) ==
    /\ files[id] # NoRow
    /\ files[id].version + 1 = m.version

\* Mutant of CheckUpdate: a mismatch is retried with the lock held.
CheckUpdateSpins(p) ==
    /\ pc[p] = "held"
    /\ call[p].op = "update"
    /\ UpdateAllowed(call[p].id, call[p].row)
    /\ pc' = [pc EXCEPT ![p] = "write"]
    /\ UNCHANGED <<files, lockName, expired, call, fd, born, gone>>

\* readRow and the version check in Update: ErrNotFound or ErrVersionMismatch.
CheckUpdate(p) ==
    /\ pc[p] = "held"
    /\ call[p].op = "update"
    /\ pc' = [pc EXCEPT ![p] = IF UpdateAllowed(call[p].id, call[p].row)
                                THEN "write" ELSE "unlock"]
    /\ UNCHANGED <<files, lockName, expired, call, fd, born, gone>>

\* writeRow: the temp file is complete before rename makes it the row; an
\* I/O error before the rename leaves the row as it was.
WriteRow(p) ==
    LET id == call[p].id IN
    /\ pc[p] = "write"
    /\ pc' = [pc EXCEPT ![p] = "unlock"]
    /\ \/ /\ files' = [files EXCEPT ![id] = call[p].row]
          /\ expired' = IF call[p].op = "create" THEN expired \ {id} ELSE expired
       \/ UNCHANGED <<files, expired>>
    /\ UNCHANGED <<lockName, call, fd, born, gone>>

\* os.Remove(path) in Delete; a failed removal skips the lock's unlink.
RemoveRow(p) ==
    LET id == call[p].id IN
    /\ pc[p] = "held"
    /\ call[p].op = "delete"
    /\ \/ /\ files' = [files EXCEPT ![id] = NoRow]
          /\ expired' = expired \ {id}
          /\ gone' = gone \cup {id}
          /\ pc' = [pc EXCEPT ![p] = "rmunlock"]
       \/ /\ pc' = [pc EXCEPT ![p] = "unlock"]
          /\ UNCHANGED <<files, expired, gone>>
    /\ UNCHANGED <<lockName, call, fd, born>>

\* The process of p dies: the kernel closes its descriptor and drops its lock.
Crash(p) ==
    /\ pc[p] # "idle"
    /\ pc' = [pc EXCEPT ![p] = "idle"]
    /\ fd' = [fd EXCEPT ![p] = NoInode]
    /\ call' = [call EXCEPT ![p] = NoCall]
    /\ UNCHANGED <<files, lockName, expired, born, gone>>

-----------------------------------------------------------------------------
Caller(p) ==
    \E id \in Ids :
        \/ \E d \in Data : BeginCreate(p, id, d) \/ BeginUpdate(p, id, d)
        \/ BeginDelete(p, id)
        \/ SweepExpired(p, id)

Step(p) ==
    \/ OpenLock(p) \/ Flock(p) \/ Unlock(p) \/ RemoveLock(p)
    \/ CheckCreate(p) \/ CheckUpdate(p) \/ WriteRow(p) \/ RemoveRow(p)

Next ==
    \/ \E p \in Procs : Caller(p) \/ Step(p) \/ Crash(p)
    \/ \E id \in Ids : Expire(id)

Spec == Init /\ [][Next]_vars

\* Every call that was started keeps running; flock is granted fairly.
FairSpec ==
    /\ Spec
    /\ \A p \in Procs : WF_vars(Step(p)) /\ SF_vars(Flock(p))

-----------------------------------------------------------------------------
(* Properties.                                                              *)

Store == INSTANCE MigrationStore WITH rows <- files, RowSet <- Row

\* The files behave like an atomic store: every rename installed by Update is
\* the successor of the version it replaces (no lost update), and Create never
\* replaces a row.
ImplementsStore == Store!StoreSpec

InCriticalSection(p, id) == pc[p] \in {"held", "write"} /\ call[p].id = id

\* While a row exists, at most one caller is between its read of the row and
\* its rename or removal, whatever lock files Delete unlinked meanwhile.
RowExclusive ==
    \A id \in Ids : files[id] # NoRow =>
        \A p, q \in Procs :
            InCriticalSection(p, id) /\ InCriticalSection(q, id) => p = q

\* A row that Delete or the sweeper removed does not come back, even when an
\* Update of it was waiting for the lock.
NoResurrection == \A id \in gone : files[id] = NoRow

\* No call to the store blocks for ever on a row lock.
CallsReturn == \A p \in Procs : pc[p] # "idle" ~> pc[p] = "idle"

\* The state invariants of the file store: rows and lock files are well formed,
\* one caller at a time is in the read-modify-write of a row, and a row that is
\* gone stays gone.
RowsSafe == TypeOK /\ RowExclusive /\ NoResurrection
=============================================================================
