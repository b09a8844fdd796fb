------------------------ MODULE StateDirectoryProofs ------------------------
(***************************************************************************)
(* Proofs about what servers keep in a state directory they share: the     *)
(* migrations of JSONStore, for every set of ids, callers, inodes and row  *)
(* contents, and the salt of StateKey, for every set of servers and salts. *)
(* The row lock excludes, rows that are gone stay gone, and the files      *)
(* implement the atomic store of MigrationStore; the first salt is never   *)
(* replaced.  The two touch different files and share no variable.         *)
(***************************************************************************)
EXTENDS JSONStore, StateKey, TLAPS

-----------------------------------------------------------------------------
(* The inductive invariant.  Delete may unlink the lock file others wait    *)
(* on, but by then the row is gone for good: until then all callers of an   *)
(* id have the one inode open that is linked as its lock file.              *)

Active(p, ops) == pc[p] # "idle" /\ call[p].op \in ops

\* What a call submits, and that its id has been passed to Create.
CallOK(p) ==
    /\ pc[p] # "idle" => call[p] \in Call /\ call[p].id \in born
    /\ Active(p, {"create", "update"}) => call[p].row \in Row
    /\ pc[p] = "write" => call[p].op \in {"create", "update"}
    /\ pc[p] \in {"rmunlock", "rmlock"} => call[p].id \in gone

\* Rows exist, and are removed, under ids that were created.
BornOK == gone \subseteq born /\ \A id \in Ids : files[id] # NoRow => id \in born

\* Until the row is gone, its callers have its lock file open.
LockOK(p) ==
    pc[p] \in {"flock", "held", "write", "unlock", "rmunlock"} =>
        /\ fd[p] \in Inodes
        /\ call[p].id \notin gone => fd[p] = lockName[call[p].id]

\* flock: one holder for each inode.
OneHolder ==
    \A p, q \in Procs : HoldsLock(p) /\ HoldsLock(q) /\ fd[p] = fd[q] => p = q

\* Ids are not reused.
OneCreator ==
    \A p, q \in Procs :
        Active(p, {"create"}) /\ Active(q, {"create"}) /\ call[p].id = call[q].id => p = q

\* A Create that has not written yet is the first to touch its id; the others
\* come after the row was written.
CreateOK(p) ==
    Active(p, {"create"}) /\ pc[p] \in {"open", "flock", "held", "write"} =>
        files[call[p].id] = NoRow /\ call[p].id \notin gone
LaterOK(p) ==
    Active(p, {"update", "delete"}) => files[call[p].id] # NoRow \/ call[p].id \in gone

\* The version check still holds when the row is renamed.
UpdateOK(p) ==
    Active(p, {"update"}) /\ pc[p] = "write" => UpdateAllowed(call[p].id, call[p].row)

ProcOK(p) == CallOK(p) /\ LockOK(p) /\ CreateOK(p) /\ LaterOK(p) /\ UpdateOK(p)

IInv ==
    /\ TypeOK
    /\ BornOK
    /\ OneHolder
    /\ OneCreator
    /\ NoResurrection
    /\ \A p \in Procs : ProcOK(p)

\* Nothing has been created.
LEMMA InitIInv == Init => IInv
BY DEF Init, IInv, TypeOK, BornOK, OneHolder, OneCreator, NoResurrection, ProcOK, CallOK, LockOK,
       CreateOK, LaterOK, UpdateOK, Active, HoldsLock, PCs

\* Of the callers of a row that exists, one holds its lock at most: they have
\* all locked the inode that is linked as the lock file.
LEMMA Exclusive ==
    ASSUME IInv, NEW p \in Procs, NEW q \in Procs,
           HoldsLock(p), HoldsLock(q), call[p].id = call[q].id, call[p].id \notin gone
    PROVE  p = q
<1>1. fd[p] = lockName[call[p].id] /\ fd[q] = lockName[call[q].id]
  BY DEF IInv, ProcOK, LockOK, HoldsLock
<1> QED
  BY <1>1 DEF IInv, OneHolder

\* The id of a call in progress is an id.
LEMMA CallIds ==
    ASSUME IInv, NEW p \in Procs, pc[p] # "idle"
    PROVE  call[p].id \in Ids
BY DEF IInv, ProcOK, CallOK, Call

-----------------------------------------------------------------------------
(* One lemma for each step of a call.                                       *)

\* A call begins: Create with an id that nobody has used, the others with a row
\* that is there.
LEMMA BeginIInv ==
    ASSUME IInv, NEW p \in Procs, Caller(p)
    PROVE  IInv'
<1> USE DEF IInv, TypeOK, PCs, Call, Ops
<1>1. PICK id \in Ids :
        \/ \E d \in Data : BeginCreate(p, id, d) \/ BeginUpdate(p, id, d)
        \/ BeginDelete(p, id)
        \/ SweepExpired(p, id)
  BY DEF Caller
<1> DEFINE Begun(op, m) ==
        /\ Begin(p, op, id, m)
        /\ op = "create" => id \notin born /\ born' = born \cup {id} /\ m \in Row
        /\ op # "create" => files[id] # NoRow /\ born' = born
        /\ op = "update" => m \in Row
<1>2. PICK op \in Ops, m \in Row \cup {NoRow} : Begun(op, m)
  <2>1. ASSUME NEW d \in Data, BeginCreate(p, id, d) PROVE \E op \in Ops, m \in Row \cup {NoRow} : Begun(op, m)
    BY <2>1, JSONStoreAssumption DEF BeginCreate, Row
  <2>2. ASSUME NEW d \in Data, BeginUpdate(p, id, d) PROVE \E op \in Ops, m \in Row \cup {NoRow} : Begun(op, m)
    <3>1. files[id] \in Row
      BY <2>2 DEF BeginUpdate
    <3>2. [version |-> files[id].version + 1, data |-> d] \in Row
      BY <3>1, <2>2, JSONStoreAssumption DEF BeginUpdate, Row
    <3> QED
      BY <3>2, <2>2 DEF BeginUpdate
  <2>3. CASE BeginDelete(p, id) \/ SweepExpired(p, id)
    BY <2>3 DEF BeginDelete, SweepExpired
  <2> QED
    BY <1>1, <2>1, <2>2, <2>3
<1>3. born \subseteq born' /\ id \in born' /\ born' \in SUBSET Ids
  BY <1>2 DEF BornOK
<1>4. /\ pc[p] = "idle" /\ pc'[p] = "open"
      /\ call'[p] = [op |-> op, id |-> id, row |-> m]
      /\ \A q \in Procs \ {p} : pc'[q] = pc[q] /\ call'[q] = call[q]
      /\ UNCHANGED <<files, lockName, expired, fd, gone>>
  BY <1>2 DEF Begin
<1>5. TypeOK'
  BY <1>2, <1>3 DEF Begin
<1>6. BornOK'
  BY <1>3, <1>4 DEF BornOK
<1>7. OneHolder'
  BY <1>4 DEF OneHolder, HoldsLock
<1>8. OneCreator'
  BY <1>2, <1>4 DEF OneCreator, Active, ProcOK, CallOK
<1>9. NoResurrection'
  BY <1>4 DEF NoResurrection
<1>10. ASSUME NEW q \in Procs PROVE ProcOK(q)'
  <2>1. CASE q = p
    BY <2>1, <1>2, <1>3, <1>4 DEF ProcOK, CallOK, LockOK, CreateOK, LaterOK, UpdateOK, Active, BornOK
  <2>2. CASE q # p
    BY <2>2, <1>3, <1>4 DEF ProcOK, CallOK, LockOK, CreateOK, LaterOK, UpdateOK, Active, UpdateAllowed
  <2> QED
    BY <2>1, <2>2
<1> QED
  BY <1>5, <1>6, <1>7, <1>8, <1>9, <1>10

\* Steps that touch the lock and no row.
LEMMA LockIInv ==
    ASSUME IInv, NEW p \in Procs, OpenLock(p) \/ Flock(p) \/ Unlock(p) \/ RemoveLock(p)
    PROVE  IInv'
<1> USE JSONStoreAssumption DEF IInv, TypeOK, PCs
<1>1. UNCHANGED <<files, expired, born, gone>>
  BY DEF OpenLock, Flock, Unlock, RemoveLock
<1>2. \A q \in Procs \ {p} : pc'[q] = pc[q] /\ call'[q] = call[q] /\ fd'[q] = fd[q]
  BY DEF OpenLock, Flock, Unlock, RemoveLock
<1>3. BornOK' /\ NoResurrection'
  BY <1>1 DEF BornOK, NoResurrection
<1>4. pc'[p] # "idle" => pc[p] # "idle" /\ call'[p] = call[p]
  BY DEF OpenLock, Flock, Unlock, RemoveLock
<1>5. OneCreator'
  BY <1>2, <1>4 DEF OneCreator, Active
<1>6. ASSUME NEW q \in Procs PROVE CreateOK(q)' /\ LaterOK(q)' /\ UpdateOK(q)'
  <2>1. CASE q = p
    BY <2>1, <1>1, <1>4 DEF ProcOK, CreateOK, LaterOK, UpdateOK, Active, UpdateAllowed, OpenLock, Flock, Unlock, RemoveLock
  <2>2. CASE q # p
    BY <2>2, <1>1, <1>2 DEF ProcOK, CreateOK, LaterOK, UpdateOK, Active, UpdateAllowed
  <2> QED
    BY <2>1, <2>2
<1>7. ASSUME NEW q \in Procs PROVE CallOK(q)'
  <2>1. CASE q = p
    BY <2>1, <1>1, <1>4 DEF ProcOK, CallOK, Active, OpenLock, Flock, Unlock, RemoveLock
  <2>2. CASE q # p
    BY <2>2, <1>1, <1>2 DEF ProcOK, CallOK, Active
  <2> QED
    BY <2>1, <2>2
<1>8. CASE OpenLock(p)
  <2>1. call[p].id \in Ids
    BY <1>8 DEF OpenLock, ProcOK, CallOK, Call
  <2>2. TypeOK'
    BY <1>8, <2>1 DEF OpenLock, FreeInodes
  <2>3. OneHolder'
    BY <1>8, <1>2 DEF OpenLock, OneHolder, HoldsLock
  <2>4. LockOK(p)'
    BY <1>8, <2>1 DEF OpenLock, LockOK, FreeInodes
  <2>5. ASSUME NEW q \in Procs, q # p PROVE LockOK(q)'
    <3>1. pc[q] # "idle" => call[q].id \in Ids
      BY DEF ProcOK, CallOK, Call
    <3> QED
      BY <1>8, <1>1, <1>2, <2>1, <2>5, <3>1 DEF OpenLock, ProcOK, LockOK
  <2> QED
    BY <1>3, <1>5, <1>6, <1>7, <2>2, <2>3, <2>4, <2>5 DEF ProcOK
<1>9. CASE Flock(p)
  BY <1>9, <1>3, <1>5, <1>6, <1>7 DEF Flock, OneHolder, HoldsLock, ProcOK, LockOK
<1>10. CASE Unlock(p)
  <2>1. TypeOK'
    BY <1>10 DEF Unlock
  <2>2. OneHolder'
    BY <1>10, <1>2 DEF Unlock, OneHolder, HoldsLock
  <2>3. \A q \in Procs : LockOK(q)'
    BY <1>10, <1>2 DEF Unlock, ProcOK, LockOK
  <2> QED
    BY <1>3, <1>5, <1>6, <1>7, <2>1, <2>2, <2>3 DEF ProcOK
<1>11. CASE RemoveLock(p)
  <2>1. call[p].id \in gone /\ call[p].id \in Ids
    BY <1>11 DEF RemoveLock, ProcOK, CallOK, Call
  <2>2. TypeOK'
    BY <1>11, <2>1 DEF RemoveLock
  <2>3. OneHolder'
    BY <1>11, <1>2 DEF RemoveLock, OneHolder, HoldsLock
  <2>4. \A q \in Procs : LockOK(q)'
    BY <1>11, <1>2, <2>1 DEF RemoveLock, ProcOK, LockOK
  <2> QED
    BY <1>3, <1>5, <1>6, <1>7, <2>2, <2>3, <2>4 DEF ProcOK
<1> QED
  BY <1>8, <1>9, <1>10, <1>11

\* What the steps have in common that leave the lock to its holder.
LEMMA HolderIInv ==
    ASSUME IInv, NEW p \in Procs,
           pc' \in [Procs -> PCs], \A q \in Procs \ {p} : pc'[q] = pc[q],
           HoldsLock(p), pc'[p] # "idle", UNCHANGED <<lockName, call, fd, born>>,
           gone \subseteq gone'
    PROVE  /\ OneHolder'
           /\ OneCreator'
           /\ \A q \in Procs : LockOK(q)'
<1> USE DEF IInv, TypeOK
<1>1. OneHolder'
  BY DEF OneHolder, HoldsLock
<1>2. OneCreator'
  BY DEF OneCreator, Active, HoldsLock
<1>3. ASSUME NEW q \in Procs PROVE LockOK(q)'
  BY <1>3 DEF ProcOK, LockOK, HoldsLock
<1> QED
  BY <1>1, <1>2, <1>3

\* The checks of Create and Update decide between write and unlock.
LEMMA CheckIInv ==
    ASSUME IInv, NEW p \in Procs, CheckCreate(p) \/ CheckUpdate(p)
    PROVE  IInv'
<1> USE DEF IInv, TypeOK, PCs
<1>1. /\ UNCHANGED <<files, lockName, expired, call, fd, born, gone>>
      /\ pc' \in [Procs -> PCs]
      /\ \A q \in Procs \ {p} : pc'[q] = pc[q]
      /\ HoldsLock(p) /\ pc[p] = "held" /\ pc'[p] \in {"write", "unlock"}
      /\ call[p].op \in {"create", "update"}
  BY DEF CheckCreate, CheckUpdate, HoldsLock
<1>2. TypeOK' /\ BornOK' /\ NoResurrection'
  BY <1>1 DEF BornOK, NoResurrection
<1>3. OneHolder' /\ OneCreator' /\ \A q \in Procs : LockOK(q)'
  BY <1>1, HolderIInv
<1>4. ASSUME NEW q \in Procs PROVE CallOK(q)'
  BY <1>1 DEF ProcOK, CallOK, Active
<1>5. ASSUME NEW q \in Procs PROVE CreateOK(q)' /\ LaterOK(q)'
  BY <1>1 DEF ProcOK, CreateOK, LaterOK, Active
<1>6. ASSUME NEW q \in Procs PROVE UpdateOK(q)'
  BY <1>1 DEF ProcOK, UpdateOK, Active, UpdateAllowed, CheckCreate, CheckUpdate
<1> QED
  BY <1>2, <1>3, <1>4, <1>5, <1>6 DEF ProcOK

\* A rename: nobody else is in a call on the row that has passed its check.
LEMMA WriteIInv ==
    ASSUME IInv, NEW p \in Procs, WriteRow(p)
    PROVE  IInv'
<1> USE DEF IInv, TypeOK, PCs
<1> DEFINE id == call[p].id
<1>1. /\ UNCHANGED <<lockName, call, fd, born, gone>>
      /\ pc' = [pc EXCEPT ![p] = "unlock"] /\ pc[p] = "write"
      /\ HoldsLock(p)
      /\ files' = [files EXCEPT ![id] = call[p].row] \/ files' = files
      /\ expired' \subseteq expired
  BY DEF WriteRow, HoldsLock
<1>2. id \in Ids /\ id \in born /\ call[p].row \in Row /\ call[p].op \in {"create", "update"}
  BY <1>1 DEF ProcOK, CallOK, Call, Active
<1>3. id \notin gone
  BY <1>1, <1>2 DEF ProcOK, CreateOK, UpdateOK, Active, UpdateAllowed, NoResurrection
<1>4. TypeOK' /\ BornOK' /\ NoResurrection'
  BY <1>1, <1>2, <1>3 DEF BornOK, NoResurrection
<1>5. OneHolder' /\ OneCreator' /\ \A q \in Procs : LockOK(q)'
  <2>1. pc' \in [Procs -> PCs] /\ pc'[p] # "idle" /\ \A q \in Procs \ {p} : pc'[q] = pc[q]
    BY <1>1
  <2> QED
    BY <1>1, <2>1, HolderIInv
<1>6. ASSUME NEW q \in Procs PROVE CallOK(q)'
  BY <1>1 DEF ProcOK, CallOK, Active
<1>7. ASSUME NEW q \in Procs, q # p PROVE CreateOK(q)'
  <2>1. CASE call[q].id # id
    BY <1>1, <2>1, <1>7, CallIds DEF ProcOK, CreateOK, Active
  <2>2. CASE call[q].id = id
    BY <1>1, <1>2, <2>2, <1>7 DEF ProcOK, CreateOK, UpdateOK, Active, UpdateAllowed, OneCreator
  <2> QED
    BY <2>1, <2>2
<1>8. ASSUME NEW q \in Procs PROVE LaterOK(q)'
  <2>1. call[p].row # NoRow
    BY <1>2, JSONStoreAssumption DEF Row
  <2> QED
    BY <1>1, <1>2, <2>1, CallIds DEF ProcOK, LaterOK, Active
<1>9. ASSUME NEW q \in Procs, q # p PROVE UpdateOK(q)'
  <2>1. CASE pc[q] = "write" /\ call[q].id = id
    BY <2>1, <1>1, <1>3, <1>9, Exclusive DEF HoldsLock
  <2>2. CASE ~(pc[q] = "write" /\ call[q].id = id)
    BY <2>2, <1>1, <1>9, CallIds DEF ProcOK, UpdateOK, Active, UpdateAllowed
  <2> QED
    BY <2>1, <2>2
<1>10. CreateOK(p)' /\ UpdateOK(p)'
  BY <1>1 DEF CreateOK, UpdateOK
<1> QED
  BY <1>4, <1>5, <1>6, <1>7, <1>8, <1>9, <1>10 DEF ProcOK

\* A removal: the row is gone, and whoever waits will find that out.
LEMMA RemoveIInv ==
    ASSUME IInv, NEW p \in Procs, RemoveRow(p)
    PROVE  IInv'
<1> USE DEF IInv, TypeOK, PCs
<1> DEFINE id == call[p].id
<1>1. /\ UNCHANGED <<lockName, call, fd, born>>
      /\ HoldsLock(p) /\ pc[p] = "held" /\ call[p].op = "delete"
      /\ pc' \in [Procs -> PCs]
      /\ \A q \in Procs \ {p} : pc'[q] = pc[q]
      /\ expired' \subseteq expired
  BY DEF RemoveRow, HoldsLock
<1>2. id \in Ids /\ id \in born
  BY <1>1 DEF ProcOK, CallOK, Call
<1>3. \/ /\ files' = [files EXCEPT ![id] = NoRow]
         /\ gone' = gone \cup {id}
         /\ pc'[p] = "rmunlock"
      \/ /\ UNCHANGED <<files, gone>>
         /\ pc'[p] = "unlock"
  BY DEF RemoveRow
<1>4. TypeOK' /\ BornOK' /\ NoResurrection'
  BY <1>1, <1>2, <1>3 DEF BornOK, NoResurrection
<1>5. OneHolder' /\ OneCreator' /\ \A q \in Procs : LockOK(q)'
  BY <1>1, <1>3, HolderIInv
<1>6. ASSUME NEW q \in Procs PROVE CallOK(q)'
  BY <1>1, <1>3 DEF ProcOK, CallOK, Active
<1>7. ASSUME NEW q \in Procs PROVE CreateOK(q)'
  <2>1. CASE call[q].id # id \/ q = p
    BY <1>1, <1>3, <2>1, CallIds DEF ProcOK, CreateOK, Active
  <2>2. CASE call[q].id = id /\ q # p
    <3>1. files[id] # NoRow \/ id \in gone
      BY <1>1 DEF ProcOK, LaterOK, Active
    <3> QED
      BY <3>1, <1>1, <2>2 DEF ProcOK, CreateOK, Active
  <2> QED
    BY <2>1, <2>2
<1>8. ASSUME NEW q \in Procs PROVE LaterOK(q)'
  BY <1>1, <1>2, <1>3, CallIds DEF ProcOK, LaterOK, Active
<1>9. ASSUME NEW q \in Procs PROVE UpdateOK(q)'
  <2>1. CASE q # p /\ pc[q] = "write" /\ call[q].id = id /\ call[q].op = "update"
    <3>1. id \notin gone
      BY <2>1 DEF ProcOK, UpdateOK, Active, UpdateAllowed, NoResurrection
    <3> QED
      BY <2>1, <3>1, <1>1, Exclusive DEF HoldsLock
  <2>2. CASE ~(q # p /\ pc[q] = "write" /\ call[q].id = id /\ call[q].op = "update")
    BY <2>2, <1>1, <1>3, CallIds DEF ProcOK, UpdateOK, Active, UpdateAllowed
  <2> QED
    BY <2>1, <2>2
<1> QED
  BY <1>4, <1>5, <1>6, <1>7, <1>8, <1>9 DEF ProcOK

\* A process that dies leaves its row whole and its lock free.
LEMMA CrashIInv ==
    ASSUME IInv, NEW p \in Procs, Crash(p)
    PROVE  IInv'
<1> USE DEF IInv, TypeOK, PCs
<1>1. /\ UNCHANGED <<files, lockName, expired, born, gone>>
      /\ pc' = [pc EXCEPT ![p] = "idle"]
      /\ fd' = [fd EXCEPT ![p] = NoInode]
      /\ call' = [call EXCEPT ![p] = NoCall]
  BY DEF Crash
<1>2. TypeOK' /\ BornOK' /\ NoResurrection'
  BY <1>1 DEF BornOK, NoResurrection
<1>3. OneHolder'
  BY <1>1 DEF OneHolder, HoldsLock
<1>4. OneCreator'
  BY <1>1 DEF OneCreator, Active
<1>5. ASSUME NEW q \in Procs PROVE ProcOK(q)'
  BY <1>1 DEF ProcOK, CallOK, LockOK, CreateOK, LaterOK, UpdateOK, Active, UpdateAllowed
<1> QED
  BY <1>2, <1>3, <1>4, <1>5

\* The clock touches no call.
LEMMA ExpireIInv ==
    ASSUME IInv, NEW id \in Ids, Expire(id)
    PROVE  IInv'
BY DEF Expire, IInv, TypeOK, PCs, BornOK, NoResurrection, OneHolder, HoldsLock, OneCreator, ProcOK, CallOK,
       LockOK, CreateOK, LaterOK, UpdateOK, Active, UpdateAllowed

\* A step that changes nothing.
LEMMA StutterIInv == IInv /\ UNCHANGED vars => IInv'
BY DEF vars, IInv, TypeOK, BornOK, NoResurrection, OneHolder, HoldsLock, OneCreator, ProcOK, CallOK,
       LockOK, CreateOK, LaterOK, UpdateOK, Active, UpdateAllowed

\* Every step of every caller preserves the invariant.
LEMMA NextIInv == IInv /\ [Next]_vars => IInv'
<1> SUFFICES ASSUME IInv, [Next]_vars PROVE IInv'
  OBVIOUS
<1>1. ASSUME NEW p \in Procs, Caller(p) \/ Step(p) \/ Crash(p) PROVE IInv'
  BY <1>1, BeginIInv, LockIInv, CheckIInv, WriteIInv, RemoveIInv, CrashIInv DEF Step
<1>2. ASSUME NEW id \in Ids, Expire(id) PROVE IInv'
  BY <1>2, ExpireIInv
<1> QED
  BY <1>1, <1>2, StutterIInv DEF Next

\* The invariant holds in every reachable state.
LEMMA Invariance == Spec => []IInv
BY InitIInv, NextIInv, PTL DEF Spec

-----------------------------------------------------------------------------

\* Create, Update, Delete and SweepExpired of the JSON store, by any number of
\* processes that may die at any point: one caller at a time is between its read
\* of a row and its rename, although Delete unlinks lock files that others wait
\* on, and a deleted row never comes back.
THEOREM RowsAreSafe == Spec => []RowsSafe
<1>1. IInv => RowsSafe
  <2> SUFFICES ASSUME IInv PROVE RowExclusive
    BY DEF IInv, RowsSafe
  <2>1. ASSUME NEW id \in Ids, files[id] # NoRow, NEW p \in Procs, NEW q \in Procs,
               InCriticalSection(p, id), InCriticalSection(q, id)
        PROVE  p = q
    <3>1. id \notin gone
      BY <2>1 DEF IInv, NoResurrection
    <3> QED
      BY <2>1, <3>1, Exclusive DEF InCriticalSection, HoldsLock
  <2> QED
    BY <2>1 DEF RowExclusive
<1> QED
  BY <1>1, Invariance, PTL

\* The rename of writeRow is the Create or Update of the contract and the
\* removal its Delete; every other system call changes no row.
LEMMA StepRefines == IInv /\ [Next]_vars => [Store!StoreNext]_files
<1> SUFFICES ASSUME IInv, [Next]_vars, files' # files PROVE Store!StoreNext
  OBVIOUS
<1>1. PICK p \in Procs : WriteRow(p) \/ RemoveRow(p)
  BY DEF Next, vars, Caller, BeginCreate, BeginUpdate, BeginDelete, SweepExpired, Begin, Step, OpenLock,
         Flock, Unlock, RemoveLock, CheckCreate, CheckUpdate, Crash, Expire
<1>2. call[p].id \in Ids
  BY <1>1 DEF WriteRow, RemoveRow, IInv, ProcOK, CallOK, Call
<1>3. CASE WriteRow(p)
  <2>1. files' = [files EXCEPT ![call[p].id] = call[p].row]
    BY <1>3 DEF WriteRow
  <2>2. call[p].row \in Row /\ call[p].op \in {"create", "update"}
    BY <1>3 DEF WriteRow, IInv, ProcOK, CallOK, Active
  <2>3. CASE call[p].op = "create"
    <3>1. files[call[p].id] = NoRow
      BY <1>3, <2>3 DEF WriteRow, IInv, ProcOK, CreateOK, Active
    <3> QED
      BY <2>1, <2>2, <3>1, <1>2 DEF Store!StoreNext, Store!StoreCreate
  <2>4. CASE call[p].op = "update"
    <3>1. UpdateAllowed(call[p].id, call[p].row)
      BY <1>3, <2>4 DEF WriteRow, IInv, ProcOK, UpdateOK, Active
    <3> QED
      BY <2>1, <2>2, <3>1, <1>2 DEF Store!StoreNext, Store!StoreUpdate, UpdateAllowed
  <2> QED
    BY <2>2, <2>3, <2>4
<1>4. CASE RemoveRow(p)
  BY <1>2, <1>4 DEF RemoveRow, Store!StoreNext, Store!StoreDelete
<1> QED
  BY <1>1, <1>3, <1>4

\* The JSON store implements the contract of MigrationStore: no update is lost,
\* Create replaces no row, and a row is never seen half written, whichever lock
\* files Delete has unlinked and wherever callers die.
THEOREM Refinement == Spec => ImplementsStore
<1>1. Init => Store!StoreInit
  BY DEF Init, Store!StoreInit
<1> QED
  BY <1>1, Invariance, StepRefines, PTL DEF Spec, ImplementsStore, Store!StoreSpec

-----------------------------------------------------------------------------
(* The salt file.                                                           *)

(* A server that is about to write owns the empty file alone, and a server  *)
(* that holds a salt it read holds the one on disk.                         *)
Writer(p) == at[p] = "write" => file = Empty /\ salt[p] \in Salts
Creator(p) == at[p] = "create" => salt[p] \in Salts
Reader(p) == at[p] = "derive" => salt[p] \in {Empty, file}
Rereader(p) == at[p] = "reread" => file # Absent
OneWriter == \A p, q \in Servers : at[p] = "write" /\ at[q] = "write" => p = q

KeyInv ==
    /\ KeyTypeOK
    /\ \A p \in Servers : Writer(p) /\ Creator(p) /\ Reader(p) /\ Rereader(p)
    /\ OneWriter
    /\ FirstWriterWins

USE DEF Goto

\* No server runs before the file exists.
LEMMA KeyInitInv == KeyInit => KeyInv
BY SaltAssumption DEF KeyInit, KeyInv, KeyTypeOK, Writer, Creator, Reader, Rereader, OneWriter,
   FirstWriterWins, Places

\* Every step of DeriveStateKey, and a restart, preserves the invariant: only
\* the server whose O_EXCL open succeeded ever changes the file.
LEMMA KeyNextInv == KeyInv /\ [KeyNext]_keyVars => KeyInv'
<1> SUFFICES ASSUME KeyInv, [KeyNext]_keyVars PROVE KeyInv'
  OBVIOUS
<1> USE SaltAssumption DEF KeyInv, KeyTypeOK, Writer, Creator, Reader, Rereader, OneWriter,
        FirstWriterWins, Places
<1>1. ASSUME NEW p \in Servers, ReadSalt(p) PROVE KeyInv'
  BY <1>1 DEF ReadSalt
<1>2. ASSUME NEW p \in Servers, CreateSalt(p) PROVE KeyInv'
  BY <1>2 DEF CreateSalt
<1>3. ASSUME NEW p \in Servers, WriteSalt(p) PROVE KeyInv'
  BY <1>3 DEF WriteSalt
<1>4. ASSUME NEW p \in Servers, RereadSalt(p) PROVE KeyInv'
  BY <1>4 DEF RereadSalt
<1>5. ASSUME NEW p \in Servers, Derive(p) PROVE KeyInv'
  BY <1>5 DEF Derive
<1>6. ASSUME NEW p \in Servers, Restart(p) PROVE KeyInv'
  BY <1>6 DEF Restart
<1>7. CASE UNCHANGED keyVars
  BY <1>7 DEF keyVars
<1> QED
  BY <1>1, <1>2, <1>3, <1>4, <1>5, <1>6, <1>7 DEF KeyNext, DeriveStateKey

\* The salt that DeriveStateKey's O_EXCL open admits is the only one any server
\* ever derives a key from: however the servers start, interleave, fail to
\* write or restart, the complete salts in use are the one on disk.
THEOREM FirstWriter == KeySpec => []FirstWriterWins
<1>1. KeyInv => FirstWriterWins
  BY DEF KeyInv
<1> QED
  BY <1>1, KeyInitInv, KeyNextInv, PTL DEF KeySpec
=============================================================================
