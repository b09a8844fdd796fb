------------------------ MODULE MigrationServerProofs ------------------------
(***************************************************************************)
(* Proofs about MigrationServer for every set of ids and requests, every   *)
(* bound, both backends and every combination of faults.                   *)
(***************************************************************************)
EXTENDS MigrationServer, TLAPS

-----------------------------------------------------------------------------
(* The inductive invariant.  A version identifies the writer: version 1 is  *)
(* the preview, version 2 the one apply that won, later versions are apply's *)
(* outcome and the verify rounds.                                           *)

\* What the status of a row, stored or copied, says about the target.
RowOK(id, m) ==
    /\ m.version = 1 <=> m.status = "preview"
    /\ m.version = 2 <=> m.status = "applying"
    /\ m.version >= 1
    /\ m.status \in {"preview", "applying"} => ~m.ns /\ m.results = "none"
    /\ m.status = "awaiting_ns_change" => 1..m.n \subseteq pushed[id] /\ m.results = "ok"
    /\ m.status \in {"verifying", "complete"} /\ m.ns =>
          1..m.n \subseteq pushed[id] /\ m.results = "ok"
    /\ m.status = "complete" => m.ns /\ m.n > 0

\* An id that was not issued, or is only previewed, has reached no provider.
IdsOK ==
    \A id \in Ids :
        /\ id \notin issued => rows[id] = NoRow /\ runs[id] = 0
        /\ runs[id] <= 1
        /\ rows[id] # NoRow => RowOK(id, rows[id])
        /\ rows[id] # NoRow /\ rows[id].status = "preview" => runs[id] = 0

\* Apply holds version 2 of the row from MarkApplying on.
ApplyOK(r) ==
    LET m == copy[r] IN
    /\ pc[r] \in {"idle", "mark", "ensure"} => next[r] = 1
    /\ pc[r] = "mark" => m.version = 1 /\ ~m.ns /\ m.results = "none"
    /\ pc[r] = "ensure" => m.version = 2 /\ m.status = "applying"
                            /\ ~m.ns /\ m.results = "none"
    /\ pc[r] = "fail" => m.version = 2 /\ m.results = "none"
    /\ pc[r] \in {"wait", "set", "finish"} =>
          /\ m.version = 2
          /\ m.results # "ok"
          /\ next[r] >= 1
          /\ m.results = "failed" => err[r]
    /\ pc[r] = "wait" /\ ~err[r] => 1..(next[r] - 1) \subseteq pushed[rid[r]]
    /\ pc[r] = "set" => next[r] <= m.n /\ (~err[r] => 1..(next[r] - 1) \subseteq pushed[rid[r]])
    /\ pc[r] = "finish" /\ ~err[r] => 1..m.n \subseteq pushed[rid[r]]

\* Verify holds a row that is no newer than the stored one; if it is as new,
\* the stored row has not failed.
VerifyOK(r) ==
    LET m == copy[r]
        id == rid[r] IN
    /\ pc[r] = "query" => RowOK(id, m) /\ m.status \in Verifiable
    /\ pc[r] = "verified" =>
          /\ m.status \in {"verifying", "complete"}
          /\ m.version >= 2
          /\ m.ns => m.version >= 3 /\ 1..m.n \subseteq pushed[id] /\ m.results = "ok"
          /\ m.status = "complete" => m.ns /\ m.n > 0
    /\ pc[r] \in {"query", "verified"} /\ rows[id] # NoRow =>
          /\ rows[id].version >= m.version
          /\ rows[id].version = m.version => rows[id].status # "failed"

IInv ==
    /\ TypeOK
    /\ IdsOK
    /\ \A r \in Reqs : pc[r] # "idle" => rid[r] \in issued
    /\ \A r \in Reqs : ApplyOK(r) /\ VerifyOK(r)

-----------------------------------------------------------------------------
(* Facts about single calls.                                                *)

\* Return leaves a well-typed idle request and touches no other one.
LEMMA ReturnFacts ==
    ASSUME TypeOK, NEW r \in Reqs, Return(r)
    PROVE  /\ pc'[r] = "idle" /\ next'[r] = 1
           /\ \A q \in Reqs \ {r} :
                pc'[q] = pc[q] /\ rid'[q] = rid[q] /\ copy'[q] = copy[q]
                /\ next'[q] = next[q] /\ err'[q] = err[q] /\ live'[q] = live[q]
           /\ pc' \in [Reqs -> PCs]
           /\ rid' \in [Reqs -> Ids \cup {0}]
           /\ copy' \in [Reqs -> Row \cup {NoRow}]
           /\ live' \in [Reqs -> BOOLEAN]
           /\ next' \in [Reqs -> Nat \ {0}]
           /\ err' \in [Reqs -> BOOLEAN]
           /\ \A q \in Reqs : pc'[q] # "idle" => rid'[q] \in Ids /\ copy'[q] \in Row
  BY DEF TypeOK, Return, Goto, PCs

\* Successor builds a row.
LEMMA SuccessorRow ==
    ASSUME NEW m \in Row, NEW s \in Statuses
    PROVE  /\ Successor(m, s) \in Row
           /\ Successor(m, s).status = s
           /\ Successor(m, s).version = m.version + 1
           /\ Successor(m, s).n = m.n
           /\ Successor(m, s).ns = m.ns
           /\ Successor(m, s).results = m.results
  <1>1. ASSUME NEW k \in Nat PROVE [m EXCEPT !.status = s, !.version = k] \in Row
    BY DEF Row
  <1>2. m.version + 1 \in Nat
    BY DEF Row
  <1>3. [m EXCEPT !.status = s, !.version = m.version + 1] \in Row
    BY <1>1, <1>2
  <1>4. Successor(m, s) \in Row
    BY <1>3 DEF Successor
  <1>5. Successor(m, s).status = s /\ Successor(m, s).version = m.version + 1
    BY DEF Successor, Row
  <1>6. Successor(m, s).n = m.n /\ Successor(m, s).results = m.results
    BY DEF Successor, Row
  <1>7. Successor(m, s).ns = m.ns
    BY DEF Successor, Row
  <1>8. QED
    BY <1>4, <1>5, <1>6, <1>7

\* The row apply saves at the end.
LEMMA OutcomeRow ==
    ASSUME NEW r \in Reqs, copy[r] \in Row, err[r] \in BOOLEAN
    PROVE  /\ Outcome(r) \in Row
           /\ Outcome(r).status = IF err[r] THEN "failed" ELSE "awaiting_ns_change"
           /\ Outcome(r).version = copy[r].version + 1
           /\ Outcome(r).n = copy[r].n
           /\ Outcome(r).results = IF copy[r].results = "failed" THEN "failed" ELSE "ok"
  <1> DEFINE s == IF err[r] THEN "failed" ELSE "awaiting_ns_change"
  <1>1. s \in Statuses
    BY DEF Statuses
  <1>2. Successor(copy[r], s) \in Row
    BY <1>1, SuccessorRow
  <1>3. QED
    BY <1>1, <1>2, SuccessorRow DEF Outcome, Row

\* An Update leaves every other row alone and installs the successor version.
LEMMA UpdateFacts ==
    ASSUME TypeOK, NEW r \in Reqs, NEW m \in Row, rid[r] \in Ids,
           UpdateOK(r, m) \/ UpdateFails(r, m)
    PROVE  /\ rows' \in [Ids -> Row \cup {NoRow}]
           /\ \A id \in Ids :
                \/ rows'[id] = rows[id]
                \/ /\ id = rid[r]
                   /\ rows[id] \in Row
                   /\ rows'[id] = m
                   /\ m.version = rows[id].version + 1
  BY DEF TypeOK, UpdateOK, UpdateFails, Accepts, Store!StoreUpdate, Row

-----------------------------------------------------------------------------
(* Type correctness.                                                        *)

LEMMA TypeInit == Init => TypeOK
  BY ServerAssumption DEF Init, TypeOK, PCs, NoSweep

\* Every handler step keeps the types.
LEMMA TypeHandler ==
    ASSUME TypeOK, NEW r \in Reqs, Handler(r)
    PROVE  TypeOK'
  <1>0. pc[r] # "idle" => rid[r] \in Ids /\ copy[r] \in Row
    BY DEF TypeOK
  <1>1. CASE MarkApplying(r)
    <2> DEFINE m == Successor(copy[r], "applying")
    <2>1. m \in Row /\ rid[r] \in Ids
      BY <1>0, <1>1, SuccessorRow DEF MarkApplying, Statuses
    <2>2. runs' \in [Ids -> Nat]
      BY <1>1, <2>1 DEF TypeOK, MarkApplying
    <2> HIDE DEF m
    <2>3. CASE UpdateOK(r, m) /\ Goto(r, "ensure") /\ copy' = [copy EXCEPT ![r] = m]
                 /\ UNCHANGED <<rid, live, next, err>>
      <3>1. rows' \in [Ids -> Row \cup {NoRow}]
        BY <2>1, <2>3, UpdateFacts
      <3>2. QED
        BY <1>1, <2>1, <2>2, <2>3, <3>1 DEF TypeOK, MarkApplying, Goto, PCs
    <2>4. CASE UpdateFails(r, m) /\ Return(r)
      BY <1>1, <2>1, <2>2, <2>4, UpdateFacts, ReturnFacts DEF TypeOK, MarkApplying
    <2>5. QED
      BY <1>1, <2>3, <2>4 DEF MarkApplying, Persist, m
  <1>2. CASE EnsureZone(r)
    <2>1. ASSUME NEW b \in BOOLEAN PROVE [copy EXCEPT ![r].ns = b] \in [Reqs -> Row \cup {NoRow}]
      <3>1. [copy[r] EXCEPT !.ns = b] \in Row
        BY <1>0, <1>2 DEF EnsureZone, Row
      <3>2. QED
        BY <3>1 DEF TypeOK
    <2>2. \A b \in BOOLEAN : [copy[r] EXCEPT !.ns = b] \in Row
      BY <1>0, <1>2 DEF EnsureZone, Row
    <2>3. copy' \in [Reqs -> Row \cup {NoRow}] /\ \A q \in Reqs : pc'[q] # "idle" => copy'[q] \in Row
      BY <1>0, <1>2, <2>1, <2>2 DEF EnsureZone, TypeOK, Goto
    <2>4. QED
      BY <1>0, <1>2, <2>3 DEF EnsureZone, TypeOK, Goto, PCs
  <1>3. CASE RecordFailure(r)
    <2>1. Successor(copy[r], "failed") \in Row /\ rid[r] \in Ids
      BY <1>0, <1>3, SuccessorRow DEF RecordFailure, Statuses
    <2>2. QED
      BY <1>3, <2>1, UpdateFacts, ReturnFacts DEF RecordFailure, TypeOK
  <1>4. CASE WaitTurn(r)
    BY <1>0, <1>4 DEF WaitTurn, TypeOK, Goto, PCs
  <1>5. CASE SetRecord(r)
    <2>1. [copy[r] EXCEPT !.results = "failed"] \in Row
      BY <1>0, <1>5 DEF SetRecord, Row
    <2>2. copy' \in [Reqs -> Row \cup {NoRow}] /\ \A q \in Reqs : pc'[q] # "idle" => copy'[q] \in Row
      BY <1>0, <1>5, <2>1 DEF SetRecord, TypeOK, Goto
    <2>3. QED
      <3>1. next[r] \in 1..MaxRecords
        BY <1>0, <1>5, ServerAssumption DEF SetRecord, TypeOK, Row
      <3>2. pushed' \in [Ids -> SUBSET (1..MaxRecords)]
        BY <1>0, <1>5, <3>1 DEF SetRecord, TypeOK
      <3>3. \A q \in Reqs : pc'[q] = "set" => q # r
        BY <1>5 DEF SetRecord, TypeOK, Goto
      <3>4. \A q \in Reqs : pc'[q] = "set" => next'[q] <= copy'[q].n
        BY <1>5, <3>3 DEF SetRecord, TypeOK, Goto
      <3>5. next' \in [Reqs -> Nat \ {0}]
        BY <1>5, <3>1 DEF SetRecord, TypeOK
      <3>6. pc' \in [Reqs -> PCs] /\ err' \in [Reqs -> BOOLEAN]
        BY <1>5 DEF SetRecord, TypeOK, Goto, PCs
      <3>7. \A q \in Reqs : pc'[q] # "idle" => rid'[q] \in Ids /\ copy'[q] \in Row
        BY <1>0, <1>5, <2>2 DEF SetRecord, TypeOK, Goto
      <3>8. QED
        BY <1>5, <2>2, <3>2, <3>4, <3>5, <3>6, <3>7 DEF SetRecord, TypeOK
  <1>6. CASE PushedAll(r)
    BY <1>0, <1>6 DEF PushedAll, TypeOK, Goto, PCs
  <1>7. CASE FinishApply(r)
    <2>1. Outcome(r) \in Row /\ rid[r] \in Ids
      BY <1>0, <1>7, OutcomeRow DEF FinishApply, TypeOK
    <2>2. QED
      BY <1>7, <2>1, UpdateFacts, ReturnFacts DEF FinishApply, TypeOK
  <1>8. CASE QueryTargets(r)
    <2>1. \A s \in Statuses : [copy[r] EXCEPT !.status = s] \in Row
      BY <1>0, <1>8 DEF QueryTargets, Row
    <2>2. copy' \in [Reqs -> Row \cup {NoRow}] /\ \A q \in Reqs : pc'[q] # "idle" => copy'[q] \in Row
      BY <1>0, <1>8, <2>1 DEF QueryTargets, TypeOK, Goto, Statuses
    <2>3. QED
      BY <1>0, <1>8, <2>2 DEF QueryTargets, TypeOK, Goto, PCs
  <1>9. CASE SaveVerify(r)
    <2>1. copy[r] \in Row /\ copy[r].status \in Statuses /\ rid[r] \in Ids
      BY <1>0, <1>9 DEF SaveVerify, Row
    <2>2. Successor(copy[r], copy[r].status) \in Row
      BY <2>1, SuccessorRow
    <2>3. QED
      BY <1>9, <2>1, <2>2, UpdateFacts, ReturnFacts DEF SaveVerify, TypeOK
  <1>10. CASE DeleteRow(r)
    <2>1. rows' \in [Ids -> Row \cup {NoRow}]
      BY <1>0, <1>10 DEF DeleteRow, TypeOK, Store!StoreDelete
    <2>2. QED
      BY <1>10, <2>1, ReturnFacts DEF DeleteRow, TypeOK
  <1>11. QED
    BY <1>1, <1>2, <1>3, <1>4, <1>5, <1>6, <1>7, <1>8, <1>9, <1>10 DEF Handler

\* The steps that begin a request.
LEMMA TypeBegin ==
    ASSUME TypeOK, NEW r \in Reqs, NEW id \in Ids, NEW l \in PCs \ {"set"}, Load(r, id, l)
    PROVE  TypeOK'
  <1>1. rows[id] \in Row
    BY DEF Load, Loads, TypeOK
  <1>2. \A q \in Reqs : pc'[q] = "set" => pc[q] = "set" /\ copy'[q] = copy[q]
    BY DEF Load, Goto, TypeOK
  <1>3. QED
    BY <1>1, <1>2 DEF Load, Goto, TypeOK

\* The row preview creates.
LEMMA PreviewRow ==
    ASSUME NEW n \in 0..MaxRecords
    PROVE  [status |-> "preview", version |-> 1, n |-> n, ns |-> FALSE, results |-> "none"] \in Row
  BY DEF Row, Statuses

\* The sweeper only removes rows.
LEMMA SweeperFacts ==
    ASSUME TypeOK, Sweeper
    PROVE  /\ rows' \in [Ids -> Row \cup {NoRow}]
           /\ sweep' \in [todo : SUBSET Ids, before : SUBSET Ids]
           /\ \A id \in Ids : rows'[id] \in {rows[id], NoRow}
           /\ UNCHANGED <<expired, issued, pc, rid, copy, live, next, err, pushed, runs>>
  <1>1. CASE SweepSQL
    BY <1>1 DEF SweepSQL, TypeOK, reqVars
  <1>2. CASE SweepStart
    BY <1>2 DEF SweepStart, TypeOK, reqVars
  <1>3. CASE SweepRow
    <2>1. PICK id \in sweep.todo :
            /\ rows' = rows \/ Store!StoreDelete(id)
            /\ sweep' = [sweep EXCEPT !.todo = @ \ {id}] \/ sweep' = NoSweep
            /\ UNCHANGED <<expired, issued, reqVars, pushed, runs>>
      BY <1>3 DEF SweepRow
    <2>2. id \in Ids
      BY DEF TypeOK
    <2>3. sweep' \in [todo : SUBSET Ids, before : SUBSET Ids]
      BY <2>1 DEF TypeOK, NoSweep
    <2>4. QED
      BY <2>1, <2>2, <2>3 DEF TypeOK, Store!StoreDelete, reqVars
  <1>4. QED
    BY <1>1, <1>2, <1>3 DEF Sweeper

\* Every step keeps the types.
LEMMA TypeStep == TypeOK /\ [Next]_vars => TypeOK'
  <1> SUFFICES ASSUME TypeOK, [Next]_vars PROVE TypeOK'
    OBVIOUS
  <1>1. ASSUME NEW id \in Ids, NEW n \in 0..MaxRecords, Preview(id, n) PROVE TypeOK'
    BY <1>1, PreviewRow DEF Preview, TypeOK, Store!StoreCreate, reqVars
  <1>2. ASSUME NEW r \in Reqs, NEW id \in Ids,
               BeginApply(r, id) \/ BeginVerify(r, id) \/ BeginDelete(r, id)
        PROVE  TypeOK'
    BY <1>2, TypeBegin DEF BeginApply, BeginVerify, BeginDelete, PCs
  <1>3. ASSUME NEW r \in Reqs, Handler(r) PROVE TypeOK'
    BY <1>3, TypeHandler
  <1>4. ASSUME NEW r \in Reqs, Cancel(r) PROVE TypeOK'
    BY <1>4 DEF Cancel, TypeOK
  <1>5. ASSUME NEW r \in Reqs, Crash(r) PROVE TypeOK'
    BY <1>5, ReturnFacts DEF Crash, TypeOK
  <1>6. CASE Sweeper
    BY <1>6, SweeperFacts DEF TypeOK
  <1>7. ASSUME NEW id \in Ids, Expire(id) PROVE TypeOK'
    BY <1>7 DEF Expire, TypeOK, reqVars
  <1>8. CASE UNCHANGED vars
    BY <1>8 DEF vars, TypeOK
  <1>9. QED
    BY <1>1, <1>2, <1>3, <1>4, <1>5, <1>6, <1>7, <1>8 DEF Next

\* The variables of the server always have their types: in particular every
\* handler between its Get and its last call holds a decoded row, and apply
\* never pushes beyond the previewed records.
THEOREM TypeCorrect == Spec => []TypeOK
  BY TypeInit, TypeStep, PTL DEF Spec

-----------------------------------------------------------------------------
(* The invariant is inductive.                                              *)

\* What other requests hold stays true when one request updates or removes a
\* row, or pushes a record.
LEMMA OtherRequests ==
    ASSUME IInv, TypeOK', NEW q \in Reqs,
           pc'[q] = pc[q], rid'[q] = rid[q], copy'[q] = copy[q],
           next'[q] = next[q], err'[q] = err[q],
           \A id \in Ids : pushed[id] \subseteq pushed'[id],
           \A id \in issued : rows'[id] # NoRow =>
                /\ rows[id] # NoRow
                /\ rows'[id] = rows[id] \/ rows'[id].version = rows[id].version + 1
    PROVE  ApplyOK(q)' /\ VerifyOK(q)'
  <1>1. pc[q] # "idle" => rid[q] \in Ids /\ rid[q] \in issued /\ copy[q] \in Row
    BY DEF IInv, TypeOK
  <1>2. ApplyOK(q)'
    BY <1>1 DEF IInv, ApplyOK
  <1>3. ASSUME pc[q] \in {"query", "verified"}, rows'[rid[q]] # NoRow
        PROVE  /\ rows'[rid[q]].version >= copy[q].version
               /\ rows'[rid[q]].version = copy[q].version => rows'[rid[q]].status # "failed"
    <2>1. rid[q] \in issued /\ rid[q] \in Ids /\ copy[q].version \in Nat
      BY <1>1, <1>3 DEF Row
    <2>2. rows[rid[q]] # NoRow
      BY <2>1, <1>3
    <2>3. rows[rid[q]].version \in Nat
      BY <2>1, <2>2 DEF IInv, TypeOK, Row
    <2>4. rows[rid[q]].version >= copy[q].version
      BY <1>3, <2>2 DEF IInv, VerifyOK
    <2>5. rows[rid[q]].version = copy[q].version => rows[rid[q]].status # "failed"
      BY <1>3, <2>2 DEF IInv, VerifyOK
    <2>6. QED
      BY <1>3, <2>1, <2>3, <2>4, <2>5
  <1>4. pc[q] = "query" => (RowOK(rid[q], copy[q]) /\ copy[q].status \in Verifiable)'
    BY <1>1 DEF IInv, VerifyOK, RowOK
  <1>5. pc[q] = "verified" =>
          /\ copy[q].status \in {"verifying", "complete"}
          /\ copy[q].version >= 2
          /\ copy[q].ns => copy[q].version >= 3 /\ 1..copy[q].n \subseteq pushed'[rid[q]]
                             /\ copy[q].results = "ok"
          /\ copy[q].status = "complete" => copy[q].ns /\ copy[q].n > 0
    BY <1>1 DEF IInv, VerifyOK
  <1>6. QED
    BY <1>2, <1>3, <1>4, <1>5 DEF VerifyOK

\* An Update that is accepted keeps the facts about ids, given that the new row
\* satisfies RowOK and is no preview, and that runs grows only from a preview.
LEMMA UpdateIds ==
    ASSUME IInv, NEW r \in Reqs, NEW m \in Row, rid[r] \in Ids, rid[r] \in issued,
           UpdateOK(r, m) \/ UpdateFails(r, m),
           RowOK(rid[r], m), m.status # "preview",
           UNCHANGED <<issued, pushed, runs>>
    PROVE  IdsOK'
  <1>1. \A id \in Ids :
            \/ rows'[id] = rows[id]
            \/ id = rid[r] /\ rows[id] \in Row /\ rows'[id] = m
    BY UpdateFacts DEF IInv
  <1>2. ASSUME NEW id \in Ids, rows'[id] # NoRow PROVE RowOK(id, rows[id])'
    <2>1. CASE rows'[id] = rows[id]
      BY <1>2, <2>1 DEF IInv, IdsOK, RowOK
    <2>2. CASE id = rid[r] /\ rows'[id] = m
      BY <2>2 DEF RowOK
    <2>3. QED
      BY <1>1, <2>1, <2>2
  <1>3. ASSUME NEW id \in Ids, rows'[id] # NoRow, rows'[id].status = "preview" PROVE runs[id] = 0
    BY <1>1, <1>3 DEF IInv, IdsOK
  <1>4. ASSUME NEW id \in Ids, id \notin issued PROVE rows'[id] = NoRow /\ runs[id] = 0
    BY <1>1, <1>4 DEF IInv, IdsOK
  <1>5. QED
    BY <1>2, <1>3, <1>4 DEF IInv, IdsOK

\* A handler that ends with an Update, accepted or not, and returns.
LEMMA SaveAndReturn ==
    ASSUME IInv, TypeOK', NEW r \in Reqs, NEW m \in Row, pc[r] # "idle",
           UpdateOK(r, m) \/ UpdateFails(r, m), Return(r),
           RowOK(rid[r], m), m.status # "preview",
           UNCHANGED <<issued, pushed, runs>>
    PROVE  IInv'
  <1>1. rid[r] \in Ids /\ rid[r] \in issued
    BY DEF IInv, TypeOK
  <1>2. IdsOK'
    BY <1>1, UpdateIds
  <1>3. \A id \in issued : rows'[id] # NoRow =>
            /\ rows[id] # NoRow
            /\ rows'[id] = rows[id] \/ rows'[id].version = rows[id].version + 1
    BY <1>1, UpdateFacts, NoRowAssumption DEF IInv, TypeOK
  <1>4. ASSUME NEW q \in Reqs, q # r PROVE ApplyOK(q)' /\ VerifyOK(q)'
    BY <1>3, <1>4, ReturnFacts, OtherRequests DEF IInv
  <1>5. ApplyOK(r)' /\ VerifyOK(r)'
    BY ReturnFacts DEF IInv, ApplyOK, VerifyOK
  <1>6. \A q \in Reqs : pc'[q] # "idle" => rid'[q] \in issued'
    BY ReturnFacts DEF IInv
  <1>7. QED
    BY <1>2, <1>4, <1>5, <1>6 DEF IInv

\* A handler step that leaves the store alone and keeps its own facts.
LEMMA LocalStep ==
    ASSUME IInv, TypeOK', NEW r \in Reqs, pc[r] # "idle",
           \A q \in Reqs \ {r} :
                pc'[q] = pc[q] /\ copy'[q] = copy[q] /\ next'[q] = next[q] /\ err'[q] = err[q],
           ApplyOK(r)', VerifyOK(r)',
           \A id \in Ids : pushed[id] \subseteq pushed'[id],
           UNCHANGED <<rows, rid, issued, runs>>
    PROVE  IInv'
  <1>1. ASSUME NEW q \in Reqs, q # r PROVE ApplyOK(q)' /\ VerifyOK(q)'
    <2>1. rid'[q] = rid[q]
      OBVIOUS
    <2>2. QED
      BY <1>1, <2>1, OtherRequests
  <1>2. IdsOK'
    <2>1. ASSUME NEW id \in Ids, rows[id] # NoRow PROVE RowOK(id, rows[id])'
      <3>1. RowOK(id, rows[id])
        BY <2>1 DEF IInv, IdsOK
      <3>2. QED
        BY <3>1 DEF RowOK
    <2>2. QED
      BY <2>1 DEF IInv, IdsOK
  <1>3. \A q \in Reqs : pc'[q] # "idle" => rid'[q] \in issued'
    BY DEF IInv
  <1>4. QED
    BY <1>1, <1>2, <1>3 DEF IInv

\* The one Update that starts provider work: only the first apply finds version
\* 1, and it leaves version 2.
LEMMA MarkApplyingInv ==
    ASSUME IInv, TypeOK', NEW r \in Reqs, MarkApplying(r)
    PROVE  IInv'
  <1> DEFINE m == Successor(copy[r], "applying")
  <1>1. /\ pc[r] = "mark" /\ rid[r] \in Ids /\ rid[r] \in issued /\ copy[r] \in Row
        /\ copy[r].version = 1 /\ ~copy[r].ns /\ copy[r].results = "none"
        /\ next[r] = 1
    BY DEF MarkApplying, IInv, TypeOK, ApplyOK
  <1>2. /\ m \in Row /\ m.status = "applying" /\ m.version = 2
        /\ ~m.ns /\ m.results = "none"
    BY <1>1, SuccessorRow DEF Statuses
  <1> HIDE DEF m
  <1>3. RowOK(rid[r], m)
    BY <1>2 DEF RowOK
  <1>4. CASE UpdateFails(r, m) /\ Return(r)
    <2>1. pc'[r] # "ensure"
      BY <1>4, ReturnFacts DEF IInv
    <2>2. runs' = runs
      BY <2>1, <1>1 DEF MarkApplying, IInv, TypeOK
    <2>3. QED
      BY <1>1, <1>2, <1>3, <1>4, <2>2, SaveAndReturn DEF MarkApplying
  <1>5. CASE /\ UpdateOK(r, m) /\ Goto(r, "ensure") /\ copy' = [copy EXCEPT ![r] = m]
             /\ UNCHANGED <<rid, live, next, err>>
    <2>1. /\ rows[rid[r]] \in Row /\ rows[rid[r]].version = 1
          /\ rows' = [rows EXCEPT ![rid[r]] = m]
      BY <1>1, <1>2, <1>5 DEF UpdateOK, Accepts, Store!StoreUpdate, IInv, TypeOK, Row
    <2>2. runs[rid[r]] = 0
      BY <1>1, <2>1, NoRowAssumption DEF IInv, IdsOK, RowOK
    <2>3. pc' = [pc EXCEPT ![r] = "ensure"] /\ pc'[r] = "ensure"
      BY <1>5 DEF Goto, IInv, TypeOK
    <2>4. runs' = [runs EXCEPT ![rid[r]] = 1]
      BY <2>2, <2>3, <1>1 DEF MarkApplying, IInv, TypeOK
    <2>5. issued' = issued /\ pushed' = pushed
      BY DEF MarkApplying
    <2>6. ASSUME NEW id \in Ids, rows'[id] # NoRow PROVE RowOK(id, rows[id])'
      <3>1. CASE id = rid[r]
        BY <1>1, <1>3, <2>1, <2>5, <3>1 DEF RowOK, IInv, TypeOK
      <3>2. CASE id # rid[r]
        <4>1. rows'[id] = rows[id] /\ RowOK(id, rows[id])
          BY <2>1, <2>6, <3>2 DEF IInv, IdsOK, TypeOK
        <4>2. QED
          BY <4>1, <2>5 DEF RowOK
      <3>3. QED
        BY <3>1, <3>2
    <2>7. IdsOK'
      BY <1>1, <1>2, <2>1, <2>4, <2>5, <2>6 DEF IInv, IdsOK, TypeOK
    <2>8. \A id \in issued : rows'[id] # NoRow =>
              /\ rows[id] # NoRow
              /\ rows'[id] = rows[id] \/ rows'[id].version = rows[id].version + 1
      BY <1>1, <1>2, <2>1, NoRowAssumption DEF IInv, TypeOK
    <2>9. ASSUME NEW q \in Reqs, q # r PROVE ApplyOK(q)' /\ VerifyOK(q)'
      BY <1>5, <2>3, <2>5, <2>8, <2>9, OtherRequests DEF IInv, TypeOK
    <2>10. ApplyOK(r)' /\ VerifyOK(r)'
      BY <1>1, <1>2, <1>5, <2>3 DEF ApplyOK, VerifyOK, IInv, TypeOK
    <2>11. \A q \in Reqs : pc'[q] # "idle" => rid'[q] \in issued'
      BY <1>1, <1>5, <2>3, <2>5 DEF IInv, TypeOK
    <2>12. QED
      BY <2>7, <2>9, <2>10, <2>11 DEF IInv
  <1>6. QED
    BY <1>4, <1>5 DEF MarkApplying, Persist, m

\* Apply's provider calls keep its account of what was pushed.
LEMMA ProviderStepsInv ==
    ASSUME IInv, TypeOK', NEW r \in Reqs,
           EnsureZone(r) \/ WaitTurn(r) \/ SetRecord(r) \/ PushedAll(r)
    PROVE  IInv'
  <1>0. ApplyOK(r) /\ TypeOK
    BY DEF IInv
  <1>1. CASE EnsureZone(r)
    <2>1. pc[r] = "ensure" /\ rid[r] \in Ids /\ copy[r] \in Row /\ next[r] \in Nat \ {0}
      BY <1>1 DEF EnsureZone, IInv, TypeOK
    <2>2. \E b \in BOOLEAN : copy' = [copy EXCEPT ![r].ns = b] \/ copy' = copy
      BY <1>1 DEF EnsureZone
    <2>3. copy'[r].version = 2 /\ copy'[r].results = "none"
      BY <1>0, <2>1, <2>2 DEF ApplyOK, TypeOK, Row
    <2>4. pc'[r] \in {"wait", "fail"}
      BY <1>1 DEF EnsureZone, Goto, IInv, TypeOK
    <2>5. ApplyOK(r)' /\ VerifyOK(r)'
      <3>1. pc'[r] = "wait" => next[r] = 1
        BY <1>0, <2>1 DEF ApplyOK
      <3>2. QED
        BY <2>1, <2>3, <2>4, <3>1, <1>1 DEF EnsureZone, ApplyOK, VerifyOK
    <2>6. QED
      BY <1>1, <2>1, <2>5, LocalStep DEF EnsureZone, Goto, IInv, TypeOK
  <1>2. CASE WaitTurn(r)
    <2>1. pc[r] = "wait" /\ rid[r] \in Ids /\ copy[r] \in Row /\ next[r] \in Nat \ {0}
      BY <1>2 DEF WaitTurn, IInv, TypeOK
    <2>2. (pc'[r] = "set" /\ err' = err) \/ (pc'[r] = "finish" /\ err'[r])
      <3>1. CASE Goto(r, "set") /\ UNCHANGED err
        BY <3>1 DEF Goto, IInv, TypeOK
      <3>2. CASE Goto(r, "finish") /\ err' = [err EXCEPT ![r] = TRUE]
        BY <3>2 DEF Goto, IInv, TypeOK
      <3>3. QED
        BY <1>2, <3>1, <3>2 DEF WaitTurn
    <2>3. ApplyOK(r)' /\ VerifyOK(r)'
      BY <1>0, <1>2, <2>1, <2>2 DEF WaitTurn, ApplyOK, VerifyOK
    <2>4. QED
      BY <1>2, <2>1, <2>3, LocalStep DEF WaitTurn, Goto, IInv, TypeOK
  <1>3. CASE SetRecord(r)
    <2>1. /\ pc[r] = "set" /\ rid[r] \in Ids /\ copy[r] \in Row /\ next[r] \in Nat \ {0}
          /\ err[r] \in BOOLEAN
      BY <1>3 DEF SetRecord, IInv, TypeOK
    <2>2. pc'[r] = "wait" /\ next'[r] = next[r] + 1 /\ rid' = rid
      BY <1>3 DEF SetRecord, Goto, IInv, TypeOK
    <2>3. \A id \in Ids : pushed[id] \subseteq pushed'[id]
      BY <1>3, <2>1 DEF SetRecord, IInv, TypeOK
    <2>4. \/ copy'[r] = copy[r] /\ err'[r] = err[r] /\ pushed'[rid[r]] = pushed[rid[r]] \cup {next[r]}
          \/ copy'[r] = [copy[r] EXCEPT !.results = "failed"] /\ err'[r] = TRUE
      BY <1>3, <2>1 DEF SetRecord, IInv, TypeOK
    <2>5. /\ copy'[r].version = 2 /\ copy'[r].results # "ok"
          /\ copy'[r].results = "failed" => err'[r]
      BY <1>0, <2>1, <2>4 DEF ApplyOK, Row
    <2>6. ~err'[r] => 1..(next'[r] - 1) \subseteq pushed'[rid[r]]
      <3>1. SUFFICES ASSUME ~err'[r] PROVE 1..next[r] \subseteq pushed'[rid[r]]
        BY <2>1, <2>2
      <3>2. ~err[r] /\ pushed'[rid[r]] = pushed[rid[r]] \cup {next[r]}
        BY <2>4, <3>1
      <3>3. 1..(next[r] - 1) \subseteq pushed[rid[r]]
        BY <1>0, <2>1, <3>2 DEF ApplyOK
      <3>4. 1..next[r] = 1..(next[r] - 1) \cup {next[r]}
        BY <2>1
      <3>5. QED
        BY <3>2, <3>3, <3>4
    <2>7. ApplyOK(r)' /\ VerifyOK(r)'
      BY <2>1, <2>2, <2>5, <2>6 DEF ApplyOK, VerifyOK
    <2>8. QED
      BY <1>3, <2>1, <2>3, <2>7, LocalStep DEF SetRecord, Goto, IInv, TypeOK
  <1>4. CASE PushedAll(r)
    <2>1. pc[r] = "wait" /\ rid[r] \in Ids /\ copy[r] \in Row /\ next[r] \in Nat \ {0}
      BY <1>4 DEF PushedAll, IInv, TypeOK
    <2>2. pc'[r] = "finish"
      BY <1>4 DEF PushedAll, Goto, IInv, TypeOK
    <2>3. copy[r].n \in Nat /\ 1..copy[r].n \subseteq 1..(next[r] - 1)
      BY <1>4, <2>1, ServerAssumption DEF PushedAll, Row
    <2>4. ApplyOK(r)' /\ VerifyOK(r)'
      BY <1>0, <1>4, <2>1, <2>2, <2>3 DEF PushedAll, ApplyOK, VerifyOK
    <2>5. QED
      BY <1>4, <2>1, <2>4, LocalStep DEF PushedAll, Goto, IInv, TypeOK
  <1>5. QED
    BY <1>1, <1>2, <1>3, <1>4

\* The Updates that end apply and verify, and Delete.
LEMMA SavesInv ==
    ASSUME IInv, TypeOK', NEW r \in Reqs,
           RecordFailure(r) \/ FinishApply(r) \/ SaveVerify(r) \/ DeleteRow(r)
    PROVE  IInv'
  <1>0. ApplyOK(r) /\ VerifyOK(r) /\ TypeOK /\ (pc[r] # "idle" => copy[r] \in Row /\ rid[r] \in Ids)
    BY DEF IInv, TypeOK
  <1>1. CASE RecordFailure(r)
    <2> DEFINE m == Successor(copy[r], "failed")
    <2>1. pc[r] = "fail" /\ copy[r] \in Row /\ copy[r].version = 2
      BY <1>0, <1>1 DEF RecordFailure, ApplyOK
    <2>2. m \in Row /\ m.status = "failed" /\ m.version = 3
      BY <2>1, SuccessorRow DEF Statuses
    <2> HIDE DEF m
    <2>3. RowOK(rid[r], m)
      BY <2>2 DEF RowOK
    <2>4. QED
      BY <1>1, <2>1, <2>2, <2>3, SaveAndReturn DEF RecordFailure, m
  <1>2. CASE FinishApply(r)
    <2> DEFINE m == Outcome(r)
    <2>1. pc[r] = "finish" /\ copy[r] \in Row /\ copy[r].version = 2 /\ err[r] \in BOOLEAN
      BY <1>0, <1>2 DEF FinishApply, ApplyOK, TypeOK
    <2>2. /\ m \in Row /\ m.version = 3 /\ m.n = copy[r].n
          /\ m.status = IF err[r] THEN "failed" ELSE "awaiting_ns_change"
          /\ m.results = IF copy[r].results = "failed" THEN "failed" ELSE "ok"
      BY <2>1, OutcomeRow
    <2> HIDE DEF m
    <2>3. RowOK(rid[r], m)
      BY <1>0, <2>1, <2>2 DEF RowOK, ApplyOK
    <2>4. m.status # "preview"
      BY <2>2
    <2>5. QED
      BY <1>2, <2>1, <2>2, <2>3, <2>4, SaveAndReturn DEF FinishApply, m
  <1>3. CASE SaveVerify(r)
    <2> DEFINE m == Successor(copy[r], copy[r].status)
    <2>1. pc[r] = "verified" /\ copy[r] \in Row /\ copy[r].status \in Statuses /\ copy[r].version \in Nat
      BY <1>0, <1>3 DEF SaveVerify, Row
    <2>2. /\ m \in Row /\ m.version = copy[r].version + 1 /\ m.n = copy[r].n /\ m.ns = copy[r].ns
          /\ m.status = copy[r].status /\ m.results = copy[r].results
      BY <2>1, SuccessorRow
    <2> HIDE DEF m
    <2>3. RowOK(rid[r], m) /\ m.status # "preview"
      BY <1>0, <2>1, <2>2 DEF RowOK, VerifyOK
    <2>4. QED
      BY <1>3, <2>1, <2>2, <2>3, SaveAndReturn DEF SaveVerify, m
  <1>4. CASE DeleteRow(r)
    <2>1. pc[r] = "delete" /\ rid[r] \in Ids /\ Return(r) /\ UNCHANGED <<issued, pushed, runs>>
      BY <1>0, <1>4 DEF DeleteRow
    <2>2. \A id \in Ids : rows'[id] \in {rows[id], NoRow}
      BY <1>4, <2>1 DEF DeleteRow, Store!StoreDelete, IInv, TypeOK
    <2>3. ASSUME NEW id \in Ids, rows'[id] # NoRow PROVE RowOK(id, rows[id])'
      BY <2>1, <2>2, <2>3 DEF IInv, IdsOK, RowOK
    <2>4. IdsOK'
      BY <2>1, <2>2, <2>3 DEF IInv, IdsOK
    <2>5. ASSUME NEW q \in Reqs, q # r PROVE ApplyOK(q)' /\ VerifyOK(q)'
      BY <2>1, <2>2, <2>5, ReturnFacts, OtherRequests DEF IInv, TypeOK
    <2>6. ApplyOK(r)' /\ VerifyOK(r)'
      BY <1>0, <2>1, ReturnFacts DEF ApplyOK, VerifyOK
    <2>7. \A q \in Reqs : pc'[q] # "idle" => rid'[q] \in issued'
      BY <1>0, <2>1, ReturnFacts DEF IInv
    <2>8. QED
      BY <2>4, <2>5, <2>6, <2>7 DEF IInv
  <1>5. QED
    BY <1>1, <1>2, <1>3, <1>4

\* VerifyAgainstNS: a copy without nameservers never becomes complete, and one
\* with nameservers was saved after apply's outcome.
LEMMA QueryInv ==
    ASSUME IInv, TypeOK', NEW r \in Reqs, QueryTargets(r)
    PROVE  IInv'
  <1>1. /\ pc[r] = "query" /\ rid[r] \in Ids /\ copy[r] \in Row
        /\ RowOK(rid[r], copy[r]) /\ copy[r].status \in Verifiable
    BY DEF QueryTargets, IInv, TypeOK, VerifyOK
  <1>2. pc'[r] = "verified" /\ rid' = rid /\ rows' = rows /\ pushed' = pushed
    BY DEF QueryTargets, Goto, IInv, TypeOK
  <1>3. \/ copy'[r] = [copy[r] EXCEPT !.status = "complete"] /\ copy[r].ns /\ copy[r].n > 0
        \/ copy'[r] = [copy[r] EXCEPT !.status = "verifying"]
    BY <1>1 DEF QueryTargets, IInv, TypeOK
  <1>4. /\ copy'[r].version = copy[r].version /\ copy'[r].n = copy[r].n
        /\ copy'[r].results = copy[r].results
        /\ copy'[r].status \in {"verifying", "complete"}
        /\ copy'[r].status = "complete" => copy[r].ns /\ copy[r].n > 0
    BY <1>1, <1>3 DEF Row
  <1>5. copy'[r].ns = copy[r].ns
    BY <1>1, <1>3 DEF Row
  <1>6. copy[r].version \in Nat /\ copy[r].version >= 2
    BY <1>1 DEF RowOK, Verifiable, Row
  <1>7. copy[r].ns => copy[r].version >= 3 /\ 1..copy[r].n \subseteq pushed[rid[r]]
                       /\ copy[r].results = "ok"
    BY <1>1, <1>6 DEF RowOK, Verifiable
  <1>8. ApplyOK(r)' /\ VerifyOK(r)'
    <2>1. rows[rid[r]] # NoRow =>
            /\ rows[rid[r]].version >= copy[r].version
            /\ rows[rid[r]].version = copy[r].version => rows[rid[r]].status # "failed"
      BY <1>1 DEF IInv, VerifyOK
    <2>2. QED
      BY <1>2, <1>4, <1>5, <1>6, <1>7, <2>1 DEF ApplyOK, VerifyOK
  <1>9. QED
    BY <1>1, <1>8, LocalStep DEF QueryTargets, Goto, IInv, TypeOK

\* loadAndAuth hands a handler the stored row.
LEMMA LoadInv ==
    ASSUME IInv, TypeOK', NEW r \in Reqs, NEW id \in Ids,
           BeginApply(r, id) \/ BeginVerify(r, id) \/ BeginDelete(r, id)
    PROVE  IInv'
  <1>1. PICK l \in {"mark", "query", "delete"} :
            /\ Load(r, id, l)
            /\ l = "mark" => rows[id].status = "preview"
            /\ l = "query" => rows[id].status \in Verifiable
    BY DEF BeginApply, BeginVerify, BeginDelete
  <1>2. /\ pc[r] = "idle" /\ pc'[r] = l /\ rid'[r] = id /\ copy'[r] = rows[id]
        /\ UNCHANGED <<rows, issued, next, err, pushed, runs>>
        /\ rows[id] \in Row /\ rows[id] # NoRow
    BY <1>1, NoRowAssumption DEF Load, Loads, Goto, IInv, TypeOK
  <1>3. \A q \in Reqs \ {r} : pc'[q] = pc[q] /\ rid'[q] = rid[q] /\ copy'[q] = copy[q]
    BY <1>1 DEF Load, Goto, IInv, TypeOK
  <1>4. ASSUME NEW q \in Reqs, q # r PROVE ApplyOK(q)' /\ VerifyOK(q)'
    BY <1>2, <1>3, <1>4, OtherRequests
  <1>5. RowOK(id, rows[id]) /\ next[r] = 1 /\ id \in issued
    BY <1>2 DEF IInv, IdsOK, ApplyOK
  <1>6. ApplyOK(r)'
    BY <1>1, <1>2, <1>5 DEF ApplyOK, RowOK
  <1>7. VerifyOK(r)'
    BY <1>1, <1>2, <1>5 DEF VerifyOK, RowOK, Verifiable, Row
  <1>8. IdsOK'
    BY <1>2 DEF IInv, IdsOK, RowOK
  <1>9. \A q \in Reqs : pc'[q] # "idle" => rid'[q] \in issued'
    BY <1>2, <1>3, <1>5 DEF IInv
  <1>10. QED
    BY <1>4, <1>6, <1>7, <1>8, <1>9 DEF IInv

LEMMA InvInit == Init => IInv
  <1> SUFFICES ASSUME Init PROVE IInv
    OBVIOUS
  <1>1. TypeOK
    BY TypeInit
  <1>2. IdsOK
    <2>1. \A id \in Ids : rows[id] = NoRow /\ runs[id] = 0
      BY DEF Init
    <2>2. ASSUME NEW id \in Ids PROVE runs[id] <= 1
      <3>1. runs[id] = 0
        BY <2>1
      <3>2. 0 <= 1
        OBVIOUS
      <3>3. QED
        BY <3>1, <3>2
    <2>3. QED
      BY <2>1, <2>2, Zenon DEF IdsOK
  <1>3. \A r \in Reqs : pc[r] = "idle" /\ next[r] = 1
    BY DEF Init
  <1>4. QED
    BY <1>1, <1>2, <1>3 DEF IInv, ApplyOK, VerifyOK

LEMMA InvStep == IInv /\ [Next]_vars => IInv'
  <1> SUFFICES ASSUME IInv, [Next]_vars PROVE IInv'
    OBVIOUS
  <1>0. TypeOK'
    BY TypeStep DEF IInv
  <1>1. ASSUME NEW id \in Ids, NEW n \in 0..MaxRecords, Preview(id, n) PROVE IInv'
    <2> DEFINE m == [status |-> "preview", version |-> 1, n |-> n, ns |-> FALSE, results |-> "none"]
    <2>1. /\ id \notin issued /\ issued' = issued \cup {id} /\ rows' = [rows EXCEPT ![id] = m]
          /\ UNCHANGED <<pc, rid, copy, next, err, pushed, runs>>
      BY <1>1 DEF Preview, Store!StoreCreate, reqVars
    <2>2. m \in Row /\ RowOK(id, m) /\ m.status = "preview"
      BY PreviewRow DEF RowOK
    <2> HIDE DEF m
    <2>3. ASSUME NEW i \in Ids, rows'[i] # NoRow PROVE RowOK(i, rows[i])'
      <3>1. CASE i = id
        BY <2>1, <2>2, <3>1 DEF IInv, TypeOK, RowOK
      <3>2. CASE i # id
        BY <2>1, <2>3, <3>2 DEF IInv, TypeOK, IdsOK, RowOK
      <3>3. QED
        BY <3>1, <3>2
    <2>4. IdsOK'
      BY <2>1, <2>2, <2>3 DEF IInv, IdsOK, TypeOK
    <2>5. ASSUME NEW q \in Reqs PROVE ApplyOK(q)' /\ VerifyOK(q)'
      <3>1. \A i \in issued : rows'[i] = rows[i]
        BY <2>1 DEF IInv, TypeOK
      <3>2. QED
        BY <1>0, <2>1, <3>1, OtherRequests
    <2>6. QED
      BY <1>0, <2>1, <2>4, <2>5 DEF IInv
  <1>2. ASSUME NEW r \in Reqs, NEW id \in Ids,
               BeginApply(r, id) \/ BeginVerify(r, id) \/ BeginDelete(r, id)
        PROVE  IInv'
    BY <1>0, <1>2, LoadInv
  <1>3. ASSUME NEW r \in Reqs, Handler(r) PROVE IInv'
    BY <1>0, <1>3, MarkApplyingInv, ProviderStepsInv, SavesInv, QueryInv DEF Handler
  <1>4. ASSUME NEW r \in Reqs, Cancel(r) PROVE IInv'
    BY <1>0, <1>4 DEF Cancel, IInv, IdsOK, RowOK, ApplyOK, VerifyOK
  <1>5. ASSUME NEW r \in Reqs, Crash(r) PROVE IInv'
    <2>1. Return(r) /\ UNCHANGED <<rows, issued, pushed, runs>> /\ TypeOK
      BY <1>5 DEF Crash, IInv
    <2>2. ASSUME NEW q \in Reqs, q # r PROVE ApplyOK(q)' /\ VerifyOK(q)'
      BY <1>0, <2>1, <2>2, ReturnFacts, OtherRequests
    <2>3. ApplyOK(r)' /\ VerifyOK(r)'
      BY <2>1, ReturnFacts DEF ApplyOK, VerifyOK
    <2>4. IdsOK'
      BY <2>1 DEF IInv, IdsOK, RowOK
    <2>5. \A q \in Reqs : pc'[q] # "idle" => rid'[q] \in issued'
      BY <2>1, ReturnFacts DEF IInv
    <2>6. QED
      BY <1>0, <2>2, <2>3, <2>4, <2>5 DEF IInv
  <1>6. CASE Sweeper
    <2>1. /\ \A id \in Ids : rows'[id] \in {rows[id], NoRow}
          /\ UNCHANGED <<expired, issued, pc, rid, copy, live, next, err, pushed, runs>>
      BY <1>6, SweeperFacts DEF IInv
    <2>2. IdsOK'
      BY <2>1 DEF IInv, IdsOK, RowOK
    <2>3. ASSUME NEW q \in Reqs PROVE ApplyOK(q)' /\ VerifyOK(q)'
      BY <1>0, <2>1, OtherRequests DEF IInv, TypeOK
    <2>4. QED
      BY <1>0, <2>1, <2>2, <2>3 DEF IInv
  <1>7. ASSUME NEW id \in Ids, Expire(id) PROVE IInv'
    BY <1>0, <1>7 DEF Expire, reqVars, IInv, IdsOK, RowOK, ApplyOK, VerifyOK
  <1>8. CASE UNCHANGED vars
    BY <1>0, <1>8 DEF vars, IInv, IdsOK, RowOK, ApplyOK, VerifyOK
  <1>9. QED
    BY <1>1, <1>2, <1>3, <1>4, <1>5, <1>6, <1>7, <1>8 DEF Next

LEMMA InvAlways == Spec => []IInv
  BY InvInit, InvStep, PTL DEF Spec

-----------------------------------------------------------------------------
(* Results.                                                                 *)

\* Whatever requests race, are retried, cancelled or crash, at most one apply
\* reaches the provider for a migration (handleMigrateApply's "BEFORE any
\* provider work").
THEOREM ApplyOnce == Spec => []ApplyAtMostOnce
  <1>1. IInv => ApplyAtMostOnce
    BY DEF IInv, IdsOK, ApplyAtMostOnce
  <1>2. QED
    BY <1>1, InvAlways, PTL

\* A stored status of awaiting_ns_change or complete is never ahead of the
\* provider: every previewed record was accepted.
THEOREM StatusHonest == Spec => []AppliedMeansPushed
  <1>1. IInv => AppliedMeansPushed
    BY DEF IInv, IdsOK, RowOK, AppliedMeansPushed
  <1>2. QED
    BY <1>1, InvAlways, PTL

\* No handler, however old its copy, brings back a migration that was deleted
\* or swept.
THEOREM GoneStaysGone == Spec => NoResurrection
  <1> DEFINE Keep == \A id \in issued : rows[id] = NoRow => rows'[id] = NoRow
  <1>1. IInv /\ [Next]_vars => [Keep]_vars
    <2> SUFFICES ASSUME IInv, Next PROVE Keep
      BY DEF Keep
    <2>1. ASSUME NEW id \in Ids, NEW n \in 0..MaxRecords, Preview(id, n) PROVE Keep
      BY <2>1 DEF Preview, Store!StoreCreate, IInv, TypeOK
    <2>2. ASSUME NEW r \in Reqs, NEW m, rid[r] \in Ids, UpdateOK(r, m) \/ UpdateFails(r, m) PROVE Keep
      BY <2>2 DEF UpdateOK, UpdateFails, Accepts, Store!StoreUpdate, IInv, TypeOK
    <2>3. ASSUME NEW r \in Reqs, Handler(r) PROVE Keep
      <3>1. pc[r] # "idle" => rid[r] \in Ids
        BY DEF IInv, TypeOK
      <3>2. CASE MarkApplying(r)
        BY <2>2, <3>1, <3>2 DEF MarkApplying, Persist
      <3>3. CASE RecordFailure(r) \/ FinishApply(r) \/ SaveVerify(r)
        BY <2>2, <3>1, <3>3 DEF RecordFailure, FinishApply, SaveVerify
      <3>4. CASE DeleteRow(r)
        BY <3>1, <3>4 DEF DeleteRow, Store!StoreDelete, IInv, TypeOK
      <3>5. CASE EnsureZone(r) \/ WaitTurn(r) \/ SetRecord(r) \/ PushedAll(r) \/ QueryTargets(r)
        BY <3>5 DEF EnsureZone, WaitTurn, SetRecord, PushedAll, QueryTargets
      <3>6. QED
        BY <2>3, <3>2, <3>3, <3>4, <3>5 DEF Handler
    <2>4. ASSUME NEW r \in Reqs, NEW id \in Ids,
                 BeginApply(r, id) \/ BeginVerify(r, id) \/ BeginDelete(r, id)
          PROVE  Keep
      BY <2>4 DEF BeginApply, BeginVerify, BeginDelete, Load
    <2>5. ASSUME NEW r \in Reqs, Cancel(r) \/ Crash(r) PROVE Keep
      BY <2>5 DEF Cancel, Crash
    <2>6. CASE Sweeper
      BY <2>6, SweeperFacts DEF IInv, TypeOK
    <2>7. ASSUME NEW id \in Ids, Expire(id) PROVE Keep
      BY <2>7 DEF Expire
    <2>8. QED
      BY <2>1, <2>3, <2>4, <2>5, <2>6, <2>7 DEF Next
  <1>2. QED
    BY <1>1, InvAlways, PTL DEF Spec, NoResurrection, Keep

\* The edge an accepted Update takes starts at the status stored when it is
\* accepted.
LEMMA UpdateEdge ==
    ASSUME IInv, NEW r \in Reqs, NEW m \in Row, pc[r] # "idle",
           UpdateOK(r, m) \/ UpdateFails(r, m),
           m.version = copy[r].version + 1,
           \/ pc[r] = "mark" /\ m.status = "applying"
           \/ pc[r] \in {"fail", "finish"} /\ m.status \in {"failed", "awaiting_ns_change"}
           \/ pc[r] = "verified" /\ m.status = copy[r].status
    PROVE  \A id \in Ids : rows[id] # NoRow /\ rows'[id] \notin {NoRow, rows[id]} =>
              <<rows[id].status, rows'[id].status>> \in Follows
  <1> SUFFICES ASSUME NEW id \in Ids, rows[id] # NoRow, rows'[id] # rows[id]
               PROVE  <<rows[id].status, rows'[id].status>> \in Follows
    OBVIOUS
  <1>0. TypeOK /\ ApplyOK(r) /\ VerifyOK(r) /\ rid[r] \in Ids /\ copy[r] \in Row
    BY DEF IInv, TypeOK
  <1>1. /\ id = rid[r] /\ rows[id] \in Row /\ rows'[id] = m
        /\ m.version = rows[id].version + 1
    BY <1>0, UpdateFacts
  <1>2. rows[id].version \in Nat /\ copy[r].version \in Nat /\ rows[id].status \in Statuses
    BY <1>0, <1>1 DEF Row
  <1>3. rows[id].version = copy[r].version
    BY <1>1, <1>2
  <1>4. RowOK(id, rows[id])
    BY DEF IInv, IdsOK
  <1>5. CASE pc[r] = "mark"
    BY <1>0, <1>1, <1>3, <1>4, <1>5 DEF ApplyOK, RowOK, Follows
  <1>6. CASE pc[r] \in {"fail", "finish"}
    BY <1>0, <1>1, <1>3, <1>4, <1>6 DEF ApplyOK, RowOK, Follows
  <1>7. CASE pc[r] = "verified"
    <2>1. /\ rows[id].status # "failed"
          /\ copy[r].status \in {"verifying", "complete"}
          /\ copy[r].version >= 2
          /\ copy[r].ns => copy[r].version >= 3
          /\ copy[r].status = "complete" => copy[r].ns
      BY <1>0, <1>1, <1>3, <1>7 DEF VerifyOK
    <2>2. rows[id].status # "preview" /\ (rows[id].status = "applying" => copy[r].status # "complete")
      BY <1>2, <1>3, <1>4, <2>1 DEF RowOK
    <2>3. QED
      BY <1>1, <1>2, <1>7, <2>1, <2>2 DEF Follows, Statuses
  <1>8. QED
    BY <1>5, <1>6, <1>7

\* Every stored row moves along the status graph: a handler that read an older
\* status cannot save over a newer one.
THEOREM StatusEdges == Spec => StatusOrder
  <1> DEFINE Edge == \A id \in Ids : rows[id] # NoRow /\ rows'[id] \notin {NoRow, rows[id]} =>
                        <<rows[id].status, rows'[id].status>> \in Follows
  <1>1. IInv /\ [Next]_vars => [Edge]_vars
    <2> SUFFICES ASSUME IInv, Next PROVE Edge
      BY DEF Edge
    <2>1. ASSUME NEW id \in Ids, NEW n \in 0..MaxRecords, Preview(id, n) PROVE Edge
      BY <2>1 DEF Preview, Store!StoreCreate, IInv, TypeOK
    <2>2. ASSUME NEW r \in Reqs, Handler(r) PROVE Edge
      <3>0. /\ pc[r] # "idle" => copy[r] \in Row /\ copy[r].status \in Statuses /\ rid[r] \in Ids
            /\ err[r] \in BOOLEAN
        BY DEF IInv, TypeOK, Row
      <3>1. CASE MarkApplying(r)
        <4> DEFINE m == Successor(copy[r], "applying")
        <4>1. m \in Row /\ m.status = "applying" /\ m.version = copy[r].version + 1
          BY <3>0, <3>1, SuccessorRow DEF MarkApplying, Statuses
        <4> HIDE DEF m
        <4>2. UpdateOK(r, m) \/ UpdateFails(r, m)
          BY <3>1 DEF MarkApplying, Persist, m
        <4>3. QED
          BY <3>1, <4>1, <4>2, UpdateEdge DEF MarkApplying
      <3>2. CASE RecordFailure(r)
        <4> DEFINE m == Successor(copy[r], "failed")
        <4>1. m \in Row /\ m.status = "failed" /\ m.version = copy[r].version + 1
          BY <3>0, <3>2, SuccessorRow DEF RecordFailure, Statuses
        <4> HIDE DEF m
        <4>2. UpdateOK(r, m) \/ UpdateFails(r, m)
          BY <3>2 DEF RecordFailure, m
        <4>3. QED
          BY <3>2, <4>1, <4>2, UpdateEdge DEF RecordFailure
      <3>3. CASE FinishApply(r)
        <4> DEFINE m == Outcome(r)
        <4>1. m \in Row /\ m.status \in {"failed", "awaiting_ns_change"} /\ m.version = copy[r].version + 1
          BY <3>0, <3>3, OutcomeRow DEF FinishApply
        <4> HIDE DEF m
        <4>2. UpdateOK(r, m) \/ UpdateFails(r, m)
          BY <3>3 DEF FinishApply, m
        <4>3. QED
          BY <3>3, <4>1, <4>2, UpdateEdge DEF FinishApply
      <3>4. CASE SaveVerify(r)
        <4> DEFINE m == Successor(copy[r], copy[r].status)
        <4>1. m \in Row /\ m.status = copy[r].status /\ m.version = copy[r].version + 1
          BY <3>0, <3>4, SuccessorRow DEF SaveVerify
        <4> HIDE DEF m
        <4>2. UpdateOK(r, m) \/ UpdateFails(r, m)
          BY <3>4 DEF SaveVerify, m
        <4>3. QED
          BY <3>4, <4>1, <4>2, UpdateEdge DEF SaveVerify
      <3>5. CASE DeleteRow(r)
        BY <3>0, <3>5 DEF DeleteRow, Store!StoreDelete, IInv, TypeOK
      <3>6. CASE EnsureZone(r) \/ WaitTurn(r) \/ SetRecord(r) \/ PushedAll(r) \/ QueryTargets(r)
        BY <3>6 DEF EnsureZone, WaitTurn, SetRecord, PushedAll, QueryTargets
      <3>7. QED
        BY <2>2, <3>1, <3>2, <3>3, <3>4, <3>5, <3>6 DEF Handler
    <2>3. ASSUME NEW r \in Reqs, NEW id \in Ids,
                 BeginApply(r, id) \/ BeginVerify(r, id) \/ BeginDelete(r, id)
          PROVE  Edge
      BY <2>3 DEF BeginApply, BeginVerify, BeginDelete, Load
    <2>4. ASSUME NEW r \in Reqs, Cancel(r) \/ Crash(r) PROVE Edge
      BY <2>4 DEF Cancel, Crash
    <2>5. CASE Sweeper
      BY <2>5, SweeperFacts DEF IInv
    <2>6. ASSUME NEW id \in Ids, Expire(id) PROVE Edge
      BY <2>6 DEF Expire
    <2>7. QED
      BY <2>1, <2>2, <2>3, <2>4, <2>5, <2>6 DEF Next
  <1>2. QED
    BY <1>1, InvAlways, PTL DEF Spec, StatusOrder, Edge
=============================================================================
