--------------------------- MODULE MigrationStore ---------------------------
(***************************************************************************)
(* The contract of migrate.MigrationStore: a map from migration ids to     *)
(* rows whose operations take effect atomically.  Update is a compare-and- *)
(* swap on the row's version.  This is the abstract specification: the     *)
(* JSON store is shown to implement it, and the HTTP handlers are written  *)
(* against it.                                                             *)
(***************************************************************************)
EXTENDS Naturals

CONSTANTS
    Ids,       \* migration ids
    RowSet,    \* the rows a store may hold
    NoRow      \* the value of an id without a row

VARIABLE rows  \* rows[id] is the stored row, or NoRow

StoreTypeOK == rows \in [Ids -> RowSet \cup {NoRow}]

StoreInit == rows = [id \in Ids |-> NoRow]

\* Create inserts a row under an id that has none.
StoreCreate(id, m) ==
    /\ rows[id] = NoRow
    /\ rows' = [rows EXCEPT ![id] = m]

\* Update replaces a row only if the submitted version succeeds the stored one.
StoreUpdate(id, m) ==
    /\ rows[id] # NoRow
    /\ m.version = rows[id].version + 1
    /\ rows' = [rows EXCEPT ![id] = m]

\* Delete is idempotent: removing an absent row changes nothing.
StoreDelete(id) ==
    rows' = [rows EXCEPT ![id] = NoRow]

StoreNext ==
    \E id \in Ids :
        \/ \E m \in RowSet : StoreCreate(id, m) \/ StoreUpdate(id, m)
        \/ StoreDelete(id)

StoreSpec == StoreInit /\ [][StoreNext]_rows
=============================================================================
