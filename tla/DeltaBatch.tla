----------------------------- MODULE DeltaBatch -----------------------------
(***************************************************************************)
(* The pure parts of applying a batch of server deltas on the client:      *)
(* deduplication, delete-wins conflict resolution, the one read-write      *)
(* transaction per object store, the durable prefix, and the slices in     *)
(* which the results reach the in-memory pool.                             *)
(*                                                                         *)
(* A delta is a record of the server's log; its position in the log is its *)
(* sync id.  A stored record maps every field to the sync id of the delta  *)
(* that last wrote it, so that two records are equal exactly when the same *)
(* writes produced them.                                                   *)
(***************************************************************************)
EXTENDS Integers, Sequences, FiniteSets, Functions

CONSTANTS
    Row,        \* the model ids
    Field,      \* the fields of a record
    StoreOf,    \* [Row -> store]: modelName of a row, one object store each
    Tx,         \* the transaction ids
    NoTx        \* a delta without a transactionId

Kind == {"I", "U", "D", "S", "X"}

(* actionType: insert (covering deltas take the same path), update, delete, *)
(* sync group removed, and a position this client is not entitled to see.   *)
Delta == [kind : Kind, row : Row, fields : SUBSET Field, tx : Tx \cup {NoTx}]

Record == [Field -> Nat]
NoRow == [f \in Field |-> 0]

MaxOf(S, default) == IF S = {} THEN default ELSE CHOOSE m \in S : \A n \in S : n <= m
Max2(a, b) == IF a > b THEN a ELSE b

(* What the server holds for a row when its log has been written to n: the *)
(* reference the client's records are compared with.                       *)
ImageAt(log, n, r) ==
    LET born == MaxOf({i \in 1..n : log[i].row = r /\ log[i].kind \in {"I", "D"}}, 0)
    IN  IF born = 0 \/ log[born].kind = "D" THEN NoRow
        ELSE [f \in Field |->
                MaxOf({i \in born..n : log[i].row = r /\ log[i].kind = "U"
                                       /\ f \in log[i].fields}, born)]

(* The members of a finite set of sync ids in ascending order.             *)
InOrder(S) ==
    [k \in 1..Cardinality(S) |-> CHOOSE i \in S : Cardinality({j \in S : j <= i}) = k]

(* deltaPipeline.deduplicateDeltas: a strictly ordered frame is returned as *)
(* it is, any other is sorted by sync id and stripped of repeats.           *)
DeduplicateDeltas(ids) ==
    IF \A i \in 1..(Len(ids) - 1) : ids[i] < ids[i + 1]
    THEN ids
    ELSE InOrder(Range(ids))

(* Mutant: only the sync ids of deletes decide, not their rows.            *)
SupersededByAnyDelete(log, ids, id) ==
    /\ log[id].kind \in {"I", "U"}
    /\ \E d \in Range(ids) : log[d].kind = "D" /\ d >= id

(* Delete wins: an insert or update is skipped when the batch holds a      *)
(* delete of the same row with the same or a higher sync id.               *)
Superseded(log, ids, id) ==
    /\ log[id].kind \in {"I", "U"}
    /\ \E d \in Range(ids) : log[d].kind = "D" /\ log[d].row = log[id].row /\ d >= id

(* The deltas of one store's transaction, and the stores in the order in   *)
(* which the batch first names them.                                       *)
StoreDeltas(log, ids, s) ==
    {id \in Range(ids) : StoreOf[log[id].row] = s /\ ~Superseded(log, ids, id)}

StoresOf(log, ids) ==
    {StoreOf[log[id].row] : id \in {i \in Range(ids) : ~Superseded(log, ids, i)}}

FirstStore(log, ids, todo) ==
    LET at == {i \in 1..Len(ids) : /\ StoreOf[log[ids[i]].row] \in todo
                                   /\ ~Superseded(log, ids, ids[i])}
    IN  StoreOf[log[ids[CHOOSE i \in at : \A j \in at : i <= j]].row]

(* Mutant: the insert of a record that is already stored is an update.     *)
ActionUpserts(log, existing, id) ==
    CASE log[id].kind = "D" -> "remove"
      [] log[id].kind = "I" /\ existing[log[id].row] = NoRow -> "add"
      [] log[id].kind \in {"I", "U"} /\ existing[log[id].row] # NoRow -> "update"
      [] OTHER -> "verify"

(* The action a delta's write reports.  `existing` are the records read    *)
(* before the transaction: an update without one is skipped.               *)
Action(log, existing, id) ==
    CASE log[id].kind = "I" -> "add"
      [] log[id].kind = "U" -> IF existing[log[id].row] = NoRow THEN "verify" ELSE "update"
      [] log[id].kind = "D" -> "remove"
      [] OTHER              -> "verify"

(* The record one delta puts: updates are merged onto the record that was  *)
(* read before the transaction started.                                    *)
Put(log, existing, id) ==
    CASE log[id].kind = "I" -> [f \in Field |-> id]
      [] log[id].kind = "U" -> [f \in Field |-> IF f \in log[id].fields THEN id
                                                ELSE existing[log[id].row][f]]
      [] OTHER              -> NoRow

(* The records after the transaction of the deltas D: the puts run in      *)
(* order, so the last writer of a row decides.                             *)
AfterStore(log, stored, existing, D) ==
    [r \in Row |->
        LET last == MaxOf({id \in D : log[id].row = r
                                      /\ Action(log, existing, id) # "verify"}, 0)
        IN  IF last = 0 THEN stored[r] ELSE Put(log, existing, last)]

(* Mutants: the highest stored id, gaps or not; the id expected next.      *)
HighestPersisted(ids, ok) == MaxOf(ok \cap Range(ids), 0)
NextAfterPrefix(ids, ok) ==
    MaxOf({ids[i] + 1 : i \in {j \in 1..Len(ids) : \A k \in 1..j : ids[k] \in ok}}, 0)

(* persistedPrefix.highestPersistedPrefixSyncId: the highest id before the *)
(* first input that did not reach storage.                                 *)
HighestPersistedPrefix(ids, ok) ==
    MaxOf({ids[i] : i \in {j \in 1..Len(ids) : \A k \in 1..j : ids[k] \in ok}}, 0)

(* Mutant: slices are cut by count alone.                                  *)
AnyBoundary(txs, e) == e \in 1..Len(txs)

(* deltaPipeline.sliceApplyChanges: where the slice that starts after      *)
(* `done` ends.  txs are the transaction ids of the results; a run of      *)
(* results of one transaction is never divided.                            *)
IsBoundary(txs, e) == e = Len(txs) \/ txs[e] = NoTx \/ txs[e] # txs[e + 1]

SliceEnd(txs, done, max) ==
    LET ends == {e \in (done + 1)..Len(txs) : IsBoundary(txs, e)}
        fit  == {e \in ends : e - done <= max}
    IN  IF Len(txs) <= max THEN Len(txs)
        ELSE IF fit # {} THEN MaxOf(fit, 0)
        ELSE CHOOSE e \in ends : \A o \in ends : e <= o

(* The transaction ids the results carry: one that was superseded or whose *)
(* store transaction failed is reported without its own, unless it is held *)
(* from an earlier attempt.                                                *)
ResultTxs(log, ids, ok, held) ==
    [k \in 1..Len(ids) |-> IF \/ ids[k] \in ok /\ ~Superseded(log, ids, ids[k])
                              \/ ids[k] \in held
                           THEN log[ids[k]].tx ELSE NoTx]

(* SyncClient.applyDeltaBatchToPool for one slice.  pool[r] is the row's   *)
(* watermark, 0 when the row is not resident.  Every change advances the   *)
(* watermark of a resident row; an update of a row that is not resident is *)
(* dropped; a row removed anywhere in the slice is not added.              *)
Reveal(log, pool, slice, acts) ==
    [r \in Row |->
        LET mine == {id \in slice : log[id].row = r}
            Did(a) == {id \in mine : acts[id] = a}
        IN  IF Did("remove") # {} THEN 0
            ELSE IF pool[r] > 0 THEN MaxOf(mine \cup {pool[r]}, 0)
            ELSE MaxOf(Did("add"), 0)]
=============================================================================
