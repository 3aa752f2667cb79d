---------------------------- MODULE ExecutionQueue ----------------------------
(***************************************************************************)
(* The ordering rules of the execution queue: how a write enters it, how   *)
(* it is sorted, and which writes the next commit may carry.  The rules    *)
(* are pure; T is the mutation store, a function from write ids to records *)
(* with the fields                                                         *)
(*    type, row  what the write does and to which row,                     *)
(*    opt        "plain", "reorder" (an order or position payload),        *)
(*               "intent" (a versioned field operation) or "keyed" (an     *)
(*               explicit idempotency key),                                *)
(*    high       its priority is 'high',                                   *)
(*    status     its place in the life cycle,                              *)
(*    env        its idempotency key, 0 before one is minted.              *)
(***************************************************************************)
EXTENDS Integers, FiniteSets, SequencesExt

CONSTANTS MaxBatch,    \* config.maxBatchSize
          ChildRows    \* rows of models that reference another model

ASSUME MaxBatchAssumption == MaxBatch \in Nat \ {0}

(* A set of positions in increasing order, and the members of a sequence   *)
(* that belong to a set, in their order (Array.filter).                    *)
InOrder(S) ==
    [k \in 1..Cardinality(S) |-> CHOOSE i \in S : Cardinality({j \in S : j <= i}) = k]

Keep(s, S) ==
    LET kept == InOrder({i \in DOMAIN s : s[i] \in S})
    IN  [k \in DOMAIN kept |-> s[kept[k]]]

(* enqueueTransaction skips a settled or already queued write.             *)
Admitted(queue, ts, T) ==
    {t \in ToSet(ts) : T[t].status = "pending" /\ ~Contains(queue, t)}

(* The writes ts, which holds each write once, enter one after another,    *)
(* high-priority writes at the head and the others at the tail.            *)
EnqueueAll(queue, ts, T) ==
    LET new  == Admitted(queue, ts, T)
        high == {t \in new : T[t].high}
    IN  Reverse(Keep(ts, high)) \o queue \o Keep(ts, new \ high)

(* computePriorityScore: parents are created before children, and creates  *)
(* come before every other write.                                          *)
PriorityScore(t, T) ==
    IF T[t].type # "create" THEN 3
    ELSE IF T[t].row \in ChildRows THEN 2 ELSE 1

(* processBatch sorts the queue by that score, stably.                     *)
SortByPriority(queue, T) ==
    LET scored(n) == Keep(queue, {t \in DOMAIN T : PriorityScore(t, T) = n})
    IN  scored(1) \o scored(2) \o scored(3)

Pending(queue, T) == Keep(queue, {t \in DOMAIN T : T[t].status = "pending"})

(* Mutant: a retry goes out with whichever members are back in the queue.  *)
PartialRetries(pending, T, envelope) ==
    {T[t].env : t \in ToSet(pending)} \ {0}

(* A retry is sent only with the whole group its key was minted for: every *)
(* member of envelope k is pending in the queue.                           *)
CompleteRetries(pending, T, envelope) ==
    {k \in {T[t].env : t \in ToSet(pending)} \ {0} :
        Cardinality({t \in ToSet(pending) : T[t].env = k}) = Len(envelope[k].ops)}

(* The group met first in the queue goes first, its members in their       *)
(* original order.                                                         *)
FirstRetry(pending, T, envelope) ==
    LET complete == CompleteRetries(pending, T, envelope)
        k        == T[Keep(pending, {t \in DOMAIN T : T[t].env \in complete})[1]].env
    IN  Keep(envelope[k].ops, {t \in ToSet(pending) : T[t].env = k})

(* Mutant: rows are not reserved for requests in retry backoff.            *)
UnsealedRows(pending, T) == {}

(* Rows on which nothing new may be sent: a request for the row is waiting *)
(* to be retried or in flight, or a write to it is still on its way to the *)
(* queue.                                                                  *)
SealedRows(pending, T) ==
    {T[t].row : t \in {u \in DOMAIN T :
        \/ T[u].env # 0 /\ T[u].status \in {"pending", "executing"}
        \/ T[u].status = "pending" /\ ~Contains(pending, u)}}

Fresh(pending, T) ==
    Keep(pending, {t \in DOMAIN T : T[t].env = 0 /\ T[t].row \notin SealedRows(pending, T)})

(* The candidates, as positions of the fresh writes.  A write with an      *)
(* explicit key travels alone; the writes before it do not wait for it.    *)
Candidates(fresh, T) ==
    {i \in 1..Len(fresh) :
        \/ i = 1
        \/ i <= MaxBatch /\ \A j \in 1..i : T[fresh[j]].opt # "keyed"}

HasBarrier(t, T) == T[t].opt \in {"intent", "keyed"}

(* The selection loop: the first candidate of a row joins the batch; a     *)
(* barrier on it or on a later one closes the row for the rest of the      *)
(* batch, so a later candidate joins only if none of its row so far has    *)
(* one.                                                                    *)
Selected(fresh, T) ==
    LET sameRow(i) == {j \in 1..i : T[fresh[j]].row = T[fresh[i]].row}
    IN  {i \in Candidates(fresh, T) :
            sameRow(i) = {i} \/ \A j \in sameRow(i) : ~HasBarrier(fresh[j], T)}

(* takeNextExecutionBatch: a complete retry, else the fresh writes.        *)
TakeNextBatch(pending, fresh, T, envelope) ==
    IF CompleteRetries(pending, T, envelope) # {}
    THEN FirstRetry(pending, T, envelope)
    ELSE Keep(fresh, {fresh[i] : i \in Selected(fresh, T)})

(* Mutant: incomplete retry groups are dropped with the selection.         *)
RemainingFresh(pending, T, batch) ==
    Keep(pending, {t \in DOMAIN T : T[t].env = 0 /\ ~Contains(batch, t)})

(* What stays queued after a selection.                                    *)
Remaining(pending, T, batch) == Keep(pending, DOMAIN T \ ToSet(batch))
=============================================================================
