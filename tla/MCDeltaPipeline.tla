--------------------------- MODULE MCDeltaPipeline ---------------------------
(* Small instances of DeltaPipeline: two rows in two object stores.        *)
EXTENDS DeltaPipeline

CONSTANTS r1, r2, title, body

McRow == {r1, r2}
McStoreOf == [r \in McRow |-> IF r = r1 THEN "A" ELSE "B"]

I(r, t) == [kind |-> "I", row |-> r, fields |-> {}, tx |-> t]
U(r, F, t) == [kind |-> "U", row |-> r, fields |-> F, tx |-> t]
D(r, t) == [kind |-> "D", row |-> r, fields |-> {}, tx |-> t]
S == [kind |-> "S", row |-> r1, fields |-> {}, tx |-> NoTx]
X == [kind |-> "X", row |-> r1, fields |-> {}, tx |-> NoTx]

Run(l, m) == [log |-> l, mode |-> m]

(* A commit over two stores, then a delete.                                *)
McPlain == { Run(<<I(r1, NoTx), I(r2, "t1"), U(r1, {title}, "t1"), D(r2, NoTx)>>, "batch") }

(* An update delivered in chunks, then a position this client may not see. *)
McChunks == { Run(<<I(r1, NoTx), U(r1, {title}, "t1"), X>>, "chunks") }

(* A group removal between two commits.                                    *)
McRemoval == { Run(<<I(r1, NoTx), I(r2, NoTx), S, U(r2, {title}, "t1")>>, "batch") }

McScenarios == McPlain \cup McChunks \cup McRemoval

(* Two partial updates of one row.                                         *)
McPartial ==
    { Run(<<I(r1, NoTx), U(r1, {title}, NoTx), U(r1, {body}, NoTx)>>, "batch") }

(* A group removal that is broadcast while chunks wait in the lane.        *)
McOvertaken ==
    { Run(<<I(r1, NoTx), I(r2, NoTx), U(r2, {title}, NoTx), S>>, "chunks") }

(* A commit of three changes, the second of which a later delete makes     *)
(* superfluous.                                                            *)
McSuperseded ==
    { Run(<<I(r1, NoTx), U(r1, {title}, "t1"), I(r2, "t1"), U(r1, {title}, "t1"),
            D(r2, "t2")>>, "batch") }
=============================================================================
