------------------------ MODULE ResourceAdapterProofs ------------------------
(***************************************************************************)
(* Proofs about the resource adapter. Two invariants are carried along.    *)
(* The first is about the operations and the files: what an operation was  *)
(* shown is what it captured, a command's view is an earlier state of the  *)
(* files, and as long as the directory has the revision of that view it    *)
(* has the same members. The second is about leases: the row of a file,    *)
(* the server's lease and the answers on their way. A lease that counts    *)
(* here is the server's, or was given back by a refused install; to keep   *)
(* that, a grant on its way must be the server's lease as long as it can   *)
(* still be installed, a lease being released must count no more, and a    *)
(* fence must belong to one owner wherever it is written down. Each step   *)
(* of an operation is shown to be a move of the first kind (OpStep,        *)
(* Moves), each step of the leases one of the second (LeasesMove,          *)
(* ServersMove), and the invariants are shown to be kept by moves.         *)
(***************************************************************************)
EXTENDS ResourceAdapter, TLAPS

-----------------------------------------------------------------------------
(* What the variables hold.                                                *)

Value == Content \cup {Imported, Absent}
Place == Path \cup {Root}
Revs == [Place -> Nat \cup {Unread}]
Statuses == {"absent", "running", "applied", "rejected", "aborted"}
Working == {"admitted", "command", "exited", "claiming", "beating", "prepared"}
IntentType == [do : {"none", "write", "delete", "rename"}, path : Path \cup {Nobody},
               dest : Path \cup {Nobody}, value : Value]
ViewType == [val : [Path -> Value], rev : Revs]
OpType == [st : Statuses, pc : Working \cup {"none", "releasing", "done"},
           claims : [Path -> Nat], deps : Revs, snap : ViewType,
           staged : [Path -> Value \cup {Same}], intent : IntentType,
           paths : SUBSET Path, todo : SUBSET Path, exact : [Path -> Nat],
           acquired : SUBSET Path, outcome : {"none", "rejected", "aborted"},
           seen : Revs, listed : SUBSET (Path \cup {Same})]
FileTypes == val \in [Path -> Value] /\ rev \in [Place -> Nat]

Members(v) == { p \in Path : v[p] # Absent }

(* The pinned view is an earlier state of the files: the same membership   *)
(* as long as the directory has the same revision.                         *)
Earlier(s) == /\ s.rev[Root] \in 0 .. rev[Root]
              /\ s.rev[Root] = rev[Root] => Members(s.val) = Members(val)

OpGood(o, x) ==
    /\ x \in OpType
    /\ x.st # "running" => x.staged = NoStaging /\ x.deps = NoDeps /\ x.snap = NoView
    /\ x.pc \in Working => x.st = "running"
    /\ x.pc = "releasing" /\ x.st = "running" => x.outcome # "none"
    /\ x.pc = "admitted" => x.listed = {Same}
    /\ \A p \in Path : x.seen[p] = x.deps[p]
    /\ x.pc = "command" => /\ Pinned(x) /\ x.deps[Root] \in {Unread, x.snap.rev[Root]}
                           /\ KindOf[o] # "tool"
    /\ Pinned(x) => Earlier(x.snap)
    /\ x.listed # {Same} => /\ Pinned(x) /\ x.deps[Root] = x.snap.rev[Root]
                            /\ x.listed = Members(x.snap.val)
    /\ KindOf[o] = "tool" => /\ \A p \in Path : x.staged[p] # Same => x.claims[p] # 0
                             /\ x.pc = "admitted" => x.intent \in Intents(o, Path)

OpsGood == op \in [Op -> OpType] /\ \A o \in Op : OpGood(o, op[o])

(* A removal that is prepared has the fence and is alone.                  *)
FenceGood == fence \in Removal \cup {Nobody} /\ \A m \in Removal : Running(m) => fence = m /\ Alone(m)

-----------------------------------------------------------------------------
(* Records of operations.                                                  *)

(* An operation that was never started has the type of an operation and    *)
(* its fields are empty.                                                   *)
LEMMA Settled ==
    /\ NoOp \in OpType /\ NoOp.st = "absent" /\ NoOp.pc = "none" /\ NoOp.claims = NoClaims
    /\ NoOp.deps = NoDeps /\ NoOp.snap = NoView /\ NoOp.staged = NoStaging
    /\ NoOp.acquired = {} /\ NoOp.seen = NoDeps /\ NoOp.listed = {Same}
<1>1. NoDeps \in Revs /\ NoClaims \in [Path -> Nat] /\ NoStaging \in [Path -> Value \cup {Same}]
  BY DEF NoDeps, Revs, NoClaims, NoStaging, Place, Unread
<1>2. NoView \in ViewType
  BY <1>1 DEF NoView, ViewType, Value
<1>3. NoIntent \in IntentType
  BY DEF NoIntent, IntentType, Value
<1>4. QED
  BY <1>1, <1>2, <1>3, Zenon DEF NoOp, OpType, Statuses

(* finish writes the receipt and drops staging, dependencies and view: the *)
(* settled record is as it should be.                                      *)
LEMMA FinishIs ==
    ASSUME NEW o \in Op, NEW status \in {"absent", "applied", "rejected", "aborted"}
    PROVE  /\ OpGood(o, Finish(o, status)) /\ Finish(o, status).st = status
           /\ Finish(o, status).acquired = {}
<1> DEFINE x == Finish(o, status)
<1>1. x = [NoOp EXCEPT !.st = status, !.pc = "done"]
  BY DEF Finish
<1>2. x \in OpType
  BY <1>1, Settled DEF OpType, Statuses
<1>3. /\ x.st = status /\ x.pc = "done" /\ x.deps = NoDeps /\ x.snap = NoView
      /\ x.staged = NoStaging /\ x.acquired = {} /\ x.seen = NoDeps /\ x.listed = {Same}
  BY <1>1, Settled DEF OpType
<1> HIDE DEF x
<1>4. OpGood(o, x)
  BY <1>2, <1>3 DEF OpGood, Working, Pinned, NoStaging
<1>5. QED
  BY <1>3, <1>4 DEF x

(* An operation that fails gives back what it acquired before it ends.     *)
LEMMA FailingIs ==
    ASSUME NEW o \in Op, OpGood(o, op[o]), NEW status \in {"rejected", "aborted"}
    PROVE  /\ OpGood(o, Failing(o, status))
           /\ Failing(o, status).st = "running" => Running(o)
           /\ Failing(o, status).st = "applied" => ~Running(o)
           /\ Failing(o, status).acquired \in {{}, op[o].acquired}
           /\ Failing(o, status).acquired # {} => Failing(o, status).exact = op[o].exact
<1>1. CASE op[o].acquired = {}
  BY <1>1, FinishIs DEF Failing
<1>2. CASE op[o].acquired # {}
  <2> DEFINE x == op[o]
             y == [x EXCEPT !.pc = "releasing", !.outcome = status]
  <2>1. Failing(o, status) = y
    BY <1>2 DEF Failing
  <2>2. x \in OpType
    BY DEF OpGood
  <2>3. OpGood(o, x)
    OBVIOUS
  <2> HIDE DEF x
  <2>4. y \in OpType
    BY <2>2 DEF OpType
  <2>5. /\ y.st = x.st /\ y.pc = "releasing" /\ y.outcome = status /\ y.deps = x.deps
        /\ y.snap = x.snap /\ y.staged = x.staged /\ y.seen = x.seen /\ y.listed = x.listed
        /\ y.claims = x.claims /\ y.acquired = x.acquired /\ y.exact = x.exact
    BY <2>2 DEF OpType
  <2> HIDE DEF y
  <2>6. OpGood(o, y)
    BY <2>3, <2>4, <2>5 DEF OpGood, Working, Pinned
  <2>7. QED
    BY <2>1, <2>5, <2>6 DEF Running, x
<1>3. QED
  BY <1>1, <1>2

(* An operation reads from typed contents and revisions, whether its view  *)
(* is pinned or not.                                                       *)
LEMMA SourceIs ==
    ASSUME FileTypes, NEW x \in OpType
    PROVE  /\ SourceRev(x) \in [Place -> Nat \cup {Unread}] /\ SourceVal(x) \in [Path -> Value]
           /\ \A p \in Path : View(x, p) \in Value
<1>1. /\ x.snap.rev \in [Place -> Nat \cup {Unread}] /\ x.snap.val \in [Path -> Value]
      /\ x.staged \in [Path -> Value \cup {Same}]
  BY DEF OpType, ViewType, Revs
<1>2. QED
  BY <1>1 DEF SourceRev, SourceVal, View, FileTypes

(* The fields that reading and staging leave alone.                        *)
SameButReads(y, x) ==
    /\ y.st = x.st /\ y.pc = x.pc /\ y.claims = x.claims /\ y.snap = x.snap
    /\ y.intent = x.intent /\ y.paths = x.paths /\ y.todo = x.todo /\ y.exact = x.exact
    /\ y.acquired = x.acquired /\ y.outcome = x.outcome /\ y.listed = x.listed

(* capture changes one dependency, and only the first time.                *)
LEMMA CapturedIs ==
    ASSUME FileTypes, NEW x \in OpType, NEW r \in Place
    PROVE  LET y == Captured(x, r) IN
           /\ y \in OpType /\ SameButReads(y, x) /\ y.staged = x.staged /\ y.seen = x.seen
           /\ y.deps = IF x.deps[r] = Unread THEN [x.deps EXCEPT ![r] = SourceRev(x)[r]] ELSE x.deps
<1>1. SourceRev(x)[r] \in Nat \cup {Unread} /\ x.deps \in Revs
  BY SourceIs DEF OpType
<1>2. CASE x.deps[r] # Unread
  BY <1>2 DEF Captured, SameButReads
<1>3. CASE x.deps[r] = Unread
  <2> DEFINE d == [x.deps EXCEPT ![r] = SourceRev(x)[r]]
             y == [x EXCEPT !.deps = d]
  <2>1. Captured(x, r) = y
    BY <1>3 DEF Captured
  <2>2. d \in Revs
    BY <1>1 DEF Revs
  <2> HIDE DEF d
  <2>3. y \in OpType
    BY <2>2 DEF OpType
  <2>4. SameButReads(y, x) /\ y.staged = x.staged /\ y.seen = x.seen /\ y.deps = d
    BY DEF OpType, SameButReads
  <2>5. QED
    BY <1>3, <2>1, <2>3, <2>4 DEF d
<1>4. QED
  BY <1>2, <1>3

(* The history of what was shown changes for one file, and only the first  *)
(* time.                                                                   *)
LEMMA ShownIs ==
    ASSUME FileTypes, NEW x \in OpType, NEW p \in Path
    PROVE  LET y == Shown(x, p) IN
           /\ y \in OpType /\ SameButReads(y, x) /\ y.staged = x.staged /\ y.deps = x.deps
           /\ y.seen = IF x.seen[p] = Unread THEN [x.seen EXCEPT ![p] = SourceRev(x)[p]] ELSE x.seen
<1>1. SourceRev(x)[p] \in Nat \cup {Unread} /\ x.seen \in Revs /\ p \in Place
  BY SourceIs DEF OpType, Place
<1>2. CASE x.seen[p] # Unread
  BY <1>2 DEF Shown, SameButReads
<1>3. CASE x.seen[p] = Unread
  <2> DEFINE d == [x.seen EXCEPT ![p] = SourceRev(x)[p]]
             y == [x EXCEPT !.seen = d]
  <2>1. Shown(x, p) = y
    BY <1>3 DEF Shown
  <2>2. d \in Revs
    BY <1>1 DEF Revs
  <2> HIDE DEF d
  <2>3. y \in OpType
    BY <2>2 DEF OpType
  <2>4. SameButReads(y, x) /\ y.staged = x.staged /\ y.deps = x.deps /\ y.seen = d
    BY DEF OpType, SameButReads
  <2>5. QED
    BY <1>3, <2>1, <2>3, <2>4 DEF d
<1>4. QED
  BY <1>2, <1>3

(* The reads of an operation are what it was shown, and the directory is   *)
(* read from the view it works on.                                         *)
ReadsGood(x) == \A p \in Path : x.seen[p] = x.deps[p]
RootRead(y, x) == \/ y.deps[Root] = x.deps[Root]
                  \/ x.deps[Root] = Unread /\ y.deps[Root] = SourceRev(x)[Root]

(* A look at a file keeps what was shown equal to what was captured, and   *)
(* does not touch the directory.                                           *)
LEMMA ReadIs ==
    ASSUME FileTypes, NEW x \in OpType, NEW p \in Path, ReadsGood(x)
    PROVE  LET y == Shown(Captured(x, p), p) IN
           /\ y \in OpType /\ SameButReads(y, x) /\ y.staged = x.staged /\ ReadsGood(y)
           /\ y.deps[Root] = x.deps[Root]
<1> DEFINE z == Captured(x, p)
           y == Shown(z, p)
<1>1. /\ z \in OpType /\ SameButReads(z, x) /\ z.staged = x.staged /\ z.seen = x.seen
      /\ z.deps = IF x.deps[p] = Unread THEN [x.deps EXCEPT ![p] = SourceRev(x)[p]] ELSE x.deps
  BY CapturedIs DEF Place
<1> HIDE DEF z
<1>2. /\ y \in OpType /\ SameButReads(y, z) /\ y.staged = z.staged /\ y.deps = z.deps
      /\ y.seen = IF z.seen[p] = Unread THEN [z.seen EXCEPT ![p] = SourceRev(z)[p]] ELSE z.seen
  BY <1>1, ShownIs
<1> HIDE DEF y
<1>3. SourceRev(z) = SourceRev(x)
  BY <1>1 DEF SameButReads, SourceRev, Pinned
<1>4. x.deps \in Revs /\ x.seen \in Revs /\ Root \notin Path
  BY AdapterAssumption DEF OpType
<1>5. ReadsGood(y)
  BY <1>1, <1>2, <1>3, <1>4 DEF ReadsGood, Revs, Place
<1>6. y.deps[Root] = x.deps[Root]
  BY <1>1, <1>2, <1>4 DEF Revs, Place
<1>7. QED
  BY <1>1, <1>2, <1>5, <1>6 DEF SameButReads, y, z

(* stage writes one file of the staging, and captures what it was based    *)
(* on: the file, and the directory when a name comes or goes.              *)
LEMMA StageIs ==
    ASSUME FileTypes, NEW x \in OpType, NEW p \in Path, NEW v \in Value, ReadsGood(x)
    PROVE  LET y == Stage(x, p, v) IN
           /\ y \in OpType /\ SameButReads(y, x) /\ y.staged = [x.staged EXCEPT ![p] = v]
           /\ ReadsGood(y) /\ RootRead(y, x)
<1> DEFINE y == Captured(x, p)
           z == IF View(x, p) = Absent \/ v = Absent THEN Captured(y, Root) ELSE y
           w == Shown(z, p)
           u == [w EXCEPT !.staged = [w.staged EXCEPT ![p] = v]]
<1>1. Stage(x, p, v) = u
  BY DEF Stage
<1>2. /\ y \in OpType /\ SameButReads(y, x) /\ y.staged = x.staged /\ y.seen = x.seen
      /\ y.deps = IF x.deps[p] = Unread THEN [x.deps EXCEPT ![p] = SourceRev(x)[p]] ELSE x.deps
  BY CapturedIs DEF Place
<1> HIDE DEF y
<1>3. /\ z \in OpType /\ SameButReads(z, y) /\ z.staged = y.staged /\ z.seen = y.seen
      /\ \/ z.deps = y.deps
         \/ y.deps[Root] = Unread /\ z.deps = [y.deps EXCEPT ![Root] = SourceRev(y)[Root]]
  <2>1. CASE View(x, p) = Absent \/ v = Absent
    <3>1. z = Captured(y, Root) /\ Root \in Place
      BY <2>1 DEF Place
    <3> HIDE DEF z
    <3>2. QED
      BY <1>2, <3>1, CapturedIs
  <2>2. CASE ~(View(x, p) = Absent \/ v = Absent)
    BY <1>2, <2>2 DEF SameButReads
  <2>3. QED
    BY <2>1, <2>2
<1> HIDE DEF z
<1>4. /\ w \in OpType /\ SameButReads(w, z) /\ w.staged = z.staged /\ w.deps = z.deps
      /\ w.seen = IF z.seen[p] = Unread THEN [z.seen EXCEPT ![p] = SourceRev(z)[p]] ELSE z.seen
  BY <1>3, ShownIs
<1> HIDE DEF w
<1>5. SourceRev(z) = SourceRev(x) /\ SourceRev(y) = SourceRev(x)
  BY <1>2, <1>3 DEF SameButReads, SourceRev, Pinned
<1>6. x.deps \in Revs /\ y.deps \in Revs /\ x.seen \in Revs /\ Root \notin Path
  BY <1>2, AdapterAssumption DEF OpType
<1>7. \A q \in Path : z.deps[q] = y.deps[q]
  BY <1>3, <1>6 DEF Revs, Place
<1>8. ReadsGood(w)
  BY <1>2, <1>3, <1>4, <1>5, <1>6, <1>7 DEF ReadsGood, Revs, Place
<1>9. RootRead(w, x)
  <2>1. y.deps[Root] = x.deps[Root]
    BY <1>2, <1>6 DEF Revs, Place
  <2>2. z.deps[Root] = y.deps[Root] \/ (y.deps[Root] = Unread /\ z.deps[Root] = SourceRev(x)[Root])
    BY <1>3, <1>5, <1>6 DEF Revs, Place
  <2>3. QED
    BY <1>4, <2>1, <2>2 DEF RootRead
<1>10. w.staged \in [Path -> Value \cup {Same}] /\ w.staged = x.staged
  BY <1>2, <1>3, <1>4 DEF OpType
<1> DEFINE e == [w.staged EXCEPT ![p] = v]
<1>11. e \in [Path -> Value \cup {Same}] /\ e = [x.staged EXCEPT ![p] = v]
  BY <1>10
<1> HIDE DEF e
<1>12. u = [w EXCEPT !.staged = e]
  BY DEF e
<1> HIDE DEF u
<1>13. /\ u \in OpType /\ SameButReads(u, w) /\ u.staged = e /\ u.deps = w.deps /\ u.seen = w.seen
  BY <1>4, <1>11, <1>12 DEF OpType, SameButReads
<1>14. QED
  <2>1. SameButReads(u, x)
    BY <1>2, <1>3, <1>4, <1>13 DEF SameButReads
  <2>2. ReadsGood(u) /\ RootRead(u, x)
    BY <1>8, <1>9, <1>13 DEF ReadsGood, RootRead
  <2>3. QED
    BY <1>1, <1>11, <1>13, <2>1, <2>2

(* Reading and staging keep a running operation as it should be.           *)
LEMMA ReadsKeep ==
    ASSUME NEW o \in Op, NEW x, NEW y, OpGood(o, x), x.st = "running", y \in OpType,
           SameButReads(y, x), ReadsGood(y), RootRead(y, x),
           x.pc # "command" => y.deps[Root] = x.deps[Root] \/ x.listed = {Same},
           KindOf[o] = "tool" => \A p \in Path : y.staged[p] # Same => x.claims[p] # 0
    PROVE  OpGood(o, y)
<1>1. y.st = "running" /\ y.snap = x.snap /\ y.pc = x.pc /\ y.listed = x.listed
      /\ y.claims = x.claims /\ y.intent = x.intent /\ y.outcome = x.outcome
  BY DEF SameButReads
<1>2. Pinned(y) <=> Pinned(x)
  BY <1>1 DEF Pinned
<1>3. x.pc = "command" => y.deps[Root] \in {Unread, y.snap.rev[Root]}
  BY <1>1 DEF OpGood, RootRead, SourceRev
<1>4. y.listed # {Same} => y.deps[Root] = y.snap.rev[Root]
  BY <1>1 DEF OpGood, RootRead, SourceRev
<1>5. QED
  BY <1>1, <1>2, <1>3, <1>4 DEF OpGood, ReadsGood

(* Every publication makes every pinned view an earlier one.               *)
LEMMA PublishIs ==
    ASSUME FileTypes, NEW x \in OpType, Publish(x)
    PROVE  /\ FileTypes'
           /\ \A s : Earlier(s) => Earlier(s)'
           /\ \A p \in Path : rev'[p] # rev[p] => p \in Changes(x)
<1> DEFINE C == Changes(x)
           moved == \E p \in C : Absent \in {val[p], x.staged[p]}
<1>1. /\ val' = [p \in Path |-> IF p \in C THEN x.staged[p] ELSE val[p]]
      /\ rev' = [r \in Place |-> IF r \in C \/ (r = Root /\ moved) THEN rev[r] + 1 ELSE rev[r]]
  BY DEF Publish, Place
<1>2. /\ C \subseteq Path /\ Root \notin C /\ Root \notin Path
      /\ \A p \in C : x.staged[p] \in Value
  BY AdapterAssumption DEF Changes, OpType
<1>3. ~moved => \A p \in C : val[p] # Absent /\ x.staged[p] # Absent
  OBVIOUS
<1> HIDE DEF C, moved
<1>4. FileTypes'
  BY <1>1, <1>2 DEF FileTypes
<1>5. rev'[Root] = (IF moved THEN rev[Root] + 1 ELSE rev[Root]) /\ rev[Root] \in Nat
  BY <1>1, <1>2 DEF FileTypes, Place
<1>6. ~moved => Members(val') = Members(val)
  BY <1>1, <1>2, <1>3 DEF Members, FileTypes
<1>7. ASSUME NEW s, Earlier(s)
      PROVE  Earlier(s)'
  <2>1. s.rev[Root] \in 0 .. rev'[Root]
    BY <1>5, <1>7 DEF Earlier
  <2>2. s.rev[Root] = rev'[Root] => Members(s.val) = Members(val')
    BY <1>5, <1>6, <1>7 DEF Earlier
  <2>3. QED
    BY <2>1, <2>2 DEF Earlier, Members
<1>8. \A p \in Path : rev'[p] # rev[p] => p \in C
  BY <1>1, <1>2 DEF FileTypes, Place
<1>9. QED
  BY <1>4, <1>7, <1>8 DEF C

-----------------------------------------------------------------------------
(* The steps of an operation.                                              *)

(* The owner of the operation has the lease of the file, at the server or  *)
(* here.                                                                   *)
Owned(o, p) == \/ srv[p].owner = OwnerOf[o]
               \/ OwnerOf[o] \in Worker /\ Held(OwnerOf[o], p, lease[p].fence)

(* The files change only as a running operation is applied, and only those *)
(* its owner has the lease of.                                             *)
FilesMove(o, y) ==
    \/ UNCHANGED files
    \/ /\ Running(o) /\ y.st = "applied"
       /\ \E x \in OpType : Publish(x) /\ \A p \in Changes(x) : Owned(o, p)

(* The claims the operation has to give back are those it had, one that is *)
(* held, and the one its thread was just granted.                          *)
Acquires(o, y) ==
    \A p \in y.acquired :
        \/ p \in op[o].acquired /\ y.exact[p] = op[o].exact[p]
        \/ Held(OwnerOf[o], p, y.exact[p])
        \/ /\ o \notin Removal
           /\ call[o].do = "claim" /\ call[o].path = p /\ call[o].fence = y.exact[p]
           /\ y.exact[p] \in returned'[p] \/ lease'[p].fence >= y.exact[p]

(* The operation becomes y: it is not started again, and is applied only   *)
(* if everything it has read is current.                                   *)
Becomes(o, y) ==
    /\ op' = [op EXCEPT ![o] = y] /\ OpGood(o, y) /\ Acquires(o, y)
    /\ y.st = "running" => Running(o)
    /\ y.st = "applied" /\ Running(o) => Current(op[o].deps)

OpStep(o) == \E y : FilesMove(o, y) /\ Becomes(o, y)

LeaseFences == \A p \in Path : lease[p].active => lease[p].fence # 0

(* An operation that is rejected or aborted at once.                       *)
LEMMA RejectedStep ==
    ASSUME NEW o \in Op, UNCHANGED files, NEW status \in {"rejected", "aborted"},
           op' = [op EXCEPT ![o] = Finish(o, status)]
    PROVE  OpStep(o)
  BY FinishIs DEF OpStep, FilesMove, Becomes, Acquires

(* An operation that fails, after it gave back what it acquired.           *)
LEMMA FailStep ==
    ASSUME NEW o \in Op, OpsGood, UNCHANGED files, NEW status \in {"rejected", "aborted"},
           op' = [op EXCEPT ![o] = Failing(o, status)]
    PROVE  OpStep(o)
<1>1. OpGood(o, op[o])
  BY DEF OpsGood
<1>2. QED
  BY <1>1, FailingIs DEF OpStep, FilesMove, Becomes, Acquires

(* What does not concern the files: the phase, the paths and the claims.   *)
LEMMA RestKeeps ==
    ASSUME NEW o \in Op, NEW x, NEW y, OpGood(o, x), y \in OpType,
           y.st = x.st, y.claims = x.claims, y.deps = x.deps, y.seen = x.seen, y.snap = x.snap,
           y.staged = x.staged, y.listed = x.listed,
           \/ y.pc = x.pc /\ y.intent = x.intent /\ y.outcome = x.outcome
           \/ x.st = "running" /\ y.pc \in {"exited", "claiming", "beating"}
           \/ y.pc = "releasing" /\ y.outcome # "none"
    PROVE  OpGood(o, y)
<1>1. Pinned(y) <=> Pinned(x)
  BY DEF Pinned
<1>2. QED
  BY <1>1 DEF OpGood, Working

(* A tool edit stages only files that it claims.                           *)
LEMMA ToolStageStep ==
    ASSUME OpsGood, FileTypes, LeaseFences, NEW o \in Op, ToolStage(o)
    PROVE  OpStep(o)
<1> DEFINE x == op[o]
           i == x.intent
           touched == {i.path} \cup (IF i.do = "rename" THEN {i.dest} ELSE {})
           ok == /\ \A p \in touched : x.deps[p] # Unread /\ Held(OwnerOf[o], p, x.claims[p])
                 /\ i.do = "write" \/ val[i.path] # Absent
           y == IF i.do = "rename" THEN Stage(x, i.dest, val[i.path]) ELSE x
           z == Stage(y, i.path, i.value)
           e == [z EXCEPT !.pc = "exited"]
<1>1. /\ KindOf[o] = "tool" /\ x.pc = "admitted" /\ UNCHANGED files
      /\ op' = [op EXCEPT ![o] = IF ok THEN e ELSE Finish(o, "rejected")]
  BY DEF ToolStage
<1>2. OpGood(o, x)
  BY DEF OpsGood
<1>3. /\ x \in OpType /\ x.st = "running" /\ ReadsGood(x) /\ x.listed = {Same}
      /\ i \in Intents(o, Path)
  BY <1>1, <1>2 DEF OpGood, Working, ReadsGood
<1>4. /\ i.path \in Path /\ i.value \in Value /\ (i.do = "rename" => i.dest \in Path)
      /\ val[i.path] \in Value
  BY <1>1, <1>3 DEF Intents, Value, FileTypes
<1>5. CASE ok
  <2>1. \A p \in touched : x.claims[p] # 0
    <3> SUFFICES ASSUME NEW p \in touched PROVE x.claims[p] # 0
      OBVIOUS
    <3>1. Held(OwnerOf[o], p, x.claims[p]) /\ p \in Path
      BY <1>4, <1>5
    <3> HIDE DEF touched, x
    <3>2. QED
      BY <3>1 DEF Held, LeaseFences
  <2>2. x.claims[i.path] # 0 /\ (i.do = "rename" => x.claims[i.dest] # 0)
    BY <2>1
  <2>3. op' = [op EXCEPT ![o] = e]
    BY <1>1, <1>5
  <2> HIDE DEF x, i, touched, ok
  <2>4. /\ y \in OpType /\ SameButReads(y, x) /\ ReadsGood(y)
        /\ OpGood(o, y)
    <3>1. CASE i.do = "rename"
      <4>1. y = Stage(x, i.dest, val[i.path])
        BY <3>1
      <4> HIDE DEF y
      <4>2. /\ y \in OpType /\ SameButReads(y, x) /\ y.staged = [x.staged EXCEPT ![i.dest] = val[i.path]]
            /\ ReadsGood(y) /\ RootRead(y, x)
        BY <1>3, <1>4, <3>1, <4>1, StageIs
      <4>3. \A p \in Path : y.staged[p] # Same => x.claims[p] # 0
        <5>1. /\ \A p \in Path : x.staged[p] # Same => x.claims[p] # 0
              /\ x.staged \in [Path -> Value \cup {Same}]
          BY <1>1, <1>2 DEF OpGood, OpType
        <5>2. QED
          BY <2>2, <3>1, <4>2, <5>1
      <4>4. OpGood(o, y)
        BY <1>2, <1>3, <4>2, <4>3, ReadsKeep
      <4>5. QED
        BY <4>2, <4>4
    <3>2. CASE i.do # "rename"
      BY <1>2, <1>3, <3>2 DEF SameButReads
    <3>3. QED
      BY <3>1, <3>2
  <2> HIDE DEF y
  <2>5. /\ z \in OpType /\ SameButReads(z, y) /\ z.staged = [y.staged EXCEPT ![i.path] = i.value]
        /\ ReadsGood(z) /\ RootRead(z, y)
    BY <1>4, <2>4, StageIs
  <2> HIDE DEF z
  <2>6. \A p \in Path : z.staged[p] # Same => y.claims[p] # 0
    <3>1. /\ \A p \in Path : y.staged[p] # Same => y.claims[p] # 0
          /\ y.staged \in [Path -> Value \cup {Same}] /\ y.claims = x.claims
      BY <1>1, <2>4 DEF OpGood, OpType, SameButReads
    <3>2. QED
      BY <2>2, <2>5, <3>1
  <2>7. y.st = "running" /\ y.listed = {Same}
    BY <1>3, <2>4 DEF SameButReads
  <2>8. OpGood(o, z)
    BY <2>4, <2>5, <2>6, <2>7, ReadsKeep
  <2>9. /\ e \in OpType /\ e.st = z.st /\ e.claims = z.claims /\ e.deps = z.deps /\ e.seen = z.seen
        /\ e.snap = z.snap /\ e.staged = z.staged /\ e.listed = z.listed /\ e.pc = "exited"
        /\ e.acquired = z.acquired /\ e.exact = z.exact
    BY <2>5 DEF OpType, Working
  <2> HIDE DEF e
  <2>10. z.st = "running"
    BY <2>5, <2>7 DEF SameButReads
  <2>11. OpGood(o, e)
    BY <2>8, <2>9, <2>10, RestKeeps
  <2>12. e.acquired = x.acquired /\ e.exact = x.exact
    BY <2>4, <2>5, <2>9 DEF SameButReads
  <2>13. QED
    BY <1>1, <1>3, <2>3, <2>9, <2>10, <2>11, <2>12 DEF OpStep, FilesMove, Becomes, Acquires, Running, x
<1>6. CASE ~ok
  <2>1. op' = [op EXCEPT ![o] = Finish(o, "rejected")]
    BY <1>1, <1>6
  <2>2. QED
    BY <1>1, <2>1, RejectedStep
<1>7. QED
  BY <1>5, <1>6

(* A command that is pinned sees the files as they are, which is what it   *)
(* has read so far.                                                        *)
LEMMA PinStep ==
    ASSUME OpsGood, FileTypes, NEW o \in Op, Pin(o)
    PROVE  OpStep(o)
<1> DEFINE x == op[o]
           s == [val |-> val, rev |-> rev]
           y == [x EXCEPT !.pc = "command", !.snap = s]
<1>1. /\ UNCHANGED files /\ x.pc = "admitted" /\ KindOf[o] # "tool"
      /\ op' = [op EXCEPT ![o] = IF Valid(o) THEN y ELSE Finish(o, "rejected")]
  BY DEF Pin
<1>2. OpGood(o, x)
  BY DEF OpsGood
<1>3. CASE Valid(o)
  <2>1. x.deps[Root] \in {Unread, rev[Root]} /\ x.st = "running" /\ x \in OpType /\ x.listed = {Same}
    <3>1. x.deps \in [Place -> Nat \cup {Unread}]
      BY <1>2 DEF OpGood, OpType, Revs
    <3>2. QED
      BY <1>1, <1>2, <1>3, <3>1 DEF Valid, Current, OpGood, Place, Running
  <2>2. s \in ViewType
    BY DEF ViewType, FileTypes, Revs
  <2>3. /\ s # NoView /\ Earlier(s) /\ s.rev = rev
    <3>1. s.rev = rev /\ s.val = val /\ NoView.rev = NoDeps
      BY DEF NoView
    <3>2. rev[Root] \in Nat /\ NoDeps[Root] = Unread /\ Unread \notin Nat
      BY DEF FileTypes, Place, NoDeps, Unread
    <3> HIDE DEF s
    <3>3. Earlier(s)
      BY <3>1, <3>2 DEF Earlier
    <3>4. QED
      BY <3>1, <3>2, <3>3
  <2>4. op' = [op EXCEPT ![o] = y]
    BY <1>1, <1>3
  <2> HIDE DEF x, s
  <2>5. /\ y \in OpType /\ y.st = x.st /\ y.pc = "command" /\ y.snap = s /\ y.deps = x.deps
        /\ y.seen = x.seen /\ y.staged = x.staged /\ y.listed = x.listed /\ y.outcome = x.outcome
        /\ y.acquired = x.acquired /\ y.exact = x.exact
    BY <2>1, <2>2 DEF OpType, Working
  <2> HIDE DEF y
  <2>6. OpGood(o, y)
    BY <1>1, <1>2, <2>1, <2>3, <2>5 DEF OpGood, Pinned, Working
  <2>7. QED
    BY <1>1, <2>1, <2>4, <2>5, <2>6 DEF OpStep, FilesMove, Becomes, Acquires, Running, x
<1>4. CASE ~Valid(o)
  BY <1>1, <1>4, RejectedStep
<1>5. QED
  BY <1>3, <1>4

(* A command has a view and runs.                                          *)
LEMMA CommandRuns ==
    ASSUME OpsGood, NEW o \in Op, op[o].pc = "command"
    PROVE  /\ op[o] \in OpType /\ op[o].st = "running" /\ ReadsGood(op[o]) /\ OpGood(o, op[o])
           /\ Pinned(op[o]) /\ op[o].deps[Root] \in {Unread, op[o].snap.rev[Root]}
           /\ KindOf[o] # "tool"
  BY DEF OpsGood, OpGood, Working, ReadsGood

(* A command looks at a file.                                              *)
LEMMA LookStep ==
    ASSUME OpsGood, FileTypes, NEW o \in Op, NEW p \in Path, Look(o, p)
    PROVE  OpStep(o)
<1> DEFINE x == op[o]
           y == Shown(Captured(x, p), p)
<1>1. x.pc = "command" /\ op' = [op EXCEPT ![o] = y] /\ UNCHANGED files
  BY DEF Look
<1>2. x \in OpType /\ x.st = "running" /\ ReadsGood(x) /\ OpGood(o, x)
  BY <1>1, CommandRuns
<1> HIDE DEF x
<1>3. /\ y \in OpType /\ SameButReads(y, x) /\ y.staged = x.staged /\ ReadsGood(y)
      /\ y.deps[Root] = x.deps[Root]
  BY <1>2, ReadIs
<1> HIDE DEF y
<1>4. OpGood(o, y)
  BY <1>1, <1>2, <1>3, ReadsKeep DEF RootRead, OpGood
<1>5. QED
  BY <1>1, <1>2, <1>3, <1>4 DEF OpStep, FilesMove, Becomes, Acquires, Running, SameButReads, x

(* A command that lists the directory captures the revision of the         *)
(* directory in its view.                                                  *)
LEMMA ListStep ==
    ASSUME OpsGood, FileTypes, NEW o \in Op, List(o)
    PROVE  OpStep(o)
<1> DEFINE x == op[o]
           y == Captured(x, Root)
           m == Members(x.snap.val)
           z == [y EXCEPT !.listed = m]
<1>1. x.pc = "command" /\ op' = [op EXCEPT ![o] = z] /\ UNCHANGED files
  BY DEF List, Members
<1>2. /\ x \in OpType /\ x.st = "running" /\ ReadsGood(x) /\ OpGood(o, x) /\ Pinned(x)
      /\ x.deps[Root] \in {Unread, x.snap.rev[Root]}
  BY <1>1, CommandRuns
<1>3. m \in SUBSET (Path \cup {Same}) /\ Root \in Place /\ Root \notin Path
  BY AdapterAssumption DEF Members, Place
<1> HIDE DEF x, m
<1>4. /\ y \in OpType /\ SameButReads(y, x) /\ y.staged = x.staged /\ y.seen = x.seen
      /\ y.deps = IF x.deps[Root] = Unread THEN [x.deps EXCEPT ![Root] = SourceRev(x)[Root]] ELSE x.deps
  BY <1>2, <1>3, CapturedIs
<1>5. x.deps \in Revs /\ SourceRev(x) = x.snap.rev
  BY <1>2 DEF OpType, SourceRev
<1>6. y.deps[Root] = x.snap.rev[Root] /\ \A p \in Path : y.deps[p] = x.deps[p]
  BY <1>2, <1>3, <1>4, <1>5 DEF Revs, Place
<1> HIDE DEF y
<1>7. /\ z \in OpType
      /\ z.st = y.st /\ z.pc = y.pc /\ z.snap = y.snap /\ z.deps = y.deps /\ z.seen = y.seen
      /\ z.staged = y.staged /\ z.claims = y.claims /\ z.outcome = y.outcome /\ z.listed = m
      /\ z.acquired = y.acquired /\ z.exact = y.exact
  BY <1>3, <1>4 DEF OpType, SameButReads
<1> HIDE DEF z
<1>8. /\ z.st = "running" /\ z.pc = "command" /\ z.snap = x.snap /\ z.staged = x.staged
      /\ z.claims = x.claims /\ (Pinned(z) <=> Pinned(x))
      /\ z.acquired = x.acquired /\ z.exact = x.exact
  BY <1>1, <1>2, <1>4, <1>7 DEF SameButReads, Pinned, x
<1>9. OpGood(o, z)
  BY <1>1, <1>2, <1>4, <1>6, <1>7, <1>8 DEF OpGood, ReadsGood, m
<1>10. QED
  BY <1>1, <1>2, <1>8, <1>9 DEF OpStep, FilesMove, Becomes, Acquires, Running, x

(* A command writes, creates, removes or renames in its staging.           *)
LEMMA StagedKeeps ==
    ASSUME FileTypes, NEW o \in Op, NEW x, OpGood(o, x), x.pc = "command",
           NEW p \in Path, NEW v \in Value
    PROVE  OpGood(o, Stage(x, p, v)) /\ SameButReads(Stage(x, p, v), x)
<1>1. x \in OpType /\ x.st = "running" /\ ReadsGood(x) /\ KindOf[o] # "tool"
  BY DEF OpGood, Working, ReadsGood
<1> DEFINE y == Stage(x, p, v)
<1>2. y \in OpType /\ SameButReads(y, x) /\ ReadsGood(y) /\ RootRead(y, x)
  BY <1>1, StageIs
<1> HIDE DEF y
<1>3. OpGood(o, y)
  BY <1>1, <1>2, ReadsKeep
<1>4. QED
  BY <1>2, <1>3 DEF y

(* A command writes, creates, removes or renames a file.                   *)
LEMMA EditStep ==
    ASSUME OpsGood, FileTypes, NEW o \in Op,
           \/ \E p \in Path, v \in Content \cup {Absent} : Edit(o, p, v)
           \/ \E p, q \in Path : Move(o, p, q)
    PROVE  OpStep(o)
<1> DEFINE x == op[o]
<1>1. CASE \E p \in Path, v \in Content \cup {Absent} : Edit(o, p, v)
  <2>1. PICK p \in Path, v \in Content \cup {Absent} : Edit(o, p, v)
    BY <1>1
  <2> DEFINE y == Stage(x, p, v)
  <2>2. x.pc = "command" /\ op' = [op EXCEPT ![o] = y] /\ UNCHANGED files /\ v \in Value
    BY <2>1 DEF Edit, Value
  <2>3. x.st = "running" /\ OpGood(o, x)
    BY <2>2, CommandRuns
  <2> HIDE DEF x
  <2>4. OpGood(o, y) /\ SameButReads(y, x)
    BY <2>2, <2>3, StagedKeeps
  <2> HIDE DEF y
  <2>5. QED
    BY <2>2, <2>3, <2>4 DEF OpStep, FilesMove, Becomes, Acquires, Running, SameButReads, x
<1>2. CASE \E p, q \in Path : Move(o, p, q)
  <2>1. PICK p \in Path, q \in Path : Move(o, p, q)
    BY <1>2
  <2> DEFINE y == Stage(x, q, View(x, p))
             z == Stage(y, p, Absent)
  <2>2. x.pc = "command" /\ op' = [op EXCEPT ![o] = z] /\ UNCHANGED files
    BY <2>1 DEF Move
  <2>3. x \in OpType /\ x.st = "running" /\ OpGood(o, x)
    BY <2>2, CommandRuns
  <2> HIDE DEF x
  <2>4. View(x, p) \in Value /\ Absent \in Value
    BY <2>3, SourceIs DEF Value
  <2>5. OpGood(o, y) /\ SameButReads(y, x)
    BY <2>2, <2>3, <2>4, StagedKeeps DEF x
  <2> HIDE DEF y
  <2>6. y.pc = "command"
    BY <2>2, <2>5 DEF SameButReads, x
  <2>7. OpGood(o, z) /\ SameButReads(z, y)
    BY <2>4, <2>5, <2>6, StagedKeeps
  <2> HIDE DEF z
  <2>8. QED
    BY <2>2, <2>3, <2>5, <2>7 DEF OpStep, FilesMove, Becomes, Acquires, Running, SameButReads, x
<1>3. QED
  BY <1>1, <1>2

(* The operation goes to its next phase, or fails.                         *)
LEMMA PhaseStep ==
    ASSUME OpsGood, NEW o \in Op, UNCHANGED files, NEW y, op' = [op EXCEPT ![o] = y], y \in OpType,
           y.st = op[o].st, y.claims = op[o].claims, y.deps = op[o].deps, y.seen = op[o].seen,
           y.snap = op[o].snap, y.staged = op[o].staged, y.listed = op[o].listed, Acquires(o, y),
           \/ y.pc = op[o].pc /\ y.intent = op[o].intent /\ y.outcome = op[o].outcome
           \/ op[o].st = "running" /\ y.pc \in {"exited", "claiming", "beating"}
           \/ y.pc = "releasing" /\ y.outcome # "none"
    PROVE  OpStep(o)
<1>1. OpGood(o, op[o])
  BY DEF OpsGood
<1>2. OpGood(o, y)
  BY <1>1, RestKeeps
<1>3. QED
  BY <1>2 DEF OpStep, FilesMove, Becomes, Running

(* A command fails or exits.                                               *)
LEMMA CommandEnds ==
    ASSUME OpsGood, NEW o \in Op, CommandFails(o) \/ CommandExits(o)
    PROVE  OpStep(o)
<1>1. CASE CommandFails(o)
  BY <1>1, RejectedStep DEF CommandFails, Settle, files
<1>2. CASE CommandExits(o)
  <2> DEFINE x == op[o]
             y == [x EXCEPT !.pc = "exited"]
  <2>1. op' = [op EXCEPT ![o] = y] /\ UNCHANGED files /\ x.pc = "command"
    BY <1>2 DEF CommandExits
  <2>2. x \in OpType /\ x.st = "running"
    BY <2>1, CommandRuns
  <2> HIDE DEF x
  <2>3. /\ y \in OpType /\ y.st = x.st /\ y.claims = x.claims /\ y.deps = x.deps /\ y.seen = x.seen
        /\ y.snap = x.snap /\ y.staged = x.staged /\ y.listed = x.listed
        /\ y.acquired = x.acquired /\ y.exact = x.exact /\ y.pc = "exited"
    BY <2>2 DEF OpType, Working
  <2> HIDE DEF y
  <2>4. QED
    BY <2>1, <2>2, <2>3, PhaseStep DEF x, Acquires
<1>3. QED
  BY <1>1, <1>2

(* A tool edit or a run is published only if its reads are current, and    *)
(* every file it changes is claimed by it.                                 *)
LEMMA PublishStagedStep ==
    ASSUME OpsGood, NEW o \in Op, PublishStaged(o)
    PROVE  OpStep(o)
<1> DEFINE x == op[o]
<1>1. CASE /\ Publish(x) /\ Settle(o, "applied") /\ Valid(o)
           /\ KindOf[o] = "run" => \A p \in Changes(x) : x.claims[p] # 0
  <2>1. op' = [op EXCEPT ![o] = Finish(o, "applied")] /\ Current(x.deps) /\ x \in OpType
    BY <1>1 DEF Settle, Valid, OpsGood
  <2>2. Becomes(o, Finish(o, "applied"))
    BY <2>1, FinishIs DEF Becomes, Acquires
  <2>3. \A p \in Changes(x) : x.claims[p] # 0 /\ p \in Path
    <3>1. CASE KindOf[o] = "run"
      BY <1>1, <3>1 DEF Changes
    <3>2. CASE KindOf[o] = "tool"
      <4>1. OpGood(o, x)
        BY DEF OpsGood
      <4>2. QED
        BY <3>2, <4>1 DEF Changes, OpGood
    <3>3. QED
      BY <3>1, <3>2 DEF PublishStaged
  <2>4. \A p \in Changes(x) : Owned(o, p)
    <3>1. OwnerOf[o] \in Worker
      BY AdapterAssumption DEF PublishStaged, Removal
    <3>2. QED
      BY <1>1, <2>3, <3>1 DEF Valid, Authorized, Owned, Held
  <2>5. FilesMove(o, Finish(o, "applied"))
    BY <1>1, <2>1, <2>4, FinishIs DEF FilesMove, Valid
  <2>6. QED
    BY <2>2, <2>5 DEF OpStep
<1>2. CASE UNCHANGED files /\ Settle(o, "rejected")
  BY <1>2, RejectedStep DEF Settle
<1>3. QED
  BY <1>1, <1>2 DEF PublishStaged

(* A project freezes the paths it is going to publish.                     *)
LEMMA FreezeStep ==
    ASSUME OpsGood, NEW o \in Op, Freeze(o)
    PROVE  OpStep(o)
<1> DEFINE x == op[o]
           y == [x EXCEPT !.pc = "claiming", !.paths = Changes(x), !.todo = Changes(x)]
<1>1. /\ UNCHANGED files
      /\ op' = [op EXCEPT ![o] = IF Valid(o) THEN y ELSE Finish(o, "rejected")]
  BY DEF Freeze
<1>2. CASE Valid(o)
  <2>1. op' = [op EXCEPT ![o] = y] /\ x \in OpType /\ x.st = "running" /\ Changes(x) \in SUBSET Path
    BY <1>1, <1>2 DEF Valid, Running, OpsGood, Changes
  <2> HIDE DEF x
  <2>2. /\ y \in OpType /\ y.st = x.st /\ y.claims = x.claims /\ y.deps = x.deps /\ y.seen = x.seen
        /\ y.snap = x.snap /\ y.staged = x.staged /\ y.listed = x.listed
        /\ y.acquired = x.acquired /\ y.exact = x.exact /\ y.pc = "claiming"
    BY <2>1 DEF OpType, Working
  <2> HIDE DEF y
  <2>3. QED
    BY <1>1, <2>1, <2>2, PhaseStep DEF x, Acquires
<1>3. CASE ~Valid(o)
  BY <1>1, <1>3, RejectedStep
<1>4. QED
  BY <1>2, <1>3

(* A project records a claim it holds, or asks for one.                    *)
LEMMA ProjectClaimStep ==
    ASSUME OpsGood, NEW o \in Op, NEW p \in Path, ProjectClaim(o, p)
    PROVE  OpStep(o)
<1> DEFINE x == op[o]
           f == x.claims[p]
           y == [x EXCEPT !.exact[p] = f, !.todo = @ \ {p}]
<1>1. UNCHANGED files /\ x \in OpType /\ f \in Nat
  BY DEF ProjectClaim, OpsGood, OpType
<1>2. CASE op' = [op EXCEPT ![o] = y] /\ Held(OwnerOf[o], p, f)
  <2>1. /\ [x.exact EXCEPT ![p] = f] \in [Path -> Nat] /\ x.todo \ {p} \in SUBSET Path
    BY <1>1 DEF OpType
  <2> HIDE DEF x, f
  <2>2. /\ y \in OpType /\ y.st = x.st /\ y.claims = x.claims /\ y.deps = x.deps /\ y.seen = x.seen
        /\ y.snap = x.snap /\ y.staged = x.staged /\ y.listed = x.listed
        /\ y.acquired = x.acquired /\ y.exact = [x.exact EXCEPT ![p] = f] /\ y.pc = x.pc
        /\ y.intent = x.intent /\ y.outcome = x.outcome
    BY <1>1, <2>1 DEF OpType
  <2> HIDE DEF y
  <2>3. Acquires(o, y)
    BY <1>1, <1>2, <2>2 DEF Acquires, OpType, x
  <2>4. QED
    BY <1>1, <1>2, <2>2, <2>3, PhaseStep DEF x
<1>3. CASE op' = op
  <2>1. op' = [op EXCEPT ![o] = x] /\ x \in OpType
    BY <1>1, <1>3 DEF OpsGood
  <2>2. QED
    BY <1>1, <2>1, PhaseStep DEF Acquires
<1>4. CASE Fail(o, "rejected")
  BY <1>1, <1>4, FailStep DEF Fail
<1>5. QED
  <2>1. CASE f # 0 /\ Held(OwnerOf[o], p, f)
    <3>1. op' = [op EXCEPT ![o] = y]
      BY <2>1 DEF ProjectClaim
    <3>2. QED
      BY <1>2, <2>1, <3>1
  <2>2. CASE ~(f # 0 /\ Held(OwnerOf[o], p, f))
    <3>1. op' = op \/ Fail(o, "rejected")
      BY <2>2 DEF ProjectClaim
    <3>2. QED
      BY <1>3, <1>4, <3>1
  <2>3. QED
    BY <2>1, <2>2

(* A project has to give back the claim it was granted, installed or not.  *)
LEMMA ProjectInstallStep ==
    ASSUME OpsGood, NEW o \in Op \ Removal, call[o].path \in Path, call[o].fence \in Nat,
           DOMAIN lease = Path, lease[call[o].path].fence \in Nat,
           returned \in [Path -> SUBSET Nat], ProjectInstall(o)
    PROVE  OpStep(o)
<1> DEFINE x == op[o]
           p == call[o].path
           f == call[o].fence
           y == [x EXCEPT !.acquired = x.acquired \cup {p}, !.exact = [x.exact EXCEPT ![p] = f],
                          !.todo = x.todo \ {p}]
           z == [y EXCEPT !.pc = "releasing", !.outcome = "rejected"]
<1>1. UNCHANGED files /\ x \in OpType /\ (op' = [op EXCEPT ![o] = y] \/ op' = [op EXCEPT ![o] = z])
  BY DEF ProjectInstall, OpsGood
<1>2. /\ call[o].do = "claim"
      /\ [x.exact EXCEPT ![p] = f] \in [Path -> Nat] /\ x.todo \ {p} \in SUBSET Path
      /\ x.acquired \cup {p} \in SUBSET Path
  BY <1>1 DEF OpType, ProjectInstall
<1>2a. f \in returned'[p] \/ lease'[p].fence >= f
  <2>1. CASE lease' = [lease EXCEPT ![p] = Lease(OwnerOf[o], f, call[o].term)]
    <3>1. lease'[p].fence = f
      BY <2>1 DEF Lease
    <3>2. QED
      BY <3>1
  <2>2. CASE GivenBack(p, f)
    BY <2>2 DEF GivenBack
  <2>3. CASE ~(f > lease[p].fence) /\ UNCHANGED lease
    BY <2>3
  <2>4. QED
    BY <2>1, <2>2, <2>3 DEF ProjectInstall
<1> HIDE DEF x, f, p
<1>3. /\ y \in OpType /\ y.st = x.st /\ y.claims = x.claims /\ y.deps = x.deps /\ y.seen = x.seen
      /\ y.snap = x.snap /\ y.staged = x.staged /\ y.listed = x.listed
      /\ y.acquired = x.acquired \cup {p} /\ y.exact = [x.exact EXCEPT ![p] = f] /\ y.pc = x.pc
      /\ y.intent = x.intent /\ y.outcome = x.outcome
  BY <1>1, <1>2 DEF OpType
<1> HIDE DEF y
<1>4. /\ z \in OpType /\ z.st = y.st /\ z.claims = y.claims /\ z.deps = y.deps /\ z.seen = y.seen
      /\ z.snap = y.snap /\ z.staged = y.staged /\ z.listed = y.listed /\ z.pc = "releasing"
      /\ z.outcome = "rejected" /\ z.acquired = y.acquired /\ z.exact = y.exact
  BY <1>3 DEF OpType
<1> HIDE DEF z
<1>5. Acquires(o, y) /\ Acquires(o, z)
  BY <1>1, <1>2, <1>2a, <1>3, <1>4 DEF Acquires, OpType, x, p, f
<1>6. CASE op' = [op EXCEPT ![o] = y]
  BY <1>1, <1>3, <1>5, <1>6, PhaseStep DEF x
<1>7. CASE op' = [op EXCEPT ![o] = z]
  BY <1>1, <1>3, <1>4, <1>5, <1>7, PhaseStep DEF x
<1>8. QED
  BY <1>1, <1>6, <1>7

(* The other steps of a project, and the heartbeats and lost answers of    *)
(* any operation, keep its reads.                                          *)
LEMMA ProjectStep ==
    ASSUME OpsGood, NEW o \in Op,
           \/ ProjectClaimed(o) \/ ProjectDenied(o) \/ OpHeartbeatEnds(o) \/ OpAnswerLost(o)
           \/ ProjectDone(o) \/ \E p \in Path : ProjectRelease(o, p)
    PROVE  OpStep(o)
<1> DEFINE x == op[o]
<1>0. x \in OpType /\ OpGood(o, x)
  BY DEF OpsGood
<1>1. CASE ProjectClaimed(o)
  <2> DEFINE y == [x EXCEPT !.pc = "beating", !.todo = x.paths]
  <2>1. op' = [op EXCEPT ![o] = y] /\ UNCHANGED files /\ x.pc = "claiming"
    BY <1>1 DEF ProjectClaimed
  <2>2. x.st = "running" /\ x.paths \in SUBSET Path
    BY <1>0, <2>1 DEF OpGood, Working, OpType
  <2> HIDE DEF x
  <2>3. /\ y \in OpType /\ y.st = x.st /\ y.claims = x.claims /\ y.deps = x.deps /\ y.seen = x.seen
        /\ y.snap = x.snap /\ y.staged = x.staged /\ y.listed = x.listed
        /\ y.acquired = x.acquired /\ y.exact = x.exact /\ y.pc = "beating"
    BY <1>0, <2>2 DEF OpType, Working
  <2> HIDE DEF y
  <2>4. QED
    BY <2>1, <2>2, <2>3, PhaseStep DEF x, Acquires
<1>2. CASE ProjectDenied(o)
  BY <1>2, FailStep DEF ProjectDenied, Fail
<1>3. CASE OpHeartbeatEnds(o)
  <2> DEFINE q == call[o].path
             y == [x EXCEPT !.todo = @ \ {q}]
  <2>1. /\ UNCHANGED files
        /\ op' = [op EXCEPT ![o] = y] \/ op' = [op EXCEPT ![o] = Failing(o, "rejected")]
    <3> DEFINE kept == call[o].stage = "granted" /\ Held(OwnerOf[o], q, call[o].fence)
    <3>1. UNCHANGED files /\ op' = [op EXCEPT ![o] = IF kept THEN y ELSE Failing(o, "rejected")]
      BY <1>3 DEF OpHeartbeatEnds
    <3> HIDE DEF kept, y
    <3>2. QED
      BY <3>1
  <2>2. x.todo \ {q} \in SUBSET Path
    BY <1>0 DEF OpType
  <2> HIDE DEF x, q
  <2>3. /\ y \in OpType /\ y.st = x.st /\ y.claims = x.claims /\ y.deps = x.deps /\ y.seen = x.seen
        /\ y.snap = x.snap /\ y.staged = x.staged /\ y.listed = x.listed
        /\ y.acquired = x.acquired /\ y.exact = x.exact /\ y.pc = x.pc
        /\ y.intent = x.intent /\ y.outcome = x.outcome
    BY <1>0, <2>2 DEF OpType
  <2> HIDE DEF y
  <2>4. CASE op' = [op EXCEPT ![o] = y]
    BY <2>1, <2>3, <2>4, PhaseStep DEF x, Acquires
  <2>5. CASE op' = [op EXCEPT ![o] = Failing(o, "rejected")]
    BY <2>1, <2>5, FailStep
  <2>6. QED
    BY <2>1, <2>4, <2>5
<1>4. CASE OpAnswerLost(o)
  <2>1. UNCHANGED files /\ (op' = op \/ op' = [op EXCEPT ![o] = Failing(o, "aborted")])
    BY <1>4 DEF OpAnswerLost, Fail
  <2>2. CASE op' = op
    <3>1. op' = [op EXCEPT ![o] = x]
      BY <2>2 DEF OpsGood
    <3>2. QED
      BY <1>0, <2>1, <3>1, PhaseStep DEF Acquires
  <2>3. CASE op' = [op EXCEPT ![o] = Failing(o, "aborted")]
    BY <2>1, <2>3, FailStep
  <2>4. QED
    BY <2>1, <2>2, <2>3
<1>5. CASE ProjectDone(o)
  <2> DEFINE s == IF Running(o) THEN x.outcome ELSE x.st
  <2>1. UNCHANGED files /\ op' = [op EXCEPT ![o] = Finish(o, s)] /\ x.pc = "releasing"
    BY <1>5 DEF ProjectDone, Settle
  <2>2. CASE Running(o)
    <3>1. s \in {"rejected", "aborted"}
      BY <1>0, <2>1, <2>2 DEF OpGood, OpType, Running
    <3>2. QED
      BY <2>1, <3>1, RejectedStep
  <2>3. CASE ~Running(o)
    <3>1. s \in {"absent", "applied", "rejected", "aborted"}
      BY <1>0, <2>3 DEF OpType, Statuses, Running
    <3>2. Becomes(o, Finish(o, s))
      BY <2>1, <2>3, <3>1, FinishIs DEF Becomes, Acquires
    <3>3. QED
      BY <2>1, <3>2 DEF OpStep, FilesMove
  <2>4. QED
    BY <2>2, <2>3
<1>6. CASE \E p \in Path : ProjectRelease(o, p)
  <2>1. PICK p \in Path : ProjectRelease(o, p)
    BY <1>6
  <2> DEFINE y == [x EXCEPT !.acquired = x.acquired \ {p}]
  <2>2. UNCHANGED files /\ op' = [op EXCEPT ![o] = y]
    BY <2>1 DEF ProjectRelease
  <2>3. x.acquired \ {p} \in SUBSET Path
    BY <1>0 DEF OpType
  <2> HIDE DEF x
  <2>4. /\ y \in OpType /\ y.st = x.st /\ y.claims = x.claims /\ y.deps = x.deps /\ y.seen = x.seen
        /\ y.snap = x.snap /\ y.staged = x.staged /\ y.listed = x.listed
        /\ y.acquired = x.acquired \ {p} /\ y.exact = x.exact /\ y.pc = x.pc
        /\ y.intent = x.intent /\ y.outcome = x.outcome
    BY <1>0, <2>3 DEF OpType
  <2> HIDE DEF y
  <2>5. QED
    BY <2>2, <2>4, PhaseStep DEF x, Acquires
<1>7. QED
  BY <1>1, <1>2, <1>3, <1>4, <1>5, <1>6

(* A project is published only if its reads are current, and every file it *)
(* changes is held under its exact fence.                                  *)
LEMMA PublishProjectStep ==
    ASSUME OpsGood, NEW o \in Op \ Removal, PublishProject(o)
    PROVE  OpStep(o)
<1> DEFINE x == op[o]
           d == Finish(o, "applied")
           y == [d EXCEPT !.pc = "releasing", !.acquired = x.acquired, !.exact = x.exact]
<1>1. CASE /\ Valid(o) /\ Changes(x) = x.paths /\ Publish(x) /\ op' = [op EXCEPT ![o] = y]
           /\ \A p \in x.paths : Held(OwnerOf[o], p, x.exact[p])
  <2>1. /\ x \in OpType /\ x.acquired \in SUBSET Path /\ x.exact \in [Path -> Nat]
        /\ OpGood(o, d) /\ d.st = "applied" /\ Current(x.deps) /\ Running(o)
    BY <1>1, FinishIs DEF OpsGood, OpType, Valid
  <2> HIDE DEF d
  <2>2. d \in OpType
    BY <2>1 DEF OpGood
  <2>3. /\ y \in OpType /\ y.st = "applied" /\ y.claims = d.claims /\ y.deps = d.deps /\ y.seen = d.seen
        /\ y.snap = d.snap /\ y.staged = d.staged /\ y.listed = d.listed /\ y.pc = "releasing"
        /\ y.acquired = x.acquired /\ y.exact = x.exact
    <3> HIDE DEF x
    <3>1. QED
      BY <2>1, <2>2 DEF OpType
  <2> HIDE DEF y
  <2>4. OpGood(o, y)
    BY <2>1, <2>3 DEF OpGood, Working, Pinned
  <2>5. Becomes(o, y)
    BY <1>1, <2>1, <2>3, <2>4 DEF Becomes, Acquires
  <2>6. FilesMove(o, y)
    BY <1>1, <2>1, <2>3, AdapterAssumption DEF FilesMove, Owned, Held
  <2>7. QED
    BY <2>5, <2>6 DEF OpStep
<1>2. CASE UNCHANGED files /\ Fail(o, "rejected")
  BY <1>2, FailStep DEF Fail
<1>3. QED
  BY <1>1, <1>2 DEF PublishProject

(* A removal is applied only if the files are as prepared and the operator *)
(* has the server's leases of them.                                        *)
LEMMA RemovalStep ==
    ASSUME OpsGood, FileTypes, NEW m \in Removal, RemovalCommit(m) \/ RemovalAbort(m)
    PROVE  OpStep(m)
<1>0. m \in Op /\ OwnerOf[m] = m
  BY AdapterAssumption DEF Removal
<1>1. CASE RemovalCommit(m)
  <2> DEFINE x == op[m]
             g == [p \in Path |-> IF p \in x.paths THEN Absent ELSE Same]
             y == [x EXCEPT !.staged = g]
             d == Finish(m, "applied")
  <2>1. /\ Publish(y) /\ op' = [op EXCEPT ![m] = d] /\ Running(m) /\ Current(x.deps)
        /\ \A p \in x.paths : srv[p].owner = m
    BY <1>1 DEF RemovalCommit, Settle, Granted
  <2>2. x \in OpType /\ g \in [Path -> Value \cup {Same}]
    BY <1>0 DEF OpsGood, Value
  <2>3. y \in OpType /\ y.staged = g
    <3> HIDE DEF x, g
    <3>1. QED
      BY <2>2 DEF OpType
  <2>4. Changes(y) \subseteq x.paths
    <3> HIDE DEF x, y
    <3>1. QED
      BY <2>3 DEF Changes
  <2> HIDE DEF y
  <2>5. FilesMove(m, d)
    BY <1>0, <2>1, <2>3, <2>4, FinishIs DEF FilesMove, Owned
  <2>6. Becomes(m, d)
    BY <1>0, <2>1, FinishIs DEF Becomes, Acquires
  <2>7. QED
    BY <2>5, <2>6 DEF OpStep
<1>2. CASE RemovalAbort(m)
  BY <1>0, <1>2, RejectedStep DEF RemovalAbort, Settle
<1>3. QED
  BY <1>1, <1>2

-----------------------------------------------------------------------------
(* All operations: each one stays, or is as it should be, and is applied   *)
(* only if what it has read is current.                                    *)
Moves ==
    /\ op' \in [Op -> OpType]
    /\ \A o \in Op : \/ op'[o] = op[o]
                     \/ /\ OpGood(o, op'[o]) /\ Acquires(o, op'[o])
                        /\ op'[o].st = "applied" /\ Running(o) => Current(op[o].deps)
    /\ \/ UNCHANGED files
       \/ \E o \in Op : FilesMove(o, op'[o])

NoneStarts == \A o \in Op : Running(o)' => Running(o)

(* A step of one operation leaves the others as they are.                  *)
LEMMA OpStepMoves ==
    ASSUME OpsGood, NEW o \in Op, OpStep(o)
    PROVE  Moves /\ NoneStarts
<1>1. PICK y : FilesMove(o, y) /\ Becomes(o, y)
  BY DEF OpStep
<1>2. y \in OpType /\ op \in [Op -> OpType]
  BY <1>1 DEF Becomes, OpGood, OpsGood
<1>3. op' \in [Op -> OpType] /\ op'[o] = y /\ \A q \in Op \ {o} : op'[q] = op[q]
  BY <1>1, <1>2 DEF Becomes
<1>4. QED
  BY <1>1, <1>3 DEF Moves, NoneStarts, Becomes, Running

(* A step that touches neither operations nor files.                       *)
LEMMA StillMoves ==
    ASSUME OpsGood, UNCHANGED << files, op >>
    PROVE  Moves /\ NoneStarts
  BY DEF Moves, NoneStarts, Running, OpsGood

(* An operation is admitted as it should be, and only when no removal is   *)
(* fenced.                                                                 *)
LEMMA StartMoves ==
    ASSUME OpsGood, FileTypes, \A p \in Path : lease[p].fence \in Nat,
           NEW o \in Op \ Removal, StartAny(o)
    PROVE  Moves /\ fence = Nobody /\ \A q \in Op \ {o} : Running(q)' => Running(q)
<1>1. PICK P \in SUBSET { p \in Path : lease[p].owner = OwnerOf[o] } :
      \E intent \in Intents(o, P) :
      \E reads \in { f \in [Path -> UNION { {Unread} \cup Evidence(p) : p \in Path }] :
                        \A p \in Path : f[p] = Unread \/ (p \in WorksOn(OwnerOf[o]) /\ f[p] \in Evidence(p)) } :
          Start(o, P, reads, intent)
  BY DEF StartAny
<1>2. PICK intent \in Intents(o, P) :
      \E reads \in { f \in [Path -> UNION { {Unread} \cup Evidence(p) : p \in Path }] :
                        \A p \in Path : f[p] = Unread \/ (p \in WorksOn(OwnerOf[o]) /\ f[p] \in Evidence(p)) } :
          Start(o, P, reads, intent)
  BY <1>1
<1>3. PICK reads \in [Path -> UNION { {Unread} \cup Evidence(p) : p \in Path }] :
          Start(o, P, reads, intent) /\ \A p \in Path : reads[p] = Unread \/ reads[p] \in Evidence(p)
  BY <1>2
<1> DEFINE deps == [r \in Path \cup {Root} |-> IF r = Root THEN Unread ELSE reads[r]]
           c == [p \in Path |-> IF p \in P THEN lease[p].fence ELSE 0]
           x == [NoOp EXCEPT !.st = "running", !.pc = "admitted", !.intent = intent,
                             !.claims = c, !.deps = deps, !.seen = deps]
           ok == (\A p \in P : Held(OwnerOf[o], p, lease[p].fence)) /\ Current(deps)
<1>4. /\ fence = Nobody /\ UNCHANGED files
      /\ op' = [op EXCEPT ![o] = IF ok THEN x ELSE Finish(o, "rejected")]
  BY <1>3 DEF Start
<1>5. c \in [Path -> Nat]
  OBVIOUS
<1>6. deps \in Revs
  <2>1. \A p \in Path : reads[p] \in Nat \cup {Unread}
    BY <1>3 DEF Evidence, FileTypes, Place
  <2>2. QED
    BY <2>1 DEF Revs, Place
<1>7. intent \in IntentType /\ (KindOf[o] = "tool" => intent \in Intents(o, Path))
  <2>1. intent \in Intents(o, P) /\ P \subseteq Path
    BY <1>2
  <2>2. CASE KindOf[o] = "tool"
    BY <2>1, <2>2 DEF Intents, IntentType, Value
  <2>3. CASE KindOf[o] # "tool"
    BY <2>1, <2>3 DEF Intents, IntentType, Value, NoIntent
  <2>4. QED
    BY <2>2, <2>3
<1> HIDE DEF deps, c, ok
<1>8. /\ x \in OpType /\ x.st = "running" /\ x.pc = "admitted" /\ x.intent = intent /\ x.deps = deps
      /\ x.seen = deps /\ x.snap = NoView /\ x.staged = NoStaging /\ x.acquired = {}
      /\ x.listed = {Same}
  BY <1>5, <1>6, <1>7, Settled DEF OpType, Statuses, Working
<1> HIDE DEF x
<1>9. OpGood(o, x) /\ Acquires(o, x)
  BY <1>7, <1>8 DEF OpGood, Acquires, Pinned, NoStaging
<1> DEFINE y == IF ok THEN x ELSE Finish(o, "rejected")
<1>10. /\ op' = [op EXCEPT ![o] = y] /\ OpGood(o, y) /\ Acquires(o, y) /\ y.st # "applied"
       /\ y \in OpType
  BY <1>4, <1>8, <1>9, FinishIs DEF Acquires, OpGood
<1> HIDE DEF y
<1>11. op' \in [Op -> OpType] /\ op'[o] = y /\ \A q \in Op \ {o} : op'[q] = op[q]
  BY <1>10 DEF OpsGood
<1>12. QED
  BY <1>4, <1>10, <1>11 DEF Moves, Running

(* A removal is prepared as it should be, with the fence, and alone.       *)
LEMMA PrepareMoves ==
    ASSUME OpsGood, FileTypes, NEW m \in Removal, NEW P \in SUBSET Path, Prepare(m, P)
    PROVE  Moves /\ fence' = m /\ Alone(m)'
<1> DEFINE revs == [r \in Path \cup {Root} |-> IF r \in P THEN rev[r] ELSE Unread]
           x == [NoOp EXCEPT !.st = "running", !.pc = "prepared", !.paths = P,
                             !.deps = revs, !.seen = revs]
<1>1. /\ UNCHANGED files /\ fence' = m /\ op' = [op EXCEPT ![m] = x] /\ Alone(m)
  BY DEF Prepare
<1>2. revs \in Revs /\ m \in Op /\ KindOf[m] = "removal"
  BY DEF Revs, Place, FileTypes, Removal
<1> HIDE DEF revs
<1>3. /\ x \in OpType /\ x.st = "running" /\ x.pc = "prepared" /\ x.deps = revs
      /\ x.seen = revs /\ x.snap = NoView /\ x.staged = NoStaging /\ x.acquired = {}
      /\ x.listed = {Same}
  BY <1>2, Settled DEF OpType, Statuses, Working
<1> HIDE DEF x
<1>4. OpGood(m, x) /\ Acquires(m, x)
  BY <1>2, <1>3 DEF OpGood, Acquires, Pinned, NoStaging
<1>5. op' \in [Op -> OpType] /\ op'[m] = x /\ \A q \in Op \ {m} : op'[q] = op[q]
  BY <1>1, <1>2, <1>3 DEF OpsGood
<1>6. QED
  BY <1>1, <1>3, <1>4, <1>5 DEF Moves, Running, Alone

(* A restart settles every operation, and none has anything to give back.  *)
LEMMA RestartMoves ==
    ASSUME OpsGood, FileTypes, Restart
    PROVE  Moves /\ NoneStarts /\ \A o \in Op : op'[o].acquired = {}
<1> DEFINE d(o) == IF Running(o) THEN Finish(o, "aborted")
                   ELSE IF op[o].st # "absent" THEN Finish(o, op[o].st) ELSE NoOp
<1>1. op' = [o \in Op |-> d(o)] /\ UNCHANGED files
  BY DEF Restart
<1>2. ASSUME NEW o \in Op
      PROVE  /\ OpGood(o, d(o)) /\ d(o).acquired = {} /\ d(o).st # "running"
             /\ (d(o).st = "applied" => ~Running(o))
  <2>1. op[o].st \in Statuses
    BY DEF OpsGood, OpType
  <2>2. OpGood(o, NoOp)
    BY Settled DEF OpGood, Working, Pinned, NoStaging
  <2>3. CASE Running(o)
    BY <2>3, FinishIs
  <2>4. CASE ~Running(o) /\ op[o].st # "absent"
    <3>1. op[o].st \in {"absent", "applied", "rejected", "aborted"}
      BY <2>1, <2>4 DEF Statuses, Running
    <3>2. d(o) = Finish(o, op[o].st)
      BY <2>4
    <3>3. QED
      BY <2>4, <3>1, <3>2, FinishIs DEF Running
  <2>5. CASE ~Running(o) /\ op[o].st = "absent"
    BY <2>2, <2>5, Settled
  <2>6. QED
    BY <2>3, <2>4, <2>5
<1> HIDE DEF d
<1>3. \A o \in Op : d(o) \in OpType
  BY <1>2 DEF OpGood
<1>4. QED
  BY <1>1, <1>2, <1>3 DEF Moves, NoneStarts, Running, Acquires

(* What an operation was shown is so when it is applied.                   *)
Serial ==
    \A o \in Op : (Running(o) /\ op'[o].st = "applied") =>
          /\ \A p \in Path : op[o].seen[p] \in {Unread, rev[p]}
          /\ op[o].listed \in {{Same}, { p \in Path : val[p] # Absent }}

(* The invariant of the operations is kept, and what an applied operation  *)
(* was shown is current: it captured all of it, and a listing of an        *)
(* earlier view is the present one as long as the directory has the same   *)
(* revision.                                                               *)
LEMMA MovesKeep ==
    ASSUME OpsGood, FileTypes, Moves
    PROVE  OpsGood' /\ FileTypes' /\ Serial
<1>1. FileTypes' /\ \A s : Earlier(s) => Earlier(s)'
  <2>1. CASE UNCHANGED files
    BY <2>1 DEF files, FileTypes, Earlier, Members
  <2>2. CASE \E x \in OpType : Publish(x)
    BY <2>2, PublishIs
  <2>3. QED
    BY <2>1, <2>2 DEF Moves, FilesMove
<1>2. \A o \in Op : OpGood(o, op'[o])
  BY DEF Moves, OpsGood
<1>3. ASSUME NEW o \in Op
      PROVE  OpGood(o, op[o])'
  <2>0. PICK x : x = op'[o]
    OBVIOUS
  <2>1. OpGood(o, x)
    BY <1>2, <2>0
  <2>2. Pinned(x) => Earlier(x.snap)'
    BY <1>1, <2>1 DEF OpGood
  <2>3. QED
    BY <2>0, <2>1, <2>2 DEF OpGood, Pinned, Earlier, Members, Intents
<1>4. OpsGood'
  BY <1>3 DEF OpsGood, Moves
<1>5. ASSUME NEW o \in Op, Running(o), op'[o].st = "applied"
      PROVE  /\ \A p \in Path : op[o].seen[p] \in {Unread, rev[p]}
             /\ op[o].listed \in {{Same}, Members(val)}
  <2>1. OpGood(o, op[o]) /\ Current(op[o].deps)
    BY <1>5 DEF OpsGood, Moves, Running
  <2>2. op[o].deps \in [Place -> Nat \cup {Unread}] /\ Root \in Place /\ Path \subseteq Place
    BY <2>1 DEF OpGood, OpType, Revs, Place
  <2>3. \A r \in Place : op[o].deps[r] \in {Unread, rev[r]}
    BY <2>1, <2>2 DEF Current
  <2>4. op[o].listed # {Same} => op[o].listed = Members(val)
    <3>1. rev[Root] \in Nat /\ Unread \notin Nat
      BY <2>2 DEF FileTypes, Unread
    <3>2. QED
      BY <2>1, <2>2, <2>3, <3>1 DEF OpGood, Earlier
  <2>5. QED
    BY <2>1, <2>2, <2>3, <2>4 DEF OpGood
<1>6. QED
  BY <1>1, <1>4, <1>5 DEF Serial, Members

-----------------------------------------------------------------------------
(* Leases: the rows here, the server's, and the answers on their way.      *)

LeaseType == [owner : Owner \cup {Nobody}, fence : Nat, term : Nat, active : BOOLEAN]
ServerType == [owner : Owner \cup {Nobody}, fence : Nat, term : Nat]
CallType == [do : {"none", "claim", "beat", "release"}, path : Path \cup {Nobody},
             fence : Nat, term : Nat, stage : {"none", "sent", "granted", "refused", "freed"}]
RowTypes == /\ lease \in [Path -> LeaseType] /\ srv \in [Path -> ServerType]
            /\ lapsed \in [Path -> Nat] /\ returned \in [Path -> SUBSET Nat]
            /\ call \in [Thread -> CallType] /\ gate \in [Worker -> [Path -> Nat]]
            /\ cast.terms \in Nat

(* No operation can be validated with this fence any more.                 *)
Dead(p, f) == \/ lease[p].fence > f
              \/ lease[p].fence = f /\ (~lease[p].active \/ lease[p].term <= lapsed[p])

(* The fence was given to the worker: it is in the row, at the server, on  *)
(* its way, or to be released by an operation.                             *)
Ticket(p, w, f) ==
    \/ lease[p].owner = w /\ lease[p].fence = f
    \/ srv[p].owner = w /\ w # Nobody /\ srv[p].fence = f
    \/ \E t \in Thread : call[t].do = "claim" /\ call[t].path = p /\ call[t].fence = f /\ By(t) = w
    \/ \E o \in Op : p \in op[o].acquired /\ op[o].exact[p] = f /\ OwnerOf[o] = w

(* The row is behind the server, and a lease that counts here is the       *)
(* server's, or was given back by a refused install.                       *)
RowGood(p) ==
    /\ lease[p].fence <= srv[p].fence /\ lease[p].term <= srv[p].term
    /\ srv[p].fence <= srv[p].term /\ srv[p].term <= cast.terms /\ lapsed[p] <= srv[p].term
    /\ returned[p] \subseteq 0 .. srv[p].fence
    /\ \A w \in Worker : gate[w][p] <= srv[p].fence
    /\ lease[p].active => lease[p].owner \in Owner /\ lease[p].fence # 0
    /\ (lease[p].active /\ lease[p].term > lapsed[p] /\ lease[p].owner \in Worker) =>
          Holds(lease[p].owner, p, lease[p].fence) \/ lease[p].fence \in returned[p]

(* A grant that can still be installed is the server's lease; a lease that *)
(* is being released counts no more.                                       *)
CallGood(t, c) ==
    c.do # "none" =>
       /\ c.path \in Path /\ c.fence \in 1 .. srv[c.path].fence /\ c.term <= srv[c.path].term
       /\ (c.do = "claim" /\ c.term > lapsed[c.path] /\ ~Dead(c.path, c.fence)) =>
             Holds(By(t), c.path, c.fence) \/ c.fence \in returned[c.path]
       /\ c.do = "release" => c.fence \in returned[c.path] \/ Dead(c.path, c.fence)

(* What a project has to give back was installed, unless it was refused.   *)
AcqGood(x) ==
    \A p \in x.acquired : /\ x.exact[p] \in 1 .. srv[p].fence
                          /\ x.exact[p] \in returned[p] \/ lease[p].fence >= x.exact[p]

(* A fence belongs to one owner.                                           *)
Agree(p) == \A f \in Nat \ {0} : \A v, w : Ticket(p, v, f) /\ Ticket(p, w, f) => v = w

RowsGood == /\ RowTypes
            /\ \A p \in Path : RowGood(p) /\ Agree(p)
            /\ \A t \in Thread : CallGood(t, call[t])
            /\ \A o \in Op : AcqGood(op[o])

(* A row only goes forward.                                                *)
Advance(p) ==
    /\ srv'[p].fence >= srv[p].fence /\ srv'[p].term >= srv[p].term /\ lapsed'[p] >= lapsed[p]
    /\ lease'[p].fence >= lease[p].fence /\ returned[p] \subseteq returned'[p]
    /\ \A f \in Nat : Dead(p, f) => Dead(p, f)'
    /\ \A w \in Worker, f \in Nat : Holds(w, p, f) =>
          \/ Holds(w, p, f)' \/ srv[p].term <= lapsed'[p]
          \/ f \in returned'[p] \/ Dead(p, f)'

LeaseMove(p) ==
    \/ lease'[p] = lease[p]
    \/ /\ lease'[p].owner = lease[p].owner /\ lease'[p].fence = lease[p].fence
       /\ lease'[p].term = lease[p].term /\ ~lease'[p].active
    \/ /\ lease'[p].owner \in Owner /\ lease'[p].fence \in 1 .. srv[p].fence
       /\ lease'[p].term <= srv[p].term
       /\ lease'[p].fence > lease[p].fence \/ Held(lease'[p].owner, p, lease'[p].fence)
       /\ Ticket(p, lease'[p].owner, lease'[p].fence)
       /\ (lease'[p].term > lapsed[p] /\ lease'[p].owner \in Worker) =>
             \/ Holds(lease'[p].owner, p, lease'[p].fence) \/ lease'[p].fence \in returned[p]

LeasesMove ==
    /\ UNCHANGED << srv, lapsed, gate, cast >>
    /\ lease' \in [Path -> LeaseType] /\ returned' \in [Path -> SUBSET Nat]
    /\ \A p \in Path : /\ LeaseMove(p) /\ returned[p] \subseteq returned'[p]
                       /\ returned'[p] \subseteq returned[p] \cup 0 .. srv[p].fence

ServerMove(p) ==
    /\ srv'[p].fence >= srv[p].fence /\ srv'[p].term >= srv[p].term /\ lapsed'[p] >= lapsed[p]
    /\ srv'[p].fence <= srv'[p].term /\ srv'[p].term <= cast.terms /\ lapsed'[p] <= srv'[p].term
    /\ \A w \in Worker : gate'[w][p] <= srv'[p].fence
    /\ \/ srv'[p].owner = srv[p].owner /\ srv'[p].fence = srv[p].fence
       \/ srv[p].owner \notin Worker /\ (srv'[p].owner = Nobody \/ srv'[p].fence > srv[p].fence)
       \/ /\ srv'[p].owner = Nobody
          /\ srv[p].term <= lapsed[p] \/ srv[p].fence \in returned[p] \/ Dead(p, srv[p].fence)

ServersMove ==
    /\ UNCHANGED << lease, returned, cast >>
    /\ srv' \in [Path -> ServerType] /\ lapsed' \in [Path -> Nat]
    /\ gate' \in [Worker -> [Path -> Nat]]
    /\ \A p \in Path : ServerMove(p)

(* When rows change, they go forward, and a lease that counts is still the *)
(* server's or was given back.                                             *)
LEMMA LeasesKeep ==
    ASSUME RowTypes, LeasesMove, NEW p \in Path, RowGood(p)
    PROVE  RowGood(p)' /\ Advance(p)
<1> DEFINE l == lease[p]
           k == lease'[p]
           s == srv[p]
<1>1. /\ l.fence \in Nat /\ l.term \in Nat /\ l.active \in BOOLEAN
      /\ k.fence \in Nat /\ k.term \in Nat /\ k.active \in BOOLEAN
      /\ s.fence \in Nat /\ s.term \in Nat /\ lapsed[p] \in Nat /\ cast.terms \in Nat
  BY DEF RowTypes, LeasesMove, LeaseType, ServerType
<1>2. UNCHANGED << srv, lapsed, gate, cast >>
  BY DEF LeasesMove
<1>3. LeaseMove(p) /\ returned[p] \subseteq returned'[p] /\ returned'[p] \subseteq returned[p] \cup 0 .. s.fence
  BY DEF LeasesMove
<1>4. k.fence >= l.fence
  BY <1>1, <1>3 DEF LeaseMove, Held
<1>5. \A f \in Nat : Dead(p, f) => Dead(p, f)'
  BY <1>1, <1>2, <1>3, <1>4 DEF LeaseMove, Held, Dead
<1>6. Advance(p)
  BY <1>1, <1>2, <1>3, <1>4, <1>5 DEF Advance, Holds
<1>7. RowGood(p)'
  BY <1>1, <1>2, <1>3 DEF RowGood, LeaseMove, Holds
<1>8. QED
  BY <1>6, <1>7

(* When the server's leases or the deadlines change, a lease that counts   *)
(* here is still the server's or was given back.                           *)
LEMMA ServersKeep ==
    ASSUME RowTypes, ServersMove, NEW p \in Path, RowGood(p)
    PROVE  RowGood(p)' /\ Advance(p)
<1> DEFINE l == lease[p]
           s == srv[p]
           u == srv'[p]
<1>1. /\ l.fence \in Nat /\ l.term \in Nat /\ l.active \in BOOLEAN
      /\ s.fence \in Nat /\ s.term \in Nat /\ lapsed[p] \in Nat /\ cast.terms \in Nat
      /\ u.fence \in Nat /\ u.term \in Nat /\ lapsed'[p] \in Nat
  BY DEF RowTypes, ServersMove, LeaseType, ServerType
<1>2. UNCHANGED << lease, returned, cast >>
  BY DEF ServersMove
<1>3. ServerMove(p)
  BY DEF ServersMove
<1>4. \A f \in Nat : Dead(p, f) => Dead(p, f)'
  BY <1>1, <1>2, <1>3 DEF ServerMove, Dead
<1>5. Nobody \notin Worker
  BY AdapterAssumption DEF Owner
<1>6. \A w \in Worker, f \in Nat : Holds(w, p, f) =>
          \/ Holds(w, p, f)' \/ srv[p].term <= lapsed'[p]
          \/ f \in returned'[p] \/ Dead(p, f)'
  BY <1>1, <1>2, <1>3, <1>4, <1>5 DEF ServerMove, Holds
<1>7. Advance(p)
  BY <1>1, <1>2, <1>3, <1>4, <1>6 DEF Advance, ServerMove
<1>8. RowGood(p)'
  <2>1. (l.active /\ l.term > lapsed'[p] /\ l.owner \in Worker) =>
          (srv'[p].owner = l.owner /\ srv'[p].fence = l.fence) \/ l.fence \in returned[p]
    <3> SUFFICES ASSUME l.active, l.term > lapsed'[p], l.owner \in Worker, l.fence \notin returned[p]
                 PROVE  Holds(l.owner, p, l.fence)'
      BY <1>2 DEF Holds
    <3>1. Holds(l.owner, p, l.fence)
      BY <1>1, <1>3 DEF RowGood, ServerMove
    <3>2. ~(srv[p].term <= lapsed'[p])
      BY <1>1 DEF RowGood
    <3>3. ~Dead(p, l.fence)'
      BY <1>1, <1>2 DEF Dead
    <3>4. QED
      BY <1>1, <1>2, <1>6, <3>1, <3>2, <3>3
  <2>2. returned[p] \subseteq 0 .. u.fence
    BY <1>1, <1>3 DEF RowGood, ServerMove
  <2>3. QED
    BY <1>1, <1>2, <1>3, <2>1, <2>2 DEF RowGood, ServerMove, Holds
<1>9. QED
  BY <1>7, <1>8

(* A thread's request is the one it had, or a new one; a new grant is the  *)
(* server's lease.                                                         *)
CallMove(t) ==
    \/ call'[t] = call[t]
    \/ /\ CallGood(t, call[t])'
       /\ call'[t].do = "claim" => Holds(By(t), call[t].path, call[t].fence)'

CallsMove == call' \in [Thread -> CallType] /\ \A t \in Thread : CallMove(t)

RowsMove == (LeasesMove \/ ServersMove) /\ CallsMove

(* Every thread acts for a worker, and the operator of a removal is none.  *)
LEMMA Threads ==
    /\ \A t \in Thread : By(t) \in Worker
    /\ \A o \in Op \ Removal : o \in Thread /\ By(o) = OwnerOf[o]
    /\ \A w \in Worker : w \in Thread /\ By(w) = w
    /\ Nobody \notin Worker /\ Worker \cap Removal = {}
  BY AdapterAssumption DEF Thread, By, Owner, Removal

(* What holds of a request on its way still holds after rows went forward. *)
LEMMA CallKept ==
    ASSUME RowTypes, NEW t \in Thread, NEW c \in CallType, CallGood(t, c),
           srv' \in [Path -> ServerType], lapsed' \in [Path -> Nat],
           \A p \in Path : Advance(p)
    PROVE  CallGood(t, c)'
<1> SUFFICES ASSUME c.do # "none" PROVE CallGood(t, c)'
  BY DEF CallGood
<1> DEFINE p == c.path
           f == c.fence
           w == By(t)
<1>1. p \in Path /\ f \in Nat /\ c.term \in Nat /\ w \in Worker
  BY Threads DEF CallGood, CallType
<1>2. /\ srv[p].fence \in Nat /\ srv[p].term \in Nat /\ lapsed[p] \in Nat
      /\ srv'[p].fence \in Nat /\ srv'[p].term \in Nat /\ lapsed'[p] \in Nat
  BY <1>1 DEF RowTypes, ServerType
<1>3. Advance(p)
  BY <1>1
<1>4. f \in 1 .. srv[p].fence /\ c.term <= srv[p].term
  BY DEF CallGood
<1>5. f \in 1 .. srv'[p].fence /\ c.term <= srv'[p].term
  BY <1>1, <1>2, <1>3, <1>4 DEF Advance
<1>6. (c.do = "claim" /\ c.term > lapsed'[p] /\ ~Dead(p, f)') => Holds(w, p, f)' \/ f \in returned'[p]
  <2> SUFFICES ASSUME c.do = "claim", c.term > lapsed'[p], ~Dead(p, f)', f \notin returned'[p]
               PROVE  Holds(w, p, f)'
    OBVIOUS
  <2>1. c.term > lapsed[p] /\ ~Dead(p, f) /\ f \notin returned[p] /\ ~(srv[p].term <= lapsed'[p])
    BY <1>1, <1>2, <1>3, <1>4 DEF Advance
  <2>2. Holds(w, p, f)
    BY <2>1 DEF CallGood
  <2>3. QED
    BY <1>1, <1>3, <2>1, <2>2 DEF Advance
<1>7. c.do = "release" => f \in returned'[p] \/ Dead(p, f)'
  BY <1>1, <1>3 DEF CallGood, Advance
<1>8. QED
  BY <1>1, <1>5, <1>6, <1>7 DEF CallGood

(* The invariant of the leases is kept by every step but a restart. A      *)
(* fence belongs to one owner still: only the server gives out new ones,   *)
(* above all that exist.                                                   *)
LEMMA RowsKeep ==
    ASSUME RowsGood, OpsGood, Moves, RowsMove
    PROVE  RowsGood'
<1>1. /\ RowTypes' /\ \A p \in Path : RowGood(p)' /\ Advance(p)
  <2>1. CASE LeasesMove
    <3>1. RowTypes'
      BY <2>1 DEF RowsGood, RowTypes, RowsMove, LeasesMove, CallsMove
    <3>2. QED
      BY <2>1, <3>1, LeasesKeep DEF RowsGood
  <2>2. CASE ServersMove
    <3>1. RowTypes'
      BY <2>2 DEF RowsGood, RowTypes, RowsMove, ServersMove, CallsMove
    <3>2. QED
      BY <2>2, <3>1, ServersKeep DEF RowsGood
  <2>3. QED
    BY <2>1, <2>2 DEF RowsMove
<1>2. \A t \in Thread : CallGood(t, call[t])'
  <2> SUFFICES ASSUME NEW t \in Thread, call'[t] = call[t]
               PROVE  CallGood(t, call[t])'
    BY DEF RowsMove, CallsMove, CallMove
  <2>1. PICK c \in CallType : c = call[t]
    BY DEF RowsGood, RowTypes
  <2>2. CallGood(t, c)
    BY <2>1 DEF RowsGood
  <2>3. CallGood(t, c)'
    BY <1>1, <2>2, CallKept DEF RowsGood, RowTypes
  <2>4. QED
    BY <2>1, <2>3 DEF CallGood
<1>3. ASSUME NEW p \in Path
      PROVE  /\ lease[p].fence \in Nat /\ srv[p].fence \in Nat /\ lease'[p].fence \in Nat
             /\ srv'[p].fence \in Nat /\ RowGood(p) /\ Advance(p) /\ Agree(p)
  BY <1>1, <1>3 DEF RowsGood, RowTypes, LeaseType, ServerType
<1>4. ASSUME NEW o \in Op, NEW p \in op'[o].acquired
      PROVE  /\ p \in Path /\ op'[o].exact[p] \in 1 .. srv[p].fence
             /\ op'[o].exact[p] \in returned'[p] \/ lease'[p].fence >= op'[o].exact[p]
             /\ Ticket(p, OwnerOf[o], op'[o].exact[p])
  <2> DEFINE f == op'[o].exact[p]
  <2>1. p \in Path /\ f \in Nat
    BY <1>4 DEF Moves, OpType
  <2>2. CASE p \in op[o].acquired /\ f = op[o].exact[p]
    <3>1. f \in 1 .. srv[p].fence /\ (f \in returned[p] \/ lease[p].fence >= f)
      BY <2>2 DEF RowsGood, AcqGood
    <3>2. Ticket(p, OwnerOf[o], f)
      BY <2>2 DEF Ticket
    <3>3. QED
      BY <1>3, <2>1, <3>1, <3>2 DEF Advance
  <2>3. CASE Held(OwnerOf[o], p, f)
    <3>1. lease[p].fence = f /\ lease[p].active /\ lease[p].owner = OwnerOf[o]
      BY <2>3 DEF Held
    <3>2. QED
      BY <1>3, <2>1, <3>1 DEF RowGood, Advance, Ticket
  <2>4. CASE /\ o \notin Removal /\ call[o].do = "claim" /\ call[o].path = p /\ call[o].fence = f
             /\ f \in returned'[p] \/ lease'[p].fence >= f
    <3>1. o \in Thread /\ By(o) = OwnerOf[o]
      BY <2>4, Threads
    <3>2. CallGood(o, call[o])
      BY <3>1 DEF RowsGood
    <3>3. f \in 1 .. srv[p].fence /\ Ticket(p, OwnerOf[o], f)
      BY <2>4, <3>1, <3>2 DEF CallGood, Ticket
    <3>4. QED
      BY <1>3, <2>1, <2>4, <3>3
  <2>5. CASE op'[o] = op[o]
    BY <1>4, <2>2, <2>5
  <2>6. QED
    BY <1>4, <2>2, <2>3, <2>4, <2>5 DEF Moves, Acquires
<1>5. \A o \in Op : AcqGood(op[o])'
  <2> SUFFICES ASSUME NEW o \in Op, NEW p \in op'[o].acquired
               PROVE  /\ op'[o].exact[p] \in 1 .. srv'[p].fence
                      /\ op'[o].exact[p] \in returned'[p] \/ lease'[p].fence >= op'[o].exact[p]
    BY DEF AcqGood
  <2>1. p \in Path /\ op'[o].exact[p] \in 1 .. srv[p].fence
    BY <1>4
  <2>2. QED
    BY <1>3, <1>4, <2>1 DEF Advance
<1>6. ASSUME NEW p \in Path, NEW f \in Nat \ {0}, NEW w, Ticket(p, w, f)
      PROVE  f <= srv[p].fence
  <2>1. CASE lease[p].fence = f \/ srv[p].fence = f
    BY <1>3, <2>1 DEF RowGood
  <2>2. CASE \E t \in Thread : call[t].do = "claim" /\ call[t].path = p /\ call[t].fence = f
    BY <1>3, <2>2 DEF RowsGood, CallGood
  <2>3. CASE \E o \in Op : p \in op[o].acquired /\ op[o].exact[p] = f
    BY <1>3, <2>3 DEF RowsGood, AcqGood
  <2>4. QED
    BY <1>6, <2>1, <2>2, <2>3 DEF Ticket
<1>7. ASSUME NEW p \in Path, NEW f \in Nat \ {0}, NEW w, Ticket(p, w, f)'
      PROVE  Ticket(p, w, f) \/ (f > srv[p].fence /\ w = srv'[p].owner)
  <2>1. CASE lease'[p].owner = w /\ lease'[p].fence = f
    <3>1. CASE ServersMove
      BY <2>1, <3>1 DEF ServersMove, Ticket
    <3>2. CASE LeasesMove
      BY <2>1, <3>2 DEF LeasesMove, LeaseMove, Ticket
    <3>3. QED
      BY <3>1, <3>2 DEF RowsMove
  <2>2. CASE srv'[p].owner = w /\ w # Nobody /\ srv'[p].fence = f
    <3>1. CASE ServersMove
      BY <1>3, <2>2, <3>1 DEF ServersMove, ServerMove, Ticket
    <3>2. CASE LeasesMove
      BY <2>2, <3>2 DEF LeasesMove, Ticket
    <3>3. QED
      BY <3>1, <3>2 DEF RowsMove
  <2>3. CASE \E t \in Thread : call'[t].do = "claim" /\ call'[t].path = p /\ call'[t].fence = f /\ By(t) = w
    <3>1. PICK t \in Thread : call'[t].do = "claim" /\ call'[t].path = p /\ call'[t].fence = f /\ By(t) = w
      BY <2>3
    <3>2. CASE call'[t] = call[t]
      BY <3>1, <3>2 DEF Ticket
    <3>3. CASE Holds(By(t), call[t].path, call[t].fence)'
      BY <2>2, <3>1, <3>3, Threads DEF Holds
    <3>4. QED
      BY <3>1, <3>2, <3>3 DEF RowsMove, CallsMove, CallMove
  <2>4. CASE \E o \in Op : p \in op'[o].acquired /\ op'[o].exact[p] = f /\ OwnerOf[o] = w
    BY <1>4, <2>4
  <2>5. QED
    BY <1>7, <2>1, <2>2, <2>3, <2>4 DEF Ticket
<1>8. \A p \in Path : Agree(p)'
  <2> SUFFICES ASSUME NEW p \in Path, NEW f \in Nat \ {0}, NEW v, NEW w, Ticket(p, v, f)', Ticket(p, w, f)'
               PROVE  v = w
    BY DEF Agree
  <2>1. Ticket(p, v, f) \/ (f > srv[p].fence /\ v = srv'[p].owner)
    BY <1>7
  <2>2. Ticket(p, w, f) \/ (f > srv[p].fence /\ w = srv'[p].owner)
    BY <1>7
  <2>3. QED
    BY <1>3, <1>6, <2>1, <2>2 DEF Agree
<1>9. QED
  BY <1>1, <1>2, <1>5, <1>8 DEF RowsGood

-----------------------------------------------------------------------------
(* The steps of the leases.                                                *)

(* A step that leaves the leases as they are.                              *)
LEMMA SameRows ==
    ASSUME RowsGood, UNCHANGED << lease, srv, lapsed, gate, returned, cast >>
    PROVE  LeasesMove
  BY DEF RowsGood, RowTypes, LeasesMove, LeaseMove

(* A step that leaves the requests as they are.                            *)
LEMMA SameCalls ==
    ASSUME RowsGood, UNCHANGED call
    PROVE  CallsMove
  BY DEF RowsGood, RowTypes, CallsMove, CallMove

(* One thread gets a new request.                                          *)
LEMMA CallSet ==
    ASSUME RowsGood, NEW t \in Thread, NEW c \in CallType, call' = [call EXCEPT ![t] = c],
           CallGood(t, c)', c.do = "claim" => Holds(By(t), c.path, c.fence)'
    PROVE  CallsMove
<1>1. call' \in [Thread -> CallType] /\ call'[t] = c /\ \A u \in Thread \ {t} : call'[u] = call[u]
  BY DEF RowsGood, RowTypes
<1>2. CallGood(t, call[t])' /\ (call'[t].do = "claim" => Holds(By(t), call[t].path, call[t].fence)')
  BY <1>1 DEF CallGood, Holds
<1>3. QED
  BY <1>1, <1>2 DEF CallsMove, CallMove

(* One thread's request is over.                                           *)
LEMMA CallIdle ==
    ASSUME RowsGood, NEW t \in Thread, call' = [call EXCEPT ![t] = Idle]
    PROVE  CallsMove
<1>1. Idle \in CallType /\ Idle.do = "none"
  BY DEF Idle, CallType
<1>2. CallGood(t, Idle)'
  BY <1>1 DEF CallGood
<1>3. QED
  BY <1>1, <1>2, CallSet

(* The server's lease of one file changes.                                 *)
LEMMA ServerSet ==
    ASSUME RowsGood, UNCHANGED << lease, lapsed, returned, cast >>, NEW p \in Path,
           srv' \in [Path -> ServerType], \A q \in Path \ {p} : srv'[q] = srv[q],
           gate' \in [Worker -> [Path -> Nat]],
           \A w \in Worker, q \in Path : gate'[w][q] \in {gate[w][q], 0} \/ (q = p /\ gate'[w][q] = srv'[q].fence),
           srv'[p].fence >= srv[p].fence, srv'[p].term >= srv[p].term,
           srv'[p].fence <= srv'[p].term, srv'[p].term <= cast.terms,
           \/ srv'[p].owner = srv[p].owner /\ srv'[p].fence = srv[p].fence
           \/ srv[p].owner \notin Worker /\ (srv'[p].owner = Nobody \/ srv'[p].fence > srv[p].fence)
           \/ /\ srv'[p].owner = Nobody
              /\ srv[p].term <= lapsed[p] \/ srv[p].fence \in returned[p] \/ Dead(p, srv[p].fence)
    PROVE  ServersMove
<1>1. ASSUME NEW q \in Path PROVE ServerMove(q)
  <2>1. /\ srv[q].fence \in Nat /\ srv[q].term \in Nat /\ lapsed[q] \in Nat /\ lapsed'[q] = lapsed[q]
        /\ srv'[q].fence \in Nat /\ srv'[q].term \in Nat /\ cast.terms \in Nat
        /\ RowGood(q) /\ \A w \in Worker : gate[w][q] \in Nat /\ gate'[w][q] \in Nat
    BY DEF RowsGood, RowTypes, ServerType
  <2>2. srv'[q].fence >= srv[q].fence /\ srv'[q].term >= srv[q].term
    BY <2>1
  <2>3. \A w \in Worker : gate'[w][q] <= srv'[q].fence
    <3> TAKE w \in Worker
    <3>1. gate[w][q] <= srv[q].fence
      BY <2>1 DEF RowGood
    <3>2. gate'[w][q] \in {gate[w][q], 0} \/ gate'[w][q] = srv'[q].fence
      OBVIOUS
    <3>3. QED
      BY <2>1, <2>2, <3>1, <3>2
  <2>4. lapsed'[q] <= srv'[q].term
    BY <2>1, <2>2 DEF RowGood
  <2>5. CASE q = p
    BY <2>1, <2>2, <2>3, <2>4, <2>5 DEF ServerMove
  <2>6. CASE q # p
    BY <2>1, <2>2, <2>3, <2>4, <2>6 DEF ServerMove, RowGood
  <2>7. QED
    BY <2>5, <2>6
<1>2. QED
  BY <1>1 DEF ServersMove, RowsGood, RowTypes

(* The server grants or renews a lease, and the answer is on its way.      *)
LEMMA GrantMoves ==
    ASSUME RowsGood, NEW t \in Thread, NEW p \in Path, Grant(t, p),
           UNCHANGED << lease, lapsed, returned, cast >>
    PROVE  RowsMove
<1> DEFINE w == By(t)
           s == srv[p]
<1>1. /\ s \in ServerType /\ s.fence \in Nat /\ s.term \in Nat /\ w \in Worker /\ w \in Owner
      /\ cast.terms \in Nat /\ s.term < cast.terms
      /\ s.fence <= s.term /\ gate \in [Worker -> [Path -> Nat]] /\ srv \in [Path -> ServerType]
  BY Threads DEF RowsGood, RowTypes, ServerType, Grant, RowGood, Owner
<1>2. PICK u \in ServerType :
          /\ srv' = [srv EXCEPT ![p] = u] /\ u.owner = w /\ u.term = s.term + 1 /\ u.fence # 0
          /\ \/ u.fence = s.fence /\ s.owner = w
             \/ u.fence = s.fence + 1 /\ s.owner = Nobody
  <2>1. CASE gate[w][p] # 0 /\ Holds(w, p, gate[w][p]) /\ srv' = [srv EXCEPT ![p].term = @ + 1]
    <3> DEFINE u == [s EXCEPT !.term = s.term + 1]
    <3>1. srv' = [srv EXCEPT ![p] = u] /\ s.owner = w /\ s.fence # 0
      BY <2>1 DEF Holds
    <3> HIDE DEF s
    <3>2. u \in ServerType /\ u.owner = s.owner /\ u.fence = s.fence /\ u.term = s.term + 1
      BY <1>1 DEF ServerType
    <3>3. QED
      BY <3>1, <3>2
  <2>2. CASE /\ s.owner = Nobody
             /\ srv' = [srv EXCEPT ![p] = [owner |-> w, fence |-> @.fence + 1, term |-> @.term + 1]]
    <3> DEFINE u == [owner |-> w, fence |-> s.fence + 1, term |-> s.term + 1]
    <3>1. srv' = [srv EXCEPT ![p] = u]
      BY <2>2
    <3> HIDE DEF s
    <3>2. u \in ServerType /\ u.owner = w /\ u.fence = s.fence + 1 /\ u.term = s.term + 1
          /\ u.fence # 0
      BY <1>1 DEF ServerType
    <3> HIDE DEF u
    <3>3. QED
      BY <1>1, <2>2, <3>1, <3>2
  <2>3. QED
    BY <2>1, <2>2 DEF Grant
<1>3. srv' \in [Path -> ServerType] /\ srv'[p] = u /\ \A q \in Path \ {p} : srv'[q] = srv[q]
  BY <1>1, <1>2
<1>4. u.fence \in Nat /\ u.term \in Nat
  BY DEF ServerType
<1>5. /\ gate' \in [Worker -> [Path -> Nat]]
      /\ \A v \in Worker, q \in Path : gate'[v][q] \in {gate[v][q], 0} \/ (q = p /\ gate'[v][q] = srv'[q].fence)
  BY <1>1, <1>3, <1>4 DEF Grant
<1>6. Nobody \notin Worker
  BY Threads
<1>7. ServersMove
  <2>1. /\ u.fence >= s.fence /\ u.term >= s.term /\ u.fence <= u.term /\ u.term <= cast.terms
    BY <1>1, <1>2, <1>4
  <2>2. \/ u.owner = s.owner /\ u.fence = s.fence
        \/ s.owner \notin Worker /\ u.fence > s.fence
    BY <1>1, <1>2, <1>4, <1>6
  <2>3. QED
    BY <1>3, <1>5, <2>1, <2>2, ServerSet
<1>8. CallsMove
  <2>1. PICK d : d = [do |-> "claim", path |-> p, fence |-> u.fence, term |-> u.term, stage |-> "granted"]
    OBVIOUS
  <2>2. /\ d \in CallType /\ d.do = "claim" /\ d.path = p /\ d.fence = u.fence /\ d.term = u.term
    BY <1>4, <2>1 DEF CallType
  <2>3. call' = [call EXCEPT ![t] = d]
    BY <1>3, <2>1 DEF Grant
  <2>4. Holds(w, p, d.fence)'
    BY <1>2, <1>3, <2>2 DEF Holds
  <2>5. CallGood(t, d)'
    <3>1. d.fence \in 1 .. srv'[p].fence /\ d.term <= srv'[p].term
      BY <1>2, <1>3, <1>4, <2>2
    <3>2. QED
      BY <2>2, <2>4, <3>1 DEF CallGood
  <2>6. QED
    BY <2>2, <2>3, <2>4, <2>5, CallSet
<1>9. QED
  BY <1>7, <1>8 DEF RowsMove

(* The lease of the file at the server, with its bounds.                   *)
LEMMA ServerIs ==
    ASSUME RowsGood, NEW p \in Path
    PROVE  /\ srv[p] \in ServerType /\ srv[p].fence \in Nat /\ srv[p].term \in Nat
           /\ cast.terms \in Nat /\ srv[p].fence <= srv[p].term /\ srv[p].term <= cast.terms
           /\ lapsed[p] \in Nat /\ lapsed[p] <= srv[p].term
           /\ gate \in [Worker -> [Path -> Nat]] /\ srv \in [Path -> ServerType]
           /\ lapsed \in [Path -> Nat]
           /\ lease[p].fence \in Nat /\ lease[p].term \in Nat /\ lease[p].active \in BOOLEAN
           /\ lease[p].fence <= srv[p].fence /\ lease[p].term <= srv[p].term
  BY DEF RowsGood, RowTypes, ServerType, LeaseType, RowGood

(* The server's lease ends: it was nobody's or the operator's, its term    *)
(* has lapsed here, it was given back, or it counts no more here.          *)
LEMMA FreedMoves ==
    ASSUME RowsGood, NEW p \in Path, srv' = Freed(p), UNCHANGED << lease, lapsed, returned, cast >>,
           gate' \in [Worker -> [Path -> Nat]],
           \A w \in Worker, q \in Path : gate'[w][q] \in {gate[w][q], 0},
           \/ srv[p].owner \notin Worker
           \/ srv[p].term <= lapsed[p] \/ srv[p].fence \in returned[p] \/ Dead(p, srv[p].fence)
    PROVE  ServersMove
<1> DEFINE s == srv[p]
           u == [s EXCEPT !.owner = Nobody]
<1>1. srv' = [srv EXCEPT ![p] = u]
  BY DEF Freed
<1>2. s \in ServerType /\ s.fence <= s.term /\ s.term <= cast.terms /\ s.fence \in Nat /\ s.term \in Nat
  BY ServerIs
<1> HIDE DEF s
<1>3. u \in ServerType /\ u.owner = Nobody /\ u.fence = s.fence /\ u.term = s.term
  BY <1>2 DEF ServerType
<1> HIDE DEF u
<1>4. srv' \in [Path -> ServerType] /\ srv'[p] = u /\ \A q \in Path \ {p} : srv'[q] = srv[q]
  BY <1>1, <1>3 DEF RowsGood, RowTypes
<1>5. s.fence >= s.fence /\ s.term >= s.term
  BY <1>2
<1>6. QED
  BY <1>2, <1>3, <1>4, <1>5, ServerSet DEF s

(* The gateway renews the lease of a heartbeat.                            *)
LEMMA RenewMoves ==
    ASSUME RowsGood, NEW t \in Thread, Renew(t)
    PROVE  RowsMove
<1> DEFINE p == call[t].path
           f == call[t].fence
           s == srv[p]
           u == [s EXCEPT !.term = s.term + 1]
<1>1. /\ call[t].do = "beat" /\ s.term < cast.terms /\ srv' = [srv EXCEPT ![p].term = @ + 1]
      /\ call' = [call EXCEPT ![t] = [call[t] EXCEPT !.stage = "granted", !.term = srv'[p].term]]
      /\ UNCHANGED << lease, gate, lapsed, returned, cast >>
  BY DEF Renew, rest
<1>2. p \in Path /\ f \in 1 .. s.fence /\ call[t] \in CallType
  BY <1>1 DEF RowsGood, RowTypes, CallGood
<1>3. /\ s \in ServerType /\ s.fence <= s.term /\ s.term < cast.terms /\ s.fence \in Nat /\ s.term \in Nat
      /\ cast.terms \in Nat
  BY <1>1, <1>2, ServerIs
<1>4. srv' = [srv EXCEPT ![p] = u]
  BY <1>1
<1> HIDE DEF s
<1>5. u \in ServerType /\ u.owner = s.owner /\ u.fence = s.fence /\ u.term = s.term + 1
  BY <1>3 DEF ServerType
<1> HIDE DEF u, p
<1>6. srv' \in [Path -> ServerType] /\ srv'[p] = u /\ \A q \in Path \ {p} : srv'[q] = srv[q]
  BY <1>2, <1>4, <1>5 DEF RowsGood, RowTypes
<1>7. ServersMove
  <2>1. /\ u.fence >= s.fence /\ u.term >= s.term /\ u.fence <= u.term /\ u.term <= cast.terms
    BY <1>3, <1>5
  <2>2. gate' \in [Worker -> [Path -> Nat]] /\ \A w \in Worker, q \in Path : gate'[w][q] = gate[w][q]
    BY <1>1 DEF RowsGood, RowTypes
  <2>3. QED
    BY <1>1, <1>2, <1>5, <1>6, <2>1, <2>2, ServerSet DEF s
<1>8. CallsMove
  <2>0. PICK n \in Nat : n = u.term
    BY <1>3, <1>5
  <2>1. PICK b \in CallType : b = call[t]
    BY <1>2
  <2>2. PICK d : d = [b EXCEPT !.stage = "granted", !.term = n]
    OBVIOUS
  <2>3. d \in CallType /\ d.do = b.do /\ d.path = b.path /\ d.fence = b.fence /\ d.term = n
    BY <2>2 DEF CallType
  <2>4. call' = [call EXCEPT ![t] = d] /\ d.do = "beat" /\ d.path = p /\ d.fence = f
    BY <1>1, <1>6, <2>0, <2>1, <2>2, <2>3 DEF p
  <2>5. CallGood(t, d)'
    BY <1>2, <1>3, <1>5, <1>6, <2>0, <2>3, <2>4 DEF CallGood
  <2>6. QED
    BY <2>3, <2>4, <2>5, CallSet
<1>9. QED
  BY <1>7, <1>8 DEF RowsMove

(* A heartbeat is refused.                                                 *)
LEMMA RefuseMoves ==
    ASSUME RowsGood, NEW t \in Thread, Refuse(t)
    PROVE  RowsMove
<1>1. /\ call[t].do = "beat" /\ call' = [call EXCEPT ![t] = [call[t] EXCEPT !.stage = "refused"]]
      /\ UNCHANGED << lease, srv, gate, lapsed, returned, cast >>
  BY DEF Refuse, rest
<1>2. PICK b \in CallType : b = call[t]
  BY DEF RowsGood, RowTypes
<1>3. PICK d : d = [b EXCEPT !.stage = "refused"]
  OBVIOUS
<1>4. d \in CallType /\ d.do = "beat" /\ d.path = b.path /\ d.fence = b.fence /\ d.term = b.term
  BY <1>1, <1>2, <1>3 DEF CallType
<1>5. call' = [call EXCEPT ![t] = d] /\ b.do = "beat" /\ CallGood(t, b)
  BY <1>1, <1>2, <1>3 DEF RowsGood
<1>6. CallGood(t, d)'
  BY <1>1, <1>4, <1>5 DEF CallGood
<1>7. QED
  BY <1>1, <1>4, <1>5, <1>6, CallSet, SameRows DEF RowsMove

(* The gateway releases a lease: the request to release it was made only   *)
(* after it ended here, or when its install was refused.                   *)
LEMMA FreeMoves ==
    ASSUME RowsGood, NEW t \in Thread, Free(t)
    PROVE  RowsMove
<1> DEFINE p == call[t].path
           f == call[t].fence
           w == By(t)
<1>0. PICK d : d = [call[t] EXCEPT !.stage = "freed"]
  OBVIOUS
<1>1. /\ call[t].do = "release" /\ UNCHANGED << lease, lapsed, returned, cast, gate >>
      /\ (srv' = Freed(p) /\ Holds(w, p, f)) \/ UNCHANGED srv
      /\ call' = [call EXCEPT ![t] = Idle] \/ call' = [call EXCEPT ![t] = d]
  BY <1>0 DEF Free, rest
<1>2. /\ p \in Path /\ w \in Worker /\ gate \in [Worker -> [Path -> Nat]]
      /\ f \in returned[p] \/ Dead(p, f)
  BY <1>1, Threads DEF RowsGood, RowTypes, CallGood
<1>4. /\ gate' \in [Worker -> [Path -> Nat]] /\ \A v \in Worker, q \in Path : gate'[v][q] \in {gate[v][q], 0}
  BY <1>1, <1>2
<1>5. ServersMove
  <2>1. CASE srv' = Freed(p) /\ Holds(w, p, f)
    BY <1>1, <1>2, <1>4, <2>1, FreedMoves DEF Holds
  <2>2. CASE UNCHANGED srv
    <3>1. /\ srv' \in [Path -> ServerType] /\ srv'[p].fence >= srv[p].fence /\ srv'[p].term >= srv[p].term
          /\ srv'[p].fence <= srv'[p].term /\ srv'[p].term <= cast.terms
      BY <1>2, <2>2, ServerIs
    <3>2. QED
      BY <1>1, <1>2, <1>4, <2>2, <3>1, ServerSet
  <2>3. QED
    BY <1>1, <2>1, <2>2
<1>6. CASE call' = [call EXCEPT ![t] = Idle]
  BY <1>5, <1>6, CallIdle DEF RowsMove
<1>7. CASE call' = [call EXCEPT ![t] = d]
  <2>1. PICK b \in CallType : b = call[t]
    BY DEF RowsGood, RowTypes
  <2>2. d \in CallType /\ d.do = b.do /\ d.path = b.path /\ d.fence = b.fence /\ d.term = b.term
    BY <1>0, <2>1 DEF CallType
  <2>3. b.do = "release" /\ b.path = p /\ CallGood(t, b)
    BY <1>1, <2>1 DEF RowsGood, p
  <2>4. srv'[p].fence = srv[p].fence /\ srv'[p].term = srv[p].term
    BY <1>1, <1>2 DEF Freed, RowsGood, RowTypes, ServerType
  <2>5. CallGood(t, d)'
    BY <1>1, <2>2, <2>3, <2>4 DEF CallGood, Dead
  <2>6. QED
    BY <1>5, <1>7, <2>2, <2>3, <2>5, CallSet DEF RowsMove
<1>8. QED
  BY <1>1, <1>6, <1>7

(* The gateway forgets a lease.                                            *)
LEMMA ForgetMoves ==
    ASSUME RowsGood, NEW t \in Thread, Forget(t)
    PROVE  RowsMove
<1> DEFINE p == call[t].path
           w == By(t)
<1>1. /\ call[t].do = "release" /\ call' = [call EXCEPT ![t] = Idle]
      /\ UNCHANGED << lease, lapsed, returned, cast, srv >> /\ gate' = [gate EXCEPT ![w][p] = 0]
  BY DEF Forget, rest
<1>2. p \in Path /\ w \in Worker /\ gate \in [Worker -> [Path -> Nat]]
  BY <1>1, Threads DEF RowsGood, RowTypes, CallGood
<1>3. CallsMove
  BY <1>1, CallIdle
<1> HIDE DEF p, w
<1>4. /\ gate' \in [Worker -> [Path -> Nat]] /\ \A v \in Worker, q \in Path : gate'[v][q] \in {gate[v][q], 0}
  BY <1>1, <1>2
<1>5. /\ srv' \in [Path -> ServerType] /\ srv'[p].fence >= srv[p].fence /\ srv'[p].term >= srv[p].term
      /\ srv'[p].fence <= srv'[p].term /\ srv'[p].term <= cast.terms
  BY <1>1, <1>2, ServerIs
<1>6. ServersMove
  BY <1>1, <1>2, <1>4, <1>5, ServerSet
<1>7. QED
  BY <1>3, <1>6 DEF RowsMove

(* A deadline passes here, or the server's lease expires.                  *)
LEMMA TimeMoves ==
    ASSUME RowsGood, NEW p \in Path, Lapse(p) \/ Expire(p)
    PROVE  RowsMove
<1>1. CallsMove
  BY SameCalls DEF Lapse, Expire
<1>2. CASE Lapse(p)
  <2>1. /\ lapsed[p] < srv[p].term /\ lapsed' = [lapsed EXCEPT ![p] = lapsed[p] + 1]
        /\ UNCHANGED << lease, srv, gate, returned, cast >>
    BY <1>2 DEF Lapse, rest
  <2>2. lapsed' \in [Path -> Nat] /\ lapsed'[p] = lapsed[p] + 1 /\ \A q \in Path \ {p} : lapsed'[q] = lapsed[q]
    BY <2>1 DEF RowsGood, RowTypes
  <2>3. ASSUME NEW q \in Path PROVE ServerMove(q)
    <3>1. RowGood(q) /\ lapsed'[q] >= lapsed[q] /\ lapsed'[q] <= srv[q].term
      BY <2>1, <2>2, ServerIs DEF RowsGood
    <3>2. srv[q].fence >= srv[q].fence /\ srv[q].term >= srv[q].term
      BY ServerIs
    <3>3. QED
      BY <2>1, <3>1, <3>2 DEF ServerMove, RowGood
  <2>4. ServersMove
    BY <2>1, <2>2, <2>3 DEF ServersMove, RowsGood, RowTypes
  <2>5. QED
    BY <1>1, <2>4 DEF RowsMove
<1>3. CASE Expire(p)
  <2>1. /\ srv[p].term <= lapsed[p] /\ srv' = Freed(p)
        /\ UNCHANGED << lease, lapsed, gate, returned, cast >>
    BY <1>3 DEF Expire, rest
  <2>2. gate' \in [Worker -> [Path -> Nat]] /\ \A w \in Worker, q \in Path : gate'[w][q] = gate[w][q]
    BY <2>1, ServerIs
  <2>3. QED
    BY <1>1, <2>1, <2>2, FreedMoves DEF RowsMove
<1>4. QED
  BY <1>2, <1>3

(* The root operator takes a lease of the server or gives it back.         *)
LEMMA RootMoves ==
    ASSUME RowsGood, NEW m \in Removal, NEW p \in Path, RootClaim(m, p) \/ RootRelease(m, p)
    PROVE  RowsMove
<1>1. CallsMove
  BY SameCalls DEF RootClaim, RootRelease
<1>2. /\ UNCHANGED << lease, lapsed, gate, returned, cast >> /\ m \notin Worker /\ m \in Owner
      /\ gate' \in [Worker -> [Path -> Nat]] /\ \A w \in Worker, q \in Path : gate'[w][q] = gate[w][q]
      /\ Nobody \notin Worker
  BY ServerIs, Threads DEF RootClaim, RootRelease, rest, Owner
<1>3. CASE RootClaim(m, p)
  <2> DEFINE s == srv[p]
             u == [owner |-> m, fence |-> s.fence + 1, term |-> s.term + 1]
  <2>1. srv' = [srv EXCEPT ![p] = u] /\ s.owner = Nobody /\ s.term < cast.terms
    BY <1>3 DEF RootClaim
  <2>2. s.fence \in Nat /\ s.term \in Nat /\ s.fence <= s.term /\ cast.terms \in Nat
    BY ServerIs
  <2> HIDE DEF s
  <2>3. u \in ServerType /\ u.fence = s.fence + 1 /\ u.term = s.term + 1
    BY <1>2, <2>2 DEF ServerType
  <2> HIDE DEF u
  <2>4. srv' \in [Path -> ServerType] /\ srv'[p] = u /\ \A q \in Path \ {p} : srv'[q] = srv[q]
    BY <2>1, <2>3 DEF RowsGood, RowTypes
  <2>5. u.fence > s.fence /\ u.fence >= s.fence /\ u.term >= s.term /\ u.fence <= u.term /\ u.term <= cast.terms
    BY <2>1, <2>2, <2>3
  <2>6. ServersMove
    BY <1>2, <2>1, <2>4, <2>5, ServerSet DEF s
  <2>7. QED
    BY <1>1, <2>6 DEF RowsMove
<1>4. CASE RootRelease(m, p)
  <2>1. srv' = Freed(p) /\ srv[p].owner = m
    BY <1>4 DEF RootRelease
  <2>2. QED
    BY <1>1, <1>2, <2>1, FreedMoves DEF RowsMove
<1>5. QED
  BY <1>3, <1>4

(* The row of one file changes.                                            *)
LEMMA LeaseSet ==
    ASSUME RowsGood, UNCHANGED << srv, lapsed, gate, returned, cast >>, NEW p \in Path,
           NEW k \in LeaseType, lease' = [lease EXCEPT ![p] = k], LeaseMove(p)
    PROVE  LeasesMove
<1>1. lease' \in [Path -> LeaseType] /\ \A q \in Path \ {p} : lease'[q] = lease[q]
  BY DEF RowsGood, RowTypes
<1>2. QED
  BY <1>1 DEF LeasesMove, LeaseMove, RowsGood, RowTypes

(* A grant is installed, and then it is the server's lease or was given    *)
(* back; or it is refused, and given back or left to a release.            *)
LEMMA InstallMoves ==
    ASSUME RowsGood, NEW t \in Thread, call[t].do = "claim", UNCHANGED << srv, lapsed, gate, cast >>,
           \/ /\ Installable(By(t), call[t].path, call[t].fence, call[t].term) /\ UNCHANGED returned
              /\ lease' = [lease EXCEPT ![call[t].path] = Lease(By(t), call[t].fence, call[t].term)]
           \/ GivenBack(call[t].path, call[t].fence) /\ UNCHANGED lease
           \/ UNCHANGED << lease, returned >>
    PROVE  LeasesMove
<1> DEFINE p == call[t].path
           f == call[t].fence
           w == By(t)
           k == Lease(w, f, call[t].term)
<1>1. /\ p \in Path /\ f \in 1 .. srv[p].fence /\ f \in Nat /\ call[t].term <= srv[p].term
      /\ call[t].term \in Nat /\ w \in Worker /\ w \in Owner /\ Ticket(p, w, f)
  BY Threads DEF RowsGood, RowTypes, CallGood, CallType, Ticket, Owner
<1>2. CASE Installable(w, p, f, call[t].term) /\ UNCHANGED returned /\ lease' = [lease EXCEPT ![p] = k]
  <2>1. k \in LeaseType /\ k.owner = w /\ k.fence = f /\ k.term = call[t].term
    BY <1>1 DEF LeaseType, Lease
  <2>2. lease'[p] = k
    BY <1>1, <1>2 DEF RowsGood, RowTypes
  <2>3. ~Dead(p, f) /\ call[t].term > lapsed[p]
    BY <1>1, <1>2, ServerIs DEF Installable, Held, Dead
  <2>4. Holds(w, p, f) \/ f \in returned[p]
    BY <2>3 DEF RowsGood, CallGood
  <2> HIDE DEF k
  <2>5. LeaseMove(p)
    BY <1>1, <1>2, <2>1, <2>2, <2>4 DEF LeaseMove, Installable
  <2>6. QED
    BY <1>1, <1>2, <2>1, <2>5, LeaseSet
<1>3. CASE GivenBack(p, f) /\ UNCHANGED lease
  <2>1. /\ returned' \in [Path -> SUBSET Nat] /\ returned'[p] = returned[p] \cup {f}
        /\ \A q \in Path \ {p} : returned'[q] = returned[q]
    BY <1>1, <1>3 DEF GivenBack, RowsGood, RowTypes
  <2>2. f \in 0 .. srv[p].fence
    BY <1>1
  <2>3. QED
    BY <1>3, <2>1, <2>2 DEF LeasesMove, LeaseMove, RowsGood, RowTypes
<1>4. CASE UNCHANGED << lease, returned >>
  BY <1>4, SameRows
<1>5. QED
  BY <1>2, <1>3, <1>4

(* A lease that is ended here counts no more.                              *)
LEMMA DeactivatedMoves ==
    ASSUME RowsGood, UNCHANGED << srv, lapsed, gate, returned, cast >>, NEW p \in Path, NEW w, NEW f,
           lease' = Deactivated(w, p, f)
    PROVE  /\ LeasesMove /\ lease'[p].fence = lease[p].fence
           /\ (lease[p].owner = w /\ lease[p].fence = f) => Dead(p, f)'
<1> DEFINE l == lease[p]
           b == l.active /\ ~(l.owner = w /\ l.fence = f)
           k == [l EXCEPT !.active = b]
<1>1. lease' = [lease EXCEPT ![p] = k]
  BY DEF Deactivated
<1>2. l \in LeaseType
  BY DEF RowsGood, RowTypes
<1>3. b \in BOOLEAN
  OBVIOUS
<1>4. (l.owner = w /\ l.fence = f) => ~b
  OBVIOUS
<1>5. b => l.active
  OBVIOUS
<1> HIDE DEF l, b
<1>6. k \in LeaseType /\ k.owner = l.owner /\ k.fence = l.fence /\ k.term = l.term /\ k.active = b
  BY <1>2, <1>3 DEF LeaseType
<1>7. b => k = l
  <2> SUFFICES ASSUME b PROVE k = l
    OBVIOUS
  <2>1. l.active /\ b = TRUE /\ l.active = TRUE
    BY <1>2, <1>3, <1>5 DEF LeaseType
  <2>2. QED
    BY <1>2, <2>1 DEF LeaseType
<1> HIDE DEF k
<1>8. lease'[p] = k
  BY <1>1 DEF RowsGood, RowTypes
<1>9. LeaseMove(p)
  BY <1>6, <1>7, <1>8 DEF LeaseMove, l
<1>10. LeasesMove
  BY <1>1, <1>6, <1>9, LeaseSet
<1>11. QED
  BY <1>4, <1>6, <1>8, <1>10 DEF Dead, l

(* A heartbeat ends: the lease is renewed if it is still held, and ended   *)
(* if the heartbeat was refused.                                           *)
LEMMA RenewedMoves ==
    ASSUME RowsGood, NEW t \in Thread, call[t].do = "beat", lease' = Renewed(t),
           UNCHANGED << srv, lapsed, gate, returned, cast >>
    PROVE  LeasesMove
<1> DEFINE p == call[t].path
           f == call[t].fence
           w == By(t)
<1>1. /\ p \in Path /\ f \in 1 .. srv[p].fence /\ call[t].term <= srv[p].term
      /\ call[t].term \in Nat /\ w \in Worker /\ w \in Owner
  BY Threads DEF RowsGood, RowTypes, CallGood, CallType, Owner
<1>2. CASE lease' = Deactivated(w, p, f)
  BY <1>1, <1>2, DeactivatedMoves
<1>3. CASE lease' = lease
  BY <1>3, SameRows
<1>4. CASE Held(w, p, f) /\ lease' = [lease EXCEPT ![p].term = call[t].term]
  <2> DEFINE n == call[t].term
             l == lease[p]
             k == [l EXCEPT !.term = n]
  <2>1. lease' = [lease EXCEPT ![p] = k] /\ l \in LeaseType /\ n \in Nat
    BY <1>1, <1>4 DEF RowsGood, RowTypes
  <2>2. l.owner = w /\ l.fence = f /\ l.active /\ l.term > lapsed[p] /\ RowGood(p)
    BY <1>1, <1>4 DEF Held, RowsGood
  <2>3. Holds(w, p, f) \/ f \in returned[p]
    BY <1>1, <2>2 DEF RowGood
  <2>4. Ticket(p, w, f)
    BY <2>2 DEF Ticket
  <2> HIDE DEF l, n
  <2>5. k \in LeaseType /\ k.owner = l.owner /\ k.fence = l.fence /\ k.term = n
    BY <2>1 DEF LeaseType
  <2> HIDE DEF k
  <2>6. lease'[p] = k
    BY <1>1, <2>1 DEF RowsGood, RowTypes
  <2>7. LeaseMove(p)
    BY <1>1, <1>4, <2>2, <2>3, <2>4, <2>5, <2>6 DEF LeaseMove, n
  <2>8. QED
    BY <1>1, <2>1, <2>5, <2>7, LeaseSet
<1>5. QED
  BY <1>2, <1>3, <1>4 DEF Renewed

(* The operator's grants are installed together.                           *)
LEMMA InstallAllMoves ==
    ASSUME RowsGood, NEW m \in Removal, NEW P \in SUBSET Path, Granted(m, P), InstallAll(m, P),
           UNCHANGED << srv, lapsed, gate, returned, cast >>
    PROVE  LeasesMove
<1>1. m \in Owner /\ m \notin Worker /\ m # Nobody
  BY Threads, AdapterAssumption DEF Owner
<1>2. ASSUME NEW p \in Path
      PROVE  lease'[p] \in LeaseType /\ LeaseMove(p)
  <2>1. CASE p \notin P
    BY <2>1 DEF InstallAll, LeaseMove, RowsGood, RowTypes
  <2>2. CASE p \in P
    <3> DEFINE k == Lease(m, srv[p].fence, srv[p].term)
    <3>1. lease'[p] = k
      BY <2>2 DEF InstallAll
    <3>2. k \in LeaseType /\ k.owner = m /\ k.fence = srv[p].fence /\ k.term = srv[p].term
      BY <1>1, ServerIs DEF LeaseType, Lease
    <3>3. srv[p].owner = m /\ (srv[p].fence > lease[p].fence \/ Held(m, p, srv[p].fence))
      BY <2>2 DEF Granted, Installable
    <3>4. srv[p].fence \in 1 .. srv[p].fence /\ srv[p].term <= srv[p].term
      BY <3>3, ServerIs DEF Held, RowsGood, RowGood
    <3>5. Ticket(p, m, srv[p].fence)
      BY <1>1, <3>3 DEF Ticket
    <3> HIDE DEF k
    <3>6. QED
      BY <1>1, <3>1, <3>2, <3>3, <3>4, <3>5 DEF LeaseMove
  <2>3. QED
    BY <2>1, <2>2
<1>3. lease' \in [Path -> LeaseType]
  BY <1>2 DEF InstallAll
<1>4. QED
  BY <1>2, <1>3 DEF LeasesMove, RowsGood, RowTypes

(* A heartbeat or a release is sent.                                       *)
LEMMA SendMoves ==
    ASSUME RowsGood, NEW t \in Thread, NEW do \in {"beat", "release"}, NEW p \in Path, NEW f,
           f \in 1 .. srv[p].fence, Send(t, do, p, f), LeasesMove,
           do = "release" => f \in returned'[p] \/ Dead(p, f)'
    PROVE  RowsMove
<1>1. f \in Nat /\ UNCHANGED srv /\ srv[p].term \in Nat
  BY ServerIs DEF LeasesMove
<1>2. PICK c : c = [Idle EXCEPT !.do = do, !.path = p, !.fence = f, !.stage = "sent"]
  OBVIOUS
<1>3. c \in CallType /\ c.do = do /\ c.path = p /\ c.fence = f /\ c.term = 0
  BY <1>1, <1>2 DEF Idle, CallType
<1>4. call' = [call EXCEPT ![t] = c]
  BY <1>2 DEF Send
<1>5. CallGood(t, c)'
  BY <1>1, <1>3 DEF CallGood
<1>6. QED
  BY <1>3, <1>4, <1>5, CallSet DEF RowsMove

(* An active lease has a fence the server gave out.                        *)
LEMMA HeldFence ==
    ASSUME RowsGood, NEW p \in Path, lease[p].active
    PROVE  lease[p].fence \in 1 .. srv[p].fence
  BY ServerIs DEF RowsGood, RowGood

(* The requests of a worker keep the leases in order.                      *)
LEMMA ControlMoves ==
    ASSUME RowsGood, NEW w \in Worker, Control(w)
    PROVE  RowsMove
<1>0. w \in Thread /\ By(w) = w
  BY Threads
<1>1. CASE ClaimInstall(w)
  <2> DEFINE p == call[w].path
             f == call[w].fence
  <2>1. call[w].do = "claim" /\ UNCHANGED << srv, lapsed, gate, cast >>
    BY <1>1 DEF ClaimInstall
  <2>2. CASE /\ Installable(w, p, f, call[w].term) /\ UNCHANGED returned
             /\ lease' = [lease EXCEPT ![p] = Lease(w, f, call[w].term)]
             /\ call' = [call EXCEPT ![w] = Idle]
    BY <1>0, <2>1, <2>2, InstallMoves, CallIdle DEF RowsMove
  <2>3. CASE Send(w, "release", p, f) /\ GivenBack(p, f) /\ UNCHANGED lease
    <3>1. LeasesMove
      BY <1>0, <2>1, <2>3, InstallMoves
    <3>2. p \in Path /\ f \in 1 .. srv[p].fence
      BY <1>0, <2>1 DEF RowsGood, CallGood
    <3>3. f \in returned'[p]
      BY <2>3, <3>2 DEF GivenBack, RowsGood, RowTypes
    <3>4. QED
      BY <1>0, <2>3, <3>1, <3>2, <3>3, SendMoves
  <2>4. QED
    BY <1>1, <2>2, <2>3 DEF ClaimInstall
<1>2. CASE HeartbeatEnds(w)
  <2>1. /\ call[w].do = "beat" /\ lease' = Renewed(w) /\ call' = [call EXCEPT ![w] = Idle]
        /\ UNCHANGED << srv, lapsed, gate, returned, cast >>
    BY <1>2 DEF HeartbeatEnds, rest
  <2>2. QED
    BY <1>0, <2>1, RenewedMoves, CallIdle DEF RowsMove
<1>3. CASE AnswerLost(w)
  <2>1. /\ call' = [call EXCEPT ![w] = Idle] /\ UNCHANGED << srv, lapsed, gate, returned, cast >>
        /\ \/ call[w].do = "beat" /\ lease' = Deactivated(w, call[w].path, call[w].fence)
           \/ lease' = lease
    BY <1>3 DEF AnswerLost
  <2>2. call[w].do = "beat" => call[w].path \in Path
    BY <1>0 DEF RowsGood, CallGood
  <2>3. LeasesMove
    BY <2>1, <2>2, DeactivatedMoves, SameRows
  <2>4. QED
    BY <1>0, <2>1, <2>3, CallIdle DEF RowsMove
<1>4. ASSUME NEW p \in Path, Claim(w, p) PROVE RowsMove
  BY <1>0, <1>4, GrantMoves DEF Claim
<1>5. ASSUME NEW p \in Path, Heartbeat(w, p) PROVE RowsMove
  <2>1. /\ lease[p].active /\ Send(w, "beat", p, lease[p].fence)
        /\ UNCHANGED << lease, srv, lapsed, gate, returned, cast >>
    BY <1>5 DEF Heartbeat, Held
  <2>2. QED
    BY <1>0, <2>1, SameRows, HeldFence, SendMoves
<1>6. ASSUME NEW p \in Path, Release(w, p) PROVE RowsMove
  <2> DEFINE f == lease[p].fence
  <2>1. /\ lease[p].active /\ lease[p].owner = w /\ lease' = Deactivated(w, p, f)
        /\ Send(w, "release", p, f) /\ UNCHANGED << srv, lapsed, gate, returned, cast >>
    BY <1>6 DEF Release
  <2>2. PICK g : g = f
    OBVIOUS
  <2>3. LeasesMove /\ Dead(p, g)'
    BY <2>1, <2>2, DeactivatedMoves
  <2>4. g \in 1 .. srv[p].fence
    BY <2>1, <2>2, HeldFence
  <2>5. QED
    BY <1>0, <2>1, <2>2, <2>3, <2>4, SendMoves
<1>7. QED
  BY <1>1, <1>2, <1>3, <1>4, <1>5, <1>6 DEF Control

(* The answers of the gateway keep the leases in order.                    *)
LEMMA GatewayMoves ==
    ASSUME RowsGood, NEW t \in Thread, Gateway(t)
    PROVE  RowsMove
  BY RenewMoves, RefuseMoves, FreeMoves, ForgetMoves DEF Gateway

(* The operations of a worker keep the leases in order. A project releases *)
(* what it acquired only after it ended here: its fence is its owner's, so *)
(* the row of that fence is deactivated.                                   *)
LEMMA WorkMoves ==
    ASSUME RowsGood, OpsGood, NEW o \in Op \ Removal, StartAny(o) \/ Progress(o) \/ Command(o)
    PROVE  RowsMove
<1> DEFINE w == OwnerOf[o]
<1>0. o \in Thread /\ By(o) = w /\ w \in Worker
  BY Threads
<1>1. CASE UNCHANGED << lease, srv, lapsed, gate, call, rest >>
  BY <1>1, SameRows, SameCalls DEF rest, RowsMove
<1>2. CASE StartAny(o)
  BY <1>1, <1>2 DEF StartAny, Start
<1>3. CASE Command(o)
  BY <1>1, <1>3 DEF Command, List, Look, Edit, Move
<1>4. CASE \/ ToolStage(o) \/ Pin(o) \/ CommandFails(o) \/ CommandExits(o) \/ PublishStaged(o)
           \/ Freeze(o) \/ ProjectClaimed(o) \/ ProjectDenied(o) \/ PublishProject(o) \/ ProjectDone(o)
  BY <1>1, <1>4 DEF ToolStage, Pin, CommandFails, CommandExits, PublishStaged, Freeze,
                    ProjectClaimed, ProjectDenied, PublishProject, ProjectDone
<1>5. CASE ProjectInstall(o)
  <2>1. /\ call[o].do = "claim" /\ UNCHANGED << srv, lapsed, gate, cast >>
        /\ call' = [call EXCEPT ![o] = Idle]
    BY <1>5 DEF ProjectInstall
  <2>2. LeasesMove
    BY <1>0, <1>5, <2>1, InstallMoves DEF ProjectInstall
  <2>3. QED
    BY <1>0, <2>1, <2>2, CallIdle DEF RowsMove
<1>6. CASE OpHeartbeatEnds(o)
  <2>1. /\ call[o].do = "beat" /\ lease' = Renewed(o) /\ call' = [call EXCEPT ![o] = Idle]
        /\ UNCHANGED << srv, lapsed, gate, returned, cast >>
    BY <1>6 DEF OpHeartbeatEnds, rest
  <2>2. QED
    BY <1>0, <2>1, RenewedMoves, CallIdle DEF RowsMove
<1>7. CASE OpAnswerLost(o)
  <2>1. /\ call' = [call EXCEPT ![o] = Idle] /\ UNCHANGED << srv, lapsed, gate, returned, cast >>
        /\ \/ call[o].do = "beat" /\ lease' = Deactivated(w, call[o].path, call[o].fence)
           \/ lease' = lease
    BY <1>7 DEF OpAnswerLost
  <2>2. call[o].do = "beat" => call[o].path \in Path
    BY <1>0 DEF RowsGood, CallGood
  <2>3. LeasesMove
    BY <2>1, <2>2, DeactivatedMoves, SameRows
  <2>4. QED
    BY <1>0, <2>1, <2>3, CallIdle DEF RowsMove
<1>8. ASSUME NEW p \in Path, ProjectClaim(o, p) PROVE RowsMove
  <2>1. CASE UNCHANGED << call, gate, srv >>
    BY <1>1, <1>8, <2>1 DEF ProjectClaim
  <2>2. CASE Grant(o, p)
    BY <1>0, <1>8, <2>2, GrantMoves DEF ProjectClaim, rest
  <2>3. QED
    BY <1>8, <2>1, <2>2 DEF ProjectClaim
<1>9. ASSUME NEW p \in Path, OpHeartbeat(o, p) PROVE RowsMove
  <2>1. /\ lease[p].active /\ Send(o, "beat", p, lease[p].fence)
        /\ UNCHANGED << lease, srv, lapsed, gate, returned, cast >>
    BY <1>9 DEF OpHeartbeat, Held, rest
  <2>2. QED
    BY <1>0, <2>1, SameRows, HeldFence, SendMoves
<1>10. ASSUME NEW p \in Path, ProjectRelease(o, p) PROVE RowsMove
  <2> DEFINE f == op[o].exact[p]
  <2>1. /\ lease' = Deactivated(w, p, f) /\ Send(o, "release", p, f)
        /\ UNCHANGED << srv, lapsed, gate, returned, cast >> /\ p = Least(op[o].acquired)
    BY <1>10 DEF ProjectRelease, rest
  <2>2. p \in op[o].acquired
    <3>1. CASE op[o].acquired = {}
      BY <2>1, <3>1, AdapterAssumption DEF Least
    <3>2. CASE op[o].acquired # {}
      BY <2>1, <3>2 DEF Least
    <3>3. QED
      BY <3>1, <3>2
  <2>3. /\ f \in 1 .. srv[p].fence /\ (f \in returned[p] \/ lease[p].fence >= f)
        /\ Ticket(p, w, f) /\ Agree(p) /\ f \in Nat \ {0}
    BY <2>2, ServerIs DEF RowsGood, AcqGood, Ticket
  <2>4. PICK g : g = f
    OBVIOUS
  <2>5. /\ LeasesMove /\ lease'[p].fence = lease[p].fence
        /\ (lease[p].owner = w /\ lease[p].fence = g) => Dead(p, g)'
    BY <2>1, <2>4, DeactivatedMoves
  <2>6. lease[p].fence = g => lease[p].owner = w
    <3>1. Ticket(p, lease[p].owner, lease[p].fence)
      BY DEF Ticket
    <3>2. QED
      BY <2>3, <2>4, <3>1 DEF Agree
  <2>7. g \in returned'[p] \/ Dead(p, g)'
    <3>1. lease[p].fence > g => Dead(p, g)'
      BY <2>5 DEF Dead
    <3>2. lease[p].fence \in Nat /\ g \in Nat
      BY <2>3, <2>4, ServerIs
    <3>3. QED
      BY <2>1, <2>3, <2>4, <2>5, <2>6, <3>1, <3>2
  <2>8. QED
    BY <1>0, <2>1, <2>3, <2>4, <2>5, <2>7, SendMoves
<1>11. QED
  BY <1>2, <1>3, <1>4, <1>5, <1>6, <1>7, <1>8, <1>9, <1>10 DEF Progress

(* A removal keeps the leases in order.                                    *)
LEMMA RemoveMoves ==
    ASSUME RowsGood, OpsGood, NEW m \in Removal, Remove(m)
    PROVE  RowsMove
<1>1. CASE RemovalCommit(m)
  <2>1. /\ Granted(m, op[m].paths) /\ InstallAll(m, op[m].paths)
        /\ UNCHANGED << srv, lapsed, gate, call, returned, cast >>
    BY <1>1 DEF RemovalCommit, rest
  <2>2. op[m].paths \in SUBSET Path
    BY DEF OpsGood, OpType, Removal
  <2>3. QED
    BY <2>1, <2>2, InstallAllMoves, SameCalls DEF RowsMove
<1>2. CASE RemovalAbort(m) \/ RemovalRelease(m)
  BY <1>2, SameRows, SameCalls DEF RemovalAbort, RemovalRelease, rest, RowsMove
<1>3. CASE \E p \in Path : RootClaim(m, p) \/ RootRelease(m, p)
  BY <1>3, RootMoves
<1>4. ASSUME NEW P \in (SUBSET Path) \ {{}}, Prepare(m, P) PROVE RowsMove
  <2>1. /\ Granted(m, P) /\ InstallAll(m, P)
        /\ UNCHANGED << srv, lapsed, gate, call, returned, cast >>
    BY <1>4 DEF Prepare, rest
  <2>2. QED
    BY <2>1, InstallAllMoves, SameCalls DEF RowsMove
<1>5. QED
  BY <1>1, <1>2, <1>3, <1>4 DEF Remove

(* After a restart no lease is active, and no request is on its way.       *)
LEMMA RestartRows ==
    ASSUME RowsGood, Restart, \A o \in Op : op'[o].acquired = {}
    PROVE  RowsGood'
<1>1. /\ lease' = [p \in Path |-> [lease[p] EXCEPT !.active = FALSE]]
      /\ gate' = [w \in Worker |-> NoClaims] /\ call' = [t \in Thread |-> Idle]
      /\ UNCHANGED << lapsed, returned, cast >>
  BY DEF Restart
<1>2. \/ srv' = [p \in Path |-> IF \E w \in Worker : gate[w][p] # 0 /\ Holds(w, p, gate[w][p])
                                THEN [srv[p] EXCEPT !.owner = Nobody] ELSE srv[p]]
      \/ srv' = srv
  BY DEF Restart
<1>3. ASSUME NEW p \in Path
      PROVE  /\ lease'[p] \in LeaseType /\ lease'[p].owner = lease[p].owner /\ ~lease'[p].active
             /\ lease'[p].fence = lease[p].fence /\ lease'[p].term = lease[p].term
  <2>1. PICK l \in LeaseType : l = lease[p]
    BY DEF RowsGood, RowTypes
  <2>2. lease'[p] = [l EXCEPT !.active = FALSE]
    BY <1>1, <2>1
  <2>3. QED
    BY <2>1, <2>2 DEF LeaseType
<1>4. ASSUME NEW p \in Path
      PROVE  /\ srv'[p] \in ServerType /\ srv'[p].owner \in {srv[p].owner, Nobody}
             /\ srv'[p].fence = srv[p].fence /\ srv'[p].term = srv[p].term
  <2>1. PICK u \in ServerType : u = srv[p]
    BY DEF RowsGood, RowTypes
  <2>2. srv'[p] = u \/ srv'[p] = [u EXCEPT !.owner = Nobody]
    BY <1>2, <2>1
  <2>3. QED
    BY <2>1, <2>2 DEF ServerType
<1>5. RowTypes'
  <2>1. lease' \in [Path -> LeaseType]
    BY <1>1, <1>3
  <2>2. srv' \in [Path -> ServerType]
    <3>1. CASE srv' = srv
      BY <3>1 DEF RowsGood, RowTypes
    <3>2. CASE srv' # srv
      BY <1>2, <1>4, <3>2
    <3>3. QED
      BY <3>1, <3>2
  <2>3. call' \in [Thread -> CallType] /\ gate' \in [Worker -> [Path -> Nat]]
    BY <1>1 DEF Idle, CallType, NoClaims
  <2>4. QED
    BY <1>1, <2>1, <2>2, <2>3 DEF RowTypes, RowsGood
<1>6. ASSUME NEW p \in Path PROVE RowGood(p)'
  <2>1. \A w \in Worker : gate'[w][p] = 0
    BY <1>1 DEF NoClaims
  <2>2. RowGood(p) /\ srv[p].fence \in Nat
    BY ServerIs DEF RowsGood
  <2>3. QED
    BY <1>1, <1>3, <1>4, <2>1, <2>2 DEF RowGood
<1>7. \A t \in Thread : call'[t].do = "none"
  BY <1>1 DEF Idle
<1>8. ASSUME NEW p \in Path, NEW w, NEW f, Ticket(p, w, f)' PROVE Ticket(p, w, f)
  BY <1>3, <1>4, <1>7, <1>8 DEF Ticket
<1>9. \A p \in Path : Agree(p)'
  BY <1>8 DEF Agree, RowsGood
<1>10. QED
  BY <1>5, <1>6, <1>7, <1>9 DEF RowsGood, CallGood, AcqGood

-----------------------------------------------------------------------------
(* All together.                                                           *)

Counters == asks \in Nat /\ crashes \in Nat /\ lost \in Nat

AdapterInv == FileTypes /\ OpsGood /\ FenceGood /\ RowsGood /\ Counters

(* A file changes only with the lease of it at the server.                 *)
Fenced ==
    \A p \in Path : rev'[p] # rev[p] =>
          \E o \in Op : /\ Running(o) /\ op'[o].st = "applied"
                        /\ srv[p].owner = OwnerOf[o] \/ lease[p].fence \in returned[p]

(* Files that change are those the owner of the applied operation has the  *)
(* lease of.                                                               *)
LEMMA MovesFenced ==
    ASSUME FileTypes, RowsGood, Moves
    PROVE  Fenced
<1> SUFFICES ASSUME NEW p \in Path, rev'[p] # rev[p]
             PROVE  \E o \in Op : /\ Running(o) /\ op'[o].st = "applied"
                                  /\ srv[p].owner = OwnerOf[o] \/ lease[p].fence \in returned[p]
  BY DEF Fenced
<1>1. ~UNCHANGED files
  BY DEF files
<1>2. PICK o \in Op : /\ Running(o) /\ op'[o].st = "applied"
                      /\ \E x \in OpType : Publish(x) /\ \A q \in Changes(x) : Owned(o, q)
  BY <1>1 DEF Moves, FilesMove
<1>3. Owned(o, p)
  BY <1>2, PublishIs
<1>4. CASE OwnerOf[o] \in Worker /\ Held(OwnerOf[o], p, lease[p].fence)
  <2>1. RowGood(p)
    BY DEF RowsGood
  <2>2. QED
    BY <1>2, <1>4, <2>1 DEF RowGood, Held, Holds
<1>5. QED
  BY <1>2, <1>3, <1>4 DEF Owned

(* A prepared removal stays alone while nothing is started.                *)
LEMMA FenceKept ==
    ASSUME FenceGood, NoneStarts, fence' = fence
    PROVE  FenceGood'
<1>1. \A m \in Removal : m \in Op
  BY DEF Removal
<1>2. QED
  BY <1>1 DEF FenceGood, NoneStarts, Alone, Running

(* The operations of a worker, and the fence of a removal.                 *)
LEMMA WorkSteps ==
    ASSUME AdapterInv, NEW o \in Op \ Removal, StartAny(o) \/ Progress(o) \/ Command(o)
    PROVE  Moves /\ FenceGood'
<1>0. OpsGood /\ FileTypes /\ FenceGood /\ RowsGood /\ o \in Thread
  BY Threads DEF AdapterInv
<1>1. CASE OpStep(o) /\ fence' = fence
  BY <1>0, <1>1, OpStepMoves, FenceKept
<1>2. CASE UNCHANGED << files, op, fence >>
  BY <1>0, <1>2, StillMoves, FenceKept
<1>3. CASE StartAny(o)
  <2>1. \A p \in Path : lease[p].fence \in Nat
    BY <1>0, ServerIs
  <2>2. Moves /\ fence = Nobody /\ \A q \in Op \ {o} : Running(q)' => Running(q)
    BY <1>0, <1>3, <2>1, StartMoves
  <2>3. fence' = fence
    BY <1>3 DEF StartAny, Start
  <2>4. \A m \in Removal : ~Running(m)
    BY <1>0, <2>2, AdapterAssumption DEF FenceGood, Owner
  <2>5. \A m \in Removal : m \in Op \ {o}
    BY DEF Removal
  <2>6. QED
    BY <1>0, <2>2, <2>3, <2>4, <2>5 DEF FenceGood
<1>4. CASE Command(o)
  <2>1. fence' = fence
    BY <1>4 DEF Command, List, Look, Edit, Move
  <2>2. QED
    BY <1>0, <1>1, <1>4, <2>1, ListStep, LookStep, EditStep DEF Command
<1>5. CASE Progress(o)
  <2>1. fence' = fence
    BY <1>5 DEF Progress, ToolStage, Pin, CommandFails, CommandExits, PublishStaged, Freeze,
                ProjectInstall, ProjectClaimed, ProjectDenied, OpHeartbeatEnds, PublishProject,
                ProjectDone, OpAnswerLost, ProjectClaim, OpHeartbeat, ProjectRelease
  <2>2. CASE ToolStage(o)
    <3>1. LeaseFences
      BY <1>0 DEF LeaseFences, RowsGood, RowGood
    <3>2. QED
      BY <1>0, <1>1, <2>1, <2>2, <3>1, ToolStageStep
  <2>3. CASE ProjectInstall(o)
    <3>1. /\ call[o].path \in Path /\ call[o].fence \in Nat
          /\ DOMAIN lease = Path /\ returned \in [Path -> SUBSET Nat]
          /\ lease[call[o].path].fence \in Nat
      BY <1>0, <2>3 DEF ProjectInstall, RowsGood, RowTypes, CallGood, CallType, LeaseType
    <3>2. QED
      BY <1>0, <1>1, <2>1, <2>3, <3>1, ProjectInstallStep
  <2>4. CASE \E p \in Path : OpHeartbeat(o, p)
    BY <1>2, <2>4 DEF OpHeartbeat
  <2>5. CASE \/ ProjectClaimed(o) \/ ProjectDenied(o) \/ OpHeartbeatEnds(o) \/ OpAnswerLost(o)
             \/ ProjectDone(o) \/ \E p \in Path : ProjectRelease(o, p)
    BY <1>0, <1>1, <2>1, <2>5, ProjectStep
  <2>6. CASE \/ Pin(o) \/ CommandFails(o) \/ CommandExits(o) \/ PublishStaged(o)
             \/ Freeze(o) \/ PublishProject(o) \/ \E p \in Path : ProjectClaim(o, p)
    BY <1>0, <1>1, <2>1, <2>6, PinStep, CommandEnds, PublishStagedStep, FreezeStep,
       PublishProjectStep, ProjectClaimStep
  <2>7. QED
    BY <1>5, <2>2, <2>3, <2>4, <2>5, <2>6 DEF Progress
<1>6. QED
  BY <1>3, <1>4, <1>5

(* The phases of a removal, and its fence.                                 *)
LEMMA RemoveSteps ==
    ASSUME AdapterInv, NEW m \in Removal, Remove(m)
    PROVE  Moves /\ FenceGood'
<1>0. OpsGood /\ FileTypes /\ FenceGood /\ m \in Op /\ Removal \subseteq Op
  BY DEF AdapterInv, Removal
<1>1. CASE RemovalCommit(m)
  BY <1>0, <1>1, RemovalStep, OpStepMoves, FenceKept DEF RemovalCommit
<1>2. CASE RemovalAbort(m)
  <2>1. Moves /\ NoneStarts /\ fence' = m /\ fence \in {Nobody, m}
    BY <1>0, <1>2, RemovalStep, OpStepMoves DEF RemovalAbort
  <2>2. \A k \in Removal : Running(k) => k = m
    BY <1>0, <2>1, AdapterAssumption DEF FenceGood, Owner
  <2>3. QED
    BY <1>0, <2>1, <2>2 DEF FenceGood, NoneStarts, Alone
<1>3. CASE RemovalRelease(m)
  <2>1. UNCHANGED << files, op >> /\ fence = m /\ ~Running(m) /\ fence' = Nobody
    BY <1>3 DEF RemovalRelease
  <2>2. QED
    BY <1>0, <2>1, StillMoves DEF FenceGood, Running
<1>4. CASE \E p \in Path : RootClaim(m, p) \/ RootRelease(m, p)
  BY <1>0, <1>4, StillMoves, FenceKept DEF RootClaim, RootRelease
<1>5. ASSUME NEW P \in (SUBSET Path) \ {{}}, Prepare(m, P) PROVE Moves /\ FenceGood'
  <2>1. Moves /\ fence' = m /\ Alone(m)'
    BY <1>0, <1>5, PrepareMoves
  <2>2. QED
    BY <1>0, <2>1 DEF FenceGood, Alone
<1>6. QED
  BY <1>1, <1>2, <1>3, <1>4, <1>5 DEF Remove

(* The bounds of the model stay natural numbers.                           *)
LEMMA CountersKept ==
    ASSUME Counters, Next
    PROVE  Counters'
<1>1. CASE \E w \in Worker : Control(w)
  BY <1>1 DEF Control, ClaimInstall, HeartbeatEnds, AnswerLost, Claim, Heartbeat, Release, Ask,
              Counters, rest
<1>2. CASE \E t \in Thread : Gateway(t)
  BY <1>2 DEF Gateway, Renew, Refuse, Free, Forget, Counters, rest
<1>3. CASE \E o \in Op \ Removal : StartAny(o) \/ Command(o)
  <2>1. PICK o \in Op \ Removal : StartAny(o) \/ Command(o)
    BY <1>3
  <2>2. CASE UNCHANGED rest
    BY <2>2 DEF Counters, rest
  <2>3. CASE StartAny(o)
    BY <2>2, <2>3 DEF StartAny, Start
  <2>4. CASE Command(o)
    BY <2>2, <2>4 DEF Command, List, Look, Edit, Move
  <2>5. QED
    BY <2>1, <2>3, <2>4
<1>4. CASE \E o \in Op \ Removal : Progress(o)
  <2>1. PICK o \in Op \ Removal : Progress(o)
    BY <1>4
  <2>2. CASE UNCHANGED << asks, crashes, lost >>
    BY <2>2 DEF Counters
  <2>3. CASE OpAnswerLost(o)
    BY <2>3 DEF OpAnswerLost, Counters
  <2>4. CASE ProjectInstall(o)
    BY <2>2, <2>4 DEF ProjectInstall
  <2>5. CASE ~OpAnswerLost(o) /\ ~ProjectInstall(o)
    <3>1. UNCHANGED rest
      BY <2>1, <2>5 DEF Progress, ToolStage, Pin, CommandFails, CommandExits, PublishStaged, Freeze,
              ProjectClaimed, ProjectDenied, OpHeartbeatEnds, PublishProject,
              ProjectDone, ProjectClaim, OpHeartbeat, ProjectRelease
    <3>2. QED
      BY <2>2, <3>1 DEF rest
  <2>6. QED
    BY <2>3, <2>4, <2>5
<1>5. CASE \E m \in Removal : Remove(m)
  BY <1>5 DEF Remove, RemovalCommit, RemovalAbort, RemovalRelease, RootClaim, RootRelease, Prepare,
              Counters, rest
<1>6. CASE \E p \in Path : Lapse(p) \/ Expire(p)
  BY <1>6 DEF Lapse, Expire, Counters, rest
<1>7. CASE Restart
  BY <1>7 DEF Restart, Counters
<1>8. QED
  BY <1>1, <1>2, <1>3, <1>4, <1>5, <1>6, <1>7 DEF Next

(* Every step keeps the invariant, publishes only what was read as it is,  *)
(* and changes only files whose lease the publisher has.                   *)
LEMMA AdapterStep ==
    ASSUME AdapterInv, [Next]_vars
    PROVE  AdapterInv' /\ Serial /\ Fenced
<1>0. OpsGood /\ FileTypes /\ FenceGood /\ RowsGood /\ Counters
  BY DEF AdapterInv
<1>1. CASE Moves /\ FenceGood' /\ RowsGood' /\ Counters'
  BY <1>0, <1>1, MovesKeep, MovesFenced DEF AdapterInv
<1>2. CASE Moves /\ FenceGood' /\ RowsMove /\ Counters'
  BY <1>0, <1>1, <1>2, RowsKeep
<1>3. CASE UNCHANGED vars
  <2>1. Counters' /\ UNCHANGED << files, op >> /\ fence' = fence /\ RowsMove
    BY <1>0, <1>3, SameRows, SameCalls DEF vars, files, Counters, RowsMove
  <2>2. QED
    BY <1>0, <1>2, <2>1, StillMoves, FenceKept
<1>4. CASE Next
  <2>0. Counters'
    BY <1>0, <1>4, CountersKept
  <2>1. CASE UNCHANGED << files, op, fence >> /\ RowsMove
    BY <1>0, <1>2, <2>0, <2>1, StillMoves, FenceKept
  <2>2. CASE \E w \in Worker : Control(w)
    BY <1>0, <2>1, <2>2, ControlMoves DEF Control, ClaimInstall, HeartbeatEnds, AnswerLost, Claim,
                                          Heartbeat, Release
  <2>3. CASE \E t \in Thread : Gateway(t)
    BY <1>0, <2>1, <2>3, GatewayMoves DEF Gateway, Renew, Refuse, Free, Forget
  <2>4. CASE \E o \in Op \ Removal : StartAny(o) \/ Progress(o) \/ Command(o)
    BY <1>0, <1>2, <2>0, <2>4, WorkMoves, WorkSteps
  <2>5. CASE \E m \in Removal : Remove(m)
    BY <1>0, <1>2, <2>0, <2>5, RemoveMoves, RemoveSteps
  <2>6. CASE \E p \in Path : Lapse(p) \/ Expire(p)
    BY <1>0, <2>1, <2>6, TimeMoves DEF Lapse, Expire
  <2>7. CASE Restart
    <3>1. Moves /\ NoneStarts /\ (\A o \in Op : op'[o].acquired = {}) /\ fence' = fence
      BY <1>0, <2>7, RestartMoves DEF Restart
    <3>2. QED
      BY <1>0, <1>1, <2>0, <2>7, <3>1, RestartRows, FenceKept
  <2>8. QED
    BY <1>4, <2>2, <2>3, <2>4, <2>5, <2>6, <2>7 DEF Next
<1>5. QED
  BY <1>3, <1>4

(* The invariant holds at the start.                                       *)
LEMMA AdapterInit ==
    ASSUME Init
    PROVE  AdapterInv
<1>1. FileTypes
  BY AdapterAssumption DEF Init, FileTypes, Value, Place
<1>2. OpsGood
  <2>1. \A o \in Op : OpGood(o, NoOp)
    BY Settled DEF OpGood, Working, Pinned, NoStaging
  <2>2. op = [o \in Op |-> NoOp]
    BY DEF Init
  <2>3. QED
    BY <2>1, <2>2, Settled DEF OpsGood
<1>3. FenceGood
  BY Settled DEF FenceGood, Running, Init, Removal
<1>4. PICK c \in Casts : /\ cast = [files |-> c.files, terms |-> c.terms]
                         /\ asks = c.asks /\ crashes = c.crashes /\ lost = c.lost
  BY DEF Init
<1>5. cast.terms \in Nat /\ Counters
  BY <1>4, AdapterAssumption DEF Counters
<1>6. /\ lease = [p \in Path |-> [owner |-> Nobody, fence |-> 0, term |-> 0, active |-> FALSE]]
      /\ srv = [p \in Path |-> [owner |-> Nobody, fence |-> 0, term |-> 0]]
      /\ lapsed = NoClaims /\ returned = [p \in Path |-> {}] /\ call = [t \in Thread |-> Idle]
      /\ gate = [w \in Worker |-> NoClaims]
  BY DEF Init
<1>7. RowTypes
  BY <1>5, <1>6 DEF RowTypes, LeaseType, ServerType, CallType, Idle, NoClaims
<1>8. \A p \in Path : RowGood(p)
  BY <1>5, <1>6 DEF RowGood, NoClaims
<1>9. (\A t \in Thread : call[t].do = "none") /\ \A o \in Op : op[o].acquired = {}
  BY <1>6, Settled DEF Idle, Init
<1>10. \A p \in Path : Agree(p)
  BY <1>6, <1>9 DEF Agree, Ticket
<1>11. RowsGood
  BY <1>7, <1>8, <1>9, <1>10 DEF RowsGood, CallGood, AcqGood
<1>12. QED
  BY <1>1, <1>2, <1>3, <1>5, <1>11 DEF AdapterInv

(* The inductive invariant: of the files and operations (OpsGood), of a    *)
(* prepared removal (FenceGood), and of the leases here, at the server and *)
(* on their way (RowsGood).                                                *)
THEOREM AdapterInvariant == Spec => []AdapterInv
<1>1. Init => AdapterInv
  BY AdapterInit
<1>2. AdapterInv /\ [Next]_vars => AdapterInv'
  BY AdapterStep
<1>3. QED
  BY <1>1, <1>2, PTL DEF Spec

(* A settled operation keeps no staging, no dependencies and no view, and  *)
(* a lease is one the server once granted (finish, install).               *)
THEOREM AdapterTypes == Spec => []TypeOK
<1>1. AdapterInv => TypeOK
  <2> SUFFICES ASSUME AdapterInv PROVE TypeOK
    OBVIOUS
  <2>1. OpsGood /\ FileTypes /\ FenceGood /\ RowsGood /\ Counters
    BY DEF AdapterInv
  <2>2. ASSUME NEW p \in Path
        PROVE  /\ lease[p] \in [owner : Owner \cup {Nobody}, fence : 0 .. srv[p].fence,
                                term : 0 .. srv[p].term, active : BOOLEAN]
               /\ srv[p] \in [owner : Owner \cup {Nobody}, fence : 0 .. cast.terms, term : 0 .. cast.terms]
               /\ lapsed[p] \in 0 .. srv[p].term /\ returned[p] \subseteq 0 .. srv[p].fence
    <3>1. lease[p] \in LeaseType /\ srv[p] \in ServerType /\ RowGood(p)
      BY <2>1 DEF RowsGood, RowTypes
    <3>2. /\ lease[p].fence \in 0 .. srv[p].fence /\ lease[p].term \in 0 .. srv[p].term
          /\ srv[p].fence \in 0 .. cast.terms /\ srv[p].term \in 0 .. cast.terms
          /\ lapsed[p] \in 0 .. srv[p].term /\ returned[p] \subseteq 0 .. srv[p].fence
      BY <2>1, <3>1, ServerIs DEF RowGood
    <3>3. QED
      BY <3>1, <3>2 DEF LeaseType, ServerType
  <2>3. ASSUME NEW w \in Worker PROVE gate[w] \in [Path -> 0 .. cast.terms]
    <3>1. gate[w] \in [Path -> Nat]
      BY <2>1 DEF RowsGood, RowTypes
    <3>2. \A p \in Path : gate[w][p] <= cast.terms
      BY <2>1, <3>1, ServerIs DEF RowsGood, RowGood
    <3>3. cast.terms \in Nat
      BY <2>1 DEF RowsGood, RowTypes
    <3>4. QED
      BY <3>1, <3>2, <3>3
  <2>4. ASSUME NEW o \in Op
        PROVE  /\ op[o].st \in {"absent", "running", "applied", "rejected", "aborted"}
               /\ ~Running(o) => /\ op[o].staged = NoStaging /\ op[o].deps = NoDeps
                                 /\ op[o].snap = NoView
    BY <2>1 DEF OpsGood, OpGood, OpType, Statuses, Running
  <2>5. QED
    BY <2>1, <2>2, <2>3, <2>4 DEF TypeOK, FileTypes, FenceGood, Counters, Value, Place
<1>2. QED
  BY <1>1, AdapterInvariant, PTL

(* While a removal is prepared, no other operation is under way (prepare,  *)
(* start).                                                                 *)
THEOREM RemovalsAreExclusive == Spec => []PreparedIsExclusive
<1>1. AdapterInv => PreparedIsExclusive
  BY DEF AdapterInv, FenceGood, PreparedIsExclusive
<1>2. QED
  BY <1>1, AdapterInvariant, PTL

(* Whatever the interleaving of edits, commands, publications, removals    *)
(* and restarts, an operation is applied only when everything it was       *)
(* shown, files and listing, is still so (capture, validate, publish).     *)
THEOREM PublicationIsSerial == Spec => SerialPublication
<1>1. AdapterInv /\ [Next]_vars => [Serial]_vars
  BY AdapterStep
<1>2. QED
  BY <1>1, AdapterInvariant, PTL DEF Spec, SerialPublication, Serial

(* Whatever releases, takeovers, late grants, late renewals, lost answers  *)
(* and restarts happened before, a file changes only while the server's    *)
(* lease of it belongs to the owner of the operation that publishes it,    *)
(* unless a refused install gave that very lease back (authorize, install, *)
(* publish).                                                               *)
THEOREM PublicationIsFenced == Spec => FencedPublication
<1>1. AdapterInv /\ [Next]_vars => [Fenced]_vars
  BY AdapterStep
<1>2. QED
  BY <1>1, AdapterInvariant, PTL DEF Spec, FencedPublication, Fenced

=============================================================================
