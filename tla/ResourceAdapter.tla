--------------------------- MODULE ResourceAdapter ---------------------------
(***************************************************************************)
(* The resource adapter: one supervisor per workspace that publishes the   *)
(* edits of several workers to shared files. A worker claims a file (the   *)
(* grant comes from the server through a gateway), reads it, and starts an *)
(* operation: a tool edit, a native command on a private view of the files *)
(* (run), a command whose claims are taken when it ends (project), or the  *)
(* removal of exact files by the root operator (removal). Every step below *)
(* is one critical section of the store's lock; what happens between two   *)
(* of them, at the gateway or in a command, is a step of its own.          *)
(*                                                                         *)
(* Time is kept per file as terms. Every grant and every renewal of a file *)
(* is a new term, the adapter's deadlines lapse in the order of the terms, *)
(* and the server's lease ends only after the adapter's deadline for it:   *)
(* the clock-skew bound the deployment must keep. The order assumes that   *)
(* the requests for a file name one ttl, as those that use the default do. *)
(***************************************************************************)
EXTENDS Integers, FiniteSets

CONSTANTS
    Worker,     \* the authenticated workers
    Path,       \* the files, all in one directory
    Content,    \* what an operation may write
    Imported,   \* what a file of the seed directory holds
    Seed,       \* the files of the seed directory
    Op,         \* the operations
    OwnerOf,    \* the worker of an operation; a removal is its own owner
    KindOf,     \* "tool", "run", "project" or "removal"
    Casts,      \* which operations take part, with which files, and the bounds
                \* on the terms of a file, the workers' requests, the restarts
                \* and the answers of the gateway that do not arrive
    Nobody, Absent, Same

Root == "root"          \* the directory: its revision guards its membership
Unread == -1            \* no revision was captured
Kinds == {"tool", "run", "project", "removal"}
Removal == { o \in Op : KindOf[o] = "removal" }
Owner == Worker \cup Removal
Thread == Worker \cup (Op \ Removal)
By(t) == IF t \in Worker THEN t ELSE OwnerOf[t]

ASSUME AdapterAssumption ==
    /\ Seed \in SUBSET Path
    /\ KindOf \in [Op -> Kinds]
    /\ \A o \in Op : IF o \in Removal THEN OwnerOf[o] = o ELSE OwnerOf[o] \in Worker
    /\ Worker \cap Op = {}
    /\ Nobody \notin Owner \cup Path
    /\ {Absent, Same, Imported} \cap Content = {}
    /\ Root \notin Path
    /\ \A c \in Casts : {c.terms, c.asks, c.crashes, c.lost} \subseteq Nat

VARIABLES
    val, rev,   \* durable: the files table
    lease,      \* durable: the leases table (fence 0: no row)
    op,         \* the operations table, with each operation's thread
    fence,      \* durable: source_file_removal_fence
    gate,       \* the gateway's leases: the fence it holds per worker and file
    srv,        \* the server's lease per file, with the last fence and term
    lapsed,     \* per file, the last term whose deadline passed here
    call,       \* per thread, its request to the gateway
    returned,   \* history: per file, the fences given back by a refused install
    cast, asks, crashes, lost

vars == << val, rev, lease, op, fence, gate, srv, lapsed, call,
           returned, cast, asks, crashes, lost >>
files == << val, rev >>
rest == << returned, cast, asks, crashes, lost >>

(* The operations that take part, and the files a worker has to do with.   *)
Cast == DOMAIN cast.files
WorksOn(w) == UNION { cast.files[o] : o \in { x \in Cast : OwnerOf[x] = w } }

NoClaims == [p \in Path |-> 0]
NoDeps == [r \in Path \cup {Root} |-> Unread]
NoStaging == [p \in Path |-> Same]
NoView == [val |-> [p \in Path |-> Absent], rev |-> NoDeps]
NoIntent == [do |-> "none", path |-> Nobody, dest |-> Nobody, value |-> Absent]
NoOp == [st |-> "absent", pc |-> "none", claims |-> NoClaims, deps |-> NoDeps,
         snap |-> NoView, staged |-> NoStaging, intent |-> NoIntent,
         paths |-> {}, todo |-> {}, exact |-> NoClaims, acquired |-> {}, outcome |-> "none",
         seen |-> NoDeps, listed |-> {Same}]
Idle == [do |-> "none", path |-> Nobody, fence |-> 0, term |-> 0, stage |-> "none"]

Init ==
    /\ val = [p \in Path |-> IF p \in Seed THEN Imported ELSE Absent]
    /\ rev = [r \in Path \cup {Root} |-> IF r \in Seed \cup {Root} THEN 1 ELSE 0]
    /\ lease = [p \in Path |-> [owner |-> Nobody, fence |-> 0, term |-> 0, active |-> FALSE]]
    /\ op = [o \in Op |-> NoOp]
    /\ fence = Nobody
    /\ gate = [w \in Worker |-> NoClaims]
    /\ srv = [p \in Path |-> [owner |-> Nobody, fence |-> 0, term |-> 0]]
    /\ lapsed = NoClaims /\ returned = [p \in Path |-> {}]
    /\ call = [t \in Thread |-> Idle]
    /\ \E c \in Casts : /\ cast = [files |-> c.files, terms |-> c.terms]
                       /\ asks = c.asks /\ crashes = c.crashes /\ lost = c.lost

-----------------------------------------------------------------------------
(* Store: leases.                                                          *)

(* authorize: the claim is active, not expired, and the caller's.          *)
Held(w, p, f) ==
    /\ lease[p].active /\ lease[p].term > lapsed[p]
    /\ lease[p].owner = w /\ lease[p].fence = f

(* install: the grant has not expired and its fence is newer, or it renews *)
(* the very lease that is held.                                            *)
Installable(w, p, f, t) ==
    t > lapsed[p] /\ (f > lease[p].fence \/ Held(w, p, f))

Lease(w, f, t) == [owner |-> w, fence |-> f, term |-> t, active |-> TRUE]

Deactivated(w, p, f) ==
    [lease EXCEPT ![p].active = @ /\ ~(lease[p].owner = w /\ lease[p].fence = f)]

-----------------------------------------------------------------------------
(* Store: operations.                                                      *)

Running(o) == op[o].st = "running"

(* validate: every claim of the request is held, and everything the        *)
(* operation has read is still current.                                    *)
Authorized(o) == \A p \in Path : op[o].claims[p] # 0 => Held(OwnerOf[o], p, op[o].claims[p])
Current(deps) == \A r \in DOMAIN deps : deps[r] \in {Unread, rev[r]}
Valid(o) == Running(o) /\ Authorized(o) /\ Current(op[o].deps)

(* Mutant of Finish: only the status is written.                           *)
FinishKeepsStaging(o, status) ==
    [op[o] EXCEPT !.st = status, !.pc = "done"]

(* finish: the receipt is written, staging, dependencies and view go.      *)
Finish(o, status) ==
    [NoOp EXCEPT !.st = status, !.pc = "done"]
Settle(o, status) == op' = [op EXCEPT ![o] = Finish(o, status)]

(* source_db: the pinned view of a command, the files otherwise.           *)
Pinned(x) == x.snap # NoView
SourceVal(x) == IF Pinned(x) THEN x.snap.val ELSE val
SourceRev(x) == IF Pinned(x) THEN x.snap.rev ELSE rev
View(x, p) == IF x.staged[p] = Same THEN SourceVal(x)[p] ELSE x.staged[p]

(* Mutant of Captured: the revision published now, not the view's.         *)
CapturedCurrent(x, r) ==
    IF x.deps[r] # Unread THEN x ELSE [x EXCEPT !.deps[r] = rev[r]]

(* capture: the first capture of a path stays.                             *)
Captured(x, r) ==
    IF x.deps[r] # Unread THEN x ELSE [x EXCEPT !.deps[r] = SourceRev(x)[r]]

(* What the operation was really shown, which nothing in the code stores.  *)
Shown(x, p) == IF x.seen[p] # Unread THEN x ELSE [x EXCEPT !.seen[p] = SourceRev(x)[p]]

(* stage: the base is captured, and the directory when the edit adds or    *)
(* removes a name.                                                         *)
Stage(x, p, v) ==
    LET y == Captured(x, p)
        z == IF View(x, p) = Absent \/ v = Absent THEN Captured(y, Root) ELSE y
    IN  [Shown(z, p) EXCEPT !.staged[p] = v]

(* changes: the staged edits that differ from what is published.           *)
Changes(x) == { p \in Path : x.staged[p] \notin {Same, val[p]} }

(* publish: new contents and revisions of the changed files, a new         *)
(* membership revision of the directory if a name came or went.            *)
Publish(x) ==
    LET C == Changes(x)
        moved == \E p \in C : Absent \in {val[p], x.staged[p]}
    IN  /\ val' = [p \in Path |-> IF p \in C THEN x.staged[p] ELSE val[p]]
        /\ rev' = [r \in Path \cup {Root} |->
                     IF r \in C \/ (r = Root /\ moved) THEN rev[r] + 1 ELSE rev[r]]

-----------------------------------------------------------------------------
(* The gateway and the server behind it.                                   *)

Freed(p) == [srv EXCEPT ![p].owner = Nobody]
Holds(w, p, f) == srv[p].owner = w /\ srv[p].fence = f

(* claim: a lease the gateway already has is renewed, otherwise the server *)
(* is asked, without waiting. The answer is on its way to the thread.      *)
Grant(t, p) ==
    LET w == By(t) IN
    /\ srv[p].term < cast.terms
    /\ \/ gate[w][p] # 0 /\ Holds(w, p, gate[w][p]) /\ srv' = [srv EXCEPT ![p].term = @ + 1]
       \/ /\ srv[p].owner = Nobody
          /\ srv' = [srv EXCEPT ![p] = [owner |-> w, fence |-> @.fence + 1, term |-> @.term + 1]]
    /\ gate' = [gate EXCEPT ![w][p] = srv'[p].fence]
    /\ call' = [call EXCEPT ![t] = [do |-> "claim", path |-> p, fence |-> srv'[p].fence,
                                    term |-> srv'[p].term, stage |-> "granted"]]

(* heartbeat: only the lease the gateway holds is renewed.                 *)
Renew(t) ==
    LET c == call[t]  p == c.path IN
    /\ c.do = "beat" /\ c.stage = "sent"
    /\ gate[By(t)][p] = c.fence /\ Holds(By(t), p, c.fence)
    /\ srv[p].term < cast.terms
    /\ srv' = [srv EXCEPT ![p].term = @ + 1]
    /\ call' = [call EXCEPT ![t] = [@ EXCEPT !.stage = "granted", !.term = srv'[p].term]]
    /\ UNCHANGED << files, lease, op, fence, gate, lapsed, rest >>

(* A heartbeat is refused: the lease was lost, or the server cannot be     *)
(* reached.                                                                *)
Refuse(t) ==
    /\ call[t].do = "beat" /\ call[t].stage = "sent"
    /\ call' = [call EXCEPT ![t].stage = "refused"]
    /\ UNCHANGED << files, lease, op, fence, gate, srv, lapsed, rest >>

(* release: the server's lease ends, if it is the one the gateway has.     *)
Free(t) ==
    LET c == call[t]  p == c.path  w == By(t) IN
    /\ c.do = "release" /\ c.stage = "sent"
    /\ IF gate[w][p] = c.fence
       THEN /\ srv' = IF Holds(w, p, c.fence) THEN Freed(p) ELSE srv
            /\ call' = [call EXCEPT ![t].stage = "freed"]
       ELSE /\ call' = [call EXCEPT ![t] = Idle]
            /\ UNCHANGED srv
    /\ UNCHANGED << files, lease, op, fence, gate, lapsed, rest >>

(* After the server's answer the gateway forgets the lease it has then,    *)
(* which may be one granted to another request in the meantime.            *)
Forget(t) ==
    /\ call[t].do = "release" /\ call[t].stage = "freed"
    /\ gate' = [gate EXCEPT ![By(t)][call[t].path] = 0]
    /\ call' = [call EXCEPT ![t] = Idle]
    /\ UNCHANGED << files, lease, op, fence, srv, lapsed, rest >>

(* The adapter's deadline for the oldest term passes.                      *)
Lapse(p) ==
    /\ srv[p].owner # Nobody /\ lapsed[p] < srv[p].term
    /\ lapsed' = [lapsed EXCEPT ![p] = @ + 1]
    /\ UNCHANGED << files, lease, op, fence, gate, srv, call, rest >>

(* The server's lease expires, after the adapter's deadline for it.        *)
Expire(p) ==
    /\ srv[p].owner # Nobody /\ srv[p].term <= lapsed[p]
    /\ srv' = Freed(p)
    /\ UNCHANGED << files, lease, op, fence, gate, lapsed, call, rest >>

-----------------------------------------------------------------------------
(* Requests of a worker: claim, heartbeat, release, read.                  *)

Send(t, do, p, f) ==
    call' = [call EXCEPT ![t] = [Idle EXCEPT !.do = do, !.path = p, !.fence = f, !.stage = "sent"]]

Ask(w, p) ==
    /\ asks > 0 /\ call[w] = Idle /\ p \in WorksOn(w)
    /\ asks' = asks - 1

(* A claim that is refused changes nothing here.                           *)
Claim(w, p) ==
    /\ Ask(w, p) /\ Grant(w, p)
    /\ UNCHANGED << files, lease, op, fence, lapsed, returned, cast, crashes, lost >>

(* A refused install: the lease goes back to the server.                   *)
GivenBack(p, f) == returned' = [returned EXCEPT ![p] = @ \cup {f}]

(* The grant is installed; one that cannot be is released at once.         *)
ClaimInstall(w) ==
    LET c == call[w]  p == c.path IN
    /\ c.do = "claim"
    /\ IF Installable(w, p, c.fence, c.term)
       THEN /\ lease' = [lease EXCEPT ![p] = Lease(w, c.fence, c.term)]
            /\ call' = [call EXCEPT ![w] = Idle]
            /\ UNCHANGED returned
       ELSE /\ Send(w, "release", p, c.fence)
            /\ GivenBack(p, c.fence)
            /\ UNCHANGED lease
    /\ UNCHANGED << files, op, fence, gate, srv, lapsed, cast, asks, crashes, lost >>

Heartbeat(w, p) ==
    /\ Held(w, p, lease[p].fence)
    /\ Ask(w, p) /\ Send(w, "beat", p, lease[p].fence)
    /\ UNCHANGED << files, lease, op, fence, gate, srv, lapsed, returned, cast, crashes, lost >>

(* The renewed deadline counts only if the lease is still held; a beat     *)
(* that failed ends the lease here.                                        *)
Renewed(t) ==
    LET c == call[t] IN
    IF c.stage = "refused" THEN Deactivated(By(t), c.path, c.fence)
    ELSE IF Held(By(t), c.path, c.fence) THEN [lease EXCEPT ![c.path].term = c.term]
    ELSE lease

HeartbeatEnds(w) ==
    /\ call[w].do = "beat" /\ call[w].stage # "sent"
    /\ lease' = Renewed(w)
    /\ call' = [call EXCEPT ![w] = Idle]
    /\ UNCHANGED << files, op, fence, gate, srv, lapsed, rest >>

(* Mutant of Release: only the server's lease is given back.               *)
ReleaseUpstreamOnly(w, p) ==
    /\ lease[p].owner = w /\ lease[p].active
    /\ Ask(w, p) /\ Send(w, "release", p, lease[p].fence)
    /\ UNCHANGED << files, lease, op, fence, gate, srv, lapsed, returned, cast, crashes, lost >>

Release(w, p) ==
    /\ lease[p].owner = w /\ lease[p].active
    /\ lease' = Deactivated(w, p, lease[p].fence)
    /\ Ask(w, p) /\ Send(w, "release", p, lease[p].fence)
    /\ UNCHANGED << files, op, fence, gate, srv, lapsed, returned, cast, crashes, lost >>

(* An answer of the gateway does not arrive in time; a release that has    *)
(* reached the server goes on at the gateway, and its answer is not used.  *)
AnswerLost(w) ==
    /\ lost > 0 /\ call[w] # Idle /\ call[w].stage # "freed"
    /\ lost' = lost - 1
    /\ lease' = IF call[w].do = "beat" THEN Deactivated(w, call[w].path, call[w].fence) ELSE lease
    /\ call' = [call EXCEPT ![w] = Idle]
    /\ UNCHANGED << files, op, fence, gate, srv, lapsed, returned, cast, asks, crashes >>

-----------------------------------------------------------------------------
(* Operations of a worker.                                                 *)

(* read: the evidence a worker may hold of a file, one signed token for    *)
(* every revision the file has had. Earlier ones are stale.                *)
Evidence(p) == (IF p \in Seed THEN 1 ELSE 0) .. rev[p]

(* Mutant of Start: the fence of a removal is not looked at.               *)
StartUnfenced(o, P, reads, intent) ==
    LET w == OwnerOf[o]
        deps == [r \in Path \cup {Root} |-> IF r = Root THEN Unread ELSE reads[r]]
        x == [NoOp EXCEPT
                !.st = "running", !.pc = "admitted", !.intent = intent,
                !.claims = [p \in Path |-> IF p \in P THEN lease[p].fence ELSE 0],
                !.deps = deps,
                !.seen = deps]
        ok == (\A p \in P : Held(w, p, lease[p].fence)) /\ Current(deps)
    IN  /\ op' = [op EXCEPT ![o] = IF ok THEN x ELSE Finish(o, "rejected")]
        /\ UNCHANGED << files, lease, fence, gate, srv, lapsed, call, rest >>

(* start: no admission while a removal is fenced; an operation is admitted *)
(* if its claims are held and its reads are current, and rejected          *)
(* otherwise.                                                              *)
Start(o, P, reads, intent) ==
    LET w == OwnerOf[o]
        deps == [r \in Path \cup {Root} |-> IF r = Root THEN Unread ELSE reads[r]]
        x == [NoOp EXCEPT
                !.st = "running", !.pc = "admitted", !.intent = intent,
                !.claims = [p \in Path |-> IF p \in P THEN lease[p].fence ELSE 0],
                !.deps = deps,
                !.seen = deps]
        ok == (\A p \in P : Held(w, p, lease[p].fence)) /\ Current(deps)
    IN  /\ fence = Nobody
        /\ op' = [op EXCEPT ![o] = IF ok THEN x ELSE Finish(o, "rejected")]
        /\ UNCHANGED << files, lease, fence, gate, srv, lapsed, call, rest >>

Intents(o, P) ==
    IF KindOf[o] # "tool" THEN {NoIntent}
    ELSE [do : {"write"}, path : P, dest : {Nobody}, value : Content]
         \cup [do : {"delete"}, path : P, dest : {Nobody}, value : {Absent}]
         \cup [do : {"rename"}, path : P, dest : P, value : {Absent}]

(* A request with any claims, reads and intent of the worker. Sent again,  *)
(* it only returns what is recorded.                                       *)
StartAny(o) ==
    /\ o \in Cast /\ op[o].st = "absent"
    /\ \E P \in SUBSET { p \in Path : lease[p].owner = OwnerOf[o] } :
       \E intent \in Intents(o, P) :
       \E reads \in { f \in [Path -> UNION { {Unread} \cup Evidence(p) : p \in Path }] :
                        \A p \in Path : f[p] = Unread \/ (p \in WorksOn(OwnerOf[o]) /\ f[p] \in Evidence(p)) } :
          Start(o, P, reads, intent)

(* write, delete, rename: the target must have been read and be claimed.   *)
ToolStage(o) ==
    LET x == op[o]
        i == x.intent
        touched == {i.path} \cup (IF i.do = "rename" THEN {i.dest} ELSE {})
        ok == /\ \A p \in touched : x.deps[p] # Unread /\ Held(OwnerOf[o], p, x.claims[p])
              /\ i.do = "write" \/ val[i.path] # Absent
        y == IF i.do = "rename" THEN Stage(x, i.dest, val[i.path]) ELSE x
    IN  /\ KindOf[o] = "tool" /\ x.pc = "admitted"
        /\ op' = [op EXCEPT ![o] = IF ok
                    THEN [Stage(y, i.path, i.value) EXCEPT !.pc = "exited"]
                    ELSE Finish(o, "rejected")]
        /\ UNCHANGED << files, lease, fence, gate, srv, lapsed, call, rest >>

(* pin: the command gets a private view of the files as they are now.      *)
Pin(o) ==
    /\ KindOf[o] \in {"run", "project"} /\ op[o].pc = "admitted"
    /\ op' = [op EXCEPT ![o] = IF Valid(o)
                THEN [@ EXCEPT !.pc = "command", !.snap = [val |-> val, rev |-> rev]]
                ELSE Finish(o, "rejected")]
    /\ UNCHANGED << files, lease, fence, gate, srv, lapsed, call, rest >>

(* The command looks at a file: lookup, open, read.                        *)
Look(o, p) ==
    /\ op[o].pc = "command"
    /\ op' = [op EXCEPT ![o] = Shown(Captured(@, p), p)]
    /\ UNCHANGED << files, lease, fence, gate, srv, lapsed, call, rest >>

(* The command lists the directory.                                        *)
List(o) ==
    /\ op[o].pc = "command"
    /\ op' = [op EXCEPT ![o] = [Captured(@, Root) EXCEPT
                !.listed = { p \in Path : op[o].snap.val[p] # Absent }]]
    /\ UNCHANGED << files, lease, fence, gate, srv, lapsed, call, rest >>

(* mutation: a claimed file, any file of a project command, or a new file  *)
(* of a command that claims some file.                                     *)
Writable(o, p) ==
    /\ Valid(o)
    /\ \/ op[o].claims[p] # 0
       \/ KindOf[o] = "project"
       \/ val[p] = Absent /\ op[o].claims # NoClaims

(* The command writes, creates or removes a file, in its private staging.  *)
Edit(o, p, v) ==
    /\ op[o].pc = "command" /\ p \in cast.files[o] /\ Writable(o, p)
    /\ v = Absent => View(op[o], p) # Absent
    /\ op' = [op EXCEPT ![o] = Stage(@, p, v)]
    /\ UNCHANGED << files, lease, fence, gate, srv, lapsed, call, rest >>

Move(o, p, q) ==
    /\ op[o].pc = "command" /\ p # q /\ {p, q} \subseteq cast.files[o] /\ Writable(o, p) /\ Writable(o, q)
    /\ View(op[o], p) # Absent
    /\ op' = [op EXCEPT ![o] = Stage(Stage(@, q, View(@, p)), p, Absent)]
    /\ UNCHANGED << files, lease, fence, gate, srv, lapsed, call, rest >>

(* The command fails, times out, or its claims or reads are found stale.   *)
CommandFails(o) ==
    /\ op[o].pc = "command" /\ call[o] = Idle
    /\ Settle(o, "rejected")
    /\ UNCHANGED << files, lease, fence, gate, srv, lapsed, call, rest >>

CommandExits(o) ==
    /\ op[o].pc = "command" /\ call[o] = Idle
    /\ op' = [op EXCEPT ![o].pc = "exited"]
    /\ UNCHANGED << files, lease, fence, gate, srv, lapsed, call, rest >>

(* One transaction: claims and reads are validated once more, a command    *)
(* may change only what it claimed, and the edits become visible.          *)
PublishStaged(o) ==
    LET x == op[o]
        ok == Valid(o) /\ (KindOf[o] = "run" => \A p \in Changes(x) : x.claims[p] # 0)
    IN  /\ KindOf[o] \in {"tool", "run"} /\ x.pc = "exited"
        /\ IF ok THEN Publish(x) /\ Settle(o, "applied")
                 ELSE UNCHANGED files /\ Settle(o, "rejected")
        /\ UNCHANGED << lease, fence, gate, srv, lapsed, call, rest >>

-----------------------------------------------------------------------------
(* A project command: every path it changed is claimed when it ends.       *)

(* What was acquired is released before the failure is recorded.           *)
Failing(o, status) ==
    IF op[o].acquired = {} THEN Finish(o, status)
    ELSE [op[o] EXCEPT !.pc = "releasing", !.outcome = status]
Fail(o, status) == op' = [op EXCEPT ![o] = Failing(o, status)]

(* freeze_publication: the paths of the net change are written down.       *)
Freeze(o) ==
    /\ KindOf[o] = "project" /\ op[o].pc = "exited"
    /\ op' = [op EXCEPT ![o] = IF Valid(o)
                THEN [@ EXCEPT !.pc = "claiming", !.paths = Changes(op[o]), !.todo = Changes(op[o])]
                ELSE Finish(o, "rejected")]
    /\ UNCHANGED << files, lease, fence, gate, srv, lapsed, call, rest >>

(* The paths are taken in one order.                                       *)
Least(P) == IF P = {} THEN Nobody ELSE CHOOSE p \in P : TRUE

ProjectClaim(o, p) ==
    LET f == op[o].claims[p] IN
    /\ op[o].pc = "claiming" /\ call[o] = Idle /\ p = Least(op[o].todo)
    /\ \/ /\ f # 0
          /\ IF Held(OwnerOf[o], p, f)
             THEN op' = [op EXCEPT ![o] = [op[o] EXCEPT !.exact[p] = f, !.todo = @ \ {p}]]
             ELSE Fail(o, "rejected")
          /\ UNCHANGED call
          /\ UNCHANGED << gate, srv >>
       \/ f = 0 /\ Grant(o, p) /\ UNCHANGED op
    /\ UNCHANGED << files, lease, fence, lapsed, rest >>

(* A grant that cannot be installed is released with the others, which     *)
(* ends the row if it has that fence; a row that has not seen the fence    *)
(* yet is not reached, and may take it later from another thread.          *)
ProjectInstall(o) ==
    LET c == call[o]  p == c.path
        x == [op[o] EXCEPT !.acquired = @ \cup {p}, !.exact[p] = c.fence, !.todo = @ \ {p}]
    IN  /\ c.do = "claim"
        /\ IF Installable(OwnerOf[o], p, c.fence, c.term)
           THEN /\ lease' = [lease EXCEPT ![p] = Lease(OwnerOf[o], c.fence, c.term)]
                /\ op' = [op EXCEPT ![o] = x]
                /\ UNCHANGED returned
           ELSE /\ op' = [op EXCEPT ![o] = [x EXCEPT !.pc = "releasing", !.outcome = "rejected"]]
                /\ IF c.fence > lease[p].fence THEN GivenBack(p, c.fence) ELSE UNCHANGED returned
                /\ UNCHANGED lease
        /\ call' = [call EXCEPT ![o] = Idle]
        /\ UNCHANGED << files, fence, gate, srv, lapsed, cast, asks, crashes, lost >>

ProjectClaimed(o) ==
    /\ op[o].pc = "claiming" /\ op[o].todo = {} /\ call[o] = Idle
    /\ op' = [op EXCEPT ![o].pc = "beating", ![o].todo = op[o].paths]
    /\ UNCHANGED << files, lease, fence, gate, srv, lapsed, call, rest >>

(* The project's authority, its time or a claim ran out, or a claim was    *)
(* refused.                                                                *)
ProjectDenied(o) ==
    /\ op[o].pc \in {"claiming", "beating"} /\ call[o] = Idle
    /\ Fail(o, "rejected")
    /\ UNCHANGED << files, lease, fence, gate, srv, lapsed, call, rest >>

(* A command renews its claims while it runs, a project once more before   *)
(* it publishes.                                                           *)
OpHeartbeat(o, p) ==
    LET f == IF op[o].pc = "command" THEN op[o].claims[p] ELSE op[o].exact[p] IN
    /\ call[o] = Idle
    /\ op[o].pc = "command" \/ (op[o].pc = "beating" /\ p = Least(op[o].todo))
    /\ f # 0 /\ Held(OwnerOf[o], p, f)
    /\ Send(o, "beat", p, f)
    /\ UNCHANGED << files, lease, op, fence, gate, srv, lapsed, rest >>

OpHeartbeatEnds(o) ==
    LET c == call[o] IN
    /\ c.do = "beat" /\ c.stage # "sent"
    /\ lease' = Renewed(o)
    /\ call' = [call EXCEPT ![o] = Idle]
    /\ op' = [op EXCEPT ![o] =
                IF c.stage = "granted" /\ Held(OwnerOf[o], c.path, c.fence)
                THEN [op[o] EXCEPT !.todo = @ \ {c.path}] ELSE Failing(o, "rejected")]
    /\ UNCHANGED << files, fence, gate, srv, lapsed, rest >>

(* publish with the witness: the same paths, each under its exact fence.   *)
PublishProject(o) ==
    LET x == op[o]
        ok == /\ Valid(o) /\ Changes(x) = x.paths
              /\ \A p \in x.paths : Held(OwnerOf[o], p, x.exact[p])
    IN  /\ x.pc = "beating" /\ x.todo = {} /\ call[o] = Idle
        /\ IF ok
           THEN /\ Publish(x)
                /\ op' = [op EXCEPT ![o] = [Finish(o, "applied") EXCEPT
                            !.pc = "releasing", !.acquired = x.acquired, !.exact = x.exact]]
           ELSE Fail(o, "rejected") /\ UNCHANGED files
        /\ UNCHANGED << lease, fence, gate, srv, lapsed, call, rest >>

ProjectRelease(o, p) ==
    /\ op[o].pc = "releasing" /\ call[o] = Idle /\ p = Least(op[o].acquired)
    /\ lease' = Deactivated(OwnerOf[o], p, op[o].exact[p])
    /\ Send(o, "release", p, op[o].exact[p])
    /\ op' = [op EXCEPT ![o].acquired = @ \ {p}]
    /\ UNCHANGED << files, fence, gate, srv, lapsed, rest >>

ProjectDone(o) ==
    /\ op[o].pc = "releasing" /\ op[o].acquired = {} /\ call[o] = Idle
    /\ Settle(o, IF Running(o) THEN op[o].outcome ELSE op[o].st)
    /\ UNCHANGED << files, lease, fence, gate, srv, lapsed, call, rest >>

(* The gateway does not answer the operation's thread in time.             *)
OpAnswerLost(o) ==
    LET c == call[o] IN
    /\ lost > 0 /\ c # Idle /\ c.stage # "freed"
    /\ lost' = lost - 1
    /\ lease' = IF c.do = "beat" THEN Deactivated(OwnerOf[o], c.path, c.fence) ELSE lease
    /\ IF c.do = "release" THEN UNCHANGED op ELSE Fail(o, "aborted")
    /\ call' = [call EXCEPT ![o] = Idle]
    /\ UNCHANGED << files, fence, gate, srv, lapsed, returned, cast, asks, crashes >>

-----------------------------------------------------------------------------
(* The removal of exact files, driven by the root operator in phases.      *)

(* The operator's own claims, taken from the server and not through the    *)
(* gateway, and given back when the removal is not in progress.            *)
RootClaim(m, p) ==
    /\ m \in Cast /\ p \in cast.files[m] /\ srv[p].owner = Nobody
    /\ srv[p].term < cast.terms
    /\ srv' = [srv EXCEPT ![p] = [owner |-> m, fence |-> @.fence + 1, term |-> @.term + 1]]
    /\ UNCHANGED << files, lease, op, fence, gate, lapsed, call, rest >>

RootRelease(m, p) ==
    /\ srv[p].owner = m /\ ~Running(m)
    /\ srv' = Freed(p)
    /\ UNCHANGED << files, lease, op, fence, gate, lapsed, call, rest >>

(* The grants the operator sends are those the server has for it: it       *)
(* releases none before the removal ends, and an expired one has a term    *)
(* that lapsed, which no install accepts.                                  *)
Granted(m, P) ==
    \A p \in P : srv[p].owner = m /\ Installable(m, p, srv[p].fence, srv[p].term)
InstallAll(m, P) ==
    lease' = [p \in Path |-> IF p \in P THEN Lease(m, srv[p].fence, srv[p].term) ELSE lease[p]]
Alone(m) == \A o \in Op \ {m} : ~Running(o)

(* prepare: nothing else runs, the exact files are there and claimed; from *)
(* now on no operation is admitted.                                        *)
Prepare(m, P) ==
    LET revs == [r \in Path \cup {Root} |-> IF r \in P THEN rev[r] ELSE Unread] IN
    /\ m \in Cast /\ fence \in {Nobody, m} /\ op[m].st = "absent"
    /\ Alone(m) /\ Granted(m, P) /\ \A p \in P : val[p] # Absent
    /\ InstallAll(m, P)
    /\ fence' = m
    /\ op' = [op EXCEPT ![m] = [NoOp EXCEPT !.st = "running", !.pc = "prepared", !.paths = P,
                                            !.deps = revs, !.seen = revs]]
    /\ UNCHANGED << files, gate, srv, lapsed, call, rest >>

(* commit: the grants are installed again, the files are as prepared, and  *)
(* all of them go in one transaction.                                      *)
RemovalCommit(m) ==
    LET x == op[m]
        y == [x EXCEPT !.staged = [p \in Path |-> IF p \in x.paths THEN Absent ELSE Same]]
    IN  /\ Running(m) /\ fence = m /\ Alone(m)
        /\ Granted(m, x.paths) /\ Current(x.deps)
        /\ InstallAll(m, x.paths)
        /\ Publish(y) /\ Settle(m, "applied")
        /\ UNCHANGED << fence, gate, srv, lapsed, call, rest >>

(* abort: recorded as rejected, even before prepare, when it also fences.  *)
RemovalAbort(m) ==
    /\ m \in Cast /\ fence \in {Nobody, m} /\ op[m].st \in {"absent", "running"}
    /\ fence' = m
    /\ Settle(m, "rejected")
    /\ UNCHANGED << files, lease, gate, srv, lapsed, call, rest >>

RemovalRelease(m) ==
    /\ fence = m /\ ~Running(m)
    /\ fence' = Nobody
    /\ UNCHANGED << files, lease, op, gate, srv, lapsed, call, rest >>

-----------------------------------------------------------------------------
(* Mutant of Restart: what was running stays so, without its thread.        *)
RestartKeepsRunning ==
    /\ crashes > 0
    /\ crashes' = crashes - 1
    /\ lease' = [p \in Path |-> [lease[p] EXCEPT !.active = FALSE]]
    /\ op' = [o \in Op |-> IF Running(o) THEN [op[o] EXCEPT !.pc = "none"]
                           ELSE IF op[o].st # "absent" THEN Finish(o, op[o].st) ELSE NoOp]
    /\ \E closed \in BOOLEAN :
          srv' = IF closed THEN [p \in Path |-> IF \E w \in Worker : gate[w][p] # 0 /\ Holds(w, p, gate[w][p])
                                                THEN [srv[p] EXCEPT !.owner = Nobody] ELSE srv[p]]
                           ELSE srv
    /\ gate' = [w \in Worker |-> NoClaims]
    /\ call' = [t \in Thread |-> Idle]
    /\ UNCHANGED << files, fence, lapsed, returned, cast, asks, lost >>

(* The supervisor restarts: leases must be granted anew, what was running  *)
(* is aborted, threads, views and the gateway's leases are gone. A gateway *)
(* that closed in order gave its leases back, one that died did not.       *)
Restart ==
    /\ crashes > 0
    /\ crashes' = crashes - 1
    /\ lease' = [p \in Path |-> [lease[p] EXCEPT !.active = FALSE]]
    /\ op' = [o \in Op |-> IF Running(o) THEN Finish(o, "aborted")
                           ELSE IF op[o].st # "absent" THEN Finish(o, op[o].st) ELSE NoOp]
    /\ \E closed \in BOOLEAN :
          srv' = IF closed THEN [p \in Path |-> IF \E w \in Worker : gate[w][p] # 0 /\ Holds(w, p, gate[w][p])
                                                THEN [srv[p] EXCEPT !.owner = Nobody] ELSE srv[p]]
                           ELSE srv
    /\ gate' = [w \in Worker |-> NoClaims]
    /\ call' = [t \in Thread |-> Idle]
    /\ UNCHANGED << files, fence, lapsed, returned, cast, asks, lost >>

-----------------------------------------------------------------------------
Control(w) ==
    \/ ClaimInstall(w) \/ HeartbeatEnds(w) \/ AnswerLost(w)
    \/ \E p \in Path : Claim(w, p) \/ Heartbeat(w, p) \/ Release(w, p)

Gateway(t) == Renew(t) \/ Refuse(t) \/ Free(t) \/ Forget(t)

Progress(o) ==
    \/ ToolStage(o) \/ Pin(o) \/ CommandFails(o) \/ CommandExits(o) \/ PublishStaged(o)
    \/ Freeze(o) \/ ProjectInstall(o) \/ ProjectClaimed(o) \/ ProjectDenied(o)
    \/ OpHeartbeatEnds(o) \/ PublishProject(o) \/ ProjectDone(o) \/ OpAnswerLost(o)
    \/ \E p \in Path : ProjectClaim(o, p) \/ OpHeartbeat(o, p) \/ ProjectRelease(o, p)

Command(o) ==
    \/ List(o)
    \/ \E p \in Path : \/ Look(o, p)
                       \/ \E v \in Content \cup {Absent} : Edit(o, p, v)
                       \/ \E q \in Path : Move(o, p, q)

Remove(m) ==
    \/ RemovalCommit(m) \/ RemovalAbort(m) \/ RemovalRelease(m)
    \/ \E p \in Path : RootClaim(m, p) \/ RootRelease(m, p)
    \/ \E P \in (SUBSET Path) \ {{}} : Prepare(m, P)

Next ==
    \/ \E w \in Worker : Control(w)
    \/ \E t \in Thread : Gateway(t)
    \/ \E o \in Op \ Removal : StartAny(o) \/ Progress(o) \/ Command(o)
    \/ \E m \in Removal : Remove(m)
    \/ \E p \in Path : Lapse(p) \/ Expire(p)
    \/ Restart

Spec == Init /\ [][Next]_vars

(* The gateway answers every request, and an admitted operation's thread   *)
(* goes on: a command ends by itself or at its deadline.                   *)
FairSpec ==
    /\ Spec
    /\ \A t \in Thread : WF_vars(Gateway(t))
    /\ \A o \in Op \ Removal : WF_vars(Progress(o))

-----------------------------------------------------------------------------
(* Types, and what belongs together: a settled operation keeps no staging, *)
(* no dependencies and no view; a lease is one the server once granted.    *)
TypeOK ==
    /\ val \in [Path -> Content \cup {Imported, Absent}]
    /\ rev \in [Path \cup {Root} -> Nat]
    /\ \A p \in Path :
          /\ lease[p] \in [owner : Owner \cup {Nobody}, fence : 0 .. srv[p].fence,
                           term : 0 .. srv[p].term, active : BOOLEAN]
          /\ srv[p] \in [owner : Owner \cup {Nobody}, fence : 0 .. cast.terms, term : 0 .. cast.terms]
          /\ lapsed[p] \in 0 .. srv[p].term /\ returned[p] \subseteq 0 .. srv[p].fence
    /\ fence \in Removal \cup {Nobody}
    /\ \A w \in Worker : gate[w] \in [Path -> 0 .. cast.terms]
    /\ \A o \in Op :
          /\ op[o].st \in {"absent", "running", "applied", "rejected", "aborted"}
          /\ ~Running(o) => /\ op[o].staged = NoStaging /\ op[o].deps = NoDeps
                            /\ op[o].snap = NoView
    /\ asks \in Nat /\ crashes \in Nat /\ lost \in Nat

(* A file changes only while the server's lease of it belongs to the owner *)
(* of the operation that publishes, whatever releases, takeovers, late     *)
(* grants, late renewals and restarts happened before (publish, authorize, *)
(* install). The one exception: a worker's claim answered too late to be   *)
(* installed is given back to the server and leaves the row of the lease   *)
(* as it is, although another thread of the worker may still hold that     *)
(* very lease; a project's ends the row, unless another thread brings the  *)
(* lease there only afterwards.                                            *)
FencedPublication ==
    [][ \A p \in Path : rev'[p] # rev[p] =>
          \E o \in Op : /\ Running(o) /\ op'[o].st = "applied"
                        /\ srv[p].owner = OwnerOf[o] \/ lease[p].fence \in returned[p] ]_vars

(* Everything an operation was shown, each file and the directory listing, *)
(* is still so when it is published: it could have run at that very moment *)
(* (capture, validate, publish).                                           *)
SerialPublication ==
    [][ \A o \in Op : (Running(o) /\ op'[o].st = "applied") =>
          /\ \A p \in Path : op[o].seen[p] \in {Unread, rev[p]}
          /\ op[o].listed \in {{Same}, { p \in Path : val[p] # Absent }} ]_vars

(* While a removal is prepared, no other operation is under way.           *)
PreparedIsExclusive == \A m \in Removal : Running(m) => Alone(m)

(* Every admitted operation gets a final receipt, through lost answers and *)
(* restarts.                                                               *)
EverySettles == \A o \in Op \ Removal : Running(o) ~> ~Running(o)
=============================================================================
