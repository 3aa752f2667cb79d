----------------------------- MODULE ClaimStream -----------------------------
(***************************************************************************)
(* Claims as a client takes them over the sync socket: the claim stream    *)
(* (createClaimStream), the wait for the grant (awaitClaimGrant), the      *)
(* handle a model surface returns (takeClaim) with its heartbeat loop, and *)
(* the server that leases one target to one claim at a time and keeps the  *)
(* others in line.                                                         *)
(*                                                                         *)
(* Every claim has a participant and a socket of its own: frames carry the *)
(* claim's unique id and no handler acts on another claim's frame.         *)
(***************************************************************************)
EXTENDS Naturals, Sequences, FiniteSets, SequencesExt

CONSTANTS
    Claim,          \* the claim ids
    NoClaim,        \* the target is free
    Looping,        \* the claims taken with the heartbeat option
    MaxDrops,       \* bound: connections lost
    MaxTimeouts,    \* bound: heartbeats whose answer is not awaited to the end
    MaxLosses       \* bound: leases or queue slots the server ends by itself

ASSUME ClaimAssumption ==
    /\ NoClaim \notin Claim /\ Looping \subseteq Claim
    /\ {MaxDrops, MaxTimeouts, MaxLosses} \subseteq Nat

VARIABLES
    holder, line,   \* the server: who holds the lease, who waits
    link, up, down, \* per claim: is its socket open, frames to and from the server
    call,           \* claim() as its caller sees it
    own, ended,     \* ownClaims, and the claims whose lifetime has ended
    revoked,        \* the claims whose stream handle was revoked
    abandons,       \* pendingAbandons
    active,         \* activeClaims of the model surface
    beat,           \* pendingHeartbeats: who awaits the answer
    running, busy,  \* heartbeat loops that are not stopped; those with a beat in flight
    gone,           \* claims whose stream was disposed
    lostAbandon, missed,   \* history: abandons lost in flight, beats given up or answered late
    drops, timeouts, losses

server == <<holder, line, losses>>
wires  == <<link, up, down>>
local  == <<call, own, ended, revoked, abandons, active, running, gone>>
beats  == <<beat, busy>>
notes  == <<lostAbandon, missed>>
bounds == <<drops, timeouts>>
vars == <<server, wires, local, beats, notes, bounds>>

Init ==
    /\ holder = NoClaim /\ line = <<>>
    /\ link = [c \in Claim |-> TRUE]
    /\ up = [c \in Claim |-> <<>>] /\ down = [c \in Claim |-> <<>>]
    /\ call = [c \in Claim |-> "idle"]
    /\ own = {} /\ ended = {} /\ revoked = {} /\ abandons = {} /\ active = {}
    /\ beat = [c \in Claim |-> "none"] /\ running = {} /\ busy = {} /\ gone = {}
    /\ lostAbandon = {} /\ missed = {}
    /\ drops = 0 /\ timeouts = 0 /\ losses = 0

-----------------------------------------------------------------------------
(* The server (external).                                                  *)

Sent(to, c, frame) == IF link[c] THEN [to EXCEPT ![c] = Append(@, frame)] ELSE to

(* The lease is free: the head of the line gets it and is told if it is    *)
(* connected.                                                              *)
Promote(rest, to) ==
    IF rest = <<>>
    THEN holder' = NoClaim /\ line' = <<>> /\ down' = to
    ELSE /\ holder' = Head(rest) /\ line' = Tail(rest)
         /\ down' = Sent(to, Head(rest), "granted")

Without(c) == IF c \in Range(line)
              THEN RemoveAt(line, CHOOSE i \in 1..Len(line) : line[i] = c)
              ELSE line

Begin(c, queue) ==
    \/ /\ holder = NoClaim
       /\ holder' = c
       /\ down' = Sent(down, c, "acquired")
       /\ UNCHANGED line
    \/ /\ holder # NoClaim /\ queue
       /\ line' = Append(line, c)
       /\ down' = Sent(down, c, "queued")
       /\ UNCHANGED holder
    \/ /\ holder # NoClaim /\ ~queue
       /\ down' = Sent(down, c, "rejected")
       /\ UNCHANGED <<holder, line>>

Heartbeat(c) ==
    /\ down' = Sent(down, c, IF holder = c THEN "ack_held"
                             ELSE IF c \in Range(line) THEN "ack_queued" ELSE "ack_lost")
    /\ UNCHANGED <<holder, line>>

Abandon(c) ==
    IF holder = c THEN Promote(line, down)
    ELSE line' = Without(c) /\ UNCHANGED <<holder, down>>

ServerReceive(c) ==
    /\ up[c] # <<>>
    /\ up' = [up EXCEPT ![c] = Tail(@)]
    /\ \/ Head(up[c]) = "begin_queue" /\ Begin(c, TRUE)
       \/ Head(up[c]) = "begin" /\ Begin(c, FALSE)
       \/ Head(up[c]) = "heartbeat" /\ Heartbeat(c)
       \/ Head(up[c]) = "abandon" /\ Abandon(c)
    /\ UNCHANGED <<losses, link, local, beats, notes, bounds>>

(* The lease expires or is preempted, or a slot in line expires.           *)
Expire(c) ==
    /\ losses < MaxLosses /\ losses' = losses + 1
    /\ \/ holder = c /\ Promote(line, Sent(down, c, "lost"))
       \/ /\ c \in Range(line)
          /\ line' = Without(c) /\ down' = Sent(down, c, "lost")
          /\ UNCHANGED holder
    /\ UNCHANGED <<link, up, local, beats, notes, bounds>>

-----------------------------------------------------------------------------
(* The claim stream.                                                       *)

(* Mutant: a release while the socket is down is forgotten.                *)
SendAbandonDrops(c) ==
    /\ up' = IF link[c] THEN [up EXCEPT ![c] = Append(@, "abandon")] ELSE up
    /\ UNCHANGED abandons

(* sendAbandon: sent, or kept until the socket is back.                    *)
SendAbandon(c) ==
    IF link[c] THEN up' = [up EXCEPT ![c] = Append(@, "abandon")] /\ UNCHANGED abandons
    ELSE abandons' = abandons \cup {c} /\ UNCHANGED up

(* lifetime.end: the model surface's listener drops the active claim and   *)
(* stops its loop.                                                         *)
EndLifetime(c) ==
    /\ ended' = ended \cup {c}
    /\ active' = active \ {c}
    /\ running' = IF c \in active THEN running \ {c} ELSE running

(* The handle's revoke, once.                                              *)
Revoke(c) ==
    IF c \in revoked THEN UNCHANGED <<revoked, ended, active, running, own, up, abandons>>
    ELSE /\ revoked' = revoked \cup {c}
         /\ EndLifetime(c)
         /\ own' = own \ {c}
         /\ SendAbandon(c)

(* claim(): awaitClaimGrant subscribes, the handle is minted, and          *)
(* claim_begin is sent when the socket is open.                            *)
Request(c, queue) ==
    /\ call[c] = "idle" /\ c \notin gone
    /\ call' = [call EXCEPT ![c] = "waiting"]
    /\ own' = own \cup {c}
    /\ up' = IF link[c] THEN [up EXCEPT ![c] = Append(@, IF queue THEN "begin_queue" ELSE "begin")]
             ELSE up
    /\ UNCHANGED <<server, link, down, ended, revoked, abandons, active, running, gone, beats,
                   notes, bounds>>

(* The wait fails, by timeout or abort: create() revokes the handle.       *)
GiveUp(c) ==
    /\ call[c] = "waiting"
    /\ call' = [call EXCEPT ![c] = "failed"]
    /\ Revoke(c)
    /\ UNCHANGED <<server, link, down, gone, beats, notes, bounds>>

(* Mutants: the loop starts without being asked for; a lifetime that ended *)
(* before the handle became active is not noticed.                         *)
ActivateLoops(c) ==
    IF c \in ended THEN UNCHANGED <<active, running>>
    ELSE active' = active \cup {c} /\ running' = running \cup {c}

ActivateEnded(c) == active' = active \cup {c} /\ running' = running \cup ({c} \cap Looping)

(* The grant arrived and the row was read again: the handle becomes active *)
(* and its loop starts.  A lifetime that has already ended undoes both.    *)
Activate(c) ==
    IF c \in ended THEN UNCHANGED <<active, running>>
    ELSE active' = active \cup {c} /\ running' = running \cup ({c} \cap Looping)

Return(c) ==
    /\ call[c] = "granted"
    /\ call' = [call EXCEPT ![c] = "held"]
    /\ Activate(c)
    /\ UNCHANGED <<server, wires, own, ended, revoked, abandons, gone, beats, notes, bounds>>

(* Reading the row again fails: the caller gets the error, the lease stays. *)
LoadFails(c) ==
    /\ call[c] = "granted"
    /\ call' = [call EXCEPT ![c] = "failed"]
    /\ UNCHANGED <<server, wires, own, ended, revoked, abandons, active, running, gone, beats,
                   notes, bounds>>

(* A write of the claimed row is committed, which ends the lease at the    *)
(* server; the client releases the claim when the confirmation arrives.    *)
Commit(c) ==
    /\ call[c] = "held" /\ holder = c /\ link[c]
    /\ call' = [call EXCEPT ![c] = "committed"]
    /\ Promote(line, down)
    /\ UNCHANGED <<losses, link, up, own, ended, revoked, abandons, active, running, gone,
                   beats, notes, bounds>>

(* The caller releases: releaseClaim does nothing unless the claim is      *)
(* active.                                                                 *)
Release(c) ==
    /\ call[c] \in {"held", "committed"}
    /\ call' = [call EXCEPT ![c] = "released"]
    /\ IF c \in active THEN Revoke(c)
       ELSE UNCHANGED <<revoked, ended, active, running, own, up, abandons>>
    /\ UNCHANGED <<server, link, down, gone, beats, notes, bounds>>

-----------------------------------------------------------------------------
(* Heartbeats.                                                             *)

(* sendHeartbeat on an open socket: a newer beat settles the older one.    *)
SendHeartbeat(c, who) ==
    /\ beat' = [beat EXCEPT ![c] = who]
    /\ busy' = IF who = "loop" THEN busy \cup {c} ELSE busy \ {c}
    /\ up' = [up EXCEPT ![c] = Append(@, "heartbeat")]

(* A tick of the loop; while the socket is down the beat fails at once.    *)
Tick(c) ==
    /\ c \in running \ busy /\ link[c]
    /\ SendHeartbeat(c, "loop")
    /\ UNCHANGED <<server, link, down, local, notes, bounds>>

(* Mutant: the beat that timed out is never settled for its loop.          *)
AckTimeoutStuck(c) ==
    /\ beat[c] # "none" /\ timeouts < MaxTimeouts
    /\ timeouts' = timeouts + 1
    /\ beat' = [beat EXCEPT ![c] = "none"]
    /\ missed' = missed \cup {c}
    /\ UNCHANGED <<server, wires, local, busy, lostAbandon, drops>>

(* The answer does not come in time, or the caller beats by hand.          *)
AckTimeout(c) ==
    /\ beat[c] # "none" /\ timeouts < MaxTimeouts
    /\ timeouts' = timeouts + 1
    /\ beat' = [beat EXCEPT ![c] = "none"] /\ busy' = busy \ {c}
    /\ missed' = missed \cup {c}
    /\ UNCHANGED <<server, wires, local, lostAbandon, drops>>

ManualBeat(c) ==
    /\ call[c] = "held" /\ link[c] /\ timeouts < MaxTimeouts
    /\ timeouts' = timeouts + 1
    /\ SendHeartbeat(c, "caller")
    /\ UNCHANGED <<server, link, down, local, notes, drops>>

(* claim_heartbeat_ack: correlated by claim id alone.  Held resolves the   *)
(* pending beat; anything else ends the handle and rejects the beat, on    *)
(* which its loop stops too.                                               *)
AckHeld(c) ==
    /\ beat' = [beat EXCEPT ![c] = "none"] /\ busy' = busy \ {c}
    /\ UNCHANGED <<call, own, ended, revoked, abandons, active, running, up, notes>>

(* The lifetime ends before the beat is rejected: its listener has stopped *)
(* the loop of an active claim, and the loop's own catch then returns      *)
(* early. Only a loop that still runs stops itself and calls onLost.       *)
StoppedByListener(c) == c \in own \ ended /\ c \in active
OnLost(c) == beat[c] = "loop" /\ c \in running /\ ~StoppedByListener(c)

AckNotHeld(c) ==
    /\ beat' = [beat EXCEPT ![c] = "none"] /\ busy' = busy \ {c}
    /\ own' = own \ {c}
    /\ ended' = ended \cup (own \cap {c})
    /\ active' = IF c \in own \ ended THEN active \ {c} ELSE active
    /\ running' = IF StoppedByListener(c) \/ OnLost(c) THEN running \ {c} ELSE running
    /\ UNCHANGED <<call, revoked, abandons, up, notes>>

HeartbeatAck(c, status) ==
    IF beat[c] = "none"
    THEN /\ missed' = IF status = "ack_held" THEN missed ELSE missed \cup {c}
         /\ UNCHANGED <<beats, call, own, ended, revoked, abandons, active, running, up,
                        lostAbandon>>
    ELSE IF status = "ack_held" THEN AckHeld(c) ELSE AckNotHeld(c)

-----------------------------------------------------------------------------
(* Frames from the server.                                                 *)

(* claim_rejected and claim_lost: the stream ends the handle, and a wait   *)
(* that is still open fails and revokes it.                                *)
Refused(c) ==
    IF call[c] = "waiting"
    THEN call' = [call EXCEPT ![c] = "failed"] /\ Revoke(c)
    ELSE /\ own' = own \ {c}
         /\ IF c \in own THEN EndLifetime(c) ELSE UNCHANGED <<ended, active, running>>
         /\ UNCHANGED <<call, revoked, up, abandons>>

Receive(c) ==
    /\ down[c] # <<>>
    /\ down' = [down EXCEPT ![c] = Tail(@)]
    /\ LET frame == Head(down[c])
       IN  \/ /\ frame \in {"acquired", "granted"}
              /\ call' = IF call[c] = "waiting" THEN [call EXCEPT ![c] = "granted"] ELSE call
              /\ UNCHANGED <<own, ended, revoked, abandons, active, running, up, beats, notes>>
           \/ /\ frame = "queued"      \* kept waiting, or the line is too deep
              /\ \/ UNCHANGED <<call, own, ended, revoked, abandons, active, running, up>>
                 \/ /\ call[c] = "waiting"
                    /\ call' = [call EXCEPT ![c] = "failed"]
                    /\ Revoke(c)
              /\ UNCHANGED <<beats, notes>>
           \/ frame \in {"rejected", "lost"} /\ Refused(c) /\ UNCHANGED <<beats, notes>>
           \/ frame \in {"ack_held", "ack_queued", "ack_lost"} /\ HeartbeatAck(c, frame)
    /\ UNCHANGED <<server, link, gone, bounds>>

(* The socket drops: frames in flight are lost, pending beats fail, every  *)
(* handle is kept.                                                         *)
Severed(c) ==
    /\ link' = [link EXCEPT ![c] = FALSE]
    /\ up' = [up EXCEPT ![c] = <<>>] /\ down' = [down EXCEPT ![c] = <<>>]
    /\ beat' = [beat EXCEPT ![c] = "none"] /\ busy' = busy \ {c}
    /\ lostAbandon' = IF "abandon" \in Range(up[c]) THEN lostAbandon \cup {c} ELSE lostAbandon

Disconnect(c) ==
    /\ link[c] /\ drops < MaxDrops
    /\ drops' = drops + 1
    /\ Severed(c)
    /\ UNCHANGED <<server, local, missed, timeouts>>

(* Mutants: handles are not checked on reconnect; the kept releases are    *)
(* not sent.                                                               *)
ConnectUnchecked(c) ==
    /\ ~link[c] /\ c \notin gone
    /\ link' = [link EXCEPT ![c] = TRUE]
    /\ up' = [up EXCEPT ![c] = IF c \in abandons THEN <<"abandon">> ELSE <<>>]
    /\ abandons' = abandons \ {c}
    /\ UNCHANGED <<server, down, call, own, ended, revoked, active, running, gone, beats, notes,
                   bounds>>

ConnectKeepsAbandons(c) ==
    /\ ~link[c] /\ c \notin gone
    /\ link' = [link EXCEPT ![c] = TRUE]
    /\ up' = [up EXCEPT ![c] = IF c \in own THEN <<"heartbeat">> ELSE <<>>]
    /\ beat' = [beat EXCEPT ![c] = IF c \in own THEN "recheck" ELSE "none"]
    /\ UNCHANGED <<server, down, local, busy, notes, bounds>>

(* connected: releases made meanwhile are sent, then every handle is       *)
(* checked with a heartbeat.  Nothing is requested again.                  *)
Connect(c) ==
    /\ ~link[c] /\ c \notin gone
    /\ link' = [link EXCEPT ![c] = TRUE]
    /\ up' = [up EXCEPT ![c] = (IF c \in abandons THEN <<"abandon">> ELSE <<>>)
                               \o (IF c \in own THEN <<"heartbeat">> ELSE <<>>)]
    /\ abandons' = abandons \ {c}
    /\ beat' = [beat EXCEPT ![c] = IF c \in own THEN "recheck" ELSE "none"]
    /\ UNCHANGED <<server, down, call, own, ended, revoked, active, running, gone, busy, notes,
                   bounds>>

(* The client is closed: every lifetime ends, nothing more is sent.        *)
Dispose(c) ==
    /\ c \notin gone
    /\ gone' = gone \cup {c}
    /\ Severed(c)
    /\ own' = own \ {c}
    /\ IF c \in own THEN EndLifetime(c) ELSE UNCHANGED <<ended, active, running>>
    /\ UNCHANGED <<server, call, revoked, abandons, missed, bounds>>

-----------------------------------------------------------------------------
Next ==
    \E c \in Claim :
        \/ ServerReceive(c) \/ Expire(c)
        \/ Request(c, TRUE) \/ Request(c, FALSE) \/ GiveUp(c)
        \/ Return(c) \/ LoadFails(c) \/ Commit(c) \/ Release(c)
        \/ Tick(c) \/ AckTimeout(c) \/ ManualBeat(c)
        \/ Receive(c) \/ Disconnect(c) \/ Connect(c) \/ Dispose(c)

Spec == Init /\ [][Next]_vars

(* Sockets reconnect and deliver, the loop's interval fires, and the read  *)
(* after a grant settles.                                                  *)
FairSpec ==
    /\ Spec
    /\ \A c \in Claim : /\ WF_vars(ServerReceive(c)) /\ WF_vars(Receive(c))
                        /\ WF_vars(Connect(c)) /\ WF_vars(Tick(c))
                        /\ WF_vars(Return(c) \/ LoadFails(c))

-----------------------------------------------------------------------------
(* Properties.                                                             *)

Calls == {"idle", "waiting", "granted", "held", "committed", "failed", "released"}
UpFrames == {"begin", "begin_queue", "heartbeat", "abandon"}
Acks == {"ack_held", "ack_queued", "ack_lost"}
DownFrames == Acks \cup {"acquired", "granted", "queued", "rejected", "lost"}

(* The variables hold what the stream, the surface and the server keep.    *)
TypeOK ==
    /\ holder \in Claim \cup {NoClaim} /\ line \in Seq(Claim)
    /\ link \in [Claim -> BOOLEAN]
    /\ up \in [Claim -> Seq(UpFrames)] /\ down \in [Claim -> Seq(DownFrames)]
    /\ call \in [Claim -> Calls]
    /\ beat \in [Claim -> {"none", "loop", "caller", "recheck"}]
    /\ own \cup ended \cup revoked \cup abandons \cup active \cup gone \subseteq Claim
    /\ busy \cup lostAbandon \cup missed \subseteq Claim
    /\ running \subseteq Looping
    /\ drops \in 0..MaxDrops /\ timeouts \in 0..MaxTimeouts /\ losses \in 0..MaxLosses

InUse(c) == call[c] = "held" /\ c \notin ended
AtServer(c) == holder = c \/ c \in Range(line)
AbandonUnderWay(c) == "abandon" \in Range(up[c]) \/ c \in abandons

(* Every index of a claim agrees on whether it has ended, although the     *)
(* loss may be observed before the grant, while the row is being read      *)
(* again, or in the answer to somebody else's heartbeat: an active claim   *)
(* is one of the stream's own, its lifetime has not ended, only active     *)
(* claims are kept alive by a loop, and a handle in use is active, so that *)
(* releasing it is not a no-op.                                            *)
IndexesAgree ==
    /\ active \subseteq own /\ active \cap ended = {}
    /\ own \cap (ended \cup revoked) = {}
    /\ running = active \cap Looping
    /\ \A c \in active : call[c] \in {"held", "committed"}
    /\ \A c \in Claim : InUse(c) => c \in active

(* A handle in use whose lease is gone is about to find out, with or       *)
(* without a heartbeat loop: a loss or the answer to a pending heartbeat   *)
(* is on its way, or the socket is down and the handle is checked on       *)
(* reconnect.  The one exception is a beat that was given up before its    *)
(* answer came.                                                            *)
NoSilentLoss ==
    \A c \in Claim : InUse(c) =>
        \/ holder = c \/ ~link[c] \/ c \in missed
        \/ "lost" \in Range(down[c])
        \/ beat[c] # "none" /\ ("heartbeat" \in Range(up[c])
                                \/ Range(down[c]) \cap {"ack_lost", "ack_queued"} # {})

(* A revoked claim does not keep its lease or its place in line: the       *)
(* server has let go of it, or the abandon is on its way or kept for the   *)
(* next connection, or was lost with the connection it was sent on.        *)
RevokedIsReleased ==
    \A c \in revoked : AtServer(c) => AbandonUnderWay(c) \/ c \in lostAbandon

(* With a heartbeat loop, a lost lease ends its handle in the client,      *)
(* whether the loss was announced, lost with the connection or only comes  *)
(* out at the next beat: the handle's lifetime is over, so its loop stops  *)
(* and later writes do not travel under the lease. (Whether the caller is  *)
(* told is another matter: LossIsReported.)                                *)
LostLeaseEndsHandle == \A c \in Looping : InUse(c) /\ holder # c ~> ~InUse(c)

(* When the answer to a beat of the loop says that the lease is no longer  *)
(* ours, the caller's onLost is called. The code breaks this: the handler  *)
(* of the answer ends the lifetime first, which stops the loop.            *)
LossIsReported ==
    [][\A c \in running :
        /\ InUse(c) /\ beat[c] = "loop" /\ beat'[c] = "none"
        /\ down[c] # <<>> /\ Head(down[c]) \in {"ack_lost", "ack_queued"}
        /\ down'[c] = Tail(down[c])
        => OnLost(c)]_vars

(* A release gets to the server, whenever the socket was down: there is    *)
(* always a later moment at which no revoked claim is at the server,       *)
(* except for those whose release was lost in flight or client is gone.    *)
ReleaseArrives ==
    []<>(\A c \in revoked : ~AtServer(c) \/ c \in lostAbandon \cup gone)
=============================================================================
