--------------------------- MODULE ConnectionProofs ---------------------------
(***************************************************************************)
(* Proofs about the connection of a tab. The effects of one step are calls *)
(* on the client record, so the invariant is stated of a record (ClientOK, *)
(* Waiting) and followed through the calls: SendKeeps, ConnectKeeps and    *)
(* DisconnectKeeps say what the three calls everything is made of          *)
(* preserve, and there is one lemma per action. NoOrphanSocket,            *)
(* SignOutWasTold and NoEmptyWait are not inductive by themselves: they    *)
(* need that an opening socket has `connecting` set, that no probe in      *)
(* flight carries an end of the session, and, within the answer of the     *)
(* mint, who of those who wait has still to be told (Half). The record     *)
(* lemmas take the truth value b of "the client was told that its session  *)
(* is over": an action is followed with its value after the step.          *)
(***************************************************************************)
EXTENDS Connection, TLAPS

Life == {"live", "closing", "closed", "reloaded"}
SocketState == {"none", "connecting", "open", "ready", "closing"}
Stage == {"check", "fetch"}

UpTo(n) == 0..n

ClientRecord ==
    [state : State, attempt : UpTo(MaxAttempts), stuck : UpTo(MaxStuck),
     refreshes : UpTo(MaxRefreshes), timer : BOOLEAN, debounce : BOOLEAN,
     probes : [Outcome -> Nat], reconnects : [Stage -> Nat],
     waiters : SUBSET Waiter, cold : BOOLEAN, life : Life,
     terminal : BOOLEAN, bearer : BOOLEAN,
     ws : Socket \cup {NoSocket}, sock : [Socket -> SocketState],
     connecting : BOOLEAN, manual : BOOLEAN, latched : BOOLEAN, opened : BOOLEAN,
     has : BOOLEAN, retry : BOOLEAN, tries : UpTo(MaxTries)]

(* The limits of the code and of the model are natural numbers.            *)
LEMMA Bounds ==
    /\ MaxAttempts \in Nat /\ MaxStuck \in Nat /\ MaxRefreshes \in Nat /\ MaxTries \in Nat
    /\ MaxInFlight \in Nat /\ MaxFaults \in Nat
  BY ConnectionAssumption

(* A counter may be reset.                                                 *)
LEMMA Zeros ==
    /\ 0 \in UpTo(MaxAttempts) /\ 0 \in UpTo(MaxStuck)
    /\ 0 \in UpTo(MaxRefreshes) /\ 0 \in UpTo(MaxTries)
  BY Bounds DEF UpTo

(* disconnect() of the transport keeps the client well typed.              *)
LEMMA DisconnectRecord ==
    ASSUME NEW w \in ClientRecord
    PROVE  Disconnect(w) \in ClientRecord
  BY ZenonT(60) DEF Disconnect, ClientRecord, SocketState

(* connect() does too, where a WebSocket object can be made.               *)
LEMMA ConnectRecord ==
    ASSUME NEW w \in ClientRecord, Free(w) # {}
    PROVE  Connect(w) \in ClientRecord
<1> DEFINE s == CHOOSE s \in Free(w) : TRUE
<1>1. s \in Socket
  BY DEF Free
<1> HIDE DEF s
<1>2. [w EXCEPT !.ws = s, !.sock[s] = "connecting",
                   !.connecting = TRUE, !.manual = FALSE, !.opened = FALSE] \in ClientRecord
  BY <1>1 DEF ClientRecord, SocketState
<1>3. QED
  BY <1>2 DEF Connect, s

(* The transition table leads from states to states.                       *)
LEMMA TransitionState ==
    ASSUME NEW s \in State, NEW e
    PROVE  Transition(s, e) \in State
<1>1. \A x \in {"probing_network", "session_expired", "offline", "reconnecting",
                 "refreshing_credential", "auth_blocked", "waiting_for_network",
                 "backoff", "connected"} : x \in State
  BY DEF State
<1>2. QED
  BY <1>1 DEF Transition

(* What entering a state leaves alone and what it may do.                  *)
SocketsKept(w, v) == v.ws = w.ws /\ v.sock = w.sock /\ v.retry = w.retry
SocketsDropped(w, v) ==
    /\ v.ws = NoSocket /\ v.retry = FALSE
    /\ v.sock = IF w.ws = NoSocket THEN w.sock ELSE [w.sock EXCEPT ![w.ws] = "closing"]

Frame(w, v) ==
    /\ v \in ClientRecord
    /\ v.connecting = w.connecting /\ v.latched = w.latched /\ v.tries = w.tries
    /\ SocketsKept(w, v) \/ SocketsDropped(w, v)
    /\ v.life = "live" => w.life = "live"

EnterEffect(w, v) ==
    /\ Frame(w, v)
    /\ v.state = w.state \/ (w.state = "refreshing_credential" /\ v.state = "auth_blocked")
    /\ v.terminal # w.terminal => w.state = "session_expired"
    /\ v.probes = IF w.state = "probing_network" THEN [w.probes EXCEPT ![Judged] = @ + 1]
                  ELSE w.probes
    /\ v.reconnects = IF w.state = "reconnecting" THEN [w.reconnects EXCEPT !["check"] = @ + 1]
                      ELSE w.reconnects
    /\ v.waiters = IF v.state = "refreshing_credential" THEN w.waiters \cup {"machine"}
                   ELSE w.waiters

(* The fields that the machine's effects on the socket leave alone.        *)
SameMachine(w, v) ==
    /\ v.state = w.state /\ v.attempt = w.attempt /\ v.stuck = w.stuck
    /\ v.refreshes = w.refreshes /\ v.probes = w.probes
    /\ v.reconnects = w.reconnects /\ v.waiters = w.waiters
    /\ v.life = w.life /\ v.terminal = w.terminal
    /\ v.connecting = w.connecting /\ v.latched = w.latched /\ v.tries = w.tries

(* disconnect() lets go of the socket and touches nothing of the machine.  *)
LEMMA DisconnectEffect ==
    ASSUME NEW w \in ClientRecord
    PROVE  /\ Disconnect(w) \in ClientRecord
           /\ SocketsDropped(w, Disconnect(w))
           /\ SameMachine(w, Disconnect(w))
<1>1. SocketsDropped(w, Disconnect(w))
  BY DEF Disconnect, ClientRecord, SocketState, SocketsDropped
<1>2. SameMachine(w, Disconnect(w))
  BY DEF Disconnect, ClientRecord, SocketState, SameMachine
<1>3. QED
  BY <1>1, <1>2, DisconnectRecord

(* A probe is never sent with the answer that the session ended or is      *)
(* blocked.                                                                *)
LEMMA JudgedOutcome == Judged \in Outcome \ {"session_expired", "auth_blocked"}
  BY DEF Judged, Outcome

(* onEnterState, state by state: each side effect stays within             *)
(* EnterEffect.                                                            *)
LEMMA EnterState ==
    ASSUME NEW w \in ClientRecord, NEW e
    PROVE  EnterEffect(w, OnEnterState(w, e))
<1> DEFINE v == OnEnterState(w, e)
<1> USE JudgedOutcome
<1>1. CASE w.state = "connected"
  <2>1. v = [w EXCEPT !.attempt = 0, !.stuck = 0, !.timer = FALSE, !.refreshes = 0]
    BY <1>1 DEF OnEnterState
  <2>2. v \in ClientRecord
    BY <2>1, Zeros, ZenonT(60) DEF ClientRecord
  <2>3. QED
    BY <1>1, <2>1, <2>2 DEF ClientRecord, EnterEffect, Frame, SocketsKept
<1>2. CASE w.state = "offline"
  <2> DEFINE x == Disconnect(w)
  <2>1. v = [x EXCEPT !.timer = FALSE]
    BY <1>2 DEF OnEnterState
  <2>2. x \in ClientRecord /\ SameMachine(w, x) /\ SocketsDropped(w, x)
    BY DisconnectEffect
  <2> HIDE DEF x
  <2>3. v \in ClientRecord
    BY <2>1, <2>2 DEF ClientRecord
  <2>4. QED
    BY <1>2, <2>1, <2>2, <2>3 DEF ClientRecord, EnterEffect, Frame, SocketsDropped, SameMachine
<1>3. CASE w.state = "probing_network"
  <2> DEFINE x == IF e = "WS_DISCONNECTED" THEN Disconnect(w) ELSE w
  <2>1. v = [x EXCEPT !.probes[Judged] = @ + 1]
    BY <1>3 DEF OnEnterState, RunProbe
  <2>2. /\ x \in ClientRecord /\ SameMachine(w, x)
        /\ SocketsKept(w, x) \/ SocketsDropped(w, x)
    BY DisconnectEffect DEF SameMachine, SocketsKept
  <2> HIDE DEF x
  <2>3. v \in ClientRecord
    BY <2>1, <2>2 DEF ClientRecord
  <2>4. QED
    BY <1>3, <2>1, <2>2, <2>3, SMTT(30)
       DEF ClientRecord, EnterEffect, Frame, SocketsDropped, SocketsKept, SameMachine
<1>4. CASE w.state \in {"waiting_for_network", "backoff"}
  <2>1. v = ScheduleBackoff(w)
    BY <1>4 DEF OnEnterState
  <2>2. CASE w.attempt < MaxAttempts
    <3>1. v = [w EXCEPT !.attempt = w.attempt + 1, !.timer = TRUE]
      BY <2>1, <2>2 DEF ScheduleBackoff
    <3>2. w.attempt + 1 \in UpTo(MaxAttempts)
      BY <2>2, Bounds DEF ClientRecord, UpTo
    <3>3. v \in ClientRecord
      BY <3>1, <3>2 DEF ClientRecord
    <3>4. QED
      BY <1>4, <3>1, <3>3 DEF ClientRecord, EnterEffect, Frame, SocketsKept
  <2>3. CASE ~(w.attempt < MaxAttempts) /\ ~online
    <3>1. v = [w EXCEPT !.attempt = 0, !.timer = FALSE]
      BY <2>1, <2>3 DEF ScheduleBackoff
    <3>2. v \in ClientRecord
      BY <3>1, Zeros DEF ClientRecord
    <3>3. QED
      BY <1>4, <3>1, <3>2 DEF ClientRecord, EnterEffect, Frame, SocketsKept
  <2>4. CASE ~(w.attempt < MaxAttempts) /\ online
    <3>1. v = [w EXCEPT !.timer = FALSE, !.life = "reloaded"]
      BY <2>1, <2>4 DEF ScheduleBackoff
    <3>2. v \in ClientRecord
      BY <3>1 DEF ClientRecord, Life
    <3>3. QED
      BY <1>4, <3>1, <3>2 DEF ClientRecord, EnterEffect, Frame, SocketsKept
  <2>5. QED
    BY <2>2, <2>3, <2>4
<1>5. CASE w.state = "reconnecting"
  <2>1. v = [w EXCEPT !.reconnects["check"] = @ + 1]
    BY <1>5 DEF OnEnterState
  <2>2. v \in ClientRecord
    BY <2>1 DEF ClientRecord, Stage
  <2>3. QED
    BY <1>5, <2>1, <2>2 DEF ClientRecord, EnterEffect, Frame, SocketsKept
<1>6. ASSUME NEW y \in ClientRecord, SameMachine(w, [y EXCEPT !.refreshes = w.refreshes]),
             SocketsKept(w, y), w.state \in {"auth_blocked", "refreshing_credential"}
      PROVE  EnterEffect(w, AuthBlocked(y))
  <2> DEFINE x == Disconnect(y)
  <2>1. x \in ClientRecord /\ SameMachine(y, x) /\ SocketsDropped(y, x)
    BY DisconnectEffect
  <2> HIDE DEF x
  <2>2. AuthBlocked(y) = [x EXCEPT !.state = "auth_blocked", !.timer = FALSE]
    BY DEF AuthBlocked, x
  <2>3. AuthBlocked(y) \in ClientRecord
    BY <2>1, <2>2 DEF ClientRecord, State
  <2>4. QED
    BY <1>6, <2>1, <2>2, <2>3
       DEF ClientRecord, EnterEffect, Frame, SocketsDropped, SocketsKept, SameMachine
<1>7. CASE w.state = "refreshing_credential"
  <2>1. v = RefreshCredential(w)
    BY <1>7 DEF OnEnterState
  <2>2. CASE w.refreshes >= MaxRefreshes
    <3> DEFINE y == [w EXCEPT !.refreshes = 0]
    <3>1. y \in ClientRecord
      BY Zeros DEF ClientRecord
    <3>2. SameMachine(w, [y EXCEPT !.refreshes = w.refreshes]) /\ SocketsKept(w, y)
      BY DEF ClientRecord, SameMachine, SocketsKept
    <3>3. v = AuthBlocked(y)
      BY <2>1, <2>2 DEF RefreshCredential
    <3>4. QED
      BY <1>6, <1>7, <3>1, <3>2, <3>3
  <2>3. CASE ~(w.refreshes >= MaxRefreshes)
    <3>1. v = [w EXCEPT !.refreshes = @ + 1, !.waiters = @ \cup {"machine"}]
      BY <2>1, <2>3 DEF RefreshCredential
    <3>2. w.refreshes + 1 \in UpTo(MaxRefreshes)
      BY <2>3, Bounds DEF ClientRecord, UpTo
    <3>3. v \in ClientRecord
      BY <3>1, <3>2, ZenonT(60) DEF ClientRecord, Waiter
    <3>4. QED
      BY <1>7, <3>1, <3>3 DEF ClientRecord, EnterEffect, Frame, SocketsKept
  <2>4. QED
    BY <2>2, <2>3
<1>8. CASE w.state = "auth_blocked"
  <2>1. v = AuthBlocked(w)
    BY <1>8 DEF OnEnterState
  <2>2. SameMachine(w, [w EXCEPT !.refreshes = w.refreshes]) /\ SocketsKept(w, w)
    BY DEF ClientRecord, SameMachine, SocketsKept
  <2>3. QED
    BY <1>6, <1>8, <2>1, <2>2
<1>9. CASE w.state = "session_expired"
  <2> DEFINE x == Disconnect(w)
  <2>1. v = SignOut(x)
    BY <1>9 DEF OnEnterState
  <2>2. x \in ClientRecord /\ SameMachine(w, x) /\ SocketsDropped(w, x)
    BY DisconnectEffect
  <2> HIDE DEF x
  <2>3. CASE x.terminal
    BY <1>9, <2>1, <2>2, <2>3 DEF SignOut, EnterEffect, Frame, SocketsDropped, SameMachine
  <2>4. CASE ~x.terminal
    <3>1. v = [x EXCEPT !.terminal = TRUE, !.bearer = FALSE, !.life = "closing",
                        !.timer = FALSE, !.debounce = FALSE]
      BY <2>1, <2>4 DEF SignOut, End
    <3>2. v \in ClientRecord
      BY <2>2, <3>1, ZenonT(60) DEF ClientRecord, Life
    <3>3. QED
      BY <1>9, <2>2, <3>1, <3>2 DEF ClientRecord, EnterEffect, Frame, SocketsDropped, SameMachine
  <2>5. QED
    BY <2>3, <2>4
<1>10. QED
  BY <1>1, <1>2, <1>3, <1>4, <1>5, <1>7, <1>8, <1>9 DEF ClientRecord, State

SessionEnd == Expiring \cup {"PROBE_SESSION_EXPIRED"}
Probing == Wake \cup {"WS_DISCONNECTED", "WS_HANDSHAKE_FAILED", "BACKOFF_ELAPSED"}
ProbeEvents == {ProbeEvent(o) : o \in Outcome}

(* Which events lead into the states that wait or end, and out of them.    *)
LEMMA TransitionInto ==
    ASSUME NEW s \in State, NEW e
    PROVE  /\ Transition(s, e) = "session_expired" /\ s # "session_expired" => e \in SessionEnd
           /\ Transition(s, e) = "reconnecting" /\ s # "reconnecting" => e = "PROBE_SUCCESS"
           /\ Transition(s, e) = "refreshing_credential" /\ s # "refreshing_credential"
                => e = "PROBE_CREDENTIAL_STALE"
           /\ Transition(s, e) = "probing_network" /\ s # "probing_network" => e \in Probing
<1>1. e \in ProbesOn[s] => e \in Probing
  BY DEF ProbesOn, Probing, Wake, State
<1>2. e \in ExpiresOn[s] => e \in SessionEnd
  BY DEF ExpiresOn, SessionEnd, Expiring, State
<1>3. QED
  BY <1>1, <1>2 DEF Transition

(* The answer a state waits for always takes the machine out of it, so     *)
(* that no state has to wait for the same answer twice.                    *)
LEMMA TransitionOutOf ==
    ASSUME NEW e
    PROVE  /\ e \in ProbeEvents => Transition("probing_network", e) # "probing_network"
           /\ e \in {"RECONNECT_SUCCESS", "RECONNECT_FAILED", "BOOTSTRAP_FAILED_SESSION"}
                => Transition("reconnecting", e) # "reconnecting"
           /\ e \in {"CREDENTIAL_REFRESHED", "RECONNECT_FAILED", "BOOTSTRAP_FAILED_SESSION"}
                => Transition("refreshing_credential", e) # "refreshing_credential"
<1>1. /\ ProbesOn["probing_network"] = {} /\ ProbesOn["reconnecting"] = {}
      /\ ProbesOn["refreshing_credential"] = {"CREDENTIAL_REFRESHED"}
      /\ ExpiresOn["probing_network"] = {"PROBE_SESSION_EXPIRED"}
      /\ ExpiresOn["reconnecting"] = Expiring
      /\ ExpiresOn["refreshing_credential"] = {"BOOTSTRAP_FAILED_SESSION"}
  BY DEF ProbesOn, ExpiresOn, State
<1>2. e \in ProbeEvents =>
        e \in {"PROBE_SUCCESS", "PROBE_SESSION_EXPIRED", "PROBE_CREDENTIAL_STALE",
               "PROBE_AUTH_BLOCKED", "PROBE_FAILED"}
  BY DEF ProbeEvents, ProbeEvent, Outcome
<1>3. QED
  BY <1>1, <1>2 DEF Transition, Expiring

(* What an event may do to a client.                                       *)
SendEffect(w, v, e) ==
    /\ Frame(w, v)
    /\ w.life # "live" => v = w
    /\ w.life = "live" =>
         \/ v.state = Transition(w.state, e)
         \/ Transition(w.state, e) = "refreshing_credential" /\ v.state = "auth_blocked"
    /\ v.terminal # w.terminal => e \in SessionEnd
    /\ v.state # w.state /\ v.state = "session_expired" => e \in SessionEnd
    /\ \/ v.probes = w.probes /\ (v.state = "probing_network" => w.state = "probing_network")
       \/ v.probes = [w.probes EXCEPT ![Judged] = @ + 1] /\ e \in Probing
    /\ \/ v.reconnects = w.reconnects /\ (v.state = "reconnecting" => w.state = "reconnecting")
       \/ v.reconnects = [w.reconnects EXCEPT !["check"] = @ + 1] /\ e = "PROBE_SUCCESS"
    /\ \/ v.waiters = w.waiters
            /\ (v.state = "refreshing_credential" => w.state = "refreshing_credential")
       \/ v.waiters = w.waiters \cup {"machine"} /\ e = "PROBE_CREDENTIAL_STALE"

(* What send() does: nothing to a machine that is disposed of, else a      *)
(* transition and the effect of the state entered.                         *)
LEMMA SendDoes ==
    ASSUME NEW w \in ClientRecord, NEW e
    PROVE  SendEffect(w, Send(w, e), e)
<1> DEFINE s == Transition(w.state, e)
           x == [w EXCEPT !.state = s]
           v == Send(w, e)
<1>1. w.state \in State /\ s \in State
  BY TransitionState DEF ClientRecord
<1>2. CASE w.life # "live" \/ s = w.state
  <2>1. v = w
    BY <1>2 DEF Send
  <2>2. QED
    BY <1>1, <1>2, <2>1, TransitionInto DEF SendEffect, Frame, SocketsKept
<1>3. CASE ~(w.life # "live" \/ s = w.state)
  <2>1. v = OnEnterState(x, e)
    BY <1>3 DEF Send
  <2>2. x \in ClientRecord
    BY <1>1 DEF ClientRecord
  <2>3. /\ x.state = s /\ x.ws = w.ws /\ x.sock = w.sock /\ x.retry = w.retry
        /\ x.connecting = w.connecting /\ x.latched = w.latched /\ x.tries = w.tries
        /\ x.life = w.life /\ x.terminal = w.terminal /\ x.probes = w.probes
        /\ x.reconnects = w.reconnects /\ x.waiters = w.waiters
    BY DEF ClientRecord
  <2>4. EnterEffect(x, v)
    BY <2>1, <2>2, EnterState
  <2>5. Frame(w, v)
    BY <2>3, <2>4 DEF EnterEffect, Frame, SocketsKept, SocketsDropped
  <2> HIDE DEF x, v
  <2>6. v.terminal # w.terminal => e \in SessionEnd
    BY <1>1, <1>3, <2>3, <2>4, TransitionInto DEF EnterEffect
  <2>7. /\ v.state = s \/ (s = "refreshing_credential" /\ v.state = "auth_blocked")
        /\ v.state # w.state /\ v.state = "session_expired" => e \in SessionEnd
    BY <1>1, <1>3, <2>3, <2>4, TransitionInto DEF EnterEffect
  <2>8. \/ v.probes = w.probes /\ (v.state = "probing_network" => w.state = "probing_network")
        \/ v.probes = [w.probes EXCEPT ![Judged] = @ + 1] /\ e \in Probing
    BY <1>1, <1>3, <2>3, <2>4, <2>7, TransitionInto DEF EnterEffect
  <2>9. \/ v.reconnects = w.reconnects /\ (v.state = "reconnecting" => w.state = "reconnecting")
        \/ v.reconnects = [w.reconnects EXCEPT !["check"] = @ + 1] /\ e = "PROBE_SUCCESS"
    BY <1>1, <1>3, <2>3, <2>4, <2>7, TransitionInto DEF EnterEffect
  <2>10. \/ v.waiters = w.waiters
             /\ (v.state = "refreshing_credential" => w.state = "refreshing_credential")
         \/ v.waiters = w.waiters \cup {"machine"} /\ e = "PROBE_CREDENTIAL_STALE"
    BY <1>1, <1>3, <2>3, <2>4, <2>7, TransitionInto DEF EnterEffect
  <2>11. QED
    BY <1>3, <2>5, <2>6, <2>7, <2>8, <2>9, <2>10 DEF SendEffect, v
<1>4. QED
  BY <1>2, <1>3

-----------------------------------------------------------------------------
(* The inductive invariant, stated of a client record so that it can be    *)
(* followed through the calls of one step.                                 *)

(* The socket in use is the only live one; while it opens, `connecting`    *)
(* says so; and a retry of the transport is one it still has.              *)
SocketsOK(w) ==
    /\ \A s \in Socket : w.sock[s] \in {"connecting", "open", "ready"} => w.ws = s
    /\ w.ws # NoSocket => w.sock[w.ws] # "none" /\ (w.sock[w.ws] = "connecting" => w.connecting)
    /\ w.retry => w.tries < MaxTries

(* A session that ended, or a socket latched shut, was told so.            *)
Genuine(b, w) ==
    (w.terminal \/ w.state = "session_expired" \/ (w.life = "live" /\ w.latched)) => b

(* No probe is sent that would say by itself that the session ended.       *)
ProbesPlain(w) == w.probes["session_expired"] = 0 /\ w.probes["auth_blocked"] = 0

ClientOK(b, w) == w \in ClientRecord /\ SocketsOK(w) /\ Genuine(b, w) /\ ProbesPlain(w)

ProbeAwaited(w)     == \E o \in Outcome : w.probes[o] > 0
ReconnectAwaited(w) == w.reconnects["check"] + w.reconnects["fetch"] > 0

Waiting(w) ==
    w.life = "live" =>
        /\ w.state = "probing_network" => ProbeAwaited(w)
        /\ w.state = "reconnecting" => ReconnectAwaited(w)
        /\ w.state = "refreshing_credential" => "machine" \in w.waiters

(* The same just before e is delivered: what e answers need not be awaited *)
(* any more.                                                               *)
WaitingBut(w, e) ==
    w.life = "live" =>
        /\ w.state = "probing_network" => e \in ProbeEvents \/ ProbeAwaited(w)
        /\ w.state = "reconnecting" =>
             \/ e \in {"RECONNECT_SUCCESS", "RECONNECT_FAILED", "BOOTSTRAP_FAILED_SESSION"}
             \/ ReconnectAwaited(w)
        /\ w.state = "refreshing_credential" =>
             \/ e \in {"CREDENTIAL_REFRESHED", "RECONNECT_FAILED", "BOOTSTRAP_FAILED_SESSION"}
             \/ "machine" \in w.waiters

(* Neither letting the socket go nor keeping it disturbs the sockets.      *)
LEMMA FrameSockets ==
    ASSUME NEW w \in ClientRecord, SocketsOK(w), NEW v, Frame(w, v)
    PROVE  SocketsOK(v) /\ Free(v) = Free(w)
<1>1. CASE SocketsKept(w, v)
  BY <1>1 DEF SocketsKept, SocketsOK, Frame, Free
<1>2. CASE SocketsDropped(w, v)
  <2>1. CASE w.ws = NoSocket
    BY <1>2, <2>1, ConnectionAssumption DEF SocketsDropped, SocketsOK, Free
  <2>2. CASE w.ws # NoSocket
    <3>1. /\ w.ws \in Socket /\ v.ws = NoSocket /\ v.retry = FALSE
          /\ \A s \in Socket : v.sock[s] = IF s = w.ws THEN "closing" ELSE w.sock[s]
      BY <1>2, <2>2 DEF SocketsDropped, ClientRecord
    <3>2. \A s \in Socket : v.sock[s] \notin {"connecting", "open", "ready"}
      BY <3>1 DEF SocketsOK
    <3>3. \A s \in Socket : v.sock[s] = "none" <=> w.sock[s] = "none"
      BY <2>2, <3>1 DEF SocketsOK
    <3>4. QED
      BY <3>1, <3>2, <3>3 DEF SocketsOK, Free
  <2>3. QED
    BY <2>1, <2>2
<1>3. QED
  BY <1>1, <1>2 DEF Frame

(* send() keeps the invariant, as long as an event that ends the session   *)
(* is only sent when the client was told so; and a machine that waits      *)
(* afterwards waits for something.                                         *)
LEMMA SendKeeps ==
    ASSUME NEW b, NEW w, NEW e, ClientOK(b, w), e \in SessionEnd => b
    PROVE  /\ ClientOK(b, Send(w, e)) /\ Frame(w, Send(w, e))
           /\ Free(Send(w, e)) = Free(w)
           /\ WaitingBut(w, e) => Waiting(Send(w, e))
<1> DEFINE v == Send(w, e)
<1>1. w \in ClientRecord /\ SocketsOK(w) /\ SendEffect(w, v, e)
  BY SendDoes DEF ClientOK
<1> HIDE DEF v
<1>2. v \in ClientRecord /\ SocketsOK(v) /\ Free(v) = Free(w) /\ Frame(w, v)
  BY <1>1, FrameSockets DEF SendEffect, Frame
<1>3. Genuine(b, v)
  BY <1>1 DEF ClientOK, Genuine, SendEffect, Frame
<1>4. ProbesPlain(v)
  BY <1>1, JudgedOutcome DEF ClientOK, ProbesPlain, SendEffect, ClientRecord, Outcome
<1>5. ASSUME WaitingBut(w, e), v.life = "live"
      PROVE  Waiting(v)
  <2>1. /\ w.life = "live" /\ w.state \in State
        /\ \/ v.state = Transition(w.state, e)
           \/ Transition(w.state, e) = "refreshing_credential" /\ v.state = "auth_blocked"
    BY <1>1, <1>5 DEF SendEffect, Frame, ClientRecord
  <2>2. ASSUME v.state = "probing_network" PROVE ProbeAwaited(v)
    <3>1. CASE v.probes = w.probes /\ w.state = "probing_network"
      <4>1. e \notin ProbeEvents
        BY <2>1, <2>2, <3>1, TransitionOutOf
      <4>2. QED
        BY <1>5, <2>1, <3>1, <4>1 DEF WaitingBut, ProbeAwaited
    <3>2. CASE v.probes = [w.probes EXCEPT ![Judged] = @ + 1]
      <4>1. v.probes[Judged] > 0 /\ Judged \in Outcome
        BY <1>1, <3>2, JudgedOutcome DEF ClientRecord
      <4>2. QED
        BY <4>1 DEF ProbeAwaited
    <3>3. QED
      BY <1>1, <2>2, <3>1, <3>2 DEF SendEffect
  <2>3. ASSUME v.state = "reconnecting" PROVE ReconnectAwaited(v)
    <3>1. CASE v.reconnects = w.reconnects /\ w.state = "reconnecting"
      <4>1. e \notin {"RECONNECT_SUCCESS", "RECONNECT_FAILED", "BOOTSTRAP_FAILED_SESSION"}
        BY <2>1, <2>3, <3>1, TransitionOutOf
      <4>2. QED
        BY <1>5, <2>1, <3>1, <4>1 DEF WaitingBut, ReconnectAwaited
    <3>2. CASE v.reconnects = [w.reconnects EXCEPT !["check"] = @ + 1]
      BY <1>1, <3>2 DEF ClientRecord, Stage, ReconnectAwaited
    <3>3. QED
      BY <1>1, <2>3, <3>1, <3>2 DEF SendEffect
  <2>4. ASSUME v.state = "refreshing_credential" PROVE "machine" \in v.waiters
    <3>1. CASE v.waiters = w.waiters /\ w.state = "refreshing_credential"
      <4>1. e \notin {"CREDENTIAL_REFRESHED", "RECONNECT_FAILED", "BOOTSTRAP_FAILED_SESSION"}
        BY <2>1, <2>4, <3>1, TransitionOutOf
      <4>2. QED
        BY <1>5, <2>1, <3>1, <4>1 DEF WaitingBut
    <3>2. CASE v.waiters = w.waiters \cup {"machine"}
      BY <3>2
    <3>3. QED
      BY <1>1, <2>4, <3>1, <3>2 DEF SendEffect
  <2>5. QED
    BY <2>2, <2>3, <2>4 DEF Waiting
<1>6. WaitingBut(w, e) => Waiting(v)
  BY <1>5 DEF Waiting
<1>7. QED
  BY <1>2, <1>3, <1>4, <1>6 DEF ClientOK, v

(* The calls on the socket leave the machine alone.                        *)
SameState(w, v) ==
    /\ v.state = w.state /\ v.life = w.life /\ v.terminal = w.terminal /\ v.latched = w.latched
    /\ v.probes = w.probes /\ v.reconnects = w.reconnects /\ v.waiters = w.waiters

InFlightOK(w) ==
    /\ \A o, p \in Outcome : o # p => w.probes[o] + w.probes[p] <= MaxInFlight
    /\ \A o \in Outcome : w.probes[o] <= MaxInFlight
    /\ w.reconnects["check"] + w.reconnects["fetch"] <= MaxInFlight

(* A call on the socket keeps the part of the invariant about the machine. *)
LEMMA SameStateKeeps ==
    ASSUME NEW b, NEW w, ClientOK(b, w), NEW v \in ClientRecord, SocketsOK(v), SameState(w, v)
    PROVE  /\ ClientOK(b, v)
           /\ Waiting(w) => Waiting(v)
           /\ InFlightOK(w) => InFlightOK(v)
  BY DEF ClientOK, Genuine, ProbesPlain, SameState, Waiting, ProbeAwaited, ReconnectAwaited,
         InFlightOK

(* A machine that waits for something may be sent any event.               *)
LEMMA WaitingAnyway ==
    ASSUME NEW w, Waiting(w), NEW e
    PROVE  WaitingBut(w, e)
  BY DEF Waiting, WaitingBut

(* Only an event that starts a probe or a reconnect adds to what is in     *)
(* flight.                                                                 *)
LEMMA SendInFlight ==
    ASSUME NEW b, NEW w, NEW e, ClientOK(b, w), InFlightOK(w),
           e \notin Probing \cup {"PROBE_SUCCESS"}
    PROVE  InFlightOK(Send(w, e))
  BY SendDoes DEF ClientOK, SendEffect, InFlightOK

(* connect() never overwrites a socket that is still opening: when it      *)
(* makes a new one, no other is alive.                                     *)
LEMMA ConnectKeeps ==
    ASSUME NEW b, NEW w, ClientOK(b, w), Free(w) # {}
    PROVE  /\ Connect(w) \in ClientRecord /\ SocketsOK(Connect(w))
           /\ SameState(w, Connect(w))
<1> DEFINE s == CHOOSE s \in Free(w) : TRUE
           v == [w EXCEPT !.ws = s, !.sock[s] = "connecting", !.connecting = TRUE,
                          !.manual = FALSE, !.opened = FALSE]
<1>1. CASE \/ w.latched \/ w.connecting
           \/ w.ws # NoSocket /\ w.sock[w.ws] \in {"open", "ready", "closing"}
  BY <1>1 DEF Connect, ClientOK, SameState
<1>2. CASE ~(\/ w.latched \/ w.connecting
             \/ w.ws # NoSocket /\ w.sock[w.ws] \in {"open", "ready", "closing"})
  <2>1. s \in Socket /\ w.sock[s] = "none"
    BY DEF Free
  <2>2. Connect(w) = v
    BY <1>2 DEF Connect
  <2> HIDE DEF s
  <2>3. w \in ClientRecord /\ v \in ClientRecord /\ SameState(w, v)
    BY <2>1 DEF ClientOK, ClientRecord, SocketState, SameState
  <2>4. /\ v.ws = s /\ v.connecting = TRUE /\ v.retry = w.retry /\ v.tries = w.tries
        /\ \A t \in Socket : v.sock[t] = IF t = s THEN "connecting" ELSE w.sock[t]
    BY <2>1, <2>3 DEF ClientRecord
  <2>5. w.ws = NoSocket
    BY <1>2, <2>3 DEF ClientOK, SocketsOK, ClientRecord, SocketState
  <2>6. \A t \in Socket : w.sock[t] \notin {"connecting", "open", "ready"}
    BY <2>5, ConnectionAssumption DEF ClientOK, SocketsOK
  <2>7. SocketsOK(v)
    BY <2>1, <2>4, <2>6 DEF ClientOK, SocketsOK
  <2>8. QED
    BY <2>2, <2>3, <2>7
<1>3. QED
  BY <1>1, <1>2

(* disconnect() keeps the invariant, with no current socket left.          *)
LEMMA DisconnectKeeps ==
    ASSUME NEW b, NEW w, ClientOK(b, w)
    PROVE  /\ Disconnect(w) \in ClientRecord /\ SocketsOK(Disconnect(w))
           /\ SameState(w, Disconnect(w)) /\ Disconnect(w).ws = NoSocket
           /\ Disconnect(w).connecting = w.connecting /\ Disconnect(w).retry = FALSE
<1> DEFINE v == Disconnect(w)
<1>1. w \in ClientRecord /\ v \in ClientRecord /\ SameMachine(w, v) /\ SocketsDropped(w, v)
  BY DisconnectEffect DEF ClientOK
<1> HIDE DEF v
<1>2. Frame(w, v) /\ SameState(w, v) /\ v.ws = NoSocket /\ v.retry = FALSE
      /\ v.connecting = w.connecting
  BY <1>1 DEF Frame, SameMachine, SameState, SocketsDropped
<1>3. QED
  BY <1>1, <1>2, FrameSockets DEF ClientOK, v

GoodClient == ClientOK(told, m) /\ Waiting(m) /\ Within

(* The bound of the model, stated of a record.                             *)
LEMMA WithinIs == (Within <=> InFlightOK(m)) /\ (Within' <=> InFlightOK(m'))
  BY DEF Within, InFlightOK

(* What the client was told is not taken back.                             *)
LEMMA StillTold ==
    ASSUME GoodClient, told => told'
    PROVE  ClientOK(told', m)
  BY DEF GoodClient, ClientOK, Genuine

(* A step that leads to a record with these properties keeps the invariant.*)
LEMMA Reached ==
    ASSUME NEW v, ClientOK(told', v), Waiting(v), m' = v, Within' \/ InFlightOK(v)
    PROVE  GoodClient'
<1>1. Within'
  BY WithinIs
<1>2. QED
  BY <1>1 DEF GoodClient, ClientOK, Genuine, Waiting, SocketsOK, ProbesPlain,
              ProbeAwaited, ReconnectAwaited, ClientRecord

-----------------------------------------------------------------------------
(* The answers to what the machine has in flight.                          *)

(* An answer to a probe, early or late, keeps the invariant:               *)
(* session_expired is only ever answered by a probe made now.              *)
LEMMA ProbeAnswersKeeps ==
    ASSUME GoodClient, NEW sent \in Outcome, NEW o \in Outcome, ProbeAnswers(sent, o)
    PROVE  GoodClient'
<1> DEFINE x == [m EXCEPT !.probes[sent] = @ - 1]
           e == ProbeEvent(o)
<1>1. m \in ClientRecord /\ m.probes[sent] > 0 /\ m' = Send(x, e) /\ Within' /\ (told => told')
  BY DEF GoodClient, ClientOK, ProbeAnswers, env, Quiet
<1>2. x \in ClientRecord
  BY <1>1 DEF ClientRecord
<1>3. /\ \A p \in Outcome : x.probes[p] = IF p = sent THEN m.probes[p] - 1 ELSE m.probes[p]
      /\ x.state = m.state /\ x.life = m.life /\ x.terminal = m.terminal
      /\ x.latched = m.latched /\ x.reconnects = m.reconnects /\ x.waiters = m.waiters
      /\ x.ws = m.ws /\ x.sock = m.sock /\ x.connecting = m.connecting
      /\ x.retry = m.retry /\ x.tries = m.tries
  BY <1>1 DEF ClientRecord
<1> HIDE DEF x
<1>4. sent \notin {"session_expired", "auth_blocked"}
  BY <1>1 DEF GoodClient, ClientOK, ProbesPlain
<1>5. ClientOK(told', x)
  BY <1>1, <1>2, <1>3, <1>4 DEF GoodClient, ClientOK, SocketsOK, Genuine, ProbesPlain, Outcome
<1>6. e \in SessionEnd => o = "session_expired"
  BY DEF ProbeEvent, Outcome, SessionEnd, Expiring
<1>7. o = "session_expired" => told'
  BY DEF ProbeAnswers
<1>8. e \in ProbeEvents
  BY DEF ProbeEvents
<1>9. WaitingBut(x, e)
  BY <1>3, <1>8 DEF GoodClient, Waiting, WaitingBut, ReconnectAwaited
<1>10. ClientOK(told', Send(x, e)) /\ Waiting(Send(x, e))
  BY <1>5, <1>6, <1>7, <1>9, SendKeeps
<1>11. QED
  BY <1>1, <1>10, Reached

(* A reconnect that goes on to a full bootstrap is still awaited.          *)
LEMMA ReconnectChecksKeeps ==
    ASSUME GoodClient, ReconnectChecks
    PROVE  GoodClient'
<1> DEFINE v == [m EXCEPT !.reconnects["check"] = @ - 1, !.reconnects["fetch"] = @ + 1]
<1>1. m \in ClientRecord /\ m.reconnects["check"] > 0 /\ m' = v /\ (told => told')
  BY DEF GoodClient, ClientOK, ReconnectChecks, env, Quiet
<1>2. v \in ClientRecord
  <2> DEFINE r == [[m.reconnects EXCEPT !["check"] = @ - 1] EXCEPT !["fetch"] = @ + 1]
  <2>1. r \in [Stage -> Nat]
    BY <1>1 DEF ClientRecord, Stage
  <2>2. v = [m EXCEPT !.reconnects = r]
    BY <1>1 DEF ClientRecord
  <2> HIDE DEF r
  <2>3. QED
    BY <1>1, <2>1, <2>2 DEF ClientRecord
<1>3. /\ v.reconnects["check"] + v.reconnects["fetch"]
             = m.reconnects["check"] + m.reconnects["fetch"]
      /\ v.state = m.state /\ v.life = m.life /\ v.terminal = m.terminal
      /\ v.latched = m.latched /\ v.probes = m.probes /\ v.waiters = m.waiters
      /\ v.ws = m.ws /\ v.sock = m.sock /\ v.connecting = m.connecting
      /\ v.retry = m.retry /\ v.tries = m.tries
  BY <1>1 DEF ClientRecord, Stage
<1> HIDE DEF v
<1>4. ClientOK(told', v) /\ Waiting(v) /\ InFlightOK(v)
  BY <1>1, <1>2, <1>3, WithinIs
     DEF GoodClient, ClientOK, SocketsOK, Genuine, ProbesPlain, Waiting, ProbeAwaited,
         ReconnectAwaited, InFlightOK
<1>5. QED
  BY <1>1, <1>4, Reached

(* A reconnect that ends is awaited no more, by the event that reports it. *)
LEMMA ReconnectDoneIs ==
    ASSUME GoodClient, told => told', NEW stage \in Stage, m.reconnects[stage] > 0,
           NEW x \in ClientRecord, x = ReconnectDone(stage)
    PROVE  /\ ClientOK(told', x) /\ InFlightOK(x) /\ x.ws = m.ws /\ x.sock = m.sock
           /\ \A e \in {"RECONNECT_SUCCESS", "RECONNECT_FAILED", "BOOTSTRAP_FAILED_SESSION"} :
                WaitingBut(x, e)
<1>1. /\ m \in ClientRecord
      /\ \A g \in Stage : x.reconnects[g] = IF g = stage THEN m.reconnects[g] - 1
                                             ELSE m.reconnects[g]
      /\ x.state = m.state /\ x.life = m.life /\ x.terminal = m.terminal
      /\ x.latched = m.latched /\ x.probes = m.probes /\ x.waiters = m.waiters
      /\ x.ws = m.ws /\ x.sock = m.sock /\ x.connecting = m.connecting
      /\ x.retry = m.retry /\ x.tries = m.tries
  BY DEF GoodClient, ClientOK, ClientRecord, ReconnectDone
<1>2. ClientOK(told', x)
  BY <1>1 DEF GoodClient, ClientOK, SocketsOK, Genuine, ProbesPlain
<1>3. m.reconnects \in [Stage -> Nat]
  BY <1>1 DEF ClientRecord
<1>4. InFlightOK(x)
  BY <1>1, <1>3, WithinIs, Bounds DEF GoodClient, InFlightOK, Stage
<1>5. \A e \in {"RECONNECT_SUCCESS", "RECONNECT_FAILED", "BOOTSTRAP_FAILED_SESSION"} :
        WaitingBut(x, e)
  BY <1>1 DEF GoodClient, Waiting, WaitingBut, ProbeAwaited
<1>6. QED
  BY <1>1, <1>2, <1>4, <1>5

(* Taking a reconnect off the count keeps the client well typed.           *)
LEMMA ReconnectDoneRecord ==
    ASSUME m \in ClientRecord, NEW stage \in Stage, m.reconnects[stage] > 0
    PROVE  ReconnectDone(stage) \in ClientRecord
  BY DEF ClientRecord, ReconnectDone, Stage

(* A call on the socket changes nothing that is awaited.                   *)
LEMMA WaitingButSame ==
    ASSUME NEW w, NEW v, NEW e, SameState(w, v), WaitingBut(w, e)
    PROVE  WaitingBut(v, e)
  BY DEF SameState, WaitingBut, ProbeAwaited, ReconnectAwaited

(* A reconnect that succeeds opens a socket and tells the machine.         *)
LEMMA ReconnectSucceedsKeeps ==
    ASSUME GoodClient, NEW stage \in Stage, ReconnectSucceeds(stage)
    PROVE  GoodClient'
<1> DEFINE d == ReconnectDone(stage)
           w == IF stage = "fetch" THEN [d EXCEPT !.cold = FALSE] ELSE d
           y == [w EXCEPT !.tries = 0]
           x == OpenAfterReconnect(w)
           e == "RECONNECT_SUCCESS"
<1>1. /\ m \in ClientRecord /\ m.reconnects[stage] > 0 /\ Free(m) # {} /\ m' = Send(x, e)
      /\ (told => told')
  BY DEF GoodClient, ClientOK, ReconnectSucceeds, env, Quiet
<1>2. d \in ClientRecord
  BY <1>1, ReconnectDoneRecord
<1>3. ClientOK(told', d) /\ InFlightOK(d) /\ WaitingBut(d, e) /\ d.sock = m.sock
  BY <1>1, <1>2, ReconnectDoneIs
<1> HIDE DEF d
<1>4. /\ w \in ClientRecord /\ SameState(d, w) /\ w.sock = d.sock /\ w.ws = d.ws
      /\ w.connecting = d.connecting /\ w.retry = d.retry /\ w.tries = d.tries
  <2>1. CASE stage = "fetch"
    <3>1. w = [d EXCEPT !.cold = FALSE]
      BY <2>1
    <3> HIDE DEF w
    <3>2. QED
      BY <1>2, <3>1 DEF ClientRecord, SameState
  <2>2. CASE stage # "fetch"
    BY <1>2, <2>2 DEF SameState
  <2>3. QED
    BY <2>1, <2>2
<1> HIDE DEF w
<1>5. /\ y \in ClientRecord /\ SameState(d, y) /\ y.sock = d.sock /\ y.ws = d.ws
      /\ y.connecting = d.connecting /\ y.retry = d.retry /\ y.tries = 0
  BY <1>4, Zeros DEF ClientRecord, SameState
<1> HIDE DEF y
<1>6. SocketsOK(w) /\ SocketsOK(y)
  BY <1>2, <1>3, <1>4, <1>5, Bounds DEF ClientOK, SocketsOK, ClientRecord, UpTo
<1>7. ClientOK(told', w) /\ ClientOK(told', y)
  BY <1>3, <1>4, <1>5, <1>6, SameStateKeeps
<1>8. Free(y) # {}
  BY <1>1, <1>3, <1>5 DEF Free
<1>9. x \in ClientRecord /\ SocketsOK(x) /\ SameState(d, x)
  <2>1. x \in {w, Connect(y)}
    BY DEF OpenAfterReconnect, y
  <2>2. QED
    BY <1>4, <1>5, <1>6, <1>7, <1>8, <2>1, ConnectKeeps DEF SameState
<1> HIDE DEF x
<1>10. ClientOK(told', x) /\ InFlightOK(x) /\ WaitingBut(x, e)
  BY <1>3, <1>9, SameStateKeeps, WaitingButSame
<1>11. e \notin SessionEnd /\ e \notin Probing \cup {"PROBE_SUCCESS"}
  BY DEF SessionEnd, Expiring, Probing, Wake
<1>12. ClientOK(told', Send(x, e)) /\ Waiting(Send(x, e)) /\ InFlightOK(Send(x, e))
  BY <1>10, <1>11, SendKeeps, SendInFlight
<1>13. QED
  BY <1>1, <1>12, Reached

(* A reconnect that fails sends the machine to its backoff.                *)
LEMMA ReconnectFailsKeeps ==
    ASSUME GoodClient, NEW stage \in Stage, ReconnectFails(stage)
    PROVE  GoodClient'
<1> DEFINE x == ReconnectDone(stage)
           e == "RECONNECT_FAILED"
<1>1. /\ m \in ClientRecord /\ m.reconnects[stage] > 0 /\ m' = Send(x, e) /\ (told => told')
  BY DEF GoodClient, ClientOK, ReconnectFails, env, Quiet
<1>2. ClientOK(told', x) /\ InFlightOK(x) /\ WaitingBut(x, e)
  BY <1>1, ReconnectDoneRecord, ReconnectDoneIs
<1>3. e \notin SessionEnd /\ e \notin Probing \cup {"PROBE_SUCCESS"}
  BY DEF SessionEnd, Expiring, Probing, Wake
<1>4. ClientOK(told', Send(x, e)) /\ Waiting(Send(x, e)) /\ InFlightOK(Send(x, e))
  BY <1>2, <1>3, SendKeeps, SendInFlight
<1>5. QED
  BY <1>1, <1>4, Reached

(* A bootstrap refused for the session latches the socket; the client was  *)
(* told.                                                                   *)
LEMMA ReconnectRefusedKeeps ==
    ASSUME GoodClient, ReconnectRefused
    PROVE  GoodClient'
<1> DEFINE d == ReconnectDone("fetch")
           w == [d EXCEPT !.latched = TRUE]
           y == Disconnect(w)
           x == [y EXCEPT !.cold = TRUE]
           e == "BOOTSTRAP_FAILED_SESSION"
<1>1. /\ m \in ClientRecord /\ m.reconnects["fetch"] > 0 /\ m' = Send(x, e) /\ (told => told')
      /\ told'
  BY DEF GoodClient, ClientOK, ReconnectRefused
<1>2. "fetch" \in Stage
  BY DEF Stage
<1>3. d \in ClientRecord
  BY <1>1, <1>2, ReconnectDoneRecord
<1>4. ClientOK(told', d) /\ InFlightOK(d) /\ WaitingBut(d, e)
  BY <1>1, <1>2, <1>3, ReconnectDoneIs
<1> HIDE DEF d
<1>5. w \in ClientRecord /\ ClientOK(told', w) /\ InFlightOK(w) /\ WaitingBut(w, e)
  <2>1. /\ w \in ClientRecord /\ w.state = d.state /\ w.probes = d.probes
        /\ w.reconnects = d.reconnects /\ w.waiters = d.waiters /\ w.life = d.life
        /\ w.terminal = d.terminal /\ w.ws = d.ws /\ w.sock = d.sock
        /\ w.connecting = d.connecting /\ w.retry = d.retry /\ w.tries = d.tries
        /\ w.manual = d.manual /\ w.opened = d.opened /\ w.latched = TRUE
    BY <1>3 DEF ClientRecord
  <2> HIDE DEF w
  <2>2. ClientOK(told', w)
    BY <1>1, <1>4, <2>1 DEF ClientOK, SocketsOK, Genuine, ProbesPlain
  <2>3. InFlightOK(w) /\ WaitingBut(w, e)
    BY <1>4, <2>1 DEF InFlightOK, WaitingBut, ProbeAwaited, ReconnectAwaited
  <2>4. QED
    BY <2>1, <2>2, <2>3
<1> HIDE DEF w
<1>6. y \in ClientRecord /\ SocketsOK(y) /\ SameState(w, y)
  BY <1>5, DisconnectKeeps
<1> HIDE DEF y
<1>7. x \in ClientRecord /\ SocketsOK(x) /\ SameState(w, x)
  BY <1>6 DEF ClientRecord, SocketsOK, SameState
<1> HIDE DEF x
<1>8. ClientOK(told', x) /\ InFlightOK(x) /\ WaitingBut(x, e)
  BY <1>5, <1>7, SameStateKeeps, WaitingButSame
<1>9. e \notin Probing \cup {"PROBE_SUCCESS"}
  BY DEF Probing, Wake
<1>10. ClientOK(told', Send(x, e)) /\ Waiting(Send(x, e)) /\ InFlightOK(Send(x, e))
  BY <1>1, <1>8, <1>9, SendKeeps, SendInFlight
<1>11. QED
  BY <1>1, <1>10, Reached

-----------------------------------------------------------------------------
(* The re-mint: those in R have still to be told its answer.               *)
Half(b, w, R) ==
    /\ ClientOK(b, w)
    /\ w.life = "live" =>
         /\ w.state = "probing_network" => ProbeAwaited(w)
         /\ w.state = "reconnecting" => ReconnectAwaited(w)
         /\ w.state = "refreshing_credential" => "machine" \in R
    /\ "socket" \in R => Free(w) # {}

Minted == {"CREDENTIAL_REFRESHED", "RECONNECT_FAILED", "BOOTSTRAP_FAILED_SESSION"}

(* The answer of the mint takes the machine out of refreshing_credential.  *)
LEMMA SendMinted ==
    ASSUME NEW b, NEW w, NEW R, Half(b, w, R), NEW e \in Minted, e \in SessionEnd => b,
           NEW who
    PROVE  Half(b, Send(w, e), R \ {who})
<1> DEFINE v == Send(w, e)
<1>1. ClientOK(b, w) /\ w \in ClientRecord
  BY DEF Half, ClientOK
<1>2. WaitingBut(w, e)
  BY DEF Half, WaitingBut, Minted
<1>3. ClientOK(b, v) /\ Waiting(v) /\ Free(v) = Free(w)
  BY <1>1, <1>2, SendKeeps
<1>4. SendEffect(w, v, e)
  BY <1>1, SendDoes
<1> HIDE DEF v
<1>5. v.life = "live" => v.state # "refreshing_credential"
  <2> SUFFICES ASSUME v.life = "live", v.state = "refreshing_credential"
               PROVE  FALSE
    OBVIOUS
  <2>1. w.life = "live" /\ Transition(w.state, e) = "refreshing_credential" /\ w.state \in State
    BY <1>1, <1>4 DEF SendEffect, Frame, ClientRecord
  <2>2. e # "PROBE_CREDENTIAL_STALE"
    BY DEF Minted
  <2>3. w.state = "refreshing_credential"
    BY <2>1, <2>2, TransitionInto
  <2>4. QED
    BY <2>1, <2>3, TransitionOutOf DEF Minted
<1>6. QED
  BY <1>3, <1>5 DEF Half, Waiting, v

(* A call on the socket leaves the rest to be told.                        *)
LEMMA HalfSame ==
    ASSUME NEW b, NEW w, NEW R, Half(b, w, R), NEW v, ClientOK(b, v), SameState(w, v), NEW who,
           who = "machine" => v.state # "refreshing_credential" \/ v.life # "live",
           "socket" \in R \ {who} => Free(v) = Free(w)
    PROVE  Half(b, v, R \ {who})
  BY DEF Half, SameState, ProbeAwaited, ReconnectAwaited

(* The minted credential is handed to one of those who wait.               *)
LEMMA RefreshedHalf ==
    ASSUME NEW b, NEW w, NEW R, Half(b, w, R), NEW who \in R
    PROVE  Half(b, Refreshed(w, who), R \ {who})
<1> DEFINE z == [w EXCEPT !.bearer = TRUE]
           y == [w EXCEPT !.bearer = TRUE, !.tries = 0]
<1>0. w \in ClientRecord /\ ClientOK(b, w)
  BY DEF Half, ClientOK
<1>1. CASE who = "socket"
  <2>1. /\ y \in ClientRecord /\ SameState(w, y) /\ y.sock = w.sock /\ y.ws = w.ws
        /\ y.connecting = w.connecting /\ y.retry = w.retry /\ y.tries = 0
    BY <1>0, Zeros DEF ClientRecord, SameState
  <2> HIDE DEF y
  <2>2. SocketsOK(y)
    BY <1>0, <2>1, Bounds DEF ClientOK, SocketsOK, ClientRecord, UpTo
  <2>3. ClientOK(b, y) /\ Free(y) # {}
    BY <1>0, <1>1, <2>1, <2>2, SameStateKeeps DEF Half, Free
  <2>4. Connect(y) \in ClientRecord /\ SocketsOK(Connect(y)) /\ SameState(y, Connect(y))
    BY <2>3, ConnectKeeps
  <2>5. ClientOK(b, Connect(y)) /\ SameState(w, Connect(y))
    BY <2>1, <2>3, <2>4, SameStateKeeps DEF SameState
  <2>6. Half(b, Connect(y), R \ {who})
    BY <1>1, <2>5, HalfSame
  <2>7. QED
    BY <1>1, <2>6 DEF Refreshed, y
<1>2. CASE who # "socket"
  <2>1. /\ z \in ClientRecord /\ SameState(w, z) /\ z.sock = w.sock /\ z.ws = w.ws
        /\ z.connecting = w.connecting /\ z.retry = w.retry /\ z.tries = w.tries
    BY <1>0 DEF ClientRecord, SameState
  <2> HIDE DEF z
  <2>2. SocketsOK(z)
    BY <1>0, <2>1 DEF ClientOK, SocketsOK
  <2>3. ClientOK(b, z) /\ Free(z) = Free(w)
    BY <1>0, <2>1, <2>2, SameStateKeeps DEF Free
  <2>4. Half(b, z, R)
    BY <2>1, <2>3 DEF Half, SameState, ProbeAwaited, ReconnectAwaited
  <2>5. "CREDENTIAL_REFRESHED" \in Minted /\ "CREDENTIAL_REFRESHED" \notin SessionEnd
    BY DEF Minted, SessionEnd, Expiring
  <2>6. Half(b, Send(z, "CREDENTIAL_REFRESHED"), R \ {who})
    BY <2>4, <2>5, SendMinted
  <2>7. QED
    BY <1>2, <2>6 DEF Refreshed, z
<1>3. QED
  BY <1>1, <1>2

(* The end of the session, where the client was told of it.                *)
LEMMA SignOutKeeps ==
    ASSUME NEW b, NEW w, ClientOK(b, w), b
    PROVE  /\ ClientOK(b, SignOut(w)) /\ SignOut(w).probes = w.probes
           /\ SignOut(w).state = w.state /\ SignOut(w).reconnects = w.reconnects
           /\ SignOut(w).waiters = w.waiters /\ SignOut(w).sock = w.sock
           /\ SignOut(w).life = "live" => w.life = "live"
<1> DEFINE v == [w EXCEPT !.terminal = TRUE, !.bearer = FALSE, !.life = "closing",
                          !.timer = FALSE, !.debounce = FALSE]
<1>1. CASE w.terminal
  BY <1>1 DEF SignOut
<1>2. CASE ~w.terminal
  <2>1. SignOut(w) = v
    BY <1>2 DEF SignOut, End
  <2>2. w \in ClientRecord /\ v \in ClientRecord
    BY DEF ClientOK, ClientRecord, Life
  <2>3. /\ v.state = w.state /\ v.probes = w.probes /\ v.reconnects = w.reconnects
        /\ v.waiters = w.waiters /\ v.sock = w.sock /\ v.life = "closing" /\ v.ws = w.ws
        /\ v.connecting = w.connecting /\ v.retry = w.retry /\ v.tries = w.tries
    BY <2>2 DEF ClientRecord
  <2> HIDE DEF v
  <2>4. ClientOK(b, v)
    BY <2>2, <2>3 DEF ClientOK, SocketsOK, Genuine, ProbesPlain
  <2>5. QED
    BY <2>1, <2>3, <2>4
<1>3. QED
  BY <1>1, <1>2

(* The session error of the socket, where the client was told of it.       *)
LEMMA SessionErrorKeeps ==
    ASSUME NEW b, NEW w, ClientOK(b, w), b
    PROVE  /\ ClientOK(b, SessionError(w)) /\ SessionError(w).probes = w.probes
           /\ SessionError(w).state = w.state /\ SessionError(w).reconnects = w.reconnects
           /\ SessionError(w).waiters = w.waiters /\ SessionError(w).sock = w.sock
           /\ SessionError(w).life = "live" => w.life = "live"
<1> DEFINE x == [w EXCEPT !.latched = TRUE]
<1>1. w \in ClientRecord /\ x \in ClientRecord
  BY DEF ClientOK, ClientRecord
<1>2. /\ x.state = w.state /\ x.probes = w.probes /\ x.reconnects = w.reconnects
      /\ x.waiters = w.waiters /\ x.sock = w.sock /\ x.life = w.life /\ x.ws = w.ws
      /\ x.connecting = w.connecting /\ x.retry = w.retry /\ x.tries = w.tries
  BY <1>1 DEF ClientRecord
<1> HIDE DEF x
<1>3. ClientOK(b, x)
  BY <1>1, <1>2 DEF ClientOK, SocketsOK, Genuine, ProbesPlain
<1>4. SessionError(w) = SignOut(x)
  BY DEF SessionError, ForwardSocketEvent, x
<1>5. QED
  BY <1>2, <1>3, <1>4, SignOutKeeps

(* The end of the login is told to one of those who wait.                  *)
LEMMA LoginGoneHalf ==
    ASSUME NEW b, NEW w, NEW R, Half(b, w, R), NEW who \in R, b
    PROVE  Half(b, LoginGone(w, who), R \ {who})
<1>0. ClientOK(b, w)
  BY DEF Half
<1>1. CASE who = "socket"
  <2> DEFINE v == SessionError(w)
  <2>1. /\ ClientOK(b, v) /\ v.probes = w.probes /\ v.state = w.state
        /\ v.reconnects = w.reconnects /\ v.sock = w.sock
        /\ v.life = "live" => w.life = "live"
    BY <1>0, SessionErrorKeeps
  <2> HIDE DEF v
  <2>2. Half(b, v, R \ {who})
    BY <1>1, <2>1 DEF Half, ProbeAwaited, ReconnectAwaited
  <2>3. QED
    BY <1>1, <2>2 DEF LoginGone, v
<1>2. CASE who # "socket"
  <2>1. "BOOTSTRAP_FAILED_SESSION" \in Minted
    BY DEF Minted
  <2>2. QED
    BY <1>2, <2>1, SendMinted DEF LoginGone
<1>3. QED
  BY <1>1, <1>2

(* A mint that failed is told to one of those who wait: only the machine   *)
(* acts on it.                                                             *)
LEMMA MintFailedHalf ==
    ASSUME NEW b, NEW w, NEW R, Half(b, w, R), NEW who \in R
    PROVE  Half(b, MintFailed(w, who), R \ {who})
<1>1. CASE who = "machine"
  <2>1. "RECONNECT_FAILED" \in Minted /\ "RECONNECT_FAILED" \notin SessionEnd
    BY DEF Minted, SessionEnd, Expiring
  <2>2. QED
    BY <1>1, <2>1, SendMinted DEF MintFailed
<1>2. CASE who # "machine"
  BY <1>2 DEF MintFailed, Half
<1>3. QED
  BY <1>1, <1>2

(* One that does not wait is not told.                                     *)
LEMMA NotWaiting ==
    ASSUME NEW b, NEW w, NEW R, Half(b, w, R), NEW who, who \notin R
    PROVE  Half(b, w, R \ {who})
  BY DEF Half

(* After the three turns of any order nobody is left.                      *)
LEMMA AllTold ==
    ASSUME NEW p \in Orders, NEW R \in SUBSET Waiter
    PROVE  ((R \ {p[1]}) \ {p[2]}) \ {p[3]} = {}
<1>1. p[1] \in Waiter /\ p[2] \in Waiter /\ p[3] \in Waiter
      /\ p[1] # p[2] /\ p[2] # p[3] /\ p[1] # p[3]
  BY DEF Orders
<1>2. \A x \in Waiter : x \in {p[1], p[2], p[3]}
  BY <1>1 DEF Waiter
<1>3. QED
  BY <1>2

(* Before the first turn everybody who waits is left.                      *)
LEMMA Untold ==
    ASSUME GoodClient, told => told', Free(m) # {}
    PROVE  Half(told', [m EXCEPT !.waiters = {}], m.waiters)
<1> DEFINE w == [m EXCEPT !.waiters = {}]
<1>1. m \in ClientRecord /\ w \in ClientRecord
  BY DEF GoodClient, ClientOK, ClientRecord
<1>2. /\ w.state = m.state /\ w.probes = m.probes /\ w.reconnects = m.reconnects
      /\ w.sock = m.sock /\ w.life = m.life /\ w.ws = m.ws /\ w.latched = m.latched
      /\ w.connecting = m.connecting /\ w.retry = m.retry /\ w.tries = m.tries
      /\ w.terminal = m.terminal
  BY <1>1 DEF ClientRecord
<1> HIDE DEF w
<1>3. ClientOK(told', w)
  BY <1>1, <1>2 DEF GoodClient, ClientOK, SocketsOK, Genuine, ProbesPlain
<1>4. QED
  BY <1>2, <1>3 DEF GoodClient, Half, Waiting, ProbeAwaited, ReconnectAwaited, Free, w

(* The answer of the mint keeps the invariant, in whichever order those    *)
(* who wait go on.                                                         *)
LEMMA MintAnswersKeeps ==
    ASSUME GoodClient, MintAnswers
    PROVE  GoodClient'
<1> DEFINE w == [m EXCEPT !.waiters = {}]
           W == m.waiters
           T(p) == ((W \ {p[1]}) \ {p[2]}) \ {p[3]}
<1>1. /\ Free(m) # {} /\ Within' /\ (told => told') /\ W \in SUBSET Waiter
      /\ \/ m' \in Resumed(Refreshed)
         \/ told' /\ m' \in Resumed(LoginGone)
         \/ m' \in Resumed(MintFailed)
  BY DEF MintAnswers, GoodClient, ClientOK, ClientRecord
<1>2. Half(told', w, W)
  BY <1>1, Untold
<1> HIDE DEF w
<1>3. \E p \in Orders : Half(told', m', T(p))
  <2>1. CASE m' \in Resumed(Refreshed)
    <3> DEFINE After(v, who) == IF who \in W THEN Refreshed(v, who) ELSE v
    <3>1. PICK p \in Orders : m' = After(After(After(w, p[1]), p[2]), p[3])
      BY <2>1 DEF Resumed, w
    <3>2. \A v, R, who : Half(told', v, R) /\ (who \in W <=> who \in R)
                            => Half(told', After(v, who), R \ {who})
      BY RefreshedHalf, NotWaiting
    <3> HIDE DEF After
    <3>3. p[1] # p[2] /\ p[2] # p[3] /\ p[1] # p[3]
      BY DEF Orders
    <3>4. Half(told', After(w, p[1]), W \ {p[1]})
      BY <1>2, <3>2
    <3>5. Half(told', After(After(w, p[1]), p[2]), (W \ {p[1]}) \ {p[2]})
      BY <3>2, <3>3, <3>4
    <3>6. QED
      BY <3>1, <3>2, <3>3, <3>5
  <2>2. CASE told' /\ m' \in Resumed(LoginGone)
    <3> DEFINE After(v, who) == IF who \in W THEN LoginGone(v, who) ELSE v
    <3>1. PICK p \in Orders : m' = After(After(After(w, p[1]), p[2]), p[3])
      BY <2>2 DEF Resumed, w
    <3>2. \A v, R, who : Half(told', v, R) /\ (who \in W <=> who \in R)
                            => Half(told', After(v, who), R \ {who})
      BY <2>2, LoginGoneHalf, NotWaiting
    <3> HIDE DEF After
    <3>3. p[1] # p[2] /\ p[2] # p[3] /\ p[1] # p[3]
      BY DEF Orders
    <3>4. Half(told', After(w, p[1]), W \ {p[1]})
      BY <1>2, <3>2
    <3>5. Half(told', After(After(w, p[1]), p[2]), (W \ {p[1]}) \ {p[2]})
      BY <3>2, <3>3, <3>4
    <3>6. QED
      BY <3>1, <3>2, <3>3, <3>5
  <2>3. CASE m' \in Resumed(MintFailed)
    <3> DEFINE After(v, who) == IF who \in W THEN MintFailed(v, who) ELSE v
    <3>1. PICK p \in Orders : m' = After(After(After(w, p[1]), p[2]), p[3])
      BY <2>3 DEF Resumed, w
    <3>2. \A v, R, who : Half(told', v, R) /\ (who \in W <=> who \in R)
                            => Half(told', After(v, who), R \ {who})
      BY MintFailedHalf, NotWaiting
    <3> HIDE DEF After
    <3>3. p[1] # p[2] /\ p[2] # p[3] /\ p[1] # p[3]
      BY DEF Orders
    <3>4. Half(told', After(w, p[1]), W \ {p[1]})
      BY <1>2, <3>2
    <3>5. Half(told', After(After(w, p[1]), p[2]), (W \ {p[1]}) \ {p[2]})
      BY <3>2, <3>3, <3>4
    <3>6. QED
      BY <3>1, <3>2, <3>3, <3>5
  <2>4. QED
    BY <1>1, <2>1, <2>2, <2>3
<1>4. Half(told', m', {})
  BY <1>1, <1>3, AllTold
<1>5. ClientOK(told', m') /\ Waiting(m')
  BY <1>4 DEF Half, Waiting
<1>6. QED
  BY <1>1, <1>5, Reached

-----------------------------------------------------------------------------
(* The timers.                                                             *)

(* A step that only sends the machine an event that does not end the       *)
(* session.                                                                *)
LEMMA SendStep ==
    ASSUME GoodClient, NEW x \in ClientRecord, SocketsOK(x), SameState(m, x),
           NEW e, e \notin SessionEnd, m' = Send(x, e), (told => told'),
           Within' \/ e \notin Probing \cup {"PROBE_SUCCESS"}
    PROVE  GoodClient'
<1>1. ClientOK(told', x) /\ InFlightOK(x) /\ WaitingBut(x, e)
  BY StillTold, SameStateKeeps, WithinIs, WaitingAnyway DEF GoodClient
<1>2. ClientOK(told', Send(x, e)) /\ Waiting(Send(x, e))
  BY <1>1, SendKeeps
<1>3. Within' \/ InFlightOK(Send(x, e))
  BY <1>1, SendInFlight
<1>4. QED
  BY <1>2, <1>3, Reached

(* A step that only touches the socket.                                    *)
LEMMA SocketStep ==
    ASSUME GoodClient, NEW v \in ClientRecord, SocketsOK(v), SameState(m, v),
           m' = v, (told => told')
    PROVE  GoodClient'
<1>1. ClientOK(told', v) /\ InFlightOK(v) /\ Waiting(v)
  BY StillTold, SameStateKeeps, WithinIs DEF GoodClient
<1>2. QED
  BY <1>1, Reached

(* The pre-roll timer joins those who wait for the mint.                   *)
LEMMA PrerollKeeps ==
    ASSUME GoodClient, Preroll
    PROVE  GoodClient'
<1> DEFINE v == [m EXCEPT !.waiters = @ \cup {"preroll"}]
<1>1. m \in ClientRecord /\ m' = v /\ (told => told')
  BY DEF GoodClient, ClientOK, Preroll, env, Quiet
<1>2. v \in ClientRecord
  BY <1>1 DEF ClientRecord, Waiter
<1>3. /\ v.state = m.state /\ v.probes = m.probes /\ v.reconnects = m.reconnects
      /\ v.sock = m.sock /\ v.life = m.life /\ v.ws = m.ws /\ v.latched = m.latched
      /\ v.connecting = m.connecting /\ v.retry = m.retry /\ v.tries = m.tries
      /\ v.terminal = m.terminal /\ v.waiters = m.waiters \cup {"preroll"}
  BY <1>1 DEF ClientRecord
<1> HIDE DEF v
<1>4. ClientOK(told', v)
  BY <1>1, <1>2, <1>3 DEF GoodClient, ClientOK, SocketsOK, Genuine, ProbesPlain
<1>5. Waiting(v)
  BY <1>3 DEF GoodClient, Waiting, ProbeAwaited, ReconnectAwaited
<1>6. InFlightOK(v)
  BY <1>3, WithinIs DEF GoodClient, InFlightOK
<1>7. QED
  BY <1>1, <1>4, <1>5, <1>6, Reached

(* The backoff timer sends the machine to probe again.                     *)
LEMMA BackoffElapsesKeeps ==
    ASSUME GoodClient, BackoffElapses
    PROVE  GoodClient'
<1> DEFINE x == [m EXCEPT !.timer = FALSE]
<1>1. m \in ClientRecord /\ m' = Send(x, "BACKOFF_ELAPSED") /\ (told => told') /\ Within'
  BY DEF GoodClient, ClientOK, BackoffElapses, env, Quiet
<1>2. x \in ClientRecord /\ SocketsOK(x) /\ SameState(m, x)
  BY <1>1 DEF GoodClient, ClientOK, ClientRecord, SocketsOK, SameState
<1> HIDE DEF x
<1>3. "BACKOFF_ELAPSED" \notin SessionEnd
  BY DEF SessionEnd, Expiring
<1>4. QED
  BY <1>1, <1>2, <1>3, SendStep

(* The debounced online event does too.                                    *)
LEMMA OnlineSettlesKeeps ==
    ASSUME GoodClient, OnlineSettles
    PROVE  GoodClient'
<1> DEFINE x == [m EXCEPT !.debounce = FALSE]
<1>1. m \in ClientRecord /\ m' = Send(x, "NETWORK_ONLINE") /\ (told => told') /\ Within'
  BY DEF GoodClient, ClientOK, OnlineSettles, env, Quiet
<1>2. x \in ClientRecord /\ SocketsOK(x) /\ SameState(m, x)
  BY <1>1 DEF GoodClient, ClientOK, ClientRecord, SocketsOK, SameState
<1> HIDE DEF x
<1>3. "NETWORK_ONLINE" \notin SessionEnd
  BY DEF SessionEnd, Expiring
<1>4. QED
  BY <1>1, <1>2, <1>3, SendStep

(* The watchdog resets its count, reloads the page, or retries.            *)
LEMMA WatchdogKeeps ==
    ASSUME GoodClient, Watchdog
    PROVE  GoodClient'
<1> DEFINE n == IF m.stuck < MaxStuck THEN m.stuck + 1 ELSE MaxStuck
           a == [m EXCEPT !.stuck = 0]
           b == [m EXCEPT !.stuck = n, !.life = "reloaded"]
           x == [m EXCEPT !.stuck = n, !.attempt = 0]
<1>1. /\ m \in ClientRecord /\ (told => told') /\ Within'
      /\ m' = a \/ m' = b \/ m' = Send(x, "MANUAL_RETRY")
  BY DEF GoodClient, ClientOK, Watchdog, env, Quiet
<1>2. n \in UpTo(MaxStuck)
  BY <1>1, Bounds DEF ClientRecord, UpTo
<1> HIDE DEF n
<1>3. CASE m' = a
  <2>1. a \in ClientRecord /\ SocketsOK(a) /\ SameState(m, a)
    BY <1>1, Zeros DEF GoodClient, ClientOK, ClientRecord, SocketsOK, SameState
  <2> HIDE DEF a
  <2>2. QED
    BY <1>1, <1>3, <2>1, SocketStep
<1>4. CASE m' = b
  <2>1. b \in ClientRecord
    BY <1>1, <1>2 DEF ClientRecord, Life
  <2>2. /\ b.state = m.state /\ b.probes = m.probes /\ b.reconnects = m.reconnects
        /\ b.sock = m.sock /\ b.life = "reloaded" /\ b.ws = m.ws /\ b.latched = m.latched
        /\ b.connecting = m.connecting /\ b.retry = m.retry /\ b.tries = m.tries
        /\ b.terminal = m.terminal
    BY <1>1 DEF ClientRecord
  <2> HIDE DEF b
  <2>3. ClientOK(told', b) /\ Waiting(b)
    BY <1>1, <2>1, <2>2 DEF GoodClient, ClientOK, SocketsOK, Genuine, ProbesPlain, Waiting
  <2>4. QED
    BY <1>1, <1>4, <2>3, Reached
<1>5. CASE m' = Send(x, "MANUAL_RETRY")
  <2>1. x \in ClientRecord /\ SocketsOK(x) /\ SameState(m, x)
    BY <1>1, <1>2, Zeros DEF GoodClient, ClientOK, ClientRecord, SocketsOK, SameState
  <2> HIDE DEF x
  <2>2. "MANUAL_RETRY" \notin SessionEnd
    BY DEF SessionEnd, Expiring
  <2>3. QED
    BY <1>1, <1>5, <2>1, <2>2, SendStep
<1>6. QED
  BY <1>1, <1>3, <1>4, <1>5

(* The transport's own retry: it was only scheduled below the limit.       *)
LEMMA RetryTimerKeeps ==
    ASSUME GoodClient, RetryTimer
    PROVE  GoodClient'
<1> DEFINE y == [m EXCEPT !.retry = FALSE, !.tries = @ + 1]
<1>1. m \in ClientRecord /\ m.retry /\ Free(m) # {} /\ m' = Connect(y) /\ (told => told')
  BY DEF GoodClient, ClientOK, RetryTimer, env, Quiet
<1>2. m.tries + 1 \in UpTo(MaxTries)
  BY <1>1, Bounds DEF GoodClient, ClientOK, SocketsOK, ClientRecord, UpTo
<1>3. y \in ClientRecord /\ SocketsOK(y) /\ SameState(m, y) /\ Free(y) = Free(m)
  BY <1>1, <1>2, ZenonT(60) DEF GoodClient, ClientOK, ClientRecord, SocketsOK, SameState, Free
<1> HIDE DEF y
<1>4. ClientOK(told', y)
  BY <1>1, <1>3, StillTold, SameStateKeeps DEF GoodClient
<1>5. Connect(y) \in ClientRecord /\ SocketsOK(Connect(y)) /\ SameState(m, Connect(y))
  BY <1>1, <1>3, <1>4, ConnectKeeps DEF SameState
<1>6. QED
  BY <1>1, <1>5, SocketStep

-----------------------------------------------------------------------------
(* The events of the socket.                                               *)

(* A socket that opens is the current one.                                 *)
LEMMA OnOpenKeeps ==
    ASSUME GoodClient, NEW s \in Socket, OnOpen(s)
    PROVE  GoodClient'
<1> DEFINE v == [m EXCEPT !.sock[s] = "open", !.connecting = FALSE, !.opened = TRUE]
<1>1. m \in ClientRecord /\ SocketsOK(m) /\ m.sock[s] = "connecting" /\ (told => told')
  BY DEF GoodClient, ClientOK, OnOpen, env, Quiet
<1>2. m.ws = s
  BY <1>1 DEF SocketsOK
<1>3. m' = v
  BY <1>2 DEF OnOpen
<1>4. v \in ClientRecord /\ SameState(m, v)
  BY <1>1 DEF ClientRecord, SocketState, SameState
<1>5. /\ v.ws = s /\ v.retry = m.retry /\ v.tries = m.tries
      /\ \A t \in Socket : v.sock[t] = IF t = s THEN "open" ELSE m.sock[t]
  BY <1>1, <1>2 DEF ClientRecord
<1> HIDE DEF v
<1>6. SocketsOK(v)
  BY <1>1, <1>2, <1>5 DEF SocketsOK
<1>7. QED
  BY <1>1, <1>3, <1>4, <1>6, SocketStep

(* The handshake makes the current socket usable.                          *)
LEMMA CompletePresenceHandshakeKeeps ==
    ASSUME GoodClient, NEW s \in Socket, CompletePresenceHandshake(s)
    PROVE  GoodClient'
<1> DEFINE v == [m EXCEPT !.sock[s] = "ready", !.tries = 0, !.has = TRUE]
<1>1. /\ m \in ClientRecord /\ SocketsOK(m) /\ m.sock[s] = "open" /\ m.ws = s
      /\ m' = v /\ (told => told')
  BY DEF GoodClient, ClientOK, CompletePresenceHandshake, ForwardSocketEvent, env, Quiet
<1>2. v \in ClientRecord /\ SameState(m, v)
  BY <1>1, Zeros DEF ClientRecord, SocketState, SameState
<1>3. /\ v.ws = s /\ v.retry = m.retry /\ v.tries = 0 /\ m.tries \in UpTo(MaxTries)
      /\ \A t \in Socket : v.sock[t] = IF t = s THEN "ready" ELSE m.sock[t]
  BY <1>1 DEF ClientRecord
<1> HIDE DEF v
<1>4. SocketsOK(v)
  BY <1>1, <1>3, Bounds DEF SocketsOK, UpTo
<1>5. QED
  BY <1>1, <1>2, <1>4, SocketStep

(* The current socket is closed but not yet let go of.                     *)
LEMMA ForceCloseKeeps ==
    ASSUME GoodClient, NEW s \in Socket, ForceClose(s)
    PROVE  GoodClient'
<1> DEFINE v == [m EXCEPT !.sock[s] = "closing"]
<1>1. /\ m \in ClientRecord /\ SocketsOK(m) /\ m.ws = s /\ m' = v /\ (told => told')
  BY DEF GoodClient, ClientOK, ForceClose, env, Quiet
<1>2. v \in ClientRecord /\ SameState(m, v)
  BY <1>1 DEF ClientRecord, SocketState, SameState
<1>3. /\ v.ws = s /\ v.retry = m.retry /\ v.tries = m.tries
      /\ \A t \in Socket : v.sock[t] = IF t = s THEN "closing" ELSE m.sock[t]
  BY <1>1 DEF ClientRecord
<1> HIDE DEF v
<1>4. SocketsOK(v)
  BY <1>1, <1>3 DEF SocketsOK
<1>5. QED
  BY <1>1, <1>2, <1>4, SocketStep

(* What a close may do: the machine keeps its state and its requests, and  *)
(* may gain one that waits for the mint.                                   *)
CloseEffect(b, w, v) ==
    /\ ClientOK(b, v)
    /\ v.probes = w.probes /\ v.reconnects = w.reconnects /\ v.state = w.state
    /\ w.waiters \subseteq v.waiters
    /\ v.life = "live" => w.life = "live"

LetGo(w) == [w EXCEPT !.connecting = FALSE, !.ws = NoSocket]

(* onclose of the current socket keeps the invariant: with no session      *)
(* error unless the close said so.                                         *)
LEMMA ClosedKeeps ==
    ASSUME NEW b, NEW w, ClientOK(b, LetGo(w)), NEW kind, kind = "session" => b
    PROVE  CloseEffect(b, LetGo(w), Closed(w, kind))
<1> DEFINE x == LetGo(w)
<1> USE DEF LetGo
<1>0. x \in ClientRecord /\ SocketsOK(x) /\ SameState(x, x)
  BY DEF ClientOK, SameState
<1>1. ASSUME NEW v \in ClientRecord, SocketsOK(v), SameState(x, v)
      PROVE  CloseEffect(b, x, v)
  BY <1>1, SameStateKeeps DEF CloseEffect, SameState
<1>2. CASE kind = "version"
  <2>1. Closed(w, kind) = x
    BY <1>2 DEF Closed, ForwardSocketEvent
  <2>2. QED
    BY <1>0, <1>1, <2>1
<1>3. CASE kind \in {"session", "credential"} /\ x.life # "live"
  <2> DEFINE v == [x EXCEPT !.latched = TRUE]
  <2>1. Closed(w, kind) = v
    BY <1>3 DEF Closed
  <2>2. v \in ClientRecord
    BY <1>0 DEF ClientRecord
  <2>3. /\ v.state = x.state /\ v.probes = x.probes /\ v.reconnects = x.reconnects
        /\ v.sock = x.sock /\ v.life = x.life /\ v.ws = x.ws /\ v.waiters = x.waiters
        /\ v.connecting = x.connecting /\ v.retry = x.retry /\ v.tries = x.tries
        /\ v.terminal = x.terminal
    BY <1>0 DEF ClientRecord
  <2> HIDE DEF v
  <2>4. CloseEffect(b, x, v)
    BY <1>3, <2>2, <2>3 DEF CloseEffect, ClientOK, SocketsOK, Genuine, ProbesPlain
  <2>5. QED
    BY <2>1, <2>4
<1>4. CASE kind = "session" /\ x.life = "live"
  <2>1. Closed(w, kind) = SessionError(x)
    BY <1>4 DEF Closed
  <2>2. QED
    BY <1>4, <2>1, SessionErrorKeeps DEF CloseEffect
<1>5. CASE kind = "credential" /\ x.life = "live"
  <2> DEFINE v == [x EXCEPT !.waiters = @ \cup {"socket"}]
  <2>1. Closed(w, kind) = v
    BY <1>5 DEF Closed, ForwardSocketEvent
  <2>2. v \in ClientRecord
    BY <1>0 DEF ClientRecord, Waiter
  <2>3. /\ v.state = x.state /\ v.probes = x.probes /\ v.reconnects = x.reconnects
        /\ v.sock = x.sock /\ v.life = x.life /\ v.ws = x.ws /\ x.waiters \subseteq v.waiters
        /\ v.connecting = x.connecting /\ v.retry = x.retry /\ v.tries = x.tries
        /\ v.terminal = x.terminal /\ v.latched = x.latched
    BY <1>0 DEF ClientRecord
  <2> HIDE DEF v
  <2>4. CloseEffect(b, x, v)
    BY <2>2, <2>3 DEF CloseEffect, ClientOK, SocketsOK, Genuine, ProbesPlain
  <2>5. QED
    BY <2>1, <2>4
<1>6. CASE kind \notin {"version", "session", "credential"}
  <2> DEFINE v == ScheduleReconnect(x)
  <2>1. Closed(w, kind) \in {x, v}
    BY <1>6 DEF Closed, ForwardSocketEvent
  <2>2. v = [x EXCEPT !.retry = ~x.latched /\ online /\ x.tries < MaxTries]
    BY DEF ScheduleReconnect
  <2> HIDE DEF v, LetGo
  <2>3. v \in ClientRecord /\ SameState(x, v)
    BY <1>0, <2>2 DEF ClientRecord, SameState
  <2>4. /\ v.sock = x.sock /\ v.ws = x.ws /\ v.tries = x.tries
        /\ v.connecting = x.connecting /\ (v.retry => x.tries < MaxTries)
    BY <1>0, <2>2 DEF ClientRecord
  <2>5. SocketsOK(v)
    BY <1>0, <2>4 DEF SocketsOK
  <2>6. QED
    BY <1>0, <1>1, <2>1, <2>3, <2>5
<1>7. QED
  BY <1>2, <1>3, <1>4, <1>5, <1>6

(* A close event, of the current socket or a late one of a replaced        *)
(* socket.                                                                 *)
LEMMA OnCloseKeeps ==
    ASSUME GoodClient, NEW s \in Socket, NEW kind, OnClose(s, kind)
    PROVE  GoodClient'
<1> DEFINE w == [m EXCEPT !.sock[s] = "none"]
           x == LetGo(w)
<1>1. /\ m \in ClientRecord /\ SocketsOK(m) /\ (told => told')
      /\ m' = IF Replaced(s) THEN w ELSE Closed(w, kind)
      /\ kind = "session" => told'
  BY DEF GoodClient, ClientOK, OnClose
<1>2. w \in ClientRecord /\ SameState(m, w)
  BY <1>1 DEF ClientRecord, SocketState, SameState
<1>3. /\ w.ws = m.ws /\ w.retry = m.retry /\ w.tries = m.tries /\ w.connecting = m.connecting
      /\ \A t \in Socket : w.sock[t] = IF t = s THEN "none" ELSE m.sock[t]
  BY <1>1 DEF ClientRecord
<1> HIDE DEF w
<1>4. CASE Replaced(s)
  <2>1. SocketsOK(w)
    BY <1>1, <1>3, <1>4 DEF SocketsOK, Replaced, ClientRecord
  <2>2. QED
    BY <1>1, <1>2, <1>4, <2>1, SocketStep
<1>5. CASE ~Replaced(s)
  <2>1. x \in ClientRecord /\ SameState(m, x)
    BY <1>2 DEF ClientRecord, SameState, LetGo
  <2>2. /\ x.ws = NoSocket /\ x.retry = m.retry /\ x.tries = m.tries
        /\ x.connecting = FALSE /\ x.sock = w.sock
    BY <1>2, <1>3 DEF ClientRecord, LetGo
  <2>3. \A t \in Socket : x.sock[t] \notin {"connecting", "open", "ready"}
    BY <1>1, <1>3, <1>5, <2>2, ConnectionAssumption DEF SocketsOK, Replaced
  <2>4. SocketsOK(x)
    BY <1>1, <2>2, <2>3 DEF SocketsOK
  <2>5. ClientOK(told', x) /\ Waiting(x) /\ InFlightOK(x)
    BY <1>1, <2>1, <2>4, StillTold, SameStateKeeps, WithinIs DEF GoodClient
  <2> DEFINE v == Closed(w, kind)
  <2>6. CloseEffect(told', x, v)
    BY <1>1, <2>5, ClosedKeeps
  <2>7. m' = v
    BY <1>1, <1>5
  <2> HIDE DEF v, x
  <2>8. ClientOK(told', v) /\ Waiting(v) /\ InFlightOK(v)
    BY <2>5, <2>6 DEF CloseEffect, Waiting, ProbeAwaited, ReconnectAwaited, InFlightOK
  <2>9. QED
    BY <1>1, <2>7, <2>8, Reached
<1>6. QED
  BY <1>4, <1>5

-----------------------------------------------------------------------------
(* The browser, the server and the user.                                   *)

(* The offline event closes the socket; nothing is awaited there.          *)
LEMMA BrowserOfflineKeeps ==
    ASSUME GoodClient, BrowserOffline
    PROVE  GoodClient'
<1> DEFINE x == [m EXCEPT !.debounce = FALSE]
<1>1. /\ m \in ClientRecord /\ SocketsOK(m) /\ SameState(m, m) /\ (told => told')
      /\ m' = IF m.life = "live" THEN Send(x, "NETWORK_LOST") ELSE m
  BY DEF GoodClient, ClientOK, BrowserOffline, SameState
<1>2. x \in ClientRecord /\ SocketsOK(x) /\ SameState(m, x)
  BY <1>1 DEF ClientRecord, SocketsOK, SameState
<1> HIDE DEF x
<1>3. "NETWORK_LOST" \notin SessionEnd /\ "NETWORK_LOST" \notin Probing \cup {"PROBE_SUCCESS"}
  BY DEF SessionEnd, Expiring, Probing, Wake
<1>4. CASE m.life = "live"
  BY <1>1, <1>2, <1>3, <1>4, SendStep
<1>5. CASE m.life # "live"
  BY <1>1, <1>5, SocketStep
<1>6. QED
  BY <1>4, <1>5

(* The online event starts the debounce.                                   *)
LEMMA BrowserOnlineKeeps ==
    ASSUME GoodClient, BrowserOnline
    PROVE  GoodClient'
<1> DEFINE v == [m EXCEPT !.debounce = m.life = "live"]
<1>1. m \in ClientRecord /\ SocketsOK(m) /\ (told => told') /\ m' = v
  BY DEF GoodClient, ClientOK, BrowserOnline, Quiet
<1>2. v \in ClientRecord /\ SocketsOK(v) /\ SameState(m, v)
  BY <1>1 DEF ClientRecord, SocketsOK, SameState
<1> HIDE DEF v
<1>3. QED
  BY <1>1, <1>2, SocketStep

(* A tab that becomes visible may start a probe.                           *)
LEMMA TabVisibleKeeps ==
    ASSUME GoodClient, TabVisible
    PROVE  GoodClient'
<1>1. /\ m \in ClientRecord /\ SocketsOK(m) /\ SameState(m, m) /\ (told => told')
      /\ m' = Send(m, "TAB_VISIBLE") /\ Within'
  BY DEF GoodClient, ClientOK, TabVisible, SameState, env, Quiet
<1>2. "TAB_VISIBLE" \notin SessionEnd
  BY DEF SessionEnd, Expiring
<1>3. QED
  BY <1>1, <1>2, SendStep

(* forceFullRebootstrap closes the socket and probes.                      *)
LEMMA GroupsChangedKeeps ==
    ASSUME GoodClient, GroupsChanged
    PROVE  GoodClient'
<1> DEFINE c == [m EXCEPT !.cold = TRUE]
           x == Disconnect(c)
<1>1. /\ m \in ClientRecord /\ (told => told') /\ m' = Send(x, "WS_DISCONNECTED") /\ Within'
  BY DEF GoodClient, ClientOK, GroupsChanged, env, Quiet
<1>2. c \in ClientRecord /\ SocketsOK(c) /\ SameState(m, c)
  BY <1>1 DEF GoodClient, ClientOK, ClientRecord, SocketsOK, SameState
<1> HIDE DEF c
<1>3. ClientOK(told', c)
  BY <1>1, <1>2, StillTold, SameStateKeeps DEF GoodClient
<1>4. x \in ClientRecord /\ SocketsOK(x) /\ SameState(m, x)
  BY <1>2, <1>3, DisconnectKeeps DEF SameState
<1> HIDE DEF x
<1>5. "WS_DISCONNECTED" \notin SessionEnd
  BY DEF SessionEnd, Expiring
<1>6. QED
  BY <1>1, <1>4, <1>5, SendStep

(* The end of the store disposes of the machine.                           *)
LEMMA StoreDisconnectKeeps ==
    ASSUME GoodClient, StoreDisconnect
    PROVE  GoodClient'
<1> DEFINE v == [m EXCEPT !.life = "closing", !.timer = FALSE, !.debounce = FALSE]
<1>1. m \in ClientRecord /\ (told => told') /\ m' = v
  BY DEF GoodClient, ClientOK, StoreDisconnect, End, env, Quiet
<1>2. v \in ClientRecord
  BY <1>1 DEF ClientRecord, Life
<1>3. /\ v.state = m.state /\ v.probes = m.probes /\ v.reconnects = m.reconnects
      /\ v.sock = m.sock /\ v.life = "closing" /\ v.ws = m.ws /\ v.latched = m.latched
      /\ v.connecting = m.connecting /\ v.retry = m.retry /\ v.tries = m.tries
      /\ v.terminal = m.terminal
  BY <1>1 DEF ClientRecord
<1> HIDE DEF v
<1>4. ClientOK(told', v) /\ Waiting(v) /\ InFlightOK(v)
  BY <1>1, <1>2, <1>3, WithinIs
     DEF GoodClient, ClientOK, SocketsOK, Genuine, ProbesPlain, Waiting, InFlightOK
<1>5. QED
  BY <1>1, <1>4, Reached

(* The last part of the end closes the socket.                             *)
LEMMA TeardownKeeps ==
    ASSUME GoodClient, Teardown
    PROVE  GoodClient'
<1> DEFINE x == Disconnect(m)
           v == [x EXCEPT !.life = "closed"]
<1>1. (told => told') /\ m' = v
  BY DEF Teardown, env, Quiet
<1>2. x \in ClientRecord /\ SocketsOK(x) /\ SameState(m, x)
  BY DisconnectKeeps DEF GoodClient
<1> HIDE DEF x
<1>3. ClientOK(told', x) /\ InFlightOK(x)
  BY <1>1, <1>2, StillTold, SameStateKeeps, WithinIs DEF GoodClient
<1>4. v \in ClientRecord
  BY <1>2 DEF ClientRecord, Life
<1>5. /\ v.state = x.state /\ v.probes = x.probes /\ v.reconnects = x.reconnects
      /\ v.sock = x.sock /\ v.life = "closed" /\ v.ws = x.ws /\ v.latched = x.latched
      /\ v.connecting = x.connecting /\ v.retry = x.retry /\ v.tries = x.tries
      /\ v.terminal = x.terminal
  BY <1>2 DEF ClientRecord
<1> HIDE DEF v
<1>6. ClientOK(told', v) /\ Waiting(v) /\ InFlightOK(v)
  BY <1>3, <1>4, <1>5
     DEF ClientOK, SocketsOK, Genuine, ProbesPlain, Waiting, InFlightOK
<1>7. QED
  BY <1>1, <1>6, Reached

(* What happens outside the client keeps the invariant.                    *)
LEMMA OutsideKeeps ==
    ASSUME GoodClient, UNCHANGED <<m, told>>
    PROVE  GoodClient'
  BY DEF GoodClient, ClientOK, Genuine, Waiting, SocketsOK, ProbesPlain, ProbeAwaited,
         ReconnectAwaited, ClientRecord, Within

-----------------------------------------------------------------------------
(* The inductive invariant of the specification.                           *)
WorldOK ==
    /\ {online, net, key, login, told} \subseteq BOOLEAN
    /\ faults \in 0..MaxFaults

ConnInv == GoodClient /\ WorldOK

(* Every step keeps the part of the invariant about the client.            *)
LEMMA NextKeepsClient ==
    ASSUME GoodClient, Next
    PROVE  GoodClient'
<1>1. CASE Answers
  BY <1>1, ProbeAnswersKeeps, ReconnectChecksKeeps, ReconnectRefusedKeeps,
     ReconnectSucceedsKeeps, ReconnectFailsKeeps, MintAnswersKeeps DEF Answers, Stage
<1>2. CASE Timers
  BY <1>2, PrerollKeeps, BackoffElapsesKeeps, OnlineSettlesKeeps, WatchdogKeeps,
     RetryTimerKeeps DEF Timers
<1>3. CASE SocketEvents
  BY <1>3, OnOpenKeeps, CompletePresenceHandshakeKeeps, ForceCloseKeeps, OnCloseKeeps
     DEF SocketEvents
<1>4. CASE World
  <2>1. CASE \/ BrowserOffline \/ BrowserOnline \/ TabVisible \/ GroupsChanged
             \/ StoreDisconnect \/ Teardown
    BY <2>1, BrowserOfflineKeeps, BrowserOnlineKeeps, TabVisibleKeeps, GroupsChangedKeeps,
       StoreDisconnectKeeps, TeardownKeeps
  <2>2. CASE OnlineUnannounced \/ ServerDown \/ ServerUp \/ KeyExpires \/ LoginLost
    <3>1. UNCHANGED <<m, told>>
      BY <2>2, Zenon DEF OnlineUnannounced, ServerDown, ServerUp, KeyExpires, LoginLost, Quiet
    <3>2. QED
      BY <3>1, OutsideKeeps
  <2>3. QED
    BY <1>4, <2>1, <2>2 DEF World
<1>5. QED
  BY <1>1, <1>2, <1>3, <1>4 DEF Next

(* Every step keeps the types of the world around the client.              *)
LEMMA NextKeepsWorld ==
    ASSUME WorldOK, Next
    PROVE  WorldOK'
<1> USE DEF Quiet, Fault, env, Quiet
<1>1. /\ online' \in {online, TRUE, FALSE} /\ net' \in {net, TRUE, FALSE}
      /\ key' \in {key, TRUE, FALSE} /\ login' \in {login, FALSE}
      /\ told' \in BOOLEAN \cup {told} /\ (faults' = faults \/ Fault)
  <2>1. CASE Answers
    BY <2>1 DEF Answers, ProbeAnswers, ReconnectChecks, ReconnectRefused, ReconnectSucceeds,
                ReconnectFails, MintAnswers
  <2>2. CASE Timers
    BY <2>2 DEF Timers, Preroll, BackoffElapses, OnlineSettles, Watchdog, RetryTimer
  <2>3. CASE SocketEvents
    BY <2>3 DEF SocketEvents, OnOpen, CompletePresenceHandshake, ForceClose, OnClose
  <2>4. CASE World
    BY <2>4 DEF World, BrowserOffline, BrowserOnline, OnlineUnannounced, TabVisible, ServerDown,
                ServerUp, KeyExpires, LoginLost, GroupsChanged, StoreDisconnect, Teardown
  <2>5. QED
    BY <2>1, <2>2, <2>3, <2>4 DEF Next
<1>2. faults' \in 0..MaxFaults
  BY <1>1, Bounds DEF WorldOK
<1>3. {online, net, key, login, told}' \subseteq BOOLEAN
  BY <1>1 DEF WorldOK
<1>4. QED
  BY <1>2, <1>3 DEF WorldOK

(* The page as initialize() leaves it satisfies the invariant.             *)
LEMMA InitGood ==
    ASSUME Socket # {}, Init
    PROVE  ConnInv
<1> DEFINE s == CHOOSE s \in Socket : TRUE
<1>1. s \in Socket
  OBVIOUS
<1> HIDE DEF s
<1>2. PICK cold \in BOOLEAN :
        m = [state |-> "connected", attempt |-> 0, stuck |-> 0, refreshes |-> 0,
             timer |-> FALSE, debounce |-> FALSE,
             probes |-> [o \in Outcome |-> 0],
             reconnects |-> [g \in {"check", "fetch"} |-> 0],
             waiters |-> {}, cold |-> cold, life |-> "live",
             terminal |-> FALSE, bearer |-> TRUE,
             ws |-> s, sock |-> [t \in Socket |-> IF t = s THEN "connecting" ELSE "none"],
             connecting |-> TRUE, manual |-> FALSE, latched |-> FALSE, opened |-> FALSE,
             has |-> FALSE, retry |-> FALSE, tries |-> 0]
  BY DEF Init, s
<1>3. m \in ClientRecord
  BY <1>1, <1>2, Zeros DEF ClientRecord, State, Stage, Life, SocketState
<1>4. /\ m.ws = s /\ m.connecting = TRUE /\ m.retry = FALSE /\ m.state = "connected"
      /\ m.terminal = FALSE /\ m.latched = FALSE /\ m.probes = [o \in Outcome |-> 0]
      /\ m.reconnects["check"] = 0 /\ m.reconnects["fetch"] = 0
      /\ m.sock = [t \in Socket |-> IF t = s THEN "connecting" ELSE "none"]
  BY <1>2
<1>5. ClientOK(told, m) /\ Waiting(m)
  BY <1>1, <1>3, <1>4 DEF ClientOK, SocketsOK, Genuine, ProbesPlain, Waiting, Outcome
<1>6. Within
  BY <1>4, Bounds DEF Within
<1>7. WorldOK
  <2>1. /\ online = TRUE /\ net = TRUE /\ key = TRUE /\ login = TRUE
        /\ told = FALSE /\ faults = 0
    BY Zenon DEF Init
  <2>2. faults \in 0..MaxFaults
    BY <2>1, Bounds
  <2>3. {online, net, key, login, told} \subseteq BOOLEAN
    BY <2>1
  <2>4. QED
    BY <2>2, <2>3 DEF WorldOK
<1>8. QED
  BY <1>5, <1>6, <1>7 DEF ConnInv, GoodClient

(* A step that leaves the variables alone leaves the invariant alone.      *)
LEMMA StutterGood ==
    ASSUME ConnInv, UNCHANGED vars
    PROVE  ConnInv'
<1>1. UNCHANGED <<m, told>> /\ WorldOK'
  BY DEF vars, env, ConnInv, WorldOK
<1>2. QED
  BY <1>1, OutsideKeeps DEF ConnInv

(* The invariant holds in every reachable state, for every number of       *)
(* sockets, retries, requests in flight and faults.                        *)
THEOREM ConnectionInvariant == Spec => []ConnInv
<1>1. Init => ConnInv
  BY InitGood, ConnectionAssumption
<1>2. ConnInv /\ [Next]_vars => ConnInv'
  BY NextKeepsClient, NextKeepsWorld, StutterGood DEF ConnInv
<1>3. QED
  BY <1>1, <1>2, PTL DEF Spec

(* The invariant implies the type invariant.                               *)
LEMMA GoodTypes ==
    ASSUME ConnInv
    PROVE  TypeOK
<1>1. m \in ClientRecord /\ Within /\ WorldOK
  BY DEF ConnInv, GoodClient, ClientOK
<1>2. /\ m.state \in State /\ m.life \in Life /\ m.waiters \subseteq Waiter
      /\ m.ws \in Socket \cup {NoSocket} /\ m.sock \in [Socket -> SocketState]
      /\ m.attempt \in UpTo(MaxAttempts) /\ m.stuck \in UpTo(MaxStuck)
      /\ m.refreshes \in UpTo(MaxRefreshes) /\ m.tries \in UpTo(MaxTries)
      /\ m.probes \in [Outcome -> Nat] /\ m.reconnects \in [Stage -> Nat]
  BY <1>1 DEF ClientRecord
<1>3. {m.timer, m.debounce, m.cold, m.connecting, m.manual, m.latched, m.opened, m.has,
       m.retry, m.terminal, m.bearer} \subseteq BOOLEAN
  BY <1>1 DEF ClientRecord
<1>4. m.probes \in [Outcome -> 0..MaxInFlight]
  BY <1>1, <1>2, Bounds DEF Within
<1>5. m.reconnects["check"] \in 0..MaxInFlight /\ m.reconnects["fetch"] \in 0..MaxInFlight
  BY <1>1, <1>2, Bounds DEF Within, Stage
<1>6. m.reconnects \in [{"check", "fetch"} -> 0..MaxInFlight]
  BY <1>2, <1>5 DEF Stage
<1>7. QED
  BY <1>1, <1>2, <1>3, <1>4, <1>6 DEF TypeOK, WorldOK, UpTo, Life, SocketState

(* The client stays well typed and its counters within the limits the code *)
(* names (MAX_ATTEMPTS, MAX_STUCK_CYCLES_BEFORE_RELOAD,                    *)
(* MAX_CREDENTIAL_REFRESH_ATTEMPTS, MAX_RECONNECT_ATTEMPTS).               *)
THEOREM ConnectionTypes == Spec => []TypeOK
<1>1. ConnInv => TypeOK
  BY GoodTypes
<1>2. QED
  BY <1>1, ConnectionInvariant, PTL

(* No WebSocket is ever orphaned: a live one is the transport's current    *)
(* one, whatever the order of connects, closes and late close events.      *)
THEOREM OneLiveSocket == Spec => []NoOrphanSocket
<1>1. ConnInv => NoOrphanSocket
  BY DEF ConnInv, GoodClient, ClientOK, SocketsOK, NoOrphanSocket
<1>2. QED
  BY <1>1, ConnectionInvariant, PTL

(* No timeout, failed mint, expired access key, dropped socket or late     *)
(* answer signs the user out: the session ends, or the socket is latched   *)
(* shut, only after a terminal close of the socket, a refused bootstrap,   *)
(* or a probe or a mint that found the login gone.                         *)
THEOREM SignsOutOnlyWhenTold == Spec => []SignOutWasTold
<1>1. ConnInv => SignOutWasTold
  BY DEF ConnInv, GoodClient, ClientOK, Genuine, SignOutWasTold
<1>2. QED
  BY <1>1, ConnectionInvariant, PTL

(* A machine that waits for a probe, a reconnect or a re-mint has one in   *)
(* flight that answers it, although effects are never cancelled and answer *)
(* into whatever state is current.                                         *)
THEOREM WaitsAreAnswered == Spec => []NoEmptyWait
<1>1. ConnInv => NoEmptyWait
  BY DEF ConnInv, GoodClient, Waiting, ProbeAwaited, ReconnectAwaited, NoEmptyWait
<1>2. QED
  BY <1>1, ConnectionInvariant, PTL
=============================================================================
