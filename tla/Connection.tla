----------------------------- MODULE Connection -----------------------------
(***************************************************************************)
(* How the client of a browser tab stays connected: the recovery machine   *)
(* (ConnectionManager), the socket it drives (WsTransport), the reconnect  *)
(* it starts (performReconnect), the single-flight re-mint of the access   *)
(* credential (CredentialLifecycle) and the end of the store               *)
(* (TerminalSessionLifecycle, BaseSyncedStore.disconnect).                 *)
(*                                                                         *)
(* These call one another synchronously: closing a socket emits an event,  *)
(* the event moves the machine, and the machine closes the socket before   *)
(* the first call returns. The client is therefore one record m, and an    *)
(* operation is a function from that record to the next.                   *)
(***************************************************************************)
EXTENDS Naturals, FiniteSets

CONSTANTS
    Socket,         \* bound: WebSocket objects that exist at a time
    NoSocket,       \* this.ws is null
    MaxAttempts,    \* backoff.MAX_ATTEMPTS
    MaxStuck,       \* MAX_STUCK_CYCLES_BEFORE_RELOAD
    MaxRefreshes,   \* MAX_CREDENTIAL_REFRESH_ATTEMPTS
    MaxTries,       \* MAX_RECONNECT_ATTEMPTS of the transport
    MaxInFlight,    \* bound: probes, and reconnects, in flight at a time
    MaxFaults       \* bound: what goes wrong, and what the user does

ASSUME ConnectionAssumption ==
    /\ NoSocket \notin Socket /\ IsFiniteSet(Socket) /\ Socket # {}
    /\ {MaxAttempts, MaxStuck, MaxRefreshes, MaxTries, MaxInFlight, MaxFaults} \subseteq Nat

VARIABLES
    m,              \* the client
    online,         \* navigator.onLine
    net,            \* the server can be reached
    key,            \* the access credential is accepted by the server
    login,          \* the login the credential is minted from exists
    told,           \* history: the client was told that its session is over
    faults

env  == <<online, net, key, login>>
vars == <<m, env, told, faults>>

Outcome == {"reachable", "credential_stale", "session_expired", "auth_blocked", "unreachable"}
State == {"connected", "offline", "probing_network", "waiting_for_network",
          "refreshing_credential", "reconnecting", "backoff", "auth_blocked",
          "session_expired"}

-----------------------------------------------------------------------------
(* The socket: WsTransport.                                                *)

Free(w) == {s \in Socket : w.sock[s] = "none"}

Connect(w) ==
    IF \/ w.latched \/ w.connecting
       \/ w.ws # NoSocket /\ w.sock[w.ws] \in {"open", "ready", "closing"}
    THEN w
    ELSE LET s == CHOOSE s \in Free(w) : TRUE IN
         [w EXCEPT !.ws = s, !.sock[s] = "connecting",
                   !.connecting = TRUE, !.manual = FALSE, !.opened = FALSE]

(* disconnect(): the socket is let go of before its close event arrives.   *)
Disconnect(w) ==
    LET x == [w EXCEPT !.manual = TRUE, !.retry = FALSE] IN
    IF x.ws = NoSocket THEN x
    ELSE [x EXCEPT !.sock[x.ws] = "closing", !.ws = NoSocket]

ScheduleReconnect(w) ==
    [w EXCEPT !.retry = ~w.latched /\ online /\ w.tries < MaxTries]

-----------------------------------------------------------------------------
(* The recovery machine: ConnectionManager.                                *)

Expiring == {"WS_SESSION_ERROR", "BOOTSTRAP_FAILED_SESSION"}
Wake     == {"NETWORK_ONLINE", "TAB_VISIBLE", "MANUAL_RETRY", "CREDENTIAL_REFRESHED"}

(* The events that send a state to probing_network, and to session_expired.*)
ProbesOn ==
    [s \in State |->
        CASE s = "connected" -> {"WS_DISCONNECTED", "WS_HANDSHAKE_FAILED", "TAB_VISIBLE"}
          [] s = "offline" -> Wake \cup {"WS_HANDSHAKE_FAILED"}
          [] s = "waiting_for_network" -> Wake \cup {"BACKOFF_ELAPSED"}
          [] s = "refreshing_credential" -> {"CREDENTIAL_REFRESHED"}
          [] s = "backoff" -> Wake \cup {"BACKOFF_ELAPSED", "WS_HANDSHAKE_FAILED"}
          [] s = "auth_blocked" -> Wake
          [] OTHER -> {}]

ExpiresOn ==
    [s \in State |->
        CASE s \in {"connected", "offline", "reconnecting", "backoff", "auth_blocked"} -> Expiring
          [] s = "refreshing_credential" -> {"BOOTSTRAP_FAILED_SESSION"}
          [] s = "probing_network" -> {"PROBE_SESSION_EXPIRED"}
          [] OTHER -> {}]

(* No state has an edge to itself: s stands for an event s ignores.        *)
Transition(s, e) ==
    CASE e \in ProbesOn[s] -> "probing_network"
      [] e \in ExpiresOn[s] -> "session_expired"
      [] e = "NETWORK_LOST" /\ s \notin {"offline", "session_expired"} -> "offline"
      [] s = "probing_network" /\ e = "PROBE_SUCCESS" -> "reconnecting"
      [] s = "probing_network" /\ e = "PROBE_CREDENTIAL_STALE" -> "refreshing_credential"
      [] s \in {"probing_network", "refreshing_credential"} /\ e = "PROBE_AUTH_BLOCKED" ->
            "auth_blocked"
      [] s = "probing_network" /\ e = "PROBE_FAILED" -> "waiting_for_network"
      [] s = "refreshing_credential" /\ e = "RECONNECT_FAILED" -> "backoff"
      [] s = "reconnecting" /\ e \in {"RECONNECT_SUCCESS", "WS_CONNECTED"} -> "connected"
      [] s = "reconnecting" /\ e \in {"RECONNECT_FAILED", "WS_HANDSHAKE_FAILED"} -> "backoff"
      [] OTHER -> s

(* What the server says to a probe sent now; a tab that is offline does    *)
(* not send it.                                                            *)
Judged == IF ~online \/ ~net THEN "unreachable"
          ELSE IF key THEN "reachable" ELSE "credential_stale"

(* Mutant: one attempt too many.                                           *)
ScheduleBackoffOnceMore(w) ==
    IF w.attempt <= MaxAttempts THEN [w EXCEPT !.attempt = @ + 1, !.timer = TRUE]
    ELSE IF ~online THEN [w EXCEPT !.attempt = 0, !.timer = FALSE]
    ELSE [w EXCEPT !.timer = FALSE, !.life = "reloaded"]

ScheduleBackoff(w) ==
    IF w.attempt < MaxAttempts THEN [w EXCEPT !.attempt = @ + 1, !.timer = TRUE]
    ELSE IF ~online THEN [w EXCEPT !.attempt = 0, !.timer = FALSE]
    ELSE [w EXCEPT !.timer = FALSE, !.life = "reloaded"]

(* The store ends: the machine is disposed of and the listeners are gone   *)
(* before the first await; the socket is closed after it (Teardown).       *)
End(w) == [w EXCEPT !.life = "closing", !.timer = FALSE, !.debounce = FALSE]

(* The one-way end of the session: the credential is cleared first.        *)
SignOut(w) == IF w.terminal THEN w
              ELSE End([w EXCEPT !.terminal = TRUE, !.bearer = FALSE])

AuthBlocked(w) == [Disconnect(w) EXCEPT !.state = "auth_blocked", !.timer = FALSE]

(* Mutant: a re-mint already in flight is not waited for.                  *)
RefreshCredentialAssumed(w) ==
    IF w.refreshes >= MaxRefreshes THEN AuthBlocked([w EXCEPT !.refreshes = 0])
    ELSE IF w.waiters # {} THEN [w EXCEPT !.refreshes = @ + 1]
    ELSE [w EXCEPT !.refreshes = @ + 1, !.waiters = @ \cup {"machine"}]

RefreshCredential(w) ==
    IF w.refreshes >= MaxRefreshes THEN AuthBlocked([w EXCEPT !.refreshes = 0])
    ELSE [w EXCEPT !.refreshes = @ + 1, !.waiters = @ \cup {"machine"}]

RunProbe(w) == [w EXCEPT !.probes[Judged] = @ + 1]

OnEnterState(w, e) ==
    CASE w.state = "connected" ->
            [w EXCEPT !.attempt = 0, !.stuck = 0, !.timer = FALSE, !.refreshes = 0]
      [] w.state = "offline" -> [Disconnect(w) EXCEPT !.timer = FALSE]
      [] w.state = "probing_network" ->
            RunProbe(IF e = "WS_DISCONNECTED" THEN Disconnect(w) ELSE w)
      [] w.state \in {"waiting_for_network", "backoff"} -> ScheduleBackoff(w)
      [] w.state = "reconnecting" -> [w EXCEPT !.reconnects["check"] = @ + 1]
      [] w.state = "refreshing_credential" -> RefreshCredential(w)
      [] w.state = "auth_blocked" -> AuthBlocked(w)
      [] w.state = "session_expired" -> SignOut(Disconnect(w))

Send(w, e) ==
    LET s == Transition(w.state, e) IN
    IF w.life # "live" \/ s = w.state THEN w
    ELSE OnEnterState([w EXCEPT !.state = s], e)

(* What a socket event tells the machine: nothing. wireSocketEvents copies *)
(* onConnectionEvent and connectionManager when the store is constructed,  *)
(* and both are unset until startConnectionManager.                        *)
ForwardSocketEvent(w, e) == w

(* The session is lost: the socket is latched shut and the store ends.     *)
SessionError(w) ==
    SignOut(ForwardSocketEvent([w EXCEPT !.latched = TRUE], "WS_SESSION_ERROR"))

-----------------------------------------------------------------------------
(* Effects of the machine, and their answers.                              *)

Client == m.life # "reloaded"

(* Bound: what is in flight at a time.                                     *)
Within ==
    /\ \A o, p \in Outcome : o # p => m.probes[o] + m.probes[p] <= MaxInFlight
    /\ \A o \in Outcome : m.probes[o] <= MaxInFlight
    /\ m.reconnects["check"] + m.reconnects["fetch"] <= MaxInFlight

Quiet == UNCHANGED <<told, faults>>
Fault == faults < MaxFaults /\ faults' = faults + 1

ProbeEvent(o) ==
    CASE o = "reachable" -> "PROBE_SUCCESS"
      [] o = "session_expired" -> "PROBE_SESSION_EXPIRED"
      [] o = "credential_stale" -> "PROBE_CREDENTIAL_STALE"
      [] o = "auth_blocked" -> "PROBE_AUTH_BLOCKED"
      [] o = "unreachable" -> "PROBE_FAILED"

(* A probe sent earlier is answered: with what was true then, with what is *)
(* true now, or, as a fault, with a timeout or a refusal of the credential.*)
ProbeAnswers(sent, o) ==
    /\ Client /\ m.probes[sent] > 0
    /\ \/ o \in {sent, Judged} /\ faults' = faults
       \/ /\ Judged = "credential_stale" /\ ~login /\ o = "session_expired"
          /\ faults' = faults
       \/ o \in {"auth_blocked", "unreachable"} /\ Fault
    /\ m' = Send([m EXCEPT !.probes[sent] = @ - 1], ProbeEvent(o))
    /\ told' = (told \/ o = "session_expired")
    /\ UNCHANGED env
    /\ Within'

(* performReconnect: a full bootstrap is due unless the tab is offline and *)
(* has local data. It is fetched, and then the socket is opened without    *)
(* waiting for it.                                                         *)
BootstrapDue == online \/ m.cold

ReconnectChecks ==
    /\ Client /\ m.reconnects["check"] > 0 /\ BootstrapDue
    /\ m' = [m EXCEPT !.reconnects["check"] = @ - 1, !.reconnects["fetch"] = @ + 1]
    /\ UNCHANGED env /\ Quiet

ReconnectDone(stage) == [m EXCEPT !.reconnects[stage] = @ - 1]

OpenAfterReconnect(w) ==
    IF w.ws # NoSocket /\ w.sock[w.ws] = "ready" THEN w
    ELSE Connect([w EXCEPT !.tries = 0])

ReconnectSucceeds(stage) ==
    /\ Client /\ m.reconnects[stage] > 0 /\ Free(m) # {}
    /\ stage = "check" => ~BootstrapDue
    /\ stage = "fetch" => net /\ key /\ m.bearer
    /\ LET w == IF stage = "fetch" THEN [ReconnectDone(stage) EXCEPT !.cold = FALSE]
                ELSE ReconnectDone(stage)
       IN m' = Send(OpenAfterReconnect(w), "RECONNECT_SUCCESS")
    /\ UNCHANGED env /\ Quiet

ReconnectFails(stage) ==
    /\ Client /\ m.reconnects[stage] > 0
    /\ IF stage = "fetch" /\ ~(net /\ key /\ m.bearer) THEN faults' = faults ELSE Fault
    /\ m' = Send(ReconnectDone(stage), "RECONNECT_FAILED")
    /\ UNCHANGED <<env, told>>

(* The bootstrap is refused as a session's end, by a bare 401 or 403 or an *)
(* expired token, whether or not the login exists: the socket is latched   *)
(* shut and the local data is cleared.                                     *)
ReconnectRefused ==
    /\ Client /\ m.reconnects["fetch"] > 0 /\ net
    /\ IF key /\ m.bearer THEN Fault ELSE faults' = faults
    /\ m' = Send([Disconnect([ReconnectDone("fetch") EXCEPT !.latched = TRUE])
                    EXCEPT !.cold = TRUE], "BOOTSTRAP_FAILED_SESSION")
    /\ told' = TRUE
    /\ UNCHANGED env

-----------------------------------------------------------------------------
(* The re-mint of the credential: one request, several who wait for it:    *)
(* the machine, the socket's session-error handler and the pre-roll.       *)

Preroll ==
    /\ Client /\ m.life = "live" /\ "preroll" \notin m.waiters
    /\ m' = [m EXCEPT !.waiters = @ \cup {"preroll"}]
    /\ UNCHANGED env /\ Quiet

(* The handler of the socket has no machine to nudge (ForwardSocketEvent)  *)
(* and opens the socket itself.                                            *)
Refreshed(w, who) ==
    IF who = "socket" THEN Connect([w EXCEPT !.bearer = TRUE, !.tries = 0])
    ELSE Send([w EXCEPT !.bearer = TRUE], "CREDENTIAL_REFRESHED")

(* Mutant: a mint that cannot be reached counts as the end of the login.   *)
MintFailedSignsOut(w, who) == Send(w, "BOOTSTRAP_FAILED_SESSION")

MintFailed(w, who) == IF who = "machine" THEN Send(w, "RECONNECT_FAILED") ELSE w

(* Mutant: the pre-roll drops the answer.                                  *)
LoginGoneDropped(w, who) ==
    CASE who = "socket" -> SessionError(w)
      [] who = "machine" -> Send(w, "BOOTSTRAP_FAILED_SESSION")
      [] who = "preroll" -> w

LoginGone(w, who) ==
    IF who = "socket" THEN SessionError(w) ELSE Send(w, "BOOTSTRAP_FAILED_SESSION")

(* Each of those who wait goes on, in some order.                          *)
Waiter == {"machine", "socket", "preroll"}
Orders == {p \in [1..3 -> Waiter] : p[1] # p[2] /\ p[2] # p[3] /\ p[1] # p[3]}

Resumed(Go(_, _)) ==
    LET w == [m EXCEPT !.waiters = {}]
        After(v, who) == IF who \in m.waiters THEN Go(v, who) ELSE v
    IN  {After(After(After(w, p[1]), p[2]), p[3]) : p \in Orders}

MintAnswers ==
    /\ Client /\ m.waiters # {} /\ Free(m) # {}
    /\ UNCHANGED <<online, net, login>>
    /\ \/ /\ net /\ login
          /\ m' \in Resumed(Refreshed)
          /\ \/ key' = TRUE /\ faults' = faults
             \/ key' = key /\ Fault         \* the minted key is rejected as well
          /\ UNCHANGED told
       \/ /\ net /\ ~login
          /\ m' \in Resumed(LoginGone)
          /\ told' = TRUE
          /\ UNCHANGED <<key, faults>>
       \/ /\ IF net THEN Fault ELSE faults' = faults
          /\ m' \in Resumed(MintFailed)
          /\ UNCHANGED <<key, told>>
    /\ Within'

-----------------------------------------------------------------------------
(* Timers.                                                                 *)

BackoffElapses ==
    /\ Client /\ m.timer
    /\ m' = Send([m EXCEPT !.timer = FALSE], "BACKOFF_ELAPSED")
    /\ UNCHANGED env /\ Quiet
    /\ Within'

OnlineSettles ==
    /\ Client /\ m.debounce
    /\ m' = Send([m EXCEPT !.debounce = FALSE], "NETWORK_ONLINE")
    /\ UNCHANGED env /\ Quiet
    /\ Within'

Active == {"connected", "session_expired", "probing_network", "refreshing_credential",
           "reconnecting"}

(* Mutant: a machine parked offline is left to the browser's online event. *)
WatchdogSkipsOffline ==
    /\ Client /\ m.life = "live"
    /\ LET n == IF m.stuck < MaxStuck THEN m.stuck + 1 ELSE MaxStuck
       IN m' = IF m.state \in Active \cup {"offline"} THEN [m EXCEPT !.stuck = 0]
               ELSE IF n >= MaxStuck /\ online THEN [m EXCEPT !.stuck = n, !.life = "reloaded"]
               ELSE Send([m EXCEPT !.stuck = n, !.attempt = 0], "MANUAL_RETRY")
    /\ UNCHANGED env /\ Quiet
    /\ Within'

Watchdog ==
    /\ Client /\ m.life = "live"
    /\ LET n == IF m.stuck < MaxStuck THEN m.stuck + 1 ELSE MaxStuck
       IN m' = IF m.state \in Active THEN [m EXCEPT !.stuck = 0]
               ELSE IF n >= MaxStuck /\ online THEN [m EXCEPT !.stuck = n, !.life = "reloaded"]
               ELSE Send([m EXCEPT !.stuck = n, !.attempt = 0], "MANUAL_RETRY")
    /\ UNCHANGED env /\ Quiet
    /\ Within'

RetryTimer ==
    /\ Client /\ m.retry /\ Free(m) # {}
    /\ m' = Connect([m EXCEPT !.retry = FALSE, !.tries = @ + 1])
    /\ UNCHANGED env /\ Quiet

-----------------------------------------------------------------------------
(* Socket events.                                                          *)

(* The upgrade is accepted; a socket that was replaced or let go of does   *)
(* not count.                                                              *)
OnOpen(s) ==
    /\ Client /\ m.sock[s] = "connecting" /\ net /\ key /\ m.bearer
    /\ m' = IF m.ws = s
            THEN [m EXCEPT !.sock[s] = "open", !.connecting = FALSE, !.opened = TRUE]
            ELSE [m EXCEPT !.sock[s] = "open"]
    /\ UNCHANGED env /\ Quiet

(* The server binds the presence session: the socket is usable.            *)
CompletePresenceHandshake(s) ==
    /\ Client /\ m.sock[s] = "open" /\ m.ws = s /\ net
    /\ m' = ForwardSocketEvent([m EXCEPT !.sock[s] = "ready", !.tries = 0, !.has = TRUE],
                            "WS_CONNECTED")
    /\ UNCHANGED env /\ Quiet

(* The heartbeat's answer does not come, or the server sends a close frame.*)
ForceClose(s) ==
    /\ Client /\ m.sock[s] \in {"open", "ready"} /\ m.ws = s
    /\ m' = [m EXCEPT !.sock[s] = "closing"]
    /\ IF net THEN Fault ELSE faults' = faults
    /\ UNCHANGED <<env, told>>

(* onclose of the current socket, or of one already let go of.             *)
Closed(w, kind) ==
    LET x == [w EXCEPT !.connecting = FALSE, !.ws = NoSocket] IN
    CASE kind = "version" -> ForwardSocketEvent(x, "WS_DISCONNECTED")
      [] kind = "session" ->
            IF x.life # "live" THEN [x EXCEPT !.latched = TRUE] ELSE SessionError(x)
      [] kind = "credential" ->
            IF x.life # "live" THEN [x EXCEPT !.latched = TRUE]
            ELSE ForwardSocketEvent([x EXCEPT !.waiters = @ \cup {"socket"}], "WS_DISCONNECTED")
      [] kind = "drop" /\ ~x.opened /\ ~x.has /\ ~x.manual ->
            ForwardSocketEvent(ForwardSocketEvent(x, "WS_HANDSHAKE_FAILED"), "WS_DISCONNECTED")
      [] OTHER -> LET y == ForwardSocketEvent(x, "WS_DISCONNECTED") IN
                  IF y.manual THEN y ELSE ScheduleReconnect(y)

(* Mutant: the close of a replaced socket is taken for the current one's.  *)
NeverReplaced(s) == FALSE

(* A newer socket owns the connection.                                     *)
Replaced(s) == m.ws \notin {NoSocket, s}

(* A "session" close is any 4001 or 4003 other than credential_expired, or *)
(* a policy violation: terminal whether or not the login exists.           *)
OnClose(s, kind) ==
    /\ Client /\ m.sock[s] # "none"
    /\ kind = "version" => m.sock[s] = "open" /\ net
    /\ kind = "session" => m.sock[s] \in {"open", "ready"} /\ net
    /\ kind = "credential" => m.sock[s] \in {"open", "ready"} /\ net /\ ~key
    /\ IF \/ kind = "drop" /\ (m.sock[s] = "closing" \/ ~net)
          \/ kind = "drop" /\ m.sock[s] = "connecting" /\ ~key
          \/ kind = "session" /\ ~login
          \/ kind = "credential"
       THEN faults' = faults ELSE Fault
    /\ LET w == [m EXCEPT !.sock[s] = "none"] IN
       m' = IF Replaced(s) THEN w ELSE Closed(w, kind)
    /\ told' = (told \/ kind = "session")
    /\ UNCHANGED env

-----------------------------------------------------------------------------
(* The browser, the server and the user.                                   *)

BrowserOffline ==
    /\ Client /\ online /\ Fault
    /\ online' = FALSE /\ net' = FALSE
    /\ m' = IF m.life = "live" THEN Send([m EXCEPT !.debounce = FALSE], "NETWORK_LOST") ELSE m
    /\ UNCHANGED <<key, login, told>>

BrowserOnline ==
    /\ Client /\ ~online
    /\ online' = TRUE /\ net' = TRUE
    /\ m' = [m EXCEPT !.debounce = m.life = "live"]
    /\ UNCHANGED <<key, login>> /\ Quiet

(* After a wake or a VPN flip the online event may never be fired.         *)
OnlineUnannounced ==
    /\ Client /\ ~online /\ Fault
    /\ online' = TRUE /\ net' = TRUE
    /\ UNCHANGED <<m, key, login, told>>

TabVisible ==
    /\ Client /\ m.life = "live" /\ Fault
    /\ m' = Send(m, "TAB_VISIBLE")
    /\ UNCHANGED <<env, told>>
    /\ Within'

ServerDown == net /\ Fault /\ net' = FALSE /\ UNCHANGED <<m, online, key, login, told>>
ServerUp == online /\ ~net /\ net' = TRUE /\ UNCHANGED <<m, online, key, login>> /\ Quiet
KeyExpires == key /\ Fault /\ key' = FALSE /\ UNCHANGED <<m, online, net, login, told>>
(* The login ends, and its access keys at once or at their own expiry.     *)
LoginLost == /\ login /\ Fault /\ login' = FALSE /\ key' \in {key, FALSE}
             /\ UNCHANGED <<m, online, net, told>>

(* The groups of the session changed: forceFullRebootstrap.                *)
GroupsChanged ==
    /\ Client /\ m.life = "live" /\ Fault
    /\ m' = Send(Disconnect([m EXCEPT !.cold = TRUE]), "WS_DISCONNECTED")
    /\ UNCHANGED <<env, told>>
    /\ Within'

(* disconnect() of the store, and its end after the cursor is saved.       *)
StoreDisconnect ==
    /\ Client /\ m.life = "live" /\ Fault
    /\ m' = End(m)
    /\ UNCHANGED <<env, told>>

Teardown ==
    /\ Client /\ m.life = "closing"
    /\ m' = [Disconnect(m) EXCEPT !.life = "closed"]
    /\ UNCHANGED env /\ Quiet

-----------------------------------------------------------------------------
(* A page as initialize() leaves it: the first connect is on its way.      *)
Init ==
    /\ \E cold \in BOOLEAN : LET s == CHOOSE s \in Socket : TRUE IN
        m = [state |-> "connected", attempt |-> 0, stuck |-> 0, refreshes |-> 0,
             timer |-> FALSE, debounce |-> FALSE,
             probes |-> [o \in Outcome |-> 0],
             reconnects |-> [g \in {"check", "fetch"} |-> 0],
             waiters |-> {}, cold |-> cold, life |-> "live",
             terminal |-> FALSE, bearer |-> TRUE,
             ws |-> s, sock |-> [t \in Socket |-> IF t = s THEN "connecting" ELSE "none"],
             connecting |-> TRUE, manual |-> FALSE, latched |-> FALSE, opened |-> FALSE,
             has |-> FALSE, retry |-> FALSE, tries |-> 0]
    /\ online = TRUE /\ net = TRUE /\ key = TRUE /\ login = TRUE
    /\ told = FALSE /\ faults = 0

Answers ==
    \/ \E sent, o \in Outcome : ProbeAnswers(sent, o)
    \/ ReconnectChecks \/ ReconnectRefused
    \/ \E g \in {"check", "fetch"} : ReconnectSucceeds(g) \/ ReconnectFails(g)
    \/ MintAnswers

Timers == Preroll \/ BackoffElapses \/ OnlineSettles \/ Watchdog \/ RetryTimer

SocketEvents ==
    \E s \in Socket : \/ OnOpen(s) \/ CompletePresenceHandshake(s) \/ ForceClose(s)
                      \/ \E kind \in {"drop", "session", "credential", "version"} : OnClose(s, kind)

World == \/ BrowserOffline \/ BrowserOnline \/ OnlineUnannounced \/ TabVisible
         \/ ServerDown \/ ServerUp \/ KeyExpires \/ LoginLost \/ GroupsChanged
         \/ StoreDisconnect \/ Teardown

Next == Answers \/ Timers \/ SocketEvents \/ World

Spec == Init /\ [][Next]_vars

(* Requests end (the probe and the mint time out), timers fire, sockets    *)
(* open or close, and the network comes back.                              *)
FairSpec ==
    /\ Spec
    /\ \A o \in Outcome : WF_vars(\E p \in Outcome : ProbeAnswers(o, p))
    /\ \A g \in {"check", "fetch"} :
         WF_vars(/\ \/ ReconnectSucceeds(g) \/ ReconnectFails(g)
                    \/ g = "check" /\ ReconnectChecks
                    \/ g = "fetch" /\ ReconnectRefused
                )
    /\ WF_vars(MintAnswers)
    /\ WF_vars(BackoffElapses) /\ WF_vars(OnlineSettles)
    /\ WF_vars(Watchdog) /\ WF_vars(RetryTimer)
    /\ \A s \in Socket :
         /\ WF_vars(OnOpen(s) \/ OnClose(s, "drop"))
         /\ WF_vars(CompletePresenceHandshake(s))
    /\ WF_vars(BrowserOnline) /\ WF_vars(ServerUp) /\ WF_vars(Teardown)

-----------------------------------------------------------------------------
(* Types, and the counters within the limits the code names.               *)
TypeOK ==
    /\ m.state \in State /\ m.life \in {"live", "closing", "closed", "reloaded"}
    /\ m.attempt \in 0..MaxAttempts /\ m.stuck \in 0..MaxStuck
    /\ m.refreshes \in 0..MaxRefreshes /\ m.tries \in 0..MaxTries
    /\ m.probes \in [Outcome -> 0..MaxInFlight]
    /\ m.reconnects \in [{"check", "fetch"} -> 0..MaxInFlight]
    /\ m.waiters \subseteq Waiter
    /\ m.ws \in Socket \cup {NoSocket}
    /\ m.sock \in [Socket -> {"none", "connecting", "open", "ready", "closing"}]
    /\ {m.timer, m.debounce, m.cold, m.connecting, m.manual, m.latched, m.opened, m.has,
        m.retry, m.terminal, m.bearer, online, net, key, login, told} \subseteq BOOLEAN
    /\ faults \in 0..MaxFaults

(* A live WebSocket is always the transport's current one: connect() never *)
(* overwrites a socket that is still opening, and a late close of an old   *)
(* socket never makes the transport forget the new one (the orphaned-      *)
(* socket race named in setupEventHandlers).                               *)
NoOrphanSocket ==
    \A s \in Socket : m.sock[s] \in {"connecting", "open", "ready"} => m.ws = s

(* The session ends, or the socket is latched shut, only after an answer   *)
(* that says it is over: a terminal close of the socket, a refused         *)
(* bootstrap, or a probe or mint that finds the login gone. No timeout,    *)
(* failed mint, expired access key, dropped socket, watchdog or answer     *)
(* that comes late signs the user out. (That answer may be wrong about the *)
(* login: the code believes a bare 401 and any other 4001.)                *)
SignOutWasTold ==
    (m.terminal \/ m.state = "session_expired" \/ (m.life = "live" /\ m.latched)) => told

(* Effects are never cancelled and answer into whatever state is current;  *)
(* still, a machine that waits for an answer has a request in flight that  *)
(* will give it.                                                           *)
NoEmptyWait ==
    m.life = "live" =>
        /\ m.state = "probing_network" => \E o \in Outcome : m.probes[o] > 0
        /\ m.state = "reconnecting" => m.reconnects["check"] + m.reconnects["fetch"] > 0
        /\ m.state = "refreshing_credential" => "machine" \in m.waiters

(* Once nothing more goes wrong, the machine comes back to connected and   *)
(* stays there, unless the store ended or the page was reloaded: the       *)
(* backoff timer, the online event and the watchdog leave no state behind. *)
MachineSettles == <>[](m.state = "connected" \/ m.life # "live")

(* A client whose login is gone and that was told so ends its session,     *)
(* even if the machine was in a state that ignores the event, as long as   *)
(* its pre-roll timer goes on (a client with a static key has none).       *)
SignOutConverges == WF_vars(Preroll) => ((told /\ ~login) ~> m.life # "live")

(* While the machine reads connected, somebody works on the connection: a  *)
(* current socket, a close that will be noticed, a retry of the transport  *)
(* or a re-mint that will reopen it.                                       *)
NoDeadEnd ==
    (m.life = "live" /\ m.state = "connected") =>
        \/ m.ws # NoSocket \/ m.retry \/ m.waiters # {}
        \/ \E s \in Socket : m.sock[s] = "closing"
=============================================================================
