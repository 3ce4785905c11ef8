----------------------------- MODULE McpSessions -----------------------------
(***************************************************************************)
(* The MCP sessions of one conversation on one server: mcpclient.Connector *)
(* and the pool of connectors that the mcp-bridge plugin keeps, shared by  *)
(* concurrent tool calls, while credentials rotate, servers end sessions,  *)
(* idle sessions expire and the plugin shuts down.                         *)
(*                                                                         *)
(* A step is one critical section (of Connector.mu or of Plugin.mu), or    *)
(* one exchange with the server.  connectMu is held from the step that     *)
(* finds no session to the one that installs it.                           *)
(* How long a session has been idle is left out: its goroutine may expire  *)
(* it whenever no call is counted.  Connect only returns initialized       *)
(* sessions, so that usable holds of every session a connector has.        *)
(* A request without a conversation has a connector of its own, which      *)
(* nobody else sees: such requests are left out.                           *)
(***************************************************************************)
EXTENDS Naturals, FiniteSets

CONSTANTS
    Requests,       \* ListTools and CallTool requests of the conversation
    Connectors,     \* identities of connectors; one nobody refers to is used again
    Sessions,       \* identities of sessions, likewise
    Faults,         \* bound of the exploration: how often the credentials change, a
                    \* server ends a session, or the plugin shuts down, in all
    None

ASSUME McpAssumption ==
    /\ IsFiniteSet(Requests) /\ Connectors \subseteq Nat /\ Sessions \subseteq Nat
    /\ Faults \in Nat /\ None \notin Requests \cup Connectors \cup Sessions

VARIABLES
    secret,         \* the credentials now in force
    pool,           \* Plugin.sessions (and keys): the connector of the conversation
    conn,           \* the connectors
    sess,           \* the sessions
    expired,        \* connectors whose onExpire is about to run
    closing,        \* connectors that Plugin.Close is about to close
    down,           \* Plugin.Close has begun
    req,            \* the requests
    faults          \* how many faults there have been

plugin == <<secret, pool, expired, closing, down, faults>>
vars   == <<secret, pool, conn, sess, expired, closing, down, req, faults>>

(* All that matters of Connector.generation is whether it is still the one    *)
(* that a handshake read: a change marks the handshakes under way (stale).    *)
NewConnector(k) ==
    [cfg |-> k, session |-> None, inFlight |-> 0, connecting |-> 0, closed |-> FALSE]

(* cred and owner: the credentials it was opened with, the connector it was   *)
(* opened for.  A session is live until the server ends it (ended) or until   *)
(* we close it.                                                               *)
NoSession == [state |-> "closed", cred |-> 0, owner |-> None]

(* attempt: which connector of doWithRebuild; try: which acquire of Do;       *)
(* result: how the attempt ends.                                              *)
NewRequest == [pc |-> "arriving", attempt |-> 1, try |-> 1, key |-> 0, conn |-> None,
               session |-> None, stale |-> FALSE, result |-> "none"]

Done == [NewRequest EXCEPT !.pc = "done"]

Init ==
    /\ secret = 0
    /\ pool = None
    /\ conn = [c \in Connectors |-> NewConnector(0)]
    /\ sess = [s \in Sessions |-> NoSession]
    /\ expired = {} /\ closing = {} /\ down = FALSE
    /\ req = [r \in Requests |-> NewRequest]
    /\ faults = 0

Become(r, state) == req' = [req EXCEPT ![r] = state]
Goto(r, label)   == Become(r, [req[r] EXCEPT !.pc = label])
C(r) == req[r].conn
S(r) == req[r].session

Least(set) == CHOOSE x \in set : \A y \in set : x <= y

(* Those nobody refers to. *)
FreeConnectors == {c \in Connectors :
    /\ c # pool /\ c \notin expired \cup closing
    /\ conn[c].session = None /\ \A r \in Requests : C(r) # c}
FreeSessions == {s \in Sessions : sess[s].state = "closed" /\ \A r \in Requests : S(r) # s}

-----------------------------------------------------------------------------
(* Connector: what runs under its mutex. *)

Update(c, k) == conn' = [conn EXCEPT ![c] = k]

(* Mutant: the calls still running on the session are forgotten. *)
DiscardedForgets(k) == [k EXCEPT !.session = None, !.inFlight = 0]

(* discardLocked: the connector without its session.  The calls on it stay    *)
(* counted.                                                                   *)
Discarded(k) == [k EXCEPT !.session = None]

(* The session, if there was one, is closed.  A goroutine does it, soon: the  *)
(* calls on it may still be answered, as those on a closed session may here.  *)
CloseSession(c) ==
    sess' = [s \in Sessions |-> IF s = conn[c].session THEN NoSession ELSE sess[s]]

(* retireLocked: terminal, and onExpire runs in a goroutine, at most once. *)
Retired(k) == [Discarded(k) EXCEPT !.closed = TRUE]
Notify(c)  == expired' = IF conn[c].closed THEN expired ELSE expired \cup {c}

(* A call on the session is counted. *)
Counted(k) == [k EXCEPT !.inFlight = k.inFlight + 1]

(* done *)
Uncounted(k) == [k EXCEPT !.inFlight = IF k.inFlight > 0 THEN k.inFlight - 1 ELSE 0]

-----------------------------------------------------------------------------
(* Plugin.connector *)

forgetKey(c) == pool' = IF pool = c THEN None ELSE pool

Fault == faults < Faults /\ faults' = faults + 1

(* connect resolves the credentials, which a refresh or a rotation may have   *)
(* changed since they were last asked for.                                    *)
Resolve(r) ==
    /\ req[r].pc = "arriving"
    /\ \/ UNCHANGED <<secret, faults>>
       \/ Fault /\ secret' = secret + 1
    /\ Become(r, [req[r] EXCEPT !.key = secret', !.pc = "resolved"])
    /\ UNCHANGED <<pool, expired, closing, down, conn, sess>>

(* Resolving the configuration or the credentials fails. *)
Unresolved(r) ==
    /\ req[r].pc = "arriving"
    /\ Become(r, Done)
    /\ UNCHANGED <<plugin, conn, sess>>

(* The pool is looked up. *)
Lookup(r) ==
    /\ req[r].pc = "resolved"
    /\ Become(r, [req[r] EXCEPT !.conn = pool,
                  !.pc = IF pool = None THEN "building" ELSE "configuring"])
    /\ UNCHANGED <<plugin, conn, sess>>

(* SetConfig.  The handshakes under way learn of the change when they end. *)
SetConfig(r) ==
    LET c       == C(r)
        changed == conn[c].cfg # req[r].key
    IN  /\ req[r].pc = "configuring"
        /\ Update(c, [(IF changed THEN Discarded(conn[c]) ELSE conn[c])
                        EXCEPT !.cfg = req[r].key])
        /\ IF changed THEN CloseSession(c) ELSE UNCHANGED sess
        /\ req' = [q \in Requests |->
                      IF q = r THEN [req[r] EXCEPT !.pc = "configured"]
                      ELSE IF changed /\ C(q) = c /\ req[q].pc \in {"connecting", "connected"}
                      THEN [req[q] EXCEPT !.stale = TRUE]
                      ELSE req[q]]
        /\ UNCHANGED plugin

(* The connector that the request gets. *)
Ready(r, c) == Become(r, [req[r] EXCEPT !.pc = "acquiring", !.conn = c, !.key = 0])

(* Terminal: a retired connector is a miss. *)
Terminal(r) ==
    /\ req[r].pc = "configured"
    /\ IF conn[C(r)].closed
       THEN /\ forgetKey(C(r))
            /\ Become(r, [req[r] EXCEPT !.pc = "building", !.conn = None])
       ELSE /\ Ready(r, C(r))
            /\ UNCHANGED pool
    /\ UNCHANGED <<secret, expired, closing, down, faults, conn, sess>>

(* The connector built is published, unless another caller did so meanwhile:  *)
(* then theirs is used as it is, and this one closed unseen.                  *)
Publish(r) ==
    /\ req[r].pc = "building"
    /\ IF pool # None
       THEN /\ Ready(r, pool)
            /\ UNCHANGED <<pool, conn>>
       ELSE /\ FreeConnectors # {}
            /\ LET c == Least(FreeConnectors)
               IN  /\ pool' = c
                   /\ Update(c, NewConnector(req[r].key))
                   /\ Ready(r, c)
    /\ UNCHANGED <<secret, expired, closing, down, faults, sess>>

-----------------------------------------------------------------------------
(* Connector.acquire *)

(* The session there is, or none. *)
Acquire(r) ==
    /\ req[r].pc = "acquiring"
    /\ IF conn[C(r)].session # None
       THEN /\ Update(C(r), Counted(conn[C(r)]))
            /\ Become(r, [req[r] EXCEPT !.pc = "running", !.session = conn[C(r)].session])
       ELSE Goto(r, "missed") /\ UNCHANGED conn
    /\ UNCHANGED <<plugin, sess>>

(* A caller that waits for connectMu is counted too. *)
CountConnecting(r) ==
    /\ req[r].pc = "missed"
    /\ Update(C(r), [conn[C(r)] EXCEPT !.connecting = conn[C(r)].connecting + 1])
    /\ Goto(r, "queued")
    /\ UNCHANGED <<plugin, sess>>

(* connectMu is free. *)
MayConnect(c) == \A r \in Requests : C(r) = c => req[r].pc \notin {"connecting", "connected"}

(* acquire returns: connectMu is released, then connecting (Leave). *)
Return(r, s, result) ==
    Become(r, [req[r] EXCEPT !.pc = "leaving", !.key = 0, !.session = s, !.stale = FALSE,
               !.result = result])

(* Mutant: a session opened while waiting for connectMu is not looked for. *)
LockUnchecked(r) ==
    /\ req[r].pc = "queued" /\ MayConnect(C(r))
    /\ IF conn[C(r)].closed
       THEN Return(r, None, "closed")
       ELSE Become(r, [req[r] EXCEPT !.pc = "connecting", !.key = conn[C(r)].cfg])
    /\ UNCHANGED <<plugin, conn, sess>>

(* Someone may have opened a session meanwhile.  Otherwise the configuration  *)
(* and its generation are read.                                               *)
LockConnect(r) ==
    /\ req[r].pc = "queued" /\ MayConnect(C(r))
    /\ IF conn[C(r)].session # None
       THEN /\ Update(C(r), Counted(conn[C(r)]))
            /\ Return(r, conn[C(r)].session, "none")
       ELSE /\ UNCHANGED conn
            /\ IF conn[C(r)].closed
               THEN Return(r, None, "closed")
               ELSE Become(r, [req[r] EXCEPT !.pc = "connecting", !.key = conn[C(r)].cfg])
    /\ UNCHANGED <<plugin, sess>>

(* The handshake. *)
Connect(r) ==
    /\ req[r].pc = "connecting" /\ FreeSessions # {}
    /\ LET s == Least(FreeSessions)
       IN  /\ sess' = [sess EXCEPT ![s] = [NoSession EXCEPT
                           !.state = "live", !.cred = req[r].key, !.owner = C(r)]]
           /\ Become(r, [req[r] EXCEPT !.pc = "connected", !.key = 0, !.session = s])
    /\ UNCHANGED <<plugin, conn>>

ConnectFails(r) ==
    /\ req[r].pc = "connecting"
    /\ Return(r, None, "failed")
    /\ UNCHANGED <<plugin, conn, sess>>

(* Mutant: a change of credentials during the handshake goes unnoticed. *)
OutdatedNever(r) == FALSE

(* c.generation # generation *)
Outdated(r) == req[r].stale

(* The new session is installed, with the goroutine that will expire it, or   *)
(* closed.                                                                    *)
Install(r) ==
    /\ req[r].pc = "connected"
    /\ IF conn[C(r)].closed \/ Outdated(r)
       THEN /\ Return(r, None, IF conn[C(r)].closed THEN "closed" ELSE "changed")
            /\ sess' = [sess EXCEPT ![S(r)] = NoSession]
            /\ UNCHANGED conn
       ELSE /\ Return(r, S(r), "none")
            /\ Update(C(r), [Counted(conn[C(r)]) EXCEPT !.session = S(r)])
            /\ UNCHANGED sess
    /\ UNCHANGED plugin

(* Do goes on with the session; a change of credentials is tried again once.  *)
Proceed(r) ==
    Become(r, IF S(r) # None THEN [req[r] EXCEPT !.pc = "running"]
              ELSE IF req[r].result = "changed" /\ req[r].try = 1
              THEN [req[r] EXCEPT !.pc = "acquiring", !.try = 2, !.result = "none"]
              ELSE [req[r] EXCEPT !.pc = "attempted"])

(* Mutant: a handshake that failed stays counted. *)
LeaveCounted(r) ==
    /\ req[r].pc = "leaving"
    /\ conn' = [conn EXCEPT ![C(r)].connecting = IF S(r) = None THEN @ ELSE @ - 1]
    /\ Proceed(r)
    /\ UNCHANGED <<plugin, sess>>

Leave(r) ==
    /\ req[r].pc = "leaving"
    /\ Update(C(r), [conn[C(r)] EXCEPT !.connecting = conn[C(r)].connecting - 1])
    /\ Proceed(r)
    /\ UNCHANGED <<plugin, sess>>

-----------------------------------------------------------------------------
(* Connector.Do, once it has a session. *)

Retrying(r) == req[r].try = 3

(* An answer, or a failure of the operation itself: done. *)
Answered(r) ==
    /\ req[r].pc = "running"
    /\ Update(C(r), Uncounted(conn[C(r)]))
    /\ Become(r, [req[r] EXCEPT !.pc = "attempted", !.session = None, !.result = "answered"])
    /\ UNCHANGED <<plugin, sess>>

(* IsSessionOver: we closed the session, or the server (restarted, behind a   *)
(* proxy that dropped the connection) has ended it, if only now.  The first   *)
(* time the call is over before the session is discarded; the second time     *)
(* done is deferred.                                                          *)
SessionOver(r) ==
    /\ req[r].pc = "running"
    /\ \/ sess[S(r)].state # "live" /\ UNCHANGED <<sess, faults>>
       \/ sess[S(r)].state = "live" /\ Fault /\ sess' = [sess EXCEPT ![S(r)].state = "ended"]
    /\ IF Retrying(r) THEN UNCHANGED conn ELSE Update(C(r), Uncounted(conn[C(r)]))
    /\ Goto(r, "over")
    /\ UNCHANGED <<secret, pool, expired, closing, down>>

(* discardIf: not the session that another caller installed meanwhile.  Then  *)
(* the one retry.                                                             *)
DiscardIf(r) ==
    LET c == C(r)
    IN  /\ req[r].pc = "over"
        /\ IF conn[c].session = S(r)
           THEN Update(c, Discarded(conn[c])) /\ CloseSession(c)
           ELSE UNCHANGED <<conn, sess>>
        /\ Become(r, IF Retrying(r) THEN [req[r] EXCEPT !.pc = "ending", !.session = None]
                     ELSE [req[r] EXCEPT !.pc = "acquiring", !.try = 3, !.session = None])
        /\ UNCHANGED plugin

(* The deferred done of the retry. *)
EndRetry(r) ==
    /\ req[r].pc = "ending"
    /\ Update(C(r), Uncounted(conn[C(r)]))
    /\ Become(r, [req[r] EXCEPT !.pc = "attempted", !.result = "over"])
    /\ UNCHANGED <<plugin, sess>>

-----------------------------------------------------------------------------
(* Plugin.doWithRebuild *)

Sessionless(c) == conn[c].session = None /\ conn[c].connecting = 0

(* A connector retired under the call makes the request start over, once. *)
Conclude(r) ==
    IF req[r].result = "closed" /\ req[r].attempt = 1 THEN Goto(r, "rebuilding")
                                                     ELSE Become(r, Done)

(* A connector found without a session is evicted, a little later. *)
LookSessionless(r) ==
    /\ req[r].pc = "attempted"
    /\ IF Sessionless(C(r)) THEN Goto(r, "evicting") ELSE Conclude(r)
    /\ UNCHANGED <<plugin, conn, sess>>

Evict(r) ==
    /\ req[r].pc = "evicting"
    /\ forgetKey(C(r))
    /\ Conclude(r)
    /\ UNCHANGED <<secret, expired, closing, down, faults, conn, sess>>

(* The connector is dropped, and the credentials are resolved again. *)
Rebuild(r) ==
    /\ req[r].pc = "rebuilding"
    /\ forgetKey(C(r))
    /\ Become(r, [NewRequest EXCEPT !.attempt = 2])
    /\ UNCHANGED <<secret, expired, closing, down, faults, conn, sess>>

-----------------------------------------------------------------------------
(* Goroutines and the signal handler. *)

(* expire: the session has been idle for long. *)
Expire(c) ==
    /\ conn[c].session # None /\ conn[c].inFlight = 0
    /\ Update(c, Retired(conn[c]))
    /\ CloseSession(c) /\ Notify(c)
    /\ UNCHANGED <<secret, pool, closing, down, faults, req>>

(* The onExpire callback of the pool. *)
OnExpire(c) ==
    /\ c \in expired
    /\ expired' = expired \ {c}
    /\ forgetKey(c)
    /\ UNCHANGED <<secret, closing, down, faults, conn, sess, req>>

(* Plugin.Close takes the connectors out of the pool, then closes each.  The  *)
(* process exits after that; requests under way may go on until it does.      *)
Shutdown ==
    /\ ~down /\ Fault
    /\ down' = TRUE
    /\ closing' = {pool} \ {None} /\ pool' = None
    /\ UNCHANGED <<secret, expired, conn, sess, req>>

(* Connector.Close does not leave the session to a goroutine. *)
Close(c) ==
    /\ c \in closing
    /\ closing' = closing \ {c}
    /\ Update(c, Retired(conn[c]))
    /\ Notify(c)
    /\ CloseSession(c)
    /\ UNCHANGED <<secret, pool, down, faults, req>>

Call(r) ==
    \/ Resolve(r) \/ Unresolved(r) \/ Lookup(r) \/ SetConfig(r) \/ Terminal(r) \/ Publish(r)
    \/ Acquire(r) \/ CountConnecting(r) \/ LockConnect(r)
    \/ Connect(r) \/ ConnectFails(r) \/ Install(r) \/ Leave(r)
    \/ Answered(r) \/ SessionOver(r) \/ DiscardIf(r) \/ EndRetry(r)
    \/ LookSessionless(r) \/ Evict(r) \/ Rebuild(r)

AllAnswered == \A r \in Requests : req[r] = Done

Quiet == /\ AllAnswered
         /\ \A s \in Sessions : sess[s].state = "closed"
         /\ pool = None

Next ==
    \/ \E r \in Requests : Call(r)
    \/ \E c \in Connectors : Expire(c) \/ OnExpire(c) \/ Close(c)
    \/ Shutdown
    \/ AllAnswered /\ UNCHANGED vars

Spec == Init /\ [][Next]_vars

(* Requests go on (the HTTP client of a session has a timeout, in handshakes  *)
(* and in calls), goroutines run, and a session left alone is found idle by   *)
(* its ticker.                                                                *)
FairSpec ==
    /\ Spec
    /\ \A r \in Requests : WF_vars(Call(r))
    /\ \A c \in Connectors : WF_vars(Expire(c)) /\ WF_vars(OnExpire(c)) /\ WF_vars(Close(c))

-----------------------------------------------------------------------------
(* The calls on a session. *)
CallsOn(s) == {r \in Requests : req[r].pc \in {"leaving", "running"} /\ S(r) = s}

ForCause(c) ==
    \/ sess[conn[c].session].state # "live"
    \/ conn'[c].cfg # conn[c].cfg
    \/ conn'[c].closed /\ (c \in closing \/ CallsOn(conn[c].session) = {})

(* A session the server still keeps is only given up because the credentials  *)
(* changed, the plugin shuts down, or it is idle: never under a call that     *)
(* runs on it, and never because of the failure of a call on a former one     *)
(* (discardIf, inFlight, expire).                                             *)
GivenUpForCause ==
    [][\A c \in Connectors :
           conn[c].session # None /\ conn'[c].session # conn[c].session => ForCause(c)]_vars

(* A connector holds no session opened with other credentials than its own,   *)
(* however handshakes and changes of credentials overlap (generation).        *)
CredentialsCurrent ==
    \A c \in Connectors : conn[c].session # None => sess[conn[c].session].cred = conn[c].cfg

(* Concurrent calls share a session: a connector never has two, counting the  *)
(* one being opened (connectMu).                                              *)
OneSession ==
    \A c \in Connectors : Cardinality({s \in Sessions : sess[s].owner = c}) <= 1

(* Nothing is left behind: every request is answered, every session opened is *)
(* closed on our side and the pool forgets the conversation, whatever failed. *)
Drains == <>[]Quiet
=============================================================================
