-------------------------- MODULE McpSessionsProofs --------------------------
(***************************************************************************)
(* Proofs about McpSessions: a connector never holds a session opened with *)
(* other credentials than its own, it never has two sessions, and it gives *)
(* up a live one only for a cause, for any number of requests, connectors, *)
(* sessions and faults.                                                    *)
(*                                                                         *)
(* First the steps one by one: what a request is entitled to where it is,  *)
(* how open sessions are accounted for, and the calls that inFlight        *)
(* counts.  Then the counts, and the theorems.                             *)
(***************************************************************************)
EXTENDS McpSessions, Integers, TLAPS

(* Where a request has no connector, where it may have a session.             *)
Unbound == {"arriving", "resolved", "building", "done"}
Bound   == {"configuring", "configured", "acquiring", "missed", "queued", "connecting",
            "connected", "leaving", "running", "over", "ending", "attempted", "evicting",
            "rebuilding"}
Holding == {"connected", "leaving", "running", "over"}

(* Inside connectMu.                                                          *)
Handshake == {"connecting", "connected"}

Connector == [cfg : Nat, session : Sessions \cup {None}, inFlight : Nat, connecting : Int,
              closed : BOOLEAN]
Session   == [state : {"live", "ended", "closed"}, cred : Nat, owner : Connectors \cup {None}]
Request   == [pc : Unbound \cup Bound, attempt : {1, 2}, try : {1, 2, 3}, key : Nat,
              conn : Connectors \cup {None}, session : Sessions \cup {None}, stale : BOOLEAN,
              result : {"none", "closed", "failed", "changed", "answered", "over"}]

Typed ==
    /\ secret \in Nat
    /\ pool \in Connectors \cup {None}
    /\ conn \in [Connectors -> Connector]
    /\ sess \in [Sessions -> Session]
    /\ expired \subseteq Connectors /\ closing \subseteq Connectors
    /\ req \in [Requests -> Request]

(* What a request is entitled to where it is.  A session it refers to is not  *)
(* used again: as long as it is open, it is the session of its connector.     *)
Place(r) ==
    /\ req[r].pc \in Bound <=> C(r) # None
    /\ S(r) # None => req[r].pc \in Holding
    /\ req[r].pc \in {"connected", "running", "over"} => S(r) # None
    /\ req[r].stale => req[r].pc \in Handshake
    /\ req[r].pc = "connecting" /\ ~req[r].stale => req[r].key = conn[C(r)].cfg
    /\ S(r) # None /\ sess[S(r)].state # "closed" => sess[S(r)].owner = C(r)
    /\ req[r].pc = "over" => sess[S(r)].state # "live"
    /\ req[r].pc = "connected" =>
          /\ sess[S(r)].state # "closed"
          /\ ~req[r].stale => sess[S(r)].cred = conn[C(r)].cfg
    /\ req[r].pc \in Handshake => conn[C(r)].session = None

Places == \A r \in Requests : Place(r)

(* connectMu *)
OneHandshake ==
    \A q, r \in Requests :
        req[q].pc \in Handshake /\ req[r].pc \in Handshake /\ C(q) = C(r) => q = r

(* The session of a connector is open, its own, and has its credentials.      *)
Installed ==
    \A c \in Connectors : conn[c].session # None =>
        /\ sess[conn[c].session].owner = c
        /\ sess[conn[c].session].state # "closed"
        /\ sess[conn[c].session].cred = conn[c].cfg

(* An open session is that of its connector, or about to be.                  *)
Accounted ==
    \A s \in Sessions :
        /\ sess[s].state = "closed" => sess[s].owner = None
        /\ sess[s].state # "closed" =>
              /\ sess[s].owner # None
              /\ \/ conn[sess[s].owner].session = s
                 \/ \E r \in Requests : /\ req[r].pc = "connected" /\ S(r) = s
                                        /\ C(r) = sess[s].owner

(* The calls that inFlight counts on a connector.                             *)
Counts(r) ==
    \/ req[r].pc \in {"running", "ending"}
    \/ req[r].pc = "leaving" /\ S(r) # None
    \/ req[r].pc = "over" /\ req[r].try = 3

Calls(c) == {r \in Requests : C(r) = c /\ Counts(r)}

(* What a step does to them, and to the count of their connector.             *)
CallsMove ==
    \A c \in Connectors :
        \/ Calls(c)' = Calls(c) /\ conn'[c].inFlight = conn[c].inFlight
        \/ \E r \in Requests \ Calls(c) :
              Calls(c)' = Calls(c) \cup {r} /\ conn'[c].inFlight = conn[c].inFlight + 1
        \/ \E r \in Calls(c) : Calls(c)' = Calls(c) \ {r} /\ conn'[c] = Uncounted(conn[c])
        \/ Calls(c)' = {} /\ conn'[c].inFlight = 0

SessionInv == Typed /\ Places /\ OneHandshake /\ Installed /\ Accounted

(* What is shown of every step.                                               *)
Kept == SessionInv' /\ CallsMove
-----------------------------------------------------------------------------
(* What the building blocks of the actions do. *)

(* Only request r moves.                                                      *)
Only(r) ==
    /\ req' \in [Requests -> Request]
    /\ \A q \in Requests : q # r => req'[q] = req[q]

(* Become changes the record of one request.                                  *)
LEMMA BecomeFacts ==
    ASSUME Typed, NEW r \in Requests, NEW x \in Request, Become(r, x)
    PROVE  Only(r) /\ req'[r] = x
  BY DEF Typed, Become, Only

(* Only connector c changes.                                                  *)
Touches(c) ==
    /\ conn' \in [Connectors -> Connector]
    /\ \A d \in Connectors : d # c => conn'[d] = conn[d]

(* Update changes the record of one connector.                                *)
LEMMA UpdateFacts ==
    ASSUME Typed, NEW c \in Connectors, NEW k \in Connector, Update(c, k)
    PROVE  Touches(c) /\ conn'[c] = k
  BY DEF Typed, Update, Touches

(* A connector with other counts.                                             *)
LEMMA CountFacts ==
    ASSUME NEW k \in Connector
    PROVE  /\ Counted(k) \in Connector /\ Uncounted(k) \in Connector
           /\ Counted(k).session = k.session /\ Counted(k).cfg = k.cfg
           /\ Uncounted(k).session = k.session /\ Uncounted(k).cfg = k.cfg
           /\ Counted(k).inFlight = k.inFlight + 1
           /\ k.inFlight > 0 => Uncounted(k).inFlight = k.inFlight - 1
  BY DEF Connector, Counted, Uncounted

(* A connector without its session, and one retired.                          *)
LEMMA DiscardFacts ==
    ASSUME NEW k \in Connector
    PROVE  /\ Discarded(k) \in Connector /\ Retired(k) \in Connector
           /\ Discarded(k).session = None /\ Discarded(k).cfg = k.cfg
           /\ Discarded(k).inFlight = k.inFlight
           /\ Retired(k).session = None /\ Retired(k).cfg = k.cfg
           /\ Retired(k).inFlight = k.inFlight /\ Retired(k).closed
  BY ZenonT(30) DEF Connector, Discarded, Retired

(* A request that moves to another label, with a session.                     *)
LEMMA LabelFacts ==
    ASSUME NEW x \in Request, NEW l \in Unbound \cup Bound
    PROVE  LET y == [x EXCEPT !.pc = l]
           IN  /\ y \in Request /\ y.pc = l /\ y.conn = x.conn /\ y.session = x.session
               /\ y.stale = x.stale /\ y.try = x.try /\ y.key = x.key
  BY DEF Request

(* Where ensureSession returns to, with the session it got.                   *)
LEMMA ReturnFacts ==
    ASSUME Typed, NEW r \in Requests, NEW s \in Sessions \cup {None},
           NEW o \in {"none", "closed", "failed", "changed"}, Return(r, s, o)
    PROVE  /\ Only(r)
           /\ req'[r].pc = "leaving" /\ req'[r].conn = C(r) /\ req'[r].session = s
           /\ req'[r].stale = FALSE /\ req'[r].try = req[r].try
  <1> DEFINE x == [req[r] EXCEPT !.pc = "leaving", !.key = 0, !.session = s, !.stale = FALSE,
                                 !.result = o]
  <1>1. req[r] \in Request
    BY DEF Typed
  <1>2. /\ x \in Request /\ x.pc = "leaving" /\ x.conn = C(r) /\ x.session = s
        /\ x.stale = FALSE /\ x.try = req[r].try
    BY ZenonT(30), <1>1 DEF Request, Bound, C
  <1>3. Become(r, x)
    BY DEF Return
  <1> QED
    BY ZenonT(30), <1>2, <1>3, BecomeFacts

-----------------------------------------------------------------------------
(* Steps of a request that leave the sessions where they are. *)

(* At most, the server ends one.                                              *)
SameSessions ==
    /\ sess' \in [Sessions -> Session]
    /\ \A s \in Sessions :
          /\ sess'[s].owner = sess[s].owner /\ sess'[s].cred = sess[s].cred
          /\ sess'[s].state = "closed" <=> sess[s].state = "closed"
          /\ sess'[s].state = "live" => sess[s].state = "live"
    /\ conn' \in [Connectors -> Connector]
    /\ \A c \in Connectors : conn'[c].session = conn[c].session /\ conn'[c].cfg = conn[c].cfg

(* A request that comes from outside the handshake, or leaves it without a    *)
(* session, and is entitled to where it goes.                                 *)
LEMMA StepKeeps ==
    ASSUME SessionInv, NEW r \in Requests, Only(r), SameSessions, Place(r)',
           req[r].pc # "connected",
           req'[r].pc \in Handshake => req'[r].conn = C(r) /\ MayConnect(C(r))
    PROVE  Places' /\ OneHandshake' /\ Installed' /\ Accounted'
  <1>1. \A q \in Requests : q # r => req'[q] = req[q] /\ Place(q)
    BY DEF SessionInv, Places, Only
  <1>2. ASSUME NEW q \in Requests, q # r PROVE Place(q)'
    <2>1. /\ req'[q] = req[q] /\ Place(q)
          /\ req[q].conn # None => req[q].conn \in Connectors
          /\ req[q].session # None => req[q].session \in Sessions
      BY <1>1, <1>2 DEF SameSessions, SessionInv, Typed, Request
    <2>2. C(q) # None => /\ conn'[C(q)].session = conn[C(q)].session
                         /\ conn'[C(q)].cfg = conn[C(q)].cfg
      BY Zenon, <2>1 DEF SameSessions, C
    <2>3. req[q].pc \in Handshake \cup {"connecting", "connected"} => C(q) # None
      BY Zenon, <2>1 DEF Place, Handshake, Bound
    <2>4. S(q) # None =>
            /\ sess'[S(q)].owner = sess[S(q)].owner /\ sess'[S(q)].cred = sess[S(q)].cred
            /\ sess'[S(q)].state = "closed" <=> sess[S(q)].state = "closed"
            /\ sess'[S(q)].state = "live" => sess[S(q)].state = "live"
      BY Zenon, <2>1 DEF SameSessions, S
    <2> QED
      BY <2>1, <2>2, <2>3, <2>4 DEF Place, C, S, Handshake
  <1>3. Places'
    BY <1>2 DEF Places
  <1>4. OneHandshake'
    BY <1>1 DEF SessionInv, OneHandshake, MayConnect, C, Handshake
  <1>5. Installed'
    <2> SUFFICES ASSUME NEW c \in Connectors, conn[c].session # None
                 PROVE  /\ sess'[conn[c].session].owner = c
                        /\ sess'[conn[c].session].state # "closed"
                        /\ sess'[conn[c].session].cred = conn[c].cfg
      BY DEF Installed, SameSessions
    <2>1. conn[c].session \in Sessions
      BY DEF SessionInv, Typed, Connector
    <2> QED
      BY Zenon, <2>1 DEF SessionInv, Kept, Installed, SameSessions
  <1>6. Accounted'
    <2> SUFFICES ASSUME NEW s \in Sessions, sess[s].state # "closed"
                 PROVE  /\ sess[s].owner # None
                        /\ \/ conn'[sess[s].owner].session = s
                           \/ \E q \in Requests : /\ req'[q].pc = "connected" /\ req'[q].session = s
                                                  /\ req'[q].conn = sess[s].owner
      BY DEF SessionInv, Accounted, SameSessions, C, S
    <2>1. sess[s].owner \in Connectors
      BY DEF SessionInv, Accounted, Typed, Session
    <2> QED
      BY <1>1, <2>1 DEF SessionInv, Kept, Accounted, SameSessions, C, S
  <1> QED
    BY <1>3, <1>4, <1>5, <1>6

-----------------------------------------------------------------------------
(* The calls counted, when one request moves. *)

(* A step that neither begins nor ends a counted call.                        *)
LEMMA SameCounts ==
    ASSUME \A q \in Requests : /\ Counts(q)' <=> Counts(q)
                               /\ Counts(q) => req'[q].conn = C(q),
           \A c \in Connectors : conn'[c].inFlight = conn[c].inFlight
    PROVE  CallsMove
  <1>1. ASSUME NEW c \in Connectors PROVE Calls(c)' = Calls(c)
    BY DEF Calls, C
  <1> QED
    BY <1>1, ZenonT(30) DEF CallsMove

(* The same, when one request moves.                                          *)
LEMMA SameCalls ==
    ASSUME NEW r \in Requests, Only(r),
           Counts(r)' <=> Counts(r), Counts(r) => req'[r].conn = C(r),
           \A c \in Connectors : conn'[c].inFlight = conn[c].inFlight
    PROVE  CallsMove
  <1>1. ASSUME NEW q \in Requests, q # r
        PROVE  (Counts(q)' <=> Counts(q)) /\ req'[q].conn = C(q)
    BY <1>1 DEF Only, Counts, C, S
  <1> QED
    BY <1>1, SameCounts

(* A call begins on connector c.                                              *)
LEMMA OneMoreCall ==
    ASSUME NEW r \in Requests, Only(r), NEW c \in Connectors,
           ~Counts(r), Counts(r)', req'[r].conn = c,
           Touches(c), conn'[c].inFlight = conn[c].inFlight + 1
    PROVE  CallsMove
  <1>1. Calls(c)' = Calls(c) \cup {r} /\ r \in Requests \ Calls(c)
    BY DEF Calls, C, Only, Counts, S
  <1>2. ASSUME NEW d \in Connectors, d # c
        PROVE  Calls(d)' = Calls(d) /\ conn'[d] = conn[d]
    BY <1>2 DEF Calls, C, Only, Counts, S, Touches
  <1> QED
    BY <1>1, <1>2, ZenonT(30) DEF CallsMove

(* A call on its connector ends.                                              *)
LEMMA OneCallLess ==
    ASSUME NEW r \in Requests, Only(r), NEW c \in Connectors,
           Counts(r), ~Counts(r)', C(r) = c,
           Touches(c), conn'[c] = Uncounted(conn[c])
    PROVE  CallsMove
  <1>1. Calls(c)' = Calls(c) \ {r} /\ r \in Calls(c)
    BY DEF Calls, C, Only, Counts, S
  <1>2. ASSUME NEW d \in Connectors, d # c
        PROVE  Calls(d)' = Calls(d) /\ conn'[d] = conn[d]
    BY <1>2 DEF Calls, C, Only, Counts, S, Touches
  <1> QED
    BY <1>1, <1>2, ZenonT(30) DEF CallsMove
-----------------------------------------------------------------------------
(* Steps that change no connector and no session. *)

PluginTyped ==
    /\ secret' \in Nat /\ pool' \in Connectors \cup {None}
    /\ expired' \subseteq Connectors /\ closing' \subseteq Connectors

(* The connectors and the sessions as they were.                              *)
LEMMA UnchangedFacts ==
    ASSUME Typed, UNCHANGED <<conn, sess>>
    PROVE  SameSessions /\ \A c \in Connectors : conn'[c] = conn[c]
  BY DEF Typed, SameSessions

(* A request that keeps its count, beside connectors and sessions unchanged.  *)
LEMMA QuietKeeps ==
    ASSUME SessionInv, NEW r \in Requests, Only(r), UNCHANGED <<conn, sess>>, PluginTyped,
           Place(r)', req[r].pc # "connected",
           req'[r].pc \in Handshake => req'[r].conn = C(r) /\ MayConnect(C(r)),
           Counts(r)' <=> Counts(r), Counts(r) => req'[r].conn = C(r)
    PROVE  Kept
  <1>1. Places' /\ OneHandshake' /\ Installed' /\ Accounted'
    BY StepKeeps, UnchangedFacts DEF SessionInv
  <1>2. CallsMove
    BY SameCalls DEF SessionInv
  <1>3. Typed'
    BY DEF SessionInv, Typed, PluginTyped, Only
  <1> QED
    BY <1>1, <1>2, <1>3 DEF SessionInv, Kept

(* A request that has, or gets, no connector; or one it keeps, without a      *)
(* session.                                                                   *)
LEMMA IdleKeeps ==
    ASSUME SessionInv, NEW r \in Requests, NEW x \in Request, Become(r, x),
           UNCHANGED <<conn, sess>>, PluginTyped,
           req[r].pc \notin {"connected", "running", "ending", "leaving", "over"},
           x.pc \notin {"connected", "connecting", "running", "ending", "over"},
           x.pc \in Bound <=> x.conn # None,
           x.session = None, ~x.stale
    PROVE  Kept
  <1>1. Only(r) /\ req'[r] = x
    BY BecomeFacts DEF SessionInv
  <1>2. Place(r)'
    BY <1>1 DEF Place, C, S, Handshake
  <1>3. ~Counts(r) /\ ~Counts(r)'
    BY <1>1 DEF Counts, S
  <1> QED
    BY <1>1, <1>2, <1>3, QuietKeeps DEF Handshake

(* What is known of a request.                                                *)
LEMMA RequestFacts ==
    ASSUME SessionInv, NEW r \in Requests
    PROVE  /\ req[r] \in Request /\ Place(r)
           /\ C(r) # None => C(r) \in Connectors /\ conn[C(r)] \in Connector
           /\ S(r) # None => S(r) \in Sessions /\ sess[S(r)] \in Session
  BY DEF SessionInv, Typed, Places, Request, C, S

(* The plugin as it was.                                                      *)
LEMMA PluginFacts ==
    ASSUME SessionInv
    PROVE  /\ UNCHANGED plugin => PluginTyped
           /\ \A c \in Connectors : forgetKey(c) => pool' \in Connectors \cup {None}
  BY DEF SessionInv, Typed, PluginTyped, plugin, forgetKey

(* A request that has just come.                                              *)
LEMMA NewFacts ==
    /\ NewRequest \in Request /\ Done \in Request
    /\ NewRequest.pc = "arriving" /\ NewRequest.conn = None /\ NewRequest.session = None
    /\ ~NewRequest.stale
    /\ Done.pc = "done" /\ Done.conn = None /\ Done.session = None /\ ~Done.stale
  BY ZenonT(30) DEF NewRequest, Done, Request, Unbound, Bound

(* connect and the look at the pool.                                          *)
LEMMA ResolveKeeps ==
    ASSUME SessionInv, NEW r \in Requests, Resolve(r) \/ Unresolved(r) \/ Lookup(r)
    PROVE  Kept
  <1>1. req[r] \in Request /\ Place(r) /\ secret \in Nat /\ pool \in Connectors \cup {None}
    BY RequestFacts DEF SessionInv, Typed
  <1>2. CASE Resolve(r)
    <2> DEFINE x == [req[r] EXCEPT !.key = secret', !.pc = "resolved"]
    <2>1. secret' \in Nat
      BY <1>1, <1>2 DEF Resolve, Fault
    <2>2. x \in Request /\ x.pc = "resolved" /\ x.conn = C(r) /\ x.session = S(r)
          /\ x.stale = req[r].stale
      BY ZenonT(30), <1>1, <2>1 DEF Request, Unbound, C, S
    <2>3. PluginTyped /\ Become(r, x) /\ UNCHANGED <<conn, sess>> /\ req[r].pc = "arriving"
      BY <1>2, <2>1 DEF Resolve, PluginTyped, SessionInv, Typed
    <2>4. C(r) = None /\ S(r) = None /\ ~req[r].stale
      BY <1>1, <2>3 DEF Place, Bound, Holding, Handshake
    <2> HIDE DEF x
    <2> QED
      BY <2>2, <2>3, <2>4, IdleKeeps DEF Bound
  <1>3. CASE Unresolved(r)
    <2>1. PluginTyped /\ Become(r, Done) /\ UNCHANGED <<conn, sess>> /\ req[r].pc = "arriving"
      BY <1>3, PluginFacts DEF Unresolved
    <2> QED
      BY <2>1, NewFacts, IdleKeeps DEF Bound
  <1>4. CASE Lookup(r)
    <2> DEFINE x == [req[r] EXCEPT !.conn = pool,
                                   !.pc = IF pool = None THEN "building" ELSE "configuring"]
    <2>1. x \in Request /\ x.pc = (IF pool = None THEN "building" ELSE "configuring")
          /\ x.conn = pool /\ x.session = S(r) /\ x.stale = req[r].stale
      BY ZenonT(30), <1>1 DEF Request, Unbound, Bound, C, S
    <2>2. PluginTyped /\ Become(r, x) /\ UNCHANGED <<conn, sess>> /\ req[r].pc = "resolved"
      BY <1>4, PluginFacts DEF Lookup
    <2>3. S(r) = None /\ ~req[r].stale
      BY <1>1, <2>2 DEF Place, Bound, Holding, Handshake
    <2> HIDE DEF x
    <2> QED
      BY <2>1, <2>2, <2>3, IdleKeeps DEF Bound
  <1> QED
    BY <1>2, <1>3, <1>4

(* A connector of the pool that was retired, or is used as it is.             *)
LEMMA TerminalKeeps ==
    ASSUME SessionInv, NEW r \in Requests, Terminal(r)
    PROVE  Kept
  <1>1. /\ req[r] \in Request /\ Place(r) /\ req[r].pc = "configured" /\ C(r) \in Connectors
        /\ S(r) = None /\ ~req[r].stale
    BY RequestFacts DEF Terminal, Place, Bound, Holding, Handshake
  <1>2. PluginTyped /\ UNCHANGED <<conn, sess>>
    BY <1>1, PluginFacts DEF Terminal, SessionInv, Typed, PluginTyped
  <1>3. CASE conn[C(r)].closed
    <2> DEFINE x == [req[r] EXCEPT !.pc = "building", !.conn = None]
    <2>1. x \in Request /\ x.pc = "building" /\ x.conn = None /\ x.session = S(r)
          /\ x.stale = req[r].stale
      BY ZenonT(30), <1>1 DEF Request, Unbound, S
    <2>2. Become(r, x)
      BY <1>3 DEF Terminal
    <2> HIDE DEF x
    <2> QED
      BY <1>1, <1>2, <2>1, <2>2, IdleKeeps DEF Bound
  <1>4. CASE ~conn[C(r)].closed
    <2> DEFINE x == [req[r] EXCEPT !.pc = "acquiring", !.conn = C(r), !.key = 0]
    <2>1. x \in Request /\ x.pc = "acquiring" /\ x.conn = C(r) /\ x.session = S(r)
          /\ x.stale = req[r].stale
      BY ZenonT(30), <1>1 DEF Request, Bound, S
    <2>2. Become(r, x)
      BY <1>4 DEF Terminal, Ready
    <2>3. C(r) # None
      BY <1>1, McpAssumption
    <2> HIDE DEF x
    <2> QED
      BY <1>1, <1>2, <2>1, <2>2, <2>3, IdleKeeps DEF Bound
  <1> QED
    BY <1>3, <1>4

(* The end of an attempt of doWithRebuild.                                    *)
LEMMA ConcludeKeeps ==
    ASSUME SessionInv, NEW r \in Requests, req[r].pc \in {"attempted", "evicting"}, Conclude(r),
           PluginTyped, UNCHANGED <<conn, sess>>
    PROVE  Kept
  <1>1. /\ req[r] \in Request /\ Place(r) /\ C(r) # None /\ S(r) = None /\ ~req[r].stale
    BY Zenon, RequestFacts DEF Place, Bound, Holding, Handshake
  <1>2. CASE Become(r, Done)
    BY <1>2, NewFacts, IdleKeeps DEF Bound
  <1>3. CASE Goto(r, "rebuilding")
    <2> DEFINE x == [req[r] EXCEPT !.pc = "rebuilding"]
    <2>1. x \in Request /\ x.pc = "rebuilding" /\ x.conn = C(r) /\ x.session = S(r)
          /\ x.stale = req[r].stale
      BY <1>1, LabelFacts DEF Bound, C, S
    <2>2. Become(r, x)
      BY <1>3 DEF Goto
    <2> HIDE DEF x
    <2> QED
      BY <1>1, <2>1, <2>2, IdleKeeps DEF Bound
  <1> QED
    BY <1>2, <1>3 DEF Conclude

(* After a failed attempt: a sessionless connector is evicted and replaced.   *)
LEMMA RebuildKeeps ==
    ASSUME SessionInv, NEW r \in Requests, LookSessionless(r) \/ Evict(r) \/ Rebuild(r)
    PROVE  Kept
  <1>1. /\ req[r] \in Request /\ Place(r)
        /\ req[r].pc \in {"attempted", "evicting", "rebuilding"}
        /\ C(r) \in Connectors /\ S(r) = None /\ ~req[r].stale
    BY Zenon, RequestFacts DEF Place, Bound, Holding, Handshake, LookSessionless, Evict, Rebuild
  <1>2. UNCHANGED <<conn, sess>>
    BY DEF LookSessionless, Evict, Rebuild
  <1>3. PluginTyped
    BY <1>1, PluginFacts DEF LookSessionless, Evict, Rebuild, SessionInv, Typed, PluginTyped
  <1>4. CASE req[r].pc # "rebuilding" /\ Conclude(r)
    BY <1>1, <1>2, <1>3, <1>4, ConcludeKeeps
  <1>5. CASE req[r].pc = "attempted" /\ Goto(r, "evicting")
    <2> DEFINE x == [req[r] EXCEPT !.pc = "evicting"]
    <2>1. x \in Request /\ x.pc = "evicting" /\ x.conn = C(r) /\ x.session = S(r)
          /\ x.stale = req[r].stale
      BY Zenon, <1>1, LabelFacts DEF Bound, C, S
    <2>2. Become(r, x) /\ C(r) # None
      BY <1>1, <1>5, McpAssumption DEF Goto
    <2> HIDE DEF x
    <2> QED
      BY Zenon, <1>1, <1>2, <1>3, <1>5, <2>1, <2>2, IdleKeeps DEF Bound
  <1>6. CASE Rebuild(r)
    <2> DEFINE x == [NewRequest EXCEPT !.attempt = 2]
    <2>1. x \in Request /\ x.pc = "arriving" /\ x.conn = None /\ x.session = None /\ ~x.stale
      BY ZenonT(30) DEF NewRequest, Request, Unbound
    <2>2. Become(r, x) /\ req[r].pc = "rebuilding"
      BY <1>6 DEF Rebuild
    <2> HIDE DEF x
    <2> QED
      BY <1>2, <1>3, <2>1, <2>2, IdleKeeps DEF Bound
  <1> QED
    BY <1>4, <1>5, <1>6 DEF LookSessionless, Evict
-----------------------------------------------------------------------------
(* Steps that change the counts of a connector. *)

(* A request entitled to where it goes, with other counts on its connector.   *)
LEMMA CountingKeeps ==
    ASSUME SessionInv, NEW r \in Requests, Only(r), NEW c \in Connectors,
           Touches(c), conn'[c].session = conn[c].session, conn'[c].cfg = conn[c].cfg,
           UNCHANGED <<sess, plugin>>,
           Place(r)', req[r].pc # "connected", req'[r].pc \notin Handshake, CallsMove
    PROVE  Kept
  <1>1. SameSessions
    BY DEF SessionInv, Typed, SameSessions, Touches
  <1>2. Places' /\ OneHandshake' /\ Installed' /\ Accounted'
    BY <1>1, StepKeeps
  <1>3. PluginTyped
    BY PluginFacts
  <1>4. Typed'
    BY <1>1, <1>3 DEF Typed, PluginTyped, Only, SameSessions
  <1> QED
    BY <1>2, <1>4 DEF SessionInv, Kept

(* A call gets the session of its connector.                                  *)
LEMMA GetsSession ==
    ASSUME SessionInv, NEW r \in Requests, C(r) \in Connectors, conn[C(r)].session # None,
           Update(C(r), Counted(conn[C(r)])), ~Counts(r), req[r].pc # "connected",
           Only(r), req'[r].pc \in {"running", "leaving"}, req'[r].conn = C(r),
           req'[r].session = conn[C(r)].session, ~req'[r].stale,
           UNCHANGED <<sess, plugin>>
    PROVE  Kept
  <1> DEFINE c == C(r)
  <1>1. conn[c] \in Connector
    BY DEF SessionInv, Typed
  <1>2. /\ Touches(c) /\ conn'[c].session = conn[c].session /\ conn'[c].cfg = conn[c].cfg
        /\ conn'[c].inFlight = conn[c].inFlight + 1
    BY <1>1, CountFacts, UpdateFacts DEF SessionInv
  <1>3. Counts(r)'
    BY DEF Counts, S
  <1>4. CallsMove
    BY Zenon, <1>2, <1>3, OneMoreCall DEF SessionInv
  <1>5. sess[conn[c].session].owner = c
    BY Zenon DEF SessionInv, Installed
  <1>6. Place(r)'
    BY Zenon, <1>5, McpAssumption DEF Place, C, S, Handshake, Bound, Holding
  <1> QED
    BY Zenon, <1>2, <1>4, <1>6, CountingKeeps DEF Handshake

(* A call takes the session of its connector, or finds none.                  *)
LEMMA AcquireKeeps ==
    ASSUME SessionInv, NEW r \in Requests, Acquire(r)
    PROVE  Kept
  <1>1. /\ req[r] \in Request /\ Place(r) /\ req[r].pc = "acquiring" /\ C(r) \in Connectors
        /\ C(r) # None /\ S(r) = None /\ ~req[r].stale /\ conn[C(r)] \in Connector
    BY Zenon, RequestFacts DEF Acquire, Place, Bound, Holding, Handshake
  <1>2. CASE conn[C(r)].session # None
    <2> DEFINE x == [req[r] EXCEPT !.pc = "running", !.session = conn[C(r)].session]
    <2>1. conn[C(r)].session \in Sessions \cup {None}
      BY <1>1 DEF Connector
    <2>2. x \in Request /\ x.pc = "running" /\ x.conn = C(r)
          /\ x.session = conn[C(r)].session /\ x.stale = req[r].stale
      BY ZenonT(30), <1>1, <2>1 DEF Request, Bound, C
    <2>3. Become(r, x) /\ Update(C(r), Counted(conn[C(r)])) /\ UNCHANGED <<sess, plugin>>
      BY <1>2 DEF Acquire
    <2> HIDE DEF x
    <2>4. Only(r) /\ req'[r] = x
      BY <2>2, <2>3, BecomeFacts DEF SessionInv
    <2>5. ~Counts(r)
      BY <1>1 DEF Counts
    <2> QED
      BY Zenon, <1>1, <1>2, <2>2, <2>3, <2>4, <2>5, GetsSession
  <1>3. CASE conn[C(r)].session = None
    <2> DEFINE x == [req[r] EXCEPT !.pc = "missed"]
    <2>1. x \in Request /\ x.pc = "missed" /\ x.conn = C(r) /\ x.session = S(r)
          /\ x.stale = req[r].stale
      BY Zenon, <1>1, LabelFacts DEF Bound, C, S
    <2>2. Become(r, x) /\ UNCHANGED <<conn, sess>> /\ PluginTyped
      BY <1>3, PluginFacts DEF Acquire, Goto
    <2> HIDE DEF x
    <2> QED
      BY Zenon, <1>1, <2>1, <2>2, IdleKeeps DEF Bound
  <1> QED
    BY <1>2, <1>3

(* connecting is incremented before connectMu is waited for, decremented once *)
(* it is released.                                                            *)
LEMMA ConnectingFacts ==
    ASSUME Typed, NEW c \in Connectors, NEW n \in Int,
           Update(c, [conn[c] EXCEPT !.connecting = n])
    PROVE  /\ Touches(c) /\ conn'[c].session = conn[c].session /\ conn'[c].cfg = conn[c].cfg
           /\ \A d \in Connectors : conn'[d].inFlight = conn[d].inFlight
  <1> DEFINE k == [conn[c] EXCEPT !.connecting = n]
  <1>1. conn[c] \in Connector
    BY DEF Typed
  <1>2. /\ k \in Connector /\ k.session = conn[c].session /\ k.cfg = conn[c].cfg
        /\ k.inFlight = conn[c].inFlight
    BY <1>1 DEF Connector
  <1> HIDE DEF k
  <1>3. Touches(c) /\ conn'[c] = k
    BY <1>2, UpdateFacts DEF k
  <1> QED
    BY <1>2, <1>3 DEF Touches

(* A call joins those that wait for the handshake.                            *)
LEMMA CountConnectingKeeps ==
    ASSUME SessionInv, NEW r \in Requests, CountConnecting(r)
    PROVE  Kept
  <1>1. /\ req[r] \in Request /\ Place(r) /\ req[r].pc = "missed" /\ C(r) \in Connectors
        /\ C(r) # None /\ S(r) = None /\ ~req[r].stale /\ conn[C(r)] \in Connector
    BY Zenon, RequestFacts DEF CountConnecting, Place, Bound, Holding, Handshake
  <1> DEFINE x == [req[r] EXCEPT !.pc = "queued"]
  <1>2. x \in Request /\ x.pc = "queued" /\ x.conn = C(r) /\ x.session = S(r)
        /\ x.stale = req[r].stale
    BY <1>1, LabelFacts DEF Bound, C, S
  <1>3. Become(r, x) /\ UNCHANGED <<sess, plugin>>
    BY DEF CountConnecting, Goto
  <1> HIDE DEF x
  <1>4. Only(r) /\ req'[r] = x
    BY <1>2, <1>3, BecomeFacts DEF SessionInv
  <1>5. conn[C(r)].connecting + 1 \in Int
    BY <1>1 DEF Connector
  <1>6. /\ Touches(C(r)) /\ conn'[C(r)].session = conn[C(r)].session
        /\ conn'[C(r)].cfg = conn[C(r)].cfg
        /\ \A d \in Connectors : conn'[d].inFlight = conn[d].inFlight
    BY <1>1, <1>5, ConnectingFacts DEF CountConnecting, SessionInv
  <1>7. ~Counts(r) /\ ~Counts(r)'
    BY <1>1, <1>2, <1>4 DEF Counts
  <1>8. CallsMove
    BY Zenon, <1>4, <1>6, <1>7, SameCalls DEF SessionInv
  <1>9. Place(r)'
    BY Zenon, <1>1, <1>2, <1>4 DEF Place, C, S, Handshake, Bound, Holding
  <1> QED
    BY Zenon, <1>1, <1>2, <1>3, <1>4, <1>6, <1>8, <1>9, CountingKeeps DEF Handshake
(* A call leaves ensureSession, with a session or without.                    *)
LEMMA LeaveKeeps ==
    ASSUME SessionInv, NEW r \in Requests, Leave(r)
    PROVE  Kept
  <1>1. /\ req[r] \in Request /\ Place(r) /\ req[r].pc = "leaving" /\ C(r) \in Connectors
        /\ C(r) # None /\ ~req[r].stale /\ conn[C(r)] \in Connector
    BY RequestFacts DEF Leave, Place, Bound, Holding, Handshake
  <1>2. PICK x \in Request :
            /\ Become(r, x) /\ x.conn = C(r) /\ x.session = S(r) /\ ~x.stale
            /\ \/ S(r) # None /\ x.pc = "running"
               \/ S(r) = None /\ x.pc \in {"acquiring", "attempted"}
    <2>1. CASE S(r) # None
      <3> DEFINE x == [req[r] EXCEPT !.pc = "running"]
      <3>1. x \in Request /\ x.pc = "running" /\ x.conn = C(r) /\ x.session = S(r)
            /\ x.stale = req[r].stale
        BY <1>1, LabelFacts DEF Bound, C, S
      <3>2. Become(r, x)
        BY <2>1 DEF Leave, Proceed
      <3> QED
        BY ZenonT(30), <1>1, <2>1, <3>1, <3>2
    <2>2. CASE S(r) = None /\ req[r].result = "changed" /\ req[r].try = 1
      <3> DEFINE x == [req[r] EXCEPT !.pc = "acquiring", !.try = 2, !.result = "none"]
      <3>1. x \in Request /\ x.pc = "acquiring" /\ x.conn = C(r) /\ x.session = S(r)
            /\ x.stale = req[r].stale
        BY ZenonT(30), <1>1 DEF Request, Bound, C, S
      <3>2. Become(r, x)
        BY <2>2 DEF Leave, Proceed
      <3> QED
        BY ZenonT(30), <1>1, <2>2, <3>1, <3>2
    <2>3. CASE S(r) = None /\ ~(req[r].result = "changed" /\ req[r].try = 1)
      <3> DEFINE x == [req[r] EXCEPT !.pc = "attempted"]
      <3>1. x \in Request /\ x.pc = "attempted" /\ x.conn = C(r) /\ x.session = S(r)
            /\ x.stale = req[r].stale
        BY <1>1, LabelFacts DEF Bound, C, S
      <3>2. Become(r, x)
        BY <2>3 DEF Leave, Proceed
      <3> QED
        BY ZenonT(30), <1>1, <2>3, <3>1, <3>2
    <2> QED
      BY Zenon, <2>1, <2>2, <2>3
  <1>3. Only(r) /\ req'[r] = x
    BY <1>2, BecomeFacts DEF SessionInv
  <1>4. conn[C(r)].connecting - 1 \in Int
    BY <1>1 DEF Connector
  <1>5. /\ Touches(C(r)) /\ conn'[C(r)].session = conn[C(r)].session
        /\ conn'[C(r)].cfg = conn[C(r)].cfg
        /\ \A d \in Connectors : conn'[d].inFlight = conn[d].inFlight
    BY <1>1, <1>4, ConnectingFacts DEF Leave, SessionInv
  <1>6. UNCHANGED <<sess, plugin>>
    BY DEF Leave
  <1>7. Counts(r)' <=> Counts(r)
    BY Zenon, <1>1, <1>2, <1>3 DEF Counts, S
  <1>8. CallsMove
    BY Zenon, <1>2, <1>3, <1>5, <1>7, SameCalls DEF SessionInv
  <1>9. Place(r)'
    BY Zenon, <1>1, <1>2, <1>3, <1>6 DEF Place, C, S, Handshake, Bound, Holding
  <1> QED
    BY Zenon, <1>1, <1>2, <1>3, <1>5, <1>6, <1>8, <1>9, CountingKeeps DEF Handshake

(* done: a call gives its session back.                                       *)
LEMMA EndsCall ==
    ASSUME SessionInv, NEW r \in Requests, req[r].pc \in {"running", "ending"},
           NEW x \in Request, Become(r, x), x.pc = "attempted", x.conn = C(r),
           x.session = None, ~x.stale,
           Update(C(r), Uncounted(conn[C(r)])), UNCHANGED <<sess, plugin>>
    PROVE  Kept
  <1>1. /\ Place(r) /\ C(r) \in Connectors /\ C(r) # None /\ conn[C(r)] \in Connector
    BY Zenon, RequestFacts DEF Place, Bound
  <1>2. Only(r) /\ req'[r] = x
    BY BecomeFacts DEF SessionInv
  <1>3. Counts(r) /\ ~Counts(r)'
    BY <1>2 DEF Counts
  <1>4. /\ Touches(C(r)) /\ conn'[C(r)] = Uncounted(conn[C(r)])
        /\ conn'[C(r)].session = conn[C(r)].session /\ conn'[C(r)].cfg = conn[C(r)].cfg
    BY Zenon, <1>1, CountFacts, UpdateFacts DEF SessionInv
  <1>5. CallsMove
    BY Zenon, <1>1, <1>2, <1>3, <1>4, OneCallLess DEF SessionInv
  <1>6. Place(r)'
    BY ZenonT(30), <1>1, <1>2 DEF Place, C, S, Handshake, Bound, Holding
  <1> QED
    BY Zenon, <1>1, <1>2, <1>4, <1>5, <1>6, CountingKeeps DEF Handshake

(* A call is answered, at once or after the retry.                            *)
LEMMA AnsweredKeeps ==
    ASSUME SessionInv, NEW r \in Requests, Answered(r) \/ EndRetry(r)
    PROVE  Kept
  <1>1. /\ req[r] \in Request /\ req[r].pc \in {"running", "ending"} /\ ~req[r].stale
        /\ req[r].pc = "ending" => S(r) = None
    BY RequestFacts DEF Answered, EndRetry, Place, Holding, Handshake
  <1>2. CASE Answered(r)
    <2> DEFINE x == [req[r] EXCEPT !.pc = "attempted", !.session = None, !.result = "answered"]
    <2>1. x \in Request /\ x.pc = "attempted" /\ x.conn = C(r) /\ x.session = None
          /\ x.stale = req[r].stale
      BY ZenonT(30), <1>1 DEF Request, Bound, C
    <2>2. Become(r, x) /\ Update(C(r), Uncounted(conn[C(r)])) /\ UNCHANGED <<sess, plugin>>
      BY <1>2 DEF Answered
    <2> HIDE DEF x
    <2> QED
      BY Zenon, <1>1, <2>1, <2>2, EndsCall
  <1>3. CASE EndRetry(r)
    <2> DEFINE x == [req[r] EXCEPT !.pc = "attempted", !.result = "over"]
    <2>1. x \in Request /\ x.pc = "attempted" /\ x.conn = C(r) /\ x.session = S(r)
          /\ x.stale = req[r].stale
      BY ZenonT(30), <1>1 DEF Request, Bound, C, S
    <2>2. /\ Become(r, x) /\ Update(C(r), Uncounted(conn[C(r)])) /\ UNCHANGED <<sess, plugin>>
          /\ req[r].pc = "ending"
      BY <1>3 DEF EndRetry
    <2> HIDE DEF x
    <2> QED
      BY Zenon, <1>1, <2>1, <2>2, EndsCall
  <1> QED
    BY <1>2, <1>3
(* The call finds its session over, and the server may end it just now.       *)
LEMMA SessionOverKeeps ==
    ASSUME SessionInv, NEW r \in Requests, SessionOver(r)
    PROVE  Kept
  <1>1. /\ req[r] \in Request /\ Place(r) /\ req[r].pc = "running" /\ C(r) \in Connectors
        /\ C(r) # None /\ ~req[r].stale /\ conn[C(r)] \in Connector
        /\ S(r) # None /\ S(r) \in Sessions /\ sess[S(r)] \in Session
    BY RequestFacts DEF SessionOver, Place, Bound, Holding, Handshake
  <1> DEFINE x == [req[r] EXCEPT !.pc = "over"]
  <1>2. x \in Request /\ x.pc = "over" /\ x.conn = C(r) /\ x.session = S(r)
        /\ x.stale = req[r].stale /\ x.try = req[r].try
    BY <1>1, LabelFacts DEF Bound, C, S
  <1>3. Become(r, x) /\ PluginTyped
    BY PluginFacts DEF SessionOver, Goto, SessionInv, Typed, PluginTyped
  <1> HIDE DEF x
  <1>4. Only(r) /\ req'[r] = x
    BY <1>2, <1>3, BecomeFacts DEF SessionInv
  <1>5. /\ sess' \in [Sessions -> Session] /\ sess'[S(r)].state # "live"
        /\ \A s \in Sessions :
              /\ sess'[s].owner = sess[s].owner /\ sess'[s].cred = sess[s].cred
              /\ sess'[s].state = "closed" <=> sess[s].state = "closed"
              /\ sess'[s].state = "live" => sess[s].state = "live"
    <2>1. sess \in [Sessions -> Session]
      BY DEF SessionInv, Typed
    <2>2. CASE sess[S(r)].state # "live" /\ UNCHANGED sess
      BY Zenon, <1>1, <2>1, <2>2
    <2>3. CASE sess[S(r)].state = "live" /\ sess' = [sess EXCEPT ![S(r)].state = "ended"]
      BY <1>1, <2>1, <2>3 DEF Session
    <2> QED
      BY <2>2, <2>3 DEF SessionOver
  <1>6. /\ conn' \in [Connectors -> Connector]
        /\ \A c \in Connectors : conn'[c].session = conn[c].session /\ conn'[c].cfg = conn[c].cfg
        /\ CallsMove
    <2>1. CASE Retrying(r)
      <3>1. UNCHANGED conn
        BY <2>1 DEF SessionOver
      <3>2. Counts(r) /\ Counts(r)'
        BY Zenon, <1>1, <1>2, <1>4, <2>1 DEF Counts, Retrying
      <3> QED
        BY Zenon, <1>2, <1>4, <3>1, <3>2, SameCalls DEF SessionInv, Kept, Typed
    <2>2. CASE ~Retrying(r)
      <3>1. Update(C(r), Uncounted(conn[C(r)]))
        BY <2>2 DEF SessionOver
      <3>2. /\ Touches(C(r)) /\ conn'[C(r)] = Uncounted(conn[C(r)])
            /\ conn'[C(r)].session = conn[C(r)].session /\ conn'[C(r)].cfg = conn[C(r)].cfg
        BY Zenon, <1>1, <3>1, CountFacts, UpdateFacts DEF SessionInv
      <3>3. Counts(r) /\ ~Counts(r)'
        BY Zenon, <1>1, <1>2, <1>4, <2>2 DEF Counts, Retrying
      <3>4. CallsMove
        BY Zenon, <1>1, <1>4, <3>2, <3>3, OneCallLess DEF SessionInv
      <3> QED
        BY <3>2, <3>4 DEF Touches
    <2> QED
      BY <2>1, <2>2
  <1>7. SameSessions
    BY Zenon, <1>5, <1>6 DEF SameSessions
  <1>8. Place(r)'
    BY Zenon, <1>1, <1>2, <1>4, <1>5 DEF Place, C, S, Handshake, Bound, Holding
  <1>9. Places' /\ OneHandshake' /\ Installed' /\ Accounted'
    BY ZenonT(30), <1>1, <1>2, <1>4, <1>7, <1>8, StepKeeps DEF Handshake
  <1> QED
    BY Zenon, <1>3, <1>4, <1>5, <1>6, <1>9 DEF SessionInv, Kept, Typed, PluginTyped, Only

-----------------------------------------------------------------------------
(* connectMu *)

(* The lock is taken, or a handshake fails.                                   *)
LEMMA LockConnectKeeps ==
    ASSUME SessionInv, NEW r \in Requests, LockConnect(r) \/ ConnectFails(r)
    PROVE  Kept
  <1>1. /\ req[r] \in Request /\ Place(r) /\ req[r].pc \in {"queued", "connecting"}
        /\ C(r) \in Connectors /\ C(r) # None /\ S(r) = None
        /\ req[r].pc = "queued" => ~req[r].stale
        /\ conn[C(r)] \in Connector
    BY Zenon, RequestFacts DEF LockConnect, ConnectFails, Place, Bound, Holding, Handshake
  <1>2. UNCHANGED <<sess, plugin>> /\ PluginTyped
    BY PluginFacts DEF LockConnect, ConnectFails
  <1>3. ~Counts(r)
    BY Zenon, <1>1 DEF Counts
  <1>4. ASSUME NEW o \in {"closed", "failed"}, Return(r, None, o), UNCHANGED conn
        PROVE  Kept
    <2>1. /\ Only(r) /\ req'[r].pc = "leaving" /\ req'[r].conn = C(r)
          /\ req'[r].session = None /\ req'[r].stale = FALSE
      BY ZenonT(30), <1>4, ReturnFacts DEF SessionInv
    <2>2. Place(r)'
      BY Zenon, <1>1, <2>1 DEF Place, C, S, Handshake, Bound
    <2>3. ~Counts(r)'
      BY <2>1 DEF Counts, S
    <2> QED
      BY Zenon, <1>1, <1>2, <1>3, <1>4, <2>1, <2>2, <2>3, QuietKeeps DEF Handshake
  <1>5. CASE LockConnect(r) /\ conn[C(r)].session # None
    <2>1. conn[C(r)].session \in Sessions \cup {None}
      BY Zenon, <1>1 DEF Connector
    <2>2. Return(r, conn[C(r)].session, "none") /\ Update(C(r), Counted(conn[C(r)]))
          /\ req[r].pc = "queued"
      BY <1>5 DEF LockConnect
    <2>3. /\ Only(r) /\ req'[r].pc = "leaving" /\ req'[r].conn = C(r)
          /\ req'[r].session = conn[C(r)].session /\ req'[r].stale = FALSE
      BY ZenonT(30), <2>1, <2>2, ReturnFacts DEF SessionInv
    <2> QED
      BY ZenonT(30), <1>1, <1>2, <1>3, <1>5, <2>2, <2>3, GetsSession
  <1>6. CASE LockConnect(r) /\ conn[C(r)].session = None /\ ~conn[C(r)].closed
    <2> DEFINE x == [req[r] EXCEPT !.pc = "connecting", !.key = conn[C(r)].cfg]
    <2>1. conn[C(r)].cfg \in Nat
      BY <1>1 DEF Connector
    <2>2. x \in Request /\ x.pc = "connecting" /\ x.conn = C(r) /\ x.session = S(r)
          /\ x.stale = req[r].stale /\ x.key = conn[C(r)].cfg
      BY ZenonT(30), <1>1, <2>1 DEF Request, Bound, C, S
    <2>3. Become(r, x) /\ UNCHANGED conn /\ MayConnect(C(r)) /\ req[r].pc = "queued"
      BY <1>6 DEF LockConnect
    <2> HIDE DEF x
    <2>4. Only(r) /\ req'[r] = x
      BY Zenon, <2>2, <2>3, BecomeFacts DEF SessionInv
    <2>5. Place(r)'
      BY Zenon, <1>1, <1>6, <2>2, <2>3, <2>4 DEF Place, C, S, Handshake, Bound, Holding
    <2>6. ~Counts(r)'
      BY Zenon, <2>2, <2>4 DEF Counts
    <2> QED
      BY Zenon, <1>2, <1>3, <2>2, <2>3, <2>4, <2>5, <2>6, QuietKeeps
  <1> QED
    BY <1>4, <1>5, <1>6 DEF LockConnect, ConnectFails
-----------------------------------------------------------------------------
(* Steps that close the session of a connector. *)

(* Connector c loses its session, which is closed.                            *)
Drops(c) ==
    /\ Touches(c) /\ CloseSession(c)
    /\ conn'[c].session = None /\ conn'[c].inFlight = conn[c].inFlight

(* Closing a session frees it, and leaves the others.                         *)
LEMMA CloseFacts ==
    ASSUME SessionInv, NEW c \in Connectors, CloseSession(c)
    PROVE  /\ sess' \in [Sessions -> Session]
           /\ \A s \in Sessions : s # conn[c].session => sess'[s] = sess[s]
           /\ \A s \in Sessions : s = conn[c].session
                  => sess'[s].state = "closed" /\ sess'[s].owner = None
  BY DEF SessionInv, Typed, CloseSession, NoSession, Session

(* A connector that discards its session, or retires, drops it.               *)
LEMMA DiscardDrops ==
    ASSUME SessionInv, NEW c \in Connectors, CloseSession(c),
           Update(c, Discarded(conn[c])) \/ Update(c, Retired(conn[c]))
    PROVE  Drops(c) /\ conn'[c].cfg = conn[c].cfg
  <1>1. Typed /\ conn[c] \in Connector
    BY DEF SessionInv, Typed
  <1>2. PICK k \in Connector :
            /\ Update(c, k)
            /\ k.session = None /\ k.cfg = conn[c].cfg /\ k.inFlight = conn[c].inFlight
    BY <1>1, DiscardFacts
  <1>3. Touches(c) /\ conn'[c] = k
    BY <1>1, <1>2, UpdateFacts
  <1> QED
    BY Zenon, <1>2, <1>3 DEF Drops

(* The requests stay entitled to where they are, if those in a handshake      *)
(* learn of new credentials.                                                  *)
LEMMA DropsPlace ==
    ASSUME SessionInv, NEW c \in Connectors, Drops(c), NEW q \in Requests,
           req'[q].pc = req[q].pc, req'[q].conn = C(q), req'[q].session = S(q),
           req'[q].key = req[q].key,
           req'[q].stale => req[q].stale \/ req[q].pc \in Handshake,
           req[q].stale => req'[q].stale,
           \/ conn'[c].cfg = conn[c].cfg
           \/ C(q) = c /\ req[q].pc \in Handshake => req'[q].stale
    PROVE  Place(q)'
  <1>1. /\ Place(q)
        /\ C(q) # None => C(q) \in Connectors
        /\ S(q) # None => S(q) \in Sessions /\ sess[S(q)] \in Session
    BY Zenon, RequestFacts
  <1>2. req[q].pc \in Handshake => C(q) \in Connectors
    BY Zenon, <1>1 DEF Place, Handshake, Bound
  <1>3. C(q) \in Connectors => /\ conn'[C(q)].session \in {conn[C(q)].session, None}
                               /\ C(q) # c => conn'[C(q)] = conn[C(q)]
    BY Zenon DEF Drops, Touches
  <1>4. S(q) # None => \/ sess'[S(q)] = sess[S(q)] /\ S(q) # conn[c].session
                       \/ /\ sess'[S(q)].state = "closed" /\ S(q) = conn[c].session
    BY Zenon, <1>1, CloseFacts DEF Drops
  <1>5. req[q].pc = "connected" => S(q) # None /\ S(q) # conn[c].session
    <2> SUFFICES ASSUME req[q].pc = "connected", S(q) = conn[c].session PROVE FALSE
      BY Zenon, <1>1 DEF Place
    <2>1. S(q) # None /\ sess[S(q)].owner = C(q) /\ conn[C(q)].session = None
      BY Zenon, <1>1 DEF Place, Handshake
    <2>2. sess[conn[c].session].owner = c
      BY Zenon, <2>1 DEF SessionInv, Installed
    <2> QED
      BY Zenon, <2>1, <2>2
  <1>6. req[q].pc = "connecting" => req[q].pc \in Handshake
    BY DEF Handshake
  <1>7. req[q].pc = "connected" => req[q].pc \in Handshake
    BY DEF Handshake
  <1>8. req[q].pc = "connecting" /\ ~req'[q].stale => req'[q].key = conn'[req'[q].conn].cfg
    BY Zenon, <1>1, <1>2, <1>3, <1>6 DEF Place
  <1>9. req[q].pc = "connected" =>
            /\ sess'[S(q)].state # "closed"
            /\ ~req'[q].stale => sess'[S(q)].cred = conn'[C(q)].cfg
    BY ZenonT(30), <1>1, <1>2, <1>3, <1>4, <1>5, <1>7 DEF Place
  <1>10. req[q].pc \in Handshake => conn'[C(q)].session = None
    BY Zenon, <1>1, <1>2, <1>3 DEF Place
  <1>11. req'[q].stale => req'[q].pc \in Handshake
    BY Zenon, <1>1 DEF Place
  <1> QED
    BY ZenonT(30), <1>1, <1>4, <1>8, <1>9, <1>10, <1>11 DEF Place, C, S

(* No handshake begins or ends: what remains open is still accounted for.     *)
LEMMA DropsKeeps ==
    ASSUME SessionInv, NEW c \in Connectors, Drops(c),
           \A q \in Requests : req'[q].pc \in Handshake \/ req[q].pc \in Handshake
               => /\ req'[q].pc = req[q].pc /\ req'[q].conn = C(q) /\ req'[q].session = S(q)
    PROVE  OneHandshake' /\ Installed' /\ Accounted'
  <1>1. OneHandshake'
    BY Zenon DEF SessionInv, OneHandshake, C
  <1>2. /\ \A d \in Connectors : d # c => conn'[d] = conn[d]
        /\ conn'[c].session = None
    BY DEF Drops, Touches
  <1>3. Installed'
    <2> SUFFICES ASSUME NEW d \in Connectors, d # c, conn[d].session # None
                 PROVE  /\ sess'[conn[d].session].owner = d
                        /\ sess'[conn[d].session].state # "closed"
                        /\ sess'[conn[d].session].cred = conn[d].cfg
      BY Zenon, <1>2 DEF Installed
    <2>1. conn[d].session \in Sessions
      BY Zenon DEF SessionInv, Typed, Connector
    <2>2. conn[d].session # conn[c].session
      BY Zenon DEF SessionInv, Installed
    <2> QED
      BY Zenon, <2>1, <2>2, CloseFacts DEF SessionInv, Kept, Installed, Drops
  <1>4. Accounted'
    <2> SUFFICES ASSUME NEW s \in Sessions
                 PROVE  /\ sess'[s].state = "closed" => sess'[s].owner = None
                        /\ sess'[s].state # "closed" =>
                              /\ sess'[s].owner # None
                              /\ \/ conn'[sess'[s].owner].session = s
                                 \/ \E r \in Requests :
                                       /\ req'[r].pc = "connected" /\ req'[r].session = s
                                       /\ req'[r].conn = sess'[s].owner
      BY Zenon DEF Accounted, C, S
    <2>1. CASE s = conn[c].session
      BY Zenon, <2>1, CloseFacts DEF Drops
    <2>2. CASE s # conn[c].session
      <3>1. sess'[s] = sess[s]
        BY <2>2, CloseFacts DEF Drops
      <3>2. CASE sess[s].state = "closed"
        BY Zenon, <3>1, <3>2 DEF SessionInv, Accounted
      <3>3. CASE sess[s].state # "closed"
        <4>1. sess[s].owner \in Connectors /\ sess[s].owner # None
          BY Zenon, <3>3 DEF SessionInv, Accounted, Typed, Session
        <4>2. ASSUME conn[sess[s].owner].session = s PROVE conn'[sess[s].owner].session = s
          <5>1. sess[s].owner # c
            BY <2>2, <4>2
          <5> QED
            BY <1>2, <4>1, <4>2, <5>1
        <4>3. ASSUME NEW r \in Requests, req[r].pc = "connected", S(r) = s, C(r) = sess[s].owner
              PROVE  /\ req'[r].pc = "connected" /\ req'[r].session = s
                     /\ req'[r].conn = sess[s].owner
          BY <4>3 DEF Handshake
        <4>4. \/ conn[sess[s].owner].session = s
              \/ \E r \in Requests : req[r].pc = "connected" /\ S(r) = s /\ C(r) = sess[s].owner
          BY <3>3 DEF SessionInv, Accounted
        <4>5. \/ conn'[sess[s].owner].session = s
              \/ \E r \in Requests : /\ req'[r].pc = "connected" /\ req'[r].session = s
                                     /\ req'[r].conn = sess[s].owner
          BY Zenon, <4>2, <4>3, <4>4
        <4> QED
          BY Zenon, <3>1, <3>3, <4>1, <4>5
      <3> QED
        BY Zenon, <3>2, <3>3
    <2> QED
      BY Zenon, <2>1, <2>2
  <1> QED
    BY <1>1, <1>3, <1>4
(* Steps of the pool alone.                                                   *)
LEMMA PoolKeeps ==
    ASSUME SessionInv, UNCHANGED <<conn, sess, req>>, PluginTyped
    PROVE  Kept
  <1>1. Typed'
    BY DEF SessionInv, Typed, PluginTyped
  <1> QED
    BY ZenonT(30), <1>1 DEF SessionInv, Kept, Places, Place, OneHandshake, Installed, Accounted,
                CallsMove, Calls, Counts, C, S

(* The connectors that expire or Close retires, and onExpire.                 *)
LEMMA RetireKeeps ==
    ASSUME SessionInv, NEW c \in Connectors, Expire(c) \/ Close(c) \/ OnExpire(c)
    PROVE  Kept
  <1>1. PluginTyped
    BY Zenon DEF SessionInv, Typed, PluginTyped, Expire, Close, OnExpire, Notify, forgetKey
  <1>2. CASE OnExpire(c)
    BY <1>1, <1>2, PoolKeeps DEF OnExpire
  <1>3. CASE Expire(c) \/ Close(c)
    <2>1. Update(c, Retired(conn[c])) /\ CloseSession(c) /\ UNCHANGED req
      BY Zenon, <1>3 DEF Expire, Close
    <2>2. Drops(c) /\ conn'[c].cfg = conn[c].cfg
      BY <2>1, DiscardDrops
    <2>3. Places'
      BY Zenon, <2>1, <2>2, DropsPlace DEF Places, C, S
    <2>4. OneHandshake' /\ Installed' /\ Accounted'
      BY Zenon, <2>1, <2>2, DropsKeeps DEF C, S
    <2>5. \A d \in Connectors : conn'[d].inFlight = conn[d].inFlight
      BY <2>2 DEF Drops, Touches
    <2>6. \A q \in Requests : (Counts(q)' <=> Counts(q)) /\ req'[q].conn = C(q)
      BY Zenon, <2>1 DEF Counts, C, S
    <2>7. CallsMove
      BY Zenon, <2>5, <2>6, SameCounts DEF SessionInv
    <2>8. Typed'
      BY Zenon, <1>1, <2>1, <2>2, CloseFacts DEF SessionInv, Typed, PluginTyped, Drops, Touches
    <2> QED
      BY <2>3, <2>4, <2>7, <2>8 DEF SessionInv, Kept
  <1> QED
    BY <1>2, <1>3

(* discardIf: the session that failed, if it is still there.                  *)
LEMMA DiscardIfKeeps ==
    ASSUME SessionInv, NEW r \in Requests, DiscardIf(r)
    PROVE  Kept
  <1>1. /\ req[r] \in Request /\ Place(r) /\ req[r].pc = "over" /\ C(r) \in Connectors
        /\ C(r) # None /\ ~req[r].stale /\ conn[C(r)] \in Connector
    BY Zenon, RequestFacts DEF DiscardIf, Place, Bound, Holding, Handshake
  <1>2. PICK x \in Request :
            /\ Become(r, x) /\ x.conn = C(r) /\ x.session = None /\ ~x.stale
            /\ x.pc = (IF Retrying(r) THEN "ending" ELSE "acquiring")
    <2>1. CASE Retrying(r)
      <3> DEFINE x == [req[r] EXCEPT !.pc = "ending", !.session = None]
      <3>1. x \in Request /\ x.pc = "ending" /\ x.conn = C(r) /\ x.session = None
            /\ x.stale = req[r].stale
        BY ZenonT(30), <1>1 DEF Request, Bound, C
      <3>2. Become(r, x)
        BY <2>1 DEF DiscardIf
      <3> QED
        BY ZenonT(30), <1>1, <2>1, <3>1, <3>2
    <2>2. CASE ~Retrying(r)
      <3> DEFINE x == [req[r] EXCEPT !.pc = "acquiring", !.try = 3, !.session = None]
      <3>1. x \in Request /\ x.pc = "acquiring" /\ x.conn = C(r) /\ x.session = None
            /\ x.stale = req[r].stale
        BY ZenonT(30), <1>1 DEF Request, Bound, C
      <3>2. Become(r, x)
        BY <2>2 DEF DiscardIf
      <3> QED
        BY ZenonT(30), <1>1, <2>2, <3>1, <3>2
    <2> QED
      BY <2>1, <2>2
  <1>3. Only(r) /\ req'[r] = x
    BY <1>2, BecomeFacts DEF SessionInv
  <1>4. Place(r)'
    BY Zenon, <1>1, <1>2, <1>3 DEF Place, C, S, Handshake, Bound, Holding
  <1>5. Counts(r)' <=> Counts(r)
    BY Zenon, <1>1, <1>2, <1>3 DEF Counts, Retrying, S
  <1>6. PluginTyped /\ UNCHANGED plugin
    BY PluginFacts DEF DiscardIf
  <1>7. CASE conn[C(r)].session # S(r)
    <2>1. UNCHANGED <<conn, sess>>
      BY <1>7 DEF DiscardIf
    <2> QED
      BY ZenonT(30), <1>1, <1>2, <1>3, <1>4, <1>5, <1>6, <2>1, QuietKeeps DEF Handshake
  <1>8. CASE conn[C(r)].session = S(r)
    <2>1. Update(C(r), Discarded(conn[C(r)])) /\ CloseSession(C(r))
      BY <1>8 DEF DiscardIf
    <2>2. Drops(C(r)) /\ conn'[C(r)].cfg = conn[C(r)].cfg
      BY Zenon, <1>1, <2>1, DiscardDrops
    <2>3. ASSUME NEW q \in Requests, q # r PROVE Place(q)' /\ req'[q] = req[q]
      <3>1. req'[q] = req[q]
        BY <1>3, <2>3 DEF Only
      <3> QED
        BY Zenon, <1>1, <2>2, <3>1, DropsPlace DEF C, S
    <2>4. Places'
      BY Zenon, <1>4, <2>3 DEF Places
    <2>5. OneHandshake' /\ Installed' /\ Accounted'
      BY Zenon, <1>1, <1>2, <1>3, <2>2, <2>3, DropsKeeps DEF C, S, Handshake
    <2>6. \A d \in Connectors : conn'[d].inFlight = conn[d].inFlight
      BY <2>2 DEF Drops, Touches
    <2>7. CallsMove
      BY Zenon, <1>2, <1>3, <1>5, <2>6, SameCalls DEF SessionInv
    <2>8. Typed'
      BY Zenon, <1>1, <1>3, <1>6, <2>2, CloseFacts DEF Typed, PluginTyped, Drops, Touches, Only
    <2> QED
      BY <2>4, <2>5, <2>7, <2>8 DEF SessionInv, Kept
  <1> QED
    BY <1>7, <1>8
(* SetConfig: new credentials discard the session, and the handshakes under   *)
(* way learn of them.                                                         *)
LEMMA SetConfigKeeps ==
    ASSUME SessionInv, NEW r \in Requests, SetConfig(r)
    PROVE  Kept
  <1> DEFINE c == C(r)
             x == [req[r] EXCEPT !.pc = "configured"]
  <1>1. /\ req[r] \in Request /\ Place(r) /\ req[r].pc = "configuring" /\ c \in Connectors
        /\ c # None /\ S(r) = None /\ ~req[r].stale /\ conn[c] \in Connector
    BY Zenon, RequestFacts DEF SetConfig, Place, Bound, Holding, Handshake
  <1>2. x \in Request /\ x.pc = "configured" /\ x.conn = c /\ x.session = None
        /\ x.stale = req[r].stale
    BY <1>1, LabelFacts DEF Bound, C, S
  <1>3. PluginTyped /\ UNCHANGED plugin /\ req[r].key \in Nat
    BY <1>1, PluginFacts DEF SetConfig, Request
  <1>4. /\ req'[r] = x
        /\ \A q \in Requests : q # r =>
              req'[q] = IF conn[c].cfg # req[r].key /\ C(q) = c
                           /\ req[q].pc \in {"connecting", "connected"}
                        THEN [req[q] EXCEPT !.stale = TRUE] ELSE req[q]
        /\ req' = [q \in Requests |-> req'[q]]
    BY DEF SetConfig
  <1> HIDE DEF x
  <1>5. Place(r)'
    BY Zenon, <1>1, <1>2, <1>4 DEF Place, C, S, Handshake, Bound, Holding
  <1>6. ~Counts(r) /\ ~Counts(r)'
    BY <1>1, <1>2, <1>4 DEF Counts
  <1>7. CASE conn[c].cfg = req[r].key
    <2> DEFINE k == [conn[c] EXCEPT !.cfg = req[r].key]
    <2>1. /\ k \in Connector /\ k.session = conn[c].session /\ k.cfg = conn[c].cfg
          /\ k.inFlight = conn[c].inFlight
      BY <1>1, <1>3, <1>7 DEF Connector
    <2>2. Update(c, k) /\ UNCHANGED sess
      BY <1>7 DEF SetConfig
    <2> HIDE DEF k
    <2>3. Touches(c) /\ conn'[c] = k
      BY Zenon, <1>1, <2>1, <2>2, UpdateFacts DEF SessionInv
    <2>4. \A q \in Requests : q # r => req'[q] = req[q]
      BY <1>4, <1>7
    <2>5. Only(r)
      BY <1>2, <1>4, <2>4 DEF Only, SessionInv, Typed
    <2>6. \A d \in Connectors : conn'[d].inFlight = conn[d].inFlight
      BY <2>1, <2>3 DEF Touches
    <2>7. CallsMove
      BY <1>6, <2>5, <2>6, SameCalls DEF SessionInv
    <2> QED
      BY Zenon, <1>1, <1>2, <1>3, <1>4, <1>5, <2>1, <2>2, <2>3, <2>5, <2>7, CountingKeeps
         DEF Handshake
  <1>8. CASE conn[c].cfg # req[r].key
    <2> DEFINE k == [Discarded(conn[c]) EXCEPT !.cfg = req[r].key]
    <2>1. k \in Connector /\ k.session = None /\ k.inFlight = conn[c].inFlight
      BY <1>1, <1>3, DiscardFacts DEF Connector
    <2>2. Update(c, k) /\ CloseSession(c)
      BY <1>8 DEF SetConfig
    <2> HIDE DEF k
    <2>3. Drops(c)
      BY Zenon, <1>1, <2>1, <2>2, UpdateFacts DEF SessionInv, Drops
    <2>4. ASSUME NEW q \in Requests, q # r
          PROVE  /\ req'[q] \in Request
                 /\ req'[q].pc = req[q].pc /\ req'[q].conn = C(q) /\ req'[q].session = S(q)
                 /\ req'[q].key = req[q].key /\ req'[q].try = req[q].try
                 /\ req'[q].stale => req[q].stale \/ req[q].pc \in Handshake
                 /\ req[q].stale => req'[q].stale
                 /\ C(q) = c /\ req[q].pc \in Handshake => req'[q].stale
      <3>1. req[q] \in Request
        BY Zenon, RequestFacts
      <3>2. CASE C(q) = c /\ req[q].pc \in Handshake
        <4>1. req'[q] = [req[q] EXCEPT !.stale = TRUE]
          BY <1>4, <1>8, <2>4, <3>2 DEF Handshake
        <4> QED
          BY ZenonT(30), <3>1, <3>2, <4>1 DEF Request, C, S
      <3>3. CASE ~(C(q) = c /\ req[q].pc \in Handshake)
        <4>1. req'[q] = req[q]
          BY <1>4, <2>4, <3>3 DEF Handshake
        <4> QED
          BY Zenon, <3>1, <3>3, <4>1 DEF C, S
      <3> QED
        BY ZenonT(30), <3>2, <3>3
    <2>5. ASSUME NEW q \in Requests, q # r PROVE Place(q)'
      BY ZenonT(30), <1>1, <2>3, <2>4, <2>5, DropsPlace
    <2>6. Places'
      BY <1>5, <2>5 DEF Places
    <2>7. OneHandshake' /\ Installed' /\ Accounted'
      <3>1. req'[r].pc \notin Handshake /\ req[r].pc \notin Handshake
        BY <1>1, <1>2, <1>4 DEF Handshake
      <3> QED
        BY Zenon, <1>1, <2>3, <2>4, <3>1, DropsKeeps
    <2>8. \A d \in Connectors : conn'[d].inFlight = conn[d].inFlight
      BY <2>3 DEF Drops, Touches
    <2>9. \A q \in Requests : (Counts(q)' <=> Counts(q)) /\ (Counts(q) => req'[q].conn = C(q))
      BY Zenon, <1>6, <2>4 DEF Counts, S
    <2>10. CallsMove
      BY Zenon, <2>8, <2>9, SameCounts DEF SessionInv
    <2>11. req' \in [Requests -> Request]
      BY <1>2, <1>4, <2>4
    <2>12. Typed'
      BY ZenonT(30), <1>1, <1>3, <2>3, <2>11, CloseFacts DEF Typed, PluginTyped, Drops, Touches
    <2> QED
      BY <2>6, <2>7, <2>10, <2>12 DEF SessionInv, Kept
  <1> QED
    BY <1>7, <1>8

-----------------------------------------------------------------------------
(* The library of finite sets, which the proofs so far do not use. *)
INSTANCE FiniteSetTheorems

(* inFlight counts the calls of a connector.                                  *)
CallsCounted == \A c \in Connectors : conn[c].inFlight = Cardinality(Calls(c))

(* The inductive invariant.                                                   *)
CountedInv == SessionInv /\ CallsCounted

(* Only requests are counted, and there are finitely many.                    *)
LEMMA CallsFinite ==
    ASSUME NEW c
    PROVE  IsFiniteSet(Calls(c)) /\ Cardinality(Calls(c)) \in Nat
  <1>1. Calls(c) \subseteq Requests
    BY DEF Calls
  <1>2. IsFiniteSet(Calls(c))
    BY <1>1, McpAssumption, FS_Subset
  <1> QED
    BY <1>2, FS_CardinalityType

(* The counts stay exact, whichever way the calls of a connector move.        *)
LEMMA CountsFollow ==
    ASSUME Typed, CallsCounted, CallsMove
    PROVE  CallsCounted'
  <1> SUFFICES ASSUME NEW c \in Connectors
               PROVE  conn'[c].inFlight = Cardinality(Calls(c)')
    BY DEF CallsCounted
  <1>1. /\ conn[c].inFlight = Cardinality(Calls(c)) /\ IsFiniteSet(Calls(c))
        /\ Cardinality(Calls(c)) \in Nat /\ conn[c] \in Connector
    BY CallsFinite DEF CallsCounted, Typed
  <1>2. ASSUME NEW r \in Requests \ Calls(c), Calls(c)' = Calls(c) \cup {r}
        PROVE  Cardinality(Calls(c)') = Cardinality(Calls(c)) + 1
    BY <1>1, <1>2, FS_AddElement, ZenonT(30)
  <1>3. ASSUME NEW r \in Calls(c), Calls(c)' = Calls(c) \ {r},
               conn'[c] = Uncounted(conn[c])
        PROVE  conn'[c].inFlight = Cardinality(Calls(c)')
    <2>1. Cardinality(Calls(c)') = Cardinality(Calls(c)) - 1
      BY <1>1, <1>3, FS_RemoveElement, ZenonT(30)
    <2>2. Cardinality(Calls(c)) # 0
      BY <1>1, <1>3, FS_EmptySet
    <2> QED
      BY <1>1, <1>3, <2>1, <2>2, CountFacts
  <1>4. ASSUME Calls(c)' = {} PROVE Cardinality(Calls(c)') = 0
    BY <1>4, FS_EmptySet
  <1> QED
    BY <1>1, <1>2, <1>3, <1>4 DEF CallsMove
-----------------------------------------------------------------------------
(* Steps that create a connector or a session. *)

(* Every nonempty set of identities has a least element.                      *)
LEMMA LeastIn ==
    ASSUME NEW T, T \subseteq Nat, T # {}
    PROVE  Least(T) \in T
  <1> DEFINE R == OpToRel(<, Nat)
  <1>1. IsWellFoundedOn(R, Nat)
    BY ZenonT(30), NatLessThanWellFounded
  <1> HIDE DEF R
  <1>2. PICK m \in T : \A y \in T : ~(<<y, m>> \in R)
    BY ZenonT(30), <1>1, WFMin
  <1>3. \A y \in T : ~(y < m)
    BY ZenonT(30), <1>2 DEF R, OpToRel
  <1>4. \A y \in T : m <= y
    BY <1>3
  <1> QED
    BY <1>4, ZenonT(30) DEF Least

(* A connector is published, or found published.                              *)
LEMMA PublishKeeps ==
    ASSUME SessionInv, NEW r \in Requests, Publish(r)
    PROVE  Kept
  <1>1. /\ req[r] \in Request /\ Place(r) /\ req[r].pc = "building"
        /\ C(r) = None /\ S(r) = None /\ ~req[r].stale /\ req[r].key \in Nat
    BY Zenon, RequestFacts DEF Publish, Place, Bound, Holding, Handshake, Request
  <1>2. ASSUME NEW c \in Connectors, Ready(r, c)
        PROVE  /\ Only(r) /\ req'[r].pc = "acquiring" /\ req'[r].conn = c
               /\ req'[r].session = None /\ ~req'[r].stale
               /\ Place(r)' /\ ~Counts(r) /\ ~Counts(r)'
    <2> DEFINE x == [req[r] EXCEPT !.pc = "acquiring", !.conn = c, !.key = 0]
    <2>1. x \in Request /\ x.pc = "acquiring" /\ x.conn = c /\ x.session = None
          /\ x.stale = req[r].stale
      BY ZenonT(30), <1>1 DEF Request, Bound, S
    <2>2. Become(r, x) /\ c # None
      BY <1>2, McpAssumption DEF Ready
    <2> HIDE DEF x
    <2>3. Only(r) /\ req'[r] = x
      BY <2>1, <2>2, BecomeFacts DEF SessionInv
    <2>4. Place(r)'
      BY Zenon, <1>1, <2>1, <2>2, <2>3 DEF Place, C, S, Handshake, Bound, Holding
    <2>5. ~Counts(r) /\ ~Counts(r)'
      BY <1>1, <2>1, <2>3 DEF Counts
    <2> QED
      BY <1>1, <2>1, <2>3, <2>4, <2>5
  <1>3. CASE pool # None
    <2>1. /\ pool \in Connectors /\ Ready(r, pool) /\ UNCHANGED <<conn, sess>> /\ PluginTyped
      BY <1>3 DEF Publish, SessionInv, Typed, PluginTyped
    <2> QED
      BY Zenon, <1>1, <1>2, <2>1, QuietKeeps DEF Handshake
  <1>4. CASE pool = None
    <2>1. Least(FreeConnectors) \in FreeConnectors
      BY ZenonT(30), <1>4, LeastIn, McpAssumption DEF Publish, FreeConnectors
    <2>2. PICK c \in FreeConnectors :
              /\ Ready(r, c) /\ Update(c, NewConnector(req[r].key)) /\ pool' = c
              /\ UNCHANGED sess
      BY <1>4, <2>1 DEF Publish
    <2>3. /\ c \in Connectors /\ conn[c].session = None /\ \A q \in Requests : C(q) # c
      BY DEF FreeConnectors
    <2>4. /\ NewConnector(req[r].key) \in Connector
          /\ NewConnector(req[r].key).session = None
          /\ NewConnector(req[r].key).inFlight = 0
      BY <1>1 DEF NewConnector, Connector
    <2>5. Touches(c) /\ conn'[c].session = None /\ conn'[c].inFlight = 0
      BY <2>2, <2>3, <2>4, UpdateFacts DEF SessionInv
    <2>6. PluginTyped
      BY <1>4, <2>2, <2>3 DEF Publish, SessionInv, Typed, PluginTyped
    <2>7. ASSUME NEW q \in Requests, q # r PROVE Place(q)'
      <3>1. /\ req'[q] = req[q] /\ Place(q) /\ sess' = sess
            /\ C(q) # None => C(q) \in Connectors /\ C(q) # c
        BY Zenon, <1>2, <2>2, <2>3, <2>7, RequestFacts DEF Only
      <3>2. C(q) # None => conn'[C(q)] = conn[C(q)]
        BY <2>5, <3>1 DEF Touches
      <3>3. req[q].pc \in Handshake \cup {"connecting", "connected"} => C(q) # None
        BY Zenon, <3>1 DEF Place, Handshake, Bound
      <3> QED
        BY Zenon, <3>1, <3>2, <3>3 DEF Place, C, S, Handshake
    <2>8. Places'
      BY Zenon, <1>2, <2>2, <2>3, <2>7 DEF Places
    <2>9. OneHandshake'
      BY Zenon, <1>2, <2>2, <2>3 DEF SessionInv, OneHandshake, Only, C, Handshake
    <2>10. Installed'
      BY Zenon, <2>2, <2>5 DEF SessionInv, Installed, Touches
    <2>11. Accounted'
      <3> SUFFICES ASSUME NEW s \in Sessions, sess[s].state # "closed"
                   PROVE  /\ sess[s].owner # None
                          /\ \/ conn'[sess[s].owner].session = s
                             \/ \E q \in Requests : /\ req'[q].pc = "connected"
                                                    /\ req'[q].session = s
                                                    /\ req'[q].conn = sess[s].owner
        BY Zenon, <2>2 DEF SessionInv, Accounted, C, S
      <3>1. sess[s].owner \in Connectors /\ sess[s].owner # None
        BY Zenon DEF SessionInv, Accounted, Typed, Session
      <3>2. CASE conn[sess[s].owner].session = s
        <4>1. s # None
          BY McpAssumption
        <4> QED
          BY Zenon, <2>3, <2>5, <3>1, <3>2, <4>1 DEF Touches
      <3>3. ASSUME NEW q \in Requests, req[q].pc = "connected", S(q) = s, C(q) = sess[s].owner
            PROVE  req'[q] = req[q]
        BY Zenon, <1>1, <1>2, <2>2, <2>3, <3>3 DEF Only
      <3> QED
        BY Zenon, <3>1, <3>2, <3>3 DEF SessionInv, Kept, Accounted, C, S
    <2>12. CallsMove
      <3>1. ASSUME NEW d \in Connectors, d # c PROVE Calls(d)' = Calls(d) /\ conn'[d] = conn[d]
        BY <1>1, <1>2, <2>2, <2>3, <2>5, <3>1 DEF Calls, C, Only, Counts, S, Touches
      <3>2. Calls(c)' = {}
        <4>1. \A q \in Requests : q # r => req'[q].conn # c
          BY Zenon, <1>2, <2>2, <2>3 DEF Only, C
        <4>2. ~Counts(r)'
          BY Zenon, <1>2, <2>2, <2>3
        <4>3. \A q \in Requests : ~(req'[q].conn = c /\ Counts(q)')
          BY <4>1, <4>2, ZenonT(30)
        <4> QED
          BY <4>3, ZenonT(30) DEF Calls, C
      <3> QED
        BY <2>5, <3>1, <3>2, ZenonT(30) DEF CallsMove
    <2>13. Typed'
      BY Zenon, <1>2, <2>2, <2>3, <2>5, <2>6 DEF SessionInv, Typed, PluginTyped, Only, Touches
    <2> QED
      BY <2>8, <2>9, <2>10, <2>11, <2>12, <2>13 DEF SessionInv, Kept
  <1> QED
    BY <1>3, <1>4
(* A handshake opens a session.                                               *)
LEMMA ConnectKeeps ==
    ASSUME SessionInv, NEW r \in Requests, Connect(r)
    PROVE  Kept
  <1>1. /\ req[r] \in Request /\ Place(r) /\ req[r].pc = "connecting" /\ C(r) \in Connectors
        /\ C(r) # None /\ S(r) = None /\ req[r].key \in Nat /\ req[r].stale \in BOOLEAN
        /\ conn[C(r)].session = None
    BY Zenon, RequestFacts DEF Connect, Place, Bound, Holding, Handshake, Request
  <1>2. Least(FreeSessions) \in FreeSessions
    BY Zenon, LeastIn, McpAssumption DEF Connect, FreeSessions
  <1>3. PICK s \in FreeSessions :
            /\ sess' = [sess EXCEPT ![s] = [NoSession EXCEPT
                           !.state = "live", !.cred = req[r].key, !.owner = C(r)]]
            /\ Become(r, [req[r] EXCEPT !.pc = "connected", !.key = 0, !.session = s])
    BY ZenonT(30), <1>2 DEF Connect
  <1>4. UNCHANGED <<conn, plugin>> /\ PluginTyped
    BY PluginFacts DEF Connect
  <1>5. s \in Sessions /\ s # None /\ sess[s].state = "closed" /\ \A q \in Requests : S(q) # s
    BY McpAssumption DEF FreeSessions
  <1> DEFINE x == [req[r] EXCEPT !.pc = "connected", !.key = 0, !.session = s]
             n == [NoSession EXCEPT !.state = "live", !.cred = req[r].key, !.owner = C(r)]
  <1>6. x \in Request /\ x.pc = "connected" /\ x.conn = C(r) /\ x.session = s
        /\ x.stale = req[r].stale
    BY ZenonT(30), <1>1, <1>5 DEF Request, Bound, C
  <1>7. n \in Session /\ n.state = "live" /\ n.cred = req[r].key /\ n.owner = C(r)
    BY ZenonT(30), <1>1 DEF Session, NoSession
  <1>8. /\ sess' \in [Sessions -> Session] /\ sess'[s] = n
        /\ \A z \in Sessions : z # s => sess'[z] = sess[z]
    BY <1>3, <1>5, <1>7 DEF SessionInv, Typed
  <1> HIDE DEF x, n
  <1>9. Only(r) /\ req'[r] = x
    BY <1>3, <1>6, BecomeFacts DEF SessionInv, x
  <1>10. Place(r)'
    BY Zenon, <1>1, <1>4, <1>5, <1>6, <1>7, <1>8, <1>9 DEF Place, C, S, Handshake, Bound, Holding
  <1>11. ASSUME NEW q \in Requests, q # r PROVE Place(q)'
    <2>1. req'[q] = req[q] /\ Place(q) /\ conn' = conn
      BY Zenon, <1>4, <1>9, <1>11, RequestFacts DEF Only
    <2>2. S(q) # None => sess'[S(q)] = sess[S(q)]
      BY Zenon, <1>5, <1>8, RequestFacts
    <2> QED
      BY Zenon, <2>1, <2>2 DEF Place, C, S
  <1>12. Places'
    BY <1>10, <1>11 DEF Places
  <1>13. OneHandshake'
    BY <1>1, <1>6, <1>9 DEF SessionInv, OneHandshake, Only, C, Handshake
  <1>14. Installed'
    <2> SUFFICES ASSUME NEW d \in Connectors, conn[d].session # None
                 PROVE  /\ sess'[conn[d].session].owner = d
                        /\ sess'[conn[d].session].state # "closed"
                        /\ sess'[conn[d].session].cred = conn[d].cfg
      BY Zenon, <1>4 DEF Installed
    <2>1. conn[d].session \in Sessions /\ conn[d].session # s
      BY <1>5 DEF SessionInv, Typed, Connector, Installed
    <2> QED
      BY Zenon, <1>8, <2>1 DEF SessionInv, Kept, Installed
  <1>15. Accounted'
    <2> SUFFICES ASSUME NEW z \in Sessions
                 PROVE  /\ sess'[z].state = "closed" => sess'[z].owner = None
                        /\ sess'[z].state # "closed" =>
                              /\ sess'[z].owner # None
                              /\ \/ conn[sess'[z].owner].session = z
                                 \/ \E q \in Requests :
                                       /\ req'[q].pc = "connected" /\ req'[q].session = z
                                       /\ req'[q].conn = sess'[z].owner
      BY Zenon, <1>4 DEF Accounted, C, S
    <2>1. CASE z = s
      BY Zenon, <1>1, <1>6, <1>7, <1>8, <1>9, <2>1
    <2>2. CASE z # s
      <3>1. sess'[z] = sess[z]
        BY <1>8, <2>2
      <3>2. ASSUME NEW q \in Requests, req[q].pc = "connected" PROVE req'[q] = req[q]
        BY <1>1, <1>9, <3>2 DEF Only
      <3> QED
        BY Zenon, <3>1, <3>2 DEF SessionInv, Kept, Accounted, C, S
    <2> QED
      BY Zenon, <2>1, <2>2
  <1>16. ~Counts(r) /\ ~Counts(r)'
    BY Zenon, <1>1, <1>6, <1>9 DEF Counts
  <1>17. CallsMove
    BY <1>4, <1>9, <1>16, SameCalls DEF SessionInv
  <1>18. Typed'
    BY <1>4, <1>8, <1>9 DEF SessionInv, Typed, PluginTyped, Only
  <1> QED
    BY <1>12, <1>13, <1>14, <1>15, <1>17, <1>18 DEF SessionInv, Kept

(* The session opened is closed: the connector was retired, or its            *)
(* credentials changed.                                                       *)
LEMMA OutdatedKeeps ==
    ASSUME SessionInv, NEW r \in Requests, req[r].pc = "connected",
           NEW o \in {"closed", "changed"}, Return(r, None, o),
           sess' = [sess EXCEPT ![S(r)] = NoSession], UNCHANGED <<conn, plugin>>
    PROVE  Kept
  <1>1. /\ Place(r) /\ C(r) \in Connectors /\ C(r) # None /\ S(r) # None /\ S(r) \in Sessions
        /\ conn[C(r)].session = None /\ sess[S(r)].state # "closed" /\ sess[S(r)].owner = C(r)
    BY Zenon, RequestFacts DEF Place, Bound, Holding, Handshake
  <1>2. /\ Only(r) /\ req'[r].pc = "leaving" /\ req'[r].conn = C(r)
        /\ req'[r].session = None /\ req'[r].stale = FALSE
    BY ZenonT(30), ReturnFacts DEF SessionInv
  <1>3. NoSession \in Session /\ NoSession.state = "closed" /\ NoSession.owner = None
    BY Zenon DEF NoSession, Session
  <1>4. /\ sess' \in [Sessions -> Session] /\ sess'[S(r)] = NoSession
        /\ \A z \in Sessions : z # S(r) => sess'[z] = sess[z]
    BY Zenon, <1>1, <1>3 DEF SessionInv, Typed
  <1>5. Place(r)'
    BY Zenon, <1>1, <1>2 DEF Place, C, S, Handshake, Bound
  <1>6. ASSUME NEW q \in Requests, q # r PROVE Place(q)'
    <2>1. req'[q] = req[q] /\ Place(q) /\ conn' = conn
      BY Zenon, <1>2, <1>6, RequestFacts DEF Only
    <2>2. S(q) # None => sess'[S(q)] = sess[S(q)] \/ sess'[S(q)].state = "closed"
      BY Zenon, <1>3, <1>4, RequestFacts
    <2>3. req[q].pc = "connected" => S(q) # None /\ sess'[S(q)] = sess[S(q)]
      <3> SUFFICES ASSUME req[q].pc = "connected" PROVE S(q) # None /\ S(q) # S(r)
        BY Zenon, <1>4, RequestFacts
      <3>1. S(q) # None /\ sess[S(q)].owner = C(q)
        BY Zenon, <2>1 DEF Place
      <3> QED
        BY Zenon, <1>1, <1>6, <3>1 DEF SessionInv, Kept, OneHandshake, Handshake
    <2> QED
      BY ZenonT(30), <2>1, <2>2, <2>3 DEF Place, C, S
  <1>7. Places'
    BY <1>5, <1>6 DEF Places
  <1>8. OneHandshake'
    BY Zenon, <1>2 DEF SessionInv, OneHandshake, Only, C, Handshake
  <1>9. Installed'
    <2> SUFFICES ASSUME NEW d \in Connectors, conn[d].session # None
                 PROVE  /\ sess'[conn[d].session].owner = d
                        /\ sess'[conn[d].session].state # "closed"
                        /\ sess'[conn[d].session].cred = conn[d].cfg
      BY Zenon DEF Installed
    <2>1. conn[d].session \in Sessions /\ conn[d].session # S(r)
      BY Zenon, <1>1 DEF SessionInv, Typed, Connector, Installed
    <2> QED
      BY Zenon, <1>4, <2>1 DEF SessionInv, Kept, Installed
  <1>10. Accounted'
    <2> SUFFICES ASSUME NEW z \in Sessions
                 PROVE  /\ sess'[z].state = "closed" => sess'[z].owner = None
                        /\ sess'[z].state # "closed" =>
                              /\ sess'[z].owner # None
                              /\ \/ conn[sess'[z].owner].session = z
                                 \/ \E q \in Requests :
                                       /\ req'[q].pc = "connected" /\ req'[q].session = z
                                       /\ req'[q].conn = sess'[z].owner
      BY Zenon DEF Accounted, C, S
    <2>1. CASE z = S(r)
      BY Zenon, <1>3, <1>4, <2>1
    <2>2. CASE z # S(r)
      <3>1. sess'[z] = sess[z]
        BY <1>4, <2>2
      <3>2. ASSUME NEW q \in Requests, S(q) = z PROVE req'[q] = req[q]
        BY Zenon, <1>2, <2>2, <3>2 DEF Only
      <3> QED
        BY Zenon, <3>1, <3>2 DEF SessionInv, Kept, Accounted, C, S
    <2> QED
      BY Zenon, <2>1, <2>2
  <1>11. ~Counts(r) /\ ~Counts(r)'
    BY Zenon, <1>2 DEF Counts, S
  <1>12. CallsMove
    BY Zenon, <1>2, <1>11, SameCalls DEF SessionInv
  <1>13. Typed'
    BY Zenon, <1>2, <1>4, PluginFacts DEF SessionInv, Typed, PluginTyped, Only
  <1> QED
    BY Zenon, <1>7, <1>8, <1>9, <1>10, <1>12, <1>13 DEF SessionInv, Kept
(* The session opened becomes that of the connector.                          *)
LEMMA InstallKeeps ==
    ASSUME SessionInv, NEW r \in Requests, Install(r)
    PROVE  Kept
  <1>1. /\ Place(r) /\ req[r].pc = "connected"
        /\ C(r) \in Connectors /\ C(r) # None /\ S(r) # None /\ S(r) \in Sessions
        /\ conn[C(r)] \in Connector /\ conn[C(r)].session = None
        /\ sess[S(r)].state # "closed" /\ sess[S(r)].owner = C(r)
        /\ ~req[r].stale => sess[S(r)].cred = conn[C(r)].cfg
    BY Zenon, RequestFacts DEF Install, Place, Bound, Holding, Handshake
  <1>2. CASE conn[C(r)].closed \/ Outdated(r)
    <2>1. /\ Return(r, None, "closed") \/ Return(r, None, "changed")
          /\ sess' = [sess EXCEPT ![S(r)] = NoSession] /\ UNCHANGED <<conn, plugin>>
      BY <1>2 DEF Install
    <2> QED
      BY ZenonT(30), <1>1, <2>1, OutdatedKeeps
  <1>3. CASE ~(conn[C(r)].closed \/ Outdated(r))
    <2> DEFINE k == [Counted(conn[C(r)]) EXCEPT !.session = S(r)]
    <2>1. /\ k \in Connector /\ k.session = S(r) /\ k.cfg = conn[C(r)].cfg
          /\ k.inFlight = conn[C(r)].inFlight + 1
      BY ZenonT(30), <1>1, CountFacts DEF Connector
    <2>2. Return(r, S(r), "none") /\ Update(C(r), k) /\ UNCHANGED <<sess, plugin>>
      BY <1>3 DEF Install
    <2>3. ~req[r].stale
      BY <1>3 DEF Outdated
    <2> HIDE DEF k
    <2>4. Touches(C(r)) /\ conn'[C(r)] = k
      BY Zenon, <1>1, <2>1, <2>2, UpdateFacts DEF SessionInv
    <2>5. /\ Only(r) /\ req'[r].pc = "leaving" /\ req'[r].conn = C(r)
          /\ req'[r].session = S(r) /\ req'[r].stale = FALSE
      BY ZenonT(30), <1>1, <2>2, ReturnFacts DEF SessionInv
    <2>6. Place(r)'
      BY ZenonT(30), <1>1, <2>2, <2>5 DEF Place, C, S, Handshake, Bound, Holding
    <2>7. ASSUME NEW q \in Requests, q # r PROVE Place(q)'
      <3>1. /\ req'[q] = req[q] /\ Place(q) /\ sess' = sess
            /\ C(q) # None => C(q) \in Connectors
        BY Zenon, <2>2, <2>5, <2>7, RequestFacts DEF Only
      <3>2. C(q) \in Connectors => /\ conn'[C(q)].cfg = conn[C(q)].cfg
                                   /\ C(q) # C(r) => conn'[C(q)] = conn[C(q)]
        BY Zenon, <2>1, <2>4 DEF Touches
      <3>3. req[q].pc \in Handshake => C(q) \in Connectors /\ C(q) # C(r)
        BY Zenon, <1>1, <2>7, <3>1 DEF SessionInv, OneHandshake, Handshake, Place, Bound
      <3> QED
        BY ZenonT(30), <3>1, <3>2, <3>3 DEF Place, C, S, Handshake
    <2>8. Places'
      BY <2>6, <2>7 DEF Places
    <2>9. OneHandshake'
      BY Zenon, <2>5 DEF SessionInv, OneHandshake, Only, C, Handshake
    <2>10. Installed'
      BY <1>1, <2>1, <2>2, <2>3, <2>4 DEF SessionInv, Installed, Touches
    <2>11. Accounted'
      <3> SUFFICES ASSUME NEW z \in Sessions, sess[z].state # "closed"
                   PROVE  /\ sess[z].owner # None
                          /\ \/ conn'[sess[z].owner].session = z
                             \/ \E q \in Requests :
                                   /\ req'[q].pc = "connected" /\ req'[q].session = z
                                   /\ req'[q].conn = sess[z].owner
        BY Zenon, <2>2 DEF SessionInv, Accounted, C, S
      <3>1. sess[z].owner \in Connectors /\ sess[z].owner # None /\ z # None
        BY Zenon, McpAssumption DEF SessionInv, Accounted, Typed, Session
      <3>2. CASE z = S(r)
        BY Zenon, <1>1, <2>1, <2>4, <3>1, <3>2
      <3>3. CASE z # S(r)
        <4>1. ASSUME conn[sess[z].owner].session = z PROVE conn'[sess[z].owner].session = z
          <5>1. sess[z].owner # C(r)
            BY Zenon, <1>1, <3>1, <4>1
          <5> QED
            BY Zenon, <2>4, <3>1, <4>1, <5>1 DEF Touches
        <4>2. ASSUME NEW q \in Requests, S(q) = z PROVE req'[q] = req[q]
          BY Zenon, <2>5, <3>3, <4>2 DEF Only
        <4> QED
          BY Zenon, <3>1, <4>1, <4>2 DEF SessionInv, Kept, Accounted, C, S
      <3> QED
        BY Zenon, <3>2, <3>3
    <2>12. CallsMove
      <3>1. ~Counts(r) /\ Counts(r)'
        BY Zenon, <1>1, <2>5 DEF Counts, S
      <3> QED
        BY Zenon, <1>1, <2>1, <2>4, <2>5, <3>1, OneMoreCall DEF SessionInv, Kept
    <2>13. Typed'
      BY Zenon, <2>2, <2>4, <2>5, PluginFacts DEF SessionInv, Typed, PluginTyped, Only, Touches
    <2> QED
      BY <2>8, <2>9, <2>10, <2>11, <2>12, <2>13 DEF SessionInv, Kept
  <1> QED
    BY <1>2, <1>3

-----------------------------------------------------------------------------
(* The invariant, and what follows from it. *)
-----------------------------------------------------------------------------
(* Initially no request has come and no connector has been published.         *)
LEMMA SessionInvInit == Init => CountedInv
  <1> SUFFICES ASSUME Init PROVE CountedInv
    OBVIOUS
  <1>1. /\ \A c \in Connectors : conn[c] = NewConnector(0)
        /\ \A s \in Sessions : sess[s] = NoSession
        /\ \A r \in Requests : req[r] = NewRequest
    BY DEF Init
  <1>2. /\ NewConnector(0) \in Connector /\ NewConnector(0).session = None
        /\ NewConnector(0).inFlight = 0
    BY DEF NewConnector, Connector
  <1>3. NoSession \in Session /\ NoSession.state = "closed" /\ NoSession.owner = None
    BY DEF NoSession, Session
  <1>4. Typed
    BY Zenon, <1>2, <1>3, NewFacts DEF Init, Typed
  <1>5. Places /\ OneHandshake
    BY Zenon, <1>1, NewFacts DEF Places, Place, OneHandshake, C, S, Handshake, Bound
  <1>6. Installed /\ Accounted
    BY Zenon, <1>1, <1>2, <1>3 DEF Installed, Accounted
  <1>7. ASSUME NEW c \in Connectors PROVE Calls(c) = {}
    BY Zenon, <1>1, NewFacts DEF Calls, Counts
  <1>8. CallsCounted
    BY Zenon, <1>1, <1>2, <1>7, FS_EmptySet DEF CallsCounted
  <1> QED
    BY <1>4, <1>5, <1>6, <1>8 DEF CountedInv, SessionInv

(* Every step of a request and of the pool.                                   *)
LEMMA SessionInvStep == CountedInv /\ [Next]_vars => CountedInv'
  <1> SUFFICES ASSUME SessionInv, CallsCounted, [Next]_vars PROVE Kept
    BY CountsFollow DEF CountedInv, Kept, SessionInv
  <1>1. CASE UNCHANGED vars
    BY Zenon, <1>1, PoolKeeps, PluginFacts DEF vars, plugin
  <1>2. ASSUME NEW r \in Requests, Call(r) PROVE Kept
    BY Zenon, <1>2, ResolveKeeps, SetConfigKeeps, TerminalKeeps, PublishKeeps, AcquireKeeps,
       CountConnectingKeeps, LockConnectKeeps, ConnectKeeps, InstallKeeps, LeaveKeeps,
       AnsweredKeeps, SessionOverKeeps, DiscardIfKeeps, RebuildKeeps DEF Call
  <1>3. ASSUME NEW c \in Connectors, Expire(c) \/ OnExpire(c) \/ Close(c) PROVE Kept
    BY <1>3, RetireKeeps
  <1>4. CASE Shutdown
    <2>1. PluginTyped
      BY <1>4 DEF SessionInv, Typed, PluginTyped, Shutdown
    <2> QED
      BY <1>4, <2>1, PoolKeeps DEF Shutdown
  <1> QED
    BY <1>1, <1>2, <1>3, <1>4 DEF Next

(* Every request is entitled to where it is, every open session is that of    *)
(* its connector or about to be, and inFlight counts exactly the calls of its *)
(* connector, in every state and for any number of requests, connectors,      *)
(* sessions and faults.                                                       *)
THEOREM SessionInvariance == Spec => []CountedInv
  BY SessionInvInit, SessionInvStep, PTL DEF Spec

(* A connector holds no session opened with other credentials than its own,   *)
(* for any number of requests, connectors, sessions and faults.               *)
THEOREM CredentialsStayCurrent == Spec => []CredentialsCurrent
  <1>1. SessionInv => CredentialsCurrent
    BY Zenon DEF SessionInv, Installed, CredentialsCurrent
  <1> QED
    BY <1>1, SessionInvariance, PTL DEF CountedInv

(* A connector never has two sessions, counting the one being opened, for any *)
(* number of requests, connectors, sessions and faults.                       *)
THEOREM NeverTwoSessions == Spec => []OneSession
  <1>1. ASSUME SessionInv, NEW c \in Connectors, NEW s \in Sessions, NEW z \in Sessions,
               sess[s].owner = c, sess[z].owner = c
        PROVE  s = z
    <2>1. /\ c # None /\ s # None /\ z # None
      BY McpAssumption
    <2>2. /\ sess[s].state # "closed" /\ sess[z].state # "closed"
      BY Zenon, <1>1, <2>1 DEF SessionInv, Accounted
    <2>3. ASSUME NEW y \in Sessions, sess[y].owner = c, sess[y].state # "closed"
          PROVE  \/ conn[c].session = y
                 \/ \E r \in Requests : req[r].pc = "connected" /\ S(r) = y /\ C(r) = c
      BY Zenon, <1>1, <2>3 DEF SessionInv, Accounted
    <2>4. ASSUME NEW r \in Requests, req[r].pc = "connected", C(r) = c
          PROVE  conn[c].session = None
      BY Zenon, <1>1, <2>4, RequestFacts DEF Place, Handshake
    <2>5. ASSUME NEW q \in Requests, NEW r \in Requests, req[q].pc = "connected",
                 req[r].pc = "connected", C(q) = c, C(r) = c
          PROVE  q = r
      BY Zenon, <1>1, <2>5 DEF SessionInv, OneHandshake, Handshake
    <2> QED
      BY Zenon, <1>1, <2>1, <2>2, <2>3, <2>4, <2>5
  <1>2. ASSUME SessionInv, NEW c \in Connectors
        PROVE  Cardinality({s \in Sessions : sess[s].owner = c}) <= 1
    <2> DEFINE T == {s \in Sessions : sess[s].owner = c}
    <2>1. CASE T = {}
      BY <2>1, FS_EmptySet
    <2>2. CASE T # {}
      <3>1. PICK s \in T : TRUE
        BY <2>2
      <3>2. T = {s}
        BY <1>1, <1>2, <3>1
      <3>3. Cardinality(T) = 1
        BY <3>2, FS_Singleton, ZenonT(30)
      <3> QED
        BY <3>3
    <2> QED
      BY <2>1, <2>2
  <1>3. SessionInv => OneSession
    BY <1>2 DEF OneSession
  <1> QED
    BY <1>3, SessionInvariance, PTL DEF CountedInv

(* The steps of a request that take a session from a connector.               *)
LEMMA GiveUpByRequest ==
    ASSUME SessionInv, NEW r \in Requests, Call(r), NEW c \in Connectors,
           conn[c].session # None, conn'[c].session # conn[c].session
    PROVE  ForCause(c)
  <1>1. /\ req[r] \in Request /\ Place(r)
        /\ C(r) # None => C(r) \in Connectors /\ conn[C(r)] \in Connector
    BY Zenon, RequestFacts
  <1>2. conn \in [Connectors -> Connector] /\ conn[c] \in Connector
    BY Zenon DEF SessionInv, Typed
  <1>3. CASE SetConfig(r)
    <2> DEFINE changed == conn[C(r)].cfg # req[r].key
               k == [(IF changed THEN Discarded(conn[C(r)]) ELSE conn[C(r)])
                         EXCEPT !.cfg = req[r].key]
    <2>1. C(r) \in Connectors /\ conn[C(r)] \in Connector /\ req[r].key \in Nat
      BY Zenon, <1>1, <1>3 DEF SetConfig, Place, Bound, Request
    <2>2. /\ k \in Connector /\ k.cfg = req[r].key
          /\ ~changed => k.session = conn[C(r)].session
      BY Zenon, <2>1, DiscardFacts DEF Connector
    <2>3. Touches(C(r)) /\ conn'[C(r)] = k
      BY Zenon, <1>3, <2>1, <2>2, UpdateFacts DEF SetConfig, SessionInv
    <2>4. c = C(r)
      BY <2>3 DEF Touches
    <2> QED
      BY ZenonT(30), <2>2, <2>3, <2>4 DEF ForCause
  <1>4. CASE DiscardIf(r)
    <2>1. C(r) \in Connectors /\ conn[C(r)] \in Connector
      BY Zenon, <1>1, <1>4 DEF DiscardIf, Place, Bound
    <2>2. CASE conn[C(r)].session = S(r)
      <3>1. Touches(C(r))
        BY <1>4, <2>1, <2>2, DiscardFacts, UpdateFacts DEF DiscardIf, SessionInv
      <3>2. c = C(r)
        BY <3>1 DEF Touches
      <3> QED
        BY Zenon, <1>1, <1>4, <2>2, <3>2 DEF DiscardIf, Place, ForCause
    <2>3. CASE conn[C(r)].session # S(r)
      BY <1>4, <2>3 DEF DiscardIf
    <2> QED
      BY Zenon, <2>2, <2>3
  <1>5. CASE Publish(r)
    <2>1. CASE pool # None
      BY Zenon, <1>5, <2>1 DEF Publish
    <2>2. CASE pool = None
      <3>1. Least(FreeConnectors) \in FreeConnectors
        BY Zenon, <1>5, <2>2, LeastIn, McpAssumption DEF Publish, FreeConnectors
      <3>2. /\ Least(FreeConnectors) # c
        BY Zenon, <3>1 DEF FreeConnectors
      <3> QED
        BY Zenon, <1>2, <1>5, <2>2, <3>2 DEF Publish, Update
    <2> QED
      BY <2>1, <2>2
  <1>6. CASE Install(r)
    <2>1. C(r) # c
      BY Zenon, <1>1, <1>6 DEF Install, Place, Handshake
    <2> QED
      BY <1>2, <1>6, <2>1 DEF Install, Update
  <1>7. CASE Acquire(r) \/ LockConnect(r)
    <2>1. C(r) \in Connectors
      BY Zenon, <1>1, <1>7 DEF Acquire, LockConnect, Place, Bound
    <2>2. UNCHANGED conn \/ Update(C(r), Counted(conn[C(r)]))
      BY <1>7 DEF Acquire, LockConnect
    <2> QED
      BY <1>1, <1>2, <2>1, <2>2, CountFacts, UpdateFacts DEF SessionInv, Touches
  <1>8. CASE CountConnecting(r) \/ Leave(r)
    <2>1. C(r) \in Connectors /\ conn[C(r)] \in Connector
      BY Zenon, <1>1, <1>8 DEF CountConnecting, Leave, Place, Bound
    <2>2. conn[C(r)].connecting + 1 \in Int /\ conn[C(r)].connecting - 1 \in Int
      BY <2>1 DEF Connector
    <2>3. Touches(C(r)) /\ conn'[C(r)].session = conn[C(r)].session
      BY Zenon, <1>8, <2>1, <2>2, ConnectingFacts DEF CountConnecting, Leave, SessionInv
    <2> QED
      BY <2>3 DEF Touches
  <1>9. CASE Answered(r) \/ SessionOver(r) \/ EndRetry(r)
    <2>1. C(r) \in Connectors
      BY Zenon, <1>1, <1>9 DEF Answered, SessionOver, EndRetry, Place, Bound
    <2>2. UNCHANGED conn \/ Update(C(r), Uncounted(conn[C(r)]))
      BY <1>9 DEF Answered, SessionOver, EndRetry
    <2> QED
      BY <1>1, <1>2, <2>1, <2>2, CountFacts, UpdateFacts DEF SessionInv, Touches
  <1>10. CASE UNCHANGED conn
    BY <1>10
  <1> QED
    BY Zenon, <1>3, <1>4, <1>5, <1>6, <1>7, <1>8, <1>9, <1>10
       DEF Call, Resolve, Unresolved, Lookup, Terminal, Connect, ConnectFails, LookSessionless,
           Evict, Rebuild

(* The body of GivenUpForCause.                                               *)
GiveUpStep ==
    \A c \in Connectors :
        conn[c].session # None /\ conn'[c].session # conn[c].session => ForCause(c)

(* An idle session has no call on it: inFlight counts them all.               *)
LEMMA GiveUps == CountedInv /\ [Next]_vars => GiveUpStep
  <1> SUFFICES ASSUME SessionInv, CallsCounted, [Next]_vars, NEW c \in Connectors,
                      conn[c].session # None, conn'[c].session # conn[c].session
               PROVE  ForCause(c)
    BY DEF GiveUpStep, CountedInv
  <1>1. conn[c] \in Connector /\ conn[c].session \in Sessions
    BY Zenon DEF SessionInv, Typed, Connector
  <1>2. ASSUME NEW d \in Connectors, Expire(d) \/ Close(d)
        PROVE  d = c /\ conn'[c].closed
    <2>1. Update(d, Retired(conn[d])) /\ conn[d] \in Connector
      BY Zenon, <1>2 DEF Expire, Close, SessionInv, Typed
    <2>2. Touches(d) /\ conn'[d] = Retired(conn[d])
      BY Zenon, <2>1, DiscardFacts, UpdateFacts DEF SessionInv
    <2> QED
      BY Zenon, <2>1, <2>2, DiscardFacts DEF Touches
  <1>3. CASE Expire(c)
    <2>1. Calls(c) = {}
      <3>1. Cardinality(Calls(c)) = 0
        BY <1>3 DEF Expire, CallsCounted
      <3> QED
        BY <3>1, CallsFinite, FS_EmptySet
    <2>2. /\ sess[conn[c].session].owner = c /\ sess[conn[c].session].state # "closed"
      BY Zenon DEF SessionInv, Installed
    <2>3. ASSUME NEW r \in CallsOn(conn[c].session) PROVE r \in Calls(c)
      <3>1. /\ r \in Requests /\ req[r].pc \in {"leaving", "running"}
            /\ S(r) = conn[c].session
        BY Zenon, <2>3 DEF CallsOn
      <3>2. C(r) = c
        BY Zenon, <2>2, <3>1, RequestFacts DEF Place
      <3> QED
        BY Zenon, <3>1, <3>2 DEF Calls, Counts
    <2> QED
      BY Zenon, <1>2, <1>3, <2>1, <2>3 DEF ForCause
  <1>4. CASE Close(c)
    BY Zenon, <1>2, <1>4 DEF Close, ForCause
  <1>5. ASSUME NEW d \in Connectors, OnExpire(d) PROVE FALSE
    BY <1>5 DEF OnExpire
  <1>6. ~Shutdown /\ ~UNCHANGED vars
    BY Zenon DEF Shutdown, vars
  <1>7. ASSUME NEW r \in Requests, Call(r) PROVE ForCause(c)
    BY Zenon, <1>7, GiveUpByRequest
  <1> QED
    BY Zenon, <1>2, <1>3, <1>4, <1>5, <1>6, <1>7 DEF Next

(* A live session is only given up because the credentials changed, the       *)
(* plugin shuts down or no call runs on it, for any number of requests,       *)
(* connectors, sessions and faults.                                           *)
THEOREM SessionsGivenUpForCause == Spec => GivenUpForCause
  <1>1. CountedInv /\ [Next]_vars => [GiveUpStep]_vars
    BY GiveUps
  <1> QED
    BY <1>1, SessionInvariance, PTL DEF Spec, GivenUpForCause, GiveUpStep
=============================================================================
