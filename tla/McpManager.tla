------------------------------ MODULE McpManager ------------------------------
(***************************************************************************)
(* The connection lifecycle of McpManager (src/src/manager.ts): connect,   *)
(* connectAll, disconnect, initialize, close, the loss of a connection and *)
(* the refresh of a tool list.                                             *)
(*                                                                         *)
(* The program is one JavaScript thread, so what runs between two awaits   *)
(* is one step here.  Every await of a handler is a value of a pc: other   *)
(* handlers run there.  A connection attempt (connectFreshEffect) is a     *)
(* fiber; the n-th attempt for server s is the pair <<s, n>>, which also   *)
(* names the MCP client that attempt creates.                              *)
(*                                                                         *)
(* Left to modules of their own: resourceSubscriptions,                    *)
(* pendingOAuthTransports and the OAuth providers.  Every server is taken  *)
(* to advertise the tools capability.                                      *)
(***************************************************************************)
EXTENDS Integers

CONSTANTS
    Server,        \* names that may appear in a configuration
    Remote,        \* those of type "remote": two transports to try, and OAuth
    Modern,        \* those a modern resource subscription may be open for
    Tool,          \* tool names servers offer
    Key,           \* names under which Pi registers a tool
    ToolKey,       \* mcpToolKey(server, tool), not injective: it replaces characters
    Configs,       \* the configurations, functions from Server to "on", "off", "absent"
    Sweep,         \* slots for concurrent connectAll calls
    Signal,        \* the AbortSignals callers pass
    NoSignal,      \* signal: undefined
    NotifyMayFail, \* may the onToolsChanged or onStatusChanged callback throw?
    MaxAttempts,   \* bound on the attempts for any server
    MaxStarted,    \* bound on the attempts for each server
    MaxRevision,   \* bound on the calls of initialize and close
    MaxRefresh     \* bound on the concurrent tool refreshes of one client

ASSUME ManagerAssumption ==
    /\ Remote \subseteq Server /\ Modern \subseteq Server
    /\ ToolKey \in [Server \X Tool -> Key]
    /\ Configs \subseteq [Server -> {"on", "off", "absent"}]
    /\ NoSignal \notin Signal
    /\ NotifyMayFail \in BOOLEAN
    /\ MaxAttempts \in Nat /\ MaxStarted \in [Server -> 0..MaxAttempts]
    /\ MaxRevision \in Nat /\ MaxRefresh \in Nat

VARIABLES
    closed,      \* the closed flag
    revision,    \* the generation number, bumped by initialize and close
    config,      \* the active configuration
    newConfig,   \* the configuration an unfinished initialize will install
    ctl,         \* where the initialize and close calls in flight are
    statuses,    \* the status map, "none" where it has no entry
    manual,      \* manuallyDisconnected
    clients,     \* the stored client of each server, 0 for none
    tools,       \* the tool list of the stored client of each server
    inflight,    \* connectionAttempts: the registered attempt of a server, 0 for none
    started,     \* how many attempts a server has had
    att,         \* the attempts themselves
    live,        \* connected clients on which close was not called
    parting,     \* clients a handler took out of the map and has yet to close
    ousted,      \* history: clients an older client's refresh took out of the map
    refreshing,  \* tools/list calls of handleToolListChanged in flight, per client
    sweep,       \* the connectAll calls in flight
    aborted      \* the signals that have fired

control == <<closed, revision, config, newConfig, ctl>>
store   == <<clients, tools, live, parting, ousted>>
flights == <<inflight, started>>
vars == <<control, statuses, manual, store, flights, att, refreshing, sweep, aborted>>

-----------------------------------------------------------------------------

Status == {"none", "connecting", "connected", "disabled", "disconnected",
           "failed", "needs_auth", "needs_client_registration"}

Attempt == 1..MaxAttempts

\* The awaits of connectFreshEffect, in the order it reaches them.
Awaiting == {"unsubscribing", \* the close of the server's modern subscriptions
             "closeOld",      \* the close of the server's previous client
             "connecting",    \* client.connect, under withTimeout
             "failing",       \* the close of a transport that did not connect
             "listing",       \* tools/list
             "dropping",      \* the close of this attempt's client, not to be stored
             "notifying"}     \* onToolsChanged and onStatusChanged

\* Those at which an attempt may yet store its client.
Unstored == {"unsubscribing", "closeOld", "connecting", "failing", "listing"}

\* "interrupted" and "died" attempts ended without running their remaining code.
Ended == {"ended", "interrupted", "died"}

\* The status a server gets when its transport fails to connect.
Failure == {"failed", "needs_auth", "needs_client_registration"}

\* Why a transport is given up or a connected client dropped.
Verdict == {"none", "stale", "disabled", "collision", "error", "aborted"} \cup Failure

\* old is the previous client, while the attempt has yet to close it.
AttemptRecord ==
    {r \in [pc : {"unused"} \cup Awaiting \cup Ended, old : 0..MaxAttempts,
            rev : 0..MaxRevision, sig : Signal \cup {NoSignal}, way : {1, 2},
            verdict : Verdict] :
        r.pc = "failing" => r.verdict \in Failure}

Unused == [pc |-> "unused", old |-> 0, rev |-> 0, sig |-> NoSignal, way |-> 1,
           verdict |-> "none"]

SweepRecord ==
    [waits : [Server -> 0..MaxAttempts], failed : SUBSET Server,
     rejected : BOOLEAN, sig : Signal \cup {NoSignal}]

Idle == [waits |-> [s \in Server |-> 0], failed |-> {}, rejected |-> FALSE, sig |-> NoSignal]

\* The handlers that take clients out of the map and then close them.
Handler == {"initialize", "close", "disconnect"}

Phase == {"idle", "callbacks", "subscriptions", "clients"}

Active(s, n) == att[s][n].pc \in Awaiting

\* An MCP tool, as findToolKeyCollision enumerates them.
Offers(lists) == {p \in Server \X Tool : p[2] \in lists[p[1]]}

Collides(lists) == \E p, q \in Offers(lists) : p # q /\ ToolKey[p] = ToolKey[q]

\* Mutants of the revision check: the closed flag forgotten, the revision forgotten.
RevisionAlone(rev) == revision = rev
ClosedAlone(rev) == ~closed

IsCurrentRevision(rev) == ~closed /\ revision = rev

IsConfigDisabled(s) == config[s] = "off"

CanAutoConnect(s) ==
    /\ ~IsConfigDisabled(s)
    /\ s \notin manual
    /\ statuses[s] \in {"none", "disconnected", "connecting"}

CanConnect(s, intent) ==
    IF intent = "automatic" THEN CanAutoConnect(s) ELSE ~IsConfigDisabled(s)

Configured == {s \in Server : config[s] # "absent"}

-----------------------------------------------------------------------------
(***************************************************************************)
(* What the end of attempts means to the connectAll calls that wait for    *)
(* them.  out is "ok", "error" (a failure other than an abort), "aborted", *)
(* or "broken" (an interrupt or a defect, which fails the whole call).     *)
(***************************************************************************)
\* Mutant: only targets that succeed are counted as settled.
AnsweredIfOk(w, over, out) ==
    LET hit == {s \in Server : <<s, w.waits[s]>> \in over}
    IN  IF hit = {} \/ out # "ok" THEN w
        ELSE [w EXCEPT !.waits = [s \in Server |-> IF s \in hit THEN 0 ELSE @[s]]]

Answered(w, over, out) ==
    LET hit == {s \in Server : <<s, w.waits[s]>> \in over}
    IN  IF hit = {} THEN w
        ELSE IF out = "broken" THEN Idle
        ELSE [w EXCEPT !.waits = [s \in Server |-> IF s \in hit THEN 0 ELSE @[s]],
                       !.failed = IF out = "error" THEN @ \cup hit ELSE @,
                       !.rejected = @ \/ out = "aborted"]

Answering(w) == w # Idle /\ w.waits = Idle.waits

\* connectAll's loop over its settled targets.  An abort ends the loop where
\* it stands in the order of the configuration.
Reports(w) ==
    IF ~Answering(w) THEN {{}} ELSE IF w.rejected THEN SUBSET w.failed ELSE {w.failed}

\* The attempts in `over` end with `out`; `base` holds the statuses they leave
\* behind.  Effect.race(attempt, aborted) may keep a caller that passed a
\* signal waiting for it when the attempt did not succeed: those stay parked.
Resolve(over, out, base) ==
    \E parked \in SUBSET {c \in Sweep : out # "ok" /\ sweep[c].sig # NoSignal} :
       LET after == [c \in Sweep |-> IF c \in parked THEN sweep[c]
                                     ELSE Answered(sweep[c], over, out)]
       IN  \E report \in [Sweep -> SUBSET Server] :
              /\ \A c \in Sweep : report[c] \in Reports(after[c])
              /\ sweep' = [c \in Sweep |-> IF Answering(after[c]) THEN Idle ELSE after[c]]
              /\ statuses' = [s \in Server |->
                                IF \E c \in Sweep : s \in report[c] THEN "failed" ELSE base[s]]

\* Mutant: the observer is told of successes only.
EndIfOk(s, n, pc, out, base) ==
    /\ att' = [att EXCEPT ![s][n] = [@ EXCEPT !.pc = pc, !.sig = NoSignal,
                                             !.way = 1, !.verdict = "none"]]
    /\ inflight' = [inflight EXCEPT ![s] = IF @ = n /\ out = "ok" THEN 0 ELSE @]
    /\ Resolve({<<s, n>>}, out, base)

\* Attempt <<s, n>> ends; its observer unregisters it if it is still registered.
End(s, n, pc, out, base) ==
    /\ att' = [att EXCEPT ![s][n] = [@ EXCEPT !.pc = pc, !.sig = NoSignal,
                                             !.way = 1, !.verdict = "none"]]
    /\ inflight' = [inflight EXCEPT ![s] = IF @ = n THEN 0 ELSE @]
    /\ Resolve({<<s, n>>}, out, base)

\* The attempt goes on to its next await.
Goto(s, n, pc, verdict) ==
    /\ att' = [att EXCEPT ![s][n] = [@ EXCEPT !.pc = pc, !.verdict = verdict]]
    /\ UNCHANGED <<inflight, sweep>>

-----------------------------------------------------------------------------
(***************************************************************************)
(* connectEffect and connectAllEffect, up to their first await.            *)
(***************************************************************************)

\* disconnectClientEffect takes the stored client out of the map.
Detach(S) ==
    /\ clients' = [s \in Server |-> IF s \in S THEN 0 ELSE clients[s]]
    /\ tools' = [s \in Server |-> IF s \in S THEN {} ELSE tools[s]]
    /\ UNCHANGED ousted

Stored(S) == {<<s, clients[s]>> : s \in {r \in S : clients[r] # 0}}

\* With no modern subscription open for a server of S, close is called at once.
CloseNow(S) == live' = live \ Stored(S) /\ UNCHANGED parting

\* Otherwise the close of the subscriptions comes first, and is awaited.
CloseLater(S, h) ==
    /\ S \cap Modern # {}
    /\ parting' = [parting EXCEPT ![h] = @ \cup Stored(S)]
    /\ UNCHANGED live

\* The first await of an attempt for s: the close of modern subscriptions, which
\* comes before that of the previous client, or else that, or else the connect.
First(s, subscribed, sig) ==
    [Unused EXCEPT
        !.pc = IF subscribed THEN "unsubscribing"
               ELSE IF clients[s] # 0 THEN "closeOld" ELSE "connecting",
        !.old = IF subscribed THEN clients[s] ELSE 0,
        !.rev = revision, !.sig = sig]

\* An attempt starts for every server of S; modern subscriptions are open for
\* those of W.
Fork(S, W, sig) ==
    /\ \A s \in S : started[s] < MaxStarted[s]
    /\ started' = [s \in Server |-> IF s \in S THEN started[s] + 1 ELSE started[s]]
    /\ inflight' = [s \in Server |-> IF s \in S THEN started'[s] ELSE inflight[s]]
    /\ att' = [s \in Server |-> [n \in Attempt |->
                 IF s \in S /\ n = started'[s] THEN First(s, s \in W, sig) ELSE att[s][n]]]
    /\ Detach(S) /\ CloseNow(S \ W)
    /\ statuses' = [s \in Server |-> IF s \in S THEN "connecting" ELSE statuses[s]]
    /\ UNCHANGED <<control, refreshing, aborted>>

\* Mutant: connect forks an attempt without looking for one in flight.
LaunchUnjoined(T, sig) == \E W \in SUBSET (T \cap Modern) : Fork(T, W, sig)

\* connectEffect for every server of T: join the attempt in flight, or fork one.
Launch(T, sig) ==
    LET fresh == {s \in T : inflight[s] = 0}
    IN  \E W \in SUBSET (fresh \cap Modern) : Fork(fresh, W, sig)

Intent == {"automatic", "explicit"}

ClearsManual(T, intent) == manual' = IF intent = "explicit" THEN manual \ T ELSE manual

\* A signal that has already fired fails the call after `manual` was cleared.
Proceeding(T, sig) == IF sig \in aborted THEN {} ELSE T

Connect(s, intent, sig) ==
    /\ s \in Configured /\ CanConnect(s, intent)
    /\ ClearsManual({s}, intent)
    /\ Launch(Proceeding({s}, sig), sig)
    /\ UNCHANGED sweep

\* An explicit connect of a server the configuration disables.
ConnectDisabled(s) ==
    /\ IsConfigDisabled(s)
    /\ statuses' = [statuses EXCEPT ![s] = "disabled"]
    /\ UNCHANGED <<control, manual, store, flights, att, refreshing, sweep, aborted>>

\* connectAll waits for every attempt it joined or started, then reports.
ConnectAll(c, intent, sig) ==
    LET T == {s \in Configured : CanConnect(s, intent)} IN
    /\ sweep[c] = Idle
    /\ T # {}
    /\ ClearsManual(T, intent)
    /\ Launch(Proceeding(T, sig), sig)
    /\ sweep' = IF sig \in aborted THEN sweep
                ELSE [sweep EXCEPT ![c] = [Idle EXCEPT
                        !.waits = [s \in Server |-> IF s \in T THEN inflight'[s] ELSE 0],
                        !.sig = sig]]

-----------------------------------------------------------------------------
(***************************************************************************)
(* connectFreshEffect: what runs when each of its awaits resumes.          *)
(***************************************************************************)

\* connectTransportEffect begins.  A fired signal makes it throw.
Opens(s, n) ==
    IF att[s][n].sig \in aborted
    THEN End(s, n, "died", "broken", statuses)
    ELSE Goto(s, n, "connecting", "none") /\ UNCHANGED statuses

\* The subscriptions are closed: now the previous client is, if there was one.
Unsubscribed(s, n) ==
    LET old == att[s][n].old IN
    /\ att[s][n].pc = "unsubscribing"
    /\ \/ /\ old = 0 /\ Opens(s, n)
          /\ UNCHANGED live
       \/ /\ old # 0
          /\ live' = live \ {<<s, old>>}
          /\ att' = [att EXCEPT ![s][n] = [@ EXCEPT !.pc = "closeOld", !.old = 0]]
          /\ UNCHANGED <<inflight, sweep, statuses>>
    /\ UNCHANGED <<control, manual, clients, tools, parting, ousted, started, refreshing, aborted>>

\* The previous client is closed.
OldClosed(s, n) ==
    /\ att[s][n].pc = "closeOld"
    /\ Opens(s, n)
    /\ UNCHANGED <<control, manual, store, started, refreshing, aborted>>

\* What the checks after an await make of a connected client.
Stale(s, n) == ~IsCurrentRevision(att[s][n].rev)

\* Mutant: the client is dropped without being closed.
DropUnclosed(s, n, verdict) ==
    /\ Goto(s, n, "dropping", verdict)
    /\ UNCHANGED <<statuses, store>>

Drop(s, n, verdict) ==
    /\ Goto(s, n, "dropping", verdict)
    /\ live' = live \ {<<s, n>>}
    /\ UNCHANGED <<statuses, clients, tools, parting, ousted>>

\* Mutant: the disconnect that came while connecting goes unnoticed.
ConnectedUnlessStale(s, n) ==
    /\ att[s][n].pc = "connecting" /\ ~Stale(s, n)
    /\ statuses' = [statuses EXCEPT ![s] = "connected"]
    /\ live' = live \cup {<<s, n>>}
    /\ Goto(s, n, "listing", "none")
    /\ UNCHANGED <<control, manual, clients, tools, parting, ousted, started, refreshing, aborted>>

\* client.connect succeeds.  The status is written before the tools are listed.
Connected(s, n) ==
    /\ att[s][n].pc = "connecting"
    /\ \/ Stale(s, n) /\ Drop(s, n, "stale")
       \/ ~Stale(s, n) /\ s \in manual /\ Drop(s, n, "disabled")
       \/ /\ ~Stale(s, n) /\ s \notin manual
          /\ statuses' = [statuses EXCEPT ![s] = "connected"]
          /\ live' = live \cup {<<s, n>>}
          /\ Goto(s, n, "listing", "none")
          /\ UNCHANGED <<clients, tools, parting, ousted>>
    /\ UNCHANGED <<control, manual, started, refreshing, aborted>>

\* client.connect fails or times out: the transport is closed.
ConnectFails(s, n, verdict) ==
    /\ att[s][n].pc = "connecting"
    /\ verdict = "failed" \/ s \in Remote
    /\ Goto(s, n, "failing", verdict)
    /\ UNCHANGED <<control, manual, store, statuses, started, refreshing, aborted>>

\* A remote server that failed, but not for want of authorization, has its
\* second transport tried.
Retries(s, n) == s \in Remote /\ att[s][n].way = 1 /\ att[s][n].verdict = "failed"

TransportClosed(s, n) ==
    /\ att[s][n].pc = "failing"
    /\ \/ /\ att[s][n].sig \in aborted
          /\ End(s, n, "died", "broken", statuses)
       \/ /\ att[s][n].sig \notin aborted /\ Retries(s, n)
          /\ att' = [att EXCEPT ![s][n] = [@ EXCEPT !.pc = "connecting", !.way = 2,
                                                   !.verdict = "none"]]
          /\ UNCHANGED <<inflight, sweep, statuses>>
       \/ /\ att[s][n].sig \notin aborted /\ ~Retries(s, n)
          /\ \/ Stale(s, n) /\ End(s, n, "ended", "ok", statuses)
             \/ /\ ~Stale(s, n) /\ s \in manual
                /\ End(s, n, "ended", "ok", [statuses EXCEPT ![s] = "disabled"])
             \/ /\ ~Stale(s, n) /\ s \notin manual
                /\ statuses' = [statuses EXCEPT ![s] = att[s][n].verdict]
                /\ Goto(s, n, "notifying", "none")
    /\ UNCHANGED <<control, manual, store, started, refreshing, aborted>>

\* tools/list returns L: the last await before the client is stored.
Listed(s, n, L) ==
    LET lists == [tools EXCEPT ![s] = L] IN
    /\ att[s][n].pc = "listing"
    /\ \/ Stale(s, n) /\ Drop(s, n, "stale")
       \/ ~Stale(s, n) /\ s \in manual /\ Drop(s, n, "disabled")
       \/ ~Stale(s, n) /\ s \notin manual /\ Collides(lists) /\ Drop(s, n, "collision")
       \/ /\ ~Stale(s, n) /\ s \notin manual /\ ~Collides(lists)
          /\ clients' = [clients EXCEPT ![s] = n]
          /\ tools' = lists
          /\ Goto(s, n, "notifying", "none")
          /\ UNCHANGED <<statuses, live, parting, ousted>>
    /\ UNCHANGED <<control, manual, started, refreshing, aborted>>

\* tools/list fails: the client is closed, and the failure passed on.
ListFails(s, n) ==
    /\ att[s][n].pc = "listing"
    /\ Drop(s, n, "error")
    /\ UNCHANGED <<control, manual, started, refreshing, aborted>>

\* paginateEffect throws, on a repeated cursor or too many pages.  Thrown in a
\* generator that is a defect, which Effect.catch lets pass: nothing is closed.
ListDies(s, n) ==
    /\ att[s][n].pc = "listing"
    /\ End(s, n, "died", "broken", statuses)
    /\ UNCHANGED <<control, manual, store, started, refreshing, aborted>>

\* The close of a dropped client returns.
Dropped(s, n) ==
    LET why == att[s][n].verdict IN
    /\ att[s][n].pc = "dropping"
    /\ \/ why = "stale" /\ End(s, n, "ended", "ok", statuses)
       \/ why = "disabled" /\ End(s, n, "ended", "ok", [statuses EXCEPT ![s] = "disabled"])
       \/ why \in {"error", "aborted"} /\ End(s, n, "ended", why, statuses)
       \/ /\ why = "collision"
          /\ statuses' = [statuses EXCEPT ![s] = "failed"]
          /\ Goto(s, n, "notifying", "none")
    /\ UNCHANGED <<control, manual, store, started, refreshing, aborted>>

\* The callbacks return, or throw and so fail an attempt that has done its work.
Notified(s, n) ==
    /\ att[s][n].pc = "notifying"
    /\ \E out \in {"ok"} \cup IF NotifyMayFail THEN {"error"} ELSE {} :
          End(s, n, "ended", out, statuses)
    /\ UNCHANGED <<control, manual, store, started, refreshing, aborted>>

-----------------------------------------------------------------------------
(***************************************************************************)
(* The other handlers.                                                     *)
(***************************************************************************)

\* A caller's signal fires.  The attempts it was passed to give up at once in
\* client.connect and in tools/list, which rejects with an abort or another error.
Abort(g) ==
    LET hit == {p \in Server \X Attempt : att[p[1]][p[2]].sig = g
                                       /\ att[p[1]][p[2]].pc \in {"connecting", "listing"}}
    IN  /\ g \notin aborted
        /\ aborted' = aborted \cup {g}
        /\ \E why \in {"aborted", "error"} :
              att' = [s \in Server |-> [n \in Attempt |->
                        IF <<s, n>> \notin hit THEN att[s][n]
                        ELSE [att[s][n] EXCEPT !.pc = "dropping",
                                !.verdict = IF att[s][n].pc = "listing" THEN why ELSE "aborted"]]]
        /\ live' = live \ hit
        /\ UNCHANGED <<control, statuses, manual, clients, tools, parting, ousted, flights,
                       refreshing, sweep>>

\* A connectAll whose own signal has fired rejects.  Effect.race may give it the
\* abort at once or after its attempts have ended: any time while it waits.
SweepAborted(c) ==
    /\ sweep[c] # Idle
    /\ sweep[c].sig \in aborted
    /\ sweep' = [sweep EXCEPT ![c] = Idle]
    /\ \E report \in SUBSET sweep[c].failed :
          statuses' = [s \in Server |-> IF s \in report THEN "failed" ELSE statuses[s]]
    /\ UNCHANGED <<control, manual, store, flights, att, refreshing, aborted>>

\* disconnectEffect: an attempt in flight is not touched, it finds `manual` later.
Disconnect(s) ==
    /\ s \in Configured
    /\ manual' = manual \cup {s}
    /\ Detach({s})
    /\ CloseNow({s}) \/ CloseLater({s}, "disconnect")
    /\ statuses' = [statuses EXCEPT ![s] = "disabled"]
    /\ UNCHANGED <<control, flights, att, refreshing, sweep, aborted>>

\* The subscriptions of a client that disconnect took out are closed: it is next.
Disconnected(s, n) ==
    /\ <<s, n>> \in parting["disconnect"]
    /\ parting' = [parting EXCEPT !["disconnect"] = @ \ {<<s, n>>}]
    /\ live' = live \ {<<s, n>>}
    /\ UNCHANGED <<control, statuses, manual, clients, tools, ousted, flights, att, refreshing,
                   sweep, aborted>>

\* handleClientClosedEffect: the connection of a stored client is lost.
ConnectionLost(s) ==
    /\ clients[s] # 0
    /\ Detach({s})
    /\ live' = live \ Stored({s}) /\ UNCHANGED parting
    /\ statuses' = [statuses EXCEPT ![s] = "failed"]
    /\ UNCHANGED <<control, manual, flights, att, refreshing, sweep, aborted>>

\* handleToolListChangedEffect, up to its tools/list.
ToolListChanged(s) ==
    LET n == clients[s] IN
    /\ n # 0 /\ statuses[s] = "connected"
    /\ refreshing[s][n] < MaxRefresh
    /\ refreshing' = [refreshing EXCEPT ![s][n] = @ + 1]
    /\ UNCHANGED <<control, statuses, manual, store, flights, att, sweep, aborted>>

\* Mutant: a refreshed list is taken without looking for collisions.
RefreshedUnchecked(s, n, L) ==
    /\ refreshing[s][n] > 0
    /\ refreshing' = [refreshing EXCEPT ![s][n] = @ - 1]
    /\ tools' = IF clients[s] = n THEN [tools EXCEPT ![s] = L] ELSE tools
    /\ UNCHANGED <<control, clients, live, parting, ousted, statuses, manual, flights, att, sweep,
                   aborted>>

\* Its list arrives.  Client n may have been replaced meanwhile: on a collision
\* the code deletes whichever client is stored now, and closes n; otherwise it
\* gives the list to n.
Refreshed(s, n, L) ==
    LET lists == [tools EXCEPT ![s] = L] IN
    /\ refreshing[s][n] > 0
    /\ refreshing' = [refreshing EXCEPT ![s][n] = @ - 1]
    /\ IF Collides(lists)
       THEN /\ clients' = [clients EXCEPT ![s] = 0]
            /\ tools' = [tools EXCEPT ![s] = {}]
            /\ statuses' = [statuses EXCEPT ![s] = "failed"]
            /\ live' = live \ {<<s, n>>}
            /\ ousted' = ousted \cup {<<s, m>> : m \in {clients[s]} \ {0, n}}
       ELSE /\ tools' = IF clients[s] = n THEN lists ELSE tools
            /\ UNCHANGED <<clients, statuses, live, ousted>>
    /\ UNCHANGED <<control, manual, parting, flights, att, sweep, aborted>>

RefreshFails(s, n) ==
    /\ refreshing[s][n] > 0
    /\ refreshing' = [refreshing EXCEPT ![s][n] = @ - 1]
    /\ UNCHANGED <<control, statuses, manual, store, flights, att, sweep, aborted>>

-----------------------------------------------------------------------------
(***************************************************************************)
(* initializeEffect and closeEffect: the same steps, the first up to the   *)
(* close of the OAuth callback listener and transports, the second up to   *)
(* the close of the clients, in two if modern subscriptions come first.    *)
(***************************************************************************)

InitializeBegin(cfg) ==
    /\ ctl["initialize"] = "idle" /\ revision < MaxRevision
    /\ closed' = FALSE
    /\ revision' = revision + 1
    /\ newConfig' = cfg
    /\ ctl' = [ctl EXCEPT !["initialize"] = "callbacks"]
    /\ UNCHANGED <<config, statuses, manual, store, flights, att, refreshing, sweep, aborted>>

CloseBegin ==
    /\ ctl["close"] = "idle" /\ revision < MaxRevision
    /\ closed' = TRUE
    /\ revision' = revision + 1
    /\ ctl' = [ctl EXCEPT !["close"] = "callbacks"]
    /\ UNCHANGED <<config, newConfig, statuses, manual, store, flights, att, refreshing, sweep, aborted>>

\* closeClientsEffect: the clients are taken out.
ClearClients(op) ==
    /\ ctl[op] = "callbacks"
    /\ Detach(Server)
    /\ \/ CloseNow(Server) /\ ctl' = [ctl EXCEPT ![op] = "clients"]
       \/ CloseLater(Server, op) /\ ctl' = [ctl EXCEPT ![op] = "subscriptions"]
    /\ UNCHANGED <<closed, revision, config, newConfig, statuses, manual, flights, att,
                   refreshing, sweep, aborted>>

\* The subscriptions are closed, and the clients are next.
SubscriptionsClosed(op) ==
    /\ ctl[op] = "subscriptions"
    /\ ctl' = [ctl EXCEPT ![op] = "clients"]
    /\ live' = live \ parting[op]
    /\ parting' = [parting EXCEPT ![op] = {}]
    /\ UNCHANGED <<closed, revision, config, newConfig, statuses, manual, clients, tools, ousted,
                   flights, att, refreshing, sweep, aborted>>

\* Mutant: the attempts are forgotten but not interrupted.
ForgetAttempts(base) ==
    /\ inflight' = [s \in Server |-> 0]
    /\ statuses' = base
    /\ UNCHANGED <<att, sweep>>

\* closeConnectionAttemptsEffect: the fibers stop where they are, with no
\* finalizer that closes what they have connected or were about to close.
InterruptAttempts(base) ==
    LET hit == {<<s, inflight[s]>> : s \in {r \in Server : inflight[r] # 0}} IN
    /\ inflight' = [s \in Server |-> 0]
    /\ att' = [s \in Server |-> [n \in Attempt |->
                 IF <<s, n>> \in hit
                 THEN [Unused EXCEPT !.pc = "interrupted", !.rev = att[s][n].rev, !.old = att[s][n].old]
                 ELSE att[s][n]]]
    /\ Resolve(hit, "broken", base)

\* Mutant: the configuration's own words are taken for statuses.
InitializeEndUntranslated ==
    /\ ctl["initialize"] = "clients"
    /\ ctl' = [ctl EXCEPT !["initialize"] = "idle"]
    /\ config' = newConfig
    /\ InterruptAttempts(newConfig)
    /\ UNCHANGED <<closed, revision, newConfig, manual, store, started, refreshing, aborted>>

InitializeEnd ==
    /\ ctl["initialize"] = "clients"
    /\ ctl' = [ctl EXCEPT !["initialize"] = "idle"]
    /\ config' = newConfig
    /\ InterruptAttempts([s \in Server |->
          CASE newConfig[s] = "on" -> "disconnected"
            [] newConfig[s] = "off" -> "disabled"
            [] OTHER -> "none"])
    /\ UNCHANGED <<closed, revision, newConfig, manual, store, started, refreshing, aborted>>

CloseEnd ==
    /\ ctl["close"] = "clients"
    /\ ctl' = [ctl EXCEPT !["close"] = "idle"]
    /\ InterruptAttempts(statuses)
    /\ UNCHANGED <<closed, revision, config, newConfig, manual, store, started, refreshing, aborted>>

-----------------------------------------------------------------------------
\* new McpManager, and the first initialize, with no state to take down.
Init ==
    /\ closed = FALSE /\ revision = 0
    /\ config \in Configs /\ newConfig = config
    /\ ctl = [op \in {"initialize", "close"} |-> "idle"]
    /\ statuses = [s \in Server |->
          CASE config[s] = "on" -> "disconnected"
            [] config[s] = "off" -> "disabled"
            [] OTHER -> "none"]
    /\ manual = {}
    /\ clients = [s \in Server |-> 0]
    /\ tools = [s \in Server |-> {}]
    /\ live = {} /\ ousted = {}
    /\ parting = [h \in Handler |-> {}]
    /\ inflight = [s \in Server |-> 0]
    /\ started = [s \in Server |-> 0]
    /\ att = [s \in Server |-> [n \in Attempt |-> Unused]]
    /\ refreshing = [s \in Server |-> [n \in Attempt |-> 0]]
    /\ sweep = [c \in Sweep |-> Idle]
    /\ aborted = {}

AttemptStep(s, n) ==
    \/ Unsubscribed(s, n)
    \/ OldClosed(s, n)
    \/ Connected(s, n)
    \/ \E verdict \in Failure : ConnectFails(s, n, verdict)
    \/ TransportClosed(s, n)
    \/ \E L \in SUBSET Tool : Listed(s, n, L)
    \/ ListFails(s, n)
    \/ ListDies(s, n)
    \/ Dropped(s, n)
    \/ Notified(s, n)

CallStep ==
    \E intent \in Intent, sig \in Signal \cup {NoSignal} :
       \/ \E s \in Server : Connect(s, intent, sig)
       \/ \E c \in Sweep : ConnectAll(c, intent, sig)

DisconnectStep(s) == Disconnect(s) \/ \E n \in Attempt : Disconnected(s, n)

RefreshStep(s) ==
    \/ ToolListChanged(s)
    \/ \E n \in Attempt : RefreshFails(s, n) \/ \E L \in SUBSET Tool : Refreshed(s, n, L)

ControlStep ==
    \/ \E cfg \in Configs : InitializeBegin(cfg)
    \/ CloseBegin
    \/ \E op \in {"initialize", "close"} : ClearClients(op) \/ SubscriptionsClosed(op)
    \/ InitializeEnd
    \/ CloseEnd

Next ==
    \/ CallStep
    \/ \E s \in Server :
          ConnectDisabled(s) \/ DisconnectStep(s) \/ ConnectionLost(s) \/ RefreshStep(s)
    \/ \E s \in Server, n \in Attempt : AttemptStep(s, n)
    \/ \E g \in Signal : Abort(g)
    \/ \E c \in Sweep : SweepAborted(c)
    \/ ControlStep

Spec == Init /\ [][Next]_vars

\* What an attempt waits for comes: connects and lists have timeouts, closes and
\* callbacks settle.  Nothing obliges a user, a signal or a server to act, and
\* initialize, close and disconnect may hang.
Fairness == \A s \in Server, n \in Attempt : WF_vars(AttemptStep(s, n))

FairSpec == Spec /\ Fairness

-----------------------------------------------------------------------------
(***************************************************************************)
(* Properties.                                                             *)
(***************************************************************************)

TypeOK ==
    /\ closed \in BOOLEAN /\ revision \in 0..MaxRevision
    /\ config \in Configs /\ newConfig \in Configs
    /\ ctl \in [{"initialize", "close"} -> Phase]
    /\ statuses \in [Server -> Status]
    /\ manual \subseteq Server
    /\ clients \in [Server -> 0..MaxAttempts]
    /\ tools \in [Server -> SUBSET Tool]
    /\ live \subseteq Server \X Attempt /\ ousted \subseteq Server \X Attempt
    /\ parting \in [Handler -> SUBSET (Server \X Attempt)]
    /\ inflight \in [Server -> 0..MaxAttempts]
    /\ started \in [Server -> 0..MaxAttempts]
    /\ att \in [Server -> [Attempt -> AttemptRecord]]
    /\ refreshing \in [Server -> [Attempt -> 0..MaxRefresh]]
    /\ sweep \in [Sweep -> SweepRecord]
    /\ aborted \subseteq Signal

\* No two tools of the stored clients have one Pi name, however connects and
\* tool refreshes interleave: getToolEntry(key) finds the tool Pi registered
\* (connectFreshEffect's and handleToolListChangedEffect's findToolKeyCollision).
NoToolKeyCollision == ~Collides(tools)

\* The attempt that runs for a server is the registered one, so at most one
\* runs, and a registered attempt runs: joining it never waits for a dead fiber.
OneRegisteredAttempt ==
    \A s \in Server, n \in Attempt : Active(s, n) <=> inflight[s] = n

\* A server disconnected for the current runtime has no client and is not shown
\* as connected, whatever was in flight for it when disconnect was called
\* (connectFreshEffect's checks of manuallyDisconnected).
DisconnectedStaysOut == \A s \in manual : clients[s] = 0 /\ statuses[s] # "connected"

\* Once close has cleared the clients, no late attempt stores one.
ClosedManagerHoldsNoClients ==
    closed /\ ctl["close"] # "callbacks" => \A s \in Server : clients[s] = 0

\* Past the first await of initialize and close, every stored client was
\* connected for the current revision (isCurrentRevision).
StoredClientsAreCurrent ==
    (\A op \in {"initialize", "close"} : ctl[op] # "callbacks") =>
        \A s \in Server : clients[s] # 0 => att[s][clients[s]].rev = revision

\* An attempt that took client p out of the map, and will close it when the modern
\* subscriptions are closed, or was interrupted before that.
ClosesOld(p) ==
    \E n \in Attempt : /\ att[p[1]][n].pc \in {"unsubscribing", "interrupted"}
                       /\ att[p[1]][n].old = p[2]

\* Every connected client is stored, or in the hands of someone who will store or
\* close it: its own attempt, the attempt that replaces it, or the disconnect,
\* initialize or close that took it out of the map.  What leaves one behind is an
\* interrupt, of its own attempt or of the one that replaces it, a defect, or the
\* tool refresh of an older client, which takes a newer one out of the map.
LiveClientsAreOwned ==
    \A p \in live : \/ clients[p[1]] = p[2]
                    \/ att[p[1]][p[2]].pc \in {"listing", "interrupted", "died"}
                    \/ ClosesOld(p)
                    \/ \E h \in Handler : p \in parting[h]
                    \/ p \in ousted

\* Storing a client never overwrites another, which nobody would close.
StoreNeverOverwrites ==
    [][\A s \in Server : clients[s] # 0 => clients'[s] \in {0, clients[s]}]_vars

\* A server whose attempt has yet to store has no client: the attempt took it out
\* when it started, and no other stores one meanwhile.
NoClientBeforeStore ==
    \A s \in Server, n \in Attempt : att[s][n].pc \in Unstored => clients[s] = 0

\* Only numbers that were given out name attempts that have started.
AttemptsAreNumbered ==
    \A s \in Server, n \in Attempt : n > started[s] => att[s][n].pc = "unused"

\* A connectAll without a signal waits for something, and only for attempts that
\* run: no end of an attempt, and no join, leaves it waiting for one that is over
\* (connectAllEffect's waits, whatever closes or interrupts the attempts).
SweepsAwaitTheLiving ==
    \A c \in Sweep : sweep[c] # Idle /\ sweep[c].sig = NoSignal =>
        /\ \E s \in Server : sweep[c].waits[s] # 0
        /\ \A s \in Server : sweep[c].waits[s] # 0 => Active(s, sweep[c].waits[s])

\* The inductive invariant behind the safety properties above.
ManagerInv ==
    /\ TypeOK
    /\ NoToolKeyCollision
    /\ OneRegisteredAttempt
    /\ DisconnectedStaysOut
    /\ ClosedManagerHoldsNoClients
    /\ StoredClientsAreCurrent
    /\ NoClientBeforeStore

\* How far an attempt is from its end, at most.
StepsLeft(r) ==
    CASE r.pc = "unused" -> 10
      [] r.pc = "unsubscribing" -> 9
      [] r.pc = "closeOld" -> 8
      [] r.pc = "connecting" -> IF r.way = 1 THEN 7 ELSE 5
      [] r.pc = "failing" -> IF r.way = 1 THEN 6 ELSE 4
      [] r.pc = "listing" -> 3
      [] r.pc = "dropping" -> 2
      [] r.pc = "notifying" -> 1
      [] OTHER -> 0

\* An attempt never returns to an await it has left, whoever moves it, and its
\* number is not used again: it ends after at most nine steps (connectFreshEffect).
AttemptsAdvance ==
    [][\A s \in Server, n \in Attempt :
          att'[s][n] # att[s][n] => StepsLeft(att'[s][n]) < StepsLeft(att[s][n])]_vars

\* What an attempt is to those who wait for its client.
Stage(pc) ==
    IF pc = "unused" THEN "new" ELSE IF pc \in Unstored THEN "pending" ELSE "over"

Asks == [s \in Server |-> [n \in Attempt |->
           [state |-> Stage(att[s][n].pc), for |-> att[s][n].rev]]]

Clearing == {op \in {"initialize", "close"} : ctl[op] = "callbacks"}

\* The map of clients keeps what ClientMap promises: each step of the manager is
\* one of its actions, or changes none of what it speaks about.
Map == INSTANCE ClientMap WITH
    Client <- Attempt, None <- 0, open <- ~closed, generation <- revision,
    clearing <- Clearing, out <- manual, held <- clients, ask <- Asks

KeepsClientMap == Map!Spec

\* connectAll returns: whatever attempts its caller joins, and whether another
\* caller's signal aborts them, a reload or close interrupts them, or they are over
\* and others run for the server, a call without a signal does not wait for ever.
SweepReturns ==
    \A c \in Sweep : (sweep[c] # Idle /\ sweep[c].sig = NoSignal) ~> (sweep[c] = Idle)

\* An attempt always ends, so connect returns to those that wait for it.
AttemptsEnd == \A s \in Server : (inflight[s] # 0) ~> (inflight[s] = 0)

-----------------------------------------------------------------------------
(***************************************************************************)
(* What comments and tests say and the code does not do.                   *)
(***************************************************************************)

Settled == /\ \A op \in {"initialize", "close"} : ctl[op] = "idle"
           /\ \A s \in Server : inflight[s] = 0

\* A server is shown as connected exactly if a client is stored for it.  False, twice:
\* the status is written before tools/list, and nothing takes it back when that fails,
\* so no automatic connect tries the server again (connectFreshEffect); and a
\* disconnect while tools are listed writes "disabled", after which an explicit
\* connect joins the attempt, which stores its client and leaves the status.
StatusMatchesStore ==
    Settled /\ ~closed => \A s \in Server : statuses[s] = "connected" <=> clients[s] # 0

\* close leaves no connected client behind.  False: it interrupts the attempts,
\* and one that is listing tools has a connected client that nothing closes; so
\* has one that waits for the close of modern subscriptions, the previous client.
CloseLeavesNoLiveClient == Settled /\ closed => live = {}
=============================================================================
