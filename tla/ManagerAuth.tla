------------------------------ MODULE ManagerAuth ------------------------------
(***************************************************************************)
(* Interactive authorization of one remote server (src/src/manager.ts, and *)
(* what src/src/oauth-provider.ts keeps in the credential store for it):   *)
(* logins, connection attempts, and authorizations that a connected client *)
(* begins, which share one stored state, one verifier, one pending         *)
(* transport and one write fence.                                          *)
(*                                                                         *)
(* An actor is a login (a call of authenticate) or an attempt to connect.  *)
(* It makes one transport, with one provider, and has the browser open at  *)
(* most one URL; all three carry its name, and so do the state and the     *)
(* verifier it makes.  Calls of the store are single steps (AuthStore      *)
(* implements AuthEntries), and of the listener what OAuthCallback shows   *)
(* is kept.  The SDK, the authorization server and the browser are         *)
(* external; a login's SDK calls end with its connect, an attempt's may    *)
(* go on after it.                                                         *)
(***************************************************************************)
EXTENDS Naturals

CONSTANTS
    Login,      \* calls of authenticate
    Attempt,    \* connection attempts
    Old,        \* tokens of an earlier session
    None,       \* undefined
    Part,       \* bound: who takes part, in each scenario of an instance
    User        \* in such a scenario, whoever removes credentials or shuts down

Actor == Login \cup Attempt

ASSUME AuthAssumption ==
    /\ Login \cap Attempt = {}
    /\ {Old, None, "none", "waiting", "lost"} \cap Actor = {}
    /\ Old # None
    /\ Part \subseteq SUBSET (Actor \cup {User})

VARIABLES
    pc,                 \* where each actor is
    entry,              \* the server's entry in the credential store
    fence,              \* the provider that holds the write fence, or None
    provider,           \* whether a provider exists, and is active
    pendingTransport,   \* the server's pendingOAuthTransports, or None
    connectionAttempt,  \* the attempt in flight, or None
    client,             \* whose client is stored, or None
    connected,          \* whether the status shown is connected
    pendingByState,     \* the actor that waits for a state, or None
    stateByServer,      \* the state that cancel looks up, or None
    callback,           \* what came of each wait: an actor is one whose code came
    asked,              \* the state in each actor's authorization URL
    opened,             \* the actors whose URL the browser has
    using,              \* the transport, then the attempt, a login goes on with
    ender,              \* where the removal of the credentials, or a shutdown, is
    disturbed,          \* history: logins during which somebody else took a step
    removed             \* history: whose credentials were removed

store == <<entry, fence, provider>>
manager == <<pendingTransport, connectionAttempt, client, connected>>
listener == <<pendingByState, stateByServer, callback, opened>>
vars == <<pc, store, manager, listener, asked, using, ender, disturbed, removed>>

-----------------------------------------------------------------------------

Step == {"idle", "starting", "updating", "replacing", "connecting", "stating", "stated",
         "verified", "opening", "waiting", "matching", "matched", "mismatched",
         "exchanging", "saving", "clearing", "reconnect", "reconnecting", "joining",
         "listing", "swapping", "stored", "cleaning", "failing", "closing", "settled",
         "ended"}

EmptyEntry == [state |-> None, verifier |-> None, tokens |-> None]

Goto(x, step) == pc' = [pc EXCEPT ![x] = step]

\* Where an authorization that is over leaves its actor: an attempt in flight goes
\* on to report that it needs authorization, a stored client's call has failed.
AfterAuth(x) ==
    IF x \in Login THEN "ended" ELSE IF connectionAttempt = x THEN "closing" ELSE "settled"

\* The provider constructor takes the fence from every older provider.
NewProvider(x) ==
    /\ fence' = x
    /\ provider' = [provider EXCEPT ![x] = "active"]

\* A fenced write of a provider, dropped without an error when the fence is lost.
FencedWrite(x, field, value) ==
    entry' = IF fence = x THEN [entry EXCEPT ![field] = value] ELSE entry

\* The state an actor's wait is registered under.
Key(x) == IF x \in Login THEN x ELSE asked[x]

\* The wait for a state ends, if there is one; a later wait may have its place.
Settle(st, ended) ==
    /\ pendingByState' = [pendingByState EXCEPT ![st] = None]
    /\ stateByServer' = IF pendingByState[st] # None /\ stateByServer = st THEN None ELSE stateByServer
    /\ callback' = [x \in Actor |-> IF x \in DOMAIN ended THEN ended[x] ELSE callback[x]]

\* An actor has taken what came of its wait.
Taken(x) == callback' = [callback EXCEPT ![x] = "none"]

CancelCallback ==
    IF stateByServer = None THEN UNCHANGED <<pendingByState, stateByServer, callback>>
    ELSE Settle(stateByServer, [x \in {pendingByState[stateByServer]} \ {None} |-> "lost"])

-----------------------------------------------------------------------------
(***************************************************************************)
(* Logins and attempts up to their transport.                              *)
(***************************************************************************)

Authenticate(f) ==
    /\ pc[f] = "idle"
    /\ Goto(f, "starting")
    /\ UNCHANGED <<store, manager, listener, asked, using>>

\* The callback listener runs, and the actor's wait is registered; or its port is taken.
Started(x) ==
    /\ pc[x] = "starting"
    /\ \/ /\ pendingByState' = [pendingByState EXCEPT ![Key(x)] = x]
          /\ stateByServer' = Key(x)
          /\ callback' = [callback EXCEPT ![x] = "waiting"]
          /\ Goto(x, IF x \in Login THEN "updating" ELSE "opening")
       \/ /\ Goto(x, AfterAuth(x))
          /\ UNCHANGED <<pendingByState, stateByServer, callback>>
    /\ UNCHANGED <<store, manager, opened, asked, using>>

\* Mutant: a login that finds a state stored keeps it.
StateKept(f) ==
    /\ pc[f] = "updating"
    /\ entry' = IF entry.state = None THEN [entry EXCEPT !.state = f] ELSE entry
    /\ NewProvider(f)
    /\ Goto(f, "connecting")
    /\ UNCHANGED <<manager, listener, asked, using>>

\* The login's state is stored, without a fence, and its provider created.
UpdateState(f) ==
    /\ pc[f] = "updating"
    /\ \/ /\ entry' = [entry EXCEPT !.state = f]
          /\ NewProvider(f)
          /\ Goto(f, "connecting")
       \/ /\ Goto(f, "cleaning")
          /\ UNCHANGED store
    /\ UNCHANGED <<manager, listener, asked, using>>

\* A new attempt takes the stored client out, to close it.
BeginAttempt(c) ==
    /\ connectionAttempt' = c
    /\ client' = None
    /\ connected' = FALSE

Connect(c) ==
    /\ pc[c] = "idle"
    /\ connectionAttempt = None
    /\ BeginAttempt(c)
    /\ Goto(c, "replacing")
    /\ UNCHANGED <<store, pendingTransport, listener, asked, using>>

\* The old client is closed; connectRemoteEffect creates its provider.
Replaced(c) ==
    /\ pc[c] = "replacing"
    /\ NewProvider(c)
    /\ Goto(c, "connecting")
    /\ UNCHANGED <<entry, manager, listener, asked, using>>

-----------------------------------------------------------------------------
(***************************************************************************)
(* The SDK's authorization: it asks the provider for a state, has it keep  *)
(* the verifier, and redirects.                                            *)
(***************************************************************************)

\* The server takes the stored tokens.  Nobody waits for an attempt that timed out.
Accepted(x) ==
    /\ pc[x] = "connecting"
    /\ entry.tokens # None
    /\ \/ /\ x \in Login
          /\ CancelCallback
          /\ Goto(x, "joining")
          /\ UNCHANGED connected
       \/ /\ x \in Attempt
          /\ connected' = (connected \/ connectionAttempt = x)
          /\ Goto(x, IF connectionAttempt = x THEN "listing" ELSE "ended")
          /\ UNCHANGED <<pendingByState, stateByServer, callback>>
    /\ UNCHANGED <<store, pendingTransport, connectionAttempt, client, opened, asked, using>>

\* The connection fails, for another reason than authorization.
ConnectFails(x) ==
    /\ pc[x] = "connecting"
    /\ Goto(x, IF x \in Login THEN "cleaning" ELSE "ended")
    /\ connectionAttempt' = IF connectionAttempt = x THEN None ELSE connectionAttempt
    /\ UNCHANGED <<store, pendingTransport, client, connected, listener, asked, using>>

\* An attempt's connect times out; what the SDK was doing goes on.
AttemptTimesOut(c) ==
    /\ connectionAttempt = c
    /\ pc[c] \notin {"replacing", "listing", "closing"}
    /\ connectionAttempt' = None
    /\ connected' = FALSE
    /\ UNCHANGED <<pc, store, pendingTransport, client, listener, asked, using>>

\* The server asks for authorization, or a stored client's call needs more of it
\* (once for each client): state() returns the stored state if there is one.
Challenged(x) ==
    /\ \/ pc[x] = "connecting"
       \/ pc[x] = "settled" /\ client = x /\ asked[x] = None
    /\ asked' = [asked EXCEPT ![x] = IF entry.state = None THEN x ELSE entry.state]
    /\ Goto(x, IF entry.state = None THEN "stating" ELSE "stated")
    /\ UNCHANGED <<store, manager, listener, using>>

\* It makes a state of its own otherwise, unless it was deactivated.
CreateState(x) ==
    /\ pc[x] = "stating"
    /\ FencedWrite(x, "state", x)
    /\ Goto(x, IF provider[x] = "active" THEN "stated"
               ELSE IF x \in Login THEN "cleaning" ELSE AfterAuth(x))
    /\ UNCHANGED <<fence, provider, manager, listener, asked, using>>

SaveCodeVerifier(x) ==
    /\ pc[x] = "stated"
    /\ FencedWrite(x, "verifier", x)
    /\ Goto(x, "verified")
    /\ UNCHANGED <<fence, provider, manager, listener, asked, using>>

\* onRedirect: a login captures the URL and its transport becomes the pending one;
\* a client goes on to authorize at once if the server is shown as connected.
Redirect(x) ==
    /\ pc[x] = "verified"
    /\ pendingTransport' = IF x \in Login THEN x ELSE pendingTransport
    /\ Goto(x, IF x \in Login THEN "opening" ELSE IF connected THEN "starting" ELSE AfterAuth(x))
    /\ UNCHANGED <<store, connectionAttempt, client, connected, listener, asked, using>>

\* An attempt that needs authorization has closed its transport, which becomes the
\* pending one; or the server wants its client registered.
NeedsAuth(c) ==
    /\ pc[c] = "closing"
    /\ pendingTransport' \in {pendingTransport, c}
    /\ connectionAttempt' = None
    /\ connected' = FALSE
    /\ Goto(c, "ended")
    /\ UNCHANGED <<store, client, listener, asked, using>>

\* An attempt's tools are listed and its client stored, or listing them fails.
List(c) ==
    /\ pc[c] = "listing" /\ c \in Attempt
    /\ connectionAttempt' = None
    /\ \/ client' = c /\ Goto(c, "settled")
       \/ UNCHANGED client /\ Goto(c, "ended")
    /\ UNCHANGED <<store, pendingTransport, connected, listener, asked, using>>

\* The stored client closes, or the user disconnects it.
Disconnected ==
    /\ client # None
    /\ client' = None
    /\ connected' = FALSE
    /\ UNCHANGED <<pc, store, pendingTransport, connectionAttempt, listener, asked, using>>

-----------------------------------------------------------------------------
(***************************************************************************)
(* The browser's part.                                                     *)
(***************************************************************************)

\* The browser opens the URL, or cannot be opened: the wait stays then.
Open(x) ==
    /\ pc[x] = "opening"
    /\ \/ opened' = opened \cup {x} /\ Goto(x, "waiting")
       \/ UNCHANGED opened /\ Goto(x, AfterAuth(x))
    /\ UNCHANGED <<store, manager, pendingByState, stateByServer, callback, asked, using>>

\* The user decides on x's URL, and the browser brings the code, or the refusal, to
\* whoever waits for the state of that URL.
Answer(x) ==
    /\ x \in opened
    /\ opened' = opened \ {x}
    /\ LET w == pendingByState[asked[x]] IN
         IF w = None THEN UNCHANGED <<pendingByState, stateByServer, callback>>
         ELSE \E answer \in {x, "lost"} : Settle(asked[x], [y \in {w} |-> answer])
    /\ UNCHANGED <<pc, store, manager, asked, using>>

\* Five minutes pass.
TimedOut(x) ==
    /\ callback[x] = "waiting"
    /\ Settle(Key(x), [y \in {x} |-> "lost"])
    /\ UNCHANGED <<pc, store, manager, opened, asked, using>>

\* The wait is over: a login has yet to compare the states, a client's
\* authorization goes on with its own transport.
Resumed(x) ==
    /\ pc[x] = "waiting"
    /\ callback[x] # "waiting"
    /\ Goto(x, IF callback[x] = "lost" THEN AfterAuth(x)
               ELSE IF x \in Login THEN "matching" ELSE "exchanging")
    /\ using' = IF x \in Attempt THEN [using EXCEPT ![x] = x] ELSE using
    /\ IF callback[x] = "lost" THEN Taken(x) ELSE UNCHANGED callback
    /\ UNCHANGED <<store, manager, pendingByState, stateByServer, opened, asked>>

\* The stored state is read and compared.
Match(f) ==
    /\ pc[f] = "matching"
    /\ Goto(f, IF entry.state = f THEN "matched" ELSE "mismatched")
    /\ UNCHANGED <<store, manager, listener, asked, using>>

\* Mutant: a login goes on when no transport is pending.
TransportUnchecked(f) ==
    /\ pc[f] \in {"matched", "mismatched", "stored"}
    /\ entry' = [entry EXCEPT !.state = None]
    /\ IF pc[f] = "matched"
       THEN /\ using' = [using EXCEPT ![f] = pendingTransport]
            /\ Goto(f, "exchanging")
            /\ UNCHANGED callback
       ELSE UNCHANGED using /\ Goto(f, "ended") /\ Taken(f)
    /\ UNCHANGED <<fence, provider, manager, pendingByState, stateByServer, opened, asked>>

\* clearOAuthStateEffect; a login whose states match takes the pending transport.
ClearOAuthState(f) ==
    /\ pc[f] \in {"matched", "mismatched", "stored"}
    /\ entry' = [entry EXCEPT !.state = None]
    /\ IF pc[f] = "matched" /\ pendingTransport # None
       THEN /\ using' = [using EXCEPT ![f] = pendingTransport]
            /\ Goto(f, "exchanging")
            /\ UNCHANGED callback
       ELSE UNCHANGED using /\ Goto(f, "ended") /\ Taken(f)
    /\ UNCHANGED <<fence, provider, manager, pendingByState, stateByServer, opened, asked>>

\* The code is exchanged with the stored verifier, which must be that of the URL the
\* code was given for; or the exchange fails.
Exchange(x) ==
    /\ pc[x] = "exchanging"
    /\ \/ /\ entry.verifier = callback[x]
          /\ Goto(x, "saving")
          /\ UNCHANGED <<pendingTransport, using>>
       \/ /\ Goto(x, AfterAuth(x))
          /\ using' = [using EXCEPT ![x] = None]
          /\ pendingTransport' = IF x \in Login /\ pendingTransport = using[x] THEN None ELSE pendingTransport
    /\ Taken(x)
    /\ UNCHANGED <<store, connectionAttempt, client, connected, pendingByState, stateByServer, opened, asked>>

\* saveTokens of the transport's provider.
SaveTokens(x) ==
    /\ pc[x] = "saving"
    /\ FencedWrite(using[x], "tokens", using[x])
    /\ Goto(x, IF x \in Login THEN "clearing" ELSE AfterAuth(x))
    /\ using' = IF x \in Login THEN using ELSE [using EXCEPT ![x] = None]
    /\ UNCHANGED <<fence, provider, manager, listener, asked>>

ClearCodeVerifier(f) ==
    /\ pc[f] = "clearing"
    /\ entry' = [entry EXCEPT !.verifier = None]
    /\ pendingTransport' = IF pendingTransport = using[f] THEN None ELSE pendingTransport
    /\ Goto(f, "reconnect")
    /\ UNCHANGED <<fence, provider, connectionAttempt, client, connected, listener, asked, using>>

\* The login joins the attempt in flight, or begins one (none when Attempt is used up).
Reconnect(f) ==
    /\ pc[f] = "reconnect"
    /\ \/ /\ connectionAttempt # None
          /\ using' = [using EXCEPT ![f] = connectionAttempt]
          /\ Goto(f, "reconnecting")
          /\ UNCHANGED <<connectionAttempt, client, connected>>
       \/ /\ connectionAttempt = None
          /\ \E c \in Attempt :
               /\ pc[c] = "idle"
               /\ BeginAttempt(c)
               /\ using' = [using EXCEPT ![f] = c]
               /\ pc' = [pc EXCEPT ![f] = "reconnecting", ![c] = "replacing"]
       \/ /\ connectionAttempt = None
          /\ \A c \in Attempt : pc[c] # "idle"
          /\ using' = [using EXCEPT ![f] = None]
          /\ Goto(f, "ended")
          /\ UNCHANGED <<connectionAttempt, client, connected>>
    /\ UNCHANGED <<store, pendingTransport, listener, asked>>

Reconnected(f) ==
    /\ pc[f] = "reconnecting"
    /\ connectionAttempt # using[f]
    /\ using' = [using EXCEPT ![f] = None]
    /\ Goto(f, "ended")
    /\ UNCHANGED <<store, manager, listener, asked>>

-----------------------------------------------------------------------------
(***************************************************************************)
(* A login that needs no authorization, and one that fails: both end their *)
(* own wait by cancelling the server's.                                    *)
(***************************************************************************)

Clean(f) ==
    /\ pc[f] = "cleaning"
    /\ CancelCallback
    /\ Goto(f, "failing")
    /\ UNCHANGED <<store, manager, opened, asked, using>>

Joined(f) ==
    /\ pc[f] \in {"joining", "failing"}
    /\ callback[f] # "waiting"
    /\ Goto(f, IF pc[f] = "joining" THEN "listing" ELSE "ended")
    /\ Taken(f)
    /\ UNCHANGED <<store, manager, pendingByState, stateByServer, opened, asked, using>>

\* Mutant: the client to be replaced stays until it is overwritten.
KeptOld(f) ==
    /\ pc[f] = "listing" /\ f \in Login
    /\ connected' = TRUE
    /\ Goto(f, "swapping")
    /\ UNCHANGED <<store, pendingTransport, connectionAttempt, client, listener, asked, using>>

\* The tools are listed, and storeClientEffect takes the old client out to close it.
ListAfterLogin(f) ==
    /\ pc[f] = "listing" /\ f \in Login
    /\ \/ /\ client' = None
          /\ connected' = TRUE
          /\ Goto(f, "swapping")
       \/ /\ Goto(f, "ended")
          /\ UNCHANGED <<client, connected>>
    /\ UNCHANGED <<store, pendingTransport, connectionAttempt, listener, asked, using>>

\* The login's client is stored over whatever is stored by now, or, when one of its
\* tools collides, closed.
StoreClient(f) ==
    /\ pc[f] = "swapping"
    /\ \/ client' = f /\ connected' = TRUE
       \/ UNCHANGED client /\ connected' = FALSE
    /\ Goto(f, "stored")
    /\ UNCHANGED <<store, pendingTransport, connectionAttempt, listener, asked, using>>

-----------------------------------------------------------------------------
(***************************************************************************)
(* removeAuth, and the part of initialize and close that ends what is      *)
(* pending here.                                                           *)
(***************************************************************************)

\* Mutant: the providers of a server keep their fence.
ProvidersKept == UNCHANGED <<fence, provider>>

DeactivateProviders ==
    /\ fence' = None
    /\ provider' = [x \in Actor |-> IF provider[x] = "active" THEN "inactive" ELSE provider[x]]

RemoveAuth ==
    /\ ender = "none"
    /\ DeactivateProviders
    /\ CancelCallback
    /\ pendingTransport' = None
    /\ ender' = "removing"
    /\ removed' = {Old} \cup {x \in Actor : provider[x] # "none"}
    /\ UNCHANGED <<pc, entry, connectionAttempt, client, connected, opened, asked, using>>

\* The pending transport is closed, and the entry is removed.
EntryRemoved ==
    /\ ender = "removing"
    /\ entry' = EmptyEntry
    /\ ender' = "removed"
    /\ UNCHANGED <<pc, fence, provider, manager, listener, asked, using, removed>>

Shutdown ==
    /\ ender = "none"
    /\ DeactivateProviders
    /\ ender' = "callbacks"
    /\ UNCHANGED <<pc, entry, manager, listener, asked, using, removed>>

\* The listener has closed: every wait fails, and the pending transports are closed.
CallbacksClosed ==
    /\ ender = "callbacks"
    /\ pendingByState' = [st \in Actor |-> None]
    /\ stateByServer' = IF stateByServer # None /\ pendingByState[stateByServer] # None THEN None ELSE stateByServer
    /\ callback' = [x \in Actor |-> IF \E st \in Actor : pendingByState[st] = x THEN "lost" ELSE callback[x]]
    /\ pendingTransport' = None
    /\ ender' = "clients"
    /\ UNCHANGED <<pc, store, connectionAttempt, client, connected, opened, asked, using, removed>>

\* The client is taken out; then the attempt in flight is interrupted, though not what
\* the SDK does for it.  initialize forgets the status.
ClientsClosed ==
    /\ ender = "clients"
    /\ client' = None
    /\ ender' = "attempts"
    /\ UNCHANGED <<pc, store, pendingTransport, connectionAttempt, connected, listener, asked, using, removed>>

AttemptsClosed ==
    /\ ender = "attempts"
    /\ connectionAttempt' = None
    /\ connected' \in {connected, FALSE}
    /\ pc' = [x \in Actor |-> IF x = connectionAttempt /\ pc[x] \in {"replacing", "listing", "closing"}
                              THEN "ended" ELSE pc[x]]
    /\ ender' = "closed"
    /\ UNCHANGED <<store, pendingTransport, client, listener, asked, using, removed>>

-----------------------------------------------------------------------------

Init ==
    /\ \E part \in Part :
         /\ pc = [x \in Actor |-> IF x \in part THEN "idle" ELSE "ended"]
         /\ ender = IF User \in part THEN "none" ELSE "absent"
    /\ entry \in {EmptyEntry, [EmptyEntry EXCEPT !.tokens = Old]}
    /\ fence = None
    /\ provider = [x \in Actor |-> "none"]
    /\ pendingTransport = None
    /\ connectionAttempt = None
    /\ client = None
    /\ connected = FALSE
    /\ pendingByState = [st \in Actor |-> None]
    /\ stateByServer = None
    /\ callback = [x \in Actor |-> "none"]
    /\ asked = [x \in Actor |-> None]
    /\ opened = {}
    /\ using = [x \in Actor |-> None]
    /\ disturbed = {}
    /\ removed = {}

\* What an actor does once it has begun.
Proceed(x) ==
    \/ Started(x) \/ Accepted(x) \/ ConnectFails(x)
    \/ pc[x] = "connecting" /\ Challenged(x)
    \/ CreateState(x) \/ SaveCodeVerifier(x) \/ Redirect(x) \/ Open(x) \/ Resumed(x)
    \/ Exchange(x) \/ SaveTokens(x)
    \/ /\ x \in Login
       /\ \/ UpdateState(x) \/ Match(x) \/ ClearOAuthState(x) \/ ClearCodeVerifier(x)
          \/ Reconnect(x) \/ Reconnected(x) \/ Clean(x) \/ Joined(x) \/ ListAfterLogin(x)
          \/ StoreClient(x)
    \/ x \in Attempt /\ (Replaced(x) \/ AttemptTimesOut(x) \/ NeedsAuth(x) \/ List(x))

\* The steps of others than an actor that has begun, and of its timer.
Request(x) ==
    \/ x \in Login /\ Authenticate(x)
    \/ x \in Attempt /\ Connect(x)
    \/ pc[x] = "settled" /\ Challenged(x)

Underway == {f \in Login : pc[f] \notin {"idle", "ended"}}

End == RemoveAuth \/ EntryRemoved \/ Shutdown \/ CallbacksClosed \/ ClientsClosed \/ AttemptsClosed

\* The logins that are disturbed by a step of somebody else than those of S.
Disturb(S) == disturbed' = (disturbed \cup (Underway \ S)) \cap Underway'

Next ==
    \/ \E x \in Actor :
         \/ (Request(x) \/ Proceed(x)) /\ Disturb({x}) /\ UNCHANGED <<ender, removed>>
         \/ (Answer(x) \/ TimedOut(x)) /\ Disturb(Login) /\ UNCHANGED <<ender, removed>>
    \/ Disconnected /\ Disturb({}) /\ UNCHANGED <<ender, removed>>
    \/ End /\ Disturb({})

Spec == Init /\ [][Next]_vars

-----------------------------------------------------------------------------
(***************************************************************************)
(* Properties.                                                             *)
(***************************************************************************)

\* The state of authenticate, removeAuth and the attempts keeps its types.
TypeOK ==
    /\ pc \in [Actor -> Step]
    /\ entry \in [state : Actor \cup {None}, verifier : Actor \cup {None},
                  tokens : Actor \cup {Old, None}]
    /\ {fence, pendingTransport, client, stateByServer} \subseteq Actor \cup {None}
    /\ provider \in [Actor -> {"none", "active", "inactive"}]
    /\ connectionAttempt \in Attempt \cup {None}
    /\ connected \in BOOLEAN
    /\ pendingByState \in [Actor -> Actor \cup {None}]
    /\ callback \in [Actor -> Actor \cup {"none", "waiting", "lost"}]
    /\ asked \in [Actor -> Actor \cup {None}]
    /\ using \in [Actor -> Actor \cup {None}]
    /\ \A x \in Actor : pc[x] = "exchanging" => {using[x], callback[x]} \subseteq Actor
    /\ opened \subseteq Actor
    /\ ender \in {"absent", "none", "removing", "removed", "callbacks", "clients", "attempts", "closed"}
    /\ disturbed \subseteq Login
    /\ removed \subseteq Actor \cup {Old}

\* Whatever earlier logins and attempts left behind (waits, pending transports, a
\* stored state), a login during which nobody else acts is found by the browser's
\* answer, finds its own state, has its own code exchanged through its own transport
\* with its own verifier, and its tokens saved.
UndisturbedLoginsKeepTheirGrant ==
    \A f \in Login \ disturbed :
        /\ pc[f] # "mismatched"
        /\ pc[f] = "waiting" => asked[f] = f /\ (callback[f] = "waiting" => pendingByState[f] = f)
        /\ pc[f] = "exchanging" => using[f] = f /\ callback[f] = f /\ entry.verifier = f
        /\ pc[f] \in {"clearing", "reconnect"} => entry.tokens = f

\* Once removeAuth has removed the credentials, none come back from a provider that
\* existed when it was called, however late its login or its client's call ends.
RemovedStaysRemoved == ender = "removed" => entry.tokens \notin removed

\* A login that nobody overlaps never stores its client over another one, which would
\* stay open (storeClientEffect takes the old one out, and awaits its closing).
LoginsStoreOverNothing ==
    [][\A f \in Login \ disturbed : client' = f => client \in {f, None}]_vars
=============================================================================
