----------------------------- MODULE OAuthCallback -----------------------------
(***************************************************************************)
(* The OAuth callback listener of a manager (src/src/oauth-callback.ts):   *)
(* the loopback HTTP server browsers are redirected to, and the flows that *)
(* wait for an answer.                                                     *)
(*                                                                         *)
(* A flow is one call of startEffect followed, with no await between, by   *)
(* waitForResultEffect: that is how startAuthEffect and                    *)
(* finishInlineAuthorization (src/src/manager.ts) use the listener.  Each  *)
(* flow creates at most one HTTP server, which carries the flow's name.    *)
(* The server itself is Node's: close() stops it listening at once, and    *)
(* calls back when the connections it had accepted are gone.               *)
(***************************************************************************)
EXTENDS Naturals

CONSTANTS
    Flow,       \* authorization flows
    McpServer,  \* names of MCP servers
    State,      \* OAuth state parameters
    Address,    \* redirect addresses: a port and a path
    Port,       \* the ports
    Path,       \* the paths
    ServerOf,   \* the MCP server a flow authorizes
    StateOf,    \* the state parameter a flow waits for
    AddressOf,  \* the redirect address a flow asks for
    PortOf,     \* the port of an address
    PathOf,     \* the path of an address
    Closer,     \* slots for concurrent calls of close by the manager
    None        \* undefined

ASSUME CallbackAssumption ==
    /\ ServerOf \in [Flow -> McpServer]
    /\ StateOf \in [Flow -> State]
    /\ AddressOf \in [Flow -> Address]
    /\ PortOf \in [Address -> Port]
    /\ PathOf \in [Address -> Path]
    /\ None \notin Flow \cup State
    \* A state is random, or read from the store's entry for the server.
    /\ \A f, g \in Flow : StateOf[f] = StateOf[g] => ServerOf[f] = ServerOf[g]

VARIABLES
    server,         \* the server requests are expected on, or None
    current,        \* currentPort and currentPath
    socket,         \* what each HTTP server does
    pc,             \* where each flow is, or how its wait ended
    pendingByState, \* the flow that waits for a state, or None
    stateByServer,  \* the state cancel looks up for an MCP server, or None
    closing         \* what each closer waits for: a server, or None

pending == <<pendingByState, stateByServer>>
vars == <<server, current, socket, pc, pending, closing>>

-----------------------------------------------------------------------------

Socket == {"none", "bound", "draining", "closed"}

Outcome == {"answered", "refused", "cancelled", "timedOut", "stopped", "unavailable"}

Step == {"idle", "closing", "listening", "waiting"} \cup Outcome

Pending == {st \in State : pendingByState[st] # None}

\* What removePending leaves behind, called for each state of S.
StatesWithout(S) == [st \in State |-> IF st \in S THEN None ELSE pendingByState[st]]

\* Mutant: the state that cancel would look up is not forgotten.
ServersKept(S) == stateByServer

ServersWithout(S) ==
    [m \in McpServer |->
       IF \E st \in S \cap Pending : stateByServer[m] = st /\ ServerOf[pendingByState[st]] = m
       THEN None ELSE stateByServer[m]]

RemovePending(S) ==
    /\ pendingByState' = StatesWithout(S)
    /\ stateByServer' = ServersWithout(S)

\* Mutant: the listener stops as soon as one wait ends.
StopAnyway(S) ==
    IF server # None
    THEN /\ socket' = [socket EXCEPT ![server] = "draining"]
         /\ server' = None
    ELSE UNCHANGED <<socket, server>>

\* stopIfIdle, when the waits for the states of S have been removed.
StopIfIdle(S) ==
    IF Pending \ S = {} /\ server # None
    THEN /\ socket' = [socket EXCEPT ![server] = "draining"]
         /\ server' = None
    ELSE UNCHANGED <<socket, server>>

\* The wait for st ends: its flow is resumed with the outcome.
Settle(st, outcome) ==
    /\ st \in Pending
    /\ RemovePending({st})
    /\ pc' = [pc EXCEPT ![pendingByState[st]] = outcome]
    /\ StopIfIdle({st})

-----------------------------------------------------------------------------
(***************************************************************************)
(* startEffect and waitForResultEffect.                                    *)
(***************************************************************************)

\* startEffect returns, and the flow's wait is registered.
Register(f) ==
    /\ stateByServer' = [stateByServer EXCEPT ![ServerOf[f]] = StateOf[f]]
    /\ pendingByState' = [pendingByState EXCEPT ![StateOf[f]] = f]
    /\ pc' = [pc EXCEPT ![f] = "waiting"]

\* startEffect, up to its first await: another server is closed, the one that is
\* there is used, or a new one is created.
Start(f) ==
    /\ pc[f] = "idle"
    /\ \/ /\ server # None /\ current # AddressOf[f]
          /\ pc' = [pc EXCEPT ![f] = "closing"]
          /\ socket' = [socket EXCEPT ![server] = "draining"]
          /\ closing' = [closing EXCEPT ![f] = server]
          /\ server' = None
          /\ UNCHANGED <<current, pending>>
       \/ /\ server # None /\ current = AddressOf[f]
          /\ Register(f)
          /\ UNCHANGED <<server, current, socket, closing>>
       \/ /\ server = None
          /\ current' = AddressOf[f]
          /\ pc' = [pc EXCEPT ![f] = "listening"]
          /\ UNCHANGED <<server, socket, pending, closing>>

\* The new server listens, unless another one has the port: one of this
\* process, or of another one.
Listened(f) ==
    /\ pc[f] = "listening"
    /\ \/ /\ \A l \in Flow :
                socket[l] = "bound" => PortOf[AddressOf[l]] # PortOf[AddressOf[f]]
          /\ socket' = [socket EXCEPT ![f] = "bound"]
          /\ server' = f
          /\ Register(f)
       \/ /\ pc' = [pc EXCEPT ![f] = "unavailable"]
          /\ UNCHANGED <<server, socket, pending>>
    /\ UNCHANGED <<current, closing>>

\* Mutant: a wait that times out stays registered.
KeptTimeout(f) ==
    /\ pc[f] = "waiting"
    /\ pc' = [pc EXCEPT ![f] = "timedOut"]
    /\ UNCHANGED <<server, current, socket, pending, closing>>

\* The flow's wait lasted five minutes.  Its finalizer removes whatever waits for
\* its state by now.
TimedOut(f) ==
    /\ pc[f] = "waiting"
    /\ pc' = [pc EXCEPT ![f] = "timedOut"]
    /\ IF StateOf[f] \in Pending
       THEN RemovePending({StateOf[f]}) /\ StopIfIdle({StateOf[f]})
       ELSE UNCHANGED <<server, socket, pending>>
    /\ UNCHANGED <<current, closing>>

Cancel(m) ==
    /\ stateByServer[m] # None
    /\ Settle(stateByServer[m], "cancelled")
    /\ UNCHANGED <<current, closing>>

-----------------------------------------------------------------------------
(***************************************************************************)
(* closeEffect, which startEffect calls too.                               *)
(***************************************************************************)

\* A connection that the closed server l had accepted is the last to go.
Drained(l) ==
    /\ socket[l] = "draining"
    /\ socket' = [socket EXCEPT ![l] = "closed"]
    /\ UNCHANGED <<server, current, pc, pending, closing>>

\* Mutant: the waits are forgotten without an answer.
Forgotten == pc

Stopped == [f \in Flow |->
    IF \E st \in Pending : pendingByState[st] = f THEN "stopped" ELSE pc[f]]

\* The end of closeEffect in startEffect: what waits by now is rejected, whenever
\* it was registered.  A server another flow has started meanwhile is used,
\* whatever its address.
StartClosed(f) ==
    /\ pc[f] = "closing"
    /\ socket[closing[f]] = "closed"
    /\ closing' = [closing EXCEPT ![f] = None]
    /\ IF server # None
       THEN /\ pendingByState' = [StatesWithout(State) EXCEPT ![StateOf[f]] = f]
            /\ stateByServer' = [ServersWithout(State) EXCEPT ![ServerOf[f]] = StateOf[f]]
            /\ pc' = [Stopped EXCEPT ![f] = "waiting"]
            /\ UNCHANGED current
       ELSE /\ RemovePending(State)
            /\ pc' = [Stopped EXCEPT ![f] = "listening"]
            /\ current' = AddressOf[f]
    /\ UNCHANGED <<server, socket>>

\* close, called by the manager's initialize and close.
Close(c) ==
    /\ closing[c] = None
    /\ IF server # None
       THEN /\ socket' = [socket EXCEPT ![server] = "draining"]
            /\ closing' = [closing EXCEPT ![c] = server]
            /\ server' = None
            /\ UNCHANGED <<pc, pending>>
       ELSE /\ RemovePending(State)
            /\ pc' = Stopped
            /\ UNCHANGED <<server, socket, closing>>
    /\ UNCHANGED current

Closed(c) ==
    /\ closing[c] # None
    /\ socket[closing[c]] = "closed"
    /\ closing' = [closing EXCEPT ![c] = None]
    /\ RemovePending(State)
    /\ pc' = Stopped
    /\ UNCHANGED <<server, current, socket>>

-----------------------------------------------------------------------------

Answer == {"code", "error"}

\* A browser sent to address a has a connection to server l.
Reaches(a, l) == socket[l] \in {"bound", "draining"} /\ PortOf[AddressOf[l]] = PortOf[a]

\* Mutant: the wait ends with the query's own word.
RequestUntranslated(l, st, answer) ==
    /\ st \in Pending
    /\ Reaches(AddressOf[pendingByState[st]], l)
    /\ Settle(st, answer)
    /\ UNCHANGED <<current, closing>>

\* handleRequest: the browser of the flow that waits for st is redirected to its
\* address with an answer.  A request of any other kind changes nothing.
Request(l, st, answer) ==
    /\ st \in Pending
    /\ Reaches(AddressOf[pendingByState[st]], l)
    /\ PathOf[AddressOf[pendingByState[st]]] = PathOf[current]
    /\ Settle(st, IF answer = "code" THEN "answered" ELSE "refused")
    /\ UNCHANGED <<current, closing>>

-----------------------------------------------------------------------------

Init ==
    /\ server = None
    /\ current \in Address
    /\ socket = [f \in Flow |-> "none"]
    /\ pc = [f \in Flow |-> "idle"]
    /\ pendingByState = [st \in State |-> None]
    /\ stateByServer = [m \in McpServer |-> None]
    /\ closing = [c \in Flow \cup Closer |-> None]

FlowStep(f) == Start(f) \/ Listened(f) \/ TimedOut(f) \/ StartClosed(f) \/ Drained(f)

Next ==
    \/ \E f \in Flow : FlowStep(f)
    \/ \E m \in McpServer : Cancel(m)
    \/ \E c \in Closer : Close(c) \/ Closed(c)
    \/ \E l \in Flow, st \in State, answer \in Answer : Request(l, st, answer)

Spec == Init /\ [][Next]_vars

-----------------------------------------------------------------------------
(***************************************************************************)
(* Properties.                                                             *)
(***************************************************************************)

TypeOK ==
    /\ server \in Flow \cup {None}
    /\ current \in Address
    /\ socket \in [Flow -> Socket]
    /\ pc \in [Flow -> Step]
    /\ pendingByState \in [State -> Flow \cup {None}]
    /\ stateByServer \in [McpServer -> State \cup {None}]
    /\ closing \in [Flow \cup Closer -> Flow \cup {None}]

\* The server a flow may rely on without starting one listens: it is not one that
\* failed to, or that was closed (startEffect, stopIfIdle, closeEffect).
ServerListens == server # None => socket[server] = "bound"

\* What is registered for a state waits, for that state: no answer is given to a
\* flow that has timed out, was cancelled or rejected.
PendingFlowsWait ==
    \A st \in Pending : pc[pendingByState[st]] = "waiting" /\ StateOf[pendingByState[st]] = st

\* A flow that waits is the one registered for its state, so that an answer, cancel
\* or close still reaches it, if no two flows wait for one state.
WaitIsPending ==
    \A f \in Flow : pc[f] = "waiting" =>
        \/ pendingByState[StateOf[f]] = f
        \/ \E g \in Flow \ {f} : StateOf[g] = StateOf[f]

\* While a flow waits there is a server to answer it, or a close that will reject
\* it: the listener never stops under a wait (stopIfIdle).
WaitHasListener ==
    Pending # {} => server # None \/ \E c \in Flow \cup Closer : closing[c] # None

\* cancel never takes the state of an ended wait for the one to cancel.
CancelFindsWait ==
    \A m \in McpServer : stateByServer[m] # None =>
        /\ stateByServer[m] \in Pending
        /\ ServerOf[pendingByState[stateByServer[m]]] = m

\* How far a flow is from the end of its wait, at most.
StepsLeft(step) ==
    CASE step = "idle" -> 4
      [] step = "closing" -> 3
      [] step = "listening" -> 2
      [] step = "waiting" -> 1
      [] OTHER -> 0

\* Of an answer, a refusal, a cancel, a timeout and a close, one ends a wait, and
\* none that comes later changes what its flow was told; nor does any of them reach
\* a flow that has yet to wait (waitForResultEffect, handleRequest, closeEffect).
WaitsEndOnce ==
    [][\A f \in Flow : pc'[f] # pc[f] => StepsLeft(pc'[f]) < StepsLeft(pc[f])]_vars

\* The inductive invariant behind the properties above.
CallbackInv ==
    /\ TypeOK
    /\ ServerListens
    /\ PendingFlowsWait
    /\ WaitIsPending
    /\ WaitHasListener
    /\ CancelFindsWait
=============================================================================
