------------------------------- MODULE ClientMap -------------------------------
(***************************************************************************)
(* What McpManager promises of its map of clients (src/src/manager.ts,     *)
(* `clients`), to those who look a server's client up: each client is      *)
(* asked for once, is kept at most once and only where none is, for the    *)
(* generation it was asked for, while the manager is open and the server   *)
(* wanted; it may be lost at any time, and never returns.                  *)
(***************************************************************************)
EXTENDS Naturals

CONSTANTS
    Server,     \* the servers
    Client,     \* names of the clients of one server
    None        \* no client

VARIABLES
    open,       \* is the manager open?
    generation, \* how often it was initialized or closed
    clearing,   \* the initialize and close calls that have yet to empty the map
    out,        \* the servers that the user disconnected
    held,       \* the map
    ask         \* how each client stands, and the generation it was asked for

Ask == [state : {"new", "pending", "over"}, for : Nat]

Pending(s) == \E n \in Client : ask[s][n].state = "pending"

Init ==
    /\ open = TRUE /\ generation = 0 /\ clearing = {} /\ out = {}
    /\ held = [s \in Server |-> None]
    /\ ask = [s \in Server |-> [n \in Client |-> [state |-> "new", for |-> 0]]]

\* The servers of S are asked for a client, in place of the one they have, and
\* some that were disconnected may have one again.  A server has one request at a time.
Request(S) ==
    /\ UNCHANGED <<open, generation, clearing>>
    /\ out' \in SUBSET out
    /\ held' = [s \in Server |-> IF s \in S THEN None ELSE held[s]]
    /\ \A s \in S : ~Pending(s)
    /\ \E n \in [S -> Client] :
          /\ \A s \in S : ask[s][n[s]].state = "new"
          /\ ask' = [s \in Server |-> IF s \in S
                        THEN [ask[s] EXCEPT ![n[s]] = [state |-> "pending", for |-> generation]]
                        ELSE ask[s]]

Keep(s, n) ==
    /\ open /\ s \notin out /\ held[s] = None
    /\ held' = [held EXCEPT ![s] = n]
    /\ ask[s][n] = [state |-> "pending", for |-> generation]
    /\ ask' = [ask EXCEPT ![s][n].state = "over"]
    /\ UNCHANGED <<open, generation, clearing, out>>

\* The requests in P come to nothing.
GiveUp(P) ==
    /\ UNCHANGED <<open, generation, clearing, out, held>>
    /\ ask' = [s \in Server |-> [n \in Client |->
                 IF <<s, n>> \in P THEN [ask[s][n] EXCEPT !.state = "over"] ELSE ask[s][n]]]

Lose(s) ==
    /\ held' = [held EXCEPT ![s] = None]
    /\ UNCHANGED <<open, generation, clearing, out, ask>>

Forbid(s) ==
    /\ out' = out \cup {s}
    /\ held' = [held EXCEPT ![s] = None]
    /\ UNCHANGED <<open, generation, clearing, ask>>

\* initialize and close first end the generation, and later empty the map.
Begin(op) ==
    /\ open' = (op = "initialize")
    /\ generation' = generation + 1
    /\ clearing' = clearing \cup {op}
    /\ UNCHANGED <<out, held, ask>>

Clear(op) ==
    /\ op \in clearing
    /\ clearing' = clearing \ {op}
    /\ held' = [s \in Server |-> None]
    /\ UNCHANGED <<open, generation, out, ask>>

Asked == {p \in Server \X Client : ask[p[1]][p[2]].state = "pending"}

Next ==
    \/ \E op \in {"initialize", "close"} : Begin(op) \/ Clear(op)
    \/ \E s \in Server : Lose(s) \/ Forbid(s)
    \/ \E s \in Server, n \in Client : Keep(s, n)
    \/ \E S \in SUBSET Server : Request(S)
    \/ \E P \in SUBSET Asked : GiveUp(P)

Spec == Init /\ [][Next]_<<open, generation, clearing, out, held, ask>>
=============================================================================
