----------------------------- MODULE Subscriptions -----------------------------
(***************************************************************************)
(* Resource subscriptions of a manager (src/src/manager.ts) for one        *)
(* resource of one server: calls of subscribe and unsubscribe, the record  *)
(* they share, and the server's clients, which come and go meanwhile.      *)
(* Other resources have records of their own.                              *)
(*                                                                         *)
(* A modern server answers listen with a subscription of its own, which    *)
(* carries the name of the call here; a legacy one subscribes a client, or *)
(* does not.  Requests may reach the server in another order than they     *)
(* were sent in, and an answer may be lost.  SDK and server are external.  *)
(* Clients come one after another here: that an authentication stores its  *)
(* client over another's is left to ManagerAuth.                           *)
(***************************************************************************)
EXTENDS Naturals

CONSTANTS
    Subscribe,      \* calls of subscribeResource
    Unsubscribe,    \* calls of unsubscribeResource
    MaxClient,      \* bound: clients that the server gets, one after another
    None            \* undefined

ASSUME SubscriptionsAssumption ==
    /\ Subscribe \cap Unsubscribe = {}
    /\ None \notin Subscribe
    /\ MaxClient \in Nat

VARIABLES
    client,     \* the stored client, or 0
    connecting, \* whether an attempt to connect is between its sweep and its store
    last,       \* the newest client
    modern,     \* the clients that negotiated the modern protocol
    record,     \* resourceSubscriptions: the call that made the record, or None
    pc,         \* where each call is
    of,         \* the client each call uses
    target,     \* the subscription an unsubscribe cancels
    live,       \* the subscriptions the server has
    crossed,    \* history: subscribes that overlapped an unsubscribe's request
    doubled,    \* history: subscribes that overlapped one another
    overtaken,  \* history: subscribes whose client was swept while they were in flight
    lost        \* history: subscriptions of failed requests

state == <<client, connecting, last, modern>>
history == <<crossed, doubled, overtaken, lost>>
vars == <<state, record, pc, of, target, live, history>>

-----------------------------------------------------------------------------

Client == 1..MaxClient

InFlight == {s \in Subscribe : pc[s] \in {"requested", "served"}}

\* What a subscribe makes at the server: its own subscription, or its client's.
Made(s) == IF of[s] \in modern THEN <<of[s], s>> ELSE <<of[s], None>>

\* subscribedResources shows the resource.
Shown == record # None /\ of[record] = client

\* Mutant: the records of the client before stay.
SweepNothing ==
    /\ client' = 0
    /\ live' = {l \in live : l[1] # client}
    /\ overtaken' = overtaken \cup InFlight
    /\ UNCHANGED record

\* closeResourceSubscriptionsEffect, then the closing of the client, with which the
\* server's subscriptions of it end.
Sweep ==
    /\ record' = None
    /\ client' = 0
    /\ live' = {l \in live : l[1] # client}
    /\ overtaken' = overtaken \cup InFlight

-----------------------------------------------------------------------------
(***************************************************************************)
(* Clients.                                                                *)
(***************************************************************************)

\* disconnectClientEffect, to connect anew.
ConnectBegin ==
    /\ last < MaxClient
    /\ ~connecting
    /\ Sweep
    /\ connecting' = TRUE
    /\ UNCHANGED <<last, modern, pc, of, target, crossed, doubled, lost>>

\* The attempt stores its client, or fails.  The client before has closed by then,
\* which ended its requests.
ConnectEnd ==
    /\ connecting
    /\ connecting' = FALSE
    /\ \/ /\ InFlight = {}
          /\ last' = last + 1
          /\ client' = last + 1
          /\ modern' \in {modern, modern \cup {last + 1}}
       \/ UNCHANGED <<client, last, modern>>
    /\ UNCHANGED <<record, pc, of, target, live, history>>

\* disconnect, initialize or close.
Disconnect ==
    /\ Sweep
    /\ UNCHANGED <<connecting, last, modern, pc, of, target, crossed, doubled, lost>>

\* handleClientClosedEffect, and a refresh that finds a collision: the client is
\* gone, its record stays.
ClientClosed ==
    /\ client # 0
    /\ client' = 0
    /\ live' = {l \in live : l[1] # client}
    /\ UNCHANGED <<connecting, last, modern, record, pc, of, target, history>>

-----------------------------------------------------------------------------
(***************************************************************************)
(* Calls.                                                                  *)
(***************************************************************************)

\* Mutant: the client is not looked up first.
SubscribeUnconnected(s) ==
    /\ pc[s] = "idle"
    /\ record = None
    /\ pc' = [pc EXCEPT ![s] = "requested"]
    /\ of' = [of EXCEPT ![s] = client]
    /\ UNCHANGED <<state, record, target, live, history>>

\* A subscribe asks the stored client, unless there is a record already.
SubscribeBegin(s) ==
    /\ pc[s] = "idle"
    /\ client # 0
    /\ IF record # None
       THEN pc' = [pc EXCEPT ![s] = "returned"] /\ UNCHANGED <<of, crossed, doubled>>
       ELSE /\ pc' = [pc EXCEPT ![s] = "requested"]
            /\ of' = [of EXCEPT ![s] = client]
            /\ crossed' = IF \E u \in Unsubscribe : pc[u] = "requested" THEN crossed \cup {s} ELSE crossed
            /\ doubled' = IF InFlight = {} THEN doubled ELSE doubled \cup InFlight \cup {s}
    /\ UNCHANGED <<state, record, target, live, overtaken, lost>>

\* The server subscribes the client.
Served(s) ==
    /\ pc[s] = "requested"
    /\ of[s] = client
    /\ pc' = [pc EXCEPT ![s] = "served"]
    /\ live' = live \cup {Made(s)}
    /\ UNCHANGED <<state, record, of, target, history>>

\* The request fails, is aborted or times out.  A modern subscription ends with its
\* request; a legacy server may have served it.
SubscribeFails(s) ==
    /\ pc[s] \in {"requested", "served"}
    /\ pc' = [pc EXCEPT ![s] = "failed"]
    /\ IF pc[s] = "served" /\ of[s] \in modern
       THEN live' = live \ {Made(s)} /\ UNCHANGED lost
       ELSE lost' = lost \cup {Made(s)} /\ UNCHANGED live
    /\ UNCHANGED <<state, record, of, target, crossed, doubled, overtaken>>

\* The answer arrives, and the subscription is recorded, whatever is recorded or
\* stored by now.
Recorded(s) ==
    /\ pc[s] = "served"
    /\ pc' = [pc EXCEPT ![s] = "recorded"]
    /\ record' = s
    /\ UNCHANGED <<state, of, target, live, history>>

\* Mutant: only legacy servers are asked.
UnsubscribeForgets(u) ==
    /\ pc[u] = "idle"
    /\ record' = None
    /\ IF Shown /\ of[record] \notin modern
       THEN /\ pc' = [pc EXCEPT ![u] = "requested"]
            /\ of' = [of EXCEPT ![u] = of[record]]
            /\ target' = [target EXCEPT ![u] = Made(record)]
            /\ crossed' = crossed \cup InFlight
       ELSE pc' = [pc EXCEPT ![u] = "returned"] /\ UNCHANGED <<of, target, crossed>>
    /\ UNCHANGED <<state, live, doubled, overtaken, lost>>

\* An unsubscribe deletes the record, then asks: the subscription, which closes, or
\* the client, if it is still the stored one.
UnsubscribeBegin(u) ==
    /\ pc[u] = "idle"
    /\ record' = None
    /\ IF record # None /\ (of[record] \in modern \/ Shown)
       THEN /\ pc' = [pc EXCEPT ![u] = "requested"]
            /\ of' = [of EXCEPT ![u] = of[record]]
            /\ target' = [target EXCEPT ![u] = Made(record)]
            /\ crossed' = crossed \cup InFlight
       ELSE pc' = [pc EXCEPT ![u] = "returned"] /\ UNCHANGED <<of, target, crossed>>
    /\ UNCHANGED <<state, live, doubled, overtaken, lost>>

\* The server ends the subscription, or the request fails, before that or after it.
Unsubscribed(u) ==
    /\ pc[u] = "requested"
    /\ pc' = [pc EXCEPT ![u] = "returned"]
    /\ \/ live' = live \ {target[u]} /\ UNCHANGED lost
       \/ lost' = lost \cup {target[u]} /\ UNCHANGED live
    /\ UNCHANGED <<state, record, of, target, crossed, doubled, overtaken>>

-----------------------------------------------------------------------------

Init ==
    /\ client = 0
    /\ connecting = FALSE
    /\ last = 0
    /\ modern = {}
    /\ record = None
    /\ pc = [c \in Subscribe \cup Unsubscribe |-> "idle"]
    /\ of = [c \in Subscribe \cup Unsubscribe |-> 0]
    /\ target = [u \in Unsubscribe |-> <<0, None>>]
    /\ live = {}
    /\ crossed = {} /\ doubled = {} /\ overtaken = {} /\ lost = {}

Next ==
    \/ ConnectBegin \/ ConnectEnd \/ Disconnect \/ ClientClosed
    \/ \E s \in Subscribe : SubscribeBegin(s) \/ Served(s) \/ SubscribeFails(s) \/ Recorded(s)
    \/ \E u \in Unsubscribe : UnsubscribeBegin(u) \/ Unsubscribed(u)

Spec == Init /\ [][Next]_vars

-----------------------------------------------------------------------------
(***************************************************************************)
(* Properties.                                                             *)
(***************************************************************************)

\* The type of the state; a call that asks the server has a client to ask.
TypeOK ==
    /\ client \in 0..MaxClient /\ last \in 0..MaxClient
    /\ connecting \in BOOLEAN
    /\ modern \subseteq Client
    /\ record \in Subscribe \cup {None}
    /\ pc \in [Subscribe \cup Unsubscribe ->
                  {"idle", "requested", "served", "recorded", "returned", "failed"}]
    /\ of \in [Subscribe \cup Unsubscribe -> 0..MaxClient]
    /\ target \in [Unsubscribe -> (0..MaxClient) \X (Subscribe \cup {None})]
    /\ \A s \in InFlight : of[s] \in Client
    /\ live \subseteq Client \X (Subscribe \cup {None})

\* A record that a later subscribe finds is of the client that subscribe would ask.
\* Only a subscribe that a connect or disconnect overtook leaves another: the server
\* then goes without the subscription, and subscribe says nothing.
RecordsAreCurrent ==
    record # None /\ client # 0 /\ of[record] # client => record \in overtaken

\* The resource is shown as subscribed only while the server has the subscription,
\* but when an unsubscribe and a subscribe were in flight at once.
ShownIsLive ==
    Shown => Made(record) \in live \/ record \in crossed

\* What is recorded agrees with the server, and with the client that is stored.
RecordsAgree == RecordsAreCurrent /\ ShownIsLive

\* A subscription is the recorded one, or a call about it is in flight, or a request
\* about it failed, or two modern subscribes overlapped, of which the later record took
\* the place of the other.
Known(l) ==
    \/ record # None /\ l = Made(record)
    \/ \E s \in Subscribe : l = Made(s) /\ (pc[s] = "served" \/ (s \in doubled /\ of[s] \in modern))
    \/ \E u \in Unsubscribe : pc[u] = "requested" /\ target[u] = l
    \/ l \in lost

\* The server keeps no other subscription: one that nobody could cancel.
LiveIsKnown == \A l \in live : Known(l)
=============================================================================
