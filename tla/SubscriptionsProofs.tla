-------------------------- MODULE SubscriptionsProofs --------------------------
(* Theorems of Subscriptions. *)
EXTENDS Subscriptions, TLAPS

CallType ==
    pc \in [Subscribe \cup Unsubscribe ->
               {"idle", "requested", "served", "recorded", "returned", "failed"}]

ClientType ==
    /\ client \in 0..MaxClient /\ last \in 0..MaxClient
    /\ connecting \in BOOLEAN
    /\ client <= last
    /\ connecting => last < MaxClient
    /\ modern \subseteq Client

RecordType ==
    /\ record \in Subscribe \cup {None}
    /\ record # None => pc[record] = "recorded"

OfType == of \in [Subscribe \cup Unsubscribe -> 0..MaxClient]

\* A call past its first step asks a client.
AskedType == \A s \in Subscribe : pc[s] \in {"requested", "served", "recorded"} => of[s] \in Client

TargetType == target \in [Unsubscribe -> (0..MaxClient) \X (Subscribe \cup {None})]

LiveType == live \subseteq Client \X (Subscribe \cup {None})

Types == CallType /\ ClientType /\ RecordType /\ OfType /\ AskedType /\ TargetType /\ LiveType

\* The type invariant follows from the inductive one.
LEMMA TypesSuffice == Types => TypeOK
  BY DEF Types, TypeOK, CallType, ClientType, RecordType, OfType, AskedType, TargetType, LiveType, InFlight

\* The subscription of a call is named by its client.
LEMMA MadeType ==
    ASSUME Types, NEW s \in Subscribe, pc[s] \in {"requested", "served", "recorded"}
    PROVE  Made(s) \in Client \X (Subscribe \cup {None})
  BY DEF Types, AskedType, Made

-----------------------------------------------------------------------------

\* The types hold at first, and every step keeps them.
LEMMA TypesInit == Init => Types
<1> SUFFICES ASSUME Init PROVE Types
  OBVIOUS
<1> USE SubscriptionsAssumption DEF Init
<1>1. TargetType
  <2>1. <<0, None>> \in (0..MaxClient) \X (Subscribe \cup {None})
    OBVIOUS
  <2> QED BY <2>1 DEF TargetType
<1>2. CallType /\ RecordType /\ OfType
  BY DEF CallType, RecordType, OfType
<1>4. LiveType
  BY DEF LiveType
<1>5. ClientType
  <2>1. client \in 0..MaxClient /\ last \in 0..MaxClient /\ client <= last
    OBVIOUS
  <2>2. connecting \in BOOLEAN /\ ~connecting
    OBVIOUS
  <2> QED BY <2>1, <2>2 DEF ClientType
<1>3. AskedType
  BY DEF AskedType
<1> QED BY <1>1, <1>2, <1>3, <1>4, <1>5 DEF Types

LEMMA TypesNext == Types /\ [Next]_vars => Types'
<1> SUFFICES ASSUME Types, [Next]_vars PROVE Types'
  OBVIOUS
<1> USE SubscriptionsAssumption
<1> USE DEF Types, CallType, ClientType, RecordType, OfType, AskedType, TargetType, LiveType
<1>1. CASE ConnectBegin
  BY <1>1 DEF ConnectBegin, Sweep
<1>2. CASE ConnectEnd
  <2>1. /\ client' \in 0..MaxClient /\ last' \in 0..MaxClient /\ client' <= last'
        /\ modern' \subseteq Client /\ ~connecting'
    <3>1. CASE last' = last + 1
      <4>1. last \in Nat /\ last < MaxClient
        BY <1>2 DEF ConnectEnd
      <4>2. last + 1 \in 1..MaxClient /\ last + 1 # last
        BY <4>1
      <4>3. client' = last + 1 /\ modern' \in {modern, modern \cup {last + 1}}
        BY <1>2, <3>1, <4>2 DEF ConnectEnd
      <4>4. modern' \subseteq Client
        BY <4>2, <4>3 DEF Client
      <4>5. ~connecting' /\ last' \in 0..MaxClient /\ client' \in 0..MaxClient /\ client' <= last'
        BY <1>2, <3>1, <4>2, <4>3 DEF ConnectEnd
      <4> QED BY <4>4, <4>5
    <3>2. CASE last' # last + 1
      BY <1>2, <3>2 DEF ConnectEnd
    <3> QED BY <3>1, <3>2
  <2> QED BY <1>2, <2>1 DEF ConnectEnd, state
<1>3. CASE Disconnect
  BY <1>3 DEF Disconnect, Sweep
<1>4. CASE ClientClosed
  BY <1>4 DEF ClientClosed
<1>5. ASSUME NEW s \in Subscribe, SubscribeBegin(s) PROVE Types'
  BY <1>5 DEF SubscribeBegin, state, Client
<1>6. ASSUME NEW s \in Subscribe, Served(s) PROVE Types'
  <2>1. Made(s) \in Client \X (Subscribe \cup {None})
    BY <1>6, MadeType DEF Served
  <2> QED BY <1>6, <2>1 DEF Served, state
<1>7. ASSUME NEW s \in Subscribe, SubscribeFails(s) PROVE Types'
  BY <1>7 DEF SubscribeFails, state
<1>8. ASSUME NEW s \in Subscribe, Recorded(s) PROVE Types'
  BY <1>8 DEF Recorded, state
<1>9. ASSUME NEW u \in Unsubscribe, UnsubscribeBegin(u) PROVE Types'
  <2>1. record # None => Made(record) \in Client \X (Subscribe \cup {None})
    BY MadeType
  <2>2. record # None => of[record] \in 0..MaxClient
    OBVIOUS
  <2>3. TargetType'
    BY <1>9, <2>1 DEF UnsubscribeBegin, Client
  <2>4. OfType'
    BY <1>9, <2>2 DEF UnsubscribeBegin
  <2>5. CallType' /\ RecordType' /\ ClientType' /\ LiveType'
    BY <1>9 DEF UnsubscribeBegin, state
  <2>6. AskedType'
    BY <1>9 DEF UnsubscribeBegin
  <2> QED BY <2>3, <2>4, <2>5, <2>6
<1>10. ASSUME NEW u \in Unsubscribe, Unsubscribed(u) PROVE Types'
  BY <1>10 DEF Unsubscribed, state
<1>11. CASE UNCHANGED vars
  BY <1>11 DEF vars, state
<1> QED
  BY <1>1, <1>2, <1>3, <1>4, <1>5, <1>6, <1>7, <1>8, <1>9, <1>10, <1>11 DEF Next

\* The state of every subscription and call keeps its type, and a call that asks the
\* server has a client to ask.
THEOREM SubscriptionTypeCorrect == Spec => []TypeOK
<1>1. Types => TypeOK
  BY TypesSuffice
<1> QED
  BY TypesInit, TypesNext, <1>1, PTL DEF Spec
-----------------------------------------------------------------------------
(***************************************************************************)
(* A record of a client that is no more is made by a call that the sweep   *)
(* overtook: until the sweep, calls and records are of the stored client.  *)
(***************************************************************************)

\* The client a call or record was made for is the stored one, or is gone without an
\* attempt to connect anew having begun.
IsOfStored(s) == of[s] = client \/ (client = 0 /\ ~connecting)

CurrentInv ==
    /\ connecting => client = 0
    /\ \A s \in InFlight : s \in overtaken \/ IsOfStored(s)
    /\ record # None => record \in overtaken \/ IsOfStored(record)

LEMMA CurrentInit == Init => CurrentInv
  BY DEF Init, CurrentInv, InFlight, IsOfStored

LEMMA CurrentSuffices == CurrentInv => RecordsAreCurrent
  BY DEF CurrentInv, RecordsAreCurrent, IsOfStored

LEMMA CurrentNext == Types /\ CurrentInv /\ [Next]_vars => CurrentInv'
<1> SUFFICES ASSUME Types, CurrentInv, [Next]_vars PROVE CurrentInv'
  OBVIOUS
<1> USE SubscriptionsAssumption DEF CurrentInv, IsOfStored, InFlight
<1>0. /\ pc \in [Subscribe \cup Unsubscribe ->
                     {"idle", "requested", "served", "recorded", "returned", "failed"}]
      /\ of \in [Subscribe \cup Unsubscribe -> 0..MaxClient]
      /\ record # None => record \in Subscribe /\ pc[record] = "recorded" /\ of[record] \in Client
  BY DEF Types, CallType, OfType, RecordType, AskedType
<1>1. CASE ConnectBegin
  BY <1>0, <1>1 DEF ConnectBegin, Sweep
<1>2. CASE ConnectEnd
  <2>1. record # None => record \in overtaken
    BY <1>0, <1>2 DEF ConnectEnd, Client
  <2>2. CASE InFlight = {}
    BY <1>0, <1>2, <2>1, <2>2 DEF ConnectEnd, history
  <2>3. CASE UNCHANGED <<client, last, modern>>
    BY <1>0, <1>2, <2>1, <2>3 DEF ConnectEnd, history
  <2> QED BY <1>2, <2>2, <2>3 DEF ConnectEnd
<1>3. CASE Disconnect
  BY <1>0, <1>3 DEF Disconnect, Sweep
<1>4. CASE ClientClosed
  BY <1>0, <1>4 DEF ClientClosed, history
<1>5. ASSUME NEW s \in Subscribe, SubscribeBegin(s) PROVE CurrentInv'
  <2>1. /\ \A t \in Subscribe : t # s => pc'[t] = pc[t] /\ of'[t] = of[t]
        /\ pc'[s] = "requested" => of'[s] = client
        /\ pc'[s] \in {"requested", "returned"}
        /\ record # None => record # s
        /\ UNCHANGED <<client, connecting, record, overtaken>>
    BY <1>0, <1>5 DEF SubscribeBegin, state
  <2> QED BY <1>0, <2>1
<1>6. ASSUME NEW s \in Subscribe, Served(s) PROVE CurrentInv'
  BY <1>0, <1>6 DEF Served, state, history
<1>7. ASSUME NEW s \in Subscribe, SubscribeFails(s) PROVE CurrentInv'
  BY <1>0, <1>7 DEF SubscribeFails, state
<1>8. ASSUME NEW s \in Subscribe, Recorded(s) PROVE CurrentInv'
  BY <1>0, <1>8 DEF Recorded, state, history
<1>9. ASSUME NEW u \in Unsubscribe, UnsubscribeBegin(u) PROVE CurrentInv'
  <2>1. /\ \A t \in Subscribe : pc'[t] = pc[t] /\ of'[t] = of[t]
        /\ record' = None
        /\ UNCHANGED <<client, connecting, overtaken>>
    BY <1>0, <1>9 DEF UnsubscribeBegin, state
  <2> QED BY <2>1
<1>10. ASSUME NEW u \in Unsubscribe, Unsubscribed(u) PROVE CurrentInv'
  BY <1>0, <1>10 DEF Unsubscribed, state
<1>11. CASE UNCHANGED vars
  BY <1>11 DEF vars, state, history
<1> QED
  BY <1>1, <1>2, <1>3, <1>4, <1>5, <1>6, <1>7, <1>8, <1>9, <1>10, <1>11 DEF Next

\* The record of a resource is of the stored client, unless a connect or disconnect
\* overtook the subscribe that made it.
LEMMA RecordsStayCurrent == Spec => []RecordsAreCurrent
  BY TypesInit, TypesNext, CurrentInit, CurrentNext, CurrentSuffices, PTL DEF Spec

-----------------------------------------------------------------------------
(***************************************************************************)
(* What is shown is live: as long as an unsubscribe's request is under     *)
(* way, every subscribe in flight and every record is known to cross it,   *)
(* and no other step ends a subscription of the stored client.             *)
(***************************************************************************)

ShownInv ==
    /\ \A s \in InFlight : pc[s] = "served" /\ of[s] = client => Made(s) \in live \/ s \in crossed
    /\ \A u \in Unsubscribe : pc[u] = "requested" =>
           InFlight \subseteq crossed /\ (record # None => record \in crossed)
    /\ \A s \in InFlight : of[s] <= last
    /\ record # None => of[record] <= last
    /\ ShownIsLive

LEMMA ShownInit == Init => ShownInv
  BY SubscriptionsAssumption DEF Init, ShownInv, InFlight, ShownIsLive, Shown

LEMMA ShownNext == Types /\ ShownInv /\ [Next]_vars => ShownInv'
<1> SUFFICES ASSUME Types, ShownInv, [Next]_vars PROVE ShownInv'
  OBVIOUS
<1> USE SubscriptionsAssumption DEF ShownInv, ShownIsLive, Shown, InFlight
<1>0. /\ pc \in [Subscribe \cup Unsubscribe ->
                     {"idle", "requested", "served", "recorded", "returned", "failed"}]
      /\ of \in [Subscribe \cup Unsubscribe -> 0..MaxClient]
      /\ record # None => record \in Subscribe /\ pc[record] = "recorded" /\ of[record] \in Client
      /\ \A s \in Subscribe : pc[s] = "served" => of[s] \in Client
      /\ 0 \notin Client
  BY DEF Types, CallType, OfType, RecordType, AskedType, Client
<1>1. CASE ConnectBegin
  BY <1>0, <1>1 DEF ConnectBegin, Sweep
<1>2. CASE ConnectEnd
  <2>1. UNCHANGED <<record, pc, of, live, crossed>>
    BY <1>2 DEF ConnectEnd, history
  <2>2. CASE UNCHANGED <<client, last, modern>>
    BY <1>0, <2>1, <2>2 DEF Made
  <2>3. CASE InFlight = {} /\ last' = last + 1 /\ client' = last + 1
    <3>1. last \in Nat /\ (record # None => of[record] \in Nat)
      BY <1>0 DEF Types, ClientType
    <3>2. record # None => of'[record'] # client' /\ of'[record'] <= last'
      BY <2>1, <2>3, <3>1
    <3>3. InFlight' = {}
      BY <2>1, <2>3
    <3> QED BY <1>0, <2>1, <3>2, <3>3
  <2> QED BY <1>2, <2>2, <2>3 DEF ConnectEnd
<1>3. CASE Disconnect
  BY <1>0, <1>3 DEF Disconnect, Sweep
<1>4. CASE ClientClosed
  BY <1>0, <1>4 DEF ClientClosed, history
<1>5. ASSUME NEW s \in Subscribe, SubscribeBegin(s) PROVE ShownInv'
  <2>1. /\ \A t \in Subscribe : t # s => pc'[t] = pc[t] /\ of'[t] = of[t]
        /\ \A u \in Unsubscribe : pc'[u] = pc[u]
        /\ pc'[s] = "requested" => of'[s] = client
        /\ pc'[s] \in {"requested", "returned"}
        /\ record # None => record # s
        /\ UNCHANGED <<client, last, modern, record, live>>
    BY <1>0, <1>5 DEF SubscribeBegin, state
  <2>2. /\ crossed \subseteq crossed'
        /\ (\E u \in Unsubscribe : pc[u] = "requested") /\ pc'[s] = "requested" => s \in crossed'
    BY <1>0, <1>5 DEF SubscribeBegin
  <2>3. client <= last
    BY DEF Types, ClientType
  <2>4. \A t \in Subscribe : t # s => Made(t)' = Made(t)
    BY <2>1 DEF Made
  <2> QED BY <1>0, <2>1, <2>2, <2>3, <2>4
<1>6. ASSUME NEW s \in Subscribe, Served(s) PROVE ShownInv'
  <2>1. /\ \A t \in Subscribe : Made(t)' = Made(t)
        /\ live' = live \cup {Made(s)}
    BY <1>6 DEF Served, Made, state
  <2> QED BY <1>0, <1>6, <2>1 DEF Served, state, history
<1>7. ASSUME NEW s \in Subscribe, SubscribeFails(s) PROVE ShownInv'
  <2>1. \A t \in Subscribe : t # s => Made(t)' = Made(t) /\ (Made(t) \in live => Made(t) \in live')
    BY <1>7 DEF SubscribeFails, Made, state
  <2>2. /\ \A t \in Subscribe : t # s => pc'[t] = pc[t]
        /\ \A u \in Unsubscribe : pc'[u] = pc[u]
        /\ pc'[s] = "failed" /\ (record # None => record # s)
        /\ UNCHANGED <<client, last, record, of, crossed>>
    BY <1>0, <1>7 DEF SubscribeFails, state
  <2> QED BY <1>0, <2>1, <2>2
<1>8. ASSUME NEW s \in Subscribe, Recorded(s) PROVE ShownInv'
  <2>1. \A t \in Subscribe : Made(t)' = Made(t)
    BY <1>8 DEF Recorded, Made, state
  <2> QED BY <1>0, <1>8, <2>1 DEF Recorded, state, history
<1>9. ASSUME NEW u \in Unsubscribe, UnsubscribeBegin(u) PROVE ShownInv'
  <2>1. /\ \A t \in Subscribe : pc'[t] = pc[t] /\ of'[t] = of[t]
        /\ \A v \in Unsubscribe : v # u => pc'[v] = pc[v]
        /\ record' = None
        /\ UNCHANGED <<client, last, modern, live>>
    BY <1>0, <1>9 DEF UnsubscribeBegin, state
  <2>2. crossed \subseteq crossed' /\ (pc'[u] = "requested" => InFlight \subseteq crossed')
    BY <1>0, <1>9 DEF UnsubscribeBegin
  <2>3. \A t \in Subscribe : Made(t)' = Made(t)
    BY <2>1 DEF Made
  <2> QED BY <2>1, <2>2, <2>3
<1>10. ASSUME NEW u \in Unsubscribe, Unsubscribed(u) PROVE ShownInv'
  <2>1. /\ \A t \in Subscribe : pc'[t] = pc[t]
        /\ \A v \in Unsubscribe : pc'[v] = "requested" => pc[v] = "requested"
        /\ UNCHANGED <<client, last, record, of, crossed>>
    BY <1>0, <1>10 DEF Unsubscribed, state
  <2>2. InFlight \subseteq crossed /\ (record # None => record \in crossed)
    BY <1>10 DEF Unsubscribed
  <2> QED BY <1>0, <2>1, <2>2
<1>11. CASE UNCHANGED vars
  BY <1>0, <1>11 DEF vars, state, history, Made
<1> QED
  BY <1>1, <1>2, <1>3, <1>4, <1>5, <1>6, <1>7, <1>8, <1>9, <1>10, <1>11 DEF Next

\* What is recorded agrees with the stored client and with the server: unless a connect
\* or disconnect overtook the subscribe that made the record, or an unsubscribe and a
\* subscribe were in flight at once.
THEOREM RecordsStayInAgreement == Spec => []RecordsAgree
<1>1. ShownInv /\ RecordsAreCurrent => RecordsAgree
  BY DEF ShownInv, RecordsAgree
<1> QED
  BY TypesInit, TypesNext, ShownInit, ShownNext, RecordsStayCurrent, <1>1, PTL DEF Spec

-----------------------------------------------------------------------------
(***************************************************************************)
(* What is live is known: the subscriptions are of the stored client, and  *)
(* a subscribe that is in flight beside a record overlapped its subscribe. *)
(***************************************************************************)

LiveOfStored ==
    /\ \A l \in live : l[1] = client /\ client # 0
    /\ connecting => client = 0
    /\ \A s \in InFlight : client = 0 \/ of[s] = client

Overlapped ==
    /\ \A s, t \in InFlight : s # t => s \in doubled
    /\ record # None => \A s \in InFlight : s \in doubled /\ record \in doubled
    /\ \A s \in Subscribe : s \in doubled => pc[s] # "idle"

KnownInv == LiveOfStored /\ Overlapped /\ LiveIsKnown

LEMMA KnownInit == Init => KnownInv
  BY SubscriptionsAssumption
     DEF Init, KnownInv, LiveOfStored, Overlapped, LiveIsKnown, InFlight

\* A step that leaves nothing live.
LEMMA NothingLive ==
    ASSUME live' = {}, UNCHANGED <<record, pc, doubled>> \/ (record' = None /\ UNCHANGED <<pc, doubled>>),
           connecting' => client' = 0, \A s \in InFlight' : client' = 0 \/ of'[s] = client', Overlapped
    PROVE  KnownInv'
<1>1. LiveOfStored'
  BY DEF LiveOfStored
<1>2. Overlapped'
  BY DEF Overlapped, InFlight
<1>3. LiveIsKnown'
  BY DEF LiveIsKnown
<1> QED BY <1>1, <1>2, <1>3 DEF KnownInv

LEMMA KnownNext == Types /\ KnownInv /\ [Next]_vars => KnownInv'
<1> SUFFICES ASSUME Types, KnownInv, [Next]_vars PROVE KnownInv'
  OBVIOUS
<1> USE SubscriptionsAssumption DEF KnownInv
<1>0. /\ pc \in [Subscribe \cup Unsubscribe ->
                     {"idle", "requested", "served", "recorded", "returned", "failed"}]
      /\ of \in [Subscribe \cup Unsubscribe -> 0..MaxClient]
      /\ record \in Subscribe \cup {None}
      /\ record # None => pc[record] = "recorded"
      /\ target \in [Unsubscribe -> (0..MaxClient) \X (Subscribe \cup {None})]
  BY DEF Types, CallType, OfType, RecordType, TargetType
<1>1. CASE ConnectBegin \/ Disconnect
  <2>1. live' = {} /\ record' = None /\ client' = 0 /\ UNCHANGED <<pc, doubled>>
    BY <1>1 DEF ConnectBegin, Disconnect, Sweep, LiveOfStored
  <2> QED BY <2>1, NothingLive
<1>2. CASE ClientClosed
  <2>1. live' = {} /\ client' = 0 /\ UNCHANGED <<record, pc, doubled>>
    BY <1>2 DEF ClientClosed, LiveOfStored, history
  <2> QED BY <2>1, NothingLive
<1>3. CASE ConnectEnd
  <2>1. live' = {} /\ ~connecting' /\ UNCHANGED <<record, pc, of, doubled>>
    BY <1>3 DEF ConnectEnd, LiveOfStored, history
  <2>2. InFlight = {} \/ client' = client
    BY <1>3 DEF ConnectEnd
  <2>3. \A s \in InFlight' : client' = 0 \/ of'[s] = client'
    BY <2>1, <2>2 DEF LiveOfStored, InFlight
  <2> QED BY <2>1, <2>3, NothingLive
<1>4. ASSUME NEW s \in Subscribe, SubscribeBegin(s) PROVE KnownInv'
  <2>1. /\ \A t \in Subscribe : t # s => pc'[t] = pc[t] /\ of'[t] = of[t]
        /\ \A u \in Unsubscribe : pc'[u] = pc[u]
        /\ pc[s] = "idle" /\ pc'[s] \in {"requested", "returned"}
        /\ pc'[s] = "requested" => of'[s] = client /\ record = None
        /\ UNCHANGED <<client, connecting, modern, record, live, target, lost>>
    BY <1>0, <1>4 DEF SubscribeBegin, state
  <2>2. /\ doubled \subseteq doubled' /\ doubled' \subseteq doubled \cup InFlight \cup {s}
        /\ pc'[s] = "requested" /\ InFlight # {} => InFlight \cup {s} \subseteq doubled'
    BY <1>0, <1>4 DEF SubscribeBegin
  <2>3. LiveOfStored'
    BY <2>1 DEF LiveOfStored, InFlight
  <2>4. Overlapped'
    BY <1>0, <2>1, <2>2 DEF Overlapped, InFlight
  <2>5. \A t \in Subscribe : t # s => Made(t)' = Made(t)
    BY <2>1 DEF Made
  <2>6. ASSUME NEW l \in live PROVE Known(l)'
    BY <1>0, <2>1, <2>2, <2>5 DEF LiveIsKnown, Known, Overlapped
  <2> QED BY <2>1, <2>3, <2>4, <2>6 DEF LiveIsKnown
<1>5. ASSUME NEW s \in Subscribe, Served(s) PROVE KnownInv'
  <2>1. /\ pc' = [pc EXCEPT ![s] = "served"] /\ pc[s] = "requested"
        /\ live' = live \cup {Made(s)}
        /\ UNCHANGED <<client, connecting, modern, record, of, target, doubled, lost>>
    BY <1>5 DEF Served, state, history
  <2>2. \A t \in Subscribe : Made(t)' = Made(t)
    BY <2>1 DEF Made
  <2>3. Made(s)[1] = client /\ client # 0
    BY <1>0, <1>5 DEF Served, Made, Types, AskedType, Client
  <2>4. LiveOfStored'
    BY <1>0, <2>1, <2>3 DEF LiveOfStored, InFlight
  <2>5. Overlapped'
    BY <1>0, <2>1 DEF Overlapped, InFlight
  <2>6. ASSUME NEW l \in live' PROVE Known(l)'
    BY <1>0, <2>1, <2>2 DEF LiveIsKnown, Known
  <2> QED BY <2>4, <2>5, <2>6 DEF LiveIsKnown
<1>6. ASSUME NEW s \in Subscribe, SubscribeFails(s) PROVE KnownInv'
  <2>1. /\ pc' = [pc EXCEPT ![s] = "failed"] /\ pc[s] \in {"requested", "served"}
        /\ live' \subseteq live /\ lost \subseteq lost' /\ (Made(s) \in live' => Made(s) \in lost')
        /\ UNCHANGED <<client, connecting, modern, record, of, target, doubled>>
    BY <1>6 DEF SubscribeFails, state
  <2>2. \A t \in Subscribe : Made(t)' = Made(t)
    BY <2>1 DEF Made
  <2>3. LiveOfStored'
    BY <1>0, <2>1 DEF LiveOfStored, InFlight
  <2>4. Overlapped'
    BY <1>0, <2>1 DEF Overlapped, InFlight
  <2>5. ASSUME NEW l \in live' PROVE Known(l)'
    BY <1>0, <2>1, <2>2 DEF LiveIsKnown, Known
  <2> QED BY <2>3, <2>4, <2>5 DEF LiveIsKnown
<1>7. ASSUME NEW s \in Subscribe, Recorded(s) PROVE KnownInv'
  <2>1. /\ pc' = [pc EXCEPT ![s] = "recorded"] /\ pc[s] = "served" /\ record' = s
        /\ UNCHANGED <<client, connecting, modern, of, live, target, doubled, lost>>
    BY <1>7 DEF Recorded, state, history
  <2>2. \A t \in Subscribe : Made(t)' = Made(t)
    BY <2>1 DEF Made
  <2>3. LiveOfStored'
    BY <1>0, <2>1 DEF LiveOfStored, InFlight
  <2>4. Overlapped'
    BY <1>0, <2>1 DEF Overlapped, InFlight
  <2>5. ASSUME NEW l \in live PROVE Known(l)'
    <3>1. CASE record # None /\ l = Made(record)
      <4>1. record \in Subscribe /\ record \in doubled
        BY <1>0, <2>1, <3>1 DEF Overlapped, InFlight
      <4>2. CASE of[record] \in modern
        BY <2>1, <2>2, <3>1, <4>1, <4>2 DEF Known
      <4>3. CASE of[record] \notin modern
        <5>1. of[record] = client /\ client # 0
          BY <3>1, <4>3 DEF LiveOfStored, Made
        <5>2. of[s] = client
          BY <2>1, <5>1 DEF LiveOfStored, InFlight
        <5>3. Made(s) = l
          BY <3>1, <4>3, <5>1, <5>2 DEF Made
        <5> QED BY <1>0, <2>1, <2>2, <5>3, SubscriptionsAssumption DEF Known
      <4> QED BY <4>2, <4>3
    <3>2. CASE ~(record # None /\ l = Made(record))
      BY <1>0, <2>1, <2>2, <3>2 DEF LiveIsKnown, Known
    <3> QED BY <3>1, <3>2
  <2> QED BY <2>1, <2>3, <2>4, <2>5 DEF LiveIsKnown
<1>8. ASSUME NEW u \in Unsubscribe, UnsubscribeBegin(u) PROVE KnownInv'
  <2>1. /\ \A t \in Subscribe : pc'[t] = pc[t] /\ of'[t] = of[t]
        /\ \A v \in Unsubscribe : v # u => pc'[v] = pc[v] /\ target'[v] = target[v]
        /\ pc[u] = "idle" /\ record' = None
        /\ UNCHANGED <<client, connecting, modern, live, doubled, lost>>
    BY <1>0, <1>8 DEF UnsubscribeBegin, state
  <2>2. record # None /\ (of[record] \in modern \/ of[record] = client)
          => pc'[u] = "requested" /\ target'[u] = Made(record)
    BY <1>0, <1>8 DEF UnsubscribeBegin, Shown
  <2>3. \A t \in Subscribe : Made(t)' = Made(t)
    BY <2>1 DEF Made
  <2>4. LiveOfStored'
    BY <2>1 DEF LiveOfStored, InFlight
  <2>5. Overlapped'
    BY <2>1 DEF Overlapped, InFlight
  <2>6. ASSUME NEW l \in live PROVE Known(l)'
    <3>1. CASE record # None /\ l = Made(record)
      <4>1. of[record] = client
        BY <3>1 DEF LiveOfStored, Made
      <4> QED BY <2>2, <3>1, <4>1 DEF Known
    <3>2. CASE ~(record # None /\ l = Made(record))
      BY <2>1, <2>3, <3>2 DEF LiveIsKnown, Known
    <3> QED BY <3>1, <3>2
  <2> QED BY <2>1, <2>4, <2>5, <2>6 DEF LiveIsKnown
<1>9. ASSUME NEW u \in Unsubscribe, Unsubscribed(u) PROVE KnownInv'
  <2>1. /\ \A t \in Subscribe : pc'[t] = pc[t]
        /\ \A v \in Unsubscribe : v # u => pc'[v] = pc[v]
        /\ live' \subseteq live /\ lost \subseteq lost'
        /\ target[u] \in live' => target[u] \in lost'
        /\ UNCHANGED <<client, connecting, modern, record, of, target, doubled>>
    BY <1>0, <1>9 DEF Unsubscribed, state
  <2>2. \A t \in Subscribe : Made(t)' = Made(t)
    BY <2>1 DEF Made
  <2>3. LiveOfStored'
    BY <2>1 DEF LiveOfStored, InFlight
  <2>4. Overlapped'
    BY <2>1 DEF Overlapped, InFlight
  <2>5. ASSUME NEW l \in live' PROVE Known(l)'
    BY <1>0, <2>1, <2>2 DEF LiveIsKnown, Known
  <2> QED BY <2>3, <2>4, <2>5 DEF LiveIsKnown
<1>10. CASE UNCHANGED vars
  BY <1>10 DEF vars, state, history, LiveOfStored, Overlapped, LiveIsKnown, Known, InFlight, Made
<1> QED
  BY <1>1, <1>2, <1>3, <1>4, <1>5, <1>6, <1>7, <1>8, <1>9, <1>10 DEF Next

\* The server keeps no subscription that nobody could cancel, unless requests fail or
\* two modern subscribes overlap.
THEOREM LiveStaysKnown == Spec => []LiveIsKnown
<1>1. KnownInv => LiveIsKnown
  BY DEF KnownInv
<1> QED
  BY TypesInit, TypesNext, KnownInit, KnownNext, <1>1, PTL DEF Spec
=============================================================================
