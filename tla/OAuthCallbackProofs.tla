-------------------------- MODULE OAuthCallbackProofs --------------------------
(* Proofs about OAuthCallback for every value of its constants. *)
EXTENDS OAuthCallback, TLAPS

\* What is left when waits are removed is typed.
LEMMA WithoutType ==
  ASSUME TypeOK, NEW S
  PROVE  /\ StatesWithout(S) \in [State -> Flow \cup {None}]
         /\ ServersWithout(S) \in [McpServer -> State \cup {None}]
  BY DEF TypeOK, StatesWithout, ServersWithout

LEMMA StoppedType ==
  ASSUME TypeOK
  PROVE  Stopped \in [Flow -> Step]
  BY DEF TypeOK, Stopped, Step, Outcome

LEMMA StopIfIdleType ==
  ASSUME TypeOK, NEW S, StopIfIdle(S)
  PROVE  server' \in Flow \cup {None} /\ socket' \in [Flow -> Socket]
  BY DEF TypeOK, StopIfIdle, Socket

LEMMA SettleType ==
  ASSUME TypeOK, NEW st \in State, NEW outcome \in Outcome, Settle(st, outcome)
  PROVE  /\ pendingByState' \in [State -> Flow \cup {None}]
         /\ stateByServer' \in [McpServer -> State \cup {None}]
         /\ pc' \in [Flow -> Step]
         /\ server' \in Flow \cup {None} /\ socket' \in [Flow -> Socket]
<1>1. pc' \in [Flow -> Step]
  BY DEF Settle, TypeOK, Step
<1> QED BY <1>1, WithoutType, StopIfIdleType DEF Settle, RemovePending

LEMMA RegisterType ==
  ASSUME TypeOK, NEW f \in Flow, Register(f)
  PROVE  /\ pendingByState' \in [State -> Flow \cup {None}]
         /\ stateByServer' \in [McpServer -> State \cup {None}]
         /\ pc' \in [Flow -> Step]
  BY CallbackAssumption DEF Register, TypeOK, CallbackAssumption, Step

LEMMA InitType == Init => TypeOK
  BY DEF Init, TypeOK, Socket, Step

\* Every step keeps the state typed.
LEMMA NextType == TypeOK /\ [Next]_vars => TypeOK'
<1> SUFFICES ASSUME TypeOK, [Next]_vars PROVE TypeOK'
  OBVIOUS
<1> USE DEF pending
<1>a. \A f \in Flow : AddressOf[f] \in Address /\ StateOf[f] \in State /\ ServerOf[f] \in McpServer
  BY CallbackAssumption DEF CallbackAssumption
<1>b. /\ {"idle", "closing", "listening", "waiting", "timedOut", "unavailable"} \subseteq Step
      /\ {"answered", "refused", "cancelled"} \subseteq Outcome
      /\ {"bound", "draining", "closed"} \subseteq Socket
  BY DEF Step, Outcome, Socket
<1>1. ASSUME NEW f \in Flow, Start(f) PROVE TypeOK'
  <2>1. CASE server # None /\ current # AddressOf[f]
    BY <1>1, <1>b, <2>1 DEF Start, TypeOK
  <2>2. CASE server # None /\ current = AddressOf[f]
    BY <1>1, <2>2, RegisterType DEF Start, TypeOK
  <2>3. CASE server = None
    BY <1>1, <1>a, <1>b, <2>3 DEF Start, TypeOK
  <2> QED BY <2>1, <2>2, <2>3
<1>2. ASSUME NEW f \in Flow, Listened(f) PROVE TypeOK'
  <2>1. CASE socket' = [socket EXCEPT ![f] = "bound"] /\ server' = f /\ Register(f)
    BY <1>2, <1>b, <2>1, RegisterType DEF Listened, TypeOK
  <2>2. CASE pc' = [pc EXCEPT ![f] = "unavailable"] /\ UNCHANGED <<server, socket, pending>>
    BY <1>2, <1>b, <2>2 DEF Listened, TypeOK
  <2> QED BY <1>2, <2>1, <2>2 DEF Listened
<1>3. ASSUME NEW f \in Flow, TimedOut(f) PROVE TypeOK'
  <2>1. pc' \in [Flow -> Step]
    BY <1>3, <1>b DEF TimedOut, TypeOK
  <2>2. CASE RemovePending({StateOf[f]}) /\ StopIfIdle({StateOf[f]})
    BY <1>3, <2>1, <2>2, WithoutType, StopIfIdleType DEF TimedOut, RemovePending, TypeOK
  <2>3. CASE UNCHANGED <<server, socket, pending>>
    BY <1>3, <2>1, <2>3 DEF TimedOut, TypeOK
  <2> QED BY <1>3, <2>2, <2>3 DEF TimedOut
<1>4. ASSUME NEW f \in Flow, StartClosed(f) PROVE TypeOK'
  <2>1. closing' \in [Flow \cup Closer -> Flow \cup {None}] /\ UNCHANGED <<server, socket>>
    BY <1>4 DEF StartClosed, TypeOK
  <2>2. CASE server # None
    <3>1. /\ pendingByState' = [StatesWithout(State) EXCEPT ![StateOf[f]] = f]
          /\ stateByServer' = [ServersWithout(State) EXCEPT ![ServerOf[f]] = StateOf[f]]
          /\ pc' = [Stopped EXCEPT ![f] = "waiting"]
          /\ current' = current
      BY <1>4, <2>2 DEF StartClosed
    <3>2. pc' \in [Flow -> Step]
      BY <3>1, <1>b, StoppedType
    <3>3. /\ pendingByState' \in [State -> Flow \cup {None}]
          /\ stateByServer' \in [McpServer -> State \cup {None}]
      BY <3>1, <1>a, WithoutType
    <3> QED BY <2>1, <3>1, <3>2, <3>3 DEF TypeOK
  <2>3. CASE server = None
    <3>1. /\ RemovePending(State)
          /\ pc' = [Stopped EXCEPT ![f] = "listening"]
          /\ current' = AddressOf[f]
      BY <1>4, <2>3 DEF StartClosed
    <3>2. pc' \in [Flow -> Step]
      BY <3>1, <1>b, StoppedType
    <3> QED BY <2>1, <3>1, <3>2, <1>a, WithoutType DEF TypeOK, RemovePending
  <2> QED BY <2>2, <2>3
<1>5. ASSUME NEW l \in Flow, Drained(l) PROVE TypeOK'
  BY <1>5, <1>b DEF Drained, TypeOK
<1>6. ASSUME NEW m \in McpServer, Cancel(m) PROVE TypeOK'
  <2>1. stateByServer[m] \in State
    BY <1>6 DEF Cancel, TypeOK
  <2> QED BY <1>6, <1>b, <2>1, SettleType DEF Cancel, TypeOK
<1>7. ASSUME NEW c \in Closer, Close(c) PROVE TypeOK'
  <2>1. CASE server # None
    BY <1>7, <1>b, <2>1 DEF Close, TypeOK
  <2>2. CASE server = None
    BY <1>7, <2>2, WithoutType, StoppedType DEF Close, RemovePending, TypeOK
  <2> QED BY <2>1, <2>2
<1>8. ASSUME NEW c \in Closer, Closed(c) PROVE TypeOK'
  BY <1>8, WithoutType, StoppedType DEF Closed, RemovePending, TypeOK
<1>9. ASSUME NEW l \in Flow, NEW st \in State, NEW answer \in Answer, Request(l, st, answer)
      PROVE  TypeOK'
  BY <1>9, <1>b, SettleType DEF Request, TypeOK
<1>10. CASE UNCHANGED vars
  BY <1>10 DEF vars, TypeOK
<1> QED BY <1>1, <1>2, <1>3, <1>4, <1>5, <1>6, <1>7, <1>8, <1>9, <1>10 DEF Next, FlowStep

\* TypeOK is an invariant of the callback listener.
THEOREM CallbackTypeCorrect == Spec => []TypeOK
  BY InitType, NextType, PTL DEF Spec

-----------------------------------------------------------------------------
(***************************************************************************)
(* The invariants that relate the maps and the flows.                      *)
(***************************************************************************)

Waits == PendingFlowsWait /\ WaitIsPending /\ CancelFindsWait

\* Ending the waits for the states of S keeps the maps and the flows in step.
LEMMA RemoveWaits ==
  ASSUME TypeOK, Waits, NEW S \in SUBSET State, RemovePending(S),
         \A f \in Flow : pc'[f] = "waiting" <=>
            /\ pc[f] = "waiting"
            /\ ~ \E st \in S \cap Pending : pendingByState[st] = f
  PROVE  Waits'
<1>1. \A st \in State : pendingByState'[st] = IF st \in S THEN None ELSE pendingByState[st]
  BY DEF RemovePending, StatesWithout
<1>2. Pending' = Pending \ S
  BY <1>1 DEF Pending
<1>3. \A st \in Pending : pendingByState[st] \in Flow
  BY DEF Pending, TypeOK
<1>4. PendingFlowsWait'
  <2> SUFFICES ASSUME NEW st \in Pending'
               PROVE  pc'[pendingByState'[st]] = "waiting" /\ StateOf[pendingByState'[st]] = st
    BY DEF PendingFlowsWait
  <2> DEFINE p == pendingByState[st]
  <2>1. st \in Pending /\ st \notin S /\ pendingByState'[st] = p /\ p \in Flow
    BY <1>1, <1>2, <1>3 DEF Pending
  <2>2. pc[p] = "waiting" /\ StateOf[p] = st
    BY <2>1 DEF Waits, PendingFlowsWait
  <2>3. ~ \E su \in S \cap Pending : pendingByState[su] = p
    BY <2>1, <2>2 DEF Waits, PendingFlowsWait
  <2> HIDE DEF p
  <2> QED BY <2>1, <2>2, <2>3
<1>5. WaitIsPending'
  <2> SUFFICES ASSUME NEW f \in Flow, pc'[f] = "waiting",
                      ~ \E g \in Flow \ {f} : StateOf[g] = StateOf[f]
               PROVE  pendingByState'[StateOf[f]] = f
    BY DEF WaitIsPending
  <2>1. StateOf[f] \in State /\ f # None
    BY CallbackAssumption DEF CallbackAssumption
  <2>2. pendingByState[StateOf[f]] = f
    BY DEF Waits, WaitIsPending
  <2> QED BY <1>1, <2>1, <2>2 DEF Pending
<1>6. CancelFindsWait'
  <2> SUFFICES ASSUME NEW m \in McpServer, stateByServer'[m] # None
               PROVE  /\ stateByServer'[m] \in Pending'
                      /\ ServerOf[pendingByState'[stateByServer'[m]]] = m
    BY DEF CancelFindsWait
  <2>1. /\ stateByServer'[m] = stateByServer[m]
        /\ ~ \E st \in S \cap Pending : stateByServer[m] = st /\ ServerOf[pendingByState[st]] = m
    BY DEF RemovePending, ServersWithout
  <2>2. stateByServer[m] \in Pending /\ ServerOf[pendingByState[stateByServer[m]]] = m
    BY <2>1 DEF Waits, CancelFindsWait
  <2> QED BY <1>1, <1>2, <2>1, <2>2 DEF Pending
<1> QED BY <1>4, <1>5, <1>6 DEF Waits

LEMMA SettleWaits ==
  ASSUME TypeOK, Waits, NEW st \in State, NEW outcome \in Outcome, Settle(st, outcome)
  PROVE  Waits'
<1>1. st \in Pending /\ RemovePending({st}) /\ pendingByState[st] \in Flow
  BY DEF Settle, Pending, TypeOK
<1>2. \A f \in Flow : pc'[f] = IF f = pendingByState[st] THEN outcome ELSE pc[f]
  BY <1>1 DEF Settle, TypeOK
<1>3. outcome # "waiting"
  BY DEF Outcome
<1>4. \A f \in Flow : (\E su \in {st} \cap Pending : pendingByState[su] = f) <=> f = pendingByState[st]
  BY <1>1
<1>5. {st} \in SUBSET State
  OBVIOUS
<1>6. \A f \in Flow : pc'[f] = "waiting" <=>
         /\ pc[f] = "waiting"
         /\ ~ \E su \in {st} \cap Pending : pendingByState[su] = f
  BY <1>2, <1>3, <1>4
<1> QED BY <1>1, <1>5, <1>6, RemoveWaits

\* A flow that did not wait is registered.
LEMMA RegisterWaits ==
  ASSUME TypeOK, Waits, NEW f \in Flow, Register(f), pc[f] # "waiting"
  PROVE  Waits'
<1>1. /\ StateOf[f] \in State /\ ServerOf[f] \in McpServer
      /\ None \notin Flow /\ None \notin State
      /\ \A g \in Flow : StateOf[g] = StateOf[f] => ServerOf[g] = ServerOf[f]
  BY CallbackAssumption DEF CallbackAssumption
<1>2. /\ \A st \in State : pendingByState'[st] = IF st = StateOf[f] THEN f ELSE pendingByState[st]
      /\ \A m \in McpServer : stateByServer'[m] = IF m = ServerOf[f] THEN StateOf[f] ELSE stateByServer[m]
      /\ \A g \in Flow : pc'[g] = IF g = f THEN "waiting" ELSE pc[g]
  BY DEF Register, TypeOK
<1>3. Pending' = Pending \cup {StateOf[f]}
  BY <1>1, <1>2 DEF Pending
<1>4. \A st \in Pending : pendingByState[st] \in Flow
  BY DEF Pending, TypeOK
<1>5. PendingFlowsWait'
  BY <1>1, <1>2, <1>3, <1>4 DEF Waits, PendingFlowsWait, Pending
<1>6. WaitIsPending'
  <2> SUFFICES ASSUME NEW g \in Flow, pc'[g] = "waiting",
                      ~ \E h \in Flow \ {g} : StateOf[h] = StateOf[g]
               PROVE  pendingByState'[StateOf[g]] = g
    BY DEF WaitIsPending
  <2>1. StateOf[g] \in State
    BY CallbackAssumption DEF CallbackAssumption
  <2>2. CASE g = f
    BY <1>1, <1>2, <2>2
  <2>3. CASE g # f
    BY <1>2, <2>1, <2>3 DEF Waits, WaitIsPending
  <2> QED BY <2>2, <2>3
<1>7. CancelFindsWait'
  <2> SUFFICES ASSUME NEW m \in McpServer, stateByServer'[m] # None
               PROVE  /\ stateByServer'[m] \in Pending'
                      /\ ServerOf[pendingByState'[stateByServer'[m]]] = m
    BY DEF CancelFindsWait
  <2>1. CASE m = ServerOf[f]
    BY <1>1, <1>2, <1>3, <2>1
  <2>2. CASE m # ServerOf[f]
    <3> DEFINE st == stateByServer[m]
    <3>1. stateByServer'[m] = st /\ st \in Pending /\ ServerOf[pendingByState[st]] = m
      BY <1>2, <2>2 DEF Waits, CancelFindsWait
    <3>2. pendingByState[st] \in Flow /\ StateOf[pendingByState[st]] = st
      BY <3>1, <1>4 DEF Waits, PendingFlowsWait
    <3>3. st # StateOf[f]
      BY <1>1, <2>2, <3>1, <3>2
    <3> QED BY <1>2, <1>3, <3>1, <3>3 DEF Pending
  <2> QED BY <2>1, <2>2
<1> QED BY <1>5, <1>6, <1>7 DEF Waits

\* Rejecting every wait leaves none.
LEMMA StoppedWaits ==
  ASSUME TypeOK, Waits
  PROVE  \A f \in Flow : Stopped[f] = "waiting" <=>
            /\ pc[f] = "waiting"
            /\ ~ \E st \in State \cap Pending : pendingByState[st] = f
  BY DEF Stopped, Pending

\* Every step keeps the maps and the flows in step.
LEMMA NextWaits ==
  ASSUME TypeOK, Waits, [Next]_vars
  PROVE  Waits'
<1> USE DEF pending
<1>a. \A f \in Flow : StateOf[f] \in State /\ ServerOf[f] \in McpServer
  BY CallbackAssumption DEF CallbackAssumption
<1>b. ASSUME UNCHANGED pending, \A f \in Flow : pc'[f] = "waiting" <=> pc[f] = "waiting"
      PROVE  Waits'
  <2>1. \A st \in Pending : pendingByState[st] \in Flow
    BY DEF Pending, TypeOK
  <2>2. Pending' = Pending
    BY <1>b DEF Pending
  <2> QED BY <1>b, <2>1, <2>2 DEF Waits, PendingFlowsWait, WaitIsPending, CancelFindsWait
<1>c. ASSUME RemovePending(State), pc' = Stopped PROVE Waits'
  <2>1. State \in SUBSET State
    OBVIOUS
  <2>2. \A f \in Flow : pc'[f] = "waiting" <=>
           /\ pc[f] = "waiting"
           /\ ~ \E st \in State \cap Pending : pendingByState[st] = f
    BY <1>c, StoppedWaits
  <2> QED BY <1>c, <2>1, <2>2, RemoveWaits
<1>1. ASSUME NEW f \in Flow, Start(f) PROVE Waits'
  <2>1. CASE Register(f)
    BY <1>1, <2>1, RegisterWaits DEF Start
  <2>2. CASE UNCHANGED pending /\ pc' \in {[pc EXCEPT ![f] = "closing"], [pc EXCEPT ![f] = "listening"]}
    <3>1. \A g \in Flow : pc'[g] = "waiting" <=> pc[g] = "waiting"
      BY <1>1, <2>2 DEF Start, TypeOK
    <3> QED BY <1>b, <2>2, <3>1
  <2> QED BY <1>1, <2>1, <2>2 DEF Start
<1>2. ASSUME NEW f \in Flow, Listened(f) PROVE Waits'
  <2>1. CASE Register(f)
    BY <1>2, <2>1, RegisterWaits DEF Listened
  <2>2. CASE pc' = [pc EXCEPT ![f] = "unavailable"] /\ UNCHANGED pending
    <3>1. \A g \in Flow : pc'[g] = "waiting" <=> pc[g] = "waiting"
      BY <1>2, <2>2 DEF Listened, TypeOK
    <3> QED BY <1>b, <2>2, <3>1
  <2> QED BY <1>2, <2>1, <2>2 DEF Listened
<1>3. ASSUME NEW f \in Flow, TimedOut(f) PROVE Waits'
  <2> DEFINE S == {StateOf[f]}
  <2>0. pc[f] = "waiting" /\ \A g \in Flow : pc'[g] = IF g = f THEN "timedOut" ELSE pc[g]
    BY <1>3 DEF TimedOut, TypeOK
  <2>1. CASE StateOf[f] \in Pending /\ RemovePending(S)
    <3>1. S \in SUBSET State /\ pendingByState[StateOf[f]] \in Flow
      BY <1>a, <2>1 DEF Pending, TypeOK
    <3>2. CASE pendingByState[StateOf[f]] = f
      <4>1. \A g \in Flow : pc'[g] = "waiting" <=>
               /\ pc[g] = "waiting"
               /\ ~ \E st \in S \cap Pending : pendingByState[st] = g
        <5>1. \A g \in Flow : (\E st \in S \cap Pending : pendingByState[st] = g) <=> g = f
          BY <2>1, <3>2
        <5> QED BY <2>0, <5>1
      <4> QED BY <2>1, <3>1, <4>1, RemoveWaits
    <3>3. CASE pendingByState[StateOf[f]] # f
      <4> DEFINE p == pendingByState[StateOf[f]]
      <4>1. p \in Flow /\ p # f /\ StateOf[p] = StateOf[f]
        BY <2>1, <3>1, <3>3 DEF Waits, PendingFlowsWait
      <4>2. /\ \A st \in State : pendingByState'[st] = IF st = StateOf[f] THEN None ELSE pendingByState[st]
            /\ Pending' = Pending \ S
        BY <2>1 DEF RemovePending, StatesWithout, Pending
      <4>3. PendingFlowsWait'
        <5> SUFFICES ASSUME NEW st \in Pending'
                     PROVE  pc'[pendingByState'[st]] = "waiting" /\ StateOf[pendingByState'[st]] = st
          BY DEF PendingFlowsWait
        <5>1. st \in Pending /\ st # StateOf[f] /\ pendingByState'[st] = pendingByState[st]
          BY <4>2 DEF Pending
        <5>2. pendingByState[st] \in Flow /\ pendingByState[st] # f
          BY <5>1 DEF Waits, PendingFlowsWait, Pending, TypeOK
        <5> QED BY <2>0, <5>1, <5>2 DEF Waits, PendingFlowsWait
      <4>4. WaitIsPending'
        <5> SUFFICES ASSUME NEW g \in Flow, pc'[g] = "waiting",
                            ~ \E h \in Flow \ {g} : StateOf[h] = StateOf[g]
                     PROVE  pendingByState'[StateOf[g]] = g
          BY DEF WaitIsPending
        <5>1. g # f /\ pc[g] = "waiting"
          BY <2>0
        <5>2. StateOf[g] # StateOf[f]
          BY <5>1
        <5> QED BY <1>a, <4>2, <5>1, <5>2 DEF Waits, WaitIsPending
      <4>5. CancelFindsWait'
        <5> SUFFICES ASSUME NEW m \in McpServer, stateByServer'[m] # None
                     PROVE  /\ stateByServer'[m] \in Pending'
                            /\ ServerOf[pendingByState'[stateByServer'[m]]] = m
          BY DEF CancelFindsWait
        <5>1. /\ stateByServer'[m] = stateByServer[m]
              /\ ~ \E st \in S \cap Pending : stateByServer[m] = st /\ ServerOf[pendingByState[st]] = m
          BY <2>1 DEF RemovePending, ServersWithout
        <5>2. stateByServer[m] \in Pending /\ ServerOf[pendingByState[stateByServer[m]]] = m
          BY <5>1 DEF Waits, CancelFindsWait
        <5> QED BY <4>2, <5>1, <5>2 DEF Pending
      <4> QED BY <4>3, <4>4, <4>5 DEF Waits
    <3> QED BY <3>2, <3>3
  <2>2. CASE StateOf[f] \notin Pending /\ UNCHANGED pending
    <3>1. Pending' = Pending /\ pendingByState[StateOf[f]] # f
      BY <1>a, <2>2, CallbackAssumption DEF Pending, CallbackAssumption
    <3>2. PendingFlowsWait'
      <4>1. \A st \in Pending : pendingByState[st] \in Flow /\ pendingByState[st] # f
        BY <2>2 DEF Waits, PendingFlowsWait, Pending, TypeOK
      <4> QED BY <2>0, <2>2, <3>1, <4>1 DEF Waits, PendingFlowsWait
    <3>3. WaitIsPending'
      BY <2>0, <2>2 DEF Waits, WaitIsPending
    <3>4. CancelFindsWait'
      BY <2>2, <3>1 DEF Waits, CancelFindsWait
    <3> QED BY <3>2, <3>3, <3>4 DEF Waits
  <2> QED BY <1>3, <2>1, <2>2 DEF TimedOut
<1>4. ASSUME NEW f \in Flow, StartClosed(f) PROVE Waits'
  <2>0. pc[f] = "closing" /\ Stopped[f] # "waiting"
    BY <1>4 DEF StartClosed, Stopped
  <2>1. \A g \in Flow : Stopped[g] = "waiting" =>
           pc[g] = "waiting" /\ pendingByState[StateOf[g]] # g
    BY <1>a, CallbackAssumption DEF Stopped, Pending, CallbackAssumption
  <2>2. \A st \in State : StatesWithout(State)[st] = None
    BY DEF StatesWithout
  <2>3. \A m \in McpServer : ServersWithout(State)[m] = None
    BY DEF ServersWithout, Waits, CancelFindsWait, Pending
  <2>4. CASE server # None
    <3>1. /\ \A st \in State : pendingByState'[st] = IF st = StateOf[f] THEN f ELSE None
          /\ \A m \in McpServer : stateByServer'[m] = IF m = ServerOf[f] THEN StateOf[f] ELSE None
          /\ \A g \in Flow : pc'[g] = IF g = f THEN "waiting" ELSE Stopped[g]
      BY <1>4, <2>2, <2>3, <2>4, WithoutType, StoppedType DEF StartClosed
    <3>2. Pending' = {StateOf[f]}
      BY <1>a, <3>1, CallbackAssumption DEF Pending, CallbackAssumption
    <3>3. PendingFlowsWait' /\ CancelFindsWait'
      BY <1>a, <3>1, <3>2 DEF PendingFlowsWait, CancelFindsWait
    <3>4. WaitIsPending'
      <4> SUFFICES ASSUME NEW g \in Flow, pc'[g] = "waiting",
                          ~ \E h \in Flow \ {g} : StateOf[h] = StateOf[g]
                   PROVE  pendingByState'[StateOf[g]] = g
        BY DEF WaitIsPending
      <4>1. g = f
        BY <2>1, <3>1 DEF Waits, WaitIsPending
      <4> QED BY <1>a, <3>1, <4>1
    <3> QED BY <3>3, <3>4 DEF Waits
  <2>5. CASE server = None
    <3>1. /\ RemovePending(State)
          /\ \A g \in Flow : pc'[g] = IF g = f THEN "listening" ELSE Stopped[g]
      BY <1>4, <2>5, StoppedType DEF StartClosed
    <3>2. \A g \in Flow : pc'[g] = "waiting" <=>
             /\ pc[g] = "waiting"
             /\ ~ \E st \in State \cap Pending : pendingByState[st] = g
      BY <2>0, <3>1, StoppedWaits
    <3>3. State \in SUBSET State
      OBVIOUS
    <3> QED BY <3>1, <3>2, <3>3, RemoveWaits
  <2> QED BY <2>4, <2>5
<1>5. ASSUME NEW l \in Flow, Drained(l) PROVE Waits'
  BY <1>5, <1>b DEF Drained
<1>6. ASSUME NEW m \in McpServer, Cancel(m) PROVE Waits'
  <2>1. stateByServer[m] \in State /\ "cancelled" \in Outcome
    BY <1>6 DEF Cancel, TypeOK, Outcome
  <2> QED BY <1>6, <2>1, SettleWaits DEF Cancel
<1>7. ASSUME NEW c \in Closer, Close(c) PROVE Waits'
  BY <1>7, <1>b, <1>c DEF Close
<1>8. ASSUME NEW c \in Closer, Closed(c) PROVE Waits'
  BY <1>8, <1>c DEF Closed
<1>9. ASSUME NEW l \in Flow, NEW st \in State, NEW answer \in Answer, Request(l, st, answer)
      PROVE  Waits'
  <2>1. "answered" \in Outcome /\ "refused" \in Outcome
    BY DEF Outcome
  <2> QED BY <1>9, <2>1, SettleWaits DEF Request
<1>10. CASE UNCHANGED vars
  BY <1>10, <1>b DEF vars
<1> QED BY <1>1, <1>2, <1>3, <1>4, <1>5, <1>6, <1>7, <1>8, <1>9, <1>10 DEF Next, FlowStep
-----------------------------------------------------------------------------
(***************************************************************************)
(* The listener.                                                           *)
(***************************************************************************)

\* stopIfIdle leaves a listener that listens, and one wherever a wait is left.
LEMMA StopIfIdleListener ==
  ASSUME TypeOK, ServerListens, WaitHasListener, NEW S \in SUBSET State, StopIfIdle(S),
         Pending' = Pending \ S, UNCHANGED closing
  PROVE  ServerListens' /\ WaitHasListener'
<1>1. CASE Pending \ S = {} /\ server # None
  BY <1>1 DEF StopIfIdle, ServerListens, WaitHasListener
<1>2. CASE ~ (Pending \ S = {} /\ server # None)
  <2>1. server' = server /\ socket' = socket
    BY <1>2 DEF StopIfIdle
  <2>2. ServerListens'
    BY <2>1 DEF ServerListens
  <2>3. Pending' # {} => server # None \/ \E c \in Flow \cup Closer : closing[c] # None
    BY DEF WaitHasListener
  <2> QED BY <2>1, <2>2, <2>3 DEF WaitHasListener
<1> QED BY <1>1, <1>2

LEMMA RemovePendingStates ==
  ASSUME TypeOK, NEW S \in SUBSET State, RemovePending(S)
  PROVE  Pending' = Pending \ S
  BY DEF RemovePending, StatesWithout, Pending

LEMMA SettleListener ==
  ASSUME TypeOK, ServerListens, WaitHasListener, NEW st \in State, NEW outcome,
         Settle(st, outcome), UNCHANGED closing
  PROVE  ServerListens' /\ WaitHasListener'
<1>1. {st} \in SUBSET State /\ RemovePending({st}) /\ StopIfIdle({st})
  BY DEF Settle
<1>2. Pending' = Pending \ {st}
  BY <1>1, RemovePendingStates
<1> QED BY <1>1, <1>2, StopIfIdleListener

\* Every step keeps the server listening, and a listener under every wait.
LEMMA NextListener ==
  ASSUME TypeOK, ServerListens, WaitHasListener, [Next]_vars
  PROVE  ServerListens' /\ WaitHasListener'
<1> USE DEF pending
<1>a. None \notin Flow /\ \A f \in Flow : StateOf[f] \in State
  BY CallbackAssumption DEF CallbackAssumption
<1>b. ASSUME RemovePending(State) PROVE Pending' = {}
  BY <1>b DEF RemovePending, StatesWithout, Pending
<1>c. ASSUME UNCHANGED pendingByState PROVE Pending' = Pending
  BY <1>c DEF Pending
<1>1. ASSUME NEW f \in Flow, Start(f) PROVE ServerListens' /\ WaitHasListener'
  <2>1. CASE server # None /\ current # AddressOf[f]
    <3>1. server' = None /\ closing'[f] # None
      BY <1>1, <1>a, <2>1 DEF Start, TypeOK
    <3> QED BY <3>1 DEF ServerListens, WaitHasListener
  <2>2. CASE server # None /\ current = AddressOf[f]
    BY <1>1, <2>2 DEF Start, ServerListens, WaitHasListener
  <2>3. CASE server = None
    <3>1. UNCHANGED <<server, socket, pendingByState, closing>>
      BY <1>1, <2>3 DEF Start
    <3> QED BY <1>c, <3>1 DEF ServerListens, WaitHasListener
  <2> QED BY <2>1, <2>2, <2>3
<1>2. ASSUME NEW f \in Flow, Listened(f) PROVE ServerListens' /\ WaitHasListener'
  <2>1. CASE socket' = [socket EXCEPT ![f] = "bound"] /\ server' = f
    BY <1>a, <2>1 DEF ServerListens, WaitHasListener, TypeOK
  <2>2. CASE UNCHANGED <<server, socket, pending>>
    <3>1. UNCHANGED <<server, socket, pendingByState, closing>>
      BY <1>2, <2>2 DEF Listened
    <3> QED BY <1>c, <3>1 DEF ServerListens, WaitHasListener
  <2> QED BY <1>2, <2>1, <2>2 DEF Listened
<1>3. ASSUME NEW f \in Flow, TimedOut(f) PROVE ServerListens' /\ WaitHasListener'
  <2>1. CASE RemovePending({StateOf[f]}) /\ StopIfIdle({StateOf[f]})
    <3>1. {StateOf[f]} \in SUBSET State /\ UNCHANGED closing
      BY <1>3, <1>a DEF TimedOut
    <3>2. Pending' = Pending \ {StateOf[f]}
      BY <2>1, <3>1, RemovePendingStates
    <3> QED BY <2>1, <3>1, <3>2, StopIfIdleListener
  <2>2. CASE UNCHANGED <<server, socket, pending>>
    <3>1. UNCHANGED <<server, socket, pendingByState, closing>>
      BY <1>3, <2>2 DEF TimedOut
    <3> QED BY <1>c, <3>1 DEF ServerListens, WaitHasListener
  <2> QED BY <1>3, <2>1, <2>2 DEF TimedOut
<1>4. ASSUME NEW f \in Flow, StartClosed(f) PROVE ServerListens' /\ WaitHasListener'
  <2>1. ServerListens' /\ UNCHANGED server
    BY <1>4 DEF StartClosed, ServerListens
  <2>2. CASE server # None
    BY <2>1, <2>2 DEF WaitHasListener
  <2>3. CASE server = None
    <3>1. Pending' = {}
      BY <1>4, <1>b, <2>3 DEF StartClosed
    <3> QED BY <2>1, <3>1 DEF WaitHasListener
  <2> QED BY <2>2, <2>3
<1>5. ASSUME NEW l \in Flow, Drained(l) PROVE ServerListens' /\ WaitHasListener'
  <2>1. UNCHANGED <<server, pendingByState, closing>> /\ server # l
    BY <1>5, <1>a DEF Drained, ServerListens
  <2>2. ServerListens'
    BY <1>5, <2>1 DEF Drained, ServerListens, TypeOK
  <2> QED BY <1>c, <2>1, <2>2 DEF WaitHasListener
<1>6. ASSUME NEW m \in McpServer, Cancel(m) PROVE ServerListens' /\ WaitHasListener'
  <2>1. stateByServer[m] \in State
    BY <1>6 DEF Cancel, TypeOK
  <2> QED BY <1>6, <2>1, SettleListener DEF Cancel
<1>7. ASSUME NEW c \in Closer, Close(c) PROVE ServerListens' /\ WaitHasListener'
  <2>1. CASE server # None
    <3>1. server' = None /\ closing'[c] # None
      BY <1>7, <1>a, <2>1 DEF Close, TypeOK
    <3> QED BY <3>1 DEF ServerListens, WaitHasListener
  <2>2. CASE server = None
    BY <1>7, <1>b, <2>2 DEF Close, ServerListens, WaitHasListener
  <2> QED BY <2>1, <2>2
<1>8. ASSUME NEW c \in Closer, Closed(c) PROVE ServerListens' /\ WaitHasListener'
  <2>1. Pending' = {}
    BY <1>8, <1>b DEF Closed
  <2>2. ServerListens'
    BY <1>8 DEF Closed, ServerListens
  <2> QED BY <2>1, <2>2 DEF WaitHasListener
<1>9. ASSUME NEW l \in Flow, NEW st \in State, NEW answer \in Answer, Request(l, st, answer)
      PROVE  ServerListens' /\ WaitHasListener'
  BY <1>9, SettleListener DEF Request
<1>10. CASE UNCHANGED vars
  BY <1>10, <1>c DEF vars, ServerListens, WaitHasListener
<1> QED BY <1>1, <1>2, <1>3, <1>4, <1>5, <1>6, <1>7, <1>8, <1>9, <1>10 DEF Next, FlowStep

-----------------------------------------------------------------------------
(***************************************************************************)
(* The inductive invariant.                                                *)
(***************************************************************************)

LEMMA InitInv == Init => CallbackInv
<1> SUFFICES ASSUME Init PROVE CallbackInv
  OBVIOUS
<1>1. TypeOK
  BY InitType
<1>2. Pending = {}
  BY DEF Init, Pending
<1>3. \A f \in Flow : pc[f] # "waiting"
  BY DEF Init
<1>4. \A m \in McpServer : stateByServer[m] = None
  BY DEF Init
<1>5. server = None
  BY DEF Init
<1> QED BY <1>1, <1>2, <1>3, <1>4, <1>5
        DEF CallbackInv, ServerListens, PendingFlowsWait, WaitIsPending, WaitHasListener, CancelFindsWait

LEMMA NextInv == CallbackInv /\ [Next]_vars => CallbackInv'
<1> SUFFICES ASSUME CallbackInv, [Next]_vars PROVE CallbackInv'
  OBVIOUS
<1>1. TypeOK /\ Waits /\ ServerListens /\ WaitHasListener
  BY DEF CallbackInv, Waits
<1>2. TypeOK' /\ Waits' /\ ServerListens' /\ WaitHasListener'
  BY <1>1, NextType, NextWaits, NextListener
<1> QED BY <1>2 DEF CallbackInv, Waits

\* The maps, the flows and the listener agree in every reachable state.
THEOREM CallbackInvariance == Spec => []CallbackInv
  BY InitInv, NextInv, PTL DEF Spec

\* No answer, refusal or cancellation is given to a flow whose wait has ended, and
\* every answer is given to a flow that waits for its state (handleRequest, cancel).
THEOREM AnswersFindTheirFlow == Spec => []PendingFlowsWait
<1>1. CallbackInv => PendingFlowsWait
  BY DEF CallbackInv
<1> QED BY <1>1, CallbackInvariance, PTL

\* A flow that shares its state with no other stays registered as long as it waits:
\* neither the timeouts nor the answers of other flows remove it (removePending).
THEOREM WaitsStayRegistered == Spec => []WaitIsPending
<1>1. CallbackInv => WaitIsPending
  BY DEF CallbackInv
<1> QED BY <1>1, CallbackInvariance, PTL

\* The listener never stops under a wait, whatever starts, timeouts, answers and
\* closes do (stopIfIdle, closeEffect).
THEOREM WaitsHaveAListener == Spec => []WaitHasListener
<1>1. CallbackInv => WaitHasListener
  BY DEF CallbackInv
<1> QED BY <1>1, CallbackInvariance, PTL

\* cancel never takes the state of an ended wait for the one to cancel.
THEOREM CancelsFindAWait == Spec => []CancelFindsWait
<1>1. CallbackInv => CancelFindsWait
  BY DEF CallbackInv
<1> QED BY <1>1, CallbackInvariance, PTL

\* Rejecting every wait ends waits only.
LEMMA StoppedEnds ==
  ASSUME CallbackInv, NEW f \in Flow
  PROVE  Stopped[f] = pc[f] \/ (pc[f] = "waiting" /\ Stopped[f] = "stopped")
  BY DEF Stopped, CallbackInv, PendingFlowsWait

\* Whatever settles a wait settles one that has not ended.
LEMMA SettleEnds ==
  ASSUME CallbackInv, NEW st \in State, NEW outcome \in Outcome, Settle(st, outcome), NEW f \in Flow
  PROVE  pc'[f] = pc[f] \/ (pc[f] = "waiting" /\ pc'[f] = outcome)
<1>1. st \in Pending /\ pc[pendingByState[st]] = "waiting"
  BY DEF Settle, CallbackInv, PendingFlowsWait
<1> QED BY <1>1 DEF Settle, CallbackInv, TypeOK

\* A wait ends once: what a flow was told stays, whatever comes later.
THEOREM WaitsAreAnsweredOnce == Spec => WaitsEndOnce
<1>1. ASSUME CallbackInv, [Next]_vars
      PROVE  [\A f \in Flow : pc'[f] # pc[f] => StepsLeft(pc'[f]) < StepsLeft(pc[f])]_vars
  <2> SUFFICES ASSUME Next, NEW f \in Flow, pc'[f] # pc[f]
               PROVE  StepsLeft(pc'[f]) < StepsLeft(pc[f])
    BY <1>1
  <2>0. TypeOK /\ Stopped \in [Flow -> Step]
    BY <1>1, StoppedType DEF CallbackInv
  <2>a. ASSUME pc[f] = "waiting", pc'[f] \in Outcome PROVE StepsLeft(pc'[f]) < StepsLeft(pc[f])
    BY <2>a DEF StepsLeft, Outcome
  <2>1. ASSUME NEW g \in Flow, Start(g) \/ Listened(g)
        PROVE  StepsLeft(pc'[f]) < StepsLeft(pc[f])
    <3>1. g = f
      BY <2>0, <2>1 DEF Start, Listened, Register, TypeOK
    <3>2. \/ pc[f] = "idle" /\ pc'[f] \in {"closing", "waiting", "listening"}
          \/ pc[f] = "listening" /\ pc'[f] \in {"waiting", "unavailable"}
      BY <2>0, <2>1, <3>1 DEF Start, Listened, Register, TypeOK
    <3> QED BY <3>2 DEF StepsLeft
  <2>2. ASSUME NEW g \in Flow, TimedOut(g) PROVE StepsLeft(pc'[f]) < StepsLeft(pc[f])
    <3>1. pc[f] = "waiting" /\ pc'[f] = "timedOut"
      BY <2>0, <2>2 DEF TimedOut, TypeOK
    <3> QED BY <2>a, <3>1 DEF Outcome
  <2>3. ASSUME NEW g \in Flow, StartClosed(g) PROVE StepsLeft(pc'[f]) < StepsLeft(pc[f])
    <3>0. \E step \in {"waiting", "listening"} : pc' = [Stopped EXCEPT ![g] = step]
      BY <2>3 DEF StartClosed
    <3>1. CASE f = g
      <4>1. pc[f] = "closing" /\ pc'[f] \in {"waiting", "listening"}
        BY <2>0, <2>3, <3>0, <3>1 DEF StartClosed
      <4> QED BY <4>1 DEF StepsLeft
    <3>2. CASE f # g
      <4>1. pc'[f] = Stopped[f]
        BY <2>0, <3>0, <3>2
      <4> QED BY <1>1, <2>a, <4>1, StoppedEnds DEF Outcome
    <3> QED BY <3>1, <3>2
  <2>4. ASSUME pc' = Stopped PROVE StepsLeft(pc'[f]) < StepsLeft(pc[f])
    BY <1>1, <2>4, <2>a, StoppedEnds DEF Outcome
  <2>5. ASSUME NEW st \in State, NEW outcome \in Outcome, Settle(st, outcome)
        PROVE  StepsLeft(pc'[f]) < StepsLeft(pc[f])
    BY <1>1, <2>5, <2>a, SettleEnds
  <2>6. ASSUME NEW m \in McpServer, Cancel(m) PROVE StepsLeft(pc'[f]) < StepsLeft(pc[f])
    <3>1. stateByServer[m] \in State /\ "cancelled" \in Outcome
      BY <2>0, <2>6 DEF Cancel, TypeOK, Outcome
    <3> QED BY <2>5, <2>6, <3>1 DEF Cancel
  <2>7. ASSUME NEW l \in Flow, NEW st \in State, NEW answer \in Answer, Request(l, st, answer)
        PROVE  StepsLeft(pc'[f]) < StepsLeft(pc[f])
    BY <2>5, <2>7 DEF Request, Outcome
  <2> QED BY <2>1, <2>2, <2>3, <2>4, <2>6, <2>7 DEF Next, FlowStep, Drained, Close, Closed
<1> QED BY <1>1, CallbackInvariance, PTL DEF Spec, WaitsEndOnce
=============================================================================
