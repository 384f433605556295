-------------------------- MODULE ManagerAuthProofs --------------------------
(* Theorems of ManagerAuth. *)
EXTENDS ManagerAuth, TLAPS

(***************************************************************************)
(* Types.                                                                  *)
(***************************************************************************)

PcType == pc \in [Actor -> Step]

EntryType == entry \in [state : Actor \cup {None}, verifier : Actor \cup {None},
                        tokens : Actor \cup {Old, None}]

StoreType ==
    /\ EntryType
    /\ fence \in Actor \cup {None}
    /\ provider \in [Actor -> {"none", "active", "inactive"}]

ManagerType ==
    /\ pendingTransport \in Actor \cup {None}
    /\ connectionAttempt \in Attempt \cup {None}
    /\ client \in Actor \cup {None}
    /\ connected \in BOOLEAN

ListenerType ==
    /\ pendingByState \in [Actor -> Actor \cup {None}]
    /\ stateByServer \in Actor \cup {None}
    /\ callback \in [Actor -> Actor \cup {"none", "waiting", "lost"}]
    /\ opened \subseteq Actor

FlowType ==
    /\ asked \in [Actor -> Actor \cup {None}]
    /\ using \in [Actor -> Actor \cup {None}]

HistoryType ==
    /\ ender \in {"absent", "none", "removing", "removed", "callbacks", "clients", "attempts", "closed"}
    /\ disturbed \subseteq Login
    /\ removed \subseteq Actor \cup {Old}

Types == PcType /\ StoreType /\ ManagerType /\ ListenerType /\ FlowType /\ HistoryType

\* A wait is registered under the state of its actor, which still waits.
SlotsHold == \A st, x \in Actor : pendingByState[st] = x => callback[x] = "waiting" /\ st = Key(x)

\* A login waits from its start on.
LoginsWait ==
    \A x \in Login :
        /\ pc[x] \in {"idle", "starting"} => callback[x] = "none"
        /\ pc[x] \in {"updating", "connecting", "stating", "stated", "verified"} => callback[x] # "none"
        /\ pc[x] \in {"listing", "swapping", "stored"} => callback[x] # "waiting"
        /\ pc[x] # "settled"

\* An attempt waits once it knows the state it asked for.
AttemptsWait ==
    \A x \in Attempt :
        /\ callback[x] # "none" =>
             /\ asked[x] \in Actor
             /\ pc[x] \in {"opening", "waiting", "exchanging", "closing", "settled", "ended"}
        /\ pc[x] = "starting" => asked[x] \in Actor

\* An actor that has its URL knows the state it asked for; a code is exchanged by an
\* actor that has a code and a transport.
ActorsKnow ==
    \A x \in Actor :
        /\ pc[x] \in {"stating", "stated", "verified", "opening", "waiting"} => asked[x] \in Actor
        /\ x \in opened => asked[x] \in Actor
        /\ pc[x] \in {"opening", "waiting"} => callback[x] # "none"
        /\ pc[x] \in {"matching", "matched", "mismatched", "exchanging"} => callback[x] \in Actor
        /\ pc[x] \in {"exchanging", "saving"} => using[x] \in Actor

WaitInv == SlotsHold /\ LoginsWait /\ AttemptsWait /\ ActorsKnow

\* The type invariant follows.
LEMMA TypesSuffice == Types /\ WaitInv => TypeOK
  BY DEF Types, WaitInv, ActorsKnow, TypeOK, PcType, StoreType, EntryType, ManagerType, ListenerType,
         FlowType, HistoryType

\* What an entry becomes when one of its fields is written.
LEMMA EntryWrites ==
    ASSUME EntryType, NEW v \in Actor \cup {None}, NEW t \in Actor \cup {Old, None}
    PROVE  /\ [entry EXCEPT !.state = v] =
                [state |-> v, verifier |-> entry.verifier, tokens |-> entry.tokens]
           /\ [entry EXCEPT !.verifier = v] =
                [state |-> entry.state, verifier |-> v, tokens |-> entry.tokens]
           /\ [entry EXCEPT !.tokens = t] =
                [state |-> entry.state, verifier |-> entry.verifier, tokens |-> t]
  BY DEF EntryType

\* What becomes of the entry in a fenced write.
LEMMA FencedWrites ==
    ASSUME EntryType, NEW x \in Actor
    PROVE  /\ \A v \in Actor \cup {None} : FencedWrite(x, "state", v) =>
                entry' = IF fence = x
                         THEN [state |-> v, verifier |-> entry.verifier, tokens |-> entry.tokens]
                         ELSE entry
           /\ \A v \in Actor \cup {None} : FencedWrite(x, "verifier", v) =>
                entry' = IF fence = x
                         THEN [state |-> entry.state, verifier |-> v, tokens |-> entry.tokens]
                         ELSE entry
           /\ \A t \in Actor : FencedWrite(x, "tokens", t) =>
                entry' = IF fence = x
                         THEN [state |-> entry.state, verifier |-> entry.verifier, tokens |-> t]
                         ELSE entry
<1>1. ASSUME NEW v \in Actor \cup {None}, FencedWrite(x, "state", v)
      PROVE  entry' = IF fence = x
                      THEN [state |-> v, verifier |-> entry.verifier, tokens |-> entry.tokens]
                      ELSE entry
  <2>1. entry' = IF fence = x THEN [entry EXCEPT !.state = v] ELSE entry
    BY <1>1, Zenon DEF FencedWrite
  <2> QED BY <2>1, EntryWrites
<1>2. ASSUME NEW v \in Actor \cup {None}, FencedWrite(x, "verifier", v)
      PROVE  entry' = IF fence = x
                      THEN [state |-> entry.state, verifier |-> v, tokens |-> entry.tokens]
                      ELSE entry
  <2>1. entry' = IF fence = x THEN [entry EXCEPT !.verifier = v] ELSE entry
    BY <1>2, Zenon DEF FencedWrite
  <2> QED BY <2>1, EntryWrites
<1>3. ASSUME NEW t \in Actor, FencedWrite(x, "tokens", t)
      PROVE  entry' = IF fence = x
                      THEN [state |-> entry.state, verifier |-> entry.verifier, tokens |-> t]
                      ELSE entry
  <2>1. entry' = IF fence = x THEN [entry EXCEPT !.tokens = t] ELSE entry
    BY <1>3, Zenon DEF FencedWrite
  <2> QED BY <2>1, EntryWrites
<1> QED BY <1>1, <1>2, <1>3

\* Waits end: who does not wait keeps what came, and whoever remains registered was.
WaitsEnd ==
    /\ pendingByState' \in [Actor -> Actor \cup {None}]
    /\ stateByServer' \in Actor \cup {None}
    /\ callback' \in [Actor -> Actor \cup {"none", "waiting", "lost"}]
    /\ \A x \in Actor : callback'[x] = callback[x] \/ (callback[x] = "waiting" /\ callback'[x] \in Actor \cup {"lost"})
    /\ \A st, x \in Actor : pendingByState'[st] = x => pendingByState[st] = x /\ callback'[x] = callback[x]

\* Settle ends waits when it ends that of the state, or that of an actor whose state it is.
LEMMA SettleEnds ==
    ASSUME Types, WaitInv, NEW st \in Actor, NEW W \in SUBSET Actor,
           NEW answer \in Actor \cup {"lost"},
           \A w \in W : callback[w] = "waiting" /\ st = Key(w),
           Settle(st, [w \in W |-> answer])
    PROVE  WaitsEnd
<1>1. /\ pendingByState' = [pendingByState EXCEPT ![st] = None]
      /\ stateByServer' = IF pendingByState[st] # None /\ stateByServer = st THEN None ELSE stateByServer
      /\ callback' = [x \in Actor |-> IF x \in W THEN answer ELSE callback[x]]
  BY DEF Settle
<1>2. /\ pendingByState' \in [Actor -> Actor \cup {None}]
      /\ stateByServer' \in Actor \cup {None}
      /\ callback' \in [Actor -> Actor \cup {"none", "waiting", "lost"}]
  BY <1>1 DEF Types, ListenerType
<1>3. \A x \in Actor : callback'[x] = callback[x] \/ (callback[x] = "waiting" /\ callback'[x] \in Actor \cup {"lost"})
  BY <1>1
<1>4. ASSUME NEW s \in Actor, NEW x \in Actor, pendingByState'[s] = x
      PROVE  pendingByState[s] = x /\ callback'[x] = callback[x]
  <2>1. s # st /\ pendingByState[s] = x
    BY <1>1, <1>4, AuthAssumption DEF Types, ListenerType
  <2>2. s = Key(x)
    BY <2>1 DEF WaitInv, SlotsHold
  <2>3. x \notin W
    BY <2>1, <2>2
  <2> QED BY <1>1, <2>1, <2>3
<1> QED BY <1>2, <1>3, <1>4 DEF WaitsEnd

\* Such a step keeps what is known of the waits, if its actor goes on without one.
LEMMA EndsKeep ==
    ASSUME Types, WaitInv, WaitsEnd, UNCHANGED <<asked, using>>, opened' \subseteq opened,
           \A y \in Actor : pc'[y] = pc[y] \/ (y \in Login /\ pc'[y] \in {"joining", "failing"})
    PROVE  WaitInv'
<1> USE AuthAssumption DEF WaitsEnd, WaitInv
<1>1. SlotsHold'
  BY DEF SlotsHold, Key
<1>2. LoginsWait'
  BY DEF LoginsWait, Actor
<1>3. AttemptsWait'
  BY DEF AttemptsWait, Actor
<1>4. ActorsKnow'
  BY DEF ActorsKnow
<1> QED BY <1>1, <1>2, <1>3, <1>4

LEMMA CancelEnds ==
    ASSUME Types, WaitInv, CancelCallback
    PROVE  WaitsEnd
<1>1. CASE stateByServer = None
  <2>1. UNCHANGED <<pendingByState, stateByServer, callback>>
    BY <1>1 DEF CancelCallback
  <2> QED BY <2>1 DEF WaitsEnd, Types, ListenerType
<1>2. CASE stateByServer # None
  <2> DEFINE st == stateByServer
             W == {pendingByState[st]} \ {None}
  <2>1. st \in Actor /\ W \in SUBSET Actor
    BY <1>2 DEF Types, ListenerType
  <2>2. Settle(st, [w \in W |-> "lost"])
    BY <1>2 DEF CancelCallback
  <2>3. \A w \in W : callback[w] = "waiting" /\ st = Key(w)
    BY <2>1 DEF WaitInv, SlotsHold
  <2> QED BY <2>1, <2>2, <2>3, SettleEnds
<1> QED BY <1>1, <1>2

LEMMA AnswerEnds ==
    ASSUME Types, WaitInv, NEW x \in Actor, Answer(x)
    PROVE  WaitsEnd
<1> DEFINE w == pendingByState[asked[x]]
<1>1. asked[x] \in Actor
  BY DEF Answer, WaitInv, ActorsKnow, Types, ListenerType
<1>2. CASE w = None
  <2>1. UNCHANGED <<pendingByState, stateByServer, callback>>
    BY <1>2 DEF Answer
  <2> QED BY <2>1 DEF WaitsEnd, Types, ListenerType
<1>3. CASE w # None
  <2>1. PICK answer \in {x, "lost"} : Settle(asked[x], [y \in {w} |-> answer])
    BY <1>3 DEF Answer
  <2>2. w \in Actor
    BY <1>1, <1>3 DEF Types, ListenerType
  <2>3. callback[w] = "waiting" /\ asked[x] = Key(w)
    BY <1>1, <2>2 DEF WaitInv, SlotsHold
  <2> DEFINE W == {w}
  <2>4. /\ W \in SUBSET Actor /\ answer \in Actor \cup {"lost"}
        /\ \A v \in W : callback[v] = "waiting" /\ asked[x] = Key(v)
    BY <2>1, <2>2, <2>3
  <2>5. Settle(asked[x], [y \in W |-> answer])
    BY <2>1
  <2> HIDE DEF W
  <2> QED BY <1>1, <2>4, <2>5, SettleEnds
<1> QED BY <1>2, <1>3

LEMMA TimedOutEnds ==
    ASSUME Types, WaitInv, NEW x \in Actor, TimedOut(x)
    PROVE  WaitsEnd
<1>1. Settle(Key(x), [y \in {x} |-> "lost"]) /\ callback[x] = "waiting"
  BY DEF TimedOut
<1>2. Key(x) \in Actor
  BY <1>1 DEF Key, WaitInv, AttemptsWait, Actor
<1> DEFINE W == {x}
<1>3. /\ W \in SUBSET Actor
      /\ \A v \in W : callback[v] = "waiting" /\ Key(x) = Key(v)
  BY <1>1
<1>4. Settle(Key(x), [y \in W |-> "lost"])
  BY <1>1
<1> HIDE DEF W
<1> QED BY <1>2, <1>3, <1>4, SettleEnds

-----------------------------------------------------------------------------
(* The types of what each step changes. *)

LEMMA AfterAuthStep ==
    ASSUME NEW x
    PROVE  /\ AfterAuth(x) \in {"ended", "closing", "settled"}
           /\ x \in Login => AfterAuth(x) = "ended"
  BY DEF AfterAuth

\* Every actor's step but those that settle waits keeps the types.
StepTypes == PcType /\ StoreType /\ ManagerType /\ ListenerType /\ FlowType

LEMMA AuthenticateTypes ==
    ASSUME Types, WaitInv, NEW x \in Login, Authenticate(x)
    PROVE  StepTypes'
<1>1. PcType'
  BY AuthAssumption, AfterAuthStep DEF Types, PcType, Authenticate, Goto, Step, Actor
<1>2. StoreType'
  BY AuthAssumption, EntryWrites, FencedWrites DEF Types, StoreType, EntryType, Authenticate, store, Actor, NewProvider
<1>3. ManagerType'
  BY AuthAssumption DEF Types, ManagerType, Authenticate, manager, Actor, BeginAttempt
<1>4. ListenerType'
  BY AuthAssumption DEF Types, ListenerType, Authenticate, listener, Actor, Taken
<1>5. FlowType'
  BY AuthAssumption DEF Types, FlowType, Authenticate, Actor, StoreType, EntryType, ManagerType
<1> QED BY <1>1, <1>2, <1>3, <1>4, <1>5 DEF StepTypes

LEMMA ConnectTypes ==
    ASSUME Types, WaitInv, NEW x \in Attempt, Connect(x)
    PROVE  StepTypes'
<1>1. PcType'
  BY AuthAssumption, AfterAuthStep DEF Types, PcType, Connect, Goto, Step, Actor
<1>2. StoreType'
  BY AuthAssumption, EntryWrites, FencedWrites DEF Types, StoreType, EntryType, Connect, store, Actor, NewProvider
<1>3. ManagerType'
  BY AuthAssumption DEF Types, ManagerType, Connect, manager, Actor, BeginAttempt
<1>4. ListenerType'
  BY AuthAssumption DEF Types, ListenerType, Connect, listener, Actor, Taken
<1>5. FlowType'
  BY AuthAssumption DEF Types, FlowType, Connect, Actor, StoreType, EntryType, ManagerType
<1> QED BY <1>1, <1>2, <1>3, <1>4, <1>5 DEF StepTypes

LEMMA StartedTypes ==
    ASSUME Types, WaitInv, NEW x \in Actor, Started(x)
    PROVE  StepTypes'
<1>1. PcType'
  BY AuthAssumption, AfterAuthStep DEF Types, PcType, Started, Goto, Step, Actor
<1>2. StoreType'
  BY AuthAssumption, EntryWrites, FencedWrites DEF Types, StoreType, EntryType, Started, store, Actor, NewProvider
<1>3. ManagerType'
  BY AuthAssumption DEF Types, ManagerType, Started, manager, Actor, BeginAttempt
<1>4. ListenerType'
  <2>1. Key(x) \in Actor
    BY DEF Started, Key, WaitInv, AttemptsWait, Actor
  <2> QED BY <2>1 DEF Types, ListenerType, Started
<1>5. FlowType'
  BY AuthAssumption DEF Types, FlowType, Started, Actor, StoreType, EntryType, ManagerType
<1> QED BY <1>1, <1>2, <1>3, <1>4, <1>5 DEF StepTypes

LEMMA AcceptedTypes ==
    ASSUME Types, WaitInv, NEW x \in Actor, Accepted(x)
    PROVE  StepTypes'
<1>1. PcType'
  BY AuthAssumption, AfterAuthStep DEF Types, PcType, Accepted, Goto, Step, Actor
<1>2. StoreType'
  BY AuthAssumption, EntryWrites, FencedWrites DEF Types, StoreType, EntryType, Accepted, store, Actor, NewProvider
<1>3. ManagerType'
  BY AuthAssumption DEF Types, ManagerType, Accepted, manager, Actor, BeginAttempt
<1>4. ListenerType'
  <2>1. CASE x \in Login /\ CancelCallback
    BY <2>1, CancelEnds DEF Types, ListenerType, Accepted, WaitsEnd
  <2>2. CASE UNCHANGED <<pendingByState, stateByServer, callback>>
    BY <2>2 DEF Types, ListenerType, Accepted
  <2> QED BY <2>1, <2>2 DEF Accepted
<1>5. FlowType'
  BY AuthAssumption DEF Types, FlowType, Accepted, Actor, StoreType, EntryType, ManagerType
<1> QED BY <1>1, <1>2, <1>3, <1>4, <1>5 DEF StepTypes

LEMMA ConnectFailsTypes ==
    ASSUME Types, WaitInv, NEW x \in Actor, ConnectFails(x)
    PROVE  StepTypes'
<1>1. PcType'
  BY AuthAssumption, AfterAuthStep DEF Types, PcType, ConnectFails, Goto, Step, Actor
<1>2. StoreType'
  BY AuthAssumption, EntryWrites, FencedWrites DEF Types, StoreType, EntryType, ConnectFails, store, Actor, NewProvider
<1>3. ManagerType'
  BY AuthAssumption DEF Types, ManagerType, ConnectFails, manager, Actor, BeginAttempt
<1>4. ListenerType'
  BY AuthAssumption DEF Types, ListenerType, ConnectFails, listener, Actor, Taken
<1>5. FlowType'
  BY AuthAssumption DEF Types, FlowType, ConnectFails, Actor, StoreType, EntryType, ManagerType
<1> QED BY <1>1, <1>2, <1>3, <1>4, <1>5 DEF StepTypes

LEMMA ChallengedTypes ==
    ASSUME Types, WaitInv, NEW x \in Actor, Challenged(x)
    PROVE  StepTypes'
<1>1. PcType'
  BY AuthAssumption, AfterAuthStep DEF Types, PcType, Challenged, Goto, Step, Actor
<1>2. StoreType'
  BY AuthAssumption, EntryWrites, FencedWrites DEF Types, StoreType, EntryType, Challenged, store, Actor, NewProvider
<1>3. ManagerType'
  BY AuthAssumption DEF Types, ManagerType, Challenged, manager, Actor, BeginAttempt
<1>4. ListenerType'
  BY AuthAssumption DEF Types, ListenerType, Challenged, listener, Actor, Taken
<1>5. FlowType'
  BY AuthAssumption DEF Types, FlowType, Challenged, Actor, StoreType, EntryType, ManagerType
<1> QED BY <1>1, <1>2, <1>3, <1>4, <1>5 DEF StepTypes

LEMMA CreateStateTypes ==
    ASSUME Types, WaitInv, NEW x \in Actor, CreateState(x)
    PROVE  StepTypes'
<1>1. PcType'
  BY AuthAssumption, AfterAuthStep DEF Types, PcType, CreateState, Goto, Step, Actor
<1>2. StoreType'
  BY AuthAssumption, EntryWrites, FencedWrites DEF Types, StoreType, EntryType, CreateState, store, Actor, NewProvider
<1>3. ManagerType'
  BY AuthAssumption DEF Types, ManagerType, CreateState, manager, Actor, BeginAttempt
<1>4. ListenerType'
  BY AuthAssumption DEF Types, ListenerType, CreateState, listener, Actor, Taken
<1>5. FlowType'
  BY AuthAssumption DEF Types, FlowType, CreateState, Actor, StoreType, EntryType, ManagerType
<1> QED BY <1>1, <1>2, <1>3, <1>4, <1>5 DEF StepTypes

LEMMA SaveCodeVerifierTypes ==
    ASSUME Types, WaitInv, NEW x \in Actor, SaveCodeVerifier(x)
    PROVE  StepTypes'
<1>1. PcType'
  BY AuthAssumption, AfterAuthStep DEF Types, PcType, SaveCodeVerifier, Goto, Step, Actor
<1>2. StoreType'
  BY AuthAssumption, EntryWrites, FencedWrites DEF Types, StoreType, EntryType, SaveCodeVerifier, store, Actor, NewProvider
<1>3. ManagerType'
  BY AuthAssumption DEF Types, ManagerType, SaveCodeVerifier, manager, Actor, BeginAttempt
<1>4. ListenerType'
  BY AuthAssumption DEF Types, ListenerType, SaveCodeVerifier, listener, Actor, Taken
<1>5. FlowType'
  BY AuthAssumption DEF Types, FlowType, SaveCodeVerifier, Actor, StoreType, EntryType, ManagerType
<1> QED BY <1>1, <1>2, <1>3, <1>4, <1>5 DEF StepTypes

LEMMA RedirectTypes ==
    ASSUME Types, WaitInv, NEW x \in Actor, Redirect(x)
    PROVE  StepTypes'
<1>1. PcType'
  BY AuthAssumption, AfterAuthStep DEF Types, PcType, Redirect, Goto, Step, Actor
<1>2. StoreType'
  BY AuthAssumption, EntryWrites, FencedWrites DEF Types, StoreType, EntryType, Redirect, store, Actor, NewProvider
<1>3. ManagerType'
  BY AuthAssumption DEF Types, ManagerType, Redirect, manager, Actor, BeginAttempt
<1>4. ListenerType'
  BY AuthAssumption DEF Types, ListenerType, Redirect, listener, Actor, Taken
<1>5. FlowType'
  BY AuthAssumption DEF Types, FlowType, Redirect, Actor, StoreType, EntryType, ManagerType
<1> QED BY <1>1, <1>2, <1>3, <1>4, <1>5 DEF StepTypes

LEMMA OpenTypes ==
    ASSUME Types, WaitInv, NEW x \in Actor, Open(x)
    PROVE  StepTypes'
<1>1. PcType'
  BY AuthAssumption, AfterAuthStep DEF Types, PcType, Open, Goto, Step, Actor
<1>2. StoreType'
  BY AuthAssumption, EntryWrites, FencedWrites DEF Types, StoreType, EntryType, Open, store, Actor, NewProvider
<1>3. ManagerType'
  BY AuthAssumption DEF Types, ManagerType, Open, manager, Actor, BeginAttempt
<1>4. ListenerType'
  BY AuthAssumption DEF Types, ListenerType, Open, listener, Actor, Taken
<1>5. FlowType'
  BY AuthAssumption DEF Types, FlowType, Open, Actor, StoreType, EntryType, ManagerType
<1> QED BY <1>1, <1>2, <1>3, <1>4, <1>5 DEF StepTypes

LEMMA ResumedTypes ==
    ASSUME Types, WaitInv, NEW x \in Actor, Resumed(x)
    PROVE  StepTypes'
<1>1. PcType'
  BY AuthAssumption, AfterAuthStep DEF Types, PcType, Resumed, Goto, Step, Actor
<1>2. StoreType'
  BY AuthAssumption, EntryWrites, FencedWrites DEF Types, StoreType, EntryType, Resumed, store, Actor, NewProvider
<1>3. ManagerType'
  BY AuthAssumption DEF Types, ManagerType, Resumed, manager, Actor, BeginAttempt
<1>4. ListenerType'
  BY AuthAssumption DEF Types, ListenerType, Resumed, listener, Actor, Taken
<1>5. FlowType'
  BY AuthAssumption DEF Types, FlowType, Resumed, Actor, StoreType, EntryType, ManagerType
<1> QED BY <1>1, <1>2, <1>3, <1>4, <1>5 DEF StepTypes

LEMMA ExchangeTypes ==
    ASSUME Types, WaitInv, NEW x \in Actor, Exchange(x)
    PROVE  StepTypes'
<1>1. PcType'
  BY AuthAssumption, AfterAuthStep DEF Types, PcType, Exchange, Goto, Step, Actor
<1>2. StoreType'
  BY AuthAssumption, EntryWrites, FencedWrites DEF Types, StoreType, EntryType, Exchange, store, Actor, NewProvider
<1>3. ManagerType'
  BY AuthAssumption DEF Types, ManagerType, Exchange, manager, Actor, BeginAttempt
<1>4. ListenerType'
  BY AuthAssumption DEF Types, ListenerType, Exchange, listener, Actor, Taken
<1>5. FlowType'
  BY AuthAssumption DEF Types, FlowType, Exchange, Actor, StoreType, EntryType, ManagerType
<1> QED BY <1>1, <1>2, <1>3, <1>4, <1>5 DEF StepTypes

LEMMA SaveTokensTypes ==
    ASSUME Types, WaitInv, NEW x \in Actor, SaveTokens(x)
    PROVE  StepTypes'
<1>1. PcType'
  BY AuthAssumption, AfterAuthStep DEF Types, PcType, SaveTokens, Goto, Step, Actor
<1>2. StoreType'
  <2>1. using[x] \in Actor /\ FencedWrite(using[x], "tokens", using[x])
    BY DEF SaveTokens, WaitInv, ActorsKnow
  <2>2. entry' = IF fence = using[x]
                 THEN [state |-> entry.state, verifier |-> entry.verifier, tokens |-> using[x]]
                 ELSE entry
    BY <2>1, FencedWrites DEF Types, StoreType
  <2> QED BY <2>1, <2>2 DEF Types, StoreType, EntryType, SaveTokens
<1>3. ManagerType'
  BY AuthAssumption DEF Types, ManagerType, SaveTokens, manager, Actor, BeginAttempt
<1>4. ListenerType'
  BY AuthAssumption DEF Types, ListenerType, SaveTokens, listener, Actor, Taken
<1>5. FlowType'
  BY AuthAssumption DEF Types, FlowType, SaveTokens, Actor, StoreType, EntryType, ManagerType
<1> QED BY <1>1, <1>2, <1>3, <1>4, <1>5 DEF StepTypes

LEMMA UpdateStateTypes ==
    ASSUME Types, WaitInv, NEW x \in Login, UpdateState(x)
    PROVE  StepTypes'
<1>1. PcType'
  BY AuthAssumption, AfterAuthStep DEF Types, PcType, UpdateState, Goto, Step, Actor
<1>2. StoreType'
  BY AuthAssumption, EntryWrites, FencedWrites DEF Types, StoreType, EntryType, UpdateState, store, Actor, NewProvider
<1>3. ManagerType'
  BY AuthAssumption DEF Types, ManagerType, UpdateState, manager, Actor, BeginAttempt
<1>4. ListenerType'
  BY AuthAssumption DEF Types, ListenerType, UpdateState, listener, Actor, Taken
<1>5. FlowType'
  BY AuthAssumption DEF Types, FlowType, UpdateState, Actor, StoreType, EntryType, ManagerType
<1> QED BY <1>1, <1>2, <1>3, <1>4, <1>5 DEF StepTypes

LEMMA MatchTypes ==
    ASSUME Types, WaitInv, NEW x \in Login, Match(x)
    PROVE  StepTypes'
<1>1. PcType'
  BY AuthAssumption, AfterAuthStep DEF Types, PcType, Match, Goto, Step, Actor
<1>2. StoreType'
  BY AuthAssumption, EntryWrites, FencedWrites DEF Types, StoreType, EntryType, Match, store, Actor, NewProvider
<1>3. ManagerType'
  BY AuthAssumption DEF Types, ManagerType, Match, manager, Actor, BeginAttempt
<1>4. ListenerType'
  BY AuthAssumption DEF Types, ListenerType, Match, listener, Actor, Taken
<1>5. FlowType'
  BY AuthAssumption DEF Types, FlowType, Match, Actor, StoreType, EntryType, ManagerType
<1> QED BY <1>1, <1>2, <1>3, <1>4, <1>5 DEF StepTypes

LEMMA ClearOAuthStateTypes ==
    ASSUME Types, WaitInv, NEW x \in Login, ClearOAuthState(x)
    PROVE  StepTypes'
<1>1. PcType'
  BY AuthAssumption, AfterAuthStep DEF Types, PcType, ClearOAuthState, Goto, Step, Actor
<1>2. StoreType'
  BY AuthAssumption, EntryWrites, FencedWrites DEF Types, StoreType, EntryType, ClearOAuthState, store, Actor, NewProvider
<1>3. ManagerType'
  BY AuthAssumption DEF Types, ManagerType, ClearOAuthState, manager, Actor, BeginAttempt
<1>4. ListenerType'
  BY AuthAssumption DEF Types, ListenerType, ClearOAuthState, listener, Actor, Taken
<1>5. FlowType'
  BY AuthAssumption DEF Types, FlowType, ClearOAuthState, Actor, StoreType, EntryType, ManagerType
<1> QED BY <1>1, <1>2, <1>3, <1>4, <1>5 DEF StepTypes

LEMMA ClearCodeVerifierTypes ==
    ASSUME Types, WaitInv, NEW x \in Login, ClearCodeVerifier(x)
    PROVE  StepTypes'
<1>1. PcType'
  BY AuthAssumption, AfterAuthStep DEF Types, PcType, ClearCodeVerifier, Goto, Step, Actor
<1>2. StoreType'
  BY AuthAssumption, EntryWrites, FencedWrites DEF Types, StoreType, EntryType, ClearCodeVerifier, store, Actor, NewProvider
<1>3. ManagerType'
  BY AuthAssumption DEF Types, ManagerType, ClearCodeVerifier, manager, Actor, BeginAttempt
<1>4. ListenerType'
  BY AuthAssumption DEF Types, ListenerType, ClearCodeVerifier, listener, Actor, Taken
<1>5. FlowType'
  BY AuthAssumption DEF Types, FlowType, ClearCodeVerifier, Actor, StoreType, EntryType, ManagerType
<1> QED BY <1>1, <1>2, <1>3, <1>4, <1>5 DEF StepTypes

LEMMA ReconnectTypes ==
    ASSUME Types, WaitInv, NEW x \in Login, Reconnect(x)
    PROVE  StepTypes'
<1>1. PcType'
  BY AuthAssumption, AfterAuthStep DEF Types, PcType, Reconnect, Goto, Step, Actor
<1>2. StoreType'
  BY AuthAssumption, EntryWrites, FencedWrites DEF Types, StoreType, EntryType, Reconnect, store, Actor, NewProvider
<1>3. ManagerType'
  BY AuthAssumption DEF Types, ManagerType, Reconnect, manager, Actor, BeginAttempt
<1>4. ListenerType'
  BY AuthAssumption DEF Types, ListenerType, Reconnect, listener, Actor, Taken
<1>5. FlowType'
  BY AuthAssumption DEF Types, FlowType, Reconnect, Actor, StoreType, EntryType, ManagerType
<1> QED BY <1>1, <1>2, <1>3, <1>4, <1>5 DEF StepTypes

LEMMA ReconnectedTypes ==
    ASSUME Types, WaitInv, NEW x \in Login, Reconnected(x)
    PROVE  StepTypes'
<1>1. PcType'
  BY AuthAssumption, AfterAuthStep DEF Types, PcType, Reconnected, Goto, Step, Actor
<1>2. StoreType'
  BY AuthAssumption, EntryWrites, FencedWrites DEF Types, StoreType, EntryType, Reconnected, store, Actor, NewProvider
<1>3. ManagerType'
  BY AuthAssumption DEF Types, ManagerType, Reconnected, manager, Actor, BeginAttempt
<1>4. ListenerType'
  BY AuthAssumption DEF Types, ListenerType, Reconnected, listener, Actor, Taken
<1>5. FlowType'
  BY AuthAssumption DEF Types, FlowType, Reconnected, Actor, StoreType, EntryType, ManagerType
<1> QED BY <1>1, <1>2, <1>3, <1>4, <1>5 DEF StepTypes

LEMMA CleanTypes ==
    ASSUME Types, WaitInv, NEW x \in Login, Clean(x)
    PROVE  StepTypes'
<1>1. PcType'
  BY AuthAssumption, AfterAuthStep DEF Types, PcType, Clean, Goto, Step, Actor
<1>2. StoreType'
  BY AuthAssumption, EntryWrites, FencedWrites DEF Types, StoreType, EntryType, Clean, store, Actor, NewProvider
<1>3. ManagerType'
  BY AuthAssumption DEF Types, ManagerType, Clean, manager, Actor, BeginAttempt
<1>4. ListenerType'
  BY CancelEnds DEF Types, ListenerType, Clean, WaitsEnd
<1>5. FlowType'
  BY AuthAssumption DEF Types, FlowType, Clean, Actor, StoreType, EntryType, ManagerType
<1> QED BY <1>1, <1>2, <1>3, <1>4, <1>5 DEF StepTypes

LEMMA JoinedTypes ==
    ASSUME Types, WaitInv, NEW x \in Login, Joined(x)
    PROVE  StepTypes'
<1>1. PcType'
  BY AuthAssumption, AfterAuthStep DEF Types, PcType, Joined, Goto, Step, Actor
<1>2. StoreType'
  BY AuthAssumption, EntryWrites, FencedWrites DEF Types, StoreType, EntryType, Joined, store, Actor, NewProvider
<1>3. ManagerType'
  BY AuthAssumption DEF Types, ManagerType, Joined, manager, Actor, BeginAttempt
<1>4. ListenerType'
  BY AuthAssumption DEF Types, ListenerType, Joined, listener, Actor, Taken
<1>5. FlowType'
  BY AuthAssumption DEF Types, FlowType, Joined, Actor, StoreType, EntryType, ManagerType
<1> QED BY <1>1, <1>2, <1>3, <1>4, <1>5 DEF StepTypes

LEMMA ListAfterLoginTypes ==
    ASSUME Types, WaitInv, NEW x \in Login, ListAfterLogin(x)
    PROVE  StepTypes'
<1>1. PcType'
  BY AuthAssumption, AfterAuthStep DEF Types, PcType, ListAfterLogin, Goto, Step, Actor
<1>2. StoreType'
  BY AuthAssumption, EntryWrites, FencedWrites DEF Types, StoreType, EntryType, ListAfterLogin, store, Actor, NewProvider
<1>3. ManagerType'
  BY AuthAssumption DEF Types, ManagerType, ListAfterLogin, manager, Actor, BeginAttempt
<1>4. ListenerType'
  BY AuthAssumption DEF Types, ListenerType, ListAfterLogin, listener, Actor, Taken
<1>5. FlowType'
  BY AuthAssumption DEF Types, FlowType, ListAfterLogin, Actor, StoreType, EntryType, ManagerType
<1> QED BY <1>1, <1>2, <1>3, <1>4, <1>5 DEF StepTypes

LEMMA StoreClientTypes ==
    ASSUME Types, WaitInv, NEW x \in Login, StoreClient(x)
    PROVE  StepTypes'
<1>1. PcType'
  BY AuthAssumption, AfterAuthStep DEF Types, PcType, StoreClient, Goto, Step, Actor
<1>2. StoreType'
  BY AuthAssumption, EntryWrites, FencedWrites DEF Types, StoreType, EntryType, StoreClient, store, Actor, NewProvider
<1>3. ManagerType'
  BY AuthAssumption DEF Types, ManagerType, StoreClient, manager, Actor, BeginAttempt
<1>4. ListenerType'
  BY AuthAssumption DEF Types, ListenerType, StoreClient, listener, Actor, Taken
<1>5. FlowType'
  BY AuthAssumption DEF Types, FlowType, StoreClient, Actor, StoreType, EntryType, ManagerType
<1> QED BY <1>1, <1>2, <1>3, <1>4, <1>5 DEF StepTypes

LEMMA ReplacedTypes ==
    ASSUME Types, WaitInv, NEW x \in Attempt, Replaced(x)
    PROVE  StepTypes'
<1>1. PcType'
  BY AuthAssumption, AfterAuthStep DEF Types, PcType, Replaced, Goto, Step, Actor
<1>2. StoreType'
  BY AuthAssumption, EntryWrites, FencedWrites DEF Types, StoreType, EntryType, Replaced, store, Actor, NewProvider
<1>3. ManagerType'
  BY AuthAssumption DEF Types, ManagerType, Replaced, manager, Actor, BeginAttempt
<1>4. ListenerType'
  BY AuthAssumption DEF Types, ListenerType, Replaced, listener, Actor, Taken
<1>5. FlowType'
  BY AuthAssumption DEF Types, FlowType, Replaced, Actor, StoreType, EntryType, ManagerType
<1> QED BY <1>1, <1>2, <1>3, <1>4, <1>5 DEF StepTypes

LEMMA AttemptTimesOutTypes ==
    ASSUME Types, WaitInv, NEW x \in Attempt, AttemptTimesOut(x)
    PROVE  StepTypes'
<1>1. PcType'
  BY AuthAssumption, AfterAuthStep DEF Types, PcType, AttemptTimesOut, Goto, Step, Actor
<1>2. StoreType'
  BY AuthAssumption, EntryWrites, FencedWrites DEF Types, StoreType, EntryType, AttemptTimesOut, store, Actor, NewProvider
<1>3. ManagerType'
  BY AuthAssumption DEF Types, ManagerType, AttemptTimesOut, manager, Actor, BeginAttempt
<1>4. ListenerType'
  BY AuthAssumption DEF Types, ListenerType, AttemptTimesOut, listener, Actor, Taken
<1>5. FlowType'
  BY AuthAssumption DEF Types, FlowType, AttemptTimesOut, Actor, StoreType, EntryType, ManagerType
<1> QED BY <1>1, <1>2, <1>3, <1>4, <1>5 DEF StepTypes

LEMMA NeedsAuthTypes ==
    ASSUME Types, WaitInv, NEW x \in Attempt, NeedsAuth(x)
    PROVE  StepTypes'
<1>1. PcType'
  BY AuthAssumption, AfterAuthStep DEF Types, PcType, NeedsAuth, Goto, Step, Actor
<1>2. StoreType'
  BY AuthAssumption, EntryWrites, FencedWrites DEF Types, StoreType, EntryType, NeedsAuth, store, Actor, NewProvider
<1>3. ManagerType'
  BY AuthAssumption DEF Types, ManagerType, NeedsAuth, manager, Actor, BeginAttempt
<1>4. ListenerType'
  BY AuthAssumption DEF Types, ListenerType, NeedsAuth, listener, Actor, Taken
<1>5. FlowType'
  BY AuthAssumption DEF Types, FlowType, NeedsAuth, Actor, StoreType, EntryType, ManagerType
<1> QED BY <1>1, <1>2, <1>3, <1>4, <1>5 DEF StepTypes

LEMMA ListTypes ==
    ASSUME Types, WaitInv, NEW x \in Attempt, List(x)
    PROVE  StepTypes'
<1>1. PcType'
  BY AuthAssumption, AfterAuthStep DEF Types, PcType, List, Goto, Step, Actor
<1>2. StoreType'
  BY AuthAssumption, EntryWrites, FencedWrites DEF Types, StoreType, EntryType, List, store, Actor, NewProvider
<1>3. ManagerType'
  BY AuthAssumption DEF Types, ManagerType, List, manager, Actor, BeginAttempt
<1>4. ListenerType'
  BY AuthAssumption DEF Types, ListenerType, List, listener, Actor, Taken
<1>5. FlowType'
  BY AuthAssumption DEF Types, FlowType, List, Actor, StoreType, EntryType, ManagerType
<1> QED BY <1>1, <1>2, <1>3, <1>4, <1>5 DEF StepTypes

LEMMA AnswerTypes ==
    ASSUME Types, WaitInv, NEW x \in Actor, Answer(x)
    PROVE  StepTypes'
<1>1. PcType'
  BY AuthAssumption, AfterAuthStep DEF Types, PcType, Answer, Goto, Step, Actor
<1>2. StoreType'
  BY AuthAssumption, EntryWrites, FencedWrites DEF Types, StoreType, EntryType, Answer, store, Actor, NewProvider
<1>3. ManagerType'
  BY AuthAssumption DEF Types, ManagerType, Answer, manager, Actor, BeginAttempt
<1>4. ListenerType'
  BY AnswerEnds DEF Types, ListenerType, Answer, WaitsEnd
<1>5. FlowType'
  BY AuthAssumption DEF Types, FlowType, Answer, Actor, StoreType, EntryType, ManagerType
<1> QED BY <1>1, <1>2, <1>3, <1>4, <1>5 DEF StepTypes

LEMMA TimedOutTypes ==
    ASSUME Types, WaitInv, NEW x \in Actor, TimedOut(x)
    PROVE  StepTypes'
<1>1. PcType'
  BY AuthAssumption, AfterAuthStep DEF Types, PcType, TimedOut, Goto, Step, Actor
<1>2. StoreType'
  BY AuthAssumption, EntryWrites, FencedWrites DEF Types, StoreType, EntryType, TimedOut, store, Actor, NewProvider
<1>3. ManagerType'
  BY AuthAssumption DEF Types, ManagerType, TimedOut, manager, Actor, BeginAttempt
<1>4. ListenerType'
  BY TimedOutEnds DEF Types, ListenerType, TimedOut, WaitsEnd
<1>5. FlowType'
  BY AuthAssumption DEF Types, FlowType, TimedOut, Actor, StoreType, EntryType, ManagerType
<1> QED BY <1>1, <1>2, <1>3, <1>4, <1>5 DEF StepTypes


-----------------------------------------------------------------------------
(* What each step does to the waits. *)

LEMMA AuthenticateWaits ==
    ASSUME Types, WaitInv, NEW x \in Login, Authenticate(x)
    PROVE  WaitInv'
<1>1. SlotsHold'
  BY AuthAssumption, AfterAuthStep DEF Types, PcType, ListenerType, FlowType, WaitInv, SlotsHold, LoginsWait, AttemptsWait, ActorsKnow,
         Authenticate, Goto, Taken, Key, listener, Actor
<1>2. LoginsWait'
  BY AuthAssumption, AfterAuthStep DEF Types, PcType, ListenerType, FlowType, WaitInv, SlotsHold, LoginsWait, AttemptsWait, ActorsKnow,
         Authenticate, Goto, Taken, Key, listener, Actor
<1>3. AttemptsWait'
  BY AuthAssumption, AfterAuthStep DEF Types, PcType, ListenerType, FlowType, WaitInv, SlotsHold, LoginsWait, AttemptsWait, ActorsKnow,
         Authenticate, Goto, Taken, Key, listener, Actor
<1>4. ActorsKnow'
  BY AuthAssumption, AfterAuthStep DEF Types, PcType, ListenerType, FlowType, WaitInv, SlotsHold, LoginsWait, AttemptsWait, ActorsKnow,
         Authenticate, Goto, Taken, Key, listener, Actor
<1> QED BY <1>1, <1>2, <1>3, <1>4 DEF WaitInv

LEMMA ConnectWaits ==
    ASSUME Types, WaitInv, NEW x \in Attempt, Connect(x)
    PROVE  WaitInv'
<1>1. SlotsHold'
  BY AuthAssumption, AfterAuthStep DEF Types, PcType, ListenerType, FlowType, WaitInv, SlotsHold, LoginsWait, AttemptsWait, ActorsKnow,
         Connect, Goto, Taken, Key, listener, Actor
<1>2. LoginsWait'
  BY AuthAssumption, AfterAuthStep DEF Types, PcType, ListenerType, FlowType, WaitInv, SlotsHold, LoginsWait, AttemptsWait, ActorsKnow,
         Connect, Goto, Taken, Key, listener, Actor
<1>3. AttemptsWait'
  BY AuthAssumption, AfterAuthStep DEF Types, PcType, ListenerType, FlowType, WaitInv, SlotsHold, LoginsWait, AttemptsWait, ActorsKnow,
         Connect, Goto, Taken, Key, listener, Actor
<1>4. ActorsKnow'
  BY AuthAssumption, AfterAuthStep DEF Types, PcType, ListenerType, FlowType, WaitInv, SlotsHold, LoginsWait, AttemptsWait, ActorsKnow,
         Connect, Goto, Taken, Key, listener, Actor
<1> QED BY <1>1, <1>2, <1>3, <1>4 DEF WaitInv

LEMMA StartedWaits ==
    ASSUME Types, WaitInv, NEW x \in Actor, Started(x)
    PROVE  WaitInv'
<1>1. SlotsHold'
  BY AuthAssumption, AfterAuthStep DEF Types, PcType, ListenerType, FlowType, WaitInv, SlotsHold, LoginsWait, AttemptsWait, ActorsKnow,
         Started, Goto, Taken, Key, listener, Actor
<1>2. LoginsWait'
  BY AuthAssumption, AfterAuthStep DEF Types, PcType, ListenerType, FlowType, WaitInv, SlotsHold, LoginsWait, AttemptsWait, ActorsKnow,
         Started, Goto, Taken, Key, listener, Actor
<1>3. AttemptsWait'
  BY AuthAssumption, AfterAuthStep DEF Types, PcType, ListenerType, FlowType, WaitInv, SlotsHold, LoginsWait, AttemptsWait, ActorsKnow,
         Started, Goto, Taken, Key, listener, Actor
<1>4. ActorsKnow'
  BY AuthAssumption, AfterAuthStep DEF Types, PcType, ListenerType, FlowType, WaitInv, SlotsHold, LoginsWait, AttemptsWait, ActorsKnow,
         Started, Goto, Taken, Key, listener, Actor
<1> QED BY <1>1, <1>2, <1>3, <1>4 DEF WaitInv

LEMMA AcceptedWaits ==
    ASSUME Types, WaitInv, NEW x \in Actor, Accepted(x)
    PROVE  WaitInv'
<1>1. CASE x \in Login /\ CancelCallback /\ Goto(x, "joining")
  <2>1. WaitsEnd /\ UNCHANGED <<opened, asked, using>>
    BY <1>1, CancelEnds DEF Accepted
  <2>2. \A y \in Actor : pc'[y] = pc[y] \/ (y \in Login /\ pc'[y] \in {"joining", "failing"})
    BY <1>1 DEF Goto, Types, PcType
  <2> QED BY <2>1, <2>2, EndsKeep
<1>2. CASE /\ x \in Attempt
           /\ pc' = [pc EXCEPT ![x] = IF connectionAttempt = x THEN "listing" ELSE "ended"]
           /\ UNCHANGED <<pendingByState, stateByServer, callback>>
  <2>1. x \notin Login /\ pc[x] = "connecting" /\ UNCHANGED <<opened, asked, using>>
    BY <1>2, AuthAssumption DEF Accepted
  <2> USE DEF Types, PcType, WaitInv
  <2>2. SlotsHold'
    BY <1>2, <2>1 DEF SlotsHold, Key
  <2>3. LoginsWait'
    BY <1>2, <2>1 DEF LoginsWait
  <2>4. AttemptsWait'
    BY <1>2, <2>1 DEF AttemptsWait, Actor
  <2>5. ActorsKnow'
    BY <1>2, <2>1 DEF ActorsKnow
  <2> QED BY <2>2, <2>3, <2>4, <2>5
<1> QED BY <1>1, <1>2 DEF Accepted, Goto

LEMMA ConnectFailsWaits ==
    ASSUME Types, WaitInv, NEW x \in Actor, ConnectFails(x)
    PROVE  WaitInv'
<1>1. SlotsHold'
  BY AuthAssumption, AfterAuthStep DEF Types, PcType, ListenerType, FlowType, WaitInv, SlotsHold, LoginsWait, AttemptsWait, ActorsKnow,
         ConnectFails, Goto, Taken, Key, listener, Actor
<1>2. LoginsWait'
  BY AuthAssumption, AfterAuthStep DEF Types, PcType, ListenerType, FlowType, WaitInv, SlotsHold, LoginsWait, AttemptsWait, ActorsKnow,
         ConnectFails, Goto, Taken, Key, listener, Actor
<1>3. AttemptsWait'
  BY AuthAssumption, AfterAuthStep DEF Types, PcType, ListenerType, FlowType, WaitInv, SlotsHold, LoginsWait, AttemptsWait, ActorsKnow,
         ConnectFails, Goto, Taken, Key, listener, Actor
<1>4. ActorsKnow'
  BY AuthAssumption, AfterAuthStep DEF Types, PcType, ListenerType, FlowType, WaitInv, SlotsHold, LoginsWait, AttemptsWait, ActorsKnow,
         ConnectFails, Goto, Taken, Key, listener, Actor
<1> QED BY <1>1, <1>2, <1>3, <1>4 DEF WaitInv

LEMMA ChallengedWaits ==
    ASSUME Types, WaitInv, NEW x \in Actor, Challenged(x)
    PROVE  WaitInv'
<1>1. SlotsHold'
  BY AuthAssumption, AfterAuthStep DEF StoreType, EntryType, Types, PcType, ListenerType, FlowType, WaitInv, SlotsHold, LoginsWait, AttemptsWait, ActorsKnow,
         Challenged, Goto, Taken, Key, listener, Actor
<1>2. LoginsWait'
  BY AuthAssumption, AfterAuthStep DEF StoreType, EntryType, Types, PcType, ListenerType, FlowType, WaitInv, SlotsHold, LoginsWait, AttemptsWait, ActorsKnow,
         Challenged, Goto, Taken, Key, listener, Actor
<1>3. AttemptsWait'
  BY AuthAssumption, AfterAuthStep DEF StoreType, EntryType, Types, PcType, ListenerType, FlowType, WaitInv, SlotsHold, LoginsWait, AttemptsWait, ActorsKnow,
         Challenged, Goto, Taken, Key, listener, Actor
<1>4. ActorsKnow'
  BY AuthAssumption, AfterAuthStep DEF StoreType, EntryType, Types, PcType, ListenerType, FlowType, WaitInv, SlotsHold, LoginsWait, AttemptsWait, ActorsKnow,
         Challenged, Goto, Taken, Key, listener, Actor
<1> QED BY <1>1, <1>2, <1>3, <1>4 DEF WaitInv

LEMMA CreateStateWaits ==
    ASSUME Types, WaitInv, NEW x \in Actor, CreateState(x)
    PROVE  WaitInv'
<1>1. SlotsHold'
  BY AuthAssumption, AfterAuthStep DEF Types, PcType, ListenerType, FlowType, WaitInv, SlotsHold, LoginsWait, AttemptsWait, ActorsKnow,
         CreateState, Goto, Taken, Key, listener, Actor
<1>2. LoginsWait'
  BY AuthAssumption, AfterAuthStep DEF Types, PcType, ListenerType, FlowType, WaitInv, SlotsHold, LoginsWait, AttemptsWait, ActorsKnow,
         CreateState, Goto, Taken, Key, listener, Actor
<1>3. AttemptsWait'
  BY AuthAssumption, AfterAuthStep DEF Types, PcType, ListenerType, FlowType, WaitInv, SlotsHold, LoginsWait, AttemptsWait, ActorsKnow,
         CreateState, Goto, Taken, Key, listener, Actor
<1>4. ActorsKnow'
  BY AuthAssumption, AfterAuthStep DEF Types, PcType, ListenerType, FlowType, WaitInv, SlotsHold, LoginsWait, AttemptsWait, ActorsKnow,
         CreateState, Goto, Taken, Key, listener, Actor
<1> QED BY <1>1, <1>2, <1>3, <1>4 DEF WaitInv

LEMMA SaveCodeVerifierWaits ==
    ASSUME Types, WaitInv, NEW x \in Actor, SaveCodeVerifier(x)
    PROVE  WaitInv'
<1>1. SlotsHold'
  BY AuthAssumption, AfterAuthStep DEF Types, PcType, ListenerType, FlowType, WaitInv, SlotsHold, LoginsWait, AttemptsWait, ActorsKnow,
         SaveCodeVerifier, Goto, Taken, Key, listener, Actor
<1>2. LoginsWait'
  BY AuthAssumption, AfterAuthStep DEF Types, PcType, ListenerType, FlowType, WaitInv, SlotsHold, LoginsWait, AttemptsWait, ActorsKnow,
         SaveCodeVerifier, Goto, Taken, Key, listener, Actor
<1>3. AttemptsWait'
  BY AuthAssumption, AfterAuthStep DEF Types, PcType, ListenerType, FlowType, WaitInv, SlotsHold, LoginsWait, AttemptsWait, ActorsKnow,
         SaveCodeVerifier, Goto, Taken, Key, listener, Actor
<1>4. ActorsKnow'
  BY AuthAssumption, AfterAuthStep DEF Types, PcType, ListenerType, FlowType, WaitInv, SlotsHold, LoginsWait, AttemptsWait, ActorsKnow,
         SaveCodeVerifier, Goto, Taken, Key, listener, Actor
<1> QED BY <1>1, <1>2, <1>3, <1>4 DEF WaitInv

LEMMA RedirectWaits ==
    ASSUME Types, WaitInv, NEW x \in Actor, Redirect(x)
    PROVE  WaitInv'
<1>1. SlotsHold'
  BY AuthAssumption, AfterAuthStep DEF Types, PcType, ListenerType, FlowType, WaitInv, SlotsHold, LoginsWait, AttemptsWait, ActorsKnow,
         Redirect, Goto, Taken, Key, listener, Actor
<1>2. LoginsWait'
  BY AuthAssumption, AfterAuthStep DEF Types, PcType, ListenerType, FlowType, WaitInv, SlotsHold, LoginsWait, AttemptsWait, ActorsKnow,
         Redirect, Goto, Taken, Key, listener, Actor
<1>3. AttemptsWait'
  BY AuthAssumption, AfterAuthStep DEF Types, PcType, ListenerType, FlowType, WaitInv, SlotsHold, LoginsWait, AttemptsWait, ActorsKnow,
         Redirect, Goto, Taken, Key, listener, Actor
<1>4. ActorsKnow'
  BY AuthAssumption, AfterAuthStep DEF Types, PcType, ListenerType, FlowType, WaitInv, SlotsHold, LoginsWait, AttemptsWait, ActorsKnow,
         Redirect, Goto, Taken, Key, listener, Actor
<1> QED BY <1>1, <1>2, <1>3, <1>4 DEF WaitInv

LEMMA OpenWaits ==
    ASSUME Types, WaitInv, NEW x \in Actor, Open(x)
    PROVE  WaitInv'
<1>1. SlotsHold'
  BY AuthAssumption, AfterAuthStep DEF Types, PcType, ListenerType, FlowType, WaitInv, SlotsHold, LoginsWait, AttemptsWait, ActorsKnow,
         Open, Goto, Taken, Key, listener, Actor
<1>2. LoginsWait'
  BY AuthAssumption, AfterAuthStep DEF Types, PcType, ListenerType, FlowType, WaitInv, SlotsHold, LoginsWait, AttemptsWait, ActorsKnow,
         Open, Goto, Taken, Key, listener, Actor
<1>3. AttemptsWait'
  BY AuthAssumption, AfterAuthStep DEF Types, PcType, ListenerType, FlowType, WaitInv, SlotsHold, LoginsWait, AttemptsWait, ActorsKnow,
         Open, Goto, Taken, Key, listener, Actor
<1>4. ActorsKnow'
  BY AuthAssumption, AfterAuthStep DEF Types, PcType, ListenerType, FlowType, WaitInv, SlotsHold, LoginsWait, AttemptsWait, ActorsKnow,
         Open, Goto, Taken, Key, listener, Actor
<1> QED BY <1>1, <1>2, <1>3, <1>4 DEF WaitInv

LEMMA ResumedWaits ==
    ASSUME Types, WaitInv, NEW x \in Actor, Resumed(x)
    PROVE  WaitInv'
<1>1. SlotsHold'
  BY AuthAssumption, AfterAuthStep DEF Types, PcType, ListenerType, FlowType, WaitInv, SlotsHold, LoginsWait, AttemptsWait, ActorsKnow,
         Resumed, Goto, Taken, Key, listener, Actor
<1>2. LoginsWait'
  BY AuthAssumption, AfterAuthStep DEF Types, PcType, ListenerType, FlowType, WaitInv, SlotsHold, LoginsWait, AttemptsWait, ActorsKnow,
         Resumed, Goto, Taken, Key, listener, Actor
<1>3. AttemptsWait'
  BY AuthAssumption, AfterAuthStep DEF Types, PcType, ListenerType, FlowType, WaitInv, SlotsHold, LoginsWait, AttemptsWait, ActorsKnow,
         Resumed, Goto, Taken, Key, listener, Actor
<1>4. ActorsKnow'
  BY AuthAssumption, AfterAuthStep DEF Types, PcType, ListenerType, FlowType, WaitInv, SlotsHold, LoginsWait, AttemptsWait, ActorsKnow,
         Resumed, Goto, Taken, Key, listener, Actor
<1> QED BY <1>1, <1>2, <1>3, <1>4 DEF WaitInv

LEMMA ExchangeWaits ==
    ASSUME Types, WaitInv, NEW x \in Actor, Exchange(x)
    PROVE  WaitInv'
<1>1. SlotsHold'
  BY AuthAssumption, AfterAuthStep DEF Types, PcType, ListenerType, FlowType, WaitInv, SlotsHold, LoginsWait, AttemptsWait, ActorsKnow,
         Exchange, Goto, Taken, Key, listener, Actor
<1>2. LoginsWait'
  BY AuthAssumption, AfterAuthStep DEF Types, PcType, ListenerType, FlowType, WaitInv, SlotsHold, LoginsWait, AttemptsWait, ActorsKnow,
         Exchange, Goto, Taken, Key, listener, Actor
<1>3. AttemptsWait'
  BY AuthAssumption, AfterAuthStep DEF Types, PcType, ListenerType, FlowType, WaitInv, SlotsHold, LoginsWait, AttemptsWait, ActorsKnow,
         Exchange, Goto, Taken, Key, listener, Actor
<1>4. ActorsKnow'
  BY AuthAssumption, AfterAuthStep DEF Types, PcType, ListenerType, FlowType, WaitInv, SlotsHold, LoginsWait, AttemptsWait, ActorsKnow,
         Exchange, Goto, Taken, Key, listener, Actor
<1> QED BY <1>1, <1>2, <1>3, <1>4 DEF WaitInv

LEMMA SaveTokensWaits ==
    ASSUME Types, WaitInv, NEW x \in Actor, SaveTokens(x)
    PROVE  WaitInv'
<1>1. SlotsHold'
  BY AuthAssumption, AfterAuthStep DEF Types, PcType, ListenerType, FlowType, WaitInv, SlotsHold, LoginsWait, AttemptsWait, ActorsKnow,
         SaveTokens, Goto, Taken, Key, listener, Actor
<1>2. LoginsWait'
  BY AuthAssumption, AfterAuthStep DEF Types, PcType, ListenerType, FlowType, WaitInv, SlotsHold, LoginsWait, AttemptsWait, ActorsKnow,
         SaveTokens, Goto, Taken, Key, listener, Actor
<1>3. AttemptsWait'
  BY AuthAssumption, AfterAuthStep DEF Types, PcType, ListenerType, FlowType, WaitInv, SlotsHold, LoginsWait, AttemptsWait, ActorsKnow,
         SaveTokens, Goto, Taken, Key, listener, Actor
<1>4. ActorsKnow'
  BY AuthAssumption, AfterAuthStep DEF Types, PcType, ListenerType, FlowType, WaitInv, SlotsHold, LoginsWait, AttemptsWait, ActorsKnow,
         SaveTokens, Goto, Taken, Key, listener, Actor
<1> QED BY <1>1, <1>2, <1>3, <1>4 DEF WaitInv

LEMMA UpdateStateWaits ==
    ASSUME Types, WaitInv, NEW x \in Login, UpdateState(x)
    PROVE  WaitInv'
<1>1. SlotsHold'
  BY AuthAssumption, AfterAuthStep DEF Types, PcType, ListenerType, FlowType, WaitInv, SlotsHold, LoginsWait, AttemptsWait, ActorsKnow,
         UpdateState, Goto, Taken, Key, listener, Actor
<1>2. LoginsWait'
  BY AuthAssumption, AfterAuthStep DEF Types, PcType, ListenerType, FlowType, WaitInv, SlotsHold, LoginsWait, AttemptsWait, ActorsKnow,
         UpdateState, Goto, Taken, Key, listener, Actor
<1>3. AttemptsWait'
  BY AuthAssumption, AfterAuthStep DEF Types, PcType, ListenerType, FlowType, WaitInv, SlotsHold, LoginsWait, AttemptsWait, ActorsKnow,
         UpdateState, Goto, Taken, Key, listener, Actor
<1>4. ActorsKnow'
  BY AuthAssumption, AfterAuthStep DEF Types, PcType, ListenerType, FlowType, WaitInv, SlotsHold, LoginsWait, AttemptsWait, ActorsKnow,
         UpdateState, Goto, Taken, Key, listener, Actor
<1> QED BY <1>1, <1>2, <1>3, <1>4 DEF WaitInv

LEMMA MatchWaits ==
    ASSUME Types, WaitInv, NEW x \in Login, Match(x)
    PROVE  WaitInv'
<1>1. SlotsHold'
  BY AuthAssumption, AfterAuthStep DEF Types, PcType, ListenerType, FlowType, WaitInv, SlotsHold, LoginsWait, AttemptsWait, ActorsKnow,
         Match, Goto, Taken, Key, listener, Actor
<1>2. LoginsWait'
  BY AuthAssumption, AfterAuthStep DEF Types, PcType, ListenerType, FlowType, WaitInv, SlotsHold, LoginsWait, AttemptsWait, ActorsKnow,
         Match, Goto, Taken, Key, listener, Actor
<1>3. AttemptsWait'
  BY AuthAssumption, AfterAuthStep DEF Types, PcType, ListenerType, FlowType, WaitInv, SlotsHold, LoginsWait, AttemptsWait, ActorsKnow,
         Match, Goto, Taken, Key, listener, Actor
<1>4. ActorsKnow'
  BY AuthAssumption, AfterAuthStep DEF Types, PcType, ListenerType, FlowType, WaitInv, SlotsHold, LoginsWait, AttemptsWait, ActorsKnow,
         Match, Goto, Taken, Key, listener, Actor
<1> QED BY <1>1, <1>2, <1>3, <1>4 DEF WaitInv

LEMMA ClearOAuthStateWaits ==
    ASSUME Types, WaitInv, NEW x \in Login, ClearOAuthState(x)
    PROVE  WaitInv'
<1>1. SlotsHold'
  BY AuthAssumption, AfterAuthStep DEF Types, PcType, ListenerType, FlowType, WaitInv, SlotsHold, LoginsWait, AttemptsWait, ActorsKnow,
         ClearOAuthState, Goto, Taken, Key, listener, Actor, ManagerType
<1>2. LoginsWait'
  BY AuthAssumption, AfterAuthStep DEF Types, PcType, ListenerType, FlowType, WaitInv, SlotsHold, LoginsWait, AttemptsWait, ActorsKnow,
         ClearOAuthState, Goto, Taken, Key, listener, Actor, ManagerType
<1>3. AttemptsWait'
  BY AuthAssumption, AfterAuthStep DEF Types, PcType, ListenerType, FlowType, WaitInv, SlotsHold, LoginsWait, AttemptsWait, ActorsKnow,
         ClearOAuthState, Goto, Taken, Key, listener, Actor, ManagerType
<1>4. ActorsKnow'
  BY AuthAssumption, AfterAuthStep DEF Types, PcType, ListenerType, FlowType, WaitInv, SlotsHold, LoginsWait, AttemptsWait, ActorsKnow,
         ClearOAuthState, Goto, Taken, Key, listener, Actor, ManagerType
<1> QED BY <1>1, <1>2, <1>3, <1>4 DEF WaitInv

LEMMA ClearCodeVerifierWaits ==
    ASSUME Types, WaitInv, NEW x \in Login, ClearCodeVerifier(x)
    PROVE  WaitInv'
<1>1. SlotsHold'
  BY AuthAssumption, AfterAuthStep DEF Types, PcType, ListenerType, FlowType, WaitInv, SlotsHold, LoginsWait, AttemptsWait, ActorsKnow,
         ClearCodeVerifier, Goto, Taken, Key, listener, Actor
<1>2. LoginsWait'
  BY AuthAssumption, AfterAuthStep DEF Types, PcType, ListenerType, FlowType, WaitInv, SlotsHold, LoginsWait, AttemptsWait, ActorsKnow,
         ClearCodeVerifier, Goto, Taken, Key, listener, Actor
<1>3. AttemptsWait'
  BY AuthAssumption, AfterAuthStep DEF Types, PcType, ListenerType, FlowType, WaitInv, SlotsHold, LoginsWait, AttemptsWait, ActorsKnow,
         ClearCodeVerifier, Goto, Taken, Key, listener, Actor
<1>4. ActorsKnow'
  BY AuthAssumption, AfterAuthStep DEF Types, PcType, ListenerType, FlowType, WaitInv, SlotsHold, LoginsWait, AttemptsWait, ActorsKnow,
         ClearCodeVerifier, Goto, Taken, Key, listener, Actor
<1> QED BY <1>1, <1>2, <1>3, <1>4 DEF WaitInv

LEMMA ReconnectWaits ==
    ASSUME Types, WaitInv, NEW x \in Login, Reconnect(x)
    PROVE  WaitInv'
<1>1. SlotsHold'
  BY AuthAssumption, AfterAuthStep DEF Types, PcType, ListenerType, FlowType, WaitInv, SlotsHold, LoginsWait, AttemptsWait, ActorsKnow,
         Reconnect, Goto, Taken, Key, listener, Actor, ManagerType
<1>2. LoginsWait'
  BY AuthAssumption, AfterAuthStep DEF Types, PcType, ListenerType, FlowType, WaitInv, SlotsHold, LoginsWait, AttemptsWait, ActorsKnow,
         Reconnect, Goto, Taken, Key, listener, Actor, ManagerType
<1>3. AttemptsWait'
  BY AuthAssumption, AfterAuthStep DEF Types, PcType, ListenerType, FlowType, WaitInv, SlotsHold, LoginsWait, AttemptsWait, ActorsKnow,
         Reconnect, Goto, Taken, Key, listener, Actor, ManagerType
<1>4. ActorsKnow'
  BY AuthAssumption, AfterAuthStep DEF Types, PcType, ListenerType, FlowType, WaitInv, SlotsHold, LoginsWait, AttemptsWait, ActorsKnow,
         Reconnect, Goto, Taken, Key, listener, Actor, ManagerType
<1> QED BY <1>1, <1>2, <1>3, <1>4 DEF WaitInv

LEMMA ReconnectedWaits ==
    ASSUME Types, WaitInv, NEW x \in Login, Reconnected(x)
    PROVE  WaitInv'
<1>1. SlotsHold'
  BY AuthAssumption, AfterAuthStep DEF Types, PcType, ListenerType, FlowType, WaitInv, SlotsHold, LoginsWait, AttemptsWait, ActorsKnow,
         Reconnected, Goto, Taken, Key, listener, Actor
<1>2. LoginsWait'
  BY AuthAssumption, AfterAuthStep DEF Types, PcType, ListenerType, FlowType, WaitInv, SlotsHold, LoginsWait, AttemptsWait, ActorsKnow,
         Reconnected, Goto, Taken, Key, listener, Actor
<1>3. AttemptsWait'
  BY AuthAssumption, AfterAuthStep DEF Types, PcType, ListenerType, FlowType, WaitInv, SlotsHold, LoginsWait, AttemptsWait, ActorsKnow,
         Reconnected, Goto, Taken, Key, listener, Actor
<1>4. ActorsKnow'
  BY AuthAssumption, AfterAuthStep DEF Types, PcType, ListenerType, FlowType, WaitInv, SlotsHold, LoginsWait, AttemptsWait, ActorsKnow,
         Reconnected, Goto, Taken, Key, listener, Actor
<1> QED BY <1>1, <1>2, <1>3, <1>4 DEF WaitInv

LEMMA CleanWaits ==
    ASSUME Types, WaitInv, NEW x \in Login, Clean(x)
    PROVE  WaitInv'
<1>1. WaitsEnd /\ UNCHANGED <<opened, asked, using>>
  BY CancelEnds DEF Clean
<1>2. \A y \in Actor : pc'[y] = pc[y] \/ (y \in Login /\ pc'[y] \in {"joining", "failing"})
  BY DEF Clean, Goto, Types, PcType
<1> QED BY <1>1, <1>2, EndsKeep

LEMMA JoinedWaits ==
    ASSUME Types, WaitInv, NEW x \in Login, Joined(x)
    PROVE  WaitInv'
<1>1. SlotsHold'
  BY AuthAssumption, AfterAuthStep DEF Types, PcType, ListenerType, FlowType, WaitInv, SlotsHold, LoginsWait, AttemptsWait, ActorsKnow,
         Joined, Goto, Taken, Key, listener, Actor
<1>2. LoginsWait'
  BY AuthAssumption, AfterAuthStep DEF Types, PcType, ListenerType, FlowType, WaitInv, SlotsHold, LoginsWait, AttemptsWait, ActorsKnow,
         Joined, Goto, Taken, Key, listener, Actor
<1>3. AttemptsWait'
  BY AuthAssumption, AfterAuthStep DEF Types, PcType, ListenerType, FlowType, WaitInv, SlotsHold, LoginsWait, AttemptsWait, ActorsKnow,
         Joined, Goto, Taken, Key, listener, Actor
<1>4. ActorsKnow'
  BY AuthAssumption, AfterAuthStep DEF Types, PcType, ListenerType, FlowType, WaitInv, SlotsHold, LoginsWait, AttemptsWait, ActorsKnow,
         Joined, Goto, Taken, Key, listener, Actor
<1> QED BY <1>1, <1>2, <1>3, <1>4 DEF WaitInv

LEMMA ListAfterLoginWaits ==
    ASSUME Types, WaitInv, NEW x \in Login, ListAfterLogin(x)
    PROVE  WaitInv'
<1>1. SlotsHold'
  BY AuthAssumption, AfterAuthStep DEF Types, PcType, ListenerType, FlowType, WaitInv, SlotsHold, LoginsWait, AttemptsWait, ActorsKnow,
         ListAfterLogin, Goto, Taken, Key, listener, Actor
<1>2. LoginsWait'
  BY AuthAssumption, AfterAuthStep DEF Types, PcType, ListenerType, FlowType, WaitInv, SlotsHold, LoginsWait, AttemptsWait, ActorsKnow,
         ListAfterLogin, Goto, Taken, Key, listener, Actor
<1>3. AttemptsWait'
  BY AuthAssumption, AfterAuthStep DEF Types, PcType, ListenerType, FlowType, WaitInv, SlotsHold, LoginsWait, AttemptsWait, ActorsKnow,
         ListAfterLogin, Goto, Taken, Key, listener, Actor
<1>4. ActorsKnow'
  BY AuthAssumption, AfterAuthStep DEF Types, PcType, ListenerType, FlowType, WaitInv, SlotsHold, LoginsWait, AttemptsWait, ActorsKnow,
         ListAfterLogin, Goto, Taken, Key, listener, Actor
<1> QED BY <1>1, <1>2, <1>3, <1>4 DEF WaitInv

LEMMA StoreClientWaits ==
    ASSUME Types, WaitInv, NEW x \in Login, StoreClient(x)
    PROVE  WaitInv'
<1>1. SlotsHold'
  BY AuthAssumption, AfterAuthStep DEF Types, PcType, ListenerType, FlowType, WaitInv, SlotsHold, LoginsWait, AttemptsWait, ActorsKnow,
         StoreClient, Goto, Taken, Key, listener, Actor
<1>2. LoginsWait'
  BY AuthAssumption, AfterAuthStep DEF Types, PcType, ListenerType, FlowType, WaitInv, SlotsHold, LoginsWait, AttemptsWait, ActorsKnow,
         StoreClient, Goto, Taken, Key, listener, Actor
<1>3. AttemptsWait'
  BY AuthAssumption, AfterAuthStep DEF Types, PcType, ListenerType, FlowType, WaitInv, SlotsHold, LoginsWait, AttemptsWait, ActorsKnow,
         StoreClient, Goto, Taken, Key, listener, Actor
<1>4. ActorsKnow'
  BY AuthAssumption, AfterAuthStep DEF Types, PcType, ListenerType, FlowType, WaitInv, SlotsHold, LoginsWait, AttemptsWait, ActorsKnow,
         StoreClient, Goto, Taken, Key, listener, Actor
<1> QED BY <1>1, <1>2, <1>3, <1>4 DEF WaitInv

LEMMA ReplacedWaits ==
    ASSUME Types, WaitInv, NEW x \in Attempt, Replaced(x)
    PROVE  WaitInv'
<1>1. SlotsHold'
  BY AuthAssumption, AfterAuthStep DEF Types, PcType, ListenerType, FlowType, WaitInv, SlotsHold, LoginsWait, AttemptsWait, ActorsKnow,
         Replaced, Goto, Taken, Key, listener, Actor
<1>2. LoginsWait'
  BY AuthAssumption, AfterAuthStep DEF Types, PcType, ListenerType, FlowType, WaitInv, SlotsHold, LoginsWait, AttemptsWait, ActorsKnow,
         Replaced, Goto, Taken, Key, listener, Actor
<1>3. AttemptsWait'
  BY AuthAssumption, AfterAuthStep DEF Types, PcType, ListenerType, FlowType, WaitInv, SlotsHold, LoginsWait, AttemptsWait, ActorsKnow,
         Replaced, Goto, Taken, Key, listener, Actor
<1>4. ActorsKnow'
  BY AuthAssumption, AfterAuthStep DEF Types, PcType, ListenerType, FlowType, WaitInv, SlotsHold, LoginsWait, AttemptsWait, ActorsKnow,
         Replaced, Goto, Taken, Key, listener, Actor
<1> QED BY <1>1, <1>2, <1>3, <1>4 DEF WaitInv

LEMMA AttemptTimesOutWaits ==
    ASSUME Types, WaitInv, NEW x \in Attempt, AttemptTimesOut(x)
    PROVE  WaitInv'
<1>1. SlotsHold'
  BY AuthAssumption, AfterAuthStep DEF Types, PcType, ListenerType, FlowType, WaitInv, SlotsHold, LoginsWait, AttemptsWait, ActorsKnow,
         AttemptTimesOut, Goto, Taken, Key, listener, Actor
<1>2. LoginsWait'
  BY AuthAssumption, AfterAuthStep DEF Types, PcType, ListenerType, FlowType, WaitInv, SlotsHold, LoginsWait, AttemptsWait, ActorsKnow,
         AttemptTimesOut, Goto, Taken, Key, listener, Actor
<1>3. AttemptsWait'
  BY AuthAssumption, AfterAuthStep DEF Types, PcType, ListenerType, FlowType, WaitInv, SlotsHold, LoginsWait, AttemptsWait, ActorsKnow,
         AttemptTimesOut, Goto, Taken, Key, listener, Actor
<1>4. ActorsKnow'
  BY AuthAssumption, AfterAuthStep DEF Types, PcType, ListenerType, FlowType, WaitInv, SlotsHold, LoginsWait, AttemptsWait, ActorsKnow,
         AttemptTimesOut, Goto, Taken, Key, listener, Actor
<1> QED BY <1>1, <1>2, <1>3, <1>4 DEF WaitInv

LEMMA NeedsAuthWaits ==
    ASSUME Types, WaitInv, NEW x \in Attempt, NeedsAuth(x)
    PROVE  WaitInv'
<1>1. SlotsHold'
  BY AuthAssumption, AfterAuthStep DEF Types, PcType, ListenerType, FlowType, WaitInv, SlotsHold, LoginsWait, AttemptsWait, ActorsKnow,
         NeedsAuth, Goto, Taken, Key, listener, Actor
<1>2. LoginsWait'
  BY AuthAssumption, AfterAuthStep DEF Types, PcType, ListenerType, FlowType, WaitInv, SlotsHold, LoginsWait, AttemptsWait, ActorsKnow,
         NeedsAuth, Goto, Taken, Key, listener, Actor
<1>3. AttemptsWait'
  BY AuthAssumption, AfterAuthStep DEF Types, PcType, ListenerType, FlowType, WaitInv, SlotsHold, LoginsWait, AttemptsWait, ActorsKnow,
         NeedsAuth, Goto, Taken, Key, listener, Actor
<1>4. ActorsKnow'
  BY AuthAssumption, AfterAuthStep DEF Types, PcType, ListenerType, FlowType, WaitInv, SlotsHold, LoginsWait, AttemptsWait, ActorsKnow,
         NeedsAuth, Goto, Taken, Key, listener, Actor
<1> QED BY <1>1, <1>2, <1>3, <1>4 DEF WaitInv

LEMMA ListWaits ==
    ASSUME Types, WaitInv, NEW x \in Attempt, List(x)
    PROVE  WaitInv'
<1>1. SlotsHold'
  BY AuthAssumption, AfterAuthStep DEF Types, PcType, ListenerType, FlowType, WaitInv, SlotsHold, LoginsWait, AttemptsWait, ActorsKnow,
         List, Goto, Taken, Key, listener, Actor
<1>2. LoginsWait'
  BY AuthAssumption, AfterAuthStep DEF Types, PcType, ListenerType, FlowType, WaitInv, SlotsHold, LoginsWait, AttemptsWait, ActorsKnow,
         List, Goto, Taken, Key, listener, Actor
<1>3. AttemptsWait'
  BY AuthAssumption, AfterAuthStep DEF Types, PcType, ListenerType, FlowType, WaitInv, SlotsHold, LoginsWait, AttemptsWait, ActorsKnow,
         List, Goto, Taken, Key, listener, Actor
<1>4. ActorsKnow'
  BY AuthAssumption, AfterAuthStep DEF Types, PcType, ListenerType, FlowType, WaitInv, SlotsHold, LoginsWait, AttemptsWait, ActorsKnow,
         List, Goto, Taken, Key, listener, Actor
<1> QED BY <1>1, <1>2, <1>3, <1>4 DEF WaitInv

LEMMA AnswerWaits ==
    ASSUME Types, WaitInv, NEW x \in Actor, Answer(x)
    PROVE  WaitInv'
<1>1. WaitsEnd /\ opened' \subseteq opened /\ UNCHANGED <<pc, asked, using>>
  BY AnswerEnds DEF Answer
<1> QED BY <1>1, EndsKeep

LEMMA TimedOutWaits ==
    ASSUME Types, WaitInv, NEW x \in Actor, TimedOut(x)
    PROVE  WaitInv'
<1>1. WaitsEnd /\ opened' \subseteq opened /\ UNCHANGED <<pc, asked, using>>
  BY TimedOutEnds DEF TimedOut
<1> QED BY <1>1, EndsKeep

-----------------------------------------------------------------------------
(* The steps of the user and of the end: removal and shutdown. *)

LEMMA CallbacksClosedEnds ==
    ASSUME Types, WaitInv, CallbacksClosed
    PROVE  WaitsEnd
<1>1. \A x \in Actor : (\E st \in Actor : pendingByState[st] = x) => callback[x] = "waiting"
  BY DEF WaitInv, SlotsHold
<1>2. /\ pendingByState' = [st \in Actor |-> None]
      /\ callback' = [x \in Actor |-> IF \E st \in Actor : pendingByState[st] = x THEN "lost" ELSE callback[x]]
      /\ stateByServer' \in {None, stateByServer}
  BY DEF CallbacksClosed
<1> QED BY <1>1, <1>2, AuthAssumption DEF WaitsEnd, Types, ListenerType

LEMMA DisconnectedTypes ==
    ASSUME Types, WaitInv, Disconnected
    PROVE  StepTypes'
<1>1. PcType'
  BY DEF Types, PcType, Disconnected, Goto, Step
<1>2. StoreType'
  BY AuthAssumption DEF Types, StoreType, EntryType, Disconnected, store, DeactivateProviders, EmptyEntry
<1>3. ManagerType'
  BY DEF Types, ManagerType, Disconnected, manager
<1>4. ListenerType'
  BY DEF Types, ListenerType, Disconnected, listener
<1>5. FlowType'
  BY DEF Types, FlowType, Disconnected
<1> QED BY <1>1, <1>2, <1>3, <1>4, <1>5 DEF StepTypes

LEMMA DisconnectedWaits ==
    ASSUME Types, WaitInv, Disconnected
    PROVE  WaitInv'
  BY DEF Disconnected, listener, WaitInv, SlotsHold, Key, LoginsWait, AttemptsWait, ActorsKnow

LEMMA RemoveAuthTypes ==
    ASSUME Types, WaitInv, RemoveAuth
    PROVE  StepTypes'
<1>1. PcType'
  BY DEF Types, PcType, RemoveAuth, Goto, Step
<1>2. StoreType'
  BY AuthAssumption DEF Types, StoreType, EntryType, RemoveAuth, store, DeactivateProviders, EmptyEntry
<1>3. ManagerType'
  BY DEF Types, ManagerType, RemoveAuth, manager
<1>4. ListenerType'
  BY CancelEnds DEF Types, ListenerType, RemoveAuth, WaitsEnd
<1>5. FlowType'
  BY DEF Types, FlowType, RemoveAuth
<1> QED BY <1>1, <1>2, <1>3, <1>4, <1>5 DEF StepTypes

LEMMA RemoveAuthWaits ==
    ASSUME Types, WaitInv, RemoveAuth
    PROVE  WaitInv'
<1>1. WaitsEnd /\ UNCHANGED <<pc, opened, asked, using>>
  BY CancelEnds DEF RemoveAuth
<1> QED BY <1>1, EndsKeep

LEMMA EntryRemovedTypes ==
    ASSUME Types, WaitInv, EntryRemoved
    PROVE  StepTypes'
<1>1. PcType'
  BY DEF Types, PcType, EntryRemoved, Goto, Step
<1>2. StoreType'
  BY AuthAssumption DEF Types, StoreType, EntryType, EntryRemoved, store, DeactivateProviders, EmptyEntry
<1>3. ManagerType'
  BY DEF Types, ManagerType, EntryRemoved, manager
<1>4. ListenerType'
  BY DEF Types, ListenerType, EntryRemoved, listener
<1>5. FlowType'
  BY DEF Types, FlowType, EntryRemoved
<1> QED BY <1>1, <1>2, <1>3, <1>4, <1>5 DEF StepTypes

LEMMA EntryRemovedWaits ==
    ASSUME Types, WaitInv, EntryRemoved
    PROVE  WaitInv'
  BY DEF EntryRemoved, listener, WaitInv, SlotsHold, Key, LoginsWait, AttemptsWait, ActorsKnow

LEMMA ShutdownTypes ==
    ASSUME Types, WaitInv, Shutdown
    PROVE  StepTypes'
<1>1. PcType'
  BY DEF Types, PcType, Shutdown, Goto, Step
<1>2. StoreType'
  BY AuthAssumption DEF Types, StoreType, EntryType, Shutdown, store, DeactivateProviders, EmptyEntry
<1>3. ManagerType'
  BY DEF Types, ManagerType, Shutdown, manager
<1>4. ListenerType'
  BY DEF Types, ListenerType, Shutdown, listener
<1>5. FlowType'
  BY DEF Types, FlowType, Shutdown
<1> QED BY <1>1, <1>2, <1>3, <1>4, <1>5 DEF StepTypes

LEMMA ShutdownWaits ==
    ASSUME Types, WaitInv, Shutdown
    PROVE  WaitInv'
  BY DEF Shutdown, listener, WaitInv, SlotsHold, Key, LoginsWait, AttemptsWait, ActorsKnow

LEMMA CallbacksClosedTypes ==
    ASSUME Types, WaitInv, CallbacksClosed
    PROVE  StepTypes'
<1>1. PcType'
  BY DEF Types, PcType, CallbacksClosed, Goto, Step
<1>2. StoreType'
  BY AuthAssumption DEF Types, StoreType, EntryType, CallbacksClosed, store, DeactivateProviders, EmptyEntry
<1>3. ManagerType'
  BY DEF Types, ManagerType, CallbacksClosed, manager
<1>4. ListenerType'
  BY CallbacksClosedEnds DEF Types, ListenerType, CallbacksClosed, WaitsEnd
<1>5. FlowType'
  BY DEF Types, FlowType, CallbacksClosed
<1> QED BY <1>1, <1>2, <1>3, <1>4, <1>5 DEF StepTypes

LEMMA CallbacksClosedWaits ==
    ASSUME Types, WaitInv, CallbacksClosed
    PROVE  WaitInv'
<1>1. WaitsEnd /\ UNCHANGED <<pc, opened, asked, using>>
  BY CallbacksClosedEnds DEF CallbacksClosed
<1> QED BY <1>1, EndsKeep

LEMMA ClientsClosedTypes ==
    ASSUME Types, WaitInv, ClientsClosed
    PROVE  StepTypes'
<1>1. PcType'
  BY DEF Types, PcType, ClientsClosed, Goto, Step
<1>2. StoreType'
  BY AuthAssumption DEF Types, StoreType, EntryType, ClientsClosed, store, DeactivateProviders, EmptyEntry
<1>3. ManagerType'
  BY DEF Types, ManagerType, ClientsClosed, manager
<1>4. ListenerType'
  BY DEF Types, ListenerType, ClientsClosed, listener
<1>5. FlowType'
  BY DEF Types, FlowType, ClientsClosed
<1> QED BY <1>1, <1>2, <1>3, <1>4, <1>5 DEF StepTypes

LEMMA ClientsClosedWaits ==
    ASSUME Types, WaitInv, ClientsClosed
    PROVE  WaitInv'
  BY DEF ClientsClosed, listener, WaitInv, SlotsHold, Key, LoginsWait, AttemptsWait, ActorsKnow

LEMMA AttemptsClosedTypes ==
    ASSUME Types, WaitInv, AttemptsClosed
    PROVE  StepTypes'
<1>1. PcType'
  BY DEF Types, PcType, AttemptsClosed, Goto, Step
<1>2. StoreType'
  BY AuthAssumption DEF Types, StoreType, EntryType, AttemptsClosed, store, DeactivateProviders, EmptyEntry
<1>3. ManagerType'
  BY DEF Types, ManagerType, AttemptsClosed, manager
<1>4. ListenerType'
  BY DEF Types, ListenerType, AttemptsClosed, listener
<1>5. FlowType'
  BY DEF Types, FlowType, AttemptsClosed
<1> QED BY <1>1, <1>2, <1>3, <1>4, <1>5 DEF StepTypes

LEMMA AttemptsClosedWaits ==
    ASSUME Types, WaitInv, AttemptsClosed
    PROVE  WaitInv'
<1>1. \A x \in Actor : pc'[x] = pc[x] \/ (pc'[x] = "ended" /\ x \notin Login)
  BY AuthAssumption DEF AttemptsClosed, Types, ManagerType
<1>2. UNCHANGED <<pendingByState, callback, opened, asked, using>>
  BY DEF AttemptsClosed, listener
<1> USE AuthAssumption DEF WaitInv
<1>3. SlotsHold'
  BY <1>2 DEF SlotsHold, Key
<1>4. LoginsWait'
  BY <1>1, <1>2 DEF LoginsWait, Actor
<1>5. AttemptsWait'
  BY <1>1, <1>2 DEF AttemptsWait, Actor
<1>6. ActorsKnow'
  BY <1>1, <1>2 DEF ActorsKnow
<1> QED BY <1>3, <1>4, <1>5, <1>6

-----------------------------------------------------------------------------
(* Every step is one of these. *)

LEMMA TypesInit == Init => Types /\ WaitInv
<1> SUFFICES ASSUME Init PROVE Types /\ WaitInv
  OBVIOUS
<1> USE AuthAssumption DEF Init
<1>1. PcType
  BY DEF PcType, Step
<1>2. StoreType
  BY DEF StoreType, EntryType, EmptyEntry
<1>3. ManagerType /\ ListenerType /\ FlowType /\ HistoryType
  BY DEF ManagerType, ListenerType, FlowType, HistoryType
<1>4. WaitInv
  BY DEF WaitInv, SlotsHold, Key, LoginsWait, AttemptsWait, ActorsKnow, Actor
<1> QED BY <1>1, <1>2, <1>3, <1>4 DEF Types

\* The step of an actor, by its kind.
LEMMA ActorSteps ==
    ASSUME Types, WaitInv, NEW x \in Actor, Request(x) \/ Proceed(x)
    PROVE  StepTypes' /\ WaitInv'
<1>1. ASSUME Authenticate(x), x \in Login PROVE StepTypes' /\ WaitInv'
  BY <1>1, AuthenticateTypes, AuthenticateWaits
<1>2. ASSUME Connect(x), x \in Attempt PROVE StepTypes' /\ WaitInv'
  BY <1>2, ConnectTypes, ConnectWaits
<1>3. ASSUME Started(x) PROVE StepTypes' /\ WaitInv'
  BY <1>3, StartedTypes, StartedWaits
<1>4. ASSUME Accepted(x) PROVE StepTypes' /\ WaitInv'
  BY <1>4, AcceptedTypes, AcceptedWaits
<1>5. ASSUME ConnectFails(x) PROVE StepTypes' /\ WaitInv'
  BY <1>5, ConnectFailsTypes, ConnectFailsWaits
<1>6. ASSUME Challenged(x) PROVE StepTypes' /\ WaitInv'
  BY <1>6, ChallengedTypes, ChallengedWaits
<1>7. ASSUME CreateState(x) PROVE StepTypes' /\ WaitInv'
  BY <1>7, CreateStateTypes, CreateStateWaits
<1>8. ASSUME SaveCodeVerifier(x) PROVE StepTypes' /\ WaitInv'
  BY <1>8, SaveCodeVerifierTypes, SaveCodeVerifierWaits
<1>9. ASSUME Redirect(x) PROVE StepTypes' /\ WaitInv'
  BY <1>9, RedirectTypes, RedirectWaits
<1>10. ASSUME Open(x) PROVE StepTypes' /\ WaitInv'
  BY <1>10, OpenTypes, OpenWaits
<1>11. ASSUME Resumed(x) PROVE StepTypes' /\ WaitInv'
  BY <1>11, ResumedTypes, ResumedWaits
<1>12. ASSUME Exchange(x) PROVE StepTypes' /\ WaitInv'
  BY <1>12, ExchangeTypes, ExchangeWaits
<1>13. ASSUME SaveTokens(x) PROVE StepTypes' /\ WaitInv'
  BY <1>13, SaveTokensTypes, SaveTokensWaits
<1>14. ASSUME UpdateState(x), x \in Login PROVE StepTypes' /\ WaitInv'
  BY <1>14, UpdateStateTypes, UpdateStateWaits
<1>15. ASSUME Match(x), x \in Login PROVE StepTypes' /\ WaitInv'
  BY <1>15, MatchTypes, MatchWaits
<1>16. ASSUME ClearOAuthState(x), x \in Login PROVE StepTypes' /\ WaitInv'
  BY <1>16, ClearOAuthStateTypes, ClearOAuthStateWaits
<1>17. ASSUME ClearCodeVerifier(x), x \in Login PROVE StepTypes' /\ WaitInv'
  BY <1>17, ClearCodeVerifierTypes, ClearCodeVerifierWaits
<1>18. ASSUME Reconnect(x), x \in Login PROVE StepTypes' /\ WaitInv'
  BY <1>18, ReconnectTypes, ReconnectWaits
<1>19. ASSUME Reconnected(x), x \in Login PROVE StepTypes' /\ WaitInv'
  BY <1>19, ReconnectedTypes, ReconnectedWaits
<1>20. ASSUME Clean(x), x \in Login PROVE StepTypes' /\ WaitInv'
  BY <1>20, CleanTypes, CleanWaits
<1>21. ASSUME Joined(x), x \in Login PROVE StepTypes' /\ WaitInv'
  BY <1>21, JoinedTypes, JoinedWaits
<1>22. ASSUME ListAfterLogin(x), x \in Login PROVE StepTypes' /\ WaitInv'
  BY <1>22, ListAfterLoginTypes, ListAfterLoginWaits
<1>23. ASSUME StoreClient(x), x \in Login PROVE StepTypes' /\ WaitInv'
  BY <1>23, StoreClientTypes, StoreClientWaits
<1>24. ASSUME Replaced(x), x \in Attempt PROVE StepTypes' /\ WaitInv'
  BY <1>24, ReplacedTypes, ReplacedWaits
<1>25. ASSUME AttemptTimesOut(x), x \in Attempt PROVE StepTypes' /\ WaitInv'
  BY <1>25, AttemptTimesOutTypes, AttemptTimesOutWaits
<1>26. ASSUME NeedsAuth(x), x \in Attempt PROVE StepTypes' /\ WaitInv'
  BY <1>26, NeedsAuthTypes, NeedsAuthWaits
<1>27. ASSUME List(x), x \in Attempt PROVE StepTypes' /\ WaitInv'
  BY <1>27, ListTypes, ListWaits
<1> QED
  BY <1>1, <1>2, <1>3, <1>4, <1>5, <1>6, <1>7, <1>8, <1>9, <1>10, <1>11, <1>12, <1>13, <1>14, <1>15, <1>16, <1>17, <1>18, <1>19, <1>20, <1>21, <1>22, <1>23, <1>24, <1>25, <1>26, <1>27 DEF Request, Proceed

LEMMA OtherSteps ==
    ASSUME Types, WaitInv, Disconnected \/ End
    PROVE  StepTypes' /\ WaitInv'
<1>1. ASSUME Disconnected PROVE StepTypes' /\ WaitInv'
  BY <1>1, DisconnectedTypes, DisconnectedWaits
<1>2. ASSUME RemoveAuth PROVE StepTypes' /\ WaitInv'
  BY <1>2, RemoveAuthTypes, RemoveAuthWaits
<1>3. ASSUME EntryRemoved PROVE StepTypes' /\ WaitInv'
  BY <1>3, EntryRemovedTypes, EntryRemovedWaits
<1>4. ASSUME Shutdown PROVE StepTypes' /\ WaitInv'
  BY <1>4, ShutdownTypes, ShutdownWaits
<1>5. ASSUME CallbacksClosed PROVE StepTypes' /\ WaitInv'
  BY <1>5, CallbacksClosedTypes, CallbacksClosedWaits
<1>6. ASSUME ClientsClosed PROVE StepTypes' /\ WaitInv'
  BY <1>6, ClientsClosedTypes, ClientsClosedWaits
<1>7. ASSUME AttemptsClosed PROVE StepTypes' /\ WaitInv'
  BY <1>7, AttemptsClosedTypes, AttemptsClosedWaits
<1> QED
  BY <1>1, <1>2, <1>3, <1>4, <1>5, <1>6, <1>7 DEF End

LEMMA HistoryNext ==
    ASSUME Types, Next
    PROVE  HistoryType'
<1>1. disturbed' \subseteq Login
  BY DEF Next, Disturb, Underway
<1>2. CASE UNCHANGED <<ender, removed>>
  BY <1>1, <1>2 DEF Types, HistoryType
<1>3. CASE End
  BY <1>1, <1>3 DEF Types, HistoryType, End, RemoveAuth, EntryRemoved, Shutdown, CallbacksClosed,
                    ClientsClosed, AttemptsClosed
<1> QED BY <1>2, <1>3 DEF Next

LEMMA TypesNext == Types /\ WaitInv /\ [Next]_vars => Types' /\ WaitInv'
<1> SUFFICES ASSUME Types, WaitInv, [Next]_vars PROVE Types' /\ WaitInv'
  OBVIOUS
<1>1. CASE Next
  <2>1. ASSUME NEW x \in Actor, Request(x) \/ Proceed(x) PROVE StepTypes' /\ WaitInv'
    BY <2>1, ActorSteps
  <2>2. ASSUME NEW x \in Actor, Answer(x) PROVE StepTypes' /\ WaitInv'
    BY <2>2, AnswerTypes, AnswerWaits
  <2>3. ASSUME NEW x \in Actor, TimedOut(x) PROVE StepTypes' /\ WaitInv'
    BY <2>3, TimedOutTypes, TimedOutWaits
  <2>4. ASSUME Disconnected \/ End PROVE StepTypes' /\ WaitInv'
    BY <2>4, OtherSteps
  <2>5. StepTypes' /\ WaitInv'
    BY <1>1, <2>1, <2>2, <2>3, <2>4 DEF Next
  <2> QED BY <1>1, <2>5, HistoryNext DEF Types, StepTypes
<1>2. CASE UNCHANGED vars
  <2>1. Types'
    BY <1>2 DEF vars, store, manager, listener, Types, PcType, StoreType, EntryType, ManagerType,
                ListenerType, FlowType, HistoryType
  <2>2. WaitInv'
    BY <1>2 DEF vars, listener, WaitInv, SlotsHold, Key, LoginsWait, AttemptsWait, ActorsKnow
  <2> QED BY <2>1, <2>2
<1> QED BY <1>1, <1>2

LEMMA AuthTyped == Spec => [](Types /\ WaitInv)
  BY TypesInit, TypesNext, PTL DEF Spec

\* The state of logins, attempts, the store's entry and the listener keeps its types,
\* and a code is only ever exchanged by an actor that has one and a transport.
THEOREM AuthTypeCorrect == Spec => []TypeOK
  BY AuthTyped, TypesSuffice, PTL

-----------------------------------------------------------------------------
(***************************************************************************)
(* Removal: a provider that existed when removeAuth was called lost the    *)
(* fence then, and no provider is made twice.                              *)
(***************************************************************************)

\* An actor has no provider before the step that makes it.
NotYetMade ==
    /\ \A x \in Login : pc[x] \in {"idle", "starting", "updating"} => provider[x] = "none"
    /\ \A x \in Attempt : pc[x] \in {"idle", "replacing"} => provider[x] = "none"

RemovedWereMade == \A x \in removed \cap Actor : provider[x] # "none"

RemovedLostTheFence == ender \in {"removing", "removed"} => fence \notin removed

RemovedInv == NotYetMade /\ RemovedWereMade /\ RemovedLostTheFence /\ RemovedStaysRemoved

LEMMA RemovedInit == Init => RemovedInv
  BY AuthAssumption DEF Init, RemovedInv, NotYetMade, RemovedWereMade, RemovedLostTheFence, RemovedStaysRemoved, Actor

\* A step that makes no provider, takes no fence, and writes no tokens but its own.
LEMMA RemovedFrame ==
    ASSUME Types, RemovedInv, UNCHANGED <<fence, provider, ender, removed>>,
           entry'.tokens = entry.tokens \/ entry'.tokens = fence,
           \A x \in Login : pc'[x] \in {"idle", "starting", "updating"}
               => pc[x] \in {"idle", "starting", "updating"},
           \A x \in Attempt : pc'[x] \in {"idle", "replacing"} => pc[x] \in {"idle", "replacing"}
    PROVE  RemovedInv'
<1> USE DEF RemovedInv
<1>1. NotYetMade'
  BY DEF NotYetMade
<1>2. RemovedWereMade'
  BY DEF RemovedWereMade
<1>3. RemovedLostTheFence'
  BY DEF RemovedLostTheFence
<1>4. RemovedStaysRemoved'
  BY DEF RemovedStaysRemoved, RemovedLostTheFence
<1> QED BY <1>1, <1>2, <1>3, <1>4

LEMMA AuthenticateRemoved ==
    ASSUME Types, WaitInv, RemovedInv, NEW x \in Login, Authenticate(x), UNCHANGED <<ender, removed>>
    PROVE  RemovedInv'
<1>1. UNCHANGED <<fence, provider>>
  BY DEF Authenticate, store
<1>2. entry'.tokens = entry.tokens \/ entry'.tokens = fence
  BY AuthAssumption, EntryWrites, FencedWrites DEF Authenticate, store, Types, StoreType, EntryType, WaitInv, ActorsKnow, Actor
<1>3. /\ \A y \in Login : pc'[y] \in {"idle", "starting", "updating"} => pc[y] \in {"idle", "starting", "updating"}
      /\ \A y \in Attempt : pc'[y] \in {"idle", "replacing"} => pc[y] \in {"idle", "replacing"}
  BY AuthAssumption, AfterAuthStep DEF Authenticate, Goto, Types, PcType, Actor
<1> QED BY <1>1, <1>2, <1>3, RemovedFrame

LEMMA ConnectRemoved ==
    ASSUME Types, WaitInv, RemovedInv, NEW x \in Attempt, Connect(x), UNCHANGED <<ender, removed>>
    PROVE  RemovedInv'
<1>1. UNCHANGED <<fence, provider>>
  BY DEF Connect, store
<1>2. entry'.tokens = entry.tokens \/ entry'.tokens = fence
  BY AuthAssumption, EntryWrites, FencedWrites DEF Connect, store, Types, StoreType, EntryType, WaitInv, ActorsKnow, Actor
<1>3. /\ \A y \in Login : pc'[y] \in {"idle", "starting", "updating"} => pc[y] \in {"idle", "starting", "updating"}
      /\ \A y \in Attempt : pc'[y] \in {"idle", "replacing"} => pc[y] \in {"idle", "replacing"}
  BY AuthAssumption, AfterAuthStep DEF Connect, Goto, Types, PcType, Actor
<1> QED BY <1>1, <1>2, <1>3, RemovedFrame

LEMMA StartedRemoved ==
    ASSUME Types, WaitInv, RemovedInv, NEW x \in Actor, Started(x), UNCHANGED <<ender, removed>>
    PROVE  RemovedInv'
<1>1. UNCHANGED <<fence, provider>>
  BY DEF Started, store
<1>2. entry'.tokens = entry.tokens \/ entry'.tokens = fence
  BY AuthAssumption, EntryWrites, FencedWrites DEF Started, store, Types, StoreType, EntryType, WaitInv, ActorsKnow, Actor
<1>3. /\ \A y \in Login : pc'[y] \in {"idle", "starting", "updating"} => pc[y] \in {"idle", "starting", "updating"}
      /\ \A y \in Attempt : pc'[y] \in {"idle", "replacing"} => pc[y] \in {"idle", "replacing"}
  BY AuthAssumption, AfterAuthStep DEF Started, Goto, Types, PcType, Actor
<1> QED BY <1>1, <1>2, <1>3, RemovedFrame

LEMMA AcceptedRemoved ==
    ASSUME Types, WaitInv, RemovedInv, NEW x \in Actor, Accepted(x), UNCHANGED <<ender, removed>>
    PROVE  RemovedInv'
<1>1. UNCHANGED <<fence, provider>>
  BY DEF Accepted, store
<1>2. entry'.tokens = entry.tokens \/ entry'.tokens = fence
  BY AuthAssumption, EntryWrites, FencedWrites DEF Accepted, store, Types, StoreType, EntryType, WaitInv, ActorsKnow, Actor
<1>3. /\ \A y \in Login : pc'[y] \in {"idle", "starting", "updating"} => pc[y] \in {"idle", "starting", "updating"}
      /\ \A y \in Attempt : pc'[y] \in {"idle", "replacing"} => pc[y] \in {"idle", "replacing"}
  BY AuthAssumption, AfterAuthStep DEF Accepted, Goto, Types, PcType, Actor
<1> QED BY <1>1, <1>2, <1>3, RemovedFrame

LEMMA ConnectFailsRemoved ==
    ASSUME Types, WaitInv, RemovedInv, NEW x \in Actor, ConnectFails(x), UNCHANGED <<ender, removed>>
    PROVE  RemovedInv'
<1>1. UNCHANGED <<fence, provider>>
  BY DEF ConnectFails, store
<1>2. entry'.tokens = entry.tokens \/ entry'.tokens = fence
  BY AuthAssumption, EntryWrites, FencedWrites DEF ConnectFails, store, Types, StoreType, EntryType, WaitInv, ActorsKnow, Actor
<1>3. /\ \A y \in Login : pc'[y] \in {"idle", "starting", "updating"} => pc[y] \in {"idle", "starting", "updating"}
      /\ \A y \in Attempt : pc'[y] \in {"idle", "replacing"} => pc[y] \in {"idle", "replacing"}
  BY AuthAssumption, AfterAuthStep DEF ConnectFails, Goto, Types, PcType, Actor
<1> QED BY <1>1, <1>2, <1>3, RemovedFrame

LEMMA ChallengedRemoved ==
    ASSUME Types, WaitInv, RemovedInv, NEW x \in Actor, Challenged(x), UNCHANGED <<ender, removed>>
    PROVE  RemovedInv'
<1>1. UNCHANGED <<fence, provider>>
  BY DEF Challenged, store
<1>2. entry'.tokens = entry.tokens \/ entry'.tokens = fence
  BY AuthAssumption, EntryWrites, FencedWrites DEF Challenged, store, Types, StoreType, EntryType, WaitInv, ActorsKnow, Actor
<1>3. /\ \A y \in Login : pc'[y] \in {"idle", "starting", "updating"} => pc[y] \in {"idle", "starting", "updating"}
      /\ \A y \in Attempt : pc'[y] \in {"idle", "replacing"} => pc[y] \in {"idle", "replacing"}
  BY AuthAssumption, AfterAuthStep DEF Challenged, Goto, Types, PcType, Actor
<1> QED BY <1>1, <1>2, <1>3, RemovedFrame

LEMMA CreateStateRemoved ==
    ASSUME Types, WaitInv, RemovedInv, NEW x \in Actor, CreateState(x), UNCHANGED <<ender, removed>>
    PROVE  RemovedInv'
<1>1. UNCHANGED <<fence, provider>>
  BY DEF CreateState, store
<1>2. entry'.tokens = entry.tokens \/ entry'.tokens = fence
  BY AuthAssumption, EntryWrites, FencedWrites DEF CreateState, store, Types, StoreType, EntryType, WaitInv, ActorsKnow, Actor
<1>3. /\ \A y \in Login : pc'[y] \in {"idle", "starting", "updating"} => pc[y] \in {"idle", "starting", "updating"}
      /\ \A y \in Attempt : pc'[y] \in {"idle", "replacing"} => pc[y] \in {"idle", "replacing"}
  BY AuthAssumption, AfterAuthStep DEF CreateState, Goto, Types, PcType, Actor
<1> QED BY <1>1, <1>2, <1>3, RemovedFrame

LEMMA SaveCodeVerifierRemoved ==
    ASSUME Types, WaitInv, RemovedInv, NEW x \in Actor, SaveCodeVerifier(x), UNCHANGED <<ender, removed>>
    PROVE  RemovedInv'
<1>1. UNCHANGED <<fence, provider>>
  BY DEF SaveCodeVerifier, store
<1>2. entry'.tokens = entry.tokens \/ entry'.tokens = fence
  BY AuthAssumption, EntryWrites, FencedWrites DEF SaveCodeVerifier, store, Types, StoreType, EntryType, WaitInv, ActorsKnow, Actor
<1>3. /\ \A y \in Login : pc'[y] \in {"idle", "starting", "updating"} => pc[y] \in {"idle", "starting", "updating"}
      /\ \A y \in Attempt : pc'[y] \in {"idle", "replacing"} => pc[y] \in {"idle", "replacing"}
  BY AuthAssumption, AfterAuthStep DEF SaveCodeVerifier, Goto, Types, PcType, Actor
<1> QED BY <1>1, <1>2, <1>3, RemovedFrame

LEMMA RedirectRemoved ==
    ASSUME Types, WaitInv, RemovedInv, NEW x \in Actor, Redirect(x), UNCHANGED <<ender, removed>>
    PROVE  RemovedInv'
<1>1. UNCHANGED <<fence, provider>>
  BY DEF Redirect, store
<1>2. entry'.tokens = entry.tokens \/ entry'.tokens = fence
  BY AuthAssumption, EntryWrites, FencedWrites DEF Redirect, store, Types, StoreType, EntryType, WaitInv, ActorsKnow, Actor
<1>3. /\ \A y \in Login : pc'[y] \in {"idle", "starting", "updating"} => pc[y] \in {"idle", "starting", "updating"}
      /\ \A y \in Attempt : pc'[y] \in {"idle", "replacing"} => pc[y] \in {"idle", "replacing"}
  BY AuthAssumption, AfterAuthStep DEF Redirect, Goto, Types, PcType, Actor
<1> QED BY <1>1, <1>2, <1>3, RemovedFrame

LEMMA OpenRemoved ==
    ASSUME Types, WaitInv, RemovedInv, NEW x \in Actor, Open(x), UNCHANGED <<ender, removed>>
    PROVE  RemovedInv'
<1>1. UNCHANGED <<fence, provider>>
  BY DEF Open, store
<1>2. entry'.tokens = entry.tokens \/ entry'.tokens = fence
  BY AuthAssumption, EntryWrites, FencedWrites DEF Open, store, Types, StoreType, EntryType, WaitInv, ActorsKnow, Actor
<1>3. /\ \A y \in Login : pc'[y] \in {"idle", "starting", "updating"} => pc[y] \in {"idle", "starting", "updating"}
      /\ \A y \in Attempt : pc'[y] \in {"idle", "replacing"} => pc[y] \in {"idle", "replacing"}
  BY AuthAssumption, AfterAuthStep DEF Open, Goto, Types, PcType, Actor
<1> QED BY <1>1, <1>2, <1>3, RemovedFrame

LEMMA ResumedRemoved ==
    ASSUME Types, WaitInv, RemovedInv, NEW x \in Actor, Resumed(x), UNCHANGED <<ender, removed>>
    PROVE  RemovedInv'
<1>1. UNCHANGED <<fence, provider>>
  BY DEF Resumed, store
<1>2. entry'.tokens = entry.tokens \/ entry'.tokens = fence
  BY AuthAssumption, EntryWrites, FencedWrites DEF Resumed, store, Types, StoreType, EntryType, WaitInv, ActorsKnow, Actor
<1>3. /\ \A y \in Login : pc'[y] \in {"idle", "starting", "updating"} => pc[y] \in {"idle", "starting", "updating"}
      /\ \A y \in Attempt : pc'[y] \in {"idle", "replacing"} => pc[y] \in {"idle", "replacing"}
  BY AuthAssumption, AfterAuthStep DEF Resumed, Goto, Types, PcType, Actor
<1> QED BY <1>1, <1>2, <1>3, RemovedFrame

LEMMA ExchangeRemoved ==
    ASSUME Types, WaitInv, RemovedInv, NEW x \in Actor, Exchange(x), UNCHANGED <<ender, removed>>
    PROVE  RemovedInv'
<1>1. UNCHANGED <<fence, provider>>
  BY DEF Exchange, store
<1>2. entry'.tokens = entry.tokens \/ entry'.tokens = fence
  BY AuthAssumption, EntryWrites, FencedWrites DEF Exchange, store, Types, StoreType, EntryType, WaitInv, ActorsKnow, Actor
<1>3. /\ \A y \in Login : pc'[y] \in {"idle", "starting", "updating"} => pc[y] \in {"idle", "starting", "updating"}
      /\ \A y \in Attempt : pc'[y] \in {"idle", "replacing"} => pc[y] \in {"idle", "replacing"}
  BY AuthAssumption, AfterAuthStep DEF Exchange, Goto, Types, PcType, Actor
<1> QED BY <1>1, <1>2, <1>3, RemovedFrame

LEMMA SaveTokensRemoved ==
    ASSUME Types, WaitInv, RemovedInv, NEW x \in Actor, SaveTokens(x), UNCHANGED <<ender, removed>>
    PROVE  RemovedInv'
<1>1. UNCHANGED <<fence, provider>>
  BY DEF SaveTokens, store
<1>2. entry'.tokens = entry.tokens \/ entry'.tokens = fence
  BY AuthAssumption, EntryWrites, FencedWrites DEF SaveTokens, store, Types, StoreType, EntryType, WaitInv, ActorsKnow, Actor
<1>3. /\ \A y \in Login : pc'[y] \in {"idle", "starting", "updating"} => pc[y] \in {"idle", "starting", "updating"}
      /\ \A y \in Attempt : pc'[y] \in {"idle", "replacing"} => pc[y] \in {"idle", "replacing"}
  BY AuthAssumption, AfterAuthStep DEF SaveTokens, Goto, Types, PcType, Actor
<1> QED BY <1>1, <1>2, <1>3, RemovedFrame

LEMMA MatchRemoved ==
    ASSUME Types, WaitInv, RemovedInv, NEW x \in Login, Match(x), UNCHANGED <<ender, removed>>
    PROVE  RemovedInv'
<1>1. UNCHANGED <<fence, provider>>
  BY DEF Match, store
<1>2. entry'.tokens = entry.tokens \/ entry'.tokens = fence
  BY AuthAssumption, EntryWrites, FencedWrites DEF Match, store, Types, StoreType, EntryType, WaitInv, ActorsKnow, Actor
<1>3. /\ \A y \in Login : pc'[y] \in {"idle", "starting", "updating"} => pc[y] \in {"idle", "starting", "updating"}
      /\ \A y \in Attempt : pc'[y] \in {"idle", "replacing"} => pc[y] \in {"idle", "replacing"}
  BY AuthAssumption, AfterAuthStep DEF Match, Goto, Types, PcType, Actor
<1> QED BY <1>1, <1>2, <1>3, RemovedFrame

LEMMA ClearOAuthStateRemoved ==
    ASSUME Types, WaitInv, RemovedInv, NEW x \in Login, ClearOAuthState(x), UNCHANGED <<ender, removed>>
    PROVE  RemovedInv'
<1>1. UNCHANGED <<fence, provider>>
  BY DEF ClearOAuthState, store
<1>2. entry'.tokens = entry.tokens \/ entry'.tokens = fence
  BY AuthAssumption, EntryWrites, FencedWrites DEF ClearOAuthState, store, Types, StoreType, EntryType, WaitInv, ActorsKnow, Actor
<1>3. /\ \A y \in Login : pc'[y] \in {"idle", "starting", "updating"} => pc[y] \in {"idle", "starting", "updating"}
      /\ \A y \in Attempt : pc'[y] \in {"idle", "replacing"} => pc[y] \in {"idle", "replacing"}
  BY AuthAssumption, AfterAuthStep DEF ClearOAuthState, Goto, Types, PcType, Actor
<1> QED BY <1>1, <1>2, <1>3, RemovedFrame

LEMMA ClearCodeVerifierRemoved ==
    ASSUME Types, WaitInv, RemovedInv, NEW x \in Login, ClearCodeVerifier(x), UNCHANGED <<ender, removed>>
    PROVE  RemovedInv'
<1>1. UNCHANGED <<fence, provider>>
  BY DEF ClearCodeVerifier, store
<1>2. entry'.tokens = entry.tokens \/ entry'.tokens = fence
  BY AuthAssumption, EntryWrites, FencedWrites DEF ClearCodeVerifier, store, Types, StoreType, EntryType, WaitInv, ActorsKnow, Actor
<1>3. /\ \A y \in Login : pc'[y] \in {"idle", "starting", "updating"} => pc[y] \in {"idle", "starting", "updating"}
      /\ \A y \in Attempt : pc'[y] \in {"idle", "replacing"} => pc[y] \in {"idle", "replacing"}
  BY AuthAssumption, AfterAuthStep DEF ClearCodeVerifier, Goto, Types, PcType, Actor
<1> QED BY <1>1, <1>2, <1>3, RemovedFrame

LEMMA ReconnectRemoved ==
    ASSUME Types, WaitInv, RemovedInv, NEW x \in Login, Reconnect(x), UNCHANGED <<ender, removed>>
    PROVE  RemovedInv'
<1>1. UNCHANGED <<fence, provider>>
  BY DEF Reconnect, store
<1>2. entry'.tokens = entry.tokens \/ entry'.tokens = fence
  BY AuthAssumption, EntryWrites, FencedWrites DEF Reconnect, store, Types, StoreType, EntryType, WaitInv, ActorsKnow, Actor
<1>3. /\ \A y \in Login : pc'[y] \in {"idle", "starting", "updating"} => pc[y] \in {"idle", "starting", "updating"}
      /\ \A y \in Attempt : pc'[y] \in {"idle", "replacing"} => pc[y] \in {"idle", "replacing"}
  BY AuthAssumption, AfterAuthStep DEF Reconnect, Goto, Types, PcType, Actor
<1> QED BY <1>1, <1>2, <1>3, RemovedFrame

LEMMA ReconnectedRemoved ==
    ASSUME Types, WaitInv, RemovedInv, NEW x \in Login, Reconnected(x), UNCHANGED <<ender, removed>>
    PROVE  RemovedInv'
<1>1. UNCHANGED <<fence, provider>>
  BY DEF Reconnected, store
<1>2. entry'.tokens = entry.tokens \/ entry'.tokens = fence
  BY AuthAssumption, EntryWrites, FencedWrites DEF Reconnected, store, Types, StoreType, EntryType, WaitInv, ActorsKnow, Actor
<1>3. /\ \A y \in Login : pc'[y] \in {"idle", "starting", "updating"} => pc[y] \in {"idle", "starting", "updating"}
      /\ \A y \in Attempt : pc'[y] \in {"idle", "replacing"} => pc[y] \in {"idle", "replacing"}
  BY AuthAssumption, AfterAuthStep DEF Reconnected, Goto, Types, PcType, Actor
<1> QED BY <1>1, <1>2, <1>3, RemovedFrame

LEMMA CleanRemoved ==
    ASSUME Types, WaitInv, RemovedInv, NEW x \in Login, Clean(x), UNCHANGED <<ender, removed>>
    PROVE  RemovedInv'
<1>1. UNCHANGED <<fence, provider>>
  BY DEF Clean, store
<1>2. entry'.tokens = entry.tokens \/ entry'.tokens = fence
  BY AuthAssumption, EntryWrites, FencedWrites DEF Clean, store, Types, StoreType, EntryType, WaitInv, ActorsKnow, Actor
<1>3. /\ \A y \in Login : pc'[y] \in {"idle", "starting", "updating"} => pc[y] \in {"idle", "starting", "updating"}
      /\ \A y \in Attempt : pc'[y] \in {"idle", "replacing"} => pc[y] \in {"idle", "replacing"}
  BY AuthAssumption, AfterAuthStep DEF Clean, Goto, Types, PcType, Actor
<1> QED BY <1>1, <1>2, <1>3, RemovedFrame

LEMMA JoinedRemoved ==
    ASSUME Types, WaitInv, RemovedInv, NEW x \in Login, Joined(x), UNCHANGED <<ender, removed>>
    PROVE  RemovedInv'
<1>1. UNCHANGED <<fence, provider>>
  BY DEF Joined, store
<1>2. entry'.tokens = entry.tokens \/ entry'.tokens = fence
  BY AuthAssumption, EntryWrites, FencedWrites DEF Joined, store, Types, StoreType, EntryType, WaitInv, ActorsKnow, Actor
<1>3. /\ \A y \in Login : pc'[y] \in {"idle", "starting", "updating"} => pc[y] \in {"idle", "starting", "updating"}
      /\ \A y \in Attempt : pc'[y] \in {"idle", "replacing"} => pc[y] \in {"idle", "replacing"}
  BY AuthAssumption, AfterAuthStep DEF Joined, Goto, Types, PcType, Actor
<1> QED BY <1>1, <1>2, <1>3, RemovedFrame

LEMMA ListAfterLoginRemoved ==
    ASSUME Types, WaitInv, RemovedInv, NEW x \in Login, ListAfterLogin(x), UNCHANGED <<ender, removed>>
    PROVE  RemovedInv'
<1>1. UNCHANGED <<fence, provider>>
  BY DEF ListAfterLogin, store
<1>2. entry'.tokens = entry.tokens \/ entry'.tokens = fence
  BY AuthAssumption, EntryWrites, FencedWrites DEF ListAfterLogin, store, Types, StoreType, EntryType, WaitInv, ActorsKnow, Actor
<1>3. /\ \A y \in Login : pc'[y] \in {"idle", "starting", "updating"} => pc[y] \in {"idle", "starting", "updating"}
      /\ \A y \in Attempt : pc'[y] \in {"idle", "replacing"} => pc[y] \in {"idle", "replacing"}
  BY AuthAssumption, AfterAuthStep DEF ListAfterLogin, Goto, Types, PcType, Actor
<1> QED BY <1>1, <1>2, <1>3, RemovedFrame

LEMMA StoreClientRemoved ==
    ASSUME Types, WaitInv, RemovedInv, NEW x \in Login, StoreClient(x), UNCHANGED <<ender, removed>>
    PROVE  RemovedInv'
<1>1. UNCHANGED <<fence, provider>>
  BY DEF StoreClient, store
<1>2. entry'.tokens = entry.tokens \/ entry'.tokens = fence
  BY AuthAssumption, EntryWrites, FencedWrites DEF StoreClient, store, Types, StoreType, EntryType, WaitInv, ActorsKnow, Actor
<1>3. /\ \A y \in Login : pc'[y] \in {"idle", "starting", "updating"} => pc[y] \in {"idle", "starting", "updating"}
      /\ \A y \in Attempt : pc'[y] \in {"idle", "replacing"} => pc[y] \in {"idle", "replacing"}
  BY AuthAssumption, AfterAuthStep DEF StoreClient, Goto, Types, PcType, Actor
<1> QED BY <1>1, <1>2, <1>3, RemovedFrame

LEMMA AttemptTimesOutRemoved ==
    ASSUME Types, WaitInv, RemovedInv, NEW x \in Attempt, AttemptTimesOut(x), UNCHANGED <<ender, removed>>
    PROVE  RemovedInv'
<1>1. UNCHANGED <<fence, provider>>
  BY DEF AttemptTimesOut, store
<1>2. entry'.tokens = entry.tokens \/ entry'.tokens = fence
  BY AuthAssumption, EntryWrites, FencedWrites DEF AttemptTimesOut, store, Types, StoreType, EntryType, WaitInv, ActorsKnow, Actor
<1>3. /\ \A y \in Login : pc'[y] \in {"idle", "starting", "updating"} => pc[y] \in {"idle", "starting", "updating"}
      /\ \A y \in Attempt : pc'[y] \in {"idle", "replacing"} => pc[y] \in {"idle", "replacing"}
  BY AuthAssumption, AfterAuthStep DEF AttemptTimesOut, Goto, Types, PcType, Actor
<1> QED BY <1>1, <1>2, <1>3, RemovedFrame

LEMMA NeedsAuthRemoved ==
    ASSUME Types, WaitInv, RemovedInv, NEW x \in Attempt, NeedsAuth(x), UNCHANGED <<ender, removed>>
    PROVE  RemovedInv'
<1>1. UNCHANGED <<fence, provider>>
  BY DEF NeedsAuth, store
<1>2. entry'.tokens = entry.tokens \/ entry'.tokens = fence
  BY AuthAssumption, EntryWrites, FencedWrites DEF NeedsAuth, store, Types, StoreType, EntryType, WaitInv, ActorsKnow, Actor
<1>3. /\ \A y \in Login : pc'[y] \in {"idle", "starting", "updating"} => pc[y] \in {"idle", "starting", "updating"}
      /\ \A y \in Attempt : pc'[y] \in {"idle", "replacing"} => pc[y] \in {"idle", "replacing"}
  BY AuthAssumption, AfterAuthStep DEF NeedsAuth, Goto, Types, PcType, Actor
<1> QED BY <1>1, <1>2, <1>3, RemovedFrame

LEMMA ListRemoved ==
    ASSUME Types, WaitInv, RemovedInv, NEW x \in Attempt, List(x), UNCHANGED <<ender, removed>>
    PROVE  RemovedInv'
<1>1. UNCHANGED <<fence, provider>>
  BY DEF List, store
<1>2. entry'.tokens = entry.tokens \/ entry'.tokens = fence
  BY AuthAssumption, EntryWrites, FencedWrites DEF List, store, Types, StoreType, EntryType, WaitInv, ActorsKnow, Actor
<1>3. /\ \A y \in Login : pc'[y] \in {"idle", "starting", "updating"} => pc[y] \in {"idle", "starting", "updating"}
      /\ \A y \in Attempt : pc'[y] \in {"idle", "replacing"} => pc[y] \in {"idle", "replacing"}
  BY AuthAssumption, AfterAuthStep DEF List, Goto, Types, PcType, Actor
<1> QED BY <1>1, <1>2, <1>3, RemovedFrame

LEMMA AnswerRemoved ==
    ASSUME Types, WaitInv, RemovedInv, NEW x \in Actor, Answer(x), UNCHANGED <<ender, removed>>
    PROVE  RemovedInv'
<1>1. UNCHANGED <<fence, provider>>
  BY DEF Answer, store
<1>2. entry'.tokens = entry.tokens \/ entry'.tokens = fence
  BY AuthAssumption, EntryWrites, FencedWrites DEF Answer, store, Types, StoreType, EntryType, WaitInv, ActorsKnow, Actor
<1>3. /\ \A y \in Login : pc'[y] \in {"idle", "starting", "updating"} => pc[y] \in {"idle", "starting", "updating"}
      /\ \A y \in Attempt : pc'[y] \in {"idle", "replacing"} => pc[y] \in {"idle", "replacing"}
  BY AuthAssumption, AfterAuthStep DEF Answer, Goto, Types, PcType, Actor
<1> QED BY <1>1, <1>2, <1>3, RemovedFrame

LEMMA TimedOutRemoved ==
    ASSUME Types, WaitInv, RemovedInv, NEW x \in Actor, TimedOut(x), UNCHANGED <<ender, removed>>
    PROVE  RemovedInv'
<1>1. UNCHANGED <<fence, provider>>
  BY DEF TimedOut, store
<1>2. entry'.tokens = entry.tokens \/ entry'.tokens = fence
  BY AuthAssumption, EntryWrites, FencedWrites DEF TimedOut, store, Types, StoreType, EntryType, WaitInv, ActorsKnow, Actor
<1>3. /\ \A y \in Login : pc'[y] \in {"idle", "starting", "updating"} => pc[y] \in {"idle", "starting", "updating"}
      /\ \A y \in Attempt : pc'[y] \in {"idle", "replacing"} => pc[y] \in {"idle", "replacing"}
  BY AuthAssumption, AfterAuthStep DEF TimedOut, Goto, Types, PcType, Actor
<1> QED BY <1>1, <1>2, <1>3, RemovedFrame

LEMMA UpdateStateRemoved ==
    ASSUME Types, WaitInv, RemovedInv, NEW x \in Login, UpdateState(x), UNCHANGED <<ender, removed>>
    PROVE  RemovedInv'
<1>1. x \notin removed /\ x \in Actor /\ (pc[x] = "updating" \/ pc[x] = "replacing")
  BY DEF UpdateState, RemovedInv, NotYetMade, RemovedWereMade, Actor
<1>2. entry'.tokens = entry.tokens
  BY EntryWrites DEF UpdateState, store, Types, StoreType, EntryType, Actor
<1>3. NotYetMade'
  BY AuthAssumption DEF RemovedInv, NotYetMade, UpdateState, NewProvider, store, Goto, Types, PcType, StoreType, Actor
<1>4. RemovedWereMade'
  BY <1>1 DEF RemovedInv, RemovedWereMade, UpdateState, NewProvider, store, Types, StoreType, Actor
<1>5. RemovedLostTheFence'
  BY <1>1 DEF RemovedInv, RemovedLostTheFence, UpdateState, NewProvider, store
<1>6. RemovedStaysRemoved'
  BY <1>2 DEF RemovedInv, RemovedStaysRemoved
<1> QED BY <1>3, <1>4, <1>5, <1>6 DEF RemovedInv

LEMMA ReplacedRemoved ==
    ASSUME Types, WaitInv, RemovedInv, NEW x \in Attempt, Replaced(x), UNCHANGED <<ender, removed>>
    PROVE  RemovedInv'
<1>1. x \notin removed /\ x \in Actor /\ (pc[x] = "updating" \/ pc[x] = "replacing")
  BY DEF Replaced, RemovedInv, NotYetMade, RemovedWereMade, Actor
<1>2. entry'.tokens = entry.tokens
  BY EntryWrites DEF Replaced, store, Types, StoreType, EntryType, Actor
<1>3. NotYetMade'
  BY AuthAssumption DEF RemovedInv, NotYetMade, Replaced, NewProvider, store, Goto, Types, PcType, StoreType, Actor
<1>4. RemovedWereMade'
  BY <1>1 DEF RemovedInv, RemovedWereMade, Replaced, NewProvider, store, Types, StoreType, Actor
<1>5. RemovedLostTheFence'
  BY <1>1 DEF RemovedInv, RemovedLostTheFence, Replaced, NewProvider, store
<1>6. RemovedStaysRemoved'
  BY <1>2 DEF RemovedInv, RemovedStaysRemoved
<1> QED BY <1>3, <1>4, <1>5, <1>6 DEF RemovedInv

\* The end takes the fence from every provider, and makes none.
LEMMA EndsRemoved ==
    ASSUME Types, RemovedInv, End
    PROVE  RemovedInv'
<1>1. \A x \in Actor : pc'[x] = pc[x] \/ pc'[x] = "ended"
  BY DEF End, RemoveAuth, EntryRemoved, Shutdown, CallbacksClosed, ClientsClosed, AttemptsClosed
<1>2. \A x \in Actor : provider'[x] = "none" <=> provider[x] = "none"
  BY DEF End, RemoveAuth, EntryRemoved, Shutdown, CallbacksClosed, ClientsClosed, AttemptsClosed,
         DeactivateProviders, store, Types, StoreType
<1>3. NotYetMade'
  BY <1>1, <1>2 DEF RemovedInv, NotYetMade, Actor
<1>4. RemovedWereMade'
  <2>1. CASE RemoveAuth
    BY <1>2, <2>1, AuthAssumption DEF RemoveAuth, RemovedWereMade
  <2>2. CASE removed' = removed
    BY <1>2, <2>2 DEF RemovedInv, RemovedWereMade
  <2> QED
    BY <2>1, <2>2 DEF End, EntryRemoved, Shutdown, CallbacksClosed, ClientsClosed, AttemptsClosed
<1>5. RemovedLostTheFence'
  <2>1. CASE RemoveAuth
    BY <2>1, AuthAssumption DEF RemoveAuth, DeactivateProviders, RemovedLostTheFence
  <2>2. CASE EntryRemoved
    BY <2>2 DEF EntryRemoved, RemovedInv, RemovedLostTheFence
  <2>3. CASE ender' \notin {"removing", "removed"}
    BY <2>3 DEF RemovedLostTheFence
  <2> QED
    BY <2>1, <2>2, <2>3 DEF End, Shutdown, CallbacksClosed, ClientsClosed, AttemptsClosed
<1>6. RemovedStaysRemoved'
  <2>1. CASE EntryRemoved
    <3>1. entry'.tokens = None /\ removed' = removed
      BY <2>1 DEF EntryRemoved, EmptyEntry
    <3>2. None \notin removed
      BY AuthAssumption DEF Types, HistoryType
    <3> QED BY <3>1, <3>2 DEF RemovedStaysRemoved
  <2>2. CASE ender' # "removed"
    BY <2>2 DEF RemovedStaysRemoved
  <2> QED
    BY <2>1, <2>2 DEF End, RemoveAuth, Shutdown, CallbacksClosed, ClientsClosed, AttemptsClosed
<1> QED BY <1>3, <1>4, <1>5, <1>6 DEF RemovedInv

LEMMA RemovedNext == Types /\ WaitInv /\ RemovedInv /\ [Next]_vars => RemovedInv'
<1> SUFFICES ASSUME Types, WaitInv, RemovedInv, [Next]_vars PROVE RemovedInv'
  OBVIOUS
<1>1. ASSUME NEW x \in Login, Authenticate(x), UNCHANGED <<ender, removed>> PROVE RemovedInv'
  BY <1>1, AuthenticateRemoved
<1>2. ASSUME NEW x \in Attempt, Connect(x), UNCHANGED <<ender, removed>> PROVE RemovedInv'
  BY <1>2, ConnectRemoved
<1>3. ASSUME NEW x \in Actor, Started(x), UNCHANGED <<ender, removed>> PROVE RemovedInv'
  BY <1>3, StartedRemoved
<1>4. ASSUME NEW x \in Actor, Accepted(x), UNCHANGED <<ender, removed>> PROVE RemovedInv'
  BY <1>4, AcceptedRemoved
<1>5. ASSUME NEW x \in Actor, ConnectFails(x), UNCHANGED <<ender, removed>> PROVE RemovedInv'
  BY <1>5, ConnectFailsRemoved
<1>6. ASSUME NEW x \in Actor, Challenged(x), UNCHANGED <<ender, removed>> PROVE RemovedInv'
  BY <1>6, ChallengedRemoved
<1>7. ASSUME NEW x \in Actor, CreateState(x), UNCHANGED <<ender, removed>> PROVE RemovedInv'
  BY <1>7, CreateStateRemoved
<1>8. ASSUME NEW x \in Actor, SaveCodeVerifier(x), UNCHANGED <<ender, removed>> PROVE RemovedInv'
  BY <1>8, SaveCodeVerifierRemoved
<1>9. ASSUME NEW x \in Actor, Redirect(x), UNCHANGED <<ender, removed>> PROVE RemovedInv'
  BY <1>9, RedirectRemoved
<1>10. ASSUME NEW x \in Actor, Open(x), UNCHANGED <<ender, removed>> PROVE RemovedInv'
  BY <1>10, OpenRemoved
<1>11. ASSUME NEW x \in Actor, Resumed(x), UNCHANGED <<ender, removed>> PROVE RemovedInv'
  BY <1>11, ResumedRemoved
<1>12. ASSUME NEW x \in Actor, Exchange(x), UNCHANGED <<ender, removed>> PROVE RemovedInv'
  BY <1>12, ExchangeRemoved
<1>13. ASSUME NEW x \in Actor, SaveTokens(x), UNCHANGED <<ender, removed>> PROVE RemovedInv'
  BY <1>13, SaveTokensRemoved
<1>14. ASSUME NEW x \in Login, UpdateState(x), UNCHANGED <<ender, removed>> PROVE RemovedInv'
  BY <1>14, UpdateStateRemoved
<1>15. ASSUME NEW x \in Login, Match(x), UNCHANGED <<ender, removed>> PROVE RemovedInv'
  BY <1>15, MatchRemoved
<1>16. ASSUME NEW x \in Login, ClearOAuthState(x), UNCHANGED <<ender, removed>> PROVE RemovedInv'
  BY <1>16, ClearOAuthStateRemoved
<1>17. ASSUME NEW x \in Login, ClearCodeVerifier(x), UNCHANGED <<ender, removed>> PROVE RemovedInv'
  BY <1>17, ClearCodeVerifierRemoved
<1>18. ASSUME NEW x \in Login, Reconnect(x), UNCHANGED <<ender, removed>> PROVE RemovedInv'
  BY <1>18, ReconnectRemoved
<1>19. ASSUME NEW x \in Login, Reconnected(x), UNCHANGED <<ender, removed>> PROVE RemovedInv'
  BY <1>19, ReconnectedRemoved
<1>20. ASSUME NEW x \in Login, Clean(x), UNCHANGED <<ender, removed>> PROVE RemovedInv'
  BY <1>20, CleanRemoved
<1>21. ASSUME NEW x \in Login, Joined(x), UNCHANGED <<ender, removed>> PROVE RemovedInv'
  BY <1>21, JoinedRemoved
<1>22. ASSUME NEW x \in Login, ListAfterLogin(x), UNCHANGED <<ender, removed>> PROVE RemovedInv'
  BY <1>22, ListAfterLoginRemoved
<1>23. ASSUME NEW x \in Login, StoreClient(x), UNCHANGED <<ender, removed>> PROVE RemovedInv'
  BY <1>23, StoreClientRemoved
<1>24. ASSUME NEW x \in Attempt, Replaced(x), UNCHANGED <<ender, removed>> PROVE RemovedInv'
  BY <1>24, ReplacedRemoved
<1>25. ASSUME NEW x \in Attempt, AttemptTimesOut(x), UNCHANGED <<ender, removed>> PROVE RemovedInv'
  BY <1>25, AttemptTimesOutRemoved
<1>26. ASSUME NEW x \in Attempt, NeedsAuth(x), UNCHANGED <<ender, removed>> PROVE RemovedInv'
  BY <1>26, NeedsAuthRemoved
<1>27. ASSUME NEW x \in Attempt, List(x), UNCHANGED <<ender, removed>> PROVE RemovedInv'
  BY <1>27, ListRemoved
<1>28. ASSUME NEW x \in Actor, Answer(x), UNCHANGED <<ender, removed>> PROVE RemovedInv'
  BY <1>28, AnswerRemoved
<1>29. ASSUME NEW x \in Actor, TimedOut(x), UNCHANGED <<ender, removed>> PROVE RemovedInv'
  BY <1>29, TimedOutRemoved
<1>30. CASE Disconnected /\ UNCHANGED <<ender, removed>>
  <2>1. UNCHANGED <<fence, provider, pc, entry>>
    BY <1>30 DEF Disconnected, store
  <2> QED BY <1>30, <2>1, RemovedFrame
<1>31. CASE End
  BY <1>31, EndsRemoved
<1>32. CASE UNCHANGED vars
  <2>1. UNCHANGED <<fence, provider, ender, removed, pc, entry>>
    BY <1>32 DEF vars, store
  <2> QED BY <2>1, RemovedFrame
<1>33. ASSUME NEW x \in Actor, Request(x) \/ Proceed(x), UNCHANGED <<ender, removed>> PROVE RemovedInv'
  BY <1>33, <1>1, <1>2, <1>3, <1>4, <1>5, <1>6, <1>7, <1>8, <1>9, <1>10, <1>11, <1>12, <1>13, <1>14, <1>15, <1>16, <1>17, <1>18, <1>19, <1>20, <1>21, <1>22, <1>23, <1>24, <1>25, <1>26, <1>27, <1>28, <1>29 DEF Request, Proceed
<1> QED
  BY <1>28, <1>29, <1>30, <1>31, <1>32, <1>33 DEF Next

\* Once removeAuth is done, no credentials of a provider that existed when it was
\* called are stored again, however late its login or its client's call ends.
THEOREM RemovalHolds == Spec => []RemovedStaysRemoved
<1>1. RemovedInv => RemovedStaysRemoved
  BY DEF RemovedInv
<1> QED
  BY AuthTyped, RemovedInit, RemovedNext, <1>1, PTL DEF Spec

-----------------------------------------------------------------------------
(***************************************************************************)
(* Grants: what a login relies on is its own as long as nobody else acts.  *)
(***************************************************************************)

Unstated == {"idle", "starting", "updating"}

Unopened == Unstated \cup {"connecting", "stating", "stated", "verified", "opening"}

\* Nobody knows the state of a login that has not stored it yet, and the browser has
\* no URL of a login that has not opened one.
StatesAreFresh ==
    \A f \in Login :
        /\ pc[f] \in Unstated => entry.state # f /\ (\A y \in Actor : asked[y] # f)
        /\ pc[f] \in Unopened => f \notin opened

\* What a login has that nobody disturbed.
Grant(f) ==
    /\ \A y \in Actor \ {f} : asked[y] # f
    /\ pc[f] \notin {"stating", "mismatched"}
    /\ pc[f] \in {"connecting", "stated", "verified", "opening", "waiting", "matching", "matched"}
         => entry.state = f /\ fence = f
    /\ pc[f] \in {"stated", "verified", "opening", "waiting"} => asked[f] = f
    /\ pc[f] \in {"verified", "opening", "waiting", "matching", "matched", "exchanging"}
         => entry.verifier = f
    /\ pc[f] \in {"opening", "waiting", "matching", "matched"} => pendingTransport = f
    /\ pc[f] \in {"updating", "connecting", "stated", "verified", "opening", "waiting"}
         => /\ callback[f] \in {"waiting", "lost", f}
            /\ callback[f] = "waiting" => pendingByState[f] = f
    /\ pc[f] \in {"matching", "matched", "exchanging"} => callback[f] = f
    /\ pc[f] \in {"exchanging", "saving"} => fence = f /\ using[f] = f
    /\ pc[f] \in {"clearing", "reconnect"} => entry.tokens = f
    /\ pc[f] = "swapping" => client = None

GrantsHold == \A f \in Underway \ disturbed : Grant(f)

LEMMA GrantsSuffice == GrantsHold => UndisturbedLoginsKeepTheirGrant
  BY DEF GrantsHold, Grant, Underway, UndisturbedLoginsKeepTheirGrant

LEMMA GrantInit == Init => StatesAreFresh /\ GrantsHold
  BY AuthAssumption DEF Init, StatesAreFresh, GrantsHold, Underway, Unstated, Unopened, EmptyEntry, Actor

\* A step that keeps states fresh.
Fresh ==
    \A f \in Login :
        /\ pc'[f] \in Unstated =>
             /\ pc[f] \in Unstated
             /\ entry'.state = f => entry.state = f
             /\ \A y \in Actor : asked'[y] = f => f \in {asked[y], entry.state}
        /\ pc'[f] \in Unopened => pc[f] \in Unopened /\ (f \in opened' => f \in opened)

LEMMA FreshKeeps == StatesAreFresh /\ Fresh => StatesAreFresh'
  BY DEF StatesAreFresh, Fresh

LEMMA AuthenticateFresh ==
    ASSUME Types, WaitInv, NEW x \in Login, Authenticate(x)
    PROVE  Fresh
<1>1. \A f \in Login : pc'[f] \in Unstated => pc[f] \in Unstated /\ (entry'.state = f => entry.state = f)
  BY AuthAssumption, AfterAuthStep, EntryWrites, FencedWrites
     DEF Authenticate, Goto, Unstated, Types, PcType, StoreType, EntryType, store, Actor, WaitInv, LoginsWait, ActorsKnow
<1>2. \A f \in Login : pc'[f] \in Unstated => \A y \in Actor : asked'[y] = f => f \in {asked[y], entry.state}
  BY AuthAssumption, AfterAuthStep
     DEF Authenticate, Goto, Unstated, Types, PcType, FlowType, Actor, WaitInv, LoginsWait
<1>3. \A f \in Login : pc'[f] \in Unopened => pc[f] \in Unopened /\ (f \in opened' => f \in opened)
  BY AuthAssumption, AfterAuthStep
     DEF Authenticate, Goto, Unstated, Unopened, Types, PcType, ListenerType, listener, Actor, WaitInv, LoginsWait
<1> QED BY <1>1, <1>2, <1>3 DEF Fresh

LEMMA ConnectFresh ==
    ASSUME Types, WaitInv, NEW x \in Attempt, Connect(x)
    PROVE  Fresh
<1>1. \A f \in Login : pc'[f] \in Unstated => pc[f] \in Unstated /\ (entry'.state = f => entry.state = f)
  BY AuthAssumption, AfterAuthStep, EntryWrites, FencedWrites
     DEF Connect, Goto, Unstated, Types, PcType, StoreType, EntryType, store, Actor, WaitInv, LoginsWait, ActorsKnow
<1>2. \A f \in Login : pc'[f] \in Unstated => \A y \in Actor : asked'[y] = f => f \in {asked[y], entry.state}
  BY AuthAssumption, AfterAuthStep
     DEF Connect, Goto, Unstated, Types, PcType, FlowType, Actor, WaitInv, LoginsWait
<1>3. \A f \in Login : pc'[f] \in Unopened => pc[f] \in Unopened /\ (f \in opened' => f \in opened)
  BY AuthAssumption, AfterAuthStep
     DEF Connect, Goto, Unstated, Unopened, Types, PcType, ListenerType, listener, Actor, WaitInv, LoginsWait
<1> QED BY <1>1, <1>2, <1>3 DEF Fresh

LEMMA StartedFresh ==
    ASSUME Types, WaitInv, NEW x \in Actor, Started(x)
    PROVE  Fresh
<1>1. \A f \in Login : pc'[f] \in Unstated => pc[f] \in Unstated /\ (entry'.state = f => entry.state = f)
  BY AuthAssumption, AfterAuthStep, EntryWrites, FencedWrites
     DEF Started, Goto, Unstated, Types, PcType, StoreType, EntryType, store, Actor, WaitInv, LoginsWait, ActorsKnow
<1>2. \A f \in Login : pc'[f] \in Unstated => \A y \in Actor : asked'[y] = f => f \in {asked[y], entry.state}
  BY AuthAssumption, AfterAuthStep
     DEF Started, Goto, Unstated, Types, PcType, FlowType, Actor, WaitInv, LoginsWait
<1>3. \A f \in Login : pc'[f] \in Unopened => pc[f] \in Unopened /\ (f \in opened' => f \in opened)
  BY AuthAssumption, AfterAuthStep
     DEF Started, Goto, Unstated, Unopened, Types, PcType, ListenerType, listener, Actor, WaitInv, LoginsWait
<1> QED BY <1>1, <1>2, <1>3 DEF Fresh

LEMMA AcceptedFresh ==
    ASSUME Types, WaitInv, NEW x \in Actor, Accepted(x)
    PROVE  Fresh
<1>1. \A f \in Login : pc'[f] \in Unstated => pc[f] \in Unstated /\ (entry'.state = f => entry.state = f)
  BY AuthAssumption, AfterAuthStep, EntryWrites, FencedWrites
     DEF Accepted, Goto, Unstated, Types, PcType, StoreType, EntryType, store, Actor, WaitInv, LoginsWait, ActorsKnow
<1>2. \A f \in Login : pc'[f] \in Unstated => \A y \in Actor : asked'[y] = f => f \in {asked[y], entry.state}
  BY AuthAssumption, AfterAuthStep
     DEF Accepted, Goto, Unstated, Types, PcType, FlowType, Actor, WaitInv, LoginsWait
<1>3. \A f \in Login : pc'[f] \in Unopened => pc[f] \in Unopened /\ (f \in opened' => f \in opened)
  BY AuthAssumption, AfterAuthStep
     DEF Accepted, Goto, Unstated, Unopened, Types, PcType, ListenerType, listener, Actor, WaitInv, LoginsWait
<1> QED BY <1>1, <1>2, <1>3 DEF Fresh

LEMMA ConnectFailsFresh ==
    ASSUME Types, WaitInv, NEW x \in Actor, ConnectFails(x)
    PROVE  Fresh
<1>1. \A f \in Login : pc'[f] \in Unstated => pc[f] \in Unstated /\ (entry'.state = f => entry.state = f)
  BY AuthAssumption, AfterAuthStep, EntryWrites, FencedWrites
     DEF ConnectFails, Goto, Unstated, Types, PcType, StoreType, EntryType, store, Actor, WaitInv, LoginsWait, ActorsKnow
<1>2. \A f \in Login : pc'[f] \in Unstated => \A y \in Actor : asked'[y] = f => f \in {asked[y], entry.state}
  BY AuthAssumption, AfterAuthStep
     DEF ConnectFails, Goto, Unstated, Types, PcType, FlowType, Actor, WaitInv, LoginsWait
<1>3. \A f \in Login : pc'[f] \in Unopened => pc[f] \in Unopened /\ (f \in opened' => f \in opened)
  BY AuthAssumption, AfterAuthStep
     DEF ConnectFails, Goto, Unstated, Unopened, Types, PcType, ListenerType, listener, Actor, WaitInv, LoginsWait
<1> QED BY <1>1, <1>2, <1>3 DEF Fresh

LEMMA ChallengedFresh ==
    ASSUME Types, WaitInv, NEW x \in Actor, Challenged(x)
    PROVE  Fresh
<1>1. \A f \in Login : pc'[f] \in Unstated => pc[f] \in Unstated /\ (entry'.state = f => entry.state = f)
  BY AuthAssumption, AfterAuthStep, EntryWrites, FencedWrites
     DEF Challenged, Goto, Unstated, Types, PcType, StoreType, EntryType, store, Actor, WaitInv, LoginsWait, ActorsKnow
<1>2. \A f \in Login : pc'[f] \in Unstated => \A y \in Actor : asked'[y] = f => f \in {asked[y], entry.state}
  BY AuthAssumption, AfterAuthStep
     DEF Challenged, Goto, Unstated, Types, PcType, FlowType, Actor, WaitInv, LoginsWait
<1>3. \A f \in Login : pc'[f] \in Unopened => pc[f] \in Unopened /\ (f \in opened' => f \in opened)
  BY AuthAssumption, AfterAuthStep
     DEF Challenged, Goto, Unstated, Unopened, Types, PcType, ListenerType, listener, Actor, WaitInv, LoginsWait
<1> QED BY <1>1, <1>2, <1>3 DEF Fresh

LEMMA CreateStateFresh ==
    ASSUME Types, WaitInv, NEW x \in Actor, CreateState(x)
    PROVE  Fresh
<1>1. \A f \in Login : pc'[f] \in Unstated => pc[f] \in Unstated /\ (entry'.state = f => entry.state = f)
  BY AuthAssumption, AfterAuthStep, EntryWrites, FencedWrites
     DEF CreateState, Goto, Unstated, Types, PcType, StoreType, EntryType, store, Actor, WaitInv, LoginsWait, ActorsKnow
<1>2. \A f \in Login : pc'[f] \in Unstated => \A y \in Actor : asked'[y] = f => f \in {asked[y], entry.state}
  BY AuthAssumption, AfterAuthStep
     DEF CreateState, Goto, Unstated, Types, PcType, FlowType, Actor, WaitInv, LoginsWait
<1>3. \A f \in Login : pc'[f] \in Unopened => pc[f] \in Unopened /\ (f \in opened' => f \in opened)
  BY AuthAssumption, AfterAuthStep
     DEF CreateState, Goto, Unstated, Unopened, Types, PcType, ListenerType, listener, Actor, WaitInv, LoginsWait
<1> QED BY <1>1, <1>2, <1>3 DEF Fresh

LEMMA SaveCodeVerifierFresh ==
    ASSUME Types, WaitInv, NEW x \in Actor, SaveCodeVerifier(x)
    PROVE  Fresh
<1>1. \A f \in Login : pc'[f] \in Unstated => pc[f] \in Unstated /\ (entry'.state = f => entry.state = f)
  BY AuthAssumption, AfterAuthStep, EntryWrites, FencedWrites
     DEF SaveCodeVerifier, Goto, Unstated, Types, PcType, StoreType, EntryType, store, Actor, WaitInv, LoginsWait, ActorsKnow
<1>2. \A f \in Login : pc'[f] \in Unstated => \A y \in Actor : asked'[y] = f => f \in {asked[y], entry.state}
  BY AuthAssumption, AfterAuthStep
     DEF SaveCodeVerifier, Goto, Unstated, Types, PcType, FlowType, Actor, WaitInv, LoginsWait
<1>3. \A f \in Login : pc'[f] \in Unopened => pc[f] \in Unopened /\ (f \in opened' => f \in opened)
  BY AuthAssumption, AfterAuthStep
     DEF SaveCodeVerifier, Goto, Unstated, Unopened, Types, PcType, ListenerType, listener, Actor, WaitInv, LoginsWait
<1> QED BY <1>1, <1>2, <1>3 DEF Fresh

LEMMA RedirectFresh ==
    ASSUME Types, WaitInv, NEW x \in Actor, Redirect(x)
    PROVE  Fresh
<1>1. \A f \in Login : pc'[f] \in Unstated => pc[f] \in Unstated /\ (entry'.state = f => entry.state = f)
  BY AuthAssumption, AfterAuthStep, EntryWrites, FencedWrites
     DEF Redirect, Goto, Unstated, Types, PcType, StoreType, EntryType, store, Actor, WaitInv, LoginsWait, ActorsKnow
<1>2. \A f \in Login : pc'[f] \in Unstated => \A y \in Actor : asked'[y] = f => f \in {asked[y], entry.state}
  BY AuthAssumption, AfterAuthStep
     DEF Redirect, Goto, Unstated, Types, PcType, FlowType, Actor, WaitInv, LoginsWait
<1>3. \A f \in Login : pc'[f] \in Unopened => pc[f] \in Unopened /\ (f \in opened' => f \in opened)
  BY AuthAssumption, AfterAuthStep
     DEF Redirect, Goto, Unstated, Unopened, Types, PcType, ListenerType, listener, Actor, WaitInv, LoginsWait
<1> QED BY <1>1, <1>2, <1>3 DEF Fresh

LEMMA OpenFresh ==
    ASSUME Types, WaitInv, NEW x \in Actor, Open(x)
    PROVE  Fresh
<1>1. \A f \in Login : pc'[f] \in Unstated => pc[f] \in Unstated /\ (entry'.state = f => entry.state = f)
  BY AuthAssumption, AfterAuthStep, EntryWrites, FencedWrites
     DEF Open, Goto, Unstated, Types, PcType, StoreType, EntryType, store, Actor, WaitInv, LoginsWait, ActorsKnow
<1>2. \A f \in Login : pc'[f] \in Unstated => \A y \in Actor : asked'[y] = f => f \in {asked[y], entry.state}
  BY AuthAssumption, AfterAuthStep
     DEF Open, Goto, Unstated, Types, PcType, FlowType, Actor, WaitInv, LoginsWait
<1>3. \A f \in Login : pc'[f] \in Unopened => pc[f] \in Unopened /\ (f \in opened' => f \in opened)
  BY AuthAssumption, AfterAuthStep
     DEF Open, Goto, Unstated, Unopened, Types, PcType, ListenerType, listener, Actor, WaitInv, LoginsWait
<1> QED BY <1>1, <1>2, <1>3 DEF Fresh

LEMMA ResumedFresh ==
    ASSUME Types, WaitInv, NEW x \in Actor, Resumed(x)
    PROVE  Fresh
<1>1. \A f \in Login : pc'[f] \in Unstated => pc[f] \in Unstated /\ (entry'.state = f => entry.state = f)
  BY AuthAssumption, AfterAuthStep, EntryWrites, FencedWrites
     DEF Resumed, Goto, Unstated, Types, PcType, StoreType, EntryType, store, Actor, WaitInv, LoginsWait, ActorsKnow
<1>2. \A f \in Login : pc'[f] \in Unstated => \A y \in Actor : asked'[y] = f => f \in {asked[y], entry.state}
  BY AuthAssumption, AfterAuthStep
     DEF Resumed, Goto, Unstated, Types, PcType, FlowType, Actor, WaitInv, LoginsWait
<1>3. \A f \in Login : pc'[f] \in Unopened => pc[f] \in Unopened /\ (f \in opened' => f \in opened)
  BY AuthAssumption, AfterAuthStep
     DEF Resumed, Goto, Unstated, Unopened, Types, PcType, ListenerType, listener, Actor, WaitInv, LoginsWait
<1> QED BY <1>1, <1>2, <1>3 DEF Fresh

LEMMA ExchangeFresh ==
    ASSUME Types, WaitInv, NEW x \in Actor, Exchange(x)
    PROVE  Fresh
<1>1. \A f \in Login : pc'[f] \in Unstated => pc[f] \in Unstated /\ (entry'.state = f => entry.state = f)
  BY AuthAssumption, AfterAuthStep, EntryWrites, FencedWrites
     DEF Exchange, Goto, Unstated, Types, PcType, StoreType, EntryType, store, Actor, WaitInv, LoginsWait, ActorsKnow
<1>2. \A f \in Login : pc'[f] \in Unstated => \A y \in Actor : asked'[y] = f => f \in {asked[y], entry.state}
  BY AuthAssumption, AfterAuthStep
     DEF Exchange, Goto, Unstated, Types, PcType, FlowType, Actor, WaitInv, LoginsWait
<1>3. \A f \in Login : pc'[f] \in Unopened => pc[f] \in Unopened /\ (f \in opened' => f \in opened)
  BY AuthAssumption, AfterAuthStep
     DEF Exchange, Goto, Unstated, Unopened, Types, PcType, ListenerType, listener, Actor, WaitInv, LoginsWait
<1> QED BY <1>1, <1>2, <1>3 DEF Fresh

LEMMA SaveTokensFresh ==
    ASSUME Types, WaitInv, NEW x \in Actor, SaveTokens(x)
    PROVE  Fresh
<1>1. \A f \in Login : pc'[f] \in Unstated => pc[f] \in Unstated /\ (entry'.state = f => entry.state = f)
  BY AuthAssumption, AfterAuthStep, EntryWrites, FencedWrites
     DEF SaveTokens, Goto, Unstated, Types, PcType, StoreType, EntryType, store, Actor, WaitInv, LoginsWait, ActorsKnow
<1>2. \A f \in Login : pc'[f] \in Unstated => \A y \in Actor : asked'[y] = f => f \in {asked[y], entry.state}
  BY AuthAssumption, AfterAuthStep
     DEF SaveTokens, Goto, Unstated, Types, PcType, FlowType, Actor, WaitInv, LoginsWait
<1>3. \A f \in Login : pc'[f] \in Unopened => pc[f] \in Unopened /\ (f \in opened' => f \in opened)
  BY AuthAssumption, AfterAuthStep
     DEF SaveTokens, Goto, Unstated, Unopened, Types, PcType, ListenerType, listener, Actor, WaitInv, LoginsWait
<1> QED BY <1>1, <1>2, <1>3 DEF Fresh

LEMMA UpdateStateFresh ==
    ASSUME Types, WaitInv, NEW x \in Login, UpdateState(x)
    PROVE  Fresh
<1>1. \A f \in Login : pc'[f] \in Unstated => pc[f] \in Unstated /\ (entry'.state = f => entry.state = f)
  BY AuthAssumption, AfterAuthStep, EntryWrites, FencedWrites
     DEF UpdateState, Goto, Unstated, Types, PcType, StoreType, EntryType, store, Actor, WaitInv, LoginsWait, ActorsKnow
<1>2. \A f \in Login : pc'[f] \in Unstated => \A y \in Actor : asked'[y] = f => f \in {asked[y], entry.state}
  BY AuthAssumption, AfterAuthStep
     DEF UpdateState, Goto, Unstated, Types, PcType, FlowType, Actor, WaitInv, LoginsWait
<1>3. \A f \in Login : pc'[f] \in Unopened => pc[f] \in Unopened /\ (f \in opened' => f \in opened)
  BY AuthAssumption, AfterAuthStep
     DEF UpdateState, Goto, Unstated, Unopened, Types, PcType, ListenerType, listener, Actor, WaitInv, LoginsWait
<1> QED BY <1>1, <1>2, <1>3 DEF Fresh

LEMMA MatchFresh ==
    ASSUME Types, WaitInv, NEW x \in Login, Match(x)
    PROVE  Fresh
<1>1. \A f \in Login : pc'[f] \in Unstated => pc[f] \in Unstated /\ (entry'.state = f => entry.state = f)
  BY AuthAssumption, AfterAuthStep, EntryWrites, FencedWrites
     DEF Match, Goto, Unstated, Types, PcType, StoreType, EntryType, store, Actor, WaitInv, LoginsWait, ActorsKnow
<1>2. \A f \in Login : pc'[f] \in Unstated => \A y \in Actor : asked'[y] = f => f \in {asked[y], entry.state}
  BY AuthAssumption, AfterAuthStep
     DEF Match, Goto, Unstated, Types, PcType, FlowType, Actor, WaitInv, LoginsWait
<1>3. \A f \in Login : pc'[f] \in Unopened => pc[f] \in Unopened /\ (f \in opened' => f \in opened)
  BY AuthAssumption, AfterAuthStep
     DEF Match, Goto, Unstated, Unopened, Types, PcType, ListenerType, listener, Actor, WaitInv, LoginsWait
<1> QED BY <1>1, <1>2, <1>3 DEF Fresh

LEMMA ClearOAuthStateFresh ==
    ASSUME Types, WaitInv, NEW x \in Login, ClearOAuthState(x)
    PROVE  Fresh
<1>1. \A f \in Login : pc'[f] \in Unstated => pc[f] \in Unstated /\ (entry'.state = f => entry.state = f)
  BY AuthAssumption, AfterAuthStep, EntryWrites, FencedWrites
     DEF ClearOAuthState, Goto, Unstated, Types, PcType, StoreType, EntryType, store, Actor, WaitInv, LoginsWait, ActorsKnow
<1>2. \A f \in Login : pc'[f] \in Unstated => \A y \in Actor : asked'[y] = f => f \in {asked[y], entry.state}
  BY AuthAssumption, AfterAuthStep
     DEF ClearOAuthState, Goto, Unstated, Types, PcType, FlowType, Actor, WaitInv, LoginsWait
<1>3. \A f \in Login : pc'[f] \in Unopened => pc[f] \in Unopened /\ (f \in opened' => f \in opened)
  BY AuthAssumption, AfterAuthStep
     DEF ClearOAuthState, Goto, Unstated, Unopened, Types, PcType, ListenerType, listener, Actor, WaitInv, LoginsWait
<1> QED BY <1>1, <1>2, <1>3 DEF Fresh

LEMMA ClearCodeVerifierFresh ==
    ASSUME Types, WaitInv, NEW x \in Login, ClearCodeVerifier(x)
    PROVE  Fresh
<1>1. \A f \in Login : pc'[f] \in Unstated => pc[f] \in Unstated /\ (entry'.state = f => entry.state = f)
  BY AuthAssumption, AfterAuthStep, EntryWrites, FencedWrites
     DEF ClearCodeVerifier, Goto, Unstated, Types, PcType, StoreType, EntryType, store, Actor, WaitInv, LoginsWait, ActorsKnow
<1>2. \A f \in Login : pc'[f] \in Unstated => \A y \in Actor : asked'[y] = f => f \in {asked[y], entry.state}
  BY AuthAssumption, AfterAuthStep
     DEF ClearCodeVerifier, Goto, Unstated, Types, PcType, FlowType, Actor, WaitInv, LoginsWait
<1>3. \A f \in Login : pc'[f] \in Unopened => pc[f] \in Unopened /\ (f \in opened' => f \in opened)
  BY AuthAssumption, AfterAuthStep
     DEF ClearCodeVerifier, Goto, Unstated, Unopened, Types, PcType, ListenerType, listener, Actor, WaitInv, LoginsWait
<1> QED BY <1>1, <1>2, <1>3 DEF Fresh

LEMMA ReconnectFresh ==
    ASSUME Types, WaitInv, NEW x \in Login, Reconnect(x)
    PROVE  Fresh
<1>1. \A f \in Login : pc'[f] \in Unstated => pc[f] \in Unstated /\ (entry'.state = f => entry.state = f)
  BY AuthAssumption, AfterAuthStep, EntryWrites, FencedWrites
     DEF Reconnect, Goto, Unstated, Types, PcType, StoreType, EntryType, store, Actor, WaitInv, LoginsWait, ActorsKnow
<1>2. \A f \in Login : pc'[f] \in Unstated => \A y \in Actor : asked'[y] = f => f \in {asked[y], entry.state}
  BY AuthAssumption, AfterAuthStep
     DEF Reconnect, Goto, Unstated, Types, PcType, FlowType, Actor, WaitInv, LoginsWait
<1>3. \A f \in Login : pc'[f] \in Unopened => pc[f] \in Unopened /\ (f \in opened' => f \in opened)
  BY AuthAssumption, AfterAuthStep
     DEF Reconnect, Goto, Unstated, Unopened, Types, PcType, ListenerType, listener, Actor, WaitInv, LoginsWait
<1> QED BY <1>1, <1>2, <1>3 DEF Fresh

LEMMA ReconnectedFresh ==
    ASSUME Types, WaitInv, NEW x \in Login, Reconnected(x)
    PROVE  Fresh
<1>1. \A f \in Login : pc'[f] \in Unstated => pc[f] \in Unstated /\ (entry'.state = f => entry.state = f)
  BY AuthAssumption, AfterAuthStep, EntryWrites, FencedWrites
     DEF Reconnected, Goto, Unstated, Types, PcType, StoreType, EntryType, store, Actor, WaitInv, LoginsWait, ActorsKnow
<1>2. \A f \in Login : pc'[f] \in Unstated => \A y \in Actor : asked'[y] = f => f \in {asked[y], entry.state}
  BY AuthAssumption, AfterAuthStep
     DEF Reconnected, Goto, Unstated, Types, PcType, FlowType, Actor, WaitInv, LoginsWait
<1>3. \A f \in Login : pc'[f] \in Unopened => pc[f] \in Unopened /\ (f \in opened' => f \in opened)
  BY AuthAssumption, AfterAuthStep
     DEF Reconnected, Goto, Unstated, Unopened, Types, PcType, ListenerType, listener, Actor, WaitInv, LoginsWait
<1> QED BY <1>1, <1>2, <1>3 DEF Fresh

LEMMA CleanFresh ==
    ASSUME Types, WaitInv, NEW x \in Login, Clean(x)
    PROVE  Fresh
<1>1. \A f \in Login : pc'[f] \in Unstated => pc[f] \in Unstated /\ (entry'.state = f => entry.state = f)
  BY AuthAssumption, AfterAuthStep, EntryWrites, FencedWrites
     DEF Clean, Goto, Unstated, Types, PcType, StoreType, EntryType, store, Actor, WaitInv, LoginsWait, ActorsKnow
<1>2. \A f \in Login : pc'[f] \in Unstated => \A y \in Actor : asked'[y] = f => f \in {asked[y], entry.state}
  BY AuthAssumption, AfterAuthStep
     DEF Clean, Goto, Unstated, Types, PcType, FlowType, Actor, WaitInv, LoginsWait
<1>3. \A f \in Login : pc'[f] \in Unopened => pc[f] \in Unopened /\ (f \in opened' => f \in opened)
  BY AuthAssumption, AfterAuthStep
     DEF Clean, Goto, Unstated, Unopened, Types, PcType, ListenerType, listener, Actor, WaitInv, LoginsWait
<1> QED BY <1>1, <1>2, <1>3 DEF Fresh

LEMMA JoinedFresh ==
    ASSUME Types, WaitInv, NEW x \in Login, Joined(x)
    PROVE  Fresh
<1>1. \A f \in Login : pc'[f] \in Unstated => pc[f] \in Unstated /\ (entry'.state = f => entry.state = f)
  BY AuthAssumption, AfterAuthStep, EntryWrites, FencedWrites
     DEF Joined, Goto, Unstated, Types, PcType, StoreType, EntryType, store, Actor, WaitInv, LoginsWait, ActorsKnow
<1>2. \A f \in Login : pc'[f] \in Unstated => \A y \in Actor : asked'[y] = f => f \in {asked[y], entry.state}
  BY AuthAssumption, AfterAuthStep
     DEF Joined, Goto, Unstated, Types, PcType, FlowType, Actor, WaitInv, LoginsWait
<1>3. \A f \in Login : pc'[f] \in Unopened => pc[f] \in Unopened /\ (f \in opened' => f \in opened)
  BY AuthAssumption, AfterAuthStep
     DEF Joined, Goto, Unstated, Unopened, Types, PcType, ListenerType, listener, Actor, WaitInv, LoginsWait
<1> QED BY <1>1, <1>2, <1>3 DEF Fresh

LEMMA ListAfterLoginFresh ==
    ASSUME Types, WaitInv, NEW x \in Login, ListAfterLogin(x)
    PROVE  Fresh
<1>1. \A f \in Login : pc'[f] \in Unstated => pc[f] \in Unstated /\ (entry'.state = f => entry.state = f)
  BY AuthAssumption, AfterAuthStep, EntryWrites, FencedWrites
     DEF ListAfterLogin, Goto, Unstated, Types, PcType, StoreType, EntryType, store, Actor, WaitInv, LoginsWait, ActorsKnow
<1>2. \A f \in Login : pc'[f] \in Unstated => \A y \in Actor : asked'[y] = f => f \in {asked[y], entry.state}
  BY AuthAssumption, AfterAuthStep
     DEF ListAfterLogin, Goto, Unstated, Types, PcType, FlowType, Actor, WaitInv, LoginsWait
<1>3. \A f \in Login : pc'[f] \in Unopened => pc[f] \in Unopened /\ (f \in opened' => f \in opened)
  BY AuthAssumption, AfterAuthStep
     DEF ListAfterLogin, Goto, Unstated, Unopened, Types, PcType, ListenerType, listener, Actor, WaitInv, LoginsWait
<1> QED BY <1>1, <1>2, <1>3 DEF Fresh

LEMMA StoreClientFresh ==
    ASSUME Types, WaitInv, NEW x \in Login, StoreClient(x)
    PROVE  Fresh
<1>1. \A f \in Login : pc'[f] \in Unstated => pc[f] \in Unstated /\ (entry'.state = f => entry.state = f)
  BY AuthAssumption, AfterAuthStep, EntryWrites, FencedWrites
     DEF StoreClient, Goto, Unstated, Types, PcType, StoreType, EntryType, store, Actor, WaitInv, LoginsWait, ActorsKnow
<1>2. \A f \in Login : pc'[f] \in Unstated => \A y \in Actor : asked'[y] = f => f \in {asked[y], entry.state}
  BY AuthAssumption, AfterAuthStep
     DEF StoreClient, Goto, Unstated, Types, PcType, FlowType, Actor, WaitInv, LoginsWait
<1>3. \A f \in Login : pc'[f] \in Unopened => pc[f] \in Unopened /\ (f \in opened' => f \in opened)
  BY AuthAssumption, AfterAuthStep
     DEF StoreClient, Goto, Unstated, Unopened, Types, PcType, ListenerType, listener, Actor, WaitInv, LoginsWait
<1> QED BY <1>1, <1>2, <1>3 DEF Fresh

LEMMA ReplacedFresh ==
    ASSUME Types, WaitInv, NEW x \in Attempt, Replaced(x)
    PROVE  Fresh
<1>1. \A f \in Login : pc'[f] \in Unstated => pc[f] \in Unstated /\ (entry'.state = f => entry.state = f)
  BY AuthAssumption, AfterAuthStep, EntryWrites, FencedWrites
     DEF Replaced, Goto, Unstated, Types, PcType, StoreType, EntryType, store, Actor, WaitInv, LoginsWait, ActorsKnow
<1>2. \A f \in Login : pc'[f] \in Unstated => \A y \in Actor : asked'[y] = f => f \in {asked[y], entry.state}
  BY AuthAssumption, AfterAuthStep
     DEF Replaced, Goto, Unstated, Types, PcType, FlowType, Actor, WaitInv, LoginsWait
<1>3. \A f \in Login : pc'[f] \in Unopened => pc[f] \in Unopened /\ (f \in opened' => f \in opened)
  BY AuthAssumption, AfterAuthStep
     DEF Replaced, Goto, Unstated, Unopened, Types, PcType, ListenerType, listener, Actor, WaitInv, LoginsWait
<1> QED BY <1>1, <1>2, <1>3 DEF Fresh

LEMMA AttemptTimesOutFresh ==
    ASSUME Types, WaitInv, NEW x \in Attempt, AttemptTimesOut(x)
    PROVE  Fresh
<1>1. \A f \in Login : pc'[f] \in Unstated => pc[f] \in Unstated /\ (entry'.state = f => entry.state = f)
  BY AuthAssumption, AfterAuthStep, EntryWrites, FencedWrites
     DEF AttemptTimesOut, Goto, Unstated, Types, PcType, StoreType, EntryType, store, Actor, WaitInv, LoginsWait, ActorsKnow
<1>2. \A f \in Login : pc'[f] \in Unstated => \A y \in Actor : asked'[y] = f => f \in {asked[y], entry.state}
  BY AuthAssumption, AfterAuthStep
     DEF AttemptTimesOut, Goto, Unstated, Types, PcType, FlowType, Actor, WaitInv, LoginsWait
<1>3. \A f \in Login : pc'[f] \in Unopened => pc[f] \in Unopened /\ (f \in opened' => f \in opened)
  BY AuthAssumption, AfterAuthStep
     DEF AttemptTimesOut, Goto, Unstated, Unopened, Types, PcType, ListenerType, listener, Actor, WaitInv, LoginsWait
<1> QED BY <1>1, <1>2, <1>3 DEF Fresh

LEMMA NeedsAuthFresh ==
    ASSUME Types, WaitInv, NEW x \in Attempt, NeedsAuth(x)
    PROVE  Fresh
<1>1. \A f \in Login : pc'[f] \in Unstated => pc[f] \in Unstated /\ (entry'.state = f => entry.state = f)
  BY AuthAssumption, AfterAuthStep, EntryWrites, FencedWrites
     DEF NeedsAuth, Goto, Unstated, Types, PcType, StoreType, EntryType, store, Actor, WaitInv, LoginsWait, ActorsKnow
<1>2. \A f \in Login : pc'[f] \in Unstated => \A y \in Actor : asked'[y] = f => f \in {asked[y], entry.state}
  BY AuthAssumption, AfterAuthStep
     DEF NeedsAuth, Goto, Unstated, Types, PcType, FlowType, Actor, WaitInv, LoginsWait
<1>3. \A f \in Login : pc'[f] \in Unopened => pc[f] \in Unopened /\ (f \in opened' => f \in opened)
  BY AuthAssumption, AfterAuthStep
     DEF NeedsAuth, Goto, Unstated, Unopened, Types, PcType, ListenerType, listener, Actor, WaitInv, LoginsWait
<1> QED BY <1>1, <1>2, <1>3 DEF Fresh

LEMMA ListFresh ==
    ASSUME Types, WaitInv, NEW x \in Attempt, List(x)
    PROVE  Fresh
<1>1. \A f \in Login : pc'[f] \in Unstated => pc[f] \in Unstated /\ (entry'.state = f => entry.state = f)
  BY AuthAssumption, AfterAuthStep, EntryWrites, FencedWrites
     DEF List, Goto, Unstated, Types, PcType, StoreType, EntryType, store, Actor, WaitInv, LoginsWait, ActorsKnow
<1>2. \A f \in Login : pc'[f] \in Unstated => \A y \in Actor : asked'[y] = f => f \in {asked[y], entry.state}
  BY AuthAssumption, AfterAuthStep
     DEF List, Goto, Unstated, Types, PcType, FlowType, Actor, WaitInv, LoginsWait
<1>3. \A f \in Login : pc'[f] \in Unopened => pc[f] \in Unopened /\ (f \in opened' => f \in opened)
  BY AuthAssumption, AfterAuthStep
     DEF List, Goto, Unstated, Unopened, Types, PcType, ListenerType, listener, Actor, WaitInv, LoginsWait
<1> QED BY <1>1, <1>2, <1>3 DEF Fresh

LEMMA AnswerFresh ==
    ASSUME Types, WaitInv, NEW x \in Actor, Answer(x)
    PROVE  Fresh
<1>1. \A f \in Login : pc'[f] \in Unstated => pc[f] \in Unstated /\ (entry'.state = f => entry.state = f)
  BY AuthAssumption, AfterAuthStep, EntryWrites, FencedWrites
     DEF Answer, Goto, Unstated, Types, PcType, StoreType, EntryType, store, Actor, WaitInv, LoginsWait, ActorsKnow
<1>2. \A f \in Login : pc'[f] \in Unstated => \A y \in Actor : asked'[y] = f => f \in {asked[y], entry.state}
  BY AuthAssumption, AfterAuthStep
     DEF Answer, Goto, Unstated, Types, PcType, FlowType, Actor, WaitInv, LoginsWait
<1>3. \A f \in Login : pc'[f] \in Unopened => pc[f] \in Unopened /\ (f \in opened' => f \in opened)
  BY AuthAssumption, AfterAuthStep
     DEF Answer, Goto, Unstated, Unopened, Types, PcType, ListenerType, listener, Actor, WaitInv, LoginsWait
<1> QED BY <1>1, <1>2, <1>3 DEF Fresh

LEMMA TimedOutFresh ==
    ASSUME Types, WaitInv, NEW x \in Actor, TimedOut(x)
    PROVE  Fresh
<1>1. \A f \in Login : pc'[f] \in Unstated => pc[f] \in Unstated /\ (entry'.state = f => entry.state = f)
  BY AuthAssumption, AfterAuthStep, EntryWrites, FencedWrites
     DEF TimedOut, Goto, Unstated, Types, PcType, StoreType, EntryType, store, Actor, WaitInv, LoginsWait, ActorsKnow
<1>2. \A f \in Login : pc'[f] \in Unstated => \A y \in Actor : asked'[y] = f => f \in {asked[y], entry.state}
  BY AuthAssumption, AfterAuthStep
     DEF TimedOut, Goto, Unstated, Types, PcType, FlowType, Actor, WaitInv, LoginsWait
<1>3. \A f \in Login : pc'[f] \in Unopened => pc[f] \in Unopened /\ (f \in opened' => f \in opened)
  BY AuthAssumption, AfterAuthStep
     DEF TimedOut, Goto, Unstated, Unopened, Types, PcType, ListenerType, listener, Actor, WaitInv, LoginsWait
<1> QED BY <1>1, <1>2, <1>3 DEF Fresh

LEMMA OtherFresh ==
    ASSUME Types, Disconnected \/ End \/ UNCHANGED vars
    PROVE  Fresh
<1> USE DEF Disconnected, End, RemoveAuth, EntryRemoved, Shutdown, CallbacksClosed, ClientsClosed, AttemptsClosed
<1>1. \A x \in Actor : pc'[x] \in {pc[x], "ended"}
  BY DEF vars
<1>2. asked' = asked /\ opened' = opened
  BY DEF vars, listener
<1>3. entry'.state \in {entry.state, None}
  <2>1. CASE entry' = EmptyEntry
    BY <2>1 DEF EmptyEntry
  <2>2. CASE entry' = entry
    BY <2>2
  <2>3. entry' = EmptyEntry \/ entry' = entry
    BY DEF vars, store
  <2> QED BY <2>1, <2>2, <2>3
<1> HIDE DEF Disconnected, End, RemoveAuth, EntryRemoved, Shutdown, CallbacksClosed, ClientsClosed, AttemptsClosed
<1> QED BY <1>1, <1>2, <1>3, AuthAssumption DEF Fresh, Unstated, Unopened, Actor

(* The steps of an undisturbed login itself. *)

LEMMA AuthenticateGrants ==
    ASSUME Types, WaitInv, StatesAreFresh, NEW x \in Login, Authenticate(x), pc[x] = "idle" \/ Grant(x)
    PROVE  pc'[x] = "ended" \/ Grant(x)'
  BY AuthAssumption, AfterAuthStep, EntryWrites, FencedWrites
     DEF Grant, StatesAreFresh, Unstated, Unopened, Authenticate, Goto, Taken, Key, NewProvider, store, manager, listener,
         Types, PcType, StoreType, EntryType, ManagerType, ListenerType, FlowType, WaitInv, LoginsWait, ActorsKnow, Actor

LEMMA StartedGrants ==
    ASSUME Types, WaitInv, StatesAreFresh, NEW x \in Login, Started(x), pc[x] = "idle" \/ Grant(x)
    PROVE  pc'[x] = "ended" \/ Grant(x)'
  BY AuthAssumption, AfterAuthStep, EntryWrites, FencedWrites
     DEF Grant, StatesAreFresh, Unstated, Unopened, Started, Goto, Taken, Key, NewProvider, store, manager, listener,
         Types, PcType, StoreType, EntryType, ManagerType, ListenerType, FlowType, WaitInv, LoginsWait, ActorsKnow, Actor

LEMMA AcceptedGrants ==
    ASSUME Types, WaitInv, StatesAreFresh, NEW x \in Login, Accepted(x), pc[x] = "idle" \/ Grant(x)
    PROVE  pc'[x] = "ended" \/ Grant(x)'
  BY AuthAssumption, AfterAuthStep, EntryWrites, FencedWrites
     DEF Grant, StatesAreFresh, Unstated, Unopened, Accepted, Goto, Taken, Key, NewProvider, store, manager, listener,
         Types, PcType, StoreType, EntryType, ManagerType, ListenerType, FlowType, WaitInv, LoginsWait, ActorsKnow, Actor

LEMMA ConnectFailsGrants ==
    ASSUME Types, WaitInv, StatesAreFresh, NEW x \in Login, ConnectFails(x), pc[x] = "idle" \/ Grant(x)
    PROVE  pc'[x] = "ended" \/ Grant(x)'
  BY AuthAssumption, AfterAuthStep, EntryWrites, FencedWrites
     DEF Grant, StatesAreFresh, Unstated, Unopened, ConnectFails, Goto, Taken, Key, NewProvider, store, manager, listener,
         Types, PcType, StoreType, EntryType, ManagerType, ListenerType, FlowType, WaitInv, LoginsWait, ActorsKnow, Actor

LEMMA ChallengedGrants ==
    ASSUME Types, WaitInv, StatesAreFresh, NEW x \in Login, Challenged(x), pc[x] = "idle" \/ Grant(x)
    PROVE  pc'[x] = "ended" \/ Grant(x)'
  BY AuthAssumption, AfterAuthStep, EntryWrites, FencedWrites
     DEF Grant, StatesAreFresh, Unstated, Unopened, Challenged, Goto, Taken, Key, NewProvider, store, manager, listener,
         Types, PcType, StoreType, EntryType, ManagerType, ListenerType, FlowType, WaitInv, LoginsWait, ActorsKnow, Actor

LEMMA CreateStateGrants ==
    ASSUME Types, WaitInv, StatesAreFresh, NEW x \in Login, CreateState(x), pc[x] = "idle" \/ Grant(x)
    PROVE  pc'[x] = "ended" \/ Grant(x)'
  BY AuthAssumption, AfterAuthStep, EntryWrites, FencedWrites
     DEF Grant, StatesAreFresh, Unstated, Unopened, CreateState, Goto, Taken, Key, NewProvider, store, manager, listener,
         Types, PcType, StoreType, EntryType, ManagerType, ListenerType, FlowType, WaitInv, LoginsWait, ActorsKnow, Actor

LEMMA SaveCodeVerifierGrants ==
    ASSUME Types, WaitInv, StatesAreFresh, NEW x \in Login, SaveCodeVerifier(x), pc[x] = "idle" \/ Grant(x)
    PROVE  pc'[x] = "ended" \/ Grant(x)'
  BY AuthAssumption, AfterAuthStep, EntryWrites, FencedWrites
     DEF Grant, StatesAreFresh, Unstated, Unopened, SaveCodeVerifier, Goto, Taken, Key, NewProvider, store, manager, listener,
         Types, PcType, StoreType, EntryType, ManagerType, ListenerType, FlowType, WaitInv, LoginsWait, ActorsKnow, Actor

LEMMA RedirectGrants ==
    ASSUME Types, WaitInv, StatesAreFresh, NEW x \in Login, Redirect(x), pc[x] = "idle" \/ Grant(x)
    PROVE  pc'[x] = "ended" \/ Grant(x)'
  BY AuthAssumption, AfterAuthStep, EntryWrites, FencedWrites
     DEF Grant, StatesAreFresh, Unstated, Unopened, Redirect, Goto, Taken, Key, NewProvider, store, manager, listener,
         Types, PcType, StoreType, EntryType, ManagerType, ListenerType, FlowType, WaitInv, LoginsWait, ActorsKnow, Actor

LEMMA OpenGrants ==
    ASSUME Types, WaitInv, StatesAreFresh, NEW x \in Login, Open(x), pc[x] = "idle" \/ Grant(x)
    PROVE  pc'[x] = "ended" \/ Grant(x)'
  BY AuthAssumption, AfterAuthStep, EntryWrites, FencedWrites
     DEF Grant, StatesAreFresh, Unstated, Unopened, Open, Goto, Taken, Key, NewProvider, store, manager, listener,
         Types, PcType, StoreType, EntryType, ManagerType, ListenerType, FlowType, WaitInv, LoginsWait, ActorsKnow, Actor

LEMMA ResumedGrants ==
    ASSUME Types, WaitInv, StatesAreFresh, NEW x \in Login, Resumed(x), pc[x] = "idle" \/ Grant(x)
    PROVE  pc'[x] = "ended" \/ Grant(x)'
  BY AuthAssumption, AfterAuthStep, EntryWrites, FencedWrites
     DEF Grant, StatesAreFresh, Unstated, Unopened, Resumed, Goto, Taken, Key, NewProvider, store, manager, listener,
         Types, PcType, StoreType, EntryType, ManagerType, ListenerType, FlowType, WaitInv, LoginsWait, ActorsKnow, Actor

LEMMA ExchangeGrants ==
    ASSUME Types, WaitInv, StatesAreFresh, NEW x \in Login, Exchange(x), pc[x] = "idle" \/ Grant(x)
    PROVE  pc'[x] = "ended" \/ Grant(x)'
  BY AuthAssumption, AfterAuthStep, EntryWrites, FencedWrites
     DEF Grant, StatesAreFresh, Unstated, Unopened, Exchange, Goto, Taken, Key, NewProvider, store, manager, listener,
         Types, PcType, StoreType, EntryType, ManagerType, ListenerType, FlowType, WaitInv, LoginsWait, ActorsKnow, Actor

LEMMA SaveTokensGrants ==
    ASSUME Types, WaitInv, StatesAreFresh, NEW x \in Login, SaveTokens(x), pc[x] = "idle" \/ Grant(x)
    PROVE  pc'[x] = "ended" \/ Grant(x)'
  BY AuthAssumption, AfterAuthStep, EntryWrites, FencedWrites
     DEF Grant, StatesAreFresh, Unstated, Unopened, SaveTokens, Goto, Taken, Key, NewProvider, store, manager, listener,
         Types, PcType, StoreType, EntryType, ManagerType, ListenerType, FlowType, WaitInv, LoginsWait, ActorsKnow, Actor

LEMMA UpdateStateGrants ==
    ASSUME Types, WaitInv, StatesAreFresh, NEW x \in Login, UpdateState(x), pc[x] = "idle" \/ Grant(x)
    PROVE  pc'[x] = "ended" \/ Grant(x)'
  BY AuthAssumption, AfterAuthStep, EntryWrites, FencedWrites
     DEF Grant, StatesAreFresh, Unstated, Unopened, UpdateState, Goto, Taken, Key, NewProvider, store, manager, listener,
         Types, PcType, StoreType, EntryType, ManagerType, ListenerType, FlowType, WaitInv, LoginsWait, ActorsKnow, Actor

LEMMA MatchGrants ==
    ASSUME Types, WaitInv, StatesAreFresh, NEW x \in Login, Match(x), pc[x] = "idle" \/ Grant(x)
    PROVE  pc'[x] = "ended" \/ Grant(x)'
  BY AuthAssumption, AfterAuthStep, EntryWrites, FencedWrites
     DEF Grant, StatesAreFresh, Unstated, Unopened, Match, Goto, Taken, Key, NewProvider, store, manager, listener,
         Types, PcType, StoreType, EntryType, ManagerType, ListenerType, FlowType, WaitInv, LoginsWait, ActorsKnow, Actor

LEMMA ClearOAuthStateGrants ==
    ASSUME Types, WaitInv, StatesAreFresh, NEW x \in Login, ClearOAuthState(x), pc[x] = "idle" \/ Grant(x)
    PROVE  pc'[x] = "ended" \/ Grant(x)'
  BY AuthAssumption, AfterAuthStep, EntryWrites, FencedWrites
     DEF Grant, StatesAreFresh, Unstated, Unopened, ClearOAuthState, Goto, Taken, Key, NewProvider, store, manager, listener,
         Types, PcType, StoreType, EntryType, ManagerType, ListenerType, FlowType, WaitInv, LoginsWait, ActorsKnow, Actor

LEMMA ClearCodeVerifierGrants ==
    ASSUME Types, WaitInv, StatesAreFresh, NEW x \in Login, ClearCodeVerifier(x), pc[x] = "idle" \/ Grant(x)
    PROVE  pc'[x] = "ended" \/ Grant(x)'
  BY AuthAssumption, AfterAuthStep, EntryWrites, FencedWrites
     DEF Grant, StatesAreFresh, Unstated, Unopened, ClearCodeVerifier, Goto, Taken, Key, NewProvider, store, manager, listener,
         Types, PcType, StoreType, EntryType, ManagerType, ListenerType, FlowType, WaitInv, LoginsWait, ActorsKnow, Actor

LEMMA ReconnectGrants ==
    ASSUME Types, WaitInv, StatesAreFresh, NEW x \in Login, Reconnect(x), pc[x] = "idle" \/ Grant(x)
    PROVE  pc'[x] = "ended" \/ Grant(x)'
  BY AuthAssumption, AfterAuthStep, EntryWrites, FencedWrites
     DEF Grant, StatesAreFresh, Unstated, Unopened, Reconnect, Goto, Taken, Key, NewProvider, store, manager, listener,
         Types, PcType, StoreType, EntryType, ManagerType, ListenerType, FlowType, WaitInv, LoginsWait, ActorsKnow, Actor

LEMMA ReconnectedGrants ==
    ASSUME Types, WaitInv, StatesAreFresh, NEW x \in Login, Reconnected(x), pc[x] = "idle" \/ Grant(x)
    PROVE  pc'[x] = "ended" \/ Grant(x)'
  BY AuthAssumption, AfterAuthStep, EntryWrites, FencedWrites
     DEF Grant, StatesAreFresh, Unstated, Unopened, Reconnected, Goto, Taken, Key, NewProvider, store, manager, listener,
         Types, PcType, StoreType, EntryType, ManagerType, ListenerType, FlowType, WaitInv, LoginsWait, ActorsKnow, Actor

LEMMA CleanGrants ==
    ASSUME Types, WaitInv, StatesAreFresh, NEW x \in Login, Clean(x), pc[x] = "idle" \/ Grant(x)
    PROVE  pc'[x] = "ended" \/ Grant(x)'
  BY AuthAssumption, AfterAuthStep, EntryWrites, FencedWrites
     DEF Grant, StatesAreFresh, Unstated, Unopened, Clean, Goto, Taken, Key, NewProvider, store, manager, listener,
         Types, PcType, StoreType, EntryType, ManagerType, ListenerType, FlowType, WaitInv, LoginsWait, ActorsKnow, Actor

LEMMA JoinedGrants ==
    ASSUME Types, WaitInv, StatesAreFresh, NEW x \in Login, Joined(x), pc[x] = "idle" \/ Grant(x)
    PROVE  pc'[x] = "ended" \/ Grant(x)'
  BY AuthAssumption, AfterAuthStep, EntryWrites, FencedWrites
     DEF Grant, StatesAreFresh, Unstated, Unopened, Joined, Goto, Taken, Key, NewProvider, store, manager, listener,
         Types, PcType, StoreType, EntryType, ManagerType, ListenerType, FlowType, WaitInv, LoginsWait, ActorsKnow, Actor

LEMMA ListAfterLoginGrants ==
    ASSUME Types, WaitInv, StatesAreFresh, NEW x \in Login, ListAfterLogin(x), pc[x] = "idle" \/ Grant(x)
    PROVE  pc'[x] = "ended" \/ Grant(x)'
  BY AuthAssumption, AfterAuthStep, EntryWrites, FencedWrites
     DEF Grant, StatesAreFresh, Unstated, Unopened, ListAfterLogin, Goto, Taken, Key, NewProvider, store, manager, listener,
         Types, PcType, StoreType, EntryType, ManagerType, ListenerType, FlowType, WaitInv, LoginsWait, ActorsKnow, Actor

LEMMA StoreClientGrants ==
    ASSUME Types, WaitInv, StatesAreFresh, NEW x \in Login, StoreClient(x), pc[x] = "idle" \/ Grant(x)
    PROVE  pc'[x] = "ended" \/ Grant(x)'
  BY AuthAssumption, AfterAuthStep, EntryWrites, FencedWrites
     DEF Grant, StatesAreFresh, Unstated, Unopened, StoreClient, Goto, Taken, Key, NewProvider, store, manager, listener,
         Types, PcType, StoreType, EntryType, ManagerType, ListenerType, FlowType, WaitInv, LoginsWait, ActorsKnow, Actor

\* Whoever acts, the step of another login is where it was.
LEMMA OthersStay ==
    ASSUME Types, NEW x \in Actor, Request(x) \/ Proceed(x)
    PROVE  \A f \in Login \ {x} : pc'[f] = pc[f]
<1>1. ASSUME Authenticate(x), x \in Login PROVE \A f \in Login \ {x} : pc'[f] = pc[f]
  BY <1>1, AuthAssumption DEF Authenticate, Goto, Types, PcType, Actor
<1>2. ASSUME Connect(x), x \in Attempt PROVE \A f \in Login \ {x} : pc'[f] = pc[f]
  BY <1>2, AuthAssumption DEF Connect, Goto, Types, PcType, Actor
<1>3. ASSUME Started(x) PROVE \A f \in Login \ {x} : pc'[f] = pc[f]
  BY <1>3, AuthAssumption DEF Started, Goto, Types, PcType, Actor
<1>4. ASSUME Accepted(x) PROVE \A f \in Login \ {x} : pc'[f] = pc[f]
  BY <1>4, AuthAssumption DEF Accepted, Goto, Types, PcType, Actor
<1>5. ASSUME ConnectFails(x) PROVE \A f \in Login \ {x} : pc'[f] = pc[f]
  BY <1>5, AuthAssumption DEF ConnectFails, Goto, Types, PcType, Actor
<1>6. ASSUME Challenged(x) PROVE \A f \in Login \ {x} : pc'[f] = pc[f]
  BY <1>6, AuthAssumption DEF Challenged, Goto, Types, PcType, Actor
<1>7. ASSUME CreateState(x) PROVE \A f \in Login \ {x} : pc'[f] = pc[f]
  BY <1>7, AuthAssumption DEF CreateState, Goto, Types, PcType, Actor
<1>8. ASSUME SaveCodeVerifier(x) PROVE \A f \in Login \ {x} : pc'[f] = pc[f]
  BY <1>8, AuthAssumption DEF SaveCodeVerifier, Goto, Types, PcType, Actor
<1>9. ASSUME Redirect(x) PROVE \A f \in Login \ {x} : pc'[f] = pc[f]
  BY <1>9, AuthAssumption DEF Redirect, Goto, Types, PcType, Actor
<1>10. ASSUME Open(x) PROVE \A f \in Login \ {x} : pc'[f] = pc[f]
  BY <1>10, AuthAssumption DEF Open, Goto, Types, PcType, Actor
<1>11. ASSUME Resumed(x) PROVE \A f \in Login \ {x} : pc'[f] = pc[f]
  BY <1>11, AuthAssumption DEF Resumed, Goto, Types, PcType, Actor
<1>12. ASSUME Exchange(x) PROVE \A f \in Login \ {x} : pc'[f] = pc[f]
  BY <1>12, AuthAssumption DEF Exchange, Goto, Types, PcType, Actor
<1>13. ASSUME SaveTokens(x) PROVE \A f \in Login \ {x} : pc'[f] = pc[f]
  BY <1>13, AuthAssumption DEF SaveTokens, Goto, Types, PcType, Actor
<1>14. ASSUME UpdateState(x), x \in Login PROVE \A f \in Login \ {x} : pc'[f] = pc[f]
  BY <1>14, AuthAssumption DEF UpdateState, Goto, Types, PcType, Actor
<1>15. ASSUME Match(x), x \in Login PROVE \A f \in Login \ {x} : pc'[f] = pc[f]
  BY <1>15, AuthAssumption DEF Match, Goto, Types, PcType, Actor
<1>16. ASSUME ClearOAuthState(x), x \in Login PROVE \A f \in Login \ {x} : pc'[f] = pc[f]
  BY <1>16, AuthAssumption DEF ClearOAuthState, Goto, Types, PcType, Actor
<1>17. ASSUME ClearCodeVerifier(x), x \in Login PROVE \A f \in Login \ {x} : pc'[f] = pc[f]
  BY <1>17, AuthAssumption DEF ClearCodeVerifier, Goto, Types, PcType, Actor
<1>18. ASSUME Reconnect(x), x \in Login PROVE \A f \in Login \ {x} : pc'[f] = pc[f]
  BY <1>18, AuthAssumption DEF Reconnect, Goto, Types, PcType, Actor
<1>19. ASSUME Reconnected(x), x \in Login PROVE \A f \in Login \ {x} : pc'[f] = pc[f]
  BY <1>19, AuthAssumption DEF Reconnected, Goto, Types, PcType, Actor
<1>20. ASSUME Clean(x), x \in Login PROVE \A f \in Login \ {x} : pc'[f] = pc[f]
  BY <1>20, AuthAssumption DEF Clean, Goto, Types, PcType, Actor
<1>21. ASSUME Joined(x), x \in Login PROVE \A f \in Login \ {x} : pc'[f] = pc[f]
  BY <1>21, AuthAssumption DEF Joined, Goto, Types, PcType, Actor
<1>22. ASSUME ListAfterLogin(x), x \in Login PROVE \A f \in Login \ {x} : pc'[f] = pc[f]
  BY <1>22, AuthAssumption DEF ListAfterLogin, Goto, Types, PcType, Actor
<1>23. ASSUME StoreClient(x), x \in Login PROVE \A f \in Login \ {x} : pc'[f] = pc[f]
  BY <1>23, AuthAssumption DEF StoreClient, Goto, Types, PcType, Actor
<1>24. ASSUME Replaced(x), x \in Attempt PROVE \A f \in Login \ {x} : pc'[f] = pc[f]
  BY <1>24, AuthAssumption DEF Replaced, Goto, Types, PcType, Actor
<1>25. ASSUME AttemptTimesOut(x), x \in Attempt PROVE \A f \in Login \ {x} : pc'[f] = pc[f]
  BY <1>25, AuthAssumption DEF AttemptTimesOut, Goto, Types, PcType, Actor
<1>26. ASSUME NeedsAuth(x), x \in Attempt PROVE \A f \in Login \ {x} : pc'[f] = pc[f]
  BY <1>26, AuthAssumption DEF NeedsAuth, Goto, Types, PcType, Actor
<1>27. ASSUME List(x), x \in Attempt PROVE \A f \in Login \ {x} : pc'[f] = pc[f]
  BY <1>27, AuthAssumption DEF List, Goto, Types, PcType, Actor
<1> QED
  BY <1>1, <1>2, <1>3, <1>4, <1>5, <1>6, <1>7, <1>8, <1>9, <1>10, <1>11, <1>12, <1>13, <1>14, <1>15, <1>16, <1>17, <1>18, <1>19, <1>20, <1>21, <1>22, <1>23, <1>24, <1>25, <1>26, <1>27 DEF Request, Proceed

LEMMA OwnGrants ==
    ASSUME Types, WaitInv, StatesAreFresh, NEW x \in Login, Request(x) \/ Proceed(x),
           pc[x] = "idle" \/ Grant(x)
    PROVE  pc'[x] = "ended" \/ Grant(x)'
<1>0. x \in Actor /\ x \notin Attempt
  BY AuthAssumption DEF Actor
<1>1. ASSUME Authenticate(x) PROVE pc'[x] = "ended" \/ Grant(x)'
  BY <1>1, AuthenticateGrants
<1>2. ASSUME Started(x) PROVE pc'[x] = "ended" \/ Grant(x)'
  BY <1>2, StartedGrants
<1>3. ASSUME Accepted(x) PROVE pc'[x] = "ended" \/ Grant(x)'
  BY <1>3, AcceptedGrants
<1>4. ASSUME ConnectFails(x) PROVE pc'[x] = "ended" \/ Grant(x)'
  BY <1>4, ConnectFailsGrants
<1>5. ASSUME Challenged(x) PROVE pc'[x] = "ended" \/ Grant(x)'
  BY <1>5, ChallengedGrants
<1>6. ASSUME CreateState(x) PROVE pc'[x] = "ended" \/ Grant(x)'
  BY <1>6, CreateStateGrants
<1>7. ASSUME SaveCodeVerifier(x) PROVE pc'[x] = "ended" \/ Grant(x)'
  BY <1>7, SaveCodeVerifierGrants
<1>8. ASSUME Redirect(x) PROVE pc'[x] = "ended" \/ Grant(x)'
  BY <1>8, RedirectGrants
<1>9. ASSUME Open(x) PROVE pc'[x] = "ended" \/ Grant(x)'
  BY <1>9, OpenGrants
<1>10. ASSUME Resumed(x) PROVE pc'[x] = "ended" \/ Grant(x)'
  BY <1>10, ResumedGrants
<1>11. ASSUME Exchange(x) PROVE pc'[x] = "ended" \/ Grant(x)'
  BY <1>11, ExchangeGrants
<1>12. ASSUME SaveTokens(x) PROVE pc'[x] = "ended" \/ Grant(x)'
  BY <1>12, SaveTokensGrants
<1>13. ASSUME UpdateState(x) PROVE pc'[x] = "ended" \/ Grant(x)'
  BY <1>13, UpdateStateGrants
<1>14. ASSUME Match(x) PROVE pc'[x] = "ended" \/ Grant(x)'
  BY <1>14, MatchGrants
<1>15. ASSUME ClearOAuthState(x) PROVE pc'[x] = "ended" \/ Grant(x)'
  BY <1>15, ClearOAuthStateGrants
<1>16. ASSUME ClearCodeVerifier(x) PROVE pc'[x] = "ended" \/ Grant(x)'
  BY <1>16, ClearCodeVerifierGrants
<1>17. ASSUME Reconnect(x) PROVE pc'[x] = "ended" \/ Grant(x)'
  BY <1>17, ReconnectGrants
<1>18. ASSUME Reconnected(x) PROVE pc'[x] = "ended" \/ Grant(x)'
  BY <1>18, ReconnectedGrants
<1>19. ASSUME Clean(x) PROVE pc'[x] = "ended" \/ Grant(x)'
  BY <1>19, CleanGrants
<1>20. ASSUME Joined(x) PROVE pc'[x] = "ended" \/ Grant(x)'
  BY <1>20, JoinedGrants
<1>21. ASSUME ListAfterLogin(x) PROVE pc'[x] = "ended" \/ Grant(x)'
  BY <1>21, ListAfterLoginGrants
<1>22. ASSUME StoreClient(x) PROVE pc'[x] = "ended" \/ Grant(x)'
  BY <1>22, StoreClientGrants
<1> QED
  BY <1>0, <1>1, <1>2, <1>3, <1>4, <1>5, <1>6, <1>7, <1>8, <1>9, <1>10, <1>11, <1>12, <1>13, <1>14, <1>15, <1>16, <1>17, <1>18, <1>19, <1>20, <1>21, <1>22 DEF Request, Proceed

\* What settles another's wait leaves a login its own; what settles its own brings its
\* own code, or none.
LEMMA AnswerGrants ==
    ASSUME Types, WaitInv, StatesAreFresh, NEW x \in Actor, Answer(x), NEW f \in Login, Grant(f)
    PROVE  Grant(f)'
<1> DEFINE w == pendingByState[asked[x]]
<1>1. UNCHANGED <<pc, entry, fence, provider, pendingTransport, client, asked, using>>
  BY DEF Answer, store, manager
<1>2. asked[x] \in Actor /\ x \in opened
  BY DEF Answer, WaitInv, ActorsKnow, Types, ListenerType
<1>3. f \in Actor /\ Key(f) = f
  BY DEF Actor, Key
<1>4. CASE callback[f] # "waiting"
  <2>1. callback'[f] = callback[f]
    BY <1>3, <1>4, AnswerEnds DEF WaitsEnd
  <2> QED BY <1>1, <1>4, <2>1 DEF Grant
<1>5. CASE callback[f] = "waiting"
  <2>1. CASE w = f
    <3>1. asked[x] = f
      BY <1>2, <1>3, <2>1 DEF WaitInv, SlotsHold
    <3>2. x = f
      BY <3>1 DEF Grant
    <3>3. PICK answer \in {x, "lost"} : Settle(asked[x], [y \in {w} |-> answer])
      BY <2>1, <1>3, AuthAssumption DEF Answer
    <3>4. callback'[f] = answer
      BY <3>3, <2>1, <1>3 DEF Settle
    <3>5. callback'[f] \in {"lost", f}
      BY <3>2, <3>3, <3>4
    <3>6. pc[f] \notin Unopened
      BY <1>2, <3>2 DEF StatesAreFresh
    <3>7. pc[f] \notin {"matching", "matched", "exchanging"}
      BY <1>3, <1>5, AuthAssumption DEF Grant
    <3> QED BY <1>1, <3>5, <3>7, AuthAssumption, <1>3 DEF Grant
  <2>2. CASE w # f
    <3>1. callback'[f] = callback[f]
      BY <1>3, <2>2 DEF Answer, Settle
    <3>2. pendingByState[f] = f => pendingByState'[f] = f
      BY <1>2, <1>3, <2>2 DEF Answer, Settle, Types, ListenerType
    <3> QED BY <1>1, <3>1, <3>2 DEF Grant
  <2> QED BY <2>1, <2>2
<1> QED BY <1>4, <1>5

LEMMA TimedOutGrants ==
    ASSUME Types, WaitInv, StatesAreFresh, NEW x \in Actor, TimedOut(x), NEW f \in Login, Grant(f)
    PROVE  Grant(f)'
<1>1. UNCHANGED <<pc, entry, fence, provider, pendingTransport, client, asked, using>>
  BY DEF TimedOut, store, manager
<1>2. f \in Actor /\ Settle(Key(x), [y \in {x} |-> "lost"]) /\ callback[x] = "waiting"
  BY DEF Actor, TimedOut
<1>3. CASE x = f
  <2>1. callback'[f] = "lost"
    BY <1>2, <1>3 DEF Settle
  <2>2. pc[f] \notin {"matching", "matched", "exchanging"}
    BY <1>2, <1>3, AuthAssumption DEF Grant
  <2> QED BY <1>1, <2>1, <2>2 DEF Grant
<1>4. CASE x # f
  <2>1. callback'[f] = callback[f]
    BY <1>2, <1>4 DEF Settle
  <2>2. Key(x) # f
    BY <1>4 DEF Grant, Key
  <2>3. pendingByState'[f] = pendingByState[f]
    BY <1>2, <2>2 DEF Settle, Types, ListenerType
  <2> QED BY <1>1, <2>1, <2>3 DEF Grant
<1> QED BY <1>3, <1>4

LEMMA GrantNext == Types /\ WaitInv /\ StatesAreFresh /\ GrantsHold /\ [Next]_vars => StatesAreFresh' /\ GrantsHold'
<1> SUFFICES ASSUME Types, WaitInv, StatesAreFresh, GrantsHold, [Next]_vars
             PROVE  StatesAreFresh' /\ GrantsHold'
  OBVIOUS
<1>1. ASSUME NEW x \in Actor, Request(x) \/ Proceed(x) PROVE Fresh
  <2>1. ASSUME Authenticate(x), x \in Login PROVE Fresh
    BY <2>1, AuthenticateFresh
  <2>2. ASSUME Connect(x), x \in Attempt PROVE Fresh
    BY <2>2, ConnectFresh
  <2>3. ASSUME Started(x) PROVE Fresh
    BY <2>3, StartedFresh
  <2>4. ASSUME Accepted(x) PROVE Fresh
    BY <2>4, AcceptedFresh
  <2>5. ASSUME ConnectFails(x) PROVE Fresh
    BY <2>5, ConnectFailsFresh
  <2>6. ASSUME Challenged(x) PROVE Fresh
    BY <2>6, ChallengedFresh
  <2>7. ASSUME CreateState(x) PROVE Fresh
    BY <2>7, CreateStateFresh
  <2>8. ASSUME SaveCodeVerifier(x) PROVE Fresh
    BY <2>8, SaveCodeVerifierFresh
  <2>9. ASSUME Redirect(x) PROVE Fresh
    BY <2>9, RedirectFresh
  <2>10. ASSUME Open(x) PROVE Fresh
    BY <2>10, OpenFresh
  <2>11. ASSUME Resumed(x) PROVE Fresh
    BY <2>11, ResumedFresh
  <2>12. ASSUME Exchange(x) PROVE Fresh
    BY <2>12, ExchangeFresh
  <2>13. ASSUME SaveTokens(x) PROVE Fresh
    BY <2>13, SaveTokensFresh
  <2>14. ASSUME UpdateState(x), x \in Login PROVE Fresh
    BY <2>14, UpdateStateFresh
  <2>15. ASSUME Match(x), x \in Login PROVE Fresh
    BY <2>15, MatchFresh
  <2>16. ASSUME ClearOAuthState(x), x \in Login PROVE Fresh
    BY <2>16, ClearOAuthStateFresh
  <2>17. ASSUME ClearCodeVerifier(x), x \in Login PROVE Fresh
    BY <2>17, ClearCodeVerifierFresh
  <2>18. ASSUME Reconnect(x), x \in Login PROVE Fresh
    BY <2>18, ReconnectFresh
  <2>19. ASSUME Reconnected(x), x \in Login PROVE Fresh
    BY <2>19, ReconnectedFresh
  <2>20. ASSUME Clean(x), x \in Login PROVE Fresh
    BY <2>20, CleanFresh
  <2>21. ASSUME Joined(x), x \in Login PROVE Fresh
    BY <2>21, JoinedFresh
  <2>22. ASSUME ListAfterLogin(x), x \in Login PROVE Fresh
    BY <2>22, ListAfterLoginFresh
  <2>23. ASSUME StoreClient(x), x \in Login PROVE Fresh
    BY <2>23, StoreClientFresh
  <2>24. ASSUME Replaced(x), x \in Attempt PROVE Fresh
    BY <2>24, ReplacedFresh
  <2>25. ASSUME AttemptTimesOut(x), x \in Attempt PROVE Fresh
    BY <2>25, AttemptTimesOutFresh
  <2>26. ASSUME NeedsAuth(x), x \in Attempt PROVE Fresh
    BY <2>26, NeedsAuthFresh
  <2>27. ASSUME List(x), x \in Attempt PROVE Fresh
    BY <2>27, ListFresh
  <2> QED
    BY <1>1, <2>1, <2>2, <2>3, <2>4, <2>5, <2>6, <2>7, <2>8, <2>9, <2>10, <2>11, <2>12, <2>13, <2>14, <2>15, <2>16, <2>17, <2>18, <2>19, <2>20, <2>21, <2>22, <2>23, <2>24, <2>25, <2>26, <2>27 DEF Request, Proceed
<1>2. Fresh
  BY <1>1, AnswerFresh, TimedOutFresh, OtherFresh DEF Next
<1>3. StatesAreFresh'
  BY <1>2, FreshKeeps
<1>4. ASSUME NEW x \in Actor, Request(x) \/ Proceed(x), Disturb({x}) PROVE GrantsHold'
  <2> SUFFICES ASSUME NEW f \in (Underway \ disturbed)' PROVE Grant(f)'
    BY DEF GrantsHold
  <2>1. f \in Login /\ f \notin disturbed /\ f \notin Underway \ {x} /\ pc'[f] \notin {"idle", "ended"}
    BY <1>4 DEF Disturb, Underway
  <2>2. f = x
    BY <1>4, <2>1, OthersStay DEF Underway
  <2>3. pc[f] \in {"idle", "ended"} \/ Grant(f)
    BY <2>1 DEF GrantsHold, Underway
  <2>4. pc[f] # "ended"
    <3>1. CASE Request(f)
      BY <3>1 DEF Request, Authenticate, Connect
    <3>2. CASE Proceed(f)
      BY <2>1, <3>2, AuthAssumption
         DEF Proceed, Started, Accepted, ConnectFails, CreateState, SaveCodeVerifier, Redirect, Open, Resumed,
             Exchange, SaveTokens, UpdateState, Match, ClearOAuthState, ClearCodeVerifier, Reconnect,
             Reconnected, Clean, Joined, ListAfterLogin, StoreClient
    <3> QED BY <1>4, <2>2, <3>1, <3>2
  <2> QED BY <1>4, <2>1, <2>2, <2>3, <2>4, OwnGrants
<1>5. ASSUME NEW x \in Actor, Answer(x) \/ TimedOut(x), Disturb(Login) PROVE GrantsHold'
  <2> SUFFICES ASSUME NEW f \in (Underway \ disturbed)' PROVE Grant(f)'
    BY DEF GrantsHold
  <2>1. UNCHANGED pc
    BY <1>5 DEF Answer, TimedOut
  <2>2. f \in Login /\ f \in Underway /\ f \notin disturbed
    BY <1>5, <2>1 DEF Disturb, Underway
  <2> QED BY <1>5, <2>2, AnswerGrants, TimedOutGrants DEF GrantsHold
<1>6. ASSUME Disconnected \/ End, Disturb({}) PROVE GrantsHold'
  <2> SUFFICES ASSUME NEW f \in (Underway \ disturbed)' PROVE Grant(f)'
    BY DEF GrantsHold
  <2>1. f \in Login /\ f \notin Underway /\ pc'[f] \notin {"idle", "ended"}
    BY <1>6 DEF Disturb, Underway
  <2>2. pc'[f] \in {pc[f], "ended"}
    BY <1>6, <2>1 DEF Disconnected, End, RemoveAuth, EntryRemoved, Shutdown, CallbacksClosed, ClientsClosed,
                      AttemptsClosed, Actor
  <2> QED BY <2>1, <2>2 DEF Underway
<1>7. ASSUME UNCHANGED vars PROVE GrantsHold'
  <2>1. UNCHANGED <<pc, entry, fence, pendingTransport, client, asked, using, callback, pendingByState, disturbed>>
    BY <1>7 DEF vars, store, manager, listener
  <2> SUFFICES ASSUME NEW f \in (Underway \ disturbed)' PROVE Grant(f)'
    BY DEF GrantsHold
  <2>2. f \in Underway /\ f \notin disturbed
    BY <2>1 DEF Underway
  <2>3. Grant(f)
    BY <2>2 DEF GrantsHold
  <2> QED BY <2>1, <2>3 DEF Grant
<1>8. GrantsHold'
  BY <1>4, <1>5, <1>6, <1>7 DEF Next
<1> QED BY <1>3, <1>8

LEMMA GrantInv == Spec => [](Types /\ WaitInv /\ StatesAreFresh /\ GrantsHold)
  BY TypesInit, TypesNext, GrantInit, GrantNext, PTL DEF Spec

\* A login during which nobody else acts has its own code exchanged through its own
\* transport with its own verifier, and its tokens saved, whatever was left behind.
THEOREM GrantsAreKept == Spec => []UndisturbedLoginsKeepTheirGrant
  BY GrantInv, GrantsSuffice, PTL

-----------------------------------------------------------------------------
(* Stores: only a login whose client was taken out stores another. *)

LEMMA ClientsStored ==
    ASSUME Types, GrantsHold, [Next]_vars
    PROVE  \A f \in Login \ disturbed : client' = f => client \in {f, None}
<1> SUFFICES ASSUME NEW f \in Login, f \notin disturbed, client' = f PROVE client \in {f, None}
  OBVIOUS
<1> USE AuthAssumption DEF Actor
<1>0. f # None /\ f \notin Attempt
  OBVIOUS
<1>1. ASSUME NEW x \in Actor, Request(x) \/ Proceed(x) PROVE client \in {f, None}
  <2>1. ASSUME Authenticate(x), x \in Login PROVE client \in {f, None}
    BY <1>0, <2>1 DEF Authenticate, BeginAttempt, manager
  <2>2. ASSUME Connect(x), x \in Attempt PROVE client \in {f, None}
    BY <1>0, <2>2 DEF Connect, BeginAttempt, manager
  <2>3. ASSUME Started(x) PROVE client \in {f, None}
    BY <1>0, <2>3 DEF Started, BeginAttempt, manager
  <2>4. ASSUME Accepted(x) PROVE client \in {f, None}
    BY <1>0, <2>4 DEF Accepted, BeginAttempt, manager
  <2>5. ASSUME ConnectFails(x) PROVE client \in {f, None}
    BY <1>0, <2>5 DEF ConnectFails, BeginAttempt, manager
  <2>6. ASSUME Challenged(x) PROVE client \in {f, None}
    BY <1>0, <2>6 DEF Challenged, BeginAttempt, manager
  <2>7. ASSUME CreateState(x) PROVE client \in {f, None}
    BY <1>0, <2>7 DEF CreateState, BeginAttempt, manager
  <2>8. ASSUME SaveCodeVerifier(x) PROVE client \in {f, None}
    BY <1>0, <2>8 DEF SaveCodeVerifier, BeginAttempt, manager
  <2>9. ASSUME Redirect(x) PROVE client \in {f, None}
    BY <1>0, <2>9 DEF Redirect, BeginAttempt, manager
  <2>10. ASSUME Open(x) PROVE client \in {f, None}
    BY <1>0, <2>10 DEF Open, BeginAttempt, manager
  <2>11. ASSUME Resumed(x) PROVE client \in {f, None}
    BY <1>0, <2>11 DEF Resumed, BeginAttempt, manager
  <2>12. ASSUME Exchange(x) PROVE client \in {f, None}
    BY <1>0, <2>12 DEF Exchange, BeginAttempt, manager
  <2>13. ASSUME SaveTokens(x) PROVE client \in {f, None}
    BY <1>0, <2>13 DEF SaveTokens, BeginAttempt, manager
  <2>14. ASSUME UpdateState(x), x \in Login PROVE client \in {f, None}
    BY <1>0, <2>14 DEF UpdateState, BeginAttempt, manager
  <2>15. ASSUME Match(x), x \in Login PROVE client \in {f, None}
    BY <1>0, <2>15 DEF Match, BeginAttempt, manager
  <2>16. ASSUME ClearOAuthState(x), x \in Login PROVE client \in {f, None}
    BY <1>0, <2>16 DEF ClearOAuthState, BeginAttempt, manager
  <2>17. ASSUME ClearCodeVerifier(x), x \in Login PROVE client \in {f, None}
    BY <1>0, <2>17 DEF ClearCodeVerifier, BeginAttempt, manager
  <2>18. ASSUME Reconnect(x), x \in Login PROVE client \in {f, None}
    BY <1>0, <2>18 DEF Reconnect, BeginAttempt, manager
  <2>19. ASSUME Reconnected(x), x \in Login PROVE client \in {f, None}
    BY <1>0, <2>19 DEF Reconnected, BeginAttempt, manager
  <2>20. ASSUME Clean(x), x \in Login PROVE client \in {f, None}
    BY <1>0, <2>20 DEF Clean, BeginAttempt, manager
  <2>21. ASSUME Joined(x), x \in Login PROVE client \in {f, None}
    BY <1>0, <2>21 DEF Joined, BeginAttempt, manager
  <2>22. ASSUME ListAfterLogin(x), x \in Login PROVE client \in {f, None}
    BY <1>0, <2>22 DEF ListAfterLogin, BeginAttempt, manager
  <2>23. ASSUME StoreClient(x), x \in Login PROVE client \in {f, None}
    <3>1. pc[x] = "swapping" /\ (client' = x \/ client' = client)
      BY <2>23 DEF StoreClient
    <3>2. x = f => client = None
      BY <3>1 DEF GrantsHold, Underway, Grant
    <3> QED BY <3>1, <3>2
  <2>24. ASSUME Replaced(x), x \in Attempt PROVE client \in {f, None}
    BY <1>0, <2>24 DEF Replaced, BeginAttempt, manager
  <2>25. ASSUME AttemptTimesOut(x), x \in Attempt PROVE client \in {f, None}
    BY <1>0, <2>25 DEF AttemptTimesOut, BeginAttempt, manager
  <2>26. ASSUME NeedsAuth(x), x \in Attempt PROVE client \in {f, None}
    BY <1>0, <2>26 DEF NeedsAuth, BeginAttempt, manager
  <2>27. ASSUME List(x), x \in Attempt PROVE client \in {f, None}
    BY <1>0, <2>27 DEF List, BeginAttempt, manager
  <2> QED
    BY <1>1, <2>1, <2>2, <2>3, <2>4, <2>5, <2>6, <2>7, <2>8, <2>9, <2>10, <2>11, <2>12, <2>13, <2>14, <2>15, <2>16, <2>17, <2>18, <2>19, <2>20, <2>21, <2>22, <2>23, <2>24, <2>25, <2>26, <2>27 DEF Request, Proceed
<1>2. ASSUME NEW x \in Actor, Answer(x) \/ TimedOut(x) PROVE client \in {f, None}
  BY <1>0, <1>2 DEF Answer, TimedOut, manager
<1>3. ASSUME Disconnected \/ End \/ UNCHANGED vars PROVE client \in {f, None}
  BY <1>0, <1>3 DEF Disconnected, End, RemoveAuth, EntryRemoved, Shutdown, CallbacksClosed, ClientsClosed,
                    AttemptsClosed, vars, manager
<1> QED BY <1>1, <1>2, <1>3 DEF Next

\* A login during which nobody else acts stores its client over no other.
THEOREM LoginsStoreFreely == Spec => LoginsStoreOverNothing
<1>1. Types /\ GrantsHold /\ [Next]_vars
        => [\A f \in Login \ disturbed : client' = f => client \in {f, None}]_vars
  BY ClientsStored
<1> QED
  BY <1>1, GrantInv, PTL DEF Spec, LoginsStoreOverNothing
=============================================================================
