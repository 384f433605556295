--------------------------- MODULE ToolRegistryProofs ---------------------------
(***************************************************************************)
(* Theorems about ToolRegistry, for all loads, configurations and tools.   *)
(***************************************************************************)
EXTENDS ToolRegistry, TLAPS

\* What registerDynamicTools does to the names, whatever the manager's tools are.
LEMMA Registration ==
    ASSUME RegistryInv, NEW ts \in SUBSET McpTool, Register(ts)
    PROVE  /\ registeredToolNames' \subseteq Name /\ active' \subseteq Name
           /\ news' \in {"none", "due", "lapsed"}
           /\ phase = "running" =>
                 /\ registeredToolNames' \subseteq active'
                 /\ active' \subseteq registeredToolNames'
                                       \cup UNION {load[l].previous : l \in Load}
           /\ manager = 0 => UNCHANGED <<registeredToolNames, active, news>>
           /\ manager # 0 => registeredToolNames' = Exposed(ts)
           /\ phase = "running" /\ manager # 0 /\ (\A l \in Load : ~At(l, "initializing"))
                 => active' = Exposed(ts)
<1>1. CASE manager = 0
    BY <1>1 DEF Register, RegistryInv, TypeOK, ActiveIsAccounted, LoadsKeepNames
<1>2. CASE manager # 0
    <2>1. /\ registeredToolNames' = Exposed(ts)
          /\ active' = (active \ (registeredToolNames \ Exposed(ts))) \cup Exposed(ts)
          /\ news' = "none"
        BY <1>2 DEF Register, Activated
    <2>2. Exposed(ts) \subseteq Name
        BY DEF Exposed, Name
    <2>3. phase = "running" =>
              active \subseteq registeredToolNames \cup UNION {load[l].previous : l \in Load}
        BY DEF RegistryInv, ActiveIsAccounted
    <2>4. (\A l \in Load : ~At(l, "initializing"))
              => UNION {load[l].previous : l \in Load} = {}
        BY DEF RegistryInv, LoadsKeepNames
    <2>5. active \subseteq Name
        BY DEF RegistryInv, TypeOK
    <2> QED
        BY <1>2, <2>1, <2>2, <2>3, <2>4, <2>5
<1> QED
    BY <1>1, <1>2

\* Steps that register the tools ts, which the manager then has, keep the invariant.
LEMMA RegisterKeepsInv ==
    ASSUME RegistryInv, NEW ts \in SUBSET McpTool, Register(ts),
           tools' = ts, manager = 0 => ts = tools,
           UNCHANGED <<phase, manager, made, config, configGeneration, load>>,
           refresh' \in {refresh, NoRefresh}
    PROVE  RegistryInv'
<1>1. TypeOK'
    BY Registration DEF RegistryInv, TypeOK
<1>2. ActiveIsAccounted'
    BY Registration DEF ActiveIsAccounted
<1>3. RegistryMatches'
    BY Registration DEF RegistryMatches, Matches, Exposed, At
<1>4. LoadsKeepNames'
    BY Registration DEF RegistryInv, LoadsKeepNames, At
<1> QED
    BY <1>1, <1>2, <1>3, <1>4 DEF RegistryInv

\* The manager's steps, and the commands that register what it has.
LEMMA ManagerKeepsInv ==
    ASSUME RegistryInv, ToolsChange \/ ToolsGo \/ Tell \/ Lapse \/ Refresh \/ Refreshed
    PROVE  RegistryInv'
<1>1. CASE ToolsChange
    <2>1. PICK ts \in SUBSET McpTool : tools' = ts /\ Register(ts)
        BY <1>1 DEF ToolsChange
    <2> QED
        BY <1>1, <2>1, RegisterKeepsInv DEF ToolsChange, index
<1>2. CASE ToolsGo
    <2>1. /\ UNCHANGED <<phase, manager, made, config, configGeneration, refresh, load,
                          registeredToolNames, active>>
          /\ tools' \subseteq tools /\ news' = "due" /\ manager # 0
        BY <1>2 DEF ToolsGo, index
    <2>2. TypeOK'
        BY <2>1 DEF RegistryInv, TypeOK
    <2>3. ActiveIsAccounted' /\ RegistryMatches'
        BY <2>1 DEF RegistryInv, ActiveIsAccounted, RegistryMatches
    <2>4. LoadsKeepNames'
        BY <2>1 DEF RegistryInv, LoadsKeepNames, At
    <2> QED
        BY <2>2, <2>3, <2>4 DEF RegistryInv
<1>3. CASE Tell \/ Refresh
    BY <1>3, RegisterKeepsInv DEF Tell, Refresh, index, RegistryInv, TypeOK
<1>4. CASE Lapse
    <2>1. /\ UNCHANGED <<phase, manager, made, config, configGeneration, refresh, load,
                          registeredToolNames, active, tools>>
          /\ news' = "lapsed"
        BY <1>4 DEF Lapse, index
    <2>2. TypeOK'
        BY <2>1 DEF RegistryInv, TypeOK
    <2>3. ActiveIsAccounted' /\ RegistryMatches'
        BY <2>1 DEF RegistryInv, ActiveIsAccounted, RegistryMatches
    <2>4. LoadsKeepNames'
        BY <2>1 DEF RegistryInv, LoadsKeepNames, At
    <2> QED
        BY <2>2, <2>3, <2>4 DEF RegistryInv
<1>5. CASE Refreshed
    <2>1. /\ UNCHANGED <<phase, manager, made, config, configGeneration, load, tools>>
          /\ refresh' = NoRefresh
        BY <1>5 DEF Refreshed
    <2>2. CASE Register(tools)
        BY <2>1, <2>2, RegisterKeepsInv DEF RegistryInv, TypeOK
    <2>3. CASE UNCHANGED <<registeredToolNames, active, news>>
        <3>1. TypeOK'
            BY <2>1, <2>3 DEF RegistryInv, TypeOK
        <3>2. ActiveIsAccounted' /\ RegistryMatches' /\ LoadsKeepNames'
            BY <2>1, <2>3 DEF RegistryInv, ActiveIsAccounted, RegistryMatches, Matches,
               Exposed, LoadsKeepNames, At
        <3> QED
            BY <3>1, <3>2 DEF RegistryInv
    <2> QED
        BY <1>5, <2>2, <2>3 DEF Refreshed
<1> QED
    BY <1>1, <1>2, <1>3, <1>4, <1>5

\* A manager that is made has a number and no tools.
LEMMA ManagerMade ==
    ASSUME RegistryInv, EnsureManager
    PROVE  /\ manager' \in Nat \ {0} /\ made' \in Nat
           /\ tools' \subseteq McpTool
           /\ news' \in {"none", "due", "lapsed"}
<1>1. manager \in Nat /\ made \in Nat /\ tools \subseteq McpTool
      /\ news \in {"none", "due", "lapsed"}
    BY DEF RegistryInv, TypeOK
<1> QED
    BY <1>1 DEF EnsureManager

LEMMA OpenCommandKeepsInv == ASSUME RegistryInv, OpenCommand PROVE RegistryInv'
<1>1. /\ UNCHANGED <<phase, config, configGeneration, registeredToolNames, active, refresh, load>>
      /\ phase = "running" /\ manager = 0 /\ EnsureManager
    BY DEF OpenCommand
<1>2. TypeOK'
    BY <1>1, ManagerMade DEF RegistryInv, TypeOK
<1>3. ActiveIsAccounted'
    BY <1>1 DEF RegistryInv, ActiveIsAccounted
<1>4. RegistryMatches'
    BY <1>1 DEF RegistryInv, LoadsKeepNames, EnsureManager, RegistryMatches, Matches, Exposed
<1>5. LoadsKeepNames'
    BY <1>1, ManagerMade DEF RegistryInv, LoadsKeepNames, At
<1> QED
    BY <1>2, <1>3, <1>4, <1>5 DEF RegistryInv

-----------------------------------------------------------------------------
(***************************************************************************)
(* Loads.                                                                  *)
(***************************************************************************)

LoadType == [pc : Step, manager : Nat, generation : Nat, previous : SUBSET Name]

\* The record of a load has its parts.
LEMMA LoadRecord ==
    ASSUME NEW step \in Step, NEW m \in Nat, NEW g \in Nat, NEW names \in SUBSET Name
    PROVE  /\ LoadAt(step, m, g, names) \in LoadType
           /\ LoadAt(step, m, g, names).pc = step
           /\ LoadAt(step, m, g, names).manager = m
           /\ LoadAt(step, m, g, names).generation = g
           /\ LoadAt(step, m, g, names).previous = names
BY DEF LoadAt, LoadType

\* The state, but for the configuration and the manager, after a load's record changed.
LEMMA LoadChanged ==
    ASSUME RegistryInv, NEW l \in Load,
           NEW step \in Step, NEW m \in Nat, NEW g \in Nat, NEW names \in SUBSET Name,
           load' = [load EXCEPT ![l] = LoadAt(step, m, g, names)]
    PROVE  /\ load' \in [Load -> LoadType]
           /\ load'[l].pc = step /\ load'[l].manager = m
           /\ load'[l].generation = g /\ load'[l].previous = names
           /\ \A k \in Load \ {l} : load'[k] = load[k]
<1>1. load \in [Load -> LoadType]
    BY DEF RegistryInv, TypeOK, LoadType
<1>2. load'[l] = LoadAt(step, m, g, names) /\ \A k \in Load \ {l} : load'[k] = load[k]
    BY <1>1
<1>3. load' \in [Load -> LoadType]
    BY <1>1, <1>2, LoadRecord
<1> QED
    BY <1>2, <1>3, LoadRecord

\* What is said of every load's record.
KeepsNames(k) ==
    /\ load[k].pc # "initializing" => load[k].previous = {}
    /\ load[k].pc = "initializing" => load[k].manager # 0
    /\ load[k].pc \in {"reading", "initializing"} => load[k].generation # 0

\* Where a load's record is replaced by another without names, and nothing else that
\* is registered changes.
LEMMA QuietLoadKeepsInv ==
    ASSUME RegistryInv, NEW l \in Load, load[l].pc # "initializing",
           NEW step \in Step \ {"initializing"}, NEW g \in Nat, step = "reading" => g # 0,
           load' = [load EXCEPT ![l] = LoadAt(step, 0, g, {})],
           UNCHANGED <<phase, manager, made, config, registeredToolNames, active, refresh,
                       tools, news>>,
           configGeneration' \in Nat
    PROVE  RegistryInv'
<1>1. /\ load' \in [Load -> LoadType]
      /\ load'[l].pc = step /\ load'[l].generation = g /\ load'[l].previous = {}
      /\ \A k \in Load \ {l} : load'[k] = load[k]
    <2>1. {} \in SUBSET Name
        OBVIOUS
    <2> QED
        BY <2>1, LoadChanged
<1>2. \A k \in Load : KeepsNames(k)
    BY DEF RegistryInv, LoadsKeepNames, KeepsNames, At
<1>3. TypeOK'
    BY <1>1 DEF RegistryInv, TypeOK, LoadType
<1>4. \A k \in Load : load'[k].previous = load[k].previous
    BY <1>1, <1>2 DEF KeepsNames
<1>5. \A k \in Load : load'[k].pc = "initializing" <=> load[k].pc = "initializing"
    BY <1>1
<1>6. ActiveIsAccounted'
    BY <1>4 DEF RegistryInv, ActiveIsAccounted
<1>7. RegistryMatches'
    BY <1>5 DEF RegistryInv, RegistryMatches, Matches, Exposed, At
<1>8. \A k \in Load : KeepsNames(k)'
    BY <1>1, <1>2 DEF KeepsNames
<1>9. LoadsKeepNames'
    BY <1>5, <1>8 DEF RegistryInv, LoadsKeepNames, KeepsNames, At
<1> QED
    BY <1>3, <1>6, <1>7, <1>9 DEF RegistryInv

LEMMA BeginKeepsInv ==
    ASSUME RegistryInv, NEW l \in Load, Begin(l) PROVE RegistryInv'
<1>1. configGeneration \in Nat
    BY DEF RegistryInv, TypeOK
<1>2. configGeneration + 1 \in Nat /\ configGeneration + 1 # 0
    BY <1>1
<1>3. load[l].pc # "initializing" /\ "reading" \in Step \ {"initializing"}
    BY DEF Begin, At, Step
<1> QED
    BY <1>2, <1>3, QuietLoadKeepsInv DEF Begin

LEMMA ReadFailsKeepsInv ==
    ASSUME RegistryInv, NEW l \in Load, ReadFails(l) PROVE RegistryInv'
<1>1. load[l].pc # "initializing" /\ "done" \in Step \ {"initializing"}
    BY DEF ReadFails, At, Step
<1>2. configGeneration' \in Nat /\ 0 \in Nat
    BY DEF ReadFails, RegistryInv, TypeOK
<1> QED
    BY <1>1, <1>2, QuietLoadKeepsInv DEF ReadFails

LEMMA ReloadFailsKeepsInv ==
    ASSUME RegistryInv, NEW l \in Load, ReloadFails(l) PROVE RegistryInv'
<1>1. load[l].pc # "initializing" /\ "done" \in Step \ {"initializing"}
    BY DEF ReloadFails, At, Step
<1>2. configGeneration' \in Nat /\ 0 \in Nat
    BY DEF ReloadFails, RegistryInv, TypeOK
<1> QED
    BY <1>1, <1>2, QuietLoadKeepsInv DEF ReloadFails

\* The names registered so far go to the load that is going to deactivate them.
LEMMA ConfigureKeepsInv ==
    ASSUME RegistryInv, NEW l \in Load, Configure(l) PROVE RegistryInv'
<1>1. /\ load[l].pc = "reading"
      /\ config' \in Config
      /\ EnsureManager
      /\ registeredToolNames' = {}
      /\ load' = [load EXCEPT ![l] = LoadAt("initializing", manager', load[l].generation,
                                            registeredToolNames)]
      /\ UNCHANGED <<phase, configGeneration, active, refresh>>
    BY DEF Configure, At
<1>2. /\ manager' \in Nat \ {0} /\ made' \in Nat
      /\ tools' \subseteq McpTool /\ news' \in {"none", "due", "lapsed"}
    BY <1>1, ManagerMade
<1>3. \A k \in Load : KeepsNames(k)
    BY DEF RegistryInv, LoadsKeepNames, KeepsNames, At
<1>4. load[l].generation \in Nat /\ load[l].generation # 0
    BY <1>1, <1>3 DEF RegistryInv, TypeOK, KeepsNames
<1>5. registeredToolNames \in SUBSET Name
    BY DEF RegistryInv, TypeOK
<1>6. /\ load' \in [Load -> LoadType]
      /\ load'[l].pc = "initializing" /\ load'[l].manager = manager'
      /\ load'[l].generation = load[l].generation
      /\ load'[l].previous = registeredToolNames
      /\ \A k \in Load \ {l} : load'[k] = load[k]
    <2>1. PICK m \in Nat : m = manager'
        BY <1>2
    <2>2. PICK g \in Nat : g = load[l].generation
        BY <1>4
    <2>3. "initializing" \in Step
        BY DEF Step
    <2>4. load' = [load EXCEPT ![l] = LoadAt("initializing", m, g, registeredToolNames)]
        BY <1>1, <2>1, <2>2
    <2>5. /\ load' \in [Load -> LoadType]
          /\ load'[l].pc = "initializing" /\ load'[l].manager = m
          /\ load'[l].generation = g
          /\ load'[l].previous = registeredToolNames
          /\ \A k \in Load \ {l} : load'[k] = load[k]
        BY <1>5, <2>3, <2>4, LoadChanged
    <2> QED
        BY <2>1, <2>2, <2>5
<1>7. TypeOK'
    BY <1>1, <1>2, <1>6 DEF RegistryInv, TypeOK, LoadType
<1>8. ActiveIsAccounted'
    <2>1. ASSUME phase = "running", NEW t \in active, t \notin registeredToolNames
          PROVE  \E k \in Load : t \in load'[k].previous
        <3>1. PICK k \in Load : t \in load[k].previous
            BY <2>1 DEF RegistryInv, ActiveIsAccounted
        <3>2. k # l
            BY <1>1, <1>3, <3>1 DEF KeepsNames
        <3> QED
            BY <1>6, <3>1, <3>2
    <2>2. \A t \in registeredToolNames : \E k \in Load : t \in load'[k].previous
        BY <1>6
    <2> QED
        BY <1>1, <2>1, <2>2 DEF ActiveIsAccounted
<1>9. RegistryMatches'
    BY <1>6 DEF RegistryMatches, At
<1>10. \A k \in Load : KeepsNames(k)'
    BY <1>2, <1>3, <1>4, <1>6 DEF KeepsNames
<1>11. LoadsKeepNames'
    BY <1>1, <1>2, <1>10 DEF LoadsKeepNames, KeepsNames, At
<1> QED
    BY <1>7, <1>8, <1>9, <1>11 DEF RegistryInv

LEMMA ClientsClosedKeepsInv ==
    ASSUME RegistryInv, NEW l \in Load, ClientsClosed(l) PROVE RegistryInv'
<1>1. /\ UNCHANGED <<phase, manager, made, config, configGeneration, refresh, load,
                      registeredToolNames, active, news>>
      /\ load[l].pc = "initializing" /\ tools' = {}
    BY DEF ClientsClosed, At, index
<1>2. TypeOK'
    BY <1>1 DEF RegistryInv, TypeOK
<1>3. ActiveIsAccounted' /\ RegistryMatches' /\ LoadsKeepNames'
    BY <1>1 DEF RegistryInv, ActiveIsAccounted, RegistryMatches, LoadsKeepNames, At
<1> QED
    BY <1>2, <1>3 DEF RegistryInv

\* The load that is over deactivates what it was left, and registers what there is.
LEMMA InitializedKeepsInv ==
    ASSUME RegistryInv, NEW l \in Load, Initialized(l) PROVE RegistryInv'
<1> DEFINE names   == IF manager = 0 THEN registeredToolNames ELSE Exposed(tools)
           present == IF manager = 0 THEN active ELSE Activated(names)
           next    == IF l = Start THEN "done" ELSE "connecting"
<1>1. /\ load[l].pc = "initializing"
      /\ registeredToolNames' = names
      /\ active' = present \ (load[l].previous \ names)
      /\ news' = IF manager = 0 THEN news ELSE "none"
      /\ refresh' \in {refresh, [manager |-> load[l].manager, generation |-> load[l].generation]}
      /\ load' = [load EXCEPT ![l] = LoadAt(next, 0, 0, {})]
      /\ UNCHANGED <<phase, manager, made, config, configGeneration, tools>>
    BY DEF Initialized, At, Fork
<1>2. \A k \in Load : KeepsNames(k)
    BY DEF RegistryInv, LoadsKeepNames, KeepsNames, At
<1>3. /\ load' \in [Load -> LoadType]
      /\ load'[l].pc = next /\ load'[l].previous = {} /\ load'[l].generation = 0
      /\ \A k \in Load \ {l} : load'[k] = load[k]
    <2>1. next \in Step /\ 0 \in Nat /\ {} \in SUBSET Name
        BY DEF Step
    <2>2. load' = [load EXCEPT ![l] = LoadAt(next, 0, 0, {})]
        BY <1>1
    <2> HIDE DEF next
    <2> QED
        BY <2>1, <2>2, LoadChanged
<1>4. next \notin {"reading", "initializing"}
    OBVIOUS
<1>5. names \subseteq Name /\ present \subseteq Name
    BY DEF RegistryInv, TypeOK, Exposed, Activated, Name
<1>6. refresh' \in {NoRefresh} \cup [manager : Nat \ {0}, generation : Nat \ {0}]
    <2>1. load[l].manager \in Nat \ {0} /\ load[l].generation \in Nat \ {0}
        BY <1>1, <1>2 DEF RegistryInv, TypeOK, KeepsNames
    <2> QED
        BY <1>1, <2>1 DEF RegistryInv, TypeOK
<1>7. TypeOK'
    BY <1>1, <1>3, <1>5, <1>6 DEF RegistryInv, TypeOK, LoadType
<1>8. phase = "running" => manager # 0
    BY <1>1 DEF RegistryInv, LoadsKeepNames, At
<1>9. manager # 0 => names = Exposed(tools)
                     /\ present = (active \ (registeredToolNames \ names)) \cup names
    BY DEF Activated
<1> HIDE DEF names, present, next
<1>10. ActiveIsAccounted'
    <2>1. ASSUME phase = "running", NEW t \in active', t \notin names
          PROVE  \E k \in Load : t \in load'[k].previous
        <3>1. t \in active /\ t \notin registeredToolNames /\ t \notin load[l].previous
            BY <1>1, <1>8, <1>9, <2>1
        <3>2. PICK k \in Load : t \in load[k].previous
            BY <2>1, <3>1 DEF RegistryInv, ActiveIsAccounted
        <3> QED
            BY <1>3, <3>1, <3>2
    <2> QED
        BY <1>1, <2>1 DEF ActiveIsAccounted
<1>11. RegistryMatches'
    <2> SUFFICES ASSUME phase = "running", manager # 0,
                        \A k \in Load : load'[k].pc # "initializing"
                 PROVE  Matches'
        BY <1>1 DEF RegistryMatches, At
    <2>1. \A k \in Load : load'[k].previous = {}
        BY <1>2, <1>3 DEF KeepsNames
    <2>2. active' \subseteq names
        BY <1>1, <1>10, <2>1 DEF ActiveIsAccounted
    <2>3. names \subseteq active'
        BY <1>1, <1>9
    <2> QED
        BY <1>1, <1>9, <2>2, <2>3 DEF Matches, Exposed
<1>12. \A k \in Load : KeepsNames(k)'
    BY <1>2, <1>3, <1>4 DEF KeepsNames
<1>13. phase' = "running" => registeredToolNames' \subseteq active'
    BY <1>1, <1>8, <1>9
<1>14. LoadsKeepNames'
    BY <1>1, <1>8, <1>12, <1>13 DEF LoadsKeepNames, KeepsNames, At
<1> QED
    BY <1>7, <1>10, <1>11, <1>14 DEF RegistryInv

\* A reload ends with a registration of its own.
LEMMA ReloadedKeepsInv ==
    ASSUME RegistryInv, NEW l \in Load, Reloaded(l) PROVE RegistryInv'
<1>1. /\ load[l].pc = "connecting"
      /\ load' = [load EXCEPT ![l] = LoadAt("done", 0, 0, {})]
      /\ Register(tools)
      /\ UNCHANGED <<phase, manager, made, config, configGeneration, refresh, tools>>
    BY DEF Reloaded, At
<1>2. \A k \in Load : KeepsNames(k)
    BY DEF RegistryInv, LoadsKeepNames, KeepsNames, At
<1>3. /\ load' \in [Load -> LoadType]
      /\ load'[l].pc = "done" /\ load'[l].previous = {}
      /\ \A k \in Load \ {l} : load'[k] = load[k]
    <2>1. "done" \in Step /\ 0 \in Nat /\ {} \in SUBSET Name
        BY DEF Step
    <2> QED
        BY <1>1, <2>1, LoadChanged
<1>4. \A k \in Load : load'[k].previous = load[k].previous
    BY <1>1, <1>2, <1>3 DEF KeepsNames
<1>5. \A k \in Load : load'[k].pc = "initializing" <=> load[k].pc = "initializing"
    BY <1>1, <1>3
<1>6. tools \in SUBSET McpTool
    BY DEF RegistryInv, TypeOK
<1>7. TypeOK'
    BY <1>1, <1>3, <1>6, Registration DEF RegistryInv, TypeOK, LoadType
<1>8. ActiveIsAccounted'
    BY <1>1, <1>4, <1>6, Registration DEF ActiveIsAccounted
<1>9. RegistryMatches'
    BY <1>1, <1>5, <1>6, Registration DEF RegistryMatches, Matches, Exposed, At
<1>10. \A k \in Load : KeepsNames(k)'
    BY <1>2, <1>3 DEF KeepsNames
<1>11. phase = "running" /\ manager = 0 =>
           /\ active = {} /\ tools = {} /\ config \notin Proxied
           /\ \A k \in Load : load[k].pc # "initializing"
    BY DEF RegistryInv, LoadsKeepNames, At
<1>12. LoadsKeepNames'
    BY <1>1, <1>5, <1>6, <1>10, <1>11, Registration DEF LoadsKeepNames, KeepsNames, At
<1> QED
    BY <1>7, <1>8, <1>9, <1>12 DEF RegistryInv

\* After the end of the session only the records of the loads matter.
LEMMA EndKeepsInv == ASSUME RegistryInv, Shutdown \/ Closed PROVE RegistryInv'
<1>1. /\ UNCHANGED <<made, config, active, load>>
      /\ phase' \in {"closing", "ended"}
      /\ manager' \in Nat /\ configGeneration' \in Nat
      /\ registeredToolNames' \subseteq Name /\ tools' \subseteq McpTool
      /\ news' \in {"none", "due", "lapsed"}
      /\ refresh' \in {refresh, NoRefresh}
    BY DEF RegistryInv, TypeOK, Shutdown, Closed, Ended
<1>2. TypeOK'
    BY <1>1 DEF RegistryInv, TypeOK
<1>3. ActiveIsAccounted' /\ RegistryMatches' /\ LoadsKeepNames'
    BY <1>1 DEF RegistryInv, ActiveIsAccounted, RegistryMatches, LoadsKeepNames, At
<1> QED
    BY <1>2, <1>3 DEF RegistryInv

-----------------------------------------------------------------------------
(***************************************************************************)
(* The theorems.                                                           *)
(***************************************************************************)

\* RegistryInv is inductive: it holds of every state of every behaviour.
THEOREM RegistryInvariance == Spec => []RegistryInv
<1>1. Init => RegistryInv
    <2> SUFFICES ASSUME Init PROVE RegistryInv
        OBVIOUS
    <2>1. "idle" \in Step /\ 0 \in Nat /\ {} \in SUBSET Name
        BY DEF Step
    <2>2. \A l \in Load : load[l] = LoadAt("idle", 0, 0, {})
        BY DEF Init
    <2>3. /\ load \in [Load -> LoadType]
          /\ \A l \in Load : load[l].pc = "idle" /\ load[l].previous = {}
        BY <2>1, <2>2, LoadRecord DEF Init
    <2>4. TypeOK
        BY <2>3 DEF Init, TypeOK, LoadType
    <2> QED
        BY <2>3, <2>4 DEF Init, RegistryInv, ActiveIsAccounted, RegistryMatches,
           LoadsKeepNames, At
<1>2. RegistryInv /\ [Next]_vars => RegistryInv'
    <2> SUFFICES ASSUME RegistryInv, [Next]_vars PROVE RegistryInv'
        OBVIOUS
    <2>1. CASE UNCHANGED vars
        <3>1. TypeOK'
            BY <2>1 DEF vars, RegistryInv, TypeOK
        <3>2. ActiveIsAccounted' /\ RegistryMatches' /\ LoadsKeepNames'
            BY <2>1 DEF vars, RegistryInv, ActiveIsAccounted, RegistryMatches, Matches,
               Exposed, LoadsKeepNames, At
        <3> QED
            BY <3>1, <3>2 DEF RegistryInv
    <2>2. CASE Next
        BY <2>2, ManagerKeepsInv, OpenCommandKeepsInv, BeginKeepsInv, ReadFailsKeepsInv,
           ConfigureKeepsInv, ClientsClosedKeepsInv, InitializedKeepsInv,
           ReloadedKeepsInv, ReloadFailsKeepsInv, EndKeepsInv DEF Next, LoadStep
    <2> QED
        BY <2>1, <2>2
<1> QED
    BY <1>1, <1>2, PTL DEF Spec

\* The extension's state has the form it should have.
THEOREM RegistryTypeCorrect == Spec => []TypeOK
<1>1. RegistryInv => TypeOK
    BY DEF RegistryInv
<1> QED
    BY <1>1, RegistryInvariance, PTL

\* However many loads overlap, every active tool is registered or will be deactivated.
THEOREM NoToolIsForgotten == Spec => []ActiveIsAccounted
<1>1. RegistryInv => ActiveIsAccounted
    BY DEF RegistryInv
<1> QED
    BY <1>1, RegistryInvariance, PTL

\* At rest Pi has the manager's tools, or the proxy tool alone.
THEOREM RestingRegistryMatches == Spec => []RegistryMatches
<1>1. RegistryInv => RegistryMatches
    BY DEF RegistryInv
<1> QED
    BY <1>1, RegistryInvariance, PTL

=============================================================================
