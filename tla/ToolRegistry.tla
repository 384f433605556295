------------------------------ MODULE ToolRegistry ------------------------------
(***************************************************************************)
(* The tools that the extension registers with Pi (src/src/index.ts), over *)
(* an abstract manager.  Loads of the configuration, by the start of the   *)
(* session and by the reloads of /mcp, register the tools that the manager *)
(* has then; so do the manager's onToolsChanged, the commands and the      *)
(* background refresh.  They await in between, and the session may end at  *)
(* any time.                                                               *)
(*                                                                         *)
(* The manager changes its tools as it likes.  As manager.ts has it, it    *)
(* tells of most changes at once; when it takes a client out to disconnect *)
(* or to reconnect it tells later, or never, if the new client cannot list *)
(* its tools.                                                              *)
(***************************************************************************)
EXTENDS Naturals

CONSTANTS
    Load,       \* loads of the configuration
    Start,      \* that of session_start; the others are reloads
    Config,     \* configurations
    Proxied,    \* those with toolMode "proxy"
    Eager,      \* those with startup "eager"
    McpTool,    \* names of tools that a manager may have
    ProxyTool   \* MCP_PROXY_TOOL

ASSUME RegistryAssumption ==
    /\ Start \in Load
    /\ Proxied \subseteq Config /\ Eager \subseteq Config
    /\ ProxyTool \notin McpTool

VARIABLES
    phase,               \* "running", or how far session_shutdown has come
    manager,             \* the number of the manager, 0 for none
    made,                \* how many managers were made
    config,
    configGeneration,
    registeredToolNames,
    active,              \* those of Pi's active tools that this extension registered
    refresh,             \* backgroundConnectionRefresh: a manager and a generation
    load,                \* the loads: where they are and what they keep
    tools,               \* the tools that the clients of the manager have
    news                 \* what the manager has yet to tell

vars == <<phase, manager, made, config, configGeneration, registeredToolNames, active,
          refresh, load, tools, news>>

Name == McpTool \cup {ProxyTool}

Step == {"idle", "reading", "initializing", "connecting", "done"}

NoRefresh == [manager |-> 0, generation |-> 0]

\* A load that keeps the manager m, its generation g and the names registered before it.
LoadAt(step, m, g, names) ==
    [pc |-> step, manager |-> m, generation |-> g, previous |-> names]

-----------------------------------------------------------------------------
(***************************************************************************)
(* registerDynamicTools.                                                   *)
(***************************************************************************)

Exposed(ts) == IF config \in Proxied THEN {ProxyTool} ELSE ts

\* Mutant: tools that are gone are not deactivated.
ActivatedOnly(names) == active \cup names

\* The active tools once names are registered in the place of those that are.
Activated(names) == (active \ (registeredToolNames \ names)) \cup names

\* The manager's tools are ts, and all of them are looked at.
Register(ts) ==
    IF manager = 0 THEN UNCHANGED <<registeredToolNames, active, news>>
    ELSE /\ registeredToolNames' = Exposed(ts)
         /\ active' = Activated(Exposed(ts))
         /\ news' = "none"

\* What registerDynamicTools and the manager leave alone.
index == <<phase, manager, made, config, configGeneration, refresh, load>>

\* Tools come, change or go, and onToolsChanged is called with it.
ToolsChange ==
    /\ manager # 0
    /\ \E ts \in SUBSET McpTool : tools' = ts /\ Register(ts)
    /\ UNCHANGED index

\* A client is taken out.
ToolsGo ==
    /\ manager # 0
    /\ \E ts \in SUBSET tools : tools' = ts
    /\ news' = "due"
    /\ UNCHANGED <<index, registeredToolNames, active>>

\* Mutant: nobody listens to onToolsChanged.
TellNobody ==
    /\ news = "due"
    /\ news' = "none"
    /\ UNCHANGED <<index, registeredToolNames, active, tools>>

\* onToolsChanged, once the client is closed or the reconnect is over.
Tell ==
    /\ news = "due"
    /\ Register(tools)
    /\ UNCHANGED <<index, tools>>

\* The reconnect fails listing tools, or is aborted or superseded: onToolsChanged is not
\* called, nor refreshRuntime after a failure.
Lapse ==
    /\ news = "due"
    /\ news' = "lapsed"
    /\ UNCHANGED <<index, registeredToolNames, active, tools>>

\* refreshRuntime, the proxy tool's connects, and onToolsChanged without a change.
Refresh ==
    /\ Register(tools)
    /\ UNCHANGED <<index, tools>>

-----------------------------------------------------------------------------
(***************************************************************************)
(* Loads.                                                                  *)
(***************************************************************************)

At(l, step) == load[l].pc = step

\* ensureManager, which makes one of no tools where there is none.
EnsureManager ==
    IF manager = 0 THEN /\ made' = made + 1
                        /\ manager' = made + 1
                        /\ tools' = {}
                        /\ news' = "none"
    ELSE UNCHANGED <<made, manager, tools, news>>

\* /mcp opens.
OpenCommand ==
    /\ phase = "running"
    /\ manager = 0
    /\ EnsureManager
    /\ UNCHANGED <<phase, config, configGeneration, registeredToolNames, active, refresh, load>>

Begin(l) ==
    /\ phase = "running"
    /\ At(l, "idle")
    /\ configGeneration' = configGeneration + 1
    /\ load' = [load EXCEPT ![l] = LoadAt("reading", 0, configGeneration + 1, {})]
    /\ UNCHANGED <<phase, manager, made, config, registeredToolNames, active, refresh, tools, news>>

ReadFails(l) ==
    /\ At(l, "reading")
    /\ load' = [load EXCEPT ![l] = LoadAt("done", 0, 0, {})]
    /\ UNCHANGED <<phase, manager, made, config, configGeneration, registeredToolNames,
                   active, refresh, tools, news>>

\* Mutant: the names of the configuration before are forgotten.
ConfigureAfresh(l) ==
    /\ At(l, "reading")
    /\ config' \in Config
    /\ EnsureManager
    /\ registeredToolNames' = {}
    /\ load' = [load EXCEPT ![l] = LoadAt("initializing", manager', @.generation, {})]
    /\ UNCHANGED <<phase, configGeneration, active, refresh>>

\* The configuration is read; initialize is called.
Configure(l) ==
    /\ At(l, "reading")
    /\ config' \in Config
    /\ EnsureManager
    /\ registeredToolNames' = {}
    /\ load' = [load EXCEPT ![l] =
                    LoadAt("initializing", manager', @.generation, registeredToolNames)]
    /\ UNCHANGED <<phase, configGeneration, active, refresh>>

\* initialize closes the manager's clients.
ClientsClosed(l) ==
    /\ At(l, "initializing")
    /\ load[l].manager = manager
    /\ tools' = {}
    /\ UNCHANGED <<index, registeredToolNames, active, news>>

\* Mutant: the refresh is for whatever manager there is by now.
ForkForAny(l) ==
    refresh' = [manager |-> manager, generation |-> load[l].generation]

\* startBackgroundConnectionRefresh.
Fork(l) ==
    refresh' = [manager |-> load[l].manager, generation |-> load[l].generation]

\* initialize is over.  It has no failure to end a load with, and so to lose the names
\* moved to previous: closes ignore their errors, and there is no onStatusChanged here.
\* registerDynamicTools, and then what was registered before and is
\* not any more is deactivated.
Initialized(l) ==
    LET names   == IF manager = 0 THEN registeredToolNames ELSE Exposed(tools)
        present == IF manager = 0 THEN active ELSE Activated(names)
    IN
    /\ At(l, "initializing")
    /\ registeredToolNames' = names
    /\ active' = present \ (load[l].previous \ names)
    /\ news' = IF manager = 0 THEN news ELSE "none"
    /\ IF l = Start THEN IF config \in Eager THEN Fork(l) ELSE UNCHANGED refresh
       ELSE UNCHANGED refresh
    /\ load' = [load EXCEPT ![l] =
                    LoadAt(IF l = Start THEN "done" ELSE "connecting", 0, 0, {})]
    /\ UNCHANGED <<phase, manager, made, config, configGeneration, tools>>

\* A reload's connectAll is over.
Reloaded(l) ==
    /\ At(l, "connecting")
    /\ load' = [load EXCEPT ![l] = LoadAt("done", 0, 0, {})]
    /\ Register(tools)
    /\ UNCHANGED <<phase, manager, made, config, configGeneration, refresh, tools>>

\* It fails: an attempt that it joined was aborted or interrupted for another caller.
ReloadFails(l) ==
    /\ At(l, "connecting")
    /\ load' = [load EXCEPT ![l] = LoadAt("done", 0, 0, {})]
    /\ UNCHANGED <<phase, manager, made, config, configGeneration, registeredToolNames,
                   active, refresh, tools, news>>

\* connectConfiguredServers: the background connectAll is over.
Refreshed ==
    /\ refresh # NoRefresh
    /\ refresh' = NoRefresh
    /\ IF manager = refresh.manager /\ configGeneration = refresh.generation
       THEN Register(tools)
       ELSE UNCHANGED <<registeredToolNames, active, news>>
    /\ UNCHANGED <<phase, manager, made, config, configGeneration, load, tools>>

-----------------------------------------------------------------------------
(***************************************************************************)
(* session_shutdown.                                                       *)
(***************************************************************************)

Ended ==
    /\ phase' = "ended"
    /\ manager' = 0
    /\ registeredToolNames' = {}
    /\ tools' = {}
    /\ news' = "none"

Shutdown ==
    /\ phase = "running"
    /\ configGeneration' = configGeneration + 1
    /\ refresh' = NoRefresh
    /\ IF manager = 0 THEN Ended
       ELSE phase' = "closing" /\ UNCHANGED <<manager, registeredToolNames, tools, news>>
    /\ UNCHANGED <<made, config, active, load>>

\* The manager is closed.
Closed ==
    /\ phase = "closing"
    /\ Ended
    /\ UNCHANGED <<made, config, configGeneration, active, refresh, load>>

-----------------------------------------------------------------------------

Init ==
    /\ phase = "running"
    /\ manager = 0
    /\ made = 0
    /\ config \in Config \ (Proxied \cup Eager)
    /\ configGeneration = 0
    /\ registeredToolNames = {}
    /\ active = {}
    /\ refresh = NoRefresh
    /\ load = [l \in Load |-> LoadAt("idle", 0, 0, {})]
    /\ tools = {}
    /\ news = "none"

LoadStep(l) ==
    ReadFails(l) \/ Configure(l) \/ Initialized(l) \/ Reloaded(l) \/ ReloadFails(l)

Next ==
    \/ ToolsChange \/ ToolsGo \/ Tell \/ Lapse \/ Refresh
    \/ OpenCommand
    \/ \E l \in Load : Begin(l) \/ ClientsClosed(l) \/ LoadStep(l)
    \/ Refreshed
    \/ Shutdown \/ Closed

Spec == Init /\ [][Next]_vars

\* Files are read, the manager's clients close and its attempts end (AttemptsEnd of
\* McpManager).  That every close answers is assumed here: McpManager lets one hang.
FairSpec ==
    /\ Spec
    /\ \A l \in Load : WF_vars(LoadStep(l))
    /\ WF_vars(Tell)

-----------------------------------------------------------------------------
(***************************************************************************)
(* Properties.                                                             *)
(***************************************************************************)

TypeOK ==
    /\ phase \in {"running", "closing", "ended"}
    /\ manager \in Nat /\ made \in Nat
    /\ config \in Config
    /\ configGeneration \in Nat
    /\ registeredToolNames \subseteq Name
    /\ active \subseteq Name
    /\ refresh \in {NoRefresh} \cup [manager : Nat \ {0}, generation : Nat \ {0}]
    /\ load \in [Load -> [pc : Step, manager : Nat, generation : Nat, previous : SUBSET Name]]
    /\ tools \subseteq McpTool
    /\ news \in {"none", "due", "lapsed"}

\* A tool that is active is registered, or one that a load is going to deactivate:
\* loads that overlap lose none (loadConfiguredEffect).
ActiveIsAccounted ==
    phase = "running" =>
        active \subseteq registeredToolNames \cup UNION {load[l].previous : l \in Load}

\* When no load initializes and the manager has nothing to tell, what is active and
\* what is registered are the tools the manager has, or the proxy tool alone, as the
\* configuration has it by now.
Matches == active = Exposed(tools) /\ registeredToolNames = Exposed(tools)

RegistryMatches ==
    phase = "running" /\ manager # 0 /\ news = "none"
        /\ (\A l \in Load : ~At(l, "initializing"))
    => Matches

\* What is active does not stay different from what the manager has, but for a
\* change that the manager did not tell of.
RegistryCatchesUp ==
    phase = "running" /\ manager # 0 /\ ~Matches
        ~> Matches \/ news = "lapsed" \/ phase # "running"

\* What loads keep until they are initialized, and what there is before a manager.
LoadsKeepNames ==
    /\ \A l \in Load :
          /\ ~At(l, "initializing") => load[l].previous = {}
          /\ At(l, "initializing") => load[l].manager # 0
          /\ At(l, "reading") \/ At(l, "initializing") => load[l].generation # 0
    /\ phase = "running" => registeredToolNames \subseteq active
    /\ phase = "running" /\ manager = 0 =>
          /\ active = {} /\ tools = {}
          /\ config \notin Proxied
          /\ \A l \in Load : ~At(l, "initializing")

\* The inductive invariant behind the properties.
RegistryInv == TypeOK /\ ActiveIsAccounted /\ RegistryMatches /\ LoadsKeepNames
=============================================================================
