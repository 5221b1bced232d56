-------------------------- MODULE CapabilityRegistry --------------------------
(***************************************************************************)
(* runtime/capability/registry.py with its two kinds of registrants: the   *)
(* core tools plugin, started by plugin/manager.py before anything else,   *)
(* and the MCP managers of runtime/mcp/manager.py, which register what     *)
(* their server lists and keep a disposer for each tool.                   *)
(*                                                                         *)
(* A tool is told by its registrant and capability.  The operations below  *)
(* run without suspension; RuntimeBundle puts them between the awaits.     *)
(***************************************************************************)
CONSTANTS
    Managers,
    Core, NoOne,     \* the core plugin; nobody
    CoreTools,       \* its capabilities
    Offers           \* the capabilities each manager's server can list

ASSUME RegistryAssumption ==
    /\ Core # NoOne /\ Core \notin Managers /\ NoOne \notin Managers
    /\ \A m \in Managers : Offers[m] \cap CoreTools = {}

VARIABLES
    tools,      \* whose tool a capability resolves to
    disposers,  \* per manager: the tools it holds a disposer for
    serving,    \* managers that are _started
    \* history
    answered,   \* per manager: the capabilities its last start answered
    overlapped  \* managers that were started while a start was under way

registryVars == <<tools, disposers, serving, answered, overlapped>>

Capabilities == CoreTools \cup UNION {Offers[m] : m \in Managers}

RegistryTypeOK ==
    /\ tools \in [Capabilities -> Managers \cup {Core, NoOne}]
    /\ disposers \in [Managers -> SUBSET Capabilities]
    /\ serving \subseteq Managers
    /\ answered \in [Managers -> SUBSET Capabilities]
    /\ overlapped \subseteq Managers

RegistryInit ==
    /\ tools = [x \in Capabilities |-> IF x \in CoreTools THEN Core ELSE NoOne]
    /\ disposers = [m \in Managers |-> {}]
    /\ serving = {}
    /\ answered = [m \in Managers |-> {}]
    /\ overlapped = {}

Resolves(x) == tools[x] # NoOne

\* The disposers of m are called; each removes its own tool only.
Without(m) ==
    [x \in Capabilities |->
        IF x \in disposers[m] /\ tools[x] = m THEN NoOne ELSE tools[x]]

Unclaimed_Unchecked(listed) == TRUE
Unclaimed(listed) == \A x \in listed : ~Resolves(x)

\* start(): the listed tools are registered.
Register(m, listed) ==
    /\ Unclaimed(listed)
    /\ tools' = [x \in Capabilities |-> IF x \in listed THEN m ELSE tools[x]]
    /\ disposers' = [disposers EXCEPT ![m] = @ \cup listed]
    /\ serving' = serving \cup {m}
    /\ answered' = [answered EXCEPT ![m] = listed]
    /\ UNCHANGED overlapped

AfterConflict_Kept(m) == tools
AfterConflict_Unlisted(m) == [x \in Capabilities \ disposers[m] |-> tools[x]]
AfterConflict(m) == Without(m)

\* start(): a listed tool is taken or malformed; what is registered goes.
RegisterFails(m) ==
    /\ tools' = AfterConflict(m)
    /\ disposers' = [disposers EXCEPT ![m] = {}]
    /\ UNCHANGED <<serving, answered, overlapped>>

\* stop()
Dispose(m) ==
    /\ tools' = Without(m)
    /\ disposers' = [disposers EXCEPT ![m] = {}]
    /\ serving' = serving \ {m}
    /\ UNCHANGED <<answered, overlapped>>

StopAll_Nothing == UNCHANGED registryVars

\* PluginManager.stop_all
StopAll ==
    /\ tools' = [x \in Capabilities |-> IF tools[x] = Core THEN NoOne ELSE tools[x]]
    /\ UNCHANGED <<disposers, serving, answered, overlapped>>

-------------------------------------------------------------------------------
\* Every tool of a manager can be disposed of, and none is left of a manager
\* that is not serving: starts that fail half-way take back what they did.
NoToolLeftBehind ==
    \A x \in Capabilities : \A m \in Managers :
        tools[x] = m => x \in disposers[m] /\ m \in serving

\* What a start answered can be called until the manager is stopped, unless
\* two starts of one manager overlapped: then the one that fails disposes of
\* the tools of the other.
AnsweredToolsResolve ==
    \A m \in serving \ overlapped : \A x \in answered[m] : tools[x] = m
===============================================================================
