------------------------------ MODULE PluginService ------------------------------
(***************************************************************************)
(* PluginService: the plugins found in a directory, the configuration of       *)
(* their services, and the chains ChainOfResponsibilityService makes of those    *)
(* registered for an event.                                                  *)
(***************************************************************************)
EXTENDS ResponsibilityChain

CONSTANTS
    Plugins,    \* the middlewares whose assemblies are in the directory
    Events, NoEvent,
    EventCode,  \* IMiddlewarePlugin.EventCode, or NoEvent
    OwnLists    \* what the application chains without the service

ASSUME PluginsAssumption ==
    /\ Plugins \subseteq IsPlugin
    /\ NoEvent \notin Events
    /\ EventCode \in [IsPlugin -> Events \cup {NoEvent}]
    /\ OwnLists \subseteq Seq(Middlewares)

VARIABLES
    phase,        \* of the constructor: "load", "configure", "ready" or "threw"
    found,        \* plugins still to load
    middlewares,  \* _middlewares: the plugins of each event, in the order they came
    apart,        \* _noEventMiddlewares
    enabled,      \* plugins whose Enable is true
    pending,      \* plugins the loop over ConfigureServices has still to reach
    configured,   \* plugins whose ConfigureServices has returned
    skipped,      \* history: plugins disabled when services were configured
    late,         \* history: plugins added once the service was ready
    incomplete    \* history: loading has failed, or there was no directory
service == <<phase, found, middlewares, apart, enabled, pending, configured, skipped, late, incomplete>>
vars == <<chain, service>>

Registered == UNION {{middlewares[e][i] : i \in DOMAIN middlewares[e]} : e \in Events}

ServiceInit ==
    /\ Init
    /\ phase = "load"
    /\ found = Plugins
    /\ middlewares = [e \in Events |-> <<>>]
    /\ apart = {}
    /\ enabled \in SUBSET IsPlugin
    /\ pending = {} /\ configured = {}
    /\ skipped = {} /\ late = {}
    /\ incomplete = FALSE
-------------------------------------------------------------------------------
\* A plugin without an event code is kept apart, and no chain takes it from there.
AddMiddlewarePlugin(m) ==
    IF EventCode[m] = NoEvent
    THEN apart' = apart \cup {m} /\ UNCHANGED middlewares
    ELSE /\ middlewares' = [middlewares EXCEPT ![EventCode[m]] = Append(@, m)]
         /\ UNCHANGED apart

\* LoadPlugins, in the order the directories are listed.
LoadPlugin(m) ==
    /\ phase = "load" /\ m \in found
    /\ found' = found \ {m}
    /\ AddMiddlewarePlugin(m)
    /\ UNCHANGED <<chain, phase, enabled, pending, configured, skipped, late, incomplete>>

\* One that cannot be loaded ends the loop; the constructor goes on without
\* configuring those that were.
FailLoad ==
    /\ phase = "load"
    /\ phase' = "ready"
    /\ incomplete' = TRUE
    /\ UNCHANGED <<chain, found, middlewares, apart, enabled, pending, configured, skipped, late>>

\* ConfigurePlugins takes the plugins that are enabled.
Loaded ==
    /\ phase = "load" /\ found = {}
    /\ phase' = "configure"
    /\ pending' = Registered \cap enabled
    /\ skipped' = Registered \ enabled
    /\ UNCHANGED <<chain, found, middlewares, apart, enabled, configured, late, incomplete>>

\* A plugin that throws makes the constructor throw: there is no service.
ConfigureServices(m) ==
    /\ phase = "configure" /\ m \in pending
    /\ \/ pending' = pending \ {m} /\ configured' = configured \cup {m} /\ UNCHANGED phase
       \/ phase' = "threw" /\ UNCHANGED <<pending, configured>>
    /\ UNCHANGED <<chain, found, middlewares, apart, enabled, skipped, late, incomplete>>

\* Mutant: the loop returns the services of the first plugin.
ConfiguredOne ==
    /\ phase = "configure" /\ (pending = {} \/ configured # {})
    /\ phase' = "ready"
    /\ UNCHANGED <<chain, found, middlewares, apart, enabled, pending, configured, skipped, late, incomplete>>

Configured ==
    /\ phase = "configure" /\ pending = {}
    /\ phase' = "ready"
    /\ UNCHANGED <<chain, found, middlewares, apart, enabled, pending, configured, skipped, late, incomplete>>
-------------------------------------------------------------------------------
(***************************************************************************)
(* The application.                                                          *)
(***************************************************************************)
AddLate(m) ==
    /\ phase = "ready" /\ m \notin Registered \cup apart
    /\ AddMiddlewarePlugin(m)
    /\ late' = late \cup {m}
    /\ UNCHANGED <<chain, phase, found, enabled, pending, configured, skipped, incomplete>>

SetEnable(m) ==
    /\ phase = "ready"
    /\ enabled' = (enabled \ {m}) \cup ({m} \ enabled)
    /\ UNCHANGED <<chain, phase, found, middlewares, apart, pending, configured, skipped, late, incomplete>>

\* The plugins of the event that are enabled, as they came.
MiddlewareChain(e) ==
    LET list == middlewares[e]
        came == {q \in (DOMAIN list) \X (DOMAIN list) : q[1] < q[2]}
    IN {Picked(list, p) : p \in Picks({i \in DOMAIN list : list[i] \in enabled}, came)}

\* An event nobody has registered for has no entry, and asking for it throws.
ExecuteChain(k, e) ==
    /\ phase = "ready" /\ middlewares[e] # <<>>
    /\ \E list \in MiddlewareChain(e) : Execute(k, list)
    /\ UNCHANGED service

\* Chains the application makes itself, of anything.
ExecuteOwn(k, list) ==
    /\ phase = "ready"
    /\ Execute(k, list)
    /\ UNCHANGED service

Construct ==
    \/ \E m \in IsPlugin : LoadPlugin(m) \/ ConfigureServices(m)
    \/ FailLoad
    \/ Loaded
    \/ Configured

Application ==
    \/ \E m \in IsPlugin : AddLate(m) \/ SetEnable(m)
    \/ \E k \in {"sync", "async"}, e \in Events : ExecuteChain(k, e)
    \/ \E k \in Kinds, list \in OwnLists : ExecuteOwn(k, list)

FunctionStep == Function /\ UNCHANGED service
MiddlewareStep == Middleware /\ UNCHANGED service

ServiceNext ==
    \/ Construct
    \/ Application
    \/ FunctionStep
    \/ MiddlewareStep

\* A middleware returns, throws or calls on.
ServiceSpec == ServiceInit /\ [][ServiceNext]_vars /\ WF_vars(FunctionStep) /\ WF_vars(MiddlewareStep)
-------------------------------------------------------------------------------
TypeOK ==
    /\ ChainTypeOK
    /\ phase \in {"load", "configure", "ready", "threw"}
    /\ middlewares \in [Events -> Seq(IsPlugin)]
    /\ {found, apart, enabled, pending, configured, skipped, late} \subseteq SUBSET IsPlugin
    /\ incomplete \in BOOLEAN

\* Any plugin a chain may run has had its services configured, unless loading has
\* failed, it was disabled at that time, or it came later.  Nothing configures it then.
UnconfiguredExplained ==
    phase = "ready" /\ ~incomplete => Registered \subseteq configured \cup skipped \cup late
===============================================================================
