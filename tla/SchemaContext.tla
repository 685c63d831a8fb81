---------------------------- MODULE SchemaContext ----------------------------
(***************************************************************************)
(* The libyang context of Encode and how it follows the modules that the   *)
(* sysrepo daemon has (src/src/gnmi/encode/load_models.cpp, runtime.cpp).  *)
(*                                                                         *)
(* The constructor of Encode lists the daemon's modules, loads them one by *)
(* one, and only then subscribes to be told of new ones.  From there on    *)
(* RuntimeSrCallback::install loads what the daemon reports, on sysrepo's  *)
(* thread.  The daemon changes at any time, and any load may fail.         *)
(***************************************************************************)
EXTENDS Naturals, Sequences

CONSTANTS
    Module,     \* the YANG modules (a name and a revision), with one feature
    Imports,    \* the modules each of them imports, directly or not
    MaxChanges  \* how many changes are made to the daemon's modules

ASSUME ImportsTyped ==
    /\ Imports \in [Module -> SUBSET Module]
    /\ \A m \in Module : m \notin Imports[m]
    /\ \A m \in Module : \A i \in Imports[m] : Imports[i] \subseteq Imports[m]
    /\ MaxChanges \in Nat

VARIABLES
    installed,  \* (external) the modules the daemon has
    enabled,    \* (external) those of them whose feature is enabled
    changes,    \* (external) how often the two were changed
    events,     \* (external) what callbacks have not been told yet
    pc,         \* where the main thread is
    schemas,    \* what list_schemas returned
    toLoad,     \* the listed modules the loading loop has yet to visit
    fetching,   \* the module whose text is being asked for, if any
    parsing,    \* the module whose text is being parsed, if any
    ctx,        \* the modules in the libyang context
    features,   \* those whose feature is enabled there
    refused,    \* (history) the modules a load of which failed
    missed      \* (history) the modules installed while nobody listened

daemonVars == <<installed, enabled, changes, events>>
encodeVars == <<schemas, toLoad, fetching, parsing, ctx, features>>
contextVars == <<daemonVars, pc, encodeVars, refused, missed>>

State == {"IMPLEMENTED", "UNINSTALLED", "FEATURE"}

Event == [module : Module, state : State]

Schemas == [modules : SUBSET Module, features : SUBSET Module]

NoSchemas == [modules |-> {}, features |-> {}]

\* What the server process holds when it starts.
NoContext ==
    /\ events = <<>> /\ schemas = NoSchemas
    /\ toLoad = {} /\ fetching = {} /\ parsing = {}
    /\ ctx = {} /\ features = {} /\ refused = {} /\ missed = {}

\* The process ends: the step to NoContext.
LosesContext ==
    /\ events' = <<>> /\ schemas' = NoSchemas
    /\ toLoad' = {} /\ fetching' = {} /\ parsing' = {}
    /\ ctx' = {} /\ features' = {} /\ refused' = {} /\ missed' = {}
    /\ UNCHANGED <<installed, enabled, changes>>

Closed(S) == \A m \in S : Imports[m] \subseteq S

\* The daemon may have any modules, each of them with what it imports.
ContextInit ==
    /\ installed \in {S \in SUBSET Module : Closed(S)}
    /\ enabled \in SUBSET installed
    /\ changes = 0
    /\ NoContext

-----------------------------------------------------------------------------
(***************************************************************************)
(* The daemon, external: modelled from the callbacks that it calls.        *)
(***************************************************************************)

\* module_install_subscribe and feature_enable_subscribe have been called.
Listening == pc \in {"subscribe_features", "listen", "serving"}

ListeningForFeatures == pc \in {"listen", "serving"}

Report(listens, m, state) ==
    events' = IF listens THEN Append(events, [module |-> m, state |-> state])
                         ELSE events

Changed ==
    /\ changes < MaxChanges
    /\ changes' = changes + 1
    /\ UNCHANGED <<pc, encodeVars, refused>>

\* Between list_schemas and the subscription nobody hears of a module.
Missed(m) ==
    IF Listening THEN missed \ {m}
    ELSE IF pc \in {"load", "subscribe"} THEN missed \cup {m} ELSE missed

DaemonInstalls(m) ==
    /\ m \notin installed /\ Imports[m] \subseteq installed
    /\ installed' = installed \cup {m}
    /\ Report(Listening, m, "IMPLEMENTED")
    /\ missed' = Missed(m)
    /\ Changed
    /\ UNCHANGED enabled

DaemonUninstalls(m) ==
    /\ m \in installed /\ Closed(installed \ {m})
    /\ installed' = installed \ {m} /\ enabled' = enabled \ {m}
    /\ Report(Listening, m, "UNINSTALLED")
    /\ Changed
    /\ UNCHANGED missed

DaemonTogglesFeature(m) ==
    /\ m \in installed
    /\ enabled' \in {enabled \cup {m}, enabled \ {m}} \ {enabled}
    /\ Report(ListeningForFeatures, m, "FEATURE")
    /\ Changed
    /\ UNCHANGED <<installed, missed>>

DaemonChanges ==
    \E m \in Module :
        DaemonInstalls(m) \/ DaemonUninstalls(m) \/ DaemonTogglesFeature(m)

-----------------------------------------------------------------------------
(***************************************************************************)
(* The constructor of Encode, on the main thread.                          *)
(***************************************************************************)
GoTo(label) == pc' = label

ListSchemas ==
    /\ pc = "list" /\ GoTo("load")
    /\ schemas' = [modules |-> installed, features |-> enabled]
    /\ toLoad' = installed
    /\ UNCHANGED <<daemonVars, fetching, parsing, ctx, features,
                   refused, missed>>

Idle == fetching = {} /\ parsing = {}

\* Mutant of Visited: a module that is there already is passed over.
VisitedIfLoaded(m) ==
    /\ toLoad' = toLoad \ {m}
    /\ features' = IF m \in ctx THEN features
                   ELSE features \cup ({m} \cap schemas.features)

\* A listed module is in the context: its features are enabled there.
Visited(m) ==
    /\ toLoad' = toLoad \ {m}
    /\ features' = features \cup ({m} \cap schemas.features)

\* The next module of the list, in the order the daemon has put it in.
VisitSchema ==
    /\ pc = "load" /\ Idle
    /\ \E m \in toLoad :
        \/ /\ m \in ctx /\ Visited(m)
           /\ UNCHANGED <<fetching, ctx>>
        \/ /\ m \notin ctx /\ fetching' = {m}
           /\ UNCHANGED <<toLoad, ctx, features>>
    /\ UNCHANGED <<daemonVars, pc, schemas, parsing, refused, missed>>

AllVisited ==
    /\ pc = "load" /\ Idle /\ toLoad = {}
    /\ GoTo("subscribe")
    /\ UNCHANGED <<daemonVars, encodeVars, refused, missed>>

SubscribeInstall ==
    /\ pc = "subscribe" /\ GoTo("subscribe_features")
    /\ UNCHANGED <<daemonVars, encodeVars, refused, missed>>

SubscribeFeatures ==
    /\ pc = "subscribe_features" /\ GoTo("listen")
    /\ UNCHANGED <<daemonVars, encodeVars, refused, missed>>

-----------------------------------------------------------------------------
(***************************************************************************)
(* Downloading and parsing a module: by the loop above while pc = "load",  *)
(* by RuntimeSrCallback::install afterwards; there is never one of each.   *)
(***************************************************************************)

\* get_schema returns the text of a module the daemon has.
Download(m) ==
    /\ fetching = {m} /\ m \in installed
    /\ fetching' = {} /\ parsing' = {m}
    /\ UNCHANGED <<daemonVars, pc, schemas, toLoad, ctx, features,
                   refused, missed>>

\* Mutant of GiveUp: the loop tries the same module again.
GiveUpRetried(m) ==
    /\ fetching' = {} /\ parsing' = {}
    /\ refused' = refused \cup {m}
    /\ UNCHANGED <<daemonVars, pc, schemas, toLoad, features, missed>>

\* A load is given up with a warning: `continue' in the loop, `return' in
\* install.  The module's features are left alone.
GiveUp(m) ==
    /\ fetching' = {} /\ parsing' = {}
    /\ toLoad' = toLoad \ {m}
    /\ refused' = refused \cup {m}
    /\ UNCHANGED <<daemonVars, pc, schemas, features, missed>>

\* The module has gone, or the daemon does not answer.
DownloadThrows(m) ==
    /\ fetching = {m}
    /\ GiveUp(m)
    /\ UNCHANGED ctx

(***************************************************************************)
(* While libyang parses m, it calls the missing-module callback for every  *)
(* import it does not find.  The callback loads that module by itself, if  *)
(* it can, and returns the module's NAME where libyang expects its text.   *)
(* Whether libyang is content when the import has turned up meanwhile is   *)
(* left open here, so that either way of parsing m may follow.             *)
(***************************************************************************)
ImportsLoaded(m) ==
    {I \in SUBSET (Imports[m] \ ctx) : I \subseteq installed /\ Closed(ctx \cup I)}

\* Mutant of Parse: the missing-module callback is not registered.
ParseAlone(m) ==
    /\ parsing = {m} /\ parsing' = {} /\ ctx' = ctx \cup {m}
    /\ IF pc = "load" THEN Visited(m) ELSE UNCHANGED <<toLoad, features>>
    /\ UNCHANGED <<daemonVars, pc, schemas, fetching, refused, missed>>

Parse(m) ==
    /\ parsing = {m}
    /\ \E I \in ImportsLoaded(m) :
           Imports[m] \subseteq ctx \cup I /\ ctx' = ctx \cup I \cup {m}
    /\ parsing' = {}
    /\ IF pc = "load" THEN Visited(m) ELSE UNCHANGED <<toLoad, features>>
    /\ UNCHANGED <<daemonVars, pc, schemas, fetching, refused, missed>>

\* The text or an import is not accepted: parse_module_mem throws.  Imports
\* that were loaded on the way stay.
ParseThrows(m) ==
    /\ parsing = {m}
    /\ \E I \in ImportsLoaded(m) : ctx' = ctx \cup I
    /\ GiveUp(m)

Load ==
    \E m \in Module :
        Download(m) \/ DownloadThrows(m) \/ Parse(m) \/ ParseThrows(m)

LoadsListed == pc = "load" /\ Load

Encodes ==
    \/ ListSchemas \/ VisitSchema \/ LoadsListed \/ AllVisited
    \/ SubscribeInstall \/ SubscribeFeatures

-----------------------------------------------------------------------------
(***************************************************************************)
(* RuntimeSrCallback, on the thread of the subscription.  Events come one  *)
(* by one, in their order; each call is made when the one before returned. *)
(***************************************************************************)

\* Mutant of Installs: a report of a new module is ignored.
InstallsNothing(e) == {}

\* install is called, and the module is not in the context already.
Installs(e) ==
    IF e.state = "IMPLEMENTED" THEN {e.module} \ ctx ELSE {}

\* Mutant of Kept: a module that was uninstalled is unloaded.
KeptIfInstalled(e) ==
    IF e.state = "UNINSTALLED" THEN ctx \ {e.module} ELSE ctx

\* "Impossible to remove a module at runtime", nor to toggle a feature.
Kept(e) == ctx

Callback ==
    /\ Listening /\ Idle /\ events # <<>>
    /\ events' = Tail(events)
    /\ fetching' = Installs(Head(events))
    /\ ctx' = Kept(Head(events))
    /\ UNCHANGED <<installed, enabled, changes, pc, schemas, toLoad, parsing,
                   features, refused, missed>>

LoadsReported == Listening /\ Load

CallbackRuns == Callback \/ LoadsReported

-----------------------------------------------------------------------------
ContextTypeOK ==
    /\ installed \subseteq Module /\ Closed(installed)
    /\ enabled \subseteq installed
    /\ changes \in 0 .. MaxChanges
    /\ events \in Seq(Event)
    /\ schemas \in Schemas
    /\ toLoad \subseteq schemas.modules
    /\ {fetching, parsing} \subseteq {{}} \cup {{m} : m \in Module}
    /\ fetching = {} \/ parsing = {}
    /\ ctx \subseteq Module /\ Closed(ctx)
    /\ features \subseteq ctx
    /\ refused \subseteq Module /\ missed \subseteq Module
    /\ Idle \/ pc = "load" \/ Listening
    /\ pc = "load" => fetching \cup parsing \subseteq toLoad

\* What the callbacks have still to be told.
Pending(m) ==
    \E i \in DOMAIN events : events[i] = [module |-> m, state |-> "IMPLEMENTED"]

(***************************************************************************)
(* The context follows the daemon: from list_schemas on, every module that *)
(* the daemon has is in the context or on its way there (listed and not    *)
(* yet visited, being loaded, or reported by an event not yet delivered),  *)
(* unless a load of it failed or it came in the gap between the list and   *)
(* the subscription (load_models.cpp:51, 79, 114; runtime.cpp:41-63).      *)
(***************************************************************************)
Follows == pc \in {"load", "subscribe"} \/ Listening

ContextFollowsDaemon ==
    Follows => \A m \in installed :
        \/ m \in ctx \cup toLoad \cup fetching \cup parsing
        \/ Pending(m)
        \/ m \in refused \cup missed

(***************************************************************************)
(* Every listed module whose turn has come is in the context with exactly  *)
(* the features the daemon had enabled when it was listed, or its load     *)
(* failed; so it is also when the module was loaded as an import of        *)
(* another one before its turn, and nothing that happens at runtime        *)
(* changes it (load_models.cpp:83-110, runtime.cpp:82, 103-106).           *)
(***************************************************************************)
FeaturesAsListed ==
    /\ features \subseteq schemas.features
    /\ Follows => \A m \in schemas.modules \ (toLoad \cup refused) :
           m \in ctx /\ (m \in features <=> m \in schemas.features)
=============================================================================
