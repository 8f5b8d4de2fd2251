-------------------------- MODULE PluginRegistration --------------------------
(***************************************************************************)
(* register_plugin of plugin.py with the two host adapters it may install. *)
(* vLLM calls the entry point in every process that loads general plugins, *)
(* possibly more than once, and after a call that raised.  A call decides  *)
(* from the environment whether it was asked for at all, from what it can  *)
(* import which integration the host takes, and then installs that one:    *)
(*                                                                         *)
(*   native   a request processor and a runtime observer, registered with  *)
(*            the host under the plugin's name, one after the other        *)
(*   school   three patched methods and a sentinel on the class            *)
(*   legacy   patched methods; no sentinel of its own                      *)
(*                                                                         *)
(* The host's registration calls may raise, and what was installed before  *)
(* stays: there is no rollback.                                            *)
(*                                                                         *)
(* _REGISTERED belongs to the process, but PLUGIN_LOADED and PLUGIN_MODE   *)
(* are environment variables: a process may have them from its parent, or  *)
(* from whoever preset them, before its own plugin did anything.           *)
(***************************************************************************)
EXTENDS Naturals

CONSTANTS
    Settings,   \* environments a process may start with
    Hosts       \* vLLM installations the process may run on

Bundles == {"native", "school", "other"}
Unset == {"unset"}
Apis == {"absent", "1.0", "2.0"}
Lines == {"0.31", "school-0.28", "0.23", "another"}
Modes == {"none", "prefix_cache_runtime_control", "school028-recompute-only", "preset"}

IsSetting(s) ==
    /\ s.bundles \in SUBSET Bundles \cup {Unset}  \* VLLMHUST_EXT_ENABLED_BUNDLES
    /\ s.allowed \in BOOLEAN    \* kv_materialization is in VLLM_PLUGINS
    /\ s.school \in BOOLEAN     \* VLLM_KV_ENABLE_SCHOOL_028 is "1"
    /\ s.loaded \in BOOLEAN     \* PLUGIN_LOADED, as the process starts
    /\ s.mode \in Modes         \* PLUGIN_MODE, as the process starts

IsHost(h) ==
    /\ h.requestApi \in Apis    \* "absent": the module cannot be imported
    /\ h.kvApi \in Apis
    /\ h.line \in Lines         \* vllm.__version__
    /\ h.pinned \in BOOLEAN     \* both source digests equal HOST_PINS
    /\ h.patchable \in BOOLEAN  \* what the adapter imports and wraps exists

ASSUME SettingsAssumption == \A s \in Settings : IsSetting(s)
ASSUME HostsAssumption == \A h \in Hosts : IsHost(h)

VARIABLES
    setting,     \* the environment the plugin reads
    host,        \* the installed vLLM
    registered,  \* _REGISTERED
    processor,   \* the host's request processors hold the plugin's
    observer,    \* the host's runtime observers hold the plugin's
    school,      \* layers of School patches on the host's classes
    legacy,      \* layers of 0.23 patches on the host's classes
    published,   \* VLLM_KV_MATERIALIZATION_PLUGIN_LOADED and _MODE in os.environ
    last         \* how the last call ended

config == <<setting, host>>
hooks == <<processor, observer, school, legacy>>
pluginVars == <<setting, host, registered, processor, observer, school, legacy,
                published, last>>

PluginInit ==
    /\ setting \in Settings
    /\ host \in Hosts
    /\ registered = FALSE
    /\ processor = FALSE
    /\ observer = FALSE
    /\ school = 0
    /\ legacy = 0
    /\ published = [loaded |-> setting.loaded, mode |-> setting.mode]
    /\ last = "none"

-----------------------------------------------------------------------------
(* What the plugin asks of the environment and of the host.                *)

\* Mutant: VLLM_PLUGINS overrides the Manager's list.
ActivationByEither(s) ==
    \/ s.allowed
    \/ "native" \in s.bundles
    \/ "school" \in s.bundles /\ s.school

ActivationRequested(s) ==
    IF s.bundles = Unset THEN s.allowed
    ELSE "native" \in s.bundles \/ ("school" \in s.bundles /\ s.school)

HasHooks(h) == h.requestApi # "absent" /\ h.kvApi # "absent"

ApiAccepted(h) == HasHooks(h) /\ h.requestApi = "1.0" /\ h.kvApi = "1.0"

\* Mutant: the source digests are not compared.
SchoolUnpinned(h) == h.line = "school-0.28" /\ h.patchable

SchoolQualified(h) == h.line = "school-0.28" /\ h.patchable /\ h.pinned

LegacyQualified(h) == h.line = "0.23" /\ h.patchable

\* The integration the host takes; "refused" when register_plugin raises.
Integration(s, h) ==
    IF HasHooks(h) THEN IF ApiAccepted(h) THEN "native" ELSE "refused"
    ELSE IF s.school THEN IF SchoolQualified(h) THEN "school" ELSE "refused"
    ELSE IF LegacyQualified(h) THEN "legacy" ELSE "refused"

\* Mutant: a registered plugin registers again.
CallableAgain == ActivationRequested(setting)

Callable == ~registered /\ ActivationRequested(setting)

\* os.getenv(PLUGIN_MODE, default): a mode that is set already is kept.
KeptMode ==
    IF published.mode = "none" THEN "prefix_cache_runtime_control" ELSE published.mode

Publish(mode) ==
    /\ published' = [loaded |-> TRUE, mode |-> mode]
    /\ registered' = TRUE
    /\ last' = "returned"

Raise ==
    /\ last' = "raised"
    /\ UNCHANGED <<registered, published>>

-----------------------------------------------------------------------------
(* One call of register_plugin.                                            *)

\* Not asked for, or already registered: the call returns and changes nothing.
Decline ==
    /\ ~Callable
    /\ last' = "returned"
    /\ UNCHANGED <<config, registered, hooks, published>>

\* Unsupported API versions, a host outside the supported lines, an adapter
\* whose imports or pins fail: raised before anything is installed.
Refuse ==
    /\ Callable
    /\ Integration(setting, host) = "refused"
    /\ Raise
    /\ UNCHANGED <<config, hooks>>

\* The host's register_request_processor raises.
ProcessorRaises ==
    /\ Callable
    /\ Integration(setting, host) = "native"
    /\ Raise
    /\ UNCHANGED <<config, hooks>>

\* Mutant: the plugin counts as registered once its processor is.
ObserverRaisesLate ==
    /\ Callable
    /\ Integration(setting, host) = "native"
    /\ processor' = TRUE
    /\ registered' = TRUE
    /\ last' = "raised"
    /\ UNCHANGED <<config, published, observer, school, legacy>>

\* The processor is in place when register_..._runtime_observer raises.
ObserverRaises ==
    /\ Callable
    /\ Integration(setting, host) = "native"
    /\ processor' = TRUE
    /\ Raise
    /\ UNCHANGED <<config, observer, school, legacy>>

RegisterNative ==
    /\ Callable
    /\ Integration(setting, host) = "native"
    /\ processor' = TRUE
    /\ observer' = TRUE
    /\ Publish(KeptMode)
    /\ UNCHANGED <<config, school, legacy>>

\* The sentinel on the class keeps the adapter from wrapping its own wrappers.
RegisterSchool ==
    /\ Callable
    /\ Integration(setting, host) = "school"
    /\ school' = IF school # 0 THEN school ELSE 1
    /\ Publish("school028-recompute-only")
    /\ UNCHANGED <<config, processor, observer, legacy>>

RegisterLegacy ==
    /\ Callable
    /\ Integration(setting, host) = "legacy"
    /\ legacy' = legacy + 1
    /\ Publish(KeptMode)
    /\ UNCHANGED <<config, processor, observer, school>>

PluginNext ==
    \/ Decline
    \/ Refuse
    \/ ProcessorRaises
    \/ ObserverRaises
    \/ RegisterNative
    \/ RegisterSchool
    \/ RegisterLegacy

PluginSpec == PluginInit /\ [][PluginNext]_pluginVars

-----------------------------------------------------------------------------
(* Properties.                                                             *)

Installed == processor \/ observer \/ school # 0 \/ legacy # 0

\* The type invariant: no class is ever wrapped more than once.
PluginTypeOK ==
    /\ setting \in Settings
    /\ host \in Hosts
    /\ registered \in BOOLEAN
    /\ processor \in BOOLEAN
    /\ observer \in BOOLEAN
    /\ school \in {0, 1}
    /\ legacy \in {0, 1}
    /\ published \in [loaded : BOOLEAN, mode : Modes]
    /\ last \in {"none", "returned", "raised"}

\* Whatever sequence of calls and host failures came before, anything of the
\* plugin in the host is there because the Manager's list asked for it (or
\* VLLM_PLUGINS did, and no list is set): an entry in VLLM_PLUGINS never
\* overrides a list that leaves the plugin out.
NeverUninvited == Installed =>
    IF setting.bundles = Unset THEN setting.allowed
    ELSE setting.bundles \cap {"native", "school"} # {}

\* A host is touched only by the integration it qualifies for: native hooks
\* where both APIs are 1.0, School patches on pinned School sources with the
\* flag set, 0.23 patches on a 0.23 host; a host that is refused stays clean.
OnlyQualifiedHosts ==
    /\ processor \/ observer => host.requestApi = "1.0" /\ host.kvApi = "1.0"
    /\ school # 0 => setting.school /\ host.pinned /\ host.line = "school-0.28"
    /\ legacy # 0 => ~setting.school /\ host.line = "0.23"
    /\ school # 0 \/ legacy # 0 => "absent" \in {host.requestApi, host.kvApi}

OneComplete ==
    /\ registered <=> (processor /\ observer) \/ school = 1 \/ legacy = 1
    /\ school # 0 \/ legacy # 0 => ~processor /\ ~observer
    /\ school = 0 \/ legacy = 0

ReportFollows ==
    /\ ~registered => published = [loaded |-> setting.loaded, mode |-> setting.mode]
    /\ registered => published =
          [loaded |-> TRUE,
           mode   |-> IF school = 1 THEN "school028-recompute-only"
                      ELSE IF setting.mode # "none" THEN setting.mode
                      ELSE "prefix_cache_runtime_control"]

\* The process counts as registered exactly when one integration is complete: a
\* processor and an observer, or a single layer of an adapter's patches, and
\* never parts of two; a processor whose observer failed does not count, so the
\* next call may still complete it.  What the environment says follows: until
\* the plugin is registered it is what the process inherited, which tells
\* nothing of this process, and from then on it names the integration, unless a
\* mode was set before and the integration is not School's.
RegisteredMeansComplete == OneComplete /\ ReportFollows
=============================================================================
