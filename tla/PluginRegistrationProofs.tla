----------------------- MODULE PluginRegistrationProofs -----------------------
(***************************************************************************)
(* Machine-checked facts about register_plugin, for every environment and  *)
(* every host installation.                                                *)
(***************************************************************************)
EXTENDS PluginRegistration, TLAPS

\* What ties the hooks to the configuration: each kind was put there by the
\* integration the host takes, after a call that was asked for, and an observer
\* only by the call that completed it.
HooksExplained ==
    /\ Installed => ActivationRequested(setting)
    /\ processor \/ observer => Integration(setting, host) = "native"
    /\ observer => registered
    /\ school = 1 => Integration(setting, host) = "school"
    /\ legacy = 1 => Integration(setting, host) = "legacy"

\* The inductive invariant.
PluginInv ==
    /\ PluginTypeOK
    /\ RegisteredMeansComplete
    /\ HooksExplained

USE DEF RegisteredMeansComplete

LEMMA InitEstablishes == PluginInit => PluginInv
<1> SUFFICES ASSUME PluginInit PROVE PluginInv
  OBVIOUS
<1>1. /\ registered = FALSE /\ processor = FALSE /\ observer = FALSE
      /\ school = 0 /\ legacy = 0 /\ school # 1 /\ legacy # 1
  BY DEF PluginInit
<1>2. PluginTypeOK
  <2>1. setting.loaded \in BOOLEAN /\ setting.mode \in Modes
    BY SettingsAssumption DEF PluginInit, IsSetting
  <2> QED BY <2>1 DEF PluginInit, PluginTypeOK
<1>3. OneComplete
  BY <1>1, Zenon DEF OneComplete
<1>4. ReportFollows
  BY <1>1, Zenon DEF ReportFollows, PluginInit
<1>5. HooksExplained
  BY <1>1, Zenon DEF HooksExplained, Installed
<1> QED BY <1>2, <1>3, <1>4, <1>5 DEF PluginInv

\* A step that leaves the registration, the hooks and the configuration alone.
LEMMA HarmlessStepKeeps ==
    ASSUME PluginInv, UNCHANGED <<config, registered, hooks, published>>,
           last' \in {"none", "returned", "raised"}
    PROVE  PluginInv'
<1>1. UNCHANGED <<setting, host, registered, processor, observer, school, legacy, published>>
  BY DEF config, hooks
<1>2. PluginTypeOK'
  BY <1>1 DEF PluginInv, PluginTypeOK
<1>3. OneComplete' /\ ReportFollows'
  BY <1>1 DEF PluginInv, OneComplete, ReportFollows
<1>4. HooksExplained'
  BY <1>1 DEF PluginInv, HooksExplained, Installed
<1> QED BY <1>2, <1>3, <1>4 DEF PluginInv

\* Nothing but a processor left by a failed call is in the host of a process
\* that is not registered.
LEMMA UnregisteredIsBare ==
    ASSUME PluginInv, ~registered
    PROVE  ~observer /\ school = 0 /\ legacy = 0
<1>1. ~observer /\ school # 1 /\ legacy # 1
  BY Zenon DEF PluginInv, OneComplete, HooksExplained
<1> QED BY <1>1 DEF PluginInv, PluginTypeOK

LEMMA ObserverRaisesKeeps == PluginInv /\ ObserverRaises => PluginInv'
<1> SUFFICES ASSUME PluginInv, ObserverRaises PROVE PluginInv'
  OBVIOUS
<1>1. /\ ~registered /\ ActivationRequested(setting)
      /\ Integration(setting, host) = "native"
      /\ UNCHANGED <<setting, host, observer, school, legacy, registered, published>>
      /\ processor' = TRUE /\ last' = "raised"
  BY DEF ObserverRaises, Callable, Raise, config
<1>2. school = 0 /\ legacy = 0 /\ ~observer
  BY <1>1, UnregisteredIsBare
<1>3. PluginTypeOK'
  BY <1>1 DEF PluginInv, PluginTypeOK
<1>4. OneComplete'
  BY <1>1, <1>2 DEF OneComplete
<1>5. ReportFollows'
  BY <1>1 DEF PluginInv, ReportFollows
<1>6. HooksExplained'
  BY <1>1, <1>2 DEF HooksExplained
<1> QED BY <1>3, <1>4, <1>5, <1>6 DEF PluginInv

\* The three calls that register, by what they install and publish.
LEMMA RegisterKeeps ==
    ASSUME PluginInv, ~registered, ActivationRequested(setting),
           UNCHANGED config, registered' = TRUE, last' = "returned",
           NEW m, published' = [loaded |-> TRUE, mode |-> m],
           \/ /\ Integration(setting, host) = "native" /\ m = KeptMode
              /\ processor' = TRUE /\ observer' = TRUE /\ UNCHANGED <<school, legacy>>
           \/ /\ Integration(setting, host) = "school" /\ m = "school028-recompute-only"
              /\ school' = 1 /\ UNCHANGED <<processor, observer, legacy>>
           \/ /\ Integration(setting, host) = "legacy" /\ m = KeptMode
              /\ legacy' = 1 /\ UNCHANGED <<processor, observer, school>>
    PROVE  PluginInv'
<1>1. ~observer /\ school = 0 /\ legacy = 0 /\ setting' = setting /\ host' = host
  BY UnregisteredIsBare DEF config
<1>2. Integration(setting, host) # "native" => ~processor
  BY DEF PluginInv, HooksExplained
<1>3. published = [loaded |-> setting.loaded, mode |-> setting.mode]
  BY DEF PluginInv, ReportFollows
<1>4. KeptMode = IF setting.mode # "none" THEN setting.mode ELSE "prefix_cache_runtime_control"
  BY <1>3 DEF KeptMode
<1>5. PluginTypeOK'
  <2>1. setting.mode \in Modes
    BY SettingsAssumption DEF PluginInv, PluginTypeOK, IsSetting
  <2>2. m \in Modes
    BY <1>4, <2>1 DEF Modes
  <2> QED BY <1>1, <2>2 DEF PluginInv, PluginTypeOK
<1>6. OneComplete'
  BY <1>1, <1>2 DEF OneComplete
<1>7. ReportFollows'
  <2>1. m = IF school' = 1 THEN "school028-recompute-only"
            ELSE IF setting.mode # "none" THEN setting.mode
            ELSE "prefix_cache_runtime_control"
    BY <1>1, <1>4
  <2> QED BY <1>1, <2>1 DEF ReportFollows
<1>8. HooksExplained'
  BY <1>1, <1>2 DEF HooksExplained
<1> QED BY <1>5, <1>6, <1>7, <1>8 DEF PluginInv

LEMMA PluginInvHolds == PluginSpec => []PluginInv
<1>1. PluginInv /\ [PluginNext]_pluginVars => PluginInv'
  <2> SUFFICES ASSUME PluginInv, [PluginNext]_pluginVars PROVE PluginInv'
    OBVIOUS
  <2>1. CASE Decline \/ Refuse \/ ProcessorRaises \/ UNCHANGED pluginVars
    <3>1. UNCHANGED <<config, registered, hooks, published>>
          /\ last' \in {"none", "returned", "raised"}
      BY <2>1 DEF Decline, Refuse, ProcessorRaises, Raise, pluginVars, config, hooks,
                  PluginInv, PluginTypeOK
    <3> QED BY <3>1, HarmlessStepKeeps
  <2>2. CASE ObserverRaises
    BY <2>2, ObserverRaisesKeeps
  <2>3. CASE RegisterNative
    BY <2>3, RegisterKeeps DEF RegisterNative, Callable, Publish
  <2>4. CASE RegisterSchool
    <3>1. school = 0 /\ ~registered
      BY <2>4, UnregisteredIsBare DEF RegisterSchool, Callable
    <3> QED BY <2>4, <3>1, RegisterKeeps DEF RegisterSchool, Callable, Publish
  <2>5. CASE RegisterLegacy
    <3>1. legacy = 0 /\ ~registered
      BY <2>5, UnregisteredIsBare DEF RegisterLegacy, Callable
    <3> QED BY <2>5, <3>1, RegisterKeeps DEF RegisterLegacy, Callable, Publish
  <2> QED BY <2>1, <2>2, <2>3, <2>4, <2>5 DEF PluginNext
<1> QED BY <1>1, InitEstablishes, PTL DEF PluginSpec

\* However often register_plugin is called and whichever host calls raise, no
\* class of the host is wrapped twice.
THEOREM PluginTypeCorrect == PluginSpec => []PluginTypeOK
<1>1. PluginInv => PluginTypeOK
  BY DEF PluginInv
<1> QED BY <1>1, PluginInvHolds, PTL

\* _REGISTERED is set exactly when one integration is complete, and the
\* environment then says so; until then it says what was inherited.
THEOREM PluginRegisteredComplete == PluginSpec => []RegisteredMeansComplete
<1>1. PluginInv => RegisteredMeansComplete
  BY DEF PluginInv
<1> QED BY <1>1, PluginInvHolds, PTL

\* VLLM_PLUGINS alone never gets past a Manager list without the plugin.
THEOREM PluginNeverUninvited == PluginSpec => []NeverUninvited
<1>1. PluginInv => NeverUninvited
  BY DEF PluginInv, HooksExplained, NeverUninvited, ActivationRequested
<1> QED BY <1>1, PluginInvHolds, PTL

\* A host outside the qualified lines, versions and pins is never touched.
THEOREM PluginTouchesQualified == PluginSpec => []OnlyQualifiedHosts
<1>1. PluginInv => OnlyQualifiedHosts
  BY DEF PluginInv, PluginTypeOK, HooksExplained, OnlyQualifiedHosts, Integration, HasHooks,
     ApiAccepted, SchoolQualified, LegacyQualified
<1> QED BY <1>1, PluginInvHolds, PTL
=============================================================================
