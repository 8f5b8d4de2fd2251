------------------------ MODULE MCPluginRegistration ------------------------
(* Every environment and every host of PluginRegistration. *)
EXTENDS PluginRegistration

AllSettings == [bundles : SUBSET Bundles \cup {Unset}, allowed : BOOLEAN, school : BOOLEAN,
                loaded : BOOLEAN, mode : Modes]
AllHosts == [requestApi : Apis, kvApi : Apis, line : Lines, pinned : BOOLEAN,
             patchable : BOOLEAN]
=============================================================================
