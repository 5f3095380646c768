------------------------------ MODULE Startup ------------------------------
(***************************************************************************)
(* What jhis_init finds out before it starts the event manager: the        *)
(* settings, the type of the VM, the plugin for it and the version of the  *)
(* firmware (init.cpp, reg-linux.cpp, FWInfoLinux.cpp, jhi_plugin_loader). *)
(* The machine at that moment is the set of the things that exist or work: *)
(* paths, connections, calls that succeed.                                 *)
(***************************************************************************)
EXTENDS Naturals

CONSTANT conf   \* the settings in /etc/jhi/jhi.conf

\* Opening the device of the firmware update client and getting its answer,
\* in each of three attempts.
Opens == <<"opens 1", "opens 2", "opens 3">>
Answers == <<"answers 1", "answers 2", "answers 3">>

\* Everything a machine may have.
Things == {"/var/lib/intel/dal/applet_repository", "/var/lib/intel/dal/applets", "/usr/sbin",
           "/dev/dal0", "transport", "SDM", "IVM", "RTM", "teardown", "library", "symbol",
           "registers", "type", "setTransport", "pluginInit", "metadata"}
          \cup {Opens[i] : i \in 1..3} \cup {Answers[i] : i \in 1..3}

-----------------------------------------------------------------------------
(* ConfigFile: a setting, or its default.                                  *)
Setting(key, default) == IF key \in DOMAIN conf THEN conf[key] ELSE default

getTransportType ==
    LET s == Setting("transport", "MEI")
    IN CASE s = "SOCKET" -> "SOCKET"
         [] s = "KERNEL" -> "DAL_DEVICE"
         [] s = "AUTO" -> "AUTO"
         [] OTHER -> "TEE_LIB"
getAppRepoDir == Setting("app_repo_dir", "/var/lib/intel/dal/applet_repository")
getAppletsDir == Setting("applets_dir", "/var/lib/intel/dal/applets")

JhiQueryServiceFileLocationFromRegistry == "/usr/sbin"

JhiQueryTransportTypeFromRegistry(e) ==
    CASE getTransportType # "AUTO" -> getTransportType
      [] "/dev/dal0" \in e -> "DAL_DEVICE"
      [] OTHER -> "TEE_LIB"

JhiGetRegistryValues(e) ==
    CASE getAppRepoDir \notin e -> "JHI_ERROR_REPOSITORY_NOT_FOUND"
      [] JhiQueryServiceFileLocationFromRegistry \notin e -> "JHI_INTERNAL_ERROR"
      [] getAppletsDir \notin e -> "JHI_INTERNAL_ERROR"
      [] OTHER -> "JHI_SUCCESS"

-----------------------------------------------------------------------------
\* SDM answers on BHv2 only, IVM on both.
discoverVmType(transport, e) ==
    CASE "transport" \notin e \/ "teardown" \notin e -> "INVALID"
      [] "SDM" \in e -> "BEIHAI_V2"
      [] (IF transport = "SOCKET" THEN "RTM" ELSE "IVM") \in e -> "BEIHAI_V1"
      [] OTHER -> "INVALID"

JhiPlugin_Register(vmType, e) ==
    CASE vmType \notin {"BEIHAI_V1", "BEIHAI_V2"} -> "JHI_INTERNAL_ERROR"
      [] "library" \notin e -> "JHI_VM_DLL_FILE_NOT_FOUND"
      [] {"symbol", "registers", "type"} \subseteq e -> "JHI_SUCCESS"
      [] OTHER -> "JHI_VM_DLL_VERIFY_FAILED"

-----------------------------------------------------------------------------
(* The version of the firmware: 0 when it could not be had.                *)

discoverFwVersion(e) == IF "metadata" \in e THEN 1 ELSE 0

\* FWInfoLinux.  Disconnect leaves _isConnected set, so that a second
\* Connect does not open the device again.
FWInfo == [isConnected |-> FALSE, heciFd |-> "none"]
Connect(i, opens) ==
    CASE i.isConnected -> i
      [] opens -> [isConnected |-> TRUE, heciFd |-> "open"]
      [] OTHER -> [i EXCEPT !.heciFd = "none"]
GetFwVersion(i, answers) == i.isConnected /\ i.heciFd = "open" /\ answers
Disconnect(i) == IF i.isConnected THEN [i EXCEPT !.heciFd = "closed"] ELSE i

\* Three attempts at most, until one brings the version.
discoverFwVersionLegacy(e) ==
    LET after[n \in 0..3] ==
            IF n = 0 THEN [info |-> FWInfo, received |-> FALSE]
            ELSE LET i == Connect(after[n - 1].info, Opens[n] \in e)
                 IN CASE after[n - 1].received -> after[n - 1]
                      [] ~i.isConnected -> [info |-> i, received |-> FALSE]
                      [] OTHER -> [info |-> Disconnect(i),
                                   received |-> GetFwVersion(i, Answers[n] \in e)]
    IN IF after[3].received THEN 1 ELSE 0

=============================================================================
