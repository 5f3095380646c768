------------------------------- MODULE BHErrors -------------------------------
(***************************************************************************)
(* How the two VM plugins turn the codes of the Beihai host proxies (BPE_, *)
(* of the proxy itself; BHE_ and HAL_, of the firmware) into the codes of  *)
(* the JHI and of the TEE interface.  A group of codes with one            *)
(* translation stands in one set.                                          *)
(***************************************************************************)

(* The codes by which BHP_* and BH_Plugin* report a lost or absent VM. *)
NoConnection == {"BPE_COMMS_ERROR", "BPE_NOT_INIT", "BPE_NO_CONNECTION_TO_FIRMWARE"}

(* The codes with which the firmware reports the death of a session to the proxies. *)
SessionKilled == {"BHE_WD_TIMEOUT", "BHE_UNCAUGHT_EXCEPTION", "BHE_APPLET_CRASHED"}

SmallBuffer == {"BHE_INSUFFICIENT_BUFFER", "BHE_APPLET_SMALL_BUFFER", "HAL_BUFFER_TOO_SMALL"}

NotAuthentic == {"HAL_ILLEGAL_SIGNATURE", "HAL_ILLEGAL_VERSION", "HAL_FW_VERSION_MISMATCH"}

Unsupported == {"HAL_UNSUPPORTED_CPU_TYPE", "HAL_UNSUPPORTED_PCH_TYPE",
                "HAL_UNSUPPORTED_FEATURE_SET", "HAL_UNSUPPORTED_PLATFORM_TYPE"}

(* Codes of beihaiToJhiError that have a translation of their own. *)
ToJhi ==
  [BH_SUCCESS |-> "JHI_SUCCESS",
   BPE_INVALID_PARAMS |-> "JHI_INVALID_PARAMS",
   BPE_INVALID_SESSION_HANDLE |-> "JHI_INVALID_SESSION_HANDLE",
   BHE_WD_TIMEOUT |-> "JHI_APPLET_TIMEOUT",
   BHE_LOAD_JEFF_FAIL |-> "JHI_TA_PLATFORM_MISMATCH",
   BHE_SDM_SVL_CHECK_FAIL |-> "JHI_SVL_CHECK_FAIL",
   BHE_SDM_SVN_CHECK_FAIL |-> "JHI_SVN_CHECK_FAIL",
   HAL_TA_ENCRYPTION_KEY_NOT_SET |-> "JHI_TA_ENCRYPTION_KEY_NOT_SET",
   BHE_EXIST_LIVE_SESSION |-> "JHI_UNINSTALL_FAILURE_SESSIONS_EXISTS",
   BHE_QUERY_PROP_NOT_SUPPORT |-> "JHI_APPLET_PROPERTY_NOT_SUPPORTED",
   BHE_IAC_SERVICE_HOST_SESSION_NUM_EXCEED |-> "JHI_IAC_SERVER_SESSION_EXIST",
   BHE_IAC_EXIST_INTERNAL_SESSION |-> "JHI_IAC_SERVER_INTERNAL_SESSIONS_EXIST",
   BHE_GROUP_CHECK_FAIL |-> "JHI_MISSING_ACCESS_CONTROL",
   BHE_SESSION_NUM_EXCEED |-> "JHI_MAX_SESSIONS_REACHED",
   HAL_ILLEGAL_PLATFORM_ID |-> "JHI_ILLEGAL_PLATFORM_ID",
   BHE_ONLY_SINGLE_INSTANCE_ALLOWED |-> "JHI_ONLY_SINGLE_INSTANCE_ALLOWED",
   BHE_SDM_SD_INTERFACE_DISABLED |-> "JHI_ERROR_OEM_SIGNING_DISABLED",
   BHE_SDM_SD_PUBLICKEY_HASH_VERIFY_FAIL |-> "JHI_ERROR_SD_PUBLICKEY_HASH_FAILED",
   BHE_SDM_SD_DB_NO_FREE_SLOT |-> "JHI_ERROR_SD_DB_NO_FREE_SLOT",
   BHE_SDM_TA_INSTALL_UNALLOWED |-> "JHI_ERROR_SD_TA_INSTALLATION_UNALLOWED",
   BHE_OPERATION_NOT_PERMITTED |-> "JHI_OPERATION_NOT_PERMITTED"]

(* A plausible slip in the table: the case of an uncaught exception is missing. *)
Fatal2_NoException == {"BHE_APPLET_CRASHED", "HAL_OUT_OF_MEMORY", "HAL_TIMED_OUT",
                       "BHE_APPLET_GENERIC", "BHE_BAD_STATE"}

(* The dead-session codes of the JHI interface: for these sar.cpp removes its record. *)
Fatal2 == (SessionKilled \ {"BHE_WD_TIMEOUT"}) \cup
          {"HAL_OUT_OF_MEMORY", "HAL_TIMED_OUT", "BHE_APPLET_GENERIC", "BHE_BAD_STATE"}

beihaiToJhiError(c, default) ==
  CASE c \in DOMAIN ToJhi -> ToJhi[c]
    [] c \in SmallBuffer -> "JHI_INSUFFICIENT_BUFFER"
    [] c \in NoConnection -> "JHI_NO_CONNECTION_TO_FIRMWARE"
    [] c \in {"BHE_VM_INSTANCE_INIT_FAIL", "BHE_OUT_OF_MEMORY"} -> "JHI_FIRMWARE_OUT_OF_RESOURCES"
    [] c \in Fatal2 -> "JHI_APPLET_FATAL"
    [] c \in NotAuthentic \cup Unsupported \cup {"BHE_SDM_SIGNATURE_VERIFY_FAIL"} ->
         "JHI_FILE_ERROR_AUTH"
    [] c \in {"BHE_TA_PACKAGE_HASH_VERIFY_FAIL", "BHE_INVALID_BPK_FILE", "BPE_INVALID_BPK_FILE"} ->
         "JHI_INVALID_PACKAGE_FORMAT"
    [] c \in {"HAL_ALREADY_INSTALLED", "BHE_SDM_ALREADY_EXIST"} -> "JHI_FILE_IDENTICAL"
    [] c \in {"HAL_OUT_OF_RESOURCES", "BHE_SDM_TA_NUMBER_LIMIT"} ->
         "JHI_MAX_INSTALLED_APPLETS_REACHED"
    [] c \in {"BHE_TA_PACKAGE_HMAC_VERIFY_FAIL", "BHE_PACKAGE_NOT_FOUND", "BHE_SDM_NOT_FOUND"} ->
         "JHI_APPLET_NOT_INSTALLED"
    [] OTHER -> default

(* Codes of beihaiToTeeError that have a translation of their own. *)
ToTee ==
  [BH_SUCCESS |-> "TEE_STATUS_SUCCESS",
   BPE_INVALID_PARAMS |-> "TEE_STATUS_INVALID_PARAMS",
   BHE_SDM_SVL_DB_NO_FREE_SLOT |-> "TEE_STATUS_MAX_SVL_RECORDS",
   BHE_SDM_SVL_CHECK_FAIL |-> "TEE_STATUS_SVL_CHECK_FAIL",
   BHE_SDM_SVN_CHECK_FAIL |-> "TEE_STATUS_INVALID_TA_SVN",
   BHE_LOAD_JEFF_FAIL |-> "TEE_STATUS_TA_PLATFORM_MISMATCH",
   BHE_SDM_ALREADY_EXIST |-> "TEE_STATUS_IDENTICAL_PACKAGE",
   BHE_EXIST_LIVE_SESSION |-> "TEE_STATUS_CMD_FAILURE_SESSIONS_EXISTS",
   BHE_SDM_SD_NOT_FOUND |-> "TEE_STATUS_SD_SD_DOES_NOT_EXIST",
   BHE_GROUP_CHECK_FAIL |-> "TEE_STATUS_MISSING_ACCESS_CONTROL",
   HAL_ILLEGAL_PLATFORM_ID |-> "TEE_STATUS_ILLEGAL_PLATFORM_ID",
   BHE_SDM_SD_INTERFACE_DISABLED |-> "TEE_STATUS_SD_INTERFCE_DISABLED",
   BHE_SDM_SD_PUBLICKEY_HASH_VERIFY_FAIL |-> "TEE_STATUS_SD_PUBLICKEY_HASH_VERIFY_FAIL",
   BHE_SDM_SD_DB_NO_FREE_SLOT |-> "TEE_STATUS_SD_DB_NO_FREE_SLOT",
   BHE_SDM_SD_INSTALL_UNALLOWED |-> "TEE_STATUS_SD_SD_INSTALL_UNALLOWED",
   HAL_PLATFORM_AFTER_EOM |-> "TEE_STATUS_PLATFORM_AFTER_EOM",
   HAL_MAX_INVOCATIONS |-> "TEE_STATUS_MAX_INVOCATIONS",
   HAL_COUNTER_MISMATCH |-> "TEE_STATUS_COUNTER_MISMATCH",
   HAL_TA_ENCRYPTION_KEY_NOT_SET |-> "TEE_STATUS_TA_ENCRYPTION_KEY_NOT_SET",
   HAL_OMK_NOT_PROVISIONED |-> "TEE_STATUS_OMK_NOT_PROVISIONED",
   HAL_TA_ENCRYPTION_KEY_INVALID |-> "TEE_STATUS_TA_ENCRYPTION_KEY_INVALID"]

beihaiToTeeError(c, default) ==
  CASE c \in DOMAIN ToTee -> ToTee[c]
    [] c \in NoConnection -> "TEE_STATUS_NO_FW_CONNECTION"
    [] c \in Unsupported -> "TEE_STATUS_UNSUPPORTED_PLATFORM"
    [] c \in NotAuthentic \cup {"BHE_SDM_SIGNATURE_VERIFY_FAIL"} -> "TEE_STATUS_INVALID_SIGNATURE"
    [] c \in {"BHE_INVALID_BPK_FILE", "BPE_INVALID_BPK_FILE", "BHE_TA_PACKAGE_HASH_VERIFY_FAIL"} ->
         "TEE_STATUS_INVALID_PACKAGE"
    [] c \in {"HAL_OUT_OF_RESOURCES", "BHE_SDM_TA_NUMBER_LIMIT"} -> "TEE_STATUS_MAX_TAS_REACHED"
    [] c \in {"BHE_PACKAGE_NOT_FOUND", "BHE_SDM_NOT_FOUND"} -> "TEE_STATUS_TA_DOES_NOT_EXIST"
    [] c \in {"BHE_SDM_SVL_UPDATE_UNALLOWED", "BHE_SDM_TA_INSTALL_UNALLOWED"} ->
         "TEE_STATUS_SD_TA_INSTALLATION_UNALLOWED"
    [] c \in {"BHE_SDM_SD_INVALID_PROPERTIES", "BHE_SDM_PERMGROUP_CHECK_FAIL"} ->
         "TEE_STATUS_SD_INVALID_PROPERTIES"
    [] OTHER -> default

(* The first plugin's table: a watchdog timeout is fatal there, and only a     *)
(* BPE_NO_CONNECTION_TO_FIRMWARE of init reports that the firmware is away.    *)
ToJhi1 ==
  [BH_SUCCESS |-> "JHI_SUCCESS",
   BPE_INVALID_SESSION_HANDLE |-> "JHI_INVALID_SESSION_HANDLE",
   BHE_APPLET_BAD_STATE |-> "JHI_APPLET_BAD_STATE",
   BPE_NO_CONNECTION_TO_FIRMWARE |-> "JHI_NO_CONNECTION_TO_FIRMWARE",
   BHE_LOAD_JEFF_FAIL |-> "JHI_TA_PLATFORM_MISMATCH",
   BHE_INVALID_BPK_FILE |-> "JHI_BAD_APPLET_FORMAT",
   HAL_ALREADY_INSTALLED |-> "JHI_FILE_IDENTICAL",
   BHE_EXIST_LIVE_SESSION |-> "JHI_INSTALL_FAILURE_SESSIONS_EXISTS",
   BHE_QUERY_PROP_NOT_SUPPORT |-> "JHI_APPLET_PROPERTY_NOT_SUPPORTED",
   BHE_PACKAGE_NOT_FOUND |-> "JHI_APPLET_NOT_INSTALLED"]

JhiErrorTranslate(c, default) ==
  CASE c \in DOMAIN ToJhi1 -> ToJhi1[c]
    [] c \in SmallBuffer -> "JHI_INSUFFICIENT_BUFFER"
    [] c \in SessionKilled \cup {"HAL_OUT_OF_MEMORY", "HAL_TIMED_OUT"} -> "JHI_APPLET_FATAL"
    [] c \in NotAuthentic \cup Unsupported -> "JHI_APPLET_AUTHENTICATION_FAILURE"
    [] c \in {"HAL_OUT_OF_RESOURCES", "HAL_OUT_OF_STORAGE"} -> "JHI_MAX_INSTALLED_APPLETS_REACHED"
    [] OTHER -> default
==============================================================================
