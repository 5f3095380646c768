------------------------------ MODULE Protocol ------------------------------
(***************************************************************************)
(* The wire protocol between libjhi and the JHI service, as functions of   *)
(* lengths: what CommandInvoker.cpp puts into a command, what each Invoke* *)
(* of CommandDispatcher.cpp demands of it before it calls its handler,     *)
(* what the service puts into the response, and what CommandInvoker        *)
(* accepts of that.  Lengths are exact; the bytes they count are not       *)
(* modelled, except for what the service tests (the id of the applet, a    *)
(* zero handle).                                                           *)
(***************************************************************************)
EXTENDS Integers, FiniteSets

\* The sizes of the packed structures of the protocol, on a 64 bit Linux.
sizeof ==
    [JHI_COMMAND |-> 6, JHI_RESPONSE |-> 9, APP_ID |-> 33, SESSION_ID |-> 16,
     JHI_CMD_INSTALL |-> 38, JHI_CMD_CREATE_SESSION |-> 54,
     RES_CREATE_SESSION |-> 16, RES_GET_SESSIONS_COUNT |-> 4,
     JHI_CMD_CLOSE_SESSION |-> 29, CMD_SET_SESSION_EVENT_HANDLER |-> 21,
     RES_GET_SESSION_INFO |-> 88, RES_GET_EVENT_DATA |-> 6,
     CMD_SEND_AND_RECIEVE |-> 29, RES_SEND_AND_RECIEVE |-> 9,
     CMD_GET_APPLET_PROPERTY |-> 42, RES_GET_APPLET_PROPERTY |-> 5,
     JHI_VERSION_INFO |-> 188, SD_HANDLE |-> 8, CMD_SEND_CMD_PKG |-> 13,
     RES_LIST_INSTALLED |-> 5, RES_QUERY_TEE_METADATA |-> 5,
     dal_tee_metadata |-> 160, tee_asym_key_material |-> 1040,
     tee_key_material |-> 1060, RES_TABLE |-> 16, SESSION_EXTENDED_INFO |-> 152,
     JHI_PROCESS_INFO |-> 12]

JHI_BUFFER_MAX == 2097152
JHI_MAX_TRANSPORT_DATA_SIZE == 5242880
FILENAME_MAX == 4096
JHI_EVENT_HANDLE_SIZE == 88

-----------------------------------------------------------------------------
(* Calls, commands and responses.  A call is what the application asks of  *)
(* libjhi: a command, the applet it names, the lengths of the buffers it   *)
(* passes, and whether the security domain handle it passes is NULL.       *)

Call(id, appId, n, m) == [id |-> id, appId |-> appId, n |-> n, m |-> m]

\* A command on the wire: the header, and the fields the service looks at.
Command(id, dataLength, appId, n, m) ==
    [id |-> id, dataLength |-> dataLength, appId |-> appId, n |-> n, m |-> m]

\* A handler's result: its code, and the length or count of the data it
\* hands back (a handle, for the security domain sessions).  JHI_SUCCESS
\* and TEE_STATUS_SUCCESS are both 0.
Result(code, n) == [code |-> code, n |-> n]

\* What an Invoke* of the service does with a command: it either calls its
\* handler, and the code is the handler's, or it refuses the command.
Refuse(code) == [called |-> FALSE, code |-> code, n |-> 0]
Outcome(wellFormed, err, h) ==
    IF wellFormed THEN [called |-> TRUE, code |-> h.code, n |-> h.n] ELSE Refuse(err)

\* A command that names an applet may not name the spooler.
verifyAppID(c) == c.appId # "spooler"

OutcomeForApp(wellFormed, c, h) ==
    IF wellFormed /\ ~verifyAppID(c)
    THEN Refuse("JHI_INVALID_APPLET_GUID")
    ELSE Outcome(wellFormed, "JHI_INTERNAL_ERROR", h)

\* The security domain interface exists on the second VM only.
OutcomeForSD(vmType, wellFormed, h) ==
    IF vmType # "BEIHAI_V2" THEN Refuse("TEE_STATUS_UNSUPPORTED_PLATFORM")
    ELSE Outcome(wellFormed, "TEE_STATUS_INTERNAL_ERROR", h)

\* A response: "size" is the length the service sends ahead of it, n the
\* length or count field of its body; whether a handler was called is kept
\* for the properties.
Response(o, dataLength, size) ==
    [called |-> o.called, retCode |-> o.code, dataLength |-> dataLength, size |-> size, n |-> o.n]

HeaderOnly(o) == Response(o, sizeof.JHI_RESPONSE, sizeof.JHI_RESPONSE)

WithBody(o, body) == Response(o, sizeof.JHI_RESPONSE + body, sizeof.JHI_RESPONSE + body)

\* The service could not allocate the response, and sends a length of 0.
NoResponse(o) == Response(o, 0, 0)

-----------------------------------------------------------------------------
(* The commands libjhi builds.  The argument is a call whose arguments the *)
(* API function has accepted.                                              *)

JhisInit(a) == Command("INIT", sizeof.JHI_COMMAND, a.appId, 0, 0)

\* a.n is the length of the file name, without its terminator.
JhisInstall(a) ==
    LET SrcFile_size == a.n + 1
    IN Command("INSTALL",
               sizeof.JHI_COMMAND + sizeof.JHI_CMD_INSTALL + SrcFile_size - 2,
               a.appId, SrcFile_size, 0)

JhisUninstall(a) ==
    Command("UNINSTALL", sizeof.JHI_COMMAND + sizeof.APP_ID - 1, a.appId, 0, 0)

JhisGetSessionsCount(a) ==
    Command("GET_SESSIONS_COUNT", sizeof.JHI_COMMAND + sizeof.APP_ID - 1, a.appId, 0, 0)

\* A structure that ends in data[1] already counts one byte of its buffer.
WithBuffer(struct, len) == sizeof.JHI_COMMAND + struct + len - (IF len = 0 THEN 1 ELSE 2)

JhisCreateSession(a) ==
    Command("CREATE_SESSION", WithBuffer(sizeof.JHI_CMD_CREATE_SESSION, a.n), a.appId, a.n, 0)

JhisCloseSession(a) ==
    Command("CLOSE_SESSION", sizeof.JHI_COMMAND + sizeof.JHI_CMD_CLOSE_SESSION - 1, a.appId, 0, 0)

JhisGetSessionInfo(a) ==
    Command("GET_SESSION_INFO", sizeof.JHI_COMMAND + sizeof.SESSION_ID - 1, a.appId, 0, 0)

\* a.n is the length of the name of the event handle, 0 to unregister.
JhisSetSessionEventHandler(a) ==
    LET handleName_size == a.n + 1
    IN Command("SET_SESSION_EVENT_HANDLER",
               sizeof.JHI_COMMAND + sizeof.CMD_SET_SESSION_EVENT_HANDLER + handleName_size - 2,
               a.appId, handleName_size, 0)

JhisGetEventData(a) ==
    Command("GET_EVENT_DATA", sizeof.JHI_COMMAND + sizeof.SESSION_ID - 1, a.appId, 0, 0)

JhisSendAndRecv(a) ==
    Command("SEND_AND_RECIEVE", WithBuffer(sizeof.CMD_SEND_AND_RECIEVE, a.n), a.appId, a.n, a.m)

\* Character lengths become buffer lengths, before they are put on the wire.
JhisGetAppletProperty(a) ==
    Command("GET_APPLET_PROPERTY",
            sizeof.JHI_COMMAND + sizeof.CMD_GET_APPLET_PROPERTY + (a.n + 1)
                - (IF a.n = 0 THEN 1 ELSE 2),
            a.appId, a.n + 1, a.m + 1)

JhisGetVersionInfo(a) == Command("GET_VERSION_INFO", sizeof.JHI_COMMAND, a.appId, 0, 0)

\* The security domain commands: m is the handle, 0 for NULL.
JhisOpenSDSession(a) ==
    Command("CREATE_SD_SESSION", sizeof.JHI_COMMAND - 1 + sizeof.APP_ID, a.appId, 0, 0)

JhisCloseSDSession(a) ==
    Command("CLOSE_SD_SESSION", sizeof.JHI_COMMAND - 1 + sizeof.SD_HANDLE, a.appId, 0, a.m)

JhisSendAdminCmdPkg(a) ==
    Command("SEND_CMD_PKG", sizeof.JHI_COMMAND - 1 + sizeof.CMD_SEND_CMD_PKG - 1 + a.n,
            a.appId, a.n, a.m)

JhisListInstalledTAs(a) ==
    Command("LIST_INSTALLED_TAS", sizeof.JHI_COMMAND - 1 + sizeof.SD_HANDLE, a.appId, 0, a.m)

JhisListInstalledSDs(a) ==
    Command("LIST_INSTALLED_SDS", sizeof.JHI_COMMAND - 1 + sizeof.SD_HANDLE, a.appId, 0, a.m)

JhisQueryTEEMetadata(a) == Command("QUERY_TEE_METADATA", sizeof.JHI_COMMAND, a.appId, 0, 0)

JhisProvisionOemMasterKey(a) ==
    Command("PROVISION_OEM_MASTER_KEY", sizeof.JHI_COMMAND - 1 + sizeof.tee_asym_key_material,
            a.appId, 0, 0)

JhisSetTAEncryptionKey(a) ==
    Command("SET_TA_ENCRYPTION_KEY", sizeof.JHI_COMMAND - 1 + sizeof.tee_key_material,
            a.appId, 0, 0)

JhisGetSessionTable(a) == Command("GET_SESSIONS_DATA_TABLE", sizeof.JHI_COMMAND, a.appId, 0, 0)

JhisGetLoadedAppletsList(a) == Command("GET_LOADED_APPLETS", sizeof.JHI_COMMAND, a.appId, 0, 0)

-----------------------------------------------------------------------------
(* The Invoke* functions of the service: c is the command received in      *)
(* "size" bytes, h the result its handler gives if it is called.           *)

Exactly(c, size, len) == c.dataLength = size /\ size = len

InvokeInit(c, size, h) ==
    HeaderOnly(Outcome(size = sizeof.JHI_COMMAND, "JHI_INTERNAL_ERROR", Result("SUCCESS", 0)))

InvokeInstall(c, size, h) ==
    HeaderOnly(OutcomeForApp(
        /\ size >= sizeof.JHI_COMMAND + sizeof.JHI_CMD_INSTALL - 1
        /\ c.n >= 1
        /\ c.n <= FILENAME_MAX + 1
        /\ Exactly(c, size, sizeof.JHI_COMMAND + sizeof.JHI_CMD_INSTALL + c.n - 2), c, h))

InvokeUninstall(c, size, h) ==
    HeaderOnly(OutcomeForApp(Exactly(c, size, sizeof.JHI_COMMAND + sizeof.APP_ID - 1), c, h))

InvokeGetSessionsCount(c, size, h) ==
    WithBody(OutcomeForApp(Exactly(c, size, sizeof.JHI_COMMAND + sizeof.APP_ID - 1), c, h),
             sizeof.RES_GET_SESSIONS_COUNT)

InvokeCreateSession(c, size, h) ==
    WithBody(OutcomeForApp(
        /\ size >= sizeof.JHI_COMMAND + sizeof.JHI_CMD_CREATE_SESSION - 1
        /\ c.n <= JHI_BUFFER_MAX
        /\ Exactly(c, size, WithBuffer(sizeof.JHI_CMD_CREATE_SESSION, c.n)), c, h),
             sizeof.RES_CREATE_SESSION)

InvokeCloseSession(c, size, h) ==
    HeaderOnly(Outcome(Exactly(c, size, sizeof.JHI_COMMAND + sizeof.JHI_CMD_CLOSE_SESSION - 1),
                       "JHI_INTERNAL_ERROR", h))

InvokeSetSessionEventHandler(c, size, h) ==
    HeaderOnly(Outcome(
        /\ size >= sizeof.JHI_COMMAND + sizeof.CMD_SET_SESSION_EVENT_HANDLER - 1
        /\ c.n >= 1
        /\ c.n <= JHI_EVENT_HANDLE_SIZE
        /\ Exactly(c, size, sizeof.JHI_COMMAND + sizeof.CMD_SET_SESSION_EVENT_HANDLER + c.n - 2),
                       "JHI_INTERNAL_ERROR", h))

InvokeGetSessionInfo(c, size, h) ==
    WithBody(Outcome(Exactly(c, size, sizeof.JHI_COMMAND + sizeof.SESSION_ID - 1),
                     "JHI_INTERNAL_ERROR", h), sizeof.RES_GET_SESSION_INFO)

InvokeGetSessionEventData(c, size, h) ==
    LET o == Outcome(Exactly(c, size, sizeof.JHI_COMMAND + sizeof.SESSION_ID - 1),
                     "JHI_INTERNAL_ERROR", h)
    IN WithBody(o, sizeof.RES_GET_EVENT_DATA + o.n)

\* A buffer too large has a code of its own.
BuffersFit(c) == c.n <= JHI_BUFFER_MAX /\ c.m <= JHI_BUFFER_MAX

\* Mutant: the length that was needed is taken for the length of the data.
BufferResponse_AnyCode(o, struct) ==
    IF o.called THEN WithBody(o, struct + o.n) ELSE HeaderOnly(o)

\* The response of a handler that exchanges buffers: the data come with a
\* success only; a command refused has no body at all.
BufferResponse(o, struct) ==
    IF o.called THEN WithBody(o, struct + (IF o.code = "SUCCESS" THEN o.n ELSE 0))
    ELSE HeaderOnly(o)

InvokeSendAndRecieve(c, size, h) ==
    LET enough == /\ c.dataLength = size
                  /\ size >= sizeof.JHI_COMMAND + sizeof.CMD_SEND_AND_RECIEVE - 1
        o == IF enough /\ ~BuffersFit(c) THEN Refuse("JHI_INVALID_BUFFER_SIZE")
             ELSE Outcome(enough /\ size = WithBuffer(sizeof.CMD_SEND_AND_RECIEVE, c.n),
                          "JHI_INTERNAL_ERROR", h)
    IN BufferResponse(o, sizeof.RES_SEND_AND_RECIEVE)

InvokeGetAppletProperty(c, size, h) ==
    LET enough == /\ c.dataLength = size
                  /\ size >= sizeof.JHI_COMMAND + sizeof.CMD_GET_APPLET_PROPERTY - 1
        o == IF enough /\ ~BuffersFit(c) THEN Refuse("JHI_INVALID_BUFFER_SIZE")
             ELSE OutcomeForApp(enough /\ size = WithBuffer(sizeof.CMD_GET_APPLET_PROPERTY, c.n),
                                c, h)
    IN BufferResponse(o, sizeof.RES_GET_APPLET_PROPERTY)

InvokeGetVersionInfo(c, size, h) ==
    WithBody(Outcome(size = sizeof.JHI_COMMAND, "JHI_INTERNAL_ERROR", Result("SUCCESS", 0)),
             sizeof.JHI_VERSION_INFO)

\* n is the handle: a success with a NULL handle keeps the longer response
\* and loses its code.
InvokeOpenSDSession(vmType, c, size, h) ==
    LET o == OutcomeForSD(vmType, /\ c.dataLength = size
                                  /\ size >= sizeof.JHI_COMMAND - 1 + sizeof.APP_ID, h)
    IN IF o.code # "SUCCESS" THEN HeaderOnly(o)
       ELSE WithBody(IF o.n = 0 THEN [o EXCEPT !.code = "TEE_STATUS_INTERNAL_ERROR"] ELSE o,
                     sizeof.SD_HANDLE - 1)

InvokeCloseSDSession(vmType, c, size, h) ==
    HeaderOnly(OutcomeForSD(vmType, /\ c.dataLength = size
                                    /\ size >= sizeof.JHI_COMMAND + sizeof.SD_HANDLE - 1
                                    /\ c.m # 0, h))

InvokeSendCmdPkg(vmType, c, size, h) ==
    HeaderOnly(OutcomeForSD(vmType,
        /\ c.n # 0
        /\ c.m # 0
        /\ Exactly(c, size, sizeof.JHI_COMMAND - 1 + sizeof.CMD_SEND_CMD_PKG - 1 + c.n), h))

\* The ids of the list follow each other, with a terminator behind the last.
ListResponse(o) ==
    IF o.code = "SUCCESS"
    THEN WithBody(o, (sizeof.RES_LIST_INSTALLED - 1) + o.n * sizeof.APP_ID)
    ELSE HeaderOnly(o)

InvokeListInstalledTAs(vmType, c, size, h) ==
    ListResponse(OutcomeForSD(vmType, /\ c.dataLength = size
                                      /\ size >= sizeof.JHI_COMMAND - 1 + sizeof.SD_HANDLE
                                      /\ c.m # 0, h))

InvokeListInstalledSDs(vmType, c, size, h) ==
    ListResponse(OutcomeForSD(vmType, /\ c.dataLength = size
                                      /\ size >= sizeof.JHI_COMMAND - 1 + sizeof.SD_HANDLE
                                      /\ c.m # 0, h))

InvokeQueryTeeMetadata(vmType, c, size, h) ==
    LET o == OutcomeForSD(vmType, c.dataLength = size /\ size >= sizeof.JHI_COMMAND, h)
    IN IF o.code = "SUCCESS"
       THEN WithBody(o, sizeof.RES_QUERY_TEE_METADATA - 2 + o.n) ELSE HeaderOnly(o)

InvokeProvisionOemMasterKey(vmType, c, size, h) ==
    HeaderOnly(OutcomeForSD(vmType,
        Exactly(c, size, sizeof.JHI_COMMAND - 1 + sizeof.tee_asym_key_material), h))

InvokeSetTAEncryptionKey(vmType, c, size, h) ==
    HeaderOnly(OutcomeForSD(vmType,
        Exactly(c, size, sizeof.JHI_COMMAND - 1 + sizeof.tee_key_material), h))

\* The emulation's two tables: an error is sent in a header whose length
\* field is 0.  Every session of the table has one owner here.
InvokeGetSessionDataTable(c, size, h) ==
    LET o == Outcome(Exactly(c, size, sizeof.JHI_COMMAND), "JHI_INTERNAL_ERROR", h)
    IN IF ~o.called THEN NoResponse(o)
       ELSE IF o.code # "SUCCESS" THEN Response(o, 0, sizeof.JHI_RESPONSE)
       ELSE WithBody(o, sizeof.RES_TABLE
                        + o.n * (sizeof.SESSION_EXTENDED_INFO + sizeof.JHI_PROCESS_INFO))

InvokeGetLoadedApplets(c, size, h) ==
    LET o == Outcome(c.dataLength = size, "JHI_INTERNAL_ERROR", h)
    IN IF o.code # "SUCCESS" THEN Response(o, 0, sizeof.JHI_RESPONSE)
       ELSE WithBody(o, sizeof.RES_TABLE + o.n * sizeof.APP_ID)

\* processCommand, once the state of the service (see Service) lets the
\* command through.
Dispatch(vmType, c, size, h) ==
    CASE c.id = "INIT" -> InvokeInit(c, size, h)
      [] c.id = "INSTALL" -> InvokeInstall(c, size, h)
      [] c.id = "UNINSTALL" -> InvokeUninstall(c, size, h)
      [] c.id = "SEND_AND_RECIEVE" -> InvokeSendAndRecieve(c, size, h)
      [] c.id = "CREATE_SESSION" -> InvokeCreateSession(c, size, h)
      [] c.id = "CLOSE_SESSION" -> InvokeCloseSession(c, size, h)
      [] c.id = "GET_SESSIONS_COUNT" -> InvokeGetSessionsCount(c, size, h)
      [] c.id = "GET_SESSION_INFO" -> InvokeGetSessionInfo(c, size, h)
      [] c.id = "SET_SESSION_EVENT_HANDLER" -> InvokeSetSessionEventHandler(c, size, h)
      [] c.id = "GET_EVENT_DATA" -> InvokeGetSessionEventData(c, size, h)
      [] c.id = "GET_APPLET_PROPERTY" -> InvokeGetAppletProperty(c, size, h)
      [] c.id = "GET_VERSION_INFO" -> InvokeGetVersionInfo(c, size, h)
      [] c.id = "LIST_INSTALLED_TAS" -> InvokeListInstalledTAs(vmType, c, size, h)
      [] c.id = "LIST_INSTALLED_SDS" -> InvokeListInstalledSDs(vmType, c, size, h)
      [] c.id = "CREATE_SD_SESSION" -> InvokeOpenSDSession(vmType, c, size, h)
      [] c.id = "CLOSE_SD_SESSION" -> InvokeCloseSDSession(vmType, c, size, h)
      [] c.id = "SEND_CMD_PKG" -> InvokeSendCmdPkg(vmType, c, size, h)
      [] c.id = "QUERY_TEE_METADATA" -> InvokeQueryTeeMetadata(vmType, c, size, h)
      [] c.id = "PROVISION_OEM_MASTER_KEY" -> InvokeProvisionOemMasterKey(vmType, c, size, h)
      [] c.id = "SET_TA_ENCRYPTION_KEY" -> InvokeSetTAEncryptionKey(vmType, c, size, h)
      [] c.id = "GET_SESSIONS_DATA_TABLE" -> InvokeGetSessionDataTable(c, size, h)
      [] c.id = "GET_LOADED_APPLETS" -> InvokeGetLoadedApplets(c, size, h)

-----------------------------------------------------------------------------
(* What CommandInvoker makes of a response: the code it returns and the    *)
(* length, count or handle it delivers.  The transport has checked that    *)
(* the response is at least a header.                                      *)

Got(ret, n) == [ret |-> ret, n |-> n]
Invalid == Got("JHI_INTERNAL_ERROR", 0)
Whole(r) == r.size = r.dataLength

\* A command that only has a code: the response is exactly a header.
CodeOnly(r) == IF r.size = sizeof.JHI_RESPONSE /\ Whole(r) THEN Got(r.retCode, 0) ELSE Invalid

\* A command with a fixed structure, delivered if the length is right.
CodeAnd(struct, r) ==
    IF ~Whole(r) THEN Invalid
    ELSE Got(r.retCode, IF r.size = sizeof.JHI_RESPONSE + struct THEN r.n ELSE 0)

JhisInit_r(r) == CodeOnly(r)
JhisInstall_r(r) == CodeOnly(r)
JhisUninstall_r(r) == CodeOnly(r)
JhisCloseSession_r(r) == CodeOnly(r)
JhisSetSessionEventHandler_r(r) == CodeOnly(r)
JhisGetSessionsCount_r(r) == CodeAnd(sizeof.RES_GET_SESSIONS_COUNT, r)
JhisCreateSession_r(r) == CodeAnd(sizeof.RES_CREATE_SESSION, r)
JhisGetSessionInfo_r(r) == CodeAnd(sizeof.RES_GET_SESSION_INFO, r)

JhisGetEventData_r(r) ==
    IF ~Whole(r) THEN Invalid
    ELSE IF r.size = sizeof.JHI_RESPONSE THEN Got(r.retCode, 0)
    ELSE IF r.size = sizeof.JHI_RESPONSE + sizeof.RES_GET_EVENT_DATA + r.n THEN Got(r.retCode, r.n)
    ELSE Invalid

\* The two codes below never have a body the client looks at.
NoBody == {"JHI_INTERNAL_ERROR", "JHI_INVALID_BUFFER_SIZE"}

\* Buffers come back with a success; the length that was needed comes back
\* with JHI_INSUFFICIENT_BUFFER too.
BufferResult(struct, r, n) ==
    LET full == sizeof.JHI_RESPONSE + struct + (IF r.retCode = "SUCCESS" THEN r.n ELSE 0)
    IN IF ~Whole(r) THEN Invalid
       ELSE IF r.size = sizeof.JHI_RESPONSE \/ r.retCode \in NoBody THEN Got(r.retCode, 0)
       ELSE IF r.size # full THEN Invalid
       ELSE Got(r.retCode, IF r.retCode \in {"SUCCESS", "JHI_INSUFFICIENT_BUFFER"} THEN n ELSE 0)

JhisSendAndRecv_r(r) == BufferResult(sizeof.RES_SEND_AND_RECIEVE, r, r.n)
JhisGetAppletProperty_r(r) == BufferResult(sizeof.RES_GET_APPLET_PROPERTY, r, r.n - 1)

JhisGetVersionInfo_r(r) ==
    LET body == IF r.retCode = "SUCCESS" THEN sizeof.JHI_VERSION_INFO ELSE 0
    IN IF Whole(r) /\ r.size = sizeof.JHI_RESPONSE + body THEN Got(r.retCode, 0) ELSE Invalid

\* The TEE counterparts of JHI's codes; the others become an internal error.
TeeCounterpart ==
    [SUCCESS |-> "SUCCESS",
     JHI_INTERNAL_ERROR |-> "TEE_STATUS_INTERNAL_ERROR",
     JHI_INVALID_PARAMS |-> "TEE_STATUS_INVALID_PARAMS",
     JHI_INVALID_APPLET_GUID |-> "TEE_STATUS_INVALID_UUID",
     JHI_NO_CONNECTION_TO_FIRMWARE |-> "TEE_STATUS_NO_FW_CONNECTION",
     JHI_SERVICE_UNAVAILABLE |-> "TEE_STATUS_SERVICE_UNAVAILABLE",
     JHI_ERROR_REGISTRY |-> "TEE_STATUS_REGISTRY_ERROR",
     JHI_ERROR_REPOSITORY_NOT_FOUND |-> "TEE_STATUS_REPOSITORY_ERROR",
     JHI_DELETE_FROM_REPOSITORY_FAILURE |-> "TEE_STATUS_REPOSITORY_ERROR",
     JHI_FILE_ERROR_COPY |-> "TEE_STATUS_REPOSITORY_ERROR",
     JHI_SPOOLER_NOT_FOUND |-> "TEE_STATUS_SPOOLER_MISSING",
     JHI_INVALID_SPOOLER |-> "TEE_STATUS_SPOOLER_INVALID",
     JHI_VM_DLL_FILE_NOT_FOUND |-> "TEE_STATUS_PLUGIN_MISSING",
     JHI_VM_DLL_VERIFY_FAILED |-> "TEE_STATUS_PLUGIN_VERIFY_FAILED",
     JHI_INVALID_PACKAGE_FORMAT |-> "TEE_STATUS_INVALID_PACKAGE",
     JHI_FILE_ERROR_AUTH |-> "TEE_STATUS_INVALID_SIGNATURE",
     JHI_MISSING_ACCESS_CONTROL |-> "TEE_STATUS_MISSING_ACCESS_CONTROL",
     JHI_MAX_INSTALLED_APPLETS_REACHED |-> "TEE_STATUS_MAX_TAS_REACHED",
     JHI_INSTALL_FAILURE_SESSIONS_EXISTS |-> "TEE_STATUS_CMD_FAILURE_SESSIONS_EXISTS",
     JHI_UNINSTALL_FAILURE_SESSIONS_EXISTS |-> "TEE_STATUS_CMD_FAILURE_SESSIONS_EXISTS",
     JHI_SVL_CHECK_FAIL |-> "TEE_STATUS_INVALID_TA_SVN",
     JHI_APPLET_NOT_INSTALLED |-> "TEE_STATUS_TA_DOES_NOT_EXIST",
     JHI_FILE_IDENTICAL |-> "TEE_STATUS_IDENTICAL_PACKAGE",
     JHI_INSTALL_FAILED |-> "TEE_STATUS_CMD_FAILURE",
     JHI_ILLEGAL_PLATFORM_ID |-> "TEE_STATUS_ILLEGAL_PLATFORM_ID"]

\* Codes from 0x2000 on are TEE's and stay what they are.
TEECodes == ({TeeCounterpart[e] : e \in DOMAIN TeeCounterpart} \ {"SUCCESS"})
            \cup {"TEE_STATUS_UNSUPPORTED_PLATFORM", "TEE_STATUS_INVALID_HANDLE"}
isJhiError(e) == e \notin TEECodes
jhiErrorToTeeError(e) ==
    IF ~isJhiError(e) THEN e
    ELSE IF e \in DOMAIN TeeCounterpart THEN TeeCounterpart[e] ELSE "TEE_STATUS_INTERNAL_ERROR"

TeeInvalid == Got("TEE_STATUS_INTERNAL_ERROR", 0)
TeeGot(r, n) == Got(jhiErrorToTeeError(r.retCode), n)

\* The handle is copied whenever the response has room for one, an error
\* with a NULL handle included: its bytes were never written.
JhisOpenSDSession_r(r) ==
    IF ~Whole(r) THEN TeeInvalid
    ELSE TeeGot(r, IF r.size = sizeof.JHI_RESPONSE - 1 + sizeof.SD_HANDLE THEN r.n ELSE 0)

TeeCodeOnly(r) == IF r.size = sizeof.JHI_RESPONSE /\ Whole(r) THEN TeeGot(r, 0) ELSE TeeInvalid
JhisCloseSDSession_r(r) == TeeCodeOnly(r)
JhisSendAdminCmdPkg_r(r) == TeeCodeOnly(r)

\* Errors first, then the length; an error is never measured.
TeeBody(r, ok, n) ==
    IF r.retCode # "SUCCESS" THEN TeeGot(r, 0)
    ELSE IF Whole(r) /\ ok THEN Got("SUCCESS", n) ELSE TeeInvalid

ListLength(r) == r.dataLength - (sizeof.JHI_RESPONSE - 1) - (sizeof.RES_LIST_INSTALLED - 1) - 1
JhisListInstalledTAs_r(r) == TeeBody(r, ListLength(r) = sizeof.APP_ID * r.n, r.n)

\* The list of domains is read at its last character: for an empty list
\* that is a read far outside of the response, whose effect is undefined.
JhisListInstalledSDs_r(r) ==
    IF r.retCode = "SUCCESS" /\ Whole(r) /\ ListLength(r) = 0 /\ r.n = 0
    THEN Got("undefined", 0)
    ELSE TeeBody(r, ListLength(r) = sizeof.APP_ID * r.n, r.n)

JhisQueryTEEMetadata_r(r) ==
    TeeBody(r, r.dataLength - (sizeof.JHI_RESPONSE - 1) - (sizeof.RES_QUERY_TEE_METADATA - 1)
                   >= sizeof.dal_tee_metadata, 0)
JhisProvisionOemMasterKey_r(r) == TeeBody(r, TRUE, 0)
JhisSetTAEncryptionKey_r(r) == TeeBody(r, TRUE, 0)

\* The tables of the emulation are looked at only if they are long enough.
TableResult(r) ==
    IF r.size < sizeof.JHI_RESPONSE + sizeof.RES_TABLE THEN Invalid
    ELSE IF r.retCode # "SUCCESS" THEN Got(r.retCode, 0)
    ELSE IF Whole(r) THEN Got("SUCCESS", r.n) ELSE Invalid
JhisGetSessionTable_r(r) == TableResult(r)
JhisGetLoadedAppletsList_r(r) == TableResult(r)

=============================================================================
