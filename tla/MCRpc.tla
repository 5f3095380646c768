------------------------------- MODULE MCRpc -------------------------------
(* Model checking of Rpc: either every call of the interface, with lengths  *)
(* at the boundaries of the checks on both sides, from one thread, or a few *)
(* calls from threads that compete for the service's only permit.           *)
EXTENDS Rpc

CONSTANT First   \* a thread

CallsOn(ids, appIds, ns, ms) == {Call(i, a, n, m) : i \in ids, a \in appIds, n \in ns, m \in ms}

Edge == JHI_MAX_TRANSPORT_DATA_SIZE - 17
AllCalls ==
    CallsOn({"INIT", "CLOSE_SESSION", "GET_SESSION_INFO", "GET_EVENT_DATA", "GET_VERSION_INFO",
             "QUERY_TEE_METADATA", "PROVISION_OEM_MASTER_KEY", "SET_TA_ENCRYPTION_KEY",
             "GET_SESSIONS_DATA_TABLE", "GET_LOADED_APPLETS"}, {"none"}, {0}, {0})
    \cup CallsOn({"UNINSTALL", "GET_SESSIONS_COUNT"}, {"applet", "spooler"}, {0}, {0})
    \cup CallsOn({"INSTALL"}, {"applet"}, {1, FILENAME_MAX, FILENAME_MAX + 1}, {0})
    \cup CallsOn({"CREATE_SESSION"}, {"applet", "malformed"}, {0, JHI_BUFFER_MAX}, {0})
    \cup CallsOn({"SEND_AND_RECIEVE"}, {"none"}, {0, JHI_BUFFER_MAX}, {0, JHI_BUFFER_MAX})
    \cup CallsOn({"GET_APPLET_PROPERTY"}, {"applet"}, {0, 1, JHI_BUFFER_MAX}, {0, JHI_BUFFER_MAX - 1})
    \cup CallsOn({"SET_SESSION_EVENT_HANDLER"}, {"none"}, {0, 50}, {0})
    \cup CallsOn({"CREATE_SD_SESSION"}, {"applet"}, {0}, {0})
    \cup CallsOn({"CLOSE_SD_SESSION", "LIST_INSTALLED_TAS", "LIST_INSTALLED_SDS"}, {"none"},
                {0}, {0, 1})
    \cup CallsOn({"SEND_CMD_PKG"}, {"none"}, {1, Edge, Edge + 1}, {1})

AnyCall == [t \in Threads |-> AllCalls]

\* One thread makes a call, the other that call or one whose command is
\* too long for the transport.
TwoCalls ==
    LET count == CallsOn({"GET_SESSIONS_COUNT"}, {"applet"}, {0}, {0})
    IN [t \in Threads |->
            IF t = First THEN count
            ELSE count \cup CallsOn({"SEND_CMD_PKG"}, {"none"}, {Edge + 1}, {1})]

OneResult(a) == {Result("SUCCESS", 2)}

\* Each command's results: its error, and successes at the ends of the
\* lengths they may have.
MCResults(a) ==
    LET Ok(ns) == {Result("SUCCESS", n) : n \in ns}
    IN CASE a.id \in CodeCommands \cap JHICommands -> Ok({0}) \cup {Result("JHI_INVALID_PARAMS", 0)}
         [] a.id \in CodeCommands \cap SDCommands -> Ok({0}) \cup {Result("TEE_STATUS_INVALID_PARAMS", 0)}
         [] a.id \in {"INIT", "GET_VERSION_INFO"} -> Ok({0})
         [] a.id = "SEND_AND_RECIEVE" ->
                Ok({0, a.m}) \cup {Result("JHI_INSUFFICIENT_BUFFER", a.m + 1),
                                  Result("JHI_INTERNAL_ERROR", a.m), Result("JHI_APPLET_FATAL", a.m)}
         [] a.id = "GET_APPLET_PROPERTY" ->
                Ok({1, a.m + 1}) \cup {Result("JHI_INSUFFICIENT_BUFFER", a.m + 2),
                                      Result("JHI_APPLET_PROPERTY_NOT_SUPPORTED", 0)}
         [] a.id = "QUERY_TEE_METADATA" -> Ok({159, 160})
         [] a.id \in {"CREATE_SD_SESSION", "CREATE_SESSION", "GET_SESSION_INFO"} ->
                Ok({0, 1}) \cup {Result("JHI_INVALID_PARAMS", 0)}
         [] a.id = "GET_EVENT_DATA" -> Ok({0, 5}) \cup {Result("JHI_SESSION_NOT_REGISTERED", 0)}
         [] OTHER -> Ok({0, 2}) \cup {Result("JHI_INVALID_PARAMS", 0)}

=============================================================================
