-------------------------------- MODULE Rpc --------------------------------
(***************************************************************************)
(* Calls of application threads to the JHI service over sockets, on each   *)
(* of the platforms of Sockets.  The client side is                        *)
(* CommandInvoker::InvokeCommand: one connection per call.  The service    *)
(* side is an accept loop that takes a permit of a semaphore before it     *)
(* accepts, and one thread per connection.  Commands and responses are     *)
(* those of Protocol.                                                      *)
(***************************************************************************)
EXTENDS Sockets, Functions

\* The commands of the interface.  The codes of the second set are TEE's.
JHICommands == {"INIT", "INSTALL", "UNINSTALL", "SEND_AND_RECIEVE", "CREATE_SESSION",
                "CLOSE_SESSION", "GET_SESSIONS_COUNT", "GET_SESSION_INFO",
                "SET_SESSION_EVENT_HANDLER", "GET_EVENT_DATA", "GET_APPLET_PROPERTY",
                "GET_VERSION_INFO", "GET_SESSIONS_DATA_TABLE", "GET_LOADED_APPLETS"}
SDCommands == {"LIST_INSTALLED_TAS", "LIST_INSTALLED_SDS", "CREATE_SD_SESSION",
               "CLOSE_SD_SESSION", "SEND_CMD_PKG", "QUERY_TEE_METADATA",
               "PROVISION_OEM_MASTER_KEY", "SET_TA_ENCRYPTION_KEY"}
\* The commands that bring a buffer back.
BufferCommands == {"SEND_AND_RECIEVE", "GET_APPLET_PROPERTY"}
\* The codes with which such a command tells a length.
BufferCodes == {"SUCCESS", "JHI_INSUFFICIENT_BUFFER"}
\* The commands answered by a code alone.
CodeCommands == {"INSTALL", "UNINSTALL", "CLOSE_SESSION", "SET_SESSION_EVENT_HANDLER",
                 "CLOSE_SD_SESSION", "SEND_CMD_PKG", "PROVISION_OEM_MASTER_KEY",
                 "SET_TA_ENCRYPTION_KEY"}
CommandIds == JHICommands \cup SDCommands

CONSTANTS Threads,     \* threads of applications
          Socks,       \* connections
          None,        \* no connection, no response
          Platforms,   \* the platforms it may run on
          MaxClients,  \* JHI_MAX_CLIENTS_CONNECTIONS
          Calls,       \* the calls each thread makes
          Results(_),  \* what the handler of a call may give
          vmType,      \* the VM of the platform
          MaxFaults    \* bound: allocations, threads and applications that fail

ASSUME RpcAssumption ==
    /\ None \notin Socks
    /\ Platforms \subseteq AllPlatforms
    /\ MaxClients \in Nat \ {0}
    /\ MaxFaults \in Nat
    /\ \A t \in Threads : \A a \in Calls[t] :
        /\ a = Call(a.id, a.appId, a.n, a.m)
        /\ a.id \in CommandIds /\ a.n \in Nat /\ a.m \in Nat
        /\ \A h \in Results(a) :
            /\ h = Result(h.code, h.n) /\ h.n \in Nat
            /\ h.code # "SUCCESS" /\ a.id \notin BufferCommands => h.n = 0
            /\ a.id = "GET_APPLET_PROPERTY" /\ h.code \in BufferCodes => h.n > 0

VARIABLES
    platform,  \* the platform, which does not change
    registry,  \* on Windows, where the service is said to be: its port, its address family
    seen,      \* what a thread has read there
    valid,     \* the service's _socket is not INVALID_SOCKET
    pc,        \* a thread's place in InvokeCommand
    cur,       \* the connection it uses
    ret,       \* what its last call returned
    client,    \* the client's end of a connection
    server,    \* the service's end
    link,      \* the command and the response on it, and how much of them was sent
    worker,    \* the place of the thread that serves it, ClientSessionThread
    loop,      \* the place of the service's main thread, in open and waitForRequests
    accepted,  \* the connection it is about to hand over
    permits,   \* the semaphore
    backlog,   \* the connections that wait to be accepted, in order
    listening, \* the listening socket is open
    faults,    \* failures so far
    lost       \* permits that were taken and will not be released

threads == <<pc, cur, ret, seen>>
sockets == <<client, server, link>>
loopVars == <<loop, accepted, backlog>>
net == <<platform, registry, valid, listening>>
vars == <<threads, sockets, worker, loopVars, permits, net, faults, lost>>

Svc == Server[platform]
Lib == Client[platform]

-----------------------------------------------------------------------------
(* What the API functions accept of a call before they talk to the         *)
(* service (jhi.cpp, teemanagement.cpp).                                   *)

AppIdArg(a) == a.appId # "malformed"
InstallArgs(a) == AppIdArg(a) /\ a.n <= FILENAME_MAX
CreateSessionArgs(a) == AppIdArg(a) /\ a.n <= JHI_BUFFER_MAX
SendAndRecvArgs(a) == a.n <= JHI_BUFFER_MAX /\ a.m <= JHI_BUFFER_MAX
GetAppletPropertyArgs(a) ==
    AppIdArg(a) /\ a.n > 0 /\ a.n <= JHI_BUFFER_MAX /\ a.m <= JHI_BUFFER_MAX
\* The name of an event handle is generated, or empty to unregister.
EventHandlerArgs(a) == a.n \in {0, 50}
TEE_OpenSDSession(a) == AppIdArg(a)
TEE_CloseSDSession(a) == TRUE
TEE_SendAdminCmdPkg(a) == a.m # 0 /\ a.n # 0
TEE_ListInstalled(a) == a.m # 0
TEE_NoCheck(a) == TRUE

Admitted(a) ==
    CASE a.id = "INSTALL" -> InstallArgs(a)
      [] a.id \in {"UNINSTALL", "GET_SESSIONS_COUNT"} -> AppIdArg(a)
      [] a.id = "CREATE_SESSION" -> CreateSessionArgs(a)
      [] a.id = "SEND_AND_RECIEVE" -> SendAndRecvArgs(a)
      [] a.id = "GET_APPLET_PROPERTY" -> GetAppletPropertyArgs(a)
      [] a.id = "SET_SESSION_EVENT_HANDLER" -> EventHandlerArgs(a)
      [] a.id = "CREATE_SD_SESSION" -> TEE_OpenSDSession(a)
      [] a.id = "CLOSE_SD_SESSION" -> TEE_CloseSDSession(a)
      [] a.id = "SEND_CMD_PKG" -> TEE_SendAdminCmdPkg(a)
      [] a.id \in {"LIST_INSTALLED_TAS", "LIST_INSTALLED_SDS"} -> TEE_ListInstalled(a)
      [] a.id \in SDCommands -> TEE_NoCheck(a)
      [] OTHER -> TRUE

\* The command a call becomes, and what is made of the response to it.
Encode(a) ==
    CASE a.id = "INIT" -> JhisInit(a)
      [] a.id = "INSTALL" -> JhisInstall(a)
      [] a.id = "UNINSTALL" -> JhisUninstall(a)
      [] a.id = "SEND_AND_RECIEVE" -> JhisSendAndRecv(a)
      [] a.id = "CREATE_SESSION" -> JhisCreateSession(a)
      [] a.id = "CLOSE_SESSION" -> JhisCloseSession(a)
      [] a.id = "GET_SESSIONS_COUNT" -> JhisGetSessionsCount(a)
      [] a.id = "GET_SESSION_INFO" -> JhisGetSessionInfo(a)
      [] a.id = "SET_SESSION_EVENT_HANDLER" -> JhisSetSessionEventHandler(a)
      [] a.id = "GET_EVENT_DATA" -> JhisGetEventData(a)
      [] a.id = "GET_APPLET_PROPERTY" -> JhisGetAppletProperty(a)
      [] a.id = "GET_VERSION_INFO" -> JhisGetVersionInfo(a)
      [] a.id = "LIST_INSTALLED_TAS" -> JhisListInstalledTAs(a)
      [] a.id = "LIST_INSTALLED_SDS" -> JhisListInstalledSDs(a)
      [] a.id = "CREATE_SD_SESSION" -> JhisOpenSDSession(a)
      [] a.id = "CLOSE_SD_SESSION" -> JhisCloseSDSession(a)
      [] a.id = "SEND_CMD_PKG" -> JhisSendAdminCmdPkg(a)
      [] a.id = "QUERY_TEE_METADATA" -> JhisQueryTEEMetadata(a)
      [] a.id = "PROVISION_OEM_MASTER_KEY" -> JhisProvisionOemMasterKey(a)
      [] a.id = "SET_TA_ENCRYPTION_KEY" -> JhisSetTAEncryptionKey(a)
      [] a.id = "GET_SESSIONS_DATA_TABLE" -> JhisGetSessionTable(a)
      [] a.id = "GET_LOADED_APPLETS" -> JhisGetLoadedAppletsList(a)

Decode(id, r) ==
    CASE id = "INIT" -> JhisInit_r(r)
      [] id = "INSTALL" -> JhisInstall_r(r)
      [] id = "UNINSTALL" -> JhisUninstall_r(r)
      [] id = "SEND_AND_RECIEVE" -> JhisSendAndRecv_r(r)
      [] id = "CREATE_SESSION" -> JhisCreateSession_r(r)
      [] id = "CLOSE_SESSION" -> JhisCloseSession_r(r)
      [] id = "GET_SESSIONS_COUNT" -> JhisGetSessionsCount_r(r)
      [] id = "GET_SESSION_INFO" -> JhisGetSessionInfo_r(r)
      [] id = "SET_SESSION_EVENT_HANDLER" -> JhisSetSessionEventHandler_r(r)
      [] id = "GET_EVENT_DATA" -> JhisGetEventData_r(r)
      [] id = "GET_APPLET_PROPERTY" -> JhisGetAppletProperty_r(r)
      [] id = "GET_VERSION_INFO" -> JhisGetVersionInfo_r(r)
      [] id = "LIST_INSTALLED_TAS" -> JhisListInstalledTAs_r(r)
      [] id = "LIST_INSTALLED_SDS" -> JhisListInstalledSDs_r(r)
      [] id = "CREATE_SD_SESSION" -> JhisOpenSDSession_r(r)
      [] id = "CLOSE_SD_SESSION" -> JhisCloseSDSession_r(r)
      [] id = "SEND_CMD_PKG" -> JhisSendAdminCmdPkg_r(r)
      [] id = "QUERY_TEE_METADATA" -> JhisQueryTEEMetadata_r(r)
      [] id = "PROVISION_OEM_MASTER_KEY" -> JhisProvisionOemMasterKey_r(r)
      [] id = "SET_TA_ENCRYPTION_KEY" -> JhisSetTAEncryptionKey_r(r)
      [] id = "GET_SESSIONS_DATA_TABLE" -> JhisGetSessionTable_r(r)
      [] id = "GET_LOADED_APPLETS" -> JhisGetLoadedAppletsList_r(r)

\* A call that did not get through has this code.
Unavailable(id) == Got(IF id \in SDCommands THEN "TEE_STATUS_SERVICE_UNAVAILABLE"
                       ELSE "JHI_SERVICE_UNAVAILABLE", 0)

-----------------------------------------------------------------------------
Idle == [call |-> None, up |-> 0, resp |-> None, down |-> 0]

\* The address an earlier run of the service left behind leads nowhere,
\* but its family may be the one the service gets again.
Init ==
    /\ platform \in Platforms
    /\ registry \in [port : {"old"}, type : IF platform = "Win32" THEN {"old", "new"} ELSE {"old"}]
    /\ seen = [t \in Threads |-> FALSE]
    /\ valid = FALSE
    /\ pc = [t \in Threads |-> "idle"]
    /\ cur = [t \in Threads |-> None]
    /\ ret = [t \in Threads |-> None]
    /\ client = [s \in Socks |-> "closed"]
    /\ server = [s \in Socks |-> "closed"]
    /\ link = [s \in Socks |-> Idle]
    /\ worker = [s \in Socks |-> "none"]
    /\ loop = Head(Svc.open)
    /\ accepted = None
    /\ backlog = <<>>
    /\ permits = MaxClients
    /\ listening = FALSE
    /\ faults = 0
    /\ lost = 0

Goto(t, l) == pc' = [pc EXCEPT ![t] = l]
Serve(s, l) == worker' = [worker EXCEPT ![s] = l]
Send(s, dir) == link' = [link EXCEPT ![s][dir] = @ + 1]
Fault == faults < MaxFaults /\ faults' = faults + 1
Free == {s \in Socks : client[s] = "closed" /\ server[s] = "closed" /\ worker[s] = "none"}

serverVars == <<server, worker, loopVars, permits, net, lost>>

-----------------------------------------------------------------------------
(* The client: InvokeCommand, that is Connect, Invoke and Disconnect.      *)

Return(t, a, r, got, early) ==
    /\ ret' = [ret EXCEPT ![t] = [call |-> a, resp |-> r, got |-> got, early |-> early]]
    /\ cur' = [cur EXCEPT ![t] = None]
    /\ seen' = [seen EXCEPT ![t] = FALSE]
    /\ Goto(t, "returned")

\* A thread that is idle is at the first step of Connect.
At(t, l) == pc[t] = l \/ (pc[t] = "idle" /\ l = Head(Lib.connect))

\* On Windows: JhiQueryServicePortFromRegistry, JhiQueryAddressTypeFromRegistry.
LookUp(t) ==
    /\ At(t, "lookup")
    /\ seen' = [seen EXCEPT ![t] = registry.port = "new" /\ registry.type = "new"]
    /\ Goto(t, "connect")
    /\ UNCHANGED <<cur, ret, client, link, serverVars, faults>>

\* Somebody listens at the address the thread has.
Reachable(t) == listening /\ (platform = "Win32" => seen[t])

Connect(t) ==
    /\ At(t, "connect")
    /\ Reachable(t)
    /\ Free # {}
    /\ LET s == CHOOSE x \in Free : TRUE
       IN /\ \E a \in Calls[t] : /\ Admitted(a)
                                 /\ link' = [link EXCEPT ![s] = [Idle EXCEPT !.call = a]]
          /\ client' = [client EXCEPT ![s] = "open"]
          /\ server' = [server EXCEPT ![s] = "open"]
          /\ backlog' = Append(backlog, s)
          /\ cur' = [cur EXCEPT ![t] = s]
    /\ seen' = [seen EXCEPT ![t] = FALSE]
    /\ Goto(t, Head(Lib.invoke.steps))
    /\ UNCHANGED <<ret, worker, loop, accepted, permits, net, faults, lost>>

ConnectFails(t) ==
    /\ At(t, "lookup") \/ At(t, "connect")
    /\ IF At(t, "connect") /\ ~Reachable(t) THEN UNCHANGED faults ELSE Fault
    /\ \E a \in Calls[t] : Admitted(a) /\ Return(t, a, None, Unavailable(a.id), TRUE)
    /\ UNCHANGED <<sockets, worker, loopVars, permits, net, lost>>

SendSize(t) ==
    /\ pc[t] = "sendSize"
    /\ server[cur[t]] # "closed"
    /\ Send(cur[t], "up")
    /\ Goto(t, After(Lib.invoke.steps, "sendSize"))
    /\ UNCHANGED <<cur, ret, seen, client, serverVars, faults>>

SendBody(t) ==
    /\ pc[t] = "sendBody"
    /\ server[cur[t]] # "closed"
    /\ Send(cur[t], "up")
    /\ Goto(t, After(Lib.invoke.steps, "sendBody"))
    /\ UNCHANGED <<cur, ret, seen, client, serverVars, faults>>

ResponseSizeOk(size) == size >= Lib.invoke.least /\ size < Lib.invoke.below

RecvSize(t) ==
    /\ pc[t] = "recvSize"
    /\ link[cur[t]].down >= 1
    /\ ResponseSizeOk(link[cur[t]].resp.size)
    /\ Goto(t, After(Lib.invoke.steps, "recvSize"))
    /\ UNCHANGED <<cur, ret, seen, client, link, serverVars, faults>>

\* Nobody looks at the link again once both ends are closed.
CloseClient(t) ==
    /\ client' = [client EXCEPT ![cur[t]] = "closed"]
    /\ link' = IF server[cur[t]] = "open" THEN link ELSE [link EXCEPT ![cur[t]] = Idle]

\* The response is whole: Disconnect, and the caller makes sense of it.
RecvBody(t) ==
    LET s == cur[t]  a == link[s].call
    IN /\ pc[t] = "recvBody"
       /\ link[s].down = 2
       /\ CloseClient(t)
       /\ Return(t, a, link[s].resp, Decode(a.id, link[s].resp), FALSE)
       /\ UNCHANGED <<serverVars, faults>>

\* Mutant: a receive that finds the connection closed is tried again.
Broken_EOF(t) ==
    LET s == cur[t]
    IN \/ pc[t] \in {"sendSize", "sendBody"} /\ server[s] = "closed"
       \/ pc[t] = "recvSize" /\ link[s].down >= 1 /\ ~ResponseSizeOk(link[s].resp.size)

\* The connection is gone before the step is done, or the length that
\* arrived is not one of a response.
Broken(t) ==
    LET s == cur[t]
    IN \/ pc[t] \in {"sendSize", "sendBody"} /\ server[s] = "closed"
       \/ pc[t] = "recvSize" /\ link[s].down = 0 /\ server[s] = "closed"
       \/ pc[t] = "recvSize" /\ link[s].down >= 1 /\ ~ResponseSizeOk(link[s].resp.size)
       \/ pc[t] = "recvBody" /\ link[s].down = 1 /\ server[s] = "closed"

InvokeFails(t) ==
    /\ Broken(t)
    /\ CloseClient(t)
    /\ Return(t, link[cur[t]].call, None, Unavailable(link[cur[t]].call.id), FALSE)
    /\ UNCHANGED <<serverVars, faults>>

\* The application ends in the middle of a call; the kernel closes its end.
Dies(t) ==
    /\ pc[t] \in {"sendSize", "sendBody", "recvSize", "recvBody"}
    /\ Fault
    /\ CloseClient(t)
    /\ cur' = [cur EXCEPT ![t] = None]
    /\ Goto(t, "idle")
    /\ UNCHANGED <<ret, seen, serverVars>>

\* The caller has its result, and the output buffer is freed.
Done(t) ==
    /\ pc[t] = "returned"
    /\ ret' = [ret EXCEPT ![t] = None]
    /\ Goto(t, "idle")
    /\ UNCHANGED <<cur, seen, client, link, serverVars, faults>>

-----------------------------------------------------------------------------
(* The service: open, waitForRequests, startClientSession and close.       *)

\* One call of open, which fills the registry on Windows.
OpenStep ==
    /\ \E i \in DOMAIN Svc.open :
        /\ loop = Svc.open[i]
        /\ loop' = (Svc.open \o Svc.loop)[i + 1]
    /\ registry' = [port |-> IF loop = "writePort" THEN "new" ELSE registry.port,
                    type |-> IF loop = "writeAddressType" THEN "new" ELSE registry.type]
    /\ listening' = (loop = "listen")
    /\ valid' = (valid \/ loop \in {"socket", "control_socket"})
    /\ UNCHANGED <<threads, sockets, worker, accepted, backlog, permits, faults, lost, platform>>

\* A call of open fails: the socket is closed, and the service ends.
OpenFails ==
    /\ loop \in Range(Svc.open)
    /\ Fault
    /\ valid' = FALSE
    /\ loop' = "ended"
    /\ UNCHANGED <<threads, sockets, worker, accepted, backlog, permits, listening, lost,
                   registry, platform>>

\* The accept loop looks at _socket, then waits for a permit.
Acquire ==
    /\ loop = "acquire"
    /\ valid
    /\ permits > 0
    /\ permits' = permits - 1
    /\ loop' = After(Svc.loop, "acquire")
    /\ UNCHANGED <<threads, sockets, worker, accepted, backlog, net, faults, lost>>

\* On Android the loop looks at _socket once more.
Recheck ==
    /\ loop = "recheck"
    /\ valid
    /\ loop' = After(Svc.loop, "recheck")
    /\ UNCHANGED <<threads, sockets, worker, permits, accepted, backlog, net, faults, lost>>

\* Closing the socket nobody waits on resets the connections not yet accepted.
Reset(queue) == server' = [s \in Socks |-> IF s \in Range(queue) THEN "closed" ELSE server[s]]

\* A listening socket that was closed under accept goes when accept returns.
Accept ==
    /\ loop = "accept"
    /\ backlog # <<>>
    /\ accepted' = Head(backlog)
    /\ listening' = valid
    /\ IF valid THEN backlog' = Tail(backlog) /\ UNCHANGED server
                ELSE backlog' = <<>> /\ Reset(Tail(backlog))
    /\ loop' = After(Svc.loop, "accept")
    /\ UNCHANGED <<threads, client, link, worker, permits, faults, lost, platform, registry, valid>>

\* The socket is closed: the loop ends, and gives back the permit it has.
LoopEnds ==
    /\ \/ loop = "acquire" /\ ~valid /\ UNCHANGED permits
       \/ loop = "recheck" /\ ~valid /\ permits' = permits + 1
       \/ loop = "accept" /\ ~listening /\ permits' = permits + 1
    /\ loop' = "ended"
    /\ UNCHANGED <<threads, sockets, worker, accepted, backlog, net, faults, lost>>

\* accept fails for another reason: the loop ends all the same, and leaves
\* the socket listening.
AcceptFails ==
    /\ loop = "accept"
    /\ listening /\ valid
    /\ Fault
    /\ permits' = permits + 1
    /\ loop' = "ended"
    /\ UNCHANGED <<threads, sockets, worker, accepted, backlog, net, lost>>

startClientSession ==
    /\ loop = "start"
    /\ Serve(accepted, Head(Svc.thread.steps))
    /\ loop' = Head(Svc.loop)
    /\ accepted' = None
    /\ UNCHANGED <<threads, sockets, backlog, permits, net, faults, lost>>

\* The parameters or the thread cannot be had: the connection stays open
\* with nobody to serve it, and its permit may be lost.
StartFails(back) ==
    /\ loop = "start"
    /\ Fault
    /\ permits' = permits + back
    /\ lost' = lost + 1 - back
    /\ server' = [server EXCEPT ![accepted] = "leaked"]
    /\ loop' = Head(Svc.loop)
    /\ accepted' = None
    /\ UNCHANGED <<threads, client, link, worker, backlog, net>>

NoParams == StartFails(Svc.start.noParams)
NoThread == StartFails(Svc.start.noThread)

\* close, from another thread of the service.  Where it wakes nobody, a
\* thread that is inside accept keeps the socket alive.
ServiceCloses ==
    /\ loop \in Range(Svc.loop)
    /\ listening /\ valid
    /\ \E stays \in IF loop = "accept" /\ ~Svc.close.wakes THEN BOOLEAN ELSE {FALSE} :
        /\ listening' = stays
        /\ IF stays THEN UNCHANGED <<server, backlog>> ELSE Reset(backlog) /\ backlog' = <<>>
    /\ valid' = ~Svc.close.invalidates
    /\ UNCHANGED <<threads, client, link, worker, loop, accepted, permits, faults, lost,
                   platform, registry>>

-----------------------------------------------------------------------------
(* ClientSessionThread, one per accepted connection.                       *)

workerUnchanged == UNCHANGED <<threads, client, loopVars, net, lost>>
NextStep(l) == After(Svc.thread.steps, l)

\* Mutant: the limit of a buffer is taken for that of a command.
CommandSizeOk_Buffer(size) == size >= Svc.thread.least /\ size <= JHI_BUFFER_MAX
CommandSizeOk(size) == size >= Svc.thread.least /\ size <= Svc.thread.most

WorkerRecvSize(s) ==
    /\ worker[s] = "recvSize"
    /\ link[s].up >= 1
    /\ CommandSizeOk(Encode(link[s].call).dataLength)
    /\ Serve(s, NextStep("recvSize"))
    /\ UNCHANGED <<server, link, permits, faults>>
    /\ workerUnchanged

WorkerRecvBody(s) ==
    /\ worker[s] = "recvBody"
    /\ link[s].up = 2
    /\ Serve(s, NextStep("recvBody"))
    /\ UNCHANGED <<server, link, permits, faults>>
    /\ workerUnchanged

\* The client went away, the length is not one of a command, or there is
\* no memory for it.
WorkerGivesUp(s) ==
    /\ \/ worker[s] = "recvSize" /\ link[s].up = 0 /\ client[s] = "closed" /\ UNCHANGED faults
       \/ worker[s] = "recvSize" /\ link[s].up >= 1 /\ UNCHANGED faults
          /\ ~CommandSizeOk(Encode(link[s].call).dataLength)
       \/ worker[s] = "recvSize" /\ link[s].up >= 1 /\ Fault
       \/ worker[s] = "recvBody" /\ link[s].up < 2 /\ client[s] = "closed" /\ UNCHANGED faults
       \/ worker[s] \in {"sendSize", "sendBody"} /\ client[s] = "closed" /\ UNCHANGED faults
    /\ Serve(s, "close")
    /\ UNCHANGED <<server, link, permits>>
    /\ workerUnchanged

\* processCommand: the state of the service refuses the command (see
\* Service), or it is dispatched.
StateErrors == {"JHI_SERVICE_UNAVAILABLE", "JHI_NO_CONNECTION_TO_FIRMWARE"}
Answers(a) ==
    {Dispatch(vmType, Encode(a), Encode(a).dataLength, h) : h \in Results(a)}
    \cup {HeaderOnly(Refuse(e)) : e \in StateErrors}

Process(s) ==
    /\ worker[s] = "process"
    /\ \E r \in Answers(link[s].call) : link' = [link EXCEPT ![s].resp = r]
    /\ Serve(s, NextStep("process"))
    /\ UNCHANGED <<server, permits, faults>>
    /\ workerUnchanged

\* No memory for the response: whatever the handler did, a length of 0 is sent.
ProcessNoMemory(s) ==
    /\ worker[s] = "process"
    /\ Fault
    /\ link' = [link EXCEPT ![s].resp = NoResponse(Refuse("JHI_INTERNAL_ERROR"))]
    /\ Serve(s, NextStep("process"))
    /\ UNCHANGED <<server, permits>>
    /\ workerUnchanged

WorkerSendSize(s) ==
    /\ worker[s] = "sendSize"
    /\ client[s] = "open"
    /\ Send(s, "down")
    /\ Serve(s, IF link[s].resp.size > 0 THEN "sendBody" ELSE NextStep("sendBody"))
    /\ UNCHANGED <<server, permits, faults>>
    /\ workerUnchanged

WorkerSendBody(s) ==
    /\ worker[s] = "sendBody"
    /\ client[s] = "open"
    /\ Send(s, "down")
    /\ Serve(s, NextStep("sendBody"))
    /\ UNCHANGED <<server, permits, faults>>
    /\ workerUnchanged

WorkerCloses(s) ==
    /\ worker[s] = "close"
    /\ server' = [server EXCEPT ![s] = "closed"]
    /\ link' = IF client[s] = "open" THEN link ELSE [link EXCEPT ![s] = Idle]
    /\ Serve(s, NextStep("close"))
    /\ UNCHANGED <<permits, faults>>
    /\ workerUnchanged

\* Mutant: the thread ends without its permit.
WorkerReleases_Forgets(s) == permits' = permits
WorkerReleases(s) == permits' = permits + 1

WorkerEnds(s) ==
    /\ worker[s] = "release"
    /\ WorkerReleases(s)
    /\ Serve(s, "none")
    /\ UNCHANGED <<server, link, faults>>
    /\ workerUnchanged

-----------------------------------------------------------------------------
ClientStep(t) == SendSize(t) \/ SendBody(t) \/ RecvSize(t) \/ RecvBody(t) \/ InvokeFails(t)
                 \/ Done(t)
LoopStep == OpenStep \/ Acquire \/ Recheck \/ Accept \/ LoopEnds \/ startClientSession
WorkerStep(s) == \/ WorkerRecvSize(s) \/ WorkerRecvBody(s) \/ WorkerGivesUp(s) \/ Process(s)
                 \/ WorkerSendSize(s) \/ WorkerSendBody(s) \/ WorkerCloses(s) \/ WorkerEnds(s)

Next ==
    \/ \E t \in Threads :
        \/ LookUp(t) \/ Connect(t) \/ ConnectFails(t) \/ SendSize(t) \/ SendBody(t)
        \/ RecvSize(t) \/ RecvBody(t) \/ InvokeFails(t) \/ Dies(t) \/ Done(t)
    \/ OpenStep \/ OpenFails \/ Acquire \/ Recheck \/ Accept \/ LoopEnds \/ AcceptFails
    \/ startClientSession \/ NoParams \/ NoThread \/ ServiceCloses
    \/ \E s \in Socks :
        \/ WorkerRecvSize(s) \/ WorkerRecvBody(s) \/ WorkerGivesUp(s) \/ Process(s)
        \/ ProcessNoMemory(s) \/ WorkerSendSize(s) \/ WorkerSendBody(s) \/ WorkerCloses(s)
        \/ WorkerEnds(s)

Spec == Init /\ [][Next]_vars

\* Threads that can take a step of their call take it.
Fairness == /\ \A t \in Threads : WF_vars(ClientStep(t))
            /\ WF_vars(LoopStep)
            /\ \A s \in Socks : WF_vars(WorkerStep(s))
FairSpec == Spec /\ Fairness

-----------------------------------------------------------------------------
(* Properties.                                                             *)

\* The calls libjhi lets through that the service does not hand to their
\* handler: the id of the spooler, the security domain interface on the
\* first VM or with a NULL handle, a property whose length is the largest
\* buffer (its terminator makes it one too long), a package so long that
\* the transport refuses the command.
Refusable(a) ==
    \/ a.appId = "spooler"
    \/ a.id \in SDCommands /\ vmType # "BEIHAI_V2"
    \/ a.id = "CLOSE_SD_SESSION" /\ a.m = 0
    \/ a.id = "GET_APPLET_PROPERTY" /\ JHI_BUFFER_MAX \in {a.n, a.m}
    \/ a.id = "SEND_CMD_PKG" /\ a.n > JHI_MAX_TRANSPORT_DATA_SIZE - 17

\* A call that libjhi's argument checks let through reaches the handler of
\* its command (CommandDispatcher's Invoke* functions), whatever the
\* lengths, and its answer gets back, unless the service is not in a state
\* to serve it, something failed, the service had not opened yet or
\* closed, or the call is one of the few above.
RequestsUnderstood ==
    \A t \in Threads : ret[t] # None =>
        \/ ret[t].resp # None /\ (ret[t].resp.called \/ ret[t].resp.retCode \in StateErrors)
        \/ ret[t].resp = None /\ (faults > 0 \/ ret[t].early \/ ~listening \/ ~valid)
        \/ Refusable(ret[t].call)

\* What the caller of a command is to learn from a response.
Meant(a, r) ==
    Got(IF a.id \in SDCommands THEN jhiErrorToTeeError(r.retCode) ELSE r.retCode,
        CASE a.id \in CodeCommands \cup {"INIT", "GET_VERSION_INFO", "QUERY_TEE_METADATA"} -> 0
          [] a.id \in BufferCommands /\ r.retCode \notin BufferCodes -> 0
          [] a.id = "GET_APPLET_PROPERTY" /\ r.retCode \in BufferCodes -> r.n - 1
          [] OTHER -> r.n)

\* The responses that libjhi misreads: an error for one of the emulation's
\* tables, an empty list of security domains, metadata that are too short.
Misread(a, r) ==
    \/ a.id \in {"GET_SESSIONS_DATA_TABLE", "GET_LOADED_APPLETS"} /\ r.retCode # "SUCCESS"
    \/ a.id = "LIST_INSTALLED_SDS" /\ r.retCode = "SUCCESS" /\ r.n = 0
    \/ a.id = "QUERY_TEE_METADATA" /\ r.retCode = "SUCCESS" /\ r.n < sizeof.dal_tee_metadata

\* CommandInvoker finds in a response the code and the data that the
\* service put there for this call, on every path of the service: handler
\* called, command refused, service not initialized.
AnswersUnderstood ==
    \A t \in Threads : ret[t] # None => LET a == ret[t].call  r == ret[t].resp IN
        r # None /\ ~Misread(a, r) => ret[t].got = Meant(a, r)

Live == {s \in Socks : worker[s] # "none"}

\* The semaphore of JHI_MAX_CLIENTS_CONNECTIONS permits counts exactly the
\* connections being served: no permit is released twice, and none is lost
\* but with a thread that could not be created.
PermitsAccounted ==
    permits + Cardinality(Live) + (IF loop \in {"recheck", "accept", "start"} THEN 1 ELSE 0) + lost
        = MaxClients

\* Nobody serves the call's connection, no permit is left, or an accept failed.
Abandoned(t) == \/ lost = MaxClients
                \/ cur[t] # None /\ server[cur[t]] = "leaked"
                \/ loop = "ended" /\ valid /\ cur[t] # None /\ worker[cur[t]] = "none"

\* A call that got a connection returns, whatever happens to other calls, to the service's
\* listening socket and to the memory of the service, unless
\* startClientSession failed on its connection, or on so many others that
\* no permit is left, or an accept failed before its connection was accepted.
CallReturns ==
    \A t \in Threads : (pc[t] \notin {"idle", "connect"}) ~> (pc[t] = "idle" \/ Abandoned(t))

=============================================================================
