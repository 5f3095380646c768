------------------------------ MODULE Sockets ------------------------------
(***************************************************************************)
(* The socket code of the three platforms: CommandsServerSockets{Linux,    *)
(* Win32,Android} of the service and CommandsClientSockets{Linux,Win32,    *)
(* Android} of libjhi.  Each function is given by what tells the platforms *)
(* apart: the order of the calls that can fail or that other threads see,  *)
(* the lengths it accepts, and what it gives back when a call fails.  Rpc  *)
(* says what each step does.                                               *)
(***************************************************************************)
EXTENDS Protocol, Sequences

AllPlatforms == {"Linux", "Win32", "Android"}

\* The step of a function that follows another.
After(steps, l) == steps[1 + CHOOSE i \in DOMAIN steps : steps[i] = l]

-----------------------------------------------------------------------------
(* The service.                                                            *)

\* open: the calls that may fail, in order.  On Windows the port and the
\* family of the address are published before anybody listens there.
open_Linux == <<"socket", "path", "bind", "listen">>
open_Win32 == <<"getaddrinfo", "socket", "bind", "getsockname", "writePort",
                "writeAddressType", "listen">>
open_Android == <<"control_socket", "listen">>

\* close: whether it wakes the thread that waits in accept (shutdown on
\* Linux, closesocket on Windows), and whether it leaves _socket invalid.
close_Linux == [wakes |-> TRUE, invalidates |-> FALSE]
close_Win32 == [wakes |-> TRUE, invalidates |-> FALSE]
close_Android == [wakes |-> FALSE, invalidates |-> TRUE]

\* waitForRequests: one round of the accept loop.
waitForRequests_Linux == <<"acquire", "accept", "start">>
waitForRequests_Win32 == <<"acquire", "accept", "start">>
waitForRequests_Android == <<"acquire", "recheck", "accept", "start">>

\* startClientSession: the permits it gives back when the parameters of the
\* thread cannot be allocated, and when the thread cannot be created.  The
\* connection is closed in neither case.
startClientSession_Linux == [noParams |-> 1, noThread |-> 0]
startClientSession_Win32 == [noParams |-> 1, noThread |-> 0]
startClientSession_Android == [noParams |-> 1, noThread |-> 1]

\* ClientSessionThread: its steps, and the lengths it takes for a command.
ClientSessionThread_Linux ==
    [steps |-> <<"recvSize", "recvBody", "process", "sendSize", "sendBody", "close", "release">>,
     least |-> sizeof.JHI_COMMAND, most |-> JHI_MAX_TRANSPORT_DATA_SIZE]
ClientSessionThread_Win32 ==
    [steps |-> <<"recvSize", "recvBody", "process", "sendSize", "sendBody", "close", "release">>,
     least |-> sizeof.JHI_COMMAND, most |-> JHI_MAX_TRANSPORT_DATA_SIZE]
ClientSessionThread_Android ==
    [steps |-> <<"recvSize", "recvBody", "process", "sendSize", "sendBody", "close", "release">>,
     least |-> sizeof.JHI_COMMAND, most |-> JHI_MAX_TRANSPORT_DATA_SIZE]

Server ==
    [Linux |-> [open |-> open_Linux, close |-> close_Linux, loop |-> waitForRequests_Linux,
                start |-> startClientSession_Linux, thread |-> ClientSessionThread_Linux],
     Win32 |-> [open |-> open_Win32, close |-> close_Win32, loop |-> waitForRequests_Win32,
                start |-> startClientSession_Win32, thread |-> ClientSessionThread_Win32],
     Android |-> [open |-> open_Android, close |-> close_Android,
                  loop |-> waitForRequests_Android, start |-> startClientSession_Android,
                  thread |-> ClientSessionThread_Android]]

-----------------------------------------------------------------------------
(* libjhi.                                                                 *)

\* Connect: on Windows the address is looked up in the registry first.
Connect_Linux == <<"connect">>
Connect_Win32 == <<"lookup", "connect">>
Connect_Android == <<"connect">>

\* Invoke: its steps, and the lengths it takes for a response.
Invoke_Linux ==
    [steps |-> <<"sendSize", "sendBody", "recvSize", "recvBody">>,
     least |-> sizeof.JHI_RESPONSE, below |-> JHI_MAX_TRANSPORT_DATA_SIZE]
Invoke_Win32 ==
    [steps |-> <<"sendSize", "sendBody", "recvSize", "recvBody">>,
     least |-> sizeof.JHI_RESPONSE, below |-> JHI_MAX_TRANSPORT_DATA_SIZE]
Invoke_Android ==
    [steps |-> <<"sendSize", "sendBody", "recvSize", "recvBody">>,
     least |-> sizeof.JHI_RESPONSE, below |-> JHI_MAX_TRANSPORT_DATA_SIZE]

Client ==
    [Linux |-> [connect |-> Connect_Linux, invoke |-> Invoke_Linux],
     Win32 |-> [connect |-> Connect_Win32, invoke |-> Invoke_Win32],
     Android |-> [connect |-> Connect_Android, invoke |-> Invoke_Android]]

=============================================================================
