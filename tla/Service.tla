------------------------------- MODULE Service -------------------------------
(***************************************************************************)
(* The life of the JHI service: a request initialises it (processCommand,   *)
(* jhis_init), the event listener reloads a crashed spooler or resets the   *)
(* service (JomEventListenerThread, JhiReset), the operating system asks    *)
(* for a reset (jhi_invoke_reset) and a signal ends it (jhi_stop,           *)
(* jhi_main).  initLock separates requests from jhis_init and JhiReset; the *)
(* state, the EventManager and the VM plugin are also touched outside it.   *)
(*                                                                         *)
(* Commands are reduced to the two kinds this part of the system tells      *)
(* apart: one that opens a session and one (send and receive) that may stay *)
(* in the VM for as long as the applet likes.                               *)
(***************************************************************************)
EXTENDS Startup, FiniteSets

CONSTANTS Clients,    \* the request threads of the command server
          Listeners,  \* threads that run JomEventListenerThread
          Stoppers,   \* termination threads: one signal each
          Pnps,       \* threads on which the OS announces that HECI goes away
          Main,       \* the main thread
          Sessions,   \* application sessions
          Spoolers,   \* handles of spooler sessions in the VM
          Machines,   \* what jhis_init may find on the machine (see Startup)
          None        \* no thread, no session, a NULL handle

Threads == Clients \cup Listeners \cup Stoppers \cup Pnps

ASSUME ServiceAssumption ==
    /\ IsFiniteSet(Threads) /\ IsFiniteSet(Sessions)
    /\ Main \notin Threads
    /\ Clients \cap (Listeners \cup Stoppers \cup Pnps) = {}
    /\ Listeners \cap (Stoppers \cup Pnps) = {} /\ Stoppers \cap Pnps = {}
    /\ \A e \in Machines : e \subseteq Things
    /\ None \notin Threads \cup Sessions \cup Spoolers

VARIABLES pc,              \* where each thread is
          jhi_state,       \* GlobalsManager::jhi_state
          writeLock,       \* initLock: the owner of its _writeLock
          readers,         \* initLock: the readers inside
          registered,      \* GlobalsManager::plugin_registered
          link,            \* the plugin: not set up, connected, connection lost
          initialized,     \* EventManager::initialized
          spooler_handle,  \* EventManager::spooler_handle
          vmSpoolers,      \* spooler sessions open in the VM
          waiting,         \* the handle each listener passed to WaitForSpoolerEvent
          locker,          \* the owner of SessionsManager::_locker
          table,           \* SessionsManager::_sessionList
          vm,              \* application sessions open in the VM
          using,           \* the session each request is inside of, in the VM
          todo,            \* what closeSessionsInVM has still to close
          transportType,   \* GlobalsManager::transportType
          vmType,          \* GlobalsManager::vmType
          fwVersion,       \* GlobalsManager::fwVersion: its major number, 0 while not known
          reset_complete,  \* GlobalsManager::reset_complete
          open             \* the command server's socket is open

lockVars == <<writeLock, readers>>
eventVars == <<initialized, spooler_handle>>
vmVars == <<registered, link, vmSpoolers, vm>>
sessionVars == <<locker, table, using, todo>>
foundVars == <<transportType, vmType, fwVersion>>
serverVars == <<foundVars, reset_complete, open>>
vars == <<pc, jhi_state, lockVars, eventVars, vmVars, waiting, sessionVars, serverVars>>

Init == /\ pc = [t \in Threads \cup {Main} |->
                   CASE t \in Clients   -> "idle"
                     [] t \in Listeners -> "dead"
                     [] t \in Stoppers  -> "sIdle"
                     [] t \in Pnps      -> "pIdle"
                     [] OTHER           -> "listen"]
        /\ jhi_state = "STOPPED"
        /\ writeLock = None /\ readers = {}
        /\ registered = FALSE /\ link = "none"
        /\ initialized = FALSE /\ spooler_handle = None
        /\ vmSpoolers = {} /\ waiting = [l \in Listeners |-> None]
        /\ locker = None /\ table = {} /\ vm = {}
        /\ using = [c \in Clients |-> None] /\ todo = {}
        /\ transportType = "INVALID" /\ vmType = "INVALID" /\ fwVersion = 0
        /\ reset_complete = FALSE
        /\ open = TRUE

Goto(t, l) == pc' = [pc EXCEPT ![t] = l]
At(t, l) == pc[t] = l

-----------------------------------------------------------------------------
(* initLock: a writer first takes _writeLock, which also keeps new readers   *)
(* out, and then waits for the readers inside (see ReadWriteLock).           *)
AcquireWriter(t) ==
    /\ At(t, "enter")
    /\ writeLock = None
    /\ writeLock' = t
    /\ Goto(t, "drain")
    /\ UNCHANGED <<jhi_state, readers, eventVars, vmVars, waiting, sessionVars, serverVars>>

AcquireReader(t) ==
    /\ At(t, "read")
    /\ writeLock = None
    /\ readers' = readers \cup {t}
    /\ Goto(t, IF t \in Pnps THEN "pState" ELSE "command")
    /\ UNCHANGED <<jhi_state, writeLock, eventVars, vmVars, waiting, sessionVars, serverVars>>

\* Mutant: the writer does not wait for the readers inside.
HoldsWriter_NoDrain(t) == writeLock = t
HoldsWriter(t) == writeLock = t /\ readers = {}

-----------------------------------------------------------------------------
(* EventManager::Deinit, for JhiReset, jhi_invoke_reset and the listener.    *)
CloseSpooler == IF initialized /\ registered
                THEN vmSpoolers' = vmSpoolers \ {spooler_handle}
                ELSE UNCHANGED vmSpoolers

DeinitClose(t) ==
    /\ At(t, "dClose")
    /\ CloseSpooler
    /\ Goto(t, "dClear")
    /\ UNCHANGED <<jhi_state, lockVars, eventVars, registered, link, vm, waiting,
                   sessionVars, serverVars>>

DeinitClear(t) ==
    /\ At(t, "dClear")
    /\ initialized' = FALSE
    /\ Goto(t, IF t \in Pnps THEN "pRelease"
               ELSE IF writeLock = t THEN "rPlugin" ELSE "eCheck")
    /\ UNCHANGED <<jhi_state, lockVars, spooler_handle, vmVars, waiting, sessionVars, serverVars>>

(* EventManager::Initialize, for jhis_init (a client) and for the listener. *)
\* Mutant: the listener ends without a reset when the spooler cannot be reloaded.
InitializeFailed_NoReset(t) == Goto(t, IF t \in Clients THEN "initFailed" ELSE "dead")
InitializeFailed(t) == Goto(t, IF t \in Clients THEN "initFailed" ELSE "rClose")

\* if (initialized) return true: the caller takes the 1 for an error code.
InitializeCheck(t) ==
    /\ At(t, "eCheck")
    /\ IF initialized THEN InitializeFailed(t) ELSE Goto(t, "eCreate")
    /\ UNCHANGED <<jhi_state, lockVars, eventVars, vmVars, waiting, sessionVars, serverVars>>

\* Handles are sequence numbers: one that somebody still holds is not reused.
FreshHandle == Spoolers \ (vmSpoolers \cup {spooler_handle} \cup {waiting[l] : l \in Listeners})

\* InstallSpooler and CreateSpoolerSession.  The plugin may open the session and
\* still report failure, when the applet does not take its session id.
CreateSpoolerSession(t) ==
    /\ At(t, "eCreate")
    /\ \/ /\ registered /\ link = "up"
          /\ \E h \in FreshHandle : /\ vmSpoolers' = vmSpoolers \cup {h}
                                    /\ spooler_handle' = h
          /\ \/ Goto(t, "eThread") /\ UNCHANGED initialized
             \/ InitializeFailed(t) /\ initialized' = FALSE
       \/ /\ InitializeFailed(t)
          /\ initialized' = FALSE
          /\ UNCHANGED <<vmSpoolers, spooler_handle>>
    /\ UNCHANGED <<jhi_state, lockVars, registered, link, vm, waiting, sessionVars, serverVars>>

CreateListenerThread(t) ==
    /\ At(t, "eThread")
    /\ \/ /\ \E l \in Listeners : /\ At(l, "dead")
                                  /\ pc' = [pc EXCEPT ![t] = "eDone", ![l] = "start"]
          /\ UNCHANGED <<initialized, vmSpoolers>>
       \/ /\ vmSpoolers' = vmSpoolers \ {spooler_handle}
          /\ initialized' = FALSE
          /\ InitializeFailed(t)
    /\ UNCHANGED <<jhi_state, lockVars, spooler_handle, registered, link, vm, waiting,
                   sessionVars, serverVars>>

InitializeDone(t) ==
    /\ At(t, "eDone")
    /\ initialized' = TRUE
    /\ Goto(t, IF t \in Clients THEN "initDone" ELSE "dead")
    /\ UNCHANGED <<jhi_state, lockVars, spooler_handle, vmVars, waiting, sessionVars, serverVars>>

-----------------------------------------------------------------------------
(* processCommand and jhis_init *)
Arrive(c) == /\ At(c, "idle")
             /\ open
             /\ Goto(c, "state")
             /\ UNCHANGED <<jhi_state, lockVars, eventVars, vmVars, waiting, sessionVars, serverVars>>

ReadState(c) ==
    /\ At(c, "state")
    /\ Goto(c, IF jhi_state = "STOPPED" THEN "enter" ELSE "read")
    /\ UNCHANGED <<jhi_state, lockVars, eventVars, vmVars, waiting, sessionVars, serverVars>>

\* The state is read again under the writer lock.
InitOrNot(c) ==
    /\ At(c, "drain") /\ c \in Clients
    /\ HoldsWriter(c)
    /\ \/ jhi_state = "STOPPED" /\ Goto(c, "init") /\ UNCHANGED writeLock
       \/ jhi_state # "STOPPED" /\ Goto(c, "read") /\ writeLock' = None
    /\ UNCHANGED <<jhi_state, readers, eventVars, vmVars, waiting, sessionVars, serverVars>>

\* JHI_Plugin_Init and JHI_Plugin_DeInit reset the VM, but for a BHv2 VM over
\* the kernel's DAL device, where the kernel may have sessions of its own.
\* Every wait in the plugin ends in any case.
do_vm_reset(transport, type) == ~(transport = "DAL_DEVICE" /\ type = "BEIHAI_V2")
VMReset(transport, type) == /\ vm' = IF do_vm_reset(transport, type) THEN {} ELSE vm
                            /\ vmSpoolers' = {}

\* The settings, the type of the VM and the plugin for it; a type that was
\* found is kept, also when the rest fails.
PluginRegister(e) ==
    LET t == JhiQueryTransportTypeFromRegistry(e)
        v == IF vmType = "INVALID" THEN discoverVmType(t, e) ELSE vmType
    IN IF JhiGetRegistryValues(e) # "JHI_SUCCESS"
       THEN UNCHANGED <<transportType, vmType, registered>>
       ELSE /\ transportType' = t
            /\ vmType' = v
            /\ registered' = (registered \/ JhiPlugin_Register(v, e) = "JHI_SUCCESS")

\* JHI_Plugin_Set_Transport_And_Memory, JHI_Plugin_Init, which resets the
\* VM, and the version of the firmware, for which a failure is not fatal.
jhis_init(c) ==
    /\ At(c, "init")
    /\ \E e \in Machines :
        /\ PluginRegister(e)
        /\ IF registered' /\ JhiGetRegistryValues(e) = "JHI_SUCCESS"
              /\ {"setTransport", "pluginInit"} \subseteq e
           THEN /\ link' = "up"
                /\ VMReset(transportType', vmType')
                /\ fwVersion' = CASE fwVersion # 0 -> fwVersion
                                  [] vmType' = "BEIHAI_V2" -> discoverFwVersion(e)
                                  [] OTHER -> discoverFwVersionLegacy(e)
                /\ Goto(c, "eCheck")
           ELSE /\ UNCHANGED <<link, vm, vmSpoolers, fwVersion>>
                /\ Goto(c, "initFailed")
    /\ UNCHANGED <<jhi_state, lockVars, eventVars, waiting, sessionVars, reset_complete, open>>

\* JHI_Plugin_DeInit and PluginUnregister, when a plugin is registered.
DropPlugin == IF registered
              THEN registered' = FALSE /\ link' = "none" /\ VMReset(transportType, vmType)
              ELSE UNCHANGED vmVars

\* Mutant: the plugin stays registered.
InitFailed_KeepsPlugin(c) ==
    /\ At(c, "initFailed")
    /\ writeLock' = None
    /\ Goto(c, "idle")
    /\ UNCHANGED <<jhi_state, readers, eventVars, vmVars, waiting, sessionVars, serverVars>>

\* Mutant: the writer lock is not released.
InitFailed_KeepsLock(c) ==
    /\ At(c, "initFailed")
    /\ DropPlugin
    /\ Goto(c, "idle")
    /\ UNCHANGED <<jhi_state, lockVars, eventVars, waiting, sessionVars, serverVars>>

InitFailed(c) ==
    /\ At(c, "initFailed")
    /\ DropPlugin
    /\ writeLock' = None
    /\ Goto(c, "idle")
    /\ UNCHANGED <<jhi_state, readers, eventVars, waiting, sessionVars, serverVars>>

InitDone(c) ==
    /\ At(c, "initDone")
    /\ jhi_state' = "INITIALIZED"
    /\ writeLock' = None
    /\ Goto(c, "read")
    /\ UNCHANGED <<readers, eventVars, vmVars, waiting, sessionVars, serverVars>>

\* Under the reader lock: SERVICE_UNAVAILABLE, or one of the commands.
Dispatch(c) ==
    /\ At(c, "command")
    /\ \/ jhi_state = "INITIALIZED" /\ \E l \in {"create", "sar"} : Goto(c, l)
       \/ jhi_state # "INITIALIZED" /\ Goto(c, "reply")
    /\ UNCHANGED <<jhi_state, lockVars, eventVars, vmVars, waiting, sessionVars, serverVars>>

CreateSession(c) ==
    /\ At(c, "create")
    /\ locker = None
    /\ \/ /\ link = "up"
          /\ \E s \in Sessions \ (table \cup vm) : table' = table \cup {s} /\ vm' = vm \cup {s}
       \/ UNCHANGED <<table, vm>>
    /\ Goto(c, "reply")
    /\ UNCHANGED <<jhi_state, lockVars, eventVars, registered, link, vmSpoolers, waiting,
                   locker, using, todo, serverVars>>

\* One request at a time in a session: sessionLock, and the plugin's session_lock.
SendAndRecieve(c) ==
    /\ At(c, "sar")
    /\ locker = None
    /\ \/ \E s \in table \cap vm : /\ \A d \in Clients : using[d] # s
                                   /\ using' = [using EXCEPT ![c] = s]
                                   /\ Goto(c, "inVM")
       \/ Goto(c, "reply") /\ UNCHANGED using
    /\ UNCHANGED <<jhi_state, lockVars, eventVars, vmVars, waiting, locker, table, todo, serverVars>>

LeaveVM(c) == /\ using' = [using EXCEPT ![c] = None]
              /\ Goto(c, "reply")
              /\ UNCHANGED <<jhi_state, lockVars, eventVars, vmVars, waiting, locker, table, todo,
                             serverVars>>

\* The applet answers, or the session is closed under the request.
Answered(c) == At(c, "inVM") /\ using[c] \in vm /\ LeaveVM(c)
Unblocked(c) == At(c, "inVM") /\ using[c] \notin vm /\ LeaveVM(c)

Reply(c) == /\ At(c, "reply")
            /\ readers' = readers \ {c}
            /\ Goto(c, "idle")
            /\ UNCHANGED <<jhi_state, writeLock, eventVars, vmVars, waiting, sessionVars, serverVars>>

-----------------------------------------------------------------------------
(* JhiReset, run by the listener and by jhi_stop *)

\* closeSessionsInVM: nothing to do without a plugin; else under _locker.
CloseSessionsStart(t) ==
    /\ At(t, "rClose")
    /\ \/ ~registered /\ Goto(t, "enter") /\ UNCHANGED <<locker, todo>>
       \/ /\ registered
          /\ locker = None
          /\ locker' = t
          /\ todo' = table
          /\ Goto(t, "rLoop")
    /\ UNCHANGED <<jhi_state, lockVars, eventVars, vmVars, waiting, table, using, serverVars>>

\* JHI_Plugin_CloseSession enters the session under its session_lock, so it
\* waits for a request that is inside the session.
CloseSessionInVM(t) ==
    /\ At(t, "rLoop")
    /\ \E s \in todo : /\ s \in vm => \A c \in Clients : using[c] # s
                       /\ todo' = todo \ {s}
                       /\ vm' = vm \ {s}
    /\ UNCHANGED <<pc, jhi_state, lockVars, eventVars, registered, link, vmSpoolers, waiting,
                   locker, table, using, serverVars>>

\* Mutant: _locker stays locked.
CloseSessionsEnd_KeepsLock(t) ==
    /\ At(t, "rLoop")
    /\ todo = {}
    /\ Goto(t, "enter")
    /\ UNCHANGED <<jhi_state, lockVars, eventVars, vmVars, waiting, sessionVars, serverVars>>

CloseSessionsEnd(t) ==
    /\ At(t, "rLoop")
    /\ todo = {}
    /\ locker' = None
    /\ Goto(t, "enter")
    /\ UNCHANGED <<jhi_state, lockVars, eventVars, vmVars, waiting, table, using, todo, serverVars>>

ResetDone(t) == Goto(t, IF t \in Stoppers THEN "sDone" ELSE "dead")

ResetOrNot(t) ==
    /\ At(t, "drain") /\ t \notin Clients
    /\ HoldsWriter(t)
    /\ \/ jhi_state = "STOPPED" /\ ResetDone(t) /\ writeLock' = None
       \/ jhi_state # "STOPPED" /\ Goto(t, "rTable") /\ UNCHANGED writeLock
    /\ UNCHANGED <<jhi_state, readers, eventVars, vmVars, waiting, sessionVars, serverVars>>

\* resetSessionManager
ResetTable(t) ==
    /\ At(t, "rTable")
    /\ locker = None
    /\ table' = {}
    /\ Goto(t, "dClose")
    /\ UNCHANGED <<jhi_state, lockVars, eventVars, vmVars, waiting, locker, using, todo, serverVars>>

ResetPlugin(t) ==
    /\ At(t, "rPlugin")
    /\ DropPlugin
    /\ Goto(t, "rStopped")
    /\ UNCHANGED <<jhi_state, lockVars, eventVars, waiting, sessionVars, serverVars>>

ResetStopped(t) ==
    /\ At(t, "rStopped")
    /\ jhi_state' = "STOPPED"
    /\ Goto(t, "rSignal")
    /\ UNCHANGED <<lockVars, eventVars, vmVars, waiting, sessionVars, serverVars>>

\* sendResetCompleteEvent, then the writer lock is released.
ResetSignal(t) ==
    /\ At(t, "rSignal")
    /\ reset_complete' = TRUE
    /\ writeLock' = None
    /\ ResetDone(t)
    /\ UNCHANGED <<jhi_state, readers, eventVars, vmVars, waiting, sessionVars, foundVars, open>>

-----------------------------------------------------------------------------
(* JomEventListenerThread *)
ListenerStart(l) ==
    /\ At(l, "start")
    /\ Goto(l, IF registered THEN "call" ELSE "dead")
    /\ UNCHANGED <<jhi_state, lockVars, eventVars, vmVars, waiting, sessionVars, serverVars>>

ListenerCall(l) ==
    /\ At(l, "call")
    /\ waiting' = [waiting EXCEPT ![l] = spooler_handle]
    /\ Goto(l, "inSpooler")
    /\ UNCHANGED <<jhi_state, lockVars, eventVars, vmVars, sessionVars, serverVars>>

\* An event is delivered (see Events) and the loop goes on.
ListenerEvent(l) ==
    /\ At(l, "inSpooler")
    /\ waiting[l] \in vmSpoolers
    /\ waiting' = [waiting EXCEPT ![l] = None]
    /\ Goto(l, "call")
    /\ UNCHANGED <<jhi_state, lockVars, eventVars, vmVars, sessionVars, serverVars>>

\* The call fails.  A status that names the applet (JHI_APPLET_FATAL and the
\* like) leads to a reload while JHI is initialised; any other leads to a reset.
ListenerFails(l) ==
    /\ At(l, "inSpooler")
    /\ waiting[l] \notin vmSpoolers
    /\ waiting' = [waiting EXCEPT ![l] = None]
    /\ \/ jhi_state = "INITIALIZED" /\ Goto(l, "reload")
       \/ Goto(l, "rClose")
    /\ UNCHANGED <<jhi_state, lockVars, eventVars, vmVars, sessionVars, serverVars>>

ListenerReload(l) ==
    /\ At(l, "reload")
    /\ spooler_handle' = None
    /\ Goto(l, "dClose")
    /\ UNCHANGED <<jhi_state, lockVars, initialized, vmVars, waiting, sessionVars, serverVars>>

-----------------------------------------------------------------------------
(* jhi_stop, on the thread a signal starts *)
StopServer(p) ==
    /\ At(p, "sIdle")
    /\ open' = FALSE
    /\ Goto(p, "sCheck")
    /\ UNCHANGED <<jhi_state, lockVars, eventVars, vmVars, waiting, sessionVars, foundVars, reset_complete>>

StopCheck(p) ==
    /\ At(p, "sCheck")
    /\ Goto(p, IF jhi_state = "INITIALIZED" THEN "sStopping" ELSE "sDone")
    /\ UNCHANGED <<jhi_state, lockVars, eventVars, vmVars, waiting, sessionVars, serverVars>>

StopReset(p) ==
    /\ At(p, "sStopping")
    /\ jhi_state' = "STOPPING"
    /\ Goto(p, "rClose")
    /\ UNCHANGED <<lockVars, eventVars, vmVars, waiting, sessionVars, serverVars>>

(* jhi_invoke_reset *)
PnpCall(p) ==
    /\ At(p, "pIdle")
    /\ Goto(p, "read")
    /\ UNCHANGED <<jhi_state, lockVars, eventVars, vmVars, waiting, sessionVars, serverVars>>

PnpState(p) ==
    /\ At(p, "pState")
    /\ \/ jhi_state = "INITIALIZED" /\ jhi_state' = "STOPPING" /\ Goto(p, "dClose")
       \/ jhi_state # "INITIALIZED" /\ Goto(p, "pRelease") /\ UNCHANGED jhi_state
    /\ UNCHANGED <<lockVars, eventVars, vmVars, waiting, sessionVars, serverVars>>

PnpRelease(p) ==
    /\ At(p, "pRelease")
    /\ readers' = readers \ {p}
    /\ Goto(p, "pWait")
    /\ UNCHANGED <<jhi_state, writeLock, eventVars, vmVars, waiting, sessionVars, serverVars>>

\* waitForResetComplete
WaitForReset(t, from, to) ==
    /\ At(t, from)
    /\ reset_complete
    /\ reset_complete' = FALSE
    /\ Goto(t, to)
    /\ UNCHANGED <<jhi_state, lockVars, eventVars, vmVars, waiting, sessionVars, foundVars, open>>

PnpWait(p) == WaitForReset(p, "pWait", "pIdle")

(* jhi_main *)
MainStops == /\ At(Main, "listen")
             /\ ~open
             /\ Goto(Main, "mState")
             /\ UNCHANGED <<jhi_state, lockVars, eventVars, vmVars, waiting, sessionVars, serverVars>>

MainState ==
    /\ At(Main, "mState")
    /\ Goto(Main, IF jhi_state # "STOPPED" THEN "mWait" ELSE "exit")
    /\ UNCHANGED <<jhi_state, lockVars, eventVars, vmVars, waiting, sessionVars, serverVars>>

MainWait == WaitForReset(Main, "mWait", "exit")

-----------------------------------------------------------------------------
(* The firmware *)
\* The spooler applet crashes or its session is killed.
SpoolerDies == \E h \in vmSpoolers :
    /\ vmSpoolers' = vmSpoolers \ {h}
    /\ UNCHANGED <<pc, jhi_state, lockVars, eventVars, registered, link, vm, waiting, sessionVars,
                   serverVars>>

\* The connection breaks: every session and every wait ends.
LinkLost == /\ link = "up"
            /\ link' = "lost"
            /\ vm' = {} /\ vmSpoolers' = {}
            /\ UNCHANGED <<pc, jhi_state, lockVars, eventVars, registered, waiting, sessionVars,
                           serverVars>>

LockStep(t) == AcquireWriter(t) \/ AcquireReader(t)
DeinitStep(t) == DeinitClose(t) \/ DeinitClear(t)
InitializeStep(t) == \/ InitializeCheck(t) \/ CreateSpoolerSession(t)
                     \/ CreateListenerThread(t) \/ InitializeDone(t)
ResetStep(t) == \/ CloseSessionsStart(t) \/ CloseSessionInVM(t) \/ CloseSessionsEnd(t)
                \/ ResetOrNot(t) \/ ResetTable(t) \/ ResetPlugin(t)
                \/ ResetStopped(t) \/ ResetSignal(t)
ClientStep(c) == \/ ReadState(c) \/ InitOrNot(c) \/ jhis_init(c) \/ InitFailed(c) \/ InitDone(c)
                 \/ Dispatch(c) \/ CreateSession(c) \/ SendAndRecieve(c) \/ Unblocked(c)
                 \/ Reply(c) \/ LockStep(c) \/ InitializeStep(c)
ListenerStep(l) == \/ ListenerStart(l) \/ ListenerCall(l) \/ ListenerFails(l)
                   \/ ListenerReload(l) \/ DeinitStep(l) \/ InitializeStep(l)
                   \/ LockStep(l) \/ ResetStep(l)
StopperStep(p) == \/ StopCheck(p) \/ StopReset(p) \/ LockStep(p) \/ DeinitStep(p) \/ ResetStep(p)
PnpStep(p) == PnpState(p) \/ PnpRelease(p) \/ PnpWait(p) \/ LockStep(p) \/ DeinitStep(p)
MainStep == MainStops \/ MainState \/ MainWait

\* When jhi_main returns the process is gone.
Running == ~At(Main, "exit")

Next == /\ Running
        /\ \/ \E c \in Clients : Arrive(c) \/ Answered(c) \/ ClientStep(c)
           \/ \E l \in Listeners : ListenerEvent(l) \/ ListenerStep(l)
           \/ \E p \in Stoppers : StopServer(p) \/ StopperStep(p)
           \/ \E p \in Pnps : PnpCall(p) \/ PnpStep(p)
           \/ MainStep
           \/ SpoolerDies \/ LinkLost

Spec == Init /\ [][Next]_vars

-----------------------------------------------------------------------------
InCommand == {c \in Clients : pc[c] \in {"create", "sar", "inVM"}}
Resetters == {t \in Listeners \cup Stoppers : pc[t] \notin {"dead", "sIdle", "sCheck", "sDone"}}

\* A command never runs while the plugin is not set up: jhis_init and JhiReset
\* keep out of the way of every request that holds initLock as a reader.
CommandsHavePlugin == InCommand # {} => registered /\ link # "none"

\* Whenever nobody is inside jhis_init or JhiReset, an initialised service has its
\* plugin, and a stopped one has neither plugin nor sessions, not even in the VM
\* if that is reset.
StateMatchesPlugin ==
    writeLock = None =>
        /\ jhi_state = "INITIALIZED" => registered /\ link # "none"
        /\ jhi_state = "STOPPED" =>
            ~registered /\ table = {} /\ (do_vm_reset(transportType, vmType) => vm = {})

\* While the service is not stopped some thread is left that will reset it when
\* the firmware goes away: a listener, or a jhi_stop on its way to JhiReset.
SomeoneWillReset == jhi_state # "STOPPED" => Resetters # {}

\* No thread waits for a lock forever while others pass, and none stops by
\* itself; the applet alone may keep a request in the VM for good.
Fairness == /\ \A c \in Clients : SF_vars(Running /\ ClientStep(c))
            /\ \A l \in Listeners : SF_vars(Running /\ ListenerStep(l))
            /\ \A p \in Stoppers : SF_vars(Running /\ StopperStep(p))
            /\ \A p \in Pnps : SF_vars(Running /\ PnpStep(p))
            /\ WF_vars(Running /\ MainStep)
LiveSpec == Spec /\ Fairness
AppletsAnswer == \A c \in Clients : WF_vars(Running /\ Answered(c))

\* When the connection to the firmware is lost, the listener resets the service,
\* whatever the requests in the VM were waiting for.
LossResets == link = "lost" ~> jhi_state = "STOPPED"

\* If applets answer, every request is answered, also across resets.
RequestsAnswered == AppletsAnswer => \A c \in Clients : []<>At(c, "idle")
==============================================================================
