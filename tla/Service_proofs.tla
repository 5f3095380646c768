--------------------------- MODULE Service_proofs ---------------------------
(***************************************************************************)
(* The life of the service for any number of requests, listeners, signals  *)
(* and resets.  ServiceInv, the inductive invariant, has three parts: who  *)
(* holds initLock at which place (LockInv), what the holder of its writer  *)
(* side knows about the plugin and the table (PluginInv), and who is left  *)
(* to reset the service (ResetInv).                                        *)
(***************************************************************************)
EXTENDS Service, TLAPS

ResetPC == {"drain", "rTable", "rPlugin", "rStopped", "rSignal"}
CloseLoop == {"rClose", "rLoop", "enter"}
InitPC == {"drain", "init", "eCheck", "eCreate", "eThread", "eDone", "initDone", "initFailed"}
ReadPC == {"command", "create", "sar", "inVM", "reply"}
DeinitPC == {"dClose", "dClear"}
ClientPC == {"idle", "state", "enter", "read"} \cup ReadPC \cup InitPC
ListenerPC == {"dead", "start", "call", "inSpooler", "reload", "eCheck", "eCreate", "eThread", "eDone"}
              \cup CloseLoop \cup ResetPC \cup DeinitPC
StopperPC == {"sIdle", "sCheck", "sStopping", "sDone"} \cup CloseLoop \cup ResetPC \cup DeinitPC
PnpPC == {"pIdle", "read", "pState", "pRelease", "pWait"} \cup DeinitPC
MainPC == {"listen", "mState", "mWait", "exit"}

TypeOK == /\ pc \in [Threads \cup {Main} -> ClientPC \cup ListenerPC \cup StopperPC \cup PnpPC \cup MainPC]
          /\ \A c \in Clients : pc[c] \in ClientPC
          /\ \A l \in Listeners : pc[l] \in ListenerPC
          /\ \A p \in Stoppers : pc[p] \in StopperPC
          /\ \A p \in Pnps : pc[p] \in PnpPC
          /\ pc[Main] \in MainPC
          /\ jhi_state \in {"STOPPED", "INITIALIZED", "STOPPING"}
          /\ registered \in BOOLEAN
          /\ link \in {"none", "up", "lost"}

\* The holder of the writer lock is inside once the readers have left.
Inside(t) == writeLock = t /\ pc[t] # "drain"
NobodyInside == \A t \in Threads : ~Inside(t)
LockInv ==
    /\ \A c \in Clients : writeLock = c <=> pc[c] \in InitPC
    /\ \A t \in Listeners \cup Stoppers : /\ pc[t] \in ResetPC => writeLock = t
                                          /\ writeLock = t => pc[t] \in ResetPC \cup DeinitPC
    /\ \A p \in Stoppers : pc[p] \in DeinitPC => writeLock = p
    /\ \A p \in Pnps : writeLock # p
    /\ \A c \in Clients : pc[c] \in ReadPC => c \in readers
    /\ \A p \in Pnps : pc[p] \in {"pState", "pRelease"} \cup DeinitPC => p \in readers
    /\ \A t \in Threads : Inside(t) => readers = {}

\* Once jhis_init has set the plugin up.
SetUp == {"eCheck", "eCreate", "eThread", "eDone", "initDone"}
\* What the request inside jhis_init knows, and the thread inside JhiReset.
InitKnows(c) ==
    Inside(c) => /\ jhi_state # "INITIALIZED" /\ table = {}
                 /\ pc[c] \in SetUp => registered = TRUE /\ link # "none"
ResetKnows(t) ==
    Inside(t) => /\ pc[t] # "rTable" => table = {}
                 /\ pc[t] \in {"rStopped", "rSignal"} => registered = FALSE
                 /\ pc[t] = "rSignal" => jhi_state # "INITIALIZED"
PluginInv ==
    /\ registered = FALSE => link = "none"
    /\ \A c \in Clients : InitKnows(c)
    /\ \A t \in Listeners \cup Stoppers : ResetKnows(t)
    /\ NobodyInside => /\ jhi_state = "INITIALIZED" => registered = TRUE /\ link # "none"
                       /\ jhi_state = "STOPPED" => registered = FALSE /\ table = {}
    /\ \A c \in InCommand : registered = TRUE /\ link # "none"

\* A jhi_stop on its way to the end of JhiReset, and one that has still to enter it.
StopsPC == CloseLoop \cup DeinitPC \cup {"drain", "rTable", "rPlugin", "rStopped"}
Stops(p) == pc[p] \in StopsPC
StopsLater == \E p \in Stoppers : pc[p] \in CloseLoop
NotWatching == {"dead", "sIdle", "sCheck", "sDone", "eDone"}
Watches(t) == pc[t] \notin NotWatching
SomeoneWatches == \E t \in Listeners \cup Stoppers : Watches(t)
ResetInv ==
    /\ jhi_state # "STOPPED" => SomeoneWatches
    /\ \A c \in Clients : pc[c] \in {"eDone", "initDone"} => SomeoneWatches
    /\ \A c \in Clients : Inside(c) /\ jhi_state # "STOPPED" => StopsLater
    /\ \A t \in Listeners \cup Stoppers : pc[t] = "rSignal" /\ jhi_state # "STOPPED" => StopsLater
    /\ registered = FALSE /\ jhi_state # "STOPPED" =>
          \/ \E p \in Stoppers : Stops(p)
          \/ \E l \in Listeners : pc[l] = "rStopped"

ServiceInv == TypeOK /\ LockInv /\ PluginInv /\ ResetInv

-----------------------------------------------------------------------------
\* The CASE of Init, one kind of thread at a time.
LEMMA InitPlaces ==
    ASSUME Init
    PROVE  /\ \A c \in Clients : pc[c] = "idle"
           /\ \A l \in Listeners : pc[l] = "dead"
           /\ \A p \in Stoppers : pc[p] = "sIdle"
           /\ \A p \in Pnps : pc[p] = "pIdle"
           /\ pc[Main] = "listen"
           /\ pc = [t \in Threads \cup {Main} |-> pc[t]]
           /\ jhi_state = "STOPPED" /\ writeLock = None /\ readers = {}
           /\ registered = FALSE /\ link = "none" /\ table = {} /\ vm = {}
           /\ transportType = "INVALID"
  BY ServiceAssumption, Zenon DEF Init, Threads

LEMMA InitType == Init => TypeOK
  BY InitPlaces, ServiceAssumption, Zenon DEF TypeOK, Threads, ClientPC, ListenerPC, StopperPC, PnpPC, MainPC,
     CloseLoop, ResetPC, DeinitPC, InitPC, ReadPC

USE DEF Goto, At

-----------------------------------------------------------------------------
(* Places and locks *)
\* jhis_init without the version of the firmware, which nothing here depends on.
InitEffect(c) ==
    /\ pc[c] = "init"
    /\ \E e \in Machines :
        /\ PluginRegister(e)
        /\ \/ /\ registered' /\ JhiGetRegistryValues(e) = "JHI_SUCCESS"
              /\ link' = "up" /\ VMReset(transportType', vmType')
              /\ pc' = [pc EXCEPT ![c] = "eCheck"]
           \/ UNCHANGED <<link, vm, vmSpoolers>> /\ pc' = [pc EXCEPT ![c] = "initFailed"]
    /\ UNCHANGED <<jhi_state, writeLock, readers, table>>

LEMMA InitHasEffect == ASSUME NEW c, jhis_init(c) PROVE InitEffect(c)
  BY Zenon DEF jhis_init, InitEffect, lockVars, sessionVars

LEMMA InitEffectType ==
    ASSUME TypeOK, NEW c, InitEffect(c)
    PROVE  registered' \in BOOLEAN /\ link' \in {"none", "up", "lost"}
<1>1. PICK e \in Machines : PluginRegister(e) /\ (link' = "up" \/ link' = link)
  BY Zenon DEF InitEffect
<1>2. registered' \in BOOLEAN
  BY <1>1, Zenon DEF PluginRegister, TypeOK
<1> QED
  BY <1>1, <1>2, Zenon DEF TypeOK

\* jhis_init does not take the plugin back.
LEMMA InitKeeps ==
    ASSUME TypeOK, NEW c, jhis_init(c) PROVE registered' = FALSE => registered = FALSE
<1>1. PICK e \in Machines : PluginRegister(e)
  BY InitHasEffect, Zenon DEF InitEffect
<1> QED
  BY <1>1, Zenon DEF PluginRegister, TypeOK

\* The plugin is dropped, or there was none.
LEMMA Dropped ==
    ASSUME TypeOK, DropPlugin, registered = FALSE => link = "none"
    PROVE  /\ registered' = FALSE /\ link' = "none"
           /\ vm' = vm \/ (registered = TRUE /\ do_vm_reset(transportType, vmType) /\ vm' = {})
           /\ registered = TRUE /\ do_vm_reset(transportType, vmType) => vm' = {}
  BY Zenon DEF DropPlugin, VMReset, TypeOK, vmVars
Base == TypeOK /\ LockInv

LEMMA InitBase == Init => Base
  BY InitPlaces, InitType, ServiceAssumption, Zenon DEF Base, LockInv, Inside, Threads, ResetPC, DeinitPC,
     InitPC, ReadPC

\* The kinds of thread, and who holds the writer side of initLock.
LEMMA Kinds ==
    /\ None \notin Threads /\ Main \notin Threads
    /\ \A c \in Clients : c \in Threads /\ c \notin Listeners /\ c \notin Stoppers /\ c \notin Pnps
    /\ \A l \in Listeners : l \in Threads /\ l \notin Clients /\ l \notin Stoppers /\ l \notin Pnps
    /\ \A p \in Stoppers : p \in Threads /\ p \notin Clients /\ p \notin Listeners /\ p \notin Pnps
    /\ \A p \in Pnps : p \in Threads /\ p \notin Clients /\ p \notin Listeners /\ p \notin Stoppers
  BY ServiceAssumption, Zenon DEF Threads

LEMMA Writers ==
    ASSUME Base
    PROVE  /\ \A c \in Clients : pc[c] \in InitPC => writeLock = c
           /\ \A t \in Listeners \cup Stoppers : pc[t] \in ResetPC => writeLock = t
  BY Zenon DEF Base, LockInv

\* Once inside, the writer is alone.
LEMMA Held ==
    ASSUME Base, NEW t \in Threads, writeLock = t, pc[t] # "drain" PROVE readers = {}
  BY Zenon DEF Base, LockInv, Inside

LEMMA BaseLocks ==
    ASSUME Base, NEW t \in Threads, LockStep(t) \/ DeinitStep(t) PROVE Base'
<1> USE ServiceAssumption DEF Base, TypeOK, LockInv, Inside, Threads, ClientPC, ListenerPC, StopperPC,
        PnpPC, MainPC, CloseLoop, ResetPC, DeinitPC, InitPC, ReadPC, vmVars, lockVars, serverVars, foundVars
<1>1. CASE AcquireWriter(t)
  BY <1>1 DEF AcquireWriter
<1>2. CASE AcquireReader(t)
  BY <1>2 DEF AcquireReader
<1>3. CASE DeinitClose(t)
  BY <1>3 DEF DeinitClose, CloseSpooler
<1>4. CASE DeinitClear(t)
  BY <1>4 DEF DeinitClear
<1> QED
  BY <1>1, <1>2, <1>3, <1>4, Zenon DEF LockStep, DeinitStep

LEMMA BaseInitialize ==
    ASSUME Base, NEW t \in Clients \cup Listeners, InitializeStep(t) PROVE Base'
<1> USE ServiceAssumption DEF Base, TypeOK, LockInv, Inside, Threads, ClientPC, ListenerPC, StopperPC,
        PnpPC, MainPC, CloseLoop, ResetPC, DeinitPC, InitPC, ReadPC, vmVars, lockVars, serverVars, foundVars
<1>1. CASE InitializeCheck(t)
  BY <1>1 DEF InitializeCheck, InitializeFailed
<1>2. CASE CreateSpoolerSession(t)
  BY <1>2 DEF CreateSpoolerSession, InitializeFailed
<1>3. CASE CreateListenerThread(t)
  BY <1>3 DEF CreateListenerThread, InitializeFailed
<1>4. CASE InitializeDone(t)
  BY <1>4 DEF InitializeDone
<1> QED
  BY <1>1, <1>2, <1>3, <1>4, Zenon DEF InitializeStep

LEMMA BaseReset ==
    ASSUME Base, NEW t \in Listeners \cup Stoppers, ResetStep(t) PROVE Base'
<1> USE ServiceAssumption DEF Base, TypeOK, LockInv, Inside, Threads, ClientPC, ListenerPC, StopperPC,
        PnpPC, MainPC, CloseLoop, ResetPC, DeinitPC, InitPC, ReadPC, vmVars, lockVars, serverVars, foundVars
<1>1. CASE CloseSessionsStart(t)
  BY <1>1 DEF CloseSessionsStart
<1>2. CASE CloseSessionInVM(t)
  BY <1>2 DEF CloseSessionInVM
<1>3. CASE CloseSessionsEnd(t)
  BY <1>3 DEF CloseSessionsEnd
<1>4. CASE ResetOrNot(t)
  BY <1>4 DEF ResetOrNot, HoldsWriter, ResetDone
<1>5. CASE ResetTable(t)
  BY <1>5 DEF ResetTable
<1>6. CASE ResetPlugin(t)
  BY <1>6, ZenonT(40) DEF ResetPlugin, DropPlugin, VMReset
<1>7. CASE ResetStopped(t)
  BY <1>7 DEF ResetStopped
<1>8. CASE ResetSignal(t)
  BY <1>8 DEF ResetSignal, ResetDone
<1> QED
  BY <1>1, <1>2, <1>3, <1>4, <1>5, <1>6, <1>7, <1>8, Zenon DEF ResetStep

LEMMA BaseClient ==
    ASSUME Base, NEW c \in Clients, Arrive(c) \/ Answered(c) \/ ClientStep(c) PROVE Base'
<1> USE ServiceAssumption DEF Base, TypeOK, LockInv, Inside, Threads, ClientPC, ListenerPC, StopperPC,
        PnpPC, MainPC, CloseLoop, ResetPC, DeinitPC, InitPC, ReadPC, vmVars, lockVars, serverVars, foundVars
<1>1. CASE Arrive(c)
  BY <1>1 DEF Arrive
<1>2. CASE Answered(c)
  BY <1>2 DEF Answered, LeaveVM
<1>3. CASE ReadState(c)
  BY <1>3 DEF ReadState
<1>4. CASE InitOrNot(c)
  BY <1>4 DEF InitOrNot, HoldsWriter
<1>5. CASE jhis_init(c)
  <2>1. registered' \in BOOLEAN /\ link' \in {"none", "up", "lost"}
    BY <1>5, InitHasEffect, InitEffectType, Zenon
  <2>2. \E x \in {"eCheck", "initFailed"} : pc' = [pc EXCEPT ![c] = x]
    BY <1>5, InitHasEffect, Zenon DEF InitEffect
  <2>3. pc[c] = "init" /\ UNCHANGED <<jhi_state, writeLock, readers>>
    BY <1>5, InitHasEffect, Zenon DEF InitEffect
  <2> QED
    BY <2>1, <2>2, <2>3
<1>6. CASE InitFailed(c)
  <2>1. registered' \in BOOLEAN /\ link' \in {"none", "up", "lost"}
    BY <1>6, Zenon DEF InitFailed, DropPlugin
  <2> QED
    BY <1>6, <2>1 DEF InitFailed
<1>7. CASE InitDone(c)
  BY <1>7 DEF InitDone
<1>8. CASE Dispatch(c)
  BY <1>8 DEF Dispatch
<1>9. CASE CreateSession(c)
  BY <1>9 DEF CreateSession
<1>10. CASE SendAndRecieve(c)
  BY <1>10 DEF SendAndRecieve
<1>11. CASE Unblocked(c)
  BY <1>11 DEF Unblocked, LeaveVM
<1>12. CASE Reply(c)
  BY <1>12 DEF Reply
<1> QED
  BY <1>1, <1>2, <1>3, <1>4, <1>5, <1>6, <1>7, <1>8, <1>9, <1>10, <1>11, <1>12, BaseLocks, BaseInitialize, Zenon DEF ClientStep

LEMMA BaseListener ==
    ASSUME Base, NEW l \in Listeners, ListenerEvent(l) \/ ListenerStep(l) PROVE Base'
<1> USE ServiceAssumption DEF Base, TypeOK, LockInv, Inside, Threads, ClientPC, ListenerPC, StopperPC,
        PnpPC, MainPC, CloseLoop, ResetPC, DeinitPC, InitPC, ReadPC, vmVars, lockVars, serverVars, foundVars
<1>1. CASE ListenerStart(l)
  BY <1>1 DEF ListenerStart
<1>2. CASE ListenerCall(l)
  BY <1>2 DEF ListenerCall
<1>3. CASE ListenerEvent(l)
  BY <1>3 DEF ListenerEvent
<1>4. CASE ListenerFails(l)
  BY <1>4 DEF ListenerFails
<1>5. CASE ListenerReload(l)
  BY <1>5 DEF ListenerReload
<1> QED
  BY <1>1, <1>2, <1>3, <1>4, <1>5, BaseLocks, BaseInitialize, BaseReset, Zenon DEF ListenerStep

LEMMA BaseStopper ==
    ASSUME Base, NEW p \in Stoppers, StopServer(p) \/ StopperStep(p) PROVE Base'
<1> USE ServiceAssumption DEF Base, TypeOK, LockInv, Inside, Threads, ClientPC, ListenerPC, StopperPC,
        PnpPC, MainPC, CloseLoop, ResetPC, DeinitPC, InitPC, ReadPC, vmVars, lockVars, serverVars, foundVars
<1>1. CASE StopServer(p)
  BY <1>1 DEF StopServer
<1>2. CASE StopCheck(p)
  BY <1>2 DEF StopCheck
<1>3. CASE StopReset(p)
  BY <1>3 DEF StopReset
<1> QED
  BY <1>1, <1>2, <1>3, BaseLocks, BaseReset, Zenon DEF StopperStep

LEMMA BasePnp ==
    ASSUME Base, NEW p \in Pnps, PnpCall(p) \/ PnpStep(p) PROVE Base'
<1> USE ServiceAssumption DEF Base, TypeOK, LockInv, Inside, Threads, ClientPC, ListenerPC, StopperPC,
        PnpPC, MainPC, CloseLoop, ResetPC, DeinitPC, InitPC, ReadPC, vmVars, lockVars, serverVars, foundVars
<1>1. CASE PnpCall(p)
  BY <1>1 DEF PnpCall
<1>2. CASE PnpState(p)
  BY <1>2 DEF PnpState
<1>3. CASE PnpRelease(p)
  BY <1>3 DEF PnpRelease
<1>4. CASE PnpWait(p)
  BY <1>4 DEF PnpWait, WaitForReset
<1> QED
  BY <1>1, <1>2, <1>3, <1>4, BaseLocks, Zenon DEF PnpStep

LEMMA BaseStep == ASSUME Base, [Next]_vars PROVE Base'
<1>1. CASE UNCHANGED vars
  BY <1>1, Zenon DEF vars, lockVars, vmVars, Base, TypeOK, LockInv, Inside
<1>2. MainStep \/ SpoolerDies \/ LinkLost => Base'
  BY ServiceAssumption DEF MainStep, MainStops, MainState, MainWait, WaitForReset, SpoolerDies, LinkLost,
     Base, TypeOK, LockInv, Inside, Threads, MainPC, lockVars, vmVars, serverVars
<1>3. CASE Next
  BY <1>2, <1>3, BaseClient, BaseListener, BaseStopper, BasePnp, Zenon DEF Next
<1> QED
  BY <1>1, <1>3, Zenon

-----------------------------------------------------------------------------
(* The plugin and the table *)
LEMMA InitPlugin == Init => PluginInv
  BY InitPlaces, ServiceAssumption, Zenon DEF PluginInv, InitKnows, ResetKnows, Inside, InCommand, Threads

\* While a reader is inside no writer is.
LEMMA ReaderAlone ==
    ASSUME Base, NEW t \in readers PROVE NobodyInside
  BY Zenon DEF Base, LockInv, NobodyInside

\* A step that moves nobody.
LEMMA PluginFrame ==
    ASSUME PluginInv, UNCHANGED <<pc, jhi_state, writeLock, registered, table>>,
           link' = link \/ (link = "up" /\ link' = "lost")
    PROVE  PluginInv'
<1>1. (NobodyInside' <=> NobodyInside) /\ \A t : Inside(t)' <=> Inside(t)
  BY Zenon DEF NobodyInside, Inside
<1>2. InCommand' = InCommand
  BY Zenon DEF InCommand
<1>3. \A c \in Clients : InitKnows(c)'
  BY <1>1, Zenon DEF PluginInv, InitKnows
<1>4. \A t \in Listeners \cup Stoppers : ResetKnows(t)'
  BY <1>1, Zenon DEF PluginInv, ResetKnows
<1> QED
  BY <1>1, <1>2, <1>3, <1>4, Zenon DEF PluginInv

\* A step of one thread that neither enters nor leaves the writer side.
LEMMA PluginMove ==
    ASSUME Base, PluginInv, NEW t \in Threads \cup {Main}, NEW y, Goto(t, y), y # "drain", pc[t] # "drain",
           UNCHANGED <<writeLock, registered, link, table>>,
           jhi_state' = jhi_state \/ jhi_state' = "STOPPING",
           t \in Clients => /\ y \in SetUp => pc[t] \in SetUp
                            /\ y \in {"create", "sar", "inVM"} => pc[t] \in {"create", "sar", "inVM"},
           t \in Listeners \cup Stoppers => pc[t] # "rTable" /\ y \notin {"rStopped", "rSignal"}
    PROVE  PluginInv'
<1>1. pc'[t] = y /\ \A u \in Threads : u # t => pc'[u] = pc[u]
  BY Zenon DEF Base, TypeOK
<1>2. \A u \in Threads : Inside(u)' <=> Inside(u)
  BY <1>1, Zenon DEF Inside
<1>3. NobodyInside' <=> NobodyInside
  BY <1>2, Zenon DEF NobodyInside
<1>4. \A c \in Clients : InitKnows(c)'
  BY <1>1, <1>2, Kinds, Zenon DEF PluginInv, InitKnows
<1>5. \A u \in Listeners \cup Stoppers : ResetKnows(u)'
  BY <1>1, <1>2, Kinds, Zenon DEF PluginInv, ResetKnows
<1>6. \A c \in Clients : c \in InCommand' => c \in InCommand
  BY <1>1, Kinds, Zenon DEF InCommand
<1>7. InCommand' \subseteq Clients
  BY Zenon DEF InCommand
<1> QED
  BY <1>3, <1>4, <1>5, <1>6, <1>7, Zenon DEF PluginInv

\* What is left to show of a step of the holder of the writer side.
LEMMA PluginWriter ==
    ASSUME Base, PluginInv, NEW t \in Threads, NEW y, Goto(t, y), writeLock = t,
           writeLock' = t \/ writeLock' = None, readers = {},
           registered' = FALSE => link' = "none",
           y \notin {"create", "sar", "inVM"},
           t \in Clients => InitKnows(t)', t \in Listeners \cup Stoppers => ResetKnows(t)',
           NobodyInside' => /\ jhi_state' = "INITIALIZED" => registered' = TRUE /\ link' # "none"
                            /\ jhi_state' = "STOPPED" => registered' = FALSE /\ table' = {}
    PROVE  PluginInv'
<1>1. pc'[t] = y /\ \A u \in Threads : u # t => pc'[u] = pc[u]
  BY Zenon DEF Base, TypeOK
<1>2. \A u \in Threads : u # t => ~Inside(u)'
  BY <1>1, Kinds, Zenon DEF Inside
<1>3. \A c \in Clients : InitKnows(c)'
  BY <1>2, Kinds, Zenon DEF InitKnows
<1>4. \A u \in Listeners \cup Stoppers : ResetKnows(u)'
  BY <1>2, Kinds, Zenon DEF ResetKnows
<1>5. InCommand = {}
  BY Zenon DEF Base, LockInv, InCommand, ReadPC
<1>6. InCommand' = {}
  BY <1>1, <1>5, Kinds, Zenon DEF InCommand
<1> QED
  BY <1>3, <1>4, <1>6, Zenon DEF PluginInv

LEMMA PluginLocks ==
    ASSUME Base, PluginInv, NEW t \in Threads, LockStep(t) \/ DeinitStep(t) PROVE PluginInv'
<1> USE DEF SetUp, vmVars, lockVars, sessionVars
<1>1. CASE AcquireWriter(t)
  <2>1. /\ pc'[t] = "drain" /\ writeLock = None /\ writeLock' = t
        /\ \A u \in Threads : u # t => pc'[u] = pc[u]
        /\ UNCHANGED <<registered, link, table, jhi_state>>
    BY <1>1, Zenon DEF AcquireWriter, Base, TypeOK
  <2>2. NobodyInside /\ \A u \in Threads : ~Inside(u)'
    BY <2>1, Kinds, Zenon DEF NobodyInside, Inside
  <2>3. InCommand' \subseteq InCommand
    BY <2>1, Kinds, Zenon DEF InCommand
  <2> QED
    BY <2>1, <2>2, <2>3, Kinds, Zenon DEF PluginInv, InitKnows, ResetKnows
<1>2. CASE AcquireReader(t)
  BY <1>2, PluginMove, Kinds, Zenon DEF AcquireReader
<1>3. CASE DeinitClose(t)
  BY <1>3, PluginMove, Kinds, Zenon DEF DeinitClose
<1>4. CASE DeinitClear(t)
  <2>1. t \notin Clients
    BY <1>4, Zenon DEF DeinitClear, Base, TypeOK, ClientPC, ReadPC, InitPC
  <2> QED
    BY <1>4, <2>1, PluginMove, Kinds, Zenon DEF DeinitClear
<1> QED
  BY <1>1, <1>2, <1>3, <1>4, Zenon DEF LockStep, DeinitStep

LEMMA PluginInitialize ==
    ASSUME Base, PluginInv, NEW t \in Clients \cup Listeners, InitializeStep(t) PROVE PluginInv'
<1> USE DEF SetUp, vmVars, lockVars, sessionVars
<1>1. CASE InitializeCheck(t)
  BY <1>1, PluginMove, Kinds, Zenon DEF InitializeCheck, InitializeFailed
<1>2. CASE CreateSpoolerSession(t)
  BY <1>2, PluginMove, Kinds, Zenon DEF CreateSpoolerSession, InitializeFailed
<1>3. CASE CreateListenerThread(t)
  <2>1. CASE InitializeFailed(t)
    BY <1>3, <2>1, PluginMove, Kinds, Zenon DEF CreateListenerThread, InitializeFailed
  <2>2. CASE \E l \in Listeners : At(l, "dead") /\ pc' = [pc EXCEPT ![t] = "eDone", ![l] = "start"]
    <3>1. PICK l \in Listeners : At(l, "dead") /\ pc' = [pc EXCEPT ![t] = "eDone", ![l] = "start"]
      BY <2>2, Zenon
    <3>2. pc[t] = "eThread" /\ UNCHANGED <<jhi_state, writeLock, registered, link, table>>
      BY <1>3, Zenon DEF CreateListenerThread
    <3>3. /\ pc'[t] = "eDone" /\ pc'[l] = "start" /\ t # l
          /\ \A u \in Threads : u # t /\ u # l => pc'[u] = pc[u]
      BY <3>1, <3>2, Kinds, Zenon DEF Base, TypeOK
    <3>4. \A u \in Threads : Inside(u)' <=> Inside(u)
      BY <3>1, <3>2, <3>3, Zenon DEF Inside
    <3>5. NobodyInside' <=> NobodyInside
      BY <3>4, Zenon DEF NobodyInside
    <3>6. \A c \in Clients : InitKnows(c)'
      BY <3>2, <3>3, <3>4, Kinds, Zenon DEF PluginInv, InitKnows
    <3>7. \A u \in Listeners \cup Stoppers : ResetKnows(u)'
      BY <3>1, <3>2, <3>3, <3>4, Kinds, Zenon DEF PluginInv, ResetKnows
    <3>8. InCommand' \subseteq InCommand
      BY <3>3, Kinds, Zenon DEF InCommand
    <3> QED
      BY <3>2, <3>5, <3>6, <3>7, <3>8, Zenon DEF PluginInv
  <2> QED
    BY <1>3, <2>1, <2>2, Zenon DEF CreateListenerThread
<1>4. CASE InitializeDone(t)
  BY <1>4, PluginMove, Kinds, Zenon DEF InitializeDone
<1> QED
  BY <1>1, <1>2, <1>3, <1>4, Zenon DEF InitializeStep

LEMMA PluginReset ==
    ASSUME Base, PluginInv, NEW t \in Listeners \cup Stoppers, ResetStep(t) PROVE PluginInv'
<1> USE DEF SetUp, vmVars, lockVars, sessionVars
<1>1. CASE CloseSessionsStart(t)
  BY <1>1, PluginMove, Kinds, Zenon DEF CloseSessionsStart
<1>2. CASE CloseSessionInVM(t)
  BY <1>2, PluginFrame, Zenon DEF CloseSessionInVM
<1>3. CASE CloseSessionsEnd(t)
  BY <1>3, PluginMove, Kinds, Zenon DEF CloseSessionsEnd
<1>4. CASE ResetOrNot(t)
  <2>1. /\ writeLock = t /\ readers = {} /\ pc[t] = "drain" /\ UNCHANGED <<registered, link, table, jhi_state>>
        /\ \E y \in {"sDone", "dead", "rTable"} : Goto(t, y) /\ (y # "rTable" => writeLock' = None)
        /\ writeLock' = t \/ writeLock' = None
        /\ NobodyInside
    BY <1>4, Kinds, Zenon DEF ResetOrNot, HoldsWriter, ResetDone, NobodyInside, Inside
  <2>2. PICK y \in {"sDone", "dead", "rTable"} : Goto(t, y) /\ (y # "rTable" => writeLock' = None)
    BY <2>1, Zenon
  <2>3. pc'[t] = y
    BY <2>2, Kinds, Zenon DEF Base, TypeOK
  <2>4. ResetKnows(t)'
    BY <2>2, <2>3, Kinds, Zenon DEF ResetKnows, Inside
  <2> QED
    BY <2>1, <2>2, <2>4, PluginWriter, Kinds, Zenon DEF PluginInv
<1>5. CASE ResetTable(t)
  <2>1. pc[t] = "rTable" /\ table' = {} /\ UNCHANGED <<registered, link, jhi_state, writeLock>> /\ Goto(t, "dClose")
    BY <1>5, Zenon DEF ResetTable
  <2>2. writeLock = t /\ readers = {} /\ pc'[t] = "dClose"
    BY <2>1, Writers, Held, Kinds, Zenon DEF Base, TypeOK, ResetPC
  <2>3. ResetKnows(t)' /\ ~NobodyInside'
    BY <2>1, <2>2, Kinds, Zenon DEF ResetKnows, NobodyInside, Inside
  <2> QED
    BY <2>1, <2>2, <2>3, PluginWriter, Kinds, Zenon DEF PluginInv
<1>6. CASE ResetPlugin(t)
  <2>1. pc[t] = "rPlugin" /\ UNCHANGED <<table, writeLock>> /\ Goto(t, "rStopped")
    BY <1>6, Zenon DEF ResetPlugin
  <2>2. writeLock = t /\ readers = {} /\ pc'[t] = "rStopped"
    BY <2>1, Writers, Held, Kinds, Zenon DEF Base, TypeOK, ResetPC
  <2>3. registered' = FALSE /\ link' = "none"
    BY <1>6, Dropped, Zenon DEF ResetPlugin, Base, PluginInv
  <2>4. table = {}
    BY <2>1, <2>2, Zenon DEF PluginInv, ResetKnows, Inside
  <2>5. ResetKnows(t)' /\ ~NobodyInside'
    BY <2>1, <2>2, <2>3, <2>4, Kinds, Zenon DEF ResetKnows, NobodyInside, Inside
  <2> QED
    BY <2>1, <2>2, <2>3, <2>5, PluginWriter, Kinds, Zenon
<1>7. CASE ResetStopped(t)
  <2>1. /\ pc[t] = "rStopped" /\ jhi_state' = "STOPPED" /\ Goto(t, "rSignal")
        /\ UNCHANGED <<registered, link, table, writeLock>>
    BY <1>7, Zenon DEF ResetStopped
  <2>2. writeLock = t /\ readers = {} /\ pc'[t] = "rSignal"
    BY <2>1, Writers, Held, Kinds, Zenon DEF Base, TypeOK, ResetPC
  <2>3. table = {} /\ registered = FALSE
    BY <2>1, <2>2, Zenon DEF PluginInv, ResetKnows, Inside
  <2>4. ResetKnows(t)' /\ ~NobodyInside'
    BY <2>1, <2>2, <2>3, Kinds, Zenon DEF ResetKnows, NobodyInside, Inside
  <2> QED
    BY <2>1, <2>2, <2>4, PluginWriter, Kinds, Zenon DEF PluginInv
<1>8. CASE ResetSignal(t)
  <2>1. /\ pc[t] = "rSignal" /\ writeLock' = None /\ (Goto(t, "sDone") \/ Goto(t, "dead"))
        /\ UNCHANGED <<registered, link, table, jhi_state>>
    BY <1>8, Zenon DEF ResetSignal, ResetDone
  <2>2. writeLock = t /\ readers = {}
    BY <2>1, Writers, Held, Kinds, Zenon DEF ResetPC
  <2>3. table = {} /\ registered = FALSE /\ jhi_state # "INITIALIZED"
    BY <2>1, <2>2, Zenon DEF PluginInv, ResetKnows, Inside
  <2>4. ResetKnows(t)'
    BY <2>1, Kinds, Zenon DEF ResetKnows, Inside
  <2> QED
    BY <2>1, <2>2, <2>3, <2>4, PluginWriter, Kinds, Zenon DEF PluginInv
<1> QED
  BY <1>1, <1>2, <1>3, <1>4, <1>5, <1>6, <1>7, <1>8, Zenon DEF ResetStep

LEMMA PluginClient ==
    ASSUME Base, PluginInv, NEW c \in Clients, Arrive(c) \/ Answered(c) \/ ClientStep(c) PROVE PluginInv'
<1> USE DEF SetUp, vmVars, lockVars, sessionVars
<1>1. CASE Arrive(c)
  BY <1>1, PluginMove, Kinds, Zenon DEF Arrive
<1>2. CASE Answered(c)
  BY <1>2, PluginMove, Kinds, Zenon DEF Answered, LeaveVM
<1>3. CASE ReadState(c)
  BY <1>3, PluginMove, Kinds, Zenon DEF ReadState
<1>4. CASE InitOrNot(c)
  <2>1. /\ writeLock = c /\ readers = {} /\ pc[c] = "drain" /\ UNCHANGED <<registered, link, table, jhi_state>>
        /\ \/ jhi_state = "STOPPED" /\ Goto(c, "init") /\ writeLock' = c
           \/ Goto(c, "read") /\ writeLock' = None
    BY <1>4, Zenon DEF InitOrNot, HoldsWriter
  <2>2. NobodyInside
    BY <2>1, Zenon DEF NobodyInside, Inside
  <2>3. \/ writeLock' = c /\ pc'[c] = "init" /\ jhi_state' = "STOPPED" /\ table' = {}
        \/ writeLock' = None
    BY <2>1, <2>2, Kinds, Zenon DEF Base, TypeOK, PluginInv
  <2>4. InitKnows(c)'
    BY <2>3, Kinds, Zenon DEF InitKnows, Inside
  <2> QED
    BY <2>1, <2>2, <2>4, PluginWriter, Kinds, Zenon DEF PluginInv
<1>5. CASE jhis_init(c)
  <2>1. /\ pc[c] = "init" /\ UNCHANGED <<jhi_state, writeLock, readers, table>>
        /\ (Goto(c, "eCheck") /\ registered' /\ link' = "up") \/ (Goto(c, "initFailed") /\ link' = link)
    BY <1>5, InitHasEffect, Zenon DEF InitEffect
  <2>2. writeLock = c /\ readers = {}
    BY <2>1, Writers, Held, Kinds, Zenon DEF InitPC
  <2>3. registered \in BOOLEAN /\ registered' \in BOOLEAN /\ (registered' = FALSE => registered = FALSE)
    BY <1>5, InitKeeps, InitHasEffect, InitEffectType, Zenon DEF Base, TypeOK
  <2>4. \/ pc'[c] = "eCheck" /\ registered' = TRUE /\ link' = "up"
        \/ pc'[c] = "initFailed"
    BY <2>1, <2>3, Kinds, Zenon DEF Base, TypeOK
  <2>5. jhi_state # "INITIALIZED" /\ table = {}
    BY <2>1, <2>2, Zenon DEF PluginInv, InitKnows, Inside
  <2>6. InitKnows(c)' /\ ~NobodyInside'
    BY <2>1, <2>2, <2>4, <2>5, Kinds, Zenon DEF InitKnows, NobodyInside, Inside
  <2>7. registered' = FALSE => link' = "none"
    BY <2>1, <2>3, Zenon DEF PluginInv
  <2> QED
    BY <2>1, <2>2, <2>6, <2>7, PluginWriter, Kinds, Zenon
<1>6. CASE InitFailed(c)
  <2>1. /\ pc[c] = "initFailed" /\ writeLock' = None /\ Goto(c, "idle") /\ UNCHANGED <<table, jhi_state>>
    BY <1>6, Zenon DEF InitFailed
  <2>2. writeLock = c /\ readers = {}
    BY <2>1, Writers, Held, Kinds, Zenon DEF InitPC
  <2>3. registered' = FALSE /\ link' = "none"
    BY <1>6, Dropped, Zenon DEF InitFailed, Base, PluginInv
  <2>4. jhi_state # "INITIALIZED" /\ table = {}
    BY <2>1, <2>2, Zenon DEF PluginInv, InitKnows, Inside
  <2>5. InitKnows(c)'
    BY <2>1, Kinds, Zenon DEF InitKnows, Inside
  <2> QED
    BY <2>1, <2>2, <2>3, <2>4, <2>5, PluginWriter, Kinds, Zenon
<1>7. CASE InitDone(c)
  <2>1. /\ pc[c] = "initDone" /\ writeLock' = None /\ Goto(c, "read")
        /\ UNCHANGED <<table, registered, link>> /\ jhi_state' = "INITIALIZED"
    BY <1>7, Zenon DEF InitDone
  <2>2. writeLock = c /\ readers = {}
    BY <2>1, Writers, Held, Kinds, Zenon DEF InitPC
  <2>3. registered = TRUE /\ link # "none"
    BY <2>1, <2>2, Zenon DEF PluginInv, InitKnows, Inside
  <2>4. InitKnows(c)'
    BY <2>1, Kinds, Zenon DEF InitKnows, Inside
  <2> QED
    BY <2>1, <2>2, <2>3, <2>4, PluginWriter, Kinds, Zenon
<1>8. CASE Dispatch(c)
  <2>1. c \in readers
    BY <1>8, Zenon DEF Dispatch, Base, LockInv, ReadPC
  <2>2. NobodyInside
    BY <2>1, ReaderAlone, Zenon
  <2>3. CASE jhi_state # "INITIALIZED"
    BY <1>8, <2>3, PluginMove, Kinds, Zenon DEF Dispatch
  <2>4. CASE jhi_state = "INITIALIZED"
    <3>1. registered = TRUE /\ link # "none"
      BY <2>2, <2>4, Zenon DEF PluginInv
    <3>2. /\ UNCHANGED <<jhi_state, writeLock, registered, link, table>>
          /\ \A u \in Threads : u # c => pc'[u] = pc[u]
          /\ pc'[c] # "drain" /\ pc[c] # "drain"
      BY <1>8, Kinds, Zenon DEF Dispatch, Base, TypeOK
    <3>3. \A u \in Threads : ~Inside(u)'
      BY <2>2, <3>2, Zenon DEF NobodyInside, Inside
    <3> QED
      BY <2>4, <3>1, <3>2, <3>3, Kinds, Zenon DEF PluginInv, InitKnows, ResetKnows
  <2> QED
    BY <2>3, <2>4, Zenon
<1>9. CASE CreateSession(c)
  <2>1. c \in readers /\ c \in InCommand
    BY <1>9, Zenon DEF CreateSession, Base, LockInv, ReadPC, InCommand
  <2>2. NobodyInside /\ registered = TRUE /\ link # "none"
    BY <2>1, ReaderAlone, Zenon DEF PluginInv
  <2>3. /\ UNCHANGED <<jhi_state, writeLock, registered, link>>
        /\ \A u \in Threads : u # c => pc'[u] = pc[u]
        /\ pc'[c] # "drain" /\ pc[c] # "drain"
    BY <1>9, Kinds, Zenon DEF CreateSession, Base, TypeOK
  <2>4. \A u \in Threads : ~Inside(u)'
    BY <2>2, <2>3, Zenon DEF NobodyInside, Inside
  <2> QED
    BY <2>2, <2>3, <2>4, Kinds, Zenon DEF PluginInv, InitKnows, ResetKnows
<1>10. CASE SendAndRecieve(c)
  BY <1>10, PluginMove, Kinds, Zenon DEF SendAndRecieve
<1>11. CASE Unblocked(c)
  BY <1>11, PluginMove, Kinds, Zenon DEF Unblocked, LeaveVM
<1>12. CASE Reply(c)
  BY <1>12, PluginMove, Kinds, Zenon DEF Reply
<1> QED
  BY <1>1, <1>2, <1>3, <1>4, <1>5, <1>6, <1>7, <1>8, <1>9, <1>10, <1>11, <1>12, PluginLocks, PluginInitialize, Kinds, Zenon
     DEF ClientStep

LEMMA PluginListener ==
    ASSUME Base, PluginInv, NEW l \in Listeners, ListenerEvent(l) \/ ListenerStep(l) PROVE PluginInv'
<1> USE DEF SetUp, vmVars, lockVars, sessionVars
<1>1. CASE ListenerStart(l)
  BY <1>1, PluginMove, Kinds, Zenon DEF ListenerStart
<1>2. CASE ListenerCall(l)
  BY <1>2, PluginMove, Kinds, Zenon DEF ListenerCall
<1>3. CASE ListenerEvent(l)
  BY <1>3, PluginMove, Kinds, Zenon DEF ListenerEvent
<1>4. CASE ListenerFails(l)
  BY <1>4, PluginMove, Kinds, Zenon DEF ListenerFails
<1>5. CASE ListenerReload(l)
  BY <1>5, PluginMove, Kinds, Zenon DEF ListenerReload
<1> QED
  BY <1>1, <1>2, <1>3, <1>4, <1>5, PluginLocks, PluginInitialize, PluginReset, Kinds, Zenon DEF ListenerStep

LEMMA PluginStopper ==
    ASSUME Base, PluginInv, NEW p \in Stoppers, StopServer(p) \/ StopperStep(p) PROVE PluginInv'
<1> USE DEF SetUp, vmVars, lockVars, sessionVars
<1>1. CASE StopServer(p)
  BY <1>1, PluginMove, Kinds, Zenon DEF StopServer
<1>2. CASE StopCheck(p)
  BY <1>2, PluginMove, Kinds, Zenon DEF StopCheck
<1>3. CASE StopReset(p)
  BY <1>3, PluginMove, Kinds, Zenon DEF StopReset
<1> QED
  BY <1>1, <1>2, <1>3, PluginLocks, PluginReset, Kinds, Zenon DEF StopperStep

LEMMA PluginPnp ==
    ASSUME Base, PluginInv, NEW p \in Pnps, PnpCall(p) \/ PnpStep(p) PROVE PluginInv'
<1> USE DEF SetUp, vmVars, lockVars, sessionVars
<1>1. CASE PnpCall(p)
  BY <1>1, PluginMove, Kinds, Zenon DEF PnpCall
<1>2. CASE PnpState(p)
  BY <1>2, PluginMove, Kinds, Zenon DEF PnpState
<1>3. CASE PnpRelease(p)
  BY <1>3, PluginMove, Kinds, Zenon DEF PnpRelease
<1>4. CASE PnpWait(p)
  BY <1>4, PluginMove, Kinds, Zenon DEF PnpWait, WaitForReset
<1> QED
  BY <1>1, <1>2, <1>3, <1>4, PluginLocks, Kinds, Zenon DEF PnpStep

LEMMA PluginStep == ASSUME Base, PluginInv, [Next]_vars PROVE PluginInv'
<1> USE DEF SetUp, vmVars, lockVars, sessionVars
<1>1. SpoolerDies \/ LinkLost \/ UNCHANGED vars => PluginInv'
  BY PluginFrame, Zenon DEF SpoolerDies, LinkLost, vars, PluginInv
<1>2. MainStep => PluginInv'
  BY PluginMove, Kinds, Zenon DEF MainStep, MainStops, MainState, MainWait, WaitForReset
<1> QED
  BY <1>1, <1>2, PluginClient, PluginListener, PluginStopper, PluginPnp, Zenon DEF Next

-----------------------------------------------------------------------------
(* Who is left to reset the service *)
LEMMA InitReset == Init => ResetInv
  BY InitPlaces, ServiceAssumption, Zenon DEF ResetInv, Inside, Threads

LEMMA ResetFrame ==
    ASSUME ResetInv, jhi_state' # "STOPPED" => jhi_state # "STOPPED",
           registered' = FALSE => registered = FALSE,
           \A c \in Clients : /\ Inside(c)' => Inside(c)
                              /\ pc'[c] \in {"eDone", "initDone"} => pc[c] \in {"eDone", "initDone"},
           \A t \in Listeners \cup Stoppers : /\ Watches(t) => Watches(t)'
                                              /\ pc'[t] = "rSignal" => pc[t] = "rSignal",
           \A p \in Stoppers : /\ pc[p] \in CloseLoop => pc'[p] \in CloseLoop
                               /\ Stops(p) => Stops(p)',
           \A l \in Listeners : pc[l] = "rStopped" => pc'[l] = "rStopped"
    PROVE  ResetInv'
<1>1. (SomeoneWatches => SomeoneWatches') /\ (StopsLater => StopsLater')
  BY Zenon DEF SomeoneWatches, StopsLater
<1> QED
  BY <1>1, Zenon DEF ResetInv

\* A step of one thread that leaves to the others what it had to do.
LEMMA ResetMove ==
    ASSUME Base, ResetInv, NEW t \in Threads \cup {Main}, NEW y, Goto(t, y),
           jhi_state' # "STOPPED" => jhi_state # "STOPPED",
           registered' = FALSE => registered = FALSE,
           writeLock' = writeLock \/ writeLock' = None,
           t \in Clients => /\ pc[t] # "drain" \/ writeLock' = None
                            /\ y \in {"eDone", "initDone"} => pc[t] = "eDone",
           t \in Listeners \cup Stoppers => y # "rSignal" /\ (y \in NotWatching => pc[t] \in NotWatching),
           t \in Stoppers => /\ pc[t] \in CloseLoop => y \in CloseLoop
                             /\ pc[t] \in StopsPC => y \in StopsPC,
           t \in Listeners => pc[t] # "rStopped"
    PROVE  ResetInv'
<1>1. /\ pc'[t] = y
      /\ \A u \in Threads : u # t => pc'[u] = pc[u]
      /\ None \notin Threads
  BY ServiceAssumption, Zenon DEF Base, TypeOK
<1>2. \A c \in Clients : /\ Inside(c)' => Inside(c)
                         /\ pc'[c] \in {"eDone", "initDone"} => pc[c] \in {"eDone", "initDone"}
  BY <1>1, Zenon DEF Inside, Threads
<1>3. \A u \in Listeners \cup Stoppers : /\ Watches(u) => Watches(u)'
                                         /\ pc'[u] = "rSignal" => pc[u] = "rSignal"
  BY <1>1, Zenon DEF Watches, Threads
<1>4. \A p \in Stoppers : /\ pc[p] \in CloseLoop => pc'[p] \in CloseLoop
                          /\ Stops(p) => Stops(p)'
  BY <1>1, Zenon DEF Stops, Threads
<1>5. \A l \in Listeners : pc[l] = "rStopped" => pc'[l] = "rStopped"
  BY <1>1, Zenon DEF Threads
<1> QED
  BY <1>2, <1>3, <1>4, <1>5, ResetFrame, Zenon

\* Nothing is left to do in a service that is stopped.
LEMMA ResetNothing ==
    ASSUME jhi_state' = "STOPPED",
           \A c \in Clients : pc'[c] \in {"eDone", "initDone"} => SomeoneWatches'
    PROVE  ResetInv'
  BY Zenon DEF ResetInv

LEMMA ResetLocks ==
    ASSUME Base, ResetInv, NEW t \in Threads, LockStep(t) \/ DeinitStep(t) PROVE ResetInv'
<1> USE DEF NotWatching, StopsPC, CloseLoop, DeinitPC, vmVars, lockVars
<1>1. CASE AcquireWriter(t)
  <2>1. /\ pc[t] = "enter" /\ pc'[t] = "drain" /\ writeLock = None /\ writeLock' = t
        /\ \A u \in Threads : u # t => pc'[u] = pc[u]
        /\ UNCHANGED <<jhi_state, registered>>
    BY <1>1, Zenon DEF AcquireWriter, Base, TypeOK
  <2>2. \A c \in Clients : pc'[c] \notin {"eDone", "initDone"} /\ ~Inside(c)'
    BY <2>1, Kinds, Writers, Zenon DEF Inside, InitPC
  <2>3. \A u \in Listeners \cup Stoppers : pc'[u] # "rSignal" /\ pc[u] # "rStopped" /\ (Watches(u) => Watches(u)')
    BY <2>1, Kinds, Writers, Zenon DEF Watches, ResetPC
  <2>4. \A p \in Stoppers : Stops(p) => Stops(p)'
    BY <2>1, Kinds, Zenon DEF Stops
  <2>5. SomeoneWatches => SomeoneWatches'
    BY <2>3, Zenon DEF SomeoneWatches
  <2> QED
    BY <2>1, <2>2, <2>3, <2>4, <2>5, Zenon DEF ResetInv
<1>2. CASE AcquireReader(t)
  BY <1>2, ResetMove, Kinds, Zenon DEF AcquireReader
<1>3. CASE DeinitClose(t)
  BY <1>3, ResetMove, Kinds, Zenon DEF DeinitClose
<1>4. CASE DeinitClear(t)
  <2>1. t \in Stoppers => writeLock = t
    BY <1>4, Zenon DEF DeinitClear, Base, LockInv
  <2> QED
    BY <1>4, <2>1, ResetMove, Kinds, Zenon DEF DeinitClear
<1> QED
  BY <1>1, <1>2, <1>3, <1>4, Zenon DEF LockStep, DeinitStep

LEMMA ResetInitialize ==
    ASSUME Base, ResetInv, NEW t \in Clients \cup Listeners, InitializeStep(t) PROVE ResetInv'
<1> USE DEF NotWatching, StopsPC, CloseLoop, DeinitPC, vmVars, lockVars
<1>1. CASE InitializeCheck(t)
  BY <1>1, ResetMove, Kinds, Zenon DEF InitializeCheck, InitializeFailed
<1>2. CASE CreateSpoolerSession(t)
  BY <1>2, ResetMove, Kinds, Zenon DEF CreateSpoolerSession, InitializeFailed
<1>3. CASE CreateListenerThread(t)
  <2>1. CASE InitializeFailed(t)
    BY <1>3, <2>1, ResetMove, Kinds, Zenon DEF CreateListenerThread, InitializeFailed
  <2>2. CASE \E l \in Listeners : At(l, "dead") /\ pc' = [pc EXCEPT ![t] = "eDone", ![l] = "start"]
    <3>1. PICK l \in Listeners : At(l, "dead") /\ pc' = [pc EXCEPT ![t] = "eDone", ![l] = "start"]
      BY <2>2, Zenon
    <3>2. pc[t] = "eThread" /\ UNCHANGED <<jhi_state, writeLock, registered>>
      BY <1>3, Zenon DEF CreateListenerThread
    <3>3. /\ pc'[t] = "eDone" /\ pc'[l] = "start" /\ t # l
          /\ \A u \in Threads : u # t /\ u # l => pc'[u] = pc[u]
      BY <3>1, <3>2, Kinds, Zenon DEF Base, TypeOK
    <3>4. \A p \in Stoppers : pc'[p] = pc[p]
      BY <3>3, Kinds, Zenon
    <3>5. SomeoneWatches' /\ (StopsLater => StopsLater')
      BY <3>3, <3>4, Zenon DEF SomeoneWatches, Watches, StopsLater
    <3>6. \A c \in Clients : Inside(c)' => Inside(c)
      BY <3>2, <3>3, Kinds, Zenon DEF Inside
    <3>7. \A u \in Listeners \cup Stoppers : /\ pc'[u] = "rSignal" => pc[u] = "rSignal"
                                             /\ pc[u] = "rStopped" => pc'[u] = "rStopped"
      BY <3>1, <3>2, <3>3, Kinds, Zenon
    <3> QED
      BY <3>2, <3>4, <3>5, <3>6, <3>7, Zenon DEF ResetInv, Stops
  <2> QED
    BY <1>3, <2>1, <2>2, Zenon DEF CreateListenerThread
<1>4. CASE InitializeDone(t)
  BY <1>4, ResetMove, Kinds, Zenon DEF InitializeDone
<1> QED
  BY <1>1, <1>2, <1>3, <1>4, Zenon DEF InitializeStep

LEMMA ResetResets ==
    ASSUME Base, ResetInv, NEW t \in Listeners \cup Stoppers, ResetStep(t) PROVE ResetInv'
<1> USE DEF NotWatching, StopsPC, CloseLoop, DeinitPC, vmVars, lockVars
<1>1. CASE CloseSessionsStart(t)
  BY <1>1, ResetMove, Kinds, Zenon DEF CloseSessionsStart
<1>2. CASE CloseSessionInVM(t)
  BY <1>2, ResetFrame, Zenon DEF CloseSessionInVM, Inside, Watches, Stops
<1>3. CASE CloseSessionsEnd(t)
  BY <1>3, ResetMove, Kinds, Zenon DEF CloseSessionsEnd
<1>4. CASE ResetOrNot(t)
  <2>1. CASE jhi_state # "STOPPED"
    BY <1>4, <2>1, ResetMove, Kinds, Zenon DEF ResetOrNot, HoldsWriter, ResetDone
  <2>2. CASE jhi_state = "STOPPED"
    <3>1. \A c \in Clients : pc'[c] \notin {"eDone", "initDone"}
      BY <1>4, Kinds, Writers, Zenon DEF ResetOrNot, HoldsWriter, ResetDone, InitPC, Base, TypeOK
    <3> QED
      BY <1>4, <2>2, <3>1, ResetNothing, Zenon DEF ResetOrNot
  <2> QED
    BY <2>1, <2>2, Zenon
<1>5. CASE ResetTable(t)
  BY <1>5, ResetMove, Kinds, Zenon DEF ResetTable
<1>6. CASE ResetPlugin(t)
  <2>1. /\ pc[t] = "rPlugin" /\ pc'[t] = "rStopped" /\ UNCHANGED <<jhi_state, writeLock>>
        /\ \A u \in Threads : u # t => pc'[u] = pc[u]
    BY <1>6, Kinds, Zenon DEF ResetPlugin, Base, TypeOK
  <2>2. \A c \in Clients : pc'[c] = pc[c] /\ (Inside(c)' => Inside(c))
    BY <2>1, Kinds, Zenon DEF Inside
  <2>3. (SomeoneWatches => SomeoneWatches') /\ (StopsLater => StopsLater')
    BY <2>1, Kinds, Zenon DEF SomeoneWatches, Watches, StopsLater
  <2>4. \/ \E p \in Stoppers : Stops(p)'
        \/ \E l \in Listeners : pc'[l] = "rStopped"
    BY <2>1, Zenon DEF Stops
  <2>5. \A u \in Listeners \cup Stoppers : pc'[u] = "rSignal" => pc[u] = "rSignal"
    BY <2>1, Kinds, Zenon
  <2> QED
    BY <2>1, <2>2, <2>3, <2>4, <2>5, Zenon DEF ResetInv
<1>7. CASE ResetStopped(t)
  <2>1. pc'[t] = "rSignal" /\ jhi_state' = "STOPPED"
    BY <1>7, Kinds, Zenon DEF ResetStopped, Base, TypeOK
  <2> QED
    BY <2>1, ResetNothing, Zenon DEF SomeoneWatches, Watches
<1>8. CASE ResetSignal(t)
  <2>1. /\ pc[t] = "rSignal" /\ pc'[t] \in {"sDone", "dead"} /\ writeLock' = None /\ writeLock = t
        /\ \A u \in Threads : u # t => pc'[u] = pc[u]
        /\ UNCHANGED <<jhi_state, registered>>
    BY <1>8, Kinds, Writers, Zenon DEF ResetSignal, ResetDone, ResetPC, Base, TypeOK
  <2>2. \A c \in Clients : pc'[c] \notin {"eDone", "initDone"} /\ ~Inside(c)'
    BY <2>1, Kinds, Writers, Zenon DEF Inside, InitPC
  <2>3. CASE jhi_state = "STOPPED"
    BY <2>1, <2>2, <2>3, ResetNothing, Zenon
  <2>4. CASE jhi_state # "STOPPED"
    <3>1. PICK p \in Stoppers : pc[p] \in {"rClose", "rLoop", "enter"}
      BY <2>1, <2>4, Zenon DEF ResetInv, StopsLater
    <3>2. pc'[p] = pc[p]
      BY <2>1, <3>1, Kinds, Zenon
    <3>3. SomeoneWatches' /\ StopsLater' /\ Stops(p)'
      BY <3>1, <3>2, Zenon DEF SomeoneWatches, Watches, StopsLater, Stops
    <3> QED
      BY <2>2, <3>3, Zenon DEF ResetInv
  <2> QED
    BY <2>3, <2>4, Zenon
<1> QED
  BY <1>1, <1>2, <1>3, <1>4, <1>5, <1>6, <1>7, <1>8, Zenon DEF ResetStep

LEMMA ResetClient ==
    ASSUME Base, PluginInv, ResetInv, NEW c \in Clients, Arrive(c) \/ Answered(c) \/ ClientStep(c) PROVE ResetInv'
<1> USE DEF NotWatching, StopsPC, CloseLoop, DeinitPC, vmVars, lockVars
<1>1. CASE Arrive(c)
  BY <1>1, ResetMove, Kinds, Zenon DEF Arrive
<1>2. CASE Answered(c)
  BY <1>2, ResetMove, Kinds, Zenon DEF Answered, LeaveVM
<1>3. CASE ReadState(c)
  BY <1>3, ResetMove, Kinds, Zenon DEF ReadState
<1>4. CASE InitOrNot(c)
  <2>1. CASE jhi_state # "STOPPED"
    BY <1>4, <2>1, ResetMove, Kinds, Zenon DEF InitOrNot
  <2>2. CASE jhi_state = "STOPPED"
    <3>1. /\ pc'[c] = "init" /\ jhi_state' = "STOPPED"
          /\ \A u \in Threads : u # c => pc'[u] = pc[u]
      BY <1>4, <2>2, Kinds, Zenon DEF InitOrNot, Base, TypeOK
    <3>2. SomeoneWatches => SomeoneWatches'
      BY <3>1, Kinds, Zenon DEF SomeoneWatches, Watches
    <3> QED
      BY <3>1, <3>2, Kinds, ResetNothing, Zenon DEF ResetInv
  <2> QED
    BY <2>1, <2>2, Zenon
<1>5. CASE jhis_init(c)
  <2>1. /\ pc[c] = "init" /\ UNCHANGED <<jhi_state, writeLock>>
        /\ Goto(c, "eCheck") \/ Goto(c, "initFailed")
    BY <1>5, InitHasEffect, Zenon DEF InitEffect
  <2>2. registered' = FALSE => registered = FALSE
    BY <1>5, InitKeeps, Zenon DEF Base
  <2> QED
    BY <2>1, <2>2, ResetMove, Kinds, Zenon
<1>6. CASE InitFailed(c)
  <2>1. /\ pc[c] = "initFailed" /\ pc'[c] = "idle" /\ writeLock = c /\ writeLock' = None
        /\ UNCHANGED jhi_state
        /\ \A u \in Threads : u # c => pc'[u] = pc[u]
    BY <1>6, Kinds, Writers, Zenon DEF InitFailed, InitPC, Base, TypeOK
  <2>2. \A d \in Clients : pc'[d] \notin {"eDone", "initDone"} /\ ~Inside(d)'
    BY <2>1, Kinds, Writers, Zenon DEF Inside, InitPC
  <2>3. CASE jhi_state = "STOPPED"
    BY <2>1, <2>2, <2>3, ResetNothing, Zenon
  <2>4. CASE jhi_state # "STOPPED"
    <3>1. PICK p \in Stoppers : pc[p] \in {"rClose", "rLoop", "enter"}
      BY <2>1, <2>4, Zenon DEF ResetInv, StopsLater, Inside
    <3>2. pc'[p] = pc[p]
      BY <2>1, <3>1, Kinds, Zenon
    <3>3. SomeoneWatches' /\ StopsLater' /\ Stops(p)'
      BY <3>1, <3>2, Zenon DEF SomeoneWatches, Watches, StopsLater, Stops
    <3> QED
      BY <2>2, <3>3, Zenon DEF ResetInv
  <2> QED
    BY <2>3, <2>4, Zenon
<1>7. CASE InitDone(c)
  <2>1. /\ pc[c] = "initDone" /\ pc'[c] = "read" /\ writeLock = c /\ writeLock' = None
        /\ UNCHANGED registered
        /\ \A u \in Threads : u # c => pc'[u] = pc[u]
    BY <1>7, Kinds, Writers, Zenon DEF InitDone, InitPC, Base, TypeOK
  <2>2. \A d \in Clients : ~Inside(d)'
    BY <2>1, Kinds, Zenon DEF Inside
  <2>3. \A t \in Listeners \cup Stoppers : pc'[t] # "rSignal" /\ pc'[t] = pc[t]
    BY <2>1, Kinds, Writers, Zenon DEF ResetPC
  <2>4. SomeoneWatches'
    BY <2>1, <2>3, Zenon DEF ResetInv, SomeoneWatches, Watches
  <2>5. registered' # FALSE
    BY <2>1, Zenon DEF PluginInv, InitKnows, Inside, SetUp
  <2> QED
    BY <2>2, <2>3, <2>4, <2>5, Zenon DEF ResetInv
<1>8. CASE Dispatch(c)
  BY <1>8, ResetMove, Kinds, Zenon DEF Dispatch
<1>9. CASE CreateSession(c)
  BY <1>9, ResetMove, Kinds, Zenon DEF CreateSession
<1>10. CASE SendAndRecieve(c)
  BY <1>10, ResetMove, Kinds, Zenon DEF SendAndRecieve
<1>11. CASE Unblocked(c)
  BY <1>11, ResetMove, Kinds, Zenon DEF Unblocked, LeaveVM
<1>12. CASE Reply(c)
  BY <1>12, ResetMove, Kinds, Zenon DEF Reply
<1> QED
  BY <1>1, <1>2, <1>3, <1>4, <1>5, <1>6, <1>7, <1>8, <1>9, <1>10, <1>11, <1>12, ResetLocks, ResetInitialize, Kinds, Zenon
     DEF ClientStep

LEMMA ResetListener ==
    ASSUME Base, PluginInv, ResetInv, NEW l \in Listeners, ListenerEvent(l) \/ ListenerStep(l) PROVE ResetInv'
<1> USE DEF NotWatching, StopsPC, CloseLoop, DeinitPC, vmVars, lockVars
<1>1. CASE ListenerStart(l)
  <2>1. CASE registered
    BY <1>1, <2>1, ResetMove, Kinds, Zenon DEF ListenerStart
  <2>2. CASE registered = FALSE
    <3>1. /\ pc[l] = "start" /\ pc'[l] = "dead" /\ UNCHANGED <<jhi_state, writeLock, registered>>
          /\ \A u \in Threads : u # l => pc'[u] = pc[u]
      BY <1>1, <2>2, Kinds, Zenon DEF ListenerStart, Base, TypeOK
    <3>2. \A c \in Clients : pc'[c] \notin {"eDone", "initDone"} /\ (Inside(c)' => Inside(c))
      BY <2>2, <3>1, Kinds, Writers, Zenon DEF Inside, InitPC, PluginInv, InitKnows, SetUp
    <3>3. \A p \in Stoppers : pc'[p] = pc[p]
      BY <3>1, Kinds, Zenon
    <3>4. \A t \in Listeners \cup Stoppers : /\ pc'[t] = "rSignal" => pc[t] = "rSignal"
                                             /\ pc[t] = "rStopped" => pc'[t] = "rStopped"
      BY <3>1, Kinds, Zenon
    <3>5. jhi_state # "STOPPED" => \/ \E p \in Stoppers : Stops(p)'
                                   \/ \E k \in Listeners : pc'[k] = "rStopped"
      BY <2>2, <3>3, <3>4, Zenon DEF ResetInv, Stops
    <3>6. jhi_state # "STOPPED" => SomeoneWatches'
      BY <3>5, Zenon DEF SomeoneWatches, Stops, Watches
    <3>7. StopsLater => StopsLater'
      BY <3>3, Zenon DEF StopsLater
    <3> QED
      BY <3>1, <3>2, <3>4, <3>5, <3>6, <3>7, Zenon DEF ResetInv
  <2> QED
    BY <2>1, <2>2, Zenon DEF Base, TypeOK
<1>2. CASE ListenerCall(l)
  BY <1>2, ResetMove, Kinds, Zenon DEF ListenerCall
<1>3. CASE ListenerEvent(l)
  BY <1>3, ResetMove, Kinds, Zenon DEF ListenerEvent
<1>4. CASE ListenerFails(l)
  BY <1>4, ResetMove, Kinds, Zenon DEF ListenerFails
<1>5. CASE ListenerReload(l)
  BY <1>5, ResetMove, Kinds, Zenon DEF ListenerReload
<1> QED
  BY <1>1, <1>2, <1>3, <1>4, <1>5, ResetLocks, ResetInitialize, ResetResets, Kinds, Zenon DEF ListenerStep

LEMMA ResetStopper ==
    ASSUME Base, ResetInv, NEW p \in Stoppers, StopServer(p) \/ StopperStep(p) PROVE ResetInv'
<1> USE DEF NotWatching, StopsPC, CloseLoop, DeinitPC, vmVars, lockVars
<1>1. CASE StopServer(p)
  BY <1>1, ResetMove, Kinds, Zenon DEF StopServer
<1>2. CASE StopCheck(p)
  BY <1>2, ResetMove, Kinds, Zenon DEF StopCheck
<1>3. CASE StopReset(p)
  <2>1. pc'[p] = "rClose"
    BY <1>3, Kinds, Zenon DEF StopReset, Base, TypeOK
  <2>2. SomeoneWatches' /\ StopsLater' /\ Stops(p)'
    BY <2>1, Zenon DEF SomeoneWatches, Watches, StopsLater, Stops
  <2> QED
    BY <2>2, Zenon DEF ResetInv
<1> QED
  BY <1>1, <1>2, <1>3, ResetLocks, ResetResets, Kinds, Zenon DEF StopperStep

LEMMA ResetPnp ==
    ASSUME Base, ResetInv, NEW p \in Pnps, PnpCall(p) \/ PnpStep(p) PROVE ResetInv'
<1> USE DEF NotWatching, StopsPC, CloseLoop, DeinitPC, vmVars, lockVars
<1>1. CASE PnpCall(p)
  BY <1>1, ResetMove, Kinds, Zenon DEF PnpCall
<1>2. CASE PnpState(p)
  BY <1>2, ResetMove, Kinds, Zenon DEF PnpState
<1>3. CASE PnpRelease(p)
  BY <1>3, ResetMove, Kinds, Zenon DEF PnpRelease
<1>4. CASE PnpWait(p)
  BY <1>4, ResetMove, Kinds, Zenon DEF PnpWait, WaitForReset
<1> QED
  BY <1>1, <1>2, <1>3, <1>4, ResetLocks, Kinds, Zenon DEF PnpStep

LEMMA ResetStepInv == ASSUME Base, PluginInv, ResetInv, [Next]_vars PROVE ResetInv'
<1> USE DEF NotWatching, StopsPC, CloseLoop, DeinitPC, vmVars, lockVars
<1>1. SpoolerDies \/ LinkLost \/ UNCHANGED vars => ResetInv'
  BY ResetFrame, Zenon DEF SpoolerDies, LinkLost, vars, Inside, Watches, Stops
<1>2. MainStep => ResetInv'
  BY ResetMove, Kinds, Zenon DEF MainStep, MainStops, MainState, MainWait, WaitForReset
<1> QED
  BY <1>1, <1>2, ResetClient, ResetListener, ResetStopper, ResetPnp, Zenon DEF Next

-----------------------------------------------------------------------------
(* The sessions in the VM *)
\* The transport that the settings and the machine lead to does not change while
\* the service runs: only with "AUTO" could it, if the kernel's DAL device came or went.
SameTransport == \A e, f \in Machines :
    JhiQueryTransportTypeFromRegistry(e) = JhiQueryTransportTypeFromRegistry(f)

VMInv == /\ registered = FALSE /\ do_vm_reset(transportType, vmType) => vm = {}
         /\ transportType = "INVALID" => link = "none" /\ vm = {}
         /\ \A e \in Machines : transportType \in {"INVALID", JhiQueryTransportTypeFromRegistry(e)}

LEMMA TransportFound == \A e : JhiQueryTransportTypeFromRegistry(e) # "INVALID"
<1>1. getTransportType # "INVALID"
  BY Zenon DEF getTransportType
<1> QED
  BY <1>1, Zenon DEF JhiQueryTransportTypeFromRegistry

\* jhis_init may find another transport or VM only while no session is in the VM.
LEMMA VMFound ==
    ASSUME SameTransport, Base, PluginInv, VMInv, NEW c \in Clients, jhis_init(c) PROVE VMInv'
<1> USE DEF SameTransport
<1>1. PICK e \in Machines :
        /\ PluginRegister(e)
        /\ \/ /\ registered' /\ JhiGetRegistryValues(e) = "JHI_SUCCESS"
              /\ link' = "up" /\ VMReset(transportType', vmType')
           \/ UNCHANGED <<link, vm>>
  BY InitHasEffect, Zenon DEF InitEffect
<1>2. registered \in BOOLEAN /\ registered' \in BOOLEAN
  BY InitHasEffect, InitEffectType, Zenon DEF Base, TypeOK
<1>3. CASE JhiGetRegistryValues(e) # "JHI_SUCCESS"
  BY <1>1, <1>2, <1>3, Zenon DEF PluginRegister, VMInv
<1>4. CASE JhiGetRegistryValues(e) = "JHI_SUCCESS"
  <2>1. /\ transportType' = JhiQueryTransportTypeFromRegistry(e) /\ transportType' # "INVALID"
        /\ vmType # "INVALID" => vmType' = vmType
        /\ registered = TRUE => registered' = TRUE
    BY <1>1, <1>2, <1>4, TransportFound, Zenon DEF PluginRegister
  <2>2. CASE UNCHANGED <<link, vm>>
    BY <1>2, <2>1, <2>2, Zenon DEF VMInv, do_vm_reset
  <2>3. CASE registered'
    BY <1>2, <2>1, <2>3, Zenon DEF VMInv
  <2> QED
    BY <1>1, <2>2, <2>3, Zenon
<1> QED
  BY <1>3, <1>4, Zenon

LEMMA VMDropped ==
    ASSUME PluginInv, TypeOK, VMInv, DropPlugin, UNCHANGED foundVars PROVE VMInv'
<1>1. /\ registered = FALSE \/ registered = TRUE
      /\ registered' = FALSE /\ link' = "none"
      /\ vm' = vm \/ vm' = {}
      /\ registered = TRUE /\ do_vm_reset(transportType, vmType) => vm' = {}
  BY Dropped, Zenon DEF PluginInv, TypeOK
<1>2. do_vm_reset(transportType, vmType)' <=> do_vm_reset(transportType, vmType)
  BY Zenon DEF foundVars, do_vm_reset
<1> QED
  BY <1>1, <1>2, Zenon DEF VMInv, foundVars

LEMMA VMKept ==
    ASSUME VMInv, UNCHANGED <<registered, foundVars>>, link' = "none" => link = "none",
           link' = link \/ link = "up", vm' \subseteq vm
    PROVE  VMInv'
  BY Zenon DEF VMInv, foundVars

LEMMA VMStep == ASSUME SameTransport, Base, PluginInv, VMInv, [Next]_vars PROVE VMInv'
<1> USE DEF vmVars, serverVars
<1>1. ASSUME NEW c \in Clients, Arrive(c) \/ Answered(c) \/ ClientStep(c) PROVE VMInv'
  <2>1. CASE jhis_init(c)
    BY <2>1, VMFound, Zenon
  <2>2. CASE InitFailed(c)
    BY <2>2, VMDropped, Zenon DEF InitFailed, Base
  <2>3. CASE CreateSession(c)
    BY <2>3, Zenon DEF CreateSession, VMInv, PluginInv, foundVars
  <2>4. CASE InitializeStep(c) \/ LockStep(c)
    BY <2>4, VMKept, Zenon DEF InitializeStep, InitializeCheck, CreateSpoolerSession, CreateListenerThread,
       InitializeDone, LockStep, AcquireWriter, AcquireReader
  <2>5. CASE \/ Arrive(c) \/ Answered(c) \/ ReadState(c) \/ InitOrNot(c) \/ InitDone(c) \/ Dispatch(c)
             \/ SendAndRecieve(c) \/ Unblocked(c) \/ Reply(c)
    BY <2>5, VMKept, Zenon DEF Arrive, Answered, ReadState, InitOrNot, InitDone, Dispatch, SendAndRecieve,
       Unblocked, Reply, LeaveVM
  <2> QED
    BY <1>1, <2>1, <2>2, <2>3, <2>4, <2>5, Zenon DEF ClientStep
<1>2. ASSUME NEW t \in Listeners \cup Stoppers, ResetStep(t) PROVE VMInv'
  <2>1. CASE ResetPlugin(t)
    BY <2>1, VMDropped, Zenon DEF ResetPlugin, Base
  <2>2. CASE \/ CloseSessionsStart(t) \/ CloseSessionInVM(t) \/ CloseSessionsEnd(t) \/ ResetOrNot(t)
             \/ ResetTable(t) \/ ResetStopped(t) \/ ResetSignal(t)
    BY <2>2, VMKept, Zenon DEF CloseSessionsStart, CloseSessionInVM, CloseSessionsEnd, ResetOrNot, ResetTable,
       ResetStopped, ResetSignal
  <2> QED
    BY <1>2, <2>1, <2>2, Zenon DEF ResetStep
<1>3. ASSUME NEW t \in Threads, LockStep(t) \/ DeinitStep(t) \/ InitializeStep(t) PROVE VMInv'
  BY <1>3, VMKept, Zenon DEF LockStep, AcquireWriter, AcquireReader, DeinitStep, DeinitClose, DeinitClear,
     InitializeStep, InitializeCheck, CreateSpoolerSession, CreateListenerThread, InitializeDone
<1>4. ASSUME NEW l \in Listeners, ListenerEvent(l) \/ ListenerStep(l) PROVE VMInv'
  BY <1>2, <1>3, <1>4, VMKept, Zenon DEF Threads, ListenerStep, ListenerStart, ListenerCall, ListenerEvent,
     ListenerFails, ListenerReload
<1>5. ASSUME NEW p \in Stoppers, StopServer(p) \/ StopperStep(p) PROVE VMInv'
  BY <1>2, <1>3, <1>5, VMKept, Zenon DEF Threads, StopperStep, StopServer, StopCheck, StopReset
<1>6. ASSUME NEW p \in Pnps, PnpCall(p) \/ PnpStep(p) PROVE VMInv'
  BY <1>3, <1>6, VMKept, Zenon DEF Threads, PnpStep, PnpCall, PnpState, PnpRelease, PnpWait, WaitForReset
<1>7. MainStep \/ SpoolerDies \/ UNCHANGED vars => VMInv'
  BY VMKept, Zenon DEF MainStep, MainStops, MainState, MainWait, WaitForReset, SpoolerDies, vars
<1>8. LinkLost => VMInv'
  BY VMKept, Zenon DEF LinkLost
<1> QED
  BY <1>1, <1>4, <1>5, <1>6, <1>7, <1>8, Zenon DEF Next

-----------------------------------------------------------------------------
\* The inductive invariant, for every number of requests, listeners, signals and
\* resets and for everything jhis_init may find on the machine.
THEOREM ServiceInvariant == Spec => []ServiceInv
<1>1. Init => ServiceInv
  BY InitBase, InitPlugin, InitReset, Zenon DEF ServiceInv, Base
<1>2. ServiceInv /\ [Next]_vars => ServiceInv'
  BY BaseStep, PluginStep, ResetStepInv, Zenon DEF ServiceInv, Base
<1> QED
  BY <1>1, <1>2, PTL DEF Spec

\* A command is never run while the plugin is not set up: the reader side of
\* initLock, held from the check of the state to the answer, keeps jhis_init and
\* JhiReset out.
THEOREM CommandsFindPlugin == Spec => []CommandsHavePlugin
<1>1. ServiceInv => CommandsHavePlugin
  BY Zenon DEF ServiceInv, PluginInv, CommandsHavePlugin
<1> QED
  BY <1>1, ServiceInvariant, PTL

\* While the service is not stopped a listener, or a jhi_stop on its way to
\* JhiReset, is left to reset it, also when signals, a reload of the spooler, a
\* failed start and jhi_invoke_reset interleave.
THEOREM ResetIsComing == Spec => []SomeoneWillReset
<1>1. ServiceInv => SomeoneWillReset
  BY Zenon DEF ServiceInv, ResetInv, SomeoneWatches, Watches, NotWatching, SomeoneWillReset, Resetters
<1> QED
  BY <1>1, ServiceInvariant, PTL

\* When nobody holds the writer side of initLock, an initialised service has its
\* plugin, and a stopped one has no plugin, an empty table and, if JHI resets the
\* VM, no session in it, provided that the transport does not change under it.
THEOREM StateIsMatched == ASSUME SameTransport PROVE Spec => []StateMatchesPlugin
<1>1. Init => VMInv
  BY InitPlaces, Zenon DEF VMInv
<1>2. ServiceInv /\ VMInv /\ [Next]_vars => VMInv'
  BY VMStep, Zenon DEF ServiceInv, Base
<1>3. ServiceInv /\ VMInv => StateMatchesPlugin
  BY ServiceAssumption, Zenon DEF ServiceInv, TypeOK, PluginInv, VMInv, NobodyInside, Inside, StateMatchesPlugin
<1> QED
  BY <1>1, <1>2, <1>3, ServiceInvariant, PTL DEF Spec
============================================================================
