# A TLA+ model of the DAL host interface (JHI)

JHI is the daemon and the client libraries through which applications install
Java applets on Intel DAL firmware and talk to them. This directory holds TLA+
modules that model it, TLC configurations that check them on small instances,
and TLAPS proofs for five parts: the readers-writer lock, the session table, the
life cycle of the service, the event path and libjhi's handles. `PROJECT.json` lists the runs, the
source lines behind every definition, the hazards and the theorems.

## The system and its parts

An application calls **libjhi** (or **teemanagement**). libjhi turns the call
into one command on one socket connection. The service's **CommandsServer**
accepts the connection and gives it a thread, **CommandDispatcher** checks the
command and calls a `jhis_*` handler. Handlers work on four singletons
(**SessionsManager**, **AppletsManager**, **EventManager**, **GlobalsManager**)
and on the **VM plugin** for the firmware's VM: `bhplugin1` (BHv1) or `bhplugin2`
(BHv2 over the proxy BHP), which reach the firmware through `teetransport`.

Three locks order this:

* `initLock`, a readers-writer lock. Requests hold it as readers, `jhis_init` and
  `JhiReset` as writers.
* `_jhiMutex` of the dispatcher, which serialises every command but
  send-and-receive (SAR).
* `SessionsManager::_locker` and one recursive lock per session.

Events flow the other way. A listener thread of the service waits in the spooler
applet, queues each event with its session and signals an event socket on which
libjhi has one thread per registration.

## Modules

| Part | Modules | What the state is |
|---|---|---|
| `ReadWriteLockPThread` | `ReadWriteLock`, abstract `RWLockSpec`, `ReadWriteLock_proofs` | both mutexes, the count, the sleeping writer, a program counter per thread |
| SessionsManager, create, close, SAR, unload | `Sessions`, abstract `SessionSpec`, `MCSessions`, `Sessions_proofs`, `Sessions_theorems` | session records (owners, flags, LRU stamp), session locks, `_jhiMutex`, each session as the VM and the plugin see it, the position of each request |
| Life cycle: processCommand, `jhis_init`, `JhiReset`, `jhi_stop`, the listener | `Service`, `Startup`, `MCService`, `Service_proofs` | `jhi_state`, plugin, spooler session, `initLock`, listener threads, the VM and firmware found |
| Events | `Events`, `MCEvents`, `Events_proofs` | event handles (heap objects with reused addresses), queues, sockets, library threads |
| BHP, the proxy of BHv2 | `BHP`, `MCBHP` | `rrmap`, records with counts and locks, the receive thread, requests in the firmware |
| Applets and packages | `Applets`, `Package`, `MCApplets` | applet table, repository files now and as a power loss would leave them, applets in the VM, the command in progress; as history what clients were told and which unchecked calls failed |
| Commands and sockets | `Protocol`, `Sockets`, `Rpc`, `MCRpc` | connections, permits, the accept loop, a worker per connection, exact lengths |
| libjhi in an application | `LibJHI`, `MCLibJHI`, `LibJHI_proofs` | `appHandle`, session handles, heap cells, owners at the service |
| VM plugins | `VM1`, `VM2`, `BHErrors`, `Plugins`, `MCPlugins` | security domain handles, sessions, response records, the life of the library, error translation |

How they compose: `Plugins` puts the two plugins beside each other as
`JhiPlugin_Register` does; `Service` extends `Startup`, `Rpc` extends `Protocol`
and `Sockets`, `Applets` extends `Package`. `Service` uses `initLock` as the
abstract lock that `ReadWriteLock` is proved to implement.

An action is a critical section or the code between two points where another
thread, the firmware or a crash can interfere. Actions and helpers have the names
of the functions they translate. Definitions named `X_Something` before an `X` are
mutated forms of `X`: they put a plausible bug into it, and the property they are
meant for must then fail.

Undefined behaviour is a choice. A thread that locks a freed session lock either
goes on or is `halted`; a freed event handle may be the next one allocated; a list
sorted with `>=` may end in any order of its equal elements.

## Runs

| Run | Instance | What it shows |
|---|---|---|
| `rwlock` | 4 threads | the lock excludes, loses no wake-up, implements `RWLockSpec`, and a waiting writer gets in |
| `sessions` | 2 threads, 2 ids, 2 processes, 1 applet, 1 VM session, LRU counter up to 2; safety only, so symmetry is used | the inductive invariant and its consequences: one shared session per applet, the record of a session that is open in the VM stays until the plugin has given the session up, a record stays while its lock is held, only unowned sessions are evicted, the holder of a session lock waits for nothing, refinement of `SessionSpec` |
| `sessions_forced` | the same, without symmetry | **violation**: a forced close waits on a session lock that the SAR it ended has freed (see Findings) |
| `service` | 2 clients, 2 listeners, a stopper, 3 spooler sessions, BHv1 over MEI, one thing of the machine failing | a running command has its plugin, the state matches the plugin, and an initialised service always has someone who will notice that the firmware is gone |
| `service_live` | 1 client, a device notification, BHv2, transport found by itself | requests are answered across resets; a lost connection leads to a reset |
| `events` | 1 session registered up to twice, 2 handle addresses, queue of 2, 2 events, 3 more calls of the client, one fault: a request or a fetch that fails, a spooler error or a reset | each thread calls back in order and no event twice, both sides agree on registrations; for the first registration no wake-up is lost, every queued event is delivered unless a fetch fails, and a connected thread ends |
| `bhp` | 2 threads, 1 session, 2 stack records, 1 killed session, 1 lost connection | records outlive their users, answers reach their own request, no record is lost, nobody waits for ever |
| `applets` | 2 applets, 3 packages (several blobs; one shared; none that fits) offered in 5 ways, either VM, room for one applet, 2 mishaps: 12 kinds of calls that may fail, the death of the service, power loss | what an install or uninstall promised stays true and an applet has one package file, but for applets with a failed removal that the code does not check; a request that installs from the repository has the package at every step, as a PENDING file between its removal and the rename |
| `rpc` | 2 threads, 2 connections, 1 permit, each of Linux, Windows, Android, 1 fault (an allocation, a thread, a connect, an accept, a peer) | permits are neither lost nor doubled, every call returns, unless its connection or every permit was lost with a thread that could not be started, or a failed accept ended the loop before its connection was taken |
| `rpc_calls` | 1 thread, every command, lengths at the limits | what libjhi admits reaches its handler, and answers are read as they were meant, apart from the exceptions named in `Rpc` |
| `libjhi` | 2 threads, 2 addresses, 2 sessions, 1 other process, 3 initialisations, 2 faults | appHandle and the handles in its list stay allocated, owners at the service match handles, and a handle leaves the list only with its ownership |
| `plugins` | BHv2: 2 OEM domains, 1 application, 2 session numbers, 1 fault. BHv1: 2 requests beside a command, 1 lost connection | shared security domains stay open, records outlive users; the service drops its session record when the VM session is gone, and otherwise only for four codes that the plugin alone calls fatal or after a refused close |

**Bounds.** The hazards are races of two threads on one object, or of one thread with
a failure, so two of each kind of actor and one object to fight over are enough to
meet them; a second object is added where reuse matters (session ids, addresses,
handles, sequence numbers). `VMMax = 1` makes the VM full, so that eviction runs;
`MaxLRU = 2` lets a shared session be released, taken up and released again. A queue of
2 with 2 events lets one event be fetched while the other is queued, and be called back
by a thread that was not joined while a second thread fetches. One lost connection per
behaviour suffices, as it puts the volatile state back to its initial value. In `applets`
two mishaps are a failure and a crash during its repair, or two failed calls of one
command; calls count from where a package has been read, since a failure before that
changes nothing. `Offers` and `Machines`
bound what clients install and which part of a machine fails. `Seen`, the view of
`plugins`, leaves out what a handler returned, which no later step reads; the
property about it is evaluated on every step, and the variables of the plugin that is not
loaded, which never change. `MCEvents` picks the first of the interchangeable free
addresses for a session's first handle.

**Fairness.** Threads that can move do move (weak fairness), since they are OS
threads; in `Events` that is one condition for the listener, one for the call in
progress and one per library thread, and a callback of the application returns. Strong
fairness stands for taking a lock that is released again and again: a reader's exit in
`ReadWriteLock`, the steps of a thread in `BHP` and `Service`, any of which may wait for a
lock. None of these mutexes is fair by specification; the properties are about
hand-overs that are never made, not about starvation at a lock that is free. `Sessions`
assumes no fairness: that nobody waits for ever at a session lock is stated as the
invariant `NoHoldAndWait`, which the proofs cover too.
Applications, applets, crashes and failures are never obliged to happen.
`Service.RequestsAnswered` assumes in its own premise that applets answer; in `BHP`
the firmware answers what it was asked while the connection is up.

Deadlock checking is off where the modelled system may really stop: bounds used up,
the service stopped, an application gone, a process crashed.

## Proofs

The proofs hold for every value of the constants that satisfies the named assumption of
the module: `ThreadsAssumption` (finitely many threads), `SessionsAssumption` (finitely
many ids, at least one owner per shared session), `ServiceAssumption` (finitely many
threads and sessions, each thread of one kind, machines made of the things `Startup`
knows), `EventsAssumption` and `LibJHIAssumption` (bounds are natural numbers, a queue
and a registration at least; threads and addresses of an application are finite). All
of them also say that `None` is no member of the sets it is used beside.

**ReadWriteLock_proofs.** `LockInv` is inductive: mutex ownership follows the
program counters, `_readersCount` is the number of counted readers, a writer inside
excludes counted readers, and a sleeping writer has a reader still to leave. The
exclusion alone is not inductive, because the decision to enter depends on the
count, and the count on who holds `_readLock`. From it follow the exact count (the
unsigned counter never wraps), that no wake-up is lost, and the refinement of
`RWLockSpec` under the mapping that reads each thread's mode off its position.

**Sessions_proofs, Sessions_theorems.** `SessionsInv` says for each position of each
handler what that thread knows: a SAR past `GetSessionLock` holds the lock of a live
record, a thread about to remove a record knows that the VM session has ended or that
the plugin has given it up, a thread creating a shared session knows there is none yet,
the sessions listed for clean-up stay without owners. It adds that `_jhiMutex` is held
exactly by the one request that is not a SAR, and how table and VM agree. The
properties alone are not inductive: each depends on a check made several steps earlier.
A step of one thread leaves the others' knowledge intact by one of two frame lemmas:
`FrameAny` for steps that only shrink the table, `FrameSar` for steps of the holder of
`_jhiMutex`, next to which only SARs run. The refinement of `SessionSpec` maps `open` to
the sessions that the VM and the plugin both hold for open. `LocksAreReleased` needs one
more invariant, `HoldInv`: a free lock has depth zero, and the close that a SAR calls
never goes to the VM.

What these theorems do not say: that the table has every session of the VM. `vm` tells
apart "open" from "leaked" (the creation failed after the VM had opened the session),
"forgotten" (the VM refused a close, after which the proxy has dropped its record and
the next close reports an invalid handle) and "misread" (the plugin told a SAR
`JHI_APPLET_FATAL` though the session lives). The service drops its record of the last
two; `NoLostVMSession` says that these are the only ways.

**Service_proofs.** `ServiceInv` has three parts. `LockInv` says who holds `initLock` at
which place; `PluginInv` what the thread inside `jhis_init` or `JhiReset` knows of plugin,
state and table, and what holds when nobody is inside; `ResetInv` who is left to reset
the service: a listener, or a `jhi_stop` on its way. That a command has its plugin
follows only together with the lock, since the check of the state and the use of the
plugin lie apart. `StateIsMatched` has the hypothesis `SameTransport`: the transport found
does not change between initialisations, which only the setting AUTO would allow, if
the kernel's DAL device came or went.

**Events_proofs.** `EventsInv` says which session a handle's address belongs to and which
registration it is connected to (`HeapInv`), what the call that holds `appHandleLock` has
done so far (`CallInv`), that the events taken by threads, queued and on their way are in
the order of emission and no event was taken by two threads (`OrderInv`), and that until
a session is registered a second time no queued event waits for a signal that is not to
come, unless a fetch failed (`FirstInv`). Order needs `OrderInv` because a thread that was
not joined may hold an event while the next thread fetches: what each holds counts as
taken.

**LibJHI_proofs.** `LibInv` says who owns each session structure (the list, or one thread
that is creating), that the reference count is the number of `JHI_Initialize` calls held
or being given back, and that the service records as many owners of a session as there
are structures that name it. The last is proved only for runs without a dropped list or
a lost answer and, on Android, without a failed clear-up, as the property says.

**Only model-checked.** All liveness (fairness and ENABLED are outside the prover): the
writer that gets in, `RequestsAnswered` and `LossResets` of `Service`, `EventsDelivered` and
`ConnectedThreadEnds`, `Answered` of `BHP`, `CallReturns`. All of `BHP`, `Applets`,
`Package`, `Rpc` and the plugins. What `Startup` says of firmware versions and settings
is used by `Service` only for the VM type and the transport; no property is about the
rest.

## Findings

`sessions_forced` is the one run that is expected to fail. `GetSessionLock` takes the
`Locker` of a session under `_locker` but waits for it after releasing `_locker`,
while `SessionsManager::remove` frees it. A forced close that waits there while the
SAR it ended removes the record uses a destroyed mutex. The comment at
`closeSession.cpp:135` takes it for granted that the call fails and returns.

Modelling met the following as well. The models contain them as the code has them;
the properties are stated so that they say what is still true.

*Sessions.* `BHP_CloseTASession` drops the proxy's record also if the VM refuses the close,
and `beihaiToJhiError` calls a session fatal for codes that do not end it: either way the
VM session may stay without a record. Victims of a clean-up are looked up with `operator[]`, which would bring
a record back that a SAR removed. `addSessionOwner` failing because the session just
died is reported as `MAX_SHARED_SESSION_REACHED`. A session whose applet refuses its id
stays open in the VM without a record. `jhis_get_applet_property` ignores
how the close of its temporary session ended.

*Life cycle.* `jhi_main` may return while the service is initialised. A listener that
ends can leave `EventManager::initialized` set. `closeSessionsInVM` waits, in a reset,
for a request that is blocked in the VM. `jhi_invoke_reset` without a spooler session
does nothing. The VM type of the first discovery is kept even if that initialisation
fails. `FWInfoLinux::Disconnect` leaves `_isConnected` set, so the three tries of
`discoverFwVersionLegacy` do not reopen the device, and its `usleep` waits
microseconds where milliseconds are meant. `getFwVersionString` compares the length
written with 4. Over the DAL device with BHv2, a session created between
`closeSessionsInVM` and the writer lock stays open in the VM.

*Events.* A fetch that fails loses the event it took off the queue, and those behind it
wait for the signal of a later one. An event may be queued after the session was unregistered; the event handle
is not closed at a reset; a library thread whose socket reached its end spins
(`jhi.cpp:1425`); an accepted connection of a thread that is to end is leaked.

*BHP and BHv2.* `wait_event` may follow the close of the event; the `killed` flag is
written without the lock; sequence numbers wrap without a check for records in use. The
slot for the OEM domain is overwritten by a second domain and its session is never
closed by clients; if the Intel domain could not be opened at `Init`, opening it
succeeds with a NULL handle. The check for live sessions before an uninstall is
skipped if listing them fails. A refused close drops the proxy's record and leaves
the VM session. `ListInstalledSDs` passes on proxy codes untranslated.

*BHv1.* The receive thread is not joined after a failed `Init`. The refusal of one user too
many is reported as `INVALID_SESSION_HANDLE`, for which the service drops a live
record. A new session record has an uninitialised event. Some commands of the SDM
channel carry the sequence number, others the record's address.

*Applets.* `syncAppletToDisk` asks for the `.dalp` name only, so a command package is
not synced. `completeInstall` does not check whether the file with the other extension
could be removed (`AppletsManager.cpp:258`: "no need to check since rename will fail"),
and the rename to another name succeeds: two files remain, and an uninstall removes one.
`errorDeleteFromFW` does not look whether the VM unloaded the applet. On BHv1
`completeInstall` removes the package before it renames the PENDING copy; a crash between
the two leaves only the copy, which the next start deletes. A failed sync is ignored. A
record stays `INSTALLED` after a failed forced re-download. Eviction stops at the first
applet that cannot be unloaded. Whether an applet supports shared sessions is cached in
its record and survives the install of another version (that cache is not modelled). In `Package`: with packages
not signed once, the elements of the chosen major version are all offered, also those
above the firmware's minor version; a package whose elements all need a higher API
level is reported as unreadable, not as incompatible, since `copyBlobsFromList` of an
empty list fails; the "exactly one node" test of `GetNodeText` compares a `bool`; and
`readFileAsBlob` overwrites its own "too long" verdict with success.

*Commands.* Windows publishes the port before it listens. Android's `close` does not
wake a thread inside `accept`, which may serve one more client. A failed thread
creation loses a permit on Linux and Windows and not on Android; a failed
allocation of its parameters leaks the connection. A failed `accept` ends the accept
loop while the socket goes on listening: clients still connect and are not served. A property buffer of the largest
length and a command package beyond the transport's limit are refused. List
responses are read 12 bytes too long, and an empty list of domains is read outside
its buffer.

*libjhi.* The close after a failed send may hit a new session at the same address.
`CreateSessionProcess` reads `appHandle` without its lock. Closing a
shared session that the process does not own is refused and leaves the handle in the
list. On Android `JHI_ClearSessions` closes the sessions of a process without asking
whether it is dead. `JHI_Deinit` leaves the process's sessions at the service, which clears them when the process ends.

## Not modelled

* `teetransport`, `libtee`, `libmei`: device and socket I/O. Their users' models let
  each call succeed, fail or be cut off.
* The parser of command packages (`admin_pack`): a decoder of byte layouts whose
  result, the kind and target of the command, is an input of `VM2`.
* `Win32Service`, `ReadWriteLock.cpp` (Win32), the registry, COM XML, signature checks
  (`DLL_Loader`), HECI notifications beyond their effect on `Service`. A different
  code base for the same duties; only its sockets are modelled.
* Android JNI and the C# binding: argument conversion.
* Read-only queries (`getSCount`, `getSessionStat`), which change nothing.
* Logging, tracing, memory profiling, headers of message layouts, tests.
* Contents of buffers and texts: no property depends on them. Failed small allocations
  are modelled only where the code handles them by a path of its own.
* SVM and native TAs, which `bh_shared_conf.h` does not compile; `uninstallAll`,
  `getTotalSessionsCount` and `UnloadUnusedApplets`, which nothing calls.
* Sessions and applets together: `Sessions` has the full session table and an applet as
  a name; `Applets` has the full applet table and an applet's sessions as none, owned
  or shared without owners.
