------------------------------- MODULE Applets -------------------------------
(***************************************************************************)
(* Installing and removing applets: the applet table of AppletsManager,    *)
(* the package files of the applet repository and the applets in the VM,   *)
(* as jhis_install, cmd_pkg_install_jta, jhis_unload and jhis_uninstall    *)
(* change them.  The commands run one at a time under _jhiMutex, so `cmd'  *)
(* is the one in progress; its steps are separate because the service may  *)
(* die, or the machine lose power, between any two of them.                *)
(*                                                                         *)
(* A dalp package holds blobs for several firmware versions, which are     *)
(* tried in the order Package gives; a command package is its own blob.    *)
(***************************************************************************)
EXTENDS Package, FiniteSets

CONSTANTS Apps, None,
          Packages, Content,   \* what the dalp file of a package holds
          Offers,        \* bound: the installs clients ask for, <<applet, package, kind>>
          FwVersions, ApiLevel,   \* of the platform, by VM type, and of its TEE
          VmTypes,       \* "v1": applets do not survive a restart; "v2": they do
          MaxApplets,    \* applets the VM has room for
          Exts,          \* package kinds in use: "dalp" and, by command package, "acp"
          Faults,        \* calls that may fail
          Crashes,       \* "process": the service dies; "power": the machine does
          MaxMishaps     \* bound: crashes, and calls that fail once a package was read

ASSUME AppletsAssumption ==
  /\ VmTypes \subseteq {"v1", "v2"} /\ MaxApplets \in Nat /\ MaxMishaps \in Nat
  /\ "dalp" \in Exts /\ Exts \subseteq {"dalp", "acp"}
  /\ Crashes \subseteq {"process", "power"}

VARIABLES
  VmType,    \* the VM of the platform, found out by jhis_init
  up,        \* the service is initialised
  table,     \* _appletTable: the status of every applet
  disk,      \* the repository: <id>.ext (file) and PENDING_<id>.ext (pending)
  durable,   \* the repository a power loss would leave
  vm,        \* the blobs loaded in the VM
  sess,      \* "none", "owned", or "unowned": a shared session without owners
  cmd,       \* the command in progress
  promise,   \* what the last successful install or uninstall told the client
  unsynced,  \* the applets whose files the last call to sync them failed to sync
  leftover,  \* the applets of which a removal failed that the code does not check
  mishaps    \* crashes and failed calls so far

vars == <<VmType, up, table, disk, durable, vm, sess, cmd, promise, unsynced, leftover, mishaps>>
history == <<mishaps, unsynced, leftover>>

NoFiles == [a \in Apps |-> [x \in Exts |-> None]]
NoCommand == [op |-> "none", app |-> None, ext |-> None, pkg |-> None,
              pc |-> "idle", ok |-> TRUE, blobs |-> <<>>, i |-> 1]
At(p) == cmd.pc = p
Try(p, i) == cmd' = [cmd EXCEPT !.pc = p, !.i = i]
GoTo(p) == Try(p, cmd.i)
Return == cmd' = NoCommand

Mishap == mishaps < MaxMishaps /\ mishaps' = mishaps + 1
Fails(call) == call \in Faults /\ Mishap

\* appletExistInRepository: <id>.dalp is looked for before <id>.acp.
FoundExt(files, a) == IF files[a]["dalp"] = None /\ "acp" \in Exts THEN "acp" ELSE "dalp"
Found(files, a) == files[a][FoundExt(files, a)]

Init ==
  /\ VmType \in VmTypes
  /\ up = TRUE
  /\ table = [a \in Apps |-> "NOT_INSTALLED"]
  /\ disk = [file |-> NoFiles, pending |-> NoFiles]
  /\ durable = disk
  /\ vm = [a \in Apps |-> None]
  /\ sess = [a \in Apps |-> "none"]
  /\ cmd = NoCommand
  /\ promise = [a \in Apps |-> "unknown"]
  /\ unsynced = {}
  /\ leftover = {}
  /\ mishaps = 0

-----------------------------------------------------------------------------
(* The VM: an applet with sessions is neither replaced nor unloaded. *)

Answer(res, v) == [res |-> res, vm |-> v, mishaps |-> mishaps]
Failures(call) == IF call \in Faults /\ mishaps < MaxMishaps
                  THEN {[res |-> "fail", vm |-> vm, mishaps |-> mishaps + 1]} ELSE {}

DownloadApplet(a, b) ==
  Failures("download") \cup
  {CASE sess[a] # "none" -> Answer("fail", vm)
     [] vm[a] = b -> Answer("identical", vm)
     [] vm[a] = None /\ Cardinality({c \in Apps : vm[c] # None}) >= MaxApplets ->
          Answer("max", vm)
     [] OTHER -> Answer("ok", [vm EXCEPT ![a] = b])}

UnloadApplet(a) ==
  Failures("unload") \cup
  {CASE vm[a] = None -> Answer("absent", vm)
     [] sess[a] # "none" -> Answer("fail", vm)
     [] OTHER -> Answer("ok", [vm EXCEPT ![a] = None])}

-----------------------------------------------------------------------------
(* Commands arrive.  A session request installs the applet from the        *)
(* repository first when the table does not have it.                        *)

Start(o, a, x, k, p) ==
  /\ up /\ cmd = NoCommand
  /\ cmd' = [NoCommand EXCEPT !.op = o, !.app = a, !.ext = x, !.pkg = k, !.pc = p]
  /\ UNCHANGED <<VmType, history, up, table, disk, durable, vm, sess, promise>>

Install(a, k) == <<a, k, "dalp">> \in Offers /\ Start("install", a, "dalp", k, "prepare")

InstallPackage(a, k) ==
  /\ VmType = "v2" /\ <<a, k, "acp">> \in Offers
  /\ Start("install", a, "acp", k, "prepare")

CreateSession(a) ==
  /\ Found(disk.file, a) # None
  /\ Start("create", a, FoundExt(disk.file, a), Found(disk.file, a),
           IF VmType = "v1" /\ table[a] = "NOT_INSTALLED" THEN "prepare" ELSE "session")

GetProperty(a) ==
  /\ table[a] = "NOT_INSTALLED" => Found(disk.file, a) # None
  /\ Start("property", a, FoundExt(disk.file, a), Found(disk.file, a),
           IF table[a] = "NOT_INSTALLED" THEN "prepare" ELSE "session")

Uninstall(a) == Start("uninstall", a, "dalp", None, "unload")

\* The client's promise ends when the command starts to replace what it had.
Forget == promise' = IF cmd.op \in {"install", "uninstall"}
                     THEN [promise EXCEPT ![cmd.app] = "unknown"] ELSE promise

\* ClearAppletSharedSession: an unowned shared session of the applet is closed, if the
\* VM closes it.
ClearAppletSharedSession(a) ==
  \/ /\ sess' = IF sess[a] = "unowned" THEN [sess EXCEPT ![a] = "none"] ELSE sess
     /\ UNCHANGED mishaps
  \/ sess[a] = "unowned" /\ Fails("close") /\ UNCHANGED sess

-----------------------------------------------------------------------------
(* jhis_install and cmd_pkg_install_jta *)

\* AppletsManager::getAppletBlobs; a package without a candidate is refused.
readFileAsBlob(k) == [ok |-> TRUE, blobs |-> <<k>>]

\* JHI_Plugin_QueryTeeMetadata
getPlatformApiLevel == {ApiLevel} \cup (IF "metadata" \in Faults THEN {INVALID_API_LEVEL} ELSE {})

FromDalp ==
  [k \in Packages, v \in VmTypes |->
     {IF r.blobs = <<>> THEN Fail ELSE r :
        r \in UNION {getAppletBlobs(Content[k], FwVersions[v], l) : l \in getPlatformApiLevel}}]

BlobsOf(k, x) == IF x = "acp" THEN {readFileAsBlob(k)} ELSE FromDalp[k, VmType]

\* The client's file is missing or has another extension.
BadFile ==
  /\ At("prepare") /\ "file" \in Faults
  /\ cmd.op = "install" => cmd.ext = "dalp"
  /\ ClearAppletSharedSession(cmd.app)
  /\ Return
  /\ UNCHANGED <<VmType, unsynced, leftover, up, table, disk, durable, vm, promise>>

\* prepareInstallFromFile, prepareInstallFromBuffer
prepareInstall ==
  /\ At("prepare")
  /\ ClearAppletSharedSession(cmd.app)
  /\ \E r \in BlobsOf(cmd.pkg, cmd.ext) \cup (IF "copy" \in Faults THEN {Fail} ELSE {}) :
       IF r.ok
       THEN /\ disk' = [disk EXCEPT !.pending[cmd.app][cmd.ext] = cmd.pkg]
            /\ table' = [table EXCEPT ![cmd.app] =
                           IF @ = "NOT_INSTALLED" THEN "PENDING_INSTALL" ELSE @]
            /\ cmd' = [cmd EXCEPT !.pc = "download", !.blobs = r.blobs]
       ELSE /\ disk' = [disk EXCEPT !.pending[cmd.app][cmd.ext] = None]
            /\ Return
            /\ UNCHANGED table
  /\ UNCHANGED <<VmType, unsynced, leftover, up, durable, vm, promise>>

\* One blob is offered to the VM, or the old one unloaded, with outcome r.
InVM(r) ==
  /\ vm' = r.vm /\ mishaps' = r.mishaps
  /\ IF r.res = "ok" THEN Forget ELSE UNCHANGED promise
  /\ UNCHANGED <<VmType, unsynced, leftover, up, disk, durable, sess>>

Downloading(r) == InVM(r) /\ UNCHANGED table

TryNext(p) == IF cmd.i < Len(cmd.blobs) THEN Try(p, cmd.i + 1) ELSE GoTo("error")

EvictOr(res) == IF res = "max" /\ VmType = "v1" THEN "evict" ELSE "error"

Download ==
  /\ At("download")
  /\ \E r \in DownloadApplet(cmd.app, cmd.blobs[cmd.i]) :
       /\ Downloading(r)
       /\ CASE r.res = "ok" -> GoTo("remove")
            [] r.res = "identical" -> GoTo("force")
            [] r.res = "max" -> GoTo(EvictOr(r.res))
            [] OTHER -> TryNext("download")

ForceUnload ==
  /\ At("force")
  /\ \E r \in UnloadApplet(cmd.app) : Downloading(r)
  /\ GoTo("again")

DownloadAgain ==
  /\ At("again")
  /\ \E r \in DownloadApplet(cmd.app, cmd.blobs[cmd.i]) :
       Downloading(r) /\ GoTo(IF r.res = "ok" THEN "remove" ELSE EvictOr(r.res))

DownloadRetry ==
  /\ At("retry")
  /\ \E r \in DownloadApplet(cmd.app, cmd.blobs[cmd.i]) :
       Downloading(r) /\ (IF r.res = "ok" THEN GoTo("remove") ELSE TryNext("retry"))

\* UnloadAppletWithNoSessions, for the first applet in the list without sessions
Unused(s) == {b \in Apps : table[b] = "INSTALLED" /\ s[b] = "none"}

UnloadAppletWithNoSessions(s, otherwise) ==
  \/ /\ Unused(s) = {}
     /\ GoTo(otherwise)
     /\ UNCHANGED <<table, vm, mishaps>>
  \/ \E b \in Unused(s) : \E r \in UnloadApplet(b) :
       /\ vm' = r.vm /\ mishaps' = r.mishaps
       /\ table' = IF r.res = "ok" THEN [table EXCEPT ![b] = "NOT_INSTALLED"] ELSE table
       /\ IF r.res = "ok" THEN Try("retry", 1) ELSE GoTo(otherwise)

EvictUnused ==
  /\ At("evict")
  /\ UnloadAppletWithNoSessions(sess, "evictShared")
  /\ UNCHANGED <<VmType, unsynced, leftover, up, disk, durable, sess, promise>>

EvictShared ==
  /\ At("evictShared")
  /\ \/ /\ \A c \in Apps : sess[c] # "unowned"
        /\ GoTo("error")
        /\ UNCHANGED <<table, vm, sess, mishaps>>
     \/ \E c \in Apps :
          /\ sess[c] = "unowned"
          /\ sess' = [sess EXCEPT ![c] = "none"]
          /\ UnloadAppletWithNoSessions(sess', "error")
     \/ /\ \E c \in Apps : sess[c] = "unowned"
        /\ Fails("close")
        /\ GoTo("error")
        /\ UNCHANGED <<table, vm, sess>>
  /\ UNCHANGED <<VmType, unsynced, leftover, up, disk, durable, promise>>

Other(x) == IF x = "dalp" THEN "acp" ELSE "dalp"

\* Mutant: with an old package its pending successor is removed too.
RemoveOld_PendingToo ==
  /\ At("remove")
  /\ disk' = [disk EXCEPT !.file[cmd.app][cmd.ext] = None,
                          !.pending[cmd.app][cmd.ext] =
                             IF disk.file[cmd.app][cmd.ext] = None THEN @ ELSE None]
  /\ GoTo("removeOther")
  /\ Forget
  /\ UNCHANGED <<VmType, history, up, table, durable, vm, sess>>

\* completeInstall: remove both old files, rename, sync, mark the record.  Neither
\* removal is checked: the rename then replaces the file (POSIX) or fails (Windows),
\* but it does not notice a file of the other extension.
RemoveOld ==
  /\ At("remove")
  /\ \/ disk' = [disk EXCEPT !.file[cmd.app][cmd.ext] = None] /\ UNCHANGED mishaps
     \/ disk.file[cmd.app][cmd.ext] # None /\ Fails("removeOld") /\ UNCHANGED disk
  /\ GoTo("removeOther")
  /\ Forget
  /\ UNCHANGED <<VmType, unsynced, leftover, up, table, durable, vm, sess>>

\* Mutant: the package of the other extension is not removed.
RemoveOther_Skipped ==
  /\ At("removeOther")
  /\ GoTo("rename")
  /\ UNCHANGED <<VmType, history, up, table, disk, durable, vm, sess, promise>>

RemoveOther ==
  /\ At("removeOther")
  /\ LET x == Other(cmd.ext)
         there == x \in Exts /\ disk.file[cmd.app][x] # None
     IN \/ /\ disk' = IF there THEN [disk EXCEPT !.file[cmd.app][x] = None] ELSE disk
           /\ UNCHANGED <<leftover, mishaps>>
        \/ /\ there /\ Fails("removeOther")
           /\ leftover' = leftover \cup {cmd.app}
           /\ UNCHANGED disk
  /\ GoTo("rename")
  /\ UNCHANGED <<VmType, unsynced, up, table, durable, vm, sess, promise>>

\* When the rename fails the old package is gone and the new one will be removed.
Rename ==
  /\ At("rename")
  /\ \/ /\ disk' = [disk EXCEPT !.file[cmd.app][cmd.ext] = disk.pending[cmd.app][cmd.ext],
                                !.pending[cmd.app][cmd.ext] = None]
        /\ GoTo("sync")
        /\ UNCHANGED <<promise, mishaps>>
     \/ /\ Fails("rename")
        /\ cmd' = [cmd EXCEPT !.pc = "sync", !.ok = FALSE]
        /\ promise' = [promise EXCEPT ![cmd.app] = "unknown"]
        /\ UNCHANGED disk
  /\ UNCHANGED <<VmType, unsynced, leftover, up, table, durable, vm, sess>>

\* Mutant: the repository is not synced after the rename.
syncAppletToDisk_Skipped ==
  /\ At("sync")
  /\ GoTo(IF cmd.ok THEN "mark" ELSE "deleteFromFW")
  /\ UNCHANGED <<VmType, history, up, table, disk, durable, vm, sess, promise>>

\* JhiUtilSyncFile makes the repository durable or fails; neither caller looks.
Syncs ==
  \/ durable' = disk' /\ unsynced' = unsynced \ {cmd.app} /\ UNCHANGED mishaps
  \/ Fails("sync") /\ UNCHANGED durable /\ unsynced' = unsynced \cup {cmd.app}

\* syncAppletToDisk: getFileName is called with its default, the dalp name; when
\* that file is missing the repository directory is not synced either.
syncAppletToDisk ==
  /\ At("sync")
  /\ UNCHANGED disk
  /\ IF disk.file[cmd.app]["dalp"] # None THEN Syncs
     ELSE UNCHANGED <<durable, unsynced, mishaps>>
  /\ GoTo(IF cmd.ok THEN "mark" ELSE "deleteFromFW")
  /\ UNCHANGED <<VmType, leftover, up, table, vm, sess, promise>>

MarkInstalled ==
  /\ At("mark")
  /\ table' = [table EXCEPT ![cmd.app] = "INSTALLED"]
  /\ IF cmd.op = "install"
     THEN Return /\ promise' = [promise EXCEPT ![cmd.app] = cmd.pkg]
     ELSE GoTo("session") /\ UNCHANGED promise
  /\ UNCHANGED <<VmType, history, up, disk, durable, vm, sess>>

errorDeleteFromFW ==
  /\ At("deleteFromFW")
  /\ \E r \in UnloadApplet(cmd.app) :
       /\ vm' = r.vm /\ mishaps' = r.mishaps
       /\ leftover' = IF r.res = "fail" THEN leftover \cup {cmd.app} ELSE leftover
  /\ GoTo("error")
  /\ UNCHANGED <<VmType, unsynced, up, table, disk, durable, sess, promise>>

\* errorRemoveApplet: the pending file goes first, then the record of a first install.
errorRemoveApplet ==
  /\ At("error")
  /\ \/ disk' = [disk EXCEPT !.pending[cmd.app][cmd.ext] = None] /\ UNCHANGED mishaps
     \/ Fails("removePending") /\ UNCHANGED disk
  /\ GoTo("drop")
  /\ UNCHANGED <<VmType, unsynced, leftover, up, table, durable, vm, sess, promise>>

DropRecord ==
  /\ At("drop")
  /\ table' = [table EXCEPT ![cmd.app] =
                 IF @ = "PENDING_INSTALL" THEN "NOT_INSTALLED" ELSE @]
  /\ Return
  /\ UNCHANGED <<VmType, history, up, disk, durable, vm, sess, promise>>

-----------------------------------------------------------------------------
(* Sessions, as far as they keep an applet from being replaced or removed *)

\* JHI_Plugin_CreateSession: on BHv2 with the blobs of the repository file in turn,
\* of which the VM takes the one it has.
CreatesSession(a) ==
  IF VmType = "v2" THEN \E r \in BlobsOf(Found(disk.file, a), FoundExt(disk.file, a)) :
                          \E i \in 1 .. Len(r.blobs) : vm[a] = r.blobs[i]
                   ELSE vm[a] # None

OpenSession ==
  /\ At("session") /\ cmd.op = "create"
  /\ sess' = IF CreatesSession(cmd.app) THEN [sess EXCEPT ![cmd.app] = "owned"] ELSE sess
  /\ Return
  /\ UNCHANGED <<VmType, history, up, table, disk, durable, vm, promise>>

\* jhis_get_applet_property: BHv2 answers it in a session, so one is opened if there
\* is none, and closed again after the answer.
PropertySession ==
  /\ At("session") /\ cmd.op = "property"
  /\ IF VmType = "v2" /\ sess[cmd.app] = "none"
     THEN IF CreatesSession(cmd.app)
          THEN sess' = [sess EXCEPT ![cmd.app] = "owned"] /\ GoTo("close")
          ELSE Return /\ UNCHANGED sess
     ELSE GoTo("keep") /\ UNCHANGED sess
  /\ UNCHANGED <<VmType, history, up, table, disk, durable, vm, promise>>

ReadProperty ==
  /\ At("close") \/ At("keep")
  /\ sess' = IF At("close") THEN [sess EXCEPT ![cmd.app] = "none"] ELSE sess
  /\ Return
  /\ UNCHANGED <<VmType, history, up, table, disk, durable, vm, promise>>

SessionLeft(a) ==
  /\ cmd = NoCommand /\ sess[a] = "owned"
  /\ \E s \in {"none", "unowned"} : sess' = [sess EXCEPT ![a] = s]
  /\ UNCHANGED <<VmType, history, up, table, disk, durable, vm, cmd, promise>>

-----------------------------------------------------------------------------
(* jhis_unload and jhis_uninstall *)

jhis_unload ==
  /\ At("unload")
  /\ IF table[cmd.app] = "NOT_INSTALLED" /\ VmType # "v2"
     THEN cmd' = [cmd EXCEPT !.pc = "erase", !.ok = FALSE] /\ UNCHANGED <<sess, mishaps>>
     ELSE /\ ClearAppletSharedSession(cmd.app)
          /\ IF sess'[cmd.app] # "none" THEN Return ELSE GoTo("unloadFromVM")
  /\ UNCHANGED <<VmType, unsynced, leftover, up, table, disk, durable, vm, promise>>

UnloadFromVM ==
  /\ At("unloadFromVM")
  /\ \E r \in UnloadApplet(cmd.app) :
       /\ InVM(r)
       /\ CASE r.res = "ok" -> GoTo("erase")
            [] r.res = "absent" -> cmd' = [cmd EXCEPT !.pc = "erase", !.ok = FALSE]
            [] OTHER -> Return
       /\ table' = IF r.res = "ok" THEN [table EXCEPT ![cmd.app] = "NOT_INSTALLED"] ELSE table

\* Mutant: the directory is not synced after the removal.
EraseFile_NotSynced ==
  /\ At("erase")
  /\ disk' = [disk EXCEPT !.file[cmd.app][FoundExt(disk.file, cmd.app)] = None]
  /\ promise' = [promise EXCEPT ![cmd.app] = "absent"]
  /\ Return
  /\ UNCHANGED <<VmType, history, up, table, durable, vm, sess>>

\* One file is removed, the one appletExistInRepository finds.
EraseFile ==
  /\ At("erase")
  /\ \/ /\ Found(disk.file, cmd.app) # None
        /\ disk' = [disk EXCEPT !.file[cmd.app][FoundExt(disk.file, cmd.app)] = None]
        /\ Syncs
        /\ promise' = [promise EXCEPT ![cmd.app] = "absent"]
     \/ /\ Found(disk.file, cmd.app) # None /\ Fails("remove")
        /\ UNCHANGED <<disk, durable, unsynced, promise>>
     \/ /\ Found(disk.file, cmd.app) = None
        /\ promise' = IF cmd.ok THEN [promise EXCEPT ![cmd.app] = "unloaded"] ELSE promise
        /\ UNCHANGED <<disk, durable, unsynced, mishaps>>
  /\ Return
  /\ UNCHANGED <<VmType, leftover, up, table, vm, sess>>

-----------------------------------------------------------------------------
(* The service stops, dies and starts again *)

Stopped ==
  /\ UNCHANGED VmType
  /\ up' = FALSE
  /\ table' = [a \in Apps |-> "NOT_INSTALLED"]
  /\ sess' = [a \in Apps |-> "none"]
  /\ cmd' = NoCommand

JhiReset ==
  /\ up /\ cmd = NoCommand /\ Stopped
  /\ UNCHANGED <<history, disk, durable, vm, promise>>

\* A crash keeps every promise but one: completeInstall, when it reinstalls an applet
\* from its own package, has removed that package before the rename (see PackageKept).
Survives(a) == ~(cmd.app = a /\ cmd.op \in {"create", "property"})

Crash ==
  /\ "process" \in Crashes /\ up /\ Stopped
  /\ Mishap
  /\ promise' = [a \in Apps |-> IF Survives(a) THEN promise[a] ELSE "unknown"]
  /\ UNCHANGED <<disk, durable, vm, unsynced, leftover>>

\* The machine loses what was not written back.  Nothing is promised then where nothing
\* was synced: a sync failed, syncAppletToDisk skips a command package, and
\* jhis_uninstall syncs only if there was a file to remove.
PowerLoss ==
  /\ "power" \in Crashes /\ Stopped
  /\ Mishap
  /\ disk' = durable
  /\ promise' = [a \in Apps |->
                   IF Survives(a) /\ (promise[a] = "absent" \/ FoundExt(disk.file, a) = "dalp")
                      /\ promise[a] # "unloaded" /\ a \notin unsynced
                   THEN promise[a] ELSE "unknown"]
  /\ UNCHANGED <<durable, vm, unsynced, leftover>>

\* The operating system writes the directory back in its own time.
WriteBack ==
  /\ "power" \in Crashes /\ durable # disk /\ mishaps < MaxMishaps
  /\ durable' = disk
  /\ UNCHANGED <<VmType, history, up, table, disk, vm, sess, cmd, promise>>

\* updateAppletsList: the files named <id>.dalp or <id>.acp, not the pending ones
updateAppletsList ==
  [a \in Apps |-> IF Found(disk.file, a) # None THEN "INSTALLED" ELSE "NOT_INSTALLED"]

jhis_init ==
  /\ ~up /\ up' = TRUE /\ UNCHANGED <<VmType, history>>
  /\ table' = IF VmType = "v2" THEN updateAppletsList ELSE table
  /\ vm' = IF VmType = "v2" THEN vm ELSE [a \in Apps |-> None]
  /\ UNCHANGED <<disk, durable, sess, cmd, promise>>

Next ==
  \/ \E a \in Apps, k \in Packages : Install(a, k) \/ InstallPackage(a, k)
  \/ \E a \in Apps : CreateSession(a) \/ GetProperty(a) \/ Uninstall(a) \/ SessionLeft(a)
  \/ BadFile \/ prepareInstall \/ Download \/ ForceUnload \/ DownloadAgain \/ DownloadRetry
  \/ EvictUnused \/ EvictShared
  \/ RemoveOld \/ RemoveOther \/ Rename \/ syncAppletToDisk \/ MarkInstalled
  \/ errorDeleteFromFW \/ errorRemoveApplet \/ DropRecord
  \/ OpenSession \/ PropertySession \/ ReadProperty \/ jhis_unload \/ UnloadFromVM \/ EraseFile
  \/ JhiReset \/ Crash \/ PowerLoss \/ WriteBack \/ jhis_init

Spec == Init /\ [][Next]_vars

-----------------------------------------------------------------------------
(* Properties *)

\* The blobs of a package that were made for this platform, for a firmware with no
\* higher major version and, where packages are signed once, for an API level it has.
Fitting ==
  [k \in Packages, v \in VmTypes |->
     LET fw == FwVersions[v]
         fits(n) == /\ OnPlatform(n, fw) /\ n.fwVersion[1] <= fw[1]
                    /\ isSignOnce(fw) => n.fwVersion[2] <= ApiLevel
     IN {Content[k].applets[i].blob :
           i \in {j \in DOMAIN Content[k].applets : fits(Content[k].applets[j])}}]

MadeFor(k, x) == IF x = "acp" THEN {k} ELSE Fitting[k, VmType]

\* After an install of a package was answered with success, and until a later
\* command has begun to replace it, the repository lookup finds that package; on
\* BHv2 the VM has a blob of it that was made for this platform, and on BHv1 it has
\* one whenever the table says so.  This survives failed installs, resets, evictions
\* and the death of the service, but not an old file of the other extension that
\* completeInstall could not remove: the lookup may find that one.
InstallKept ==
  \A a \in Apps \ leftover : promise[a] \in Packages /\ cmd.app # a =>
    LET loaded == vm[a] \in MadeFor(promise[a], FoundExt(disk.file, a))
    IN /\ Found(disk.file, a) = promise[a]
       /\ VmType = "v2" => loaded /\ (up => table[a] = "INSTALLED")
       /\ VmType = "v1" /\ table[a] = "INSTALLED" => loaded

\* After an uninstall was answered with success the applet is gone from the VM
\* and the repository until it is installed again: neither a restart, which
\* rebuilds the table from the files, nor a session request, which installs from
\* them, brings it back.  The exceptions are that old file, and an applet that stayed
\* in the VM because errorDeleteFromFW, which does not look, could not unload it.
UninstallKept ==
  \A a \in Apps \ leftover : promise[a] \in {"absent", "unloaded"} /\ cmd.app # a =>
    vm[a] = None /\ \A x \in Exts : disk.file[a][x] = None

\* An applet has one package file in the repository at any time, also between
\* the steps of completeInstall, after a crash and on the disk a power loss would
\* leave: jhis_uninstall removes only the one it finds.  The one exception is the
\* removal in completeInstall whose result is not checked.
OnePackageFile ==
  \A a \in Apps \ leftover : \A d \in {disk, durable} :
    Cardinality({x \in Exts : d.file[a][x] # None}) <= 1

\* Installing an applet from the repository, which a session request does on
\* BHv1, copies the package to a PENDING file and then removes the original.  As
\* long as no rename fails, every step of the request, those of a failed download
\* included, has the package under its own name, but for the two steps between
\* that removal and the rename, which have the copy to be renamed.
PackageKept ==
  cmd.op \in {"create", "property"} /\ cmd.pkg # None /\ cmd.ok =>
    cmd.pkg = IF cmd.pc \in {"removeOther", "rename"} THEN disk.pending[cmd.app][cmd.ext]
              ELSE Found(disk.file, cmd.app)
===============================================================================
