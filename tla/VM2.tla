-------------------------------- MODULE VM2 --------------------------------
(***************************************************************************)
(* The plugin of the second Beihai VM (plugins/bhplugin2) and the          *)
(* operations of its proxy (bhp_impl_admin.cpp, bhp_impl_ta.cpp, the       *)
(* connections of bhp_impl.cpp) as the service calls them: one handler     *)
(* after another, since every command but JHI_SendAndRecv runs under the   *)
(* dispatcher's mutex.  What several threads do to one session record is   *)
(* the subject of module BHP; here a call to the proxy is one step.        *)
(*                                                                         *)
(* A call has a set of possible outcomes: the codes the firmware may       *)
(* answer with, or the codes the proxy returns without asking it.          *)
(***************************************************************************)
EXTENDS Integers, FiniteSets, BHErrors

CONSTANTS OemSDs,       \* the security domains of OEMs
          TAs,          \* the trusted applications
          MaxSeq,       \* bound: session numbers drawn in one life of the library
          MaxFaults,    \* bound: failed initialisations, lost connections, dying sessions
          MaxHeld       \* bound: SD handles the clients hold

ASSUME VM2Assumption ==
  /\ {MaxSeq, MaxFaults, MaxHeld} \subseteq Nat
  /\ "intel" \notin OemSDs /\ "no uuid" \notin OemSDs

VARIABLES
  loaded,      \* JhiPlugin_Register succeeded and JHI_Plugin_Init too
  hung,        \* bh_connections_init waits for a receive thread that never ends
  conn,        \* connections[].handle: "up", "closed" by another's thread, or "lost"
  seq,         \* g_seqno, counting the numbers given to sessions
  intel,       \* intel_sd_handle; 0 is NULL
  oem,         \* is_oem_sd_open, oem_sd_id, oem_sd_handle
  sdm, ivm,    \* the session records of connections SDM and IVM
  fwsd, fwta,  \* the firmware's SD sessions and VM sessions: what they are for
  dying,       \* sessions whose death the firmware has reported and the proxy not read
  installed,   \* the domain a TA is installed in, or "none"
  held,        \* the SD handles clients got: handle, domain, is it from this life of the library
  opened,      \* OEM domains opened in this life (ghost)
  svc,         \* the VM session handles in the service's session table, with their TA
  refused,     \* sessions the firmware refused to close (ghost)
  faults,      \* how many faults happened (bounded)
  reply        \* what the last handler returned

sdVars == <<intel, oem, sdm, fwsd, held, opened>>
taVars == <<ivm, fwta, dying, svc, refused>>
lifeVars == <<loaded, hung, conn>>
vars2 == <<lifeVars, seq, sdVars, taVars, installed, faults, reply>>

Conns == {"LAUNCHER", "SDM", "IVM"}

SDs == OemSDs \cup {"intel"}

Ok == {"BH_SUCCESS"}

NoReply == [op |-> "none", s |-> 0, bh |-> "BH_SUCCESS", code |-> "none"]

Answer(op, s, bh, code) == reply' = [op |-> op, s |-> s, bh |-> bh, code |-> code]

With(f, h, v) == [x \in DOMAIN f \cup {h} |-> IF x = h THEN v ELSE f[x]]

Without(f, h) == [x \in DOMAIN f \ {h} |-> f[x]]

NoOem == [open |-> FALSE, id |-> "none", h |-> 0]

-----------------------------------------------------------------------------
(* The outcomes of calls to the proxy. *)

Up(c) == conn[c] = "up"

(* bh_send_message and rr->code: what the firmware answers, if it can be asked. *)
Ask(c, codes) == IF Up(c) THEN codes ELSE {"BPE_COMMS_ERROR"}

(* A second call is made only if the first one succeeded. *)
Then(first, second) ==
  (first \ Ok) \cup (IF "BH_SUCCESS" \in first THEN second ELSE {})

(* The answer's buffer may be missing, or not as long as its count says. *)
Shaped(codes) ==
  codes \cup (IF "BH_SUCCESS" \in codes THEN {"BPE_MESSAGE_ILLEGAL"} ELSE {})

(* Firmware answers besides success: one stands for all that change nothing. *)
Trouble == {"BHE_OUT_OF_MEMORY"}

(* A request on an SD session: refused by the proxy if it has no record of it. *)
AskSD(h, codes) == IF h \in sdm THEN Ask("SDM", codes) ELSE {"BPE_INVALID_PARAMS"}

bh_proxy_get_sd_by_ta(ta) ==
  Ask("SDM", IF installed[ta] # "none" THEN Shaped(Ok \cup Trouble) ELSE {"BHE_SDM_NOT_FOUND"})

BHP_ListTASessions(ta) ==
  Then(bh_proxy_get_sd_by_ta(ta), Ask("IVM", Shaped(Ok \cup Trouble)))

BHP_QueryTAProperty(ta) ==
  Then(bh_proxy_get_sd_by_ta(ta),
       Ask("IVM", Ok \cup Trouble \cup {"BHE_QUERY_PROP_NOT_SUPPORT", "BPE_MESSAGE_TOO_SHORT"}))

BHP_ListInstalledTAs(h) == AskSD(h, Shaped(Ok \cup Trouble))

BHP_ListInstalledSDs(h) == AskSD(h, Shaped(Ok \cup Trouble))

BHP_QueryTEEMetadata == Ask("IVM", Shaped(Ok \cup Trouble))

BHP_ProvisionOemMasterKey(h) == AskSD(h, Ok \cup {"HAL_PLATFORM_AFTER_EOM"})

BHP_SetTAEncryptionKey(h) == AskSD(h, Ok \cup {"HAL_OMK_NOT_PROVISIONED"})

(* What a request on the VM session h may come back with.  A death the firmware  *)
(* has reported reaches the waiting request first; the proxy reports every death *)
(* but the watchdog's as an uncaught exception.                                  *)
AskTA(h, codes) ==
  IF h \notin ivm THEN {"BPE_INVALID_SESSION_HANDLE"}
  ELSE Ask("IVM", IF h \in DOMAIN fwta THEN codes
                  ELSE {"BHE_WD_TIMEOUT", "BHE_UNCAUGHT_EXCEPTION"})

Killed(bh) == bh \in SessionKilled

(* The answers to JHI_SendAndRecv2: the last four codes become JHI_APPLET_FATAL *)
(* though the proxy keeps its record of the session.                            *)
Undead == {"HAL_OUT_OF_MEMORY", "HAL_TIMED_OUT", "BHE_APPLET_GENERIC", "BHE_BAD_STATE"}

SarAnswers == Ok \cup {"BHE_WD_TIMEOUT", "BHE_UNCAUGHT_EXCEPTION", "BHE_APPLET_SMALL_BUFFER",
                       "BPE_MESSAGE_TOO_SHORT"} \cup Undead

(* BHP_OpenTASession: the package is downloaded unless the VM lists it (a failed listing   *)
(* counts as absent), and once more if the VM answers that it has not got it.  Which       *)
(* packages the VM keeps is its own choice.                                                *)
bh_proxy_listJTAPackages == Ask("IVM", Shaped(Ok \cup Trouble))

download_javata == Ask("IVM", Ok \cup Trouble \cup {"BHE_PACKAGE_EXIST"})

openjtasession ==
  LET once == Ask("IVM", Ok \cup Trouble \cup {"BHE_SESSION_NUM_EXCEED", "BHE_PACKAGE_NOT_FOUND"})
  IN  (once \ {"BHE_PACKAGE_NOT_FOUND"}) \cup
      (IF "BHE_PACKAGE_NOT_FOUND" \in once THEN Then(download_javata, once) ELSE {})

BHP_OpenTASession(ta) ==
  LET listed == bh_proxy_listJTAPackages \cap Ok
      fetched == {IF c = "BHE_PACKAGE_EXIST" THEN "BH_SUCCESS" ELSE c : c \in download_javata}
  IN  Then(bh_proxy_get_sd_by_ta(ta),
           Then(Ask("SDM", Ok \cup {"BHE_SDM_SVL_CHECK_FAIL"}),
                Then(listed \cup fetched, openjtasession)))

-----------------------------------------------------------------------------
(* The life of the library and of its connections. *)

Init2 ==
  /\ loaded = FALSE /\ hung = FALSE
  /\ conn = [c \in Conns |-> "lost"]
  /\ seq = 0 /\ intel = 0 /\ oem = NoOem
  /\ sdm = {} /\ ivm = {} /\ fwsd = << >> /\ fwta = << >> /\ dying = {}
  /\ installed = [ta \in TAs |-> "none"]
  /\ held = {} /\ opened = {} /\ svc = << >> /\ refused = {}
  /\ faults = 0 /\ reply = NoReply

Running == loaded /\ ~hung

(* BHP_OpenSDSession and BHP_CloseSDSession with the result bh; a close drops the proxy's *)
(* record whatever the firmware answered.                                                 *)
BHP_OpenSDSession(sd, bh) ==
  IF bh = "BH_SUCCESS"
  THEN seq' = seq + 1 /\ sdm' = sdm \cup {seq'} /\ fwsd' = With(fwsd, seq', sd)
  ELSE UNCHANGED <<seq, sdm, fwsd>>

BHP_CloseSDSession(h, bh) ==
  /\ sdm' = sdm \ {h}
  /\ fwsd' = IF bh = "BH_SUCCESS" THEN Without(fwsd, h) ELSE fwsd

(* That the Intel SD could not be opened is not noticed: the handle then stays NULL. *)
openIntelSD ==
  \E bh \in Ok \cup Trouble :
    BHP_OpenSDSession("intel", bh) /\ intel' = IF bh = "BH_SUCCESS" THEN seq' ELSE intel

(* The three connections are made and the VM is reset. *)
BHP_Init == conn' = [c \in Conns |-> "up"]

(* jhis_init up to its plugin: the library is loaded (its static data are new). *)
PluginInit ==
  /\ ~loaded /\ ~hung
  /\ loaded' = TRUE
  /\ BHP_Init /\ openIntelSD
  /\ Answer("init", 0, "BH_SUCCESS", beihaiToJhiError("BH_SUCCESS", "JHI_NO_CONNECTION_TO_FIRMWARE"))
  /\ UNCHANGED <<hung, oem, held, opened, taVars, installed, faults>>

(* It fails: the library cannot be loaded, there is no transport, a connection fails, *)
(* or the VM does not answer; DeInit and Unregister follow.  When a later connection  *)
(* fails, the receive threads of the earlier ones are joined without being cancelled: *)
(* on Linux, where closing the connection does not end their read, for ever.          *)
PluginInitFails ==
  /\ ~loaded /\ ~hung /\ faults < MaxFaults
  /\ faults' = faults + 1
  /\ \E stage \in {"load", "transport", "first_connect", "later_connect", "vm"} :
       /\ hung' \in {FALSE, stage = "later_connect"}
       /\ Answer("init", 0, "BPE_CONNECT_FAILED",
                 IF stage \in {"load", "transport"} THEN "JHI_INTERNAL_ERROR"
                 ELSE beihaiToJhiError("BPE_CONNECT_FAILED", "JHI_NO_CONNECTION_TO_FIRMWARE"))
  /\ UNCHANGED <<loaded, conn, seq, sdVars, taVars, installed>>

(* BHP_Deinit: the VM is reset, the receive threads are cancelled and joined, the maps cleared. *)
BHP_Deinit ==
  /\ conn' = [c \in Conns |-> "lost"]
  /\ sdm' = {} /\ ivm' = {} /\ fwsd' = << >> /\ fwta' = << >> /\ dying' = {}

closeIntelSD == intel' = 0

(* JhiReset: JHI_Plugin_DeInit closes both SD sessions first, whatever comes of it; the *)
(* service forgets its sessions; the library is unloaded.                               *)
PluginDeInit ==
  /\ Running
  /\ loaded' = FALSE
  /\ closeIntelSD /\ oem' = NoOem /\ BHP_Deinit
  /\ seq' = 0 /\ opened' = {} /\ svc' = << >> /\ refused' = {}
  /\ held' = {[x EXCEPT !.now = FALSE] : x \in held}
  /\ reply' = NoReply
  /\ UNCHANGED <<hung, installed, faults>>

(* bh_recv_thread_func ends when a read fails.  The thread of the first connection closes *)
(* the others' handles, the thread of another one closes the first's.  Then              *)
(* unblock_threads drops the connection's records.  The firmware ends the sessions of a   *)
(* closed connection.                                                                     *)
bh_recv_thread_func(c) ==
  /\ Running /\ conn[c] # "lost"
  /\ conn[c] = "up" => faults < MaxFaults
  /\ faults' = IF conn[c] = "up" THEN faults + 1 ELSE faults
  /\ LET closes == IF c = "LAUNCHER" THEN Conns \ {c} ELSE {"LAUNCHER"}
     IN  conn' = [d \in Conns |-> IF d = c THEN "lost"
                                  ELSE IF d \in closes /\ Up(d) THEN "closed" ELSE conn[d]]
  /\ sdm' = IF c = "SDM" THEN {} ELSE sdm
  /\ ivm' = IF c = "IVM" THEN {} ELSE ivm
  /\ fwsd' = IF conn'["SDM"] = "up" THEN fwsd ELSE << >>
  /\ fwta' = IF conn'["IVM"] = "up" THEN fwta ELSE << >>
  /\ dying' = IF conn'["IVM"] = "up" THEN dying ELSE {}
  /\ reply' = NoReply
  /\ UNCHANGED <<loaded, hung, seq, intel, oem, held, opened, svc,
                 refused, installed>>

(* A session ends in the VM by itself; its notice is on the way to the proxy ... *)
SessionDies(h) ==
  /\ Running /\ h \in DOMAIN fwta /\ faults < MaxFaults
  /\ fwta' = Without(fwta, h)
  /\ dying' = dying \cup ({h} \cap ivm)
  /\ faults' = faults + 1 /\ reply' = NoReply
  /\ UNCHANGED <<lifeVars, seq, sdVars, ivm, svc, refused, installed>>

(* ... and is read when no request waits: bh_recv_message kills the record. *)
NoticeRead(h) ==
  /\ Running /\ h \in dying
  /\ dying' = dying \ {h} /\ ivm' = ivm \ {h}
  /\ reply' = NoReply
  /\ UNCHANGED <<lifeVars, seq, sdVars, fwta, svc, refused, installed, faults>>

-----------------------------------------------------------------------------
(* Security domains. *)

Hold(h, sd) == held' = held \cup {[h |-> h, sd |-> sd, now |-> TRUE]}

(* JHI_Plugin_OpenSDSession: the Intel SD and the OEM SD opened last are shared; any other *)
(* domain gets a session of its own and takes the place of the OEM SD.  An id that is no  *)
(* UUID is refused.                                                                       *)
OpenSDSession(sd) ==
  /\ Running /\ Cardinality(held) < MaxHeld
  /\ UNCHANGED <<lifeVars, intel, taVars, installed, faults>>
  /\ \/ /\ sd = "intel" \/ (oem.open /\ oem.id = sd)
        /\ Hold(IF sd = "intel" THEN intel ELSE oem.h, sd)
        /\ Answer("opensd", 0, "BH_SUCCESS", beihaiToTeeError("BH_SUCCESS", "TEE_STATUS_INTERNAL_ERROR"))
        /\ UNCHANGED <<seq, oem, sdm, fwsd, opened>>
     \/ /\ sd = "no uuid"
        /\ Answer("opensd", 0, "BPE_INVALID_PARAMS",
                  beihaiToTeeError("BPE_INVALID_PARAMS", "TEE_STATUS_INTERNAL_ERROR"))
        /\ UNCHANGED <<seq, oem, held, sdm, fwsd, opened>>
     \/ /\ sd \in OemSDs /\ ~(oem.open /\ oem.id = sd) /\ seq < MaxSeq
        /\ \E bh \in Ask("SDM", Ok \cup {"BHE_SDM_SD_NOT_FOUND"}) :
             /\ Answer("opensd", 0, bh, beihaiToTeeError(bh, "TEE_STATUS_INTERNAL_ERROR"))
             /\ BHP_OpenSDSession(sd, bh)
             /\ IF bh = "BH_SUCCESS"
                THEN /\ oem' = [open |-> TRUE, id |-> sd, h |-> seq']
                     /\ opened' = opened \cup {sd}
                     /\ Hold(seq', sd)
                ELSE UNCHANGED <<oem, held, opened>>

(* The two sessions JHI_Plugin_CloseSDSession leaves open. *)
SharedSD_NoSlot(h) == h = intel

SharedSD(h) == h = intel \/ (oem.open /\ h = oem.h)

(* JHI_Plugin_CloseSDSession by the client that holds x, which then forgets its handle. *)
CloseSDSession(x) ==
  /\ Running /\ x \in held
  /\ held' = held \ {x}
  /\ \/ /\ SharedSD(x.h) /\ UNCHANGED <<sdm, fwsd>>
        /\ Answer("closesd", 0, "BH_SUCCESS", beihaiToTeeError("BH_SUCCESS", "TEE_STATUS_INTERNAL_ERROR"))
     \/ /\ ~SharedSD(x.h)
        /\ \E bh \in AskSD(x.h, Ok \cup Trouble) :
             /\ BHP_CloseSDSession(x.h, bh)
             /\ Answer("closesd", 0, bh, beihaiToTeeError(bh, "TEE_STATUS_INTERNAL_ERROR"))
  /\ UNCHANGED <<lifeVars, seq, intel, oem, opened, taVars, installed, faults>>

Unmoved == UNCHANGED <<lifeVars, seq, sdVars, taVars, installed, faults>>

(* JHI_Plugin_ListInstalledTAs: only for the two shared sessions. *)
ListInstalledTAs(x) ==
  /\ Running /\ x \in held
  /\ \E bh \in IF x.h = 0 THEN {"BPE_INVALID_PARAMS"}
               ELSE IF SharedSD(x.h) THEN BHP_ListInstalledTAs(x.h) ELSE {"BHE_SDM_NOT_FOUND"} :
       Answer("listtas", 0, bh, beihaiToTeeError(bh, "TEE_STATUS_INTERNAL_ERROR"))
  /\ Unmoved

(* JHI_Plugin_ListInstalledSDs: only for the Intel SD.  The proxy's codes, and an empty *)
(* list, are returned as they are; TEE_STATUS_UNSUPPORTED_PLATFORM is no proxy code and *)
(* is translated to the default.                                                        *)
ListInstalledSDs(x) ==
  /\ Running /\ x \in held
  /\ \E bh \in IF x.h = intel THEN BHP_ListInstalledSDs(x.h) \cup {"BPE_INTERNAL_ERROR"}
               ELSE {"TEE_STATUS_UNSUPPORTED_PLATFORM"} :
       Answer("listsds", 0, bh,
              IF x.h = intel /\ bh # "BH_SUCCESS" THEN bh
              ELSE beihaiToTeeError(bh, "TEE_STATUS_INTERNAL_ERROR"))
  /\ Unmoved

QueryTeeMetadata ==
  /\ Running
  /\ \E bh \in BHP_QueryTEEMetadata :
       Answer("metadata", 0, bh, beihaiToTeeError(bh, "TEE_STATUS_INTERNAL_ERROR"))
  /\ Unmoved

ProvisionOemMasterKey ==
  /\ Running
  /\ \E bh \in BHP_ProvisionOemMasterKey(intel) :
       Answer("omk", 0, bh, beihaiToTeeError(bh, "JHI_INTERNAL_ERROR"))
  /\ Unmoved

SetTAEncryptionKey ==
  /\ Running
  /\ \E bh \in BHP_SetTAEncryptionKey(intel) :
       Answer("dek", 0, bh, beihaiToTeeError(bh, "JHI_INTERNAL_ERROR"))
  /\ Unmoved

-----------------------------------------------------------------------------
(* Administration commands. *)

LiveSessions(ta) == {h \in DOMAIN fwta : fwta[h] = ta}

SDName(h) == IF h \in DOMAIN fwsd THEN fwsd[h] ELSE "none"

(* What a command may come back with, and the domain the TA is then installed in. *)
Left(codes, sd) == {[bh |-> bh, sd |-> sd] : bh \in codes}

(* bh_do_install_jta: installed by the SDM, then verified by the VM.  A failed *)
(* verification is reported, and the SDM keeps what it installed.              *)
bh_do_install_jta(h, ta) ==
  LET mine == installed[ta] \in {"none", SDName(h)}
  IN  Left(AskSD(h, {IF mine THEN "BHE_SDM_SVN_CHECK_FAIL" ELSE "BHE_SDM_ALREADY_EXIST"}),
           installed[ta])
      \cup (IF mine /\ AskSD(h, Ok) = Ok
            THEN Left(Ask("IVM", Ok \cup {"BHE_TA_PACKAGE_HASH_VERIFY_FAIL"}), fwsd[h]) ELSE {})

(* bh_do_uninstall_jta: refused while the VM lists sessions of the TA; when the listing *)
(* fails, the command is sent all the same.                                             *)
bh_do_uninstall_jta(h, ta) ==
  LET listed == BHP_ListTASessions(ta)
      sent == AskSD(h, IF installed[ta] = SDName(h) THEN Ok ELSE {"BHE_SDM_NOT_FOUND"})
  IN  Left(IF "BH_SUCCESS" \in listed /\ LiveSessions(ta) # {}
           THEN {"BHE_EXIST_LIVE_SESSION"} ELSE {}, installed[ta])
      \cup (IF LiveSessions(ta) = {} \/ listed # Ok
            THEN Left(sent, IF sent = Ok THEN "none" ELSE installed[ta]) ELSE {})

bh_do_install_sd(h) == AskSD(h, Ok \cup {"BHE_SDM_SD_INSTALL_UNALLOWED"})

(* A package that does not name its domain is not sent. *)
bh_do_uninstall_sd(h) == AskSD(h, Ok \cup {"BHE_SDM_SD_NOT_FOUND"}) \cup {"BPE_INVALID_BPK_FILE"}

bh_do_update_svl(h) == AskSD(h, Ok \cup {"BHE_SDM_SVL_UPDATE_UNALLOWED"})

(* By the command the package holds. *)
BHP_SendAdminCmdPkg(h, kind, ta) ==
  CASE kind = "AC_INSTALL_JTA" -> bh_do_install_jta(h, ta)
    [] kind = "AC_UNINSTALL_JTA" -> bh_do_uninstall_jta(h, ta)
    [] kind = "AC_INSTALL_SD" -> Left(bh_do_install_sd(h), installed[ta])
    [] kind = "AC_UNINSTALL_SD" -> Left(bh_do_uninstall_sd(h), installed[ta])
    [] kind = "AC_UPDATE_SVL" -> Left(bh_do_update_svl(h), installed[ta])
    [] kind = "AC_CMD_INVALID" -> Left({"BPE_INVALID_BPK_FILE"}, installed[ta])

Kinds == {"AC_INSTALL_JTA", "AC_UNINSTALL_JTA", "AC_INSTALL_SD", "AC_UNINSTALL_SD",
          "AC_UPDATE_SVL", "AC_CMD_INVALID"}

SendCmdPkg(x, kind, ta) ==
  /\ Running /\ x \in held
  /\ \E r \in BHP_SendAdminCmdPkg(x.h, kind, ta) :
       /\ installed' = [installed EXCEPT ![ta] = r.sd]
       /\ Answer("cmdpkg", 0, r.bh, beihaiToTeeError(r.bh, "TEE_STATUS_INTERNAL_ERROR"))
  /\ UNCHANGED <<lifeVars, seq, sdVars, taVars, faults>>

(* getTA_SessionCount: 0 when the TA is not found in the Intel SD or a listing fails. *)
SessionCounts(ta) ==
  {IF installed[ta] = "intel" /\ l = "BH_SUCCESS" /\ m = "BH_SUCCESS"
   THEN Cardinality(LiveSessions(ta)) ELSE 0 :
     l \in BHP_ListInstalledTAs(intel), m \in BHP_ListTASessions(ta)}

DownloadApplet(ta) ==
  /\ Running
  /\ \E n \in SessionCounts(ta) :
       \/ /\ n > 0
          /\ Answer("download", 0, "BH_SUCCESS", "JHI_INSTALL_FAILURE_SESSIONS_EXISTS")
          /\ UNCHANGED installed
       \/ /\ n = 0
          /\ \E kind \in {"AC_INSTALL_JTA", "AC_CMD_INVALID"} :
               \E r \in BHP_SendAdminCmdPkg(intel, kind, ta) :
                 /\ installed' = [installed EXCEPT ![ta] = r.sd]
                 /\ Answer("download", 0, r.bh, beihaiToJhiError(r.bh, "JHI_INTERNAL_ERROR"))
  /\ UNCHANGED <<lifeVars, seq, sdVars, taVars, faults>>

UnloadApplet(ta) ==
  /\ Running
  /\ \E r \in BHP_SendAdminCmdPkg(intel, "AC_UNINSTALL_JTA", ta) :
       /\ installed' = [installed EXCEPT ![ta] = r.sd]
       /\ Answer("unload", 0, r.bh, beihaiToJhiError(r.bh, "JHI_INTERNAL_ERROR"))
  /\ UNCHANGED <<lifeVars, seq, sdVars, taVars, faults>>

-----------------------------------------------------------------------------
(* Sessions of applets. *)

Dropped == {"JHI_APPLET_FATAL", "JHI_APPLET_TIMEOUT", "JHI_INVALID_SESSION_HANDLE"}

(* BHP_SendAndRecvInternal on a session just opened, and sendSessionIDtoApplet: the applet *)
(* takes its id, refuses it, or dies of it.                                               *)
BHP_SendAndRecvInternal == Ok \cup {"BHE_UNCAUGHT_EXCEPTION"}

sendSessionIDtoApplet ==
  {[bh |-> bh, response |-> n] : bh \in BHP_SendAndRecvInternal \cap Ok, n \in {0, 1}}
    \cup {[bh |-> bh, response |-> -1] : bh \in BHP_SendAndRecvInternal \ Ok}

(* What JHI_Plugin_CreateSession leaves behind: nothing; a session; or a session that did *)
(* not take its id, which stays open in the VM.                                           *)
CreateFails(ta, bh) ==
  /\ bh \in BHP_OpenTASession(ta) \ Ok
  /\ UNCHANGED <<seq, ivm, fwta>>

CreateOpens(ta, id) ==
  /\ seq < MaxSeq /\ "BH_SUCCESS" \in BHP_OpenTASession(ta)
  /\ seq' = seq + 1
  /\ IF id.bh \in SessionKilled THEN UNCHANGED <<ivm, fwta>>
     ELSE ivm' = ivm \cup {seq'} /\ fwta' = With(fwta, seq', ta)

CreateSession(ta) ==
  /\ Running
  /\ UNCHANGED <<lifeVars, sdVars, dying, refused, installed, faults>>
  /\ \/ \E bh \in BHP_OpenTASession(ta) :
          /\ CreateFails(ta, bh) /\ UNCHANGED svc
          /\ Answer("create", 0, bh, beihaiToJhiError(bh, "JHI_INTERNAL_ERROR"))
     \/ \E id \in sendSessionIDtoApplet :
          /\ CreateOpens(ta, id)
          /\ IF id.response = 0
             THEN svc' = With(svc, seq', ta) /\ Answer("create", seq', "BH_SUCCESS", "JHI_SUCCESS")
             ELSE UNCHANGED svc /\ Answer("create", 0, id.bh, "JHI_INTERNAL_ERROR")

(* BHP_SendAndRecv that came back with bh. *)
BHP_SendAndRecv(h, bh) ==
  /\ fwta' = IF Killed(bh) THEN Without(fwta, h) ELSE fwta
  /\ dying' = dying \ {h}
  /\ ivm' = IF Killed(bh) THEN ivm \ {h} ELSE ivm

(* JHI_Plugin_SendAndRecv, and jhis_txrx_raw: for a dead session the service drops its record. *)
SendAndRecv(h) ==
  /\ Running /\ h \in DOMAIN svc
  /\ \E bh \in AskTA(h, SarAnswers) :
       LET code == beihaiToJhiError(bh, "JHI_INTERNAL_ERROR")
       IN  /\ BHP_SendAndRecv(h, bh)
           /\ svc' = IF code \in Dropped THEN Without(svc, h) ELSE svc
           /\ Answer("sar", h, bh, code)
  /\ UNCHANGED <<lifeVars, seq, sdVars, refused, installed, faults>>

(* BHP_CloseTASession on session h: the proxy keeps its record only while the applet has *)
(* internal sessions.                                                                     *)
CloseAnswers == Ok \cup Trouble \cup {"BHE_IAC_EXIST_INTERNAL_SESSION", "BHE_WD_TIMEOUT"}

BHP_CloseTASession(h, bh) ==
  /\ fwta' = IF bh = "BH_SUCCESS" \/ Killed(bh) THEN Without(fwta, h) ELSE fwta
  /\ dying' = dying \ {h}
  /\ ivm' = IF bh = "BHE_IAC_EXIST_INTERNAL_SESSION" THEN ivm ELSE ivm \ {h}

(* The end of jhis_close_session. *)
Closed(op, h, bh) ==
  LET code == beihaiToJhiError(bh, "JHI_INTERNAL_ERROR")
  IN  /\ svc' = IF code \in Dropped \cup {"JHI_SUCCESS"} THEN Without(svc, h) ELSE svc
      /\ refused' = IF bh \in Trouble THEN refused \cup {h} ELSE refused
      /\ Answer(op, h, bh, code)

CloseSession(h) ==
  /\ Running /\ h \in DOMAIN svc
  /\ \E bh \in AskTA(h, CloseAnswers) : BHP_CloseTASession(h, bh) /\ Closed("close", h, bh)
  /\ UNCHANGED <<lifeVars, seq, sdVars, installed, faults>>

(* BHP_ForceCloseTASession: asked with a record of its own, so a pending notice is not *)
(* its answer; the session's record goes whatever the answer.                          *)
BHP_ForceCloseTASession(h, bh) ==
  /\ fwta' = IF bh = "BH_SUCCESS" THEN Without(fwta, h) ELSE fwta
  /\ dying' = dying \ {h} /\ ivm' = ivm \ {h}

ForceCloseSession(h) ==
  /\ Running /\ h \in DOMAIN svc
  /\ \E bh \in IF h \in ivm THEN Ask("IVM", Ok \cup Trouble) ELSE {"BPE_INVALID_SESSION_HANDLE"} :
       BHP_ForceCloseTASession(h, bh) /\ Closed("force", h, bh)
  /\ UNCHANGED <<lifeVars, seq, sdVars, installed, faults>>

(* jhis_get_applet_property on this VM: an applet without a session gets one for the query, *)
(* and how closing it ended is ignored: a refused close leaves both records and session.    *)
GetAppletProperty(ta) ==
  /\ Running
  /\ UNCHANGED <<lifeVars, sdVars, dying, installed, faults>>
  /\ LET query == {<<bh, beihaiToJhiError(bh, "JHI_INTERNAL_ERROR")>> : bh \in BHP_QueryTAProperty(ta)}
                    \cup {<<"BH_SUCCESS", "JHI_INSUFFICIENT_BUFFER">>}
     IN  \/ /\ \E h \in DOMAIN svc : svc[h] = ta
            /\ \E q \in query : Answer("property", 0, q[1], q[2])
            /\ UNCHANGED <<seq, ivm, fwta, svc, refused>>
         \/ /\ \A h \in DOMAIN svc : svc[h] # ta
            /\ \/ \E bh \in BHP_OpenTASession(ta) :
                    /\ CreateFails(ta, bh) /\ UNCHANGED <<svc, refused>>
                    /\ Answer("property", 0, bh, "JHI_APPLET_NOT_INSTALLED")
               \/ \E id \in sendSessionIDtoApplet :                          \* its id was refused
                    /\ id.response # 0
                    /\ CreateOpens(ta, id) /\ UNCHANGED <<svc, refused>>
                    /\ Answer("property", 0, id.bh, "JHI_APPLET_NOT_INSTALLED")
               \/ /\ seq < MaxSeq /\ "BH_SUCCESS" \in BHP_OpenTASession(ta) /\ seq' = seq + 1
                  /\ \E q \in query : Answer("property", 0, q[1], q[2])
                  /\ \/ UNCHANGED <<ivm, fwta, svc, refused>>              \* closed again
                     \/ /\ UNCHANGED ivm                                  \* the close was refused
                        /\ fwta' = With(fwta, seq', ta) /\ svc' = With(svc, seq', ta)
                        /\ refused' = refused \cup {seq'}

-----------------------------------------------------------------------------
Next2 ==
  \/ PluginInit \/ PluginInitFails \/ PluginDeInit
  \/ \E c \in Conns : bh_recv_thread_func(c)
  \/ \E h \in 1..MaxSeq : SessionDies(h)
  \/ \E h \in dying : NoticeRead(h)
  \/ \E sd \in SDs \cup {"no uuid"} : OpenSDSession(sd)
  \/ \E x \in held : CloseSDSession(x)
  \/ \E x \in held : ListInstalledTAs(x)
  \/ \E x \in held : ListInstalledSDs(x)
  \/ QueryTeeMetadata \/ ProvisionOemMasterKey \/ SetTAEncryptionKey
  \/ \E x \in held, kind \in Kinds, ta \in TAs : SendCmdPkg(x, kind, ta)
  \/ \E ta \in TAs : DownloadApplet(ta)
  \/ \E ta \in TAs : UnloadApplet(ta)
  \/ \E ta \in TAs : CreateSession(ta)
  \/ \E h \in DOMAIN svc : SendAndRecv(h)
  \/ \E h \in DOMAIN svc : CloseSession(h)
  \/ \E h \in DOMAIN svc : ForceCloseSession(h)
  \/ \E ta \in TAs : GetAppletProperty(ta)

Spec2 == Init2 /\ [][Next2]_vars2

-----------------------------------------------------------------------------
(* No sequence of opens, closes and resets by any clients closes an SD session that is    *)
(* still shared: while the SDM is connected, the Intel handle and the OEM handle that     *)
(* JHI_Plugin_OpenSDSession gives out are open in the firmware for their domain.  As long *)
(* as this life of the library saw one OEM domain only, that holds of every handle a      *)
(* client got in it, and the firmware has no SD session beside these two.                 *)
SDSessionsKept ==
  loaded /\ Up("SDM") =>
    LET shared == ({intel} \ {0}) \cup (IF oem.open THEN {oem.h} ELSE {})
    IN  /\ shared \subseteq sdm \cap DOMAIN fwsd
        /\ intel # 0 => fwsd[intel] = "intel"
        /\ oem.open => fwsd[oem.h] = oem.id
        /\ (\A a, b \in opened : a = b) =>
             /\ DOMAIN fwsd = shared
             /\ \A x \in held : x.now /\ x.h # 0 => x.h \in shared /\ fwsd[x.h] = x.sd

(* jhis_txrx_raw drops its session record exactly when the VM session is gone: a session   *)
(* that died in the VM, noticed or not, is answered with a code for which the record goes  *)
(* (or the connection is reported lost); and if the record goes while the session lives in *)
(* the VM, the firmware had answered with one of the four codes that the plugin alone      *)
(* calls fatal, or had refused to close the session before.                                *)
SarVerdict ==
  [][reply'.op = "sar" =>
       /\ reply'.s \notin DOMAIN fwta' =>
            reply'.code \in Dropped \cup {"JHI_NO_CONNECTION_TO_FIRMWARE"}
       /\ reply'.code \in Dropped /\ reply'.s \in DOMAIN fwta' =>
            reply'.bh \in Undead \/ reply'.s \in refused']_vars2
=============================================================================
