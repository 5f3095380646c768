------------------------------ MODULE Plugins ------------------------------
(***************************************************************************)
(* The service with the plugin it loads.  GlobalsManager's vmType, read    *)
(* from the firmware, decides once which library JhiPlugin_Register loads  *)
(* and whose VM_Plugin_interface the handlers call: bhplugin1 (VM1) or     *)
(* bhplugin2 (VM2).  The other library is never in the process.            *)
(***************************************************************************)
EXTENDS VM2

CONSTANTS Sars, Cmd, MaxNo, MaxCount, MaxLost

VARIABLES vmType,
  state, rx, taken, seqno, rrmap, rec, lock, thr, asked, known, aborted, lost

V1 == INSTANCE VM1

proxyVars == <<state, rx, taken, seqno, rrmap, rec, lock, thr, asked, known, aborted, lost>>

varsP == <<vmType, vars2, proxyVars>>

(* The VM types JhiPlugin_Register knows a library for; with any other it fails. *)
VMTypes == {"BEIHAI", "BEIHAI_V2"}

InitP == vmType \in VMTypes /\ Init2 /\ V1!Init1

BeihaiV2Plugin == vmType = "BEIHAI_V2" /\ Next2 /\ UNCHANGED <<vmType, proxyVars>>

BeihaiPlugin == vmType = "BEIHAI" /\ V1!Next1 /\ UNCHANGED <<vmType, vars2>>

NextP == BeihaiV2Plugin \/ BeihaiPlugin

SpecP == InitP /\ [][NextP]_varsP

(* In the first VM's proxy no record is destroyed under a user, whatever the order of      *)
(* requests, closes, forced closes and a lost connection: the session of a thread between  *)
(* session_enter and session_exit, the record a thread waits on, and the record            *)
(* bh_recv_message fills without a lock all exist, and a session's count is the number of  *)
(* its users.                                                                              *)
RecordOutlivesUsers == V1!RecordOutlivesUsers
=============================================================================
