-------------------------------- MODULE VM1 --------------------------------
(***************************************************************************)
(* The plugin of the first Beihai VM (plugins/bhplugin1) and its proxy,    *)
(* BeihaiPlugin.cpp: one connection, one receive thread, one map rrmap     *)
(* from numbers to response records.  The threads that call it are the     *)
(* dispatcher's one command (under its mutex) and any number of            *)
(* JHI_SendAndRecv2, the spooler's listener among them; they may name the  *)
(* same session.  A critical section of bhm_rrmap is one step.  A record is named by its number;     *)
(* the record of a request without a session lives on its caller's stack.  *)
(***************************************************************************)
EXTENDS Integers, FiniteSets, BHErrors

CONSTANTS Sars,      \* the threads in JHI_SendAndRecv2
          Cmd,       \* the thread that holds the dispatcher's mutex
          MaxNo,     \* bound: numbers drawn from seqno in one life of the library
          MaxCount,  \* MAX_SESSION_LIMIT
          MaxLost    \* bound: failed initialisations and lost connections

VARIABLES
  state,     \* init_state
  rx,        \* recv_thread: "none", "runs", "failing", "ended"; "stray": it outlived its library
  taken,     \* the record the receive thread is filling; 0: none
  seqno, rrmap,
  rec,       \* the records: live, is_session, count, killed, event, code (once the event is set)
  lock,      \* session_lock: the owner
  thr,       \* the threads: pc, operation, session, number of the request
  asked,     \* requests the firmware has and has not answered
  known,     \* session handles the service has
  aborted,   \* the process is gone: abort(), or an event that never was one was signalled
  lost

rxVars == <<state, rx, taken>>
vars1 == <<rxVars, seqno, rrmap, rec, lock, thr, asked, known, aborted, lost>>

Threads == Sars \cup {Cmd}

Idle == [pc |-> "idle", op |-> "none", s |-> 0, q |-> 0]

NoRecord == [live |-> FALSE, session |-> FALSE, count |-> 0, killed |-> FALSE,
             event |-> "null", code |-> "BH_SUCCESS"]

Init1 ==
  /\ state = "DEINITED" /\ rx = "none" /\ taken = 0
  /\ seqno = 0 /\ rrmap = {} /\ rec = [n \in 1..MaxNo |-> NoRecord]
  /\ lock = [n \in 1..MaxNo |-> "free"]
  /\ thr = [t \in Threads |-> Idle]
  /\ asked = {} /\ known = {} /\ aborted = FALSE /\ lost = 0

Go(t, pc) == thr' = [thr EXCEPT ![t].pc = pc]

Return(t) == thr' = [thr EXCEPT ![t] = Idle]

-----------------------------------------------------------------------------
(* BH_PluginInit and BH_PluginDeinit run with no command in the plugin (the     *)
(* dispatcher's write lock).                                                    *)

Quiet == \A t \in Threads : thr[t].pc = "idle"

PluginInit1 ==
  /\ ~aborted /\ Quiet /\ state = "DEINITED"
  /\ state' = "INITED" /\ rx' = "runs" /\ taken' = 0
  /\ UNCHANGED <<seqno, rrmap, rec, lock, thr, asked, known, aborted, lost>>

(* The VM does not confirm its reset: teardown, and the library is unloaded with *)
(* its receive thread neither cancelled nor joined.                              *)
PluginInitFails1 ==
  /\ ~aborted /\ Quiet /\ state = "DEINITED" /\ lost < MaxLost
  /\ lost' = lost + 1 /\ rx' = "stray"
  /\ UNCHANGED <<state, taken, seqno, rrmap, rec, lock, thr, asked, known, aborted>>

(* unblock_threads: every session is killed, every waiting thread woken, sessions nobody *)
(* uses are destroyed, and the map is emptied.                                           *)
Unblocked(n, code) ==
  [rec[n] EXCEPT !.code = code, !.killed = rec[n].session,
                 !.event = IF rec[n].event = "wait" THEN "set" ELSE rec[n].event,
                 !.live = ~(rec[n].session /\ rec[n].count = 0)]

unblock_threads(code) ==
  /\ rec' = [n \in 1..MaxNo |-> IF n \in rrmap THEN Unblocked(n, code) ELSE rec[n]]
  /\ rrmap' = {}

PluginDeinit1 ==
  /\ ~aborted /\ Quiet /\ state # "DEINITED"
  /\ state' = "DEINITED" /\ rx' = "none" /\ taken' = 0
  /\ seqno' = 0 /\ rrmap' = {} /\ rec' = [n \in 1..MaxNo |-> NoRecord]
  /\ asked' = {} /\ known' = {}
  /\ UNCHANGED <<lock, thr, aborted, lost>>

-----------------------------------------------------------------------------
(* Sessions and records. *)

(* session_enter_nolock: the caller becomes a user of the session. *)
MayEnter(s) == s \in rrmap /\ rec[s].session /\ ~rec[s].killed /\ rec[s].count < MaxCount

Destroy(n) == [rec EXCEPT ![n] = NoRecord]

session_exit_Early(s, r) ==
  LET left == [r EXCEPT !.count = @ - 1]
  IN  IF left.killed
      THEN rec' = Destroy(s) /\ rrmap' = rrmap \ {s}
      ELSE rec' = [rec EXCEPT ![s] = left] /\ UNCHANGED rrmap

session_exit(s, r) ==
  LET left == [r EXCEPT !.count = @ - 1]
  IN  IF left.count = 0 /\ left.killed
      THEN rec' = Destroy(s) /\ rrmap' = rrmap \ {s}
      ELSE rec' = [rec EXCEPT ![s] = left] /\ UNCHANGED rrmap

session_close(s, r) ==
  IF r.count = 1
  THEN rec' = Destroy(s) /\ rrmap' = rrmap \ {s}
  ELSE rec' = [rec EXCEPT ![s] = [r EXCEPT !.count = @ - 1, !.killed = TRUE]] /\ UNCHANGED rrmap

Unlock(s, t) == lock' = IF lock[s] = t THEN [lock EXCEPT ![s] = "free"] ELSE lock

(* rrmap_add of a new record; `event' of a session's record is not initialised. *)
rrmap_add(t, isSession) ==
  /\ seqno < MaxNo /\ seqno' = seqno + 1
  /\ rrmap' = rrmap \cup {seqno'}
  /\ rec' = [rec EXCEPT ![seqno'] = [NoRecord EXCEPT !.live = TRUE, !.session = isSession,
                                       !.count = IF isSession THEN 1 ELSE 0,
                                       !.event = IF isSession THEN "garbage" ELSE "null"]]
  /\ thr' = [thr EXCEPT ![t].pc = "ready", ![t].q = seqno',
                        ![t].s = IF isSession THEN seqno' ELSE @]

-----------------------------------------------------------------------------
(* A call.  Operations: "sar" and "id" (BH_PluginSendAndRecv, ...Internal), "create",     *)
(* "close", "force", and "plain" for the requests without a session (Download, Unload,    *)
(* QueryAPI).                                                                             *)

OnSession == {"sar", "id", "close", "force"}

(* is_init(): else BPE_NOT_INIT. *)
Call(t) ==
  /\ ~aborted /\ thr[t].pc = "idle" /\ state = "INITED"
  /\ \E op \in IF t = Cmd THEN {"create", "close", "force", "plain"} ELSE {"sar"} :
       \E s \in IF op \in OnSession THEN known ELSE {0} :
         thr' = [thr EXCEPT ![t] = [Idle EXCEPT !.pc = "called", !.op = op, !.s = s]]
  /\ UNCHANGED <<rxVars, seqno, rrmap, rec, lock, asked, known, aborted, lost>>

(* A session is entered, or refused with BPE_INVALID_SESSION_HANDLE; for that code a *)
(* request, and a close, drop the service's record.                                  *)
Enter(t) ==
  /\ ~aborted /\ thr[t].pc = "called" /\ thr[t].op \in OnSession
  /\ LET s == thr[t].s
     IN  IF MayEnter(s)
         THEN /\ rec' = [rec EXCEPT ![s].count = @ + 1]
              /\ Go(t, IF thr[t].op = "force" THEN "entered" ELSE "locking")
              /\ UNCHANGED known
         ELSE /\ Return(t) /\ known' = known \ {s} /\ UNCHANGED rec
  /\ UNCHANGED <<rxVars, seqno, rrmap, lock, asked, aborted, lost>>

(* session_enter takes the session's lock and looks at `killed' again. *)
LockSession(t) ==
  /\ ~aborted /\ thr[t].pc = "locking"
  /\ LET s == thr[t].s
     IN  /\ lock[s] = "free"
         /\ IF rec[s].killed
            THEN /\ session_exit(s, rec[s]) /\ Return(t) /\ known' = known \ {s} /\ UNCHANGED lock
            ELSE /\ thr' = [thr EXCEPT ![t].pc = "ready", ![t].q = s]
                 /\ lock' = [lock EXCEPT ![s] = t]
                 /\ UNCHANGED <<rec, rrmap, known>>
  /\ UNCHANGED <<rxVars, seqno, asked, aborted, lost>>

(* A record of its own for a new session, a plain request, or a forced close. *)
AddRecord(t) ==
  /\ ~aborted
  /\ \/ thr[t].pc = "called" /\ thr[t].op \in {"create", "plain"}
     \/ thr[t].pc = "entered"
  /\ rrmap_add(t, thr[t].op = "create")
  /\ UNCHANGED <<rxVars, lock, asked, known, aborted, lost>>

(* bh_send_message aborts the process if the number is not in the map. *)
FindRecord(t) ==
  /\ ~aborted /\ thr[t].pc = "ready"
  /\ IF thr[t].q \in rrmap THEN Go(t, "sending") /\ UNCHANGED aborted
     ELSE aborted' = TRUE /\ UNCHANGED thr
  /\ UNCHANGED <<rxVars, seqno, rrmap, rec, lock, asked, known, lost>>

(* _send_message, under bhm_send.  A send that fails leaves the closed event in the    *)
(* record, and takes the record of a request without a session off the map.            *)
Send(t) ==
  /\ ~aborted /\ thr[t].pc = "sending"
  /\ LET q == thr[t].q
     IN  \/ /\ rec' = [rec EXCEPT ![q].event = "wait"] /\ asked' = asked \cup {q}
            /\ Go(t, "waiting") /\ UNCHANGED <<rrmap, lost>>
         \/ /\ rx # "runs" \/ lost < MaxLost
            /\ lost' = IF rx = "runs" THEN lost + 1 ELSE lost
            /\ Go(t, "failed") /\ rec' = [rec EXCEPT ![q].event = "garbage"]
            /\ rrmap' = IF rec[q].session THEN rrmap ELSE rrmap \ {q}
            /\ UNCHANGED asked
  /\ UNCHANGED <<rxVars, seqno, lock, known, aborted>>

(* bh_signal_and_wait ends and the event is closed, with no lock held ... *)
Wakes(t) ==
  /\ ~aborted /\ thr[t].pc = "waiting" /\ rec[thr[t].q].event = "set"
  /\ rec' = [rec EXCEPT ![thr[t].q].event = "null"] /\ Go(t, "woken")
  /\ UNCHANGED <<rxVars, seqno, rrmap, lock, asked, known, aborted, lost>>

(* ... or the send failed: the operation goes on with its result and with its session's    *)
(* record as it is then.                                                                   *)
Ends(t, ops) ==
  /\ ~aborted /\ thr[t].op \in ops
  /\ thr[t].pc \in {"failed", "woken"}
  /\ UNCHANGED <<rxVars, seqno, asked, aborted, lost>>

Result(t) == IF thr[t].pc = "failed" THEN "BPE_COMMS_ERROR" ELSE rec[thr[t].q].code

Code(t) == JhiErrorTranslate(Result(t), "JHI_INTERNAL_ERROR")

Session(t) ==
  IF thr[t].pc = "failed" THEN rec[thr[t].s]
  ELSE [rec[thr[t].s] EXCEPT !.code = "BH_SUCCESS"]

Forget(t, codes) == known' = IF Code(t) \in codes THEN known \ {thr[t].s} ELSE known

(* The three codes of a dead session kill its record.  The plugin calls all three          *)
(* JHI_APPLET_FATAL, and the service then drops its own.                                   *)
BH_PluginSendAndRecv(t) ==
  /\ Ends(t, {"sar"})
  /\ session_exit(thr[t].s, [Session(t) EXCEPT !.killed = @ \/ Result(t) \in SessionKilled])
  /\ Unlock(thr[t].s, t) /\ Return(t)
  /\ Forget(t, {"JHI_APPLET_FATAL"})

(* The id of a new session was sent to its applet; only then does the service have it. *)
BH_PluginSendAndRecvInternal(t) ==
  /\ Ends(t, {"id"})
  /\ session_exit(thr[t].s, [Session(t) EXCEPT !.killed = @ \/ Result(t) \in SessionKilled])
  /\ Unlock(thr[t].s, t) /\ Return(t)
  /\ known' = IF Code(t) = "JHI_SUCCESS" THEN known \cup {thr[t].s} ELSE known

(* JHI_Plugin_CreateSession goes on to send the session its id. *)
sendSessionIDtoApplet(t) ==
  thr' = [thr EXCEPT ![t] = [Idle EXCEPT !.pc = "called", !.op = "id", !.s = thr[t].s]]

BH_PluginCreateSession(t) ==
  /\ Ends(t, {"create"})
  /\ IF Result(t) = "BH_SUCCESS"
     THEN session_exit(thr[t].s, Session(t)) /\ sendSessionIDtoApplet(t)
     ELSE session_close(thr[t].s, Session(t)) /\ Return(t)
  /\ UNCHANGED <<lock, known>>

BH_PluginCloseSession(t) ==
  /\ Ends(t, {"close"})
  /\ session_close(thr[t].s, Session(t)) /\ Unlock(thr[t].s, t) /\ Return(t)
  /\ Forget(t, {"JHI_SUCCESS", "JHI_APPLET_FATAL"})

(* session_close_nolock; its own record ends with it. *)
BH_PluginForceCloseSession(t) ==
  LET s == thr[t].s
  IN  /\ Ends(t, {"force"})
      /\ rec' = [rec EXCEPT ![s] = IF @.count = 1 THEN NoRecord
                                   ELSE [@ EXCEPT !.count = @ - 1, !.killed = TRUE],
                            ![thr[t].q] = NoRecord]
      /\ rrmap' = IF rec[s].count = 1 THEN rrmap \ {s} ELSE rrmap
      /\ Return(t) /\ UNCHANGED lock
      /\ Forget(t, {"JHI_SUCCESS", "JHI_APPLET_FATAL"})

(* BH_PluginUnload, BH_PluginDownload, BH_PluginQueryAPI. *)
BH_PluginPlain(t) ==
  /\ Ends(t, {"plain"})
  /\ rec' = [rec EXCEPT ![thr[t].q] = NoRecord] /\ Return(t)
  /\ UNCHANGED <<rrmap, lock, known>>

-----------------------------------------------------------------------------
(* The receive thread. *)

(* bh_recv_message takes the record off the map (a session's record stays) ... *)
Receive(q) ==
  /\ ~aborted /\ rx = "runs" /\ taken = 0 /\ q \in asked
  /\ asked' = asked \ {q}
  /\ taken' = IF q \in rrmap THEN q ELSE 0
  /\ rrmap' = IF q \in rrmap /\ ~rec[q].session THEN rrmap \ {q} ELSE rrmap
  /\ UNCHANGED <<state, rx, seqno, rec, lock, thr, known, aborted, lost>>

(* ... and, with no lock held, reads the body, fills the record and signals. *)
Deliver(code) ==
  /\ ~aborted /\ rx = "runs" /\ taken # 0
  /\ rec' = [rec EXCEPT ![taken].code = code,
                        ![taken].event = IF @ = "wait" THEN "set" ELSE @]
  /\ taken' = 0
  /\ UNCHANGED <<state, rx, seqno, rrmap, lock, thr, asked, known, aborted, lost>>

(* recv_thread_main: a failed read, or a message without the magic, ends the thread; a   *)
(* record whose body could not be read gets the error.                                    *)
ReceiveFails ==
  /\ ~aborted /\ rx = "runs" /\ lost < MaxLost
  /\ lost' = lost + 1
  /\ state' = "OUT_OF_SERVICE" /\ rx' = "failing" /\ taken' = 0
  /\ rec' = IF taken = 0 THEN rec
            ELSE [rec EXCEPT ![taken].code = "BPE_COMMS_ERROR",
                             ![taken].event = IF @ = "wait" THEN "set" ELSE @]
  /\ UNCHANGED <<seqno, rrmap, lock, thr, asked, known, aborted>>

Unblock ==
  /\ ~aborted /\ rx = "failing" /\ rx' = "ended"
  /\ unblock_threads("BPE_COMMS_ERROR")
  /\ UNCHANGED <<state, taken, seqno, lock, thr, asked, known, aborted, lost>>

(* unblock_threads signals the event of every record, and that of a session whose creation *)
(* has not sent yet, or whose last send failed, is no event: the process may end there.    *)
UnblockCrashes ==
  /\ ~aborted /\ rx = "failing" /\ \E n \in rrmap : rec[n].event = "garbage"
  /\ aborted' = TRUE
  /\ UNCHANGED <<rxVars, seqno, rrmap, rec, lock, thr, asked, known, lost>>

-----------------------------------------------------------------------------
Next1 ==
  \/ PluginInit1 \/ PluginInitFails1 \/ PluginDeinit1
  \/ \E t \in Threads : Call(t)
  \/ \E t \in Threads : Enter(t)
  \/ \E t \in Threads : LockSession(t)
  \/ \E t \in Threads : AddRecord(t)
  \/ \E t \in Threads : FindRecord(t)
  \/ \E t \in Threads : Send(t)
  \/ \E t \in Threads : Wakes(t)
  \/ \E t \in Threads : BH_PluginSendAndRecv(t)
  \/ \E t \in Threads : BH_PluginSendAndRecvInternal(t)
  \/ \E t \in Threads : BH_PluginCreateSession(t)
  \/ \E t \in Threads : BH_PluginCloseSession(t)
  \/ \E t \in Threads : BH_PluginForceCloseSession(t)
  \/ \E t \in Threads : BH_PluginPlain(t)
  \/ \E q \in asked : Receive(q)
  \/ \E code \in {"BH_SUCCESS", "BHE_WD_TIMEOUT", "BHE_OUT_OF_MEMORY"} : Deliver(code)
  \/ ReceiveFails \/ Unblock \/ UnblockCrashes

Spec1 == Init1 /\ [][Next1]_vars1

(* No record is destroyed under a user, whatever the order of requests, closes, forced     *)
(* closes and a lost connection: the session of a thread between session_enter and         *)
(* session_exit, the record a thread waits on, and the record bh_recv_message fills        *)
(* without a lock all exist; and a session's count is the number of its users.             *)
InSession == {"locking", "entered", "ready", "sending", "waiting", "woken", "failed"}

Users(s) == {t \in Threads : thr[t].pc \in InSession /\ thr[t].s = s}

RecordOutlivesUsers ==
  /\ \A t \in Threads :
       /\ thr[t].pc \in InSession /\ thr[t].s # 0 => rec[thr[t].s].live
       /\ thr[t].pc \in {"ready", "sending", "waiting", "woken", "failed"} => rec[thr[t].q].live
  /\ taken # 0 => rec[taken].live
  /\ \A s \in 1..MaxNo : rec[s].live /\ rec[s].session => rec[s].count = Cardinality(Users(s))
=============================================================================
