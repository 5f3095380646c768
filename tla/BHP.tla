--------------------------------- MODULE BHP ---------------------------------
(***************************************************************************)
(* One connection of the Beihai host proxy (bhp_impl.cpp, bhp_impl_ta.cpp, *)
(* bhp_impl_admin.cpp) to a firmware process.  User threads send requests  *)
(* and wait; a receive thread finds the record of each response in rrmap   *)
(* by its sequence number and wakes the sender.  A plain request has its   *)
(* record on the sender's stack; a session has one on the heap, counted by *)
(* its users and destroyed by the last of them once it is killed.          *)
(* The sources are built without SVM and native TAs (bh_shared_conf.h), so *)
(* bh_do_openVM and bh_do_closeVM change nothing.                          *)
(***************************************************************************)
EXTENDS Integers, Sequences, FiniteSets

CONSTANTS
  Threads,          \* user threads, and the records on their stacks
  Sess,             \* heap records of sessions, one for each open
  None,
  MaxSessionLimit,  \* MAX_SESSION_LIMIT: users of a session at a time
  SeqMax,           \* the largest g_seqno: 2^32 - 1
  MaxAdds,          \* bound: calls of rrmap_add
  MaxKills,         \* bound: sessions that die while no request is pending
  MaxFaults         \* bound: transport failures and resets

ASSUME BHPAssumption ==
  /\ None \notin Threads \cup Sess /\ Threads \cap Sess = {} /\ IsFiniteSet(Threads)
  /\ MaxSessionLimit \in Nat \ {0} /\ SeqMax \in Nat \ {0} /\ MaxAdds \in Nat \ {0}
  /\ MaxKills \in Nat /\ MaxFaults \in Nat

VARIABLES
  adds,     \* calls of rrmap_add so far; g_seqno follows from it
  rrmap,    \* sequence number -> record
  seqOf,    \* record -> its sequence number
  state,    \* session record -> "new", "live" or "freed"
  count, killed, session_lock,
  evt,      \* wait_event: "null", "unset", "set", or "freed" (dangling)
  resp,     \* record -> its last response: the code, and whose request it answers
  handles,  \* sequence number given to the application -> its session
  pc, op, ses, cur, ret,   \* of each user thread
  got,      \* whose request the answer that it took was for
  bhm_send, \* holder of the send mutex
  handle,   \* the transport connection is up
  rpc, msg, rr,            \* of the receive thread
  fwreq, inq, fwAlive,     \* requests in the firmware, responses on the way, its sessions
  kills, faults, crashed

records == <<adds, rrmap, seqOf, state, count, killed, session_lock, evt, resp, handles>>
threads == <<pc, op, ses, cur, ret, got, bhm_send>>
recv == <<handle, rpc, msg, rr>>
fw == <<fwreq, inq, fwAlive>>
vars == <<records, threads, recv, fw, kills, faults, crashed>>

Recs == Sess \cup Threads
Seqs == 1..(IF MaxAdds < SeqMax THEN MaxAdds ELSE SeqMax)
NoResp == [code |-> "ok", by |-> None]
NoMsg == [seq |-> 1, code |-> "ok", by |-> None]

Init ==
  /\ adds = 0 /\ rrmap = [q \in Seqs |-> None] /\ seqOf = [r \in Recs |-> 1]
  /\ state = [s \in Sess |-> "new"] /\ count = [s \in Sess |-> 0]
  /\ killed = [s \in Sess |-> FALSE] /\ session_lock = [s \in Sess |-> None]
  /\ evt = [r \in Recs |-> "null"] /\ resp = [r \in Recs |-> NoResp]
  /\ handles = [q \in Seqs |-> None]
  /\ pc = [t \in Threads |-> "idle"] /\ op = [t \in Threads |-> "plain"]
  /\ ses = [t \in Threads |-> None] /\ cur = [t \in Threads |-> t]
  /\ ret = [t \in Threads |-> "ok"] /\ got = [t \in Threads |-> None] /\ bhm_send = None
  /\ handle = TRUE /\ rpc = "head" /\ msg = NoMsg /\ rr = None
  /\ fwreq = {} /\ inq = << >> /\ fwAlive = [s \in Sess |-> FALSE]
  /\ kills = 0 /\ faults = 0 /\ crashed = FALSE

Goto(t, l) == pc' = [pc EXCEPT ![t] = l]

\* The call of thread t returns.  Its locals, the record on its stack among them, are gone,
\* and the responses in the records rs are dropped.
Return(t, rs) ==
  /\ resp' = [r \in Recs |-> IF r \in rs \cup {t} THEN NoResp ELSE resp[r]]
  /\ Goto(t, "idle") /\ op' = [op EXCEPT ![t] = "plain"] /\ ses' = [ses EXCEPT ![t] = None]
  /\ cur' = [cur EXCEPT ![t] = t] /\ ret' = [ret EXCEPT ![t] = "ok"] /\ got' = [got EXCEPT ![t] = None]
  /\ seqOf' = [seqOf EXCEPT ![t] = 1] /\ evt' = [evt EXCEPT ![t] = "null"]

\* g_seqno wraps around, and skips 0.
inc_seqno == (adds % SeqMax) + 1

\* A new record r, cleared, under a new sequence number.
rrmap_add(r) ==
  /\ adds < MaxAdds
  /\ adds' = adds + 1
  /\ rrmap' = [rrmap EXCEPT ![inc_seqno] = r]
  /\ seqOf' = [seqOf EXCEPT ![r] = inc_seqno]
  /\ evt' = [evt EXCEPT ![r] = "null"] /\ resp' = [resp EXCEPT ![r] = NoResp]

\* Mutant: a session record is taken out like a plain one.
Removed_Any(q) == [rrmap EXCEPT ![q] = None]

\* rrmap_remove takes a plain record out; a session's record stays.
Removed(q) == IF rrmap[q] \in Threads THEN [rrmap EXCEPT ![q] = None] ELSE rrmap

-----------------------------------------------------------------------------
(* The requests of a user thread. *)

\* bh_proxy_openjtasession and BHP_OpenSDSession: a session record with one user.
OpenSession(t, s) ==
  /\ pc[t] = "idle" /\ state[s] = "new"
  /\ rrmap_add(s)
  /\ state' = [state EXCEPT ![s] = "live"] /\ count' = [count EXCEPT ![s] = 1]
  /\ op' = [op EXCEPT ![t] = "open"] /\ ses' = [ses EXCEPT ![t] = s]
  /\ Goto(t, "addr")
  /\ UNCHANGED <<killed, session_lock, handles, cur, ret, got, bhm_send, recv, fw, kills, faults, crashed>>

\* A request outside any session: its record is on the stack.
PlainRequest(t) ==
  /\ pc[t] = "idle" /\ rrmap_add(t)
  /\ op' = [op EXCEPT ![t] = "plain"] /\ Goto(t, "addr")
  /\ UNCHANGED <<state, count, killed, session_lock, handles, ses, cur, ret, got, bhm_send, recv, fw,
                 kills, faults, crashed>>

\* The record that handle h finds, if the session can be entered.
CanEnter(h) == /\ rrmap[h] \in Sess
               /\ ~killed[rrmap[h]]
               /\ count[rrmap[h]] < MaxSessionLimit

\* Mutant: the user that forces an entry is not counted.
session_enter_ForceNotCounted(t, h, o) ==
  /\ pc[t] = "idle" /\ handles[h] # None /\ CanEnter(h)
  /\ count' = IF o = "force" THEN count ELSE [count EXCEPT ![rrmap[h]] = @ + 1]
  /\ op' = [op EXCEPT ![t] = o] /\ ses' = [ses EXCEPT ![t] = rrmap[h]]
  /\ Goto(t, IF o = "force" THEN "add" ELSE "lock")
  /\ UNCHANGED <<adds, rrmap, seqOf, state, killed, session_lock, evt, resp, handles, cur, ret, got,
                 bhm_send, recv, fw, kills, faults, crashed>>

\* BHP_SendAndRecv, BHP_CloseTASession, BHP_ForceCloseTASession and the admin commands
\* enter the session of a handle; all but the forced close then take its lock.
session_enter(t, h, o) ==
  /\ pc[t] = "idle" /\ handles[h] # None /\ CanEnter(h)
  /\ count' = [count EXCEPT ![rrmap[h]] = @ + 1]
  /\ op' = [op EXCEPT ![t] = o] /\ ses' = [ses EXCEPT ![t] = rrmap[h]]
  /\ Goto(t, IF o = "force" THEN "add" ELSE "lock")
  /\ UNCHANGED <<adds, rrmap, seqOf, state, killed, session_lock, evt, resp, handles, cur, ret, got,
                 bhm_send, recv, fw, kills, faults, crashed>>

\* Mutant: the session lock is not taken.
SessionLock_NotTaken(t) ==
  LET s == ses[t] IN
  /\ pc[t] = "lock" /\ Goto(t, IF killed[s] THEN "left" ELSE "addr")
  /\ UNCHANGED <<records, op, ses, cur, ret, got, bhm_send, recv, fw, kills, faults, crashed>>

SessionLock(t) ==
  LET s == ses[t] IN
  /\ pc[t] = "lock" /\ session_lock[s] = None
  /\ session_lock' = [session_lock EXCEPT ![s] = t]
  /\ Goto(t, IF killed[s] THEN "left" ELSE "addr")
  /\ UNCHANGED <<adds, rrmap, seqOf, state, count, killed, evt, resp, handles, op, ses, cur, ret, got,
                 bhm_send, recv, fw, kills, faults, crashed>>

\* The forced close sends its command under a record of its own, as does the download
\* that precedes the second attempt to open a session.
AddOwn(t) ==
  /\ pc[t] = "add" /\ rrmap_add(t) /\ Goto(t, "addr")
  /\ UNCHANGED <<state, count, killed, session_lock, handles, op, ses, cur, ret, got, bhm_send, recv, fw,
                 kills, faults, crashed>>

\* The record whose sequence number thread t sends.
Target(t) == IF op[t] \in {"plain", "force", "download"} THEN t ELSE ses[t]

addr2record(t) ==
  LET r == rrmap[seqOf[Target(t)]] IN
  /\ pc[t] = "addr"
  /\ \/ r # None /\ cur' = [cur EXCEPT ![t] = r] /\ Goto(t, "send") /\ UNCHANGED ret
     \/ r = None /\ ret' = [ret EXCEPT ![t] = "internal"] /\ Goto(t, "back") /\ UNCHANGED cur
  /\ UNCHANGED <<records, op, ses, got, bhm_send, recv, fw, kills, faults, crashed>>

\* bh_send_message takes bhm_send; _send_message creates the event.
CreateEvent(t) ==
  /\ pc[t] = "send" /\ bhm_send = None
  /\ bhm_send' = t
  /\ evt' = [evt EXCEPT ![cur[t]] = "unset"] /\ Goto(t, "tx")
  /\ UNCHANGED <<adds, rrmap, seqOf, state, count, killed, session_lock, resp, handles, op, ses,
                 cur, ret, got, recv, fw, kills, faults, crashed>>

\* The message is out: the thread leaves bhm_send and waits.
SendOk(t) ==
  /\ pc[t] = "tx" /\ handle
  /\ fwreq' = fwreq \cup {[seq |-> seqOf[Target(t)], op |-> op[t], ses |-> ses[t], by |-> t]}
  /\ bhm_send' = None /\ Goto(t, "wait")
  /\ UNCHANGED <<records, op, ses, cur, ret, got, recv, inq, fwAlive, kills, faults, crashed>>

\* It is not: _send_message closes the event, but the record keeps the pointer to it.
SendFails(t) ==
  /\ pc[t] = "tx"
  /\ \/ ~handle /\ UNCHANGED faults
     \/ handle /\ faults < MaxFaults /\ faults' = faults + 1
  /\ evt' = [evt EXCEPT ![cur[t]] = "freed"] /\ Goto(t, "unmap")
  /\ UNCHANGED <<adds, rrmap, seqOf, state, count, killed, session_lock, resp, handles, op, ses,
                 cur, ret, got, bhm_send, recv, fw, kills, crashed>>

rrmap_remove(t) ==
  /\ pc[t] = "unmap"
  /\ rrmap' = Removed(seqOf[Target(t)])
  /\ bhm_send' = None /\ ret' = [ret EXCEPT ![t] = "comms"] /\ Goto(t, "back")
  /\ UNCHANGED <<adds, seqOf, state, count, killed, session_lock, evt, resp, handles, op, ses, cur, got,
                 recv, fw, kills, faults, crashed>>

\* bh_wait_event returns and bh_close_event frees the event ...
Wake(t) ==
  /\ pc[t] = "wait" /\ evt[cur[t]] = "set"
  /\ evt' = [evt EXCEPT ![cur[t]] = "freed"] /\ Goto(t, "woken")
  /\ UNCHANGED <<adds, rrmap, seqOf, state, count, killed, session_lock, resp, handles, op, ses,
                 cur, ret, got, bhm_send, recv, fw, kills, faults, crashed>>

\* ... before the record forgets it.
ClearEvent(t) ==
  /\ pc[t] = "woken"
  /\ evt' = [evt EXCEPT ![cur[t]] = "null"]
  /\ ret' = [ret EXCEPT ![t] = resp[cur[t]].code] /\ got' = [got EXCEPT ![t] = resp[cur[t]].by]
  /\ Goto(t, "back")
  /\ UNCHANGED <<adds, rrmap, seqOf, state, count, killed, session_lock, resp, handles, op, ses,
                 cur, bhm_send, recv, fw, kills, faults, crashed>>

\* A user leaves session s: the last one destroys the record if die holds, and an
\* earlier one marks it killed if mark does.
Depart(t, s, die, mark) ==
  LET last == count[s] = 1 IN
  /\ count' = [count EXCEPT ![s] = @ - 1]
  /\ session_lock' = [session_lock EXCEPT ![s] = IF @ = t THEN None ELSE @]
  /\ rrmap' = IF last /\ die THEN [rrmap EXCEPT ![seqOf[s]] = None] ELSE rrmap
  /\ state' = IF last /\ die THEN [state EXCEPT ![s] = "freed"] ELSE state
  /\ killed' = IF mark /\ ~(last /\ die) THEN [killed EXCEPT ![s] = TRUE] ELSE killed
  /\ Return(t, IF last /\ rr # s THEN {s} ELSE {})

session_exit(t, s) == Depart(t, s, killed[s], FALSE)
session_close(t, s) == Depart(t, s, TRUE, TRUE)

\* The thread found the session killed once it had the lock.
EnterFails(t) ==
  /\ pc[t] = "left" /\ session_exit(t, ses[t])
  /\ UNCHANGED <<adds, handles, bhm_send, recv, fw, kills, faults, crashed>>

\* bh_proxy_openjtasession downloads the package if the VM does not have it, and tries again.
Retry(t) ==
  /\ pc[t] = "back"
  /\ \/ op[t] = "open" /\ ret[t] = "notfound" /\ op' = [op EXCEPT ![t] = "download"] /\ Goto(t, "add")
     \/ op[t] = "download" /\ ret[t] = "ok" /\ op' = [op EXCEPT ![t] = "reopen"] /\ Goto(t, "addr")
  /\ UNCHANGED <<records, ses, cur, ret, got, bhm_send, recv, fw, kills, faults, crashed>>

\* An open that succeeded gives out the handle; any other closes the session.
OpenDone(t) ==
  LET s == ses[t]
      good == ret[t] = "ok"
  IN
  /\ pc[t] = "back"
  /\ \/ op[t] = "open" /\ ret[t] # "notfound"
     \/ op[t] = "download" /\ ~good
     \/ op[t] = "reopen"
  /\ IF good THEN session_exit(t, s) ELSE session_close(t, s)
  /\ handles' = IF good THEN [handles EXCEPT ![seqOf[s]] = s] ELSE handles
  /\ UNCHANGED <<adds, bhm_send, recv, fw, kills, faults, crashed>>

\* BHP_SendAndRecv, and the admin commands: the thread leaves the session.
SarDone(t) ==
  /\ pc[t] = "back" /\ op[t] = "sar" /\ session_exit(t, ses[t])
  /\ UNCHANGED <<adds, handles, bhm_send, recv, fw, kills, faults, crashed>>

\* BHP_CloseTASession: the firmware refuses while an internal session exists.
CloseDone(t) ==
  LET s == ses[t] IN
  /\ pc[t] = "back" /\ op[t] = "close"
  /\ IF ret[t] = "iac" /\ ~killed[s] THEN session_exit(t, s) ELSE session_close(t, s)
  /\ UNCHANGED <<adds, handles, bhm_send, recv, fw, kills, faults, crashed>>

\* BHP_ForceCloseTASession: whatever the firmware said, the session is closed.
ForceDone(t) ==
  /\ pc[t] = "back" /\ op[t] = "force" /\ session_close(t, ses[t])
  /\ UNCHANGED <<adds, handles, bhm_send, recv, fw, kills, faults, crashed>>

PlainDone(t) ==
  /\ pc[t] = "back" /\ op[t] = "plain" /\ Return(t, {})
  /\ UNCHANGED <<adds, rrmap, state, count, killed, session_lock, handles, bhm_send, recv, fw, kills,
                 faults, crashed>>

-----------------------------------------------------------------------------
(* The receive thread: bh_recv_thread_func. *)

AfterMessage(bad) == /\ rpc' = IF bad THEN "down" ELSE "head"
                     /\ msg' = NoMsg /\ rr' = None

\* A header arrives and its record is looked up.
RecvHeader ==
  /\ rpc = "head" /\ inq # << >>
  /\ msg' = Head(inq) /\ inq' = Tail(inq)
  /\ rr' = rrmap[Head(inq).seq] /\ rrmap' = Removed(Head(inq).seq)
  /\ rpc' = "data"
  /\ UNCHANGED <<adds, seqOf, state, count, killed, session_lock, evt, resp, handles, threads,
                 handle, fwreq, fwAlive, kills, faults, crashed>>

\* The transport fails, or what arrives is no response.
RecvFails ==
  /\ rpc = "head" /\ faults < MaxFaults
  /\ faults' = faults + 1 /\ rpc' = "down"
  /\ UNCHANGED <<records, threads, handle, msg, rr, fw, kills, crashed>>

\* A record that is used after its memory was freed: the process dies, or nothing shows.
Misuse == crashed' \in BOOLEAN
Freed(r) == r \in Sess /\ state[r] = "freed"

\* The data arrives and the record gets the response; no lock is held.
RecvData ==
  /\ rpc = "data"
  /\ \E bad \in {b \in BOOLEAN : b => faults < MaxFaults} :
       LET c == IF bad THEN "comms" ELSE msg.code IN
       /\ faults' = IF bad THEN faults + 1 ELSE faults
       /\ IF rr = None
          THEN AfterMessage(bad) /\ UNCHANGED <<resp, killed, crashed>>
          ELSE /\ rpc' = "signal" /\ UNCHANGED rr
               /\ msg' = [seq |-> msg.seq, code |-> c, by |-> msg.by]
               /\ resp' = [resp EXCEPT ![rr] = [code |-> c, by |-> msg.by]]
               /\ killed' = IF rr \in Sess /\ c = "killed" THEN [killed EXCEPT ![rr] = TRUE] ELSE killed
               /\ IF Freed(rr) THEN Misuse ELSE UNCHANGED crashed
  /\ UNCHANGED <<adds, rrmap, seqOf, state, count, session_lock, evt, handles, threads, handle, fw, kills>>

\* The sender is woken.  A session that died while nobody waits is killed.
RecvSignal ==
  /\ rpc = "signal"
  /\ evt' = IF evt[rr] = "unset" THEN [evt EXCEPT ![rr] = "set"] ELSE evt
  /\ IF evt[rr] = "freed" THEN Misuse ELSE UNCHANGED crashed
  /\ IF evt[rr] = "null" /\ rr \in Sess /\ msg.code = "killed"
     THEN rpc' = "kill" /\ UNCHANGED <<msg, rr>>
     ELSE AfterMessage(msg.code = "comms")
  /\ UNCHANGED <<adds, rrmap, seqOf, state, count, killed, session_lock, resp, handles, threads, handle, fw,
                 kills, faults>>

session_kill ==
  /\ rpc = "kill" /\ AfterMessage(FALSE)
  /\ IF Freed(rr)
     THEN Misuse /\ UNCHANGED <<killed, rrmap, state>>
     ELSE /\ killed' = [killed EXCEPT ![rr] = TRUE]
          /\ rrmap' = IF count[rr] = 0 THEN [rrmap EXCEPT ![msg.seq] = None] ELSE rrmap
          /\ state' = IF count[rr] = 0 THEN [state EXCEPT ![rr] = "freed"] ELSE state
          /\ UNCHANGED crashed
  /\ UNCHANGED <<adds, seqOf, count, session_lock, evt, resp, handles, threads, handle, fw, kills, faults>>

\* Mutant: the connection handle is not reset.
Disconnect_KeepsHandle ==
  /\ rpc = "down" /\ rpc' = "unblock"
  /\ fwreq' = {} /\ inq' = << >> /\ fwAlive' = [s \in Sess |-> FALSE]
  /\ UNCHANGED <<records, threads, handle, msg, rr, kills, faults, crashed>>

\* The connection is closed before anybody is woken.
Disconnect ==
  /\ rpc = "down" /\ rpc' = "unblock"
  /\ handle' = FALSE /\ fwreq' = {} /\ inq' = << >> /\ fwAlive' = [s \in Sess |-> FALSE]
  /\ UNCHANGED <<records, threads, msg, rr, kills, faults, crashed>>

\* What unblock_threads does to the record r found in rrmap: it wakes the sender that
\* waits, and destroys a session that nobody uses.
Waits(r) == evt[r] # "null"
Cached(r) == r \in Sess /\ ~Waits(r) /\ count[r] = 0

unblock_threads ==
  LET mapped == {rrmap[q] : q \in Seqs} \ {None} IN
  /\ rpc = "unblock" /\ rpc' = "clear"
  /\ resp' = [r \in Recs |-> IF r \in mapped THEN [code |-> "comms", by |-> None] ELSE resp[r]]
  /\ evt' = [r \in Recs |-> IF r \in mapped /\ evt[r] = "unset" THEN "set" ELSE evt[r]]
  /\ killed' = [s \in Sess |-> killed[s] \/ (s \in mapped /\ Waits(s))]
  /\ state' = [s \in Sess |-> IF s \in mapped /\ Cached(s) THEN "freed" ELSE state[s]]
  /\ rrmap' = [q \in Seqs |-> IF rrmap[q] # None /\ (Cached(rrmap[q]) \/ (rrmap[q] \in Threads /\ Waits(rrmap[q])))
                              THEN None ELSE rrmap[q]]
  /\ IF \E r \in mapped : evt[r] = "freed" THEN Misuse ELSE UNCHANGED crashed
  /\ UNCHANGED <<adds, seqOf, count, session_lock, handles, threads, handle, msg, rr, fw, kills, faults>>

\* It drops what is left, and the thread ends.
ClearMap ==
  /\ rpc = "clear" /\ rpc' = "done" /\ rrmap' = [q \in Seqs |-> None]
  /\ UNCHANGED <<adds, seqOf, state, count, killed, session_lock, evt, resp, handles, threads, handle,
                 msg, rr, fw, kills, faults, crashed>>

\* A reset of the service: BHP_Deinit (bh_do_disconnect cancels a receive thread that waits
\* in the transport) and BHP_Init, while initLock keeps all other threads out.
Reinit ==
  /\ \A t \in Threads : pc[t] = "idle"
  /\ rpc = "done" \/ (rpc = "head" /\ faults < MaxFaults)
  /\ faults' = IF rpc = "head" THEN faults + 1 ELSE faults
  /\ rpc' = "head" /\ handle' = TRUE /\ rrmap' = [q \in Seqs |-> None]
  /\ fwreq' = {} /\ inq' = << >> /\ fwAlive' = [s \in Sess |-> FALSE]
  /\ UNCHANGED <<adds, seqOf, state, count, killed, session_lock, evt, resp, handles, threads, msg, rr,
                 kills, crashed>>

-----------------------------------------------------------------------------
(* The firmware, as this code sees it: it answers every request of a connection that    *)
(* stays up, and reports a session that dies with a request pending in the answer to it. *)

\* The answers to request q, each with whether the session is alive after it.
FwAnswers(q) ==
  CASE q.op = "open" -> {<<"ok", TRUE>>, <<"error", FALSE>>, <<"notfound", FALSE>>}
    [] q.op = "reopen" -> {<<"ok", TRUE>>, <<"error", FALSE>>}
    [] q.op \in {"plain", "download"} -> {<<"ok", FALSE>>, <<"error", FALSE>>}
    [] q.op = "sar" -> IF fwAlive[q.ses] THEN {<<"ok", TRUE>>, <<"error", TRUE>>, <<"killed", FALSE>>}
                       ELSE {<<"error", FALSE>>, <<"killed", FALSE>>}
    [] q.op = "close" -> IF fwAlive[q.ses] THEN {<<"ok", FALSE>>, <<"iac", TRUE>>} ELSE {<<"error", FALSE>>}
    [] q.op = "force" -> IF fwAlive[q.ses] THEN {<<"ok", FALSE>>} ELSE {<<"error", FALSE>>}

FwReply(q) ==
  /\ q \in fwreq /\ fwreq' = fwreq \ {q}
  /\ \E a \in FwAnswers(q) :
       /\ inq' = Append(inq, [seq |-> q.seq, code |-> a[1], by |-> q.by])
       /\ fwAlive' = IF q.ses # None /\ q.op # "download" THEN [fwAlive EXCEPT ![q.ses] = a[2]] ELSE fwAlive
  /\ UNCHANGED <<records, threads, recv, kills, faults, crashed>>

\* A session dies while it has no request: the firmware reports it on its own account.
FwKill(s) ==
  /\ fwAlive[s] /\ kills < MaxKills /\ \A q \in fwreq : q.ses # s
  /\ kills' = kills + 1 /\ fwAlive' = [fwAlive EXCEPT ![s] = FALSE]
  /\ inq' = Append(inq, [seq |-> seqOf[s], code |-> "killed", by |-> None])
  /\ UNCHANGED <<records, threads, recv, fwreq, faults, crashed>>

-----------------------------------------------------------------------------
Request(t) == \/ PlainRequest(t)
              \/ \E s \in Sess : OpenSession(t, s)
              \/ \E h \in Seqs, o \in {"sar", "close", "force"} : session_enter(t, h, o)
Step(t) == \/ SessionLock(t) \/ AddOwn(t) \/ addr2record(t) \/ CreateEvent(t) \/ SendOk(t) \/ SendFails(t)
           \/ rrmap_remove(t) \/ Wake(t) \/ ClearEvent(t) \/ EnterFails(t) \/ Retry(t) \/ OpenDone(t)
           \/ SarDone(t) \/ CloseDone(t) \/ ForceDone(t) \/ PlainDone(t)
Receive == \/ RecvHeader \/ RecvData \/ RecvSignal \/ session_kill \/ Disconnect \/ unblock_threads \/ ClearMap
Firmware == (\E q \in fwreq : FwReply(q)) \/ (\E s \in Sess : FwKill(s))

Next == /\ ~crashed
        /\ \/ \E t \in Threads : Request(t) \/ Step(t)
           \/ Receive \/ RecvFails \/ Reinit \/ Firmware

Spec == Init /\ [][Next]_vars

\* Threads run, a lock that is free is taken by one of those that want it, and the firmware
\* answers what it was asked.
Fairness == /\ \A t \in Threads : SF_vars(~crashed /\ Step(t))
            /\ WF_vars(~crashed /\ Receive)
            /\ \A t \in Threads : WF_vars(~crashed /\ \E q \in fwreq : q.by = t /\ FwReply(q))
LiveSpec == Spec /\ Fairness

-----------------------------------------------------------------------------
(* Properties. *)

\* The count of a session is the number of threads inside it, and a thread inside it never
\* finds the record destroyed, whichever of its users, the receive thread and the end of the
\* connection destroys it.
UsersKeepRecord ==
  \A s \in Sess : /\ state[s] # "freed" => count[s] = Cardinality({t \in Threads : ses[t] = s})
                  /\ state[s] = "freed" => \A t \in Threads : ses[t] # s

\* A thread that is told of success was answered by the firmware, on its own request: no
\* response reaches a thread that uses the same record before or after it.
OwnAnswer == \A t \in Threads : pc[t] = "back" /\ ret[t] = "ok" => got[t] = t

\* While the connection stays up, a session's record is in rrmap until it is destroyed: every
\* way to end a session does both, also when the firmware reports the end as its users leave.
NoRecordLost ==
  faults = 0 => \A s \in Sess : state[s] = "live" => \E q \in Seqs : rrmap[q] = s

\* Nobody waits for an answer for ever, even when the connection ends: Disconnect makes every
\* later send fail, and unblock_threads wakes whoever sent before.
Answered == \A t \in Threads : []<>(pc[t] # "wait" \/ crashed)
===============================================================================
