-------------------------------- MODULE Events --------------------------------
(***************************************************************************)
(* Session events, from the spooler applet to the callback of the          *)
(* application: the listener thread of the service (EventManager.cpp), the *)
(* event handles and event queues of the session table                     *)
(* (SessionsManager.cpp), the event socket (jhi_event_linux.cpp), and the  *)
(* client library that registers a session and runs one listener thread    *)
(* per registration (libjhi/jhi.cpp).                                      *)
(*                                                                         *)
(* A registration <<s, n>> is the n-th one of session s: it names the      *)
(* client's JhiEvent, its threadNeedToEnd flag, its thread and the         *)
(* connection that the service opens to it.  The service's own JhiEvent    *)
(* objects live at addresses, which are reused once they are freed.  An    *)
(* event is the number of its emission within its session.                 *)
(***************************************************************************)
EXTENDS Integers, Sequences

CONSTANTS Sessions,     \* sessions the application has created (all non-shared)
          Addrs,        \* addresses of the service's JhiEvent objects
          None,
          MaxQueue,     \* MAX_EVENTS_DATA_IN_QUEUE
          MaxRegs,      \* bound: registrations of one session
          MaxEvents,    \* bound: events of one session
          MaxWork,      \* bound: registrations and events of one session, together
          MaxFaults     \* bound: requests that fail, spooler errors, and resets of the service

ASSUME EventsAssumption == /\ MaxQueue \in Nat \ {0} /\ MaxRegs \in Nat \ {0} /\ MaxEvents \in Nat
                           /\ MaxWork \in Nat /\ MaxFaults \in Nat
                           /\ None \notin Sessions \cup Addrs
                           /\ None \notin Sessions \X (1..MaxRegs)

Regs == Sessions \X (1..MaxRegs)

VARIABLES
  \* the service: session records; the free addresses, and at each address the registration
  \* to which the JhiEvent there is connected (None: to none)
  present, handle, queue, free, heap,
  \* the listener thread of the service: WaitForSpoolerEvent, getEventHandle, ...
  lpc, target, event, ptr,
  \* the connection of a registration, seen from the client: its state and its bytes
  conn, bytes,
  \* the library: the call that holds appHandleLock, the session handles, and the
  \* JhiEvent (created, the socket of wait) and threadNeedToEnd of a registration
  op, valid, evt, made, created, clFd, needToEnd,
  \* the listener threads of the library, the registration each one works on, and the event
  \* it has fetched and not yet passed to the callback (0: none)
  tpc, on, held,
  \* what the applets emitted and the callback got from each thread; the threads whose last
  \* request for events failed; whether a failed call or a reset left a handle of the service
  \* behind; the faults so far
  sent, got, stalled, missed, faults

service == <<present, handle, queue, free, heap>>
listener == <<lpc, target, event, ptr>>
library == <<op, valid, evt, made, created, clFd, needToEnd>>
threads == <<tpc, on, held>>
history == <<sent, got, stalled, missed, faults>>
vars == <<service, listener, conn, bytes, library, threads, history>>

Idle == [call |-> "none", s |-> None, rc |-> "none"]

Init == /\ present = [s \in Sessions |-> TRUE]
        /\ handle = [s \in Sessions |-> None]
        /\ queue = [s \in Sessions |-> <<>>]
        /\ free = Addrs /\ heap = [a \in Addrs |-> None]
        /\ lpc = "wait" /\ target \in Sessions /\ event = None /\ ptr = None
        /\ conn = [r \in Regs |-> "none"] /\ bytes = [r \in Regs |-> 0]
        /\ op = Idle
        /\ valid = [s \in Sessions |-> TRUE]
        /\ evt = [s \in Sessions |-> None]
        /\ made = [s \in Sessions |-> 0]
        /\ created = [r \in Regs |-> FALSE] /\ clFd = [r \in Regs |-> FALSE]
        /\ needToEnd = [r \in Regs |-> FALSE]
        /\ tpc = [r \in Regs |-> "none"] /\ on = [r \in Regs |-> None]
        /\ held = [r \in Regs |-> 0]
        /\ sent = [s \in Sessions |-> 0] /\ got = [r \in Regs |-> <<>>]
        /\ stalled = [r \in Regs |-> FALSE] /\ missed = FALSE /\ faults = 0

-----------------------------------------------------------------------------
(* The event handles of the session table.  A handle is registered when its *)
(* JhiEvent is connected (is_created); an unregistered session keeps an     *)
(* unconnected JhiEvent.                                                    *)
Registered(s) == present[s] /\ handle[s] # None /\ heap[handle[s]] # None

\* JhiEvent::close and the deallocation of a JhiEvent: the client reads end of file.
Closed(a) == IF a # None /\ heap[a] # None THEN [conn EXCEPT ![heap[a]] = "eof"] ELSE conn
Freed(a) == IF a # None THEN [heap EXCEPT ![a] = None] ELSE heap

\* EventManager::SetSessionEventHandler and SessionsManager::setEventHandle: the new
\* object is allocated before the old one is freed.  r is the registration to connect to,
\* None for an empty handle name.
setEventHandle(s, r) ==
  \E a \in free :
    /\ handle' = [handle EXCEPT ![s] = a]
    /\ heap' = [Freed(handle[s]) EXCEPT ![a] = r]
    /\ free' = (free \ {a}) \cup ({handle[s]} \ {None})
    /\ conn' = IF r = None THEN Closed(handle[s]) ELSE [Closed(handle[s]) EXCEPT ![r] = "up"]
    /\ queue' = IF r = None THEN [queue EXCEPT ![s] = <<>>] ELSE queue
    /\ UNCHANGED present

\* Mutant: the event handle is not closed with the session.
remove_KeepsOpen(s) ==
  /\ present[s]
  /\ present' = [present EXCEPT ![s] = FALSE]
  /\ queue' = [queue EXCEPT ![s] = <<>>]
  /\ handle' = [handle EXCEPT ![s] = None]
  /\ UNCHANGED <<conn, heap, free>>
\* SessionsManager::remove, on any of the ways a session of the service ends.
remove(s) ==
  /\ present[s]
  /\ present' = [present EXCEPT ![s] = FALSE]
  /\ queue' = [queue EXCEPT ![s] = <<>>]
  /\ conn' = Closed(handle[s])
  /\ heap' = Freed(handle[s])
  /\ free' = free \cup ({handle[s]} \ {None})
  /\ handle' = [handle EXCEPT ![s] = None]

\* The applet crashed, another owner forced the session closed, or it was abandoned.
SessionEnds(s) == remove(s) /\ UNCHANGED <<listener, bytes, library, threads, history>>

\* resetSessionManager, from JhiReset on the listener's way out: the queues are emptied
\* and the records erased, the event handles in them are neither closed nor freed.
resetSessionManager ==
  /\ lpc = "wait" /\ faults < MaxFaults
  /\ faults' = faults + 1 /\ missed' = TRUE
  /\ present' = [s \in Sessions |-> FALSE]
  /\ queue' = [s \in Sessions |-> <<>>]
  /\ handle' = [s \in Sessions |-> None]
  /\ UNCHANGED <<free, heap, listener, conn, bytes, library, threads, sent, got, stalled>>

-----------------------------------------------------------------------------
(* JomEventListenerThread of the service.                                  *)

\* JHI_Plugin_WaitForSpoolerEvent returns an event of session s.
SpoolerEvent(s) ==
  /\ lpc = "wait" /\ sent[s] < MaxEvents /\ sent[s] + made[s] < MaxWork
  /\ sent' = [sent EXCEPT ![s] = @ + 1]
  /\ lpc' = "look" /\ target' = s /\ event' = sent'[s]
  /\ UNCHANGED <<service, ptr, conn, bytes, library, threads, got, stalled, missed, faults>>

\* It returns JHI_SUCCESS although the spooler's response code is an error (bhplugin2):
\* no event data, and target_session still names the session of the call before.
SpoolerRefuses ==
  /\ lpc = "wait" /\ faults < MaxFaults
  /\ faults' = faults + 1
  /\ lpc' = "look" /\ event' = None
  /\ UNCHANGED <<service, target, ptr, conn, bytes, library, threads, sent, got, stalled, missed>>

\* SessionsManager::getEventHandle; an event for a session that is not registered is dropped.
getEventHandle ==
  /\ lpc = "look"
  /\ IF Registered(target)
     THEN ptr' = handle[target] /\ lpc' = IF event = None THEN "signal" ELSE "enqueue"
     ELSE ptr' = None /\ lpc' = "wait"
  /\ UNCHANGED <<service, target, event, conn, bytes, library, threads, history>>

\* Mutant: the event is not signalled.
enqueueEventData_NoSignal ==
  /\ lpc = "enqueue"
  /\ queue' = IF present[target] /\ Len(queue[target]) < MaxQueue
              THEN [queue EXCEPT ![target] = Append(@, event)] ELSE queue
  /\ lpc' = "wait"
  /\ UNCHANGED <<present, handle, free, heap, target, event, ptr, conn, bytes, library, threads, history>>
\* SessionsManager::enqueueEventData looks the session up again, not its handle.  What
\* does not fit is freed; the handle is signalled all the same.
enqueueEventData ==
  /\ lpc = "enqueue"
  /\ queue' = IF present[target] /\ Len(queue[target]) < MaxQueue
              THEN [queue EXCEPT ![target] = Append(@, event)] ELSE queue
  /\ lpc' = "signal"
  /\ UNCHANGED <<present, handle, free, heap, target, event, ptr, conn, bytes, library, threads, history>>

\* eventHandle->set(): writes to whatever JhiEvent is at the address by now.  A freed
\* object still has _created = false.
SignalEvent ==
  /\ lpc = "signal"
  /\ bytes' = IF heap[ptr] # None /\ conn[heap[ptr]] = "up"
              THEN [bytes EXCEPT ![heap[ptr]] = @ + 1] ELSE bytes
  /\ lpc' = "wait" /\ ptr' = None
  /\ UNCHANGED <<service, target, event, conn, library, threads, history>>

-----------------------------------------------------------------------------
(* The library's calls.  Each one holds appHandleLock until it returns,    *)
(* the request to the service included.                                    *)

HasEvent(s) == evt[s] # None /\ created[evt[s]]

\* closeSessionEventThread: on Linux, JhiEvent::close closes the accepted socket only.
closeSessionEventThread(s) ==
  LET r == evt[s]
  IN IF HasEvent(s)
     THEN /\ needToEnd' = [needToEnd EXCEPT ![r] = TRUE]
          /\ created' = [created EXCEPT ![r] = FALSE]
          /\ clFd' = [clFd EXCEPT ![r] = FALSE]
          /\ evt' = [evt EXCEPT ![s] = None]
     ELSE UNCHANGED <<needToEnd, created, clFd, evt>>

Begin(call, s) == /\ op = Idle /\ valid[s]
                  /\ op' = [call |-> call, s |-> s, rc |-> "pending"]

\* JHI_RegisterEvents up to the request: the JhiEvent listens, the thread is created.
RegisterBegin(s) ==
  LET r == <<s, made[s] + 1>>
  IN /\ Begin("register", s) /\ made[s] < MaxRegs /\ sent[s] + made[s] < MaxWork
     /\ ~HasEvent(s)
     /\ made' = [made EXCEPT ![s] = @ + 1]
     /\ evt' = [evt EXCEPT ![s] = r]
     /\ created' = [created EXCEPT ![r] = TRUE]
     /\ tpc' = [tpc EXCEPT ![r] = "start"]
     /\ UNCHANGED <<service, listener, conn, bytes, valid, clFd, needToEnd, on, held, history>>

UnregisterBegin(s) ==
  /\ Begin("unregister", s) /\ HasEvent(s)
  /\ closeSessionEventThread(s)
  /\ UNCHANGED <<service, listener, conn, bytes, valid, made, threads, history>>

\* JHI_CloseSessionInternal up to the request.
CloseBegin(s) ==
  /\ Begin("close", s)
  /\ closeSessionEventThread(s)
  /\ UNCHANGED <<service, listener, conn, bytes, valid, made, threads, history>>

\* The service serves the request.  SetSessionEventHandler looks the session up, opens a
\* JhiEvent, and sets it as the handle of the session, under a lock that it takes anew: the
\* session may be gone by then, and the connection is closed again.
Answer(rc) == op' = [call |-> op.call, s |-> op.s, rc |-> rc]
LookUpSession ==
  /\ op.rc = "pending" /\ op.call \in {"register", "unregister"}
  /\ Answer(IF present[op.s] THEN "found" ELSE "INVALID_SESSION_HANDLE")
  /\ UNCHANGED <<service, listener, conn, bytes, valid, evt, made, created, clFd, needToEnd, threads, history>>
SetSessionEventHandler ==
  /\ op.rc = "found"
  /\ \/ /\ present[op.s] /\ Answer("SUCCESS")
        /\ \/ op.call = "register" /\ setEventHandle(op.s, evt[op.s])
           \/ op.call = "unregister" /\ setEventHandle(op.s, None)
     \/ /\ ~present[op.s] /\ Answer("INTERNAL_ERROR")
        /\ conn' = IF op.call = "register" THEN [conn EXCEPT ![evt[op.s]] = "eof"] ELSE conn
        /\ UNCHANGED service
  /\ UNCHANGED <<listener, bytes, valid, evt, made, created, clFd, needToEnd, threads, history>>
\* JHI_CLOSE_SESSION.
ServeClose ==
  /\ op.rc = "pending" /\ op.call = "close"
  /\ \/ present[op.s] /\ Answer("SUCCESS") /\ remove(op.s)
     \/ ~present[op.s] /\ Answer("INVALID_SESSION_HANDLE") /\ UNCHANGED <<service, conn>>
  /\ UNCHANGED <<listener, bytes, valid, evt, made, created, clFd, needToEnd, threads, history>>

\* The request fails: the service cannot be reached, cannot connect to the event's
\* socket, or the VM does not close the session.
FailRequest ==
  /\ op.rc = "pending" /\ faults < MaxFaults
  /\ faults' = faults + 1 /\ missed' = TRUE
  /\ Answer("INTERNAL_ERROR")
  /\ UNCHANGED <<service, listener, conn, bytes, valid, evt, made, created, clFd, needToEnd,
                 threads, sent, got, stalled>>

\* The call looks at the return code and leaves.  The session handle is freed when the
\* session is gone, or when it was closed.
HandleDies == \/ op.rc = "INVALID_SESSION_HANDLE"
              \/ op.call = "close" /\ op.rc = "SUCCESS"
\* Mutant: the listener thread is not forgotten.
FinishCall_KeepsThread ==
  /\ op.rc \in {"SUCCESS", "INVALID_SESSION_HANDLE", "INTERNAL_ERROR"}
  /\ op' = Idle
  /\ valid' = IF HandleDies THEN [valid EXCEPT ![op.s] = FALSE] ELSE valid
  /\ UNCHANGED <<needToEnd, created, clFd, evt>>
  /\ UNCHANGED <<service, listener, conn, bytes, made, threads, history>>
FinishCall ==
  /\ op.rc \in {"SUCCESS", "INVALID_SESSION_HANDLE", "INTERNAL_ERROR"}
  /\ op' = Idle
  /\ valid' = IF HandleDies THEN [valid EXCEPT ![op.s] = FALSE] ELSE valid
  /\ IF op.call = "register" /\ op.rc # "SUCCESS" THEN closeSessionEventThread(op.s)
     ELSE UNCHANGED <<needToEnd, created, clFd, evt>>
  /\ UNCHANGED <<service, listener, conn, bytes, made, threads, history>>

-----------------------------------------------------------------------------
(* eventListenerThread of the library, one per registration.               *)
Goto(t, l) == tpc' = [tpc EXCEPT ![t] = l]

\* The thread takes the JhiEvent and the flag from the session handle.  By then the
\* registration may be closed (eventHandle is NULL; the handle itself may be freed), or
\* replaced by the next one.
ThreadStart(t) ==
  LET r == evt[t[1]]
  IN /\ tpc[t] = "start"
     /\ on' = [on EXCEPT ![t] = r]
     /\ Goto(t, IF r = None THEN "done" ELSE "listen")
     /\ UNCHANGED <<service, listener, conn, bytes, library, held, history>>

\* The way out of eventListenerThread: the flag and the JhiEvent are freed, whose
\* destructor closes its socket.
Finish(t) == /\ Goto(t, "done")
             /\ created' = [created EXCEPT ![on[t]] = FALSE]
             /\ clFd' = [clFd EXCEPT ![on[t]] = FALSE]

\* listenCl refuses a closed event, or one whose socket is already accepted.
ListenCl(t) ==
  /\ tpc[t] = "listen"
  /\ IF created[on[t]] /\ ~clFd[on[t]] THEN Goto(t, "accept") /\ UNCHANGED <<created, clFd>>
     ELSE Finish(t)
  /\ UNCHANGED <<service, listener, conn, bytes, op, valid, evt, made, needToEnd, on, held, history>>

\* accept returns once the service has connected.
Accept(t) ==
  /\ tpc[t] = "accept" /\ conn[on[t]] # "none"
  /\ clFd' = [clFd EXCEPT ![on[t]] = TRUE]
  /\ Goto(t, "loop")
  /\ UNCHANGED <<service, listener, conn, bytes, op, valid, evt, made, created, needToEnd, on, held, history>>

\* The loop of the thread, and JhiEvent::wait up to recv; wait fails on a closed event.
ThreadLoop(t) ==
  /\ tpc[t] = "loop"
  /\ \/ /\ needToEnd[on[t]]
        /\ Finish(t)
     \/ /\ ~needToEnd[on[t]] /\ created[on[t]] /\ clFd[on[t]]
        /\ Goto(t, "recv") /\ UNCHANGED <<created, clFd>>
  /\ UNCHANGED <<service, listener, conn, bytes, op, valid, evt, made, needToEnd, on, held, history>>

\* recv returns a byte, or end of file.  Closing the socket in another thread does not
\* wake it.
Recv(t) ==
  LET r == on[t]
  IN /\ tpc[t] = "recv"
     /\ \/ /\ bytes[r] > 0
           /\ bytes' = [bytes EXCEPT ![r] = @ - 1]
           /\ Goto(t, IF created[r] THEN "retrieve" ELSE "loop")
           /\ stalled' = [stalled EXCEPT ![t] = @ /\ ~created[r]]
        \/ /\ bytes[r] = 0 /\ conn[r] = "eof"
           /\ Goto(t, "loop") /\ UNCHANGED <<bytes, stalled>>
     /\ UNCHANGED <<service, listener, conn, library, on, held, sent, got, missed, faults>>

\* retriveEventData: a request for an event unless the thread has to end.
Retrieve(t) ==
  /\ tpc[t] = "retrieve"
  /\ Goto(t, IF needToEnd[on[t]] THEN "loop" ELSE "fetch")
  /\ UNCHANGED <<service, listener, conn, bytes, library, on, held, history>>

\* The service answers it (getSessionEventData): the first event of the queue, or that there
\* is none, which also a session that is gone or not registered comes to.
HasData(s) == Registered(s) /\ queue[s] # <<>>
Popped(s) == [queue EXCEPT ![s] = Tail(@)]
\* Mutant: the event is read and not removed.
Fetch_NoPop(t) ==
  /\ tpc[t] = "fetch" /\ Len(got[t]) < MaxEvents
  /\ IF HasData(t[1])
     THEN held' = [held EXCEPT ![t] = Head(queue[t[1]])] /\ Goto(t, "callback")
     ELSE Goto(t, "loop") /\ UNCHANGED held
  /\ UNCHANGED <<service, listener, conn, bytes, library, on, history>>
Fetch(t) ==
  /\ tpc[t] = "fetch"
  /\ IF HasData(t[1])
     THEN /\ queue' = Popped(t[1])
          /\ held' = [held EXCEPT ![t] = Head(queue[t[1]])]
          /\ Goto(t, "callback")
     ELSE Goto(t, "loop") /\ UNCHANGED <<queue, held>>
  /\ UNCHANGED <<present, handle, free, heap, listener, conn, bytes, library, on, history>>

\* The request fails: the service was not reached, or it had removed the event when an
\* allocation or the answer failed.  The thread goes back to wait for the next signal.
FailFetch(t) ==
  /\ tpc[t] = "fetch" /\ faults < MaxFaults
  /\ faults' = faults + 1
  /\ queue' \in {queue} \cup (IF HasData(t[1]) THEN {Popped(t[1])} ELSE {})
  /\ stalled' = [stalled EXCEPT ![t] = TRUE]
  /\ Goto(t, "loop")
  /\ UNCHANGED <<present, handle, free, heap, listener, conn, bytes, library, on, held, sent, got, missed>>

\* The callback of the application, which returns, and the next round.
Callback(t) ==
  /\ tpc[t] = "callback"
  /\ got' = [got EXCEPT ![t] = Append(@, held[t])]
  /\ held' = [held EXCEPT ![t] = 0]
  /\ Goto(t, "retrieve")
  /\ UNCHANGED <<service, listener, conn, bytes, library, on, sent, stalled, missed, faults>>

-----------------------------------------------------------------------------
ListenerStep == getEventHandle \/ enqueueEventData \/ SignalEvent
ServeRequest == LookUpSession \/ SetSessionEventHandler \/ ServeClose
CallStep == ServeRequest \/ FinishCall
ThreadStep(t) == \/ ThreadStart(t) \/ ListenCl(t) \/ Accept(t) \/ ThreadLoop(t)
                 \/ Recv(t) \/ Retrieve(t) \/ Fetch(t) \/ Callback(t)
Next == \/ ListenerStep \/ CallStep \/ SpoolerRefuses \/ resetSessionManager \/ FailRequest
        \/ \E s \in Sessions : \/ SpoolerEvent(s) \/ SessionEnds(s)
                               \/ RegisterBegin(s) \/ UnregisterBegin(s) \/ CloseBegin(s)
        \/ \E t \in Regs : ThreadStep(t) \/ FailFetch(t)

Spec == Init /\ [][Next]_vars

\* The threads of the service and of the library are scheduled, the service answers a
\* request, and the callback returns.  Neither the applets, nor the application, nor a failure
\* is bound to happen.  (Each of these steps changes the variable in the subscript.)
LiveSpec == /\ Spec /\ WF_lpc(ListenerStep) /\ WF_op(CallStep)
            /\ \A t \in Regs : WF_tpc(ThreadStep(t))

-----------------------------------------------------------------------------
(* What holds.                                                             *)
ClientRegistered(s) == valid[s] /\ HasEvent(s)

Fetching == {"retrieve", "fetch", "callback"}

\* While a session is registered for the first time and has events queued, its client is
\* about to be told, or its thread is fetching them, or is to end, or gave up because its
\* last request failed: no order of the listener's three steps, the thread's recv and its
\* last, empty request loses the wake-up.  (A failed request does lose it: the events wait
\* for the signal of a later one.)  A second registration may lose it too: an event queued
\* for the first one, but after it was unregistered or when unregistering failed, stays in
\* the queue, and its signal goes to the first one.
NoLostWakeup ==
  \A s \in Sessions : made[s] = 1 /\ Registered(s) /\ queue[s] # <<>> =>
    LET r == heap[handle[s]]
    IN \/ bytes[r] > 0 \/ needToEnd[r]
       \/ lpc = "signal" /\ ptr = handle[s]
       \/ \E t \in Regs : on[t] = r /\ (tpc[t] \in Fetching \/ stalled[t])

\* A thread calls back with the events of its session in the order in which the applet emitted
\* them, and no event is called back twice, by whichever threads: the fetch of one thread, the
\* enqueueing of the listener and the fetch of another that was not joined interleave, and
\* events are dropped at a full queue, by unregistering and by a failed fetch.
InOrder ==
  \A t \in Regs :
    /\ \A i, j \in DOMAIN got[t] : i < j => got[t][i] < got[t][j]
    /\ \A u \in Regs \ {t} : t[1] = u[1] =>
          \A i \in DOMAIN got[t], j \in DOMAIN got[u] : got[t][i] # got[u][j]

\* Between calls, a session that its client holds for registered is registered at the
\* service, to the socket of this very registration, for as long as the service knows it.
RegistrationsAgree ==
  \A s \in Sessions : ClientRegistered(s) /\ op.s # s /\ present[s] =>
    Registered(s) /\ heap[handle[s]] = evt[s]

\* An event that is queued reaches the callback, unless the session or its registration ends,
\* the session is registered again (two threads may then work on the new registration, and
\* the first to end closes its socket), or the fetch failed: then the event was lost with it,
\* or waits until a later one is signalled.
Queued(s, n) == \E i \in DOMAIN queue[s] : queue[s][i] = n
GaveUp(s, n) ==
  \E t \in Regs : t[1] = s /\ stalled[t] /\ (~Queued(s, n) \/ (lpc = "wait" /\ bytes[on[t]] = 0))
EventsDelivered ==
  \A s \in Sessions : \A n \in 1..MaxEvents :
    (made[s] = 1 /\ Registered(s) /\ Queued(s, n))
       ~> \/ \E t \in Regs : t[1] = s /\ \E i \in DOMAIN got[t] : got[t][i] = n
          \/ ~Registered(s) \/ ~ClientRegistered(s) \/ made[s] > 1
          \/ GaveUp(s, n)

\* A thread whose registration is closed ends once the service has connected to it: the
\* service closes its end when it unregisters, removes or replaces the handle, and this is
\* what wakes the thread out of recv.  A reset leaves the handles open and a call that
\* fails does not reach them, so neither may have happened; nor may the session have been
\* registered again, as a thread that starts late then waits for the new registration.
ConnectedThreadEnds ==
  \A s \in Sessions :
    LET r == <<s, 1>>
    IN []<>(needToEnd[r] /\ conn[r] # "none" /\ made[s] = 1 /\ ~missed => tpc[r] = "done")
=============================================================================
