---------------------------- MODULE Events_proofs ----------------------------
(***************************************************************************)
(* Session events for any number of sessions, registrations, events and    *)
(* faults.  EventsInv, the inductive invariant, says which objects the     *)
(* service's event handles are (HeapInv), what the call that holds         *)
(* appHandleLock has left behind (CallInv), in which order the events lie  *)
(* between the applet and the callback (OrderInv), and what the first      *)
(* registration of a session has to itself (FirstInv).                     *)
(***************************************************************************)
EXTENDS Events, TLAPS

Calls == [call : {"none", "register", "unregister", "close"}, s : Sessions \cup {None},
          rc : {"none", "pending", "found", "SUCCESS", "INVALID_SESSION_HANDLE", "INTERNAL_ERROR"}]
ServiceType == /\ present \in [Sessions -> BOOLEAN]
               /\ handle \in [Sessions -> Addrs \cup {None}]
               /\ free \subseteq Addrs
               /\ heap \in [Addrs -> Regs \cup {None}]
               /\ lpc \in {"wait", "look", "enqueue", "signal"} /\ target \in Sessions
               /\ ptr \in Addrs \cup {None} /\ (lpc \in {"enqueue", "signal"} => ptr \in Addrs)
               /\ conn \in [Regs -> {"none", "up", "eof"}] /\ bytes \in [Regs -> Nat]
LibraryType == /\ op \in Calls /\ valid \in [Sessions -> BOOLEAN]
               /\ evt \in [Sessions -> Regs \cup {None}] /\ made \in [Sessions -> 0..MaxRegs]
               /\ created \in [Regs -> BOOLEAN] /\ clFd \in [Regs -> BOOLEAN]
               /\ needToEnd \in [Regs -> BOOLEAN]
               /\ tpc \in [Regs -> {"none", "start", "listen", "accept", "loop", "recv", "retrieve", "fetch", "callback", "done"}]
               /\ on \in [Regs -> Regs \cup {None}]
               /\ \A t \in Regs : tpc[t] \in {"listen", "accept", "loop", "recv", "retrieve", "fetch", "callback"} => on[t] \in Regs
QueueType == /\ queue \in [Sessions -> Seq(Nat)] /\ sent \in [Sessions -> Nat]
             /\ got \in [Regs -> Seq(Nat)] /\ held \in [Regs -> Nat]
TypeOK == ServiceType /\ LibraryType /\ stalled \in [Regs -> BOOLEAN]

Registering(s) == op.call = "register" /\ op.s = s /\ op.rc \in {"pending", "found"}

\* A handle belongs to one session, is not free, and is connected to a registration of this
\* session; a registration is connected to once, after its call has begun.
HeapInv ==
    /\ \A s \in Sessions : handle[s] # None =>
          /\ handle[s] \notin free
          /\ heap[handle[s]] # None => heap[handle[s]][1] = s /\ conn[heap[handle[s]]] = "up"
          /\ \A u \in Sessions : handle[u] = handle[s] => u = s
    /\ \A a \in free : heap[a] = None
    /\ \A a, b \in Addrs : heap[a] # None /\ heap[a] = heap[b] => a = b
    /\ \A a \in Addrs : heap[a] # None => heap[a][2] <= made[heap[a][1]]
    /\ \A s \in Sessions : Registering(s) => \A a \in Addrs : heap[a] # <<s, made[s]>>

\* The call in progress.
CallInv ==
    /\ op.rc = "none" <=> op = Idle
    /\ op # Idle => op.call # "none" /\ op.s \in Sessions
    /\ op.rc = "found" => op.call \in {"register", "unregister"}
    /\ \A s \in Sessions : evt[s] # None => evt[s][1] = s /\ evt[s][2] <= made[s]
    /\ op # Idle /\ op.call # "register" => ~HasEvent(op.s)
    /\ \A s \in Sessions : Registering(s) => evt[s] = <<s, made[s]>> /\ made[s] > 0
    /\ op.call = "register" /\ op.rc = "SUCCESS" /\ present[op.s] =>
          Registered(op.s) /\ heap[handle[op.s]] = evt[op.s]
    /\ RegistrationsAgree

\* Events have been taken from the queue, are queued, and are on their way, in this order.
\* What a thread has taken it has called back with or is about to, and no other thread has.
Increasing(q) == \A i, j \in 1..Len(q) : i < j => q[i] < q[j]
Before(q, n) == \A i \in 1..Len(q) : q[i] < n
Within(p, q) == Increasing(p) /\ \A j \in 1..Len(p) : \E i \in 1..Len(q) : p[j] = q[i]
Taken(t, n) == \/ \E i \in 1..Len(got[t]) : got[t][i] = n
               \/ tpc[t] = "callback" /\ held[t] = n
OrderAt(s) == Increasing(queue[s]) /\ Before(queue[s], sent[s] + 1)
ThreadOrder(t) ==
    /\ Increasing(got[t]) /\ (tpc[t] = "callback" => Before(got[t], held[t]))
    /\ \A n \in Nat : Taken(t, n) => n < sent[t[1]] + 1 /\ \A j \in 1..Len(queue[t[1]]) : n < queue[t[1]][j]
Apart == \A t, u \in Regs : t # u /\ t[1] = u[1] => \A n \in Nat : ~(Taken(t, n) /\ Taken(u, n))
EventInOrder == /\ lpc = "enqueue" => event # None
                /\ lpc \in {"look", "enqueue"} /\ event # None =>
                      /\ event = sent[target] /\ Before(queue[target], event)
                      /\ \A t \in Regs, n \in Nat : t[1] = target /\ Taken(t, n) => n < event
OrderInv == /\ EventInOrder /\ Apart
            /\ (\A s \in Sessions : OrderAt(s)) /\ (\A t \in Regs : ThreadOrder(t))

\* A thread works on its registration or on a later one of the session.
ThreadsInv == \A t \in Regs : /\ tpc[t] # "none" => t[2] <= made[t[1]]
                              /\ stalled[t] => on[t] # None /\ tpc[t] \notin {"none", "start"}
                              /\ on[t] # None => on[t][1] = t[1] /\ on[t][2] <= made[t[1]]

\* Before a session is registered for the first time nothing is queued for it and no event of
\* it is past getEventHandle; until it is registered again the listener has its handle,
\* and no queued event waits for a signal that is not to come.
Unmet(s) == ~Registered(s) /\ queue[s] = <<>> /\ (target = s => lpc \notin {"enqueue", "signal"})
Awake(s) == \/ bytes[<<s, 1>>] > 0 \/ needToEnd[<<s, 1>>]
            \/ lpc = "signal" /\ ptr = handle[s]
            \/ tpc[<<s, 1>>] \in Fetching \/ stalled[<<s, 1>>]
FirstAt(s) ==
    /\ made[s] = 0 \/ (made[s] = 1 /\ Registering(s)) => Unmet(s)
    /\ made[s] = 1 =>
          /\ Registered(s) /\ target = s /\ lpc \in {"enqueue", "signal"} => ptr = handle[s]
          /\ tpc[<<s, 1>>] = "recv" => created[<<s, 1>>] \/ needToEnd[<<s, 1>>]
          /\ Registered(s) /\ queue[s] # <<>> => Awake(s)
FirstInv == ThreadsInv /\ \A s \in Sessions : FirstAt(s)

FlowInv == QueueType /\ OrderInv
EventsInv == TypeOK /\ FlowInv /\ HeapInv /\ CallInv /\ FirstInv

-----------------------------------------------------------------------------
(* Types *)
\* A registration is a pair of a session and a number.
LEMMA RegPair ==
    /\ \A s \in Sessions, n \in 1..MaxRegs : <<s, n>> \in Regs /\ <<s, n>>[1] = s /\ <<s, n>>[2] = n
    /\ \A r \in Regs : r[1] \in Sessions /\ r[2] \in 1..MaxRegs /\ r = <<r[1], r[2]>>
    /\ None \notin Regs /\ None \notin Sessions /\ None \notin Addrs
  BY EventsAssumption DEF Regs

LEMMA InitType == Init => TypeOK /\ QueueType
  BY EventsAssumption, RegPair DEF Init, TypeOK, ServiceType, LibraryType, QueueType, Calls, Idle

\* What the destructor of a JhiEvent of the service does to the connections and the heap.
LEMMA CloseEffect ==
    ASSUME ServiceType, NEW a \in Addrs \cup {None}
    PROVE  /\ Closed(a) \in [Regs -> {"none", "up", "eof"}] /\ Freed(a) \in [Addrs -> Regs \cup {None}]
           /\ \A r \in Regs : Closed(a)[r] = IF a # None /\ heap[a] = r THEN "eof" ELSE conn[r]
           /\ \A b \in Addrs : Freed(a)[b] = IF b = a THEN None ELSE heap[b]
<1>1. CASE a = None
  BY <1>1, RegPair DEF ServiceType, Closed, Freed
<1>2. CASE a # None
  BY <1>2, RegPair DEF ServiceType, Closed, Freed
<1> QED
  BY <1>1, <1>2, Zenon

\* A session gets another JhiEvent, connected to r if r is a registration.
LEMMA SetEffect ==
    ASSUME ServiceType, NEW s \in Sessions, NEW r \in Regs \cup {None}, setEventHandle(s, r)
    PROVE  \E a \in free :
             /\ handle' \in [Sessions -> Addrs \cup {None}] /\ heap' \in [Addrs -> Regs \cup {None}]
             /\ conn' \in [Regs -> {"none", "up", "eof"}] /\ free' \subseteq Addrs
             /\ handle'[s] = a /\ \A u \in Sessions \ {s} : handle'[u] = handle[u]
             /\ \A b \in Addrs : heap'[b] = IF b = a THEN r ELSE IF b = handle[s] THEN None ELSE heap[b]
             /\ free' = (free \ {a}) \cup ({handle[s]} \ {None})
             /\ \A q \in Regs : conn'[q] = IF q = r THEN "up"
                                           ELSE IF handle[s] # None /\ heap[handle[s]] = q THEN "eof" ELSE conn[q]
<1>1. PICK a \in free :
        /\ handle' = [handle EXCEPT ![s] = a] /\ heap' = [Freed(handle[s]) EXCEPT ![a] = r]
        /\ free' = (free \ {a}) \cup ({handle[s]} \ {None})
        /\ conn' = IF r = None THEN Closed(handle[s]) ELSE [Closed(handle[s]) EXCEPT ![r] = "up"]
  BY Zenon DEF setEventHandle
<1>2. a \in Addrs /\ handle[s] \in Addrs \cup {None} /\ handle \in [Sessions -> Addrs \cup {None}] /\ free \subseteq Addrs
  BY Zenon DEF ServiceType
<1>3. /\ Closed(handle[s]) \in [Regs -> {"none", "up", "eof"}] /\ Freed(handle[s]) \in [Addrs -> Regs \cup {None}]
      /\ \A q \in Regs : Closed(handle[s])[q] = IF handle[s] # None /\ heap[handle[s]] = q THEN "eof" ELSE conn[q]
      /\ \A b \in Addrs : Freed(handle[s])[b] = IF b = handle[s] THEN None ELSE heap[b]
  BY <1>2, CloseEffect, Zenon
<1>4. /\ conn' \in [Regs -> {"none", "up", "eof"}]
      /\ \A q \in Regs : conn'[q] = IF q = r THEN "up" ELSE Closed(handle[s])[q]
  BY <1>1, <1>3, RegPair
<1>5. /\ heap' \in [Addrs -> Regs \cup {None}]
      /\ \A b \in Addrs : heap'[b] = IF b = a THEN r ELSE Freed(handle[s])[b]
  BY <1>1, <1>2, <1>3, Zenon
<1>6. /\ handle' \in [Sessions -> Addrs \cup {None}] /\ free' \subseteq Addrs
      /\ handle'[s] = a /\ \A u \in Sessions \ {s} : handle'[u] = handle[u]
  BY <1>1, <1>2, Zenon
<1> QED
  BY <1>1, <1>3, <1>4, <1>5, <1>6

\* The new JhiEvent is the registration's, the session's old one is deallocated.
LEMMA SetHandle ==
    ASSUME ServiceType, NEW s \in Sessions, NEW r \in Regs \cup {None}, setEventHandle(s, r)
    PROVE  /\ handle'[s] \in free /\ handle'[s] \in Addrs /\ heap'[handle'[s]] = r
           /\ \A u \in Sessions \ {s} : handle'[u] = handle[u]
           /\ \A b \in Addrs \ {handle'[s]} : heap'[b] \in {None, heap[b]}
<1>1. PICK a \in free :
        /\ handle'[s] = a /\ \A u \in Sessions \ {s} : handle'[u] = handle[u]
        /\ \A b \in Addrs : heap'[b] = IF b = a THEN r ELSE IF b = handle[s] THEN None ELSE heap[b]
  BY SetEffect
<1>2. a \in Addrs
  BY Zenon DEF ServiceType
<1> QED
  BY <1>1, <1>2, Zenon

LEMMA RemoveEffect ==
    ASSUME ServiceType, NEW s \in Sessions, remove(s)
    PROVE  /\ present' \in [Sessions -> BOOLEAN] /\ handle' \in [Sessions -> Addrs \cup {None}]
           /\ heap' \in [Addrs -> Regs \cup {None}] /\ conn' \in [Regs -> {"none", "up", "eof"}]
           /\ free' = free \cup ({handle[s]} \ {None}) /\ free' \subseteq Addrs
           /\ present'[s] = FALSE /\ handle'[s] = None /\ queue' = [queue EXCEPT ![s] = <<>>]
           /\ \A u \in Sessions \ {s} : handle'[u] = handle[u] /\ present'[u] = present[u]
           /\ \A b \in Addrs : heap'[b] = IF b = handle[s] THEN None ELSE heap[b]
           /\ \A q \in Regs : conn'[q] = IF handle[s] # None /\ heap[handle[s]] = q THEN "eof" ELSE conn[q]
<1>1. handle[s] \in Addrs \cup {None}
  BY Zenon DEF ServiceType
<1> QED
  BY <1>1, CloseEffect DEF remove, ServiceType

\* The library forgets the event of session s, if it has one, and tells its thread to end.
LEMMA ForgetEffect ==
    ASSUME LibraryType, NEW s \in Sessions, closeSessionEventThread(s)
    PROVE  /\ evt' \in [Sessions -> Regs \cup {None}] /\ created' \in [Regs -> BOOLEAN]
           /\ clFd' \in [Regs -> BOOLEAN] /\ needToEnd' \in [Regs -> BOOLEAN]
           /\ evt'[s] \in {None, evt[s]} /\ ~HasEvent(s)'
           /\ \A u \in Sessions \ {s} : evt'[u] = evt[u]
           /\ \A q \in Regs : /\ created'[q] => created[q]
                              /\ needToEnd[q] => needToEnd'[q]
                              /\ created[q] => created'[q] \/ needToEnd'[q]
<1>1. CASE HasEvent(s)
  <2>1. PICK r \in Regs : r = evt[s] /\ created[r]
    BY <1>1, RegPair DEF LibraryType, HasEvent
  <2>2. /\ needToEnd' = [needToEnd EXCEPT ![r] = TRUE] /\ created' = [created EXCEPT ![r] = FALSE]
        /\ clFd' = [clFd EXCEPT ![r] = FALSE] /\ evt' = [evt EXCEPT ![s] = None]
    BY <1>1, <2>1, Zenon DEF closeSessionEventThread
  <2>3. evt' \in [Sessions -> Regs \cup {None}] /\ evt'[s] = None /\ \A u \in Sessions \ {s} : evt'[u] = evt[u]
    BY <2>2, Zenon DEF LibraryType
  <2>4. created' \in [Regs -> BOOLEAN] /\ clFd' \in [Regs -> BOOLEAN] /\ needToEnd' \in [Regs -> BOOLEAN]
    BY <2>2, Zenon DEF LibraryType
  <2>5. \A q \in Regs : q # r => created'[q] = created[q] /\ needToEnd'[q] = needToEnd[q]
    BY <2>2, Zenon DEF LibraryType
  <2>6. created'[r] = FALSE /\ needToEnd'[r] = TRUE
    BY <2>2, Zenon DEF LibraryType
  <2>7. \A q \in Regs : /\ created'[q] => created[q]
                        /\ needToEnd[q] => needToEnd'[q]
                        /\ created[q] => created'[q] \/ needToEnd'[q]
    BY <2>1, <2>5, <2>6, Zenon
  <2>8. ~HasEvent(s)'
    BY <2>3, Zenon DEF HasEvent
  <2> QED
    BY <2>3, <2>4, <2>7, <2>8, Zenon
<1>2. CASE ~HasEvent(s)
  BY <1>2, RegPair DEF LibraryType, HasEvent, closeSessionEventThread
<1> QED
  BY <1>1, <1>2, Zenon

\* A thread of the library moves; on its way out it frees its JhiEvent.
LEMMA MoveType ==
    ASSUME LibraryType, NEW t \in Regs, on[t] \in Regs,
           NEW l \in {"listen", "accept", "loop", "recv", "retrieve", "fetch", "callback", "done"}, Goto(t, l),
           UNCHANGED <<op, valid, evt, made, needToEnd, on>>,
           UNCHANGED created \/ \E q \in Regs : created' = [created EXCEPT ![q] = FALSE],
           UNCHANGED clFd \/ \E q \in Regs, b \in BOOLEAN : clFd' = [clFd EXCEPT ![q] = b]
    PROVE  LibraryType'
<1>1. created' \in [Regs -> BOOLEAN]
  <2>1. ASSUME NEW q \in Regs, created' = [created EXCEPT ![q] = FALSE] PROVE created' \in [Regs -> BOOLEAN]
    BY <2>1, Zenon DEF LibraryType
  <2> QED
    BY <2>1, Zenon DEF LibraryType
<1>3. clFd' \in [Regs -> BOOLEAN]
  <2>1. ASSUME NEW q \in Regs, NEW b \in BOOLEAN, clFd' = [clFd EXCEPT ![q] = b] PROVE clFd' \in [Regs -> BOOLEAN]
    BY <2>1, Zenon DEF LibraryType
  <2> QED
    BY <2>1, Zenon DEF LibraryType
<1>2. /\ tpc' \in [Regs -> {"none", "start", "listen", "accept", "loop", "recv", "retrieve", "fetch", "callback", "done"}]
      /\ \A q \in Regs : q # t => tpc'[q] = tpc[q]
  BY DEF LibraryType, Goto
<1> QED
  BY <1>1, <1>2, <1>3, Zenon DEF LibraryType

LEMMA TypeStep == ASSUME TypeOK, CallInv, [Next]_vars PROVE TypeOK'
<1> USE EventsAssumption, RegPair DEF TypeOK, Calls, Idle, service, listener, library, threads, history
<1>1. CASE getEventHandle
  BY <1>1 DEF getEventHandle, Registered, ServiceType, LibraryType
<1>2. CASE enqueueEventData
  BY <1>2, Zenon DEF enqueueEventData, ServiceType, LibraryType, Goto
<1>3. CASE SignalEvent
  BY <1>3 DEF SignalEvent, ServiceType, LibraryType, Goto
<1>4. CASE SpoolerRefuses
  BY <1>4, Zenon DEF SpoolerRefuses, ServiceType, LibraryType, Goto
<1>5. CASE resetSessionManager
  BY <1>5, Zenon DEF resetSessionManager, ServiceType, LibraryType, Goto
<1>6. ASSUME NEW s \in Sessions, SpoolerEvent(s) PROVE TypeOK'
  BY <1>6, Zenon DEF SpoolerEvent, ServiceType, LibraryType, Goto
<1>7. ASSUME NEW s \in Sessions, SessionEnds(s) PROVE TypeOK'
  BY <1>7, RemoveEffect, ZenonT(40) DEF SessionEnds, ServiceType, LibraryType
<1>8. ASSUME NEW s \in Sessions, RegisterBegin(s) PROVE TypeOK'
  <2> DEFINE r == <<s, made[s] + 1>>
  <2>1. r \in Regs /\ made[s] + 1 \in 0..MaxRegs
    BY <1>8 DEF RegisterBegin, LibraryType
  <2>2. op' \in Calls
    BY <1>8 DEF RegisterBegin, Begin
  <2> HIDE DEF r
  <2>3. /\ made' = [made EXCEPT ![s] = made[s] + 1] /\ evt' = [evt EXCEPT ![s] = r]
        /\ created' = [created EXCEPT ![r] = TRUE] /\ tpc' = [tpc EXCEPT ![r] = "start"]
        /\ UNCHANGED <<service, listener, conn, bytes, valid, clFd, needToEnd, on, history>>
    BY <1>8, Zenon DEF RegisterBegin, r
  <2>4. /\ made' \in [Sessions -> 0..MaxRegs] /\ evt' \in [Sessions -> Regs \cup {None}] /\ created' \in [Regs -> BOOLEAN]
        /\ tpc' \in [Regs -> {"none", "start", "listen", "accept", "loop", "recv", "retrieve", "fetch", "callback", "done"}]
    BY <2>1, <2>3, Zenon DEF LibraryType
  <2>5. \A t \in Regs : tpc'[t] = tpc[t] \/ tpc'[t] = "start"
    BY <2>1, <2>3 DEF LibraryType
  <2>6. \A t \in Regs : tpc'[t] \in {"listen", "accept", "loop", "recv", "retrieve", "fetch", "callback"} => on[t] \in Regs
    BY <2>5 DEF LibraryType
  <2> QED
    BY <2>2, <2>3, <2>4, <2>6, Zenon DEF ServiceType, LibraryType
<1>9. ASSUME NEW s \in Sessions, UnregisterBegin(s) PROVE TypeOK'
  BY <1>9, ForgetEffect, Zenon DEF UnregisterBegin, Begin, ServiceType, LibraryType
<1>10. ASSUME NEW s \in Sessions, CloseBegin(s) PROVE TypeOK'
  BY <1>10, ForgetEffect, Zenon DEF CloseBegin, Begin, ServiceType, LibraryType
<1>11. CASE ServeRequest
  <2>1. op.s \in Sessions /\ op' \in Calls
    BY <1>11 DEF ServeRequest, LookUpSession, SetSessionEventHandler, ServeClose, Answer, CallInv, LibraryType
  <2>0. UNCHANGED <<listener, bytes, stalled, valid, evt, made, created, clFd, needToEnd, tpc, on>>
    BY <1>11, Zenon DEF ServeRequest, LookUpSession, SetSessionEventHandler, ServeClose
  <2>2. LibraryType' /\ UNCHANGED <<listener, bytes, stalled>>
    BY <2>0, <2>1, Zenon DEF LibraryType
  <2>3. CASE UNCHANGED <<service, conn>>
    BY <2>2, <2>3, Zenon DEF ServiceType
  <2>4. ASSUME NEW r \in Regs \cup {None}, setEventHandle(op.s, r) PROVE ServiceType'
    <3>1. UNCHANGED <<present, listener, bytes>>
      BY <2>2, <2>4, Zenon DEF setEventHandle
    <3>2. /\ handle' \in [Sessions -> Addrs \cup {None}] /\ heap' \in [Addrs -> Regs \cup {None}]
          /\ conn' \in [Regs -> {"none", "up", "eof"}] /\ free' \subseteq Addrs
      BY <2>1, <2>4, SetEffect, Zenon
    <3> QED
      BY <3>1, <3>2, Zenon DEF ServiceType
  <2>5. CASE remove(op.s)
    BY <2>1, <2>2, <2>5, RemoveEffect, Zenon DEF ServiceType
  <2>6. CASE UNCHANGED service /\ conn' = [conn EXCEPT ![evt[op.s]] = "eof"]
    <3>1. conn' \in [Regs -> {"none", "up", "eof"}]
      BY <2>6, Zenon DEF ServiceType
    <3> QED
      BY <2>2, <2>6, <3>1, Zenon DEF ServiceType
  <2> QED
    BY <1>11, <2>1, <2>2, <2>3, <2>4, <2>5, <2>6, Zenon
       DEF ServeRequest, LookUpSession, SetSessionEventHandler, ServeClose, LibraryType
<1>12. CASE FailRequest
  BY <1>12, Zenon DEF FailRequest, ServiceType, LibraryType, Goto, Answer, CallInv
<1>13. CASE FinishCall
  <2>1. op.s \in Sessions
    BY <1>13, Zenon DEF FinishCall, CallInv, LibraryType
  <2>2. valid' \in [Sessions -> BOOLEAN]
    BY <1>13, <2>1, Zenon DEF FinishCall, LibraryType
  <2>3. CASE closeSessionEventThread(op.s)
    BY <1>13, <2>1, <2>2, <2>3, ForgetEffect, Zenon DEF FinishCall, ServiceType, LibraryType
  <2>4. CASE UNCHANGED <<needToEnd, created, clFd, evt>>
    BY <1>13, <2>2, <2>4, Zenon DEF FinishCall, ServiceType, LibraryType
  <2> QED
    BY <1>13, <2>3, <2>4, Zenon DEF FinishCall
<1>14. ASSUME NEW t \in Regs, ThreadStart(t) PROVE TypeOK'
  BY <1>14 DEF ThreadStart, ServiceType, LibraryType, Goto
<1>15. ASSUME NEW t \in Regs, ListenCl(t) PROVE TypeOK'
  <2>1. on[t] \in Regs
    BY <1>15, Zenon DEF ListenCl, LibraryType
  <2>2. LibraryType'
    BY <1>15, <2>1, MoveType, Zenon DEF ListenCl, Finish
  <2> QED
    BY <1>15, <2>2, Zenon DEF ListenCl, ServiceType
<1>16. ASSUME NEW t \in Regs, Accept(t) PROVE TypeOK'
  BY <1>16 DEF Accept, ServiceType, LibraryType, Goto
<1>17. ASSUME NEW t \in Regs, ThreadLoop(t) PROVE TypeOK'
  <2>1. on[t] \in Regs
    BY <1>17, Zenon DEF ThreadLoop, LibraryType
  <2>2. LibraryType'
    BY <1>17, <2>1, MoveType, Zenon DEF ThreadLoop, Finish
  <2> QED
    BY <1>17, <2>2, Zenon DEF ThreadLoop, ServiceType
<1>18. ASSUME NEW t \in Regs, Recv(t) PROVE TypeOK'
  <2>1. on[t] \in Regs
    BY <1>18, Zenon DEF Recv, LibraryType
  <2>2. LibraryType'
    BY <1>18, <2>1, MoveType, Zenon DEF Recv
  <2>3. bytes' \in [Regs -> Nat]
    <3>1. bytes \in [Regs -> Nat] /\ bytes[on[t]] \in Nat
      BY <2>1, Zenon DEF ServiceType
    <3> QED
      BY <1>18, <2>1, <3>1 DEF Recv
  <2>4. stalled' \in [Regs -> BOOLEAN]
    BY <1>18, Zenon DEF Recv
  <2> QED
    BY <1>18, <2>2, <2>3, <2>4, Zenon DEF Recv, ServiceType
<1>19. ASSUME NEW t \in Regs, Retrieve(t) \/ Fetch(t) \/ Callback(t) \/ FailFetch(t) PROVE TypeOK'
  <2>1. on[t] \in Regs /\ stalled' \in [Regs -> BOOLEAN]
    <3>1. tpc[t] \in {"retrieve", "fetch", "callback"}
      BY <1>19, Zenon DEF Retrieve, Fetch, Callback, FailFetch
    <3>2. UNCHANGED stalled \/ stalled' = [stalled EXCEPT ![t] = TRUE]
      BY <1>19, Zenon DEF Retrieve, Fetch, Callback, FailFetch
    <3>3. on[t] \in Regs
      BY <3>1 DEF LibraryType
    <3> QED
      BY <3>2, <3>3, Zenon
  <2>2. LibraryType'
    BY <1>19, <2>1, MoveType, Zenon DEF Retrieve, Fetch, Callback, FailFetch
  <2>3. UNCHANGED <<present, handle, free, heap, listener, conn, bytes>>
    BY <1>19, Zenon DEF Retrieve, Fetch, Callback, FailFetch
  <2> QED
    BY <2>1, <2>2, <2>3, Zenon DEF ServiceType
<1>20. CASE UNCHANGED vars
  BY <1>20, Zenon DEF vars, ServiceType, LibraryType
<1> QED
  BY <1>1, <1>2, <1>3, <1>4, <1>5, <1>6, <1>7, <1>8, <1>9, <1>10, <1>11, <1>12, <1>13, <1>14, <1>15, <1>16, <1>17, <1>18, <1>19, <1>20, Zenon
     DEF Next, ListenerStep, CallStep, ThreadStep

-----------------------------------------------------------------------------
(* The order of the events *)
LEMMA AppendInOrder ==
    ASSUME NEW q \in Seq(Nat), NEW n \in Nat, Increasing(q), Before(q, n)
    PROVE  /\ Append(q, n) \in Seq(Nat) /\ Len(Append(q, n)) = Len(q) + 1 /\ Increasing(Append(q, n))
           /\ \A m \in Nat : n < m => Before(Append(q, n), m)
           /\ \A i \in 1..Len(Append(q, n)) : Append(q, n)[i] = n \/ \E j \in 1..Len(q) : Append(q, n)[i] = q[j]
<1>1. /\ Append(q, n) \in Seq(Nat) /\ Len(Append(q, n)) = Len(q) + 1 /\ Len(q) \in Nat
      /\ Append(q, n)[Len(q) + 1] = n /\ \A i \in 1..Len(q) : Append(q, n)[i] = q[i] /\ q[i] \in Nat
  OBVIOUS
<1> DEFINE p == Append(q, n)
           k == Len(q)
<1> HIDE DEF p, k
<1> QED
  BY <1>1 DEF p, k, Increasing, Before

LEMMA TailInOrder ==
    ASSUME NEW q \in Seq(Nat), q # <<>>, Increasing(q)
    PROVE  /\ Tail(q) \in Seq(Nat) /\ Len(Tail(q)) = Len(q) - 1 /\ Len(q) \in Nat \ {0} /\ Head(q) \in Nat
           /\ Head(q) = q[1] /\ Increasing(Tail(q))
           /\ \A j \in 1..Len(Tail(q)) : Head(q) < Tail(q)[j] /\ \E i \in 1..Len(q) : Tail(q)[j] = q[i]
<1>1. /\ Tail(q) \in Seq(Nat) /\ Len(Tail(q)) = Len(q) - 1 /\ Len(q) \in Nat \ {0} /\ Head(q) = q[1]
      /\ \A j \in 1..Len(q) : q[j] \in Nat
  OBVIOUS
<1>2. \A j \in 1..Len(Tail(q)) : Tail(q)[j] = q[j + 1] /\ j + 1 \in 1..Len(q)
  BY <1>1
<1> DEFINE p == Tail(q)
           k == Len(q)
<1> HIDE DEF p, k
<1> QED
  BY <1>1, <1>2 DEF p, k, Increasing

LEMMA EmptyInOrder == /\ <<>> \in Seq(Nat) /\ Len(<<>>) = 0 /\ Increasing(<<>>)
                      /\ \A n : Before(<<>>, n)
                      /\ \A q : Within(<<>>, q)
  BY DEF Increasing, Before, Within

LEMMA QueueWithin ==
    ASSUME NEW q, Increasing(q)
    PROVE  Within(q, q)
  BY Zenon DEF Within

LEMMA InitFlow == Init => FlowInv
<1> SUFFICES ASSUME Init PROVE FlowInv
  BY Zenon
<1>1. /\ QueueType /\ lpc = "wait" /\ \A s \in Sessions : queue[s] = <<>>
      /\ \A t \in Regs : got[t] = <<>> /\ tpc[t] = "none"
  BY InitType, Zenon DEF Init
<1>2. \A t \in Regs, n \in Nat : ~Taken(t, n)
  <2>1. \A i \in 1..Len(<<>>) : FALSE
    OBVIOUS
  <2> QED
    BY <1>1, <2>1, Zenon DEF Taken
<1>3. \A s \in Sessions : OrderAt(s)
  BY <1>1, EmptyInOrder, Zenon DEF OrderAt
<1>4. \A t \in Regs : ThreadOrder(t)
  BY <1>1, <1>2, EmptyInOrder, Zenon DEF ThreadOrder
<1> QED
  BY <1>1, <1>2, <1>3, <1>4, Zenon DEF FlowInv, OrderInv, EventInOrder, Apart

\* Queues may lose events, threads may leave off, and the listener may go on.
LEMMA FlowShrinks ==
    ASSUME FlowInv, UNCHANGED <<got, held, sent>>, queue' \in [Sessions -> Seq(Nat)],
           \A t \in Regs : tpc'[t] = "callback" => tpc[t] = "callback",
           \A s \in Sessions : Within(queue'[s], queue[s]), target \in Sessions,
           \/ UNCHANGED <<target, event>> /\ lpc' \in {lpc, "wait", "signal"}
           \/ UNCHANGED <<target, event>> /\ lpc = "look" /\ event # None
           \/ lpc' = "look" /\ event' = None
    PROVE  FlowInv'
<1>1. \A t \in Regs, n \in Nat : Taken(t, n)' => Taken(t, n)
  BY Zenon DEF Taken
<1>2. QueueType'
  BY Zenon DEF FlowInv, QueueType
<1>3. ASSUME NEW s \in Sessions, NEW n, Before(queue[s], n) PROVE Before(queue'[s], n)
  BY <1>3, Zenon DEF Before, Within
<1>4. \A s \in Sessions : OrderAt(s)'
  BY <1>3, Zenon DEF FlowInv, OrderInv, OrderAt, Within
<1>5. ASSUME NEW t \in Regs PROVE ThreadOrder(t)'
  <2>1. ThreadOrder(t) /\ t[1] \in Sessions
    BY RegPair, Zenon DEF FlowInv, OrderInv
  <2>2. ASSUME NEW n \in Nat, Taken(t, n)', NEW j \in 1..Len(queue'[t[1]]) PROVE n < queue'[t[1]][j]
    BY <1>1, <2>1, <2>2, Zenon DEF ThreadOrder, Within
  <2> QED
    BY <1>1, <2>1, <2>2, Zenon DEF ThreadOrder
<1>6. Apart'
  BY <1>1, Zenon DEF FlowInv, OrderInv, Apart
<1>7. EventInOrder'
  BY <1>1, <1>3, Zenon DEF FlowInv, OrderInv, EventInOrder
<1> QED
  BY <1>2, <1>4, <1>5, <1>6, <1>7, Zenon DEF FlowInv, OrderInv

LEMMA FlowSpoolerEvent == ASSUME FlowInv, NEW s \in Sessions, SpoolerEvent(s) PROVE FlowInv'
<1>1. /\ UNCHANGED <<queue, got, held, tpc>> /\ sent' = [sent EXCEPT ![s] = @ + 1]
      /\ lpc' = "look" /\ target' = s /\ event' = sent'[s]
  BY Zenon DEF SpoolerEvent, service, threads
<1>2. /\ sent' \in [Sessions -> Nat] /\ sent[s] \in Nat /\ sent'[s] = sent[s] + 1
      /\ \A u \in Sessions : sent[u] \in Nat /\ (u # s => sent'[u] = sent[u])
  BY <1>1 DEF FlowInv, QueueType
<1>3. \A t \in Regs, n \in Nat : Taken(t, n)' <=> Taken(t, n)
  BY <1>1, Zenon DEF Taken
<1>4. \A u \in Sessions, n \in Nat : n < sent[u] + 1 => n < sent'[u] + 1
  BY <1>2
<1>5. \A u \in Sessions : Before(queue[u], sent[u] + 1) => Before(queue[u], sent'[u] + 1)
  <2>1. SUFFICES ASSUME NEW u \in Sessions, Before(queue[u], sent[u] + 1), NEW i \in 1..Len(queue[u])
                 PROVE  queue[u][i] < sent'[u] + 1
    BY Zenon DEF Before
  <2>2. queue[u][i] \in Nat
    BY DEF FlowInv, QueueType
  <2> QED
    BY <1>4, <2>1, <2>2, Zenon DEF Before
<1>6. QueueType' /\ \A u \in Sessions : OrderAt(u)'
  BY <1>1, <1>2, <1>5, Zenon DEF FlowInv, QueueType, OrderInv, OrderAt
<1>7. \A t \in Regs : ThreadOrder(t)'
  BY <1>1, <1>3, <1>4, RegPair, Zenon DEF FlowInv, OrderInv, ThreadOrder
<1>8. Apart'
  BY <1>3, Zenon DEF FlowInv, OrderInv, Apart
<1>9. EventInOrder'
  <2>1. Before(queue[s], sent[s] + 1) /\ \A t \in Regs, n \in Nat : t[1] = s /\ Taken(t, n) => n < sent[s] + 1
    BY Zenon DEF FlowInv, OrderInv, OrderAt, ThreadOrder
  <2> QED
    BY <1>1, <1>2, <1>3, <2>1, Zenon DEF EventInOrder
<1> QED
  BY <1>6, <1>7, <1>8, <1>9, Zenon DEF FlowInv, OrderInv

LEMMA FlowEnqueue == ASSUME FlowInv, target \in Sessions, enqueueEventData PROVE FlowInv'
<1>0. UNCHANGED <<got, held, sent, target, event, tpc>> /\ lpc = "enqueue" /\ lpc' = "signal"
  BY Zenon DEF enqueueEventData, history, threads
<1>1. CASE queue' = queue
  <2>1. queue' \in [Sessions -> Seq(Nat)] /\ \A s \in Sessions : Within(queue'[s], queue[s])
    BY <1>1, QueueWithin, Zenon DEF FlowInv, QueueType, OrderInv, OrderAt
  <2> QED
    BY <1>0, <2>1, FlowShrinks, Zenon
<1>2. CASE queue' # queue
  <2>1. queue' = [queue EXCEPT ![target] = Append(@, event)]
    BY <1>2, Zenon DEF enqueueEventData
  <2>2. /\ queue[target] \in Seq(Nat) /\ sent[target] \in Nat /\ OrderAt(target)
        /\ event = sent[target] /\ Before(queue[target], event)
        /\ \A t \in Regs, n \in Nat : t[1] = target /\ Taken(t, n) => n < event
    BY <1>0, Zenon DEF FlowInv, QueueType, OrderInv, EventInOrder
  <2>3. /\ Append(queue[target], event) \in Seq(Nat) /\ Increasing(Append(queue[target], event))
        /\ Before(Append(queue[target], event), sent[target] + 1)
        /\ \A i \in 1..Len(Append(queue[target], event)) :
              \/ Append(queue[target], event)[i] = event
              \/ \E j \in 1..Len(queue[target]) : Append(queue[target], event)[i] = queue[target][j]
    <3>1. event \in Nat /\ Increasing(queue[target]) /\ event < sent[target] + 1 /\ sent[target] + 1 \in Nat
      BY <2>2 DEF OrderAt
    <3> DEFINE q == queue[target]
               m == sent[target] + 1
    <3>2. q \in Seq(Nat) /\ Increasing(q) /\ Before(q, event) /\ m \in Nat /\ event < m
      BY <2>2, <3>1, Zenon
    <3> HIDE DEF q, m
    <3>3. /\ Append(q, event) \in Seq(Nat) /\ Increasing(Append(q, event))
          /\ Before(Append(q, event), m)
          /\ \A i \in 1..Len(Append(q, event)) :
                Append(q, event)[i] = event \/ \E j \in 1..Len(q) : Append(q, event)[i] = q[j]
      BY <3>1, <3>2, AppendInOrder, Zenon
    <3> QED
      BY <3>3, Zenon DEF q, m
  <2>4. /\ queue' \in [Sessions -> Seq(Nat)] /\ queue'[target] = Append(queue[target], event)
        /\ \A u \in Sessions : u # target => queue'[u] = queue[u]
    BY <2>1, <2>3, Zenon DEF FlowInv, QueueType
  <2>5. \A u \in Sessions : OrderAt(u)'
    BY <1>0, <2>3, <2>4, Zenon DEF OrderAt, FlowInv, OrderInv
  <2>6. \A t \in Regs, n \in Nat : Taken(t, n)' <=> Taken(t, n)
    BY <1>0, Zenon DEF Taken
  <2>7. ASSUME NEW t \in Regs PROVE ThreadOrder(t)'
    <3>1. ThreadOrder(t) /\ t[1] \in Sessions
      BY RegPair, Zenon DEF FlowInv, OrderInv
    <3>2. ASSUME NEW n \in Nat, Taken(t, n), NEW j \in 1..Len(queue'[t[1]]) PROVE n < queue'[t[1]][j]
      <4>1. CASE t[1] = target
        <5>1. n < event /\ \A i \in 1..Len(queue[target]) : n < queue[target][i]
          BY <2>2, <3>1, <3>2, <4>1, Zenon DEF ThreadOrder
        <5>2. j \in 1..Len(Append(queue[target], event)) /\ queue'[t[1]][j] = Append(queue[target], event)[j]
          BY <2>4, <3>2, <4>1, Zenon
        <5> QED
          BY <2>3, <5>1, <5>2, Zenon
      <4>2. CASE t[1] # target
        BY <2>4, <3>1, <3>2, <4>2, Zenon DEF ThreadOrder
      <4> QED
        BY <4>1, <4>2, Zenon
    <3> QED
      BY <1>0, <2>6, <3>1, <3>2, Zenon DEF ThreadOrder
  <2>8. QueueType' /\ EventInOrder' /\ Apart'
    BY <1>0, <2>4, <2>6, Zenon DEF FlowInv, QueueType, OrderInv, EventInOrder, Apart
  <2> QED
    BY <2>5, <2>7, <2>8, Zenon DEF FlowInv, OrderInv
<1> QED
  BY <1>1, <1>2, Zenon

\* The head of a queue comes after all that was taken from it, and before the rest.
LEMMA HeadInOrder ==
    ASSUME TypeOK, FlowInv, NEW s \in Sessions, queue[s] # <<>>
    PROVE  /\ Head(queue[s]) \in Nat /\ Head(queue[s]) < sent[s] + 1
           /\ \A t \in Regs, n \in Nat : t[1] = s /\ Taken(t, n) => n < Head(queue[s])
           /\ \A j \in 1..Len(Tail(queue[s])) : Head(queue[s]) < Tail(queue[s])[j]
           /\ Popped(s) \in [Sessions -> Seq(Nat)] /\ Popped(s)[s] = Tail(queue[s])
           /\ \A u \in Sessions : Within(Popped(s)[u], queue[u]) /\ (u # s => Popped(s)[u] = queue[u])
           /\ lpc \in {"look", "enqueue"} /\ event # None /\ target = s => Head(queue[s]) < event
<1> DEFINE q == queue[s]
<1>1. /\ q \in Seq(Nat) /\ Increasing(q) /\ Before(q, sent[s] + 1) /\ q # <<>>
      /\ \A t \in Regs, n \in Nat : t[1] = s /\ Taken(t, n) => \A j \in 1..Len(q) : n < q[j]
      /\ lpc \in {"look", "enqueue"} /\ event # None /\ target = s => Before(q, event)
  BY Zenon DEF FlowInv, QueueType, OrderInv, OrderAt, ThreadOrder, EventInOrder
<1> HIDE DEF q
<1>2. /\ Tail(q) \in Seq(Nat) /\ Len(q) \in Nat \ {0} /\ Head(q) \in Nat
      /\ Head(q) = q[1] /\ Increasing(Tail(q))
      /\ \A j \in 1..Len(Tail(q)) : Head(q) < Tail(q)[j] /\ \E i \in 1..Len(q) : Tail(q)[j] = q[i]
  BY <1>1, TailInOrder, Zenon
<1>3. 1 \in 1..Len(q)
  BY <1>2
<1>4. Popped(s) = [queue EXCEPT ![s] = Tail(q)] /\ queue \in [Sessions -> Seq(Nat)]
  BY Zenon DEF Popped, FlowInv, QueueType, q
<1>5. /\ Popped(s) \in [Sessions -> Seq(Nat)] /\ Popped(s)[s] = Tail(q)
      /\ \A u \in Sessions : u # s => Popped(s)[u] = queue[u]
  BY <1>2, <1>4, Zenon
<1>6. Within(Tail(q), q) /\ \A u \in Sessions : Within(queue[u], queue[u])
  BY <1>2, QueueWithin, Zenon DEF Within, FlowInv, OrderInv, OrderAt
<1>7. \A u \in Sessions : Within(Popped(s)[u], queue[u])
  BY <1>5, <1>6, Zenon DEF q
<1> QED
  BY <1>1, <1>2, <1>3, <1>5, <1>7, Zenon DEF q, Before

LEMMA FlowFetch == ASSUME TypeOK, FlowInv, NEW t \in Regs, Fetch(t) PROVE FlowInv'
<1>0. /\ UNCHANGED <<got, sent, lpc, target, event>> /\ target \in Sessions /\ t[1] \in Sessions
      /\ \A u \in Regs \ {t} : tpc'[u] = tpc[u]
  <2>1. UNCHANGED <<got, sent, lpc, target, event>> /\ (Goto(t, "loop") \/ Goto(t, "callback"))
    BY Zenon DEF Fetch, history, listener
  <2>2. \A u \in Regs \ {t} : tpc'[u] = tpc[u]
    BY <2>1 DEF Goto, TypeOK, LibraryType
  <2>3. target \in Sessions /\ t[1] \in Sessions
    BY RegPair, Zenon DEF TypeOK, ServiceType
  <2> QED
    BY <2>1, <2>2, <2>3, Zenon
<1>1. CASE ~HasData(t[1])
  <2>1. UNCHANGED <<queue, held>> /\ tpc'[t] = "loop"
    BY <1>1, Zenon DEF Fetch, Goto, TypeOK, LibraryType
  <2>2. queue' \in [Sessions -> Seq(Nat)] /\ \A s \in Sessions : Within(queue'[s], queue[s])
    BY <2>1, QueueWithin, Zenon DEF FlowInv, QueueType, OrderInv, OrderAt
  <2>3. \A u \in Regs : tpc'[u] = "callback" => tpc[u] = "callback"
    <3>1. "loop" # "callback"
      OBVIOUS
    <3> QED
      BY <1>0, <2>1, <3>1, Zenon
  <2> QED
    BY <1>0, <2>1, <2>2, <2>3, FlowShrinks, Zenon
<1>2. CASE HasData(t[1])
  <2> DEFINE s == t[1]
             h == Head(queue[s])
  <2>1. /\ s \in Sessions /\ queue[s] # <<>> /\ queue' = Popped(s) /\ held' = [held EXCEPT ![t] = h]
        /\ tpc[t] = "fetch" /\ tpc'[t] = "callback"
    BY <1>0, <1>2, Zenon DEF Fetch, HasData, Goto, TypeOK, LibraryType
  <2>2. /\ h \in Nat /\ h < sent[s] + 1
        /\ \A u \in Regs, n \in Nat : u[1] = s /\ Taken(u, n) => n < h
        /\ \A j \in 1..Len(queue'[s]) : h < queue'[s][j]
        /\ queue' \in [Sessions -> Seq(Nat)]
        /\ \A u \in Sessions : Within(queue'[u], queue[u])
        /\ lpc \in {"look", "enqueue"} /\ event # None /\ target = s => h < event
    BY <2>1, HeadInOrder, Zenon
  <2> HIDE DEF h
  <2>3. held' \in [Regs -> Nat] /\ held'[t] = h /\ \A u \in Regs \ {t} : held'[u] = held[u]
    BY <2>1, <2>2, Zenon DEF FlowInv, QueueType
  <2>4. \A u \in Regs, n \in Nat : Taken(u, n)' => Taken(u, n) \/ (u = t /\ n = h)
    BY <1>0, <2>1, <2>3, Zenon DEF Taken
  <2>5. \A u \in Sessions : \A n : Before(queue[u], n) => Before(queue'[u], n)
    BY <2>2, Zenon DEF Before, Within
  <2>6. QueueType' /\ \A u \in Sessions : OrderAt(u)'
    BY <1>0, <2>2, <2>3, <2>5, Zenon DEF FlowInv, QueueType, OrderInv, OrderAt, Within
  <2>7. ASSUME NEW u \in Regs PROVE ThreadOrder(u)'
    <3>1. ThreadOrder(u) /\ u[1] \in Sessions /\ got[u] \in Seq(Nat)
      BY RegPair, Zenon DEF FlowInv, OrderInv, QueueType
    <3>2. ASSUME NEW n \in Nat, Taken(u, n)', NEW j \in 1..Len(queue'[u[1]]) PROVE n < queue'[u[1]][j]
      BY <2>2, <2>4, <3>1, <3>2, Zenon DEF ThreadOrder, Within
    <3>3. ASSUME NEW n \in Nat, Taken(u, n)' PROVE n < sent[u[1]] + 1
      BY <2>2, <2>4, <3>1, <3>3, Zenon DEF ThreadOrder
    <3>4. tpc'[u] = "callback" => Before(got[u], held'[u])
      <4>1. CASE u = t
        <5>1. \A i \in 1..Len(got[t]) : got[t][i] \in Nat
          BY <3>1, <4>1
        <5> QED
          BY <2>2, <2>3, <4>1, <5>1, Zenon DEF Before, Taken
      <4>2. CASE u # t
        BY <1>0, <2>3, <3>1, <4>2, Zenon DEF ThreadOrder
      <4> QED
        BY <4>1, <4>2, Zenon
    <3> QED
      BY <1>0, <3>1, <3>2, <3>3, <3>4, Zenon DEF ThreadOrder
  <2>8. Apart'
    <3>1. SUFFICES ASSUME NEW u \in Regs, NEW v \in Regs, u # v, u[1] = v[1], NEW n \in Nat, Taken(u, n)', Taken(v, n)' PROVE FALSE
      BY Zenon DEF Apart
    <3>2. ~(h < h)
      BY <2>2
    <3>3. ~(Taken(u, n) /\ Taken(v, n))
      BY <3>1, Zenon DEF FlowInv, OrderInv, Apart
    <3> QED
      BY <2>2, <2>4, <3>1, <3>2, <3>3, Zenon
  <2>9. EventInOrder'
    BY <1>0, <2>2, <2>4, <2>5, Zenon DEF FlowInv, OrderInv, EventInOrder
  <2> QED
    BY <2>6, <2>7, <2>8, <2>9, Zenon DEF FlowInv, OrderInv
<1> QED
  BY <1>1, <1>2, Zenon

LEMMA FlowCallback == ASSUME TypeOK, FlowInv, NEW t \in Regs, Callback(t) PROVE FlowInv'
<1>1. /\ UNCHANGED <<queue, sent, lpc, target, event>> /\ tpc[t] = "callback" /\ tpc'[t] = "retrieve"
      /\ held' = [held EXCEPT ![t] = 0] /\ got' = [got EXCEPT ![t] = Append(@, held[t])]
      /\ \A u \in Regs \ {t} : tpc'[u] = tpc[u]
  BY Zenon DEF Callback, service, listener, Goto, TypeOK, LibraryType
<1>2. got[t] \in Seq(Nat) /\ held[t] \in Nat /\ Increasing(got[t]) /\ Before(got[t], held[t])
  BY <1>1, Zenon DEF FlowInv, QueueType, OrderInv, ThreadOrder
<1>3. /\ Append(got[t], held[t]) \in Seq(Nat) /\ Increasing(Append(got[t], held[t]))
      /\ \A i \in 1..Len(Append(got[t], held[t])) :
            Append(got[t], held[t])[i] = held[t] \/ \E j \in 1..Len(got[t]) : Append(got[t], held[t])[i] = got[t][j]
  BY <1>2, AppendInOrder, Zenon
<1>4. /\ got' \in [Regs -> Seq(Nat)] /\ got'[t] = Append(got[t], held[t])
      /\ held' \in [Regs -> Nat] /\ \A u \in Regs \ {t} : got'[u] = got[u] /\ held'[u] = held[u]
  <2>1. 0 \in Nat
    OBVIOUS
  <2> QED
    BY <1>1, <1>3, <2>1, Zenon DEF FlowInv, QueueType
<1>5. \A u \in Regs, n \in Nat : Taken(u, n)' => Taken(u, n)
  <2>1. "retrieve" # "callback"
    OBVIOUS
  <2>2. \A n \in Nat : Taken(t, n)' => Taken(t, n)
    <3>1. SUFFICES ASSUME NEW n \in Nat, Taken(t, n)' PROVE Taken(t, n)
      BY Zenon
    <3>2. PICK i \in 1..Len(got'[t]) : got'[t][i] = n
      BY <1>1, <2>1, <3>1, Zenon DEF Taken
    <3>3. n = held[t] \/ \E j \in 1..Len(got[t]) : n = got[t][j]
      BY <1>3, <1>4, <3>2, Zenon
    <3> QED
      BY <1>1, <3>3, Zenon DEF Taken
  <2>3. \A u \in Regs \ {t}, n \in Nat : Taken(u, n)' => Taken(u, n)
    BY <1>1, <1>4, Zenon DEF Taken
  <2> QED
    BY <2>2, <2>3, Zenon
<1>6. ASSUME NEW u \in Regs PROVE ThreadOrder(u)'
  <2>1. ThreadOrder(u)
    BY Zenon DEF FlowInv, OrderInv
  <2>2. tpc'[u] = "callback" => u # t
    BY <1>1
  <2> QED
    BY <1>1, <1>3, <1>4, <1>5, <2>1, <2>2, Zenon DEF ThreadOrder
<1>7. QueueType' /\ (\A s \in Sessions : OrderAt(s)') /\ Apart' /\ EventInOrder'
  BY <1>1, <1>4, <1>5, Zenon DEF FlowInv, QueueType, OrderInv, OrderAt, Apart, EventInOrder
<1> QED
  BY <1>6, <1>7, Zenon DEF FlowInv, OrderInv

LEMMA FlowFail == ASSUME TypeOK, FlowInv, NEW t \in Regs, FailFetch(t) PROVE FlowInv'
<1>1. /\ UNCHANGED <<got, held, sent, lpc, target, event>> /\ target \in Sessions /\ t[1] \in Sessions
      /\ tpc'[t] = "loop" /\ \A u \in Regs \ {t} : tpc'[u] = tpc[u]
  <2>1. UNCHANGED <<got, held, sent, lpc, target, event>> /\ Goto(t, "loop")
    BY Zenon DEF FailFetch, listener
  <2>2. tpc'[t] = "loop" /\ \A u \in Regs \ {t} : tpc'[u] = tpc[u]
    BY <2>1 DEF Goto, TypeOK, LibraryType
  <2>3. target \in Sessions /\ t[1] \in Sessions
    BY RegPair, Zenon DEF TypeOK, ServiceType
  <2> QED
    BY <2>1, <2>2, <2>3, Zenon
<1>2. \A u \in Regs : tpc'[u] = "callback" => tpc[u] = "callback"
  <2>1. "loop" # "callback"
    OBVIOUS
  <2> QED
    BY <1>1, <2>1, Zenon
<1>3. CASE queue' = queue
  <2>1. queue' \in [Sessions -> Seq(Nat)] /\ \A s \in Sessions : Within(queue'[s], queue[s])
    BY <1>3, QueueWithin, Zenon DEF FlowInv, QueueType, OrderInv, OrderAt
  <2> QED
    BY <1>1, <1>2, <2>1, FlowShrinks, Zenon
<1>4. CASE queue' = Popped(t[1]) /\ HasData(t[1])
  <2>1. queue' \in [Sessions -> Seq(Nat)] /\ \A s \in Sessions : Within(queue'[s], queue[s])
    BY <1>1, <1>4, HeadInOrder, Zenon DEF HasData
  <2> QED
    BY <1>1, <1>2, <2>1, FlowShrinks, Zenon
<1> QED
  BY <1>3, <1>4 DEF FailFetch

LEMMA FlowStep == ASSUME TypeOK, CallInv, FlowInv, [Next]_vars PROVE FlowInv'
<1>1. target \in Sessions /\ queue \in [Sessions -> Seq(Nat)] /\ <<>> \in Seq(Nat)
  BY DEF TypeOK, ServiceType, FlowInv, QueueType
<1>2. ASSUME UNCHANGED <<queue, got, held, sent>>, \A t \in Regs : tpc'[t] = "callback" => tpc[t] = "callback",
             \/ UNCHANGED <<target, event>> /\ lpc' \in {lpc, "wait", "signal"}
             \/ UNCHANGED <<target, event>> /\ lpc = "look" /\ event # None
             \/ lpc' = "look" /\ event' = None
      PROVE  FlowInv'
  <2>1. queue' \in [Sessions -> Seq(Nat)] /\ \A s \in Sessions : Within(queue'[s], queue[s])
    BY <1>1, <1>2, QueueWithin, Zenon DEF FlowInv, OrderInv, OrderAt
  <2> QED
    BY <1>1, <1>2, <2>1, FlowShrinks, Zenon
<1>3. ASSUME NEW s \in Sessions, queue' = [queue EXCEPT ![s] = <<>>], UNCHANGED <<got, sent, listener, tpc, held>> PROVE FlowInv'
  <2>1. queue' \in [Sessions -> Seq(Nat)] /\ \A u \in Sessions : Within(queue'[u], queue[u])
    BY <1>1, <1>3, QueueWithin, EmptyInOrder, Zenon DEF FlowInv, OrderInv, OrderAt
  <2> QED
    BY <1>1, <1>3, <2>1, FlowShrinks, Zenon DEF listener
<1>4. CASE ListenerStep
  <2>1. CASE getEventHandle
    BY <1>2, <2>1, Zenon DEF getEventHandle, service, history, threads
  <2>2. CASE SignalEvent
    BY <1>2, <2>2, Zenon DEF SignalEvent, service, history, threads
  <2> QED
    BY <1>1, <1>4, <2>1, <2>2, FlowEnqueue, Zenon DEF ListenerStep
<1>5. CASE ServeRequest
  <2>1. op.s \in Sessions
    BY <1>5, Zenon DEF ServeRequest, LookUpSession, SetSessionEventHandler, ServeClose, CallInv, TypeOK, LibraryType, Calls, Idle
  <2>2. UNCHANGED queue \/ queue' = [queue EXCEPT ![op.s] = <<>>]
    BY <1>5, Zenon DEF ServeRequest, LookUpSession, SetSessionEventHandler, ServeClose, setEventHandle, remove, service
  <2>3. UNCHANGED <<got, sent, listener, tpc, held>>
    BY <1>5, Zenon DEF ServeRequest, LookUpSession, SetSessionEventHandler, ServeClose, history, threads
  <2> QED
    BY <1>2, <1>3, <2>1, <2>2, <2>3, Zenon DEF listener
<1>6. CASE SpoolerRefuses \/ FailRequest \/ FinishCall
  BY <1>2, <1>6, Zenon DEF SpoolerRefuses, FailRequest, FinishCall, service, history, listener, threads
<1>7. CASE resetSessionManager
  <2>1. queue' \in [Sessions -> Seq(Nat)] /\ \A u \in Sessions : Within(queue'[u], queue[u])
    BY <1>1, <1>7, EmptyInOrder, Zenon DEF resetSessionManager
  <2> QED
    BY <1>1, <1>7, <2>1, FlowShrinks, Zenon DEF resetSessionManager, listener, threads
<1>8. ASSUME NEW s \in Sessions, SessionEnds(s) PROVE FlowInv'
  BY <1>3, <1>8, Zenon DEF SessionEnds, remove, history, threads
<1>9. ASSUME NEW s \in Sessions, RegisterBegin(s) PROVE FlowInv'
  <2>1. \A t \in Regs : tpc'[t] \in {tpc[t], "start"}
    BY <1>9, Zenon DEF RegisterBegin, TypeOK, LibraryType
  <2>2. \A t \in Regs : tpc'[t] = "callback" => tpc[t] = "callback"
    BY <2>1
  <2> QED
    BY <1>2, <1>9, <2>2, Zenon DEF RegisterBegin, service, history, listener
<1>10. ASSUME NEW s \in Sessions, UnregisterBegin(s) \/ CloseBegin(s) PROVE FlowInv'
  BY <1>2, <1>10, Zenon DEF UnregisterBegin, CloseBegin, service, history, listener, threads
<1>11. ASSUME NEW t \in Regs, ThreadStart(t) \/ ListenCl(t) \/ Accept(t) \/ ThreadLoop(t) \/ Recv(t) \/ Retrieve(t) PROVE FlowInv'
  <2>1. \E l \in {"listen", "accept", "loop", "recv", "retrieve", "fetch", "done"} : Goto(t, l)
    BY <1>11 DEF ThreadStart, ListenCl, Accept, ThreadLoop, Recv, Retrieve, Finish
  <2>2. \A u \in Regs : tpc'[u] = "callback" => tpc[u] = "callback"
    BY <2>1 DEF Goto, TypeOK, LibraryType
  <2> QED
    BY <1>2, <1>11, <2>2, Zenon DEF ThreadStart, ListenCl, Accept, ThreadLoop, Recv, Retrieve, service, history, listener
<1>12. CASE UNCHANGED vars
  BY <1>2, <1>12, Zenon DEF vars, service, listener, history, threads
<1> QED
  BY <1>4, <1>5, <1>6, <1>7, <1>8, <1>9, <1>10, <1>11, <1>12, FlowSpoolerEvent, FlowFetch, FlowCallback, FlowFail, Zenon
     DEF Next, CallStep, ThreadStep

-----------------------------------------------------------------------------
(* The event handles *)
LEMMA HeapFrame ==
    ASSUME HeapInv, UNCHANGED <<handle, heap, free, conn, made>>, \A s \in Sessions : Registering(s)' => Registering(s)
    PROVE  HeapInv'
  BY Zenon DEF HeapInv

LEMMA HeapSet ==
    ASSUME TypeOK, HeapInv, NEW s \in Sessions, NEW r \in Regs \cup {None}, setEventHandle(s, r), UNCHANGED made,
           r # None => r = <<s, made[s]>> /\ \A b \in Addrs : heap[b] # r, \A u \in Sessions : ~Registering(u)'
    PROVE  HeapInv'
<1>1. PICK a \in free :
        /\ handle' \in [Sessions -> Addrs \cup {None}] /\ heap' \in [Addrs -> Regs \cup {None}]
        /\ handle'[s] = a /\ \A u \in Sessions \ {s} : handle'[u] = handle[u]
        /\ \A b \in Addrs : heap'[b] = IF b = a THEN r ELSE IF b = handle[s] THEN None ELSE heap[b]
        /\ free' = (free \ {a}) \cup ({handle[s]} \ {None})
        /\ \A q \in Regs : conn'[q] = IF q = r THEN "up"
                                      ELSE IF handle[s] # None /\ heap[handle[s]] = q THEN "eof" ELSE conn[q]
  BY SetEffect DEF TypeOK
<1>2. /\ a \in Addrs /\ free \subseteq Addrs /\ made[s] \in 0..MaxRegs /\ heap[a] = None
      /\ handle \in [Sessions -> Addrs \cup {None}] /\ heap \in [Addrs -> Regs \cup {None}]
  BY Zenon DEF TypeOK, ServiceType, LibraryType, HeapInv
<1>3. \A u \in Sessions : handle[u] # None => handle[u] # a /\ handle[u] \notin free
  BY <1>2 DEF HeapInv
<1>4. r # None => r[1] = s /\ r[2] = made[s] /\ r \in Regs
  BY <1>2
<1>5. ASSUME NEW u \in Sessions, handle'[u] # None
      PROVE  /\ handle'[u] \notin free' /\ \A v \in Sessions : handle'[v] = handle'[u] => v = u
             /\ heap'[handle'[u]] # None => heap'[handle'[u]][1] = u /\ conn'[heap'[handle'[u]]] = "up"
  <2>1. CASE u = s
    BY <1>1, <1>2, <1>3, <1>4, <1>5, <2>1, RegPair
  <2>2. CASE u # s
    <3>1. /\ handle'[u] = handle[u] /\ handle[u] \in Addrs /\ handle[u] # a /\ handle[u] # handle[s]
          /\ handle[u] \notin free /\ heap'[handle[u]] = heap[handle[u]]
      BY <1>1, <1>2, <1>3, <1>5, <2>2 DEF HeapInv
    <3>2. handle'[u] \notin free' /\ \A v \in Sessions : handle'[v] = handle'[u] => v = u
      <4>1. \A v \in Sessions : handle[v] = handle[u] => v = u
        BY <3>1, RegPair, Zenon DEF HeapInv
      <4> QED
        BY <1>1, <3>1, <4>1, Zenon
    <3>3. heap[handle[u]] # None => heap[handle[u]][1] = u /\ conn[heap[handle[u]]] = "up"
      BY <3>1, RegPair, Zenon DEF HeapInv
    <3>4. heap[handle[u]] # None /\ handle[s] # None => heap[handle[u]] # heap[handle[s]]
      BY <1>2, <3>1 DEF HeapInv
    <3> QED
      BY <1>1, <1>2, <3>1, <3>2, <3>3, <3>4
  <2> QED
    BY <2>1, <2>2, Zenon
<1>6. \A b \in free' : heap'[b] = None
  BY <1>1, <1>2, <1>3 DEF HeapInv
<1>7. \A b, c \in Addrs : heap'[b] # None /\ heap'[b] = heap'[c] => b = c
  BY <1>1, <1>2 DEF HeapInv
<1>8. \A b \in Addrs : heap'[b] # None => heap'[b][2] <= made'[heap'[b][1]]
  BY <1>1, <1>2, <1>4 DEF HeapInv
<1> QED
  BY <1>5, <1>6, <1>7, <1>8, Zenon DEF HeapInv

LEMMA HeapRemove ==
    ASSUME TypeOK, CallInv, HeapInv, NEW s \in Sessions, remove(s), UNCHANGED made, \A u \in Sessions : Registering(u)' => Registering(u)
    PROVE  HeapInv'
<1>1. /\ handle' \in [Sessions -> Addrs \cup {None}] /\ heap' \in [Addrs -> Regs \cup {None}]
      /\ handle'[s] = None /\ \A u \in Sessions \ {s} : handle'[u] = handle[u]
      /\ free' = free \cup ({handle[s]} \ {None})
      /\ \A b \in Addrs : heap'[b] = IF b = handle[s] THEN None ELSE heap[b]
      /\ \A q \in Regs : conn'[q] = IF handle[s] # None /\ heap[handle[s]] = q THEN "eof" ELSE conn[q]
  BY RemoveEffect, Zenon DEF TypeOK
<1>2. free \subseteq Addrs /\ handle \in [Sessions -> Addrs \cup {None}] /\ heap \in [Addrs -> Regs \cup {None}]
  BY Zenon DEF TypeOK, ServiceType
<1>3. ASSUME NEW u \in Sessions, handle'[u] # None
      PROVE  /\ handle'[u] \notin free' /\ \A v \in Sessions : handle'[v] = handle'[u] => v = u
             /\ heap'[handle'[u]] # None => heap'[handle'[u]][1] = u /\ conn'[heap'[handle'[u]]] = "up"
  <2>1. /\ u # s /\ handle'[u] = handle[u] /\ handle[u] \in Addrs /\ handle[u] # handle[s]
        /\ handle[u] \notin free /\ heap'[handle[u]] = heap[handle[u]]
    BY <1>1, <1>2, <1>3 DEF HeapInv
  <2>2. handle'[u] \notin free' /\ \A v \in Sessions : handle'[v] = handle'[u] => v = u
    <3>1. \A v \in Sessions : handle[v] = handle[u] => v = u
      BY <2>1, RegPair, Zenon DEF HeapInv
    <3> QED
      BY <1>1, <2>1, <3>1, RegPair, Zenon
  <2>3. heap[handle[u]] # None => heap[handle[u]][1] = u /\ conn[heap[handle[u]]] = "up"
    BY <2>1, RegPair, Zenon DEF HeapInv
  <2>4. heap[handle[u]] # None /\ handle[s] # None => heap[handle[u]] # heap[handle[s]]
    BY <1>2, <2>1 DEF HeapInv
  <2> QED
    BY <1>1, <1>2, <2>1, <2>2, <2>3, <2>4
<1>4. \A b \in free' : heap'[b] = None
  BY <1>1, <1>2 DEF HeapInv
<1>5. \A b \in Addrs : heap'[b] \in {None, heap[b]}
  BY <1>1, Zenon
<1>6. \A b, c \in Addrs : heap'[b] # None /\ heap'[b] = heap'[c] => b = c
  BY <1>5 DEF HeapInv
<1>7. \A b \in Addrs : heap'[b] # None => heap'[b][2] <= made'[heap'[b][1]]
  BY <1>5, Zenon DEF HeapInv
<1>8. \A u \in Sessions : Registering(u)' => \A b \in Addrs : heap'[b] # <<u, made'[u]>>
  <2>1. SUFFICES ASSUME NEW u \in Sessions, Registering(u), NEW b \in Addrs PROVE heap'[b] # <<u, made[u]>>
    BY Zenon
  <2>2. heap[b] # <<u, made[u]>> /\ heap'[b] \in {None, heap[b]}
    BY <1>5, <2>1, Zenon DEF HeapInv
  <2>3. made[u] \in 1..MaxRegs => <<u, made[u]>> # None
    BY RegPair, Zenon
  <2>4. made[u] \in 1..MaxRegs
    BY <2>1, EventsAssumption DEF CallInv, TypeOK, LibraryType
  <2> QED
    BY <2>2, <2>3, <2>4, Zenon
<1> QED
  BY <1>3, <1>4, <1>6, <1>7, <1>8, Zenon DEF HeapInv

LEMMA HeapStep == ASSUME TypeOK, CallInv, HeapInv, [Next]_vars PROVE HeapInv'
<1>1. CASE ServeRequest
  <2>1. op.s \in Sessions /\ UNCHANGED made
    BY <1>1, Zenon DEF ServeRequest, LookUpSession, SetSessionEventHandler, ServeClose, CallInv, TypeOK, LibraryType, Calls, Idle
  <2>2. CASE LookUpSession
    <3>1. \A u \in Sessions : Registering(u)' => Registering(u)
      BY <2>2 DEF LookUpSession, Answer, Registering
    <3> QED
      BY <2>1, <2>2, <3>1, HeapFrame, Zenon DEF LookUpSession, service
  <2>3. CASE SetSessionEventHandler
    <3>1. op.rc = "found" /\ \A u \in Sessions : ~Registering(u)'
      BY <2>3 DEF SetSessionEventHandler, Answer, Registering
    <3>2. op.call = "register" =>
             /\ evt[op.s] \in Regs \cup {None} /\ evt[op.s] = <<op.s, made[op.s]>>
             /\ \A b \in Addrs : heap[b] # <<op.s, made[op.s]>>
      BY <2>1, <3>1, Zenon DEF CallInv, HeapInv, Registering, TypeOK, LibraryType
    <3>3. CASE op.call = "register" /\ setEventHandle(op.s, evt[op.s])
      BY <2>1, <3>1, <3>2, <3>3, HeapSet, Zenon
    <3>4. CASE setEventHandle(op.s, None)
      BY <2>1, <3>1, <3>4, HeapSet, Zenon
    <3>5. CASE UNCHANGED <<service, conn>>
      BY <2>1, <3>1, <3>5, HeapFrame, Zenon DEF service
    <3>6. CASE op.call = "register" /\ UNCHANGED service /\ conn' = [conn EXCEPT ![evt[op.s]] = "eof"]
      <4>1. UNCHANGED <<handle, heap, free>>
        BY <3>6, Zenon DEF service
      <4>2. ASSUME NEW u \in Sessions, handle[u] # None, heap[handle[u]] # None
            PROVE  conn'[heap[handle[u]]] = "up"
        <5>1. handle[u] \in Addrs /\ heap[handle[u]] \in Regs /\ conn[heap[handle[u]]] = "up" /\ heap[handle[u]] # evt[op.s]
          <6>1. handle[u] \in Addrs /\ heap[handle[u]] \in Regs \cup {None}
            BY <4>2, Zenon DEF TypeOK, ServiceType
          <6> QED
            BY <3>2, <3>6, <4>2, <6>1, Zenon DEF HeapInv
        <5> QED
          BY <3>6, <5>1, Zenon DEF TypeOK, ServiceType
      <4> QED
        BY <2>1, <3>1, <4>1, <4>2, Zenon DEF HeapInv
    <3> QED
      BY <2>3, <3>3, <3>4, <3>5, <3>6, Zenon DEF SetSessionEventHandler
  <2>4. CASE ServeClose
    <3>1. \A u \in Sessions : Registering(u)' => Registering(u)
      BY <2>4 DEF ServeClose, Answer, Registering
    <3> QED
      BY <2>1, <2>4, <3>1, HeapFrame, HeapRemove, Zenon DEF ServeClose, service
  <2> QED
    BY <1>1, <2>2, <2>3, <2>4, Zenon DEF ServeRequest
<1>2. ASSUME NEW s \in Sessions, SessionEnds(s) PROVE HeapInv'
  BY <1>2, HeapRemove, Zenon DEF SessionEnds, library, Registering
<1>3. ASSUME NEW s \in Sessions, RegisterBegin(s) PROVE HeapInv'
  <2>1. /\ made \in [Sessions -> 0..MaxRegs] /\ made' = [made EXCEPT ![s] = @ + 1] /\ UNCHANGED <<handle, heap, free, conn>>
        /\ heap \in [Addrs -> Regs \cup {None}]
    BY <1>3, Zenon DEF RegisterBegin, TypeOK, LibraryType, ServiceType, service
  <2>2. \A u \in Sessions : made[u] \in Int /\ made'[u] \in Int /\ made[u] <= made'[u] /\ (Registering(u)' => u = s)
    BY <1>3, <2>1, EventsAssumption DEF RegisterBegin, Begin, Registering
  <2>3. made'[s] = made[s] + 1
    BY <2>1, Zenon
  <2>4. \A b \in Addrs : heap[b] # None =>
           heap[b][1] \in Sessions /\ heap[b][2] \in Int /\ heap[b][2] <= made[heap[b][1]]
    BY <2>1, RegPair DEF HeapInv
  <2>5. \A b \in Addrs : heap[b] # None => heap[b][2] <= made'[heap[b][1]]
    BY <2>2, <2>4
  <2>6. \A b \in Addrs : heap[b] # <<s, made'[s]>>
    <3>1. SUFFICES ASSUME NEW b \in Addrs, heap[b] = <<s, made'[s]>> PROVE FALSE
      BY Zenon
    <3>2. heap[b] # None /\ heap[b][1] = s /\ heap[b][2] = made[s] + 1
      <4>1. made[s] + 1 \in 1..MaxRegs
        BY <1>3, <2>1, EventsAssumption DEF RegisterBegin
      <4> QED
        BY <2>3, <3>1, <4>1, RegPair
    <3> QED
      BY <2>2, <2>4, <3>2
  <2> QED
    BY <2>1, <2>2, <2>5, <2>6, Zenon DEF HeapInv
<1>4. CASE resetSessionManager
  BY <1>4, RegPair, Zenon DEF resetSessionManager, HeapInv, library, Registering
<1>5. ASSUME UNCHANGED <<handle, heap, free, conn, made>>, UNCHANGED op \/ op'.call # "register" \/ op'.rc \notin {"pending", "found"}
      PROVE  HeapInv'
  BY <1>5, HeapFrame, Zenon DEF Registering
<1>6. CASE ListenerStep \/ SpoolerRefuses \/ (\E s \in Sessions : SpoolerEvent(s)) \/ UNCHANGED vars
  BY <1>5, <1>6, Zenon DEF ListenerStep, SpoolerRefuses, SpoolerEvent, getEventHandle, enqueueEventData, SignalEvent, vars, service, library
<1>7. ASSUME NEW s \in Sessions, UnregisterBegin(s) \/ CloseBegin(s) PROVE HeapInv'
  BY <1>5, <1>7 DEF UnregisterBegin, CloseBegin, Begin, service
<1>8. CASE FinishCall \/ FailRequest
  BY <1>5, <1>8 DEF FinishCall, FailRequest, Answer, Idle, service
<1>9. ASSUME NEW t \in Regs, ThreadStep(t) \/ FailFetch(t) PROVE HeapInv'
  BY <1>5, <1>9, Zenon DEF ThreadStep, ThreadStart, ListenCl, Accept, ThreadLoop, Recv, Retrieve, Fetch, Callback, FailFetch, service, library
<1> QED
  BY <1>1, <1>2, <1>3, <1>4, <1>6, <1>7, <1>8, <1>9, Zenon DEF Next, CallStep

-----------------------------------------------------------------------------
(* The library's calls and the service's registrations *)
Agree(s) == Registered(s) /\ heap[handle[s]] = evt[s]

\* The registration a call is making is the last one counted.
LEMMA Numbered ==
    ASSUME TypeOK, CallInv, NEW s \in Sessions, Registering(s)
    PROVE  evt[s] = <<s, made[s]>> /\ made[s] > 0 /\ made[s] \in 1..MaxRegs /\ made[s] \in Nat
<1>1. evt[s] = <<s, made[s]>> /\ made[s] > 0
  BY Zenon DEF CallInv
<1>2. made[s] \in 0..MaxRegs
  BY Zenon DEF TypeOK, LibraryType
<1> QED
  BY <1>1, <1>2, EventsAssumption

LEMMA CallFrame ==
    ASSUME TypeOK, CallInv, UNCHANGED <<op, valid, evt, made>>, \A q \in Regs : created'[q] => created[q],
           \A s \in Sessions : present'[s] => present[s] /\ (Agree(s) => Agree(s)')
    PROVE  CallInv'
<1>1. \A s \in Sessions : HasEvent(s)' => HasEvent(s)
  BY RegPair DEF HasEvent, TypeOK, LibraryType
<1> QED
  BY <1>1, Zenon DEF CallInv, RegistrationsAgree, ClientRegistered, Registering, Agree

\* What the service does to one session leaves the registrations of the others.
LEMMA OthersAgree ==
    ASSUME TypeOK, HeapInv, NEW s \in Sessions, UNCHANGED evt,
           remove(s) \/ \E r \in Regs \cup {None} : setEventHandle(s, r)
    PROVE  \A u \in Sessions \ {s} : present'[u] = present[u] /\ (Agree(u) => Agree(u)')
<1> SUFFICES ASSUME NEW u \in Sessions \ {s} PROVE present'[u] = present[u] /\ (Agree(u) => Agree(u)')
  BY Zenon
<1>1. handle[u] # None => handle[u] \in Addrs /\ handle[u] # handle[s] /\ handle[u] \notin free
  BY DEF HeapInv, TypeOK, ServiceType
<1>2. CASE remove(s)
  <2>1. /\ handle'[u] = handle[u] /\ present'[u] = present[u]
        /\ \A b \in Addrs : heap'[b] = IF b = handle[s] THEN None ELSE heap[b]
    BY <1>2, RemoveEffect, Zenon DEF TypeOK
  <2> QED
    BY <1>1, <2>1, Zenon DEF Agree, Registered
<1>3. ASSUME NEW r \in Regs \cup {None}, setEventHandle(s, r)
      PROVE  present'[u] = present[u] /\ (Agree(u) => Agree(u)')
  <2>1. present' = present
    BY <1>3, Zenon DEF setEventHandle
  <2>2. handle'[u] = handle[u] /\ (handle[u] # None => heap'[handle[u]] = heap[handle[u]])
    BY <1>1, <1>3, SetEffect DEF TypeOK
  <2> QED
    BY <2>1, <2>2, Zenon DEF Agree, Registered
<1> QED
  BY <1>2, <1>3, Zenon

LEMMA CallServe == ASSUME TypeOK, CallInv, HeapInv, ServeRequest PROVE CallInv'
<1>1. /\ op.s \in Sessions /\ op.call \in {"register", "unregister", "close"} /\ op.rc \in {"pending", "found"} /\ op # Idle
      /\ UNCHANGED <<valid, evt, made, created>> /\ op'.call = op.call /\ op'.s = op.s
      /\ op'.rc \in {"found", "SUCCESS", "INVALID_SESSION_HANDLE", "INTERNAL_ERROR"} /\ op' # Idle
      /\ op'.rc = "found" => op.call \in {"register", "unregister"}
  BY DEF ServeRequest, LookUpSession, SetSessionEventHandler, ServeClose, Answer, CallInv, TypeOK, LibraryType, Calls, Idle
<1>2. \A u \in Sessions \ {op.s} : present'[u] = present[u] /\ (Agree(u) => Agree(u)')
  <2>1. CASE UNCHANGED service
    BY <1>1, <2>1, Zenon DEF service, Agree, Registered
  <2>2. evt[op.s] \in Regs \cup {None}
    BY <1>1, Zenon DEF TypeOK, LibraryType
  <2> QED
    BY <1>1, <2>1, <2>2, OthersAgree, Zenon DEF ServeRequest, LookUpSession, SetSessionEventHandler, ServeClose
<1>3. ASSUME op'.call = "register", op'.rc = "SUCCESS", present'[op.s] PROVE Agree(op.s)'
  <2>1. /\ present[op.s] /\ setEventHandle(op.s, evt[op.s]) /\ UNCHANGED present
        /\ evt[op.s] = <<op.s, made[op.s]>> /\ made[op.s] \in 1..MaxRegs
    <3>1. present[op.s] /\ setEventHandle(op.s, evt[op.s])
      BY <1>1, <1>3 DEF ServeRequest, LookUpSession, SetSessionEventHandler, ServeClose, Answer
    <3>2. Registering(op.s)
      BY <1>1, <1>3, Zenon DEF Registering
    <3>3. evt[op.s] = <<op.s, made[op.s]>> /\ made[op.s] > 0 /\ made[op.s] \in 0..MaxRegs
      BY <1>1, <3>2, Zenon DEF CallInv, TypeOK, LibraryType
    <3>4. made[op.s] \in 1..MaxRegs
      BY <3>3, EventsAssumption
    <3> QED
      BY <3>1, <3>3, <3>4, Zenon DEF setEventHandle
  <2>2. evt[op.s] \in Regs /\ evt[op.s] # None
    BY <1>1, <2>1, RegPair
  <2>3. handle'[op.s] \in Addrs /\ heap'[handle'[op.s]] = evt[op.s]
    <3>1. \E a \in free : handle'[op.s] = a /\ \A b \in Addrs :
             heap'[b] = IF b = a THEN evt[op.s] ELSE IF b = handle[op.s] THEN None ELSE heap[b]
      BY <1>1, <2>1, <2>2, SetEffect DEF TypeOK
    <3> QED
      BY <3>1, Zenon DEF TypeOK, ServiceType
  <2> QED
    BY <1>1, <2>1, <2>2, <2>3, RegPair, Zenon DEF Agree, Registered
<1>4. /\ op.call # "register" => ~HasEvent(op.s)
      /\ \A u \in Sessions \ {op.s} : ClientRegistered(u) /\ present[u] => Agree(u)
      /\ \A u \in Sessions : evt[u] # None => evt[u][1] = u /\ evt[u][2] <= made[u]
  BY <1>1, Zenon DEF CallInv, RegistrationsAgree, Agree
<1>5. RegistrationsAgree'
  BY <1>1, <1>2, <1>4, Zenon DEF RegistrationsAgree, ClientRegistered, HasEvent, Agree
<1> QED
  BY <1>1, <1>3, <1>4, <1>5, Zenon DEF CallInv, Registering, HasEvent, Agree, Idle

LEMMA CallFinish == ASSUME TypeOK, CallInv, FinishCall PROVE CallInv'
<1>1. PICK s \in Sessions : s = op.s
  BY Zenon DEF FinishCall, CallInv, TypeOK, LibraryType, Calls, Idle
<1>2. /\ op # Idle /\ op' = Idle /\ UNCHANGED <<present, handle, heap, made>> /\ op.rc # "none"
      /\ \A u \in Sessions : valid'[u] => valid[u]
  BY <1>1, Zenon DEF FinishCall, CallInv, TypeOK, LibraryType, Calls, Idle, service
<1>3. /\ \A u \in Sessions : evt'[u] \in {None, evt[u]} /\ (HasEvent(u)' => HasEvent(u))
      /\ \A u \in Sessions \ {s} : evt'[u] = evt[u]
      /\ HasEvent(s)' => op.call = "register" /\ op.rc = "SUCCESS" /\ evt' = evt
  <2>1. CASE UNCHANGED <<created, evt>> /\ ~(op.call = "register" /\ op.rc # "SUCCESS")
    BY <1>1, <1>2, <2>1, Zenon DEF CallInv, HasEvent
  <2>2. CASE closeSessionEventThread(s)
    <3>1. /\ evt'[s] \in {None, evt[s]} /\ ~HasEvent(s)' /\ \A u \in Sessions \ {s} : evt'[u] = evt[u]
          /\ \A q \in Regs : created'[q] => created[q]
      BY <1>1, <1>2, <2>2, ForgetEffect, Zenon DEF TypeOK
    <3> QED
      BY <1>1, <1>2, <3>1, RegPair DEF HasEvent, TypeOK, LibraryType
  <2> QED
    BY <1>1, <2>1, <2>2, Zenon DEF FinishCall
<1>4. RegistrationsAgree'
  <2>1. SUFFICES ASSUME NEW u \in Sessions, ClientRegistered(u)', present'[u] PROVE (Registered(u) /\ heap[handle[u]] = evt[u])'
    BY Zenon DEF RegistrationsAgree
  <2>2. ClientRegistered(u) /\ present[u] /\ evt'[u] = evt[u]
    BY <1>1, <1>2, <1>3, <2>1, Zenon DEF ClientRegistered, HasEvent
  <2>3. Registered(u) /\ heap[handle[u]] = evt[u]
    BY <1>1, <1>2, <1>3, <2>1, <2>2, Zenon DEF CallInv, RegistrationsAgree, ClientRegistered
  <2> QED
    BY <1>1, <1>2, <2>2, <2>3, Zenon DEF Registered
<1>5. \A u \in Sessions : evt'[u] # None => evt'[u][1] = u /\ evt'[u][2] <= made'[u]
  BY <1>1, <1>2, <1>3, Zenon DEF CallInv
<1> QED
  BY <1>1, <1>2, <1>4, <1>5, Zenon DEF CallInv, Registering, Idle

LEMMA CallBegin ==
    ASSUME TypeOK, CallInv, NEW s \in Sessions, RegisterBegin(s) \/ UnregisterBegin(s) \/ CloseBegin(s) PROVE CallInv'
<1>1. /\ op = Idle /\ op'.s = s /\ op'.rc = "pending" /\ op' # Idle /\ UNCHANGED <<present, handle, heap, valid>>
      /\ op'.call \in {"register", "unregister", "close"} /\ op.s = None /\ None \notin Sessions
  BY RegPair DEF RegisterBegin, UnregisterBegin, CloseBegin, Begin, Idle, service
<1>2. /\ made \in [Sessions -> 0..MaxRegs] /\ evt \in [Sessions -> Regs \cup {None}] /\ created \in [Regs -> BOOLEAN]
      /\ \A u \in Sessions : made[u] \in Int
  BY EventsAssumption DEF TypeOK, LibraryType
<1>3. ASSUME /\ \A u \in Sessions \ {s} : evt'[u] = evt[u] /\ made'[u] = made[u] /\ (HasEvent(u)' => HasEvent(u))
             /\ evt'[s] # None => evt'[s][1] = s /\ evt'[s][2] <= made'[s]
             /\ op'.call # "register" => ~HasEvent(s)'
             /\ op'.call = "register" => evt'[s] = <<s, made'[s]>> /\ made'[s] > 0
      PROVE  CallInv'
  <2>1. RegistrationsAgree'
    <3>1. ASSUME NEW u \in Sessions, ClientRegistered(u)', op'.s # u, present'[u]
          PROVE  Registered(u)' /\ heap'[handle'[u]] = evt'[u]
      <4>1. ClientRegistered(u) /\ op.s # u /\ present[u] /\ evt'[u] = evt[u]
        BY <1>1, <1>3, <3>1, Zenon DEF ClientRegistered
      <4>2. Registered(u) /\ heap[handle[u]] = evt[u]
        BY <4>1, Zenon DEF CallInv, RegistrationsAgree
      <4> QED
        BY <1>1, <4>1, <4>2, Zenon DEF Registered
    <3> QED
      BY <3>1, Zenon DEF RegistrationsAgree
  <2>2. \A u \in Sessions : evt'[u] # None => evt'[u][1] = u /\ evt'[u][2] <= made'[u]
    BY <1>3, Zenon DEF CallInv
  <2>3. \A u \in Sessions : Registering(u)' => evt'[u] = <<u, made'[u]>> /\ made'[u] > 0
    BY <1>1, <1>3, Zenon DEF Registering
  <2> QED
    BY <1>1, <1>3, <2>1, <2>2, <2>3, Zenon DEF CallInv, Idle
<1>4. CASE RegisterBegin(s)
  <2>1. /\ made[s] + 1 \in 1..MaxRegs /\ made' = [made EXCEPT ![s] = @ + 1] /\ evt' = [evt EXCEPT ![s] = <<s, made[s] + 1>>]
        /\ created' = [created EXCEPT ![<<s, made[s] + 1>>] = TRUE] /\ op'.call = "register"
    <3>1. made[s] < MaxRegs /\ made[s] \in 0..MaxRegs
      BY <1>2, <1>4, Zenon DEF RegisterBegin
    <3>2. made[s] + 1 \in 1..MaxRegs
      BY <3>1, EventsAssumption
    <3> QED
      BY <1>4, <3>2, Zenon DEF RegisterBegin, Begin
  <2>2. evt'[s] = <<s, made'[s]>> /\ made'[s] = made[s] + 1 /\ \A u \in Sessions \ {s} : evt'[u] = evt[u] /\ made'[u] = made[u]
    BY <1>2, <2>1, Zenon
  <2>3. \A u \in Sessions \ {s} : HasEvent(u)' => HasEvent(u)
    BY <1>2, <2>1, <2>2, RegPair DEF HasEvent, CallInv
  <2>4. evt'[s][1] = s /\ evt'[s][2] = made'[s]
    BY <2>1, <2>2, RegPair
  <2> QED
    BY <1>2, <1>3, <2>1, <2>2, <2>3, <2>4
<1>5. CASE UnregisterBegin(s) \/ CloseBegin(s)
  <2>1. closeSessionEventThread(s) /\ UNCHANGED made /\ op'.call # "register"
    BY <1>5 DEF UnregisterBegin, CloseBegin, Begin
  <2>2. /\ evt'[s] \in {None, evt[s]} /\ ~HasEvent(s)' /\ \A u \in Sessions \ {s} : evt'[u] = evt[u]
        /\ \A q \in Regs : created'[q] => created[q]
    BY <2>1, ForgetEffect, Zenon DEF TypeOK
  <2>3. \A u \in Sessions \ {s} : HasEvent(u)' => HasEvent(u)
    BY <1>2, <2>2, Zenon DEF HasEvent
  <2> QED
    BY <1>3, <2>1, <2>2, <2>3, Zenon DEF CallInv
<1> QED
  BY <1>4, <1>5, Zenon

LEMMA CallInvStep == ASSUME TypeOK, CallInv, HeapInv, [Next]_vars PROVE CallInv'
<1>1. ASSUME UNCHANGED <<op, valid, evt, made, created, present, handle, heap>> PROVE CallInv'
  BY <1>1, CallFrame, Zenon DEF Agree, Registered
<1>2. CASE ListenerStep \/ SpoolerRefuses \/ (\E s \in Sessions : SpoolerEvent(s)) \/ UNCHANGED vars
  BY <1>1, <1>2, Zenon DEF ListenerStep, SpoolerRefuses, SpoolerEvent, getEventHandle, enqueueEventData, SignalEvent, vars, service, library
<1>3. CASE resetSessionManager
  BY <1>3, CallFrame, Zenon DEF resetSessionManager, library
<1>4. CASE FailRequest
  BY <1>4, Zenon DEF FailRequest, Answer, CallInv, service, RegistrationsAgree, ClientRegistered, HasEvent, Registered,
              Registering, TypeOK, LibraryType, Calls, Idle
<1>5. ASSUME NEW s \in Sessions, SessionEnds(s) PROVE CallInv'
  <2>1. /\ present'[s] = FALSE /\ UNCHANGED <<op, valid, evt, made, created>>
        /\ \A u \in Sessions \ {s} : present'[u] = present[u] /\ (Agree(u) => Agree(u)')
    <3>1. present'[s] = FALSE
      BY <1>5, RemoveEffect, Zenon DEF SessionEnds, TypeOK
    <3>2. UNCHANGED <<op, valid, evt, made, created>>
      BY <1>5, Zenon DEF SessionEnds, library
    <3>3. \A u \in Sessions \ {s} : present'[u] = present[u] /\ (Agree(u) => Agree(u)')
      BY <1>5, <3>2, OthersAgree, Zenon DEF SessionEnds
    <3> QED
      BY <3>1, <3>2, <3>3, Zenon
  <2>2. \A u \in Sessions : present'[u] => present[u] /\ (Agree(u) => Agree(u)')
    BY <2>1, Zenon
  <2> QED
    BY <2>1, <2>2, CallFrame, Zenon
<1>6. ASSUME NEW t \in Regs, ThreadStep(t) \/ FailFetch(t) PROVE CallInv'
  <2>1. CASE ThreadStart(t) \/ Accept(t) \/ Recv(t) \/ Retrieve(t) \/ Fetch(t) \/ Callback(t) \/ FailFetch(t)
    BY <1>1, <2>1, Zenon DEF ThreadStart, Accept, Recv, Retrieve, Fetch, Callback, FailFetch, service, library
  <2>2. CASE ListenCl(t) \/ ThreadLoop(t)
    <3>1. UNCHANGED <<op, valid, evt, made, present, handle, heap>> /\ on[t] \in Regs
      BY <2>2, Zenon DEF ListenCl, ThreadLoop, service, TypeOK, LibraryType
    <3>2. UNCHANGED created \/ created' = [created EXCEPT ![on[t]] = FALSE]
      BY <2>2, Zenon DEF ListenCl, ThreadLoop, Finish
    <3>3. \A q \in Regs : created'[q] => created[q]
      BY <3>1, <3>2, Zenon DEF TypeOK, LibraryType
    <3> QED
      BY <3>1, <3>3, CallFrame, Zenon DEF Agree, Registered
  <2> QED
    BY <1>6, <2>1, <2>2, Zenon DEF ThreadStep
<1> QED
  BY <1>2, <1>3, <1>4, <1>5, <1>6, CallServe, CallFinish, CallBegin, Zenon DEF Next, CallStep

-----------------------------------------------------------------------------
(* The first registration of a session *)
LEMMA ThreadsStep == ASSUME TypeOK, CallInv, ThreadsInv, [Next]_vars PROVE ThreadsInv'
<1>0. /\ made \in [Sessions -> 0..MaxRegs] /\ tpc \in [Regs -> {"none", "start", "listen", "accept", "loop", "recv", "retrieve", "fetch", "callback", "done"}]
      /\ on \in [Regs -> Regs \cup {None}] /\ evt \in [Sessions -> Regs \cup {None}]
      /\ \A s \in Sessions : made[s] \in Int /\ \A t \in Regs : t[2] \in Int /\ t[1] \in Sessions
  BY EventsAssumption, RegPair DEF TypeOK, LibraryType
<1>1. ASSUME UNCHANGED <<made, on>>,
             \A t \in Regs : /\ tpc'[t] # "none" => tpc[t] # "none"
                             /\ stalled'[t] => on[t] # None /\ tpc'[t] \notin {"none", "start"}
      PROVE  ThreadsInv'
  BY <1>1, Zenon DEF ThreadsInv
<1>2. ASSUME NEW t \in Regs, ThreadStep(t) \/ FailFetch(t) PROVE ThreadsInv'
  <2>1. tpc[t] # "none" /\ \A q \in Regs : q # t => tpc'[q] = tpc[q]
    BY <1>0, <1>2, Zenon DEF ThreadStep, ThreadStart, ListenCl, Accept, ThreadLoop, Recv, Retrieve, Fetch, Callback, FailFetch, Goto, Finish
  <2>2. CASE ThreadStart(t)
    <3>1. UNCHANGED <<made, stalled>> /\ on' = [on EXCEPT ![t] = evt[t[1]]] /\ tpc[t] = "start"
      BY <2>2, Zenon DEF ThreadStart, library, history
    <3>2. evt[t[1]] # None => evt[t[1]][1] = t[1] /\ evt[t[1]][2] <= made[t[1]]
      BY RegPair, Zenon DEF CallInv
    <3>3. on'[t] = evt[t[1]] /\ \A q \in Regs : q # t => on'[q] = on[q]
      BY <1>0, <3>1, Zenon
    <3>4. ~stalled[t]
      BY <3>1, Zenon DEF ThreadsInv
    <3> QED
      BY <2>1, <3>1, <3>2, <3>3, <3>4, Zenon DEF ThreadsInv
  <2>3. CASE ~ThreadStart(t)
    <3>1. UNCHANGED <<made, on>>
      BY <1>2, <2>3, Zenon DEF ThreadStep, ListenCl, Accept, ThreadLoop, Recv, Retrieve, Fetch, Callback, FailFetch, library
    <3>2. \A q \in Regs : stalled'[q] => stalled[q] \/ (q = t /\ tpc[t] = "fetch")
      <4>1. CASE Recv(t)
        BY <4>1, Zenon DEF Recv, TypeOK
      <4>2. CASE FailFetch(t)
        BY <4>2, Zenon DEF FailFetch, TypeOK
      <4>3. CASE ~Recv(t) /\ ~FailFetch(t)
        BY <1>2, <2>3, <4>3, Zenon DEF ThreadStep, ListenCl, Accept, ThreadLoop, Retrieve, Fetch, Callback, history
      <4> QED
        BY <4>1, <4>2, <4>3, Zenon
    <3>3. tpc[t] = "fetch" => on[t] # None
      BY RegPair DEF TypeOK, LibraryType
    <3>4. tpc'[t] \in {"listen", "accept", "loop", "recv", "retrieve", "fetch", "callback", "done"}
      <4>1. \E l \in {"listen", "accept", "loop", "recv", "retrieve", "fetch", "callback", "done"} : Goto(t, l)
        BY <1>2, <2>3 DEF ThreadStep, ListenCl, Accept, ThreadLoop, Recv, Retrieve, Fetch, Callback, FailFetch, Finish
      <4> QED
        BY <1>0, <4>1, Zenon DEF Goto
    <3>5. tpc'[t] \notin {"none", "start"}
      BY <3>4
    <3>6. \A q \in Regs : stalled'[q] => on[q] # None /\ tpc'[q] \notin {"none", "start"}
      BY <2>1, <3>2, <3>3, <3>5, Zenon DEF ThreadsInv
    <3> QED
      BY <1>1, <2>1, <3>1, <3>6, Zenon
  <2> QED
    BY <2>2, <2>3, Zenon
<1>3. ASSUME NEW s \in Sessions, RegisterBegin(s) PROVE ThreadsInv'
  <2>1. made' = [made EXCEPT ![s] = @ + 1] /\ UNCHANGED <<on, stalled>> /\ tpc' = [tpc EXCEPT ![<<s, made[s] + 1>>] = "start"]
    BY <1>3, Zenon DEF RegisterBegin, history
  <2>2. \A u \in Sessions : made'[u] \in Int /\ made[u] <= made'[u]
    BY <1>0, <2>1
  <2>3. made'[s] = made[s] + 1 /\ made[s] + 1 \in 1..MaxRegs
    BY <1>0, <1>3, <2>1, EventsAssumption DEF RegisterBegin
  <2>4. \A t \in Regs : t = <<s, made'[s]>> \/ tpc'[t] = tpc[t]
    BY <1>0, <2>1, <2>3, Zenon
  <2>5. <<s, made'[s]>>[1] = s /\ <<s, made'[s]>>[2] = made'[s]
    BY Zenon
  <2>6. ASSUME NEW t \in Regs, tpc'[t] # "none" PROVE t[2] <= made'[t[1]]
    BY <1>0, <2>2, <2>4, <2>5, <2>6 DEF ThreadsInv
  <2>7. ASSUME NEW t \in Regs, on[t] # None PROVE on[t][1] = t[1] /\ on[t][2] <= made'[t[1]]
    <3>1. on[t][2] \in Int /\ t[1] \in Sessions /\ on[t][1] = t[1] /\ on[t][2] <= made[t[1]]
      BY <1>0, <2>7, Zenon DEF ThreadsInv
    <3> QED
      BY <1>0, <2>2, <3>1
  <2>8. ASSUME NEW t \in Regs, stalled[t] PROVE on[t] # None /\ tpc'[t] \notin {"none", "start"}
    <3>1. on[t] # None /\ tpc[t] \notin {"none", "start"} /\ t[2] <= made[t[1]]
      BY <2>8 DEF ThreadsInv
    <3>2. t # <<s, made'[s]>>
      BY <1>0, <2>3, <2>5, <3>1
    <3> QED
      BY <2>4, <3>1, <3>2, Zenon
  <2> QED
    BY <2>1, <2>6, <2>7, <2>8, Zenon DEF ThreadsInv
<1>4. CASE ~(\E t \in Regs : ThreadStep(t) \/ FailFetch(t)) /\ ~(\E s \in Sessions : RegisterBegin(s))
  <2>1. UNCHANGED <<made, on, tpc, stalled>>
    BY <1>4, Zenon DEF Next, ListenerStep, CallStep, SpoolerRefuses, SpoolerEvent, getEventHandle, enqueueEventData, SignalEvent, vars,
                resetSessionManager, FailRequest, SessionEnds, UnregisterBegin, CloseBegin, ServeRequest, LookUpSession, SetSessionEventHandler, ServeClose, FinishCall, library, threads, history
  <2> QED
    BY <1>1, <2>1, Zenon DEF ThreadsInv
<1> QED
  BY <1>2, <1>3, <1>4, Zenon

\* The registrations and threads of a session that has been registered once.
LEMMA Alone ==
    ASSUME TypeOK, HeapInv, ThreadsInv, NEW s \in Sessions, made[s] = 1
    PROVE  /\ <<s, 1>> \in Regs /\ <<s, 1>>[1] = s
           /\ \A t \in Regs : /\ tpc[t] # "none" /\ t[1] = s => t = <<s, 1>>
                              /\ tpc[t] # "none" /\ on[t] = <<s, 1>> => t = <<s, 1>>
           /\ on[<<s, 1>>] # None => on[<<s, 1>>] = <<s, 1>>
           /\ Registered(s) => heap[handle[s]] = <<s, 1>> /\ handle[s] \in Addrs /\ conn[<<s, 1>>] = "up"
<1>1. 1 \in 1..MaxRegs
  BY EventsAssumption
<1>2. <<s, 1>> \in Regs /\ <<s, 1>>[1] = s
  BY <1>1, RegPair, Zenon
<1>3. \A t \in Regs : t[1] = s /\ t[2] <= 1 => t = <<s, 1>>
  BY RegPair, EventsAssumption
<1>4. \A t \in Regs : tpc[t] # "none" /\ (t[1] = s \/ on[t] = <<s, 1>>) => t = <<s, 1>>
  BY <1>2, <1>3, RegPair DEF ThreadsInv
<1>5. on[<<s, 1>>] # None => on[<<s, 1>>] = <<s, 1>>
  BY <1>2, <1>3, Zenon DEF ThreadsInv, TypeOK, LibraryType
<1>6. ASSUME Registered(s) PROVE heap[handle[s]] = <<s, 1>> /\ handle[s] \in Addrs /\ conn[<<s, 1>>] = "up"
  <2>1. handle[s] \in Addrs /\ heap[handle[s]] \in Regs
    BY <1>6, Zenon DEF Registered, TypeOK, ServiceType
  <2>2. heap[handle[s]][1] = s /\ conn[heap[handle[s]]] = "up" /\ heap[handle[s]][2] <= made[s]
    BY <1>6, <2>1, Zenon DEF Registered, HeapInv
  <2> QED
    BY <1>3, <2>1, <2>2, Zenon
<1> QED
  BY <1>2, <1>4, <1>5, <1>6, Zenon

LEMMA FirstWakes == ASSUME TypeOK, HeapInv, FirstInv PROVE NoLostWakeup
<1> SUFFICES ASSUME NEW s \in Sessions, made[s] = 1, Registered(s), queue[s] # <<>>
             PROVE  \/ bytes[heap[handle[s]]] > 0 \/ needToEnd[heap[handle[s]]]
                    \/ lpc = "signal" /\ ptr = handle[s]
                    \/ \E t \in Regs : on[t] = heap[handle[s]] /\ (tpc[t] \in Fetching \/ stalled[t])
  BY Zenon DEF NoLostWakeup
<1>1. /\ <<s, 1>> \in Regs /\ heap[handle[s]] = <<s, 1>> /\ Awake(s)
      /\ on[<<s, 1>>] # None => on[<<s, 1>>] = <<s, 1>>
  BY Alone, Zenon DEF FirstInv, FirstAt
<1>2. tpc[<<s, 1>>] \in Fetching \/ stalled[<<s, 1>>] => on[<<s, 1>>] = <<s, 1>>
  <2>1. \A t \in Regs : tpc[t] \in Fetching => on[t] # None
    BY RegPair DEF TypeOK, LibraryType, Fetching
  <2>2. stalled[<<s, 1>>] => on[<<s, 1>>] # None
    BY <1>1, Zenon DEF FirstInv, ThreadsInv
  <2> QED
    BY <1>1, <2>1, <2>2, Zenon
<1> QED
  BY <1>1, <1>2, Zenon DEF Awake

\* Steps other than the listener's: what queues an event or registers a session is not among
\* them, and the thread goes on fetching unless it is to end, gives up, or found no more.
LEMMA FirstFrame ==
    ASSUME NEW s \in Sessions, FirstAt(s), made'[s] = made[s], Registering(s)' => Registering(s), UNCHANGED listener,
           Registered(s)' => Registered(s) /\ handle'[s] = handle[s], queue[s] = <<>> => queue'[s] = <<>>,
           made[s] = 1 => /\ bytes'[<<s, 1>>] = bytes[<<s, 1>>]
                          /\ needToEnd[<<s, 1>>] => needToEnd'[<<s, 1>>]
                          /\ stalled[<<s, 1>>] => stalled'[<<s, 1>>]
                          /\ tpc[<<s, 1>>] \in Fetching =>
                                \/ tpc'[<<s, 1>>] \in Fetching \/ needToEnd'[<<s, 1>>] \/ stalled'[<<s, 1>>]
                                \/ ~Registered(s)' \/ queue'[s] = <<>>
                          /\ tpc'[<<s, 1>>] = "recv" =>
                                \/ created'[<<s, 1>>]
                                \/ tpc[<<s, 1>>] = "recv" /\ (created[<<s, 1>>] => needToEnd'[<<s, 1>>])
    PROVE  FirstAt(s)'
<1>1. Unmet(s) => Unmet(s)'
  BY Zenon DEF Unmet, listener
<1>2. ASSUME Registered(s)', made[s] = 1, Awake(s), queue'[s] # <<>> PROVE Awake(s)'
  BY <1>2, Zenon DEF Awake, listener
<1> QED
  BY <1>1, <1>2, Zenon DEF FirstAt, listener

LEMMA FirstListener ==
    ASSUME TypeOK, HeapInv, ThreadsInv, NEW s \in Sessions, FirstAt(s),
           ListenerStep \/ SpoolerRefuses \/ \E u \in Sessions : SpoolerEvent(u)
    PROVE  FirstAt(s)'
<1>1. /\ UNCHANGED <<present, handle, heap, made, op, needToEnd, created, tpc, stalled>>
      /\ (Registering(s)' <=> Registering(s)) /\ (Registered(s)' <=> Registered(s))
  BY Zenon DEF ListenerStep, SpoolerRefuses, SpoolerEvent, getEventHandle, enqueueEventData, SignalEvent, service, library, threads, history,
         Registering, Registered
<1>2. CASE getEventHandle \/ SpoolerRefuses \/ \E u \in Sessions : SpoolerEvent(u)
  <2>1. /\ UNCHANGED <<queue, bytes>> /\ lpc \notin {"enqueue", "signal"}
        /\ \/ lpc' \notin {"enqueue", "signal"}
           \/ Registered(target) /\ ptr' = handle[target] /\ target' = target
    BY <1>2, Zenon DEF getEventHandle, SpoolerRefuses, SpoolerEvent, service
  <2>2. Unmet(s) => Unmet(s)'
    BY <1>1, <2>1, Zenon DEF Unmet
  <2>3. Awake(s) => Awake(s)'
    BY <1>1, <2>1, Zenon DEF Awake
  <2> QED
    BY <1>1, <2>1, <2>2, <2>3, Zenon DEF FirstAt
<1>3. CASE enqueueEventData
  <2>1. UNCHANGED <<bytes, target, ptr>> /\ lpc = "enqueue" /\ lpc' = "signal" /\ (target # s => queue'[s] = queue[s])
    BY <1>3 DEF enqueueEventData
  <2>2. Unmet(s) => Unmet(s)'
    BY <1>1, <2>1, Zenon DEF Unmet
  <2>3. ASSUME made[s] = 1, Registered(s), queue'[s] # <<>> PROVE Awake(s)'
    BY <1>1, <2>1, <2>3, Zenon DEF Awake, FirstAt
  <2> QED
    BY <1>1, <2>1, <2>2, <2>3, Zenon DEF FirstAt
<1>4. CASE SignalEvent
  <2>1. UNCHANGED queue /\ lpc = "signal" /\ lpc' = "wait" /\ target' = target
    BY <1>4, Zenon DEF SignalEvent, service
  <2>2. ASSUME made[s] = 1, Registered(s), Awake(s) PROVE Awake(s)'
    <3>1. /\ <<s, 1>> \in Regs /\ heap[handle[s]] = <<s, 1>> /\ handle[s] \in Addrs /\ conn[<<s, 1>>] = "up"
          /\ None \notin Regs /\ bytes \in [Regs -> Nat] /\ ptr \in Addrs /\ heap[ptr] \in Regs \cup {None}
      BY <2>1, <2>2, Alone, RegPair, Zenon DEF TypeOK, ServiceType
    <3>2. bytes[<<s, 1>>] \in Nat /\ (bytes'[<<s, 1>>] = bytes[<<s, 1>>] + 1 \/ (ptr # handle[s] /\ bytes'[<<s, 1>>] = bytes[<<s, 1>>]))
      BY <1>4, <3>1, Zenon DEF SignalEvent
    <3>3. bytes'[<<s, 1>>] > 0 \/ (ptr # handle[s] /\ bytes'[<<s, 1>>] = bytes[<<s, 1>>])
      BY <3>2
    <3> QED
      BY <1>1, <2>2, <3>3, Zenon DEF Awake
  <2>3. Unmet(s) => Unmet(s)'
    BY <1>1, <2>1, Zenon DEF Unmet
  <2> QED
    BY <1>1, <2>1, <2>2, <2>3, Zenon DEF FirstAt
<1> QED
  BY <1>2, <1>3, <1>4, Zenon DEF ListenerStep

LEMMA FirstThread ==
    ASSUME TypeOK, QueueType, HeapInv, ThreadsInv, NEW s \in Sessions, FirstAt(s), NEW t \in Regs, ThreadStep(t) \/ FailFetch(t)
    PROVE  FirstAt(s)'
<1> DEFINE r == <<s, 1>>
<1>1. /\ UNCHANGED <<present, handle, heap, made, op, needToEnd, listener>> /\ tpc[t] # "none"
      /\ (Registering(s)' <=> Registering(s)) /\ (Registered(s)' <=> Registered(s))
      /\ \A q \in Regs : q # t => tpc'[q] = tpc[q]
  BY Zenon DEF ThreadStep, ThreadStart, ListenCl, Accept, ThreadLoop, Recv, Retrieve, Fetch, Callback, FailFetch, service, library,
         Registering, Registered, Goto, Finish, TypeOK, LibraryType
<1>2. tpc[t] # "start" => on[t] \in Regs \/ tpc[t] = "done"
  BY <1>1, Zenon DEF TypeOK, LibraryType
<1>3. made[s] = 1 => /\ r \in Regs /\ (t[1] = s => t = r)
                     /\ (on[t] = r => t = r) /\ (t = r /\ on[t] # None => on[t] = r)
  BY <1>1, Alone, Zenon
<1> HIDE DEF r
<1>4. CASE ThreadStart(t) \/ ListenCl(t) \/ Accept(t) \/ ThreadLoop(t)
  <2>1. UNCHANGED <<queue, bytes, stalled>> /\ tpc[t] # "recv" /\ tpc[t] \notin Fetching
    BY <1>4 DEF ThreadStart, ListenCl, Accept, ThreadLoop, service, history, Fetching
  <2>2. \A q \in Regs : q # on[t] => created'[q] = created[q]
    BY <1>4, Zenon DEF ThreadStart, ListenCl, Accept, ThreadLoop, Finish, library, TypeOK, LibraryType
  <2>3. tpc'[t] = "recv" => created'[on[t]] /\ on[t] \in Regs
    BY <1>2, <1>4, Zenon DEF ThreadStart, ListenCl, Accept, ThreadLoop, Finish, Goto, TypeOK, LibraryType
  <2>4. made[s] = 1 => /\ tpc[r] \in Fetching => tpc'[r] \in Fetching
                       /\ tpc'[r] = "recv" => created'[r] \/ (tpc[r] = "recv" /\ (created[r] => needToEnd'[r]))
    BY <1>1, <1>3, <2>1, <2>2, <2>3, RegPair, Zenon
  <2> QED
    BY <1>1, <2>1, <2>4, FirstFrame, Zenon DEF r
<1>5. CASE Recv(t)
  <2>1. UNCHANGED <<queue, created>> /\ tpc[t] = "recv" /\ on[t] \in Regs /\ on[t] # None
    BY <1>2, <1>5, RegPair, Zenon DEF Recv, service, library
  <2>2. CASE made[s] = 1 /\ t = r
    <3>1. on[t] = r /\ r \in Regs /\ (created[r] \/ needToEnd[r])
      BY <1>3, <2>1, <2>2, Zenon DEF FirstAt, r
    <3>2. /\ tpc'[r] # "recv"
          /\ \/ bytes[r] > 0 /\ (created[r] => tpc'[r] = "retrieve")
             \/ UNCHANGED <<bytes, stalled>> /\ ~(bytes[r] > 0)
      BY <1>5, <2>2, <3>1 DEF Recv, Goto, TypeOK, LibraryType
    <3>3. Awake(s) => Awake(s)'
      <4>1. "retrieve" \in Fetching /\ "recv" \notin Fetching
        BY DEF Fetching
      <4> QED
        BY <1>1, <2>1, <2>2, <3>1, <3>2, <4>1, Zenon DEF Awake, listener, r
    <3>4. Unmet(s) => Unmet(s)'
      BY <1>1, <2>1, Zenon DEF Unmet, listener
    <3> QED
      BY <1>1, <2>1, <2>2, <3>2, <3>3, <3>4, Zenon DEF FirstAt, listener, r
  <2>3. CASE ~(made[s] = 1 /\ t = r)
    <3>1. made[s] = 1 => bytes'[r] = bytes[r] /\ tpc'[r] = tpc[r] /\ stalled'[r] = stalled[r]
      BY <1>1, <1>3, <1>5, <2>1, <2>3, Zenon DEF Recv, TypeOK, ServiceType
    <3> QED
      BY <1>1, <2>1, <3>1, FirstFrame, Zenon DEF r
  <2> QED
    BY <2>2, <2>3, Zenon
<1>6. CASE Retrieve(t) \/ Fetch(t) \/ Callback(t) \/ FailFetch(t)
  <2>1. /\ UNCHANGED <<created, bytes>> /\ tpc[t] \in Fetching /\ on[t] \in Regs /\ on[t] # None /\ t[1] \in Sessions
        /\ tpc'[t] \in Fetching \cup {"loop"}
    <3>1. UNCHANGED <<created, bytes>> /\ tpc[t] \in {"retrieve", "fetch", "callback"}
      BY <1>6, Zenon DEF Retrieve, Fetch, Callback, FailFetch, library
    <3>2. tpc'[t] \in {"retrieve", "fetch", "callback", "loop"}
      BY <1>6, Zenon DEF Retrieve, Fetch, Callback, FailFetch, Goto, TypeOK, LibraryType
    <3> QED
      BY <1>2, <3>1, <3>2, RegPair DEF Fetching
  <2>2. queue[s] = <<>> => queue'[s] = <<>>
    <3>1. UNCHANGED queue \/ (queue' = Popped(t[1]) /\ queue[t[1]] # <<>>)
      BY <1>6 DEF Retrieve, Fetch, Callback, FailFetch, HasData, service
    <3> QED
      BY <2>1, <3>1, Zenon DEF Popped, QueueType
  <2>3. \/ tpc'[t] \in Fetching \/ needToEnd'[on[t]] \/ stalled'[t] = TRUE
        \/ ~Registered(t[1])' \/ queue'[t[1]] = <<>>
    <3>1. "fetch" \in Fetching /\ "callback" \in Fetching /\ "retrieve" \in Fetching
      BY DEF Fetching
    <3>2. CASE Retrieve(t)
      BY <1>1, <3>1, <3>2, Zenon DEF Retrieve, Goto, TypeOK, LibraryType
    <3>3. CASE Fetch(t)
      <4>1. Registered(t[1])' <=> Registered(t[1])
        BY <1>1, Zenon DEF Registered
      <4> QED
        BY <3>1, <3>3, <4>1, Zenon DEF Fetch, HasData, Goto, TypeOK, LibraryType
    <3>4. CASE Callback(t)
      BY <3>1, <3>4, Zenon DEF Callback, Goto, TypeOK, LibraryType
    <3>5. CASE FailFetch(t)
      BY <3>5, Zenon DEF FailFetch, TypeOK
    <3> QED
      BY <1>6, <3>2, <3>3, <3>4, <3>5, Zenon
  <2>4. \A q \in Regs : stalled[q] => stalled'[q]
    BY <1>6, Zenon DEF Retrieve, Fetch, Callback, FailFetch, history, TypeOK
  <2>5. "loop" # "recv" /\ "recv" \notin Fetching
    BY DEF Fetching
  <2>6. CASE t = r
    BY <1>1, <1>3, <2>1, <2>2, <2>3, <2>4, <2>5, <2>6, FirstFrame, RegPair, Zenon DEF r
  <2>7. CASE t # r
    <3>1. made[s] = 1 => tpc'[r] = tpc[r]
      BY <1>1, <1>3, <2>7, Zenon
    <3> QED
      BY <1>1, <1>3, <2>1, <2>2, <2>4, <3>1, FirstFrame, Zenon DEF r
  <2> QED
    BY <2>6, <2>7, Zenon
<1> QED
  BY <1>4, <1>5, <1>6, Zenon DEF ThreadStep

LEMMA FirstService ==
    ASSUME TypeOK, QueueType, CallInv, HeapInv, NEW s \in Sessions, FirstAt(s),
           ServeRequest \/ \E u \in Sessions : SessionEnds(u)
    PROVE  FirstAt(s)'
<1>1. UNCHANGED <<made, evt, needToEnd, created, tpc, bytes, listener, stalled>> /\ (Registering(s)' => Registering(s))
  BY DEF ServeRequest, LookUpSession, SetSessionEventHandler, ServeClose, SessionEnds, Answer, Registering, library, threads, history
<1>2. ASSUME Registered(s)' => Registered(s) /\ handle'[s] = handle[s], queue'[s] \in {queue[s], <<>>} PROVE FirstAt(s)'
  BY <1>1, <1>2, FirstFrame, Zenon
<1>3. ASSUME NEW u \in Sessions, remove(u) PROVE FirstAt(s)'
  <2>1. /\ present'[u] = FALSE /\ queue' = [queue EXCEPT ![u] = <<>>]
        /\ \A v \in Sessions \ {u} : handle'[v] = handle[v] /\ present'[v] = present[v]
        /\ \A b \in Addrs : heap'[b] = IF b = handle[u] THEN None ELSE heap[b]
    BY <1>3, RemoveEffect, Zenon DEF TypeOK
  <2>2. queue'[s] \in {queue[s], <<>>}
    BY <2>1, Zenon DEF QueueType
  <2>3. u # s => handle'[s] = handle[s] /\ present'[s] = present[s]
    BY <2>1, Zenon
  <2>4. u = s => ~Registered(s)'
    BY <2>1, Zenon DEF Registered
  <2>5. u # s /\ Registered(s)' => Registered(s)
    BY <2>1, <2>3 DEF Registered, TypeOK, ServiceType
  <2> QED
    BY <1>2, <2>2, <2>3, <2>4, <2>5, Zenon
<1>4. ASSUME NEW u \in Sessions, NEW r \in Regs \cup {None}, setEventHandle(u, r), r = None \/ s # u PROVE FirstAt(s)'
  <2>1. /\ UNCHANGED present /\ handle'[u] \in free /\ handle'[u] \in Addrs /\ heap'[handle'[u]] = r
        /\ \A v \in Sessions \ {u} : handle'[v] = handle[v]
        /\ \A b \in Addrs \ {handle'[u]} : heap'[b] \in {None, heap[b]}
    <3>1. ServiceType /\ UNCHANGED present
      BY <1>4, Zenon DEF TypeOK, setEventHandle
    <3> QED
      BY <1>4, <3>1, SetHandle, Zenon
  <2>2. queue'[s] \in {queue[s], <<>>}
    BY <1>4, Zenon DEF setEventHandle, QueueType
  <2>3. s # u /\ handle[s] # None => handle[s] \in Addrs /\ handle[s] # handle'[u]
    <3>1. handle[s] # None => handle[s] \in Addrs /\ handle[s] \notin free
      <4>1. handle[s] \in Addrs \cup {None}
        BY Zenon DEF TypeOK, ServiceType
      <4> QED
        BY <4>1, Zenon DEF HeapInv
    <3> QED
      BY <2>1, <3>1, Zenon
  <2>4. Registered(s)' => Registered(s) /\ handle'[s] = handle[s]
    BY <1>4, <2>1, <2>3, Zenon DEF Registered
  <2> QED
    BY <1>2, <2>2, <2>4, Zenon
<1>5. CASE ServeRequest
  <2>1. op.s \in Sessions /\ op.rc \in {"pending", "found"} /\ evt[op.s] \in Regs \cup {None}
    BY <1>5, Zenon DEF ServeRequest, LookUpSession, SetSessionEventHandler, ServeClose, CallInv, TypeOK, LibraryType, Calls, Idle
  <2>2. CASE UNCHANGED service
    BY <1>2, <2>2, Zenon DEF service, Registered
  <2>3. CASE SetSessionEventHandler /\ op.call = "register" /\ setEventHandle(op.s, evt[op.s]) /\ s = op.s
    <3>0. Registering(s)
      BY <2>1, <2>3, Zenon DEF Registering
    <3>1. Registering(s) /\ made[s] > 0 /\ made[s] \in Nat
      BY <3>0, Numbered, Zenon
    <3>2. evt[op.s] # None /\ UNCHANGED queue /\ ~Registering(s)'
      <4>1. evt[op.s] = <<s, made[s]>> /\ made[s] \in 1..MaxRegs
        BY <2>3, <3>0, Numbered, Zenon
      <4>2. UNCHANGED queue
        BY <2>3, <4>1, RegPair DEF setEventHandle
      <4> QED
        BY <1>5, <2>3, <4>1, <4>2, RegPair DEF ServeRequest, LookUpSession, SetSessionEventHandler, ServeClose, Answer, Registering
    <3>3. made[s] = 1 => Unmet(s)
      BY <3>1, Zenon DEF FirstAt
    <3>4. UNCHANGED <<made, lpc, target, tpc, created, needToEnd>>
      BY <1>1, <1>5, Zenon DEF listener
    <3>5. ASSUME made[s] = 1
          PROVE  queue'[s] = <<>> /\ ~(target' = s /\ lpc' \in {"enqueue", "signal"})
      BY <3>2, <3>3, <3>4, <3>5, Zenon DEF Unmet
    <3>6. made'[s] # 0 /\ ~Registering(s)' /\ (made'[s] = 1 => made[s] = 1)
      BY <3>1, <3>2, <3>4
    <3>7. made'[s] = 1 => (tpc'[<<s, 1>>] = "recv" => created'[<<s, 1>>] \/ needToEnd'[<<s, 1>>])
      BY <3>4, <3>6, Zenon DEF FirstAt
    <3> QED
      BY <3>5, <3>6, <3>7, Zenon DEF FirstAt
  <2> QED
    BY <1>3, <1>4, <1>5, <2>1, <2>2, <2>3, Zenon DEF ServeRequest, LookUpSession, SetSessionEventHandler, ServeClose
<1> QED
  BY <1>3, <1>5, Zenon DEF SessionEnds

LEMMA FirstLibrary ==
    ASSUME TypeOK, CallInv, NEW s \in Sessions, FirstAt(s), \/ FinishCall \/ FailRequest
           \/ \E u \in Sessions : RegisterBegin(u) \/ UnregisterBegin(u) \/ CloseBegin(u)
    PROVE  FirstAt(s)'
<1>1. UNCHANGED <<present, handle, heap, queue, bytes, listener, stalled>> /\ (Registered(s)' <=> Registered(s))
  BY Zenon DEF FinishCall, FailRequest, RegisterBegin, UnregisterBegin, CloseBegin, service, Registered, history
<1>2. ASSUME NEW u \in Sessions, RegisterBegin(u) PROVE FirstAt(s)'
  <2>1. /\ made[u] + 1 \in 1..MaxRegs /\ made' = [made EXCEPT ![u] = @ + 1] /\ made \in [Sessions -> 0..MaxRegs]
        /\ created' = [created EXCEPT ![<<u, made[u] + 1>>] = TRUE] /\ tpc' = [tpc EXCEPT ![<<u, made[u] + 1>>] = "start"]
        /\ op'.s = u /\ UNCHANGED needToEnd /\ made[s] \in Nat
    BY <1>2, EventsAssumption DEF RegisterBegin, Begin, TypeOK, LibraryType
  <2>2. CASE u # s
    <3>1. made'[s] = made[s] /\ ~Registering(s)'
      BY <2>1, <2>2, Zenon DEF Registering
    <3>2. tpc'[<<s, 1>>] = tpc[<<s, 1>>] /\ created'[<<s, 1>>] = created[<<s, 1>>]
      <4>1. <<s, 1>> # <<u, made[u] + 1>> /\ <<s, 1>> \in Regs
        BY <2>2, EventsAssumption DEF Regs
      <4> QED
        BY <2>1, <4>1, Zenon DEF TypeOK, LibraryType
    <3> QED
      BY <1>1, <2>1, <3>1, <3>2, FirstFrame, Zenon
  <2>3. CASE u = s
    <3>1. made'[s] = made[s] + 1
      BY <2>1, <2>3, Zenon
    <3>2. CASE made[s] = 0
      <4>1. Unmet(s)' /\ ~Registered(s) /\ tpc'[<<s, 1>>] = "start"
        BY <1>1, <2>1, <2>3, <3>2, EventsAssumption, RegPair DEF FirstAt, Unmet, listener, TypeOK, LibraryType
      <4> QED
        BY <1>1, <4>1, Zenon DEF FirstAt
    <3>3. CASE made[s] # 0
      <4>1. made'[s] # 0 /\ made'[s] # 1
        BY <2>1, <3>1, <3>3
      <4> QED
        BY <4>1, Zenon DEF FirstAt
    <3> QED
      BY <3>2, <3>3, Zenon
  <2> QED
    BY <2>2, <2>3, Zenon
<1>3. ASSUME UNCHANGED <<made, tpc>>, ~Registering(s)',
             \A q \in Regs : /\ needToEnd[q] => needToEnd'[q]
                             /\ created[q] => created'[q] \/ needToEnd'[q]
      PROVE  FirstAt(s)'
  <2>1. <<s, 1>> \in Regs
    BY EventsAssumption DEF Regs
  <2> QED
    BY <1>1, <1>3, <2>1, FirstFrame, Zenon
<1>4. ASSUME NEW u \in Sessions, UnregisterBegin(u) \/ CloseBegin(u) PROVE FirstAt(s)'
  <2>1. closeSessionEventThread(u) /\ UNCHANGED <<made, tpc>> /\ op'.call # "register"
    BY <1>4 DEF UnregisterBegin, CloseBegin, Begin, threads
  <2> QED
    BY <1>3, <2>1, ForgetEffect, Zenon DEF TypeOK, Registering
<1>5. CASE FailRequest
  BY <1>3, <1>5, Zenon DEF FailRequest, Answer, Registering, threads
<1>6. CASE FinishCall
  <2>1. op.s \in Sessions /\ UNCHANGED <<made, tpc>> /\ ~Registering(s)'
    BY <1>6, Zenon DEF FinishCall, CallInv, TypeOK, LibraryType, Calls, Idle, threads, Registering
  <2>2. CASE UNCHANGED <<needToEnd, created>>
    BY <1>3, <2>1, <2>2, Zenon
  <2>3. CASE closeSessionEventThread(op.s)
    BY <1>3, <2>1, <2>3, ForgetEffect, Zenon DEF TypeOK
  <2> QED
    BY <1>6, <2>2, <2>3, Zenon DEF FinishCall
<1> QED
  BY <1>2, <1>4, <1>5, <1>6, Zenon

LEMMA FirstStep == ASSUME TypeOK, QueueType, CallInv, HeapInv, FirstInv, [Next]_vars PROVE FirstInv'
<1>1. ThreadsInv'
  BY ThreadsStep, Zenon DEF FirstInv
<1>2. ASSUME NEW s \in Sessions PROVE FirstAt(s)'
  <2>1. ThreadsInv /\ FirstAt(s)
    BY Zenon DEF FirstInv
  <2>2. CASE resetSessionManager
    <3>1. /\ UNCHANGED <<listener, made, op, bytes, needToEnd, tpc, created, stalled>> /\ queue'[s] = <<>> /\ ~Registered(s)'
      BY <2>2, Zenon DEF resetSessionManager, library, threads, Registered
    <3> QED
      BY <2>1, <3>1, FirstFrame, Zenon DEF Registering
  <2>3. CASE UNCHANGED vars
    BY <2>1, <2>3, FirstFrame, Zenon DEF vars, service, library, threads, history, Registering, Registered
  <2> QED
    BY <2>1, <2>2, <2>3, FirstListener, FirstThread, FirstService, FirstLibrary, Zenon DEF Next, CallStep
<1> QED
  BY <1>1, <1>2, Zenon DEF FirstInv

-----------------------------------------------------------------------------
(* What follows for every behaviour. *)
LEMMA InitEvents == Init => EventsInv
<1> SUFFICES ASSUME Init PROVE EventsInv
  BY Zenon
<1>1. TypeOK /\ FlowInv
  BY InitType, InitFlow, Zenon
<1>2. /\ op = Idle /\ \A s \in Sessions : handle[s] = None /\ evt[s] = None /\ made[s] = 0 /\ queue[s] = <<>>
      /\ \A a \in Addrs : heap[a] = None
      /\ \A t \in Regs : tpc[t] = "none" /\ on[t] = None
      /\ lpc = "wait" /\ free = Addrs
  BY Zenon DEF Init
<1>3. \A s \in Sessions : ~Registered(s) /\ ~HasEvent(s) /\ ~Registering(s) /\ op.s # s
  BY <1>2, RegPair, Zenon DEF Registered, HasEvent, Registering, Idle
<1>4. HeapInv
  BY <1>2, <1>3, Zenon DEF HeapInv
<1>5. CallInv
  BY <1>2, <1>3, Zenon DEF CallInv, Idle, RegistrationsAgree, ClientRegistered
<1>6. FirstInv
  <2>1. ThreadsInv
    BY <1>2, Zenon DEF ThreadsInv, Init
  <2>2. \A s \in Sessions : Unmet(s)
    BY <1>2, <1>3, Zenon DEF Unmet
  <2>3. \A s \in Sessions : made[s] # 1
    <3>1. \A s \in Sessions : made[s] = 0
      BY <1>2, Zenon
    <3>2. 0 # 1
      OBVIOUS
    <3> QED
      BY <3>1, <3>2, Zenon
  <2>4. \A s \in Sessions : FirstAt(s)
    BY <2>2, <2>3, Zenon DEF FirstAt
  <2> QED
    BY <2>1, <2>4, Zenon DEF FirstInv
<1> QED
  BY <1>1, <1>4, <1>5, <1>6, Zenon DEF EventsInv

\* EventsInv is an invariant of session events, for any number of sessions, registrations,
\* events and faults.
THEOREM EventsInvariant == Spec => []EventsInv
<1>1. EventsInv /\ [Next]_vars => EventsInv'
  BY TypeStep, FlowStep, HeapStep, CallInvStep, FirstStep, Zenon DEF EventsInv, FlowInv
<1> QED
  BY <1>1, InitEvents, PTL DEF Spec

\* Each listener thread calls back with the events of its session in the order in which they
\* were emitted, and no event is called back twice, by one thread or by two, however often
\* the session is registered and whatever fails.
THEOREM CallbacksInOrder == Spec => []InOrder
<1>1. EventsInv => InOrder
  <2>1. SUFFICES ASSUME EventsInv, NEW t \in Regs
                 PROVE  /\ \A i, j \in DOMAIN got[t] : i < j => got[t][i] < got[t][j]
                        /\ \A u \in Regs \ {t} : t[1] = u[1] =>
                              \A i \in DOMAIN got[t], j \in DOMAIN got[u] : got[t][i] # got[u][j]
    BY Zenon DEF InOrder
  <2>2. \A u \in Regs : got[u] \in Seq(Nat)
    BY <2>1, Zenon DEF EventsInv, FlowInv, QueueType
  <2>3. \A u \in Regs : DOMAIN got[u] = 1..Len(got[u]) /\ \A i \in 1..Len(got[u]) : got[u][i] \in Nat
    BY <2>2
  <2>4. Increasing(got[t]) /\ Apart
    BY <2>1, Zenon DEF EventsInv, FlowInv, OrderInv, ThreadOrder
  <2> QED
    BY <2>3, <2>4, Zenon DEF Increasing, Apart, Taken
<1> QED
  BY <1>1, EventsInvariant, PTL

\* Between calls the client and the service agree on the registration of a session.
THEOREM RegistrationsDoAgree == Spec => []RegistrationsAgree
<1>1. EventsInv => RegistrationsAgree
  BY Zenon DEF EventsInv, CallInv
<1> QED
  BY <1>1, EventsInvariant, PTL

\* The first registration of a session loses no wake-up, whatever the order of the steps of the
\* listener, of the threads and of the calls of this session and the others.
THEOREM WakeupsAreKept == Spec => []NoLostWakeup
<1>1. EventsInv => NoLostWakeup
  BY FirstWakes, Zenon DEF EventsInv
<1> QED
  BY <1>1, EventsInvariant, PTL
=============================================================================
