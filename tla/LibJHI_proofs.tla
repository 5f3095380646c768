--------------------------- MODULE LibJHI_proofs ---------------------------
(***************************************************************************)
(* What libjhi guarantees for any number of threads, handles and sessions: *)
(* appHandle is there as long as the application holds it, every handle in *)
(* the list names a session, and libjhi and the service agree on who owns  *)
(* what.  LibInv, the inductive invariant, says who owns each session      *)
(* structure: the list, or one thread that is creating a session.          *)
(***************************************************************************)
EXTENDS LibJHI, FiniteSetTheorems, TLAPS

Structures == [sid : Sids \cup {None}, pid : Pids \cup {"self"}]
Places == {"idle", "deinit", "created", "add", "close", "send", "clear", "clearFirst", "cleared"}

TypeOK == /\ platform \in {"linux", "android"}
          /\ ReferenceCount \in Nat /\ inits \in Nat
          /\ SessionsList \subseteq Addrs
          /\ mem \in [Addrs -> Structures \cup {None}]
          /\ pc \in [Threads -> Places]
          /\ h \in [Threads -> Addrs \cup {None}]
          /\ sid \in [Threads -> Sids \cup {None}]
          /\ used \subseteq Sids /\ service \subseteq used
          /\ shared \in service \cup {None}
          /\ owners \in [Sids -> Nat]
          /\ deadPids \subseteq Pids
          /\ calls \in Nat /\ faults \in Nat /\ deinits \in Nat /\ lostReplies \in Nat

\* A thread between the allocation of a structure and its place in the list owns it.
Owns(t) == pc[t] \in {"created", "add"}
OwnerKnows(t) == /\ h[t] \in Addrs \ SessionsList
                 /\ mem[h[t]] # None
                 /\ pc[t] = "created" => mem[h[t]].sid = None
                 /\ pc[t] = "add" => mem[h[t]].sid = sid[t] /\ sid[t] \in used
OneOwner == /\ \A t \in Threads : Owns(t) => OwnerKnows(t)
            /\ \A t, u \in Threads : Owns(t) /\ Owns(u) /\ h[t] = h[u] => t = u
ListNamesSessions == \A a \in SessionsList : mem[a] # None /\ mem[a].sid \in used
\* No structure is forgotten.
NoLeak == \A a \in Addrs : mem[a] # None =>
              a \in SessionsList \/ \E t \in Threads : Owns(t) /\ h[t] = a

\* The references are those the application holds and those it is giving back.
Deiniting == {t \in Threads : pc[t] = "deinit"}
References == ReferenceCount = inits + Cardinality(Deiniting)
NoListWithoutHandle == ReferenceCount = 0 => SessionsList = {}

\* Before the first JHI_Deinit that drops appHandle, it is there for every call.
Entered == \A t \in Threads : pc[t] # "idle" /\ deinits = 0 => ReferenceCount > 0
ClearsOnAndroid == \A t \in Threads : pc[t] \in {"clear", "clearFirst"} => platform = "android"
GoneHasNoOwner == \A s \in Sids \ service : owners[s] = 0

\* The structures that name a session, wherever they are.
To(s) == {a \in Addrs : mem[a] # None /\ mem[a].sid = s}
Agreed == deinits = 0 /\ lostReplies = 0 /\ (platform = "linux" \/ faults = 0)
OwnersMatch == Agreed => \A s \in service : owners[s] = Cardinality(To(s))

HandleInv == TypeOK /\ OneOwner /\ ListNamesSessions /\ NoLeak /\ NoListWithoutHandle
LibInv == HandleInv /\ References /\ Entered /\ ClearsOnAndroid /\ GoneHasNoOwner /\ OwnersMatch

-----------------------------------------------------------------------------
(* Who owns the structures. *)
USE DEF Goto, Return, Enter, Fault, Places, Structures, local, app, lib, counts, daemon

\* A step of thread t that leaves the structures alone and in which t neither gets nor
\* gives up one.
Quiet(t) == /\ UNCHANGED <<SessionsList, mem>>
            /\ used \subseteq used'
            /\ ~Owns(t) /\ ~Owns(t)'
            /\ \A u \in Threads \ {t} : pc'[u] = pc[u] /\ h'[u] = h[u] /\ sid'[u] = sid[u]
LEMMA QuietStep ==
  ASSUME HandleInv, TypeOK', NEW t \in Threads, Quiet(t), NoListWithoutHandle'
  PROVE  HandleInv'
  <1>1. OneOwner' BY DEF HandleInv, OneOwner, Owns, OwnerKnows, Quiet
  <1>2. ListNamesSessions' BY Zenon DEF HandleInv, ListNamesSessions, Quiet
  <1>3. NoLeak' BY DEF HandleInv, NoLeak, Owns, Quiet
  <1> QED BY <1>1, <1>2, <1>3, Zenon DEF HandleInv

LEMMA InitializeHandles == ASSUME HandleInv, NEW t \in Threads, JHI_Initialize(t) PROVE HandleInv'
  <1>1. TypeOK' BY DEF HandleInv, TypeOK, JHI_Initialize, Again
  <1>0. ReferenceCount \in Nat /\ (ReferenceCount = 0 => SessionsList = {})
     BY Zenon DEF HandleInv, TypeOK, NoListWithoutHandle
  <1>2. SessionsList' = SessionsList
     BY <1>0 DEF JHI_Initialize
  <1>4. Quiet(t)
     BY <1>2, Zenon DEF JHI_Initialize, Quiet, Owns
  <1>3. NoListWithoutHandle'
     BY DEF HandleInv, TypeOK, JHI_Initialize, Again, NoListWithoutHandle
  <1> QED BY <1>1, <1>3, <1>4, QuietStep, Zenon

LEMMA CreateCallHandles == ASSUME HandleInv, NEW t \in Threads, CreateCall(t) PROVE HandleInv'
  <1>0. PICK s \in Sids : Opens(s) /\ mem' = [mem EXCEPT ![h[t]] = [sid |-> s, pid |-> @.pid]] /\ sid' = [sid EXCEPT ![t] = s]
     BY Zenon DEF CreateCall
  <1>1. OwnerKnows(t) /\ pc[t] = "created" /\ mem[h[t]] \in Structures
     BY DEF HandleInv, TypeOK, OneOwner, Owns, OwnerKnows, CreateCall
  <1>2. TypeOK' BY <1>0, <1>1 DEF HandleInv, TypeOK, CreateCall, OwnerKnows, Opens
  <1>3. OneOwner' BY <1>0, <1>1, LibJHIAssumption DEF HandleInv, TypeOK, OneOwner, Owns, OwnerKnows, CreateCall, Opens
  <1>4. ListNamesSessions' BY <1>0, <1>1 DEF HandleInv, TypeOK, ListNamesSessions, CreateCall, OwnerKnows, Opens
  <1>5. NoLeak' BY <1>0, <1>1 DEF HandleInv, TypeOK, NoLeak, Owns, CreateCall, OwnerKnows
  <1>6. NoListWithoutHandle' BY Zenon DEF HandleInv, NoListWithoutHandle, CreateCall
  <1> QED BY <1>2, <1>3, <1>4, <1>5, <1>6, Zenon DEF HandleInv

LEMMA InitializeFailsHandles == ASSUME HandleInv, NEW t \in Threads, JHI_InitializeFails(t) PROVE HandleInv'
  <1>1. TypeOK' BY DEF HandleInv, TypeOK, JHI_InitializeFails
  <1>2. Quiet(t) BY Zenon DEF HandleInv, TypeOK, JHI_InitializeFails, Quiet, Owns
  <1>3. NoListWithoutHandle' BY Zenon DEF HandleInv, JHI_InitializeFails, NoListWithoutHandle
  <1> QED BY <1>1, <1>2, <1>3, QuietStep, Zenon

LEMMA BeginDeinitHandles == ASSUME HandleInv, NEW t \in Threads, JHI_Deinit(t) PROVE HandleInv'
  <1>1. TypeOK' BY DEF HandleInv, TypeOK, JHI_Deinit
  <1>2. Quiet(t) BY Zenon DEF HandleInv, TypeOK, JHI_Deinit, Quiet, Owns
  <1>3. NoListWithoutHandle' BY Zenon DEF HandleInv, JHI_Deinit, NoListWithoutHandle
  <1> QED BY <1>1, <1>2, <1>3, QuietStep, Zenon

LEMMA BeginCloseHandles == ASSUME HandleInv, NEW t \in Threads, JHI_CloseSession(t) PROVE HandleInv'
  <1>1. TypeOK' BY Zenon DEF HandleInv, TypeOK, JHI_CloseSession
  <1>2. Quiet(t) BY Zenon DEF HandleInv, TypeOK, JHI_CloseSession, Quiet, Owns
  <1>3. NoListWithoutHandle' BY Zenon DEF HandleInv, JHI_CloseSession, NoListWithoutHandle
  <1> QED BY <1>1, <1>2, <1>3, QuietStep, Zenon

LEMMA CloseFailsHandles == ASSUME HandleInv, NEW t \in Threads, CloseFails(t) PROVE HandleInv'
  <1>1. TypeOK' BY DEF HandleInv, TypeOK, CloseFails, CloseKeeps, Closes, Gone
  <1>2. Quiet(t) BY Zenon DEF HandleInv, TypeOK, CloseFails, CloseKeeps, Closes, Gone, Quiet, Owns
  <1>3. NoListWithoutHandle' BY Zenon DEF HandleInv, CloseFails, CloseKeeps, Closes, Gone, NoListWithoutHandle
  <1> QED BY <1>1, <1>2, <1>3, QuietStep, Zenon

LEMMA CloseInvalidHandles == ASSUME HandleInv, NEW t \in Threads, CloseInvalid(t) PROVE HandleInv'
  <1>1. TypeOK' BY Zenon DEF HandleInv, TypeOK, CloseInvalid
  <1>2. Quiet(t) BY Zenon DEF HandleInv, TypeOK, CloseInvalid, Quiet, Owns
  <1>3. NoListWithoutHandle' BY Zenon DEF HandleInv, CloseInvalid, NoListWithoutHandle
  <1> QED BY <1>1, <1>2, <1>3, QuietStep, Zenon

LEMMA BeginSendHandles == ASSUME HandleInv, NEW t \in Threads, getSessionID(t) PROVE HandleInv'
  <1>0. \A a \in SessionsList : mem[a] \in Structures
     BY Zenon DEF HandleInv, TypeOK, ListNamesSessions
  <1>1. TypeOK' BY <1>0 DEF HandleInv, TypeOK, getSessionID
  <1>2. Quiet(t) BY Zenon DEF HandleInv, TypeOK, getSessionID, Quiet, Owns
  <1>3. NoListWithoutHandle' BY Zenon DEF HandleInv, getSessionID, NoListWithoutHandle
  <1> QED BY <1>1, <1>2, <1>3, QuietStep, Zenon

LEMMA SendDoneHandles == ASSUME HandleInv, NEW t \in Threads, SendDone(t) PROVE HandleInv'
  <1>1. TypeOK' BY DEF HandleInv, TypeOK, SendDone
  <1>2. Quiet(t) BY Zenon DEF HandleInv, TypeOK, SendDone, Quiet, Owns
  <1>3. NoListWithoutHandle' BY Zenon DEF HandleInv, SendDone, NoListWithoutHandle
  <1> QED BY <1>1, <1>2, <1>3, QuietStep, Zenon

LEMMA SendDeadHandles == ASSUME HandleInv, NEW t \in Threads, SendDead(t) PROVE HandleInv'
  <1>1. TypeOK' BY DEF HandleInv, TypeOK, SendDead, Gone
  <1>2. Quiet(t) BY Zenon DEF HandleInv, TypeOK, SendDead, Gone, Quiet, Owns
  <1>3. NoListWithoutHandle' BY Zenon DEF HandleInv, SendDead, Gone, NoListWithoutHandle
  <1> QED BY <1>1, <1>2, <1>3, QuietStep, Zenon

LEMMA ClearBeginHandles == ASSUME HandleInv, NEW t \in Threads, ClearBegin(t) PROVE HandleInv'
  <1>1. TypeOK' BY Zenon DEF HandleInv, TypeOK, ClearBegin
  <1>2. Quiet(t) BY Zenon DEF HandleInv, TypeOK, ClearBegin, Quiet, Owns
  <1>3. NoListWithoutHandle' BY Zenon DEF HandleInv, ClearBegin, NoListWithoutHandle
  <1> QED BY <1>1, <1>2, <1>3, QuietStep, Zenon

LEMMA ClearFreedHandles == ASSUME HandleInv, NEW t \in Threads, ClearFreed(t) PROVE HandleInv'
  <1>1. TypeOK' BY Zenon DEF HandleInv, TypeOK, ClearFreed, AfterClear
  <1>2. Quiet(t) BY Zenon DEF HandleInv, TypeOK, ClearFreed, AfterClear, Quiet, Owns
  <1>3. NoListWithoutHandle' BY Zenon DEF HandleInv, ClearFreed, AfterClear, NoListWithoutHandle
  <1> QED BY <1>1, <1>2, <1>3, QuietStep, Zenon

\* A step of thread t that takes structures out of the list and frees them.
Drops(t, as) == /\ as \subseteq SessionsList
                /\ SessionsList' = SessionsList \ as
                /\ mem' = Freed(as)
                /\ used \subseteq used'
                /\ ~Owns(t) /\ ~Owns(t)'
                /\ \A u \in Threads \ {t} : pc'[u] = pc[u] /\ h'[u] = h[u] /\ sid'[u] = sid[u]
LEMMA DropStep ==
  ASSUME HandleInv, TypeOK', NEW t \in Threads, NEW as, Drops(t, as), NoListWithoutHandle'
  PROVE  HandleInv'
  <1>0. /\ \A a \in as : mem'[a] = None
        /\ \A a \in Addrs \ as : mem'[a] = mem[a]
        /\ \A u \in Threads : Owns(u)' => u # t /\ Owns(u)
     BY Zenon DEF HandleInv, TypeOK, Drops, Freed, Owns
  <1>1. OneOwner'
     <2>1. ASSUME NEW u \in Threads, Owns(u)' PROVE OwnerKnows(u)'
        <3>1. OwnerKnows(u) /\ u # t BY <1>0, <2>1, Zenon DEF HandleInv, OneOwner
        <3> QED BY <1>0, <3>1, Zenon DEF OwnerKnows, Drops
     <2> QED BY <1>0, <2>1, Zenon DEF HandleInv, OneOwner, Drops
  <1>2. ListNamesSessions' BY <1>0, Zenon DEF HandleInv, TypeOK, ListNamesSessions, Drops
  <1>3. NoLeak'
     <2>1. SUFFICES ASSUME NEW a \in Addrs, mem'[a] # None, a \notin SessionsList'
                    PROVE  \E u \in Threads : Owns(u)' /\ h'[u] = a
        BY Zenon DEF NoLeak
     <2>2. PICK u \in Threads : Owns(u) /\ h[u] = a
        BY <1>0, <2>1, Zenon DEF HandleInv, NoLeak, Drops
     <2> QED BY <2>2, Zenon DEF Drops, Owns
  <1> QED BY <1>1, <1>2, <1>3, Zenon DEF HandleInv

\* What is freed stays typed.
LEMMA FreedType == ASSUME TypeOK, NEW as PROVE Freed(as) \in [Addrs -> Structures \cup {None}]
  BY Zenon DEF TypeOK, Freed

LEMMA DeinitHandles == ASSUME HandleInv, NEW t \in Threads, Deinit(t) PROVE HandleInv'
  <1>0. TypeOK /\ ReferenceCount \in Nat BY Zenon DEF HandleInv, TypeOK
  <1>1. CASE ReferenceCount = 1
     <2>1. TypeOK' BY <1>0, <1>1, FreedType DEF TypeOK, Deinit
     <2>2. Drops(t, SessionsList) /\ NoListWithoutHandle'
        BY <1>0, <1>1 DEF TypeOK, Deinit, Drops, Owns, NoListWithoutHandle
     <2> QED BY <2>1, <2>2, DropStep, Zenon
  <1>2. CASE ReferenceCount # 1
     <2>1. TypeOK' BY <1>0, <1>2 DEF TypeOK, Deinit
     <2>2. Quiet(t) BY <1>0, <1>2, Zenon DEF TypeOK, Deinit, Quiet, Owns
     <2>3. NoListWithoutHandle' BY <1>0, <1>2 DEF HandleInv, Deinit, NoListWithoutHandle
     <2> QED BY <2>1, <2>2, <2>3, QuietStep, Zenon
  <1> QED BY <1>1, <1>2, Zenon

LEMMA CloseDoneHandles == ASSUME HandleInv, NEW t \in Threads, CloseDone(t) PROVE HandleInv'
  <1>1. TypeOK' BY FreedType DEF HandleInv, TypeOK, CloseDone, Closes, Gone, removeSessionHandle
  <1>2. Drops(t, {h[t]})
     BY Zenon DEF HandleInv, TypeOK, CloseDone, Closes, Gone, removeSessionHandle, SessionHandleValid, Drops, Owns
  <1>3. NoListWithoutHandle' BY Zenon DEF HandleInv, CloseDone, removeSessionHandle, NoListWithoutHandle
  <1> QED BY <1>1, <1>2, <1>3, DropStep, Zenon

LEMMA RegisterHandles == ASSUME HandleInv, NEW t \in Threads, RegisterFindsDead(t) PROVE HandleInv'
  <1>0. PICK a \in SessionsList : removeSessionHandle(a) BY Zenon DEF RegisterFindsDead
  <1>1. TypeOK' BY <1>0, FreedType, Zenon DEF HandleInv, TypeOK, RegisterFindsDead, removeSessionHandle
  <1>2. Drops(t, {a}) BY <1>0, Zenon DEF HandleInv, TypeOK, RegisterFindsDead, removeSessionHandle, Drops, Owns
  <1>3. NoListWithoutHandle' BY <1>0, Zenon DEF HandleInv, RegisterFindsDead, removeSessionHandle, NoListWithoutHandle
  <1> QED BY <1>1, <1>2, <1>3, DropStep, Zenon

LEMMA ToClearListed ==
  ASSUME NEW t, NEW as \in ToClear(t) PROVE as \subseteq SessionsList
  BY DEF ToClear, DeadOwners

LEMMA ClearHandles == ASSUME HandleInv, NEW t \in Threads, Clear(t) PROVE HandleInv'
  <1>00. PICK bs \in ToClear(t) :
           /\ \E failed \in SUBSET bs :
                /\ IF failed = {} THEN UNCHANGED faults ELSE Fault
                /\ Cleared(bs \ failed)
           /\ SessionsList' = SessionsList \ bs
           /\ mem' = Freed(bs)
     BY Zenon DEF Clear
  <1>01. bs \subseteq SessionsList BY ToClearListed, Zenon
  <1>0. PICK failed \in SUBSET bs :
           /\ IF failed = {} THEN UNCHANGED faults ELSE Fault
           /\ Cleared(bs \ failed)
     BY <1>00, Zenon
  <1>1. TypeOK'
     <2>1. owners' \in [Sids -> Nat]
        <3> DEFINE as == bs \ failed
                   n(s) == Cardinality({a \in as : mem[a].sid = s})
        <3>1. ASSUME NEW s \in Sids PROVE n(s) \in Nat
           <4>1. {a \in as : mem[a].sid = s} \subseteq Addrs BY <1>01, Zenon DEF HandleInv, TypeOK
           <4> QED BY <4>1, FS_Subset, FS_CardinalityType, LibJHIAssumption, Zenon
        <3>2. \A s \in Sids : owners[s] \in Nat BY Zenon DEF HandleInv, TypeOK
        <3> HIDE DEF n
        <3>3. \A s \in Sids : (IF n(s) < owners[s] THEN owners[s] - n(s) ELSE 0) \in Nat
           BY <3>1, <3>2
        <3> USE DEF n
        <3> QED BY <1>0, <3>3, Zenon DEF Cleared
     <2>2. shared' \in service' \cup {None} BY <1>0, Zenon DEF HandleInv, TypeOK, Cleared
     <2>3. mem' \in [Addrs -> Structures \cup {None}] BY <1>00, FreedType, Zenon DEF HandleInv
     <2>4. faults' \in Nat BY <1>0 DEF HandleInv, TypeOK
     <2> QED BY <1>00, <1>0, <2>1, <2>2, <2>3, <2>4, Zenon DEF HandleInv, TypeOK, Clear, AfterClear, Cleared
  <1>2. Drops(t, bs)
     BY <1>00, <1>01, <1>0 DEF HandleInv, TypeOK, Clear, AfterClear, Cleared, Drops, Owns
  <1>3. NoListWithoutHandle' BY Zenon DEF HandleInv, Clear, NoListWithoutHandle
  <1> QED BY <1>1, <1>2, <1>3, DropStep, Zenon

\* A free structure becomes the property of the thread that creates a session.
LEMMA AllocateStep ==
  ASSUME HandleInv, TypeOK', NEW t \in Threads, NEW p \in Pids \cup {"self"}, Allocate(t, p),
         ~Owns(t), pc' = [pc EXCEPT ![t] = "created"], UNCHANGED <<ReferenceCount, SessionsList, sid, used>>
  PROVE  HandleInv'
  <1>0. PICK a \in Addrs : /\ mem[a] = None
                           /\ mem' = [mem EXCEPT ![a] = [sid |-> None, pid |-> p]]
                           /\ h' = [h EXCEPT ![t] = a]
     BY Zenon DEF Allocate
  <1>1. a \notin SessionsList /\ \A u \in Threads : Owns(u) => h[u] # a
     BY <1>0, Zenon DEF HandleInv, ListNamesSessions, OneOwner, OwnerKnows
  <1>2. mem'[a] # None /\ mem'[a].sid = None
     BY <1>0, LibJHIAssumption DEF HandleInv, TypeOK
  <1>3. Owns(t)' /\ h'[t] = a /\ OwnerKnows(t)'
     BY <1>0, <1>1, <1>2 DEF HandleInv, TypeOK, Owns, OwnerKnows
  <1>4. ASSUME NEW u \in Threads \ {t} PROVE Owns(u)' = Owns(u) /\ (Owns(u) => OwnerKnows(u)')
     BY <1>0, <1>1 DEF HandleInv, TypeOK, OneOwner, Owns, OwnerKnows
  <1>5. OneOwner'
     BY <1>0, <1>1, <1>3, <1>4 DEF HandleInv, TypeOK, OneOwner
  <1>6. ListNamesSessions' BY <1>0, <1>1, Zenon DEF HandleInv, TypeOK, ListNamesSessions
  <1>7. NoLeak'
     <2>1. SUFFICES ASSUME NEW b \in Addrs, b # a, mem'[b] # None, b \notin SessionsList'
                    PROVE  \E u \in Threads : Owns(u)' /\ h'[u] = b
        BY <1>3, Zenon DEF NoLeak
     <2>2. PICK u \in Threads : Owns(u) /\ h[u] = b
        BY <1>0, <2>1 DEF HandleInv, TypeOK, NoLeak
     <2> QED BY <1>0, <1>4, <2>1, <2>2, Zenon DEF HandleInv, TypeOK
  <1> QED BY <1>5, <1>6, <1>7, Zenon DEF HandleInv, NoListWithoutHandle

LEMMA CreateAllocHandles == ASSUME HandleInv, NEW t \in Threads, CreateAlloc(t) PROVE HandleInv'
  <1>1. TypeOK' BY DEF HandleInv, TypeOK, CreateAlloc, Allocate
  <1> QED BY <1>1, AllocateStep, Zenon DEF CreateAlloc, Owns

LEMMA CreateProcessAllocHandles ==
  ASSUME HandleInv, NEW t \in Threads, CreateProcessAlloc(t) PROVE HandleInv'
  <1>0. PICK p \in Pids \ deadPids : Allocate(t, p) BY Zenon DEF CreateProcessAlloc
  <1>1. TypeOK' BY <1>0 DEF HandleInv, TypeOK, CreateProcessAlloc, Allocate
  <1> QED BY <1>0, <1>1, AllocateStep, Zenon DEF CreateProcessAlloc, Owns

\* The owner gives its structure to the list, or frees it.
LEMMA GiveUpStep ==
  ASSUME HandleInv, TypeOK', NEW t \in Threads, Owns(t), NoListWithoutHandle', used \subseteq used',
         pc' = [pc EXCEPT ![t] = "idle"], h' = [h EXCEPT ![t] = None], sid' = [sid EXCEPT ![t] = None],
         \/ /\ pc[t] = "add"
            /\ SessionsList' = SessionsList \cup {h[t]} /\ mem' = mem
         \/ SessionsList' = SessionsList /\ mem' = Freed({h[t]})
  PROVE  HandleInv'
  <1>0. OwnerKnows(t) BY Zenon DEF HandleInv, OneOwner
  <1>1. /\ ~Owns(t)'
        /\ \A u \in Threads \ {t} : Owns(u)' = Owns(u) /\ h'[u] = h[u] /\ pc'[u] = pc[u] /\ sid'[u] = sid[u]
     BY Zenon DEF HandleInv, TypeOK, Owns
  <1>2. /\ SessionsList \subseteq SessionsList' /\ SessionsList' \subseteq SessionsList \cup {h[t]}
        /\ \A a \in Addrs \ {h[t]} : mem'[a] = mem[a]
        /\ \A a \in Addrs : mem'[a] # None => mem[a] # None
     BY Zenon DEF HandleInv, TypeOK, Freed
  <1>3. OneOwner'
     <2>1. ASSUME NEW u \in Threads, Owns(u)' PROVE OwnerKnows(u)'
        <3>1. u # t /\ Owns(u) /\ OwnerKnows(u) /\ h[u] # h[t] BY <1>1, <2>1, Zenon DEF HandleInv, OneOwner
        <3> QED BY <1>1, <1>2, <3>1 DEF OwnerKnows
     <2> QED BY <1>1, <2>1, Zenon DEF HandleInv, OneOwner
  <1>4. ListNamesSessions'
     BY <1>0, <1>2 DEF HandleInv, TypeOK, ListNamesSessions, OwnerKnows, Freed
  <1>5. NoLeak'
     <2>1. SUFFICES ASSUME NEW a \in Addrs, mem'[a] # None, a \notin SessionsList'
                    PROVE  \E u \in Threads : Owns(u)' /\ h'[u] = a
        BY Zenon DEF NoLeak
     <2>2. PICK u \in Threads : Owns(u) /\ h[u] = a
        BY <1>2, <2>1, Zenon DEF HandleInv, NoLeak
     <2>3. a # h[t] BY <2>1, Zenon DEF Freed
     <2> QED BY <1>1, <2>2, <2>3, Zenon
  <1> QED BY <1>3, <1>4, <1>5, Zenon DEF HandleInv

LEMMA CreateFailsHandles == ASSUME HandleInv, NEW t \in Threads, CreateFails(t) PROVE HandleInv'
  <1>1. TypeOK' BY FreedType DEF HandleInv, TypeOK, CreateFails, Opens
  <1>2. used \subseteq used' BY Zenon DEF CreateFails, Opens
  <1>3. NoListWithoutHandle' BY Zenon DEF HandleInv, CreateFails, NoListWithoutHandle
  <1> QED BY <1>1, <1>2, <1>3, GiveUpStep, Zenon DEF CreateFails, Owns

LEMMA CreateAddHandles == ASSUME HandleInv, NEW t \in Threads, CreateAdd(t) PROVE HandleInv'
  <1>0. OwnerKnows(t) BY Zenon DEF HandleInv, OneOwner, CreateAdd, Owns
  <1>1. TypeOK' BY <1>0, FreedType DEF HandleInv, TypeOK, CreateAdd, addSessionHandle, OwnerKnows
  <1>2. NoListWithoutHandle' BY DEF HandleInv, CreateAdd, NoListWithoutHandle, addSessionHandle
  <1>3. CASE ReferenceCount > 0
     BY <1>1, <1>2, <1>3, GiveUpStep, Zenon DEF CreateAdd, Owns, addSessionHandle
  <1>4. CASE ~(ReferenceCount > 0)
     BY <1>1, <1>2, <1>4, GiveUpStep, Zenon DEF CreateAdd, Owns, addSessionHandle
  <1> QED BY <1>3, <1>4, Zenon

LEMMA WorldHandles ==
  ASSUME HandleInv, ServiceLoses \/ ProcessEnds \/ UNCHANGED vars PROVE HandleInv'
  <1>1. TypeOK' BY DEF HandleInv, TypeOK, ServiceLoses, ProcessEnds, Gone, vars
  <1>2. UNCHANGED <<ReferenceCount, SessionsList, mem, pc, h, sid, used>>
     BY Zenon DEF ServiceLoses, ProcessEnds, Gone, vars
  <1> QED BY <1>1, <1>2, Zenon DEF HandleInv, OneOwner, ListNamesSessions, NoLeak, NoListWithoutHandle,
                            Owns, OwnerKnows

-----------------------------------------------------------------------------
(* The reference count, and the calls that are inside. *)

\* The steps of a call other than JHI_Initialize and the two of JHI_Deinit.
CreateStep(t) == \/ CreateAlloc(t) \/ CreateProcessAlloc(t) \/ CreateCall(t)
                 \/ CreateFails(t) \/ CreateAdd(t)
CloseStep(t) == JHI_CloseSession(t) \/ CloseDone(t) \/ CloseFails(t) \/ CloseInvalid(t)
SendStep(t) == getSessionID(t) \/ SendDone(t) \/ SendDead(t) \/ RegisterFindsDead(t)
ClearStep(t) == ClearBegin(t) \/ Clear(t) \/ ClearFreed(t)
OtherStep(t) == \/ JHI_InitializeFails(t) \/ CreateStep(t) \/ CloseStep(t)
                \/ SendStep(t) \/ ClearStep(t)
World == ServiceLoses \/ ProcessEnds \/ UNCHANGED vars

LEMMA NextCases ==
  ASSUME [Next]_vars
  PROVE  \/ \E t \in Threads : JHI_Initialize(t) \/ JHI_Deinit(t) \/ Deinit(t) \/ OtherStep(t)
         \/ World
  BY Zenon DEF Next, OtherStep, CreateStep, CloseStep, SendStep, ClearStep, World

\* HandleInv is inductive.
LEMMA HandlesStep == ASSUME HandleInv, [Next]_vars PROVE HandleInv'
  BY Zenon, NextCases, InitializeHandles, InitializeFailsHandles, BeginDeinitHandles, DeinitHandles,
     CreateAllocHandles, CreateProcessAllocHandles, CreateCallHandles, CreateFailsHandles,
     CreateAddHandles, BeginCloseHandles, CloseDoneHandles, CloseFailsHandles, CloseInvalidHandles,
     BeginSendHandles, SendDoneHandles, SendDeadHandles, RegisterHandles, ClearBeginHandles,
     ClearHandles, ClearFreedHandles, WorldHandles
     DEF OtherStep, CreateStep, CloseStep, SendStep, ClearStep, World

\* Such a step leaves the references alone, and moves t only, from a place inside a call,
\* or with the application holding a handle.
LEMMA OtherMoves ==
  ASSUME TypeOK, NEW t \in Threads, OtherStep(t)
  PROVE  /\ UNCHANGED <<ReferenceCount, inits, deinits, platform>>
         /\ pc[t] # "deinit" /\ pc'[t] # "deinit"
         /\ \A u \in Threads \ {t} : pc'[u] = pc[u]
         /\ pc[t] # "idle" \/ pc'[t] = "idle" \/ inits > 0
         /\ pc'[t] \in {"clear", "clearFirst"} => platform = "android"
  <1>1. CASE JHI_InitializeFails(t) BY <1>1, Zenon DEF TypeOK, JHI_InitializeFails
  <1>2. CASE CreateStep(t)
     BY <1>2, Zenon DEF TypeOK, CreateStep, CreateAlloc, CreateProcessAlloc, CreateCall, CreateFails, CreateAdd
  <1>3. CASE CloseStep(t)
     BY <1>3, Zenon DEF TypeOK, CloseStep, JHI_CloseSession, CloseDone, CloseFails, CloseInvalid
  <1>4. CASE SendStep(t)
     BY <1>4, Zenon DEF TypeOK, SendStep, getSessionID, SendDone, SendDead, RegisterFindsDead
  <1>5. CASE ClearStep(t)
     BY <1>5, Zenon DEF TypeOK, ClearStep, ClearBegin, Clear, ClearFreed, AfterClear
  <1> QED BY <1>1, <1>2, <1>3, <1>4, <1>5, Zenon DEF OtherStep

LEMMA DeinitingFinite ==
  IsFiniteSet(Deiniting) /\ IsFiniteSet(Deiniting') /\ Cardinality(Deiniting) \in Nat
  BY FS_Subset, FS_CardinalityType, LibJHIAssumption, Zenon DEF Deiniting

\* Every reference is held by the application or is being given back.
LEMMA ReferencesStep == ASSUME TypeOK, References, [Next]_vars PROVE References'
  <1>1. ASSUME NEW t \in Threads, JHI_Initialize(t) PROVE References'
     <2>1. Deiniting' = Deiniting BY <1>1, Zenon DEF JHI_Initialize, Deiniting
     <2>2. ReferenceCount' = ReferenceCount + 1 /\ inits' = inits + 1
        BY <1>1 DEF TypeOK, JHI_Initialize, Again
     <2> QED BY <2>1, <2>2, DeinitingFinite DEF TypeOK, References
  <1>2. ASSUME NEW t \in Threads, JHI_Deinit(t) PROVE References'
     <2>1. Deiniting' = Deiniting \cup {t} /\ t \notin Deiniting
        BY <1>2, Zenon DEF TypeOK, JHI_Deinit, Deiniting
     <2>2. Cardinality(Deiniting') = Cardinality(Deiniting) + 1
        BY <2>1, DeinitingFinite, FS_AddElement, Zenon
     <2>3. ReferenceCount' = ReferenceCount /\ inits' = inits - 1 BY <1>2, Zenon DEF JHI_Deinit
     <2> QED BY <2>2, <2>3, DeinitingFinite DEF TypeOK, References
  <1>3. ASSUME NEW t \in Threads, Deinit(t) PROVE References'
     <2>1. Deiniting' = Deiniting \ {t} /\ t \in Deiniting
        BY <1>3, Zenon DEF TypeOK, Deinit, Deiniting
     <2>2. Cardinality(Deiniting') = Cardinality(Deiniting) - 1
        BY <2>1, DeinitingFinite, FS_RemoveElement, Zenon
     <2>3. Cardinality(Deiniting) > 0
        BY <2>1, DeinitingFinite, FS_EmptySet
     <2>4. ReferenceCount > 0 BY <2>3, DeinitingFinite DEF TypeOK, References
     <2>5. ReferenceCount' = ReferenceCount - 1 /\ inits' = inits
        BY <1>3, <2>4 DEF TypeOK, Deinit
     <2> QED BY <2>2, <2>5, DeinitingFinite DEF TypeOK, References
  <1>4. ASSUME NEW t \in Threads, OtherStep(t) PROVE References'
     <2>1. Deiniting' = Deiniting BY <1>4, OtherMoves, Zenon DEF Deiniting
     <2> QED BY <1>4, <2>1, OtherMoves, Zenon DEF References
  <1>5. CASE World
     BY <1>5, Zenon DEF World, ServiceLoses, ProcessEnds, vars, References, Deiniting
  <1> QED BY <1>1, <1>2, <1>3, <1>4, <1>5, NextCases, Zenon

LEMMA HeldCounts == ASSUME TypeOK, References PROVE ReferenceCount >= inits
  BY DeinitingFinite DEF TypeOK, References

\* A call that is inside found appHandle, and only the last JHI_Deinit takes it away.
LEMMA EnteredStep ==
  ASSUME TypeOK, References, Entered, ClearsOnAndroid, [Next]_vars PROVE Entered' /\ ClearsOnAndroid'
  <1>0. ReferenceCount >= inits BY HeldCounts, Zenon
  <1>1. ASSUME NEW t \in Threads, JHI_Initialize(t) PROVE Entered' /\ ClearsOnAndroid'
     BY <1>1 DEF TypeOK, JHI_Initialize, Again, Entered, ClearsOnAndroid
  <1>2. ASSUME NEW t \in Threads, JHI_Deinit(t) PROVE Entered' /\ ClearsOnAndroid'
     BY <1>0, <1>2 DEF TypeOK, JHI_Deinit, Entered, ClearsOnAndroid
  <1>3. ASSUME NEW t \in Threads, Deinit(t) PROVE Entered' /\ ClearsOnAndroid'
     BY <1>3 DEF TypeOK, Deinit, Entered, ClearsOnAndroid
  <1>4. ASSUME NEW t \in Threads, OtherStep(t) PROVE Entered' /\ ClearsOnAndroid'
     BY <1>0, <1>4, OtherMoves DEF TypeOK, Entered, ClearsOnAndroid
  <1>5. CASE World
     BY <1>5, Zenon DEF World, ServiceLoses, ProcessEnds, vars, Entered, ClearsOnAndroid
  <1> QED BY <1>1, <1>2, <1>3, <1>4, <1>5, NextCases, Zenon

-----------------------------------------------------------------------------
(* Owners at the service and handles in the application. *)

LEMMA ToFinite ==
  ASSUME NEW s
  PROVE  /\ IsFiniteSet(To(s)) /\ Cardinality(To(s)) \in Nat
         /\ IsFiniteSet(To(s)') /\ Cardinality(To(s)') \in Nat
  BY FS_Subset, FS_CardinalityType, LibJHIAssumption, Zenon DEF To

\* The dead owners' structures that name session s.
Dead(as, s) == {a \in as : mem[a].sid = s}
LEMMA DeadFinite ==
  ASSUME TypeOK, NEW as, as \subseteq SessionsList, NEW s
  PROVE  IsFiniteSet(Dead(as, s)) /\ Cardinality(Dead(as, s)) \in Nat
  <1>1. Dead(as, s) \subseteq Addrs BY Zenon DEF Dead, TypeOK
  <1> QED BY <1>1, FS_Subset, FS_CardinalityType, LibJHIAssumption, Zenon

\* What clearDeadOwnersSessions and clearDestroyedSessions make of one session's owners.
LEMMA ClearedOwners ==
  ASSUME HandleInv, NEW as, as \subseteq SessionsList, Cleared(as), NEW s \in Sids
  PROVE  /\ s \in service \ {shared} /\ Dead(as, s) # {} => owners'[s] = 0 /\ s \notin service'
         /\ ~(s \in service \ {shared} /\ Dead(as, s) # {}) =>
               /\ owners'[s] = IF Cardinality(Dead(as, s)) < owners[s]
                               THEN owners[s] - Cardinality(Dead(as, s)) ELSE 0
               /\ s \in service' <=> s \in service
  <1>1. Dead(as, s) # {} <=> \E a \in as : mem[a].sid = s BY Zenon DEF Dead
  <1>2. owners'[s] = IF s \in service \ {shared} /\ \E a \in as : mem[a].sid = s THEN 0
                     ELSE IF Cardinality(Dead(as, s)) < owners[s]
                          THEN owners[s] - Cardinality(Dead(as, s)) ELSE 0
     BY Zenon DEF Cleared, Dead
  <1>3. (s \in service') <=> s \in service /\ (s = shared \/ ~\E a \in as : mem[a].sid = s)
     BY Zenon DEF Cleared
  <1> QED BY <1>1, <1>2, <1>3, Zenon

\* A session the service does not have has no owners there.
LEMMA GoneStep == ASSUME HandleInv, GoneHasNoOwner, [Next]_vars PROVE GoneHasNoOwner'
  <1> USE DEF GoneHasNoOwner
  <1>1. ASSUME UNCHANGED daemon PROVE GoneHasNoOwner' BY <1>1, Zenon
  <1>2. ASSUME NEW ss, Gone(ss) PROVE GoneHasNoOwner' BY <1>2, Zenon DEF Gone
  <1>3. ASSUME NEW t \in Threads, CreateStep(t) PROVE GoneHasNoOwner'
     <2>1. UNCHANGED daemon \/ \E s \in Sids : Opens(s)
        BY <1>3, Zenon DEF CreateStep, CreateAlloc, CreateProcessAlloc, CreateCall, CreateFails, CreateAdd
     <2>2. ASSUME NEW s \in Sids, Opens(s) PROVE GoneHasNoOwner' BY <2>2, Zenon DEF HandleInv, TypeOK, Opens
     <2> QED BY <1>1, <2>1, <2>2, Zenon
  <1>4. ASSUME NEW t \in Threads, CloseStep(t) PROVE GoneHasNoOwner'
     <2>1. UNCHANGED daemon \/ \E s : Closes(s)
        BY <1>4, Zenon DEF CloseStep, JHI_CloseSession, CloseDone, CloseFails, CloseInvalid
     <2>2. ASSUME NEW s, Closes(s) PROVE GoneHasNoOwner'
        <3>1. CASE Gone({s}) BY <1>2, <3>1, Zenon
        <3>2. CASE ~Gone({s}) BY <2>2, <3>2 DEF HandleInv, TypeOK, Closes
        <3> QED BY <3>1, <3>2, Zenon
     <2> QED BY <1>1, <2>1, <2>2, Zenon
  <1>5. ASSUME NEW t \in Threads, Clear(t) PROVE GoneHasNoOwner'
     <2>0. PICK bs \in ToClear(t) : \E failed \in SUBSET bs : Cleared(bs \ failed)
        BY <1>5, Zenon DEF Clear
     <2>1. PICK failed \in SUBSET bs : Cleared(bs \ failed) BY <2>0, Zenon
     <2> DEFINE as == bs \ failed
     <2>2. as \subseteq SessionsList BY ToClearListed, Zenon
     <2> HIDE DEF as
     <2>3. SUFFICES ASSUME NEW s \in Sids \ service' PROVE owners'[s] = 0 BY Zenon
     <2>4. Cardinality(Dead(as, s)) \in Nat BY <2>2, DeadFinite, Zenon DEF HandleInv
     <2>5. s \in service => s \in service \ {shared} /\ Dead(as, s) # {}
        BY <2>1, <2>2, <2>3, ClearedOwners, Zenon DEF as
     <2>6. s \notin service => owners[s] = 0 BY <2>3, Zenon
     <2>7. s \notin service => ~(Cardinality(Dead(as, s)) < owners[s])
        <3> DEFINE n == Cardinality(Dead(as, s))
        <3>1. n \in Nat BY <2>4, Zenon
        <3> HIDE DEF n
        <3>2. s \notin service => ~(n < owners[s]) BY <3>1, <2>6
        <3> QED BY <3>2, Zenon DEF n
     <2> QED BY <2>1, <2>2, <2>3, <2>5, <2>7, ClearedOwners, Zenon DEF as
  <1>6. ASSUME NEW t \in Threads, SendStep(t) PROVE GoneHasNoOwner'
     <2>1. UNCHANGED daemon \/ \E ss : Gone(ss)
        BY <1>6, Zenon DEF SendStep, getSessionID, SendDone, SendDead, RegisterFindsDead
     <2> QED BY <1>1, <1>2, <2>1, Zenon
  <1>7. ASSUME NEW t \in Threads, JHI_Initialize(t) \/ JHI_InitializeFails(t) \/ JHI_Deinit(t) \/ Deinit(t)
                                  \/ ClearBegin(t) \/ ClearFreed(t)
        PROVE  GoneHasNoOwner'
     BY <1>1, <1>7, Zenon DEF JHI_Initialize, JHI_InitializeFails, JHI_Deinit, Deinit, ClearBegin, ClearFreed
  <1>8. CASE World
     <2>1. UNCHANGED daemon \/ \E ss : Gone(ss) BY <1>8, Zenon DEF World, ServiceLoses, ProcessEnds, vars
     <2> QED BY <1>1, <1>2, <2>1, Zenon
  <1> QED BY <1>3, <1>4, <1>5, <1>6, <1>7, <1>8, NextCases, Zenon DEF OtherStep, ClearStep

\* Steps that leave the service and what the structures name alone.
LEMMA SameOwners ==
  ASSUME OwnersMatch, UNCHANGED daemon, Agreed' => Agreed, \A s \in service : To(s)' = To(s)
  PROVE  OwnersMatch'
  BY Zenon DEF OwnersMatch

\* Sessions end at the service, and no structure of another session changes.
LEMMA GoneOwners ==
  ASSUME TypeOK, OwnersMatch, Agreed' => Agreed, NEW ss, Gone(ss),
         \A s \in service \ ss : To(s)' = To(s)
  PROVE  OwnersMatch'
  BY Zenon DEF TypeOK, OwnersMatch, Gone

\* The structure a creation fills in is one more handle to the session.
LEMMA CreateCallOwners ==
  ASSUME HandleInv, GoneHasNoOwner, OwnersMatch, NEW t \in Threads, CreateCall(t) PROVE OwnersMatch'
  <1>0. PICK s \in Sids : /\ Opens(s)
                          /\ mem' = [mem EXCEPT ![h[t]] = [sid |-> s, pid |-> @.pid]]
     BY Zenon DEF CreateCall
  <1>1. h[t] \in Addrs /\ mem[h[t]] # None /\ mem[h[t]].sid = None /\ None \notin Sids
     BY LibJHIAssumption, Zenon DEF HandleInv, TypeOK, OneOwner, Owns, OwnerKnows, CreateCall
  <1>2. mem'[h[t]] # None /\ mem'[h[t]].sid = s
     <2>1. mem[h[t]] \in Structures BY <1>1, Zenon DEF HandleInv, TypeOK
     <2> QED BY <1>0, <1>1, <2>1, LibJHIAssumption DEF HandleInv, TypeOK
  <1>3. \A a \in Addrs \ {h[t]} : mem'[a] = mem[a] BY <1>0, Zenon DEF HandleInv, TypeOK
  <1>4. \A q \in Sids \ {s} : To(q)' = To(q) BY <1>1, <1>2, <1>3, Zenon DEF To
  <1>5. To(s)' = To(s) \cup {h[t]} /\ h[t] \notin To(s) BY <1>1, <1>2, <1>3, Zenon DEF To
  <1>6. Cardinality(To(s)') = Cardinality(To(s)) + 1 BY <1>5, ToFinite, FS_AddElement, Zenon
  <1>7. Agreed' => Agreed BY Zenon DEF CreateCall, Agreed
  <1>8. Agreed' => owners[s] = Cardinality(To(s))
     <2>1. CASE s \in service BY <1>7, <2>1, Zenon DEF OwnersMatch
     <2>2. CASE s \notin service
        <3>1. s \notin used BY <1>0, <1>1, <2>2, Zenon DEF Opens, HandleInv, TypeOK
        <3>2. To(s) = {}
           <4>1. SUFFICES ASSUME NEW a \in Addrs, mem[a] # None, mem[a].sid = s PROVE FALSE BY Zenon DEF To
           <4>2. a \notin SessionsList BY <3>1, <4>1, Zenon DEF HandleInv, ListNamesSessions
           <4>3. PICK u \in Threads : Owns(u) /\ h[u] = a BY <4>1, <4>2, Zenon DEF HandleInv, NoLeak
           <4> QED BY <1>1, <3>1, <4>1, <4>3, Zenon DEF HandleInv, OneOwner, OwnerKnows, Owns
        <3> QED BY <2>2, <3>2, FS_EmptySet, Zenon DEF GoneHasNoOwner
     <2> QED BY <2>1, <2>2, Zenon
  <1>9. /\ owners'[s] = owners[s] + 1 /\ service' = service \cup {s}
        /\ \A q \in Sids \ {s} : owners'[q] = owners[q]
     BY <1>0, Zenon DEF Opens, HandleInv, TypeOK
  <1> QED BY <1>4, <1>6, <1>7, <1>8, <1>9, Zenon DEF OwnersMatch, HandleInv, TypeOK

\* A close takes one handle away, and one entry or the session.
LEMMA CloseDoneOwners ==
  ASSUME HandleInv, OwnersMatch, NEW t \in Threads, CloseDone(t) PROVE OwnersMatch'
  <1>0. PICK s \in Sids : s = mem[h[t]].sid
     BY Zenon DEF HandleInv, TypeOK, ListNamesSessions, CloseDone, SessionHandleValid
  <1>1. h[t] \in SessionsList /\ mem[h[t]] # None /\ mem[h[t]].sid = s /\ h[t] \in Addrs
     BY <1>0, Zenon DEF HandleInv, TypeOK, ListNamesSessions, CloseDone, SessionHandleValid
  <1>2. Closes(s) BY <1>0, Zenon DEF CloseDone
  <1>3. mem'[h[t]] = None /\ \A a \in Addrs \ {h[t]} : mem'[a] = mem[a]
     BY <1>1, Zenon DEF CloseDone, removeSessionHandle, Freed
  <1>4. \A q \in Sids \ {s} : To(q)' = To(q) BY <1>1, <1>3, Zenon DEF To
  <1>5. To(s)' = To(s) \ {h[t]} /\ h[t] \in To(s) BY <1>1, <1>3 DEF To
  <1>6. Cardinality(To(s)') = Cardinality(To(s)) - 1 BY <1>5, ToFinite, FS_RemoveElement, Zenon
  <1>7. Agreed' => Agreed BY Zenon DEF CloseDone, Agreed
  <1>8. CASE ~Gone({s})
     <2>1. service' = service /\ owners' = [owners EXCEPT ![s] = @ - 1]
        BY <1>2, <1>8, Zenon DEF Closes
     <2>2. Cardinality(To(s)) > 0 BY <1>5, ToFinite, FS_EmptySet
     <2>3. Agreed' => \A q \in service : owners[q] = Cardinality(To(q)) BY <1>7, Zenon DEF OwnersMatch
     <2>4. ASSUME Agreed', NEW q \in service PROVE owners'[q] = Cardinality(To(q)')
        <3>1. CASE q = s
           <4>1. owners[s] = Cardinality(To(s)) /\ owners[s] > 0 BY <2>2, <2>3, <2>4, <3>1, Zenon
           <4>2. owners'[s] = owners[s] - 1 BY <2>1, <4>1, Zenon DEF HandleInv, TypeOK
           <4> QED BY <1>6, <3>1, <4>1, <4>2, Zenon
        <3>2. CASE q # s BY <1>4, <2>1, <2>3, <2>4, <3>2, Zenon DEF HandleInv, TypeOK
        <3> QED BY <3>1, <3>2, Zenon
     <2> QED BY <2>1, <2>4, Zenon DEF OwnersMatch
  <1>9. CASE Gone({s})
     BY <1>4, <1>7, <1>9, GoneOwners, Zenon DEF HandleInv, TypeOK
  <1> QED BY <1>8, <1>9, Zenon

\* Clearing the sessions of dead processes takes as many entries as handles.
LEMMA ClearOwners ==
  ASSUME HandleInv, ClearsOnAndroid, GoneHasNoOwner, OwnersMatch, NEW t \in Threads, Clear(t)
  PROVE  OwnersMatch'
  <1>4. PICK as \in ToClear(t) :
           /\ \E failed \in SUBSET as :
                /\ IF failed = {} THEN UNCHANGED faults ELSE Fault
                /\ Cleared(as \ failed)
           /\ mem' = Freed(as)
     BY Zenon DEF Clear
  <1>1. PICK failed \in SUBSET as :
           /\ IF failed = {} THEN UNCHANGED faults ELSE Fault
           /\ Cleared(as \ failed)
     BY <1>4, Zenon
  <1>2. SUFFICES ASSUME Agreed', NEW s \in service' PROVE owners'[s] = Cardinality(To(s)')
     BY Zenon DEF OwnersMatch
  <1>3. Agreed /\ failed = {}
     BY <1>1, <1>2 DEF Agreed, HandleInv, TypeOK, Clear, ClearsOnAndroid
  <1>5. as \subseteq SessionsList /\ Cleared(as) /\ mem' = Freed(as)
     <2>1. as \ failed = as BY <1>3
     <2> QED BY <1>1, <1>4, <2>1, ToClearListed, Zenon
  <1>6. s \in service /\ s \in Sids BY <1>2, <1>5, Zenon DEF Cleared, HandleInv, TypeOK
  <1>7. owners'[s] = IF Cardinality(Dead(as, s)) < owners[s]
                     THEN owners[s] - Cardinality(Dead(as, s)) ELSE 0
     BY <1>2, <1>5, <1>6, ClearedOwners, Zenon
  <1>8. owners[s] = Cardinality(To(s)) BY <1>3, <1>6, Zenon DEF OwnersMatch
  <1>9. Dead(as, s) \subseteq To(s) /\ To(s)' = To(s) \ Dead(as, s)
     BY <1>5, Zenon DEF Dead, To, Freed, HandleInv, TypeOK, ListNamesSessions
  <1>10. /\ Cardinality(Dead(as, s)) <= Cardinality(To(s))
         /\ Cardinality(To(s) \ Dead(as, s)) = Cardinality(To(s)) - Cardinality(Dead(as, s))
     <2>1. To(s) \cap Dead(as, s) = Dead(as, s) BY <1>9, Zenon
     <2>2. IsFiniteSet(To(s)) BY ToFinite, Zenon
     <2>3. Cardinality(Dead(as, s)) <= Cardinality(To(s)) BY <1>9, <2>2, FS_Subset, Zenon
     <2>4. Cardinality(To(s) \ Dead(as, s)) = Cardinality(To(s)) - Cardinality(To(s) \cap Dead(as, s))
        BY <2>2, FS_Difference, Zenon
     <2> QED BY <2>1, <2>3, <2>4, Zenon
  <1> QED
     <2> DEFINE n == Cardinality(Dead(as, s))  m == Cardinality(To(s))
     <2>1. n \in Nat /\ m \in Nat BY <1>5, DeadFinite, ToFinite, Zenon DEF HandleInv
     <2>2. n <= m /\ Cardinality(To(s)') = m - n BY <1>9, <1>10, Zenon
     <2>3. owners'[s] = IF n < m THEN m - n ELSE 0 BY <1>7, <1>8, Zenon
     <2> HIDE DEF n, m
     <2> QED BY <2>1, <2>2, <2>3

LEMMA OwnersStep == ASSUME LibInv, [Next]_vars PROVE OwnersMatch'
  <1> USE DEF LibInv
  <1>0. HandleInv /\ TypeOK BY Zenon DEF HandleInv
  <1>1. ASSUME NEW t \in Threads, JHI_Initialize(t) \/ JHI_Deinit(t) \/ JHI_InitializeFails(t)
                                  \/ JHI_CloseSession(t) \/ CloseInvalid(t) \/ getSessionID(t)
                                  \/ SendDone(t) \/ ClearBegin(t) \/ ClearFreed(t)
        PROVE  OwnersMatch'
     <2>1. UNCHANGED <<daemon, mem, deinits, lostReplies, platform>>
        BY <1>1, Zenon DEF JHI_Initialize, JHI_Deinit, JHI_InitializeFails, JHI_CloseSession,
              CloseInvalid, getSessionID, SendDone, ClearBegin, ClearFreed
     <2>2. UNCHANGED faults \/ faults' = faults + 1
        BY <1>1, Zenon DEF JHI_Initialize, JHI_Deinit, JHI_InitializeFails, JHI_CloseSession,
              CloseInvalid, getSessionID, SendDone, ClearBegin, ClearFreed
     <2>3. Agreed' => Agreed BY <1>0, <2>1, <2>2 DEF TypeOK, Agreed
     <2> QED BY <2>1, <2>3, SameOwners, Zenon DEF To
  <1>2. ASSUME NEW t \in Threads, Deinit(t) PROVE OwnersMatch'
     <2>1. CASE ReferenceCount = 1 BY <1>0, <1>2, <2>1 DEF TypeOK, Deinit, OwnersMatch, Agreed
     <2>2. CASE ReferenceCount # 1
        <3>1. UNCHANGED <<daemon, mem>> /\ (Agreed' => Agreed)
           BY <1>0, <1>2, <2>2, Zenon DEF TypeOK, Agreed, Deinit
        <3> QED BY <3>1, SameOwners, Zenon DEF To
     <2> QED BY <2>1, <2>2, Zenon
  <1>3. ASSUME NEW t \in Threads, CreateAlloc(t) \/ CreateProcessAlloc(t) PROVE OwnersMatch'
     <2>1. PICK a \in Addrs, p \in Pids \cup {"self"} :
                   mem[a] = None /\ mem' = [mem EXCEPT ![a] = [sid |-> None, pid |-> p]]
        BY <1>3, Zenon DEF CreateAlloc, CreateProcessAlloc, Allocate
     <2>2. \A s \in service : To(s)' = To(s)
        BY <1>0, <2>1, LibJHIAssumption, Zenon DEF To, TypeOK
     <2>3. UNCHANGED daemon /\ (Agreed' => Agreed) BY <1>3, Zenon DEF CreateAlloc, CreateProcessAlloc, Agreed
     <2> QED BY <2>2, <2>3, SameOwners, Zenon
  <1>4. ASSUME NEW t \in Threads, CreateFails(t) PROVE OwnersMatch'
     <2>1. CASE UNCHANGED <<daemon, lostReplies>>
        <3>1. h[t] \in Addrs /\ mem[h[t]].sid = None
           BY <1>4, Zenon DEF HandleInv, OneOwner, Owns, OwnerKnows, CreateFails
        <3>2. \A s \in service : To(s)' = To(s)
           BY <1>0, <1>4, <3>1, LibJHIAssumption DEF To, TypeOK, CreateFails, Freed
        <3>3. Agreed' => Agreed BY <1>0, <1>4, <2>1 DEF TypeOK, CreateFails, Agreed
        <3> QED BY <2>1, <3>2, <3>3, SameOwners, Zenon
     <2>2. CASE lostReplies' = lostReplies + 1 BY <1>0, <2>2 DEF TypeOK, OwnersMatch, Agreed
     <2> QED BY <1>4, <2>1, <2>2, Zenon DEF CreateFails
  <1>5. ASSUME NEW t \in Threads, CreateAdd(t) PROVE OwnersMatch'
     <2>1. CASE ReferenceCount > 0
        <3>1. UNCHANGED <<daemon, mem>> /\ (Agreed' => Agreed) BY <1>5, <2>1, Zenon DEF Agreed, CreateAdd
        <3> QED BY <3>1, SameOwners, Zenon DEF To
     <2>2. CASE ~(ReferenceCount > 0)
        BY <1>0, <1>5, <2>2, Zenon DEF TypeOK, Entered, CreateAdd, OwnersMatch, Agreed
     <2> QED BY <2>1, <2>2, Zenon
  <1>6. ASSUME NEW t \in Threads, CloseFails(t) PROVE OwnersMatch'
     <2>1. CASE UNCHANGED <<daemon, lostReplies>>
        <3>1. mem' = mem /\ (Agreed' => Agreed)
           BY <1>0, <1>6, <2>1 DEF TypeOK, CloseFails, CloseKeeps, Agreed
        <3> QED BY <2>1, <3>1, SameOwners, Zenon DEF To
     <2>2. CASE lostReplies' = lostReplies + 1 BY <1>0, <2>2 DEF TypeOK, OwnersMatch, Agreed
     <2> QED BY <1>6, <2>1, <2>2, Zenon DEF CloseFails
  <1>7. ASSUME NEW t \in Threads, SendDead(t) PROVE OwnersMatch'
     <2>1. mem' = mem /\ (Agreed' => Agreed) BY <1>0, <1>7 DEF TypeOK, SendDead, Agreed
     <2>2. UNCHANGED daemon \/ \E s \in service : Gone({s}) BY <1>7, Zenon DEF SendDead
     <2> QED BY <1>0, <2>1, <2>2, SameOwners, GoneOwners, Zenon DEF To
  <1>8. ASSUME NEW t \in Threads, RegisterFindsDead(t) PROVE OwnersMatch'
     <2>1. PICK a \in SessionsList : mem[a].sid \notin service /\ mem' = Freed({a})
        BY <1>8, Zenon DEF RegisterFindsDead, removeSessionHandle
     <2>2. \A s \in service : To(s)' = To(s) BY <1>0, <2>1, Zenon DEF To, TypeOK, Freed
     <2>3. UNCHANGED daemon /\ (Agreed' => Agreed) BY <1>8, Zenon DEF RegisterFindsDead, Agreed
     <2> QED BY <2>2, <2>3, SameOwners, Zenon
  <1>9. CASE World
     <2>1. mem' = mem /\ (Agreed' => Agreed)
        BY <1>0, <1>9 DEF TypeOK, World, ServiceLoses, ProcessEnds, vars, Agreed
     <2>2. UNCHANGED daemon \/ \E s \in service : Gone({s})
        BY <1>9, Zenon DEF World, ServiceLoses, ProcessEnds, vars
     <2> QED BY <1>0, <2>1, <2>2, SameOwners, GoneOwners, Zenon DEF To
  <1> QED BY Zenon, <1>0, <1>1, <1>2, <1>3, <1>4, <1>5, <1>6, <1>7, <1>8, <1>9, NextCases, CreateCallOwners,
             CloseDoneOwners, ClearOwners DEF OtherStep, CreateStep, CloseStep, SendStep, ClearStep

-----------------------------------------------------------------------------
(* What follows for every behaviour. *)

LEMMA InitLib == ASSUME Init PROVE LibInv
  <1>1. Deiniting = {} /\ \A s : To(s) = {} BY Zenon DEF Init, Deiniting, To
  <1>2. TypeOK BY Zenon DEF Init, TypeOK
  <1>3. OneOwner /\ ListNamesSessions /\ NoLeak /\ NoListWithoutHandle
     BY Zenon DEF Init, OneOwner, Owns, ListNamesSessions, NoLeak, NoListWithoutHandle
  <1>4. References BY <1>1, FS_EmptySet DEF Init, References
  <1>5. Entered /\ ClearsOnAndroid /\ GoneHasNoOwner /\ OwnersMatch
     BY Zenon DEF Init, Entered, ClearsOnAndroid, GoneHasNoOwner, OwnersMatch
  <1> QED BY <1>2, <1>3, <1>4, <1>5, Zenon DEF LibInv, HandleInv

LEMMA LibStep == ASSUME LibInv, [Next]_vars PROVE LibInv'
  BY HandlesStep, ReferencesStep, EnteredStep, GoneStep, OwnersStep, Zenon DEF LibInv, HandleInv

\* LibInv is an invariant of libjhi's handles for any number of threads and handles.
THEOREM LibInvariant == Spec => []LibInv
  <1>1. Init => LibInv BY InitLib, Zenon
  <1>2. LibInv /\ [Next]_vars => LibInv' BY LibStep, Zenon
  <1> QED BY <1>1, <1>2, PTL DEF Spec

\* JHI_Initialize counts: appHandle stays until the application has given back every handle,
\* and each session handle in its list points to a structure that names a session.
THEOREM HandleIsThere == Spec => []HandleWhileHeld
  <1>1. LibInv => HandleWhileHeld
     BY HeldCounts, LibJHIAssumption, Zenon
        DEF LibInv, HandleInv, TypeOK, ListNamesSessions, HandleWhileHeld
  <1> QED BY <1>1, LibInvariant, PTL

\* libjhi and the service agree on the owners of every session: JHI_CreateSession,
\* JHI_CloseSession and the clean-up for dead processes take and give the same on both sides.
THEOREM OwnersAgree == Spec => []OwnersMatchHandles
  <1>1. ASSUME LibInv, NEW s \in Sids PROVE HandlesTo(s) = To(s)
     <2>1. ASSUME NEW a \in HandlesTo(s) PROVE a \in To(s)
        <3>1. CASE a \in SessionsList /\ mem[a].sid = s
           BY <1>1, <3>1, Zenon DEF LibInv, HandleInv, TypeOK, ListNamesSessions, To
        <3>2. CASE \E u \in Threads : pc[u] = "add" /\ sid[u] = s /\ a = h[u]
           BY <1>1, <3>2, Zenon DEF LibInv, HandleInv, OneOwner, Owns, OwnerKnows, To
        <3> QED BY <2>1, <3>1, <3>2, Zenon DEF HandlesTo
     <2>2. ASSUME NEW a \in To(s) PROVE a \in HandlesTo(s)
        <3>1. a \in Addrs /\ mem[a] # None /\ mem[a].sid = s BY <2>2, Zenon DEF To
        <3>2. CASE a \in SessionsList BY <3>1, <3>2, Zenon DEF HandlesTo
        <3>3. CASE a \notin SessionsList
           <4>1. PICK u \in Threads : Owns(u) /\ h[u] = a BY <1>1, <3>1, <3>3, Zenon DEF LibInv, HandleInv, NoLeak
           <4>2. pc[u] = "add" /\ sid[u] = s
              BY <1>1, <3>1, <4>1, LibJHIAssumption, Zenon DEF LibInv, HandleInv, OneOwner, Owns, OwnerKnows
           <4> QED BY <4>1, <4>2, Zenon DEF HandlesTo
        <3> QED BY <3>2, <3>3, Zenon
     <2> QED BY <2>1, <2>2, Zenon
  <1>2. LibInv => OwnersMatchHandles
     BY <1>1, Zenon DEF LibInv, HandleInv, TypeOK, OwnersMatch, Agreed, OwnersMatchHandles
  <1> QED BY <1>2, LibInvariant, PTL

\* No step forgets a handle while the service still counts it.
THEOREM HandlesAreKept == Spec => HandleKept
  <1> DEFINE Kept(a) == \/ owners[mem[a].sid] = 0
                        \/ owners'[mem[a].sid] < owners[mem[a].sid]
                        \/ ReferenceCount' = 0
                        \/ mem[a].pid \in deadPids
                        \/ mem[a].pid \in Pids /\ \E t \in Threads : pc[t] = "clear"
  <1>1. ASSUME LibInv, [Next]_vars, NEW a \in SessionsList \ SessionsList' PROVE Kept(a)
     <2>0. mem[a].sid \in Sids /\ HandleInv /\ TypeOK
        BY <1>1, Zenon DEF LibInv, HandleInv, TypeOK, ListNamesSessions
     <2>1. ASSUME NEW t \in Threads, JHI_Initialize(t) PROVE Kept(a)
        BY <1>1, <2>1 DEF LibInv, HandleInv, TypeOK, NoListWithoutHandle, JHI_Initialize
     <2>2. ASSUME NEW t \in Threads, Deinit(t) PROVE Kept(a)
        BY <1>1, <2>0, <2>2, Zenon DEF TypeOK, Deinit
     <2>3. ASSUME NEW t \in Threads, CloseDone(t) PROVE Kept(a)
        <3>1. a = h[t] /\ Closes(mem[a].sid) BY <1>1, <2>3, Zenon DEF CloseDone, removeSessionHandle
        <3> QED BY <2>0, <3>1 DEF TypeOK, Closes, Gone
     <2>4. ASSUME NEW t \in Threads, RegisterFindsDead(t) PROVE Kept(a)
        <3>1. mem[a].sid \notin service
           BY <1>1, <2>4, Zenon DEF RegisterFindsDead, removeSessionHandle
        <3> QED BY <1>1, <2>0, <3>1, Zenon DEF LibInv, GoneHasNoOwner
     <2>5. ASSUME NEW t \in Threads, Clear(t) PROVE Kept(a)
        <3>1. PICK as \in ToClear(t) : SessionsList' = SessionsList \ as BY <2>5, Zenon DEF Clear
        <3>2. a \in as BY <1>1, <3>1, Zenon
        <3>3. CASE pc[t] = "clearFirst" BY <3>1, <3>2, <3>3, Zenon DEF ToClear, DeadOwners
        <3>4. CASE pc[t] # "clearFirst"
           <4>1. pc[t] = "clear" BY <2>5, <3>4, Zenon DEF Clear
           <4> QED BY <3>1, <3>2, <3>4, <4>1, Zenon DEF ToClear
        <3> QED BY <3>3, <3>4, Zenon
     <2>6. ASSUME NEW t \in Threads, CreateAdd(t) PROVE FALSE
        BY <1>1, <2>6, Zenon DEF CreateAdd, addSessionHandle
     <2>7. ASSUME NEW t \in Threads, JHI_Deinit(t) \/ JHI_InitializeFails(t) \/ CreateAlloc(t)
                     \/ CreateProcessAlloc(t) \/ CreateCall(t) \/ CreateFails(t) \/ JHI_CloseSession(t)
                     \/ CloseFails(t) \/ CloseInvalid(t) \/ getSessionID(t) \/ SendDone(t)
                     \/ SendDead(t) \/ ClearBegin(t) \/ ClearFreed(t)
           PROVE  FALSE
        BY <1>1, <2>7, Zenon DEF JHI_Deinit, JHI_InitializeFails, CreateAlloc, CreateProcessAlloc, CreateCall,
              CreateFails, JHI_CloseSession, CloseFails, CloseKeeps, CloseInvalid, getSessionID,
              SendDone, SendDead, ClearBegin, ClearFreed
     <2>8. CASE World BY <1>1, <2>8, Zenon DEF World, ServiceLoses, ProcessEnds, vars
     <2> HIDE DEF Kept
     <2> QED BY <1>1, <2>1, <2>2, <2>3, <2>4, <2>5, <2>6, <2>7, <2>8, NextCases, Zenon
                DEF OtherStep, CreateStep, CloseStep, SendStep, ClearStep
  <1>2. LibInv /\ [Next]_vars => [\A a \in SessionsList \ SessionsList' : Kept(a)]_vars
     BY <1>1, Zenon
  <1> QED BY <1>2, LibInvariant, PTL DEF Spec, HandleKept
============================================================================
