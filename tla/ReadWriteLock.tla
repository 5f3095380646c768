---------------------------- MODULE ReadWriteLock ----------------------------
(***************************************************************************)
(* The readers-writer lock that JHI uses as initLock: every request holds  *)
(* it as a reader, jhis_init and JhiReset hold it as a writer.  The pthread *)
(* build is modelled (ReadWriteLockPThread.cpp): two mutexes, a reader      *)
(* count and a condition variable.  The count is read and written only      *)
(* under readLock, so the statements between the Lock and the UnLock of     *)
(* readLock form one step.                                                  *)
(***************************************************************************)
EXTENDS Naturals, FiniteSets

CONSTANTS Threads,   \* the threads that may use the lock
          None       \* "no thread": the owner of a free mutex

ASSUME ThreadsAssumption == IsFiniteSet(Threads) /\ None \notin Threads

VARIABLES pc,            \* where each thread is in the four operations
          writeLock,     \* owner of _writeLock
          readLock,      \* owner of _readLock
          readersCount   \* _readersCount

vars == <<pc, writeLock, readLock, readersCount>>

\* "idle", "reading" and "writing" are the states between two operations; the
\* others lie inside one: in aquireReaderLock (rEnter, rCount, rLeave), in
\* releaseReaderLock (rExit) and in aquireWriterLock (wEnter, wCheck, wWait,
\* wWoken: inside or just out of pthread_cond_wait).
PC == {"idle", "rEnter", "rCount", "rLeave", "reading", "rExit",
       "wEnter", "wCheck", "wWait", "wWoken", "writing"}

Init == /\ pc = [t \in Threads |-> "idle"]
        /\ writeLock = None
        /\ readLock = None
        /\ readersCount = 0

Goto(t, l) == pc' = [pc EXCEPT ![t] = l]

\* aquireReaderLock and aquireWriterLock both begin with _writeLock.Lock().
LockWrite(t, l) == /\ pc[t] = "idle"
                   /\ writeLock = None
                   /\ writeLock' = t
                   /\ Goto(t, l)
                   /\ UNCHANGED <<readLock, readersCount>>

\* _readLock.Lock(), also the one inside pthread_cond_wait on its way out.
LockRead(t, from, to) == /\ pc[t] = from
                         /\ readLock = None
                         /\ readLock' = t
                         /\ Goto(t, to)
                         /\ UNCHANGED <<writeLock, readersCount>>

(* aquireReaderLock *)
ReaderEnter(t) == LockWrite(t, "rEnter")
ReaderLockCount(t) == LockRead(t, "rEnter", "rCount")
ReaderCount(t) == /\ pc[t] = "rCount"
                  /\ readersCount' = readersCount + 1
                  /\ readLock' = None
                  /\ Goto(t, "rLeave")
                  /\ UNCHANGED writeLock
ReaderLeave(t) == /\ pc[t] = "rLeave"
                  /\ writeLock' = None
                  /\ Goto(t, "reading")
                  /\ UNCHANGED <<readLock, readersCount>>

(* releaseReaderLock: the last reader signals one thread waiting for no_readers_cond. *)
ReaderExit(t) == LockRead(t, "reading", "rExit")
Waiting == {w \in Threads : pc[w] = "wWait"}
\* Mutant: the last reader forgets pthread_cond_signal.
ReaderUncount_NoSignal(t) ==
    /\ pc[t] = "rExit"
    /\ readersCount' = readersCount - 1
    /\ Goto(t, "idle")
    /\ readLock' = None
    /\ UNCHANGED writeLock
ReaderUncount(t) ==
    /\ pc[t] = "rExit"
    /\ readersCount' = readersCount - 1
    /\ \/ /\ readersCount' = 0 /\ Waiting # {}
          /\ \E w \in Waiting : pc' = [pc EXCEPT ![t] = "idle", ![w] = "wWoken"]
       \/ /\ readersCount' # 0 \/ Waiting = {}
          /\ Goto(t, "idle")
    /\ readLock' = None
    /\ UNCHANGED writeLock

(* aquireWriterLock *)
WriterEnter(t) == LockWrite(t, "wEnter")
WriterLockCount(t) == LockRead(t, "wEnter", "wCheck")
\* Mutant: the writer does not wait for the readers inside.
WriterCheck_NoWait(t) == /\ pc[t] = "wCheck"
                         /\ Goto(t, "writing")
                         /\ readLock' = None
                         /\ UNCHANGED <<writeLock, readersCount>>
\* The while loop: wait, giving readLock up, or leave with writeLock held.
WriterCheck(t) == /\ pc[t] = "wCheck"
                  /\ Goto(t, IF readersCount > 0 THEN "wWait" ELSE "writing")
                  /\ readLock' = None
                  /\ UNCHANGED <<writeLock, readersCount>>
\* POSIX lets pthread_cond_wait return without a signal.
SpuriousWake(t) == /\ pc[t] = "wWait"
                   /\ Goto(t, "wWoken")
                   /\ UNCHANGED <<writeLock, readLock, readersCount>>
WriterRelock(t) == LockRead(t, "wWoken", "wCheck")

releaseWriterLock(t) == /\ pc[t] = "writing"
                        /\ writeLock' = None
                        /\ Goto(t, "idle")
                        /\ UNCHANGED <<readLock, readersCount>>

\* The steps a thread takes once it has called an operation.
Progress(t) == \/ ReaderLockCount(t) \/ ReaderCount(t) \/ ReaderLeave(t)
               \/ ReaderExit(t) \/ ReaderUncount(t)
               \/ WriterLockCount(t) \/ WriterCheck(t) \/ WriterRelock(t)
               \/ releaseWriterLock(t)

Next == \E t \in Threads : \/ ReaderEnter(t) \/ WriterEnter(t)
                           \/ Progress(t) \/ SpuriousWake(t)

Spec == Init /\ [][Next]_vars

\* A thread inside an operation keeps running, and a holder gives the lock back;
\* nothing forces a thread to ask for the lock.  A reader on its way out gets
\* readLock in the end although a writer woken again and again without a signal
\* competes for it: a blocked pthread mutex waiter is woken at every unlock.
FairSpec == Spec /\ \A t \in Threads : WF_vars(Progress(t)) /\ SF_vars(ReaderExit(t))

-----------------------------------------------------------------------------
TypeOK == /\ pc \in [Threads -> PC]
          /\ writeLock \in Threads \cup {None}
          /\ readLock \in Threads \cup {None}
          /\ readersCount \in Nat

\* The threads that count as readers: from the increment to the decrement.
Counted == {t \in Threads : pc[t] \in {"rLeave", "reading", "rExit"}}

\* _readersCount is exactly the number of threads between the increment in
\* aquireReaderLock and the decrement in releaseReaderLock, so the unsigned
\* counter never wraps below 0 and reaches 0 when the last reader has left.
CountExact == readersCount = Cardinality(Counted)

\* No lost wake-up: a writer asleep in pthread_cond_wait has a reader that has
\* still to leave, and therefore a signal still to come.
NoLostWakeup == \A t \in Threads : pc[t] = "wWait" => Counted # {}

\* Who holds the two mutexes, read off the threads' positions.
HoldsWrite == {"rEnter", "rCount", "rLeave", "wEnter", "wCheck", "wWait", "wWoken", "writing"}
HoldsRead == {"rCount", "rExit", "wCheck"}

\* The inductive invariant behind the other properties: mutex ownership follows
\* the program counters, the count is exact, a writer inside excludes counted
\* readers, and a sleeping writer has a reader to wait for.
LockInv == /\ TypeOK
           /\ \A t \in Threads : /\ writeLock = t <=> pc[t] \in HoldsWrite
                                 /\ readLock = t <=> pc[t] \in HoldsRead
           /\ CountExact
           /\ \A t \in Threads : pc[t] = "writing" => Counted = {}
           /\ NoLostWakeup

\* What the callers see: the mode in which each thread holds the lock.
Mode == [t \in Threads |-> IF t \in Counted THEN "read"
                           ELSE IF pc[t] = "writing" THEN "write" ELSE "none"]

Abstract == INSTANCE RWLockSpec WITH mode <- Mode

\* The two mutexes, the count and the condition variable implement a
\* readers-writer lock: a writer is alone, a reader meets no writer.
ImplementsRWLock == Abstract!Spec

\* "in order to prevent writer starvation" (aquireReaderLock): a writer that got
\* past _writeLock obtains the lock however many readers keep arriving.
WriterGetsIn == \A t \in Threads : pc[t] = "wEnter" ~> pc[t] = "writing"
==============================================================================
