------------------------ MODULE ReadWriteLock_proofs ------------------------
(***************************************************************************)
(* For any finite set of threads: the invariant of the readers-writer lock  *)
(* and the refinement of RWLockSpec.                                        *)
(***************************************************************************)
EXTENDS ReadWriteLock, FiniteSetTheorems, TLAPS

\* The set of counted readers is finite, and it is empty when its size is 0.
LEMMA CountedFinite ==
    /\ IsFiniteSet(Counted)
    /\ Cardinality(Counted) \in Nat
    /\ Cardinality(Counted) = 0 <=> Counted = {}
  <1>1. Counted \in SUBSET Threads
    BY DEF Counted
  <1>2. IsFiniteSet(Counted)
    BY <1>1, FS_Subset, ThreadsAssumption
  <1> QED
    BY <1>2, FS_CardinalityType, FS_EmptySet

\* Moving one thread between positions outside the counted ones leaves the
\* counted readers alone.
LEMMA CountedUnchanged ==
    ASSUME NEW t \in Threads, NEW l \in PC, TypeOK, Goto(t, l),
           t \in Counted <=> l \in {"rLeave", "reading", "rExit"}
    PROVE  Counted' = Counted
  BY DEF Counted, Goto, TypeOK

\* Acquiring writeLock keeps the invariant.
LEMMA LockWriteInv ==
    ASSUME NEW t \in Threads, NEW l \in {"rEnter", "wEnter"}, LockInv, LockWrite(t, l)
    PROVE  LockInv'
  <1> USE DEF LockWrite, LockInv, PC
  <1>1. Counted' = Counted
    BY CountedUnchanged DEF Counted
  <1>2. TypeOK'
    BY DEF TypeOK, Goto
  <1>3. (\A u \in Threads : /\ writeLock = u <=> pc[u] \in HoldsWrite
                            /\ readLock = u <=> pc[u] \in HoldsRead)'
    BY ThreadsAssumption DEF TypeOK, Goto, HoldsWrite, HoldsRead
  <1>4. CountExact'
    BY <1>1 DEF CountExact
  <1>5. (\A u \in Threads : pc[u] = "writing" => Counted = {})'
    BY <1>1 DEF TypeOK, Goto
  <1>6. NoLostWakeup'
    BY <1>1 DEF TypeOK, Goto, NoLostWakeup
  <1> QED
    BY <1>2, <1>3, <1>4, <1>5, <1>6

\* Acquiring readLock keeps the invariant.
LEMMA LockReadInv ==
    ASSUME NEW t \in Threads, NEW from, NEW to,
           <<from, to>> \in {<<"rEnter", "rCount">>, <<"reading", "rExit">>,
                             <<"wEnter", "wCheck">>, <<"wWoken", "wCheck">>},
           LockInv, LockRead(t, from, to)
    PROVE  LockInv'
  <1> USE DEF LockRead, LockInv, PC
  <1>1. Counted' = Counted
    BY CountedUnchanged DEF Counted
  <1>2. TypeOK'
    BY DEF TypeOK, Goto
  <1>3. (\A u \in Threads : /\ writeLock = u <=> pc[u] \in HoldsWrite
                            /\ readLock = u <=> pc[u] \in HoldsRead)'
    BY ThreadsAssumption DEF TypeOK, Goto, HoldsWrite, HoldsRead
  <1>4. CountExact'
    BY <1>1 DEF CountExact
  <1>5. (\A u \in Threads : pc[u] = "writing" => Counted = {})'
    BY <1>1 DEF TypeOK, Goto
  <1>6. NoLostWakeup'
    BY <1>1 DEF TypeOK, Goto, NoLostWakeup
  <1> QED
    BY <1>2, <1>3, <1>4, <1>5, <1>6

\* Counting a reader in: the thread holds writeLock, so no writer is inside.
LEMMA ReaderCountInv ==
    ASSUME NEW t \in Threads, LockInv, ReaderCount(t)
    PROVE  LockInv'
  <1> USE DEF ReaderCount, LockInv, PC
  <1>1. /\ Counted' = Counted \cup {t}
        /\ t \notin Counted
    BY DEF Counted, Goto, TypeOK
  <1>2. TypeOK'
    BY DEF TypeOK, Goto
  <1>3. (\A u \in Threads : /\ writeLock = u <=> pc[u] \in HoldsWrite
                            /\ readLock = u <=> pc[u] \in HoldsRead)'
    BY ThreadsAssumption DEF TypeOK, Goto, HoldsWrite, HoldsRead
  <1>4. CountExact'
    <2>1. Cardinality(Counted \cup {t}) = Cardinality(Counted) + 1
      BY <1>1, CountedFinite, FS_AddElement
    <2> QED
      BY <1>1, <2>1 DEF CountExact
  <1>5. (\A u \in Threads : pc[u] = "writing" => Counted = {})'
    <2>1. \A u \in Threads : pc[u] # "writing"
      BY DEF HoldsWrite
    <2> QED
      BY <2>1 DEF TypeOK, Goto
  <1>6. NoLostWakeup'
    BY <1>1 DEF TypeOK, Goto, NoLostWakeup
  <1> QED
    BY <1>2, <1>3, <1>4, <1>5, <1>6

\* Counting a reader out: if it is the last one, the writer that sleeps, if any,
\* is the only one (it holds writeLock) and it is the one signalled.
LEMMA ReaderUncountInv ==
    ASSUME NEW t \in Threads, LockInv, ReaderUncount(t)
    PROVE  LockInv'
  <1> USE DEF ReaderUncount, LockInv, PC
  <1>0. \A u, v \in Threads : pc[u] = "wWait" /\ pc[v] = "wWait" => u = v
    BY DEF HoldsWrite
  <1>1. /\ Counted' = Counted \ {t}
        /\ t \in Counted
    BY DEF Counted, Goto, TypeOK, Waiting
  <1>c. /\ Cardinality(Counted') = Cardinality(Counted) - 1
        /\ Cardinality(Counted') \in Nat
        /\ Cardinality(Counted') = 0 <=> Counted' = {}
    <2>1. IsFiniteSet(Counted \ {t}) /\ Cardinality(Counted \ {t}) = Cardinality(Counted) - 1
      BY <1>1, CountedFinite, FS_RemoveElement
    <2> QED
      BY <2>1, <1>1, FS_CardinalityType, FS_EmptySet
  <1>n. readersCount' = Cardinality(Counted')
    BY <1>c DEF CountExact
  <1>2. TypeOK'
    BY <1>n, <1>c DEF TypeOK, Goto, Waiting
  <1>3. (\A u \in Threads : /\ writeLock = u <=> pc[u] \in HoldsWrite
                            /\ readLock = u <=> pc[u] \in HoldsRead)'
    BY ThreadsAssumption DEF TypeOK, Goto, HoldsWrite, HoldsRead, Waiting
  <1>4. CountExact'
    BY <1>n DEF CountExact
  <1>5. (\A u \in Threads : pc[u] = "writing" => Counted = {})'
    BY <1>1 DEF TypeOK, Goto, Waiting
  <1>6. NoLostWakeup'
    <2>1. CASE Counted' = {} /\ Waiting # {}
      <3>1. readersCount' = 0
        BY <2>1, <1>n, <1>c
      <3>2. \A u \in Threads : pc'[u] # "wWait"
        BY <2>1, <3>1, <1>0 DEF Waiting, TypeOK, Goto
      <3> QED
        BY <3>2 DEF NoLostWakeup
    <2>2. CASE Waiting = {}
      BY <2>2 DEF Waiting, NoLostWakeup, TypeOK, Goto
    <2>3. CASE Counted' # {}
      BY <2>3 DEF NoLostWakeup
    <2> QED
      BY <2>1, <2>2, <2>3
  <1> QED
    BY <1>2, <1>3, <1>4, <1>5, <1>6

\* The steps that touch neither the count nor the counted readers.
LEMMA OtherStepsInv ==
    ASSUME NEW t \in Threads, LockInv,
           ReaderLeave(t) \/ WriterCheck(t) \/ SpuriousWake(t) \/ releaseWriterLock(t)
    PROVE  LockInv'
  <1> USE DEF LockInv, PC, ReaderLeave, WriterCheck, SpuriousWake, releaseWriterLock
  <1>1. Counted' = Counted
    BY DEF Counted, Goto, TypeOK
  <1>c. readersCount = 0 <=> Counted = {}
    BY CountedFinite DEF CountExact
  <1>2. TypeOK'
    BY DEF TypeOK, Goto
  <1>3. (\A u \in Threads : /\ writeLock = u <=> pc[u] \in HoldsWrite
                            /\ readLock = u <=> pc[u] \in HoldsRead)'
    BY ThreadsAssumption DEF TypeOK, Goto, HoldsWrite, HoldsRead
  <1>4. CountExact'
    BY <1>1 DEF CountExact
  <1>5. (\A u \in Threads : pc[u] = "writing" => Counted = {})'
    BY <1>1, <1>c DEF TypeOK, Goto
  <1>6. NoLostWakeup'
    BY <1>1, <1>c DEF TypeOK, Goto, NoLostWakeup
  <1> QED
    BY <1>2, <1>3, <1>4, <1>5, <1>6

\* One step of the lock keeps the invariant.
LEMMA StepInv == LockInv /\ [Next]_vars => LockInv'
  <1> SUFFICES ASSUME LockInv, [Next]_vars PROVE LockInv'
    OBVIOUS
  <1>1. ASSUME NEW t \in Threads, ReaderEnter(t) \/ WriterEnter(t) PROVE LockInv'
    BY <1>1, LockWriteInv DEF ReaderEnter, WriterEnter
  <1>2. ASSUME NEW t \in Threads,
               ReaderLockCount(t) \/ ReaderExit(t) \/ WriterLockCount(t) \/ WriterRelock(t)
        PROVE  LockInv'
    BY <1>2, LockReadInv DEF ReaderLockCount, ReaderExit, WriterLockCount, WriterRelock
  <1>3. CASE UNCHANGED vars
    BY <1>3 DEF vars, LockInv, TypeOK, CountExact, NoLostWakeup, Counted
  <1> QED
    BY <1>1, <1>2, <1>3, ReaderCountInv, ReaderUncountInv, OtherStepsInv
       DEF Next, Progress

\* The lock's invariant holds in every state, for any finite set of threads.
THEOREM LockInvariant == Spec => []LockInv
  <1>1. Init => LockInv
    <2> SUFFICES ASSUME Init PROVE LockInv
      OBVIOUS
    <2>1. Counted = {}
      BY DEF Counted, Init
    <2> QED
      BY <2>1, ThreadsAssumption, FS_EmptySet
         DEF Init, LockInv, TypeOK, PC, HoldsWrite, HoldsRead, CountExact, NoLostWakeup
  <1> QED
    BY <1>1, StepInv, PTL DEF Spec

\* _readersCount is always the number of readers between increment and
\* decrement: it never wraps below zero.
THEOREM CountIsExact == Spec => []CountExact
  <1>1. LockInv => CountExact
    BY DEF LockInv
  <1> QED
    BY <1>1, LockInvariant, PTL

\* No writer sleeps in pthread_cond_wait once the last reader has left.
THEOREM WakeupIsNotLost == Spec => []NoLostWakeup
  <1>1. LockInv => NoLostWakeup
    BY DEF LockInv
  <1> QED
    BY <1>1, LockInvariant, PTL

\* ReadWriteLock implements the abstract readers-writer lock.
THEOREM Refinement == Spec => ImplementsRWLock
  <1> USE DEF Abstract!Init, Abstract!Next, Abstract!AcquireRead,
              Abstract!AcquireWrite, Abstract!Release
  <1>1. Init => Abstract!Init
    BY DEF Init, Mode, Counted
  <1>2. LockInv /\ [Next]_vars => [Abstract!Next]_Mode
    <2> SUFFICES ASSUME LockInv, [Next]_vars PROVE [Abstract!Next]_Mode
      OBVIOUS
    <2> USE DEF LockInv, PC, Goto, TypeOK, Mode, Counted
    <2>1. ASSUME NEW t \in Threads, ReaderCount(t) PROVE Abstract!AcquireRead(t)
      BY <2>1 DEF ReaderCount, HoldsWrite
    <2>2. ASSUME NEW t \in Threads, ReaderUncount(t) PROVE Abstract!Release(t)
      BY <2>2 DEF ReaderUncount, Waiting
    <2>3. ASSUME NEW t \in Threads, releaseWriterLock(t) PROVE Abstract!Release(t)
      BY <2>3 DEF releaseWriterLock
    <2>4. ASSUME NEW t \in Threads, WriterCheck(t)
          PROVE  Abstract!AcquireWrite(t) \/ UNCHANGED Mode
      <3>1. CASE readersCount > 0
        BY <2>4, <3>1 DEF WriterCheck
      <3>2. CASE ~(readersCount > 0)
        <4>1. \A u \in Threads : u \notin Counted
          BY <3>2, CountedFinite DEF CountExact
        <4>2. \A u \in Threads : pc[u] # "writing"
          BY <2>4 DEF WriterCheck, HoldsWrite
        <4> QED
          BY <2>4, <3>2, <4>1, <4>2 DEF WriterCheck
      <3> QED
        BY <3>1, <3>2
    <2>5. ASSUME NEW t \in Threads,
                 \/ ReaderEnter(t) \/ WriterEnter(t) \/ ReaderLockCount(t) \/ ReaderExit(t)
                 \/ WriterLockCount(t) \/ WriterRelock(t) \/ ReaderLeave(t) \/ SpuriousWake(t)
          PROVE  UNCHANGED Mode
      BY <2>5 DEF ReaderEnter, WriterEnter, ReaderLockCount, ReaderExit, WriterLockCount,
                  WriterRelock, ReaderLeave, SpuriousWake, LockWrite, LockRead
    <2>6. CASE UNCHANGED vars
      BY <2>6 DEF vars
    <2> QED
      BY <2>1, <2>2, <2>3, <2>4, <2>5, <2>6 DEF Next, Progress
  <1> QED
    BY <1>1, <1>2, LockInvariant, PTL DEF Spec, ImplementsRWLock, Abstract!Spec
==============================================================================
