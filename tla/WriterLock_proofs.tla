-------------------------- MODULE WriterLock_proofs --------------------------
(***************************************************************************)
(* Theorems about WriterLock for any set of processes: type correctness,   *)
(* the exclusion of writers as long as no lock is created under a process  *)
(* that still judges its predecessor, and who removes a live lock.         *)
(***************************************************************************)
EXTENDS WriterLock, TLAPS

FileStep == {"write", "hold", "release", "unlink"}

\* The loop reclaims in its first attempt only.
OneReclaim == \A p \in Process : pc[p] \in {"judge", "rename"} => attempt[p] = 0

\* An aged file was left by a process that is gone.
AgedIsAbandoned == lock.aged => Exists /\ ~Alive(lock.creator)

\* The file at the path is the file of whoever works with one.
OwnFile == \A p \in Process : pc[p] \in FileStep => lock.creator = p

\* The file that a process has read of is still there, or none is.
ReadIsCurrent ==
    \A p \in Process :
        pc[p] = "judge" /\ existing[p] # Nobody => lock.creator \in {existing[p], Nobody}

\* Nothing but an abandoned file is about to be moved away.
RenameIsSafe == \A p \in Process : pc[p] = "rename" => ~Exists \/ ~Alive(lock.creator)

Orderly == OwnFile /\ ReadIsCurrent /\ RenameIsSafe

IInv == TypeOK /\ OneReclaim /\ AgedIsAbandoned /\ (~raced => Orderly)

-----------------------------------------------------------------------------
\* Everything is quiet at first.
LEMMA InitIInv == Init => IInv
<1> SUFFICES ASSUME Init PROVE IInv
  OBVIOUS
<1>1. lock \in [creator : Process \cup {Nobody}, written : BOOLEAN, aged : BOOLEAN]
  BY DEF Init, NoFile
<1>2. pc \in [Process -> Step]
  BY DEF Init, Step
<1>3. attempt \in [Process -> {0, 1}] /\ existing \in [Process -> Process \cup {Nobody}]
  BY DEF Init
<1>4. raced \in BOOLEAN /\ crashes \in 0 .. CrashBound
  <2>1. raced \in BOOLEAN
    BY DEF Init
  <2>2. crashes \in 0 .. CrashBound
    BY WriterLockAssumption DEF Init
  <2> QED
    BY <2>1, <2>2
<1>5. OneReclaim /\ OwnFile /\ ReadIsCurrent /\ RenameIsSafe
  BY DEF Init, OneReclaim, OwnFile, ReadIsCurrent, RenameIsSafe, FileStep
<1>6. AgedIsAbandoned
  BY DEF Init, AgedIsAbandoned, NoFile
<1> QED
  BY <1>1, <1>2, <1>3, <1>4, <1>5, <1>6 DEF IInv, TypeOK, Orderly

\* Every step keeps the file, the program counters and what was read well formed,
\* and a process reclaims once.
LEMMA NextType == TypeOK /\ OneReclaim /\ [Next]_vars => TypeOK' /\ OneReclaim'
<1> SUFFICES ASSUME TypeOK, OneReclaim, [Next]_vars PROVE TypeOK' /\ OneReclaim'
  OBVIOUS
<1> USE WriterLockAssumption DEF TypeOK, OneReclaim, Goto, Exit, Step, NoFile, NewFile, Nobody
<1>1. ASSUME NEW p \in Process, Begin(p) PROVE TypeOK' /\ OneReclaim'
  BY <1>1 DEF Begin
<1>2. ASSUME NEW p \in Process, Advance(p) PROVE TypeOK' /\ OneReclaim'
  <2>1. CASE Open(p)
    <3>1. lock' \in [creator : Process \cup {Nobody}, written : BOOLEAN, aged : BOOLEAN]
      <4>1. lock' = NewFile(p) \/ lock' = lock
        BY <2>1 DEF Open
      <4>2. NewFile(p) \in [creator : Process \cup {Nobody}, written : BOOLEAN, aged : BOOLEAN]
        OBVIOUS
      <4> QED
        BY <4>1, <4>2
    <3>2. pc[p] = "open" /\ (Goto(p, "write") \/ Goto(p, "exists"))
      BY <2>1 DEF Open
    <3>3. pc' \in [Process -> Step] /\ OneReclaim'
      BY <2>1, <3>2 DEF Open
    <3>4. raced' \in BOOLEAN
      BY <2>1, Zenon DEF Open
    <3> QED
      BY <2>1, <3>1, <3>3, <3>4 DEF Open
  <2>2. CASE Write(p)
    BY <2>2 DEF Write
  <2>3. CASE ReadExisting(p)
    BY <2>3 DEF ReadExisting, Owner
  <2>4. CASE JudgeExisting(p)
    BY <2>4 DEF JudgeExisting
  <2>5. CASE PreserveStaleLock(p)
    <3>1. attempt' \in [Process -> {0, 1}]
      <4>1. attempt[p] = 0
        BY <2>5 DEF PreserveStaleLock
      <4>2. attempt' = attempt \/ attempt' = [attempt EXCEPT ![p] = 1]
        BY <2>5, <4>1 DEF PreserveStaleLock
      <4> QED
        BY <4>2
    <3>2. lock' \in [creator : Process \cup {Nobody}, written : BOOLEAN, aged : BOOLEAN]
      <4>1. lock' = NoFile \/ lock' = lock
        BY <2>5 DEF PreserveStaleLock
      <4>2. NoFile \in [creator : Process \cup {Nobody}, written : BOOLEAN, aged : BOOLEAN]
        OBVIOUS
      <4> QED
        BY <4>1, <4>2
    <3>3. pc' \in [Process -> Step] /\ existing' \in [Process -> Process \cup {Nobody}]
      BY <2>5 DEF PreserveStaleLock
    <3>4. \A q \in Process : pc'[q] \in {"judge", "rename"} =>
             pc[q] \in {"judge", "rename"} /\ q # p
      BY <2>5 DEF PreserveStaleLock
    <3>5. \A q \in Process : q # p => attempt'[q] = attempt[q]
      BY <2>5 DEF PreserveStaleLock
    <3>6. OneReclaim'
      BY <3>4, <3>5
    <3> QED
      BY <2>5, <3>1, <3>2, <3>3, <3>6 DEF PreserveStaleLock
  <2>6. CASE Release(p)
    BY <2>6 DEF Release
  <2>7. CASE ReadOwn(p)
    BY <2>7 DEF ReadOwn
  <2>8. CASE Unlink(p)
    BY <2>8 DEF Unlink
  <2> QED
    BY <1>2, <2>1, <2>2, <2>3, <2>4, <2>5, <2>6, <2>7, <2>8 DEF Advance
<1>3. ASSUME NEW p \in Process, WriteFails(p) \/ RenameRefused(p) PROVE TypeOK' /\ OneReclaim'
  <2>1. CASE WriteFails(p)
    <3>1. lock' \in [creator : Process \cup {Nobody}, written : BOOLEAN, aged : BOOLEAN]
      BY <2>1 DEF WriteFails
    <3> QED
      BY <2>1, <3>1 DEF WriteFails
  <2>2. CASE RenameRefused(p)
    BY <2>2 DEF RenameRefused
  <2> QED
    BY <1>3, <2>1, <2>2
<1>4. ASSUME NEW p \in Process, Crash(p) PROVE TypeOK' /\ OneReclaim'
  BY <1>4 DEF Crash
<1>5. CASE Age
  BY <1>5 DEF Age
<1>6. CASE UNCHANGED vars
  BY <1>6 DEF vars
<1> QED
  BY <1>1, <1>2, <1>3, <1>4, <1>5, <1>6 DEF Next

\* A pid is reused only when no file carries it, so an aged file stays abandoned.
LEMMA NextAged == IInv /\ [Next]_vars => AgedIsAbandoned'
<1> SUFFICES ASSUME IInv, [Next]_vars, lock'.aged PROVE Exists' /\ ~Alive(lock.creator)'
  BY DEF AgedIsAbandoned
<1> USE DEF TypeOK, Goto, Exit, NoFile, NewFile, Nobody, Alive, Exists
<1>1. ASSUME NEW p \in Process, Begin(p) PROVE Exists' /\ ~Alive(lock.creator)'
  BY <1>1 DEF Begin, IInv, AgedIsAbandoned
<1>2. ASSUME NEW p \in Process, Advance(p) PROVE Exists' /\ ~Alive(lock.creator)'
  BY <1>2 DEF Advance, Open, Write, ReadExisting, JudgeExisting, PreserveStaleLock, Release,
              ReadOwn, Unlink, IInv, AgedIsAbandoned
<1>3. ASSUME NEW p \in Process, WriteFails(p) \/ RenameRefused(p) \/ Crash(p)
      PROVE  Exists' /\ ~Alive(lock.creator)'
  BY <1>3 DEF WriteFails, RenameRefused, Crash, IInv, AgedIsAbandoned
<1>4. CASE Age
  BY <1>4 DEF Age, IInv
<1>5. CASE UNCHANGED vars
  BY <1>5 DEF vars, IInv, AgedIsAbandoned
<1> QED
  BY <1>1, <1>2, <1>3, <1>4, <1>5 DEF Next

\* As long as no lock is created under a process that is judging its predecessor,
\* every process is right about the file it is going to touch.
LEMMA NextOrderly == IInv /\ [Next]_vars /\ ~raced' => Orderly'
<1> SUFFICES ASSUME IInv, [Next]_vars, ~raced' PROVE Orderly'
  OBVIOUS
<1>0. TypeOK /\ AgedIsAbandoned
  BY DEF IInv
<1>1. ~raced
  BY DEF Next, Begin, Advance, Open, Write, ReadExisting, JudgeExisting, PreserveStaleLock,
         Release, ReadOwn, Unlink, WriteFails, RenameRefused, Crash, Age, vars, IInv, TypeOK
<1>2. Orderly
  BY <1>1 DEF IInv
<1> USE <1>0, <1>2 DEF TypeOK, Orderly, OwnFile, ReadIsCurrent, RenameIsSafe, FileStep,
                       Goto, Exit, Alive, Exists, NoFile, NewFile, Nobody
<1>3. ASSUME NEW p \in Process, Begin(p) PROVE Orderly'
  BY <1>3 DEF Begin
<1>4. ASSUME NEW p \in Process, Advance(p) PROVE Orderly'
  <2>1. CASE Open(p)
    <3>1. CASE Exists
      BY <2>1, <3>1 DEF Open
    <3>2. CASE ~Exists
      <4>1. lock' = NewFile(p) /\ Goto(p, "write") /\ UNCHANGED existing
        BY <2>1, <3>2 DEF Open
      <4>2. \A q \in Process : q # p => ~Judging(q)
        BY <2>1, <3>2 DEF Open
      <4>3. \A q \in Process : q # p => pc'[q] = pc[q] /\ pc[q] \notin FileStep
        BY <3>2, <4>1, WriterLockAssumption
      <4>4. pc'[p] = "write"
        BY <4>1
      <4> QED
        BY <4>1, <4>2, <4>3, <4>4 DEF Judging
    <3> QED
      BY <3>1, <3>2
  <2>2. CASE Write(p)
    BY <2>2 DEF Write
  <2>3. CASE ReadExisting(p)
    BY <2>3 DEF ReadExisting, Owner
  <2>4. CASE JudgeExisting(p)
    BY <2>4 DEF JudgeExisting, IsStale, AgedIsAbandoned
  <2>5. CASE PreserveStaleLock(p)
    BY <2>5, WriterLockAssumption DEF PreserveStaleLock
  <2>6. CASE Release(p)
    BY <2>6 DEF Release
  <2>7. CASE ReadOwn(p)
    BY <2>7 DEF ReadOwn
  <2>8. CASE Unlink(p)
    BY <2>8, WriterLockAssumption DEF Unlink
  <2> QED
    BY <1>4, <2>1, <2>2, <2>3, <2>4, <2>5, <2>6, <2>7, <2>8 DEF Advance
<1>5. ASSUME NEW p \in Process, WriteFails(p) PROVE Orderly'
  BY <1>5, WriterLockAssumption DEF WriteFails
<1>6. ASSUME NEW p \in Process, RenameRefused(p) \/ Crash(p) PROVE Orderly'
  BY <1>6 DEF RenameRefused, Crash
<1>7. CASE Age
  BY <1>7 DEF Age
<1>8. CASE UNCHANGED vars
  BY <1>8 DEF vars
<1> QED
  BY <1>3, <1>4, <1>5, <1>6, <1>7, <1>8 DEF Next

\* The state of the file, of the loop of every process and of what it read stays
\* what the code takes it to be.
THEOREM TypeCorrect == Spec => []TypeOK
<1>1. Init => TypeOK /\ OneReclaim
  BY InitIInv DEF IInv
<1>2. TypeOK /\ OneReclaim /\ [Next]_vars => TypeOK' /\ OneReclaim'
  BY NextType
<1> QED
  BY <1>1, <1>2, PTL DEF Spec

\* Unless raced, the file at the path always belongs to the process that relies on it.
THEOREM Invariance == Spec => []IInv
<1>1. IInv /\ [Next]_vars => IInv'
  BY NextType, NextAged, NextOrderly DEF IInv
<1> QED
  BY <1>1, InitIInv, PTL DEF Spec

\* One writer of the Control Kernel at a time, for any number of processes.
THEOREM Exclusion == Spec => []SingleWriterUnlessRaced
<1>1. IInv => SingleWriterUnlessRaced
  BY DEF IInv, Orderly, OwnFile, FileStep, SingleWriterUnlessRaced, SingleWriter, Holds
<1> QED
  BY <1>1, Invariance, PTL

\* The file of a live process is removed by nobody else.
THEOREM OwnerRemoves == Spec => LiveLockIsRemovedByItsOwner
<1> DEFINE Removed == ~raced /\ Exists /\ Alive(lock.creator) /\ lock'.creator # lock.creator
<1> DEFINE ByOwner == pc[lock.creator] \in {"write", "unlink"} /\ pc'[lock.creator] = "idle"
<1>1. IInv /\ [Next]_vars => [Removed => ByOwner]_vars
  <2> SUFFICES ASSUME IInv, Next, Removed PROVE ByOwner
    BY DEF vars
  <2>1. TypeOK /\ Orderly
    BY DEF IInv
  <2>2. PICK p \in Process : PreserveStaleLock(p) \/ WriteFails(p) \/ Unlink(p)
    <3>1. ~Age
      BY <2>1 DEF Age, TypeOK
    <3>2. PICK p \in Process : Begin(p) \/ Advance(p) \/ WriteFails(p) \/ RenameRefused(p)
                                \/ Crash(p)
      BY <3>1 DEF Next
    <3>3. ~Open(p)
      BY DEF Open
    <3>4. ~Write(p)
      BY <2>1 DEF Write, TypeOK
    <3>5. ~(Begin(p) \/ RenameRefused(p) \/ Crash(p) \/ ReadExisting(p) \/ JudgeExisting(p)
              \/ Release(p) \/ ReadOwn(p))
      BY DEF Begin, RenameRefused, Crash, ReadExisting, JudgeExisting, Release, ReadOwn
    <3> QED
      BY <3>2, <3>3, <3>4, <3>5 DEF Advance
  <2>3. ~PreserveStaleLock(p)
    BY <2>1 DEF PreserveStaleLock, Orderly, RenameIsSafe
  <2>4. lock.creator = p
    BY <2>1, <2>2, <2>3 DEF WriteFails, Unlink, Orderly, OwnFile, FileStep
  <2> QED
    BY <2>1, <2>2, <2>3, <2>4 DEF WriteFails, Unlink, Exit, Goto, TypeOK
<1> QED
  BY <1>1, Invariance, PTL DEF Spec, LiveLockIsRemovedByItsOwner
=============================================================================
