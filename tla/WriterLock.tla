----------------------------- MODULE WriterLock -----------------------------
(***************************************************************************)
(* The lock file that the foreground service, the one-shot write commands, *)
(* the schema initialisation and the HR runner take before they write to   *)
(* the Control Kernel.  One step is one system call on the path of the     *)
(* file, and the processes interleave between any two.                     *)
(*                                                                         *)
(* All processes run on one host, so that the owner's pid decides whether  *)
(* a readable lock is stale.  An element of Process is a pid; it is given  *)
(* to a new process once no file and no process knows it any more.         *)
(***************************************************************************)
EXTENDS Naturals

CONSTANTS
    Process,      \* pids of the processes that want to write
    CrashBound    \* bound on the processes that die

ASSUME WriterLockAssumption ==
    /\ CrashBound \in Nat
    /\ "NOBODY" \notin Process

VARIABLES
    lock,      \* the file at the lock's path
    pc,        \* where a process stands
    attempt,   \* the loop counter of acquireWorkflowLock
    existing,  \* the owner the process read from the file it found
    raced,     \* history: a lock was created under a process still judging its predecessor
    crashes    \* crashes left

vars == <<lock, pc, attempt, existing, raced, crashes>>

Nobody == "NOBODY"

\* written: the owner is readable; aged: mtime is at least staleMs ago.
NoFile     == [creator |-> Nobody, written |-> FALSE, aged |-> FALSE]
NewFile(p) == [creator |-> p, written |-> FALSE, aged |-> FALSE]

Step == {"idle", "open", "write", "hold", "exists", "judge", "rename", "release", "unlink"}

TypeOK ==
    /\ lock \in [creator : Process \cup {Nobody}, written : BOOLEAN, aged : BOOLEAN]
    /\ pc \in [Process -> Step]
    /\ attempt \in [Process -> {0, 1}]
    /\ existing \in [Process -> Process \cup {Nobody}]
    /\ raced \in BOOLEAN
    /\ crashes \in 0 .. CrashBound

-----------------------------------------------------------------------------
Exists   == lock.creator # Nobody
Owner    == IF lock.written THEN lock.creator ELSE Nobody
Alive(p) == pc[p] # "idle"

Goto(p, s) == pc' = [pc EXCEPT ![p] = s]

\* The process exits, or throws: the pid is free again.
Exit(p) ==
    /\ Goto(p, "idle")
    /\ existing' = [existing EXCEPT ![p] = Nobody]

\* p acts on what it read of a file that may no longer be the one at the path.
Judging(p) == pc[p] = "rename" \/ (pc[p] = "judge" /\ existing[p] # Nobody)

\* A process starts under a pid that nothing refers to.
Begin(p) ==
    /\ pc[p] = "idle"
    /\ lock.creator # p
    /\ \A q \in Process : existing[q] # p
    /\ attempt' = [attempt EXCEPT ![p] = 0]
    /\ Goto(p, "open")
    /\ UNCHANGED <<lock, existing, raced, crashes>>

\* Mutant of Open: the file is opened with `w', which truncates.
OpenNonExclusive(p) ==
    /\ pc[p] = "open"
    /\ lock' = NewFile(p)
    /\ Goto(p, "write")
    /\ raced' = (raced \/ \E q \in Process \ {p} : Judging(q))
    /\ UNCHANGED <<attempt, existing, crashes>>

\* openSync(path, 'wx').
Open(p) ==
    /\ pc[p] = "open"
    /\ \/ /\ ~Exists
          /\ lock' = NewFile(p)
          /\ raced' = (raced \/ \E q \in Process \ {p} : Judging(q))
          /\ Goto(p, "write")
       \/ /\ Exists
          /\ Goto(p, "exists")
          /\ UNCHANGED <<lock, raced>>
    /\ UNCHANGED <<attempt, existing, crashes>>

\* The owner is written through the descriptor, wherever the file is by now.
Write(p) ==
    /\ pc[p] = "write"
    /\ lock' = IF lock.creator = p THEN [lock EXCEPT !.written = TRUE] ELSE lock
    /\ Goto(p, "hold")
    /\ UNCHANGED <<attempt, existing, raced, crashes>>

\* The write fails: whatever is at the path is unlinked, and the error thrown.
WriteFails(p) ==
    /\ pc[p] = "write"
    /\ lock' = NoFile
    /\ Exit(p)
    /\ UNCHANGED <<attempt, raced, crashes>>

\* Mutant of ReadExisting: every attempt may reclaim.
ReadExistingAlways(p) ==
    /\ pc[p] = "exists"
    /\ existing' = [existing EXCEPT ![p] = Owner]
    /\ Goto(p, "judge")
    /\ UNCHANGED <<lock, attempt, raced, crashes>>

\* EEXIST: readLock, which gives null for an empty or a vanished file.  Only the
\* first attempt goes on to ask whether the lock is stale.
ReadExisting(p) ==
    /\ pc[p] = "exists"
    /\ \/ /\ attempt[p] = 0
          /\ existing' = [existing EXCEPT ![p] = Owner]
          /\ Goto(p, "judge")
       \/ /\ attempt[p] = 1
          /\ Exit(p)
    /\ UNCHANGED <<lock, attempt, raced, crashes>>

\* Mutant of IsStale: an unreadable lock is taken for an abandoned one.
IsStaleWhenUnreadable(p) ==
    \/ existing[p] # Nobody /\ ~Alive(existing[p])
    \/ existing[p] = Nobody

\* Mutant of IsStale: only the owner's pid is asked for.
IsStaleByPid(p) == existing[p] # Nobody /\ ~Alive(existing[p])

\* lockIsStale: by the pid that was read, or by the age of the file there is now.
IsStale(p) ==
    \/ existing[p] # Nobody /\ ~Alive(existing[p])
    \/ existing[p] = Nobody /\ Exists /\ lock.aged

\* WORKFLOW_LOCK_CONFLICT unless the lock is stale.
JudgeExisting(p) ==
    /\ pc[p] = "judge"
    /\ \/ /\ IsStale(p)
          /\ Goto(p, "rename")
          /\ UNCHANGED existing
       \/ /\ ~IsStale(p)
          /\ Exit(p)
    /\ UNCHANGED <<lock, attempt, raced, crashes>>

\* preserveStaleLock moves away the file that is at the path now; when there is
\* none any more the command ends in a conflict.
PreserveStaleLock(p) ==
    /\ pc[p] = "rename"
    /\ \/ /\ Exists
          /\ lock' = NoFile
          /\ attempt' = [attempt EXCEPT ![p] = @ + 1]
          /\ existing' = [existing EXCEPT ![p] = Nobody]
          /\ Goto(p, "open")
       \/ /\ ~Exists
          /\ Exit(p)
          /\ UNCHANGED <<lock, attempt>>
    /\ UNCHANGED <<raced, crashes>>

\* EACCES or EPERM: a conflict as well.
RenameRefused(p) ==
    /\ pc[p] = "rename"
    /\ Exit(p)
    /\ UNCHANGED <<lock, attempt, raced, crashes>>

\* The command is done and calls release().
Release(p) ==
    /\ pc[p] = "hold"
    /\ Goto(p, "release")
    /\ UNCHANGED <<lock, attempt, existing, raced, crashes>>

\* release() compares the nonce of the file it reads, then unlinks the path.
ReadOwn(p) ==
    /\ pc[p] = "release"
    /\ IF Owner = p THEN Goto(p, "unlink") /\ UNCHANGED existing ELSE Exit(p)
    /\ UNCHANGED <<lock, attempt, raced, crashes>>

Unlink(p) ==
    /\ pc[p] = "unlink"
    /\ lock' = NoFile
    /\ Exit(p)
    /\ UNCHANGED <<attempt, raced, crashes>>

\* The process dies; its file stays.
Crash(p) ==
    /\ Alive(p)
    /\ crashes > 0
    /\ crashes' = crashes - 1
    /\ Exit(p)
    /\ UNCHANGED <<lock, attempt, raced>>

\* staleMs pass over a file whose creator died before the owner was written; a
\* live creator writes it sooner.
Age ==
    /\ Exists /\ ~lock.written /\ ~lock.aged
    /\ ~Alive(lock.creator)
    /\ lock' = [lock EXCEPT !.aged = TRUE]
    /\ UNCHANGED <<pc, attempt, existing, raced, crashes>>

-----------------------------------------------------------------------------
Init ==
    /\ lock = NoFile
    /\ pc = [p \in Process |-> "idle"]
    /\ attempt = [p \in Process |-> 0]
    /\ existing = [p \in Process |-> Nobody]
    /\ raced = FALSE
    /\ crashes = CrashBound

Advance(p) ==
    \/ Open(p) \/ Write(p) \/ ReadExisting(p) \/ JudgeExisting(p) \/ PreserveStaleLock(p)
    \/ Release(p) \/ ReadOwn(p) \/ Unlink(p)

Next ==
    \/ \E p \in Process : Begin(p) \/ Advance(p) \/ WriteFails(p) \/ RenameRefused(p) \/ Crash(p)
    \/ Age

Spec == Init /\ [][Next]_vars

\* Processes run and commands end, a refused command is tried again and is not
\* refused for ever, and time passes.
FairSpec ==
    /\ Spec
    /\ \A p \in Process : /\ WF_vars(Advance(p))
                          /\ SF_vars(PreserveStaleLock(p))
                          /\ WF_vars(Begin(p))
    /\ WF_vars(Age)

-----------------------------------------------------------------------------
(* Correctness. *)

Holds(p) == pc[p] \in {"hold", "release", "unlink"}

\* One writer at a time, as the documents promise it.
SingleWriter == \A p, q \in Process : Holds(p) /\ Holds(q) => p = q

\* Crashes, failed writes, refused renames and stale locks notwithstanding, there is
\* one writer at a time as long as no lock is created while another process is still
\* about to act on what it read of the previous one.
SingleWriterUnlessRaced == ~raced => SingleWriter

\* And as long as that has not happened the file of a live process is removed by
\* that process only: its release cannot miss it, nobody's failure takes it away.
LiveLockIsRemovedByItsOwner ==
    [][(~raced /\ Exists /\ Alive(lock.creator) /\ lock'.creator # lock.creator) =>
          pc[lock.creator] \in {"write", "unlink"} /\ pc'[lock.creator] = "idle"]_vars

\* A lock whose owner died does not stay in the way, even one that was never written.
AbandonedLockIsReclaimed ==
    \A p \in Process :
        (lock.creator = p /\ ~Alive(p)) ~> (lock.creator # p)
=============================================================================
