------------------------------- MODULE AuthStore -------------------------------
(***************************************************************************)
(* The credential store (src/src/auth-store.ts): calls of several          *)
(* processes on one JSON file.  Each process has one AuthStore, whose      *)
(* mutex its calls queue for.  A call that changes the file takes the lock *)
(* of the file too, reads it, computes the new contents, writes them to a  *)
(* file of its own and renames that.  A crash may come between any two of  *)
(* these steps; proper-lockfile takes a lock over when its holder has not  *)
(* renewed it for 30 seconds, which a live holder does every 5.            *)
(***************************************************************************)
EXTENDS Naturals

CONSTANTS
    Process,    \* Pi processes
    Writer,     \* calls that change an entry: set, remove, update and clear
    Reader,     \* calls that read: all, get, getForUrl and authStatus
    Fence,      \* write fences, one for each OAuth provider
    McpServer,  \* names of MCP servers
    Field,      \* the parts of an entry
    Value,      \* what a part may be
    None,       \* a part that is missing; nothing
    Keep,       \* what a call says of a part that it leaves alone
    ProcOf,     \* the process of a call
    ServerOf,   \* the server whose entry a call changes
    ChangeOf,   \* what a call does to each part
    FenceOf,    \* the fence a call brings, or None
    HomeOf,     \* the process of a fence
    ReadsFail   \* whether reading the file may fail while writing it succeeds

Call == Writer \cup Reader

Entry == [Field -> Value \cup {None}]

ASSUME StoreAssumption ==
    /\ Writer \cap Reader = {}
    /\ ProcOf \in [Call -> Process]
    /\ ServerOf \in [Writer -> McpServer]
    /\ ChangeOf \in [Writer -> [Field -> Value \cup {None, Keep}]]
    /\ FenceOf \in [Writer -> Fence \cup {None}]
    /\ HomeOf \in [Fence -> Process]
    /\ ReadsFail \in BOOLEAN
    /\ None \notin Call \cup Fence
    /\ Keep \notin Value \cup {None}
    \* A provider writes through the store of its own process.
    /\ \A c \in Writer : FenceOf[c] # None => HomeOf[FenceOf[c]] = ProcOf[c]

VARIABLES
    file,     \* the entries in the file
    lock,     \* the call whose process holds the lock of the file, or None
    mutex,    \* the call inside each process's mutex, or None
    pc,       \* where each call is
    data,     \* what each call read, or is going to write
    renamed,  \* the calls whose contents became the file
    active,   \* activeWriteFences: the fence that may write each entry, or None
    claimed,  \* the fences created so far
    late      \* the calls that began when their fence was no longer active

vars == <<file, lock, mutex, pc, data, renamed, active, claimed, late>>

Step == {"idle", "queued", "locking", "reading", "writing", "renamed", "failing",
         "done", "failed", "dead"}

Alive(p) == \A c \in Call : ProcOf[c] = p => pc[c] # "dead"

Goto(c, step) == pc' = [pc EXCEPT ![c] = step]

LeaveMutex(c) == mutex' = [mutex EXCEPT ![ProcOf[c]] = None]

FencedOut(c) == FenceOf[c] # None /\ active[ProcOf[c]][ServerOf[c]] # FenceOf[c]

-----------------------------------------------------------------------------

Begin(c) ==
    /\ pc[c] = "idle"
    /\ c \in Writer /\ FenceOf[c] # None => FenceOf[c] \in claimed
    /\ Goto(c, "queued")
    /\ late' = IF c \in Writer /\ FencedOut(c) THEN late \cup {c} ELSE late
    /\ UNCHANGED <<file, lock, mutex, data, renamed, active, claimed>>

\* The mutex of the process is free.
Enter(c) ==
    /\ pc[c] = "queued"
    /\ mutex[ProcOf[c]] = None
    /\ mutex' = [mutex EXCEPT ![ProcOf[c]] = c]
    /\ Goto(c, IF c \in Writer THEN "locking" ELSE "reading")
    /\ UNCHANGED <<file, lock, data, renamed, active, claimed, late>>

\* Mutant: the lock is not waited for.
Barge(c) ==
    /\ pc[c] = "locking"
    /\ lock' = c
    /\ Goto(c, "reading")
    /\ UNCHANGED <<file, mutex, data, renamed, active, claimed, late>>

Lock(c) ==
    /\ pc[c] = "locking"
    /\ lock = None
    /\ lock' = c
    /\ Goto(c, "reading")
    /\ UNCHANGED <<file, mutex, data, renamed, active, claimed, late>>

\* Mutant: the mutex is kept when the lock cannot be had.
GiveUpInside(c) ==
    /\ pc[c] = "locking"
    /\ Goto(c, "failed")
    /\ UNCHANGED <<file, lock, mutex, data, renamed, active, claimed, late>>

\* The lock is not had after 100 retries, or cannot be created or secured.
GiveUp(c) ==
    /\ pc[c] = "locking"
    /\ Goto(c, "failed")
    /\ LeaveMutex(c)
    /\ UNCHANGED <<file, lock, data, renamed, active, claimed, late>>

Empty == [m \in McpServer |-> [p \in Field |-> None]]

\* What reading the file may return: where readFile fails, the file counts as empty.
Contents == {file} \cup IF ReadsFail THEN {Empty} ELSE {}

\* What the entry of a call's server becomes: as the call says, with the parts it
\* keeps.  updateTokens keeps a refresh token that the tokens given do not replace.
Changed(c, contents) ==
    [contents EXCEPT ![ServerOf[c]] =
        [p \in Field |-> IF ChangeOf[c][p] = Keep THEN @[p] ELSE ChangeOf[c][p]]]

\* Mutant: the fence is not looked at.
ChangedAnyway(c, contents) == Changed(c, contents)

\* Mutant: nothing is left to write for a call that is fenced out.
UpdatedToNothing(c, contents) == IF FencedOut(c) THEN None ELSE Changed(c, contents)

\* updateEntryEffect and clearFieldEffect return what was read when the fence of the
\* call is no longer active.
Updated(c, contents) == IF FencedOut(c) THEN contents ELSE Changed(c, contents)

\* The file is read, and what is to be written computed.
Read(c) ==
    /\ pc[c] = "reading"
    /\ \E contents \in Contents :
          data' = [data EXCEPT ![c] = IF c \in Writer THEN Updated(c, contents) ELSE contents]
    /\ IF c \in Writer
       THEN Goto(c, "writing") /\ UNCHANGED mutex
       ELSE Goto(c, "done") /\ LeaveMutex(c)
    /\ UNCHANGED <<file, lock, renamed, active, claimed, late>>

\* The file is no JSON, which none of these calls makes it: JSON.parse throws in a
\* generator, a defect, which readEffect's Effect.catch lets pass.
ReadDies(c) ==
    /\ pc[c] = "reading"
    /\ IF c \in Writer
       THEN Goto(c, "failing") /\ UNCHANGED mutex
       ELSE Goto(c, "failed") /\ LeaveMutex(c)
    /\ UNCHANGED <<file, lock, data, renamed, active, claimed, late>>

\* The temporary file is written and renamed.
Rename(c) ==
    /\ pc[c] = "writing"
    /\ file' = data[c]
    /\ renamed' = renamed \cup {c}
    /\ Goto(c, "renamed")
    /\ UNCHANGED <<lock, mutex, data, active, claimed, late>>

\* The directory, the temporary file or the rename fails.
WriteFails(c) ==
    /\ pc[c] = "writing"
    /\ Goto(c, "failing")
    /\ UNCHANGED <<file, lock, mutex, data, renamed, active, claimed, late>>

\* The lock and the mutex are released, whatever came of the call; the mode of the
\* renamed file may have been refused.
Release(c) ==
    /\ pc[c] \in {"renamed", "failing"}
    /\ lock' = None
    /\ LeaveMutex(c)
    /\ \E step \in {"done", "failed"} :
          (pc[c] = "failing" => step = "failed") /\ Goto(c, step)
    /\ UNCHANGED <<file, data, renamed, active, claimed, late>>

-----------------------------------------------------------------------------

\* createOAuthWriteFence: a new provider of server m supersedes the one before.
Claim(f, m) ==
    /\ f \notin claimed
    /\ \A c \in Writer : FenceOf[c] = f => ServerOf[c] = m
    /\ claimed' = claimed \cup {f}
    /\ active' = [active EXCEPT ![HomeOf[f]][m] = f]
    /\ UNCHANGED <<file, lock, mutex, pc, data, renamed, late>>

\* revokeOAuthWriteFence, when a provider is deactivated.
Revoke(f) ==
    /\ f \in claimed
    /\ active' = [active EXCEPT ![HomeOf[f]] =
                     [m \in McpServer |-> IF @[m] = f THEN None ELSE @[m]]]
    /\ UNCHANGED <<file, lock, mutex, pc, data, renamed, claimed, late>>

\* A process ends.  Its lock stays until another process takes it over.
Crash(p) ==
    /\ Alive(p)
    /\ pc' = [c \in Call |-> IF ProcOf[c] = p THEN "dead" ELSE pc[c]]
    /\ UNCHANGED <<file, lock, mutex, data, renamed, active, claimed, late>>

TakeOver ==
    /\ lock # None
    /\ pc[lock] = "dead"
    /\ lock' = None
    /\ UNCHANGED <<file, mutex, pc, data, renamed, active, claimed, late>>

-----------------------------------------------------------------------------

Init ==
    /\ file \in [McpServer -> Entry]
    /\ lock = None
    /\ mutex = [p \in Process |-> None]
    /\ pc = [c \in Call |-> "idle"]
    /\ data = [c \in Call |-> file]
    /\ renamed = {}
    /\ active = [p \in Process |-> [m \in McpServer |-> None]]
    /\ claimed = {}
    /\ late = {}

CallStep(c) ==
    \/ Enter(c)
    \/ Read(c)
    \/ ReadDies(c)
    \/ c \in Writer /\ (Lock(c) \/ GiveUp(c) \/ Rename(c) \/ WriteFails(c) \/ Release(c))

Next ==
    \/ \E c \in Call : Begin(c) \/ CallStep(c)
    \/ \E f \in Fence : Revoke(f) \/ \E m \in McpServer : Claim(f, m)
    \/ \E p \in Process : Crash(p)
    \/ TakeOver

Spec == Init /\ [][Next]_vars

\* A call goes on while its process lives: file operations end, the mutex is a
\* queue, and waiting for the lock ends with the retries.
FairSpec == Spec /\ \A c \in Call : WF_vars(CallStep(c))

-----------------------------------------------------------------------------
(***************************************************************************)
(* Properties.                                                             *)
(***************************************************************************)

TypeOK ==
    /\ file \in [McpServer -> Entry]
    /\ lock \in Writer \cup {None}
    /\ mutex \in [Process -> Call \cup {None}]
    /\ pc \in [Call -> Step]
    /\ data \in [Call -> [McpServer -> Entry]]
    /\ renamed \subseteq Writer
    /\ active \in [Process -> [McpServer -> Fence \cup {None}]]
    /\ claimed \subseteq Fence
    /\ late \subseteq Writer

\* The store implements the atomic entries: each call takes effect at its rename, on
\* what the calls before it left, whatever processes, crashes and takeovers do
\* (mutateEffect).
Entries == INSTANCE AuthEntries WITH
    Call <- Writer, entries <- file, committed <- renamed,
    Fenced <- {c \in Writer : FenceOf[c] # None}, Lossy <- ReadsFail

Atomic == Entries!Spec

\* The lock is held by a call that is using the file, or by one whose process died:
\* every way a call ends gives the lock back (withInterprocessLockEffect).
LockIsInUse == lock # None => pc[lock] \in {"reading", "writing", "renamed", "failing", "dead"}

\* Only the holder of the lock is between reading the file and replacing it.
UsersHoldTheLock ==
    \A c \in Writer : pc[c] \in {"reading", "writing", "renamed", "failing"} => lock = c

\* What a call is going to write is its change to the file as it still is, or to an
\* empty one.
WritesAreFresh ==
    \A c \in Writer : pc[c] = "writing" =>
        \E contents \in Contents :
            data[c] = Changed(c, contents) \/ (FenceOf[c] # None /\ data[c] = contents)

\* A call takes effect at most once.
RenamesAreSingle ==
    \A c \in renamed : pc[c] \in {"renamed", "done", "failed", "dead"}

\* A fence that was not active never becomes so again.
LateStaysLate ==
    \A c \in late : /\ FenceOf[c] \in claimed
                    /\ active[ProcOf[c]][ServerOf[c]] # FenceOf[c]
                    /\ pc[c] = "writing" => data[c] \in Contents

\* The inductive invariant behind the properties.
StoreInv ==
    /\ TypeOK
    /\ LockIsInUse
    /\ UsersHoldTheLock
    /\ WritesAreFresh
    /\ RenamesAreSingle
    /\ LateStaysLate

\* A call made by a provider that has been superseded or deactivated never changes
\* the file, however long it waits for the mutex and the lock (updateEntryEffect).
LateCallsChangeNothing == [][\A c \in late : Rename(c) => UNCHANGED file]_vars

\* A call changes no entry but its server's, and no part that it does not name: what
\* the comments of clearDiscoveryState, clearTokens and clearClientInfo say.
UnrelatedPartsStay ==
    [][\A c \in Writer : Rename(c) =>
          \A m \in McpServer, p \in Field :
              m # ServerOf[c] \/ ChangeOf[c][p] = Keep => file'[m][p] = file[m][p]]_vars

\* The mutex of a process has the one call of it that is past the queue
\* (mutateEffect), unless the process died.
Inside == {"locking", "reading", "writing", "renamed", "failing"}

MutexIsInUse ==
    \A c \in Call :
        /\ pc[c] \in Inside => mutex[ProcOf[c]] = c
        /\ \A p \in Process : mutex[p] = c => ProcOf[c] = p /\ pc[c] \in Inside \cup {"dead"}

DeadTogether ==
    \A c, d \in Call : pc[c] = "dead" /\ ProcOf[c] = ProcOf[d] => pc[d] = "dead"

MutexInv == StoreInv /\ MutexIsInUse /\ DeadTogether

\* Nobody waits for ever: a queued call waits for one that goes on, and a call waits
\* for the lock of the file only while another process uses it, or died with it
\* (mutateEffect, withInterprocessLockEffect: the lock is taken inside the mutex).
WaitersAwaitOthers ==
    \A c \in Call :
        /\ pc[c] = "queued" /\ mutex[ProcOf[c]] # None => pc[mutex[ProcOf[c]]] \in Inside
        /\ pc[c] = "locking" /\ lock # None =>
              /\ ProcOf[lock] # ProcOf[c]
              /\ pc[lock] \in (Inside \ {"locking"}) \cup {"dead"}

\* How far a call is from its end, at most.
StepsLeft(step) ==
    CASE step = "idle" -> 7
      [] step = "queued" -> 6
      [] step = "locking" -> 5
      [] step = "reading" -> 4
      [] step = "writing" -> 3
      [] step \in {"renamed", "failing"} -> 2
      [] step \in {"done", "failed"} -> 1
      [] OTHER -> 0

\* A call never goes back, and others move it only by the crash of its process
\* (mutateEffect retries nothing but the lock).
CallsAdvance ==
    [][\A c \in Call : pc'[c] # pc[c] => StepsLeft(pc'[c]) < StepsLeft(pc[c])]_vars

\* A call ends while its process lives, whatever the calls of this process and of
\* others that crash or fail leave behind.
CallsEnd == \A c \in Call : (pc[c] = "queued") ~> (pc[c] \in {"done", "failed", "dead"})
=============================================================================
