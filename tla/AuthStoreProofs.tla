---------------------------- MODULE AuthStoreProofs ----------------------------
(* Proofs about AuthStore for every value of its constants. *)
EXTENDS AuthStore, TLAPS

LEMMA StepFacts ==
  /\ {"queued", "locking", "reading", "writing", "renamed", "failing", "done", "failed", "dead"}
        \subseteq Step
  /\ "idle" \in Step
  BY DEF Step

\* What a call writes is a file of entries.
LEMMA UpdatedType ==
  ASSUME NEW c \in Writer, NEW contents \in [McpServer -> Entry]
  PROVE  /\ Updated(c, contents) \in [McpServer -> Entry]
         /\ \/ Updated(c, contents) = Changed(c, contents)
            \/ FenceOf[c] # None /\ Updated(c, contents) = contents
<1>1. ServerOf[c] \in McpServer /\ ChangeOf[c] \in [Field -> Value \cup {None, Keep}]
  BY StoreAssumption DEF StoreAssumption
<1> DEFINE e == [p \in Field |-> IF ChangeOf[c][p] = Keep THEN contents[ServerOf[c]][p] ELSE ChangeOf[c][p]]
<1>2. contents[ServerOf[c]] \in Entry
  BY <1>1
<1>3. e \in Entry
  BY <1>1, <1>2 DEF Entry
<1>4. Changed(c, contents) = [contents EXCEPT ![ServerOf[c]] = e]
  BY DEF Changed
<1> HIDE DEF e
<1>5. Changed(c, contents) \in [McpServer -> Entry]
  BY <1>1, <1>3, <1>4
<1> QED BY <1>5 DEF Updated, FencedOut

LEMMA ContentsType == TypeOK => Contents \subseteq [McpServer -> Entry]
  BY DEF TypeOK, Contents, Empty, Entry

LEMMA InitStore == Init => StoreInv
<1> SUFFICES ASSUME Init PROVE StoreInv
  OBVIOUS
<1>1. TypeOK
  <2>1. data \in [Call -> [McpServer -> Entry]]
    BY DEF Init
  <2>2. pc \in [Call -> Step]
    BY StepFacts DEF Init
  <2>3. active \in [Process -> [McpServer -> Fence \cup {None}]]
    BY DEF Init
  <2> QED BY <2>1, <2>2, <2>3 DEF Init, TypeOK
<1>2. \A c \in Writer : pc[c] = "idle"
  BY DEF Init, Call
<1>3. UsersHoldTheLock /\ WritesAreFresh
  BY <1>2 DEF UsersHoldTheLock, WritesAreFresh
<1>4. LockIsInUse /\ RenamesAreSingle /\ LateStaysLate
  BY DEF Init, LockIsInUse, RenamesAreSingle, LateStaysLate
<1> QED BY <1>1, <1>3, <1>4 DEF StoreInv

\* Every step keeps the state typed.
LEMMA NextType == TypeOK /\ [Next]_vars => TypeOK'
<1> SUFFICES ASSUME TypeOK, [Next]_vars PROVE TypeOK'
  OBVIOUS
<1>a. ProcOf \in [Call -> Process] /\ Writer \subseteq Call /\ Reader \subseteq Call
  BY StoreAssumption DEF StoreAssumption, Call
<1>b. HomeOf \in [Fence -> Process]
  BY StoreAssumption DEF StoreAssumption
<1> USE StepFacts DEF Goto, LeaveMutex
<1>1. ASSUME NEW c \in Call, Begin(c) PROVE TypeOK'
  BY <1>1 DEF Begin, TypeOK
<1>2. ASSUME NEW c \in Call, Enter(c) PROVE TypeOK'
  BY <1>2, <1>a DEF Enter, TypeOK
<1>3. ASSUME NEW c \in Writer, Lock(c) PROVE TypeOK'
  BY <1>3, <1>a DEF Lock, TypeOK
<1>4. ASSUME NEW c \in Call, GiveUp(c) PROVE TypeOK'
  BY <1>4, <1>a DEF GiveUp, TypeOK
<1>5. ASSUME NEW c \in Call, Read(c) PROVE TypeOK'
  <2>1. PICK contents \in Contents :
          data' = [data EXCEPT ![c] = IF c \in Writer THEN Updated(c, contents) ELSE contents]
    BY <1>5 DEF Read
  <2>2. contents \in [McpServer -> Entry]
    BY ContentsType
  <2>3. data' \in [Call -> [McpServer -> Entry]]
    BY <2>1, <2>2, UpdatedType DEF TypeOK
  <2>4. pc' \in [Call -> Step] /\ mutex' \in [Process -> Call \cup {None}]
    BY <1>5, <1>a DEF Read, TypeOK
  <2> QED BY <1>5, <2>3, <2>4 DEF Read, TypeOK
<1>d. ASSUME NEW c \in Call, ReadDies(c) PROVE TypeOK'
  <2>1. pc' \in [Call -> Step] /\ mutex' \in [Process -> Call \cup {None}]
    BY <1>d, <1>a DEF ReadDies, TypeOK
  <2> QED BY <1>d, <2>1 DEF ReadDies, TypeOK
<1>6. ASSUME NEW c \in Writer, Rename(c) PROVE TypeOK'
  <2>1. c \in Call
    BY <1>a
  <2>2. file' \in [McpServer -> Entry]
    BY <1>6, <2>1 DEF Rename, TypeOK
  <2>3. renamed' \subseteq Writer /\ pc' \in [Call -> Step]
    BY <1>6, <2>1 DEF Rename, TypeOK
  <2> QED BY <1>6, <2>2, <2>3 DEF Rename, TypeOK
<1>7. ASSUME NEW c \in Call, WriteFails(c) PROVE TypeOK'
  BY <1>7 DEF WriteFails, TypeOK
<1>8. ASSUME NEW c \in Call, Release(c) PROVE TypeOK'
  <2>1. PICK step \in {"done", "failed"} : Goto(c, step)
    BY <1>8 DEF Release
  <2>2. pc' \in [Call -> Step]
    BY <2>1 DEF TypeOK
  <2> QED BY <1>8, <1>a, <2>2 DEF Release, TypeOK
<1>9. ASSUME NEW f \in Fence, NEW m \in McpServer, Claim(f, m) PROVE TypeOK'
  BY <1>9, <1>b DEF Claim, TypeOK
<1>10. ASSUME NEW f \in Fence, Revoke(f) PROVE TypeOK'
  BY <1>10, <1>b DEF Revoke, TypeOK
<1>11. ASSUME NEW p \in Process, Crash(p) PROVE TypeOK'
  BY <1>11 DEF Crash, TypeOK
<1>12. CASE TakeOver
  BY <1>12 DEF TakeOver, TypeOK
<1>13. CASE UNCHANGED vars
  BY <1>13 DEF vars, TypeOK
<1> QED BY <1>d, <1>1, <1>2, <1>3, <1>4, <1>5, <1>6, <1>7, <1>8, <1>9, <1>10, <1>11, <1>12, <1>13
        DEF Next, CallStep

\* Every step keeps the lock with a call that uses the file or is dead, and every
\* call that uses the file with the lock.
LEMMA NextLock ==
  ASSUME StoreInv, [Next]_vars
  PROVE  LockIsInUse' /\ UsersHoldTheLock'
<1>a. Writer \subseteq Call /\ Reader \subseteq Call /\ None \notin Writer
  BY StoreAssumption DEF StoreAssumption, Call
<1> USE <1>a DEF Goto, StoreInv, TypeOK, LockIsInUse, UsersHoldTheLock
<1>1. ASSUME NEW c \in Call, Begin(c) PROVE LockIsInUse' /\ UsersHoldTheLock'
  BY <1>1 DEF Begin
<1>2. ASSUME NEW c \in Call, Enter(c) PROVE LockIsInUse' /\ UsersHoldTheLock'
  BY <1>2 DEF Enter
<1>3. ASSUME NEW c \in Writer, Lock(c) PROVE LockIsInUse' /\ UsersHoldTheLock'
  BY <1>3 DEF Lock
<1>4. ASSUME NEW c \in Writer, GiveUp(c) PROVE LockIsInUse' /\ UsersHoldTheLock'
  BY <1>4 DEF GiveUp
<1>5. ASSUME NEW c \in Call, Read(c) PROVE LockIsInUse' /\ UsersHoldTheLock'
  BY <1>5 DEF Read
<1>d. ASSUME NEW c \in Call, ReadDies(c) PROVE LockIsInUse' /\ UsersHoldTheLock'
  BY <1>d DEF ReadDies
<1>6. ASSUME NEW c \in Writer, Rename(c) PROVE LockIsInUse' /\ UsersHoldTheLock'
  BY <1>6 DEF Rename
<1>7. ASSUME NEW c \in Writer, WriteFails(c) PROVE LockIsInUse' /\ UsersHoldTheLock'
  BY <1>7 DEF WriteFails
<1>8. ASSUME NEW c \in Writer, Release(c) PROVE LockIsInUse' /\ UsersHoldTheLock'
  <2>1. PICK step \in {"done", "failed"} : Goto(c, step)
    BY <1>8 DEF Release
  <2> QED BY <1>8, <2>1 DEF Release
<1>9. ASSUME NEW f \in Fence, NEW m \in McpServer, Claim(f, m)
      PROVE LockIsInUse' /\ UsersHoldTheLock'
  BY <1>9 DEF Claim
<1>10. ASSUME NEW f \in Fence, Revoke(f) PROVE LockIsInUse' /\ UsersHoldTheLock'
  BY <1>10 DEF Revoke
<1>11. ASSUME NEW p \in Process, Crash(p) PROVE LockIsInUse' /\ UsersHoldTheLock'
  BY <1>11 DEF Crash
<1>12. CASE TakeOver
  BY <1>12 DEF TakeOver
<1>13. CASE UNCHANGED vars
  BY <1>13 DEF vars
<1> QED BY <1>d, <1>1, <1>2, <1>3, <1>4, <1>5, <1>6, <1>7, <1>8, <1>9, <1>10, <1>11, <1>12, <1>13
        DEF Next, CallStep

\* A call that is going to write is going to write its change to the file: only a
\* rename changes the file, and nobody else is then between reading and renaming.
LEMMA NextFresh ==
  ASSUME StoreInv, [Next]_vars
  PROVE  WritesAreFresh'
<1>a. Writer \subseteq Call /\ Reader \subseteq Call
  BY DEF Call
<1> DEFINE Fresh(w) ==
      pc[w] = "writing" =>
        \E contents \in Contents :
          data[w] = Changed(w, contents) \/ (FenceOf[w] # None /\ data[w] = contents)
<1> SUFFICES ASSUME NEW w \in Writer PROVE Fresh(w)'
  BY DEF WritesAreFresh
<1>b. Fresh(w) /\ w \in Call
  BY <1>a DEF Fresh, StoreInv, WritesAreFresh
<1>c. ASSUME UNCHANGED file PROVE Contents' = Contents
  BY <1>c DEF Contents
<1>1. ASSUME UNCHANGED <<file, data>>, pc'[w] = "writing" => pc[w] = "writing"
      PROVE Fresh(w)'
  BY <1>1, <1>b, <1>c DEF Fresh, Changed
<1> HIDE DEF Fresh
<1> USE DEF StoreInv, TypeOK, Goto
<1>d. ASSUME NEW c \in Call, NEW step \in Step \ {"writing"},
             Goto(c, step), UNCHANGED <<file, data>>
      PROVE  Fresh(w)'
  BY <1>1, <1>b, <1>d
<1>2. ASSUME NEW c \in Call, Begin(c) \/ Enter(c) PROVE Fresh(w)'
  BY <1>d, <1>2, StepFacts DEF Begin, Enter
<1>3. ASSUME NEW c \in Writer, Lock(c) \/ GiveUp(c) \/ WriteFails(c) PROVE Fresh(w)'
  BY <1>a, <1>d, <1>3, StepFacts DEF Lock, GiveUp, WriteFails
<1>4. ASSUME NEW c \in Call, Read(c) PROVE Fresh(w)'
  <2>1. CASE c # w
    <3>1. UNCHANGED file /\ data'[w] = data[w] /\ pc'[w] = pc[w]
      BY <1>4, <1>b, <2>1 DEF Read
    <3> QED BY <3>1, <1>b, <1>c DEF Fresh, Changed
  <2>2. CASE c = w
    <3>1. PICK contents \in Contents : UNCHANGED file /\ data'[w] = Updated(w, contents)
      BY <1>4, <1>b, <2>2 DEF Read
    <3>2. \/ Updated(w, contents) = Changed(w, contents)
          \/ FenceOf[w] # None /\ Updated(w, contents) = contents
      BY UpdatedType, ContentsType
    <3>3. Changed(w, contents)' = Changed(w, contents)
      BY DEF Changed
    <3> QED BY <3>1, <3>2, <3>3, <1>c DEF Fresh
  <2> QED BY <2>1, <2>2
<1>e. ASSUME NEW c \in Call, ReadDies(c) PROVE Fresh(w)'
  BY <1>d, <1>e, StepFacts DEF ReadDies
<1>5. ASSUME NEW c \in Writer, Rename(c) PROVE Fresh(w)'
  <2>1. pc'[w] # "writing"
    BY <1>5, <1>a, <1>b DEF Rename, UsersHoldTheLock
  <2> QED BY <2>1 DEF Fresh
<1>6. ASSUME NEW c \in Writer, Release(c) PROVE Fresh(w)'
  <2>1. PICK step \in {"done", "failed"} : Goto(c, step)
    BY <1>6 DEF Release
  <2> QED BY <1>a, <1>d, <1>6, <2>1, StepFacts DEF Release
<1>7. ASSUME NEW f \in Fence, NEW m \in McpServer, Claim(f, m) PROVE Fresh(w)'
  BY <1>1, <1>7 DEF Claim
<1>8. ASSUME NEW f \in Fence, Revoke(f) PROVE Fresh(w)'
  BY <1>1, <1>8 DEF Revoke
<1>9. ASSUME NEW p \in Process, Crash(p) PROVE Fresh(w)'
  BY <1>1, <1>9, <1>b DEF Crash
<1>10. CASE TakeOver
  BY <1>1, <1>10 DEF TakeOver
<1>11. CASE UNCHANGED vars
  BY <1>1, <1>11 DEF vars
<1> QED BY <1>e, <1>2, <1>3, <1>4, <1>5, <1>6, <1>7, <1>8, <1>9, <1>10, <1>11 DEF Next, CallStep

\* A call takes effect once, and a call that came too late writes the file as it is.
LEMMA NextSingle ==
  ASSUME StoreInv, [Next]_vars
  PROVE  RenamesAreSingle'
<1>a. Writer \subseteq Call /\ renamed \subseteq Call
  BY DEF Call, StoreInv, TypeOK
<1> DEFINE After == {"renamed", "done", "failed", "dead"}
<1>b. \A c \in renamed : pc[c] \in After
  BY DEF StoreInv, RenamesAreSingle
<1>c. pc \in [Call -> Step]
  BY DEF StoreInv, TypeOK
<1>1. ASSUME UNCHANGED renamed, NEW c \in Call, NEW step \in Step, Goto(c, step),
             step \in After \/ pc[c] \notin After
      PROVE  RenamesAreSingle'
  BY <1>1, <1>a, <1>b, <1>c DEF RenamesAreSingle, Goto
<1> HIDE DEF After
<1>2. ASSUME NEW c \in Call, Begin(c) \/ Enter(c) PROVE RenamesAreSingle'
  BY <1>1, <1>2, StepFacts DEF Begin, Enter, After
<1>3. ASSUME NEW c \in Writer, Lock(c) \/ GiveUp(c) \/ WriteFails(c) PROVE RenamesAreSingle'
  BY <1>a, <1>1, <1>3, StepFacts DEF Lock, GiveUp, WriteFails, After
<1>4. ASSUME NEW c \in Call, Read(c) \/ ReadDies(c) PROVE RenamesAreSingle'
  BY <1>1, <1>4, StepFacts DEF Read, ReadDies, After
<1>5. ASSUME NEW c \in Writer, Rename(c) PROVE RenamesAreSingle'
  BY <1>a, <1>b, <1>c, <1>5 DEF Rename, Goto, After, RenamesAreSingle
<1>6. ASSUME NEW c \in Writer, Release(c) PROVE RenamesAreSingle'
  <2>1. PICK step \in {"done", "failed"} : Goto(c, step)
    BY <1>6 DEF Release
  <2> QED BY <1>a, <1>1, <1>6, <2>1, StepFacts DEF Release, After
<1>7. ASSUME UNCHANGED <<pc, renamed>> PROVE RenamesAreSingle'
  BY <1>7, <1>b DEF RenamesAreSingle, After
<1>8. ASSUME NEW p \in Process, Crash(p) PROVE RenamesAreSingle'
  BY <1>8, <1>a, <1>b DEF Crash, RenamesAreSingle, After
<1> QED
  BY <1>2, <1>3, <1>4, <1>5, <1>6, <1>7, <1>8
  DEF Next, CallStep, Claim, Revoke, TakeOver, vars

LEMMA NextLate ==
  ASSUME StoreInv, [Next]_vars
  PROVE  LateStaysLate'
<1>a. Writer \subseteq Call /\ late \subseteq Writer /\ claimed \subseteq Fence /\ None \notin Fence
  BY StoreAssumption DEF StoreAssumption, Call, StoreInv, TypeOK
<1>b. /\ pc \in [Call -> Step] /\ data \in [Call -> [McpServer -> Entry]]
      /\ active \in [Process -> [McpServer -> Fence \cup {None}]]
  BY DEF StoreInv, TypeOK
<1>c. \A w \in Writer : ProcOf[w] \in Process /\ ServerOf[w] \in McpServer
  BY <1>a, StoreAssumption DEF StoreAssumption
<1> DEFINE Out(w) == FenceOf[w] \in claimed /\ active[ProcOf[w]][ServerOf[w]] # FenceOf[w]
           Same(w) == pc[w] = "writing" => data[w] \in Contents
<1>d. \A w \in late : Out(w) /\ Same(w)
  BY DEF StoreInv, LateStaysLate
<1>f. ASSUME UNCHANGED file PROVE Contents' = Contents
  BY <1>f DEF Contents
<1>e. (\A w \in late' : Out(w)' /\ Same(w)') => LateStaysLate'
  BY DEF LateStaysLate
<1>1. ASSUME UNCHANGED <<file, data, active, claimed, late>>, NEW c \in Call, NEW step \in Step,
             Goto(c, step), step # "writing"
      PROVE  LateStaysLate'
  <2>1. \A w \in late : pc'[w] = "writing" => pc[w] = "writing"
    BY <1>1, <1>a, <1>b DEF Goto
  <2> QED BY <1>1, <1>d, <1>e, <1>f, <2>1
<1>2. ASSUME NEW c \in Call, Begin(c) PROVE LateStaysLate'
  <2>1. c \in Writer /\ FencedOut(c) => Out(c)
    BY <1>2, <1>a DEF Begin, FencedOut
  <2>2. \A w \in late' : Out(w)
    BY <1>2, <1>d, <2>1 DEF Begin
  <2>3. \A w \in late' : Same(w)'
    BY <1>2, <1>a, <1>b, <1>d, <1>f DEF Begin, Goto
  <2> QED BY <1>2, <1>e, <2>2, <2>3 DEF Begin
<1>3. ASSUME NEW c \in Call, Enter(c) PROVE LateStaysLate'
  BY <1>1, <1>3, StepFacts DEF Enter
<1>4. ASSUME NEW c \in Writer, Lock(c) \/ GiveUp(c) \/ WriteFails(c) PROVE LateStaysLate'
  BY <1>a, <1>1, <1>4, StepFacts DEF Lock, GiveUp, WriteFails
<1>5. ASSUME NEW c \in Call, Read(c) PROVE LateStaysLate'
  <2>1. UNCHANGED <<file, active, claimed, late>>
    BY <1>5 DEF Read
  <2>2. ASSUME NEW w \in late, w # c PROVE Same(w)'
    <3>1. data'[w] = data[w] /\ pc'[w] = pc[w]
      BY <1>5, <1>a, <1>b, <2>2 DEF Read, Goto
    <3> QED BY <1>d, <1>f, <2>1, <3>1
  <2>3. ASSUME c \in late PROVE Same(c)'
    <3>1. FencedOut(c) /\ c \in Writer
      BY <1>a, <1>d, <2>3 DEF FencedOut
    <3>2. data'[c] \in Contents
      BY <1>5, <1>b, <3>1 DEF Read, Updated
    <3> QED BY <1>f, <2>1, <3>2
  <2> QED BY <1>d, <1>e, <2>1, <2>2, <2>3
<1>g. ASSUME NEW c \in Call, ReadDies(c) PROVE LateStaysLate'
  BY <1>1, <1>g, StepFacts DEF ReadDies
<1>6. ASSUME NEW c \in Writer, Rename(c) PROVE LateStaysLate'
  <2>1. \A w \in late : pc'[w] # "writing"
    BY <1>6, <1>a, <1>b DEF Rename, Goto, StoreInv, UsersHoldTheLock
  <2> QED BY <1>6, <1>d, <1>e, <2>1 DEF Rename
<1>7. ASSUME NEW c \in Writer, Release(c) PROVE LateStaysLate'
  <2>1. PICK step \in {"done", "failed"} : Goto(c, step)
    BY <1>7 DEF Release
  <2> QED BY <1>a, <1>1, <1>7, <2>1, StepFacts DEF Release
<1>8. ASSUME NEW f \in Fence, NEW m \in McpServer, Claim(f, m) PROVE LateStaysLate'
  <2>1. HomeOf[f] \in Process
    BY StoreAssumption DEF StoreAssumption
  <2>2. ASSUME NEW w \in late PROVE Out(w)'
    <3>1. FenceOf[w] # f
      BY <1>8, <1>d DEF Claim
    <3>2. active'[ProcOf[w]][ServerOf[w]] \in {f, active[ProcOf[w]][ServerOf[w]]}
      BY <1>8, <1>a, <1>b, <1>c, <2>1 DEF Claim
    <3> QED BY <1>8, <1>d, <3>1, <3>2 DEF Claim
  <2> QED BY <1>8, <1>d, <1>e, <1>f, <2>2 DEF Claim
<1>9. ASSUME NEW f \in Fence, Revoke(f) PROVE LateStaysLate'
  <2>1. HomeOf[f] \in Process
    BY StoreAssumption DEF StoreAssumption
  <2>2. ASSUME NEW w \in late PROVE Out(w)'
    <3>1. FenceOf[w] # None
      BY <1>a, <1>d
    <3>2. active'[ProcOf[w]][ServerOf[w]] \in {None, active[ProcOf[w]][ServerOf[w]]}
      BY <1>9, <1>a, <1>b, <1>c, <2>1 DEF Revoke
    <3> QED BY <1>9, <1>d, <3>1, <3>2 DEF Revoke
  <2> QED BY <1>9, <1>d, <1>e, <1>f, <2>2 DEF Revoke
<1>10. ASSUME NEW p \in Process, Crash(p) PROVE LateStaysLate'
  BY <1>10, <1>a, <1>d, <1>e, <1>f DEF Crash
<1>11. ASSUME UNCHANGED <<file, pc, data, active, claimed, late>> PROVE LateStaysLate'
  BY <1>11, <1>d, <1>e, <1>f
<1> QED
  BY <1>g, <1>2, <1>3, <1>4, <1>5, <1>6, <1>7, <1>8, <1>9, <1>10, <1>11
  DEF Next, CallStep, TakeOver, vars

LEMMA NextStore == StoreInv /\ [Next]_vars => StoreInv'
  BY NextType, NextLock, NextFresh, NextSingle, NextLate DEF StoreInv

\* The inductive invariant holds in every reachable state.
THEOREM StoreInvariance == Spec => []StoreInv
  BY InitStore, NextStore, PTL DEF Spec

\* The state of the store stays typed.
THEOREM StoreTypeCorrect == Spec => []TypeOK
<1>1. StoreInv => TypeOK
  BY DEF StoreInv
<1> QED BY <1>1, StoreInvariance, PTL

\* Only a call that is using the file, or one whose process died, holds the lock
\* (withInterprocessLockEffect).
THEOREM LockIsNeverLeftBehind == Spec => []LockIsInUse
<1>1. StoreInv => LockIsInUse
  BY DEF StoreInv
<1> QED BY <1>1, StoreInvariance, PTL

\* A step of the store is one call taking effect on the atomic entries, or none.
LEMMA StepIsCommit ==
  ASSUME StoreInv, [Next]_vars
  PROVE  [Entries!Next]_<<file, renamed>>
<1>1. ASSUME NEW c \in Writer, Rename(c) PROVE Entries!Commit(c)
  <2>1. c \notin renamed
    BY <1>1 DEF Rename, StoreInv, RenamesAreSingle
  <2>2. PICK contents \in Contents :
          data[c] = Changed(c, contents) \/ (FenceOf[c] # None /\ data[c] = contents)
    BY <1>1 DEF Rename, StoreInv, WritesAreFresh
  <2>3. Entries!Changed(c, contents) = Changed(c, contents)
    BY DEF Entries!Changed, Changed
  <2>4. contents \in {file} \cup IF ReadsFail THEN {Entries!Empty} ELSE {}
    BY DEF Contents, Empty, Entries!Empty
  <2> QED BY <1>1, <2>1, <2>2, <2>3, <2>4 DEF Rename, Entries!Commit
<1>2. CASE \E c \in Writer : Rename(c)
  BY <1>1, <1>2 DEF Entries!Next
<1>3. CASE ~ \E c \in Writer : Rename(c)
  BY <1>3 DEF Next, CallStep, Begin, Enter, Lock, GiveUp, Read, ReadDies, WriteFails,
              Release, Claim, Revoke, Crash, TakeOver, vars
<1> QED BY <1>2, <1>3

\* The store implements the atomic entries, for any processes, calls and fences:
\* no update is lost or applied twice, whatever crashes and takeovers happen
\* (mutateEffect, withInterprocessLockEffect).
THEOREM StoreIsAtomic == Spec => Atomic
<1>1. Init => Entries!Init
  BY DEF Init, Entries!Init, Entry, Entries!Entry
<1> QED BY <1>1, StepIsCommit, StoreInvariance, PTL DEF Spec, Atomic, Entries!Spec

\* Where a file that can be written can be read, a write of a provider that had been
\* superseded or deactivated when it was asked for changes nothing
\* (updateEntryEffect, clearFieldEffect).
THEOREM FencedCallsChangeNothing == ~ReadsFail => (Spec => LateCallsChangeNothing)
<1> SUFFICES ASSUME ~ReadsFail PROVE Spec => LateCallsChangeNothing
  OBVIOUS
<1>1. StoreInv /\ [Next]_vars => [\A c \in late : Rename(c) => UNCHANGED file]_vars
  BY DEF StoreInv, LateStaysLate, Rename, Contents
<1> QED BY <1>1, StoreInvariance, PTL DEF Spec, LateCallsChangeNothing

\* And then no call touches what its comment says it leaves alone.
THEOREM CallsKeepToTheirParts == ~ReadsFail => (Spec => UnrelatedPartsStay)
<1> SUFFICES ASSUME ~ReadsFail PROVE Spec => UnrelatedPartsStay
  OBVIOUS
<1> DEFINE Stays(c) ==
      \A m \in McpServer, p \in Field :
        m # ServerOf[c] \/ ChangeOf[c][p] = Keep => file'[m][p] = file[m][p]
<1>1. ASSUME StoreInv, NEW c \in Writer, Rename(c) PROVE Stays(c)
  <2>1. file' = Changed(c, file) \/ file' = file
    BY <1>1 DEF StoreInv, WritesAreFresh, Rename, Contents
  <2>2. file \in [McpServer -> Entry]
    BY <1>1 DEF StoreInv, TypeOK
  <2> QED BY <2>1, <2>2 DEF Changed
<1>2. StoreInv /\ [Next]_vars => [\A c \in Writer : Rename(c) => Stays(c)]_vars
  BY <1>1
<1> QED BY <1>2, StoreInvariance, PTL DEF Spec, UnrelatedPartsStay

-----------------------------------------------------------------------------
(* The calls go on. *)

\* Every step of a call brings it nearer to its end, and no other step moves it but
\* the crash of its process (mutateEffect).
THEOREM CallsGoOn == Spec => CallsAdvance
<1>1. ASSUME TypeOK, [Next]_vars
      PROVE  [\A c \in Call : pc'[c] # pc[c] => StepsLeft(pc'[c]) < StepsLeft(pc[c])]_vars
  <2> SUFFICES ASSUME Next, NEW c \in Call, pc'[c] # pc[c]
               PROVE  StepsLeft(pc'[c]) < StepsLeft(pc[c])
    BY <1>1
  <2>0. pc \in [Call -> Step] /\ Writer \subseteq Call
    BY <1>1 DEF TypeOK, Call
  <2>1. CASE \E d \in Call : Begin(d) \/ CallStep(d)
    <3>1. PICK d \in Call : Begin(d) \/ CallStep(d)
      BY <2>1
    <3>2. \E step : Goto(d, step)
      BY <3>1 DEF Begin, CallStep, Enter, Lock, GiveUp, Read, ReadDies, Rename, WriteFails, Release
    <3>3. d = c
      BY <2>0, <3>2 DEF Goto
    <3>4. \/ pc[c] = "idle" /\ pc'[c] = "queued"
          \/ pc[c] = "queued" /\ pc'[c] \in {"locking", "reading"}
          \/ pc[c] = "locking" /\ pc'[c] \in {"reading", "failed"}
          \/ pc[c] = "reading" /\ pc'[c] \in {"writing", "done", "failing", "failed"}
          \/ pc[c] = "writing" /\ pc'[c] \in {"renamed", "failing"}
          \/ pc[c] \in {"renamed", "failing"} /\ pc'[c] \in {"done", "failed"}
      BY <2>0, <3>1, <3>3
      DEF Goto, Begin, CallStep, Enter, Lock, GiveUp, Read, ReadDies, Rename, WriteFails, Release
    <3> QED BY <3>4 DEF StepsLeft
  <2>2. CASE \E p \in Process : Crash(p)
    <3>1. pc'[c] = "dead" /\ pc[c] \in Step \ {"dead"}
      BY <2>0, <2>2 DEF Crash
    <3>2. StepsLeft("dead") = 0
      BY DEF StepsLeft
    <3>3. StepsLeft(pc[c]) \in 1 .. 7
      BY <3>1 DEF Step, StepsLeft
    <3> QED BY <3>1, <3>2, <3>3
  <2>3. CASE ~ (\E d \in Call : Begin(d) \/ CallStep(d)) /\ ~ \E p \in Process : Crash(p)
    BY <2>3 DEF Next, Claim, Revoke, TakeOver
  <2> QED BY <2>1, <2>2, <2>3
<1> QED BY <1>1, StoreTypeCorrect, PTL DEF Spec, CallsAdvance

\* A call that goes on inside its mutex, or queues for it, leaves every mutex as it is.
LEMMA GotoMutex ==
  ASSUME MutexInv, NEW c \in Call, NEW step, Goto(c, step), UNCHANGED mutex,
         \/ pc[c] \in Inside /\ step \in Inside
         \/ pc[c] = "idle" /\ step = "queued"
  PROVE  MutexIsInUse' /\ DeadTogether'
<1>1. /\ pc[c] # "dead" /\ step # "dead"
      /\ step \in Inside <=> pc[c] \in Inside
  BY DEF Inside
<1>2. \A d \in Call : pc'[d] = IF d = c THEN step ELSE pc[d]
  BY DEF Goto, MutexInv, StoreInv, TypeOK
<1>3. MutexIsInUse'
  BY <1>1, <1>2 DEF MutexIsInUse, MutexInv
<1>4. DeadTogether'
  BY <1>1, <1>2 DEF DeadTogether, MutexInv
<1> QED BY <1>3, <1>4

\* So does one that leaves, but for its own.
LEMMA LeavesMutex ==
  ASSUME MutexInv, NEW c \in Call, NEW step \in {"done", "failed"}, Goto(c, step),
         LeaveMutex(c), pc[c] \in Inside
  PROVE  MutexIsInUse' /\ DeadTogether'
<1>1. /\ \A d \in Call : pc'[d] = IF d = c THEN step ELSE pc[d]
      /\ \A p \in Process : mutex'[p] = IF p = ProcOf[c] THEN None ELSE mutex[p]
      /\ \A d \in Call : ProcOf[d] \in Process
      /\ None \notin Call
  BY StoreAssumption DEF StoreAssumption, Goto, LeaveMutex, MutexInv, StoreInv, TypeOK, Call
<1>2. mutex[ProcOf[c]] = c /\ step \notin Inside \cup {"dead"} /\ pc[c] # "dead"
  BY DEF MutexInv, MutexIsInUse, Inside
<1>3. MutexIsInUse'
  BY <1>1, <1>2 DEF MutexIsInUse, MutexInv
<1>4. DeadTogether'
  BY <1>1, <1>2 DEF DeadTogether, MutexInv
<1> QED BY <1>3, <1>4

LEMMA NextMutex == MutexInv /\ [Next]_vars => MutexInv'
<1> SUFFICES ASSUME MutexInv, [Next]_vars PROVE MutexInv'
  OBVIOUS
<1>0. /\ StoreInv /\ TypeOK /\ MutexIsInUse /\ DeadTogether
      /\ Writer \subseteq Call /\ None \notin Call
      /\ \A d \in Call : ProcOf[d] \in Process
  BY StoreAssumption DEF StoreAssumption, MutexInv, StoreInv, Call
<1>a. StoreInv'
  BY <1>0, NextStore
<1> SUFFICES MutexIsInUse' /\ DeadTogether'
  BY <1>a DEF MutexInv
<1>1. ASSUME NEW c \in Call, Begin(c) PROVE MutexIsInUse' /\ DeadTogether'
  BY <1>1, GotoMutex DEF Begin
<1>2. ASSUME NEW c \in Call, Enter(c) PROVE MutexIsInUse' /\ DeadTogether'
  <2>1. PICK step \in {"locking", "reading"} : Goto(c, step)
    BY <1>2 DEF Enter
  <2>2. /\ \A d \in Call : pc'[d] = IF d = c THEN step ELSE pc[d]
        /\ \A p \in Process : mutex'[p] = IF p = ProcOf[c] THEN c ELSE mutex[p]
        /\ mutex[ProcOf[c]] = None
    BY <1>0, <1>2, <2>1 DEF Enter, Goto, TypeOK
  <2>3. step \in Inside /\ pc[c] = "queued" /\ pc[c] \notin Inside
    BY <1>2 DEF Enter, Inside
  <2>4. MutexIsInUse'
    BY <1>0, <2>2, <2>3 DEF MutexIsInUse
  <2>5. DeadTogether'
    BY <1>0, <2>2, <2>3 DEF DeadTogether
  <2> QED BY <2>4, <2>5
<1>3. ASSUME NEW c \in Writer, Lock(c) \/ Rename(c) \/ WriteFails(c) PROVE MutexIsInUse' /\ DeadTogether'
  <2>1. PICK step \in Inside : Goto(c, step) /\ pc[c] \in Inside /\ UNCHANGED mutex
    BY <1>3 DEF Lock, Rename, WriteFails, Inside
  <2> QED BY <1>0, <2>1, GotoMutex
<1>4. ASSUME NEW c \in Writer, GiveUp(c) \/ Release(c) PROVE MutexIsInUse' /\ DeadTogether'
  <2>1. PICK step \in {"done", "failed"} : Goto(c, step)
    BY <1>4 DEF GiveUp, Release
  <2>2. LeaveMutex(c) /\ pc[c] \in Inside
    BY <1>4 DEF GiveUp, Release, Inside
  <2> QED BY <1>0, <2>1, <2>2, LeavesMutex
<1>5. ASSUME NEW c \in Call, Read(c) \/ ReadDies(c) PROVE MutexIsInUse' /\ DeadTogether'
  <2>1. pc[c] \in Inside /\ {"writing", "failing"} \subseteq Inside
    BY <1>5 DEF Read, ReadDies, Inside
  <2> QED BY <1>5, <2>1, GotoMutex, LeavesMutex DEF Read, ReadDies
<1>6. ASSUME NEW p \in Process, Crash(p) PROVE MutexIsInUse' /\ DeadTogether'
  <2>1. /\ \A d \in Call : pc'[d] = IF ProcOf[d] = p THEN "dead" ELSE pc[d]
        /\ UNCHANGED mutex
    BY <1>6 DEF Crash
  <2>2. "dead" \notin Inside
    BY DEF Inside
  <2>3. MutexIsInUse'
    BY <1>0, <2>1, <2>2 DEF MutexIsInUse
  <2>4. DeadTogether'
    BY <1>0, <2>1 DEF DeadTogether
  <2> QED BY <2>3, <2>4
<1>7. ASSUME UNCHANGED <<pc, mutex>> PROVE MutexIsInUse' /\ DeadTogether'
  BY <1>0, <1>7 DEF MutexIsInUse, DeadTogether
<1> QED BY <1>1, <1>2, <1>3, <1>4, <1>5, <1>6, <1>7 DEF Next, CallStep, Claim, Revoke, TakeOver, vars

\* The mutex of a process has the call of it that is past the queue, at most one
\* (mutateEffect's mutex).
THEOREM MutexSerializes == Spec => []MutexInv
<1>1. Init => MutexInv
  <2> SUFFICES ASSUME Init PROVE MutexInv
    OBVIOUS
  <2>1. \A c \in Call : pc[c] = "idle" /\ mutex[ProcOf[c]] = None
    BY StoreAssumption DEF StoreAssumption, Init
  <2>2. MutexIsInUse
    BY <2>1, StoreAssumption DEF StoreAssumption, Init, MutexIsInUse, Inside, Call
  <2>3. DeadTogether
    BY <2>1 DEF DeadTogether
  <2> QED BY <2>2, <2>3, InitStore DEF MutexInv
<1> QED BY <1>1, NextMutex, PTL DEF Spec

\* The mutex and the lock of the file never wait for each other: a queued call waits
\* for one that goes on, and the lock for another process, alive inside or dead.
THEOREM WaitersAreNotStuck == Spec => []WaitersAwaitOthers
<1>1. MutexInv => WaitersAwaitOthers
  <2> SUFFICES ASSUME MutexInv, NEW c \in Call
               PROVE  /\ pc[c] = "queued" /\ mutex[ProcOf[c]] # None => pc[mutex[ProcOf[c]]] \in Inside
                      /\ pc[c] = "locking" /\ lock # None =>
                            /\ ProcOf[lock] # ProcOf[c]
                            /\ pc[lock] \in (Inside \ {"locking"}) \cup {"dead"}
    BY DEF WaitersAwaitOthers
  <2>0. /\ MutexIsInUse /\ DeadTogether /\ LockIsInUse /\ TypeOK
        /\ ProcOf[c] \in Process /\ Writer \subseteq Call
    BY StoreAssumption DEF StoreAssumption, MutexInv, StoreInv, Call
  <2>1. ASSUME pc[c] = "queued", mutex[ProcOf[c]] # None PROVE pc[mutex[ProcOf[c]]] \in Inside
    <3> DEFINE d == mutex[ProcOf[c]]
    <3>1. d \in Call
      BY <2>0, <2>1 DEF TypeOK
    <3>2. ProcOf[d] = ProcOf[c] /\ pc[d] \in Inside \cup {"dead"}
      BY <2>0, <3>1 DEF MutexIsInUse
    <3>3. pc[d] # "dead"
      BY <2>0, <2>1, <3>1, <3>2 DEF DeadTogether
    <3> QED BY <3>2, <3>3
  <2>2. ASSUME pc[c] = "locking", lock # None
        PROVE  /\ ProcOf[lock] # ProcOf[c]
               /\ pc[lock] \in (Inside \ {"locking"}) \cup {"dead"}
    <3>1. lock \in Call /\ pc[lock] \in {"reading", "writing", "renamed", "failing", "dead"}
      BY <2>0, <2>2 DEF LockIsInUse, TypeOK
    <3>2. pc[lock] \in (Inside \ {"locking"}) \cup {"dead"}
      BY <3>1 DEF Inside
    <3>3. ASSUME ProcOf[lock] = ProcOf[c] PROVE FALSE
      <4>1. mutex[ProcOf[c]] = c
        BY <2>0, <2>2 DEF MutexIsInUse, Inside
      <4>2. pc[lock] # "dead"
        BY <2>0, <2>2, <3>1, <3>3 DEF DeadTogether
      <4>3. mutex[ProcOf[lock]] = lock
        BY <2>0, <3>1, <3>2, <4>2 DEF MutexIsInUse
      <4> QED BY <2>2, <3>1, <3>3, <4>1, <4>3
    <3> QED BY <3>2, <3>3
  <2> QED BY <2>1, <2>2
<1> QED BY <1>1, MutexSerializes, PTL
=============================================================================
