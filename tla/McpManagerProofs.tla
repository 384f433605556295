-------------------------- MODULE McpManagerProofs --------------------------
(* Proofs about McpManager for every value of its constants. *)
EXTENDS McpManager, TLAPS

Outcome == {"ok", "error", "aborted", "broken"}

\* The attempts are records.
LEMMA AttemptType ==
  ASSUME TypeOK
  PROVE  /\ att \in [Server -> [Attempt -> AttemptRecord]]
         /\ \A s \in Server, n \in Attempt : att[s][n] \in AttemptRecord
<1>1. att \in [Server -> [Attempt -> AttemptRecord]]
  BY DEF TypeOK
<1> QED BY <1>1

LEMMA IdleType == Idle \in SweepRecord
  BY ManagerAssumption DEF ManagerAssumption, Idle, SweepRecord

\* What a connectAll call makes of ended attempts is again a connectAll call.
LEMMA AnsweredType ==
  ASSUME NEW w \in SweepRecord, NEW over, NEW out
  PROVE  Answered(w, over, out) \in SweepRecord
<1> DEFINE hit == {s \in Server : <<s, w.waits[s]>> \in over}
           waits == [s \in Server |-> IF s \in hit THEN 0 ELSE w.waits[s]]
           failed == IF out = "error" THEN w.failed \cup hit ELSE w.failed
           rejected == w.rejected \/ out = "aborted"
<1>1. waits \in [Server -> 0..MaxAttempts]
  BY ManagerAssumption DEF SweepRecord, ManagerAssumption
<1>2. failed \in SUBSET Server
  BY DEF SweepRecord
<1>3. rejected \in BOOLEAN
  OBVIOUS
<1>4. [w EXCEPT !.waits = waits, !.failed = failed, !.rejected = rejected] \in SweepRecord
  <2> HIDE DEF waits, failed, rejected
  <2> QED BY <1>1, <1>2, <1>3 DEF SweepRecord
<1>5. Answered(w, over, out) \in {w, Idle,
         [w EXCEPT !.waits = waits, !.failed = failed, !.rejected = rejected]}
  BY DEF Answered
<1> QED BY <1>4, <1>5, IdleType

\* The end of attempts leaves typed sweeps and statuses, and writes no status
\* other than "failed" over those it was given.
LEMMA ResolveType ==
  ASSUME NEW over, NEW out \in Outcome, NEW base \in [Server -> Status],
         sweep \in [Sweep -> SweepRecord], Resolve(over, out, base)
  PROVE  /\ sweep' \in [Sweep -> SweepRecord]
         /\ statuses' \in [Server -> Status]
         /\ \A s \in Server : statuses'[s] \in {base[s], "failed"}
<1>1. PICK parked \in SUBSET {c \in Sweep : out # "ok" /\ sweep[c].sig # NoSignal} :
        LET after == [c \in Sweep |-> IF c \in parked THEN sweep[c]
                                      ELSE Answered(sweep[c], over, out)]
        IN  \E report \in [Sweep -> SUBSET Server] :
              /\ \A c \in Sweep : report[c] \in Reports(after[c])
              /\ sweep' = [c \in Sweep |-> IF Answering(after[c]) THEN Idle ELSE after[c]]
              /\ statuses' = [s \in Server |->
                                IF \E c \in Sweep : s \in report[c] THEN "failed" ELSE base[s]]
  BY DEF Resolve
<1> DEFINE after == [c \in Sweep |-> IF c \in parked THEN sweep[c]
                                     ELSE Answered(sweep[c], over, out)]
<1>2. after \in [Sweep -> SweepRecord]
  BY AnsweredType
<1>3. sweep' = [c \in Sweep |-> IF Answering(after[c]) THEN Idle ELSE after[c]]
  BY <1>1
<1>4. sweep' \in [Sweep -> SweepRecord]
  <2> HIDE DEF after
  <2> QED BY <1>2, <1>3, IdleType
<1>5. PICK report : statuses' = [s \in Server |->
                      IF \E c \in Sweep : s \in report[c] THEN "failed" ELSE base[s]]
  BY <1>1
<1>6. \A s \in Server : statuses'[s] \in {base[s], "failed"}
  BY <1>5
<1>7. statuses' \in [Server -> Status]
  BY <1>5 DEF Status
<1> QED BY <1>4, <1>6, <1>7

\* An attempt that ends is a typed record, and its server's registration is typed.
LEMMA EndType ==
  ASSUME TypeOK, NEW s \in Server, NEW n \in Attempt, NEW pc \in Ended,
         NEW out \in Outcome, NEW base \in [Server -> Status], End(s, n, pc, out, base)
  PROVE  /\ att' \in [Server -> [Attempt -> AttemptRecord]]
         /\ inflight' \in [Server -> 0..MaxAttempts]
         /\ sweep' \in [Sweep -> SweepRecord]
         /\ statuses' \in [Server -> Status]
         /\ \A r \in Server : statuses'[r] \in {base[r], "failed"}
<1> DEFINE last == [att[s][n] EXCEPT !.pc = pc, !.sig = NoSignal, !.way = 1, !.verdict = "none"]
<1>0. last \in AttemptRecord
  <2>1. att[s][n] \in AttemptRecord
    BY AttemptType
  <2> QED BY <2>1 DEF AttemptRecord, Verdict, Ended
<1>1. att' \in [Server -> [Attempt -> AttemptRecord]]
  <2>1. att' = [att EXCEPT ![s] = [att[s] EXCEPT ![n] = last]]
    BY AttemptType DEF End
  <2> HIDE DEF last
  <2> QED BY <1>0, <2>1, AttemptType
<1>2. inflight' \in [Server -> 0..MaxAttempts]
  BY ManagerAssumption DEF End, TypeOK, ManagerAssumption
<1>3. Resolve({<<s, n>>}, out, base) /\ sweep \in [Sweep -> SweepRecord]
  BY DEF End, TypeOK
<1> QED BY <1>1, <1>2, <1>3, ResolveType

\* An attempt that goes on is a typed record.
LEMMA GotoType ==
  ASSUME TypeOK, NEW s \in Server, NEW n \in Attempt, NEW pc \in Awaiting,
         NEW verdict \in Verdict, pc = "failing" => verdict \in Failure,
         Goto(s, n, pc, verdict)
  PROVE  /\ att' \in [Server -> [Attempt -> AttemptRecord]]
         /\ inflight' \in [Server -> 0..MaxAttempts]
         /\ sweep' \in [Sweep -> SweepRecord]
<1> DEFINE next == [att[s][n] EXCEPT !.pc = pc, !.verdict = verdict]
<1>1. next \in AttemptRecord
  <2>1. att[s][n] \in AttemptRecord
    BY AttemptType
  <2> QED BY <2>1 DEF AttemptRecord
<1>2. att' = [att EXCEPT ![s] = [att[s] EXCEPT ![n] = next]]
  BY AttemptType DEF Goto
<1>3. att' \in [Server -> [Attempt -> AttemptRecord]]
  <2> HIDE DEF next
  <2> QED BY <1>1, <1>2, AttemptType
<1> QED BY <1>3 DEF Goto, TypeOK

\* Taking out clients keeps the client and tool maps typed.
LEMMA DetachType ==
  ASSUME TypeOK, NEW S, Detach(S)
  PROVE  /\ clients' \in [Server -> 0..MaxAttempts]
         /\ tools' \in [Server -> SUBSET Tool]
         /\ ousted' \subseteq Server \X Attempt
  BY ManagerAssumption DEF Detach, TypeOK, ManagerAssumption

\* The handlers close, or have yet to close, clients that attempts connected.
LEMMA CloseType ==
  ASSUME TypeOK, NEW S \in SUBSET Server,
         CloseNow(S) \/ \E h \in Handler : CloseLater(S, h)
  PROVE  /\ live' \subseteq Server \X Attempt
         /\ parting' \in [Handler -> SUBSET (Server \X Attempt)]
<1>0. Stored(S) \in SUBSET (Server \X Attempt)
  BY DEF Stored, TypeOK, Attempt
<1>1. parting \in [Handler -> SUBSET (Server \X Attempt)] /\ live \subseteq Server \X Attempt
  BY DEF TypeOK
<1>2. CASE CloseNow(S)
  BY <1>1, <1>2 DEF CloseNow
<1>3. CASE \E h \in Handler : CloseLater(S, h)
  BY <1>0, <1>1, <1>3 DEF CloseLater
<1> QED BY <1>2, <1>3

\* A new attempt is a typed record.
LEMMA FirstType ==
  ASSUME TypeOK, NEW s \in Server, NEW W, NEW sig \in Signal \cup {NoSignal}
  PROVE  First(s, s \in W, sig) \in AttemptRecord
<1>1. /\ clients[s] \in 0..MaxAttempts /\ 0 \in 0..MaxAttempts
      /\ revision \in 0..MaxRevision
  BY ManagerAssumption DEF TypeOK, ManagerAssumption
<1>2. {"unsubscribing", "closeOld", "connecting"} \subseteq Awaiting /\ "none" \in Verdict
  BY DEF Awaiting, Verdict
<1> QED BY <1>1, <1>2 DEF First, Unused, AttemptRecord

\* Forking attempts keeps the attempts, their registration and the statuses typed.
LEMMA LaunchType ==
  ASSUME TypeOK, NEW T \in SUBSET Server, NEW sig \in Signal \cup {NoSignal}, Launch(T, sig)
  PROVE  /\ started' \in [Server -> 0..MaxAttempts]
         /\ inflight' \in [Server -> 0..MaxAttempts]
         /\ att' \in [Server -> [Attempt -> AttemptRecord]]
         /\ statuses' \in [Server -> Status]
         /\ clients' \in [Server -> 0..MaxAttempts]
         /\ tools' \in [Server -> SUBSET Tool]
         /\ live' \subseteq Server \X Attempt
         /\ parting' \in [Handler -> SUBSET (Server \X Attempt)]
         /\ ousted' \subseteq Server \X Attempt
<1> DEFINE fresh == {s \in T : inflight[s] = 0}
<1>0. fresh \in SUBSET Server
  OBVIOUS
<1>1. PICK W \in SUBSET (fresh \cap Modern) : Fork(fresh, W, sig)
  BY DEF Launch
<1> HIDE DEF fresh
<1>2. started' \in [Server -> 0..MaxAttempts]
  <2>1. started' = [s \in Server |-> IF s \in fresh THEN started[s] + 1 ELSE started[s]]
        /\ \A s \in fresh : started[s] < MaxStarted[s]
    BY <1>1 DEF Fork
  <2>2. \A s \in fresh : started[s] + 1 \in 0..MaxAttempts
    BY <1>0, <2>1, ManagerAssumption DEF TypeOK, ManagerAssumption
  <2> QED BY <2>1, <2>2 DEF TypeOK
<1>3. inflight' = [s \in Server |-> IF s \in fresh THEN started'[s] ELSE inflight[s]]
  BY <1>1 DEF Fork
<1>4. inflight' \in [Server -> 0..MaxAttempts]
  BY <1>2, <1>3 DEF TypeOK
<1>5. att' = [s \in Server |-> [n \in Attempt |->
                IF s \in fresh /\ n = started'[s] THEN First(s, s \in W, sig) ELSE att[s][n]]]
  BY <1>1 DEF Fork
<1>6. att' \in [Server -> [Attempt -> AttemptRecord]]
  <2> DEFINE first(s) == First(s, s \in W, sig)
  <2>1. \A s \in Server : first(s) \in AttemptRecord
    BY FirstType
  <2> HIDE DEF first
  <2> SUFFICES ASSUME NEW s \in Server, NEW n \in Attempt
               PROVE  (IF s \in fresh /\ n = started'[s] THEN first(s) ELSE att[s][n]) \in AttemptRecord
    BY <1>5 DEF first
  <2> QED BY <2>1, AttemptType
<1>7. statuses' \in [Server -> Status]
  BY <1>1 DEF Fork, TypeOK, Status
<1>8. Detach(fresh) /\ CloseNow(fresh \ W)
  BY <1>1 DEF Fork
<1> QED BY <1>0, <1>2, <1>4, <1>6, <1>7, <1>8, DetachType, CloseType

\* Interrupting the attempts keeps them, the sweeps and the statuses typed.
LEMMA InterruptType ==
  ASSUME TypeOK, NEW base \in [Server -> Status], InterruptAttempts(base)
  PROVE  /\ inflight' \in [Server -> 0..MaxAttempts]
         /\ att' \in [Server -> [Attempt -> AttemptRecord]]
         /\ sweep' \in [Sweep -> SweepRecord]
         /\ statuses' \in [Server -> Status]
         /\ \A s \in Server : statuses'[s] \in {base[s], "failed"}
<1> DEFINE hit == {<<s, inflight[s]>> : s \in {r \in Server : inflight[r] # 0}}
<1>1. inflight' \in [Server -> 0..MaxAttempts]
  <2>1. inflight' = [s \in Server |-> 0]
    BY DEF InterruptAttempts
  <2> QED BY <2>1, ManagerAssumption DEF ManagerAssumption
<1>2. \A s \in Server, n \in Attempt :
         [Unused EXCEPT !.pc = "interrupted", !.rev = att[s][n].rev, !.old = att[s][n].old]
            \in AttemptRecord
  <2> SUFFICES ASSUME NEW s \in Server, NEW n \in Attempt
               PROVE  [Unused EXCEPT !.pc = "interrupted", !.rev = att[s][n].rev, !.old = att[s][n].old]
                         \in AttemptRecord
    OBVIOUS
  <2>1. att[s][n] \in AttemptRecord
    BY AttemptType
  <2>2. att[s][n].rev \in 0..MaxRevision /\ att[s][n].old \in 0..MaxAttempts
    BY <2>1 DEF AttemptRecord
  <2> QED BY <2>2 DEF AttemptRecord, Unused, Ended, Verdict
<1>3. att' = [s \in Server |-> [n \in Attempt |->
                IF <<s, n>> \in hit
                THEN [Unused EXCEPT !.pc = "interrupted", !.rev = att[s][n].rev, !.old = att[s][n].old]
                ELSE att[s][n]]]
  BY DEF InterruptAttempts
<1>4. att' \in [Server -> [Attempt -> AttemptRecord]]
  <2> HIDE DEF hit
  <2> QED BY <1>2, <1>3, AttemptType
<1>5. Resolve(hit, "broken", base) /\ sweep \in [Sweep -> SweepRecord]
  BY DEF InterruptAttempts, TypeOK
<1>6. "broken" \in Outcome
  BY DEF Outcome
<1> HIDE DEF hit
<1> QED BY <1>1, <1>4, <1>5, <1>6, ResolveType

LEMMA InitType == Init => TypeOK
<1> SUFFICES ASSUME Init PROVE TypeOK
  OBVIOUS
<1>1. Unused \in AttemptRecord
  BY ManagerAssumption DEF Unused, AttemptRecord, Verdict, ManagerAssumption
<1>2. att \in [Server -> [Attempt -> AttemptRecord]]
  BY <1>1 DEF Init
<1>3. sweep \in [Sweep -> SweepRecord]
  BY IdleType DEF Init
<1>4. statuses \in [Server -> Status]
  BY DEF Init, Status
<1>5. refreshing \in [Server -> [Attempt -> 0..MaxRefresh]]
  BY ManagerAssumption DEF Init, ManagerAssumption
<1>6. /\ closed \in BOOLEAN /\ revision \in 0..MaxRevision
      /\ config \in Configs /\ newConfig \in Configs
  <2>1. closed \in BOOLEAN /\ config \in Configs /\ newConfig \in Configs
    BY Zenon DEF Init
  <2>2. revision = 0
    BY DEF Init
  <2> QED BY <2>1, <2>2, ManagerAssumption DEF ManagerAssumption
<1>8. ctl \in [{"initialize", "close"} -> Phase]
  BY DEF Init, Phase
<1>7. /\ manual \subseteq Server
      /\ clients \in [Server -> 0..MaxAttempts]
      /\ tools \in [Server -> SUBSET Tool]
      /\ live \subseteq Server \X Attempt /\ ousted \subseteq Server \X Attempt
      /\ parting \in [Handler -> SUBSET (Server \X Attempt)]
      /\ inflight \in [Server -> 0..MaxAttempts]
      /\ started \in [Server -> 0..MaxAttempts]
      /\ aborted \subseteq Signal
  BY ManagerAssumption DEF Init, ManagerAssumption
<1> QED BY <1>2, <1>3, <1>4, <1>5, <1>6, <1>7, <1>8 DEF TypeOK

LEMMA CallType ==
  ASSUME TypeOK, CallStep
  PROVE  TypeOK'
<1> USE DEF control, store, flights
<1>1. PICK intent \in Intent, sig \in Signal \cup {NoSignal} :
         \/ \E s \in Server : Connect(s, intent, sig)
         \/ \E c \in Sweep : ConnectAll(c, intent, sig)
  BY DEF CallStep
<1>2. CASE \E s \in Server : Connect(s, intent, sig)
  <2>1. PICK s \in Server : Connect(s, intent, sig)
    BY <1>2
  <2>2. Proceeding({s}, sig) \in SUBSET Server /\ Launch(Proceeding({s}, sig), sig)
    BY <2>1 DEF Connect, Proceeding
  <2>3. manual' \subseteq Server /\ sweep' = sweep
    BY <2>1 DEF Connect, ClearsManual, TypeOK
  <2>4. UNCHANGED <<control, refreshing, aborted>>
    BY <2>2 DEF Launch, Fork
  <2> QED BY <2>2, <2>3, <2>4, LaunchType DEF TypeOK
<1>3. CASE \E c \in Sweep : ConnectAll(c, intent, sig)
  <2>1. PICK c \in Sweep : ConnectAll(c, intent, sig)
    BY <1>3
  <2> DEFINE T == {s \in Configured : CanConnect(s, intent)}
             w == [Idle EXCEPT !.waits = [s \in Server |-> IF s \in T THEN inflight'[s] ELSE 0],
                               !.sig = sig]
  <2>2. Proceeding(T, sig) \in SUBSET Server /\ Launch(Proceeding(T, sig), sig)
    BY <2>1 DEF ConnectAll, Proceeding, Configured
  <2>3. manual' \subseteq Server
    BY <2>1 DEF ConnectAll, ClearsManual, TypeOK
  <2>4. UNCHANGED <<control, refreshing, aborted>>
    BY <2>2 DEF Launch, Fork
  <2>5. inflight' \in [Server -> 0..MaxAttempts]
    BY <2>2, LaunchType
  <2>6. w \in SweepRecord
    <3>1. [s \in Server |-> IF s \in T THEN inflight'[s] ELSE 0] \in [Server -> 0..MaxAttempts]
      BY <2>5, ManagerAssumption DEF ManagerAssumption
    <3> HIDE DEF T
    <3> QED BY <3>1, IdleType DEF SweepRecord
  <2>7. sweep' = sweep \/ sweep' = [sweep EXCEPT ![c] = w]
    BY <2>1 DEF ConnectAll
  <2>8. sweep' \in [Sweep -> SweepRecord]
    <3> HIDE DEF w
    <3> QED BY <2>6, <2>7 DEF TypeOK
  <2> HIDE DEF T, w
  <2> QED BY <2>2, <2>3, <2>4, <2>8, LaunchType DEF TypeOK
<1> QED BY <1>1, <1>2, <1>3

LEMMA AttemptStepType ==
  ASSUME TypeOK, NEW s \in Server, NEW n \in Attempt, AttemptStep(s, n)
  PROVE  TypeOK'
<1> USE DEF control, store, flights
<1>a. /\ {"unsubscribing", "closeOld", "connecting", "failing", "listing", "dropping", "notifying"} \subseteq Awaiting
      /\ {"ended", "died"} \subseteq Ended
      /\ {"ok", "error", "aborted", "broken"} \subseteq Outcome
      /\ {"none", "stale", "disabled", "collision", "error"} \subseteq Verdict
  BY DEF Awaiting, Ended, Outcome, Verdict
<1>b. statuses \in [Server -> Status] /\ \A st \in Status : [statuses EXCEPT ![s] = st] \in [Server -> Status]
  BY DEF TypeOK
<1>c. {"connected", "disabled", "failed"} \subseteq Status
  BY DEF Status
<1> DEFINE Moved == /\ att' \in [Server -> [Attempt -> AttemptRecord]]
                    /\ inflight' \in [Server -> 0..MaxAttempts]
                    /\ sweep' \in [Sweep -> SweepRecord]
                    /\ statuses' \in [Server -> Status]
           Kept == UNCHANGED <<control, manual, started, refreshing, aborted>>
<1>d. ASSUME Moved, Kept, UNCHANGED store PROVE TypeOK'
  BY <1>d DEF TypeOK
<1>e. ASSUME NEW verdict \in Verdict, Drop(s, n, verdict), Kept PROVE TypeOK'
  <2>1. Goto(s, n, "dropping", verdict)
    BY <1>e DEF Drop
  <2>2. Moved
    BY <2>1, <1>a, <1>b, <1>e, GotoType DEF Drop
  <2>3. live' \subseteq Server \X Attempt /\ UNCHANGED <<clients, tools, parting, ousted>>
    BY <1>e DEF Drop, TypeOK
  <2> QED BY <2>2, <2>3, <1>e DEF TypeOK
<1>f. ASSUME Opens(s, n) PROVE Moved
  <2>1. CASE End(s, n, "died", "broken", statuses)
    BY <2>1, <1>a, <1>b, EndType
  <2>2. CASE Goto(s, n, "connecting", "none") /\ UNCHANGED statuses
    BY <2>2, <1>a, <1>b, GotoType
  <2> QED BY <1>f, <2>1, <2>2 DEF Opens
<1>0. CASE Unsubscribed(s, n)
  <2>1. CASE Opens(s, n) /\ UNCHANGED live
    BY <1>0, <2>1, <1>d, <1>f DEF Unsubscribed
  <2>2. CASE /\ live' = live \ {<<s, att[s][n].old>>}
             /\ att' = [att EXCEPT ![s][n] = [@ EXCEPT !.pc = "closeOld", !.old = 0]]
             /\ UNCHANGED <<inflight, sweep, statuses>>
    <3> DEFINE next == [att[s][n] EXCEPT !.pc = "closeOld", !.old = 0]
    <3>1. next \in AttemptRecord
      <4>1. att[s][n] \in AttemptRecord /\ 0 \in 0..MaxAttempts
        BY AttemptType, ManagerAssumption DEF ManagerAssumption
      <4>2. "closeOld" \in Awaiting
        BY DEF Awaiting
      <4> QED BY <4>1, <4>2 DEF AttemptRecord
    <3>2. att' = [att EXCEPT ![s] = [att[s] EXCEPT ![n] = next]]
      BY <2>2, AttemptType
    <3>3. att' \in [Server -> [Attempt -> AttemptRecord]]
      <4> HIDE DEF next
      <4> QED BY <3>1, <3>2, AttemptType
    <3>4. live' \subseteq Server \X Attempt
      BY <2>2 DEF TypeOK
    <3> QED BY <1>0, <2>2, <3>3, <3>4 DEF Unsubscribed, TypeOK
  <2> QED BY <1>0, <2>1, <2>2 DEF Unsubscribed
<1>1. CASE OldClosed(s, n)
  BY <1>1, <1>d, <1>f DEF OldClosed
<1>2. CASE Connected(s, n)
  <2>1. CASE Drop(s, n, "stale") \/ Drop(s, n, "disabled")
    BY <1>2, <2>1, <1>a, <1>e DEF Connected
  <2>2. CASE /\ statuses' = [statuses EXCEPT ![s] = "connected"]
             /\ live' = live \cup {<<s, n>>}
             /\ Goto(s, n, "listing", "none")
             /\ UNCHANGED <<clients, tools, parting, ousted>>
    <3>1. Moved
      BY <2>2, <1>a, <1>b, <1>c, GotoType
    <3> QED BY <1>2, <2>2, <3>1 DEF Connected, TypeOK
  <2> QED BY <1>2, <2>1, <2>2 DEF Connected
<1>3. CASE \E verdict \in Failure : ConnectFails(s, n, verdict)
  <2>1. PICK verdict \in Failure : ConnectFails(s, n, verdict)
    BY <1>3
  <2>2. verdict \in Verdict /\ "failing" \in Awaiting
    BY DEF Verdict, Awaiting
  <2> QED BY <2>1, <2>2, <1>b, <1>d, GotoType DEF ConnectFails
<1>4. CASE TransportClosed(s, n)
  <2>0. Kept /\ UNCHANGED store
    BY <1>4 DEF TransportClosed
  <2>1. CASE End(s, n, "died", "broken", statuses) \/ End(s, n, "ended", "ok", statuses)
    BY <2>0, <2>1, <1>a, <1>b, <1>d, EndType
  <2>2. CASE End(s, n, "ended", "ok", [statuses EXCEPT ![s] = "disabled"])
    BY <2>0, <2>2, <1>a, <1>b, <1>c, <1>d, EndType
  <2>3. CASE /\ att' = [att EXCEPT ![s][n] = [@ EXCEPT !.pc = "connecting", !.way = 2,
                                                      !.verdict = "none"]]
             /\ UNCHANGED <<inflight, sweep, statuses>>
    <3> DEFINE retry == [att[s][n] EXCEPT !.pc = "connecting", !.way = 2, !.verdict = "none"]
    <3>1. att[s][n] \in AttemptRecord
      BY AttemptType
    <3>2. retry \in AttemptRecord
      BY <3>1, <1>a DEF AttemptRecord
    <3>3. att' = [att EXCEPT ![s] = [att[s] EXCEPT ![n] = retry]]
      BY <2>3, AttemptType
    <3>4. att' \in [Server -> [Attempt -> AttemptRecord]]
      <4> HIDE DEF retry
      <4> QED BY <3>2, <3>3, AttemptType
    <3> QED BY <2>0, <2>3, <3>4, <1>d DEF TypeOK
  <2>4. CASE /\ att[s][n].pc = "failing"
             /\ statuses' = [statuses EXCEPT ![s] = att[s][n].verdict]
             /\ Goto(s, n, "notifying", "none")
    <3>1. att[s][n] \in AttemptRecord
      BY AttemptType
    <3>2. att[s][n].verdict \in Status
      BY <2>4, <3>1 DEF AttemptRecord, Failure, Status
    <3>3. Goto(s, n, "notifying", "none") /\ "notifying" # "failing"
      BY <2>4
    <3>4. Moved
      BY <2>4, <3>2, <3>3, <1>a, <1>b, GotoType
    <3> QED BY <2>0, <3>4, <1>d
  <2> QED BY <1>4, <2>1, <2>2, <2>3, <2>4 DEF TransportClosed
<1>5. CASE \E L \in SUBSET Tool : Listed(s, n, L)
  <2>1. PICK L \in SUBSET Tool : Listed(s, n, L)
    BY <1>5
  <2>2. CASE \E verdict \in {"stale", "disabled", "collision"} : Drop(s, n, verdict)
    BY <2>1, <2>2, <1>a, <1>e DEF Listed
  <2>3. CASE /\ clients' = [clients EXCEPT ![s] = n]
             /\ tools' = [tools EXCEPT ![s] = L]
             /\ Goto(s, n, "notifying", "none")
             /\ UNCHANGED <<statuses, live, parting, ousted>>
    <3>1. Moved
      BY <2>3, <1>a, <1>b, GotoType
    <3>2. clients' \in [Server -> 0..MaxAttempts] /\ tools' \in [Server -> SUBSET Tool]
      BY <2>3, ManagerAssumption DEF TypeOK, ManagerAssumption, Attempt
    <3> QED BY <2>1, <2>3, <3>1, <3>2 DEF Listed, TypeOK
  <2> QED BY <2>1, <2>2, <2>3 DEF Listed
<1>6. CASE ListFails(s, n)
  BY <1>6, <1>a, <1>e DEF ListFails
<1>7. CASE ListDies(s, n)
  BY <1>7, <1>a, <1>b, <1>d, EndType DEF ListDies
<1>8. CASE Dropped(s, n)
  <2>0. Kept /\ UNCHANGED store
    BY <1>8 DEF Dropped
  <2>1. CASE \E out \in Outcome : End(s, n, "ended", out, statuses)
    BY <2>0, <2>1, <1>a, <1>b, <1>d, EndType
  <2>2. CASE End(s, n, "ended", "ok", [statuses EXCEPT ![s] = "disabled"])
    BY <2>0, <2>2, <1>a, <1>b, <1>c, <1>d, EndType
  <2>3. CASE /\ statuses' = [statuses EXCEPT ![s] = "failed"]
             /\ Goto(s, n, "notifying", "none")
    BY <2>0, <2>3, <1>a, <1>b, <1>c, <1>d, GotoType
  <2> QED BY <1>8, <2>1, <2>2, <2>3, <1>a DEF Dropped
<1>9. CASE Notified(s, n)
  <2>1. PICK out \in {"ok"} \cup IF NotifyMayFail THEN {"error"} ELSE {} :
           End(s, n, "ended", out, statuses)
    BY <1>9 DEF Notified
  <2>2. out \in Outcome
    BY <1>a
  <2> QED BY <1>9, <2>1, <2>2, <1>a, <1>b, <1>d, EndType DEF Notified
<1> QED BY <1>0, <1>1, <1>2, <1>3, <1>4, <1>5, <1>6, <1>7, <1>8, <1>9 DEF AttemptStep

LEMMA HandlerType ==
  ASSUME TypeOK, NEW s \in Server,
         ConnectDisabled(s) \/ DisconnectStep(s) \/ ConnectionLost(s) \/ RefreshStep(s)
  PROVE  TypeOK'
<1> USE DEF control, store, flights
<1>a. /\ [statuses EXCEPT ![s] = "disabled"] \in [Server -> Status]
      /\ [statuses EXCEPT ![s] = "failed"] \in [Server -> Status]
  BY DEF TypeOK, Status
<1>b. \A n \in Attempt : refreshing[s][n] > 0 =>
         [refreshing EXCEPT ![s][n] = @ - 1] \in [Server -> [Attempt -> 0..MaxRefresh]]
  <2> SUFFICES ASSUME NEW n \in Attempt, refreshing[s][n] > 0
               PROVE  [refreshing EXCEPT ![s][n] = @ - 1] \in [Server -> [Attempt -> 0..MaxRefresh]]
    OBVIOUS
  <2>1. refreshing \in [Server -> [Attempt -> 0..MaxRefresh]]
    BY DEF TypeOK
  <2>2. refreshing[s][n] - 1 \in 0..MaxRefresh
    BY <2>1, ManagerAssumption DEF ManagerAssumption
  <2> QED BY <2>1, <2>2
<1>1. CASE ConnectDisabled(s)
  BY <1>1, <1>a DEF ConnectDisabled, TypeOK
<1>2. CASE Disconnect(s)
  <2>1. Detach({s}) /\ (CloseNow({s}) \/ \E h \in Handler : CloseLater({s}, h))
    BY <1>2 DEF Disconnect, Handler
  <2>2. /\ clients' \in [Server -> 0..MaxAttempts] /\ tools' \in [Server -> SUBSET Tool]
        /\ ousted' \subseteq Server \X Attempt
    BY <2>1, DetachType
  <2>3. {s} \in SUBSET Server
    OBVIOUS
  <2>4. /\ live' \subseteq Server \X Attempt
        /\ parting' \in [Handler -> SUBSET (Server \X Attempt)]
    BY <2>1, <2>3, CloseType
  <2> QED BY <1>2, <1>a, <2>2, <2>4 DEF Disconnect, TypeOK
<1>7. ASSUME NEW n \in Attempt, Disconnected(s, n) PROVE TypeOK'
  <2>1. parting' \in [Handler -> SUBSET (Server \X Attempt)] /\ live' \subseteq Server \X Attempt
    BY <1>7 DEF Disconnected, TypeOK, Handler
  <2> QED BY <1>7, <2>1 DEF Disconnected, TypeOK
<1>3. CASE ConnectionLost(s)
  <2>1. live' \subseteq Server \X Attempt
    BY <1>3 DEF ConnectionLost, TypeOK
  <2> QED BY <1>3, <1>a, <2>1, DetachType DEF ConnectionLost, TypeOK
<1>4. CASE ToolListChanged(s)
  <2>1. clients[s] \in Attempt
    BY <1>4 DEF ToolListChanged, TypeOK, Attempt
  <2>2. refreshing \in [Server -> [Attempt -> 0..MaxRefresh]]
    BY DEF TypeOK
  <2>3. refreshing[s][clients[s]] + 1 \in 0..MaxRefresh
    BY <1>4, <2>1, <2>2, ManagerAssumption DEF ToolListChanged, ManagerAssumption
  <2>4. refreshing' \in [Server -> [Attempt -> 0..MaxRefresh]]
    BY <1>4, <2>1, <2>2, <2>3 DEF ToolListChanged
  <2> QED BY <1>4, <2>4 DEF ToolListChanged, TypeOK
<1>5. ASSUME NEW n \in Attempt, RefreshFails(s, n) PROVE TypeOK'
  BY <1>5, <1>b DEF RefreshFails, TypeOK
<1>6. ASSUME NEW n \in Attempt, NEW L \in SUBSET Tool, Refreshed(s, n, L) PROVE TypeOK'
  <2>1. refreshing' \in [Server -> [Attempt -> 0..MaxRefresh]]
    BY <1>6, <1>b DEF Refreshed
  <2>2. statuses' \in [Server -> Status] /\ live' \subseteq Server \X Attempt
    BY <1>6, <1>a DEF Refreshed, TypeOK
  <2>4. ousted' \subseteq Server \X Attempt
    <3>1. clients[s] # 0 => clients[s] \in Attempt
      BY DEF TypeOK, Attempt
    <3> QED BY <1>6, <3>1 DEF Refreshed, TypeOK
  <2>3. clients' \in [Server -> 0..MaxAttempts] /\ tools' \in [Server -> SUBSET Tool]
    <3>1. /\ clients \in [Server -> 0..MaxAttempts]
          /\ tools \in [Server -> SUBSET Tool]
          /\ 0 \in 0..MaxAttempts
      BY ManagerAssumption DEF TypeOK, ManagerAssumption
    <3>2. clients' = clients \/ clients' = [clients EXCEPT ![s] = 0]
      BY <1>6 DEF Refreshed
    <3>3. \/ tools' = tools
          \/ tools' = [tools EXCEPT ![s] = {}]
          \/ tools' = [tools EXCEPT ![s] = L]
      BY <1>6 DEF Refreshed
    <3> QED BY <3>1, <3>2, <3>3
  <2> QED BY <1>6, <2>1, <2>2, <2>3, <2>4 DEF Refreshed, TypeOK
<1> QED BY <1>1, <1>2, <1>3, <1>4, <1>5, <1>6, <1>7 DEF RefreshStep, DisconnectStep

LEMMA SignalType ==
  ASSUME TypeOK,
         \/ \E g \in Signal : Abort(g)
         \/ \E c \in Sweep : SweepAborted(c)
  PROVE  TypeOK'
<1> USE DEF control, store, flights
<1>1. ASSUME NEW g \in Signal, Abort(g) PROVE TypeOK'
  <2> DEFINE hit == {p \in Server \X Attempt : att[p[1]][p[2]].sig = g
                                       /\ att[p[1]][p[2]].pc \in {"connecting", "listing"}}
             given(s, n, why) == [att[s][n] EXCEPT !.pc = "dropping",
                                   !.verdict = IF att[s][n].pc = "listing" THEN why ELSE "aborted"]
  <2>1. PICK why \in {"aborted", "error"} :
           att' = [s \in Server |-> [n \in Attempt |->
                     IF <<s, n>> \notin hit THEN att[s][n] ELSE given(s, n, why)]]
    BY <1>1 DEF Abort
  <2>2. \A s \in Server, n \in Attempt : given(s, n, why) \in AttemptRecord
    <3> SUFFICES ASSUME NEW s \in Server, NEW n \in Attempt
                 PROVE  given(s, n, why) \in AttemptRecord
      OBVIOUS
    <3>1. att[s][n] \in AttemptRecord
      BY AttemptType
    <3>2. (IF att[s][n].pc = "listing" THEN why ELSE "aborted") \in Verdict /\ "dropping" \in Awaiting
      BY DEF Verdict, Awaiting
    <3> QED BY <3>1, <3>2 DEF AttemptRecord
  <2>3. att' \in [Server -> [Attempt -> AttemptRecord]]
    <3> HIDE DEF hit, given
    <3> QED BY <2>1, <2>2, AttemptType
  <2>4. live' \subseteq Server \X Attempt /\ aborted' \subseteq Signal
    BY <1>1 DEF Abort, TypeOK
  <2> QED BY <1>1, <2>3, <2>4 DEF Abort, TypeOK
<1>2. ASSUME NEW c \in Sweep, SweepAborted(c) PROVE TypeOK'
  <2>1. sweep' \in [Sweep -> SweepRecord]
    BY <1>2, IdleType DEF SweepAborted, TypeOK
  <2>2. statuses' \in [Server -> Status]
    BY <1>2 DEF SweepAborted, TypeOK, Status
  <2> QED BY <1>2, <2>1, <2>2 DEF SweepAborted, TypeOK
<1> QED BY <1>1, <1>2

LEMMA ControlType ==
  ASSUME TypeOK, ControlStep
  PROVE  TypeOK'
<1> USE DEF control, store, flights
<1>a. ctl \in [{"initialize", "close"} -> Phase] /\ {"idle", "callbacks", "subscriptions", "clients"} \subseteq Phase
  BY DEF TypeOK, Phase
<1>b. revision < MaxRevision => revision + 1 \in 0..MaxRevision
  BY ManagerAssumption DEF TypeOK, ManagerAssumption
<1>1. ASSUME NEW cfg \in Configs, InitializeBegin(cfg) PROVE TypeOK'
  BY <1>1, <1>a, <1>b DEF InitializeBegin, TypeOK
<1>2. CASE CloseBegin
  BY <1>2, <1>a, <1>b DEF CloseBegin, TypeOK
<1>3. ASSUME NEW op \in {"initialize", "close"}, ClearClients(op) PROVE TypeOK'
  <2>1. ctl' \in [{"initialize", "close"} -> Phase]
    BY <1>3, <1>a DEF ClearClients
  <2>2. Detach(Server) /\ (CloseNow(Server) \/ \E h \in Handler : CloseLater(Server, h))
    BY <1>3 DEF ClearClients, Handler
  <2> QED BY <1>3, <2>1, <2>2, DetachType, CloseType DEF ClearClients, TypeOK
<1>6. ASSUME NEW op \in {"initialize", "close"}, SubscriptionsClosed(op) PROVE TypeOK'
  <2>1. ctl' \in [{"initialize", "close"} -> Phase]
    BY <1>6, <1>a DEF SubscriptionsClosed
  <2>2. parting' \in [Handler -> SUBSET (Server \X Attempt)] /\ live' \subseteq Server \X Attempt
    BY <1>6 DEF SubscriptionsClosed, TypeOK
  <2> QED BY <1>6, <2>1, <2>2 DEF SubscriptionsClosed, TypeOK
<1>4. CASE InitializeEnd
  <2> DEFINE base == [s \in Server |-> CASE newConfig[s] = "on" -> "disconnected"
                                         [] newConfig[s] = "off" -> "disabled"
                                         [] OTHER -> "none"]
  <2>1. base \in [Server -> Status]
    BY DEF Status
  <2>2. InterruptAttempts(base)
    BY <1>4 DEF InitializeEnd
  <2>3. config' \in Configs /\ ctl' \in [{"initialize", "close"} -> Phase]
    BY <1>4, <1>a DEF InitializeEnd, TypeOK
  <2> HIDE DEF base
  <2> QED BY <1>4, <2>1, <2>2, <2>3, InterruptType DEF InitializeEnd, TypeOK
<1>5. CASE CloseEnd
  <2>1. statuses \in [Server -> Status] /\ ctl' \in [{"initialize", "close"} -> Phase]
    BY <1>5, <1>a DEF CloseEnd, TypeOK
  <2> QED BY <1>5, <2>1, InterruptType DEF CloseEnd, TypeOK
<1> QED BY <1>1, <1>2, <1>3, <1>4, <1>5, <1>6 DEF ControlStep

\* Every step keeps the state typed.
LEMMA NextType == TypeOK /\ [Next]_vars => TypeOK'
<1> SUFFICES ASSUME TypeOK, [Next]_vars PROVE TypeOK'
  OBVIOUS
<1>1. CASE Next
  BY <1>1, CallType, HandlerType, AttemptStepType, SignalType, ControlType DEF Next
<1>2. CASE UNCHANGED vars
  BY <1>2 DEF vars, control, store, flights, TypeOK
<1> QED BY <1>1, <1>2

\* TypeOK is an invariant of the manager, whatever its servers, tools and callers.
THEOREM TypeCorrect == Spec => []TypeOK
  BY InitType, NextType, PTL DEF Spec

-----------------------------------------------------------------------------
(***************************************************************************)
(* What each group of steps does to the state the invariants relate.       *)
(***************************************************************************)

\* A status no step may write for a server in manuallyDisconnected.
OnlyShows(s) == statuses'[s] # "connected" \/ statuses[s] = "connected"

\* End touches one attempt, and takes no status for connected.
LEMMA EndMoves ==
  ASSUME TypeOK, NEW s \in Server, NEW n \in Attempt, NEW pc \in Ended,
         NEW out \in Outcome, NEW base \in [Server -> Status], End(s, n, pc, out, base)
  PROVE  /\ \A r \in Server, m \in Attempt : <<r, m>> # <<s, n>> => att'[r][m] = att[r][m]
         /\ att'[s][n].rev = att[s][n].rev
         /\ att'[s][n].pc = pc
         /\ inflight' = [inflight EXCEPT ![s] = IF inflight[s] = n THEN 0 ELSE inflight[s]]
         /\ \A r \in Server : statuses'[r] \in {base[r], "failed"}
<1>1. att[s][n] \in AttemptRecord
  BY AttemptType
<1> DEFINE last == [att[s][n] EXCEPT !.pc = pc, !.sig = NoSignal, !.way = 1, !.verdict = "none"]
<1>2. last.rev = att[s][n].rev /\ last.pc = pc
  BY <1>1 DEF AttemptRecord
<1>3. att' = [att EXCEPT ![s] = [att[s] EXCEPT ![n] = last]]
  BY AttemptType DEF End
<1>4. inflight' = [inflight EXCEPT ![s] = IF inflight[s] = n THEN 0 ELSE inflight[s]]
  BY DEF End
<1>5. /\ \A r \in Server, m \in Attempt : <<r, m>> # <<s, n>> => att'[r][m] = att[r][m]
      /\ att'[s][n] = last
  <2> HIDE DEF last
  <2> QED BY <1>3, AttemptType
<1> HIDE DEF last
<1> QED BY <1>2, <1>4, <1>5, EndType

\* Goto touches one attempt.
LEMMA GotoMoves ==
  ASSUME TypeOK, NEW s \in Server, NEW n \in Attempt, NEW pc, NEW verdict, Goto(s, n, pc, verdict)
  PROVE  /\ \A r \in Server, m \in Attempt : <<r, m>> # <<s, n>> => att'[r][m] = att[r][m]
         /\ att'[s][n].rev = att[s][n].rev
         /\ att'[s][n].way = att[s][n].way
         /\ att'[s][n].pc = pc
         /\ inflight' = inflight
<1>1. att[s][n] \in AttemptRecord
  BY AttemptType
<1> DEFINE next == [att[s][n] EXCEPT !.pc = pc, !.verdict = verdict]
<1>2. next.rev = att[s][n].rev /\ next.way = att[s][n].way /\ next.pc = pc
  BY <1>1 DEF AttemptRecord
<1>3. att' = [att EXCEPT ![s] = [att[s] EXCEPT ![n] = next]]
  BY AttemptType DEF Goto
<1>4. /\ \A r \in Server, m \in Attempt : <<r, m>> # <<s, n>> => att'[r][m] = att[r][m]
      /\ att'[s][n] = next
  <2> HIDE DEF next
  <2> QED BY <1>3, AttemptType
<1> HIDE DEF next
<1> QED BY <1>2, <1>4 DEF Goto

\* An attempt whose subscriptions are closed goes on to the close of the old client.
LEMMA UnsubscribedMoves ==
  ASSUME TypeOK, NEW s \in Server, NEW n \in Attempt,
         att' = [att EXCEPT ![s][n] = [@ EXCEPT !.pc = "closeOld", !.old = 0]]
  PROVE  /\ \A r \in Server, m \in Attempt : <<r, m>> # <<s, n>> => att'[r][m] = att[r][m]
         /\ att'[s][n].rev = att[s][n].rev
         /\ att'[s][n].way = att[s][n].way
         /\ att'[s][n].pc = "closeOld"
<1>1. att[s][n] \in AttemptRecord
  BY AttemptType
<1> DEFINE next == [att[s][n] EXCEPT !.pc = "closeOld", !.old = 0]
<1>2. next.rev = att[s][n].rev /\ next.way = att[s][n].way /\ next.pc = "closeOld"
  BY <1>1 DEF AttemptRecord
<1>3. att' = [att EXCEPT ![s] = [att[s] EXCEPT ![n] = next]]
  BY AttemptType
<1>4. /\ \A r \in Server, m \in Attempt : <<r, m>> # <<s, n>> => att'[r][m] = att[r][m]
      /\ att'[s][n] = next
  <2> HIDE DEF next
  <2>1. att \in [Server -> [Attempt -> AttemptRecord]]
    BY AttemptType
  <2>2. att'[s] = [att[s] EXCEPT ![n] = next] /\ \A r \in Server : r # s => att'[r] = att[r]
    BY <1>3, <2>1
  <2> QED BY <2>1, <2>2
<1> HIDE DEF next
<1> QED BY <1>2, <1>4

\* A step of an attempt changes no other attempt, unregisters itself exactly when
\* it ends, and stores its client only if it is current and not disconnected.
LEMMA AttemptStepMoves ==
  ASSUME TypeOK, NEW s \in Server, NEW n \in Attempt, AttemptStep(s, n)
  PROVE  /\ UNCHANGED <<control, manual>>
         /\ att[s][n].pc \in Awaiting
         /\ \A r \in Server, m \in Attempt : <<r, m>> # <<s, n>> => att'[r][m] = att[r][m]
         /\ att'[s][n].rev = att[s][n].rev
         /\ att'[s][n].pc \in Unstored => att[s][n].pc \in Unstored
         /\ \/ att'[s][n].pc \in Awaiting /\ inflight' = inflight
            \/ /\ att'[s][n].pc \in Ended
               /\ inflight' = [inflight EXCEPT ![s] = IF inflight[s] = n THEN 0 ELSE inflight[s]]
         /\ \/ clients' = clients
            \/ /\ clients' = [clients EXCEPT ![s] = n]
               /\ att[s][n].pc = "listing" /\ att'[s][n].pc = "notifying"
               /\ ~Stale(s, n) /\ s \notin manual
         /\ \A r \in Server : OnlyShows(r) \/ (r = s /\ s \notin manual)
<1> DEFINE Kept == UNCHANGED <<control, manual>>
           Others == /\ \A r \in Server, m \in Attempt : <<r, m>> # <<s, n>> => att'[r][m] = att[r][m]
                     /\ att'[s][n].rev = att[s][n].rev
           Quiet == \A r \in Server : OnlyShows(r)
           Ends == /\ att'[s][n].pc \in {"ended", "died"}
                   /\ inflight' = [inflight EXCEPT ![s] = IF inflight[s] = n THEN 0 ELSE inflight[s]]
           Goes(pc) == att'[s][n].pc = pc /\ inflight' = inflight
<1> USE DEF control, store, flights
<1>a. statuses \in [Server -> Status] /\ {"ended", "died"} \subseteq Ended
      /\ {"ok", "error", "aborted", "broken"} \subseteq Outcome
  BY DEF TypeOK, Ended, Outcome
<1>b. ASSUME NEW pc \in {"ended", "died"}, NEW out \in Outcome,
             NEW base \in {statuses, [statuses EXCEPT ![s] = "disabled"]}, End(s, n, pc, out, base)
      PROVE  Others /\ Ends /\ Quiet
  <2>1. base \in [Server -> Status] /\ pc \in Ended
    BY <1>a DEF Status
  <2>2. /\ Others /\ Ends
        /\ \A r \in Server : statuses'[r] \in {base[r], "failed"}
    BY <1>b, <2>1, EndMoves
  <2> QED BY <2>2, <1>a DEF OnlyShows
<1>c. ASSUME NEW pc, NEW verdict, Goto(s, n, pc, verdict)
      PROVE  Others /\ Goes(pc)
  BY <1>c, GotoMoves
<1>d. ASSUME NEW verdict, Drop(s, n, verdict)
      PROVE  Others /\ Goes("dropping") /\ clients' = clients /\ Quiet
  BY <1>c, <1>d DEF Drop, OnlyShows
<1>e. {"unsubscribing", "closeOld", "connecting", "failing", "listing", "dropping", "notifying"} = Awaiting
  BY DEF Awaiting
<1>f. ASSUME Opens(s, n) PROVE Others /\ Quiet /\ (Ends \/ Goes("connecting"))
  BY <1>a, <1>b, <1>c, <1>f DEF Opens, OnlyShows
<1>0. CASE Unsubscribed(s, n)
  <2>1. Kept /\ att[s][n].pc = "unsubscribing" /\ clients' = clients
    BY <1>0 DEF Unsubscribed
  <2>2. CASE Opens(s, n)
    BY <2>1, <2>2, <1>a, <1>e, <1>f DEF Unstored
  <2>3. CASE /\ att' = [att EXCEPT ![s][n] = [@ EXCEPT !.pc = "closeOld", !.old = 0]]
             /\ UNCHANGED <<inflight, sweep, statuses>>
    <3>1. Others /\ Goes("closeOld")
      BY <2>3, UnsubscribedMoves
    <3>2. Quiet
      BY <2>3 DEF OnlyShows
    <3> QED BY <2>1, <3>1, <3>2, <1>e DEF Unstored
  <2> QED BY <1>0, <2>2, <2>3 DEF Unsubscribed
<1>1. CASE OldClosed(s, n)
  <2>1. Kept /\ att[s][n].pc = "closeOld" /\ clients' = clients
    BY <1>1 DEF OldClosed
  <2>2. Opens(s, n)
    BY <1>1 DEF OldClosed
  <2> QED BY <2>1, <2>2, <1>a, <1>e, <1>f DEF Unstored
<1>2. CASE Connected(s, n)
  <2>1. Kept /\ att[s][n].pc = "connecting" /\ clients' = clients
    BY <1>2 DEF Connected, Drop
  <2>2. Others /\ (Goes("dropping") \/ Goes("listing"))
    BY <1>2, <1>c, <1>d DEF Connected
  <2>3. \A r \in Server : OnlyShows(r) \/ (r = s /\ s \notin manual)
    BY <1>2, <1>a, <1>d DEF Connected, OnlyShows
  <2> QED BY <2>1, <2>2, <2>3, <1>e DEF Unstored
<1>3. CASE \E verdict \in Failure : ConnectFails(s, n, verdict)
  <2>1. Kept /\ att[s][n].pc = "connecting" /\ clients' = clients /\ Quiet
    BY <1>3 DEF ConnectFails, OnlyShows
  <2>2. Others /\ Goes("failing")
    BY <1>3, <1>c DEF ConnectFails
  <2> QED BY <2>1, <2>2, <1>e DEF Unstored
<1>4. CASE TransportClosed(s, n)
  <2>1. Kept /\ att[s][n].pc = "failing" /\ clients' = clients
    BY <1>4 DEF TransportClosed
  <2>2. CASE \/ End(s, n, "died", "broken", statuses) \/ End(s, n, "ended", "ok", statuses)
             \/ End(s, n, "ended", "ok", [statuses EXCEPT ![s] = "disabled"])
    <3>1. Others /\ Ends /\ Quiet
      BY <2>2, <1>a, <1>b
    <3> QED BY <2>1, <3>1, <1>a, <1>e DEF Unstored
  <2>3. CASE /\ att' = [att EXCEPT ![s][n] = [@ EXCEPT !.pc = "connecting", !.way = 2,
                                                      !.verdict = "none"]]
             /\ UNCHANGED <<inflight, sweep, statuses>>
    <3> DEFINE retry == [att[s][n] EXCEPT !.pc = "connecting", !.way = 2, !.verdict = "none"]
    <3>1. att[s][n] \in AttemptRecord
      BY AttemptType
    <3>2. retry.rev = att[s][n].rev /\ retry.pc = "connecting"
      BY <3>1 DEF AttemptRecord
    <3>3. att' = [att EXCEPT ![s] = [att[s] EXCEPT ![n] = retry]]
      BY <2>3, AttemptType
    <3>4. Others /\ Goes("connecting")
      <4>1. att'[s][n] = retry /\ \A r \in Server, m \in Attempt :
               <<r, m>> # <<s, n>> => att'[r][m] = att[r][m]
        <5> HIDE DEF retry
        <5> QED BY <3>3, AttemptType
      <4> HIDE DEF retry
      <4> QED BY <4>1, <3>2, <2>3
    <3>5. Quiet
      BY <2>3 DEF OnlyShows
    <3> QED BY <2>1, <3>4, <3>5, <1>e DEF Unstored
  <2>4. CASE /\ s \notin manual
             /\ statuses' = [statuses EXCEPT ![s] = att[s][n].verdict]
             /\ Goto(s, n, "notifying", "none")
    <3>1. Others /\ Goes("notifying")
      BY <2>4, <1>c
    <3>2. \A r \in Server : OnlyShows(r) \/ (r = s /\ s \notin manual)
      BY <2>4, <1>a DEF OnlyShows
    <3> QED BY <2>1, <3>1, <3>2, <1>e DEF Unstored
  <2> QED BY <1>4, <2>2, <2>3, <2>4 DEF TransportClosed
<1>5. CASE \E L \in SUBSET Tool : Listed(s, n, L)
  <2>1. PICK L \in SUBSET Tool : Listed(s, n, L)
    BY <1>5
  <2>2. Kept /\ att[s][n].pc = "listing"
    BY <2>1 DEF Listed
  <2>3. CASE \E verdict : Drop(s, n, verdict)
    <3>1. Others /\ Goes("dropping") /\ clients' = clients /\ Quiet
      BY <2>3, <1>d
    <3> QED BY <2>2, <3>1, <1>e DEF Unstored
  <2>4. CASE /\ ~Stale(s, n) /\ s \notin manual
             /\ clients' = [clients EXCEPT ![s] = n]
             /\ Goto(s, n, "notifying", "none")
             /\ UNCHANGED <<statuses, live, parting, ousted>>
    <3>1. Others /\ Goes("notifying") /\ Quiet
      BY <2>4, <1>c DEF OnlyShows
    <3> QED BY <2>2, <2>4, <3>1, <1>e DEF Unstored
  <2> QED BY <2>1, <2>3, <2>4 DEF Listed
<1>6. CASE ListFails(s, n)
  <2>1. Kept /\ att[s][n].pc = "listing" /\ Drop(s, n, "error")
    BY <1>6 DEF ListFails
  <2>2. Others /\ Goes("dropping") /\ clients' = clients /\ Quiet
    BY <2>1, <1>d
  <2> QED BY <2>1, <2>2, <1>e DEF Unstored
<1>7. CASE ListDies(s, n)
  <2>1. Kept /\ att[s][n].pc = "listing" /\ clients' = clients
    BY <1>7 DEF ListDies
  <2>2. Others /\ Ends /\ Quiet
    BY <1>7, <1>a, <1>b DEF ListDies
  <2> QED BY <2>1, <2>2, <1>a, <1>e DEF Unstored
<1>8. CASE Dropped(s, n)
  <2>1. Kept /\ att[s][n].pc = "dropping" /\ clients' = clients
    BY <1>8 DEF Dropped
  <2>2. CASE \/ \E out \in Outcome : End(s, n, "ended", out, statuses)
             \/ End(s, n, "ended", "ok", [statuses EXCEPT ![s] = "disabled"])
    <3>1. Others /\ Ends /\ Quiet
      BY <2>2, <1>a, <1>b
    <3> QED BY <2>1, <3>1, <1>a, <1>e DEF Unstored
  <2>3. CASE /\ statuses' = [statuses EXCEPT ![s] = "failed"]
             /\ Goto(s, n, "notifying", "none")
    <3>1. Others /\ Goes("notifying")
      BY <2>3, <1>c
    <3>2. Quiet
      BY <2>3, <1>a DEF OnlyShows
    <3> QED BY <2>1, <3>1, <3>2, <1>e DEF Unstored
  <2> QED BY <1>8, <2>2, <2>3, <1>a DEF Dropped
<1>9. CASE Notified(s, n)
  <2>1. Kept /\ att[s][n].pc = "notifying" /\ clients' = clients
    BY <1>9 DEF Notified
  <2>2. Others /\ Ends /\ Quiet
    BY <1>9, <1>a, <1>b DEF Notified
  <2> QED BY <2>1, <2>2, <1>a, <1>e DEF Unstored
<1> QED BY <1>0, <1>1, <1>2, <1>3, <1>4, <1>5, <1>6, <1>7, <1>8, <1>9 DEF AttemptStep

\* Tool lists that shrink, or a list that was checked, bring no collision.
LEMMA ShrinkKeepsKeys ==
  ASSUME \A s \in Server : tools'[s] \subseteq tools[s], ~Collides(tools)
  PROVE  ~Collides(tools')
  BY DEF Collides, Offers

\* A new attempt is forked only where none is registered, for the current
\* revision, and its server's client is taken out.
LEMMA LaunchMoves ==
  ASSUME TypeOK, NEW T \in SUBSET Server, NEW sig, Launch(T, sig)
  PROVE  \E F \in SUBSET Server :
           /\ \A s \in F : /\ inflight[s] = 0
                           /\ clients'[s] = 0
                           /\ att'[s][inflight'[s]].pc \in Awaiting
                           /\ \A n \in Attempt : n # inflight'[s] => att'[s][n] = att[s][n]
           /\ \A s \in Server \ F : /\ inflight'[s] = inflight[s]
                                    /\ clients'[s] = clients[s]
                                    /\ \A n \in Attempt : att'[s][n] = att[s][n]
           /\ \A s \in Server : tools'[s] \subseteq tools[s] /\ OnlyShows(s)
           /\ UNCHANGED control
<1> DEFINE F == {s \in T : inflight[s] = 0}
<1>0. PICK W \in SUBSET (F \cap Modern) : Fork(F, W, sig)
  BY DEF Launch
<1>3. F \in SUBSET Server /\ \A s \in F : inflight[s] = 0
  OBVIOUS
<1> HIDE DEF F
<1> DEFINE first(s) == First(s, s \in W, sig)
<1>1. /\ \A s \in F : started[s] < MaxStarted[s]
      /\ started' = [s \in Server |-> IF s \in F THEN started[s] + 1 ELSE started[s]]
      /\ inflight' = [s \in Server |-> IF s \in F THEN started'[s] ELSE inflight[s]]
      /\ att' = [s \in Server |-> [n \in Attempt |->
                   IF s \in F /\ n = started'[s] THEN first(s) ELSE att[s][n]]]
      /\ Detach(F)
      /\ statuses' = [s \in Server |-> IF s \in F THEN "connecting" ELSE statuses[s]]
      /\ UNCHANGED control
  BY <1>0 DEF Fork
<1>2. \A s \in Server : first(s).pc \in Awaiting
  BY DEF First, Unused, Awaiting
<1> HIDE DEF first
<1>4. \A s \in F : started'[s] \in Attempt
  BY <1>1, <1>3, ManagerAssumption DEF TypeOK, Attempt, ManagerAssumption
<1>5. \A s \in F : /\ clients'[s] = 0
                   /\ att'[s][inflight'[s]].pc \in Awaiting
                   /\ \A n \in Attempt : n # inflight'[s] => att'[s][n] = att[s][n]
  <2>1. \A s \in F : clients'[s] = 0
    BY <1>1, <1>3 DEF Detach
  <2>2. \A s \in F : inflight'[s] = started'[s]
    BY <1>1, <1>3
  <2>3. \A s \in F, n \in Attempt :
           att'[s][n] = IF n = started'[s] THEN first(s) ELSE att[s][n]
    BY <1>1, <1>3
  <2> QED BY <2>1, <2>2, <2>3, <1>2, <1>3, <1>4
<1>6. \A s \in Server \ F : /\ inflight'[s] = inflight[s]
                            /\ clients'[s] = clients[s]
                            /\ \A n \in Attempt : att'[s][n] = att[s][n]
  BY <1>1 DEF Detach
<1>7. \A s \in Server : tools'[s] \subseteq tools[s] /\ OnlyShows(s)
  BY <1>1 DEF Detach, OnlyShows
<1> QED BY <1>1, <1>3, <1>5, <1>6, <1>7

LEMMA CallMoves ==
  ASSUME TypeOK, CallStep
  PROVE  \E T \in SUBSET Server, sig \in Signal \cup {NoSignal} :
            Launch(T, sig) /\ manual' \subseteq manual
<1>1. PICK intent \in Intent, sig \in Signal \cup {NoSignal} :
         \/ \E s \in Server : Connect(s, intent, sig)
         \/ \E c \in Sweep : ConnectAll(c, intent, sig)
  BY DEF CallStep
<1>2. ASSUME NEW s \in Server, Connect(s, intent, sig)
      PROVE  \E T \in SUBSET Server : Launch(T, sig) /\ manual' \subseteq manual
  <2>1. Proceeding({s}, sig) \in SUBSET Server
    BY DEF Proceeding
  <2> QED BY <1>2, <2>1 DEF Connect, ClearsManual
<1>3. ASSUME NEW c \in Sweep, ConnectAll(c, intent, sig)
      PROVE  \E T \in SUBSET Server : Launch(T, sig) /\ manual' \subseteq manual
  <2> DEFINE T == {s \in Configured : CanConnect(s, intent)}
  <2>1. Proceeding(T, sig) \in SUBSET Server
    BY DEF Proceeding, Configured
  <2>2. Launch(Proceeding(T, sig), sig) /\ manual' \subseteq manual
    BY <1>3 DEF ConnectAll, ClearsManual
  <2> QED BY <2>1, <2>2
<1> QED BY <1>1, <1>2, <1>3

\* Disconnects, lost connections and tool refreshes touch no attempt, take
\* clients out and leave the tools without collision.
LEMMA HandlerMoves ==
  ASSUME TypeOK, NEW s \in Server,
         ConnectDisabled(s) \/ DisconnectStep(s) \/ ConnectionLost(s) \/ RefreshStep(s)
  PROVE  /\ UNCHANGED <<control, att, inflight>>
         /\ \A r \in Server : clients'[r] \in {0, clients[r]} /\ OnlyShows(r)
         /\ \A r \in manual' : r \in manual \/ (clients'[r] = 0 /\ statuses'[r] # "connected")
         /\ ~Collides(tools) => ~Collides(tools')
<1> USE DEF flights, store
<1>a. clients \in [Server -> 0..MaxAttempts] /\ statuses \in [Server -> Status] /\ manual \subseteq Server
  BY DEF TypeOK
<1>1. CASE ConnectDisabled(s)
  BY <1>1, <1>a DEF ConnectDisabled, OnlyShows
<1>0. CASE \E n \in Attempt : Disconnected(s, n)
  BY <1>0, <1>a DEF Disconnected, OnlyShows
<1>2. CASE Disconnect(s) \/ ConnectionLost(s)
  <2>1. Detach({s}) /\ UNCHANGED <<control, att, inflight>>
    BY <1>2 DEF Disconnect, ConnectionLost
  <2>2. /\ \A r \in Server : clients'[r] = IF r = s THEN 0 ELSE clients[r]
        /\ \A r \in Server : tools'[r] \subseteq tools[r]
    BY <2>1 DEF Detach
  <2>3. \A r \in Server : OnlyShows(r)
    BY <1>2, <1>a DEF Disconnect, ConnectionLost, OnlyShows
  <2>4. \A r \in manual' : r \in manual \/ (clients'[r] = 0 /\ statuses'[r] # "connected")
    BY <1>2, <1>a, <2>2 DEF Disconnect, ConnectionLost
  <2> QED BY <2>1, <2>2, <2>3, <2>4, ShrinkKeepsKeys
<1>3. CASE ToolListChanged(s) \/ \E n \in Attempt : RefreshFails(s, n)
  BY <1>3, <1>a DEF ToolListChanged, RefreshFails, OnlyShows
<1>4. ASSUME NEW n \in Attempt, NEW L \in SUBSET Tool, Refreshed(s, n, L)
      PROVE  /\ UNCHANGED <<control, att, inflight>>
             /\ \A r \in Server : clients'[r] \in {0, clients[r]} /\ OnlyShows(r)
             /\ \A r \in manual' : r \in manual \/ (clients'[r] = 0 /\ statuses'[r] # "connected")
             /\ ~Collides(tools) => ~Collides(tools')
  <2> DEFINE lists == [tools EXCEPT ![s] = L]
  <2>1. UNCHANGED <<control, att, inflight, manual>>
    BY <1>4 DEF Refreshed
  <2>2. \A r \in Server : clients'[r] \in {0, clients[r]} /\ OnlyShows(r)
    BY <1>4, <1>a DEF Refreshed, OnlyShows
  <2>3. CASE Collides(lists)
    <3>1. tools' = [tools EXCEPT ![s] = {}]
      BY <1>4, <2>3 DEF Refreshed
    <3>2. \A r \in Server : tools'[r] \subseteq tools[r]
      BY <3>1 DEF TypeOK
    <3> QED BY <2>1, <2>2, <3>2, ShrinkKeepsKeys
  <2>4. CASE ~Collides(lists)
    <3>1. tools' \in {tools, lists}
      BY <1>4, <2>4 DEF Refreshed
    <3> HIDE DEF lists
    <3> QED BY <2>1, <2>2, <2>4, <3>1
  <2> QED BY <2>3, <2>4
<1> QED BY <1>0, <1>1, <1>2, <1>3, <1>4 DEF RefreshStep, DisconnectStep

\* A signal changes no attempt but those it makes give up, whose clients it closes.
LEMMA AbortMoves ==
  ASSUME TypeOK, NEW g \in Signal, Abort(g)
  PROVE  /\ UNCHANGED <<control, manual, clients, tools, inflight, started, statuses, sweep, parting, ousted>>
         /\ live' \subseteq live
         /\ \A r \in Server, m \in Attempt :
               \/ att'[r][m] = att[r][m]
               \/ /\ att'[r][m].pc = "dropping" /\ att'[r][m].rev = att[r][m].rev
                  /\ att[r][m].pc \in {"connecting", "listing"}
                  /\ <<r, m>> \notin live'
<1> DEFINE hit == {p \in Server \X Attempt : att[p[1]][p[2]].sig = g
                                     /\ att[p[1]][p[2]].pc \in {"connecting", "listing"}}
           given(s, n, why) == [att[s][n] EXCEPT !.pc = "dropping",
                                 !.verdict = IF att[s][n].pc = "listing" THEN why ELSE "aborted"]
<1>1. PICK why \in {"aborted", "error"} :
         att' = [s \in Server |-> [n \in Attempt |->
                   IF <<s, n>> \notin hit THEN att[s][n] ELSE given(s, n, why)]]
  BY DEF Abort
<1>2. ASSUME NEW r \in Server, NEW m \in Attempt
      PROVE  /\ given(r, m, why).pc = "dropping" /\ given(r, m, why).rev = att[r][m].rev
             /\ <<r, m>> \in hit => att[r][m].pc \in {"connecting", "listing"}
  <2>1. att[r][m] \in AttemptRecord
    BY AttemptType
  <2> QED BY <2>1 DEF AttemptRecord
<1>3. ASSUME NEW r \in Server, NEW m \in Attempt
      PROVE  att'[r][m] = IF <<r, m>> \notin hit THEN att[r][m] ELSE given(r, m, why)
  <2> HIDE DEF hit, given
  <2> QED BY <1>1
<1>4. live' = live \ hit
  BY DEF Abort
<1>5. UNCHANGED <<control, manual, clients, tools, inflight, started, statuses, sweep, parting, ousted>>
  BY DEF Abort, flights
<1> HIDE DEF hit, given
<1>6. ASSUME NEW r \in Server, NEW m \in Attempt
      PROVE  \/ att'[r][m] = att[r][m]
             \/ /\ att'[r][m].pc = "dropping" /\ att'[r][m].rev = att[r][m].rev
                /\ att[r][m].pc \in {"connecting", "listing"}
                /\ <<r, m>> \notin live'
  <2>1. CASE <<r, m>> \in hit
    BY <1>2, <1>3, <1>4, <2>1
  <2>2. CASE <<r, m>> \notin hit
    BY <1>3, <2>2
  <2> QED BY <2>1, <2>2
<1> QED BY <1>4, <1>5, <1>6

\* A signal makes attempts give up, which stay registered; the sweeps it ends
\* report failures.
LEMMA SignalMoves ==
  ASSUME TypeOK,
         \/ \E g \in Signal : Abort(g)
         \/ \E c \in Sweep : SweepAborted(c)
  PROVE  /\ UNCHANGED <<control, manual, clients, tools, inflight>>
         /\ \A r \in Server, m \in Attempt :
               /\ att'[r][m].pc \in Awaiting <=> att[r][m].pc \in Awaiting
               /\ att'[r][m].pc \in Unstored => att[r][m].pc \in Unstored
               /\ att'[r][m].rev = att[r][m].rev
         /\ \A r \in Server : OnlyShows(r)
<1>1. ASSUME NEW g \in Signal, Abort(g)
      PROVE  /\ UNCHANGED <<control, manual, clients, tools, inflight, statuses>>
             /\ \A r \in Server, m \in Attempt :
                   /\ att'[r][m].pc \in Awaiting <=> att[r][m].pc \in Awaiting
                   /\ att'[r][m].pc \in Unstored => att[r][m].pc \in Unstored
                   /\ att'[r][m].rev = att[r][m].rev
  <2>1. /\ UNCHANGED <<control, manual, clients, tools, inflight, statuses>>
        /\ \A r \in Server, m \in Attempt :
              \/ att'[r][m] = att[r][m]
              \/ /\ att'[r][m].pc = "dropping" /\ att'[r][m].rev = att[r][m].rev
                 /\ att[r][m].pc \in {"connecting", "listing"}
    BY <1>1, AbortMoves
  <2> QED BY <2>1 DEF Awaiting, Unstored
<1>2. ASSUME NEW c \in Sweep, SweepAborted(c)
      PROVE  /\ UNCHANGED <<control, manual, clients, tools, inflight, att>>
             /\ \A r \in Server : OnlyShows(r)
  BY <1>2 DEF SweepAborted, OnlyShows, flights, store
<1> QED BY <1>1, <1>2 DEF OnlyShows

\* An interrupt ends the registered attempts, and changes no other.
LEMMA InterruptEnds ==
  ASSUME TypeOK, NEW base, InterruptAttempts(base), NEW s \in Server, NEW n \in Attempt
  PROVE  /\ inflight[s] # n => att'[s][n] = att[s][n]
         /\ inflight[s] = n => /\ att'[s][n].pc = "interrupted" /\ att'[s][n].rev = att[s][n].rev
                               /\ att'[s][n].old = att[s][n].old
<1> DEFINE hit == {<<r, inflight[r]>> : r \in {r \in Server : inflight[r] # 0}}
           given(r, m) == [Unused EXCEPT !.pc = "interrupted", !.rev = att[r][m].rev,
                                         !.old = att[r][m].old]
<1>1. att' = [r \in Server |-> [m \in Attempt |->
                IF <<r, m>> \in hit THEN given(r, m) ELSE att[r][m]]]
  BY DEF InterruptAttempts
<1>2. /\ given(s, n).pc = "interrupted" /\ given(s, n).rev = att[s][n].rev
      /\ given(s, n).old = att[s][n].old
  BY DEF Unused
<1>3. <<s, n>> \in hit <=> inflight[s] = n
  BY DEF Attempt
<1> HIDE DEF hit, given
<1> QED BY <1>1, <1>2, <1>3

\* Once the attempts are interrupted none runs, and none is registered.
LEMMA InterruptMoves ==
  ASSUME TypeOK, OneRegisteredAttempt, NEW base \in [Server -> Status], InterruptAttempts(base)
  PROVE  /\ \A s \in Server, n \in Attempt :
               inflight'[s] = 0 /\ att'[s][n].pc \notin Awaiting /\ att'[s][n].rev = att[s][n].rev
         /\ \A s \in Server : statuses'[s] \in {base[s], "failed"}
<1> DEFINE hit == {<<s, inflight[s]>> : s \in {r \in Server : inflight[r] # 0}}
           given(s, n) == [Unused EXCEPT !.pc = "interrupted", !.rev = att[s][n].rev,
                                         !.old = att[s][n].old]
<1>1. /\ inflight' = [s \in Server |-> 0]
      /\ att' = [s \in Server |-> [n \in Attempt |->
                   IF <<s, n>> \in hit THEN given(s, n) ELSE att[s][n]]]
  BY DEF InterruptAttempts
<1>2. \A s \in Server, n \in Attempt :
         given(s, n).pc = "interrupted" /\ given(s, n).rev = att[s][n].rev
  BY DEF Unused
<1>3. \A s \in Server, n \in Attempt : <<s, n>> \notin hit => att[s][n].pc \notin Awaiting
  BY DEF OneRegisteredAttempt, Active, Attempt
<1>4. "interrupted" \notin Awaiting
  BY DEF Awaiting
<1>5. \A s \in Server : statuses'[s] \in {base[s], "failed"}
  BY InterruptType
<1> HIDE DEF hit, given
<1> QED BY <1>1, <1>2, <1>3, <1>4, <1>5

-----------------------------------------------------------------------------
(***************************************************************************)
(* The inductive invariant: every conjunct, step by step.                  *)
(***************************************************************************)

LEMMA InitInv == Init => ManagerInv
<1> SUFFICES ASSUME Init PROVE ManagerInv
  OBVIOUS
<1>1. NoToolKeyCollision
  BY DEF Init, NoToolKeyCollision, Collides, Offers
<1>2. OneRegisteredAttempt
  BY DEF Init, OneRegisteredAttempt, Active, Unused, Awaiting, Attempt
<1>3. DisconnectedStaysOut /\ ClosedManagerHoldsNoClients /\ StoredClientsAreCurrent
  BY DEF Init, DisconnectedStaysOut, ClosedManagerHoldsNoClients, StoredClientsAreCurrent
<1>4. NoClientBeforeStore
  BY DEF Init, NoClientBeforeStore
<1> QED BY <1>1, <1>2, <1>3, <1>4, InitType DEF ManagerInv

LEMMA CallInv ==
  ASSUME ManagerInv, CallStep
  PROVE  ManagerInv'
<1>0. TypeOK /\ TypeOK'
  BY CallType DEF ManagerInv
<1>1. PICK T \in SUBSET Server, sig \in Signal \cup {NoSignal} :
         Launch(T, sig) /\ manual' \subseteq manual
  BY <1>0, CallMoves
<1>2. PICK F \in SUBSET Server :
         /\ \A s \in F : /\ inflight[s] = 0
                         /\ clients'[s] = 0
                         /\ att'[s][inflight'[s]].pc \in Awaiting
                         /\ \A n \in Attempt : n # inflight'[s] => att'[s][n] = att[s][n]
         /\ \A s \in Server \ F : /\ inflight'[s] = inflight[s]
                                  /\ clients'[s] = clients[s]
                                  /\ \A n \in Attempt : att'[s][n] = att[s][n]
         /\ \A s \in Server : tools'[s] \subseteq tools[s] /\ OnlyShows(s)
         /\ UNCHANGED control
  BY <1>0, <1>1, LaunchMoves
<1>3. NoToolKeyCollision'
  BY <1>2, ShrinkKeepsKeys DEF ManagerInv, NoToolKeyCollision
<1>4. OneRegisteredAttempt'
  <2> SUFFICES ASSUME NEW s \in Server, NEW n \in Attempt
               PROVE  att'[s][n].pc \in Awaiting <=> inflight'[s] = n
    BY DEF OneRegisteredAttempt, Active
  <2>1. att[s][n].pc \in Awaiting <=> inflight[s] = n
    BY DEF ManagerInv, OneRegisteredAttempt, Active
  <2>2. n # 0
    BY DEF Attempt
  <2> QED BY <1>2, <2>1, <2>2
<1>5. DisconnectedStaysOut'
  BY <1>1, <1>2 DEF ManagerInv, TypeOK, DisconnectedStaysOut, OnlyShows
<1>6. ClosedManagerHoldsNoClients'
  BY <1>2 DEF ManagerInv, ClosedManagerHoldsNoClients, control
<1>7. StoredClientsAreCurrent'
  <2>1. \A s \in Server : clients[s] # 0 => clients[s] \in Attempt
    BY DEF ManagerInv, TypeOK, Attempt
  <2> QED BY <1>2, <2>1 DEF ManagerInv, StoredClientsAreCurrent, control
<1>8. NoClientBeforeStore'
  BY <1>2 DEF ManagerInv, NoClientBeforeStore
<1> QED BY <1>0, <1>3, <1>4, <1>5, <1>6, <1>7, <1>8 DEF ManagerInv

LEMMA HandlerInv ==
  ASSUME ManagerInv, NEW s \in Server,
         ConnectDisabled(s) \/ DisconnectStep(s) \/ ConnectionLost(s) \/ RefreshStep(s)
  PROVE  ManagerInv'
<1>0. TypeOK /\ TypeOK'
  BY HandlerType DEF ManagerInv
<1>1. /\ UNCHANGED <<control, att, inflight>>
      /\ \A r \in Server : clients'[r] \in {0, clients[r]} /\ OnlyShows(r)
      /\ \A r \in manual' : r \in manual \/ (clients'[r] = 0 /\ statuses'[r] # "connected")
      /\ ~Collides(tools) => ~Collides(tools')
  BY <1>0, HandlerMoves
<1>2. NoToolKeyCollision' /\ OneRegisteredAttempt'
  BY <1>1 DEF ManagerInv, NoToolKeyCollision, OneRegisteredAttempt, Active
<1>3. DisconnectedStaysOut'
  BY <1>0, <1>1 DEF ManagerInv, TypeOK, DisconnectedStaysOut, OnlyShows
<1>4. ClosedManagerHoldsNoClients' /\ StoredClientsAreCurrent' /\ NoClientBeforeStore'
  BY <1>1 DEF ManagerInv, ClosedManagerHoldsNoClients, StoredClientsAreCurrent,
              NoClientBeforeStore, control
<1> QED BY <1>0, <1>2, <1>3, <1>4 DEF ManagerInv

LEMMA SignalInv ==
  ASSUME ManagerInv,
         \/ \E g \in Signal : Abort(g)
         \/ \E c \in Sweep : SweepAborted(c)
  PROVE  ManagerInv'
<1>0. TypeOK /\ TypeOK'
  BY SignalType DEF ManagerInv
<1>1. /\ UNCHANGED <<control, manual, clients, tools, inflight>>
      /\ \A r \in Server, m \in Attempt :
            /\ att'[r][m].pc \in Awaiting <=> att[r][m].pc \in Awaiting
            /\ att'[r][m].pc \in Unstored => att[r][m].pc \in Unstored
            /\ att'[r][m].rev = att[r][m].rev
      /\ \A r \in Server : OnlyShows(r)
  BY <1>0, SignalMoves
<1>2. NoToolKeyCollision' /\ OneRegisteredAttempt'
  BY <1>1 DEF ManagerInv, NoToolKeyCollision, OneRegisteredAttempt, Active
<1>3. DisconnectedStaysOut'
  BY <1>0, <1>1 DEF ManagerInv, TypeOK, DisconnectedStaysOut, OnlyShows
<1>4. ClosedManagerHoldsNoClients' /\ NoClientBeforeStore'
  BY <1>1 DEF ManagerInv, ClosedManagerHoldsNoClients, NoClientBeforeStore, control, Unstored
<1>5. StoredClientsAreCurrent'
  <2>1. \A s \in Server : clients[s] # 0 => clients[s] \in Attempt
    BY <1>0 DEF TypeOK, Attempt
  <2> QED BY <1>1, <2>1 DEF ManagerInv, StoredClientsAreCurrent, control
<1> QED BY <1>0, <1>2, <1>3, <1>4, <1>5 DEF ManagerInv

LEMMA AttemptStepTools ==
  ASSUME NEW s \in Server, NEW n \in Attempt, AttemptStep(s, n), ~Collides(tools)
  PROVE  ~Collides(tools')
<1> USE DEF store
<1>1. CASE \E L \in SUBSET Tool : Listed(s, n, L)
  BY <1>1 DEF Listed, Drop
<1>2. CASE \/ Unsubscribed(s, n) \/ OldClosed(s, n) \/ Connected(s, n)
           \/ ListFails(s, n) \/ ListDies(s, n)
  BY <1>2 DEF Unsubscribed, OldClosed, Connected, ListFails, ListDies, Drop
<1>3. CASE \/ \E verdict \in Failure : ConnectFails(s, n, verdict)
           \/ TransportClosed(s, n)
           \/ Dropped(s, n)
           \/ Notified(s, n)
  BY <1>3 DEF ConnectFails, TransportClosed, Dropped, Notified
<1> QED BY <1>1, <1>2, <1>3 DEF AttemptStep

LEMMA AttemptStepInv ==
  ASSUME ManagerInv, NEW s \in Server, NEW n \in Attempt, AttemptStep(s, n)
  PROVE  ManagerInv'
<1>0. TypeOK /\ TypeOK'
  BY AttemptStepType DEF ManagerInv
<1>1. /\ UNCHANGED <<control, manual>>
      /\ att[s][n].pc \in Awaiting
      /\ \A r \in Server, m \in Attempt : <<r, m>> # <<s, n>> => att'[r][m] = att[r][m]
      /\ att'[s][n].rev = att[s][n].rev
      /\ att'[s][n].pc \in Unstored => att[s][n].pc \in Unstored
      /\ \/ att'[s][n].pc \in Awaiting /\ inflight' = inflight
         \/ /\ att'[s][n].pc \in Ended
            /\ inflight' = [inflight EXCEPT ![s] = IF inflight[s] = n THEN 0 ELSE inflight[s]]
      /\ \/ clients' = clients
         \/ /\ clients' = [clients EXCEPT ![s] = n]
            /\ att[s][n].pc = "listing" /\ att'[s][n].pc = "notifying"
            /\ ~Stale(s, n) /\ s \notin manual
      /\ \A r \in Server : OnlyShows(r) \/ (r = s /\ s \notin manual)
  BY <1>0, AttemptStepMoves
<1>2. NoToolKeyCollision'
  BY AttemptStepTools DEF ManagerInv, NoToolKeyCollision
<1>3. \A r \in Server, m \in Attempt : att[r][m].pc \in Awaiting <=> inflight[r] = m
  BY DEF ManagerInv, OneRegisteredAttempt, Active
<1>4. inflight \in [Server -> 0..MaxAttempts] /\ clients \in [Server -> 0..MaxAttempts]
  BY <1>0 DEF TypeOK
<1>5. OneRegisteredAttempt'
  <2> SUFFICES ASSUME NEW r \in Server, NEW m \in Attempt
               PROVE  att'[r][m].pc \in Awaiting <=> inflight'[r] = m
    BY DEF OneRegisteredAttempt, Active
  <2>1. m # 0 /\ Ended \cap Awaiting = {}
    BY DEF Attempt, Ended, Awaiting
  <2>2. CASE <<r, m>> = <<s, n>>
    BY <1>1, <1>3, <1>4, <2>1, <2>2
  <2>3. CASE <<r, m>> # <<s, n>>
    <3>1. att'[r][m] = att[r][m] /\ inflight[s] = n
      BY <1>1, <1>3, <2>3
    <3>2. CASE r # s
      BY <1>1, <1>3, <1>4, <3>1, <3>2
    <3>3. CASE r = s
      BY <1>1, <1>3, <1>4, <2>1, <2>3, <3>1, <3>3
    <3> QED BY <3>2, <3>3
  <2> QED BY <2>2, <2>3
<1>6. DisconnectedStaysOut'
  <2> SUFFICES ASSUME NEW r \in manual' PROVE clients'[r] = 0 /\ statuses'[r] # "connected"
    BY DEF DisconnectedStaysOut
  <2>1. r \in manual /\ r \in Server /\ clients[r] = 0 /\ statuses[r] # "connected"
    BY <1>0, <1>1 DEF ManagerInv, DisconnectedStaysOut, TypeOK
  <2> QED BY <1>1, <1>4, <2>1 DEF OnlyShows
<1>7. ClosedManagerHoldsNoClients'
  BY <1>1 DEF ManagerInv, ClosedManagerHoldsNoClients, Stale, IsCurrentRevision, control
<1>8. StoredClientsAreCurrent'
  <2> SUFFICES ASSUME \A op \in {"initialize", "close"} : ctl[op] # "callbacks",
                      NEW r \in Server, clients'[r] # 0
               PROVE  att'[r][clients'[r]].rev = revision
    BY <1>1 DEF StoredClientsAreCurrent, control
  <2>1. CASE clients' = clients
    <3>1. clients[r] \in Attempt /\ att[r][clients[r]].rev = revision
      BY <1>4, <2>1 DEF ManagerInv, StoredClientsAreCurrent, Attempt
    <3> QED BY <1>1, <2>1, <3>1
  <2>2. CASE clients' = [clients EXCEPT ![s] = n] /\ ~Stale(s, n)
    <3>1. att[s][n].rev = revision
      BY <2>2 DEF Stale, IsCurrentRevision
    <3>2. CASE r = s
      BY <1>1, <1>4, <2>2, <3>1, <3>2
    <3>3. CASE r # s
      <4>1. clients'[r] = clients[r] /\ clients[r] \in Attempt
        BY <1>4, <2>2, <3>3 DEF Attempt
      <4>2. att[r][clients[r]].rev = revision
        BY <4>1 DEF ManagerInv, StoredClientsAreCurrent
      <4> QED BY <1>1, <3>3, <4>1, <4>2
    <3> QED BY <3>2, <3>3
  <2> QED BY <1>1, <2>1, <2>2
<1>9. NoClientBeforeStore'
  <2> SUFFICES ASSUME NEW r \in Server, NEW m \in Attempt, att'[r][m].pc \in Unstored
               PROVE  clients'[r] = 0
    BY DEF NoClientBeforeStore, Unstored
  <2>1. att[r][m].pc \in Unstored /\ att[r][m].pc \in Awaiting
    BY <1>1 DEF Unstored, Awaiting
  <2>2. clients[r] = 0 /\ inflight[r] = m
    BY <1>3, <2>1 DEF ManagerInv, NoClientBeforeStore, Unstored
  <2>3. CASE r = s
    <3>1. m = n
      BY <1>1, <1>3, <2>2, <2>3
    <3> QED BY <1>1, <2>2, <2>3, <3>1 DEF Unstored
  <2>4. CASE r # s
    BY <1>1, <1>4, <2>2, <2>4
  <2> QED BY <2>3, <2>4
<1> QED BY <1>0, <1>2, <1>5, <1>6, <1>7, <1>8, <1>9 DEF ManagerInv

LEMMA ControlInv ==
  ASSUME ManagerInv, ControlStep
  PROVE  ManagerInv'
<1>0. TypeOK /\ TypeOK' /\ OneRegisteredAttempt
  BY ControlType DEF ManagerInv
<1>a. statuses \in [Server -> Status] /\ ctl \in [{"initialize", "close"} -> Phase] /\ manual \subseteq Server
  BY <1>0 DEF TypeOK
<1> USE DEF store, flights, control
<1>b. ASSUME UNCHANGED <<statuses, manual, clients, tools, inflight, att>>
      PROVE  /\ NoToolKeyCollision' /\ OneRegisteredAttempt'
             /\ DisconnectedStaysOut' /\ NoClientBeforeStore'
  BY <1>b DEF ManagerInv, NoToolKeyCollision, OneRegisteredAttempt, Active, DisconnectedStaysOut,
              NoClientBeforeStore
<1>c. ASSUME /\ \A s \in Server, n \in Attempt :
                  inflight'[s] = 0 /\ att'[s][n].pc \notin Awaiting /\ att'[s][n].rev = att[s][n].rev,
             UNCHANGED <<closed, revision, manual, clients, tools>>,
             \A s \in Server : OnlyShows(s),
             \A op \in {"initialize", "close"} : ctl'[op] # "callbacks" => ctl[op] # "callbacks"
      PROVE  ManagerInv'
  <2>1. NoToolKeyCollision'
    BY <1>c DEF ManagerInv, NoToolKeyCollision
  <2>2. OneRegisteredAttempt'
    BY <1>c DEF OneRegisteredAttempt, Active, Attempt
  <2>3. DisconnectedStaysOut'
    BY <1>a, <1>c DEF ManagerInv, DisconnectedStaysOut, OnlyShows
  <2>4. ClosedManagerHoldsNoClients'
    BY <1>c DEF ManagerInv, ClosedManagerHoldsNoClients
  <2>5. StoredClientsAreCurrent'
    <3>1. \A s \in Server : clients[s] # 0 => clients[s] \in Attempt
      BY <1>0 DEF TypeOK, Attempt
    <3> QED BY <1>c, <3>1 DEF ManagerInv, StoredClientsAreCurrent
  <2>6. NoClientBeforeStore'
    BY <1>c DEF NoClientBeforeStore, Unstored, Awaiting
  <2> QED BY <1>0, <2>1, <2>2, <2>3, <2>4, <2>5, <2>6 DEF ManagerInv
<1>1. CASE \E cfg \in Configs : InitializeBegin(cfg)
  <2>1. /\ UNCHANGED <<statuses, manual, clients, tools, inflight, att>>
        /\ ~closed' /\ ctl'["initialize"] = "callbacks"
    BY <1>1, <1>a DEF InitializeBegin
  <2>2. ClosedManagerHoldsNoClients' /\ StoredClientsAreCurrent'
    BY <2>1 DEF ClosedManagerHoldsNoClients, StoredClientsAreCurrent
  <2> QED BY <1>0, <1>b, <2>1, <2>2 DEF ManagerInv
<1>2. CASE CloseBegin
  <2>1. /\ UNCHANGED <<statuses, manual, clients, tools, inflight, att>>
        /\ ctl'["close"] = "callbacks"
    BY <1>2, <1>a DEF CloseBegin
  <2>2. ClosedManagerHoldsNoClients' /\ StoredClientsAreCurrent'
    BY <2>1 DEF ClosedManagerHoldsNoClients, StoredClientsAreCurrent
  <2> QED BY <1>0, <1>b, <2>1, <2>2 DEF ManagerInv
<1>3. CASE \E op \in {"initialize", "close"} : ClearClients(op)
  <2>1. Detach(Server) /\ UNCHANGED <<statuses, manual, inflight, att>>
    BY <1>3 DEF ClearClients
  <2>2. \A s \in Server : clients'[s] = 0 /\ tools'[s] \subseteq tools[s]
    BY <2>1 DEF Detach
  <2>3. NoToolKeyCollision'
    BY <2>2, ShrinkKeepsKeys DEF ManagerInv, NoToolKeyCollision
  <2>4. OneRegisteredAttempt'
    BY <2>1 DEF ManagerInv, OneRegisteredAttempt, Active
  <2>5. DisconnectedStaysOut'
    BY <1>a, <2>1, <2>2 DEF ManagerInv, DisconnectedStaysOut
  <2>6. ClosedManagerHoldsNoClients' /\ StoredClientsAreCurrent' /\ NoClientBeforeStore'
    BY <2>2 DEF ClosedManagerHoldsNoClients, StoredClientsAreCurrent, NoClientBeforeStore
  <2> QED BY <1>0, <2>3, <2>4, <2>5, <2>6 DEF ManagerInv
<1>4. CASE InitializeEnd
  <2> DEFINE base == [s \in Server |-> CASE newConfig[s] = "on" -> "disconnected"
                                         [] newConfig[s] = "off" -> "disabled"
                                         [] OTHER -> "none"]
  <2>1. base \in [Server -> Status] /\ \A s \in Server : base[s] # "connected"
    BY DEF Status
  <2>2. /\ InterruptAttempts(base)
        /\ UNCHANGED <<closed, revision, manual, clients, tools>>
    BY <1>4 DEF InitializeEnd
  <2> HIDE DEF base
  <2>3. \A op \in {"initialize", "close"} : ctl'[op] # "callbacks" => ctl[op] # "callbacks"
    BY <1>4, <1>a DEF InitializeEnd
  <2>4. /\ \A s \in Server, n \in Attempt :
              inflight'[s] = 0 /\ att'[s][n].pc \notin Awaiting /\ att'[s][n].rev = att[s][n].rev
        /\ \A s \in Server : statuses'[s] \in {base[s], "failed"}
    BY <1>0, <2>1, <2>2, InterruptMoves
  <2>5. \A s \in Server : OnlyShows(s)
    BY <2>1, <2>4 DEF OnlyShows
  <2> QED BY <1>c, <2>2, <2>3, <2>4, <2>5
<1>5. CASE CloseEnd
  <2>1. /\ InterruptAttempts(statuses)
        /\ UNCHANGED <<closed, revision, manual, clients, tools>>
    BY <1>5 DEF CloseEnd
  <2>2. \A op \in {"initialize", "close"} : ctl'[op] # "callbacks" => ctl[op] # "callbacks"
    BY <1>5, <1>a DEF CloseEnd
  <2>3. /\ \A s \in Server, n \in Attempt :
              inflight'[s] = 0 /\ att'[s][n].pc \notin Awaiting /\ att'[s][n].rev = att[s][n].rev
        /\ \A s \in Server : statuses'[s] \in {statuses[s], "failed"}
    BY <1>0, <1>a, <2>1, InterruptMoves
  <2>4. \A s \in Server : OnlyShows(s)
    BY <2>3 DEF OnlyShows
  <2> QED BY <1>c, <2>1, <2>2, <2>3, <2>4
<1>6. CASE \E op \in {"initialize", "close"} : SubscriptionsClosed(op)
  <2>1. UNCHANGED <<closed, revision, statuses, manual, clients, tools, inflight, att>>
    BY <1>6 DEF SubscriptionsClosed
  <2>2. \A op \in {"initialize", "close"} : ctl'[op] # "callbacks" => ctl[op] # "callbacks"
    BY <1>6, <1>a DEF SubscriptionsClosed
  <2>3. ClosedManagerHoldsNoClients' /\ StoredClientsAreCurrent'
    BY <2>1, <2>2 DEF ManagerInv, ClosedManagerHoldsNoClients, StoredClientsAreCurrent
  <2> QED BY <1>0, <1>b, <2>1, <2>3 DEF ManagerInv
<1> QED BY <1>1, <1>2, <1>3, <1>4, <1>5, <1>6 DEF ControlStep

\* Every step keeps the invariant.
LEMMA NextInv == ManagerInv /\ [Next]_vars => ManagerInv'
<1> SUFFICES ASSUME ManagerInv, [Next]_vars PROVE ManagerInv'
  OBVIOUS
<1>1. CASE Next
  BY <1>1, CallInv, HandlerInv, AttemptStepInv, SignalInv, ControlInv DEF Next
<1>2. CASE UNCHANGED vars
  <2>1. TypeOK'
    BY <1>2, NextType DEF ManagerInv
  <2>2. UNCHANGED <<closed, revision, ctl, statuses, manual, clients, tools, inflight, att>>
    BY <1>2 DEF vars, control, store, flights
  <2> QED BY <2>1, <2>2 DEF ManagerInv, NoToolKeyCollision, OneRegisteredAttempt, Active,
         DisconnectedStaysOut, ClosedManagerHoldsNoClients, StoredClientsAreCurrent,
         NoClientBeforeStore
<1> QED BY <1>1, <1>2

\* The invariant holds in every reachable state.
THEOREM Invariance == Spec => []ManagerInv
  BY InitInv, NextInv, PTL DEF Spec

\* No two tools of the stored clients ever have one Pi name, however connects,
\* disconnects, reloads and tool refreshes interleave (findToolKeyCollision).
THEOREM KeysAreUnique == Spec => []NoToolKeyCollision
<1>1. ManagerInv => NoToolKeyCollision
  BY DEF ManagerInv
<1> QED BY <1>1, Invariance, PTL

\* At most one attempt runs for a server, and it is the registered one: whoever
\* joins waits for a live fiber (connectEffect's connectionAttempts).
THEOREM AttemptsAreJoined == Spec => []OneRegisteredAttempt
<1>1. ManagerInv => OneRegisteredAttempt
  BY DEF ManagerInv
<1> QED BY <1>1, Invariance, PTL

\* A server disconnected for the runtime has no client and is not shown connected
\* (connectFreshEffect's checks of manuallyDisconnected).
THEOREM DisconnectHolds == Spec => []DisconnectedStaysOut
<1>1. ManagerInv => DisconnectedStaysOut
  BY DEF ManagerInv
<1> QED BY <1>1, Invariance, PTL

\* After close has cleared the clients no late attempt stores one (isCurrentRevision).
THEOREM CloseHolds == Spec => []ClosedManagerHoldsNoClients
<1>1. ManagerInv => ClosedManagerHoldsNoClients
  BY DEF ManagerInv
<1> QED BY <1>1, Invariance, PTL

\* Stored clients were connected for the revision in force (isCurrentRevision).
THEOREM ClientsAreCurrent == Spec => []StoredClientsAreCurrent
<1>1. ManagerInv => StoredClientsAreCurrent
  BY DEF ManagerInv
<1> QED BY <1>1, Invariance, PTL

\* A step takes a stored client out or leaves it, and stores only where none is.
LEMMA StoreStep ==
  ASSUME ManagerInv, [Next]_vars, NEW s \in Server, clients[s] # 0
  PROVE  clients'[s] \in {0, clients[s]}
<1>0. TypeOK
  BY DEF ManagerInv
<1>1. CASE CallStep
  <2>1. PICK T \in SUBSET Server, sig \in Signal \cup {NoSignal} : Launch(T, sig)
    BY <1>0, <1>1, CallMoves
  <2> QED BY <1>0, <2>1, LaunchMoves
<1>2. CASE \E r \in Server : ConnectDisabled(r) \/ DisconnectStep(r) \/ ConnectionLost(r) \/ RefreshStep(r)
  BY <1>0, <1>2, HandlerMoves
<1>3. ASSUME NEW r \in Server, NEW n \in Attempt, AttemptStep(r, n)
      PROVE  clients'[s] \in {0, clients[s]}
  <2>1. \/ clients' = clients
        \/ clients' = [clients EXCEPT ![r] = n] /\ att[r][n].pc = "listing"
    BY <1>0, <1>3, AttemptStepMoves
  <2>2. att[r][n].pc = "listing" => r # s
    BY DEF ManagerInv, NoClientBeforeStore, Unstored
  <2> QED BY <1>0, <2>1, <2>2 DEF TypeOK
<1>4. CASE (\E g \in Signal : Abort(g)) \/ (\E c \in Sweep : SweepAborted(c))
  BY <1>0, <1>4, SignalMoves
<1>5. CASE ControlStep
  BY <1>5 DEF ControlStep, InitializeBegin, CloseBegin, ClearClients, Detach,
              SubscriptionsClosed, InitializeEnd, CloseEnd, store
<1>6. CASE UNCHANGED vars
  BY <1>6 DEF vars, store
<1> QED BY <1>1, <1>2, <1>3, <1>4, <1>5, <1>6 DEF Next

\* A client is never stored over another one, which nobody would close
\* (connectFreshEffect takes the old client out before it connects).
THEOREM StoresAreFree == Spec => StoreNeverOverwrites
<1>1. ManagerInv /\ [Next]_vars =>
         [\A s \in Server : clients[s] # 0 => clients'[s] \in {0, clients[s]}]_vars
  BY StoreStep
<1> QED BY <1>1, Invariance, PTL DEF Spec, StoreNeverOverwrites
-----------------------------------------------------------------------------
(***************************************************************************)
(* Who answers for a connected client.                                     *)
(***************************************************************************)

\* The servers for which a call forks an attempt, and what it forks.
Forked(F) ==
    /\ F \in SUBSET Server
    /\ \A s \in F : /\ inflight[s] = 0
                    /\ started'[s] \in Attempt /\ started'[s] = started[s] + 1
                    /\ inflight'[s] = started'[s]
                    /\ att'[s][started'[s]].pc \in Unstored
                    /\ att'[s][started'[s]].rev = revision
                    /\ StepsLeft(att'[s][started'[s]]) \in 0..9
                    /\ \A n \in Attempt : n # started'[s] => att'[s][n] = att[s][n]
    /\ \A s \in Server \ F : /\ started'[s] = started[s] /\ inflight'[s] = inflight[s]
                             /\ \A n \in Attempt : att'[s][n] = att[s][n]
    /\ clients' = [s \in Server |-> IF s \in F THEN 0 ELSE clients[s]]
    /\ live' \subseteq live
    /\ \A s \in F : clients[s] # 0 =>
          \/ <<s, clients[s]>> \notin live'
          \/ /\ att'[s][started'[s]].pc = "unsubscribing"
             /\ att'[s][started'[s]].old = clients[s]
    /\ UNCHANGED <<control, parting, ousted>>

LEMMA LaunchForks ==
  ASSUME TypeOK, NEW T \in SUBSET Server, NEW sig, Launch(T, sig)
  PROVE  \E F : Forked(F)
<1> DEFINE F == {s \in T : inflight[s] = 0}
<1>0. PICK W \in SUBSET (F \cap Modern) : Fork(F, W, sig)
  BY DEF Launch
<1>3. F \in SUBSET Server /\ \A s \in F : inflight[s] = 0
  OBVIOUS
<1> HIDE DEF F
<1> DEFINE first(s) == First(s, s \in W, sig)
<1>1. /\ \A s \in F : started[s] < MaxStarted[s]
      /\ started' = [s \in Server |-> IF s \in F THEN started[s] + 1 ELSE started[s]]
      /\ inflight' = [s \in Server |-> IF s \in F THEN started'[s] ELSE inflight[s]]
      /\ att' = [s \in Server |-> [n \in Attempt |->
                   IF s \in F /\ n = started'[s] THEN first(s) ELSE att[s][n]]]
      /\ Detach(F) /\ CloseNow(F \ W)
      /\ UNCHANGED control
  BY <1>0 DEF Fork
<1>2. \A s \in Server :
         /\ first(s).pc \in Unstored /\ first(s).rev = revision /\ first(s).way = 1
         /\ s \in W => first(s).pc = "unsubscribing" /\ first(s).old = clients[s]
  BY DEF First, Unused, Unstored
<1> HIDE DEF first
<1>b. ASSUME NEW s \in Server PROVE StepsLeft(first(s)) \in 0..9
  <2>1. /\ first(s).pc \in {"unsubscribing", "closeOld", "connecting", "failing", "listing"}
        /\ first(s).way = 1
    BY <1>2 DEF Unstored
  <2> QED BY <2>1 DEF StepsLeft
<1>4. \A s \in F : started'[s] \in Attempt /\ started'[s] = started[s] + 1
  BY <1>1, <1>3, ManagerAssumption DEF TypeOK, Attempt, ManagerAssumption
<1>5. \A s \in F : inflight'[s] = started'[s]
  BY <1>1, <1>3
<1>6. \A s \in F, n \in Attempt : att'[s][n] = IF n = started'[s] THEN first(s) ELSE att[s][n]
  BY <1>1, <1>3
<1>7. \A s \in F : att'[s][started'[s]] = first(s)
  BY <1>4, <1>6
<1>8. \A s \in Server \ F : /\ started'[s] = started[s] /\ inflight'[s] = inflight[s]
                            /\ \A n \in Attempt : att'[s][n] = att[s][n]
  BY <1>1
<1>9. /\ clients' = [s \in Server |-> IF s \in F THEN 0 ELSE clients[s]]
      /\ live' = live \ Stored(F \ W)
      /\ UNCHANGED <<control, parting, ousted>>
  BY <1>1 DEF Detach, CloseNow
<1>c. ASSUME NEW s \in F, clients[s] # 0, <<s, clients[s]>> \in live'
      PROVE  first(s).pc = "unsubscribing" /\ first(s).old = clients[s]
  <2>1. s \in W
    BY <1>9, <1>c DEF Stored
  <2> QED BY <1>2, <1>3, <2>1
<1>a. Forked(F)
  <2>1. live' \subseteq live
    BY <1>9
  <2>2. ASSUME NEW s \in F, clients[s] # 0
        PROVE  \/ <<s, clients[s]>> \notin live'
               \/ /\ att'[s][started'[s]].pc = "unsubscribing"
                  /\ att'[s][started'[s]].old = clients[s]
    BY <1>7, <1>c, <2>2
  <2>3. \A s \in F : /\ att'[s][started'[s]].pc \in Unstored
                     /\ att'[s][started'[s]].rev = revision
                     /\ StepsLeft(att'[s][started'[s]]) \in 0..9
    BY <1>2, <1>3, <1>7, <1>b
  <2>4. \A s \in F, n \in Attempt : n # started'[s] => att'[s][n] = att[s][n]
    BY <1>6
  <2> QED BY <2>1, <2>2, <2>3, <2>4, <1>3, <1>4, <1>5, <1>8, <1>9 DEF Forked
<1> QED BY <1>a

LEMMA CallForks ==
  ASSUME TypeOK, CallStep
  PROVE  \E F : Forked(F)
<1>1. PICK T \in SUBSET Server, sig \in Signal \cup {NoSignal} : Launch(T, sig)
  BY CallMoves
<1> QED BY <1>1, LaunchForks

\* A step of an attempt gives its client its owner: it comes to life as it starts to
\* list its tools, and is stored, closed or left to a defect when it is done.  The
\* client it replaces is closed when its subscriptions are.
LEMMA AttemptStepLives ==
  ASSUME TypeOK, NEW s \in Server, NEW n \in Attempt, AttemptStep(s, n)
  PROVE  /\ UNCHANGED <<started, parting, ousted>>
         /\ \A p \in live' : p \in live \/ (p = <<s, n>> /\ att'[s][n].pc = "listing")
         /\ att[s][n].pc = "listing" =>
               <<s, n>> \notin live' \/ clients'[s] = n \/ att'[s][n].pc = "died"
         /\ att[s][n].pc = "unsubscribing" /\ att[s][n].old # 0 => <<s, att[s][n].old>> \notin live'
<1> USE DEF store
<1>0. "died" \in Ended /\ "broken" \in Outcome /\ statuses \in [Server -> Status]
  BY DEF Ended, Outcome, TypeOK
<1>a. CASE Unsubscribed(s, n)
  BY <1>a DEF Unsubscribed
<1>1. CASE OldClosed(s, n)
  BY <1>1 DEF OldClosed
<1>2. CASE Connected(s, n)
  <2>1. CASE \E verdict : Drop(s, n, verdict)
    BY <1>2, <2>1 DEF Connected, Drop
  <2>2. CASE live' = live \cup {<<s, n>>} /\ Goto(s, n, "listing", "none")
              /\ UNCHANGED <<parting, ousted>>
    <3>1. att'[s][n].pc = "listing"
      BY <2>2, GotoMoves
    <3> QED BY <1>2, <2>2, <3>1 DEF Connected
  <2> QED BY <1>2, <2>1, <2>2 DEF Connected
<1>3. CASE \E verdict \in Failure : ConnectFails(s, n, verdict)
  BY <1>3 DEF ConnectFails
<1>4. CASE TransportClosed(s, n)
  BY <1>4 DEF TransportClosed
<1>5. CASE \E L \in SUBSET Tool : Listed(s, n, L)
  <2>1. PICK L \in SUBSET Tool : Listed(s, n, L)
    BY <1>5
  <2>2. CASE \E verdict : Drop(s, n, verdict)
    BY <2>1, <2>2 DEF Listed, Drop
  <2>3. CASE clients' = [clients EXCEPT ![s] = n] /\ UNCHANGED <<live, parting, ousted>>
    BY <2>1, <2>3 DEF Listed, TypeOK
  <2> QED BY <2>1, <2>2, <2>3 DEF Listed
<1>6. CASE ListFails(s, n)
  BY <1>6 DEF ListFails, Drop
<1>7. CASE ListDies(s, n)
  <2>1. att'[s][n].pc = "died"
    BY <1>0, <1>7, EndMoves DEF ListDies
  <2> QED BY <1>7, <2>1 DEF ListDies
<1>8. CASE Dropped(s, n)
  BY <1>8 DEF Dropped
<1>9. CASE Notified(s, n)
  BY <1>9 DEF Notified
<1> QED BY <1>a, <1>1, <1>2, <1>3, <1>4, <1>5, <1>6, <1>7, <1>8, <1>9 DEF AttemptStep

\* The other handlers close the clients they take out, now or when the subscriptions
\* are closed, but for a refresh that takes out another than its own.
LEMMA HandlerLives ==
  ASSUME TypeOK, NEW s \in Server,
         ConnectDisabled(s) \/ DisconnectStep(s) \/ ConnectionLost(s) \/ RefreshStep(s)
  PROVE  /\ UNCHANGED started
         /\ live' \subseteq live /\ ousted \subseteq ousted'
         /\ \A p \in live' :
               /\ clients[p[1]] = p[2] =>
                     clients'[p[1]] = p[2] \/ p \in ousted' \/ p \in parting'["disconnect"]
               /\ \A h \in Handler : p \in parting[h] => p \in parting'[h]
<1> DEFINE Kept == /\ UNCHANGED started
                   /\ live' \subseteq live /\ ousted \subseteq ousted'
           Owned == \A p \in live' : clients[p[1]] = p[2] =>
                       clients'[p[1]] = p[2] \/ p \in ousted' \/ p \in parting'["disconnect"]
           Parting == \A p \in live', h \in Handler : p \in parting[h] => p \in parting'[h]
<1> USE DEF flights, store
<1>0. /\ clients \in [Server -> 0..MaxAttempts] /\ live \subseteq Server \X Attempt
      /\ parting \in [Handler -> SUBSET (Server \X Attempt)] /\ "disconnect" \in Handler
  BY DEF TypeOK, Handler
<1>a. \A p \in live : p = <<p[1], p[2]>> /\ p[1] \in Server /\ p[2] # 0
  BY <1>0 DEF Attempt
<1>1. CASE ConnectDisabled(s) \/ ToolListChanged(s) \/ \E n \in Attempt : RefreshFails(s, n)
  BY <1>1 DEF ConnectDisabled, ToolListChanged, RefreshFails
<1>2. CASE Disconnect(s) \/ ConnectionLost(s)
  <2>1. Detach({s}) /\ UNCHANGED started
    BY <1>2 DEF Disconnect, ConnectionLost
  <2>2. ASSUME NEW p \in live, clients[p[1]] = p[2]
        PROVE  clients'[p[1]] = p[2] \/ p \in Stored({s})
    BY <1>0, <1>a, <2>1, <2>2 DEF Detach, Stored
  <2>3. CASE live' = live \ Stored({s}) /\ UNCHANGED parting
    BY <2>1, <2>2, <2>3 DEF Detach
  <2>4. CASE CloseLater({s}, "disconnect")
    <3>1. live' = live /\ parting' = [parting EXCEPT !["disconnect"] = @ \cup Stored({s})]
      BY <2>4 DEF CloseLater
    <3>2. Parting /\ Stored({s}) \subseteq parting'["disconnect"]
      BY <1>0, <3>1
    <3> QED BY <2>1, <2>2, <3>1, <3>2 DEF Detach
  <2> QED BY <1>2, <2>3, <2>4 DEF Disconnect, ConnectionLost, CloseNow
<1>3. ASSUME NEW n \in Attempt, Disconnected(s, n)
      PROVE  Kept /\ Owned /\ Parting
  <2>1. /\ UNCHANGED <<started, clients, ousted>> /\ live' = live \ {<<s, n>>}
        /\ parting' = [parting EXCEPT !["disconnect"] = @ \ {<<s, n>>}]
    BY <1>3 DEF Disconnected
  <2> QED BY <1>0, <2>1
<1>4. ASSUME NEW n \in Attempt, NEW L \in SUBSET Tool, Refreshed(s, n, L)
      PROVE  Kept /\ Owned /\ Parting
  <2>1. CASE Collides([tools EXCEPT ![s] = L])
    <3>1. /\ clients' = [clients EXCEPT ![s] = 0] /\ live' = live \ {<<s, n>>}
          /\ ousted' = ousted \cup {<<s, m>> : m \in {clients[s]} \ {0, n}}
          /\ UNCHANGED <<started, parting>>
      BY <1>4, <2>1 DEF Refreshed
    <3>2. ASSUME NEW p \in live', clients[p[1]] = p[2]
          PROVE  clients'[p[1]] = p[2] \/ p \in ousted'
      <4>1. p \in live /\ p # <<s, n>> /\ p = <<p[1], p[2]>> /\ p[2] # 0
        BY <1>a, <3>1
      <4>2. CASE p[1] = s
        BY <3>1, <3>2, <4>1, <4>2
      <4>3. CASE p[1] # s
        BY <1>0, <3>1, <3>2, <4>1, <4>3
      <4> QED BY <4>2, <4>3
    <3> QED BY <3>1, <3>2
  <2>2. CASE ~Collides([tools EXCEPT ![s] = L])
    BY <1>4, <2>2 DEF Refreshed
  <2> QED BY <2>1, <2>2
<1> QED BY <1>1, <1>2, <1>3, <1>4 DEF RefreshStep, DisconnectStep

\* The invariant that says who answers for each connected client.  A stored client is
\* taken out only by a handler or attempt that closes it, or holds it until its
\* subscriptions are closed, since no attempt stores over it (NoClientBeforeStore);
\* and the number of a new attempt names no client yet.
CustodyInv == ManagerInv /\ AttemptsAreNumbered /\ LiveClientsAreOwned

LEMMA CallCustody ==
  ASSUME CustodyInv, CallStep
  PROVE  AttemptsAreNumbered' /\ LiveClientsAreOwned'
<1>0. TypeOK /\ AttemptsAreNumbered /\ LiveClientsAreOwned
  BY DEF CustodyInv, ManagerInv
<1>1. PICK F : Forked(F)
  BY <1>0, CallForks
<1>2. \A s \in F : att[s][started'[s]].pc = "unused"
  BY <1>0, <1>1 DEF Forked, AttemptsAreNumbered, TypeOK
<1>3. AttemptsAreNumbered'
  <2> SUFFICES ASSUME NEW s \in Server, NEW n \in Attempt, n > started'[s]
               PROVE  att'[s][n].pc = "unused"
    BY DEF AttemptsAreNumbered
  <2>1. n > started[s] /\ att'[s][n] = att[s][n]
    <3>1. n \in Int /\ started[s] \in Int
      BY <1>0, ManagerAssumption DEF TypeOK, Attempt, ManagerAssumption
    <3>2. CASE s \in F
      <4>1. started'[s] = started[s] + 1 /\ \A m \in Attempt : m # started'[s] => att'[s][m] = att[s][m]
        BY <1>1, <3>2 DEF Forked
      <4> QED BY <3>1, <4>1
    <3>3. CASE s \notin F
      BY <1>1, <3>3 DEF Forked
    <3> QED BY <3>2, <3>3
  <2> QED BY <1>0, <2>1 DEF AttemptsAreNumbered
<1>4. LiveClientsAreOwned'
  <2> SUFFICES ASSUME NEW p \in live'
               PROVE  \/ clients'[p[1]] = p[2]
                      \/ att'[p[1]][p[2]].pc \in {"listing", "interrupted", "died"}
                      \/ ClosesOld(p)'
                      \/ \E h \in Handler : p \in parting'[h]
                      \/ p \in ousted'
    BY DEF LiveClientsAreOwned
  <2>1. /\ p \in live /\ p[1] \in Server /\ p[2] \in Attempt /\ p = <<p[1], p[2]>> /\ p[2] # 0
        /\ UNCHANGED <<parting, ousted>>
    BY <1>0, <1>1 DEF Forked, TypeOK, Attempt
  <2>2. \A n \in Attempt : att[p[1]][n].pc # "unused" => att'[p[1]][n] = att[p[1]][n]
    BY <1>1, <1>2, <2>1 DEF Forked
  <2>3. CASE clients[p[1]] = p[2]
    <3>1. CASE p[1] \in F
      <4>1. /\ started'[p[1]] \in Attempt
            /\ att'[p[1]][started'[p[1]]].pc = "unsubscribing"
            /\ att'[p[1]][started'[p[1]]].old = p[2]
        BY <1>1, <2>1, <2>3, <3>1 DEF Forked
      <4> QED BY <4>1 DEF ClosesOld
    <3>2. CASE p[1] \notin F
      BY <1>1, <2>1, <2>3, <3>2 DEF Forked
    <3> QED BY <3>1, <3>2
  <2>4. CASE att[p[1]][p[2]].pc \in {"listing", "interrupted", "died"}
    BY <2>1, <2>2, <2>4
  <2>5. CASE ClosesOld(p)
    BY <2>2, <2>5 DEF ClosesOld
  <2> QED BY <1>0, <2>1, <2>3, <2>4, <2>5 DEF LiveClientsAreOwned
<1> QED BY <1>3, <1>4

LEMMA HandlerCustody ==
  ASSUME CustodyInv, NEW s \in Server,
         ConnectDisabled(s) \/ DisconnectStep(s) \/ ConnectionLost(s) \/ RefreshStep(s)
  PROVE  AttemptsAreNumbered' /\ LiveClientsAreOwned'
<1>0. TypeOK /\ AttemptsAreNumbered /\ LiveClientsAreOwned
  BY DEF CustodyInv, ManagerInv
<1>1. UNCHANGED <<att, started>>
  BY <1>0, HandlerMoves, HandlerLives
<1>2. /\ live' \subseteq live /\ ousted \subseteq ousted'
      /\ \A p \in live' :
            /\ clients[p[1]] = p[2] =>
                  clients'[p[1]] = p[2] \/ p \in ousted' \/ p \in parting'["disconnect"]
            /\ \A h \in Handler : p \in parting[h] => p \in parting'[h]
  BY <1>0, HandlerLives
<1>3. "disconnect" \in Handler /\ \A p : ClosesOld(p)' <=> ClosesOld(p)
  BY <1>1 DEF ClosesOld, Handler
<1>4. AttemptsAreNumbered'
  BY <1>0, <1>1 DEF AttemptsAreNumbered
<1> QED BY <1>0, <1>1, <1>2, <1>3, <1>4 DEF LiveClientsAreOwned

LEMMA AttemptStepCustody ==
  ASSUME CustodyInv, NEW s \in Server, NEW n \in Attempt, AttemptStep(s, n)
  PROVE  AttemptsAreNumbered' /\ LiveClientsAreOwned'
<1>0. TypeOK /\ NoClientBeforeStore /\ AttemptsAreNumbered /\ LiveClientsAreOwned
  BY DEF CustodyInv, ManagerInv
<1>1. /\ att[s][n].pc \in Awaiting
      /\ \A r \in Server, m \in Attempt : <<r, m>> # <<s, n>> => att'[r][m] = att[r][m]
      /\ \/ clients' = clients
         \/ clients' = [clients EXCEPT ![s] = n] /\ att[s][n].pc = "listing"
  BY <1>0, AttemptStepMoves
<1>2. /\ UNCHANGED <<started, parting, ousted>>
      /\ \A p \in live' : p \in live \/ (p = <<s, n>> /\ att'[s][n].pc = "listing")
      /\ att[s][n].pc = "listing" =>
            <<s, n>> \notin live' \/ clients'[s] = n \/ att'[s][n].pc = "died"
      /\ att[s][n].pc = "unsubscribing" /\ att[s][n].old # 0 => <<s, att[s][n].old>> \notin live'
  BY <1>0, AttemptStepLives
<1>3. AttemptsAreNumbered'
  <2> SUFFICES ASSUME NEW r \in Server, NEW m \in Attempt, m > started[r]
               PROVE  att'[r][m].pc = "unused"
    BY <1>2 DEF AttemptsAreNumbered
  <2>1. att[r][m].pc = "unused" /\ "unused" \notin Awaiting
    BY <1>0 DEF AttemptsAreNumbered, Awaiting
  <2> QED BY <1>1, <2>1
<1>4. LiveClientsAreOwned'
  <2> SUFFICES ASSUME NEW p \in live', p \in live
               PROVE  \/ clients'[p[1]] = p[2]
                      \/ att'[p[1]][p[2]].pc \in {"listing", "interrupted", "died"}
                      \/ ClosesOld(p)'
                      \/ \E h \in Handler : p \in parting'[h]
                      \/ p \in ousted'
    BY <1>2 DEF LiveClientsAreOwned
  <2>1. p[1] \in Server /\ p[2] \in Attempt /\ p = <<p[1], p[2]>> /\ p[2] # 0
    BY <1>0 DEF TypeOK, Attempt
  <2>2. CASE clients[p[1]] = p[2]
    <3>1. att[s][n].pc = "listing" => p[1] # s
      BY <1>0, <2>1, <2>2 DEF NoClientBeforeStore, Unstored
    <3> QED BY <1>0, <1>1, <2>1, <2>2, <3>1 DEF TypeOK
  <2>3. CASE att[p[1]][p[2]].pc \in {"listing", "interrupted", "died"}
    <3>1. CASE p = <<s, n>>
      <4>1. att[s][n].pc = "listing"
        BY <1>1, <2>3, <3>1 DEF Awaiting
      <4> QED BY <1>2, <3>1, <4>1
    <3>2. CASE p # <<s, n>>
      BY <1>1, <2>1, <2>3, <3>2
    <3> QED BY <3>1, <3>2
  <2>4. CASE p \in ousted \/ \E h \in Handler : p \in parting[h]
    BY <1>2, <2>4
  <2>5. CASE ClosesOld(p)
    <3>1. PICK m \in Attempt : /\ att[p[1]][m].pc \in {"unsubscribing", "interrupted"}
                               /\ att[p[1]][m].old = p[2]
      BY <2>5 DEF ClosesOld
    <3>2. <<p[1], m>> # <<s, n>>
      BY <1>1, <1>2, <2>1, <3>1 DEF Awaiting
    <3>3. att'[p[1]][m] = att[p[1]][m]
      BY <1>1, <2>1, <3>2
    <3> QED BY <3>1, <3>3 DEF ClosesOld
  <2> QED BY <1>0, <2>2, <2>3, <2>4, <2>5 DEF LiveClientsAreOwned
<1> QED BY <1>3, <1>4

LEMMA SignalCustody ==
  ASSUME CustodyInv,
         \/ \E g \in Signal : Abort(g)
         \/ \E c \in Sweep : SweepAborted(c)
  PROVE  AttemptsAreNumbered' /\ LiveClientsAreOwned'
<1>0. TypeOK /\ AttemptsAreNumbered /\ LiveClientsAreOwned
  BY DEF CustodyInv, ManagerInv
<1>1. ASSUME NEW g \in Signal, Abort(g) PROVE AttemptsAreNumbered' /\ LiveClientsAreOwned'
  <2>1. /\ UNCHANGED <<clients, started, parting, ousted>> /\ live' \subseteq live
        /\ \A r \in Server, m \in Attempt :
              \/ att'[r][m] = att[r][m]
              \/ att[r][m].pc \in {"connecting", "listing"} /\ <<r, m>> \notin live'
    BY <1>0, <1>1, AbortMoves
  <2>2. \A p \in live' : p[1] \in Server /\ p[2] \in Attempt /\ p = <<p[1], p[2]>>
    BY <1>0, <2>1 DEF TypeOK
  <2>3. AttemptsAreNumbered'
    BY <1>0, <2>1 DEF AttemptsAreNumbered
  <2>4. \A p \in live' : ClosesOld(p) => ClosesOld(p)'
    BY <2>1, <2>2 DEF ClosesOld
  <2> QED BY <1>0, <2>1, <2>2, <2>3, <2>4 DEF LiveClientsAreOwned
<1>2. ASSUME NEW c \in Sweep, SweepAborted(c) PROVE AttemptsAreNumbered' /\ LiveClientsAreOwned'
  BY <1>0, <1>2 DEF SweepAborted, AttemptsAreNumbered, LiveClientsAreOwned, ClosesOld, store, flights
<1> QED BY <1>1, <1>2

LEMMA ControlCustody ==
  ASSUME CustodyInv, ControlStep
  PROVE  AttemptsAreNumbered' /\ LiveClientsAreOwned'
<1>0. TypeOK /\ OneRegisteredAttempt /\ AttemptsAreNumbered /\ LiveClientsAreOwned
  BY DEF CustodyInv, ManagerInv
<1> USE DEF store, flights
<1>1. CASE (\E cfg \in Configs : InitializeBegin(cfg)) \/ CloseBegin
  BY <1>0, <1>1 DEF InitializeBegin, CloseBegin, AttemptsAreNumbered, LiveClientsAreOwned, ClosesOld
<1>a. /\ {"initialize", "close"} \subseteq Handler
      /\ parting \in [Handler -> SUBSET (Server \X Attempt)]
      /\ \A p \in live : p = <<p[1], p[2]>> /\ p[1] \in Server /\ p[2] # 0
  BY <1>0 DEF TypeOK, Handler, Attempt
<1>2. ASSUME NEW op \in {"initialize", "close"}, ClearClients(op)
      PROVE  AttemptsAreNumbered' /\ LiveClientsAreOwned'
  <2>1. Detach(Server) /\ UNCHANGED <<att, started>>
    BY <1>2 DEF ClearClients
  <2>2. AttemptsAreNumbered' /\ \A p : ClosesOld(p)' <=> ClosesOld(p)
    BY <1>0, <2>1 DEF AttemptsAreNumbered, ClosesOld
  <2>3. UNCHANGED ousted /\ \A p \in live : clients[p[1]] = p[2] => p \in Stored(Server)
    BY <1>a, <2>1 DEF Detach, Stored
  <2>4. CASE CloseNow(Server)
    BY <1>0, <2>1, <2>2, <2>3, <2>4 DEF CloseNow, LiveClientsAreOwned
  <2>5. CASE CloseLater(Server, op)
    <3>1. live' = live /\ parting' = [parting EXCEPT ![op] = @ \cup Stored(Server)]
      BY <2>5 DEF CloseLater
    <3>2. /\ Stored(Server) \subseteq parting'[op]
          /\ \A h \in Handler : parting[h] \subseteq parting'[h]
      BY <1>a, <3>1
    <3> QED BY <1>0, <1>a, <2>1, <2>2, <2>3, <3>1, <3>2 DEF LiveClientsAreOwned
  <2> QED BY <1>2, <2>4, <2>5 DEF ClearClients
<1>5. ASSUME NEW op \in {"initialize", "close"}, SubscriptionsClosed(op)
      PROVE  AttemptsAreNumbered' /\ LiveClientsAreOwned'
  <2>1. /\ UNCHANGED <<clients, ousted, att, started>>
        /\ live' = live \ parting[op] /\ parting' = [parting EXCEPT ![op] = {}]
    BY <1>5 DEF SubscriptionsClosed
  <2>2. AttemptsAreNumbered' /\ \A p : ClosesOld(p)' <=> ClosesOld(p)
    BY <1>0, <2>1 DEF AttemptsAreNumbered, ClosesOld
  <2>3. \A p \in live', h \in Handler : p \in live /\ (p \in parting[h] => p \in parting'[h])
    BY <1>a, <2>1
  <2> QED BY <1>0, <2>1, <2>2, <2>3 DEF LiveClientsAreOwned
<1>3. ASSUME NEW base, InterruptAttempts(base), UNCHANGED <<started, store>>
      PROVE  AttemptsAreNumbered' /\ LiveClientsAreOwned'
  <2>1. \A s \in Server, n \in Attempt :
           \/ att'[s][n] = att[s][n]
           \/ /\ att[s][n].pc \in Awaiting /\ att'[s][n].pc = "interrupted"
              /\ att'[s][n].old = att[s][n].old
    BY <1>0, <1>3, InterruptEnds DEF OneRegisteredAttempt, Active
  <2>2. AttemptsAreNumbered'
    BY <1>0, <1>3, <2>1 DEF AttemptsAreNumbered, Awaiting
  <2>3. \A p \in live' : p \in live /\ p[1] \in Server /\ p[2] \in Attempt
    BY <1>0, <1>3 DEF TypeOK
  <2>4. \A p \in live' : ClosesOld(p) => ClosesOld(p)'
    BY <2>1, <2>3 DEF ClosesOld
  <2> QED BY <1>0, <1>3, <2>1, <2>2, <2>3, <2>4 DEF LiveClientsAreOwned
<1>4. CASE InitializeEnd \/ CloseEnd
  BY <1>3, <1>4 DEF InitializeEnd, CloseEnd
<1> QED BY <1>1, <1>2, <1>4, <1>5 DEF ControlStep

\* The custody of clients is inductive.
LEMMA NextCustody == CustodyInv /\ [Next]_vars => CustodyInv'
<1> SUFFICES ASSUME CustodyInv, [Next]_vars PROVE CustodyInv'
  OBVIOUS
<1>1. ManagerInv'
  BY NextInv DEF CustodyInv
<1>2. CASE Next
  <2>1. AttemptsAreNumbered' /\ LiveClientsAreOwned'
    BY <1>2, CallCustody, HandlerCustody, AttemptStepCustody, SignalCustody, ControlCustody DEF Next
  <2> QED BY <1>1, <2>1 DEF CustodyInv
<1>3. CASE UNCHANGED vars
  BY <1>1, <1>3 DEF CustodyInv, AttemptsAreNumbered, LiveClientsAreOwned, ClosesOld, vars, store, flights
<1> QED BY <1>2, <1>3

LEMMA InitCustody == Init => CustodyInv
<1> SUFFICES ASSUME Init PROVE CustodyInv
  OBVIOUS
<1>1. AttemptsAreNumbered /\ LiveClientsAreOwned
  BY DEF Init, AttemptsAreNumbered, LiveClientsAreOwned, Unused
<1> QED BY <1>1, InitInv DEF CustodyInv

\* Custody holds in every reachable state.
THEOREM Custody == Spec => []CustodyInv
  BY InitCustody, NextCustody, PTL DEF Spec

\* Every connected client is stored, or in the hands of the attempt that lists its
\* tools, or of the attempt or handler that took it out and closes it after its
\* subscriptions; what is left open was interrupted there, ran into a defect, or was
\* taken out by an older client's refresh (connectFreshEffect, disconnectClientEffect,
\* closeClientsEffect, handleToolListChangedEffect).
THEOREM ClientsAreOwned == Spec => []LiveClientsAreOwned
<1>1. CustodyInv => LiveClientsAreOwned
  BY DEF CustodyInv
<1> QED BY <1>1, Custody, PTL
-----------------------------------------------------------------------------
(***************************************************************************)
(* What the liveness of connects rests on: attempts advance, and a         *)
(* connectAll waits only for attempts that run.                            *)
(***************************************************************************)

\* An attempt that waits has steps left, one that is over has none.
LEMMA StepsLeftBounds ==
  ASSUME NEW r \in AttemptRecord
  PROVE  /\ StepsLeft(r) \in 0..10
         /\ r.pc \in Awaiting => StepsLeft(r) > 0
         /\ r.pc \in Ended => StepsLeft(r) = 0
  BY DEF AttemptRecord, StepsLeft, Awaiting, Ended

LEMMA AttemptStepAdvances ==
  ASSUME TypeOK, NEW s \in Server, NEW n \in Attempt, AttemptStep(s, n)
  PROVE  StepsLeft(att'[s][n]) < StepsLeft(att[s][n])
<1> USE DEF StepsLeft
<1>0. att[s][n] \in AttemptRecord /\ att'[s][n] \in AttemptRecord
  BY AttemptType, AttemptStepType DEF TypeOK
<1>a. att[s][n].pc \in Awaiting
  BY AttemptStepMoves
<1>b. ASSUME NEW pc \in {"ended", "died"}, NEW out \in Outcome,
             NEW base \in {statuses, [statuses EXCEPT ![s] = "disabled"]}, End(s, n, pc, out, base)
      PROVE  StepsLeft(att'[s][n]) < StepsLeft(att[s][n])
  <2>1. pc \in Ended /\ base \in [Server -> Status]
    BY DEF Ended, Status, TypeOK
  <2>2. att'[s][n].pc \in Ended
    BY <1>b, <2>1, EndMoves
  <2>3. StepsLeft(att'[s][n]) = 0 /\ StepsLeft(att[s][n]) > 0
    BY <1>0, <1>a, <2>2, StepsLeftBounds
  <2> QED BY <2>3
<1>c. ASSUME NEW pc, NEW verdict, Goto(s, n, pc, verdict)
      PROVE  att'[s][n].pc = pc /\ att'[s][n].way = att[s][n].way
  BY <1>c, GotoMoves
<1>d. att[s][n].way \in {1, 2} /\ {"ok", "error", "aborted", "broken"} \subseteq Outcome
  BY <1>0 DEF AttemptRecord, Outcome
<1>e. CASE Unsubscribed(s, n)
  <2>1. att[s][n].pc = "unsubscribing"
    BY <1>e DEF Unsubscribed
  <2>2. CASE Opens(s, n)
    BY <2>1, <2>2, <1>b, <1>c, <1>d DEF Opens
  <2>3. CASE att' = [att EXCEPT ![s][n] = [@ EXCEPT !.pc = "closeOld", !.old = 0]]
    <3>1. att'[s][n].pc = "closeOld"
      BY <2>3, UnsubscribedMoves
    <3> QED BY <2>1, <3>1
  <2> QED BY <1>e, <2>2, <2>3 DEF Unsubscribed
<1>1. CASE OldClosed(s, n)
  BY <1>1, <1>b, <1>c, <1>d DEF OldClosed, Opens
<1>2. CASE Connected(s, n)
  BY <1>2, <1>c, <1>d DEF Connected, Drop
<1>3. CASE \E verdict \in Failure : ConnectFails(s, n, verdict)
  BY <1>3, <1>c, <1>d DEF ConnectFails
<1>4. CASE TransportClosed(s, n)
  <2>0. att[s][n].pc = "failing"
    BY <1>4 DEF TransportClosed
  <2>1. CASE \/ End(s, n, "died", "broken", statuses) \/ End(s, n, "ended", "ok", statuses)
             \/ End(s, n, "ended", "ok", [statuses EXCEPT ![s] = "disabled"])
    BY <2>1, <1>b, <1>d
  <2>2. CASE /\ Retries(s, n)
             /\ att' = [att EXCEPT ![s][n] = [@ EXCEPT !.pc = "connecting", !.way = 2,
                                                      !.verdict = "none"]]
    <3> DEFINE retry == [att[s][n] EXCEPT !.pc = "connecting", !.way = 2, !.verdict = "none"]
    <3>1. retry.pc = "connecting" /\ retry.way = 2
      BY <1>0 DEF AttemptRecord
    <3>2. att' = [att EXCEPT ![s] = [att[s] EXCEPT ![n] = retry]]
      BY <2>2, AttemptType
    <3>3. att'[s][n] = retry
      <4> HIDE DEF retry
      <4> QED BY <3>2, AttemptType
    <3> HIDE DEF retry
    <3> QED BY <2>0, <2>2, <3>1, <3>3 DEF Retries
  <2>3. CASE Goto(s, n, "notifying", "none")
    BY <2>0, <2>3, <1>c, <1>d
  <2> QED BY <1>4, <2>1, <2>2, <2>3 DEF TransportClosed
<1>5. CASE \E L \in SUBSET Tool : Listed(s, n, L)
  BY <1>5, <1>c DEF Listed, Drop
<1>6. CASE ListFails(s, n)
  BY <1>6, <1>c DEF ListFails, Drop
<1>7. CASE ListDies(s, n)
  BY <1>7, <1>b, <1>d DEF ListDies
<1>8. CASE Dropped(s, n)
  <2>1. CASE \/ \E out \in Outcome : End(s, n, "ended", out, statuses)
             \/ End(s, n, "ended", "ok", [statuses EXCEPT ![s] = "disabled"])
    BY <2>1, <1>b, <1>d
  <2>2. CASE att[s][n].pc = "dropping" /\ Goto(s, n, "notifying", "none")
    BY <2>2, <1>c
  <2> QED BY <1>8, <1>d, <2>1, <2>2 DEF Dropped
<1>9. CASE Notified(s, n)
  BY <1>9, <1>b, <1>d DEF Notified
<1> QED BY <1>e, <1>1, <1>2, <1>3, <1>4, <1>5, <1>6, <1>7, <1>8, <1>9 DEF AttemptStep

\* Whoever changes an attempt, its own step, a signal, an interrupt or the call that
\* forks it, brings it nearer to its end.
LEMMA StepAdvances ==
  ASSUME CustodyInv, [Next]_vars, NEW s \in Server, NEW n \in Attempt, att'[s][n] # att[s][n]
  PROVE  StepsLeft(att'[s][n]) < StepsLeft(att[s][n])
<1>0. TypeOK /\ OneRegisteredAttempt /\ AttemptsAreNumbered /\ TypeOK'
  BY NextType DEF CustodyInv, ManagerInv
<1>a. att[s][n] \in AttemptRecord /\ att'[s][n] \in AttemptRecord
  BY <1>0, AttemptType DEF TypeOK
<1>1. CASE CallStep
  <2>1. PICK F : Forked(F)
    BY <1>0, <1>1, CallForks
  <2>2. s \in F /\ n = started'[s]
    BY <2>1 DEF Forked
  <2>3. att[s][n].pc = "unused"
    BY <1>0, <2>1, <2>2 DEF Forked, AttemptsAreNumbered, TypeOK
  <2>4. StepsLeft(att[s][n]) = 10 /\ StepsLeft(att'[s][n]) \in 0..9
    BY <2>1, <2>2, <2>3 DEF Forked, StepsLeft
  <2> QED BY <2>4
<1>2. CASE \E r \in Server : ConnectDisabled(r) \/ DisconnectStep(r) \/ ConnectionLost(r) \/ RefreshStep(r)
  BY <1>0, <1>2, HandlerMoves
<1>3. ASSUME NEW r \in Server, NEW m \in Attempt, AttemptStep(r, m)
      PROVE  StepsLeft(att'[s][n]) < StepsLeft(att[s][n])
  <2>1. r = s /\ m = n
    BY <1>0, <1>3, AttemptStepMoves
  <2> QED BY <1>0, <1>3, <2>1, AttemptStepAdvances
<1>4. CASE \E g \in Signal : Abort(g)
  <2>1. att'[s][n].pc = "dropping" /\ att[s][n].pc \in {"connecting", "listing"}
    BY <1>0, <1>4, AbortMoves
  <2> QED BY <2>1 DEF StepsLeft
<1>5. CASE \E c \in Sweep : SweepAborted(c)
  BY <1>5 DEF SweepAborted
<1>6. CASE ControlStep
  <2>1. CASE \E base : InterruptAttempts(base)
    <3>1. inflight[s] = n /\ att'[s][n].pc = "interrupted"
      BY <1>0, <2>1, InterruptEnds
    <3>2. att[s][n].pc \in Awaiting /\ "interrupted" \in Ended
      BY <1>0, <3>1 DEF OneRegisteredAttempt, Active, Ended
    <3>3. StepsLeft(att'[s][n]) = 0 /\ StepsLeft(att[s][n]) > 0
      BY <1>a, <3>1, <3>2, StepsLeftBounds
    <3> QED BY <3>3
  <2>2. CASE UNCHANGED att
    BY <2>2
  <2> QED BY <1>6, <2>1, <2>2 DEF ControlStep, InitializeBegin, CloseBegin, ClearClients,
        SubscriptionsClosed, InitializeEnd, CloseEnd
<1>7. CASE UNCHANGED vars
  BY <1>7 DEF vars
<1> QED BY <1>1, <1>2, <1>3, <1>4, <1>5, <1>6, <1>7 DEF Next

\* An attempt never returns to an await it has left, whatever else happens, and ends
\* after at most nine steps: fairness is all that AttemptsEnd adds.
THEOREM AttemptsGoOn == Spec => AttemptsAdvance
<1>1. CustodyInv /\ [Next]_vars =>
         [\A s \in Server, n \in Attempt :
             att'[s][n] # att[s][n] => StepsLeft(att'[s][n]) < StepsLeft(att[s][n])]_vars
  BY StepAdvances
<1> QED BY <1>1, Custody, PTL DEF Spec, AttemptsAdvance
\* What a call waits for after attempts ended, it waited for before, and those did
\* not end; and a call without a signal that loses one to an interrupt is over.
LEMMA ResolveAwaits ==
  ASSUME sweep \in [Sweep -> SweepRecord], NEW over, \A s \in Server : <<s, 0>> \notin over,
         NEW out, NEW base, Resolve(over, out, base),
         NEW c \in Sweep, sweep'[c] # Idle, sweep'[c].sig = NoSignal
  PROVE  /\ sweep[c] # Idle /\ sweep[c].sig = NoSignal
         /\ \E s \in Server : sweep'[c].waits[s] # 0
         /\ \A s \in Server : sweep'[c].waits[s] # 0 =>
               /\ sweep'[c].waits[s] = sweep[c].waits[s]
               /\ <<s, sweep[c].waits[s]>> \notin over
         /\ out = "broken" => \A s \in Server : <<s, sweep[c].waits[s]>> \notin over
<1>1. PICK parked \in SUBSET {d \in Sweep : out # "ok" /\ sweep[d].sig # NoSignal} :
        LET after == [d \in Sweep |-> IF d \in parked THEN sweep[d]
                                      ELSE Answered(sweep[d], over, out)]
        IN  \E report \in [Sweep -> SUBSET Server] :
              /\ \A d \in Sweep : report[d] \in Reports(after[d])
              /\ sweep' = [d \in Sweep |-> IF Answering(after[d]) THEN Idle ELSE after[d]]
              /\ statuses' = [s \in Server |->
                                IF \E d \in Sweep : s \in report[d] THEN "failed" ELSE base[s]]
  BY DEF Resolve
<1> DEFINE w == sweep[c]
           after == IF c \in parked THEN w ELSE Answered(w, over, out)
           hit == {s \in Server : <<s, w.waits[s]>> \in over}
           waits == [s \in Server |-> IF s \in hit THEN 0 ELSE w.waits[s]]
<1>2. sweep'[c] = after /\ ~Answering(after)
  BY <1>1
<1>3. w \in SweepRecord
  OBVIOUS
<1>4. after \in SweepRecord
  BY <1>3, AnsweredType
<1>5. c \notin parked
  BY <1>1, <1>2
<1>6. \A s \in Server : Idle.waits[s] = 0
  BY DEF Idle
<1>7. \E s \in Server : after.waits[s] # 0
  <2> HIDE DEF after
  <2>1. after # Idle /\ after.waits # Idle.waits
    BY <1>2 DEF Answering
  <2>2. after.waits \in [Server -> 0..MaxAttempts] /\ Idle.waits = [s \in Server |-> 0]
    BY <1>4 DEF SweepRecord, Idle
  <2> QED BY <2>1, <2>2
<1>8. CASE hit = {}
  <2>1. after = w
    BY <1>5, <1>8 DEF Answered
  <2> QED BY <1>2, <1>7, <1>8, <2>1
<1>9. CASE hit # {}
  <2>1. out # "broken"
    BY <1>2, <1>5, <1>9 DEF Answered
  <2>2. after.waits = waits /\ after.sig = w.sig
    <3>1. after = [w EXCEPT !.waits = waits,
                           !.failed = IF out = "error" THEN @ \cup hit ELSE @,
                           !.rejected = @ \/ out = "aborted"]
      BY <1>5, <1>9, <2>1 DEF Answered
    <3> HIDE DEF after, waits, hit, w
    <3> QED BY <1>3, <3>1 DEF SweepRecord
  <2>3. w # Idle
    BY <1>6, <1>9
  <2>4. \A s \in Server : waits[s] # 0 => waits[s] = w.waits[s] /\ <<s, w.waits[s]>> \notin over
    OBVIOUS
  <2> HIDE DEF waits, hit
  <2> QED BY <1>2, <1>7, <2>1, <2>2, <2>3, <2>4
<1> QED BY <1>8, <1>9

\* A step of an attempt either ends it, or leaves it waiting and the calls alone.
LEMMA AttemptStepAnswers ==
  ASSUME TypeOK, NEW s \in Server, NEW n \in Attempt, AttemptStep(s, n)
  PROVE  \/ UNCHANGED sweep /\ att'[s][n].pc \in Awaiting
         \/ \E out, base : Resolve({<<s, n>>}, out, base)
<1>a. ASSUME NEW pc, NEW out, NEW base, End(s, n, pc, out, base)
      PROVE  \E o, b : Resolve({<<s, n>>}, o, b)
  BY <1>a DEF End
<1>b. ASSUME NEW pc \in Awaiting, NEW verdict, Goto(s, n, pc, verdict)
      PROVE  UNCHANGED sweep /\ att'[s][n].pc \in Awaiting
  BY <1>b, GotoMoves DEF Goto
<1>c. {"unsubscribing", "closeOld", "connecting", "failing", "listing", "dropping", "notifying"} = Awaiting
  BY DEF Awaiting
<1>d. CASE Unsubscribed(s, n)
  <2>1. CASE Opens(s, n)
    BY <2>1, <1>a, <1>b, <1>c DEF Opens
  <2>2. CASE /\ att' = [att EXCEPT ![s][n] = [@ EXCEPT !.pc = "closeOld", !.old = 0]]
             /\ UNCHANGED sweep
    <3>1. att'[s][n].pc = "closeOld"
      BY <2>2, UnsubscribedMoves
    <3> QED BY <2>2, <3>1, <1>c
  <2> QED BY <1>d, <2>1, <2>2 DEF Unsubscribed
<1>1. CASE OldClosed(s, n)
  BY <1>1, <1>a, <1>b, <1>c DEF OldClosed, Opens
<1>2. CASE Connected(s, n)
  BY <1>2, <1>b, <1>c DEF Connected, Drop
<1>3. CASE \E verdict \in Failure : ConnectFails(s, n, verdict)
  BY <1>3, <1>b, <1>c DEF ConnectFails
<1>4. CASE TransportClosed(s, n)
  <2>1. CASE /\ att' = [att EXCEPT ![s][n] = [@ EXCEPT !.pc = "connecting", !.way = 2,
                                                      !.verdict = "none"]]
             /\ UNCHANGED sweep
    <3> DEFINE retry == [att[s][n] EXCEPT !.pc = "connecting", !.way = 2, !.verdict = "none"]
    <3>1. att[s][n] \in AttemptRecord
      BY AttemptType
    <3>2. retry.pc = "connecting"
      BY <3>1 DEF AttemptRecord
    <3>3. att' = [att EXCEPT ![s] = [att[s] EXCEPT ![n] = retry]]
      BY <2>1, AttemptType
    <3>4. att'[s][n] = retry
      <4> HIDE DEF retry
      <4> QED BY <3>3, AttemptType
    <3> HIDE DEF retry
    <3> QED BY <2>1, <3>2, <3>4, <1>c
  <2> QED BY <1>4, <1>a, <1>b, <1>c, <2>1 DEF TransportClosed
<1>5. CASE \E L \in SUBSET Tool : Listed(s, n, L)
  BY <1>5, <1>b, <1>c DEF Listed, Drop
<1>6. CASE ListFails(s, n)
  BY <1>6, <1>b, <1>c DEF ListFails, Drop
<1>7. CASE ListDies(s, n)
  BY <1>7, <1>a DEF ListDies
<1>8. CASE Dropped(s, n)
  BY <1>8, <1>a, <1>b, <1>c DEF Dropped
<1>9. CASE Notified(s, n)
  BY <1>9, <1>a DEF Notified
<1> QED BY <1>d, <1>1, <1>2, <1>3, <1>4, <1>5, <1>6, <1>7, <1>8, <1>9 DEF AttemptStep

\* A call leaves every server it is to connect with a registered attempt.
LEMMA LaunchRegisters ==
  ASSUME TypeOK, NEW T \in SUBSET Server, NEW sig, Launch(T, sig)
  PROVE  \A s \in T : inflight'[s] # 0
<1> DEFINE fresh == {s \in T : inflight[s] = 0}
<1>1. /\ started' = [s \in Server |-> IF s \in fresh THEN started[s] + 1 ELSE started[s]]
      /\ inflight' = [s \in Server |-> IF s \in fresh THEN started'[s] ELSE inflight[s]]
  <2>1. PICK W \in SUBSET (fresh \cap Modern) : Fork(fresh, W, sig)
    BY DEF Launch
  <2> HIDE DEF fresh
  <2> QED BY <2>1 DEF Fork
<1>2. \A s \in Server : started[s] \in 0..MaxAttempts
  BY DEF TypeOK
<1>3. \A s \in fresh : inflight'[s] = started[s] + 1
  <2> HIDE DEF fresh
  <2>1. fresh \subseteq Server
    BY DEF fresh
  <2> QED BY <1>1, <2>1
<1>4. \A s \in T \ fresh : inflight'[s] = inflight[s] /\ inflight[s] # 0
  <2>1. \A s \in T \ fresh : inflight[s] # 0
    OBVIOUS
  <2> HIDE DEF fresh
  <2> QED BY <1>1, <2>1
<1>5. \A s \in fresh : started[s] + 1 # 0
  <2> SUFFICES ASSUME NEW s \in Server PROVE started[s] + 1 # 0
    OBVIOUS
  <2>1. started[s] \in 0..MaxAttempts
    BY <1>2
  <2> QED BY <2>1, ManagerAssumption DEF ManagerAssumption
<1> HIDE DEF fresh
<1> QED BY <1>3, <1>4, <1>5

\* An attempt that runs goes on running unless its step or an interrupt ends it.
LEMMA CallKeepsAttempts ==
  ASSUME ManagerInv, CallStep, NEW s \in Server, NEW n \in Attempt, Active(s, n)
  PROVE  att'[s][n].pc \in Awaiting
<1>0. TypeOK /\ inflight[s] = n /\ n # 0
  BY DEF ManagerInv, OneRegisteredAttempt, Attempt
<1>1. PICK F : Forked(F)
  BY <1>0, CallForks
<1>2. s \notin F /\ att'[s][n] = att[s][n]
  BY <1>0, <1>1 DEF Forked
<1> QED BY <1>2 DEF Active

LEMMA CallAwaits ==
  ASSUME ManagerInv, SweepsAwaitTheLiving, CallStep
  PROVE  SweepsAwaitTheLiving'
<1>0. TypeOK /\ TypeOK' /\ OneRegisteredAttempt'
  BY CallInv DEF ManagerInv
<1>a. \A d \in Sweep, s \in Server : sweep[d].waits[s] # 0 => sweep[d].waits[s] \in Attempt
  BY <1>0 DEF TypeOK, SweepRecord, Attempt
<1>b. ASSUME NEW d \in Sweep, sweep'[d] = sweep[d], sweep[d] # Idle, sweep[d].sig = NoSignal
      PROVE  /\ \E s \in Server : sweep'[d].waits[s] # 0
             /\ \A s \in Server : sweep'[d].waits[s] # 0 => att'[s][sweep'[d].waits[s]].pc \in Awaiting
  <2>1. /\ \E s \in Server : sweep[d].waits[s] # 0
        /\ \A s \in Server : sweep[d].waits[s] # 0 => Active(s, sweep[d].waits[s])
    BY <1>b DEF SweepsAwaitTheLiving
  <2>2. \A s \in Server : sweep[d].waits[s] # 0 => att'[s][sweep[d].waits[s]].pc \in Awaiting
    BY <1>a, <2>1, CallKeepsAttempts DEF Active
  <2> QED BY <1>b, <2>1, <2>2 DEF Active
<1>1. PICK intent \in Intent, sig \in Signal \cup {NoSignal} :
         \/ \E s \in Server : Connect(s, intent, sig)
         \/ \E c \in Sweep : ConnectAll(c, intent, sig)
  BY DEF CallStep
<1>2. CASE \E s \in Server : Connect(s, intent, sig)
  BY <1>2, <1>b DEF Connect, SweepsAwaitTheLiving, Active
<1>3. ASSUME NEW c \in Sweep, ConnectAll(c, intent, sig) PROVE SweepsAwaitTheLiving'
  <2> DEFINE T == {s \in Configured : CanConnect(s, intent)}
             w == [Idle EXCEPT !.waits = [s \in Server |-> IF s \in T THEN inflight'[s] ELSE 0],
                               !.sig = sig]
  <2>0. sweep \in [Sweep -> SweepRecord]
    BY <1>0 DEF TypeOK
  <2>1. CASE sig \in aborted
    <3>1. sweep' = sweep
      BY <1>3, <2>1 DEF ConnectAll
    <3> QED BY <1>b, <3>1 DEF SweepsAwaitTheLiving, Active
  <2>2. CASE sig \notin aborted
    <3>1. T # {} /\ T \subseteq Server /\ Launch(T, sig)
      BY <1>3, <2>2 DEF ConnectAll, Proceeding, Configured
    <3>2. \A s \in T : inflight'[s] # 0
      BY <1>0, <3>1, LaunchRegisters
    <3>3. \A s \in T : inflight'[s] \in Attempt
      BY <1>0, <3>1, <3>2 DEF TypeOK, Attempt
    <3>4. \A s \in T : att'[s][inflight'[s]].pc \in Awaiting
      BY <1>0, <3>1, <3>3 DEF OneRegisteredAttempt, Active
    <3>5. w.waits = [s \in Server |-> IF s \in T THEN inflight'[s] ELSE 0]
      BY DEF Idle
    <3>6. /\ \E s \in Server : w.waits[s] # 0
          /\ \A s \in Server : w.waits[s] # 0 => s \in T /\ w.waits[s] = inflight'[s]
      <4> HIDE DEF w, T
      <4> QED BY <3>1, <3>2, <3>5
    <3>7. /\ sweep'[c] = w
          /\ \A d \in Sweep : d # c => sweep'[d] = sweep[d]
      <4>1. sweep' = [sweep EXCEPT ![c] = w]
        BY <1>3, <2>2 DEF ConnectAll
      <4> HIDE DEF w
      <4> QED BY <2>0, <4>1
    <3>8. \A s \in Server : sweep'[c].waits[s] # 0 => att'[s][sweep'[c].waits[s]].pc \in Awaiting
      <4> HIDE DEF w, T
      <4> QED BY <3>4, <3>6, <3>7 DEF Active
    <3>9. \E s \in Server : sweep'[c].waits[s] # 0
      <4> HIDE DEF w, T
      <4> QED BY <3>6, <3>7
    <3> HIDE DEF w, T
    <3> QED BY <1>b, <3>7, <3>8, <3>9 DEF SweepsAwaitTheLiving, Active
  <2> QED BY <2>1, <2>2
<1> QED BY <1>1, <1>2, <1>3

\* The other steps: an attempt that ends is taken off every list, and an interrupt
\* ends the calls that wait for the attempts it hits.
LEMMA NextAwaits ==
  ASSUME ManagerInv, SweepsAwaitTheLiving, [Next]_vars
  PROVE  SweepsAwaitTheLiving'
<1>0. TypeOK /\ OneRegisteredAttempt /\ sweep \in [Sweep -> SweepRecord]
  BY DEF ManagerInv, TypeOK
<1>a. \A d \in Sweep, s \in Server : sweep[d].waits[s] # 0 => sweep[d].waits[s] \in Attempt
  BY <1>0 DEF SweepRecord, Attempt
<1>b. ASSUME UNCHANGED sweep,
             \A s \in Server, n \in Attempt : Active(s, n) => att'[s][n].pc \in Awaiting
      PROVE  SweepsAwaitTheLiving'
  <2> SUFFICES ASSUME NEW c \in Sweep, sweep'[c] # Idle, sweep'[c].sig = NoSignal
               PROVE  /\ \E s \in Server : sweep'[c].waits[s] # 0
                      /\ \A s \in Server : sweep'[c].waits[s] # 0 => att'[s][sweep'[c].waits[s]].pc \in Awaiting
    BY DEF SweepsAwaitTheLiving, Active
  <2>1. /\ \E s \in Server : sweep[c].waits[s] # 0
        /\ \A s \in Server : sweep[c].waits[s] # 0 => Active(s, sweep[c].waits[s])
    BY <1>b DEF SweepsAwaitTheLiving
  <2> QED BY <1>a, <1>b, <2>1
<1>1. CASE CallStep
  BY <1>1, CallAwaits
<1>2. CASE \E s \in Server : ConnectDisabled(s) \/ DisconnectStep(s) \/ ConnectionLost(s) \/ RefreshStep(s)
  <2>1. UNCHANGED <<sweep, att>>
    BY <1>2 DEF ConnectDisabled, DisconnectStep, Disconnect, Disconnected, ConnectionLost,
                RefreshStep, ToolListChanged, Refreshed, RefreshFails
  <2> QED BY <1>b, <2>1 DEF Active
<1>3. ASSUME NEW r \in Server, NEW m \in Attempt, AttemptStep(r, m) PROVE SweepsAwaitTheLiving'
  <2>0. \A s \in Server, n \in Attempt : <<s, n>> # <<r, m>> => att'[s][n] = att[s][n]
    BY <1>0, <1>3, AttemptStepMoves
  <2>1. CASE UNCHANGED sweep /\ att'[r][m].pc \in Awaiting
    BY <1>b, <2>0, <2>1 DEF Active
  <2>2. CASE \E out, base : Resolve({<<r, m>>}, out, base)
    <3>1. PICK out, base : Resolve({<<r, m>>}, out, base)
      BY <2>2
    <3>2. \A s \in Server : <<s, 0>> \notin {<<r, m>>}
      BY DEF Attempt
    <3> SUFFICES ASSUME NEW c \in Sweep, sweep'[c] # Idle, sweep'[c].sig = NoSignal
                 PROVE  /\ \E s \in Server : sweep'[c].waits[s] # 0
                        /\ \A s \in Server : sweep'[c].waits[s] # 0 => att'[s][sweep'[c].waits[s]].pc \in Awaiting
      BY DEF SweepsAwaitTheLiving, Active
    <3>3. /\ sweep[c] # Idle /\ sweep[c].sig = NoSignal
          /\ \E s \in Server : sweep'[c].waits[s] # 0
          /\ \A s \in Server : sweep'[c].waits[s] # 0 =>
                sweep'[c].waits[s] = sweep[c].waits[s] /\ <<s, sweep[c].waits[s]>> \notin {<<r, m>>}
      BY <1>0, <3>1, <3>2, ResolveAwaits
    <3>4. \A s \in Server : sweep[c].waits[s] # 0 => Active(s, sweep[c].waits[s])
      BY <3>3 DEF SweepsAwaitTheLiving
    <3> QED BY <1>a, <2>0, <3>3, <3>4 DEF Active
  <2> QED BY <1>0, <1>3, <2>1, <2>2, AttemptStepAnswers
<1>4. CASE \E g \in Signal : Abort(g)
  <2>1. /\ UNCHANGED sweep
        /\ \A s \in Server, n \in Attempt : att'[s][n] = att[s][n] \/ att'[s][n].pc = "dropping"
    BY <1>0, <1>4, AbortMoves
  <2> QED BY <1>b, <2>1 DEF Active, Awaiting
<1>5. ASSUME NEW c \in Sweep, SweepAborted(c) PROVE SweepsAwaitTheLiving'
  <2>1. sweep' = [sweep EXCEPT ![c] = Idle] /\ UNCHANGED att
    BY <1>5 DEF SweepAborted
  <2>2. sweep'[c] = Idle /\ \A d \in Sweep : d # c => sweep'[d] = sweep[d]
    BY <1>0, <2>1
  <2> QED BY <2>1, <2>2 DEF SweepsAwaitTheLiving, Active
<1>6. CASE ControlStep
  <2>1. ASSUME NEW base, InterruptAttempts(base) PROVE SweepsAwaitTheLiving'
    <3> DEFINE hit == {<<s, inflight[s]>> : s \in {r \in Server : inflight[r] # 0}}
    <3>1. Resolve(hit, "broken", base) /\ \A s \in Server : <<s, 0>> \notin hit
      BY <2>1 DEF InterruptAttempts
    <3> SUFFICES ASSUME NEW c \in Sweep, sweep'[c] # Idle, sweep'[c].sig = NoSignal PROVE FALSE
      BY DEF SweepsAwaitTheLiving
    <3>2. \A s \in Server, n \in Attempt : Active(s, n) => <<s, n>> \in hit
      BY <1>0 DEF OneRegisteredAttempt, Attempt
    <3> HIDE DEF hit
    <3>3. /\ sweep[c] # Idle /\ sweep[c].sig = NoSignal
          /\ \A s \in Server : <<s, sweep[c].waits[s]>> \notin hit
      BY <1>0, <3>1, ResolveAwaits
    <3>4. PICK s \in Server : sweep[c].waits[s] # 0 /\ Active(s, sweep[c].waits[s])
      BY <3>3 DEF SweepsAwaitTheLiving
    <3> QED BY <1>a, <3>2, <3>3, <3>4
  <2>2. CASE UNCHANGED <<sweep, att>>
    BY <1>b, <2>2 DEF Active
  <2> QED BY <1>6, <2>1, <2>2 DEF ControlStep, InitializeBegin, CloseBegin, ClearClients,
        SubscriptionsClosed, InitializeEnd, CloseEnd
<1>7. CASE UNCHANGED vars
  BY <1>b, <1>7 DEF vars, Active
<1> QED BY <1>1, <1>2, <1>3, <1>4, <1>5, <1>6, <1>7 DEF Next

\* A connectAll that has no signal waits for attempts that run, and for one at least:
\* fairness is all that SweepReturns adds.
THEOREM SweepsAreAnswered == Spec => []SweepsAwaitTheLiving
<1>1. Init => SweepsAwaitTheLiving
  BY DEF Init, SweepsAwaitTheLiving
<1>2. ManagerInv /\ SweepsAwaitTheLiving /\ [Next]_vars => SweepsAwaitTheLiving'
  BY NextAwaits
<1> QED BY <1>1, <1>2, Invariance, PTL DEF Spec
-----------------------------------------------------------------------------
(***************************************************************************)
(* The manager's map of clients implements ClientMap.                      *)
(***************************************************************************)

\* Requests are as the attempts are.
LEMMA AskOfAttempt ==
  ASSUME NEW s \in Server, NEW n \in Attempt
  PROVE  /\ Asks[s][n] = [state |-> Stage(att[s][n].pc), for |-> att[s][n].rev]
         /\ Asks[s][n].state = Stage(att[s][n].pc)
         /\ Asks'[s][n] = [state |-> Stage(att'[s][n].pc), for |-> att'[s][n].rev]
         /\ att'[s][n] = att[s][n] => Asks'[s][n] = Asks[s][n]
<1>1. /\ Asks[s][n] = [state |-> Stage(att[s][n].pc), for |-> att[s][n].rev]
      /\ Asks'[s][n] = [state |-> Stage(att'[s][n].pc), for |-> att'[s][n].rev]
  BY DEF Asks
<1> QED BY <1>1

\* A server without a registered attempt has no request pending.
LEMMA PendingIsRegistered ==
  ASSUME OneRegisteredAttempt, NEW s \in Server, inflight[s] = 0
  PROVE  ~Map!Pending(s)
<1>1. \A n \in Attempt : att[s][n].pc \notin Unstored
  BY DEF OneRegisteredAttempt, Active, Attempt, Unstored, Awaiting
<1>2. \A n \in Attempt : Stage(att[s][n].pc) # "pending"
  BY <1>1 DEF Stage
<1>3. \A n \in Attempt : Asks[s][n].state # "pending"
  BY <1>2, AskOfAttempt
<1> QED BY <1>3 DEF Map!Pending

\* A step that only takes hopes of a client away gives their requests up.
LEMMA GivesUp ==
  ASSUME UNCHANGED <<closed, revision, Clearing, manual, clients>>,
         \A s \in Server, n \in Attempt :
            /\ att'[s][n].rev = att[s][n].rev
            /\ \/ Stage(att'[s][n].pc) = Stage(att[s][n].pc)
               \/ Stage(att[s][n].pc) = "pending" /\ Stage(att'[s][n].pc) = "over"
  PROVE  Map!Next
<1> DEFINE P == {p \in Server \X Attempt : Stage(att[p[1]][p[2]].pc) = "pending"
                                        /\ Stage(att'[p[1]][p[2]].pc) = "over"}
           given == [s \in Server |-> [n \in Attempt |->
                        IF <<s, n>> \in P THEN [Asks[s][n] EXCEPT !.state = "over"] ELSE Asks[s][n]]]
<1>1. P \in SUBSET Map!Asked
  <2>1. \A p \in P : p \in Server \X Attempt /\ Asks[p[1]][p[2]].state = "pending"
    BY AskOfAttempt
  <2> QED BY <2>1 DEF Map!Asked
<1>2. ASSUME NEW s \in Server, NEW n \in Attempt PROVE Asks'[s][n] = given[s][n]
  <2>0. /\ Asks[s][n] = [state |-> Stage(att[s][n].pc), for |-> att[s][n].rev]
        /\ Asks'[s][n] = [state |-> Stage(att'[s][n].pc), for |-> att[s][n].rev]
    BY AskOfAttempt
  <2>1. CASE <<s, n>> \in P
    <3>1. Stage(att'[s][n].pc) = "over"
      BY <2>1
    <3>2. given[s][n] = [Asks[s][n] EXCEPT !.state = "over"]
      BY <2>1
    <3> HIDE DEF P, given
    <3> QED BY <2>0, <3>1, <3>2
  <2>2. CASE <<s, n>> \notin P
    <3>1. Stage(att'[s][n].pc) = Stage(att[s][n].pc)
      BY <2>2
    <3>2. given[s][n] = Asks[s][n]
      BY <2>2
    <3> HIDE DEF P, given
    <3> QED BY <2>0, <3>1, <3>2
  <2> QED BY <2>1, <2>2
<1>3. Asks' = given
  <2>1. Asks' = [s \in Server |-> [n \in Attempt |-> Asks'[s][n]]]
    BY DEF Asks
  <2>2. given = [s \in Server |-> [n \in Attempt |-> given[s][n]]]
    OBVIOUS
  <2> HIDE DEF given
  <2> QED BY <1>2, <2>1, <2>2
<1>4. Map!GiveUp(P)
  BY <1>3 DEF Map!GiveUp
<1> HIDE DEF P
<1> QED BY <1>1, <1>4 DEF Map!Next

LEMMA CallKeepsMap ==
  ASSUME CustodyInv, CallStep
  PROVE  Map!Next
<1>0. TypeOK /\ OneRegisteredAttempt /\ AttemptsAreNumbered
  BY DEF CustodyInv, ManagerInv
<1>1. PICK F : Forked(F) /\ manual' \subseteq manual
  <2>1. PICK T \in SUBSET Server, sig \in Signal \cup {NoSignal} :
           Launch(T, sig) /\ manual' \subseteq manual
    BY <1>0, CallMoves
  <2> QED BY <1>0, <2>1, LaunchForks
<1> DEFINE n == [s \in F |-> started'[s]]
           asked == [s \in Server |-> IF s \in F
                        THEN [Asks[s] EXCEPT ![n[s]] = [state |-> "pending", for |-> revision]]
                        ELSE Asks[s]]
<1>2. F \in SUBSET Server /\ n \in [F -> Attempt]
  BY <1>1 DEF Forked
<1>3. \A s \in F : ~Map!Pending(s)
  BY <1>0, <1>1, <1>2, PendingIsRegistered DEF Forked
<1>4. \A s \in F : Asks[s][n[s]].state = "new"
  <2>1. \A s \in F : att[s][started'[s]].pc = "unused"
    BY <1>0, <1>1 DEF Forked, AttemptsAreNumbered, TypeOK
  <2>2. \A s \in F : Stage(att[s][started'[s]].pc) = "new"
    BY <2>1 DEF Stage
  <2>3. \A s \in F : s \in Server /\ started'[s] \in Attempt
    BY <1>2
  <2> QED BY <2>2, <2>3, AskOfAttempt
<1>5. ASSUME NEW s \in Server, NEW m \in Attempt PROVE Asks'[s][m] = asked[s][m]
  <2>0. Asks[s] = [k \in Attempt |-> Asks[s][k]]
    BY DEF Asks
  <2>1. CASE s \in F /\ m = started'[s]
    <3>1. att'[s][m].pc \in Unstored /\ att'[s][m].rev = revision
      BY <1>1, <2>1 DEF Forked
    <3>2. Stage(att'[s][m].pc) = "pending"
      BY <3>1 DEF Stage, Unstored
    <3>3. Asks'[s][m] = [state |-> "pending", for |-> revision]
      BY <3>1, <3>2, AskOfAttempt
    <3> QED BY <2>0, <2>1, <3>3
  <2>2. CASE s \in F /\ m # started'[s]
    <3>1. att'[s][m] = att[s][m]
      BY <1>1, <2>2 DEF Forked
    <3> QED BY <2>0, <2>2, <3>1, AskOfAttempt
  <2>3. CASE s \notin F
    <3>1. att'[s][m] = att[s][m]
      BY <1>1, <2>3 DEF Forked
    <3> QED BY <2>3, <3>1, AskOfAttempt
  <2> QED BY <2>1, <2>2, <2>3
<1>6. Asks' = asked
  <2>1. Asks' = [s \in Server |-> [m \in Attempt |-> Asks'[s][m]]]
    BY DEF Asks
  <2>2. asked = [s \in Server |-> [m \in Attempt |-> asked[s][m]]]
    BY DEF Asks
  <2> HIDE DEF asked
  <2> QED BY <1>5, <2>1, <2>2
<1>7. /\ UNCHANGED <<closed, revision, Clearing>>
      /\ clients' = [s \in Server |-> IF s \in F THEN 0 ELSE clients[s]]
  BY <1>1 DEF Forked, control, Clearing
<1>8. Map!Request(F)
  <2> HIDE DEF n
  <2> QED BY <1>1, <1>2, <1>3, <1>4, <1>6, <1>7 DEF Map!Request
<1> QED BY <1>2, <1>8 DEF Map!Next

LEMMA HandlerKeepsMap ==
  ASSUME TypeOK, NEW s \in Server,
         ConnectDisabled(s) \/ DisconnectStep(s) \/ ConnectionLost(s) \/ RefreshStep(s)
  PROVE  Map!Next
<1> USE DEF flights, store
<1>0. UNCHANGED <<closed, revision, Clearing, Asks>> /\ UNCHANGED att
  BY HandlerMoves DEF control, Clearing, Asks
<1>a. ASSUME UNCHANGED <<manual, clients>> PROVE Map!Next
  BY <1>0, <1>a, GivesUp
<1>b. ASSUME clients' = [clients EXCEPT ![s] = 0], UNCHANGED manual PROVE Map!Next
  BY <1>0, <1>b DEF Map!Next, Map!Lose
<1>c. Detach({s}) => clients' = [clients EXCEPT ![s] = 0]
  BY DEF Detach, TypeOK
<1>1. CASE ConnectDisabled(s) \/ ToolListChanged(s) \/ \E n \in Attempt : RefreshFails(s, n)
  BY <1>1, <1>a DEF ConnectDisabled, ToolListChanged, RefreshFails
<1>2. CASE Disconnect(s)
  BY <1>0, <1>2, <1>c DEF Disconnect, Map!Next, Map!Forbid
<1>5. CASE \E n \in Attempt : Disconnected(s, n)
  BY <1>5, <1>a DEF Disconnected
<1>3. CASE ConnectionLost(s)
  BY <1>3, <1>b, <1>c DEF ConnectionLost
<1>4. CASE \E n \in Attempt, L \in SUBSET Tool : Refreshed(s, n, L)
  BY <1>4, <1>a, <1>b DEF Refreshed
<1> QED BY <1>1, <1>2, <1>3, <1>4, <1>5 DEF RefreshStep, DisconnectStep

LEMMA AttemptStepKeepsMap ==
  ASSUME ManagerInv, NEW s \in Server, NEW n \in Attempt, AttemptStep(s, n)
  PROVE  Map!Next
<1>0. TypeOK /\ NoClientBeforeStore
  BY DEF ManagerInv
<1>1. /\ UNCHANGED <<control, manual>>
      /\ att[s][n].pc \in Awaiting
      /\ \A r \in Server, m \in Attempt : <<r, m>> # <<s, n>> => att'[r][m] = att[r][m]
      /\ att'[s][n].rev = att[s][n].rev
      /\ att'[s][n].pc \in Unstored => att[s][n].pc \in Unstored
      /\ att'[s][n].pc \in Awaiting \/ att'[s][n].pc \in Ended
      /\ \/ clients' = clients
         \/ /\ clients' = [clients EXCEPT ![s] = n]
            /\ att[s][n].pc = "listing" /\ att'[s][n].pc = "notifying"
            /\ ~Stale(s, n) /\ s \notin manual
  BY <1>0, AttemptStepMoves
<1>2. UNCHANGED <<closed, revision, Clearing>>
  BY <1>1 DEF control, Clearing
<1>3. CASE clients' = clients
  <2>1. "unused" \notin Awaiting \cup Ended
    BY DEF Awaiting, Ended
  <2>2. \A r \in Server, m \in Attempt :
           /\ att'[r][m].rev = att[r][m].rev
           /\ \/ Stage(att'[r][m].pc) = Stage(att[r][m].pc)
              \/ Stage(att[r][m].pc) = "pending" /\ Stage(att'[r][m].pc) = "over"
    BY <1>1, <2>1 DEF Stage
  <2> QED BY <1>1, <1>2, <1>3, <2>2, GivesUp
<1>4. CASE /\ clients' = [clients EXCEPT ![s] = n]
           /\ att[s][n].pc = "listing" /\ att'[s][n].pc = "notifying"
           /\ ~Stale(s, n) /\ s \notin manual
  <2>1. ~closed /\ att[s][n].rev = revision /\ clients[s] = 0
    BY <1>0, <1>4 DEF Stale, IsCurrentRevision, NoClientBeforeStore, Unstored
  <2>2. Asks[s][n] = [state |-> "pending", for |-> revision]
    BY <1>4, <2>1, AskOfAttempt DEF Stage, Unstored
  <2> DEFINE over == [Asks EXCEPT ![s][n].state = "over"]
  <2>3. Asks'[s][n] = [state |-> "over", for |-> revision]
    BY <1>1, <1>4, <2>1, AskOfAttempt DEF Stage, Unstored
  <2>4. ASSUME NEW r \in Server, NEW m \in Attempt PROVE Asks'[r][m] = over[r][m]
    <3>1. CASE <<r, m>> = <<s, n>>
      <4>1. over[s][n] = [Asks[s][n] EXCEPT !.state = "over"]
        BY DEF Asks
      <4>2. over[s][n] = [state |-> "over", for |-> revision]
        BY <2>2, <4>1
      <4> QED BY <2>3, <3>1, <4>2
    <3>2. CASE <<r, m>> # <<s, n>>
      <4>1. over[r][m] = Asks[r][m]
        BY <3>2 DEF Asks
      <4>2. att'[r][m] = att[r][m]
        BY <1>1, <3>2
      <4>3. Asks'[r][m] = Asks[r][m]
        BY <4>2, AskOfAttempt
      <4> QED BY <4>1, <4>3
    <3> QED BY <3>1, <3>2
  <2>5. Asks' = over
    <3>1. Asks' = [r \in Server |-> [m \in Attempt |-> Asks'[r][m]]]
      BY DEF Asks
    <3>2. over = [r \in Server |-> [m \in Attempt |-> over[r][m]]]
      BY DEF Asks
    <3> HIDE DEF over
    <3> QED BY <2>4, <3>1, <3>2
  <2>6. Map!Keep(s, n)
    BY <1>1, <1>2, <1>4, <2>1, <2>2, <2>5 DEF Map!Keep
  <2> QED BY <2>6 DEF Map!Next
<1> QED BY <1>1, <1>3, <1>4

LEMMA SignalKeepsMap ==
  ASSUME TypeOK,
         \/ \E g \in Signal : Abort(g)
         \/ \E c \in Sweep : SweepAborted(c)
  PROVE  Map!Next
<1>1. UNCHANGED <<closed, revision, Clearing, manual, clients>>
  BY SignalMoves DEF control, Clearing
<1>2. ASSUME NEW s \in Server, NEW n \in Attempt
      PROVE  /\ att'[s][n].rev = att[s][n].rev
             /\ \/ Stage(att'[s][n].pc) = Stage(att[s][n].pc)
                \/ Stage(att[s][n].pc) = "pending" /\ Stage(att'[s][n].pc) = "over"
  <2>1. CASE \E g \in Signal : Abort(g)
    <3>1. \/ att'[s][n] = att[s][n]
          \/ /\ att'[s][n].pc = "dropping" /\ att'[s][n].rev = att[s][n].rev
             /\ att[s][n].pc \in {"connecting", "listing"}
      BY <2>1, AbortMoves
    <3> QED BY <3>1 DEF Stage, Unstored
  <2>2. CASE \E c \in Sweep : SweepAborted(c)
    BY <2>2 DEF SweepAborted
  <2> QED BY <2>1, <2>2
<1> QED BY <1>1, <1>2, GivesUp

LEMMA ControlKeepsMap ==
  ASSUME ManagerInv, ControlStep
  PROVE  Map!Next
<1>0. TypeOK /\ OneRegisteredAttempt /\ ctl \in [{"initialize", "close"} -> Phase]
  BY DEF ManagerInv, TypeOK
<1> USE DEF store, flights
<1>a. ASSUME UNCHANGED att PROVE UNCHANGED Asks
  BY <1>a DEF Asks
<1>1. CASE \E cfg \in Configs : InitializeBegin(cfg)
  <2>1. /\ closed' = FALSE /\ revision' = revision + 1 /\ UNCHANGED <<manual, clients, Asks>>
        /\ ctl' = [ctl EXCEPT !["initialize"] = "callbacks"]
    BY <1>1, <1>a DEF InitializeBegin
  <2>2. Clearing' = Clearing \cup {"initialize"}
    BY <1>0, <2>1 DEF Clearing
  <2>3. Map!Begin("initialize")
    BY <2>1, <2>2 DEF Map!Begin
  <2> QED BY <2>3 DEF Map!Next
<1>2. CASE CloseBegin
  <2>1. /\ closed' = TRUE /\ revision' = revision + 1 /\ UNCHANGED <<manual, clients, Asks>>
        /\ ctl' = [ctl EXCEPT !["close"] = "callbacks"]
    BY <1>2, <1>a DEF CloseBegin
  <2>2. Clearing' = Clearing \cup {"close"}
    BY <1>0, <2>1 DEF Clearing
  <2>3. Map!Begin("close")
    BY <2>1, <2>2 DEF Map!Begin
  <2> QED BY <2>3 DEF Map!Next
<1>3. ASSUME NEW op \in {"initialize", "close"}, ClearClients(op) PROVE Map!Next
  <2>1. /\ ctl[op] = "callbacks"
        /\ \E phase \in {"clients", "subscriptions"} : ctl' = [ctl EXCEPT ![op] = phase]
        /\ clients' = [s \in Server |-> 0]
        /\ UNCHANGED <<closed, revision, manual, Asks>>
    BY <1>3, <1>a DEF ClearClients, Detach
  <2>2. op \in Clearing /\ Clearing' = Clearing \ {op}
    BY <1>0, <2>1 DEF Clearing
  <2>3. Map!Clear(op)
    BY <2>1, <2>2 DEF Map!Clear
  <2> QED BY <2>3 DEF Map!Next
<1>4. ASSUME NEW op \in {"initialize", "close"}, ctl[op] = "clients", ctl' = [ctl EXCEPT ![op] = "idle"],
             NEW base, InterruptAttempts(base), UNCHANGED <<closed, revision, manual, clients>>
      PROVE  Map!Next
  <2>1. UNCHANGED Clearing
    BY <1>0, <1>4 DEF Clearing
  <2>2. ASSUME NEW s \in Server, NEW n \in Attempt
        PROVE  /\ att'[s][n].rev = att[s][n].rev
               /\ \/ Stage(att'[s][n].pc) = Stage(att[s][n].pc)
                  \/ Stage(att[s][n].pc) = "pending" /\ Stage(att'[s][n].pc) = "over"
    <3>1. CASE inflight[s] # n
      BY <1>0, <1>4, <3>1, InterruptEnds
    <3>2. CASE inflight[s] = n
      <4>1. att'[s][n].pc = "interrupted" /\ att'[s][n].rev = att[s][n].rev
        BY <1>0, <1>4, <3>2, InterruptEnds
      <4>2. att[s][n].pc \in Awaiting
        BY <1>0, <3>2 DEF OneRegisteredAttempt, Active
      <4> QED BY <4>1, <4>2 DEF Stage, Unstored, Awaiting
    <3> QED BY <3>1, <3>2
  <2> QED BY <1>4, <2>1, <2>2, GivesUp
<1>5. CASE InitializeEnd
  BY <1>4, <1>5 DEF InitializeEnd
<1>6. CASE CloseEnd
  BY <1>4, <1>6 DEF CloseEnd
<1>7. CASE \E op \in {"initialize", "close"} : SubscriptionsClosed(op)
  <2>1. UNCHANGED <<closed, revision, Clearing, manual, clients, att>>
    BY <1>0, <1>7 DEF SubscriptionsClosed, Clearing
  <2> QED BY <2>1, GivesUp
<1> QED BY <1>1, <1>2, <1>3, <1>5, <1>6, <1>7 DEF ControlStep

\* Every step of the manager is a step of its map of clients.
LEMMA StepKeepsMap ==
  ASSUME CustodyInv, [Next]_vars
  PROVE  [Map!Next]_<<~closed, revision, Clearing, manual, clients, Asks>>
<1>0. TypeOK /\ ManagerInv
  BY DEF CustodyInv, ManagerInv
<1>1. CASE Next
  BY <1>0, <1>1, CallKeepsMap, HandlerKeepsMap, AttemptStepKeepsMap, SignalKeepsMap,
     ControlKeepsMap DEF Next
<1>2. CASE UNCHANGED vars
  BY <1>2 DEF vars, control, store, Clearing, Asks
<1> QED BY <1>1, <1>2

\* The manager's map of clients implements ClientMap: each client is asked for once and
\* stored at most once, over none, for the revision it was asked for, while the manager
\* is open and its server wanted (manager.ts's clients).
THEOREM ManagerKeepsClientMap == Spec => KeepsClientMap
<1>1. Init => Map!Init
  <2> SUFFICES ASSUME Init PROVE Map!Init
    OBVIOUS
  <2>1. Asks = [s \in Server |-> [n \in Attempt |-> [state |-> "new", for |-> 0]]]
    BY DEF Init, Asks, Stage, Unused
  <2>2. Clearing = {}
    BY DEF Init, Clearing
  <2> QED BY <2>1, <2>2 DEF Init, Map!Init
<1> QED BY <1>1, StepKeepsMap, Custody, PTL DEF Spec, KeepsClientMap, Map!Spec
=============================================================================
