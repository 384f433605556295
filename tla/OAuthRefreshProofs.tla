--------------------------- MODULE OAuthRefreshProofs ---------------------------
(* Proofs about OAuthRefresh for every value of its constants. *)
EXTENDS OAuthRefresh, TLAPS

LEMMA StepFacts ==
  /\ {"idle", "acquiring", "reading", "kept", "refused", "saved", "authorize", "browser", "dead"}
        \subseteq Step \ {"holding", "rotated"}
  /\ {"holding", "rotated"} \subseteq Step
  BY DEF Step

LEMMA Constants ==
  /\ HomeOf \in [Provider -> Process]
  /\ ProviderOf \in [Flow -> Provider]
  /\ None \notin Provider /\ None \notin Nat /\ None \notin Token
  /\ 1 \in Token
  BY RefreshAssumption DEF RefreshAssumption, Token

-----------------------------------------------------------------------------
(* The state stays typed. *)

\* A flow that goes on leaves the others where they are.
LEMMA Going ==
  ASSUME TypeOK, NEW f \in Flow, NEW step \in Step,
         NEW t \in Token \cup {None}, NEW n \in Token \cup {None}, GoWith(f, step, t, n)
  PROVE  /\ pc' \in [Flow -> Step]
         /\ token' \in [Flow -> Token \cup {None}]
         /\ fresh' \in [Flow -> Token \cup {None}]
         /\ pc'[f] = step /\ token'[f] = t /\ fresh'[f] = n
         /\ \A h \in Flow \ {f} : pc'[h] = pc[h] /\ token'[h] = token[h] /\ fresh'[h] = fresh[h]
  BY DEF TypeOK, GoWith

LEMMA ReleaseType ==
  ASSUME TypeOK, NEW p \in Provider, NEW F, ReleaseLease(p, F)
  PROVE  /\ timer' \subseteq Provider
         /\ lease' \in {lease, None}
         /\ exposed \subseteq exposed'
         /\ exposed' \subseteq Token
         /\ lease' # lease =>
              lease = p /\ \A h \in Flow \ F :
                ProviderOf[h] = p /\ pc[h] \in {"holding", "rotated"} /\ token[h] # None
                  => token[h] \in exposed'
         /\ lease' # p
<1>1. {token[h] : h \in InFlight(p, F)} \subseteq Token
  BY DEF TypeOK, InFlight
<1>2. \A h \in Flow \ F :
        ProviderOf[h] = p /\ pc[h] \in {"holding", "rotated"} /\ token[h] # None
          => token[h] \in {token[g] : g \in InFlight(p, F)}
  BY DEF InFlight
<1>3. p # None
  BY Constants
<1> QED BY <1>1, <1>2, <1>3 DEF TypeOK, ReleaseLease

LEMMA LostType == TypeOK => \A f \in Flow : Lost(f) \subseteq Token
  BY DEF TypeOK, Lost

LEMMA InitType == Init => TypeOK
<1> SUFFICES ASSUME Init PROVE TypeOK
  OBVIOUS
<1>1. pc \in [Flow -> Step] /\ token \in [Flow -> Token \cup {None}] /\ fresh \in [Flow -> Token \cup {None}]
  BY StepFacts DEF Init
<1>2. stored \in Token \cup {None} /\ issued \in Token
  BY Constants DEF Init
<1>3. fence \in [Process -> Provider \cup {None}] /\ state \in [Provider -> {"none", "active", "inactive", "dead"}]
  BY DEF Init
<1> QED BY <1>1, <1>2, <1>3 DEF Init, TypeOK

\* A flow's step keeps the state typed.
LEMMA FlowType ==
  ASSUME TypeOK, HeldTokensAreLive, NEW f \in Flow, FlowStep(f)
  PROVE  TypeOK'
<1>a. ProviderOf[f] \in Provider
  BY Constants
<1>b. \A step \in Step : Goto(f, step) => /\ pc' \in [Flow -> Step]
                                          /\ token' \in [Flow -> Token \cup {None}]
                                          /\ fresh' \in [Flow -> Token \cup {None}]
  BY Going DEF Goto
<1>c. issued < MaxToken => issued + 1 \in Token
  BY RefreshAssumption DEF RefreshAssumption, TypeOK, Token
<1>d. Lost(f) \subseteq Token
  BY LostType
<1> USE StepFacts
<1>1. CASE Tokens(f) \/ GiveUp(f) \/ Unanswered(f)
  BY <1>1, <1>b DEF Tokens, GiveUp, Unanswered, TypeOK, server
<1>2. CASE Acquire(f)
  BY <1>2, <1>a, <1>b DEF Acquire, TypeOK, server
<1>3. CASE Reread(f)
  <2>1. CASE stored = None
    <3>1. ReleaseLease(ProviderOf[f], {f}) /\ Goto(f, "authorize")
      BY <1>3, <2>1 DEF Reread
    <3>2. timer' \subseteq Provider /\ lease' \in {lease, None} /\ exposed' \subseteq Token
      BY <1>a, <3>1, ReleaseType
    <3> QED BY <1>3, <1>b, <3>1, <3>2 DEF Reread, TypeOK, server
  <2>2. CASE stored # None
    <3>1. GoWith(f, "holding", stored, None) /\ stored \in Token
      BY <1>3, <2>2 DEF Reread, TypeOK
    <3>2. /\ pc' \in [Flow -> Step]
          /\ token' \in [Flow -> Token \cup {None}]
          /\ fresh' \in [Flow -> Token \cup {None}]
      BY <3>1, Going
    <3> QED BY <1>3, <2>2, <3>1, <3>2 DEF Reread, TypeOK, server
  <2> QED BY <2>1, <2>2
<1>4. CASE Present(f)
  <2>1. token[f] \in Token
    BY <1>4 DEF Present, TypeOK, HeldTokensAreLive
  <2>2. /\ pc' \in [Flow -> Step]
        /\ token' \in [Flow -> Token \cup {None}]
        /\ fresh' \in [Flow -> Token \cup {None}]
    <3>1. CASE GoWith(f, "rotated", token[f], issued + 1) /\ issued < MaxToken
      BY <3>1, <2>1, <1>c, Going
    <3>2. CASE \E step \in {"kept", "refused"} : Goto(f, step)
      BY <3>2, <1>b
    <3> QED BY <1>4, <3>1, <3>2 DEF Present
  <2>3. issued' \in Token /\ spent' \subseteq Token /\ reused' \subseteq Token
    BY <1>4, <1>c, <2>1 DEF Present, TypeOK, server
  <2> QED BY <1>4, <2>2, <2>3 DEF Present, TypeOK
<1>5. CASE Abandon(f)
  <2>1. PICK step \in {"idle", "authorize"} : Goto(f, step)
    BY <1>5 DEF Abandon
  <2> QED BY <1>5, <1>b, <1>d, <2>1 DEF Abandon, TypeOK, server
<1>6. CASE Save(f)
  <2>1. stored' \in Token \cup {None} /\ exposed' \subseteq Token
    BY <1>6, <1>d DEF Save, TypeOK
  <2> QED BY <1>6, <1>b, <2>1 DEF Save, TypeOK, server
<1>7. CASE Invalidate(f)
  BY <1>7, <1>b DEF Invalidate, TypeOK, server
<1>8. CASE Release(f) \/ Redirect(f)
  <2>1. PICK step \in Step : Goto(f, step)
    BY <1>8 DEF Release, Redirect
  <2>2. ReleaseLease(ProviderOf[f], {f}) /\ UNCHANGED <<stored, fence, state, server>>
    BY <1>8 DEF Release, Redirect
  <2>3. timer' \subseteq Provider /\ lease' \in {lease, None} /\ exposed' \subseteq Token
    BY <1>a, <2>2, ReleaseType
  <2> QED BY <1>b, <2>1, <2>2, <2>3 DEF TypeOK, server
<1>9. CASE Exchange(f)
  <2>1. CASE issued < MaxToken /\ issued' = issued + 1 /\ GoWith(f, "rotated", None, issued + 1)
    <3>1. /\ pc' \in [Flow -> Step]
          /\ token' \in [Flow -> Token \cup {None}]
          /\ fresh' \in [Flow -> Token \cup {None}]
      BY <1>c, <2>1, Going
    <3> QED BY <1>9, <1>c, <2>1, <3>1 DEF Exchange, TypeOK
  <2>2. CASE Goto(f, "refused") /\ UNCHANGED issued
    BY <1>9, <1>b, <2>2 DEF Exchange, TypeOK
  <2> QED BY <1>9, <2>1, <2>2 DEF Exchange
<1> QED BY <1>1, <1>2, <1>3, <1>4, <1>5, <1>6, <1>7, <1>8, <1>9 DEF FlowStep

\* Every step keeps the state typed.
LEMMA NextType == TypeOK /\ HeldTokensAreLive /\ [Next]_vars => TypeOK'
<1> SUFFICES ASSUME TypeOK, HeldTokensAreLive, [Next]_vars PROVE TypeOK'
  OBVIOUS
<1>1. ASSUME NEW f \in Flow, FlowStep(f) PROVE TypeOK'
  BY <1>1, FlowType
<1>2. ASSUME NEW p \in Provider, Create(p) PROVE TypeOK'
  BY <1>2, Constants DEF Create, TypeOK, server
<1>3. ASSUME NEW p \in Provider, Deactivate(p) \/ Expire(p) PROVE TypeOK'
  <2>1. timer' \subseteq Provider /\ lease' \in {lease, None} /\ exposed' \subseteq Token
    BY <1>3, ReleaseType DEF Deactivate, Expire
  <2>2. /\ state' \in [Provider -> {"none", "active", "inactive", "dead"}]
        /\ fence' \in [Process -> Provider \cup {None}]
    BY <1>3, Constants DEF Deactivate, Expire, TypeOK
  <2> QED BY <1>3, <2>1, <2>2 DEF Deactivate, Expire, TypeOK, server
<1>4. ASSUME NEW r \in Process, Crash(r) PROVE TypeOK'
  <2>1. exposed' \subseteq Token
    BY <1>4, LostType DEF Crash, TypeOK
  <2>2. /\ pc' \in [Flow -> Step]
        /\ token' \in [Flow -> Token \cup {None}]
        /\ fresh' \in [Flow -> Token \cup {None}]
    BY <1>4, StepFacts DEF Crash, TypeOK
  <2>3. state' \in [Provider -> {"none", "active", "inactive", "dead"}] /\ timer' \subseteq Provider
    BY <1>4 DEF Crash, TypeOK
  <2> QED BY <1>4, <2>1, <2>2, <2>3 DEF Crash, TypeOK, server
<1>5. CASE Remove
  BY <1>5 DEF Remove, TypeOK, server
<1>6. CASE TakeOver
  BY <1>6 DEF TakeOver, TypeOK, server
<1>7. CASE UNCHANGED vars
  BY <1>7 DEF vars, TypeOK, server
<1> QED BY <1>1, <1>2, <1>3, <1>4, <1>5, <1>6, <1>7 DEF Next

-----------------------------------------------------------------------------
(***************************************************************************)
(* Most steps only take something away: no flow is given a token, nothing  *)
(* is stored or issued, and whoever loses the lease has its token exposed. *)
(***************************************************************************)

Invariants == HoldersAreProtected /\ HeldTokensAreLive /\ FreshTokensAreNew /\ StoredIsUsable

\* A flow goes on with what it had, or with nothing.
FlowShrinks(f) ==
  /\ token'[f] \in {token[f], None} /\ fresh'[f] \in {fresh[f], None}
  /\ token'[f] # None => pc'[f] = pc[f]
  /\ pc'[f] \in {"holding", "rotated"} =>
       pc'[f] = pc[f] /\ token'[f] = token[f] /\ fresh'[f] = fresh[f]

\* A token loses its protection with the lease, or as the flow that would have stored
\* what replaced it ends.
FlowExposes(f) ==
  /\ token'[f] # None /\ lease = ProviderOf[f] /\ lease' # lease => token[f] \in exposed'
  /\ pc[f] = "rotated" /\ token[f] = stored /\ stored' = stored /\ stored # None
     /\ pc'[f] # "rotated" => stored \in exposed'

Shrinks ==
  /\ \A f \in Flow : FlowShrinks(f) /\ FlowExposes(f)
  /\ exposed \subseteq exposed' /\ UNCHANGED <<issued, spent>>
  /\ stored' \in {stored, None}

LEMMA ShrinksKeep ==
  ASSUME TypeOK, Invariants, Shrinks
  PROVE  Invariants'
<1>1. HoldersAreProtected'
  <2> SUFFICES ASSUME NEW f \in Flow, token'[f] # None, token'[f] \notin exposed'
               PROVE  /\ lease' = ProviderOf[f]
                      /\ \A h \in Flow \ {f} : ProviderOf[h] = ProviderOf[f] => token'[h] # token'[f]
    BY DEF HoldersAreProtected
  <2>1. token'[f] = token[f] /\ token[f] \notin exposed
    BY DEF Shrinks, FlowShrinks
  <2>2. /\ lease = ProviderOf[f]
        /\ \A h \in Flow \ {f} : ProviderOf[h] = ProviderOf[f] => token[h] # token[f]
    BY <2>1 DEF Invariants, HoldersAreProtected
  <2>3. lease' = lease
    BY <2>1, <2>2 DEF Shrinks, FlowExposes
  <2>4. \A h \in Flow : token'[h] \in {token[h], None}
    BY DEF Shrinks, FlowShrinks
  <2> QED BY <2>1, <2>2, <2>3, <2>4
<1>2. HeldTokensAreLive'
  BY DEF Shrinks, FlowShrinks, Invariants, HeldTokensAreLive
<1>3. FreshTokensAreNew'
  <2>1. /\ stored' # None => stored' <= issued'
        /\ \A t \in spent' : t <= issued'
        /\ \A f \in Flow : /\ token'[f] # None => token'[f] <= issued'
                           /\ fresh'[f] # None => fresh'[f] <= issued'
    BY DEF Shrinks, FlowShrinks, Invariants, FreshTokensAreNew
  <2>2. ASSUME NEW f \in Flow, pc'[f] = "rotated"
        PROVE  /\ fresh'[f] \notin {None, stored'} \cup spent'
               /\ \A h \in Flow : token'[h] # fresh'[f]
               /\ \A h \in Flow \ {f} : fresh'[h] # fresh'[f]
    <3>1. pc[f] = "rotated" /\ fresh'[f] = fresh[f]
      BY <2>2 DEF Shrinks, FlowShrinks
    <3>2. /\ fresh[f] \notin {None, stored} \cup spent
          /\ \A h \in Flow : token[h] # fresh[f]
          /\ \A h \in Flow \ {f} : fresh[h] # fresh[f]
      BY <3>1 DEF Invariants, FreshTokensAreNew
    <3>3. \A h \in Flow : token'[h] \in {token[h], None} /\ fresh'[h] \in {fresh[h], None}
      BY DEF Shrinks, FlowShrinks
    <3> QED BY <3>1, <3>2, <3>3 DEF Shrinks
  <2> QED BY <2>1, <2>2 DEF FreshTokensAreNew
<1>4. StoredIsUsable'
  <2> SUFFICES ASSUME stored' \in spent' \ exposed'
               PROVE  \E f \in Flow : pc'[f] = "rotated" /\ token'[f] = stored' /\ lease' = ProviderOf[f]
    BY DEF StoredIsUsable
  <2>1. stored' = stored /\ stored \in spent \ exposed /\ stored # None
    BY Constants DEF Shrinks, TypeOK
  <2>2. PICK f \in Flow : pc[f] = "rotated" /\ token[f] = stored /\ lease = ProviderOf[f]
    BY <2>1 DEF Invariants, StoredIsUsable
  <2>3. pc'[f] = "rotated" /\ token'[f] = stored
    BY <2>1, <2>2 DEF Shrinks, FlowExposes, FlowShrinks
  <2>4. lease' = lease
    BY <2>1, <2>2, <2>3 DEF Shrinks, FlowExposes
  <2> QED BY <2>1, <2>2, <2>3, <2>4
<1> QED BY <1>1, <1>2, <1>3, <1>4 DEF Invariants

\* A flow that ends what it was doing, where nothing else happens to the others.
LEMMA EndingShrinks ==
  ASSUME TypeOK, HeldTokensAreLive, NEW f \in Flow, NEW step \in Step \ {"holding", "rotated"},
         Goto(f, step),
         exposed \subseteq exposed', UNCHANGED <<issued, spent>>, stored' \in {stored, None},
         \/ lease' = lease
         \/ lease = None
         \/ \A h \in Flow \ {f} : token[h] # None /\ lease = ProviderOf[h] => token[h] \in exposed',
         pc[f] = "rotated" /\ token[f] # None => token[f] \in exposed'
  PROVE  Shrinks
<1>1. /\ pc'[f] = step /\ token'[f] = None /\ fresh'[f] = None
      /\ \A h \in Flow \ {f} : pc'[h] = pc[h] /\ token'[h] = token[h] /\ fresh'[h] = fresh[h]
  BY Going DEF Goto
<1>2. \A h \in Flow : FlowShrinks(h)
  BY <1>1 DEF FlowShrinks
<1>3. FlowExposes(f)
  BY <1>1 DEF FlowExposes
<1>4. \A h \in Flow \ {f} : FlowExposes(h)
  BY <1>1, Constants DEF FlowExposes
<1> QED BY <1>2, <1>3, <1>4 DEF Shrinks

\* Every step of a flow that is not given, issued or able to store a token.
LEMMA FlowStepShrinks ==
  ASSUME TypeOK, HeldTokensAreLive, NEW f \in Flow,
         \/ Tokens(f) \/ Acquire(f) \/ GiveUp(f) \/ Abandon(f) \/ Invalidate(f)
         \/ Release(f) \/ Redirect(f) \/ Unanswered(f)
         \/ Reread(f) /\ stored = None
         \/ Present(f) /\ issued' = issued /\ spent' = spent
         \/ Exchange(f) /\ issued' = issued
         \/ Save(f) /\ stored' = stored /\ (pc[f] = "rotated" => exposed' = exposed \cup Lost(f))
  PROVE  Shrinks
<1> USE StepFacts
<1>a. ProviderOf[f] \in Provider
  BY Constants
<1>b. issued + 1 # issued
  BY DEF TypeOK, Token
<1>c. pc[f] = "rotated" /\ token[f] # None => token[f] \in Lost(f)
  BY DEF Lost
<1>1. CASE Tokens(f) \/ GiveUp(f) \/ Unanswered(f) \/ Acquire(f)
  <2>1. PICK step \in Step \ {"holding", "rotated"} : Goto(f, step)
    BY <1>1 DEF Tokens, GiveUp, Unanswered, Acquire
  <2> QED BY <1>1, <2>1, EndingShrinks DEF Tokens, GiveUp, Unanswered, Acquire, server
<1>2. CASE Abandon(f)
  <2>1. PICK step \in Step \ {"holding", "rotated"} : Goto(f, step)
    BY <1>2 DEF Abandon
  <2> QED BY <1>2, <1>c, <2>1, EndingShrinks DEF Abandon, server
<1>3. CASE Invalidate(f)
  <2>1. PICK step \in Step \ {"holding", "rotated"} : Goto(f, step)
    BY <1>3 DEF Invalidate
  <2>2. stored' \in {stored, None} /\ pc[f] # "rotated" /\ UNCHANGED <<issued, spent, lease, exposed>>
    BY <1>3 DEF Invalidate, server
  <2> QED BY <2>1, <2>2, EndingShrinks
<1>4. CASE Release(f) \/ Redirect(f) \/ (Reread(f) /\ stored = None)
  <2>1. PICK step \in Step \ {"holding", "rotated"} : Goto(f, step)
    BY <1>4 DEF Release, Redirect, Reread
  <2>2. /\ ReleaseLease(ProviderOf[f], {f}) /\ UNCHANGED <<stored, issued, spent>>
        /\ pc[f] # "rotated"
    BY <1>4 DEF Release, Redirect, Reread, server
  <2>3. /\ exposed \subseteq exposed'
        /\ lease' # lease =>
              lease = ProviderOf[f] /\ \A h \in Flow \ {f} :
                ProviderOf[h] = ProviderOf[f] /\ pc[h] \in {"holding", "rotated"} /\ token[h] # None
                  => token[h] \in exposed'
    BY <1>a, <2>2, ReleaseType
  <2>4. lease' = lease \/ \A h \in Flow \ {f} : token[h] # None /\ lease = ProviderOf[h] => token[h] \in exposed'
    BY <2>3 DEF HeldTokensAreLive
  <2> QED BY <2>1, <2>2, <2>3, <2>4, EndingShrinks
<1>5. CASE Present(f) /\ issued' = issued /\ spent' = spent
  <2>1. PICK step \in Step \ {"holding", "rotated"} : Goto(f, step)
    BY <1>5, <1>b DEF Present
  <2> QED BY <1>5, <2>1, EndingShrinks DEF Present
<1>6. CASE Exchange(f) /\ issued' = issued
  <2>1. Goto(f, "refused")
    BY <1>6, <1>b DEF Exchange
  <2> QED BY <1>6, <2>1, EndingShrinks DEF Exchange
<1>7. CASE Save(f) /\ stored' = stored /\ (pc[f] = "rotated" => exposed' = exposed \cup Lost(f))
  <2>1. PICK step \in Step \ {"holding", "rotated"} : Goto(f, step)
    BY <1>7 DEF Save
  <2>2. exposed \subseteq exposed' /\ UNCHANGED <<issued, spent, lease>>
    BY <1>7 DEF Save, server
  <2> QED BY <1>7, <1>c, <2>1, <2>2, EndingShrinks
<1> QED BY <1>1, <1>2, <1>3, <1>4, <1>5, <1>6, <1>7

\* The steps of providers and processes.
LEMMA OtherStepShrinks ==
  ASSUME TypeOK, HeldTokensAreLive, FlowsEndWithProcess,
         \/ \E p \in Provider : Create(p) \/ Deactivate(p) \/ Expire(p)
         \/ \E r \in Process : Crash(r)
         \/ Remove \/ TakeOver \/ UNCHANGED vars
  PROVE  Shrinks
<1>1. ASSUME UNCHANGED <<pc, token, fresh, issued, spent>>, exposed \subseteq exposed',
             stored' \in {stored, None},
             \A f \in Flow : token[f] # None /\ lease = ProviderOf[f] /\ lease' # lease => token[f] \in exposed'
      PROVE  Shrinks
  BY <1>1 DEF Shrinks, FlowShrinks, FlowExposes
<1>2. ASSUME NEW p \in Provider, Deactivate(p) \/ Expire(p) PROVE Shrinks
  <2>1. ReleaseLease(p, {}) /\ UNCHANGED <<stored, pc, token, fresh, issued, spent>>
    BY <1>2 DEF Deactivate, Expire, server
  <2>2. /\ exposed \subseteq exposed'
        /\ lease' # lease =>
              lease = p /\ \A h \in Flow \ {} :
                ProviderOf[h] = p /\ pc[h] \in {"holding", "rotated"} /\ token[h] # None
                  => token[h] \in exposed'
    BY <2>1, ReleaseType
  <2> QED BY <1>1, <2>1, <2>2 DEF HeldTokensAreLive
<1>3. ASSUME NEW r \in Process, Crash(r) PROVE Shrinks
  <2> DEFINE F == {f \in Flow : HomeOf[ProviderOf[f]] = r}
  <2>1. \A f \in F : /\ pc'[f] = "dead" /\ token'[f] = None /\ fresh'[f] = None
                    /\ Lost(f) \subseteq exposed'
    BY <1>3 DEF Crash
  <2>2. \A f \in Flow \ F : pc'[f] = pc[f] /\ token'[f] = token[f] /\ fresh'[f] = fresh[f]
    BY <1>3 DEF Crash
  <2>3. exposed \subseteq exposed' /\ UNCHANGED <<stored, lease, issued, spent>>
    BY <1>3 DEF Crash, server
  <2>4. \A f \in Flow : FlowShrinks(f)
    BY <2>1, <2>2 DEF FlowShrinks
  <2>5. \A f \in Flow : FlowExposes(f)
    BY <2>1, <2>2, <2>3 DEF FlowExposes, Lost
  <2> QED BY <2>3, <2>4, <2>5 DEF Shrinks
<1>4. ASSUME NEW p \in Provider, Create(p) PROVE Shrinks
  BY <1>1, <1>4 DEF Create, server
<1>5. CASE Remove
  BY <1>1, <1>5 DEF Remove, server
<1>6. CASE TakeOver
  <2>1. \A f \in Flow : lease = ProviderOf[f] => token[f] = None
    BY <1>6 DEF TakeOver, FlowsEndWithProcess, HeldTokensAreLive
  <2> QED BY <1>1, <1>6, <2>1 DEF TakeOver, server
<1>7. CASE UNCHANGED vars
  BY <1>1, <1>7 DEF vars, server
<1> QED BY <1>2, <1>3, <1>4, <1>5, <1>6, <1>7

-----------------------------------------------------------------------------
(* The steps that give a flow a token, issue one or store one. *)

\* A token that is read under the lease has not been replaced, unless another flow of
\* the provider has just done so, which shares it.
LEMMA RereadKeeps ==
  ASSUME TypeOK, Invariants, NEW f \in Flow, Reread(f), stored # None
  PROVE  Invariants'
<1>1. /\ GoWith(f, "holding", stored, None) /\ stored \in Token
      /\ UNCHANGED <<stored, lease, issued, spent>>
      /\ exposed \subseteq exposed'
      /\ lease # ProviderOf[f] \/ Shared(f) => stored \in exposed'
  BY DEF Reread, TypeOK, server
<1>2. /\ pc'[f] = "holding" /\ token'[f] = stored /\ fresh'[f] = None
      /\ \A h \in Flow \ {f} : pc'[h] = pc[h] /\ token'[h] = token[h] /\ fresh'[h] = fresh[h]
  BY <1>1, StepFacts, Going
<1>3. \A h \in Flow \ {f} :
        ProviderOf[h] = ProviderOf[f] /\ token[h] = stored => stored \in exposed'
  <2>1. \A h \in Flow : token[h] # None => pc[h] \in {"holding", "rotated"}
    BY DEF Invariants, HeldTokensAreLive
  <2> QED BY <1>1, <2>1, Constants DEF Shared, InFlight, TypeOK
<1>4. HoldersAreProtected'
  <2>1. token'[f] \in exposed' \/
          /\ lease' = ProviderOf[f]
          /\ \A h \in Flow \ {f} : ProviderOf[h] = ProviderOf[f] => token'[h] # token'[f]
    BY <1>1, <1>2, <1>3
  <2>2. ASSUME NEW g \in Flow \ {f}, token'[g] # None, token'[g] \notin exposed'
        PROVE  /\ lease' = ProviderOf[g]
               /\ \A h \in Flow \ {g} : ProviderOf[h] = ProviderOf[g] => token'[h] # token'[g]
    <3>1. /\ lease = ProviderOf[g]
          /\ \A h \in Flow \ {g} : ProviderOf[h] = ProviderOf[g] => token[h] # token[g]
      BY <1>1, <1>2, <2>2 DEF Invariants, HoldersAreProtected
    <3>2. ProviderOf[f] = ProviderOf[g] => token[g] # stored
      BY <1>2, <1>3, <2>2
    <3> QED BY <1>1, <1>2, <3>1, <3>2
  <2> QED BY <2>1, <2>2 DEF HoldersAreProtected
<1>5. HeldTokensAreLive'
  <2>1. stored \in spent => stored \in exposed'
    <3> SUFFICES ASSUME stored \in spent \ exposed PROVE stored \in exposed'
      BY <1>1
    <3>1. PICK g \in Flow : pc[g] = "rotated" /\ token[g] = stored /\ lease = ProviderOf[g]
      BY DEF Invariants, StoredIsUsable
    <3>2. g # f
      BY <3>1 DEF Reread
    <3> QED BY <1>1, <1>3, <3>1, <3>2
  <2> QED BY <1>1, <1>2, <2>1, Constants DEF Invariants, HeldTokensAreLive
<1>6. FreshTokensAreNew'
  <2>1. \A g \in Flow : pc'[g] = "rotated" => g # f /\ pc[g] = "rotated" /\ fresh'[g] = fresh[g]
    BY <1>2
  <2>2. \A g \in Flow : pc[g] = "rotated" => fresh[g] # None /\ fresh[g] # stored
    BY DEF Invariants, FreshTokensAreNew
  <2> QED BY <1>1, <1>2, <2>1, <2>2 DEF Invariants, FreshTokensAreNew
<1>7. StoredIsUsable'
  <2> SUFFICES ASSUME stored \in spent \ exposed
               PROVE  \E g \in Flow : pc'[g] = "rotated" /\ token'[g] = stored /\ lease = ProviderOf[g]
    BY <1>1 DEF StoredIsUsable
  <2>1. PICK g \in Flow : pc[g] = "rotated" /\ token[g] = stored /\ lease = ProviderOf[g]
    BY DEF Invariants, StoredIsUsable
  <2>2. g # f
    BY <2>1 DEF Reread
  <2> QED BY <1>2, <2>1, <2>2
<1> QED BY <1>4, <1>5, <1>6, <1>7 DEF Invariants

\* A token that is replaced is not stored, or the flow that has its replacement has
\* the lease; no other flow is going to present it, unless it is exposed.
LEMMA PresentKeeps ==
  ASSUME TypeOK, Invariants, NEW f \in Flow, Present(f), issued' # issued
  PROVE  Invariants'
<1>1. /\ pc[f] = "holding" /\ token[f] \in Token
      /\ GoWith(f, "rotated", token[f], issued + 1)
      /\ issued' = issued + 1 /\ issued + 1 \in Token /\ issued \in Nat
      /\ spent' = spent \cup {token[f]}
      /\ UNCHANGED <<stored, lease, exposed>>
  <2>1. issued \in Nat /\ (issued < MaxToken => issued + 1 \in Token)
    BY RefreshAssumption DEF RefreshAssumption, TypeOK, Token
  <2>2. token[f] \in Token
    BY DEF Present, TypeOK, Invariants, HeldTokensAreLive
  <2> QED BY <2>1, <2>2 DEF Present, server
<1>2. /\ pc'[f] = "rotated" /\ token'[f] = token[f] /\ fresh'[f] = issued + 1
      /\ \A h \in Flow \ {f} : pc'[h] = pc[h] /\ token'[h] = token[h] /\ fresh'[h] = fresh[h]
  BY <1>1, StepFacts, Going
<1>3. token' = token
  BY <1>1, <1>2 DEF GoWith, TypeOK
<1>4. HoldersAreProtected'
  BY <1>1, <1>3 DEF Invariants, HoldersAreProtected
<1>5. ASSUME NEW g \in Flow \ {f}, token[g] = token[f] PROVE token[f] \in exposed
  BY <1>1, <1>5, Constants DEF Invariants, HoldersAreProtected
<1>6. HeldTokensAreLive'
  BY <1>1, <1>2, <1>3, <1>5 DEF Invariants, HeldTokensAreLive
<1>7. FreshTokensAreNew'
  <2> DEFINE n == issued + 1
  <2>1. /\ stored # None => stored <= issued
        /\ \A t \in spent : t <= issued
        /\ \A g \in Flow : /\ token[g] # None => token[g] <= issued
                           /\ fresh[g] # None => fresh[g] <= issued
    BY DEF Invariants, FreshTokensAreNew
  <2>2. /\ stored \in Nat \cup {None} /\ spent \subseteq Nat
        /\ \A g \in Flow : token[g] \in Nat \cup {None} /\ fresh[g] \in Nat \cup {None}
    BY DEF TypeOK, Token
  <2>3. /\ n # None /\ stored # n /\ n \notin spent
        /\ \A g \in Flow : token[g] # n /\ fresh[g] # n
    BY <1>1, <2>1, <2>2, Constants
  <2>4. /\ stored # None => stored <= n
        /\ \A t \in spent : t <= n
        /\ \A g \in Flow : /\ token[g] # None => token[g] <= n
                           /\ fresh[g] # None => fresh[g] <= n
    BY <1>1, <2>1, <2>2
  <2>5. ASSUME NEW g \in Flow, pc'[g] = "rotated"
        PROVE  /\ fresh'[g] \notin {None, stored} \cup spent'
               /\ \A h \in Flow : token'[h] # fresh'[g]
               /\ \A h \in Flow \ {g} : fresh'[h] # fresh'[g]
    <3>1. CASE g = f
      BY <1>1, <1>2, <1>3, <2>3, <3>1
    <3>2. CASE g # f
      <4>1. /\ fresh[g] \notin {None, stored} \cup spent
            /\ \A h \in Flow : token[h] # fresh[g]
            /\ \A h \in Flow \ {g} : fresh[h] # fresh[g]
        BY <1>2, <2>5, <3>2 DEF Invariants, FreshTokensAreNew
      <4> QED BY <1>1, <1>2, <1>3, <2>3, <3>2, <4>1
    <3> QED BY <3>1, <3>2
  <2>6. /\ stored' # None => stored' <= issued'
        /\ \A t \in spent' : t <= issued'
        /\ \A g \in Flow : /\ token'[g] # None => token'[g] <= issued'
                           /\ fresh'[g] # None => fresh'[g] <= issued'
    BY <1>1, <1>2, <1>3, <2>2, <2>4, Constants
  <2> QED BY <1>1, <2>5, <2>6 DEF FreshTokensAreNew
<1>8. StoredIsUsable'
  <2> SUFFICES ASSUME stored \in spent' \ exposed
               PROVE  \E g \in Flow : pc'[g] = "rotated" /\ token'[g] = stored /\ lease = ProviderOf[g]
    BY <1>1 DEF StoredIsUsable
  <2>1. CASE stored = token[f]
    <3>1. lease = ProviderOf[f]
      BY <1>1, <2>1, Constants DEF Invariants, HoldersAreProtected
    <3> QED BY <1>2, <2>1, <3>1
  <2>2. CASE stored # token[f]
    <3>1. PICK g \in Flow : pc[g] = "rotated" /\ token[g] = stored /\ lease = ProviderOf[g]
      BY <1>1, <2>2 DEF Invariants, StoredIsUsable
    <3> QED BY <1>2, <2>2, <3>1
  <2> QED BY <2>1, <2>2
<1> QED BY <1>4, <1>6, <1>7, <1>8 DEF Invariants

\* What is stored by a rotation is new.
LEMMA SaveKeeps ==
  ASSUME TypeOK, Invariants, NEW f \in Flow, Save(f), stored' # stored
  PROVE  Invariants'
<1>1. PICK step \in Step \ {"holding", "rotated"} : Goto(f, step)
  BY StepFacts DEF Save
<1>2. /\ pc[f] = "rotated" /\ stored' = fresh[f]
      /\ UNCHANGED <<lease, exposed, issued, spent>>
  BY DEF Save, server
<1>3. /\ pc'[f] = step /\ token'[f] = None /\ fresh'[f] = None
      /\ \A h \in Flow \ {f} : pc'[h] = pc[h] /\ token'[h] = token[h] /\ fresh'[h] = fresh[h]
  BY <1>1, Going DEF Goto
<1>4. /\ fresh[f] \notin {None, stored} \cup spent
      /\ \A h \in Flow : token[h] # fresh[f]
      /\ \A h \in Flow \ {f} : fresh[h] # fresh[f]
      /\ fresh[f] <= issued
  BY <1>2 DEF Invariants, FreshTokensAreNew
<1>5. HoldersAreProtected'
  <2> SUFFICES ASSUME NEW g \in Flow, token'[g] # None, token'[g] \notin exposed'
               PROVE  /\ lease' = ProviderOf[g]
                      /\ \A h \in Flow \ {g} : ProviderOf[h] = ProviderOf[g] => token'[h] # token'[g]
    BY DEF HoldersAreProtected
  <2>1. g # f /\ token'[g] = token[g]
    BY <1>3
  <2>2. /\ lease = ProviderOf[g]
        /\ \A h \in Flow \ {g} : ProviderOf[h] = ProviderOf[g] => token[h] # token[g]
    BY <1>2, <2>1 DEF Invariants, HoldersAreProtected
  <2> QED BY <1>2, <1>3, <2>1, <2>2
<1>6. HeldTokensAreLive'
  BY <1>2, <1>3 DEF Invariants, HeldTokensAreLive
<1>7. FreshTokensAreNew'
  <2>1. ASSUME NEW g \in Flow, pc'[g] = "rotated"
        PROVE  /\ fresh'[g] \notin {None, stored'} \cup spent'
               /\ \A h \in Flow : token'[h] # fresh'[g]
               /\ \A h \in Flow \ {g} : fresh'[h] # fresh'[g]
    <3>1. g # f /\ pc[g] = "rotated" /\ fresh'[g] = fresh[g]
      BY <1>3, <2>1
    <3>2. /\ fresh[g] \notin {None, stored} \cup spent
          /\ \A h \in Flow : token[h] # fresh[g]
          /\ \A h \in Flow \ {g} : fresh[h] # fresh[g]
      BY <3>1 DEF Invariants, FreshTokensAreNew
    <3>3. fresh[g] # stored'
      BY <1>2, <1>4, <3>1
    <3> QED BY <1>2, <1>3, <3>1, <3>2, <3>3
  <2>2. /\ stored' # None => stored' <= issued'
        /\ \A t \in spent' : t <= issued'
        /\ \A g \in Flow : /\ token'[g] # None => token'[g] <= issued'
                           /\ fresh'[g] # None => fresh'[g] <= issued'
    BY <1>2, <1>3, <1>4 DEF Invariants, FreshTokensAreNew
  <2> QED BY <2>1, <2>2 DEF FreshTokensAreNew
<1>8. StoredIsUsable'
  BY <1>2, <1>4 DEF StoredIsUsable
<1> QED BY <1>5, <1>6, <1>7, <1>8 DEF Invariants

LEMMA ExchangeKeeps ==
  ASSUME TypeOK, Invariants, NEW f \in Flow, Exchange(f), issued' # issued
  PROVE  Invariants'
<1>1. /\ GoWith(f, "rotated", None, issued + 1)
      /\ pc[f] = "browser"
      /\ issued' = issued + 1 /\ issued + 1 \in Token /\ issued \in Nat
      /\ UNCHANGED <<stored, lease, exposed, spent>>
  <2>1. issued \in Nat /\ (issued < MaxToken => issued + 1 \in Token)
    BY RefreshAssumption DEF RefreshAssumption, TypeOK, Token
  <2> QED BY <2>1 DEF Exchange
<1>2. /\ pc'[f] = "rotated" /\ token'[f] = None /\ fresh'[f] = issued + 1
      /\ \A h \in Flow \ {f} : pc'[h] = pc[h] /\ token'[h] = token[h] /\ fresh'[h] = fresh[h]
  BY <1>1, StepFacts, Going
<1>3. HoldersAreProtected'
  <2> SUFFICES ASSUME NEW g \in Flow, token'[g] # None, token'[g] \notin exposed'
               PROVE  /\ lease' = ProviderOf[g]
                      /\ \A h \in Flow \ {g} : ProviderOf[h] = ProviderOf[g] => token'[h] # token'[g]
    BY DEF HoldersAreProtected
  <2>1. g # f /\ token'[g] = token[g]
    BY <1>2
  <2>2. /\ lease = ProviderOf[g]
        /\ \A h \in Flow \ {g} : ProviderOf[h] = ProviderOf[g] => token[h] # token[g]
    BY <1>1, <2>1 DEF Invariants, HoldersAreProtected
  <2> QED BY <1>1, <1>2, <2>1, <2>2
<1>4. HeldTokensAreLive'
  BY <1>1, <1>2 DEF Invariants, HeldTokensAreLive
<1>5. FreshTokensAreNew'
  <2> DEFINE n == issued + 1
  <2>1. /\ stored # None => stored <= issued
        /\ \A t \in spent : t <= issued
        /\ \A g \in Flow : /\ token[g] # None => token[g] <= issued
                           /\ fresh[g] # None => fresh[g] <= issued
    BY DEF Invariants, FreshTokensAreNew
  <2>2. /\ stored \in Nat \cup {None} /\ spent \subseteq Nat
        /\ \A g \in Flow : token[g] \in Nat \cup {None} /\ fresh[g] \in Nat \cup {None}
    BY DEF TypeOK, Token
  <2>3. /\ n # None /\ stored # n /\ n \notin spent
        /\ \A g \in Flow : token[g] # n /\ fresh[g] # n
    BY <1>1, <2>1, <2>2, Constants
  <2>4. /\ stored # None => stored <= n
        /\ \A t \in spent : t <= n
        /\ \A g \in Flow : /\ token[g] # None => token[g] <= n
                           /\ fresh[g] # None => fresh[g] <= n
    BY <1>1, <2>1, <2>2
  <2>5. ASSUME NEW g \in Flow, pc'[g] = "rotated"
        PROVE  /\ fresh'[g] \notin {None, stored} \cup spent'
               /\ \A h \in Flow : token'[h] # fresh'[g]
               /\ \A h \in Flow \ {g} : fresh'[h] # fresh'[g]
    <3>1. CASE g = f
      BY <1>1, <1>2, <2>3, <3>1
    <3>2. CASE g # f
      <4>1. /\ fresh[g] \notin {None, stored} \cup spent
            /\ \A h \in Flow : token[h] # fresh[g]
            /\ \A h \in Flow \ {g} : fresh[h] # fresh[g]
        BY <1>2, <2>5, <3>2 DEF Invariants, FreshTokensAreNew
      <4> QED BY <1>1, <1>2, <2>3, <3>2, <4>1
    <3> QED BY <3>1, <3>2
  <2>6. /\ stored' # None => stored' <= issued'
        /\ \A t \in spent' : t <= issued'
        /\ \A g \in Flow : /\ token'[g] # None => token'[g] <= issued'
                           /\ fresh'[g] # None => fresh'[g] <= issued'
    BY <1>1, <1>2, <2>2, <2>4, Constants
  <2> QED BY <1>1, <2>5, <2>6 DEF FreshTokensAreNew
<1>6. StoredIsUsable'
  <2> SUFFICES ASSUME stored \in spent \ exposed
               PROVE  \E g \in Flow : pc'[g] = "rotated" /\ token'[g] = stored /\ lease = ProviderOf[g]
    BY <1>1 DEF StoredIsUsable
  <2>1. PICK g \in Flow : pc[g] = "rotated" /\ token[g] = stored /\ lease = ProviderOf[g]
    BY DEF Invariants, StoredIsUsable
  <2> QED BY <1>1, <1>2, <2>1
<1> QED BY <1>3, <1>4, <1>5, <1>6 DEF Invariants

LEMMA NextInvariants ==
  ASSUME TypeOK, Invariants, FlowsEndWithProcess, [Next]_vars
  PROVE  Invariants'
<1>a. HeldTokensAreLive
  BY DEF Invariants
<1>1. ASSUME NEW f \in Flow, FlowStep(f) PROVE Invariants'
  <2>1. CASE Reread(f) /\ stored # None
    BY <2>1, RereadKeeps
  <2>2. CASE (Present(f) \/ Exchange(f)) /\ issued' # issued
    BY <2>2, PresentKeeps, ExchangeKeeps
  <2>3. CASE Save(f) /\ stored' # stored
    BY <2>3, SaveKeeps
  <2>4. CASE Present(f) /\ issued' = issued
    <3>1. spent' = spent
      BY <2>4 DEF Present, TypeOK, Token, server
    <3> QED BY <1>a, <2>4, <3>1, FlowStepShrinks, ShrinksKeep
  <2>5. CASE Save(f) /\ stored' = stored
    <3>1. pc[f] = "rotated" => exposed' = exposed \cup Lost(f)
      BY <2>5 DEF Save, Invariants, FreshTokensAreNew
    <3> QED BY <1>a, <2>5, <3>1, FlowStepShrinks, ShrinksKeep
  <2>6. CASE Exchange(f) /\ issued' = issued
    BY <1>a, <2>6, FlowStepShrinks, ShrinksKeep
  <2>7. CASE \/ Tokens(f) \/ Acquire(f) \/ GiveUp(f) \/ Abandon(f) \/ Invalidate(f)
             \/ Release(f) \/ Redirect(f) \/ Unanswered(f)
             \/ Reread(f) /\ stored = None
    BY <1>a, <2>7, FlowStepShrinks, ShrinksKeep
  <2>8. CASE Reread(f)
    BY <2>1, <2>7, <2>8
  <2>9. CASE Present(f) \/ Exchange(f)
    BY <2>2, <2>4, <2>6, <2>9
  <2>10. CASE Save(f)
    BY <2>3, <2>5, <2>10
  <2>11. CASE Tokens(f) \/ Acquire(f) \/ GiveUp(f) \/ Abandon(f)
    BY <2>7, <2>11
  <2>12. CASE Invalidate(f) \/ Release(f) \/ Redirect(f) \/ Unanswered(f)
    BY <2>7, <2>12
  <2> QED BY <1>1, <2>8, <2>9, <2>10, <2>11, <2>12 DEF FlowStep
<1>2. CASE \/ \E p \in Provider : Create(p) \/ Deactivate(p) \/ Expire(p)
           \/ \E r \in Process : Crash(r)
           \/ Remove \/ TakeOver \/ UNCHANGED vars
  BY <1>a, <1>2, OtherStepShrinks, ShrinksKeep
<1> QED BY <1>1, <1>2 DEF Next

-----------------------------------------------------------------------------
(* The other parts of the invariant. *)

LEMMA NextReuse ==
  ASSUME TypeOK, HeldTokensAreLive, NoReuse, [Next]_vars, exposed \subseteq exposed'
  PROVE  NoReuse'
<1>1. ASSUME NEW f \in Flow, Present(f) PROVE NoReuse'
  BY <1>1 DEF Present, HeldTokensAreLive, NoReuse, server
<1>2. ASSUME UNCHANGED reused PROVE NoReuse'
  BY <1>2 DEF NoReuse
<1> QED BY <1>1, <1>2
    DEF Next, FlowStep, Tokens, Acquire, GiveUp, Reread, Abandon, Save, Invalidate, Release, Redirect,
        Exchange, Unanswered, Create, Deactivate, Remove, Expire, Crash, TakeOver, vars, server

LEMMA ExposedGrows == TypeOK /\ [Next]_vars => exposed \subseteq exposed'
  BY DEF Next, FlowStep, Tokens, Acquire, GiveUp, Reread, Present, Abandon, Save, Invalidate, Release,
         Redirect, Exchange, Unanswered, Create, Deactivate, Remove, Expire, Crash, TakeOver, vars,
         ReleaseLease

LEMMA NextHolder ==
  ASSUME TypeOK, HolderIsActive, [Next]_vars
  PROVE  HolderIsActive'
<1>1. ASSUME lease' \in {lease, None}, UNCHANGED state PROVE HolderIsActive'
  BY <1>1 DEF HolderIsActive
<1>2. ASSUME NEW f \in Flow, Acquire(f) PROVE HolderIsActive'
  BY <1>2 DEF Acquire, Active, HolderIsActive
<1>3. ASSUME NEW f \in Flow, FlowStep(f), ~Acquire(f) PROVE HolderIsActive'
  <2>1. lease' \in {lease, None} /\ UNCHANGED state
    BY <1>3 DEF FlowStep, Tokens, GiveUp, Reread, Present, Abandon, Save, Invalidate, Release,
                Redirect, Exchange, Unanswered, ReleaseLease
  <2> QED BY <1>1, <2>1
<1>4. ASSUME NEW p \in Provider, Create(p) PROVE HolderIsActive'
  BY <1>4 DEF Create, HolderIsActive, TypeOK
<1>5. ASSUME NEW p \in Provider, Deactivate(p) PROVE HolderIsActive'
  <2>1. lease' # p /\ lease' \in {lease, None}
    BY <1>5, ReleaseType DEF Deactivate
  <2>2. \A r \in Provider \ {p} : state'[r] = state[r]
    BY <1>5 DEF Deactivate, TypeOK
  <2> QED BY <2>1, <2>2 DEF HolderIsActive, TypeOK
<1>6. ASSUME NEW p \in Provider, Expire(p) PROVE HolderIsActive'
  BY <1>1, <1>6 DEF Expire, ReleaseLease
<1>7. ASSUME NEW r \in Process, Crash(r) PROVE HolderIsActive'
  BY <1>7 DEF Crash, HolderIsActive, TypeOK
<1>8. CASE Remove \/ TakeOver \/ UNCHANGED vars
  BY <1>1, <1>8 DEF Remove, TakeOver, vars
<1> QED BY <1>2, <1>3, <1>4, <1>5, <1>6, <1>7, <1>8 DEF Next

LEMMA NextEnd ==
  ASSUME TypeOK, FlowsEndWithProcess, [Next]_vars
  PROVE  FlowsEndWithProcess'
<1>a. \A f \in Flow : ProviderOf[f] \in Provider
  BY Constants
<1>1. ASSUME NEW f \in Flow, FlowStep(f) PROVE FlowsEndWithProcess'
  <2>1. UNCHANGED state /\ \A h \in Flow \ {f} : pc'[h] = pc[h]
    BY <1>1 DEF FlowStep, Tokens, Acquire, GiveUp, Reread, Present, Abandon, Save, Invalidate,
                Release, Redirect, Exchange, Unanswered, Goto, GoWith, TypeOK
  <2>2. pc[f] # "dead"
    BY <1>1 DEF FlowStep, Tokens, Acquire, GiveUp, Reread, Present, Abandon, Save, Invalidate,
                Release, Redirect, Exchange, Unanswered
  <2> QED BY <2>1, <2>2 DEF FlowsEndWithProcess
<1>2. ASSUME NEW p \in Provider, Create(p) \/ Deactivate(p) PROVE FlowsEndWithProcess'
  BY <1>a, <1>2 DEF Create, Deactivate, FlowsEndWithProcess, TypeOK
<1>3. ASSUME NEW r \in Process, Crash(r) PROVE FlowsEndWithProcess'
  BY <1>a, <1>3 DEF Crash, FlowsEndWithProcess
<1>4. ASSUME UNCHANGED <<state, pc>> PROVE FlowsEndWithProcess'
  BY <1>4 DEF FlowsEndWithProcess
<1> QED BY <1>1, <1>2, <1>3, <1>4 DEF Next, Expire, Remove, TakeOver, vars

LEMMA InitRefresh == Init => RefreshInv
<1> SUFFICES ASSUME Init PROVE RefreshInv
  OBVIOUS
<1>1. TypeOK
  BY InitType
<1>2. \A f \in Flow : pc[f] = "idle" /\ token[f] = None /\ fresh[f] = None
  BY DEF Init
<1>3. \A f \in Flow : state[ProviderOf[f]] = "none"
  BY Constants DEF Init
<1> QED BY <1>1, <1>2, <1>3
    DEF Init, RefreshInv, NoReuse, StoredIsUsable, HolderIsActive, HoldersAreProtected,
        HeldTokensAreLive, FreshTokensAreNew, FlowsEndWithProcess

LEMMA NextRefresh == RefreshInv /\ [Next]_vars => RefreshInv'
<1> SUFFICES ASSUME RefreshInv, [Next]_vars PROVE RefreshInv'
  OBVIOUS
<1>1. Invariants
  BY DEF RefreshInv, Invariants
<1>2. Invariants'
  BY <1>1, NextInvariants DEF RefreshInv
<1>3. NoReuse'
  BY NextReuse, ExposedGrows DEF RefreshInv
<1>4. TypeOK' /\ HolderIsActive' /\ FlowsEndWithProcess'
  BY NextType, NextHolder, NextEnd DEF RefreshInv
<1> QED BY <1>2, <1>3, <1>4 DEF RefreshInv, Invariants

-----------------------------------------------------------------------------

\* The inductive invariant holds in every reachable state.
THEOREM RefreshInvariance == Spec => []RefreshInv
  BY InitRefresh, NextRefresh, PTL DEF Spec

\* The state of the providers stays typed.
THEOREM RefreshTypeCorrect == Spec => []TypeOK
<1>1. RefreshInv => TypeOK
  BY DEF RefreshInv
<1> QED BY <1>1, RefreshInvariance, PTL

\* For any processes, providers and flows, a refresh token that was replaced is
\* presented again only if the lease had stopped protecting it (tokens, saveTokens,
\* acquireRefreshLockEffect, releaseRefreshLockEffect).
THEOREM RotationIsSerialized == Spec => []NoReuse
<1>1. RefreshInv => NoReuse
  BY DEF RefreshInv
<1> QED BY <1>1, RefreshInvariance, PTL

\* What the store offers the next holder of the lease has not been replaced.
THEOREM StoredTokensAreUsable == Spec => []StoredIsUsable
<1>1. RefreshInv => StoredIsUsable
  BY DEF RefreshInv
<1> QED BY <1>1, RefreshInvariance, PTL

\* A deactivated provider does not hold the lease (deactivate, acquireRefreshLockEffect).
THEOREM HoldersAreActive == Spec => []HolderIsActive
<1>1. RefreshInv => HolderIsActive
  BY DEF RefreshInv
<1> QED BY <1>1, RefreshInvariance, PTL

\* A release of the lease ends its timer with it.
LEMMA ReleaseKeepsTimer ==
  ASSUME TypeOK, TimerGuardsLease, NEW p \in Provider, NEW F, ReleaseLease(p, F),
         \A q \in Provider \ {p} : state'[q] = "dead" <=> state[q] = "dead"
  PROVE  TimerGuardsLease'
<1>1. CASE lease = p
  <2>1. lease' = None /\ timer \subseteq {p} /\ timer' = timer \ {p}
    BY <1>1 DEF ReleaseLease, TimerGuardsLease
  <2> QED BY <2>1 DEF TimerGuardsLease, Held
<1>2. CASE lease # p
  <2>1. lease' = lease /\ p \notin timer /\ timer' = timer
    BY <1>2 DEF ReleaseLease, TimerGuardsLease
  <2>2. Held' <=> Held
    BY <1>2, <2>1 DEF Held, TypeOK
  <2> QED BY <2>1, <2>2 DEF TimerGuardsLease
<1> QED BY <1>1, <1>2

LEMMA NextTimer == RefreshInv /\ TimerGuardsLease /\ [Next]_vars => TimerGuardsLease'
<1> SUFFICES ASSUME RefreshInv, TimerGuardsLease, [Next]_vars PROVE TimerGuardsLease'
  OBVIOUS
<1>0. TypeOK /\ HolderIsActive
  BY DEF RefreshInv
<1>1. ASSUME UNCHANGED <<lease, timer, state>> PROVE TimerGuardsLease'
  BY <1>1 DEF TimerGuardsLease, Held
<1>2. ASSUME NEW f \in Flow, FlowStep(f) PROVE TimerGuardsLease'
  <2>0. ProviderOf[f] \in Provider
    BY Constants
  <2>1. CASE Acquire(f)
    <3>1. CASE UNCHANGED <<lease, timer>>
      BY <1>1, <2>1, <3>1 DEF Acquire
    <3>2. CASE /\ lease = None /\ Active(f)
               /\ lease' = ProviderOf[f] /\ timer' = timer \cup {ProviderOf[f]}
      <4>1. timer = {} /\ UNCHANGED state
        BY <2>1, <3>2 DEF TimerGuardsLease, Held, Acquire
      <4>2. Held'
        BY <2>0, <3>2, <4>1, Constants DEF Held, Active
      <4> QED BY <3>2, <4>1, <4>2 DEF TimerGuardsLease
    <3> QED BY <2>1, <3>1, <3>2 DEF Acquire
  <2>2. CASE Release(f) \/ Redirect(f) \/ (Reread(f) /\ stored = None)
    <3>1. ReleaseLease(ProviderOf[f], {f}) /\ UNCHANGED state
      BY <2>2 DEF Release, Redirect, Reread
    <3> QED BY <1>0, <2>0, <3>1, ReleaseKeepsTimer
  <2>3. CASE ~Acquire(f) /\ ~Release(f) /\ ~Redirect(f) /\ ~(Reread(f) /\ stored = None)
    <3>1. UNCHANGED <<lease, timer, state>>
      BY <1>2, <2>3 DEF FlowStep, Tokens, GiveUp, Reread, Present, Abandon, Save, Invalidate,
                        Exchange, Unanswered
    <3> QED BY <1>1, <3>1
  <2> QED BY <2>1, <2>2, <2>3
<1>3. ASSUME NEW p \in Provider, Create(p) PROVE TimerGuardsLease'
  <2>1. lease # None => lease # p \/ state[p] # "none"
    BY <1>0 DEF HolderIsActive
  <2> QED BY <1>0, <1>3, <2>1 DEF Create, TimerGuardsLease, Held, TypeOK
<1>4. ASSUME NEW p \in Provider, Deactivate(p) PROVE TimerGuardsLease'
  BY <1>0, <1>4, ReleaseKeepsTimer DEF Deactivate, TypeOK
<1>5. ASSUME NEW p \in Provider, Expire(p) PROVE TimerGuardsLease'
  BY <1>0, <1>5, ReleaseKeepsTimer DEF Expire
<1>6. ASSUME NEW r \in Process, Crash(r) PROVE TimerGuardsLease'
  <2>1. /\ lease' = lease /\ timer' = {p \in timer : HomeOf[p] # r}
        /\ \A p \in Provider : state'[p] = IF HomeOf[p] = r THEN "dead" ELSE state[p]
    BY <1>6 DEF Crash
  <2>2. CASE lease # None /\ HomeOf[lease] = r
    <3>1. ~Held' /\ timer' = {}
      BY <1>0, <2>1, <2>2 DEF Held, TypeOK, TimerGuardsLease
    <3> QED BY <3>1 DEF TimerGuardsLease
  <2>3. CASE lease = None \/ HomeOf[lease] # r
    <3>1. (Held' <=> Held) /\ timer' = timer
      BY <1>0, <2>1, <2>3 DEF Held, TypeOK, TimerGuardsLease
    <3> QED BY <2>1, <3>1 DEF TimerGuardsLease
  <2> QED BY <2>2, <2>3
<1>7. CASE TakeOver
  BY <1>7 DEF TakeOver, TimerGuardsLease, Held
<1>8. CASE Remove \/ UNCHANGED vars
  BY <1>1, <1>8 DEF Remove, vars
<1> QED BY <1>2, <1>3, <1>4, <1>5, <1>6, <1>7, <1>8 DEF Next

\* The lease of a process that lives has its timer at all times, and it alone has one:
\* LeaseIsReturned needs no more than that this timer fires.
THEOREM LeaseHasItsTimer == Spec => []TimerGuardsLease
<1>1. Init => TimerGuardsLease
  BY DEF Init, TimerGuardsLease, Held
<1> QED BY <1>1, NextTimer, RefreshInvariance, PTL DEF Spec
=============================================================================
