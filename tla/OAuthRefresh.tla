------------------------------ MODULE OAuthRefresh ------------------------------
(***************************************************************************)
(* The OAuth providers of one MCP server (src/src/oauth-provider.ts), in   *)
(* several processes that share its stored credentials, of which only the  *)
(* refresh token is modelled.  The flows of the SDK ask their provider for *)
(* the token, which takes the refresh lease of the server, present it, and *)
(* have the rotated one saved.  The calls of the store are steps here:     *)
(* AuthStore shows that they take effect at once.                          *)
(*                                                                         *)
(* The SDK and the authorization server are not part of the repository:    *)
(* flows of a provider may run at the same time, and may fail anywhere.    *)
(***************************************************************************)
EXTENDS Naturals

CONSTANTS
    Process,    \* Pi processes
    Provider,   \* the McpOAuthProvider objects of the server
    Flow,       \* runs of the SDK's auth, of which a provider may have several
    HomeOf,     \* the process of a provider
    ProviderOf, \* the provider of a flow
    None,       \* no token, no provider
    MaxToken    \* bound: refresh tokens that the authorization server issues

Token == 1 .. MaxToken

ASSUME RefreshAssumption ==
    /\ HomeOf \in [Provider -> Process]
    /\ ProviderOf \in [Flow -> Provider]
    /\ None \notin Provider \cup Nat
    /\ MaxToken \in Nat \ {0}

VARIABLES
    stored,   \* the stored refresh token, or None
    fence,    \* for each process, the provider that may write, or None
    lease,    \* the provider that holds the refresh lease (refreshLock), or None
    timer,    \* the providers whose refreshLockTimeout is set
    state,    \* of each provider
    pc,       \* where each flow is
    token,    \* the token each flow was given, or None
    fresh,    \* the token each flow was issued, or None
    issued,   \* how many tokens the authorization server has issued
    spent,    \* the tokens it has replaced
    reused,   \* the tokens presented to it after that
    exposed   \* the tokens that the lease no longer protects

server == <<issued, spent, reused>>
vars == <<stored, fence, lease, timer, state, pc, token, fresh, server, exposed>>

Step == {"idle", "acquiring", "reading", "holding", "rotated", "kept", "refused",
         "saved", "authorize", "browser", "dead"}

\* Flow f goes on with token t, issued n instead of it.
GoWith(f, step, t, n) ==
    /\ pc' = [pc EXCEPT ![f] = step]
    /\ token' = [token EXCEPT ![f] = t]
    /\ fresh' = [fresh EXCEPT ![f] = n]

Goto(f, step) == GoWith(f, step, None, None)

Active(f) == state[ProviderOf[f]] = "active"

MayWrite(f) == fence[HomeOf[ProviderOf[f]]] = ProviderOf[f]

\* The flows of p other than F that have a token they may yet present or save.
InFlight(p, F) == {f \in Flow \ F :
    ProviderOf[f] = p /\ pc[f] \in {"holding", "rotated"} /\ token[f] # None}

\* releaseRefreshLockEffect, which ends the protection of every flow of the provider.
ReleaseLease(p, F) ==
    /\ timer' = timer \ {p}
    /\ lease' = IF lease = p THEN None ELSE lease
    /\ exposed' = IF lease = p THEN exposed \cup {token[f] : f \in InFlight(p, F)} ELSE exposed

\* The token of a flow was replaced, and its replacement will not be stored.
Lost(f) == IF pc[f] = "rotated" THEN {token[f]} \ {None} ELSE {}

-----------------------------------------------------------------------------
(***************************************************************************)
(* A flow asks for the tokens.                                             *)
(***************************************************************************)

\* Mutant: the lease is not waited for.
TokensUnleased(f) ==
    /\ pc[f] = "idle"
    /\ state[ProviderOf[f]] \in {"active", "inactive"}
    /\ IF stored = None THEN Goto(f, "authorize") ELSE GoWith(f, "holding", stored, None)
    /\ UNCHANGED <<stored, fence, lease, timer, state, server, exposed>>

Tokens(f) ==
    /\ pc[f] = "idle"
    /\ state[ProviderOf[f]] \in {"active", "inactive"}
    /\ Goto(f, IF stored = None THEN "authorize" ELSE "acquiring")
    /\ UNCHANGED <<stored, fence, lease, timer, state, server, exposed>>

\* Mutant: the timer is not set.
AcquireForGood(f) ==
    /\ pc[f] = "acquiring"
    /\ \/ /\ lease = ProviderOf[f]
          /\ Goto(f, "reading")
          /\ UNCHANGED lease
       \/ /\ lease = None
          /\ lease' = IF Active(f) THEN ProviderOf[f] ELSE None
          /\ Goto(f, IF Active(f) THEN "reading" ELSE "idle")
    /\ UNCHANGED <<stored, fence, timer, state, server, exposed>>

\* The lease is this provider's already, whoever of its flows took it, or becomes so.
Acquire(f) ==
    /\ pc[f] = "acquiring"
    /\ \/ /\ lease = ProviderOf[f]
          /\ Goto(f, "reading")
          /\ UNCHANGED <<lease, timer>>
       \/ /\ lease = None
          /\ Active(f)
          /\ lease' = ProviderOf[f]
          /\ timer' = timer \cup {ProviderOf[f]}
          /\ Goto(f, "reading")
       \/ /\ lease = None
          /\ ~Active(f)
          /\ Goto(f, "idle")
          /\ UNCHANGED <<lease, timer>>
    /\ UNCHANGED <<stored, fence, state, server, exposed>>

\* The lock of the lease is not had in time.
GiveUp(f) ==
    /\ pc[f] = "acquiring"
    /\ Goto(f, "idle")
    /\ UNCHANGED <<stored, fence, lease, timer, state, server, exposed>>

\* Two flows that share a lease are given the same token.
Shared(f) == \E g \in InFlight(ProviderOf[f], {f}) : token[g] = stored

\* Mutant: credentials removed meanwhile are not noticed.
RereadUnchecked(f) ==
    /\ pc[f] = "reading"
    /\ GoWith(f, "holding", stored, None)
    /\ exposed' = IF lease # ProviderOf[f] \/ Shared(f) THEN exposed \cup {stored} ELSE exposed
    /\ UNCHANGED <<stored, fence, lease, timer, state, server>>

Reread(f) ==
    /\ pc[f] = "reading"
    /\ IF stored = None
       THEN /\ ReleaseLease(ProviderOf[f], {f})
            /\ Goto(f, "authorize")
       ELSE /\ GoWith(f, "holding", stored, None)
            /\ exposed' = IF lease # ProviderOf[f] \/ Shared(f)
                          THEN exposed \cup {stored} ELSE exposed
            /\ UNCHANGED <<lease, timer>>
    /\ UNCHANGED <<stored, fence, state, server>>

-----------------------------------------------------------------------------
(***************************************************************************)
(* The SDK presents the token and has what it gets saved.                  *)
(***************************************************************************)

\* The authorization server replaces the token, leaves it, or refuses it.
Present(f) ==
    /\ pc[f] = "holding"
    /\ \/ /\ token[f] \notin spent
          /\ issued < MaxToken
          /\ issued' = issued + 1
          /\ spent' = spent \cup {token[f]}
          /\ GoWith(f, "rotated", token[f], issued + 1)
          /\ UNCHANGED reused
       \/ /\ token[f] \notin spent
          /\ \E step \in {"kept", "refused"} : Goto(f, step)
          /\ UNCHANGED server
       \/ /\ token[f] \in spent
          /\ reused' = reused \cup {token[f]}
          /\ Goto(f, "refused")
          /\ UNCHANGED <<issued, spent>>
    /\ UNCHANGED <<stored, fence, lease, timer, state, exposed>>

\* The request fails, or its answer is lost: the SDK throws, with the lease still
\* held, or goes on to ask the user.
Abandon(f) ==
    /\ pc[f] \in {"holding", "rotated", "kept", "refused"}
    /\ \E step \in {"idle", "authorize"} : Goto(f, step)
    /\ exposed' = exposed \cup Lost(f)
    /\ UNCHANGED <<stored, fence, lease, timer, state, server>>

\* Mutant: a refresh token that is stored is kept even when a new one has come.
SaveOld(f) ==
    /\ pc[f] \in {"rotated", "kept"}
    /\ Goto(f, IF Active(f) THEN "saved" ELSE "idle")
    /\ stored' = IF Active(f) /\ MayWrite(f) /\ pc[f] = "rotated" /\ stored = None
                 THEN fresh[f] ELSE stored
    /\ exposed' = IF Active(f) /\ MayWrite(f) THEN exposed ELSE exposed \cup Lost(f)
    /\ UNCHANGED <<fence, lease, timer, state, server>>

\* saveTokens: the write is dropped if a newer provider has the fence, and may fail.
\* A provider that is no longer active does nothing.
Save(f) ==
    /\ pc[f] \in {"rotated", "kept"}
    /\ Goto(f, IF Active(f) THEN "saved" ELSE "idle")
    /\ \/ /\ Active(f)
          /\ MayWrite(f)
          /\ stored' = IF pc[f] = "rotated" THEN fresh[f] ELSE stored
          /\ UNCHANGED exposed
       \/ /\ exposed' = exposed \cup Lost(f)
          /\ UNCHANGED stored
    /\ UNCHANGED <<fence, lease, timer, state, server>>

\* invalidateCredentials("tokens"), or of everything, which no fence holds back.
Invalidate(f) ==
    /\ pc[f] = "refused"
    /\ Goto(f, IF Active(f) THEN "saved" ELSE "idle")
    /\ stored' \in IF Active(f) THEN {stored, None} ELSE {stored}
    /\ UNCHANGED <<fence, lease, timer, state, server, exposed>>

\* The end of saveTokens and invalidateCredentials.
Release(f) ==
    /\ pc[f] = "saved"
    /\ ReleaseLease(ProviderOf[f], {f})
    /\ Goto(f, "idle")
    /\ UNCHANGED <<stored, fence, state, server>>

\* redirectToAuthorization: the user is asked, where somebody listens for the answer.
Redirect(f) ==
    /\ pc[f] = "authorize"
    /\ ReleaseLease(ProviderOf[f], {f})
    /\ \E step \in {"browser", "idle"} : Goto(f, step)
    /\ UNCHANGED <<stored, fence, state, server>>

\* The code the browser brought is exchanged for tokens, without the lease.
Exchange(f) ==
    /\ pc[f] = "browser"
    /\ \/ /\ issued < MaxToken
          /\ issued' = issued + 1
          /\ GoWith(f, "rotated", None, issued + 1)
       \/ Goto(f, "refused") /\ UNCHANGED issued
    /\ UNCHANGED <<stored, fence, lease, timer, state, spent, reused, exposed>>

\* The user does not answer.
Unanswered(f) ==
    /\ pc[f] = "browser"
    /\ Goto(f, "idle")
    /\ UNCHANGED <<stored, fence, lease, timer, state, server, exposed>>

-----------------------------------------------------------------------------
(***************************************************************************)
(* Providers and processes.                                                *)
(***************************************************************************)

\* A new provider takes the fence from the one before, which stays active.
Create(p) ==
    /\ state[p] = "none"
    /\ state' = [state EXCEPT ![p] = "active"]
    /\ fence' = [fence EXCEPT ![HomeOf[p]] = p]
    /\ UNCHANGED <<stored, lease, timer, pc, token, fresh, server, exposed>>

\* deactivate: on initialize, close and removeAuth.
Deactivate(p) ==
    /\ state[p] = "active"
    /\ state' = [state EXCEPT ![p] = "inactive"]
    /\ fence' = [fence EXCEPT ![HomeOf[p]] = IF @ = p THEN None ELSE @]
    /\ ReleaseLease(p, {})
    /\ UNCHANGED <<stored, pc, token, fresh, server>>

\* removeAuth: the entry is removed.
Remove ==
    /\ stored' = None
    /\ UNCHANGED <<fence, lease, timer, state, pc, token, fresh, server, exposed>>

\* The lease has been held for 120 seconds.
Expire(p) ==
    /\ p \in timer
    /\ ReleaseLease(p, {})
    /\ UNCHANGED <<stored, fence, state, pc, token, fresh, server>>

\* A process ends; its lease stays until another process takes it over.
Crash(r) ==
    LET F == {f \in Flow : HomeOf[ProviderOf[f]] = r} IN
    /\ state' = [p \in Provider |-> IF HomeOf[p] = r THEN "dead" ELSE state[p]]
    /\ pc' = [f \in Flow |-> IF f \in F THEN "dead" ELSE pc[f]]
    /\ token' = [f \in Flow |-> IF f \in F THEN None ELSE token[f]]
    /\ fresh' = [f \in Flow |-> IF f \in F THEN None ELSE fresh[f]]
    /\ timer' = {p \in timer : HomeOf[p] # r}
    /\ exposed' = exposed \cup UNION {Lost(f) : f \in F}
    /\ UNCHANGED <<stored, fence, lease, server>>

TakeOver ==
    /\ lease # None
    /\ state[lease] = "dead"
    /\ lease' = None
    /\ UNCHANGED <<stored, fence, timer, state, pc, token, fresh, server, exposed>>

-----------------------------------------------------------------------------

Init ==
    /\ stored \in {None, 1}
    /\ fence = [r \in Process |-> None]
    /\ lease = None
    /\ timer = {}
    /\ state = [p \in Provider |-> "none"]
    /\ pc = [f \in Flow |-> "idle"]
    /\ token = [f \in Flow |-> None]
    /\ fresh = [f \in Flow |-> None]
    /\ issued = 1
    /\ spent = {}
    /\ reused = {}
    /\ exposed = {}

FlowStep(f) ==
    \/ Tokens(f) \/ Acquire(f) \/ GiveUp(f) \/ Reread(f)
    \/ Present(f) \/ Abandon(f) \/ Save(f) \/ Invalidate(f) \/ Release(f)
    \/ Redirect(f) \/ Exchange(f) \/ Unanswered(f)

Next ==
    \/ \E f \in Flow : FlowStep(f)
    \/ \E p \in Provider : Create(p) \/ Deactivate(p) \/ Expire(p)
    \/ \E r \in Process : Crash(r)
    \/ Remove
    \/ TakeOver

Spec == Init /\ [][Next]_vars

\* Timers fire while their process lives.
FairSpec == Spec /\ WF_vars(\E p \in Provider : Expire(p))

-----------------------------------------------------------------------------
(***************************************************************************)
(* Properties.                                                             *)
(***************************************************************************)

TypeOK ==
    /\ stored \in Token \cup {None}
    /\ fence \in [Process -> Provider \cup {None}]
    /\ lease \in Provider \cup {None}
    /\ timer \subseteq Provider
    /\ state \in [Provider -> {"none", "active", "inactive", "dead"}]
    /\ pc \in [Flow -> Step]
    /\ token \in [Flow -> Token \cup {None}]
    /\ fresh \in [Flow -> Token \cup {None}]
    /\ issued \in Token
    /\ spent \subseteq Token
    /\ reused \subseteq Token
    /\ exposed \subseteq Token

\* A token that was replaced is presented again only if the lease had stopped
\* protecting it: its provider was deactivated or out of time, its replacement could
\* not be stored, or two flows of one provider shared the lease
\* (acquireRefreshLockEffect, tokens).
NoReuse == reused \subseteq exposed

\* What is stored has not been replaced, but for the token that the holder of the
\* lease is about to replace in the store too, or one no longer protected.
StoredIsUsable ==
    stored \in spent \ exposed =>
        \E f \in Flow : /\ pc[f] = "rotated"
                        /\ token[f] = stored
                        /\ lease = ProviderOf[f]

\* A provider deactivated before or while it waits for the lease does not get it
\* (acquireRefreshLockEffect, deactivate).
HolderIsActive == lease # None => state[lease] \in {"active", "dead"}

\* A flow that was given a token holds the lease through its provider, or the token
\* is no longer protected; and no two flows hold the same protected token.
HoldersAreProtected ==
    \A f \in Flow : token[f] # None =>
        \/ token[f] \in exposed
        \/ /\ lease = ProviderOf[f]
           /\ \A h \in Flow \ {f} : ProviderOf[h] = ProviderOf[f] => token[h] # token[f]

\* A flow holds a token between being given it and saving what came for it, and until
\* it presents a protected token, nobody has had that replaced.
HeldTokensAreLive ==
    \A f \in Flow :
        /\ pc[f] = "holding" => token[f] # None
        /\ token[f] # None => pc[f] \in {"holding", "rotated"}
        /\ pc[f] = "holding" /\ token[f] \in spent => token[f] \in exposed

\* A token that was issued to a flow is known to nobody else until it is stored.
FreshTokensAreNew ==
    /\ stored # None => stored <= issued
    /\ \A t \in spent : t <= issued
    /\ \A f \in Flow : /\ token[f] # None => token[f] <= issued
                       /\ fresh[f] # None => fresh[f] <= issued
    /\ \A f \in Flow : pc[f] = "rotated" =>
          /\ fresh[f] \notin {None, stored} \cup spent
          /\ \A h \in Flow : token[h] # fresh[f]
          /\ \A h \in Flow \ {f} : fresh[h] # fresh[f]

\* The flows of a process end with it.
FlowsEndWithProcess == \A f \in Flow : state[ProviderOf[f]] = "dead" => pc[f] = "dead"

\* The inductive invariant behind the properties.
RefreshInv ==
    /\ TypeOK
    /\ NoReuse
    /\ StoredIsUsable
    /\ HolderIsActive
    /\ HoldersAreProtected
    /\ HeldTokensAreLive
    /\ FreshTokensAreNew
    /\ FlowsEndWithProcess

\* A process that lives has the lease.
Held == lease # None /\ state[lease] # "dead"

\* The lease of a process that lives always has its timer, and no other timer is
\* set: no flow, deactivation or crash leaves a lease that nothing would end, or a
\* timer that ends the lease of a later flow too early (acquireRefreshLockEffect,
\* releaseRefreshLockEffect).
TimerGuardsLease == timer = IF Held THEN {lease} ELSE {}

\* The lease is given back, even when the SDK never calls the provider again.
LeaseIsReturned == Held ~> ~Held
=============================================================================
