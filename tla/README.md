# A TLA+ development of pi-suite's MCP extension

pi-suite is an extension of the Pi coding agent that connects it to MCP servers. Its program is `src/src/*.ts`
(25 files); `src/repos/opencode` is a vendored copy of another program that nothing here runs. The modules in this
directory model the parts of the program whose correctness depends on the order in which callbacks, awaits, users,
servers and other processes act.

## The system

| component | state | operations | what is hard |
|---|---|---|---|
| connection manager (`manager.ts`) | `config`, `revision`, `closed`, `statuses`, `clients`, `manuallyDisconnected`, `connectionAttempts` | initialize, close, connect, connectAll, disconnect, a client's close and tool-list notifications | every operation awaits; an attempt's checks run long after its start; attempts are shared and interrupted |
| OAuth callback listener (`oauth-callback.ts`) | `server`, `currentPort`, `currentPath`, `pendingByState`, `stateByServer` | start, wait (five-minute timeout), cancel, close, HTTP requests | one listener for all flows, restarted for another address, stopped when idle, closed asynchronously |
| OAuth credential store (`auth-store.ts`) | the shared JSON file, its lock, write fences, refresh leases | get, set, remove, fenced updates, acquireOAuthRefreshLock | several processes, crashes, locks that are taken over |
| OAuth provider (`oauth-provider.ts`) | `active`, `refreshLock`, its timeout | tokens, saveTokens, state, invalidateCredentials, deactivate | refresh tokens are single-use, and providers of a server replace each other |
| manager OAuth flow (`manager.ts` 534-580, 852-949, 1028-1045) | `pendingOAuthTransports`, `oauthProviders` | authenticate, removeAuth, a client's own authorization | minutes pass between its steps; logins and attempts share one state, verifier, transport and fence; it writes `clients` without an attempt |
| resource subscriptions (`manager.ts` 403-454, 1070-1080) | `resourceSubscriptions` | subscribe, unsubscribe | recorded after an await |
| catalog reads (`catalog.ts`, `timeout.ts`) | none | paginated lists | repeated cursors, page limits |
| extension entry (`index.ts`) | `manager`, `config`, `configGeneration`, `registeredToolNames` | session start and shutdown, reload, background refresh | late refreshes after a reload or shutdown |
| forms (`answer-flow.ts`, `questions.ts`, `elicitation.ts`) | pages, values, drafts, the one input owner | keyboard input, abort | long legal sequences; one terminal for all requests |
| configuration, formatting, command and overlay | none that outlives a call | parsing, rendering | pure |

index.ts owns one manager per session; the manager owns one callback listener, the clients and their OAuth providers;
providers write through the manager's AuthStore into a file that every Pi process of the user shares.

What makes each part correct:

- manager: no two offered tools share a name; a client is stored only over none, for the configuration of the moment, and never
  for a server the user disconnected; what is shown agrees with what is stored; every connected client is stored, in the hands
  of an attempt, or closed; attempts end and `connectAll` returns.
- listener: a state leads to a flow that waits for it, a waiting flow stays registered, and it listens while anybody waits.
- store: concurrent calls of several processes take effect one at a time, whole or not at all, on top of each other; a provider
  that was superseded writes nothing; every call ends.
- provider: a single-use refresh token is presented once; a lease that was taken is given back.
- forms: one owner of the terminal; what is submitted is valid, complete, and what the user typed for that very field.
- extension entry: whatever overlaps, Pi's active tools become those that the manager has.
- manager OAuth flow: a login that has the server to itself gets the grant the user gave it, whatever was left behind; removed
  credentials stay removed; a login stores its client over none.
- subscriptions: what is recorded belongs to the client that is stored, what is shown is what the server has, and the server has
  nothing that nobody could cancel.
- pagination: a list ends, with every page once, or fails.

PROJECT.json lists the components with their status and the hazards with their lines.

## How the code becomes steps

The program is single-threaded JavaScript: an action is the code between two awaits, whole, with every call it makes.
`Effect.runFork` runs up to the first await at once; `Fiber.interrupt` drops a fiber where it waits, and runs no
finalizer of an attempt because it has none. A `throw` inside `Effect.gen` (in `connectTransportEffect`,
`paginateEffect`) is a defect that `Effect.catch` does not see: the attempt dies without closing its client.
`Effect.race` may leave a caller waiting for its own signal after a failure of the attempt; it is modelled as a choice.

## Modules

**McpManager** models the connect lifecycle. `clients[s]` is the number of the attempt that connected the stored client
(0 for none); `att[s][n]` is attempt n of server s with its program counter, the revision it read, its abort signal, and the
previous client while it has yet to close it (`old`); `inflight` is `connectionAttempts`; `live` holds the connected clients whose close was never called;
`parting` those that a disconnect, an initialize or a close took out of the map and has yet to close: `disconnectClientEffect` and
`closeClientsEffect` close modern resource subscriptions before the clients, and await that. `Modern` are the servers that may have some
open (their records are Subscriptions'), and any call may find them open or not. An interrupted attempt keeps its `old`, which nobody will close.
`sweep` are the connectAll calls that wait; `ctl` is where an initialize or a close stands. The callers of `connect` keep
no state of their own. Tools are abstract, and `ToolKey` maps a server and a tool to the name Pi registers, so that two
may coincide. `Remote` are the servers with a second transport to try and with authorization; every server offers tools, and an
invalid command or URL is one of the ways `ConnectFails`. History: `ousted` are the clients that a refresh of an older client took
out of the map.
One initialize and one close are in flight at a time, and they may overlap each other. Interactive authentication, whose
`storeClientEffect` writes `clients` without an attempt, is in ManagerAuth: the properties here are about the connect lifecycle
without it.

**ClientMap** is what McpManager promises of its map of clients to those who look a client up: each client is asked for once, by
the one request its server has at a time, and kept at most once, only where none is, for the generation it was asked for, while the
manager is open and the server is wanted; it may be lost at any time and never comes back; initialize and close first end the
generation and later empty the map. Attempts, their awaits, tools, statuses and signals are hidden: an attempt that has yet to store
is a request that is `pending` (`Stage`, `Asks`).

**ManagerAuth** models interactive authorization for one remote server. An actor is a login (`authenticate`), an attempt to
connect, or, once its client is stored, that client, which may be asked for more authorization and then runs
`finishInlineAuthorization`, once. An actor makes one transport with one provider, and its name also stands for the state, the
verifier, the code and the tokens it makes. `entry` is the server's entry in the store, `fence` the provider whose fenced writes count,
`pendingTransport` and `connectionAttempt` the maps' values for the server, `pendingByState`, `stateByServer` and `callback`
the listener's waits, which a browser (`Answer`), the timeout or a cancel ends. The SDK asks the provider for a state, has it save
the verifier and redirects (`Challenged` to `Redirect`), and goes on doing so after an attempt has timed out. An exchange succeeds
only with the verifier of the URL the code was given for, which the authorization server sees to (PKCE). `ender` is the one
removal of the credentials or the one shutdown. History: `disturbed` are the logins during which somebody else took a step
(the browser and the timers of waits are not somebody else), and `removed` whose credentials were removed.

**Subscriptions** models the calls about one resource of one server. `record` is the entry of `resourceSubscriptions`, `live`
what the server has: a modern `listen` is a subscription of its own, a legacy one belongs to its client. The server may serve
requests in another order than they were sent in, and an answer may be lost after it did. Clients come one after another, by
`ConnectBegin`, which sweeps the records, and `ConnectEnd`, before which the old client has closed and its requests have ended.
History variables say which calls overlapped an unsubscribe (`crossed`), one another (`doubled`) or a sweep (`overtaken`), and
which subscriptions a failed request left open to doubt (`lost`).

**OAuthCallback** models the listener. A flow is one `startEffect` and the `waitForResultEffect` that follows it with no
await between, as both callers in manager.ts have it; the HTTP server it may create has its name. `socket` is what Node's
server does: it stops listening at `close()`, and calls back (`Drained`) when its last connection is gone.

**AuthEntries** is what the credential store promises: each call changes the entries once, at once, on top of what all calls
before it left. **AuthStore** is how auth-store.ts does it. A call has a program counter through the mutex of its process,
the lock of the file, the read, the write to a temporary file with its rename, and the release; a process may crash between
any two of these, and proper-lockfile takes the lock of a dead holder over. A live holder that stalls so long that its lock
is taken is ended by the exception proper-lockfile raises by default, so it counts as crashed. The write fences are
`active[r][m]`; a fenced call looks at its fence when it computes what to write, as the code does. A process has one
AuthStore (index.ts makes one manager at a time). The file is the entries it parses to, so that malformed ones, which
parsing drops, are absent. A file that is no JSON at all makes `JSON.parse` throw inside `Effect.gen`, which the `catch` of the read
does not see: the call dies and changes nothing (`ReadDies`; it may happen to any call, since others may write that file).
`ReadsFail` says whether reading the file may fail while it can be written; the code then goes on with an empty store.

**OAuthRefresh** models the providers of one server, in several processes, and the flows of the SDK that ask them for tokens.
Only the refresh token is modelled, as a number. The store's calls are single steps here, which the refinement of AuthStore
justifies. The SDK and the authorization server are external: the server replaces a token, leaves it, or refuses it; an answer
may be lost. The lease's timer may fire at any time. Stored entries are taken to carry an issuer, so the SDK's
back-stamping write, on which saveTokens keeps the lease, does not occur. Three history variables record what the properties
speak about: `spent` are the tokens that were replaced, `reused` those presented after that, and `exposed` those which the
lease stopped protecting while somebody used them. A token becomes exposed only when: its provider is deactivated or its
lease times out while a flow holds the token; a second flow of the provider, which shares the lease, is given it too or
releases the lease; or its replacement is dropped by the fence, not written, lost with the answer or with a crash.

**AnswerFlow** models the forms: the agent's questions, servers' elicitations and consents, which share one terminal. `owner`
is the request that holds `inputOwner`, `stage` says how each request stands, and `page`, `editing`, `input`, `values` and
`drafts` are the state of the one form there is, whose last page is the review. Each key is an action; the arrows and page keys,
which only move a cursor, are not, so any option may be the one chosen. An answer is a set of texts; `Accepted`, a constant, holds
the answers that a field's validator takes, which stands for schemas and their conversion (for the agent's questions it is
translated: `QuestionAccepts`). Where there is no terminal (`mode`), the same request is asked by Pi's dialogs. A request may be
aborted at every await, and while its form is being built, before it listens to the signal. `latest` is a history variable:
the text that the user typed last for a field and has not chosen, confirmed or omitted over since.

**ToolRegistry** models index.ts over an abstract manager. `load` holds the loads of the configuration, one of
`session_start` and the others of `/mcp`'s reload, each with the manager, the generation and the previously registered names it
keeps in local variables across `initializeEffect`. A reload's `connectAll` may fail, when an attempt it joined is aborted or
interrupted for somebody else (`ReloadFails`), and then registers nothing. `initializeEffect` has no such step: its closes ignore
their errors and index.ts passes no `onStatusChanged`, so it can hang but not fail, and the names a load moved to `previous` are not lost.
`refresh` is the background refresh with what it captured. The manager's
tools change as they like. `news` says whether it has yet to call `onToolsChanged`: McpManager shows the steps where it does not
at once (a client is taken out to disconnect or reconnect), and those where it never does (the reconnect's list fails, is
aborted or superseded). `active` are only the tools this extension registered; a user who deactivates one in Pi is left
out. Pi is external: it loads the extension anew for the next session, and calls no command after `session_shutdown`.

**McpManagerProofs**, **ManagerAuthProofs**, **SubscriptionsProofs**, **OAuthCallbackProofs**, **AuthStoreProofs**,
**OAuthRefreshProofs**, **AnswerFlowProofs** and **ToolRegistryProofs** hold the theorems; the **MC** modules give the constants their values for TLC.

## Runs

| run | instance | shows |
|---|---|---|
| manager_lifecycle | 1 local server, any configuration, 2 revisions, 2 attempts, a signal, throwing callbacks; initialize, close, connects, a connectAll, disconnects and aborts overlapping | nothing in flight survives a reconfiguration or close in the store; the map of clients implements ClientMap, and holds none of a disconnected server; attempts end and connectAll returns |
| manager_servers | 2 servers with coinciding tool names, one remote (1 attempt), one with modern subscriptions (2 attempts), a refresh of each client, disconnects, an initialize or close | no two stored tools have one name; live clients are owned |
| manager_status, manager_close_leak | smallest that show it | two disagreements of code and comments, below |
| manager_auth | 2 logins and an attempt; or two of the three and a removal or a shutdown | undisturbed logins get their grant and store over nothing; removed credentials stay removed |
| subscriptions | 3 subscribes, 2 unsubscribes, 3 clients, each modern or legacy | records, server and what is shown agree; nothing is left that nobody could cancel |
| callback_waits | 4 flows, two with one state, 2 ports, 1 closer | maps, waits and listener agree |
| auth_store | 2 processes, 3 writers (one of a provider that may be superseded), 1 reader | the store implements AuthEntries; a superseded provider's call changes nothing; calls end |
| auth_unreadable | the same with a `clearDiscoveryState` and `ReadsFail` | one disagreement of code and comment |
| oauth_refresh | 2 processes, 3 providers of a server, 3 flows, 2 tokens | a replaced token is used again only if the lease stopped protecting it; the lease is returned |
| answer_flow | 3 requests: 2 questions, a server's form of 3 fields, a consent; every key, aborts, dialogs | one owner of the terminal; what is submitted is valid, and is what was typed for that field |
| tool_registry | session start, a reload, 3 configurations (direct, eager, proxy), 2 tools | no active tool is forgotten; at rest Pi has the manager's tools, and it gets there |

Bounds: `MaxAttempts` (and `MaxStarted`, by server), `MaxRefresh` and `MaxRevision` cap what a run can start; each is enough for an
attempt to be overtaken by another, by a disconnect and by a reconfiguration. The connection manager's state does not fit one run, so
there are two. manager_lifecycle has one server and everything that reaches an attempt from outside: `SweepReturns` is checked there over a
connectAll without a signal that starts an attempt or joins one of another caller, while that caller's signal aborts the attempt, a
failing callback, a reload or a close ends or interrupts it, and another attempt follows (a caller with a signal
may stay parked, and is not promised an answer). What it leaves
out is a connectAll that waits for two servers at once, and the second transport of a remote one; for these the theorems
`SweepsAreAnswered` and `AttemptsGoOn` hold, neither of which needs fairness. manager_servers has two servers, whose
lists meet at the collision check, and the closes that modern subscriptions delay; a client of `b` may be replaced while its refresh is in
flight. Two refreshes of one client are beyond it: only the theorem `KeysAreUnique` covers them.

`Spec` has no fairness. `FairSpec` gives weak fairness to
the steps of an attempt only: connects and lists have timeouts, closes and callbacks settle. Users, signals, servers,
initialize, close and disconnect owe nothing. The listener gets no fairness: a browser may keep its connection open. A call of the
store runs once, and it goes on while its process lives: file operations settle, the mutex is a queue, the retries for the
lock end. Each process may crash at any step, once. `MaxToken` = 2 lets one token be replaced, and so be presented again by
any of the other flows; the only fairness there is that timers fire. In answer_flow each field that takes text has one or two texts, a good and a bad one
or a new one and an option's, so that an answer is typed, replaced and found invalid; keys need no bound, as a form has
finitely many states. In manager_auth `Part` lists who takes part: two logins with an
attempt between them, or two actors with a removal or a shutdown, which is enough for each to leave something behind that another
meets, and for either to overlap the other anywhere. A client asks for more authorization once. In subscriptions three clients let a
call of the first meet the record of the second and the sweep for the third. Neither has fairness: users and browsers owe
nothing, and a login may wait for its timeout. In tool_registry a load runs once; two overlap in every
order, the second after, during or before the first's await. Its `FairSpec` has loads go on (files are read; `connectAll`
returns, which manager_lifecycle checks of it; `initializeEffect` returns, which is assumed, since McpManager lets an initialize hang in
a close that never answers) and the manager tell or lapse what it has to tell; tools, commands
and the session's end owe nothing.
`CHECK_DEADLOCK FALSE` is used where bounds or one-shot flows let the instance stop.

## What the checks found

- the status and the stored client fall out of step: a failing `tools/list` leaves the status connected with no client
  (manager.ts:633), which the run shows; and disconnect, then connect, while tools are listed stores the client, shown as disabled
  with its tools hidden (manager.ts:311).
- close interrupts an attempt that lists tools and leaves its connected client open (manager.ts:1104); and an attempt that waits
  for the close of modern subscriptions leaves its server's previous client open (manager.ts:1065).
- a read of the credentials file that fails counts as an empty store, and the next write erases everything (auth-store.ts:329).

Met while modelling, and not runs of their own: the listener compares redirect addresses before its awaits only, so two
overlapping flows with different ones may leave one waiting where nothing listens (oauth-callback.ts:51); a second flow of a
server with another state hides the first from cancel (oauth-callback.ts:76); a load in flight when the session ends makes a
manager that nobody closes (index.ts:98); a reconnect that fails listing tools leaves the tools of the old client registered
until something else registers (manager.ts:643), which `RegistryCatchesUp` therefore excludes.

Of the OAuth flow: a connect that overlaps a login may replace its pending transport (manager.ts:741), the stored verifier and the
fence, so that a login which the user has approved fails, or saves nothing; so may a second login of the server (manager.ts:529). A
login that needed no authorization and a connect may each store a client over the other's, which stays open (manager.ts:1031), and
one whose `tools/list` fails (manager.ts:545) leaves its client open and stored nowhere. This is why the properties are about logins that are not
disturbed. Of subscriptions: one that is recorded after its client was swept makes later subscribes return without asking the
client of the moment (manager.ts:413, `overtaken`), and of two modern subscribes in flight at once the first one's listen can no longer be
cancelled (manager.ts:417, `doubled`). Of lists: `paginateEffect` throws inside `Effect.gen` (catalog.ts:46), so that one server with too many
pages ends the listing of all servers, whose other failures are reported one by one; and the `catch` of
the command's loop (mcp-command.ts:104) is never reached by an Effect that fails, or dies, in it.

## Proofs

For all values of the constants, from the assumptions the modules name. `Invariance`: `ManagerInv` is inductive; beside
the checked invariants it needs `NoClientBeforeStore` (an attempt that has yet to store took the server's client out, and
no other can store one meanwhile), which is what makes a store never overwrite (`StoresAreFree`).

`Custody`: `CustodyInv` adds that a number not given out names no attempt, so that a new attempt leaves the owner of every live client as
it is. A client becomes live only in the hands of its attempt (`Connected`). A step that takes one out of the map closes it, or hands it to
whoever will, after the subscriptions: the new attempt (`old`), or the disconnect, initialize or close (`parting`); each of these gives it
up only by closing it. An interrupted attempt keeps both its own client and `old`, which the property therefore allows, and a
refresh of an older client records what it takes out in `ousted`; from there `ClientsAreOwned`. What a call does is one lemma for `connect` and
`connectAll` (`Forked`: the servers that get an attempt, and what it starts from), and it serves every later argument.

`ManagerKeepsClientMap`: from `CustodyInv` each step of the manager is a step of ClientMap or a stutter: the calls are `Request`
(no server has two, since `OneRegisteredAttempt`), the store is `Keep` (the checks at manager.ts:646 and `NoClientBeforeStore` are its
guard), every failure, abort and interrupt is a `GiveUp`, and initialize and close are `Begin`, `Clear` and a `GiveUp`.

Two theorems are what of progress needs no fairness. `AttemptsGoOn`: whoever changes an attempt, itself, a signal or an interrupt, lowers
`StepsLeft`, and nothing changes it otherwise, so an attempt ends after at most nine steps. `SweepsAreAnswered`: a connectAll without a signal waits for
attempts that run, and for one at least, so an attempt that ends has answered all that wait for it. What `AttemptsEnd` and
`SweepReturns` add is that a step that can be taken is taken.

`CallbackInvariance`: `CallbackInv` is inductive; `Waits` (maps and flows agree) and the listener's part are proved apart. From it `WaitsAreAnsweredOnce`:
whatever ends a wait finds one that has not ended, so what a flow was told stays.

`StoreInvariance`: `StoreInv` says that only the holder of the lock is between reading the file and releasing, and that what
it is about to write is its change to the file as it still is. From it `StoreIsAtomic` maps every rename to a `Commit` of
AuthEntries and every other step to a stutter, `FencedCallsChangeNothing` follows because a fence that has been lost never
returns, and, with `ReadsFail` false, `CallsKeepToTheirParts`: what the run with failing reads refutes holds without them.
`MutexSerializes` adds to `StoreInv` that each mutex has the one call past its queue, and that a process's calls die together. With
`LockIsInUse` it gives `WaitersAreNotStuck`: mutex and lock never wait for each other, because the lock is only taken inside the
mutex, so that whoever is waited for can go on or, for the lock, is dead and taken over. `CallsGoOn`: no call goes back. Together they
are what `CallsEnd` rests on besides fairness.

`RefreshInvariance`: `RefreshInv` adds to the checked invariants that a flow holding a token either has the lease through its
provider, alone with that token, or holds an exposed one (`HoldersAreProtected`); that a held token is not yet spent
(`HeldTokensAreLive`); and that a token just issued is known to one flow (`FreshTokensAreNew`). Most steps only take holders,
tokens or the lease away and add to `exposed`, which keeps the first two; the four that give something, `Reread`,
`Present`, `Save` and `Exchange`, are argued one by one. `LeaseHasItsTimer`: the timers that are set are exactly the lease's, while its
process lives, so `LeaseIsReturned` needs only that it fires.

`AnswerInvariance`: `AnswerInv` adds that the text last typed is in the input, a draft or the answer (`DraftsAreTyped`), that
the form is its owner's and has that owner's fields (`FormIsTheOwners`), and that dialogs hold valid answers to what was asked so
far (`DialogsAreValid`). `RegistryInvariance`: `RegistryInv` adds `LoadsKeepNames`: only an initializing load keeps names, and what is
registered is active. Overlapping loads are safe because the names move from the registry to exactly one load at a time.

ManagerAuth has three arguments. `RemovalHolds`: whoever's credentials were removed had a provider by then (`RemovedWereMade`),
has lost the fence, and no provider is made twice (`NotYetMade`), so none of them gets it back (`RemovedLostTheFence`); unfenced writes
bring no tokens. `GrantsAreKept`: states are fresh, none is in the entry, a URL or a wait before its login has made it
(`StatesAreFresh`), and `Grant(f)` says, for each place an undisturbed login f can be, what of the shared state is f's by then: its state
in the entry and the wait under it from `updating` on, the fence and then the verifier while the SDK runs, the pending transport once it is
captured, its own code when the wait ends. A step of another actor disturbs f; the browser's and the timer's are the ones that remain to be
argued. Both rest on `WaitInv`: a wait is registered under the key of its actor, and only logins and inline authorizations wait.
`LoginsStoreFreely`: an undisturbed login finds the store as it left it when it took the old client out.

`RecordsStayInAgreement` and `LiveStaysKnown`: a record's call has its client and is no longer in flight, each modern subscription is
the work of one call, and each way a record and the server part is one of the histories' cases.

Liveness (`CallsEnd`, `LeaseIsReturned`, `RegistryCatchesUp`, the progress of connects) is model-checked only, being temporal under
fairness; every safety property that a run checks is proved. `ServerListens`, `LockIsInUse` and `HolderIsActive` are parts of the inductive invariants
that are proved, and no run names them apart.

## Not modelled

- tool calls, prompts, completions and resource reads of the manager, and what `status` and `getToolEntries` return: they change no
  state of the manager; their requests are the SDK's.
- pagination's loop (`catalog.ts`): its pages are local variables of one call. How a list ends is in McpManager. Configuration, tool
  names, schemas, display and line references are conversions without state; the merging of names is the constant `ToolKey`.
- the command, the overlay and the browser of resources: user interface, whose calls are the arbitrary calls of the models.
- client registration, discovery and the issuers of stored credentials, the SDK's back-stamping write, and grants without a user.
- refusals of stored tokens (`invalidateCredentials`) during a login: OAuthRefresh has them, ManagerAuth does not.
- `src/repos/opencode`: a vendored copy of another program, which nothing here builds or runs. It is nearly all of the
  repository's source lines; of the extension's own 25 files the modules stand for about a third of the lines.

What could come next: ToolRegistry composed with McpManager, so that `news` is derived instead of assumed; and the store's atomicity carried into ManagerAuth by an instance.
