# TLA+ verification of OpenKey

OpenKey is an account and key service: people sign in with a passkey, the service keeps
managed Ethereum keys sealed, and applications obtain TinyCloud delegations signed by those
keys. Its core logic is a set of protocols over shared database rows, run by handlers that
wait on nodes, key unsealing and the OAuth provider between their reads and their writes.
These modules model those protocols. TLC checks them on small instances, and TLAPS proves their
safety properties, and their liveness under fairness that is written out, for every value of the
constants; section 5 says from which assumptions, and names the exceptions.

## 1. The system

### Components

| part | code (`apps/api/src` unless said otherwise) | state | operations |
|---|---|---|---|
| Native delegation requests | `services/native-delegation/par.ts`, `policy.ts`, `routes/native-delegation-consent.ts`, withdrawal triggers in `packages/db/prisma/migrations/20261007_0001_*` | `tinycloud_native_request`, `_preparation`, `_consent_generation`, `oauth_consent` | PAR, resolve, prepare, approve, deny, host, sweep, withdraw |
| Native delegation grants | `code-exchange.ts`, `renew-revoke.ts`, `interceptors.ts`, `provider-tokens.ts`, guard triggers in `20261007_0003_*` | `tinycloud_native_grant`, `oauth_refresh_token`, `oauth_access_token`, provider codes | exchange, renew, recover, revoke, withdraw |
| Session proofs, rate limits | `session-proof.ts`, `user-rate-limit.ts` | `oauth_proof_jti`, counters | verify once, count |
| Device authorization | `services/device-authorization*.ts`, `routes/device-authorization.ts`, `routes/device-delegation-window.ts` | `device_authorization` | start, lookup, approve, poll, acknowledge, wipe |
| Approval requests | `services/approval-*.ts`, `routes/approval-requests.ts` | `approval_request` | register, approve, deny, discover, fetch, acknowledge |
| Delegation codes | `routes/delegation-codes.ts` | `delegation_code`, `_claim` | create, consume, claim, acknowledge, delete expired |
| Prepared handoffs | `services/prepared-handoff*.ts` | `prepared_handoff` | claim, bind, reserve, complete, cancel |
| Account bootstrap | `services/tinycloud-bootstrap*.ts` | `tinycloud_bootstrap_state` | claim the lease, heartbeat, complete, fail, sweep, reap |
| MCP connections | `mcp-*.ts`, `session-cap.ts`, `revoked-access-token.ts` | `session`, `revoked_access_token` | refresh, extend, cap, revoke |
| Manage-key control | `tinycloud-manage-key-*.ts` | mode and epoch of the user, preferences | change mode, change grant, decide |
| Signing routes and guards | `routes/delegate*.ts`, `authorization-signing.ts`, `siwe-*.ts`, `passkey-freshness.ts`, `app-key-*.ts` | signing contexts and nonces | prepare, sign, complete |
| Keys, accounts, organizations, OAuth administration | the other routes | their rows | single-row edits |
| SDK in a page | `packages/sdk/src/index.ts` | calls, windows, timers, `lastAuth`, `this.popup` | connect, sign, sign out, disconnect, OAuth connect |
| Web application, other packages, CLI | `apps/web`, `packages/*` | client storage | call the API |

`PROJECT.json` lists every part with its status, and every hazard with its line.

### How they interact

The web application and the CLI call the routes. The routes call the services, which keep no
state of their own but a few timers: everything shared is a row. The native delegation also
hangs from the OAuth provider (Better Auth). The provider's consent endpoint writes
`oauth_consent`, and database triggers on that table withdraw requests and grants; its token
endpoint deletes the code, calls `exchangeNativeCode` and `generateNativeRefreshToken`, and then
inserts the token rows in statements of its own, where triggers guard them again.

### What is hard

* Handlers read, wait (peer lookup, unsealing, ciphertext) and then write. Whatever they read may
  be stale: `prepare` and `approve`, renewals, bootstrap claims, device approvals.
* The code exchange is four separate commits of the provider and its hooks, and the process may
  die between any two.
* Consent can go and come back at any moment. Nothing granted under the earlier one may survive.
* Responses get lost: renewals, claims, device results and acknowledgements are repeated.
* Time: request, grant, token, lease and retention deadlines meet administrators' edits.
* The SDK's promises are settled by messages, clicks, timers and wallets, over windows that several calls share.

### What makes each part correct

* Requests: approvals are of the newest preparation, by the owner, signed once, current with the
  consent generation; final states are final; rows go in the end.
* Grants: a renewable token always has an ACTIVE grant of a present consent; one grant per
  request; a lost response is recoverable, once; no delegation outlives its grant.
* Device authorization, approval requests, codes, handoffs: one decision per request, one
  result, available again until acknowledged, never after its retention.
* Bootstrap: one run at a time, a complete account stays complete, an abandoned row is taken up.
* MCP: a connection that stands is refreshed; what was disconnected or revoked stays so; no session outlives its cap.
* SDK: a call is answered or keeps a deadline; it takes its own answer; a sign-out is not undone by an older widget.

## 2. Plan

Order: the most shared state first. All of it is done.

1. `NativeRequests`, `NativeRequestsProofs`.
2. `NativeDelegation` (extends 1), `NativeDelegationProofs`.
3. `BootstrapLease`, `BootstrapLeaseProofs`, for one account.
4. `OneResult`, an abstract one-time handoff, and `DeviceAuthorization`,
   `DeviceAuthorizationProofs`, which implement it.
5. `PreparedHandoffs`, `PreparedHandoffsProofs`, a second implementation.
6. `ApprovalResults` and `DelegationCodes`, over the clock of `WallClock`, and `RelaysProofs`: the
   third and the fourth.
7. `ManageKeyControl`, `ManageKeyControlProofs`.
8. `McpConnection`, `McpConnectionProofs`.
9. `WidgetFlows`, the SDK inside a page; its proofs are in `RelaysProofs`.

What could follow: the locks that the transactions of 2 take, one action each, to look for a cycle
(they are one step now); the single use of a session proof; the session an SDK stores on the device.

The project keeps to a dozen runs, so that all of them can be repeated on every change. Type
invariants are proved, and left out of the runs.

## 3. The modules

### NativeRequests

One variable per table (`consent`, `generation`, `key`, `ceiling`, `req`, `prep`), the clock
`now`, the handlers in flight `tab`, and `sweeping` (the sweep timer of the process).

| action | code |
|---|---|
| `Par`, `Resolve`, `Sweep` | `handlePar`, `resolveRequestUri`, `sweepNativeRequests` |
| `PrepareRead`, `PrepareCommit` | `POST /:id/prepare` before and inside its transaction |
| `ApproveRead`, `ApproveCommit`, `ApproveAgain` | `POST /:id/approve` before and inside its transaction |
| `SendAgain` | one page sends its `POST /:id/approve` twice: a second handler with the same body |
| `MarkHostSigned`, `RecordHosting` | the two writes after the approval committed |
| `Deny` | `POST /:id/deny` |
| `Abandon` | a refusal, a timeout or a crash between two steps |
| `AcceptConsent`, `ConsentLost` + `WithdrawRequests` | the provider's consent endpoint, the triggers on `oauth_consent` |
| `RedeemRequest` | the swap inside `exchangeNativeCode` |
| `ChangeKey`, `ChangeCeiling`, `Tick` | the rest of the service and time |

`RequestSpec` is the life of a request without codes and grants. `NativeDelegation` changes requests through
the same operators, so a refinement between the two would say nothing; what holds of the requests there is
proved of the whole (`RequestsInTheWhole`).

### NativeDelegation

Extends `NativeRequests` with `code`, `grant`, `refresh`, `access` and the calls in flight
`renewer`. The exchange is `SpendCode`, `Redeem`, `LinkToken`, `InsertRefresh`, `InsertAccess`,
with `FailExchange` after any of them. Renewal is `LoadRenewal` (no lock), `UnsealAndRetry`, then
`Rotate` (current token) or `Recover` (previous token). `Withdraw` is the whole withdrawal trigger.
`owner` and `uses` are history: the grant a token was generated for and how many renewals took it.

### BootstrapLease

The setup of one account: `row` is its line of `tinycloud_bootstrap_state`, `run` what each runner is
in the middle of. A runner is an approval (with its background retries) or the sweep of an API
instance. A runner reads the row and the clock, and its statement takes effect later.

| action | code |
|---|---|
| `ReadState`, `Claim` | an approval in `ensureTinyCloudBootstrap`, `acquireBootstrapLock` |
| `SweepObserve`, `SweepRead`, `SweepClaim` | `sweepTinyCloudBootstrapOnce`: candidates, the read of the run it starts, the compare-and-set |
| `StartWork`, `Heartbeat`, `HeartbeatError`, `PassDeadline` | `withBootstrapLockHeartbeat` and `refreshBootstrapLock` |
| `Work`, `Complete`, `RecordFailure` | the run's calls, then its result |
| `StatementError`, `Crash` | a database error outside a heartbeat; a process that dies at any point |
| `ReapRead`, `ReapWrite` | `reapAbandonedLeases` |
| `ChangeEligible` | automatic signing switched, the key archived or restored |
| `Tick` | a heartbeat interval passes, which makes a heartbeat due for every running run |

`doneBy` and the numbering of attempt ids are history: who completed the row, and the order of the
claims. Failure codes are in three classes: one the sweep retries, the one a re-claim records, and the others.

Assumptions about time, all in `MayTick`: timers fire within their interval, a statement takes at most
`DbLag`, and the process notices its deadline. A process that is stopped for longer than that could
overrun its lease, which no lease of this kind excludes. How late the sweep finds a row (`SweepLag`)
and how long an observed row waits for the runs of its batch (`BatchLag`) are limited only in the run
that checks liveness.

### OneResult and DeviceAuthorization

`OneResult` is what every one-time handoff promises: an exchange waits, is decided once, has a result
that never changes, and is over for good once it was refused, acknowledged or cleared.

`DeviceAuthorization` has one variable per table (`row`), the clock, and what each start, each approval
and each poll or acknowledgement is in the middle of (`start`, `page`, `call`): every query of a handler
is an action, so what it read may be old when it writes. `saved` is what the command line has stored; it
is outside the service and is there because the acknowledgement follows it. `approvedAt` and the fields
`approvedBy` and `late` are history: when and by which page a transaction was approved, and whose approvals a start
call found between their clock and their write. `expiresAt` is the column
`transactionExpiresAt`, which is the approval's deadline first and the retention of the result later.

| action | code |
|---|---|
| `StartCount`, `StartWipe`, `StartCreate`, `StartFail` | `start`: the limit, `wipeExpiredResults`, the insert |
| `ApproveRead`, `ApproveClock`, `ApproveCommit`, `ApproveFail` | `approve` of the service; the store's clock and `findFirst`; its update, which compares with that clock |
| `PollRead`, `PollAnswer` | `poll`: what it read, then `updatePoll` and the answer, which may be lost |
| `AckRead`, `AckCommit` | `acknowledge`, then `consumeApproved` |
| `CallFail`, `Tick` | a call that ends early; time |

The mapping to `OneResult` reads `row` alone: absent and pending rows are open, an approved row with its
result is available, everything else is over; the result is the page that sealed it and the expiry
of its delegation.

### PreparedHandoffs

The rows of `prepared_handoff` (`handoff`); the signing contexts and previews, which the process
keeps in memory (`ctx`, `preview`); and what each claim, each prepare call and each signing call
is in the middle of (`claim`, `prepare`, `sign`). `signatures` is history. A handoff is of one
of two kinds: an authorization, whose context and previews are single-use records of the process,
or an owner revocation, whose context is a sealed token that nothing deletes.

| action | code |
|---|---|
| `ClaimBegin`, `ClaimInsert`, `ClaimEnd` | `claim`, then `createLimited` under the account's lock |
| `Cancel` | `cancel`, by the command line with its secret or by the page |
| `PrepareRead`, `PrepareIssue`, `PrepareBind`, `PrepareFail` | `assertRequest`, the context that is stored, `bindContext`, a lost race |
| `PrepareDirect`, `SignDirect` | a website's own sign-in, which has no ticket |
| `PreviewBytes` | `authorize-sign-preview` |
| `SignCheck`, `RevocationCheck` | the checks of a signing call |
| `Reserve`, `Consume`, `SignBytes`, `Deliver`, `SignFail` | the update that reserves the handoff; the deletion of the records; the signature; `completeSigning`; any failure |
| `Restart`, `Tick` | the process loses contexts, previews and calls; time |

To `OneResult` a handoff that is pending is open, a cancelled one is over, and a reserved one is
available with its context as the result.

### ApprovalResults and DelegationCodes

Two relays between a browser and a command line. They share nothing but the clock, so `MCRelays`
runs one of them, or `WidgetFlows`, in each behaviour.

| action | code |
|---|---|
| `Load` | `POST /approval-requests/:id/load`, which registers the request |
| `SignFor`, `Seal`, `Approve`, `ApproverEnds` | `checkApprovalDelegation` before the signature; the check in `approve` and the sealing; the conditional update; a refusal, a crash |
| `DeclineFind`, `Deny`, `Settle`, `DeclinerEnds` | `deny`: the first read, the conditional update, the read that says why it matched nothing |
| `Fetch` | `fetch`, whose answer may be lost |
| `AckRead`, `Acknowledge`, `FetcherEnds` | `acknowledge`: its check, then the conditional update |
| `Post`, `ClearCodes`, `ClearClaims`, `Draw`, `PostEnds` | `POST /`: the clock, `deleteExpired` in two statements, `create` |
| `Redeem`, `ClaimRead`, `ClaimTake` | `GET /:code` with a claim: the clock, the reads of the transaction, its writes and commit |
| `Consume`, `Hand` | `GET /:code` without one: the row is deleted, then its expiry compared |
| `AckFind`, `AckClear`, `RedeemEnds` | `POST /:code/ack`: the read, the update; a call that fails |

`told` and `receipts` are history: what was answered. To `OneResult` a request is open until it is
approved or denied and over when it was denied or its ciphertext is gone; a code is available while
its row or the held claim has the delegation.

### ManageKeyControl

Who may sign with the primary key of one user: mode, epoch and legacy switch (`user`), the grants
(`pref`), the consents (`consent`), the keys (`flagged`, `archived`), the log of changes (`log`), and
what each page, each change of the key and each call of an application is in the middle of. A
transaction is split where it waits: it takes the row of the user `FOR UPDATE` (a renewal `FOR SHARE`)
and reads, and writes later.

| action | code |
|---|---|
| `Form`, `Copy`, `PageRetry`, `PageDone` | a page chooses a change, sends the same body again, or leaves |
| `ChangeLock`, `ChangeStale`, `ChangeMode`, `ChangeGrant` | `changeMode` and `changeGrant`: the lock, then the replay check, the compare-and-set and the event |
| `SignDecide`, `SignBytes`, `Deliver`, `CallDone` | `/sign` under `withManageKeyDecision`; the transaction may time out, and its signature is dropped |
| `RenewUnseal`, `RenewDecide`, `RenewBytes` | a renewal unseals before it takes its lock |
| `SwitchLock`, `SwitchKey`, `SwitchFail`, `Archive` | the change of the primary key, under the lock; archiving, without one |
| `ConsentChanges` | consent given, narrowed or withdrawn; a consent a renewal holds waits |

### McpConnection

One client, one user: the sessions, the consent, the authorization codes, the chain of refresh tokens,
the revoked access tokens, and what each token request and each web renewal is in the middle of.

| action | code |
|---|---|
| `SignIn`, `SignOut`, `WebRead`, `WebWrite` | sessions of the provider, with the cap of `capSessionRefresh` |
| `AcceptConsent`, `IssueCode`, `SetDisabled` | the provider's consent and codes; an administrator disables the client |
| `Disconnect` | the account page: the consent and the rows of the tokens go in one transaction |
| `DeleteConsent` | the provider's `/oauth2/delete-consent`, which no guard holds: the consent goes and the rows stay |
| `TakeCode` | the guard that spends the code of a sign-in that was too old |
| `Judge`, `Extend`, `Reread` | `mcpRefreshRefusal`: the judgement, `extendSession`, the second look |
| `ProviderRead`, `ProviderRotate`, `ProviderInsert`, `CallEnds` | the provider's rotation, a statement each, with its detection of a replay |
| `RevokeAccess` | `record` of a revoked access token with its sweep |
| `Tick` | one second |

`steady`, `revoked` and the fields `since`, `cut` and `crossed` are history: the requests whose connection has
stood since they came; the access tokens whose revocation was answered; when a chain began; the second after the last
Disconnect; and whether a request of a chain was in progress when the provider deleted the consent.

### WidgetFlows

One instance of the SDK in the page that embeds it. JavaScript runs one task at a time, so each message, timer
and click is an action. `call` is what the closures of a call hold (iframe, window, listener, picker, timers, and
its entries in `activeFlowCancellations`), `auth` is `lastAuth` as the call it came from, `popup` is
`this.popup`, and `tab` the named window of OAuth connects. A frame and the window it fell back to are two
closures with a `settled` of their own; `answer` is the promise. `from` and `fresh` are history:
whose answer resolved the call, and whether nobody signed out since it began.

| action | code |
|---|---|
| `Begin` | `connect` and the signing calls, `openFlow`; in popup mode the window may be blocked |
| `SignOut`, `Disconnect` | `signOut` (with `cancelActiveFlows`) and its own flow; `disconnect` |
| `FrameReady`, `FrameAnswer`, `FrameToWallet` | `onMessage` of `openIframeModal` |
| `ClickClose`, `FinishClose` | `IframeModal.close` and its timer of 200 ms |
| `ReadyTimeout`, `OverallTimeout` | the timers of `openIframeModal`; the first falls back to `openPopup` |
| `WindowAnswer`, `WindowToWallet`, `PollClosed`, `WindowTimeout` | `handleMessage`, `pollClosed` and the timer of `openPopup` |
| `PickerSelect`, `PickerFails`, `PickerAnswers` | `handleExternalWalletConnect` |
| `OAuthConnect`, `OAuthPoll`, `OAuthTimeout` | `openOAuthPopup` |
| `UserClosesWindow`, `UserClosesTab`, `TabReturns` | the browser |

### Abstractions

* One OAuth client. The rows are per user and client, and nothing is shared between clients.
* A transaction that takes the row locks (consent, generation, request, grant, tokens) is one
  action. Every such transaction of the code takes them in this order, and a lock timeout is a
  refusal (`Abandon`, `FailExchange`, `RefuseRenewal`).
* Request ids, grant ids, tokens and contexts are fresh: random values never collide.
* A permission is a member of a set; `capabilities/read`, which every request has, is left out.
* A token and its hash are the same number. An access token is named by its refresh row.
* Grant rows keep no delegation expiry in the database; `grant.delegationExpiresAt` is what the
  last response told the client.
* `lastRenewedAt` and `rotatedAt` are written together and are one field.
* Audit rows and the session proof's `jti` are left out.
* The node's answers in a bootstrap are one choice: the work succeeds, fails with a code the sweep
  retries, or fails with another. What the response tells the client of the requested space, the
  kill switches, the batch size and the 30 day age limit are left out.
* All device starts come from one network address. A device result is named by the page that sealed
  it; secrets, the key binding, permissions and the two checks of the signing window, which change
  nothing, are left out. The clocks of the service and of the database are one.
* Handoffs are those of one account. Another worker of the service only ever answers that it does not
  know a context, so one process is modelled. An external wallet signs when the service releases the
  bytes. A preview whose context ends while its handoff is read is left out, and so is the freshness of
  the passkey.
* An approval request's id has one signed binding, so a second registration never conflicts. A
  delegation is named by the moment it expires. Discovery of a result changes nothing.
* A code that is still kept somewhere is not drawn again; the five attempts of `create` are one. The
  two rate limiters of the codes are left out.
* A change of the manage-key policy is named by its body. The first key, and preferences older than the
  modes that were enabled by hand, are left out. A signing call reads its consent without a lock,
  and `SignedUnderPolicy` says nothing of it.
* The clock of `McpConnection` counts whole seconds, in which tokens and consents are dated. A user needs a
  second to consent again after a Disconnect or a deletion (`consent.again`): `mcpTokenStatus` accepts the tokens of
  the second a consent is dated in. Its parallel reads are one step; the extension repeats them. An
  authorize request may be resumed on another session, so the freshness guard at authorize is no guard of
  `IssueCode`; the one at the exchange (`TakeCode`) is modelled. The provider's rotation is what the
  tests of the repository describe: of parallel refreshes one succeeds, a replay deletes every row of user
  and client, and the winner's next row may be inserted after that.
* The correlation of messages with the widget's phase is left out of `WidgetFlows`: a message comes from the
  call's own frame or window, as its source is compared. Redirect mode leaves the page. The SDK's timers have no
  order among themselves, which allows more than their lengths do.

### Bounds

`MaxTime`, `LastPar`, `MaxRevisions`, `MaxWithdrawals` and `MaxTokens` cap the counters. Durations
are scaled so that each deadline falls inside the clock's range: what matters is their order, not
their size. Two users, two pages and two revisions are enough for every race between two
handlers; one withdrawal separates two generations; four tokens are a rotation, a recovery and
another rotation.

The bootstrap's unit is the heartbeat interval of 30 s. In the code the lease is 4 units, the deadline
6, the longest lease 7 and the first sweep delay 10. `bootstrap_race` uses 2, 4, 5 and 5, which
keeps their order: two heartbeats have to fail for a lease to lapse, it lapses before the deadline, and
the longest lease and the first delay are later. A statement may take two units there, as
long as a lease, so that a late completion or a late claim meets a row that has a new holder. Two approvals and two sweepers
cover an old holder, a new one, a reaper and a sweep that observed the same row; three faults cover two failed heartbeats and a crash.
`LastStart` and `MaxClaims` stop new approvals so that what is in flight can be followed to its end;
in `bootstrap_recovery` they also say that approvals stop coming, without which the sweep would not be
needed. Its clock ends at 75, one past what the theorem about it asks for (`Horizon`, section 5), so
that the run is an instance of the theorem.

In `device_handoff` the transaction's deadline and the retention are two or three units, and the
lifetime a command line asks for is shorter, so that each deadline can come first. The run
looks at the union of two kinds of behaviours (`Focus`): one transaction with every race of two pages and
two calls, and two transactions with two start calls, where one page or call is in
progress at a time and at most one transaction is decided. An approval may have read its clock before a start call
clears and write after it, which is the case `WipedAtStart` names.

`handoff_signing` has two tickets, two contexts and two signing calls: a race for one context, a
context that lost the race to bind, and a second handoff of the same nonce. The limit is one claim
in a window of one unit, and two claims may be in flight, each with the clock it read (`Focus`): both at once while
nothing was prepared, one of them beside any other call. `manage_key` has one application, two keys, two pages, a change of the key
and a call, and two changes of the policy: the second may be a repetition of the first, or make its sender's view old.
`mcp_connection` has one session, a code, two tokens and two requests: a first token and the one it is
exchanged for. The session length is 2, the cap 3, the web renewal point 1 and the clock ends
at 2, so a session can reach its cap through either kind of renewal. Its `Focus` lets access tokens be
revoked only while no other request is in progress, because nothing else reads that table; and after the provider deleted
a consent it follows one request at a time, on a client that is not disabled, without web renewals and revocations. In
`relays` two approving and two declining pages and two acknowledging calls meet over one request, two redeeming
calls with two claims and one posting call over one code; retentions are one unit of three. Two calls of the SDK
are enough for two flows to meet over `this.popup`, the shared window or a sign-out.

The theorems hold for all values, so the bounds only limit what TLC looks at. `MaxTime` is the exception where
something must happen in the end: the theorems about that ask for a clock that goes on long enough.

## 4. The runs

| run | what it shows |
|---|---|
| `requests_race` | two users, two pages, one request: prepare, approve, deny, withdraw, redeem, host and sweep in any order |
| `requests_sweep` | every row is swept in the end, under fairness |
| `delegation_rotation` | two renew or revoke calls and a withdrawal over four tokens; an access row that outlives its grant only ages |
| `delegation_exchange` | two codes of one request exchanged step by step around a withdrawal, with the ceiling shortened and lengthened around approval, exchange and renewal |
| `delegation_stray` | finding: an access token outlives its grant |
| `bootstrap_race` | two approvals and two sweepers claim, work, fail, complete and reap one row while heartbeats fail and processes die; the retries keep to their budget |
| `bootstrap_recovery` | a lease nobody holds ends, a retryable failure is retried, under fairness |
| `device_handoff` | pages approve and calls poll and acknowledge a transaction while start calls clear old results: it is a one-time handoff |
| `handoff_signing` | two signing calls, claims, prepares, cancels and restarts: one signature for a prepared request, none for a cancelled one |
| `manage_key` | two pages change mode and grant while keys are switched and archived, and applications sign and renew: no signature under an old policy |
| `mcp_connection` | two token requests, web renewals, sign-out, both ways of withdrawing the consent and revocation: nothing that was disconnected or revoked comes back, and a connection that stands is refreshed |
| `relays` | approvals and refusals of one request; redeemers of one code; two calls of the SDK: no two answers contradict each other, no call is left without a deadline or takes another's answer, and a sign-out holds |

Deadlock is not checked: the bounds on the clock and the counters, a system at rest, are ends.

Fairness is assumed in two runs. `requests_sweep`: `SweepRuns`, because the first PAR starts a ten second timer that
runs as long as the process, and `TimePasses`: the clock reaches its bound. `SweepRuns` is the weak fairness of
`Sweep` with what enables it written out (`SweepDue`), so that the prover can use it. No user, administrator or client
is assumed to do anything. `bootstrap_recovery`: `WF(Tick)`, and weak fairness of each runner's own
steps, because an event loop with an answer at hand or a timer that fired goes on; crashes are not fair,
and the sweep timer belongs to the process. `LeaseEnds` names two states that only an approval leaves:
a retry that crashed with its budget spent or whose key is
no longer eligible keeps its retryable code, so neither the sweep nor the reaper touches it.

### Findings

`delegation_stray` uses the code's own proportions: renewals 60 s apart, access tokens of 300 s.
Revocation and withdrawal delete the rows of the grant's current and previous token. After two
renewals the first token is neither, but its access token is still valid for minutes. The comment
on the guard triggers says "no live OAuth token can exist for a native grant that is not ACTIVE".
What bounds it is checked (`StraysOnlyAge`, in `delegation_rotation`) and proved (`StraysOnlyEnd`): no step writes such a row for a grant that has ended, so the
stray token is dead one access lifetime after the withdrawal.

### Observations

Places where the code and a comment part, or where a reader may expect more, that need no run of
their own:

* `tinycloud-bootstrap.ts:46` says that an expired lease means its holder is dead or past its deadline. A
  heartbeat that meets a database error is only remembered; the run works on to its deadline,
  while the lease ends two minutes after the last heartbeat that went through.
  `OverlapNeedsFailedHeartbeat` is what does hold.
* The comment on `reclaimRun` (`tinycloud-bootstrap.ts:423`) says that a run which takes over a
  `complete` row never becomes retryable by the sweep. It is computed from the row read before the
  claim: if that read saw a lapsed lease whose run then completed, the claim takes the
  complete row over as an ordinary one.
* The comment in the device `approve` says the retention of a result never outlives the delegation; the
  store then takes the later of that and the transaction's deadline. `WipedAtStart` needs that later
  deadline, and `DelegationInWindow` holds all the same.
* The store's `approve` reads the clock, looks for the row and updates it with the old clock
  (`device-authorization-store.ts:110`). An approval that was in between when a start call cleared old results may
  leave one that had expired by that call's clock; the next start call clears it. `WipedAtStart` says that no other
  approval does.
* A disconnected MCP client must not come back: the comment at `mcp-token-status.ts:50` relies on the date of the consent, and
  the one above Disconnect (`account.ts:269`) on the token rows, which it deletes because the provider's refresh never
  looks at the consent again. The provider's `/oauth2/delete-consent` (mounted by
  `index.ts:224`) deletes the consent alone, and the trigger only tokens that a native grant names. A refresh that was
  judged before that and rotates after the user consented again is dated since the new consent, and its chain goes on.
  `NoneComesBack` names this case (`crossed`); a refresh that only comes after the deletion is refused.
* A device acknowledgement that is repeated while the first is in flight is refused, though its comment says
  that repeating it succeeds; nothing is lost by it.
* An approval activates its delegation at the node before `approve` of the request decides. A refusal in
  between leaves an activated delegation behind, though `delegate.ts:2109-2112` says that every refusal happens
  before.
* A handoff whose signing fails after the reservation stays `CONSUMED` without a signature: the owner is
  told it was signed already and starts again.
* `changeGrant` writes the preference before it compares the epoch and answers "stale" without undoing it.
  Only the lock makes the comparison succeed; `LogExplainsPolicy` depends on it.
* `deny` compares the expiry with a clock it read before the row, so a refusal may land just after the
  deadline; it is a refusal either way.
* The start limit of the device flow is read before the row is inserted: overlapping calls exceed it by
  the other calls in progress. They never do by more: `StartsBounded` is proved.
* The comment in the SDK's `signOut` (`packages/sdk/src/index.ts:1007`) says that stale widgets must not
  overwrite the signed-out instance. A connect that was handed to the wallet picker is no longer in
  `activeFlowCancellations`: the wallet's answer after the sign-out sets `lastAuth` and resolves the
  connect. `SignOutHolds` is what does hold.
* A click on close settles the call 200 ms later. If the widget hands over to the wallet in between, the
  call is rejected, and the wallet's answer still sets `lastAuth`; if the ready timeout falls back to a
  popup in between, the call is rejected and the popup stays open.
* A poll or a timeout of an OAuth connect acts on `this.popup`, which may be the window of a later widget
  by then; the connect ends all the same (`NeverStranded`), and only with its own code (`OwnAnswer`).

## 5. The proofs

Eight modules hold theorems, one beside each component and `RelaysProofs` for the two relays and the SDK. They are
for every set of users, pages, requests, keys, codes, grants, tokens, calls, approvals, sweepers and
transactions and every bound, from the assumption each module names: the null values are outside
their sets and the numbers are naturals; for the bootstrap (`LeaseAssumption`) the deadline is before the
longest lease and a lease is not empty; for the MCP connection a session is no longer than its cap and the
renewal point no later than its length; the claims' bound also needs `Ticket` to be finite.

The requests' inductive invariant `RequestInv` adds to the types: an unresolved row has no owner
and was never signed; a row with a revision has an owner who made all its preparations; an approved or
redeemed row names its last revision. That last part is what makes `ApprovalIsNewestRevision`
survive `PrepareCommit`, whose guard excludes approved rows.

The delegation's `DelegationInv` adds, in named parts: `Linked` (which token each code and grant
names and that no two name the same), `Spent` (a rotated token is not current anywhere), `Singly`
(one grant per redeemed request), `Exchanging` (what each stage of a code exchange may have
written), `Unborn` (tokens not generated have no rows), `Counted` (how often a token was used,
against the state of its row), `RenewerBound` (a call in flight is of the grant that names its token or
once did). `RevokedTokensGone` and `LiveTokenOfActiveGrant` are not inductive without `Linked` and
`Exchanging`: a late insert is harmless only because the guard finds the grant by its current hash.
A late access row would not be stopped by it once the token was rotated twice. `StraysOnlyEnd`
needs `ArrivalInv` for that: a token under renewal has arrived at the client, so its exchange has no
insert left to make.

Each step lemma has one step per action. `RequestsInTheWhole` carries the properties of requests over to the
composition. TLC checked the inductive
invariants on the runs' instances before they were proved.

The bootstrap's `LeaseInv` adds `AttemptBound` (attempt ids are unique and follow the claims),
`RowBound` (the row carries the newest attempt or none), `SeenBound` (what a runner saw lies in the
past: the lease a reaper saw had expired) and `LeaseReaches`: between two heartbeats the lease of a
steady run reaches one lease length ahead, or to its longest. `SteadyRunHolds` alone is not inductive:
`Tick` needs to know that the lease outlasts the interval until the heartbeat that `Tick` makes due,
and the claims and the reaper need `SeenBound` to conclude that they cannot match.
`OverlapNeedsFailedHeartbeat` follows: of two steady runs both would be the row's holder.

The device flow's `DeviceInv` adds `RowBound` (the columns that belong to each status), `PageBound` (what
an approval in flight computed still lies in the transaction's window while that is pending: time only
widens the bound from the approval, and the other bound is fixed at the start), `CallBound` (a result a
poll carries is the one the transaction was approved with), `StartBound` and `LateBound`: an approval between its
clock and its write either read that clock no earlier than a start that has cleared read its own, or that start found it
there. `WipedAtStart` is preserved by an approval that commits after the clearing because its guard and the maximum in
the store put the new deadline after its clock. `StartsAreBounded` has an invariant of its own, `LimitInv`: in a window that
begins at any time, the rows plus the calls that may still add one are fewer than the limit and the number of
calls together: the last call to count saw every row and knew nothing of the calls. It needs
`Starter` to be finite and a limit above zero. `DeviceImplementsHandoff` maps each step to `Decide`,
`Close`, `CloseAll` or a stutter.

The handoffs' `HandoffInv` adds that contexts and handoffs name each other for good (`ContextsLinked`), that a
call past its reservation is alone on its context and nothing was signed yet (`OnlyOnePast`), that nothing is
signed before the reservation, or before the deletion of a website's context (`UnspentUnsigned`), and
that a call which holds or may still win the reservation finds the records it checked (`ReservedKept`): they
can only be deleted by the call that reserved, by their expiry or by a restart, which ends the call too.
`ClaimsLimited` has an invariant of its own, `LimitInv`: no window of any end holds more claims than the limit,
because an admitted claim counted every row of each window its own row lies in.

The relays' `ApprovalInv` and `CodeInv` say in one predicate of rows and history (`Agrees`, `Keeps`) what can have
been answered when a row stands where it does. The calls matter for the codes alone: a redeemer that has deleted
a code is the only one, and nothing else can be given for it; one that read a code finds the same delegation if the
row is still there. The mapping to `OneResult` makes `ClaimTake` a stutter, because the delegation moves
from one row to the other in one commit.

The SDK's `WidgetInv` adds what ties the parts of a call together: which deadline and which cancellation come
with a frame and with a listening window (`Armed`), and that a call a sign-out found has neither left
(`Quiet`). Both are needed in each fallback: dropping the frame takes its deadline along, and the window
brings one, unless it was blocked and the call is rejected. `SignOutsHold` follows from `Quiet`: what a
message can still answer is fresh.

The policy's `ManageKeyInv` adds that an exclusive holder of the user's row is alone (`OneHolder`), that
what a change read under the lock is still so (`ReadCurrent`), that a call which holds the row may still go on
(`HoldersMay`) and that one key is flagged. `SignedUnderPolicy` and `SuccessIsCurrent` are action properties
that follow from it step by step.

The connection's `McpInv` adds `SessionBound` (also for renewals that computed an expiry and have not written it),
`Origin` (what codes, tokens and requests were made from), `ChainBound` and `RefusedBound`. `ChainBound` is the
heart: whatever a token is dated, either its chain began under the consent there is, or it is too old for it; and
a request that was judged under a consent and still presents a usable token is of that consent, or its chain crossed
the provider's deletion of one. A Disconnect ends both, because it deletes every row: the same is said of
the last Disconnect without that exception.

### What must happen in the end

The prover knows neither ENABLED nor induction over data, so liveness is proved from fairness that is written out,
and by a bound instead of a well-founded order.

* `RowsAreSwept`, from `SweepRuns` and `TimePasses`, if the last push, a lifetime and the retention end before
  the clock does. At the end of the clock no row can be pushed and every row that is left has become sweepable,
  whoever owns it; it stays so until the sweep takes it, and no handler in flight can save it.
* `LeasesEnd` and `FailuresAreRetried`, from `TimePasses`, for delays up to any `d` with `Horizon(d) < MaxTime`,
  and at least one sweeper. Every claim by the sweep and every fault costs a round of bounded length: the longest run, the
  delay, the sweep's lags and the time statements take. `Base` counts the rounds the row has used, and `Bound` says how
  far past it the clock can be while the setup is still open. The budget and `MaxFaults` limit the rounds, so a clock past
  the horizon finds the setup over. `TimePasses` carries the fairness here: `Tick` waits for what is due (`MayTick`), so
  a clock that reaches its bound says that timers fired, statements returned and swept rows were claimed. That the weak
  fairness of `FairSpec` gives such a clock is what the run checks.
* `AllCallsEnd`, from `TimersFire`, for any number of calls of the SDK. Once its overall
  deadline is gone it does not come back, and no new window deadline is set (`Ages`); a deadline that runs out settles
  the call (`TimeoutsSettle`); and a call without any is over, by `NeverStranded`.

Two things stay with TLC alone: that the weak fairness of `bootstrap_recovery` lets time pass, which is about
ENABLED, and the finding. The reverse holds for
the type invariants, `TerminalStays`, `OverlapNeedsFailedHeartbeat`, `OwnerStays`, `ApprovedOnce`, `CodeOnce`,
`StartsBounded`, `AccessWithinTtl` and `CallsEnd`: TLC agreed with them on instances like those of
the runs, they are proved, and no run repeats them.

## 6. Not modelled

The parts with status `not_modelled` in `PROJECT.json`, with the reason there: pure text
handling (SIWE, manifests, permissions), which unit tests reach, configuration and record keeping, calls
to external nodes, the web pages, the other packages, and operations. Of the components that are modelled in
part:

* the order in which the transactions of the native delegation take their row locks: a transaction is one step, so
  a deadlock cannot show (`renew-revoke.ts:176` is a hazard without a property);
* the single use of session proofs and the per-user rate limits;
* the calls to the node inside a bootstrap run;
* automatic signing, the checks over SIWE texts and manifests;
* of the SDK: redirect mode, reserved popups and the routing of `authorizeTinyCloud`, the exchange of an OAuth code
  with the verifier in `sessionStorage`, linking a wallet inside a frame, and a frame's layout and phases.
