# Trusty Squire in TLA+

Specifications, model-checking runs and proofs for the Trusty Squire monorepo:
an HTTP API that keeps vaulted credentials and payment cards, and asks the owner
before an agent may use them; an MCP server with a browser broker that acts for
the agent; a registry of skills; and a web application for the owner.

The specifications follow the TypeScript source. Paths below are relative to the
repository; `api/` stands for `apps/api/src/` and `bot/` for `apps/mcp/src/bot/`.

## 1. The system

### 1.1 Components

| Component | State | Operations | What makes it correct |
|---|---|---|---|
| Payment approvals (`api/routes/pay-approvals.ts`, `api/services/prisma-payment-approval-store.ts`, `sealed-claims.ts`) | `PendingPaymentApproval` row: status, bound card, staged candidate (mandate + card sealed to the operator) with phase and expiry; `SealedApprovalClaim` row | create, read and long-poll, claim, bind card, approve, confirm, deny, outcome | one decision, on a verified mandate over the bound card; staged secrets vanish with it; a sealed card reaches only the requesting app, once |
| Payment ledger, approval card (`payment-execution-audit.ts`, `approval-card.ts`) | `PaymentAuditEvent` rows | record, derive the public status | one outcome; a closed card keeps its status |
| Egress grants and proxy (`prisma-egress-grant-store.ts`, `routes/egress.ts`) | `EgressGrant` row; per process a cache and pending reads | mint, list, revoke, proxied call | exactly one audited mint and revocation despite lost answers; no service after revocation |
| Credential fetch approvals (`routes/credential-fetch.ts`) | approval row, sealed claim | create, approve, deny, claim and reveal, resume | revealed at most once, to one session, never after denial |
| Credential and card mutations (`routes/credential-mutations.ts`, `card-mutations.ts`) | approval row, version of the target | create, commit, deny | applied once, to the version that was approved |
| Approval webhooks (`approval-webhooks.ts`) | endpoints, subscriptions, deliveries with lease and attempts | track, sync, deliver, retry, purge | one event per status change; delivered or abandoned |
| Retention sweep (`retention-cron.ts`) | none | settle, audit, delete lapsed rows | nothing undecided disappears unaudited |
| Decision events, pollers, billing | queues of notifications | publish, poll | at most once per decision |
| Vault (`packages/vault`, `api/services/prisma-credential-store.ts`) | credential rows under a wrapped key, audit, retrieval events | store, capture, rotate, add, delete, restore, re-wrap, retrieve | a capture and its retries make one row; a row stays readable through a rotation of the master key; retrievals stay near their ceiling |
| Accounts, sessions, pairing (`api/routes/oauth.ts`, `mcp-install.ts`) | accounts, identities, web sessions, setup codes, machine tokens | sign in, erase, claim, poll, revoke | sessions belong to the identity that signed in; a token follows the claim that minted it |
| Broker (`bot/broker`) | election lock, owner of Chrome, actors with a command queue, connections | elect, take over, launch, recycle, open, invoke, finish, drop | one owner of Chrome; one command of a session at a time; no call is replayed |
| Operator sessions (`bot/session`, `bot/live-share.ts`) | session, tabs, live share | start, act, share, finish, expire | the hands of human and agent stay apart; a finish is told of a closure that happened |
| Card release (`bot/card-release-approval.ts`, `tools/inject-card.ts`) | resumable approval, key pair, released card | request, poll, verify, open, confirm, inject, audit | a card is written only under an approval confirmed for the terms named |
| Browser ownership (`bot/browser-process-owner.ts`) | process identities, systemd scope, profile lock | start, cancel, close, force | a Chrome told to be closed is gone |
| Browser driving (`bot/operate-drive.ts`, `oauth-login.ts`, `act/act.ts`) | pages, budgets, leases, click listeners | drive, sign in, click | acts are charged, judged on the page they act on, and not repeated |
| Skill registry (`apps/registry`) | skills of a service with counters | publish, report, approve, demote, delete | one active skill; a changed entry point is reviewed |
| SDK, schemas, web | none of their own | requests | validation |

### 1.2 How they interact

The agent's MCP server (or an app using the SDK) creates an approval through the
API; the API sends the owner a link; the owner's page signs a mandate and seals
the card to the requester's key; the API stages the pair; the requester reads or
claims it, verifies it, and confirms; the ledger records what the merchant said.
All of these are independent HTTP requests, possibly on different API processes
that share only the database. Every statement is one `await`, so any two requests
interleave at statement boundaries. The hourly sweep runs beside them. The
grant proxy adds one more shared structure that is *not* in the database: a cache
in each process.

The hard behaviours follow from this shape: a handler reads, awaits, and writes
on what it read; decisions race on one row; a clock is read before or after the
record it is compared with; a transaction commits although its answer was lost; a
process dies between two statements; a cache outlives the row it copies. The full
list, with source lines and the property that covers each, is `hazards` in
`PROJECT.json`.

### 1.3 How the project grew, and what is left

`PaymentApproval` and `EgressGrant` came first, with their invariants and proofs;
then the other approvals and the vault, the webhooks, the broker with its
sessions, browser and clients, what the broker does in the browser, and the
accounts; then the proofs about the approvals, the webhooks, the grant, the vault's store, its
rotation and its ceiling on retrievals, the broker's election and custody, the start
and end of a Chrome, the accounts, the registry of skills, the card's release, a
click, the sign-ins of a session, and the drive loop. What stays with TLC is named
at the end of section 4. Left to model are capturing a secret into the vault from the browser
(`bot/capture`), form filling and observation in `bot/browser.ts`, captcha
solving, and the remote display of a login; section 6 says why the rest is out.

## 2. Modules

| Module | Models | Source |
|---|---|---|
| `ApprovalDecision` | what a payment approval promises: abstract specification | |
| `PaymentApproval` | one payment approval: rows, requests, sweep, crash, clock | `api/routes/pay-approvals.ts` |
| `EgressGrant` | one grant: mint, revocations, caches, proxied calls | `api/services/prisma-egress-grant-store.ts` |
| `OneTimeSecret` | what an approved fetch promises: abstract specification | |
| `CredentialFetch` | one approval to disclose a credential, and its sweep | `api/routes/credential-fetch.ts` |
| `CredentialMutation`, `CardMutation` | approvals to edit a credential or a card | `api/routes/*-mutations.ts` |
| `WebhookSync`, `WebhookDelivery` | queueing an event per status change; delivering it (`Webhooks`: what is asked of both) | `api/services/approval-webhooks.ts` |
| `VaultStore` | writes to one credential slot | `packages/vault`, `api/services/prisma-credential-store.ts` |
| `MasterKeyRotation` | re-wrapping every row while the vault writes | `api/scripts/rewrap-kek.ts` |
| `RetrievalLimit` | the hourly ceiling on retrievals | `packages/vault` |
| `Pairing`, `SignIn`, `Billing` | connect ceremony; OAuth sign-in; checkout and Stripe events | `api/routes` |
| `SkillRegistry` | the skills of one service | `apps/registry/src` |
| `BrokerElection` | who owns the profile, takeover included | `bot/broker/daemon.ts` |
| `BrokerCustody` | launching, joining, recycling and closing the shared Chrome | `bot/broker/runtime.ts` |
| `BrokerSessions` | one session from start to the release of its tabs | `bot/broker/authority.ts`, `operator.ts` |
| `BrokerForward` | the operator calls of one client process | `bot/broker/forwarder.ts` |
| `BrowserProcess` | one launch of Chrome and its end | `bot/browser-process-owner.ts` |
| `LiveShare` | viewers who watch and drive a session (`OperatorSession`: what is asked of it and of `BrokerSessions`) | `bot/live-share.ts` |
| `OperateDrive` | the drive loop | `bot/operate-drive.ts` |
| `OperateClick` | one click, its dispatch proof and its fallbacks | `bot/act/act.ts`, `bot/browser.ts` |
| `OAuthLogin`, `OAuthLease` | a sign-in with a provider; the lease that serialises them (`OAuthSignIn`: what is asked of both) | `bot/oauth-login.ts` |
| `CardRelease` | `inject_card`, from request to fill | `bot/card-release-approval.ts` |
| `MC*` | instances for TLC | |
| `*_proofs` | theorems | |

The header of each module says what one variable or action stands for. Three
conventions hold throughout. A handler is a chain of actions cut at its awaits
(each one database statement, or one stretch of JavaScript), and everything it
carries over an await is explicit in its request record. What the code talks to
(the database, Stripe, an OAuth provider, a web page, a process) is modelled by
what the code relies on, and may fail, answer late or lose an answer where the
code handles that. Operators named `Operator_Fault` are distorted copies used by
the mutation runs (`mutants` in `PROJECT.json`) to show that each property can
fail.

Composite modules (`MCServices`, `MCApprovals`, `MCProgress`, `MCBroker`,
`MCAgentProgress`, `MCBrowser`, `MCAccounts`) put several components side by side on
disjoint variables. Each extends the components that have theorems, which keep their
own names (`Init` and `Next` of one of them, `EditInit`, `BillingNext`,
`registryVars` ... of the others), so that the theorems and the run speak of the
same definitions; the others are instances. `part`, chosen at the start, names the one that moves and the others rest
in their initial states. The components of one composite share no state, so the
behaviours of each are exactly those it has alone and nothing is lost by not
interleaving them. A property of a composite is the conjunction of those of its
parts, each under the condition that the part is the one that moves.

Where components do interact, one carries the other as environment:
`CardRelease` has an approval server that relays, confirms and expires as
`PaymentApproval` shows it does; `BrokerForward` sees the broker through the
answers and lost answers of `BrokerSessions`; `LiveShare` relies on one command
of a session at a time, which is `OneAtATime` of `BrokerSessions`; `OAuthLogin`
on one sign-in at a time, which is `OneAtATime` of `OAuthLease`.

### 2.1 PaymentApproval

`row` is the `PendingPaymentApproval` row: status, `card_ref`, and of the staged
candidate its phase, fingerprint, expiry and whether the mandate and card columns
are filled (`staged`). `sealed` is the `SealedApprovalClaim` row. `ledger` and
`expiryAudited` are the two audit tables as far as this approval is concerned.
`req` holds the requests in flight: each slot is idle or at a program point with
what the handler has read so far, so everything a handler carries over an
`await` is explicit. `held`, `told`, `reported` and `lost` are history variables:
which session received which candidate, which decisions were answered with 200,
how many outcomes were accepted, and whether a claim died after it was spent.

Each handler is a chain of actions `XRead`, ..., one per database statement; the
statement's `where` clause is a named condition on the row (`SubmittableAt`,
`ConfirmableAt`, `BindableAt`, ...). Where two reads of the handler follow one
another and the second reads something that cannot change any more (the
sealed-claim binding after the id is out), they are one action.

The clock of approve, confirm and deny is read with nothing awaited between it and the
sending of the update; reading and update are one step, so "lapsed" in
`ClosedStaysClosed` means by the clock of the update, and the time an update travels
is left out. `BindWrite` carries the clock
`BindRead` read, as do the updates of `CredentialFetch`; `WebhookSync` keeps the read of
a decision apart from its write.

A candidate stands for a pair (JWS, sealed card), named by its fingerprint;
`CardOf` is the card its mandate was signed over, `Signed` the ones that verify.
A verification that fails for another reason (the key server is down) has no
effect on any row, as `Crash`.

The web page is `NoSession`. Agents of the same account are `Sessions`. Only a
session that received a candidate can confirm it. `BrokerAudit` is the ledger
write the broker makes for a payment whose card it received.

Not modelled: `notify-3ds`, the texts and links, and the retired review relay
(`confirmReviewCandidate` and the `review_*` columns): approve refuses new review
submissions, so those columns stay null.

### 2.2 ApprovalDecision

Bind a card once, name a recipient once, accept one offer over the bound card,
deliver it to its recipient, decide once, forget. The refinement mapping is at
the end of `PaymentApproval`: the decision is the row's status, the offer its
fingerprint once a phase is set, the holders are the sessions with a candidate.

### 2.3 EgressGrant

`grant` is the row, with the instant its revocation committed; `minted` and
`revokedBy` are its rows in the vault audit, the latter with the attempt nonce.
`mint` and `del` are the requests that mint and revoke, at the program points of
`createWithAudit` and `revokeWithAudit`; a transaction is answered, or its answer
is lost with the transaction committed, aborted, or still undecided (`inDoubt`)
and committed later. `cache` and `fetch` are the cache entry and the shared pending
read of each process, `call` the proxied calls that wait for it. A read is two
steps, the database's answer and its arrival, so that a revocation falls between.

`told`, `lastServed` and `servedLate` are history: a DELETE was answered, the last
instant a call passed `grantIsLive`, and whether one made after `told` did. "Let
through" means that check; the upstream request follows it.

Not modelled: rate limit, spend cap, the credential cache and the forwarding.
`create`, `revoke` and the in-memory stores are not used where a database is
configured.

## 3. Runs

| Run | Parts | Checks |
|---|---|---|
| `payment` | one approval, 2 requests, 2 sessions, 2 cards, 4 candidates (two over one card, one over the other, one forged) | types, seven safety invariants, two action properties, and that `PaymentApproval` implements `ApprovalDecision` |
| `services` | `EgressGrant`, `MasterKeyRotation`, `VaultStore`, `RetrievalLimit`, `WebhookSync`, `WebhookDelivery` | a grant is minted and revoked once, audited, and served for a bounded time after; rows stay readable through a rotation; captures, the ceiling, webhook events |
| `approvals` | `CredentialFetch`, `CardMutation` | a fetch is revealed once, as signed; edits are applied once, as signed; fetches implement `OneTimeSecret` |
| `progress` | the approvals and webhooks, one of each; `CredentialMutation` with two credentials | what lapses is settled, audited and removed; events are delivered or given up (liveness); a signed edit is applied once, as signed |
| `broker` | `BrokerCustody`, `BrokerSessions`, `BrokerForward`, `BrokerElection`, `BrowserProcess`, `LiveShare` | one owner of Chrome, one command at a time, no replayed call, closed means gone, hands apart |
| `agent_progress` | the broker's parts, `OperateDrive`, `OAuthLogin`, `OAuthLease`, `OperateClick`, `Pairing` | what an agent asked for is answered in the end (liveness), calls prepared together are not replayed and a host without systemd elects one broker; no start loses its Chrome to a sibling |
| `browser` | `OperateDrive` on four kinds of site, `OAuthLogin`, `OAuthLease`, `CardRelease`, `OperateClick` | acts are charged and decided on the page seen; sign-ins and card releases do what they report |
| `accounts` | `Pairing`, `SignIn`, `Billing`, `SkillRegistry` | tokens, identities, tiers and skills keep to one owner |

Four further runs end in a counterexample (section 5).

**Bounds.** Every property relates at most two actors of a kind to each other, or
two to a third that decides: hence two requests, pages, tabs, calls or clients, and
a third where it is the one that decides (`BrokerCustody` has three calls besides
the daemon, `BrokerElection` three process slots, `RetrievalLimit` three requests
over a ceiling of two, `SkillRegistry` three skills of which one has another entry
point, `CardMutation` one approval edited from two pages). Clocks have a reading before, at and after each deadline:
in `PaymentApproval`, `TtlCardless` is longer than `TtlCard` as 18 minutes are to
10. Faults of the environment (crashes, lost answers, a page that moves, a peer
that fails) are counted by a `Max...` constant of one to three, which lets every
program point meet one and, where two faults are needed to hurt, the second;
`OperateDrive` has budgets of one to three steps instead of dozens, since its
counters are compared with their limits only. Where an actor's kind is fixed for
its life (managed or not, scoped or not, a site's pages), a part of its own covers
the other kind. Several components start in any of a few states; a part at rest is
held in one of them. The theorems of section 4 remove the bounds for the modules
they are about. Interchangeable ids are symmetric in `services` and `approvals`, which
check safety properties only; no liveness run uses symmetry.

No run checks for deadlock: every component may come to its end (an approval is
swept, a process has exited, one-shot requests are answered, a bound is reached).

**Fairness.** `MCProgress` and `MCAgentProgress` state fairness for the component
that moves. Weak: the clock goes on, a started handler or command continues (Node
runs every continuation), a deadline fires, a lease ends, a living peer answers, a
receiver ends its response. Strong, for the hourly sweep's start, its successful
audit and its delete, because other requests and crashes disable them again and
again but do not fail at the same point for ever; and for a provider page that
settles while tabs still navigate. Nothing is assumed about owners, agents, or a
viewer who holds control. Obligations of different components share one formula,
since only one of them moves in a behaviour.

## 4. Proofs

Each theorem holds for any number of requests, rows, processes, pages or calls, and
for any clock, budget and fault bound. It assumes only what the module that declares
the constants says of them: that bounds are naturals, time-to-lives positive where
the code's are, and null values distinct from real ones (`Gone \notin Labels`,
`0 \notin Pids`, `"deleted" \notin Accounts`). `PaymentApproval` and `EgressGrant` state
this as an `ASSUME`, the others as a definition that their theorems have as
antecedent and that the composites `ASSUME` of every instance, so that TLC evaluates
it. `PairingAssumption` also wants finitely many polls and `ShareAssumption` finitely many
viewers, since deliveries, and the viewers who keep a share, are counted.

None of the properties is inductive. They speak about what a table or a peer holds,
and what threatens them is somebody who read it earlier. So every `IInv` says,
besides `TypeOK`, what the reader at each program point still knows, and why nobody
else could have changed it meanwhile.

| Proofs of | Theorems | What the invariant adds |
|---|---|---|
| `PaymentApproval` | seven safety properties, `CandidateIsWriteOnce`, `ClosedStaysClosed`, refinement of `ApprovalDecision` | below |
| `EgressGrant` (`Services_proofs`) | types, `MintedIsAudited`, `ToldIsRevoked`, `RevokedOnce`, `StaleServiceIsBounded` | below |
| `MasterKeyRotation` (`Services_proofs`) | `RotationSafe` | which keys a machine may hold at each stage of the job (`Staged`); what a writer is about to write is wrapped with its own machine's key; every row under the old key is listed or was missed; what was listed of a row is what it holds unless it raced |
| `CredentialFetch` | `FetchSafe`, refinement of `OneTimeSecret` | one fate per row, read off the status while there is one and off audit and answers afterwards (`FateSound`); one holder of the right to reveal (`ClaimSound`); what is on its way out was signed and audited (`OfferSound`); what the sweep may still delete (`SweepSound`) |
| `CredentialMutation` | `MutationSafe` | a commit holds the lock of its approval and the state it read is the one approved (`CommitOK`); an id not yet inserted is known to one request |
| `BrokerElection` | `ElectionSafe` | what a process holds at each line: the lock while elected, the socket path while it listens, no Chrome after it closed its own but one launched since (`ElectedOK`); whom it waits for was asked, and was a broker (`WaitOK`); lives are distinct |
| `BrokerCustody` | `NoSiblingLoses`; `LiveIsOwned` and `NoneWhileDraining`, but for a Chrome that follows one whose close was not proven (`CustodySafe`) | no start awaits, attaches or is admitted during a recycle (`RecyclesAlone`); a launch has somebody who awaits it and its Chrome is what is owned from the start on (`LaunchSound`); a close is of the owned Chrome (`CloseSound`) |
| `BrokerForward` (`BrokerElection_proofs`) | `ForwardSafe`: `NeverReplayed`, `OnlyDrivesGoOn` and, until two calls replace the same connection, `OneConnection` and `KnownIsReachable` | how often a call has run and may still run stay within what it asks (`RunsLeft`); what the process knows was opened and is held by a connection that was made (`Known`); connections are numbered and at most one is alive (`OneLive`), the one a call being prepared has found or is replacing (`PrepOK`, `FreshOK`) |
| `BrowserProcess` (`BrokerCustody_proofs`) | `ProcessSafe` | what a stage of the start says of Chrome and of Playwright's promise (`StagesOK`); whose identity is known has run, and another Chrome's is known only where this launch will make none (`KnownOK`); who waits for an end has asked for it (`AskedOK`); what was told as closed is dead, dropped, or was never launched (`ToldOK`) |
| `BrokerSessions` (`BrokerCustody_proofs`) | `SessionsSafe`, with `LiveShare` | below |
| `LiveShare` (`BrokerCustody_proofs`) | `SessionsSafe`, with `BrokerSessions` | below |
| `Pairing` (`Accounts_proofs`) | `PairingSafe` | claimed row and winning page point at each other (`RowOK`, `PageOK`); what a poll carries is what its row holds (`RequestOK`); deliveries and marks in flight are bounded together (`GivenOK`) |
| `SignIn` (`Accounts_proofs`) | `AccountsSafe`: types, `SessionsOfLiveAccounts`, `SignedInAsIdentity`, `IdentityStable` | account ids are numbered and never come back (`Numbered`); a sign-in about to open a session has the account its identity is bound to, or one that is gone (`Traced`) |
| `Billing` (`Accounts_proofs`) | `BillingSafe` | of a subscription whose events come in turn, the last event waiting tells its present state, and one request at a time is about it (`TurnsOK`); what is applied and shown was paid (`SourceOK`); whoever paid is a customer or will be told of (`PaidOK`); without hurried checkouts at most one is open or paid (`InOrderOK`) |
| `SkillRegistry` (`Accounts_proofs`) | `SkillsSafe` | a row a transaction drafted is locked by it and committed as it was when it was drafted (`DraftSound`), so that what it supersedes is still what it meant to; a request that will activate a skill judged only skills of the same entry point (`RequestSound`); the unique index does the rest |
| `CardMutation` (`CredentialMutation_proofs`) | `EditsSafe` | a commit that read the approval keeps it pending, since it alone holds the row's lock (`PageSound`); a row is approved exactly when its one edit is audited (`EditSound`) |
| `RetrievalLimit` (`Services_proofs`) | `RetrievalsBounded` | what the hour has served and what those that counted may still serve stay within the ceiling together (`LimitInv`) |
| `VaultStore` (`Services_proofs`) | `CapturesSafe` | what a call's line says of the slot: the row it names was there, and a capture about to be answered was inserted, under the id that its retries share (`CapInv`) |
| `WebhookSync` (`Services_proofs`) | `WebhooksSafe` | record, card and event statuses lie on one scale of ranks, up which the approval moves: what any task read is no further than the approval is now (`ReadBefore`), and what was announced ends in what is subscribed (`Announced`) |
| `WebhookDelivery` (`Services_proofs`) | `WebhooksSafe` | numbers of attempts in flight differ and were taken (`HoldsTaken`, `HoldsApart`); posts made and posts to come are together no more than the attempts taken (`PostsCounted`) |
| `CardRelease` | `ReleaseSafe` | a call follows the approval its session holds (`CallOK`), whose key is there while it can be signed (`SessionOK`); what the server settled stays settled |
| `OperateClick` (`CardRelease_proofs`) | `ClickSafe` | what the page counted at each line (`Counted`, `FirstTry`); what the listener missed did not reach its node (`Listened`), and a repetition rests on that alone (`Repeats`, `Proven`); the journal is ahead of every press (`Journalled`) |
| `OperateDrive` (`BrokerElection_proofs`) | `DriveSafe` | below |
| `OAuthLogin` (`CardRelease_proofs`) | `SignInSafe`, with `OAuthLease` | below |
| `OAuthLease` (`CardRelease_proofs`) | `SignInSafe`, with `OAuthLogin` | operations hold tickets in the order they entered; each waits for the one before its own, and the tickets given back are an initial segment (`Ticketed`) |

A proof module has lemmas on types first, then *shape* and *frame* lemmas that say
what one helper changes (`PutType`, `GoesType`, `RequestKept`), then one lemma per
action or group of actions, and the temporal theorems at the end.

**PaymentApproval.** `IInv` says of the requests in flight:

- `Untouched`: before creation nothing exists; before the id is surfaced only the
  creating request works on it.
- `OfferSound`: a staged candidate verified and is over the bound card; a request
  about to stage or confirm carries a candidate over the card the row is bound to
  (a card is never rebound, so what was read remains true).
- `DecisionSound`: answers given so far agree with the status, and a decided row
  holds nothing staged.
- `SealSound`, `ClaimSound`: only the recipient of a sealed approval has been given
  the candidate or is about to be; the requests past `markClaimed` are at most one,
  the claim is then spent, and nothing was delivered before.
- `SweepSound`: a request about to delete an undecided row has audited its expiry.

`ClaimNotWasted` and the refinement need more, `PromiseInv`: what a request carries
from step to step. A candidate it read is still staged while the row is pending, a
claim is marked only after a candidate was seen, and the clock it read stood before
the deadline. With it every handler step maps to a step of `ApprovalDecision` or to
none, and `ClosedStaysClosed` follows.

**EgressGrant.** `Ledger` relates row, audits and answers: one mint row iff the
grant exists, at most one revocation row, naming the request that may report it,
and transactions in doubt belong to requests that saw the grant. `Dated` bounds by
`revoked at` what every cache entry, travelling read and mint believes: a live read
that arrives after the revocation was taken before it, at most `ReadTime` ago.
`ReadTime` is an assumption on the environment (how long a database answer
travels), stated by the guard of `Tick`; without it no bound exists, since
`readById` starts the TTL when the answer arrives.

**BrokerCustody.** Closes may be proven at once, late, after a force-close, or never.
`NoSiblingLoses` holds whatever they do. `LiveIsOwned` and `NoneWhileDraining` make one
exception: a force-close that is proven late forgets whatever is owned by then
(`ForgetsOnlyProven` in section 5), so a Chrome launched after one whose close was not
proven (`Followed`) may be up and not owned, and a session may open in it during a
drain. Of every other Chrome both hold, in particular of the first, and of all of them
as long as closes are proven.

**BrokerElection.** A start that passed `acquire`'s look at `closing` and awaits its
account launches without looking again, while `close` finds nothing to wait for.
`Launch` is therefore enabled during a shutdown too, up to the release, and
`ReleasedWithoutChrome` is refuted. `OnlyLateOutlives` says what is kept: a process that
ended in its own time leaves no Chrome but one that such a start brought up (`ghost.late`).
The other parts hold in spite of it; the next service kills that Chrome before it
serves (`ServiceOwnsChrome`).

**BrokerForward.** `NeverReplayed` needs no ordering of calls: a frame is written
once, and a lost reply is never sent again. Calls are prepared and sent
concurrently, in any order. `OneConnection` and `KnownIsReachable` can break in one way,
which `Raced` names: two calls found the same connection lost and each makes a new one
(section 5). Until then both hold, however calls overlap.
`CancelledIsNotSent` is false of a drive with a url, which looks at its signal
before the open and not before the command; `OnlyDrivesGoOn` says that nothing else is
sent after it was cancelled.

**Billing.** Two tabs, redeliveries, lost answers and events in any order are all in
the model. `unsure` and `careful` record what happened: which subscriptions had an event
taken out of turn (before an older one, or while another request was about it), and
whether a checkout was begun while another was unsettled. `Settled` asks only that
the account's own subscription is not `unsure`, `PaidCanManage` asks nothing, and only
`OneSubscription` and `PaidIsServed` want both histories clean; `billing_tabs` shows the
first of them false without.

**BrokerSessions.** `SessionInv` counts the leases of a session by its queue: the queue
has every command that was invoked and not settled, once (`Queued`), and of those only its
head prepares or runs. A release of the
tabs is asked for only by somebody who found no lease, and from then on none is given,
because the session is closing, not registered or was never ready (`Settling`); only the
shutdown of the broker, whose end is forced, goes ahead of them. A page that is open
belongs to a family that is kept and that a release takes with it (`Kept`), hence a
finish that is told of a closure is told the truth.

**LiveShare.** `LiveInv` orders the shares: they are numbered as they are made, each
after the one before it expired (`Numbered`, `Alone`), and a viewer sits only at one that
serves (`Seated`). The agent takes its turn on the share it read, and that share counts
it while it acts (`Turned`); an input leaves a chain only while its share counts no act,
so at most one is on its way and none while the agent acts (`Apart`). Whoever has control
of a share is connected to it, or the departure is in its chain (`Present`). `Apart` needs
`~MayFail`: a session that reopens after a failed preparation would let an act begin on
a share that was dropped with an input on its way.

**OAuthLogin.** `LoginInv` accounts for every tab. A tab not named by the run, the
slots or a saved sign-in does not exist (`Unopened`, `RunTabs`, `IdleSlots`), so
closing what they name leaves none behind. Between calls either the provider's tab
is shown and remembers the product, or the product's tab is shown with the provider
as its source (`Showing`, `Keeping`); the next call tells the two apart by the
slots alone. A screen was told of only while its tab still shows it, or the tab has
moved on (`ToldOK`), which is what makes "clicked once" inductive: a document number
never comes back. A denial or a return that the run has seen stays with it until it
reports (`DenialsOK`, `ReturnsOK`). `SignInSpec` is the conjunction of the two
components' specifications; they share no variable, so it has every interleaving of
them.

**OperateDrive.** `DriveInv` says what the locals of the loop hold at each of its
lines. An act is charged at the end of its iteration (`Paid`), and at most one
iteration follows without a look at the budget, the question after a recovered
choice (`Budgeted`): together they bound the acts by the steps. A decision keeps the
page it was made on until that page is checked (`Placed`, `Chosen`); what counts as
dead was tried on the page it is dead on, by the act whose effect is being judged
or before it (`Tried`); and a rejected choice goes to the model, which only the
wallet comes before (`Owing`). The site, which `TLC` draws from four, is any one
whose pages each take a branch of the loop.

**What the proofs found.** A failing leaf of `Pairing` showed `CASE` arms that
overlapped, where the code has `if ... else if`; TLC takes the first arm, the logic
does not say which. These are now nested `IF`s, there and in four other modules.
`BrokerElection` needed a process to be told from its slot (a pid is reused, a life
is not), which the code also does by the process's start time.

**Only model-checked.** Liveness (`LapsedIsSettled`, `AgentSettles`) and `ENABLED` are
beyond the prover. Every safety property of the passing runs is proved, and the
ones that hold under a constant are proved under it (`~Overlap`, `~NewTerms`,
`~ConfirmFaults`, `~Legacy`, `~MayFail`). The properties of section 5 are refuted.

## 5. Disagreements found

Runs that end in a counterexample:

- **An outcome can be reported twice** (`payment_outcome`). `POST /:id/outcome`
  looks for an earlier outcome and then inserts; two reports in flight are both
  accepted, even contradictory ones. The comment above says "and once".
- **The re-wrap can destroy a secret** (`master_key_race`). The script writes back
  the key blob of the row it listed, over a row that was replaced meanwhile.
- **A raw token can be delivered twice** (`pairing_twice`). Two polls that overlap
  both receive it; the comment says "exactly once".
- **Two tabs can open two subscriptions** (`billing_tabs`). The status is read when
  a checkout is opened.

Others are stated as a property in the module named and refuted the same way; they
are kept as definitions, with the constants that let the case happen in brackets.

| Property | Module | What the code does |
|---|---|---|
| `ExpiryAuditMeansUnpaid` | `PaymentApproval` | a status read audits an expiry from a record it read before the confirmation |
| `RevokedIsDead` | `EgressGrant` | a cached live answer serves up to 30 s after the DELETE was answered, in the revoking process too; `StaleServiceIsBounded` says what holds |
| `LapseIsAudited`, `LapseAuditedOnce` | `CredentialFetch` | a read settles a lapse before auditing it, and the sweep's audit has no key: none, or two rows |
| `SealedNeverPlain` | `CredentialFetch` | a create that dies between its two inserts leaves an SDK approval without its key, which is then disclosed in plaintext |
| `EditsAreKept`, `AnsweredIsApplied` | `CardMutation` | a commit compares the face only; an approve of an approved edit answers 200 for a different edit |
| `RestoredIsReadable` | `MasterKeyRotation` | deleted rows are not re-wrapped, and can be restored after the old key is gone |
| `AddingIsAdditive`, `RetriesReconcile` | `VaultStore` | `addField` writes back what it read; a retried capture can be refused as if its own row were another's |
| `CeilingHolds` | `RetrievalLimit` | retrievals that count together all pass |
| `SubscriptionsClose`, `FinalEventIsTrue` | `WebhookSync` | a receiver that never ends its body holds every later tick; an expiry is announced although a decision is still committing |
| `ReleasedWithoutChrome` | `BrokerElection` | the Chrome of a start that awaits while its daemon ends outlives the release of the lock: `ClosedBeforeExit`, seen from the profile |
| `ForgetsOnlyProven`, `ClosingMeansTwoThings`, `ClosedBeforeExit` | `BrokerCustody` | a second recycle forgets the Chrome launched since; a launch failure leaves `closing` set with nothing retained; a start that awaits while the daemon closes still launches |
| `DroppedSessionsClose`, `CleanedIsRetired`, `NothingAdopted` | `BrokerSessions` | sessions whose Chrome was lost, whose close was slow, or whose start was aborted late stay behind |
| `OneConnection`, `CancelledIsNotSent`, `StaleMeansCreated` | `BrokerForward` | two calls that find the connection lost both connect; a drive with a url is sent though cancelled; a refused start is later called stale |
| `UndispatchedIsNoEvidence`, `DeadOnThisPage` | `OperateDrive` | an act that was not dispatched counts as tried; dead keys of the old page are withheld on the new one |
| `ConfirmedIsReleased`, `WrittenAsAsked`, `RecordedIsInLedger`, `LedgerOnce` | `CardRelease` | a stale ref after the confirmation burns the approval (`StaleRefs`); a card is filled under an approval for other terms (`NewTerms`); a lost answer of the ledger loses or repeats the row |
| `ConflictIsIdempotent`, `SuccessorIsServed`, `DowngradedIsQueued`, `ScheduledIsSwept`, `OnlyRotDemotes` | `SkillRegistry` | publications that pass the gate together replace one another without a review (the exemption `saw` in `ReplacedByReview` says which); any unique conflict is taken for the skill's own; a retired skill supersedes the served one; demoted and reactivated skills are not queued; a network failure can demote |
| `RefusedWhilePending`, `HumanBudget`, `MissedTriesNext`, `PendingKeepsProduct` | `OAuthLogin` | `pendingOnProvider` is never reset; a chooser or consent gets no human deadline; a missed click is not followed by the next control; a pending popup can outlive every tab to return to |
| `ErasureLeavesNothing`, `ListedIsPaired`, `TakenIsKept`, `RawForgotten` | `Pairing` | a claim pairs a token to an erased account; a failed claim leaves a session; a failed ceremony drops the token; the raw token stays in its row |
| `ReturningNotBlocked` | `SignIn` | an identity bound by another tab meanwhile is refused as a new sign-up |
| `PaidIsServed`; `Settled` of an `unsure` subscription | `Billing` | an event out of order, or of an older subscription, decides the tier |

Smaller ones, noted while modelling: `POST /approve` gives the relay the approval's
own expiry where `apps/api/README.md` says 15 seconds. In `BrowserProcess`, with a
systemd scope a close can be answered while the spawned child has not joined its
scope yet, a start given up on an unidentified child leaves it behind, and a start
cancelled before it is committed can never be proven closed; without a scope, a
refused or cancelled start signals a Chrome that another process holds
(`RefusedSparesHolder`). In `OperateClick`, the JavaScript fallback and option rows
do not mark the dispatch again, a press that strayed to a replacement node and then
failed is repeated, and a switch whose `aria-checked` follows late is toggled
twice. In `LiveShare`, a reply to a dialog checks only that its viewer is connected,
and a finish whose preparation fails (`MayFail`; no caller's can today) reopens the
session without its share.

## 6. Not modelled

- **Cryptography** is represented by predicates: which candidate verifies
  (`Signed`), over which card (`CardOf`), which key opens a row.
- **Reading and ranking a page**: compact observation, DOM serialisation, form
  filling, captcha, screenshots. These are functions of the DOM of the moment; their
  effect on the modelled protocols (a ref that went stale, a node that was replaced,
  a page that moved) is an action of the environment in `OperateClick`,
  `OperateDrive`, `OAuthLogin` and `CardRelease`.
- **Capture of a secret from the page** (`bot/capture`) up to the vault's write,
  which `VaultStore` has; the remote display of a login.
- **Decision events**: an in-memory relay that nothing waits for.
- **SDK, schemas, texts, settings pages, compare and guide pages**: no protocol
  state.
- Within modelled components: what the `note` of each component in `PROJECT.json`
  leaves out.

Two hazards have no property. A lost revocation that commits between the first
check and the retried update makes its request report no change, so the owner is
not notified: `RevokedOnce` allows it and no document promises the notification. A
rotated or deleted credential is injected for 15 s by every process that cached it:
that cache is not modelled.
