# A verification project for the underwriting workbench

TLA+ models of the workflow core of this repository (a treaty reinsurance
underwriting system: Express and PostgreSQL on the server, React in the client),
TLC runs that check them on small instances, and theorems that TLAPS checks for
every value of the constants. Paths below are relative to `src/server/src` unless
they say otherwise.

## 1. Inventory

All state that matters is in PostgreSQL; the server processes keep none between
requests, except short caches. "Concurrency" is therefore: HTTP requests of
several users (and several replicas) that interleave at every `await`, READ
COMMITTED transactions, row locks, and reads on the pool that are stale by the
time they are used.

| Component | State | Operations | What is hard | What makes it correct |
|---|---|---|---|---|
| Treaty approval engine (`services/approvals.js`) | `contract_offer`: status, step, submitter, approver options, two peer slots, arbiter slot; `approval_decision` | submit, peer and arbiter decision, sign, NTU, return, recall | all checks run before the transaction, only a few WHERE clauses inside; two rows written by every handler | four eyes, slots filled once and in order, the five-tier outcome, contract and offer in step |
| Status writer (`services/workflow.js`) | `contract.uw_status`, its mirror `contract.status` | `changeUwStatus` | checks a stale `from`, updates unconditionally | legal edges only, terminal states final |
| Pricing offer (`modules/pricing/...`) | the same two rows | saveOffer (delete and insert), decline | FOR UPDATE on a row that may not exist | never destroys an approval in flight |
| Treaty form (`routes/treaties.js`) | contract header, pricing sections | create, PUT, renew, delete | round-trips old statuses; writes the signed line in any state | the engine's states are out of its reach |
| Status machine (`lib/statusMachine.js`) | none | `isLegalTransition` | | the specification of the other components |
| Quote workflow (`services/quoteWorkflow.js`) | `quote`, `quote_offer` | submit, decline, both under FOR UPDATE | the others do not lock | legal edges |
| Quote approval (`services/approvals.js`) | the same, and the event table | approve, NTU, return, recall | checks on the pool, mirrors after COMMIT, submitter derived from events | approver is neither creator nor submitter |
| Quote versions and bind (`routes/quoteLifecycle.js`, `services/quoteBind.js`) | version chain, `bound_contract_id` | amend, bind | swallowed errors in a transaction, double bind | one live version, bound at most once |
| Assignments, edit lock (`services/assignments.js`, `permissions.js`) | `assigned_to_user_id` | claim, allocate, reassign, `assertCanEdit` | check then act; the freeze reads an unused column | ownership frozen once in flight |
| Claims ledger (`routes/claims.js`) | claim, movements, documents, approval | create, edit, book, close, decline, reopen, submit, finalise, reject, attach | the signed line is read before the row lock is granted; attachments are checked, stored and recorded in separate steps | the reviewed figures are the submitted ones, a second person reviews, no row without its file |
| Finance ledger (`routes/finance.js`, `services/financePush.js`) | one entry per contract | push, acknowledge, move | a push concurrent with Finance's own moves | signed means on the books; an acknowledged entry never regresses |
| Optimistic lock (`db/optimisticLock.js`) | `updated_at` | If-Unmodified-Since | opt-in; the stored time is that of BEGIN | no lost update among those who opt in |
| Rate revisions (`services/facReferenceAdminService.js`) | version rows, staged rows, live tables | create, stage, submit, approve, reject, publish | checks on the pool, then writes by id; two constraints of the schema are all that is left in a race | one version in force, four eyes, live rates are the approved ones |
| Sessions (`services/sessions.js`, `routes/auth.js`, `sso.js`) | user row, session rows, epoch | log-in, log-out, change of password, role, activity, mandate | a log-in is three statements; an SSO sign-in decides from an unlocked read; two lock orders; an unawaited rehash | a change ends every older token (not always: section 8), the device that made it stays |
| Facultative risks (`routes/facultative.js`, `services/facAccumulationService.js`, `lib/facRecommendationApply.js`, `lib/facDocAi.js`) | `fac_risk` with its locations and pricing, `mv_fac_accumulation`, `fac_bound_reference_seq`, `fac_ai_recommendation` | create, edit, price, submit, decline, bind, delete, refresh, accept, reject | read on the pool, write by id; the capacity gate measures a materialized view that a bind refreshes afterwards, best effort | the view follows the book, no bind past the budget but a known exception, an answer is what was done, a number is given once |
| Migrations (`startup/runMigrations.js`) | `_migrations`, advisory lock | run at start-up | replicas, a lost lock connection, a crash between files | each applied once, in order, before anything is served |
| Shutdown (`startup/gracefulShutdown.js`) | sockets, handlers, timers, pool | signals | grace period against deadline, handlers whose client has been answered, a closing that fails | it always ends; exit code 0 means that every client has its answer and no held connection was cut off |
| Workbench (`routes/workbench.js`) | formula parameter, pending value | propose, approve, reject | proposer is just `updated_by` | four eyes (not modelled) |
| Import job (`services/renewalPack/*`) | job row, snapshot | import, restore | crash in the middle | a job ends (not modelled) |
| Rate limit (`lib/rateLimitStore.js`) | counters in Redis or memory | increment | fail-over splits a window | bounded over-admission (not modelled) |
| AI staging (`routes/aiCedant.js`, `aiMarket.js`) | recommendations | stage, supersede, accept | writes lines beside the engine | accepted once (not modelled) |
| Pricing mathematics (`src/shared/*.js`) | none | pure | real numbers | out of reach |
| Facultative sections, layers, COPE and losses, vulnerability and Cresta data, exports, client, deployment | | | | not modelled |

How they interact: signing a treaty pushes it to Finance in the same transaction;
claims are opened on a signed treaty and copy its signed line; the treaty form, the
pricing offer, the claim of an owner and the approval engine write the same contract
row; a bind turns a quote into a signed treaty with a Finance entry; the gate of a
facultative bind adds what treaties in force have committed; every handler runs behind
the session test and in a process of the lifecycle.

Every hazard of this code that a test would hardly reach is in `PROJECT.json`
under `hazards`, at its line, with the properties that watch it, or the reason
why none does yet.

## 2. Modules

| Module | Models |
|---|---|
| `StatusMachine` | `lib/statusMachine.js`: one variable and the legal moves; the abstract specification of a treaty |
| `ApprovalWorkflow` | the approval engine, `changeUwStatus`, saveOffer, decline and the header of a treaty save, on one contract and its offer |
| `QuoteFamily` | what a quote reference promises: a chain of versions with one live end |
| `QuoteLifecycle` | the versions of one quote reference: submit, approve, decline, NTU, return, recall, amend, bind, hand-over |
| `FourEyes` | what a review promises: filed, then granted or returned by somebody else, and changed only by giving the grant up |
| `FinanceLedger` | one treaty around its signature, and its entry in the Finance ledger |
| `ClaimLedger` | EXTENDS `FinanceLedger`: a claim on that treaty, its movements, review and attachments; implements `FourEyes` |
| `TreatyEditing` | screens that load and save one treaty under the optimistic lock |
| `RateRevision` | the revision of facultative rate tables |
| `Sessions` | the sessions of one user and what ends them |
| `FacRisk` | facultative risks: their workflow, the capacity gate and the view of the book, the answers to AI recommendations |
| `ServerLifecycle` | server processes from start, through migrations and traffic, to exit |
| `MC...` | the instances of each for TLC |
| `ApprovalWorkflowProofs`, `QuoteLifecycleProofs`, `ClaimLedgerProofs`, `TreatyEditingProofs`, `RateRevisionProofs`, `ServerLifecycleProofs`, `SessionsProofs`, `FacRiskProofs` | the theorems about each, with their proofs |

### How a model step corresponds to the code

* A request is a program counter and what it has read (`req[r]`). A read on the
  pool is a step; so is a read without lock inside a transaction, and a row lock
  that is held over a later statement. A transaction that reads nothing after
  its first write is one action, enabled when it gets its row locks.
* Every refusal (4xx), query error, deadlock victim, lost connection and dead
  process ends a request at any step without a further effect: `Fail`. A guard
  that does not hold disables the step, so that `Fail` is all that is left.
* History variables (`sub`, `fresh`, `subs` of the treaty) appear in no guard
  except the bound on submissions.

`ApprovalWorkflow`. `contract` is the row with `uw_status` (`uw`), the mirror
(`status`), the signed line and whether Finance has an entry; `offer` the
`contract_offer` row, where `ABSENT` is "no row" and line 0 is NULL; `decisions`
is `approval_decision` for the current `offer_id`; `routing` the approver set that
planSubmission and deriveLiveApproverOptions would compute now, which mandates,
rosters and treaty figures may change at any moment (`Reroute`); `lock` the row
lock of `contract_offer`.

| Request | Actions |
|---|---|
| submitForApproval | `PlanSubmission`, `UpsertOffer` (row lock, then the unlocked status read), `CommitSubmission` |
| recordDecision, peer | `LoadOffer`, `CheckRouting`, `ClaimPeer1` or `ClaimPeer2` (conditional UPDATE, outcome, record, status) |
| recordDecision, arbiter | `LoadDispute`, `ClaimArbiter` |
| sign | `AssertTransition`, `AuthorizeTerminal`, `CheckSignedLine`, `Sign` |
| NTU | `AssertTransition`, `AuthorizeTerminal`, `MarkNotTakenUp`, `MirrorNtu` (after COMMIT) |
| return, recall | `AssertTransition`, `AuthorizeTerminal`, `SendBack` |
| decline | `AuthorizeDecline`, `ReadForDecline`, `CommitDecline` |
| saveOffer | `ReadForReplace`, `LockForReplace`, `CommitReplace` |
| PUT /treaties/:id | `EditHeader`: it locks the contract row before it reads, hence one action |

`held` says that the `offer_id` a decision loaded still names the row (saveOffer
inserts a new one). `LoadOffer` merges the two reads of a peer decision: whatever
changes between them fails one of the guards of the second. The reads of an
authorization are merged. The assignee behind the edit lock is any member of
`Owners` at any time, an over-approximation. A user's level is a constant: the
60 s cache of role levels is a hazard without a property.

`QuoteLifecycle`. `quote`, `offer` and `lock` are rows by quote id; `submitter` is
what `quoteSubmittedBy` would find, `late` models that an event carries the time
of its BEGIN; with `EventReadsFail` that query may fail, which the code takes for
"nobody". `uw` is `quote.uw_status`, which no handler writes. `SELECT .. FOR UPDATE`
and COMMIT are separate actions (`LockFor...`, `Commit...`). `AbortedAmendment` is
the transaction whose audit insert failed: it rolls back and answers 201.

`FinanceLedger` and `ClaimLedger`. `contract` has the status and the signed line (0 is
NULL), `entry` is the `finance_treaty_entry` row, whose `by` stands for
`acknowledged_at` and `acknowledged_by_user_id`, written together. `BeginTerminal` is
the check of SIGN or NTU on the pool, `CommitSign` the transaction with the push.
`position` is the latest `claim_movement`, `job` what a request on the claim carries.

| Request | Actions |
|---|---|
| SIGN, NTU | `BeginTerminal`, `CommitSign` (with `Pushed`) or `CommitNtu` |
| PUT and DELETE /treaties/:id | `EditLine`, `DeleteContract` (refused by the foreign keys) |
| finance acknowledge, status | `Acknowledge`, `SetEntryStatus` |
| POST /claims, PUT /claims/:id | `Create`, `EditClaim` |
| movements, close, decline, reopen | `BeginBooking` (the statement begins, and reads the treaty's line), then `Book`, `Close`, `Reopen` under the row lock |
| submit, finalise, reject | `Submit`, `Finalise`, `Reject`, each under the row lock |
| attachments | `BeginAttach`, `StoreFile`, `RecordDocument`; `BeginDelete`, `DeleteRow`, `RemoveFile` (best effort) |

`TreatyEditing`. `updatedAt` and all times are milliseconds; a transaction stamps the
row with the time of its BEGIN. `Check` is `assertEntityUnchanged` (it takes the row
lock), `SaveGuarded` the rest of that transaction, `SaveUnguarded` a save without the
header or with `*`, `Assign` the UPDATE of `services/assignments.js`. `latest` says of a
screen whether no save has replaced what it shows; it appears in no guard, nor does
`behind`. A load is two steps, the contract row and the section's tables, and a save
begins at least a millisecond after the answer its screen got. Allocate, reassign and
claim are over-approximated: anybody, any time.

`RateRevision`. `version`, `stage` and `applied` are the version rows, the staged rows and
the live tables; `task` is what a request has loaded. Every operation is a load on
the pool (`Begin...`) and a write by `version_id` (`Submit`, `Approve`, `Reject`,
`InsertRow`); a publication is `BeginPublish`, `ReadStaged`, `FindSuperseded`
(the snapshot of the UPDATE) and `Publish`. `FourEyesCheck` and `InForceIndex` are the CHECK
and the unique index of migration 139: a write they refuse is not enabled, so that
`Fail` is what is left. `reviewed` and `overlap` are history.

`Sessions`. `user` is the `uw_user` row, `session` each `auth_session` row with the epoch in
its token, `lock` the holder of the user row. A log-in is `BeginLogin`,
`InsertSession`, `IssueToken`; a change is `Begin...`, `LockUser`, `FindRows` and `RevokeRows`
(the two halves of `revokeAllForUser`'s first UPDATE: snapshot, row locks), `Commit`; the
mandate handler locks the user row last (`LockUserLast`). `StoreRehash` is the
unawaited UPDATE after a log-in with an old hash. `Abandon` is an error, a deadlock
victim or a crash. A change decides whether it revokes (`revokes`) when it has locked the
row, an SSO sign-in from the role it read without a lock (`read`). History: `changes`
counts the commits that alter password, role, mandate or activity of the row as it
stands (`Alters`), whatever they decided; `seen` is its value when a token is issued,
`began` when a sign-in was checked; `overtaken` says that the latest such commit is an
SSO sign-in that wrote over a role it had not read.

`FacRisk`. `risk` is the `fac_risk` row with the sum of its locations and the grade of its
pricing; exposure is what it carries, at our share, in the one CRESTA zone of the model
(the gate loops over zones that do not interact). `view` is what the FAC leg of
`mv_fac_accumulation` holds of each risk; the treaty leg is the constant `TreatyLoad`.

| Request | Actions |
|---|---|
| submit-for-approval, decline | `ReadForSubmit`, `Submit`; `ReadForDecline`, `Decline`: a read on the pool, then an UPDATE by id |
| bind | `ReadForBind`, `Measure` and `Weigh` (`checkFacCapacity`: the risk, then the view), or `SkipCheck`, its catch; `Bind`, then `Refresh`, `Install` |
| refresh, nightly job | `RequestRefresh`, `Refresh` (takes the lock and computes), `Install` (commits) |
| accept, reject | `ReadForAccept`, `Accept` (one transaction, its UPDATE by `rec_id` alone); `Reject` |
| create, delete, locations, share, pricing | `Create`, `Delete`, `SaveExposure`, `SavePricing` |

A refresh is taken to compute from the moment it has its lock on the view. An accept
applies its value as `facRecommendationApply` does for the exposure; other fields change
nothing that the properties read. Who may act is over-approximated: anybody who passes
the edit lock, at any time. `drift` (risks that the view may be behind of, for a reason
other than a bind in progress) and `applied` are history.

`ServerLifecycle`. `worker` is a process: `wait`, `read`, `next` and `run` are the steps of
`runMigrations`, then `serving`, `draining` (server.close), `closing` (the store of the
rate limits), `ending` (pool.end) and `failed` (the catch of either, which exits with 0
as well). `traffic` counts sockets without a request (`idle`), requests (`busy`), and
handlers whose client had its 503: `held` with a connection to the database checked
out, which pool.end waits for, `late` between two statements or in the queue for a
connection, which it refuses from then on. A client that hangs up during its request is
`TimeOut` and `Disconnect`. The advisory lock belongs to a session:
`LoseLockConnection` drops it behind the back of its holder, `ReadNothing` is the
catch of `getAppliedMigrations`; both set `faulted`, a history variable. `Crash`,
`LockTimeout`, `FatalStatement`, a second signal and the `Deadline` end a process, and
with it its transactions.

## 3. Runs and bounds

| Run | Instance | Shows |
|---|---|---|
| `ApprovalRaces` | 4 users (one chief underwriter, two directors), 2 concurrent requests, 2 submissions, no offer row at first; headers with an old DRAFT and with an engine state; 2.5 M states | slots in order and never rewritten, the five-tier rule, the decision record, the provenance of every approval |
| `ApprovalReassigned` | 3 users of whom two may submit, an offer row at first, headers with an old DRAFT; fairness; 1.3 M states | four eyes, a pending treaty keeps its submitter, approvals are not destroyed, the row lock is given back |
| `ApprovalSequential` | one request at a time, 3 submissions, lines 10 and 20, two rosters, commercial labels; 0.3 M states | contract, mirror, offer and Finance agree; signed within written; the lifecycle refines `StatusMachine` |
| `QuoteRaces` | 2 users, 2 concurrent requests on one version, amendments up to three versions, failing event reads; 1.8 M states | bound once, legal moves under the lock |
| `QuoteSequential` | 3 users, one request at a time on two versions; 2.0 M states | refinement of `QuoteFamily`, one live version, offer follows quote, independent approver |
| `SignedTreaty` | 2 signing requests, 2 clerks, an underwriter and an approver, one line and NULL, 2 amounts, 2 headers, 3 movements, one document; 2.7 M states | a claim and a signed treaty are on Finance's books, acknowledged entries never regress, reviewed figures, files behind documents, refinement of `FourEyes` |
| `RateRevisions` | 2 users, 2 concurrent requests, the seeded version and two revisions, 2 rows; 0.3 M states | live rates are the submitted and approved ones until requests overlap |
| `SessionRaces` | 2 concurrent requests, 3 sessions, 2 roles, 2 changes; fairness; 0.54 M states | a change ends all older tokens, but for an overtaken SSO sign-in, and keeps its device; every request ends |
| `Lifecycle` | 2 processes, 3 files of 2 statements, 2 connections each, a file applied at most twice; fairness; 0.2 M states | each file once, nothing served before, what exit code 0 says, every shutdown ends |
| `FacultativeRisks` | 2 risks, 2 recommendations for one field, 2 concurrent requests, 2 numbers, a budget of one risk on top of the treaties; 3.3 M states | the view follows the book, the gate holds unless it is overtaken, overridden or could not run, an answer is what was written |
| `TreatyEdits` | 3 screens, 2 sections, 3 milliseconds after the first; 0.7 M states | no lost update under the lock while `updated_at` moves forward, and guarded saves move it forward |

Why these bounds are enough for the questions asked. The races are about one
request that acts between two steps of another, hence two requests; a third adds
no new pair. A stale decision needs one resubmission, so two submissions. The
outcome rule tells apart a final authority, an arbiter tier and a submitter, and a
split needs two peers and a third party: four users. Two lines are one within and
one above the written line. Two versions show a superseded and a live one, three
that an amendment of an amendment is numbered right. Three movements are an opening,
a restatement and a closing or reopening; of figures only "nil or not" and "the same or
not" matter, hence two amounts and one line besides NULL. Two revisions beside the seeded
version let two publications race for one predecessor. Three sessions are one that is
revoked, one that the change creates and one that a racing log-in creates; two
changes let one revoke what the other has created. Three files show a gap in front of
an applied file; with two connections one can hang while another is kept alive. A lost
update needs a screen that saves, one that is overtaken and one that writes without
the header. In `FacultativeRisks` the zone holds one risk beside the treaties and not two,
so that the second bind meets the limit; `Focus` explores two instances in one run: the
first risk with both recommendations, and two risks that compete for the zone. Numbers
past the second add no case. The theorems of
section 5 hold without these bounds (those for one request at a time keep that one). Requests,
processes' peers, screens and sections are symmetric where a cfg says so (never under a
liveness property).

Deadlock is checked except in four runs, where the instance really ends: a treaty
that was deleted before it had an entry (`SignedTreaty`), no version or row left to add
(`RateRevisions`), no session or epoch left (`SessionRaces`), every risk deleted or
every number drawn (`FacultativeRisks`).

Every module's type invariant is a theorem (`TypeCorrect`); four runs check it as well, and
those of `TreatyEditing`, `Sessions`, `ServerLifecycle` and `FacRisk` are proved only.

Headers are payloads of the treaty form. `MCFormHeaders` has those that may arrive
during a race (an out-of-date DRAFT, an attempt at an engine state);
`MCLabelHeaders` the commercial label; `MCLineHeaders` a signed line. In
`ApprovalSequential` no payload moves `uw_status`: with one that does, the offer is
left behind by design of the route, and `RowsAgree` cannot hold.

One run (with the same actions) is a counterexample to what the code says of itself,
listed under `findings` in `PROJECT.json`:

* `SavesSeeAll`: a write that began earlier and commits later takes `updated_at` back, and
  a save that sends the header then replaces data its screen never showed.

Section 8 has the further deviations, and how to see them with TLC.

## 4. Fairness

`ApprovalReassigned` assumes weak fairness of the two COMMIT steps that
follow a granted row lock (`CommitSubmission`, `CommitReplace`). The statements
between lock and COMMIT go to a live connection, and a request whose process or
connection dies is ended by `Fail`, which releases the lock as well. No fairness is
assumed of users, of requests that have no transaction open, or of the order in
which PostgreSQL grants a lock.

`Sessions` assumes strong fairness of a request's own statements (`Proceed`): a request
waits for the user row while others may take it in turn, and PostgreSQL's lock
queue serves it in the end. The mandate handler and the other changes lock in opposite
orders, and PostgreSQL aborts one of two transactions that wait for each other: weak
fairness of `Abandon` in exactly that situation. Nothing else has to fail or to begin.

`ServerLifecycle` assumes that timers fire (`Deadline`), and nothing of handlers,
clients, the database or a second signal. `ShutdownEnds` holds on that alone.

`FacRisk` and the other specifications assume no fairness and state no liveness: what they leave to a
user (a decision, an approval, a retry) nobody is obliged to do.

## 5. Proofs

The theorems below are checked from the named assumptions on the constants: no
bound on users, requests, versions, sessions, processes, files, screens or amounts.
Nine of them state a further hypothesis on the constants, in their ASSUME, because
the property does not hold without it: with any one of them dropped, TLC finds a
counterexample in the run that checks the property. As it stands, that run satisfies all
hypotheses of the theorem:

| Hypothesis | Says | Needed because |
|---|---|---|
| `RowSaved` | an offer row was saved before the first submission | FOR UPDATE locks no row that is not there: see `ApprovalNeverDestroyed` in section 8 |
| `FormsSubmitNothing` | no save of the form asks for AWAITING_APPROVAL | the route takes `uw_status` from the form (`HeaderMove`), and such a treaty has no submitter |
| `OneAtATime` | at most one request is in flight; of users, rosters, lines, versions and submissions still any number | the handlers read before they lock and write what they read; two requests violate each of the seven properties that need it (set `Requests <- MCRaces` in `ApprovalSequential` with `MaxSubmissions = 2`, or in `QuoteSequential`) |
| `LabelsOnly` | the form leaves `uw_status` alone and writes commercial labels only | the form moves the treaty and not the offer (set `Headers <- MCStaleHeaders` in `ApprovalSequential`) |
| `LinesKept` | the form leaves the signed line alone | see `SignedWithinWritten` in section 8 |
| `EventReadsFail = FALSE` | the event table can be read | see `ApproverIndependent` in section 8 |

`ApprovalWorkflowProofs`: `TypeCorrect`, `SlotOrder` (`SlotsInOrder`), `FourEyes`
(`SeparationOfDuties`), `NoVoteRewritten`, `ApprovalNeedsVerdict` (`Provenance`).
The inductive invariant `IInv` is `TypeOK`, `SlotsInOrder` and
`SeparationOfDuties` with two strengthenings. `ListExcludesSubmitter` says that the
list stored with a submission never names its submitter; it is why the WHERE
clause `u = ANY(options)` is enough for four eyes although it does not mention the
submitter. `CarriedFacts` says what a request still knows when it writes: a
submission's list excludes its actor, a decision has an actor and a verdict.
`SlotsInOrder` must be part of it: the first claim needs an empty second slot.
Every step either leaves the slots alone (`SameSlots`), empties them
(`EmptySlots`) or is one of the three claims, where the argument is in
`DecidingKeeps`: nothing that was read before the transaction is used.
`Provenance` needs `BelowFinal` on top: a first peer whose offer still waits for a
second one is below final authority, in the row and in whatever a request has
read. So a stale first verdict, which a second peer's outcome is computed from, can
never be the one that approves; it takes the verdict that is being recorded.

Four more theorems of that module hold for any number of concurrent requests.
`RuleObeyed` (`DecisionRule`) and `RecordOfTruth` (`RecordAgrees`) speak of offers whose
every verdict was given on the submission it had read (the history flag `fresh`). Their
invariant is `RuleInv`: what a request loaded (`Informed`) is compared with the row by
submission number. If the numbers agree and the row still waits, a first slot that the
request saw filled is as it saw it, and in a dispute the arbiter is still a third party
of the right tier; if they do not agree, its verdict is not fresh and nothing is claimed. `InFlightKept`
(`ApprovalNeverDestroyed`) and `PendingHasSubmitter` (`PendingRecoverable`) rest on
`RowHeld`: whoever is about to write under the row lock holds it, and a replacement
finds the row in the state in which its check passed; `Recoverable` adds that a
treaty in approval has an offer with a submitter, in a status that is neither PENDING
nor RETURNED, so that saveOffer refuses it.

The last three are for one request at a time. For `RowsInStep` (`RowsAgree`) and
`MachineImplemented` (`StatusRefinement`) the invariant is `Serial`: the rows agree, and
what the one request has read is what the treaty still says (`UpToDate`: its state, and
the rule its write relies on).
The agreement is not inductive alone, since a decision writes the treaty from what it read of
the offer. `MachineNext` then maps each step of the handlers to an edge of
`StatusMachine`, to the dispute, or to a stutter. `LineWithinApproval`
(`SignedWithinWritten`) has an invariant of its own, `LineInv`, and holds for every header
without a line: a line that passed the check is within the written line, and a
replacement, which sets that anew, is never of a signed treaty.

`QuoteLifecycleProofs`: `TypeCorrect`, `OneContract` (`BoundOnce`), `LockedMoves`
(`LockedMovesLegal`), `CreatorApart`. The invariant is `Ready`, per request: who writes
under the row lock holds it and finds the row as it was read; who writes without one
writes to an existing version that is neither signed nor bound, which nobody
can undo, because no handler signs a quote (`Touched`). That is why a bind needs no
check when it commits although approve, NTU, return and recall write blindly: none of
them can be on its way to a signed quote.

For one request at a time: `OneLiveEnd` (`NewestIsLive`), `OfferInStep` (`OfferFollows`),
`ApproverApart` (`ApproverIndependent`) and `FamilyImplemented` (`FamilyRefinement`). The invariant,
called `Serial` as well, is `ChainOf(quote)` (the versions
are numbered 1 to n, no number twice, and exactly the last one is not superseded),
`Follows` (what `OfferFollows` says, and a version yet to come has no offer) and
`UpToDate`. `ChainKept` sorts the steps by what they do to the rows: none
(`SameRows`), one row moves (`MovesRow`), or a version is added and its predecessor
closed (`AmendsRow`); each maps to a move of `QuoteFamily` or to a stutter. The
abstract size is `Cardinality(Existing)`, hence the facts of `FiniteSetTheorems`.

`ClaimLedgerProofs`: `TypeCorrect`, `Financed` (`ClaimsAreFinanced`),
`EntriesAttributed`, `AcknowledgedStays` (`NeverRegresses`), `FiguresReviewed`,
`NilWhenClosed`, `ReviewIsFourEyes` (the refinement of `FourEyes`),
`FilesBehindDocuments`. Three invariants, on top of each other. `Books`: an entry exists
as soon as the treaty is signed or has a claim, and only approvers are on record
for it, so that a push can tell by the name alone whether Finance has begun.
`Reviewed`: the figures under review are the submitted ones; closing needs a nil
reserve on a finalised claim for it, reopening restates what there is. `Stored`: a
document on its way in is in nobody else's hands and has no row, one being cleaned
up has no row; each is needed for the other when requests on two documents overlap.

`TreatyEditingProofs`: `TypeCorrect`, `LastSaveSeen` (`NoLostUpdate`),
`GuardedSavesAdvance`. `Passed`: the comparison still holds at the write, by the row lock;
`Younger`: a save began after its screen was stamped; `Reached`: as long as every commit
moved forward, a screen level with the row shows what is stored.

`RateRevisionProofs`: `TypeCorrect`, `SingleInForce`, `ApproverIsNotSubmitter` for all
interleavings, by `Constrained`, which is what the schema's two constraints keep;
`RatesAttributed` (`AttributedRates`) and `PublishedStays` until two requests overlap,
by `Serial`, which says what the one request in flight has loaded is still so.

`ServerLifecycleProofs`: `TypeCorrect`, `MigratesOnce` (`AppliedOnce`),
`MigratedWhenServing`, `FilesInOrder`, `CleanExits`. Per process: `Informed` (what it
believes applied is marked, and it runs the first file it misses), `Exclusive`
(without a fault the one that migrates holds the lock and has seen every mark),
`Settled` (who is up is migrated, who closes pools has replied to everybody, sockets and
handlers are within the bound together). `CleanExits` then follows from how a process can
go down with 0 (`StaysUp`): from `PoolsClosed`, with no connection held, or after a failed
closing. It says nothing of `late` handlers, which the code does cut off (`SavesSurvive`, section 8).

`SessionsProofs`: `TypeCorrect`, `TokensEnd` (`ChangeEndsTokens`), `DeviceKept`
(`KeepsThisDevice`). `TokensEnd` counts every commit that alters the user, also one that
decided not to revoke, so it needs the row locks: `Locked` says that whoever is past the
lock of the user row still holds it and that what it decided from the row is still right
(`Decided`); `AlteringRevokes` concludes that a commit that alters the user bumps the
epoch, unless it is an SSO sign-in that was overtaken. `Counted` says what the epoch then
means: a token under the current one was issued after the latest change.

`FacRiskProofs`: `TypeCorrect`, `AnswersTrue` (`AnswersHold`), `ReferencesStay`
(`BoundReferences`, which is proved and not run), `ViewFollows` (`BookIsSeen`), `GateKept`
(`GateHolds`). `ReadNumbers`: a number that a bind has read is still the one of its row.
`Followed`: what is about to be installed is as good as what will then be said of the
view, and one refresh installs at a time; without it a slow refresh could put an old book
over a newer one. `Weighed`: what a bind on its way has found, in terms of what it read.

Only model-checked are the liveness properties `LockReleased`, `Settles` and
`ShutdownEnds`: liveness under fairness, and everything about ENABLED, is out of the prover's
reach. The fairness of `Sessions` and
`ServerLifecycle` is a conjunct of their `Spec` that the proofs do not use.

## 6. Plan

Done: the approval engine, the quotes, the Finance and claims ledgers, the optimistic
lock, the rate revisions, the sessions, the facultative risks, the server lifecycle, and
theorems on each.

What would come next, in this order:

1. The AI line write (`routes/aiCedant.js:299`) as a further writer of the treaty, and
   the formula workbench as a second implementation of `FourEyes` (it would not be one:
   see its hazard).
2. The claim of unassigned work that races, and the cached role levels.
3. The renewal pack import: a job that nobody resumes after a crash.

## 7. Not modelled, and why

Logs, comments, notifications and history tables (nothing reads them back, except the
submit events of a quote, which are modelled); the `contract_approval` mirror and
the approval stage view (written, never read by a guard); the advisory nomination of
the first peer; figures, layers and wordings (they matter to the routing only, which
is nondeterministic); quote rows without an owner (no guard lets anyone act on them);
claims that predate migration 130, which back-filled an approval without a reviewer;
pools, time-outs and retries of the client (a request that never answers is a failed
one). Expiry of sessions and the lock-out after failed log-ins only end what is
modelled as ended at any time.

Whole components: the AI staging is a further writer of the lines, left out so that the
theorems speak of the approval engine alone; the workbench is one row with a pending
value and no race beyond its listed hazard; the import is long pure I/O around one
job row; the rate limit store is approximate by design; Cresta saves are one lock
with nothing to interleave; the benchmark views are reporting; the pricing
mathematics is over real numbers; the client is over-approximated (any user may send
any request at any time); the many routes that insert and update rows without a
protocol (sections, layers, COPE, losses, clauses and documents of facultative risks,
exports, master data) have no property beyond the
transaction they run in. They are most of the repository's lines.

## 8. Deviations of the code from its own comments

Besides the run of section 3. Each is a property of the module named, or one of
its properties under other constants, and TLC finds its counterexample in seconds with
the cfg of the run named, changed as described.

* `TerminalIsFinal` (`ApprovalWorkflow`; `ApprovalRaces` with `Headers <- MCNoHeaders`,
  `MaxSubmissions = 1`): `lib/statusMachine.js:61` gives terminal states "no outbound
  edges". A submit overwrites a decline committed after its read. The same line lets the
  peers of a treaty that its owner declined through the form bring it back with no race
  at all (`services/approvals.js:1109`; add a DECLINED payload to `Headers`).
* `ArbiterIsThirdParty` (`ApprovalWorkflow`; `ApprovalRaces` with `Level <- MCDirector`,
  `Headers <- MCNoHeaders`): `services/approvals.js:1125` says "neither disputing peer may
  resolve the very split they created". The check looks at the row loaded before the
  transaction, the claim does not repeat it; after a recall, a resubmission and a new
  split a peer resolves its own dispute.
* `ApprovalNeverDestroyed` (`ApprovalReassigned` with `InitialOffers = {"ABSENT"}`,
  `MaxSubmissions = 1`): saveOffer deletes a first submission, as FOR UPDATE locks
  nothing when there is no row
  (`modules/pricing/repositories/pricingOfferRepository.js:71` says it cannot).
* `SignedWithinWritten` (`ApprovalSequential` with `Headers <- MCLineHeaders`): a save of the form
  after SIGN sets a signed line above the written one (`services/approvals.js:1293`).
* `AmendmentsKept` (`QuoteSequential`): an amendment is answered 201 and rolled back, its
  audit insert having failed (`routes/quoteLifecycle.js:214`).
* `OwnershipFrozen` (`QuoteSequential`): the freeze of quotes reads a column that nobody
  writes (`services/assignments.js:83`).
* `ApproverIndependent` (`QuoteSequential` with `EventReadsFail = TRUE`): a failed read of
  the event table lets a submitter approve its own submission
  (`services/approvals.js:1384`).
* `PackFrozen` (`ClaimLedger`, `SignedTreaty`): "attachments cannot be added (or removed)
  while the claim sits in WAITING_APPROVAL", but the freeze is checked before the upload
  and the row is recorded afterwards.
* `NoGap` (`RateRevision`, `RateRevisions`): two publications that overlap can leave no
  version in force.
* `PasswordRevokes` (`Sessions`, `SessionRaces`): the unawaited rehash of a log-in
  (`routes/auth.js:366`) may store the old password after a change of it, without a new
  epoch.
* `AuthorityChangeEndsTokens` (`Sessions`, `SessionRaces`): "if the mapped role changed since
  last login, we report it so the caller can bump the revocation epoch (D5: an authority
  change forces re-login everywhere)" (`services/identity/provisioning.js:11`; likewise
  `routes/sso.js:108`). The role is read without a lock, and `roleChanged` computed
  from that (`:85`), while the UPDATE waits for the row. A sign-in that read role A, while
  another one or an administrator changes it to B and commits, writes A over B with
  `roleChanged = false`: nothing is revoked, and the tokens issued under B go on working.
* `SignInsAreCurrent` (`Sessions`, `SessionRaces`): "every OTHER session (other devices, a
  thief's stolen token) is killed immediately" (`routes/auth.js:588`). A sign-in that was
  checked before the change and issued after it gets the new epoch
  (`services/sessions.js:39`), and its token works.
* `NoneForInactive` (`Sessions`, `SessionRaces`): "we refuse to mint a session for an
  inactive user" (`services/identity/provisioning.js:81`). `is_active` is read without a
  lock; the token it gives out is dead until the user is reactivated.
* `SavesSurvive` (`ServerLifecycle`, `Lifecycle`): "drain HTTP cleanly on SIGTERM/SIGINT so
  deploys don't kill in-flight saves" (`startup/gracefulShutdown.js:2`). server.close waits
  for sockets and pool.end for connections that are checked out. A handler whose client had
  its 503 goes on with its save; if it is between two statements, or queues for a
  connection, when the pool ends, it is refused the next one and the process exits with 0.
* An exit after a failed closing (`ExitAfterFailure`) has code 0 too
  (`startup/gracefulShutdown.js:60`), though the header of that file says "exit non-zero so
  the orchestrator knows we couldn't finish cleanly" of the deadline; `CleanExit` without
  its exception fails in `Lifecycle`.
* `NeverRerun` (`ServerLifecycle`, `Lifecycle`): a lost lock connection, or an unreadable
  `_migrations`, which is taken for an empty one, applies files again.
* `BoundIsNotDeclined` (`FacRisk`, `FacultativeRisks`): a decline that read the risk before
  its bind takes it off the book (`routes/facultative.js:1815`).
* `SubmitsFromOpenStates` (`FacRisk`, `FacultativeRisks`): submit-for-approval takes a bound
  or declined risk, though each later state is said to be "owned by a dedicated workflow
  route" with its own legality check (`routes/facultative.js:200`).
* `WithinBudget` (`FacRisk`, `FacultativeRisks`): two binds weigh before either refreshes
  the view, and together go past the budget.
* `AppliedOnce` (`FacRisk`, `FacultativeRisks`): two accepts read PENDING, and both write
  their value (`routes/facultative.js:1903`).
* `docs/architecture.md:56` says that binding a quote answers 410; the route binds.
