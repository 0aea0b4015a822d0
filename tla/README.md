# Buildora: a TLA+ verification project

Buildora is a platform on which a homeowner engages an architect, gets permits,
tenders the construction, pays for it in escrowed stages and settles disputes.
It is a TypeScript monorepo: an Express and Mongoose API (`src/apps/api`), a
Next.js client (`src/apps/web`) and shared types (`src/packages/shared`). The
API holds all the state and all the rules, so the specifications are about it.

Paths below are relative to `src/apps/api/src/`.

- [What the system is made of](#what-the-system-is-made-of)
- [How a handler is modelled](#how-a-handler-is-modelled)
- [The modules](#the-modules)
- [The runs](#the-runs)
- [What is proved](#what-is-proved)
- [What is only model-checked](#what-is-only-model-checked)
- [What the models show beside the properties](#what-the-models-show-beside-the-properties)
- [What is not modelled](#what-is-not-modelled)
- [What is left](#what-is-left)

## What the system is made of

Almost every operation is an HTTP handler of one shape: load documents, check
the copies, save. MongoDB makes one write to one document atomic and nothing
else; no handler opens a transaction, and between two awaits any other handler
may run. So the hard behaviours are the same everywhere: a decision taken on a
copy and saved over something newer, two handlers that both pass a check, a
handler that dies between two of its writes.

| Component | State | Operations | Talks to | What makes it correct |
| --- | --- | --- | --- | --- |
| Online payments: `payments.controller`, `services/sslcommerz`, `PaymentSession` | session status, `appliedAt` | checkout, browser callbacks, IPN, settlement | the gateway; the ledger of whatever is paid for | a session credits once and only after the gateway took enough; a validated payment is settled; no money disappears |
| Design contracts: `contracts.controller`, `Contract` | phase, submissions, revisions, ledger | concept fee, escrow, submit, review, cancel | projects, proposals, disputes, payments | escrow pays out what was paid in; one review at a time; no free revision; the project follows the contract |
| Build contracts and stages: `build.controller`, `BuildContract`, `Milestone`, `services/ledgerIntegrity` | contract totals and ledger, stage status, integrity tags | fund, edit, claim, inspect, release | payments, disputes, projects | a stage pays out what it holds; totals match the ledger; complete exactly when all is paid; tags match |
| Disputes: `disputes.controller`, `Dispute` | dispute status | raise, review, withdraw, resolve | the ledgers of all three kinds of contract | disputed money is frozen; a decision moves money once, and only held money |
| Tenders and bids: `tenders.controller`, `bids.controller` | tender status, bill of quantities, bids | draft, publish, close, cancel, bid, withdraw, shortlist, award | projects, build contracts | bids stay sealed while open and price what is tendered; one award, the signed one; every bidder gets an answer |
| Estimates: `estimator.controller`, `services/estimateLadder` | snapshots | derive, store | bids, market prices | an estimate is derived anew at each step and stored as it was |
| Structural engagements: `structural.controller` | status, drawings, ledger | fund, submit, comment, review, cancel | projects, disputes, payments | money in equals money out whoever closes it |
| Projects and proposals: `projects.controller`, `proposals.controller` | brief, status, architect; proposals | edit, move, delete; file, accept, decline, withdraw | contracts | one engagement per brief; nobody left pending; the status only follows what happened |
| Change orders: `changeorders.controller` | order status; contract sum, stages | propose, decide, withdraw | build contracts | sum equals the accepted variations; each counted once |
| Handover: `handover.controller` | record, acceptance | save, accept | projects, build contracts | the accepted record is the one kept |
| Marketplace: `marketplace.controller`, `cart.controller`, `services/orders` | products, cart, orders | add, check out, move an order, cancel | payments | one checkout, one set of orders; a paid order is not silently cancelled |
| Verification: `verification.controller` | request, account status | submit, read (moves it), decide | sessions' rights | one open request; account and request agree |
| Meetings: `meetings.controller`, `services/slots` | meetings, availability | book, propose and accept a place, reschedule, cancel | - | nobody is double-booked; a cancelled meeting stays cancelled |
| Calls: `realtime/signaling`, `calls.controller` | call record; a map in memory | ring, accept, hang up, disconnect | sockets | every call ends, and ends once |
| Sessions: `auth.controller`, `services/refreshToken` | session, token hashes | sign in, refresh, revoke | every handler | one rotation per token; a revoked session gets nothing; a retry is not taken for theft |
| E-mail verification | link, resend ladder | issue, follow | accounts | one live link; it verifies the address it was sent to |
| Key rotation: `services/rotation` | run, cursor; users' sealed profiles | start, sweep, verify | profile edits | nothing is left under the old key, no edit is lost |
| Price refresh and sheet | run record, flag; prices | refresh, approve, reject | cron, feeds | one refresh at a time; it ends OK or FAILED once |
| Permits, documents, ECPS tracking | attachments; step | attach, verify, advance | projects | a verification is of what was verified; each step once |
| Messages, notifications, site diary, check-in, studio, reviews, assistant, administration | their own documents | single writes | - | best effort; see `PROJECT.json` for each |

`PROJECT.json` lists every component with its files and status, and under
`hazards` what is hardest to test in this code, line by line; the properties
below are aimed at those.

## How a handler is modelled

A handler is a *request*, one of a small set of processes. `at[r]` is the await
it has not come back from, and each module has one action per stretch of code
between two awaits that touch shared state: the first loads and checks, each
later one makes one write. What the code carries across an await is a variable
(`loaded`, `seen`, `plan`, `index`), and nothing else is: a guard on a copy is a
guard on that copy, and a save writes what Mongoose would.

- `save()` writes the paths the handler changed, to whatever the document has
  become. So an action writes its new values over the current ones, and a status
  only if it differs from the *loaded* one (`SetStatus`, `SaveStageStatus`,
  `SaveContract`).
- `payments.push` and `deliverables.push` are `$push`: they add to the current
  array, move `__v` on and compare nothing.
- An in-place edit of a subdocument without a push is filtered on the loaded
  `__v` (`SameVersion`), and so is the replacement of a whole array (`SaveTender`).
- A unique or partial unique index refuses the second write (`Clash`,
  `SignContract`).
- Hooks run in `save()` and not in `findByIdAndUpdate`: that is why a build
  contract's tag is what the saver's copy would sign.
- `Die` ends a request between two writes: a restart, a lost database connection
  or an exception of the next await.

A failed validation or a refused permission writes nothing, and is an action not
taken. Several loads in a row at the start of a handler are one step with its
checks, unless a property depends on what may come between.

Requests have roles, not users: `Role` and each run's configuration say which
party may send which request, so a client with two tabs is two requests of the
same role. Where a module has no `Role`, any request may be anybody's. Amounts are
constants where a property compares sums, and otherwise counted entries.

Variables under "history" are read by no action. Some of them remember that two
requests met in a way the code does not guard against: what follows from such a
meeting is real behaviour of the code, described
[below](#what-the-models-show-beside-the-properties), and the properties except it by
that variable's name (`crossed`, `racing` and `undone`, `outrun`, `clashed`,
`disordered`, `jostled`, `muddled`, `botched`, `jumbled`, `tangled`, `lost`,
`overtaken`, `rivals`, `crossed` in `BuildEscrow`, `contested`, `raced`, `queued`, `redecided`,
`astray` and `died`). Each is set by the step in which the meeting happens and no earlier, so
that everything else two requests may do to each other is covered. Two more name no meeting but
a path that signs or compares less than the others: `misdirected` (an IPN settled a session on
another's charge) and `wired` (a deposit came through the gateway).

## The modules

**`GatewayPromise`** is the abstract specification of an online payment: the
gateway takes a session's sum once, and the platform credits it at most once, and only
after a charge that covers it: the session's own, or, for a session it was `misdirected` to,
another's.

**`PaymentGateway`** (`payments.controller.ts`, and from the other controllers the
manual payment and cancellation of the same things). Sessions point at
targets, one for each kind of payment, each with its `Price`. The gateway is external: `Charge` takes
the money or not, callbacks and IPNs arrive in any order, any number of times, as
long as a request is free, and each posts a `val_id`, of its own session or of another:
`voucher` is the session it was issued for. The validator may be unreachable (`SaveFailed`), the
payer may still pay after a cancel or fail callback. What the validator reports is taken to be
true: the transaction a `val_id` belongs to and the sum taken for it. `CallbackSuccess` compares that
transaction with the session's own; `HandleIpn` does not, and compares the sum alone (`Covers`), so
a notification may settle a session on another's charge, and one charge may settle two. `misdirected`
records which. `SavePaid`, `Claim`,
`LoadTarget`, `WriteCredit` and `MarkFunded` are the awaits of `confirm`, `settle`
and `applyMilestoneFunding`. `appliedAt` is the atomic claim, and
`lost` says what a request that died in `settle` left undone for its session, the claim or the
entry. The currency is part of the validator's answer. A target's status is abstracted to awaiting payment, FUNDED, CANCELLED;
its ledger to how many entries each session, and the manual form, made. Checkout's read
and insert are one step.

**`DesignContract`** (`contracts.controller.ts`; the settlements of
`payments.controller.ts` that touch the contract; raising and withdrawing of
disputes as they freeze it). One contract of one project: `status` is its phase,
`deliverables` its submissions in order, `version` its `__v`. The actions keep the
handlers' names, each followed by its saves: `decideDeliverable` is
`RequestChanges`, `ApproveConcept`, `ApproveDesign` and their saves; the
approval of a design then asks for disputes, saves the release, and moves the
project (`CloseDesign`). `EngageAnother` is what another architect's acceptance does to the reopened
brief. A settlement by the gateway does not move the project, as in the code. Any number of
requests of a party may be under way: `queued` says that a submission was saved while another was on
its way, `redecided` that one was decided while another request was approving it, `astray` that
the status was saved past another request of the client's or with nobody left to tell the project.

**`BuildEscrow`** (`build.controller.ts`, the milestone scope of
`disputes.controller.ts`, `services/ledgerIntegrity.ts`). Stages of one build contract.
`contract` and `stage` are the signed contents, `contractTag` and `stageTag` the
contents their tags were computed from. A contract's tag also signs its two parties as the saver
has them (`String(doc.client)`): ids where the contract was loaded bare (the award, `settle`), and
whole populated people, names included, where `findContractOr404` loaded it. `spelt` is which of the two the tag was
computed from, and a load by the other kind of handler does not verify it (`Verifies`). Names are
taken not to change. A variation's approval signs ids too; it is in `Variations`, not here. Stages begin
unsealed, since the award inserts them with `insertMany`, which fires no save hook, and a document without
a tag is let through. A ledger is kept as the number of its
entries and, per stage, the sums in and out; `ledgerOut`, under history, is what all its entries
have released. A decision on a dispute computes `plan` (`Weigh`), moves the
money without a hook (`MoveMoney`), stamps the stage and closes the dispute. The
gateway is a request that settles deposits. Any number of requests of a party may be under
way; `rivals` are the stages that two of them claimed, inspected or released at once,
`crossed` says that two releases added to one total, `overtaken` that a document was saved
while another held a copy of it, `contested` are the disputes that were decided while
another supervisor was at work on them. An edit changes a stage's wording, which is
not modelled; its save signs the copy's status and sum all the same. All stages have the same sum.

**`Tendering`** (`tenders.controller.ts`, `bids.controller.ts`). Tenders of one project under the partial unique index that
keeps one of them live, one bid per contractor and tender, and the award's six
writes. `boq` is a version of the bill of quantities: a bid remembers the one it
priced. The clock is a choice: an OPEN tender found by a reader is within its
deadline or past it (`VisitOverdue`, `SweepOverdue`), because nothing else
closes it. A bid and its tender are loaded in one step. Prices are not modelled. `raced`
names the tenders published or cancelled while another request of the owner held the draft.

**`Structural`** (`structural.controller.ts` and its side of
`disputes.controller.ts`). The engagements of one project in turn, at most one
live under the unique index. An approval is three steps (the load, the question whether
a dispute is live, the save that pays); a decision weighs what is held and pays it in
another step. `stale` is the version check that an in-place edit of a drawing set is
filtered on. Amounts are in halves of the fee.

**`Matching`** (`proposals.controller.ts`, `projects.controller.ts`, the
cancellation in `contracts.controller.ts`). A brief, its proposals and the
contracts signed on it. The six writes of an acceptance are the steps `SaveWinner`,
`EngageArchitect`, `DeclineLosers` and `SignContract`; those of a cancellation
`SaveCancelledContract`, `OpenBriefAgain` and `DeclineWinner`. Posting a brief is two steps, the check for a draft and a
save that compares nothing (`PostBrief`, `SavePosted`). `scope` counts the
edits of the brief, and a contract remembers the one it was signed on.

**`Variations`** (`changeorders.controller.ts`). A contract's sum, its schedule and
the orders that change both; the approval's search for the last stage, its insert and
its two saves are steps.

**`Handover`** (`handover.controller.ts`, and the other two writers of
COMPLETED). The owner's package, edited until it is accepted. A warranty whose link is left blank
keeps the certificate it has.

**`Orders`** (`cart.controller.ts`, `marketplace.controller.ts`,
`services/orders.ts`). A cart with Mongoose's version check, a checkout that
inserts an order a line and then empties the cart, and the moves of each order by
buyer and seller. Every reading of the cart, and every answer to a change of it, goes through
`loadCart`, which drops the lines of listings that were withdrawn and saves the cart when it
dropped any (`LoadCart`, `SavePruned`); that save can meet the checkout's. Listings are withdrawn and not renewed;
the reading of the listings is one step with the save that follows it.

**`Meetings`** (`meetings.controller.ts`, `services/slots.ts`). `FreeSlots` is the
slot algorithm: the windows of the published hours less what is taken; windows may
overlap, so that two meetings can overlap with different starts. Booking reads the slots,
then the client's clashes, then inserts under the unique index on host and start.

**`Calls`** (`realtime/signaling.ts`). `row` is the durable record and `active`
the map in memory. Ending a call reads the row and stamps it in another step;
a disconnect sweeps the map call by call; a restart empties the map and ends every
handler.

**`Verification`** (`verification.controller.ts`, `professionals.controller.ts`).
One professional's badge, profile and requests; opening a request is a write.

**`Sessions`** (`auth.controller.ts`: `refresh`, `logout`; `middleware/auth.ts`; the client's
`lib/api.ts` and `SessionSync.tsx`). One login, the cookie jar, the tabs that
share it. Requests and answers take up to `Delay` ticks and may be lost; a
token replaced less than `Grace` ticks ago is answered, an older one ends the login.
Tokens are numbered as they are minted.

**`Accounts`** (`login`, `refresh`, `changePassword`, `revokeSessions`,
`updateUserRole`). The logins of one account as processes, beside the changes that
must end them.

**`EmailLinks`** (`services/emailVerification.ts`, `changeEmail`). Links mailed,
followed, expired and replaced, beside changes of the address. A change reads the account,
waits for the password's check and saves what it changed: `ReadForChange` and `ChangeEmail`. Its save
takes the verification away only if the copy it read had one.

**`KeyRotation`** (`services/rotation.ts`, `keys.controller.ts`). The sweep as a
driver, its persisted cursor, the administrators who start,
resume and verify runs, edits, repairs and restarts with a
newer key. A batch is read, written a document at a time, and recorded; a batch may be refused
with some of its documents written. `content` says which edit a document is from, and
`copy` what the sweep read: the sweep writes that back, whatever was saved in between. A
document's key is the oldest of its sealed parts, and an edit reseals one part, so it leaves that key or
a newer one.

**`Nothing`** declares `None`, the value of a field that is not set.

The `MC…` modules give the constants their small values and say which party sends
each request. The `…Proofs` modules hold the theorems, a component's own or those of
several: `AccountProofs` is about `Accounts`, `EmailLinks`, `Verification` and `Sessions`,
`ProjectProofs` about `Matching`, `Handover`, `Meetings` and `Calls`, `LedgerProofs` about
`Structural`, `Variations` and `Orders`. `MCPlatform` and
`MCFairness` put components that share no state side by side: `part` is chosen at
the start, says which of them a behaviour is about, and the others stay as they
begin. `MCBuildCasts` does the same with four casts of `BuildEscrow`, `MCDesignContract` with two of
`DesignContract`.

How they compose: each module includes what the other components do to its
state (the manual payments and cancellations in `PaymentGateway`, the gateway in
`DesignContract` and `BuildEscrow`, disputes in all three ledgers, the award's contract in
`Tendering`, the cancelled contract in `Matching`, the last release in `Handover`), so each can be checked alone. `PaymentGateway` implements
`GatewayPromise` under a refinement mapping.

## The runs

| Run | Instance | States | Shows |
| --- | --- | --- | --- |
| `gw_contract` | two sessions over a milestone and a cheaper order, either's `val_id`, two requests, manual form, deaths | 846k | `CreditedOnceIfCharged`, `FundedHasMoney`, and the refinement `KeepsPromise` |
| `gw_settled` | one session over a concept fee, an escrow, an engineer's fee and an order, two requests, deaths, fairness | 462k | `PaidMeansSettled`, `NoMoneyStranded`; `ConfirmedIsSettled`: a validated payment is settled |
| `dc_escrow` | two casts: payer, gateway, reviewer, canceller and architect; payer, reviewer, a client's tab that may do either or cancel, and two requests of the architect; one dispute, deaths | 392k | `ReleasedWithinDeposits`, `OnePendingReview`, `DecisionKeepsDeposit`, `ProjectFollows` |
| `dc_open_brief` | one tab of the client and one of the architect | violated | `OpenBriefHasNoContract` |
| `be_build` | four casts: two stages, one request of the owner, gateway, contractor and engineer; two each of owner, contractor and engineer; one stage and one dispute with a supervisor and a request of each party; or with two supervisors and the owner; one death | 971k | `LedgerAddsUp`, `CompleteWhenPaid`, `ReleasedForGood`, `DecidedOnce`, `SealsHold`, `FrozenWhileDisputed` |
| `be_unfunded` | one stage, one dispute, no deaths | violated | `DecisionMovesHeldMoney` |
| `be_reseal` | the same | violated | `ResealedAfterUpdate` |
| `be_gateway` | one stage, one request of each party and the gateway, no deaths | violated | `TamperedMeansChanged` |
| `td_award` | two tenders, two contractors, the owner's two tabs against contractors and visitors, deaths | 1.11M | `SealedWhileOpen`, `BidsPriceTheTender`, `AwardedIsSigned`, `AwardAnswered` |
| `platform` | two requests (or tabs, desks, handlers) of each of twelve parts, two or three documents; one change of address at a time | 679k | one property a part: `TabsKeepTheirLogin` (Sessions), `StaleLoginsEnd` (Accounts), `VerifiedWasProved` (EmailLinks), `RecordAndMapAgree` (Calls), `BadgeFollowsRequest` (Verification), `AcceptedIsKept` (Handover), `LedgerFollowsStatus` (Structural), `BriefMatchesContract` (Matching), `SumFollowsVariations` (Variations), `PiecesAccountedFor` (Orders), `CalendarHolds` (Meetings), `NoFreeRevision` (DesignContract with two reviewers) |
| `fairness` | a rotation of two documents in batches of one, two runs, one administrator, one newer key, one refused batch and one restart, or one edit; and a design contract with one tab a party | 244k | `SweepsAreSound`; `RotationEnds`, `ReleaseReachesProject` |
| `logout` | two tabs, grace 3, delay 1, two tokens | violated | `LogoutLeavesNoLogin` |

Every module's type invariant is checked in one of its runs (`PlatformTypes` is that of
each part), but for `RotationTypeOK`, which is only proved. Some properties are conjunctions: `LedgerAddsUp` of `TotalsMatch` and
`PaidOutWithinDeposits`, `CompleteWhenPaid` of `CompletedMeansPaid` and
`ReleasedCompletes`, `AwardAnswered` of `NobodyGhosted` and `AwardCompletes`,
`SweepsAreSound` of `EditsSurvive` and `RunsTellTheTruth`, that is `VerifiedMeansNoneOlder` and
`CompletedConverted`. For each property of
a passing run `PROJECT.json` names a *mutant*: a definition marked `(mutant)` that
changes one action the way a plausible bug would (a dropped guard, a save that
compares no version), and with which the run finds the property violated.
`CHECK_DEADLOCK FALSE` everywhere: once a contract is complete or cancelled and
the bounds are spent, nothing is left to do.

The five violated properties are statements of the repository's own comments;
`PROJECT.json` quotes each beside the line that disagrees:

- A concept still pending when its contract is cancelled can be approved
  afterwards: the contract waits for its escrow while the brief is open to others.
- A dispute on a stage nobody funded pays its amount out.
- A decision leaves the build contract's tag stale, and every later release of
  the contract is refused as tampering.
- A deposit through the gateway signs the parties of the contract as ids; a release reads the
  contract with its parties filled in, computes another tag, and is refused as tampering
  although only the handlers have written.
- Logging out with an access token that has aged leaves the cookie of a live
  login in the browser: the middleware refuses the request before the handler
  that clears the cookie, and the page has gone before the client repeats it.

**Bounds, and why they are enough.** Each `Max…` constant caps a counter that could
grow (entries by hand, revisions, submissions, edits, moves, links, tokens,
restarts, refused batches, keys, deaths), and `Budget` caps tenders, bids, edits and
deaths together. The hazards are races of two or three
handlers over one document, with at most one death, and every pair of handlers
that can meet does so in a run, but for the few left out under *Constraints*: one request per party lets each handler of a
party overlap each of the others', and two requests of a party are used where its
own double click matters (the reviews of `platform`, the tabs of `dc_escrow`, the sessions of `gw_contract`, the tabs, crews, engineers
and supervisors of `be_build`, the tabs of `td_award`, and every module without roles). Two
stages are what completion needs (a last and a not-last one); two tenders and two
bidders are what an award needs (a winner and a loser, an awarded tender and a
cancelled one); three proposals leave a loser and a late one beside the winner; three
orders leave two that race and one decided; two engagements, calls, links, logins
and runs are an old and a new one. The hours of the one host have two slots that
overlap. Symmetry is used for interchangeable sessions, requests, stages, tenders,
documents and people, in runs without liveness.

**Constraints.** `platform`, `gw_contract`, `dc_escrow`, `be_build` and `td_award` have a CONSTRAINT, `Followed`. In `platform` it
stops where a part's history variable names an exception, since its property says
nothing of what comes after; such a state is still checked, not continued. What
`Sessions` does after an answer was lost, somebody logged out or the browser changed is
followed while fewer tokens are minted. In `be_build` it leaves the dispute to two casts and the second stage to
the others, escrows one stage a second time where there are two of each party, and stops there at a
death, at `rivals` and at `crossed`, and everywhere at `contested`; the casts with supervisors leave edits out, which
save nothing but a stage's tag. `gw_contract` follows what a death leaves undone, and what an IPN settles on
another's charge, in one session at a time, and the latter while nobody has paid by hand. `dc_escrow` stops at
`queued` and `redecided`. In `td_award` it stops at
`raced`, and the owner's second tab, which asks while the first waits and nobody else does, is
followed up to an award and a death; with one tab all of them meet. The part on reviews starts at an approved concept (`ReviewInit`), a
state that `dc_escrow` reaches; before it there are no designs to refuse. `MCFairness` lets a
rotation meet a refused batch and a restart, or an edit, and not all three, which the theorem covers together.

**Fairness.** Weak fairness of what the process has begun: `Continue(r)` for each
request in `gw_settled` and in the design contract of `fairness`, there without deaths,
and each step of a rotation's driver and handlers, since Node's event loop resumes every
settled await and a database call settles. `RotationEnds` also needs a person: strong
fairness of resuming a run that is paused, because nothing in the code resumes
one by itself (`rotation.ts` starts no driver at boot), and as few restarts and
refused batches as the bounds say. No fairness is assumed of the gateway or of the
start of any other handler.

**What the properties except.** No safety property assumes that requests come one at a time or that
processes live: each holds for any requests and any deaths, or names in its own text the history
variable of the meeting, or of the death, that it excepts.

## What is proved

TLAPS checks these for every value of the constants, from the assumptions the
modules name (`GatewayAssumption` and its like: what roles exist, that `None` is not a value of
the fields it stands for, that bounds are naturals). Two say more: the grace of a
replaced token is at least three delays of the network (`SessionsAssumption`; the code
has ten seconds, `auth.controller.ts`), and a build contract has at least one stage, and
finitely many (`BuildAssumption`; the default template has them).

| Theorem | States | Argument |
| --- | --- | --- |
| `PaymentGatewayProofs!TypeCorrect` | `[]TypeOK` | part of `IInv`, since a request's references have a type only while it uses them |
| `PaymentGatewayProofs!CreditOnce` | `[]CreditedOnceIfCharged` | an entry is written only by the request holding the claim: it has set `appliedAt`, is the only one past it for its session (`OneClaimant`), and the session is backed by a charge that covers its price: its own, compared by the callback or posted by itself, or, if `misdirected`, another's (`Claimed`) |
| `PaymentGatewayProofs!MoneyBeforeFunded` | `[]FundedHasMoney` | a request about to mark a milestone has entered its money (`Marked`), and no step removes an entry |
| `PaymentGatewayProofs!Refinement` | `KeepsPromise` | `Charge` maps to `Charge`, the step that writes a session's entry to `Credit`, an IPN that saves PAID on another session's charge to `Misdirect`, everything else to a stutter |
| `PaymentGatewayProofs!PaidIsSettled`, `MoneyArrives` | `[]PaidMeansSettled`, `[]NoMoneyStranded`, any deaths | between PAID and the claim, and between the claim and the entry, a request is still on its way to the next, or died there (`lost`), unless the target was paid or cancelled elsewhere (`Owed`); entries are counted as they are written (`Recorded`) |
| `DesignContractProofs!TypeCorrect` | `[]TypeOK` | `TInv`: the copies carried across awaits keep their types, and the index of a submission stays one |
| `DesignContractProofs!OneReview` | `[]OnePendingReview`, any requests | until `queued`, only the last submission can be pending (`LastPending`), and while one is on its way nothing is (`Submitting`), so it cannot become a second one |
| `DesignContractProofs!NeverOverpaid` | `[]ReleasedWithinDeposits`, any requests | until something crossed, a deposit is unspent while a design is in progress, on its way or pending (`Unspent`), and whoever is about to release decides on a pending one (`Reviewing`): a decision that would take it away meets the approval and is `redecided` |
| `DesignContractProofs!DepositIsKept` | `DecisionKeepsDeposit`, any requests | with one concept fee entered, nothing is in escrow and nobody is about to fund it while a concept is open (`ConceptFirst`); with none, nothing was submitted (`FeeFirst`) |
| `DesignContractProofs!RoundsAreCounted` | `[]NoFreeRevision`, any requests | until `queued`, a refusal whose copy has the contract's version is about the last submission, and its copy counts every design refused before (`Counting`); any other refusal's save is refused, since versions only grow (`Older`) and only the last submission can be pending (`LastPending`) |
| `DesignContractProofs!ProjectIsThere` | `[]ProjectFollows`, any requests | until `astray`, the copy of a handler of the client's is the contract until it saves, and what it saved is there until it is done (`InStep`), and where the project is not yet where the status says, the request that takes it there is under way (`Following`) |
| `BuildEscrowProofs!TypeCorrect` | `[]TypeOK` | `SInv`: a plan, a copy and a dispute have a type only at the places that use them |
| `BuildEscrowProofs!FrozenHolds` | `FrozenWhileDisputed` | what stands against a request's stage is live (`Standing`), and past the check there is nothing (`Cleared`) |
| `BuildEscrowProofs!DecidedOnceHolds` | `[]DecidedOnce`, any requests | who is about to move a dispute's money finds it unmoved, or another has moved it and must still close it (`Ahead`, `Behind`); once moved, the dispute is closed or somebody is behind it (`Once`); a move or a close that meets another supervisor contests the dispute, and a death leaves a stage interrupted |
| `BuildEscrowProofs!LedgerHolds`, `ReleasedStays` | `[]LedgerAddsUp`, `ReleasedForGood`, any requests | on a stage no decision paid out, each deposit is worth one payment, and so is each request that may yet mark one; what was paid out and what the stage's status makes due never exceed them (`Backed`, which counts the requests `At` their awaits). A claim, inspection or release whose save changes the status was alone in its round, or the stage has rivals (`RoundAlone`), and finds the status it loaded (`LoadedStatus`); the total a release adds to is still the stored one, or two crossed (`TotalCurrent`). `ledgerOut` holds the sum of the entries, so no fold is needed |
| `BuildEscrowProofs!CompleteIsPaid` | `[]CompleteWhenPaid`, any requests | once every stage is released and no request died, the contract is complete or a request that completes it is on its way (`LastPaid`), which counts the stages after its own save (`Completing`) |
| `BuildEscrowProofs!TagsMatch` | `[]SealsHold`, any requests | unless a save was overtaken, whoever may yet save a document holds it as stored, and its tag is of it or it has none yet (`Sealed`); until a deposit was `wired`, every save is by a handler that spells the parties alike (`SignedByHand`) |
| `TenderingProofs!TypeCorrect` | `[]TypeOK` | `TInv`: a request works on a tender that exists, past the load of a bid on a bid that exists (`InFlight`), and nothing is deleted |
| `TenderingProofs!AwardedHolds` | `[]AwardedIsSigned`, any requests | past the signature a request works on the tender and bidder of the contract (`Signed`), the contract never changes, and no other save says AWARDED |
| `TenderingProofs!Sealed` | `[]SealedWhileOpen`, any requests | what is about to be published is still a draft, or was raced (`Editing`): only a save of the status takes a draft away, and one that meets somebody who holds it races it. Nobody has read the bids of a draft (`Drafts`), and what was read is not open (`Read`) |
| `TenderingProofs!Priced` | `[]BidsPriceTheTender`, any requests | what is about to be edited is still a draft, or was raced, and a draft has no bids nor any on their way (`Drafts`, `Pricing`) |
| `TenderingProofs!NobodyIsGhosted` | `[]AwardAnswered`, any requests | each of an award's six writes is there, or its request is still before it, or died (`Scheduled`, `Recorded`, `Crowned`, `LosersTold`, `Attached`); only the bids somebody else saved since the signature are excepted |
| `LedgerProofs!StructuralTyped` | `[]StructuralTypeOK` | part of `StInv`; a save writes a request's engagement, and only a request under way saves (`Sound`) |
| `LedgerProofs!StructuralLedger` | `[]LedgerFollowsStatus` | where nothing crossed, one request at most is between reading the ledger and writing it (`PaysAlone`), so what it read still holds (`Sound`); and a set of drawings is only ever in an engagement past its deposit (`DrawingsArePaid`) |
| `ProjectProofs!MatchingTyped`, `BriefIsMatched` | `[]MatchingTypeOK`, `[]BriefMatchesContract` | where nothing crossed, one decision at most is under way (`OneDecides`), what it finds at each of its six saves is known (`Phase`), and what it leaves is settled (`Settlement`); edits, postings and deletions meet an open brief (`ChangesOpen`), refusals a proposal nobody is accepting (`RefusalsOpen`) |
| `ProjectProofs!HandoverTyped`, `AcceptanceIsFinal` | `[]HandoverTypeOK`, `[]AcceptedIsKept` | an acceptance is alone with the package it read (`AcceptsAlone`), and an edit under way is of a package still not accepted (`EditsUnaccepted`) |
| `AccountProofs!AccountsTyped`, `StaleLoginsHaveEnded` | `[]AccountsTypeOK`, `[]StaleLoginsEnd` | until a change is saved what a login read is still so (`LoginCurrent`); the save makes a racing login of every one under way, and every other one is among those the same request is about to end (`EndingAll`, `EndingOthers`) |
| `AccountProofs!EmailTyped`, `VerifiedIsProved` | `[]EmailTypeOK`, `[]VerifiedWasProved` | a click that found its link has proved the link's address, which is the account's from the click's check on, unless it was outrun; a change whose copy was unverified finds the account still so at its save, or a click was saved in between and it is outrun |
| `AccountProofs!VerificationTyped`, `BadgeIsDecided` | `[]VerificationTypeOK`, `[]BadgeFollowsRequest` | a submission has the account to itself and a decision meets edits at most (`Apart`), so each handler finds at its save what it read (`Finds`), and only the last submission can be open (`OpenIsLatest`) |
| `AccountProofs!SessionsTyped`, `TabsStayLoggedIn` | `[]SessionsTypeOK`, `[]TabsKeepTheirLogin` | only the answer to a rotation carries the new token, and it arrives before the grace is over (`InTime`, from the ages of the requests and answers under way); until then every request carries one of the last two tokens (`Together`) and is answered |
| `ProjectProofs!MeetingsTyped`, `CalendarIsKept` | `[]MeetingsTypeOK`, `[]CalendarHolds` | until something is tangled, what a request is about to take is apart from the host's meetings and from what the others are about to take, or starts with them (`TimeParted`), and then the index refuses the later one |
| `ProjectProofs!CallsTyped`, `CallsAgree` | `[]CallsTypeOK`, `[]RecordAndMapAgree` | a call that did not clash is in the map until the first event that ends it, and that event stamps the record (`CallSound`); who is gone has a sweep under way while they can be in a call (`Swept`) |
| `LedgerProofs!VariationsTyped`, `SumIsKept` | `[]VariationsTypeOK`, `[]SumFollowsVariations` | until an approval is botched, an order has one decider and approvals come one at a time (`OneDecider`, `OneApprover`), so what was read still holds (`ReadingsHold`); the sum is ahead of the approved orders by the one being recorded (`SumRuns`), the schedule by the milestone just appended (`PlaceRuns`) |
| `LedgerProofs!OrdersTyped`, `PiecesAreKept` | `[]OrdersTypeOK`, `[]PiecesAccountedFor` | until a write is jumbled, one request writes lines or the cart (`OneWriter`), its copy is the cart or the version check refuses it (`CopyIsCart`), a pruning included, and what was added is in the cart, on an order or removed, counting once what a checkout has ordered and not yet removed (`Balance`) |
| `KeyRotationProofs!EditsOutsideASweep`, `SweepsSound` | `[]EditsSurvive`, `[]SweepsAreSound` | what a sweep has in hand of a document not overtaken is what the document says (`CopiesCurrent`), so writing it back changes nothing but the key; an edit that meets a copy in hand overtakes it |
| `KeyRotationProofs!RotationTyped`, `RunsAreTruthful` | `[]RotationTypeOK`, `[]RunsTellTheTruth` | behind its cursor a run has converted all but the failures it recorded (`RunSound`); a driver ahead of its run owes its batch and its failures (`DriverSound`); a count of no outstanding documents stays true while the process that counted lives (`AdminSound`) |

None of the invariants is inductive as checked: each says nothing of what the
requests under way are about to write. The strengthenings are the conjuncts
named above, stated at the head of each proof module: who holds which
reference at which await, and what each still-to-come save relies on. No theorem has a
hypothesis beside the assumptions on the constants: where two requests, or a death, may spoil an
invariant, the invariant is shown for as long as the history variable that records it is unset, and
that variable is never unset again.

`SumFollowsVariations` and `PiecesAccountedFor` add over a set of orders. The fold of the community
modules is a recursive function, and that there is one, that it does not depend on the order
of addition, and that it grows by what one element grows, are proved at the head of
`LedgerProofs` from a least counterexample (of a number) or a smallest one (of a finite set), which
needs no induction theorem with an operator for a parameter. `Orders` filters the lines of a
cart with a recursive function of its own, since the provers know nothing of `SelectSeq`.

## What is only model-checked

`ConfirmedIsSettled`, `ReleaseReachesProject` and `RotationEnds` are liveness under fairness, which
this prover does not do; nor does it do ENABLED. `PlatformTypes` only puts the type invariants
of its parts together, each of which has a theorem. Every other property that a passing run
checks, safety or action, is a theorem as well; the runs remain what shows that the states the
properties are about are reached. No module declares a
RECURSIVE operator, which would cost the modules that use it their arithmetic prover.

## What the models show beside the properties

Behaviours the models have, and the properties therefore except. None is listed as a finding: the
repository says of the handlers one at a time what it says ("Published tenders are fixed", above
`updateTender`), and these take two of them:

- Two sessions, or a session and the manual form, can both credit one deposit:
  `settle` and the form check a copy and push without a condition.
- `handleIpn` compares the validated sum with the session's and no transaction: a notification
  that names one session and carries the `val_id` of another, as dear or dearer, settles a session nobody
  paid for, and the one charge can settle the session it was made for as well. `callbackSuccess`
  compares both.
- A request that dies between saving PAID and claiming the session leaves a
  payment that is never settled: later callbacks and IPNs are answered "already
  settled".
- `callbackEnded` saves FAILED or CANCELLED over a PAID written meanwhile.
- Money taken for a target that stopped waiting for it is in no ledger; a
  cancellation is saved over a deposit that arrived meanwhile.
- A double click on "approve" pushes two releases of one deposit. An approval is never
  refused by the version check, so it is also saved over a refusal of the same submission.
- Two submissions that are sent together are both pending. The client can then approve both, one
  after the other, and release the fee twice; or refuse both at once at the price of one round.
- The gateway's settlement of a design deposit saves the contract only, and the project
  stays at its concept stage. A cancellation, payment or approval saved past another leaves the
  project where the one that came last has put it, whatever the contract says.
- A concept fee or a deposit entered twice takes a design contract or a stage through
  a phase a second time.
- Two claims, two inspections (the engineer's and an administrator's) or two releases of one
  stage at once, each from its own copy, take a released stage back or let one deposit pay
  twice; two releases at once lose one of the two from the contract's total; two saves of a
  document that overlap leave a tag that does not match, and later releases are refused.
- A contract that was paid into by hand and through the gateway has a tag that depends on which came
  last. After the award and until each is first saved, a stage has no tag, and a stored figure
  changed behind the handlers would not be noticed.
- Two supervisors who decide one dispute at once both move its money.
- Two tabs that publish together, or one that publishes what another cancels, reopen a tender whose
  bids were read; an edit saved after a publish leaves bids on lines that no longer exist.
- A bid submitted late is upserted over its own award or rejection, with another
  total than the contract's. Shortlisting a withdrawn bid makes it awardable again. A bid can
  be withdrawn after the deadline until somebody loads the tender.
- Cancelling an already cancelled tender returns the project to its permit
  stage, under construction included.
- An award that dies leaves a contract without a schedule or bidders without an
  answer, and cannot be repeated.
- Structural engagements: two of approval, cancellation and decision that cross pay
  the same fee twice, since each pays out of the copy it loaded; a set still pending when the
  engagement was cancelled or decided can be approved, for the whole fee; the late
  `$unset` of a cancellation detaches the engineer of the next engagement.
- Two variations approved at once leave the sum with one of them; one approved twice is
  on the schedule twice; one that dies after its milestone was inserted is still
  PROPOSED and can be approved again, or withdrawn.
- Two proposals accepted at once both pass the check on the brief, and two contracts are
  signed; a withdrawal is saved over an acceptance; an edit or a deletion of the brief that
  found it open lands after the engagement, and a second click on "post" that found a draft opens an
  engaged brief to proposals again.
- A handover can be accepted before construction has started, and an acceptance
  completes a project with stages unpaid.
- Two checkouts of one cart order everything twice, and one that dies leaves some
  orders and a full cart. A reading of the cart that drops a withdrawn listing during a
  checkout makes the emptying save fail: the orders are placed and the cart is still full. An
  order's cancellation is saved over its confirmation.
- Two meetings that overlap with different starts are both booked; a meeting that is
  going on is not loaded by the slots of the day; rescheduling never asks what else the
  client has then; an answer about the place is saved over a cancellation.
- A call accepted while it is being hung up is ACCEPTED and over; a restart leaves
  calls RINGING or ACCEPTED for good.
- Opening a verification request saves it UNDER_REVIEW over a decision; a request and the
  badge disagree when the process ends between their two saves.
- A login checked against the old password goes on when its session is opened after
  the change has revoked the others; a rehash of the old password is stored over the new one.
- A click that read the account before its address changed verifies the new address. So does one
  saved while a change that read the account unverified is under way: the change has
  nothing to unset.
- The owner's estimate is priced from the bids of the project's tender (`resolveTier` in
  `estimateLadder.ts`), sealed ones of an open tender included. This was read, not checked.
- An edit of a profile saved between a rotation batch's read and its write is overwritten
  by the fields the sweep had read.
- A refresh whose answer is lost, or that two rotations overtake, leaves the jar with
  a token that ends the login when it is presented next.

## What is not modelled

Authentication and roles of each route (`Role` stands for them), validation of input,
amounts where no property compares them, notifications (best effort, and awaited after
the writes that matter), text, populated fields and everything read-only. Of the
client only what holds and renews the login is modelled, in `Sessions`. External services
are modelled only where their answers matter (the gateway, the mail server, the network).

Within the modelled components: the pay-out of a design contract's dispute (raising and
withdrawing freeze it, deciding is modelled for milestones and engagements), two
disputes whose decisions overlap on one stage, the notes on a drawing set, the weeks a variation adds,
the length of the waits between links, the signals a call relays, the renewal of a withdrawn listing,
a change of a party's name (it would change a populated contract's tag), the sealed parts of one
document each on its own (its key is the oldest of them), and the two scopes of a rotation side
by side.

Left out whole, with the reason in `PROJECT.json`: estimates (derived and stored whole), price refresh and price
sheet (idempotent upserts from external feeds), permits, documents and ECPS tracking
(single writes of one owner), reviews, messages, site diary and check-in (one document
under a unique index each), the design studio (a drawing saved whole, last write
wins), the assistant, feeds and maps (external services and text),
administration (reads), and the web client's pages. They are most of the repository's lines and hold
next to none of its shared state.

## What is left

In the order it would be worth doing:

1. The abstract `Escrow` that all three ledgers share (deposits, one payout, never more than
   held), refined by `Structural` where nothing crossed, by `BuildEscrow` for each stage and by
   `DesignContract`; with the decision on a design contract's dispute.
2. The slot algorithm against a definition by intervals, for any hours.
