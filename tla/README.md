# SatScout: a verification development in TLA+

SatScout holds a human's *Missions* (a campsite to book), *Permits* (what may be
spent on one), and *Authorizations* (authority of a Permit reserved for one
action), and drives external systems under them: the Wavelength daemon
(Lightning payments), Bitrefill (gift cards, over HTTP and MCP) and
recreation.gov (a browser). Its promise is economic: no more is ever spent
than a human permitted, nothing irreversible is done twice, and uncertainty is
reconciled rather than retried. The modules here model the code that keeps that
promise; paths below are relative to the repository (`src/` in PROJECT.json).

## Inventory

| Component (code) | State it keeps | Operations that change it | Hard behaviour | What makes it correct |
|---|---|---|---|---|
| Permit Engine (`src/domain/economy/evaluate.ts`, `usage.ts`, `arithmetic.ts`) | none: a function of Permit, action, usage, parent, time | `evaluateResolvedAction`, `computePermitUsage` | limits at a boundary, sums out of the safe integers, absent evidence | never ALLOW beyond a limit |
| Authorization lifecycle (`lifecycle.ts`, `authorization.ts`) | status and attempt flag of an Authorization | `transitionAuthorization` | repeated and stale requests | no release after execution may have begun |
| Store (`src/persistence/store.ts`, `migrations.ts`) | SQLite tables, shared by processes | create / replace / activate / revoke a Permit, authorize, transition | rows read before the transaction that writes them; unique indices as last guard | one ACTIVE Permit, frozen terms, no oversubscription, one reservation per payment |
| Spend Controller (`src/application/spend-controller.ts`) | none | provenance gate per entry point; status commands | commands for simulations on real Authorizations | only the in-process adapter reaches a non-simulated path |
| Wavelength Signet payment (`application/wavelength-spend.ts`) | funding row, Authorization status | `executeSignet`, `reconcile` | awaits between transactions, crashes, uncertain Send, two callers | Send at most once and on record; success recorded iff made |
| Wavelength adapter (`src/integrations/wavelength`) | none (the daemon's is external) | prepare, Send, inspect, status; quote admission | timeouts, unreadable answers, missing or contradicting fields | uncertain is never reported as failed, unknown never allows, quote and activity agree |
| Gift-card acquisition (`application/bitrefill-gift-card.ts`) | acquisition record, two Authorizations, funding and instrument rows | `acquire`, `reconcile`, `#sendOnce` | resumes after a crash at any of five stages; two resumes at once | one invoice, one Send, delivery recorded |
| Instrument invoice (`application/bitrefill-instrument.ts`) | instrument row, Authorization | `createInvoice`, `reconcile` | uncertain POST recorded in two transactions, two calls that begin, stale readings | one POST per Authorization, what is written off did not happen, an unexpected payment is noticed |
| Bitrefill adapter (`src/integrations/bitrefill`) | none | products, amounts, invoices, answers | the product changes between two reads; two judges of one invoice | what is bought is what was authorized |
| MCP prepayment (`application/bitrefill-prepayment.ts`) | prepayment binding, secrets file | `prepare`, `invalidate` | invalidation of a running chain; a slot held by a dead process; forms that ask for a human | a step that left is on record; no second chain of one slot without an operator |
| Cart capture (`application/recreation-cart.ts`) and workflow (`src/domain/workflow`) | BookingAttempt state and target, the browser profile | `capture`, `reconcile`, sessions that only look, `transitionAttempt` | an attempt read before minutes of browser work, a click whose effect is late or lost | one Add-to-Cart click per availability, a hold is proved |
| Observation (`src/integrations/recreation-gov`) | none | what a page shows | partial readings, a calendar that must be paged | a skipped reading does not pass for a good one |
| Audit trail | append-only rows | inside each transaction | rows rolled back with a rejection | every change has its row |
| Presentation, configuration, redaction, secrets files | little or none | | I/O and formatting | |

How they interact: the CLI calls an application object; that calls the Spend
Controller, which runs the Permit Engine inside a store transaction; the
application then commits each stage in the store *before* the external call it
announces and reconciles afterwards. Several CLI processes may share one
database. A transaction is `BEGIN IMMEDIATE`, so transactions are serial; what
interleaves is everything between them: rows read earlier, and awaits.

## Modules

| Module | Models |
|---|---|
| `AuthorizationLifecycle` | the transition table and its guards, as operators on the pair (status, attempted) |
| `PermitEvaluation` | the Permit Engine and the Spend Controller's provenance gate, as operators; a decision is a set of reason codes |
| `AuthorizationLedger` | the Permit and Authorization tables used by several processes |
| `AuthorizationLedgerProofs` | its inductive invariant and theorems |
| `PaymentPromise` | abstract: what SatScout promises of payments (reserve, send once, make, record) |
| `WavelengthDaemon` | the daemon (external) and what the adapter concludes from its entries; shared by the two modules that pay |
| `WavelengthSpend` | `executeSignet` and `reconcile`, their rows, the daemon and the operator |
| `WavelengthSpendProofs` | its inductive invariant and theorems, and that it implements `PaymentPromise` |
| `GiftCardAcquisition` | `acquire`, its resumes, `#sendOnce` and `reconcile` of one gift card, its rows, the shop, the daemon and the operator |
| `WavelengthReading` | pure: proto-JSON, quotes, status, wallet entries and what is made of each |
| `InstrumentInvoice` | `createInvoice` and `reconcile` of an instrument, its row, the shop and the operator |
| `BitrefillInvoice`, `BitrefillProduct` | pure: invoices and answers; products and denominations |
| `BitrefillMoney` | pure: amounts as text, as the binary doubles of JSON numbers, and as written for the shop |
| `InstrumentPrepayment` | `prepare` and `invalidate` of one slot: binding rows, the secret file, the steps of the chain |
| `PrepaymentForm` | pure: how a form is read, judged and filled, and what a response decides |
| `BookingWorkflow` | the table of states of a BookingAttempt |
| `RecreationPage`, `CartReading` | pure: what is concluded of a campsite page, and of the cart; the readiness of a session |
| `CartCapture` | `capture`, `reconcile` and sessions that look, with the attempt rows, the browser profile and the cart |
| `GiftCardProofs` | its inductive invariant and theorems, and that it implements `PaymentPromise` |
| `InstrumentInvoiceProofs`, `InstrumentPrepaymentProofs` | the inductive invariant and theorems of each |
| `CartCaptureProofs` | the inductive invariant and theorems of `CartCapture`; what the readings of cart, page and calendar promise of any answer and page, and the theorems of the enumerated ones |
| `WavelengthProofs` | what quotes, wallets and activities are made into, for every answer, and the theorems of the enumerated ones |
| `BitrefillProofs` | the theorems of invoice and prepayment side by side, and of the judgements of forms, invoices, products and amounts |
| `MCAuthorizationLedger`, `MCLedgerScenes`, `MCWavelengthSpend`, `MCWavelength`, `MCGiftCardAcquisition`, `MCBitrefill`, `MCCart` | the instances for TLC |

`WavelengthSpend` and `GiftCardAcquisition` both build on `AuthorizationLifecycle`
and `WavelengthDaemon`, and both implement `PaymentPromise`;
`AuthorizationLedger` composes `PermitEvaluation` with the lifecycle;
`InstrumentInvoice` rests on `BitrefillInvoice` and the lifecycle,
`InstrumentPrepayment` on `PrepaymentForm`, `CartCapture` on `CartReading`,
`RecreationPage` and `BookingWorkflow`.

Pure modules keep no state. Their MC modules put questions to them: besides the runs
of the state machines, a behaviour may consist of one initial state, whose `subject` is
an answer, a product, a form, a page or a cart from a set of some thousands, and the
properties compare what two pieces of code make of it, or what the code makes of
it with a plain statement of what it should mean.

### AuthorizationLedger

`permits` and `authorizations` are the tables; `now` the clock; `call[x]` the row
process `x` has read outside a transaction and not written back. `createPermit`
and `authorizeResolvedAction` read inside their transaction and are one action
each. `replaceDraftPermit`, `activatePermit`, `revokePermit` and
`transitionAuthorizationStatus` first read the row (`ReadFor...`), then write it
whole in a transaction whose UPDATE repeats only the status in its WHERE clause
(`WritePermit`, `WriteTransition`) or is refused (`...Refused`); a process may
die in between (`Crash`). The unique indices are guards (`ActiveIndexAdmits`,
`KeyTaken`, `findActivePaymentIdentity`). Usage is computed from the rows, as the
code does. A refusal that writes nothing and ends no pending call is not a step.

Left out: audit rows, the two fields with one possible value (currency, asset),
the messages of a decision, the order of reasons, Mission updates (no operation
changes a stored Mission's status), and expiry of Authorizations, which the ledger
records and never reads.

### WavelengthSpend

Between two awaits a call runs to the next commit, so each transaction and each
await is one action, in the order of the code: `StartExecute` (gates, Permit,
grant), `Prepared` (PrepareSend), `AuthorizeKnown` / `AuthorizeNew` (the
authorizing transaction: a known key, or a new row), `Revalidated`,
`BeginFundingExecution` (status and funding row in one transaction),
`MarkSendDispatched`, `DispatchSend` (the request leaves), `SendAnswered` /
`SendUncertain`, `RecordReceipt`, then `ReadForReconcile`, `Inspected`,
`RecordInspection`, `Settle`. `Throws` ends a call wherever the code throws;
`Crash` ends it anywhere. `StartReconcile` is the operator's own reconcile
command, `Operator` the `authorization` status commands, `Revoke` the Permit's
revocation. `sends` and `activity` are the daemon: a Send may be paid at any
later time, or never, whether or not it was answered.

The Permit is abstracted to active or not (it may also refuse, as a throw):
limits are the ledger's matter. The status commands and `Settle` are one step
here although the code reads the row before its transaction: the ledger shows
that such a write applies to the status that was read or is refused, and a
refusal is a `Throws`. The inspection is reduced to the class of the daemon's
entry that `mapReconciliation` tells apart: pending, complete, complete for more
than was authorized, anything else. Times to live and status checks of the
daemon are throws that may happen.

### GiftCardAcquisition

One slot (Permit, grant, product, currency, value) and its one record. `acquire` is
`StartAcquire`, `BeginAcquisition` (find or make the record),
`ClaimInvoiceDispatch`, `PostInvoice`, `InvoiceCreated` / `InvoiceFailed`,
`InvoiceStillUnpaid`, `Prepared`, `AuthorizeAcquire`, `AuthorizeTransfer`,
`SaveIds`; a call that finds the invoice posted goes on as `Resumes` says.
`#sendOnce` is `ReadForSend` (the rows it judges *before* its awaits),
`Revalidated`, `BeginInstrumentExecution`, `BeginFundingExecution`,
`MarkSendDispatched`, `DispatchSend`, `SendAnswered` / `SendUncertain`.
`reconcile` is `ConsumeFunding`, `Inspected` / `InspectedNothing`,
`SettleTransfer`, `AskShop`, `AskOrder`, `StoreSecret`, `SettleAcquire`. `Save`
is `updateGiftCardAcquisition`: it writes the status a call decided on,
whatever the record's status is by now. A call keeps of the record it read
the Authorization ids only, because nothing else of it is decided by later
(`call[x].auth`).

An Authorization is named by the idempotency key it was taken under; a key names
at most one (that is `KeyNamesOneAuthorization` of the ledger). A later call never
gets an earlier Authorization back, since the resolved action carries the time of
its evidence and the engine compares digests. One payment hash stands for the
invoice's payment. `shop` is the invoice and its order; it may make an invoice
long after it was asked for one, expire it, and deliver or fail to. What the
engine refuses beyond the Permit's status and the payment's identity is
`Throws`. No CLI command calls `reconcile` of the gift card yet; `Reconcilers`
are the processes that do.

### InstrumentInvoice

An Authorization and its instrument row are named by their idempotency key. A call
resolves its action at an *instant* (a millisecond), which the action's digest
covers: it gets an Authorization back only if both agree, and a conflict otherwise.
`createInvoice` is `StartCreate`, `AuthorizeNew` / `AuthorizeKnown`, `Revalidated`,
`BeginInstrumentExecution`, `MarkInvoicePosted`, `PostInvoice` (which the adapter may refuse
before anything is posted), then `InvoiceCreated` or
`InvoiceFailed` with `Settle` and `NoteOutcome`: the Authorization and the row follow an
uncertain answer in two transactions. `reconcile` is `StartReconcile`,
`ReadForReconcile` (both rows, before the await), `Inspected` / `InspectedInVain`,
`RecordInspection` and `Settle`. `ShopMoves` is the shop: it makes the invoice late or
refuses it, and may show it paid. Answers and invoices are judged by
`BitrefillInvoice`, in the words the shop may use.

### InstrumentPrepayment

All bindings are of one slot (Mission, provider, product, currency, face value).
A chain takes the slot in PREPARING, reads the form of each step, judges it and fills
it (`PrepaymentForm`), marks `mutationDispatched` before the first step leaves
(`FillSupported`), submits it, reads the answer and goes on until the provider gives
a bill payment id; the id is written to its file before the row is READY. `Outcome` says
what a chain that failed leaves behind. `invalidate` withdraws a binding whatever it is
doing. `submitted`, `withdrawn` and `died` record what left, what an operator did and whose
chain ended with its process.

### CartCapture

`capture` opens the browser profile, prepares the page (`readinessFailure` of the
evidence), reads the attempt and commits CARTING with its target in two steps
(`BeginCartCapture`, `CommitCarting`: a read, then an update conditional on the state
read), looks again at the page and the cart, clicks (`Act`), verifies and closes; a
proved hold is recorded by another read and conditional update. `reconcile` looks at
the cart only. `Move` is `transitionAttempt`, which writes the row it read earlier. The
cart is external: a click takes effect late or never, and items come and go. `commits`,
`clicks`, `proofs` and `moves` are history. Finding an element in the page is
external; what is concluded from it is `RecreationPage` and `CartReading`. The calendar is
left at the month that was looked for last, and each search goes on from there. Where a
button names a day, other controls of that day are not looked at; the pages put as questions
show days as buttons only.

## Runs

Deadlock is checked only in `cart`, where a session can always begin: the other systems
may stop legitimately (everything revoked or settled, ids used up, clock at its bound),
and a question put to a pure module has no next step.

| Run | Instance | Shows |
|---|---|---|
| `ledger` | three scenes: 2 Permits of one Mission, 3 documents (one legacy), 1 Authorization, clock to 2; a grant of 2 executions, 5 per purchase, aggregate 7, purchases of 2 and 5, 3 Authorizations, a key; 2 Missions with a Permit each, parent-linked and free transfers of 2 payments, 3 Authorizations (one process at a time). 2 processes; 357,946 states | `TypeOK`, `OneActivePermit`, `AuthorizationsNameStoredTerms`, `TermsFrozenAfterActivation`, `ExecutionsWithinGrant`, `AggregatesWithinGrant`, `OneAuthorizationPerKey`, `OnePaymentReservation`, `NoReleaseAfterExecution` |
| `ledger_activation` | 1 Permit, 2 processes | violation of `ActivationKeepsStoredTerms` (finding 1) |
| `spend_safe` | 2 processes, 2 keys, 2 preparations of one invoice, 2 Authorizations, 1 crash, plain commands; and some 19,000 quotes, activities and statuses; 125,428 states | `TypeOK`, `SendAtMostOnce`, `SendIsOnRecord`, `PromiseKept` (refinement of `PaymentPromise`); `UnknownNeverAllows`, `QuoteAndActivityAgree` |
| `spend_release` | 1 process, 1 Authorization | violation of `ReleasedOnlyUnsent` (finding 2) |
| `wavelength_malformed` | the activities | violation of `MalformedBecomesAmbiguous` (finding 4) |
| `spend_live` | 2 processes, 1 Authorization, 1 crash, plain commands, a patient operator; 32,842 states | `MadeIsRecorded` |
| `gift_safe` | 2 processes, 2 keys, nobody reconciles on its own, 1 mishap (crash, release or revocation), symmetry; 2,664,350 states | `TypeOK`, `InvoicePostedOnce`, `SendAtMostOnce`, `SucceededMeansDelivered` |
| `gift_restart` | 2 processes, no command | violation of `RestartReconciles` (finding 3) |
| `gift_live` | 2 processes, one of which keeps reconciling, no mishap; 162,114 states | `PromiseKept` (refinement of `PaymentPromise`), `DeliveredIsRecorded` |
| `bitrefill` | invoice: 2 processes, 1 key, 2 instants, 1 mishap; prepayment: 2 processes, 2 bindings, chains of 2 steps, 4 forms, 1 mishap; and the questions, 1,101 amounts among them; 175,762 states | `BitrefillTypeOK`, `InvoicePostedOnce`, `WrittenOffMeansNoInvoice`, `UnexpectedPaymentIsNoticed`; `SubmittedIsOnRecord`, `SecondChainNeedsAnOperator`, `ReadyHasItsSecret`, `SlotIsNotAbandoned`; `BoughtAsAuthorized`, `FormsAreLeftToAHuman`, `AcceptedIsReadUnpaid` |
| `prepay_repeat` | the same with forms that have an optional field | violation of `RepeatIsNotResubmitted` (finding 5) |
| `cart` | 1 attempt, 2 processes, 2 sites, 3 moves of the operator, 2 mishaps, symmetry; and the questions; 483,442 states | `TypeOK`, `OneClickPerAvailability`, `ClickIsOnRecord`, `HoldIsProved`, `AttemptsFollowTheTable`; `CartIsReadRight`, `PageIsReadRight` |

Bounds and why they are enough. `MaxTime` 2 reaches before, during and after a
Permit's validity; two processes make every pairwise race of reads and writes;
two Permits, two keys and two preparations of one invoice are the smallest
instances in which uniqueness can fail; three Authorizations exceed a grant of
two; the amounts 2 and 5 against an aggregate of 7 fit exactly, so an off-by-one
shows, and three of 2 exceed the executions alone; the transfers have their second
process idle because the races of reads are those of the other scenes. `MaxCrashes` 1
already interrupts a call at every point; `MaxSends` and `MaxPosts`
are 2, one more than `SendAtMostOnce` and `InvoicePostedOnce` allow, so that the
bounds cannot hide a second Send or invoice. `MaxMishaps` counts crashes,
operator commands and revocation together (in `cart`, crashes and changes of the cart
by others): 1 interrupts either call anywhere, 2 let one follow the other.
`gift_live` has no crash, to stay small: there a call may still end early wherever
`Throws` lets it. Two keys matter only to `gift_safe`: under one key the second acquire
of a card cannot get as far as authorizing. A chain of 2 steps has a first, a
middle answer and a last one that may be exceeded; 3 moves take an attempt from CARTING
over PAUSED and WAITING back to AVAILABLE. `MaxSafeInteger` stands for
2^53 - 1 and is made small enough (6 satoshis, 1,023 cents) to be passed by the amounts.

The doubles of `bitrefill` have ten binary digits instead of 53 (`Half` is 2^9), a least one
of 2^-17 (`One` is 2^17 grains) and a tolerance of a fifth instead of 10^-8; the shape
is kept: the doubles thin out from binade to binade, below some amount they lie closer than
the tolerance (here 1.28, in the code 671,088.64), above it amounts of cents are
refused as numbers though their text is read (here from 2.01 on, in the code for instance
1,048,576.09), and near the last safe integer there are no digits left for the cents.
The amounts 0 .. 1100 cover all of it, in each way of writing them and with each third digit.
Symmetry is used only for safety runs and over ids no action names.

The operator's commands of these runs exclude the two that claim a *simulated*
outcome (`succeed-simulated`, `fail-safe-simulated`): with them an operator may
declare any outcome of a real payment, and neither the promise nor the liveness
properties are meant to hold then. `spend_release` includes them, and the theorems
about `WavelengthSpend`, `GiftCardAcquisition` and `InstrumentInvoice` hold with any
commands, except that `WrittenOffSound` needs `fail-safe-simulated` excluded and the
refinements `SpendKeepsPromise` and `GiftKeepsPromise` both.

### Fairness

`FairSpec` gives weak fairness to the steps of a begun call: the HTTP client
aborts a request after its timeout (`rest-client.ts` `#post`), so no await is for
ever, and between awaits JavaScript runs on. Nothing is assumed of the daemon,
of the operator or of crashes. `PatientSpec` adds what `MadeIsRecorded`
needs from outside: the operator keeps reconciling each Authorization
(docs/THREAT_MODEL.md, "Restart reconciles; it does not resend": a restart is a new
command by a human) and the daemon does not fail to answer every single time.
The daemon's own steps are never assumed to happen.

For the gift card `PatientSpec` says the same of its `Reconcilers`, with strong
fairness of the steps that need an answer of the daemon, of the shop (`AskShop`,
`AskOrder`) or of the disk (`StoreSecret`): each may fail any number of times, but not
every time for ever. Neither delivery nor payment is assumed. `DeliveredIsRecorded` asks only for cards
paid for exactly as authorized: a payment that cost more is a MISMATCH, which the
code leaves AMBIGUOUS for a human.

`Patience` of `InstrumentInvoice`, which `bitrefill` assumes, is the same again: begun
calls go on, each key is reconciled again and again, and `getInvoice` does not fail to
answer every time. That the shop ever makes, or shows paid, an invoice is not assumed.

## Theorems

All are checked by TLAPS for every value of the constants.

*Ledger* (`AuthorizationLedgerProofs`, invariant `IInv`). Assumptions:
finitely many Authorization ids; grants of a document have distinct ids and
positive limits (`parsePermit`); amounts and aggregates are naturals
(`AmountAssumption`, from the schemas of grants and actions; an aggregate may be absent, and
of a transfer nothing is assumed, since the engine refuses one whose amounts are not);
documents name stored Missions; the null values are no rows. The properties alone are not inductive, because a pending call may
write what it read long ago. `IInv` therefore adds what each pending call still
knows when it writes: `PermitReadsSound` (a Permit read ACTIVE is ACTIVE
unchanged or no longer ACTIVE, and never DRAFT again; what is written has
the id and Mission that were read) and `TransitionReadsSound` (the row
read binds the same Permit, grant, action and key; the transition was accepted
of it), with `RowsKeyed` and `AttemptsConsistent`. From it: `TypeCorrect`,
`OneActivePermitHolds`, `ExecutionsBounded`, `PaymentReservedOnce`,
`KeyNamesOneAuthorization`, `TermsStayOnRecord`, and the action properties
`NoReleaseAfterExecutionHolds` and `TermsFrozenHolds`. `ExecutionsBounded` rests
on two facts: authorizing adds one element to a set that was below the limit,
and a Permit's terms cannot change once an Authorization names it.

`AggregatesBounded` says the same of sums of amounts, which the usage computes by a fold over a
set. The lemmas come first: that the recursive function of the fold exists
(`SumsExist`), that its values are naturals (`SumsAreSums`), that it does not matter which
element is taken next (`SumsOfAny`, `TotalOfAny`) and that only the weights of the
elements matter (`SumsAgree`). Each is an induction over the size of a set, proved by a
least counterexample (`LeastNumber`, from the well-foundedness of the naturals). Then `AggregateInv`
adds to `IInv` that every row holds naturals (`HeldAreNat`), without which a release could
raise a sum; an allowed action fits into what remains (`AllowedFits`), a transition gives
back or leaves (`WriteTransitionKeepsAggregates`), and a Permit that is written has
nothing reserved or keeps its terms (`PermitsKeepAggregates`).

*Payment* (`WavelengthSpendProofs`, invariant `SpendInv`). Assumptions: `HashOf`
is a function to payments, the null value is no id and no row. The argument:
`OneRowPerPayment` (the unique index, for good) gives a payment one funding row,
`OneDispatcher` says that only one call is past that row's mark and before its Send, and
`CallsSound` that then nothing was sent: so a Send is the first
(`SentAtMostOnce`) and on record (`SentIsOnRecord`). The commands of the operator
are any set of statuses, so the theorems hold with the simulated ones too.

*Invoice* (`InstrumentInvoiceProofs`, invariant `InvoiceInv`). Assumption
`InstrumentAssumption`: the null value is no key and no row, the bounds are naturals. The
mark is set only where it was not, and then nothing was posted (`InvoicePostedOnce`) and
no other call is about to post (`CallsSound`); so `OnePoster` holds, the call that
posts is the only one and its request the first (`PostedOnce`). For `WrittenOffSound` the
invariant `WrittenOffInv` adds that whatever is written off, or is about to be by a
call that has the refusal, is `Final`: marked, with no call left to post, and with
nothing made at the shop. `FinalStays` shows that no step undoes it, and the frames
(`CallFrame`, `RowFrame`, `StatusFrame`) that only the call with the refusal writes
FAILED or FAILED_SAFE. It assumes that the operator simulates no failure.

*Gift card* (`GiftCardProofs`, invariant `GiftInv`). Assumption
`AcquisitionAssumption`: the payment is a payment hash, those who reconcile are processes,
no command takes an Authorization back to AUTHORIZED, the bounds are naturals, the null
value is no key and no row. `acquire` decides by rows it
read before it waited, and resumes what another process is still doing, so the four
properties are not inductive. `GiftInv` adds what a call knows at each step
(`CallsSound`: only facts that no step of anybody takes back, such as a row that exists, a
mark that is set, a card that was delivered); that one call posts and only after
the claim (`OnePoster`); that under one Authorization one call at a time is between
the transfer and its Send (`OneBuyer`: a second one finds the Authorization no longer
AUTHORIZED); that the payment has one funding row for good (`OneFundingRow`, the unique
index); and that the payment was sent under an Authorization below which nobody buys any
more (`SentAndDone`). From it: `GiftTypeCorrect`, `GiftInvoicePostedOnce`,
`GiftSentAtMostOnce`, `GiftSucceededDelivered`. The overwritten record of finding 3
is within the invariant: no part of it rests on the record but SUCCEEDED.

*Refinement* (in `WavelengthSpendProofs` and `GiftCardProofs`). `SpendKeepsPromise` and
`GiftKeepsPromise` show `PromiseKept`, that initial states map to initial states and every
step to a step of `PaymentPromise` or to a stutter. `StepKinds` sorts the steps by what they do
to the Authorizations and to the daemon: nothing, a new Authorization, a Send, a payment
made, a status that turns; then each kind is mapped. The mapping needs, besides the
inductive invariant, `Covered`: a funding row, or a payment that left, has an
Authorization that cannot be released; what the daemon knows of was sent; success is of a
payment that was made. Both assume `PlainCommandsOnly`, that no operator declares
an outcome by hand: `authorization fail-safe-simulated` followed by `release`
hands back the authority of a payment that was sent, which is finding 2.

*Prepayment* (`InstrumentPrepaymentProofs`, invariant `ChainInv`). Assumption
`PrepaymentAssumption`: at least one step, the null value is no binding and no row. A binding is
run by one chain (`OneChain`) and the slot has one holder (`OneHolder`, the unique
index); `CallSound` says how many steps have left at each stage of a chain and which is on
record, for which `ReadIsNextStep` and `JudgedOneWay` give what reading an answer and judging
a form may return. An operator may withdraw a binding at any stage, so what is claimed of the
status a chain finds has that exception. `SlotNotAbandoned` does not need it: a
binding in PREPARING has a running chain unless the process of that chain died or its catch could not
write the row (both are `Crash`, remembered in `died`),
whatever operators and other chains did. From it: `ChainTypeCorrect`,
`SubmittedOnRecord`, `SecondChainWithdrawn`, `ReadyLoads` and `SlotNotAbandoned`.
`LeftToAHuman` needs one fact more (`HumanInv`): a chain about to submit still holds the
form that was judged, so what leaves is what `SupportedIsAnswerable` says of such a form.

*Bitrefill* (`BitrefillProofs`). `MCBitrefill` runs the invoice and the chain (with what is
proved of it: the instance is of `InstrumentPrepaymentProofs`) side by side. Neither moves
what is the other's, so a behaviour of the composition is one of each (`InvoiceRuns`,
`ChainRuns`) and every theorem of either holds of it, under the names of the runs'
properties. The judgements are proved first of whatever is judged: `InspectionForesees` of
any list of fields and profile, `AcceptedJustWhenUnpaid` of any invoice that can be read,
`BoughtAtTheValue` of any two products whose packages are named, `AmountsAreRead` of every
natural number of minor units; then of the questions the run asks
(`BitrefillFormsLeft`, `BitrefillAcceptedUnpaid`, `BitrefillBoughtAsAuthorized`). They assume
`AbsentAssumption`, that what is absent is no identifier and no profile.

`AmountsAreRead` is about binary doubles of any width. A number of the shop is rounded to a
double, multiplied by 100 and rounded again, and accepted within a tolerance, so it is not true that
an amount reads the same however it is written: 1048576.09 is refused as a number and read as
text, and the number 5.00000000001 is read as 500. What holds is that an amount in text is read as itself
or refused beyond the safe integers; that the number of an amount is read as itself or refused, and
not refused below 671,088.64; that a fraction of a cent is read as a neighbour or refused,
and half a cent refused there; and that what is written for the shop is read back as the
amount, or nothing is written. The last holds without bound; a number of 2^52 cents or
more may be read as another amount. `MoneyAssumption` says that the units of the doubles are
powers of two, that half a cent is no subnormal and that the tolerance is less than a quarter of
a cent. The argument: `NearestFacts` bounds one rounding by half a unit,
`ReadUpTo`, `ReadFrom` and `ReadWithin` keep two of them within one unit, below a cent where
the doubles have digits for one, so the integer next to the product is the amount
(`NumberReadsBack`) or a neighbour of the fraction (`FractionReadsBetween`), and half
a cent stays further from any integer than the tolerance (`HalfACentIsRefused`).

*The daemon's answers* (`WavelengthProofs`). `MCWavelength` names the shapes of the answers
(`Fields`, `Flags`, `Enums`, `EntryBodies`, ...) and `ReadingAssumption` says of the
constants that what is absent, of a wrong type or refused is no value and that the times
of the clock are safe integers. Each field is read first (`IntegerRead`, `NamesRead`),
then each body (`QuoteParsed`, `StatusParsed`, `InfoParsed`: readable, and what is made of it,
or refused), then the judgements, whatever the daemon wrote: `AuthorizedJustWhenWhole`
of any quote on either network, `ReadyJustWhenWhole` of any two answers of a wallet on
mainnet, `CarriedOutIsSettled` and `SettledWasCarriedOut` of any quote that is whole and any
answer about its activity. A subject never changes (`SubjectStands`) and is of those shapes
(`AskedOfItsKind`), from which `UnknownIsNotAllowed` and `QuotesAgreeWithActivities` follow
under the names of the run's properties.

*Cart* (`CartCaptureProofs`, invariant `CartInv`). Assumption `CartAssumption`: finitely many
processes and sites, the null values are no process, no cart and differ. The pages, the
requests of the operator and the bounds are arbitrary. A process works with
a row it read minutes ago. What makes the properties inductive is `Kept`: until
an operator moves an attempt, its row goes from AVAILABLE to CARTING with the target and
on to CART_HELD, and nothing else, so whatever a call committed or read stays true
(`Steady`, `KeptStays`). `Counted` bounds the clicks: `Pledged` are the captures that
have committed and may still click, clicks and pledges together are at most the commits,
and commits plus the present availability at most the availabilities there have been; a
commit turns one into a pledge, a click uses one up. `MatchMeansHeld` is the lemma about
the readings: an inspection that matches a target exactly was of a cart with its
site and nothing else. From it: `CartTypeCorrect`, `ClickedOncePerAvailability`,
`ClickOnRecord`, `HoldProved`, and the action property `TableFollowed`.

*The readings of cart and page* (`CartCaptureProofs`, over `MCCart`). `QuestionAssumption` says
that days are integers and a stay has a night, that `MaxMovements` is a natural, and that none
of the named failures is the value for no failure. The readings are proved of everything that
can be read and not only of what is enumerated:

- the cart, for any parsed answer and any rendered page. What `inspectRecreationCartApiPayload`
  makes of an answer (`AnswerParsed`, `ItemsCounted`) and what is left of it once it is held
  against the page (`AnswerCompared`) come first; then `MatchIsTheTarget`, `EmptyIsEmpty` and
  `MatchIsEvidence`.
- the readiness of a session, for any page with finitely many links and calendar controls, any
  answer and any rendered cart. `OnlyDatesAreLeft` and `EverythingWasRead` turn the absence of a
  failure round into what was read, `MatchWasSeen`, `AvailableIsLabelled`, `LabelIsAgreed` and
  `LinkIsTheOne` into what the page shows: `ReadyWasSeen` and `SkippedIsNotTheReason`.
- the calendar, for any run of consecutive months, any number of months shown and any
  `MaxMovements`. The search is a recursive function, so it is first shown to exist
  (`SearchExists`). `Ended` says in closed form what it comes to; that form satisfies the
  equation of the search (`EndedIsLooked`), and `SearchIsEnded` concludes by a least
  counterexample, an induction over the movements that are left. Then `MonthsAreFound` is
  arithmetic.

A behaviour of `MCCart` is a behaviour of `CartCapture` (`SessionRuns`), so the theorems about
the invariants hold of it, and its question never changes (`SubjectStays`). The enumerated
answers, pages and calendars are among those above (`AskedPayloads`, `AskedScreens`,
`AskedPages`, `AskedAnswers`, `AskedOfACalendar`), from which `CartsAreReadRight` and
`PagesAreReadRight` follow under the names of the run's properties.

Only model-checked: the liveness properties `MadeIsRecorded`, `DeliveredIsRecorded` and
`UnexpectedPaymentIsNoticed` (liveness under fairness is out of the prover's reach), and the
five properties of the findings, which the code violates.

## Findings

1. `ledger_activation`: `activatePermit` reads the DRAFT at store.ts:426, before its
   transaction, and writes that copy back where the status is still DRAFT. A
   replacement committed in between is silently undone: the earlier terms
   come into force, although store.ts:469-471 means to detect "Concurrent Permit update".
2. `spend_release`: `authorization fail-safe-simulated` followed by
   `authorization release` hands back the authority of a payment whose Send was
   dispatched, against docs/THREAT_MODEL.md:151 ("Release is allowed only when
   SatScout can prove no irreversible external action began"). The payment is
   still not sent twice.
3. `gift_restart`: an `acquire` that waits in `prepareMainnetPayment` while another
   one sends overwrites SEND_DISPATCHED with WAVELENGTH_PREPARED
   (store.ts:1573 compares no status). Every later `acquire` then refetches the invoice,
   finds it paid and throws, against docs/THREAT_MODEL.md:112 ("Restart reconciles;
   it does not resend"). It does not resend either (`gift_safe`), and `reconcile`
   recovers (`gift_live`), but no command calls it.
4. `wavelength_malformed`: an activity with an enum or a number that cannot be read
   makes `reconcile` throw, so that the Authorization stays EXECUTING, against
   docs/WAVELENGTH_SIGNET.md:158 ("malformed ... results become `AMBIGUOUS`"). Only
   MALFORMED_RESPONSE and 404 become AMBIGUOUS (adapter.ts:229).
5. `prepay_repeat`: what was submitted is remembered by its required fields
   (form.ts:153) and compared with all the fields that come back: a form with an
   optional field that is returned unchanged under the same step number is submitted
   again, against docs/BITREFILL.md:178 ("never automatically resubmitted").

## Plan

What is left, in this order:

1. A clock in `CartCapture`: the Mission's expiry is checked before the browser session
   (recreation-cart.ts:768) and not in the callback that commits the action.
2. The audit trail: the event of a rejected transition is appended inside the
   transaction that the throw rolls back (store.ts:2000).

## Not modelled, and why

Redaction, terminal output, configuration, file permissions and URL checks are I/O or
formatting with no protocol of their own. Locating elements in the page
(`cart-capture.ts`, `observer.ts`) is browser I/O: the models begin with what a reading
found. The inspection of the cart page alone (`inspectRecreationCartPage`) is used
by no capture and changes no state. The connection to the MCP server with the digest of its schema is a gate before
`prepare` and only refuses. Version-1 Permits cannot authorize; the ledger has their
creation and revocation only. The purchase and payment types of the first version keep
no state. The audit trail is read back by nothing that decides.
