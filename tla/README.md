# FreightFlow: formal models

FreightFlow is a freight marketplace. A NestJS backend (`backend/src`) keeps shipments, bids,
payments, users and documents in Postgres and calls a Soroban escrow contract through an RPC node;
five contracts (`contracts/*`) keep the escrow and the on-chain shipment, reputation, document and
identity records; a Next.js frontend (`frontend/`) drives the backend. This directory models the
parts that keep state, checks them with TLC and proves the strongest statements with TLAPS.
Paths below are relative to the repository.

Contents: 1 the system, 2 modules, 3 runs, 4 disagreements between code and text, 5 proofs,
6 what is not modelled. `PROJECT.json` holds the same facts for a program: every component with its sources,
every run, for every definition the lines it models (`map`), for every property a defect that breaks it
(`mutants`), and the hazards the properties are for.

## 1. The system

| Component | State | Operations | Talks to |
|---|---|---|---|
| Escrow contract, `contracts/escrow` | admin and token, one record per shipment id, tokens held | initialize, fund, release, refund, raise and resolve dispute | token contract |
| Shipment contract, `contracts/shipment` | admin, counter, records, lists per shipper and carrier | initialize, create, accept, in transit, delivered, confirm, cancel, dispute, resolve | nothing: the backend never calls it |
| Reputation, document, identity contracts | profiles and ratings; documents; wallets | register, rate, report a completion; register, verify, check; register, revoke | nothing |
| Stellar service, `backend/src/stellar` | none; the RPC node and the ledger behind it | build, simulate, sign, submit, poll, read | escrow contract |
| Payments, `backend/src/payments` | `payments` rows (status, carrier address, on-chain id, hash) | initiate, submit and test-sign funding, find or create the row, release for a shipment | Stellar service, shipments, users |
| Shipments, `backend/src/shipments` | `shipments`, `shipment_status_history` | create, edit, accept, pick up, deliver, confirm, cancel, dispute, resolve; lists, analytics, export | payments (release), event emitter |
| Bids, `backend/src/bids` | `bids` | submit, accept | the shipment row, written directly |
| Admin, `backend/src/admin` | audit log; users and payment rows | release, refund, reconcile; activate, deactivate, change a role; statistics | Stellar service, users |
| Auth and users, `backend/src/auth`, `users` | users: password, refresh and reset token hashes, role, activity, wallet | register, login, refresh, logout, reset and change password, verify the email, profile | mail |
| Webhooks, notifications | hooks; sockets | up to three posts per event and hook; mails; socket messages | events of shipments |
| Addresses, reviews, preferences, certifications, documents | one table each; files on disk | create, update, verify, remove | shipments, audit log |
| Frontend | access token in memory, refresh token in sessionStorage, a cookie; query cache; notification list; one socket | pages that list, offer actions and refresh tokens | backend |

What makes it hard. The backend holds no locks and opens no transactions in the paths modelled
here: a handler reads a row, checks it, awaits other queries or the RPC node, and writes; any
number of handlers run at once on the event loop. A TypeORM `save` of an entity is itself two queries,
a SELECT that finds the columns in which the entity read *earlier* differs from the row, and an UPDATE
of these; a `save` of a row removed meanwhile inserts it again. A submitted transaction may be rejected,
taken, taken with the answer lost, applied late, or dropped after its 30 seconds; `submitPrepared` reports
success as soon as the node has queued it. Webhook attempts wait in timers. A restart ends every request and timer
where it is and nothing resumes one. The browser has several requests under way at once, and their answers come in any
order. The contracts are sequential: there the difficulty is long legal sequences of calls.

What makes each part correct:

- escrow, funding, settlement: money leaves the escrow once, whole, and to its party; a shipper pays a
  shipment once; two submissions for one payment are never under way together; rows agree with the
  deposit once its transaction is applied; on-chain ids are unique and gap-free;
- shipments and bids: a shipment follows the table of transitions and has a carrier while under way; what was announced
  is in its history; a bid that wins gets the shipment and the others are rejected; nobody is offered what is refused, and
  nobody is stuck;
- sessions: a session closed stays closed, a link works once, and a browser is thrown out only when its session has gone;
- events: each is posted, mailed and shown to each party as often as it should be, whatever fails on the way;
- records: one default address once one is set undisturbed, one review per party, no verification without its audit entry, no listed document without its file;
- pages: a list walked to its end shows what was there, a table at rest shows what is selected, a report's numbers
  hang together, and an export can be read back.

## 2. Modules

Money:

| Module | Models | How state and actions correspond |
|---|---|---|
| `HeldDeposits` | what the escrow promises (abstract) | per id at most one deposit; `Take`, `PayOn`, `GiveBack` |
| `Escrow` | `contracts/escrow/src/lib.rs` | one action per entry point, since an invocation commits or leaves no trace; `netIn` and `abandoned` are history variables |
| `Stellar` | `stellar-contract.service.ts` and the network (external) | `txs`: built, queued, succeeded, failed, dropped; a transaction is valid only for the next sequence number of its account, and the node queues one per account; `Apply` performs the escrow call of `Escrow` |
| `Funding` | `initiateFunding`, `submitFunding`, `testSignAndSubmitFunding`, `claimPaymentRowForFunding`, `claimAndSubmit`, `invoke`, `submitPrepared`, `pollForConfirmation` | `req[r].pc` is the await a request is at; `Bound` is what a row is bound to, the wallets of carrier and shipper; `Refresh` and `RefreshUpdate` are the two queries of `save`; `Crash` is a restart |
| `Settlement` | `releaseEscrowForShipment`, `adminReleaseEscrow`, `adminRefundEscrow`, `reconcileEscrow` over `Funding` | `op` says which of the three a request runs; parties' disputes and the platform's resolution reach the contract from outside the backend |
| `PaymentRows` | `getOrCreatePayment`, `generateNextOnChainId` and the two unique constraints | one action per query; `Funding` takes the whole as one step |

Shipments:

| Module | Models | How state and actions correspond |
|---|---|---|
| `Lifecycle` | what shipment contract and service both promise (abstract) | `Successors` and: exactly an acceptance names the carrier |
| `ShipmentContract` | `contracts/shipment/src/lib.rs` | one action per entry point, one shared `Move` |
| `Shipments` | the status handlers, `create` and `update` of `shipments.service.ts`, with the roles of the controller | `MayCancel(u)` and its like are what a handler checks, `Begin` a handler that has passed; then `Compare` and `Write` (save), `Record`, `Release`, `Emit` |
| `Bids` | `submitBid`, `acceptBid` over `Shipments` | one action per query; `StatusTimeline` is what the page shows of the history |
| `ShipmentPage` | the shipment page, the disputes page and the carrier's dashboard | `OffersOnPage`, `OffersOnDisputes`, `OffersOnCarrierDashboard` against the checks of the handlers (`MayAccept` and the others of `Shipments`); `InVain` lists the offers known to be refused |

Accounts and events:

| Module | Models | How state and actions correspond |
|---|---|---|
| `Sessions` | `AuthService`, `UsersService`, the user part of `AdminService`, `JwtStrategy`, the client's `client.ts`, `auth.api.ts`, `auth.store.ts` and the pages that call them | `row` is the account's row, `calls[c].pc` the await a call is at, `flight` the map `refreshInFlight`, `browser` the tokens in memory, cookie and sessionStorage |
| `Deliveries` | `WebhooksService`, `NotificationsService`, `NotificationsGateway`, `useShipmentSocket`, the notification store and the bell | a lookup of hooks, a task per hook, a post per attempt; a queue of letters per event; the tab's socket with its handlers, the wire, the list and the count; `due` is whom an event is to be written to |

Records and pages:

| Module | Models | How state and actions correspond |
|---|---|---|
| `Addresses`, `Reviews`, `Certifications`, `Documents` | the services of that name (`Reviews` with the notification preferences, `Certifications` with the audit log and its interceptor) | one action per statement; `caller[c].pc` is the await; `AddressFails` is a failure between two; a file and its row are two steps |
| `Lists` | the list pages of users, shipments, disputes, marketplace and reviews, `findAndCount` and `cursorPaginate` | `fetching` and `answers` are the requests under way and come back; `view` the filter and page selected, `failed` the views whose last load failed; rows come in and leave meanwhile |
| `Statistics` | `getStats`, `getAnalytics` and the page that asks for both | `report` holds the queries still to make and the answers so far, and the shipments outside its bounds; `AdminCards` is what the page shows of them |
| `Exports` | `exportShipments`, CSV and JSON | one row sent per step; a value is null or a text (`Texts`) over the characters the escaping treats unlike others (`Characters`); `ReadCsv` is a reader of RFC 4180 |
| `Records` | the services above side by side with `PaymentRows` and `Lists` | they share no table, so a behaviour follows one of them |
| `Reputation`, `DocumentRegistry`, `Identity` | the other contracts | one action per entry point |
| `Contracts` | the four contracts that move no tokens | none calls another, so a behaviour follows one |

`MC*` give TLC its constants (users, roles, amounts, symmetry); `*Proofs` and `SumTheorems` hold the theorems of section 5.
`Settlement` extends `Funding`, which extends `Stellar`, which has `Escrow` as an instance; `ShipmentPage` extends `Bids`,
which extends `Shipments`; `ShipmentContract` and `Shipments` each have `Lifecycle` as an instance under a
refinement mapping, and `Escrow` has `HeldDeposits`; `Statistics` takes the order of statuses from `Lifecycle`.
An operator whose comment begins with "Mutant:" is a plausible defect of the definition after it; it
shows that the properties named in `PROJECT.json` notice it, and no specification uses it.

Modelling decisions a reader should know:

- Ledger timestamps, TTLs, cargo, prices (one price), messages and addresses' texts are left out, since no property
  is about them. Handlers of different shipments share nothing but on-chain ids, so `Shipments` has one
  shipment, and `PaymentRows` has several.
- A request that fails a check changes nothing and has no action. `Fail`, `FailBid`, `InitiateFails`,
  `SettleFails`, `UnclaimFails`, `Leave` and the `brokenOff` of `Records` are statements that throw or a process that stops.
- `acceptBid` updates the shipment with one statement that names both columns, so `AssignCarrier` is one step;
  the saves of `ShipmentsService` are two.
- `events` counts announcements per status; their order is not kept.
- The shippers of the funding model are `Payers`, and no party calls the escrow contract directly. `Settlement`
  adds disputes, but a `fund_escrow` call always comes from an XDR the backend built. `submitFunding` looks at no XDR: `Submit` takes any
  that was built, signed by whoever it is for, and any transaction that has reached the network, for whichever shipment.
- Sessions: a refresh token is a number, the link of a mail too. bcrypt compares 72 bytes, which two tokens of one account
  share (header, and the claims up to the account), so any refresh token of the account matches the one stored; `refresh`
  checks neither the signature nor `isActive`, and the model accepts what the code accepts. A save of a user writes
  back the columns that are not `select: false`, as they were read.
- A call of `Sessions` comes from a page of the one browser or from elsewhere (another device, a mail, an administrator);
  calls that find a refresh in flight join its promise.
- The three listeners of an event (hooks, mails, sockets) share nothing but the event, and a behaviour of `Deliveries`
  follows one. Events come in any order and of any kind, with nobody, somebody else or the shipper himself as the carrier: handlers overlap
  and fail, and the acceptance of a bid emits nothing. The gateway sends an event to the rooms of both parties, and a shipper who carries his
  own shipment (an administrator may) gets it twice; the two are `Message`s to different parties.
- Requests of one user to his own addresses overlap like all others, and can end with two defaults. The history variable `orderly` has the users
  whose requests have not overlapped since their default was last cleared with no other request of theirs under way.
- Lists: a row is a number, larger when newer, open or closed; two filters stand for all; a load may fail at any moment, and the two attempts of
  `useQuery` count as one load; the cursor's timestamp is the
  number of its millisecond. `cursorPaginate` has no importer and is modelled for what it computes.
- Statistics: completed shipments are counted instead of their prices summed. Which shipments lie outside the dates asked for, and which were
  created more than thirty days ago, is chosen anew for each report. A status can be followed by any other, which is more than stale saves can do. The
  numbers of active accounts and open disputes are asked for, and their answers not kept.
- Exports: two columns stand for seventeen; seven characters for all, the carriage return among them.
- `MaxTx`, `MaxRequests`, `MaxBids`, `MaxShipments`, `MaxCalls`, `MaxEvents`, `MaxSignals`, `MaxRatings`, `MaxReports`, `MaxDocuments`,
  `MaxReviews`, `MaxLog`, `MaxRows`, `WalkRows` and `TableRows` are the only bounds in guards; each module names its own.
- The contracts are taken as deployed: `initialize` is the first invocation. `create_shipment` and `register_document` do
  not ask for it, and `initialize` resets the counter, so ids given out before would be given out again.

## 3. Runs

Each run ends in under four minutes on two workers. "Shows" lists what TLC found true in the whole reachable
state space under the bounds; two runs expect a violation.

| Run | States | Bounds | Shows |
|---|---|---|---|
| `escrow` | 263 thousand | 2 accounts in any role, 2 shipments, 4 tokens, amounts -1 to 2 | `Solvent`; `SettledIsFinal` until new tokens come in; `PaysItsParty`; `PromiseKept`: implements `HeldDeposits` |
| `escrow_double_funding` (violation) | | same | `NoDoubleFunding`: a Disputed record can be funded again, and the first deposit is forgotten |
| `funding` | 612 thousand | 1 shipment, 2 requests, 2 wallets of the shipper, 2 transactions, test signing, crash | `ChargedOnce`: the shipper pays once |
| `funding_one_wallet` | 502 thousand | 2 shipments of one shipper, 2 requests, 2 transactions, one wallet per party, no crash, fairness | `SingleFlight`: one submission per payment at a time; `FundedIsFinal`; `FundedNamesTransaction`: a FUNDED row names a transaction that reached the network; `ClaimEnds`: FUNDING always ends |
| `funding_two_in_flight` (violation) | | 2 wallets of the carrier | `SingleFlight`: the refresh of a stale entity writes PENDING over another request's FUNDING |
| `settlement` | 632 thousand | 1 shipment, 2 requests, 3 transactions, careful admins and shippers | `SettledReached`: what row and audit log call settled reached the network; `AgreesOnceApplied`: row and deposit agree once the named transaction is applied; `SettledIsTerminal` |
| `bids` | 600 thousand | 1 carrier, 2 handlers and 1 bid request at a time, 2 bids, 5 requests, failures anywhere | `NoStatusSkipped`, `ReleasedAfterPickup`, `AnnouncedIsRecorded`: what overlap and failure cannot break; `OffersHold`: what the pages offer by the row as it is, the handlers take |
| `bids_one_by_one` | 20 thousand | 3 carriers, 3 bids, 8 requests one at a time, fairness | `FollowsLifecycle`, `WinnerTakesAll`, `HistoryIsTrail`, `ChangesAnnounced`; `NobodyStuck`: until it is finished, the pages offer somebody a next step that is taken |
| `sessions` | 1040 thousand | 2 calls at a time, 3 in all, one password | `UsedLinkIsDead`, `NotBroughtBack`, `JoinedWorkGoesOn`, `KeptUnlessLapsed` |
| `deliveries` | 101 thousand | 2 hooks, 3 attempts, 2 events, 6 signals, one restart, one reconnection, a list of 2, fairness | `AcknowledgedOrTried`, `EachPartyIsWritten`, `HeardOnce`, `UnreadCounted`, `EventsAreSettled` |
| `records` | 1832 thousand | 3 callers of the payment rows over 2 shipments (symmetric), 2 callers of the others; 3 users, one an admin; 2 addresses, certifications or documents; 3 reviews; 2 audit entries; 9 texts, exports of 2 rows; walks over 4 rows, tables of 2, one row to a page | `CallersAgree`, `RecordsConsistent`, `ReportsHold`, `WalksShowAll`, `ScreenSettles` |
| `contracts` | 243 thousand | 3 accounts, 2 shipments, 2 ratings with scores 0, 2, 5, 6, 2 reports, 3 documents, 2 hashes | `FollowsLifecycle`, `ListsMatchRecords`, `RatingsAddUp`, `BestRatingNeverHurts`, `IntegrityIsKept` |

`RecordsConsistent` has one part per service: `Dense` (payment ids), `OneDefault` (addresses; of users who are `orderly`), `OneRowEach` (reviews and
preferences), `VerificationsLogged` (certifications; after a failure half way it claims nothing) and `RowsHaveFiles` (documents,
likewise); `ReportsHold` has `ReportHangsTogether` (statistics) and `ExportReadsBack` (exports; but for texts with a carriage return nothing else has quoted).

Why the bounds are enough. Races of this code need two requests on one row; a third request at the same
point repeats one of them. Two transactions are a submission in doubt and its retry (or the XDRs of two
shipments, which is what it takes to hand in the wrong one), three a deposit and two
attempts to settle it (or two funding attempts and a settlement). Two shipments are what it takes to pay one out of another's
deposit; a shipper who owns two tokens at price one can be overcharged if the code allows it. Five
requests are the shortest completed shipment, eight leave room for bids, an edit and a dispute on the way; three bids are a winner, one that came before and one
that came after. Three calls of one account are a refresh, what revokes its session, and another device. Three attempts are
the code's; two hooks show that one does not hold up the other. A list of two entries overflows, as the code's twenty do, with two events
of which one goes to both parties. A walk over four rows of one-row pages has room for two rows that leave. Two ratings let a second
one move an average, and the scores are one below the accepted range, one inside it, its best and one above. Three accounts take each
role in turn, so shipper, carrier and admin can be different or the same. Where a theorem of section 5
covers a property, the bound no longer matters.

Deadlock is checked in `escrow`, `escrow_double_funding` and `records`, which can always go on; in the others a behaviour ends where a bound ends
it, or when the shipment is finished, so it is off.

Fairness. `RequestsProceed` (`Funding`) and the fairness of `OneByOneSpec` (`Bids`) say that a handler which has started keeps
taking steps: the event loop runs every continuation, database and RPC awaits settle (an error is a step as well),
and `pollForConfirmation` ends after two seconds. `WF_vars(Deliver)` says the same of the timers and promises of
webhooks and mails: each post has a time limit. None assumes that clients call, that the ledger
closes, that a hook answers, or that a submission succeeds. `ClaimEnds` and `ChangesAnnounced` are stated without a restart and
`ClaimEnds` also without a failure of the very update that gives the claim back: the code has no recovery for these, and a row
then stays FUNDING, a change unannounced. `EventsAreSettled` is stated with a restart, which forgets what was left to do.

`OneByOneSpec` starts a request when the one before has ended. Overlapping requests break what it claims (section 4), and
`bids` shows what remains true of them.

`CarefulSpec` (`Settlement`) restricts people, not the code: administrators settle a deposit only while its row is
FUNDED, RELEASED or REFUNDED (`Careful`), and a shipper hands in an XDR that was built for the shipment (`OwnXdr`). `adminReleaseEscrow` itself looks at no status, and `submitFunding` at no XDR: a row that was
funded by the XDR of another shipment has no deposit to agree with, and one is still open to be made. Without this, an
admin who settles while a funding request is in doubt (the row is FUNDING, the deposit has arrived) gets the row RELEASED, and
the request then writes FUNDED or PENDING over it (`payments.service.ts`, lines 340 and 354), against the comment on
`NON_FUNDABLE_STATUSES`; TLC finds this in 13 states for `SettledIsTerminal` when the conjunct is left out, and for `AgreesOnceApplied` a
second deposit of the same shipment.

What sessions, pages and deliveries do not promise, although a reader might expect it, is part of what the properties say:

- `NotBroughtBack` allows a refresh that overlaps a logout or a password change to store a session after it, and `UsedLinkIsDead`
  allows a reset that failed half way to be repeated with its link.
- `OneDefault` heals rather than holds: two requests of one user that overlap can leave two defaults, until his next request that sets one
  with no other under way. A failure between the statements leaves him none.
- `ScreenSettles` asks the user to wait for one answer before the next click, and the last load not to have failed, except on the pages with `useQuery`:
  the others keep the rows of the view before under the filter now selected.
- `ReportHangsTogether` allows a report to call more shipments completed than its revenue has, if a stale save took them back in between, and
  `ExportReadsBack` leaves out texts whose carriage return is not quoted: a reader that takes it for a line end finds their row cut in two.
- `HeardOnce` allows two entries of one event to a user who is both its shipper and its carrier.
- `WalksShowAll` allows the infinite list to miss a row for each row that left, and the cursor the rows of one millisecond.
- `AcknowledgedOrTried` does not promise order or a single post: a hook that answers late is posted to again.

## 4. Disagreements

Two have a run of their own (`findings` in `PROJECT.json`): double funding of a disputed escrow, and two submissions in flight after
a wallet change. Others, met on the way:

Money and shipments

- Overlapping status handlers save stale entities, so a row can go from CANCELLED back to IN_TRANSIT. What remains true is
  `NoStatusSkipped` and `ReleasedAfterPickup`, which are proved. Two carriers who accept at once are both told they have the shipment,
  and an edit that overlaps an acceptance can put PENDING back.
- Two overlapping `acceptBid` calls leave two accepted bids, though `bids.controller.ts:65` says "assigns carrier, rejects
  others"; overlapping `submitBid` calls insert two pending bids of one carrier. An `acceptBid` that fails after its first statement leaves
  an accepted bid on a shipment without a carrier.
- A deposit whose funding answer was lost leaves the row PENDING; a retry is rejected by the contract for as long as the
  deposit is Funded. If a party has disputed it meanwhile, the retry charges a second time (`escrow_double_funding` shows the contract's part).
- A confirmed delivery releases the escrow and leaves the row FUNDED; `reconcileEscrow` reports the mismatch for ever.
- Two admin settlements in quick succession: the row names the one recorded last, though the ledger may have applied the
  other; `AgreesOnceApplied` is conditional on the transaction the row names.
- An admin may confirm a DISPUTED shipment: the table allows COMPLETED, and the history then says it left DELIVERED;
  `resolveDispute` records a fixed status as well.
- Two shipments that race for one on-chain id: the loser is told its payment already exists, which it does not.
- `submitFunding` submits any XDR, also one built for another shipment, for one cancelled since or for a wallet a party has left. The row then says
  FUNDED and names that transaction, while the shipment's own escrow may hold nothing; `FundedNamesTransaction` claims no more than that
  the transaction reached the network. An XDR no one built with the backend is not modelled.
- The document contract says "Once verified the record is immutable." (`contracts/document/src/lib.rs:143`); an `initialize`
  after registrations resets the counter, and a later registration overwrites a verified record. `IntegrityIsKept` takes
  `initialize` first. The shipment contract's `initialize` resets its counter in the same way (`lib.rs:78`).
- The score formula in the header of the reputation contract is not the one the code computes; the model has the code's.
- The shipment page offers a dispute to the shipper in IN_TRANSIT and to the carrier in DELIVERED, and Accept Job to shippers; the
  service refuses these (`InVain`).

Accounts and events

- bcrypt looks at 72 bytes of a refresh token, so any refresh token of an account passes for the one stored, rotated ones included.
- A profile page whose answer comes after a logout shows the user again. Saving a profile undoes a deactivation, a role change or
  a verification made between its read and its write.
- Notification preferences promise choices that nothing reads: `isEnabled` is never asked. A switch made while another is saved is
  lost (`notification-preferences.service.ts:28`).
- An administrator who creates a shipment and accepts it himself is notified of each event twice (`notifications.gateway.ts:147`).
- A socket that was refused with a stale token keeps that token on every reconnection (`useShipmentSocket.ts:44`).

Records and pages

- Inactive users are counted as total minus active, from two queries, and can be negative. The statistics page expects
  `dailyShipments`, `topCarriers` and `topShippers`, which `getAnalytics` does not return, and shows the revenue of all time as "Monthly Revenue".
- A carriage return inside a CSV value is not a reason to quote it (`shipments.service.ts:895`). `pipe` passes no error on: a query that breaks leaves the response
  without an end, and an unhandled `error` event. The client's CSV export expects a Blob, `apiClient` parses JSON.
- `buildQuery` (`shipment.api.ts:11`) drops `cargoCategory`, `minPrice` and `maxPrice`.
- Resolving the last dispute of the second page leaves the page on a page that no longer exists.
- `AdminAuditInterceptor` does not wait for its log, and a failure of it is an unhandled rejection.
- `DocumentUploadModal` sends `files` and `entityId` where the API reads `file` and `shipmentId`; `DisputeForm` posts a multipart
  form where the API has a PATCH with JSON.
- `shipments.service.ts` and its controller hold two merged versions of `batchCreate` (lines 236 to 252) and do not parse there.

## 5. Proofs

Proved by TLAPS for every value of the constants. A theorem whose second column names a property of section 3 states that very
property; the runs show it on small instances.

| Theorem | Says | Argument |
|---|---|---|
| `EscrowProofs!TypeCorrect` | `TypeOK` | inductive as it stands; a pay-out needs `vault >= amount`, which the token enforces |
| `EscrowProofs!OverpaymentFree` | `NeverOverpaid` | with `TypeOK`, an identity per id that each action keeps: in = held + abandoned |
| `EscrowProofs!AlwaysSolvent` | `Solvent` | `VaultIsNetIn`: the balance is the sum of what came in and has not gone out for each shipment, of which a live record is a part |
| `EscrowProofs!SettlementFinal` | `SettledIsFinal` | every action but `FundEscrow` needs Funded or Disputed |
| `EscrowProofs!PaymentsToParty` | `PaysItsParty` | the three actions that pay leave every other record and balance alone |
| `EscrowProofs!ImplementsPromise` | `PromiseKept` | each action maps to `Take`, `PayOn`, `GiveBack` or a stutter |
| `SettlementProofs!RequestTypes` | rows and requests are well typed, a request past its claim has a row | `Typed` |
| `SettlementProofs!ClaimExcludes`, `FundedStays` | `SingleFlight`, `FundedIsFinal`, if all carriers share one wallet and all shippers one (`OneWallet`) | `ClaimIsLock`: a request in flight keeps its row FUNDING and no save of a stale entity is under way; `SingleFlight` alone is not inductive, since `Claim` looks at the row and not at other requests. The wallet hypothesis is needed: see `funding_two_in_flight` |
| `SettlementProofs!FundedIsNamed` | `FundedNamesTransaction`, with `OneWallet` | `HashesSound`: every request past its submission knows a transaction that has reached the network; `TxKept`: a transaction keeps its call and never comes back from the network |
| `SettlementProofs!PaysOnce` | `ChargedOnce`, whatever the wallets do | the steps of `Funding` are few for the network (`NetworkStep`), and `Charged`: the contract has nothing for a shipment, or a Funded record paid for once |
| `SettlementProofs!ClaimsAreHeld` | what `ClaimEnds` rests on, with reliable updates, whatever the wallets do: a FUNDING row has a request at work on it (`ClaimIsHeld`), and that request only moves forward (`ClaimAdvances`) | `Stage` numbers the awaits of a request; an entity that still says PENDING after a claim is about to be written |
| `SettlementProofs!SettledDidReach` | `SettledReached`, with `OneWallet` | `Sound`: what a request, a row or the audit log says of a transaction is true of it and stays so (`Knows`, `SaysTrue`, `AuditTrue`) |
| `SettlementProofs!SettledStays` | `SettledIsTerminal`, with careful administrators and shippers and `OneWallet` | `Locked`: a claimed row has one request, and a row being settled is past all funding |
| `SettlementProofs!ReconciliationAgrees` | `AgreesOnceApplied`, likewise | `Net`: a deposit in the escrow has no second one on its way, as the account's sequence number allows one transaction at a time; `Closed`: once a settlement follows, no deposit of the shipment waits |
| `ShipmentsProofs!NothingSkipped`, `NoEarlyRelease` and the same `WithBids` | `NoStatusSkipped`, `ReleasedAfterPickup` for any overlap and failure | whatever a stale entity holds, its status follows one the row has had (`EntitySound`); bids add only one way to be accepted (`BidsSound`) |
| `ShipmentsProofs!EventsRecorded` | `AnnouncedIsRecorded` | `Counted`: announcements made and still to be made of a status are no more than the entries that record it |
| `ShipmentsProofs!CarrierKnown`, `ImplementsLifecycle`, `BidsImplementLifecycle` | `CarrierUnderWay`; `FollowsLifecycle` with one request at a time: failures included without bids, and none with them | `Current`, `Fresh`: no entity is stale, and a save stores it |
| `ShipmentsProofs!WinnerIsCarrier`, `HistoryLeadsHere` | `WinnerTakesAll`, `HistoryIsTrail`, one request at a time and none failing half way | `BidsFollow`: between its first and its last write an acceptance finds the shipment open; `Trail`: the history leads to the status, or to the entry about to be made |
| `ShipmentsProofs!OffersAreTaken` | `OffersHold`, for any overlap and failure | `RolesFit`: whoever carries the shipment has once passed the route guard of a carrier, its owner that of a shipper, and no handler's save can change that |
| `ShipmentsProofs!NobodyIsStuck` | `NobodyStuck`, likewise, if some user is an administrator | with `CarrierUnderWay`, each status has a party with a button that works; a dispute needs the administrator |
| `ShipmentsProofs!NothingUnannounced` | `AnnouncedAtRest`, what `ChangesAnnounced` rests on: between requests, made one at a time, every status the shipment has had was announced, also when a release failed; the acceptance of a bid is not | `AllHeard`: what is not announced yet, the request under way is about to announce |
| `ContractsProofs!TypeCorrect`, `CarrierKnown`, `ImplementsLifecycle`, `ShipmentsBeside` | `TypeOK`, `CarrierUnderWay`, `FollowsLifecycle`, alone and beside the other contracts | `Numbering`: exactly the ids up to the counter have a record, so posting never overwrites one |
| `ContractsProofs!ListsAreTrue` | `ListsMatchRecords` | a new shipment has no carrier and its id no record, so an appended entry is new to its list, and every other call leaves shippers and carriers alone |
| `ContractsProofs!ProvableForEver` | `IntegrityIsKept` | `NoneBeyond`: no record lies beyond the counter; `Deployed`: the counter goes back to 0 only while it is 0 |
| `ContractsProofs!ProfilesAddUp` | `RatingsAddUp` | a profile's count and sum move with the ratings that name the account |
| `ContractsProofs!FiveStarsNeverHurt` | `BestRatingNeverHurts` | an average is at most 500 and each of the three roundings is monotone |
| `SessionsProofs!SessionsInvariant` | `Inv`: `Shape`, `InFlight`, `Witnessed`, `LinksSpent` | the map of refreshes names exactly the calls at work on one; a call has seen what the refresh it joined has seen; a link past its use is not in the row |
| `SessionsProofs!JoinedIsAnswered`, `UsedLinkStaysDead`, `SessionNotBroughtBack`, `KeptOrLapsed` | `JoinedWorkGoesOn`, `UsedLinkIsDead`, `NotBroughtBack`, `KeptUnlessLapsed` | from the four parts of `Inv` |
| `DeliveriesProofs!DeliveriesInvariant` | `HooksInv`, `MailsInv`, `SocketInv` | one loop per hook and event, letters tried and left in order, what is on the wire is newer than the list |
| `DeliveriesProofs!HooksAreTried`, `EveryPartyIsWritten`, `NothingHeardTwice`, `BellCounts` | `AcknowledgedOrTried`, `EachPartyIsWritten`, `HeardOnce`, `UnreadCounted` | from its three parts |
| `DeliveriesProofs!NothingIsAddedLater` | `WorkRunsOut`, what `EventsAreSettled` rests on: once the last event is out, each step of the hooks' and mails' work leaves less of it | `Place`: a task goes on to a later attempt or ends, and nothing but an event adds one |
| `RecordsProofs!IdsDense`, `AgreementOfCallers`, `AgreementBeside` | `Dense`; `CallersAgree`, and every caller is served the stored row | `NumbersFollow`: the predecessor of a number read earlier is still there, rows being never deleted |
| `RecordsProofs!TablesStayConsistent` | `RecordsConsistent` | `TablesInv`: one invariant per service, of its table and of what each caller is about to write; of addresses, that an orderly user has one request at a time and no second default while it is going to save one |
| `RecordsProofs!TablesComeToRest` | `ScreenSettles` | `OneThing`, `Fresh`: while the user waits and no load has failed, what is under way is what he selected, and what is remembered as valid knows his changes |
| `RecordsProofs!WalksAlwaysShowAll` | `WalksShowAll` | `InfiniteWalk`: of the rows not shown, those that lie in the pages already read (`Slipped`) are at most as many as have left the list; `UnderWay`: after a failed page the infinite list asks for none; `CursorWalk`: what a cursor has not shown is of an earlier millisecond than all it has, or of the same one as a newer row it has shown |
| `RecordsProofs!ReportsAlwaysHold` | `ReportsHold` | statistics: what a later query counts contains what an earlier one counted, with what stale saves took back (`Ever`) or thirty days left out; exports: the reader after a row's characters is the reader before it with the row added (`Whole`, `Streamed`) |

The assumptions are the named ASSUMEs of the modules (TLC evaluates them in the runs) and, where the statement
says so, `OneWallet`, `OneByOne`, or the specification `CarefulSpec` or `OneByOneSpec`. Four of the ASSUMEs came with the proofs: `IdsAssumption`
(shipment ids are finitely many), `RatingsAssumption` (`MaxRatings` is a number), `NamesAssumption` (accounts and shipments are
finitely many) and `TextsAssumption` (texts are sequences of characters).

`SumTheorems` has what the sums need: what adding or changing a member does to one, and that classes add up. The models sum
with the folds of the community modules, which are recursive functions, and the library's induction theorems take an operator,
which the provers cannot instantiate. So induction is derived for *sets* of numbers, of subsets and of sequences (`NatInductive` by the pigeonhole
principle, `SubsetsInductive` and `SequencesInductive` from it), and each fold is unfolded by showing that a function
with its equations exists and that only one does.

Only model-checked:

- liveness under fairness (`ClaimEnds`, `ChangesAnnounced`, `EventsAreSettled`), which is outside the prover's reach. What each rests on is
  proved: `ClaimsAreHeld`, `NothingUnannounced` and `NothingIsAddedLater` say that nobody is left waiting without someone at
  work, and that this work only gets less. That the work is then done is the fairness, which TLC checks.

## 6. Not modelled

- `batchCreate`: the commit holds two merged versions, and which one is meant is undecided.
- Services no module provides, so that nothing in the program can call them: cancellation fees (which would cancel an
  IN_TRANSIT shipment, against the table), ETA, dispute evidence, shipment templates, two-factor codes.
- `raiseDispute` and `resolveDispute` of the Stellar service, which have no caller in the backend; reads and start-up checks.
- `remove` and `findAll` of the users service, which have no caller.
- Guards, throttling and validation: roles are parameters and guards of the actions they protect; rate limits are left
  out, so the models allow more calls than the program.
- Migrations, wiring, configuration; texts of mails; carrier metrics and earnings (one query and arithmetic); forms; public
  pages, dashboards and layout, which show one answer; the sketches in TypeScript under `contracts/`, which nothing imports.
- Hazards with no property, because the code has no step that would handle them and what happens is plain (section 4 names most): a restart that leaves a
  row FUNDING, the loser of the race for an on-chain id, a switch of the preferences lost to another, a second pending bid, a page that is not reloaded
  after an action was refused.
