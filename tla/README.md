# Formal model of the paint shop back office

TLA+ models of the backend of El Club de la Pintura: an Express and Prisma
application over PostgreSQL that runs the points of sale of a chain of paint
shops. The models cover the parts where requests overlap, get retried, fail half
way, or leave books that several handlers write: the idempotency of operations,
sales and their money, the shift of a cash drawer, operations made offline, what
the staff owes, who stands at a till, stock and its catalogue, and commissions.

Paths below are relative to the repository; every definition that stands for
code is tied to its lines in `PROJECT.json`, under `map`.

## 1. The system

All state lives in PostgreSQL. A handler is a sequence of statements, some of
them inside one interactive transaction at READ COMMITTED; nothing else
serialises requests but row locks, conditional updates and unique indexes. So
the unit of interleaving is the statement outside a transaction, and inside one
the points where it reads committed data, waits for a row lock, and commits.

| Component | State | Operations | What makes it correct |
|---|---|---|---|
| Idempotency (`utils/idempotency.utils.ts`) | `IdempotencyRecord`: fingerprint, scope, status, owner (`attemptId`), lease | `claim`, `withIdempotency` | an operation runs at most once per key; a client is told "registered" only of its own, committed operation; no key stays stuck |
| Sales (`modules/sale`) | `Sale`, `SaleItem`, `Payment`, `Stock`, `RefundSettlement` | `createSale`, `cancelSale` | stock equals its movements and is never negative; credit limit; one cancellation |
| Account payments (`modules/payment`) | `Sale.balance`, `Payment` | `registerAccountPayment` | no more is collected than the sale is worth; status agrees with balance |
| Returns (`modules/return`, `utils/refund.utils.ts`) | `Return`, `RefundSettlement` | `createReturn`, `planRefundSettlements` | goods and money agree; a drawer never pays out cash it lacks |
| Internal receipts (`modules/internal-receipt`) | `InternalReceipt`, unique number | `createInternalReceipt` | one refund, cancellation or closing receipt per cause |
| Cash register (`modules/cash-register`) | `CashRegister`, `CashMovement` | `openShift`, `registerCashMovement`, `closeShift` | one open shift per terminal; one settlement per shift; the stored balance is what the rows say |
| Expenses (`modules/expense`) | `Expense`, `CashRegister.expectedBalance` | `registerExpense`, `voidExpense`, `runRecurring` | never more cash than the drawer holds; a closed shift keeps its balance |
| Offline sync (`modules/sync`, `utils/offlineLease.utils.ts`) | `SyncOperation`, `Terminal.lastOfflineSequence`, the queue of the device | `pushSyncOperations`, `confirmAttribution` | what the device deletes was applied; every queued operation is answered; a first attempt is not taken for a replay (while the device pushes its oldest operations first) |
| Staff accounts (`modules/staff`, `utils/staffLedger.utils.ts`) | `StaffLedgerEntry` (append-only), `LegacySaleTransfer`, `StaffAccountLegacyLink` | consumption, payment, adjustment; proposal, confirmation and reversal of the transfer of a customer's debt | a debt is moved whole, to one person, and is owed by nobody else meanwhile |
| Users and branches (`modules/user`, `modules/branch`) | `User`, `Branch`, the session cookie | onboard, modify, terminate, delete | somebody can always administrate (while changes of users do not cross) |
| Terminals (`modules/terminal`) | `Terminal`, `TerminalEnrollment`, the device cookie | create, update, issue a code, enrol, revoke | a till is one computer |
| Operator sessions and PIN (`modules/pos-auth`) | `PosOperatorSession`, `PosPinCredential`, `PosPinActivation` | open, resume, close; set, disable, reset, activate | one operator per till; a closed tab stays closed |
| Stock (`modules/stock`, `utils/stock.utils.ts`) | `Stock`, `Movement` | update, transfer, thresholds | stock is never negative and is what its movements say |
| Purchases (`modules/purchase`) | `PurchaseOrder`, `PurchaseReceipt` | create, receive | an order comes in once |
| Catalogue (`modules/product`, `modules/supplier`) | `Product`, `Supplier`, `BulkPriceJob` | create, update, delete, import, bulk prices | a product costs what was last said of it, whatever is saved meanwhile; a job's row tells no lie about the rows it counts |
| Incentives (`modules/incentive`) | `IncentivePeriod`, `IncentiveLedgerEntry`, `IncentiveSettlement` | calculate, transition (approve, lock, pay) | no money is commissioned twice; a locked period does not change |
| Payroll (`modules/payroll`) | `Employee`, `PayrollRecord` | create employee, create record, mark as paid | a receipt says what was posted in it |
| Attribution, prices, reports, AFIP stub, HTTP shell | none of their own | | |

How they interact. Sales, payments, returns, cancellations and expenses all post
to the open shift of a register, and `closeShift` reads what they posted.
`createSale`, staff payments and internal consumption run inside
`withIdempotency`. `pushSyncOperations` replays sales, expenses, stock
adjustments, account payments and new customers, and the rows it leaves unsettled
block `closeShift`. Cancellations, refunds and closings depend on the unique
number of an internal receipt to exclude each other. Payments, returns and
cancellations of a sale must respect what of it was transferred to the staff
ledger. Sales, receptions, transfers, product forms and replays all write `Stock`.
Revoking a terminal ends the permits of its offline operations and everything
its till may do. Commissions read the sales and what was collected of them, and
write the payroll receipts.

Where it is hard:

- retries racing each other, a dead process or a late failure note on the same
  key; a COMMIT that took place but whose answer never came;
- decisions taken on a balance, a status, a version or a sum read before another
  transaction commits;
- statements that belong together and are in no transaction (opening a shift,
  cash movements, everything `pushSyncOperations` does around a replay, the
  enrolment of a device, the count before a demotion, the prices of a list and
  the counters of its job);
- transactions that take the same stock rows in opposite orders;
- books that several handlers keep (the accumulators of a sale and the cycles and
  entries of its transfer; a settlement and the ledger it came from);
- long legal sequences: returning, then cancelling; withdrawing, then spending;
  closing a shift, then voiding one of its expenses; transferring a debt, returning
  part, reversing and transferring again; recalculating periods in any order;
- operations delivered twice, late, out of order, or by a device that was
  revoked in the meantime.

`PROJECT.json` lists each hazard at the line where it bites, with the properties
that cover it or the reason none does.

## 2. Modules

| Module | Role |
|---|---|
| `ExactlyOnce` | what an idempotency key promises to the callers, without its machinery |
| `Idempotency` | `claim` and `withIdempotency`, statement by statement; refines `ExactlyOnce` |
| `Sales` | sale, account payment, return, cancellation, with stock, drawer cash and receipts |
| `CashShift` | opening, movements, expenses, cash posted by others, closing |
| `OfflineSync` | the push of a queue of offline operations |
| `DebtBook` | what the books of the shop promise about money owed |
| `StaffLedger` | the staff ledger and the transfer of the debts of a legacy customer |
| `StaffBooks` | the refinement mapping from `StaffLedger` to `DebtBook` |
| `Workforce` | users, branches and the session cookie |
| `Terminals` | enrolment codes, device cookies and revocation, over `Workforce` |
| `Operators` | PINs, operator sessions and settings, over `Terminals`; the specification of the three |
| `Catalog` | products, suppliers, costs and the bulk price job |
| `Inventory` | stock and purchases, over `Catalog`; the specification of the two |
| `Incentives` | sales as commissions see them, periods, settlements and payroll receipts |
| `IdempotencyProofs`, `SalesProofs`, `StaffLedgerProofs`, `InventoryProofs`, `IncentivesProofs` | theorems about the module of that name |
| `BranchProofs`, `PointOfSaleProofs` | theorems about `CashShift` and `OfflineSync`, and about `Operators` |
| `Sums` | lemmas about sums over finite sets, which the books are made of |
| `MC*` | small instances for TLC |

Some operators are introduced by a comment "Seeded fault": each is a plausible
slip in the operator next to it (a dropped guard, a where clause without a
column, a missing reset). Nothing uses them in the specifications; `PROJECT.json`
names, for every property, the one whose substitution must violate it, which
shows that the property depends on the code.

Three conventions recur. A handler that reads, decides and writes is a read
action (`...Read`, with the decision) and a write action (`...Commit`,
`...Write`), with what it remembers in between in `job`, `tx`, `serving` or
`enrolling`. `Overlapping` is a constant that names the operations (in
`Inventory`, the pairs of operations) that may be under way together. `Scenes` is a constant that
names parts of a module explored in turn: one is chosen in the initial state and
decides which actions are in use.

### Idempotency

An *attempt* is one HTTP request being served, with its own `randomUUID`.
`pc[a]` is the statement it stands at; `record` is the table.

| Code | Actions |
|---|---|
| INSERT of the row in `claim` | `ClaimNew`, `InsertRejected` |
| `findUnique` and the checks after it | `LookupConflict`, `LookupReplay`, `LookupStale` |
| `updateMany` on the owner and status seen | `TakeOver`, `TakeOverLost` |
| business transaction, ended by the conditional close of the row | `Commit`, `AbortDuplicate`, `AbortOwnershipLost`, `AbortOther` |
| answer of the COMMIT | `Acknowledged`, `AckLost` |
| catch block | `NoteFailure`, `NoteFailureSwallowed` |
| process, clock, table | `Crash`, `LeaseExpires`, `RecordVanishes` |

The business transaction is one action. Its own reads and writes are the subject
of the other modules; for the key only its end matters, because its last
statement updates the record under a row lock and aborts everything if it no
longer owns it. The three switches `UniqueEffect`, `AckMayBeLost` and
`RecordsVanish` separate the operations that also save the key in a UNIQUE
column (sales) from those that do not (staff payments, internal consumption),
and the failures that matter only to the latter.

### Sales

One product at unit price 1, so a quantity is also an amount; prices, discounts
and change are data. A handler is cut where another can come in between:

| Code | Actions |
|---|---|
| `createSale` | `CreateRead`, `CreditGranted` or `CreditRefused` (under FOR UPDATE on the customer), `CreateCommit` or `CreateNoStock` |
| `registerAccountPayment` | `PayRead`, `PayCommit` (writes the balance computed from the one read) |
| `createReturn` | `ReturnRead`, `ReturnLock` or `ReturnNoCash` (the stock row is locked before the cash is counted), `ReturnCommit` or `ReturnClash` |
| `cancelSale` | `CancelRead`, `CancelCommit` or `CancelClash` |
| shifts | `OpenShift`, `CloseShift` |

`receipts` holds the unique receipt numbers, built as the code builds them: a
refund from the register and the id of the return, a cancellation from the
register and the id of the sale. A cancellation of a sale that collected money is
numbered as a refund, so the two can clash; the ids of returns come from a
sequence and are spent even when the transaction rolls back.

### CashShift

A shift keeps the sums of its rows. `Available` is `calculateAvailableCash` (no
cash movements), `Expected` is the summary used by withdrawals and by the
closing; they differ in the code and in the model. Each handler is a read with
its decision (`OpenRead`, `MoveRead`, `CloseRead`, `ExpenseRead`, `VoidRead`,
`SaleRead`, `RefundRead`) and a commit; `ClosePreflight` is the query for pending
synchronisations between the two. The detail of sales and refunds is in `Sales`;
here they move `sold`.

### OfflineSync

`pushSyncOperations` opens no transaction around an operation, and each of its
statements is an action: `CheckSettled`/`CheckNew` (`findUnique`), `Decide`
(`decideAcceptance` on the terminal as read), `MarkRejected`/`MarkProcessing`,
`Replay`/`ReplayRefused` (a transaction of its own), `Accept`, `Advance` (the
barrier), `Catch`/`CatchSwallowed`, `Respond`/`ResponseLost`. The device, its
queue and its retries are external: `Push` sends a batch of the queue, in order
(`Batches`). `Throws` is any statement of the try block failing, the `findUnique`
included: its catch block writes REJECTED over whatever the row says. `disturbed`
and `inTurn` are history variables that guard no action: the first remembers whether
something failed or two pushes overlapped, the second whether pushes came one at a
time with the oldest operations first (`OldestFirst`) and every rejection was noted.

### StaffLedger

One legacy `INTERNAL` customer whose credit sales may be moved to a person's
account, at one unit price, so that a sale of *n* units is a debt of *n*.

| Code | Actions |
|---|---|
| `createInternalConsumption` | `ConsumePersonal`, `ConsumeCompany`, with the price policies (`InternalPrice`) and the capabilities of each role (`Can`, `MayConsume`) |
| `createStaffPayment`, `createStaffAdjustment` | `StaffPayment`, `StaffAdjustment` |
| `proposeLegacyLink` | `Propose` |
| `confirmLegacyTransfer` | `ConfirmRead`, `ConfirmCommit` (UNIQUE columns and reconciliation inside the transaction) or `ConfirmAbort` |
| `reverseLegacyTransfer` | `ReverseTransfer` |
| payment, return and cancellation of a transferred sale | `Collect`, `Return` (`planReturnAllocation`, `acreditarDevolucionEnLibro`), `Cancel` |
| closing of the shift | `CloseDrawer` |

`DebtBook` says what all this is for: every operation charges or settles one
debtor (`Book`), moves a debt whole from one to another (`Move`), or settles what
two owe (`Settle`: a return of more than was transferred). `StaffBooks` maps the
ledger and the sales to it, the legacy customer standing for nobody on the staff.

### Workforce, Terminals, Operators

`Workforce` keeps users with their role and branches, and the session cookie of
each browser with the role as it was when the cookie was signed (`Token`): a
demotion does not reach it. `modifyEmployeeProfile` is `ModifyRead` (the look-up),
`ModifyCount` (`countAdmins` and its 409, only where an administrator loses the
role) and `ModifyWrite`; `terminateEmployee` is `TerminateRead` and `TerminateWrite`;
`ChangeFails` is either write refused by the database. `change` holds the requests
under way. `raced` is a history variable: a change was written when the
administrators were not those its request had read. `LogIn`, `LogOut`,
`OnboardEmployee`, `DeleteUsersByRole`, `DeleteAllOperational`, `CreateBranch`,
`DeleteBranch`, `DeleteAllBranches` are one handler and one step each; what rows
refer to a user, and so keep it, comes from the modules above (`Referred`, `Busy`).

`Terminals` cuts the redemption of a code and the revocation where the code does:
`EnrollRead`/`EnrollWrite` and `RevokeRead`/`RevokeWrite` read the version of the
terminal and write `version + 1` without a condition. `CreateTerminal`,
`UpdateTerminal` and `IssueEnrollmentToken` are one step. `Proves` is
`resolveTerminalFromCookie`: the question every request of a till asks.

`Operators` has the transactions of `openOperatorSession` (`OpenRead`, `Switch`,
`OpenCommit` or `Abort`) and `resumeOperatorSession` (`ResumeRead`, `Switch`,
`ResumeCommit` or `Abort`). `Switch` is the `updateMany` that
closes or locks whoever is active, whose rows stay held until the commit (`Held`),
so that others wait for them; the partial unique index decides at the commit.
`ContextCreate` is the session `resolvePosContext` makes from the account;
`CloseCurrent` and `CloseOne` close tabs; `WrongWrite` writes the count of failures
computed from the read of `OpenRead`; `PinLogin`, `Unlock`, `SetMyPin`,
`DisableMyPin`, `ResetOtherPin`, `ActivateRead`/`ActivateSave`/`ActivateConsume` (the
PIN and the spent code are two commits) and `SetSettings` are the rest.

### Catalog, Inventory

A writer of stock is a transaction that changes rows of `Stock` one after the
other and holds each until it commits (`tx`): it is opened by `UpdateStock`,
`Transfer`, `Sell`, `Receive`, `CatalogSnapshot` or `ReplayStock`, which list its
writes, and then runs by `Write`, ends by `Commit`, or is rolled back by `Refuse`
(not enough stock) or `Victim` (the deadlock detector). A write is relative to
the row as it is now (`Add`, `Take`), a count that replaces it (`Adjust`), or a quantity
computed from an earlier read (`Put`: product forms and offline replays). `book`
is what the `Movement` rows make of each quantity, read in the order they commit.
A reception commits with the costs it restates, of any of its products (`CostStep`).

`Catalog` has products, suppliers and import rows (each commits on its own). Of the
prices it keeps the cost, and in `paid` the cost somebody last stated. `EditRead` and
`UpdateProduct` are `updateProduct` without a quantity, from its read to its write,
for as many forms at a time as there are `Forms` (`editing`); a request without a
cost writes back the one it read, and `undone` remembers the products where that
wrote over something said in between.

The job of bulk prices is cut where the code is. `StartBulk` creates its row and
answers; the worker reads the file (`ReadRow`), and when a batch is due sends its
updates together (`BeginBatch`), each a commit of its own that may be answered,
fail, or commit and lose its answer (`RowAnswered`, in any order). Then the counters
in its memory go up (`BatchDone`), and those of a full batch are written to the row
of the job (`Note`, whose failure is swallowed). `Finalize` writes DONE with all of
them; `BulkError` writes ERROR over whatever counters the row has. `WorkerDies` may
come between any two of these: the row stays as it is, the updates it had sent may
still run, and nobody takes the job up again. `worker` is what dies with the process,
`job` what outlives it, and `priced` says which rows of the file reached a product.

### Incentives

Sales of consecutive periods, collected and cancelled while periods are
calculated (`Calculate`: eligible and provisional entries, the margin of the plan,
tiers over what the person has accumulated, and what is carried over from earlier
periods), reviewed, approved into settlements (`Approve`), locked and paid
(`Pay`, which posts in the payroll receipt of the month). `CreateEmployee`,
`CreateRecord` and `MarkAsPaid` are the payroll side. Handlers are one step: each
is a transaction, and the module is about long sequences of them.

## 3. Properties and runs

| Run | Instance | What it shows |
|---|---|---|
| `idem_safety` (149 k states) | 3 attempts, 2 keys, 4 requests (the same key with other content and from another user), 2 faults | `AtMostOnce`, `EffectIsNoted`, `ToldIsTrue`, `CompletedIsFinal` hold on the record's ownership alone; `KeepsPromise`: the protocol implements `ExactlyOnce` |
| `idem_faults` (40 k) | 3 attempts, 1 key, 2 faults, lost acknowledgements, vanishing rows, fairness | a sale still runs at most once, and `ClaimedKeyCompletes`: a claimed key ends with its sale |
| `sales_serial` (1.5 M) | 1 request at a time, 2 shifts, cash and card, 2 sales of up to 2 units, 2 returns | `StockLedger`, `BooksAgree` (money, statuses, refunds and cancellations of every sale), `DrawerNeverNegative` after any sequence of operations |
| `sales_concurrent` (72 k) | 2 requests at a time creating and cancelling, 3 sales of up to 2 units, 3 units, limit 2 | `StockLedger`, `CancelledOnce`, `CreditLimitHolds`: the last units are sold once, a sale is cancelled once on one shift, two credit sales do not pass the limit together |
| `sales_refund_twice` (violated) | a return, then a cancellation | finding 1 |
| `cash_shift` (775 k) | all operations, 2 shifts of one drawer, 2 expenses, openings and closings overlapping | `OneOpenPerTerminal`, `SettledOnce`, `CloseTellsRows`, `ShortOnlyByWithdrawals` |
| `sync_push` (622 k) | 2 operations with permits, one expired, 2 pushes at a time, 1 fault, a revocation, fairness | `SettledTellsApplied`, `AcceptedIsApplied`, `RefusesNoFirstAttempt`, `EveryOperationAnswered` |
| `staff_accounts` (176 k) | 2 people, 1 sale of 4 units, payments of 2, returns of 1 or 3, 2 confirmations at a time, 4 entries | `TransferBooks`, `LedgerCarriesTransfers`; `KeepsBooks`: ledger and sales implement `DebtBook` |
| `point_of_sale` (406 k) | 2 people, 2 changes of users, 2 browsers, 1 till, 2 codes, 2 requests at a time, 2 sessions; office, devices, till with lockouts and settings, till with PINs, explored in turn | `SomeAdmin`, `OneDevice`, `OneOperator`, `EndedStaysEnded` |
| `inventory` (243 k) | 2 products, 2 branches, 2 transactions and 2 product forms at a time; stock, purchases, purchases with forms, snapshots, catalogue with forms, catalogue with bulk prices, explored in turn; fairness | `NeverBelowZero`, `MovementsTellStock`, `ReceivedOnce`, `StatedCostStays`, `JobReport`, `EveryoneGetsOut` |
| `incentives` (282 k) | 2 sellers, sales of 2 periods, plans by percentage, by tiers and by target | `CommissionedOnce`, `PaidAsAWhole`, `SettledTellsLedger`, `BonusesTellSettlements`, `LockedStays` |
| `incentives_margin` (violated) | 1 sale below the margin, 2 periods | finding 2 |

Why these bounds are enough to be interesting:

- *Idempotency.* Three attempts are the smallest number in which one attempt is
  overtaken and a third races the overtaker; slots are reused, so the number of
  requests is not bounded by the slots. Two faults let a failure note be lost
  and the process of the next attempt die. The theorems lift every bound.
- *Sales.* Two sales let a refund be paid with cash of another sale; quantities up
  to 2 give partial payments, partial returns and refunds split over debt, cash
  and card in one plan; two shifts let a cancellation pay from a register the
  sale did not use. Return lines name the same item twice. With two requests at a
  time three units and sales of up to two make the last units contended.
- *CashShift.* Two shifts on one drawer are the smallest instance in which two
  openings compete and a closed shift stays while the next one works; with amounts
  of 1 an off-by-one in a check moves a balance below 0.
- *OfflineSync.* Two operations are needed for a barrier that passes one of them,
  two pushes to overlap, one fault for a crash between any two statements.
- *StaffLedger.* Of a sale of four units two are collected, two transferred, one
  returned and then three more: the last return settles what the person and the
  customer owe at once, which no smaller sale shows. Four entries allow transfer,
  return, reversal and a second transfer; two people are one who carries the debt
  and one who does not.
- *Operators.* Two requests are two openings of one till that see the same active
  session; two codes and two browsers are two redemptions that read the same
  version; both people are administrators, so either may demote the other, one after
  the other with cookies that are out of date, or both at the same time. Two
  sessions and three versions of the secret are one change and the next.
- *Inventory.* Two rows are what two transactions need to wait for each other, in a
  transfer each way or two carts in opposite orders. Three rows in the file and a
  batch of two give one full batch (which is noted) and one partial (which is not),
  and one of the two products is listed, until it is archived, so that rows hit and
  miss. Two forms are one that states a cost beside one that writes the old one back.
- *Incentives.* Two periods are a sale and its collection in the next one, recalculated
  in either order; tiers that change at 2 split a sale of 2 collected in two parts.

Bounds that cut behaviour, by name: `MaxFaults` (crashes, failures and losses;
`Idempotency`, `OfflineSync`); `MaxSales`, `MaxQty`, `MaxReturns` (`Sales`; a
create or a return beyond the bound rolls back); `MaxAmount`, `MaxPosted` and the
finite `Shifts` and `Expenses` (`CashShift`); `MaxOps` (`OfflineSync`);
`MaxEntries`, `MaxOwn` for entries that are not of a transfer, and `MaxConsumed` for
what the company takes for its own use (`StaffLedger`);
`Changes`, the changes of users ever asked for (`Workforce`);
`MaxVersion`, `MaxSessions`, `MaxActivations`, `MaxPinAttempts` and the finite
`Codes` (`Operators`, where `MaxPinAttempts` is a setting of the program);
`Forms`, which are reused, and one bulk job (`Catalog`);
`MaxUnits`, `MaxWritten` and the finite `Orders` (`Inventory`, where `BatchSize`
is the program's); the finite `Periods` and `SaleOf` (`Incentives`). `Scenes`
leaves out interleavings of parts that share no row in the properties checked:
in `Inventory`, the catalogue and product forms with stock transactions but for
receptions; in
`Operators`, the office with the till. The theorems about both do not assume any
choice of scenes. Runs with `CHECK_DEADLOCK FALSE` are those that may really
stop: every sale cancelled or every shift closed under the bound, the queue of
the device empty, every period paid.

Some properties hold for fewer overlaps than the program allows. Where the instance
leaves overlaps out, `Overlapping` or `Handlers` say so: `sales_serial` and
`cash_shift` serialise the handlers that write what they read; in `staff_accounts`
only operations that add rows overlap a confirmation; in `point_of_sale` resumptions
run alone; in `inventory` snapshots, replays and receptions do. Where the overlap is
explored and breaks the property, the property names what it excludes, by a history
variable that guards nothing: `SettledTellsApplied` by `~disturbed`,
`RefusesNoFirstAttempt` by `inTurn` (pushes one at a time, the oldest operations
first), `SomeAdmin` by `raced` (a change written when the administrators were not
those its request had read), `StatedCostStays` by `undone` (products a form has
written an older cost back to), `JobReport` by `worker.missed` (the last note of the
progress failed). The hazards of `PROJECT.json` and section 6 say what happens in
each case.

Symmetry is used over attempts, handlers, requests, shifts, terminals and expenses,
never in a run with a liveness property. Nothing in the modules orders these
values: return ids, sale ids and offline sequence numbers, which are ordered, are
integers outside the symmetry sets.

## 4. Fairness

- `WF(Serve(a))`, `WF(Serve(h))`: Node keeps running the handler of an accepted
  request. Crashes are separate, bounded actions.
- `WF(LeaseExpires(k))`: time passes; `lockedUntil` is a timestamp.
- `SF(Send(r))`: a client that got no answer sends the request again under the same
  key. It is strong because the slots of `Attempts` may all be in use for a while;
  real attempt identities never run out.
- `SF` of `Push(h, batch)` with `batch` the whole queue: the device pushes all of its
  queue again and again while anything is in it. The device's code is not in this
  repository; this is what the header of `sync.controller.ts` expects of it.
- `SF(StockStep(r))`: the database runs every open transaction on, and grants a row
  to those who wait for it in the order in which they came. Weak fairness would
  let others take the row for ever. That two transactions waiting for each other
  get out is `Victim`, PostgreSQL's deadlock detector, under the same fairness.

No fairness is assumed of faults, revocations, manual confirmations or users, so
`EveryOperationAnswered` does not rest on any of them. Liveness is
model-checked only.

## 5. Proofs

`IdempotencyProofs`, for any sets of attempts, keys and requests and any number of
faults, from the assumptions named in `Idempotency` (`KeyAssumption`,
`NoRecordAssumption`, `SwitchAssumption`):

| Theorem | Further assumptions |
|---|---|
| `TypeCorrect` | none |
| `ToldIsTrueAlways` | rows do not vanish; `FaithfulFingerprint` |
| `AtMostOnceByOwnership`, `EffectIsNotedAlways`, `CompletedIsFinalAlways` | rows do not vanish; no lost acknowledgement |
| `AtMostOnceByUniqueColumn` | the operation stores its key in a UNIQUE column |
| `Implements` | rows do not vanish; UNIQUE column or no lost acknowledgement; `FaithfulFingerprint` |

`AtMostOnce` is not inductive: a state in which a dead attempt still owned a
closed row could run it again. `OwnershipInv` adds what excludes such states: an
attempt owns no row before it claims one (`OwnsNothingYet`); while it works, the
row it owns is open (`WorksOnOpenRow`), so neither its closing update nor its
late failure note can hit a closed row; a takeover was decided on an open row
(`SawOpenRow`); a lease implies an open row (`LeasedIsOpen`); each effect's row is
closed and owned by the attempt that committed (`EffectIsNoted`) and describes
that request (`EffectMatches`). `CompletedIsFinal` follows from it step by step.
`AnswerInv` is a second invariant, independent of ownership: an attempt past the
checks of `claim` serves what its row describes, a closed row has its effect, and
so does every attempt about to answer; `ToldIsTrue` follows where fingerprint and
scope tell requests apart. `FaithfulFingerprint` is true of `createSale`, whose
fingerprint is of the whole body; staff payments fingerprint only part of it
(`staff.controller.ts`, 554), and a hazard says what that means. The refinement
maps variables to themselves and hides rows and attempts: `Commit` is `Apply`, the
three ways of answering are `Tell`, the rest stutters.

`Sums` has what all the books need and the library does not prove: its sum over a
finite set is defined by recursion over subsets, so each fact (a sum is a number,
is the same when the terms are, changes by what one term changes, grows by what is
added) is proved by descent: of the sets for which it fails there would be a
smallest one, and taking one element from it leaves a smaller. No induction over
data is used, and `Sums` rests on no assumption.

`BranchProofs`, on the drawers, for any handlers, terminals, shifts and amounts:

| Theorem | Further assumptions |
|---|---|
| `OneOpenPerTerminalAlways`, `SettledOnceAlways` | none |
| `ShortOnlyByWithdrawalsAlways` | `TakersAlone`: no expense and no refund overlaps anything |
| `CloseTellsRowsAlways` | `CloseAlone`: only openings and closings overlap a closing |

The first two add only the shape of the rows (`ShiftInv`): the partial unique index
and the receipt number are all they rest on, and the checks made before them only
shape the message. For the third (`DrawerInv`) what is available is never negative,
and whoever is about to take cash still finds what it found. For the fourth
(`CloseInv`) a closing under way knows what the rows of its open shift say, and an
annulment knows whether the shift of its expense is closed, so that an expense
annulled late belongs to a closed shift and keeps counting.

`BranchProofs`, on the pushes, for any queue, any number of pushes at a time and any
number of crashes, failing statements and lost answers: `AcceptedIsAppliedAlways`,
`SettledTellsAppliedAlways` and `RefusesNoFirstAttemptAlways`. None is inductive:
`Accept` and `Advance` act on what a job remembers. `JobsInv` says what a job knows
at each statement (past the replay, its operation has been applied; so has whatever
it will answer as accepted), `RowsInv` adds that an ACCEPTED row was applied. For
the second, `OrderInv` says that in a run nothing has disturbed there is one push and
an operation has been applied once, if its row is ACCEPTED or the push stands just
after its replay, and never otherwise. For the third, `TurnInv` says that while
pushes come in turn whatever the barrier has passed, or the device has stopped sending,
is settled: a batch leaves nothing older behind in the queue and is served in order, so
whatever is about to be decided lies beyond the barrier.

`StaffLedgerProofs`, for any people, sales and number of confirmations at a time:

| Theorem | Further assumptions |
|---|---|
| `BooksClose` (`TransferBooks`) | none |
| `LedgerCarriesTransfersAlways` | `ProposeAlone`: no proposal overlaps a confirmation |
| `LedgerImplementsBooks` (`KeepsBooks`, the refinement of `DebtBook`) | none |

The first is inductive with the shapes of the rows. It needs nothing about
confirmations under way but the shape of what they read: the checks of the live
cycle and of the balance are made in the transaction that commits, on the rows as
they are. The second (`CarriesInv`) rests on the key of the round: rounds are
counted on the account the link names while their keys leave the account out, so
after the first transfer nobody else can ever receive one, all openings are on one
account, and that is the one the link names whenever anything is transferred. The
third (`BooksInv`) maps each operation to a step of `DebtBook`: a commit that read
something else writes nothing, since it compares both ends once they are written,
and a sale that is not on account owes nothing.

`PointOfSaleProofs`: `SomeAdminAlways` (any people and branches, any number of changes
under way, cookies as old as may be), `OneDeviceAlways` and `OneOperatorAlways` (any number of requests under
way, whatever overlaps), and `EndedStaysEndedAlways` under `ResumeAlone` (nothing
overlaps a resumption). For `SomeAdmin` (`OfficeInv`) a change about to be written
either takes the role from nobody, or from one administrator while its request knew
of another (`Sound`); so it leaves one if the administrators are still those it
read, and otherwise it sets `raced`. `OneOperator` is inductive with the shapes of the jobs
under way (`TillInv`): the commit is refused by the index unless whoever is active
is among the rows it closes. `OneDevice` needs two facts about secrets
(`DeviceInv`): no two browsers hold the same secret (`OwnSecrets`), and when the
secret of a redemption is out, its code is spent and the redemption is over
(`Spent`), so that redemptions that read the same version, or the same code, write
different secrets. For `EndedStaysEnded` (`EndInv`) the tabs a switch found active
are still active when it commits, because it holds their rows (`HeldActive`,
`HeldApart`); a resumption does not hold the row of the tab it makes active, hence
the assumption.

`InventoryProofs`, for any products, branches, orders, files and transactions:

| Theorem | Further assumptions |
|---|---|
| `NeverBelowZeroAlways`, `JobReportAlways`, `StatedCostStaysAlways` | none |
| `MovementsAlwaysTell` | `SnapshotsAlone`: nothing overlaps a product form with stock or a replay |
| `ReceivedOnceAlways` | `ReceiveAlone`: no two receptions overlap |

A transaction's own view of the rows it holds is a quantity, and its writes keep it
so (`StockInv`). What a transaction has written and what its movements say agree on
the rows it holds, and one that replaces a quantity still has the row it read
(`BookInv`). The counters of the worker tell the rows it has processed, an error or
priced each, so whatever the row of the job copied from them, whenever that was, is
honest (`CountersHonest`, `Honest`); the worker is a batch ahead of what it counted,
and, unless a note failed, the row a batch behind the worker's rows (`Near`); all of
it in `JobInv`. The order a reception read as a draft is still one (`OrderInv`). A
form nobody has stated a cost behind the back of knows the cost last stated, unless
its product is one of those already written over (`CostInv`, `FormKnows`), so
that what it writes back is right; any other goes into `undone`.

`IncentivesProofs`, for any people, sales, plans and calendars, with no further
assumption: `LockedStaysAlways`, `SettledTellsLedgerAlways`,
`CommissionedOnceAlways`, `PaidAsAWholeAlways` and `BonusesTellSettlementsAlways`.
From LOCKED on, no handler writes entries or settlements of the period: each action
is taken apart by the status it asks for. That settlements say what the ledger says
is inductive with two more facts (`SettledInv`): a period becomes approved only by
an approval, which writes them, and only people with an Employee row have any
(`EmployeesOnly`); otherwise somebody who gets the row later could have a settlement
from an earlier approval. A calculation replaces the entries of its period by what
the other periods left of each sale, so that the base of a sale never passes what is
eligible of it by now (`OnceInv`); and it writes them one after the other, each for
what the accumulated base adds to the commission, so that they telescope to the
commission of the whole (`WholeInv`). What is posted belongs to a paid period, which
no approval writes any more, and a receipt takes one period (`ReceiptsInv`).

`SalesProofs`, for any sales, shifts, quantities and returns:

| Theorem | Further assumptions |
|---|---|
| `StockLedgerAlways` | none |
| `BooksAlwaysAgree`, `DrawerNeverNegativeAlways` | `Alone`: one request is served at a time |
| `CancelledOnceAlways` | `OneShiftOnly`: sales and cancellations only, all of one shift |
| `CreditLimitAlways` | `LowersDebt`: one request at a time, or creations and cancellations only |
| `TwiceOnlyByBoth` | `Alone` |
| `RefundsWithinPaidAlways` (`RefundsWithinPaid`) | `Alone` and `NeverBoth`: returns or cancellations are not in use |

For the stock a request under way needs no more than its shape (`StockInv`): the
decrements are conditional and relative. Under `Alone` the handlers write what they
computed from what they read, so `SerialInv` says that the balance, the payments and
the cash a request remembers are still the ones of the row (`Remembers`), and that a
standing sale nothing was returned of has paid nothing out (`RowKeeps`), without
which a cancellation could give back other amounts than were collected.
Cancellations that overlap read the same payments, hence number their receipt alike,
and the second is refused (`CancelInv`). Whoever was granted credit holds the row of
the customer until it commits, and what it was granted still fits beside what is
owed (`GrantInv`), since nobody else can be granted any and the rest lowers it.

The last two say where finding 1 (section 6) lies. A return plans no more cash than
came in, so a sale that stands never gave back more than it collected in any method
(`BackInv`), and the cancellation of a sale nothing was returned of gives back just
what it collected. What is left is a return followed by a cancellation of the same
sale, and the run `sales_refund_twice` shows that it fails there.

Beside these, the theorems use only the assumptions the modules name about the sets
and bounds they are given (`SalesAssumption`, `ShiftAssumption` and so on), which TLC
evaluates on every run.

The assumptions about what overlaps are on the constants `Handlers`, `Operations`,
`Overlapping` and `Scenes`, each satisfied by the instance that checks the property
(`NeverBoth` apart: the one run of `RefundsWithinPaid` is there to violate it).
The program does not ensure them: two of these requests may meet. The theorems say
how far the properties hold and the assumptions where they end, and none can just be
dropped: two payments and a sale at a time make a debt pass the limit, the second
payment writing a balance it read before the first; a proposal between the read and
the commit of a confirmation leaves the debt on an account the link does not name;
for the others see section 6 and the hazards.

Model-checked only: the liveness properties (`ClaimedKeyCompletes`,
`EveryOperationAnswered`, `EveryoneGetsOut`), which are beyond the prover. Every
other property of a passing run has a theorem. `MarginHolds` is
false of the code, and so is `RefundsWithinPaid` unless returns or cancellations are
not in use (section 6).

## 6. Where the code and its documentation disagree

With a run:

1. `sales_refund_twice`: `cancelSale` refunds every payment in full and looks neither
   at the returns of the sale nor at the negative payments they left.
2. `incentives_margin`: a sale below the margin of its plan is left PROVISIONAL, and
   the next period takes it up with what was collected, without asking for the
   margin again.

Also met while modelling, described in the models or the hazards:

- *Idempotency.* The catch block of `withIdempotency` notes FAILED whatever the
  status, so a COMMIT whose answer is lost is overwritten and the retry runs the
  operation again. Sales are saved by the UNIQUE `Sale.idempotencyKey`; staff
  payments and internal consumption are not.
- *Sales.* Two account payments at the same time both pass the check against the
  balance they read, and the second write erases the first. The comment of
  `cancelSale` (402) says partially paid sales are rejected, while the code rejects
  only cancelled ones. Two cancellations of one sale charged to two open shifts
  carry different receipt numbers, so nothing excludes them.
- *Cash.* `calculateAvailableCash`, and the checks of refunds, ignore cash movements;
  cash already withdrawn can be spent again.
- *Offline.* The comments of `sync.controller.ts` say of the permit that only a broken
  credential stops an operation ("Lo único que la frena es una credencial rota", 1230)
  and of the barrier that it moves so that no legitimate retry "se leería como replay"
  (1335-1338); `offlineLease.utils.ts` (271) that "una secuencia que ya se vio es un
  replay". A sequence may be passed without having been seen: when operation 2 goes in
  before operation 1 has been tried (a push of part of the queue, two pushes at a time),
  the first attempt of 1 is REJECTED as REPLAY and never applied. Drop `inTurn` from
  `RefusesNoFirstAttempt` and the run `sync_push` shows it. The look-up of an operation
  is inside the try block: when it fails, the catch block (1364) notes REJECTED over a
  row that may be ACCEPTED. A crash between the replay of an operation and the note that it was
  accepted makes the next push apply it again. The server never takes an operation
  out of REJECTED, which keeps blocking the closing of shifts although the operator
  is told to resolve the conflict and try again. The comment in
  `sync.controller.ts` (1025-1027) says unconfirmed attributions block the closing,
  while `closeShift` counts PENDING, PROCESSING and REJECTED operations only.
- *Staff.* A return on the transferred part of a sale relieves the person but leaves
  `Sale.balance` as it was, so the units given back are the customer's debt again.
  After a reversal to another person, a confirmation whose round was already used is
  refused by the UNIQUE key with a 500: the key names the link and the round
  (`legacyTransfer.controller.ts`, 395), and rounds are counted on the account. A
  proposal to another person between the
  read and the commit of a confirmation leaves the link naming one account and the
  ledger charging another. Two reversals or two returns at a time
  write `reversedAmount` from the same read. `cancelSale` does not look at what was
  transferred.
- *Point of sale.* The header of `terminalDevice.utils.ts` says that deactivating a
  terminal moves the version of its secret; `updateTerminal` does not, so a terminal
  that is made active again is the same computer as before. `modifyEmployeeProfile`
  protects the last administrator ("protege el acceso maestro del sistema",
  `user.controller.ts`, 541), but counts (535) before it writes (559), in no
  transaction: two demotions that cross leave none. Drop `raced` from `SomeAdmin` and
  the run `point_of_sale` shows it. Wrong PINs in
  parallel count once. A resumption overlapped by a closing brings the tab back.
  `disableMyPin` and `resetOtherPin` close ACTIVE sessions and leave LOCKED ones.
- *Catalogue.* `updateProduct` without a cost writes back the one it read, over a
  reception or an import that came in between. The header of
  `bulk-price.controller.ts` (11-12) says that "job progress is persisted in the
  BulkPriceJob table so state survives server restarts": prices commit before they are
  counted, so after a crash the row may tell less than was priced; a last batch that is
  not full, or one whose note failed, is missing from the counters of an ERROR; and
  nobody takes the job up again. An import
  row with an archived SKU ends the import with a 500 after the rows before it have
  committed.
- *Incentives.* Under ON_COLLECTION nothing is ever eligible. `payrollRecordId` is
  unique, so the second period of a month that pays a person cannot be posted and
  never becomes PAID. A person whose amount is zero when a period is approved again
  keeps the first settlement. Two transitions to PAID at a time add the bonus twice.

## 7. Not modelled

- Prices, reports, AFIP (a stub), HTTP shell: decisions over one request, read-only
  queries or a client of a service. The models start from validated requests.
- Attribution, but for the capabilities of the staff module: pure decisions over one
  request about who sold and who collected, with no state of their own.
- Customers, avatars, passwords, alert settings, stock thresholds, employee data and
  images: rows nothing else in the models depends on. Retail prices and rounding.
- `runRecurring`, which does to a shift what `registerExpense` does, and the edits
  of an expense that do not touch the drawer.
- What a replayed offline operation does to sales and cash: one step that commits or
  is refused. A replayed stock adjustment is `ReplayStock` of `Inventory`.
- Incentive plans and sales targets: a plan is a constant of an instance, a target
  only feeds a report.

A component is marked partly modelled in `PROJECT.json` where something of this list
belongs to it.

## 8. What is left

1. Weaker assumptions than `Alone`: which of the books of `Sales` survive which
   overlaps.
2. `CashShift` with withdrawals, expenses, voids and closings overlapping: by how
   much the stored balance may miss what came in between; then its composition with
   `OfflineSync`, where unsettled operations block the closing.
3. `Incentives` with two handlers at a time, as `Inventory` does for stock.
4. A refinement for `Sales` and `CashShift` together: one drawer whose balance is
   the sum of what was posted to it.
