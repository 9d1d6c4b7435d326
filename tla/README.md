# OpenRift: a TLA+ verification of card trading and its neighbours

OpenRift (`openriftapp/openrift`) is a web application for collectors of a
trading card game: a TypeScript API on PostgreSQL (`apps/api`), a React client
(`apps/web`), a browser extension, a Discord bot and a shared package.  This
directory specifies the part of it in which several people, several database
transactions or several callbacks meet: **friend-group card trades** with the
collections, **loans**, lists and memberships that can pull a card away underneath
a promise, the **mails** about trades, the **synchronisation of a member's copies**
with the web client, and, in the API process, the **background jobs** and the
**pool of render workers**.

The sections: [inventory](#1-inventory), [plan](#2-plan), [modules and their
code](#3-modules-and-their-code), [runs](#4-runs), [fairness](#5-fairness),
[proofs](#6-proofs), [findings](#7-findings), [what is not
modelled](#8-what-is-not-modelled).  To repeat a check, run for example
`tlc -config CardTrades_settle.cfg MCCardTrades.tla`, and
`tlapm LoansProofs.tla` for proofs.

## 1. Inventory

| Component | State | Operations | What is hard | What makes it correct |
|---|---|---|---|---|
| Card trades (`modules/groups/services/card-trades.ts`, `trade-supply.ts`, `repositories/card-trades-*.ts`) | trade rows, pins (`card_trade_copies`), named copies, settlement request ledger | create, accept, decline, cancel, resize, expire, settle (apply or skip, whole or partial) for either side | partial settlement by two sides in any order, retries, sweep of unfillable trades, concurrent transactions | no copy promised twice, promised copies kept until handed over, quantities conserved over splits, closed trades final |
| Collections and copies (`modules/collections/services`) | copy rows, collections, event log | add, move, update, dispose, clear, reset, delete a collection | guards against pins and loans made under row locks; the sweep afterwards | a promised copy is never deleted or handed to a group, nor a lent one disposed of |
| Loans (`groups/services/loans.ts`, `repositories/loans.ts`) | loan rows with what is returned and what the borrower has declared returned, loan pins (`loan_copies`) | create, return, declare, confirm, reopen, write off with and without removal, acknowledge, reject, delete; contributor loans | a declaration reviewed while others arrive; free copies listed before they are locked; the copies move, are promised and disappear meanwhile | the pins are the copies that are out; no copy both lent and promised; no copy is lost from the ledger |
| Trade e-mails (`trade-notifications.ts`, `trade-status-notifications.ts`, `card-trades-emails.ts`) | three `*_email_sent_at` markers per trade row | the instant request mail, the flush of queued requests, the flush of status changes, the daily digest | a trade moves on between listing, claim and mail; crash between claim and mail; the instant path next to the flush; rows of partial settlements | no mail twice, none untrue, no marker without a mail |
| Copy synchronisation (`authenticated-copies.ts`, `repositories/copies.ts`, triggers; web `copies-query.ts`, `copies-collection.ts`, `copies-delta.ts`, `copies-write.ts`, `refetch-race.ts`) | `updated_xid` stamps, tombstones, purge mark; the client's lists, store, watermark and write in flight | full read, delta read page by page, purge, merge; the client's add, move and dispose | transactions that commit out of the order of their ids; pages read at different moments; a purge between check and read; access gained and lost without a stamp; answers that meet a read | a client misses no committed change and keeps its own; a read that nothing disturbs is bounded |
| Background jobs (`run-job.ts`, `job-runs.ts`, `images/jobs.ts`, `changelog-discord.ts`, `index.ts`) | `job_runs` rows with checkpoints, the bodies at work | claim, work, checkpoint, cancel, fail, succeed, resume, purge; shutdown, crash, restart and its sweep | two claims at once, cancel next to a checkpoint, a watermark read before the claim, a crash between work and checkpoint | one body per kind; resuming skips nothing; a cancelled run stops; no row blocks its kind |
| Job scheduler (`job-scheduler.ts`) | timers, `job_schedules` rows | set, disable, enable the suggested, run now | requests that overlap between the row and the timer | a timer exists for the rows and for no other kind (not modelled) |
| Render pool (`render-pool.ts`, `render-worker.ts`) | slots with worker, job and timer; queue | render, reply, failure, timeout, idle, shutdown, reconfigure | late replies, wedged workers, callbacks of a worker that was replaced, the queue's limit | every call is answered once, by its own reply; no worker and no timer is left behind |
| Lists and shares (`modules/lists`) | lists, entries, rules, shares with groups | add and remove entries, share, unshare, dynamic rules | entries that outlive the ownership of a copy | a group sees only copies its members own |
| Group membership (`groups/repositories/friend-groups-*.ts`) | members, invites, shares | join, leave, kick, delete group, delete account | departures with half-settled trades | live trades are between members; a half-settled trade survives |
| Tournaments, pods, deck checks (`modules/tournaments`) | rounds, pods, standings, deck-check entries | pairing, reporting, cuts, check states | pairing algorithms, state machines with several roles | not modelled |
| Decks, meta archive, catalog, candidates, marketplace, scan, stage, chat, users and authentication | own tables | create, read, update, delete; imports | little concurrency between actors | not modelled |
| Web UI (but for the store of copies), extension, Discord bot, shared package | client state | presentation | | not modelled |

How the parts meet: an acceptance takes copies out of the supply that lists and
shares make visible to a group, and pins them; disposals, moves, resets and
loans look at those pins before they touch a copy; acceptance, disposal and
move end with a *sweep* that cancels the giver's pending trades no longer
fillable; membership, group and account deletions close trades through the
service or through database triggers.  All of it is shared state in PostgreSQL,
guarded by row locks, two advisory locks and unique indexes - no process keeps
trade state in memory.  A loan pins copies in a table of its own; only queries
keep the two kinds of pin apart.  Every change of a copy, a pin's included, stamps
the row with its transaction's id or leaves a tombstone, which is what the
client's deltas read.  Every change of a trade queues a mail by what the row then
says; the flushes are background jobs, of which one of a kind is at work at a
time.  The render pool shares only the process with all this.

## 2. Plan

The order is by importance: what can lose somebody's card comes first.

| Module | Models | Status |
|---|---|---|
| `SupplyClaims`, `SupplyClaimsProofs` | the allocation of one supply to competing offers and requests (pure), and what it computes for any of them | done |
| `CardTrades` | every operation that changes a trade, and every operation of the neighbours that can take a copy, a member or a list away; one action per committed transaction | done |
| `TradeAgreement`, `CardTradesAgreement` | what a trade promises its parties, and the refinement of it by `CardTrades` | done |
| `CardTradesProofs` | all invariants of `CardTrades`, its four action properties and the refinement, for all constants | done |
| `TradeTxn`, `TradeTxnProofs` | the contending operations statement by statement, with locks and READ COMMITTED | done for eight of them |
| `Loans`, `LoanLedger`, `LoansProofs` | the two-sided life of a loan with its overlapping requests, the ledger it implements, and the proof that it does | done |
| `CopySync`, `CopySyncProofs` | the delta protocol, and the client's own writes next to it | done for one write at a time |
| `JobRuns`, `JobRunsProofs` | the ledger of background jobs over crashes and restarts | done |
| `TradeMails`, `TradeMailsProofs` | the markers of the mails, the instant path and the two flushes | done but for the digest |
| `RenderPool`, `RenderPoolProofs` | the render pool, and the proof that it stays sound | done |
| `JobScheduler` | timers and schedules | next |
| `Membership` | roles, invites and transfer of ownership | then |
| `Pods` | pairing and group cut of tournaments, as functions against reference definitions; the states of deck-check entries | last |

Every safety property of the runs that pass is a theorem (section 6), so that the modules
still to come are what the plan has left.

## 3. Modules and their code

**`SupplyClaims`** is `trade-offer-claims.ts` and the two callers in
`trade-supply.ts`: offers claim disjoint copies, the oldest first, in every
group they are visible in; `AvailableCount` is what is left for a new offer,
`AutoCancelled` the trades the sweep closes.  The claims are a function on the offers,
recursive along their ids, so that they can be proved about.  `SupplyOrder` is the
order in which the copies of a group are handed out: the code reads a supply without an
ORDER BY and takes the first rows, which the model takes to be the same order each time;
no property depends on which order it is.  `JointlyFillable` is the reference
definition, which knows of no order at all.

**`CardTrades`** keeps the rows of `card_trades` (`status`, `terms`, `quantity`,
`settled`), `card_trade_copies` (`pins`), `card_trade_requested_copies`
(`requested`), `card_trade_settlement_requests` (`ledger`), the owner of the
collection of each copy (`place`), what each group is offered (`offered`), loan
pins (`lent`), the wish entry (`wish`), members and accounts.  Five history
variables (`root`, `agreed`, `moved`, `bereft`, `effects`) are read by properties
only, and by two guards that bound the instance.  An action is one committed
transaction: its guards are the early returns of the handler in their effect, its
updates include what the handler calls last (the sweep, the wish, the ledger) and
what the database does by itself (cascades of foreign keys, the triggers that
close trades of deleted groups and users).  Settling in part is `ClaimSettleTarget`
with `SettleTarget`, `SplitPins`, `QuantityAfter` and `SidesAfter`; the three ways
to settle (`ApplyGiver`, `ApplyReceiver`, `SkipSync`) use it.

Abstractions: one printing (trades of different printings share no rows); one
personal collection per user and one per group; a user's wish list is one
number; row ids are dense; which of equal copies the database hands out is
nondeterministic where a property could tell, and fixed for fresh ids.  `Scope`
and `Collectors` say which neighbours act in an instance.  Copies that disappear take
their rows in four other tables along, which is `CascadeCopies` for a disposal, a
deleted group and a deleted account alike.  `Sum(f, S)` is the number of units of the
trades in `S`, a cardinality and not a fold, so that it can be reasoned about.

**`TradeAgreement`** is the abstract promise: an agreement over an amount is asked
for, promised, settled by each side in portions, and is over when both are even;
only the loss of the group or a party can leave it uneven.
**`CardTradesAgreement`** maps a created trade and all rows split off it to one
agreement: the amount is the sum over the rows that still count, what a side has
done the sum over the rows it settled (`Whole`, `DoneBy`).

**`TradeTxn`** takes the same handlers apart.  A transaction has a program
counter, its uncommitted writes, the copies it last read, the locks it waits for.
`Lock` takes row and advisory locks one at a time, in any order of the rows of one
statement (the query plan's choice); a statement reads what is committed when it
runs; `DeadlockAbort` is PostgreSQL's detector.  `createTransact` (`deps.ts`) has no
retry, so an aborted transaction has failed.

**`Loans`** has the row (`status`, `quantity`, `returned`, `declared`, `borrower`,
`acknowledged`), the pins, and of the copies whose collection they are in and
whether a trade has promised them.  The services do their work in one guarded
update that holds the row to the end of the transaction, so most actions are one
step.  Three handlers act on what they read before, and are taken apart: `createLoan`
lists the free copies (`CreateReads`) before it locks and pins some of them
(`CreatePins`, `CreateRefused`); reopening a declared return reads the count
(`ReopenReads`), updates the loan guarded on that count and lists the free copies
(`ReopenUpdates`, from which the row is `Locked`), and pins (`ReopenPins`,
`ReopenRollsBack` when the unique index refuses); and a reset locks and checks the
copies it lists (`ResetReads`, from which they are `Held`) and then deletes all that
the account's collections hold (`ResetDeletes`).  A copy is in the lender's collections,
a group's, or those of one of the `Friends`, and goes when its collection does: with
the group (`DeleteGroup`), or with the account (`DeleteAccount`, which also puts
a name in the place of the borrower and closes trades).  The pin of a copy that is deleted is
deleted by cascade (`CopiesGo`).  `short` records the active loans the code lets fall
short of pins.  The end of the lender's own account, which deletes the loans, is left out.
**`LoanLedger`** is what the two parties see of it: per loan the copies that are out,
those declared back and those agreed back.

**`TradeMails`** has the rows of the trades between two members reduced to what a
mail depends on, with the three markers.  The instant request mail claims, sends
and commits (`InstantClaim`, `InstantSend`, `InstantCommit`) in a transaction that
holds the row; a flush lists (`FlushList`), claims the rows of one pair at a time
(`FlushPair`) and sends (`FlushSend`).  The recipient's cadence is chosen each time
it is read, as members change it, and so is whether a burst is due.  The two queues
share no marker, so that a behaviour is about one of them (`topic`).

**`CopySync`** has the server's transaction ids, stamped rows, tombstones and
purge mark, and one client: cached lists, store, watermark, the read in progress
and the write in flight.  Server transactions are an id taken early and an effect at
commit, in any order; a read takes a page at a time, the changed rows and the
tombstones of a page from separate snapshots.  The client's own write is sent
(`Send`), served like any other transaction (`Serve`), and put into the store when
its answer arrives (`TakeAnswer`) or not (`GiveUp`); either way
`watchForRefetchRace` (`Watched`, `Raced`, `Settle`) starts a read again that ran
beside it.

**`JobRuns`** has the rows of `job_runs` of one kind, one `Bodies` entry for each
request, timer or body under way, and the process.  `Claim` and `Start` are
`claimRun` with its retries, `Begin` to `MarkFailed` are the body as `runJob` calls
it.  Of the jobs that keep results in their rows two are modelled: `images`
(cancelled and resumed by an admin) and `changelog` (posts dates after the last
run's watermark).  A checkpoint carries, as history, the set of items that were
done.  `Purge` takes old rows whatever their status, but for one that a body still works
on: no body runs for the 30 days of retention.  `BeginShutdown`, `Exit` and `Restart`
are a deployment, a crash and the sweep of orphaned rows at the start.

**`RenderPool`** has the pool's variables and, of the workers, what they hold and
have posted.  One action is one callback of the event loop with all it calls
(`settle`, `pump`, `armIdle`); replies, errors, timers, calls and shutdowns come in
any order.  A worker is named by the call it was made for; `Made` are the names in
use.

**`MCServer`** and **`MCTradesAndMails`** put two modules side by side that share no
state.  The variable `part` says which of them a behaviour is about while the other
rests, since the product of independent parts would show nothing more.

## 4. Runs

| Run | Question | Bounds and why they are enough |
|---|---|---|
| `settle` | does a trade survive every split, order and retry of settlements? | one trade of up to 3 copies, 3 rows (so a part can be split again), one request id (a retry needs no second), 5 copies so that the receiver's new ones fit |
| `supply` | what do sweeps and supply checks leave pending, and what do the mails say about it? | trades: 2 trades in 2 groups that see different parts of 3 copies, disposals, moves, additions; an older and a younger claim on the same copies is the smallest conflict. Mails: 2 rows (two created, or one and its split), one rollback or end of the process |
| `guards` | can loans, lists, moves, disposals, departures, deleted groups and accounts break a promise? | one trade of up to 2 copies, 3 copies, 2 members, named copies, settlement in whole; every neighbour acts, and copies are added |
| `locks` | do the row locks keep promises under concurrency, and do concurrent sweeps and offers end consistent? | 3 transactions: out of 7 jobs over 2 copies and 2 requests, or out of 8 jobs over 3 copies and one to come and 5 trades; a third is needed for a deadlock with a bystander and for "read, two commits, write" |
| `loans` | do the pins follow the ledger, whatever overlaps? | 2 loans of up to 2 copies (partial returns), 2 copies that both loans want, 2 overlapping requests, one account and a named borrower; copies go to a group, to the friend's collection and back, and both can be deleted or reset. Loans, copies and requests are interchangeable |
| `sync` | does a client miss a change or lose its own write? | four starts: a client without a store, 3 transactions besides the initial one (overlapping in every order), 2 copies that are written, one group; a client that writes itself; one that is about to join the group; and two channels of 2 changed rows and 4 tombstones that are behind, so that one drains first. Pages of one row |
| `server` | is every call answered and every run ended? | pool: 4 calls, 2 workers, a queue of one, one failure, one restart. Jobs: 2 bodies at once, 2 items, 2 runs after an earlier one (so the last can resume a run that resumed one), one end of the process, one failure that cannot be written |
| `named_copy`, `move`, `reset`, `tombstone`, `split_mail` | the disagreements of section 7 | |

`MaxQuantity`, `MaxTrades`, `MaxXid`, `MaxCalls`, `MaxRuns`, `MaxLetters`,
`MaxEnds`, `MaxLost`, `MaxAborts`, `MaxFailures` and `MaxRestarts` are bounds of the
instances and no part of the code.

What the passing runs show, by property:

* `PinsAreOwed`, `PromisedOnce`, `PromisedCopyAtHome`, `PromisedCopyKept`: a copy
  is promised to one party, stays with its giver, and is neither held back nor
  given away after the promise ended.
* `PinsCoverQuantity`, `SplitsConserveQuantity`, `OneLiveTrade`,
  `RetriesSettleOnce`, `SettledTradeStaysOpen`: partial settlement neither loses nor
  invents copies, rows or sides.
* `ImplementsAgreement`: all of the rows of a trade together behave as one
  agreement, which is not reopened once it is over.
* `SweepLeavesFillable`, `CreationAgreesWithSweep`, `LiveTradesAreBetweenMembers`:
  pending trades stay honourable.
* `ReservedIsCovered`, `PromisedToOne`, `LoansKept`, `SweepsLeaveFillable`,
  `OffersFit`, `EveryTransactionEnds`: the locks justify taking an operation as
  atomic in `CardTrades`, but for the cases of section 7.
* `PinsAreOut`, `OutIsPinned`, `EachCopyOnce`: a loan pins what is out and nothing
  else.  `ImplementsLedger`: no review, dispute or write-off works on a count that
  is out of date.
* `EachMailOnce`, `MailsAreTrue`, `MarksAreExplained`: the markers neither repeat
  nor lose a mail but where the process or a transaction ends at the wrong moment,
  and a mail tells what its sender did.
* `WatermarkIsSafe`, `StoreCatchesUp`, `OwnWritesStay`, `ReadsAreBounded`: a delta
  skips nothing, a read beside a write does not take it back, and the pages end unless
  somebody keeps changing what they are cut from.
* `OneBody`, `NothingIsSkipped`, `RepeatsAreExplained`, `CancelIsHeeded`,
  `EveryRunEnds`: what a job promises over claims, checkpoints, crashes and
  cancellations.
* `PoolIsSound`, `AnswersAreFinal`, `EveryCallAnswered`: the pool answers and cleans
  up.  `PoolIsSound` is the conjunction of `TypeOK`, `WaitingIsHeld`,
  `NoneWaitsInVain`, `WorkersAreHeld` and `TimersMatch`.

`CompletedWhenBothSettled` of `CardTrades`, `RunsTypeOK` of `JobRuns` and
`MailsTypeOK` of `TradeMails` are parts of inductive invariants and proved
(section 6), so no run repeats them.

`PROJECT.json` names a mutant for each: a plausible bug (`..._Suffix` operators
beside the definition they replace) that makes the property fail.

Deadlock checking is off: a system whose bounded trades, transactions, ids, rows or
calls are used up stops, and so do transactions that have all ended.

Some claims one would like to make do not hold, for reasons the code knows or
accepts, and the properties are stated accordingly:

* `createLoan` (`loans.ts:113`) takes offered copies without a sweep, and is
  not among the three paths ADR-019:34 says still do; `SweepLeavesFillable` speaks of
  the operations that sweep.
* `setTradeQuantity` (`card-trades.ts:619`) checks the supply as if the trade were
  the youngest, the sweep by its age: a resize can make the sweep cancel a younger
  offer, where ADR-019:29 expects the two never to disagree.
  `CreationAgreesWithSweep` is about creation.
* two disposals of *different* copies (`copies.ts:353`) lock no common row, so that
  each sweep misses what the other deletes, though each is meant to leave no dead
  trade (ADR-019:28): `SweepsLeaveFillable` asks that
  disposals meet (`DisposalsMeet`).  Two acceptances in groups that are offered
  different copies need not meet either, so that its starts offer every group the same
  copies (`StartsFillable`); and a cancellation beside an acceptance of the same trade
  may leave the sweep of that acceptance with a balance that what was released tips
  (`NothingReleased`).
* the advisory lock of an offer is per group (`card-trades-transitions.ts:16`):
  offers of one copy in two groups are checked side by side.  `OffersFit` holds while
  no copy is offered to two groups (`OffersApart`), from starts whose offers fit
  (`StartsFit`; TLC evaluates both conditions on the starts of `locks`).
* ADR-039:75 has pins "exist iff the copy is currently out", and ADR-039:48 has lent
  copies never leave their home collection.  Neither is so.  A disputed return is
  reopened with as many pins as there are free copies (`loans.ts:218`, and ADR-039:84
  says so).  A move looks at reservations only (`copies.ts:229`), so that a lent copy can
  be moved to a group's collection and taken from there by a member, and its pin
  goes with it by cascade (`schema.sql:10141`) when the group is deleted (`:9469`), when
  that member's account is (`:9477` and `:9797`), or in a reset by the lender or that
  member that had checked its collections before the copy came (`collections.ts:171`).
  The loan stays active with fewer pins than copies out: `OutIsPinned` leaves these
  loans (`short`) out.  A write-off with removal fails while a lent copy is in another
  member's collection.
* the instant request mail is sent within a second `transact` that holds its claim
  (`card-trades.ts:167`), where the comment at `trade-notifications.ts:66` and
  ADR-030:33 put it outside any transaction.  If that transaction fails after the
  mail has left, the flush sends it again, which `EachMailOnce` excludes (`undone`);
  and whoever answers the trade waits for the mail server.
* `claimRequestEmails` does not look at the status again, so a request that was
  taken back after the listing is still announced; `MailsAreTrue` asks that the
  request was made.  A cancellation is announced also where the request never was.
* a mail that was claimed and not sent is not sent again: `MarksAreExplained`
  accounts for it (`dropped`).
* a write that marks a run as failed may itself fail (`run-job.ts:143`); the row
  then blocks its kind until the process starts again, or the purge, which looks at no
  status, takes it 30 days later (`job-runs.ts:349`).  `EveryRunEnds` leaves these
  rows (`lost`) out.
* a date of the changelog is posted again after a crash before its watermark, after
  an admin's post that read the watermark early (`admin-changelog.ts:24`), and after
  the purge of the row that held it; `RepeatsAreExplained` counts these.
* in `CopySync`, a transaction may have its id, wait for a row lock and stamp the
  row below the tombstone of the one it waited for (`inverted`); the client
  infers lost and gained access from a list it fetched earlier (`blind`); and the
  answer to its own write may reach the store after a read that already has a later
  change by somebody else, or before any read has noticed that the collection it wrote
  into can be reached (`overtaken`).  In this last case - a group is joined, the list
  of collections is fetched again, the member adds a copy there and leaves before the
  next read - no later delta drops the row, as `copies-collection.ts:85` compares with the
  collections of the last read.  These are excluded from `StoreCatchesUp`.
* an add that timed out is sent once more with the same client ids (`copies-write.ts:160`,
  `:268`), and the server answers with the rows it stored the first time if they are still in
  the collections named (`addCopies`).  In `CopySync` one `Send` is one request:
  what `OwnWritesStay` says of it is not checked for the second.
* a channel of a delta that is drained starts over while the other has pages left,
  so that the read may take up to the product of both page counts, which is the
  bound of `ReadsAreBounded` - if nothing is committed beside the read.  A commit that
  takes rows out of the window while it is read may put the two channels out of step
  for good (`authenticated-copies.ts:40`: an empty page leaves no keyset, and that channel
  starts over): with three pages or more left on each, the pages of such a delta never
  end.  A page of the web client has 5000 rows, so this takes a client that is very far
  behind; the bound is stated for reads that nothing disturbs.
* in `RenderPool`, the error of a worker that was replaced fails the job of its
  successor (`render-pool.ts:145` does not compare workers).  The call is
  answered all the same.

## 5. Fairness

* `TradeTxn`: weak fairness of the whole next-state relation.  The database runs
  a statement whenever one can run and aborts a transaction of each cycle; as
  every transaction has a bounded number of statements, nothing stronger is
  needed, and no transaction is assumed to be favoured.
* `JobRuns`: weak fairness of each body's next step (the event loop runs it: the
  statements it awaits are answered or refused, and `Throw` is no fair action), of
  the end of a shutdown (`graceful-shutdown.ts` has a deadline) and of the restart
  (the container is started again).  A crash, a cancel request, a purge need not
  come.
* `RenderPool`: weak fairness of the job timer only (`setTimeout` fires).  Workers
  may hang for ever, and calls need not come.
* `CardTrades`, `Loans` and `TradeMails` have safety only: nothing in the code makes
  a member answer, settle or give back, and a mail may be given up.  `CopySync` has
  safety only as well: that a read ends is `ReadsAreBounded`, a bound on its
  requests that needs no fairness.

## 6. Proofs

Each proof is from the named assumptions on the constants alone, for any sets and
any bounds.

**`CardTradesProofs`** proves `TradesInvariant == Spec => []IInv` with

    IInv == TypeOK /\ RowsInOrder /\ CompletedWhenBothSettled
            /\ PinsAreOwed /\ PromisedOnce /\ PromisedCopyAtHome

and from it `TypeCorrect`, `NoReservationOutlivesItsTrade`, `NoCopyIsPromisedTwice`,
`PromisedCopiesStayHome` and `CompletionNeedsBothSides`.  None of the parts is
inductive alone.  A new row must not take over an old one's pins, which is
`RowsInOrder` with `PinsAreOwed`; an acceptance pins only copies of the supply,
which are at home and held by nobody, so `PromisedOnce` and `PromisedCopyAtHome`
hold for them; a split moves pins between two rows of one giver, and the settled
row must be known not to be closed, which needs `CompletedWhenBothSettled`;
deleting an account nulls the giver of closed rows, which hold no pins by
`PinsAreOwed`.

The argument has two frames.  Most operations satisfy `OnlyReleases` (statuses only
close, pins only shrink, and a row that keeps pins keeps giver and place), and
`ReleasingKeepsIInv` covers all of them.  The settlements satisfy `SettlesWith`:
one row, or a new one split off it, takes some of the pins, a new side and a
status (`TakesRow`), and `SettlingKeepsIInv` covers the three ways to settle.
Creation, acceptance, additions, moves, lending and account deletion have proofs of
their own.  The sweep enters through one lemma, `SweptStatusClosesPending`: what
it closes was pending.

A second layer of the invariant, `DealsInvariant == Spec => []DealsHold`, is proved
on top of the first:

    DealsHold == RootsAreAgreed /\ NamesFit /\ RequestsAreFiled /\ RetriesSettleOnce
                 /\ PinsCoverQuantity /\ OneLiveTrade /\ LiveTradesAreBetweenMembers

Three parts are strengthenings.  `RootsAreAgreed`: a row that is not yet agreed is
its own root, and a row was only split off one that is, so a new row is nobody's
ancestor; without it a split could make a copy leave under another trade's name.
`NamesFit`: a request that has lost none of its named copies names as many as it asks
for, so that the acceptance pins enough of them (`PinsCoverQuantity`).
`RequestsAreFiled`: what a settlement request did is in the ledger as long as its
sender has an account, so a repetition is recognised and `RetriesSettleOnce` holds.
`OneLiveTrade` is kept by creation because of its guard (the unique index), and by a
split because the row it leaves live was live before; `LiveTradesAreBetweenMembers`
because every departure closes the trades of the one who leaves.

`FiveKindsOfSteps` says that every step creates, resizes, accepts, settles or is one of
the rest, which only end trades: `Retreats`, with `Quiet` for the steps that leave
trades alone and `TermsFade` for what deleted groups and accounts do to the terms.
`Divides` is what the three ways to settle have in common.  Four of the
theorems are parts of `DealsHold`.  `SettledTradesStayOpen` and
`PromisedCopiesAreKept` are the action properties, by the same five cases: a settled
trade is cancelled only by a step that takes a party or the group from its terms,
and a promised copy leaves its place only when the giver settles or is gone.

The second half of the module proves what the rows split off a trade amount to.
`SharesInvariant == Spec => []SharesHold` is the third layer:

    SharesHold == PartsShareTerms /\ RowsCount /\ OpenRowsAreWhole
                  /\ EarlyEndsAreBroken /\ SplitsConserveQuantity

`SplitsConserveQuantity`, a theorem by itself (`SplitsLoseNothing`), is about sums over
the rows of one trade.  A sum is the cardinality of a set of units, so the lemmas on it
(`SettlingSums`: what a settlement of `n` copies adds for one side and leaves for the
other; `EvenSums`: sums are equal when all rows are settled by both) are counting
arguments on disjoint unions, without induction.  The other parts are what the refinement
needs: the rows of a trade have one group and two parties, none is empty, an open one has
lost neither, and one that was called off after a side settled it has.

`TradesImplementAgreement` is the refinement `Spec => ImplementsAgreement`.  `Seen(a)`
follows from the three layers (`RowsAreSeen`) and says what the agreement behind a
created trade looks like: asked while its only row is pending, promised while a row is
reserved, and over exactly when the two sums are even.  Then each kind of step is
matched: creating is `Ask`, resizing `Resize`, accepting `Promise`, settling `Settle`, each
with the pending requests that its sweep closes as `Withdraw`, and the other steps are
`End`, of each agreement a `Withdraw`, `CallOff`, `Break` or nothing.  The frames
`Opened`, `Resized`, `Accepted` and `Parted` say which rows a step may touch, so that the
agreements beside it are covered by one lemma (`BesideIsSeen`).

`AgreementsEndEven` proves of the agreement that no side settles more than what is left
of it and that one that is over is settled by both sides; its proof uses the
steps of `TradeAgreement` alone and nothing of the rows.  `TradesEndEven` carries this
over: it holds of whatever the trade services do.

**`SupplyClaimsProofs`** is about the allocation alone, for any offers whose ids are
numbers.  The claims exist and are what the recursion says (`ClaimsExist`,
`ClaimIsGiven`): the offers at fault would have an oldest one, by the least number
principle, as the library's induction cannot be used here.  Claims lie in the supply of
their group and are disjoint (`ClaimsAreApart`).  `ClaimsShrink` is the step that the
sweep lives on: if some of the offers that were filled compete alone, each of them
finds its copies among those that it and the older ones had.  Hence `SurvivorsAreFillable`: what a sweep leaves, a second sweep leaves
as well, whichever of these trades are answered in between, and `FillableTogether`: it is `JointlyFillable`, by giving each offer its
claim.  `NewTradeFits` is the other direction: a trade that is younger than the pending
ones and for no more than `AvailableCount` cancels nobody, itself included, as older
offers do not look at younger ones (`YoungerOffersWait`).  `FilledIffEnough` counts: in
groups that share no copy, offers are fillable exactly if no group's offers ask for more
than its supply.

On these rest two more action properties of `CardTrades`.  `SweepsLeaveOnlyFillable`:
every operation that sweeps writes the statuses `SweptStatus` leaves, so that the pending
trades of the giver are the survivors.  `CreationsAgreeWithSweep`: the created trade has
the largest id, and `AssertSupplyAvailable` is the hypothesis of `NewTradeFits`.  What
takes the work is that a supply is finite and consists of copies (`SuppliesAreStocked`),
and that the two read the same rows (`PendingOfIsRows`).

**`LoansProofs`** proves `LoansInvariant == Spec => []IInv` with

    IInv == TypeOK /\ PinsAreOut /\ OutIsPinned /\ EachCopyOnce
            /\ AsksAreSound /\ DeclaredIsOpen

The invariants of the run follow, and are theorems.  `AsksAreSound` is about
the requests between two steps: the one that holds a row knows what is declared on
it, and no two hold the same row.  `DeclaredIsOpen` (only an open loan has returns to
review) is why the update that reopens a loan need not look at the status, as the
code does not.  Counting is by three lemmas on the cardinality of a set of
pins with some removed or added; `UpdateKeepsIInv` reduces most operations to their
row, `PinningKeepsIInv` the two that pin, and `CopiesGoKeepsIInv` the three that delete
copies with a collection: they leave a loan that loses a pin `short`, and all other loans
as they were.  From the same invariant,
`LoansImplementLedger` maps each action to a step of `LoanLedger` or to a stutter,
`LedgerLosesNothing` says what that is worth: no step of the ledger, in any order of
returns, declarations, disputes and write-offs, loses a lent copy, counts it twice or takes
back the lender's word.  `ServicesLoseNothing` carries it over to the services.

**`JobRunsProofs`** proves `RunsInvariant == RunsSpec => []IInv`, and from it
`RunsKeepTheirTypes`, `OneBodyPerKind`, `ResumingSkipsNothing` and
`CancellationIsHeeded`.  `TasksInv` ties each body at work to the one running row,
lets two bodies at work only be the same, and has no body while the process is down;
`RunsInv` has at most one running row and every checkpoint, a
body's own and a stored one, cover only items that were done.  A body past a cancel
request is bounded by `MarksFit`: before a batch nothing was begun late, and after a
batch that was, the row is marked as cancelled, so the check that follows ends it.
What a job goes on from is sound because `LatestForResume` picks a member of the
stored rows, which is the least number principle (`WellFoundedInduction`).

`RepeatsStayExplained` is `RepeatsAreExplained`, a comparison of two histories, for any
number of dates, runs and ends of the process.  It rests on `RepeatsInvariant`:
the body at work has the newest row (`RunsInOrder`), and `PostsInv` says where a date may
be posted once more without being counted again: beyond the stored watermark, unless
its post is the one a body has yet to record, and beyond the item the body at work has
got to, wherever it began.  Thus a body that begins behind the watermark has paid for
what it may repeat when it begins, and a purge or a crash pays when it
happens.  `SameMark` and `PurgedMark` say what a step on the rows does to the
watermark, `LastStores` that what a body records is the next one.

**`TradeTxnProofs`** proves `AlwaysSound == Spec => []IInv` with

    IInv == JobInv /\ DbInv /\ \A p \in Txns : Sound(p)

where `DbInv` is about the committed rows and `Sound(p)` says what transaction `p`
may rely on at its statement, because it holds the row it follows from: an
acceptance that its trade is still pending and that the copies it will pin are
promised and lent to nobody, a disposal that its copies are free, an offer that its
trade is not there yet, a reset that all it will delete is locked and free.  Three
lemmas carry the proof.  `WrittenIsAdmissible` and its like say that what a job
writes when it commits is `Admissible`; `CommitKeepsDb`, that admissible writes
keep `DbInv` and are `Careful`: they take only copies whose rows the writer holds
and change only trades that are its to change; `OthersStaySound`, that a careful
commit leaves alone what the others rely on, as no row has two holders.
`PromisedOnlyOnce` holds for every mix of jobs.  `ReservedStaysCovered` and
`LentStaysLent` assume `NoAddBesideReset`, which is exactly what the run `reset`
violates: with it, the copies a reset deletes are those it has checked.

`SweepsKeepFillable` and `OffersDoFit` are `SweepsLeaveFillable` and `OffersFit` for any
number of transactions, on the starts that the properties need (`StartsFillable`,
`StartsFit`).  For the sweeps the invariant (`SweepInv`) says that the committed
rows are fillable, that an acceptance has found, and then holds, every copy in the supply
(`Covers`), and that what a transaction past its sweep leaves pending can be filled from what
its commit leaves (`Closes`).  Thus there is one taker at a time: who is past its sweep
while another commits need only learn that fewer trades are pending.  For the offers it is a count: in each group the pending offers ask
for at most the supply, and an offer past its check leaves room for itself, for as long as it
holds the lock of its group.

**`CopySyncProofs`** proves `WatermarksInvariant`: every watermark the client holds,
or a read of its carries from an earlier request, is `Safe`, at most the id of every
transaction that is running or to come.  `SafeXid` is so when it is asked for, the
minimum of a set of numbers that exists by well-foundedness, and it remains so as ids
only leave the running set or are taken above it.  `WatermarkStaysSafe` is the
property of the run; `NothingCommitsBehind` says what it is for: a transaction that
commits a change or a tombstone stamps it at or past the client's watermark, so that
the next delta asks for it.

On these rests `StoreInvariant == Spec => []SInv`, and on it `StoreDoesCatchUp` and
`OwnWritesDoStay`, the two properties about what the store holds, with

    SInv == IInv /\ TypesInv /\ StampsInOrder /\ ReadShape /\ ReadFits
            /\ StoreRight /\ ReadRight /\ QuietInv /\ MineInv /\ OwnInv

`StoreRight` is the heart of it: of each copy but the excepted ones, what the database
has below the watermark is in the store as it is, and what the store has is still
there in its collection or has left a tombstone, or a purge, at or past the watermark
(`Right`, `Traced`).  `ReadRight` says the same of a read in progress, page by page: the
full pages are right up to the cursor (`FullRight`), the delta pages have every changed
row and tombstone that is not past their keysets (`RowsTaken`, `TombsTaken`), and a page
that was read and not yet taken has the next of them (`RowPageRight`,
`GonePageRight`).  The other parts: stamps are ids of transactions that ended
(`TypesInv`) and a row lies at or past its tombstone (`StampsInOrder`, but for
`inverted`); what a read has behind it tells how it can go on (`ReadShape`, `ReadFits`);
while nothing is committed every stamp is below the watermark of the read, so that
"right but for what is past the watermark" becomes "right" (`QuietInv`); and the
client's own write leaves a row that only a later change moves, which each store and
each page shows or does not contradict (`MineInv`, `OwnInv`).

The proof has two halves.  A commit can only do four things to a copy (`CopyStep`:
`WriteCommits` shows that every write of the server is of that kind), it stamps them at or
past every watermark in use, and thus it shrinks the windows of the pages and leaves
what was right as it was (`TracedStays`, `RightStays`, `WindowsOnlyShrink`,
`PagesStayRight`, `WritesKeepSInv`).  A step of the read goes from one page to the next:
`PageIsFirst` and `LastIsLast` say that a page is the beginning of what is past the keyset
and that its last row is the keyset of what remains; `DeltaTaken` and `FullTaken` take
a page, `MergeIsRight` and `MergeShowsOwn` are about the merge at the end,
`FinishKeepsSInv` and `AnswerKeepsSInv` about what becomes the store.  A purge between two
pages is why `StillCovered` is asked again after the page was read: an item of a page is
`Traced` by its tombstone or by the purge mark, and only the check turns the second
case into a full read.

`ReadsStayBounded` is `ReadsAreBounded`, by an invariant of its own (`PaceInv`) on top of
`SInv`.  While nothing is committed, what is past a keyset goes down by a page at a time
(`PageSize`: a page is full unless it is the last), then there is an empty page, and the
channel starts over: after `n` pages it is at page `n` modulo its round (`AtPage`,
`PageTurns`).  On the last page of a round a channel is drained (`LastPage`).  If
the product of the two rounds has been read but for one request, both are on their last
page (`DrainedTogether`), and the read ends.  The rounds are no longer than `Most` allows
for, whatever the size of a page (`RoundsFit`).  A purge beside the read changes what is
left only by taking the watermark out of what is covered, after which the read falls back to
the full list, where each page brings the cursor past a copy (`FullKeepsPace`).

**`TradeMailsProofs`** proves `AlwaysIInv == MailsSpec => []IInv` with

    IInv == MailsTypeOK /\ RowInv /\ OnceInv /\ TruthInv /\ MarksInv

and from it the three properties of the run.  `OnceInv` adds to `EachMailOnce` that a
mail that has left has its marker, or is an instant mail whose claim is still to be
committed or was rolled back, and that the letter in hand was claimed and has not
left before.  What a row says of its members is a fact (`RowInv`), so what a flush
listed stays true while the trade moves on (`TruthInv`).  Only a row of its own has
copies left to split, which is why the markers of a split-off row are explained by
the mails of the row it came from (`MarksInv`).  `Growth` is the frame of the steps of
the trades, `ClaimStep` and `PassStep` that of the flushes.

**`RenderPoolProofs`** proves `PoolStaysSound == Spec => []PoolIsSound` and, from the
same invariant, the action property `AnswersAreFinal` (`AnswersStayFinal`), with

    IInv == PoolIsSound /\ NamesAreFresh

`PoolIsSound` is nearly inductive as it stands, because it has to hold after each
callback.  `NamesAreFresh` is needed since a worker that is started must not be one that
is there already, or one whose late replies are still posted: it is made for a call
that has left the queue, and calls are numbered as they come.  Inside a callback the pool
is not sound: one slot has just become free.  `Ready` is the pool at that moment and
`Pumped` after `pump`, which hands out at most one call, since no call waited while a
slot was free (`NoneWaitsInVain`): the set of slots that take a call is empty or one slot,
the first free one by the least number principle (`PumpOutcome`).  `TakingKeepsThePool`, `RestingKeepsThePool` and
`FreedIsReady` are the three things a callback does to a slot, and `StepsKeepAnswers`
follows an answer from the worker that gave it to the call it drew.

The hypotheses are few: the named assumptions on the constants (`CardTrades` has
`OrderAssumption`, which says that the copies of a supply stand in some order),
and in `TradeTxnProofs` `NoAddBesideReset`, `StartsFillable` and `StartsFit`.

Only model-checked is liveness, which is out of reach of the provers here:
`EveryTransactionEnds`, `EveryRunEnds`, `EveryCallAnswered`.  The invariants of the proofs
(`IInv`, `DealsHold`, `SharesHold`, `Seen`, `RepeatsInv`, `SInv`, `PaceInv`) were
model-checked on the instances of section 4 before they were proved.

## 7. Findings

Five runs end in a violation of something the repository says:

* `named_copy` / `RequestKeepsItsCopies`: a named copy that is deleted vanishes
  from the request by cascade, and the acceptance then pins other copies, where
  ADR-019:82 says that it cancels instead of substituting.
* `move` / `PromisedAtHome`: an acceptance that waited for `moveCopies` pins the
  copy that has just gone into a group's collection, where ADR-019:32 says that
  the locks serialise the two.
* `reset` / `ReservedIsCovered`: `resetCollections` checks the copies it listed
  and deletes all there are; a copy added and promised in between loses its
  reservation.
* `tombstone` / `StoreIsExact`: a copy has one tombstone, and the second removal
  hides the first from members of the first owner.
* `split_mail` / `SplitsAreSilent`: a trade settled in part while the mail about its
  acceptance is queued leaves a second row with the marker still empty and the
  settling member as its last actor; the flush announces it, to the wrong member if
  the other one settled, where the comments of `createSettledSplit`
  (`card-trades-writes.ts:105` and `:113`) say that no mail is sent about it.

## 8. What is not modelled

The timers of the scheduler, the digest of matches, roles and invites, and
tournaments are planned or left for later (section 2).  Left out for good:
rendering, search, imports, catalog editing, marketplace prices, scanning, decks, the
meta archive, chat and the user interface - sequential code on rows of a single
owner, presentation, or calls of external services; they are most of the repository's
lines.  Within the modelled parts: texts, in-app notifications, the event log,
per-copy metadata, the ranking of copies (a choice among equals), request
validation that changes no state, the rules of dynamic lists, chunks of a client's
write, the bodies of the other jobs (they are claimed and ended as in `JobRuns`) and how
long a burst of requests is held back.
