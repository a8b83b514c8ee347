# The ledger, modelled, checked and proved

A TLA+ development of the double-entry ledger in `src/`: a Go service that
records transactions in Postgres, with a command line client and a web UI. It
follows a transaction from the argument or the form it is typed into, through the
token, the validation and the money conversion, to the rows it becomes, and back
through the listings and the screen. TLC checks each part on small instances;
TLAPS proves nearly every safety property for every number of calls, accounts,
instances, clocks, replicas, clients and pages and for every width of an amount, and
that the write path implements an atomic ledger, step for step.

## 1. The system

| Component | Source | State it keeps | Operations |
|---|---|---|---|
| Write path | `internal/repository/postgres.go`, `schema.sql` | `transactions`, `postings`, `account_balances` | `RecordTransaction` (with `recordedUnder`, `lockOrder`) |
| Transaction-date rule | `internal/repository/date.go` | none | `provisionalDate`, `resolveDate` |
| Request fingerprint | `internal/repository/fingerprint.go` | none | `fingerprintOf` |
| Listings and registers | `internal/repository/postgres.go` | none | `ListAccountBalances`, `ListTransactions`, `ListRegister` |
| Draft validation | `internal/service/ledger_service.go` | none | `draftFromRequest` and the mapping of errors to status codes |
| Money | `internal/moneyfmt` | none | `ToDecimal`, `FromDecimal` |
| Account type names | `internal/accountfmt` | none | a table of five names |
| Schema | `postgres.go`, `schema.sql` | the catalogue, an advisory lock | `ApplySchema` |
| Gateway and bindings | `api/v1/*.go` (generated) | none | four routes, the method table, decoding before the interceptor |
| Tokens and scopes | `internal/middleware` | none | `AuthInterceptor`, `ValidateToken` |
| Server | `cmd/server/main.go` | connection pool, listeners, running handlers | start, serve, stop on a signal |
| Command line client | `cmd/cli/main.go` | none: a run is one call, for ten seconds at most | `post`, `balance`, `register` |
| Web UI reads | `webui/app/composables`, the pages that list | page, filter, rows, token | `apply`, `refresh`, turning pages, login, logout |
| Web UI entry form | `webui/app/pages/transactions/new.vue`, `utils/transactionForm.ts` | the form and its key | submit, replay banner |

**How they interact.** A client sends a `RecordTransactionRequest`. The auth
interceptor decides on the token's scopes, `draftFromRequest` validates and
normalises, and `RecordTransaction` runs against Postgres: it consults the key,
opens a database transaction, reads the clock, locks every balance row it touches
in one order, settles the date, inserts under a unique key, applies the legs,
verifies, and commits. Server instances share nothing but the database; within an
instance the calls share a pool of 25 connections. Readers see committed rows
only.

**What is hard.** Everything the tests cannot schedule: duplicates of one key racing
each other; a retry whose original commits while the retry waits for a lock; a
commit whose acknowledgement is lost; writers that lock the same accounts in
opposite directions; clocks that are read before a lock is waited for, and that
differ between instances; a call that needs a second connection while it holds the
first; processes that start together on an empty database, or end with calls in
hand; clients that do not know whether their call was recorded; balances that
outgrow the wire type; failures between any two statements. `PROJECT.json` lists
each at its line, with the properties that would catch it.

## 2. The modules

| Module | What it is |
|---|---|
| `LedgerDates` | the date rule as operators over clock ticks |
| `LedgerData` | drafts, postings, balance rows, the fingerprint, the lock order |
| `Ledger` | the write path as a state machine |
| `LedgerProperties` | what it owes its callers and readers |
| `LedgerInvariants` | the inductive invariant behind the safety properties |
| `Book` | the atomic ledger: what `RecordTransaction` promises, with every call one step |
| `LedgerRefinesBook` | `Ledger` implements `Book`, over the dates `Book` may store: `Promise == INSTANCE Book WITH` the committed side of `Ledger`'s tables, and `Promise!Spec` as a property |
| `Wire` | amounts, account types and currencies between the wire and the tables |
| `Requests` | routes, the interceptor's decision and `draftFromRequest`, over one call |
| `Fingerprints` | the bytes `fingerprintOf` hashes |
| `CommandLine` | what the command line makes of its arguments, and how it prints what it is sent |
| `FormAmounts` | an amount on its way through the web form, in doubles |
| `Register` | one account's register read in pages while it grows |
| `Listings` | what the three reads select, sort, page, join and regroup |
| `Replicas` | the server processes: schema, serving, signals, panics, deaths |
| `Clients` | the command line and the entry form recording through `Replicas` |
| `WebReads` | the web UI's reads, filters, pages and sessions |
| `MCLedger`, `MCBook`, `MCListings`, `MCClients`, `MCWords` | the drafts, clocks, books, calls and words TLC runs with |
| `LedgerProofs` | theorems on types, locks, dates going forward and running balances; on how calls meet and what they leave and are told: idempotency keys, rings of waiting calls, refusals, verified balances, supplied and stamped dates, replays |
| `FoldProofs` | lemmas on what the library's folds come to: induction and recursion over the subsets of a finite set, sums, tallies of a sequence, and the places of the parts of a flattened one |
| `LedgerBookProofs` | theorems on whole transactions: all-or-nothing, the trial balance, the whole invariant; and that `Ledger` implements `Book` |
| `FingerprintProofs` | the theorem that two drafts are never hashed from the same bytes, and the lemmas on numerals, delimiters and lists of texts it rests on |
| `RegisterProofs` | theorems on paging through a register that grows |
| `ListingProofs` | theorems on what the reads select and how they lay it out, for any books |
| `ClientsProofs` | theorems on amounts, on fingerprints, on what is let through to the ledger, on the processes, on what clients are told, and on the entry form |
| `WebReadsProofs` | theorems on what the web UI shows |

Operators whose comment begins with *Slip* are plausible mistakes; the definition
after each is the code's. They are used only to confirm that the properties can
fail: replacing the definition by its slip makes TLC report the property.

### `Ledger`: state and steps

A **call** is one run of `Repository.RecordTransaction`. A retry is another call
with an equal draft. `pc` says between which database round trips a call is:

| `pc` | Where in `postgres.go` | Next steps |
|---|---|---|
| `check` | 188 | `CheckKey`: replay, refuse, or go on |
| `begin` | 214 | `Begin`: open the transaction, read the clock |
| `lock` | 236 | `LockRow` once per row; then `RefuseTooFarAhead`, `Overtaken`, `InsertTransaction` or `LoseToWinner` |
| `post` | 302 | `PostLeg` once per leg, or `RefuseUnrepresentable`; then `RefuseOverdraft` or `Commit` |
| `recheck` | 269 | `Reconsult` after a backdated date |
| `reread` | 291 | `Reconsult` after a unique violation |
| `done` | | answered |

`now`, `date`, `latest` and `leg` are the handler's local variables. `book` maps
each balance row to its committed version, with the postings of that account and
currency in commit order; `transactions` is the table of that name. `tentative`
holds the versions under a lock, `held` who holds which, `conns` who has a
connection checked out for a database transaction. `answer` is what the caller
was told.

**Postgres** is modelled by what the code relies on at READ COMMITTED. An upsert
waits for the row's lock and then sees the last committed version (`LockRow`). An
insert under a unique key waits for an uncommitted row of the same key and violates
on a committed one (`KeyPending`, `UniqueViolation`). A rollback undoes everything
at once, a commit publishes everything at once. Deadlock detection is not modelled:
`NoWaitCycle`, which is proved, says there is nothing for it to detect.

**Failure.** `Fail` ends a call at any step: a broken connection, a cancelled
context, the death of the process. Postgres rolls an open transaction back.
`Commit` may also succeed and answer `failed`: the acknowledgement was lost.

**Clocks.** `Tick` moves the slowest instance's clock; `ClockSkew` is how far each
instance runs ahead of it. A tick is finer than the microsecond of a timestamptz
column (`Microsecond` ticks), so readings and supplied dates have digits storage
drops.

**What is abstracted.** An account stands for one balance row: a transaction carries
a single currency, so rows of other currencies cannot be touched by it. Note and
metadata are one value, compared for equality. The fingerprint is the record of the
hashed fields, so it has no collisions; `Fingerprints` shows what that rests on.
Amounts are whole units; `Fits` is the int64 range of `FromDecimal` at size
`MaxUnits`. The drafts satisfy what `draftFromRequest` lets through (`Recordable`,
an assumption TLC evaluates; `Requests` checks the same of the code's validation,
request by request). The two statements of `recordedUnder` are one step: the row the
first finds is immutable and committed with its postings.

### `Book`: the promise

`Book` has four variables (the requests, the two tables and the answers) and no
locks, connections, clocks or intermediate stages. `Record` applies a whole
transaction at an acceptable date, `Replay`, `Collide` and the refusals leave the
tables alone, and each refusal needs its reason in the book at that moment.
`ImplementsBook` says every step of `Ledger` is one step of `Book` or none, under
the identity on the four variables. `Book` stamps a date from the set `Dates`: the
theorem lets it be any set with every natural number in it, and TLC runs with
`ReachableDates`, the ticks up to twelve past the last clock reading, which no
supplied date or run of advanced stamps leaves. `Book` may answer `too_far_ahead` whatever
the key holds, which is what the code does (section 5).

### `Register`: a listing against the write path

`ListRegister` runs two statements, a count and a page, and each sees what is
committed when it runs. Calls on one account are ordered by its row's lock, so
`Post` is one step here: a date at or after the latest, and a posting id drawn
under the lock. An instance's ids only grow (UUIDv7); between instances they order
as the clocks do, which the model leaves open. `Orders` is the set of orders the
`ORDER BY` admits, so a weaker clause would be a choice among several. `Limit` and
`Offset` are `Page.bounds`, with the default, the ceiling and the largest page number
as constants: the offset is computed at twice the number's width (int64 for int32),
and wraps there.
The reader is anyone who turns pages: it asks for one after another until one is
empty. Amounts are one unit each, which tells any two orders apart.

### `Listings`: what a read shows

The tables hold still here, so the three reads are operators over a set of
transactions: `Asked` is what the service makes of a filter, `SelectsAccount`,
`InPeriod` and `CarriesPairs` the WHERE clauses, `Sorted` the ORDER BY, `JoinedPage`
the page cut from the transactions before the join, `Grouped` the loop that reads the
joined rows back, `Scanned` one round of it. `Offset` has the width of the expression it is computed in.
`ListingsAgree` reads every small book from first page to last in both ways and
compares; `PrintedAccountsReadBack` prints each account and gives it back to the
command line, and `AccountsStayApart` takes it through the service's filter, in both
spellings of a currency. A user or a name is the sequence of its pieces between colons,
so that printing and splitting are what they are in the code: the books hold two
accounts, of users `alice` and `alice:b`, that are printed alike.

### `Wire`, `Requests`, `Fingerprints`, `CommandLine`, `FormAmounts`: what has no state

These are the pure parts, operator by function, checked on sets of inputs that
`MCClients` and `MCListings` list. They are the same in every state, so their
properties look at them in the first one only. A decimal is a whole number of nanos.
A text is a model value where only equality matters, and a sequence of characters in
`Fingerprints`, where the format's own delimiters may occur inside it.
A double of `FormAmounts` is a whole number of 2^-`Finest` with room for `Precision`
binary digits, and `Double` rounds a quotient to the nearest, ties to even: `AmountToNanos`
is `Math.round(amount * 1e9)` on the number the input holds, and `AmountToMoney` the
division and the remainder that follow, of which the division rounds again.
`Requests!Answered` is the order a call is decided in: the method must exist, the
message must decode, the token must allow it, the draft must stand. The HTTP route
arrives at the same handler through the gateway, and with the same interceptor, so
the two ways in are compared call by call.

### `Replicas` and `Clients`: processes and those who call them

`Replicas` is `main` of each process in phases. `TakeLock`, `Create` and `Unlock` are
`ApplySchema`: the advisory lock is held by one session of the process, and released
by its end. `CREATE TABLE IF NOT EXISTS` is two steps, a look and a creation, as it is
in Postgres. `Signal`, `StopServing` and `Exit` are the shutdown in `main`'s order.
`GracefulStop` drains every transport the gRPC server has, and a call that came through
`ServeHTTP`, as all of this server's do, has one whose `Drain` panics: with a call in
flight `StopServing` leads to `panicked`, where the deferred `Close` has taken the pool
and handlers still run (one may finish on the connection it has, or fail), until `Die`
ends the process. With none in flight it returns at once. `Taking` is who accepts calls:
`ServeHTTP` goes on doing so until `GracefulStop` is through. `Die` is otherwise the end
of a process at any line.

`Clients` adds the calls. The ledger of each key is one entry of `book`, changed in
`Handle` by one step, as `Book` allows and `ImplementsBook` shows of the write path;
`Possible` leaves open whatever depends on state not kept here (a failure before or
after the commit, a refusal by date or balance). A call is `sent`, `handling`,
`answered` or `cut`. It is kept until it is answered and its client has been told
something (`Kept`): after that nothing can come of it. A call given up on before it is
answered stays, may reach a replica late, and is in view of every property.
`Lose`, `GiveUp`, `LearnCut` and `DieWithCalls` are the ways a client
never hears. `form` is the page of the entry form; `entry` marks what an operator
means by one entry (from the page's opening or from the key button on), which the
code does not know and the property is about.

A browser is taken to notice that its connection is gone. A key an operator
types into the form by hand is not modelled.

### `WebReads`: reads and sessions of the web UI

One operator in one tab. `token` is `useAuth`'s, `route` the router's, `filter` and
`page` the mounted page's controls, `sent` the filter `useLedgerQuery` remembers,
`current` the read whose answer it waits for and `view` what `useAsyncData` holds.
`inflight` is every request sent and not yet settled, each with the token it
carried. `Serve` and `Arrive` are steps of their own for every request, so answers
come in any order. `Read` is `dedupe: 'cancel'`: the newest read takes `current`,
an older one stays in flight and is dropped when it arrives (`Overtaken`), except
that a refused one still signs out (`Refusal`), because `onResponseError` runs for
every answer. `Login` puts the pasted token in use before trying it; its answer
lands wherever the operator has gone since (`LoggedIn`, `Broken`). Nuxt is modelled
by what the code relies on: a page mounts with fresh data and reads at once, a
failed read drops the data. The entry form is in `Clients`, and a
listing's two statements in `Register`.

## 3. Runs

| Run | Instance | Properties |
|---|---|---|
| `Transfers` | 4 calls, 3 accounts, 4 keys, 1 instance, balances in -3..2 | `RunningBalances`, `AllOrNothing`, `TrialBalance`, `ExactlyOnce`, `NoWaitCycle`, `GuardHonoured`, `RefusedLeavesNoTrace`, `ReadsNeverFail`, `ImplementsBook` |
| `Dates` | 3 calls, 3 accounts, 2 instances one tick apart, clock 0..1 | `TypeOK`, `Inductive`, `DatesForward`, `StampedStrictlyPast`, `BackdatedIsFinal`, `ReplayIsTheSame`, `RetryNeverCollides`, `ImplementsBook` |
| `Answers` | 3 calls, 2 instances with one connection each | `EveryCallIsAnswered` |
| `Paging` | 2 instances, 4 postings, 2 dates, sizes defaulted, plain and clamped; 512 books of 3 transactions | `TypeOK`, `PagesMissNothing`, `BalancesFollowTheirWriter`, `TotalEndsTheWalk`, `ListingsAgree`, `PrintedAccountsReadBack`, `AccountsStayApart` |
| `Clients` | 2 replicas started twice in all, 1 end, 2 calls, 2 keys, 3 contents, one of them incomplete | `TypeOK`, `SchemaNeverCollides`, `AnswersAreTrue`, `EntryRecordedOnce`, `BannerIsTheLastSubmission`, `EveryReplicaServes`, `EverySubmissionEnds`; of the pure parts `AmountsSurvive`, `FormAmountsHold`, `OnlyRecordableDraftsReachTheLedger`, `FingerprintTellsDraftsApart` |
| `Screen` | 2 pages, 2 filters, 2 tokens, 2 rows, 2 requests in flight | `TypeOK`, `ScreenMatchesRequest`, `RowsAreThisSessions`, `EveryReadEnds` |
| `RetryOwed` | 2 calls | `RetryOwedOriginal` (violated) |
| `StampIsNow` | 2 calls | `StampIsNow` (violated) |
| `TiedDates` | as `Paging` | `BalancesReadInOrder` (violated) |
| `NeverLanded` | 1 token, 2 filters, 2 rows | `NoMatchMeansNeverLanded` (violated) |
| `LateRefusal` | 2 tokens, 2 requests in flight | `RefusalDropsItsOwnToken` (violated) |
| `CliTimeout` | 2 replicas, 2 calls | `RejectionsAreTheLedgers` (violated) |

The drafts each call may carry are chosen from a small set in every initial
state, so a run covers every multiset of them: duplicates of one key, clashes on
a key, transfers in opposite directions, two legs on one account, supplied dates
below, at and past the tolerance, amounts that reach the largest unit, dip below
zero and recover, and spend what another verified call is spending. The draft that
clashes on a key shares no account with its rival: the row locks never order the
two, so only the key makes them meet, with the insert of one waiting for the
other's commit.

**Why the bounds are enough.** A race on one key needs two calls, and a third to
move the dates between them; a ring of waiting calls over three accounts needs at
most three, and `Transfers` has four. The date rule compares a reading with one
or two postings, so a clock of two values with two skews, and dates at both sides
of each limit, reach every branch. `Microsecond` = 2 and `FutureTolerance` = 2 are
the smallest values at which truncation and the tolerance both matter. The calls
are interchangeable, and so they are in `Book`, so `Transfers` and `Dates`, whose
properties are all safety, use symmetry over them; the liveness runs do not.

**Fairness.** `FairSpec` has weak fairness of each call's own steps: a handler
that can make its next round trip eventually makes it. Go schedules every
runnable goroutine and Postgres grants locks to waiters, so this is justified;
weak fairness per call suffices because a row's lock, once free, is wanted only
by calls that finish. Nothing makes a call fail or the clock advance. The pool's
queue in `database/sql` is FIFO, which is more than the model assumes.

A page that is overtaken needs two requests, and so does one that outlives its
session, since the login's own is settled before a page opens; a page past the end
of a filter needs two rows at one per page. In `Register`, four postings over pages
of one, two and three give full, short and empty pages. `LargestNumber` = 15 lets page
numbers reach past the end of every book and, if the product kept the number's own
width, wrap.

`Clients` is bounded by `MaxStarts` and `MaxEnds` (processes started, and ended or
signalled), `MaxCalls`, `MaxKeys`, `Posted` and `Refusals`. A schema collides with
two processes, and the second of them finds the tables, or the lock free after the
first died with it. The end is a death or a signal; a panic follows a signal and costs
none. Losing an answer and retrying takes two
calls, a second entry two keys, a reused key a second content. Two calls are also
two handlers at once, on one replica or on two. `Posted` is one content, since the
command line's edits are new calls, and `Refusals` is one of three refusals that the
clients treat alike. A terminal runs one command at a time, and there is one.
Amounts have units of a hundred nanos and one digit past the last, and a range of
-4..3: every sign, boundary and fraction occurs; the widths of the code are
`AmountsAlwaysSurvive`'s. The form's doubles have `Precision` = 10 binary digits, enough
for a unit's nanos and not for the range of the amounts typed, which goes to twice what
the digits hold, and `Finest` = 17 places for fractions: an amount of one nano keeps all
its digits. A unit of ten nanos would not do: it multiplies back exactly and never needs
the rounding. Drafts for the fingerprint hold digits, delimiters and the
format's own words in every text.

`FairSpec` of `Clients` says that a process goes on with `main` and that a call whose
client waits (`Waited`) is taken, answered, delivered or found lost; the Go runtime and the network
stacks' timeouts justify it. Nobody has to start a process, press a button or give
up, and `EveryReplicaServes` allows a process to die. `FairSpec` of `WebReads` says
every request ends, by an answer or by the browser giving up on it; it asks nothing
of the operator, who may refresh for ever, so `EveryReadEnds` says of each read that
it ends or is overtaken.

Deadlock is checked in every run but `Clients` and `CliTimeout`, where the bounds on
calls, keys, starts and ends run out and everything may rightly stand still; the
liveness properties say what may not. In the write path the only
states without a step of the service are those where every call is answered, and
`Finished` marks them.

## 4. Proofs

`tlapm` checks these for all values of the constants, from the named assumptions
`DateConstants`, `DataConstants`, `DraftsRecordable`, `LedgerConstants`,
`RegisterConstants`, `WebConstants`, `ReplicaConstants`, `ClientConstants`,
`WireConstants`, `RequestConstants`, `CommandLineConstants`, `FingerprintConstants` and
`ListingConstants`, which TLC evaluates on the runs of the modules that have them. `RegisterConstants` asks that a page number can
count past the postings of one account (fewer than 2^31 - 1): beyond that no caller
could turn to the last page of size one, in the code as in the model. `WireConstants`
asks that upper-casing a word twice is upper-casing it once and that the type names are
in upper case; `RequestConstants` gives a request's postings the types of the message.
`FingerprintConstants` says what `strconv` and the format string give: digits that
differ from each other and from what follows a number, and drafts of finitely many
texts, whatever characters those hold. `ListingConstants` says what the tables are:
finitely many transactions under ids of their own with a leg or more each, legs whose
type has a name and whose user and name are not null, and no more of them than a page
number can count to; `MaxLegs` bounds a transaction's legs only to write a leg's id as a
number.
Three theorems have a hypothesis of their own: `WaitsEnd` and `BooksBalance` want
finitely many accounts, as a table has; `LedgerImplementsBook` wants `Dates` to hold
every natural number, since a chain of stamps has no last date (the finite `Dates` of
the runs is enough for the dates their bounds allow).

| Theorem | Property | Argument |
|---|---|---|
| `TypeCorrect` | `TypeOK` | inductive by itself |
| `ResolvedDateIsPast` | | a lemma on the date rule, by cases: no posting read under the locks lies past the settled date, and a stamped date is strictly past them |
| `BalancesCorrect` | `RunningBalances` | each leg extends a chained row by one link; a lock, a commit and a rollback copy rows |
| `DatesCorrect` | `DatesForward` | `LocksInv` and `DatesInv` |
| `KeyRecordsOnce` | `ExactlyOnce` | `KeysInv` |
| `CollisionsAreReal` | `RetryNeverCollides` | `KeysInv` |
| `RefusalsRecordNothing` | `RefusedLeavesNoTrace` | `TraceInv`: only a holder's postings are on a row; `KeysInv`: a taken key belongs to a call that is not refused; `LocksInv`: a call that is answered holds no lock and no connection |
| `GuardsHold` | `GuardHonoured` | the holder's leg is the last posting of its row, rows chain, so the snapshot the guard reads is the balance that is committed |
| `WhatIsStoredCanBeRead` | `ReadsNeverFail` | `BalancesFit`, for a leg's amount from `DraftsRecordable` (`LegAmountFits`) |
| `BackdatedForGood` | `BackdatedIsFinal` | `SuppliedInv`, `DatesInv`: the overtaking posting is committed and supplied dates are stored as asked |
| `ReplaysAreTheSame` | `ReplayIsTheSame` | `KeysInv`, `SuppliedInv`: equal fingerprints record equal facts |
| `StampsStrictlyPast` | `StampedStrictlyPast` | `StampsInv` |
| `WaitsEnd` | `NoWaitCycle` | `InOrder`: what a call has locked comes before what it still wants, so whoever it waits for has strictly less ahead; with finitely many accounts a ring has a least |
| `InductiveHolds` | `Inductive` | the conjunction of the parts |
| `WholeOrNotAtAll` | `AllOrNothing` | `LegsInv`: a row a call holds carries just its legs up to the one it posts next, so a commit publishes all of them, once; and a row changes only under its holder's commit |
| `BooksBalance` | `TrialBalance` | `DriftInv`: what the rows under a call's locks have moved by adds up to its legs so far, which is zero after the last because `DraftsRecordable` has legs that cancel |
| `LedgerImplementsBook` | `ImplementsBook` | `WritesInv`: each row a call holds is the committed row with the call's legs applied one after another at its date, which at the commit is the row `Book` promises; every other step leaves the tables alone and answers what `Book` may answer in that state |
| `RegisterTypes` | `Register`'s `TypeOK` | every page is cut inside the register and no offset wraps, from `RegisterConstants` |
| `NothingIsMissed` | `PagesMissNothing` | `OwedAhead`: how many postings lie above one is its rank, which never falls as others are posted, so what a walk still owes is on the pages it has not read; an empty page leaves nothing owed |
| `BalancesReadOn` | `BalancesFollowTheirWriter` | `CommitInv`: where a tie on the date has one writer, dates and ids order postings as they were committed (`ListedAsCommitted`) |
| `TotalsEndWalks` | `TotalEndsTheWalk` | `OwedAhead` and `ListedAsCommitted`: postings counted before a page are among the first `total` rows |
| `TheListingsAgree` | `ListingsAgree` | a statement returns each row once, at the place its rank gives (`SortedFacts`); pages cut from it make it up again (`PagesJoin`); legs joined to their transactions gather back under them (`WholeGathered`), page by page (`JoinedPageFacts`); and both reads choose the legs of the same transactions (`SameLegs`) |
| `PrintedAccountsAreReadBack` | `PrintedAccountsReadBack` | a text of one piece is that piece, one of more adds parts (`SplitFacts`, `PrintedFacts`), and a stored type's name reads back as that type (`NamesReadBack`) |
| `AccountsAreApart` | `AccountsStayApart` | what reads back asks for the account's own columns (`PrintedIsReadBack`) and so selects its postings (`RegisterSelects`); the first page holds all of them or the total counts more (`FirstPageFacts`); a balance is listed under its own type's name only (`BalancesSelected`) |
| `AmountsAlwaysSurvive` | `AmountsSurvive` | a quotient that drops the fraction leaves a remainder of the number's sign (`TruncatedSplits`), and such a pair is unique (`TruncatedJoins`) |
| `OnlyRecordableDrafts` | `OnlyRecordableDraftsReachTheLedger` | a leg that is let through is in range and comes back as sent (`PostingIsSettled`), the stored amounts add up to what the request's did (`SumsAreKept`), and a stored type's name is that type's (`StoredTypeIsKnown`) |
| `FingerprintsDiffer` | | two drafts hashed from the same bytes are the same draft: whatever follows it, each part of the bytes can be cut off again in one way only |
| `FingerprintsTellApart` | `FingerprintTellsDraftsApart` | `FingerprintsDiffer`, and hashing is then a bijection on finitely many drafts |
| `SchemaCreatedOnce` | `SchemaNeverCollides` | `ReplicaInv`: who creates holds the lock and found no tables |
| `ClientTypes` | `Clients`' `TypeOK` | with `Tidy`: a call is in at most one handler, and in one just while it is `handling` |
| `EntriesOnce` | `EntryRecordedOnce` | `EntryIsItsKey`: the form, its calls and the book hold each entry under the key drawn for it |
| `AnswersHold` | `AnswersAreTrue` | `BookedCallsAreAnswered`: a call that recorded is answered, or cut, or over |
| `BannersAreTrue` | `BannerIsTheLastSubmission` | `BannerInv`: the call waited for is the last one pressed, and a book entry never changes (`PastStays`) |
| `WebTypes` | `WebReads`' `TypeOK` | inductive by itself, from `WebConstants` |
| `ScreenIsTrue` | `ScreenMatchesRequest` | `ScreenInv`: the read a page waits for asked with the page's number, filter and token |
| `SessionsApart` | `RowsAreThisSessions` | `ScreenInv`: a token is pasted only where no page waits or shows rows |

**The inductive invariant** is the conjunction `Inductive`, in the parts each
theorem needs; TLC checks it in `Dates`.

- `LocksInv`: a row has one lock holder, who asked for it; from the insert on a
  call holds every row it touches; outside its database transaction it holds no row
  and no connection; a row nobody holds is as committed. Without
  it, another call could move what a call has read.
- `DatesInv`: nothing on a row a call holds lies past what the call has read there
  (`latest`), nor past the date it has settled on. `DatesForward` alone is not
  inductive: it says nothing of the date a call is about to write.
- `KeysInv`: a key is taken by a committed transaction or by one call between its
  insert and its commit, never by both; every answer names the key's transaction
  or a real collision.
- `SuppliedInv`: a supplied date is stored as supplied, and is refused only for a
  posting that is committed already.
- `TraceInv`: a row under its lock is the committed row with the holder's postings
  after it.
- `LegsInv`: how far a call has posted, and that a row under its lock has exactly the
  legs before that. `AllOrNothing` looks at commits only and says nothing of a call
  between two legs.
- `StampsInv`, `BalancesFit`: the strict bound for stamped dates, and the range of
  amounts, running balances and snapshots.

The proofs add three parts that need operators no run evaluates: `DriftInv` and
`Balanced` and `WritesInv` in `LedgerBookProofs`.

`StepKinds` splits a step into those that touch no row, a rollback, and the five
actions that change rows, so that each part has one proof step per kind. The
`StepKinds` of `ClientsProofs` does the same: a step sends a call, handles one, or
keeps what the calls asked and were answered.

**Sums and repeated steps.** The code's loops appear in the properties as folds: the
sum of a transaction's legs, of all balances, a row with every leg applied. A fold
unfolds over the subsets of a finite set, one chosen element at a time, and the library
has no induction for that which these provers can use. `FoldProofs` does it from the
library's facts on finite sets and natural numbers: `InductionOnSubsets` (a collection
that holds the empty set and grows element by element holds every subset),
`RecursionOnSubsets` (a function that unrolls so exists), from them that sums exist,
add and are numbers (`SumsFacts`, `SumsAdd`), and that any fold from the left that adds
is the running tally (`TallyFacts`). `DriftFacts` and `RowAfterFacts` say the same of a
draft's legs and of a row.

**Paging.** `RegisterProofs` needs one number for a posting's place under every order the
ORDER BY admits: how many postings it has above it. `OrderFacts` says
a statement returns each posting at that place, `PageFacts` that a page therefore has
those from its offset on, and `PostsAbove` that a posting recorded meanwhile never
lowers another's number. So a row can be read twice and never skipped.

`AmountsAlwaysSurvive` has `WellFormed` and the ranges of the quantifiers over the
constants `NanosPerUnit`, `MaxUnits` and `Finer`, so 10^9 and 2^63 - 1 are instances
of it; its two lemmas hold of every integer. It assumes that an absent message is not
an amount. It says nothing of the form, whose doubles are `FormAmountsHold`'s.

**Fingerprints.** `FingerprintProofs` takes the bytes apart from the left. Two texts
*cancel* when no continuations can make them equal unless they are equal and the
continuations too. Numerals of different numbers differ (`NumeralsTell`, by
`RecursionDown` of `FoldProofs`, which gives the recursion on quotients) and hold no
delimiter (`NumeralFacts`), so a number ends at its delimiter (`CancelDelimited`) and a
field where its length says (`FieldCancels`), though the text may hold delimiters and
digits itself. Lists of one length cancel text by text (`ListCancels`), counts tell the
lengths (`CountFacts`), and a draft without a date is told from one with by the
character that follows: a count opens with a word, a field with a figure (`DatesTell`).

**Listings.** `FlattenSeq` and `Grouped` are loops over a sequence, so `ListingProofs`
unrolls them: `FlatPlaces` of `FoldProofs` says where each member of each part of a
flattened sequence is, and `GroupedUnrolls` that rows are gathered one after another.
`OneGathered` then goes through one transaction's legs and `WholeGathered` through the
transactions. The legs of a transaction follow one another on a page because the page is
cut before the join; with the slip `JoinedPageOfLegs`, which cuts after it, TLC reports
the property. That any page size will do rests on `OffsetFacts` of `RegisterProofs`: no
product of a page number and a size wraps.

**Only model-checked.** Every safety invariant and action property of the passing runs
has its theorem, but `FormAmountsHold`: that a double is within a nano of the amount is a
matter of powers of two and quotients of unbounded numbers, which the SMT solver does not
decide, so it is checked for every amount of the run's smaller doubles. The liveness properties `EveryCallIsAnswered`, `EveryReadEnds`,
`EverySubmissionEnds` and `EveryReplicaServes` are out of the prover's reach and are
checked on their runs' instances only.

## 5. Findings

- **A retry can be refused as too far ahead** (`RetryOwed`).
  `postgres.go:258-261` returns `ErrDateTooFarAhead` without the second look at
  the key that the backdated branch takes at 262-276. The clock it is judged on is
  read at 223, before the locks. A call that read its clock, or is served by an
  instance whose clock is behind, before an identical call was recorded, is
  refused although the key holds its transaction. `README.md:297-300` promises a
  replay, and the comment at 266 says a retry is owed one.
- **A stamp on a new account is a microsecond after now** (`StampIsNow`). The lock
  loop seeds a new row with the provisional date and reads it back as the latest
  posting date, so `resolveDate` advances past it though there is no posting.
  `README.md:289`, `date_test.go:26` and `ledger_service_test.go:780` say the
  stamp is now.
- **Tied dates are listed out of order** (`TiedDates`). `postgres.go:600` breaks a
  tie on the date by UUIDv7, which follows the clock of the instance that drew it.
  Two instances recording at one supplied date are listed by their clocks, not in
  the order their running balances were applied. Where no two instances share a
  date the orders agree (`BalancesFollowTheirWriter`).
- **"That write never landed" of one that did** (`NeverLanded`). Refresh and a
  turned page read with the controls of the moment and keep the page number, which
  only Apply resets. On a later page a filter that matches one transaction gets an
  empty page, and `transactions/index.vue:153` tells the operator that nothing
  matches.
- **A late refusal ends the next session** (`LateRefusal`). `useLedgerApi.ts:54`
  drops the token in use when any 401 or 403 arrives, though the request carried
  another.
- **A timeout is worded as the ledger's refusal** (`CliTimeout`). `fail` at
  `cmd/cli/main.go:116` words every status but Unavailable as "the ledger rejected the
  request". A call the command line gives up on after its ten seconds (270) ends with
  DeadlineExceeded; the ledger has not refused it and may have recorded it. The comment
  at 108-110 says a transport failure is not worded like a rejection.

Seen while modelling, within what the properties allow:

- *The form's exactness.* `transactionForm.ts:36-37` gives up nine decimals above about
  9,007,199 units (2^53 nanos). With real doubles as with the run's, every amount is exact
  up to a quarter of that and may be a nano off from there on, which `FormAmountsHold`
  says. Past some 2^33 units the division at line 50 may round up to a whole unit:
  8589934593 becomes 8589934592999999488 nanos, on which the sum is checked, and is sent
  as 8589934593 units and 999999488 nanos, nearly a unit more. The comment at 59-60 says
  that form and server "cannot disagree about what zero is"; `FormAmountsHold` asks that
  they agree up to 2^53 nanos only.
- *Colons in accounts.* `docs/adr/0002:5-6` makes `:` a literal character of a name. The
  command line prints such an account (`cmd/cli/main.go:367`) and refuses it when it is
  given back (346), and no argument names it; two accounts may be printed alike. It is
  never taken for another account, which is what `PrintedAccountsReadBack` says.
- *Shutdown with calls in flight* ends in a panic (`cmd/server/main.go:175`), not in the
  graceful stop the log line at 180 reports. What clients are told stays true.

## 6. Not modelled, and what could follow

Left out for good:

- *Web UI filters and rows*: pure reshaping of forms into requests and of answers
  into table rows, with no state of its own.
- *Server assembly* beyond the process's life: CORS, metrics and the health
  service's answers.
- *Generated bindings* beyond the routes, the method table, the order of decoding
  and interceptors, the scopes option and the enum: message types and descriptors
  carry no logic.
- Page layout, column widths, date formats, logging.
- SHA-256, taken to be collision-free; a token's signature, algorithm and times,
  taken as one fact; Postgres, grpc-go, the browser and Nuxt, modelled by what the
  code relies on and marked external.

Three things the code does that the models show and no property is about: that applying
a filter reads once (so by the shape of `Apply`); that a recorded submission routes the
operator away from whatever page is open by then, which `Show` models; and that an answer
to a login that was left clears a token or moves the operator (`LoggedIn`, `Broken`).
Nothing in the repository says what should happen there.

What could follow: `Listings` reads tables that hold still, and `Register` has the two
statements of a listing for one account; the pages of whole transactions, read while
transactions are recorded, could be modelled as `Register`'s are.
