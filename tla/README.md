# Verification of the customs declaration service

TLA+ models, TLC runs and TLAPS proofs of the service under `src/`: documents of
a shipment are uploaded, read by OCR and a language model, resolved into one
customs declaration, corrected by a reviewer, and exported as XML.
All paths below are relative to `src/backend/` unless they begin with `src/`.

- [The system](#the-system)
- [What is modelled where](#what-is-modelled-where)
- [Runs](#runs)
- [Proofs](#proofs)
- [Findings](#findings)
- [What is not modelled](#what-is-not-modelled)
- [Plan](#plan)

## The system

### Components

| Component | Code | State it keeps | Operations |
|---|---|---|---|
| Job lock | `app/services.py` 106-187 | a lock per job in use, a count of its users | enter, leave |
| Job service | `app/services.py`, `app/models.py`, routes in `app/main.py` | the job row, its document rows, artifacts on disk | upload, re-upload, extract, decide role, remove, review, finalize, reviewer mutations, start-up sweep |
| Item mutations | `app/review/item_mutations.py` | `Job.item_mutations`, a JSON overlay | add, delete, edit, bulk COO, totals, HS, BMS, reset on new evidence |
| Queue producer | `app/queueing.py`, `producer.py` | none (SQS) | claim and send, release when the send fails, probe |
| Worker | `worker.py` | one message per thread, its heartbeat | receive, look, take over, run, dispose |
| Release script | `scripts/release_stuck_extractions.py` | none | put stuck claims back |
| Critical review | `app/review/` | none | compute review and fingerprint, merge a confirmation |
| Pipeline, builder, validator | `app/pipeline.py`, `app/declaration/` | none | evidence + overlay + selections -> review; review + confirmation -> declaration, its messages, whether an XML is built |
| Rules | `app/rules/`, `app/numbers.py` | none | allocation of weights, cartons, freight; authority cascades; packing match; HS and COO resolution |
| Extraction | `app/extraction/`, `app/ocr/` | two gates on provider calls, a deadline per document | plan windows, read, repair, ask again, merge, judge |
| Learned stores | `app/extraction/layout_memory.py`, `field_profiles.py` | rows per vendor, written in transactions of their own | observe, propose |
| Accounts, limits, metering | `app/auth*.py`, `app/accounts.py`, `app/metering.py` | attempts per limiter, deny-list, admins, caps, usage rows | sign in, register, reset, disable, extract against a cap |
| XML, workbook, reference data, storage, front end | `app/xml/`, `app/reference/`, `app/storage.py`, `src/frontend/` | files | format, look up, serve |

### How they interact

A request loads the job, then takes `job_lock` and *reads the row again*
(`_fresh_under_lock`), changes it, discards or recomputes what was derived from
it and commits. Uploads, extraction claims, failed extractions and the start-up
sweep write document rows *without* that lock, with conditional updates on the
status column. The extraction itself, minutes long, runs outside the lock and
takes it only to store its result. In queue mode the request claims the
document, commits, and sends a message; a worker takes the claim over.
The reviewer's entries are kept apart from the evidence, keyed by item id, and
applied again whenever the job is computed; when a document changes,
`reset_for_evidence_change` discards the entries that were made against it. A
confirmation carries the fingerprint of the review that was shown.

What is computed is a chain of pure stages: the transport documents elect one
authority for weight and packages; the invoices' rows become one list; the
packing lists' rows are matched to it; weights and cartons are divided over it;
HS codes, origins, supplementary quantities and freight follow. The same chain
runs again in finalize with what the reviewer confirmed, and its result is
judged by gates that differ between strict and warn mode.

One document's extraction is itself concurrent: page windows run on a pool and
queue at a gate shared by the process (and a second one for calls with a budget);
each has its repair rounds; a parser may own some pages; the merge deduplicates,
asks again for pages that stayed empty, and warns of what it cannot vouch for.

### What is hard here

- **Interleavings**: concurrent requests of one job, some under the lock, some
  not; state read before the lock and used under it; the dictionary of locks is
  itself shared.
- **Two systems, no transaction**: the claim lies in the database and the message
  in SQS. Either side can fail or be delayed, messages come twice, workers die.
- **Stale derived values**: review, declaration, XML, workbook, fingerprint and
  reviewer entries are all functions of inputs that go on changing.
- **Identity by position**: the id of an extracted row is a hash of invoice
  number, date and position, so different evidence can have the same ids.
- **Two fields validated apart, related together**: weights, order and rows.
- **Rounding against exact sums**: every share positive, on a lattice, pins
  exact, the sum the authorised total; printed figures that disagree with it.
- **Cascades of documents**: any number of house and master waybills, sea bills,
  delivery orders and unreadable forms, in any order; invoices inside bundles.
- **Check, wait for an outsider, record**: limiters and quota hold nothing
  between the count and the row.
- **Partial reading**: windows fail or run out of budget one by one, and the model
  drops, repeats, borrows or invents rows; what was read must be kept and what
  was not must be said.

### What makes each component correct

| Component | Properties |
|---|---|
| Job lock | one body per job at a time; an entry exactly while used; a raising body does not wedge the job |
| Job service | nothing derived outlives its inputs; entries fit the evidence; a confirmation contains what was shown; a claim has a run and ends |
| Queue | a claimed document is never forgotten; it is decided or dead-lettered |
| Item mutations | order, rows and entries stay in step; nothing declared changes behind the revision; discards are announced; each operation changes exactly what it is about |
| Rules | sums are the authorised totals or a code says why not; pins exact; printed figures move last; a remedy that is offered works; the order of uploads does not matter; each printed row once |
| Pipeline | an XML is built only of a declaration that adds up and holds no guessed code |
| Extraction | a table without a warning is complete; paid rows are kept; every extraction ends |
| Learned stores | a store never learns from its own output, and loses no observation to a concurrent one |
| Limiters, quota | the limit is overrun by no more than what is in flight |
| Sign-up, reset | the answer does not tell a known address from an unknown one |

## What is modelled where

    JobMutex  <= JobLock
    DeclarationJob <- MC_DeclarationJob, DeclarationJobProofs
    ExtractionQueue <- ExtractionQueueProofs
    ItemTable <= ItemOverlay <- MC_ItemOverlay, ItemOverlayProofs
    Allocation <- Shipment <- MC_Shipment
        TransportAuthority, PackingMatch, InvoiceAuthority, ItemRules, Declaration, Documents  (instances of Shipment)
    Allocation <- AllocationProofs <- ResolutionProofs <- ShipmentProofs  (the last two extend Shipment)
    JobLock, Access, FieldProfiles <- ServiceProofs
    Extraction <- ExtractionProofs
    Extraction, Access, FieldProfiles <- MC_Service

(`A <= B`: B is shown to implement A. `A <- B`: B extends A.) The models meet at
named points. `DeclarationJob` takes the lock as one step because
`JobLock` implements the mutex; it runs extraction within the request because
`ExtractionQueue` shows what becomes of a claim with a queue in between, and
`Extraction` what the extraction itself does; it keeps
one entry for each kind of reviewer entry because `ItemOverlay` shows what becomes of all
of them, with each operation one step because it runs under the lock. It knows a
derived value by the inputs it was computed from; `Shipment` is the other half, the
computation itself, one request at a time, because the lock makes it so.

### JobMutex, JobLock

`_in_process_job_lock`: the guard, `setdefault`, the count up, the job lock, the
body, the count down, and the deletion of the entry by whoever leaves last. One
action per statement, since any two threads may interleave there; a program
counter per thread, the lock objects are values that are allocated anew.
`JobMutex` is the promise: who is in the body of which job. On Postgres
`pg_advisory_xact_lock` makes the same promise; it is external.

### DeclarationJob

One job. `docs` are the document rows, `job` the job row with its overlay,
selections, review, declaration, XML and workbook, `lock` who holds `job_lock`,
`req` where each request is, `view` what each client was last shown. A derived
value is represented by the *inputs it was computed from*: that is what every
property about staleness needs, and the reason no value is computed. A request
is `Start` or `Enter` (what is checked before the lock), `Acquire` (lock and
re-read) and a `Commit...` (body, commit, release). Uploads (`UploadCheck`,
`UploadInsert`), `Claim`, `ExtractFails` and `Restart` do not take the lock,
because the code does not.

The reviewer's answers to finalize are abstracted to the verdict it branches on:
ready, blocking errors, an error of `WARN_MODE_HARD_CODES`, or a wrong item count.

### ExtractionQueue

`doc` (status, and whether the OCR envelope is stored), `msg` (on the queue, in
flight with its receive count, deleted or dead), `prod` (calls of
`enqueue_extraction`), `work` (calls of `process_message`), and a history
variable `stranded` that records which of the two known holes lost a claim.
Every step is one commit or one SQS call, so a process may die, and a call fail,
between any two. `Faults` says which failures a run allows. SQS is external:
visibility timeouts expire when nobody extends them, and `MaxReceive` deliveries
lead to the dead-letter queue.

### ItemOverlay, ItemTable

`item_mutations.py` in full. `overlay` has the fields of the JSON document,
`evidence` says how many rows the invoices have, with what lineage, and which extraction
they are of, `items` is what `apply_item_mutations` makes of both: the last
conjunct of `Next` is the recompute that ends every operation in `services.py`. Arguments are
arbitrary, as they are when a browser tab is out of date. Texts are a model
value; the numbers that relate to one another (the pinned weights) or that are
rounded (q2, q4) are numbers: requests in quarters of the last stored decimal, so that
rounding half up happens. Quantity, unit and total price behave like the
description (validated alone, replaced alone) and are represented by it.

`ItemTable` is what the reviewer is promised: a numbered table in which adding,
deleting, editing, selecting, bulk COO, totals and new evidence each change
exactly what they are about. It knows no overlay. `ItemOverlay` implements it
with `rows <- items`.

### Shipment and the rules

`Shipment` is one job whose files are attached in any order, whose reviewer pins
weights and cartons, sets totals, takes the remedy a blocked table offers,
selects HS codes, and confirms. `Context` is `resolve_context`, `BuiltReview`
`to_critical_review`, `Finalized` `finalize`. Each is a chain of operators
(`AuthorityStep`, `LadderStep`, `GrossStep`, `CartonStep`, ...; `OfDocuments`,
`OfInvoices`, `OfTransport`; `ConfirmStep`, `WeightStep`, `CostStep`, `GateStep`), each
handing its stage's result to the next, in the order of the function they
translate.

| Module | Code | Notes |
|---|---|---|
| `Allocation` | `rules/weight_carton.py` | everything in it: basis, authorised gross, net ladder, rejected descriptions, pins, caps, floors, `apportion`, `_largest_remainder`, carton pins and who absorbs them |
| `TransportAuthority` | `rules/airwaybill_authority.py` | kind of form, identity, the lower weight, the pick, Field 40 |
| `PackingMatch` | `rules/packing_match.py` | the rungs of the match, cartons shared by rows of one list, division by quantity |
| `InvoiceAuthority` | `rules/invoice_authority.py` | virtual invoices inside a file, proformas, totals |
| `ItemRules` | `rules/hs_resolver.py`, `coo.py`, `supplementary_unit.py`, `freight.py`, `banking.py` | per item |
| `Documents` | `extraction/common_models.py` | what the extraction of each kind of document yields: the types of the rules' inputs |
| `Declaration` | `review/critical_review.py`, `declaration/`, the gates of `pipeline.py` | fields, confirmation, valuation, validator |

`Shipment` assumes of its constants what the code guarantees: documents are records of the
extraction's schema with whole figures (`DocumentsAssumption`), what a reviewer may enter is
not negative (`EntriesAssumption`: `item_mutations.py` refuses anything else), the tariff table is
finite and names codes that exist (`OfficialAssumption`), a text has finitely many words and a
place in the order of the keys (`MeaningAssumption`), a carton range has a size
(`GroupRangeAssumption`). A unit's mass is a fraction of positive numbers (`UnitMassAssumption`).
TLC evaluates all six.

Numbers are whole steps of the lattice they are declared on. A text is a
constant with a meaning (its words, size and product codes): what the matcher
*decides* is modelled, how a text is normalised and split is data.

A transport form and a packing list print their gross in a unit. The figure as it is printed is what
the comparison of forms and the proration of freight use; what the items are allocated is
that figure in kilograms (`Kilograms`), rounded to a whole step. A unit that nobody
knows, or none, counts as kilograms, and the gross has to be vouched for. Totals
that the reviewer enters are in kilograms; a confirmation may change the unit as well as the figure.

### Extraction

`openai_extractor.py` with its parser, validator and layout memory. `document`
is what is printed: pages of lines that may print goods, an identity, an amount
and arithmetic that closes. `window` holds each page window's state, permit and
best reply, `layouts` what is remembered of a vendor. A reply is any that the
habits of the behaviour allow: rows dropped, repeated, borrowed from another
page, invented, blank, garbled, a refusal, a transient error. The deadline of a
packing list may pass at any moment.

### Access

The limiters of `auth.py`, the account tables, the monthly cap and the provider
behind the routes. Every route is two steps or more: it counts, waits, records;
`Requests` are the requests that can be between those points. `counted`
repeats the recorded attempts without pruning, `allowance` is the cap an account
was last let through under, `told` what each kind of address was answered:
history the properties need. The provider sends mail to a new address that signs up and to a known
one that resets its password (`Mailed`), and only then can sending fail or be too much.

### FieldProfiles

One vendor's remembered country of origin. A finalize decides what its job says
(the profile's own proposal included, as the code does), reads the row, and
commits; two finalizes interleave between these. A row that exists is locked
from the read to the commit; a row that does not cannot be, and the loser
of the race to insert it tries again.

## Runs

| Run | Module, cfg | Question |
|---|---|---|
| `job_lock` | JobLock | does the reference-counted dictionary exclude, clean up, never wedge, and implement the mutex? |
| `job_derived` | MC_DeclarationJob, JobDerived | can anything derived, or any entry, outlive its inputs? |
| `job_reviewers` | MC_DeclarationJob, JobReviewers | can a confirmation contain what its reviewer was not shown? |
| `job_documents` | MC_DeclarationJob, JobDocuments | does every claim have a run, and end? |
| `queue` | ExtractionQueue, Queue | can a claimed document be forgotten? |
| `item_overlay` | MC_ItemOverlay, ItemOverlay | do order, rows and entries stay in step, and does each operation do exactly what it says? |
| `shipment` | MC_Shipment, Shipment | does what is declared add up, whatever is uploaded, pinned and confirmed? |
| `service` | MC_Service, Service | is a table without a warning complete, and are limits, quota and the vendor's profile kept under concurrent requests? |
| `job_role_gate`, `job_fingerprint`, `queue_stale_message`, `queue_commit_fails` | | the four findings |

### Properties

- `MutualExclusion`, `EntryMatchesUse`, `JobNotWedged`, `ImplementsJobMutex`.
- `DerivedIsCurrent`: review, declaration, XML and workbook were computed from
  exactly the evidence, entries and selections the job holds now.
- `EntriesFitEvidence`: no entry outlives the documents it was made against.
- `ConfirmedEntriesWereShown`: one revision never stands for two sets of entries.
- `ClaimHasRun`, `ClaimReleased`; `ClaimHasBearer`, `ClaimSettles` in queue mode.
- `MutationsAccepted`: `validate_overlay_invariants` never refuses an addition
  within the list or a deletion from it. Were the order to fall out of step once, the job's
  list would be frozen for good.
- `EntriesOfActiveRows`: no entry waits for an id that has no row.
- `NetBelowGross`: holds of the pinned pair although its parts are entered,
  cleared and rounded in different requests.
- `RevisionTellsChange`: nothing that is declared changes without new evidence or a
  higher revision; it is what `ConfirmedEntriesWereShown` relies on.
- `LossIsAnnounced`: the notice of discarded entries shows when they were
  discarded and until the next mutation.
- `ImplementsItemTable`.
- `ReconcilesOrBlocks`: a table adds up to the authorised totals to the last decimal, with
  every pin exact and every net below its gross, or carries a code that blocks.
- `PrintedFiguresMoveLast`: a net that the invoice, a unit of weight or a packing list states
  is declared as it stands (only one read out of a description is ever rejected); a carton count the packing list prints moves only when every
  estimated row is at its least.
- `RemedyUnblocks`: the total a blocked table proposes is enough.
- `LowestAwbDecides`: an air waybill that states the gross is the lightest that prints
  one; when no two weights are equal the gross is the same in every order of the uploads; the
  house number of the one that is lighter than all others is Field 40's. It promises no more than
  that because the code does no more: among equal weights the later comparisons rescore what
  an earlier one has demoted, between delivery orders or tracking forms the pick takes the first of the best,
  and Field 40 falls back to whichever number it meets.
- `RowsOnce`: each printed row is declared once, in its place: file by file, within a file
  invoice by invoice in the order of the pages they start on, within an invoice line by line. Where a file
  or a bundle has anything but proformas, those are left out. The list says so place by place, in
  terms of pages and lines alone: as many entries as rows are printed, and a row at the place
  that the rows printed before it leave it. A bundle of the run has a
  proforma of two pages and a line of its first page printed last. No XML is built
  of an invoice that two documents contain.
- `EvidenceConserved`: what the packing lists print is neither lost nor counted twice. The
  gross and the net of the items are those of the matched rows, up to half a step an item
  for the rounding of its share; when every row is matched, so are the cartons. How many
  cartons there are is said of the uploaded lists, not of what the matcher makes of them: of each list the
  rows without a mark, and each of its marks once. The same mark in another list is
  other cartons: merging them is a bug the code once had (`packing_match.py` 263-270), and
  the run uploads the lists of two suppliers whose marks are equal. Where some rows
  are not matched the cartons are at most all there are, but for the
  roundings of items and rows; that needs quantities that are not negative, since a row
  of a negative quantity takes a negative share of its group (`packing_match.py`, pass 2).
- `CostsAddUp`: the lines' freight and insurance are those of the declaration. The freight is
  what the reviewer entered instead of the proposal, and otherwise the highest of the candidates that are
  in the invoices' currency or state none, and nothing when all of them are foreign. This is said
  of the candidates themselves, and jobs of the run mix currencies. The lines' CIF values,
  each rounded to the national cent, are the declaration's up to a cent a line.
- `XmlReconciles`: what holds of a declaration an XML is built of. The weights add up to the
  confirmed gross, in kilograms, exactly; so do the cartons, but for a package total too
  small for its rows, where the code lets the validator's tolerance pass (see the
  observations). A ready one has no gross of an unknown unit that the reviewer has not vouched for.
- `CleanMeansComplete`, `PaidRowsKept`, `EveryExtractionEnds`.
- `LimitsHold`, `QuotaOvershootBounded`: the exact amount by which concurrent
  requests may pass a limit that is checked first and recorded afterwards.
- `AnswersAlike`: in every condition of the provider.
- `ProfileIsItsEvidence`: what is remembered is what the last confirmed job, or
  each of the last agreeing jobs, states itself, and every agreeing job is counted, once: of two
  finalizes that read the same count, neither overwrites the other's.

Each property has a mutant, a plausible bug in the mapped definition under which the same
run finds it violated.

### Bounds, and why they are enough

- `JobLock`: three threads, two jobs, three lock objects. Two threads make and
  drop an entry while the third holds a reference to the old one; the second job
  shows that jobs do not disturb each other.
- `DeclarationJob`: two requests at a time, since every hazard listed is between one request
  and one other (or a write outside the lock, which a request is too). An
  invoice and a packing list have different reset scopes; two files of
  one role are a replacement or a twin. `MaxRev` bounds the reviewer's mutations: one is
  enough for an entry to become stale. `Ops` limits each run to
  the operations that matter for its question; between them the runs issue all.
  `job_derived` has no re-attachment: with it, what it asks is not so (see the
  observations).
  Two clients are interchangeable, and no temporal property is checked where
  symmetry is used.
- `ExtractionQueue`: one document (documents do not interact), two messages, two
  workers and two deliveries: a duplicate, a takeover and a dead letter.
- `ItemOverlay`: at most two extracted rows and one manual row, so lists of
  up to three; three mutations (`MaxRevision`, resets included) and two extractions, so
  that ids come back. Nine requests set, clear and round each kind of number.
  The theorems below hold without these bounds.
- `Shipment`: weights in steps of 0.1 (`One` = 10), so that rounding leaves
  residues on lists of up to `MaxItems` = 4 items; cartons in twentieths (`CtnOne` = 20),
  so that one step is the validator's tolerance, with a confirmation whose packages
  are one step too few for two rows; one donor before a pin needs a second (`CtnDonorMax` = 1); two
  entries of the reviewer. Thirteen jobs of at most four files are chosen so that each
  rung of each cascade is reached (a bundle and its copy, a proforma, two
  currencies, shared cartons, equal and near texts, a list over budget), and
  84 more combine an invoice with three of nine transport documents. The files
  of a job arrive in every order, or not at all. Two transport documents print no unit, one prints
  pounds, one a unit that nobody knows, and a confirmation may change the unit to pounds.
- `Extraction`: windows of two pages, so that five pages overlap; two permits,
  two repair rounds, one retry. A fourteen-case list pairs documents with the habits
  that matter to them; any one habit may show in any reply.
- `Access`: two requests at a time, two clients, two accounts and a stranger;
  rules of two attempts in two ticks (sign-in), and one in one and two in two (sign-up,
  reset), retention equal to the longest window, so that pruning meets the edge.
  `MaxNow`, `MaxEvents`, `MaxSpent` bound time and history. The scenes
  of MC_Service do not interact: a behaviour is one of them.
- `FieldProfiles`: two finalizes, two codes, six jobs, four observations: a race
  for the first row, a contradiction, a confirmation, an agreement after it.
  `Service.cfg` locks rows (Postgres); the proof covers both databases.

Deadlock is checked where the system goes on for ever (`JobLock`,
`ItemOverlay`). Jobs, queues, shipments and scenes may come to rest: there the cfg says so.

### Fairness

`JobLock`: a thread inside the lock goes on, and a thread that waits for the job lock
repeatedly gets it (strong fairness of `Acquire`: CPython's locks make no
promise of order, but a released lock is acquired by a waiter). `DeclarationJob`: a
request that has begun goes on, and gets the lock in the end; provider calls
return or time out. `ExtractionQueue`: calls return, SQS makes unextended messages
visible again and delivers visible ones to a polling worker. `Extraction` (weak
fairness of each document's and each window's step): a thread of the pool
runs, and a provider call ends, with an answer, an error or its timeout. Nothing
makes the budget of a list run out, and nothing makes the model ever reply well. Nothing obliges
a client to send a request, a process to die or an operator to act.

## Proofs

All theorems are of the models above, for every value of the constants that
satisfies the named ASSUMEs (mainly: `None` is none of the values, sets are
disjoint, bounds are naturals).

**DeclarationJobProofs** — `JobTypes`, `ClaimsHaveRuns`, `ConfirmedWereShown`,
`DerivedStaysCurrent`, `EntriesStayFitting`, for any documents, clients, contents
and operations. First every action is sorted by what it may do to the row
(`StepKinds`): most are quiet, a few commit a change by whoever holds the lock. None
of the properties is inductive.
`ClaimHasRun` needs the types of what a run carries.
`ConfirmedEntriesWereShown` needs `RevisionsPin`: of the review on record and of
every review a client was shown it holds that the entries of its revision are
those it showed, or the job's revision is past it by now.
`DerivedIsCurrent` and `EntriesFitEvidence` need `EvidenceIsFresh`: a locked body sees
the evidence as it is, although statuses change under it. That is not so when a row
the reviewer rejected is put back by somebody who does not hold the lock, and the
attempt to prove it showed how this happens (see the observations). The two
theorems are stated for behaviours in which no rejected row is
put back (`[][RejectionStands]_vars`), and without the condition wherever `Ops`
has no re-attachment: `OneRunPerDocument` shows that a document then has one run at most, so
that nothing is recorded late.

**ExtractionQueueProofs** — `QueueInvariant`, `QueueTypes`, `ClaimsAreBorne`, for
any number of documents, messages, workers and failures. `ClaimHasBearer` is not
inductive: two workers of one document may both be about to delete, each counting on
the other's message. What survives every step is `BearerIsSafe`: a claim
has a message *that nobody is about to delete*. `WorkMatchesMessage` and
`KindTellsDoc` say why a worker's message is the document's.

**ItemOverlayProofs** — `OverlayFits`, `TypesHold`, `NoOrphanEntries`,
`WeightsStaySane` and `MutationsAreAccepted`, for lists of any length. The
invariant: the stored order, when there is one, lists the active rows, each once;
without one nothing was deleted and no manual row is active (`OrderOrNothing`,
which makes the displayed order a list of the active rows, too); entries belong
to active rows; and the rows on display are the ones computed of what is stored.
The lemmas about lists (`InsertLists`, `WithoutLists`, `ListCounts`) say that
inserting a new id and removing a listed one keep a list a list;
`CurrentLists` that the sort at the end of `apply_item_mutations` has a result,
and that it lists the active rows.
Then `LossesAreAnnounced` and `RevisionTells`, the two action properties, and
`OverlayImplementsTable`, the refinement: one lemma per operation
(`AddIsAdd`, `DeleteIsDelete`, ..., `ShipmentIsNewShipment`) maps it to the table's own. Both need one more
invariant, `OrderHasCause` (`OverlaySettles`): whoever stored an order left another trace,
a deleted row or a manual one, so that a job without any shows the extracted order. That the list
on display is the *only* one that is sorted by rank, so that a row
that is added or removed leaves the others in place, follows from the ranks being distinct.

**ServiceProofs, the lock** — `LockInvariant`, and from it `LockTypes`, `EntriesMatchUse`,
`JobsExclude`, and `JobLockImplementsMutex`. Mutual exclusion is not inductive:
the invariant adds that the dictionary entry of a job, while it exists, is the
lock object every thread between its count up and count down refers to, and that the count is the
number of those threads.

**ServiceProofs, the accounts** — `AccessTypes`, `LimitersHold`, `QuotaHolds`,
`NothingToldApart`, for any number of requests, clients and accounts and any rules
whose windows are not longer than the retention. The limit is on recorded attempts
*and* requests past their count: the step that records trades one for the other
(`RecordKeepsLimits`), the step that counts joins only below the limit
(`AskKeepsLimits`), and time, pruning, sign-ins and restarts only shrink either
side (`CalmKeepsLimits`). That pruning loses nothing that still counts needs
`FreshRowsKept`: a row within the longest window of its limiter is in the table.
`TablesFinite` gives the cardinalities their meaning. The quota goes the same way, with
documents for attempts. `AnswersAlike` follows from `SameForBoth`: the
answer of each step is a function of the provider's condition, in which the two kinds of
address differ nowhere.

**ServiceProofs, the vendor's profile** — `ProfilesInvariant`, `ProfilesLearnFromJobs`, for any
number of finalizes, jobs and codes, with and without row locks. The property
is about the row and the history; what keeps it is about the finalizes under
way, and the count follows from what they read: one that is about to write under a lock saw the row as it is
(`RowUnderLock`); one that saw no row inserts only when there still is none, and
a row that was once there is never mistaken for none (`AbsentIsNoRow`); and what it is about to record is what its own job
states (`Underway`, from `TopsShow`: a code that most evidenced items carry was never
the profile's own proposal).

**ExtractionProofs** — `ExtractionTypes`, `GatesHold`, `PaidRowsStay`,
`CleanResultsAreComplete`, for any number of documents of any length, any concurrency,
window size, retries and rounds, and whatever the model replies. `WindowOK`: every
frame of a window transcribes lines of its document, a repeated row repeats one that is there
(`Paired`), only a window that calls holds a permit; `Holds`: what a window has is at least the
best reply it was paid for. From these, `DocumentOK` follows every document from its plan to its
result. A clean result is complete because
every printed identity is shown by a row (`IdentityFindsLine`), so that every goods line has
one, and the anchors counted page by page (`AnchorsCounted`, a least counterexample)
leave no room for more rows than lines: a pigeonhole (`OneRowPerPlace`) gives each line exactly one. The proof asked for a
hypothesis that `Identified` had left out, that there are goods at all: a document without
a provable goods line is counted against nothing (`openai_extractor.py` 673).

**AllocationProofs** — `AllocationReconciles`, for items and totals of any number and
size. Sums over lists and sets are folds of the community
modules; that they add is derived here from the definition of the fold by
minimal counterexamples (`LeastOf`, `FiniteInduction`, `SumsUp`), which takes the
place of an induction. From the bottom: the largest remainder hands out its total
(`LargestRemainder` gives each share its floor, and as many of the rest one more as are
left over: fewer than there are shares). `Apportion` settles items one by one at their floors or caps;
what keeps it within the total is that what the settled were given and the
floors of the free ones together never pass it. The net ladder bounds each net by its gross;
pinned cartons are absorbed by the others or stated to be impossible. `StatedMoveLast`: the cartons
a packing list states move after all others. `GrossRemedied`, `CartonsRemedied`: the total a blocked
table proposes leaves nobody below a floor or a pin once it is entered. It ends with the lemmas
about concatenations that the next two modules use: their type, and where an entry comes from.

**ResolutionProofs** — what a review is computed of. `ContextTyped`: the items, evidence,
totals, candidates and codes of `Context` are figures and official codes for any documents, entries
and history. It goes stage by stage: `InvoicesTyped` (bundles, buckets, kept rows, numbered),
`ResolvedIsOfficial` (a code found, completed or picked within a band exists), `EvidenceTyped` (every
rung of the match and the shared cartons), `AuthorityTyped` (the ladder), `CandidatesTyped`. A
concatenation is the library's recursion, so that its type is a minimal counterexample, too
(`FlattenTyped`).
`LowestDecides` then follows the ladder of transport documents for *every order* of them. A ladder
takes the first rung that states a gross (`FirstRung`); the pick of a rung prefers what prints a
weight; and comparing a challenger with the winner so far demotes only the heavier of the two
(`RescoreIs`, `RescoreKeeps`), so that of distinct weights the lightest comes out wherever it stood. A permutation of the
forms permutes the classes (`ClassifiedReordered`) and the extremes of the weights not at all
(`ExtremesReordered`): whether there is an air waybill to decide is the same in every order
(`DecidesReordered`), and then it is the same one (`LightestInAnyOrder`).
`ContextConserves` is about the packing lists, from four facts. The matching is one to one
(`MatchesPair`): the fold over the codes and the fold over the candidate pairs, worst last, each add a text that no
product has yet (`PairingGrows`), and the rungs use disjoint texts (`PairingsJoin`). So the items that share
a product are the ones of its text, and `SharesNear` divides it among them: n rounded
shares of a whole are within n halves of it. The rows fall into classes,
one for each pair of a list and a mark and one for the rest (`SumOfClasses`); in a class with a mark the last row takes what
the others leave, so that it counts its cartons once whatever was rounded
(`GroupCounted`, `CartonsCounted`). And every row the matcher reads is a row of an uploaded list, at
one place of it (`LinesConserved`), so that the classes can be told from the lists themselves:
their cartons are the ones the lists print (`SameCartons`).

**ShipmentProofs** — `JobsAreTyped`, `TablesReconcile`, `PrintedFiguresLast`, `RemediesUnblock`,
`XmlsReconcile`, `CostsStayWhole`, `LightestDecides`, `EvidenceStays`, `RowsStayOnce`: every property of
the `shipment` run, without a hypothesis.
The freight: `FreightIsSelected` says that proposal and selection are the maximum of the comparable
candidates, so that what differs from the proposal is what the reviewer entered. The costs: `allocate_cost` rounds each share and gives the residue to the largest, so the shares
conserve the cost (`CostIsShared`). An amount in national currency is within half a cent of
its exact value, strictly below on one side (`NationalNear`); over n lines that
is less than (n + 1) / 2 cents between the sum of the rounded amounts and the rounded sum, hence at
most n halves (`NationalsNear`), once for the goods and once for the freight: n
cents of CIF. The proof halved the bound the property used to state. That the goods are
the sum of the items is `FoldIsSum`: the code's accumulation from the left is the sum.
`RowsStayOnce` compares a list that the code builds by bucketing, sorting and concatenating
with a set of rows that are ordered by page and line. The invoices of a file are sorted by how many start before each
(`Ranks`, `AnchoredSorted`), so the bucket of a page is the last invoice that starts on
or before it (`BucketIs`). A selection and a concatenation are described by where each
entry comes from (`EntriesPicked`, `FlattenPlaces`), which composes over the lines of an
invoice, the invoices of a file (`FileKept`) and the files of a job (`BundledExists`,
`ItemsDeclared`). What comes out lists the printed rows, each after the ones ahead of it, and such a
list has each at the place that those leave it (`ListPlaces`). That an XML excludes a twice uploaded
invoice is `NoneTwice`: its code blocks, and is among the hard ones of warn mode.
The inductive invariant is `Kept /\ ReviewIsCurrent`, with `DeclaredIsMade` for what is declared.
`Kept` is what a job holds (its files, each once; entries of rows there can be, none negative;
a history of official codes). `ReviewIsCurrent`: the review on record is what the pipeline computes of the uploads,
entries and history *now*. `TypeOK` is not inductive without it: that a context holds figures
says nothing of the table in the same review, and the remedy a table offers says something of
the next table only because the next context differs in the entered total alone. Every
operation keeps it because it ends in the recompute or discards the review. From it `ContextTyped`
gives the types, and the results about one table, one declaration and one ladder give
the rest. `DeclaredIsMade`: the declaration is what finalize makes of that review at an admissible rate.
Attempted proofs changed four things: `EvidenceConserved` was stated of gross and net together and with
bounds two (weights) and four times (cartons) as wide; `RowsOnce` used to suppose that a file lists its rows in the
order of its pages and that a proforma in a bundle has one page; the exception that `XmlReconciles` states; and
`LowestAwbDecides`, which used to promise the same answer in every order of equal weights, too,
and held only because the jobs of the run have no such ties beside forms of another kind.

Model-checked only, and why:

- liveness (`JobNotWedged`, `ClaimReleased`, `ClaimSettles`, `EveryExtractionEnds`):
  fairness and ENABLED are out of the prover's reach.

## Findings

Each is a run of its own in which TLC shows what the code does against what the
documentation or a comment says.

1. `job_role_gate` — the gate on unconfirmed documents is read before the lock;
   a review can be computed from a document whose role mismatch is unanswered,
   although README.md:593-597 says it is never read.
2. `job_fingerprint` — README.md:591 says the fingerprint rejects finalize if
   evidence changed; it covers printed values and no document identity.
3. `queue_stale_message` — the release script says a message left behind is
   harmless; after the reviewer presses Continue it runs beside the new one.
4. `queue_commit_fails` — the script names one hole; a last transaction that fails
   outside the recording handler is another.

### Observations

Seen while modelling; no document of the repository says otherwise clearly enough
to call them findings, or nothing checked here depends on them.

- `rules/weight_carton.py`: the docstring's ladder puts a description's weight above the
  packing list's net; the code asks in the opposite order. The model follows the code.
- `rules/packing_match.py` 359-386: rung 2 depends on the order of rows, though the comment
  at 390 says of the next rung that it matches by identity, never by row.
- `rules/freight.py` 198-202: the residue of `allocate_cost` goes to the largest item,
  whose cost it can make negative.
- `rules/airwaybill_authority.py` 334-352: when two waybills print the same
  lowest weight and a third a higher one, Field 40 depends on the order of uploads,
  and so may the gross (`LowestAwbDecides` leaves ties out).
- `pipeline.py` 150, 296: with several freight amounts the last document's wins.
- `pipeline.py` 262-266 says a code of the history is never final unseen; finalize
  blocks only guessed codes.
- `services.py` 580-593: re-attaching a file looks for its FAILED row and resets it without
  the lock. If another request has the row extracted and its role rejected in between,
  the reset makes it UPLOADED with the extraction it holds: it counts as
  evidence again, while the review and the XML computed without it stay
  (TLC shows it in fifteen steps when `JobDerived.cfg` is given `reupload`, which
  that run therefore leaves out).
- `declaration/validator.py` 36-49: the comment says the carton codes are hard in warn
  mode, too. `CARTON_ALLOCATION_IMPOSSIBLE` (`weight_carton.py` 1132) is none of them, and
  `CARTON_RECONCILIATION_FAILED` allows 0.05 packages (`_TOL`): in warn mode, the
  default (`config.py` 872), an XML is built whose packages are off by up to
  that, as with 101 rows under a package total of 1.
- Finalize in warn mode with a confirmed gross of 0 builds an XML with weights on the basis
  alone (`XmlReconciles` asks for a confirmed gross).
- `review/item_mutations.py` 812: of two selections for one description, the later
  row's is remembered.
- The limiters count before and record after, so concurrent requests pass together
  (`LimitsHold` bounds by how much). In queue mode a queued document
  counts nothing until its OCR is paid, so the cap has no such bound there.
- `extraction/openai_extractor.py` 1013-1021: a failure of one window that is not
  the deadline discards the other windows' paid rows.
- `extraction/manifest.py` 157-188: a fragment without a value that carries its parent's
  identity covers the parent's anchor.
- `main.py` 2063-2088: two administrators can disable each other, each check
  being made before the other's change.
- `extraction/field_profiles.py` 50: one job finalized twice counts as two
  agreeing jobs; one edited item makes the job's majority code a reviewer's decision.

## What is not modelled

- Text: prompts, OCR output, regular expressions, number and date parsing, how a
  description is split into words, sizes and a weight (`description_weight.py`,
  `brand_model_size.py`, `document_refs.py`, most of `table_parser.py`). The
  models take what was read as a fact of the document.
- XML and workbook layout, the packing view, notices' wording: formatting.
- In `Extraction`: the calls that only attribute descriptions, the fast model,
  token counts, errors about one field (they cost a round, as a missing anchor does).
- HTTP, sessions, static files, storage, logging: one commit or call is one step.
- Provider services, SQS and Postgres: external, modelled from their use.
- The one-time imports of the older JSON stores; configuration.

`PROJECT.json` lists every component with its status, and the hazards met while
reading, with the properties that cover them or the reason why none does.

## Plan

Done: the lock and the job; queue mode; the overlay; the rules, the pipeline,
the validator and the gates; extraction with the layout memory; limiters, accounts
and quota; the vendor's field profile; the safety of all of these proved. Next:

1. Attribution of descriptions in `Extraction`, and OCR with its stored envelope
   as a step of its own.
2. Uploads: the limit of documents and the conversion to PDF before the insert.
