# Cifrato in TLA+

Cifrato receives Colombian electronic invoices (UBL XML), has a language model
classify each line into a withholding concept, stores the invoice in PostgreSQL
and computes three withholdings (ReteFuente, ReteIVA, ReteICA) for every
concept.  This directory holds TLA+ models of the program, TLC runs that check
them on small instances, and TLAPS proofs that the safety properties the runs
check hold for every value of the constants.
Paths below are relative to the repository; `uc/` stands for
`internal/application/usecase/` and `pg/` for
`internal/infrastructure/adapters/repository/postgres/`.

    tlc -workers 2 -config Classify.cfg MCClassifyInvoiceLines    # a run
    tlapm ClassifyInvoiceLinesProofs.tla                          # the proofs of a module

## 1. The system

An HTTP request carries one invoice or a batch.  Each invoice goes, in its own
goroutine, through one pipeline; all goroutines of all requests share one
process, one pool of ten connections and four tables.  No lock in the process
protects the tables: whatever consistency there is comes from single SQL
statements, their unique keys, and the transactions GORM opens.

| Component | State it keeps | Operations | What makes it correct |
|---|---|---|---|
| REST handlers (`internal/infrastructure/rest/handlers/invoice_handler.go`) | per batch: a semaphore channel of 5, a WaitGroup, a slice of results | HandleProcess, HandleProcessBatch, processBatchFile | each file's result at its own index, nothing at work after the response, every request answered |
| Pipeline (`uc/process_invoice_use_case_impl.go`) | none: parse, classify, save, calculate, in this order | Execute | what is answered is stored; nothing calculated for an invoice that is not stored; an incomplete invoice only after an error |
| Line classification (`uc/classify_invoice_lines_use_case_impl.go`) and its cache (`pg/classification_cache_repository_impl.go`) | table `line_classifications`, unique on (issuer_nit, sku) | Execute, lookupCache; FindByIssuerAndSKU, FindByDescription, Save | one entry per issuer and SKU, every entry an answer for its key, every classified line backed by an entry |
| LLM adapter (`internal/infrastructure/adapters/api/anthropic/classifier_adapter.go`) | the catalog read at startup | Classify, parseToolUse | a code outside the catalog is an error |
| Invoice repository (`pg/invoice_repository_impl.go`) | tables `invoices` (unique cufe) and `invoice_lines` (unique invoice and number) | Save, FindByCUFE, ExistsByCUFE (unused) | a save is one replacement; ids survive re-imports |
| Withholding calculation (`uc/calculate_withholdings_use_case_impl.go`, `pg/calculation_repository_impl.go`) | table `withholding_calculations`, unique on (invoice, concept, tax) | Execute, persist; Upsert, ListByInvoice (unused) | minimum base per invoice and concept, results independent of the order of lines, one row per key |
| Withholding engine (`internal/domain/service/withholding_engine.go`) | none | CalculateWithMinimumBase, CalculateReteiva, NotApplicable, SummarizeByTaxType | 0 <= value <= base, the boundary at the minimum |
| Reference data (`pg/tax_rule_repository_impl.go`, `pg/reference_data_repository_impl.go`) | read-only tables; an RWMutex cache of concepts | FindApplicable, FindUVTValue, FindCityByName, ListConcepts; unused: ListByTaxType, FindConceptByCode | the rule in force, the latest when two are |
| XML parser (`internal/infrastructure/adapters/xmlparser/`) | none | Parse | IVA counted once per different subtotal, the last withholding block of a kind, an error for required fields only |
| Startup: commands, wiring, connection, migrations (`cmd/cifrato/main.go`, `internal/infrastructure/dependence/wire.go`, `pg/connection.go`, `pg/migrate.go`) | `schema_migrations`, the advisory lock, the pool's limits | serve, migrate; Open, OpenAndMigrate, Migrate, NewWire, NewRouter | whoever listens has a schema and a catalog; starts side by side do not spoil the schema |
| CORS, DTOs, mocks | none | stateless | not modelled |

What is hard here, and where:

- **Check-then-act on shared tables.** The cache is looked up, the model is
  asked (seconds), and only then is the entry written.  Two files of a batch
  from one supplier meet there.
- **Partial failure.** Save and calculation share no transaction, and each
  calculation row has its own.  An error anywhere leaves what came before.
- **Concurrent versions of one invoice.** A retry of a timed-out upload runs
  next to the first attempt.
- **Lost acknowledgements and crashes.** A COMMIT may take effect although its
  caller sees an error.
- **Limits.** Semaphore and pool, and what happens when both are full.
- **Starts side by side.** A deploy runs two servers, or a server and
  `migrate`, against one database; any of them may die half way.
- **A cache filled on first use.** ListConcepts keeps what it first read, for
  the classifier and for every response, whatever becomes of the table.
- **Numeric edges.** Bases equal to the minimum, credits that make a base
  negative, days on which two validities overlap.

`PROJECT.json` lists each hazard with its line and the properties aimed at it.

## 2. Modules

    XmlParser                         a file into an invoice, or an error
    InvoiceBatch                      handlers, semaphore, WaitGroup, pool
    ProcessInvoice                    the pipeline
      |- ClassifyInvoiceLines         classification and its cache
      |- InvoiceStore                 what a save promises (abstract)
      |    ^ implemented by InvoiceRepository   (Save statement by statement)
      |- CalculateWithholdings        row by row
           |- WithholdingEngine       arithmetic and grouping
           |- ReferenceData           rules, UVT, cities
    Startup                           commands, migration, catalog of concepts

The theorems about a module `M` are in `MProofs`, which extends it.  The proofs
are composed as the modules are: ProcessInvoiceProofs takes
ClassifyInvoiceLinesProofs (as `Alone`) and CalculateWithholdingsProofs (as
`Rows`) by INSTANCE and uses their theorems of the pipeline's parts.
`SumsAndFolds` has what the proofs about loops share: induction, sums over
sets, and folds over sequences.  The theorems about WithholdingEngine are in
CalculateWithholdingsProofs.

Each `MC...` module gives the constants of a module small values.
Definitions whose comment begins with "Bug:" are not part of a specification:
they are forms of the definition below them with a plausible mistake, kept to
show that the properties notice it.

### ClassifyInvoiceLines
`Execute` for several uploads against one table.  `pc[u]` is the call an upload
is about to make: `bySKU`, `byDescription`, `llm`, `save`, `commit`.  `rows` is
the committed table, `tx[u]` the row an upload has written and not committed.
`Save` is the INSERT ... ON CONFLICT (issuer_nit, sku) DO UPDATE, which waits
while another transaction holds the key (`Blocked`), draws an id whether or not
there is a conflict, and on conflict changes the answer's columns only.
`First()` orders by primary key, so a lookup by description takes the row with
the least id.  SQL's NULLs are never equal, so a line without SKU never
conflicts.  `Classify` is the call to the model with `parseToolUse`; a failure
is only logged and the line keeps no concept.  `RepositoryError`,
`CommitUnacknowledged` and `Crash` are the failures.  `answers` is a history
variable that no action reads.
The description is what `normalizeDescription` makes of it (`Normal`); the
classification's confidence, reasoning and model version decide nothing.

### InvoiceStore and InvoiceRepository
`InvoiceStore` is the promise in `internal/domain/repository/repositories.go`:
one step replaces an invoice and all its lines.  `InvoiceRepository` is `Save`:
upsert of the invoice, upsert of the lines, deletion of the lines not just
written, COMMIT, with READ COMMITTED visibility and the row (or unique key) of
the CUFE held until the end.  Reading committed `lines` in the statements
after the first is right because an invoice's lines are only written by a
transaction that holds its CUFE.  A line number that occurs twice makes the
multi-row upsert fail; the parser lets it through, so it is among the inputs.
`FindByCUFE` reads in two statements (`Preload`): the lines are of one version
(ReadIsOneVersion), the header read before them may be of an earlier one.

### WithholdingEngine, ReferenceData, CalculateWithholdings
Decimals are integers in the units the engine's header names; at the columns'
scales every product and the division by 100 are exact, so `Round` (half away
from zero, as shopspring/decimal's) is the only loss.
`groupLinesByConcept` is the code's loop as a fold: groups in order of first
appearance, lines without a concept one group.  `FindApplicable` has both ends
of a validity inclusive, the latest `effective_from` and then the primary key.
`FindCityByName` takes the first match of an unordered query, so any match;
which names match is the constant `Matches`.
`CalculateWithholdings` takes one step for the guard on the id and the reads
before the loop (`Ready`), and one for each row.
A read of a rule is joined to the upsert after it, since the rules do not change.
`loadConceptNames` attaches names to the response; that it may fail is `Fail`.

### ProcessInvoice
`Execute` end to end.  It takes the actions of `ClassifyInvoiceLines`,
`InvoiceStore` and `CalculateWithholdings` by INSTANCE and adds `stage[u]`, the
call of `Execute` an upload is in.  What one component hands to the next is
substituted, not copied: the invoice that is saved (`doc`) and the one that is
calculated are the upload's file with the concepts classification has left in
its lines, the first with its amounts rounded by NUMERIC(18,2) (`Centavos`), the
second with the amounts as parsed, as in the code, which calculates from memory.
It uses the abstract store because `InvoiceRepository` implements it.
Each component may fail wherever its own model lets it; `Crash` ends all
uploads in progress at once.  Two history variables: `current`, the upload that
has had an invoice to itself since it began, and `known`, the lines whose item
was stored with a concept when the upload began.

### XmlParser
`Parse` as a function of what encoding/xml decodes; the two ways in, a bare
Invoice and one embedded in an AttachedDocument, are actions.  Texts are opaque
and trimmed: constants say which read as a decimal, a date or an integer, and
what a scheme's name contains.  The two loops that carry state, the
deduplication of `sumIVA` and the last-block-wins of `extractWithholding`, are
folds; the properties say the same without order or accumulator.

### Startup
Processes `serve` and `migrate` against one database.  `pc[p]` is the step of a
process: golang-migrate's lock, version, dirty mark, script, clean mark (external,
one action each, from how `Migrate` uses the library and what the script does),
then, in a server, ListConcepts with the read and the write lock of
`conceptsMu`, NewClassifier, and listening.  Requests call the same ListConcepts.
A process may die at any step, which ends its session and releases the advisory
lock, and be started again.  `Edit` is somebody changing the table of concepts by
hand; no code of the program does.  `broken` is a history variable: somebody
died between the dirty and the clean mark.
The creation of golang-migrate's own table happens under the same kind of lock
and is part of `Lock`.

### InvoiceBatch
Both handlers.  A file's goroutine reads, makes `Queries` queries, each of which
takes a connection from the pool and gives it back, reports, releases its
token, and calls Done: the deferred calls run last first.  Save's transaction keeps one
connection and so counts as one query.  Of the pipeline nothing else matters to
semaphore, WaitGroup or pool.  `MaxOpenConns` is what the pool has for requests:
ten connections, or nine in a server that has migrated by itself, because
golang-migrate's driver (`pg/migrate.go:26`) keeps one that nobody closes.

## 3. Runs

| Run | Module, config | Checks | Bounds |
|---|---|---|---|
| classify | MCClassifyInvoiceLines, Classify.cfg | TypeOK, ClassifiedLineIsCached, EntryProvenance, OneEntryPerSKU, ItemAskedOnce, IInv, EntriesKeepTheirKeys, EveryUploadSettles | 2 uploads, 2 issuers, 1 SKU, 3 descriptions with 2 keys, 2 concepts and one reply that is none, invoices of 0 to 3 lines |
| classify_per_supplier | same, ClassifyPerSupplier.cfg | CachedPerSupplier is violated | same |
| classify_stale_description | same, ClassifyStaleDescription.cfg | FoundByDescriptionWasAnsweredForIt is violated | same |
| invoice | MCInvoiceRepository, Invoice.cfg | TypeOK, ReadIsOneVersion, SaveIsAtomic, IdsAreStable, EverySaveEnds | 3 uploads, 1 reader, 2 CUFEs, 5 documents |
| calculate | MCCalculateWithholdings, Calculate.cfg | TypeOK, WithheldWithinBase, ThresholdIsPerInvoice, TariffIsInForce, OrderOfLinesIsIrrelevant | 2 uploads, 16 invoices, 2 concepts, 3 cities, 7 rules |
| process | MCProcessInvoice, Process.cfg | TypeOK, ResponseIsStored, NoOrphanCalculations, IncompleteOnlyAfterError, StoredConceptIsCached, StoredItemIsNotAskedAgain, BaseIsNearStoredLines, ClassifiesAsAlone, EveryUploadEnds | 2 uploads, 3 files of 2 CUFEs, 1 SKU, 2 spellings of 1 item, replies: a concept or none |
| process_history | same, ProcessHistory.cfg | NoHistoryIsKept is violated | the same with 2 concepts among the replies |
| batch_safety | MCInvoiceBatch, BatchSafety.cfg | TypeOK, EachFileHasItsResult, NothingRunsAfterResponse | 2 batches (3 files, none), 2 single invoices, cap 2, pool 3, 2 queries |
| batch_liveness | same, BatchLiveness.cfg | EveryRequestIsAnswered | the same with 1 query |
| batch_pool | same, BatchPool.cfg | PoolIsNotStarved is violated | batches of 3 and 2 files, 1 single invoice, cap 2, pool 4 |
| startup | MCStartup, Startup.cfg | TypeOK, ListeningIsReady, VersionTellsSchema, NamesMatchClassifier, EveryStartEnds | 2 servers (one with RUN_MIGRATIONS off), 1 migrator, 2 requests, 2 deaths or restarts, 1 edit |
| parser | MCXmlParser, Parser.cfg | TypeOK, EqualSubtotalsCountOnce, LastBlockOfAKindIsReported, RequiredFieldsDecide | 12 043 documents |

Section 4 removes these bounds from the properties it proves.  Why they are
enough for what is asked of the runs:

- *classify.* Races on one key are between two writers; a third adds no new
  order of lookup, write and commit on one row.  Three lines let one item come
  back after another.  Two spellings with one key, one SKU under two
  names, and two issuers give every way two lines share a key or just miss it.
- *invoice.* Three savers give a waiter behind a waiter.  The documents
  drop, keep and add a line, have none, repeat a number, or belong to another
  invoice.
- *calculate.* The sum of two lines is the minimum only after rounding, an
  unclassified line stands between two of one concept, a credit makes a base
  negative, the day of the change of tariff and the days before it and before
  all rules occur, a city name matches the wrong city or none, and
  one invoice has no id.
- *process.* Two uploads of one CUFE, one after the other or overlapping, with
  the same or another version, in the two orders; a second invoice of the same
  issuer shares the cache and has a day without a UVT value.  All three taxes
  have a rule, the agent's flag is set, and so ReteIVA has a base of its own.  Amounts with half a
  centavo make parsed and stored totals differ.  One reply suffices for what is
  asked there: a line has a concept or has none; that concepts change is
  process_history's matter.  A repeated line number is in the run invoice.
- *startup.* Two servers and a migrator are three that want the lock.  One death
  can leave the version dirty and the second hits whoever comes after; one edit
  suffices for a table that differs from what was cached.
- *parser.* Two blocks of up to two IVA subtotals drawn from six: equal ones in
  one block and across blocks, one amount in two texts, two rates with
  one amount.  Two withholding blocks of up to two names, the same, different,
  unknown and of two kinds at once.  Two lines with each field good, bad and
  absent.  Every header field blank and unreadable, one at a time.
- *batch.* The code's 5 of 10 is scaled to 2 of 3 (or of 4): a batch longer than
  its cap, and together more demand than connections.

No run disables the deadlock check: each model's last states are left by
`Terminated`, enabled only when every upload or request has ended, so a state
in which somebody still waits and nothing can move would be reported.

### What the properties say

The comment above each property states it; the ones worth an argument:

- **ItemAskedOnce**: a later line of an invoice with the SKU and the normalized
  description of a classified one never reaches the model, whoever wrote the
  entry between.  It holds although a row's description may be another upload's.
- **SaveIsAtomic** is a refinement: InvoiceRepository under the mapping
  `Contents`, `Status` implements InvoiceStore, so readers of the committed tables see
  whole invoices.
- **ThresholdIsPerInvoice** recomputes the minimum's decision from the
  invoice's exact amounts and the rules, not through the grouping.  It speaks of
  concepts with one national rule in force, where there is nothing to choose.
- **ClassifiesAsAlone** is a refinement: the pipeline, with the variables of
  saving and calculating hidden, behaves as ClassifyInvoiceLines.  A crash of
  the pipeline is, for classification, one `Crash` of the component or, if
  nobody was classifying, nothing.  It carries the theorems of section 4 over.
- **StoredConceptIsCached** relates two tables no transaction spans: a line
  stored with a concept has an entry that answers for it.
- **StoredItemIsNotAskedAgain** is what a user sees of the cache: an item that
  was stored with a concept when an upload began never reaches the model.
  Stronger claims are false: a re-upload may give the line another
  concept (an answer found by description is not saved under the line's SKU, and
  a later entry under that SKU wins), and an upload that was already
  under way may store the line without one.
- **VersionTellsSchema** allows a dirty version for a process at work or after a
  death only: starts side by side do not make one fail on the other's tables.
- **NamesMatchClassifier** holds because the first ListConcepts comes before the
  server listens; the table may have changed since.
- **EqualSubtotalsCountOnce** states the deduplication as it is, for all blocks
  together: equal subtotals count once also when they are two genuine
  ones, which the code cannot tell apart.
- **RequiredFieldsDecide** is an equivalence: whatever must read rejects the
  invoice when it does not, the payable amount included, and nothing else does.
- **NoOrphanCalculations** does not rest on the guard `inv.ID == 0`: Save sets the
  id before its COMMIT, which may still fail.  What keeps it is that a failed save
  ends the upload.
- **TariffIsInForce** takes the city found as given: which of several cities a
  name matches is not decided by the code, and no property asks for it.
- **BaseIsNearStoredLines** allows (n+1)/2 centavos for n lines, and speaks, as
  ResponseIsStored does, of an upload that had its invoice to itself.
- **ResponseIsStored** speaks of an upload that had its invoice to itself.
  With two overlapping uploads of one CUFE the stored invoice may be one's and
  the calculations the other's; the code does nothing against it and no text
  promises otherwise.
- **IncompleteOnlyAfterError**: an invoice without a row for each of its
  concepts and taxes has been worked on by an upload that failed or still runs.

### Fairness

- ClassifyInvoiceLines: `WF` of each upload's next step.  A call returns: the
  database answers or the request's context ends, the SDK bounds the call to
  the model, and PostgreSQL grants a key once its holder has ended.
- InvoiceRepository: `WF` of each save's next statement, and of the rollback of
  a save that repeats a line number, whose statement can do nothing but fail.
- ProcessInvoice: `WF` of "some upload that can go on does", not even of each
  upload: a database call or a call to the model returns, and a lock is granted
  once free.  Of errors only those the data make unavoidable count as going
  on: a repeated line number, a day without a UVT value.
- Startup: `WF` of each process's next step.  A death is never required.
- InvoiceBatch: `WF` of each goroutine's step, and `SF` of taking a connection:
  database/sql serves those who wait in turn, so one who can have a connection
  again and again gets it.  No fairness is given to failures.

### What the runs found

1. **The cap on concurrency does not protect the pool** (batch_pool).
   `invoice_handler.go:19-20` says the cap is kept below the pool's limit "to
   avoid starving it".  Each batch makes a semaphore of its own and single
   invoices have none, while the pool is shared: two batches and one more
   invoice find no connection.  They wait and are served, as batch_liveness shows.
2. **The cache is not per supplier** (classify_per_supplier).  README.md:25-26
   says it is "por proveedor + descripción".  The lookup by description ignores
   the issuer.
3. **An upsert leaves the other upload's description**
   (classify_stale_description).  Two uploads miss for one issuer and SKU
   with different descriptions; the later one's answer replaces the first one's and
   the row keeps the first description, under which it is then found.
   `classification_entity.go:3-4` and `:16` say otherwise.
4. **A recalculation leaves rows behind** (process_history).
   `01_init_schema_and_seed.up.sql:145-146` says "Recalculating overwrites, no
   history is kept".  Rows of concepts the invoice no longer has are not
   deleted.

Also noticed: `invoice_repository_impl.go:43-45` keeps line ids stable because
"withholding_calculations references them by invoice_line_id"; the table has no
such column any more.  The ids are stable all the same (IdsAreStable).
`invoice_handler.go:28-29` and `process_invoice_use_case_impl.go:11-12` give the
order as parse, save, classify, calculate; the code classifies before it saves, so
that a classification that fails leaves no invoice, but leaves the cache entries
of the lines before.  `README.md:84` says `serve` migrates by itself: after
a death between the dirty and the clean mark it exits with an error until somebody
repairs `schema_migrations`, while a server with RUN_MIGRATIONS off serves such a
database if its tables are there.  `connection.go:21-22` calls the migration
safe because there is one instance; golang-migrate's lock makes it safe with
several.

## 4. Proofs

All safety properties of section 3 are proved, for every value of the
constants: any number of uploads, requests and processes, files with any number
of lines and taxes, any amounts, any catalog, rules and cities.

| Module | Theorem | Property |
|---|---|---|
| ClassifyInvoiceLinesProofs | TypeCorrect | TypeOK |
| | OneEntryForEachSKU | OneEntryPerSKU |
| | EntriesComeFromAnswers | EntryProvenance |
| | ClassifiedLinesAreCached | ClassifiedLineIsCached |
| | ItemsAreAskedOnce | ItemAskedOnce |
| | EntriesStay | EntriesKeepTheirKeys |
| | StrengtheningHolds | IInv |
| InvoiceRepositoryProofs | TypeCorrect | TypeOK |
| | ReadCorrect | ReadIsOneVersion |
| | IdsCorrect | IdsAreStable |
| | SaveCorrect | SaveIsAtomic (refinement) |
| CalculateWithholdingsProofs | OneGroupPerConcept | what the grouping loop computes |
| | TypeCorrect | TypeOK |
| | WithheldCorrect | WithheldWithinBase |
| | TariffCorrect | TariffIsInForce |
| | ThresholdCorrect | ThresholdIsPerInvoice |
| | OrderCorrect | OrderOfLinesIsIrrelevant |
| ProcessInvoiceProofs | TypeCorrect | TypeOK |
| | ClassificationCorrect | ClassifiesAsAlone (refinement) |
| | CacheCorrect | OneEntryPerSKU and ClassifiedLineIsCached, of the pipeline |
| | CalculationsCorrect | NoOrphanCalculations |
| | StoredCorrect | StoredConceptIsCached |
| | AskedCorrect | StoredItemIsNotAskedAgain |
| | ResponseCorrect | ResponseIsStored |
| | CompleteCorrect | IncompleteOnlyAfterError |
| | BasesCorrect | BaseIsNearStoredLines |
| InvoiceBatchProofs | TypeCorrect | TypeOK |
| | ResultsCorrect | EachFileHasItsResult |
| | WaitCorrect | NothingRunsAfterResponse |
| | OneBatchLeavesRoom | one batch never uses up the pool |
| StartupProofs | TypeCorrect | TypeOK |
| | VersionCorrect | VersionTellsSchema |
| | ListeningCorrect | ListeningIsReady |
| | NamesCorrect | NamesMatchClassifier |
| XmlParserProofs | TypeCorrect | TypeOK |
| | IVACorrect | EqualSubtotalsCountOnce |
| | WithholdingsCorrect | LastBlockOfAKindIsReported |
| | RejectionsCorrect | RequiredFieldsDecide |

### What they assume

Only the assumptions on constants, each named where the constant is declared,
which TLC evaluates in the runs.  Most say what kind of value a constant is.
These say something of the program's surroundings:

- `NormalAssumption`: normalization is a function on descriptions;
  `NullAssumption`: NULL is no SKU, issuer or concept; `RejectedAssumption`: an error
  is no invoice.
- `FilesAssumption`, `InvoicesAssumption`, `DocsAssumption`: invoices are well formed, as
  the parser makes them (TypeCorrect of XmlParserProofs).  They may repeat line
  numbers and items.
- `DocumentsAssumption`, `NumbersAssumption`, `BlankAssumption`: a file is what
  encoding/xml decodes; what reads as a number is one, and an empty text does not.
- `TablesAssumption`: the reference tables are as the migration seeds them, no
  minimum or UVT value negative and no tariff above 100 percent.  The schema would
  allow others, and with them WithheldWithinBase is false; no code of the
  program writes these tables.
- `ConceptsAssumption`, `CufesAssumption`: ids start at 1, so that 0 in the
  column of concepts means none.
- `CapacityAssumption`: a batch's cap is positive and below the pool's size.
- `BoundsAssumption`, `SeedAssumption`: deaths and edits are bounded by any
  number, and the migration seeds some concepts.

### How they go

Each module has an inductive invariant, kept by every action (one lemma per
action, or per layer of the invariant), from which the properties follow.  The
properties themselves are not inductive: they speak of committed rows and
finished work, and the next state depends on what is under way.

**ClassifyInvoiceLines.**  `IInv`, which the run classify checks as well, adds

- `TableInv`: ids are below the sequence; two versions of a row, committed or
  pending, have the same keys; an upload writes at most one row; an issuer and SKU have
  one id among *all* versions.  The last is where `Blocked` is needed: without
  it two pending rows could take one key.
- `AnswersInv`: what an upload is about to save was answered for its current
  line, and every version of a row is accounted for by an answer.
- `LinesInv`: the pending entry is keyed for the current line; and a line that
  missed by SKU but repeats a classified line has an entry under its
  description.  The latter makes ItemAskedOnce inductive: the line's own SKU
  entry can only be missing if the earlier line had none either, and then it
  was found, or saved, by description.

**InvoiceRepository.**  `IInv` says what an open transaction may rely on
until it commits, whoever commits before it: the rows it has written have ids
and keys no committed row and no other transaction has, unless it is the row
it replaces (`RowInv`, `LinesInv`), and after the deletion it holds exactly
its document's lines.  A commit then replaces one invoice's rows by one
document's (`CommitRefines`), which is InvoiceStore's step; every other statement
is a stutter.  `ReaderInv`: an invoice found stays, with its id, until its lines are read.

**SumsAndFolds.**  The library's induction theorems take an operator, which the
provers here cannot instantiate; `NatSetInduction` states induction for a *set*
of numbers instead.  By it the recursive function under a fold is shown to
exist (`FoldExists`), and the one under a sum over a set, which then does not
depend on the order (`SumsAgree`) nor on how its positions are permuted (`SumOfImage`).
What a loop computes is proved about the function's values, one element after another.

**WithholdingEngine.**  `Round` is monotonic, keeps the sign and loses at most
half a unit, so that sums of rounded terms stay near (`SumsOfNear`).  The
grouping loop leaves one group for each concept that occurs, with the sums of all
its lines, by induction on the number of lines.

**CalculateWithholdings.**  `IInv`: an upload's results are, one by one, the rows
its groups and taxes call for up to the step it is at, and the table has one
row per key, each with an amount its own base and tariff explain.
ThresholdCorrect combines it with the sums of the groups.  For OrderCorrect an
upload's results are shown to be, as a set, a row for each of its groups and taxes
(`ResultsAreRows`), and the summary the sum over that set (`SummaryIsSum`); the
groups of two orders are the same because the permutation takes the lines under
a concept to those under it (`ReorderedGroups`).

**ProcessInvoice.**  `StagesInv` ties the stage of an upload to the state its
components are in, which gives ClassifiesAsAlone; through that refinement the
classification's invariant holds of the pipeline (`AloneInv`), and
CalculateWithholdings' holds likewise (`CalcInv`) of the invoices the uploads carry
(`Carried`).  On these rest: `OrphanInv`, that who calculates has its invoice stored;
`CachedInv`, that every line known when an upload began has an entry, so
a lookup that misses by SKU finds by description; `AnswerInv`, that who
has an invoice to itself has stored it and that nobody overwrote its
rows, and that rows are overwritten but never vanish; `StatusInv`, for the types.
BasesCorrect joins the sums of the groups, which are over amounts as parsed, to the
amounts stored, by the rounding lemmas.

**InvoiceBatch.**  `IInv` counts: a batch's semaphore is the number of its
goroutines between launch and release, its WaitGroup the number that have yet to
call Done.  So wg.Wait returns only when each file has its result, and a batch
never holds more connections than its cap.  `PoolInv`, that the connections in use are
finitely many and within the pool, is an invariant of its own, for the types.

**Startup.**  `SchemaInv`: between the dirty and the clean mark a process knows
what version and table are, which needs that nobody else is there, that is, the
lock.  `CallerInv`: what a call of ListConcepts has read is what is cached,
and no request comes before the startup's own call.

**XmlParser.**  Parse is one step, so the invariant only says that what was
returned is what the file, unchanged, becomes (`Parsed`); the proofs are about the loops.
What `sumIVA` has gathered is always a set of subtotals and their sum (`Sums`);
a block adds the ones not yet seen.  What `extractWithholding` has reported
after some blocks is, for each kind, the last of them (`LastBlocksAreReported`),
where the kind of a block is that of its first subtotal with a known name.

### What is only model-checked

- Liveness (EveryUploadSettles, EverySaveEnds, EveryUploadEnds,
  EveryRequestIsAnswered, EveryStartEnds): it rests on fairness and ENABLED,
  which are outside the prover's reach.
- The four violations, which are counterexamples.

## 5. Not modelled

- encoding/xml itself, and of the parser what is copied without a decision:
  names and tax levels of the parties, quantities, unit prices.
- Reads nobody calls: `ExistsByCUFE`, `ListByInvoice`, `ListByTaxType`,
  `FindConceptByCode`.  `FindByCUFE` is modelled although only tests call it.
- The prompt, the tool schema and the transport of the call to the model.
- Settings other than RUN_MIGRATIONS, the connection string, signal handling
  (there is none: a server that stops is `Crash` or `Die`), routing, `/health`,
  CORS, DTOs, generated mocks.
- Texts: names, legal bases, justifications, error messages.  Lengths of
  columns: a normalized description of more than 500 characters fails its INSERT,
  which is `RepositoryError`.
- How a city's name is normalized and matched (the constant `Matches`).
- Changes of the reference tables at run time, but for `Edit` in Startup: the
  program makes none.
- The batch above the whole pipeline: InvoiceBatch keeps of a pipeline its
  queries, because nothing else meets semaphore or pool.

## 6. Plan

1. Done: classification with proofs, invoice repository with its abstract
   store, withholdings, batch.
2. Done: the pipeline as a composition of its components, the XML parser,
   startup with migrations and the catalog.
3. Done: the proofs of section 4, which state every safety property of the runs.
4. Left: shorter proofs of the longer lemmas, and of the liveness properties what
   can be said without ENABLED: the ranking by which every step of an upload
   that can go on brings it nearer to its end.
