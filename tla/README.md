# Archive Magic: verification project

TLA+ models of Archive Magic, the specifications they are checked against, and
machine-checked proofs of the properties that matter most. Archive Magic has
two programs. **Fetch** (`archive-magic-fetch`) downloads the captures that the
Wayback Machine or Common Crawl hold of a site, year by year, into WARC shards
and a CDXJ index, and publishes them to an S3 bucket. **Navigator**
(`archive-magic-navigator`) serves published collections: it polls the bucket's
indexes and runs a replay server over them. Paths below are relative to
`src/archive-magic-fetch/src/archive_magic_fetch/` or, for Navigator, to
`src/archive-magic-navigator/src/archive_magic_navigator/`.

Run everything from this directory: `tlc -config X.cfg MCX.tla` model-checks a
configuration, `tlapm XProofs.tla` checks the proofs of a module.

## 1. Inventory

| Component | State | Operations | Hard behaviours | Correct when |
|---|---|---|---|---|
| Year stage (`pipeline/stage_year.py`) | canonical shards and index; `.staging/YYYY` with shards (hard links at first), index, `work.json`, `ready.json` | open, seed, inventory, checkpoint, commit, promote, recover, discard | stop between any two file operations; inodes shared with published files; replacement of a year by a smaller one | readers never see an index that lists bytes that are not there; a promotion that began is finished exactly once; nothing is stored twice |
| Bucket publication (`pipeline/publication/`) | local files, bucket objects, receipt `publication.json` (baseline, pending, generation) | preflight, record/finish/recover generation, publish, restore, evict, reset | uploads whose outcome was not recorded; another writer; a stop in every command | the receipt never lies; nobody's bytes are overwritten or lost; what is pending gets published |
| WARC shards (`pipeline/write_captures.py`, `archive/scan_warcs.py`, `pipeline/build_collection_index.py`, `archive/inventory_collection.py`) | shard bytes, durable offsets, index rows | append, rollback, strict scan, tail repair, incremental index | power loss with unsynced bytes; torn members; several shards in one URL group | a checkpointed capture survives; only private, unsynced bytes are cut |
| Capture resolution (`pipeline/resolve_captures.py`) | inventory, representatives | reuse, download, revisit | parallel groups, one writer, runs of different ranges and sources | every selected capture is stored, revisited or reported once; a revisit names an earlier response with its payload |
| Decoding (`pipeline/decoding/`, `pipeline/retrieval/`) | none | accept, refuse or repair an answer | nearby captures, stub pages, two defects of ARC records | what is stored is what was listed; a repair is verified by its digest |
| Capture batches (`runtime/manage_capture_workers.py`, `pipeline/retrieval/fetch_capture.py`) | deque of futures, failure, cancel event | submit, yield in order, fail, cancel, drain | failure of a worker while others run; interruption of the consumer | order kept, bound kept, the cause of a failure is what the caller sees, nothing runs after the scope |
| Pacing (`runtime/pace_requests.py`, `runtime/track_http_requests.py`) | next start, per-endpoint starts, cooldown, level; counters | wait, pause, note_success, start, finish, close | many threads; answers that arrive during a cooldown | starts are spaced, cooldowns respected, escalation neither skipped nor doubled |
| Wayback discovery (`pipeline/discovery/load_or_fetch_year_cdx.py`) | window checkpoints, final cache | query, split, retry, checkpoint, install | slow queries; stops between windows; late answers | the cache is the whole year or absent |
| Common Crawl discovery (`pipeline/discovery/load_or_fetch_common_crawl_year.py`) | page checkpoints, caches per crawl | count, page, cache, refresh | the catalog changes; clearing is not atomic | pages of two catalog versions never mix |
| Navigator indexes (`remote.py`, `store.py`) | accepted collections, annual cache files, merged snapshot | load, poll, stage, merge, fall back | publication while listing; stops between replacements | playback reads a validated, whole snapshot, and catches up |
| Navigator catalog (`catalog.py`, `frontend.py`) | entries, claims, catalog snapshot, routes | refresh, publish, adopt | identity changes, duplicates, stale sources | one owner per archive id; a bad source hides no other |
| Navigator supervision (`process.py`, `cli.py`) | child process, runtime directory | start, probe, wait, stop | exit races, signals at any step, a child that ignores SIGTERM | no orphan, no hang |

Not modelled: configuration and CLI parsing, HTTP client wiring, the text of
formats, progress output and diagnostics, workspace migration, templates
(section 6).

How they interact: one process runs a fetch under `archive_lock`. It recovers
promotions (`YearStage.recover`), lets the publisher compare bucket and receipt
(`preflight`), and then, year by year, opens a stage, takes its inventory, runs
discovery (which publishes each finished cache at once), downloads on worker
threads that share one start gate, appends on the main thread with one
checkpoint per URL group, indexes, records the generation in the receipt,
commits, and publishes. Navigator shares nothing with Fetch but the bucket.

## 2. Modules

| Module | Models |
|---|---|
| `YearStage` | one year's staged transaction, one action per file operation that a stop can separate |
| `YearCatalog` | what a year promises its readers: an atomic change of the set of records served; `YearStage` implements it |
| `YearStageProofs` | theorems about `YearStage` |
| `WarcStage` | acquisition inside one stage down to gzip members, the page cache and the disk: append, rollback, checkpoint, scan, repair |
| `Publication` | the receipt lifecycle: fetch, reset, sync, restore, evict against a bucket somebody else may write to |
| `CaptureBatch` | the worker threads of a year, the futures the main thread owns, failure, cancellation and drain |
| `StartGate` | the gate every request goes through, with the retry loop of `fetch_capture` and the CDX query |
| `CrawlDiscovery` | one crawl and year at Common Crawl over many runs: cache, manifest, page files, clearing |
| `YearDiscovery` | one year at the Wayback Machine over many runs: windows, splits, window checkpoints, the query and its timer, the final cache |
| `Decoding` | what both decoders accept, refuse and repair, as operators without state |
| `ResolveCaptures` | from listings to records over many runs: reuse, download (with `Decoding`), revisit, write, report |
| `RemoteIndex` | Navigator's index of one archive against a bucket that is published to and reset |
| `Catalog` | the refresh of all entries, who owns which archive id, the published snapshot and its adoption by the replay process |
| `Navigator` | the process around `Catalog`: startup, catalog thread, replay process, signals, leaving |
| `WarcStageProofs`, `PublicationProofs`, `CrawlDiscoveryProofs`, `YearDiscoveryProofs`, `ResolveCapturesProofs` | theorems about the module of that name (`ResolveCapturesProofs` with lemmas about `Decoding`) |
| `CaptureBatchProofs` | theorems about `CaptureBatch`, and about `StartGate`, which its workers go through |
| `NavigatorProofs` | theorems about `Navigator` with `Catalog`, and about `RemoteIndex`, which `Catalog` refreshes |
| `MC...` | instances for TLC |

Each module lists, next to some definitions, a *broken variant* of them: the
same definition with a plausible mistake. They are not part of any
specification; each shows that a property notices the mistake.

### YearStage

Files are variables (`canon`, `canonIndex`, `stage`, `linked`, `stageIndex`,
`work`, `ready`, `dir`), process memory is apart (`run`, `state`, `todo`,
`written`), and `pc` is the place in `YearStage.__init__`, `_run_year`,
`commit` or `_promote`. `Crash` (a kill, Ctrl-C or an exception) drops memory
and keeps every file. Operations the code makes atomic (rename of a synced
temporary) are one step; those it does not are several: seeding links shards
one by one and copies the index in place (`SeedIndex`, `SeedIndexCopied`),
promotion replaces one file per step, `rmtree` removes one entry per step in
any order (`RemoveFile`). `linked` says which staged shards share an inode with
the canonical file (where a hard link cannot be made the code copies, and the
model may): an append through one of them changes both, which is why
`prepare_mutable_tail` exists. A shard is the sequence of its captures, a
checkpoint an offset in it. Settings that must match on resume are one
constant (`Bindings`). A manual sync enters only to recover.

### WarcStage

The same stage one level down, where `YearStage` has one step per capture. A
shard is a sequence of gzip members: `Info`, captures, `Torn` for an incomplete
last one. `synced` and `entry` say what of it, and of its name, is on the disk.
`Kill` keeps the page cache; `PowerLoss` keeps a prefix of each shard no shorter
than what was synced (that a file loses only a suffix is an assumption about the
file system), and may lose names whose directory was not synced. `Repair` and
`ScanRefused` are the two ways `StrictWarcReader` deals with a torn tail, and a
checkpoint syncs shards, then their directory, then saves `work.json`.

### Publication

The receipt treats every object alike, so one year's objects (`Warcs`, `Index`)
and the discovery caches (`Caches`) stand for all. Contents are sequences of
their writers (`Here`, `There`), so that a lost update shows as a prefix that
disappeared; equal contents stand for equal SHA-256 and equal bucket
signatures. A year's promotion is one step: fetch and sync finish it before
they look at the bucket, restore and evict refuse while `.staging` exists.
`staging` stands for any unfinished work. A check of the bucket and the upload
that follows are one step, and `Outsider` acts only between commands and while
a year is being opened or acquired: storage.py:3 demands a single writer, so
the model asks only what the code's own checks can guarantee.

### CaptureBatch

One batch: `fut` is the state of each group's future, `thread` what each worker
runs, `pending` the deque of futures the batch owns, `pc` the main thread in
`map`, in its consumer (`write_captures`) or in `__exit__`. `executor.submit` and
the append that takes its result are two steps (`Submit`, `Own`), recording a
failure and setting the event are two steps (`RecordFailure`, `SetEvent`), because
another thread, or Ctrl-C, can come between. `InterruptAt` names the steps of the
main thread at which Ctrl-C may land, the first or a later one: in `map` and its
consumer (`Interrupt`), and in `__exit__` (`InterruptExit`), which it may cut short
before the event is set, between two cancellations or in the wait. Ctrl-C in
`CaptureWorkers.close` is not modelled. What a group does is abstract: it ends,
fails, or notices the event.

### StartGate

`nextStart`, `endpointStart` and `blockedUntil` are deadlines in the code; here
they are the time left until them, and `Tick` brings them nearer. `wait` looks
whether the batch is cancelled (`Check`) before its critical section (`Start`:
compare the deadlines, reserve the next slots; `TooEarly`: sleep), and
`fetch_capture` looks before it notes a success (`Decoded`, `Succeed`): the batch
may be cancelled between the two. A thread that was granted a start (`granted`) may be delayed before it sends, so what the
gate spaces are starts. `Fails` is the `except` branch of `fetch_capture` with the
advice of `interpret_wayback_failures.py`; Common Crawl's advice has no timeout
group and is otherwise a subset. The CDX query's own pauses concern only its
thread (`QueryFails`); the thread a query leaves behind when it exceeds its wall
clock is one more member of `Cdx`. Levels beyond the one that reaches the cap are one
(`MaxLevel`). Counters, traces and captures refused before their first attempt
are not modelled.

### CrawlDiscovery

`index` is what the server would answer now: the catalog's record of the crawl
and its page count. A run takes the record once (`Start`) and the count once
(`AskCount`); pages on disk carry the unit they were asked under. `Reindex` may
change the answers at any moment, `Stop` ends a run at any step (a kill, or
requests beyond their retries), and `clear_progress` removes one file per step.
Crawls are independent of each other, so there is one. That the pages of one
record and one count belong together is the code's own assumption
(ARCHITECTURE-FETCH.md: "updates within an existing collection with unchanged
metadata are not detected").

### YearDiscovery

A year is a few days, a window a pair of them. `todo` is the stack of the
recursion `acquire`; `listing` and `split` are the checkpoint files of windows,
`cache` the annual file. A query has a thread of its own (`query`: in the gate,
sent, or what it came to) while the main thread waits with a timer (`left`);
`worked` is what the thread spent outside the gate. `TimerFires` and the look at
the future are two steps, so an answer may come between them (`LateRetry`).
`Stop` ends a run anywhere; the setting `cdx_window_days` may differ between runs,
and the current year may end during one (`NewYear`), which decides what is
cached. A thread that exceeded the budget is left behind by the code; it can
only discard its answer and is not followed. The two retry limits apply as in
`_cdx_retry`: one rate limit makes every later failure of the window one.

### Decoding and ResolveCaptures

`Decoding` writes bytes as a few letters, a digest as the bytes themselves, and
gives for each answer a result, or that it is corrupt or refused. A listing is
taken at its word about the digest only where the code does: `DecodeMemento`
accepts a body that does not match (kind `"other"`) or matches but for a newline
(`"soft"`); `RecoverArc` accepts only what the digest verifies. The rules about
stubs and empty bodies are the Wayback Machine's (ARCHITECTURE-FETCH.md:482).
Header syntax, size limits, chunking, source digests inside WARC records and the
rules for hosts in `_recovery_url` are left out: each only refuses more.

`ResolveCaptures` EXTENDS it. `Download` takes any result that an answer to the
request could decode to, or fails. The selection is a set, and `First` takes its
members in the order of `CaptureIdentity.sort_key`: a worker the first `Left` of its
group, the writer the group of the first capture not taken yet. The digest, which
the code compares last, is not ordered: captures that differ in nothing else come
in any order. Workers go through their URL groups in parallel
(`outcomes`); `TakeGroup` and `Commit` are the writer. `known` is
`successful_downloads`, `existing` the inventory at the start of the run,
`Representatives` what `inventory_collection` makes of the index: only a response
with exactly the listed digest represents a payload in later runs
(tests/pipeline/test_write_captures.py:115). `Stop` keeps what was appended; what a
power loss takes is `WarcStage`'s subject.

### RemoteIndex

The bucket is modelled as Fetch changes it: a year's WARCs before its index
(`Publication`'s order) and, on a reset, deletions in any order before the next
build. `ListPage` passes any number of objects in the order of their names;
`Stage` is one conditional fetch with its checks; `ReplaceAnnual` and
`ReplaceSnapshot` are the renames of `publish_indexes`, after the merge into a
temporary file. `Fail` is an exception anywhere, answered by the cached files when
the archive is not loaded yet. `accepted` is `_states`; `Cached` is the empty ETag
of an index that came from the cache. The legacy-layout refusal (it is in
`Catalog`), manifests and images are left out.

### Catalog and Navigator

`Catalog` has one step per entry and phase of `CatalogStore.refresh`: identity
(`Accept`, `KeepId`, `AcceptCached`, `NoIdentity`, `DuplicateAtStartup`,
`RefuseLegacy`), index (`IndexRead`, `IndexCached`, `NoIndex`), then `Publish`. Of a
bucket it knows the id, or that its `archive.json` is invalid, or that it is down or
legacy. An id that differs from the cached one is written to the cache before it is
accepted, which may fail (`SaveFails`). An edit that keeps the id is not followed.
The replay process stats
the snapshot and reads it in two steps (`Stat`, `Adopt`). `stamp` counts the
replacements of the file: two within one tick of the file system's clock would
have one mtime in the code and are not modelled.

`Navigator` adds the main thread (`pc`), the child and signals. `CtrlC` is an
exception wherever the main thread is; SIGTERM is one only while the handler is
installed (`Terminated`), and ends the process otherwise (`TerminatedBare`).
`exposed` notes three things `LeavesNothing` does not cover: Ctrl-C at a step no `try`
protects (between the start of the catalog thread, or `Popen`, and the `try` that
follows, inside the `finally` blocks and during cleanup); SIGTERM at any step at
which its handler is not installed, which is until the replay process has been
started (the startup refresh included) and from the `finally` block of `run_wayback`
on; and a catalog thread that outlives
its join. `polling` says that the catalog thread was started and not told to stop.
`child` is the replay process of this run: one that an exposed run left behind goes
on in a session of its own, and all it can do to a later run is to hold the port.
The replay process is `starting`, `ready`, told to terminate or
`dead`, and may exit at any time.

## 3. Runs

| Run | Question | Bounds and why they are enough |
|---|---|---|
| `year_stage` (pass) | Is the index honest and complete, is acquisition private, is the transaction atomic for readers and is a promotion always finished? | 2 captures, 2 shards, targets 1 and 2 (a full and an open tail), 2 settings, 3 interruptions: a resumed and twice-recovered promotion, growth into a new shard, and a replacement that drops a shard all occur |
| `warc_stage` (pass) | Does a checkpointed capture survive every kill, power loss and failed write, is nothing stored twice, and can the next run resume? | 3 captures in up to 6 shards of one or two captures, 2 interruptions: a group that spills into a new shard, a torn member in an old and in a new shard, and an interrupted recovery all occur |
| `publication` (pass) | Is the receipt truthful, the bucket's index honest, nothing overwritten or lost, and pending work published? | 1 WARC of up to 2 additions, 1 cache, 2 interruptions, 1 outside write: enough for an update of a published object, an unrecorded upload and a conflicting writer |
| `publication_retry` (violation) | Can a generation always be finished or dropped? | no caches, 2 interruptions |
| `publication_cache_retry` (violation) | Can publication always be retried? | 1 cache, 2 interruptions |
| `capture_batch` (pass) | Are results handed over in order and in bounded number, does the cause of a failure surface, is the scope drained, and left? | 4 groups on 3 workers, Ctrl-C at every step and again in `__exit__`: two workers fail while a third runs and a group waits |
| `start_gate` (pass) | Are starts spaced and is every Retry-After honoured? | 2 playback threads and a CDX query; an interval of 1, a CDX interval of 2, cooldowns of 2 capped at 3 and a Retry-After beyond the cap; 2 attempts: failures of requests sent before a cooldown arrive during it, from both threads and after a cancellation |
| `crawl_discovery` (pass) | Is a cache always one whole listing, what can make a run refuse, and is the cache finished and announced? | 2 records, up to 2 pages, 2 changes, 2 stops: a stop in clearing, followed by a change, followed by a stop in the next acquisition |
| `remote_index` (pass) | Does playback read only checked indexes, lose no year in a session, and catch up? | 2 years, 2 additions, 1 reset, 2 faults: an index replaced while it is listed, a half finished replacement, a restart without the bucket |
| `year_discovery` (pass) | Is the cache the whole year once, is no settled window asked for again, is the budget honest, and is every year completed? | 5 days, first splits of 1, 3 and 5 days, a floor of 2, a budget of 2 ticks, 2 and 3 attempts, 2 stops: all shapes of split (into equal and unequal parts, twice, none) and a changed setting between runs occur |
| `resolve_captures` (pass) | Is what is stored what was listed, do revisits resolve, is no payload stored twice, and does the report add up? | 6 listed captures of 3 URLs, 2 sources, 2 ranges, 3 runs: a payload under two spellings, a representative that is too recent, empty payloads of two statuses, a soft match followed by a run that must not use it, a repaired ARC record |
| `navigator` (pass) | Has an id one owner, is a snapshot adopted whole, is nothing left behind, do signals stop it, does playback catch up? | 2 entries, 2 ids, 1 change of a bucket or failed cache write, any cache of one entry, 1 run, 2 signals: a claim against a cached claim, a recovery, a broken `archive.json`, a second signal during the shutdown of the first. The first entry's bucket answers at first; after a failed write it is the entry that recovers. Larger instances (2 runs, 2 changes) exceed the time a run should take |

Fairness. `YearStage`, `WarcStage`: a process that runs goes on (`WF` on its
steps) and an operator keeps starting runs; interruptions are bounded.
`Publication`: the same for a command's steps, and strong fairness for starting
a sync, because other commands may always be started instead. `CaptureBatch`:
every thread keeps running, and a request ends because its socket times out.
`CrawlDiscovery`: a run goes on and another one is started; stops are bounded.
`RemoteIndex`: the refresh loop goes on, and a reset that began is finished
(an operator repeats it). `YearDiscovery`: runs go on and are started again, the
year ends, and a query that waits, or is asked again and again, passes the gate
and is answered in time some day (strong fairness); no bound on how often it
is too slow. `Navigator`: the main and the catalog thread run on, requests come
in, and a publication or an adoption tried again and again succeeds some day: an entry
whose part of `publish` fails for ever, which keeps all others from being published,
is outside `CatalogCatchesUp`. Failed cache writes are bounded. `StartGate` has no liveness property: nothing bounds how
long a source may refuse. Nothing more is assumed: a fetch may fail for ever.

`PublicationCompletes` excludes three named states: the two of the findings
(`LostGeneration`, `UnrecordedCache`), which only the two violation runs show, and a
reset that died half way (`HalfReset`), which another fetch or reset repairs but a
sync refuses. It says nothing of how these states come about or end.
`Drained` excludes what Ctrl-C lets go: the group it kept out of the queue, and
whatever runs when it cuts `__exit__` short. `StartsPaced` is about the starts the gate
grants, not about the sends that follow them.
`CacheCompletes` excludes a run refused again and again (see below) and an index
that never gives a valid count. `Resumable` excludes a power loss that finds two
shards with unsynced bytes: a URL group that spilled is synced only at its end,
and the later shard may survive the earlier one's bytes. `LeavesNothing` excludes
`exposed` (section 2).

### Findings

* `publication_retry`: a generation promoted but not yet uploaded, followed by
  a second generation that is lost before `ready.json`, leaves local files
  equal to neither the new generation nor the baseline. `recover_generation`
  raises on every later fetch, sync and reset; restore and evict refuse too.
* `publication_cache_retry`: a Common Crawl cache is replaced on disk before
  its hash is recorded as pending, and a stop in between makes every later
  preflight refuse it.

Four more disagreements are known. Their states are in the models, no property
that is checked denies them, and they have no run of their own:

* `clear_progress` stopped after `query.json` and before a page file leaves a page
  no manifest describes. When the page count has changed since, the next run does
  not invalidate that page (ARCHITECTURE-FETCH.md:363) but fails on it, and so does
  every run after it. A stop anywhere else is harmless: `RefusedOnlyTorn`.
* Ctrl-C between `executor.submit` and `_pending.append` leaves a group outside the
  batch, which is then left while that group is queued or running; the event is
  set, so it soon stops. Ctrl-C in `__exit__` leaves whatever runs, and if it comes
  before the event is set the groups go on to their end, for which `close` waits
  (manage_capture_workers.py:53 "cancelled and drained before its scope exits").
* A thread that was granted a start may be delayed before it sends, and two sends
  may follow each other at once: docs/ARCHITECTURE-FETCH.md:46 "At 2, sends are spaced
  at least 0.5 seconds apart".
* A replacement stopped between creating the stage directory and saving
  `work.json` is refused, not resumed, by ordinary runs (ARCHITECTURE-FETCH.md:557).
  Only a reset gets past it; nothing canonical is lost (`IndexComplete`).

## 4. Proofs

`YearStageProofs` proves, for any set of captures, number of shards, targets
and settings and any number of interruptions:

* `TypeCorrect`: `Spec => []TypeOK`;
* `IndexAlwaysHonest`: `Spec => []IndexHonest`;
* `AcquisitionPrivate`: `Spec => CanonicalPrivate`;
* `Invariance`: the inductive invariant `IInv` they follow from;
* `IndexAlwaysComplete`: `Spec => []IndexComplete`;
* `CatalogImplemented`: `Spec => ImplementsCatalog`.

`IndexHonest` is not inductive. `IInv` adds what each phase knows: `ProcessInv`
(memory mirrors `work.json` while a run is in a stage), `StageInv` (linked
shards equal their canonical file; the tail that is appended to is not linked;
staged shards extend the baseline), `ManifestInv` (an installed `ready.json`
describes shards that extend, or replace, the canonical ones and an index that
lists only them) and `PromotionInv` (where a promotion stands: shards before
the index, the index before deletions). Honesty survives a shard replacement
because the new bytes extend the old ones, or because a replacement removed
the index first.

`IndexComplete` needs the other direction, which no reader depends on and which
fails in the middle of a promotion. `CompleteInv` says it phase by phase: a staged
index lags only in shards this run wrote to (`StagedIndexInv`), and the manifest
of a finished stage has an index that lists the final bytes of every shard
(`WholeManifestInv`). The refinement then rests on honesty: what a reader can read
is exactly what the canonical index lists (`ReadableIsListed`). Writing `ready.json`
is the catalog's decision, removal of the index its withdrawal, replacement of
the index its installation, removal of `ready.json` its end; `Stepwise` shows that
every other step is a stutter. Assumptions: `BoundsAssumption`, `MarkersAssumption`
and `NoneAssumption`, which only say that bounds are numbers and that markers are
not data.

`WarcStageProofs`, for any captures, shards, targets, kills, power losses and
failed writes:

* `WarcTypeCorrect`: `Spec => []TypeOK`;
* `RecordsAlwaysOnDisk`: `Spec => []RecordsOnDisk`;
* `NothingStoredTwice`: `Spec => []StoredOnce`;
* `StageResumable`: `Spec => []Resumable`;
* `CapturesAlwaysKept`: `Spec => CapturesKept`.

That `work.json` records no byte the disk does not hold rests on what each phase of
a checkpoint has done (`Covered`: whatever is not recorded is among its paths;
`PathsReady`: those are synced, and hold captures, before it is saved).
`StoredOnce` needs to know that what is still to be acquired is in no shard
(`Fresh`), also after a restart: what the scan of the next run finds is all there
is. `Resumable` is about a torn tail: an incomplete member is the last one of its
shard and beyond its checkpoint (`TornLast`); a name on the disk is never newer
than bytes that are not (`SyncedInOrder`), so that a power loss can spoil the
newest shard only, unless the group had spilled (`OneLoose`). `LinkedWhole` and
`Writing` keep the tail that is written apart from canonical inodes. Assumption:
`WarcBoundsAssumption`.

`PublicationProofs`, for any WARCs and caches, additions, interruptions and outside
writes:

* `PublicationTypeCorrect`: `Spec => []TypeOK`;
* `ReceiptAlwaysTruthful`: `Spec => []ReceiptTruthful`;
* `RemoteAlwaysHonest`: `Spec => RemoteStaysHonest`;
* `NoUpdateIsLost`: `Spec => NoLostUpdate`;
* `NothingIsLost`: `Spec => NothingLost`;
* `Invariance`: the inductive invariant `IInv` they follow from.

Contents are sequences that only grow, so the order between the places that hold
a file is the prefix order (`PrefixMeans` and the lemmas after it), and most of
`IInv` says which place extends which: the intentions and, after a preflight, the
local files extend the baseline (`ReceiptInv`); a generation extends what it would
replace, before and after it is dropped (`GenerationInv`); what `ready.json` would
promote extends the local files, and no other command gets past its first step
before it has been promoted (`ReadyInv`). An upload then overwrites no addition.
While a generation is open nothing has been uploaded since the bucket was compared
(`TruthInv`), which is why dropping it leaves the receipt true. The order of
publication is in `QueueInv`: WARCs that have left the queue are in the bucket as
the local index lists them, before the index leaves it. Assumptions:
`ObjectsAssumption`, `BoundsAssumption`.

`CaptureBatchProofs`, for any number of groups and threads, of any outcome:

* `BatchTypeCorrect`: `Spec => []TypeOK`;
* `ResultsAreHandedOver`: `Spec => []HandedOver`;
* `OutcomeIsHonest`: `Spec => []OutcomeHonest`;
* `DrainedForever`: `Spec => []Drained`.

The queue holds the groups after those taken, in order (`QueueInv`); nothing
further than `MaxWorkers` ahead was submitted (`AheadInv`); a worker is cancelled
only after a failure was recorded or the writer gave up (`CauseInv`), so that the
failure recorded first is what surfaces. `OwnedInv` is a conjunct only of
`DrainedForever`: unless `__exit__` was cut short, every group that is queued or
running is in the queue, but for the one just submitted. Ctrl-C may land on any
step of `map` or `__exit__`, and `InterruptAt` is any set of them. `ThreadsInv` and `ScopeInv` complete the types. Assumption: `BatchAssumption`.

Of the start gate (also `CaptureBatchProofs`), for any threads, intervals, cooldowns
and Retry-After values (bounded or not); `LevelRules` and the type invariant are
proved and not part of a run:

* `TypeCorrect`: `GateSpec => []GateTypeOK`;
* `PacedForever`: `GateSpec => StartsPaced`;
* `AdviceIsKept`: `GateSpec => AdviceKept`;
* `LevelObeysRules`: `GateSpec => LevelRules`.

The properties speak of history (when the last start was, what was advised),
the guard of `Start` only of deadlines. `PacingInv` links the two: the time since
a start and the time left until the next sum to at least the interval, and no
advice outlasts the cooldown. `AttemptsLeft` keeps the attempt counter in its
type. `OnlyStartGrants` shows that no other step grants a start. Assumption:
`GateAssumption` (times are numbers, the two kinds of threads are disjoint).

`CrawlDiscoveryProofs`, for any page counts, changes and stops:

* `TypeCorrect`: `Spec => []TypeOK`;
* `OneVersionForever`: `Spec => []OneVersion`;
* `OnlyTornIsRefused`: `Spec => []RefusedOnlyTorn`.

Pages collected by a run are of the unit it asked for (`RowsInv`), and page files
are of the page count their manifest names, unless they are being removed or a
stop tore `clear_progress` (`PagesInv`). `CollectedInv` bounds what a run holds, which
`TypeOK` needs after the run has left the loop as well. Assumption: `DiscoveryAssumption`.

`YearDiscoveryProofs`, for a year of any length and any widths, floors, budgets,
attempts and stops:

* `WholeYearForever`: `Spec => []WholeYear`;
* `NeverAskedAgain`: `Spec => []AskedOnce`;
* `BudgetIsHonest`: `Spec => BudgetHonest`.

The recursion is followed through its stack: the windows in `todo` are adjacent
and reach to the end of the year, and what was collected are the days before the
first of them (`WalkInv`); checkpoints hold the days of their window and are kept
(`KeptInv`). That a split yields adjacent windows that cover the same days
(`SlicesPartition`) is a lemma about `Slices`. `TimeInv` (what is left and what was
worked never exceed the budget) gives the third. Assumption: `YearAssumption`.

`ResolveCapturesProofs`, for any listings, payloads, URLs and answers:

* `StoredAsListed`: `Spec => []AsListed`;
* `RevisitsAlwaysResolve`: `Spec => []RevisitsResolve`;
* `NothingIsCopied`: `Spec => []OneCopy`;
* `EverythingIsAccounted`: `Spec => []Accounted`;
* `RecoveryIsVerified`: a repaired ARC record has the listed digest and is of the
  listed resource, time and status, and no other repair has that digest.

There is one lemma for each decoder of `Decoding`. `ListedInv` carries what they
say from a worker's outcome through the writer to the archive. `RevisitInv` follows a
revisit from the moment a worker decides on it: what the worker knows is in the
archive or among the earlier outcomes of its own group (`KnownInv`), and the writer
appends those first (`Backed`).

That no payload is stored twice rests on the converse: of every payload of its group
that the archive or its own outcomes hold, a worker knows a copy at least as old
(`CoverInv`), because the inventory keeps the oldest one (`FirstExists` says there is
one) and a download replaces only a later one. No other group can hold that payload
(`KeyTellsGroup`), so it does not matter in which order the groups are resolved.
Without a count of soft matches by run this is false: the next inventory does not
see them. For the account, `GroupsInv` says that a group's outcomes are of different
selected captures and complete when the writer takes them; `Settled` are the captures
the writer is done with. Of these each is stored or failed, and of the others the
archive has what it had when the run began (`AccountInv`), so every commit settles and
counts exactly one (`MetricsInv`). Assumptions: `DecodingAssumption`,
`ResolveAssumption` (listings are finite; numbers stand for the strings that are
compared).

`NavigatorProofs`, for any entries, ids, caches, runs and signals:

* `OneOwnerForever`: `Spec => []OneOwner`;
* `NothingIsLeft`: `Spec => []LeavesNothing`;
* `AdoptedAsAWhole`: `Spec => []AdoptedWhole`.

A claim is given only to an entry when no other holds it, and what is published
or adopted are entries with claims (`OwnersInv`). `CleanInv` says at which places of
the main thread a child, a polling catalog thread or the temporary directory may
exist, unless `exposed`. `AdoptedInv` orders
the stamps: the file's grows with every change, and the replay process has seen
none that is later. Assumptions: `CatalogAssumption`,
`NavigatorAssumption`.

Of one archive's indexes (also `NavigatorProofs`), for any number of years, builds, resets and faults:

* `CheckedForever`: `IndexSpec => []Checked`;
* `YearsAreKept`: `IndexSpec => Kept`.

An index is checked when it is staged; `FoundInv` says this also of the annual
files and the snapshot made from them, which may be from different refreshes.
`YearsInv` says that the years of the snapshot are among the annual files and the
accepted ones. Assumption: `RemoteAssumption`.

All of these assumptions are named where the constants are declared and are
evaluated by TLC in every run.

Model-checked only:

* liveness (`PromotionCompletes`, `PublicationCompletes`, `AcquisitionEnds`, `BatchEnds`,
  `CacheCompletes`, `CatchesUp`, `YearCompletes`, `SignalStops`, `CatalogCatchesUp`):
  temporal properties under fairness are out of the prover's reach, and so is
  ENABLED, on which they rest.

Every invariant and every action property that a passing run checks is also a
theorem.

## 5. Plan

Done: the modules and proofs above. What is left, in this order:

1. Type invariants of `ResolveCaptures`, `YearDiscovery`, `RemoteIndex` and
   `Navigator`, which state none: their inductive invariants say what the theorems
   need of the types.
2. A composition of `Publication` with `RemoteIndex`, in which the bucket's order is
   not assumed but is the publisher's: what `PublicationProofs` shows of the order of
   uploads is what `RemoteIndex` takes for granted.

## 6. Not modelled

* Parsing, validation and generation of configuration, the command lines
  (`cli.py` of Fetch, `config/`, Navigator's `config.py`, `settings.py`,
  `validation.py`, `collections.py`): functions from text to settings or to an
  error, with no state and no order that could go wrong. The models take
  settings as constants.
* HTTP clients and the rclone command line: libraries and their wiring. What they
  can return is an input of the models.
* The text of WARC records, CDXJ lines, dates and names (`archive/format.py`,
  `dates.py`, `digests.py`): formatting, covered well by unit tests.
* Run records, metrics, progress and HTTP traces (`runtime/`): written and never
  read back.
* `migrate_workspace.py`: a one-off move of files run by hand.
* Presentation: `publish_metadata`, images, page summaries, templates.
