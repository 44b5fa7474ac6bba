# TLA+ models of the CarbonJ audit-analysis and cleanup scripts

This directory holds TLA+ models of the Python tools in `src/`, together with
the TLC configurations that check them. The models are written from the
source. Line numbers below refer to the files under `src/carbonj.service/src/main/`.

## 1. Inventory

### Components

| Component | Source | State | Operations |
|---|---|---|---|
| Lag Detector | `scripts/analyze_audit_lagging_metrics.py` `main` | `min_ts`, `max_ts`, `seen_max` (None until the first valid line), `out_of_order_count`, `seq`, `top_heap` (a heapq list of `(lag, seq, metric)`, capacity `topN`) | read one line (skip it, or process it), end of file, report |
| Chunk Planner | `scripts/analyze_cardinality.py` `find_chunk_boundaries` | `start`, the loop index, the list of `(start, end)` ranges | one loop iteration (seek + readline), the final append |
| Chunk Worker | `analyze_cardinality.py` `process_chunk` | none shared: a local set of names and a local `prefix -> children` dict, which it returns | parse one byte range |
| Aggregator | `analyze_cardinality.py` `main` lines 109-134, `merge_prefix_children` | `results` of `pool.map`, `all_metrics`, `merged_prefixes` | plan, start the pool, each worker runs a chunk (or fails), join and merge |
| Cardinality Reporter | `analyze_cardinality.py` `main` lines 136-230 | none: reads the merged index | the four views: top prefixes, family totals, per-position counts, drill-down |
| Invalid namespace checker | `docker/files/check-invalid-namespaces.py` | `last_key` and `file_number` of the dump, `skip_prefixes`, `checked_prefixes`, `invalid_id_count` | paginated ldb dump, scanning names, ldb point lookups with retry, appending to `/data/invalid_namespaces` |
| Invalid namespace cleaner | `docker/files/delete-invalid-namespaces.py` | `deleted_namespaces` | truncate to a prefix, de-duplicate, HTTP delete |
| Parent-leaf node cleaner | `docker/files/delete-invalid-parent-leaf-node.py` | processed-ids file (persists across runs), the ids being processed | grep the log, skip processed ids, check three stores, delete, record the outcome |
| Interactive metric deletion | `docker/files/deletemetrics.py` | none beyond the prompt answers | build the URLs for each shard and replica, send concurrent async deletes, log the results |
| Whisper loader | `docker/files/cj-load.py` | the files of the walk, what the server has loaded | read each file's header, pick the archive of the database's precision, write its points as text, post them |
| CLI front ends | the `main`/`parse_args` parts of the above | none | argument checks, printing |

### Interactions

* Cardinality analysis is fork-join. `main` plans the chunks, and `pool.map`
  runs `process_chunk` in separate processes. Each process returns a value and
  shares nothing. `pool.map` returns the results in chunk order once all are
  done, or raises if one failed. `main` then merges them on one thread.
* The lag analysis is one sequential pass with no concurrency. The two analyses
  share only the input format.
* The cleanup tools are connected through files. The checker writes
  `/data/invalid_namespaces`, and the namespace cleaner reads it and deletes
  over HTTP. Those files stay in `/data` between runs: `dump()` removes
  the earlier scan files and `invalid_namespaces` first, except with
  `--no-dump`, when the checker reads the earlier scan files and appends to
  the earlier `invalid_namespaces`. The parent-leaf cleaner keeps its own processed/not-processed
  files between runs. All of them read the RocksDB stores through `ldb scan`
  subprocesses.

### What is hard

* **Lag detector.** The comparison must use the high-water mark from *before*
  the current line. The bounded heap must keep its minimum at index 0 through
  heapq's sift operations. The report order depends on the heapq list layout.
* **Cardinality.** Chunk boundaries must never split a line, for every file
  size and core count, including files smaller than the core count and files
  without a final newline. A prefix seen in several chunks must have its
  children unioned. A worker failure must abort the run. Report ties follow
  insertion and set-iteration order.
* **Cleanup tools.** Subprocess retries that end in an empty answer, a
  pagination loop whose stopping condition depends on that answer, counters
  shared across prefixes, files an earlier run left in `/data` (appended
  to, or kept by `--no-dump`), a crash between a delete and recording it, a
  point arriving between a check and the delete, and requests with no
  timeout.
* **Loader.** One file's failure ends the whole walk, and a value's text
  must read back as the same float.

### Properties that make each component correct

* Lag Detector:
  * the running scalars equal a reference computed over the whole prefix read;
  * the heap holds exactly the top-N lags;
  * the heapq list implements the spec's TopKHeap: it holds the very events
    the abstract set keeps, evicting the (lag, sequence) minimum;
  * `max_lag_seconds` is the file's maximum lag;
  * equal lags are ranked first-detected first (spec section 9).
* Chunk Planner: the ranges partition the file at line boundaries, and there
  are at most `num_chunks` of them.
* Worker and Aggregator:
  * the merged index equals a single pass over the file, whatever the chunking
    and the completion order, and no index is built from a partial set of
    chunk results;
  * names are first fields (not checked, see section 5).
* Reporter: the views are deterministic, with ties broken lexicographically
  (spec section 4.4).
* Cleanup tools:
  * a namespace is reported invalid only if no store holds its id;
  * the dump terminates;
  * nothing is deleted twice, or deleted while it is still in use;
  * the namespace cleaner, fed the checker's file, deletes no name with data;
  * the interactive deletion writes one record per URL and completes;
  * the cleaners end unless a request hangs.
* Whisper loader: every file's points reach its metric with the timestamps
  and values it stores.

## 2. Modules

| Module | Models | Composes |
|---|---|---|
| `LagDetector.tla` | the whole pass and the report of `analyze_audit_lagging_metrics.py`, including CPython heapq's `_siftdown`/`_siftup` | — |
| `LagReportSpec.tla` | the spec's lag detector (section 4.5) with the TopKHeap as a set of events: the abstract specification LagDetector implements | — |
| `MCLagDetector.tla` | metric names as model values, a symmetry set | LagDetector |
| `ChunkPlanner.tla` | `find_chunk_boundaries` | — |
| `ChunkWorker.tla` | `process_chunk`, `merge_prefix_children` and the name union, as operators | — |
| `CardinalityPipeline.tla` | `main` lines 109-134: planner, pool, join, merge | `INSTANCE ChunkPlanner WITH ...`, EXTENDS ChunkWorker |
| `MCCardinalityPipeline.tla` | the byte alphabet | CardinalityPipeline |
| `CardinalityReport.tla` | `main` lines 136-230: the four report views, for two sequential runs | — |
| `MCCardinalityReport.tla` | runs as model values, scaled family depths | CardinalityReport |
| `NamespaceChecker.tla` | `check-invalid-namespaces.py`: `dump`, `cleanup_files`, `check_invalid_ids`, `check_id_in_db`, `run_command` | — |
| `MCNamespaceChecker.tla` | three ids, names over `{a, b}`, the three stores as model values, `--no-dump` and an earlier `invalid_namespaces` | NamespaceChecker |
| `ParentLeafCleaner.tla` | `delete-invalid-parent-leaf-node.py` run repeatedly, with CarbonJ as its environment | — |
| `MCParentLeafCleaner.tla` | two leaf ids, the three stores, dry-run modes | ParentLeafCleaner |
| `WhisperLoader.tla` | `cj-load.py`: the walk, archive choice, value text, posts | — |
| `MCWhisperLoader.tla` | two files, whisper files of two schemas, six floats | WhisperLoader |
| `NamespaceCleaner.tla` | `delete-invalid-namespaces.py`: `clean`, `delete_namespace` | — |
| `InvalidNamespaces.tla` | the checker, then the cleaner on the file it wrote | EXTENDS NamespaceChecker, `INSTANCE NamespaceCleaner WITH lines <- written` |
| `MCInvalidNamespaces.tla` | two stores, HTTP outcomes, names of three segments | InvalidNamespaces, MCNamespaceChecker |
| `DeleteMetrics.tla` | `deletemetrics.py`: prompts, URL fan-out, concurrent asyncio deletes | — |
| `MCDeleteMetrics.tla` | two shards, typed numbers that do and do not exist, answers | DeleteMetrics |

### Correspondence with the code

* **LagDetector.** The variables have the code's names.
  * A line is the list of fields `line.strip().split()` yields. The metric is a
    model value, the value field is `Value`, and the last field is an integer
    in `0..MaxTs` or `Junk` (a token that does not match `^[0-9]+$`).
  * `ReadLine` is one iteration of the `for line in f` loop. It is either
    `SkipLine` (lines 63-73) or `ProcessLine` (lines 70-93, with
    `OutOfOrder`, `NewEvent` and `OfferLag` for lines 81-90).
  * `OfferLag` calls `HeapPush`/`HeapReplace`, which do to the list exactly
    what CPython's `heappush`/`heapreplace` do.
  * `EndOfFile` ends the loop. `Report` is what lines 95-123 print.
    `RankedEvents` is the stable `sorted(..., reverse=True)` on lag.
  * `LagReport` instantiates `LagReportSpec` with the refinement mapping:
    `highWater` is `seen_max`, `count` is `out_of_order_count`, `topK` is
    the set of the list's elements, `done` is `eof`. A skipped line is a
    stutter of the abstract specification. The abstract module states
    the spec's promise and is not a translation of code.
  * `tsLog` is a history variable: the valid lines read so far. The reference
    operators (`MaxBefore`, `IsLate`, `RefEvents`) are computed from it.
* **ChunkPlanner.** Offsets are 0-based.
  * `PlanIteration` is one non-breaking iteration of lines 42-50.
    `LineEndAfter` is `seek; readline; tell`.
  * `PlanLast` is the break or the exhausted loop, followed by line 51.
* **ChunkWorker.** Bytes are one-character strings.
  * A prefix `'.'.join(parts[:d])` is kept as its list of segments. This is a
    faithful encoding because segments contain no `.`.
  * A `defaultdict(set)` is a function whose values are non-empty sets.
* **CardinalityPipeline.**
  * `Plan` steps the planner.
  * `StartPool` submits one task per chunk.
  * `RunChunk(c)` is a pool process running `process_chunk`, in any order.
  * `ChunkReadFails(c)` is an `IOReadError` that makes `pool.map` raise.
  * `MergeResults` is the join and lines 125-134.
* **CardinalityReport.** A metric name is its list of segments. A segment is
  a number standing for a one-letter string, so `<` is the string order.
  * The merged index is computed from the file (`AllMetrics`, `Children`);
    `cardinality_merge` shows the pipeline builds exactly this index.
  * `PrefixOrder` is the key order of `merged_prefixes`: first occurrence in
    the file, whatever the chunking.
  * `hashOrder[r]` is the iteration order of the set `all_metrics` in run
    `r`. CPython randomises string hashes per process, so `StartRun` picks any
    order.
  * `SortDesc` is the stable `sorted(..., reverse=True)`; `most_common` is the
    same stable sort over the Counter's insertion order.
  * One action per view: `PrintTopPrefixes` (lines 136-158), `PrintFamilies`
    (160-177), `PrintPositions` (179-204), `PrintDrillDown` (206-230). Each
    stores the rows it prints; the text layout is left out.

* **NamespaceChecker.** Keys are ids ordered as their hex strings; `0` is
  `''`. `index` is the index-id store (id to name, injective) and `data` says
  which of the three stores hold a data point of each id.
  * `DumpScan` is one iteration of the `while True` loop of `dump()`: the
    scan writes its page (or, when `ldb` fails, any prefix of it: there is no
    `check=True`, so the failure is silent), `tail -1` gives the key, and the
    loop stops when the key equals the one the scan started from.
  * `CheckName`/`SkipLine` handle one line of a scan file, `NextFile` and
    `ChecksDone` its end and the end of the list. `CheckDbsFrom` is the loop
    over the three stores with its `break`; `CheckIdInDb` is
    `check_id_in_db`, where a command failing its three tries reads as "not
    found".
  * `failedNames` is a history variable: the names whose check met a failed
    command.
  * A run starts (`Init`) on what an earlier run left in `/data`: no scan
    files or those of a whole dump (`FullDump`), and the lines of an earlier
    `invalid_namespaces` (the history variable `earlier`). `SkipDump` is the
    `--no-dump` return of lines 87-89; `StartDump` calls `cleanup_files`
    (`CleanupFiles`, lines 171-178), which empties both, before the first
    scan.
* **ParentLeafCleaner.** An id stands for one leaf; `node[id]` is what its
  name is in CarbonJ: a leaf, absent (deleted), or a parent once the metric
  it blocked has been created.
  * Environment actions: `ErrorLogged` (CarbonJ refuses a metric under the
    leaf and logs the line), `DataArrives`, `ChildCreated`.
  * `StartRun` is lines 124-155: read the processed file, grep the log,
    build the dict of ids to process (`ToProcess`). One iteration of lines
    161-165 with `process_invalid_parent_leaf_nodes` takes a `CheckDb` step
    per store (`dbPos`), each one `ldb` scan, until one answers "there" (the
    id goes to the not-processed file) or all three are done; then
    `DeleteLeaf` sends the request and buffers the line.
    `EndRun` closes (flushes) both files; `Crash` ends a run before that and
    loses the buffered lines.
  * `deleted` is a history variable: the ids whose name a real run deleted;
    `raced` the ids that got a point in a store after the running check had
    passed that store.
* **WhisperLoader.** A float is its significant digits and decimal exponent.
  `Str` is Python 2 `str(float)`: `%.12g` (`Rounded`, then `Scientific` below
  1e-4 and from 1e12, else `Positional`, which adds `.0` to a whole number).
  `WithoutTrailingZeros` is line 112. `ReadHeader`, `Fitting`, `ArchiveData`
  and `LoadArchiveData` are lines 62-117 over the archives a file holds (the
  struct decoding is abstracted away; an archive lists its written slots and
  some empty ones). `ProcessFile(f)` is `process_file` for the next file of
  the walk, in any order; `Finish` is the end of the walk. `Parse`, used only
  by the property, is the value of a decimal text.
* **NamespaceCleaner.** `lines` is the invalid namespaces file, a list of
  names. `NamespaceOf` is the cut of lines 51-52. `SkipNamespace` and
  `CleanNamespace` are one iteration of the `while True` loop, for a
  namespace already in `deleted_namespaces` or a new one; `CleanNamespace`
  includes `delete_namespace`, whose request answers 200 (the replica deletes
  the namespace and every name under it: `removed`, `Covers`), another status
  (only logged), or raises (uncaught: the script ends, `cleanPc = "failed"`).
  `CleanDone` is `readline()` returning `''`.
* **InvalidNamespaces.** The cleaner's `lines` is the checker's `written`;
  its steps are enabled once the checker is `done`. The cleaner's
  `--prefix-parts` is the constant `CleanPrefixParts`.
* **DeleteMetrics.** A URL is `<<shard, replica>>`. `BuildUrl` is
  `_build_url` with its prompts answered from `Answers` (`Yes` is the
  `lower()` test); typed lists are never empty, since `_get_int_list` asks
  again until the answer parses, and may repeat or name shards and replicas
  that do not exist. `Confirm` is `_do_delete`. Each task (`TaskStep(k)`)
  takes two steps: `SendRequest` (the replica handles the request, which is
  answered, refused, broken after or before the delete, or never answered)
  and `WriteRecord` (the `f.write` of the normal or the except path).
  `Complete` is `gather` returning. `metric` is the replicas' state.

## 3. Runs

| Run | Config | Expect | Checks |
|---|---|---|---|
| `lag_stream` | `MCLagDetector.cfg` | pass | `TypeOK`, `StreamMatchesReference`, `HeapHoldsTopN`, `ReportRanksLargestFirst`, `ImplementsLagReport` |
| `lag_tie_order` | `MCLagDetectorTies.cfg` | violation | `RankTiesFirstDetected` |
| `cardinality_merge` | `MCCardinalityPipeline.cfg` | pass | `TypeOK`, `MergedIndexMatchesFile`, `ChunksPartitionFile` |
| `report_views` | `MCCardinalityReport.cfg` | pass | `TypeOK`, `TopPrefixesRanked`, `ViewsAgree` |
| `report_order` | `MCCardinalityReportOrder.cfg` | violation | `ReportOrderAsSpecified` |
| `namespace_cleanup` | `MCInvalidNamespaces.cfg` | pass | `PipelineTypeOK`, `DumpCoversIndex`, `ReportedNamesHaveNoData`, `Terminates` |
| `checker_count` | `MCNamespaceCheckerCount.cfg` | violation | `ReportsPerPrefixWithinCheckCount` |
| `namespace_prefix_cleanup` | `MCInvalidNamespacesPrefix.cfg` | violation | `NoNameWithDataRemoved` |
| `leaf_cleaner` | `MCParentLeafCleaner.cfg` | pass | `TypeOK`, `DeletesOnlyIdsWithoutDataUnlessRaced`, `NoLiveSubtreeDeletedUnlessRecordLost` |
| `leaf_cleaner_records` | `MCParentLeafCleanerRecords.cfg` | violation | `ProcessedMatchesDeleted` |
| `delete_metrics` | `MCDeleteMetrics.cfg` | pass | `TypeOK`, `OneRecordPerUrl` |
| `whisper_load` | `MCWhisperLoader.cfg` | violation | `LoadedAsStored` |

What the runs show:

* **`lag_stream`.** Over every file of up to 6 lines with timestamps 0..3,
  two metric names and topN = 3 (about 340k distinct states), the checks hold:
  * the scalars match the reference (`StreamMatchesReference`), including the
    empty-file `None` case and equal timestamps;
  * the heap keeps exactly the three largest lags (`HeapHoldsTopN`), with
    events pushed, replaced and refused;
  * the detector implements `LagReportSpec` (`ImplementsLagReport`): at
    every step the list holds exactly the events of the abstract TopKHeap.
    This is stronger than `HeapHoldsTopN` where lags tie: of two events of
    the minimum lag, the one detected first must be evicted. A heap that
    compares lags alone passes every invariant above but fails this one;
  * the first reported lag is the file's maximum and the list is descending
    (`ReportRanksLargestFirst`).
* **`lag_tie_order`** finds this. TLC's trace: timestamps `2, 0, 0, 1` with
  topN = 3 push `(2,1)`, `(2,2)`, `(1,3)`; the third push moves `(1,3)` to
  the root, so the list is `[(1,3), (2,2), (2,1)]` and the stable sort
  reports the lag-2 event detected second before the one detected first.
  The same happens with the script itself: timestamps `3, 0, 0, 1` give
  `heappush` of `(3,1)`, `(3,2)`, `(2,3)`. The third push swaps `(2,3)` with
  `(3,1)`, so the list is `[(2,3), (3,2), (3,1)]`. The report then lists the
  second-detected lag-3 event first. Running the script on that file prints
  `1) 3s c  2) 3s b`. The spec asks for first-detected first.
* **`cardinality_merge`.** Every file of up to 6 bytes over
  `{a, ., space, \n}`, with 1..3 processes, is partitioned at line boundaries
  (`ChunksPartitionFile`: this covers a zero `chunk_size`, files without a
  final newline, and lines longer than a chunk), and with every completion
  order and failure merges to `ProcessChunk(file)`: the index a single pass
  over the whole file would build.
* **`report_views`.** For every file of up to 3 names of up to 3 segments over
  `{a, b}` and two runs with any iteration orders (about 880k distinct
  states): the top-prefix view is sorted and keeps the largest prefixes when
  it truncates; the views agree with one another (a depth-d prefix has at most
  as many children as position d has values, the drill-down covers exactly the
  flagged positions, and each block accounts for its position's count).
* **`report_order`** checks that the top prefixes and the family totals are
  the first rows by count with lexicographic ties (spec section 4.4), which
  also makes two runs print the same (section 8). It finds the file `a`, `b`
  with one family shown: the run that iterates `a` second prints `b`.
  The same property fails on the file `b.a`, `a.a`, whose two prefixes have
  one child each and are listed `b` first, because line 142 sorts on the
  count only and the dict keeps first-seen order. The drill-down sort (line
  221) depends on the set order in the same way; the spec gives it no tie
  rule.
* **`namespace_cleanup`.** The checker in `--common-prefix a.` mode, with 3
  ids, two stores, a page of 2 keys and every `ldb` command allowed to fail,
  then the cleaner with the default `--prefix-parts 0` and every HTTP outcome
  (about 1.9M states). Each run starts with an earlier
  `invalid_namespaces` holding `b.a` (which the run itself never writes, as
  it is outside `a.`), with and without `--no-dump`:
  * unless a dump scan or its `tail` failed, the dump covers every id and the
    tool terminates (under weak fairness: one process that keeps running);
  * a written name has no data point unless one of its checks failed, or
    it is an earlier run's line that `--no-dump` kept
    (`ReportedNamesHaveNoData`). Both exceptions are real: three failed
    tries read as "no data", and a `--no-dump` run keeps lines checked by an
    earlier run, before any data that came since; the cleaner deletes what
    is in the file. Without `--no-dump` it holds only because
    `cleanup_files` removes `invalid_namespaces` (which `check_invalid_ids`
    opens in mode `'a'`).
  The run takes the cleaner through every HTTP outcome (200, error status,
  exception, a request that never returns) but states nothing about it of
  its own: with the default `--prefix-parts 0` it deletes exactly the names
  of the file, which `ReportedNamesHaveNoData` already covers, and a
  request with no timeout (line 63) keeps it from any termination claim.
* **`checker_count`** finds ids `a.a`, `b.a`, `a.b` with `--check-count 2`:
  the dump files are `[1, 2]`, `[2, 3]`, `[3]` because `--from` is inclusive,
  so `a.b` is checked and written twice and `a` gets three names. The shared
  `invalid_id_count` adds to the effect.
* **`namespace_prefix_cleanup`** finds: names `a.a.a` (no data) and `a.a.b`
  (data), checker in `--common-prefix a.` mode, cleaner with the matching
  `--prefix-parts 2`, `--check-count 2`, pages of 2 keys. TLC's trace: the
  dump files are `[root, a.a.a]`, `[a.a.a, a.a.b]`, `[a.a.b]` (`--from` is
  inclusive), so `a.a.a` is checked and written twice; the count reaches 2,
  `a.a` is marked checked and `a.a.b` is never looked at. The cleaner cuts
  `a.a.a` to `a.a` and deletes the namespace, with `a.a.b`'s data. One
  name without data, counted twice, condemns its whole prefix.
* **`leaf_cleaner`.** Three real runs, two leaves, up to three error lines,
  with `ldb` failures, non-200 answers, crashes and points arriving at any
  time (about 1.4M states):
  * a leaf is deleted only if it has no data (a failed check reads as
    "there"), unless a point reached a store after that store was checked;
  * a name that has become a parent is deleted again only if a crash lost its
    processed line (`lost` is a history variable): the skip of line 150 is
    what protects it.
* **`leaf_cleaner_records`** checks that between runs the processed file
  lists exactly the leaves deleted while they had no data: it is what keeps
  later runs from deleting a name again and from skipping a leaf still
  there. Three bugs of the code break it, each alone (which one TLC
  reports first depends on the order its workers search in):
  * a crash: run 1 deletes `l1` and dies before closing its
    files, so the line is lost; the next run, seeing the old error line and
    no data under the old id, deletes the name again once CarbonJ has made
    it a parent (the `leaf_cleaner` run shows that only this path does);
  * a `--dry-run` run gets 200 for its `delete=false` request and records
    the id, so later real runs skip the leaf for good;
  * a point reaching `30m2y` after `l1` was checked there: `l1` is deleted
    with its data and recorded.
* **`delete_metrics`.** Every answer to the prompts (`yes`, `Y`, `No`), all
  shards or typed lists of up to two numbers including a shard (3) and a
  replica (2) that do not exist, and every request outcome, in any task
  order (about 36k states):
  * once `gather` returns, the results file has exactly one record per URL
    (`OneRecordPerUrl`), through the normal or the except path. A request
    with `timeout=None` that is never answered leaves the run waiting for
    good; the model reaches that state, and no completion claim is made.
* **`whisper_load`** checks that a load into `5m7d` whose posts are all
  accepted leaves every file's points in its metric with the timestamps and
  values the file stores. TLC's trace: the first file walked keeps 5m points
  for 30 days, so no archive fits; the message of line 175 raises TypeError
  (one argument for three `%s`), and the second file is never loaded. The
  same property fails for the value text: `2.5e-10` is written `2.5e-1`
  (the strip of line 112 takes the exponent's zero), and `1234567890123`
  is written with 12 digits.

### Mutants

Each property of a passing run has a mutant: a plausible bug in the mapped
code that TLC must catch under the run's own configuration.

| Property | Mutated definition | Mutant |
|---|---|---|
| `TypeOK` (lag) | `NewEvent` | lag computed the wrong way round |
| `StreamMatchesReference` | `OutOfOrder` | `<=` instead of `<` |
| `HeapHoldsTopN` | `OfferLag` | eviction test against the last list element instead of `top_heap[0]` |
| `ImplementsLagReport` | `TupleLT` | tuples compared on lag alone |
| `ReportRanksLargestFirst` | `RankedEvents` | sort without `reverse=True` |
| `ChunksPartitionFile` | `LineEndAfter` | the boundary at the newline itself |
| `TypeOK` (pipeline) | `MetricOf` | the separator kept in the name |
| `MergedIndexMatchesFile` | `MergeInto` | `dict.update` that replaces a prefix's children |
| `TypeOK` (report) | `Sample` | a sample of 6 instead of 5 |
| `TopPrefixesRanked` | `TopPrefixes` | `[:50]` taken before sorting |
| `ViewsAgree` | `HighCardPositions` | `>=` instead of `>` on line 211 |
| `PipelineTypeOK` | `CountAfterInvalid` | `invalid_id_count` never reset |
| `DumpCoversIndex` | `LastKey` | `head -1` instead of `tail -1` |
| `Terminates` | `ScanPage` | the scan starts after `last_key` |
| `ReportedNamesHaveNoData` | `CheckDbsFrom` | no `break`: the last store's answer wins |
| `ReportedNamesHaveNoData` | `CleanupFiles` | `invalid_namespaces` left out of the files removed |
| `TypeOK` (leaf cleaner) | `ToProcess` | the whole error line queued instead of its id |
| `DeletesOnlyIdsWithoutDataUnlessRaced` | `CheckIdInDb` | a failed `ldb` reads as "not there" |
| `NoLiveSubtreeDeletedUnlessRecordLost` | `ToProcess` | the processed file not consulted |
| `TypeOK` (deletion) | `ListedUrls` | shard and replica swapped in `_format_url` |
| `OneRecordPerUrl` | `Record` | the except branch writes nothing |

The mutant that moves a boundary onto the newline breaks `ChunksPartitionFile`
but not `MergedIndexMatchesFile`. That is because an empty first line is
skipped. Both properties are therefore needed.

### Bounds

The bounds are chosen so that the interesting cases happen:

* **Lag runs.** 6 lines and timestamps 0..3 are enough for:
  * repeated out-of-order events;
  * equal timestamps;
  * a heap of 3 to fill, to replace its minimum, and to refuse a smaller
    lag (the first line sets the high-water mark, so up to five events);
  * a heap with a right child, which `_siftup` compares with the left one
    (a heap of 2 never has one).

  The tie violation needs only three events.
* **Pipeline.** 6 bytes with up to 3 chunks make `chunk_size` 0, 1 and 2
  occur, as do targets on, before and after newlines. They also give two kept lines with nested prefixes (`a.a `),
  lines without a space, blank lines and leading spaces.
* **Reporter.** The limits 50, 15, 500, 20 and 5 become 2, 1, 1, 1 and 1, and
  the depths 3..6 become 1..2, so that with 3 names truncation, ties at every
  cut, flagged and unflagged positions and "+N more" all occur. Two runs are
  enough to compare the output of two hash seeds.
* **Checker and cleaner.** Two stores instead of three still let the loop
  of lines 151-155 stop at a first store or go on to the next, which is all
  the checks tell apart. 3 ids with a page of 2 make the dump take three scans and
  repeat a boundary key; 3 files leave room for a restart after a failed
  scan;
  names of two segments under `a` and `b` with `--check-count 2` reach the
  counter's reset.
  One earlier line, `b.a`, is enough for the file an earlier run left: it is
  outside the checked prefix `a.`, so only the kept file can put it there,
  and the choice of data makes it both a name with data and one without.
* **Prefix clean-up.** Names of three segments are the least that lets the
  checker's prefix (two segments) hold two names.
* **Deletion.** Two shards with two replicas give four URLs with all shards;
  typed lists of two give up to four, with duplicates and unknown targets.
* **Leaf cleaner.** Two leaves and three runs are enough for a run to delete,
  CarbonJ to create the child, and a later run to come back to the leaf; three
  error lines let one leaf be logged again after a run. Points may arrive
  between any two checks of a run.
* **Loader.** Two files are the least for one file's failure to cost
  another's load. The floats cover the positional form with and without a
  fraction, zero, a negative number, the exponent form with an exponent
  ending in 0, and a value of 13 digits; the archives cover a schema that
  fits `5m7d` and one that keeps 5m points too long.

### Fairness

Every model here is a run-to-completion batch program. The runs check safety
only, and `CHECK_DEADLOCK FALSE` stands for the program's normal exit.
Termination of these loops is bounded by construction, so no liveness property
is claimed for them. The namespace checker's dump loop is not bounded by
construction (it stops when a page repeats its start key), so `Terminates` is
checked under weak fairness of its single process, which keeps stepping while
it runs; `ldb` failures are not given fairness. In `InvalidNamespaces` the
same weak fairness covers the cleaner's steps, a single process too; no
property of the cleaner needs it.

`DeleteMetrics` has weak fairness on each task's steps and on `Complete`: the
asyncio event loop runs every task that is ready, and `gather` returns once
all are done. The operator's prompts (`BuildUrl`, `Confirm`) get no
fairness. No liveness property is checked: a stalled request is a state with
no step, which fairness does not remove, so completion would hold only with
that case excluded.

## 4. Plan

The order follows importance, and the most algorithmic parts come first.

1. *(done)* Lag detector: stream, heap and report.
2. *(done)* Chunk planner, worker and fork-join merge.
3. *(done)* CardinalityReport: the four views, two runs with independent
   hash orders. Left: a composition reading `merged_prefixes` from the
   pipeline's chunk results in place of `PrefixOrder`.
4. *(done)* NamespaceChecker: the paged dump with failing scans,
   `check_id_in_db` with its retries, `check_invalid_ids` with the skip lists
   and the shared counter, `cleanup_files` and `--no-dump` on the files an
   earlier run left. Left: liveness of the dump loop when scans fail (it can
   restart from the first key).
5. *(done)* ParentLeafCleaner; NamespaceCleaner composed with the checker.
6. *(done)* DeleteMetrics: fan-out, concurrent deletes, hanging requests.
7. *(done)* An abstract `LagReportSpec`, the TopKHeap as a set, with
   LagDetector shown to implement it by refinement mapping.
8. *(done)* ParentLeafCleaner: the data check of line 108 split per store
   and from the delete.
9. *(done)* WhisperLoader. Left: the post that raises (line 182) in a run of
   its own, which needs the semantics of the dbloader endpoint for a file
   posted twice.

## 5. Not modelled

* The CLI front ends and the printing formats, which are I/O only.
* In `cj-load.py`: the struct decoding of the binary file (the model starts
  from the archives and slots it yields); `select()` and `extract_meta()`,
  which are never called (`select` uses an undefined `root_dir`); the
  argument checks and printing.
* In `check-invalid-namespaces.py`: the hex decoding of names
  (`get_key_value`, `bytes.fromhex`); a line is its key and name. Files are
  read in numeric order: `sorted(glob(...))` (line 123) puts `scan.10`
  before `scan.2`, which only differs from ten files on, beyond the bound of
  three; the order only changes which names `--check-count` samples. A
  failing `os.remove` in `cleanup_files` (only logged) is taken to succeed.
* UTF-8 decoding with `errors='replace'`. The model's bytes are ASCII, so
  decoding is the identity on them.
* The leading-space case of `process_chunk` (line 74): a line starting with
  a space records the empty name, where the spec takes the first
  whitespace-delimited field. An earlier run showed it; audit dump lines
  start with the metric name, so it is recorded here and not checked.
* The local-URL branches of `deletemetrics.py` (`is_prd` is a constant
  `True`), its printing, and exclusions, which only narrow what a replica
  deletes.
* In `deletemetrics.py`, an error record does not say whether the replica
  deleted the metric (the connection can break after the delete). The model
  reaches that state, but no statement of the code or the spec is broken by
  it.
* The namespace pipeline's stores keep their data fixed while the tools
  run.
* The tool download of the parent-leaf cleaner (`check_ldb_tool`,
  `check_aws_client`) and its hostname parsing: I/O with no effect on the
  index.
* Empty segments (`a..b`) and names with characters other than `.`: the
  reporter model's names are non-empty segment lists.
