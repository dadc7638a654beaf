# A TLA+ verification of the Circuit ORAM crate

This directory holds TLA+ models of the ORAM prototype in `src/`, TLC
configurations that check them on small instances, and TLAPS proofs of the
results that matter most for every instance. `PROJECT.json` lists the
components, runs, hazards, findings and theorems, and maps each definition to
the source lines it stands for.

Definitions keep the names of the code where TLA+ allows it. A definition whose
name contains an underscore and a capitalised suffix (`TakeTarget_KeepsTreeCopy`)
is a *mutant*: the form the definition would take with a plausible bug. It is
used by nothing; substituting it for the original must break the property that
`PROJECT.json` names.

## 1. Inventory

The crate stores an array of fixed-size blocks in untrusted page storage so that
the pages touched do not depend on the block asked for. A single-threaded
controller owns everything: there are no threads, callbacks or messages. What is
hard is long histories (labels, displacement and counters interact over many
calls), calls that fail half way, state that lives partly in memory, partly in
pages and partly in state files, and what a stopped process or a loss of power
leaves of them.

| Component | State | Operations | Hard behaviour | What makes it correct |
|---|---|---|---|---|
| Circuit ORAM controller (`circuit.rs`) | position map, stash, RNG, schedule; metadata and payload pages of a bucket tree | trusted build, `access`/`read`, `dummy_access`, `access_batch`/`read_batch`, `drain_evictions`, `snapshot`/`from_state`, `flush` | full stash; repeated ids in a batch; evictions that return blocks to the stash; an error half way through a batch | one copy of every block, on the path to its label; reads return the last write; evictions always fit |
| Eviction schedule (`circuit.rs`) | two `u64` counters, public rate | `record_access`, `pending_evictions`, `complete_one_eviction`, `drain_evictions`, `eviction_leaf_at` | counters and their product at the end of the range; debt someone else must pay | never ahead of the accesses, never wraps, visits subtrees evenly, debt is eventually paid |
| Tree geometry (`params.rs`) | constants | `height`, `node_index`, `node_contains_leaf`, builder checks | a builder order that skips the stash check | the path of a leaf has one bucket per level |
| Blocks and pages (`block.rs`) | slots with occupied flag, id, label, payload | `dummy`, `encode`/`decode` | residue in vacated slots | a vacated slot is a scrubbed dummy |
| Page stores (`store.rs`) | pages in memory, in a file, or a write-back cached prefix | read, write, read/write many, `flush` | a failed write leaves a prefix; dirty cached pages | reads return the last write |
| AEAD store (`aead.rs`) | key | seals and opens pages | - | a page opens only under its own index |
| Merkle stores (`merkle.rs`) | trusted top hashes, hash pages | verify on read, update on write | page and hashes are two writes | an accepted page is the last one written |
| Embedded-tree store (`embedded_tree.rs`) | root hash, verified batch cache | `read_paths`, `write_paths` | overlapping paths in a batch; root moved before the write; cache reuse | as above, for whole paths |
| State files (`state.rs`) | checkpoint of the controller, auth roots | save (temp file, rename), load | checkpoint older than the pages; no sync before rename | reopening continues the same array or refuses |
| Direct tables (`direct.rs`) | cuckoo placement of index records, chunk records | build, `lookup`, `lookup_many_batched`, `read_chunks`, dummies | kick limit; candidate bins with few bins | every record is found where lookups search |
| Cuckoo readers (`cuckoo.rs`) | packed blocks | `read_block`, `read_bin` | last partial block | a bin is read back from its packed block |
| Simulators (`stress.rs`, `ring_stress.rs`) | block placement without payloads, counters | access, evict, reshuffle, statistics | an eviction loop of their own; three ways to pay debt; counters of many accesses | no block is lost, paths are packed, runs end, dummies never run out |
| Constant-time helpers (`ct.rs`) | - | conditional moves and comparisons | timing | each computes what it is named for |
| `oramctl` (`bin/oramctl.rs`) | files of an image directory | plan, build, bench, verify | order of build, auth, flush, saves; other flags at the next open | images can be reopened, and answer from one version |

Interaction: a reader of `direct.rs` or `cuckoo.rs` turns a lookup into accesses
of the controller and drains after each of them (or after each batch); the
controller reads and writes whole paths through two `PathPageStore`s, one for
metadata and one for payloads; stores wrap each other (front cache, AEAD,
Merkle, file); `snapshot` and `from_state` bind the controller to the auth
roots of its stores.

The hazards, each at the line where it bites, with the properties that would
catch it, are in `PROJECT.json` under `hazards`.

## 2. Modules

| Module | Models |
|---|---|
| `PowersOfTwo` | shifts, for tree geometry and hash trees |
| `OramParams` | `params.rs`: tree geometry, the accepted parameters as assumptions |
| `CircuitSchedule` | the order of eviction leaves and the debt |
| `EvictionSchedule` | the schedule as a component with counters of limited range |
| `Calls` | what a call of the controller asks for and answers: updates, `Ok`, `Err` |
| `CircuitOram` | the controller: build, `access`, refused calls, `dummy_access`, `drain_evictions` |
| `CircuitOramBatch` | `CircuitOram` plus `access_batch` and `dummy_access_batch` |
| `ObliviousArray`, `ObliviousBatchArray` | the abstract specification: a plain array, without and with batches |
| `MCCircuitOram`, `MCCircuitOramBatch`, `MCCircuitOramFaults`, `MCTieredMerkle` | symmetry sets and views for TLC |
| `CircuitOramFaults` | `CircuitOramBatch` over two embedded-tree stores whose writes fail |
| `DurablePages` | the abstract specification of a page store |
| `PageStores` | `store.rs`, `aead.rs`: file, sealed pages, front cache as `oramctl` stacks them |
| `MCPageStores` | two stacks of `PageStores` for TLC |
| `EmbeddedTree` | `embedded_tree.rs` |
| `TieredMerkle` | `merkle.rs`, both stores |
| `AuthenticatedStores` | both, side by side, for TLC |
| `ImageSessions` | an image directory: builds and sessions of `oramctl.rs`, checkpoints of `circuit.rs`, files of `state.rs` |
| `MCImageSessions` | deployments of it for TLC |
| `PackedTable` | packing items into blocks and locating them; the debt lookups leave |
| `DirectIndex` | `direct.rs`: cuckoo placement, index image, index reader |
| `PackedItems` | `direct.rs` chunk table and `cuckoo.rs` bins, from file to reader |
| `Tables` | index and item tables, side by side, for TLC |
| `StressSim` | the tree of both stress simulators |
| `StressLoop` | options, state and next block that the loops of both simulators share |
| `CircuitStress`, `RingStress` | the loops of `stress.rs` and `ring_stress.rs` |
| `StressRuns` | both, side by side, for TLC |
| `InductionLemmas` | least-element and induction facts over naturals |
| `TreeLemmas`, `CircuitOramProofs`, `EvictionProofs`, `PageStoresProofs`, `AuthenticatedStoresProofs`, `ImageSessionsProofs`, `TablesProofs` | proofs, see section 5 |

The modules that put components *side by side* (`AuthenticatedStores`,
`Tables`, `StressRuns`) have a variable that
says which of them a behaviour is about, chosen
in the initial state; a step is a step of that one, and the variables of the
others keep a fixed value. Each property of such a module names the component's
property it lifts. The components share no state there: one run answers
one question for all of them. `ImageSessions` has such a variable of its own, the
`deployment`: how the tool is used on this directory; so has `PageStores`, the
`stack`: the size of the image, what of it is cached, whether it is encrypted and
which pages and paths its callers ask for.

### The controller

The tree is two functions from nodes to buckets (`meta`, `payload`), the stash a
function from its fixed slots to blocks. The three together are a *working set*;
the helpers map working sets to working sets, as the helpers of the code mutate
path pages and stash in place, and an action is one whole public call.

* `access(id, update)`: look the label up, take the first copy on the path to
  the first free stash slot (`TakeTarget`), refuse when none is free, scan the
  stash (the last match wins), apply the update and the new label to every
  match (`Relabel`), then commit label and counter. The new leaf is any leaf:
  the generator is abstracted to a free choice. `read` is `access` with `Keep`.
* `drain_evictions(budget)`: evict the next paths of the schedule, at most the
  debt. `Takes` selects, per bucket from the deepest up, the first candidates
  in scan order whose label passes through it; `EvictPath` writes the buckets
  and puts displaced blocks into vacated stash slots in scan order;
  `EvictOverflows` is the refusal of `ensure_eviction_stash_capacity`. A failing
  path drops the page overlays and keeps the stash, as the code does.
* `Init` is the trusted build: any labels and contents, each block in id order
  in the deepest bucket of its path with room, else in the stash; a build that
  overflows the stash is no initial state.
* `access_batch(ids, updates)`: all paths are read first, the accesses are
  applied to overlays and stash in order, a repeated id is looked for on the
  path its previous occurrence drew (`batch_access_leaf`), and labels and pages
  are committed at the end. On an error, stash and counter keep what was done.

`-1` stands for the reserved id and label of dummies (largest `u64`, `u32`).
Constant-time moves are the operators they compute. Page encoding is left out;
failing page writes are the subject of `CircuitOramFaults`, the range of the
counters that of `EvictionSchedule`.

### The controller over failing stores

`CircuitOramFaults` adds to each operation its variants in which the metadata
write or the payload write fails. It builds on what `EmbeddedTree` shows about
the stores: the root moves before the pages, so after a failed write the store
vouches for the *new* contents and refuses the pages that were not written.
`meta` and `payload` are therefore what the roots vouch for, `bad` the pages that
do not match it, and an operation whose paths touch a bad page is refused. `mem`
is a history variable: the values a caller may find in each block given the
answers it had. A write that names a page twice, or fails after any prefix, is
covered by choosing any set of unwritten pages closed under the write order.

### Page stores

`PageStores` is the stack `open_sized_file_store` builds. `file` is what the
operating system shows, `unsynced` what each raw page may be after a loss of
power, `cached` and `dirty` the front cache. A raw page is sealed with its index
(`AeadPageStore`) or plain. Page calls, bulk calls and path calls are actions;
bulk calls of the file are cut into runs as in `read_pages`/`write_pages`, and a
failing call may stop after any prefix of what it writes. The refinement is the
action property `PromisedStep`: every step is a step of `DurablePages`, in which
`mem` is the array a caller sees and `survivors` what each page may hold after the
process or power is lost. Only builds are exempt until they finish: `new_zeroed`
is documented for callers that write every page first, and in the model every
build does. A flush that succeeds after one that failed is taken to make all
earlier writes durable, as the `sync_all` it ends with is meant to.

### Authenticated stores

In `EmbeddedTree` and `TieredMerkle` a hash is the tuple of what it is computed
from, so different inputs have different hashes. `committed` (and `allowed`) are
history variables: the contents the writes so far asked for. Faults of the store
below are pages that fall back to an older version or show another page; writes
stop after any page. `EmbeddedTree` has `read_paths`, `write_paths` (one path
after the other in a shared overlay), the verified batch cache, saving and reopening.
`TieredMerkle` has page reads and writes with hashes split between trusted memory
and hash pages (packed `HashesPerPage` to a page), and reopening from an older
trusted state. A failed write may leave the page, or the hash it stopped at, neither
old nor new (`Torn`, `TornHash`). The number of levels in memory, `trusted_levels`,
is chosen at the start; with every level trusted the store is `MerklePageStore`.
Hash pages are plain. Over a sealed hash store a torn hash page could not be read
again by `write_disk_hash` (`src/src/merkle.rs:461`): rewriting a page below it
keeps failing, the page stays pending, and `Heals` says nothing about it.

### Image directories

`ImageSessions` abstracts pages to versions: a batch of accesses makes a new one.
An image of several versions is `Mixed`. Each file has what is seen now and what
may remain after a loss of power. A build and a session are sequences of actions
in the order of the commands (open the stores, check the roots, run, flush, save
the state, save the sidecar), each of which may be the last. A build opens its
stores before its source: one that ends there (`build_refused`) has changed the
length of the images and no page. Flags of a session
(`--auth-store`, `--no-save`, the command) are free choices. What is the same for
all of them is the `deployment`: direct tables or not, the layouts builds choose
from, encrypted state files, a write-back cache, a build of the older format whose
states bind no roots, whether `--auth-store` may be forgotten and whether power may
be lost, and the bounds `maxVersion` and `maxBuilds`. `Deployments` is any set of
these, so that the theorems cover every combination and the run three that differ
in what interacts.

### Tables

`DirectIndex` builds the cuckoo table record by record and kick by kick. Hash
values are free: `draw` gives a script hash any next bin, and the loop skips bins
already drawn. The image packs bins into blocks; lookups read all candidate bins
through an ORAM that answers with the stored block or refuses because its stash
is full, and drain as the code does. Each reply records what the storage could
see of the call, the paths read and drained. `PackedItems` is the same for tables
addressed by number, with the file measured by one open and mapped by another.

### Simulators

`StressSim` has the tree, position map and stash (a sequence, because
`position` and `swap_remove` make its order matter) and the helpers of both
simulators, which are copies of each other in the code. `CircuitStress` steps
through the loop of `stress_circuit` one evicted path at a time, for every
accepted configuration of a family; `RingStress` through that of `stress_ring` one
bucket of the reshuffle scan at a time. Random leaves and ids are free choices.

### The abstract specification

`ObliviousArray` has one variable for the contents and the last request and
reply. `Access` returns the old value and stores the updated one, `Maintain`
changes nothing, `Refuse` answers `InvalidInput` or `StashOverflow` and changes
no contents; there is no "block not found". The refinement mapping is `Contents`:
the payload of the copy of each block, wherever it rests.

## 3. Runs

| Run | Instance | Checks |
|---|---|---|
| `schedule` | 8 leaves, 3 evictions per access, counters up to 40, up to 50 calls | `ScheduleTypeOK`, `NeverAheadOfSchedule`, `VisitsBalanced`, `CountersNeverWrap`, `ScheduledEvictionsComplete` |
| `circuit` | 2 leaves, bucket 2, stash 2, 3 blocks, 2 payloads, 3 accesses | `TypeOK`, `OneCopy`, `OnLabelledPath`, `EvictionFits`, `DummiesScrubbed`, `StashGrowsByAccessOnly`, `ImplementsArray` |
| `faults` | 2 leaves, bucket 1, stash 2, 2 blocks, 2 accesses, batches of up to 2, 2 failed writes | `ReachableUnlessRefused`, `SuccessfulBatchIsSequential`, `ImplementsBatchArray`, `FailsClosed` |
| `stores` | 2 sealed pages, 1 of them cached; 3 plain pages without cache | `StackTypeOK`, `CleanPagesMatchFile`, `KeepsPromises` |
| `auth_stores` | hash tree over 3 pages, 1 level trusted and 1 lost page, or all 3 levels and 2 lost pages; embedded tree of 5 pages on 3 levels | `NoStalePage`, `Heals`, `RootCovers`, `CacheIsCommitted`, `ReadsExactly` |
| `sessions` | plain and sidecar images with forgotten flags; direct tables built over; sidecar and embedded images with loss of power | `ReadsMatchState`, `ReadsMatchTable`, `SavedImagesReopen` |
| `tables` | index of 5 records, 3 bins of 2 slots, 3 kicks; up to 5 items, 1 to 3 per block | `LookupsCostTheSame`, `RecordsInCandidateBins`, `IndexAnswersTheFile`, `ItemsAnswerTheFile`, `IndexBuildEnds` |
| `stress` | 4 leaves, bucket 1, 3 blocks, 3 accesses, all accepted settings of a family | `NoBlockIsLost`, `DebtStaysPaid`, `DummiesLast`, `EvictionsPack`, `RunsEnd` |
| `batch_overflow` | 2 leaves, bucket 1, stash 2, 3 blocks, batches of up to 2 | `BatchIsSequential`, **violated** |
| `faults_drain` | `faults`, where metadata writes of drains fail too | `FailsClosed`, **violated** |
| `merkle_stale` | hash tree over 3 pages, root trusted, 2 lost pages | `NoStalePages`, **violated** |
| `sessions_refused` | embedded image, `--auth-store` forgotten | `RefusedOpenKeepsImage`, **violated** |

*What they show.* `schedule`: the bit-reversal order visits two subtrees of the
same depth equally often up to one path, at every point and not only after full
rounds; 13 accesses schedule 39 paths, more than four rounds of the 8 leaves. From
the 14th on the product issued x rate leaves the range and drains are refused,
and at 40 accesses the counter itself is full, so both refusals happen.

`circuit`: the instance has more blocks than stash slots, so that accesses are
refused, buckets that take two candidates of one scan, and payloads that can be
told apart. Three accesses suffice to move a block from the tree to the stash,
back by an eviction under its new label and out again. The proofs of section 5
remove these bounds for all seven properties.

`faults` shows that batches behave as their accesses made one by one, and that
over embedded-tree stores an access that is answered is answered correctly, and
no block becomes unreachable on a path that still verifies, after two failed
writes of accesses, batches and the payload writes of drains; two failures
suffice to have each store ahead of the other. `ImplementsBatchArray` is the
refinement up to the first fault. All four are proved without the bounds.

`stores` differs between its two stacks in what interacts: the cache with sealed
pages and flushes, and the sorted runs of the plain file with repeated and
out-of-range pages. `auth_stores`: one page that falls back is never accepted by a
hash tree (two are not if every level is in memory), rewriting the affected pages
heals it after any failed writes, and an embedded tree reads a path exactly when
every page on it is the one its root vouches for. `sessions`: an image that
verifies belongs to the controller that reads it, whatever stopped before, and
directories whose commands ended well reopen. `tables` compares what readers answer
with the file, and follows chains of kicks in a table that is nearly full (5
records, 6 slots), where chains succeed, run in circles and give up.
`LookupsCostTheSame` compares the reply of every call that completes with what that
many lookups, real or not, may be seen to cost, also from the debt that refused
calls left. `stress` has
as many blocks as a path has buckets, so that paths fill and blocks stay in the
stash. The instances with bucket 1 respect the bound
stash >= bucket x height of `with_stash_capacity`. The one of `circuit` is built as
the builder also allows, with the stash set before the bucket size (the hazard at
`params.rs:69`), so that the stash fills after two accesses.

*Bounds.* `MaxAccesses` limits the accesses of a behaviour, `MaxBudget` the
budget of one drain, `MaxBatch` the length of a batch, `CounterMax` stands for
the largest `u64`. `MaxWrites` (`FewWrites`), `MaxFaults` (`FewFaults`),
`maxVersion` and `maxBuilds` limit the writes, faults,
page versions and builds of a behaviour, the names in brackets those of the
further components of a run; `MaxDebt` the debt readers leave, `MaxItems` the size
of a table file, `TotalOps` the accesses of a stress run. Where no
action reads the last `reply`, it is left out of the view: properties over it are
action properties, evaluated on every step before states are merged. Payload
values are interchangeable, so runs over two of them use them as a symmetry set,
as do page contents; the runs with liveness properties do not.

*Deadlock* is checked except in `tables`, where a build that gave up ends and the
bound on the debt stops the reader, and in `stress`, where a run that is over
ends. Elsewhere refused calls and drains are always possible.

*Fairness.* `FairScheduleSpec` assumes weak fairness of a drain with a
budget of at least one path. The controller never drains by itself; the loops of
`oramctl` and the lookups of the readers drain after every access or batch with
the budget their caller configures, and a configuration that drains nothing is
outside the assumption. `ScheduledEvictionsComplete` says that every eviction the
first k accesses scheduled is then completed, while more accesses add debt. It is
stated for debts that fit the counter: past that point no drain succeeds.
`BuildFairness` of `Tables` assumes that the build goes on (it is one sequential
function) and that the values of the hash over successive nonces reach every bin,
as a fairness of each draw; that is an assumption about splitmix64. With it,
`IndexBuildEnds` shows that the draws of every record and every chain of kicks come
to an end, and says itself that this takes as many bins as hash functions, which the
code does not check (see the end of section 4).
`RunsSpec` assumes only
that the loops of `stress_circuit` and `stress_ring` run.

## 4. Findings

* *A failed batch is not a sequence of accesses* (`batch_overflow`).
  `access_batch` promises sequential semantics (`src/src/circuit.rs:785-786`).
  `SuccessfulBatchIsSequential` confirms it for batches that succeed. When a later
  id finds the stash full, the blocks of the earlier ids stay in the stash with
  new labels and payloads, while their pages and labels are not committed. The
  first block then rests in the stash, under the label the batch drew for it, and in
  the tree, under the old one (the two may happen to be equal). The
  abstract batch specification therefore holds for instances whose stash can hold
  every block, as in run `faults`.
* *A drain whose metadata write fails* (`faults_drain`). The review notes call a
  failed write of the embedded-tree store fail-closed
  (`src/docs/REVIEW_NOTES.md:291-294`). For one store it is (`auth_stores`), and for
  accesses and batches over two stores too (`faults`). In a drain the metadata
  write may fail after all pages of some path; that path then verifies in both
  stores, with new metadata and old payloads.
* *Two pages that fall back together* (`merkle_stale`). An update of the tiered
  Merkle store takes the sibling hashes from the hash store as they are
  (`src/src/merkle.rs:491`). When a page and the hash page above it both fell back
  to an older version, a write of another page takes the old hashes into the
  trusted root, and the old page is accepted from then on.
* *A refused open changes the image* (`sessions_refused`). Opening an image sets
  the length of its file (`src/src/store.rs:307`) before the checkpoint refuses
  the combination of flags. Pages beyond the new length are lost; only paths that
  lie before it still verify.

Not a finding, but worth knowing: `save_atomic` renames a file that may not have
reached the disk (`src/src/state.rs:130`). `sessions` shows that with an encrypted
state file a loss of power then costs availability only: authenticated sessions
never answer from pages of another version. A plain state file cut off within the
bound roots is read as the older format without roots, and nothing is claimed of it.
Nor is anything claimed of a directory that is built a second time over an image
whose state binds no roots: if the second build stops between saving the sidecar
and saving the state, the old state is opened with the roots of the new pages
(`build_circuit_table`, `src/src/bin/oramctl.rs:3973-3975`). This is why
`ReadsMatchState` asks for bound roots or for a single build.

An index with fewer bins than hash functions is never built.
`direct_index_candidate_bins` refuses zero hash functions and zero bins, but here its
loop (`src/src/direct.rs:1303`) looks for a further bin for ever: no table, no error,
and no kick is reached. The defaults (two hash functions, four slots, load factor
0.95) get there with up to three records, for which `compute_direct_index_bins`
yields one bin. In `DirectIndex` such a build has no step left once each bin is in
the list; this is the case `IndexBuildEnds` excludes by its condition.

## 5. Proofs

TLAPS checks these for every value of the constants the named assumptions allow:
every tree height, bucket size, stash capacity, number of blocks, rate and payload
set (`OramParams`, `CircuitSchedule`, `CircuitOram`), every width of the counters
(`EvictionSchedule`), every file, number of bins, slots, hash functions and kicks
(`DirectIndex`, `Tables`), every family of options of the simulators, every
number of pages and set of requests of the embedded tree (`AuthenticatedStores`), every
size, number of trusted levels and layout of hash pages of the hash tree
(`TieredMerkle`), every set of deployments (`ImageSessions`), every length of batches and
number of failed writes (`CircuitOramFaults`), and every stack of stores, list of pages
and list of paths (`PageStores`). The bounds of the runs are constants too and so
drop out. The bound stash >= bucket x height is not used.

| Module | Theorem | Says |
|---|---|---|
| `CircuitOramProofs` | `TypeCorrect` | `Spec => []TypeOK` |
| | `NoBlockLostOrDuplicated` | `Spec => []OneCopy` |
| | `BlocksStayOnTheirPath` | `Spec => []OnLabelledPath` |
| | `EvictionNeverOverflows` | `Spec => []EvictionFits` |
| | `EmptiedSlotsAreScrubbed` | `Spec => []DummiesScrubbed` |
| | `OnlyAccessesFillTheStash` | `Spec => StashGrowsByAccessOnly` |
| | `ControllerImplementsArray` | `Spec => ImplementsArray` |
| | `FailedWritesKeepBlocks` | `BatchesFit /\ FaultsSpec => []ReachableUnlessRefused` |
| | `FailedWritesFailClosed` | `BatchesFit /\ ~DrainMetaFaults /\ FaultsSpec => FailsClosed` |
| | `BatchesImplementArray` | `BatchesFit /\ FaultsSpec => ImplementsBatchArray` |
| | `BatchIsItsAccesses` | `FaultsSpec => SuccessfulBatchIsSequential` |
| `EvictionProofs` | `CountersStayInRange` | `ScheduleSpec => []ScheduleTypeOK` |
| | `DrainsFollowTheSchedule` | `ScheduleSpec => []NeverAheadOfSchedule` |
| | `CountersOnlyGrow` | `ScheduleSpec => CountersNeverWrap` |
| | `EvictionsSpreadEvenly` | `ScheduleSpec => []VisitsBalanced` |
| | `StressKeepsEveryBlock` | `RunsSpec => []NoBlockIsLost` |
| | `StressDebtStaysPaid` | `RunsSpec => []DebtStaysPaid` |
| | `RingDummiesLast` | `RunsSpec => []DummiesLast` |
| | `StressEvictionsPack` | `RunsSpec => EvictionsPack` |
| `PageStoresProofs` | `StacksAreWellFormed` | `Spec => []StackTypeOK` |
| | `CleanPagesAreOnFile` | `Spec => []CleanPagesMatchFile` |
| | `StacksAreDurablePages` | `Spec => KeepsPromises` |
| `TablesProofs` | `KicksLoseNoRecord` | `TablesSpec => []RecordsInCandidateBins` |
| | `LookupsFindTheRecord` | `TablesSpec => IndexAnswersTheFile` |
| | `DummiesAreNotToldApart` | `TablesSpec => LookupsCostTheSame` |
| | `ReadsReturnTheMappedItem` | `TablesSpec => ItemsAnswerTheFile` |
| `AuthenticatedStoresProofs` | `NoRollbackIsAccepted` | `StoresSpec => []NoStalePage` |
| | `RewritesHealTheTree` | `StoresSpec => []Heals` |
| | `RootStandsForAllWrites` | `StoresSpec => []RootCovers` |
| | `CachedPagesAreOfTheRoot` | `StoresSpec => []CacheIsCommitted` |
| | `PathsReadExactly` | `StoresSpec => ReadsExactly` |
| `ImageSessionsProofs` | `AuthenticatedReadsMatch` | `Spec => []ReadsMatchState` |
| | `TableMatchesImage` | `Spec => []ReadsMatchTable` |
| | `CleanExitReopens` | `Spec => []SavedImagesReopen` |

### The controller

*The inductive invariant* of the controller is
`BlockInvariant == TypeOK /\ OneCopy /\ OnLabelledPath`. Neither of the last two
is inductive alone: a block off its labelled path would be missed by the access
that should move it, and would break the counting argument that lets evictions
fit; a second copy would keep a stale label after an access relabels the first.

*Why evictions fit.* Let the buckets of a path be filled
deepest first. After the k deepest are filled, at least as many candidates are
selected as blocks rested in those k buckets (`GreedySelectsEnough`): a bucket
either takes `BucketSize` blocks, or takes everything that may rest there, and a
block that rested in a deeper bucket may rest in every bucket above it
(`PathBlockMayRise`, which needs `OnLabelledPath`). At the root: the plan selects
at least as many blocks as rested on the path, so it displaces no more path
blocks than it takes from the stash (`EvictionAlwaysFits`). The same count gives
`OnlyAccessesFillTheStash`.

*Why evictions keep the blocks.* Ranks number any finite set of candidates
(`RankInjective`, `RankOnto`), the plan places every candidate at most once
(`PlacedOnce`), so every occupied candidate lands in exactly one slot
(`LandsSomewhere`, `LandsOnce`) unchanged (`LandsBlock`), and every block found
afterwards came from one (`LandedFrom`). `SameBlocks` states the outcome;
`DrainKeepsBlocks` extends it to drains of any length and shows that the error
branch of the drain is never taken. `AccessKeepsBlocks` does the same for an
access, with `Rewritten` (one block changes, the others stay) in place of
`SameBlocks`. The refinement follows: `SameBlocks` keeps `Contents`, `Rewritten`
changes it at one id. `DummiesScrubbed` is inductive given `BlockInvariant`: what
an eviction or an access puts into a slot is a block that was moved or a dummy.

### Failing writes and batches

*Two hypotheses, each of which a finding shows to be needed.* `BatchesFit ==
StashCapacity >= LogicalBlocks \/ MaxBatch <= 1`: the stash can hold every block, or a
call makes at most one access. Without it a batch can overflow the stash in its middle
and leave a block twice (`batch_overflow`). `~DrainMetaFaults`, for `FailsClosed` only:
no drain fails in its metadata half (`faults_drain`). `BatchIsItsAccesses` needs
neither, because it speaks of batches that succeed.

*The invariant* is `FaultsInv == BatchesFit /\ FaultTypes /\ OneCopy /\ OnLabelledPath`,
of what the two stores *vouch for*; nothing is needed about the pages that are `bad`.
After a failed write the metadata store vouches for the contents of the call, the
payload store for those or for the old ones. `OneCopy` and `OnLabelledPath` are a matter
of metadata and stash alone (`SameMetaSameCopies`, `VouchedBlocks`), so they survive every
failure. For `FailsClosed`, `Known` is added: what the stores vouch for in each block is
one of the values its caller may find there. Old payloads under new metadata are
right as long as the call only took blocks *out of* the tree (`OnlyRemoves`,
`VouchedContents`), which is what accesses and batches do; a drain puts blocks into slots,
and keeps `Known` only if its payload store moved too.

*Batches.* `BatchStateStep` is the induction over the accesses of a batch: after k of
them the overlay and stash hold every block once, on the path to the label the k-th
access finds (`LabelsAt`, the last label drawn for it or the old one), with the
contents the first k updates leave (`After`). `BatchKeepsBlocks` is its end, at which
`access_batch` commits the labels. *Why a batch fits*: the occupied stash slots and the block to be taken hold
different blocks, because each block has one copy, so a stash as large as the number of
blocks has a free slot (`RoomForTarget`).

*The theorem about two accesses* compares states: `TwoAccesses` shows that applying the second access to
the overlay of the first is applying it to the pages the first has written, under the
labels it has committed (`TwoLabels`), also when it is for the same block.

### The schedule

`ScheduleInvariant` is the types and `NeverAheadOfSchedule`; the second is needed
for the first, because a drain counts up to the debt. `VisitsBalanced` follows from
`VisitsCounted`: the visits of a bucket at depth d are the numbers below
`completed_evictions` whose reversed bits lead through it. Reversed bits lead through a bucket
of depth d exactly for one residue modulo 2^d (`ReversalResidue`,
`LeafResidue`), and any two residues occur equally often up to one among the
numbers below n (`ResidueCount`, `EvenVisits`).

### Tables

`BuildInv` says that the table holds exactly the records read so far without the one
in hand, each once and in a candidate bin, and where the chain of kicks stands:
the record in hand is one already read, and the bin it is kicked into is one of its
candidates. `WriteSlot` is the step all insertions and kicks share.
`ReaderInv` adds that the image is the packing of the finished table and that the
last reply is right; `FirstFoundIs` finds a first match in the scan order of the
candidate bins. For the cost of a call: complete lists of candidate bins are read in
full (`ReadsOfFullLists`), draining after each read and once after all of them pays
the same (`RoundsAreABatch`, `PaysOff`), so the reply of each of the three actions is
the one `PublicCost` names (`CostIsPublic`). `ItemsInv` is the corresponding invariant of tables addressed
by number: the image built so far is the packing of the file that was mapped,
whatever was measured before.

### Simulators

`HeldInv` says that every block is held once, under its label, in the tree or in the
sequence that is the stash. The eviction of a simulator takes the whole path into the stash and
fills its buckets from the stash; both loops are proved to keep the blocks
by an invariant over the buckets already handled. `DebtInv` relates debt, budget and stage of the loop,
per way of paying: within the cap, at most the budget left when each access pays for
itself, and growing by at most the unpaid part of an access since the last burst.
`DummyInv`: a bucket whose dummies are used up is still ahead of
the reshuffle scan. `PackedFrom` is the invariant of the loop that refills a path,
from the deepest bucket up.

### Page stores

`StackInv == stack \in Stacks /\ StackTypeOK /\ CleanPagesMatchFile /\ BuiltPagesAreOwed`.
The last part is needed for builds: `new_zeroed` fills the cache with clean zero pages
without a look at the file, so clean pages and file disagree until the build has written
every page. `CleanPagesMatchFile` is about open stacks; what makes it true when the last page
is built is that every cached page written so far is owed to the file.

* *Order.* Bulk calls are sorted and cut into runs. A finite set can be listed in any
  strict order (`SortExists`), a listing is a bijection (`SortIsBijection`), so
  `AscendingIs` and `PageOrderIs` describe the lists the code obtains from its sorts.
  A run is of consecutive pages (`RunIsConsecutive`), and reading runs and joining them
  gives every page asked for at its own position (`ReadPagesFile`, `FlattenIs`,
  `JoinedContents`).
* *Writes* reach the file as a prefix of the order of the runs: all of it, or part of it
  and a torn page. `LandIs`, `LandWrites` say what each page holds then, `WriteAllAt` that a complete
  write leaves the *last* contents given for a page named twice. For each page a
  caller may afterwards see, `PickWritten` names the position of the list its contents
  come from, in the cache or below it; `OpenWrite` is the step of `DurablePages` this makes.
* *Flush.* Dirty pages are written back in order, each forgotten once it is written.
  `FlushFails`: when a flush stops, a page is written and clean, or still dirty over its
  old or a torn raw page; a caller sees the same pages as before, and what may remain
  after a crash grows only by contents that were owed and by torn pages.
* *Crashes* leave each page one of its `unsynced` versions; `CrashStep` shows these
  to be among the promised `survivors`.

### The hash tree

`NoStalePage` is not inductive: a write takes the sibling hashes as they are
stored, so what makes it true later is what the *unread* hashes are. `Hashes(allow)`
gives every node the set of hashes it may hold when page p may hold the contents
`allow[p]`: at a leaf their hashes, above it the combinations of the children's, and
at each node the torn hash. `MerkleInv` relates the stored hashes to `allowed`:

* `SoundHashes`: every stored hash, in memory and on disk, is in
  `Hashes(allowed)`. A page that verifies then hashes to a member of that set at the
  trusted node above it, and equality of hashes carries back down to the leaf
  (`AcceptedIsAllowed`): the page is allowed. A write replaces the hashes above its
  page by members for the new `allowed` (`PathHashesWithin`, `WithinAfterWrite`), a
  torn one included; the others do not depend on that page (`HashesOffPath`).
* `SoundPages`: every page holds allowed contents or is torn; a torn page never
  verifies, because no stored hash is of torn contents (`MerkleTypes`). A lost hash
  page can break `SoundHashes` and leaves `SoundPages`; a lost data page the other way
  round. With one lost page one of the two remains, with hashes only in memory always
  the first. Two lost pages break both, which is the violation of `merkle_stale`.
* `LinkedHashes`, without lost pages: a node with no pending page below it holds the
  hash of its children as stored (of its page, at a leaf). A failed write makes its
  page pending, and with it exactly the nodes on its path; reopening makes all pages
  written since the save pending, the nodes above them being the only ones at which
  memory and disk may disagree. Writing a page again links its path up to a node with
  another pending page below, and with none left `LinkedAccepts` gives `Heals`.

### The embedded tree

`TreeInv` says that the pages of the store have the shape of pages (`StoredInv`), that
the trusted root, and the root of the last save, are the hashes of the trees *built*
from scratch with the contents they stand for (`RootInv`), and that a batch cache
is of the trusted root and holds pages of that tree (`CacheInv`). Nothing is assumed of the pages on
disk beyond their shape: they may be old, misplaced or half-written.

* *Reading* (`PathVerifies`): along a path, from the root down, each hash determines
  the page (`HashInjective`), so a path that verifies is the path of the built tree,
  and the other way round.
* *Writing one path* (`OnePath`): pages that agree with the tree built with some
  contents, rehashed along a path with new ones, agree with the tree built with the
  new contents. Off the path a page keeps its hash because no page below it
  changed (`OthersStay`); on the path by induction from the deepest page up
  (`ChildrenFirst`, `RehashIsBuilt`).
* *Writing a batch* (`LoopRewrites`): after n paths the overlay is the tree with
  the new contents in exactly the pages that are dirty, also when a path is refused
  half way. A later path therefore never restores a hash that an earlier one
  changed. The root moves with the overlay and not with the store, which is why a
  failed write leaves `RootCovers` true and the pages unreadable.

### Image directories

`SessionsInv` has one part per question, each under the condition of the property
it serves.

* `BoundInv`: where states bind roots, what is seen and what survives of the state
  file, and the running session, bind the roots of their own version. It gives
  `ReadsMatchState` in the first case, with any number of builds and losses of power.
* `OnceInv`: in a directory built once, pages are never older than the state and
  roots never newer, in the files and in the session. Pages that verify under roots
  no newer than the state are then exactly of its version: the second case.
* `TableInv`: a description that is not the one of the state's table means that the
  pages are newer than the state, because a build writes pages before the
  description and the state last; such pages do not verify.
* `CleanInv`: a clean directory has state, roots and images of one version, on disk
  as well as in the view, and a session of a clean directory keeps what it needs to
  leave it clean, also between the save of the state and that of the sidecar.

`BoundedInv` (no state of a version to come) and `FlushedInv` (after a flush the
image holds what the session saw) are shared by several of them.

### Technique

*Recursion.* Loops are recursive functions; that such a function satisfies its
equation, and induction over naturals for the particular statements needed, are
proved in `InductionLemmas` and where they are used, by a least counterexample.
Each of the invariants above was checked with TLC on small instances before its
proof.

*Only model-checked.* The three liveness properties, which are outside the prover:
`ScheduledEvictionsComplete`, `IndexBuildEnds`, `RunsEnd`. Every other property of a
passing run is the statement of a theorem above.

## 6. Not modelled, and the plan

Not modelled for good: timing of the constant-time helpers; the hash functions
and the cipher beyond what their users rely on; in `oramctl`, argument parsing,
the planner, the extraction of source files, provenance evidence and reports;
size and I/O estimates of `oramctl`, `direct.rs`, `cuckoo.rs` and
`ring_stress.rs`, which are arithmetic without state; the statistics of the
simulators; header parsing and page encoding.

Outside the fault models: failing writes of the controller over *plain* stores
(the old copy of a block stays readable and nothing in the repository promises
otherwise); two processes on one directory, which nothing prevents; a table file
replaced by one with another header; an attacker, beyond pages that are older or
misplaced.

Left for later: the page encoding of `block.rs` as an operator with its inverse.
