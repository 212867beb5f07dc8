# A TLA+ model of moe-store

moe-store converts mixture-of-experts checkpoints into a group-aware store (one
contiguous group per routed expert), and carries the model wrappers that run
such models with their experts offloaded to host memory.  This directory models
the parts of it that keep state and can go wrong in ways a test hardly reaches.

## The system

| component | source | state | operations | modules |
|---|---|---|---|---|
| layout planner | `convert/planner.py` | groups being collected, stage order, tensor/file/offset cursors | scan, order members, place group, roll file | StoreLayout |
| index and validator | `index.py` | the group table | validate (G1, G2, G5), encode, decode, look up | StoreLayout, IndexCodec, StoreReader |
| C++ index reader | `csrc/store/index_v2.cc` | cursor over the file | decode, validate, look up | IndexCodec |
| store writer | `convert/writer.py` | temporary directory, store directory | write groups, fsync, write index and metadata, replace, clean up; read a group | StorePublish, StoreWriter, StoreReader |
| conversion driver | `convert/convert.py`, `pipeline.py`, `checkpoints.py`, `cli.py` | names and tensors of a call | resolve, discover shards, choose policy, plan, write | Conversion |
| cast policy, quantizers | `convert/cast_policy.py` | weight and scale tables, one-entry cache | prepare names, spec, load | Conversion, StoreLayout |
| fused expansions | `convert/v5_remap.py` | renaming tables | expand names, slice tensors | Conversion |
| name parsing, registry | `parsing/*`, `registry/*` | tables | expert id of a name, slot rank, expert type | Naming, Conversion |
| engine hooks | `hooks.py` | global record of callables | register, require | MoeBlock |
| expert host store | `wrappers/deepseek_v4/official_offload_adapter.py` (V4.1: `deepseek_v41/`) | host cache, LRU of device bundles, copy stream | prefetch, get, evict; two MoE forwards | ExpertHostStore, GpuStreams, Offloading |
| bundle provider, executor | `deepseek_v4/host_offload.py`, `expert_executor.py` | the same, one bundle at a time | provide, evict; execute | BundleProvider, GpuStreams, Offloading |
| official model loading | the two `official_offload_adapter.py`, `vision_exp.py`, `inmem_shard_loader.py`, `engram_offload.py` | swapped constructors, parameters loaded so far, patched modules | build, copy, shard, patch; forward over ranks | OfficialLoader, OfficialForward |
| paged attention registry | `wrappers/paged_attention_registry.py`, `*_paged_attention.py` | per-layer classes with a class-level context | register, install, clear, forward | PagedRegistry, PagedAttention, Attention |
| MLA attention | `wrappers/deepseek_mla_attention.py` | per-module context of one step | adapt, set context, write and read latents | MlaAttention, Attention |
| MoE blocks, fused routing | `wrappers/*.py`, `fused_routing.py`, `deepseek_v4/routing.py`, `sync_moe_block.py` | router cached on its block | route, dispatch, add shared experts | MoeBlock |
| numerics, bundle indexers | `fp4.py`, `fp8.py`, `expert_bundle.py`, `fp4_expert.py`, `fp8_expert.py` | none | tensor programs | shapes in Conversion |

How they interact: the driver expands the names of a checkpoint, has the quantizer
insert scales, and hands tensor metadata to the planner and the plan, with a
function that loads a tensor, to the writer.  The writer leaves a directory that
Python and C++ readers open.  At run time the official model is built with its
expert constructors swapped out; its MoE forward asks a store or provider for
the bundles of the active experts, which issue copies on one CUDA stream while
kernels run on another, and drop references to device memory that PyTorch's
allocator may hand out again at once.  Ranks of a sharded model meet in
`all_reduce`.  The Hugging Face models get their MoE blocks replaced by wrappers
that route (in torch, or through a fused kernel kept on the block) and dispatch
to the engine, and their attention modules rebound to classes that write a paged
cache under a context the serving runner installs.

What is hard: arbitrary scan orders against fixed-size files; several converters,
exceptions, kills and power losses on one path, and readers meanwhile; passes
over names that rename what the next pass looks for; a host that runs ahead of
two device streams and reuses memory under them; failing loads in the middle of
a prefetch, constructors swapped while a model is built, registrations that stop
half-way; contexts and caches that outlive what they were made for; ranks that
wait for each other.  Every hazard, with its line and the properties about it,
is in `PROJECT.json`.

## Modules

### StoreLayout (planner and validator)

One action per iteration of a loop of `plan_layout`: `ScanTensor`, `FinishScan`,
`OpenGroup` (sorted members of the next expert), `PlaceMember`, `GroupTooLarge`,
`CloseGroup` (the rest of `place_group` and the step of the main loop),
`Validate`.  The Python closures' `tensor_id`, `file_id`, `file_offset`,
`members`, `cursor` are variables of the same name; `expert_groups` also holds
the dense groups, under the expert id -1 the code gives them; `group_id` is the
pair (high, stage index) that the code packs into 64 bits.  `_align` assumes a
power of two; the model rounds up to a multiple, which is the same number then.

A tensor is its scan position.  Its name is abstracted to its home (layer and
expert, or dense stage), its slot and its part (weight, bias, aux).  With
`source = "quantize"` the scan is what `FP8ExpertQuantizer.prepare` (and the FP4
one) delivers: no scales in the source, and each quantized weight followed by
its scale; with `"raw"` it is arbitrary.  Sorting is stated as the order it
produces (`Precedes`), not as an algorithm.

### StorePublish, StoreWriter (the writer)

`StorePublish` is the promise: at a path there is no store, or one version,
whole; a version appears in one step and once; a visible store is only ever
withdrawn.  `StoreWriter` is `write_store` run by several processes.  Directories
are inodes reached through paths (the store path, and one temporary path per
pid), so that `rmtree` of a directory another process has replaced is
represented: it opens and lists an inode, unlinks its own listing entry by entry
and removes the directory by path.  An entry that has gone in the meantime
raises, or is skipped (Python 3.13): both are possible.  `Raise` is any exception
inside the `try`; `Cleanup` the `except BaseException` clause; `Kill` a killed
process, whose pid may be reused; `PowerLoss` kills everyone and may tear every
file that was not fsynced (names are taken to survive, as on a journaling file
system).  `PublishesWhole` is the refinement: `StorePublish` with
`shown <- dir[StorePath]` and `intact <- StoreWhole`.  `published` is a history
variable.  Exceptions in the `except` clause itself, and before the `try`, are
left out.

### StoreReader (a reader during re-conversion)

`StoreWriter` and one reader: `ReadIndex`, `ReadStoreMeta` and `ReadGroup`, each
of which opens one file by its path in whatever the path leads to at that moment.
The index read is kept, and later group reads go by it, as callers of
`read_group_bytes` do.  An open file outlives its name, so a read is one step.
`ReadsFinishedStores` relates what was read to what has been published.  That the
index and the bytes are of the *same* store is not promised by the code and is
not claimed.

### GpuStreams, ExpertHostStore, BundleProvider (offloading)

`GpuStreams` is external: two in-order streams, `wait_stream`, host
synchronization, and the caching allocator (a freed block is reusable at once on
the stream of its pool, unless `record_stream` announced a use that is still
pending).  An operation at the head of a stream is running, so a copy that
overlaps a kernel is visible as a state.  The six tensors of an expert are one
block, their copies one operation.

`ExpertHostStore` has an action per step the host can be at: `StartForward`
(after the synchronizing `tolist`), `PrefetchHit`, `PrefetchMiss`,
`PrefetchDone` (with `_evict`), `GetHit`, `GetMiss`, `LaunchExpert` or
`LaunchGrouped`, `Return`, `LoadFails`.  `gpu` is the `OrderedDict`, least
recently used first, `held` the bundles local variables keep alive.  The variable
`grouped` (from `Paths`) selects the forward.  `BundleProvider` is `HostOffloadBundleProvider` under
`DeepSeekV4PythonExpertExecutor.execute`, whose `nonzero` synchronizes before
each expert.

The copies count as running in order on their stream and the host memory as
pinned; a host load that fails raises before anything is issued.  A device out
of memory is not modelled: the instances have enough blocks (a call that found
none would show as a deadlock).

`Offloading` holds both programs over one set of variables: a behaviour runs the
forward over its store, or `execute` over its provider (`INSTANCE BundleProvider`
with its own numbers of experts).

### IndexCodec (the binary index and its two readers)

A file is a sequence of cells, one per packed number or string, and may end
inside a cell.  A field is a record: the part of the index (header, stage, group
or member), the indices there, and the field's name.  `write_index` and the two
readers each have their own field order (`HeaderOrder`, `GroupOrder`, ...), and
the readers advance one field per step independently, with the Python reader's `struct` errors and its unchecked short
string reads, and the C++ cursor's bounds checks.  `Finish` compares the number of
tensors and calls the validator of the reader (`Validated`): both ask the same of
offsets, sizes and ids (`Laid`), and only `validate_index` looks at dtypes
(`index.py:292`; `Validate` of `index_v2.cc` does not).  `Write` validates too.

Damage: the file ends anywhere; it is longer; another magic, version, flags or
number of tensors is in the header (`Damaged`); or its values are those of
another index, valid or not (`Alter`, `Foreign`).  `DamageNoticed`: a cut index is
refused by both, what Python accepts C++ accepts and reads the same, and what C++
alone accepts has a dtype Python does not know.  Not covered are counts and lengths
that no longer fit what follows them, bytes that are not UTF-8 (which only Python
decodes) and sums beyond 64 bits.  `GroupsFoundAgain`: each lookup finds the
experts written, and never a dense group, which carries -1.

### Conversion, Naming, CheckpointNames (names and passes)

`Conversion` is one `convert_checkpoint` or pipeline conversion: resolve the
directory, refuse quantized sources, three expansion passes, `Prepare` of the
quantizer, the plan, and one load per member with the quantizer's one-entry
cache, up to publishing.  A name is a record (directory, block, layer, expert,
field, suffix); a tensor is its shape, its dtype and *the source rows it is made
of*, so a slice that is off by one, or transposed, or stored twice shows.
`Naming` is the other reading of the names: four chains of substring tests over
the architecture (shape, pattern, expert type, slot table), and
`parse_expert_id`, scanned in any order; its names carry towers, MTP stacks and
encoders, whose sparse step is their own.  Some layers of a config may have no
experts (`denseLayers`), which no parser reads: the groups then leave out just these.
`Published` says what the grouping takes for granted of a checkpoint.  `CheckpointNames` is their sum, not their product: the two abstract a
name differently, and no state is shared by the two halves of a behaviour.

### PagedRegistry, PagedAttention, MlaAttention, Attention (paged caches)

`PagedRegistry` is `register` as the loop it is: one module rebound per step, and
an unsupported class or duplicate layer index raises half-way.  Unsupported is
`DeepseekV2PagedAttention` alone: the other names of the table (`:27-58`) do not
resolve in this repository.  DeepSeek-V3 and OLMoE modules are passed over silently, and
`RegistryCovers` claims nothing of them.  Contexts live on
classes or instances as in the code (`Inherit`, `Cleared`, live).
`PagedAttention` adds the forwards: packing of ragged rows, the call with a layer
index and its retry without one on a `TypeError`, and the scatter back.  The
backend is external: it writes one cache slot per token and may raise after it
has.  With `past_key_values` a Qwen3 or OLMoE module puts earlier keys before
those of the batch, of which a ragged batch then packs the first ones: `TokensInOwnSlots`
leaves this case (`TakesPast`, packed) out, and claims every other one with a
history.  `MlaAttention` adapts modules in place and runs steps of one sequence each;
the runner sets a context on every module, or passes some over (`MaySkip`).
`Attention` runs one of the three.  `LatentsOfOwnPrefix` is claimed when no
module is passed over; when one is, only the ownership check of the cache stands
between it and another sequence's blocks, which is what `LatentWritesOwned` is
about.

### OfficialLoader, OfficialForward (official reference model)

A `job` is a loader (tensor-parallel, V4, V4.1), its arguments, the parameters
the built model has, and the checkpoint files.  `OfficialLoader` swaps
constructors, builds (external; it may raise), restores, binds forwards, and
copies tensor by tensor with the code's skips, renames and shard dimensions.
`OfficialForward` runs the forwards of all ranks: attention in chunks of heads,
routing, own experts, `all_reduce`, shared expert.  Ranks load and run
independently and meet in `AllReduce` only.  A read of an expert may fail on one
rank (`ExpertRaises`), which then is not in the collective the others wait in.

What a loader promises depends on the checkpoint: `LoadedComplete` says that each
parameter generation reads is filled if the checkpoint has a tensor of its name in
the model's shape (`Offered`), and is what `torch.empty` left otherwise, since the
loaders pass over what is missing or does not fit (V4 `:462`, V4.1 `:386`) without
a word.  `ConstructorsRestored` is about constructors; the patched `sparse_attn` and the
world and rank stay set, as they should.

### MoeBlock (wrappers and the fused router)

A family is a record of what differs between the wrappers: how a token is scored
and chosen, what `route()` is passed, what runs without an executor, what is
added after.  Weights have addresses with contents; `Load` (in place),
`Reload` (another storage) and `Move` (another device) may come between calls; a kept router keeps the
storages it was built on, as the kernel's object does, and reads them at every
launch.  Scores are numbers standing for the logits' order, and an expert's
contribution a fraction, which is enough to tell selection, renormalisation and
scaling apart.  Engine ops are registered wholly, half, or not at all.

## Runs

| run | what it shows | bounds |
|---|---|---|
| `layout_plan` | the inductive invariant; no overlap; every tensor placed once and at home, ids distinct but in a sparse last stage, no gap in file numbers; slot order and scales behind weights of quantized sources; only unknown dtypes are rejected | up to 4 tensors over 2 layers x 2 experts + 1 dense stage, sizes 0, 1, 9, 17 against partitions of 24, alignments 6, 4 and 2, two ranked slots and an unranked one |
| `store_reader` | the writer's inductive invariant, refinement of `StorePublish`, fsync before publishing, temporary directories, the old store kept until the new one is finished, and a reader that sees finished stores only | 2 writers on 2 pids or one reused, 2 groups in 2 files, with or without metadata and an old store, exceptions anywhere, 2 kills or power losses |
| `writer_race` | without faults every race ends with a complete store | 3 writers, 2 pids, 2 groups in one file |
| `names` | rows stored once and under their expert's name, bytes as the index announces, at most one weight held, weights and scales both stored, groups are experts, exactly the routed experts are offloaded | 2 layers x 2 experts of a few rows, 4 quantizer modes; each family with the towers its published index lists, a dense first layer, MTP layers, NLLB of 2 or 3 encoder and 4 or 5 decoder layers with two sparse steps |
| `index_files` | two readers agree, damage is noticed, lookups find the groups | 6 indexes, every cut, 4 damaged header fields, a longer file, 9 other contents (8 of them invalid); group alignment 16, member alignment 8 |
| `offload_programs` | kernels read their experts, device memory is bounded, prefetch is not undone by eviction | 2 layers x 3 experts (4 under the executor), cache of 2, 3 calls, loads that fail |
| `attention_serving` | registries are sound after repeated and failing calls, results come back in place, tokens in their own slots, latents of one's own prefix, writes owned | 2 modules, 2 registrations, 2 forwards of batches of 1 or 2 rows, under metadata of as many rows or not; 2 sequences of up to 3 tokens over 3 blocks of 2, or of 2 tokens over 2 blocks of 1 |
| `official_jobs` | constructors restored, shards partition, parameters complete, every term once, calls return | 2 layers of 4 experts, each loader loading twice; 4 loads that return over a checkpoint with missing or misfitting tensors (`Gaps`); 2 ranks serving 2 calls, with reads that fail and without |
| `moe_blocks` | a cached router reads current contents, the fused path agrees with the torch path, the output is the one owed | 6 experts in 3 groups, top 2 of 2 groups, one token a call, a padded one among them; 2 contents of gate and bias for the two families that are reloaded |
| `doc_atomic`, `doc_engram`, `doc_wo_a` | three statements of comments and documents that fail | one writer; one V4.1 job |

The bounds, besides the sets above: `MaxTensors`, `MaxFaults`, `MaxActive`,
`ProviderActive`, `MaxCalls`, `MaxRegisters`, `MaxForwards`, `MaxQuery`,
`MaxTokens` and the per-job `maxLoads` and `maxCalls`.  Four configurations also
have a constraint, which cuts combinations of choices and not the course of a
behaviour:

* `ScanBound` (`layout_plan`): one of sizes, slots or dtypes varies at a time.
  Placement reads only sizes, sorting only slots and parts, validation only dtypes.
* `ReaderBound` (`store_reader`): after the second fault only the writers go on; a
  reader has then had every state of one fault to read in.
* `Scope` (`attention_serving`): registrations and contexts without forwards;
  batches on Qwen3 modules registered once; one batch on the modules nobody
  registers.  A forward reads one class's context, so the parts do not interact.
* `Scope` (`moe_blocks`): the reloaded families (a Qwen3 and a GLM block, with and
  without a bias) register no ops, which no forward of theirs reads.

Why they are enough: a violation of the planner's properties needs at most two
groups and the state between them (the geometry is proved for every bound); three
calls of two layers let the cache fill, evict, reuse memory and hit again, and
the executor needs four active experts for a block to be freed and reused within
one call; blocks of two tokens and sequences of three cross a block; two loads
show what a failed one leaves behind; six addresses suffice for a block, its
router and a freed storage that is reused.

Deadlock is checked where a program should never be stuck: the layout, writer and
offload models stop only in `Finished`, which stutters; a host waiting for a
stream that waits for the host, or a writer with no next statement, would show.
`names`, `index_files`, `attention_serving` and the three official runs have an
end (all was read, the bound of calls was reached, a rank raised) and say so;
there `official_jobs` states by `CallsReturn` what must not get stuck.

What `writer_race` rests on besides `write_store`: that listing a directory is
one step, and that all processes unlink the entries of one directory in the same
order (`Listing`, `NextEntry`).  That order is the file system's, not the code's,
and the result depends on it: with an order per process (`NextEntryAny`) two
converters can both fail half-way through the old store and leave none.  The run
has one partition file, so that three converters stay within reach; races over
more files are covered for two converters only, by the safety properties of
`store_reader`.

Fairness: `writer_race` (`RaceSpec`: the writers' steps without exceptions from
outside, kills and power losses) assumes weak fairness of each writer's steps, that is, the
operating system keeps running every process.  `official_jobs` (`FairSpec`)
assumes the same of each rank's loader and forward, and that a collective all
ranks have entered completes; each rank is given every call, as the serving loop
broadcasts it.  A failing read is never owed.  `CallsReturn` says that calls of ranks
that have all loaded return unless a read failed on one of them.  When one failed,
or a rank did not load, the others wait for the process group's timeout,
which is outside the repository.

## Proofs

`StoreLayout_proofs` proves, for every checkpoint, slot table, alignment (member
alignment a multiple of the minimum) and partition size:
`TypeCorrect`, `LayoutConsistent`, `NoTwoGroupsOverlap`, `PlannerMeetsValidator`.
The inductive invariant is `TypeOK /\ LayoutInv /\ PlanAlwaysValid`.
`GroupsDisjoint` alone is not inductive: that a new group does not overlap needs
every placed group to end at or before `file_offset` in the current file or lie
in an earlier one; that the validator accepts needs the members of the open
group to be aligned, packed and numbered, the offsets to be multiples of the
group alignment (from arithmetic lemmas on `Align`), and the ids to be dense
from group to group.

`Converter_proofs` is about the converter. Of the writer it proves, for any number
of converters and pids (equal or not), groups, files, faults and exceptions:
`TypeCorrect`, `WriterConsistent`, `DataSurvives`, `TmpOwned`,
`ReplacementIsFirst`, and `ImplementsPublish`, the refinement of `StorePublish`.
The inductive invariant is `TypeOK /\ WriterInv`: that a rename publishes a whole
store needs what the writer has written at every statement (`WorkInv`), which
another writer could only destroy by unlinking in a directory it opened; those
have been published, and a writer's own has not been before its rename
(`PathsInv`). That no temporary directory is left or shared needs pids to be
exclusive among running processes (`PidInv`). The guard of `Begin` assumes that,
as the operating system of one host gives it; the code has no check of its own
(the temporary name is the pid alone, `writer.py:39`), so converters on several
hosts that share a file system are outside the model and outside these theorems.

It also proves `ReaderSeesFinished`: whatever number of converters, groups, files
and faults, a reader holds the index and bytes of finished stores only. A reader's
step leaves the writers alone, so their inductive invariant carries over; with
`ReadsFinishedStores` itself it is inductive, because what was published stays
published and is fsynced (`SyncInv`). `ReaderSeesPublish` carries the refinement
over as well: it is proved step by step (`StepsPublish`), and a reader's step is a
stutter.

Of a conversion it proves each property the run checks, for any checkpoints with
tensors of any shape, any quantizer mode and block sizes: `StoreAsAnnounced`,
`ConvertedUnderItsName`, `WeightsHeldOneByOne`, `ExpertsAllQuantized` and
`RowsAllStored`; `ReadingsConvert` states them of `ReadSpec`, the specification of
the run. Three invariants are inductive one after the other, each using those
before it:

* `ConvertInv` (`ConversionInvariant`): the plan holds what `spec` says of its
  names, the store what `load` returns for the members planned, and that has as
  many bytes (products of dimensions, row by row through each expansion). It says
  nothing of a name that is *not* there.
* `NamingInv` (`NamesCutWhole`): each listed name is there, or all that it is cut
  into (`Held`), never both (`GoneInv`), and no name twice (`OnceInv`). That a
  pass keeps this needs all it cuts to be named after the tensor cut and the part,
  so that two tensors never make one name; `RouterInv` says that the router of a
  renamed Mixtral layer moved with its experts.
* `QuantInv`: every weight the quantizer can take is taken, with its scale right
  behind it, in the names and then in the plan. That a one-entry cache suffices is
  a statement about the order of the plan: stages by their first name, then
  experts, slots and the order of the names (`Before`), which leaves a weight and
  its scale adjacent.

That the rows are stored once then is a statement about intervals: the parts of a
fused tensor are disjoint, cover it, and each is one name.

Of the grouping of names it proves `GroupsHoldExperts`. `ScanInv` says that the
names of a group are read as its key and every scanned name that has a key is in a
group; that two experts never share a key, and that the keys fill the range, is
arithmetic: quotients by a sparse step are a bijection between the layers with
experts and an interval (`QuotientIs`), the decoder of NLLB begins where its
encoder ends, and Jamba's layers of one residue are as many as its shape counts.
The proof found that the model had one sparse step where the code reads an
encoder's and a decoder's, and a `CASE` with two arms that both apply; both are
corrected.

`IndexCodec_proofs` proves `DamageIsNoticed` and `GroupsAreFoundAgain` for every
valid index, of any number of stages, groups, members, dimensions and
characters, and every damage of the model (the limits of its damage are those named above, and the
assumptions on what is written are in `ValidAssumption`).  The invariant (`Good`) says that the
cells a reader has before it are those of the fields it still expects, one field
behind the other (`Aligned`); that every loop among these fields comes behind its
count and no string is last (`Ordered`); and that what has been read and what is
expected cover the index (`Covered`).  A read takes the cells of its field, and a
loop puts the fields of its items where it stood, whose cells are its own
(`Unfolds`): so the two readers, which share no variable, both arrive at
`Contents`.  A Python reader that took a short string for a string is `Stuck`: a
field always follows a string, and it has no cell left.  `Bad` says of a file
that it is refused, the same for both readers.

`Offloading_proofs` proves `KernelsReadRight`, `CachesBounded` and `PrefetchKept`
for the expert store and for the bundle provider, any number of layers, experts,
active experts and residents, any program order the streams allow.  That a
kernel reads the expert it was launched for is a statement about a later state of
the device, so the invariant speaks about queues: `Brings` is the copy that will
fill a block, `Fed` says that a block holds its expert or a copy in the queue will
bring it, and `Awaited` that a kernel in the compute queue stands behind the wait
for that copy.  A freed block may be reused only behind the queue entries
that still name it, which is what `wait_stream` and the order of a stream
provide.  The bound and the prefetch follow from the order of the `OrderedDict`:
what the current call brought in or touched is its most recent part.

`Attention_proofs` proves `RegistriesAreSound`, `ProxiesStay`,
`ResultsAreInPlace`, `TokensAreInOwnSlots`, `LatentsAreOwn` and
`LatentsAreWrittenByOwners` for any number of modules, sequences, blocks and
tokens, and any ragged batch.  The registry's invariant says, of each position of
the registering loop, which modules are bound to which class and which are still
untouched; the forwards' relate a packed row to its token by the offsets of
`FlattenSeq`, so that packing and scattering back are inverse.  The invariant of
the MLA cache is that block tables are disjoint and of the right length, that no
table changes during a step, and that the cells of the tokens already cached hold
their own sequence's latents; a runner whose context is left over from another
step knows only what the ownership check of the cache still guarantees.

`OfficialForward_proofs` proves `ModuleIsRestored`, `ForwardsAreExact` and
`TablesAreOwn` for every checkpoint, and `LoadsAreComplete` and `ShardsAreExact`
for every `WellFormed` one, which may lack any tensor: a tensor in the model's
shape is in a format read as the parameter's, a sharded load finds the model's
shapes, the places are not empty and have a dimension to be sharded along, and a scale
belongs to a weight.  Without it a loader may raise; those jobs are checked by
TLC.  `ServesInv` has the ranks within one
call of each other and counts, per rank, the terms of each token that are due;
the sum over the ranks has one term per expert because their ranges partition the
experts.  `LoadInv` has, for the tensors copied so far, that each parameter among
them is what the rank is owed (`IsOwed`): nothing copied later replaces it, and no
parameter that is read is skipped under another name.

`MoeBlock_proofs` proves `RouterReads`, `FusedRoutesAgree` and `OutputsAreOwed`
for every family of wrappers, any experts, groups, top_k, scores and contents.
A kept router is under the key it was made for, and its storages stay allocated
and change content only together with the module's own.  With no ties, each rank
below the size of a set is taken by one element, so `torch.topk` takes the
experts with fewer than top_k above them, in the torch path and in the kernel;
the best groups hold at least top_k experts even when groups tie.

`StoreLayout_proofs` also proves `PlansAreComplete` and `MembersFollowSlots`:
the scan sorts its positions by home, the open group is an arrangement of one
home's, each home is placed once, and ids and files continue from group to group.
The order of members is a permutation by a pigeonhole argument, and what
is adjacent in it (a weight and its scale) stays adjacent in the placed group.

`SequenceFacts` holds the lemmas shared by these modules: lengths, offsets and
elements of `FlattenSeq`, what a sequence becomes when each entry is replaced by
a sequence (`Spread`), quotients and the layers at every n-th place (`QuotientIs`,
`SparseLayers`, `PeriodicLayers`), and induction over a set of naturals by its
least element outside (`LeastNat`, `InductionOnSet`), which replaces the library's
induction rule, whose operator parameter the provers cannot instantiate.

No bound of a configuration enters a theorem.  The constants have named
assumptions, which TLC evaluates on every run: `AlignmentAssumption`,
`NameAssumption`, `SlotAssumption` (StoreLayout), `NamesDistinct`,
`FilesAssumption`, `FaultAssumption` (StoreWriter), `UnsetAssumption`
(GpuStreams), `StoreAssumption`, `ProviderAssumption` (the stores),
`RegistryAssumption`, `AttentionAssumption`, `MlaAssumption` (attention),
`LoaderAssumption`, `ForwardAssumption` (official models), `BlockAssumption`,
`MixtralAssumption`, `ScoreAssumption` (MoeBlock), `IndexAssumption`,
`ValidAssumption` (IndexCodec), `ConversionAssumption`, `CheckpointsAssumption`
(Conversion), `ScannedAssumption` (CheckpointNames).
They state types and distinct names, except for these:

* a partition may be any size, but a member alignment is a multiple of the minimum
  (the writer's default and the validator's constant are both powers of two);
* the groups a router chooses from hold at least top_k experts, as `topk` needs;
  Mixtral's top_k is 2, which `mixtral.py:121` takes for granted; and no two experts
  of a token have the same score, since neither `torch.topk` nor the kernels say
  which of two equals they take;
* an index that is written has one group per expert, -1 for the expert of a dense
  group, and tensor ids that are distinct, as the planner makes it (proved of it in
  `StoreLayout_proofs`);
* a block of FP4 has more than one element (the code's constant is 32): with one,
  a row of one element would pack into no byte, and the check of the bytes would
  not notice its loss;
* a checkpoint that is converted (`CheckpointsAssumption`) lists each name once and
  no tensor with an empty dimension; keeps the experts of a layer fused or apart,
  and a Mixtral router in their block (`mlp` when they are fused); names weights as the family's slot table
  does; and has scales only if it is quantized, in a format the cast policy knows;
* a checkpoint whose names are scanned (`ScannedAssumption`) has, among the names
  its family's pattern matches, experts of one model only (NLLB: of two towers),
  on the layers that have experts and numbered as its config says, and one
  expert at least on each of these layers; MTP layers may follow, and gpt-oss is guarded
  against more.  The parser checks none of this: over a checkpoint that is not so
  it groups what it finds.

Only model-checked:

* the liveness of `writer_race` and `official_jobs`: out of the prover's reach;
* `OffloadedExactly`: whether a name is to be offloaded is data of a published index,
  and an assumption that said it of every checkpoint would restate the patterns of
  `parse_expert_id`; its part on the chains searches a tuple with `SelectSeq`,
  which is recursive.  It is checked on each family with the towers, stacks and
  layers its published index lists.

## Divergences from the code's own statements

Shown by a run:

* `writer.py:8`, `docs/store-format-v2.md:184`: conversion is not atomic when it
  replaces a store; an exception while the old one is removed leaves neither
  (`ConversionIsAtomic`).
* `deepseek_v41/official_offload_adapter.py:335` says the engram tables are
  "offloaded by EngramHostStore"; with `offload_engram=False` they are parameters
  that nothing fills (`EngramFilled`).
* `deepseek_v41/official_offload_adapter.py:360` says wo_a is dequantised; it is
  copied without its scale when a shard boundary falls between the two
  (`WoADequantized`).

Met while modelling, without a run:

* G4 (`docs/store-format-v2.md:48`, `:181`): aux tensors of pre-quantized sources
  are not checked to follow their weights, and `:81` calls the group table
  "group_id order" where it is in stage order.
* `docs/store-format-v2.md:171`, `:184`: while a store is replaced, its metadata
  may be gone before its index.
* `docs/store-format-v2.md:47` against `registry/slots.py:29` (Mixtral's slot
  order); Hy3 and MiniMax have no slot table (`slots.py:59`).
* `tests/test_olmoe_paged_attention.py:208` has stale metadata of another number of
  rows not drive the packing; `qwen3_paged_attention.py:76` compares row counts only,
  so stale metadata of as many rows does.
* `paged_attention_registry.py:27-58` means to refuse DeepSeek-V3 modules, and names
  modules that do not exist: a V3 model gets a registry without its modules.
* A ragged batch with `past_key_values` (`qwen3_paged_attention.py:140-180`,
  `olmoe_paged_attention.py:143`): the selection indexes the keys of the batch, and
  is applied to those of the cache, so earlier tokens take the slots of new ones.
* Missing or misfitting resident tensors leave `torch.empty` in a loaded model (V4
  `official_offload_adapter.py:462`, V4.1 `:386`; missing ones in all three loaders).
* `index_v2.cc:54` accepts dtypes that `index.py:292` refuses.
* A read of an expert that raises on one rank (`official_offload_adapter.py:343`,
  `:77-87`) leaves the other ranks in `all_reduce`.
* `fused_routing.py:65` means to build a router once; with a bias on another
  device the GLM block (`glm_moe_dsa.py:91`) makes a new copy, and so a new
  router, every call.

## Hazards no property covers

Two are listed in `PROJECT.json` without a property: pids are exclusive on one
host only (`writer.py:39`), and a rank that raises while loading leaves the
others in their first collective (`inmem_shard_loader.py:111`).  Others are not
in the list:
unrelated modules that share a dense stage name (`planner.py:72`); sums that
leave 64 bits in C++ (`index_v2.cc:60`); a Mixtral block whose top_k is not 2
(`mixtral.py:121`); a GLM block that has no executor and returns zeros
(`glm_moe_dsa.py:133`); a dense block before the expert layers (`:361`); a name in two
shards, which is listed twice and loaded from the last (`convert.py:140`); FP8 sources of other families
than the policy names (`cast_policy.py:255`).

## Not modelled

* Downloads, `inspect_store`, argument parsing: I/O without state of its own.
* Bundle indexers and tensor arithmetic (`expert_bundle.py`, `fp4_expert.py`,
  `fp8_expert.py`, rounding in `fp4.py` and `fp8.py`, projections and rotary
  embeddings): nothing to interleave, better tested than model-checked.
* `make_indexer_bundle_provider` and the stores' CPU-only variants: synchronous
  special cases of what is modelled.
* `topk_route_v41`, which no block of the repository calls, and `glm_dsa.py`'s
  table of indexer owners.
* Regular expressions beyond what they match on names of structured parts.
* A device out of memory, and exceptions inside `except` clauses.

## Plan

Done: the store (layout, writer, reader, index), conversion and names, the
offloading programs, attention, the official loaders and forwards, the blocks;
and a theorem for every safety property the passing runs check but `OffloadedExactly`.

Left: liveness and `OffloadedExactly`, which stay with TLC, and what is listed
under "Not modelled".
