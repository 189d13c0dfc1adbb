# TLA+ models of MidFat

MidFat stores a per-object metadata pointer in the upper `PTR_BITS` bits of 64-bit
pointers and keeps the metadata itself in a page-table-indexed store. The repository
has three parts that interact:

* **Compiler passes** (`src/llvm-plugins/`). `MidFatPtrs` finds every integer holding a
  tagged pointer (a *ptrint*). It follows the uses of that integer (`PointerSink.h`) and
  masks the tag off before each use that needs a plain address (a *sink*). It also
  instruments calls, compares, allocations and memory accesses. `MaskPointers` is the SFI
  masking pass. `DummyPass` tracks stores through `metaget`/`metacheck`. `ArgvTracker`
  makes `main` replace argv, envp and environ by heap copies (`staticlib/argvcopy.c`)
  before it runs. `CustomInliner` always inlines the runtime functions the passes call.
* **Runtime library** (`src/staticlib/`):
  * `metaget.c` holds the lookups `metabaseget`, `metaget_N`, `metaget_base_N`, the deep
    variants and the fixed-compression variants.
  * `stackinit.c` holds the unsafe-stack hooks.
  * `globalinit.c` holds the run-once setup.
  * `metacheck.c` holds the compare-and-trap.
  * `metadata.h` holds `PTR_BITS`, the alignments and the list of metadata functions.
* **Page-table writers** (`metapagetable_core.h`). These live outside the repository:
  `allocate_metadata`, `set_metapagetable_entries`, `deallocate_metadata`,
  `initialize_metadata` and `metaset_alignment_N`.

The instrumented program calls the runtime: the passes insert calls to `metaget_N` and
`metacheck_N`, and the allocator and the SafeStack runtime call the writers and the stack
hooks.

## Inventory

| Part | State | Operations | Hard behaviour |
|---|---|---|---|
| Sink classifier (`PointerSink.h`) | `KnownPtrInts`, the sink list | `isPtrInt`, `isSinkOf`, `isTrivialNonSinkOf`, `collectSinks` | recursion through phi cycles; order of the three tests; `exit(1)` part-way |
| `MidFatPtrs::runOnFunction` | `mems`, `sinks`, `knownPtrInts` | skip metadata functions, scan, call/cmp instrumentation, `instrumentSinks`, memory accesses | the passes run in sequence over one IR; masks are inserted after allocations are rewritten |
| Lookups (`metaget.c`) | `pageTable`, metadata memory | `metabaseget`, `metaget_N`, `metaget_base_N` | wrapping unsigned offsets; the zero-entry check is commented out; a reused entry |
| Stack hooks (`stackinit.c`) | page entries, metadata blocks | alloc, free | block reuse after free; the free recomputes the alignment |
| Global setup (`globalinit.c`) | `static int initialized` | `initialize_global_metadata` | runs from both a constructor and `.preinit_array` |
| Writers (outside `src/`) | page entries, blocks, records | install, free, `metaset` | entries per page of a multi-page region |
| Call/compare/memory instrumentation (`MidFatPtrs.cpp` 200–345, 386–406; `MaskPointers.cpp`) | `mems`, the operands replaced by masks | `instrumentCallExt`, `…ExtWrap`, `…Byval`, `…ExtNestedPtrs`, `instrumentCmpPtr`, `instrumentPtrSub`, `instrumentMemAccess` | handler order at a call site; mems collected before and masked after the call loop |
| Write tracker (`DummyPass.cpp`) | `ignoredStores`, `ignoredGlobalStores` | errno search, `__metaptr_` filter, check insertion | the errno set is passed by value; `exit(-1)` part-way; two loops per basic block |
| Argv tracking (`ArgvTracker.cpp`, `argvcopy.c`) | main's allocas for argv/envp, `environ`, the copied arrays | the prologue inserted into main, `argvcopy`, `strarrcopy` | store before the call and RAUW to the load after it; the uninitialised last cell; `exit(-1)` on allocation failure |
| Fat-pointer codec (`MidFatPtrs.cpp` 98–137, `metaget.c` 37–47) | none (pure) | mask, build, decode | handle truncation; carry into the tag |
| Runtime names (`metadata.h`, the `CREATE_` instances of `metaget.c` and `metacheck.c`, `DummyPass::doInitialization`, `CustomInliner.cpp`) | the declarations of the module | declare, inline | a configured width the library does not instantiate |

## Modules

* **`SinkClassifier.tla`** (instantiated by `MC_SinkClassifier.tla`) models
  `MidFatPtrs::runOnFunction` up to `instrumentSinks`, together with `PointerSink.h`.
  * In phase `build`, a function body of `N` instructions is built one instruction at a
    time (`SupplyInst`), each from the shapes `ShapesFor(body)` allows after the
    instructions already built. Each instruction is an opcode shape and a set of operands drawn
    from earlier traceable instructions. A phi may also name later instructions, so it can
    form a cycle.
  * `SkipMetadataFunction` and `BeginFunction` model the guards at the top of
    `runOnFunction`. `ScanInst` is the first instruction loop.
  * The recursion of `collectSinks` is an explicit stack of ptrints:
    * `CollectKnown` is the `KnownPtrInts` early return.
    * `CollectFrame` is one call: it classifies every user, records the sinks and pushes
      the recursive uses in any order.
    * `CollectAbort` is `exit(1)`.
    * `CollectReturn` resumes the scan.
  * `instrumentSinks` records the masked (value, use) pairs.
  * Classification (`Classify`, `isSinkOf`, `isTrivialNonSinkOf`) is translated from the
    code. The properties compare it with a separate reference written from the spec's sink
    table in terms of tag bits (`SpecRecurse`, `SpecNonSink`, `SpecSink`).
* **`ShadowStore.tla`** models the page-table store.
  * `metaget`, `metabaseget` and `metaget_base` are operators translated from `metaget.c`.
    They use 8-bit alignment/base packing and arithmetic modulo `2^WordBits`.
  * `unsafe_stack_alloc_meta` and `unsafe_stack_free_meta` are actions.
  * `StartupCall` is one call of `initialize_global_metadata` by the loader: from
    `.preinit_array` and then as a constructor in an executable (`Executable`), only as
    a constructor in a shared object. Program actions may run between the two calls.
    `initialize_global_metadata` returns at the static flag. Otherwise
    `InstallStartupRegions` installs the static image and the stack range
    `StackStart .. StackEnd`. `StackLimit` is the code's `rlim_cur`, replaced by
    `DefaultStackLimit` (1MB) when it is 0 or at least `StackLimitCap` (2^31).
    `RLimit` is a constant of the cfg, with `RLIM_INFINITY` as `2^WordBits - 1`.
  * The writers are modelled from the spec and marked `spec_modelled` in `PROJECT.json`.
    `allocate_metadata` returns any free zero-filled block. `set_metapagetable_entries`
    gives each page the base of its first granule. `deallocate_metadata` clears the
    entries and returns the block.
  * `metaset_alignment` writes a value through the entries for an object of whole
    granules.
  * The ghost variable `expect` records, per address, the value the last write stored.

* **`FatPointer.tla`** (instantiated by `MC_FatPointer.tla`) models the allocation hooks
  and the codec at run time, under `MIDFAT_POINTERS`.
  * The program is a call graph (`Programs`). Every defined function returns the result of
    one call, either to another defined function or to the C allocator `Libc`. Some
    functions carry a name from the allocator tables (`prog.table`) or are
    `Perl_my_setenv` (`prog.setenv`).
  * At each call site, `instrumentCallAlloc` decides whether the pass rewrote the call.
    When it did, `AtCallSite` applies `putMetaPointerInHighBits`, which is
    `buildFatPointer` of `lookup_metaptr`. `buildFatPointer` computes a bitwise or, as
    the code does.
  * `CallLibc` hands out a free block and, as the allocator's `metaset` does, records it
    in every metadata slot of the block. The slots are computed by `SpecSlot`, the entry
    layout of spec §2 (`metadataBase + (offsetInPage >> alignmentShift) * recordSize`),
    written independently of the code's `lookup_metaptr`; a decode is right only when the
    code's lookup finds the slot the spec places the record in.
  * `Gep` is in-bounds pointer arithmetic. `Free` is the external `free`, whose argument
    `instrumentCallExt` masks.
  * `metaget` decodes the handle.
  * `CallWrapper`, `Return` and `ReceiveInMain` are the calls and returns of the
    instrumented program itself. They model no code of the repository.

* **`Instrumentor.tla`** (instantiated by `MC_Instrumentor.tla`) models the rest of
  `runOnFunction` in both masking passes. The state variable `pass` is `"midfat"`
  (`MidFatPtrs`) or `"mask"` (`MaskPointers`).
  * A body is a sequence of instruction shapes: calls (to a declared libc function,
    `llvm.lifetime`, a defined function, a printf wrapper of the ExtWrap list, the
    whitelisted `std::list` hook, and in one run inline asm and indirect calls), loads,
    stores (value kind, local or extern global), compares and subtractions.
  * Its state is the same as the pass's: `mems`, the operand sites replaced by a masked
    value, and the loads and stores `maskNestedPointers` inserts.
  * The actions are the pass's loops:
    * `CollectMem` is MidFatPtrs' first loop.
    * `ScanInst` is the call/compare loop. For MaskPointers it also collects `mems` and
      rewrites subtractions.
    * `MemAccess` is the `instrumentMemAccess` loop. Masking a non-pointer value fails
      an assertion in the code, and the model records that as `abort`.
    * `VisitCall` runs the handlers of a call site in the code's order.
  * `maskNestedPointers` is a RECURSIVE operator over aggregate types. It is checked
    against `PointerLeaves`, a reference that enumerates the paths of the type.
  * The properties compare the masked sites with `NeedsUntagged`, which is written from
    the spec's §4.4 rule.
  * The actual mask value is abstracted: masking is idempotent, so a site is either
    masked or not.
  * `pass = "dummy"` is `DummyPass`, the write tracker. Its bodies (`DummyBodies`) name
    their operands: an errno call, casts, phis (which may name later instructions),
    loads, GEPs, and stores whose value and address are an instruction or a constant
    class (`local`, or a `__metaptr_` global).
    * `DummyBegin` is `doInitialization` and the top of `runOnFunction`. SafetyManager
      lives outside the repository, so the stores it proves safe (for the module and for
      the function) are any subset of the stores.
    * `DummyScanInst` is the first loop over a basic block. `DummyTrackInst` is the
      second loop: it puts the store in `checked` where the code inserts `metaget_N` and
      `metacheck_N(meta, 0)`. `ends` splits the body into blocks.
    * The errno search is the closure `ErrnoValues` over casts and phis. `ErrnoInvalid`
      is its `exit(-1)`. `AccumulateErrnoStores` returns `ignored` unchanged, because
      the code passes the set by value.
    * `UnprovenStoresChecked` compares `checked` with the stores the pass may skip, as
      the code's comments list them.
    * `DummyBegin` also sets `declared` to `doInitialization`, the functions the pass
      declares. Each tracked store adds the callees of its two inserted calls
      (`declared.metaget`, `declared.metacheck`) to `calls`. `TrackerCallsResolve`
      checks those against the library and the inliner.

* **`MetadataNames.tla`** (extended by `Instrumentor`) holds constant-level operators
  for the names that tie the passes to the library. A name `family_size` is the record
  `Fn(family, size)`: the strings are used only as tokens, and no family ends in a digit.
  * The constants `MetadataBytes`, `DeepMetadata`, `DeepMetadataBytes` and
    `FixedCompression` are the passes' options.
  * `METADATAFUNCS` and `ISMETADATAFUNC` come from `metadata.h`.
  * `RuntimeDefines` is the set of instances the `CREATE_` macros of `metaget.c` and
    `metacheck.c` are expanded for.
  * `getInlineCost` is `CustomInliner`.
  * `MetagetFuncName` … `doInitialization` are the names `DummyPass::doInitialization`
    builds.

* **`ArgvTracker.tla`** models `ArgvTracker::runOnFunction` on `main` and the runtime
  that then executes the inserted prologue.
  * `runOnFunction` builds `MainPrologue` from the parameters `main` declares
    (`HasParam`): the allocas, the stores of the original parameters (inserted before
    the call), the `argvcopy` call with a null pointer for a missing parameter, and the
    loads after it. `reads` records that RAUW has moved main's uses to the loads.
  * `ExecInst` runs one inserted instruction; its `call` disjunct is `argvcopy`, with
    `strarrcopy` as `Count` and `CopyCells`. The cell `strarrcopy` never writes is
    `Null` or `Junk`, both of which malloc can leave. A failing malloc or strdup is the
    `exit` outcome. The assertion's abort branch is present and unreachable, since
    nothing in the repository moves `environ` before `main`.
  * `MainBody` is main's own code starting; `Terminated` keeps the final state.
  * Strings are records `[id, loc]`; arrays are `[loc, cells]` under four names (the
    kernel's two and the two `strarrcopy` can allocate).

## Runs

| Run | Checks | Shows |
|---|---|---|
| `sink_bodies` (every 3-instruction body over every class, then a fresh ptrint; every 4-instruction body of sources, merges, masks, store and icmp; 1.38M states) | TypeOK, SpecSinksMasked, TolerantUsesUnmasked, SinkListMatchesClosure, Termination | Every class is handled as the spec says, except the three findings below, whose shapes are left out of this run. An abort always names a tagged value. On every body with cycles and shared merges, the sink lists are exactly the reference closure, and collection terminates. |
| `sink_table` | SinkTableFollowed | **violation**: the classification departs from the spec's sink table. A defined non-metadata callee or a bitcast to a non-pointer type receives the tag, and a declared metadata function gets a masked argument. Each shape violates the property alone; TLC reports the first it meets. |
| `shadow_store` (4 pages of 8 bytes, 2-byte records, a two-page stack limit, an executable; 21.5k states) | TypeOK, GetReturnsLastSet, UninstalledTraps, BaseGetAgreesUpward, InitialStackCovered | Both startup calls run, with writes possible between them. Each stack the main thread may use within its limit has metadata. Through setup, stack installs and frees with block reuse, and writes: lookups return the last value written, uninstalled memory faults, and `metaget_base` agrees at or above the root's page. |
| `fat_alloc` (3 functions, the 116 call graphs whose allocator-table functions call only allocators, 4 candidate blocks over two heap pages) | FatDecodesToObject | Every pointer the caller holds masks to its block and decodes to the record the allocator wrote at the spec's slot, or to zero metadata where `Perl_my_setenv` leaves it untracked. This holds across allocation, free and reuse. The call graphs are restricted by spec §4.5's assumption (an allocator's implementation allocates only through allocators), not by the code's tagging rule, so a rewrite at two sites on one chain, or a wrong slot in `lookup_metaptr`, fails it. |
| `fat_nested_wrapper` (all 136 call graphs) | FatDecodesToObject | **violation**: an allocator-table function that allocates through a helper yields a doubly tagged pointer, and `lookup_metaptr` faults on it. |
| `instr_passes` (MidFatPtrs and MaskPointers on bodies of ≤2 instructions; DummyPass on bodies of ≤3; 8-byte records; 3.7M states) | TypeOK, DerefsUntagged, MasksOnlyWhatNeedsIt, InsertedAccessesUntagged, UnprovenStoresChecked, TrackerCallsResolve | Both masking passes mask every operand §4.4 lists and nothing else, for every combination of direct callee class, by-value and nested aggregate argument, compare, subtraction and access. The loads and stores inserted for nested pointers are addressed from the already-masked argument. DummyPass checks every store it may not skip, for every block split, either OnlyPointerWrites setting and any SafetyManager result. The `metaget_8` and `metacheck_8` it calls are defined by the library and always inlined. |
| `instr_divergent` (also DummyPass on bodies of ≤3) | InstrumentedAsSpecified (MasksAsSpecified and ErrnoStoresUnchecked) | **violation**: the passes instrument otherwise than §4.4 and DummyPass's comments say. Pointer arguments of inline asm and indirect calls keep the tag (MaskPointers marks this XXX). The extern-global test of `instrumentMemAccess` is true of every global, so an i64 stored to an extern global is masked, and other non-pointer values make `maskPointer` fail. A subtraction whose operand is a phi of ptrtoints is not masked by `instrumentPtrSub`. DummyPass checks a store through `__errno_location()`, because `AccumulateErrnoStores` fills a copy of the set; at run time the inserted `metaget_N` of the thread-local errno address faults. Each shape violates the property alone; TLC reports the shallowest, a masking-pass trace. |
| `instr_wide_records` (16-byte records) | TrackerCallsResolve | **violation**: DummyPass calls `metacheck_16` after every tracked store, and the library defines `metacheck_N` only for 1–8 bytes (C cannot compare the `meta16` struct with `!=`). The program does not link, although the spec allows 16-byte records and `metadata.h` lists `metacheck_16`. Fixed compression at 16 bytes and deep records of 16 or 32 bytes fail the same way. |
| `argv_copy` (main with 0–3 parameters, argc ≤ 2, ≤ 2 environment strings; 486 states) | TypeOK, MainSeesHeapCopies | Once main's code runs, argv, envp and environ reach only heap copies of the kernel's strings, and envp is environ, whatever the uninitialised cell holds. |
| `argv_terminator` | ArraysNullTerminated | **violation**: `strarrcopy` never writes the null terminator, so `argv[argc]` and the end of `environ` are whatever malloc left. |
| `stack_unlimited` (`RLimit` = RLIM_INFINITY) | InitialStackCovered | **violation**: with no stack limit, `initialize_global_metadata` covers only 1MB below its stack pointer, and a lookup of deeper stack memory faults. The spec says the setup covers the initial stack so that such lookups never fail. |
| `store_base_downward` | BaseGetAgrees | **violation**: `metaget_base` below the root's page in a large-stack region. |

## Bounds

Bit widths are scaled from 64/32 to 8/4 in the classifier and to 20 bits in the store.
The relations that decide behaviour are kept:

* Masks below, across and above the tag bits are all present.
* `GLOBALALIGN` equals log2 of the record size, as 3 does for 8-byte records.
* `STACKALIGN` is larger than that.
* `STACKALIGN_LARGE` equals log2 of the page size, as 12 does for 4096.

Four instructions are enough for a phi cycle through a mask, two ptrints sharing a merge,
and a sink behind two levels of recursion. In `shadow_store` the stack limit is two pages,
`DefaultStackLimit` one page and `StackLimitCap` four. So the initial stack region spans
two pages and a limit that ignored `rlim_cur` would leave one of them bare. The static
image is page 1 and one page is left for unsafe stacks. `store_base_downward` uses a
one-page limit, so that a two-page unsafe stack fits beside it. The metadata heap is
sized so that freed blocks must be reused. `MaxWrites` (2) and `MaxObjGranules` (2) bound the `metaset`
calls. That is enough for a write that crosses a page boundary, followed by a free and a
reuse.

Two instructions per body are enough for the instrumentor: instructions do not interact
except through the loop order, which is already visible with two, one of them a memory
access. The aggregate types reach depth 2 and width 2, so `maskNestedPointers` both
recurses and returns more than one path. Subtractions through a phi appear only in `instr_divergent`.

DummyPass needs three instructions: an errno call, a cast or phi of it, and a store that
uses it as address or value. A phi may name a later instruction, so a loop is possible.
The model keeps one shape per case the pass tells apart:
* a store to an extern global is the same case as a store to a local, because only the
  `__metaptr_` prefix counts;
* a stored ptrtoint is the same case as a stored `i32`.

The record width is one constant per run: 8 bytes in `instr_passes` and 16 in
`instr_wide_records`. Names depend only on these options, not on the body, so one
tracked store is enough to show a missing function.

Two arguments and two environment strings give arrays whose copy loop runs more than
once, and argc = 0 (which Linux has allowed) an array that is only the terminator.
All four parameter lists of main are enumerated.

## Fairness

* `SinkClassifier` assumes weak fairness of `Next`. The pass is a single-threaded loop
  that never waits, so it keeps taking steps until it stops.
* `FatPointer` checks only safety, and its cfgs do not check deadlock: the program ends
  once its blocks are allocated and its one free is done.
* `Instrumentor` checks only safety. The pass ends, so its cfgs do not check deadlock.
* `ArgvTracker` checks only safety; its final states stutter in `Terminated`.
* `ShadowStore` checks only safety: allocation, free and writes are driven by the
  program, which need not call them.

## Not modelled yet (plan for later sittings)

1. **FatPointer, further**:
   * A refinement of the store (an abstract map from addresses to records). It was
     tried and dropped: with the mapping taken through `metaget`, it restated
     `GetReturnsLastSet` and `UninstalledTraps`.
   * `realloc`, handle truncation, and the one-past-end carry into the tag. With
     `PTR_BITS` = 32 the carry needs an object ending exactly at 4 GiB, and whether such
     a pointer reaches `metaget_N` depends on the MaskPointers/MidFatPtrs composition
     of item 2.
   * A second `initialize_global_metadata` install. `StartupCall` models both calls and
     the `initialized` guard, but the bounded metadata heap has no room for a second
     global and stack block, so a model without the guard behaves the same. A heap large
     enough for that exceeds the run-time bound.
2. **Instrumentor, further**: a composition with `SinkClassifier`, so that the masks
   inserted for ptrint sinks and for pointer operands are checked together over one body.
3. The deep lookups (`metaget_deep_N` and `metaget_base_deep_N`, one more dereference of
   the slot) and the fixed-compression lookup (`metaget_fixed_N`, whose offset is not
   scaled by the record size). Both depend on writers and on `METALLOC_FIXEDSIZE`, which
   are outside the repository.
4. The run-time effect of the checks DummyPass inserts. `metacheck_N` is one comparison
   with a trap; a checked store is `metaget_N` (as `ShadowStore` models it) followed by
   that comparison. Which `metacheck_N` exist is modelled in `MetadataNames`.
   * The root-tracking helpers of DummyPass (`MapRootUses`, `ProcessPointerArgs`,
     `ProcessUnsafeStack`, `ProcessGlobals`, `ProcessPointerReads`) are never called, so
     they are not modelled.
   * No code builds a call to `metaget_base_N`, so a stale entry passed to it cannot
     arise from this repository.

`shrink.h` (declarations only) changes no state the properties talk about, and stays out
of scope. `CustomInliner` is modelled only as its cost decision. Inlining is taken to run
after the library's bitcode is linked in, which is what gives it bodies to inline; the
build scripts that fix that order are outside the repository. The type warnings of `ArgvTracker` only
print; lines 83 and 86 test argc's type where argv's and envp's are meant, so they
never warn about those.
