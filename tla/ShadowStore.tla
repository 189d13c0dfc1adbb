---------------------------- MODULE ShadowStore ----------------------------
(***************************************************************************)
(* The page-table metadata store of the runtime library (staticlib/):      *)
(* the lookups of metaget.c in the variable-compression mode, the stack    *)
(* hooks of stackinit.c and the one-time setup of globalinit.c.            *)
(*                                                                         *)
(* A page-table entry packs (metabase << 8) | alignment.  The writers      *)
(* allocate_metadata, set_metapagetable_entries, deallocate_metadata,      *)
(* initialize_metadata and metaset_alignment_N live in                     *)
(* metapagetable_core.h, which is not part of this repository: they are    *)
(* modelled from the spec (4.1, 3) and marked so.                          *)
(*                                                                         *)
(* Words are WordBits wide and every address computation of metaget.c is   *)
(* done modulo 2^WordBits, as the unsigned long arithmetic of the code.    *)
(* One metadata record is MetaBytes bytes; metaMem holds each record at    *)
(* its first byte.                                                         *)
(***************************************************************************)
EXTENDS Integers, FiniteSets, Sequences

CONSTANTS
  WordBits,          \* width of unsigned long (64, scaled down)
  PAGESIZE,          \* METALLOC_PAGESIZE
  DataPages,         \* page numbers of program memory covered by the model
  GlobalPages,       \* pages of the static image (dli_fbase .. _end)
  StackEnd,          \* the stack pointer when initialize_global_metadata runs
  RLimit,            \* rlim_cur of RLIMIT_STACK (RLIM_INFINITY is 2^WordBits - 1)
  StackLimitCap,     \* 0x80000000, scaled
  DefaultStackLimit, \* 0x100000 (1MB), scaled
  Executable,        \* the library is linked into an executable (has .preinit_array)
  MetaLo, MetaHi,    \* the metadata heap: addresses MetaLo .. MetaHi - 1
  MetaBytes,         \* size of one metadata record (meta##size)
  STACKALIGN, STACKALIGN_LARGE, GLOBALALIGN,
  Values,            \* non-zero metadata values
  MaxObjGranules,    \* bound on the granules of one object given to metaset
  MaxWrites,         \* bound on the metaset calls of one behaviour
  Trap               \* a lookup that faults

ASSUME GlobalPages \subseteq DataPages /\ StackEnd % PAGESIZE = 0
ASSUME DefaultStackLimit % PAGESIZE = 0 /\ DefaultStackLimit < StackLimitCap
ASSUME GLOBALALIGN \notin {STACKALIGN, STACKALIGN_LARGE}
ASSUME MetaLo > PAGESIZE * MetaBytes   \* the page at 0 is never mapped

Word == 2^WordBits
Addrs == {p * PAGESIZE + o : p \in DataPages, o \in 0 .. PAGESIZE - 1}
MetaAddrs == MetaLo .. MetaHi - 1
PageOf(a) == a \div PAGESIZE
Shr(x, n) == x \div 2^n
None == -1   \* no metadata stored for the address

VARIABLES
  pageTable,    \* pageTable[page]: the entry word, 0 = nothing installed
  metaMem,      \* metadata records
  metaUsed,     \* bytes of the metadata heap handed out by allocate_metadata
  initialized,  \* the static flag of initialize_global_metadata
  regions,      \* installed regions [addr, size, align, block, large]
  expect,       \* per address: the metadata last stored for it, or None
  writes,       \* metaset calls so far, bounded by MaxWrites
  startup       \* the startup entries still to call initialize_global_metadata

(* The startup entries that call initialize_global_metadata, in order: a  *)
(* shared object has only the constructor.                                 *)
StartupCalls == IF Executable THEN <<"preinit", "constructor">> ELSE <<"constructor">>

vars == <<pageTable, metaMem, metaUsed, initialized, regions, expect, writes, startup>>

-----------------------------------------------------------------------------
(* Lookups (metaget.c, variable compression, MIDFAT_POINTERS undefined).   *)

(* Reading a record: outside the metadata heap the access faults.         *)
Load(a) == IF a \in MetaAddrs THEN metaMem[a] ELSE Trap

metabaseget(ptrInt) == pageTable[PageOf(ptrInt)]


(* The address metaget_N reads; the zero-entry check is commented out, so *)
(* a missing entry yields an address in the unmapped first page.          *)
MetaPtr(ptrInt, entry, page) ==
  LET alignment  == entry % 256
      metabase   == entry \div 256
      pageOffset == (ptrInt - page * PAGESIZE) % Word
  IN  (metabase + Shr(pageOffset, alignment) * MetaBytes) % Word

(* Mutant: the commented-out zero-entry check restored, as permissive mode. *)
MetagetZeroOnMissing(ptrInt) ==
  IF metabaseget(ptrInt) = 0 THEN 0
  ELSE Load(MetaPtr(ptrInt, metabaseget(ptrInt), PageOf(ptrInt)))

(* Mutant: the record size left out of the slot address.                 *)
MetagetUnscaled(ptrInt) ==
  LET entry == metabaseget(ptrInt)
  IN  Load((entry \div 256 + Shr((ptrInt - PageOf(ptrInt) * PAGESIZE) % Word, entry % 256)) % Word)

metaget(ptrInt) ==
  Load(MetaPtr(ptrInt, metabaseget(ptrInt), PageOf(ptrInt)))

(* Mutant: the page offset taken from ptrInt's own page.                  *)
MetagetBaseOwnPage(ptrInt, entry, oldPtrInt) ==
  Load(MetaPtr(ptrInt, entry, PageOf(ptrInt)))

(* metaget_base_N: the entry was fetched earlier for oldPtrInt and the    *)
(* page offset of ptrInt is taken from oldPtrInt's page.                  *)
metaget_base(ptrInt, entry, oldPtrInt) ==
  Load(MetaPtr(ptrInt, entry, PageOf(oldPtrInt)))

-----------------------------------------------------------------------------
(* Writers, from the spec: metapagetable_core.h is not in the repository. *)

Slots(size, align) == Shr(size, align)
BlockLen(size, align) == Slots(size, align) * MetaBytes

PagesOf(addr, size) == {p \in DataPages : addr <= p * PAGESIZE /\ p * PAGESIZE < addr + size}

(* Mutant: the end-of-heap test off by one record.                        *)
FreeBlocksPastEnd(len) ==
  {b \in MetaAddrs : /\ b % MetaBytes = 0
                     /\ b + len <= MetaHi + MetaBytes
                     /\ (b .. b + len - 1) \cap metaUsed = {}}

(* allocate_metadata: a free, zero-filled block of the metadata heap.     *)
FreeBlocks(len) ==
  {b \in MetaAddrs : /\ b % MetaBytes = 0
                     /\ b + len <= MetaHi
                     /\ (b .. b + len - 1) \cap metaUsed = {}}

(* set_metapagetable_entries: each page's base is the block address of    *)
(* the page's first granule, so offsets within a page index the block.    *)
PageEntries(addr, size, block, align) ==
  [p \in PagesOf(addr, size) |->
     (block + Shr(p * PAGESIZE - addr, align) * MetaBytes) * 256 + align]

(* The whole of a region install: allocate_metadata then                   *)
(* set_metapagetable_entries, leaving records and expectations at zero.   *)
InstallRegion(addr, size, align, large) ==
  \E block \in FreeBlocks(BlockLen(size, align)) :
    LET len == BlockLen(size, align)
        ent == PageEntries(addr, size, block, align)
    IN  /\ metaUsed' = metaUsed \cup (block .. block + len - 1)
        /\ metaMem' = [a \in MetaAddrs |-> IF a \in block .. block + len - 1 THEN 0 ELSE metaMem[a]]
        /\ pageTable' = [p \in DataPages |-> IF p \in DOMAIN ent THEN ent[p] ELSE pageTable[p]]
        /\ regions' = regions \cup {[addr |-> addr, size |-> size, align |-> align,
                                     block |-> block, large |-> large]}
        /\ expect' = [a \in Addrs |-> IF addr <= a /\ a < addr + size THEN 0 ELSE expect[a]]

(* deallocate_metadata: the block is found through the first page's entry *)
(* and returned; every entry of the range is cleared.  The contents of a   *)
(* returned block are never read through an entry again and are dropped.  *)
deallocate_metadata(r) ==
  LET block == pageTable[PageOf(r.addr)] \div 256
      len   == BlockLen(r.size, r.align)
  IN  /\ metaUsed' = metaUsed \ (block .. block + len - 1)
      /\ pageTable' = [p \in DataPages |-> IF p \in PagesOf(r.addr, r.size) THEN 0 ELSE pageTable[p]]
      /\ regions' = regions \ {r}
      /\ expect' = [a \in Addrs |-> IF r.addr <= a /\ a < r.addr + r.size THEN None ELSE expect[a]]
      /\ metaMem' = [a \in MetaAddrs |-> IF a \in block .. block + len - 1 THEN 0 ELSE metaMem[a]]

Installed == UNION {PagesOf(r.addr, r.size) : r \in regions}

-----------------------------------------------------------------------------
Init ==
  /\ pageTable = [p \in DataPages |-> 0]
  /\ metaMem = [a \in MetaAddrs |-> 0]
  /\ metaUsed = {}
  /\ initialized = FALSE
  /\ regions = {}
  /\ expect = [a \in Addrs |-> None]
  /\ writes = 0
  /\ startup = StartupCalls

(* The stack size initialize_global_metadata covers: rlim_cur of          *)
(* RLIMIT_STACK, replaced by 1MB when it is 0 or at least 2^31 (which      *)
(* RLIM_INFINITY is).  A failing getrlimit takes the same branch as 0.    *)
(* Mutant: the limit not consulted.                                        *)
StackLimitDefaultOnly == DefaultStackLimit

StackLimit ==
  IF RLimit <= 0 \/ RLimit >= StackLimitCap THEN DefaultStackLimit ELSE RLimit

(* stack_start = stack_end - rlim_cur, in char * arithmetic.                *)
StackStart == (StackEnd - StackLimit) % Word

(* The body of initialize_global_metadata past its flag: initialize_metadata *)
(* over the static image (dli_fbase .. _end) and over                       *)
(* stack_start .. stack_end, each a block of GLOBALALIGN records; the      *)
(* stack is installed second, so its entries win on a shared page.        *)
InstallStartupRegions ==
  /\ initialized' = TRUE
  /\ LET g == CHOOSE p \in GlobalPages : \A q \in GlobalPages : p <= q
         gsize == Cardinality(GlobalPages) * PAGESIZE
         gblen == BlockLen(gsize, GLOBALALIGN)
         sblen == BlockLen(StackLimit, GLOBALALIGN)
     IN  \E gb \in FreeBlocks(gblen) : \E sb \in FreeBlocks(sblen) :
           /\ (gb .. gb + gblen - 1) \cap (sb .. sb + sblen - 1) = {}
           /\ LET ge == PageEntries(g * PAGESIZE, gsize, gb, GLOBALALIGN)
                  se == PageEntries(StackStart, StackLimit, sb, GLOBALALIGN)
                  covered == {a \in Addrs : PageOf(a) \in DOMAIN ge \cup DOMAIN se}
              IN  /\ pageTable' = [p \in DataPages |->
                                     IF p \in DOMAIN se THEN se[p]
                                     ELSE IF p \in DOMAIN ge THEN ge[p] ELSE pageTable[p]]
                  /\ metaUsed' = metaUsed \cup (gb .. gb + gblen - 1) \cup (sb .. sb + sblen - 1)
                  /\ regions' = regions \cup
                                {[addr |-> g * PAGESIZE, size |-> gsize, align |-> GLOBALALIGN,
                                  block |-> gb, large |-> FALSE],
                                 [addr |-> StackStart, size |-> StackLimit, align |-> GLOBALALIGN,
                                  block |-> sb, large |-> FALSE]}
                  /\ metaMem' = [m \in MetaAddrs |->
                                   IF m \in (gb .. gb + gblen - 1) \cup (sb .. sb + sblen - 1)
                                   THEN 0 ELSE metaMem[m]]
                  /\ expect' = [a \in Addrs |-> IF a \in covered THEN 0 ELSE expect[a]]
                  /\ UNCHANGED writes

(* Mutant: the static flag not tested.                                      *)
InitializeUnguarded == InstallStartupRegions

(* initialize_global_metadata: "if (initialized) return;" and otherwise   *)
(* the installs.                                                            *)
initialize_global_metadata ==
  IF initialized
  THEN UNCHANGED <<pageTable, metaMem, metaUsed, initialized, regions, expect, writes>>
  ELSE InstallStartupRegions

(* The loader calls initialize_global_metadata from .preinit_array (in an *)
(* executable) and again as a constructor; instrumented code that runs in *)
(* between, such as an allocator's own initialisation, may already        *)
(* install and write metadata.                                             *)
StartupCall ==
  /\ startup # <<>>
  /\ startup' = Tail(startup)
  /\ initialize_global_metadata

StackAlign(islarge) == IF islarge THEN STACKALIGN_LARGE ELSE STACKALIGN

(* unsafe_stack_alloc_meta(addr, size, islarge) for a fresh unsafe stack: *)
(* page-aligned, whole pages, not overlapping any installed range.        *)
unsafe_stack_alloc_meta ==
  /\ initialized
  /\ \E first \in DataPages, n \in 1 .. 2, islarge \in BOOLEAN :
       LET addr == first * PAGESIZE
           size == n * PAGESIZE
       IN  /\ PagesOf(addr, size) \cap Installed = {}
           /\ Cardinality(PagesOf(addr, size)) = n
           /\ InstallRegion(addr, size, StackAlign(islarge), islarge)
  /\ UNCHANGED <<initialized, writes, startup>>

(* unsafe_stack_free_meta with the range and flag it was allocated with.  *)
unsafe_stack_free_meta ==
  /\ initialized
  /\ \E r \in regions :
       /\ r.align = StackAlign(r.large)
       /\ deallocate_metadata(r)
  /\ UNCHANGED <<initialized, writes, startup>>

(* metaset_alignment_N(addr, size, value, alignment) over a granule-      *)
(* aligned object inside an installed region: each granule's record is    *)
(* written at the address the page entry gives for it.                    *)
metaset_alignment ==
  /\ initialized
  /\ writes < MaxWrites
  /\ writes' = writes + 1
  /\ \E r \in regions, v \in Values :
     \E lo \in 0 .. Slots(r.size, r.align) - 1, n \in 1 .. MaxObjGranules :
       LET hi == lo + n - 1 IN
       LET gran == 2^r.align
           objAddrs == {a \in Addrs : r.addr + lo * gran <= a /\ a < r.addr + (hi + 1) * gran}
           targets  == {MetaPtr(a, metabaseget(a), PageOf(a)) : a \in objAddrs}
       IN  /\ hi < Slots(r.size, r.align)
           /\ targets \subseteq MetaAddrs
           /\ metaMem' = [m \in MetaAddrs |-> IF m \in targets THEN v ELSE metaMem[m]]
           /\ expect' = [a \in Addrs |-> IF a \in objAddrs THEN v ELSE expect[a]]
  /\ UNCHANGED <<pageTable, metaUsed, initialized, regions, startup>>

Next ==
  \/ StartupCall
  \/ unsafe_stack_alloc_meta
  \/ unsafe_stack_free_meta
  \/ metaset_alignment

Spec == Init /\ [][Next]_vars

-----------------------------------------------------------------------------
(* Properties.                                                             *)

TypeOK ==
  /\ pageTable \in [DataPages -> 0 .. Word - 1]
  /\ metaMem \in [MetaAddrs -> Values \cup {0}]
  /\ metaUsed \subseteq MetaAddrs
  /\ initialized \in BOOLEAN
  /\ expect \in [Addrs -> Values \cup {0, None}]
  /\ writes \in 0 .. MaxWrites
  /\ startup \in Seq({"preinit", "constructor"})

(* Spec 8: after setAligned over a range, get_N of any address in it, at  *)
(* the same granularity, returns the value: here for every address of    *)
(* every installed region, through installs, frees and block reuse.      *)
GetReturnsLastSet ==
  \A a \in Addrs : expect[a] # None => metaget(a) = expect[a]

(* Strict mode: a lookup of an address with no installed metadata faults *)
(* rather than returning some other region's record.                     *)
UninstalledTraps ==
  \A a \in Addrs : expect[a] = None => metaget(a) = Trap

(* getWithBase_N with the entry fetched for a root pointer returns what   *)
(* get_N returns, for every pointer into the root's region.               *)
BaseGetAgrees ==
  \A r \in regions : \A root, p \in {a \in Addrs : r.addr <= a /\ a < r.addr + r.size} :
    metaget_base(p, metabaseget(root), root) = metaget(p)

(* The same restricted to pointers at or above the root's page, where the *)
(* unsigned page offset of metaget_base_N does not wrap.                  *)
BaseGetAgreesUpward ==
  \A r \in regions : \A root, p \in {a \in Addrs : r.addr <= a /\ a < r.addr + r.size} :
    PageOf(p) >= PageOf(root) => metaget_base(p, metabaseget(root), root) = metaget(p)

(* The addresses the main thread's stack may occupy below the stack       *)
(* pointer of the setup: the kernel lets it grow to rlim_cur (without      *)
(* bound for RLIM_INFINITY), and it never reaches the static image.        *)
ProgramStack ==
  {a \in Addrs : StackEnd - RLimit <= a /\ a < StackEnd /\ PageOf(a) \notin GlobalPages}

(* Spec 4.3: the one-time setup installs metadata over the initial stack  *)
(* range "so lookups never fail for statically known memory": once        *)
(* initialize_global_metadata has run, through every later stack install,  *)
(* free and reuse, a lookup of any address the main thread's stack may     *)
(* occupy finds an entry.                                                   *)
InitialStackCovered ==
  initialized => \A a \in ProgramStack : metaget(a) # Trap

=============================================================================
