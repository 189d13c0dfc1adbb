----------------------------- MODULE FatPointer -----------------------------
(***************************************************************************)
(* The allocation hooks and the fat-pointer codec of MidFat at run time:   *)
(* what an instrumented program computes when it calls an allocator       *)
(* through a chain of wrappers, derives pointers from the result, frees   *)
(* it and looks its metadata up.                                           *)
(*                                                                         *)
(* The instrumentation decision is instrumentCallAlloc of                  *)
(* MidFatPtrs.cpp; the code it inserts is putMetaPointerInHighBits, that   *)
(* is lookup_metaptr (createMetaPtrLookupHelper) and buildFatPointer.      *)
(* Free is an external call, whose pointer argument instrumentCallExt      *)
(* masks with maskPointer.  The lookup is metaget_N of metaget.c compiled  *)
(* with MIDFAT_POINTERS.  Words are WordBits wide, the real address is the *)
(* low PTR_BITS bits.                                                      *)
(*                                                                         *)
(* A program is a call graph of allocation wrappers: every defined         *)
(* function returns the result of one call, to another defined function   *)
(* or to the C library's allocator Libc.  prog.table holds the defined     *)
(* functions whose names are in the allocator tables of isMalloc,         *)
(* isCalloc and isRealloc, prog.setenv those named Perl_my_setenv.         *)
(***************************************************************************)
EXTENDS Integers, Sequences, FiniteSets

CONSTANTS
  WordBits, PTR_BITS,
  PAGESIZE,
  PageTable,       \* pageTable[page] for every page below 2^PTR_BITS
  MetaAddrs,       \* metadata memory
  MetadataBytes,   \* record size (MetadataBytes of the pass)
  Objects,         \* blocks the C allocator may hand out: [base, size]
  Funcs,           \* defined functions of the module
  Main,            \* the function that starts the chain
  Libc,            \* the C library allocator (declared, name in isMalloc)
  Programs,        \* the call graphs checked
  Trap

Word == 2^WordBits
PTR_MASK == 2^PTR_BITS - 1
Shr(x, n) == x \div 2^n

VARIABLES
  prog,       \* the program, fixed by Init
  stack,      \* call stack: a sequence of defined functions, Main first
  retval,     \* [val, obj] returned by the callee that just finished, or NoVal
  live,       \* objects allocated and not freed
  metaMem,    \* metadata records: the object the allocator recorded
  held,       \* pointers Main holds: [val, obj, off]
  freed       \* frees done, bounded by MaxFrees

NoVal == [none |-> TRUE]
ZeroMeta == [base |-> 0, size |-> 0]   \* the all-zero record
MaxFrees == 1

vars == <<prog, stack, retval, live, metaMem, held, freed>>

-----------------------------------------------------------------------------
(* The codec.                                                              *)

(* maskPointer: and with PTR_MASK (for a pointer, through ptrtoint).      *)
maskPointer(v) == v % 2^PTR_BITS

(* lookup_metaptr, the helper the pass emits: the metaget_N address       *)
(* computation of the page table, on the whole 64-bit argument.  A page   *)
(* beyond the table is a fault.                                           *)
lookup_metaptr(ptrInt) ==
  LET page == ptrInt \div PAGESIZE
  IN  IF page \notin DOMAIN PageTable THEN Trap
      ELSE LET entry       == PageTable[page]
               alignment   == entry % 256
               metabase    == entry \div 256
               pageOffset  == (ptrInt - page * PAGESIZE) % Word
           IN  (metabase + Shr(pageOffset, alignment) * MetadataBytes) % Word

(* buildFatPointer: (HighBits << PTR_BITS) | ptrtoint(Ptr).  The or of    *)
(* two words is computed bit by bit.                                      *)
BitOr(a, b) ==
  LET RECURSIVE OrFrom(_, _, _)
      OrFrom(x, y, k) ==
        IF k = WordBits THEN 0
        ELSE (IF x % 2 = 1 \/ y % 2 = 1 THEN 2^k ELSE 0) + OrFrom(x \div 2, y \div 2, k + 1)
  IN  OrFrom(a, b, 0)

buildFatPointer(ptr, highBits) ==
  IF highBits = Trap THEN Trap
  ELSE BitOr(ptr, (highBits * 2^PTR_BITS) % Word)

putMetaPointerInHighBits(ptr) == buildFatPointer(ptr, lookup_metaptr(ptr))

(* metaget_N with MIDFAT_POINTERS: the handle is the metadata address; a  *)
(* zero handle gives zero metadata.                                        *)
metaget(ptrInt) ==
  LET metaptr == ptrInt \div 2^PTR_BITS
  IN  IF metaptr = 0 THEN ZeroMeta
      ELSE IF metaptr \in MetaAddrs THEN metaMem[metaptr] ELSE Trap

-----------------------------------------------------------------------------
(* The instrumentation decision at a call site of parent to callee.       *)

IsAllocName(f) == f = Libc \/ f \in prog.table

(* Mutant: allocation calls inside allocator wrappers rewritten as well.  *)
CallAllocInWrappers(parent, callee) ==
  /\ parent \notin prog.setenv
  /\ IsAllocName(callee)

instrumentCallAlloc(parent, callee) ==
  /\ ~IsAllocName(parent)
  /\ parent \notin prog.setenv
  /\ IsAllocName(callee)

(* The value a call site of parent receives from callee.                   *)
AtCallSite(parent, callee, v) ==
  IF instrumentCallAlloc(parent, callee) THEN putMetaPointerInHighBits(v) ELSE v

-----------------------------------------------------------------------------
Init ==
  /\ prog \in Programs
  /\ stack = <<Main>>
  /\ retval = NoVal
  /\ live = {}
  /\ metaMem = [m \in MetaAddrs |-> ZeroMeta]
  /\ held = {}
  /\ freed = 0

Top == stack[Len(stack)]

(* A defined function calls its callee, another defined function.        *)
CallWrapper ==
  /\ retval = NoVal
  /\ prog.callee[Top] \in Funcs
  /\ Len(stack) <= Cardinality(Funcs)
  /\ stack' = Append(stack, prog.callee[Top])
  /\ UNCHANGED <<prog, retval, live, metaMem, held, freed>>

(* The slot the allocator's metaset writes for address a, by the entry    *)
(* layout of spec section 2: metadataBase + (offsetInPage >> alignmentShift) *)
(* * recordSize, for the page table entry of a's page.                     *)
SpecSlot(a) ==
  LET entry == PageTable[a \div PAGESIZE]
  IN  entry \div 256 + Shr(a % PAGESIZE, entry % 256) * MetadataBytes

(* A defined function calls the C allocator: a free block is handed out   *)
(* and the allocator's metaset records the object in every slot of it;   *)
(* the call site in the function may rewrite the result.                 *)
CallLibc ==
  /\ retval = NoVal
  /\ prog.callee[Top] = Libc
  /\ \E o \in Objects \ live :
       /\ \A q \in live : q.base + q.size <= o.base \/ o.base + o.size <= q.base
       /\ live' = live \cup {o}
       /\ metaMem' = [m \in MetaAddrs |->
                        IF \E a \in o.base .. o.base + o.size - 1 : SpecSlot(a) = m
                        THEN o ELSE metaMem[m]]
       /\ retval' = [val |-> AtCallSite(Top, Libc, o.base), obj |-> o]
  /\ UNCHANGED <<prog, stack, held, freed>>

(* A wrapper returns its callee's result to its caller, whose call site   *)
(* may rewrite it.                                                        *)
Return ==
  /\ retval # NoVal
  /\ Len(stack) > 1
  /\ LET callee == Top
         parent == stack[Len(stack) - 1]
     IN  /\ retval' = [retval EXCEPT !.val = AtCallSite(parent, callee, @)]
         /\ stack' = SubSeq(stack, 1, Len(stack) - 1)
  /\ UNCHANGED <<prog, live, metaMem, held, freed>>

(* Main's own call has returned: Main holds the pointer.                  *)
ReceiveInMain ==
  /\ retval # NoVal
  /\ Len(stack) = 1
  /\ held' = held \cup {[val |-> retval.val, obj |-> retval.obj, off |-> 0]}
  /\ retval' = NoVal
  /\ UNCHANGED <<prog, stack, live, metaMem, freed>>

(* Main derives an in-bounds pointer by address arithmetic on a block's   *)
(* pointer: to its second byte or to its last byte.                      *)
Gep ==
  /\ retval = NoVal
  /\ Len(stack) = 1
  /\ \E h \in held, d \in {1, 7} :
       /\ h.val # Trap
       /\ h.off = 0
       /\ d < h.obj.size
       /\ held' = held \cup {[val |-> (h.val + d) % Word, obj |-> h.obj, off |-> h.off + d]}
  /\ UNCHANGED <<prog, stack, retval, live, metaMem, freed>>

(* Main frees a block through the external free: instrumentCallExt masks *)
(* the argument and the C allocator releases the block at that address.  *)
Free ==
  /\ retval = NoVal
  /\ Len(stack) = 1
  /\ freed < MaxFrees
  /\ \E h \in held, o \in live :
       /\ h.val # Trap
       /\ h.off = 0
       /\ o.base = maskPointer(h.val)
       /\ live' = live \ {o}
       /\ held' = {g \in held : g.obj # o}
  /\ freed' = freed + 1
  /\ UNCHANGED <<prog, stack, retval, metaMem>>

Next == CallWrapper \/ CallLibc \/ Return \/ ReceiveInMain \/ Gep \/ Free

Spec == Init /\ [][Next]_vars

-----------------------------------------------------------------------------
(* Properties.                                                             *)

(* The functions on the path from Main to the allocator.                  *)
RECURSIVE ChainFrom(_, _)
ChainFrom(f, n) ==
  IF n = 0 \/ f = Libc THEN <<f>> ELSE <<f>> \o ChainFrom(prog.callee[f], n - 1)

Chain == ChainFrom(Main, Cardinality(Funcs))

(* Spec 4.5: an allocation is tracked: its handle is embedded once in the *)
(* pointer returned to the caller.  Allocations under Perl_my_setenv may  *)
(* be left untracked and then read as zero metadata.  So every pointer    *)
(* Main holds, straight from an allocation or derived from it in bounds,  *)
(* addresses its block once masked, and metaget of it gives the record    *)
(* the allocator wrote for that block, or zero metadata only when the     *)
(* chain passes through Perl_my_setenv.                                   *)
FatDecodesToObject ==
  \A h \in held :
    /\ h.val # Trap
    /\ maskPointer(h.val) = h.obj.base + h.off
    /\ metaget(h.val) \in {h.obj, ZeroMeta}
    /\ (\A i \in 1 .. Len(Chain) : Chain[i] \notin prog.setenv) => metaget(h.val) = h.obj

=============================================================================
