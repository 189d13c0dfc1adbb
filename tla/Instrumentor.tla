---------------------------- MODULE Instrumentor ----------------------------
(***************************************************************************)
(* The memory-access instrumentation of the MidFat passes: the loops of    *)
(* MidFatPtrs::runOnFunction and MaskPointers::runOnFunction that mask     *)
(* pointer operands of calls, comparisons, subtractions, loads and         *)
(* stores.  pass = "midfat" is MidFatPtrs, pass = "mask" is MaskPointers.  *)
(* pass = "dummy" is DummyPass (the write tracker), which masks nothing    *)
(* and inserts metaget_N and metacheck_N(meta, 0) after every store it     *)
(* cannot prove safe.                                                       *)
(*                                                                         *)
(* A function body is a sequence of instruction shapes.  The state of the *)
(* pass is the list mems the first loop collects, the set of operand      *)
(* sites it has replaced by a masked value, and the loads and stores      *)
(* maskNestedPointers inserts.  A site is [ins, slot, path]: slot is the  *)
(* operand number of the code (for a store 0 is the value and 1 the        *)
(* address; for a call the argument number), path is empty for the        *)
(* operand itself and the field indices of a pointer nested in the        *)
(* aggregate it points to.                                                *)
(*                                                                         *)
(* The tagging of allocation results (instrumentCallAlloc) masks nothing   *)
(* and is modelled by FatPointer; the ptrint sinks (collectSinks,          *)
(* instrumentSinks) by SinkClassifier.                                    *)
(***************************************************************************)
EXTENDS Integers, Sequences, SequencesExt, MetadataNames

CONSTANTS
  Passes,        \* the passes checked: "midfat" (MidFatPtrs), "mask" (MaskPointers)
  N,             \* instructions per body
  Bodies,        \* the bodies checked: sequences of instruction shapes
  DummyBodies,   \* the bodies DummyPass is checked on
  Callees,       \* called functions, as model values
  Info,          \* Info[f] = [declared, name, nestedArgs]
  MaxArgs, MaxWidth, MaxDepth

\* Info[f].name: "llvm_skip" (llvm.eh., llvm.dbg., llvm.lifetime.),
\* "extwrap" (the five printf wrappers), "nested" (the whitelist of
\* instrumentCallExtNestedPtrs, nestedArgs its argument numbers), "plain".

VARIABLES
  pass,       \* the pass run over the function, fixed by Init
  body,       \* the function, fixed by Init
  skipped,    \* the function is a metadata function
  pc,         \* "collect", "scan", "mem", "done" or "abort"
  i,          \* index of the instruction the current loop is at
  mems,       \* loads and stores collected by the first loop
  masked,     \* sites replaced by a masked value
  inserted,   \* accesses inserted by maskNestedPointers: [ins, slot, path, base]
  ends,       \* DummyPass: the last instruction of each basic block
  blk,        \* DummyPass: the first instruction of the current block
  onlyPtr,    \* DummyPass: the METALLOC_ONLYPOINTERWRITES option
  smGlobal,   \* DummyPass: stores SafetyManager proves safe for the module
  smLocal,    \* DummyPass: stores SafetyManager proves safe for the function
  ignored,    \* DummyPass: ignoredStores of runOnFunction
  ignoredGlobal, \* DummyPass: ignoredGlobalStores
  checked,    \* DummyPass: stores followed by metaget_N and metacheck_N
  declared,   \* DummyPass: the runtime functions doInitialization declared
  calls       \* DummyPass: the runtime functions the inserted calls name

vars == <<pass, body, skipped, pc, i, mems, masked, inserted,
          ends, blk, onlyPtr, smGlobal, smLocal, ignored, ignoredGlobal, checked, declared, calls>>
dummyVars == <<ends, blk, onlyPtr, smGlobal, smLocal, ignored, ignoredGlobal, checked, declared, calls>>

Site(ins, slot, path) == [ins |-> ins, slot |-> slot, path |-> path]

-----------------------------------------------------------------------------
(* Types: [k |-> "ptr"], [k |-> "int"], [k |-> "agg", el |-> <<...>>].    *)

(* Mutant: field indices taken 1-based.                                    *)
RECURSIVE NestedPointersOneBased(_, _)
NestedPointersOneBased(elTy, indices) ==
  UNION { IF elTy.el[f].k = "ptr" THEN {Append(indices, f)}
          ELSE IF elTy.el[f].k = "agg" THEN NestedPointersOneBased(elTy.el[f], Append(indices, f))
          ELSE {} : f \in DOMAIN elTy.el }

(* maskNestedPointers: the paths of the pointer fields of elTy, found by  *)
(* recursion into nested aggregates; indices are 0-based as in the GEPs.  *)
RECURSIVE maskNestedPointers(_, _)
maskNestedPointers(elTy, indices) ==
  UNION { IF elTy.el[f].k = "ptr" THEN {Append(indices, f - 1)}
          ELSE IF elTy.el[f].k = "agg" THEN maskNestedPointers(elTy.el[f], Append(indices, f - 1))
          ELSE {} : f \in DOMAIN elTy.el }

(* The calls.                                                              *)

IsCallee(I) == I.target \in Callees       \* getCalledFunction() is not null

PtrArgs(I) == {k \in 0 .. Len(I.args) - 1 : I.args[k + 1].ptr}

maskPointerArgs(ins, I) == {Site(ins, k, <<>>) : k \in PtrArgs(I)}

(* Mutant: the isDeclaration test dropped.                                *)
CallExtAnyCallee(ins, I) ==
  IF I.target = "asm" \/ ~IsCallee(I) THEN {}
  ELSE IF Info[I.target].name = "llvm_skip" THEN {}
  ELSE maskPointerArgs(ins, I)

instrumentCallExt(ins, I) ==
  IF I.target = "asm" \/ ~IsCallee(I) THEN {}
  ELSE IF ~Info[I.target].declared THEN {}
  ELSE IF Info[I.target].name = "llvm_skip" THEN {}
  ELSE maskPointerArgs(ins, I)

instrumentCallExtWrap(ins, I) ==
  IF I.target = "asm" \/ ~IsCallee(I) THEN {}
  ELSE IF Info[I.target].name # "extwrap" THEN {}
  ELSE maskPointerArgs(ins, I)

instrumentCallByval(ins, I) ==
  IF I.target = "asm" THEN {}
  ELSE IF IsCallee(I) /\ Info[I.target].declared THEN {}
  ELSE {Site(ins, k, <<>>) : k \in {a \in PtrArgs(I) : I.args[a + 1].byval}}

(* instrumentCallExtNestedPtrs: the nested pointer fields it masks, and   *)
(* the load and store of each, addressed from the argument as the sites  *)
(* m already masked have rewritten it.                                    *)
NestedArgs(I) ==
  IF ~IsCallee(I) THEN {}
  ELSE IF Info[I.target].name # "nested" THEN {}
  ELSE Info[I.target].nestedArgs

instrumentCallExtNestedPtrs(ins, I) ==
  UNION {{Site(ins, k, p) : p \in maskNestedPointers(I.args[k + 1].pointee, <<>>)} : k \in NestedArgs(I)}

NestedAccesses(ins, I, m) ==
  UNION {{[ins |-> ins, slot |-> k, path |-> p, base |-> Site(ins, k, <<>>) \in m] :
            p \in maskNestedPointers(I.args[k + 1].pointee, <<>>)} : k \in NestedArgs(I)}

(* instrumentCmpPtr: both operands of a comparison of pointers.           *)
instrumentCmpPtr(ins, I) == IF I.ptrs THEN {Site(ins, 0, <<>>), Site(ins, 1, <<>>)} ELSE {}

(* instrumentPtrSub (MaskPointers): both operands, when both are ptrtoint. *)
instrumentPtrSub(ins, I) ==
  IF I.a = "ptrtoint" /\ I.b = "ptrtoint" THEN {Site(ins, 0, <<>>), Site(ins, 1, <<>>)} ELSE {}

(* maskPointer applied to a stored value: a pointer goes through ptrtoint; *)
(* an i64 is anded directly (IRBuilder folds a cast to the same type);    *)
(* anything else fails an assertion.                                       *)
MaskableValue(v) == v \in {"ptr", "i64"}

-----------------------------------------------------------------------------
(* The module before doInitialization has declared anything.             *)
NoDeclarations == [d \in DOMAIN doInitialization |-> Fn("none", 0)]

Init ==
  /\ pass \in Passes
  /\ body \in IF pass = "dummy" THEN DummyBodies ELSE Bodies
  /\ skipped \in BOOLEAN
  /\ pc = CASE pass = "midfat" -> "collect" [] pass = "mask" -> "scan" [] OTHER -> "begin"
  /\ i = 1
  /\ mems = <<>>
  /\ masked = {}
  /\ inserted = {}
  /\ ends \in IF pass = "dummy" THEN {E \in SUBSET (1 .. Len(body)) : Len(body) \in E}
                                 ELSE {{Len(body)}}
  /\ blk = 1
  /\ onlyPtr \in IF pass = "dummy" THEN BOOLEAN ELSE {FALSE}
  /\ smGlobal = {}
  /\ smLocal = {}
  /\ ignored = {}
  /\ ignoredGlobal = {}
  /\ checked = {}
  /\ declared = NoDeclarations
  /\ calls = {}

(* The ISMETADATAFUNC (and, for MidFatPtrs, lookup helper) early return.   *)
SkipMetadataFunction ==
  /\ skipped
  /\ pc \in {"collect", "scan"}
  /\ i = 1
  /\ pc' = "done"
  /\ UNCHANGED <<pass, body, skipped, i, mems, masked, inserted>>
  /\ UNCHANGED dummyVars

IsMem(I) == I.op \in {"load", "store"}

(* MidFatPtrs, first loop: loads and stores go to mems.                   *)
CollectMem ==
  /\ pc = "collect" /\ ~skipped
  /\ mems' = IF IsMem(body[i]) THEN Append(mems, i) ELSE mems
  /\ IF i = Len(body) THEN pc' = "scan" /\ i' = 1 ELSE i' = i + 1 /\ UNCHANGED pc
  /\ UNCHANGED <<pass, body, skipped, masked, inserted>>
  /\ UNCHANGED dummyVars

(* The handlers of a call site, in the order the loop calls them.         *)
(* Mutant: the nested pointers masked before the arguments.               *)
VisitCallNestedFirst(ins, I) ==
  /\ masked' = masked \cup instrumentCallExtNestedPtrs(ins, I) \cup instrumentCallExt(ins, I)
                \cup instrumentCallExtWrap(ins, I) \cup instrumentCallByval(ins, I)
  /\ inserted' = inserted \cup NestedAccesses(ins, I, masked)

VisitCall(ins, I) ==
  LET m == masked \cup instrumentCallExt(ins, I) \cup instrumentCallExtWrap(ins, I)
                  \cup instrumentCallByval(ins, I)
  IN  /\ masked' = m \cup instrumentCallExtNestedPtrs(ins, I)
      /\ inserted' = inserted \cup NestedAccesses(ins, I, m)

(* The call/compare loop: the second loop of MidFatPtrs, the only loop of *)
(* MaskPointers, which also collects mems and instruments subtractions.   *)
ScanInst ==
  /\ pc = "scan" /\ ~skipped
  /\ LET I == body[i] IN
       /\ mems' = IF pass = "mask" /\ IsMem(I) THEN Append(mems, i) ELSE mems
       /\ CASE I.op = "call" -> VisitCall(i, I)
            [] I.op = "icmp" -> masked' = masked \cup instrumentCmpPtr(i, I) /\ UNCHANGED inserted
            [] I.op = "sub" /\ pass = "mask" -> masked' = masked \cup instrumentPtrSub(i, I)
                                                /\ UNCHANGED inserted
            [] OTHER -> UNCHANGED <<masked, inserted>>
  /\ IF i = Len(body) THEN pc' = "mem" /\ i' = 1 ELSE i' = i + 1 /\ UNCHANGED pc
  /\ UNCHANGED <<pass, body, skipped>>
  /\ UNCHANGED dummyVars

(* instrumentMemAccess: the address of every access, and the value of a  *)
(* store to an extern global (declared, without initializer).            *)
(* Mutant: the operand numbers of load and store swapped.                  *)
MemAccessOperandSwapped(ins, I) ==
  LET ptrOperand == IF I.op = "store" THEN 0 ELSE 1
  IN  {Site(ins, ptrOperand, <<>>)} \cup
        (IF I.op = "store" /\ I.dst = "extern" THEN {Site(ins, 0, <<>>)} ELSE {})

instrumentMemAccess(ins, I) ==
  LET ptrOperand == IF I.op = "store" THEN 1 ELSE 0
  IN  {Site(ins, ptrOperand, <<>>)} \cup
        (IF I.op = "store" /\ I.dst = "extern" THEN {Site(ins, 0, <<>>)} ELSE {})

MemAccess ==
  /\ pc = "mem"
  /\ i <= Len(mems)
  /\ LET I == body[mems[i]] IN
       IF I.op = "store" /\ I.dst = "extern" /\ ~MaskableValue(I.val)
       THEN pc' = "abort" /\ UNCHANGED <<masked, i>>
       ELSE masked' = masked \cup instrumentMemAccess(mems[i], I) /\ i' = i + 1 /\ UNCHANGED pc
  /\ UNCHANGED <<pass, body, skipped, mems, inserted>>
  /\ UNCHANGED dummyVars

Finish ==
  /\ pc = "mem"
  /\ i > Len(mems)
  /\ pc' = "done"
  /\ UNCHANGED <<pass, body, skipped, i, mems, masked, inserted>>
  /\ UNCHANGED dummyVars

-----------------------------------------------------------------------------
(* DummyPass.  Its bodies are built from: [op |-> "errno"] (a call of     *)
(* __errno_location), casts [op |-> "cast", src, ty] (bitcast, inttoptr:   *)
(* ty "ptr"; ptrtoint: ty "int"), [op |-> "phi", srcs, ty], loads        *)
(* [op, src, ty], GEPs [op, src] (always pointers), and stores            *)
(* [op |-> "store", val, dst] whose operands                               *)
(* are [cls |-> "ins", ref |-> k] (the result of instruction k) or a       *)
(* constant class: "ptr", "i32" (values), "local", "extern", "metaptr"    *)
(* (addresses: a local, a global, a __metaptr_ global).                    *)

IsStore(k) == body[k].op = "store"

(* The instructions I reads.                                              *)
Refs(I) ==
  CASE I.op \in {"cast", "load", "gep"} -> {I.src}
    [] I.op = "phi"   -> I.srcs
    [] I.op = "store" -> {o.ref : o \in {x \in {I.val, I.dst} : x.cls = "ins"}}
    [] OTHER -> {}

Users(S) == {j \in 1 .. Len(body) : Refs(body[j]) \cap S # {}}

(* AccumulateErrnoStores: the DFS from the call through bitcasts,         *)
(* inttoptr, ptrtoint and phis; Visited keeps it finite on phi cycles.     *)
RECURSIVE ErrnoValues(_)
ErrnoValues(S) ==
  LET T == S \cup {j \in Users(S) : body[j].op \in {"cast", "phi"}}
  IN  IF T = S THEN S ELSE ErrnoValues(T)

ErrnoUses(ins) == Users(ErrnoValues({ins}))

(* The stores the search inserts into SafeStores: every store using the   *)
(* value, as its address or as the value stored.                          *)
ErrnoSafeStores(ins) == {j \in ErrnoUses(ins) : IsStore(j)}

(* A use other than a load, store, cast or phi: exit(-1).                 *)
ErrnoInvalid(ins) == \E j \in ErrnoUses(ins) : body[j].op \notin {"load", "store", "cast", "phi"}

(* Mutant: SafeStores taken by reference, as the caller means it to be.   *)
ErrnoStoresByReference(ins) ==
  IF body[ins].op = "errno" THEN ignored \cup ErrnoSafeStores(ins) ELSE ignored

(* ignoredStores after AccumulateErrnoStores(CI, ignoredStores): the set  *)
(* is passed by value, so what the search inserts is lost.                 *)
AccumulateErrnoStores(ins) == ignored

(* OnlyPointerWrites tests the type of the stored value.                  *)
PtrTyped(k) ==
  \/ body[k].op \in {"errno", "gep"}
  \/ body[k].op \in {"cast", "phi", "load"} /\ body[k].ty = "ptr"

StoresPointer(I) == I.val.cls = "ptr" \/ (I.val.cls = "ins" /\ PtrTyped(I.val.ref))

(* runOnFunction up to its loops: doInitialization (the declarations of   *)
(* the runtime functions, SafetyManager's safe stores of the module into  *)
(* ignoredGlobalStores), the ISMETADATAFUNC return, and SafetyManager's   *)
(* safe stores of the function.  What                                      *)
(* SafetyManager proves is outside this repository: any set of stores.    *)
DummyBegin ==
  /\ pc = "begin"
  /\ LET Stores == {k \in 1 .. Len(body) : IsStore(k)} IN
       \E G \in SUBSET Stores :
         /\ smGlobal' = G
         /\ ignoredGlobal' = G
         /\ declared' = doInitialization
         /\ IF skipped THEN pc' = "done" /\ UNCHANGED <<smLocal, ignored>>
            ELSE pc' = "errno" /\ \E L \in SUBSET Stores : smLocal' = L /\ ignored' = L
  /\ UNCHANGED <<pass, body, skipped, i, mems, masked, inserted, ends, blk, onlyPtr, checked, calls>>

(* First loop over a block: the errno search at every call, and stores to *)
(* __metaptr_ globals into ignoredGlobalStores.                           *)
DummyScanInst ==
  /\ pc = "errno"
  /\ LET I == body[i] IN
       IF I.op = "errno" /\ ErrnoInvalid(i)
       THEN pc' = "exit" /\ UNCHANGED <<i, ignored, ignoredGlobal>>
       ELSE /\ ignored' = AccumulateErrnoStores(i)
            /\ ignoredGlobal' = IF I.op = "store" /\ I.dst.cls = "metaptr"
                                THEN ignoredGlobal \cup {i} ELSE ignoredGlobal
            /\ IF i \in ends THEN pc' = "track" /\ i' = blk ELSE i' = i + 1 /\ UNCHANGED pc
  /\ UNCHANGED <<pass, body, skipped, mems, masked, inserted, ends, blk, onlyPtr, smGlobal,
                 smLocal, checked, declared, calls>>

(* Second loop over the block: metaget_N and metacheck_N(meta, 0) after   *)
(* every store in neither set; with OnlyPointerWrites only after a store  *)
(* of a pointer.                                                           *)
DummyTrackInst ==
  /\ pc = "track"
  /\ LET I == body[i] IN
       IF /\ I.op = "store"
          /\ i \notin ignored \cup ignoredGlobal
          /\ onlyPtr => StoresPointer(I)
       THEN /\ checked' = checked \cup {i}
            /\ calls' = calls \cup {declared.metaget, declared.metacheck}
       ELSE UNCHANGED <<checked, calls>>
  /\ IF i \notin ends THEN i' = i + 1 /\ UNCHANGED <<pc, blk>>
     ELSE IF i = Len(body) THEN pc' = "done" /\ UNCHANGED <<i, blk>>
     ELSE pc' = "errno" /\ i' = i + 1 /\ blk' = i + 1
  /\ UNCHANGED <<pass, body, skipped, mems, masked, inserted, ends, onlyPtr, smGlobal,
                 smLocal, ignored, ignoredGlobal, declared>>

Next == SkipMetadataFunction \/ CollectMem \/ ScanInst \/ MemAccess \/ Finish
          \/ DummyBegin \/ DummyScanInst \/ DummyTrackInst

Spec == Init /\ [][Next]_vars

-----------------------------------------------------------------------------
(* The reference: the operands spec 4.4 says must reach the hardware or   *)
(* the callee unmasked-free, written from the spec, not from the code.     *)

(* The field of t at path p, or a "none" type where p leaves t.           *)
At(t, p) == FoldLeft(LAMBDA u, f : IF u.k = "agg" /\ f + 1 \in DOMAIN u.el
                                   THEN u.el[f + 1] ELSE [k |-> "none"], t, p)

PointerLeaves(t) == {p \in SeqOf(0 .. MaxWidth - 1, MaxDepth) : p # <<>> /\ At(t, p).k = "ptr"}

(* An external or unanalyzed call target: inline asm, an indirect call,   *)
(* or a declared function other than the no-access intrinsics.            *)
Unanalyzed(I) ==
  \/ I.target \in {"asm", "indirect"}
  \/ (Info[I.target].declared /\ Info[I.target].name # "llvm_skip")

Both(ins) == {Site(ins, 0, <<>>), Site(ins, 1, <<>>)}

NeedsUntagged(ins) ==
  LET I == body[ins] IN
  CASE I.op = "load"  -> {Site(ins, 0, <<>>)}
    [] I.op = "store" -> {Site(ins, 1, <<>>)} \cup
                           (IF I.dst = "extern" /\ I.val = "ptr" THEN {Site(ins, 0, <<>>)} ELSE {})
    [] I.op = "call"  ->
         {Site(ins, k, <<>>) : k \in {a \in PtrArgs(I) :
              Unanalyzed(I) \/ I.args[a + 1].byval
              \/ (IsCallee(I) /\ Info[I.target].name = "extwrap")}}
         \cup UNION {{Site(ins, k, p) : p \in PointerLeaves(I.args[k + 1].pointee)} : k \in NestedArgs(I)}
    [] I.op = "icmp"  -> IF I.ptrs THEN Both(ins) ELSE {}
    [] I.op = "sub"   -> IF pass = "mask" /\ I.a # "int" /\ I.b # "int" THEN Both(ins) ELSE {}
    [] OTHER -> {}

AllNeeded == UNION {NeedsUntagged(ins) : ins \in 1 .. Len(body)}

-----------------------------------------------------------------------------
(* Properties.                                                             *)

Paths == SeqOf(0 .. MaxWidth - 1, MaxDepth)

TypeOK ==
  /\ pass \in Passes
  /\ pc \in {"collect", "scan", "mem", "done", "abort", "begin", "errno", "track", "exit"}
  /\ i \in 1 .. Len(body) + 1
  /\ mems \in SeqOf(1 .. N, N)
  /\ masked \subseteq [ins : 1 .. N, slot : 0 .. MaxArgs - 1, path : Paths]
  /\ inserted \subseteq [ins : 1 .. N, slot : 0 .. MaxArgs - 1, path : Paths, base : BOOLEAN]
  /\ ends \subseteq 1 .. Len(body) /\ blk \in 1 .. Len(body) /\ onlyPtr \in BOOLEAN
  /\ {smGlobal, smLocal, ignored, ignoredGlobal, checked} \subseteq SUBSET (1 .. Len(body))
  /\ declared \in {NoDeclarations, doInitialization}
  /\ calls \subseteq {declared.metaget, declared.metacheck}

(* Spec 4.4: once the pass is through a function (call/compare loop,      *)
(* subtraction, memory-access loop), every load and store address, every *)
(* pointer compared or subtracted, every pointer argument of an external, *)
(* unanalyzed or wrapper call or passed by value, every pointer nested in *)
(* a whitelisted argument, and every pointer stored to an extern global   *)
(* has been replaced by a masked value.                                   *)
DerefsUntagged ==
  pc = "done" /\ ~skipped /\ pass # "dummy" => AllNeeded \subseteq masked

(* MidFat relies on tags reaching instrumented code: the pass never masks *)
(* an operand the spec leaves tagged (a pointer argument of a defined     *)
(* function, a non-pointer value), and it never fails on a valid body.    *)
MasksOnlyWhatNeedsIt ==
  pass # "dummy" => pc # "abort" /\ masked \subseteq AllNeeded

(* Spec 4.4 in both directions: a finished pass has masked exactly the    *)
(* operands the spec requires masked, and never fails on a valid body.    *)
MasksAsSpecified == DerefsUntagged /\ MasksOnlyWhatNeedsIt

(* The loads and stores maskNestedPointers inserts are addressed from     *)
(* the whitelisted argument as instrumentCallExt has already masked it:   *)
(* the handler order of a call site keeps them off tagged addresses.      *)
InsertedAccessesUntagged ==
  \A a \in inserted : a.base
(* The write tracker's reference: the stores that may write memory       *)
(* without metadata checked, written from the comments of DummyPass.      *)
(* Stores through the pointer __errno_location returns, or through a cast *)
(* or phi of it, are safe ("Storing to the pointee is safe").             *)
ErrnoPointeeStores ==
  LET errnoVals == UNION {ErrnoValues({k}) : k \in {k \in 1 .. Len(body) : body[k].op = "errno"}}
  IN  {j \in 1 .. Len(body) : IsStore(j) /\ body[j].dst.cls = "ins" /\ body[j].dst.ref \in errnoVals}

(* DummyPass is the write tracker: once it is through a function, every  *)
(* store it may not skip has metaget_N and metacheck_N after it.  It may  *)
(* skip a store SafetyManager proves safe, a store to a __metaptr_ global, *)
(* a store through errno, and under OnlyPointerWrites a store of a        *)
(* non-pointer; storing the errno pointer itself into memory is not a     *)
(* reason, nor is the block the store is in.                              *)
UnprovenStoresChecked ==
  pass = "dummy" /\ pc = "done" /\ ~skipped =>
    \A j \in 1 .. Len(body) :
      /\ IsStore(j)
      /\ j \notin smGlobal \cup smLocal \cup ErrnoPointeeStores
      /\ body[j].dst.cls # "metaptr"
      /\ onlyPtr => StoresPointer(body[j])
      => j \in checked

(* AccumulateErrnoStores collects the stores through errno so that       *)
(* runOnFunction leaves them unchecked (DummyPass.cpp:107-109): no store  *)
(* through the errno pointer gets a metadata check.                       *)
ErrnoStoresUnchecked ==
  pass = "dummy" /\ pc = "done" => checked \cap ErrnoPointeeStores = {}

(* Spec 3 and 7: records are 1, 2, 4, 8 or 16 bytes wide, or deep, and a  *)
(* checked value whose metadata differs traps.  Every call DummyPass has  *)
(* inserted after a store (the metaget_N and metacheck_N that             *)
(* doInitialization named for the configured width and mode) names a     *)
(* function the static library defines, so the program links, and one     *)
(* CustomInliner always inlines, because METADATAFUNCS lists it.           *)
TrackerCallsResolve ==
  pass = "dummy" /\ pc = "done" =>
    \A f \in calls : f \in RuntimeDefines /\ getInlineCost(f) = "always"

(* What the comments of DummyPass and spec 4.4 say of the instrumented    *)
(* function, together: the masks are those the spec requires and no      *)
(* store through errno is checked.                                        *)
InstrumentedAsSpecified == MasksAsSpecified /\ ErrnoStoresUnchecked
=============================================================================
