--------------------------- MODULE SinkClassifier ---------------------------
(***************************************************************************)
(* The pointer-tag sink classifier of the MidFat pass and the part of      *)
(* MidFatPtrs::runOnFunction that drives it (llvm-plugins/PointerSink.h,   *)
(* llvm-plugins/MidFatPtrs.cpp).                                           *)
(*                                                                         *)
(* A function body is a sequence of instructions; instruction i has a      *)
(* shape (opcode plus the one immediate the classifier looks at: the       *)
(* constant mask of an `and`, the width of a `trunc`, the callee class of  *)
(* a `call`, the destination type of a `bitcast`) and a set of operands    *)
(* that are instructions of the body.  Values that are not instructions    *)
(* (arguments, constants) are not tags and are left out.                   *)
(*                                                                         *)
(* runOnFunction walks the body in order and calls collectSinks on every   *)
(* ptrint; collectSinks is a recursive depth-first search sharing one      *)
(* knownPtrInts set.  The recursion is modelled by an explicit stack whose *)
(* head is the instruction of the innermost pending call; the users of an  *)
(* instruction are visited in every order, as LLVM's use-list order is     *)
(* unspecified.  instrumentSinks then rewrites every collected sink to     *)
(* read the masked value.                                                  *)
(***************************************************************************)
EXTENDS Integers, Sequences, FiniteSets, SequencesExt

CONSTANTS
  N,          \* number of instructions in the function body
  ShapesFor(_), \* the shapes the next instruction of a body may have
  WordBits,   \* width of a ptrint (64 in the code, scaled down)
  PtrBits,    \* PTR_BITS: low bits holding the real address
  NoConst,    \* `and` whose other operand is not a ConstantInt
  NoError,    \* no classification failure
  StackBound  \* bound on the pending-call stack (never reached by the code)

ASSUME N \in Nat \ {0}
ASSUME PtrBits \in 1 .. WordBits - 1

Insts == 1 .. N

PTR_MASK == 2^PtrBits - 1
NotPtrMask == 2^WordBits - 2^PtrBits      \* ~PTR_MASK at word width

VARIABLES
  body,       \* the function: <<[shape, args]>> per instruction
  isMetaFunc, \* ISMETADATAFUNC(F.getName()) or the lookup helper itself
  phase,      \* where runOnFunction is
  scan,       \* index of the next instruction of the first loop
  stack,      \* pending collectSinks calls, innermost first
  known,      \* knownPtrInts
  sinks,      \* the sink list: sinks[v] = ISinks pushed for v ({} if none)
  masked,     \* <<v, u>>: use u of v rewritten to read the masked v
  error       \* <<ptrint, use>> named by the "not sure if should mask" exit

vars == <<body, isMetaFunc, phase, scan, stack, known, sinks, masked, error>>

-----------------------------------------------------------------------------
(* Shape accessors.                                                        *)

Op(i)   == body[i].shape.op
Imm(i)  == body[i].shape.imm
Args(i) == body[i].args
Users(v) == {u \in Insts : v \in Args(u)}

(* isPtrInt: a ptrtoint or a bitcast of a pointer, of the ptrint type i64. *)
IsPtrInt(i) ==
  \/ Op(i) = "ptrtoint" /\ Imm(i) = WordBits
  \/ Op(i) = "bitcast" /\ Imm(i) = "p2i"

IsAnd(i) == Op(i) = "and"

(* The operand of `and` u other than v is a ConstantInt only when v is its *)
(* sole instruction operand and the shape carries a constant.              *)
AndConst(u, v) == Args(u) = {v} /\ Imm(u) # NoConst

andDefinitelyPreservesMetaPtr(u, v) == AndConst(u, v) /\ Imm(u) >= NotPtrMask
andDefinitelyZeroesMetaPtr(u, v)    == AndConst(u, v) /\ Imm(u) <= PTR_MASK

(* Callee classes: indirect (!F), intrinsic, a declaration (external),     *)
(* a metadata function that is only declared, one defined in the module,   *)
(* and any other function defined in the module.                           *)
Unanalysed == {"indirect", "intrinsic", "external", "meta_external"}
MetaFuncs  == {"meta_external", "meta_internal"}

TrivialSinkOps ==
  {"icmp", "sub", "add", "xor", "urem", "sdiv", "udiv", "gep", "lshr",
   "ashr", "shl", "or", "switch", "ret", "sitofp", "uitofp", "insertelement"}

isSinkOf(u, v) ==
  \/ Op(u) \in TrivialSinkOps
  \/ Op(u) = "call" /\ Imm(u) \in Unanalysed
  \/ IsAnd(u) /\ ~andDefinitelyPreservesMetaPtr(u, v)

(* Every bitcast user is a non-sink: to a pointer silently, to anything    *)
(* else with a warning; every call into a defined function likewise.       *)
isTrivialNonSinkOf(u, v) ==
  \/ Op(u) \in {"store", "inttoptr", "bitcast"}
  \/ Op(u) = "call" /\ Imm(u) \notin Unanalysed
  \/ IsAnd(u) /\ andDefinitelyZeroesMetaPtr(u, v)
  \/ Op(u) = "trunc" /\ Imm(u) <= PtrBits

IsRecursiveUse(u, v) ==
  \/ Op(u) \in {"phi", "select"}
  \/ IsAnd(u) /\ andDefinitelyPreservesMetaPtr(u, v)

(* Mutant: the non-sink test moved after the sink test.                  *)
ClassifySinkFirst(u, v) ==
  CASE IsRecursiveUse(u, v)     -> "recurse"
    [] isSinkOf(u, v)           -> "sink"
    [] isTrivialNonSinkOf(u, v) -> "nonsink"
    [] OTHER                    -> "error"

(* The if/else chain of collectSinks over one use, in its order.           *)
Classify(u, v) ==
  CASE IsRecursiveUse(u, v)     -> "recurse"
    [] isTrivialNonSinkOf(u, v) -> "nonsink"
    [] isSinkOf(u, v)           -> "sink"
    [] OTHER                    -> "error"

-----------------------------------------------------------------------------
(* Function bodies the front end can hand to the pass.  Only ptrints,      *)
(* phis, selects and ands can be traced, so only they are operands.        *)
(* SSA: an operand of a non-phi precedes it; a phi may merge any value,    *)
(* itself included (loop-carried).                                         *)

Traceable(s) ==
  \/ s.op = "ptrtoint" \/ s.op \in {"phi", "select", "and"}
  \/ s.op = "bitcast" /\ s.imm = "p2i"

IsSource(s) == s.op = "ptrtoint" \/ (s.op = "bitcast" /\ s.imm = "p2i")

Arity(s) ==
  IF s.op \in {"store", "inttoptr", "bitcast", "trunc", "ret", "sitofp",
               "uitofp", "switch"} THEN {1} ELSE {1, 2}

ArgChoices(n, s) ==
  LET built == {j \in 1 .. n - 1 : Traceable(body[j].shape)}
      pool  == IF s.op = "phi" THEN built \cup (n .. N) ELSE built
  IN  IF IsSource(s) THEN {{}}
      ELSE {a \in SUBSET pool : Cardinality(a) \in Arity(s)}

(* A phi may name a later instruction; that one must then be traceable.   *)
ForwardOk(n, s) ==
  Traceable(s) \/ \A j \in 1 .. n - 1 : n \notin body[j].args

-----------------------------------------------------------------------------
Init ==
  /\ body = <<>>
  /\ isMetaFunc \in BOOLEAN
  /\ phase = "build"
  /\ scan = 1
  /\ stack = <<>>
  /\ known = {}
  /\ sinks = [v \in Insts |-> {}]
  /\ masked = {}
  /\ error = NoError

(* The front end hands the pass one more instruction of the body.         *)
SupplyInst ==
  /\ phase = "build" /\ Len(body) < N
  /\ \E s \in ShapesFor(body) :
       /\ ForwardOk(Len(body) + 1, s)
       /\ \E a \in ArgChoices(Len(body) + 1, s) :
            body' = Append(body, [shape |-> s, args |-> a])
  /\ UNCHANGED <<isMetaFunc, phase, scan, stack, known, sinks, masked, error>>

(* runOnFunction: metadata functions and the lookup helper are skipped.    *)
SkipMetadataFunction ==
  /\ phase = "build" /\ Len(body) = N /\ isMetaFunc
  /\ phase' = "skipped"
  /\ UNCHANGED <<body, isMetaFunc, scan, stack, known, sinks, masked, error>>

BeginFunction ==
  /\ phase = "build" /\ Len(body) = N /\ ~isMetaFunc
  /\ phase' = "scan"
  /\ UNCHANGED <<body, isMetaFunc, scan, stack, known, sinks, masked, error>>

(* Mutant: the loop over the body without its end test.                  *)
ScanInstUnbounded ==
  /\ phase = "scan"
  /\ scan' = scan + 1
  /\ IF scan \in Insts /\ IsPtrInt(scan)
       THEN phase' = "collect" /\ stack' = <<scan>>
       ELSE UNCHANGED <<phase, stack>>
  /\ UNCHANGED <<body, isMetaFunc, known, sinks, masked, error>>

(* One iteration of the first loop: collectSinks on every ptrint.          *)
ScanInst ==
  /\ phase = "scan" /\ scan \in Insts
  /\ scan' = scan + 1
  /\ IF IsPtrInt(scan)
       THEN phase' = "collect" /\ stack' = <<scan>>
       ELSE UNCHANGED <<phase, stack>>
  /\ UNCHANGED <<body, isMetaFunc, known, sinks, masked, error>>

(* Mutant: the visited-set check dropped.                                 *)
AlreadyKnownNever(I) == FALSE

(* knownPtrInts.count(I) > 0: collectSinks(I) returns at once.             *)
AlreadyKnown(I) == I \in known

CollectKnown ==
  /\ phase = "collect" /\ stack # <<>>
  /\ AlreadyKnown(Head(stack))
  /\ stack' = Tail(stack)
  /\ UNCHANGED <<body, isMetaFunc, phase, scan, known, sinks, masked, error>>

(* The body of collectSinks(I): mark I known, classify each user; the      *)
(* first unclassifiable use in use-list order ends the compiler (exit(1)). *)
CollectAbort ==
  /\ phase = "collect" /\ stack # <<>>
  /\ ~AlreadyKnown(Head(stack))
  /\ LET I == Head(stack)
     IN  \E u \in Users(I) :
           /\ Classify(u, I) = "error"
           /\ phase' = "aborted"
           /\ error' = <<I, u>>
           /\ known' = known \cup {I}
  /\ UNCHANGED <<body, isMetaFunc, scan, stack, sinks, masked>>

(* Mutant: the sinks of I recorded but its recursive uses not followed.  *)
CollectFrameNoRecurse ==
  /\ phase = "collect" /\ stack # <<>>
  /\ ~AlreadyKnown(Head(stack))
  /\ LET I == Head(stack)
     IN  /\ \A u \in Users(I) : Classify(u, I) # "error"
         /\ known' = known \cup {I}
         /\ sinks' = [sinks EXCEPT ![I] = {u \in Users(I) : Classify(u, I) = "sink"}]
         /\ stack' = Tail(stack)
  /\ UNCHANGED <<body, isMetaFunc, phase, scan, masked, error>>

(* Otherwise record ISinks and recurse into the recursive uses, each one   *)
(* run to completion before the next (pushed in front, in order).          *)
CollectFrame ==
  /\ phase = "collect" /\ stack # <<>>
  /\ ~AlreadyKnown(Head(stack))
  /\ LET I == Head(stack)
         rec == {u \in Users(I) : Classify(u, I) = "recurse"}
     IN  /\ \A u \in Users(I) : Classify(u, I) # "error"
         /\ known' = known \cup {I}
         /\ sinks' = [sinks EXCEPT ![I] = {u \in Users(I) : Classify(u, I) = "sink"}]
         /\ \E order \in SetToSeqs(rec) :
              /\ Len(order) + Len(stack) <= StackBound
              /\ stack' = order \o Tail(stack)
  /\ UNCHANGED <<body, isMetaFunc, phase, scan, masked, error>>

CollectReturn ==
  /\ phase = "collect" /\ stack = <<>>
  /\ phase' = "scan"
  /\ UNCHANGED <<body, isMetaFunc, scan, stack, known, sinks, masked, error>>

(* Mutant: the first loop stops before the last instruction.             *)
ScanDoneEarly ==
  /\ phase = "scan" /\ scan >= N
  /\ phase' = "instrument"
  /\ UNCHANGED <<body, isMetaFunc, scan, stack, known, sinks, masked, error>>

ScanDone ==
  /\ phase = "scan" /\ scan \notin Insts
  /\ phase' = "instrument"
  /\ UNCHANGED <<body, isMetaFunc, scan, stack, known, sinks, masked, error>>

(* instrumentSinks: one mask after each ptrint with sinks, and every sink  *)
(* rewritten (replaceUsesOfWith) to read it.                               *)
instrumentSinks ==
  /\ phase = "instrument"
  /\ masked' = {<<v, u>> \in Insts \X Insts : u \in sinks[v]}
  /\ phase' = "done"
  /\ UNCHANGED <<body, isMetaFunc, scan, stack, known, sinks, error>>

Next ==
  \/ SupplyInst
  \/ SkipMetadataFunction \/ BeginFunction
  \/ ScanInst \/ ScanDone
  \/ CollectKnown \/ CollectAbort \/ CollectFrame \/ CollectReturn
  \/ instrumentSinks

(* The pass is straight-line compiler code: it keeps running.              *)
Spec == Init /\ [][Next]_vars /\ WF_vars(Next)

-----------------------------------------------------------------------------
(* Properties.                                                             *)

TypeOK ==
  /\ phase \in {"build", "skipped", "scan", "collect", "instrument", "done", "aborted"}
  /\ isMetaFunc \in BOOLEAN
  /\ Len(body) <= N
  /\ scan \in 1 .. N + 1
  /\ stack \in Seq(Insts)
  /\ known \subseteq Insts
  /\ sinks \in [Insts -> SUBSET Insts]
  /\ masked \subseteq Insts \X Insts
  /\ error \in (Insts \X Insts) \cup {NoError}

Finished == phase \in {"done", "aborted", "skipped"}

(* Reference definition of the values that carry a tag: every ptrint and  *)
(* everything reached from one through a recursive use (least fixpoint).  *)
RECURSIVE Closure(_)
Closure(S) ==
  LET S2 == S \cup {u \in Insts : \E v \in S : v \in Args(u) /\ IsRecursiveUse(u, v)}
  IN  IF S2 = S THEN S ELSE Closure(S2)

TaggedRef == Closure({i \in Insts : IsPtrInt(i)})

(* The spec's classification table (spec 4.3), written from the tag bits  *)
(* of the mask rather than from the code's comparisons.                    *)
TagBits(m) == m \div 2^PtrBits
AllTagBits == 2^(WordBits - PtrBits) - 1

SpecRecurse(u, v) ==
  \/ Op(u) \in {"phi", "select"}
  \/ Op(u) = "and" /\ Args(u) = {v} /\ Imm(u) # NoConst /\ TagBits(Imm(u)) = AllTagBits

SpecNonSink(u, v) ==
  \/ Op(u) \in {"store", "inttoptr"}
  \/ Op(u) = "bitcast" /\ Imm(u) = "i2p"
  \/ Op(u) = "and" /\ Args(u) = {v} /\ Imm(u) # NoConst /\ TagBits(Imm(u)) = 0
  \/ Op(u) = "trunc" /\ Imm(u) <= PtrBits
  \/ Op(u) = "call" /\ Imm(u) \in MetaFuncs

SpecSink(u, v) == ~SpecRecurse(u, v) /\ ~SpecNonSink(u, v)

RECURSIVE SpecClosure(_)
SpecClosure(S) ==
  LET S2 == S \cup {u \in Insts : \E v \in S : v \in Args(u) /\ SpecRecurse(u, v)}
  IN  IF S2 = S THEN S ELSE SpecClosure(S2)

SpecTagged == SpecClosure({i \in Insts : IsPtrInt(i)})

(* Soundness of the whole pass over a function it instruments: every use  *)
(* that the spec calls a sink, of any value that carries a tag (directly  *)
(* or through chains of phis, selects and tag-preserving masks, cycles    *)
(* included), reads the masked value once instrumentSinks has run.        *)
SpecSinksMasked ==
  phase = "done" =>
    \A v \in SpecTagged : \A u \in Users(v) :
      SpecSink(u, v) => <<v, u>> \in masked

(* Consumers that tolerate or rely on the tag (stores, casts back to a    *)
(* pointer, tag-clearing masks, narrowing truncs, metadata calls, merges) *)
(* keep reading the original value: the pass masks nothing else.          *)
TolerantUsesUnmasked ==
  phase = "done" =>
    \A e \in masked : ~SpecNonSink(e[2], e[1]) /\ ~SpecRecurse(e[2], e[1])

(* The pass follows the spec's sink table in both directions: every use  *)
(* the table makes a sink of a tagged value is masked, and no use it      *)
(* makes a non-sink (a metadata-function call among them) is.             *)
SinkTableFollowed == SpecSinksMasked /\ TolerantUsesUnmasked

(* The depth-first search with a shared knownPtrInts set, over every      *)
(* use-list order, computes the order-independent reference: a completed  *)
(* pass has recorded exactly the sink uses of every tagged value and met  *)
(* no unclassifiable use; an aborted one names a tagged value and a use   *)
(* that really is unclassifiable.                                         *)
SinkListMatchesClosure ==
  /\ phase = "done" =>
       /\ \A v \in Insts :
            sinks[v] = IF v \in TaggedRef
                       THEN {u \in Users(v) : Classify(u, v) = "sink"} ELSE {}
       /\ \A v \in TaggedRef : \A u \in Users(v) : Classify(u, v) # "error"
  /\ phase = "aborted" =>
       error[1] \in TaggedRef /\ Classify(error[2], error[1]) = "error"

(* The traversal terminates on every body, loop-carried phi cycles        *)
(* included: runOnFunction always finishes or aborts.                     *)
Termination == <>Finished

=============================================================================
