--------------------------- MODULE MC_Instrumentor ---------------------------
(***************************************************************************)
(* Instruction shapes for checking Instrumentor.  The callees are         *)
(* ext (a declared libc function), life (llvm.lifetime.start), defn (a    *)
(* defined function), wrap (a defined printf wrapper of the ExtWrap list)  *)
(* and hook (the declared std::list hook, whose argument 1 is masked       *)
(* field by field).                                                       *)
(***************************************************************************)
EXTENDS Instrumentor

MC_Info ==
  [f \in Callees |->
     CASE f = "ext"  -> [declared |-> TRUE,  name |-> "plain",     nestedArgs |-> {}]
       [] f = "life" -> [declared |-> TRUE,  name |-> "llvm_skip", nestedArgs |-> {}]
       [] f = "defn" -> [declared |-> FALSE, name |-> "plain",     nestedArgs |-> {}]
       [] f = "wrap" -> [declared |-> FALSE, name |-> "extwrap",   nestedArgs |-> {}]
       [] f = "hook" -> [declared |-> TRUE,  name |-> "nested",    nestedArgs |-> {1}]]

PtrTy == [k |-> "ptr"]
IntTy == [k |-> "int"]
Node  == [k |-> "agg", el |-> <<IntTy, PtrTy>>]                     \* { long; void* }
Outer == [k |-> "agg", el |-> <<PtrTy, [k |-> "agg", el |-> <<PtrTy, PtrTy>>]>>]

IntArg   == [ptr |-> FALSE, byval |-> FALSE, pointee |-> IntTy]
PtrArgOf(t) == [ptr |-> TRUE, byval |-> FALSE, pointee |-> t]
ByvalArg == [ptr |-> TRUE, byval |-> TRUE, pointee |-> Node]

ArgSeqs == {<<PtrArgOf(IntTy)>>, <<ByvalArg>>, <<IntArg, PtrArgOf(IntTy)>>, <<PtrArgOf(IntTy), ByvalArg>>}
HookArgs == {<<PtrArgOf(IntTy), PtrArgOf(t)>> : t \in {Node, Outer}}

\* llvm.lifetime.start(i64 size, i8* ptr)
LifetimeArgs == {<<IntArg, PtrArgOf(IntTy)>>}

Calls(Targets) ==
  {[op |-> "call", target |-> t, args |-> a] : t \in Targets \ {"hook", "life"}, a \in ArgSeqs}
  \cup (IF "life" \in Targets THEN {[op |-> "call", target |-> "life", args |-> a] : a \in LifetimeArgs}
        ELSE {})
  \cup (IF "hook" \in Targets THEN {[op |-> "call", target |-> "hook", args |-> a] : a \in HookArgs}
        ELSE {})

Mems(Vals) ==
  {[op |-> "load"]} \cup [op : {"store"}, val : Vals, dst : {"local", "extern"}]

Others(SubOps) ==
  [op : {"icmp"}, ptrs : BOOLEAN] \cup [op : {"sub"}, a : SubOps, b : SubOps]

\* The shapes of the passing runs: direct calls, pointer stores to
\* externs, subtractions of ptrtoints or plain integers.
Shapes == Calls(Callees) \cup Mems({"ptr"}) \cup Others({"ptrtoint", "int"})

\* With indirect calls and inline asm.
ShapesUnanalyzed == Calls(Callees \cup {"indirect", "asm"}) \cup Mems({"ptr"}) \cup Others({"ptrtoint"})

\* With integer stores to extern globals.
ShapesExternInt == Calls({"ext"}) \cup Mems({"ptr", "i64", "i32"}) \cup Others({"ptrtoint"})


BodiesOf(S) == UNION {[1 .. n -> S] : n \in 1 .. N}

MC_Bodies == BodiesOf(Shapes)
MC_BodiesUnanalyzed == BodiesOf(ShapesUnanalyzed)
MC_BodiesExternInt == BodiesOf(ShapesExternInt)

\* Every shape the code treats otherwise than spec 4.4: indirect calls,
\* inline asm, integer stores to extern globals, and subtractions whose
\* operand is a phi of ptrtoints.
MC_BodiesDivergent ==
  BodiesOf(ShapesUnanalyzed \cup ShapesExternInt \cup Others({"ptrtoint", "phi"}))

(* DummyPass bodies of up to three instructions: instruction p reads      *)
(* instructions before it, a phi also the ones after it (a loop).  A      *)
(* store to an extern global is one to "local" for this pass (only the    *)
(* __metaptr_ prefix counts) and a ptrtoint stored is one to "i32".       *)
InsOp(k) == [cls |-> "ins", ref |-> k]
ConstOp(c) == [cls |-> c, ref |-> 0]

DummyShapes(p, n) ==
  {[op |-> "errno"]}
  \cup [op : {"cast"}, src : 1 .. p - 1, ty : {"ptr"}]
  \cup [op : {"phi"}, srcs : {S \in SUBSET (1 .. n) : S # {} /\ p \notin S}, ty : {"ptr"}]
  \cup [op : {"gep"}, src : 1 .. p - 1]
  \cup [op : {"load"}, src : 1 .. p - 1, ty : {"ptr", "int"}]
  \cup [op : {"store"},
        val : {ConstOp("ptr"), ConstOp("i32")} \cup {InsOp(k) : k \in 1 .. p - 1},
        dst : {ConstOp("local"), ConstOp("metaptr")} \cup {InsOp(k) : k \in 1 .. p - 1}]

DummyBodiesOf(n) == {b \in [1 .. n -> UNION {DummyShapes(p, n) : p \in 1 .. n}] :
                       \A p \in 1 .. n : b[p] \in DummyShapes(p, n)}

MC_DummyBodies == UNION {DummyBodiesOf(n) : n \in 1 .. 3}
=============================================================================
