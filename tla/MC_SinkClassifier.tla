------------------------- MODULE MC_SinkClassifier -------------------------
(* Model-checking instance of SinkClassifier: a 64-bit word scaled to 8   *)
(* bits with PTR_BITS = 4, so PTR_MASK = 0x0F and ~PTR_MASK = 0xF0.       *)
EXTENDS SinkClassifier

S(o, i) == [op |-> o, imm |-> i]

Source    == {S("ptrtoint", WordBits)}
BitSource == {S("bitcast", "p2i")}
Merges    == {S("phi", "-"), S("select", "-"), S("and", 240)}
Clearing  == {S("and", 15)}
Mixed     == {S("and", 60), S("and", NoConst)}
Tolerant  == {S("store", "-"), S("inttoptr", "-"), S("bitcast", "i2p"),
              S("trunc", PtrBits), S("call", "meta_internal")}
SinkOps   == {S("icmp", "-"), S("sub", "-"), S("ret", "-"),
              S("call", "external"), S("call", "indirect")}
Failing   == {S("mul", "-"), S("trunc", PtrBits + 1)}

(* Traversal run: merges, cycles and sharing over four instructions.      *)
TraversalShapes == Source \cup Merges \cup Clearing \cup {S("store", "-"), S("icmp", "-")}

(* Classification run: every shape the classifier distinguishes.          *)
ClassShapes == Source \cup BitSource \cup Merges \cup Clearing \cup Mixed
               \cup Tolerant \cup SinkOps \cup Failing

(* The two non-sinks of the code the spec's table does not list: a call  *)
(* of a defined function, a bitcast to a non-pointer type.                *)
UnlistedNonSinkShapes == Source \cup {S("phi", "-"), S("call", "internal"), S("bitcast", "i2v")}
MetaExternalShapes == Source \cup {S("phi", "-"), S("call", "meta_external")}

(* Bodies of the passing run: every three-instruction prefix over every   *)
(* class; the fourth instruction continues a traversal prefix with any     *)
(* traversal shape and any other prefix with a fresh ptrint.               *)
ChecksFor(b) ==
  IF Len(b) < 3 THEN ClassShapes
  ELSE IF \A k \in 1 .. Len(b) : b[k].shape \in TraversalShapes THEN TraversalShapes
  ELSE Source


(* Bodies over every shape on which the code and the table disagree.      *)
UnlistedShapesFor(b) == UnlistedNonSinkShapes \cup MetaExternalShapes
=============================================================================
