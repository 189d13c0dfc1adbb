---------------------------- MODULE MC_FatPointer ----------------------------
(* Model values and call graphs for FatPointer: eight pages of 8 bytes    *)
(* below 2^PTR_BITS; pages 2 and 3 are a heap span installed with         *)
(* alignment 2 and 2-byte records at 40 .. 47.                            *)
EXTENDS FatPointer

MC_PageTable == [p \in 0 .. 7 |-> CASE p = 2 -> 40 * 256 + 2
                                  []  p = 3 -> 44 * 256 + 2
                                  []  OTHER -> 0]

MC_Objects == {[base |-> 16, size |-> 4], [base |-> 20, size |-> 8],
               [base |-> 24, size |-> 8], [base |-> 16, size |-> 8]}

Wrappers == Funcs \ {Main}

(* The path from Main along a candidate call graph.                      *)
RECURSIVE PathFrom(_, _, _)
PathFrom(callee, f, n) ==
  IF n = 0 \/ f = Libc THEN <<f>> ELSE <<f>> \o PathFrom(callee, callee[f], n - 1)

AllPrograms ==
  {p \in [callee : [Funcs -> Wrappers \cup {Libc}],
          table  : SUBSET Wrappers,
          setenv : SUBSET Wrappers] :
     /\ Cardinality(p.setenv) <= 1
     /\ p.table \cap p.setenv = {}
     /\ LET c == PathFrom(p.callee, Main, Cardinality(Funcs))
        IN  c[Len(c)] = Libc /\ Len(c) = Cardinality({c[i] : i \in 1 .. Len(c)})}

(* Spec 4.5: allocation calls inside an allocator's own implementation   *)
(* are not tracked.  The call graphs checked are those whose allocators   *)
(* are implemented by allocation only: a function in an allocator table   *)
(* calls the C allocator or another allocator.                            *)
AllocatorClosedPrograms ==
  {p \in AllPrograms : \A f \in p.table : p.callee[f] \in p.table \cup {Libc}}
=============================================================================
