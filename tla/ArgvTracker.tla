---------------------------- MODULE ArgvTracker ----------------------------
(***************************************************************************)
(* Argument and environment preservation: the ArgvTracker pass            *)
(* (llvm-plugins/ArgvTracker.cpp) and the argvcopy runtime it calls        *)
(* (staticlib/argvcopy.c).                                                 *)
(*                                                                         *)
(* The pass rewrites main so that, before anything else, it passes the     *)
(* addresses of two locals holding argv and envp to argvcopy, which        *)
(* replaces the arrays (and environ) by heap copies; every use of argv and *)
(* envp in main then reads the local.  The arrays the kernel leaves on the *)
(* initial stack are thereby no longer reachable from the program.        *)
(*                                                                         *)
(* The pass is one step (runOnFunction is straight-line code); main's     *)
(* prologue then runs one inserted instruction per step.  Strings are      *)
(* records [id, loc]: loc "stack" for the kernel's, "heap" for strdup's;   *)
(* Null ends an array and Junk is whatever malloc left in a cell.          *)
(***************************************************************************)
EXTENDS Integers, Sequences, TLC

CONSTANTS
  MaxArgc,   \* bound on argc
  MaxEnv     \* bound on the number of environment strings

Null == [id |-> 0, loc |-> "null"]
Junk == [id |-> 0, loc |-> "junk"]
Str(k, where) == [id |-> k, loc |-> where]

(* The kernel's arrays: n strings on the stack and the null pointer.      *)
StackArray(n) == [k \in 1 .. n + 1 |-> IF k <= n THEN Str(k, "stack") ELSE Null]

ArrayIds == {"argv0", "env0", "heap1", "heap2"}

VARIABLES
  nparams,   \* the parameters main is declared with (argc, argv, envp)
  argc,      \* the number of arguments
  nenv,      \* the number of environment strings
  pc,        \* "pass", "run", "main", "exit" or "abort"
  prologue,  \* the instructions the pass inserts at the top of main
  reads,     \* reads[s]: where main's uses of parameter s read it from
  ip,        \* the prologue instruction main executes next
  slot,      \* the allocas: slot[s] is an array id, "undef" or "null"
  loaded,    \* loaded[s]: the value the load of slot s produced
  arrays,    \* memory: arrays[a] = [loc, cells]
  environ,   \* the environ global
  heapNext   \* the next heap array strarrcopy allocates

vars == <<nparams, argc, nenv, pc, prologue, reads, ip, slot, loaded, arrays, environ, heapNext>>

Slots == {"argv", "envp"}

(* The parameter of main each slot stands for.                            *)
HasParam(s) == IF s = "argv" THEN nparams >= 2 ELSE nparams = 3
ParamValue(s) == IF s = "argv" THEN "argv0" ELSE "env0"

-----------------------------------------------------------------------------
(* ArgvTracker::runOnFunction on main.  The allocas and the call are      *)
(* built before the first instruction; each load is built after the call  *)
(* and each store before it; RAUW has moved main's uses of argv (envp) to  *)
(* the load before the store of the original parameter is created.        *)
Alloca(s) == IF HasParam(s) THEN <<[op |-> "alloca", slot |-> s]>> ELSE <<>>
StoreParam(s) == IF HasParam(s) THEN <<[op |-> "store", slot |-> s]>> ELSE <<>>
LoadSlot(s) == IF HasParam(s) THEN <<[op |-> "load", slot |-> s]>> ELSE <<>>

MainPrologue ==
  Alloca("argv") \o Alloca("envp") \o StoreParam("argv") \o StoreParam("envp")
  \o <<[op |-> "call", argvptr |-> HasParam("argv"), envpptr |-> HasParam("envp")]>>
  \o LoadSlot("argv") \o LoadSlot("envp")

runOnFunction ==
  /\ pc = "pass"
  /\ prologue' = MainPrologue
  /\ reads' = [s \in Slots |-> IF HasParam(s) THEN "load" ELSE "param"]
  /\ pc' = "run"
  /\ UNCHANGED <<nparams, argc, nenv, ip, slot, loaded, arrays, environ, heapNext>>

-----------------------------------------------------------------------------
(* strarrcopy: count the strings up to the null pointer, malloc count + 1 *)
(* cells and strdup each string into them; the last cell is never         *)
(* written, so it holds whatever the allocator left there (t).            *)
(* Mutant: the count runs onto the null pointer.                          *)
CountPastNull(cells) == Len(cells)

Count(cells) == CHOOSE n \in 0 .. Len(cells) - 1 :
                  cells[n + 1] = Null /\ \A k \in 1 .. n : cells[k] # Null

(* Mutant: the pointers copied instead of the strings.                    *)
CopyCellsShallow(cells, t) ==
  [k \in 1 .. Count(cells) + 1 |-> IF k <= Count(cells) THEN cells[k] ELSE t]

CopyCells(cells, t) ==
  [k \in 1 .. Count(cells) + 1 |-> IF k <= Count(cells) THEN Str(cells[k].id, "heap") ELSE t]

(* The value argvcopy leaves in *envpptr.                                  *)
EnvpAfter(envpptr, newEnv) == IF envpptr THEN newEnv ELSE slot["envp"]

(* argvcopy(argvptr, envpptr): copy *argvptr, check that *envpptr is      *)
(* environ, copy environ and point *envpptr at the copy.  A failing       *)
(* malloc or strdup ends the process with exit(-1).                       *)
argvcopy(I) ==
  LET argvId == "heap" \o ToString(heapNext)
      envId  == "heap" \o ToString(heapNext + IF I.argvptr THEN 1 ELSE 0)
  IN  \/ /\ \E ta, te \in {Null, Junk} :
              LET argvArr == [loc |-> "heap", cells |-> CopyCells(arrays[slot["argv"]].cells, ta)]
                  envArr  == [loc |-> "heap", cells |-> CopyCells(arrays[environ].cells, te)]
              IN  IF I.envpptr /\ slot["envp"] # "null" /\ environ # slot["envp"]
                  THEN pc' = "abort" /\ UNCHANGED <<arrays, environ, slot, heapNext>>
                  ELSE /\ arrays' = [a \in ArrayIds |->
                                       CASE I.argvptr /\ a = argvId -> argvArr
                                         [] a = envId -> envArr
                                         [] OTHER -> arrays[a]]
                       /\ environ' = envId
                       /\ slot' = [slot EXCEPT !["argv"] = IF I.argvptr THEN argvId ELSE @,
                                               !["envp"] = EnvpAfter(I.envpptr, envId)]
                       /\ heapNext' = heapNext + (IF I.argvptr THEN 2 ELSE 1)
                       /\ UNCHANGED pc
         /\ ip' = ip + 1
      \/ /\ pc' = "exit"
         /\ UNCHANGED <<ip, slot, arrays, environ, heapNext>>

-----------------------------------------------------------------------------
(* main's prologue, one inserted instruction per step.                    *)
ExecInst ==
  /\ pc = "run"
  /\ ip <= Len(prologue)
  /\ LET I == prologue[ip] IN
       \/ /\ I.op = "alloca"
          /\ slot' = [slot EXCEPT ![I.slot] = "undef"]
          /\ ip' = ip + 1
          /\ UNCHANGED <<pc, loaded, arrays, environ, heapNext>>
       \/ /\ I.op = "store"
          /\ slot' = [slot EXCEPT ![I.slot] = ParamValue(I.slot)]
          /\ ip' = ip + 1
          /\ UNCHANGED <<pc, loaded, arrays, environ, heapNext>>
       \/ /\ I.op = "call"
          /\ argvcopy(I)
          /\ UNCHANGED loaded
       \/ /\ I.op = "load"
          /\ loaded' = [loaded EXCEPT ![I.slot] = slot[I.slot]]
          /\ ip' = ip + 1
          /\ UNCHANGED <<pc, slot, arrays, environ, heapNext>>
  /\ UNCHANGED <<nparams, argc, nenv, prologue, reads>>

(* The prologue is done and main's own code starts.                       *)
MainBody ==
  /\ pc = "run"
  /\ ip > Len(prologue)
  /\ pc' = "main"
  /\ UNCHANGED <<nparams, argc, nenv, prologue, reads, ip, slot, loaded, arrays, environ, heapNext>>

(* main runs, or the process has ended in exit(-1) or a failed assert.    *)
Terminated ==
  /\ pc \in {"main", "exit", "abort"}
  /\ UNCHANGED vars

Init ==
  /\ nparams \in 0 .. 3
  /\ argc \in 0 .. MaxArgc
  /\ nenv \in 0 .. MaxEnv
  /\ pc = "pass"
  /\ prologue = <<>>
  /\ reads = [s \in Slots |-> "param"]
  /\ ip = 1
  /\ slot = [s \in Slots |-> "none"]
  /\ loaded = [s \in Slots |-> "none"]
  /\ arrays = [a \in ArrayIds |->
                 CASE a = "argv0" -> [loc |-> "stack", cells |-> StackArray(argc)]
                   [] a = "env0"  -> [loc |-> "stack", cells |-> StackArray(nenv)]
                   [] OTHER       -> [loc |-> "free", cells |-> <<>>]]
  /\ environ = "env0"
  /\ heapNext = 1

Next == runOnFunction \/ ExecInst \/ MainBody \/ Terminated

Spec == Init /\ [][Next]_vars

-----------------------------------------------------------------------------
Cells == {Null, Junk} \cup {Str(k, w) : k \in 1 .. (IF MaxArgc > MaxEnv THEN MaxArgc ELSE MaxEnv), w \in {"stack", "heap"}}

TypeOK ==
  /\ nparams \in 0 .. 3
  /\ pc \in {"pass", "run", "main", "exit", "abort"}
  /\ reads \in [Slots -> {"param", "load"}]
  /\ slot \in [Slots -> ArrayIds \cup {"none", "undef"}]
  /\ loaded \in [Slots -> ArrayIds \cup {"none", "undef"}]
  /\ \A a \in ArrayIds : arrays[a].loc \in {"stack", "heap", "free"}
                         /\ arrays[a].cells \in Seq(Cells)
  /\ environ \in ArrayIds
  /\ heapNext \in 1 .. 3

(* The array main's uses of argv (envp) evaluate to once it runs.          *)
MainArgv == IF reads["argv"] = "load" THEN loaded["argv"] ELSE "argv0"
MainEnvp == IF reads["envp"] = "load" THEN loaded["envp"] ELSE "env0"

(* Array a is a heap array holding heap copies of the n original strings. *)
HeapCopy(a, n) ==
  /\ a \in ArrayIds
  /\ arrays[a].loc = "heap"
  /\ Len(arrays[a].cells) = n + 1
  /\ \A k \in 1 .. n : arrays[a].cells[k] = Str(k, "heap")

(* Once main's own code runs, everything it reaches through argv, envp    *)
(* and environ is a heap copy of the kernel's strings, and envp is        *)
(* environ: the pass's store of each parameter before the call and its    *)
(* redirection of main's uses to the load after it, together with         *)
(* strarrcopy and the assignments in argvcopy, leave no path to the       *)
(* initial stack.                                                          *)
MainSeesHeapCopies ==
  pc = "main" =>
    /\ nparams >= 2 => HeapCopy(MainArgv, argc)
    /\ nparams = 3 => MainEnvp = environ
    /\ HeapCopy(environ, nenv)

(* Once main runs, argv[argc] is the null pointer and so is the entry     *)
(* after the last environment string (C11 5.1.2.2.1; getenv and every     *)
(* loop over argv stop there).                                             *)
ArraysNullTerminated ==
  pc = "main" =>
    /\ nparams >= 2 => arrays[MainArgv].cells[argc + 1] = Null
    /\ arrays[environ].cells[nenv + 1] = Null
====
