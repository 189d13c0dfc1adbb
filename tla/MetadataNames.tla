--------------------------- MODULE MetadataNames ---------------------------
(***************************************************************************)
(* The names that connect the passes to the static library.               *)
(*                                                                         *)
(* DummyPass::doInitialization declares the runtime functions it calls,   *)
(* choosing each name from the record width and addressing mode the       *)
(* passes are built for.  The static library (metaget.c, metacheck.c)     *)
(* defines one instance of each lookup and check per width it             *)
(* instantiates.  METADATAFUNCS of metadata.h lists the functions the      *)
(* passes leave alone, and CustomInliner always inlines exactly those      *)
(* (and the helpers lookup_metaptr and checkptr).                          *)
(*                                                                         *)
(* A name "family_size" (META_FUNCTION_NAME, or "family_" +                *)
(* std::to_string(size) in the passes) is the record Fn(family, size);     *)
(* size 0 stands for a name without a width suffix.  No family name ends  *)
(* in a digit, so two names are equal exactly when their records are.     *)
(***************************************************************************)
EXTENDS Integers

CONSTANTS
  MetadataBytes,      \* width of a record (cl::opt of the passes)
  DeepMetadata,       \* records are reached through one more pointer
  DeepMetadataBytes,  \* width of a deep record
  FixedCompression    \* fixed-compression addressing instead of the page table

Fn(family, size) == [family |-> family, size |-> size]
Family(family, sizes) == {Fn(family, n) : n \in sizes}

Widths == {1, 2, 4, 8, 16}

-----------------------------------------------------------------------------
(* metadata.h: the table and the lookup in it.  ISMETADATAFUNC walks both *)
(* strings and also requires them to end together: string equality.      *)
METADATAFUNCS ==
  Family("metaset", Widths) \cup Family("metaset_alignment", Widths)
  \cup Family("metaset_alignment_safe", Widths) \cup Family("metaset_fast", Widths)
  \cup Family("metaset_fixed", Widths) \cup {Fn("metabaseget", 0)}
  \cup Family("metaget", Widths) \cup Family("metaget_deep", {8, 16, 32})
  \cup Family("metaget_fixed", {1, 2, 4, 8}) \cup Family("metaget_base", Widths)
  \cup Family("metaget_base_deep", {8, 16, 32}) \cup Family("metacheck", Widths)
  \cup {Fn(g, 0) : g \in {"initialize_global_metadata", "initialize_metadata",
                          "unsafe_stack_alloc_meta", "unsafe_stack_free_meta",
                          "meta_report_stats"}}

ISMETADATAFUNC(f) == f \in METADATAFUNCS

-----------------------------------------------------------------------------
(* The static library: the instances the CREATE_ macros are expanded for. *)
DefinedMetaget         == Family("metaget", Widths)              \* 1 .. 16
DefinedMetagetDeep     == Family("metaget_deep", {8})            \* 16, 32 commented out
DefinedMetagetFixed    == Family("metaget_fixed", {1, 2, 4, 8})
DefinedMetagetBase     == Family("metaget_base", {1, 2, 4, 8})   \* 16 commented out
DefinedMetagetBaseDeep == Family("metaget_base_deep", {8})
DefinedMetacheck       == Family("metacheck", {1, 2, 4, 8})

RuntimeDefines ==
  {Fn("metabaseget", 0)} \cup DefinedMetaget \cup DefinedMetagetDeep \cup DefinedMetagetFixed
  \cup DefinedMetagetBase \cup DefinedMetagetBaseDeep \cup DefinedMetacheck

-----------------------------------------------------------------------------
(* CustomInliner::getInlineCost for a direct call of f.                   *)
getInlineCost(f) ==
  IF ISMETADATAFUNC(f) \/ f \in {Fn("lookup_metaptr", 0), Fn("checkptr", 0)}
  THEN "always" ELSE "never"

-----------------------------------------------------------------------------
(* DummyPass::doInitialization: the functions it declares.                *)
MetagetFuncName ==
  CASE DeepMetadata     -> Fn("metaget_deep", DeepMetadataBytes)
    [] FixedCompression -> Fn("metaget_fixed", MetadataBytes)
    [] OTHER            -> Fn("metaget", MetadataBytes)

MetagetWithBaseFuncName ==
  IF DeepMetadata THEN Fn("metaget_base_deep", DeepMetadataBytes)
  ELSE Fn("metaget_base", MetadataBytes)

(* Mutant: the width in bits, as IntMetaTy is built, instead of bytes.    *)
MetacheckBitsName == Fn("metacheck", 8 * (IF DeepMetadata THEN DeepMetadataBytes ELSE MetadataBytes))

MetacheckFuncName == Fn("metacheck", IF DeepMetadata THEN DeepMetadataBytes ELSE MetadataBytes)

MetasetFuncName ==
  IF FixedCompression THEN Fn("metaset_fixed", MetadataBytes)
  ELSE Fn("metaset_alignment", MetadataBytes)

doInitialization ==
  [metabaseget |-> Fn("metabaseget", 0), metaget |-> MetagetFuncName,
   metagetBase |-> MetagetWithBaseFuncName, metacheck |-> MetacheckFuncName,
   metaset |-> MetasetFuncName]
=============================================================================
