---------------------------- MODULE MC_CacheHash ----------------------------
(***************************************************************************)
(* One source file, whose content a makes it include one header.  The .d   *)
(* file of the compiler names the source itself first.                     *)
(***************************************************************************)
EXTENDS CacheHash, TLC

CONSTANTS p1, p2, src, hdr, a, b

Symmetry == Permutations({p1, p2})

MCInputs == <<src>>
MCImports(c) == IF c[1] = a THEN <<src, hdr>> ELSE <<src>>
=============================================================================
