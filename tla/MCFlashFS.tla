------------------------------ MODULE MCFlashFS ------------------------------
(***************************************************************************)
(* FlashFS on small flash.                                                 *)
(***************************************************************************)
EXTENDS FlashFS, TLC

Symmetry == Permutations(Names)

(* Two states that differ only in an area no mount would pick, and that is *)
(* not being laid out, have the same future: the area is erased before it  *)
(* is programmed again.                                                    *)
Scrap(a) == (super[a] = 0 \/ a # NewestArea) /\ ~(pc \in {"copy", "super"} /\ a # area)
FutureView ==
  <<super, [a \in Areas |-> IF Scrap(a) THEN <<>> ELSE <<log[a], data[a]>>],
    area, gen, dir, logUsed, dataEnd, stream, pc, op, left, cur, nrec, fails, allowed>>
=============================================================================
