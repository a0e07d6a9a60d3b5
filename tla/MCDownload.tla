----------------------------- MODULE MCDownload -----------------------------
(* Download on small instances; the bounds are in the cfg files. *)
EXTENDS Download, TLC

\* Roots are only compared for equality: safety runs may permute them.
RootSymmetry == Permutations(Roots)
=============================================================================
