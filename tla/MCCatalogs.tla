----------------------------- MODULE MCCatalogs -----------------------------
(* An instance of Catalogs for TLC: an adapter that declares both sources. *)
EXTENDS Catalogs, TLC

BothSources == <<"catalog_args", "models_path">>
ThreadSymmetry == Permutations(Thread)
=============================================================================
