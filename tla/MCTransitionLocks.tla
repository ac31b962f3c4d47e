------------------------- MODULE MCTransitionLocks -------------------------
(***************************************************************************)
(* Instances of TransitionLocks for TLC: adapters a and b, a group g of    *)
(* capacity 2 over both and a group h of capacity 1 of adapter b.  The     *)
(* key sets are those of a model of a, a model of b, and of unload(None).  *)
(***************************************************************************)
EXTENDS TransitionLocks, TLC

MCKey == {"adapter:a", "adapter:b", "group:g", "group:h"}

MCKeySets == {{"adapter:a", "group:g"},
              {"adapter:b", "group:g", "group:h"},
              MCKey}

MCSlots == ("adapter:a" :> 1) @@ ("adapter:b" :> 1)
             @@ ("group:g" :> 2) @@ ("group:h" :> 1)

MCRank == ("adapter:a" :> 0) @@ ("adapter:b" :> 1)
            @@ ("group:g" :> 2) @@ ("group:h" :> 3)
=============================================================================
