---------------------------- MODULE MCCloudService ----------------------------
(***************************************************************************)
(* Two requests at a deployed broker, the first of an administrator; two   *)
(* users with a key each.                                                  *)
(***************************************************************************)
EXTENDS CloudService, TLC

CONSTANTS c1, c2, root, ada, k0, k1

UserOf == (k0 :> root) @@ (k1 :> ada)

Symmetry == Permutations(Oid)
=============================================================================
