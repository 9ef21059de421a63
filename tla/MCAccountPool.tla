--------------------------- MODULE MCAccountPool ---------------------------
(***************************************************************************)
(* The instances of AccountPool that TLC checks.  Credentials 1 and 2      *)
(* belong to the same user of region d; credential 3 is opaque and belongs *)
(* to region g.                                                            *)
(***************************************************************************)
EXTENDS AccountPool, TLC

CONSTANTS p1, p2, u1, d, g

MCSites == {d, g}
MCUserOf == <<u1, u1, NoUser>>
MCSiteOf == <<d, d, g>>

(* One credential, for what depends on the interleaving only. *)
OneCred == {1}
OneSite == <<d>>
AllCreds == {1, 2, 3}

MCSymmetry == Permutations(Callers)
=============================================================================
