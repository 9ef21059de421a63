---------------------------- MODULE MCModelList ----------------------------
(***************************************************************************)
(* The instance of ModelList that TLC checks: credentials 1 and 2 are      *)
(* accounts of region d, 3 is an account of region g.                      *)
(***************************************************************************)
EXTENDS ModelList

CONSTANTS r1, r2, u1, u2, d, g

MCSites == {d, g}
MCUserOf == <<u1, u2, NoUser>>
MCSiteOf == <<d, d, g>>
MCCreds == {1, 2, 3}
MCStore == Upsert(Upsert(EmptyStore, 1), 3)
=============================================================================
