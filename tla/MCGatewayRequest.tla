-------------------------- MODULE MCGatewayRequest --------------------------
(***************************************************************************)
(* The instances of GatewayRequest that TLC checks.  Credentials 1 and 2   *)
(* are tokens of one user of region d and can be refreshed into each       *)
(* other; 3 is another user's token of region d without a refresh token;   *)
(* 4 is an opaque credential of region g.                                  *)
(***************************************************************************)
EXTENDS GatewayRequest, TLC

CONSTANTS r1, r2, u1, u2, d, g

MCSites == {d, g}
MCUserOf == <<u1, u1, u2, NoUser>>
MCSiteOf == <<d, d, d, g>>
MCCreds == {1, 2, 3, 4}
MCRefreshable == {1, 2}

(* Three accounts were logged in: 1 and 3 of region d, 4 of region g. *)
MCStore == Upsert(Upsert(Upsert(EmptyStore, 1), 3), 4)
=============================================================================
