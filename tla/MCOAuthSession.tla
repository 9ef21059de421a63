--------------------------- MODULE MCOAuthSession ---------------------------
(* The instances of OAuthSession that TLC checks. *)
EXTENDS OAuthSession, TLC

CONSTANTS q1, q2, d, g

MCRequests == {q1, q2}
MCSites == {d, g}
=============================================================================
