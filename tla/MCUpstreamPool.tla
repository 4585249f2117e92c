--------------------------- MODULE MCUpstreamPool ---------------------------
(* Instances of UpstreamPool for TLC: two queries share an ID. *)
EXTENDS UpstreamPool, TLC

CONSTANTS q1, q2, q3, id1, id2

SharedId == (q1 :> id1) @@ (q2 :> id1) @@ (q3 :> id2)
=============================================================================
