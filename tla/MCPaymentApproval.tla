------------------------- MODULE MCPaymentApproval -------------------------
(* An instance of PaymentApproval for TLC. *)
EXTENDS PaymentApproval, TLC

CONSTANTS s1, s2, k1, k2, ca, cb, cc, cf, r1, r2

(* Two ceremonies over one card, one over the other, and a forgery.        *)
MCCardOf == [x \in Candidates |-> IF x = cc THEN k2 ELSE k1]
MCSigned == Candidates \ {cf}
=============================================================================
