---------------------------- MODULE MCPaymentPage ---------------------------
(* An instance of PaymentPage: one buyer's page and two transfers.          *)
EXTENDS PaymentPage

CONSTANTS page, t1, t2
=============================================================================
