---------------------------- MODULE MCAfaGateway ----------------------------
(***************************************************************************)
(* A small factory: one or two invoices, two acceptable settings and three  *)
(* that _setTerms refuses, one wallet named twice.                          *)
(***************************************************************************)
EXTENDS AfaGateway

MCRefs == {"INV-1", "INV-2"}
MCWallets == {"afa", "zone", "bank", "seller"}

MCFactory(bps, share, min, max, gw, fz, ben) ==
  [fee |-> [feeBps |-> bps, freezoneBps |-> share, feeMin |-> min, feeMax |-> max],
   gatewayWallet |-> gw, freezoneWallet |-> fz, beneficiary |-> ben]

MCTermInputs ==
  { MCFactory(7500, 5000, 1, 1, "afa", "zone", "bank"),
    MCFactory(10000, 5000, 0, 0, "zone", "zone", "bank"),
    MCFactory(10001, 5000, 0, 0, "afa", "zone", "bank"),
    MCFactory(2500, 5000, 3, 2, "afa", "zone", "bank"),
    MCFactory(2500, 5000, 1, 2, "afa", "none", "bank") }
MCPins == {1}
=============================================================================
