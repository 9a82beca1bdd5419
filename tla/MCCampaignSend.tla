---------------------------- MODULE MCCampaignSend ----------------------------
(* Small instances of CampaignSend. *)
EXTENDS CampaignSend

MCPrices == {0, 1}
=============================================================================
