------------------------- MODULE MCIntegrationBroker -------------------------
(* The TLC instance of IntegrationBroker: three brokers, each started once *)
(* and all at work at the same time if they like, on one proposal that is  *)
(* approved twice, with one commit of main.                                *)
EXTENDS IntegrationBroker, TLC
=============================================================================
