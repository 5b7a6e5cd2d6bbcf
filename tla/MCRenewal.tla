------------------------------ MODULE MCRenewal ------------------------------
(* The instance of PcpClient in the environment of Renewal.                 *)
EXTENDS MCPcpClient, Renewal
=============================================================================
