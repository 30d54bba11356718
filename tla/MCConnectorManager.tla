------------------------ MODULE MCConnectorManager ------------------------
(* Instantiation of ConnectorManager for TLC: two tunnel peers, one cloud  *)
(* subnet, two rewrites of the config file.                                *)
EXTENDS ConnectorManager

CONSTANTS p1, p2, cloud

MCPeers == {p1, p2}
MCCloudSubnets == {cloud}
=============================================================================
