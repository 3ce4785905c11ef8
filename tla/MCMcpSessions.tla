---------------------------- MODULE MCMcpSessions ----------------------------
(***************************************************************************)
(* McpSessions for TLC.  The bounds on identities are wide enough never to *)
(* hold a request up: each request keeps at most one connector, an expired *)
(* one may wait for its callback, and one may be in the pool.              *)
(***************************************************************************)
EXTENDS McpSessions

ConnectorIds == 1..4
SessionIds   == 1..3
=============================================================================
