---------------------------- MODULE MCNetServer -----------------------------
(***************************************************************************)
(* Two descriptors and two addresses, so that a descriptor is reused for   *)
(* another peer while the other one is open.                               *)
(***************************************************************************)
EXTENDS NetServer

CONSTANT MaxConnections   \* max_connections of config.toml

(* "Maximum number of active TCP connections allowed.", config.toml *)
ConnectionsBounded == Cardinality(Live) <= MaxConnections
=============================================================================
