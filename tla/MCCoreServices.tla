---------------------------- MODULE MCCoreServices ----------------------------
(* An adapter of OLTs with one device type. *)
EXTENDS CoreServices

MCTypesOf == [x \in Adapters |-> {"gpon"}]
MCMaxChecks == [m \in Monitors |-> IF m = "kv" THEN 2 ELSE 1]
=============================================================================
