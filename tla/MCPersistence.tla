---------------------------- MODULE MCPersistence ----------------------------
(* TLC instances of Persistence.                                             *)
EXTENDS Persistence
==============================================================================
