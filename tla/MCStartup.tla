------------------------------ MODULE MCStartup ------------------------------
(***************************************************************************)
(* An instance of Startup for TLC: the scraper and a server.                 *)
(***************************************************************************)
EXTENDS Startup

CONSTANTS scraper, server

=============================================================================
