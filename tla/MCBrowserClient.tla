-------------------------- MODULE MCBrowserClient --------------------------
(***************************************************************************)
(* A small instance of BrowserClient: two commands, one of which the Core  *)
(* refuses, and up to three connections.                                   *)
(***************************************************************************)
EXTENDS BrowserClient

CONSTANTS c1, c2
=============================================================================
