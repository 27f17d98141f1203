------------------------------- MODULE MCHttpApp -------------------------------
(***************************************************************************)
(* A small instance of HttpApp.                                            *)
(***************************************************************************)
EXTENDS HttpApp
=============================================================================
