------------------------------ MODULE MCScripts ------------------------------
(* Values of the constants of Scripts for TLC: two clients and two scripts.  *)
EXTENDS Scripts

CONSTANTS q1, q2, h1, h2

\* h2 is registered, and is no WASM module.
MCValid == {h1, Other}
=============================================================================
