----------------------------- MODULE MCBrowser -----------------------------
(* Constants of the run browser.                                           *)
EXTENDS Browser

\* No key, two bytes and a key that is not a byte.
MCKey == 0 .. 3
=============================================================================
