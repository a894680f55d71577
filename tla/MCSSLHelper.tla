---------------------------- MODULE MCSSLHelper -----------------------------
(* A small instance of SSLHelper for TLC, with the integers scaled down.   *)
EXTENDS SSLHelper
=============================================================================
