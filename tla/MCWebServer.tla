----------------------------- MODULE MCWebServer -----------------------------
(***************************************************************************)
(* Instances of WebServer for TLC: see the README for the bounds.          *)
(***************************************************************************)
EXTENDS WebServer, TLC

WorkerSymmetry == Permutations(Threads)
=============================================================================
