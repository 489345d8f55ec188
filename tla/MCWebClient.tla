------------------------------- MODULE MCWebClient -------------------------------
(* A small instance of WebClient for TLC: see WebClient_all.cfg. *)
EXTENDS WebClient
================================================================================
