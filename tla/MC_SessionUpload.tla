--------------------------- MODULE MC_SessionUpload --------------------------
(* SessionUpload on a small instance: a window of two requests.             *)
EXTENDS SessionUpload, TLC

NoBodies == {}
=============================================================================
