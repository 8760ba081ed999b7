----------------------------- MODULE MCQrtrHaven -----------------------------
(* Small rings for QrtrHaven. *)
EXTENDS QrtrHaven
=============================================================================
