---- MODULE MCAssistant ----
(* Instance of Assistant for TLC. *)
EXTENDS Assistant
============================
