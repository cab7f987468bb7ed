------------------------------ MODULE MCChatState ------------------------------
(* Instances of ChatState for TLC.                                           *)
EXTENDS ChatState
================================================================================
