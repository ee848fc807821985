-------------------------- MODULE MCServerMailbox --------------------------
(* ServerMailbox with the values of MCChatServer.                          *)
EXTENDS MCChatServer, ServerMailbox
=============================================================================
