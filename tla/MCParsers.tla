------------------------------ MODULE MCParsers ------------------------------
(* Replies of two items and a few fields, for TLC. *)
EXTENDS ReplyParsers
=============================================================================
