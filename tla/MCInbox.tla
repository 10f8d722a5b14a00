------------------------------ MODULE MCInbox ------------------------------
(* Inbox for TLC.                                                           *)
EXTENDS Inbox
=============================================================================
