------------------------ MODULE MCMessagePersistence ------------------------
(* A few messages of one session and a few breaks of the channel. *)
EXTENDS MessagePersistence
=============================================================================
