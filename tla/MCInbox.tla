------------------------------- MODULE MCInbox -------------------------------
(* The inbox with two senders, each of which may repeat the other's inputs,  *)
(* in a session that recorded one of the IDs in an earlier run.              *)
EXTENDS Inbox, TLC

CONSTANTS i1, i2, i3, s1, s2

MCIDs == {i1, i2, i3}
MCSeenIDs == {i1}
MCSenders == {s1, s2}
=============================================================================
