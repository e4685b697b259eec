--------------------------- MODULE MCChatTransport ---------------------------
(* ChatTransport for TLC.  Peer 2, whose initiation yields when both start   *)
(* at once, writes the messages.                                             *)
EXTENDS ChatTransport, TLC

MCAuthor == [m \in Mids |-> 2]
LinkSymmetry == Permutations(Links)
==============================================================================
