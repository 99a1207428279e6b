------------------------------- MODULE MCApp -------------------------------
(* A response that zimr_connection_send writes, and one in pieces: each    *)
(* with the packets that its writes complete.                              *)
EXTENDS App

MCResponses ==
  {[kind |-> "send", writes |-> <<0, 0, 2>>],
   [kind |-> "pieces", writes |-> <<0, 1, 1, 0>>]}
=============================================================================
