------------------------------- MODULE MCTcp --------------------------------
(* Tcp with small buffers for TLC: a listening server and a client that     *)
(* opens twice, or two hosts that open towards each other.                  *)
EXTENDS Tcp

MCIsn ==
  [b \in BOOLEAN |-> [h \in Host |->
     IF h = "server" THEN <<7>> ELSE IF b THEN <<1, 14>> ELSE <<1>>]]
MCBytes ==
  [b \in BOOLEAN |-> [h \in Host |->
     IF h = "server" THEN <<0>> ELSE IF b THEN <<3, 1>> ELSE <<1>>]]

\* The numbers drawn here are fresh, as the theorem on the streams supposes.
ASSUME MCFresh == FreshNumbers
=============================================================================
