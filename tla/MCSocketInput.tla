--------------------------- MODULE MCSocketInput ---------------------------
(* A small instance of SocketInput.                                        *)
EXTENDS SocketInput
CONSTANTS a, b
=============================================================================
