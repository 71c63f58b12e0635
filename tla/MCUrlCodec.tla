----------------------------- MODULE MCUrlCodec -----------------------------
(* A small instance of UrlCodec.                                           *)
EXTENDS UrlCodec

\* '%', '2', 'F' and 0xF2, which is negative as a char.
MCChar == {Percent, 50, 70, 242}
=============================================================================
