------------------------ MODULE MCRequestProcessor ------------------------
(* Small instances of RequestProcessor.                                    *)
EXTENDS RequestProcessor

CONSTANTS t1, t2, t3, c1, c2, c3
=============================================================================
