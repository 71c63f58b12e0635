--------------------------- MODULE MCSocketStream ---------------------------
(* Small instances of SocketStream.                                        *)
EXTENDS SocketStream, TLC

CONSTANTS o1, o2, s1, s2, m1, m2, a1, a2

Symmetry == Permutations(Objects \ Streams) \cup Permutations(Streams)
              \cup Permutations(Storage) \cup Permutations(Allocators)
=============================================================================
