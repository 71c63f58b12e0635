--------------------------- MODULE MCHttpRequest ---------------------------
(* Small instances of HttpRequest.                                         *)
EXTENDS HttpRequest

CONSTANTS GET, s1, A, B, Long, Host, v1, v2

\* "HTTP/1.1", and "HTTP/1." without the minor version.
MCTails == [http : {TRUE}, chars : {<<1, Dot, 1>>, <<1, Dot>>}]
MCPaths == {<<Empty, s1>>}
=============================================================================
