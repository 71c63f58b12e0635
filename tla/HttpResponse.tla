---------------------------- MODULE HttpResponse ----------------------------
(***************************************************************************)
(* What the operators << of http_response.hpp write.  A token is a line,   *)
(* with its CRLF, or one character of a body; a character of a body may be *)
(* anything, what looks like a line included.  A header name and a content *)
(* type stand for what to_string() makes of them, a status code for the    *)
(* code and its reason.                                                    *)
(***************************************************************************)
EXTENDS Naturals, Sequences, SequencesExt

\* A version is "1.1" for 110 and, without a digit after the point, "2" for 200.
VersionText(v) == IF v % 100 = 0 THEN <<v \div 100>>
                                 ELSE <<v \div 100, (v % 100) \div 10>>

LineText(line) == << <<"line", VersionText(line.version), line.status>> >>

HeaderText(name, value) == << <<"header", name, value>> >>

Blank == <<"blank">>

\* http_body writes the headers that describe it, and ends the headers.
MutBodyText(b) == HeaderText("Content-Length", Len(b.content)) \o <<Blank>>
                    \o HeaderText("Content-Type", b.type) \o b.content
BodyText(b) == HeaderText("Content-Length", Len(b.content))
                 \o HeaderText("Content-Type", b.type)
                 \o <<Blank>> \o b.content

\* stream << line << header << ... << body.  A response may lack headers and the
\* body, which are sequences here.
Text(r) == LineText(r.line)
             \o FlattenSeq([i \in DOMAIN r.headers |->
                              HeaderText(r.headers[i].name, r.headers[i].value)])
             \o FlattenSeq([i \in DOMAIN r.body |-> BodyText(r.body[i])])

-----------------------------------------------------------------------------
(* What a client makes of a connection: a line begins a message, a blank   *)
(* line ends its headers, and the content is as long as they say.          *)

\* The client's position: in front of a message, in its headers, or in its
\* content with left characters to come.
Start == [in |-> "start", left |-> 0, messages |-> <<>>]

ReadVersion(text) == 100 * text[1] + (IF Len(text) = 2 THEN 10 * text[2] ELSE 0)

Extend(c, field, value) ==
    [c.messages EXCEPT ![Len(c.messages)][field] = Append(@, value)]

Take(c, token) ==
    CASE c.in = "start" /\ token[1] = "line" ->
           [c EXCEPT !.in = "headers",
                     !.messages = Append(@, [version |-> ReadVersion(token[2]),
                                             status |-> token[3],
                                             headers |-> <<>>, content |-> <<>>])]
      [] c.in = "headers" /\ token[1] = "header" ->
           [c EXCEPT !.left = IF token[2] = "Content-Length" THEN token[3] ELSE @,
                     !.messages = Extend(c, "headers", <<token[2], token[3]>>)]
      [] c.in = "headers" /\ token = Blank ->
           [c EXCEPT !.in = IF c.left = 0 THEN "start" ELSE "content"]
      [] c.in = "content" ->
           [c EXCEPT !.in = IF c.left = 1 THEN "start" ELSE "content",
                     !.left = @ - 1, !.messages = Extend(c, "content", token)]
      [] OTHER -> [c EXCEPT !.in = "lost"]

Client(tokens) == FoldLeft(Take, Start, tokens)

\* The message that a response with a body should be read as: a version keeps
\* one digit after the point.
Message(r) ==
    LET b == r.body[1]
    IN [version |-> r.line.version - (r.line.version % 10), status |-> r.line.status,
        headers |-> [i \in DOMAIN r.headers |-> <<r.headers[i].name, r.headers[i].value>>]
                      \o << <<"Content-Length", Len(b.content)>>, <<"Content-Type", b.type>> >>,
        content |-> b.content]
=============================================================================
