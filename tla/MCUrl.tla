------------------------------- MODULE MCUrl -------------------------------
(* A small instance of Url.                                                *)
EXTENDS Url

Strings(T, n) == UNION {[1..k -> T] : k \in 0..n}
Authority == <<"a", ":", "/", "/">>

\* Any short string, and what may follow "a://", up to the query.
MCInputs ==
    Strings({"a", ":", "/", "?", "#", "="}, 4)
      \cup {Authority \o s : s \in Strings({"b", ":", "@", "1", "65535", "/"}, 4)}
      \cup {Authority \o <<"b", "/">> \o s : s \in Strings({"b", "/", "?", "#", "=", "&"}, 4)}
      \cup {Authority \o <<"b", "/", "b", "/", "?">> \o s : s \in Strings({"b", "=", "&", "#"}, 5)}

MCSegments == {<<>>, <<"c">>, <<"/", "c">>, <<"c", "?", "c", "=">>}
=============================================================================
