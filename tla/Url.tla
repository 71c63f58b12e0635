--------------------------------- MODULE Url ---------------------------------
(***************************************************************************)
(* One cppws::url: how a string is decomposed into views, and what         *)
(* parent() and operator/ make of it.  A view is a pair of offsets into    *)
(* full, as in the code; a string is a sequence of tokens, of which the    *)
(* parser tells delimiters, letters and numbers apart.                     *)
(***************************************************************************)
EXTENDS Integers, SequencesExt

CONSTANTS Letters, Digits,  \* tokens of the scheme, the names, the values ...
          BigNumbers,       \* numbers that do not fit in a short
          Inputs,           \* the strings that urls are constructed from
          Segments,         \* the arguments of operator/
          MaxOps            \* bound on the calls of parent() and operator/

Delimiters == {":", "/", "?", "#", "&", ";", "=", "@"}
Token == Letters \cup Digits \cup BigNumbers \cup Delimiters

ASSUME UrlAssumption ==
    /\ Delimiters \cap (Letters \cup Digits \cup BigNumbers) = {}
    /\ Inputs \subseteq Seq(Token) /\ Segments \subseteq Seq(Token)
    /\ MaxOps \in Nat

VARIABLES url,     \* the url at hand
          before,  \* the one that the last operation was applied to
          op, arg, \* that operation and its argument
          fresh,   \* no url since the construction came from parent()
          ops

vars == <<url, before, op, arg, fresh, ops>>

-----------------------------------------------------------------------------
(* Views.                                                                  *)

View(from, to) == [from |-> from, to |-> to]
Null == View(0, 0)       \* a default std::string_view
Garbage == View(0, -1)   \* what parent() reads before the start of a vector
Text(s, v) == SubSeq(s, v.from + 1, v.to)

\* The first offset in from..to-1 that holds a token of T, or to.
Find(s, from, to, T) == Min({i \in from..to-1 : s[i+1] \in T} \cup {to})

StartsWith(s, at, t) == at + Len(t) <= Len(s) /\ SubSeq(s, at + 1, at + Len(t)) = t

-----------------------------------------------------------------------------
(* decompose_scheme and decompose_authority.                               *)

SchemeEnd(s) ==
    LET end == Find(s, 0, Len(s), Delimiters)
    IN IF StartsWith(s, end, <<":">>) THEN end ELSE 0

HasAuthority(s) == StartsWith(s, SchemeEnd(s), <<":", "/", "/">>)
AuthStart(s) == SchemeEnd(s) + 3
AuthEnd(s) == Find(s, AuthStart(s), Len(s), {"/"})
At(s) == Find(s, AuthStart(s), AuthEnd(s), {"@"})
HasUser(s) == At(s) < AuthEnd(s)
UserColon(s) == Find(s, AuthStart(s), At(s), {":"})

MutDomainStart(s) == AuthStart(s)
DomainStart(s) == IF HasUser(s) THEN At(s) + 1 ELSE AuthStart(s)
DomainEnd(s) == Find(s, DomainStart(s), AuthEnd(s), {":"})
Port(s) == View(DomainEnd(s) + 1, AuthEnd(s))

\* from_chars reads a short off the start of v.
IsShort(s, v) == v.from < v.to /\ s[v.from + 1] \in Digits
                 /\ LET n == Find(s, v.from, v.to, Token \ (Digits \cup BigNumbers))
                    IN \A i \in v.from..n-1 : s[i+1] \notin BigNumbers

AuthorityOk(s) ==
    HasAuthority(s) =>
        /\ AuthEnd(s) < Len(s)
        /\ HasUser(s) => UserColon(s) < At(s)
        /\ DomainEnd(s) < AuthEnd(s) => IsShort(s, Port(s))

-----------------------------------------------------------------------------
(* decompose_path: a segment ends at a slash, or at the end of the string. *)

PathStart(s) == IF HasAuthority(s) THEN AuthEnd(s) + 1 ELSE SchemeEnd(s)
MutPathEnd(s) == Find(s, PathStart(s), Len(s), {"?"})
PathEnd(s) == Find(s, PathStart(s), Len(s), {"?", "#"})

\* The offsets in from..to-1 at which a token of T stands, in order.
Cuts(s, from, to, T) ==
    FlattenSeq([n \in 1..to-from |-> IF s[from+n] \in T THEN <<from+n-1>> ELSE <<>>])

\* The pieces of from..to that the tokens of T separate, the last one included.
Pieces(s, from, to, T) ==
    LET cuts == Cuts(s, from, to, T)
    IN [i \in 1..Len(cuts)+1 |->
          View(IF i = 1 THEN from ELSE cuts[i-1] + 1,
               IF i > Len(cuts) THEN to ELSE cuts[i])]

MutKeepsLast(s, last) == FALSE
KeepsLast(s, last) == last.to = Len(s) /\ last.from < last.to

Path(s) ==
    LET all == Pieces(s, PathStart(s), PathEnd(s), {"/"})
    IN IF KeepsLast(s, Last(all)) THEN all ELSE Front(all)

PathStr(path) == IF path = <<>> THEN Null ELSE View(Head(path).from, Last(path).to)

-----------------------------------------------------------------------------
(* decompose_query and the fragment.  The key of a parameter is what stands *)
(* before its last '='.                                                     *)

HasQuery(s) == StartsWith(s, PathEnd(s), <<"?">>)
QueryEnd(s) == IF HasQuery(s) THEN Find(s, PathEnd(s) + 1, Len(s), {"#"}) ELSE PathEnd(s)

Param(s, piece) ==
    LET eqs == Cuts(s, piece.from, piece.to, {"="})
        n == Len(eqs)
    IN IF n = 0 THEN [key |-> Null, value |-> piece]
       ELSE [key |-> View(IF n = 1 THEN piece.from ELSE eqs[n-1] + 1, eqs[n]),
             value |-> View(eqs[n] + 1, piece.to)]

Params(s) ==
    IF ~HasQuery(s) THEN <<>>
    ELSE LET pieces == Pieces(s, PathEnd(s) + 1, QueryEnd(s), {"&", ";"})
         IN [i \in DOMAIN pieces |-> Param(s, pieces[i])]

QueryOk(s) == \A i \in DOMAIN Params(s) : Text(s, Params(s)[i].key) # <<>>

MutFragment(s) == IF StartsWith(s, QueryEnd(s), <<"#">>)
                  THEN View(QueryEnd(s) + 1, Len(s) + 1) ELSE Null
Fragment(s) == IF StartsWith(s, QueryEnd(s), <<"#">>)
               THEN View(QueryEnd(s) + 1, Len(s)) ELSE Null

-----------------------------------------------------------------------------
(* Construction throws bad_url for a string that does not decompose.       *)

WellFormed(s) == AuthorityOk(s) /\ QueryOk(s)

Decomposed(s) ==
    [full |-> s, null |-> FALSE,
     scheme |-> View(0, SchemeEnd(s)),
     user |-> IF HasAuthority(s) /\ HasUser(s) THEN View(AuthStart(s), UserColon(s)) ELSE Null,
     password |-> IF HasAuthority(s) /\ HasUser(s) THEN View(UserColon(s) + 1, At(s)) ELSE Null,
     domain |-> IF HasAuthority(s) THEN View(DomainStart(s), DomainEnd(s)) ELSE Null,
     path |-> Path(s), pathStr |-> PathStr(Path(s)),
     params |-> Params(s), fragment |-> Fragment(s)]

\* url(): the views are not even into an empty string.
Default == [Decomposed(<<>>) EXCEPT !.null = TRUE]

Init == /\ url = Default /\ before = Default
        /\ op = "none" /\ arg = <<>> /\ fresh = TRUE /\ ops = 0

Becomes(o, x, u) == url' = u /\ before' = url /\ op' = o /\ arg' = x

Construct(s) ==
    /\ op = "none"
    /\ IF WellFormed(s) THEN Becomes("construct", s, Decomposed(s))
       ELSE Becomes("throws", s, url)
    /\ UNCHANGED <<fresh, ops>>

\* parent(): full_ stays as it is.  When the last segment goes, front() and
\* back() are called on an empty vector; there the end of the view is read from
\* memory that does not belong to it.
MutParentStr(path) == url.pathStr
ParentStr(path) == IF path = <<>> THEN Garbage ELSE PathStr(path)

Parent ==
    /\ op # "throws" /\ ops < MaxOps
    /\ Becomes("parent", <<>>,
               IF url.path = <<>> THEN url
               ELSE [url EXCEPT !.path = Front(@), !.pathStr = ParentStr(Front(url.path))])
    /\ fresh' = FALSE
    /\ ops' = ops + 1

\* operator/ inserts into full_ where the path ends; without a path the place
\* is outside the string and insert() throws, unless it is garbage.
MutStripped(x) == x
Stripped(x) == IF StartsWith(x, 0, <<"/">>) THEN Tail(x) ELSE x

Places ==
    CASE url.pathStr = Garbage -> {-1} \cup 0..Len(url.full)
      [] url.path = <<>> /\ url.null -> {0}
      [] url.path = <<>> /\ ~url.null -> {-1}
      [] OTHER -> {url.pathStr.to}

Inserted(place, x) ==
    SubSeq(url.full, 1, place) \o <<"/">> \o Stripped(x)
        \o SubSeq(url.full, place + 1, Len(url.full))

Slash(x) ==
    /\ op # "throws" /\ ops < MaxOps
    /\ \E place \in Places :
          IF place >= 0 /\ WellFormed(Inserted(place, x))
          THEN Becomes("append", x, Decomposed(Inserted(place, x)))
          ELSE Becomes("throws", x, url)
    /\ UNCHANGED fresh
    /\ ops' = ops + 1

Next == \/ \E s \in Inputs : Construct(s)
        \/ Parent
        \/ \E x \in Segments : Slash(x)

Spec == Init /\ [][Next]_vars

-----------------------------------------------------------------------------
(* What holds.                                                             *)

Views(u) == {u.scheme, u.user, u.password, u.domain, u.fragment}
            \cup Range(u.path) \cup UNION {{p.key, p.value} : p \in Range(u.params)}

\* Every view lies within the string, but for the path string of the parent of
\* a path of one segment.
TypeOK ==
    /\ url.full \in Seq(Token) /\ before.full \in Seq(Token)
    /\ \A v \in Views(url) : v.from \in 0..v.to /\ v.to <= Len(url.full)
    /\ url.pathStr # Garbage => url.pathStr.from \in 0..url.pathStr.to
                                /\ url.pathStr.to <= Len(url.full)
    /\ op \in {"none", "construct", "parent", "append", "throws"}
    /\ fresh \in BOOLEAN /\ ops \in 0..MaxOps

\* The parts follow each other in the order of RFC 3986 and do not overlap.
Precedes(v, w) == v # Null /\ w # Null => v.to <= w.from
PartsInOrder ==
    LET parts == << {url.scheme}, {url.user}, {url.password}, {url.domain}, Range(url.path),
                    UNION {{p.key, p.value} : p \in Range(url.params)}, {url.fragment} >>
    IN /\ \A i, j \in 1..7 : i < j => \A v \in parts[i], w \in parts[j] : Precedes(v, w)
       /\ \A i, j \in DOMAIN url.path : i < j => Precedes(url.path[i], url.path[j])
       /\ \A i, j \in DOMAIN url.params :
             LET p == url.params[i]
                 q == url.params[j]
             IN Precedes(p.key, p.value) /\ (i < j => Precedes(p.value, q.key))

\* Segments hold no delimiter of the path and are joined by single slashes.  Each
\* query parameter is a key that is not empty, '=', and a value, and goes up to a
\* separator, the fragment or the end.
PartsAreClean ==
    /\ \A i \in DOMAIN url.path :
          /\ \A c \in Range(Text(url.full, url.path[i])) : c \notin {"/", "?", "#"}
          /\ i > 1 => /\ url.path[i].from = url.path[i-1].to + 1
                      /\ url.full[url.path[i].from] = "/"
    /\ \A p \in Range(url.params) :
          /\ p.key.from < p.key.to /\ url.full[p.key.to + 1] = "="
          /\ p.value.from = p.key.to + 1
          /\ (Range(Text(url.full, p.key)) \cup Range(Text(url.full, p.value)))
                 \cap {"=", "&", ";", "#"} = {}
          /\ p.value.to < Len(url.full) => url.full[p.value.to + 1] \in {"&", ";", "#"}

\* A string without a query and a fragment is its scheme and authority, the
\* path, and at most one slash more: nothing of it is dropped.
PathIsWhole ==
    op \in {"construct", "append"} /\ fresh /\ Range(url.full) \cap {"?", "#"} = {} =>
        IF url.path = <<>> THEN PathStart(url.full) = Len(url.full)
        ELSE /\ Head(url.path).from = PathStart(url.full)
             /\ SubSeq(url.full, Last(url.path).to + 1, Len(url.full)) \in {<<>>, <<"/">>}

Texts(u, views) == [i \in DOMAIN views |-> Text(u.full, views[i])]
ParamTexts(u) == [i \in DOMAIN u.params |-> <<Text(u.full, u.params[i].key),
                                              Text(u.full, u.params[i].value)>>]
SameButPath(u, v) ==
    /\ \A part \in {"scheme", "user", "password", "domain", "fragment"} :
          Text(u.full, u[part]) = Text(v.full, v[part])
    /\ ParamTexts(u) = ParamTexts(v)

IsName(x) == x # <<>> /\ Range(x) \cap Delimiters = {}

\* The text after the last slash of the path is no segment of u, because a
\* query or a fragment follows it.
DropsSegment(u) == Last(u.path).to + 1 < PathEnd(u.full)

\* url / name has the path of url and one segment more, and the same parts
\* otherwise; it does not matter whether name starts with a slash.  This holds
\* of a url with a path that does not come from parent() and has all of its
\* segments: where the last one was dropped, name goes in front of it, and
\* url.hpp:339, "appending the specified string to the path", is not what is done.
SlashAddsSegment ==
    LET name == IF StartsWith(arg, 0, <<"/">>) THEN Tail(arg) ELSE arg
    IN fresh /\ before.path # <<>> /\ ~DropsSegment(before) /\ IsName(name) /\ ops > 0 =>
          /\ op = "append"
          /\ Texts(url, url.path) = Append(Texts(before, before.path), name)
          /\ SameButPath(url, before)

\* parent() undoes operator/ in path() and path_str(), though not in the string.
ParentUndoesSlash ==
    [][op = "append" /\ op' = "parent" /\ fresh /\ before.path # <<>>
         /\ IsName(Stripped(arg)) =>
           /\ Texts(url', url'.path) = Texts(before, before.path)
           /\ Text(url'.full, url'.pathStr) = Text(before.full, before.pathStr)]_vars
=============================================================================
