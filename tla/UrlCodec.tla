------------------------------ MODULE UrlCodec ------------------------------
(***************************************************************************)
(* url::encode, url::decode and url_decode_iterator.  A behaviour encodes  *)
(* a source string or takes it as it is, and then either walks it with the *)
(* iterator, one operation a step, or decodes it, one character a step.    *)
(* Characters are byte codes.                                              *)
(***************************************************************************)
EXTENDS Integers, SequencesExt

CONSTANTS Char,   \* the bytes that source strings are made of
          MaxLen  \* bound on their length

ASSUME UrlCodecAssumption == Char \subseteq 0..255 /\ MaxLen \in Nat

VARIABLES source, text,  \* a string, and what is decoded: it or its encoding
          mode,          \* "iterate" or "decode"
          pos,           \* offset of ptr_, or the index i of decode()
          base,          \* how far decode() has moved its argument str
          out,           \* the characters obtained
          status

vars == <<source, text, mode, pos, base, out, status>>

Sources == UNION {[1..n -> Char] : n \in 0..MaxLen}

TypeOK ==
    /\ source \in Sources /\ text \in Seq(0..255)
    /\ mode \in {"iterate", "decode"} /\ status \in {"running", "done", "threw"}
    /\ pos \in 0..Len(text) /\ base \in Int
    /\ out \in Seq(0..255)

-----------------------------------------------------------------------------
(* encode().                                                               *)

Percent == 37

\* The characters / % ? & # < > + { } | \ ^ ~ [ ] ` ; : @ = $
MutReserved == {47, 63, 38, 35, 60, 62, 43, 123, 125, 124, 92, 94, 126, 91, 93,
                96, 59, 58, 64, 61, 36}
Reserved == {47, Percent, 63, 38, 35, 60, 62, 43, 123, 125, 124, 92, 94, 126, 91,
             93, 96, 59, 58, 64, 61, 36}

\* Neither reserved, nor a blank, a control character or outside ASCII.
Plain(c) == c \in 33..126 \ Reserved

MutHexDigit(n) == 48 + n
HexDigit(n) == IF n < 10 THEN 48 + n ELSE 55 + n
Escape(c) == <<Percent, HexDigit(c \div 16), HexDigit(c % 16)>>
Encode(s) == FlattenSeq([i \in DOMAIN s |-> IF Plain(s[i]) THEN <<s[i]>> ELSE Escape(s[i])])

Init ==
    /\ source \in Sources
    /\ text \in {source, Encode(source)}
    /\ mode \in {"iterate", "decode"}
    /\ pos = 0 /\ base = 0 /\ out = <<>> /\ status = "running"

-----------------------------------------------------------------------------
(* Hexadecimal digits: both decoders take the first one for the low four   *)
(* bits.                                                                   *)

IsHex(c) == c \in 48..57 \cup 65..70 \cup 97..102
HexValue(c) == IF c \in 48..57 THEN c - 48 ELSE (c - 55) % 32
Unescaped(lo, hi) == HexValue(lo) + 16 * HexValue(hi)

Stop(s) == status' = s /\ UNCHANGED <<pos, base, out>>

-----------------------------------------------------------------------------
(* The iterator: operator* and then ++, or ++ alone, until it is at the    *)
(* end.  One action stands for the pair.                                   *)

Rest == Len(text) - pos

MutAdvance == IF text[pos + 1] = Percent THEN pos + 3 ELSE pos + 1
Advance == IF text[pos + 1] = Percent THEN pos + Min({3, Rest}) ELSE pos + 1

Visit ==
    /\ Rest > 0
    /\ LET c == text[pos + 1]
       IN IF c = Percent /\ (Rest < 3 \/ ~IsHex(text[pos + 2]) \/ ~IsHex(text[pos + 3]))
          THEN Stop("threw")
          ELSE /\ out' = Append(out, IF c # Percent THEN c
                                     ELSE Unescaped(text[pos + 2], text[pos + 3]))
               /\ pos' = Advance
               /\ UNCHANGED <<base, status>>

Skip ==
    /\ Rest > 0
    /\ out' = Append(out, text[pos + 1])
    /\ pos' = Advance
    /\ UNCHANGED <<base, status>>

AtEnd == Rest = 0 /\ Stop("done")

Iterate == mode = "iterate" /\ (Visit \/ Skip \/ AtEnd)

-----------------------------------------------------------------------------
(* decode().  An escape moves the pointer str by the decoded character, as *)
(* a signed char, instead of appending it; what is read outside the string *)
(* from then on may be anything.                                           *)

Signed(c) == IF c < 128 THEN c ELSE c - 256
At(k) == LET i == base + pos + k + 1
         IN IF i \in DOMAIN text THEN {text[i]} ELSE Char

\* Where the loop goes on after an escape.
MutResume == pos
Resume == pos + 2

MutTruncated == Rest < 2
Truncated == Rest < 3

DecodeChar ==
    /\ Rest > 0
    /\ \E c \in At(0) \ {Percent} : out' = Append(out, c)
    /\ pos' = pos + 1
    /\ UNCHANGED <<base, status>>

DecodeEscape ==
    /\ Rest > 0 /\ Percent \in At(0)
    /\ IF Truncated THEN Stop("threw")
       ELSE \E lo \in At(1), hi \in At(2) :
               IF IsHex(lo) /\ IsHex(hi)
               THEN /\ base' = base + Signed(Unescaped(lo, hi))
                    /\ pos' = Resume
                    /\ UNCHANGED <<out, status>>
               ELSE Stop("threw")

Decode == mode = "decode" /\ (DecodeChar \/ DecodeEscape \/ AtEnd)

-----------------------------------------------------------------------------
Next == status = "running" /\ (Iterate \/ Decode) /\ UNCHANGED <<source, text, mode>>

Spec == Init /\ [][Next]_vars /\ WF_vars(Next)

-----------------------------------------------------------------------------
(* What holds.                                                             *)

Encoded == text = Encode(source)

\* Two strings never have the same encoding (looked at once for each string).
EncodeIsInjective ==
    mode = "iterate" /\ status = "done" =>
        \A s \in Sources : Encode(s) = Encode(source) => s = source

\* The iterator makes one step for each character that was encoded and lands on
\* the start of the next one's encoding, whether or not it is dereferenced; what
\* encode() left as it was comes out as it was.
IteratorKeepsStep ==
    mode = "iterate" /\ Encoded =>
        /\ status # "threw"
        /\ pos = Len(Encode(SubSeq(source, 1, Len(out))))
        /\ \A i \in 1..Len(out) : Plain(source[i]) => out[i] = source[i]

\* Up to the first '%' decode() copies the string, and there it goes on only if
\* two hexadecimal digits follow within the string.
FirstEscapeIsChecked ==
    mode = "decode" /\ status = "done" =>
        LET escapes == {i \in DOMAIN text : text[i] = Percent}
            first == Min(escapes)
        IN IF escapes = {} THEN out = text
           ELSE /\ IsPrefix(SubSeq(text, 1, first - 1), out)
                /\ first + 2 <= Len(text)
                /\ IsHex(text[first + 1]) /\ IsHex(text[first + 2])

\* Both decoders come to an end, whatever the string.
Terminates == <>(status # "running")
=============================================================================
