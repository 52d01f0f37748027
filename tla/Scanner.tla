------------------------------ MODULE Scanner ------------------------------
(***************************************************************************)
(* The scanner (src/compiler/scanner.c) and the escapes of string values   *)
(* (src/value.c).                                                          *)
(*                                                                         *)
(* A text is a sequence of glyphs.  A glyph is one character, except that  *)
(* a keyword is one glyph too: scanWord takes the longest run of letters,  *)
(* digits and underscores and looks the whole run up, so the letters of a  *)
(* keyword matter only together.  A run that is one keyword glyph is that  *)
(* keyword; any longer run is an identifier.  Positions count from 1, and  *)
(* the position after the last glyph holds the NUL that ends the source.   *)
(***************************************************************************)
EXTENDS Integers, Sequences, FiniteSetsExt

Keywords == {"and", "class", "else", "false", "for", "fun", "if", "nil", "or",
             "print", "return", "super", "this", "true", "var", "while",
             "skip", "break"}

Singles == {"(", ")", "{", "}", "[", "]", ";", ".", ",", "+", "%", "-", "*", "/"}
Doubled == {"!", "=", ">", "<"}
Digits  == {"0", "1"}
Letters == {"a", "b", "n", "_"} \cup Keywords
Blanks  == {" ", "\t", "\r", "\n"}
NUL     == "NUL"

Peek(text, p) == IF p \in DOMAIN text THEN text[p] ELSE NUL

\* scannerAdvance: the end of the source is not passed.
Advance(text, p) == IF Peek(text, p) = NUL THEN p ELSE p + 1

\* Where a loop that advances while it sees a glyph of S stops.
After(text, p, S) == Min({q \in p..(Len(text) + 1) : Peek(text, q) \notin S})

Newlines(text, p, q) == Cardinality({i \in p..(q - 1) : Peek(text, i) = "\n"})

\* The loop of scanToken that passes over blanks and comments.
RECURSIVE SkipSpace(_, _)

\* Mutant: a comment takes the end of its line along, uncounted.
SkipCommentLine(text, s) ==
    LET p == After(text, s.current, Blanks)
        t == [current |-> p, line |-> s.line + Newlines(text, s.current, p)]
        q == After(text, p, (Letters \cup Digits \cup {"#", " "}))
    IN  IF Peek(text, p) # "#" THEN t
        ELSE SkipSpace(text, [t EXCEPT !.current = Advance(text, q)])

SkipSpace(text, s) ==
    LET p == After(text, s.current, Blanks)
        t == [current |-> p, line |-> s.line + Newlines(text, s.current, p)]
    IN  IF Peek(text, p) # "#"
        THEN t
        ELSE SkipSpace(text,
               [t EXCEPT !.current = Min({q \in (p + 1)..(Len(text) + 1) :
                                            Peek(text, q) \in {"\n", NUL}})])

\* Each of the following gives the type of the token that starts at p and
\* the position after it.
ScanDouble(text, p) ==
    IF Peek(text, p + 1) = "="
    THEN [type |-> text[p] \o "=", next |-> p + 2]
    ELSE [type |-> text[p], next |-> p + 1]

ScanNumber(text, p) ==
    LET q == After(text, p + 1, Digits)
    IN  [type |-> "NUMBER",
         next |-> IF Peek(text, q) = "." THEN After(text, q + 1, Digits) ELSE q]

ScanWord(text, p) ==
    LET q == After(text, p + 1, Letters \cup Digits)
    IN  [type |-> IF q = p + 1 /\ text[p] \in Keywords THEN text[p] ELSE "IDENTIFIER",
         next |-> q]

\* p is inside the string: a backslash takes the glyph after it along.
RECURSIVE ScanString(_, _)
ScanString(text, p) ==
    CASE Peek(text, p) = NUL  -> [type |-> "ERROR", next |-> p]
      [] Peek(text, p) = "\"" -> [type |-> "STRING", next |-> p + 1]
      [] Peek(text, p) = "\\" ->
            IF Peek(text, p + 1) = NUL
            THEN [type |-> "ERROR", next |-> p + 1]
            ELSE ScanString(text, p + 2)
      [] OTHER -> ScanString(text, p + 1)

\* scanToken: the token, the scanner's position after it and its line.
ScanToken(text, s) ==
    LET t == SkipSpace(text, s)
        p == t.current
        c == Peek(text, p)
        r == CASE c = NUL      -> [type |-> "EOF", next |-> p]
               [] c = "\""     -> ScanString(text, p + 1)
               [] c \in Singles -> [type |-> c, next |-> p + 1]
               [] c \in Doubled -> ScanDouble(text, p)
               [] c \in Digits  -> ScanNumber(text, p)
               [] c \in Letters -> ScanWord(text, p)
               [] OTHER         -> [type |-> "ERROR", next |-> Advance(text, p)]
    IN  [type |-> r.type, start |-> p, line |-> t.line,
         lexeme |-> SubSeq(text, p, r.next - 1),
         current |-> r.next, after |-> t.line + Newlines(text, p, r.next)]

\* The first loop of compile(): all tokens up to the end or to an error.
RECURSIVE Scan(_, _, _)
Scan(text, s, tokens) ==
    LET t == ScanToken(text, s)
    IN  IF t.type \in {"EOF", "ERROR"}
        THEN Append(tokens, t)
        ELSE Scan(text, [current |-> t.current, line |-> t.after], Append(tokens, t))

TokensOf(text) == Scan(text, [current |-> 1, line |-> 0], <<>>)
-----------------------------------------------------------------------------
(* Escapes.  encodeString writes a value with escapes, decodeString reads   *)
(* the text of a literal.  decodeString does not advance past a glyph that  *)
(* follows a backslash and is no escape, so the next glyph overwrites it.   *)

Escapable == {"\\", "n", "t", "\"", "0"}
Unescape(c) == CASE c = "n" -> "\n" [] c = "t" -> "\t" [] c = "0" -> NUL [] OTHER -> c

\* Mutant: a backslash is written as it is.
EncodeQuotesOnly(c) ==
    CASE c = "\n" -> <<"\\", "n">>
      [] c = "\t" -> <<"\\", "t">>
      [] c = "\"" -> <<"\\", c>>
      [] OTHER -> <<c>>

Encode1(c) ==
    CASE c = "\n" -> <<"\\", "n">>
      [] c = "\t" -> <<"\\", "t">>
      [] c \in {"\"", "\\"} -> <<"\\", c>>
      [] OTHER -> <<c>>

RECURSIVE EncodeString(_)
EncodeString(s) == IF s = <<>> THEN <<>> ELSE Encode1(Head(s)) \o EncodeString(Tail(s))

RECURSIVE DecodeString(_)
DecodeString(s) ==
    CASE s = <<>> -> <<>>
      [] s # <<>> /\ Head(s) # "\\" -> <<Head(s)>> \o DecodeString(Tail(s))
      [] s = <<"\\">> -> <<>>
      [] OTHER -> <<IF s[2] \in Escapable THEN Unescape(s[2]) ELSE "\\">>
                    \o DecodeString(SubSeq(s, 3, Len(s)))
=============================================================================
