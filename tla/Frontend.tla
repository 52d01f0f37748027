------------------------------ MODULE Frontend ------------------------------
(***************************************************************************)
(* The first half of compile(): the scanner feeds the parser.  A text is   *)
(* typed glyph by glyph, as at the prompt, or loaded from a file, and each *)
(* text is scanned and parsed.                                             *)
(*                                                                         *)
(* What the front end promises is stated with a printer: Printed writes a  *)
(* tree as the tokens of the grammar, and Binds says which trees the       *)
(* grammar's precedence and associativity allow.  Together they determine  *)
(* the tree of a program, without saying how to find it.                   *)
(***************************************************************************)
EXTENDS Scanner, Parser

CONSTANTS Keyboards,   \* bound: records of a set of glyphs, a length and
                       \* whether only beginnings of programs are typed on
          Programs     \* bound: the trees of the files that are loaded

VARIABLES text,       \* the source
          keyboard,   \* the keyboard it is typed on
          program,    \* the tree that was printed to the file, or NULL
          tokens,     \* the list of tokens compile() collects
          result      \* what parse() returns

vars == <<text, keyboard, program, tokens, result>>

\* compile(), lines 43 to 65: an error of the scanner ends it before parsing.
Compile(source) ==
    /\ text' = source
    /\ tokens' = TokensOf(source)
    /\ result' = IF tokens'[Len(tokens')].type = "ERROR"
                 THEN Fail(0) ELSE ParseProgram(tokens', 1, <<>>)
-----------------------------------------------------------------------------
(* The grammar, as a printer of trees.                                      *)

RECURSIVE Printed(_), PrintAll(_), PrintList(_)
PrintAll(nodes) == IF nodes = <<>> THEN <<>> ELSE Printed(Head(nodes)) \o PrintAll(Tail(nodes))
PrintList(nodes) == CASE nodes = <<>> -> <<>>
                      [] Len(nodes) = 1 -> Printed(nodes[1])
                      [] OTHER -> Printed(Head(nodes)) \o << <<",">> >> \o PrintList(Tail(nodes))

\* Lexemes: a word of one glyph each, two for the doubled operators.
W(glyph) == << <<glyph>> >>

IsFor(n) == /\ n.type = "BLOCK_STMT" /\ n.kids # <<>>
            /\ LET last == n.kids[Len(n.kids)]
               IN  last.type = "WHILE_STMT" /\ last.kids[3] # NULL

PrintFor(n) ==
    LET loop == n.kids[Len(n.kids)]
    IN  W("for") \o W("(")
        \o (IF Len(n.kids) = 1 THEN W(";") ELSE Printed(n.kids[1]))
        \o Printed(loop.kids[1]) \o W(";")
        \o PrintAll(loop.kids[3].kids) \o W(")") \o Printed(loop.kids[2])

Printed(n) ==
    LET k == n.kids
    IN  CASE n.type = "NULL" -> <<>>
          [] n.type \in {"NAME", "VAR_EXPR", "LITERAL_EXPR"} -> <<n.op>>
          [] n.type = "GROUP_EXPR"  -> W("(") \o Printed(k[1]) \o W(")")
          [] n.type = "UNARY_EXPR"  -> <<n.op>> \o Printed(k[1])
          [] n.type = "BINARY_EXPR" -> Printed(k[1]) \o <<n.op>> \o Printed(k[2])
          [] n.type = "ASSIGNMENT_EXPR" -> Printed(k[1]) \o W("=") \o Printed(k[2])
          [] n.type = "CALL_EXPR"  -> Printed(k[1]) \o W("(") \o PrintList(Tail(k)) \o W(")")
          [] n.type = "INDEX_EXPR" -> Printed(k[1]) \o W("[") \o Printed(k[2]) \o W("]")
          [] n.type = "ARR_EXPR"   -> W("{") \o PrintList(k) \o W("}")
          [] n.type = "EXPR_STMT"  -> Printed(k[1]) \o W(";")
          [] n.type = "PRINT_STMT" -> W("print") \o Printed(k[1]) \o W(";")
          [] n.type = "SKIP_STMT"  -> W("skip") \o W(";")
          [] n.type = "BREAK_STMT" -> W("break") \o W(";")
          [] n.type = "RETURN_STMT" -> W("return") \o Printed(k[1]) \o W(";")
          [] n.type = "VAR_DECL" -> W("var") \o Printed(k[1]) \o
                (IF Len(k) = 1 THEN <<>> ELSE W("=") \o Printed(k[2])) \o W(";")
          [] n.type = "FN_DECL" -> W("fun") \o Printed(k[1]) \o W("(")
                \o PrintList(SubSeq(k, 2, Len(k) - 1)) \o W(")") \o Printed(k[Len(k)])
          [] n.type = "IF_STMT" -> W("if") \o W("(") \o Printed(k[1]) \o W(")") \o Printed(k[2])
                \o (IF k[3] = NULL THEN <<>> ELSE W("else") \o Printed(k[3]))
          [] n.type = "WHILE_STMT" -> W("while") \o W("(") \o Printed(k[1]) \o W(")") \o Printed(k[2])
          [] OTHER -> IF IsFor(n) THEN PrintFor(n) ELSE W("{") \o PrintAll(k) \o W("}")

\* The tokens with a blank between two words that would run into one.
RECURSIVE Spell(_)
Spell(lexemes) ==
    IF lexemes = <<>> THEN <<>>
    ELSE LET first == Head(lexemes)
             apart == /\ Len(lexemes) > 1
                      /\ {first[Len(first)], lexemes[2][1]} \subseteq Letters \cup Digits
         IN  first \o (IF apart THEN <<" ">> ELSE <<>>) \o Spell(Tail(lexemes))
-----------------------------------------------------------------------------
(* Precedence and association.                                              *)

Tightness(n) ==
    CASE n.type = "ASSIGNMENT_EXPR" -> 0
      [] n.type = "BINARY_EXPR" ->
            CASE n.op = <<"or">> -> 1 [] n.op = <<"and">> -> 2
              [] n.op \in {<<"=", "=">>, <<"!", "=">>} -> 3
              [] n.op \in {<<"<">>, <<"<", "=">>, <<">">>, <<">", "=">>} -> 4
              [] n.op \in {<<"+">>, <<"-">>} -> 5
              [] OTHER -> 6
      [] n.type = "UNARY_EXPR" -> 7
      [] OTHER -> 8

\* An if without else at the end of a statement takes any else that follows.
RECURSIVE EndsOpen(_)
EndsOpen(n) == CASE n.type = "IF_STMT" -> n.kids[3] = NULL \/ EndsOpen(n.kids[3])
                 [] n.type = "WHILE_STMT" -> EndsOpen(n.kids[2])
                 [] IsFor(n) -> EndsOpen(n.kids[Len(n.kids)])
                 [] OTHER -> FALSE

RECURSIVE Binds(_)
Binds(n) ==
    /\ \A i \in DOMAIN n.kids : Binds(n.kids[i])
    /\ CASE n.type = "BINARY_EXPR" -> /\ Tightness(n.kids[1]) >= Tightness(n)
                                      /\ Tightness(n.kids[2]) > Tightness(n)
         [] n.type = "UNARY_EXPR" -> Tightness(n.kids[1]) >= 7
         [] n.type \in {"CALL_EXPR", "INDEX_EXPR"} -> Tightness(n.kids[1]) >= 8
         [] n.type = "ASSIGNMENT_EXPR" -> n.kids[1].type \in {"VAR_EXPR", "INDEX_EXPR"}
         [] n.type = "IF_STMT" -> n.kids[3] # NULL => ~EndsOpen(n.kids[2])
         [] OTHER -> TRUE
-----------------------------------------------------------------------------
(* A text that may be the beginning of a program: nothing is wrong with it *)
(* before its end.  Typing goes on from those only, to bound the texts.     *)
Viable == \/ tokens[Len(tokens)].type = "ERROR" /\ tokens[Len(tokens)].current = Len(text) + 1
          \/ ~result.bad
          \/ result.bad /\ result.p = Len(tokens)

Init == /\ keyboard \in Keyboards /\ program = NULL
        /\ text = <<>> /\ tokens = TokensOf(<<>>) /\ result = Ok(1, <<>>)

\* repl(): the line grows by a glyph.
Type == /\ program = NULL /\ Len(text) < keyboard.length
        /\ keyboard.viable => Viable
        /\ \E g \in keyboard.glyphs : Compile(Append(text, g))
        /\ UNCHANGED <<keyboard, program>>

\* interpretFile(): a whole program.
Load == /\ text = <<>>
        /\ \E n \in Programs : /\ program' = n
                               /\ Compile(Spell(Printed(n)))
        /\ keyboard' = [glyphs |-> {}, length |-> 0, viable |-> FALSE]

Next == Type \/ Load
Spec == Init /\ [][Next]_vars
-----------------------------------------------------------------------------
Accepted == ~result.bad

(* The tokens tile the text: between two tokens there are only blanks and  *)
(* comments, nothing is scanned twice, and a token's line is the number of *)
(* line ends before it, those inside strings and comments included.         *)
TokensTile ==
    \A i \in DOMAIN tokens :
        LET from == IF i = 1 THEN 1 ELSE tokens[i - 1].current
            to   == tokens[i].start
        IN  /\ from <= to
            /\ \A p \in from..(to - 1) :
                  \/ text[p] \in Blanks
                  \/ \E c \in from..p : text[c] = "#" /\ \A q \in c..p : text[q] # "\n"
            /\ tokens[i].line = Newlines(text, 1, to)

(* An accepted text is what its tree prints as: the parser drops, adds and *)
(* reorders no token, also where it rewrites a for into a while.            *)
TreePrintsText ==
    Accepted => PrintAll(result.nodes) =
                [i \in 1..(Len(tokens) - 1) |-> tokens[i].lexeme]

(* The trees respect the precedence and associativity of the operators,    *)
(* the targets of assignments, and give an else to the nearest if.          *)
TreeBinds == Accepted => \A i \in DOMAIN result.nodes : Binds(result.nodes[i])

(* Every program of the grammar is accepted, with the tree it was printed   *)
(* from.                                                                    *)
ProgramsParse == program # NULL => Accepted /\ result.nodes = <<program>>

(* Reading back what encodeString wrote gives the string again.             *)
EscapesRoundTrip == DecodeString(EncodeString(text)) = text
=============================================================================
