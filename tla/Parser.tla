------------------------------- MODULE Parser -------------------------------
(***************************************************************************)
(* The recursive-descent parser (src/compiler/parser.c) with the nodes of  *)
(* the syntax tree (expression.c, statement.c).                            *)
(*                                                                         *)
(* The parser's only state is a position in the list of tokens and the     *)
(* error flag, so every parse function is an operator on the tokens and a  *)
(* position.  Its result is the position after what it consumed, the nodes *)
(* it made and whether has_error is set; after an error the functions      *)
(* return NULL one after the other, and where they stand no longer counts. *)
(***************************************************************************)
EXTENDS Integers, Sequences

Node(type, op, kids) == [type |-> type, op |-> op, kids |-> kids]
NULL == Node("NULL", <<>>, <<>>)

Ok(p, nodes) == [p |-> p, nodes |-> nodes, bad |-> FALSE]
Fail(p)      == [p |-> p, nodes |-> <<>>, bad |-> TRUE]
Made(r, type, op) == IF r.bad THEN r ELSE Ok(r.p, <<Node(type, op, r.nodes)>>)

\* The binary operators of a level bind tighter than those before it.
Levels == << {"or"}, {"and"}, {"==", "!="}, {"<", "<=", ">", ">="},
             {"+", "-"}, {"*", "/", "%"} >>
Prefixes == {"!", "-"}
Literals == {"NUMBER", "STRING", "true", "false", "nil"}

Check(ts, p, type) == p \in DOMAIN ts /\ ts[p].type = type

RECURSIVE ParseAssignment(_, _), ParseStmt(_, _), ParseDeclaration(_, _),
          ParseBlock(_, _, _), ParseItem(_, _, _)

ParseExpr(ts, p) == ParseAssignment(ts, p)

\* Consume a token or parse a part of the grammar, and keep the nodes.  The parts
\* of the grammar refer to each other through here.
ParseItem(ts, p, item) ==
    CASE item = "expression" -> ParseExpr(ts, p)
      [] item = "statement"  -> ParseStmt(ts, p)
      [] item = "block"      -> ParseBlock(ts, p, <<>>)
      [] item = "declaration" -> ParseDeclaration(ts, p)
      [] item = "name" /\ Check(ts, p, "IDENTIFIER") ->
            Ok(p + 1, <<Node("NAME", ts[p].lexeme, <<>>)>>)
      [] OTHER -> IF Check(ts, p, item) THEN Ok(p + 1, <<>>) ELSE Fail(p)

RECURSIVE ParseItems(_, _, _)
ParseItems(ts, p, items) ==
    IF items = <<>> THEN Ok(p, <<>>)
    ELSE LET first == ParseItem(ts, p, Head(items))
             rest  == ParseItems(ts, first.p, Tail(items))
         IN  CASE first.bad -> first
               [] ~first.bad /\ rest.bad -> rest
               [] OTHER -> Ok(rest.p, first.nodes \o rest.nodes)

\* item [, item]* up to the closing token; nothing when it comes at once.
RECURSIVE ParseCommas(_, _, _)
ParseCommas(ts, p, item) ==
    LET first == ParseItem(ts, p, item)
        rest  == ParseCommas(ts, first.p + 1, item)
    IN  CASE first.bad \/ ~Check(ts, first.p, ",") -> first
          [] rest.bad -> rest
          [] OTHER -> Ok(rest.p, first.nodes \o rest.nodes)

ParseList(ts, p, item, close) ==
    IF Check(ts, p, close) THEN Ok(p + 1, <<>>)
    ELSE LET list == ParseCommas(ts, p, item)
             end  == ParseItem(ts, list.p, close)
         IN  IF list.bad \/ end.bad THEN Fail(list.p) ELSE Ok(end.p, list.nodes)
-----------------------------------------------------------------------------
(* Expressions.                                                             *)

ParsePrimary(ts, p) ==
    CASE Check(ts, p, "(") ->
            Made(ParseItems(ts, p + 1, <<"expression", ")">>), "GROUP_EXPR", <<>>)
      [] Check(ts, p, "IDENTIFIER") -> Ok(p + 1, <<Node("VAR_EXPR", ts[p].lexeme, <<>>)>>)
      [] ts[p].type \in Literals -> Ok(p + 1, <<Node("LITERAL_EXPR", ts[p].lexeme, <<>>)>>)
      [] Check(ts, p, "{") -> Made(ParseList(ts, p + 1, "expression", "}"), "ARR_EXPR", <<>>)
      [] OTHER -> Fail(p)

RECURSIVE ParseCall(_, _)
\* Calls and indexes chain to the right of what is called or indexed.
ParseCall(ts, r) ==
    LET more == CASE r.bad -> r
                  [] Check(ts, r.p, "(") -> ParseList(ts, r.p + 1, "expression", ")")
                  [] Check(ts, r.p, "[") -> ParseItems(ts, r.p + 1, <<"expression", "]">>)
                  [] OTHER -> r
    IN  CASE r.bad \/ more.bad -> more
          [] more.p = r.p -> r
          [] OTHER -> ParseCall(ts, Ok(more.p,
                <<Node(IF Check(ts, r.p, "(") THEN "CALL_EXPR" ELSE "INDEX_EXPR",
                       <<>>, r.nodes \o more.nodes)>>))

\* Mutant: one prefix operator only.
ParseUnaryOnce(ts, p) ==
    IF ts[p].type \in Prefixes
    THEN Made(ParseCall(ts, ParsePrimary(ts, p + 1)), "UNARY_EXPR", ts[p].lexeme)
    ELSE ParseCall(ts, ParsePrimary(ts, p))

RECURSIVE ParseUnary(_, _)
ParseUnary(ts, p) ==
    IF ts[p].type \in Prefixes
    THEN Made(ParseUnary(ts, p + 1), "UNARY_EXPR", ts[p].lexeme)
    ELSE ParseCall(ts, ParsePrimary(ts, p))

RECURSIVE ParseBinary(_, _, _), ChainLeft(_, _, _)
\* Mutant: the right operand is parsed at the operator's own level.
ChainRight(ts, left, level) ==
    IF left.bad \/ ts[left.p].type \notin Levels[level] THEN left
    ELSE LET right == ParseBinary(ts, left.p + 1, level)
         IN  IF right.bad THEN right
             ELSE ChainLeft(ts, Ok(right.p,
                    <<Node("BINARY_EXPR", ts[left.p].lexeme, left.nodes \o right.nodes)>>),
                    level)

\* The loop of the functions of one level: operators associate to the left.
ChainLeft(ts, left, level) ==
    IF left.bad \/ ts[left.p].type \notin Levels[level] THEN left
    ELSE LET right == ParseBinary(ts, left.p + 1, level + 1)
         IN  IF right.bad THEN right
             ELSE ChainLeft(ts, Ok(right.p,
                    <<Node("BINARY_EXPR", ts[left.p].lexeme, left.nodes \o right.nodes)>>),
                    level)

\* parseOr down to parseFactor.
ParseBinary(ts, p, level) ==
    IF level > Len(Levels) THEN ParseUnary(ts, p)
    ELSE ChainLeft(ts, ParseBinary(ts, p, level + 1), level)

ParseAssignment(ts, p) ==
    LET left == ParseBinary(ts, p, 1)
        right == ParseAssignment(ts, left.p + 1)
    IN  CASE left.bad \/ ~Check(ts, left.p, "=") -> left
          [] left.nodes[1].type \notin {"VAR_EXPR", "INDEX_EXPR"} -> Fail(left.p)
          [] right.bad -> right
          [] OTHER -> Ok(right.p, <<Node("ASSIGNMENT_EXPR", <<>>, left.nodes \o right.nodes)>>)
-----------------------------------------------------------------------------
(* Statements and declarations.  A part that is left out is NULL.           *)

\* What stands before the token end, if anything does.
ParseOptional(ts, p, item, end) ==
    IF Check(ts, p, end) THEN Ok(p + 1, <<NULL>>) ELSE ParseItems(ts, p, <<item, end>>)

ParseIf(ts, p) ==
    LET then == ParseItems(ts, p, <<"(", "expression", ")", "statement">>)
        else == ParseItem(ts, then.p + 1, "statement")
    IN  CASE then.bad -> then
          [] ~Check(ts, then.p, "else") ->
                Ok(then.p, <<Node("IF_STMT", <<>>, Append(then.nodes, NULL))>>)
          [] else.bad -> else
          [] OTHER -> Ok(else.p, <<Node("IF_STMT", <<>>, then.nodes \o else.nodes)>>)

ParseWhile(ts, p) ==
    LET r == ParseItems(ts, p, <<"(", "expression", ")", "statement">>)
    IN  IF r.bad THEN r
        ELSE Ok(r.p, <<Node("WHILE_STMT", <<>>, Append(r.nodes, NULL))>>)

ParseVarDecl(ts, p) ==
    LET r == ParseItems(ts, p, IF Check(ts, p + 1, "=")
                               THEN <<"name", "=", "expression", ";">> ELSE <<"name", ";">>)
    IN  Made(r, "VAR_DECL", <<>>)

\* Mutant: an initializer that is an expression is not kept.
ParseForVarOnly(ts, p) ==
    LET init == CASE Check(ts, p + 1, ";")   -> Ok(p + 2, <<>>)
                  [] Check(ts, p + 1, "var") -> ParseVarDecl(ts, p + 2)
                  [] OTHER -> ParseItems(ts, p + 1, <<"expression", ";">>)
        kept == IF Check(ts, p + 1, "var") THEN init.nodes ELSE <<>>
        rest == ParseItems(ts, init.p, <<"expression", ";", "expression", ")", "statement">>)
    IN  CASE ~Check(ts, p, "(") -> Fail(p)
          [] Check(ts, p, "(") /\ init.bad -> init
          [] OTHER -> IF rest.bad THEN rest
                      ELSE Ok(rest.p, <<Node("BLOCK_STMT", <<>>, Append(kept,
                             Node("WHILE_STMT", <<>>, <<rest.nodes[1], rest.nodes[3],
                                  Node("EXPR_STMT", <<>>, <<rest.nodes[2]>>)>>)))>>)

\* A for is a block of its initializer and a while with an increment.
ParseFor(ts, p) ==
    LET init == CASE Check(ts, p + 1, ";")   -> Ok(p + 2, <<>>)
                  [] Check(ts, p + 1, "var") -> ParseVarDecl(ts, p + 2)
                  [] OTHER -> Made(ParseItems(ts, p + 1, <<"expression", ";">>),
                                   "EXPR_STMT", <<>>)
        cond == ParseOptional(ts, init.p, "expression", ";")
        incr == ParseOptional(ts, cond.p, "expression", ")")
        body == ParseItem(ts, incr.p, "statement")
        loop == Node("WHILE_STMT", <<>>,
                     cond.nodes \o body.nodes \o <<Node("EXPR_STMT", <<>>, incr.nodes)>>)
    IN  CASE ~Check(ts, p, "(") -> Fail(p)
          [] Check(ts, p, "(") /\ init.bad -> init
          [] OTHER -> IF cond.bad THEN cond
                      ELSE IF incr.bad THEN incr
                      ELSE IF body.bad THEN body
                      ELSE Ok(body.p, <<Node("BLOCK_STMT", <<>>, Append(init.nodes, loop))>>)

ParseFnDecl(ts, p) ==
    LET head == ParseItems(ts, p, <<"name", "(">>)
        args == ParseList(ts, head.p, "name", ")")
        body == ParseItems(ts, args.p, <<"{", "block">>)
    IN  CASE head.bad -> head
          [] ~head.bad /\ args.bad -> args
          [] OTHER -> IF body.bad THEN body
                      ELSE Ok(body.p, <<Node("FN_DECL", <<>>,
                                             head.nodes \o args.nodes \o body.nodes)>>)

\* parseBlock: declarations up to the closing brace.
ParseBlock(ts, p, nodes) ==
    LET next == ParseItem(ts, p, "declaration")
    IN  CASE Check(ts, p, "}")   -> Ok(p + 1, <<Node("BLOCK_STMT", <<>>, nodes)>>)
          [] Check(ts, p, "EOF") -> Fail(p)
          [] OTHER -> IF next.bad THEN next ELSE ParseBlock(ts, next.p, nodes \o next.nodes)

ParseStmt(ts, p) ==
    CASE Check(ts, p, "if")     -> ParseIf(ts, p + 1)
      [] Check(ts, p, "while")  -> ParseWhile(ts, p + 1)
      [] Check(ts, p, "for")    -> ParseFor(ts, p + 1)
      [] Check(ts, p, "{")      -> ParseBlock(ts, p + 1, <<>>)
      [] Check(ts, p, "print")  ->
            Made(ParseItems(ts, p + 1, <<"expression", ";">>), "PRINT_STMT", <<>>)
      [] Check(ts, p, "skip")   -> Made(ParseItem(ts, p + 1, ";"), "SKIP_STMT", <<>>)
      [] Check(ts, p, "break")  -> Made(ParseItem(ts, p + 1, ";"), "BREAK_STMT", <<>>)
      [] Check(ts, p, "return") ->
            Made(ParseOptional(ts, p + 1, "expression", ";"), "RETURN_STMT", <<>>)
      [] OTHER -> Made(ParseItems(ts, p, <<"expression", ";">>), "EXPR_STMT", <<>>)

ParseDeclaration(ts, p) ==
    CASE Check(ts, p, "var") -> ParseVarDecl(ts, p + 1)
      [] Check(ts, p, "fun") -> ParseFnDecl(ts, p + 1)
      [] OTHER -> ParseStmt(ts, p)

\* parse(): all declarations up to the end.
RECURSIVE ParseProgram(_, _, _)
ParseProgram(ts, p, nodes) ==
    LET next == ParseItem(ts, p, "declaration")
    IN  CASE Check(ts, p, "EOF") -> Ok(p, nodes)
          [] OTHER -> IF next.bad THEN next ELSE ParseProgram(ts, next.p, nodes \o next.nodes)
=============================================================================
