----------------------------- MODULE MCFrontend -----------------------------
(* Keyboards and files for model checking the front end. *)
EXTENDS Frontend

Keyboard(glyphs, length, viable) ==
    [glyphs |-> glyphs, length |-> length, viable |-> viable]

MCKeyboards == {
    Keyboard({"a", "if", "1", ".", "=", "\"", "\\", "\n", " ", "#", "?"}, 4, FALSE),
    Keyboard({"a", "=", "or", "<", "+", "!", "(", ")", "[", "]", "{", "}", ",", ";"}, 5, TRUE),
    Keyboard({"a", "+", ";", "(", ")", "if", "else", "{", "}", "break"}, 7, TRUE),
    Keyboard({"a", ";", "(", ")", "for", "while"}, 9, TRUE),
    Keyboard({"a", " ", "=", ";", "(", ")", "{", "}", "var", "fun"}, 7, TRUE) }

\* Trees of expressions, two operators deep.
Leaf == {Node("VAR_EXPR", <<"a">>, <<>>), Node("LITERAL_EXPR", <<"1">>, <<>>)}
Target == Node("VAR_EXPR", <<"b">>, <<>>)
Operators == {<<"or">>, <<"and">>, <<"!", "=">>, <<">", "=">>, <<"-">>, <<"%">>}

Grow(S, T) ==
         {Node("BINARY_EXPR", op, <<l, r>>) : op \in Operators, l \in S, r \in T}
    \cup {Node("BINARY_EXPR", op, <<l, r>>) : op \in Operators, l \in T, r \in S}
    \cup {Node("UNARY_EXPR", op, <<r>>) : op \in {<<"!">>, <<"-">>}, r \in S}
    \cup {Node("GROUP_EXPR", <<>>, <<e>>) : e \in S}
    \cup {Node("CALL_EXPR", <<>>, <<f>>) : f \in S}
    \cup {Node("CALL_EXPR", <<>>, <<f, x, y>>) : f \in T, x \in S, y \in T}
    \cup {Node("INDEX_EXPR", <<>>, <<v, i>>) : v \in S, i \in T}
    \cup {Node("INDEX_EXPR", <<>>, <<v, i>>) : v \in T, i \in S}
    \cup {Node("ARR_EXPR", <<>>, <<x, y>>) : x \in T, y \in S}
    \cup {Node("ASSIGNMENT_EXPR", <<>>, <<Target, e>>) : e \in S}
    \cup {Node("ASSIGNMENT_EXPR", <<>>, <<e, Target>>) : e \in S}

Expressions == LET one == Grow(Leaf, Leaf) IN Grow(one, Leaf)

\* Trees of statements, two deep.
Cond == Node("VAR_EXPR", <<"a">>, <<>>)
Do(e) == Node("EXPR_STMT", <<>>, <<e>>)
Step == Do(Node("ASSIGNMENT_EXPR", <<>>, <<Target, Cond>>))
Declare == Node("VAR_DECL", <<>>, <<Node("NAME", <<"b">>, <<>>), Cond>>)
Simple == {Step, Node("SKIP_STMT", <<>>, <<>>), Node("RETURN_STMT", <<>>, <<NULL>>),
           Node("PRINT_STMT", <<>>, <<Cond>>), Node("BREAK_STMT", <<>>, <<>>)}

Loop(c, body, increment) == Node("WHILE_STMT", <<>>, <<c, body, increment>>)

Nest(S, T) ==
         {Node("IF_STMT", <<>>, <<Cond, s, NULL>>) : s \in S}
    \cup {Node("IF_STMT", <<>>, <<Cond, s, t>>) : s \in S, t \in T}
    \cup {Node("IF_STMT", <<>>, <<Cond, s, t>>) : s \in T, t \in S}
    \cup {Loop(Cond, s, NULL) : s \in S}
    \cup {Node("BLOCK_STMT", <<>>, <<Declare, s>>) : s \in S}
    \cup {Node("BLOCK_STMT", <<>>, <<Loop(c, s, Do(i))>>) :
             s \in S, c \in {NULL, Cond}, i \in {NULL, Cond}}
    \cup {Node("BLOCK_STMT", <<>>, <<d, Loop(Cond, s, Do(Cond))>>) :
             s \in S, d \in {Declare, Step}}
    \cup {Node("FN_DECL", <<>>, <<Node("NAME", <<"n">>, <<>>), Node("NAME", <<"b">>, <<>>),
                                  Node("BLOCK_STMT", <<>>, <<s>>)>>) : s \in S}

Statements == LET one == Nest(Simple, Simple) IN one \cup Nest(one, {Step})

\* A declaration stands in a block or at the top only.
RECURSIVE Placed(_)
Placed(n) == /\ \A i \in DOMAIN n.kids : Placed(n.kids[i])
             /\ n.type \in {"IF_STMT", "WHILE_STMT"} =>
                   \A i \in DOMAIN n.kids : n.kids[i].type \notin {"VAR_DECL", "FN_DECL"}

\* An expression that starts with an array is no statement: its brace opens a block.
Prints == {Node("PRINT_STMT", <<>>, <<e>>) : e \in Expressions}
MCPrograms == {n \in Statements \cup Prints : Binds(n) /\ Placed(n)}
=============================================================================
