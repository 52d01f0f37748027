----------------------------- MODULE MCCodegen -----------------------------
(* Small programs for model checking the code generator. *)
EXTENDS CodeRun

Made(kinds, numbers, arrays, locals, depth, statements) ==
    [kinds |-> kinds, numbers |-> numbers, arrays |-> arrays,
     locals |-> locals, depth |-> depth, left |-> statements]

MCProfiles == {
    Made({"expr", "set global", "if", "while", "for", "break", "skip"}, {1}, {}, 0, 4, 5),
    Made({"block", "var", "if", "while", "break", "skip"}, {1}, {}, 1, 4, 5),
    Made({"block", "var", "expr", "print", "set local", "sum", "if"}, {1, 2}, {}, 2, 3, 5),
    Made({"fun", "return", "var", "while", "break"}, {1}, {}, 1, 4, 5),
    Made({"block", "var", "print", "expr", "call", "while"}, {1}, {0, 3}, 1, 3, 4) }

\* A break in a function that is declared in a loop.
MCBreaks == {Made({"while", "block", "fun", "break"}, {}, {}, 1, 4, 4)}
=============================================================================
