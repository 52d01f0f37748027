------------------------------ MODULE Session ------------------------------
(***************************************************************************)
(* A session of the interpreter: what main, repl, interpretFile, interpret *)
(* and compile keep from one source text to the next.  The texts           *)
(* themselves are abstract: a line is known by the stage that ends it.     *)
(*                                                                         *)
(* The compiler's data live in C variables outside the functions: the      *)
(* loop stack, the pools of scopes, symbols and function infos, and        *)
(* compile_error.  A block of memory is a number.                          *)
(***************************************************************************)
EXTENDS Integers, Sequences

CONSTANTS MaxLines,    \* bound: source texts in a session
          MaxBlocks    \* bound: scopes, symbols and functions of a text

Pools == {"scopes", "symbols", "fns"}
NULL == 0

VARIABLES phase,         \* "prompt", "compiling", "running" or "ended"
          lines,         \* texts left
          pool,          \* the blocks that the head of each pool leads to
          loops,         \* compiler.loops.loops
          blocks,        \* blocks allocated so far
          freed,         \* how often each block was freed
          compileError,  \* compile_error
          gcEnabled,     \* vm->gc.enabled
          frameCount,    \* vm->frame_count
          hasError       \* vm->has_error

vars == <<phase, lines, pool, loops, blocks, freed, compileError, gcEnabled, frameCount, hasError>>

Init == /\ phase = "prompt" /\ lines = MaxLines
        /\ pool = [p \in Pools |-> <<>>] /\ loops = NULL
        /\ blocks = 0 /\ freed = <<>>
        /\ compileError = FALSE /\ gcEnabled = TRUE
        /\ frameCount = 1 /\ hasError = FALSE
-----------------------------------------------------------------------------
(* Memory.  After a second free the behaviour is undefined, so the model    *)
(* stops there.                                                             *)

Sound == \A b \in DOMAIN freed : freed[b] <= 1
Times(s, b) == Len(SelectSeq(s, LAMBDA c : c = b))

\* freeCompiler: neither the heads of the pools nor loops are reset.
Held(pools, array) == pools["scopes"] \o pools["symbols"] \o pools["fns"]
                      \o IF array = NULL THEN <<>> ELSE <<array>>
FreeCompiler(held, counts) == [b \in DOMAIN counts |-> counts[b] + Times(held, b)]

\* initCompiler and resolve: n blocks for each pool on top of what its head
\* leads to, and a new array for the loop stack.
Chain(first, n) == [i \in 1..n |-> first + i]
Allocate(n) ==
    /\ loops' = blocks + 1
    /\ pool' = [scopes  |-> Chain(blocks + 1, n["scopes"]) \o pool["scopes"],
                symbols |-> Chain(blocks + 1 + n["scopes"], n["symbols"]) \o pool["symbols"],
                fns     |-> Chain(blocks + 1 + n["scopes"] + n["symbols"], n["fns"]) \o pool["fns"]]
    /\ blocks' = blocks + 1 + n["scopes"] + n["symbols"] + n["fns"]
Grown == freed \o [i \in 1..(blocks' - blocks) |-> 0]
-----------------------------------------------------------------------------
\* repl and interpretFile: interpret turns the collector off and compiles.
Read == /\ phase = "prompt" /\ lines > 0 /\ Sound
        /\ lines' = lines - 1
        /\ phase' = "compiling" /\ gcEnabled' = FALSE
        /\ UNCHANGED <<pool, loops, blocks, freed, compileError, frameCount, hasError>>

\* An empty line or the end of the file.
Leave == /\ phase = "prompt" /\ phase' = "ended"
         /\ UNCHANGED <<lines, pool, loops, blocks, freed, compileError, gcEnabled,
                        frameCount, hasError>>

\* The scanner or the parser ends compile before initCompiler, not before
\* freeCompiler.
RejectText ==
    /\ phase = "compiling" /\ phase' = "prompt"
    /\ freed' = FreeCompiler(Held(pool, loops), freed)
    /\ UNCHANGED <<lines, pool, loops, blocks, compileError, gcEnabled, frameCount, hasError>>

\* The resolver rejects the text, or the code generator does; compile_error
\* is not cleared, so after one error of the generator it rejects every text.
RejectProgram(n) ==
    /\ phase = "compiling" /\ phase' = "prompt"
    /\ Allocate(n) /\ freed' = FreeCompiler(Held(pool', loops'), Grown)
    /\ compileError' \in {compileError, TRUE}
    /\ UNCHANGED <<lines, gcEnabled, frameCount, hasError>>

Accept(n) ==
    /\ phase = "compiling" /\ ~compileError /\ phase' = "running"
    /\ Allocate(n) /\ freed' = FreeCompiler(Held(pool', loops'), Grown)
    /\ gcEnabled' = TRUE
    /\ UNCHANGED <<lines, compileError, frameCount, hasError>>

\* vmInterpret does not set frame_count; runtimeError does.
RunEnds == /\ phase = "running" /\ phase' = "prompt"
           /\ \/ frameCount' = frameCount - 1 /\ UNCHANGED hasError
              \/ frameCount' = 1 /\ hasError' = TRUE
           /\ UNCHANGED <<lines, pool, loops, blocks, freed, compileError, gcEnabled>>

Next == \/ Read \/ Leave \/ RejectText \/ RunEnds
        \/ \E n \in [Pools -> 0..MaxBlocks] :
              n["scopes"] > 0 /\ n["symbols"] > 0 /\ (RejectProgram(n) \/ Accept(n))

Spec == Init /\ [][Next]_vars
-----------------------------------------------------------------------------
(* Every block of the compiler is freed once: "the pointer ownership model  *)
(* here is sound" (README.md:7).                                            *)
FreedOnce == \A b \in DOMAIN freed : freed[b] <= 1
=============================================================================
