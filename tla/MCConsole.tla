----------------------------- MODULE MCConsole -----------------------------
(* Model checking of Console: what a command may print.                      *)
EXTENDS Console

\* Nothing; a text without its newline; enough lines to scroll.
MCOutputs == {<<>>, <<"x">>, <<Enter, Enter>>}

=============================================================================
