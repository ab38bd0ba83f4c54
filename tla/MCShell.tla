------------------------------ MODULE MCShell ------------------------------
(* Shell with a few lines to type and a disk with scripts on it.            *)
EXTENDS Shell

\* The cells of a line with the given words.
LineOf(words) ==
  [i \in 1..(2 * Len(words) - 1) |-> IF i % 2 = 1 THEN words[(i + 1) \div 2] ELSE SP]

Cells == {"user", "a", "b", "0", "mf", "md", "cd", "rmf", "rmd", "mv", "trc", "wt",
          "run", "exit", "ls", "upups", "far", "?"}
         \cup Name \cup {"u", NL, SP, HASH, NUL}
Texts == Seq(Cells)
NoText == <<>>
NoChange == {}

\* From the root "far" just fits into PathSize; anywhere else it is cut.
Climbs == [upups |-> <<"..", "/", "..", "/", "u">>,
           far |-> <<".", "/", ".", "/", ".", "/", ".", "/", ".", "/", "d">>]

\* s runs t: exec_script of s goes on in the middle of the second line of t.
\* u runs itself, and v has a line behind a comment and a blank one.
Scripts == [s |-> <<"run", SP, "t", NL, "ls", NL, "ls">>,
            t |-> <<"exit", NL, SP, "mf", SP, "d">>,
            u |-> <<"run", SP, "u">>,
            v |-> <<HASH, "a", NL, "md", SP, "d", NL, NL, "rmd", SP, "d">>]
RootPaths(names) == {<<n>> : n \in names}
Nesting == [p \in RootPaths({"s", "t", "u"}) |-> Scripts[p[1]]]
Flat == [p \in RootPaths({"v"}) |-> Scripts[p[1]]]

Lines(lines) == {LineOf(w) : w \in lines}
SomeCommands == Lines({
  <<"md", "d">>, <<"cd", "d">>, <<"rmd", "far">>, <<"mv", "s", "far">>, <<"mf", "upups">>,
  <<"wt", "d", "a">>, <<"trc", "u", "0">>, <<"rmf", "u">>, <<"run", "s">>, <<"run", "u">>,
  <<"wt", "s", "a", "b", "a">>, <<"exit">>})

\* Where a damaged disk shows: a stray write reaches these, and leaves this.
Hit == {<<"OPT", "USERNAME">>}
Left == {}

RunV == Lines({<<"run", "v">>})
=============================================================================
