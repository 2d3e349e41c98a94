------------------------------ MODULE MCNodeControl ------------------------------
EXTENDS NodeControl

CONSTANTS s1, s2

\* The sessions: what an operator does alone, and two at once
Alone == {<<"start", "snapshot", "import">>, <<"start", "restart", "export">>, <<"setup", "dbstop", "dbstart">>,
          <<"start", "kill", "start", "stop">>}
Pairs == {<<<<"start">>, <<"restart">>>>, <<<<"start">>, <<"export">>>>, <<<<"export">>, <<"import">>>>, <<<<"export">>, <<"export">>>>}
MCPlans ==
  {[c \in Shells |-> IF c = s1 THEN commands ELSE <<>>] : commands \in Alone}
  \cup {[c \in Shells |-> IF c = s1 THEN pair[1] ELSE pair[2]] : pair \in Pairs}

MCHeights == {1, 3}

=============================================================================
