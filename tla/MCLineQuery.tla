---------------------------- MODULE MCLineQuery -----------------------------
(****************************************************************************)
(* Every program on every text of at most four letters and newlines, and on *)
(* a few longer ones; programs that look at blanks get texts with blanks.   *)
(* The user types one line about most texts, two about MCTalk.              *)
(****************************************************************************)
EXTENDS LineQuery

TextsOver(bytes, n) == UNION {[1 .. m -> bytes] : m \in 0 .. n}

x == Letter
nl == Newline
\* A piece that ends with its line, and one that does not; lines across two
\* reads; a last line that is too long only with the one before it; a line
\* behind an array that is full.
MCLonger == {<<x, x, x, nl, x>>, <<x, nl, x, nl, x>>, <<x, x, x, x, x>>,
             <<x, nl, x, x, nl, x>>, <<x, x, nl, x, x>>, <<nl, nl, nl, nl, x>>}
MCBlanks == {<<Blank, x, nl, Blank, x>>, <<Blank, nl, x, Blank>>, <<Blank, Blank, x>>}
MCTalk == {<<>>, <<x, nl, x, nl>>}

MCPrograms == AllPrograms
MCTexts == TextsOver({x, nl}, 4) \union MCLonger \union MCTalk
MCFiles == [p \in AllPrograms |-> MCTexts \union (IF p.blanks THEN MCBlanks ELSE {})]

MCNumbers == {0, 1, 2}
MCShort == {<<n>> : n \in (-1 .. 6) \union {48}}
MCOdd == {<<>>, <<Junk>>, <<1, 2>>, <<Junk, 1>>}
MCTwo == {<<a, b>> : a \in {<<1>>, <<2>>, <<9>>, <<Junk>>, <<1, 2>>, <<>>},
                     b \in {<<0>>, <<2>>, <<Junk>>}}
MCTyping == [t \in MCTexts \union MCBlanks |->
  {<<>>} \union {<<l>> : l \in MCShort \union (IF t \in MCTalk THEN MCOdd ELSE {})}
         \union (IF t \in MCTalk THEN MCTwo ELSE {})]
=============================================================================
