------------------------- MODULE MCServiceLifecycle -------------------------
(* An instance of ServiceLifecycle with descriptions on both sides of what  *)
(* canonicalizeHTML takes.                                                  *)
EXTENDS ServiceLifecycle

Token(c, n) == [char |-> c, layers |-> n]

\* None; ten rounds; tags under two layers; then what is refused: eleven
\* rounds, of text and of a plus; percents, one of them under eleven layers.
MCDescriptions ==
  {<< >>,
   <<Token("text", 10), Token("plus", 9)>>,
   <<Token("markup", 2), Token("plus", 0), Token("markup", 0)>>,
   <<Token("text", 11)>>,
   <<Token("text", 0), Token("plus", 10)>>,
   <<Token("text", 2), Token("percent", 1)>>,
   <<Token("percent", 11)>>}

MCNoDescription == {<< >>}
=============================================================================
