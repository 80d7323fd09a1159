-------------------------------- MODULE MCB81 --------------------------------
(* Small instance of B81: every line of up to five tokens, and every text of *)
(* up to four short ones.                                                    *)
EXTENDS B81

Line(m, b) == [mark |-> m, cont |-> FALSE, body |-> b]
Tokens == {"q", "e", "rem", "goto", "dig", "let", "@a"}
Bodies == UNION {[1..n -> Tokens] : n \in 1..5}
OneLine == {<<Line(<<"label", "@a">>, <<>>), Line(<<"text">>, b)>> : b \in Bodies}

Shorts ==
  {Line(<<"blank">>, <<>>), Line(<<"start", 2>>, <<>>),
   Line(<<"num", 3>>, <<"let">>), Line(<<"num", 4>>, <<>>),
   Line(<<"far", 3>>, <<"let">>), Line(<<"comment">>, <<"let">>),
   Line(<<"label", "@a">>, <<>>), Line(<<"label", "@b">>, <<"goto", "@a">>),
   Line(<<"label", "@c">>, <<"let">>), Line(<<"text">>, <<"goto", "@b">>),
   [Line(<<"text">>, <<"word", "dig">>) EXCEPT !.cont = TRUE]}
Texts == UNION {[1..n -> Shorts] : n \in 1..4}
AllListings == OneLine \cup Texts
==============================================================================
