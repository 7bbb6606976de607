--------------------------------- MODULE MCPrf ---------------------------------
(* Small instances of Prf for TLC: files of up to three lines. *)
EXTENDS Prf, FiniteSets

\* "1861", the default port, is one letter here.
MCLetters == {"a", "p", "x", "1861"}

Key(name) == <<name>>
AddrKey == Key("a")
PortKey == Key("p")

\* Lines, without the newline: pairs with and without superfluous spaces and
\* comments, a value of two words, a key alone, comments, nothing.
MCLines == {
  <<"a", "sp", "x">>,
  <<"p", "sp", "x", "hash", "x">>,
  <<"sp", "a", "sp", "sp", "p", "sp", "sp">>,
  <<"x", "sp", "a", "sp", "x", "p">>,
  <<"x", "hash", "a">>,
  <<"x", "sp", "hash">>,
  <<"x", "sp">>,
  <<"p">>,
  <<"hash", "x">>,
  <<"sp", "hash", "a">>,
  <<"sp">>,
  <<>> }

Commented(n) == [j \in 1 .. 2 * n |-> IF j % 2 = 1 THEN "hash" ELSE "nl"]

MCFiles ==
  {<<>>, Commented(6)}
  \cup {k \o <<"nl">> \o l \o end : k, l \in MCLines, end \in {<<>>, <<"nl">>}}
  \cup {k \o <<"nl">> \o l \o <<"nl">> \o m \o <<"nl">> :
          k \in {<<"hash", "x">>, <<"a", "sp", "x">>, <<"p", "sp", "x", "hash", "x">>}, l, m \in MCLines}

MCTyped == {<<>>, <<"x">>, <<"x", "p">>}
================================================================================
