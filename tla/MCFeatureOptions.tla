-------------------------- MODULE MCFeatureOptions --------------------------
EXTENDS FeatureOptions, TLC

CONSTANT MaxLoad  \* entries in a configuration that is loaded

MCLowerCase == "A" :> "a" @@ "V" :> "v"
MCIds == {<<"v">>, <<"w">>}

AB == <<"A", ".", "b">>
Md == <<"m", ".", "d">>

Option(name, defaultValue, default, scopes) ==
  [name |-> name, valued |-> defaultValue # <<>>, defaultValue |-> defaultValue,
   default |-> default, scopes |-> scopes, group |-> <<>>]
Default == <<<<"0">>>>

\* Two catalogs: A with A.b below it, and Ab, which only begins with the
\* same letter; then without A.b, and with Ab no value option any more.
\* m.s is in the group of m.d.
MCOptionMaps ==
  LET m(o) == <<"m">> :> {o, [Option(<<"s">>, <<>>, TRUE, {}) EXCEPT !.group = <<<<"d">>>>]} IN
  {<<"A">> :> {Option(<<>>, Default, FALSE, {}),
               Option(<<"b">>, Default, TRUE, {"device", "global"})}
     @@ <<"A", "b">> :> {Option(<<>>, Default, TRUE, {"device"})}
     @@ m(Option(<<"d">>, <<>>, TRUE, {})),
   <<"A">> :> {Option(<<>>, Default, FALSE, {})}
     @@ <<"A", "b">> :> {Option(<<>>, <<>>, TRUE, {})}
     @@ m(Option(<<"d">>, <<>>, FALSE, {"controller"}))}

MCCategories == {{<<"A">>, <<"A", "b">>, <<"m">>}, {<<"A", "b">>, <<"m">>, <<"z">>}}

\* What stands behind "Enable." in files written by the page or by hand.
Enabled ==
  {AB, Md, <<"A">>} \cup {Md \o <<".", "v">>} \cup
  {<<"A">> \o t : t \in
     {<<".", "v">>, <<".", "v", "=">>, <<".", "=", "x">>, <<".", "v", ".", "=">>,
      <<"=">>, <<" ", "=", " ", "x">>, <<".", "V", "=", "x">>,
      <<".", "v", " ", "=", ".", "x">>, 
      <<".", "v", ".", " ", "w", "=", "x">>}} \cup
  {AB \o t : t \in {<<".", "v">>, <<"=", "x">>, <<".", "v", "=", "x">>}} \cup
  {<<"A", "b">> \o t : t \in {<<>>, <<".", "v", "=", "x">>, <<".", "x">>}}

Disabled == {<<"A">>, <<"a", ".", "V">>, AB, Md \o <<".", "v">>}

Pool == {[action |-> "enable", tail |-> t] : t \in Enabled}
          \cup {[action |-> "disable", tail |-> t] : t \in Disabled}
          \cup {[action |-> "none", tail |-> <<"A", "=", "x">>]}

\* Entries of options with different first letters have no key in common.
MCLoads ==
  UNION {{f \in [1..n -> Pool] : \A i \in 1..n : Lower(f[i].tail)[1] = Lower(f[1].tail)[1]}
           : n \in 0..MaxLoad}

Args == [option : {<<"a">>, AB, Md}, id : {<<>>, <<"V">>}]
          \cup [option : {<<"A", "b">>}, id : {<<"V">>}]

MCClears == Args
\* Off, with a value that is not kept; on, with none, with one that does not
\* count, and with one that needs trimming.
MCSets ==
  {[option |-> a.option, id |-> a.id, enabled |-> v # <<<<"0">>>>, value |-> v] :
     a \in Args, v \in {<<<<"0">>>>, <<>>, <<<<" ", "=">>>>, <<<<"=", ".", "y", " ">>>>}}
=============================================================================
