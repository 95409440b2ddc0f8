---------------------------- MODULE MCByteStream ----------------------------
(* TLC instance of ByteStream: bytes of four values, lengths of two bytes.  *)
EXTENDS ByteStream, TLC

MCCode == [FileStartAsk |-> 1, FileStartReply |-> 2, FileContentAsk |-> 3,
           FileContentReply |-> 4, FileEndAsk |-> 6, FileEndReply |-> 7, Heartbeat |-> 9]

\* Empty and longer texts, the smallest and the largest numbers.
MCBodies == {<<"FileStartAsk", <<<<1>>, <<>>, 6, <<2>>>>>>,
             <<"FileStartReply", <<0, 15>>>>,
             <<"FileContentAsk", <<4, <<3, 1>>>>>>,
             <<"FileContentReply", <<9, 0>>>>,
             <<"FileEndAsk", <<<<3>>>>>>, <<"FileEndReply", <<5>>>>,
             <<"FileContentAsk", <<0, [i \in 1..12 |-> 1]>>>>}

\* Empty, with a start byte in it, and too long for the codec or for both.
MCPayloads == {<<>>, <<2, 3>>, [i \in 1..14 |-> 1], [i \in 1..16 |-> 1]}

\* Two glyphs of two columns and three rows, and one that is missing.
MCGlyphs == [a |-> <<3, 1, 3>>, b |-> <<1, 2, 1>>]
MCMissingGlyph == <<3, 2, 3>>

\* Cut on the right in the middle of a byte, above and below, centred on a panel
\* that is too low, past the right edge, on panels too large to be sent, and at a
\* row that is another one as i32.
MCTexts ==
  {[text |-> <<"a", "?">>, width |-> 3, height |-> 3, layout |-> TextLayout(0, 0, Centred)],
   [text |-> <<"b", "a">>, width |-> 5, height |-> 2, layout |-> TextLayout(1, 1, Centred)],
   [text |-> <<"a", "b", "?">>, width |-> 3, height |-> 4, layout |-> TextLayout(1, 2, 2)],
   [text |-> <<"a">>, width |-> 5, height |-> 5, layout |-> TextLayout(1, 0, 0)],
   [text |-> <<"a">>, width |-> 3, height |-> 2, layout |-> TextLayout(1, 0, 30)],
   [text |-> <<>>, width |-> 16, height |-> 0, layout |-> TextLayout(1, 0, 0)]}

\* A length that does not count the command, an unknown command, and a name
\* that is not UTF-8.
MCStrays == {<<1, 0>>, <<2, 0, 3, 3>>, <<2, 2, 1, 0, 1, 0, 3, 0, 0, 2, 1, 2>>}
=============================================================================
