------------------------------- MODULE MCJson -------------------------------
(* Json with every text of a few tokens, and a program that makes a few    *)
(* calls.  Texts are spelled by tokens, a token being one character or a   *)
(* few that belong together.                                               *)
EXTENDS JsonAccess

CONSTANTS
    MaxTokens,   \* tokens of a text, behind those it may begin with
    MaxCharacters  \* characters within quotes, or of a number

Spelled(tokens) == FlattenSeq(tokens) \o <<0>>

One == <<49>>
Letter == <<97>>
UnicodeEscape == <<Backslash, 117, 52, 49, 52, 97>>  \* \u414a

ListTokens ==
    {<<c>> : c \in {OpenArray, CloseArray, OpenObject, CloseObject, Colon, Comma, Quote}}
    \union {One, TrueWord}

StringTokens == {<<Quote>>, <<Backslash>>, Letter, UnicodeEscape, <<110>>, <<117>>}

NumberTokens == {<<Minus>>, <<48>>, One, <<Dot>>, <<101>>}

MCTexts ==
    {Spelled(<<begun>> \o s) :
        begun \in {<<>>, <<OpenObject>>, <<OpenObject, Quote, Quote>>,
                   <<OpenObject, Quote, Quote, Colon, 49>>, <<OpenArray, 49, Comma>>,
                   <<OpenArray, OpenObject>>},
        s \in SeqOf(ListTokens, MaxTokens)}
    \union {Spelled(<<<<Quote>>>> \o s) : s \in SeqOf(StringTokens, MaxCharacters)}
    \union {Spelled(s) : s \in SeqOf(NumberTokens, MaxCharacters)}
    \union {Spelled(<<begun>> \o s) :
               begun \in {<<49, Dot, 101>>, <<49, Dot, 101, Minus>>, <<49, Dot, 101, 43>>,
                          <<Minus, 49, Dot, 49, 69, Minus>>},
               s \in SeqOf(NumberTokens, 1)}

Quoted(c) == <<Quote, c, Quote>>

\* {"a":{"b":1}, "b":"a"}, ["a", "b"], [1]
MCSamples ==
    {Spelled(s) : s \in {
        <<<<OpenObject>>, Quoted(97), <<Colon, OpenObject>>, Quoted(98), <<Colon>>, One,
          <<CloseObject, Comma, 32>>, Quoted(98), <<Colon>>, Quoted(97), <<CloseObject>>>>,
        <<<<OpenArray>>, Quoted(97), <<Comma, 32>>, Quoted(98), <<CloseArray>>>>,
        <<<<OpenArray>>, One, <<CloseArray>>>>}}

\* No digits, and digits.
MCBehind == {<<0, 0, 0>>, <<52, 49, 52>>}

MCStrings == {<<Backslash>>, <<Quote, Backslash, 97>>}

MCMemory == 1..33

MCInts == {-10}

MCFloats == {150, -25}
=============================================================================
