------------------------------- MODULE MCJson --------------------------------
EXTENDS JsonReader

MCIntMax == 7

\* Bytes of the texts: a letter, a quote, a backslash, a byte iswprint refuses.
Letter == 97

Latin == 233

Atoms == {Null, Bool(TRUE), Bool(FALSE), Int64(-8), Int64(7), Uint64(9), Uint64(5),
          Str(<<>>), Str(<<Letter>>), Str(<<Letter, Backslash>>),
          Str(<<Backslash, 117>>), Str(<<Latin, Quote>>), Str(<<LF, 9>>)}

Few == {Null, Int64(7), Str(<<Letter>>)}

Flat == {Array(<<>>), Obj(<<>>)}
        \cup {Array(<<v>>) : v \in Few} \cup {Array(<<v, w>>) : v, w \in Few}
        \cup {Obj(<<Pair(<<Letter>>, v)>>) : v \in Few}
        \cup {Obj(<<Pair(<<Letter>>, v), Pair(<<Quote>>, v)>>) : v \in Few}

Inner == {Array(<<>>), Array(<<Null>>), Obj(<<Pair(<<>>, Int64(7))>>)}

Nested == {Array(<<v, w>>) : v \in Inner, w \in Inner \cup {Null}}
          \cup {Obj(<<Pair(<<Letter>>, v), Pair(<<Letter>>, w)>>) :
                  v \in Inner, w \in Inner}
          \cup {Array(<<Array(<<v>>)>>) : v \in Inner}

MCValues == Atoms \cup Flat \cup Nested

MCLexemes == {<<OpenObj>>, <<CloseObj>>, <<OpenArray>>, <<CloseArray>>, <<Comma>>, <<Colon>>,
              <<Quote>>, <<Minus>>, <<Plus>>, <<Zero>>, <<Zero + 1>>, <<Space>>, true}

MCPages == {[refs |-> <<>>, last |-> <<>>], [refs |-> <<<<Letter>>>>, last |-> <<>>],
            [refs |-> <<<<Letter>>, <<Latin>>>>, last |-> <<Latin, Letter>>]}
==============================================================================
