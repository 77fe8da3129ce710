------------------------------ MODULE MC_MMLink ------------------------------
EXTENDS MMLink

\* Every stream of up to MC_Len bytes, and longer ones: a bound session with an empty line, a NOOP, an unknown command and a
\* line that needs two receives, then data; a longer one; a wrong handle; a pipe before
\* binding; a stream that ends inside a line.
MC_Len == 5

MC_Streams ==
    SeqOf({"H", "N", "X", "|", "\n"}, MC_Len) \cup
    { <<"H", "\n", "\n", "N", "X", "\n", "X", "\n", "|", "N", "X">>,
      <<"X", "\n", "H", "\n">>,
      <<"\n", "|", "N">>,
      <<"H", "\n", "N", "\n", "N">>,
      <<"H", "\n", "X", "N", "\n", "N", "\n", "\n", "N", "X", "X", "\n",
        "X", "\n", "|", "X", "N", "\n", "X", "N">> }

\* A stream whose lines all fit the buffer: every BufSize consecutive
\* bytes hold a line end.
MC_Fits(s) ==
    \A i \in 1..(Len(s) + 1 - BufSize) :
        \E j \in i..(i + BufSize - 1) : s[j] = "\n"

MC_StreamsFit == {s \in MC_Streams : MC_Fits(s)}

=============================================================================
