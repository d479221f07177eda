----------------------------- MODULE MCLibrary -----------------------------
(* Small values for the constants of the library's parts. *)
EXTENDS Library

\* Between two heap calls the end is anywhere in a word.
SomeIncrements == {-3, -1, 0, 1, 2, 4, 7}

\* Mount points with and without a trailing "/", one inside another, one whose
\* name begins like another's, and the root.
SomeNames ==
  {<<"/">>, <<"/", "a">>, <<"/", "a", "/">>, <<"/", "a", "b">>,
   <<"/", "a", "/", "b">>}

\* Every path of up to four characters that begins with "/", and others.
SomePaths ==
  {<<>>, <<"a">>} \union
    {<<"/">> \o s : s \in UNION {[1 .. n -> {"/", "a", "b"}] : n \in 0 .. 3}}

SomeStray == {"/", End, "b"}

\* The second begins and is nearly over.
SomeTimes == {Time(0, 0), Time(0, 9), Time(2, 3)}

\* Every function is in the same bucket: the list has entries to pass over.
OneBucket == [f \in Functions |-> 0]

\* Zero, the digits' edges, each power of a base, the sign bit and all bits set.
SomeValues ==
  {0, 1, 7, 8, 9, 10, 15, 16, 17, 99, 100, 127, 128, 129, 160, 255}

\* The FIFO full, half full and empty, with one flag or none.
SomeControls ==
  {[f \in {"RE", "WE", "RI", "WI", "AC"} |-> IF f = one THEN 1 ELSE 0]
     @@ [WSPACE |-> w] :
     one \in {"RE", "WE", "RI", "WI", "AC", "none"}, w \in {0, 9, 64}}
=============================================================================
