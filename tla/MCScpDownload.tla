--------------------------- MODULE MCScpDownload ---------------------------
(* Instances of ScpDownload for TLC: files whose bytes are characters, one  *)
(* or two of them; what the loop has a case for, and what it has none for.  *)
EXTENDS ScpDownload

File(c)       == [kind |-> "file", content |-> c, fate |-> "sent"]
Unreadable(c) == [File(c) EXCEPT !.fate = "unreadable"]
Cut(c)        == [File(c) EXCEPT !.fate = "cut"]
Other(kind)   == [File(<<>>) EXCEPT !.kind = kind]

A(k) == [i \in 1..k |-> "a"]

MCScripts ==
    {<<>>, <<Other("warning")>>, <<Other("dir")>>, <<File(<<>>)>>,
     <<File(A(3))>>, <<File(A(1)), File(A(4))>>, <<File(A(3)), File(A(2))>>,
     <<Unreadable(A(2))>>, <<File(A(2)), Unreadable(A(3))>>,
     <<Cut(A(3))>>, <<File(A(2)), Cut(A(3))>>, <<Cut(<<"L", "C", "a">>)>>,
     <<File(A(5))>>, <<File(A(2)), File(<<"L", "C", "a">>)>>,
     <<File(<<"a", "L", "C", "a">>)>>, <<File(<<"C", "L">>), File(<<"a", "L", "C">>)>>,
     <<Other("warning"), File(A(3))>>, <<File(A(2)), Other("dir")>>,
     <<Other("dir"), File(A(2))>>, <<File(A(1)), Other("warning"), File(A(2))>>}
=============================================================================
