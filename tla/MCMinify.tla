------------------------------ MODULE MCMinify ------------------------------
(* Small instances of Minify for TLC. *)
EXTENDS Minify

Quoted(text) == <<"quote">> \o text \o <<"quote">>

Strings == {Quoted(t) : t \in
    {<<>>, <<"blank">>, <<"/", "/">>, <<"backslash", "quote">>, <<"backslash", "x", "blank">>,
     <<"x", "backslash", "quote", "blank">>, <<"backslash", "quote", "backslash", "quote">>}}

Comments ==
    {<<"/", "/", "newline">>, <<"/", "/", "quote", "/", "*", "newline">>, <<"/", "*", "*", "/">>,
     <<"/", "*", "/", "newline", "quote", "*", "*", "/">>}

Others == {<<"blank">>, <<"newline">>, <<"x">>}

\* texts of whole lexemes
WholeDocuments == SeqOf(Strings \cup Comments \cup Others, 4)

\* any text: comments and strings without an end, slashes and escapes anywhere
AnyDocuments == {<<t>> : t \in SeqOf(Symbol, 5)}

MCDocuments == WholeDocuments \cup AnyDocuments
=============================================================================
