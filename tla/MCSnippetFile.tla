--------------------------- MODULE MCSnippetFile ---------------------------
EXTENDS SnippetFile

CONSTANTS w1, w2, short, long, longer

\* "listen 80;" is shorter than "listen 8080;"
Sizes == [c \in Contents |-> CASE c = short -> 1 [] c = long -> 2 [] OTHER -> 3]

=============================================================================
