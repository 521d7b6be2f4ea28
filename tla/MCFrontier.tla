----------------------------- MODULE MCFrontier -----------------------------
EXTENDS Frontier
\* Pages with links to each other and out of scope; from URL 1, a redirect
\* leads to 3 and 4 before any link does.
MCLinks == [u \in Urls |-> CASE u = 1 -> {2} [] u = 2 -> {1, 5} [] u = 3 -> {2, 4} [] OTHER -> {3}]
MCSeedLists == {<<1>>, <<1, 1>>, <<1, 5, 4>>}
=============================================================================
