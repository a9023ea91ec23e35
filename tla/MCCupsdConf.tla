---------------------------- MODULE MCCupsdConf -----------------------------
(* Files of up to two lines of any kind, and longer ones with nested,    *)
(* repeated, unfinished and overfinished containers.                       *)
EXTENDS CupsdConf

L == Tag("Location", "/admin")
A == Tag("Limit", "All")
B == Tag("Policy", NoParam)

MCLines == {Begin(L), Begin(B), End, Dir("k", "1"), Dir("k", "2"), Word("m"), Comment}

Nestings == {
    <<Begin(L), Begin(A), Dir("k", "1"), End, Dir("m", "1"), End, Dir("k", "2")>>,
    <<Begin(L), Begin(A), End, End, Begin(L), Dir("k", "1"), End>>,
    <<Begin(L), Dir("k", "1"), End, Begin(L), Begin(A), Dir("k", "2"), End, End>>,
    <<Begin(L), Begin(A), Dir("k", "1"), End, Begin(A), Dir("k", "2"), End, End>>,
    <<Begin(L), Begin(A), Dir("k", "1")>>,
    <<Begin(B), Begin(L), Dir("k", "1"), Dir("k", "2"), End, End, End, Dir("m", "1")>>}

MCFiles == Nestings \union UNION {[1..n -> MCLines] : n \in 0..2}

MCEditedFiles == {<<Begin(L), Dir("k", "2"), End>>, <<>>}

MCWords == {"root", "", "Location", "Limit", "Policy", "/admin", "All",
            "k", "m", "1", "2", "3"}

MCPaths == {<<Root>>, <<Root, L>>, <<Root, L, A>>}

=============================================================================
