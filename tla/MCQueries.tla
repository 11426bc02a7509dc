------------------------------ MODULE MCQueries ------------------------------
(***************************************************************************)
(* A small instance of Queries for TLC: one of each query.                 *)
(***************************************************************************)
EXTENDS Queries, TLC

Symbol(i, t) == [ident |-> i, text |-> t]

\* "none" has no symbol but mentions f; "both" has two, mentions f outside of them, and
\* imports both paths and a package.  Path 2 is the test of path 1.
Extraction ==
    ("none" :> <<>>) @@ ("both" :> <<Symbol("g", "g1"), Symbol("f", "f1")>>)

MCSymbolsOf  == [c \in Content |-> Extraction[c]]
MCImportsOf  == [c \in Content |-> IF c = "both" THEN Specifier ELSE {}]
MCCandidates == [x \in (Path \cup {Root}) \X Specifier |-> IF x[2] = "a" THEN <<1>> ELSE <<2>>]
MCImplsOf    == [p \in Path |-> IF p = 2 THEN <<1>> ELSE <<>>]
MCNameOf     == [i \in Ident |-> i]
MCMentions   == [c \in Content |-> {"f"}]
MCPackagesOf == [c \in Content |-> IF c = "both" THEN Package ELSE {}]

MCMemoryVec == {[owner |-> "memory", id |-> 1, model |-> m, of |-> <<"memory", 1>>] : m \in Model}

MCAsks ==
    {[kind |-> "search", names |-> {"f"}, path |-> 1, within |-> {}, max |-> 2],
     [kind |-> "symbol", names |-> {"f", "g"}, path |-> 1, within |-> Path, max |-> 0],
     [kind |-> "file", names |-> {}, path |-> 1, within |-> {}, max |-> 0],
     [kind |-> "file", names |-> {}, path |-> 2, within |-> {}, max |-> 0],
     [kind |-> "graph", names |-> {}, path |-> 1, within |-> Path, max |-> 1],
     [kind |-> "graph", names |-> {}, path |-> 1, within |-> Path, max |-> 2]}

\* Bounds: the owners a search has found are fetched in the order of their ids, and once
\* something has changed under it, nothing else happens after its ranking.  Neither is seen
\* by any property: without changes the order makes no difference, and after one only
\* which hits there are is looked at.
SearchInOrder ==
    /\ query.at \in {"symbols", "files", "matches"} /\ query'.at = query.at =>
        \A n \in query.ids \ query'.ids, m \in query'.ids : n.grain = m.grain => n.id < m.id
    /\ query.at = "locate" /\ query.ask.kind = "search" /\ ~query.quiet =>
        query' # query

\* Bounds: the first run is a full one that meets no edit and no query; queries are
\* made before it and from its end on.  A memory is embedded right after that run or not
\* at all, removed between the two searches for vectors or not at all, and meets only
\* searches by vectors.  An answer is taken away at once, and nothing after the last
\* answer matters.
FirstRunThenQueries ==
    /\ runs' # runs /\ runs = 0 => query.at = "idle" /\ \A p \in Proc : run'[p].mode = "full"
    /\ edits' # edits \/ asked' > asked => runs # 1 \/ Settled
    /\ edits' # edits => runs # 0
    /\ memvecs' # memvecs =>
        runs = 1 /\ Settled /\ edits = 0 /\ query.at = IF memvecs = {} THEN "idle" ELSE "symbols"
    /\ memvecs # {} /\ asked' > asked => query'.semantic
    /\ query.at = "done" => query' = NoQuery
    /\ ~(query.at = "idle" /\ asked = MaxQueries)
=============================================================================
