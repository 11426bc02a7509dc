------------------------------ MODULE MCReindex ------------------------------
(***************************************************************************)
(* Small instances of Reindex for TLC.                                     *)
(***************************************************************************)
EXTENDS Reindex, TLC

\* Contents.  "none" has no symbols (a document, a manifest); "one" and "both"
\* share the text of f, so that a vector can be carried from one to the other;
\* "body" has f with another body; "blob" is binary.
Symbol(i, t) == [ident |-> i, text |-> t]

Extraction ==
    ("none" :> <<>>) @@ ("blob" :> <<>>)
      @@ ("one"  :> <<Symbol("f", "f1")>>)
      @@ ("both" :> <<Symbol("g", "g1"), Symbol("f", "f1")>>)
      @@ ("body" :> <<Symbol("f", "f2")>>)

MCSymbolsOf == [c \in Content |-> Extraction[c]]

\* All paths are in the root directory.  "one" imports "b", which means path 2 or, where
\* there is none, path 3; "both" imports "a" as well, which means path 1.  If there are
\* but two paths, the second is the test of the first.
MCSpecifier == {"a", "b"}
MCImportsOf ==
    [c \in Content |-> CASE c = "one" -> {"b"} [] c = "both" -> {"a", "b"} [] OTHER -> {}]
There(paths) == SelectSeq(paths, LAMBDA p : p \in Path)
MCCandidates ==
    [x \in (Path \cup {Root}) \X Specifier |-> There(IF x[2] = "a" THEN <<1>> ELSE <<2, 3>>)]
MCImplsOf == [p \in Path |-> IF p = 2 /\ 3 \notin Path THEN <<1>> ELSE <<>>]

Processes == Permutations(Proc)

\* Bound: a third path is only there to be imported.
ThirdPathImportsNothing == 3 \in Path => tree[3] \in {NoFile, "none"}

\* Bound: two runs may overlap; the third starts when both have ended, and heals
\* whatever they have done to each other.
ThirdRunStartsAlone == runs' = 3 /\ runs = 2 => Settled
=============================================================================
