------------------------------ MODULE MCMemory ------------------------------
(***************************************************************************)
(* A small instance of MemoryStore for TLC.                                *)
(***************************************************************************)
EXTENDS MemoryStore, TLC

\* One memory with evidence, a tag and a link.
MCDrafts ==
    {[title |-> "t", body |-> "b", tags |-> Tag, links |-> Target, places |-> <<"here">>]}

\* Retitle and anchor again; clear the text; drop the tag and the evidence.
MCChanges ==
    {[NoChange EXCEPT !.title = "u", !.addPlaces = <<"here">>],
     [NoChange EXCEPT !.title = "none", !.body = "none", !.removeTags = Tag],
     [NoChange EXCEPT !.body = "t", !.removePlaces = {"here"}, !.addTags = Tag, !.removeLinks = Target]}

\* A document of another store, whose ids leave a gap and whose records repeat.
Elsewhere(i) ==
    [id |-> i, title |-> "t", body |-> "b", tags |-> {}, links |-> Target,
     anchors |-> {[seat |-> 1, place |-> "here", blob |-> "old"]}]
MCDocuments == {{Elsewhere(1), Elsewhere(3)}}

\* Bound: the second and the third command may overlap; the first and the fourth run
\* alone, on what is there and on what the two have left.
Settled == \A p \in Proc : ~Running(p)
FirstAndLastRunAlone ==
    (commands' > commands /\ commands \in {1, 3}) => Settled

Processes == Permutations(Proc)
=============================================================================
