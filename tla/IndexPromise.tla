---------------------------- MODULE IndexPromise ----------------------------
(***************************************************************************)
(* What the package comment of internal/index promises of an index run:    *)
(* one atomic transaction makes its metadata all-or-nothing.               *)
(*                                                                         *)
(* visible is what a search can find: for each path nothing, or the whole  *)
(* extraction of one content.  A run forms an offer, a new extraction or a *)
(* removal for some of the paths, and then either publishes all of it in   *)
(* one step, on top of whatever has been published meanwhile, or none.     *)
(* Nothing is said of ids, of rows or of the order they are written in.    *)
(***************************************************************************)
CONSTANTS
    Proc,       \* index runs
    Path,       \* repository paths
    Extraction, \* what the whole of one content shows to a search
    Nothing     \* what a path that is not indexed shows

VARIABLES
    visible,    \* path -> what a search finds there
    offer       \* run -> {}, or the one change it is about to publish

Shown  == Extraction \cup {Nothing}
Offers == UNION {[D -> Shown] : D \in SUBSET Path}

Init ==
    /\ visible = [q \in Path |-> Nothing]
    /\ offer = [p \in Proc |-> {}]

Offer(p) ==
    /\ offer[p] = {}
    /\ \E o \in Offers : offer' = [offer EXCEPT ![p] = {o}]
    /\ UNCHANGED visible

Publish(p) ==
    \E o \in offer[p] :
        /\ visible' = [q \in Path |-> IF q \in DOMAIN o THEN o[q] ELSE visible[q]]
        /\ offer' = [offer EXCEPT ![p] = {}]

Withdraw(p) ==
    /\ offer[p] # {}
    /\ offer' = [offer EXCEPT ![p] = {}]
    /\ UNCHANGED visible

\* A clean run.
Clear ==
    /\ visible' = [q \in Path |-> Nothing]
    /\ UNCHANGED offer

Next == Clear \/ \E p \in Proc : Offer(p) \/ Publish(p) \/ Withdraw(p)

Spec == Init /\ [][Next]_<<visible, offer>>
=============================================================================
