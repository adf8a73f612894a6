------------------------- MODULE MCPublicationWaves -------------------------
(* Instances of PublicationWaves for TLC: two drafts of one family, one of another. *)
EXTENDS PublicationWaves

\* The siblings have one key or two, one version or two, one payload or two, and the
\* three name each other in every way; the second may name an external parent instead.
\* The destination is empty or has one or more of them, with their parents.
SmallGraphs ==
    {g \in [family : {<<1, 1, 2>>}, key : {<<1, 1, 3>>, <<1, 2, 3>>},
            version : {<<v, w, 1>> : v \in 1..2, w \in 1..2},
            content : {<<1, 1, 3>>, <<1, 2, 3>>},
            closure : {<<x, y, FALSE>> : x \in BOOLEAN, y \in BOOLEAN},
            deps : {<<a, b, c>> : a \in SUBSET {2, 3},
                                  b \in SUBSET {1, 3} \cup {External}, c \in SUBSET {1, 2}},
            present : SUBSET Drafts \cup {External}] :
        \A d \in g.present \cap Drafts : g.deps[d] \subseteq g.present}
=============================================================================
