---------------------------- MODULE MCDiscovery ----------------------------
(* Instances of Discovery.  Two courses: one is shown with a shorter title *)
(* on one page and with a longer one, which the other has too, on another. *)
EXTENDS Discovery

CONSTANTS c1, c2, c3

card(c, t) == [course |-> c, title |-> t]

MCListings ==
  { <<{card(c1, 1)}, {card(c1, 2), card(c2, 2)}, {}>>,
    <<{card(c3, 3)}, {card(c2, 2)}, {card(c1, 1)}>>,
    <<{}, {}, {}>> }

MCSectionsOf == [c \in {c1, c2, c3} |-> CASE c = c1 -> {"a", "b"}
                                          [] c = c2 -> {"d"}
                                          [] c = c3 -> {"e"}]

MCRowsOf == [s \in {"a", "b", "d", "e"} |->
               CASE s = "a" -> [first |-> {"x"}, all |-> {"x", "y"}]
                 [] s = "b" -> [first |-> {"y"}, all |-> {"y"}]
                 [] s \in {"d", "e"} -> [first |-> {"x"}, all |-> {"x"}]]
=============================================================================
