------------------------------ MODULE MCLayout ------------------------------
(* Small windows for Layout. *)
EXTENDS Layout

\* The first has too few lines for four panes one below the other with a status
\* line, and too few columns for two beside each other; the second just enough.
MCWindowSizes == {<<2, 7>>, <<5, 8>>}
MCHints == {-1, 2, 3, 5}
MCChanges == {-2, 1}

\* A grid of four, and one whose cells do not fill its rows.
GridOf(sx, w1, w2, h) ==
    LET row == Cell("LEFTRIGHT", sx, h, 0, 0, <<Leaf(w1, h, 0, 0), Leaf(w2, h, 0, 0)>>)
    IN Cell("TOPBOTTOM", sx, 2 * h, 0, 0, <<row, row>>)
MCCustoms == {GridOf(5, 2, 2, 3), GridOf(5, 2, 1, 3)}
=============================================================================
