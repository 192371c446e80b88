------------------------------- MODULE Layout -------------------------------
(***************************************************************************)
(* The layout of one window (ported/layout.rs, layout_set.rs and           *)
(* layout_custom.rs): a tree of cells whose leaves are the panes and whose  *)
(* nodes divide their area from left to right or from top to bottom, one    *)
(* character between neighbours. Every command that splits, closes, resizes *)
(* or rearranges panes rewrites sizes all over the tree, and nothing checks *)
(* afterwards that they still add up; layout_check is only run on a layout  *)
(* that was typed in.                                                       *)
(*                                                                         *)
(* A cell is a record with its type, its size, its offsets and its children.*)
(* Sizes are u32 in the code: subtractions that may wrap are taken modulo   *)
(* Word. Floating cells, scrollbars and zooming are not modelled.           *)
(***************************************************************************)
EXTENDS Integers, Sequences, SequencesExt, FiniteSetsExt

CONSTANTS
    Word,           \* the number of values of a size, 2^32 in the code
    MaxPanes,       \* bound: panes in the window
    WindowSizes,    \* sizes <<sx, sy>> the window is given
    Hints,          \* sizes given to split-window -l, -1 when there is none
    Changes,        \* by how much resize-pane or a dragged border moves
    MainSizes,      \* values of main-pane-height and main-pane-width
    OtherSizes,     \* values of other-pane-height and other-pane-width
    Customs,        \* layouts given to select-layout as a string
    Unsafe          \* the kinds of input listed at Unsafe* that may be given

ASSUME LayoutAssumption ==
    /\ Word \in Nat /\ MaxPanes \in Nat \ {0}
    /\ \A s \in WindowSizes : s[1] \in 1..Word /\ s[2] \in 1..Word
    /\ Hints \subseteq Nat \union {-1} /\ Changes \subseteq Int \ {0}
    /\ Unsafe \subseteq {"hint", "full", "spread", "main", "even", "tiled"}

VARIABLES
    root,           \* w->layout_root
    win,            \* <<w->sx, w->sy>>
    panes,          \* how many panes the window's list holds
    status          \* pane-border-status

vars == <<root, win, panes, status>>

PANE_MINIMUM == 1
Directions == {"LEFTRIGHT", "TOPBOTTOM"}
Across(t) == IF t = "LEFTRIGHT" THEN "TOPBOTTOM" ELSE "LEFTRIGHT"

Cell(t, sx, sy, x, y, cells) ==
    [type |-> t, sx |-> sx, sy |-> sy, xoff |-> x, yoff |-> y, cells |-> cells]
Leaf(sx, sy, x, y) == Cell("WINDOWPANE", sx, sy, x, y, <<>>)
IsLeaf(c) == c.type = "WINDOWPANE"

\* The size of a cell in one direction, and the cell given another one.
Extent(c, t) == IF t = "LEFTRIGHT" THEN c.sx ELSE c.sy
Sized(c, t, n) ==
    IF t = "LEFTRIGHT" THEN [c EXCEPT !.sx = n % Word] ELSE [c EXCEPT !.sy = n % Word]

Total(S, f(_)) == MapThenSumSet(f, S)

\* layout_count_cells.
RECURSIVE layout_count_cells(_)
layout_count_cells(c) ==
    IF IsLeaf(c) THEN 1
    ELSE Total(DOMAIN c.cells, LAMBDA i : layout_count_cells(c.cells[i]))

-----------------------------------------------------------------------------
(* Places in the tree: a cell is named by the indices that lead to it. *)

RECURSIVE At(_, _)
At(c, p) == IF p = <<>> THEN c ELSE At(c.cells[Head(p)], Tail(p))

RECURSIVE Put(_, _, _)
Put(c, p, new) ==
    IF p = <<>> THEN new
    ELSE [c EXCEPT !.cells[Head(p)] = Put(@, Tail(p), new)]

RECURSIVE Paths(_)
Paths(c) ==
    {<<>>} \union UNION {{<<i>> \o p : p \in Paths(c.cells[i])} : i \in DOMAIN c.cells}

PanePaths(c) == {p \in Paths(c) : IsLeaf(At(c, p))}

\* The nearest cell above p, or p itself, whose parent divides in direction t;
\* <<>> when there is none.
RECURSIVE InDirection(_, _, _)
InDirection(c, p, t) ==
    IF p = <<>> \/ At(c, Front(p)).type = t THEN p
    ELSE InDirection(c, Front(p), t)

\* layout_add_border for child i of node n, when n itself has the border (b):
\* the top cells have it with pane-border-status top, the bottom ones with
\* bottom. The root has it whenever the option is on.
Bordered(n, b, i) ==
    b /\ (n.type = "LEFTRIGHT" \/ i = IF status = "top" THEN 1 ELSE Len(n.cells))

RECURSIVE BorderedAt(_, _, _)
BorderedAt(c, b, p) ==
    IF p = <<>> THEN b
    ELSE BorderedAt(c.cells[Head(p)], Bordered(c, b, Head(p)), Tail(p))

HasStatus == status # "off"

\* layout_fix_offsets1: a node's children follow each other, a border between.
RECURSIVE Placed(_, _, _)
Placed(c, x, y) ==
    LET before(i, t) == Total(1..(i - 1), LAMBDA k : Extent(c.cells[k], t) + 1) IN
    [c EXCEPT !.xoff = x, !.yoff = y,
              !.cells = [i \in DOMAIN @ |->
                  IF c.type = "LEFTRIGHT" THEN Placed(@[i], x + before(i, c.type), y)
                                          ELSE Placed(@[i], x, y + before(i, c.type))]]

layout_fix_offsets(c) == Placed(c, 0, 0)

-----------------------------------------------------------------------------
(* Room, and taking it. *)

\* layout_resize_check: how much can be taken from a cell in direction t.
RECURSIVE layout_resize_check(_, _, _)
layout_resize_check(c, t, b) ==
    LET room(i) == layout_resize_check(c.cells[i], t, Bordered(c, b, i))
        minimum == IF t = "TOPBOTTOM" /\ b THEN PANE_MINIMUM + 1 ELSE PANE_MINIMUM IN
    IF IsLeaf(c) THEN Max({Extent(c, t) - minimum, 0})
    ELSE IF c.type = t THEN Total(DOMAIN c.cells, room)
    ELSE Min({room(i) : i \in DOMAIN c.cells})

\* Marks a node whose children cannot give what is asked of them: the loop of
\* layout_resize_adjust goes round for ever.
Endless(n) == [n EXCEPT !.cells = <<>>]

\* layout_resize_adjust: the cell changes by that much, its children in the
\* other direction all do, those in the same direction one by one in turn.
RECURSIVE layout_resize_adjust(_, _, _, _), InTurn(_, _, _, _, _)
layout_resize_adjust(c, t, change, b) ==
    LET d == Sized(c, t, Extent(c, t) + change) IN
    IF IsLeaf(c) THEN d
    ELSE IF c.type # t
         THEN [d EXCEPT !.cells = [i \in DOMAIN @ |->
                  layout_resize_adjust(@[i], t, change, Bordered(c, b, i))]]
         ELSE InTurn(d, t, change, 1, b)

InTurn(n, t, change, i, b) ==
    LET room(k) == layout_resize_check(n.cells[k], t, Bordered(n, b, k))
        next == (i % Len(n.cells)) + 1
        step(d) == [n EXCEPT !.cells[i] = layout_resize_adjust(@, t, d, Bordered(n, b, i))] IN
    IF change = 0 THEN n
    ELSE IF change > 0 THEN InTurn(step(1), t, change - 1, next, b)
    ELSE IF room(i) > 0 THEN InTurn(step(-1), t, change + 1, next, b)
    ELSE IF \A k \in DOMAIN n.cells : room(k) = 0 THEN Endless(n)
    ELSE InTurn(n, t, change, next, b)

\* Mutant of WindowChange: a size below the minimum is refused as a whole.
WindowChange_Refused(c, t, size) ==
    LET change == size - Extent(c, t)
    IN IF change < -layout_resize_check(c, t, HasStatus) THEN 0 ELSE change

\* The change of the whole layout to a new size in direction t (layout_resize):
\* never below what layout_resize_check allows.
WindowChange(c, t, size) ==
    Max({size - Extent(c, t), -layout_resize_check(c, t, HasStatus)})

layout_resize(c, sx, sy) ==
    LET h == layout_resize_adjust(c, "LEFTRIGHT", WindowChange(c, "LEFTRIGHT", sx), HasStatus)
    IN layout_fix_offsets(
          layout_resize_adjust(h, "TOPBOTTOM", WindowChange(h, "TOPBOTTOM", sy), HasStatus))

-----------------------------------------------------------------------------
(* Moving the border after child i of node n (layout_resize_layout). *)

\* layout_resize_pane_grow: child i takes from the next sibling with room, or,
\* with opposite, from the nearest before it.
\* layout_resize_pane_shrink: the child after i takes from i or, when i has no
\* room, from the nearest before it with room.
RECURSIVE Moved(_, _, _, _, _)
Moved(n, i, needed, opposite, b) ==
    LET room(k) == layout_resize_check(n.cells[k], n.type, Bordered(n, b, k))
        after  == {k \in (i + 1)..Len(n.cells) : room(k) > 0}
        behind == {k \in 1..(i - 1) : opposite /\ room(k) > 0}
        upto   == {k \in 1..i : room(k) > 0}
        exchange(add, remove, size) ==
            [n EXCEPT
              !.cells[add] = layout_resize_adjust(@, n.type, size, Bordered(n, b, add)),
              !.cells[remove] = layout_resize_adjust(@, n.type, -size, Bordered(n, b, remove))]
        grow(remove) ==
            LET size == Min({room(remove), needed})
            IN Moved(exchange(i, remove, size), i, needed - size, opposite, b)
        shrink(remove) ==
            LET size == Min({room(remove), -needed})
            IN Moved(exchange(i + 1, remove, size), i, needed + size, opposite, b) IN
    IF needed > 0 /\ after # {} THEN grow(Min(after))
    ELSE IF needed > 0 /\ behind # {} THEN grow(Max(behind))
    ELSE IF needed < 0 /\ upto # {} /\ i < Len(n.cells) THEN shrink(Max(upto))
    ELSE n

layout_resize_layout(c, p, i, change, opposite) ==
    layout_fix_offsets(
        Put(c, p, Moved(At(c, p), i, change, opposite, BorderedAt(c, HasStatus, p))))

\* Mutant of layout_resize_pane: only the cells after it give anything.
layout_resize_pane_OneSide(c, p, t, change) ==
    LET q == InDirection(c, p, t)
        parent == Front(q) IN
    IF q = <<>> THEN c
    ELSE layout_resize_layout(c, parent,
             IF Last(q) = Len(At(c, parent).cells) THEN Last(q) - 1 ELSE Last(q),
             change, FALSE)

\* layout_resize_pane: the border after the pane's cell in that direction, or
\* the one before it when the cell is the last.
layout_resize_pane(c, p, t, change) ==
    LET q == InDirection(c, p, t)
        parent == Front(q) IN
    IF q = <<>> THEN c
    ELSE layout_resize_layout(c, parent,
             IF Last(q) = Len(At(c, parent).cells) THEN Last(q) - 1 ELSE Last(q),
             change, TRUE)

\* layout_resize_pane_to.
layout_resize_pane_to(c, p, t, size) ==
    LET q == InDirection(c, p, t)
        more == size - Extent(At(c, q), t) IN
    IF q = <<>> THEN c
    ELSE layout_resize_pane(c, p, t,
             IF Last(q) = Len(At(c, Front(q)).cells) THEN -more ELSE more)

-----------------------------------------------------------------------------
(* Splitting. *)

\* layout_split_check_space.
layout_split_check_space(c, t, b) ==
    Extent(c, t) >= PANE_MINIMUM * 2 + (IF t = "TOPBOTTOM" /\ b THEN 2 ELSE 1)

\* layout_split_sizes: the sizes of the first and of the second half. The upper
\* limit is taken from the width whichever way the cell is split.
layout_split_sizes(c, size, before, t) ==
    LET ss == Extent(c, t)
        wanted == IF size < 0 THEN ((ss + 1) \div 2) - 1
                  ELSE IF before THEN (ss - size - 1) % Word
                  ELSE size
        s2 == IF wanted < PANE_MINIMUM THEN PANE_MINIMUM
              ELSE IF wanted > (c.sx - 2) % Word THEN ss - 2
              ELSE wanted
    IN <<(ss - 1 - s2) % Word, s2>>

\* layout_new_pane_size: a child's share of its parent's new size.
layout_new_pane_size(previous, c, t, size, count_left, size_left, b) ==
    LET needs == Extent(c, t) - layout_resize_check(c, t, b)
        min == Max({(PANE_MINIMUM + 1) * (count_left - 1), needs})
        share == (Extent(c, t) * size) \div previous IN
    IF count_left = 1 THEN size_left
    ELSE Max({Min({share, (size_left - min) % Word}), PANE_MINIMUM})

\* The sizes the children from the i-th on get of what is left of size.
RECURSIVE Shares(_, _, _, _, _, _)
Shares(n, size, previous, i, left, b) ==
    LET new == layout_new_pane_size(previous, n.cells[i], n.type, size,
                                    Len(n.cells) - i + 1, left, Bordered(n, b, i)) IN
    IF i > Len(n.cells) THEN <<>>
    ELSE <<new>> \o Shares(n, size, previous, i + 1, (left - new - 1) % Word, b)

\* layout_set_size_check: whether a cell can be made that size in direction t.
RECURSIVE layout_set_size_check(_, _, _, _)
layout_set_size_check(c, t, size, b) ==
    LET n == Len(c.cells)
        new == Shares(c, size, Extent(c, t), 1, size, b)
        used(i) == Total(1..i, LAMBDA k : new[k]) + Min({i, n - 1}) IN
    IF IsLeaf(c) THEN size \in PANE_MINIMUM..(Word \div 2)
    ELSE IF c.type = t
         THEN /\ size >= n * 2 - 1
              /\ \A i \in 1..n : /\ used(i) <= size
                                 /\ layout_set_size_check(c.cells[i], t, new[i], Bordered(c, b, i))
         ELSE \A i \in 1..n : \/ IsLeaf(c.cells[i])
                              \/ layout_set_size_check(c.cells[i], t, size, Bordered(c, b, i))

\* layout_resize_child_cells: the children are fitted into the cell's own size.
RECURSIVE layout_resize_child_cells(_, _)
layout_resize_child_cells(c, b) ==
    LET previous == Total(DOMAIN c.cells, LAMBDA i : Extent(c.cells[i], c.type))
                    + Len(c.cells) - 1
        size == Extent(c, c.type)
        new == Shares(c, size, previous, 1, size, b)
        fit(i) == Sized(Sized(c.cells[i], c.type, new[i]), Across(c.type),
                        Extent(c, Across(c.type))) IN
    IF IsLeaf(c) THEN c
    ELSE [c EXCEPT !.cells = [i \in DOMAIN @ |->
              layout_resize_child_cells(fit(i), Bordered(c, b, i))]]

\* layout_split_pane and layout_assign_pane: the cell at p, or the root with -f,
\* makes room for a new leaf before or after it. A cell whose parent divides in
\* that direction gets a sibling, a root that does gets a child, and any other
\* cell gets a parent of its own.
layout_split_pane(c, p, t, size, before, full) ==
    LET at  == IF full THEN <<>> ELSE p
        lc  == At(c, at)
        b   == BorderedAt(c, HasStatus, at)
        s   == layout_split_sizes(lc, size, before, t)
        old == IF before THEN s[2] ELSE s[1]         \* what the cell keeps of itself
        pair(x, y) == IF before THEN <<y, x>> ELSE <<x, y>>
        place(d, k) ==     \* one of the two as the k-th: layout_set_size
            LET at2 == IF k = 1 THEN 0 ELSE s[1] + 1 IN
            [Sized(d, t, s[k]) EXCEPT !.xoff = lc.xoff + IF t = "LEFTRIGHT" THEN at2 ELSE 0,
                                      !.yoff = lc.yoff + IF t = "TOPBOTTOM" THEN at2 ELSE 0]
        new == Leaf(lc.sx, lc.sy, 0, 0)
        two == [k \in 1..2 |-> place(pair(lc, new)[k], k)]
        i   == Last(at)
        up  == At(c, Front(at))
        parent == Cell(t, lc.sx, lc.sy, lc.xoff, lc.yoff, two)
        k   == IF before THEN 2 ELSE 1               \* where the old cell ends up
        inner == Sized(layout_resize_child_cells(Sized(lc, t, old), b), t, Extent(lc, t))
        added == Sized(new, t, Extent(lc, t) - 1 - old) IN
    IF full /\ lc.type = t
    THEN layout_fix_offsets(
            [inner EXCEPT !.cells = IF before THEN <<added>> \o @ ELSE Append(@, added)])
    ELSE IF full
    THEN layout_fix_offsets(
            [parent EXCEPT !.cells[k] = layout_resize_child_cells(@, Bordered(parent, b, k))])
    ELSE IF at # <<>> /\ up.type = t
    THEN Put(c, Front(at), [up EXCEPT !.cells =
            SubSeq(@, 1, i - 1) \o two \o SubSeq(@, i + 1, Len(@))])
    ELSE Put(c, at, parent)

\* Whether the split is made at all.
CanSplit(c, p, t, size, before, full) ==
    LET lc == IF full THEN c ELSE At(c, p)
        b  == BorderedAt(c, HasStatus, IF full THEN <<>> ELSE p)
        s  == layout_split_sizes(lc, size, before, t) IN
    /\ layout_split_check_space(lc, t, b)
    /\ full => layout_set_size_check(lc, t, IF before THEN s[2] ELSE s[1], b)

-----------------------------------------------------------------------------
(* Closing. *)

\* Mutant of layout_destroy_cell: the border's line is lost with the cell.
layout_destroy_cell_NoBorder(c, p) ==
    LET up == At(c, Front(p))
        i  == Last(p)
        j  == IF i < Len(up.cells) THEN i + 1 ELSE i - 1
        other == layout_resize_adjust(up.cells[j], up.type, Extent(up.cells[i], up.type),
                     Bordered(up, BorderedAt(c, HasStatus, Front(p)), j))
        left == RemoveAt([up.cells EXCEPT ![j] = other], i) IN
    Put(c, Front(p), IF Len(left) = 1 THEN left[1] ELSE [up EXCEPT !.cells = left])

\* layout_destroy_cell: the space goes to the next cell, to the one before for
\* the last, and a parent left with one cell is replaced by it.
layout_destroy_cell(c, p) ==
    LET up == At(c, Front(p))
        i  == Last(p)
        j  == IF i < Len(up.cells) THEN i + 1 ELSE i - 1
        other == layout_resize_adjust(up.cells[j], up.type, Extent(up.cells[i], up.type) + 1,
                     Bordered(up, BorderedAt(c, HasStatus, Front(p)), j))
        left == RemoveAt([up.cells EXCEPT ![j] = other], i) IN
    Put(c, Front(p), IF Len(left) = 1 THEN left[1] ELSE [up EXCEPT !.cells = left])

-----------------------------------------------------------------------------
(* Spreading out, and the preset layouts. *)

\* layout_spread_cell: the leaves among a node's children share its size
\* equally, the first of them taking what is left over.
layout_spread_cell(n, b) ==
    LET leaves == {i \in DOMAIN n.cells : IsLeaf(n.cells[i])}
        number == Cardinality(leaves)
        size == Extent(n, n.type) - IF n.type = "TOPBOTTOM" /\ b THEN 1 ELSE 0
        each == (size - (number - 1)) \div number
        remainder == (size - number * (each + 1) + 1) % Word
        rank(i) == Cardinality({k \in leaves : k < i})
        this(i) == each + (IF rank(i) < remainder THEN 1 ELSE 0)
                        + (IF n.type = "TOPBOTTOM" /\ Bordered(n, b, i) THEN 1 ELSE 0) IN
    IF number <= 1 \/ size < number - 1 THEN n
    ELSE IF each = 0 THEN n
    ELSE [n EXCEPT !.cells = [i \in DOMAIN @ |->
              IF i \in leaves THEN Sized(@[i], n.type, this(i)) ELSE @[i]]]

\* layout_spread_out: the nearest node above the pane that spreading changes.
RECURSIVE SpreadAbove(_, _)
SpreadAbove(c, p) ==
    LET up == Front(p)
        new == layout_spread_cell(At(c, up), BorderedAt(c, HasStatus, up)) IN
    IF p = <<>> THEN c
    ELSE IF new # At(c, up) THEN layout_fix_offsets(Put(c, up, new))
    ELSE SpreadAbove(c, up)

\* layout_set_even.
layout_set_even(t) ==
    LET n == panes * (PANE_MINIMUM + 1) - 1
        sx == IF t = "LEFTRIGHT" THEN Max({n, win[1]}) ELSE win[1]
        sy == IF t = "TOPBOTTOM" THEN Max({n, win[2]}) ELSE win[2] IN
    layout_fix_offsets(layout_spread_cell(
        Cell(t, sx, sy, 0, 0, [i \in 1..panes |-> Leaf(win[1], win[2], 0, 0)]), HasStatus))

\* The sizes of the main cell and of the others, from the two options: a value
\* that does not parse (one larger than the space) counts as the default.
MainAndOther(space, main, other, default) ==
    LET m == IF main > space THEN default ELSE main IN
    IF m + PANE_MINIMUM >= space
    THEN <<Max({space - PANE_MINIMUM, PANE_MINIMUM}), PANE_MINIMUM>>
    ELSE IF other = 0 \/ other > space \/ space - other < m THEN <<m, space - m>>
    ELSE <<space - other, other>>

\* layout_set_main_h, layout_set_main_v and their mirrored forms: t is the
\* direction that divides the main pane from the others. With only one other
\* pane its cell, kept, is used as it is.
layout_set_main(t, mirrored, main, other, kept) ==
    LET n == panes - 1
        d == IF t = "TOPBOTTOM" THEN 2 ELSE 1
        s == MainAndOther(win[d] - 1, main, other, IF t = "TOPBOTTOM" THEN 24 ELSE 80)
        across == Max({n * (PANE_MINIMUM + 1) - 1, win[3 - d]})
        sized(c, along) == Sized(Sized(c, t, along), Across(t), across)
        blank == Leaf(0, 0, 0, 0)
        node == sized([blank EXCEPT !.type = Across(t)], s[2])
        child == Sized(Sized(blank, t, s[2]), Across(t), PANE_MINIMUM)
        rest == layout_spread_cell([node EXCEPT !.cells = [i \in 1..n |-> child]],
                    Bordered([blank EXCEPT !.type = t, !.cells = <<0, 0>>], HasStatus,
                             IF mirrored THEN 1 ELSE 2))
        others == IF n = 1 THEN kept ELSE rest
        first == sized(blank, s[1]) IN
    layout_fix_offsets(
        [sized([blank EXCEPT !.type = t], s[1] + s[2] + 1) EXCEPT
            !.cells = IF mirrored THEN <<others, first>> ELSE <<first, others>>])

\* layout_set_tiled: rows and columns grow in turn until every pane has a place.
RECURSIVE Grid(_, _)
Grid(rows, columns) ==
    IF rows * columns >= panes THEN <<rows, columns>>
    ELSE Grid(rows + 1, columns + IF (rows + 1) * columns < panes THEN 1 ELSE 0)

layout_set_tiled ==
    LET g == Grid(1, 1)
        rows == g[1]
        columns == g[2]
        width  == Max({((win[1] - (columns - 1)) % Word) \div columns, PANE_MINIMUM})
        height == Max({((win[2] - (rows - 1)) % Word) \div rows, PANE_MINIMUM})
        here(j) == Min({columns, panes - (j - 1) * columns})   \* panes in row j
        spare(used, size) == Max({size - used, 0})
        cell(j, i) == Leaf(width + IF i < here(j) THEN 0
                                   ELSE spare(here(j) * (width + 1) - 1, win[1]), height, 0, 0)
        row(j) == IF here(j) = 1 THEN Leaf(win[1], height, 0, 0)
                  ELSE Cell("LEFTRIGHT", win[1], height, 0, 0, [i \in 1..here(j) |-> cell(j, i)])
        all == [j \in 1..((panes + columns - 1) \div columns) |-> row(j)]
        last == layout_resize_adjust(Last(all), "TOPBOTTOM",
                    spare(rows * height + rows - 1, win[2]), HasStatus) IN
    layout_fix_offsets(Cell("TOPBOTTOM", Max({(width + 1) * columns - 1, win[1]}),
        Max({(height + 1) * rows - 1, win[2]}), 0, 0, Append(Front(all), last)))

-----------------------------------------------------------------------------
(* Layouts given as a string. *)

\* layout_check: the children of a node are as wide (or high) as it, and their
\* sizes in its direction, with the borders, add up to its own.
RECURSIVE layout_check(_)
layout_check(c) ==
    IsLeaf(c) \/
    /\ \A i \in DOMAIN c.cells : /\ Extent(c.cells[i], Across(c.type)) = Extent(c, Across(c.type))
                                /\ layout_check(c.cells[i])
    /\ Total(DOMAIN c.cells, LAMBDA i : Extent(c.cells[i], c.type) + 1) - 1 = Extent(c, c.type)

\* layout_parse: cells too many are closed from the bottom right, the size of
\* the root is taken from its children, and a layout that does not add up is
\* refused.
RECURSIVE layout_find_bottomright(_)
layout_find_bottomright(c) ==
    IF IsLeaf(c) THEN <<>>
    ELSE <<Len(c.cells)>> \o layout_find_bottomright(Last(c.cells))

RECURSIVE Trimmed(_)
Trimmed(c) ==
    IF layout_count_cells(c) <= panes THEN c
    ELSE Trimmed(layout_destroy_cell(c, layout_find_bottomright(c)))

RootFixed(c) ==
    IF IsLeaf(c) THEN c
    ELSE Sized(Sized(c, Across(c.type), Extent(Last(c.cells), Across(c.type))), c.type,
               Total(DOMAIN c.cells, LAMBDA i : Extent(c.cells[i], c.type) + 1) - 1)

-----------------------------------------------------------------------------
(* Inputs for which the sizes do not add up afterwards; a configuration says *)
(* which of them the commands may be given.                                  *)

\* split-window -l with more lines than the cell can give but no more than its
\* width: the limit in layout_split_sizes does not apply.
UnsafeHint(c, t, size, before) ==
    layout_split_sizes(c, size, before, t)[1] \notin 1..(Extent(c, t) - 2)

\* split-window -f beside a divided cell whose size, together with the least it
\* can have, is more than what it and the cells after it have:
\* layout_new_pane_size cuts it down although the size to share is the same.
UnsafeFull(c, t) ==
    \E p \in Paths(c) : At(c, p).type = Across(t) /\
      LET n == At(c, p)
          b == BorderedAt(c, HasStatus, p)
          size(i) == Extent(n.cells[i], n.type)
          least(i) == size(i) - layout_resize_check(n.cells[i], n.type, Bordered(n, b, i)) IN
      \E i \in 1..(Len(n.cells) - 1) :
        size(i) + least(i) > Total(i..Len(n.cells), LAMBDA k : size(k) + 1) - 1

\* select-layout -E next to two panes and a divided cell: the divided cell is
\* not counted and its space is given away as well.
UnsafeSpread(n) ==
    /\ Cardinality({i \in DOMAIN n.cells : IsLeaf(n.cells[i])}) >= 2
    /\ \E i \in DOMAIN n.cells : ~IsLeaf(n.cells[i])

\* A main layout of two panes: the other pane keeps its size.
UnsafeMain == panes = 2

\* select-layout even-vertical with pane-border-status on and less than two lines
\* for each pane: a line each is too much once the borders are taken off, so
\* layout_spread_cell returns and every cell keeps the height of the window.
UnsafeEven(t) == t = "TOPBOTTOM" /\ HasStatus /\ win[2] < 2 * panes

\* select-layout tiled in a window too narrow for its columns: the root is made
\* wide enough and the rows are not.
UnsafeTiled == win[1] < 2 * Grid(1, 1)[2] - 1

-----------------------------------------------------------------------------
Init ==
    /\ win \in WindowSizes
    /\ root = Leaf(win[1], win[2], 0, 0)            \* layout_init
    /\ panes = 1
    /\ status \in {"off", "top", "bottom"}

\* split-window, join-pane and a popup made into a pane.
split_window(p, t, size, before, full) ==
    /\ panes < MaxPanes
    /\ CanSplit(root, p, t, size, before, full)
    /\ "hint" \in Unsafe \/ ~UnsafeHint(IF full THEN root ELSE At(root, p), t, size, before)
    /\ full => "full" \in Unsafe \/ ~UnsafeFull(root, t)
    /\ root' = layout_split_pane(root, p, t, size, before, full)
    /\ panes' = panes + 1
    /\ UNCHANGED <<win, status>>

\* layout_close_pane: kill-pane, break-pane, join-pane's source, a program that
\* ends. Closing the last pane closes the window.
layout_close_pane(p) ==
    /\ panes > 1
    /\ root' = layout_fix_offsets(layout_destroy_cell(root, p))
    /\ panes' = panes - 1
    /\ UNCHANGED <<win, status>>

Rearranged(c) == root' = c /\ UNCHANGED <<win, panes, status>>

\* resize-pane -L, -R, -U and -D; -x and -y, which allow for the border of the
\* pane's status line; and a dragged border.
resize_pane(p, t, change) == Rearranged(layout_resize_pane(root, p, t, change))
resize_pane_to(p, t, size) ==
    Rearranged(layout_resize_pane_to(root, p, t,
        size + IF t = "TOPBOTTOM" /\ BorderedAt(root, HasStatus, p) THEN 1 ELSE 0))
drag_border(p, change) ==
    /\ p # <<>> /\ Last(p) < Len(At(root, Front(p)).cells)
    /\ Rearranged(layout_resize_layout(root, Front(p), Last(p), change, FALSE))

\* resize_window: the window is never smaller than its layout.
resize_window(size) ==
    /\ root' = layout_resize(root, size[1], size[2])
    /\ win' = <<Max({size[1], root'.sx}), Max({size[2], root'.sy})>>
    /\ UNCHANGED <<panes, status>>

\* select-layout -E.
layout_spread_out(p) ==
    /\ "spread" \in Unsafe \/ \A k \in 0..(Len(p) - 1) : ~UnsafeSpread(At(root, SubSeq(p, 1, k)))
    /\ Rearranged(SpreadAbove(root, p))

\* select-layout with a preset: the window takes the layout's size.
Preset(c) ==
    /\ panes > 1
    /\ root' = c
    /\ win' = <<c.sx, c.sy>>
    /\ UNCHANGED <<panes, status>>

select_main ==
    /\ "main" \in Unsafe \/ ~UnsafeMain
    /\ \E t \in Directions, mirrored \in BOOLEAN, main \in MainSizes, other \in OtherSizes,
         kept \in IF panes = 2 THEN {At(root, p) : p \in PanePaths(root)} ELSE {root} :
          Preset(layout_set_main(t, mirrored, main, other, kept))

select_even ==
    \E t \in Directions :
        /\ "even" \in Unsafe \/ ~UnsafeEven(t)
        /\ Preset(layout_set_even(t))
select_tiled ==
    /\ "tiled" \in Unsafe \/ ~UnsafeTiled
    /\ Preset(layout_set_tiled)

\* select-layout with a layout of the user's.
layout_parse(c) ==
    LET new == RootFixed(Trimmed(c)) IN
    /\ layout_count_cells(c) >= panes
    /\ layout_check(new)
    /\ root' = layout_fix_offsets(new)
    /\ win' = <<new.sx, new.sy>>
    /\ UNCHANGED <<panes, status>>

\* set-option pane-border-status: the cells stay, only the panes in them change.
set_pane_status(s) == status' = s /\ UNCHANGED <<root, win, panes>>

Next ==
    \/ \E p \in PanePaths(root) :
          \/ \E t \in Directions, size \in Hints, before \in BOOLEAN, full \in BOOLEAN :
               split_window(p, t, size, before, full)
          \/ layout_close_pane(p)
          \/ \E t \in Directions, change \in Changes : resize_pane(p, t, change)
          \/ \E t \in Directions, size \in Hints \ {-1} : resize_pane_to(p, t, size)
          \/ layout_spread_out(p)
    \/ \E p \in Paths(root), change \in Changes : drag_border(p, change)
    \/ \E size \in WindowSizes : resize_window(size)
    \/ select_main
    \/ select_even
    \/ select_tiled
    \/ \E c \in Customs : layout_parse(c)
    \/ \E s \in {"off", "top", "bottom"} : set_pane_status(s)

Spec == Init /\ [][Next]_vars

-----------------------------------------------------------------------------
\* The characters a cell covers.
Area(c) == (c.xoff..(c.xoff + c.sx - 1)) \X (c.yoff..(c.yoff + c.sy - 1))

\* The layout is a tiling of the window: the root is as large as the window, the
\* tree holds one leaf for every pane and every node at least two cells, the
\* sizes add up as layout_check wants them, and no two panes share a character or
\* reach outside the window. No command that changes the tree checks this.
Tiling ==
    /\ <<root.sx, root.sy>> = win
    /\ layout_count_cells(root) = panes
    /\ layout_check(root)
    /\ \A p \in Paths(root) :
          /\ At(root, p).sx >= PANE_MINIMUM /\ At(root, p).sy >= PANE_MINIMUM
          /\ IsLeaf(At(root, p)) \/ Len(At(root, p).cells) >= 2
    /\ \A p \in PanePaths(root) :
          /\ Area(At(root, p)) \subseteq Area(root)
          /\ \A q \in PanePaths(root) \ {p} : Area(At(root, p)) \intersect Area(At(root, q)) = {}

\* resize-pane -x and -y reach the size asked for, or the nearest there is: the
\* cell ends no smaller than its own minimum and takes at most what all its
\* siblings together can spare, wherever in the row they are.
ResizeToIsExact ==
    \A p \in PanePaths(root), t \in Directions, size \in Hints \ {-1} :
      LET q == InDirection(root, p, t)
          up == At(root, Front(q))
          b == BorderedAt(root, HasStatus, Front(q))
          room(i) == layout_resize_check(up.cells[i], t, Bordered(up, b, i))
          old == Extent(At(root, q), t)
          spare == Total(DOMAIN up.cells \ {Last(q)}, room) IN
      q # <<>> =>
        Extent(At(layout_resize_pane_to(root, p, t, size), q), t)
          = Max({Min({size, old + spare}), Min({old, old - room(Last(q))})})

\* Resizing the window brings the layout to exactly the new size, or stops at the
\* smallest the layout can have: afterwards no cell can give anything more. This
\* is what lets resize_window treat the root's size as the window's.
WindowReached ==
    \A size \in WindowSizes :
      LET new == layout_resize(root, size[1], size[2])
          stops(t, n) == Extent(new, t) = n \/
                         (Extent(new, t) > n /\ layout_resize_check(new, t, HasStatus) = 0) IN
      stops("LEFTRIGHT", size[1]) /\ stops("TOPBOTTOM", size[2])
=============================================================================
