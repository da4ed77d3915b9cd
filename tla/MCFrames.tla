------------------------------ MODULE MCFrames ------------------------------
(***************************************************************************)
(* ModeFrames on a small instance.  Two space groups have a k of one label *)
(* and different canonical cells; irreps 1 and 2 are two forms of one old  *)
(* irrep, 3 and 4 need an inverse transform (that of 4 does not exist), 5  *)
(* has no isotropy rows, 7 no label and 8 no pointer.  GP is a k with one  *)
(* parameter.  The layouts collide in their buckets, and two of them       *)
(* cannot be made.                                                         *)
(***************************************************************************)
EXTENDS ModeFrames, TLC

CellA == <<"a", "b", "c">>
CellB == <<"b", "a", "c">>  \* the rows of CellA in another order
CellC == <<"d", "b", "c">>
CellD == <<"d", "a", "c">>
Row(id, cell, direction, home, rank) ==
    [id |-> id, cell |-> cell, direction |-> direction, home |-> home, rank |-> rank]

RowsOf1 == <<Row(1, CellA, 1, FALSE, 2), Row(2, CellB, 2, TRUE, 1)>>

MCSource ==
    [sg     |-> <<1, 1, 1, 1, 1, 2, 3, 3, 4, 1>>,
     k      |-> <<"X", "X", "X", "X", "GP", "X", "", "Z", "Z", "Y">>,
     old    |-> <<1, 1, 2, 3, 0, 4, 0, 9, 9, 0>>,
     type   |-> <<1, 1, 2, 3, 1, 2, 1, 1, 1, 1>>,
     inverse |-> <<"ok", "ok", "ok", "failed", "ok", "ok", "ok", "ok", "ok", "ok">>,
     rows   |-> <<RowsOf1, RowsOf1,
                  <<Row(3, CellB, 1, TRUE, 1)>>, <<Row(4, CellC, 1, FALSE, 1)>>, <<>>,
                  <<Row(5, CellB, 1, TRUE, 1)>>, <<>>, <<>>, <<>>, <<>>>>,
     misplaced |-> {8, 9},
     long |-> {"LONG"},
     inconsistent |-> {},
     rowCount |-> 5,
     slots |-> [x \in (1 .. 4) \X {"X", "GP", "Y", "Z", "LONG"} |-> IF x[2] = "GP" THEN 1 ELSE 2],
     find |-> (<<1, "GP", "p">> :> [status |-> "ok", cell |-> CellA])
           @@ (<<1, "GP", "q">> :> [status |-> "ok", cell |-> CellC])
           @@ (<<1, "GP", "r">> :> [status |-> "arith", cell |-> NoCell])]

PlainAsk ==
    [sg |-> 1, k |-> "X", site |-> 1, params |-> "none", gid |-> 3, vector |-> 1, row |-> 0,
     cell |-> CellA, rows |-> FALSE, fits |-> TRUE, occurrence |-> NoCell, setting |-> "s",
     entries |-> "some", block |-> "shown"]
Parametric == [PlainAsk EXCEPT !.k = "GP", !.params = "p", !.gid = 5, !.rows = TRUE, !.occurrence = CellC]
CommonAsks == {
    PlainAsk,
    [PlainAsk EXCEPT !.gid = 1, !.row = 1],
    [PlainAsk EXCEPT !.sg = 2, !.gid = 6],
    [PlainAsk EXCEPT !.gid = 4],
    [PlainAsk EXCEPT !.sg = 4, !.k = "Z", !.gid = 9],
    Parametric,
    [Parametric EXCEPT !.params = "q", !.rows = FALSE, !.row = 1] }
OtherAsks == {
    [PlainAsk EXCEPT !.site = 0],
    [PlainAsk EXCEPT !.k = "LONG"],
    [PlainAsk EXCEPT !.gid = 2],
    [PlainAsk EXCEPT !.vector = 4],
    [PlainAsk EXCEPT !.entries = "missing"],
    [PlainAsk EXCEPT !.entries = "none"],
    [PlainAsk EXCEPT !.block = "unprojected"],
    [PlainAsk EXCEPT !.block = "unbridged"],
    [PlainAsk EXCEPT !.row = 9],
    [PlainAsk EXCEPT !.sg = 3, !.k = "Z", !.gid = 8],
    [PlainAsk EXCEPT !.k = "Y", !.gid = 10],
    [PlainAsk EXCEPT !.setting = "wide"],
    [PlainAsk EXCEPT !.cell = CellC, !.row = 3, !.site = 2],
    [Parametric EXCEPT !.params = "r"],
    [Parametric EXCEPT !.block = "bridged"],
    [Parametric EXCEPT !.fits = FALSE],
    [Parametric EXCEPT !.vector = 2],
    [Parametric EXCEPT !.cell = CellD],
    [Parametric EXCEPT !.cell = CellC, !.site = 2],
    [Parametric EXCEPT !.occurrence = CellA, !.cell = CellC, !.site = 2],
    [Parametric EXCEPT !.occurrence = CellB, !.site = 2] }
MCAsks == <<CommonAsks, CommonAsks, CommonAsks \cup OtherAsks>>
MCFrameLayouts == (1 .. 4) \X {1, 2} \X {CellA, CellB, CellC, CellD} \X {"s", "wide"}
MCFrameHash == [key \in MCFrameLayouts |-> 3 + (key[1] % 2)]
MCFrameFaults ==
    [key \in MCFrameLayouts |->
        CASE key = <<1, 2, CellA, "s">> -> "value" [] key = <<1, 2, CellB, "s">> -> "runtime"
          [] key = <<1, 2, CellC, "s">> -> "range" [] OTHER -> "none"]
=============================================================================
