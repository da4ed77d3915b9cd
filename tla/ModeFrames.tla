----------------------------- MODULE ModeFrames -----------------------------
(***************************************************************************)
(* mode_frame of core/modes/frame.c: the isotropy row, the order-parameter *)
(* rows, the cell and the atoms that one irrep's modes at one site are     *)
(* made of.  It keeps four things for the life of the process, each in a   *)
(* ring that gives up its oldest entry: the little irreps of a k with      *)
(* their canonical cell, the cell a parametric k asks for, the inverse     *)
(* transform of an irrep, and the atom layouts (FrameLayouts).  Failures   *)
(* are kept like answers.                                                  *)
(*                                                                         *)
(* A cell is a sequence of three rows, <<>> when there is none.  Memory    *)
(* runs out in at most one place of a frame, which is a pair naming the    *)
(* step and the allocation.                                                *)
(***************************************************************************)
EXTENDS FrameLayouts, Functions

CONSTANTS
    Source,          \* the tables: see SourceAssumption
    Asks,            \* bound of the model: what the 1st, 2nd, ... frame may be asked
    K_FAMILY_CACHE,  \* entries of the ring of k families (512)
    BASIS_CACHE,     \* of the ring of parametric cells (256)
    INVERSE_CACHE,   \* of the ring of inverse transforms (1024)
    MaxShort         \* bound of the model: frames in which memory runs out

Irreps == DOMAIN Source.old

ASSUME SourceAssumption ==
    /\ \A g \in Irreps :
          /\ g \in Nat \ {0} /\ Source.old[g] \in Nat          \* 0: no old irrep
          /\ Source.type[g] \in 1 .. 3
          /\ Source.inverse[g] \in {"ok", "failed"}            \* irrep_transform_inverse
          /\ Source.rows[g] \in Seq(Range(Source.rows[g]))
          /\ Source.old[g] = 0 => Source.rows[g] = <<>>
          /\ \A i \in DOMAIN Source.rows[g] : Source.rows[g][i].id > 0
    /\ \A g \in Source.misplaced : Source.old[g] > 0           \* the id has no pointer
    /\ K_FAMILY_CACHE \in Nat \ {0} /\ BASIS_CACHE \in Nat \ {0} /\ INVERSE_CACHE \in Nat \ {0}

NoCell == <<>>

(* The cells that a frame can come to, and what it may be asked: the layouts
   are those of the sites asked about in any of the cells, and the parametric
   k have their cells, or the error there is instead, in the tables. *)
AllAsks == UNION Range(Asks)
Cells ==
    ({ask.cell : ask \in AllAsks} \cup {ask.occurrence : ask \in AllAsks}
     \cup {row.cell : row \in UNION {Range(Source.rows[g]) : g \in Irreps}}
     \cup {Source.find[key].cell : key \in DOMAIN Source.find}) \ {NoCell}

ASSUME AskAssumption ==
    \A ask \in AllAsks :
        /\ ask.sg \in Nat
        /\ ask.site # 0 =>
              \A cell \in Cells : <<ask.sg, ask.site, cell, ask.setting>> \in Layouts
        /\ ask.params # "none" /\ Source.slots[ask.sg, ask.k] = 1 =>
              <<ask.sg, ask.k, ask.params>> \in DOMAIN Source.find

VARIABLES
    memos,   \* the three rings besides the layouts: k_families, basis_cache, inverse_cache
    frame,   \* the last frame: what was asked and answered, and the layouts it reads
    frames   \* how many there were, and in how many of them memory ran out

frameVars == <<layouts, memos, frame, frames>>

NoShortage == <<"none", "none">>
NoEntries == [ring |-> <<>>, next |-> 0]

(* An entry takes the slot `next`; the result is the ring and the entry. *)
Remember(R, size, entry) ==
    [ring |-> IF Len(R.ring) = size THEN [R.ring EXCEPT ![R.next + 1] = entry] ELSE Append(R.ring, entry),
     next |-> (R.next + 1) % size]

(* Of a list of conditions with an error each, the error of the first that
   holds, "ok" when none does. *)
FirstError(checks) ==
    LET at == SelectInSeq(checks, LAMBDA c : c[1])
    IN  IF at = 0 THEN "ok" ELSE checks[at][2]

-----------------------------------------------------------------------------
(* The irreps of a k are those with its label, one of each old irrep.  One
   without any label fails the whole family, unless it repeats an old irrep
   met before. *)
OwnKey(g) == IF Source.old[g] > 0 THEN Source.old[g] ELSE -g

Littles(sg, k) ==
    LET all == {g \in Irreps : Source.sg[g] = sg}
        new == {g \in all : \A h \in all : h < g /\ Source.k[h] = k => OwnKey(h) # OwnKey(g)}
    IN  [unlabelled |-> \E g \in new : Source.k[g] = "",
         gids |-> {g \in new : Source.k[g] = k}]

(* iso_rows: a row of no old irrep is none and takes no memory. *)
RowsError(g, starved) ==
    FirstError(<< <<g \in Source.misplaced, "key">>, <<starved /\ Source.old[g] > 0, "memory">> >>)

(* A family's canonical cell is that of the first isotropy row of its irreps,
   and the first irrep whose rows fail fails it. *)
FamilyOf(sg, k, found, starved) ==
    LET telling == {g \in found.gids : RowsError(g, starved) # "ok" \/ Source.rows[g] # <<>>}
        Made(status, cell) == [sg |-> sg, k |-> k, littles |-> found.gids, status |-> status, canonical |-> cell]
    IN  IF found.unlabelled THEN Made("value", NoCell)
        ELSE IF telling = {} THEN Made("ok", NoCell)
        ELSE LET first == Min(telling)
                 status == RowsError(first, starved)
             IN  Made(status, IF status = "ok" THEN Source.rows[first][1].cell ELSE NoCell)

MadeFamily(sg, k, short) == FamilyOf(sg, k, Littles(sg, k), short = <<"family", "rows">>)

\* A fault: a family is looked up by its label alone.
IsFamilyByLabel(f, sg, k) == f.k = k

IsFamily(f, sg, k) == f.sg = sg /\ f.k = k

(* k_family_of: the family and the ring after it.  When there is no memory
   for its lists the slot is taken by an entry nobody finds. *)
KFamilyOf(R, sg, k, short) ==
    LET at == SelectInSeq(R.ring, LAMBDA f : IsFamily(f, sg, k))
        none == [sg |-> -1, k |-> k, littles |-> {}, status |-> "memory", canonical |-> NoCell]
        After(family) == [memo |-> Remember(R, K_FAMILY_CACHE, family), family |-> family]
    IN  IF at # 0 THEN [memo |-> R, family |-> R.ring[at]]
        ELSE IF k \in Source.long THEN [memo |-> R, family |-> [none EXCEPT !.status = "value"]]
        ELSE After(IF short = <<"family", "lists">> THEN none ELSE MadeFamily(sg, k, short))

(* find_isotropy_basis: the cell of a parametric k, or why there is none. *)
FindBasis(R, key) ==
    LET at == SelectInSeq(R.ring, LAMBDA b : b.key = key)
        made == [key |-> key, found |-> Source.find[key]]
    IN  IF at # 0 THEN [memo |-> R, found |-> R.ring[at].found]
        ELSE [memo |-> Remember(R, BASIS_CACHE, made), found |-> made.found]

(* cached_transform_inverse.  A failure is kept, whatever its cause
   (`starved` marks the one that was not the irrep's); when there is no memory
   for the copy that is kept, the entry is one nobody finds. *)
TransformInverse(R, g, short) ==
    LET at == SelectInSeq(R.ring, LAMBDA e : e.gid = g)
        starved == short = <<"inverse", "transform">>
        status == IF starved THEN "failed" ELSE Source.inverse[g]
        made == [gid |-> IF status = "ok" /\ short = <<"inverse", "kept">> THEN 0 ELSE g,
                 status |-> status, starved |-> starved]
    IN  IF at # 0 THEN [memo |-> R, entry |-> R.ring[at]]
        ELSE [memo |-> Remember(R, INVERSE_CACHE, made), entry |-> made]

-----------------------------------------------------------------------------
(* The isotropy row: the one asked for; else for a k without parameters the
   canonical one (canonical_row, the lowest `rank`), for one with parameters
   the first in the direction of the site, if it has project entries; else
   the first at the origin; else the first. *)
ChosenRow(ask, rows) ==
    LET First(Test(_)) == SelectInSeq(rows, Test)
        named == IF ask.row = 0 THEN 0 ELSE First(LAMBDA r : r.id = ask.row)
        fitting == IF ask.params = "none"
                   THEN First(LAMBDA r : \A other \in Range(rows) : r.rank <= other.rank)
                   ELSE IF ask.entries = "some" THEN First(LAMBDA r : r.direction = ask.site) ELSE 0
        home == First(LAMBDA r : r.home)
        tries == <<named, fitting, home, 1>>
    IN  IF rows = <<>> THEN 0 ELSE tries[SelectInSeq(tries, LAMBDA i : i # 0)]

(* Its cell: the caller's for a row it named or rows it brought. *)
ChosenCell(ask, rows, at, found) ==
    IF ask.rows \/ (ask.row # 0 /\ \E r \in Range(rows) : r.id = ask.row) THEN ask.cell
    ELSE IF at # 0 THEN rows[at].cell
    ELSE found

(* The baseline is built in the canonical order of the rows of the cell. *)
BaselineCell(cell, canonical) ==
    IF cell # NoCell /\ canonical # NoCell /\ Range(cell) = Range(canonical) THEN canonical ELSE cell

(* The errors up to the parametric cell, and from there to the layouts. *)
EarlyError(ask, family, short) ==
    FirstError(<< <<family.status # "ok", family.status>>,
                  <<ask.gid \notin family.littles, "value">>,
                  <<ask.vector \notin 1 .. 3, "value">>,
                  <<short = <<"frame", "entries">>, "memory">>,
                  <<ask.entries = "missing", "key">>,
                  <<ask.params # "none" /\ Source.slots[ask.sg, ask.k] # 1, "key">> >>)

LateError(ask, found, rows, at, short) ==
    FirstError(<< <<found.status # "ok", found.status>>,
                  <<RowsError(ask.gid, short = <<"frame", "rows">>) # "ok",
                    RowsError(ask.gid, short = <<"frame", "rows">>)>>,
                  <<~ask.rows /\ at # 0 /\ rows[at].id > Source.rowCount, "key">>,
                  <<(ask.rows \/ at # 0) /\ short = <<"frame", "parameters">>, "memory">>,
                  <<~ask.rows /\ at = 0 /\ ask.params # "none", "runtime">>,
                  <<ask.sg \in Source.inconsistent, "value">>,
                  <<ask.setting = "wide", "arith">> >>)

(* mode_block: the display plan shows the caller's rows on the candidate, if
   there are entries, each of them complete; else the modes are bridged from
   the source rows on the baseline. *)
Block(ask, hasInverse, hasDirection, hasBaseline, hasSource, short) ==
    LET entries == ask.entries = "some"
    IN  FirstError(<< <<short = <<"frame", "block">>, "memory">>,
                      <<entries /\ ask.block = "unprojected", "entry">>,
                      <<entries /\ hasDirection /\ hasInverse /\ ask.block = "shown", "adopted">>,
                      <<~hasBaseline, "declined">>,
                      <<entries /\ (~hasInverse \/ ~hasSource), "nomodes">>,
                      <<entries /\ ask.block = "unbridged", "recordwise">> >>)

FrameAnswer(status, cell, row, atoms) == [status |-> status, cell |-> cell, row |-> row, atoms |-> atoms]
NoFrame(status) == FrameAnswer(status, NoCell, 0, NoLayout.key)

(* The end of a frame, from the layouts on.  A candidate whose tables do not
   fit is given up, another failure of it ends the frame; a baseline that
   failed only matters when nothing else is shown, except that memory running
   out ends the frame.  c, b: how the two layouts went. *)
Presented(ask, row, cell, c, b, transform, short) ==
    LET complex == Source.type[ask.gid] # 1
        direction == c.status = "ok" /\ ask.fits
        block == Block(ask, ~complex \/ transform.status = "ok", direction, b.status = "ok",
                       ask.rows \/ row # 0, short)
        ended == FirstError(<< <<c.status \notin {"ok", "none", "value"}, c.status>>,
                               <<b.status = "memory", "memory">>,
                               <<complex /\ short = <<"frame", "inverse">>, "memory">>,
                               <<direction /\ short = <<"frame", "direction">>, "memory">>,
                               <<block = "declined" /\ b.status # "none", b.status>>,
                               <<block = "declined", "empty">>,
                               <<block \notin {"ok", "adopted"}, block>> >>)
    IN  IF ended = "empty" THEN FrameAnswer("empty", cell, row, NoLayout.key)
        ELSE IF ended # "ok" THEN NoFrame(ended)
        ELSE FrameAnswer("ok", cell, row, IF block = "adopted" THEN c.layout.key ELSE b.layout.key)

At(short, step) == IF short[1] = step THEN short[2] ELSE "none"

(* The last part of a frame: the inverse transform and what is shown.  `late`
   is the first error so far; c and b say how the layouts went. *)
FrameShown(M, ask, short, family, row, cell, late, c, b) ==
    LET empty == late = "ok" /\ cell = NoCell /\ ~(ask.occurrence # NoCell /\ ask.rows)
        inverting == /\ late = "ok" /\ c.status \in {"ok", "none", "value"}
                     /\ ~empty /\ b.status # "memory"
                     /\ Source.type[ask.gid] # 1 /\ short # <<"frame", "inverse">>
        inverted == TransformInverse(M.inverses, ask.gid, short)
    IN  [layouts |-> b.mem,
         memos |-> IF inverting THEN [M EXCEPT !.inverses = inverted.memo] ELSE M,
         starved |-> \/ ask.site # 0 /\ family.status = "memory"
                     \/ inverting /\ inverted.entry.starved,
         reads |-> [candidate |-> c.layout, reused |-> c.hit, baseline |-> b.layout],
         answer |-> IF late # "ok" THEN NoFrame(late)
                    ELSE IF empty THEN FrameAnswer("empty", cell, row, NoLayout.key)
                    ELSE Presented(ask, row, cell, c, b, inverted.entry, short)]

(* The layouts: the candidate, of the cell of the caller's rows, and after it
   the baseline. *)
CandidateLayout(L, ask, late, short) ==
    IF /\ late = "ok" /\ ask.occurrence # NoCell /\ ask.rows
       /\ Source.type[ask.gid] = 1 /\ ask.params # "none" /\ ask.vector # 2
    THEN Materialize(L, <<ask.sg, ask.site, ask.occurrence, ask.setting>>, At(short, "candidate"))
    ELSE Outcome(L, "none", NoLayout, FALSE)

BaselineLayout(ask, cell, canonical, late, c, short) ==
    IF late = "ok" /\ c.status \in {"ok", "none", "value"} /\ cell # NoCell
    THEN Materialize(c.mem, <<ask.sg, ask.site, BaselineCell(cell, canonical), ask.setting>>,
                     At(short, "baseline"))
    ELSE Outcome(c.mem, "none", NoLayout, FALSE)

WithLayouts(M, ask, short, family, row, cell, canonical, late, c) ==
    FrameShown(M, ask, short, family, row, cell, late, c, BaselineLayout(ask, cell, canonical, late, c, short))

(* The row and the cell, once the cell of a parametric k is `found`; `early`
   is the first error before that. *)
Located(L, M, ask, short, family, found, early) ==
    LET rows == Source.rows[ask.gid]
        at == ChosenRow(ask, rows)
        late == IF early = "ok" THEN LateError(ask, found, rows, at, short) ELSE early
    IN  WithLayouts(M, ask, short, family, IF at = 0 THEN 0 ELSE rows[at].id,
                    ChosenCell(ask, rows, at, found.cell),
                    IF family.canonical # NoCell THEN family.canonical ELSE found.cell,
                    late, CandidateLayout(L, ask, late, short))

Parametrized(L, M, ask, short, family, early) ==
    LET based == FindBasis(M.bases, <<ask.sg, ask.k, ask.params>>)
        asked == early = "ok" /\ ask.params # "none"
    IN  Located(L, IF asked THEN [M EXCEPT !.bases = based.memo] ELSE M, ask, short, family,
                IF asked THEN based.found ELSE [status |-> "ok", cell |-> NoCell], early)

AfterFamily(L, M, ask, short, looked) ==
    LET sited == ask.site # 0
    IN  Parametrized(L, IF sited THEN [M EXCEPT !.families = looked.memo] ELSE M, ask, short,
                     looked.family,
                     IF sited THEN EarlyError(ask, looked.family, short) ELSE "key")

(* mode_frame: what it answers and keeps, asked this with these memos.
   `starved`: a memo it used was made when memory had run out. *)
ModeFrame(L, M, ask, short) ==
    AfterFamily(L, M, ask, short, KFamilyOf(M.families, ask.sg, ask.k, short))

NoMemos == [families |-> NoEntries, bases |-> NoEntries, inverses |-> NoEntries]

Shortages ==
    {<<"family", "lists">>, <<"family", "rows">>, <<"frame", "entries">>, <<"frame", "rows">>,
     <<"frame", "parameters">>, <<"candidate", "tables">>, <<"candidate", "layout">>,
     <<"baseline", "tables">>, <<"baseline", "layout">>, <<"frame", "inverse">>,
     <<"inverse", "transform">>, <<"inverse", "kept">>, <<"frame", "direction">>, <<"frame", "block">>}

(* The next frame.  A shortage of what the frame does not need is none, and
   one in the last frame of the model would show nothing. *)
Frame(ask, short) ==
    /\ frames.made < Len(Asks) /\ ask \in Asks[frames.made + 1]
    /\ short # NoShortage => frames.short < MaxShort /\ frames.made + 1 < Len(Asks)
    /\ \E now \in {ModeFrame(layouts, memos, ask, short)} :
           /\ short # NoShortage => now # ModeFrame(layouts, memos, ask, NoShortage)
           /\ layouts' = now.layouts
           /\ memos' = now.memos
           /\ frame' = [ask |-> ask, answer |-> now.answer, reads |-> now.reads,
                        starved |-> now.starved \/ short # NoShortage]
    /\ frames' = [made |-> frames.made + 1,
                  short |-> frames.short + IF short = NoShortage THEN 0 ELSE 1]

FramesInit ==
    /\ layouts = NoLayouts
    /\ memos = NoMemos
    /\ frame = [ask |-> "none", reads |-> [candidate |-> NoLayout, reused |-> FALSE, baseline |-> NoLayout]]
    /\ frames = [made |-> 0, short |-> 0]

FramesNext == \E ask \in AllAsks, short \in Shortages \cup {NoShortage} : Frame(ask, short)

-----------------------------------------------------------------------------
Live == {layouts.ring[slot] : slot \in DOMAIN layouts.ring} \cup {NoLayout}

(* The layouts a frame reads are still there when it reads them: its
   baseline always, and its candidate when the frame made it.  (A candidate
   that was found may be the oldest entry, and then making the baseline frees
   it: see README.) *)
FrameReadsLive ==
    /\ frame.reads.baseline \in Live
    /\ ~frame.reads.reused => frame.reads.candidate \in Live

(* Whatever the process was asked before, and whatever its rings have given
   up since, a frame answers as in a process that was asked for nothing else,
   unless memory ran out in it or in the making of a memo it used.  A shortage
   thus reaches later frames through the family and the transform that were
   being made, and through nothing else. *)
FrameAsAlone ==
    frames.made > 0 /\ ~frame.starved =>
        frame.answer = ModeFrame(NoLayouts, NoMemos, frame.ask, NoShortage).answer
=============================================================================
